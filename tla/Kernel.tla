------------------------------- MODULE Kernel -------------------------------
(***************************************************************************)
(* The predOS kernel: processes, the round-robin scheduler, wait and read  *)
(* queues, signals, and the UART receive interrupt that runs against all   *)
(* of them (kernel/kernel.c, kernel/proc/proc.c, kernel/isr/svc.c,         *)
(* kernel/isr/isr.c).                                                      *)
(*                                                                         *)
(* The kernel is not preemptive: one system call runs at a time.  But      *)
(* software_interrupt_handler enables IRQs first thing, so the interrupt   *)
(* can strike between any two steps of a call; a call is therefore split   *)
(* where the interrupt can change its outcome, and sys.at is where it      *)
(* stands.  Programs are arbitrary: in user mode the current process makes *)
(* any call of CALLS that the discipline RULES allows.                     *)
(***************************************************************************)
EXTENDS Mmu

CONSTANTS
    MAX_PROCESSES,   \* slots of pcb_list, read_queue and wait_queue
    SIGNALS,         \* signal numbers in play (a subset of 0 .. NSIG-1)
    MAX_TIMEOUT,     \* bound: longest usleep, in clock ticks
    MAX_LEVEL,       \* bound: deepest nesting of signal frames on a stack
    UART_RX_BUFFER_SIZE,
    CALLS,           \* the system calls the programs of this instance make
    RULES            \* what those programs are known to avoid, see May

Pid == 0 .. MAX_PROCESSES - 1
NoPid == -1
Level == 0 .. MAX_LEVEL
RxSize == 0 .. UART_RX_BUFFER_SIZE - 1

ASSUME KernelAssumption ==
    /\ MAX_PROCESSES \in Nat \ {0}
    /\ MAX_TIMEOUT \in Nat /\ MAX_LEVEL \in Nat
    /\ UART_RX_BUFFER_SIZE \in Nat \ {0}

\* Values of a saved r0: UNKNOWN is anything the properties do not look at.
UNKNOWN == -2
ERROR == -1

State == {"UNUSED", "READY", "RUNNING", "BLOCKED", "SLEEP", "SIGNAL"}
Blocked == {"NONE", "WAIT", "READ"}

\* A stack pointer: the section it points into, and how many signal frames
\* lie above it on that stack.  Two pointers are the same address iff equal.
Pointer == [section : Frame, level : Level]
NULL == [section |-> 0, level |-> 0]

\* process_control_block_t.  timer is timestamp - sys_uptime(), held at -1
\* once past; argv is the section the argument vector lives in, 0 for NULL;
\* signal_handler is the set of signals with a handler registered.
PCB == [parent_pid : Pid \cup {NoPid}, state : State, prev_state : State,
        text_frame : Frame, stack_frame : Frame, virtual_stack_frame : Frame,
        stack_pointer : Pointer, prev_stack_pointer : Pointer,
        timer : -1 .. MAX_TIMEOUT, blocked : Blocked,
        signal_handler : SUBSET SIGNALS, argv : Frame]

UnusedPcb ==
    [parent_pid |-> NoPid, state |-> "UNUSED", prev_state |-> "UNUSED",
     text_frame |-> 0, stack_frame |-> 0, virtual_stack_frame |-> 0,
     stack_pointer |-> NULL, prev_stack_pointer |-> NULL,
     timer |-> -1, blocked |-> "NONE", signal_handler |-> {}, argv |-> 0]

\* Init as boot leaves it: pid 0 has executed "init" from kernel_start.
InitPcb ==
    [UnusedPcb EXCEPT !.state = "READY", !.text_frame = 1, !.stack_frame = 2,
        !.virtual_stack_frame = 2, !.argv = 2,
        !.stack_pointer = [section |-> 2, level |-> 0]]

ReadTransaction == [pid : Pid \cup {NoPid}, buf : Frame, size : RxSize]
NoRead == [pid |-> NoPid, buf |-> 0, size |-> 0]

At == {"user", "read", "block", "exec", "exit", "fork", "ps", "sched", "ret",
       "crash"}

VARIABLES
    pcb,                 \* pcb_list
    pcb_curr,            \* the pid pcb_curr points to
    read_queue,
    wait_queue,
    system_frame_table,  \* the frames in use
    system_page_table,
    text_map,            \* the frame the root coarse table maps the text to
    saved_r0,            \* per stack frame and level, the r0 saved there
    rx_size,             \* the driver's count of received bytes
    sys                  \* the call in progress: where it is (at), its sp
                         \* argument and caller, a local, the value for sp[0]

procs == <<pcb, pcb_curr>>
queues == <<read_queue, wait_queue>>
tables == <<system_frame_table, system_page_table, text_map>>
vars == <<procs, queues, tables, saved_r0, rx_size, sys>>

UserMode ==
    [at |-> "user", caller |-> NoPid, sp |-> NULL, arg |-> 0, result |-> UNKNOWN]

TypeOK ==
    /\ pcb \in [Pid -> PCB]
    /\ pcb_curr \in Pid
    /\ read_queue \in [Pid -> ReadTransaction]
    /\ wait_queue \in [Pid -> Pid \cup {NoPid}]
    /\ system_frame_table \in SUBSET Frame
    /\ system_page_table \in PageTable
    /\ text_map \in Frame
    /\ saved_r0 \in [Frame -> [Level -> Int]]
    /\ rx_size \in RxSize
    /\ sys \in [at : At, caller : Pid \cup {NoPid}, sp : Pointer,
               arg : Int, result : Int]
    /\ sys.at = "fork" => sys.arg \in Pid
    /\ sys.at = "ps" => sys.arg \in Pid \cup {MAX_PROCESSES}
    /\ sys.at \in {"read", "block"} => sys.arg \in RxSize

\* Mutant: only the kernel's text is reserved.
ReservedTextOnly == {0}

\* The frames mmu_frame_table_init marks as in use.
Reserved == KERNEL_FRAMES

Init ==
    /\ pcb = [i \in Pid |-> IF i = 0 THEN InitPcb ELSE UnusedPcb]
    /\ pcb_curr = 0
    /\ read_queue = [i \in Pid |-> NoRead]
    /\ wait_queue = [i \in Pid |-> NoPid]
    /\ system_frame_table = Reserved \cup {1, 2}
    /\ system_page_table = [InitPageTable EXCEPT ![2] = 2]
    /\ text_map = 1
    /\ saved_r0 = [f \in Frame |-> [l \in Level |-> UNKNOWN]]
    /\ rx_size = 0
    /\ sys = UserMode

----------------------------------------------------------------------------
(* What the calls are made of. *)

Curr == pcb[pcb_curr]
Used(i) == pcb[i].state # "UNUSED"
UsedPcbs == {pcb[i] : i \in {j \in Pid : Used(j)}}
Dead(p) == p.stack_frame = 0
Unexeced(p) == p.virtual_stack_frame # p.stack_frame
Children(i) == {c \in Pid : Used(c) /\ pcb[c].parent_pid = i}

\* Process i has a transaction in the read queue, where it stays for ever.
Listens(i) == \E s \in Pid : read_queue[s].pid = i

\* The lowest process slot with a property: every search of kernel.c.
IsFirst(i, S) == i \in S /\ \A j \in S : i <= j

\* A store through the page table to a saved r0.
Writable(table, ptr) == table[ptr.section] \in Frame \ KERNEL_FRAMES
Write(mem, table, ptr, value) ==
    [mem EXCEPT ![table[ptr.section]][ptr.level] = value]

\* A stack frame whose contents do not matter any more.
Blank(f) == [saved_r0 EXCEPT ![f] = [l \in Level |-> UNKNOWN]]

\* Control is lost: an abort loops in data_abort_handler, or the kernel wrote
\* over memory that is not its target.  Nothing is claimed from there on.
Crash(table) ==
    /\ sys' = [UserMode EXCEPT !.at = "crash"]
    /\ system_page_table' = table
    /\ UNCHANGED <<procs, queues, system_frame_table, text_map, saved_r0, rx_size>>

\* Mapping a destroyed process, whose frames are 0, clears the descriptor of
\* section 0: the next table write, itself in section 0, aborts.
CrashUnmapped == Crash([system_page_table EXCEPT ![0] = FAULT])

\* A call goes on where the interrupt can come in between; or it has only to
\* reschedule ("sched") or to return ("ret"), storing its result in sp[0]
\* unless that is UNKNOWN.
Enter(at, arg) ==
    sys' = [at |-> at, caller |-> pcb_curr, sp |-> Curr.stack_pointer,
            arg |-> arg, result |-> UNKNOWN]
Leave(at, result) ==
    sys' = IF result = UNKNOWN THEN [UserMode EXCEPT !.at = at]
           ELSE [sys EXCEPT !.at = at, !.result = result]
Finish(at, result) ==
    sys' = IF result = UNKNOWN THEN [UserMode EXCEPT !.at = at]
           ELSE [at |-> at, caller |-> pcb_curr, sp |-> Curr.stack_pointer,
                 arg |-> 0, result |-> result]

\* The calls the current program makes.  Each rule is a habit of the programs
\* a run is about, not something the kernel enforces; one more, "typist", is
\* about who types (Serve).
May(call) ==
    /\ sys.at = "user"
    /\ call \in CALLS
    \* between fork and exec a child does nothing else
    /\ "spawn" \in RULES /\ Unexeced(Curr) => call \in {"exec", "exit"}
    \* a signal handler makes no call that reschedules
    /\ "handler" \in RULES /\ Curr.state = "SIGNAL" => call \in {"exit", "signal"}
    /\ call = "exit" /\ Curr.state # "SIGNAL" =>
          /\ "init" \in RULES => pcb_curr # 0
          \* nobody exits before its children have executed their program,
          \* or even before they have exited
          /\ "reap" \in RULES => \A c \in Children(pcb_curr) : ~Unexeced(pcb[c])
          /\ "orphan" \in RULES => Children(pcb_curr) = {}
          \* who has had to wait for a byte stays
          /\ "console" \in RULES => ~Listens(pcb_curr)
    \* wait is called for a child that has not exited yet
    /\ "wait" \in RULES /\ call = "wait" => Children(pcb_curr) # {}
    \* the first process never blocks
    /\ "idle" \in RULES /\ call \in {"wait", "read"} => pcb_curr # 0
    \* one process owns the console
    /\ "reader" \in RULES /\ call = "read" =>
          \A i \in Pid : Listens(i) => i = pcb_curr
    \* ps runs, and the console is read, when every process has executed its
    \* program
    /\ \/ "ps" \in RULES /\ call = "ps"
       \/ "console" \in RULES /\ call = "read"
       => \A i \in Pid : Used(i) => ~Unexeced(pcb[i])

----------------------------------------------------------------------------
(* Scheduling and the way back to user mode. *)

\* Mutant: the comparison the other way round.
ExpiredReversed(p) == p.timer > 0

Expired(p) == p.timer < 0

\* Mutant: a blocked process counts.
RunnableBlocked(p) ==
    p.state \in {"READY", "BLOCKED"} \/ (p.state = "SLEEP" /\ Expired(p))

Runnable(p) == p.state = "READY" \/ (p.state = "SLEEP" /\ Expired(p))

\* A sleeper that is due is made READY, not RUNNING, and runs all the same.
Picked(p) == [p EXCEPT !.state = IF p.state = "READY" THEN "RUNNING" ELSE "READY"]

\* Mutant: the search starts at slot 0.
AfterFromZero(k) == k - 1

\* The process k slots after the current one; k = MAX_PROCESSES is itself.
After(k) == (pcb_curr + k) % MAX_PROCESSES

\* while(kernel_schedule(&pid) != STATUS_OK); -- with nobody runnable the
\* kernel spins here, with interrupts on.
Schedule ==
    /\ sys.at = "sched"
    /\ \E k \in 1 .. MAX_PROCESSES :
          /\ Runnable(pcb[After(k)])
          /\ \A j \in 1 .. k - 1 : ~Runnable(pcb[After(j)])
          /\ pcb' = [pcb EXCEPT ![After(k)] = Picked(pcb[After(k)])]
          /\ pcb_curr' = After(k)
    /\ sys' = [sys EXCEPT !.at = "ret"]
    /\ UNCHANGED <<queues, tables, saved_r0, rx_size>>

\* The value svc_X stores in sp[0], if it stores one.
Stored(mem) ==
    IF sys.result = UNKNOWN THEN mem
    ELSE Write(mem, system_page_table, sys.sp, sys.result)

\* svc_X stores its result on the caller's stack, the context is switched and
\* the current process resumes from its stack_pointer.
Return ==
    /\ sys.at = "ret"
    /\ LET table == ContextSwitchTable(system_page_table, UsedPcbs, Curr)
           sp == Curr.stack_pointer
       IN IF /\ sys.result = UNKNOWN \/ Writable(system_page_table, sys.sp)
             /\ Writable(table, sp)
          THEN /\ system_page_table' = table
               /\ text_map' = Curr.text_frame
               /\ saved_r0' = Write(Stored(saved_r0), table, sp, UNKNOWN)
               /\ sys' = UserMode
               /\ UNCHANGED <<procs, queues, system_frame_table, rx_size>>
          ELSE Crash(table)

Yield ==
    /\ May("yield")
    /\ pcb' = [pcb EXCEPT ![pcb_curr].state = "READY"]
    /\ Finish("sched", 0)
    /\ UNCHANGED <<pcb_curr, queues, tables, saved_r0, rx_size>>

Usleep(timeout) ==
    /\ May("usleep")
    /\ pcb' = [pcb EXCEPT ![pcb_curr].state = "SLEEP", ![pcb_curr].timer = timeout]
    /\ Finish("sched", 0)
    /\ UNCHANGED <<pcb_curr, queues, tables, saved_r0, rx_size>>

\* sys_uptime() advances.  Only how far each timestamp lies ahead matters.
Tick ==
    /\ sys.at # "crash"
    /\ \E i \in Pid : pcb[i].timer > -1
    /\ pcb' = [i \in Pid |->
                 [pcb[i] EXCEPT !.timer = IF @ > -1 THEN @ - 1 ELSE @]]
    /\ UNCHANGED <<pcb_curr, queues, tables, saved_r0, rx_size, sys>>

----------------------------------------------------------------------------
(* fork, exec, wait, exit. *)

\* kernel_fork up to the copies: a slot and two frames for the child.  The
\* failure of proc_create is not looked at: the copies would then go over
\* section 0, the kernel itself.
Fork ==
    /\ May("fork")
    /\ LET free == {i \in Pid : ~Used(i)} IN
       \/ /\ free = {}
          /\ Finish("ret", ERROR)
          /\ UNCHANGED <<procs, queues, tables, saved_r0, rx_size>>
       \/ \E c \in free, text, stack \in Frame :
          /\ IsFirst(c, free)
          /\ IsFirstFree(text, system_frame_table)
          /\ IsFirstFree(stack, system_frame_table \cup {text})
          /\ LET child == [pcb[c] EXCEPT
                    !.text_frame = text, !.stack_frame = stack,
                    !.virtual_stack_frame = Curr.stack_frame,
                    !.stack_pointer = [section |-> stack, level |-> 0],
                    !.signal_handler = {}]
             IN /\ pcb' = [pcb EXCEPT ![c] = child]
                /\ system_page_table' =
                      ProcFrameWriteEnable(ProcFrameWriteEnable(system_page_table, child), Curr)
          /\ system_frame_table' = system_frame_table \cup {text, stack}
          /\ Enter("fork", c)
          /\ UNCHANGED <<pcb_curr, queues, text_map, saved_r0, rx_size>>
       \/ /\ free # {}
          /\ \A f, g \in Frame \ system_frame_table : f = g
          /\ Crash(system_page_table)

Identity(table, p) == \A f \in Frames(p) : table[f] = f

\* Mutant: the 0 goes to the parent.
ParentSection(child) == Curr.stack_pointer.section

\* Where kernel_fork stores the child's 0: the parent's stack pointer minus
\* the parent's stack frame plus the child's.
ChildSection(child) ==
    child.stack_frame + Curr.stack_pointer.section - Curr.stack_frame

\* Mutant: the child keeps the address used to store its 0.
ForkedSkewed(child) ==
    [child EXCEPT !.stack_pointer.level = Curr.stack_pointer.level,
                  !.parent_pid = pcb_curr, !.state = "READY"]

\* Mutant: the child is given its parent's state.
ForkedAlike(child) ==
    [child EXCEPT !.stack_pointer = Curr.stack_pointer,
                  !.parent_pid = pcb_curr, !.state = Curr.state]

Forked(child) ==
    [child EXCEPT !.stack_pointer = Curr.stack_pointer,
                  !.parent_pid = pcb_curr, !.state = "READY"]

\* The rest of kernel_fork: copy both frames by their identity addresses, give
\* the child its 0 and make it READY.
ForkCopy ==
    /\ sys.at = "fork"
    /\ LET c == sys.arg
           child == pcb[c]
           copied == [saved_r0 EXCEPT ![child.stack_frame] = saved_r0[Curr.stack_frame]]
           target == [Curr.stack_pointer EXCEPT !.section = ChildSection(child)]
       IN IF /\ Identity(system_page_table, child)
             /\ Identity(system_page_table, Curr)
             /\ target.section \in Frame
             /\ Writable(system_page_table, target)
          THEN /\ saved_r0' = Write(copied, system_page_table, target, 0)
               /\ pcb' = [pcb EXCEPT ![c] = Forked(child)]
               /\ system_page_table' = ProcFrameWriteDisable(system_page_table, child)
               /\ Leave("ret", c)
               /\ UNCHANGED <<pcb_curr, queues, system_frame_table, text_map, rx_size>>
          ELSE Crash(system_page_table)

\* kernel_execv gives the process its identity mapping, builds the argument
\* vector at the top of its stack and loads the file over its text.
Exec ==
    /\ May("exec")
    /\ system_page_table' = ProcFrameWriteEnable(system_page_table, Curr)
    /\ Enter("exec", 0)
    /\ UNCHANGED <<procs, queues, system_frame_table, text_map, saved_r0, rx_size>>

Execed(p) ==
    [p EXCEPT !.virtual_stack_frame = p.stack_frame, !.argv = p.stack_frame,
              !.stack_pointer = [section |-> p.stack_frame, level |-> 0],
              !.state = "READY"]

\* The file is loaded: a fresh stack, the pcb replaced.  (The -1 that
\* svc_execv stores lands in the discarded part of the old stack.)
ExecDone ==
    /\ sys.at = "exec"
    /\ Identity(system_page_table, Curr)
    /\ pcb' = [pcb EXCEPT ![pcb_curr] = Execed(Curr)]
    /\ saved_r0' = Blank(Curr.stack_frame)
    /\ Leave("ret", UNKNOWN)
    /\ UNCHANGED <<pcb_curr, queues, tables, rx_size>>

\* The file is missing, short or not an ELF image: the pcb is left alone.
ExecFails ==
    /\ sys.at = "exec"
    /\ system_page_table[Curr.stack_frame] = Curr.stack_frame
    /\ Leave("ret", ERROR)
    /\ UNCHANGED <<procs, queues, tables, saved_r0, rx_size>>

ExecAborts ==
    /\ sys.at = "exec"
    /\ ~Identity(system_page_table, Curr)
    /\ Crash(system_page_table)

\* kernel_wait; svc_wait stores nothing, whatever it returns: the r0 of a
\* waiter is what its child's exit puts there.
Wait ==
    /\ May("wait")
    /\ LET free == {i \in Pid : wait_queue[i] = NoPid} IN
       \/ \E slot \in free :
          /\ IsFirst(slot, free)
          /\ wait_queue' = [wait_queue EXCEPT ![slot] = pcb_curr]
          /\ pcb' = [pcb EXCEPT ![pcb_curr].state = "BLOCKED",
                                ![pcb_curr].blocked = "WAIT"]
          /\ Finish("sched", UNKNOWN)
       \/ /\ free = {}
          /\ Finish("ret", UNKNOWN)
          /\ UNCHANGED <<wait_queue, pcb>>
    /\ UNCHANGED <<pcb_curr, read_queue, tables, saved_r0, rx_size>>

\* Mutant: the stack pointer stays in the handler's frame.
SignalReturnedNoStack(p) == [p EXCEPT !.state = p.prev_state]

\* kernel_exit in a signal handler is the return from the handler.
SignalReturned(p) ==
    [p EXCEPT !.stack_pointer = p.prev_stack_pointer, !.state = p.prev_state]

SignalReturn ==
    /\ May("exit")
    /\ Curr.state = "SIGNAL"
    /\ pcb' = [pcb EXCEPT ![pcb_curr] = SignalReturned(Curr)]
    /\ Finish("sched", UNKNOWN)
    /\ UNCHANGED <<pcb_curr, queues, tables, saved_r0, rx_size>>

Exit ==
    /\ May("exit")
    /\ Curr.state # "SIGNAL"
    /\ system_page_table' = ProcFrameWriteDisable(system_page_table, Curr)
    /\ Enter("exit", 0)
    /\ UNCHANGED <<procs, queues, system_frame_table, text_map, saved_r0, rx_size>>

Destroyed(p) ==
    [p EXCEPT !.text_frame = 0, !.stack_frame = 0, !.stack_pointer = NULL,
              !.signal_handler = {}, !.state = "UNUSED"]
Woken(p) == [p EXCEPT !.state = "READY", !.blocked = "NONE"]

\* Mutant: looks for the pid that exits.
WaitingForSelf(parent) == {i \in Pid : wait_queue[i] = pcb_curr}

\* The slots kernel_exit acts on.  A parent_pid of -1 matches the free ones.
Waiting(parent) == {i \in Pid : wait_queue[i] = parent}

\* Mutant: the slots are not freed.
QueueKept(slots) == wait_queue

QueueWithout(slots) == [i \in Pid |-> IF i \in slots THEN NoPid ELSE wait_queue[i]]

\* The rest of kernel_exit: the frames go back, the parent gets the pid if it
\* waits.  pcb_list[-1] is written when an orphan matches a free slot.
ExitDestroy ==
    /\ sys.at = "exit"
    /\ LET parent == Curr.parent_pid
           slots == Waiting(parent)
           gone == [pcb EXCEPT ![pcb_curr] = Destroyed(Curr)]
           table == ProcFrameMap(system_page_table, pcb[parent])
           sp == pcb[parent].stack_pointer
       IN /\ \/ /\ slots = {}
                /\ pcb' = gone
                /\ UNCHANGED <<wait_queue, system_page_table, text_map>>
                /\ saved_r0' = Blank(Curr.stack_frame)
             \/ /\ slots # {} /\ parent # NoPid
                /\ ~Dead(gone[parent]) /\ Writable(table, sp)
                /\ pcb' = [gone EXCEPT ![parent] = Woken(gone[parent])]
                /\ wait_queue' = QueueWithout(slots)
                /\ system_page_table' = table
                /\ text_map' = pcb[parent].text_frame
                /\ saved_r0' = Write(Blank(Curr.stack_frame), table, sp, pcb_curr)
          /\ system_frame_table' = Deallocate(system_frame_table, Frames(Curr))
          /\ Leave("sched", UNKNOWN)
    /\ UNCHANGED <<pcb_curr, read_queue, rx_size>>

ExitAborts ==
    /\ sys.at = "exit"
    /\ LET parent == Curr.parent_pid IN
       /\ Waiting(parent) # {}
       /\ \/ parent = NoPid /\ Crash(system_page_table)
          \/ parent # NoPid /\ (Dead(pcb[parent]) \/ parent = pcb_curr) /\ CrashUnmapped
          \/ /\ parent # NoPid /\ ~Dead(pcb[parent])
             /\ LET table == ProcFrameMap(system_page_table, pcb[parent])
                IN ~Writable(table, pcb[parent].stack_pointer) /\ Crash(table)

----------------------------------------------------------------------------
(* Signals. *)

Signal(sig, on) ==
    /\ May("signal")
    /\ pcb' = [pcb EXCEPT ![pcb_curr].signal_handler =
                  IF on THEN @ \cup {sig} ELSE @ \ {sig}]
    /\ Finish("ret", UNKNOWN)
    /\ UNCHANGED <<pcb_curr, queues, tables, saved_r0, rx_size>>

\* kernel_raise with a handler: one more frame on the stack, whose lr makes
\* the handler return into _exit. One step: a byte between the copy of the
\* state and the store of SIGNAL, whose wakeup that store would undo, is left
\* out, and so is one between kill's three stores.
Raised(p) ==
    [p EXCEPT !.prev_state = IF p.state = "RUNNING" THEN "READY" ELSE p.state,
              !.state = "SIGNAL",
              !.prev_stack_pointer = p.stack_pointer,
              !.stack_pointer.level = p.stack_pointer.level + 1]

Raise(sig) ==
    /\ May("raise")
    /\ sig \in Curr.signal_handler => Curr.stack_pointer.level < MAX_LEVEL
    /\ IF sig \in Curr.signal_handler
       THEN pcb' = [pcb EXCEPT ![pcb_curr] = Raised(Curr)] /\ Finish("ret", 0)
       ELSE pcb' = pcb /\ Finish("ret", ERROR)
    /\ UNCHANGED <<pcb_curr, queues, tables, saved_r0, rx_size>>

\* kernel_kill leaves the target current, whether it had a handler or not:
\* it is the target that returns to user mode.
Kill(pid, sig) ==
    /\ May("kill")
    /\ Used(pid) /\ sig \in pcb[pid].signal_handler =>
          pcb[pid].stack_pointer.level < MAX_LEVEL
    /\ "handled" \in RULES => sig \in pcb[pid].signal_handler
    /\ LET yielded == [pcb EXCEPT ![pcb_curr].state = "READY"]
           table == ProcFrameMap(system_page_table, pcb[pid])
           handled == sig \in pcb[pid].signal_handler
       IN IF ~Used(pid)
          THEN Finish("ret", ERROR) /\ UNCHANGED <<procs, tables, queues, saved_r0, rx_size>>
          ELSE IF handled /\ ~Writable(table, pcb[pid].stack_pointer)
          THEN Crash(table)
          ELSE /\ pcb' = IF handled
                         THEN [yielded EXCEPT ![pid] = Raised(yielded[pid])]
                         ELSE yielded
               /\ pcb_curr' = pid
               /\ system_page_table' = table
               /\ text_map' = pcb[pid].text_frame
               /\ Finish("ret", IF handled THEN 0 ELSE ERROR)
               /\ UNCHANGED <<queues, system_frame_table, saved_r0, rx_size>>

----------------------------------------------------------------------------
(* Reading the console, and the interrupt that feeds it. *)

\* kernel_read(STDIN_FILENO): bytes that are there are taken at once.  They go
\* to a buffer on the caller's stack.
Read(len) ==
    /\ May("read")
    /\ IF len <= rx_size
       THEN rx_size' = rx_size - len /\ Finish("ret", len)
       ELSE rx_size' = rx_size /\ Enter("read", len)
    /\ UNCHANGED <<procs, queues, tables, saved_r0>>

\* Too few bytes: a free slot of the read queue, if there is one ...
ReadEnqueue ==
    /\ sys.at = "read"
    /\ LET free == {i \in Pid : read_queue[i].pid = NoPid} IN
       \/ /\ free = {}
          /\ UNCHANGED read_queue
       \/ \E slot \in free :
          /\ IsFirst(slot, free)
          /\ read_queue' = [read_queue EXCEPT ![slot] =
                [pid |-> pcb_curr, buf |-> sys.sp.section, size |-> sys.arg]]
    /\ sys' = [sys EXCEPT !.at = "block"]
    /\ UNCHANGED <<procs, wait_queue, tables, saved_r0, rx_size>>

\* ... and then the state.
ReadBlock ==
    /\ sys.at = "block"
    /\ pcb' = [pcb EXCEPT ![pcb_curr].state = "BLOCKED",
                          ![pcb_curr].blocked = "READ"]
    /\ Leave("sched", ERROR)
    /\ UNCHANGED <<pcb_curr, queues, tables, saved_r0, rx_size>>

\* The transactions a count of received bytes satisfies.
Satisfied(size) ==
    {i \in Pid : read_queue[i].pid # NoPid /\ read_queue[i].size <= size}

\* Mutant: the slot is freed when it is served.
QueueFreed(i) == [read_queue EXCEPT ![i] = NoRead]

\* Nothing ever frees a slot: a transaction stays and takes later bytes too.
QueueAfter(i) == read_queue

\* Mutant: the count does not wrap.
ReceivedUnbounded == rx_size + 1

\* uart_irq_handler counts the byte; the count wraps at the buffer's size.
Received == (rx_size + 1) % UART_RX_BUFFER_SIZE

\* A byte nobody gets.
Receive ==
    /\ sys.at # "crash"
    /\ Satisfied(Received) = {}
    /\ rx_size' = Received
    /\ UNCHANGED <<procs, queues, tables, saved_r0, sys>>

\* A process is being started: its frames are copied, its file is loaded or it
\* is about to run for the first time; or one is being ended.
Starting == sys.at \in {"fork", "exec"} \/ (sys.at = "ret" /\ Unexeced(Curr))
Ending == sys.at = "exit" \/ Dead(Curr)

\* kernel_read_queue_update: the reader is mapped, gets its bytes and their
\* number, becomes READY whatever it was; the current process is mapped again.
Serve(i) ==
    /\ sys.at # "crash"
    /\ "typist" \in RULES => ~Starting /\ ~Ending
    /\ IsFirst(i, Satisfied(Received))
    /\ LET r == read_queue[i]
           p == pcb[r.pid]
           table == ProcFrameMap(system_page_table, p)
       IN IF Dead(p)
          THEN CrashUnmapped
          ELSE IF table[r.buf] = FAULT \/ ~Writable(table, p.stack_pointer)
          THEN Crash(table)
          ELSE IF Dead(Curr)
          THEN CrashUnmapped
          ELSE /\ rx_size' = Received - r.size
               /\ saved_r0' = Write(saved_r0, table, p.stack_pointer, r.size)
               /\ pcb' = [pcb EXCEPT ![r.pid] = Woken(p)]
               /\ system_page_table' = ProcFrameMap(table, Curr)
               /\ text_map' = Curr.text_frame
               /\ read_queue' = QueueAfter(i)
               /\ UNCHANGED <<pcb_curr, wait_queue, system_frame_table, sys>>

----------------------------------------------------------------------------
(* kernel_ps: every process in use is mapped in turn to print its argv[0]. *)

Ps ==
    /\ May("ps")
    /\ Enter("ps", 0)
    /\ UNCHANGED <<procs, queues, tables, saved_r0, rx_size>>

PsStep ==
    /\ sys.at = "ps" /\ sys.arg < MAX_PROCESSES
    /\ LET p == pcb[sys.arg]
           table == ProcFrameMap(system_page_table, p)
       IN \/ /\ IF Used(sys.arg)
                THEN /\ ~Dead(p) /\ table[p.argv] # FAULT
                     /\ system_page_table' = table
                     /\ text_map' = p.text_frame
                ELSE UNCHANGED <<system_page_table, text_map>>
             /\ sys' = [sys EXCEPT !.arg = @ + 1]
             /\ UNCHANGED <<procs, queues, system_frame_table, saved_r0, rx_size>>
          \* argv is NULL or points into memory that is not the process's own
          \/ /\ Used(sys.arg) /\ table[p.argv] # p.stack_frame
             /\ Crash(table)

PsDone ==
    /\ sys.at = "ps" /\ sys.arg = MAX_PROCESSES
    /\ sys' = [sys EXCEPT !.at = "ret", !.arg = 0, !.result = 0]
    /\ UNCHANGED <<procs, queues, tables, saved_r0, rx_size>>

----------------------------------------------------------------------------
\* A program's next system call.
UserCall ==
    \/ Yield
    \/ \E timeout \in 0 .. MAX_TIMEOUT : Usleep(timeout)
    \/ Fork \/ Exec \/ Wait \/ SignalReturn \/ Exit
    \/ \E sig \in SIGNALS, on \in BOOLEAN : Signal(sig, on)
    \/ \E sig \in SIGNALS : Raise(sig)
    \/ \E pid \in Pid, sig \in SIGNALS : Kill(pid, sig)
    \/ \E len \in RxSize \ {0} : Read(len)
    \/ Ps

\* The kernel going on with a call.
KernelStep ==
    \/ Schedule \/ Return
    \/ ForkCopy
    \/ ExecDone \/ ExecFails \/ ExecAborts
    \/ ExitDestroy \/ ExitAborts
    \/ ReadEnqueue \/ ReadBlock
    \/ PsStep \/ PsDone

\* The UART receive interrupt.
Interrupt == Receive \/ \E i \in Pid : Serve(i)

Next == UserCall \/ KernelStep \/ Interrupt \/ Tick

Spec == Init /\ [][Next]_vars

============================================================================
