-------------------------- MODULE KernelProperties --------------------------
(***************************************************************************)
(* What the kernel guarantees, and under which habits of its programs.     *)
(***************************************************************************)
EXTENDS Kernel, FiniteSets

Alive == sys.at # "crash"

----------------------------------------------------------------------------
(* Whatever the programs do. *)

\* At most one process is marked RUNNING and it is the one pcb_curr points to;
\* while the kernel looks for the next process, none is.  Every call, the
\* signal paths and the interrupt move states independently of pcb_curr
\* (kernel_schedule, kernel_raise, kernel_kill, kernel_read_queue_update).
RunningIsCurrent ==
    Alive => \A i \in Pid : pcb[i].state = "RUNNING" => i = pcb_curr /\ sys.at # "sched"

\* Who a frame belongs to.  A process under construction in kernel_fork is
\* still UNUSED but holds its frames.
Holds(i) == Used(i) \/ (sys.at = "fork" /\ i = sys.arg)

\* The frame table is exact: a frame is in use iff it is the kernel's or some
\* process's, and no two owners share one -- no leak, no double allocation
\* (mmu_allocate_frame, proc_create, proc_destroy).
FrameOwnership ==
    Alive =>
      /\ \A f \in Frame : f \in system_frame_table <=>
            f \in KERNEL_FRAMES \/ \E i \in Pid : Holds(i) /\ f \in Frames(pcb[i])
      /\ \A i \in Pid : Holds(i) =>
            /\ pcb[i].text_frame # pcb[i].stack_frame
            /\ Frames(pcb[i]) \cap KERNEL_FRAMES = {}
            /\ \A j \in Pid \ {i} : Holds(j) => Frames(pcb[i]) \cap Frames(pcb[j]) = {}

\* Until control is lost, no mapping or unmapping of a process touches the
\* kernel's own sections -- a destroyed process's frames are 0, the section of
\* the page tables themselves (proc_frame_map, proc_frame_write_disable).
KernelSectionsMapped ==
    Alive => \A f \in KERNEL_FRAMES : system_page_table[f] = InitPageTable[f]

\* RunningIsCurrent made inductive: what a handler's return restores, and what
\* kernel_raise saves for it, is never RUNNING.
RunningInv ==
    Alive => \A i \in Pid :
      /\ pcb[i].state = "RUNNING" => i = pcb_curr /\ sys.at # "sched"
      /\ pcb[i].prev_state # "RUNNING"

\* FrameOwnership and KernelSectionsMapped made inductive: the kernel maps only
\* processes that hold frames.  A free slot keeps no frame to be mistaken for
\* one (the interrupt tells a stale reader by it), a handler's return does not
\* free the slot, and the current process exists unless one is being looked for.
FrameInv ==
    /\ FrameOwnership
    /\ KernelSectionsMapped
    /\ Alive =>
         /\ sys.at # "sched" => Used(pcb_curr)
         /\ \A i \in Pid :
              /\ Holds(i) => pcb[i].virtual_stack_frame \notin KERNEL_FRAMES
              /\ ~Holds(i) => Dead(pcb[i])
              /\ pcb[i].state = "SIGNAL" => pcb[i].prev_state # "UNUSED"

----------------------------------------------------------------------------
(* For programs that keep the RULES of their run. *)

\* Control is never lost: no copy, load, store or table write of the kernel
\* goes through a section that is unmapped or somebody else's.
NoAbort == Alive

\* A program finds its own stack where its stack pointer is and its own text
\* under the coarse table, whatever was mapped for other processes in between
\* (kernel_context_switch; kernel_read_queue_update maps the reader and must
\* restore the current process).
OwnMemory ==
    sys.at = "user" =>
      /\ text_map = Curr.text_frame
      /\ system_page_table[Curr.stack_pointer.section] = Curr.stack_frame

\* No section leads a program to memory that is neither its own nor the
\* kernel's: every mapping made for another process (fork, exec, kill, ps, a
\* woken parent) is gone (kernel_context_switch).
Isolation ==
    sys.at = "user" => \A f \in Frame \ KERNEL_FRAMES :
      system_page_table[f] \in {FAULT, Curr.stack_frame}

\* What svc_X stores in sp[0] lands on its caller's stack, although another
\* process may be current by then (kernel_yield, kernel_kill, kernel_ps).
ResultToCaller ==
    sys.at = "ret" /\ sys.result # UNKNOWN =>
      system_page_table[sys.sp.section] = pcb[sys.caller].stack_frame

\* The r0 that process i resumes with.
ResumeR0(i) == saved_r0[pcb[i].stack_frame][pcb[i].stack_pointer.level]

\* fork returns 0 in the child, whatever happens before the child first runs:
\* until it has executed its program a child that is not current has not run.
ChildSeesZero ==
    Alive => \A i \in Pid :
      Used(i) /\ Unexeced(pcb[i]) /\ i # pcb_curr => ResumeR0(i) = 0

\* A process that waits; a signal handler may run on top of the wait.
Waits(i) ==
    /\ pcb[i].blocked = "WAIT"
    /\ \/ pcb[i].state = "BLOCKED"
       \/ pcb[i].state = "SIGNAL" /\ pcb[i].prev_state = "BLOCKED"

\* The wait queue holds exactly the waiting processes, each once.
WaitQueueExact ==
    Alive =>
      /\ \A i \in Pid : Waits(i) <=> \E s \in Pid : wait_queue[s] = i
      /\ \A s, t \in Pid : wait_queue[s] = wait_queue[t] /\ wait_queue[s] # NoPid => s = t

\* Nobody waits in vain: a waiting process has a child left whose exit will
\* find it (kernel_wait and kernel_exit, no wakeup lost between them).
WaiterHasChild ==
    Alive => \A i \in Pid : Waits(i) => Children(i) # {}

\* wait ends only by the exit of a child of the waiter, whose pid is its result,
\* if the waiter has not had to wait for a byte before: kernel.c keeps that
\* transaction, and the next byte would end the wait.
WaitReturnsChild ==
    [][\A i \in Pid : Waits(i) /\ ~Waits(i)' /\ ~Listens(i) /\ Alive' =>
          \E c \in Children(i) : /\ Used(c) /\ ~Used(c)'
                                 /\ ResumeR0(i)' = c]_vars

\* The scheduler always has somebody to find, now or when a timer is due: the
\* kernel never spins in kernel_schedule for ever.
SomebodyRunnable ==
    sys.at = "sched" => \E i \in Pid : pcb[i].state \in {"READY", "SLEEP"}

\* A signal frame is on a stack exactly while its handler runs, on top of the
\* context it interrupted; a handler is never left behind by the scheduler
\* (kernel_raise, kernel_kill, kernel_exit as the return from a handler).
HandlerOnTop ==
    Alive => \A i \in Pid : Used(i) =>
      /\ pcb[i].state = "SIGNAL" <=> pcb[i].stack_pointer.level = 1
      /\ pcb[i].state = "SIGNAL" =>
           /\ i = pcb_curr
           /\ pcb[i].prev_state \in {"READY", "BLOCKED", "SLEEP"}
           /\ pcb[i].prev_stack_pointer = [pcb[i].stack_pointer EXCEPT !.level = 0]

----------------------------------------------------------------------------
(* The habits of a run's programs, as conditions on its CALLS and RULES, and *)
(* the properties above made inductive under them.                           *)

\* Where a handler can run at all, it makes no call that reschedules.
HandlersRunThrough == "handler" \in RULES \/ CALLS \cap {"raise", "kill"} = {}

\* Signals are sent to processes that handle them.
SignalsHandled == "handled" \in RULES \/ "kill" \notin CALLS

\* wait is called for a child.
WaitsForChild == "wait" \in RULES \/ "wait" \notin CALLS

\* Nobody reads the console.
NoReads == "read" \notin CALLS

\* The first process, init, stays.
InitStays == "init" \in RULES \/ "exit" \notin CALLS

\* A child executes a program before anything else, and before its parent
\* ends; ps runs, and the console is read, when every process has done so; who
\* has queued a read stays, and no byte that it may take comes while a process
\* is being started or ended.
ProgramsFirst ==
    /\ "spawn" \in RULES
    /\ "reap" \in RULES \/ "exit" \notin CALLS
    /\ "ps" \in RULES \/ "ps" \notin CALLS
    /\ {"console", "typist"} \subseteq RULES \/ "read" \notin CALLS

\* All the habits the kernel's mapping of its processes needs.
Habits == HandlersRunThrough /\ SignalsHandled /\ ProgramsFirst

\* Frames for every process there can be.
Roomy == Cardinality(Frame \ KERNEL_FRAMES) >= 2 * MAX_PROCESSES

\* Nobody has queued for the console.  From the first queued reader on, the
\* interrupt makes processes READY that wait or handle a signal.
Quiet == \A i \in Pid : read_queue[i].pid = NoPid

\* HandlerOnTop made inductive: a handler runs in user mode or is about to,
\* and every other stack is without a signal frame.
SignalInv ==
    Alive /\ Quiet => \A i \in Pid : Used(i) =>
      /\ pcb[i].state # "SIGNAL" => pcb[i].stack_pointer.level = 0
      /\ pcb[i].state = "SIGNAL" =>
           /\ i = pcb_curr /\ sys.at \in {"user", "ret"}
           /\ CALLS \cap {"raise", "kill"} # {}
           /\ pcb[i].prev_state \in {"READY", "BLOCKED", "SLEEP"}
           /\ pcb[i].stack_pointer.level = 1
           /\ pcb[i].prev_stack_pointer = [pcb[i].stack_pointer EXCEPT !.level = 0]

\* WaitQueueExact made inductive: before anybody reads, whoever is blocked
\* waits, the current process is not blocked and a child under construction
\* not in use.
WaitInv ==
    Alive /\ Quiet =>
      /\ WaitQueueExact
      /\ sys.at # "block"
      /\ sys.at # "sched" => Curr.state # "BLOCKED"
      /\ sys.at = "fork" => ~Used(sys.arg)
      /\ \A i \in Pid :
            \/ pcb[i].state = "BLOCKED"
            \/ pcb[i].state = "SIGNAL" /\ pcb[i].prev_state = "BLOCKED"
            => pcb[i].blocked = "WAIT"

\* Every process has a parent but init, which stays.
TreeInv ==
    Alive /\ Quiet =>
      /\ Used(0) /\ pcb[0].parent_pid = NoPid
      /\ sys.at = "exit" => pcb_curr # 0
      /\ \A i \in Pid \ {0} : Used(i) => pcb[i].parent_pid # NoPid

\* A blocked process, under a handler or not.
Stopped(i) ==
    \/ pcb[i].state = "BLOCKED"
    \/ pcb[i].state = "SIGNAL" /\ pcb[i].prev_state = "BLOCKED"

\* What is left of SignalInv and WaitInv when the console is read: the current
\* process is not blocked, and a process that does not listen is in a handler
\* only while it runs, and stays blocked as long as it is queued for its
\* children.
HeldInv ==
    Alive =>
      /\ sys.at # "sched" => Curr.state # "BLOCKED"
      /\ \A i \in Pid : pcb[i].state = "SIGNAL" => CALLS \cap {"raise", "kill"} # {}
      /\ \A i \in Pid : ~Listens(i) =>
            /\ pcb[i].state = "SIGNAL" =>
                  /\ i = pcb_curr /\ sys.at \in {"user", "ret"}
                  /\ pcb[i].prev_state # "SIGNAL"
            /\ (\E s \in Pid : wait_queue[s] = i) => Stopped(i)

\* ... and of TreeInv: who ends is not init, and everybody else has a parent.
ParentInv ==
    Alive =>
      /\ sys.at = "exit" => pcb_curr # 0
      /\ \A i \in Pid \ {0} : Used(i) => pcb[i].parent_pid # NoPid

AllExeced == \A i \in Pid : Used(i) => ~Unexeced(pcb[i])

\* Where the stacks are.  A process sees its stack in the section it was
\* executed in; a child that has not executed a program sees it in its
\* parent's, and nothing but running has happened to it.
Layout ==
    \A i \in Pid : Used(i) =>
      /\ pcb[i].stack_pointer.section = pcb[i].virtual_stack_frame
      /\ pcb[i].state = "SIGNAL" =>
            pcb[i].prev_stack_pointer.section = pcb[i].virtual_stack_frame
      /\ ~Unexeced(pcb[i]) => pcb[i].argv = pcb[i].stack_frame
      /\ Unexeced(pcb[i]) =>
           /\ pcb[i].parent_pid \in Pid /\ Used(pcb[i].parent_pid)
           /\ ~Unexeced(pcb[pcb[i].parent_pid])
           /\ pcb[i].virtual_stack_frame = pcb[pcb[i].parent_pid].stack_frame
           /\ pcb[i].signal_handler = {}
           /\ pcb[i].state \in {"READY", "RUNNING"}

\* What the page table holds.  A frame that is not in use is nowhere mapped,
\* and from the way in to the way out a call finds its process mapped.
Mapped ==
    /\ \A f \in Frame \ system_frame_table : system_page_table[f] = FAULT
    /\ sys.at \notin {"sched", "ret", "exit"} =>
          system_page_table[Curr.virtual_stack_frame] = Curr.stack_frame
    /\ sys.at = "user" => text_map = Curr.text_frame
    /\ sys.at = "user" /\ Quiet => \A f \in Frame \ KERNEL_FRAMES :
          system_page_table[f] \in {FAULT, Curr.stack_frame}
    /\ sys.at \in {"exec", "fork"} => Identity(system_page_table, Curr)
    /\ sys.at = "fork" => Identity(system_page_table, pcb[sys.arg])
    /\ sys.at = "exit" => \A f \in Frames(Curr) : system_page_table[f] = FAULT

\* What a call in progress knows of its caller, whoever is current by then.
CallInv ==
    /\ sys.at \in {"read", "block", "exec", "fork", "ps"} =>
          sys.caller = pcb_curr /\ sys.sp = Curr.stack_pointer
    /\ sys.at \in {"sched", "ret"} /\ sys.result # UNKNOWN =>
         /\ sys.caller \in Pid /\ Used(sys.caller)
         /\ sys.sp.section = pcb[sys.caller].virtual_stack_frame
         /\ system_page_table[sys.sp.section] = pcb[sys.caller].stack_frame
         /\ Unexeced(pcb[sys.caller]) => sys.caller = pcb_curr
    /\ sys.at = "sched" /\ Used(pcb_curr) => ~Unexeced(Curr)
    /\ sys.at = "fork" =>
         /\ ~Used(sys.arg) /\ ~Unexeced(Curr)
         /\ pcb[sys.arg].virtual_stack_frame = Curr.stack_frame
         /\ pcb[sys.arg].signal_handler = {}
    /\ sys.at = "exit" => \A c \in Children(pcb_curr) : ~Unexeced(pcb[c])

\* The read queue names processes that stay, run their own programs and take
\* their bytes on their own stacks.
ReadInv ==
    /\ sys.at \in {"read", "block", "ps"} => AllExeced
    /\ ~Quiet \/ sys.at \in {"read", "block"} => ~NoReads
    /\ sys.at = "exit" => ~Listens(pcb_curr)
    /\ \A s \in Pid : read_queue[s].pid # NoPid =>
          /\ Used(read_queue[s].pid) /\ ~Unexeced(pcb[read_queue[s].pid])
          /\ read_queue[s].buf = pcb[read_queue[s].pid].stack_frame

\* OwnMemory, Isolation, ResultToCaller and ChildSeesZero made inductive.
MemoryInv == Alive => Layout /\ Mapped /\ CallInv /\ ReadInv /\ ChildSeesZero

----------------------------------------------------------------------------
(* Progress.  The kernel goes on with a call it is in (its code has no other  *)
(* waiting than the scheduler's), the clock runs, and programs, which the     *)
(* kernel cannot preempt, give up the processor again and again.              *)

Reschedules ==
    \/ Yield \/ Exit \/ SignalReturn
    \/ Wait /\ sys'.at = "sched"
    \/ \E timeout \in 0 .. MAX_TIMEOUT : Usleep(timeout)

Fairness == WF_vars(KernelStep) /\ WF_vars(Tick) /\ SF_vars(Reschedules)

FairSpec == Spec /\ Fairness

\* Somebody goes on typing.
TypingSpec == FairSpec /\ SF_vars(Interrupt)

Runs(i) == pcb_curr = i /\ sys.at = "user"

\* Nobody starves: the round robin of kernel_schedule comes to every READY
\* process, and to every sleeper once its time is past.
NobodyStarves ==
    \A i \in Pid :
      \/ pcb[i].state = "READY" /\ (i # pcb_curr \/ sys.at = "sched")
      \/ pcb[i].state = "SLEEP"
      ~> Runs(i)

\* A reader of the console is served in the end: no byte that arrives between
\* the look at the buffer, the queueing and the blocking loses it its place in
\* the queue, nor does a full queue (kernel_read).
ReaderServed ==
    \A i \in Pid : pcb[i].state = "BLOCKED" /\ pcb[i].blocked = "READ" ~> Runs(i)

\* A waiting process is woken in the end, if programs end and none ends before
\* its children (kernel_exit).  A child left behind belongs to whoever gets its
\* parent's pid next, and two processes can so wait for each other for ever.
ProgramsEnd == \A i \in Pid : SF_vars(Exit /\ pcb_curr = i)
NoOrphans ==
    \A i \in Pid : Used(i) /\ pcb[i].parent_pid # NoPid => Used(pcb[i].parent_pid)
WaiterRuns == ProgramsEnd /\ []NoOrphans => \A i \in Pid : Waits(i) ~> Runs(i)

----------------------------------------------------------------------------
(* What the source says of itself and the code does not do. *)

\* mmu.c:80-81: the root coarse page table is "the page table responsible
\* mapping the addresses from 0x00000000 - 0x00100000".
CoarseTableMapped == system_page_table[0] = COARSE
============================================================================
