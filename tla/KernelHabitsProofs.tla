------------------------ MODULE KernelHabitsProofs -------------------------
(***************************************************************************)
(* What holds of the kernel for programs with the habits that Habits names *)
(* (of a shell that reads and goes on, and of who types to it), for every  *)
(* number of processes and frames: signals and waiting, and memory.        *)
(*                                                                         *)
(* Signals and waiting: whoever is in a handler runs it to its end before  *)
(* anybody else runs (SignalInv), so that a process that is blocked stays  *)
(* so, under its handlers too, until the exit of its child finds it in the *)
(* queue (WaitInv); and everybody but init has a parent (TreeInv), so that *)
(* not everybody can wait for somebody else. These hold until somebody has *)
(* queued a read; what is left of them afterwards, for the processes that  *)
(* have not, is HeldInv and ParentInv.                                     *)
(*                                                                         *)
(* Memory, that is, a program runs with its own, results reach their       *)
(* callers and control is not lost: the page table maps no frame that is   *)
(* not in use, and the process in a call; whoever else is in the table     *)
(* sees its stack where it was executed, or is a child that has not run    *)
(* yet and whose parent has gone on (MemoryInv, in the parts Layout,       *)
(* Mapped, CallInv, ReadInv and ChildSeesZero; it leans on HeldInv). Every *)
(* place at which the kernel could lose control is then one that a step    *)
(* does not reach.                                                         *)
(***************************************************************************)
EXTENDS KernelProofs, FiniteSetTheorems

----------------------------------------------------------------------------
(* What can happen at all. *)

\* A step starts in a kernel that is not lost.
LEMMA NextAlive == Next => Alive
  BY DEF Next, UserCall, Yield, Usleep, Fork, Exec, Wait, SignalReturn, Exit, Signal, Raise, Kill,
         Read, Ps, May, KernelStep, Schedule, Return, ForkCopy, ExecDone, ExecFails, ExecAborts,
         ExitDestroy, ExitAborts, ReadEnqueue, ReadBlock, PsStep, PsDone, Interrupt, Receive,
         Serve, Tick, Alive

\* Only kernel_read queues a reader.
LEMMA QueueSteps ==
    ASSUME TypeOK, Next, Alive'
    PROVE  UNCHANGED read_queue \/ ReadEnqueue
<1>1. CASE UserCall
  <2>1. ASSUME NEW c \in Pid, NEW text \in Frame, NEW stack \in Frame, Spawned(c, text, stack)
        PROVE  UNCHANGED read_queue
    BY <2>1 DEF Spawned, queues
  <2>2. CASE Fork
    BY <2>1, <2>2, ForkEffect DEF queues
  <2>3. ASSUME NEW pid \in Pid, NEW sig \in SIGNALS, Kill(pid, sig)
        PROVE  UNCHANGED read_queue
    <3>1. \A t : Crash(t) => FALSE
      BY FrameCrash
    <3> QED
      BY <2>3, <3>1 DEF Kill, queues
  <2> QED
    BY <1>1, <2>2, <2>3 DEF UserCall, Yield, Usleep, Exec, Wait, SignalReturn, Exit, Signal,
                            Raise, Read, Ps, queues
<1>2. CASE KernelStep
  <2>1. \A t : Crash(t) => FALSE
    BY FrameCrash
  <2> QED
    BY <1>2, <2>1 DEF KernelStep, Schedule, Return, ForkCopy, ExecDone, ExecFails,
           ExecAborts, ExitDestroy, ExitAborts, CrashUnmapped, ReadBlock, PsStep, PsDone, queues
<1>3. CASE Interrupt
  BY <1>3, ServeEffect DEF Interrupt, Receive, queues
<1>4. CASE Tick
  BY <1>4 DEF Tick, queues
<1> QED
  BY <1>1, <1>2, <1>3, <1>4 DEF Next

\* Once somebody has queued for the console the queue is never empty again,
\* and before that the interrupt serves nobody.
LEMMA QuietSteps ==
    ASSUME TypeOK, Quiet', Next, Alive'
    PROVE  /\ Quiet
           /\ ~ReadEnqueue
           /\ \A i \in Pid : ~Serve(i)
<1> USE KernelAssumption
<1>1. read_queue \in [Pid -> ReadTransaction] /\ pcb_curr \in Pid /\ 0 \in Pid /\ NoPid \notin Pid
  BY DEF TypeOK, Pid, NoPid
<1>2. ~ReadEnqueue
  <2>1. ASSUME ReadEnqueue
        PROVE  \E i \in Pid : read_queue'[i].pid # NoPid
    <3>1. CASE {i \in Pid : read_queue[i].pid = NoPid} = {} /\ UNCHANGED read_queue
      BY <1>1, <3>1
    <3>2. ASSUME NEW slot \in Pid,
                 read_queue' = [read_queue EXCEPT ![slot] =
                    [pid |-> pcb_curr, buf |-> sys.sp.section, size |-> sys.arg]]
          PROVE  \E i \in Pid : read_queue'[i].pid # NoPid
      <4>1. read_queue'[slot].pid = pcb_curr
        BY <1>1, <3>2
      <4> QED
        BY <1>1, <4>1
    <3> QED
      BY <2>1, <3>1, <3>2 DEF ReadEnqueue
  <2> QED
    BY <2>1 DEF Quiet
<1>4. Quiet
  BY <1>2, QueueSteps DEF Quiet
<1>5. \A i \in Pid : ~Serve(i)
  BY <1>4 DEF Serve, IsFirst, Satisfied, Quiet
<1> QED
  BY <1>2, <1>4, <1>5

\* A program may call only from user mode, in a handler only what ends it or
\* registers handlers, and only a current process that exists calls.
LEMMA MayFacts ==
    ASSUME Owned, NEW call, May(call)
    PROVE  /\ sys.at = "user" /\ Used(pcb_curr) /\ call \in CALLS
           /\ "handler" \in RULES /\ Curr.state = "SIGNAL" => call \in {"exit", "signal"}
           /\ "spawn" \in RULES /\ Unexeced(Curr) => call \in {"exec", "exit"}
  BY DEF May, Owned

----------------------------------------------------------------------------
(* Handlers. *)

\* SignalInv for a quiet kernel that is not lost.
StacksClean ==
    \A i \in Pid : Used(i) =>
      /\ pcb[i].state # "SIGNAL" => pcb[i].stack_pointer.level = 0
      /\ pcb[i].state = "SIGNAL" =>
           /\ i = pcb_curr /\ sys.at \in {"user", "ret"}
           /\ CALLS \cap {"raise", "kill"} # {}
           /\ pcb[i].prev_state \in {"READY", "BLOCKED", "SLEEP"}
           /\ pcb[i].stack_pointer.level = 1
           /\ pcb[i].prev_stack_pointer = [pcb[i].stack_pointer EXCEPT !.level = 0]

\* One process that handles no signal before or after changes.
LEMMA CleanOne ==
    ASSUME TypeOK, StacksClean, NEW k \in Pid, Only(k),
           Used(k) => pcb[k].state # "SIGNAL",
           pcb'[k].state # "SIGNAL", Used(k)' => pcb'[k].stack_pointer.level = 0,
           \A i \in Pid : pcb[i].state = "SIGNAL" =>
              pcb_curr' = i /\ sys'.at \in {"user", "ret"}
    PROVE  StacksClean'
  BY DEF StacksClean, Only, Used

\* Nobody does.
LEMMA CleanSame ==
    ASSUME TypeOK, StacksClean, SameProcs, sys'.at \in {"user", "ret"}
    PROVE  StacksClean'
  BY DEF StacksClean, SameProcs, Used
LEMMA CleanEnter ==
    ASSUME TypeOK, StacksClean, SameProcs, \A i \in Pid : Used(i) => pcb[i].state # "SIGNAL"
    PROVE  StacksClean'
  BY DEF StacksClean, SameProcs, Used

LEMMA SignalStep ==
    ASSUME HandlersRunThrough, TypeOK, TypeOK', Owned, StacksClean, Next, Alive', Quiet'
    PROVE  StacksClean'
<1> USE KernelAssumption
<1>1. /\ pcb \in [Pid -> PCB] /\ pcb_curr \in Pid /\ Curr = pcb[pcb_curr] /\ Curr \in PCB
      /\ sys \in SysType
  BY DEF TypeOK, Curr, SysType
<1>2. ASSUME sys.at \notin {"user", "ret"}
      PROVE  \A i \in Pid : Used(i) => pcb[i].state # "SIGNAL"
  BY <1>2 DEF StacksClean
\* Who makes a call that a handler does not make is not in a handler.
<1>3. ASSUME NEW call, May(call), call \notin {"exit", "signal"}
      PROVE  \A i \in Pid : Used(i) => pcb[i].state # "SIGNAL"
  BY <1>1, <1>3, MayFacts DEF StacksClean, HandlersRunThrough
<1>4. \A i \in Pid : pcb[i].state = "SIGNAL" => Used(i)
  BY DEF Used
<1>5. CASE UserCall
  <2>1. sys.at = "user" /\ Used(pcb_curr)
    BY <1>5, MayFacts DEF UserCall, Yield, Usleep, Fork, Exec, Wait, SignalReturn, Exit, Signal,
                Raise, Kill, Read, Ps
  <2>2. CASE Yield \/ \E timeout \in 0 .. MAX_TIMEOUT : Usleep(timeout)
    BY <1>1, <1>3, <1>4, <2>1, <2>2, YieldEffect, CleanOne, ZenonT(30) DEF SameContext, StacksClean
  <2>3. CASE Fork
    <3>1. \A i \in Pid : Used(i) => pcb[i].state # "SIGNAL"
      BY <1>3, <2>3 DEF Fork
    <3>2. CASE SameProcs
      BY <3>1, <3>2, CleanEnter
    <3>3. ASSUME NEW c \in Pid, NEW text \in Frame, NEW stack \in Frame, Spawned(c, text, stack)
          PROVE  StacksClean'
      BY <1>4, <3>1, <3>3, CleanOne DEF Spawned, Used
    <3> QED
      BY <2>3, <3>2, <3>3, ForkEffect
  <2>4. CASE Exec \/ Ps
    BY <1>3, <2>4, EnterEffect, CleanEnter DEF Exec, Ps
  <2>5. CASE Exit
    <3>1. \A i \in Pid : Used(i) => pcb[i].state # "SIGNAL"
      BY <1>1, <2>5 DEF Exit, StacksClean
    <3> QED
      BY <2>5, <3>1, EnterEffect, CleanEnter
  <2>6. CASE Wait
    <3>1. CASE SameProcs /\ Unanswered("ret")
      BY <3>1, CleanSame DEF Unanswered, UserMode
    <3>2. CASE /\ Only(pcb_curr) /\ SameContext(pcb'[pcb_curr], Curr) /\ pcb_curr' = pcb_curr
               /\ pcb'[pcb_curr].state = "BLOCKED"
      <4>1. \A i \in Pid : pcb[i].state # "SIGNAL"
        BY <1>3, <1>4, <2>6 DEF Wait
      <4>2. pcb'[pcb_curr].stack_pointer.level = 0
        BY <1>1, <2>1, <3>2, <4>1 DEF SameContext, StacksClean
      <4> QED
        BY <1>1, <3>2, <4>1, <4>2, CleanOne
    <3> QED
      BY <2>6, <3>1, <3>2, WaitEffect
  <2>7. CASE SignalReturn
    <3>1. /\ Curr.prev_state \in {"READY", "BLOCKED", "SLEEP"}
          /\ Curr.prev_stack_pointer.level = 0
          /\ \A i \in Pid \ {pcb_curr} : Used(i) => pcb[i].state # "SIGNAL"
      <4>1. Curr.stack_pointer \in Pointer
        BY <1>1 DEF PCB
      <4> QED
        BY <1>1, <2>1, <2>7, <4>1 DEF StacksClean, SignalReturn, Pointer
    <3> QED
      BY <1>1, <2>7, <3>1, SignalReturnEffect DEF StacksClean, Only, Used
  <2>8. ASSUME NEW sig \in SIGNALS, NEW on \in BOOLEAN, Signal(sig, on)
        PROVE  StacksClean'
    <3>1. sys'.at = "ret"
      BY <2>8, SignalEffect DEF Unanswered, UserMode
    <3>2. \A i \in Pid : /\ pcb'[i].state = pcb[i].state /\ pcb'[i].prev_state = pcb[i].prev_state
                         /\ pcb'[i].stack_pointer = pcb[i].stack_pointer
                         /\ pcb'[i].prev_stack_pointer = pcb[i].prev_stack_pointer
      BY <1>1, <2>8, SignalEffect DEF Only
    <3>3. pcb_curr' = pcb_curr
      BY <2>8, SignalEffect
    <3> QED
      BY <3>1, <3>2, <3>3 DEF StacksClean, Used
  <2>9. ASSUME NEW k \in Pid, NEW s \in State \ {"SIGNAL", "UNUSED"}, Used(k),
               Interrupted(k, s), pcb[k].stack_pointer.level = 0, pcb_curr' = k,
               \A i \in Pid \ {k} : /\ Used(i)' <=> Used(i)
                                    /\ Used(i) => /\ pcb'[i].state # "SIGNAL"
                                                  /\ pcb'[i].stack_pointer.level = 0,
               sys'.at = "ret", CALLS \cap {"raise", "kill"} # {}
        PROVE  StacksClean'
    <3>1. /\ pcb'[k].state = "SIGNAL" /\ pcb'[k].prev_state \in {"READY", "BLOCKED", "SLEEP"}
      BY <2>9 DEF Interrupted, State
    <3>2. pcb[k].stack_pointer \in Pointer /\ pcb'[k].stack_pointer \in Pointer
      BY <1>1, <2>9 DEF PCB, TypeOK
    <3>3. /\ pcb'[k].stack_pointer.level = 1
          /\ pcb'[k].prev_stack_pointer = [pcb'[k].stack_pointer EXCEPT !.level = 0]
      BY <2>9, <3>2 DEF Interrupted, Pointer, Level
    <3> QED
      BY <2>9, <3>1, <3>3 DEF StacksClean
  <2>10. ASSUME NEW sig \in SIGNALS, Raise(sig)
         PROVE  StacksClean'
    <3>1. \A i \in Pid : Used(i) => pcb[i].state # "SIGNAL" /\ pcb[i].stack_pointer.level = 0
      BY <1>3, <2>10 DEF Raise, StacksClean
    <3>2. CASE SameProcs
      BY <3>1, <3>2, CleanEnter
    <3>3. CASE Only(pcb_curr) /\ Interrupted(pcb_curr, Curr.state) /\ Answered("ret", 0)
      <4>1. Curr.state \in State \ {"SIGNAL", "UNUSED"}
        BY <1>1, <2>1, <3>1 DEF PCB, Used
      <4>2. sys'.at = "ret" /\ pcb_curr' = pcb_curr
        BY <2>10, <3>3, RaiseEffect DEF Answered
      <4>3. CALLS \cap {"raise", "kill"} # {}
        BY <2>10 DEF Raise, May
      <4> QED
        BY <1>1, <2>1, <2>9, <3>1, <3>3, <4>1, <4>2, <4>3 DEF Only, Used
    <3> QED
      BY <2>10, <3>2, <3>3, RaiseEffect
  <2>11. ASSUME NEW pid \in Pid, NEW sig \in SIGNALS, Kill(pid, sig)
         PROVE  StacksClean'
    <3>1. \A i \in Pid : Used(i) => pcb[i].state # "SIGNAL" /\ pcb[i].stack_pointer.level = 0
      BY <1>3, <2>11 DEF Kill, StacksClean
    <3>2. CASE SameProcs
      BY <3>1, <3>2, CleanEnter
    <3>3. \A i \in Pid \ {pid} : Handed(pid) =>
            /\ Used(i)' <=> Used(i)
            /\ Used(i) => pcb'[i].state # "SIGNAL" /\ pcb'[i].stack_pointer.level = 0
      BY <1>1, <2>1, <3>1 DEF Handed, Used, SameContext
    <3>4. CASE /\ Used(pid) /\ Handed(pid) /\ Answered("ret", 0)
               /\ Interrupted(pid, IF pid = pcb_curr THEN "READY" ELSE pcb[pid].state)
      <4>1. (IF pid = pcb_curr THEN "READY" ELSE pcb[pid].state) \in State \ {"SIGNAL", "UNUSED"}
        BY <1>1, <3>1, <3>4 DEF PCB, Used, State
      <4>2. sys'.at = "ret" /\ pcb_curr' = pid
        BY <3>4 DEF Answered, Handed
      <4>3. CALLS \cap {"raise", "kill"} # {}
        BY <2>11 DEF Kill, May
      <4> QED
        BY <2>9, <3>1, <3>3, <3>4, <4>1, <4>2, <4>3
    <3>5. CASE /\ Used(pid) /\ Handed(pid) /\ SameContext(pcb'[pid], pcb[pid])
               /\ pcb'[pid].state = IF pid = pcb_curr THEN "READY" ELSE pcb[pid].state
      <4>1. pcb'[pid].state # "SIGNAL" /\ pcb'[pid].stack_pointer.level = 0
        BY <3>1, <3>5 DEF SameContext
      <4>2. \A i \in Pid : Used(i)' => /\ pcb'[i].state # "SIGNAL"
                                       /\ pcb'[i].stack_pointer.level = 0
        BY <3>1, <3>3, <3>5, <4>1
      <4> QED
        BY <4>2 DEF StacksClean
    <3> QED
      BY <2>11, <3>2, <3>4, <3>5, KillEffect
  <2>12. ASSUME NEW len \in RxSize \ {0}, Read(len)
         PROVE  StacksClean'
    BY <1>3, <2>12, ReadEffect, CleanEnter
  <2> QED
    BY <1>5, <2>2, <2>3, <2>4, <2>5, <2>6, <2>7, <2>8, <2>10, <2>11, <2>12 DEF UserCall
<1>6. CASE KernelStep
  <2>1. CASE Schedule
    BY <1>2, <1>4, <2>1, ScheduleEffect, CleanOne DEF StacksClean, SameContext, Used
  <2>2. CASE Return
    BY <2>2, ReturnEffect, CleanSame DEF UserMode
  <2>3. CASE ForkCopy
    BY <1>1, <1>2, <1>4, <2>3, ForkCopyEffect, CleanOne DEF ForkCopy, Owned, StacksClean, Used
  <2>4. CASE ExecDone
    BY <1>1, <1>2, <1>4, <2>4, ExecEffect, CleanOne DEF Used
  <2>5. CASE ExecFails
    BY <1>2, <2>5, CleanEnter DEF ExecFails, SameProcs, procs
  <2>6. CASE ExecAborts
    BY <2>6, FrameCrash DEF ExecAborts
  <2>7. CASE ExitDestroy
    <3>1. \A i \in Pid : Used(i) => pcb[i].state # "SIGNAL" /\ pcb[i].stack_pointer.level = 0
      BY <1>2, <2>7, ExitEffect DEF StacksClean
    <3>2. \A i \in Pid : Used(i)' => /\ pcb'[i].state # "SIGNAL"
                                     /\ pcb'[i].stack_pointer.level = 0
      BY <1>1, <2>7, <3>1, ExitEffect DEF Only, Used, SameContext
    <3> QED
      BY <3>2 DEF StacksClean
  <2>8. CASE ExitAborts
    BY <2>8, FrameCrash DEF ExitAborts, CrashUnmapped
  <2>9. CASE ReadBlock
    BY <1>1, <1>2, <1>4, <2>9, ReadBlockEffect, CleanOne DEF StacksClean, SameContext, Owned
  <2>10. CASE PsStep
    BY <1>2, <2>10, PsStepEffect, CleanEnter
  <2>11. CASE PsDone
    BY <1>2, <2>11, CleanEnter DEF PsDone, SameProcs, procs
  <2> QED
    BY <1>6, <2>1, <2>2, <2>3, <2>4, <2>5, <2>6, <2>7, <2>8, <2>9, <2>10, <2>11, QuietSteps
       DEF KernelStep
<1>7. CASE Interrupt
  BY <1>7, QuietSteps DEF Interrupt, Receive, StacksClean, Used, procs
<1>8. CASE Tick
  BY <1>8, TickEffect DEF StacksClean, Used, SameContext
<1> QED
  BY <1>5, <1>6, <1>7, <1>8 DEF Next

----------------------------------------------------------------------------
(* Waiting. *)

\* Whoever is blocked waits, the current process is not blocked, and a child
\* under construction is not in use.
BlockedWait ==
    /\ sys.at # "block"
    /\ sys.at # "sched" => Curr.state # "BLOCKED"
    /\ sys.at = "fork" => ~Used(sys.arg)
    /\ \A i \in Pid : Stopped(i) => pcb[i].blocked = "WAIT"

\* WaitQueueExact for a kernel that is not lost.
QueueExact ==
    /\ \A i \in Pid : Waits(i) <=> \E s \in Pid : wait_queue[s] = i
    /\ \A s, t \in Pid : wait_queue[s] = wait_queue[t] /\ wait_queue[s] # NoPid => s = t

LEMMA WaitInvFacts == WaitInv <=> (Alive /\ Quiet => QueueExact /\ BlockedWait)
  BY DEF WaitInv, WaitQueueExact, QueueExact, BlockedWait, Stopped

\* A step that neither begins nor ends a wait and destroys nobody.
KeepsWaits ==
    /\ UNCHANGED wait_queue
    /\ \A i \in Pid : Waits(i)' <=> Waits(i)
    /\ BlockedWait'
    /\ \A i \in Pid : Used(i) => Used(i)' /\ pcb'[i].parent_pid = pcb[i].parent_pid
    /\ \A i \in Pid : Used(i)' /\ ~Used(i) => pcb'[i].parent_pid # NoPid
    /\ sys'.at = "exit" => pcb_curr' = pcb_curr /\ (Exit \/ sys.at = "exit")

\* One process changes that does not wait.
LEMMA KeepsOne ==
    ASSUME TypeOK, BlockedWait, NEW k \in Pid, Only(k), UNCHANGED wait_queue, ~Stopped(k),
           pcb'[k].state \notin {"BLOCKED", "SIGNAL"},
           Used(k) => Used(k)' /\ pcb'[k].parent_pid = pcb[k].parent_pid,
           ~Used(k) => ~Used(k)' \/ pcb'[k].parent_pid # NoPid,
           sys'.at \notin {"block", "exit"}, sys'.at = "fork" => sys'.arg = k /\ ~Used(k)',
           pcb_curr' \in Pid,
           sys'.at # "sched" => pcb_curr' = k \/ pcb[pcb_curr'].state # "BLOCKED"
    PROVE  KeepsWaits
  BY DEF KeepsWaits, BlockedWait, Stopped, Waits, Only, Used, Curr

\* None changes.
LEMMA KeepsSame ==
    ASSUME TypeOK, BlockedWait, SameProcs, UNCHANGED wait_queue,
           sys'.at \notin {"block", "fork"}, sys'.at = "exit" => Exit, sys.at # "sched"
    PROVE  KeepsWaits
  BY DEF KeepsWaits, BlockedWait, Stopped, Waits, SameProcs, Used, Curr

\* Process k is interrupted by a handler: a wait goes on under it.
LEMMA KeepsInterrupted ==
    ASSUME TypeOK, BlockedWait, NEW k \in Pid, NEW s, Interrupted(k, s),
           pcb[k].state # "SIGNAL", s = "BLOCKED" <=> pcb[k].state = "BLOCKED", Used(k),
           UNCHANGED wait_queue, sys'.at \notin {"block", "fork", "exit"}, pcb_curr' = k,
           \A i \in Pid \ {k} : /\ Stopped(i)' <=> Stopped(i)
                                /\ pcb'[i].blocked = pcb[i].blocked
                                /\ Used(i)' <=> Used(i)
                                /\ pcb'[i].parent_pid = pcb[i].parent_pid
    PROVE  KeepsWaits
<1>1. Stopped(k)' <=> Stopped(k)
  BY DEF Interrupted, Stopped
<1>2. \A i \in Pid : /\ Stopped(i)' <=> Stopped(i)
                     /\ pcb'[i].blocked = pcb[i].blocked
                     /\ Used(i)' <=> Used(i)
                     /\ pcb'[i].parent_pid = pcb[i].parent_pid
  BY <1>1 DEF Interrupted, SamePlace, Used
<1>3. \A i \in Pid : Waits(i) <=> Stopped(i) /\ pcb[i].blocked = "WAIT"
  BY DEF Waits, Stopped
<1>4. \A i \in Pid : Waits(i)' <=> Stopped(i)' /\ pcb'[i].blocked = "WAIT"
  BY DEF Waits, Stopped
<1>5. pcb'[k].state = "SIGNAL"
  BY DEF Interrupted
<1> QED
  BY <1>2, <1>3, <1>4, <1>5 DEF KeepsWaits, BlockedWait, Curr

\* wait queues its caller and blocks it.
LEMMA WaitWaits ==
    ASSUME HandlersRunThrough, TypeOK, TypeOK', Owned, StacksClean, BlockedWait, QueueExact, Wait
    PROVE  \/ KeepsWaits
           \/ /\ QueueExact' /\ BlockedWait'
              /\ \A i \in Pid : Waits(i)' <=> Waits(i) \/ i = pcb_curr
              /\ \A i \in Pid : /\ Used(i)' <=> Used(i)
                                /\ pcb'[i].parent_pid = pcb[i].parent_pid
<1>1. /\ pcb \in [Pid -> PCB] /\ pcb_curr \in Pid /\ Curr = pcb[pcb_curr]
      /\ wait_queue \in [Pid -> Pid \cup {NoPid}] /\ NoPid \notin Pid
  BY DEF TypeOK, Curr, Pid, NoPid
<1>2. sys.at = "user" /\ Used(pcb_curr) /\ Curr.state # "SIGNAL"
  <2>1. May("wait")
    BY WaitEffect
  <2>2. sys.at = "user" /\ Used(pcb_curr) /\ ("handler" \in RULES => Curr.state # "SIGNAL")
    BY <2>1, MayFacts
  <2> QED
    BY <1>1, <2>2 DEF StacksClean, HandlersRunThrough
<1>3. CASE SameProcs /\ UNCHANGED wait_queue /\ Unanswered("ret")
  BY <1>2, <1>3, KeepsSame DEF Unanswered, UserMode
<1>4. ASSUME NEW slot \in Pid, wait_queue[slot] = NoPid,
             wait_queue' = [wait_queue EXCEPT ![slot] = pcb_curr],
             Only(pcb_curr), SameContext(pcb'[pcb_curr], Curr), pcb_curr' = pcb_curr,
             pcb'[pcb_curr].state = "BLOCKED", pcb'[pcb_curr].blocked = "WAIT",
             Unanswered("sched")
      PROVE  /\ QueueExact' /\ BlockedWait'
             /\ \A i \in Pid : Waits(i)' <=> Waits(i) \/ i = pcb_curr
             /\ \A i \in Pid : /\ Used(i)' <=> Used(i)
                               /\ pcb'[i].parent_pid = pcb[i].parent_pid
  <2>1. \A s \in Pid : wait_queue'[s] = IF s = slot THEN pcb_curr ELSE wait_queue[s]
    BY <1>1, <1>4
  <2>2. ~Waits(pcb_curr)
    BY <1>1, <1>2 DEF Waits, BlockedWait
  <2>3. \A i \in Pid : Waits(i)' <=> Waits(i) \/ i = pcb_curr
    BY <1>4 DEF Waits, Only
  <2>4. QueueExact'
    BY <1>1, <1>4, <2>1, <2>2, <2>3 DEF QueueExact
  <2>5. sys'.at = "sched"
    BY <1>4 DEF Unanswered, UserMode
  <2>6. BlockedWait'
    BY <1>4, <2>5 DEF BlockedWait, Stopped, Only
  <2>7. \A i \in Pid : (Used(i)' <=> Used(i)) /\ pcb'[i].parent_pid = pcb[i].parent_pid
    BY <1>1, <1>2, <1>4 DEF Used, Only, SameContext, SamePlace
  <2> QED
    BY <2>3, <2>4, <2>6, <2>7
<1> QED
  BY <1>3, <1>4, WaitEffect

\* exit takes the parent of the process that ends off the queue, if it is there.
LEMMA ExitWaits ==
    ASSUME TypeOK, TypeOK', Owned, StacksClean, BlockedWait, QueueExact, ExitDestroy
    PROVE  /\ QueueExact' /\ BlockedWait'
           /\ Curr.parent_pid # NoPid =>
                 \A i \in Pid : Waits(i)' <=> Waits(i) /\ i # Curr.parent_pid
           /\ Curr.parent_pid = NoPid => \A i \in Pid : Waits(i)' <=> Waits(i)
           /\ \A i \in Pid \ {pcb_curr} : /\ Used(i)' <=> Used(i)
                                          /\ pcb'[i].parent_pid = pcb[i].parent_pid
<1> DEFINE parent == Curr.parent_pid
<1>1. /\ pcb \in [Pid -> PCB] /\ pcb_curr \in Pid /\ Curr = pcb[pcb_curr]
      /\ wait_queue \in [Pid -> Pid \cup {NoPid}] /\ NoPid \notin Pid
  BY DEF TypeOK, Curr, Pid, NoPid
<1>2. sys.at = "exit" /\ \A i \in Pid : pcb[i].state # "SIGNAL"
  BY ExitEffect DEF StacksClean, Used
<1>3. ~Stopped(pcb_curr) /\ ~Stopped(pcb_curr)' /\ ~Used(pcb_curr)'
  BY <1>1, <1>2, ExitEffect DEF Stopped, BlockedWait, Used
<1>4. sys'.at = "sched" /\ pcb_curr' = pcb_curr
  BY ExitEffect DEF Unanswered, UserMode
<1>5. CASE Waiting(parent) = {} /\ Only(pcb_curr) /\ UNCHANGED wait_queue
  <2>1. \A i \in Pid : Waits(i)' <=> Waits(i)
    BY <1>3, <1>4, <1>5 DEF Waits, Stopped, Only
  <2>2. parent # NoPid => parent \in Pid /\ ~Waits(parent)
    BY <1>1, <1>5 DEF PCB, Waiting, QueueExact
  <2>3. QueueExact'
    BY <1>5, <2>1 DEF QueueExact
  <2>4. BlockedWait'
    BY <1>3, <1>4, <1>5 DEF BlockedWait, Stopped, Only
  <2>5. \A i \in Pid \ {pcb_curr} : /\ Used(i)' <=> Used(i)
                                    /\ pcb'[i].parent_pid = pcb[i].parent_pid
    BY <1>5 DEF Used, Only
  <2> QED
    BY <2>1, <2>2, <2>3, <2>4, <2>5
<1>6. CASE /\ parent \in Pid \ {pcb_curr} /\ Used(parent)
           /\ \A i \in Pid \ {pcb_curr, parent} : pcb'[i] = pcb[i]
           /\ SameContext(pcb'[parent], pcb[parent])
           /\ pcb'[parent].state = "READY"
           /\ wait_queue' = QueueWithout(Waiting(parent))
  <2>1. \A s \in Pid : wait_queue'[s] = IF wait_queue[s] = parent THEN NoPid ELSE wait_queue[s]
    BY <1>6 DEF QueueWithout, Waiting
  <2>2. \A i \in Pid : Waits(i)' <=> Waits(i) /\ i # parent
    BY <1>3, <1>4, <1>6 DEF Waits, Stopped
  <2>3. QueueExact'
    <3>1. \A i \in Pid : (\E s \in Pid : wait_queue'[s] = i)
                         <=> i # parent /\ \E s \in Pid : wait_queue[s] = i
      BY <1>1, <2>1
    <3>2. \A i \in Pid : Waits(i)' <=> \E s \in Pid : wait_queue'[s] = i
      BY <2>2, <3>1 DEF QueueExact
    <3>3. \A s, t \in Pid : wait_queue'[s] = wait_queue'[t] /\ wait_queue'[s] # NoPid => s = t
      BY <2>1 DEF QueueExact
    <3> QED
      BY <3>2, <3>3 DEF QueueExact
  <2>4. BlockedWait'
    BY <1>3, <1>4, <1>6 DEF BlockedWait, Stopped
  <2>5. \A i \in Pid \ {pcb_curr} : /\ Used(i)' <=> Used(i)
                                    /\ pcb'[i].parent_pid = pcb[i].parent_pid
    BY <1>6 DEF Used, SameContext, SamePlace
  <2> QED
    BY <1>1, <1>6, <2>2, <2>3, <2>4, <2>5
<1> QED
  BY <1>5, <1>6, ExitEffect

\* No other step begins or ends a wait, or destroys a process.
LEMMA OthersKeepWaits ==
    ASSUME HandlersRunThrough, SignalsHandled, TypeOK, TypeOK', Owned, StacksClean, BlockedWait,
           Next, ~Wait, ~ExitDestroy, Alive', Quiet'
    PROVE  KeepsWaits
<1> USE KernelAssumption
<1>1. /\ pcb \in [Pid -> PCB] /\ pcb_curr \in Pid /\ Curr = pcb[pcb_curr] /\ Curr \in PCB
  BY DEF TypeOK, Curr
<1>2. ASSUME sys.at \notin {"user", "ret"}
      PROVE  \A i \in Pid : pcb[i].state # "SIGNAL"
  BY <1>2 DEF StacksClean, Used
\* Who makes a call that a handler does not make is not in a handler.
<1>3. ASSUME NEW call, May(call), call \notin {"exit", "signal"}
      PROVE  /\ \A i \in Pid : pcb[i].state # "SIGNAL"
             /\ ~Stopped(pcb_curr)
  BY <1>1, <1>3, MayFacts DEF StacksClean, HandlersRunThrough, Used, Stopped, BlockedWait
<1>4. CASE UserCall
  <2>1. sys.at = "user" /\ Used(pcb_curr) /\ Curr.state # "BLOCKED"
    BY <1>4, MayFacts DEF UserCall, Yield, Usleep, Fork, Exec, Wait, SignalReturn, Exit, Signal,
                Raise, Kill, Read, Ps, BlockedWait
  <2>2. CASE Yield \/ \E timeout \in 0 .. MAX_TIMEOUT : Usleep(timeout)
    <3>1. sys'.at = "sched" /\ UNCHANGED wait_queue
      BY <2>2, YieldEffect DEF Answered, queues
    <3> QED
      BY <1>1, <1>3, <2>1, <2>2, <3>1, YieldEffect, KeepsOne DEF SameContext, SamePlace, Used
  <2>3. CASE Fork
    <3>1. ~Stopped(pcb_curr)
      BY <1>3, <2>3 DEF Fork
    <3>2. CASE SameProcs /\ UNCHANGED queues /\ Answered("ret", ERROR)
      BY <2>1, <3>2, KeepsSame DEF Answered, queues
    <3>3. ASSUME NEW c \in Pid, NEW text \in Frame, NEW stack \in Frame, Spawned(c, text, stack)
          PROVE  KeepsWaits
      <4>1. c # pcb_curr /\ ~Stopped(c) /\ pcb'[c].state = "UNUSED"
        BY <2>1, <3>3 DEF Spawned, Used, Stopped
      <4>2. sys'.at = "fork" /\ sys'.arg = c /\ UNCHANGED wait_queue
        BY <3>3 DEF Spawned, queues
      <4> QED
        BY <1>1, <2>1, <3>3, <4>1, <4>2, KeepsOne DEF Spawned, Used
    <3> QED
      BY <2>3, <3>2, <3>3, ForkEffect
  <2>4. CASE Exec \/ Exit \/ Ps
    BY <2>1, <2>4, EnterEffect, KeepsSame DEF queues
  <2>5. CASE SignalReturn
    <3>1. sys'.at = "sched" /\ UNCHANGED wait_queue
      BY <2>5, SignalReturnEffect DEF Unanswered, UserMode, queues
    <3>2. \A i \in Pid : Stopped(i)' <=> Stopped(i)
      BY <1>1, <2>1, <2>5, SignalReturnEffect DEF Stopped, Only, StacksClean
    <3>3. \A i \in Pid : pcb'[i].blocked = pcb[i].blocked
      BY <1>1, <2>5, SignalReturnEffect DEF Only
    <3>4. \A i \in Pid : Waits(i)' <=> Waits(i)
      BY <3>2, <3>3 DEF Waits, Stopped
    <3>5. \A i \in Pid : (Used(i)' <=> Used(i)) /\ pcb'[i].parent_pid = pcb[i].parent_pid
      BY <1>1, <2>1, <2>5, SignalReturnEffect, ZenonT(30)
         DEF Used, Only, StacksClean, SamePlace
    <3> QED
      BY <3>1, <3>2, <3>3, <3>4, <3>5 DEF KeepsWaits, BlockedWait
  <2>6. ASSUME NEW sig \in SIGNALS, NEW on \in BOOLEAN, Signal(sig, on)
        PROVE  KeepsWaits
    <3>1. sys'.at = "ret" /\ UNCHANGED wait_queue
      BY <2>6, SignalEffect DEF Unanswered, UserMode, queues
    <3>2. \A i \in Pid : /\ pcb'[i].state = pcb[i].state /\ pcb'[i].prev_state = pcb[i].prev_state
                         /\ pcb'[i].blocked = pcb[i].blocked
                         /\ pcb'[i].parent_pid = pcb[i].parent_pid
      BY <1>1, <2>6, SignalEffect DEF Only, SamePlace
    <3>3. pcb_curr' = pcb_curr
      BY <2>6, SignalEffect
    <3> QED
      BY <1>1, <2>1, <3>1, <3>2, <3>3 DEF KeepsWaits, BlockedWait, Stopped, Waits, Used, Curr
  <2>7. ASSUME NEW sig \in SIGNALS, Raise(sig)
        PROVE  KeepsWaits
    <3>1. pcb_curr' = pcb_curr /\ UNCHANGED wait_queue /\ sys'.at = "ret"
      BY <2>7, RaiseEffect DEF Answered, queues
    <3>2. Curr.state # "SIGNAL"
      BY <1>1, <1>3, <2>7 DEF Raise
    <3>3. CASE SameProcs
      BY <2>1, <3>1, <3>3, KeepsSame
    <3>4. CASE Only(pcb_curr) /\ Interrupted(pcb_curr, Curr.state)
      BY <1>1, <2>1, <3>1, <3>2, <3>4, KeepsInterrupted DEF Only, Stopped, Used
    <3> QED
      BY <2>7, <3>3, <3>4, RaiseEffect
  <2>8. ASSUME NEW pid \in Pid, NEW sig \in SIGNALS, Kill(pid, sig)
        PROVE  KeepsWaits
    <3>1. (\A i \in Pid : pcb[i].state # "SIGNAL") /\ ~Stopped(pcb_curr)
      BY <1>3, <2>8 DEF Kill
    <3>2. sys'.at = "ret" /\ UNCHANGED wait_queue
      BY <2>8, KillEffect DEF Answered, Handed, queues
    <3>3. CASE SameProcs
      BY <2>1, <3>2, <3>3, KeepsSame
    <3>4. CASE /\ Used(pid) /\ Handed(pid)
               /\ Interrupted(pid, IF pid = pcb_curr THEN "READY" ELSE pcb[pid].state)
      <4>1. (IF pid = pcb_curr THEN "READY" ELSE pcb[pid].state) = "BLOCKED"
              <=> pcb[pid].state = "BLOCKED"
        BY <1>1, <2>1
      <4>2. \A i \in Pid \ {pid} : /\ Stopped(i)' <=> Stopped(i)
                                   /\ pcb'[i].blocked = pcb[i].blocked
                                   /\ Used(i)' <=> Used(i)
                                   /\ pcb'[i].parent_pid = pcb[i].parent_pid
        BY <1>1, <2>1, <3>1, <3>4 DEF Handed, Stopped, Used, SameContext, SamePlace
      <4>3. pcb_curr' = pid
        BY <3>4 DEF Handed
      <4> QED
        BY <3>1, <3>2, <3>4, <4>1, <4>2, <4>3, KeepsInterrupted
    <3> QED
      BY <2>8, <3>3, <3>4, KillEffect
  <2>9. ASSUME NEW len \in RxSize \ {0}, Read(len)
        PROVE  KeepsWaits
    <3>1. sys'.at \notin {"block", "fork", "exit"} /\ UNCHANGED wait_queue
      BY <2>9, ReadEffect DEF Answered, queues
    <3> QED
      BY <2>1, <2>9, <3>1, ReadEffect, KeepsSame
  <2> QED
    BY <1>4, <2>2, <2>3, <2>4, <2>5, <2>6, <2>7, <2>8, <2>9 DEF UserCall
<1>5. CASE KernelStep
  <2>1. CASE Schedule
    <3>1. sys'.at = "ret" /\ UNCHANGED wait_queue /\ ~Stopped(pcb_curr')
      BY <2>1, ScheduleEffect DEF queues, TypeOK, Stopped
    <3> QED
      BY <2>1, <3>1, ScheduleEffect, KeepsOne DEF SameContext, SamePlace, Used
  <2>2. CASE Return
    BY <2>2, ReturnEffect, KeepsSame DEF UserMode, queues
  <2>3. CASE ForkCopy
    <3>1. sys'.at = "ret" /\ UNCHANGED wait_queue
      BY <2>3, ForkCopyEffect DEF queues, TypeOK
    <3>2. ~Used(sys.arg) /\ ~Stopped(sys.arg) /\ Curr.state # "BLOCKED"
      BY <1>2, <2>3, ForkCopyEffect DEF ForkCopy, Stopped, BlockedWait, TypeOK, Used
    <3> QED
      BY <1>1, <2>3, <3>1, <3>2, ForkCopyEffect, KeepsOne DEF Pid, NoPid
  <2>4. CASE ExecDone
    <3>1. sys'.at = "ret" /\ UNCHANGED wait_queue
      BY <2>4, ExecEffect DEF Unanswered, UserMode, queues
    <3>2. ~Stopped(pcb_curr) /\ Used(pcb_curr)
      BY <1>1, <1>2, <2>4, ExecEffect DEF Stopped, BlockedWait, Owned
    <3> QED
      BY <1>1, <2>4, <3>1, <3>2, ExecEffect, KeepsOne DEF Used
  <2>5. CASE ExecFails
    <3>1. sys'.at = "ret"
      BY <2>5, SysTypes DEF ExecFails, At, ERROR
    <3> QED
      BY <2>5, <3>1, KeepsSame DEF ExecFails, SameProcs, procs, queues
  <2>6. CASE ExecAborts
    BY <2>6, FrameCrash DEF ExecAborts
  <2>7. CASE ExitAborts
    BY <2>7, FrameCrash DEF ExitAborts, CrashUnmapped
  <2>8. CASE ReadBlock
    BY <2>8 DEF ReadBlock, BlockedWait
  <2>9. CASE PsStep
    <3>1. sys'.at = "ps"
      BY <2>9, PsStepEffect DEF TypeOK
    <3> QED
      BY <2>9, <3>1, PsStepEffect, KeepsSame DEF queues
  <2>10. CASE PsDone
    <3>1. sys'.at = "ret"
      BY <2>10 DEF PsDone, TypeOK
    <3> QED
      BY <2>10, <3>1, KeepsSame DEF PsDone, SameProcs, procs, queues
  <2> QED
    BY <1>5, <2>1, <2>2, <2>3, <2>4, <2>5, <2>6, <2>7, <2>8, <2>9, <2>10, QuietSteps
       DEF KernelStep
<1>6. CASE Interrupt
  BY <1>6, QuietSteps DEF Interrupt, Receive, KeepsWaits, BlockedWait, Stopped, Waits, Used, procs,
                          queues, Curr
<1>7. CASE Tick
  <2>1. wait_queue' = wait_queue /\ pcb_curr' = pcb_curr
    BY <1>7, TickEffect DEF queues
  <2> QED
    <3>1. \A i \in Pid : /\ pcb'[i].state = pcb[i].state /\ pcb'[i].prev_state = pcb[i].prev_state
                         /\ pcb'[i].blocked = pcb[i].blocked
                         /\ pcb'[i].parent_pid = pcb[i].parent_pid
      BY <1>7, TickEffect DEF SameContext, SamePlace
    <3>2. sys' = sys /\ (sys.at = "fork" => sys.arg \in Pid)
      BY <1>7, TickEffect DEF TypeOK
    <3> QED
      BY <1>1, <2>1, <3>1, <3>2 DEF KeepsWaits, BlockedWait, Stopped, Waits, Used, Curr
<1> QED
  BY <1>4, <1>5, <1>6, <1>7 DEF Next

----------------------------------------------------------------------------
(* The invariants of signals and waiting. *)

LEMMA SignalInvariant ==
    ASSUME HandlersRunThrough
    PROVE  Spec => []SignalInv
<1>1. Init => SignalInv
  <2>1. ASSUME Init
        PROVE  \A i \in Pid : /\ pcb[i].state # "SIGNAL"
                              /\ pcb[i].stack_pointer.level = 0
    BY <2>1 DEF Init, InitPcb, UnusedPcb, NULL
  <2> QED
    BY <2>1 DEF SignalInv
<1>2. TypeOK /\ TypeOK' /\ FrameInv /\ SignalInv /\ [Next]_vars => SignalInv'
  <2> SUFFICES ASSUME TypeOK, TypeOK', FrameInv, SignalInv, [Next]_vars, Alive', Quiet'
               PROVE  StacksClean'
    BY DEF SignalInv, StacksClean
  <2>1. CASE Next
    <3>1. Alive /\ Quiet
      BY <2>1, NextAlive, QuietSteps
    <3>2. StacksClean /\ Owned
      BY <3>1, FrameInvOwned DEF SignalInv, StacksClean
    <3> QED
      BY <2>1, <3>2, SignalStep
  <2>2. CASE UNCHANGED vars
    BY <2>2 DEF vars, procs, queues, SignalInv, StacksClean, Alive, Quiet, Used
  <2> QED
    BY <2>1, <2>2
<1> QED
  BY <1>1, <1>2, TypeCorrect, FramesInvariant, PTL DEF Spec

LEMMA WaitInvariant ==
    ASSUME HandlersRunThrough, SignalsHandled
    PROVE  Spec => []WaitInv
<1>1. Init => WaitInv
  <2>1. ASSUME Init
        PROVE  /\ \A i \in Pid : pcb[i].state \notin {"BLOCKED", "SIGNAL"} /\ wait_queue[i] = NoPid
               /\ sys.at = "user" /\ pcb_curr \in Pid
    BY <2>1, InitType DEF Init, InitPcb, UnusedPcb, UserMode, TypeOK
  <2>2. ASSUME Init
        PROVE  QueueExact /\ BlockedWait
    BY <2>1, <2>2 DEF QueueExact, BlockedWait, Stopped, Waits, Curr, Pid, NoPid
  <2> QED
    BY <2>2, WaitInvFacts
<1>2. TypeOK /\ TypeOK' /\ FrameInv /\ SignalInv /\ WaitInv /\ [Next]_vars => WaitInv'
  <2> SUFFICES ASSUME TypeOK, TypeOK', FrameInv, SignalInv, WaitInv, [Next]_vars, Alive', Quiet'
               PROVE  QueueExact' /\ BlockedWait'
    BY DEF WaitInv, WaitQueueExact, QueueExact, BlockedWait, Stopped
  <2>1. CASE Next
    <3>1. Alive /\ Quiet
      BY <2>1, NextAlive, QuietSteps
    <3>2. StacksClean /\ Owned /\ QueueExact /\ BlockedWait
      BY <3>1, FrameInvOwned, WaitInvFacts DEF SignalInv, StacksClean
    <3>3. KeepsWaits => QueueExact' /\ BlockedWait'
      BY <3>2 DEF KeepsWaits, QueueExact
    <3> QED
      BY <2>1, <3>2, <3>3, OthersKeepWaits, WaitWaits, ExitWaits
  <2>2. CASE UNCHANGED vars
    <3>1. Alive /\ Quiet
      BY <2>2 DEF vars, queues, Alive, Quiet
    <3>2. QueueExact /\ BlockedWait
      BY <3>1, WaitInvFacts
    <3> QED
      BY <2>2, <3>2 DEF vars, procs, queues, QueueExact, BlockedWait, Stopped, Waits, Used, Curr
  <2> QED
    BY <2>1, <2>2
<1> QED
  BY <1>1, <1>2, TypeCorrect, FramesInvariant, SignalInvariant, PTL DEF Spec

\* Without reads the console's queue stays empty.
LEMMA QuietInvariant ==
    ASSUME NoReads
    PROVE  Spec => []Quiet
<1> DEFINE Inv == Quiet /\ sys.at # "read"
<1>1. Init => Inv
  BY DEF Init, Quiet, NoRead, UserMode
<1>2. TypeOK /\ Inv /\ [Next]_vars => Inv'
  <2> SUFFICES ASSUME TypeOK, Inv, [Next]_vars
               PROVE  Inv'
    OBVIOUS
  <2> USE KernelAssumption
  <2>1. At = {"user", "read", "block", "exec", "exit", "fork", "ps", "sched", "ret", "crash"}
        /\ 0 \in Int /\ UNKNOWN \in Int /\ ERROR \in Int /\ Pid \subseteq Int
    BY DEF At, UNKNOWN, ERROR, Pid
  <2>2. ASSUME NEW t, Crash(t)
        PROVE  Inv'
    BY <2>2 DEF Crash, UserMode, queues, Quiet
  <2>3. ASSUME NEW at \in At, NEW v \in Int, at # "read",
               Enter(at, v) \/ Leave(at, v) \/ Finish(at, v), UNCHANGED read_queue
        PROVE  Inv'
    BY <2>3, SysTypes DEF Quiet
  <2>4. \A at, at2 : sys' = [sys EXCEPT !.at = at] => sys'.at = at
    BY DEF TypeOK
  <2>5. CASE UserCall
    <3>1. CASE Fork
      <4>1. \A c \in Pid : c \in Int
        BY <2>1
      <4> QED
        BY <2>1, <2>2, <2>3, <3>1, <4>1 DEF Fork, queues
    <3>2. ASSUME NEW pid \in Pid, NEW sig \in SIGNALS, Kill(pid, sig)
          PROVE  Inv'
      BY <2>1, <2>2, <2>3, <3>2 DEF Kill, queues
    <3>3. \A len \in RxSize : ~Read(len)
      BY DEF Read, May, NoReads
    <3> QED
      BY <2>1, <2>3, <2>5, <3>1, <3>2, <3>3 DEF UserCall, Yield, Usleep, Exec, Wait, SignalReturn,
             Exit, Signal, Raise, Ps, queues
  <2>6. CASE KernelStep
    <3>1. CASE Schedule
      BY <2>4, <3>1 DEF Schedule, queues, Quiet
    <3>2. CASE Return
      BY <2>2, <3>2 DEF Return, queues, Quiet, UserMode
    <3>3. CASE ForkCopy
      <4>1. sys.arg \in Int
        BY <3>3 DEF ForkCopy, TypeOK, Pid
      <4> QED
        BY <2>1, <2>2, <2>3, <3>3, <4>1 DEF ForkCopy, queues
    <3>4. CASE ExecDone \/ ExecFails \/ ExecAborts \/ ExitDestroy \/ ExitAborts
      BY <2>1, <2>2, <2>3, <3>4 DEF ExecDone, ExecFails, ExecAborts, ExitDestroy, ExitAborts,
             CrashUnmapped, queues
    <3>5. CASE ReadEnqueue \/ ReadBlock
      BY <2>1, <2>3, <3>5 DEF ReadEnqueue, ReadBlock, queues
    <3>6. CASE PsStep \/ PsDone
      BY <2>2, <3>6 DEF PsStep, PsDone, queues, Quiet, TypeOK
    <3> QED
      BY <2>6, <3>1, <3>2, <3>3, <3>4, <3>5, <3>6 DEF KernelStep
  <2>7. CASE Interrupt \/ Tick \/ UNCHANGED vars
    <3>1. \A i \in Pid : ~Serve(i)
      BY DEF Serve, IsFirst, Satisfied, Quiet
    <3> QED
      BY <2>7, <3>1 DEF Interrupt, Receive, Tick, vars, queues, Quiet
  <2> QED
    BY <2>5, <2>6, <2>7 DEF Next
<1>3. Inv => Quiet
  OBVIOUS
<1> HIDE DEF Inv
<1> QED
  BY <1>1, <1>2, <1>3, TypeCorrect, PTL DEF Spec

\* A signal frame is on a stack exactly while its handler runs, on top of the
\* context it interrupted, if handlers do not reschedule: with any number of
\* processes, nested calls of kill and raise, waits and exits.
THEOREM SignalFrames ==
    ASSUME HandlersRunThrough, NoReads
    PROVE  Spec => []HandlerOnTop
<1>1. SignalInv /\ Quiet => HandlerOnTop
  BY DEF SignalInv, HandlerOnTop
<1> QED
  BY <1>1, SignalInvariant, QuietInvariant, PTL

\* The wait queue is exact: nobody is queued that does not wait, nobody waits
\* unqueued, nobody is queued twice -- although signal handlers run on top of
\* waits and kernel_exit takes entries out by its own search.
THEOREM WaitersQueued ==
    ASSUME HandlersRunThrough, SignalsHandled, NoReads
    PROVE  Spec => []WaitQueueExact
<1>1. WaitInv /\ Quiet => WaitQueueExact
  BY DEF WaitInv, WaitQueueExact
<1> QED
  BY <1>1, WaitInvariant, QuietInvariant, PTL

----------------------------------------------------------------------------
(* Parents and children. *)

LEMMA ChildStep ==
    ASSUME HandlersRunThrough, SignalsHandled, WaitsForChild, TypeOK, TypeOK', Owned, StacksClean,
           BlockedWait, QueueExact, Next, Alive', Quiet',
           \A i \in Pid : Waits(i) => Children(i) # {}
    PROVE  \A i \in Pid : Waits(i)' => Children(i)' # {}
<1>1. pcb_curr \in Pid
  BY DEF TypeOK
<1>2. ASSUME NEW i \in Pid, Waits(i),
             \A c \in Pid : Used(c) /\ pcb[c].parent_pid = i =>
                               Used(c)' /\ pcb'[c].parent_pid = pcb[c].parent_pid
      PROVE  Children(i)' # {}
  BY <1>2 DEF Children
<1>3. CASE KeepsWaits
  BY <1>2, <1>3 DEF KeepsWaits
<1>4. CASE Wait /\ ~KeepsWaits
  <2>1. /\ \A i \in Pid : Waits(i)' <=> Waits(i) \/ i = pcb_curr
        /\ \A i \in Pid : (Used(i)' <=> Used(i)) /\ pcb'[i].parent_pid = pcb[i].parent_pid
    BY <1>4, WaitWaits
  <2>2. Children(pcb_curr) # {}
    <3>1. May("wait") /\ "wait" \in CALLS
      BY <1>4, MayFacts, WaitEffect
    <3> QED
      BY <3>1 DEF May, WaitsForChild
  <2> QED
    BY <2>1, <2>2 DEF Children
<1>5. CASE ExitDestroy
  <2>1. Curr.parent_pid # NoPid \/ \A i \in Pid : i # Curr.parent_pid
    BY DEF Pid, NoPid
  <2>2. \A i \in Pid : Waits(i)' => Waits(i) /\ i # Curr.parent_pid
    BY <1>5, <2>1, ExitWaits
  <2>3. \A i \in Pid : i # Curr.parent_pid =>
          \A c \in Pid : Used(c) /\ pcb[c].parent_pid = i =>
                            Used(c)' /\ pcb'[c].parent_pid = pcb[c].parent_pid
    BY <1>5, ExitWaits DEF Curr
  <2> QED
    BY <1>2, <2>2, <2>3
<1> QED
  BY <1>3, <1>4, <1>5, OthersKeepWaits

LEMMA TreeStep ==
    ASSUME HandlersRunThrough, SignalsHandled, InitStays, TypeOK, TypeOK', Owned, StacksClean,
           BlockedWait, QueueExact, TreeInv, Next, Alive', Quiet'
    PROVE  TreeInv'
<1> USE KernelAssumption
<1>1. 0 \in Pid /\ pcb_curr \in Pid
  BY DEF TypeOK, Pid
<1>2. /\ Used(0) /\ pcb[0].parent_pid = NoPid
      /\ sys.at = "exit" => pcb_curr # 0
      /\ \A i \in Pid \ {0} : Used(i) => pcb[i].parent_pid # NoPid
  BY NextAlive, QuietSteps DEF TreeInv
<1>3. CASE KeepsWaits
  <2>1. Exit => pcb_curr # 0
    BY MayFacts DEF Exit, May, InitStays
  <2> QED
    BY <1>1, <1>2, <1>3, <2>1 DEF KeepsWaits, TreeInv
<1>4. CASE Wait /\ ~KeepsWaits
  <2>1. sys'.at # "exit"
    BY <1>4, WaitEffect DEF Unanswered, UserMode
  <2>2. \A i \in Pid : (Used(i)' <=> Used(i)) /\ pcb'[i].parent_pid = pcb[i].parent_pid
    BY <1>4, WaitWaits
  <2> QED
    BY <1>1, <1>2, <2>1, <2>2 DEF TreeInv
<1>5. CASE ExitDestroy
  <2>1. sys'.at # "exit" /\ pcb_curr # 0 /\ ~Used(pcb_curr)' /\ pcb_curr' = pcb_curr
    BY <1>2, <1>5, ExitEffect DEF Unanswered, UserMode
  <2>2. \A i \in Pid \ {pcb_curr} : (Used(i)' <=> Used(i)) /\ pcb'[i].parent_pid = pcb[i].parent_pid
    BY <1>5, ExitWaits
  <2> QED
    BY <1>1, <1>2, <2>1, <2>2 DEF TreeInv
<1> QED
  BY <1>3, <1>4, <1>5, OthersKeepWaits

LEMMA TreeInvariant ==
    ASSUME HandlersRunThrough, SignalsHandled, InitStays
    PROVE  Spec => []TreeInv
<1>1. Init => TreeInv
  <2>1. 0 \in Pid
    BY KernelAssumption DEF Pid
  <2>2. ASSUME Init
        PROVE  /\ pcb[0].state = "READY" /\ pcb[0].parent_pid = NoPid
               /\ \A i \in Pid \ {0} : pcb[i].state = "UNUSED"
               /\ sys.at = "user"
    BY <2>1, <2>2 DEF Init, InitPcb, UnusedPcb, UserMode
  <2> QED
    BY <2>2 DEF TreeInv, Used
<1>2. TypeOK /\ TypeOK' /\ FrameInv /\ SignalInv /\ WaitInv /\ TreeInv /\ [Next]_vars => TreeInv'
  <2> SUFFICES ASSUME TypeOK, TypeOK', FrameInv, SignalInv, WaitInv, TreeInv, [Next]_vars,
                      Alive', Quiet'
               PROVE  TreeInv'
    BY DEF TreeInv
  <2>1. CASE Next
    <3>1. Alive /\ Quiet
      BY <2>1, NextAlive, QuietSteps
    <3>2. StacksClean /\ Owned /\ QueueExact /\ BlockedWait
      BY <3>1, FrameInvOwned, WaitInvFacts DEF SignalInv, StacksClean
    <3> QED
      BY <2>1, <3>2, TreeStep
  <2>2. CASE UNCHANGED vars
    BY <2>2 DEF vars, procs, queues, TreeInv, Alive, Quiet, Used
  <2> QED
    BY <2>1, <2>2
<1> QED
  BY <1>1, <1>2, TypeCorrect, FramesInvariant, SignalInvariant, WaitInvariant, PTL DEF Spec

\* Nobody waits in vain: between kernel_wait and the exit of the last child no
\* wakeup is lost, whatever the order in which children exit and handlers run.
THEOREM NoWaitInVain ==
    ASSUME HandlersRunThrough, SignalsHandled, WaitsForChild, NoReads
    PROVE  Spec => []WaiterHasChild
<1>1. Init => WaiterHasChild
  BY DEF Init, WaiterHasChild, Waits, InitPcb, UnusedPcb
<1>2. /\ TypeOK /\ TypeOK' /\ FrameInv /\ SignalInv /\ WaitInv /\ Quiet /\ Quiet'
      /\ WaiterHasChild /\ [Next]_vars
      => WaiterHasChild'
  <2> SUFFICES ASSUME TypeOK, TypeOK', FrameInv, SignalInv, WaitInv, Quiet, Quiet',
                      WaiterHasChild, [Next]_vars, Alive'
               PROVE  WaiterHasChild'
    BY DEF WaiterHasChild
  <2>1. CASE Next
    <3>1. Alive
      BY <2>1, NextAlive
    <3>2. StacksClean /\ Owned /\ QueueExact /\ BlockedWait
      BY <3>1, FrameInvOwned, WaitInvFacts DEF SignalInv, StacksClean
    <3> QED
      BY <2>1, <3>1, <3>2, ChildStep DEF WaiterHasChild
  <2>2. CASE UNCHANGED vars
    BY <2>2 DEF vars, procs, WaiterHasChild, Alive, Waits, Children, Used
  <2> QED
    BY <2>1, <2>2
<1> QED
  BY <1>1, <1>2, TypeCorrect, FramesInvariant, SignalInvariant, WaitInvariant, QuietInvariant,
     PTL DEF Spec

\* The scheduler always has somebody to find.  If nobody were READY or asleep
\* everybody would wait; each would have a child that waits too, and choosing
\* one for each maps the waiting processes one to one to themselves without
\* init, which is nobody's child: there are not enough of them.
THEOREM SomebodyRuns ==
    ASSUME HandlersRunThrough, SignalsHandled, WaitsForChild, InitStays, NoReads
    PROVE  Spec => []SomebodyRunnable
<1>1. /\ TypeOK /\ RunningInv /\ SignalInv /\ WaitInv /\ TreeInv /\ WaiterHasChild /\ Quiet
      => SomebodyRunnable
  <2> SUFFICES ASSUME TypeOK, RunningInv, SignalInv, WaitInv, TreeInv, WaiterHasChild, Quiet,
                      sys.at = "sched",
                      \A i \in Pid : pcb[i].state \notin {"READY", "SLEEP"}
               PROVE  FALSE
    BY DEF SomebodyRunnable
  <2> DEFINE W == {i \in Pid : Used(i)}
             child == [i \in W |-> CHOOSE c \in W : pcb[c].parent_pid = i]
  <2>1. Alive /\ 0 \in Pid /\ \A i \in Pid : pcb[i].state \in State
    BY KernelAssumption DEF Alive, Pid, TypeOK, PCB
  <2>2. \A i \in W : Waits(i)
    <3> SUFFICES ASSUME NEW i \in W
                 PROVE  Waits(i)
      OBVIOUS
    <3>1. pcb[i].state # "RUNNING" /\ pcb[i].state # "SIGNAL" /\ pcb[i].state # "UNUSED"
      BY <2>1 DEF RunningInv, SignalInv, Used
    <3>2. pcb[i].state = "BLOCKED"
      BY <2>1, <3>1 DEF State
    <3> QED
      BY <2>1, <3>2 DEF WaitInv, Waits
  <2>3. \A i \in W : \E c \in W : pcb[c].parent_pid = i
    BY <2>1, <2>2 DEF WaiterHasChild, Children
  <2>4. \A i \in W : child[i] \in W /\ pcb[child[i]].parent_pid = i
    BY <2>3
  <2>5. 0 \in W /\ \A i \in W : child[i] # 0
    BY <2>1, <2>4 DEF TreeInv, Pid, NoPid
  <2> HIDE DEF child
  <2>6. child \in Injection(W, W \ {0})
    <3>1. child \in [W -> W \ {0}]
      BY <2>4, <2>5 DEF child
    <3>2. IsInjective(child)
      BY <2>4, <3>1 DEF IsInjective
    <3> QED
      BY <3>1, <3>2 DEF Injection
  <2>7. IsFiniteSet(W) /\ Cardinality(W) \in Nat
    <3>1. IsFiniteSet(Pid)
      BY KernelAssumption, FS_Interval DEF Pid
    <3> QED
      BY <3>1, FS_Subset, FS_CardinalityType
  <2>8. IsFiniteSet(W \ {0}) /\ Cardinality(W \ {0}) = Cardinality(W) - 1
    BY <2>5, <2>7, FS_RemoveElement
  <2>9. Cardinality(W) <= Cardinality(W \ {0})
    BY <2>6, <2>8, FS_Injection
  <2> QED
    BY <2>7, <2>8, <2>9
<1> QED
  BY <1>1, TypeCorrect, RunningInvariant, SignalInvariant, WaitInvariant, TreeInvariant,
     NoWaitInVain, QuietInvariant, PTL

----------------------------------------------------------------------------
(* The tables, entry by entry. *)

LEMMA MapAt ==
    ASSUME NEW t \in PageTable, NEW p \in PCB, NEW f \in Frame
    PROVE  /\ ProcFrameMap(t, p)[f] = IF f = p.virtual_stack_frame THEN p.stack_frame
                                      ELSE IF f \in Frames(p) THEN FAULT ELSE t[f]
           /\ ProcFrameWriteDisable(t, p)[f] = IF f \in Frames(p) THEN FAULT ELSE t[f]
           /\ ProcFrameWriteEnable(t, p)[f] = IF f \in Frames(p) THEN f ELSE t[f]
<1>1. p.virtual_stack_frame \in Frame
  BY DEF PCB
<1>2. \A g \in Frame : ProcFrameWriteDisable(t, p)[g] = IF g \in Frames(p) THEN FAULT ELSE t[g]
  BY DEF ProcFrameWriteDisable
<1>3. DOMAIN ProcFrameWriteDisable(t, p) = Frame
  BY DEF ProcFrameWriteDisable
<1>4. ProcFrameMap(t, p)[f] = IF f = p.virtual_stack_frame THEN p.stack_frame
                              ELSE ProcFrameWriteDisable(t, p)[f]
  BY <1>1, <1>3 DEF ProcFrameMap
<1>5. ProcFrameWriteEnable(t, p)[f] = IF f \in Frames(p) THEN f ELSE t[f]
  BY DEF ProcFrameWriteEnable
<1> QED
  BY <1>2, <1>4, <1>5

LEMMA SwitchAt ==
    ASSUME TypeOK, NEW p \in PCB, NEW f \in Frame
    PROVE  ContextSwitchTable(system_page_table, UsedPcbs, p)[f]
             = IF f = p.virtual_stack_frame THEN p.stack_frame
               ELSE IF f \in Frames(p) \/ \E i \in Pid : Used(i) /\ f \in Frames(pcb[i])
                    THEN FAULT ELSE system_page_table[f]
<1> DEFINE cleared == [g \in Frame |-> IF \E q \in UsedPcbs : g \in Frames(q)
                                       THEN FAULT ELSE system_page_table[g]]
<1>1. cleared \in PageTable
  BY DEF PageTable, TypeOK
<1>2. cleared[f] = IF \E i \in Pid : Used(i) /\ f \in Frames(pcb[i])
                   THEN FAULT ELSE system_page_table[f]
  BY DEF UsedPcbs
<1>3. ContextSwitchTable(system_page_table, UsedPcbs, p) = ProcFrameMap(cleared, p)
  BY DEF ContextSwitchTable
<1> HIDE DEF cleared
<1> QED
  BY <1>1, <1>2, <1>3, MapAt

\* A store through the page table to saved_r0.
LEMMA WriteAt ==
    ASSUME NEW mem \in Memory, NEW t, NEW p \in Pointer, NEW v, t[p.section] \in Frame,
           NEW f \in Frame, NEW l \in Level
    PROVE  Write(mem, t, p, v)[f][l] = IF f = t[p.section] /\ l = p.level THEN v ELSE mem[f][l]
<1> DEFINE g == t[p.section]
<1>1. g \in Frame /\ p.level \in Level /\ mem[g] \in [Level -> Int] /\ mem[f] \in [Level -> Int]
  BY DEF Memory, Pointer
<1>2. Write(mem, t, p, v) = [mem EXCEPT ![g] = [mem[g] EXCEPT ![p.level] = v]]
  BY <1>1 DEF Write, Memory
<1> HIDE DEF g
<1>3. Write(mem, t, p, v)[f] = IF f = g THEN [mem[g] EXCEPT ![p.level] = v] ELSE mem[f]
  BY <1>1, <1>2 DEF Memory
<1> QED
  BY <1>1, <1>3 DEF g

LEMMA BlankAt ==
    ASSUME TypeOK, NEW f \in Frame
    PROVE  Blank(f) \in Memory /\ \A g \in Frame \ {f} : Blank(f)[g] = saved_r0[g]
  BY DEF Blank, TypeOK, Memory, UNKNOWN

----------------------------------------------------------------------------
(* Where processes are. *)

\* What Layout and the ownership of frames say of a process in use.
LEMMA Places ==
    ASSUME TypeOK, Owned, Layout
    PROVE  \A i \in Pid : Used(i) =>
             LET p == pcb[i] IN
             /\ p \in PCB
             /\ p.stack_frame \in Frame \ KERNEL_FRAMES /\ p.stack_frame # 0
             /\ Frames(p) \subseteq system_frame_table /\ Frames(p) \subseteq Frame
             /\ p.virtual_stack_frame \in Frame /\ p.virtual_stack_frame \notin KERNEL_FRAMES
             /\ p.virtual_stack_frame # p.text_frame
             /\ Unexeced(p) => p.virtual_stack_frame \notin Frames(p)
             /\ \A j \in Pid \ {i} : Used(j) => Frames(p) \cap Frames(pcb[j]) = {}
<1> SUFFICES ASSUME NEW i \in Pid, Used(i)
             PROVE  LET p == pcb[i] IN
                    /\ p \in PCB
                    /\ p.stack_frame \in Frame \ KERNEL_FRAMES /\ p.stack_frame # 0
                    /\ Frames(p) \subseteq system_frame_table /\ Frames(p) \subseteq Frame
                    /\ p.virtual_stack_frame \in Frame /\ p.virtual_stack_frame \notin KERNEL_FRAMES
                    /\ p.virtual_stack_frame # p.text_frame
                    /\ Unexeced(p) => p.virtual_stack_frame \notin Frames(p)
                    /\ \A j \in Pid \ {i} : Used(j) => Frames(p) \cap Frames(pcb[j]) = {}
  OBVIOUS
<1>1. pcb[i] \in PCB
  BY DEF TypeOK
<1>2. Holds(i) /\ \A j \in Pid : Used(j) => Holds(j)
  BY DEF Holds
<1>3. /\ Foreign(pcb[i]) /\ pcb[i].text_frame # pcb[i].stack_frame
      /\ \A j \in Pid \ {i} : Used(j) => Frames(pcb[i]) \cap Frames(pcb[j]) = {}
  BY <1>2 DEF Owned
<1>4. Frames(pcb[i]) \subseteq Frame
  BY <1>1 DEF Frames, PCB
<1>5. Frames(pcb[i]) \subseteq system_frame_table
  BY <1>2, <1>4 DEF Owned
<1>6. Unexeced(pcb[i]) => pcb[i].virtual_stack_frame \notin Frames(pcb[i])
  <2>1. Unexeced(pcb[i]) =>
          \E j \in Pid \ {i} : Used(j) /\ pcb[i].virtual_stack_frame = pcb[j].stack_frame
    BY DEF Layout
  <2> QED
    BY <1>3, <2>1 DEF Frames
<1>7. pcb[i].virtual_stack_frame # pcb[i].text_frame
  BY <1>3, <1>6 DEF Unexeced, Frames
<1> QED
  BY <1>1, <1>3, <1>4, <1>5, <1>6, <1>7, FrameAssumption DEF Foreign, Frames, PCB

\* The section a process sees its stack in is a process's frame, and stays in
\* use when another process ends that is not the parent it was forked by.
LEMMA ViewInUse ==
    ASSUME TypeOK, Owned, Layout, NEW i \in Pid, Used(i)
    PROVE  /\ pcb[i].virtual_stack_frame \in system_frame_table
           /\ \A j \in Pid \ {i} :
                Used(j) /\ (pcb[i].parent_pid = j => ~Unexeced(pcb[i]))
                => pcb[i].virtual_stack_frame \notin Frames(pcb[j])
<1>1. CASE ~Unexeced(pcb[i])
  BY <1>1, Places DEF Unexeced, Frames
<1>2. CASE Unexeced(pcb[i])
  <2> DEFINE k == pcb[i].parent_pid
  <2>1. k \in Pid /\ Used(k) /\ pcb[i].virtual_stack_frame = pcb[k].stack_frame
    BY <1>2 DEF Layout
  <2> HIDE DEF k
  <2> QED
    BY <1>2, <2>1, Places DEF k, Frames
<1> QED
  BY <1>1, <1>2

\* Everybody is where he was, and in use as he was.
Stays ==
    \A i \in Pid : (Used(i)' <=> Used(i)) /\ SamePlace(pcb'[i], pcb[i])

\* Such a step keeps Layout if it leaves the stacks in their sections, and of
\* a child that has not executed its program changes only who runs.
LEMMA LayoutStays ==
    ASSUME Layout, Stays,
           \A i \in Pid : Used(i) =>
             /\ pcb'[i].stack_pointer.section = pcb[i].virtual_stack_frame
             /\ pcb'[i].state = "SIGNAL" =>
                   pcb'[i].prev_stack_pointer.section = pcb[i].virtual_stack_frame
             /\ Unexeced(pcb[i]) => /\ pcb'[i].signal_handler = {}
                                    /\ pcb'[i].state \in {"READY", "RUNNING"}
    PROVE  Layout'
<1>1. \A i \in Pid : /\ Used(i)' <=> Used(i)
                     /\ Unexeced(pcb[i])' <=> Unexeced(pcb[i])
                     /\ pcb'[i].parent_pid = pcb[i].parent_pid
                     /\ pcb'[i].stack_frame = pcb[i].stack_frame
                     /\ pcb'[i].virtual_stack_frame = pcb[i].virtual_stack_frame
                     /\ pcb'[i].argv = pcb[i].argv
  BY DEF Stays, SamePlace, Unexeced
<1> QED
  BY <1>1 DEF Layout

\* It keeps what the queue of readers says, if it leaves the queue alone.
LEMMA ReadStays ==
    ASSUME TypeOK, ReadInv, Stays, UNCHANGED read_queue, pcb_curr' \in Pid,
           sys'.at \in {"read", "block", "ps"} => AllExeced,
           sys'.at \in {"read", "block"} => ~NoReads,
           sys'.at = "exit" => ~Listens(pcb_curr')
    PROVE  ReadInv' /\ (AllExeced => AllExeced')
<1>1. \A i \in Pid : /\ Used(i)' <=> Used(i)
                     /\ Unexeced(pcb[i])' <=> Unexeced(pcb[i])
                     /\ pcb'[i].stack_frame = pcb[i].stack_frame
  BY DEF Stays, SamePlace, Unexeced
<1>2. AllExeced => AllExeced'
  BY <1>1 DEF AllExeced
<1>3. Quiet' <=> Quiet
  BY DEF Quiet
<1>4. \A i \in Pid : read_queue[i].pid # NoPid => read_queue[i].pid \in Pid
  BY DEF TypeOK, ReadTransaction
<1>5. \A i \in Pid : Listens(i)' <=> Listens(i)
  BY DEF Listens
<1> QED
  BY <1>1, <1>2, <1>3, <1>4, <1>5 DEF ReadInv

\* A child that has not executed its program, and is not current, has its 0.
ZeroAt(i) == Used(i) /\ Unexeced(pcb[i]) /\ i # pcb_curr => ResumeR0(i) = 0
Zeroes == \A i \in Pid : ZeroAt(i)

LEMMA ZeroStays ==
    ASSUME Zeroes, NEW i \in Pid,
           Used(i)' /\ Unexeced(pcb[i])' /\ i # pcb_curr' =>
             /\ Used(i) /\ Unexeced(pcb[i]) /\ i # pcb_curr
             /\ pcb'[i].stack_frame = pcb[i].stack_frame
             /\ pcb'[i].stack_pointer = pcb[i].stack_pointer
             /\ saved_r0'[pcb[i].stack_frame][pcb[i].stack_pointer.level]
                  = saved_r0[pcb[i].stack_frame][pcb[i].stack_pointer.level]
    PROVE  ZeroAt(i)'
  BY DEF Zeroes, ZeroAt, ResumeR0

\* MemoryInv for a kernel that is not lost.
Placed == Layout /\ Mapped /\ CallInv /\ ReadInv /\ Zeroes

LEMMA MemoryInvPlaced == MemoryInv <=> (Alive => Placed)
  BY DEF MemoryInv, Placed, ChildSeesZero, Zeroes, ZeroAt

----------------------------------------------------------------------------
(* Handlers and waits while the console is read. *)

\* A queued reader stays queued, and the only one to join is the caller of read.
LEMMA ListensSteps ==
    ASSUME TypeOK, Next, Alive'
    PROVE  \A i \in Pid : /\ Listens(i) => Listens(i)'
                          /\ Listens(i)' => Listens(i) \/ (i = pcb_curr /\ sys.at = "read")
<1>1. CASE UNCHANGED read_queue
  BY <1>1 DEF Listens
<1>2. CASE ReadEnqueue
  <2> DEFINE read == [pid |-> pcb_curr, buf |-> sys.sp.section, size |-> sys.arg]
  <2>1. read.pid = pcb_curr /\ sys.at = "read" /\ NoPid \notin Pid
    BY <1>2 DEF ReadEnqueue, Pid, NoPid
  <2>2. \/ UNCHANGED read_queue
        \/ \E slot \in Pid : /\ read_queue[slot].pid = NoPid
                             /\ read_queue' = [read_queue EXCEPT ![slot] = read]
    BY <1>2 DEF ReadEnqueue, IsFirst
  <2> HIDE DEF read
  <2>3. ASSUME NEW slot \in Pid, read_queue[slot].pid = NoPid,
               read_queue' = [read_queue EXCEPT ![slot] = read]
        PROVE  \A s \in Pid : read_queue'[s] = IF s = slot THEN read ELSE read_queue[s]
    BY <2>3 DEF TypeOK
  <2> QED
    BY <1>1, <2>1, <2>2, <2>3 DEF Listens
<1> QED
  BY <1>1, <1>2, QueueSteps

\* HeldInv for one process that does not listen.
Queued(i) == \E s \in Pid : wait_queue[s] = i
HeldOne(i) ==
    /\ pcb[i].state = "SIGNAL" =>
          /\ i = pcb_curr /\ sys.at \in {"user", "ret"}
          /\ pcb[i].prev_state # "SIGNAL"
    /\ Queued(i) => Stopped(i)
Held ==
    /\ sys.at # "sched" => Curr.state # "BLOCKED"
    /\ \A i \in Pid : pcb[i].state = "SIGNAL" => CALLS \cap {"raise", "kill"} # {}
    /\ \A i \in Pid : ~Listens(i) => HeldOne(i)

LEMMA HeldInvHeld == HeldInv <=> (Alive => Held)
  BY DEF HeldInv, Held, HeldOne, Queued

\* One process changes that is in no handler, before or after.
LEMMA HeldChange ==
    ASSUME TypeOK, Held, NEW k \in Pid, Only(k), UNCHANGED wait_queue, pcb_curr' \in Pid,
           \A i \in Pid : Listens(i) => Listens(i)',
           ~Listens(k) => ~Stopped(k), pcb'[k].state # "SIGNAL",
           \A i \in Pid \ {k} : pcb[i].state = "SIGNAL" /\ ~Listens(i) =>
              pcb_curr' = i /\ sys'.at \in {"user", "ret"},
           sys'.at # "sched" => pcb'[pcb_curr'].state # "BLOCKED"
    PROVE  Held'
<1>1. ASSUME NEW i \in Pid, ~Listens(i)
      PROVE  HeldOne(i)'
  <2>1. HeldOne(i) /\ (Queued(i)' <=> Queued(i))
    BY <1>1 DEF Held, Queued
  <2>2. CASE i = k
    BY <1>1, <2>1, <2>2 DEF HeldOne
  <2>3. CASE i # k
    <3>1. pcb'[i] = pcb[i]
      BY <2>3 DEF Only
    <3>2. Stopped(i)' <=> Stopped(i)
      BY <3>1 DEF Stopped
    <3> QED
      BY <1>1, <2>1, <2>3, <3>1, <3>2 DEF HeldOne
  <2> QED
    BY <2>2, <2>3
<1>2. \A i \in Pid : pcb'[i].state = "SIGNAL" => CALLS \cap {"raise", "kill"} # {}
  BY DEF Held, Only
<1>3. \A i \in Pid : ~Listens(i)' => ~Listens(i)
  OBVIOUS
<1> QED
  BY <1>1, <1>2, <1>3 DEF Held, Curr

\* None changes.
LEMMA HeldSame ==
    ASSUME TypeOK, Held, SameProcs, UNCHANGED wait_queue,
           \A i \in Pid : Listens(i) => Listens(i)',
           sys.at # "sched", sys'.at \in {"user", "ret"} \/
              \A i \in Pid : ~Listens(i) => pcb[i].state # "SIGNAL"
    PROVE  Held'
  BY DEF Held, HeldOne, Queued, Stopped, SameProcs, Curr

\* The calls.
LEMMA UserCallHeld ==
    ASSUME HandlersRunThrough, SignalsHandled, TypeOK, TypeOK', Owned, Held, UserCall, Alive',
           \A i \in Pid : Listens(i) => Listens(i)'
    PROVE  Held'
<1>1. /\ pcb \in [Pid -> PCB] /\ pcb_curr \in Pid /\ Curr = pcb[pcb_curr] /\ Curr \in PCB
      /\ pcb_curr' \in Pid
  BY DEF TypeOK, Curr
<1>2. sys.at = "user" /\ Used(pcb_curr) /\ Curr.state # "BLOCKED"
  BY MayFacts DEF UserCall, Yield, Usleep, Fork, Exec, Wait, SignalReturn, Exit, Signal,
              Raise, Kill, Read, Ps, Held
\* Who makes a call that a handler does not make is not in a handler.
<1>3. ASSUME NEW call, May(call), call \notin {"exit", "signal"}
      PROVE  Curr.state # "SIGNAL"
  BY <1>1, <1>3, MayFacts DEF Held, HandlersRunThrough
<1>4. Curr.state # "SIGNAL" =>
        /\ ~Stopped(pcb_curr)
        /\ \A i \in Pid : ~Listens(i) => pcb[i].state # "SIGNAL"
  BY <1>1, <1>2 DEF Held, HeldOne, Stopped
<1>5. ASSUME Curr.state # "SIGNAL", SameProcs, UNCHANGED wait_queue
      PROVE  Held'
  BY <1>2, <1>4, <1>5, HeldSame
<1>6. ASSUME Curr.state # "SIGNAL", Only(pcb_curr), UNCHANGED wait_queue, pcb_curr' = pcb_curr,
             pcb'[pcb_curr].state \notin {"SIGNAL", "BLOCKED"}
      PROVE  Held'
  BY <1>1, <1>4, <1>6, HeldChange
<1>7. CASE Yield \/ \E timeout \in 0 .. MAX_TIMEOUT : Usleep(timeout)
  BY <1>3, <1>6, <1>7, YieldEffect DEF queues
<1>8. CASE Fork
  <2>1. Curr.state # "SIGNAL"
    BY <1>3, <1>8 DEF Fork
  <2>2. CASE SameProcs /\ UNCHANGED queues
    BY <1>5, <2>1, <2>2 DEF queues
  <2>3. ASSUME NEW c \in Pid, NEW text \in Frame, NEW stack \in Frame, Spawned(c, text, stack)
        PROVE  Held'
    <3>1. /\ c # pcb_curr /\ pcb[c].state = "UNUSED" /\ Only(c) /\ UNCHANGED wait_queue
          /\ pcb'[c].state = "UNUSED" /\ pcb_curr' = pcb_curr
      BY <1>2, <2>3 DEF Spawned, Used, queues
    <3>2. ~Stopped(c) /\ pcb'[pcb_curr].state # "BLOCKED"
      BY <1>1, <1>2, <3>1 DEF Stopped, Only
    <3> QED
      BY <1>1, <1>4, <2>1, <3>1, <3>2, HeldChange
  <2> QED
    BY <1>8, <2>2, <2>3, ForkEffect
<1>9. CASE Exec \/ Exit \/ Ps
  <2>1. Curr.state # "SIGNAL"
    BY <1>3, <1>9 DEF Exec, Exit, Ps
  <2> QED
    BY <1>5, <1>9, <2>1, EnterEffect DEF queues
<1>10. CASE Wait
  <2>1. Curr.state # "SIGNAL" /\ pcb_curr' = pcb_curr
    BY <1>3, <1>10, WaitEffect
  <2>2. CASE SameProcs /\ UNCHANGED wait_queue
    BY <1>5, <2>1, <2>2
  <2>3. ASSUME NEW slot \in Pid, wait_queue[slot] = NoPid,
               wait_queue' = [wait_queue EXCEPT ![slot] = pcb_curr], Only(pcb_curr),
               pcb'[pcb_curr].state = "BLOCKED", Unanswered("sched")
        PROVE  Held'
    <3>1. sys'.at = "sched"
      BY <2>3 DEF Unanswered, UserMode
    <3>2. \A i \in Pid \ {pcb_curr} : /\ Queued(i)' => Queued(i)
                                      /\ pcb'[i] = pcb[i]
      BY <2>3 DEF Queued, Only, TypeOK
    <3>3. ASSUME NEW i \in Pid, ~Listens(i)
          PROVE  HeldOne(i)'
      <4>1. HeldOne(i) /\ pcb[i].state # "SIGNAL"
        BY <1>4, <2>1, <3>3 DEF Held
      <4>2. CASE i = pcb_curr
        BY <2>3, <4>2 DEF HeldOne, Stopped
      <4>3. CASE i # pcb_curr
        BY <3>2, <4>1, <4>3 DEF HeldOne, Stopped
      <4> QED
        BY <4>2, <4>3
    <3>4. \A i \in Pid : pcb'[i].state = "SIGNAL" => CALLS \cap {"raise", "kill"} # {}
      BY <2>3, <3>2 DEF Held
    <3> QED
      BY <3>1, <3>3, <3>4 DEF Held
  <2> QED
    BY <1>10, <2>2, <2>3, WaitEffect
<1>11. CASE SignalReturn
  <2>1. /\ Curr.state = "SIGNAL" /\ Only(pcb_curr) /\ pcb_curr' = pcb_curr
        /\ pcb'[pcb_curr].state = Curr.prev_state
        /\ UNCHANGED wait_queue /\ sys'.at = "sched"
    BY <1>11, SignalReturnEffect DEF queues, Unanswered, UserMode
  <2>2. ASSUME NEW i \in Pid, ~Listens(i)
        PROVE  HeldOne(i)'
    <3>1. HeldOne(i) /\ (Queued(i)' <=> Queued(i))
      BY <2>1, <2>2 DEF Held, Queued
    <3>2. CASE i = pcb_curr
      BY <1>1, <2>1, <3>1, <3>2 DEF HeldOne, Stopped
    <3>3. CASE i # pcb_curr
      BY <2>1, <3>1, <3>3 DEF HeldOne, Stopped, Only
    <3> QED
      BY <3>2, <3>3
  <2>3. \A i \in Pid : pcb'[i].state = "SIGNAL" => CALLS \cap {"raise", "kill"} # {}
    BY <1>1, <2>1 DEF Held, Only
  <2> QED
    BY <2>1, <2>2, <2>3 DEF Held
<1>12. ASSUME NEW sig \in SIGNALS, NEW on \in BOOLEAN, Signal(sig, on)
       PROVE  Held'
  <2>1. /\ sys'.at = "ret" /\ UNCHANGED wait_queue /\ pcb_curr' = pcb_curr
        /\ \A i \in Pid : pcb'[i].state = pcb[i].state /\ pcb'[i].prev_state = pcb[i].prev_state
    BY <1>1, <1>12, SignalEffect DEF Unanswered, UserMode, queues, Only
  <2> QED
    BY <1>1, <1>2, <2>1 DEF Held, HeldOne, Queued, Stopped, Curr
\* A handler begins on process k's stack.
<1>13. ASSUME NEW k \in Pid, NEW s, Interrupted(k, s), Curr.state # "SIGNAL", s # "UNUSED",
              ~Listens(k) => s # "SIGNAL",
              s = "BLOCKED" <=> pcb[k].state = "BLOCKED", pcb_curr' = k, UNCHANGED wait_queue,
              \A i \in Pid \ {k} : \/ pcb'[i] = pcb[i]
                                   \/ i = pcb_curr /\ pcb'[i].state = "READY",
              sys'.at = "ret", CALLS \cap {"raise", "kill"} # {}
       PROVE  Held'
  <2>1. /\ pcb'[k].state = "SIGNAL"
        /\ pcb'[k].prev_state = IF s = "RUNNING" THEN "READY" ELSE s
    BY <1>13 DEF Interrupted
  <2>2. ASSUME NEW i \in Pid, ~Listens(i)
        PROVE  HeldOne(i)'
    <3>1. /\ HeldOne(i) /\ (Queued(i)' <=> Queued(i))
          /\ pcb[i].state # "SIGNAL" /\ ~Stopped(pcb_curr)
      BY <1>4, <1>13, <2>2 DEF Held, Queued
    <3>2. CASE i = k
      BY <1>13, <2>1, <2>2, <3>1, <3>2 DEF HeldOne, Stopped
    <3>3. CASE i # k
      BY <1>13, <3>1, <3>3 DEF HeldOne, Stopped
    <3> QED
      BY <3>2, <3>3
  <2> QED
    BY <1>13, <2>1, <2>2 DEF Held, Curr
<1>14. ASSUME NEW sig \in SIGNALS, Raise(sig)
       PROVE  Held'
  <2>1. /\ Curr.state # "SIGNAL" /\ pcb_curr' = pcb_curr /\ UNCHANGED wait_queue
        /\ CALLS \cap {"raise", "kill"} # {}
    BY <1>3, <1>14, RaiseEffect DEF queues, May
  <2>2. CASE Only(pcb_curr) /\ Interrupted(pcb_curr, Curr.state) /\ Answered("ret", 0)
    <3>1. sys'.at = "ret" /\ Curr.state # "UNUSED"
      BY <1>1, <1>2, <2>2 DEF Answered, Used
    <3> QED
      BY <1>1, <1>13, <2>1, <2>2, <3>1 DEF Only
  <2> QED
    BY <1>5, <1>14, <2>1, <2>2, RaiseEffect
<1>15. ASSUME NEW pid \in Pid, NEW sig \in SIGNALS, Kill(pid, sig)
       PROVE  Held'
  <2>1. Curr.state # "SIGNAL" /\ CALLS \cap {"raise", "kill"} # {}
    BY <1>3, <1>15 DEF Kill, May
  <2>2. CASE SameProcs /\ UNCHANGED queues
    BY <1>5, <2>1, <2>2 DEF queues
  <2>3. CASE /\ Used(pid) /\ Handed(pid) /\ Answered("ret", 0)
             /\ Interrupted(pid, IF pid = pcb_curr THEN "READY" ELSE pcb[pid].state)
    <3> DEFINE s == IF pid = pcb_curr THEN "READY" ELSE pcb[pid].state
    <3>1. /\ s # "UNUSED" /\ (~Listens(pid) => s # "SIGNAL")
          /\ s = "BLOCKED" <=> pcb[pid].state = "BLOCKED"
      BY <1>1, <1>2, <1>4, <2>1, <2>3 DEF Used
    <3>2. /\ pcb_curr' = pid /\ UNCHANGED wait_queue /\ sys'.at = "ret" /\ Interrupted(pid, s)
          /\ \A i \in Pid \ {pid} : \/ pcb'[i] = pcb[i]
                                    \/ i = pcb_curr /\ pcb'[i].state = "READY"
      BY <2>3 DEF Handed, Answered, queues
    <3> HIDE DEF s
    <3> QED
      BY <1>13, <2>1, <3>1, <3>2
  <2> QED
    BY <1>15, <2>2, <2>3, KillEffect
<1>16. ASSUME NEW len \in RxSize \ {0}, Read(len)
       PROVE  Held'
  BY <1>3, <1>5, <1>16, ReadEffect DEF queues
<1> QED
  BY <1>7, <1>8, <1>9, <1>10, <1>11, <1>12, <1>14, <1>15, <1>16 DEF UserCall

\* The kernel's own steps: nobody is in a handler but who listens.
LEMMA KernelStepHeld ==
    ASSUME TypeOK, TypeOK', Owned, Held, Placed, KernelStep, Alive',
           \A i \in Pid : Listens(i) => Listens(i)'
    PROVE  Held'
<1>1. /\ pcb \in [Pid -> PCB] /\ pcb_curr \in Pid /\ Curr = pcb[pcb_curr] /\ Curr \in PCB
      /\ pcb_curr' \in Pid /\ wait_queue \in [Pid -> Pid \cup {NoPid}]
  BY DEF TypeOK, Curr
<1>2. CallInv /\ ReadInv
  BY DEF Placed
<1>3. sys.at # "ret" => sys.at # "user"
  BY DEF KernelStep, Schedule, ForkCopy, ExecDone, ExecFails, ExecAborts, ExitDestroy, ExitAborts,
         ReadEnqueue, ReadBlock, PsStep, PsDone, Return
<1>4. sys.at # "ret" => \A i \in Pid : ~Listens(i) => pcb[i].state # "SIGNAL"
  BY <1>3 DEF Held, HeldOne
<1>5. ASSUME sys.at # "ret", sys.at # "sched", SameProcs, UNCHANGED wait_queue
      PROVE  Held'
  BY <1>4, <1>5, HeldSame
<1>6. ASSUME sys.at # "ret", NEW k \in Pid, Only(k), UNCHANGED wait_queue,
             ~Listens(k) => ~Stopped(k), pcb'[k].state # "SIGNAL",
             sys'.at # "sched" => pcb'[pcb_curr'].state # "BLOCKED"
      PROVE  Held'
  BY <1>1, <1>4, <1>6, HeldChange
\* In a call of its own the current process is not stopped.
<1>7. sys.at \notin {"ret", "sched"} => Curr.state # "BLOCKED" /\ (~Listens(pcb_curr) => ~Stopped(pcb_curr))
  BY <1>1, <1>4 DEF Held, Stopped
<1>8. CASE Schedule
  <2>1. /\ sys.at = "sched" /\ Only(pcb_curr') /\ UNCHANGED wait_queue
        /\ pcb[pcb_curr'].state \in {"READY", "SLEEP"}
        /\ pcb'[pcb_curr'].state \in {"READY", "RUNNING"}
    BY <1>8, ScheduleEffect DEF queues
  <2> QED
    BY <1>1, <1>6, <2>1 DEF Stopped
<1>9. CASE Return
  BY <1>9, ReturnEffect, HeldSame DEF UserMode, queues
<1>10. CASE ForkCopy
  <2>1. /\ sys.at = "fork" /\ sys.arg \in Pid /\ Only(sys.arg) /\ pcb_curr' = pcb_curr
        /\ pcb'[sys.arg].state = "READY" /\ UNCHANGED wait_queue /\ pcb[sys.arg].state = "UNUSED"
    BY <1>2, <1>10, ForkCopyEffect DEF ForkCopy, queues, CallInv, Used
  <2>2. ~Stopped(sys.arg) /\ pcb'[pcb_curr].state # "BLOCKED"
    BY <1>1, <1>7, <2>1 DEF Stopped, Only
  <2> QED
    BY <1>6, <2>1, <2>2
<1>11. CASE ExecDone
  BY <1>1, <1>6, <1>7, <1>11, ExecEffect DEF queues
<1>12. CASE ExecFails
  BY <1>5, <1>12 DEF ExecFails, SameProcs, procs, queues
<1>13. CASE ExecAborts
  BY <1>13, FrameCrash DEF ExecAborts
<1>14. CASE ExitDestroy
  <2> DEFINE parent == Curr.parent_pid
  <2>1. /\ sys.at = "exit" /\ sys'.at = "sched" /\ pcb'[pcb_curr].state = "UNUSED"
        /\ \/ Waiting(parent) = {} /\ Only(pcb_curr) /\ UNCHANGED wait_queue
           \/ /\ parent \in Pid \ {pcb_curr} /\ pcb'[parent].state = "READY"
              /\ \A i \in Pid \ {pcb_curr, parent} : pcb'[i] = pcb[i]
              /\ wait_queue' = QueueWithout(Waiting(parent))
    BY <1>14, ExitEffect DEF Unanswered, UserMode, Used
  <2>2. ~Stopped(pcb_curr)
    BY <1>2, <1>7, <2>1 DEF ReadInv
  <2>3. CASE Only(pcb_curr) /\ UNCHANGED wait_queue
    BY <1>1, <1>6, <2>1, <2>2, <2>3
  <2>4. CASE /\ parent \in Pid \ {pcb_curr} /\ pcb'[parent].state = "READY"
             /\ \A i \in Pid \ {pcb_curr, parent} : pcb'[i] = pcb[i]
             /\ wait_queue' = QueueWithout(Waiting(parent))
    <3> HIDE DEF parent
    <3>1. \A i \in Pid : Queued(i)' => Queued(i) /\ i # parent
      <4>1. NoPid \notin Pid
        BY DEF Pid, NoPid
      <4>2. \A s \in Pid : wait_queue'[s] = IF wait_queue[s] = parent THEN NoPid ELSE wait_queue[s]
        BY <2>4 DEF QueueWithout, Waiting
      <4> QED
        BY <2>4, <4>1, <4>2 DEF Queued
    <3>2. ASSUME NEW i \in Pid, ~Listens(i)
          PROVE  HeldOne(i)'
      <4>1. HeldOne(i) /\ pcb[i].state # "SIGNAL"
        BY <1>4, <2>1, <3>2 DEF Held
      <4>2. CASE i = pcb_curr \/ i = parent
        <5>1. ~Queued(i)'
          BY <2>2, <3>1, <4>1, <4>2 DEF HeldOne
        <5> QED
          BY <2>1, <2>4, <4>2, <5>1 DEF HeldOne
      <4>3. CASE i # pcb_curr /\ i # parent
        BY <2>4, <3>1, <4>1, <4>3 DEF HeldOne, Stopped
      <4> QED
        BY <4>2, <4>3
    <3>3. \A i \in Pid : pcb'[i].state = "SIGNAL" => CALLS \cap {"raise", "kill"} # {}
      BY <2>1, <2>4 DEF Held
    <3> QED
      BY <2>1, <3>2, <3>3 DEF Held
  <2> QED
    BY <2>1, <2>3, <2>4
<1>15. CASE ExitAborts
  BY <1>15, FrameCrash DEF ExitAborts, CrashUnmapped
<1>16. CASE ReadEnqueue
  BY <1>5, <1>16 DEF ReadEnqueue, SameProcs, procs
<1>17. CASE ReadBlock
  <2>1. /\ sys.at = "block" /\ sys'.at = "sched" /\ Only(pcb_curr) /\ UNCHANGED wait_queue
        /\ pcb'[pcb_curr].state = "BLOCKED"
    BY <1>17, ReadBlockEffect DEF queues, TypeOK
  <2> QED
    BY <1>1, <1>6, <1>7, <2>1
<1>18. CASE PsStep
  BY <1>5, <1>18, PsStepEffect DEF queues
<1>19. CASE PsDone
  BY <1>5, <1>19 DEF PsDone, SameProcs, procs, queues
<1> QED
  BY <1>8, <1>9, <1>10, <1>11, <1>12, <1>13, <1>14, <1>15, <1>16, <1>17, <1>18, <1>19
     DEF KernelStep

LEMMA HeldStep ==
    ASSUME HandlersRunThrough, SignalsHandled, TypeOK, TypeOK', Owned, Held, Placed, Next, Alive'
    PROVE  Held'
<1>1. \A i \in Pid : Listens(i) => Listens(i)'
  BY ListensSteps
<1>2. CASE UserCall
  BY <1>1, <1>2, UserCallHeld
<1>3. CASE KernelStep
  BY <1>1, <1>3, KernelStepHeld
<1>4. CASE Receive
  BY <1>4 DEF Receive, procs, queues, Held, HeldOne, Queued, Stopped, Listens, Curr
<1>5. ASSUME NEW i \in Pid, Serve(i)
      PROVE  Held'
  <2>1. read_queue[i].pid \in Pid
    BY <1>5, ServeEffect
  <2> SUFFICES ASSUME NEW k \in Pid, k = read_queue[i].pid
               PROVE  Held'
    BY <2>1
  <2>2. /\ Listens(k) /\ Only(k) /\ pcb'[k].state = "READY" /\ pcb_curr' = pcb_curr
        /\ UNCHANGED <<queues, sys>>
    BY <1>5, ServeEffect DEF Listens
  <2>3. sys.at # "sched" => pcb'[pcb_curr].state # "BLOCKED"
    BY <2>2 DEF Held, Only, Curr, TypeOK
  <2>4. \A j \in Pid : pcb[j].state = "SIGNAL" /\ ~Listens(j) =>
          pcb_curr = j /\ sys.at \in {"user", "ret"}
    BY DEF Held, HeldOne
  <2> QED
    BY <1>1, <2>2, <2>3, <2>4, HeldChange DEF queues, TypeOK
<1>6. CASE Tick
  <2>1. /\ \A i \in Pid : pcb'[i].state = pcb[i].state /\ pcb'[i].prev_state = pcb[i].prev_state
        /\ pcb_curr' = pcb_curr /\ UNCHANGED <<queues, sys>>
    BY <1>6, TickEffect DEF SameContext
  <2>2. Curr'.state = Curr.state
    BY <2>1 DEF Curr, TypeOK
  <2>3. \A i \in Pid : (HeldOne(i)' <=> HeldOne(i)) /\ (Listens(i)' <=> Listens(i))
    BY <2>1 DEF HeldOne, Queued, Stopped, Listens, queues
  <2> QED
    BY <2>1, <2>2, <2>3 DEF Held
<1> QED
  BY <1>2, <1>3, <1>4, <1>5, <1>6 DEF Next, Interrupt

----------------------------------------------------------------------------
(* The calls. *)

LEMMA ProcsSame ==
    ASSUME TypeOK, Layout, Zeroes, SameProcs
    PROVE  Layout' /\ Stays /\ (UNCHANGED saved_r0 => Zeroes')
<1>1. Stays
  BY DEF Stays, SameProcs, SamePlace, Used
<1>2. Layout'
  BY DEF Layout, SameProcs, Used
<1>3. UNCHANGED saved_r0 => Zeroes'
  BY DEF Zeroes, ZeroAt, ResumeR0, SameProcs, Used
<1> QED
  BY <1>1, <1>2, <1>3

\* A call that does nothing to the memory and only leaves the rest of the
\* kernel to be gone through.
LEMMA CallEnds ==
    ASSUME TypeOK, TypeOK', Owned, Placed, sys.at = "user", SameMemory, UNCHANGED read_queue,
           pcb_curr' = pcb_curr, Only(pcb_curr), SamePlace(pcb'[pcb_curr], Curr),
           Used(pcb_curr)',
           pcb'[pcb_curr].stack_pointer.section = Curr.virtual_stack_frame,
           pcb'[pcb_curr].state = "SIGNAL" =>
              pcb'[pcb_curr].prev_stack_pointer.section = Curr.virtual_stack_frame,
           SameProcs \/ ~Unexeced(Curr),
           NEW at \in {"sched", "ret"}, (\E v : Answered(at, v)) \/ Unanswered(at),
           at = "sched" => ~Unexeced(Curr)
    PROVE  Placed'
<1>1. /\ pcb \in [Pid -> PCB] /\ pcb_curr \in Pid /\ Curr = pcb[pcb_curr] /\ Used(pcb_curr)
      /\ pcb_curr' \in Pid
  BY DEF TypeOK, Curr, Owned
<1>2. Layout /\ Mapped /\ CallInv /\ ReadInv /\ Zeroes
  BY DEF Placed
<1>3. sys'.at = at /\ \/ sys'.result = UNKNOWN
                      \/ sys'.caller = pcb_curr /\ sys'.sp = Curr.stack_pointer
  BY DEF Answered, Unanswered, UserMode
<1>4. UNCHANGED <<system_frame_table, system_page_table, text_map, saved_r0>>
  BY DEF SameMemory, tables
<1>5. Stays
  BY <1>1 DEF Stays, Only, SamePlace, Used
<1>6. Layout'
  <2>1. CASE SameProcs
    BY <1>2, <2>1, ProcsSame
  <2>2. CASE ~Unexeced(Curr)
    BY <1>1, <1>2, <1>5, <2>2, LayoutStays DEF Only, Layout
  <2> QED
    BY <2>1, <2>2
<1>7. Mapped'
  BY <1>2, <1>3, <1>4 DEF Mapped
<1>8. CallInv'
  <2>1. system_page_table[Curr.virtual_stack_frame] = Curr.stack_frame
    BY <1>2 DEF Mapped
  <2>2. Curr.stack_pointer.section = Curr.virtual_stack_frame
    BY <1>1, <1>2 DEF Layout
  <2>3. /\ pcb'[pcb_curr].virtual_stack_frame = Curr.virtual_stack_frame
        /\ pcb'[pcb_curr].stack_frame = Curr.stack_frame
    BY DEF SamePlace
  <2> QED
    BY <1>1, <1>3, <1>4, <2>1, <2>2, <2>3 DEF CallInv, Curr, Unexeced
<1>9. ReadInv'
  BY <1>1, <1>2, <1>3, <1>5, ReadStays
<1>10. Zeroes'
  <2>1. CASE SameProcs
    BY <1>2, <1>4, <2>1, ProcsSame
  <2>2. CASE ~Unexeced(Curr)
    BY <1>1, <1>2, <1>4, <2>2, ZeroStays DEF Only, Zeroes, Used
  <2> QED
    BY <2>1, <2>2
<1> QED
  BY <1>6, <1>7, <1>8, <1>9, <1>10 DEF Placed

\* exec, exit, ps, and a read that has to wait, go further into the kernel.
LEMMA CallEnters ==
    ASSUME ProgramsFirst, TypeOK, TypeOK', Owned, Placed,
           Exec \/ Exit \/ Ps \/ \E len \in RxSize \ {0} : Read(len) /\ sys'.at = "read"
    PROVE  Placed'
<1>1. /\ pcb \in [Pid -> PCB] /\ pcb_curr \in Pid /\ Curr = pcb[pcb_curr]
      /\ system_page_table \in PageTable
  BY DEF TypeOK, Curr
<1>2. Layout /\ Mapped /\ CallInv /\ ReadInv /\ Zeroes
  BY DEF Placed
<1>3. /\ SameProcs /\ UNCHANGED <<queues, saved_r0, system_frame_table>>
      /\ sys'.caller = pcb_curr /\ sys'.sp = Curr.stack_pointer
      /\ \/ Exec /\ sys'.at = "exec"
         \/ Exit /\ sys'.at = "exit"
         \/ Ps /\ sys'.at = "ps" /\ UNCHANGED tables
         \/ (\E len \in RxSize \ {0} : Read(len)) /\ sys'.at = "read" /\ UNCHANGED tables
  BY EnterEffect, ReadEffect DEF SameMemory, Answered, tables
<1>4. /\ sys.at = "user" /\ Used(pcb_curr)
      /\ sys'.at = "ps" => "ps" \in CALLS
      /\ sys'.at = "read" => "read" \in CALLS
  BY <1>3, MayFacts DEF Exec, Exit, Ps, Read
<1>5. /\ sys'.at = "exit" /\ "read" \in CALLS => ~Listens(pcb_curr)
      /\ sys'.at \in {"ps", "read"} => AllExeced
  BY <1>3, <1>4 DEF Exec, Exit, Ps, Read, May, ProgramsFirst, AllExeced
<1>6. sys'.at = "exit" => ~Listens(pcb_curr)
  <2>1. Quiet => ~Listens(pcb_curr)
    BY <1>1 DEF Quiet, Listens, Pid, NoPid
  <2> QED
    BY <1>2, <1>5, <2>1 DEF ReadInv, NoReads
<1>7. Layout' /\ Stays /\ Zeroes'
  BY <1>2, <1>3, ProcsSame
<1>8. ReadInv'
  <2>1. sys'.at = "read" => ~NoReads
    BY <1>4 DEF NoReads
  <2>2. pcb_curr' = pcb_curr /\ sys'.at # "block"
    BY <1>3 DEF SameProcs
  <2> QED
    BY <1>1, <1>2, <1>3, <1>4, <1>5, <1>6, <1>7, <2>1, <2>2, ReadStays DEF queues
<1>9. CallInv'
  <2>1. sys'.at = "exit" => \A c \in Children(pcb_curr) : ~Unexeced(pcb[c])
    BY <1>3 DEF Exit, May, ProgramsFirst
  <2> QED
    BY <1>3, <2>1 DEF CallInv, SameProcs, Curr, Children, Used
<1>10. Mapped'
  <2>1. system_page_table[Curr.virtual_stack_frame] = Curr.stack_frame
    BY <1>2, <1>4 DEF Mapped
  <2>2. /\ Curr \in PCB /\ Frames(Curr) \subseteq system_frame_table
        /\ Curr.virtual_stack_frame \in Frame
        /\ Curr.virtual_stack_frame \in Frames(Curr)
             => Curr.virtual_stack_frame = Curr.stack_frame
        /\ Frames(Curr) \subseteq Frame
    BY <1>1, <1>2, <1>4, Places DEF Unexeced
  <2>3. Curr' = Curr
    BY <1>3 DEF SameProcs, Curr
  <2>4. CASE Exec /\ sys'.at = "exec"
    <3>1. \A f \in Frame : system_page_table'[f]
                             = IF f \in Frames(Curr) THEN f ELSE system_page_table[f]
      BY <1>1, <2>2, <2>4, MapAt DEF Exec
    <3> QED
      BY <1>2, <1>3, <2>1, <2>2, <2>3, <2>4, <3>1 DEF Mapped, Identity
  <2>5. CASE Exit /\ sys'.at = "exit"
    <3>1. \A f \in Frame : system_page_table'[f]
                             = IF f \in Frames(Curr) THEN FAULT ELSE system_page_table[f]
      BY <1>1, <2>2, <2>5, MapAt DEF Exit
    <3> QED
      BY <1>2, <1>3, <2>2, <2>3, <2>5, <3>1 DEF Mapped
  <2>6. CASE sys'.at \in {"ps", "read"} /\ UNCHANGED tables
    BY <1>2, <1>3, <2>1, <2>3, <2>6 DEF Mapped, tables
  <2> QED
    BY <1>3, <2>4, <2>5, <2>6
<1> QED
  BY <1>7, <1>8, <1>9, <1>10 DEF Placed

\* fork has mapped child and parent where their frames are.
LEMMA SpawnPlaces ==
    ASSUME ProgramsFirst, TypeOK, TypeOK', Owned, Placed, Fork,
           NEW c \in Pid, NEW text \in Frame, NEW stack \in Frame, Spawned(c, text, stack)
    PROVE  Placed'
<1>1. /\ pcb \in [Pid -> PCB] /\ pcb_curr \in Pid /\ Curr = pcb[pcb_curr]
      /\ system_page_table \in PageTable /\ pcb'[c] \in PCB
  BY DEF TypeOK, Curr
<1>2. Layout /\ Mapped /\ CallInv /\ ReadInv /\ Zeroes
  BY DEF Placed
<1>3. sys.at = "user" /\ Used(pcb_curr) /\ ~Unexeced(Curr)
  <2>1. May("fork")
    BY DEF Fork
  <2> QED
    BY <2>1, MayFacts DEF ProgramsFirst
<1>5. /\ \A i \in Pid : Used(i)' <=> Used(i)
      /\ \A i \in Pid : Used(i) => pcb'[i] = pcb[i]
      /\ c # pcb_curr /\ pcb_curr' = pcb_curr /\ Curr' = Curr
  BY <1>1, <1>3 DEF Spawned, Only, Used, Curr
<1>6. sys'.at = "fork" /\ sys'.arg = c /\ sys'.caller = pcb_curr /\ sys'.sp = Curr.stack_pointer
  BY DEF Spawned
<1>7. Layout'
  BY <1>2, <1>5 DEF Layout
<1>8. Zeroes'
  BY <1>2, <1>5 DEF Zeroes, ZeroAt, ResumeR0, Spawned
<1>9. ReadInv'
  BY <1>2, <1>5, <1>6 DEF ReadInv, Quiet, Spawned, queues, TypeOK, ReadTransaction
<1>10. CallInv'
  BY <1>3, <1>5, <1>6 DEF CallInv, Spawned
<1>11. Mapped'
  <2>1. Curr.virtual_stack_frame = Curr.stack_frame
    BY <1>3 DEF Unexeced
  <2>2. Curr \in PCB /\ Frames(Curr) \subseteq system_frame_table /\ Frames(Curr) \subseteq Frame
    BY <1>1, <1>2, <1>3, Places
  <2>3. Frames(pcb'[c]) = {text, stack}
    BY DEF Spawned, Frames
  <2>4. ProcFrameWriteEnable(system_page_table, pcb'[c]) \in PageTable
    BY <1>1, TableTypes
  <2>5. \A f \in Frame : system_page_table'[f] = IF f \in Frames(Curr) \cup {text, stack} THEN f
                                                 ELSE system_page_table[f]
    BY <1>1, <2>2, <2>3, <2>4, MapAt DEF Spawned
  <2>6. system_frame_table' = system_frame_table \cup {text, stack}
    BY DEF Spawned
  <2>7. Curr.stack_frame \in Frames(Curr)
    BY DEF Frames
  <2> QED
    BY <1>2, <1>5, <1>6, <2>1, <2>2, <2>3, <2>5, <2>6, <2>7 DEF Mapped, Identity
<1> QED
  BY <1>7, <1>8, <1>9, <1>10, <1>11 DEF Placed

\* kill maps its target; the caller finds its result on its own stack.
LEMMA KillPlaces ==
    ASSUME ProgramsFirst, TypeOK, TypeOK', Owned, Placed,
           NEW pid \in Pid, NEW sig \in SIGNALS, Kill(pid, sig),
           Used(pid), sig \in pcb[pid].signal_handler, Handed(pid), Answered("ret", 0),
           Interrupted(pid, IF pid = pcb_curr THEN "READY" ELSE pcb[pid].state)
    PROVE  Placed'
<1>1. /\ pcb \in [Pid -> PCB] /\ pcb_curr \in Pid /\ Curr = pcb[pcb_curr]
      /\ system_page_table \in PageTable
  BY DEF TypeOK, Curr
<1>2. Layout /\ Mapped /\ CallInv /\ ReadInv /\ Zeroes
  BY DEF Placed
<1>3. sys.at = "user" /\ Used(pcb_curr) /\ ~Unexeced(Curr)
  BY MayFacts DEF Kill, ProgramsFirst
<1>4. ~Unexeced(pcb[pid])
  BY <1>2 DEF Layout
<1>5. sys'.at = "ret" /\ sys'.caller = pcb_curr /\ sys'.sp = Curr.stack_pointer
  BY DEF Answered
<1>6. /\ pcb_curr' = pid /\ UNCHANGED <<queues, system_frame_table, saved_r0>>
      /\ system_page_table' = ProcFrameMap(system_page_table, pcb[pid])
      /\ \A i \in Pid \ {pid, pcb_curr} : pcb'[i] = pcb[i]
      /\ pid # pcb_curr => SameContext(pcb'[pcb_curr], Curr) /\ pcb'[pcb_curr].state = "READY"
  BY DEF Handed
<1>7. /\ SamePlace(pcb'[pid], pcb[pid]) /\ pcb'[pid].state = "SIGNAL"
      /\ pcb'[pid].stack_pointer.section = pcb[pid].stack_pointer.section
      /\ pcb'[pid].prev_stack_pointer = pcb[pid].stack_pointer
  BY DEF Interrupted
<1>8. Stays
  BY <1>1, <1>3, <1>6, <1>7 DEF Stays, SameContext, SamePlace, Used
<1>9. Layout'
  BY <1>1, <1>2, <1>3, <1>4, <1>6, <1>7, <1>8, LayoutStays DEF Layout, SameContext
<1>10. ReadInv'
  BY <1>2, <1>5, <1>6, <1>8, ReadStays DEF queues
<1>11. Zeroes'
  BY <1>1, <1>2, <1>3, <1>4, <1>6, <1>8, ZeroStays DEF Stays, SamePlace, Unexeced, Zeroes
<1>12. \A f \in Frame : system_page_table'[f]
           = IF f = pcb[pid].stack_frame THEN f
             ELSE IF f \in Frames(pcb[pid]) THEN FAULT ELSE system_page_table[f]
  BY <1>1, <1>4, <1>6, MapAt DEF Unexeced
<1>13. Mapped'
  <2>1. pcb[pid].stack_frame \in system_frame_table
    BY <1>2, Places DEF Frames
  <2> QED
    BY <1>2, <1>5, <1>6, <1>12, <2>1 DEF Mapped
<1>14. CallInv'
  <2>1. /\ Curr.stack_pointer.section = Curr.stack_frame /\ Curr.stack_frame \in Frame
        /\ system_page_table[Curr.stack_frame] = Curr.stack_frame
        /\ pid # pcb_curr => Curr.stack_frame \notin Frames(pcb[pid])
    BY <1>1, <1>2, <1>3, Places DEF Layout, Mapped, Unexeced, Frames
  <2>2. system_page_table'[Curr.stack_frame] = Curr.stack_frame
    BY <1>1, <1>12, <2>1 DEF Frames
  <2>3. /\ pcb'[pcb_curr].state # "UNUSED" /\ ~Unexeced(pcb'[pcb_curr])
        /\ pcb'[pcb_curr].virtual_stack_frame = Curr.stack_frame
        /\ pcb'[pcb_curr].stack_frame = Curr.stack_frame
    BY <1>1, <1>3, <1>8 DEF Stays, SamePlace, Unexeced, Used
  <2>4. /\ sys'.caller = pcb_curr /\ sys'.sp.section = Curr.stack_frame /\ sys'.at = "ret"
    BY <1>5, <2>1
  <2> QED
    BY <1>1, <2>2, <2>3, <2>4 DEF CallInv, Used
<1> QED
  BY <1>9, <1>10, <1>11, <1>13, <1>14 DEF Placed

LEMMA UserCallPlaces ==
    ASSUME ProgramsFirst, SignalsHandled, TypeOK, TypeOK', Owned, Placed, UserCall, Alive'
    PROVE  Placed'
<1>1. /\ pcb \in [Pid -> PCB] /\ pcb_curr \in Pid /\ Curr = pcb[pcb_curr]
  BY DEF TypeOK, Curr
<1>2. Layout
  BY DEF Placed
<1>3. sys.at = "user" /\ Used(pcb_curr)
  BY MayFacts DEF UserCall, Yield, Usleep, Fork, Exec, Wait, SignalReturn, Exit, Signal,
              Raise, Kill, Read, Ps
<1>4. /\ Curr.stack_pointer.section = Curr.virtual_stack_frame
      /\ Curr.state = "SIGNAL" =>
            /\ Curr.prev_stack_pointer.section = Curr.virtual_stack_frame
            /\ ~Unexeced(Curr)
  BY <1>1, <1>2, <1>3 DEF Layout
\* Between fork and exec a child calls neither of these.
<1>5. ASSUME NEW call, May(call), call \notin {"exec", "exit"}
      PROVE  ~Unexeced(Curr)
  BY <1>5, MayFacts DEF ProgramsFirst
<1>6. ASSUME SameProcs, SameMemory, UNCHANGED queues, NEW v, Answered("ret", v)
      PROVE  Placed'
  <2>1. SamePlace(pcb'[pcb_curr], Curr) /\ Only(pcb_curr) /\ Used(pcb_curr)'
    BY <1>1, <1>3, <1>6 DEF SameProcs, SamePlace, Only, Used
  <2>2. /\ pcb'[pcb_curr].stack_pointer = Curr.stack_pointer
        /\ pcb'[pcb_curr].state = Curr.state
        /\ pcb'[pcb_curr].prev_stack_pointer = Curr.prev_stack_pointer
    BY <1>1, <1>6 DEF SameProcs
  <2> QED
    BY <1>3, <1>4, <1>6, <2>1, <2>2, CallEnds DEF SameProcs, queues
<1>7. CASE Yield \/ \E timeout \in 0 .. MAX_TIMEOUT : Usleep(timeout)
  BY <1>3, <1>4, <1>5, <1>7, YieldEffect, CallEnds DEF SameContext, Used, queues
<1>8. CASE Fork
  BY <1>6, <1>8, ForkEffect, SpawnPlaces
<1>9. CASE Exec \/ Exit \/ Ps
  BY <1>9, CallEnters
<1>10. CASE Wait
  <2>1. ~Unexeced(Curr)
    BY <1>5, <1>10, WaitEffect
  <2>2. CASE SameProcs /\ Unanswered("ret")
    <3>1. SamePlace(pcb'[pcb_curr], Curr) /\ Only(pcb_curr) /\ Used(pcb_curr)'
      BY <1>1, <1>3, <2>2 DEF SameProcs, SamePlace, Only, Used
    <3>2. /\ pcb'[pcb_curr].stack_pointer = Curr.stack_pointer
          /\ pcb'[pcb_curr].state = Curr.state
          /\ pcb'[pcb_curr].prev_stack_pointer = Curr.prev_stack_pointer
      BY <1>1, <2>2 DEF SameProcs
    <3> QED
      BY <1>3, <1>4, <1>10, <2>1, <2>2, <3>1, <3>2, WaitEffect, CallEnds
  <2>3. CASE /\ Only(pcb_curr) /\ SameContext(pcb'[pcb_curr], Curr)
             /\ pcb'[pcb_curr].state = "BLOCKED" /\ Unanswered("sched")
    BY <1>3, <1>4, <1>10, <2>1, <2>3, WaitEffect, CallEnds DEF SameContext, Used
  <2> QED
    BY <1>10, <2>2, <2>3, WaitEffect
<1>11. CASE SignalReturn
  <2>1. Curr.state = "SIGNAL" /\ Curr.prev_state # "UNUSED"
    BY <1>1, <1>11 DEF Owned, SignalReturn
  <2>2. Used(pcb_curr)'
    BY <1>11, <2>1, SignalReturnEffect DEF Used
  <2> QED
    BY <1>3, <1>4, <1>11, <2>1, <2>2, SignalReturnEffect, CallEnds DEF queues
<1>12. ASSUME NEW sig \in SIGNALS, NEW on \in BOOLEAN, Signal(sig, on)
       PROVE  Placed'
  <2>1. ~Unexeced(Curr) /\ Used(pcb_curr)'
    BY <1>1, <1>3, <1>5, <1>12, SignalEffect DEF Used
  <2> QED
    BY <1>3, <1>4, <1>12, <2>1, SignalEffect, CallEnds DEF queues
<1>13. ASSUME NEW sig \in SIGNALS, Raise(sig)
       PROVE  Placed'
  <2>1. ~Unexeced(Curr)
    BY <1>5, <1>13, RaiseEffect
  <2>2. CASE Only(pcb_curr) /\ Interrupted(pcb_curr, Curr.state) /\ Answered("ret", 0)
    <3>1. /\ SamePlace(pcb'[pcb_curr], Curr) /\ Used(pcb_curr)'
          /\ pcb'[pcb_curr].stack_pointer.section = Curr.virtual_stack_frame
          /\ pcb'[pcb_curr].prev_stack_pointer = Curr.stack_pointer
      BY <1>1, <1>4, <1>13, <2>2, RaiseEffect DEF Interrupted, Used
    <3> QED
      BY <1>3, <1>4, <1>13, <2>1, <2>2, <3>1, RaiseEffect, CallEnds DEF queues
  <2> QED
    BY <1>6, <1>13, <2>2, RaiseEffect
<1>14. ASSUME NEW pid \in Pid, NEW sig \in SIGNALS, Kill(pid, sig)
       PROVE  Placed'
  BY <1>6, <1>14, KillEffect, KillPlaces
<1>15. ASSUME NEW len \in RxSize \ {0}, Read(len)
       PROVE  Placed'
  <2>1. CASE Answered("ret", len)
    BY <1>6, <1>15, <2>1, ReadEffect
  <2>2. CASE sys'.at = "read"
    BY <1>15, <2>2, CallEnters
  <2> QED
    BY <1>15, <2>1, <2>2, ReadEffect
<1> QED
  BY <1>7, <1>8, <1>9, <1>10, <1>11, <1>12, <1>13, <1>14, <1>15 DEF UserCall

----------------------------------------------------------------------------
(* The kernel's own steps. *)

\* Whoever is picked is mapped where he sees his stack already or will be by
\* the return; nobody is left that has not executed his program.
LEMMA SchedulePlaces ==
    ASSUME TypeOK, TypeOK', Owned, Placed, Schedule
    PROVE  Placed'
<1> DEFINE k == pcb_curr'
<1>1. pcb \in [Pid -> PCB] /\ pcb_curr \in Pid /\ k \in Pid /\ Curr = pcb[pcb_curr]
  BY DEF TypeOK, Curr
<1>2. Layout /\ Mapped /\ CallInv /\ ReadInv /\ Zeroes
  BY DEF Placed
<1>3. /\ sys.at = "sched" /\ sys' = [sys EXCEPT !.at = "ret"] /\ Only(k)
      /\ pcb[k].state \in {"READY", "SLEEP"} /\ SameContext(pcb'[k], pcb[k])
      /\ pcb'[k].state \in {"READY", "RUNNING"}
      /\ UNCHANGED <<queues, system_frame_table, system_page_table, text_map, saved_r0>>
  BY ScheduleEffect DEF SameMemory, tables
<1>4. /\ sys'.at = "ret" /\ sys'.result = sys.result /\ sys'.sp = sys.sp
      /\ sys'.caller = sys.caller
  BY <1>3 DEF TypeOK
<1>5. Stays /\ Used(k) /\ pcb'[k].state # "UNUSED"
  BY <1>1, <1>3 DEF Stays, Only, SameContext, SamePlace, Used
<1>6. Used(pcb_curr) => ~Unexeced(Curr)
  BY <1>2, <1>3 DEF CallInv
<1> HIDE DEF k
<1>7. Layout'
  BY <1>1, <1>2, <1>3, <1>5, LayoutStays DEF Layout, Only, SameContext
<1>8. Mapped'
  BY <1>2, <1>3, <1>4 DEF Mapped
<1>9. CallInv'
  <2>1. sys.result # UNKNOWN =>
          /\ sys.caller \in Pid /\ Used(sys.caller) /\ ~Unexeced(pcb[sys.caller])
          /\ sys.sp.section = pcb[sys.caller].virtual_stack_frame
          /\ system_page_table[sys.sp.section] = pcb[sys.caller].stack_frame
    BY <1>1, <1>2, <1>3, <1>6 DEF CallInv
  <2> QED
    BY <1>3, <1>4, <1>5, <2>1 DEF CallInv, Stays, SamePlace, Unexeced
<1>10. ReadInv'
  BY <1>1, <1>2, <1>3, <1>4, <1>5, ReadStays DEF queues, k
<1>11. Zeroes'
  <2>1. ASSUME NEW i \in Pid, i # k
        PROVE  ZeroAt(i)'
    BY <1>1, <1>2, <1>3, <1>6, <2>1, ZeroStays DEF Only, Used, Unexeced
  <2> QED
    BY <2>1 DEF Zeroes, ZeroAt, k
<1> QED
  BY <1>7, <1>8, <1>9, <1>10, <1>11 DEF Placed

\* The context switch leaves of all processes only the current one mapped; the
\* result goes to the caller's stack, and the r0 is taken from the current's.
LEMMA ReturnPlaces ==
    ASSUME TypeOK, TypeOK', Owned, Placed, Return, Alive'
    PROVE  Placed'
<1>1. /\ pcb \in [Pid -> PCB] /\ pcb_curr \in Pid /\ Curr = pcb[pcb_curr] /\ Curr \in PCB
      /\ system_page_table \in PageTable /\ saved_r0 \in Memory
      /\ system_page_table' \in PageTable
  BY DEF TypeOK, Curr, Memory
<1>2. Layout /\ Mapped /\ CallInv /\ ReadInv /\ Zeroes
  BY DEF Placed
<1>3. /\ sys.at = "ret" /\ sys' = UserMode /\ SameProcs
      /\ UNCHANGED <<queues, system_frame_table>>
      /\ system_page_table' = ContextSwitchTable(system_page_table, UsedPcbs, Curr)
      /\ text_map' = Curr.text_frame
      /\ saved_r0' = Write(Stored(saved_r0), system_page_table', Curr.stack_pointer, UNKNOWN)
  BY ReturnEffect
<1>4. sys'.at = "user" /\ Used(pcb_curr) /\ Curr' = Curr /\ pcb_curr' = pcb_curr
  BY <1>3 DEF UserMode, Owned, SameProcs, Curr
<1>5. Layout' /\ Stays
  BY <1>2, <1>3, ProcsSame
<1>6. /\ Curr.virtual_stack_frame \in system_frame_table
      /\ Curr.virtual_stack_frame \in Frame
      /\ Curr.stack_frame \in Frame /\ Curr.stack_frame \notin KERNEL_FRAMES
  BY <1>1, <1>2, <1>4, ViewInUse, Places
<1>7. \A f \in Frame : system_page_table'[f]
         = IF f = Curr.virtual_stack_frame THEN Curr.stack_frame
           ELSE IF f \in Frames(Curr) \/ \E i \in Pid : Used(i) /\ f \in Frames(pcb[i])
                THEN FAULT ELSE system_page_table[f]
  BY <1>1, <1>3, SwitchAt
<1>8. Mapped'
  <2>1. \A f \in Frame \ system_frame_table : system_page_table'[f] = FAULT
    BY <1>2, <1>6, <1>7 DEF Mapped
  <2>2. ASSUME NEW f \in Frame \ KERNEL_FRAMES
        PROVE  system_page_table'[f] \in {FAULT, Curr.stack_frame}
    <3>1. \A i \in Pid : Holds(i) <=> Used(i)
      BY <1>3 DEF Holds
    <3>2. f \notin system_frame_table \/ \E i \in Pid : Used(i) /\ f \in Frames(pcb[i])
      BY <3>1 DEF Owned
    <3> QED
      BY <1>7, <2>1, <3>2
  <2>3. system_page_table'[Curr.virtual_stack_frame] = Curr.stack_frame
    BY <1>6, <1>7
  <2> QED
    BY <1>3, <1>4, <2>1, <2>2, <2>3 DEF Mapped
<1>9. CallInv'
  BY <1>4 DEF CallInv
<1>10. ReadInv'
  BY <1>1, <1>2, <1>3, <1>4, <1>5, ReadStays DEF queues
<1>11. Zeroes'
  <2> SUFFICES ASSUME NEW i \in Pid, Used(i), Unexeced(pcb[i]), i # pcb_curr
               PROVE  saved_r0'[pcb[i].stack_frame][pcb[i].stack_pointer.level]
                        = saved_r0[pcb[i].stack_frame][pcb[i].stack_pointer.level]
    BY <1>2, <1>3, <1>4, ZeroStays DEF Zeroes, SameProcs, Used
  <2> DEFINE f == pcb[i].stack_frame
             l == pcb[i].stack_pointer.level
  <2>1. f \in Frame /\ l \in Level /\ f # Curr.stack_frame
    BY <1>1, <1>2, <1>4, Places DEF PCB, Pointer, Frames
  <2>2. Curr.stack_pointer.section = Curr.virtual_stack_frame /\ Curr.stack_pointer \in Pointer
    BY <1>1, <1>2, <1>4 DEF Layout, PCB
  <2>3. sys.result # UNKNOWN =>
          /\ sys.caller \in Pid /\ Used(sys.caller) /\ sys.caller # i
          /\ system_page_table[sys.sp.section] = pcb[sys.caller].stack_frame
          /\ sys.sp \in Pointer
    BY <1>2, <1>3 DEF CallInv, TypeOK
  <2>4. sys.result # UNKNOWN =>
          /\ system_page_table[sys.sp.section] \in Frame \ KERNEL_FRAMES
          /\ system_page_table[sys.sp.section] # f
    BY <1>2, <2>3, Places DEF Frames
  <2>5. Stored(saved_r0) \in Memory
    BY <1>1, <2>3, <2>4, WriteType DEF Stored, Writable, TypeOK
  <2>6. Stored(saved_r0)[f][l] = saved_r0[f][l]
    <3> HIDE DEF f, l
    <3>1. CASE sys.result = UNKNOWN
      BY <3>1 DEF Stored
    <3>2. CASE sys.result # UNKNOWN
      <4>1. Stored(saved_r0) = Write(saved_r0, system_page_table, sys.sp, sys.result)
        BY <3>2 DEF Stored
      <4>2. sys.sp \in Pointer /\ system_page_table[sys.sp.section] \in Frame \ {f}
        BY <2>3, <2>4, <3>2
      <4>3. Write(saved_r0, system_page_table, sys.sp, sys.result)[f][l] = saved_r0[f][l]
        BY <1>1, <2>1, <4>2, WriteAt
      <4> QED
        BY <4>1, <4>3
    <3> QED
      BY <3>1, <3>2
  <2>7. system_page_table'[Curr.stack_pointer.section] = Curr.stack_frame
    BY <1>6, <1>7, <2>2
  <2>8. Write(Stored(saved_r0), system_page_table', Curr.stack_pointer, UNKNOWN)[f][l]
          = Stored(saved_r0)[f][l]
    BY <1>6, <2>1, <2>2, <2>5, <2>7, WriteAt
  <2> QED
    BY <1>3, <2>6, <2>8
<1> QED
  BY <1>5, <1>8, <1>9, <1>10, <1>11 DEF Placed

\* The child gets a copy of its parent's stack, with its 0 where the parent's
\* stack pointer is; until it has executed its program it sees it there.
LEMMA ForkCopyPlaces ==
    ASSUME TypeOK, TypeOK', Owned, Placed, ForkCopy, Alive'
    PROVE  Placed'
<1>0. sys.arg \in Pid
  BY ForkCopyEffect
<1> SUFFICES ASSUME NEW c \in Pid, c = sys.arg
             PROVE  Placed'
  BY <1>0
<1> DEFINE child == pcb[c]
<1>1. /\ pcb \in [Pid -> PCB] /\ pcb_curr \in Pid /\ Curr = pcb[pcb_curr] /\ Curr \in PCB
      /\ system_page_table \in PageTable /\ saved_r0 \in Memory
  BY DEF TypeOK, Curr, Memory
<1>2. Layout /\ Mapped /\ CallInv /\ ReadInv /\ Zeroes
  BY DEF Placed
<1>3. sys.at = "fork" /\ c \in Pid
  BY ForkCopyEffect DEF ForkCopy
<1>4. /\ Used(pcb_curr) /\ ~Used(c) /\ c # pcb_curr
      /\ Curr.virtual_stack_frame = Curr.stack_frame
      /\ child.virtual_stack_frame = Curr.stack_frame /\ child.signal_handler = {}
  BY <1>2, <1>3 DEF CallInv, Owned, ReadInv, Unexeced
<1>5. /\ Holds(c) /\ Frames(child) \cap KERNEL_FRAMES = {} /\ Frames(child) \subseteq system_frame_table
      /\ child \in PCB /\ child.stack_frame \in Frame
      /\ \A i \in Pid : Used(i) => Frames(child) \cap Frames(pcb[i]) = {}
  <2>1. Holds(c) /\ child \in PCB /\ \A i \in Pid : Used(i) => Holds(i) /\ i # c
    BY <1>1, <1>3, <1>4 DEF Holds
  <2>2. Frames(child) \subseteq Frame /\ child.stack_frame \in Frame
    BY <2>1 DEF Frames, PCB
  <2> QED
    BY <1>3, <2>1, <2>2 DEF Owned, Foreign
<1>6. /\ Only(c) /\ pcb_curr' = pcb_curr
      /\ pcb'[c].stack_frame = child.stack_frame
      /\ pcb'[c].virtual_stack_frame = Curr.stack_frame
      /\ pcb'[c].signal_handler = {}
      /\ pcb'[c].stack_pointer = Curr.stack_pointer
      /\ pcb'[c].parent_pid = pcb_curr
      /\ pcb'[c].state = "READY"
      /\ system_page_table' = ProcFrameWriteDisable(system_page_table, child)
      /\ UNCHANGED <<queues, system_frame_table, text_map>>
      /\ sys' = [sys EXCEPT !.at = "ret", !.result = c]
  BY <1>4, ForkCopyEffect
<1>7. /\ sys'.at = "ret" /\ sys'.caller = pcb_curr /\ sys'.sp = Curr.stack_pointer
  BY <1>2, <1>3, <1>6 DEF CallInv, TypeOK
<1>8. Curr.stack_frame \in Frame /\ Curr.stack_frame \notin Frames(child)
  BY <1>1, <1>2, <1>4, <1>5, Places DEF Frames
<1>9. \A i \in Pid \ {c} : pcb'[i] = pcb[i] /\ (Used(i)' <=> Used(i))
  BY <1>6 DEF Only, Used
<1>10. saved_r0' = Write([saved_r0 EXCEPT ![child.stack_frame] = saved_r0[Curr.stack_frame]],
                         system_page_table,
                         [Curr.stack_pointer EXCEPT !.section = ChildSection(child)], 0)
  BY ForkCopyEffect
<1>11. Layout'
  <2>1. ASSUME NEW i \in Pid \ {c}, Used(i)
        PROVE  Unexeced(pcb[i]) => pcb[i].parent_pid \in Pid \ {c}
    BY <1>2, <1>4, <2>1 DEF Layout
  <2>2. pcb'[c].stack_pointer.section = Curr.stack_frame
    BY <1>1, <1>2, <1>4, <1>6 DEF Layout
  <2>3. Unexeced(pcb'[c]) /\ ~Unexeced(pcb'[pcb_curr]) /\ pcb'[pcb_curr] = Curr
    BY <1>1, <1>4, <1>6, <1>8, <1>9 DEF Unexeced, Frames
  <2>4. ASSUME NEW i \in Pid \ {c}, Used(i)'
        PROVE  /\ pcb'[i].stack_pointer.section = pcb'[i].virtual_stack_frame
               /\ pcb'[i].state = "SIGNAL" =>
                     pcb'[i].prev_stack_pointer.section = pcb'[i].virtual_stack_frame
               /\ ~Unexeced(pcb'[i]) => pcb'[i].argv = pcb'[i].stack_frame
               /\ Unexeced(pcb'[i]) =>
                    /\ pcb'[i].parent_pid \in Pid /\ Used(pcb[i].parent_pid)'
                    /\ ~Unexeced(pcb'[pcb'[i].parent_pid])
                    /\ pcb'[i].virtual_stack_frame = pcb'[pcb'[i].parent_pid].stack_frame
                    /\ pcb'[i].signal_handler = {}
                    /\ pcb'[i].state \in {"READY", "RUNNING"}
    BY <1>2, <1>9, <2>1, <2>4 DEF Layout, Used
  <2> QED
    BY <1>1, <1>4, <1>6, <1>9, <2>2, <2>3, <2>4 DEF Layout, Used
<1>12. \A f \in Frame : system_page_table'[f]
                          = IF f \in Frames(child) THEN FAULT ELSE system_page_table[f]
  BY <1>1, <1>5, <1>6, MapAt
<1>13. Mapped'
  BY <1>2, <1>6, <1>7, <1>12 DEF Mapped
<1>14. CallInv'
  <2>1. /\ Curr.stack_pointer.section = Curr.stack_frame
        /\ system_page_table[Curr.stack_frame] = Curr.stack_frame
    BY <1>1, <1>2, <1>3, <1>4 DEF Layout, Mapped
  <2>2. /\ sys'.sp.section = Curr.stack_frame
        /\ system_page_table'[Curr.stack_frame] = Curr.stack_frame
    BY <1>7, <1>8, <1>12, <2>1
  <2>3. pcb'[pcb_curr] = Curr /\ Used(pcb_curr)'
    BY <1>1, <1>4, <1>9, <1>6
  <2> QED
    BY <1>1, <1>4, <1>6, <1>7, <2>2, <2>3 DEF CallInv, Used
<1>15. ReadInv'
  BY <1>2, <1>4, <1>6, <1>7, <1>9 DEF ReadInv, Quiet, queues, TypeOK, ReadTransaction
<1>16. Zeroes'
  <2> DEFINE copied == [saved_r0 EXCEPT ![child.stack_frame] = saved_r0[Curr.stack_frame]]
             target == [Curr.stack_pointer EXCEPT !.section = ChildSection(child)]
  <2>1. Curr.stack_pointer \in Pointer /\ Curr.stack_pointer.section = Curr.stack_frame
    BY <1>1, <1>2, <1>4 DEF PCB, Layout
  <2>2. ChildSection(child) = child.stack_frame
    BY <1>5, <1>8, <2>1, FrameAssumption DEF ChildSection, Frame
  <2>3. target \in Pointer /\ target.section = child.stack_frame
        /\ target.level = Curr.stack_pointer.level
    BY <1>5, <2>1, <2>2 DEF Pointer
  <2>4. system_page_table[child.stack_frame] = child.stack_frame
    BY <1>2, <1>3 DEF Mapped, Identity, Frames
  <2>5. /\ copied \in Memory
        /\ \A f \in Frame \ {child.stack_frame} : copied[f] = saved_r0[f]
    BY <1>1, <1>5, <1>8 DEF Memory
  <2>6. saved_r0' = Write(copied, system_page_table, target, 0)
    BY <1>10
  <2> HIDE DEF copied, target, child
  <2>7. \A f \in Frame, l \in Level :
          saved_r0'[f][l] = IF f = child.stack_frame /\ l = target.level THEN 0 ELSE copied[f][l]
    BY <1>5, <2>3, <2>4, <2>5, <2>6, WriteAt
  <2>8. ZeroAt(c)'
    <3>1. Curr.stack_pointer.level \in Level
      BY <2>1 DEF Pointer
    <3> QED
      BY <1>5, <1>6, <2>3, <2>7, <3>1 DEF ZeroAt, ResumeR0
  <2>9. ASSUME NEW i \in Pid \ {c}, Used(i), Unexeced(pcb[i])
        PROVE  saved_r0'[pcb[i].stack_frame][pcb[i].stack_pointer.level]
                 = saved_r0[pcb[i].stack_frame][pcb[i].stack_pointer.level]
    <3>1. /\ pcb[i].stack_frame \in Frame \ {child.stack_frame}
          /\ pcb[i].stack_pointer.level \in Level
      BY <1>1, <1>5, <2>9 DEF PCB, Pointer, Frames
    <3> QED
      BY <2>5, <2>7, <3>1
  <2>10. ASSUME NEW i \in Pid \ {c}
         PROVE  ZeroAt(i)'
    BY <1>2, <1>6, <1>9, <2>9, <2>10, ZeroStays
  <2> QED
    BY <2>8, <2>10 DEF Zeroes
<1> QED
  BY <1>11, <1>13, <1>14, <1>15, <1>16 DEF Placed

\* From here on the process sees its stack where its stack frame is.
LEMMA ExecPlaces ==
    ASSUME TypeOK, TypeOK', Owned, Placed, ExecDone \/ ExecFails
    PROVE  Placed'
<1>1. /\ pcb \in [Pid -> PCB] /\ pcb_curr \in Pid /\ Curr = pcb[pcb_curr] /\ Curr \in PCB
  BY DEF TypeOK, Curr
<1>2. Layout /\ Mapped /\ CallInv /\ ReadInv /\ Zeroes
  BY DEF Placed
<1>3. sys.at = "exec" /\ Used(pcb_curr)
  BY <1>2 DEF ExecDone, ExecFails, Owned, ReadInv
<1>4. CASE ExecDone
  <2>1. /\ Only(pcb_curr) /\ pcb_curr' = pcb_curr
        /\ pcb'[pcb_curr].stack_frame = Curr.stack_frame
        /\ pcb'[pcb_curr].virtual_stack_frame = Curr.stack_frame
        /\ pcb'[pcb_curr].argv = Curr.stack_frame
        /\ pcb'[pcb_curr].stack_pointer.section = Curr.stack_frame
        /\ pcb'[pcb_curr].state = "READY"
        /\ UNCHANGED <<queues, system_frame_table, system_page_table, text_map>>
        /\ saved_r0' = Blank(Curr.stack_frame)
        /\ sys'.at = "ret" /\ sys'.result = UNKNOWN
    BY <1>4, ExecEffect DEF Unanswered, UserMode, tables
  <2>2. ~Unexeced(pcb'[pcb_curr]) /\ Used(pcb_curr)'
    BY <1>3, <2>1 DEF Unexeced, Used
  <2>3. Layout'
    BY <1>1, <1>2, <2>1, <2>2 DEF Layout, Only, Used
  <2>4. Zeroes'
    <3>1. ASSUME NEW i \in Pid \ {pcb_curr}, Used(i), Unexeced(pcb[i])
          PROVE  saved_r0'[pcb[i].stack_frame] = saved_r0[pcb[i].stack_frame]
      <4>1. pcb[i].stack_frame \in Frame \ {Curr.stack_frame} /\ Curr.stack_frame \in Frame
        BY <1>1, <1>2, <1>3, <3>1, Places DEF Frames
      <4> QED
        BY <2>1, <4>1, BlankAt
    <3>2. ASSUME NEW i \in Pid \ {pcb_curr}
          PROVE  ZeroAt(i)'
      BY <1>2, <2>1, <3>1, <3>2, ZeroStays DEF Only, Used
    <3> QED
      BY <2>1, <3>2 DEF Zeroes, ZeroAt
  <2>5. Mapped' /\ CallInv'
    BY <1>2, <2>1 DEF Mapped, CallInv
  <2>6. ReadInv'
    <3>1. \A i \in Pid : Used(i) => /\ pcb'[i].stack_frame = pcb[i].stack_frame
                                    /\ Used(i)' /\ (~Unexeced(pcb[i]) => ~Unexeced(pcb'[i]))
      BY <1>1, <2>1, <2>2 DEF Only, Used
    <3> QED
      BY <1>2, <2>1, <3>1 DEF ReadInv, Quiet, queues, TypeOK, ReadTransaction
  <2> QED
    BY <2>3, <2>4, <2>5, <2>6 DEF Placed
<1>5. CASE ExecFails
  <2>1. /\ SameProcs /\ UNCHANGED <<queues, system_frame_table, system_page_table, text_map, saved_r0>>
        /\ sys' = [sys EXCEPT !.at = "ret", !.result = ERROR]
    BY <1>5 DEF ExecFails, SameProcs, procs, tables, Leave, ERROR, UNKNOWN
  <2>2. sys'.at = "ret" /\ sys'.caller = pcb_curr /\ sys'.sp = Curr.stack_pointer
    BY <1>2, <1>3, <2>1 DEF CallInv, TypeOK
  <2>3. Layout' /\ Stays /\ Zeroes'
    BY <1>2, <2>1, ProcsSame
  <2>4. Mapped'
    BY <1>2, <2>1, <2>2 DEF Mapped
  <2>5. CallInv'
    <3>1. /\ Curr.stack_pointer.section = Curr.virtual_stack_frame
          /\ system_page_table[Curr.virtual_stack_frame] = Curr.stack_frame
      BY <1>1, <1>2, <1>3 DEF Layout, Mapped
    <3> QED
      BY <1>1, <1>3, <2>1, <2>2, <3>1 DEF CallInv, SameProcs, Used
  <2>6. ReadInv'
    BY <1>1, <1>2, <2>1, <2>2, <2>3, ReadStays DEF SameProcs, queues
  <2> QED
    BY <2>3, <2>4, <2>5, <2>6 DEF Placed
<1> QED
  BY <1>4, <1>5

\* Who ends is nowhere mapped, and nobody sees his stack there; the parent that
\* is woken runs its own program.
LEMMA ExitPlaces ==
    ASSUME TypeOK, TypeOK', Owned, Placed, Held, ExitDestroy
    PROVE  Placed'
<1> DEFINE parent == Curr.parent_pid
           table == ProcFrameMap(system_page_table, pcb[parent])
<1>1. /\ pcb \in [Pid -> PCB] /\ pcb_curr \in Pid /\ Curr = pcb[pcb_curr] /\ Curr \in PCB
      /\ system_page_table \in PageTable
  BY DEF TypeOK, Curr
<1>2. Layout /\ Mapped /\ CallInv /\ ReadInv /\ Zeroes
  BY DEF Placed
<1>3. /\ sys.at = "exit" /\ Unanswered("sched") /\ pcb_curr' = pcb_curr /\ UNCHANGED read_queue
      /\ ~Used(pcb_curr)'
      /\ system_frame_table' = system_frame_table \ Frames(Curr)
      /\ \/ /\ Waiting(parent) = {} /\ Only(pcb_curr) /\ UNCHANGED system_page_table
            /\ saved_r0' = Blank(Curr.stack_frame)
         \/ /\ parent \in Pid \ {pcb_curr} /\ Used(parent) /\ Waiting(parent) # {}
            /\ \A i \in Pid \ {pcb_curr, parent} : pcb'[i] = pcb[i]
            /\ SameContext(pcb'[parent], pcb[parent]) /\ pcb'[parent].state = "READY"
            /\ system_page_table' = table
            /\ saved_r0' = Write(Blank(Curr.stack_frame), table,
                                 pcb[parent].stack_pointer, pcb_curr)
  BY ExitEffect
<1>4. Used(pcb_curr) /\ ~Listens(pcb_curr)
  BY <1>2, <1>3 DEF Owned, ReadInv
<1>5. Waiting(parent) # {} /\ parent \in Pid /\ Used(parent) => ~Unexeced(pcb[parent])
  <2> SUFFICES ASSUME NEW k \in Pid, Queued(k), Used(k)
               PROVE  ~Unexeced(pcb[k])
    BY DEF Waiting, Queued
  <2>1. CASE Listens(k)
    BY <1>2, <2>1 DEF Listens, ReadInv, Pid, NoPid
  <2>2. CASE ~Listens(k)
    BY <1>2, <2>2 DEF Held, HeldOne, Stopped, Layout
  <2> QED
    BY <2>1, <2>2
<1>6. sys'.at = "sched" /\ sys'.result = UNKNOWN
  BY <1>3 DEF Unanswered, UserMode
<1>7. \A i \in Pid \ {pcb_curr} :
        /\ Used(i)' <=> Used(i)
        /\ SameContext(pcb'[i], pcb[i])
        /\ Used(i) /\ Unexeced(pcb[i]) => pcb'[i] = pcb[i]
        /\ pcb'[i].state = "SIGNAL" => pcb[i].state = "SIGNAL"
  BY <1>1, <1>3, <1>5 DEF Only, Used, SameContext, SamePlace
<1>8. \A i \in Pid \ {pcb_curr} : Used(i) /\ Unexeced(pcb[i]) => pcb[i].parent_pid # pcb_curr
  BY <1>2, <1>3 DEF CallInv, Children
<1> HIDE DEF parent
<1>9. Layout'
  <2> SUFFICES ASSUME NEW i \in Pid, Used(i)'
               PROVE  /\ pcb'[i].stack_pointer.section = pcb'[i].virtual_stack_frame
                      /\ pcb'[i].state = "SIGNAL" =>
                            pcb'[i].prev_stack_pointer.section = pcb'[i].virtual_stack_frame
                      /\ ~Unexeced(pcb'[i]) => pcb'[i].argv = pcb'[i].stack_frame
                      /\ Unexeced(pcb'[i]) =>
                           /\ pcb'[i].parent_pid \in Pid /\ pcb'[pcb'[i].parent_pid].state # "UNUSED"
                           /\ ~Unexeced(pcb'[pcb'[i].parent_pid])
                           /\ pcb'[i].virtual_stack_frame = pcb'[pcb'[i].parent_pid].stack_frame
                           /\ pcb'[i].signal_handler = {}
                           /\ pcb'[i].state \in {"READY", "RUNNING"}
    BY DEF Layout, Used
  <2>1. i # pcb_curr /\ Used(i) /\ SameContext(pcb'[i], pcb[i])
    BY <1>3, <1>7
  <2>2. Unexeced(pcb'[i]) <=> Unexeced(pcb[i])
    BY <2>1 DEF SameContext, SamePlace, Unexeced
  <2>3. CASE ~Unexeced(pcb[i])
    BY <1>2, <1>7, <2>1, <2>2, <2>3 DEF Layout, SameContext, SamePlace
  <2>4. CASE Unexeced(pcb[i])
    <3> DEFINE k == pcb[i].parent_pid
    <3>1. pcb'[i] = pcb[i] /\ k # pcb_curr
      BY <1>7, <1>8, <2>1, <2>4
    <3>2. k \in Pid /\ Used(k) /\ ~Unexeced(pcb[k])
      BY <1>2, <2>1, <2>4 DEF Layout
    <3> HIDE DEF k
    <3>3. /\ pcb'[k].state # "UNUSED" /\ ~Unexeced(pcb'[k])
          /\ pcb'[k].stack_frame = pcb[k].stack_frame
      BY <1>7, <3>1, <3>2 DEF SameContext, SamePlace, Unexeced, Used
    <3> QED
      BY <1>2, <2>1, <2>2, <2>4, <3>1, <3>2, <3>3 DEF Layout, k, Used
  <2> QED
    BY <2>3, <2>4
<1>10. Waiting(parent) # {} /\ parent \in Pid \ {pcb_curr} /\ Used(parent) =>
         /\ pcb[parent].virtual_stack_frame = pcb[parent].stack_frame
         /\ pcb[parent].stack_frame \in Frame /\ pcb[parent].stack_frame \in system_frame_table
         /\ pcb[parent].stack_frame \notin Frames(Curr)
         /\ \A f \in Frame : table[f] = IF f = pcb[parent].stack_frame THEN f
                                        ELSE IF f \in Frames(pcb[parent]) THEN FAULT
                                        ELSE system_page_table[f]
  <2> SUFFICES ASSUME Waiting(parent) # {}, parent \in Pid \ {pcb_curr}, Used(parent)
               PROVE  /\ pcb[parent].virtual_stack_frame = pcb[parent].stack_frame
                      /\ pcb[parent].stack_frame \in Frame
                      /\ pcb[parent].stack_frame \in system_frame_table
                      /\ pcb[parent].stack_frame \notin Frames(Curr)
                      /\ \A f \in Frame :
                           table[f] = IF f = pcb[parent].stack_frame THEN f
                                      ELSE IF f \in Frames(pcb[parent]) THEN FAULT
                                      ELSE system_page_table[f]
    OBVIOUS
  <2>1. pcb[parent].virtual_stack_frame = pcb[parent].stack_frame /\ pcb[parent] \in PCB
    BY <1>1, <1>5 DEF Unexeced
  <2>2. /\ pcb[parent].stack_frame \in Frame
        /\ pcb[parent].stack_frame \in system_frame_table
        /\ pcb[parent].stack_frame \notin Frames(Curr)
    BY <1>1, <1>2, <1>4, Places DEF Frames
  <2> QED
    BY <1>1, <2>1, <2>2, MapAt
<1>11. Mapped'
  <2>1. ASSUME NEW f \in Frame, f \notin system_frame_table'
        PROVE  system_page_table'[f] = FAULT
    <3>1. system_page_table[f] = FAULT /\ (f \notin system_frame_table \/ f \in Frames(Curr))
      BY <1>2, <1>3, <2>1 DEF Mapped
    <3> QED
      BY <1>3, <1>10, <3>1
  <2> QED
    BY <1>6, <2>1 DEF Mapped
<1>12. CallInv'
  BY <1>3, <1>6 DEF CallInv
<1>13. ReadInv'
  <2>1. \A s \in Pid : read_queue[s].pid # NoPid => read_queue[s].pid \in Pid \ {pcb_curr}
    BY <1>4 DEF Listens, TypeOK, ReadTransaction
  <2>2. \A i \in Pid \ {pcb_curr} : /\ Unexeced(pcb'[i]) <=> Unexeced(pcb[i])
                                   /\ pcb'[i].stack_frame = pcb[i].stack_frame
    BY <1>7 DEF SameContext, SamePlace, Unexeced
  <2> QED
    BY <1>2, <1>3, <1>6, <1>7, <2>1, <2>2 DEF ReadInv, Quiet
<1>14. Zeroes'
  <2> SUFFICES ASSUME NEW i \in Pid \ {pcb_curr}, Used(i), Unexeced(pcb[i])
               PROVE  saved_r0'[pcb[i].stack_frame][pcb[i].stack_pointer.level]
                        = saved_r0[pcb[i].stack_frame][pcb[i].stack_pointer.level]
    <3>1. ASSUME NEW i \in Pid \ {pcb_curr}
          PROVE  ZeroAt(i)'
      BY <1>2, <1>3, <1>7, <3>1, ZeroStays DEF SameContext, SamePlace, Unexeced
    <3> QED
      BY <1>3, <3>1 DEF Zeroes, ZeroAt
  <2> DEFINE f == pcb[i].stack_frame
             l == pcb[i].stack_pointer.level
  <2>1. /\ f \in Frame /\ l \in Level /\ f # Curr.stack_frame /\ Curr.stack_frame \in Frame
        /\ \A j \in Pid \ {i} : Used(j) => f # pcb[j].stack_frame
    BY <1>1, <1>2, <1>4, Places DEF PCB, Pointer, Frames
  <2> HIDE DEF f, l
  <2>2. Blank(Curr.stack_frame) \in Memory /\ Blank(Curr.stack_frame)[f] = saved_r0[f]
    BY <2>1, BlankAt
  <2>3. CASE Waiting(parent) = {}
    BY <1>3, <2>2, <2>3 DEF f, l
  <2>4. CASE Waiting(parent) # {}
    <3>1. /\ parent \in Pid \ {pcb_curr} /\ Used(parent) /\ ~Unexeced(pcb[parent])
          /\ saved_r0' = Write(Blank(Curr.stack_frame), table,
                               pcb[parent].stack_pointer, pcb_curr)
      BY <1>3, <1>5, <2>4
    <3>2. parent # i
      BY <3>1
    <3>3. /\ pcb[parent].stack_pointer \in Pointer
          /\ pcb[parent].stack_pointer.section = pcb[parent].stack_frame
      BY <1>1, <1>2, <3>1 DEF PCB, Layout, Unexeced
    <3>4. table[pcb[parent].stack_frame] = pcb[parent].stack_frame
          /\ pcb[parent].stack_frame \in Frame /\ f # pcb[parent].stack_frame
      BY <1>10, <2>1, <2>4, <3>1, <3>2
    <3> HIDE DEF table
    <3>5. saved_r0'[f][l] = Blank(Curr.stack_frame)[f][l]
      BY <2>1, <2>2, <3>1, <3>3, <3>4, WriteAt
    <3> QED
      BY <2>2, <3>5 DEF f, l
  <2> QED
    BY <2>3, <2>4
<1> QED
  BY <1>9, <1>11, <1>12, <1>13, <1>14 DEF Placed

\* Reading and ps go on with everybody in his own program.
LEMMA ReadPlaces ==
    ASSUME TypeOK, TypeOK', Owned, Placed, ReadEnqueue \/ ReadBlock
    PROVE  Placed'
<1>1. /\ pcb \in [Pid -> PCB] /\ pcb_curr \in Pid /\ Curr = pcb[pcb_curr]
  BY DEF TypeOK, Curr
<1>2. Layout /\ Mapped /\ CallInv /\ ReadInv /\ Zeroes
  BY DEF Placed
<1>3. sys.at \in {"read", "block"} /\ Used(pcb_curr) /\ sys.caller = pcb_curr
      /\ sys.sp = Curr.stack_pointer /\ system_page_table[Curr.virtual_stack_frame] = Curr.stack_frame
  BY <1>2 DEF ReadEnqueue, ReadBlock, Owned, CallInv, Mapped
<1>4. AllExeced /\ ~NoReads /\ ~Unexeced(Curr)
  BY <1>1, <1>2, <1>3 DEF ReadInv, AllExeced
<1>5. Curr.stack_pointer.section = Curr.stack_frame /\ Curr.virtual_stack_frame = Curr.stack_frame
  BY <1>1, <1>2, <1>3, <1>4 DEF Layout, Unexeced
<1>6. CASE ReadEnqueue
  <2>1. /\ SameProcs /\ UNCHANGED <<system_frame_table, system_page_table, text_map, saved_r0>>
        /\ sys' = [sys EXCEPT !.at = "block"]
        /\ \A i \in Pid : \/ read_queue'[i] = read_queue[i]
                          \/ read_queue'[i].pid = pcb_curr /\ read_queue'[i].buf = sys.sp.section
    <3> DEFINE read == [pid |-> pcb_curr, buf |-> sys.sp.section, size |-> sys.arg]
    <3>1. read.pid = pcb_curr /\ read.buf = sys.sp.section
      OBVIOUS
    <3>2. /\ SameProcs /\ UNCHANGED <<system_frame_table, system_page_table, text_map, saved_r0>>
          /\ sys' = [sys EXCEPT !.at = "block"]
          /\ \/ UNCHANGED read_queue
             \/ \E slot \in Pid : read_queue' = [read_queue EXCEPT ![slot] = read]
      BY <1>6 DEF ReadEnqueue, SameProcs, procs, tables
    <3> HIDE DEF read
    <3>3. ASSUME NEW i \in Pid
          PROVE  read_queue'[i] = read_queue[i] \/ read_queue'[i] = read
      BY <3>2 DEF TypeOK
    <3> QED
      BY <3>1, <3>2, <3>3
  <2>2. sys'.at = "block" /\ sys'.caller = sys.caller /\ sys'.sp = sys.sp
    BY <2>1 DEF TypeOK
  <2>3. Layout' /\ Zeroes'
    BY <1>2, <2>1, ProcsSame
  <2>4. Mapped'
    BY <1>3, <1>2, <2>1, <2>2 DEF Mapped, SameProcs, Curr
  <2>5. CallInv'
    BY <1>3, <2>1, <2>2 DEF CallInv, SameProcs, Curr
  <2>6. ReadInv'
    BY <1>1, <1>2, <1>3, <1>4, <1>5, <2>1, <2>2 DEF ReadInv, SameProcs, AllExeced, Used
  <2> QED
    BY <2>3, <2>4, <2>5, <2>6 DEF Placed
<1>7. CASE ReadBlock
  <2>1. /\ sys' = [sys EXCEPT !.at = "sched", !.result = ERROR]
        /\ Only(pcb_curr) /\ pcb_curr' = pcb_curr
        /\ SameContext(pcb'[pcb_curr], Curr) /\ pcb'[pcb_curr].state = "BLOCKED"
        /\ UNCHANGED <<queues, system_frame_table, system_page_table, text_map, saved_r0>>
    BY <1>7, ReadBlockEffect DEF SameMemory, tables
  <2>2. sys'.at = "sched" /\ sys'.caller = sys.caller /\ sys'.sp = sys.sp
    BY <2>1 DEF TypeOK
  <2>3. Stays
    BY <1>1, <1>3, <2>1 DEF Stays, Only, SameContext, SamePlace, Used
  <2>4. Layout'
    BY <1>1, <1>2, <1>4, <2>1, <2>3, LayoutStays DEF Layout, Only, SameContext
  <2>5. ReadInv' /\ AllExeced'
    BY <1>1, <1>2, <1>3, <1>4, <2>1, <2>2, <2>3, ReadStays DEF queues
  <2>6. Zeroes'
    BY <2>5 DEF AllExeced, Zeroes, ZeroAt
  <2>7. Mapped'
    BY <1>2, <2>1, <2>2 DEF Mapped
  <2>8. CallInv'
    BY <1>1, <1>3, <1>4, <1>5, <2>1, <2>2, <2>3 DEF CallInv, Stays, SamePlace, Unexeced, Curr
  <2> QED
    BY <2>4, <2>5, <2>6, <2>7, <2>8 DEF Placed
<1> QED
  BY <1>6, <1>7

LEMMA PsPlaces ==
    ASSUME TypeOK, TypeOK', Owned, Placed, PsStep \/ PsDone, Alive'
    PROVE  Placed'
<1>1. /\ pcb \in [Pid -> PCB] /\ pcb_curr \in Pid /\ Curr = pcb[pcb_curr]
      /\ system_page_table \in PageTable
  BY DEF TypeOK, Curr
<1>2. Layout /\ Mapped /\ CallInv /\ ReadInv /\ Zeroes
  BY DEF Placed
<1>3. /\ sys.at = "ps" /\ Used(pcb_curr) /\ AllExeced
      /\ sys.caller = pcb_curr /\ sys.sp = Curr.stack_pointer
      /\ system_page_table[Curr.virtual_stack_frame] = Curr.stack_frame
  BY <1>2 DEF PsStep, PsDone, Owned, ReadInv, CallInv, Mapped
<1>4. CASE PsStep
  <2>1. /\ SameProcs /\ UNCHANGED <<queues, system_frame_table, saved_r0>>
        /\ sys' = [sys EXCEPT !.arg = @ + 1]
        /\ \/ UNCHANGED system_page_table
           \/ \E i \in Pid :
                 Used(i) /\ system_page_table' = ProcFrameMap(system_page_table, pcb[i])
    BY <1>4, PsStepEffect
  <2>2. sys'.at = "ps" /\ sys'.caller = sys.caller /\ sys'.sp = sys.sp
    BY <1>3, <2>1 DEF TypeOK
  <2>3. Layout' /\ Zeroes' /\ Stays
    BY <1>2, <2>1, ProcsSame
  <2>4. ReadInv'
    BY <1>1, <1>2, <1>3, <2>1, <2>2, <2>3, ReadStays DEF SameProcs, queues
  <2>5. CallInv'
    BY <1>3, <2>1, <2>2 DEF CallInv, SameProcs, Curr
  <2>6. /\ \A f \in Frame \ system_frame_table : system_page_table'[f] = FAULT
        /\ system_page_table'[Curr.virtual_stack_frame] = Curr.stack_frame
    <3>1. CASE UNCHANGED system_page_table
      BY <1>2, <1>3, <3>1 DEF Mapped
    <3>2. ASSUME NEW i \in Pid, Used(i), system_page_table' = ProcFrameMap(system_page_table, pcb[i])
          PROVE  /\ \A f \in Frame \ system_frame_table : system_page_table'[f] = FAULT
                 /\ system_page_table'[Curr.virtual_stack_frame] = Curr.stack_frame
      <4>1. /\ pcb[i].virtual_stack_frame = pcb[i].stack_frame
            /\ Curr.virtual_stack_frame = Curr.stack_frame /\ Curr.stack_frame \in Frame
            /\ pcb[i].stack_frame \in system_frame_table
            /\ i # pcb_curr => Curr.stack_frame \notin Frames(pcb[i])
            /\ pcb[i] \in PCB
        BY <1>1, <1>2, <1>3, <3>2, Places DEF AllExeced, Unexeced, Frames
      <4>2. \A f \in Frame : system_page_table'[f]
                = IF f = pcb[i].stack_frame THEN f
                  ELSE IF f \in Frames(pcb[i]) THEN FAULT ELSE system_page_table[f]
        BY <1>1, <3>2, <4>1, MapAt
      <4> QED
        BY <1>1, <1>2, <1>3, <4>1, <4>2 DEF Mapped
    <3> QED
      BY <2>1, <3>1, <3>2
  <2>7. Mapped'
    BY <2>1, <2>2, <2>6 DEF Mapped, SameProcs, Curr
  <2> QED
    BY <2>3, <2>4, <2>5, <2>7 DEF Placed
<1>5. CASE PsDone
  <2>1. /\ SameProcs /\ UNCHANGED <<queues, system_frame_table, system_page_table, text_map, saved_r0>>
        /\ sys' = [sys EXCEPT !.at = "ret", !.arg = 0, !.result = 0]
    BY <1>5 DEF PsDone, SameProcs, procs, tables
  <2>2. sys'.at = "ret" /\ sys'.caller = sys.caller /\ sys'.sp = sys.sp
    BY <2>1 DEF TypeOK
  <2>3. Layout' /\ Zeroes' /\ Stays
    BY <1>2, <2>1, ProcsSame
  <2>4. ReadInv'
    BY <1>1, <1>2, <1>3, <2>1, <2>2, <2>3, ReadStays DEF SameProcs, queues
  <2>5. CallInv'
    BY <1>1, <1>2, <1>3, <2>1, <2>2 DEF CallInv, SameProcs, Layout, Used
  <2>6. Mapped'
    BY <1>2, <2>1, <2>2 DEF Mapped
  <2> QED
    BY <2>3, <2>4, <2>5, <2>6 DEF Placed
<1> QED
  BY <1>4, <1>5

LEMMA KernelStepPlaces ==
    ASSUME TypeOK, TypeOK', Owned, Placed, Held, KernelStep, Alive'
    PROVE  Placed'
<1>1. \A t : Crash(t) => FALSE
  BY FrameCrash
<1>2. ~ExecAborts /\ ~ExitAborts
  BY <1>1 DEF ExecAborts, ExitAborts, CrashUnmapped
<1> QED
  BY <1>2, SchedulePlaces, ReturnPlaces, ForkCopyPlaces, ExecPlaces, ExitPlaces, ReadPlaces,
     PsPlaces DEF KernelStep

----------------------------------------------------------------------------
(* The interrupt and the clock. *)

\* A step that keeps every process's context and state, and the call.
LEMMA ContextsStay ==
    ASSUME TypeOK, Owned, Placed,
           \A i \in Pid : SameContext(pcb'[i], pcb[i]) /\ pcb'[i].state = pcb[i].state,
           pcb_curr' = pcb_curr, SameMemory, UNCHANGED <<queues, sys>>
    PROVE  Placed'
<1>1. Layout /\ Mapped /\ CallInv /\ ReadInv /\ Zeroes
  BY DEF Placed
<1>2. Stays /\ \A i \in Pid : /\ Used(i)' <=> Used(i)
                              /\ Unexeced(pcb'[i]) <=> Unexeced(pcb[i])
                              /\ Frames(pcb'[i]) = Frames(pcb[i])
                              /\ pcb'[i].virtual_stack_frame = pcb[i].virtual_stack_frame
                              /\ pcb'[i].stack_frame = pcb[i].stack_frame
                              /\ pcb'[i].text_frame = pcb[i].text_frame
                              /\ pcb'[i].parent_pid = pcb[i].parent_pid
                              /\ pcb'[i].stack_pointer = pcb[i].stack_pointer
                              /\ pcb'[i].signal_handler = pcb[i].signal_handler
  BY DEF Stays, SameContext, SamePlace, Used, Unexeced, Frames
<1>3. /\ pcb_curr \in Pid /\ Curr = pcb[pcb_curr] /\ Curr' = pcb'[pcb_curr]
      /\ sys.at = "fork" => sys.arg \in Pid
      /\ UNCHANGED <<system_frame_table, system_page_table, text_map, saved_r0>>
  BY DEF TypeOK, Curr, SameMemory, tables
<1>4. Layout'
  BY <1>1, <1>2, LayoutStays DEF Layout, SameContext
<1>5. Mapped'
  BY <1>1, <1>2, <1>3 DEF Mapped, Identity, Quiet, queues
<1>6. CallInv'
  BY <1>1, <1>2, <1>3 DEF CallInv, Children
<1>7. ReadInv'
  <2>1. pcb_curr' \in Pid /\ (sys'.at = "exit" => ~Listens(pcb_curr'))
    BY <1>1, <1>3 DEF ReadInv
  <2>2. /\ sys'.at \in {"read", "block", "ps"} => AllExeced
        /\ sys'.at \in {"read", "block"} => ~NoReads
    BY <1>1 DEF ReadInv
  <2> QED
    BY <1>1, <1>2, <2>1, <2>2, ReadStays DEF queues
<1>8. Zeroes'
  BY <1>1, <1>2, <1>3, ZeroStays DEF Zeroes
<1> QED
  BY <1>4, <1>5, <1>6, <1>7, <1>8 DEF Placed

\* Nobody types while a process is started or ended; who listens runs its own
\* program.
LEMMA ServePermits ==
    ASSUME ProgramsFirst, TypeOK, Owned, Layout, CallInv, ReadInv, NEW i \in Pid, Serve(i)
    PROVE  /\ read_queue[i].pid \in Pid
           /\ Used(read_queue[i].pid) /\ ~Unexeced(pcb[read_queue[i].pid])
           /\ read_queue[i].buf = pcb[read_queue[i].pid].stack_frame
           /\ ~Quiet /\ Used(pcb_curr) /\ sys.at \notin {"exec", "fork", "exit"}
           /\ sys.at # "user" => ~Unexeced(Curr)
<1>1. read_queue[i].pid # NoPid /\ ("typist" \in RULES => ~Starting /\ ~Ending)
  BY DEF Serve, IsFirst, Satisfied
<1>2. /\ read_queue[i].pid \in Pid /\ ~Quiet /\ ~NoReads
      /\ Used(read_queue[i].pid) /\ ~Unexeced(pcb[read_queue[i].pid])
      /\ read_queue[i].buf = pcb[read_queue[i].pid].stack_frame
  BY <1>1 DEF TypeOK, ReadTransaction, Quiet, ReadInv
<1>3. ~Starting /\ ~Ending
  BY <1>1, <1>2 DEF ProgramsFirst, NoReads
<1>4. sys.at \notin {"exec", "fork", "exit"} /\ (sys.at = "ret" => ~Unexeced(Curr)) /\ ~Dead(Curr)
  BY <1>3 DEF Starting, Ending
<1>5. Used(pcb_curr)
  BY <1>4 DEF Owned, Holds, TypeOK, Curr
<1>6. sys.at # "user" => ~Unexeced(Curr)
  <2>1. sys.at \in {"read", "block", "ps"} => ~Unexeced(Curr)
    BY <1>5 DEF ReadInv, AllExeced, TypeOK, Curr
  <2>2. sys.at = "sched" => ~Unexeced(Curr)
    BY <1>5 DEF CallInv
  <2>3. sys.at # "crash" /\ sys.at \in At
    BY DEF Serve, TypeOK
  <2> QED
    BY <1>4, <2>1, <2>2, <2>3 DEF At
<1> QED
  BY <1>2, <1>4, <1>5, <1>6

\* The reader is mapped and unmapped again, and its r0 is on its own stack.
LEMMA ServePlaces ==
    ASSUME ProgramsFirst, TypeOK, TypeOK', Owned, Placed, NEW i \in Pid, Serve(i), Alive'
    PROVE  Placed'
<1>0. read_queue[i].pid \in Pid
  BY ServeEffect
<1> SUFFICES ASSUME NEW k \in Pid, k = read_queue[i].pid
             PROVE  Placed'
  BY <1>0
<1> DEFINE table == ProcFrameMap(system_page_table, pcb[k])
<1>1. /\ pcb \in [Pid -> PCB] /\ pcb_curr \in Pid /\ Curr = pcb[pcb_curr] /\ Curr \in PCB
      /\ system_page_table \in PageTable /\ saved_r0 \in Memory
  BY DEF TypeOK, Curr, Memory
<1>2. Layout /\ Mapped /\ CallInv /\ ReadInv /\ Zeroes
  BY DEF Placed
<1>4. /\ Used(k) /\ ~Unexeced(pcb[k]) /\ ~Quiet /\ Used(pcb_curr)
      /\ sys.at \notin {"exec", "fork", "exit"} /\ (sys.at # "user" => ~Unexeced(Curr))
  BY <1>2, ServePermits
<1>5. /\ Only(k) /\ SameContext(pcb'[k], pcb[k]) /\ pcb'[k].state = "READY"
      /\ pcb_curr' = pcb_curr
      /\ system_page_table' = ProcFrameMap(table, Curr)
      /\ text_map' = Curr.text_frame
      /\ \E v : saved_r0' = Write(saved_r0, table, pcb[k].stack_pointer, v)
      /\ UNCHANGED <<queues, system_frame_table, sys>>
  BY ServeEffect
<1>6. Stays
  BY <1>1, <1>4, <1>5 DEF Stays, Only, SameContext, SamePlace, Used
<1>7. Layout'
  <2>1. \A j \in Pid : /\ pcb'[j].stack_pointer = pcb[j].stack_pointer
                       /\ pcb'[j].prev_stack_pointer = pcb[j].prev_stack_pointer
                       /\ pcb'[j].signal_handler = pcb[j].signal_handler
                       /\ pcb'[j].state = pcb[j].state \/ pcb'[j].state = "READY"
    BY <1>5 DEF Only, SameContext
  <2> QED
    BY <1>2, <1>6, <2>1, LayoutStays DEF Layout
<1>8. ReadInv' /\ ~Quiet'
  BY <1>1, <1>2, <1>4, <1>5, <1>6, ReadStays DEF ReadInv, Quiet, queues
<1>9. /\ pcb[k] \in PCB /\ pcb[k].virtual_stack_frame = pcb[k].stack_frame
      /\ pcb[k].stack_frame \in Frame /\ pcb[k].stack_frame \in system_frame_table
      /\ pcb[k].stack_pointer \in Pointer /\ pcb[k].stack_pointer.section = pcb[k].stack_frame
  BY <1>1, <1>2, <1>4, Places DEF Layout, Unexeced, Frames, PCB
<1>10. \A f \in Frame : table[f] = IF f = pcb[k].stack_frame THEN f
           ELSE IF f \in Frames(pcb[k]) THEN FAULT ELSE system_page_table[f]
  BY <1>1, <1>9, MapAt
<1>11. \A f \in Frame : system_page_table'[f]
         = IF f = Curr.virtual_stack_frame THEN Curr.stack_frame
           ELSE IF f \in Frames(Curr) THEN FAULT
           ELSE IF f = pcb[k].stack_frame THEN f
           ELSE IF f \in Frames(pcb[k]) THEN FAULT ELSE system_page_table[f]
  <2>1. table \in PageTable
    BY <1>1, <1>9, TableTypes
  <2>2. \A f \in Frame : ProcFrameMap(table, Curr)[f]
           = IF f = Curr.virtual_stack_frame THEN Curr.stack_frame
             ELSE IF f \in Frames(Curr) THEN FAULT ELSE table[f]
    BY <1>1, <2>1, MapAt
  <2> HIDE DEF table
  <2> QED
    BY <1>5, <1>10, <2>2
<1>12. Zeroes'
  <2> SUFFICES ASSUME NEW j \in Pid, Used(j), Unexeced(pcb[j]), j # pcb_curr
               PROVE  saved_r0'[pcb[j].stack_frame][pcb[j].stack_pointer.level]
                        = saved_r0[pcb[j].stack_frame][pcb[j].stack_pointer.level]
    <3>1. \A j \in Pid : /\ pcb'[j].stack_frame = pcb[j].stack_frame
                         /\ pcb'[j].virtual_stack_frame = pcb[j].virtual_stack_frame
                         /\ pcb'[j].stack_pointer = pcb[j].stack_pointer
                         /\ Used(j)' <=> Used(j)
      BY <1>5, <1>6 DEF Stays, SamePlace, SameContext, Only
    <3> QED
      BY <1>2, <1>5, <3>1, ZeroStays DEF Zeroes, Unexeced
  <2>1. /\ pcb[j].stack_frame \in Frame /\ pcb[j].stack_frame # pcb[k].stack_frame
        /\ pcb[j].stack_pointer.level \in Level
    BY <1>1, <1>2, <1>4, Places DEF Frames, PCB, Pointer
  <2>2. table[pcb[k].stack_pointer.section] = pcb[k].stack_frame
    BY <1>9, <1>10
  <2>3. PICK v : saved_r0' = Write(saved_r0, table, pcb[k].stack_pointer, v)
    BY <1>5
  <2> HIDE DEF table
  <2> QED
    BY <1>1, <1>9, <2>1, <2>2, <2>3, WriteAt
<1>13. Mapped'
  <2>1. /\ Curr'.virtual_stack_frame = Curr.virtual_stack_frame
        /\ Curr'.stack_frame = Curr.stack_frame /\ Curr'.text_frame = Curr.text_frame
    BY <1>1, <1>5, <1>6 DEF Stays, SamePlace, Curr
  <2>2. Curr.virtual_stack_frame \in Frame /\ Curr.virtual_stack_frame \in system_frame_table
    BY <1>1, <1>2, <1>4, Places, ViewInUse
  <2>3. system_page_table'[Curr.virtual_stack_frame] = Curr.stack_frame
    BY <1>11, <2>2
  <2>4. \A f \in Frame \ system_frame_table : system_page_table'[f] = FAULT
    BY <1>2, <1>9, <1>11, <2>2 DEF Mapped
  <2> QED
    BY <1>4, <1>5, <1>8, <2>1, <2>3, <2>4 DEF Mapped
<1>14. CallInv'
  <2>1. \A j \in Pid : /\ Unexeced(pcb'[j]) <=> Unexeced(pcb[j])
                       /\ pcb'[j].stack_frame = pcb[j].stack_frame
                       /\ pcb'[j].virtual_stack_frame = pcb[j].virtual_stack_frame
                       /\ pcb'[j].stack_pointer = pcb[j].stack_pointer
                       /\ Used(j)' <=> Used(j)
    BY <1>5, <1>6 DEF Stays, SamePlace, SameContext, Only, Unexeced
  <2>2. ASSUME NEW j \in Pid, Used(j), ~Unexeced(Curr),
               system_page_table[pcb[j].stack_frame] = pcb[j].stack_frame
        PROVE  system_page_table'[pcb[j].stack_frame] = pcb[j].stack_frame
    <3>1. /\ Curr.virtual_stack_frame = Curr.stack_frame /\ pcb[j].stack_frame \in Frame
          /\ \A m \in Pid \ {j} : Used(m) => pcb[j].stack_frame \notin Frames(pcb[m])
      BY <1>2, <2>2, Places DEF Unexeced, Frames
    <3> QED
      BY <1>1, <1>4, <1>11, <2>2, <3>1 DEF Frames
  <2>3. Curr' = pcb'[pcb_curr]
    BY <1>5 DEF Curr
  <2>4. sys.at \in {"sched", "ret"} /\ sys.result # UNKNOWN =>
          /\ sys.caller \in Pid /\ Used(sys.caller) /\ ~Unexeced(Curr)
          /\ ~Unexeced(pcb[sys.caller])
          /\ sys.sp.section = pcb[sys.caller].stack_frame
          /\ system_page_table[sys.sp.section] = pcb[sys.caller].stack_frame
    BY <1>1, <1>2, <1>4 DEF CallInv, Unexeced
  <2>5. sys.at \in {"sched", "ret"} /\ sys.result # UNKNOWN =>
          system_page_table'[sys.sp.section] = pcb[sys.caller].stack_frame
    BY <2>2, <2>4
  <2> QED
    BY <1>1, <1>2, <1>4, <1>5, <2>1, <2>3, <2>4, <2>5 DEF CallInv, Unexeced
<1> QED
  BY <1>7, <1>8, <1>12, <1>13, <1>14 DEF Placed

LEMMA PlacesStep ==
    ASSUME ProgramsFirst, SignalsHandled, TypeOK, TypeOK', Owned, Placed,
           Held, Next, Alive'
    PROVE  Placed'
<1>1. CASE UserCall
  BY <1>1, UserCallPlaces
<1>2. CASE KernelStep
  BY <1>2, KernelStepPlaces
<1>3. CASE Receive
  BY <1>3, ContextsStay DEF Receive, procs, SameContext, SamePlace, SameMemory
<1>4. ASSUME NEW i \in Pid, Serve(i)
      PROVE  Placed'
  BY <1>4, ServePlaces
<1>5. CASE Tick
  BY <1>5, TickEffect, ContextsStay
<1> QED
  BY <1>1, <1>2, <1>3, <1>4, <1>5 DEF Next, Interrupt

----------------------------------------------------------------------------
(* The invariant, and what follows from it. *)

LEMMA InitPlaced == Init => Placed
<1> SUFFICES ASSUME Init PROVE Placed
  OBVIOUS
<1> USE FrameAssumption, KernelAssumption
<1>1. \A i \in Pid : pcb[i] = IF i = 0 THEN InitPcb ELSE UnusedPcb
  BY DEF Init
<1>2. 0 \in Pid /\ sys.at = "user" /\ pcb_curr = 0
  BY DEF Init, Pid, UserMode
<1>3. /\ InitPcb.text_frame = 1 /\ InitPcb.stack_frame = 2 /\ InitPcb.virtual_stack_frame = 2
      /\ InitPcb.state = "READY" /\ InitPcb.argv = 2 /\ InitPcb.stack_pointer.section = 2
      /\ UnusedPcb.state = "UNUSED"
  BY DEF InitPcb, UnusedPcb
<1>4. 2 \in Frame /\ \A f \in Frame : system_page_table[f]
        = IF f = 2 THEN 2 ELSE IF f = 0 THEN COARSE
          ELSE IF f \in KERNEL_FRAMES THEN f ELSE FAULT
  <2>1. 2 \in Frame /\ system_page_table = [InitPageTable EXCEPT ![2] = 2]
    BY DEF Frame, Init
  <2> QED
    BY <2>1 DEF InitPageTable
<1>5. \A i \in Pid : Used(i) => i = 0
  BY <1>1, <1>3 DEF Used
<1>6. Curr = InitPcb
  BY <1>1, <1>2 DEF Curr
<1>7. Layout
  BY <1>1, <1>3, <1>5 DEF Layout, Unexeced
<1>8. Mapped
  <2>1. system_frame_table = KERNEL_FRAMES \cup {1, 2} /\ text_map = 1
    BY DEF Init, Reserved
  <2> QED
    BY <1>2, <1>3, <1>4, <1>6, <2>1 DEF Mapped
<1>9. CallInv
  BY <1>2 DEF CallInv
<1>10. ReadInv
  <2>1. \A i \in Pid : read_queue[i].pid = NoPid
    BY DEF Init, NoRead
  <2> QED
    BY <1>2, <2>1 DEF ReadInv, Quiet
<1>11. Zeroes
  BY <1>2, <1>5 DEF Zeroes, ZeroAt
<1> QED
  BY <1>7, <1>8, <1>9, <1>10, <1>11 DEF Placed

LEMMA InitHeld == Init => Held
<1> SUFFICES ASSUME Init PROVE Held
  OBVIOUS
<1>1. /\ \A i \in Pid : pcb[i].state \in {"READY", "UNUSED"} /\ wait_queue[i] = NoPid
      /\ pcb_curr \in Pid /\ NoPid \notin Pid
  BY InitType DEF Init, InitPcb, UnusedPcb, TypeOK, Pid, NoPid
<1> QED
  BY <1>1 DEF Held, HeldOne, Queued, Curr

\* HeldInv and MemoryInv hold together: whoever is queued for its children is
\* stopped, so that exit wakes a process that has executed its program, and
\* the steps of kernel_exit and of the interrupt keep to processes in use.
LEMMA MemoryInvariant ==
    ASSUME Habits
    PROVE  Spec => [](HeldInv /\ MemoryInv)
<1>1. Init => HeldInv /\ MemoryInv
  BY InitHeld, HeldInvHeld, InitPlaced, MemoryInvPlaced
<1>2. TypeOK /\ TypeOK' /\ FrameInv /\ HeldInv /\ MemoryInv /\ [Next]_vars
      => HeldInv' /\ MemoryInv'
  <2> SUFFICES ASSUME TypeOK, TypeOK', FrameInv, HeldInv, MemoryInv, [Next]_vars, Alive'
               PROVE  Held' /\ Placed'
    BY DEF HeldInv, Held, HeldOne, Queued, MemoryInv, Placed, ChildSeesZero, Zeroes, ZeroAt
  <2>1. CASE UNCHANGED vars
    <3>1. Alive
      BY <2>1 DEF vars, Alive
    <3>2. Held /\ Placed
      BY <3>1, HeldInvHeld, MemoryInvPlaced
    <3>3. Placed'
      BY <2>1, <3>2 DEF vars, procs, queues, tables, Placed, Layout, Mapped, CallInv, ReadInv,
         Zeroes, ZeroAt, ResumeR0, Used, Unexeced, Curr, Identity, Frames, Children, Quiet,
         AllExeced, Listens
    <3>4. Held'
      BY <2>1, <3>2 DEF vars, procs, queues, Held, HeldOne, Queued, Stopped, Curr, Listens
    <3> QED
      BY <3>3, <3>4
  <2>2. CASE Next
    <3>1. Alive
      BY <2>2, NextAlive
    <3>2. Owned /\ Placed /\ Held
      BY <3>1, FrameInvOwned, MemoryInvPlaced, HeldInvHeld
    <3> QED
      BY <2>2, <3>2, PlacesStep, HeldStep DEF Habits
  <2> QED
    BY <2>1, <2>2
<1> QED
  BY <1>1, <1>2, TypeCorrect, FramesInvariant, PTL DEF Spec

\* A program finds its own stack at its stack pointer and its own text under
\* the coarse table, whatever kernel_kill, kernel_ps, the wakeup of a parent
\* and the interrupt have mapped since it last ran.
THEOREM FindsItsMemory ==
    ASSUME Habits
    PROVE  Spec => []OwnMemory
<1>1. TypeOK /\ FrameInv /\ MemoryInv => OwnMemory
  <2> SUFFICES ASSUME TypeOK, FrameInv, MemoryInv, sys.at = "user"
               PROVE  /\ text_map = Curr.text_frame
                      /\ system_page_table[Curr.stack_pointer.section] = Curr.stack_frame
    BY DEF OwnMemory
  <2>1. Owned /\ Layout /\ Mapped
    BY FrameInvOwned, MemoryInvPlaced DEF Alive, Placed
  <2>2. Curr.stack_pointer.section = Curr.virtual_stack_frame
    BY <2>1 DEF Owned, Layout, Curr, TypeOK
  <2> QED
    BY <2>1, <2>2 DEF Mapped
<1> QED
  BY <1>1, TypeCorrect, FramesInvariant, MemoryInvariant, PTL

\* A program reaches no memory but its own and the kernel's: the context
\* switch clears every mapping made for anybody else.  A queued reader is an
\* exception, which the interrupt maps behind the running program's back.
THEOREM SeesNoOtherMemory ==
    ASSUME Habits, NoReads
    PROVE  Spec => []Isolation
<1>1. MemoryInv /\ Quiet => Isolation
  BY MemoryInvPlaced DEF Isolation, Alive, Placed, Mapped
<1> QED
  BY <1>1, MemoryInvariant, QuietInvariant, PTL

\* What a call returns is stored on the stack of the process that made it, also
\* when kernel_schedule or kernel_kill has made another one current.
THEOREM ResultsFindTheirCaller ==
    ASSUME Habits
    PROVE  Spec => []ResultToCaller
<1>1. MemoryInv => ResultToCaller
  BY MemoryInvPlaced DEF ResultToCaller, Alive, Placed, CallInv
<1> QED
  BY <1>1, MemoryInvariant, PTL

\* A child gets the 0 of its fork: nothing overwrites it, neither another
\* call's result nor the interrupt's, before the child first runs.
THEOREM ForkReturnsZero ==
    ASSUME Habits
    PROVE  Spec => []ChildSeesZero
<1>1. MemoryInv => ChildSeesZero
  BY DEF MemoryInv, ChildSeesZero
<1> QED
  BY <1>1, MemoryInvariant, PTL

\* If nobody reads, wait ends by nothing but the exit of a child, and returns its
\* pid: kernel_exit stores it through the mapping it makes for the parent.
THEOREM WaitsForExit ==
    ASSUME Habits, NoReads
    PROVE  Spec => WaitReturnsChild
<1> DEFINE Ended == \A i \in Pid : Waits(i) /\ ~Waits(i)' /\ ~Listens(i) /\ Alive' =>
                      \E c \in Children(i) : /\ Used(c) /\ ~Used(c)'
                                             /\ ResumeR0(i)' = c
<1>1. /\ TypeOK /\ TypeOK' /\ FrameInv /\ SignalInv /\ WaitInv /\ MemoryInv /\ Quiet /\ Quiet'
      /\ [Next]_vars
      => [Ended]_vars
  <2> SUFFICES ASSUME TypeOK, TypeOK', FrameInv, SignalInv, WaitInv, MemoryInv, Quiet, Quiet',
                      Next, NEW i \in Pid, Waits(i), ~Waits(i)', Alive'
               PROVE  \E c \in Children(i) : Used(c) /\ ~Used(c)' /\ ResumeR0(i)' = c
    OBVIOUS
  <2>1. /\ Owned /\ Layout /\ Placed /\ StacksClean /\ QueueExact /\ BlockedWait
        /\ HandlersRunThrough /\ SignalsHandled
    BY NextAlive, FrameInvOwned, MemoryInvPlaced, WaitInvFacts
       DEF SignalInv, StacksClean, Habits, Placed
  <2>2. ~KeepsWaits
    BY DEF KeepsWaits
  <2>3. ExitDestroy
    BY <2>1, <2>2, OthersKeepWaits, WaitWaits
  <2>4. sys.at = "exit" /\ Used(pcb_curr) /\ pcb_curr \in Pid /\ Curr = pcb[pcb_curr]
    BY <2>1, <2>3 DEF ExitDestroy, Owned, TypeOK, Curr
  <2>5. Curr.parent_pid = i
    BY <2>1, <2>3, ExitWaits
  <2>6. pcb_curr \in Children(i) /\ pcb'[pcb_curr].state = "UNUSED"
    BY <2>1, <2>3, <2>4, <2>5, ExitEffect DEF Children, Used
  <2>7. Waiting(i) # {} /\ Used(i) /\ ~Unexeced(pcb[i])
    BY <2>1 DEF QueueExact, Waiting, Waits, Used, Layout
  <2> DEFINE table == ProcFrameMap(system_page_table, pcb[i])
  <2>8. /\ i # pcb_curr /\ SameContext(pcb'[i], pcb[i])
        /\ saved_r0' = Write(Blank(Curr.stack_frame), table, pcb[i].stack_pointer, pcb_curr)
    BY <2>1, <2>3, <2>5, <2>7, ExitEffect
  <2>9. /\ pcb[i] \in PCB /\ pcb[i].stack_frame \in Frame /\ Curr.stack_frame \in Frame
        /\ pcb[i].stack_pointer \in Pointer /\ pcb[i].stack_pointer.level \in Level
        /\ pcb[i].stack_pointer.section = pcb[i].stack_frame
        /\ pcb[i].virtual_stack_frame = pcb[i].stack_frame
    BY <2>1, <2>4, <2>7 DEF TypeOK, PCB, Pointer, Layout, Unexeced
  <2>10. table[pcb[i].stack_frame] = pcb[i].stack_frame
    BY <2>9, MapAt DEF TypeOK
  <2>11. Blank(Curr.stack_frame) \in Memory
    BY <2>9, BlankAt
  <2> HIDE DEF table
  <2>12. saved_r0'[pcb[i].stack_frame][pcb[i].stack_pointer.level] = pcb_curr
    BY <2>8, <2>9, <2>10, <2>11, WriteAt
  <2>13. ResumeR0(i)' = pcb_curr
    BY <2>8, <2>12 DEF ResumeR0, SameContext, SamePlace
  <2> QED
    BY <2>4, <2>6, <2>13 DEF Used
<1>2. Spec => [][Ended]_vars
  BY <1>1, TypeCorrect, FramesInvariant, SignalInvariant, WaitInvariant, MemoryInvariant,
     QuietInvariant, PTL DEF Spec, Habits
<1> QED
  BY <1>2 DEF WaitReturnsChild

----------------------------------------------------------------------------
(* Control is never lost. *)

LEMMA ImageBound ==
    ASSUME NEW S, IsFiniteSet(S), NEW f
    PROVE  LET T == {f[x] : x \in S}
           IN  IsFiniteSet(T) /\ Cardinality(T) <= Cardinality(S)
<1> DEFINE T == {f[x] : x \in S}
           g == [x \in S |-> f[x]]
<1>1. g \in Surjection(S, T)
  BY DEF Surjection
<1> HIDE DEF g, T
<1>2. IsFiniteSet(T) /\ Cardinality(T) <= Cardinality(S)
  BY <1>1, FS_Surjection
<1> QED
  BY <1>2 DEF T

LEMMA UnionBound ==
    ASSUME NEW S, IsFiniteSet(S), NEW T, IsFiniteSet(T)
    PROVE  IsFiniteSet(S \cup T) /\ Cardinality(S \cup T) <= Cardinality(S) + Cardinality(T)
<1>1. IsFiniteSet(S \cap T)
  BY FS_Intersection
<1>2. Cardinality(S \cap T) \in Nat /\ Cardinality(S) \in Nat /\ Cardinality(T) \in Nat
  BY <1>1, FS_CardinalityType
<1>3. IsFiniteSet(S \cup T)
  BY FS_Union
<1>4. Cardinality(S \cup T) = Cardinality(S) + Cardinality(T) - Cardinality(S \cap T)
  BY FS_Union
<1> QED
  BY <1>2, <1>3, <1>4

\* As long as a slot is free there are frames for another process.
LEMMA FramesLeft ==
    ASSUME TypeOK, Owned, Roomy, sys.at # "fork", NEW c \in Pid, ~Used(c)
    PROVE  \E f, g \in Frame \ system_frame_table : f # g
<1> USE KernelAssumption
<1> DEFINE U == {i \in Pid : Used(i)}
           text == [i \in Pid |-> pcb[i].text_frame]
           stack == [i \in Pid |-> pcb[i].stack_frame]
           Texts == {text[i] : i \in U}
           Stacks == {stack[i] : i \in U}
           Free == Frame \ system_frame_table
<1>1. IsFiniteSet(Pid) /\ Cardinality(Pid) = MAX_PROCESSES
  BY FS_Interval DEF Pid
<1>2. IsFiniteSet(Pid \ {c}) /\ Cardinality(Pid \ {c}) = MAX_PROCESSES - 1
  BY <1>1, FS_RemoveElement
<1>3. IsFiniteSet(U) /\ Cardinality(U) <= MAX_PROCESSES - 1 /\ Cardinality(U) \in Nat
  <2>1. U \in SUBSET (Pid \ {c})
    OBVIOUS
  <2> HIDE DEF U
  <2>2. IsFiniteSet(U) /\ Cardinality(U) <= Cardinality(Pid \ {c})
    BY <1>2, <2>1, FS_Subset
  <2> QED
    BY <1>2, <2>2, FS_CardinalityType
<1>4. Frame \ KERNEL_FRAMES \subseteq (Texts \cup Stacks) \cup Free
  <2> SUFFICES ASSUME NEW f \in Frame, f \notin KERNEL_FRAMES, f \in system_frame_table
               PROVE  f \in Texts \cup Stacks
    OBVIOUS
  <2>1. PICK i \in Pid : Used(i) /\ f \in Frames(pcb[i])
    BY DEF Owned, Holds
  <2> QED
    BY <2>1 DEF Frames
<1> SUFFICES ASSUME \A f, g \in Free : f = g
             PROVE  FALSE
  OBVIOUS
<1> HIDE DEF U, text, stack, Free
<1>5. /\ IsFiniteSet(Texts) /\ Cardinality(Texts) <= Cardinality(U)
      /\ IsFiniteSet(Stacks) /\ Cardinality(Stacks) <= Cardinality(U)
  BY <1>3, ImageBound
<1>6. IsFiniteSet(Free) /\ Cardinality(Free) <= 1
  <2>1. CASE Free = {}
    BY <2>1, FS_EmptySet
  <2>2. CASE Free # {}
    <3>1. PICK f : f \in Free
      BY <2>2
    <3>2. Free = {f}
      BY <3>1
    <3>3. IsFiniteSet({f}) /\ Cardinality({f}) = 1
      BY FS_Singleton
    <3> QED
      BY <3>2, <3>3
  <2> QED
    BY <2>1, <2>2
<1> HIDE DEF Texts, Stacks
<1>7. /\ IsFiniteSet(Texts \cup Stacks)
      /\ Cardinality(Texts \cup Stacks) <= Cardinality(Texts) + Cardinality(Stacks)
  BY <1>5, UnionBound
<1>8. /\ IsFiniteSet((Texts \cup Stacks) \cup Free)
      /\ Cardinality((Texts \cup Stacks) \cup Free)
           <= Cardinality(Texts \cup Stacks) + Cardinality(Free)
  BY <1>6, <1>7, UnionBound
<1>9. Cardinality(Frame \ KERNEL_FRAMES) <= Cardinality((Texts \cup Stacks) \cup Free)
  BY <1>4, <1>8, FS_Subset
<1>10. /\ Cardinality(Texts) \in Nat /\ Cardinality(Stacks) \in Nat
       /\ Cardinality(Texts \cup Stacks) \in Nat /\ Cardinality(Free) \in Nat
       /\ Cardinality((Texts \cup Stacks) \cup Free) \in Nat
  BY <1>5, <1>6, <1>7, <1>8, FS_CardinalityType
<1>11. Cardinality(Frame \ KERNEL_FRAMES) \in Nat
  <2>1. IsFiniteSet(Frame \ KERNEL_FRAMES)
    BY <1>4, <1>8, FS_Subset
  <2> QED
    BY <2>1, FS_CardinalityType
<1> QED
  BY <1>3, <1>5, <1>6, <1>7, <1>8, <1>9, <1>10, <1>11 DEF Roomy

LEMMA CallGoesOn ==
    ASSUME TypeOK, NEW at \in At \ {"crash"}, NEW v,
           Enter(at, v) \/ Leave(at, v) \/ Finish(at, v)
    PROVE  Alive'
<1>1. Enter(at, v) => sys'.at = at
  BY DEF Enter
<1>2. Leave(at, v) => sys'.at = at
  BY DEF Leave, UserMode, TypeOK
<1>3. Finish(at, v) => sys'.at = at
  BY DEF Finish, UserMode
<1> QED
  BY <1>1, <1>2, <1>3 DEF Alive

\* A store to a process's stack pointer goes to its stack, once the process has
\* been mapped.
LEMMA MappedWritable ==
    ASSUME TypeOK, Owned, Layout, NEW i \in Pid, Used(i), NEW t \in PageTable
    PROVE  /\ Writable(ProcFrameMap(t, pcb[i]), pcb[i].stack_pointer)
           /\ ~Unexeced(pcb[i]) =>
                ProcFrameMap(t, pcb[i])[pcb[i].stack_frame] = pcb[i].stack_frame
           /\ ~Dead(pcb[i])
<1>1. /\ pcb[i] \in PCB /\ pcb[i].stack_frame \in Frame \ KERNEL_FRAMES /\ pcb[i].stack_frame # 0
      /\ pcb[i].virtual_stack_frame \in Frame
      /\ pcb[i].stack_pointer.section = pcb[i].virtual_stack_frame
  BY Places DEF Layout
<1>2. ProcFrameMap(t, pcb[i])[pcb[i].virtual_stack_frame] = pcb[i].stack_frame
  BY <1>1, MapAt
<1> QED
  BY <1>1, <1>2 DEF Writable, Unexeced, Dead

LEMMA UserCallAlive ==
    ASSUME Roomy, TypeOK, Owned, Placed, UserCall
    PROVE  Alive'
<1>1. /\ {"sched", "ret", "exec", "exit", "ps", "read", "fork"} \subseteq At \ {"crash"}
      /\ system_page_table \in PageTable
  BY DEF At, TypeOK
<1>2. Layout
  BY DEF Placed
<1>3. CASE Fork
  <2>1. ASSUME NEW c \in Pid, ~Used(c)
        PROVE  \E f, g \in Frame \ system_frame_table : f # g
    BY <1>3, <2>1, FramesLeft DEF Fork, May
  <2>2. \/ Finish("ret", ERROR)
        \/ \E c \in Pid : Enter("fork", c)
    BY <1>3, <2>1 DEF Fork
  <2> QED
    BY <1>1, <2>2, CallGoesOn
<1>4. ASSUME NEW pid \in Pid, NEW sig \in SIGNALS, Kill(pid, sig)
      PROVE  Alive'
  <2>1. Used(pid) => Writable(ProcFrameMap(system_page_table, pcb[pid]), pcb[pid].stack_pointer)
    BY <1>1, <1>2, MappedWritable
  <2>2. \E v : Finish("ret", v)
    BY <1>4, <2>1 DEF Kill
  <2> QED
    BY <1>1, <2>2, CallGoesOn
<1>5. ASSUME NEW len \in RxSize \ {0}, Read(len)
      PROVE  Alive'
  BY <1>1, <1>5, CallGoesOn DEF Read
<1>6. ASSUME NEW sig \in SIGNALS, Raise(sig)
      PROVE  Alive'
  BY <1>1, <1>6, CallGoesOn DEF Raise
<1>7. CASE Wait
  BY <1>1, <1>7, CallGoesOn DEF Wait
<1>8. CASE \/ Yield \/ \E timeout \in 0 .. MAX_TIMEOUT : Usleep(timeout)
           \/ SignalReturn \/ \E sig \in SIGNALS, on \in BOOLEAN : Signal(sig, on)
  BY <1>1, <1>8, CallGoesOn DEF Yield, Usleep, SignalReturn, Signal
<1>9. CASE Exec \/ Exit \/ Ps
  BY <1>1, <1>9, CallGoesOn DEF Exec, Exit, Ps
<1> QED
  BY <1>3, <1>4, <1>5, <1>6, <1>7, <1>8, <1>9 DEF UserCall

\* Who ends is not init, and everybody else has a parent: fork gives it one,
\* and nothing else touches it.
LEMMA ParentStep ==
    ASSUME InitStays, SignalsHandled, TypeOK, TypeOK', Owned, Placed, ParentInv, Next, Alive'
    PROVE  ParentInv'
<1>1. /\ pcb_curr \in Pid /\ NoPid \notin Pid /\ Alive
      /\ ReadInv /\ CallInv
  BY NextAlive DEF TypeOK, Pid, NoPid, Placed
<1>2. /\ sys.at = "exit" => pcb_curr # 0
      /\ \A i \in Pid \ {0} : Used(i) => pcb[i].parent_pid # NoPid
  BY <1>1 DEF ParentInv
<1>3. ASSUME \A i \in Pid : Used(i)' => \/ Used(i) /\ pcb'[i].parent_pid = pcb[i].parent_pid
                                        \/ pcb'[i].parent_pid \in Pid,
             sys'.at = "exit" => pcb_curr' # 0
      PROVE  ParentInv'
  BY <1>1, <1>2, <1>3 DEF ParentInv
<1>4. ASSUME NEW k \in Pid, Only(k), pcb'[k].parent_pid = pcb[k].parent_pid,
             Used(k)' => Used(k), sys'.at # "exit"
      PROVE  ParentInv'
  BY <1>3, <1>4 DEF Only, Used
<1>5. ASSUME SameProcs, sys'.at = "exit" => pcb_curr # 0
      PROVE  ParentInv'
  BY <1>3, <1>5 DEF SameProcs, Used
<1>6. CASE UserCall
  <2>1. Used(pcb_curr)
    BY <1>6, MayFacts DEF UserCall, Yield, Usleep, Fork, Exec, Wait, SignalReturn, Exit, Signal,
                Raise, Kill, Read, Ps
  <2>2. CASE Yield \/ \E timeout \in 0 .. MAX_TIMEOUT : Usleep(timeout)
    <3>1. Only(pcb_curr) /\ pcb'[pcb_curr].parent_pid = Curr.parent_pid
      BY <2>2, YieldEffect DEF SameContext, SamePlace
    <3>2. sys'.at # "exit"
      BY <2>2, YieldEffect DEF Answered
    <3> QED
      BY <1>1, <1>4, <2>1, <3>1, <3>2 DEF Curr
  <2>3. CASE Fork
    <3>1. CASE SameProcs /\ Answered("ret", ERROR)
      BY <1>5, <3>1 DEF Answered
    <3>2. ASSUME NEW c \in Pid, NEW text \in Frame, NEW stack \in Frame, Spawned(c, text, stack)
          PROVE  ParentInv'
      BY <1>4, <3>2 DEF Spawned, Used
    <3> QED
      BY <2>3, <3>1, <3>2, ForkEffect
  <2>4. CASE Exec \/ Exit \/ Ps
    <3>1. Exit => pcb_curr # 0
      BY MayFacts DEF Exit, May, InitStays
    <3> QED
      BY <1>5, <2>4, <3>1, EnterEffect
  <2>5. CASE Wait
    <3>1. sys'.at # "exit"
      BY <2>5, WaitEffect DEF Unanswered, UserMode
    <3>2. CASE SameProcs
      BY <1>5, <3>1, <3>2
    <3>3. CASE Only(pcb_curr) /\ SameContext(pcb'[pcb_curr], Curr)
      BY <1>1, <1>4, <2>1, <3>1, <3>3 DEF SameContext, SamePlace, Curr
    <3> QED
      BY <2>5, <3>2, <3>3, WaitEffect
  <2>6. CASE SignalReturn
    BY <1>1, <1>4, <2>1, <2>6, SignalReturnEffect DEF SamePlace, Unanswered, UserMode, Curr
  <2>7. ASSUME NEW sig \in SIGNALS, NEW on \in BOOLEAN, Signal(sig, on)
        PROVE  ParentInv'
    BY <1>1, <1>4, <2>1, <2>7, SignalEffect DEF SamePlace, Unanswered, UserMode, Curr
  <2>8. ASSUME NEW sig \in SIGNALS, Raise(sig)
        PROVE  ParentInv'
    <3>1. sys'.at # "exit"
      BY <2>8, RaiseEffect DEF Answered
    <3> QED
      BY <1>1, <1>4, <1>5, <2>1, <2>8, <3>1, RaiseEffect DEF Interrupted, SamePlace, Curr
  <2>9. ASSUME NEW pid \in Pid, NEW sig \in SIGNALS, Kill(pid, sig)
        PROVE  ParentInv'
    <3>1. sys'.at # "exit"
      BY <2>9, KillEffect DEF Answered
    <3>2. CASE Used(pid) /\ Handed(pid) /\ SamePlace(pcb'[pid], pcb[pid])
      <4>1. \A i \in Pid : Used(i)' => Used(i) /\ pcb'[i].parent_pid = pcb[i].parent_pid
        BY <2>1, <3>2 DEF Handed, SameContext, SamePlace, Used, Curr
      <4> QED
        BY <1>3, <3>1, <4>1
    <3> QED
      BY <1>5, <2>9, <3>1, <3>2, KillEffect DEF Interrupted, SameContext
  <2>10. ASSUME NEW len \in RxSize \ {0}, Read(len)
         PROVE  ParentInv'
    BY <1>5, <2>10, ReadEffect DEF Answered
  <2> QED
    BY <1>6, <2>2, <2>3, <2>4, <2>5, <2>6, <2>7, <2>8, <2>9, <2>10 DEF UserCall
<1>7. CASE KernelStep
  <2>1. CASE Schedule
    <3>1. /\ pcb_curr' \in Pid /\ Only(pcb_curr') /\ sys'.at # "exit" /\ Used(pcb_curr')
          /\ pcb'[pcb_curr'].parent_pid = pcb[pcb_curr'].parent_pid
      BY <2>1, ScheduleEffect DEF TypeOK, SameContext, SamePlace, Used
    <3> QED
      BY <1>4, <3>1
  <2>2. CASE Return
    BY <1>5, <2>2, ReturnEffect DEF UserMode
  <2>3. CASE ForkCopy
    <3>1. /\ sys.arg \in Pid /\ Only(sys.arg) /\ pcb'[sys.arg].parent_pid = pcb_curr
          /\ sys'.at # "exit"
      BY <2>3, ForkCopyEffect DEF TypeOK
    <3> QED
      BY <1>1, <1>3, <3>1 DEF Only, Used
  <2>4. CASE ExecDone
    <3>1. Used(pcb_curr)
      BY <2>4 DEF ExecDone, Owned
    <3> QED
      BY <1>1, <1>4, <2>4, <3>1, ExecEffect DEF Unanswered, UserMode, Curr
  <2>5. CASE ExecFails \/ ReadEnqueue \/ PsDone
    <3>1. SameProcs /\ sys'.at # "exit"
      BY <2>5 DEF ExecFails, ReadEnqueue, PsDone, SameProcs, procs, Leave, TypeOK, UserMode
    <3> QED
      BY <1>5, <3>1
  <2>6. ~ExecAborts /\ ~ExitAborts
    <3>1. \A t : Crash(t) => FALSE
      BY FrameCrash
    <3> QED
      BY <3>1 DEF ExecAborts, ExitAborts, CrashUnmapped
  <2>7. CASE ExitDestroy
    <3>1. sys'.at # "exit" /\ pcb'[pcb_curr].state = "UNUSED"
      BY <2>7, ExitEffect DEF Unanswered, UserMode, Used
    <3>2. \A i \in Pid \ {pcb_curr} : Used(i)' => Used(i) /\ pcb'[i].parent_pid = pcb[i].parent_pid
      BY <2>7, ExitEffect DEF Only, Used, SameContext, SamePlace
    <3>3. \A i \in Pid : Used(i)' => i # pcb_curr
      BY <3>1 DEF Used
    <3> QED
      BY <1>3, <3>1, <3>2, <3>3
  <2>8. CASE ReadBlock
    <3>1. Used(pcb_curr)
      BY <2>8 DEF ReadBlock, Owned
    <3> QED
      BY <1>1, <1>4, <2>8, <3>1, ReadBlockEffect DEF SameContext, SamePlace, TypeOK, Curr
  <2>9. CASE PsStep
    <3>1. SameProcs /\ sys'.at # "exit"
      BY <2>9, PsStepEffect DEF TypeOK
    <3> QED
      BY <1>5, <3>1
  <2> QED
    BY <1>7, <2>1, <2>2, <2>3, <2>4, <2>5, <2>6, <2>7, <2>8, <2>9 DEF KernelStep
<1>8. CASE Receive
  BY <1>2, <1>5, <1>8 DEF Receive, SameProcs, procs
<1>9. ASSUME NEW i \in Pid, Serve(i)
      PROVE  ParentInv'
  <2>1. read_queue[i].pid \in Pid /\ Used(read_queue[i].pid)
    BY <1>1, <1>9, ServeEffect DEF Serve, IsFirst, Satisfied, ReadInv
  <2> SUFFICES ASSUME NEW k \in Pid, k = read_queue[i].pid
               PROVE  ParentInv'
    BY <2>1
  <2>2. /\ Only(k) /\ SameContext(pcb'[k], pcb[k]) /\ pcb_curr' = pcb_curr /\ sys' = sys
        /\ Used(k)
    BY <1>9, <2>1, ServeEffect
  <2>3. \A j \in Pid : Used(j)' => Used(j) /\ pcb'[j].parent_pid = pcb[j].parent_pid
    BY <2>2 DEF Only, Used, SameContext, SamePlace
  <2> QED
    BY <1>2, <1>3, <2>2, <2>3
<1>10. CASE Tick
  BY <1>2, <1>3, <1>10, TickEffect DEF SameContext, SamePlace, Used
<1> QED
  BY <1>6, <1>7, <1>8, <1>9, <1>10 DEF Next, Interrupt

LEMMA ParentInvariant ==
    ASSUME Habits, InitStays
    PROVE  Spec => []ParentInv
<1>1. Init => ParentInv
  <2>1. ASSUME Init
        PROVE  sys.at = "user" /\ \A i \in Pid \ {0} : pcb[i].state = "UNUSED"
    BY <2>1 DEF Init, UnusedPcb, UserMode
  <2> QED
    BY <2>1 DEF ParentInv, Used
<1>2. TypeOK /\ TypeOK' /\ FrameInv /\ MemoryInv /\ ParentInv /\ [Next]_vars => ParentInv'
  <2> SUFFICES ASSUME TypeOK, TypeOK', FrameInv, MemoryInv, ParentInv, [Next]_vars, Alive'
               PROVE  ParentInv'
    BY DEF ParentInv
  <2>1. CASE Next
    BY <2>1, NextAlive, FrameInvOwned, MemoryInvPlaced, ParentStep DEF Habits
  <2>2. CASE UNCHANGED vars
    BY <2>2 DEF vars, procs, ParentInv, Alive, Used
  <2> QED
    BY <2>1, <2>2
<1> QED
  BY <1>1, <1>2, TypeCorrect, FramesInvariant, MemoryInvariant, PTL DEF Spec

\* exit finds a parent that waits, and it is not itself.
LEMMA ExitAlive ==
    ASSUME TypeOK, Owned, Placed, Held, ParentInv, sys.at = "exit",
           Waiting(Curr.parent_pid) # {}
    PROVE  /\ Curr.parent_pid \in Pid \ {pcb_curr} /\ Used(Curr.parent_pid)
           /\ LET p == pcb[Curr.parent_pid]
              IN  ~Dead(p) /\ Writable(ProcFrameMap(system_page_table, p), p.stack_pointer)
<1>1. /\ pcb \in [Pid -> PCB] /\ pcb_curr \in Pid /\ Curr = pcb[pcb_curr] /\ Curr \in PCB
      /\ system_page_table \in PageTable
  BY DEF TypeOK, Curr
<1>2. Layout /\ ReadInv /\ Used(pcb_curr) /\ Alive
  BY DEF Placed, Owned, Alive
<1>3. Curr.parent_pid \in Pid
  BY <1>1, <1>2 DEF ParentInv, PCB
<1>4. Queued(Curr.parent_pid)
  BY DEF Waiting, Queued
<1>5. ~Queued(pcb_curr)
  <2>1. ~Listens(pcb_curr) /\ Curr.state \notin {"SIGNAL", "BLOCKED"}
    BY <1>1, <1>2 DEF ReadInv, Held, HeldOne
  <2> QED
    BY <1>1, <2>1 DEF Held, HeldOne, Stopped
<1>6. ASSUME NEW k \in Pid, Queued(k)
      PROVE  Used(k)
  <2>1. CASE Listens(k)
    BY <1>2, <2>1 DEF Listens, ReadInv, Pid, NoPid
  <2>2. CASE ~Listens(k)
    BY <1>6, <2>2 DEF Held, HeldOne, Stopped, Used
  <2> QED
    BY <2>1, <2>2
<1> QED
  BY <1>1, <1>2, <1>3, <1>4, <1>5, <1>6, MappedWritable

LEMMA KernelStepAlive ==
    ASSUME TypeOK, Owned, Placed, Held, ParentInv, KernelStep
    PROVE  Alive'
<1>1. /\ pcb \in [Pid -> PCB] /\ pcb_curr \in Pid /\ Curr = pcb[pcb_curr] /\ Curr \in PCB
      /\ system_page_table \in PageTable
      /\ {"sched", "ret"} \subseteq At \ {"crash"}
  BY DEF At, TypeOK, Curr
<1>2. Layout /\ Mapped /\ CallInv /\ ReadInv
  BY DEF Placed
<1>3. CASE Schedule \/ ReadEnqueue \/ PsDone
  BY <1>3 DEF Schedule, ReadEnqueue, PsDone, Alive, TypeOK
<1>4. CASE Return
  <2>1. Used(pcb_curr) /\ sys.at = "ret"
    BY <1>4 DEF Return, Owned
  <2>2. sys.result # UNKNOWN => Writable(system_page_table, sys.sp)
    <3>1. sys.result # UNKNOWN =>
            /\ sys.caller \in Pid /\ Used(sys.caller)
            /\ system_page_table[sys.sp.section] = pcb[sys.caller].stack_frame
      BY <1>2, <2>1 DEF CallInv
    <3> QED
      BY <1>2, <3>1, Places DEF Writable
  <2>3. /\ Curr.stack_frame \in Frame \ KERNEL_FRAMES /\ Curr.virtual_stack_frame \in Frame
        /\ Curr.stack_pointer.section = Curr.virtual_stack_frame
    BY <1>1, <1>2, <2>1, Places DEF Layout
  <2>4. Writable(ContextSwitchTable(system_page_table, UsedPcbs, Curr), Curr.stack_pointer)
    BY <1>1, <2>3, SwitchAt DEF Writable
  <2>5. sys' = UserMode
    BY <1>4, <2>2, <2>4 DEF Return
  <2> QED
    BY <2>5 DEF UserMode, Alive
<1>5. CASE ForkCopy
  <2>1. sys.at = "fork" /\ sys.arg \in Pid /\ Used(pcb_curr) /\ Holds(sys.arg)
    BY <1>5 DEF ForkCopy, TypeOK, Owned, Holds
  <2>2. /\ Identity(system_page_table, pcb[sys.arg]) /\ Identity(system_page_table, Curr)
        /\ Curr.virtual_stack_frame = Curr.stack_frame
    BY <1>2, <2>1 DEF Mapped, CallInv, Unexeced
  <2>3. /\ Curr.stack_pointer \in Pointer /\ Curr.stack_pointer.section = Curr.stack_frame
        /\ Curr.stack_frame \in Frame
        /\ pcb[sys.arg].stack_frame \in Frame \ KERNEL_FRAMES
    BY <1>1, <1>2, <2>1, <2>2 DEF Layout, PCB, Owned, Foreign, Frames
  <2> DEFINE target == [Curr.stack_pointer EXCEPT !.section = ChildSection(pcb[sys.arg])]
  <2>4. ChildSection(pcb[sys.arg]) = pcb[sys.arg].stack_frame
    BY <2>3, FrameAssumption DEF ChildSection, Frame
  <2>5. target.section = pcb[sys.arg].stack_frame
    BY <2>3, <2>4 DEF Pointer
  <2>6. target.section \in Frame /\ Writable(system_page_table, target)
    BY <2>2, <2>3, <2>5 DEF Writable, Identity, Frames
  <2> HIDE DEF target
  <2>7. Leave("ret", sys.arg)
    BY <1>5, <2>2, <2>6 DEF ForkCopy, target
  <2> QED
    BY <1>1, <2>7, CallGoesOn
<1>6. CASE ExecDone \/ ExecFails
  BY <1>1, <1>6, CallGoesOn DEF ExecDone, ExecFails
<1>7. ~ExecAborts
  BY <1>2 DEF ExecAborts, Mapped
<1>8. CASE ExitDestroy
  BY <1>1, <1>8, CallGoesOn DEF ExitDestroy
<1>9. ~ExitAborts
  <2>1. ASSUME ExitAborts
        PROVE  FALSE
    <3>1. sys.at = "exit" /\ Waiting(Curr.parent_pid) # {} /\ NoPid \notin Pid
      BY <2>1 DEF ExitAborts, Pid, NoPid
    <3>2. /\ Curr.parent_pid \in Pid \ {pcb_curr}
          /\ ~Dead(pcb[Curr.parent_pid])
          /\ Writable(ProcFrameMap(system_page_table, pcb[Curr.parent_pid]),
                      pcb[Curr.parent_pid].stack_pointer)
      BY <3>1, ExitAlive
    <3> QED
      BY <2>1, <3>1, <3>2 DEF ExitAborts
  <2> QED
    BY <2>1
<1>10. CASE ReadBlock
  BY <1>1, <1>10, CallGoesOn DEF ReadBlock
<1>11. CASE PsStep
  <2>1. sys.at = "ps" /\ AllExeced
    BY <1>2, <1>11 DEF PsStep, ReadInv
  <2>2. sys.arg \in Pid
    BY <1>11, <2>1, KernelAssumption DEF PsStep, TypeOK, Pid
  <2> DEFINE p == pcb[sys.arg]
  <2>3. Used(sys.arg) => /\ p.argv = p.stack_frame
                         /\ ProcFrameMap(system_page_table, p)[p.argv] = p.stack_frame
    BY <1>1, <1>2, <2>1, <2>2, MappedWritable DEF AllExeced, Layout
  <2>4. sys' = [sys EXCEPT !.arg = @ + 1]
    BY <1>11, <2>3 DEF PsStep
  <2> QED
    BY <2>1, <2>4 DEF TypeOK, Alive
<1> QED
  BY <1>3, <1>4, <1>5, <1>6, <1>7, <1>8, <1>9, <1>10, <1>11 DEF KernelStep

LEMMA ServeAlive ==
    ASSUME ProgramsFirst, TypeOK, Owned, Placed, NEW i \in Pid, Serve(i)
    PROVE  Alive'
<1> DEFINE k == read_queue[i].pid
           table == ProcFrameMap(system_page_table, pcb[k])
<1>1. k \in Pid /\ k # NoPid /\ pcb_curr \in Pid /\ system_page_table \in PageTable
      /\ Curr = pcb[pcb_curr] /\ pcb \in [Pid -> PCB]
  BY DEF Serve, IsFirst, Satisfied, TypeOK, ReadTransaction, Curr
<1>2. /\ Used(k) /\ Used(pcb_curr) /\ ~Unexeced(pcb[k])
      /\ read_queue[i].buf = pcb[k].stack_frame
      /\ Layout
  BY ServePermits DEF Placed
<1>3. /\ Writable(table, pcb[k].stack_pointer) /\ table[read_queue[i].buf] = pcb[k].stack_frame
      /\ ~Dead(pcb[k]) /\ ~Dead(Curr)
  BY <1>1, <1>2, MappedWritable
<1>4. pcb[k].stack_frame # FAULT
  BY <1>1, <1>2, Places, FrameAssumption DEF Frame, FAULT
<1>5. sys' = sys
  BY <1>3, <1>4 DEF Serve
<1> QED
  BY <1>5 DEF Serve, Alive

LEMMA AliveStep ==
    ASSUME ProgramsFirst, Roomy, TypeOK, Owned, Placed, Held, ParentInv, Next
    PROVE  Alive'
<1>1. CASE UserCall
  BY <1>1, UserCallAlive
<1>2. CASE KernelStep
  BY <1>2, KernelStepAlive
<1>3. CASE Interrupt
  BY <1>3, ServeAlive DEF Interrupt, Receive, Alive
<1>4. CASE Tick
  BY <1>4 DEF Tick, Alive
<1> QED
  BY <1>1, <1>2, <1>3, <1>4 DEF Next

\* The kernel never loses control: every copy, load and store it makes for a
\* process, in a call, a wakeup or the interrupt, goes through a section that
\* leads to that process's frames, and fork never meets an exhausted frame
\* table, which it would not notice.
THEOREM ControlIsKept ==
    ASSUME Habits, InitStays, Roomy
    PROVE  Spec => []NoAbort
<1>1. Init => NoAbort
  BY DEF Init, UserMode, NoAbort, Alive
<1>2. TypeOK /\ FrameInv /\ HeldInv /\ MemoryInv /\ ParentInv /\ NoAbort /\ [Next]_vars
      => NoAbort'
  <2> SUFFICES ASSUME TypeOK, FrameInv, HeldInv, MemoryInv, ParentInv, Alive, [Next]_vars
               PROVE  Alive'
    BY DEF NoAbort
  <2>1. Owned /\ Placed /\ Held
    BY FrameInvOwned, MemoryInvPlaced, HeldInvHeld
  <2>2. CASE UNCHANGED vars
    BY <2>2 DEF vars, Alive
  <2> QED
    BY <2>1, <2>2, AliveStep DEF Habits
<1> QED
  BY <1>1, <1>2, TypeCorrect, FramesInvariant, MemoryInvariant, ParentInvariant, PTL
     DEF Spec, Habits

============================================================================
