--------------------------- MODULE KernelProofs ----------------------------
(***************************************************************************)
(* What holds of the kernel for every number of processes and frames,      *)
(* every set of calls, whatever the programs do and wherever the interrupt *)
(* strikes: types, who runs, that the frame table is exact, and that the   *)
(* kernel's own sections stay mapped.  At the end, what each step does to  *)
(* the processes, field by field: what the proofs about signals, waiting   *)
(* and memory are made of.                                                 *)
(***************************************************************************)
EXTENDS KernelProperties, TLAPS

Memory == [Frame -> [Level -> Int]]
SysType == [at : At, caller : Pid \cup {NoPid}, sp : Pointer, arg : Int, result : Int]

----------------------------------------------------------------------------
(* The tables. *)

\* The page-table updates for a process keep the table a page table.
LEMMA TableTypes ==
    ASSUME NEW t \in PageTable, NEW p \in PCB, NEW U
    PROVE  /\ ProcFrameWriteEnable(t, p) \in PageTable
           /\ ProcFrameWriteDisable(t, p) \in PageTable
           /\ ProcFrameMap(t, p) \in PageTable
           /\ ContextSwitchTable(t, U, p) \in PageTable
<1> DEFINE cleared == [f \in Frame |-> IF \E q \in U : f \in Frames(q)
                                       THEN FAULT ELSE t[f]]
<1>1. p.stack_frame \in Frame /\ p.text_frame \in Frame
  BY DEF PCB
<1>2. ProcFrameWriteEnable(t, p) \in PageTable
  BY DEF ProcFrameWriteEnable, PageTable
<1>3. ASSUME NEW s \in PageTable
      PROVE  ProcFrameWriteDisable(s, p) \in PageTable
  BY <1>3 DEF ProcFrameWriteDisable, PageTable
<1>4. ASSUME NEW s \in PageTable
      PROVE  ProcFrameMap(s, p) \in PageTable
  BY <1>1, <1>3 DEF ProcFrameMap, PageTable
<1>5. cleared \in PageTable
  BY DEF PageTable
<1>6. ContextSwitchTable(t, U, p) = ProcFrameMap(cleared, p)
  BY DEF ContextSwitchTable
<1> QED
  BY <1>2, <1>3, <1>4, <1>5, <1>6

\* A store through the page table stays within the memory of the model.
LEMMA WriteType ==
    ASSUME NEW mem \in Memory, NEW t \in PageTable, NEW ptr \in Pointer,
           NEW v \in Int, Writable(t, ptr)
    PROVE  Write(mem, t, ptr, v) \in Memory
<1>1. t[ptr.section] \in Frame /\ ptr.level \in Level
  BY DEF Writable, Pointer
<1> QED
  BY <1>1 DEF Write, Memory

\* Wiping a stack frame does too.
LEMMA BlankType ==
    ASSUME saved_r0 \in Memory, NEW f \in Frame
    PROVE  Blank(f) \in Memory
  BY DEF Blank, Memory, UNKNOWN

----------------------------------------------------------------------------
(* The updates of a process control block. *)

\* What the calls make of a process control block is one.
LEMMA PcbTypes ==
    ASSUME NEW p \in PCB
    PROVE  /\ Picked(p) \in PCB
           /\ Execed(p) \in PCB
           /\ SignalReturned(p) \in PCB
           /\ Destroyed(p) \in PCB
           /\ Woken(p) \in PCB
           /\ p.stack_pointer.level < MAX_LEVEL => Raised(p) \in PCB
<1> USE KernelAssumption, FrameAssumption
<1>1. Picked(p) \in PCB
  BY DEF Picked, PCB, State
<1>2. [section |-> p.stack_frame, level |-> 0] \in Pointer /\ NULL \in Pointer
  BY DEF Pointer, PCB, Level, NULL, Frame
<1>3. Execed(p) \in PCB
  BY <1>2 DEF Execed, PCB, State
<1>4. SignalReturned(p) \in PCB
  BY DEF SignalReturned, PCB
<1>5. Destroyed(p) \in PCB
  BY <1>2 DEF Destroyed, PCB, State, Frame
<1>6. Woken(p) \in PCB
  BY DEF Woken, PCB, State, Blocked
<1>7. ASSUME p.stack_pointer.level < MAX_LEVEL
      PROVE  Raised(p) \in PCB
  <2>1. [p.stack_pointer EXCEPT !.level = p.stack_pointer.level + 1] \in Pointer
    BY <1>7 DEF PCB, Pointer, Level
  <2> QED
    BY <2>1 DEF Raised, PCB, State
<1> QED
  BY <1>1, <1>3, <1>4, <1>5, <1>6, <1>7

----------------------------------------------------------------------------
(* Type correctness. *)

\* The records a call leaves in sys.
LEMMA SysTypes ==
    ASSUME TypeOK, NEW at \in At, NEW v \in Int
    PROVE  /\ UserMode \in SysType
           /\ [UserMode EXCEPT !.at = at] \in SysType
           /\ Curr \in PCB
           /\ Enter(at, v) => sys' \in SysType /\ sys'.at = at /\ sys'.arg = v
           /\ Leave(at, v) => sys' \in SysType /\ sys'.at = at
           /\ Finish(at, v) => sys' \in SysType /\ sys'.at = at
<1> USE KernelAssumption, FrameAssumption
<1>1. NULL \in Pointer
  BY DEF NULL, Pointer, Frame, Level
<1>2. UserMode \in SysType /\ [UserMode EXCEPT !.at = at] \in SysType
  BY <1>1 DEF UserMode, SysType, At, UNKNOWN, NoPid
<1>3. Curr \in PCB /\ Curr.stack_pointer \in Pointer /\ pcb_curr \in Pid
  BY DEF TypeOK, Curr, PCB
<1>4. Enter(at, v) => sys' \in SysType /\ sys'.at = at /\ sys'.arg = v
  BY <1>3 DEF Enter, SysType, UNKNOWN
<1>5. sys \in SysType
  BY DEF TypeOK, SysType
<1>6. Leave(at, v) => sys' \in SysType /\ sys'.at = at
  BY <1>2, <1>5 DEF Leave, SysType, UserMode
<1>7. Finish(at, v) => sys' \in SysType /\ sys'.at = at
  BY <1>2, <1>3 DEF Finish, SysType, UserMode
<1> QED
  BY <1>2, <1>3, <1>4, <1>6, <1>7

\* Losing control keeps the types.
LEMMA CrashType ==
    ASSUME TypeOK, NEW t \in PageTable, Crash(t)
    PROVE  TypeOK'
<1>1. "crash" \in At /\ 0 \in Int
  BY DEF At
<1>2. sys' \in SysType /\ sys'.at = "crash"
  BY <1>1, SysTypes DEF Crash, UserMode
<1> QED
  BY <1>2 DEF TypeOK, Crash, SysType, procs, queues

LEMMA CrashUnmappedType ==
    ASSUME TypeOK, CrashUnmapped
    PROVE  TypeOK'
<1>1. [system_page_table EXCEPT ![0] = FAULT] \in PageTable
  BY DEF TypeOK, PageTable
<1> QED
  BY <1>1, CrashType DEF CrashUnmapped

\* The calls that only change the caller's state and reschedule or return.
LEMMA SimpleCallTypes ==
    ASSUME TypeOK
    PROVE  /\ Yield => TypeOK'
           /\ \A timeout \in 0 .. MAX_TIMEOUT : Usleep(timeout) => TypeOK'
           /\ SignalReturn => TypeOK'
           /\ \A sig \in SIGNALS, on \in BOOLEAN : Signal(sig, on) => TypeOK'
           /\ \A sig \in SIGNALS : Raise(sig) => TypeOK'
           /\ Tick => TypeOK'
<1> USE KernelAssumption
<1>1. /\ pcb \in [Pid -> PCB] /\ pcb_curr \in Pid /\ Curr = pcb[pcb_curr] /\ Curr \in PCB
  BY DEF TypeOK, Curr
<1>2. "ret" \in At /\ "sched" \in At /\ 0 \in Int /\ UNKNOWN \in Int /\ ERROR \in Int
  BY DEF At, UNKNOWN, ERROR
<1>3. ASSUME NEW p \in PCB, pcb' = [pcb EXCEPT ![pcb_curr] = p]
      PROVE  pcb' \in [Pid -> PCB]
  BY <1>1, <1>3
<1>4. ASSUME pcb' \in [Pid -> PCB],
             UNCHANGED <<pcb_curr, queues, tables, saved_r0, rx_size>>,
             sys' \in SysType, sys'.at \in {"ret", "sched"}
      PROVE  TypeOK'
  BY <1>4 DEF TypeOK, SysType, queues, tables
<1>5. ASSUME NEW v \in Int, Finish("ret", v) \/ Finish("sched", v)
      PROVE  sys' \in SysType /\ sys'.at \in {"ret", "sched"}
  BY <1>2, <1>5, SysTypes
<1>6. ASSUME Yield
      PROVE  TypeOK'
  <2>1. [Curr EXCEPT !.state = "READY"] \in PCB
    BY <1>1 DEF PCB, State
  <2>2. pcb' = [pcb EXCEPT ![pcb_curr] = [Curr EXCEPT !.state = "READY"]]
    BY <1>1, <1>6 DEF Yield
  <2> QED
    BY <1>2, <1>3, <1>4, <1>5, <1>6, <2>1, <2>2 DEF Yield
<1>7. ASSUME NEW timeout \in 0 .. MAX_TIMEOUT, Usleep(timeout)
      PROVE  TypeOK'
  <2> DEFINE p == [Curr EXCEPT !.state = "SLEEP", !.timer = timeout]
  <2>0. timeout \in -1 .. MAX_TIMEOUT
    OBVIOUS
  <2>1. p \in PCB
    BY <1>1, <2>0 DEF PCB, State
  <2>2. pcb' = [pcb EXCEPT ![pcb_curr] = p]
    BY <1>1, <1>7 DEF Usleep
  <2> HIDE DEF p
  <2> QED
    BY <1>2, <1>3, <1>4, <1>5, <1>7, <2>1, <2>2 DEF Usleep
<1>8. ASSUME SignalReturn
      PROVE  TypeOK'
  <2>1. SignalReturned(Curr) \in PCB
    BY <1>1, PcbTypes
  <2> QED
    BY <1>2, <1>3, <1>4, <1>5, <1>8, <2>1 DEF SignalReturn
<1>9. ASSUME NEW sig \in SIGNALS, NEW on \in BOOLEAN, Signal(sig, on)
      PROVE  TypeOK'
  <2> DEFINE h == IF on THEN Curr.signal_handler \cup {sig} ELSE Curr.signal_handler \ {sig}
             p == [Curr EXCEPT !.signal_handler = h]
  <2>1. h \in SUBSET SIGNALS
    BY <1>1 DEF PCB
  <2>2. pcb' = [pcb EXCEPT ![pcb_curr] = p]
    BY <1>1, <1>9 DEF Signal
  <2>3. p \in PCB
    BY <1>1, <2>1 DEF PCB
  <2> HIDE DEF p
  <2> QED
    BY <1>2, <1>3, <1>4, <1>5, <1>9, <2>2, <2>3 DEF Signal
<1>10. ASSUME NEW sig \in SIGNALS, Raise(sig)
       PROVE  TypeOK'
  <2>1. sig \in Curr.signal_handler => Raised(Curr) \in PCB
    BY <1>1, <1>10, PcbTypes DEF Raise
  <2>2. pcb' \in [Pid -> PCB]
    BY <1>1, <1>3, <1>10, <2>1 DEF Raise
  <2>3. sys' \in SysType /\ sys'.at \in {"ret", "sched"}
    BY <1>2, <1>5, <1>10 DEF Raise
  <2> QED
    BY <1>4, <1>10, <2>2, <2>3 DEF Raise
<1>11. ASSUME Tick
       PROVE  TypeOK'
  <2>1. ASSUME NEW i \in Pid
        PROVE  [pcb[i] EXCEPT !.timer = IF @ > -1 THEN @ - 1 ELSE @] \in PCB
    <3>1. pcb[i] \in PCB
      BY <1>1
    <3>2. (IF pcb[i].timer > -1 THEN pcb[i].timer - 1 ELSE pcb[i].timer) \in -1 .. MAX_TIMEOUT
      BY <3>1 DEF PCB
    <3> QED
      BY <3>1, <3>2 DEF PCB
  <2>2. pcb' \in [Pid -> PCB]
    BY <1>11, <2>1 DEF Tick
  <2> QED
    BY <1>11, <2>2 DEF TypeOK, Tick, queues, tables
<1> QED
  BY <1>6, <1>7, <1>8, <1>9, <1>10, <1>11

\* Scheduling and returning to user mode.
LEMMA SwitchTypes ==
    ASSUME TypeOK
    PROVE  /\ Schedule => TypeOK'
           /\ Return => TypeOK'
<1> USE KernelAssumption
<1>1. /\ pcb \in [Pid -> PCB] /\ pcb_curr \in Pid /\ Curr = pcb[pcb_curr] /\ Curr \in PCB
      /\ system_page_table \in PageTable /\ saved_r0 \in Memory /\ sys \in SysType
  BY DEF TypeOK, Curr, Memory, SysType
<1>2. ASSUME Schedule
      PROVE  TypeOK'
  <2>1. PICK k \in 1 .. MAX_PROCESSES :
          /\ pcb' = [pcb EXCEPT ![After(k)] = Picked(pcb[After(k)])]
          /\ pcb_curr' = After(k)
    BY <1>2 DEF Schedule
  <2>2. After(k) \in Pid
    BY <1>1 DEF After, Pid
  <2>3. pcb' \in [Pid -> PCB] /\ pcb_curr' \in Pid
    BY <1>1, <2>1, <2>2, PcbTypes
  <2>4. sys' \in SysType /\ sys'.at = "ret"
    BY <1>1, <1>2 DEF Schedule, SysType, At
  <2> QED
    BY <1>2, <2>3, <2>4 DEF TypeOK, Schedule, SysType, queues, tables
<1>3. ASSUME Return
      PROVE  TypeOK'
  <2> DEFINE table == ContextSwitchTable(system_page_table, UsedPcbs, Curr)
             sp == Curr.stack_pointer
             resumes == /\ sys.result = UNKNOWN \/ Writable(system_page_table, sys.sp)
                        /\ Writable(table, sp)
  <2>1. table \in PageTable
    BY <1>1, TableTypes
  <2>2. sp \in Pointer /\ Curr.text_frame \in Frame /\ sys.sp \in Pointer /\ sys.result \in Int
    BY <1>1 DEF PCB, SysType
  <2>3. CASE resumes
    <3>1. Stored(saved_r0) \in Memory
      BY <1>1, <2>2, <2>3, WriteType DEF Stored
    <3>2. Write(Stored(saved_r0), table, sp, UNKNOWN) \in Memory
      BY <2>1, <2>2, <2>3, <3>1, WriteType DEF UNKNOWN
    <3>3. /\ system_page_table' = table
          /\ text_map' = Curr.text_frame
          /\ saved_r0' = Write(Stored(saved_r0), table, sp, UNKNOWN)
          /\ sys' = UserMode
          /\ UNCHANGED <<procs, queues, system_frame_table, rx_size>>
      BY <1>3, <2>3 DEF Return
    <3>4. sys' \in SysType /\ sys'.at = "user"
      BY <3>3, SysTypes DEF UserMode, At
    <3> QED
      BY <2>1, <2>2, <3>2, <3>3, <3>4 DEF TypeOK, SysType, Memory, procs, queues
  <2>4. CASE ~resumes
    <3>1. Crash(table)
      BY <1>3, <2>4 DEF Return
    <3> QED
      BY <2>1, <3>1, CrashType
  <2> QED
    BY <2>3, <2>4
<1> QED
  BY <1>2, <1>3

\* fork.
LEMMA ForkTypes ==
    ASSUME TypeOK
    PROVE  /\ Fork => TypeOK'
           /\ ForkCopy => TypeOK'
<1> USE KernelAssumption
<1>1. /\ pcb \in [Pid -> PCB] /\ pcb_curr \in Pid /\ Curr = pcb[pcb_curr] /\ Curr \in PCB
      /\ system_page_table \in PageTable /\ saved_r0 \in Memory /\ sys \in SysType
  BY DEF TypeOK, Curr, Memory, SysType
<1>2. ASSUME Fork
      PROVE  TypeOK'
  <2> DEFINE free == {i \in Pid : ~Used(i)}
  <2>1. CASE free = {} /\ Finish("ret", ERROR) /\ UNCHANGED <<procs, queues, tables, saved_r0, rx_size>>
    <3>1. sys' \in SysType /\ sys'.at = "ret"
      BY <2>1, SysTypes DEF At, ERROR
    <3> QED
      BY <2>1, <3>1 DEF TypeOK, SysType, procs, queues, tables
  <2>2. CASE Crash(system_page_table)
    BY <1>1, <2>2, CrashType
  <2>3. ASSUME NEW c \in free, NEW text \in Frame, NEW stack \in Frame,
               NEW child,
               child = [pcb[c] EXCEPT
                    !.text_frame = text, !.stack_frame = stack,
                    !.virtual_stack_frame = Curr.stack_frame,
                    !.stack_pointer = [section |-> stack, level |-> 0],
                    !.signal_handler = {}],
               pcb' = [pcb EXCEPT ![c] = child],
               system_page_table' =
                  ProcFrameWriteEnable(ProcFrameWriteEnable(system_page_table, child), Curr),
               system_frame_table' = system_frame_table \cup {text, stack},
               Enter("fork", c),
               UNCHANGED <<pcb_curr, queues, text_map, saved_r0, rx_size>>
        PROVE  TypeOK'
    <3>1. [section |-> stack, level |-> 0] \in Pointer
      BY DEF Pointer, Level
    <3>2. child \in PCB
      BY <1>1, <2>3, <3>1 DEF PCB
    <3>3. system_page_table' \in PageTable
      BY <1>1, <2>3, <3>2, TableTypes
    <3>4. c \in Pid /\ c \in Int
      BY DEF Pid
    <3>5. sys' \in SysType /\ sys'.at = "fork" /\ sys'.arg = c
      BY <2>3, <3>4, SysTypes DEF At
    <3>6. pcb' \in [Pid -> PCB]
      BY <1>1, <2>3, <3>2, <3>4
    <3> QED
      BY <2>3, <3>3, <3>4, <3>5, <3>6 DEF TypeOK, SysType, queues
  <2> QED
    BY <1>2, <2>1, <2>2, <2>3 DEF Fork
<1>3. ASSUME ForkCopy
      PROVE  TypeOK'
  <2> DEFINE c == sys.arg
             child == pcb[c]
             copied == [saved_r0 EXCEPT ![child.stack_frame] = saved_r0[Curr.stack_frame]]
             target == [Curr.stack_pointer EXCEPT !.section = ChildSection(child)]
             copies == /\ Identity(system_page_table, child)
                       /\ Identity(system_page_table, Curr)
                       /\ target.section \in Frame
                       /\ Writable(system_page_table, target)
  <2>1. c \in Pid /\ c \in Int /\ child \in PCB
    BY <1>1, <1>3 DEF TypeOK, ForkCopy, Pid
  <2>2. CASE copies
    <3>1. copied \in Memory
      BY <1>1, <2>1 DEF Memory, PCB
    <3>2. target \in Pointer
      BY <1>1, <2>2 DEF PCB, Pointer
    <3>3. Write(copied, system_page_table, target, 0) \in Memory
      BY <1>1, <2>2, <3>1, <3>2, WriteType
    <3>4. Forked(child) \in PCB
      BY <1>1, <2>1 DEF Forked, PCB, State
    <3>5. ProcFrameWriteDisable(system_page_table, child) \in PageTable
      BY <1>1, <2>1, TableTypes
    <3>6. /\ saved_r0' = Write(copied, system_page_table, target, 0)
          /\ pcb' = [pcb EXCEPT ![c] = Forked(child)]
          /\ system_page_table' = ProcFrameWriteDisable(system_page_table, child)
          /\ Leave("ret", c)
          /\ UNCHANGED <<pcb_curr, queues, system_frame_table, text_map, rx_size>>
      BY <1>3, <2>2 DEF ForkCopy
    <3>7. sys' \in SysType /\ sys'.at = "ret"
      BY <2>1, <3>6, SysTypes DEF At
    <3>8. pcb' \in [Pid -> PCB]
      BY <1>1, <2>1, <3>4, <3>6
    <3> HIDE DEF copied, target, child
    <3> QED
      BY <3>3, <3>5, <3>6, <3>7, <3>8 DEF TypeOK, SysType, Memory, queues
  <2>3. CASE ~copies
    <3>1. Crash(system_page_table)
      BY <1>3, <2>3 DEF ForkCopy
    <3> QED
      BY <1>1, <3>1, CrashType
  <2> QED
    BY <2>2, <2>3
<1> QED
  BY <1>2, <1>3

\* exec.
LEMMA ExecTypes ==
    ASSUME TypeOK
    PROVE  /\ Exec => TypeOK'
           /\ ExecDone => TypeOK'
           /\ ExecFails => TypeOK'
           /\ ExecAborts => TypeOK'
<1> USE KernelAssumption
<1>1. /\ pcb \in [Pid -> PCB] /\ pcb_curr \in Pid /\ Curr = pcb[pcb_curr] /\ Curr \in PCB
      /\ system_page_table \in PageTable /\ saved_r0 \in Memory
  BY DEF TypeOK, Curr, Memory
<1>2. "exec" \in At /\ "ret" \in At /\ 0 \in Int /\ UNKNOWN \in Int /\ ERROR \in Int
  BY DEF At, UNKNOWN, ERROR
<1>3. ASSUME Exec
      PROVE  TypeOK'
  <2>1. sys' \in SysType /\ sys'.at = "exec"
    BY <1>2, <1>3, SysTypes DEF Exec
  <2>2. system_page_table' \in PageTable
    BY <1>1, <1>3, TableTypes DEF Exec
  <2> QED
    BY <1>3, <2>1, <2>2 DEF Exec, TypeOK, SysType, procs, queues
<1>4. ASSUME ExecDone
      PROVE  TypeOK'
  <2>1. sys' \in SysType /\ sys'.at = "ret"
    BY <1>2, <1>4, SysTypes DEF ExecDone
  <2>2. pcb' \in [Pid -> PCB]
    BY <1>1, <1>4, PcbTypes DEF ExecDone
  <2>3. saved_r0' \in Memory
    BY <1>1, <1>4, BlankType DEF ExecDone, PCB
  <2> QED
    BY <1>4, <2>1, <2>2, <2>3 DEF ExecDone, TypeOK, SysType, Memory, queues, tables
<1>5. ASSUME ExecFails
      PROVE  TypeOK'
  <2>1. sys' \in SysType /\ sys'.at = "ret"
    BY <1>2, <1>5, SysTypes DEF ExecFails
  <2> QED
    BY <1>5, <2>1 DEF ExecFails, TypeOK, SysType, procs, queues, tables
<1>6. ASSUME ExecAborts
      PROVE  TypeOK'
  BY <1>1, <1>6, CrashType DEF ExecAborts
<1> QED
  BY <1>3, <1>4, <1>5, <1>6

\* wait and exit.
LEMMA ExitTypes ==
    ASSUME TypeOK
    PROVE  /\ Wait => TypeOK'
           /\ Exit => TypeOK'
           /\ ExitDestroy => TypeOK'
           /\ ExitAborts => TypeOK'
<1> USE KernelAssumption
<1>1. /\ pcb \in [Pid -> PCB] /\ pcb_curr \in Pid /\ Curr = pcb[pcb_curr] /\ Curr \in PCB
      /\ system_page_table \in PageTable /\ saved_r0 \in Memory
      /\ wait_queue \in [Pid -> Pid \cup {NoPid}]
  BY DEF TypeOK, Curr, Memory
<1>2. /\ {"exit", "ret", "sched"} \subseteq At /\ 0 \in Int /\ UNKNOWN \in Int
      /\ pcb_curr \in Int
  BY <1>1 DEF At, UNKNOWN, Pid
<1>3. ASSUME Wait
      PROVE  TypeOK'
  <2> DEFINE p == [Curr EXCEPT !.state = "BLOCKED", !.blocked = "WAIT"]
  <2>1. sys' \in SysType /\ sys'.at \in {"ret", "sched"}
    BY <1>2, <1>3, SysTypes DEF Wait
  <2>2. p \in PCB
    BY <1>1 DEF PCB, State, Blocked
  <2>3. pcb' = [pcb EXCEPT ![pcb_curr] = p] \/ pcb' = pcb
    BY <1>1, <1>3 DEF Wait
  <2> HIDE DEF p
  <2>4. pcb' \in [Pid -> PCB]
    BY <1>1, <2>2, <2>3
  <2>5. wait_queue' \in [Pid -> Pid \cup {NoPid}]
    BY <1>1, <1>3 DEF Wait
  <2> QED
    BY <1>3, <2>1, <2>4, <2>5 DEF Wait, TypeOK, SysType, tables
<1>4. ASSUME Exit
      PROVE  TypeOK'
  <2>1. sys' \in SysType /\ sys'.at = "exit"
    BY <1>2, <1>4, SysTypes DEF Exit
  <2>2. system_page_table' \in PageTable
    BY <1>1, <1>4, TableTypes DEF Exit
  <2> QED
    BY <1>4, <2>1, <2>2 DEF Exit, TypeOK, SysType, procs, queues
<1>5. ASSUME ExitDestroy
      PROVE  TypeOK'
  <2> DEFINE parent == Curr.parent_pid
             slots == Waiting(parent)
             gone == [pcb EXCEPT ![pcb_curr] = Destroyed(Curr)]
             table == ProcFrameMap(system_page_table, pcb[parent])
             sp == pcb[parent].stack_pointer
  <2>1. sys' \in SysType /\ sys'.at = "sched"
    BY <1>2, <1>5, SysTypes DEF ExitDestroy
  <2>2. Destroyed(Curr) \in PCB /\ gone \in [Pid -> PCB]
    BY <1>1, PcbTypes
  <2>3. Blank(Curr.stack_frame) \in Memory
    BY <1>1, BlankType DEF PCB
  <2>4. system_frame_table' \in SUBSET Frame
    BY <1>5 DEF ExitDestroy, Deallocate, TypeOK
  <2>5. CASE /\ pcb' = gone
             /\ UNCHANGED <<wait_queue, system_page_table, text_map>>
             /\ saved_r0' = Blank(Curr.stack_frame)
    BY <1>1, <1>5, <2>1, <2>2, <2>3, <2>4, <2>5
       DEF ExitDestroy, TypeOK, SysType, Memory
  <2>6. CASE /\ slots # {} /\ parent # NoPid
             /\ ~Dead(gone[parent]) /\ Writable(table, sp)
             /\ pcb' = [gone EXCEPT ![parent] = Woken(gone[parent])]
             /\ wait_queue' = QueueWithout(slots)
             /\ system_page_table' = table
             /\ text_map' = pcb[parent].text_frame
             /\ saved_r0' = Write(Blank(Curr.stack_frame), table, sp, pcb_curr)
    <3>1. parent \in Pid
      BY <1>1, <2>6 DEF PCB
    <3>2. pcb[parent] \in PCB /\ sp \in Pointer /\ pcb[parent].text_frame \in Frame
      BY <1>1, <3>1 DEF PCB
    <3>3. table \in PageTable
      BY <1>1, <3>2, TableTypes
    <3>4. pcb' \in [Pid -> PCB]
      <4>1. Woken(gone[parent]) \in PCB
        BY <2>2, <3>1, PcbTypes
      <4> QED
        BY <2>2, <2>6, <3>1, <4>1
    <3>5. wait_queue' \in [Pid -> Pid \cup {NoPid}]
      BY <1>1, <2>6 DEF QueueWithout
    <3>6. saved_r0' \in Memory
      BY <1>2, <2>3, <2>6, <3>2, <3>3, WriteType
    <3> HIDE DEF table, sp
    <3> QED
      BY <1>5, <2>1, <2>4, <2>6, <3>2, <3>3, <3>4, <3>5, <3>6
         DEF ExitDestroy, TypeOK, SysType, Memory
  <2> QED
    BY <1>5, <2>5, <2>6 DEF ExitDestroy
<1>6. ASSUME ExitAborts
      PROVE  TypeOK'
  <2> DEFINE parent == Curr.parent_pid
             table == ProcFrameMap(system_page_table, pcb[parent])
  <2>1. CASE Crash(system_page_table)
    BY <1>1, <2>1, CrashType
  <2>2. CASE CrashUnmapped
    BY <2>2, CrashUnmappedType
  <2>3. CASE parent # NoPid /\ Crash(table)
    <3>1. pcb[parent] \in PCB
      BY <1>1, <2>3 DEF PCB
    <3>2. table \in PageTable
      BY <1>1, <3>1, TableTypes
    <3> QED
      BY <2>3, <3>2, CrashType
  <2> QED
    BY <1>6, <2>1, <2>2, <2>3 DEF ExitAborts
<1> QED
  BY <1>3, <1>4, <1>5, <1>6

\* kill.
LEMMA KillTypes ==
    ASSUME TypeOK, NEW pid \in Pid, NEW sig \in SIGNALS, Kill(pid, sig)
    PROVE  TypeOK'
<1> USE KernelAssumption
<1> DEFINE yielded == [pcb EXCEPT ![pcb_curr].state = "READY"]
           table == ProcFrameMap(system_page_table, pcb[pid])
           handled == sig \in pcb[pid].signal_handler
<1>1. /\ pcb \in [Pid -> PCB] /\ pcb_curr \in Pid /\ Curr = pcb[pcb_curr] /\ Curr \in PCB
      /\ system_page_table \in PageTable
  BY DEF TypeOK, Curr
<1>2. "ret" \in At /\ 0 \in Int /\ ERROR \in Int
  BY DEF At, ERROR
<1>3. pcb[pid] \in PCB /\ pcb[pid].text_frame \in Frame
  BY <1>1 DEF PCB
<1>4. table \in PageTable
  BY <1>1, <1>3, TableTypes
<1>5. CASE Finish("ret", ERROR) /\ UNCHANGED <<procs, tables, queues, saved_r0, rx_size>>
  <2>1. sys' \in SysType /\ sys'.at = "ret"
    BY <1>2, <1>5, SysTypes
  <2> QED
    BY <1>5, <2>1 DEF TypeOK, SysType, procs, tables, queues
<1>6. CASE Crash(table)
  BY <1>4, <1>6, CrashType
<1>7. CASE /\ Used(pid)
           /\ pcb' = IF handled
                     THEN [yielded EXCEPT ![pid] = Raised(yielded[pid])]
                     ELSE yielded
           /\ pcb_curr' = pid
           /\ system_page_table' = table
           /\ text_map' = pcb[pid].text_frame
           /\ Finish("ret", IF handled THEN 0 ELSE ERROR)
           /\ UNCHANGED <<queues, system_frame_table, saved_r0, rx_size>>
  <2>1. sys' \in SysType /\ sys'.at = "ret"
    BY <1>2, <1>7, SysTypes
  <2>2. [Curr EXCEPT !.state = "READY"] \in PCB
    BY <1>1 DEF PCB, State
  <2>3. yielded \in [Pid -> PCB]
    BY <1>1, <2>2
  <2>4. yielded[pid].stack_pointer = pcb[pid].stack_pointer
    BY <1>1
  <2>5. handled => Raised(yielded[pid]) \in PCB
    BY <1>7, <2>3, <2>4, PcbTypes DEF Kill
  <2>6. pcb' \in [Pid -> PCB]
    BY <1>7, <2>3, <2>5
  <2> HIDE DEF table
  <2> QED
    BY <1>3, <1>4, <1>7, <2>1, <2>6 DEF TypeOK, SysType, queues
<1> QED
  BY <1>5, <1>6, <1>7 DEF Kill

\* Reading the console and the interrupt.
LEMMA ReadTypes ==
    ASSUME TypeOK
    PROVE  /\ \A len \in RxSize \ {0} : Read(len) => TypeOK'
           /\ ReadEnqueue => TypeOK'
           /\ ReadBlock => TypeOK'
           /\ Receive => TypeOK'
           /\ \A i \in Pid : Serve(i) => TypeOK'
<1> USE KernelAssumption
<1>1. /\ pcb \in [Pid -> PCB] /\ pcb_curr \in Pid /\ Curr = pcb[pcb_curr] /\ Curr \in PCB
      /\ system_page_table \in PageTable /\ saved_r0 \in Memory /\ sys \in SysType
      /\ read_queue \in [Pid -> ReadTransaction] /\ rx_size \in RxSize
  BY DEF TypeOK, Curr, Memory, SysType
<1>2. Received \in RxSize
  BY <1>1 DEF Received, RxSize
<1>3. ASSUME NEW len \in RxSize \ {0}, Read(len)
      PROVE  TypeOK'
  <2>1. len \in Int /\ {"ret", "read"} \subseteq At
    BY DEF RxSize, At
  <2>2. CASE rx_size' = rx_size - len /\ Finish("ret", len) /\ len <= rx_size
    <3>1. sys' \in SysType /\ sys'.at = "ret"
      BY <2>1, <2>2, SysTypes
    <3>2. rx_size' \in RxSize
      BY <1>1, <2>2 DEF RxSize
    <3> QED
      BY <1>3, <3>1, <3>2 DEF Read, TypeOK, SysType, procs, queues, tables
  <2>3. CASE rx_size' = rx_size /\ Enter("read", len)
    <3>1. sys' \in SysType /\ sys'.at = "read" /\ sys'.arg = len
      BY <2>1, <2>3, SysTypes
    <3> QED
      BY <1>3, <2>3, <3>1 DEF Read, TypeOK, SysType, procs, queues, tables
  <2> QED
    BY <1>3, <2>2, <2>3 DEF Read
<1>4. ASSUME ReadEnqueue
      PROVE  TypeOK'
  <2> DEFINE r == [pid |-> pcb_curr, buf |-> sys.sp.section, size |-> sys.arg]
  <2>1. sys.arg \in RxSize /\ sys.sp \in Pointer
    BY <1>1, <1>4 DEF ReadEnqueue, TypeOK, SysType
  <2>2. r \in ReadTransaction
    BY <1>1, <2>1 DEF ReadTransaction, Pointer
  <2>3. read_queue' = read_queue \/ \E slot \in Pid : read_queue' = [read_queue EXCEPT ![slot] = r]
    BY <1>4 DEF ReadEnqueue
  <2> HIDE DEF r
  <2>4. read_queue' \in [Pid -> ReadTransaction]
    BY <1>1, <2>2, <2>3
  <2>5. sys' \in SysType /\ sys'.at = "block" /\ sys'.arg \in RxSize
    BY <1>1, <1>4, <2>1 DEF ReadEnqueue, SysType, At
  <2> QED
    BY <1>4, <2>4, <2>5 DEF ReadEnqueue, TypeOK, SysType, procs, tables
<1>5. ASSUME ReadBlock
      PROVE  TypeOK'
  <2> DEFINE p == [Curr EXCEPT !.state = "BLOCKED", !.blocked = "READ"]
  <2>1. sys' \in SysType /\ sys'.at = "sched"
    <3>1. "sched" \in At /\ ERROR \in Int
      BY DEF At, ERROR
    <3> QED
      BY <1>5, <3>1, SysTypes DEF ReadBlock
  <2>2. p \in PCB
    BY <1>1 DEF PCB, State, Blocked
  <2>3. pcb' = [pcb EXCEPT ![pcb_curr] = p]
    BY <1>1, <1>5 DEF ReadBlock
  <2> HIDE DEF p
  <2> QED
    BY <1>1, <1>5, <2>1, <2>2, <2>3, ZenonT(30) DEF ReadBlock, TypeOK, SysType, queues, tables
<1>6. ASSUME Receive
      PROVE  TypeOK'
  BY <1>2, <1>6 DEF Receive, TypeOK, procs, queues, tables
<1>7. ASSUME NEW i \in Pid, Serve(i)
      PROVE  TypeOK'
  <2> DEFINE r == read_queue[i]
             p == pcb[r.pid]
             table == ProcFrameMap(system_page_table, p)
  <2>1. /\ r \in ReadTransaction /\ r.pid # NoPid /\ r.size <= Received
    BY <1>1, <1>7 DEF Serve, IsFirst, Satisfied
  <2>2. r.pid \in Pid /\ r.size \in RxSize /\ p \in PCB
    BY <1>1, <2>1 DEF ReadTransaction
  <2>3. table \in PageTable
    BY <1>1, <2>2, TableTypes
  <2>4. CASE CrashUnmapped
    BY <2>4, CrashUnmappedType
  <2>5. CASE Crash(table)
    BY <2>3, <2>5, CrashType
  <2>6. CASE /\ Writable(table, p.stack_pointer)
             /\ rx_size' = Received - r.size
             /\ saved_r0' = Write(saved_r0, table, p.stack_pointer, r.size)
             /\ pcb' = [pcb EXCEPT ![r.pid] = Woken(p)]
             /\ system_page_table' = ProcFrameMap(table, Curr)
             /\ text_map' = Curr.text_frame
             /\ read_queue' = QueueAfter(i)
             /\ UNCHANGED <<pcb_curr, wait_queue, system_frame_table, sys>>
    <3>1. rx_size' \in RxSize
      BY <1>2, <2>1, <2>2, <2>6 DEF RxSize
    <3>2. saved_r0' \in Memory
      <4>1. p.stack_pointer \in Pointer /\ r.size \in Int
        BY <2>2 DEF PCB, RxSize
      <4> QED
        BY <1>1, <2>3, <2>6, <4>1, WriteType
    <3>3. pcb' \in [Pid -> PCB]
      <4>1. Woken(p) \in PCB
        BY <2>2, PcbTypes
      <4> QED
        BY <1>1, <2>2, <2>6, <4>1
    <3>4. system_page_table' \in PageTable /\ text_map' \in Frame
      <4>1. Curr.text_frame \in Frame
        BY <1>1 DEF PCB
      <4> QED
        BY <1>1, <2>3, <2>6, <4>1, TableTypes
    <3>5. read_queue' = read_queue
      BY <2>6 DEF QueueAfter
    <3> HIDE DEF table
    <3> QED
      BY <2>6, <3>1, <3>2, <3>3, <3>4, <3>5 DEF TypeOK, Memory
  <2> QED
    BY <1>7, <2>4, <2>5, <2>6 DEF Serve
<1> QED
  BY <1>3, <1>4, <1>5, <1>6, <1>7

\* ps.
LEMMA PsTypes ==
    ASSUME TypeOK
    PROVE  /\ Ps => TypeOK'
           /\ PsStep => TypeOK'
           /\ PsDone => TypeOK'
<1> USE KernelAssumption
<1>1. /\ pcb \in [Pid -> PCB] /\ system_page_table \in PageTable /\ sys \in SysType
  BY DEF TypeOK, SysType
<1>2. ASSUME Ps
      PROVE  TypeOK'
  <2>1. sys' \in SysType /\ sys'.at = "ps" /\ sys'.arg = 0
    BY <1>2, SysTypes DEF Ps, At
  <2>2. 0 \in Pid
    BY DEF Pid
  <2> QED
    BY <1>2, <2>1, <2>2 DEF Ps, TypeOK, SysType, procs, queues, tables
<1>3. ASSUME PsStep
      PROVE  TypeOK'
  <2> DEFINE p == pcb[sys.arg]
             table == ProcFrameMap(system_page_table, p)
  <2>1. sys.arg \in Pid /\ sys.arg + 1 \in Pid \cup {MAX_PROCESSES}
    BY <1>3 DEF PsStep, TypeOK, Pid
  <2>2. p \in PCB /\ p.text_frame \in Frame /\ table \in PageTable
    BY <1>1, <2>1, TableTypes DEF PCB
  <2>3. CASE Crash(table)
    BY <2>2, <2>3, CrashType
  <2>4. CASE /\ \/ system_page_table' = table /\ text_map' = p.text_frame
                \/ UNCHANGED <<system_page_table, text_map>>
             /\ sys' = [sys EXCEPT !.arg = @ + 1]
             /\ UNCHANGED <<procs, queues, system_frame_table, saved_r0, rx_size>>
    <3>1. sys' \in SysType /\ sys'.at = "ps" /\ sys'.arg \in Pid \cup {MAX_PROCESSES}
      <4>1. sys \in SysType /\ sys.at = "ps" /\ sys.arg + 1 \in Int
        BY <1>1, <1>3, <2>1 DEF PsStep, Pid
      <4> HIDE DEF table
      <4> QED
        BY <2>1, <2>4, <4>1 DEF SysType
    <3> HIDE DEF table
    <3>2. system_page_table' \in PageTable /\ text_map' \in Frame
      BY <2>2, <2>4 DEF TypeOK
    <3> QED
      BY <2>4, <3>1, <3>2 DEF TypeOK, SysType, procs, queues
  <2> QED
    BY <1>3, <2>3, <2>4 DEF PsStep
<1>4. ASSUME PsDone
      PROVE  TypeOK'
  <2>1. "ret" \in At /\ sys' = [sys EXCEPT !.at = "ret", !.arg = 0, !.result = 0]
    BY <1>4 DEF PsDone, At
  <2>2. sys' \in SysType /\ sys'.at = "ret"
    <3>1. ASSUME NEW s \in SysType, NEW at \in At, NEW v \in Int
          PROVE  /\ [s EXCEPT !.at = at, !.arg = v, !.result = v] \in SysType
                 /\ [s EXCEPT !.at = at, !.arg = v, !.result = v].at = at
      BY <3>1 DEF SysType
    <3>2. 0 \in Int
      OBVIOUS
    <3> HIDE DEF SysType
    <3> QED
      BY <1>1, <2>1, <3>1, <3>2, Zenon
  <2> QED
    BY <1>4, <2>2 DEF PsDone, TypeOK, SysType, procs, queues, tables
<1> QED
  BY <1>2, <1>3, <1>4

\* The initial state.
LEMMA InitType == Init => TypeOK
<1> SUFFICES ASSUME Init PROVE TypeOK
  OBVIOUS
<1> USE KernelAssumption, FrameAssumption
<1>1. NULL \in Pointer /\ [section |-> 2, level |-> 0] \in Pointer
  BY DEF NULL, Pointer, Frame, Level
<1>2. UnusedPcb \in PCB
  BY <1>1 DEF UnusedPcb, PCB, State, Blocked, Frame
<1>3. InitPcb \in PCB
  <2>1. InitPcb = [UnusedPcb EXCEPT !.state = "READY", !.text_frame = 1, !.stack_frame = 2,
            !.virtual_stack_frame = 2, !.argv = 2,
            !.stack_pointer = [section |-> 2, level |-> 0]]
    BY DEF InitPcb
  <2>2. "READY" \in State /\ 1 \in Frame /\ 2 \in Frame
    BY DEF State, Frame
  <2> QED
    BY <1>1, <1>2, <2>1, <2>2 DEF PCB
<1>4. pcb \in [Pid -> PCB]
  BY <1>2, <1>3 DEF Init
<1>5. pcb_curr \in Pid
  BY DEF Init, Pid
<1>6. read_queue \in [Pid -> ReadTransaction] /\ wait_queue \in [Pid -> Pid \cup {NoPid}]
  BY DEF Init, NoRead, ReadTransaction, RxSize, Frame
<1>7. system_frame_table \in SUBSET Frame /\ text_map \in Frame
  BY DEF Init, Reserved, Frame
<1>8. system_page_table \in PageTable
  BY DEF Init, InitPageTable, PageTable, Frame
<1>9. saved_r0 \in [Frame -> [Level -> Int]]
  BY DEF Init, UNKNOWN
<1>10. rx_size \in RxSize
  BY DEF Init, RxSize
<1>11. sys \in SysType /\ sys.at = "user"
  BY <1>1 DEF Init, UserMode, SysType, At, UNKNOWN
<1> QED
  BY <1>4, <1>5, <1>6, <1>7, <1>8, <1>9, <1>10, <1>11 DEF TypeOK, SysType

\* No step leaves the types.
LEMMA TypeStep == TypeOK /\ [Next]_vars => TypeOK'
<1> SUFFICES ASSUME TypeOK, [Next]_vars
             PROVE  TypeOK'
  OBVIOUS
<1>1. CASE UserCall
  BY <1>1, SimpleCallTypes, ForkTypes, ExecTypes, ExitTypes, KillTypes, ReadTypes,
     PsTypes DEF UserCall
<1>2. CASE KernelStep
  BY <1>2, SwitchTypes, ForkTypes, ExecTypes, ExitTypes, ReadTypes, PsTypes DEF KernelStep
<1>3. CASE Interrupt
  BY <1>3, ReadTypes DEF Interrupt
<1>4. CASE Tick
  BY <1>4, SimpleCallTypes
<1>5. CASE UNCHANGED vars
  BY <1>5 DEF vars, procs, queues, tables, TypeOK
<1> QED
  BY <1>1, <1>2, <1>3, <1>4, <1>5 DEF Next

\* Every state the kernel reaches has the types of TypeOK: no slot number,
\* frame, stack level or receive count ever leaves its range, whatever the
\* programs and the interrupt do.
THEOREM TypeCorrect == Spec => []TypeOK
  BY InitType, TypeStep, PTL DEF Spec

----------------------------------------------------------------------------
(* Who runs. *)

\* A step changes one process, and no other is left RUNNING out of turn.
LEMMA RunningOneChanges ==
    ASSUME TypeOK, RunningInv, Alive, NEW k \in Pid, NEW p \in PCB,
           pcb' = [pcb EXCEPT ![k] = p],
           p.state = "RUNNING" => k = pcb_curr' /\ sys'.at # "sched",
           p.prev_state # "RUNNING",
           \A i \in Pid \ {k} : pcb[i].state = "RUNNING" => i = pcb_curr' /\ sys'.at # "sched"
    PROVE  RunningInv'
  BY DEF TypeOK, RunningInv, Alive

\* A step keeps the states of all processes, who is current, and does not
\* start to look for another.
LEMMA RunningSame ==
    ASSUME TypeOK, RunningInv, Alive, UNCHANGED procs, sys'.at # "sched"
    PROVE  RunningInv'
  BY DEF RunningInv, Alive, procs

\* Once control is lost nothing is claimed.
LEMMA RunningCrash ==
    ASSUME NEW t, Crash(t)
    PROVE  RunningInv'
  BY DEF Crash, RunningInv, Alive, UserMode

\* No step leaves a process RUNNING that is not current.
LEMMA RunningStep ==
    ASSUME TypeOK, RunningInv, Next
    PROVE  RunningInv'
<1> USE KernelAssumption
<1>1. /\ pcb \in [Pid -> PCB] /\ pcb_curr \in Pid /\ Curr = pcb[pcb_curr] /\ Curr \in PCB
      /\ sys \in SysType
  BY DEF TypeOK, Curr, SysType
<1>2. /\ 0 \in Int /\ UNKNOWN \in Int /\ ERROR \in Int /\ Pid \subseteq Int /\ RxSize \subseteq Int
      /\ At = {"user", "read", "block", "exec", "exit", "fork", "ps", "sched", "ret", "crash"}
  BY DEF UNKNOWN, ERROR, Pid, RxSize, At
<1>3. ASSUME NEW at \in At, NEW v \in Int, Enter(at, v) \/ Leave(at, v) \/ Finish(at, v)
      PROVE  sys'.at = at
  BY <1>3, SysTypes
<1>4. ASSUME Alive, \A i \in Pid : pcb[i].prev_state # "RUNNING" /\
                                  (pcb[i].state = "RUNNING" => i = pcb_curr),
             NEW p \in PCB, p.state # "RUNNING", p.prev_state # "RUNNING",
             pcb' = [pcb EXCEPT ![pcb_curr] = p]
      PROVE  RunningInv'
  BY <1>1, <1>4, RunningOneChanges
<1>5. Alive => \A i \in Pid : pcb[i].prev_state # "RUNNING" /\
                              (pcb[i].state = "RUNNING" => i = pcb_curr /\ sys.at # "sched")
  BY DEF RunningInv
<1>6. CASE UserCall
  <2>1. sys.at = "user" /\ Alive
    BY <1>6 DEF UserCall, Yield, Usleep, Fork, Exec, Wait, SignalReturn, Exit, Signal,
                Raise, Kill, Read, Ps, May, Alive
  <2>2. CASE Yield
    <3>1. [Curr EXCEPT !.state = "READY"] \in PCB
      BY <1>1 DEF PCB, State
    <3> QED
      BY <1>1, <1>4, <1>5, <2>1, <2>2, <3>1 DEF Yield, PCB
  <2>3. ASSUME NEW timeout \in 0 .. MAX_TIMEOUT, Usleep(timeout)
        PROVE  RunningInv'
    <3> DEFINE p == [Curr EXCEPT !.state = "SLEEP", !.timer = timeout]
    <3>0. timeout \in -1 .. MAX_TIMEOUT
      OBVIOUS
    <3>1. p \in PCB
      BY <1>1, <3>0 DEF PCB, State
    <3>2. p.state = "SLEEP" /\ p.prev_state = Curr.prev_state
      BY <1>1 DEF PCB
    <3>3. pcb' = [pcb EXCEPT ![pcb_curr] = p]
      BY <1>1, <2>3 DEF Usleep
    <3> HIDE DEF p
    <3> QED
      BY <1>1, <1>4, <1>5, <2>1, <3>1, <3>2, <3>3
  <2>4. CASE Fork
    <3>1. CASE Crash(system_page_table)
      BY <3>1, RunningCrash
    <3>2. CASE Finish("ret", ERROR) /\ UNCHANGED procs
      BY <1>2, <1>3, <2>1, <3>2, RunningSame
    <3>3. ASSUME NEW c \in Pid, ~Used(c), NEW p,
                 p.state = pcb[c].state, p.prev_state = pcb[c].prev_state,
                 pcb' = [pcb EXCEPT ![c] = p], pcb_curr' = pcb_curr, Enter("fork", c)
          PROVE  RunningInv'
      <4>1. sys'.at = "fork"
        BY <1>2, <1>3, <3>3
      <4> QED
        BY <1>1, <1>5, <2>1, <3>3, <4>1 DEF RunningInv, Alive, Used
    <3> QED
      <4>1. ASSUME NEW c \in Pid
            PROVE  pcb[c] \in PCB
        BY <1>1
      <4> QED
        BY <2>4, <3>1, <3>2, <3>3, <4>1 DEF Fork, procs, PCB
  <2>5. CASE Exec
    BY <1>2, <1>3, <2>1, <2>5, RunningSame DEF Exec
  <2>6. CASE Wait
    <3> DEFINE p == [Curr EXCEPT !.state = "BLOCKED", !.blocked = "WAIT"]
    <3>1. p \in PCB /\ p.state = "BLOCKED" /\ p.prev_state = Curr.prev_state
      BY <1>1 DEF PCB, State, Blocked
    <3>2. pcb' = [pcb EXCEPT ![pcb_curr] = p] \/ (UNCHANGED procs /\ Finish("ret", UNKNOWN))
      BY <1>1, <2>6 DEF Wait, procs
    <3> HIDE DEF p
    <3> QED
      BY <1>1, <1>2, <1>3, <1>4, <1>5, <2>1, <3>1, <3>2, RunningSame
  <2>7. CASE SignalReturn
    <3>1. SignalReturned(Curr) \in PCB
      BY <1>1, PcbTypes
    <3>2. /\ SignalReturned(Curr).state = Curr.prev_state
          /\ SignalReturned(Curr).prev_state = Curr.prev_state
      BY <1>1 DEF SignalReturned, PCB
    <3> QED
      BY <1>1, <1>4, <1>5, <2>1, <2>7, <3>1, <3>2 DEF SignalReturn
  <2>8. CASE Exit
    BY <1>2, <1>3, <2>1, <2>8, RunningSame DEF Exit
  <2>9. ASSUME NEW sig \in SIGNALS, NEW on \in BOOLEAN, Signal(sig, on)
        PROVE  RunningInv'
    <3>1. pcb_curr' = pcb_curr /\ sys'.at = "ret"
      BY <1>2, <1>3, <2>9 DEF Signal
    <3>2. \A i \in Pid : pcb'[i].state = pcb[i].state /\ pcb'[i].prev_state = pcb[i].prev_state
      BY <1>1, <2>9 DEF Signal, PCB
    <3> QED
      BY <1>5, <2>1, <3>1, <3>2 DEF RunningInv
  <2>10. ASSUME NEW sig \in SIGNALS, Raise(sig)
         PROVE  RunningInv'
    <3>1. pcb_curr' = pcb_curr /\ sys'.at = "ret"
      BY <1>2, <1>3, <2>10 DEF Raise
    <3>2. sig \in Curr.signal_handler => Raised(Curr) \in PCB
      BY <1>1, <2>10, PcbTypes DEF Raise
    <3>3. Raised(Curr).state = "SIGNAL" /\ Raised(Curr).prev_state # "RUNNING"
      BY <1>1 DEF Raised, PCB
    <3>4. CASE pcb' = pcb
      BY <2>1, <3>1, <3>4, RunningSame DEF procs
    <3>5. CASE /\ sig \in Curr.signal_handler
               /\ pcb' = [pcb EXCEPT ![pcb_curr] = Raised(Curr)]
      BY <1>4, <1>5, <2>1, <3>2, <3>3, <3>5
    <3> QED
      BY <2>10, <3>4, <3>5 DEF Raise
  <2>11. ASSUME NEW pid \in Pid, NEW sig \in SIGNALS, Kill(pid, sig)
         PROVE  RunningInv'
    <3> DEFINE yielded == [pcb EXCEPT ![pcb_curr].state = "READY"]
    <3>1. CASE Finish("ret", ERROR) /\ UNCHANGED procs
      BY <1>2, <1>3, <2>1, <3>1, RunningSame
    <3>2. CASE Crash(ProcFrameMap(system_page_table, pcb[pid]))
      BY <3>2, RunningCrash
    <3>3. CASE pcb' = yielded \/ pcb' = [yielded EXCEPT ![pid] = Raised(yielded[pid])]
      <4>1. \A i \in Pid : yielded[i].state # "RUNNING" /\ yielded[i].prev_state # "RUNNING"
        BY <1>1, <1>5, <2>1 DEF PCB
      <4>2. yielded \in [Pid -> PCB]
        <5>1. [Curr EXCEPT !.state = "READY"] \in PCB
          BY <1>1 DEF PCB, State
        <5> QED
          BY <1>1, <5>1
      <4>3. Raised(yielded[pid]).state = "SIGNAL" /\ Raised(yielded[pid]).prev_state # "RUNNING"
        BY <4>1, <4>2 DEF Raised, PCB
      <4>4. \A i \in Pid : pcb'[i].state # "RUNNING" /\ pcb'[i].prev_state # "RUNNING"
        <5> HIDE DEF yielded
        <5> QED
          BY <3>3, <4>1, <4>2, <4>3
      <4> QED
        BY <4>4 DEF RunningInv
    <3> QED
      BY <2>11, <3>1, <3>2, <3>3 DEF Kill
  <2>12. ASSUME NEW len \in RxSize \ {0}, Read(len)
         PROVE  RunningInv'
    <3>1. sys'.at # "sched"
      BY <1>2, <1>3, <2>12 DEF Read
    <3> QED
      BY <2>1, <2>12, <3>1, RunningSame DEF Read
  <2>13. CASE Ps
    BY <1>2, <1>3, <2>1, <2>13, RunningSame DEF Ps
  <2> QED
    BY <1>6, <2>2, <2>3, <2>4, <2>5, <2>6, <2>7, <2>8, <2>9, <2>10, <2>11, <2>12, <2>13
       DEF UserCall
<1>7. CASE KernelStep
  <2>1. Alive
    BY <1>7 DEF KernelStep, Schedule, Return, ForkCopy, ExecDone, ExecFails, ExecAborts,
                ExitDestroy, ExitAborts, ReadEnqueue, ReadBlock, PsStep, PsDone, Alive
  <2>2. CASE Schedule
    <3>1. PICK k \in 1 .. MAX_PROCESSES :
            /\ pcb' = [pcb EXCEPT ![After(k)] = Picked(pcb[After(k)])]
            /\ pcb_curr' = After(k)
      BY <2>2 DEF Schedule
    <3>2. After(k) \in Pid
      BY <1>1 DEF After, Pid
    <3>3. /\ Picked(pcb[After(k)]) \in PCB
          /\ Picked(pcb[After(k)]).prev_state = pcb[After(k)].prev_state
      BY <1>1, <3>2, PcbTypes DEF Picked, PCB
    <3>4. sys'.at = "ret" /\ \A i \in Pid : pcb[i].state # "RUNNING"
      BY <1>1, <1>5, <2>1, <2>2 DEF Schedule, SysType
    <3> QED
      BY <1>5, <2>1, <3>1, <3>2, <3>3, <3>4, RunningOneChanges
  <2>3. CASE Return
    <3>1. CASE \E t : Crash(t)
      BY <3>1, RunningCrash
    <3>2. CASE UNCHANGED procs /\ sys' = UserMode
      BY <2>1, <3>2, RunningSame DEF UserMode
    <3> QED
      BY <2>3, <3>1, <3>2 DEF Return
  <2>4. CASE ForkCopy
    <3> DEFINE c == sys.arg
    <3>0. c \in Pid /\ c \in Int
      BY <1>2, <2>4 DEF ForkCopy, TypeOK
    <3>1. CASE Crash(system_page_table)
      BY <3>1, RunningCrash
    <3>2. CASE pcb' = [pcb EXCEPT ![c] = Forked(pcb[c])] /\ pcb_curr' = pcb_curr /\ Leave("ret", c)
      <4>1. Forked(pcb[c]) \in PCB
        BY <1>1, <3>0 DEF Forked, PCB, State
      <4>2. Forked(pcb[c]).state = "READY" /\ Forked(pcb[c]).prev_state = pcb[c].prev_state
        BY <1>1, <3>0 DEF Forked, PCB
      <4>3. sys'.at = "ret"
        BY <1>2, <1>3, <3>0, <3>2
      <4> HIDE DEF c
      <4> QED
        BY <1>5, <2>1, <3>0, <3>2, <4>1, <4>2, <4>3, RunningOneChanges
    <3> QED
      BY <2>4, <3>1, <3>2, Zenon DEF ForkCopy
  <2>5. CASE ExecDone
    <3>1. Execed(Curr) \in PCB /\ Execed(Curr).state = "READY"
      BY <1>1, PcbTypes DEF Execed, PCB
    <3>2. Execed(Curr).prev_state = Curr.prev_state
      BY <1>1 DEF Execed, PCB
    <3> QED
      BY <1>1, <1>4, <1>5, <2>1, <2>5, <3>1, <3>2 DEF ExecDone
  <2>6. CASE ExecFails
    BY <1>2, <1>3, <2>1, <2>6, RunningSame DEF ExecFails
  <2>7. CASE ExecAborts
    BY <2>7, RunningCrash DEF ExecAborts
  <2>8. CASE ExitDestroy
    <3> DEFINE parent == Curr.parent_pid
               gone == [pcb EXCEPT ![pcb_curr] = Destroyed(Curr)]
    <3>1. Destroyed(Curr) \in PCB /\ Destroyed(Curr).state = "UNUSED"
      BY <1>1, PcbTypes DEF Destroyed, PCB
    <3>2. Destroyed(Curr).prev_state = Curr.prev_state
      BY <1>1 DEF Destroyed, PCB
    <3>3. gone \in [Pid -> PCB]
      BY <1>1, <3>1
    <3>4. \A i \in Pid : gone[i].state # "RUNNING" /\ gone[i].prev_state # "RUNNING"
      BY <1>1, <1>5, <2>1, <3>1, <3>2
    <3>5. CASE pcb' = gone
      BY <3>4, <3>5 DEF RunningInv
    <3>6. CASE parent # NoPid /\ pcb' = [gone EXCEPT ![parent] = Woken(gone[parent])]
      <4>1. parent \in Pid
        BY <1>1, <3>6 DEF PCB
      <4>2. Woken(gone[parent]).state = "READY"
        BY <3>3, <4>1 DEF Woken, PCB
      <4>3. Woken(gone[parent]).prev_state = gone[parent].prev_state
        BY <3>3, <4>1 DEF Woken, PCB
      <4> HIDE DEF gone
      <4>4. \A i \in Pid : pcb'[i].state # "RUNNING" /\ pcb'[i].prev_state # "RUNNING"
        BY <3>3, <3>4, <3>6, <4>1, <4>2, <4>3
      <4> QED
        BY <4>4 DEF RunningInv
    <3> QED
      BY <2>8, <3>5, <3>6 DEF ExitDestroy
  <2>9. CASE ExitAborts
    BY <2>9, RunningCrash DEF ExitAborts, CrashUnmapped
  <2>10. CASE ReadEnqueue
    BY <1>1, <2>1, <2>10, RunningSame DEF ReadEnqueue, SysType
  <2>11. CASE ReadBlock
    <3> DEFINE p == [Curr EXCEPT !.state = "BLOCKED", !.blocked = "READ"]
    <3>1. p \in PCB /\ p.state = "BLOCKED" /\ p.prev_state = Curr.prev_state
      BY <1>1 DEF PCB, State, Blocked
    <3>2. pcb' = [pcb EXCEPT ![pcb_curr] = p]
      BY <1>1, <2>11 DEF ReadBlock
    <3> HIDE DEF p
    <3> QED
      BY <1>1, <1>4, <1>5, <2>1, <3>1, <3>2
  <2>12. CASE PsStep
    <3>1. CASE \E t : Crash(t)
      BY <3>1, RunningCrash
    <3>2. CASE UNCHANGED procs /\ sys' = [sys EXCEPT !.arg = @ + 1]
      BY <1>1, <2>1, <2>12, <3>2, RunningSame DEF PsStep, SysType
    <3> QED
      BY <2>12, <3>1, <3>2 DEF PsStep
  <2>13. CASE PsDone
    BY <1>1, <2>1, <2>13, RunningSame DEF PsDone, SysType
  <2> QED
    BY <1>7, <2>2, <2>3, <2>4, <2>5, <2>6, <2>7, <2>8, <2>9, <2>10, <2>11, <2>12, <2>13
       DEF KernelStep
<1>8. CASE Interrupt
  <2>1. Alive
    BY <1>8 DEF Interrupt, Receive, Serve, Alive
  <2>2. CASE Receive
    BY <2>2 DEF Receive, RunningInv, Alive, procs
  <2>3. ASSUME NEW i \in Pid, Serve(i)
        PROVE  RunningInv'
    <3> DEFINE r == read_queue[i]
    <3>1. CASE \E t : Crash(t)
      BY <3>1, RunningCrash
    <3>2. CASE pcb' = [pcb EXCEPT ![r.pid] = Woken(pcb[r.pid])] /\ UNCHANGED <<pcb_curr, sys>>
      <4>1. r.pid \in Pid
        BY <2>3 DEF Serve, IsFirst, Satisfied, TypeOK, ReadTransaction
      <4>2. pcb[r.pid] \in PCB /\ Woken(pcb[r.pid]) \in PCB
        BY <1>1, <4>1, PcbTypes
      <4>3. /\ Woken(pcb[r.pid]).state = "READY"
            /\ Woken(pcb[r.pid]).prev_state = pcb[r.pid].prev_state
        BY <4>2 DEF Woken, PCB
      <4> HIDE DEF r
      <4> QED
        BY <1>5, <2>1, <3>2, <4>1, <4>2, <4>3, RunningOneChanges
    <3> QED
      BY <2>3, <3>1, <3>2 DEF Serve, CrashUnmapped
  <2> QED
    BY <1>8, <2>2, <2>3 DEF Interrupt
<1>9. CASE Tick
  <2>1. \A i \in Pid : pcb'[i].state = pcb[i].state /\ pcb'[i].prev_state = pcb[i].prev_state
    BY <1>1, <1>9 DEF Tick, PCB
  <2> QED
    BY <1>9, <2>1 DEF Tick, RunningInv, Alive
<1> QED
  BY <1>6, <1>7, <1>8, <1>9 DEF Next

LEMMA RunningInvariant == Spec => []RunningInv
<1>1. Init => RunningInv
  BY DEF Init, RunningInv, InitPcb, UnusedPcb
<1>2. TypeOK /\ RunningInv /\ [Next]_vars => RunningInv'
  <2>1. UNCHANGED vars /\ RunningInv => RunningInv'
    BY DEF vars, procs, RunningInv, Alive
  <2> QED
    BY <2>1, RunningStep
<1> QED
  BY <1>1, <1>2, TypeCorrect, PTL DEF Spec

\* In every state at most one process is RUNNING, the one pcb_curr points to,
\* and none is while the kernel looks for the next.  What has to be shown
\* beside is that no RUNNING is ever restored: kernel_raise saves READY for it.
THEOREM CurrentRuns == Spec => []RunningIsCurrent
<1>1. RunningInv => RunningIsCurrent
  BY DEF RunningInv, RunningIsCurrent
<1> QED
  BY <1>1, RunningInvariant, PTL

----------------------------------------------------------------------------
(* Who owns the frames. *)

KernelMapped(t) == \A f \in KERNEL_FRAMES : t[f] = InitPageTable[f]

\* p's frames are not the kernel's, nor is the section it sees its stack in.
Foreign(p) ==
    /\ Frames(p) \cap KERNEL_FRAMES = {}
    /\ p.virtual_stack_frame \notin KERNEL_FRAMES

\* FrameInv for a kernel that is not lost.
Owned ==
    /\ \A f \in Frame : f \in system_frame_table <=>
          f \in KERNEL_FRAMES \/ \E i \in Pid : Holds(i) /\ f \in Frames(pcb[i])
    /\ \A i \in Pid : Holds(i) =>
          /\ pcb[i].text_frame # pcb[i].stack_frame
          /\ Foreign(pcb[i])
          /\ \A j \in Pid \ {i} : Holds(j) => Frames(pcb[i]) \cap Frames(pcb[j]) = {}
    /\ KernelMapped(system_page_table)
    /\ sys.at # "sched" => Used(pcb_curr)
    /\ \A i \in Pid :
         /\ ~Holds(i) => Dead(pcb[i])
         /\ pcb[i].state = "SIGNAL" => pcb[i].prev_state # "UNUSED"

LEMMA FrameInvOwned == FrameInv <=> (Alive => Owned)
  BY DEF FrameInv, FrameOwnership, KernelSectionsMapped, Owned, KernelMapped, Foreign

----------------------------------------------------------------------------
(* What keeps the invariant. *)

\* Mapping and unmapping a process that holds frames leaves the kernel's
\* sections alone.
LEMMA TablesKeepKernel ==
    ASSUME NEW t \in PageTable, KernelMapped(t), NEW p \in PCB, Foreign(p)
    PROVE  /\ KernelMapped(ProcFrameWriteEnable(t, p))
           /\ KernelMapped(ProcFrameWriteDisable(t, p))
           /\ KernelMapped(ProcFrameMap(t, p))
<1> USE FrameAssumption
<1>1. KernelMapped(ProcFrameWriteEnable(t, p))
  BY DEF KernelMapped, Foreign, ProcFrameWriteEnable
<1>2. KernelMapped(ProcFrameWriteDisable(t, p))
  BY DEF KernelMapped, Foreign, ProcFrameWriteDisable
<1>3. ProcFrameWriteDisable(t, p) \in PageTable
  BY TableTypes
<1> QED
  BY <1>1, <1>2, <1>3 DEF KernelMapped, Foreign, ProcFrameMap, PageTable

\* So does switching to it from others that hold frames.
LEMMA SwitchKeepsKernel ==
    ASSUME NEW t \in PageTable, KernelMapped(t), NEW p \in PCB, Foreign(p),
           NEW U, \A q \in U : Foreign(q)
    PROVE  KernelMapped(ContextSwitchTable(t, U, p))
<1> DEFINE cleared == [f \in Frame |-> IF \E q \in U : f \in Frames(q)
                                       THEN FAULT ELSE t[f]]
<1>1. cleared \in PageTable
  BY DEF PageTable
<1>2. KernelMapped(cleared)
  BY FrameAssumption DEF KernelMapped, Foreign
<1>3. ContextSwitchTable(t, U, p) = ProcFrameMap(cleared, p)
  BY DEF ContextSwitchTable
<1> HIDE DEF cleared
<1> QED
  BY <1>1, <1>2, <1>3, TablesKeepKernel

\* No frame changes hands.
LEMMA FramesStay ==
    ASSUME Owned, system_frame_table' = system_frame_table,
           KernelMapped(system_page_table)',
           sys'.at # "sched" => Used(pcb_curr)',
           \A i \in Pid :
             /\ pcb'[i].text_frame = pcb[i].text_frame
             /\ pcb'[i].stack_frame = pcb[i].stack_frame
             /\ pcb'[i].virtual_stack_frame \in {pcb[i].virtual_stack_frame, pcb[i].stack_frame}
             /\ pcb'[i].state = "SIGNAL" => pcb'[i].prev_state # "UNUSED"
             /\ Holds(i)' <=> Holds(i)
    PROVE  Owned'
<1>1. \A i \in Pid : Frames(pcb[i])' = Frames(pcb[i])
  BY DEF Frames
<1>2. \A i \in Pid : Holds(i)' => Foreign(pcb[i])'
  BY <1>1 DEF Owned, Foreign, Frames
<1> QED
  BY <1>1, <1>2 DEF Owned, Dead

\* One process changes, not its frames, and stays in use.
LEMMA OneChanges ==
    ASSUME TypeOK, Owned, sys.at # "fork", sys'.at # "fork",
           UNCHANGED system_frame_table, KernelMapped(system_page_table)',
           NEW k \in Pid, Used(k), NEW p \in PCB,
           pcb' = [pcb EXCEPT ![k] = p], pcb_curr' \in Pid,
           sys'.at # "sched" => pcb_curr' = k \/ Used(pcb_curr'),
           p.text_frame = pcb[k].text_frame, p.stack_frame = pcb[k].stack_frame,
           p.virtual_stack_frame \in {pcb[k].virtual_stack_frame, p.stack_frame},
           p.state # "UNUSED", p.state = "SIGNAL" => p.prev_state # "UNUSED"
    PROVE  Owned'
<1>1. \A i \in Pid : pcb'[i] = IF i = k THEN p ELSE pcb[i]
  BY DEF TypeOK
<1>2. \A i \in Pid :
        /\ pcb'[i].text_frame = pcb[i].text_frame
        /\ pcb'[i].stack_frame = pcb[i].stack_frame
        /\ pcb'[i].virtual_stack_frame \in {pcb[i].virtual_stack_frame, pcb[i].stack_frame}
        /\ pcb'[i].state = "SIGNAL" => pcb'[i].prev_state # "UNUSED"
        /\ Holds(i)' <=> Holds(i)
  BY <1>1 DEF Owned, Holds, Used
<1>3. sys'.at # "sched" => Used(pcb_curr)'
  BY <1>1 DEF Used
<1> QED
  BY <1>2, <1>3, FramesStay

\* Nothing the invariant speaks of changes but the page table.
LEMMA TableChanges ==
    ASSUME TypeOK, Owned, UNCHANGED procs, UNCHANGED system_frame_table,
           KernelMapped(system_page_table)', sys.at # "sched",
           sys'.at = "fork" => sys.at = "fork" /\ sys'.arg = sys.arg,
           sys.at = "fork" => sys'.at = "fork"
    PROVE  Owned'
<1>1. pcb' = pcb /\ pcb_curr' = pcb_curr
  BY DEF procs
<1>2. \A i \in Pid : Holds(i)' <=> Holds(i)
  BY <1>1 DEF Holds, Used
<1>3. Used(pcb_curr)'
  BY <1>1 DEF Owned, Used
<1>4. \A i \in Pid : pcb[i].state = "SIGNAL" => pcb[i].prev_state # "UNUSED"
  BY DEF Owned
<1> QED
  BY <1>1, <1>2, <1>3, <1>4, FramesStay

\* Losing control.
LEMMA FrameCrash ==
    ASSUME NEW t, Crash(t)
    PROVE  ~Alive'
  BY DEF Crash, Alive, UserMode

----------------------------------------------------------------------------
(* The calls of the programs. *)

\* fork gives the child the two lowest free frames: nobody else's.
LEMMA ForkOwned ==
    ASSUME TypeOK, Owned, Fork, Alive'
    PROVE  Owned'
<1> USE KernelAssumption
<1>1. /\ pcb \in [Pid -> PCB] /\ pcb_curr \in Pid /\ Curr = pcb[pcb_curr] /\ Curr \in PCB
      /\ system_page_table \in PageTable
  BY DEF TypeOK, Curr
<1>2. sys.at = "user" /\ Used(pcb_curr) /\ Foreign(Curr)
  BY <1>1 DEF Fork, May, Owned, Holds
<1>3. KernelMapped(system_page_table)
  BY DEF Owned
<1>4. CASE Finish("ret", ERROR) /\ UNCHANGED <<procs, queues, tables, saved_r0, rx_size>>
  <2>1. sys'.at = "ret"
    BY <1>4, SysTypes DEF At, ERROR
  <2> QED
    BY <1>2, <1>3, <1>4, <2>1, TableChanges DEF tables
<1>5. CASE Crash(system_page_table)
  BY <1>5, FrameCrash
<1>6. ASSUME NEW c \in Pid, ~Used(c), NEW text \in Frame, NEW stack \in Frame,
             IsFirstFree(text, system_frame_table),
             IsFirstFree(stack, system_frame_table \cup {text}),
             NEW child,
             child = [pcb[c] EXCEPT
                  !.text_frame = text, !.stack_frame = stack,
                  !.virtual_stack_frame = Curr.stack_frame,
                  !.stack_pointer = [section |-> stack, level |-> 0],
                  !.signal_handler = {}],
             pcb' = [pcb EXCEPT ![c] = child], pcb_curr' = pcb_curr,
             system_page_table' =
                ProcFrameWriteEnable(ProcFrameWriteEnable(system_page_table, child), Curr),
             system_frame_table' = system_frame_table \cup {text, stack},
             Enter("fork", c)
      PROVE  Owned'
  <2>1. /\ text \notin system_frame_table /\ stack \notin system_frame_table
        /\ text # stack
    BY <1>6 DEF IsFirstFree
  <2>2. [section |-> stack, level |-> 0] \in Pointer
    BY DEF Pointer, Level
  <2>3. child \in PCB
    BY <1>1, <1>6, <2>2 DEF PCB
  <2>4. /\ child.text_frame = text /\ child.stack_frame = stack
        /\ child.virtual_stack_frame = Curr.stack_frame
        /\ child.state = pcb[c].state /\ child.prev_state = pcb[c].prev_state
    BY <1>1, <1>6 DEF PCB
  <2>5. \A i \in Pid : pcb'[i] = IF i = c THEN child ELSE pcb[i]
    BY <1>1, <1>6
  <2>6. sys'.at = "fork" /\ sys'.arg = c
    BY <1>6, SysTypes DEF At, Pid
  <2>7. KERNEL_FRAMES \subseteq system_frame_table
    BY FrameAssumption DEF Owned
  <2>8. Foreign(child)
    BY <1>2, <2>1, <2>4, <2>7 DEF Foreign, Frames
  <2>9. KernelMapped(system_page_table')
    <3>1. KernelMapped(ProcFrameWriteEnable(system_page_table, child))
      BY <1>1, <1>3, <2>3, <2>8, TablesKeepKernel
    <3> QED
      BY <1>1, <1>2, <1>6, <2>3, <3>1, TablesKeepKernel, TableTypes
  <2>10. \A i \in Pid : Holds(i)' <=> (i = c \/ Used(i))
    BY <1>6, <2>4, <2>5, <2>6 DEF Holds, Used
  <2>11. \A i \in Pid : Frames(pcb[i])' = IF i = c THEN {text, stack} ELSE Frames(pcb[i])
    BY <2>4, <2>5 DEF Frames
  <2>12. \A i \in Pid : Foreign(pcb[i])' <=> IF i = c THEN Foreign(child) ELSE Foreign(pcb[i])
    BY <2>5 DEF Foreign, Frames
  <2>13. \A i \in Pid : Holds(i) <=> Used(i)
    BY <1>2 DEF Holds
  <2>14. \A i \in Pid \ {c} : Used(i) => Frames(pcb[i]) \subseteq system_frame_table
    BY <2>13, <1>1 DEF Owned, Frames, PCB
  <2>15. \A f \in Frame : f \in system_frame_table' <=>
            f \in KERNEL_FRAMES \/ \E i \in Pid : Holds(i)' /\ f \in Frames(pcb[i])'
    BY <1>6, <2>10, <2>11, <2>13 DEF Owned
  <2>16. \A i \in Pid : Holds(i)' =>
          /\ pcb'[i].text_frame # pcb'[i].stack_frame
          /\ Foreign(pcb[i])'
          /\ \A j \in Pid \ {i} : Holds(j)' => Frames(pcb[i])' \cap Frames(pcb[j])' = {}
    BY <2>1, <2>4, <2>5, <2>8, <2>10, <2>11, <2>12, <2>13, <2>14 DEF Owned
  <2>17. Used(pcb_curr)'
    BY <1>1, <1>2, <1>6, <2>5 DEF Used
  <2>18. \A i \in Pid :
            /\ ~Holds(i)' => Dead(pcb[i])'
            /\ pcb'[i].state = "SIGNAL" => pcb'[i].prev_state # "UNUSED"
    BY <1>6, <2>4, <2>5, <2>10, <2>13 DEF Owned, Dead, Used
  <2> HIDE DEF Owned
  <2> QED
    BY <2>9, <2>15, <2>16, <2>17, <2>18 DEF Owned
<1> QED
  BY <1>4, <1>5, <1>6 DEF Fork

\* The other calls move no frame: they change the state of one process, or
\* map one, or go no further than entering the kernel.
LEMMA UserCallOwned ==
    ASSUME TypeOK, Owned, UserCall, Alive'
    PROVE  Owned'
<1> USE KernelAssumption
<1>1. /\ pcb \in [Pid -> PCB] /\ pcb_curr \in Pid /\ Curr = pcb[pcb_curr] /\ Curr \in PCB
      /\ system_page_table \in PageTable
  BY DEF TypeOK, Curr
<1>2. sys.at = "user"
  BY DEF UserCall, Yield, Usleep, Fork, Exec, Wait, SignalReturn, Exit, Signal,
         Raise, Kill, Read, Ps, May
<1>3. Used(pcb_curr) /\ Foreign(Curr) /\ KernelMapped(system_page_table)
  BY <1>1, <1>2 DEF Owned, Holds
<1>4. /\ 0 \in Int /\ UNKNOWN \in Int /\ ERROR \in Int /\ Pid \subseteq Int /\ RxSize \subseteq Int
      /\ At = {"user", "read", "block", "exec", "exit", "fork", "ps", "sched", "ret", "crash"}
  BY DEF UNKNOWN, ERROR, Pid, RxSize, At
<1>5. ASSUME NEW at \in At, NEW v \in Int, Enter(at, v) \/ Finish(at, v)
      PROVE  sys'.at = at
  BY <1>5, SysTypes
\* A call that changes the current process and leaves the tables alone.
<1>6. ASSUME NEW p \in PCB, pcb' = [pcb EXCEPT ![pcb_curr] = p],
             UNCHANGED <<pcb_curr, tables>>, sys'.at \in {"ret", "sched"},
             p.text_frame = Curr.text_frame, p.stack_frame = Curr.stack_frame,
             p.virtual_stack_frame = Curr.virtual_stack_frame,
             p.state # "UNUSED", p.state = "SIGNAL" => p.prev_state # "UNUSED"
      PROVE  Owned'
  BY <1>1, <1>2, <1>3, <1>6, OneChanges DEF tables
<1>7. ASSUME UNCHANGED <<procs, tables>>, sys'.at # "fork"
      PROVE  Owned'
  BY <1>2, <1>3, <1>7, TableChanges DEF tables
<1>8. Curr.state = "SIGNAL" => Curr.prev_state # "UNUSED"
  BY <1>1 DEF Owned
<1>9. CASE Yield
  <2> DEFINE p == [Curr EXCEPT !.state = "READY"]
  <2>1. /\ p \in PCB /\ p.state = "READY" /\ p.text_frame = Curr.text_frame
        /\ p.stack_frame = Curr.stack_frame /\ p.virtual_stack_frame = Curr.virtual_stack_frame
    BY <1>1 DEF PCB, State
  <2>2. pcb' = [pcb EXCEPT ![pcb_curr] = p] /\ sys'.at = "sched"
    BY <1>1, <1>4, <1>5, <1>9 DEF Yield
  <2> HIDE DEF p
  <2> QED
    BY <1>6, <1>9, <2>1, <2>2 DEF Yield
<1>10. ASSUME NEW timeout \in 0 .. MAX_TIMEOUT, Usleep(timeout)
       PROVE  Owned'
  <2> DEFINE p == [Curr EXCEPT !.state = "SLEEP", !.timer = timeout]
  <2>0. timeout \in -1 .. MAX_TIMEOUT
    OBVIOUS
  <2>1. p \in PCB
    BY <1>1, <2>0 DEF PCB, State
  <2>2. /\ p.state = "SLEEP" /\ p.text_frame = Curr.text_frame
        /\ p.stack_frame = Curr.stack_frame /\ p.virtual_stack_frame = Curr.virtual_stack_frame
    BY <1>1 DEF PCB
  <2>3. pcb' = [pcb EXCEPT ![pcb_curr] = p] /\ sys'.at = "sched"
    BY <1>1, <1>4, <1>5, <1>10 DEF Usleep
  <2> HIDE DEF p
  <2> QED
    BY <1>6, <1>10, <2>1, <2>2, <2>3 DEF Usleep
<1>11. CASE Exec \/ Exit
  <2>1. sys'.at # "fork"
    BY <1>4, <1>5, <1>11 DEF Exec, Exit
  <2>2. KernelMapped(system_page_table')
    BY <1>1, <1>3, <1>11, TablesKeepKernel DEF Exec, Exit
  <2> QED
    BY <1>2, <1>11, <2>1, <2>2, TableChanges DEF Exec, Exit
<1>12. CASE Wait
  <2> DEFINE p == [Curr EXCEPT !.state = "BLOCKED", !.blocked = "WAIT"]
  <2>1. p \in PCB
    BY <1>1 DEF PCB, State, Blocked
  <2>2. /\ p.state = "BLOCKED" /\ p.text_frame = Curr.text_frame
        /\ p.stack_frame = Curr.stack_frame /\ p.virtual_stack_frame = Curr.virtual_stack_frame
    BY <1>1 DEF PCB
  <2>3. /\ pcb' = [pcb EXCEPT ![pcb_curr] = p] \/ pcb' = pcb
        /\ UNCHANGED <<pcb_curr, tables>>
    BY <1>1, <1>12 DEF Wait
  <2>4. sys'.at \in {"ret", "sched"}
    BY <1>4, <1>5, <1>12 DEF Wait
  <2> HIDE DEF p
  <2> QED
    BY <1>6, <1>7, <2>1, <2>2, <2>3, <2>4 DEF procs
<1>13. CASE SignalReturn
  <2> DEFINE p == SignalReturned(Curr)
  <2>1. p \in PCB
    BY <1>1, PcbTypes
  <2>2. /\ p.state = Curr.prev_state /\ p.prev_state = Curr.prev_state
        /\ p.text_frame = Curr.text_frame /\ p.stack_frame = Curr.stack_frame
        /\ p.virtual_stack_frame = Curr.virtual_stack_frame
    BY <1>1 DEF PCB, SignalReturned
  <2>3. pcb' = [pcb EXCEPT ![pcb_curr] = p] /\ sys'.at = "sched"
    BY <1>1, <1>4, <1>5, <1>13 DEF SignalReturn
  <2>4. Curr.prev_state # "UNUSED"
    BY <1>8, <1>13 DEF SignalReturn
  <2> HIDE DEF p
  <2> QED
    BY <1>6, <1>13, <2>1, <2>2, <2>3, <2>4 DEF SignalReturn
<1>14. ASSUME NEW sig \in SIGNALS, NEW on \in BOOLEAN, Signal(sig, on)
       PROVE  Owned'
  <2> DEFINE h == IF on THEN Curr.signal_handler \cup {sig} ELSE Curr.signal_handler \ {sig}
             p == [Curr EXCEPT !.signal_handler = h]
  <2>1. h \in SUBSET SIGNALS
    BY <1>1 DEF PCB
  <2>2. p \in PCB
    BY <1>1, <2>1 DEF PCB
  <2>3. /\ p.state = Curr.state /\ p.prev_state = Curr.prev_state
        /\ p.text_frame = Curr.text_frame /\ p.stack_frame = Curr.stack_frame
        /\ p.virtual_stack_frame = Curr.virtual_stack_frame
    BY <1>1 DEF PCB
  <2>4. pcb' = [pcb EXCEPT ![pcb_curr] = p] /\ sys'.at = "ret"
    BY <1>1, <1>4, <1>5, <1>14 DEF Signal
  <2>5. Curr.state # "UNUSED"
    BY <1>1, <1>3 DEF Used
  <2> HIDE DEF p
  <2> QED
    BY <1>6, <1>8, <1>14, <2>2, <2>3, <2>4, <2>5 DEF Signal
\* kernel_raise on a process in use.
<1>15. ASSUME NEW q \in PCB, q.state # "UNUSED", q.stack_pointer.level < MAX_LEVEL
       PROVE  /\ Raised(q) \in PCB
              /\ Raised(q).state = "SIGNAL" /\ Raised(q).prev_state # "UNUSED"
              /\ Raised(q).text_frame = q.text_frame /\ Raised(q).stack_frame = q.stack_frame
              /\ Raised(q).virtual_stack_frame = q.virtual_stack_frame
  <2>1. Raised(q) \in PCB
    BY <1>15, PcbTypes
  <2> QED
    BY <1>15, <2>1 DEF Raised, PCB
<1>16. ASSUME NEW sig \in SIGNALS, Raise(sig)
       PROVE  Owned'
  <2>1. /\ \/ /\ pcb' = [pcb EXCEPT ![pcb_curr] = Raised(Curr)]
              /\ Curr.stack_pointer.level < MAX_LEVEL
           \/ pcb' = pcb
        /\ UNCHANGED <<pcb_curr, tables>>
    BY <1>16 DEF Raise
  <2>2. sys'.at = "ret"
    BY <1>4, <1>5, <1>16 DEF Raise
  <2>3. Curr.state # "UNUSED"
    BY <1>1, <1>3, <1>16 DEF Used, Raise
  <2> QED
    BY <1>1, <1>6, <1>7, <1>15, <2>1, <2>2, <2>3 DEF procs
<1>17. ASSUME NEW pid \in Pid, NEW sig \in SIGNALS, Kill(pid, sig)
       PROVE  Owned'
  <2> DEFINE r == [Curr EXCEPT !.state = "READY"]
             yielded == [pcb EXCEPT ![pcb_curr].state = "READY"]
             table == ProcFrameMap(system_page_table, pcb[pid])
  <2>1. CASE Finish("ret", ERROR) /\ UNCHANGED <<procs, tables>>
    BY <1>4, <1>5, <1>7, <2>1
  <2>2. CASE Crash(table)
    BY <2>2, FrameCrash
  <2>3. CASE /\ Used(pid)
             /\ \/ pcb' = yielded
                \/ /\ pcb' = [yielded EXCEPT ![pid] = Raised(yielded[pid])]
                   /\ pcb[pid].stack_pointer.level < MAX_LEVEL
             /\ pcb_curr' = pid /\ system_page_table' = table
             /\ Finish("ret", ERROR) \/ Finish("ret", 0)
             /\ UNCHANGED system_frame_table
    <3>1. yielded = [pcb EXCEPT ![pcb_curr] = r]
      BY <1>1
    <3>2. /\ r \in PCB /\ r.state = "READY" /\ r.text_frame = Curr.text_frame
          /\ r.stack_frame = Curr.stack_frame /\ r.virtual_stack_frame = Curr.virtual_stack_frame
      BY <1>1 DEF PCB, State
    <3>3. r.stack_pointer = Curr.stack_pointer
      BY <1>1 DEF PCB
    <3>4. yielded \in [Pid -> PCB] /\ yielded[pid] \in PCB
      BY <1>1, <3>1, <3>2
    <3>5. /\ yielded[pid].state # "UNUSED"
          /\ yielded[pid].text_frame = pcb[pid].text_frame
          /\ yielded[pid].stack_frame = pcb[pid].stack_frame
          /\ yielded[pid].virtual_stack_frame = pcb[pid].virtual_stack_frame
      BY <1>1, <1>17, <2>3, <3>1, <3>2, <3>3 DEF Kill, Used
    <3>6. sys'.at = "ret"
      BY <1>4, <1>5, <2>3
    <3>7. KernelMapped(system_page_table')
      <4>1. Foreign(pcb[pid]) /\ pcb[pid] \in PCB
        BY <1>1, <2>3 DEF Owned, Holds
      <4> QED
        BY <1>1, <1>3, <2>3, <4>1, TablesKeepKernel
    <3>8. \A i \in Pid :
            /\ pcb'[i].text_frame = pcb[i].text_frame
            /\ pcb'[i].stack_frame = pcb[i].stack_frame
            /\ pcb'[i].virtual_stack_frame = pcb[i].virtual_stack_frame
            /\ pcb'[i].state = "SIGNAL" => pcb'[i].prev_state # "UNUSED"
            /\ Used(i)' <=> Used(i)
      <4> HIDE DEF r, yielded, table
      <4>1. \A i \in Pid : yielded[i] = IF i = pcb_curr THEN r ELSE pcb[i]
        BY <1>1, <3>1
      <4>2. CASE pcb' = yielded
        BY <1>1, <1>3, <3>2, <4>1, <4>2 DEF Owned, Used
      <4>3. CASE /\ pcb' = [yielded EXCEPT ![pid] = Raised(yielded[pid])]
                 /\ pcb[pid].stack_pointer.level < MAX_LEVEL
        <5>1. \A i \in Pid : pcb'[i] = IF i = pid THEN Raised(yielded[pid]) ELSE yielded[i]
          BY <3>4, <4>3
        <5>2. yielded[pid].stack_pointer = pcb[pid].stack_pointer
          BY <1>1, <3>3, <4>1
        <5> QED
          BY <1>1, <1>3, <1>15, <2>3, <3>2, <3>4, <3>5, <4>1, <4>3, <5>1, <5>2 DEF Owned, Used
      <4> QED
        BY <2>3, <4>2, <4>3
    <3>9. \A i \in Pid : Holds(i)' <=> Holds(i)
      BY <1>2, <3>6, <3>8 DEF Holds
    <3>10. Used(pcb_curr)'
      BY <2>3, <3>8 DEF Used
    <3> QED
      BY <2>3, <3>7, <3>8, <3>9, <3>10, FramesStay
  <2> QED
    BY <1>17, <2>1, <2>2, <2>3 DEF Kill
<1>18. ASSUME NEW len \in RxSize \ {0}, Read(len)
       PROVE  Owned'
  BY <1>4, <1>5, <1>7, <1>18 DEF Read
<1>19. CASE Ps
  BY <1>4, <1>5, <1>7, <1>19 DEF Ps
<1> QED
  BY <1>9, <1>10, <1>11, <1>12, <1>13, <1>14, <1>16, <1>17, <1>18, <1>19, ForkOwned
     DEF UserCall

----------------------------------------------------------------------------
(* The kernel going on with a call. *)

\* exit gives back exactly the frames of the process that ends, and wakes a
\* parent only if it still holds its own.
LEMMA ExitOwned ==
    ASSUME TypeOK, Owned, ExitDestroy
    PROVE  Owned'
<1> USE KernelAssumption
<1> DEFINE parent == Curr.parent_pid
           d == Destroyed(Curr)
           gone == [pcb EXCEPT ![pcb_curr] = d]
           table == ProcFrameMap(system_page_table, pcb[parent])
<1>1. /\ pcb \in [Pid -> PCB] /\ pcb_curr \in Pid /\ Curr = pcb[pcb_curr] /\ Curr \in PCB
      /\ system_page_table \in PageTable /\ sys.at = "exit"
  BY DEF TypeOK, Curr, ExitDestroy
<1>2. Used(pcb_curr) /\ Foreign(Curr) /\ KernelMapped(system_page_table)
  BY <1>1 DEF Owned, Holds
<1>3. d \in PCB
  BY <1>1, PcbTypes
<1>4. d.stack_frame = 0 /\ d.state = "UNUSED"
  BY <1>1 DEF PCB, Destroyed
<1>5. sys'.at = "sched" /\ pcb_curr' = pcb_curr
  BY SysTypes DEF ExitDestroy, At, UNKNOWN
<1>6. /\ system_frame_table' = system_frame_table \ Frames(Curr)
      /\ \A f \in Frames(Curr) : f \in Frame
  BY <1>1 DEF ExitDestroy, Deallocate, Frames, PCB
\* The processes but the one that ends stay as they are, one is perhaps woken.
<1>7. /\ KernelMapped(system_page_table')
      /\ pcb'[pcb_curr].stack_frame = 0 /\ pcb'[pcb_curr].state = "UNUSED"
      /\ \A i \in Pid \ {pcb_curr} :
           /\ pcb'[i].text_frame = pcb[i].text_frame
           /\ pcb'[i].stack_frame = pcb[i].stack_frame
           /\ pcb'[i].virtual_stack_frame = pcb[i].virtual_stack_frame
           /\ pcb'[i].state = "SIGNAL" => pcb'[i].prev_state # "UNUSED"
           /\ Used(i)' <=> Used(i)
  <2>1. gone \in [Pid -> PCB] /\ \A i \in Pid : gone[i] = IF i = pcb_curr THEN d ELSE pcb[i]
    BY <1>1, <1>3
  <2>2. CASE pcb' = gone /\ system_page_table' = system_page_table
    <3> HIDE DEF gone, d
    <3> QED
      BY <1>1, <1>2, <1>4, <2>1, <2>2 DEF Owned, Used
  <2>3. CASE /\ parent # NoPid /\ ~Dead(gone[parent])
             /\ pcb' = [gone EXCEPT ![parent] = Woken(gone[parent])]
             /\ system_page_table' = table
    <3> HIDE DEF gone, d, table
    <3>1. parent \in Pid
      BY <1>1, <2>3 DEF PCB
    <3>2. parent # pcb_curr /\ gone[parent] = pcb[parent]
      BY <1>4, <2>1, <2>3, <3>1 DEF Dead
    <3>3. Used(parent) /\ Foreign(pcb[parent])
      BY <1>1, <2>3, <3>1, <3>2 DEF Owned, Holds
    <3>4. pcb[parent] \in PCB /\ Woken(pcb[parent]) \in PCB
      BY <1>1, <3>1, PcbTypes
    <3>5. LET w == Woken(pcb[parent]) IN
          /\ w.state = "READY" /\ w.text_frame = pcb[parent].text_frame
          /\ w.stack_frame = pcb[parent].stack_frame
          /\ w.virtual_stack_frame = pcb[parent].virtual_stack_frame
      BY <3>4 DEF Woken, PCB
    <3>6. \A i \in Pid : pcb'[i] = IF i = parent THEN Woken(pcb[parent])
                                   ELSE IF i = pcb_curr THEN d ELSE pcb[i]
      BY <2>1, <2>3, <3>1, <3>2
    <3>7. KernelMapped(system_page_table')
      BY <1>1, <1>2, <2>3, <3>3, <3>4, TablesKeepKernel DEF table
    <3> QED
      BY <1>1, <1>4, <3>1, <3>2, <3>3, <3>5, <3>6, <3>7 DEF Owned, Used
  <2> QED
    BY <2>2, <2>3 DEF ExitDestroy
<1>8. \A i \in Pid : /\ Holds(i) <=> Used(i)
                     /\ Holds(i)' <=> (i # pcb_curr /\ Used(i))
  BY <1>1, <1>5, <1>7 DEF Holds, Used
<1>9. \A i \in Pid \ {pcb_curr} : /\ Frames(pcb[i])' = Frames(pcb[i])
                                  /\ Foreign(pcb[i])' <=> Foreign(pcb[i])
  BY <1>7 DEF Foreign, Frames
<1>10. \A f \in Frame : f \in system_frame_table' <=>
          f \in KERNEL_FRAMES \/ \E i \in Pid : Holds(i)' /\ f \in Frames(pcb[i])'
  <2>1. \A f \in Frame : f \in system_frame_table' <=>
          (f \in KERNEL_FRAMES \/ \E i \in Pid : Used(i) /\ f \in Frames(pcb[i]))
          /\ f \notin Frames(Curr)
    BY <1>6, <1>8 DEF Owned
  <2>2. \A f \in Frames(Curr) : f \notin KERNEL_FRAMES
    BY <1>2 DEF Foreign
  <2>3. \A i \in Pid \ {pcb_curr} : Used(i) => Frames(pcb[i]) \cap Frames(Curr) = {}
    BY <1>1, <1>2, <1>8 DEF Owned
  <2> QED
    BY <1>1, <1>8, <1>9, <2>1, <2>2, <2>3
<1>11. \A i \in Pid : Holds(i)' =>
          /\ pcb'[i].text_frame # pcb'[i].stack_frame
          /\ Foreign(pcb[i])'
          /\ \A j \in Pid \ {i} : Holds(j)' => Frames(pcb[i])' \cap Frames(pcb[j])' = {}
  BY <1>7, <1>8, <1>9 DEF Owned
<1>12. \A i \in Pid :
          /\ ~Holds(i)' => Dead(pcb[i])'
          /\ pcb'[i].state = "SIGNAL" => pcb'[i].prev_state # "UNUSED"
  BY <1>7, <1>8 DEF Owned, Dead
<1> QED
  BY <1>5, <1>7, <1>10, <1>11, <1>12 DEF Owned

LEMMA KernelStepOwned ==
    ASSUME TypeOK, Owned, KernelStep, Alive'
    PROVE  Owned'
<1> USE KernelAssumption
<1>1. /\ pcb \in [Pid -> PCB] /\ pcb_curr \in Pid /\ Curr = pcb[pcb_curr] /\ Curr \in PCB
      /\ system_page_table \in PageTable /\ sys \in SysType
  BY DEF TypeOK, Curr, SysType
<1>2. KernelMapped(system_page_table)
  BY DEF Owned
<1>3. sys.at # "sched" => Used(pcb_curr) /\ Foreign(Curr)
  BY <1>1 DEF Owned, Holds
<1>4. /\ 0 \in Int /\ UNKNOWN \in Int /\ ERROR \in Int /\ Pid \subseteq Int
      /\ At = {"user", "read", "block", "exec", "exit", "fork", "ps", "sched", "ret", "crash"}
  BY DEF UNKNOWN, ERROR, Pid, At
<1>5. ASSUME NEW at \in At, NEW v \in Int, Leave(at, v)
      PROVE  sys'.at = at
  BY <1>5, SysTypes
<1>6. CASE Schedule
  <2>1. PICK k \in 1 .. MAX_PROCESSES :
          /\ Runnable(pcb[After(k)])
          /\ pcb' = [pcb EXCEPT ![After(k)] = Picked(pcb[After(k)])]
          /\ pcb_curr' = After(k)
    BY <1>6 DEF Schedule
  <2> DEFINE q == pcb[After(k)]
  <2>2. After(k) \in Pid /\ q \in PCB
    BY <1>1 DEF After, Pid
  <2>3. /\ Picked(q) \in PCB /\ Picked(q).state \in {"READY", "RUNNING"}
        /\ Picked(q).text_frame = q.text_frame /\ Picked(q).stack_frame = q.stack_frame
        /\ Picked(q).virtual_stack_frame = q.virtual_stack_frame
    <3>1. Picked(q) \in PCB
      BY <2>2, PcbTypes
    <3> QED
      BY <2>2, <3>1 DEF Picked, PCB
  <2>4. Used(After(k))
    BY <2>1 DEF Runnable, Used
  <2>5. sys.at = "sched" /\ sys'.at = "ret" /\ UNCHANGED tables
    BY <1>1, <1>6 DEF Schedule, SysType
  <2> QED
    BY <1>2, <2>1, <2>2, <2>3, <2>4, <2>5, OneChanges DEF tables
<1>7. CASE Return
  <2> DEFINE table == ContextSwitchTable(system_page_table, UsedPcbs, Curr)
  <2>1. CASE Crash(table)
    BY <2>1, FrameCrash
  <2>2. CASE UNCHANGED <<procs, system_frame_table>> /\ sys' = UserMode /\ system_page_table' = table
    <3>1. sys.at = "ret" /\ sys'.at = "user"
      BY <1>7, <2>2 DEF Return, UserMode
    <3>2. \A q \in UsedPcbs : Foreign(q)
      BY DEF UsedPcbs, Owned, Holds
    <3>3. KernelMapped(table)
      BY <1>1, <1>2, <1>3, <3>1, <3>2, SwitchKeepsKernel
    <3> QED
      BY <2>2, <3>1, <3>3, TableChanges
  <2> QED
    BY <1>7, <2>1, <2>2 DEF Return
<1>8. CASE ForkCopy
  <2> DEFINE c == sys.arg
             child == pcb[c]
  <2>1. sys.at = "fork" /\ c \in Pid /\ c \in Int /\ child \in PCB
    BY <1>1, <1>4, <1>8 DEF ForkCopy, TypeOK
  <2>2. CASE Crash(system_page_table)
    BY <2>2, FrameCrash
  <2>3. CASE /\ pcb' = [pcb EXCEPT ![c] = Forked(child)]
             /\ system_page_table' = ProcFrameWriteDisable(system_page_table, child)
             /\ Leave("ret", c)
             /\ UNCHANGED <<pcb_curr, system_frame_table>>
    <3>1. /\ Forked(child).state = "READY" /\ Forked(child).text_frame = child.text_frame
          /\ Forked(child).stack_frame = child.stack_frame
          /\ Forked(child).virtual_stack_frame = child.virtual_stack_frame
      BY <1>1, <2>1 DEF Forked, PCB
    <3>2. Foreign(child)
      BY <2>1 DEF Owned, Holds
    <3>3. KernelMapped(system_page_table')
      BY <1>1, <1>2, <2>1, <2>3, <3>2, TablesKeepKernel
    <3>4. \A i \in Pid : pcb'[i] = IF i = c THEN Forked(child) ELSE pcb[i]
      BY <1>1, <2>1, <2>3
    <3>5. sys'.at = "ret"
      BY <1>4, <1>5, <2>1, <2>3
    <3>6. \A i \in Pid : Holds(i)' <=> Holds(i)
      BY <2>1, <3>1, <3>4, <3>5 DEF Holds, Used
    <3>7. Used(pcb_curr)'
      BY <1>1, <1>3, <2>1, <2>3, <3>1, <3>4 DEF Used
    <3>8. \A i \in Pid :
            /\ pcb'[i].text_frame = pcb[i].text_frame
            /\ pcb'[i].stack_frame = pcb[i].stack_frame
            /\ pcb'[i].virtual_stack_frame = pcb[i].virtual_stack_frame
            /\ pcb'[i].state = "SIGNAL" => pcb'[i].prev_state # "UNUSED"
      BY <3>1, <3>4 DEF Owned
    <3> QED
      BY <2>3, <3>3, <3>6, <3>7, <3>8, FramesStay
  <2> QED
    BY <1>8, <2>2, <2>3 DEF ForkCopy
<1>9. CASE ExecDone
  <2> DEFINE p == Execed(Curr)
  <2>1. p \in PCB
    BY <1>1, PcbTypes
  <2>2. /\ p.state = "READY" /\ p.text_frame = Curr.text_frame
        /\ p.stack_frame = Curr.stack_frame /\ p.virtual_stack_frame = Curr.stack_frame
    BY <1>1 DEF Execed, PCB
  <2>3. sys.at = "exec" /\ sys'.at = "ret" /\ pcb' = [pcb EXCEPT ![pcb_curr] = p]
    BY <1>4, <1>5, <1>9 DEF ExecDone
  <2> HIDE DEF p
  <2> QED
    BY <1>1, <1>2, <1>3, <1>9, <2>1, <2>2, <2>3, OneChanges DEF ExecDone, tables
<1>10. CASE ExecFails
  <2>1. sys.at = "exec" /\ sys'.at = "ret"
    BY <1>4, <1>5, <1>10 DEF ExecFails
  <2> QED
    BY <1>2, <1>10, <2>1, TableChanges DEF ExecFails, tables
<1>11. CASE ExecAborts \/ ExitAborts
  BY <1>11, FrameCrash DEF ExecAborts, ExitAborts, CrashUnmapped
<1>12. CASE ReadEnqueue
  <2>1. sys.at = "read" /\ sys'.at = "block"
    BY <1>1, <1>12 DEF ReadEnqueue, SysType
  <2> QED
    BY <1>2, <1>12, <2>1, TableChanges DEF ReadEnqueue, tables
<1>13. CASE ReadBlock
  <2> DEFINE p == [Curr EXCEPT !.state = "BLOCKED", !.blocked = "READ"]
  <2>1. p \in PCB
    BY <1>1 DEF PCB, State, Blocked
  <2>2. /\ p.state = "BLOCKED" /\ p.text_frame = Curr.text_frame
        /\ p.stack_frame = Curr.stack_frame /\ p.virtual_stack_frame = Curr.virtual_stack_frame
    BY <1>1 DEF PCB
  <2>3. sys.at = "block" /\ sys'.at = "sched" /\ pcb' = [pcb EXCEPT ![pcb_curr] = p]
    BY <1>1, <1>4, <1>5, <1>13 DEF ReadBlock
  <2> HIDE DEF p
  <2> QED
    BY <1>1, <1>2, <1>3, <1>13, <2>1, <2>2, <2>3, OneChanges DEF ReadBlock, tables
<1>14. CASE PsStep
  <2> DEFINE p == pcb[sys.arg]
             table == ProcFrameMap(system_page_table, p)
  <2>1. sys.at = "ps" /\ sys.arg \in Pid /\ p \in PCB
    BY <1>1, <1>14 DEF PsStep, TypeOK, Pid
  <2>2. CASE Crash(table)
    BY <2>2, FrameCrash
  <2>3. CASE /\ system_page_table' = IF Used(sys.arg) THEN table ELSE system_page_table
             /\ sys' = [sys EXCEPT !.arg = @ + 1]
             /\ UNCHANGED <<procs, system_frame_table>>
    <3>1. sys'.at = "ps"
      BY <1>1, <2>1, <2>3 DEF SysType
    <3>2. KernelMapped(system_page_table')
      <4>1. CASE Used(sys.arg)
        <5>1. Foreign(p)
          BY <2>1, <4>1 DEF Owned, Holds
        <5> QED
          BY <1>1, <1>2, <2>1, <2>3, <4>1, <5>1, TablesKeepKernel
      <4> QED
        BY <1>2, <2>3, <4>1
    <3> QED
      BY <2>1, <2>3, <3>1, <3>2, TableChanges
  <2> QED
    BY <1>14, <2>2, <2>3 DEF PsStep
<1>15. CASE PsDone
  <2>1. sys.at = "ps" /\ sys'.at = "ret"
    BY <1>1, <1>15 DEF PsDone, SysType
  <2> QED
    BY <1>2, <1>15, <2>1, TableChanges DEF PsDone, tables
<1> QED
  BY <1>6, <1>7, <1>8, <1>9, <1>10, <1>11, <1>12, <1>13, <1>14, <1>15, ExitOwned
     DEF KernelStep

----------------------------------------------------------------------------
(* The interrupt. *)

\* A stale reader of the queue is told by its freed frames; a live one is woken
\* and mapped, and so is the current process after it.
LEMMA InterruptOwned ==
    ASSUME TypeOK, Owned, Interrupt, Alive'
    PROVE  Owned'
<1>1. /\ pcb \in [Pid -> PCB] /\ pcb_curr \in Pid /\ Curr = pcb[pcb_curr] /\ Curr \in PCB
      /\ system_page_table \in PageTable
  BY DEF TypeOK, Curr
<1>2. ASSUME \A i \in Pid :
               /\ pcb'[i].text_frame = pcb[i].text_frame
               /\ pcb'[i].stack_frame = pcb[i].stack_frame
               /\ pcb'[i].virtual_stack_frame = pcb[i].virtual_stack_frame
               /\ pcb'[i].state = "SIGNAL" => pcb'[i].prev_state # "UNUSED"
               /\ Used(i) => Used(i)'
               /\ Used(i)' => Holds(i),
             UNCHANGED <<pcb_curr, system_frame_table, sys>>, KernelMapped(system_page_table')
      PROVE  Owned'
  <2>1. \A i \in Pid : Holds(i)' <=> Holds(i)
    BY <1>2 DEF Holds
  <2>2. sys'.at # "sched" => Used(pcb_curr)'
    BY <1>1, <1>2 DEF Owned, Used
  <2> QED
    BY <1>2, <2>1, <2>2, FramesStay
<1>3. CASE Receive
  BY <1>2, <1>3 DEF Receive, procs, tables, Owned, Holds, Used
<1>4. ASSUME NEW i \in Pid, Serve(i)
      PROVE  Owned'
  <2> DEFINE r == read_queue[i]
             p == pcb[r.pid]
             table == ProcFrameMap(system_page_table, p)
  <2>1. r.pid \in Pid /\ p \in PCB
    BY <1>1, <1>4 DEF Serve, IsFirst, Satisfied, TypeOK, ReadTransaction
  <2>2. CASE CrashUnmapped \/ Crash(table)
    BY <2>2, FrameCrash DEF CrashUnmapped
  <2>3. CASE /\ ~Dead(p) /\ ~Dead(Curr)
             /\ pcb' = [pcb EXCEPT ![r.pid] = Woken(p)]
             /\ system_page_table' = ProcFrameMap(table, Curr)
             /\ UNCHANGED <<pcb_curr, system_frame_table, sys>>
    <3>1. Holds(r.pid) /\ Holds(pcb_curr)
      BY <1>1, <2>1, <2>3 DEF Owned
    <3>2. Foreign(p) /\ Foreign(Curr)
      BY <1>1, <2>1, <3>1 DEF Owned
    <3>3. KernelMapped(system_page_table')
      <4>1. KernelMapped(table) /\ table \in PageTable
        BY <1>1, <2>1, <3>2, TablesKeepKernel, TableTypes DEF Owned
      <4> HIDE DEF table
      <4> QED
        BY <1>1, <2>3, <3>2, <4>1, TablesKeepKernel
    <3>4. /\ Woken(p).state = "READY" /\ Woken(p).text_frame = p.text_frame
          /\ Woken(p).stack_frame = p.stack_frame
          /\ Woken(p).virtual_stack_frame = p.virtual_stack_frame
      BY <2>1 DEF Woken, PCB
    <3>5. \A j \in Pid : pcb'[j] = IF j = r.pid THEN Woken(p) ELSE pcb[j]
      BY <1>1, <2>1, <2>3
    <3> HIDE DEF r
    <3> QED
      BY <1>2, <2>3, <3>1, <3>3, <3>4, <3>5 DEF Owned, Holds, Used
  <2> QED
    BY <1>4, <2>2, <2>3 DEF Serve
<1> QED
  BY <1>3, <1>4 DEF Interrupt

\* Nor does the clock change the owner of a frame.
LEMMA TickOwned ==
    ASSUME TypeOK, Owned, Tick
    PROVE  Owned'
<1>1. \A i \in Pid :
        /\ pcb'[i].text_frame = pcb[i].text_frame
        /\ pcb'[i].stack_frame = pcb[i].stack_frame
        /\ pcb'[i].virtual_stack_frame = pcb[i].virtual_stack_frame
        /\ pcb'[i].state = pcb[i].state /\ pcb'[i].prev_state = pcb[i].prev_state
  BY DEF TypeOK, PCB, Tick
<1>2. \A i \in Pid : Holds(i)' <=> Holds(i)
  BY <1>1 DEF Tick, Holds, Used
<1>3. sys'.at # "sched" => Used(pcb_curr)'
  BY <1>1 DEF Tick, TypeOK, Owned, Used
<1>4. system_frame_table' = system_frame_table /\ KernelMapped(system_page_table)'
  BY DEF Tick, tables, Owned, KernelMapped
<1>5. \A i \in Pid : pcb'[i].state = "SIGNAL" => pcb'[i].prev_state # "UNUSED"
  BY <1>1 DEF Owned
<1> QED
  BY <1>1, <1>2, <1>3, <1>4, <1>5, FramesStay

----------------------------------------------------------------------------
(* The theorems. *)

\* Boot leaves the kernel's frames and the two of init in use.
LEMMA InitOwned == Init => Owned
<1> SUFFICES ASSUME Init PROVE Owned
  OBVIOUS
<1> USE FrameAssumption, KernelAssumption
<1>1. \A i \in Pid : pcb[i] = IF i = 0 THEN InitPcb ELSE UnusedPcb
  BY DEF Init
<1>2. 0 \in Pid /\ sys.at = "user" /\ pcb_curr = 0
  BY DEF Init, Pid, UserMode
<1>3. /\ InitPcb.text_frame = 1 /\ InitPcb.stack_frame = 2 /\ InitPcb.virtual_stack_frame = 2
      /\ InitPcb.state = "READY"
  BY DEF InitPcb, UnusedPcb
<1>4. UnusedPcb.state = "UNUSED" /\ UnusedPcb.stack_frame = 0
  BY DEF UnusedPcb
<1>5. \A i \in Pid : Holds(i) <=> i = 0
  BY <1>1, <1>2, <1>3, <1>4 DEF Holds, Used
<1>6. Frames(pcb[0]) = {1, 2} /\ Foreign(pcb[0])
  BY <1>1, <1>2, <1>3 DEF Frames, Foreign
<1>7. \A f \in Frame : f \in system_frame_table <=>
          f \in KERNEL_FRAMES \/ \E i \in Pid : Holds(i) /\ f \in Frames(pcb[i])
  BY <1>2, <1>5, <1>6 DEF Init, Reserved
<1>8. KernelMapped(system_page_table)
  BY DEF Init, KernelMapped, InitPageTable
<1>9. Used(pcb_curr)
  BY <1>1, <1>2, <1>3 DEF Used
<1> QED
  BY <1>1, <1>2, <1>3, <1>4, <1>5, <1>6, <1>7, <1>8, <1>9 DEF Owned, Dead

LEMMA FrameStep == TypeOK /\ FrameInv /\ [Next]_vars => FrameInv'
<1> SUFFICES ASSUME TypeOK, FrameInv, [Next]_vars, Alive'
             PROVE  Owned'
  BY FrameInvOwned DEF FrameInv, FrameOwnership, KernelSectionsMapped, Owned, KernelMapped,
     Foreign, Alive
<1>1. CASE UNCHANGED vars
  BY <1>1, FrameInvOwned DEF vars, procs, tables, Owned, KernelMapped, Foreign, Holds, Used,
     Dead, Alive, Frames
<1>2. CASE Next
  <2>1. Alive
    BY <1>2 DEF Next, UserCall, KernelStep, Interrupt, Yield, Usleep, Fork, Exec, Wait,
       SignalReturn, Exit, Signal, Raise, Kill, Read, Ps, May, Schedule, Return, ForkCopy,
       ExecDone, ExecFails, ExecAborts, ExitDestroy, ExitAborts, ReadEnqueue, ReadBlock,
       PsStep, PsDone, Receive, Serve, Tick, Alive
  <2>2. Owned
    BY <2>1, FrameInvOwned
  <2> QED
    BY <1>2, <2>2, UserCallOwned, KernelStepOwned, InterruptOwned, TickOwned DEF Next
<1> QED
  BY <1>1, <1>2

\* FrameInv holds in every state.
LEMMA FramesInvariant == Spec => []FrameInv
<1>1. Init => FrameInv
  BY InitOwned, FrameInvOwned
<1> QED
  BY <1>1, FrameStep, TypeCorrect, PTL DEF Spec

\* As long as the kernel has control no frame is leaked or given to two
\* owners, whatever the programs do: fork, exit, the wakeup of a parent and
\* the interrupt's of a reader keep the frame table exact.
THEOREM FramesOwned == Spec => []FrameOwnership
<1>1. FrameInv => FrameOwnership
  BY DEF FrameInv
<1> QED
  BY <1>1, FramesInvariant, PTL

\* As long as the kernel has control its own sections stay mapped: no process
\* is ever mapped or unmapped that does not hold frames.
THEOREM KernelStaysMapped == Spec => []KernelSectionsMapped
<1>1. FrameInv => KernelSectionsMapped
  BY DEF FrameInv
<1> QED
  BY <1>1, FramesInvariant, PTL

----------------------------------------------------------------------------
(* What each step does to the processes, field by field. *)

\* Only process k changes.
Only(k) == \A i \in Pid \ {k} : pcb'[i] = pcb[i]

\* p is where q is in memory, and whose child q is.
SamePlace(p, q) ==
    /\ p.parent_pid = q.parent_pid
    /\ p.text_frame = q.text_frame /\ p.stack_frame = q.stack_frame
    /\ p.virtual_stack_frame = q.virtual_stack_frame
    /\ p.argv = q.argv

\* p differs from q in what the scheduler looks at, or not at all.
SameContext(p, q) ==
    /\ SamePlace(p, q)
    /\ p.stack_pointer = q.stack_pointer
    /\ p.prev_stack_pointer = q.prev_stack_pointer
    /\ p.prev_state = q.prev_state
    /\ p.signal_handler = q.signal_handler

SameProcs == pcb' = pcb /\ pcb_curr' = pcb_curr
SameMemory == UNCHANGED <<tables, saved_r0>>

\* A call ends with a result for its caller, the current process.
Answered(at, result) ==
    sys' = [at |-> at, caller |-> pcb_curr, sp |-> Curr.stack_pointer,
            arg |-> 0, result |-> result]

\* A call ends without.
Unanswered(at) == sys' = [UserMode EXCEPT !.at = at]

LEMMA EndsCall ==
    ASSUME NEW at
    PROVE  /\ Finish(at, UNKNOWN) => Unanswered(at)
           /\ Leave(at, UNKNOWN) => Unanswered(at)
           /\ Finish(at, 0) => Answered(at, 0)
           /\ Finish(at, ERROR) => Answered(at, ERROR)
  BY DEF Finish, Leave, Unanswered, Answered, UNKNOWN, ERROR

LEMMA YieldEffect ==
    ASSUME TypeOK, Yield \/ \E timeout \in 0 .. MAX_TIMEOUT : Usleep(timeout)
    PROVE  /\ May("yield") \/ May("usleep")
           /\ Only(pcb_curr) /\ pcb_curr' = pcb_curr
           /\ SameContext(pcb'[pcb_curr], Curr)
           /\ pcb'[pcb_curr].state \in {"READY", "SLEEP"}
           /\ pcb'[pcb_curr].blocked = Curr.blocked
           /\ SameMemory /\ UNCHANGED queues
           /\ Answered("sched", 0)
<1>1. pcb \in [Pid -> PCB] /\ pcb_curr \in Pid /\ Curr = pcb[pcb_curr]
  BY DEF TypeOK, Curr
<1>2. CASE Yield
  BY <1>1, <1>2, EndsCall DEF Yield, Only, SameContext, SamePlace, SameMemory, PCB
<1>3. ASSUME NEW timeout \in 0 .. MAX_TIMEOUT, Usleep(timeout)
      PROVE  /\ May("usleep") /\ pcb_curr' = pcb_curr
             /\ Only(pcb_curr) /\ SameContext(pcb'[pcb_curr], Curr)
             /\ pcb'[pcb_curr].state = "SLEEP" /\ pcb'[pcb_curr].blocked = Curr.blocked
             /\ SameMemory /\ UNCHANGED queues /\ Answered("sched", 0)
  <2> DEFINE p == [Curr EXCEPT !.state = "SLEEP", !.timer = timeout]
  <2>1. p.state = "SLEEP" /\ p.blocked = Curr.blocked /\ SameContext(p, Curr)
    BY <1>1 DEF SameContext, SamePlace, PCB
  <2>2. pcb' = [pcb EXCEPT ![pcb_curr] = p]
    BY <1>1, <1>3 DEF Usleep
  <2> HIDE DEF p
  <2> QED
    BY <1>1, <1>3, <2>1, <2>2, EndsCall DEF Usleep, Only, SameMemory
<1> QED
  BY <1>2, <1>3

\* The calls that go no further than entering the kernel.
LEMMA EnterEffect ==
    ASSUME TypeOK, Exec \/ Exit \/ Ps
    PROVE  /\ SameProcs /\ UNCHANGED <<queues, saved_r0, system_frame_table, text_map>>
           /\ sys'.caller = pcb_curr /\ sys'.sp = Curr.stack_pointer /\ sys'.result = UNKNOWN
           /\ \/ Exec /\ sys'.at = "exec"
              \/ Exit /\ sys'.at = "exit"
              \/ Ps /\ sys'.at = "ps" /\ UNCHANGED tables
  BY DEF Exec, Exit, Ps, Enter, SameProcs, procs, tables

\* fork has given slot c two free frames.
Spawned(c, text, stack) ==
    /\ ~Used(c) /\ text \notin system_frame_table /\ stack \notin system_frame_table
    /\ text # stack
    /\ Only(c) /\ pcb_curr' = pcb_curr
    /\ pcb'[c].text_frame = text /\ pcb'[c].stack_frame = stack
    /\ pcb'[c].virtual_stack_frame = Curr.stack_frame
    /\ pcb'[c].stack_pointer = [section |-> stack, level |-> 0]
    /\ pcb'[c].signal_handler = {}
    /\ pcb'[c].state = pcb[c].state /\ pcb'[c].prev_state = pcb[c].prev_state
    /\ pcb'[c].parent_pid = pcb[c].parent_pid /\ pcb'[c].blocked = pcb[c].blocked
    /\ system_page_table' =
          ProcFrameWriteEnable(ProcFrameWriteEnable(system_page_table, pcb'[c]), Curr)
    /\ system_frame_table' = system_frame_table \cup {text, stack}
    /\ UNCHANGED <<queues, text_map, saved_r0>>
    /\ sys' = [at |-> "fork", caller |-> pcb_curr, sp |-> Curr.stack_pointer,
               arg |-> c, result |-> UNKNOWN]

LEMMA ForkEffect ==
    ASSUME TypeOK, Fork, Alive'
    PROVE  \/ SameProcs /\ SameMemory /\ UNCHANGED queues /\ Answered("ret", ERROR)
           \/ \E c \in Pid, text, stack \in Frame : Spawned(c, text, stack)
<1>1. pcb \in [Pid -> PCB] /\ pcb_curr \in Pid
  BY DEF TypeOK
<1>2. CASE Finish("ret", ERROR) /\ UNCHANGED <<procs, queues, tables, saved_r0, rx_size>>
  BY <1>2, EndsCall DEF SameProcs, SameMemory, procs
<1>3. CASE Crash(system_page_table)
  BY <1>3, FrameCrash
<1>4. ASSUME NEW c \in Pid, ~Used(c), NEW text \in Frame, NEW stack \in Frame,
             IsFirstFree(text, system_frame_table),
             IsFirstFree(stack, system_frame_table \cup {text}),
             NEW child,
             child = [pcb[c] EXCEPT
                  !.text_frame = text, !.stack_frame = stack,
                  !.virtual_stack_frame = Curr.stack_frame,
                  !.stack_pointer = [section |-> stack, level |-> 0],
                  !.signal_handler = {}],
             pcb' = [pcb EXCEPT ![c] = child],
             system_page_table' =
                ProcFrameWriteEnable(ProcFrameWriteEnable(system_page_table, child), Curr),
             system_frame_table' = system_frame_table \cup {text, stack},
             UNCHANGED <<pcb_curr, queues, text_map, saved_r0, rx_size>>,
             Enter("fork", c)
      PROVE  Spawned(c, text, stack)
  <2>1. pcb'[c] = child /\ Only(c)
    BY <1>1, <1>4 DEF Only
  <2>2. pcb[c] \in PCB
    BY <1>1
  <2>3. /\ child.text_frame = text /\ child.stack_frame = stack
        /\ child.virtual_stack_frame = Curr.stack_frame
        /\ child.stack_pointer = [section |-> stack, level |-> 0]
        /\ child.signal_handler = {}
        /\ child.state = pcb[c].state /\ child.prev_state = pcb[c].prev_state
        /\ child.parent_pid = pcb[c].parent_pid /\ child.blocked = pcb[c].blocked
    BY <1>4, <2>2 DEF PCB
  <2>4. text \notin system_frame_table /\ stack \notin system_frame_table /\ text # stack
    BY <1>4 DEF IsFirstFree
  <2> QED
    BY <1>4, <2>1, <2>3, <2>4 DEF Enter, Spawned
<1> QED
  BY <1>2, <1>3, <1>4 DEF Fork

LEMMA ForkCopyEffect ==
    ASSUME TypeOK, ForkCopy, Alive'
    PROVE  /\ sys.arg \in Pid /\ Only(sys.arg) /\ pcb_curr' = pcb_curr
           /\ pcb'[sys.arg].text_frame = pcb[sys.arg].text_frame
           /\ pcb'[sys.arg].stack_frame = pcb[sys.arg].stack_frame
           /\ pcb'[sys.arg].virtual_stack_frame = pcb[sys.arg].virtual_stack_frame
           /\ pcb'[sys.arg].signal_handler = pcb[sys.arg].signal_handler
           /\ pcb'[sys.arg].stack_pointer = Curr.stack_pointer
           /\ pcb'[sys.arg].parent_pid = pcb_curr
           /\ pcb'[sys.arg].state = "READY"
           /\ saved_r0' = Write([saved_r0 EXCEPT ![pcb[sys.arg].stack_frame]
                                                = saved_r0[Curr.stack_frame]],
                                system_page_table,
                                [Curr.stack_pointer EXCEPT !.section = ChildSection(pcb[sys.arg])],
                                0)
           /\ system_page_table' = ProcFrameWriteDisable(system_page_table, pcb[sys.arg])
           /\ UNCHANGED <<queues, system_frame_table, text_map>>
           /\ sys' = [sys EXCEPT !.at = "ret", !.result = sys.arg]
<1>1. pcb \in [Pid -> PCB] /\ pcb_curr \in Pid /\ sys.at = "fork" /\ sys.arg \in Pid
  BY DEF TypeOK, ForkCopy
<1>2. pcb[sys.arg] \in PCB
  BY <1>1
<1>3. sys.arg # UNKNOWN
  BY <1>1 DEF Pid, UNKNOWN
<1>4. CASE Crash(system_page_table)
  BY <1>4, FrameCrash
<1>5. CASE /\ saved_r0' = Write([saved_r0 EXCEPT ![pcb[sys.arg].stack_frame]
                                                = saved_r0[Curr.stack_frame]],
                                system_page_table,
                                [Curr.stack_pointer EXCEPT !.section = ChildSection(pcb[sys.arg])],
                                0)
           /\ pcb' = [pcb EXCEPT ![sys.arg] = Forked(pcb[sys.arg])]
           /\ system_page_table' = ProcFrameWriteDisable(system_page_table, pcb[sys.arg])
           /\ Leave("ret", sys.arg)
           /\ UNCHANGED <<pcb_curr, queues, system_frame_table, text_map, rx_size>>
  <2>1. pcb'[sys.arg] = Forked(pcb[sys.arg]) /\ Only(sys.arg)
    BY <1>1, <1>5 DEF Only
  <2>2. sys' = [sys EXCEPT !.at = "ret", !.result = sys.arg]
    BY <1>3, <1>5 DEF Leave
  <2> QED
    BY <1>1, <1>2, <1>5, <2>1, <2>2 DEF Forked, PCB
<1> QED
  BY <1>4, <1>5 DEF ForkCopy

LEMMA ExecEffect ==
    ASSUME TypeOK, ExecDone
    PROVE  /\ Only(pcb_curr) /\ pcb_curr' = pcb_curr
           /\ pcb'[pcb_curr].text_frame = Curr.text_frame
           /\ pcb'[pcb_curr].stack_frame = Curr.stack_frame
           /\ pcb'[pcb_curr].virtual_stack_frame = Curr.stack_frame
           /\ pcb'[pcb_curr].argv = Curr.stack_frame
           /\ pcb'[pcb_curr].stack_pointer = [section |-> Curr.stack_frame, level |-> 0]
           /\ pcb'[pcb_curr].parent_pid = Curr.parent_pid
           /\ pcb'[pcb_curr].state = "READY"
           /\ UNCHANGED <<queues, tables>>
           /\ saved_r0' = Blank(Curr.stack_frame)
           /\ sys.at = "exec" /\ Unanswered("ret")
<1>1. pcb \in [Pid -> PCB] /\ pcb_curr \in Pid /\ Curr = pcb[pcb_curr]
  BY DEF TypeOK, Curr
<1>2. Curr \in PCB
  BY <1>1
<1>3. pcb'[pcb_curr] = Execed(Curr) /\ Only(pcb_curr)
  BY <1>1 DEF ExecDone, Only
<1>4. /\ Execed(Curr).text_frame = Curr.text_frame
      /\ Execed(Curr).stack_frame = Curr.stack_frame
      /\ Execed(Curr).virtual_stack_frame = Curr.stack_frame
      /\ Execed(Curr).argv = Curr.stack_frame
      /\ Execed(Curr).stack_pointer = [section |-> Curr.stack_frame, level |-> 0]
      /\ Execed(Curr).parent_pid = Curr.parent_pid
      /\ Execed(Curr).state = "READY"
  BY <1>2 DEF Execed, PCB
<1> QED
  BY <1>3, <1>4, EndsCall DEF ExecDone

LEMMA WaitEffect ==
    ASSUME TypeOK, Wait
    PROVE  /\ May("wait") /\ pcb_curr' = pcb_curr /\ SameMemory /\ UNCHANGED read_queue
           /\ \/ \E slot \in Pid :
                   /\ wait_queue[slot] = NoPid
                   /\ wait_queue' = [wait_queue EXCEPT ![slot] = pcb_curr]
                   /\ Only(pcb_curr) /\ SameContext(pcb'[pcb_curr], Curr)
                   /\ pcb'[pcb_curr].state = "BLOCKED" /\ pcb'[pcb_curr].blocked = "WAIT"
                   /\ Unanswered("sched")
              \/ SameProcs /\ UNCHANGED wait_queue /\ Unanswered("ret")
<1>1. pcb \in [Pid -> PCB] /\ pcb_curr \in Pid /\ Curr = pcb[pcb_curr]
  BY DEF TypeOK, Curr
<1> DEFINE p == [Curr EXCEPT !.state = "BLOCKED", !.blocked = "WAIT"]
<1>2. p.state = "BLOCKED" /\ p.blocked = "WAIT" /\ SameContext(p, Curr)
  BY <1>1 DEF SameContext, SamePlace, PCB
<1>3. pcb' = [pcb EXCEPT ![pcb_curr] = p] =>
        /\ Only(pcb_curr) /\ SameContext(pcb'[pcb_curr], Curr)
        /\ pcb'[pcb_curr].state = "BLOCKED" /\ pcb'[pcb_curr].blocked = "WAIT"
  <2> HIDE DEF p
  <2> QED
    BY <1>1, <1>2 DEF Only
<1>4. [pcb EXCEPT ![pcb_curr].state = "BLOCKED", ![pcb_curr].blocked = "WAIT"]
        = [pcb EXCEPT ![pcb_curr] = p]
  BY <1>1
<1> HIDE DEF p
<1> QED
  BY <1>3, <1>4, EndsCall DEF Wait, IsFirst, SameMemory, SameProcs

LEMMA SignalReturnEffect ==
    ASSUME TypeOK, SignalReturn
    PROVE  /\ Curr.state = "SIGNAL" /\ May("exit")
           /\ Only(pcb_curr) /\ pcb_curr' = pcb_curr
           /\ SamePlace(pcb'[pcb_curr], Curr)
           /\ pcb'[pcb_curr].state = Curr.prev_state
           /\ pcb'[pcb_curr].prev_state = Curr.prev_state
           /\ pcb'[pcb_curr].stack_pointer = Curr.prev_stack_pointer
           /\ pcb'[pcb_curr].prev_stack_pointer = Curr.prev_stack_pointer
           /\ pcb'[pcb_curr].blocked = Curr.blocked
           /\ pcb'[pcb_curr].signal_handler = Curr.signal_handler
           /\ SameMemory /\ UNCHANGED queues /\ Unanswered("sched")
<1>1. pcb \in [Pid -> PCB] /\ pcb_curr \in Pid /\ Curr = pcb[pcb_curr]
  BY DEF TypeOK, Curr
<1>2. Curr \in PCB
  BY <1>1
<1>3. pcb'[pcb_curr] = SignalReturned(Curr) /\ Only(pcb_curr)
  BY <1>1 DEF SignalReturn, Only
<1>4. /\ SamePlace(SignalReturned(Curr), Curr)
      /\ SignalReturned(Curr).state = Curr.prev_state
      /\ SignalReturned(Curr).prev_state = Curr.prev_state
      /\ SignalReturned(Curr).stack_pointer = Curr.prev_stack_pointer
      /\ SignalReturned(Curr).prev_stack_pointer = Curr.prev_stack_pointer
      /\ SignalReturned(Curr).blocked = Curr.blocked
      /\ SignalReturned(Curr).signal_handler = Curr.signal_handler
  BY <1>2 DEF SignalReturned, SamePlace, PCB
<1> QED
  BY <1>3, <1>4, EndsCall DEF SignalReturn, SameMemory

LEMMA SignalEffect ==
    ASSUME TypeOK, NEW sig \in SIGNALS, NEW on \in BOOLEAN, Signal(sig, on)
    PROVE  /\ May("signal") /\ Only(pcb_curr) /\ pcb_curr' = pcb_curr
           /\ SamePlace(pcb'[pcb_curr], Curr)
           /\ pcb'[pcb_curr].state = Curr.state /\ pcb'[pcb_curr].prev_state = Curr.prev_state
           /\ pcb'[pcb_curr].stack_pointer = Curr.stack_pointer
           /\ pcb'[pcb_curr].prev_stack_pointer = Curr.prev_stack_pointer
           /\ pcb'[pcb_curr].blocked = Curr.blocked
           /\ SameMemory /\ UNCHANGED queues /\ Unanswered("ret")
<1>1. pcb \in [Pid -> PCB] /\ pcb_curr \in Pid /\ Curr = pcb[pcb_curr]
  BY DEF TypeOK, Curr
<1>2. Curr \in PCB
  BY <1>1
<1> DEFINE h == IF on THEN Curr.signal_handler \cup {sig} ELSE Curr.signal_handler \ {sig}
<1>3. pcb' = [pcb EXCEPT ![pcb_curr] = [Curr EXCEPT !.signal_handler = h]]
  BY <1>1 DEF Signal
<1> HIDE DEF h
<1>4. pcb'[pcb_curr] = [Curr EXCEPT !.signal_handler = h] /\ Only(pcb_curr)
  BY <1>1, <1>3 DEF Only
<1> QED
  BY <1>2, <1>4, EndsCall DEF Signal, SamePlace, SameMemory, PCB

\* Process k, in state s before, has a signal frame put on its stack.
Interrupted(k, s) ==
    /\ SamePlace(pcb'[k], pcb[k])
    /\ pcb'[k].state = "SIGNAL"
    /\ pcb'[k].prev_state = IF s = "RUNNING" THEN "READY" ELSE s
    /\ pcb'[k].prev_stack_pointer = pcb[k].stack_pointer
    /\ pcb'[k].stack_pointer.section = pcb[k].stack_pointer.section
    /\ pcb'[k].stack_pointer.level = pcb[k].stack_pointer.level + 1
    /\ pcb'[k].blocked = pcb[k].blocked
    /\ pcb'[k].signal_handler = pcb[k].signal_handler

LEMMA RaiseEffect ==
    ASSUME TypeOK, NEW sig \in SIGNALS, Raise(sig)
    PROVE  /\ May("raise") /\ pcb_curr' = pcb_curr /\ SameMemory /\ UNCHANGED queues
           /\ \/ Only(pcb_curr) /\ Interrupted(pcb_curr, Curr.state) /\ Answered("ret", 0)
              \/ SameProcs /\ Answered("ret", ERROR)
<1>1. pcb \in [Pid -> PCB] /\ pcb_curr \in Pid /\ Curr = pcb[pcb_curr]
  BY DEF TypeOK, Curr
<1>2. Curr \in PCB /\ Curr.stack_pointer \in Pointer
  BY <1>1 DEF PCB
<1>3. CASE pcb' = pcb /\ Finish("ret", ERROR)
  BY <1>3, EndsCall DEF Raise, SameProcs, SameMemory
<1>4. CASE pcb' = [pcb EXCEPT ![pcb_curr] = Raised(Curr)] /\ Finish("ret", 0)
  <2>1. pcb'[pcb_curr] = Raised(Curr) /\ Only(pcb_curr)
    BY <1>1, <1>4 DEF Only
  <2>2. Interrupted(pcb_curr, Curr.state)
    BY <1>1, <1>2, <2>1 DEF Raised, Interrupted, SamePlace, PCB, Pointer
  <2> QED
    BY <1>4, <2>1, <2>2, EndsCall DEF Raise, SameMemory
<1> QED
  BY <1>3, <1>4 DEF Raise

\* kill makes its target current, and the caller READY ...
Handed(pid) ==
    /\ pcb_curr' = pid
    /\ \A i \in Pid \ {pid, pcb_curr} : pcb'[i] = pcb[i]
    /\ pid # pcb_curr => /\ SameContext(pcb'[pcb_curr], Curr)
                         /\ pcb'[pcb_curr].blocked = Curr.blocked
                         /\ pcb'[pcb_curr].state = "READY"
    /\ system_page_table' = ProcFrameMap(system_page_table, pcb[pid])
    /\ text_map' = pcb[pid].text_frame
    /\ UNCHANGED <<queues, system_frame_table, saved_r0>>

LEMMA KillEffect ==
    ASSUME TypeOK, NEW pid \in Pid, NEW sig \in SIGNALS, Kill(pid, sig), Alive'
    PROVE  \/ SameProcs /\ SameMemory /\ UNCHANGED queues /\ Answered("ret", ERROR)
           \* ... whether it has a handler
           \/ /\ Used(pid) /\ sig \in pcb[pid].signal_handler /\ Handed(pid)
              /\ Interrupted(pid, IF pid = pcb_curr THEN "READY" ELSE pcb[pid].state)
              /\ Answered("ret", 0)
           \* ... or not.
           \/ /\ Used(pid) /\ ~SignalsHandled /\ Handed(pid)
              /\ SameContext(pcb'[pid], pcb[pid]) /\ pcb'[pid].blocked = pcb[pid].blocked
              /\ pcb'[pid].state = IF pid = pcb_curr THEN "READY" ELSE pcb[pid].state
              /\ Answered("ret", ERROR)
<1>1. pcb \in [Pid -> PCB] /\ pcb_curr \in Pid /\ Curr = pcb[pcb_curr]
  BY DEF TypeOK, Curr
<1>2. sig \notin pcb[pid].signal_handler => ~SignalsHandled
  BY DEF Kill, May, SignalsHandled
<1> DEFINE ready == [Curr EXCEPT !.state = "READY"]
           yielded == [pcb EXCEPT ![pcb_curr] = ready]
           table == ProcFrameMap(system_page_table, pcb[pid])
           mapped == /\ pcb_curr' = pid /\ system_page_table' = table
                     /\ text_map' = pcb[pid].text_frame
                     /\ UNCHANGED <<queues, system_frame_table, saved_r0, rx_size>>
<1>3. ready \in PCB
  BY <1>1 DEF PCB, State
<1>4. /\ SameContext(ready, Curr) /\ ready.blocked = Curr.blocked /\ ready.state = "READY"
  BY <1>1 DEF PCB, SameContext, SamePlace
<1>5. [pcb EXCEPT ![pcb_curr].state = "READY"] = yielded
  BY <1>1
<1> HIDE DEF ready
<1>6. (\A i \in Pid : yielded[i] = IF i = pcb_curr THEN ready ELSE pcb[i]) /\ DOMAIN yielded = Pid
  BY <1>1
<1>7. \/ Crash(table)
      \/ Finish("ret", ERROR) /\ UNCHANGED <<procs, tables, queues, saved_r0, rx_size>>
      \/ /\ Used(pid) /\ sig \in pcb[pid].signal_handler
         /\ pcb' = [yielded EXCEPT ![pid] = Raised(yielded[pid])] /\ mapped /\ Finish("ret", 0)
      \/ /\ Used(pid) /\ sig \notin pcb[pid].signal_handler
         /\ pcb' = yielded /\ mapped /\ Finish("ret", ERROR)
  BY <1>5 DEF Kill
<1>8. CASE Crash(table)
  BY <1>8, FrameCrash
<1>9. CASE Finish("ret", ERROR) /\ UNCHANGED <<procs, tables, queues, saved_r0, rx_size>>
  BY <1>9, EndsCall DEF SameProcs, SameMemory, procs
<1>10. CASE /\ Used(pid) /\ sig \in pcb[pid].signal_handler
            /\ pcb' = [yielded EXCEPT ![pid] = Raised(yielded[pid])] /\ mapped
            /\ Finish("ret", 0)
  <2> DEFINE y == yielded[pid]
  <2>1. y \in PCB /\ y.stack_pointer \in Pointer
    BY <1>1, <1>3, <1>6 DEF PCB
  <2>2. /\ SamePlace(y, pcb[pid]) /\ y.stack_pointer = pcb[pid].stack_pointer
        /\ y.blocked = pcb[pid].blocked /\ y.signal_handler = pcb[pid].signal_handler
        /\ y.state = IF pid = pcb_curr THEN "READY" ELSE pcb[pid].state
    BY <1>1, <1>4, <1>6 DEF SamePlace, SameContext
  <2>3. \A i \in Pid : pcb'[i] = IF i = pid THEN Raised(y) ELSE yielded[i]
    BY <1>6, <1>10
  <2> HIDE DEF y, yielded
  <2>4. /\ SamePlace(Raised(y), y) /\ Raised(y).state = "SIGNAL"
        /\ Raised(y).prev_state = IF y.state = "RUNNING" THEN "READY" ELSE y.state
        /\ Raised(y).prev_stack_pointer = y.stack_pointer
        /\ Raised(y).stack_pointer.section = y.stack_pointer.section
        /\ Raised(y).stack_pointer.level = y.stack_pointer.level + 1
        /\ Raised(y).blocked = y.blocked /\ Raised(y).signal_handler = y.signal_handler
    BY <2>1 DEF Raised, PCB, Pointer, SamePlace
  <2>5. Interrupted(pid, IF pid = pcb_curr THEN "READY" ELSE pcb[pid].state)
    BY <2>2, <2>3, <2>4 DEF Interrupted, SamePlace
  <2>6. Handed(pid)
    BY <1>1, <1>4, <1>6, <1>10, <2>3 DEF Handed
  <2> QED
    BY <1>10, <2>5, <2>6, EndsCall
<1>11. CASE /\ Used(pid) /\ sig \notin pcb[pid].signal_handler
            /\ pcb' = yielded /\ mapped /\ Finish("ret", ERROR)
  <2>1. \A i \in Pid : pcb'[i] = IF i = pcb_curr THEN ready ELSE pcb[i]
    BY <1>6, <1>11
  <2>2. /\ SameContext(pcb'[pid], pcb[pid]) /\ pcb'[pid].blocked = pcb[pid].blocked
        /\ pcb'[pid].state = IF pid = pcb_curr THEN "READY" ELSE pcb[pid].state
    BY <1>1, <1>4, <2>1 DEF SameContext, SamePlace
  <2>3. Handed(pid)
    BY <1>1, <1>4, <1>11, <2>1 DEF Handed
  <2> QED
    BY <1>2, <1>11, <2>2, <2>3, EndsCall
<1> QED
  BY <1>7, <1>8, <1>9, <1>10, <1>11

LEMMA ReadEffect ==
    ASSUME TypeOK, NEW len \in RxSize \ {0}, Read(len)
    PROVE  /\ May("read") /\ SameProcs /\ SameMemory /\ UNCHANGED queues
           /\ \/ Answered("ret", len)
              \/ sys' = [at |-> "read", caller |-> pcb_curr, sp |-> Curr.stack_pointer,
                         arg |-> len, result |-> UNKNOWN]
<1>1. len # UNKNOWN
  BY DEF RxSize, UNKNOWN
<1> QED
  BY <1>1 DEF Read, SameProcs, SameMemory, procs, Finish, Enter, Answered

LEMMA ScheduleEffect ==
    ASSUME TypeOK, Schedule
    PROVE  /\ sys.at = "sched" /\ sys' = [sys EXCEPT !.at = "ret"]
           /\ pcb_curr' \in Pid /\ Only(pcb_curr')
           /\ pcb[pcb_curr'].state \in {"READY", "SLEEP"}
           /\ SameContext(pcb'[pcb_curr'], pcb[pcb_curr'])
           /\ pcb'[pcb_curr'].blocked = pcb[pcb_curr'].blocked
           /\ pcb'[pcb_curr'].state \in {"READY", "RUNNING"}
           /\ SameMemory /\ UNCHANGED queues
<1> USE KernelAssumption
<1>1. pcb \in [Pid -> PCB] /\ pcb_curr \in Pid
  BY DEF TypeOK
<1>2. PICK k \in 1 .. MAX_PROCESSES :
        /\ Runnable(pcb[After(k)])
        /\ pcb' = [pcb EXCEPT ![After(k)] = Picked(pcb[After(k)])]
        /\ pcb_curr' = After(k)
  BY DEF Schedule
<1>3. After(k) \in Pid
  BY <1>1 DEF After, Pid
<1>4. pcb[After(k)] \in PCB
  BY <1>1, <1>3
<1>5. /\ SameContext(Picked(pcb[After(k)]), pcb[After(k)])
      /\ Picked(pcb[After(k)]).blocked = pcb[After(k)].blocked
      /\ Picked(pcb[After(k)]).state \in {"READY", "RUNNING"}
  BY <1>4 DEF Picked, SameContext, SamePlace, PCB
<1>6. pcb'[After(k)] = Picked(pcb[After(k)]) /\ Only(After(k))
  BY <1>1, <1>2, <1>3 DEF Only
<1> QED
  BY <1>2, <1>3, <1>5, <1>6 DEF Schedule, Runnable, SameMemory

LEMMA ReturnEffect ==
    ASSUME TypeOK, Return, Alive'
    PROVE  /\ sys.at = "ret" /\ sys' = UserMode /\ SameProcs
           /\ UNCHANGED <<queues, system_frame_table>>
           /\ system_page_table' = ContextSwitchTable(system_page_table, UsedPcbs, Curr)
           /\ text_map' = Curr.text_frame
           /\ saved_r0' = Write(Stored(saved_r0), system_page_table', Curr.stack_pointer, UNKNOWN)
<1>1. \A t : Crash(t) => FALSE
  BY FrameCrash
<1> QED
  BY <1>1 DEF Return, SameProcs, procs

LEMMA ExitEffect ==
    ASSUME TypeOK, ExitDestroy, Owned
    PROVE  LET parent == Curr.parent_pid
               table == ProcFrameMap(system_page_table, pcb[parent])
           IN /\ sys.at = "exit" /\ Unanswered("sched")
              /\ pcb_curr' = pcb_curr /\ UNCHANGED read_queue
              /\ ~Used(pcb_curr)'
              /\ pcb'[pcb_curr].parent_pid = parent
              /\ system_frame_table' = system_frame_table \ Frames(Curr)
              /\ \/ /\ Waiting(parent) = {} /\ Only(pcb_curr)
                    /\ UNCHANGED <<wait_queue, system_page_table, text_map>>
                    /\ saved_r0' = Blank(Curr.stack_frame)
                 \/ /\ parent \in Pid \ {pcb_curr} /\ Used(parent)
                    /\ Waiting(parent) # {}
                    /\ \A i \in Pid \ {pcb_curr, parent} : pcb'[i] = pcb[i]
                    /\ SameContext(pcb'[parent], pcb[parent])
                    /\ pcb'[parent].state = "READY"
                    /\ wait_queue' = QueueWithout(Waiting(parent))
                    /\ system_page_table' = table
                    /\ text_map' = pcb[parent].text_frame
                    /\ saved_r0' = Write(Blank(Curr.stack_frame), table,
                                         pcb[parent].stack_pointer, pcb_curr)
<1> DEFINE parent == Curr.parent_pid
           gone == [pcb EXCEPT ![pcb_curr] = Destroyed(Curr)]
           table == ProcFrameMap(system_page_table, pcb[parent])
<1>1. pcb \in [Pid -> PCB] /\ pcb_curr \in Pid /\ Curr = pcb[pcb_curr]
  BY DEF TypeOK, Curr
<1>2. Curr \in PCB /\ Destroyed(Curr) \in PCB
  BY <1>1, PcbTypes
<1>3. /\ Destroyed(Curr).state = "UNUSED" /\ Destroyed(Curr).parent_pid = parent
      /\ Destroyed(Curr).stack_frame = 0
  BY <1>2 DEF Destroyed, PCB
<1>4. \A i \in Pid : gone[i] = IF i = pcb_curr THEN Destroyed(Curr) ELSE pcb[i]
  BY <1>1
<1>5. /\ sys.at = "exit" /\ Unanswered("sched") /\ pcb_curr' = pcb_curr /\ UNCHANGED read_queue
      /\ system_frame_table' = system_frame_table \ Frames(Curr)
  BY EndsCall DEF ExitDestroy, Deallocate
<1>6. CASE /\ Waiting(parent) = {} /\ pcb' = gone
           /\ UNCHANGED <<wait_queue, system_page_table, text_map>>
           /\ saved_r0' = Blank(Curr.stack_frame)
  <2>1. pcb'[pcb_curr] = Destroyed(Curr) /\ Only(pcb_curr)
    BY <1>1, <1>4, <1>6 DEF Only
  <2> HIDE DEF gone
  <2> QED
    BY <1>3, <1>5, <1>6, <2>1 DEF Used
<1>7. CASE /\ Waiting(parent) # {} /\ parent # NoPid /\ ~Dead(gone[parent])
           /\ pcb' = [gone EXCEPT ![parent] = Woken(gone[parent])]
           /\ wait_queue' = QueueWithout(Waiting(parent))
           /\ system_page_table' = table
           /\ text_map' = pcb[parent].text_frame
           /\ saved_r0' = Write(Blank(Curr.stack_frame), table, pcb[parent].stack_pointer, pcb_curr)
  <2>1. parent \in Pid
    BY <1>2, <1>7 DEF PCB
  <2>2. parent # pcb_curr
    BY <1>3, <1>4, <1>7, <2>1 DEF Dead
  <2>3. gone[parent] = pcb[parent]
    BY <1>4, <2>1, <2>2
  <2>4. Used(parent)
    BY <1>5, <1>7, <2>1, <2>3 DEF Owned, Holds
  <2>5. /\ SameContext(Woken(pcb[parent]), pcb[parent])
        /\ Woken(pcb[parent]).state = "READY"
    BY <1>1, <2>1 DEF Woken, SameContext, SamePlace, PCB
  <2>6. \A i \in Pid : pcb'[i] = IF i = parent THEN Woken(pcb[parent]) ELSE gone[i]
    BY <1>1, <1>7, <2>3
  <2>7. pcb'[pcb_curr] = Destroyed(Curr) /\ \A i \in Pid \ {pcb_curr, parent} : pcb'[i] = pcb[i]
    BY <1>1, <1>4, <2>2, <2>6
  <2> HIDE DEF gone
  <2> QED
    BY <1>3, <1>5, <1>7, <2>1, <2>2, <2>4, <2>5, <2>6, <2>7 DEF Used
<1>8. \/ /\ Waiting(parent) = {} /\ pcb' = gone
         /\ UNCHANGED <<wait_queue, system_page_table, text_map>>
         /\ saved_r0' = Blank(Curr.stack_frame)
      \/ /\ Waiting(parent) # {} /\ parent # NoPid /\ ~Dead(gone[parent])
         /\ pcb' = [gone EXCEPT ![parent] = Woken(gone[parent])]
         /\ wait_queue' = QueueWithout(Waiting(parent))
         /\ system_page_table' = table
         /\ text_map' = pcb[parent].text_frame
         /\ saved_r0' = Write(Blank(Curr.stack_frame), table, pcb[parent].stack_pointer, pcb_curr)
  BY DEF ExitDestroy
<1> QED
  BY <1>6, <1>7, <1>8

LEMMA ReadBlockEffect ==
    ASSUME TypeOK, ReadBlock
    PROVE  /\ sys.at = "block" /\ sys' = [sys EXCEPT !.at = "sched", !.result = ERROR]
           /\ Only(pcb_curr) /\ pcb_curr' = pcb_curr
           /\ SameContext(pcb'[pcb_curr], Curr)
           /\ pcb'[pcb_curr].state = "BLOCKED"
           /\ SameMemory /\ UNCHANGED queues
<1>1. pcb \in [Pid -> PCB] /\ pcb_curr \in Pid /\ Curr = pcb[pcb_curr]
  BY DEF TypeOK, Curr
<1> DEFINE p == [Curr EXCEPT !.state = "BLOCKED", !.blocked = "READ"]
<1>2. p.state = "BLOCKED" /\ SameContext(p, Curr)
  BY <1>1 DEF SameContext, SamePlace, PCB
<1>3. pcb' = [pcb EXCEPT ![pcb_curr] = p]
  BY <1>1 DEF ReadBlock
<1>4. sys' = [sys EXCEPT !.at = "sched", !.result = ERROR]
  BY DEF ReadBlock, Leave, ERROR, UNKNOWN
<1> HIDE DEF p
<1> QED
  BY <1>1, <1>2, <1>3, <1>4 DEF ReadBlock, Only, SameMemory

LEMMA PsStepEffect ==
    ASSUME TypeOK, PsStep, Alive'
    PROVE  /\ sys.at = "ps" /\ SameProcs
           /\ UNCHANGED <<queues, system_frame_table, saved_r0>>
           /\ sys' = [sys EXCEPT !.arg = @ + 1]
           /\ \/ UNCHANGED <<system_page_table, text_map>>
              \/ \E i \in Pid :
                    Used(i) /\ system_page_table' = ProcFrameMap(system_page_table, pcb[i])
<1>1. \A t : Crash(t) => FALSE
  BY FrameCrash
<1>2. sys.arg \in Pid
  BY KernelAssumption DEF PsStep, TypeOK, Pid
<1> QED
  BY <1>1, <1>2 DEF PsStep, SameProcs, procs

LEMMA ServeEffect ==
    ASSUME TypeOK, NEW i \in Pid, Serve(i), Alive'
    PROVE  LET k == read_queue[i].pid
               table == ProcFrameMap(system_page_table, pcb[k])
           IN /\ k \in Pid /\ ~Dead(pcb[k]) /\ ~Dead(Curr)
              /\ Only(k) /\ SameContext(pcb'[k], pcb[k]) /\ pcb'[k].state = "READY"
              /\ pcb_curr' = pcb_curr
              /\ system_page_table' = ProcFrameMap(table, Curr)
              /\ text_map' = Curr.text_frame
              /\ \E v : saved_r0' = Write(saved_r0, table, pcb[k].stack_pointer, v)
              /\ UNCHANGED <<queues, system_frame_table, sys>>
<1> DEFINE k == read_queue[i].pid
           table == ProcFrameMap(system_page_table, pcb[k])
<1>1. pcb \in [Pid -> PCB] /\ pcb_curr \in Pid
  BY DEF TypeOK
<1>2. k \in Pid
  BY DEF Serve, IsFirst, Satisfied, TypeOK, ReadTransaction
<1>3. \A t : Crash(t) => FALSE
  BY FrameCrash
<1>4. /\ ~Dead(pcb[k]) /\ ~Dead(Curr)
      /\ saved_r0' = Write(saved_r0, table, pcb[k].stack_pointer, read_queue[i].size)
      /\ pcb' = [pcb EXCEPT ![k] = Woken(pcb[k])]
      /\ system_page_table' = ProcFrameMap(table, Curr)
      /\ text_map' = Curr.text_frame
      /\ UNCHANGED <<pcb_curr, queues, system_frame_table, sys>>
  BY <1>3 DEF Serve, CrashUnmapped, QueueAfter, queues
<1>5. SameContext(Woken(pcb[k]), pcb[k]) /\ Woken(pcb[k]).state = "READY"
  BY <1>1, <1>2 DEF Woken, SameContext, SamePlace, PCB
<1>6. pcb'[k] = Woken(pcb[k]) /\ Only(k)
  <2> HIDE DEF k
  <2> QED
    BY <1>1, <1>2, <1>4 DEF Only
<1> HIDE DEF table
<1> QED
  BY <1>2, <1>4, <1>5, <1>6 DEF table

LEMMA TickEffect ==
    ASSUME TypeOK, Tick
    PROVE  /\ \A i \in Pid : /\ SameContext(pcb'[i], pcb[i])
                             /\ pcb'[i].state = pcb[i].state
                             /\ pcb'[i].blocked = pcb[i].blocked
           /\ pcb_curr' = pcb_curr /\ SameMemory /\ UNCHANGED <<queues, sys>>
<1>1. pcb \in [Pid -> PCB]
  BY DEF TypeOK
<1> QED
  BY <1>1 DEF Tick, SameContext, SamePlace, SameMemory, PCB

============================================================================
