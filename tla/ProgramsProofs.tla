--------------------------- MODULE ProgramsProofs ---------------------------
(***************************************************************************)
(* What holds of the programs on their kernel, for any number of process   *)
(* slots, commands, periods and descriptors: blink signals nobody but a    *)
(* blinkd that has registered its handler.                                 *)
(*                                                                         *)
(* The argument.  Until blinkd sleeps for the first time (Orderly) process *)
(* 0 is init, 1 the shell, 2 the command and 3 what blink has started:     *)
(* nobody forks but for the next one, which runs as soon as its parent     *)
(* stops, and by the r0 of fork both learn who they are (Family).  So the  *)
(* pid that blink leaves in its file is 3, and while blink can look at it  *)
(* process 3 is gone: the shell starts no command before the last one has  *)
(* ended, and blinkd runs until it sleeps or ends.  From its first sleep   *)
(* on (Serving) process 3 is a blinkd with its handler: nobody ends it,    *)
(* nobody forks another, and who else runs makes no difference.            *)
(***************************************************************************)
EXTENDS Programs, KernelHabitsProofs

\* A slot for init, the shell, a command and what it starts; room for the byte
\* the shell reads; and nobody types the name of a shell or of blinkd itself.
Sizes ==
    /\ MAX_PROCESSES > 3 /\ UART_RX_BUFFER_SIZE > 1
    /\ OTHERS \cap {"shell", "blinkd"} = {}

----------------------------------------------------------------------------
(* The types. *)

Names == {"init", "shell", "blinkd"} \cup INSTALLED \cup OTHERS
Points == {"start", "forked", "execed", "got", "waited", "listed", "killed", "handles",
           "slept", "gone"}

Command == [name : Names, period : Nat]
Program == [prog : Names, pc : Points, r0 : Int, cmd : Command,
            read_ready : BOOLEAN, period : Nat]

ProgramsType ==
    /\ mem \in [Pid -> Program]
    /\ io \in [words : Words, pid : Int, period : Nat]

----------------------------------------------------------------------------
(* Until blinkd blinks: the processes are 0, init; 1, the shell; 2, the     *)
(* command; 3, what blink has started.  Each is forked by the one before.   *)

\* The program that forks process p + 1.
Prog(p) == IF p = 0 THEN "init" ELSE IF p = 1 THEN "shell" ELSE "blink"

Stands(i, prog, pcs) == mem[i].prog = prog /\ mem[i].pc \in pcs
IsParent(p) == Stands(p, Prog(p), {"forked"})
IsChild(k) == Stands(k, Prog(k - 1), {"forked"})

\* A result that is stored on the way to user mode does not go to a frame.
Misses(f) ==
    sys.at \in {"sched", "ret"} /\ sys.result # UNKNOWN => system_page_table[sys.sp.section] # f

\* A child that has not run: it will find 0, and whoever forked it is current.
Fresh(k) == pcb[k].state = "READY" /\ IsChild(k) /\ ResumeR0(k) = 0 /\ Misses(pcb[k].stack_frame)

\* Who is there, and where in its program.
Role(i) ==
    \/ i = 0 /\ Stands(0, "init", {"start", "forked", "execed"})
    \/ i = 1 /\ Stands(1, "init", {"forked", "execed"})
    \/ i = 1 /\ Stands(1, "shell", {"start", "got", "forked", "waited"})
    \/ i = 2 /\ Stands(2, "shell", {"forked", "execed"})
    \/ i = 2 /\ mem[2].prog \in {"echo", "ps", "blink"} /\ mem[2].pc \in {"start", "listed", "killed"}
    \/ i = 2 /\ Stands(2, "blink", {"forked"})
    \/ i = 3 /\ Stands(3, "blink", {"forked", "execed"})
    \/ i = 3 /\ Stands(3, "blinkd", {"start"})
    \/ i = 3 /\ Stands(3, "blinkd", {"handles"}) /\ SIGUSR1 \in pcb[3].signal_handler
    \/ i \in {2, 3} /\ mem[i].pc = "gone"

Cast ==
    /\ pcb_curr \in 0 .. 3
    /\ \A i \in Pid : pcb[i].state # "SIGNAL" /\ (Used(i) => i <= 3 /\ Role(i))
    /\ Used(0)
    /\ Used(1) => mem[0].pc # "start"
    /\ Used(2) => Used(1) /\ pcb_curr \in {1, 2} /\ pcb[2].parent_pid = 1
    /\ Used(3) => Used(1) /\ pcb_curr \in {2, 3} /\ pcb[3].parent_pid = 2

\* What the call in progress is for.
Errand ==
    /\ sys.at = "exec" => pcb_curr # 0 /\ Stands(pcb_curr, Prog(pcb_curr - 1), {"execed"})
    /\ sys.at = "exit" => pcb_curr \in {2, 3} /\ mem[pcb_curr].pc = "gone"
    /\ sys.at \in {"read", "block"} => Stands(pcb_curr, "shell", {"got"})
    /\ sys.at = "ps" => Stands(pcb_curr, "ps", {"listed"})
    /\ sys.at = "sched" /\ pcb_curr \in {2, 3} => ~Used(pcb_curr)
    /\ sys.at = "fork" =>
         /\ pcb_curr # 3 /\ IsParent(pcb_curr) /\ sys.arg = pcb_curr + 1 /\ ~Used(sys.arg)
         /\ sys.sp = Curr.stack_pointer
         /\ pcb[sys.arg].virtual_stack_frame = Curr.stack_frame

\* A parent learns its child's pid ...
Parent(p) ==
    Used(p) /\ IsParent(p) =>
      /\ pcb_curr = p /\ sys.at \in {"fork", "ret", "user"}
      /\ sys.at # "fork" => Used(p + 1)
      /\ sys.at = "ret" => /\ sys.result = p + 1 /\ sys.sp = Curr.stack_pointer
                           /\ system_page_table[sys.sp.section] = Curr.stack_frame
      /\ sys.at = "user" => mem[p].r0 = p + 1

\* ... the child runs as soon as its parent stops ...
Waiter(k) ==
    Used(k) /\ pcb_curr = k - 1 =>
      \/ k = 1 /\ ~IsChild(k)
      \/ Fresh(k) /\ (IsParent(k - 1) \/ sys.at \in {"sched", "exit"})

\* ... and learns that it is the child.
Child(k) ==
    Used(k) /\ IsChild(k) /\ pcb_curr # k - 1 =>
      /\ pcb_curr = k /\ sys.at \in {"ret", "user"}
      /\ sys.at = "ret" => ResumeR0(k) = 0 /\ Misses(pcb[k].stack_frame)
      /\ sys.at = "user" => mem[k].r0 = 0

Family ==
    /\ \A p \in 0 .. 2 : Parent(p)
    /\ \A k \in 1 .. 3 : Waiter(k) /\ Child(k)

\* Where stacks are.
Stacks ==
    /\ sys.at = "user" => system_page_table[Curr.virtual_stack_frame] = Curr.stack_frame
    /\ \A i \in Pid : Used(i) => pcb[i].stack_pointer.section = pcb[i].virtual_stack_frame
    /\ \A p \in 0 .. 2 : Used(p) /\ mem[p].prog = Prog(p) => ~Unexeced(pcb[p])

\* Only the shell waits, and reads.
Queues ==
    /\ \A s \in Pid : wait_queue[s] # NoPid =>
         wait_queue[s] = 1 /\ Used(2) /\ (pcb_curr = 2 \/ sys.at = "sched")
    /\ \A s \in Pid : read_queue[s].pid # NoPid =>
         read_queue[s].pid = 1 /\ Used(1) /\ mem[1].prog = "shell"

\* blink.io, and what is to be executed.
Notes ==
    /\ io.words > 0 => io.pid = 3
    /\ Used(3) => io.words > 0 \/ IsParent(2)
    /\ \A i \in Pid : Stands(i, "blink", {"forked"}) => Used(i)
    /\ Used(1) /\ Stands(1, "init", {"execed"}) => mem[1].cmd.name = "shell"
    /\ Used(1) /\ Stands(1, "shell", {"forked"}) => mem[1].cmd.name \in INSTALLED \cup OTHERS
    /\ Used(2) /\ Stands(2, "shell", {"forked", "execed"}) => mem[2].cmd.name \in INSTALLED \cup OTHERS
    /\ Used(3) /\ Stands(3, "blink", {"execed"}) => mem[3].cmd.name = "blinkd"

Orderly == Cast /\ Errand /\ Family /\ Stacks /\ Queues /\ Notes

\* blinkd blinks, and nothing takes its place.
Serving ==
    /\ io.words > 0 /\ io.pid = 3
    /\ Used(3) /\ Stands(3, "blinkd", {"slept"}) /\ SIGUSR1 \in pcb[3].signal_handler
    /\ sys.at \in {"exec", "exit"} => pcb_curr # 3
    /\ sys.at = "fork" => sys.arg # 3
    /\ \A i \in Pid : ~Stands(i, "blink", {"forked"})

ProgramsInv == Alive => Orderly \/ Serving

----------------------------------------------------------------------------
(* What every step does to the programs. *)

LEMMA Numbers ==
    ASSUME Sizes
    PROVE  /\ 0 \in Pid /\ 1 \in Pid /\ 2 \in Pid /\ 3 \in Pid /\ NoPid \notin Pid
           /\ \A i \in 0 .. 3 : i \in Pid
           /\ SIGUSR1 \in SIGNALS /\ 1 \in RxSize \ {0}
           /\ 0 \in 0 .. MAX_TIMEOUT /\ MAX_TIMEOUT \in 0 .. MAX_TIMEOUT
<1> USE KernelAssumption
<1>1. SIGUSR1 \in SIGNALS
  BY ProgramsAssumption DEF SIGUSR1
<1> QED
  BY <1>1 DEF Sizes, Pid, NoPid, RxSize

\* The memory of the current process changes.
Sets(m) == mem'[pcb_curr] = m /\ \A i \in Pid \ {pcb_curr} : mem'[i] = mem[i]

LEMMA SetEffect ==
    ASSUME TypeOK, ProgramsType, NEW m \in Program, mem' = [mem EXCEPT ![pcb_curr] = m]
    PROVE  Sets(m) /\ mem' \in [Pid -> Program]
<1>1. pcb_curr \in Pid /\ mem \in [Pid -> Program]
  BY DEF TypeOK, ProgramsType
<1> QED
  BY <1>1 DEF Sets

\* The current process gets to a point of its program, with a command.
Moves(pc, cmd) ==
    /\ \A i \in Pid \ {pcb_curr} : mem'[i] = mem[i]
    /\ mem'[pcb_curr].prog = Me.prog /\ mem'[pcb_curr].pc = pc
    /\ mem'[pcb_curr].r0 = Me.r0 /\ mem'[pcb_curr].cmd = cmd

LEMMA MoveEffect ==
    ASSUME TypeOK, ProgramsType, NEW pc \in Points, NEW cmd \in Command, NEW period \in Nat
    PROVE  /\ Go(pc) => Moves(pc, Me.cmd) /\ mem' \in [Pid -> Program]
           /\ mem' = [mem EXCEPT ![pcb_curr].pc = pc, ![pcb_curr].cmd = cmd]
                => Moves(pc, cmd) /\ mem' \in [Pid -> Program]
           /\ mem' = [mem EXCEPT ![pcb_curr].pc = pc, ![pcb_curr].period = period]
                => Moves(pc, Me.cmd) /\ mem' \in [Pid -> Program]
<1>1. pcb_curr \in Pid /\ mem \in [Pid -> Program] /\ Me = mem[pcb_curr] /\ Me \in Program
  BY DEF TypeOK, ProgramsType, Me
<1> DEFINE a == [Me EXCEPT !.pc = pc]
           b == [Me EXCEPT !.pc = pc, !.cmd = cmd]
           c == [Me EXCEPT !.pc = pc, !.period = period]
<1>2. /\ a \in Program /\ a.prog = Me.prog /\ a.pc = pc /\ a.r0 = Me.r0 /\ a.cmd = Me.cmd
      /\ b \in Program /\ b.prog = Me.prog /\ b.pc = pc /\ b.r0 = Me.r0 /\ b.cmd = cmd
      /\ c \in Program /\ c.prog = Me.prog /\ c.pc = pc /\ c.r0 = Me.r0 /\ c.cmd = Me.cmd
  BY <1>1 DEF Program
<1>3. /\ Go(pc) => mem' = [mem EXCEPT ![pcb_curr] = a]
      /\ mem' = [mem EXCEPT ![pcb_curr].pc = pc, ![pcb_curr].cmd = cmd]
           => mem' = [mem EXCEPT ![pcb_curr] = b]
      /\ mem' = [mem EXCEPT ![pcb_curr].pc = pc, ![pcb_curr].period = period]
           => mem' = [mem EXCEPT ![pcb_curr] = c]
  BY <1>1 DEF Go
<1> HIDE DEF a, b, c
<1> QED
  BY <1>2, <1>3, SetEffect DEF Moves, Sets

\* What Return lets a program find in r0 is a number.
LEMMA ReturnedType ==
    ASSUME TypeOK, ProgramsType, ProgramReturns
    PROVE  mem' \in [Pid -> Program]
<1> DEFINE table == ContextSwitchTable(system_page_table, UsedPcbs, Curr)
           sp == Curr.stack_pointer
           v == Stored(saved_r0)[table[sp.section]][sp.level]
           m == [Me EXCEPT !.r0 = v]
<1>1. /\ pcb_curr \in Pid /\ Curr \in PCB /\ sp \in Pointer /\ saved_r0 \in Memory
      /\ system_page_table \in PageTable /\ sys.sp \in Pointer /\ sys.result \in Int
      /\ mem \in [Pid -> Program] /\ Me = mem[pcb_curr] /\ Me \in Program
  BY DEF TypeOK, Curr, PCB, Memory, ProgramsType, Me
<1>2. CASE sys'.at = "crash"
  BY <1>1, <1>2 DEF ProgramReturns
<1>3. CASE sys'.at # "crash"
  <2>1. Return /\ mem' = [mem EXCEPT ![pcb_curr] = m]
    BY <1>1, <1>3 DEF ProgramReturns
  <2>2. /\ sys.result = UNKNOWN \/ Writable(system_page_table, sys.sp)
        /\ Writable(table, sp)
    BY <1>3, <2>1 DEF Return, Crash, UserMode
  <2>3. Stored(saved_r0) \in Memory
    BY <1>1, <2>2, WriteType DEF Stored
  <2>4. v \in Int
    BY <1>1, <2>2, <2>3 DEF Writable, Memory, Pointer
  <2> HIDE DEF v
  <2>5. m \in Program
    BY <1>1, <2>4 DEF Program
  <2> HIDE DEF m
  <2> QED
    BY <2>1, <2>5, SetEffect
<1> QED
  BY <1>2, <1>3

\* The commands that are typed, and what Execv is called with.
LEMMA CommandTypes ==
    ASSUME ProgramsType, TypeOK
    PROVE  /\ Commands \subseteq Command
           /\ [name |-> "shell", period |-> 0] \in Command
           /\ [name |-> "blinkd", period |-> Me.cmd.period] \in Command
           /\ [name |-> Me.cmd.name, period |-> Me.cmd.period] \in Command
           /\ Me.cmd \in Command /\ Me \in Program
           /\ \A command \in Commands : command.name \in INSTALLED \cup OTHERS
<1>1. Me \in Program
  BY DEF TypeOK, ProgramsType, Me
<1>2. /\ Me.cmd \in Command /\ Me.cmd.name \in Names /\ Me.cmd.period \in Nat
      /\ "shell" \in Names /\ "blinkd" \in Names
  BY <1>1 DEF Program, Command, Names
<1>3. ASSUME NEW command \in Commands
      PROVE  command \in Command /\ command.name \in INSTALLED \cup OTHERS
  <2>1. CASE command \in [name : (INSTALLED \cup OTHERS) \ {"blink"}, period : {0}]
    BY <2>1 DEF Command, Names
  <2>2. CASE command \in [name : {"blink"} \cap INSTALLED, period : PERIODS]
    <3>1. PERIODS \subseteq Nat
      BY ProgramsAssumption
    <3> QED
      BY <2>2, <3>1 DEF Command, Names
  <2> QED
    BY <1>3, <2>1, <2>2 DEF Commands
<1> QED
  BY <1>1, <1>2, <1>3 DEF Command

\* No step of a program or of the kernel puts anything else in its memory or
\* in blink.io.
LEMMA ProgramsTypeStep ==
    ASSUME TypeOK, ProgramsType, ProgramsNext
    PROVE  ProgramsType'
<1> USE DEF ProgramsType
<1> DEFINE IoType == [words : Words, pid : Int, period : Nat]
<1>1. /\ pcb_curr \in Pid /\ Me = mem[pcb_curr] /\ Me \in Program /\ Me.cmd \in Command
      /\ Me.cmd.name \in Names /\ Me.cmd.period \in Nat /\ Me.r0 \in Int
  BY DEF TypeOK, Me, Program, Command
<1>2. ASSUME NEW pc \in Points, Go(pc)
      PROVE  mem' \in [Pid -> Program]
  BY <1>1, <1>2, MoveEffect
<1>3. ASSUME NEW name \in Names, NEW period \in Nat, Execv(name, period)
      PROVE  mem' \in [Pid -> Program]
  <2>1. [name |-> name, period |-> period] \in Command /\ "execed" \in Points
    BY DEF Command, Points
  <2> QED
    BY <1>1, <1>3, <2>1, MoveEffect DEF Execv
<1>4. CASE ProgramStep
  <2>1. Leaves => mem' \in [Pid -> Program]
    BY <1>2 DEF Leaves, Points
  <2> HIDE DEF ProgramsType
  <2>2. io \in IoType /\ 1 \in Words /\ 2 \in Words
    BY DEF ProgramsType, Words
  <2>3. /\ \A n \in Int : PidOf(n) \in IoType
        /\ \A n \in Nat : NewPeriod(n) \in IoType
    BY <2>2 DEF PidOf, NewPeriod
  <2> USE DEF ProgramsType
  <2>4. CASE InitStarts \/ InitForked \/ InitSleeps
    BY <1>2, <1>3, <2>1, <2>4 DEF InitStarts, InitForked, InitSleeps, Points, Names
  <2>5. CASE ShellReads \/ ShellForked \/ ChildFails
    BY <1>1, <1>2, <1>3, <2>1, <2>5 DEF ShellReads, ShellForked, ChildFails, Points
  <2>6. CASE ShellRuns
    <3>1. "forked" \in Points
      BY DEF Points
    <3> QED
      BY <2>6, <3>1, CommandTypes, MoveEffect DEF ShellRuns
  <2>7. CASE EchoEnds \/ PsStarts \/ PsEnds \/ BlinkFindsNoDescriptor \/ BlinkForks
    BY <1>2, <2>1, <2>7 DEF EchoEnds, PsStarts, PsEnds, BlinkFindsNoDescriptor, BlinkForks, Points
  <2>8. CASE BlinkForked
    <3>1. "blinkd" \in Names
      BY DEF Names
    <3> QED
      BY <1>1, <1>3, <2>1, <2>3, <2>8, <3>1 DEF BlinkForked
  <2>9. CASE BlinkSignals \/ BlinkEnds
    BY <1>1, <1>2, <2>1, <2>3, <2>9 DEF BlinkSignals, BlinkEnds, Points
  <2>10. CASE BlinkdStarts
    <3>1. "handles" \in Points
      BY DEF Points
    <3> QED
      BY <1>1, <2>10, <3>1, MoveEffect DEF BlinkdStarts
  <2>11. CASE BlinkdFindsNoDescriptor \/ BlinkdBlinks
    BY <1>2, <2>1, <2>11 DEF BlinkdFindsNoDescriptor, BlinkdBlinks, Points
  <2>12. CASE BlinkdGoesOn
    <3> DEFINE m == IF Me.read_ready THEN Updated(Me) ELSE Me
    <3>1. m \in Program
      BY <1>1 DEF Updated, Program
    <3>2. mem' = [mem EXCEPT ![pcb_curr] = m] /\ io' = io
      BY <2>12 DEF BlinkdGoesOn
    <3> HIDE DEF m
    <3> QED
      BY <3>1, <3>2, SetEffect
  <2>13. CASE Handler
    <3> DEFINE m == [Me EXCEPT !.read_ready = TRUE]
    <3>1. m \in Program
      BY <1>1 DEF Program
    <3>2. mem' = [mem EXCEPT ![pcb_curr] = m] /\ io' = io
      BY <1>1, <2>13 DEF Handler
    <3> HIDE DEF m
    <3> QED
      BY <3>1, <3>2, SetEffect
  <2> QED
    BY <1>4, <2>4, <2>5, <2>6, <2>7, <2>8, <2>9, <2>10, <2>11, <2>12, <2>13 DEF ProgramStep
<1>5. CASE SystemStep
  <2>1. CASE ProgramReturns
    BY <2>1, ReturnedType DEF ProgramReturns
  <2>2. CASE ProgramForks
    BY <1>1, <2>2 DEF ProgramForks
  <2>3. CASE ProgramExeced
    <3>1. Start(Me.cmd.name, Me.cmd.period) \in Program
      BY <1>1 DEF Start, Program, Command, Points, UNKNOWN
    <3>2. mem' = [mem EXCEPT ![pcb_curr] = Start(Me.cmd.name, Me.cmd.period)] /\ io' = io
      BY <2>3 DEF ProgramExeced
    <3> QED
      BY <3>1, <3>2, SetEffect
  <2>4. CASE ProgramNotExeced \/ OtherKernelStep
    BY <2>4 DEF ProgramNotExeced, OtherKernelStep, progVars
  <2> QED
    BY <1>5, <2>1, <2>2, <2>3, <2>4 DEF SystemStep
<1>6. CASE Typing \/ (Tick /\ UNCHANGED progVars)
  BY <1>6 DEF Typing, progVars
<1> QED
  BY <1>4, <1>5, <1>6 DEF ProgramsNext

\* The programs take the kernel's steps.
LEMMA StepsOfKernel ==
    ASSUME Sizes, ProgramsInv, ProgramsNext
    PROVE  Next
<1>1. /\ SIGUSR1 \in SIGNALS /\ 1 \in RxSize \ {0} /\ 3 \in Pid
      /\ 0 \in 0 .. MAX_TIMEOUT /\ MAX_TIMEOUT \in 0 .. MAX_TIMEOUT
  BY Numbers
<1>2. CASE ProgramStep
  <2>1. ASSUME BlinkSignals
        PROVE  UserCall
    <3>1. sys.at = "user" /\ io.words > 0 /\ Kill(io.pid, SIGUSR1)
      BY <2>1 DEF BlinkSignals, AtPoint
    <3>2. io.pid = 3
      BY <3>1 DEF ProgramsInv, Alive, Orderly, Notes, Serving
    <3> QED
      BY <1>1, <3>1, <3>2 DEF UserCall
  <2>2. ASSUME BlinkdStarts
        PROVE  UserCall
    BY <1>1, <2>2 DEF BlinkdStarts, UserCall
  <2>3. ASSUME \/ InitStarts \/ InitForked \/ InitSleeps \/ ShellReads \/ ShellRuns
               \/ ShellForked \/ ChildFails \/ EchoEnds \/ PsStarts \/ PsEnds
        PROVE  UserCall
    BY <1>1, <2>3 DEF InitStarts, InitForked, InitSleeps, ShellReads, ShellRuns, ShellForked,
       ChildFails, EchoEnds, PsStarts, PsEnds, Leaves, Execv, UserCall
  <2>4. ASSUME \/ BlinkFindsNoDescriptor \/ BlinkForks \/ BlinkForked \/ BlinkEnds
               \/ BlinkdFindsNoDescriptor \/ BlinkdBlinks \/ BlinkdGoesOn \/ Handler
        PROVE  UserCall
    BY <1>1, <2>4 DEF BlinkFindsNoDescriptor, BlinkForks, BlinkForked, BlinkEnds,
       BlinkdFindsNoDescriptor, BlinkdBlinks, BlinkdGoesOn, Handler, Leaves, Execv, UserCall
  <2> QED
    BY <1>2, <2>1, <2>2, <2>3, <2>4 DEF ProgramStep, Next
<1>3. CASE SystemStep
  BY <1>3 DEF SystemStep, ProgramReturns, ProgramForks, ProgramExeced, ProgramNotExeced,
     OtherKernelStep, KernelStep, Next
<1>4. CASE Typing
  BY <1>4 DEF Typing, Next
<1> QED
  BY <1>2, <1>3, <1>4 DEF ProgramsNext, Next

----------------------------------------------------------------------------
(* A program calls the kernel. *)

\* Nobody shares a stack.
LEMMA OwnStacks ==
    ASSUME Owned, NEW i \in Pid, NEW j \in Pid \ {i}, Holds(i), Holds(j)
    PROVE  pcb[i].stack_frame # pcb[j].stack_frame /\ pcb[i].stack_frame \notin Frames(pcb[j])
  BY DEF Owned, Frames

\* The current process calls, and stays where it is.
Calls ==
    /\ sys.at = "user" /\ pcb_curr' = pcb_curr /\ Only(pcb_curr)
    /\ SamePlace(pcb'[pcb_curr], Curr) /\ pcb'[pcb_curr].stack_pointer = Curr.stack_pointer
    /\ pcb'[pcb_curr].state \notin {"SIGNAL", "UNUSED"}
    /\ UNCHANGED <<saved_r0, read_queue>>

\* The kernel is on the way to what comes next; the memory is as it was where
\* a result is still to be stored.
OnItsWay ==
    /\ sys'.at \in {"sched", "exit", "ret", "read", "exec", "ps"}
    /\ pcb_curr # 3 /\ IsParent(pcb_curr) => sys'.at \in {"sched", "exit"}
    /\ sys'.at = "sched" =>
         /\ UNCHANGED system_page_table
         /\ sys'.result = UNKNOWN \/ sys'.sp = Curr.stack_pointer

\* Who is current, in a state with the invariant.
LEMMA Current ==
    ASSUME Sizes, TypeOK, Owned, Orderly
    PROVE  /\ pcb_curr \in 0 .. 3 /\ pcb_curr \in Pid /\ pcb_curr \in Int
           /\ Curr = pcb[pcb_curr] /\ Me = mem[pcb_curr] /\ Curr \in PCB
           /\ \A i \in 0 .. 3 : i \in Pid
           /\ sys.at # "sched" => Used(pcb_curr) /\ Role(pcb_curr)
<1>1. pcb_curr \in 0 .. 3 /\ \A i \in Pid : Used(i) => Role(i)
  BY DEF Orderly, Cast
<1> QED
  BY <1>1, Numbers DEF Curr, Me, TypeOK, Owned

LEMMA CallFamily ==
    ASSUME Sizes, TypeOK, Owned, Orderly, Calls, OnItsWay,
           NEW pc, NEW cmd, Moves(pc, cmd), pc \notin {"forked", "start"}
    PROVE  Family' /\ Stacks'
<1>1. /\ pcb_curr \in 0 .. 3 /\ pcb_curr \in Pid /\ Curr = pcb[pcb_curr] /\ Me = mem[pcb_curr]
      /\ \A i \in 0 .. 3 : i \in Pid
      /\ Used(pcb_curr)
  BY Current DEF Calls
<1>2. Family /\ Stacks /\ sys.at = "user" /\ pcb_curr' = pcb_curr
  BY DEF Orderly, Calls
<1>3. /\ \A i \in Pid \ {pcb_curr} : pcb'[i] = pcb[i] /\ mem'[i] = mem[i]
      /\ \A i \in Pid : Used(i)' <=> Used(i)
      /\ \A i \in Pid : mem'[i].prog = mem[i].prog
      /\ mem'[pcb_curr].pc = pc
  BY <1>1 DEF Calls, Only, Moves, Used
<1>4. ASSUME NEW p \in 0 .. 2
      PROVE  Parent(p)'
  <2>1. IsParent(p)' => p # pcb_curr /\ IsParent(p)
    BY <1>1, <1>3 DEF IsParent, Stands
  <2>2. Parent(p)
    BY <1>2 DEF Family
  <2> QED
    BY <1>1, <1>3, <2>1, <2>2 DEF Parent
<1>5. ASSUME NEW k \in 1 .. 3
      PROVE  Child(k)'
  <2>1. IsChild(k)' => k # pcb_curr /\ IsChild(k)
    BY <1>1, <1>3 DEF IsChild, Stands
  <2>2. Child(k)
    BY <1>2 DEF Family
  <2> QED
    BY <1>1, <1>2, <1>3, <2>1, <2>2 DEF Child
<1>6. ASSUME NEW k \in 1 .. 3
      PROVE  Waiter(k)'
  <2> SUFFICES ASSUME Used(k)', pcb_curr = k - 1
               PROVE  \/ k = 1 /\ ~IsChild(k)'
                      \/ Fresh(k)' /\ sys'.at \in {"sched", "exit"}
    BY <1>2 DEF Waiter
  <2>1. k \in Pid /\ k # pcb_curr /\ Used(k)
    BY <1>1, <1>3
  <2>2. IsChild(k)' <=> IsChild(k)
    BY <1>3, <2>1 DEF IsChild, Stands
  <2>3. Waiter(k)
    BY <1>2 DEF Family
  <2>4. CASE k = 1 /\ ~IsChild(k)
    BY <2>2, <2>4
  <2>5. CASE Fresh(k) /\ IsParent(pcb_curr)
    <3>1. Curr.stack_pointer.section = Curr.virtual_stack_frame
      BY <1>1, <1>2 DEF Stacks
    <3>2. system_page_table[Curr.stack_pointer.section] = Curr.stack_frame
      BY <1>2, <3>1 DEF Stacks
    <3>3. Curr.stack_frame # pcb[k].stack_frame
      BY <1>1, <2>1, OwnStacks DEF Holds
    <3>4. Misses(pcb[k].stack_frame)'
      BY <1>3, <2>1, <2>5, <3>2, <3>3 DEF Misses, OnItsWay
    <3>5. ResumeR0(k)' = ResumeR0(k) /\ pcb'[k].state = pcb[k].state
      BY <1>3, <2>1 DEF ResumeR0, Calls
    <3> QED
      BY <2>2, <2>5, <3>4, <3>5 DEF Fresh, OnItsWay
  <2> QED
    BY <1>2, <2>1, <2>3, <2>4, <2>5 DEF Waiter
<1>7. Stacks'
  <2>1. \A i \in Pid : /\ pcb'[i].stack_pointer = pcb[i].stack_pointer
                       /\ pcb'[i].virtual_stack_frame = pcb[i].virtual_stack_frame
                       /\ Unexeced(pcb[i])' <=> Unexeced(pcb[i])
    BY <1>1, <1>3 DEF Calls, SamePlace, Unexeced
  <2>2. sys'.at # "user"
    BY DEF OnItsWay
  <2>3. \A p \in 0 .. 2 : p \in Pid
    BY <1>1
  <2> QED
    BY <1>2, <1>3, <2>1, <2>2, <2>3 DEF Stacks
<1> QED
  BY <1>4, <1>5, <1>6, <1>7 DEF Family

\* What blink.io and the command have to be after the call.
Noted(pc, cmd) ==
    /\ io'.words > 0 => io'.pid = 3
    /\ io.words > 0 => io'.words > 0
    /\ pcb_curr = 2 /\ IsParent(2) => io'.words > 0
    /\ pc = "execed" =>
         /\ pcb_curr = 1 => cmd.name = "shell"
         /\ pcb_curr = 2 => cmd.name \in INSTALLED \cup OTHERS
         /\ pcb_curr = 3 => cmd.name = "blinkd"

LEMMA CallOrderly ==
    ASSUME Sizes, TypeOK, Owned, Orderly, Calls, OnItsWay,
           NEW pc, NEW cmd, Moves(pc, cmd), pc \notin {"forked", "start"},
           Role(pcb_curr)', Errand', Noted(pc, cmd), UNCHANGED wait_queue \/ Queues'
    PROVE  Orderly'
<1>1. /\ pcb_curr \in 0 .. 3 /\ pcb_curr \in Pid /\ Curr = pcb[pcb_curr] /\ Me = mem[pcb_curr]
      /\ \A i \in 0 .. 3 : i \in Pid
      /\ Used(pcb_curr)
  BY Current DEF Calls
<1>2. /\ Cast /\ Family /\ Queues /\ Notes
      /\ sys.at = "user" /\ pcb_curr' = pcb_curr
  BY DEF Orderly, Calls
<1>3. /\ \A i \in Pid \ {pcb_curr} : pcb'[i] = pcb[i] /\ mem'[i] = mem[i]
      /\ \A i \in Pid : (Used(i)' <=> Used(i)) /\ pcb'[i].parent_pid = pcb[i].parent_pid
      /\ \A i \in Pid : mem'[i].prog = mem[i].prog
      /\ mem'[pcb_curr].pc = pc /\ mem'[pcb_curr].cmd = cmd
  BY <1>1 DEF Calls, Only, Moves, Used, SamePlace
<1>4. Cast'
  <2>1. \A i \in Pid : pcb'[i].state # "SIGNAL"
    BY <1>2, <1>3 DEF Cast, Calls
  <2>2. ASSUME NEW i \in Pid, Used(i)
        PROVE  i <= 3 /\ Role(i)'
    <3>1. i # pcb_curr => (Role(i)' <=> Role(i))
      BY <1>3 DEF Role, Stands
    <3> QED
      BY <1>2, <2>2, <3>1 DEF Cast
  <2> QED
    BY <1>1, <1>2, <1>3, <2>1, <2>2 DEF Cast
<1>5. Queues'
  BY <1>1, <1>2, <1>3 DEF Queues, Calls
<1>6. Notes'
  <2>1. \A p \in Pid : IsParent(p)' => p # pcb_curr /\ IsParent(p)
    BY <1>1, <1>3 DEF IsParent, Stands
  <2>2. Parent(2) /\ 2 \in Pid /\ 1 \in Pid /\ 3 \in Pid
    BY <1>1, <1>2 DEF Family
  <2>3. io'.words > 0 => io'.pid = 3
    BY DEF Noted
  <2>4. Used(3)' => io'.words > 0 \/ IsParent(2)'
    BY <1>2, <1>3, <2>2 DEF Notes, Noted, IsParent, Stands
  <2>5. \A i \in Pid : Stands(i, "blink", {"forked"})' => Used(i)'
    BY <1>2, <1>3 DEF Notes, Stands
  <2>6. /\ Used(1)' /\ Stands(1, "init", {"execed"})' => mem'[1].cmd.name = "shell"
        /\ Used(1)' /\ Stands(1, "shell", {"forked"})' => mem'[1].cmd.name \in INSTALLED \cup OTHERS
        /\ Used(2)' /\ Stands(2, "shell", {"forked", "execed"})' => mem'[2].cmd.name \in INSTALLED \cup OTHERS
        /\ Used(3)' /\ Stands(3, "blink", {"execed"})' => mem'[3].cmd.name = "blinkd"
    BY <1>2, <1>3, <2>2 DEF Notes, Noted, Stands
  <2> QED
    BY <2>3, <2>4, <2>5, <2>6 DEF Notes
<1> QED
  BY <1>4, <1>5, <1>6, CallFamily DEF Orderly

\* What the calls of the programs do, where no process is in a handler.
LEMMA CallEffects ==
    ASSUME Sizes, TypeOK, sys.at = "user", Used(pcb_curr), Curr.state # "SIGNAL"
    PROVE  /\ \A timeout \in 0 .. MAX_TIMEOUT : Usleep(timeout) =>
                /\ Calls /\ UNCHANGED wait_queue /\ sys'.at = "sched"
                /\ UNCHANGED system_page_table /\ sys'.sp = Curr.stack_pointer
           /\ Exec => Calls /\ UNCHANGED wait_queue /\ sys'.at = "exec"
           /\ Exit => Calls /\ UNCHANGED wait_queue /\ sys'.at = "exit"
           /\ Ps => Calls /\ UNCHANGED wait_queue /\ sys'.at = "ps"
           /\ Read(1) => Calls /\ UNCHANGED wait_queue /\ sys'.at \in {"ret", "read"}
           /\ Signal(SIGUSR1, TRUE) =>
                /\ Calls /\ UNCHANGED wait_queue /\ sys'.at = "ret"
                /\ SIGUSR1 \in pcb'[pcb_curr].signal_handler
<1>1. /\ pcb_curr \in Pid /\ Curr = pcb[pcb_curr] /\ Curr \in PCB /\ pcb \in [Pid -> PCB]
      /\ Curr.state \notin {"SIGNAL", "UNUSED"}
  BY DEF TypeOK, Curr, Used
<1>2. SameProcs /\ UNCHANGED <<saved_r0, queues>> => Calls /\ UNCHANGED wait_queue
  BY <1>1 DEF SameProcs, Calls, queues, Only, SamePlace
<1>3. ASSUME NEW timeout \in 0 .. MAX_TIMEOUT, Usleep(timeout)
      PROVE  /\ Calls /\ UNCHANGED wait_queue /\ sys'.at = "sched"
             /\ UNCHANGED system_page_table /\ sys'.sp = Curr.stack_pointer
  <2>1. /\ Only(pcb_curr) /\ pcb_curr' = pcb_curr
        /\ SameContext(pcb'[pcb_curr], Curr)
        /\ pcb'[pcb_curr].state \in {"READY", "SLEEP"}
        /\ SameMemory /\ UNCHANGED queues /\ Answered("sched", 0)
    BY <1>3, YieldEffect
  <2> QED
    BY <2>1 DEF SameContext, SameMemory, queues, tables, Answered, Calls
<1>4. Exec => Calls /\ UNCHANGED wait_queue /\ sys'.at = "exec"
  BY <1>2, EnterEffect DEF Exec, Enter
<1>5. Exit => Calls /\ UNCHANGED wait_queue /\ sys'.at = "exit"
  BY <1>2, EnterEffect DEF Exit, Enter
<1>6. Ps => Calls /\ UNCHANGED wait_queue /\ sys'.at = "ps"
  BY <1>2, EnterEffect DEF Ps, Enter
<1>7. Read(1) => Calls /\ UNCHANGED wait_queue /\ sys'.at \in {"ret", "read"}
  BY <1>2, Numbers, ReadEffect DEF SameMemory, Answered
<1>8. Signal(SIGUSR1, TRUE) =>
        /\ Calls /\ UNCHANGED wait_queue /\ sys'.at = "ret"
        /\ SIGUSR1 \in pcb'[pcb_curr].signal_handler
  <2> SUFFICES ASSUME Signal(SIGUSR1, TRUE)
               PROVE  /\ Calls /\ UNCHANGED wait_queue /\ sys'.at = "ret"
                      /\ SIGUSR1 \in pcb'[pcb_curr].signal_handler
    OBVIOUS
  <2>1. /\ Only(pcb_curr) /\ pcb_curr' = pcb_curr
        /\ SamePlace(pcb'[pcb_curr], Curr) /\ pcb'[pcb_curr].state = Curr.state
        /\ pcb'[pcb_curr].stack_pointer = Curr.stack_pointer
        /\ SameMemory /\ UNCHANGED queues /\ Unanswered("ret")
    BY Numbers, SignalEffect
  <2>2. SIGUSR1 \in pcb'[pcb_curr].signal_handler
    BY <1>1 DEF Signal, PCB
  <2> QED
    BY <1>1, <2>1, <2>2 DEF SameMemory, queues, Unanswered, UserMode, Calls
<1> QED
  BY <1>3, <1>4, <1>5, <1>6, <1>7, <1>8

\* What fork has returned to the current process.
LEMMA Reply ==
    ASSUME Sizes, TypeOK, Owned, Orderly, sys.at = "user"
    PROVE  /\ pcb_curr < 3 /\ IsParent(pcb_curr) => Me.r0 = pcb_curr + 1 /\ Used(pcb_curr + 1)
           /\ pcb_curr > 0 /\ IsChild(pcb_curr) => Me.r0 = 0
<1>1. /\ pcb_curr \in 0 .. 3 /\ Used(pcb_curr) /\ Me = mem[pcb_curr]
  BY Current
<1>2. /\ pcb_curr \in 0 .. 2 => Parent(pcb_curr)
      /\ pcb_curr \in 1 .. 3 => Child(pcb_curr)
  BY DEF Orderly, Family
<1> QED
  BY <1>1, <1>2 DEF Parent, Child

\* Nobody but the children it has just forked keeps a program from going on.
LEMMA NoChild ==
    ASSUME Sizes, TypeOK, Owned, Orderly, sys.at = "user"
    PROVE  /\ pcb_curr \in {1, 2} /\ ~IsParent(pcb_curr) => ~Used(pcb_curr + 1)
           /\ pcb_curr # 2 /\ IsChild(3) /\ Used(3) => pcb_curr = 3
<1>1. Waiter(2) /\ Waiter(3) /\ Child(3) /\ pcb_curr \in 0 .. 3
  BY Current DEF Orderly, Family
<1> QED
  BY <1>1 DEF Waiter, Child

\* A program exits.
LEMMA LeavesOrderly ==
    ASSUME Sizes, TypeOK, Owned, ProgramsType, Orderly, sys.at = "user", Leaves, pcb_curr \in {2, 3},
           io.words > 0 => io'.words > 0,
           io'.words > 0 => io'.pid = 3,
           pcb_curr = 2 /\ IsParent(2) => io'.words > 0
    PROVE  Orderly'
<1>1. /\ pcb_curr \in Pid /\ Used(pcb_curr) /\ Curr.state # "SIGNAL" /\ Me.cmd \in Command
  BY Current, CommandTypes DEF Orderly, Cast
<1>2. Calls /\ UNCHANGED wait_queue /\ sys'.at = "exit"
  BY <1>1, CallEffects DEF Leaves
<1>3. Moves("gone", Me.cmd)
  BY <1>1, MoveEffect DEF Leaves, Points
<1>4. mem'[pcb_curr].pc = "gone" /\ pcb_curr' = pcb_curr
  BY <1>2, <1>3 DEF Moves, Calls
<1>5. Role(pcb_curr)'
  BY <1>4 DEF Role
<1>6. Errand' /\ OnItsWay
  BY <1>2, <1>4 DEF Errand, OnItsWay
<1>7. Noted("gone", Me.cmd)
  BY DEF Noted
<1> QED
  BY <1>2, <1>3, <1>5, <1>6, <1>7, CallOrderly

\* The child of a fork executes its program.
LEMMA ExecvOrderly ==
    ASSUME Sizes, TypeOK, Owned, ProgramsType, Orderly, sys.at = "user",
           pcb_curr # 0, IsChild(pcb_curr), UNCHANGED io,
           NEW name \in Names, NEW period \in Nat, Execv(name, period),
           pcb_curr = 1 => name = "shell",
           pcb_curr = 2 => name \in INSTALLED \cup OTHERS,
           pcb_curr = 3 => name = "blinkd"
    PROVE  Orderly'
<1> DEFINE cmd == [name |-> name, period |-> period]
<1>1. /\ pcb_curr \in 1 .. 3 /\ pcb_curr \in Pid /\ Used(pcb_curr) /\ Curr.state # "SIGNAL"
      /\ Me = mem[pcb_curr]
  BY Current DEF Orderly, Cast
<1>2. Calls /\ UNCHANGED wait_queue /\ sys'.at = "exec"
  BY <1>1, CallEffects DEF Execv
<1>3. Moves("execed", cmd)
  <2>1. cmd \in Command /\ "execed" \in Points
    BY DEF Command, Points
  <2> QED
    BY <2>1, MoveEffect DEF Execv
<1>4. Stands(pcb_curr, Prog(pcb_curr - 1), {"execed"})' /\ pcb_curr' = pcb_curr
  BY <1>1, <1>2, <1>3 DEF Moves, Calls, Stands, IsChild
<1>5. Role(pcb_curr)'
  BY <1>1, <1>4 DEF Role, Prog, Stands
<1>6. pcb_curr # 3 => ~IsParent(pcb_curr)
  BY <1>1 DEF IsParent, IsChild, Stands, Prog
<1>7. Errand' /\ OnItsWay
  BY <1>1, <1>2, <1>4, <1>6 DEF Errand, OnItsWay
<1>8. Noted("execed", cmd)
  BY <1>6 DEF Noted, Orderly, Notes
<1> HIDE DEF cmd
<1> QED
  BY <1>2, <1>3, <1>5, <1>7, <1>8, CallOrderly

----------------------------------------------------------------------------
(* The steps of the programs, but for their forks. *)

LEMMA SleepsOrderly ==
    ASSUME Sizes, TypeOK, Owned, ProgramsType, Orderly, sys.at = "user", Usleep(0), Go("execed"),
           UNCHANGED io, Me.prog = "init", pcb_curr = 0 \/ Me.pc = "execed"
    PROVE  Orderly'
<1>1. /\ pcb_curr \in Pid /\ Used(pcb_curr) /\ Curr.state # "SIGNAL" /\ Me.cmd \in Command
      /\ Me = mem[pcb_curr] /\ Role(pcb_curr)
  BY Current, CommandTypes DEF Orderly, Cast
<1>2. pcb_curr \in {0, 1}
  BY <1>1 DEF Role, Stands
<1>3. /\ Calls /\ UNCHANGED wait_queue /\ sys'.at = "sched"
      /\ UNCHANGED system_page_table /\ sys'.sp = Curr.stack_pointer
  BY <1>1, Numbers, CallEffects
<1>4. Moves("execed", Me.cmd)
  <2>1. "execed" \in Points
    BY DEF Points
  <2> QED
    BY <1>1, <2>1, MoveEffect
<1>5. mem'[pcb_curr].pc = "execed" /\ mem'[pcb_curr].prog = "init" /\ pcb_curr' = pcb_curr
  BY <1>3, <1>4 DEF Moves, Calls
<1>6. Role(pcb_curr)'
  BY <1>2, <1>5 DEF Role, Stands
<1>7. Errand' /\ OnItsWay
  BY <1>2, <1>3, <1>5 DEF Errand, OnItsWay
<1>8. Noted("execed", Me.cmd)
  BY <1>1, <1>2 DEF Noted, Orderly, Notes, Stands
<1> QED
  BY <1>3, <1>4, <1>6, <1>7, <1>8, CallOrderly

LEMMA InitOrderly ==
    ASSUME Sizes, TypeOK, Owned, ProgramsType, Orderly, InitForked \/ InitSleeps
    PROVE  Orderly'
<1>1. /\ sys.at = "user" /\ UNCHANGED io /\ Me.prog = "init"
      /\ Me.pc = IF InitForked THEN "forked" ELSE "execed"
  BY DEF InitForked, InitSleeps, AtPoint
<1>2. /\ pcb_curr \in Pid /\ Me = mem[pcb_curr] /\ Role(pcb_curr)
  BY <1>1, Current
<1>3. CASE InitForked /\ pcb_curr = 0
  <2>1. IsParent(pcb_curr)
    BY <1>2, <1>3 DEF InitForked, AtPoint, IsParent, Stands, Prog
  <2>2. Me.r0 = 1
    BY <1>1, <1>3, <2>1, Reply
  <2>3. Usleep(0) /\ Go("execed")
    BY <1>3, <2>2 DEF InitForked, ERROR
  <2> QED
    BY <1>1, <1>3, <2>3, SleepsOrderly
<1>4. CASE InitForked /\ pcb_curr = 1
  <2>1. IsChild(pcb_curr)
    BY <1>2, <1>4 DEF InitForked, AtPoint, IsChild, Stands, Prog
  <2>2. Me.r0 = 0
    BY <1>1, <1>4, <2>1, Reply
  <2>3. Execv("shell", 0) /\ "shell" \in Names /\ 0 \in Nat
    BY <1>4, <2>2 DEF InitForked, ERROR, Names
  <2> QED
    BY <1>1, <1>4, <2>1, <2>3, ExecvOrderly
<1>5. CASE InitSleeps
  BY <1>1, <1>5, SleepsOrderly DEF InitSleeps, AtPoint
<1>6. pcb_curr \in {0, 1}
  BY <1>1, <1>2 DEF Role, Stands
<1> QED
  BY <1>3, <1>4, <1>5, <1>6

\* A call is made, and the program gets to another point.
LEMMA GoesOn ==
    ASSUME Sizes, TypeOK, Owned, ProgramsType, Orderly, Calls, UNCHANGED wait_queue,
           NEW pc \in Points, Go(pc), pc \notin {"forked", "start", "execed"},
           Role(pcb_curr)', Errand', OnItsWay,
           ~IsParent(2), io.words > 0 => io'.words > 0, io'.words > 0 => io'.pid = 3
    PROVE  Orderly'
<1>1. Me.cmd \in Command
  BY CommandTypes
<1>2. Moves(pc, Me.cmd)
  BY <1>1, MoveEffect
<1>3. Noted(pc, Me.cmd)
  BY DEF Noted
<1> QED
  BY <1>2, <1>3, CallOrderly

LEMMA ShellReadsOrderly ==
    ASSUME Sizes, TypeOK, Owned, ProgramsType, Orderly, ShellReads
    PROVE  Orderly'
<1>1. /\ sys.at = "user" /\ UNCHANGED io /\ Me.prog = "shell" /\ Curr.state # "SIGNAL"
      /\ Read(1) /\ Go("got")
      /\ Me.pc \in {"start", "waited", "got", "forked"}
      /\ Me.pc = "forked" => Me.r0 = ERROR
  BY DEF ShellReads, AtPoint
<1>2. /\ pcb_curr \in Pid /\ Me = mem[pcb_curr] /\ Role(pcb_curr) /\ Used(pcb_curr)
  BY <1>1, Current
<1>3. Me.pc # "forked"
  <2> SUFFICES ASSUME Me.pc = "forked" PROVE FALSE
    OBVIOUS
  <2>1. pcb_curr \in {1, 2}
    BY <1>1, <1>2 DEF Role, Stands
  <2>2. /\ pcb_curr = 1 => IsParent(pcb_curr)
        /\ pcb_curr = 2 => IsChild(pcb_curr)
    BY <1>1, <1>2 DEF IsParent, IsChild, Stands, Prog
  <2> QED
    BY <1>1, <2>1, <2>2, Reply DEF ERROR
<1>4. pcb_curr = 1
  BY <1>1, <1>2, <1>3 DEF Role, Stands
<1>5. Calls /\ UNCHANGED wait_queue /\ sys'.at \in {"ret", "read"}
  BY <1>1, <1>2, CallEffects
<1>6. mem'[1].prog = "shell" /\ mem'[1].pc = "got" /\ pcb_curr' = 1
  BY <1>1, <1>2, <1>4, <1>5, CommandTypes, MoveEffect DEF Points, Moves, Calls
<1>7. ~IsParent(1) /\ ~IsParent(2)
  <2>1. Parent(2)
    BY DEF Orderly, Family
  <2>2. ~IsParent(1)
    BY <1>2, <1>3, <1>4 DEF IsParent, Stands
  <2>3. IsParent(2) => Used(2)
    BY Numbers DEF Orderly, Notes, IsParent, Stands, Prog
  <2> QED
    BY <1>4, <2>1, <2>2, <2>3 DEF Parent
<1>8. Role(pcb_curr)'
  BY <1>6 DEF Role, Stands
<1>9. Errand' /\ OnItsWay
  BY <1>4, <1>5, <1>6, <1>7 DEF Errand, OnItsWay, Stands
<1>10. "got" \in Points /\ (io'.words > 0 => io'.pid = 3)
  BY <1>1 DEF Points, Orderly, Notes
<1> QED
  BY <1>1, <1>5, <1>7, <1>8, <1>9, <1>10, GoesOn

LEMMA ShellWaits ==
    ASSUME Sizes, TypeOK, Owned, ProgramsType, Orderly, ShellForked, pcb_curr = 1
    PROVE  Orderly'
<1>1. sys.at = "user" /\ UNCHANGED io /\ Me.prog = "shell" /\ Me.pc = "forked"
  BY DEF ShellForked, AtPoint
<1>2. /\ pcb_curr \in Pid /\ Me = mem[pcb_curr] /\ Used(pcb_curr) /\ 1 \in Pid
  BY <1>1, Current
<1>3. IsParent(pcb_curr)
  BY <1>1, <1>2 DEF IsParent, Stands, Prog
<1>4. Me.r0 = 2 /\ Used(2)
  BY <1>1, <1>3, Reply
<1>5. Wait /\ Go("waited")
  BY <1>4 DEF ShellForked
<1>6. \A s \in Pid : wait_queue[s] = NoPid
  BY <1>1 DEF Orderly, Queues
<1>7. /\ \E slot \in Pid : wait_queue' = [wait_queue EXCEPT ![slot] = pcb_curr]
      /\ Only(pcb_curr) /\ SameContext(pcb'[pcb_curr], Curr) /\ pcb_curr' = pcb_curr
      /\ pcb'[pcb_curr].state = "BLOCKED" /\ SameMemory /\ UNCHANGED read_queue
      /\ Unanswered("sched")
  <2>1. {i \in Pid : wait_queue[i] = NoPid} # {}
    BY <1>2, <1>6
  <2>2. sys'.at = "sched"
    BY <1>5, <2>1 DEF Wait, Finish, UserMode
  <2>3. Unanswered("ret") => sys'.at = "ret"
    BY DEF Unanswered, UserMode
  <2> QED
    BY <1>5, <2>2, <2>3, WaitEffect
<1>8. Calls
  BY <1>1, <1>7 DEF Calls, SameContext, SameMemory
<1>9. sys'.at = "sched" /\ sys'.result = UNKNOWN /\ UNCHANGED system_page_table
  BY <1>7 DEF Unanswered, UserMode, SameMemory, tables
<1>10. Moves("waited", Me.cmd) /\ Me.cmd \in Command
  <2>1. "waited" \in Points
    BY DEF Points
  <2> QED
    BY <1>5, <2>1, CommandTypes, MoveEffect
<1>11. mem'[1].prog = "shell" /\ mem'[1].pc = "waited" /\ pcb_curr' = 1
  BY <1>1, <1>2, <1>8, <1>10 DEF Moves, Calls
<1>12. Role(pcb_curr)' /\ Errand' /\ OnItsWay
  BY <1>9, <1>11 DEF Role, Errand, OnItsWay, Stands
<1>13. Queues'
  <2>1. \A s \in Pid : wait_queue'[s] \in {NoPid, 1}
    BY <1>6, <1>7 DEF TypeOK
  <2>2. Used(1)' /\ Used(2)'
    BY <1>2, <1>4, <1>7, Numbers DEF Used, Only
  <2>3. \A s \in Pid : read_queue[s].pid # NoPid => read_queue[s].pid = 1
    BY DEF Orderly, Queues
  <2> QED
    BY <1>7, <1>9, <1>11, <2>1, <2>2, <2>3 DEF Queues
<1>14. Noted("waited", Me.cmd)
  BY <1>1 DEF Noted, Orderly, Notes
<1> QED
  BY <1>8, <1>10, <1>12, <1>13, <1>14, CallOrderly

LEMMA ShellOrderly ==
    ASSUME Sizes, TypeOK, Owned, ProgramsType, Orderly, ShellReads \/ ShellForked
    PROVE  Orderly'
<1>1. CASE ShellForked
  <2>1. sys.at = "user" /\ UNCHANGED io /\ Me.prog = "shell" /\ Me.pc = "forked"
    BY <1>1 DEF ShellForked, AtPoint
  <2>2. /\ pcb_curr \in Pid /\ Me = mem[pcb_curr] /\ Used(pcb_curr) /\ Role(pcb_curr)
    BY <2>1, Current
  <2>3. pcb_curr \in {1, 2}
    BY <2>1, <2>2 DEF Role, Stands
  <2>4. CASE pcb_curr = 2
    <3>1. IsChild(2)
      BY <2>1, <2>2, <2>4 DEF IsChild, Stands, Prog
    <3>2. Me.r0 = 0
      BY <2>1, <2>4, <3>1, Reply
    <3>3. Execv(Me.cmd.name, Me.cmd.period)
      BY <1>1, <3>2 DEF ShellForked
    <3>4. Me.cmd.name \in Names /\ Me.cmd.period \in Nat
      BY CommandTypes DEF Command
    <3>5. Me.cmd.name \in INSTALLED \cup OTHERS
      BY <2>1, <2>2, <2>4 DEF Orderly, Notes, Stands
    <3> QED
      BY <2>1, <2>4, <3>1, <3>3, <3>4, <3>5, ExecvOrderly
  <2> QED
    BY <1>1, <2>3, <2>4, ShellWaits
<1> QED
  BY <1>1, ShellReadsOrderly

LEMMA CommandsEnd ==
    ASSUME Sizes, TypeOK, Owned, ProgramsType, Orderly,
           \/ ChildFails \/ EchoEnds \/ PsEnds \/ BlinkFindsNoDescriptor \/ BlinkEnds
           \/ BlinkdFindsNoDescriptor
    PROVE  Orderly'
<1>1. /\ sys.at = "user" /\ UNCHANGED io /\ Leaves
      /\ \/ Me.prog \in {"shell", "blink"} /\ Me.pc = "execed"
         \/ Me.prog \in {"echo", "ps", "blink"} /\ Me.pc \in {"start", "listed", "killed"}
         \/ Me.prog = "blinkd" /\ Me.pc = "handles"
  BY DEF ChildFails, EchoEnds, PsEnds, BlinkFindsNoDescriptor, BlinkEnds,
     BlinkdFindsNoDescriptor, AtPoint
<1>2. /\ pcb_curr \in Pid /\ Me = mem[pcb_curr] /\ Role(pcb_curr)
  BY <1>1, Current
<1>3. pcb_curr \in {2, 3}
  BY <1>1, <1>2 DEF Role, Stands
<1>4. pcb_curr = 2 => ~IsParent(2)
  BY <1>1, <1>2 DEF IsParent, Stands
<1>5. io.words > 0 => io.pid = 3
  BY DEF Orderly, Notes
<1> QED
  BY <1>1, <1>3, <1>4, <1>5, LeavesOrderly

LEMMA PsStartsOrderly ==
    ASSUME Sizes, TypeOK, Owned, ProgramsType, Orderly, PsStarts
    PROVE  Orderly'
<1>1. /\ sys.at = "user" /\ UNCHANGED io /\ Me.prog = "ps" /\ Me.pc = "start"
      /\ Curr.state # "SIGNAL" /\ Ps /\ Go("listed")
  BY DEF PsStarts, AtPoint
<1>2. /\ pcb_curr \in Pid /\ Me = mem[pcb_curr] /\ Role(pcb_curr) /\ Used(pcb_curr)
  BY <1>1, Current
<1>3. pcb_curr = 2 /\ ~IsParent(2)
  BY <1>1, <1>2 DEF Role, Stands, IsParent
<1>4. Calls /\ UNCHANGED wait_queue /\ sys'.at = "ps"
  BY <1>1, <1>2, CallEffects
<1>5. mem'[2].prog = "ps" /\ mem'[2].pc = "listed" /\ pcb_curr' = 2
  BY <1>1, <1>2, <1>3, <1>4, CommandTypes, MoveEffect DEF Points, Moves, Calls
<1>6. Role(pcb_curr)' /\ Errand' /\ OnItsWay
  BY <1>3, <1>4, <1>5 DEF Role, Errand, OnItsWay, Stands
<1>7. "listed" \in Points /\ (io'.words > 0 => io'.pid = 3)
  BY <1>1 DEF Points, Orderly, Notes
<1> QED
  BY <1>1, <1>3, <1>4, <1>6, <1>7, GoesOn

LEMMA BlinkForkedOrderly ==
    ASSUME Sizes, TypeOK, Owned, ProgramsType, Orderly, BlinkForked
    PROVE  Orderly'
<1>1. /\ sys.at = "user" /\ Me.prog = "blink" /\ Me.pc = "forked"
  BY DEF BlinkForked, AtPoint
<1>2. /\ pcb_curr \in Pid /\ Me = mem[pcb_curr] /\ Role(pcb_curr)
  BY <1>1, Current
<1>3. pcb_curr \in {2, 3}
  BY <1>1, <1>2 DEF Role, Stands
<1>4. CASE pcb_curr = 2
  <2>1. IsParent(2)
    BY <1>1, <1>2, <1>4 DEF IsParent, Stands, Prog
  <2>2. Me.r0 = 3
    BY <1>1, <1>4, <2>1, Reply
  <2>3. io' = PidOf(3) /\ Leaves
    BY <2>2 DEF BlinkForked, ERROR
  <2>4. io'.words = 1 /\ io'.pid = 3
    BY <2>3 DEF PidOf, ProgramsType
  <2> QED
    BY <1>1, <1>4, <2>3, <2>4, LeavesOrderly
<1>5. CASE pcb_curr = 3
  <2>1. IsChild(3)
    BY <1>1, <1>2, <1>5 DEF IsChild, Stands, Prog
  <2>2. Me.r0 = 0
    BY <1>1, <1>5, <2>1, Reply
  <2>3. Execv("blinkd", Me.cmd.period) /\ UNCHANGED io
    BY <2>2 DEF BlinkForked, ERROR
  <2>4. "blinkd" \in Names /\ Me.cmd.period \in Nat
    BY CommandTypes DEF Command, Names
  <2> QED
    BY <1>1, <1>5, <2>1, <2>3, <2>4, ExecvOrderly
<1> QED
  BY <1>3, <1>4, <1>5

\* While nothing serves blink, nobody is at the pid in blink.io.
LEMMA BlinkSignalsOrderly ==
    ASSUME Sizes, TypeOK, Owned, ProgramsType, Orderly, BlinkSignals
    PROVE  Orderly'
<1>1. /\ sys.at = "user" /\ Me.prog = "blink" /\ Me.pc = "start" /\ io.words > 0
      /\ Curr.state # "SIGNAL" /\ Kill(io.pid, SIGUSR1) /\ Go("killed")
      /\ io' = NewPeriod(Me.cmd.period)
  BY DEF BlinkSignals, AtPoint
<1>2. /\ pcb_curr \in Pid /\ Me = mem[pcb_curr] /\ Role(pcb_curr) /\ Used(pcb_curr)
  BY <1>1, Current
<1>3. pcb_curr = 2 /\ ~IsParent(2)
  BY <1>1, <1>2 DEF Role, Stands, IsParent
<1>4. ~Used(3) /\ io.pid = 3
  BY <1>1, <1>3, NoChild DEF Orderly, Notes
<1>5. /\ SameProcs /\ UNCHANGED <<queues, saved_r0>> /\ sys'.at = "ret"
  BY <1>1, <1>4 DEF Kill, Finish, SameProcs, procs, UNKNOWN, ERROR
<1>6. Calls /\ UNCHANGED wait_queue
  BY <1>1, <1>2, <1>5, Current DEF SameProcs, Calls, queues, Only, SamePlace, Used
<1>7. mem'[2].prog = "blink" /\ mem'[2].pc = "killed" /\ pcb_curr' = 2
  BY <1>1, <1>2, <1>3, <1>6, CommandTypes, MoveEffect DEF Points, Moves, Calls
<1>8. Role(pcb_curr)' /\ Errand' /\ OnItsWay
  BY <1>3, <1>5, <1>7 DEF Role, Errand, OnItsWay, Stands
<1>9. "killed" \in Points /\ io'.words > 0 /\ io'.pid = 3
  <2>1. io'.words = 2 /\ io'.pid = io.pid
    BY <1>1 DEF NewPeriod, ProgramsType
  <2> QED
    BY <1>4, <2>1 DEF Points
<1> QED
  BY <1>1, <1>3, <1>5, <1>6, <1>8, <1>9, GoesOn

LEMMA BlinkdStartsOrderly ==
    ASSUME Sizes, TypeOK, Owned, ProgramsType, Orderly, BlinkdStarts
    PROVE  Orderly'
<1>1. /\ sys.at = "user" /\ Me.prog = "blinkd" /\ Me.pc = "start"
      /\ Curr.state # "SIGNAL" /\ Signal(SIGUSR1, TRUE) /\ UNCHANGED io
      /\ mem' = [mem EXCEPT ![pcb_curr].pc = "handles", ![pcb_curr].period = Me.cmd.period]
  BY DEF BlinkdStarts, AtPoint
<1>2. /\ pcb_curr \in Pid /\ Me = mem[pcb_curr] /\ Role(pcb_curr) /\ Used(pcb_curr)
  BY <1>1, Current
<1>3. pcb_curr = 3
  BY <1>1, <1>2 DEF Role, Stands
<1>4. /\ Calls /\ UNCHANGED wait_queue /\ sys'.at = "ret"
      /\ SIGUSR1 \in pcb'[pcb_curr].signal_handler
  BY <1>1, <1>2, CallEffects
<1>5. Moves("handles", Me.cmd)
  <2>1. "handles" \in Points /\ Me.cmd \in Command /\ Me.cmd.period \in Nat
    BY CommandTypes DEF Points, Command
  <2> QED
    BY <1>1, <2>1, MoveEffect
<1>6. mem'[3].prog = "blinkd" /\ mem'[3].pc = "handles" /\ pcb_curr' = 3
  BY <1>1, <1>2, <1>3, <1>4, <1>5 DEF Moves, Calls
<1>7. Role(pcb_curr)' /\ Errand' /\ OnItsWay
  BY <1>3, <1>4, <1>6 DEF Role, Errand, OnItsWay, Stands
<1>8. Noted("handles", Me.cmd)
  BY <1>1, <1>3 DEF Noted, Orderly, Notes
<1> QED
  BY <1>4, <1>5, <1>7, <1>8, CallOrderly

\* blinkd blinks: what blink has to know of it is in blink.io.
LEMMA BlinkdServes ==
    ASSUME Sizes, TypeOK, Owned, ProgramsType, Orderly, BlinkdBlinks
    PROVE  Serving'
<1>1. /\ sys.at = "user" /\ Me.prog = "blinkd" /\ Me.pc = "handles" /\ UNCHANGED io
      /\ Curr.state # "SIGNAL" /\ Usleep(MAX_TIMEOUT) /\ Go("slept")
  BY DEF BlinkdBlinks, AtPoint
<1>2. /\ pcb_curr \in Pid /\ Me = mem[pcb_curr] /\ Role(pcb_curr) /\ Used(pcb_curr)
      /\ Curr = pcb[pcb_curr]
  BY <1>1, Current
<1>3. pcb_curr = 3 /\ SIGUSR1 \in pcb[3].signal_handler
  BY <1>1, <1>2 DEF Role, Stands
<1>4. /\ Only(pcb_curr) /\ pcb_curr' = pcb_curr /\ SameContext(pcb'[pcb_curr], Curr)
      /\ pcb'[pcb_curr].state \in {"READY", "SLEEP"} /\ sys'.at = "sched"
  BY <1>1, Numbers, YieldEffect DEF Answered
<1>5. /\ \A i \in Pid \ {3} : mem'[i] = mem[i]
      /\ mem'[3].prog = "blinkd" /\ mem'[3].pc = "slept"
  BY <1>1, <1>2, <1>3, CommandTypes, MoveEffect DEF Points, Moves
<1>6. \A i \in Pid : ~Stands(i, "blink", {"forked"})
  <2>1. ASSUME NEW i \in Pid, Stands(i, "blink", {"forked"})
        PROVE  FALSE
    <3>1. Used(i) /\ Role(i)
      BY <2>1 DEF Orderly, Notes, Cast
    <3>2. i \in {2, 3}
      BY <2>1, <3>1 DEF Role, Stands
    <3>3. i = 2
      BY <1>1, <1>2, <1>3, <2>1, <3>2 DEF Stands
    <3>4. Parent(2) /\ IsParent(2)
      BY <2>1, <3>3 DEF Orderly, Family, IsParent, Prog, Stands
    <3> QED
      BY <1>3, <3>1, <3>3, <3>4 DEF Parent
  <2> QED
    BY <2>1
<1>7. io.words > 0 /\ io.pid = 3
  <2>1. ~IsParent(2)
    BY <1>6, Numbers DEF IsParent, Stands, Prog
  <2> QED
    BY <1>2, <1>3, <2>1 DEF Orderly, Notes
<1>8. Used(3)' /\ SIGUSR1 \in pcb'[3].signal_handler
  BY <1>2, <1>3, <1>4 DEF Used, SameContext
<1>9. \A i \in Pid : ~Stands(i, "blink", {"forked"})'
  BY <1>5, <1>6 DEF Stands
<1> QED
  BY <1>1, <1>4, <1>5, <1>7, <1>8, <1>9 DEF Serving, Stands

\* A program that is not about to fork.
LEMMA ProgramsOrderly ==
    ASSUME Sizes, TypeOK, Owned, ProgramsType, Orderly, ProgramStep,
           ~(InitStarts \/ ShellRuns \/ BlinkForks)
    PROVE  Orderly' \/ Serving'
<1>1. ~Handler
  BY DEF Handler, SignalReturn, Orderly, Cast, TypeOK, Curr
<1>2. ~BlinkdGoesOn
  <2>1. ASSUME BlinkdGoesOn PROVE FALSE
    <3>1. sys.at = "user" /\ Me.prog = "blinkd" /\ Me.pc = "slept"
      BY <2>1 DEF BlinkdGoesOn, AtPoint
    <3>2. Me = mem[pcb_curr] /\ Role(pcb_curr)
      BY <3>1, Current
    <3> QED
      BY <3>1, <3>2 DEF Role, Stands
  <2> QED
    BY <2>1
<1> QED
  BY <1>1, <1>2, InitOrderly, ShellOrderly, CommandsEnd, PsStartsOrderly, BlinkForkedOrderly,
     BlinkSignalsOrderly, BlinkdStartsOrderly, BlinkdServes DEF ProgramStep

----------------------------------------------------------------------------
(* The forks.  The slots are taken one after the other. *)

\* The next slot is the first that is free.
LEMMA NextSlot ==
    ASSUME Sizes, TypeOK, Owned, Orderly, Fork, Alive', pcb_curr # 3, ~IsParent(pcb_curr),
           pcb_curr = 0 => Me.pc = "start"
    PROVE  /\ ~Used(pcb_curr + 1)
           /\ \E text, stack \in Frame : Spawned(pcb_curr + 1, text, stack)
<1> DEFINE free == {i \in Pid : ~Used(i)}
<1>1. /\ sys.at = "user" /\ Cast
  BY DEF Fork, May, Orderly
<1>2. /\ pcb_curr \in 0 .. 2 /\ Used(pcb_curr) /\ Me = mem[pcb_curr]
      /\ \A i \in 0 .. 3 : i \in Pid
  BY <1>1, Current
<1>3. ~Used(pcb_curr + 1)
  <2>1. CASE pcb_curr = 0
    BY <1>1, <1>2, <2>1 DEF Cast
  <2>2. CASE pcb_curr \in {1, 2}
    BY <1>1, <2>2, NoChild
  <2> QED
    BY <1>2, <2>1, <2>2
<1>4. \A i \in 0 .. pcb_curr : Used(i)
  BY <1>1, <1>2 DEF Cast
<1>5. pcb_curr + 1 \in free
  BY <1>2, <1>3
<1>6. ASSUME NEW k \in Pid, IsFirst(k, free)
      PROVE  k = pcb_curr + 1
  <2>1. k <= pcb_curr + 1 /\ ~Used(k)
    BY <1>5, <1>6 DEF IsFirst
  <2> QED
    BY <1>2, <1>4, <2>1 DEF Pid
<1>7. \E c \in free : IsFirst(c, free) /\ Enter("fork", c)
  <2>1. ~Crash(system_page_table)
    BY DEF Alive, Crash, UserMode
  <2> QED
    BY <1>5, <2>1 DEF Fork
<1>8. sys'.at = "fork" /\ \E c \in free : IsFirst(c, free) /\ sys'.arg = c
  BY <1>7 DEF Enter
<1>9. PICK k \in Pid, text \in Frame, stack \in Frame : Spawned(k, text, stack)
  <2>1. ~Answered("ret", ERROR)
    BY <1>8 DEF Answered
  <2> QED
    BY <2>1, ForkEffect
<1>10. IsFirst(k, free)
  BY <1>8, <1>9 DEF Spawned
<1> QED
  BY <1>3, <1>6, <1>9, <1>10

LEMMA ForksOrderly ==
    ASSUME Sizes, TypeOK, Owned, Orderly, Fork, Alive',
           pcb_curr # 3, pcb_curr = 0 => Me.pc = "start", Me.prog = Prog(pcb_curr), Me.pc # "forked",
           NEW cmd, Moves("forked", cmd), UNCHANGED io,
           pcb_curr = 1 => cmd.name \in INSTALLED \cup OTHERS
    PROVE  Orderly'
<1>1. /\ sys.at = "user" /\ Cast /\ Family /\ Stacks /\ Queues /\ Notes
  BY DEF Fork, May, Orderly
<1>2. /\ pcb_curr \in 0 .. 2 /\ Used(pcb_curr) /\ Me = mem[pcb_curr]
      /\ pcb_curr \in Pid /\ Curr = pcb[pcb_curr]
      /\ \A i \in 0 .. 3 : i \in Pid
  BY <1>1, Current
<1>3. /\ ~Used(pcb_curr + 1)
      /\ \E text, stack \in Frame : Spawned(pcb_curr + 1, text, stack)
  BY <1>2, NextSlot DEF IsParent, Stands
<1>4. /\ Only(pcb_curr + 1) /\ pcb_curr' = pcb_curr
      /\ pcb'[pcb_curr + 1].state = pcb[pcb_curr + 1].state
      /\ pcb'[pcb_curr + 1].virtual_stack_frame = Curr.stack_frame
      /\ UNCHANGED queues
      /\ sys'.at = "fork" /\ sys'.arg = pcb_curr + 1 /\ sys'.sp = Curr.stack_pointer
  BY <1>3 DEF Spawned
<1>5. /\ \A i \in Pid : Used(i) => pcb'[i] = pcb[i] /\ Used(i)'
      /\ \A i \in Pid : Used(i)' => Used(i)
      /\ \A i \in Pid : pcb'[i].state = pcb[i].state
  BY <1>2, <1>3, <1>4 DEF Only, Used
<1>6. /\ \A i \in Pid \ {pcb_curr} : mem'[i] = mem[i]
      /\ \A i \in Pid : mem'[i].prog = mem[i].prog
      /\ mem'[pcb_curr].prog = Prog(pcb_curr) /\ mem'[pcb_curr].pc = "forked"
      /\ mem'[pcb_curr].cmd = cmd
  BY <1>2 DEF Moves
<1>7. /\ \A p \in 0 .. 2 \ {pcb_curr} : ~(Used(p) /\ IsParent(p))
      /\ \A k \in 1 .. 3 \ {pcb_curr} : k # pcb_curr + 1 => ~(Used(k) /\ IsChild(k))
  BY <1>1 DEF Family, Parent, Child
<1>8. Cast'
  <2>1. ASSUME NEW i \in Pid, Used(i)
        PROVE  i <= 3 /\ Role(i)'
    <3>1. i # pcb_curr => (Role(i)' <=> Role(i))
      BY <1>5, <1>6, <2>1 DEF Role, Stands
    <3>2. i = pcb_curr => Role(i)'
      BY <1>2, <1>6 DEF Role, Stands, Prog
    <3> QED
      BY <1>1, <2>1, <3>1, <3>2 DEF Cast
  <2>2. mem'[0].pc = mem[0].pc \/ mem'[0].pc = "forked"
    BY <1>2, <1>6
  <2>3. /\ \A k \in 0 .. 3 : Used(k)' <=> Used(k)
        /\ \A k \in 1 .. 3 : Used(k) => pcb'[k] = pcb[k]
    BY <1>2, <1>5
  <2>4. \A i \in Pid : pcb'[i].state # "SIGNAL" /\ (Used(i)' => i <= 3 /\ Role(i)')
    BY <1>1, <1>5, <2>1 DEF Cast
  <2>5. Used(0)' /\ (Used(1)' => mem'[0].pc # "start")
    BY <1>1, <2>2, <2>3 DEF Cast
  <2>6. Used(2)' => Used(1)' /\ pcb_curr \in {1, 2} /\ pcb'[2].parent_pid = 1
    BY <1>1, <2>3 DEF Cast
  <2>7. Used(3)' => Used(1)' /\ pcb_curr \in {2, 3} /\ pcb'[3].parent_pid = 2
    BY <1>1, <2>3 DEF Cast
  <2>8. pcb_curr' = pcb_curr /\ pcb_curr \in 0 .. 3
    BY <1>2, <1>4
  <2> QED
    BY <2>4, <2>5, <2>6, <2>7, <2>8 DEF Cast
<1>9. Errand'
  <2>1. IsParent(pcb_curr)'
    BY <1>4, <1>6 DEF IsParent, Stands
  <2>2. Curr' = Curr
    BY <1>2, <1>4, <1>5 DEF Curr
  <2> QED
    BY <1>2, <1>3, <1>4, <1>5, <2>1, <2>2 DEF Errand
<1>10. Family'
  <2>1. ASSUME NEW p \in 0 .. 2
        PROVE  Parent(p)'
    <3>1. p # pcb_curr => (IsParent(p)' <=> IsParent(p)) /\ p \in Pid
      BY <1>2, <1>6 DEF IsParent, Stands
    <3> QED
      BY <1>4, <1>5, <1>7, <2>1, <3>1 DEF Parent
  <2>2. ASSUME NEW k \in 1 .. 3
        PROVE  Waiter(k)' /\ Child(k)'
    <3>1. k # pcb_curr => (IsChild(k)' <=> IsChild(k))
      BY <1>2, <1>6 DEF IsChild, Stands
    <3>2. k = pcb_curr => ~IsChild(k)'
      BY <1>2, <1>6 DEF IsChild, Stands, Prog
    <3>3. k \in Pid /\ (k = pcb_curr + 1 => ~Used(k)')
      BY <1>2, <1>3, <1>5
    <3>4. Waiter(k)'
      BY <1>2, <1>4, <3>3 DEF Waiter
    <3>5. Child(k)'
      BY <1>2, <1>4, <1>5, <1>7, <2>2, <3>1, <3>2, <3>3 DEF Child
    <3> QED
      BY <3>4, <3>5
  <2> QED
    BY <2>1, <2>2 DEF Family
<1>11. Stacks'
  <2>1. \A p \in 0 .. 2 : Used(p)' => Unexeced(pcb[p])' = Unexeced(pcb[p])
    BY <1>2, <1>5
  <2> QED
    BY <1>1, <1>2, <1>4, <1>5, <1>6, <2>1 DEF Stacks
<1>12. Queues'
  BY <1>1, <1>2, <1>4, <1>5, <1>6 DEF Queues, queues
<1>13. Notes'
  <2>1. ~Used(3)'
    BY <1>1, <1>2, <1>3, <1>5 DEF Cast
  <2>2. \A i \in Pid : Stands(i, "blink", {"forked"})' => Used(i)'
    BY <1>1, <1>2, <1>5, <1>6 DEF Notes, Stands
  <2>3. /\ Used(1)' /\ Stands(1, "init", {"execed"})' => mem'[1].cmd.name = "shell"
        /\ Used(1)' /\ Stands(1, "shell", {"forked"})' => mem'[1].cmd.name \in INSTALLED \cup OTHERS
        /\ Used(2)' /\ Stands(2, "shell", {"forked", "execed"})' => mem'[2].cmd.name \in INSTALLED \cup OTHERS
    BY <1>1, <1>2, <1>5, <1>6 DEF Notes, Stands, Prog
  <2> QED
    BY <1>1, <2>1, <2>2, <2>3 DEF Notes
<1> QED
  BY <1>8, <1>9, <1>10, <1>11, <1>12, <1>13 DEF Orderly

LEMMA ForkStepsOrderly ==
    ASSUME Sizes, TypeOK, Owned, ProgramsType, Orderly, Alive', InitStarts \/ ShellRuns \/ BlinkForks
    PROVE  Orderly'
<1>1. /\ sys.at = "user" /\ Fork /\ UNCHANGED io
      /\ InitStarts => Me.prog = "init" /\ Me.pc = "start" /\ Go("forked")
      /\ BlinkForks => Me.prog = "blink" /\ Me.pc = "start" /\ Go("forked")
      /\ ShellRuns => Me.prog = "shell" /\ Me.pc = "got"
  BY DEF InitStarts, ShellRuns, BlinkForks, AtPoint
<1>2. /\ pcb_curr \in Pid /\ Me = mem[pcb_curr] /\ Role(pcb_curr) /\ Me.cmd \in Command
      /\ "forked" \in Points
  BY <1>1, Current, CommandTypes DEF Points
<1>3. CASE InitStarts \/ BlinkForks
  <2>1. Moves("forked", Me.cmd)
    BY <1>1, <1>2, <1>3, MoveEffect
  <2>2. pcb_curr \in {0, 2} /\ Me.prog = Prog(pcb_curr) /\ Me.pc = "start"
    BY <1>1, <1>2, <1>3 DEF Role, Stands, Prog
  <2> QED
    BY <1>1, <2>1, <2>2, ForksOrderly
<1>4. CASE ShellRuns
  <2>1. PICK command \in Commands :
          mem' = [mem EXCEPT ![pcb_curr].pc = "forked", ![pcb_curr].cmd = command]
    BY <1>4 DEF ShellRuns
  <2>2. command \in Command /\ command.name \in INSTALLED \cup OTHERS
    BY CommandTypes
  <2>3. Moves("forked", command)
    BY <1>2, <2>1, <2>2, MoveEffect
  <2>4. pcb_curr = 1 /\ Me.prog = Prog(pcb_curr) /\ Me.pc = "got"
    BY <1>1, <1>2, <1>4 DEF Role, Stands, Prog
  <2> QED
    BY <1>1, <2>2, <2>3, <2>4, ForksOrderly
<1> QED
  BY <1>3, <1>4

----------------------------------------------------------------------------
(* The kernel goes on with a call. *)

\* Nobody's context changes.
Kept ==
    /\ pcb_curr' = pcb_curr /\ UNCHANGED <<mem, io>>
    /\ \A i \in Pid : /\ SameContext(pcb'[i], pcb[i])
                      /\ (Used(i)' <=> Used(i)) /\ pcb'[i].state # "SIGNAL"

LEMMA KeptOrderly ==
    ASSUME Sizes, TypeOK, Owned, Orderly, Kept, Errand', Family', Queues',
           sys'.at = "user" => system_page_table'[Curr.virtual_stack_frame] = Curr.stack_frame
    PROVE  Orderly'
<1>1. /\ pcb_curr \in Pid /\ Curr = pcb[pcb_curr] /\ \A i \in 0 .. 3 : i \in Pid
      /\ Cast /\ Stacks /\ Notes
  BY Current DEF Orderly
<1>2. \A i \in Pid : Stands(i, "blink", {"forked"})' <=> Stands(i, "blink", {"forked"})
  BY DEF Kept, Stands
<1>3. Cast'
  <2>1. \A i \in Pid : Role(i)' <=> Role(i)
    BY <1>1 DEF Kept, SameContext, Role, Stands
  <2> QED
    BY <1>1, <2>1 DEF Kept, SameContext, SamePlace, Cast
<1>4. Stacks'
  <2>1. \A p \in 0 .. 2 : Unexeced(pcb[p])' <=> Unexeced(pcb[p])
    BY <1>1 DEF Kept, SameContext, SamePlace, Unexeced
  <2>2. Curr'.virtual_stack_frame = Curr.virtual_stack_frame /\ Curr'.stack_frame = Curr.stack_frame
    BY <1>1 DEF Kept, SameContext, SamePlace, Curr
  <2> QED
    BY <1>1, <2>1, <2>2 DEF Kept, SameContext, SamePlace, Stacks
<1>5. Notes'
  BY <1>1, <1>2 DEF Kept, Notes, Stands, IsParent
<1> QED
  BY <1>3, <1>4, <1>5 DEF Orderly

\* While one of these calls is in progress, no fork is waiting to be noticed.
LEMMA NoFamily ==
    ASSUME Sizes, TypeOK, Owned, Orderly, sys.at \in {"read", "block", "exec", "ps"}
    PROVE  /\ \A p \in 0 .. 2 : Used(p) => ~IsParent(p)
           /\ \A k \in 1 .. 3 : Used(k) => ~IsChild(k) /\ (pcb_curr = k - 1 => k = 1)
<1>1. Family /\ Used(pcb_curr) /\ pcb_curr \in 0 .. 3
  BY Current DEF Orderly
<1>2. \A p \in 0 .. 2 : Used(p) => ~IsParent(p)
  BY <1>1 DEF Family, Parent
<1>3. ASSUME NEW k \in 1 .. 3, Used(k)
      PROVE  ~IsChild(k) /\ (pcb_curr = k - 1 => k = 1)
  <2>1. Waiter(k) /\ Child(k)
    BY <1>1, <1>3 DEF Family
  <2>2. pcb_curr = k - 1 => k = 1 /\ ~IsChild(k)
    BY <1>1, <1>2, <1>3, <2>1 DEF Waiter
  <2> QED
    BY <1>3, <2>1, <2>2 DEF Child
<1> QED
  BY <1>2, <1>3

LEMMA KeptFamily ==
    ASSUME Sizes, TypeOK, Owned, Orderly, Kept, sys.at \in {"read", "block", "exec", "ps"}
    PROVE  Family'
<1>1. \A i \in 0 .. 3 : i \in Pid
  BY Numbers
<1>2. /\ \A p \in 0 .. 2 : (Used(p)' <=> Used(p)) /\ (IsParent(p)' <=> IsParent(p))
      /\ \A k \in 1 .. 3 : (Used(k)' <=> Used(k)) /\ (IsChild(k)' <=> IsChild(k))
      /\ pcb_curr' = pcb_curr
  BY <1>1 DEF Kept, IsParent, IsChild, Stands
<1> QED
  BY <1>2, NoFamily DEF Family, Parent, Waiter, Child

\* ... or is left.
LEMMA SameKept ==
    ASSUME TypeOK, Orderly, SameProcs, UNCHANGED <<mem, io>>
    PROVE  Kept
  BY DEF SameProcs, Kept, SameContext, SamePlace, Orderly, Cast, Used

LEMMA ReadsOrderly ==
    ASSUME Sizes, TypeOK, Owned, Orderly, ReadEnqueue \/ ReadBlock, UNCHANGED progVars
    PROVE  Orderly'
<1>1. sys.at \in {"read", "block"} /\ UNCHANGED <<mem, io>>
  BY DEF ReadEnqueue, ReadBlock, progVars
<1>2. /\ Stands(pcb_curr, "shell", {"got"}) /\ Role(pcb_curr) /\ pcb_curr \in Pid
      /\ Used(pcb_curr) /\ Curr = pcb[pcb_curr]
  BY <1>1, Current DEF Orderly, Errand
<1>3. pcb_curr = 1
  BY <1>2 DEF Role, Stands
<1>4. Queues /\ \A s \in Pid : wait_queue[s] = NoPid
  BY <1>1, <1>3 DEF Orderly, Queues
<1>5. CASE ReadEnqueue
  <2>1. SameProcs /\ UNCHANGED wait_queue /\ sys'.at = "block"
    BY <1>5 DEF ReadEnqueue, SameProcs, procs, TypeOK
  <2>2. Kept
    BY <1>1, <2>1, SameKept
  <2>3. \A s \in Pid : read_queue'[s].pid \in {read_queue[s].pid, 1}
    <3>1. read_queue \in [Pid -> ReadTransaction]
      BY DEF TypeOK
    <3>2. \/ read_queue' = read_queue
          \/ \E slot \in Pid : read_queue' = [read_queue EXCEPT ![slot] =
                [pid |-> pcb_curr, buf |-> sys.sp.section, size |-> sys.arg]]
      BY <1>5 DEF ReadEnqueue
    <3> QED
      BY <1>3, <3>1, <3>2
  <2>4. Queues'
    BY <1>2, <1>3, <1>4, <2>1, <2>2, <2>3 DEF Queues, Kept, Stands
  <2>5. Errand'
    BY <1>2, <1>3, <2>1, <2>2 DEF Errand, Kept, Stands
  <2> QED
    BY <1>1, <2>1, <2>2, <2>4, <2>5, KeptFamily, KeptOrderly
<1>6. CASE ReadBlock
  <2>1. /\ Only(pcb_curr) /\ pcb_curr' = pcb_curr /\ SameContext(pcb'[pcb_curr], Curr)
        /\ pcb'[pcb_curr].state = "BLOCKED" /\ UNCHANGED queues /\ sys'.at = "sched"
    BY <1>6, ReadBlockEffect DEF TypeOK
  <2>2. Kept
    BY <1>1, <1>2, <2>1 DEF Kept, Only, Used, SameContext, SamePlace, Orderly, Cast
  <2>3. Queues'
    BY <1>2, <1>3, <1>4, <2>1, <2>2, Numbers DEF Queues, queues, Kept, Stands
  <2>4. Errand'
    BY <1>3, <2>1 DEF Errand
  <2> QED
    BY <1>1, <2>1, <2>2, <2>3, <2>4, KeptFamily, KeptOrderly
<1> QED
  BY <1>5, <1>6

LEMMA PsOrderly ==
    ASSUME Sizes, TypeOK, Owned, Orderly, PsStep \/ PsDone, UNCHANGED progVars, Alive'
    PROVE  Orderly'
<1>1. sys.at = "ps" /\ UNCHANGED <<mem, io>>
  BY DEF PsStep, PsDone, progVars
<1>2. SameProcs /\ UNCHANGED queues /\ sys'.at \in {"ps", "ret"}
  <2>1. CASE PsStep
    BY <1>1, <2>1, PsStepEffect DEF TypeOK
  <2>2. CASE PsDone
    BY <2>2 DEF PsDone, SameProcs, procs, TypeOK
  <2> QED
    BY <2>1, <2>2
<1>3. Kept
  BY <1>1, <1>2, SameKept
<1>4. Errand'
  BY <1>1, <1>2, <1>3 DEF Orderly, Errand, Kept, Stands
<1>5. Queues'
  BY <1>1, <1>2, <1>3, Numbers DEF Orderly, Queues, queues, Kept
<1> QED
  BY <1>1, <1>2, <1>3, <1>4, <1>5, KeptFamily, KeptOrderly

LEMMA NotExecedOrderly ==
    ASSUME Sizes, TypeOK, Owned, Orderly, ProgramNotExeced
    PROVE  Orderly'
<1>1. /\ sys.at = "exec" /\ UNCHANGED <<mem, io>> /\ SameProcs /\ UNCHANGED queues
      /\ sys'.at = "ret"
  BY DEF ProgramNotExeced, progVars, ExecFails, SameProcs, procs, Leave, ERROR, UNKNOWN, TypeOK
<1>2. Kept
  BY <1>1, SameKept
<1>3. Errand'
  BY <1>1 DEF Errand
<1>4. Queues'
  BY <1>1, <1>2, Numbers DEF Orderly, Queues, queues, Kept
<1> QED
  BY <1>1, <1>2, <1>3, <1>4, KeptFamily, KeptOrderly

\* The next process is the child that the last one has left, or the shell or
\* init.
LEMMA ScheduleNext ==
    ASSUME Sizes, TypeOK, Owned, Orderly, Schedule
    PROVE  /\ pcb_curr' \in 0 .. 3 /\ Used(pcb_curr')
           /\ \A k \in 1 .. 3 : Used(k) /\ pcb_curr = k - 1 /\ Fresh(k) => pcb_curr' = k
           /\ ~Used(2) => pcb_curr' # 2
           /\ Used(2) => pcb_curr = 1 /\ pcb_curr' = 2
           /\ Used(3) => pcb_curr = 2 /\ pcb_curr' = 3
<1>1. /\ sys.at = "sched" /\ pcb_curr' \in Pid
      /\ pcb[pcb_curr'].state \in {"READY", "SLEEP"}
      /\ pcb_curr \in 0 .. 3 /\ \A i \in 0 .. 3 : i \in Pid
      /\ Cast /\ Family /\ Errand
  BY Current, ScheduleEffect DEF Orderly
<1>2. Used(pcb_curr') /\ pcb_curr' \in 0 .. 3
  BY <1>1 DEF Used, Cast, Pid
<1>3. ASSUME NEW k \in 1 .. 3, pcb_curr = k - 1, Fresh(k)
      PROVE  pcb_curr' = k
  <2>1. After(1) = k
    <3>1. k % MAX_PROCESSES = k
      BY KernelAssumption DEF Sizes
    <3> QED
      BY <1>3, <3>1 DEF After
  <2>2. Runnable(pcb[After(1)])
    BY <1>3, <2>1 DEF Runnable, Fresh
  <2>3. PICK n \in 1 .. MAX_PROCESSES :
          (\A j \in 1 .. n - 1 : ~Runnable(pcb[After(j)])) /\ pcb_curr' = After(n)
    BY DEF Schedule
  <2>4. n = 1
    BY <2>2, <2>3, KernelAssumption
  <2> QED
    BY <2>1, <2>3, <2>4
<1>4. ASSUME NEW k \in 2 .. 3, Used(k)
      PROVE  pcb_curr = k - 1 /\ pcb_curr' = k
  <2>1. pcb_curr = k - 1
    BY <1>1, <1>4 DEF Cast, Errand
  <2>2. Waiter(k)
    BY <1>1, <1>4 DEF Family
  <2> QED
    BY <1>3, <1>4, <2>1, <2>2 DEF Waiter
<1> QED
  BY <1>2, <1>3, <1>4

LEMMA ScheduleOrderly ==
    ASSUME Sizes, TypeOK, Owned, Orderly, Schedule, UNCHANGED progVars
    PROVE  Orderly'
<1>1. /\ sys.at = "sched" /\ sys'.at = "ret" /\ sys'.result = sys.result /\ sys'.sp = sys.sp
      /\ pcb_curr' \in Pid /\ Only(pcb_curr')
      /\ SameContext(pcb'[pcb_curr'], pcb[pcb_curr'])
      /\ pcb'[pcb_curr'].state \in {"READY", "RUNNING"}
      /\ UNCHANGED <<system_page_table, saved_r0, queues, mem, io>>
  BY ScheduleEffect DEF progVars, SameMemory, tables, TypeOK
<1>2. /\ pcb_curr \in 0 .. 3 /\ \A i \in 0 .. 3 : i \in Pid
      /\ Cast /\ Family /\ Errand /\ Stacks /\ Queues /\ Notes
  BY Current DEF Orderly
<1>3. /\ pcb_curr' \in 0 .. 3 /\ Used(pcb_curr')
      /\ \A k \in 1 .. 3 : Used(k) /\ pcb_curr = k - 1 /\ Fresh(k) => pcb_curr' = k
      /\ Used(2) => pcb_curr = 1 /\ pcb_curr' = 2
      /\ Used(3) => pcb_curr = 2 /\ pcb_curr' = 3
  BY ScheduleNext
<1>4. \A i \in Pid : /\ SameContext(pcb'[i], pcb[i])
                     /\ (Used(i)' <=> Used(i)) /\ pcb'[i].state # "SIGNAL"
  BY <1>1, <1>2, <1>3 DEF Only, Used, SameContext, SamePlace, Cast
<1>5. Cast'
  <2>1. \A i \in Pid : Role(i)' <=> Role(i)
    BY <1>1, <1>2, <1>4 DEF SameContext, Role, Stands
  <2>2. \A i \in Pid : pcb'[i].parent_pid = pcb[i].parent_pid
    BY <1>4 DEF SameContext, SamePlace
  <2>3. Used(2) => pcb_curr' \in {1, 2}
    BY <1>3
  <2>4. Used(3) => pcb_curr' \in {2, 3}
    BY <1>3
  <2>5. \A i \in Pid : pcb'[i].state # "SIGNAL" /\ (Used(i)' => i <= 3 /\ Role(i)')
    BY <1>2, <1>4, <2>1 DEF Cast
  <2>6. \A k \in 0 .. 3 : (Used(k)' <=> Used(k)) /\ pcb'[k].parent_pid = pcb[k].parent_pid
    BY <1>2, <1>4, <2>2
  <2> QED
    BY <1>1, <1>2, <1>3, <2>3, <2>4, <2>5, <2>6 DEF Cast
<1>6. Errand'
  BY <1>1 DEF Errand
<1>7. Family'
  <2>1. /\ \A p \in 0 .. 2 : (Used(p)' <=> Used(p)) /\ (IsParent(p)' <=> IsParent(p))
        /\ \A k \in 1 .. 3 : (Used(k)' <=> Used(k)) /\ (IsChild(k)' <=> IsChild(k))
    BY <1>1, <1>2, <1>4 DEF IsParent, IsChild, Stands
  <2>2. \A p \in 0 .. 2 : Used(p) => ~IsParent(p)
    BY <1>1, <1>2 DEF Family, Parent
  <2>3. ASSUME NEW k \in 1 .. 3, Used(k), IsChild(k)
        PROVE  pcb_curr = k - 1 /\ Fresh(k) /\ pcb_curr' = k
    BY <1>1, <1>2, <1>3, <2>2, <2>3 DEF Family, Child, Waiter
  <2>4. ASSUME NEW k \in 1 .. 3
        PROVE  Child(k)' /\ Waiter(k)'
    <3>1. Fresh(k) => ResumeR0(k)' = 0 /\ Misses(pcb[k].stack_frame)'
      BY <1>1, <1>2, <1>4 DEF Fresh, ResumeR0, Misses, SameContext, SamePlace
    <3>2. pcb'[k].stack_frame = pcb[k].stack_frame
      BY <1>2, <1>4 DEF SameContext, SamePlace
    <3>3. Child(k)'
      BY <1>1, <2>1, <2>3, <3>1, <3>2 DEF Child, Misses
    <3>4. Waiter(k)'
      BY <1>1, <1>3, <2>1, <2>3 DEF Waiter
    <3> QED
      BY <3>3, <3>4
  <2> QED
    BY <2>1, <2>2, <2>4 DEF Family, Parent
<1>8. Stacks'
  <2>1. \A p \in 0 .. 2 : Unexeced(pcb[p])' <=> Unexeced(pcb[p])
    BY <1>2, <1>4 DEF SameContext, SamePlace, Unexeced
  <2> QED
    BY <1>1, <1>2, <1>4, <2>1 DEF SameContext, SamePlace, Stacks
<1>9. Queues'
  BY <1>1, <1>2, <1>3, <1>4 DEF Queues, queues
<1>10. Notes'
  <2>1. \A i \in Pid : Stands(i, "blink", {"forked"})' <=> Stands(i, "blink", {"forked"})
    BY <1>1 DEF Stands
  <2> QED
    BY <1>1, <1>2, <1>4, <2>1 DEF Notes, Stands, IsParent
<1> QED
  BY <1>5, <1>6, <1>7, <1>8, <1>9, <1>10 DEF Orderly

\* A process exits.
LEMMA ExitFacts ==
    ASSUME Sizes, TypeOK, Owned, Orderly, ExitDestroy
    PROVE  /\ sys.at = "exit" /\ pcb_curr \in {2, 3} /\ mem[pcb_curr].pc = "gone" /\ Used(pcb_curr)
           /\ sys'.at = "sched" /\ sys'.result = UNKNOWN /\ pcb_curr' = pcb_curr
           /\ UNCHANGED read_queue /\ ~Used(pcb_curr)'
           /\ \A i \in Pid \ {pcb_curr} :
                SameContext(pcb'[i], pcb[i]) /\ (Used(i)' <=> Used(i)) /\ pcb'[i].state # "SIGNAL"
           /\ pcb'[pcb_curr].state # "SIGNAL"
           /\ \A s \in Pid : wait_queue'[s] = NoPid
           /\ pcb'[3].state = "READY" \/ pcb'[3] = pcb[3] \/ pcb_curr = 3
           /\ pcb_curr = 2 /\ Used(3) => ResumeR0(3)' = ResumeR0(3)
<1> DEFINE parent == Curr.parent_pid
           table == ProcFrameMap(system_page_table, pcb[parent])
<1>1. /\ sys.at = "exit" /\ pcb_curr \in {2, 3} /\ mem[pcb_curr].pc = "gone" /\ Used(pcb_curr)
      /\ pcb_curr \in Pid /\ Curr = pcb[pcb_curr] /\ Curr \in PCB
      /\ \A i \in 0 .. 3 : i \in Pid
      /\ Cast /\ Stacks /\ Queues /\ pcb \in [Pid -> PCB]
  BY Current DEF ExitDestroy, Orderly, Errand, TypeOK
<1>2. /\ Unanswered("sched") /\ pcb_curr' = pcb_curr /\ UNCHANGED read_queue /\ ~Used(pcb_curr)'
      /\ \/ /\ Waiting(parent) = {} /\ Only(pcb_curr) /\ UNCHANGED wait_queue
            /\ saved_r0' = Blank(Curr.stack_frame)
         \/ /\ parent \in Pid \ {pcb_curr} /\ Used(parent)
            /\ Waiting(parent) # {}
            /\ \A i \in Pid \ {pcb_curr, parent} : pcb'[i] = pcb[i]
            /\ SameContext(pcb'[parent], pcb[parent])
            /\ pcb'[parent].state = "READY"
            /\ wait_queue' = QueueWithout(Waiting(parent))
            /\ saved_r0' = Write(Blank(Curr.stack_frame), table, pcb[parent].stack_pointer, pcb_curr)
  BY ExitEffect
<1>3. sys'.at = "sched" /\ sys'.result = UNKNOWN
  BY <1>2 DEF Unanswered, UserMode
<1>4. parent = pcb_curr - 1
  BY <1>1 DEF Cast
<1>5. \A s \in Pid : wait_queue[s] # NoPid => wait_queue[s] = 1 /\ pcb_curr = 2
  BY <1>1 DEF Queues
<1>6. \A s \in Pid : wait_queue'[s] = NoPid
  <2>1. CASE Waiting(parent) = {} /\ UNCHANGED wait_queue
    BY <1>4, <1>5, <2>1 DEF Waiting
  <2>2. CASE wait_queue' = QueueWithout(Waiting(parent))
    BY <1>4, <1>5, <2>2 DEF Waiting, QueueWithout
  <2> QED
    BY <1>2, <2>1, <2>2
<1>7. \A i \in Pid \ {pcb_curr} :
        SameContext(pcb'[i], pcb[i]) /\ (Used(i)' <=> Used(i)) /\ pcb'[i].state # "SIGNAL"
  <2>1. CASE Only(pcb_curr)
    BY <1>1, <2>1 DEF Only, SameContext, SamePlace, Used, Cast
  <2>2. CASE /\ parent \in Pid \ {pcb_curr} /\ Used(parent)
             /\ \A i \in Pid \ {pcb_curr, parent} : pcb'[i] = pcb[i]
             /\ SameContext(pcb'[parent], pcb[parent]) /\ pcb'[parent].state = "READY"
    BY <1>1, <2>2 DEF SameContext, SamePlace, Used, Cast
  <2> QED
    BY <1>2, <2>1, <2>2
<1>8. pcb'[pcb_curr].state # "SIGNAL"
  BY <1>1, <1>2 DEF Used
<1>9. pcb'[3].state = "READY" \/ pcb'[3] = pcb[3] \/ pcb_curr = 3
  BY <1>1, <1>2 DEF Only
<1>10. ASSUME pcb_curr = 2, Used(3)
       PROVE  ResumeR0(3)' = ResumeR0(3)
  <2> DEFINE f == pcb[3].stack_frame
             l == pcb[3].stack_pointer.level
  <2>1. /\ f \in Frame /\ l \in Level /\ Curr.stack_frame \in Frame
    BY <1>1 DEF PCB, Pointer
  <2>2. Curr.stack_frame # f
    BY <1>1, <1>10, OwnStacks DEF Holds
  <2>3. Blank(Curr.stack_frame) \in Memory /\ Blank(Curr.stack_frame)[f] = saved_r0[f]
    BY <2>1, <2>2, BlankAt
  <2>4. saved_r0'[f][l] = saved_r0[f][l]
    <3>1. CASE saved_r0' = Blank(Curr.stack_frame)
      BY <2>3, <3>1
    <3>2. CASE /\ parent \in Pid \ {pcb_curr} /\ Used(parent)
               /\ saved_r0' = Write(Blank(Curr.stack_frame), table, pcb[parent].stack_pointer, pcb_curr)
      <4>1. /\ pcb[parent] \in PCB /\ pcb[parent].stack_frame \in Frame
            /\ pcb[parent].stack_pointer \in Pointer /\ system_page_table \in PageTable
        BY <1>1, <3>2 DEF TypeOK, PCB
      <4>2. table[pcb[parent].stack_pointer.section] = pcb[parent].stack_frame
        <5>1. /\ pcb[parent].stack_pointer.section = pcb[parent].virtual_stack_frame
              /\ pcb[parent].virtual_stack_frame \in Frame
          BY <1>1, <3>2, <4>1 DEF Stacks, PCB
        <5> QED
          BY <4>1, <5>1, MapAt
      <4>3. pcb[parent].stack_frame # f
        BY <1>1, <1>4, <1>10, <3>2, OwnStacks DEF Holds
      <4> HIDE DEF table, parent, f, l
      <4> QED
        BY <2>1, <2>3, <3>2, <4>1, <4>2, <4>3, WriteAt
    <3> QED
      BY <1>2, <3>1, <3>2
  <2>5. pcb'[3].stack_frame = f /\ pcb'[3].stack_pointer.level = l
    BY <1>1, <1>7, <1>10 DEF SameContext, SamePlace
  <2> QED
    BY <2>4, <2>5 DEF ResumeR0
<1> QED
  BY <1>1, <1>2, <1>3, <1>6, <1>7, <1>8, <1>9, <1>10

LEMMA ExitOrderly ==
    ASSUME Sizes, TypeOK, Owned, Orderly, ExitDestroy, UNCHANGED progVars
    PROVE  Orderly'
<1>1. /\ sys.at = "exit" /\ pcb_curr \in {2, 3} /\ mem[pcb_curr].pc = "gone" /\ Used(pcb_curr)
      /\ sys'.at = "sched" /\ sys'.result = UNKNOWN /\ pcb_curr' = pcb_curr
      /\ UNCHANGED read_queue /\ ~Used(pcb_curr)'
      /\ \A i \in Pid \ {pcb_curr} :
           SameContext(pcb'[i], pcb[i]) /\ (Used(i)' <=> Used(i)) /\ pcb'[i].state # "SIGNAL"
      /\ pcb'[pcb_curr].state # "SIGNAL"
      /\ \A s \in Pid : wait_queue'[s] = NoPid
      /\ pcb'[3].state = "READY" \/ pcb'[3] = pcb[3] \/ pcb_curr = 3
      /\ pcb_curr = 2 /\ Used(3) => ResumeR0(3)' = ResumeR0(3)
  BY ExitFacts
<1>2. /\ \A i \in 0 .. 3 : i \in Pid
      /\ Cast /\ Family /\ Stacks /\ Queues /\ Notes
      /\ UNCHANGED <<mem, io>>
  BY Numbers DEF Orderly, progVars
<1>3. /\ Used(0)' /\ (Used(1)' <=> Used(1)) /\ (Used(2)' <=> Used(2) /\ pcb_curr = 3)
      /\ (Used(3)' <=> Used(3) /\ pcb_curr = 2)
      /\ \A i \in Pid : Used(i)' => Used(i) /\ i # pcb_curr
  BY <1>1, <1>2 DEF Cast
<1>4. Cast'
  <2>1. \A i \in Pid : Used(i)' => i <= 3 /\ Role(i)'
    <3>1. \A i \in Pid \ {pcb_curr} : Role(i)' <=> Role(i)
      BY <1>1, <1>2 DEF SameContext, Role, Stands
    <3> QED
      BY <1>2, <1>3, <3>1 DEF Cast
  <2>2. \A i \in Pid : pcb'[i].state # "SIGNAL"
    BY <1>1
  <2>3. ~Used(2)'
    BY <1>2, <1>3 DEF Cast
  <2>4. Used(3)' => pcb'[3].parent_pid = 2
    BY <1>1, <1>2, <1>3 DEF Cast, SameContext, SamePlace
  <2> QED
    BY <1>1, <1>2, <1>3, <2>1, <2>2, <2>3, <2>4 DEF Cast
<1>5. Errand'
  BY <1>1 DEF Errand
<1>6. Family'
  <2>1. \A p \in 0 .. 2 : Used(p)' => ~IsParent(p)'
    BY <1>1, <1>2, <1>3 DEF Family, Parent, IsParent, Stands
  <2>2. \A k \in 1 .. 3 : Used(k)' /\ IsChild(k) => pcb_curr = k - 1
    BY <1>1, <1>2, <1>3 DEF Family, Child
  <2>3. \A k \in 1 .. 3 : IsChild(k)' <=> IsChild(k)
    BY <1>2 DEF IsChild, Stands
  <2>4. ASSUME pcb_curr = 2, Used(3)
        PROVE  Fresh(3)'
    <3>1. Fresh(3)
      BY <1>1, <1>2, <2>4 DEF Family, Waiter
    <3> QED
      BY <1>1, <2>3, <2>4, <3>1 DEF Fresh, Misses
  <2>5. \A k \in 1 .. 3 : Child(k)'
    BY <1>1, <1>3, <2>2, <2>3 DEF Child
  <2>6. \A k \in 1 .. 3 : Waiter(k)'
    BY <1>1, <1>3, <2>4 DEF Waiter
  <2> QED
    BY <2>1, <2>5, <2>6 DEF Family, Parent
<1>7. Stacks'
  <2>1. \A i \in Pid : Used(i)' =>
          /\ pcb'[i].stack_pointer = pcb[i].stack_pointer
          /\ pcb'[i].virtual_stack_frame = pcb[i].virtual_stack_frame
          /\ Unexeced(pcb[i])' <=> Unexeced(pcb[i])
    BY <1>1, <1>3 DEF SameContext, SamePlace, Unexeced
  <2> QED
    BY <1>1, <1>2, <1>3, <2>1 DEF Stacks
<1>8. Queues'
  BY <1>1, <1>2, <1>3 DEF Queues
<1>9. Notes'
  <2>1. \A i \in Pid : Stands(i, "blink", {"forked"})' => Used(i)'
    BY <1>1, <1>2 DEF Notes, Stands
  <2>2. IsParent(2)' <=> IsParent(2)
    BY <1>2 DEF IsParent, Stands
  <2> QED
    BY <1>2, <1>3, <2>1, <2>2 DEF Notes, Stands
<1> QED
  BY <1>4, <1>5, <1>6, <1>7, <1>8, <1>9 DEF Orderly

\* A program is executed.
LEMMA ExecedOrderly ==
    ASSUME Sizes, TypeOK, Owned, ProgramsType, Orderly, ProgramExeced
    PROVE  Orderly'
<1>1. /\ sys.at = "exec" /\ OnCard /\ UNCHANGED io
      /\ Only(pcb_curr) /\ pcb_curr' = pcb_curr
      /\ pcb'[pcb_curr].stack_frame = Curr.stack_frame
      /\ pcb'[pcb_curr].virtual_stack_frame = Curr.stack_frame
      /\ pcb'[pcb_curr].stack_pointer = [section |-> Curr.stack_frame, level |-> 0]
      /\ pcb'[pcb_curr].parent_pid = Curr.parent_pid
      /\ pcb'[pcb_curr].state = "READY"
      /\ UNCHANGED queues /\ sys'.at = "ret"
      /\ mem' = [mem EXCEPT ![pcb_curr] = Start(Me.cmd.name, Me.cmd.period)]
  BY ExecEffect DEF ProgramExeced, Unanswered, UserMode
<1>2. /\ pcb_curr \in 1 .. 3 /\ pcb_curr \in Pid /\ Used(pcb_curr) /\ Curr = pcb[pcb_curr]
      /\ Stands(pcb_curr, Prog(pcb_curr - 1), {"execed"}) /\ Me = mem[pcb_curr]
      /\ \A i \in 0 .. 3 : i \in Pid
      /\ Cast /\ Stacks /\ Queues /\ Notes /\ mem \in [Pid -> Program]
  BY <1>1, Current DEF Orderly, Errand, ProgramsType
<1>3. /\ \A i \in Pid \ {pcb_curr} : mem'[i] = mem[i]
      /\ mem'[pcb_curr].prog = Me.cmd.name /\ mem'[pcb_curr].pc = "start"
  BY <1>1, <1>2 DEF Start
<1>4. /\ pcb_curr = 1 => Me.cmd.name = "shell"
      /\ pcb_curr = 2 => Me.cmd.name \in {"echo", "ps", "blink"}
      /\ pcb_curr = 3 => Me.cmd.name = "blinkd"
  <2>1. INSTALLED \subseteq {"echo", "ps", "blink"} /\ OTHERS \cap {"shell", "blinkd"} = {}
    BY ProgramsAssumption DEF Sizes
  <2>2. Me.cmd.name \in INSTALLED \cup {"shell", "blinkd"}
    BY <1>1 DEF OnCard
  <2>3. pcb_curr = 1 => Me.cmd.name = "shell"
    BY <1>2 DEF Notes, Prog, Stands
  <2>4. pcb_curr = 2 => Me.cmd.name \in INSTALLED \cup OTHERS
    BY <1>2 DEF Notes, Prog, Stands
  <2>5. pcb_curr = 3 => Me.cmd.name = "blinkd"
    BY <1>2 DEF Notes, Prog, Stands
  <2> QED
    BY <2>1, <2>2, <2>3, <2>4, <2>5
<1>5. /\ \A i \in Pid : (Used(i)' <=> Used(i)) /\ pcb'[i].state # "SIGNAL"
      /\ \A i \in Pid : pcb'[i].parent_pid = pcb[i].parent_pid
  BY <1>1, <1>2 DEF Only, Used, Cast
<1>6. Cast'
  <2>1. ASSUME NEW i \in Pid, Used(i)'
        PROVE  i <= 3 /\ Role(i)'
    <3>1. i # pcb_curr => (Role(i)' <=> Role(i))
      BY <1>1, <1>3 DEF Only, Role, Stands
    <3>2. i = pcb_curr => Role(i)'
      BY <1>2, <1>3, <1>4 DEF Role, Stands
    <3> QED
      BY <1>2, <1>5, <2>1, <3>1, <3>2 DEF Cast
  <2>2. \A k \in 0 .. 3 : (Used(k)' <=> Used(k)) /\ pcb'[k].parent_pid = pcb[k].parent_pid
    BY <1>2, <1>5
  <2>3. mem'[0].pc = mem[0].pc
    BY <1>2, <1>3
  <2> QED
    BY <1>1, <1>2, <1>5, <2>1, <2>2, <2>3 DEF Cast
<1>7. Errand'
  BY <1>1 DEF Errand
<1>8. Family'
  <2>1. \A p \in 0 .. 2 : Used(p)' => ~IsParent(p)'
    <3>1. \A p \in 0 .. 2 : IsParent(p)' => p # pcb_curr /\ IsParent(p)
      BY <1>2, <1>3 DEF IsParent, Stands
    <3> QED
      BY <1>1, <1>2, <1>5, <3>1, NoFamily
  <2>2. \A k \in 1 .. 3 : Used(k)' => ~IsChild(k)'
    <3>1. \A k \in 1 .. 3 : IsChild(k)' => k # pcb_curr /\ IsChild(k)
      BY <1>2, <1>3 DEF IsChild, Stands
    <3> QED
      BY <1>1, <1>2, <1>5, <3>1, NoFamily
  <2>3. \A k \in 1 .. 3 : Used(k)' => pcb_curr # k - 1
    BY <1>1, <1>2, <1>5, NoFamily
  <2> QED
    BY <1>1, <2>1, <2>2, <2>3 DEF Family, Parent, Waiter, Child
<1>9. Stacks'
  <2>1. ~Unexeced(pcb[pcb_curr])' /\ pcb'[pcb_curr].stack_pointer.section = Curr.stack_frame
    BY <1>1 DEF Unexeced
  <2>2. \A i \in Pid \ {pcb_curr} : pcb'[i] = pcb[i] /\ mem'[i] = mem[i]
    BY <1>1, <1>3 DEF Only
  <2> QED
    BY <1>1, <1>2, <1>5, <2>1, <2>2 DEF Stacks, Unexeced
<1>10. Queues'
  <2>1. mem[1].prog = "shell" => mem'[1].prog = "shell"
    BY <1>2, <1>3, <1>4
  <2> QED
    BY <1>1, <1>2, <1>5, <2>1 DEF Queues, queues
<1>11. Notes'
  <2>1. IsParent(2) => IsParent(2)'
    BY <1>2, <1>3 DEF IsParent, Stands, Prog
  <2>2. \A i \in Pid : Stands(i, "blink", {"forked"})' => Used(i)'
    BY <1>2, <1>3, <1>5 DEF Notes, Stands
  <2>3. \A i \in Pid : mem'[i].pc # "start" => mem'[i] = mem[i]
    BY <1>3
  <2>4. io' = io /\ (Used(3)' => io.words > 0 \/ IsParent(2)')
    BY <1>1, <1>2, <1>5, <2>1 DEF Notes
  <2>5. /\ Used(1)' /\ Stands(1, "init", {"execed"})' => mem'[1].cmd.name = "shell"
        /\ Used(1)' /\ Stands(1, "shell", {"forked"})' => mem'[1].cmd.name \in INSTALLED \cup OTHERS
    BY <1>2, <1>5, <2>3 DEF Notes, Stands
  <2>6. /\ Used(2)' /\ Stands(2, "shell", {"forked", "execed"})' => mem'[2].cmd.name \in INSTALLED \cup OTHERS
        /\ Used(3)' /\ Stands(3, "blink", {"execed"})' => mem'[3].cmd.name = "blinkd"
    BY <1>2, <1>5, <2>3 DEF Notes, Stands
  <2>7. io.words > 0 => io.pid = 3
    BY <1>2 DEF Notes
  <2> QED
    BY <2>2, <2>4, <2>5, <2>6, <2>7 DEF Notes
<1> QED
  BY <1>6, <1>7, <1>8, <1>9, <1>10, <1>11 DEF Orderly

\* The child is complete, and will find 0.
LEMMA ForkCopyFacts ==
    ASSUME Sizes, TypeOK, Owned, Orderly, ForkCopy, Alive', NEW k \in Nat, k = pcb_curr + 1
    PROVE  /\ sys.at = "fork" /\ sys.arg = k /\ pcb_curr \in 0 .. 2 /\ IsParent(pcb_curr)
           /\ ~Used(k) /\ Used(pcb_curr)
           /\ Only(k) /\ pcb_curr' = pcb_curr
           /\ pcb'[k].stack_pointer = Curr.stack_pointer
           /\ pcb'[k].virtual_stack_frame = Curr.stack_frame
           /\ Curr.virtual_stack_frame = Curr.stack_frame
           /\ pcb'[k].parent_pid = pcb_curr /\ pcb'[k].state = "READY"
           /\ UNCHANGED queues
           /\ sys'.at = "ret" /\ sys'.result = k /\ sys'.sp = Curr.stack_pointer
           /\ ResumeR0(k)' = 0
           /\ system_page_table'[Curr.stack_frame] = Curr.stack_frame
           /\ pcb'[k].stack_frame # Curr.stack_frame
<1> DEFINE child == pcb[k]
           copied == [saved_r0 EXCEPT ![child.stack_frame] = saved_r0[Curr.stack_frame]]
           target == [Curr.stack_pointer EXCEPT !.section = ChildSection(child)]
           l == Curr.stack_pointer.level
<1>1. /\ sys.at = "fork" /\ sys.arg = k /\ pcb_curr \in 0 .. 2 /\ IsParent(pcb_curr)
      /\ ~Used(k) /\ sys.sp = Curr.stack_pointer /\ child.virtual_stack_frame = Curr.stack_frame
      /\ Used(pcb_curr) /\ Curr = pcb[pcb_curr] /\ Curr \in PCB /\ pcb_curr \in Pid
      /\ k \in Pid /\ child \in PCB /\ Stacks
  BY Current DEF ForkCopy, Orderly, Errand, TypeOK
<1>2. /\ Only(k) /\ pcb_curr' = pcb_curr
      /\ pcb'[k].stack_frame = child.stack_frame
      /\ pcb'[k].virtual_stack_frame = child.virtual_stack_frame
      /\ pcb'[k].stack_pointer = Curr.stack_pointer
      /\ pcb'[k].parent_pid = pcb_curr
      /\ pcb'[k].state = "READY"
      /\ saved_r0' = Write(copied, system_page_table, target, 0)
      /\ system_page_table' = ProcFrameWriteDisable(system_page_table, child)
      /\ UNCHANGED queues
      /\ sys' = [sys EXCEPT !.at = "ret", !.result = k]
  BY <1>1, ForkCopyEffect
<1>3. sys'.at = "ret" /\ sys'.result = k /\ sys'.sp = Curr.stack_pointer
  BY <1>1, <1>2 DEF TypeOK
<1>4. /\ Identity(system_page_table, child) /\ Identity(system_page_table, Curr)
  <2>1. \A t : ~Crash(t)
    BY DEF Alive, Crash, UserMode
  <2> QED
    BY <1>1, <2>1 DEF ForkCopy
<1>5. /\ system_page_table[child.stack_frame] = child.stack_frame
      /\ system_page_table[Curr.stack_frame] = Curr.stack_frame
  BY <1>4 DEF Identity, Frames
<1>6. Curr.stack_frame \notin Frames(child) /\ child.stack_frame # Curr.stack_frame
  BY <1>1, OwnStacks DEF Holds
<1>7. Curr.virtual_stack_frame = Curr.stack_frame
  BY <1>1 DEF Stacks, IsParent, Stands, Unexeced
<1>8. /\ child.stack_frame \in Int /\ Curr.stack_frame \in Int /\ l \in Level
      /\ child.stack_frame \in Frame /\ Curr.stack_frame \in Frame
      /\ Curr.stack_pointer \in Pointer /\ Curr.stack_pointer.section = Curr.stack_frame
  BY <1>1, <1>7, FrameAssumption DEF PCB, Pointer, Frame, Stacks
<1>9. target.section = child.stack_frame /\ target.level = l /\ target \in Pointer
  BY <1>8 DEF ChildSection, Pointer
<1>10. saved_r0'[child.stack_frame][l] = 0
  <2>1. copied \in Memory
    BY <1>8 DEF TypeOK, Memory
  <2> HIDE DEF copied, target, l
  <2> QED
    BY <1>2, <1>5, <1>8, <1>9, <2>1, WriteAt
<1>11. ResumeR0(k)' = 0
  BY <1>2, <1>10 DEF ResumeR0
<1>12. system_page_table'[Curr.stack_frame] = Curr.stack_frame
  <2>1. system_page_table \in PageTable
    BY DEF TypeOK
  <2> HIDE DEF child
  <2> QED
    BY <1>1, <1>2, <1>5, <1>6, <1>8, <2>1, MapAt
<1> QED
  BY <1>1, <1>2, <1>3, <1>6, <1>7, <1>11, <1>12

LEMMA ForkCopyOrderly ==
    ASSUME Sizes, TypeOK, Owned, ProgramsType, Orderly, ProgramForks, Alive'
    PROVE  Orderly'
<1>0. PICK c \in 0 .. 2, k \in 1 .. 3 : c = pcb_curr /\ k = c + 1
  <2>1. pcb_curr \in 0 .. 2
    BY Current DEF ProgramForks, ForkCopy, Orderly, Errand
  <2>2. pcb_curr + 1 \in 1 .. 3
    BY <2>1
  <2> QED
    BY <2>1, <2>2
<1>1. /\ sys.at = "fork" /\ sys.arg = k /\ IsParent(c)
      /\ ~Used(k) /\ Used(c)
      /\ Only(k) /\ pcb_curr = c /\ pcb_curr' = c
      /\ pcb'[k].stack_pointer = Curr.stack_pointer
      /\ pcb'[k].virtual_stack_frame = Curr.stack_frame
      /\ Curr.virtual_stack_frame = Curr.stack_frame
      /\ pcb'[k].parent_pid = c /\ pcb'[k].state = "READY"
      /\ UNCHANGED queues
      /\ sys'.at = "ret" /\ sys'.result = k /\ sys'.sp = Curr.stack_pointer
      /\ ResumeR0(k)' = 0
      /\ system_page_table'[Curr.stack_frame] = Curr.stack_frame
      /\ pcb'[k].stack_frame # Curr.stack_frame
  BY <1>0, ForkCopyFacts DEF ProgramForks
<1>2. /\ \A i \in 0 .. 3 : i \in Pid
      /\ Curr = pcb[c] /\ Me = mem[c]
      /\ Cast /\ Family /\ Stacks /\ Queues /\ Notes /\ mem \in [Pid -> Program]
      /\ UNCHANGED io /\ mem' = [mem EXCEPT ![k] = mem[c]]
  BY <1>1, Current DEF Orderly, ProgramsType, ProgramForks
<1>3. /\ \A i \in Pid \ {k} : pcb'[i] = pcb[i] /\ mem'[i] = mem[i] /\ (Used(i)' <=> Used(i))
      /\ Used(k)' /\ mem'[k] = mem[c] /\ mem'[c] = mem[c]
      /\ Curr' = Curr
  BY <1>1, <1>2 DEF Only, Used, Curr
<1>5. k = c + 1 /\ k # c
  BY <1>0
<1>4. /\ mem[c].prog = Prog(c) /\ mem[c].pc = "forked"
      /\ \A p \in 0 .. 2 \ {c} : ~(Used(p) /\ IsParent(p))
      /\ \A j \in 1 .. 3 \ {k} : ~(Used(j) /\ IsChild(j))
  <2>1. mem[c].prog = Prog(c) /\ mem[c].pc = "forked"
    BY <1>1 DEF IsParent, Stands
  <2>2. \A p \in 0 .. 2 \ {c} : ~(Used(p) /\ IsParent(p))
    BY <1>1, <1>2 DEF Family, Parent
  <2>3. \A j \in 1 .. 3 \ {k} : ~(Used(j) /\ IsChild(j))
    BY <1>1, <1>2, <1>5 DEF Family, Child
  <2> QED
    BY <2>1, <2>2, <2>3
<1>6. IsChild(k)' /\ IsParent(c)' /\ (k # 3 => ~IsParent(k)')
  <2>1. k - 1 = c
    BY <1>5
  <2>2. mem'[k].prog = Prog(c) /\ mem'[k].pc = "forked"
    BY <1>3, <1>4
  <2>3. k # 3 => Prog(k) # Prog(c)
    BY <1>5 DEF Prog
  <2>4. IsChild(k)'
    BY <2>1, <2>2 DEF IsChild, Stands
  <2> QED
    BY <1>3, <2>2, <2>3, <2>4 DEF IsParent, Stands
<1>7. Cast'
  <2>1. Role(k)'
    BY <1>1, <1>3, <1>4, <1>5 DEF Role, Stands, Prog
  <2>2. ASSUME NEW i \in Pid, Used(i)'
        PROVE  i <= 3 /\ Role(i)'
    <3>1. i # k => (Role(i)' <=> Role(i))
      BY <1>3 DEF Role, Stands
    <3> QED
      BY <1>2, <1>3, <2>1, <2>2, <3>1 DEF Cast
  <2>3. \A i \in Pid : pcb'[i].state # "SIGNAL"
    BY <1>1, <1>2, <1>3 DEF Cast
  <2>4. mem'[0].pc = mem[0].pc /\ Used(0)'
    BY <1>2, <1>3 DEF Cast
  <2>5. Used(1)' => mem[0].pc # "start"
    BY <1>2, <1>3, <1>4, <1>5 DEF Cast
  <2>6. Used(2)' => Used(1)' /\ c \in {1, 2} /\ pcb'[2].parent_pid = 1
    BY <1>1, <1>2, <1>3, <1>5 DEF Cast
  <2>7. Used(3)' => Used(1)' /\ c \in {2, 3} /\ pcb'[3].parent_pid = 2
    BY <1>1, <1>2, <1>3, <1>5 DEF Cast
  <2> QED
    BY <1>1, <1>2, <2>2, <2>3, <2>4, <2>5, <2>6, <2>7 DEF Cast
<1>8. Errand'
  BY <1>1 DEF Errand
<1>9. Family'
  <2>1. ASSUME NEW p \in 0 .. 2
        PROVE  Parent(p)'
    <3>1. CASE p = c
      <4>1. Curr.stack_pointer.section = Curr.stack_frame
        BY <1>1, <1>2 DEF Stacks
      <4> QED
        BY <1>1, <1>3, <1>5, <3>1, <4>1 DEF Parent
    <3>2. CASE p = k
      BY <1>6, <2>1, <3>2 DEF Parent
    <3>3. CASE p \notin {k, c}
      BY <1>2, <1>3, <1>4, <3>3 DEF Parent, IsParent, Stands
    <3> QED
      BY <3>1, <3>2, <3>3
  <2>2. ASSUME NEW j \in 1 .. 3
        PROVE  Waiter(j)' /\ Child(j)'
    <3>1. CASE j = k
      <4>1. Misses(pcb[k].stack_frame)'
        BY <1>1, <1>2 DEF Misses, Stacks
      <4>2. Fresh(k)'
        BY <1>1, <1>6, <4>1 DEF Fresh
      <4>3. k - 1 = c
        BY <1>1, <1>5
      <4>4. Waiter(k)'
        BY <1>6, <4>2, <4>3 DEF Waiter
      <4>5. Child(k)'
        BY <1>1, <4>3 DEF Child
      <4> QED
        BY <3>1, <4>4, <4>5
    <3>2. CASE j # k
      <4>1. ~(Used(j)' /\ IsChild(j)')
        BY <1>2, <1>3, <1>4, <2>2, <3>2 DEF IsChild, Stands
      <4>2. c # j - 1
        BY <1>1, <1>5, <2>2, <3>2
      <4> QED
        BY <1>1, <4>1, <4>2 DEF Waiter, Child
    <3> QED
      BY <3>1, <3>2
  <2> QED
    BY <2>1, <2>2 DEF Family
<1>10. Stacks'
  <2>1. pcb'[k].stack_pointer.section = pcb'[k].virtual_stack_frame
    BY <1>1, <1>2 DEF Stacks
  <2>2. \A i \in Pid : Used(i)' => pcb'[i].stack_pointer.section = pcb'[i].virtual_stack_frame
    BY <1>2, <1>3, <2>1 DEF Stacks
  <2>3. \A p \in 0 .. 2 : Used(p)' /\ mem'[p].prog = Prog(p) => p # k
    BY <1>1, <1>3, <1>4, <1>5 DEF Prog
  <2>4. \A p \in 0 .. 2 : Used(p)' /\ mem'[p].prog = Prog(p) => ~Unexeced(pcb[p])'
    BY <1>2, <1>3, <2>3 DEF Stacks
  <2> QED
    BY <1>1, <2>2, <2>4 DEF Stacks
<1>11. Queues'
  <2>1. \A i \in Pid : Used(i) => Used(i)' /\ mem'[i] = mem[i]
    BY <1>1, <1>3
  <2> QED
    BY <1>1, <1>2, <2>1 DEF Queues, queues
<1>12. Notes'
  <2>1. \A i \in Pid : Stands(i, "blink", {"forked"})' => Used(i)'
    BY <1>2, <1>3 DEF Notes, Stands
  <2>2. Used(3)' => io.words > 0 \/ IsParent(2)'
    <3>1. CASE c = 2
      BY <1>6, <3>1
    <3>2. CASE c # 2
      BY <1>1, <1>2, <1>3, <1>5, <3>2 DEF Cast
    <3> QED
      BY <3>1, <3>2
  <2>3. \A i \in 0 .. 3 : i # k => mem'[i] = mem[i] /\ (Used(i)' <=> Used(i))
    BY <1>2, <1>3
  <2>4. /\ mem'[k].pc = "forked" /\ mem'[k].prog = Prog(k - 1)
        /\ mem'[k].cmd = mem[k - 1].cmd /\ Used(k - 1) /\ mem[k - 1].prog = Prog(k - 1)
        /\ mem[k - 1].pc = "forked"
    BY <1>1, <1>3, <1>4, <1>5
  <2>5. Used(1)' /\ Stands(1, "init", {"execed"})' => mem'[1].cmd.name = "shell"
    BY <1>2, <2>3, <2>4 DEF Notes, Stands
  <2>6. Used(1)' /\ Stands(1, "shell", {"forked"})' => mem'[1].cmd.name \in INSTALLED \cup OTHERS
    BY <1>2, <2>3, <2>4 DEF Notes, Stands, Prog
  <2>7. Used(2)' /\ Stands(2, "shell", {"forked", "execed"})' => mem'[2].cmd.name \in INSTALLED \cup OTHERS
    BY <1>2, <2>3, <2>4 DEF Notes, Stands, Prog
  <2>8. Used(3)' /\ Stands(3, "blink", {"execed"})' => mem'[3].cmd.name = "blinkd"
    BY <1>2, <2>3, <2>4 DEF Notes, Stands
  <2> QED
    BY <1>2, <2>1, <2>2, <2>5, <2>6, <2>7, <2>8 DEF Notes
<1> QED
  BY <1>7, <1>8, <1>9, <1>10, <1>11, <1>12 DEF Orderly

\* What the current process finds in r0, and what the others will.
LEMMA ReturnFacts ==
    ASSUME Sizes, TypeOK, Owned, ProgramsType, Orderly, ProgramReturns, Alive'
    PROVE  /\ sys.at = "ret" /\ sys'.at = "user" /\ SameProcs
           /\ UNCHANGED queues /\ UNCHANGED io
           /\ system_page_table'[Curr.virtual_stack_frame] = Curr.stack_frame
           /\ \A i \in Pid \ {pcb_curr} : mem'[i] = mem[i]
           /\ mem'[pcb_curr].prog = Me.prog /\ mem'[pcb_curr].pc = Me.pc
           /\ mem'[pcb_curr].cmd = Me.cmd
           /\ Misses(Curr.stack_frame) => mem'[pcb_curr].r0 = ResumeR0(pcb_curr)
           /\ /\ sys.result # UNKNOWN /\ sys.sp = Curr.stack_pointer
              /\ system_page_table[sys.sp.section] = Curr.stack_frame
              => mem'[pcb_curr].r0 = sys.result
           /\ \A k \in Pid \ {pcb_curr} :
                Used(k) /\ Misses(pcb[k].stack_frame) => ResumeR0(k)' = ResumeR0(k)
<1> DEFINE table == ContextSwitchTable(system_page_table, UsedPcbs, Curr)
           sp == Curr.stack_pointer
           stored == Stored(saved_r0)
           v == stored[table[sp.section]][sp.level]
           m == [Me EXCEPT !.r0 = v]
<1>1. /\ pcb_curr \in Pid /\ Curr \in PCB /\ sp \in Pointer /\ saved_r0 \in Memory
      /\ sys.sp \in Pointer /\ sys.result \in Int /\ Curr = pcb[pcb_curr]
      /\ mem \in [Pid -> Program] /\ Me = mem[pcb_curr] /\ Me \in Program
      /\ Curr.stack_frame \in Frame /\ Curr.virtual_stack_frame \in Frame
      /\ sp.level \in Level
  BY Current DEF TypeOK, PCB, Memory, ProgramsType, Pointer
<1>2. /\ sys.at = "ret" /\ sys' = UserMode /\ SameProcs /\ UNCHANGED queues
      /\ system_page_table' = table
      /\ saved_r0' = Write(stored, system_page_table', sp, UNKNOWN)
  BY ReturnEffect DEF ProgramReturns
<1>3. sys'.at = "user" /\ Used(pcb_curr)
  BY <1>2, Current DEF UserMode
<1>4. mem' = [mem EXCEPT ![pcb_curr] = m] /\ UNCHANGED io
  BY <1>1, <1>3 DEF ProgramReturns
<1>5. sys.result = UNKNOWN \/ Writable(system_page_table, sys.sp)
  BY <1>3 DEF ProgramReturns, Return, Crash, UserMode
<1>6. table[Curr.virtual_stack_frame] = Curr.stack_frame
  BY <1>1, SwitchAt
<1>7. sp.section = Curr.virtual_stack_frame
  BY <1>1, <1>3 DEF Orderly, Stacks
<1>8. stored \in Memory
  BY <1>1, <1>5, WriteType DEF Stored, TypeOK
<1>9. ASSUME NEW f \in Frame, NEW l \in Level
      PROVE  /\ Misses(f) => stored[f][l] = saved_r0[f][l]
             /\ sys.result # UNKNOWN /\ system_page_table[sys.sp.section] = f /\ sys.sp.level = l
                  => stored[f][l] = sys.result
  <2>1. CASE sys.result = UNKNOWN
    BY <2>1 DEF Stored
  <2>2. CASE sys.result # UNKNOWN
    <3>1. stored = Write(saved_r0, system_page_table, sys.sp, sys.result)
      BY <2>2 DEF Stored
    <3>2. system_page_table[sys.sp.section] \in Frame
      BY <1>5, <2>2 DEF Writable
    <3>3. stored[f][l] = IF f = system_page_table[sys.sp.section] /\ l = sys.sp.level
                         THEN sys.result ELSE saved_r0[f][l]
      <4> HIDE DEF stored
      <4> QED
        BY <1>1, <1>9, <3>1, <3>2, WriteAt
    <3>4. Misses(f) => f # system_page_table[sys.sp.section]
      BY <1>2, <2>2 DEF Misses
    <3> HIDE DEF stored
    <3> QED
      BY <3>3, <3>4
  <2> QED
    BY <2>1, <2>2
<1>10. v = stored[Curr.stack_frame][sp.level]
  BY <1>6, <1>7
<1>11. ASSUME NEW k \in Pid \ {pcb_curr}, Used(k), Misses(pcb[k].stack_frame)
       PROVE  ResumeR0(k)' = ResumeR0(k)
  <2>1. /\ pcb[k].stack_frame \in Frame /\ pcb[k].stack_pointer.level \in Level
    BY <1>11 DEF TypeOK, PCB, Pointer
  <2>2. pcb[k].stack_frame # Curr.stack_frame
    BY <1>1, <1>3, <1>11, OwnStacks DEF Holds
  <2> DEFINE f == pcb[k].stack_frame
             l == pcb[k].stack_pointer.level
  <2>3. stored[f][l] = saved_r0[f][l]
    BY <1>9, <1>11, <2>1
  <2>4. saved_r0'[f][l] = stored[f][l]
    <3>1. system_page_table'[sp.section] = Curr.stack_frame
      BY <1>2, <1>6, <1>7
    <3> HIDE DEF stored, table, sp, f, l
    <3> QED
      BY <1>1, <1>2, <1>8, <2>1, <2>2, <3>1, WriteAt DEF f, l
  <2> QED
    BY <1>2, <2>3, <2>4 DEF ResumeR0, SameProcs
<1>12. /\ Misses(Curr.stack_frame) => v = ResumeR0(pcb_curr)
       /\ /\ sys.result # UNKNOWN /\ sys.sp = Curr.stack_pointer
          /\ system_page_table[sys.sp.section] = Curr.stack_frame
          => v = sys.result
  BY <1>1, <1>9, <1>10 DEF ResumeR0
<1> HIDE DEF v, stored, table
<1>13. m.prog = Me.prog /\ m.pc = Me.pc /\ m.cmd = Me.cmd /\ m.r0 = v
  BY <1>1 DEF Program
<1> HIDE DEF m
<1>14. mem'[pcb_curr] = m /\ \A i \in Pid \ {pcb_curr} : mem'[i] = mem[i]
  BY <1>1, <1>4
<1> QED
  BY <1>2, <1>3, <1>4, <1>6, <1>11, <1>12, <1>13, <1>14

LEMMA ReturnOrderly ==
    ASSUME Sizes, TypeOK, Owned, ProgramsType, Orderly, ProgramReturns, Alive'
    PROVE  Orderly'
<1>1. /\ sys.at = "ret" /\ sys'.at = "user" /\ pcb' = pcb /\ pcb_curr' = pcb_curr
      /\ UNCHANGED queues /\ UNCHANGED io
      /\ system_page_table'[Curr.virtual_stack_frame] = Curr.stack_frame
      /\ \A i \in Pid \ {pcb_curr} : mem'[i] = mem[i]
      /\ mem'[pcb_curr].prog = Me.prog /\ mem'[pcb_curr].pc = Me.pc
      /\ mem'[pcb_curr].cmd = Me.cmd
      /\ Misses(Curr.stack_frame) => mem'[pcb_curr].r0 = ResumeR0(pcb_curr)
      /\ /\ sys.result # UNKNOWN /\ sys.sp = Curr.stack_pointer
         /\ system_page_table[sys.sp.section] = Curr.stack_frame
         => mem'[pcb_curr].r0 = sys.result
      /\ \A k \in Pid \ {pcb_curr} :
           Used(k) /\ Misses(pcb[k].stack_frame) => ResumeR0(k)' = ResumeR0(k)
  BY ReturnFacts DEF SameProcs
<1>2. /\ \A i \in 0 .. 3 : i \in Pid
      /\ pcb_curr \in 0 .. 3 /\ pcb_curr \in Pid /\ Curr = pcb[pcb_curr] /\ Me = mem[pcb_curr]
      /\ Cast /\ Family /\ Stacks /\ Queues /\ Notes
  BY Current DEF Orderly
<1>3. \A i \in Pid : mem'[i].prog = mem[i].prog /\ mem'[i].pc = mem[i].pc /\ mem'[i].cmd = mem[i].cmd
  BY <1>1, <1>2
<1>4. /\ \A i \in Pid : Used(i)' <=> Used(i)
      /\ \A p \in 0 .. 2 : IsParent(p)' <=> IsParent(p)
      /\ \A k \in 1 .. 3 : IsChild(k)' <=> IsChild(k)
  BY <1>1, <1>2, <1>3 DEF Used, IsParent, IsChild, Stands
<1>5. Cast'
  <2>1. \A i \in 0 .. 3 : Role(i)' <=> Role(i)
    BY <1>1, <1>2, <1>3 DEF Role, Stands
  <2>2. \A i \in Pid : Used(i)' => i <= 3 /\ Role(i)'
    BY <1>2, <1>4, <2>1 DEF Cast, Pid
  <2> QED
    BY <1>1, <1>2, <1>3, <1>4, <2>2 DEF Cast
<1>6. Errand'
  BY <1>1 DEF Errand
<1>7. Family'
  <2>1. ASSUME NEW p \in 0 .. 2
        PROVE  Parent(p)'
    <3> SUFFICES ASSUME Used(p), IsParent(p)
                 PROVE  pcb_curr = p /\ Used(p + 1) /\ mem'[p].r0 = p + 1
      BY <1>1, <1>2, <1>4 DEF Parent
    <3>1. /\ pcb_curr = p /\ Used(p + 1) /\ sys.result = p + 1 /\ sys.sp = Curr.stack_pointer
          /\ system_page_table[sys.sp.section] = Curr.stack_frame
      BY <1>1, <1>2 DEF Family, Parent
    <3>2. sys.result # UNKNOWN
      BY <3>1 DEF UNKNOWN
    <3> QED
      BY <1>1, <3>1, <3>2
  <2>2. ASSUME NEW k \in 1 .. 3
        PROVE  Child(k)'
    <3> SUFFICES ASSUME Used(k), IsChild(k), pcb_curr # k - 1
                 PROVE  pcb_curr = k /\ mem'[k].r0 = 0
      BY <1>1, <1>2, <1>4 DEF Child
    <3>1. pcb_curr = k /\ ResumeR0(k) = 0 /\ Misses(pcb[k].stack_frame)
      BY <1>1, <1>2 DEF Family, Child
    <3> QED
      BY <1>1, <1>2, <3>1
  <2>3. ASSUME NEW k \in 1 .. 3
        PROVE  Waiter(k)'
    <3> SUFFICES ASSUME Used(k), pcb_curr = k - 1, ~(k = 1 /\ ~IsChild(k))
                 PROVE  Fresh(k)' /\ IsParent(k - 1)
      BY <1>1, <1>2, <1>4 DEF Waiter
    <3>1. Fresh(k) /\ IsParent(k - 1)
      BY <1>1, <1>2 DEF Family, Waiter
    <3>2. ResumeR0(k)' = 0
      BY <1>1, <1>2, <3>1 DEF Fresh
    <3>3. Misses(pcb[k].stack_frame)'
      BY <1>1 DEF Misses
    <3> QED
      BY <1>1, <1>4, <3>1, <3>2, <3>3 DEF Fresh
  <2> QED
    BY <2>1, <2>2, <2>3 DEF Family
<1>8. Stacks'
  <2>1. \A p \in 0 .. 2 : mem'[p].prog = mem[p].prog /\ (Used(p)' <=> Used(p))
    BY <1>2, <1>3, <1>4
  <2> QED
    BY <1>1, <1>2, <1>4, <2>1 DEF Stacks, Unexeced, Curr
<1>9. Queues'
  BY <1>1, <1>2, <1>3, <1>4 DEF Queues, queues
<1>10. Notes'
  BY <1>1, <1>2, <1>3, <1>4 DEF Notes, Stands
<1> QED
  BY <1>5, <1>6, <1>7, <1>8, <1>9, <1>10 DEF Orderly

----------------------------------------------------------------------------
(* The clock and the typist. *)

LEMMA TickOrderly ==
    ASSUME Sizes, TypeOK, Owned, Orderly, Tick, UNCHANGED progVars
    PROVE  Orderly'
<1>1. /\ \A i \in Pid : SameContext(pcb'[i], pcb[i]) /\ pcb'[i].state = pcb[i].state
      /\ pcb_curr' = pcb_curr /\ UNCHANGED <<system_page_table, saved_r0, queues, sys, mem, io>>
  BY TickEffect DEF SameMemory, tables, progVars
<1>2. /\ \A i \in 0 .. 3 : i \in Pid
      /\ pcb_curr \in 0 .. 3 /\ pcb_curr \in Pid /\ Curr = pcb[pcb_curr]
      /\ Cast /\ Errand /\ Family /\ Stacks /\ Queues
  BY Current DEF Orderly
<1>3. Kept
  BY <1>1, <1>2 DEF Kept, Used, Cast
<1>4. Curr'.stack_pointer = Curr.stack_pointer /\ Curr'.stack_frame = Curr.stack_frame
  BY <1>1, <1>2 DEF SameContext, SamePlace, Curr
<1>5. \A i \in Pid : /\ (Used(i)' <=> Used(i)) /\ pcb'[i].stack_frame = pcb[i].stack_frame
                     /\ pcb'[i].virtual_stack_frame = pcb[i].virtual_stack_frame
                     /\ ResumeR0(i)' = ResumeR0(i)
  BY <1>1 DEF Used, SameContext, SamePlace, ResumeR0
<1>6. Errand'
  <2>1. sys.at = "fork" => pcb_curr + 1 \in Pid
    BY <1>2 DEF Errand
  <2> QED
    BY <1>1, <1>2, <1>4, <1>5, <2>1 DEF Errand, IsParent, Stands
<1>7. Family'
  <2>1. /\ \A p \in 0 .. 2 : (IsParent(p)' <=> IsParent(p)) /\ (Used(p)' <=> Used(p)) /\ (Used(p + 1)' <=> Used(p + 1))
        /\ \A k \in 1 .. 3 : /\ (IsChild(k)' <=> IsChild(k)) /\ (Used(k)' <=> Used(k))
                             /\ pcb'[k].stack_frame = pcb[k].stack_frame /\ pcb'[k].state = pcb[k].state
                             /\ ResumeR0(k)' = ResumeR0(k)
                             /\ (IsParent(k - 1)' <=> IsParent(k - 1))
    BY <1>1, <1>2, <1>5 DEF IsParent, IsChild, Stands
  <2>2. \A f : Misses(f)' <=> Misses(f)
    BY <1>1 DEF Misses
  <2>3. \A p \in 0 .. 2 : Parent(p)'
    BY <1>1, <1>2, <1>4, <2>1 DEF Family, Parent
  <2>4. \A k \in 1 .. 3 : Child(k)'
    BY <1>1, <1>2, <2>1, <2>2 DEF Family, Child, Misses
  <2>5. \A k \in 1 .. 3 : Waiter(k)'
    BY <1>1, <1>2, <2>1, <2>2 DEF Family, Waiter, Fresh, Misses
  <2> QED
    BY <2>3, <2>4, <2>5 DEF Family
<1>8. Queues'
  BY <1>1, <1>2, <1>5 DEF Queues, queues
<1>9. sys'.at = "user" => system_page_table'[Curr.virtual_stack_frame] = Curr.stack_frame
  BY <1>1, <1>2 DEF Stacks
<1> QED
  BY <1>3, <1>6, <1>7, <1>8, <1>9, KeptOrderly

\* What is typed goes to the shell.
LEMMA ServeFacts ==
    ASSUME Sizes, TypeOK, Owned, Orderly, sys.at = "user", NEW i \in Pid, Serve(i), Alive'
    PROVE  /\ Used(1) /\ mem[1].prog = "shell"
           /\ Only(1) /\ SameContext(pcb'[1], pcb[1]) /\ pcb'[1].state = "READY"
           /\ pcb_curr' = pcb_curr /\ UNCHANGED <<queues, sys>>
           /\ system_page_table'[Curr.virtual_stack_frame] = Curr.stack_frame
           /\ \A k \in Pid \ {1} : Used(k) => ResumeR0(k)' = ResumeR0(k)
<1> DEFINE table == ProcFrameMap(system_page_table, pcb[1])
<1>1. /\ 1 \in Pid /\ Curr \in PCB /\ Stacks /\ Queues /\ pcb \in [Pid -> PCB]
      /\ system_page_table \in PageTable
  BY Numbers, Current DEF Orderly, TypeOK
<1>2. read_queue[i].pid = 1 /\ Used(1) /\ mem[1].prog = "shell"
  <2>1. read_queue[i].pid \in Pid
    BY ServeEffect
  <2> QED
    BY <1>1, <2>1, Numbers DEF Queues
<1>3. /\ Only(1) /\ SameContext(pcb'[1], pcb[1]) /\ pcb'[1].state = "READY"
      /\ pcb_curr' = pcb_curr
      /\ system_page_table' = ProcFrameMap(table, Curr)
      /\ \E v : saved_r0' = Write(saved_r0, table, pcb[1].stack_pointer, v)
      /\ UNCHANGED <<queues, sys>>
  BY <1>2, ServeEffect
<1>4. system_page_table'[Curr.virtual_stack_frame] = Curr.stack_frame
  <2>1. table \in PageTable /\ Curr.virtual_stack_frame \in Frame
    BY <1>1, TableTypes DEF PCB
  <2> HIDE DEF table
  <2> QED
    BY <1>1, <1>3, <2>1, MapAt
<1>5. ASSUME NEW k \in Pid \ {1}, Used(k)
      PROVE  ResumeR0(k)' = ResumeR0(k)
  <2>1. /\ pcb[k] \in PCB /\ pcb[k].stack_frame \in Frame /\ pcb[k].stack_pointer.level \in Level
        /\ pcb[1] \in PCB /\ pcb[1].stack_frame \in Frame /\ pcb[1].virtual_stack_frame \in Frame
        /\ pcb[1].stack_pointer \in Pointer
    BY <1>1, <1>5 DEF PCB, Pointer
  <2>2. pcb[k].stack_frame # pcb[1].stack_frame
    BY <1>1, <1>2, <1>5, OwnStacks DEF Holds
  <2>3. table[pcb[1].stack_pointer.section] = pcb[1].stack_frame
    BY <1>1, <1>2, <2>1, MapAt DEF Stacks
  <2>4. PICK v : saved_r0' = Write(saved_r0, table, pcb[1].stack_pointer, v)
    BY <1>3
  <2>5. saved_r0 \in Memory
    BY DEF TypeOK, Memory
  <2>6. saved_r0'[pcb[k].stack_frame][pcb[k].stack_pointer.level]
          = saved_r0[pcb[k].stack_frame][pcb[k].stack_pointer.level]
    <3> HIDE DEF table
    <3> QED
      BY <2>1, <2>2, <2>3, <2>4, <2>5, WriteAt
  <2>7. pcb'[k] = pcb[k]
    BY <1>3, <1>5 DEF Only
  <2> QED
    BY <2>6, <2>7 DEF ResumeR0
<1> QED
  BY <1>2, <1>3, <1>4, <1>5

LEMMA TypingOrderly ==
    ASSUME Sizes, TypeOK, Owned, Orderly, Typing, Alive'
    PROVE  Orderly'
<1>1. sys.at = "user" /\ Interrupt /\ UNCHANGED <<mem, io>>
  BY DEF Typing, progVars
<1>2. /\ \A i \in 0 .. 3 : i \in Pid
      /\ pcb_curr \in 0 .. 3 /\ pcb_curr \in Pid /\ Curr = pcb[pcb_curr]
      /\ Cast /\ Family /\ Stacks /\ Queues
  BY Current DEF Orderly
<1>3. CASE Receive
  <2>1. SameProcs /\ UNCHANGED <<queues, sys, system_page_table, saved_r0>>
    BY <1>3 DEF Receive, SameProcs, procs, tables
  <2>2. Kept
    BY <1>1, <2>1, SameKept
  <2>3. Errand'
    BY <1>1, <2>1 DEF Errand
  <2>4. Family'
    BY <1>1, <1>2, <2>1 DEF SameProcs, Family, Parent, Waiter, Child, Fresh, IsParent, IsChild,
       Stands, Misses, ResumeR0, Used, Curr
  <2>5. Queues'
    BY <1>1, <1>2, <2>1 DEF SameProcs, Queues, queues, Used
  <2>6. system_page_table'[Curr.virtual_stack_frame] = Curr.stack_frame
    BY <1>1, <1>2, <2>1 DEF Stacks
  <2> QED
    BY <2>2, <2>3, <2>4, <2>5, <2>6, KeptOrderly
<1>4. ASSUME NEW i \in Pid, Serve(i)
      PROVE  Orderly'
  <2>1. /\ Used(1) /\ mem[1].prog = "shell"
        /\ Only(1) /\ SameContext(pcb'[1], pcb[1]) /\ pcb'[1].state = "READY"
        /\ pcb_curr' = pcb_curr /\ UNCHANGED <<queues, sys>>
        /\ system_page_table'[Curr.virtual_stack_frame] = Curr.stack_frame
        /\ \A k \in Pid \ {1} : Used(k) => ResumeR0(k)' = ResumeR0(k)
    BY <1>1, <1>4, ServeFacts
  <2>2. Kept
    BY <1>1, <1>2, <2>1 DEF Kept, Only, SameContext, SamePlace, Used, Cast
  <2>3. Errand'
    BY <1>1, <2>1 DEF Errand
  <2>4. Family'
    <3>1. /\ \A k \in 0 .. 3 : (Used(k)' <=> Used(k)) /\ mem'[k] = mem[k]
          /\ \A k \in 2 .. 3 : pcb'[k] = pcb[k]
          /\ \A p \in 0 .. 2 : p + 1 \in 0 .. 3
      BY <1>1, <1>2, <2>1, <2>2 DEF Kept, Only
    <3>2. \A p \in 0 .. 2 : Parent(p)'
      BY <1>1, <1>2, <2>1, <3>1 DEF Family, Parent, IsParent, Stands
    <3>3. \A k \in 1 .. 3 : Child(k)'
      BY <1>1, <1>2, <2>1, <3>1 DEF Family, Child, IsChild, Stands
    <3>4. ~IsChild(1)'
      BY <1>1, <2>1 DEF IsChild, Stands, Prog
    <3>5. ASSUME NEW k \in 2 .. 3, Used(k), Fresh(k)
          PROVE  Fresh(k)'
      <4>1. ResumeR0(k)' = 0
        BY <1>2, <2>1, <3>5 DEF Fresh
      <4>2. Misses(pcb[k].stack_frame)'
        BY <1>1, <2>1 DEF Misses
      <4> QED
        BY <3>1, <3>5, <4>1, <4>2 DEF Fresh, IsChild, Stands
    <3>6. \A k \in 1 .. 3 : Waiter(k)'
      <4>1. \A k \in 2 .. 3 : IsParent(k - 1)' <=> IsParent(k - 1)
        BY <1>1 DEF IsParent, Stands
      <4>2. Waiter(1)'
        BY <3>4 DEF Waiter
      <4>3. \A k \in 2 .. 3 : Waiter(k)'
        BY <1>1, <1>2, <2>1, <3>1, <3>5, <4>1 DEF Family, Waiter
      <4> QED
        BY <4>2, <4>3
    <3> QED
      BY <3>2, <3>3, <3>6 DEF Family
  <2>5. Queues'
    <3>1. (Used(1)' <=> Used(1)) /\ (Used(2)' <=> Used(2))
      BY <1>2, <2>2 DEF Kept
    <3>2. mem' = mem /\ pcb_curr' = pcb_curr /\ sys' = sys
          /\ wait_queue' = wait_queue /\ read_queue' = read_queue
      BY <1>1, <2>1 DEF queues
    <3> QED
      BY <1>2, <3>1, <3>2 DEF Queues
  <2> QED
    BY <2>1, <2>2, <2>3, <2>4, <2>5, KeptOrderly
<1> QED
  BY <1>1, <1>3, <1>4 DEF Interrupt

\* As long as control is not lost.
LEMMA OrderlyStep ==
    ASSUME Sizes, TypeOK, Owned, ProgramsType, Orderly, ProgramsNext, Alive'
    PROVE  Orderly' \/ Serving'
<1>1. CASE ProgramStep
  BY <1>1, ForkStepsOrderly, ProgramsOrderly
<1>2. CASE SystemStep
  <2>1. ~ExecAborts /\ ~ExitAborts
    <3>1. \A t : ~Crash(t)
      BY FrameCrash
    <3> QED
      BY <3>1 DEF ExecAborts, ExitAborts, CrashUnmapped
  <2>2. CASE OtherKernelStep
    BY <2>1, <2>2, ScheduleOrderly, ExitOrderly, ReadsOrderly, PsOrderly DEF OtherKernelStep
  <2> QED
    BY <1>2, <2>2, ReturnOrderly, ForkCopyOrderly, ExecedOrderly, NotExecedOrderly DEF SystemStep
<1> QED
  BY <1>1, <1>2, TypingOrderly, TickOrderly DEF ProgramsNext

----------------------------------------------------------------------------
(* Once blinkd blinks. *)

\* Nothing happens to blinkd, and nobody is about to fork it again.
LEMMA ServesOn ==
    ASSUME ProgramsType, Serving,
           io'.words > 0 /\ io'.pid = 3,
           Used(3)', pcb'[3].signal_handler = pcb[3].signal_handler,
           mem'[3].prog = mem[3].prog, mem'[3].pc = mem[3].pc,
           sys'.at \in {"exec", "exit"} => pcb_curr' # 3,
           sys'.at = "fork" => sys'.arg # 3,
           \A i \in Pid : Stands(i, "blink", {"forked"})' => Stands(i, "blink", {"forked"})
    PROVE  Serving'
  BY DEF Serving, Stands

\* The current process is somewhere else in its program, which does not fork
\* a blinkd.
Moved == \E pc \in Points, cmd \in Command :
            Moves(pc, cmd) /\ (pc = "forked" => Me.prog # "blink")

LEMMA StepMoves ==
    ASSUME TypeOK, ProgramsType, ProgramStep, ~BlinkForks, ~BlinkdGoesOn, ~Handler
    PROVE  Moved
<1>1. /\ Me \in Program /\ Me.cmd \in Command /\ Me.cmd.name \in Names /\ Me.cmd.period \in Nat
  BY CommandTypes DEF Command
<1>2. ASSUME NEW pc \in Points, Go(pc), pc = "forked" => Me.prog # "blink"
      PROVE  Moved
  BY <1>1, <1>2, MoveEffect DEF Moved
<1>3. ASSUME NEW name \in Names, NEW period \in Nat, Execv(name, period)
      PROVE  Moved
  <2>1. [name |-> name, period |-> period] \in Command /\ "execed" \in Points
    BY DEF Command, Points
  <2> QED
    BY <1>1, <1>3, <2>1, MoveEffect DEF Execv, Moved
<1>4. Leaves => Moved
  BY <1>2 DEF Leaves, Points
<1>5. CASE InitStarts \/ InitForked \/ InitSleeps
  BY <1>2, <1>3, <1>4, <1>5 DEF InitStarts, InitForked, InitSleeps, AtPoint, Points, Names
<1>6. CASE ShellReads \/ ShellForked \/ ChildFails
  BY <1>1, <1>2, <1>3, <1>4, <1>6 DEF ShellReads, ShellForked, ChildFails, Points
<1>7. CASE ShellRuns
  <2>1. PICK command \in Commands :
           mem' = [mem EXCEPT ![pcb_curr].pc = "forked", ![pcb_curr].cmd = command]
    BY <1>7 DEF ShellRuns
  <2>2. Me.prog = "shell" /\ command \in Command /\ "forked" \in Points
    BY <1>7, CommandTypes DEF ShellRuns, AtPoint, Points
  <2> QED
    BY <1>1, <2>1, <2>2, MoveEffect DEF Moved
<1>8. CASE EchoEnds \/ PsStarts \/ PsEnds \/ BlinkFindsNoDescriptor
  BY <1>2, <1>4, <1>8 DEF EchoEnds, PsStarts, PsEnds, BlinkFindsNoDescriptor, Points
<1>9. CASE BlinkForked
  <2>1. "blinkd" \in Names
    BY DEF Names
  <2> QED
    BY <1>1, <1>3, <1>4, <1>9, <2>1 DEF BlinkForked
<1>10. CASE BlinkSignals \/ BlinkEnds \/ BlinkdFindsNoDescriptor \/ BlinkdBlinks
  BY <1>2, <1>4, <1>10 DEF BlinkSignals, BlinkEnds, BlinkdFindsNoDescriptor, BlinkdBlinks, Points
<1>11. CASE BlinkdStarts
  <2>1. "handles" \in Points
    BY DEF Points
  <2> QED
    BY <1>1, <1>11, <2>1, MoveEffect DEF BlinkdStarts, Moved
<1> QED
  BY <1>5, <1>6, <1>7, <1>8, <1>9, <1>10, <1>11 DEF ProgramStep

\* What no call of another process does to blinkd.
Spares ==
    /\ Used(3)' /\ pcb'[3].signal_handler = pcb[3].signal_handler
    /\ sys'.at \in {"exec", "exit"} => pcb_curr' # 3
    /\ sys'.at = "fork" => sys'.arg # 3

LEMMA CallsSpare ==
    ASSUME Sizes, TypeOK, sys.at = "user", Used(pcb_curr), Curr.state # "SIGNAL", Alive',
           Used(3), pcb_curr # 3
    PROVE  /\ \A timeout \in 0 .. MAX_TIMEOUT : Usleep(timeout) => Spares
           /\ Exec => Spares
           /\ Exit => Spares
           /\ Ps => Spares
           /\ Read(1) => Spares
           /\ Signal(SIGUSR1, TRUE) => Spares
           /\ Fork => Spares
           /\ Wait => Spares
           /\ Kill(3, SIGUSR1) => Spares
<1>1. 3 \in Pid /\ pcb_curr \in Pid /\ SIGUSR1 \in SIGNALS /\ Curr = pcb[pcb_curr]
  BY Numbers DEF TypeOK, Curr
<1>2. ASSUME Only(pcb_curr) \/ SameProcs, pcb_curr' = pcb_curr, sys'.at # "fork"
      PROVE  Spares
  BY <1>1, <1>2 DEF Only, SameProcs, Spares, Used
<1>3. Calls /\ sys'.at # "fork" => Spares
  BY <1>2 DEF Calls
<1>4. Fork => Spares
  <2> SUFFICES ASSUME Fork PROVE Spares
    OBVIOUS
  <2>1. CASE SameProcs /\ Answered("ret", ERROR)
    BY <1>2, <2>1 DEF SameProcs, Answered
  <2>2. CASE \E c \in Pid, text \in Frame, stack \in Frame : Spawned(c, text, stack)
    <3>1. PICK c \in Pid : \E text \in Frame, stack \in Frame : Spawned(c, text, stack)
      BY <2>2
    <3>2. c # 3 /\ Only(c) /\ sys'.at = "fork" /\ sys'.arg = c
      BY <3>1 DEF Spawned
    <3> QED
      BY <1>1, <3>2 DEF Only, Spares, Used
  <2> QED
    BY <2>1, <2>2, ForkEffect
<1>5. Wait => Spares
  BY <1>2, WaitEffect DEF Unanswered, UserMode, SameProcs
<1>6. Kill(3, SIGUSR1) => Spares
  <2> SUFFICES ASSUME Kill(3, SIGUSR1) PROVE Spares
    OBVIOUS
  <2>1. CASE SameProcs /\ Answered("ret", ERROR)
    BY <1>2, <2>1 DEF SameProcs, Answered
  <2>2. CASE Interrupted(3, pcb[3].state) /\ Answered("ret", 0)
    BY <2>2 DEF Interrupted, Answered, Spares, Used
  <2>3. CASE SameContext(pcb'[3], pcb[3]) /\ pcb'[3].state = pcb[3].state /\ Answered("ret", ERROR)
    BY <2>3 DEF SameContext, Answered, Spares, Used
  <2> QED
    BY <1>1, <2>1, <2>2, <2>3, KillEffect
<1> QED
  BY <1>3, <1>4, <1>5, <1>6, CallEffects

\* The steps of the programs, but for blinkd's.
LEMMA CallsServe ==
    ASSUME Sizes, TypeOK, Owned, ProgramsType, Serving, Alive', ProgramStep,
           ~BlinkdGoesOn, ~Handler
    PROVE  Serving'
<1>1. /\ 3 \in Pid /\ pcb_curr \in Pid /\ Me = mem[pcb_curr]
      /\ io.words > 0 /\ io.pid = 3 /\ Used(3) /\ mem[3].prog = "blinkd" /\ mem[3].pc = "slept"
      /\ ~(Me.prog = "blink" /\ Me.pc = "forked")
      /\ 0 \in 0 .. MAX_TIMEOUT /\ MAX_TIMEOUT \in 0 .. MAX_TIMEOUT
  BY Numbers DEF TypeOK, Me, Serving, Stands
<1>2. ~BlinkForks /\ ~BlinkForked
  BY <1>1 DEF BlinkForks, BlinkForked, AtPoint
<1>3. /\ sys.at = "user" /\ Curr.state # "SIGNAL"
      /\ ~(Me.prog = "blinkd" /\ Me.pc = "slept")
  <2>1. CASE InitStarts \/ InitForked \/ InitSleeps \/ ShellReads \/ ShellRuns \/ ShellForked \/ ChildFails
    BY <2>1 DEF InitStarts, InitForked, InitSleeps, ShellReads, ShellRuns, ShellForked,
       ChildFails, AtPoint
  <2>2. CASE EchoEnds \/ PsStarts \/ PsEnds \/ BlinkFindsNoDescriptor
    BY <2>2 DEF EchoEnds, PsStarts, PsEnds, BlinkFindsNoDescriptor, AtPoint
  <2>3. CASE BlinkSignals \/ BlinkEnds \/ BlinkdStarts \/ BlinkdFindsNoDescriptor \/ BlinkdBlinks
    BY <2>3 DEF BlinkSignals, BlinkEnds, BlinkdStarts, BlinkdFindsNoDescriptor,
       BlinkdBlinks, AtPoint
  <2> QED
    BY <1>2, <2>1, <2>2, <2>3 DEF ProgramStep
<1>4. pcb_curr # 3 /\ Used(pcb_curr)
  BY <1>1, <1>3 DEF Owned
<1>5. Spares
  <2>1. CASE InitStarts \/ InitForked \/ InitSleeps
    BY <1>1, <1>3, <1>4, <2>1, CallsSpare DEF InitStarts, InitForked, InitSleeps, Leaves, Execv
  <2>2. CASE ShellReads \/ ShellRuns \/ ShellForked \/ ChildFails
    BY <1>1, <1>3, <1>4, <2>2, CallsSpare DEF ShellReads, ShellRuns, ShellForked, ChildFails,
       Leaves, Execv
  <2>3. CASE EchoEnds \/ PsStarts \/ PsEnds \/ BlinkFindsNoDescriptor
    BY <1>1, <1>3, <1>4, <2>3, CallsSpare DEF EchoEnds, PsStarts, PsEnds,
       BlinkFindsNoDescriptor, Leaves
  <2>4. CASE BlinkSignals
    BY <1>1, <1>3, <1>4, <2>4, CallsSpare DEF BlinkSignals
  <2>5. CASE BlinkEnds \/ BlinkdStarts \/ BlinkdFindsNoDescriptor \/ BlinkdBlinks
    BY <1>1, <1>3, <1>4, <2>5, CallsSpare DEF BlinkEnds, BlinkdStarts,
       BlinkdFindsNoDescriptor, BlinkdBlinks, Leaves
  <2> QED
    BY <1>2, <2>1, <2>2, <2>3, <2>4, <2>5 DEF ProgramStep
<1>6. io'.words > 0 /\ io'.pid = 3
  <2>1. CASE BlinkSignals
    <3>1. io' = NewPeriod(Me.cmd.period)
      BY <2>1 DEF BlinkSignals
    <3>2. io'.words = 2 /\ io'.pid = io.pid
      BY <3>1 DEF NewPeriod, ProgramsType
    <3> QED
      BY <1>1, <3>2
  <2>2. CASE UNCHANGED io
    BY <1>1, <2>2
  <2>3. BlinkSignals \/ UNCHANGED io
    BY <1>2 DEF ProgramStep, InitStarts, InitForked, InitSleeps, ShellReads, ShellRuns,
       ShellForked, ChildFails, EchoEnds, PsStarts, PsEnds, BlinkFindsNoDescriptor, BlinkEnds,
       BlinkdStarts, BlinkdFindsNoDescriptor, BlinkdBlinks
  <2> QED
    BY <2>1, <2>2, <2>3
<1>7. /\ mem'[3] = mem[3]
      /\ \A i \in Pid : Stands(i, "blink", {"forked"})' => Stands(i, "blink", {"forked"})
  <2>1. PICK pc \in Points : \E cmd \in Command :
           Moves(pc, cmd) /\ (pc = "forked" => Me.prog # "blink")
    BY <1>2, StepMoves DEF Moved
  <2>2. /\ \A i \in Pid \ {pcb_curr} : mem'[i] = mem[i]
        /\ ~(mem'[pcb_curr].prog = "blink" /\ mem'[pcb_curr].pc = "forked")
    BY <2>1 DEF Moves
  <2> QED
    BY <1>1, <1>4, <2>2 DEF Stands
<1> QED
  BY <1>5, <1>6, <1>7, ServesOn DEF Spares

\* blinkd goes on, or its handler returns.
LEMMA BlinkdServesOn ==
    ASSUME Sizes, TypeOK, Owned, ProgramsType, Serving, BlinkdGoesOn \/ Handler
    PROVE  Serving'
<1>1. /\ 3 \in Pid /\ pcb_curr \in Pid /\ Me = mem[pcb_curr] /\ Curr = pcb[pcb_curr]
      /\ io.words > 0 /\ io.pid = 3 /\ Used(3)
      /\ Me \in Program /\ MAX_TIMEOUT \in 0 .. MAX_TIMEOUT
  BY Numbers, CommandTypes DEF TypeOK, Me, Curr, Serving
<1>2. \E m \in Program : /\ mem' = [mem EXCEPT ![pcb_curr] = m]
                         /\ m.prog = Me.prog /\ m.pc = Me.pc
  <2>1. CASE BlinkdGoesOn
    <3> DEFINE m == IF Me.read_ready THEN Updated(Me) ELSE Me
    <3>1. m \in Program /\ m.prog = Me.prog /\ m.pc = Me.pc
      BY <1>1 DEF Updated, Program, ProgramsType
    <3>2. mem' = [mem EXCEPT ![pcb_curr] = m]
      BY <2>1 DEF BlinkdGoesOn
    <3> HIDE DEF m
    <3> QED
      BY <3>1, <3>2
  <2>2. CASE Handler
    <3> DEFINE m == [Me EXCEPT !.read_ready = TRUE]
    <3>1. m \in Program /\ m.prog = Me.prog /\ m.pc = Me.pc
      BY <1>1 DEF Program
    <3>2. mem' = [mem EXCEPT ![pcb_curr] = m]
      BY <1>1, <2>2 DEF Handler
    <3> HIDE DEF m
    <3> QED
      BY <3>1, <3>2
  <2> QED
    BY <2>1, <2>2
<1>3. \A i \in Pid : mem'[i].prog = mem[i].prog /\ mem'[i].pc = mem[i].pc
  <2>1. PICK m \in Program : /\ mem' = [mem EXCEPT ![pcb_curr] = m]
                             /\ m.prog = Me.prog /\ m.pc = Me.pc
    BY <1>2
  <2>2. Sets(m)
    BY <2>1, SetEffect
  <2> QED
    BY <1>1, <2>1, <2>2 DEF Sets
<1>4. /\ Only(pcb_curr) /\ pcb'[pcb_curr].state # "UNUSED"
      /\ pcb'[pcb_curr].signal_handler = Curr.signal_handler /\ sys'.at = "sched"
  <2>1. CASE BlinkdGoesOn
    <3>1. Usleep(MAX_TIMEOUT)
      BY <2>1 DEF BlinkdGoesOn
    <3>2. /\ Only(pcb_curr) /\ pcb_curr' = pcb_curr /\ SameContext(pcb'[pcb_curr], Curr)
          /\ pcb'[pcb_curr].state \in {"READY", "SLEEP"} /\ sys'.at = "sched"
      BY <1>1, <3>1, YieldEffect DEF Answered
    <3> QED
      BY <3>2 DEF SameContext
  <2>2. CASE Handler
    <3>1. /\ Only(pcb_curr) /\ pcb_curr' = pcb_curr /\ Curr.state = "SIGNAL"
          /\ pcb'[pcb_curr].state = Curr.prev_state
          /\ pcb'[pcb_curr].signal_handler = Curr.signal_handler /\ sys'.at = "sched"
      BY <2>2, SignalReturnEffect DEF Handler, Unanswered, UserMode
    <3>2. Curr.prev_state # "UNUSED"
      BY <1>1, <3>1 DEF Owned
    <3> QED
      BY <3>1, <3>2
  <2> QED
    BY <2>1, <2>2
<1>5. Used(3)' /\ pcb'[3].signal_handler = pcb[3].signal_handler
  <2>1. CASE pcb_curr = 3
    BY <1>1, <1>4, <2>1 DEF Used
  <2>2. CASE pcb_curr # 3
    <3>1. pcb'[3] = pcb[3]
      BY <1>1, <1>4, <2>2 DEF Only
    <3> QED
      BY <1>1, <3>1 DEF Used
  <2> QED
    BY <2>1, <2>2
<1>6. UNCHANGED io
  BY DEF BlinkdGoesOn, Handler
<1> QED
  BY <1>1, <1>3, <1>4, <1>5, <1>6, ServesOn DEF Stands

\* A step of the kernel that leaves the programs' memory alone.
LEMMA KernelServes ==
    ASSUME ProgramsType, Serving, UNCHANGED io, Used(3)', pcb'[3].signal_handler = pcb[3].signal_handler,
           \A i \in Pid : mem'[i].prog = mem[i].prog /\ mem'[i].pc = mem[i].pc,
           3 \in Pid,
           sys'.at \in {"exec", "exit"} => pcb_curr' # 3,
           sys'.at = "fork" => sys'.arg # 3
    PROVE  Serving'
  BY ServesOn DEF Serving, Stands

\* The kernel's steps but for those that fork and load.
LEMMA SystemSpares ==
    ASSUME Sizes, TypeOK, Owned, Serving, Alive',
           Return \/ ExecFails \/ OtherKernelStep \/ Typing \/ Tick
    PROVE  Spares
<1>1. /\ 3 \in Pid /\ pcb_curr \in Pid /\ Used(3) /\ Curr = pcb[pcb_curr]
      /\ sys.at \in {"exec", "exit"} => pcb_curr # 3
      /\ sys.at = "fork" => sys.arg # 3
  BY Numbers DEF TypeOK, Serving, Curr
<1>2. ASSUME SameProcs, sys' = sys \/ sys'.at \notin {"exec", "exit", "fork"}
      PROVE  Spares
  BY <1>1, <1>2 DEF SameProcs, Spares, Used
<1>3. ASSUME NEW k \in Pid, Only(k), SameContext(pcb'[k], pcb[k]), Used(k)',
             \/ pcb_curr' = pcb_curr /\ sys' = sys
             \/ sys'.at \notin {"exec", "exit", "fork"}
      PROVE  Spares
  <2>1. Used(3)' /\ pcb'[3].signal_handler = pcb[3].signal_handler
    <3>1. CASE k = 3
      BY <1>3, <3>1 DEF SameContext
    <3>2. CASE k # 3
      <4>1. pcb'[3] = pcb[3]
        BY <1>1, <1>3, <3>2 DEF Only
      <4> QED
        BY <1>1, <4>1 DEF Used
    <3> QED
      BY <3>1, <3>2
  <2> QED
    BY <1>1, <1>3, <2>1 DEF Spares
<1>4. CASE Return
  BY <1>2, <1>4, ReturnEffect DEF UserMode
<1>5. CASE ExecFails
  BY <1>2, <1>5 DEF ExecFails, SameProcs, procs, Leave, ERROR, UNKNOWN, TypeOK
<1>6. CASE Schedule
  <2>1. /\ sys.at = "sched" /\ sys' = [sys EXCEPT !.at = "ret"]
        /\ pcb_curr' \in Pid /\ Only(pcb_curr')
        /\ SameContext(pcb'[pcb_curr'], pcb[pcb_curr'])
        /\ pcb'[pcb_curr'].state \in {"READY", "RUNNING"}
    BY <1>6, ScheduleEffect
  <2>2. sys'.at = "ret"
    BY <2>1 DEF TypeOK
  <2>3. PICK k \in Pid : k = pcb_curr'
    BY <2>1
  <2>4. Only(k) /\ SameContext(pcb'[k], pcb[k]) /\ pcb'[k].state \in {"READY", "RUNNING"}
    BY <2>1, <2>3
  <2> QED
    BY <1>3, <2>2, <2>4 DEF Used
<1>7. CASE ExitDestroy
  <2>1. /\ pcb_curr # 3 /\ sys'.at = "sched"
        /\ \/ Only(pcb_curr)
           \/ \E k \in Pid : /\ \A i \in Pid \ {pcb_curr, k} : pcb'[i] = pcb[i]
                             /\ SameContext(pcb'[k], pcb[k]) /\ pcb'[k].state = "READY"
    BY <1>1, <1>7, ExitEffect DEF Unanswered, UserMode
  <2>2. Used(3)' /\ pcb'[3].signal_handler = pcb[3].signal_handler
    <3>1. CASE Only(pcb_curr)
      <4>1. pcb'[3] = pcb[3]
        BY <1>1, <2>1, <3>1 DEF Only
      <4> QED
        BY <1>1, <4>1 DEF Used
    <3>2. ASSUME NEW k \in Pid, \A i \in Pid \ {pcb_curr, k} : pcb'[i] = pcb[i],
                 SameContext(pcb'[k], pcb[k]), pcb'[k].state = "READY"
          PROVE  Used(3)' /\ pcb'[3].signal_handler = pcb[3].signal_handler
      <4>1. CASE k = 3
        BY <3>2, <4>1 DEF SameContext, Used
      <4>2. CASE k # 3
        <5>1. pcb'[3] = pcb[3]
          BY <1>1, <2>1, <3>2, <4>2
        <5> QED
          BY <1>1, <5>1 DEF Used
      <4> QED
        BY <4>1, <4>2
    <3> QED
      BY <2>1, <3>1, <3>2
  <2> QED
    BY <2>1, <2>2 DEF Spares
<1>8. CASE ExecAborts \/ ExitAborts
  BY <1>8, FrameCrash DEF ExecAborts, ExitAborts, CrashUnmapped
<1>9. CASE ReadEnqueue
  BY <1>2, <1>9 DEF ReadEnqueue, SameProcs, procs, TypeOK
<1>10. CASE ReadBlock
  <2>1. /\ sys'.at = "sched" /\ Only(pcb_curr) /\ SameContext(pcb'[pcb_curr], pcb[pcb_curr])
        /\ pcb'[pcb_curr].state = "BLOCKED"
    BY <1>1, <1>10, ReadBlockEffect DEF TypeOK
  <2> QED
    BY <1>1, <1>3, <2>1 DEF Used
<1>11. CASE PsStep
  <2>1. SameProcs /\ sys.at = "ps" /\ sys' = [sys EXCEPT !.arg = @ + 1]
    BY <1>11, PsStepEffect
  <2> QED
    BY <1>2, <2>1 DEF TypeOK
<1>12. CASE PsDone
  BY <1>2, <1>12 DEF PsDone, SameProcs, procs, Leave, ERROR, UNKNOWN, TypeOK, UserMode
<1>13. CASE Typing
  <2>1. Receive \/ \E i \in Pid : Serve(i)
    BY <1>13 DEF Typing, Interrupt
  <2>2. CASE Receive
    BY <1>2, <2>2 DEF Receive, SameProcs, procs
  <2>3. ASSUME NEW i \in Pid, Serve(i) PROVE Spares
    <3>1. PICK k \in Pid : k = read_queue[i].pid
      BY <2>3, ServeEffect
    <3>2. /\ Only(k) /\ SameContext(pcb'[k], pcb[k]) /\ pcb'[k].state = "READY"
          /\ pcb_curr' = pcb_curr /\ sys' = sys
      BY <2>3, <3>1, ServeEffect
    <3> QED
      BY <1>3, <3>2 DEF Used
  <2> QED
    BY <2>1, <2>2, <2>3
<1>14. CASE Tick
  <2>1. /\ SameContext(pcb'[3], pcb[3]) /\ pcb'[3].state = pcb[3].state
        /\ pcb_curr' = pcb_curr /\ sys' = sys
    BY <1>1, <1>14, TickEffect
  <2> QED
    BY <1>1, <2>1 DEF Spares, Used, SameContext
<1> QED
  BY <1>4, <1>5, <1>6, <1>7, <1>8, <1>9, <1>10, <1>11, <1>12, <1>13, <1>14 DEF OtherKernelStep

LEMMA ForksServe ==
    ASSUME Sizes, TypeOK, Owned, ProgramsType, Serving, Alive', ProgramForks
    PROVE  Serving'
<1>1. /\ ForkCopy /\ mem' = [mem EXCEPT ![sys.arg] = Me] /\ UNCHANGED io
      /\ sys.at = "fork" /\ sys.arg # 3 /\ 3 \in Pid /\ pcb_curr \in Pid /\ Me = mem[pcb_curr]
      /\ Used(3)
  BY Numbers DEF ProgramForks, ForkCopy, Serving, TypeOK, Me
<1>2. /\ sys.arg \in Pid /\ Only(sys.arg) /\ pcb_curr' = pcb_curr
      /\ sys' = [sys EXCEPT !.at = "ret", !.result = sys.arg]
  BY <1>1, ForkCopyEffect
<1>3. PICK c \in Pid : c = sys.arg
  BY <1>2
<1>4. sys'.at = "ret"
  BY <1>2 DEF TypeOK
<1>5. pcb'[3] = pcb[3]
  BY <1>1, <1>2 DEF Only
<1>6. /\ mem'[3] = mem[3]
      /\ \A i \in Pid : mem'[i] = IF i = c THEN mem[pcb_curr] ELSE mem[i]
  BY <1>1, <1>3 DEF ProgramsType
<1>7. \A i \in Pid : Stands(i, "blink", {"forked"})' => Stands(i, "blink", {"forked"})
  BY <1>1, <1>6 DEF Stands, Serving
<1>8. Used(3)' /\ io'.words > 0 /\ io'.pid = 3
  BY <1>1, <1>5 DEF Used, Serving
<1> QED
  BY <1>4, <1>5, <1>6, <1>7, <1>8, ServesOn

LEMMA ExecedServes ==
    ASSUME Sizes, TypeOK, Owned, ProgramsType, Serving, ProgramExeced
    PROVE  Serving'
<1>1. /\ ExecDone /\ UNCHANGED io /\ 3 \in Pid /\ pcb_curr \in Pid /\ Me \in Program
      /\ mem' = [mem EXCEPT ![pcb_curr] = Start(Me.cmd.name, Me.cmd.period)]
  BY Numbers, CommandTypes DEF ProgramExeced, TypeOK
<1>2. sys.at = "exec" /\ Only(pcb_curr) /\ sys'.at = "ret"
  BY <1>1, ExecEffect DEF Unanswered, UserMode
<1>3. pcb_curr # 3 /\ Used(3)
  BY <1>2 DEF Serving
<1>4. pcb'[3] = pcb[3]
  BY <1>1, <1>2, <1>3 DEF Only
<1>5. /\ \A i \in Pid \ {pcb_curr} : mem'[i] = mem[i]
      /\ mem'[pcb_curr].pc = "start"
  BY <1>1 DEF ProgramsType, Start
<1>6. \A i \in Pid : Stands(i, "blink", {"forked"})' => Stands(i, "blink", {"forked"})
  BY <1>5 DEF Stands
<1>7. Used(3)' /\ io'.words > 0 /\ io'.pid = 3 /\ mem'[3] = mem[3]
  BY <1>1, <1>3, <1>4, <1>5 DEF Used, Serving
<1> QED
  BY <1>2, <1>4, <1>6, <1>7, ServesOn

LEMMA ServingStep ==
    ASSUME Sizes, TypeOK, Owned, ProgramsType, Serving, ProgramsNext, Alive'
    PROVE  Serving'
<1>1. CASE ProgramStep
  BY <1>1, CallsServe, BlinkdServesOn
<1>2. CASE ProgramReturns
  <2>1. Return /\ UNCHANGED io
    BY <1>2 DEF ProgramReturns
  <2>2. \A i \in Pid : mem'[i].prog = mem[i].prog /\ mem'[i].pc = mem[i].pc
    BY <1>2 DEF ProgramReturns, ProgramsType, Program
  <2> QED
    BY <2>1, <2>2, Numbers, SystemSpares, KernelServes DEF Spares
<1>3. CASE ProgramForks
  BY <1>3, ForksServe
<1>4. CASE ProgramExeced
  BY <1>4, ExecedServes
<1>5. CASE ProgramNotExeced \/ OtherKernelStep \/ Typing \/ (Tick /\ UNCHANGED progVars)
  <2>1. ExecFails \/ OtherKernelStep \/ Typing \/ Tick
    BY <1>5 DEF ProgramNotExeced
  <2>2. UNCHANGED <<mem, io>>
    BY <1>5 DEF ProgramNotExeced, OtherKernelStep, Typing, progVars
  <2> QED
    BY <2>1, <2>2, Numbers, SystemSpares, KernelServes DEF Spares
<1> QED
  BY <1>1, <1>2, <1>3, <1>4, <1>5 DEF ProgramsNext, SystemStep

----------------------------------------------------------------------------
(* The invariant of the programs. *)

\* Init is alone, and starts.
LEMMA ProgramsInitInv ==
    ASSUME Sizes
    PROVE  ProgramsInit => TypeOK /\ Owned /\ ProgramsType /\ Orderly
<1> SUFFICES ASSUME ProgramsInit
             PROVE  TypeOK /\ Owned /\ ProgramsType /\ Orderly
  OBVIOUS
<1>1. TypeOK /\ Owned /\ Init
  BY InitType, InitOwned DEF ProgramsInit
<1>2. /\ 0 \in Pid /\ 1 \in Pid /\ 2 \in Pid /\ 3 \in Pid /\ NoPid \notin Pid
      /\ Pid \subseteq Nat
  BY Numbers, KernelAssumption DEF Pid
<1>3. /\ pcb[0].state = "READY" /\ pcb[0].stack_frame = 2 /\ pcb[0].virtual_stack_frame = 2
      /\ pcb[0].stack_pointer.section = 2
      /\ \A i \in Pid \ {0} : pcb[i].state = "UNUSED"
      /\ pcb_curr = 0 /\ sys.at = "user" /\ system_page_table[2] = 2
      /\ \A s \in Pid : wait_queue[s] = NoPid /\ read_queue[s].pid = NoPid
  <2>1. /\ pcb[0] = InitPcb /\ \A i \in Pid \ {0} : pcb[i] = UnusedPcb
        /\ pcb_curr = 0 /\ sys = UserMode
        /\ \A s \in Pid : wait_queue[s] = NoPid /\ read_queue[s] = NoRead
    BY <1>1, <1>2 DEF Init
  <2>2. system_page_table[2] = 2
    <3>1. 2 \in Frame
      BY FrameAssumption DEF Frame
    <3>2. system_page_table = [InitPageTable EXCEPT ![2] = 2]
      BY <1>1 DEF Init
    <3>3. DOMAIN InitPageTable = Frame
      BY DEF InitPageTable
    <3> QED
      BY <3>1, <3>2, <3>3
  <2> QED
    BY <2>1, <2>2 DEF InitPcb, UnusedPcb, UserMode, NoRead
<1>4. /\ mem = [i \in Pid |-> Start("init", 0)] /\ io = [words |-> 0, pid |-> 0, period |-> 0]
  BY DEF ProgramsInit
<1>5. ProgramsType
  <2>1. Start("init", 0) \in Program
    BY DEF Start, Program, Names, Points, Command, UNKNOWN
  <2> HIDE DEF Start
  <2> QED
    BY <1>4, <2>1 DEF ProgramsType, Words
<1>6. \A i \in Pid : Used(i) => i = 0
  BY <1>3 DEF Used
<1>7. \A i \in Pid : mem[i].prog = "init" /\ mem[i].pc = "start"
  BY <1>4 DEF Start
<1>8. Cast
  <2>1. Used(0) /\ Role(0)
    BY <1>2, <1>3, <1>7 DEF Used, Role, Stands
  <2>2. ~Used(1) /\ ~Used(2) /\ ~Used(3)
    BY <1>2, <1>6
  <2>3. \A i \in Pid : pcb[i].state # "SIGNAL"
    BY <1>2, <1>3
  <2> QED
    BY <1>3, <1>6, <2>1, <2>2, <2>3 DEF Cast
<1>9. Errand
  BY <1>3 DEF Errand
<1>10. Family
  <2>1. \A p \in 0 .. 2 : Parent(p)
    BY <1>2, <1>7 DEF Parent, IsParent, Stands
  <2>2. \A k \in 1 .. 3 : ~Used(k)
    BY <1>2, <1>6
  <2> QED
    BY <2>1, <2>2 DEF Family, Waiter, Child
<1>11. Stacks
  <2>1. ~Used(1) /\ ~Used(2)
    BY <1>2, <1>6
  <2>2. ~Unexeced(pcb[0])
    BY <1>3 DEF Unexeced
  <2> QED
    BY <1>2, <1>3, <1>6, <2>1, <2>2 DEF Stacks, Curr
<1>12. Queues
  BY <1>3 DEF Queues
<1>13. Notes
  <2>1. ~Used(1) /\ ~Used(2) /\ ~Used(3)
    BY <1>2, <1>6
  <2> QED
    BY <1>2, <1>4, <1>7, <2>1 DEF Notes, Stands
<1> QED
  BY <1>1, <1>5, <1>8, <1>9, <1>10, <1>11, <1>12, <1>13 DEF Orderly

\* What is invariant of the kernel under its programs.
KernelInv == TypeOK /\ FrameInv
Inv == KernelInv /\ ProgramsType /\ ProgramsInv

LEMMA ProgramsInvStep ==
    ASSUME Sizes
    PROVE  Inv /\ [ProgramsNext]_allVars => Inv'
<1> SUFFICES ASSUME Inv, [ProgramsNext]_allVars
             PROVE  Inv'
  OBVIOUS
<1>1. TypeOK /\ FrameInv /\ ProgramsType /\ ProgramsInv
  BY DEF Inv, KernelInv
<1>2. CASE UNCHANGED allVars
  <2>1. UNCHANGED vars /\ UNCHANGED <<mem, io, open>>
    BY <1>2 DEF allVars, progVars
  <2>2. KernelInv'
    BY <1>1, <2>1, TypeStep, FrameStep DEF KernelInv
  <2>3. ProgramsType'
    BY <1>1, <2>1 DEF ProgramsType
  <2>4. ProgramsInv'
    <3>1. UNCHANGED <<pcb, pcb_curr, read_queue, wait_queue, system_page_table, saved_r0, sys, mem, io>>
      BY <2>1 DEF vars, procs, queues, tables
    <3>2. Cast => Cast'
      BY <3>1 DEF Cast, Role, Stands, Used
    <3>3. Errand => Errand'
      BY <3>1 DEF Errand, IsParent, Stands, Curr, Used
    <3>4. /\ \A p \in 0 .. 2 : Parent(p) => Parent(p)'
          /\ \A k \in 1 .. 3 : (Waiter(k) => Waiter(k)') /\ (Child(k) => Child(k)')
      BY <3>1 DEF Parent, Waiter, Child, Fresh, Misses, ResumeR0, IsParent, IsChild, Stands,
         Curr, Used
    <3>5. (Stacks => Stacks') /\ (Queues => Queues')
      BY <3>1 DEF Stacks, Queues, Curr, Used, Unexeced
    <3>6. Notes => Notes'
      BY <3>1 DEF Notes, IsParent, Stands, Used
    <3>7. Serving => Serving'
      BY <3>1 DEF Serving, Stands, Used
    <3>8. Family => Family'
      BY <3>4 DEF Family
    <3> QED
      BY <1>1, <3>1, <3>2, <3>3, <3>5, <3>6, <3>7, <3>8 DEF ProgramsInv, Alive, Orderly
  <2> QED
    BY <2>2, <2>3, <2>4 DEF Inv
<1>3. CASE ProgramsNext
  <2>1. Next /\ Alive
    BY <1>1, <1>3, StepsOfKernel, NextAlive
  <2>2. KernelInv'
    BY <1>1, <2>1, TypeStep, FrameStep DEF KernelInv
  <2>3. ProgramsType'
    BY <1>1, <1>3, ProgramsTypeStep
  <2>4. Owned /\ (Orderly \/ Serving)
    BY <1>1, <2>1, FrameInvOwned DEF ProgramsInv
  <2>5. ProgramsInv'
    BY <1>1, <1>3, <2>4, OrderlyStep, ServingStep DEF ProgramsInv
  <2> QED
    BY <2>2, <2>3, <2>5 DEF Inv
<1> QED
  BY <1>2, <1>3

\* Before blinkd blinks nobody is at the pid in blink.io when blink looks at it.
LEMMA ProgramsInvReaches ==
    ASSUME Sizes
    PROVE  Inv => KillReachesBlinkd
<1> SUFFICES ASSUME Inv, AtPoint("blink", "start"), io.words > 0, Used(io.pid)
             PROVE  mem[io.pid].prog = "blinkd" /\ SIGUSR1 \in pcb[io.pid].signal_handler
  BY DEF KillReachesBlinkd
<1>1. TypeOK /\ Alive /\ Owned /\ (Orderly \/ Serving)
  BY FrameInvOwned DEF Inv, KernelInv, ProgramsInv, AtPoint, Alive
<1>2. CASE Serving
  BY <1>2 DEF Serving, Stands
<1>3. CASE Orderly
  <2>1. /\ sys.at = "user" /\ Me.prog = "blink" /\ Me.pc = "start"
    BY DEF AtPoint
  <2>2. Me = mem[pcb_curr] /\ Role(pcb_curr)
    BY <1>1, <1>3, <2>1, Current
  <2>3. pcb_curr = 2 /\ ~IsParent(2)
    BY <2>1, <2>2 DEF Role, Stands, IsParent
  <2>4. io.pid = 3 /\ ~Used(3)
    BY <1>1, <1>3, <2>1, <2>3, NoChild DEF Orderly, Notes
  <2> QED
    BY <2>4
<1> QED
  BY <1>1, <1>2, <1>3

\* The programs are programs of the kernel: what Kernel promises to all of
\* them, types, who runs, the owners of frames, is promised to these.
THEOREM ProgramsUseKernel ==
    ASSUME Sizes
    PROVE  ProgramsSpec => Spec
<1>1. ProgramsInit => Inv /\ Init
  BY ProgramsInitInv, FrameInvOwned DEF Inv, KernelInv, ProgramsInv, ProgramsInit
<1>2. Inv /\ [ProgramsNext]_allVars => Inv'
  BY ProgramsInvStep
<1>3. Inv /\ [ProgramsNext]_allVars => [Next]_vars
  BY StepsOfKernel DEF Inv, allVars
<1> QED
  BY <1>1, <1>2, <1>3, PTL DEF ProgramsSpec, Spec

\* Whatever is typed, and whenever: if the process that blink.io names is there
\* when a blink looks at the file, it is a blinkd that handles SIGUSR1.
THEOREM OnlyBlinkdIsKilled ==
    ASSUME Sizes
    PROVE  ProgramsSpec => []KillReachesBlinkd
<1>1. ProgramsInit => Inv
  BY ProgramsInitInv, FrameInvOwned DEF Inv, KernelInv, ProgramsInv
<1>2. Inv /\ [ProgramsNext]_allVars => Inv'
  BY ProgramsInvStep
<1>3. Inv => KillReachesBlinkd
  BY ProgramsInvReaches
<1> QED
  BY <1>1, <1>2, <1>3, PTL DEF ProgramsSpec

=============================================================================
