------------------------------ MODULE Programs ------------------------------
(***************************************************************************)
(* The programs of predOS on its kernel: init, the shell and its commands  *)
(* echo, ps and blink, and blinkd, which blink starts and then controls    *)
(* through the file blink.io and SIGUSR1 (apps/*/main.c).                  *)
(*                                                                         *)
(* A step of a program is what it does up to and with its next call that   *)
(* the kernel's processes see; its calls on files and its prints return at *)
(* once and are part of that step.  blink.io is what the card holds of it: *)
(* a pid and a period, of one word each.                                   *)
(***************************************************************************)
EXTENDS KernelProperties

CONSTANTS
    INSTALLED,         \* the commands that are programs on the card
    OTHERS,            \* what else is typed
    PERIODS,           \* the arguments of blink
    DESCRIPTORS        \* of the file system, without the three of the console

Words == 0 .. 2
SIGUSR1 == CHOOSE sig \in SIGNALS : TRUE

ASSUME ProgramsAssumption ==
    /\ INSTALLED \subseteq {"echo", "ps", "blink"}
    /\ PERIODS \subseteq Nat
    /\ DESCRIPTORS \in Nat
    /\ SIGNALS # {}

Commands ==
    [name : (INSTALLED \cup OTHERS) \ {"blink"}, period : {0}]
    \cup [name : {"blink"} \cap INSTALLED, period : PERIODS]

VARIABLES
    mem,      \* per process: its program, where it stands, the r0 it has, ...
    io,       \* blink.io
    open      \* the descriptors in use

progVars == <<mem, io, open>>
allVars == <<vars, progVars>>

Start(name, period) ==
    [prog |-> name, pc |-> "start", r0 |-> UNKNOWN,
     \* the command the shell has read, or the program's arguments
     cmd |-> [name |-> name, period |-> period],
     \* blinkd's
     read_ready |-> FALSE, period |-> 0]

ProgramsInit ==
    /\ Init
    /\ mem = [i \in Pid |-> Start("init", 0)]
    /\ io = [words |-> 0, pid |-> 0, period |-> 0]
    /\ open = 0

----------------------------------------------------------------------------
Me == mem[pcb_curr]

\* The current process is in user mode and not in its signal handler.
AtPoint(prog, pc) ==
    sys.at = "user" /\ Curr.state # "SIGNAL" /\ Me.prog = prog /\ Me.pc = pc

Go(pc) == mem' = [mem EXCEPT ![pcb_curr].pc = pc]

Execv(name, period) ==
    /\ Exec
    /\ mem' = [mem EXCEPT ![pcb_curr].pc = "execed",
                          ![pcb_curr].cmd = [name |-> name, period |-> period]]

\* main returns, or exit is called.
Leaves == Exit /\ Go("gone")

----------------------------------------------------------------------------
(* init: starts the shell and sleeps.  A child whose execv fails does too. *)

InitStarts == AtPoint("init", "start") /\ Fork /\ Go("forked") /\ UNCHANGED <<io, open>>

InitForked ==
    /\ AtPoint("init", "forked")
    /\ \/ Me.r0 = ERROR /\ Leaves
       \/ Me.r0 = 0 /\ Execv("shell", 0)
       \/ Me.r0 > 0 /\ Usleep(0) /\ Go("execed")
    /\ UNCHANGED <<io, open>>

InitSleeps == AtPoint("init", "execed") /\ Usleep(0) /\ Go("execed") /\ UNCHANGED <<io, open>>

----------------------------------------------------------------------------
(* The shell: reads single bytes, runs a line when it is complete.  A read *)
(* that fails ends it; that takes a byte in the middle of the call.        *)

ShellReads ==
    /\ \/ AtPoint("shell", "start") \/ AtPoint("shell", "waited")
       \/ AtPoint("shell", "got") /\ Me.r0 # ERROR
       \/ AtPoint("shell", "forked") /\ Me.r0 = ERROR
    /\ Read(1) /\ Go("got")
    /\ UNCHANGED <<io, open>>

ShellRuns ==
    /\ AtPoint("shell", "got") /\ Me.r0 # ERROR
    /\ Fork
    /\ \E command \in Commands :
          mem' = [mem EXCEPT ![pcb_curr].pc = "forked", ![pcb_curr].cmd = command]
    /\ UNCHANGED <<io, open>>

ShellForked ==
    /\ AtPoint("shell", "forked") /\ Me.r0 # ERROR
    /\ \/ Me.r0 = 0 /\ Execv(Me.cmd.name, Me.cmd.period)
       \/ Me.r0 > 0 /\ Wait /\ Go("waited")
    /\ UNCHANGED <<io, open>>

\* A child of the shell or of blink that is still there after its execv.
ChildFails ==
    /\ \E prog \in {"shell", "blink"} : AtPoint(prog, "execed")
    /\ Leaves
    /\ UNCHANGED <<io, open>>

----------------------------------------------------------------------------
(* echo and ps. *)

EchoEnds == AtPoint("echo", "start") /\ Leaves /\ UNCHANGED <<io, open>>

PsStarts == AtPoint("ps", "start") /\ Ps /\ Go("listed") /\ UNCHANGED <<io, open>>

PsEnds == AtPoint("ps", "listed") /\ Leaves /\ UNCHANGED <<io, open>>

----------------------------------------------------------------------------
(* blink: starts blinkd and leaves its pid in blink.io, or leaves a new    *)
(* period there and signals it.  Nobody closes the file of a blink that    *)
(* fails.                                                                  *)

BlinkFindsNoDescriptor ==
    AtPoint("blink", "start") /\ open = DESCRIPTORS /\ Leaves /\ UNCHANGED <<io, open>>

BlinkForks ==
    /\ AtPoint("blink", "start") /\ open < DESCRIPTORS /\ io.words = 0
    /\ open' = open + 1
    /\ Fork /\ Go("forked")
    /\ UNCHANGED io

\* Mutant: blink leaves its own pid.
PidOfBlink(child) == [io EXCEPT !.words = 1, !.pid = pcb_curr]

PidOf(child) == [io EXCEPT !.words = 1, !.pid = child]

BlinkForked ==
    /\ AtPoint("blink", "forked")
    /\ \/ Me.r0 = ERROR /\ Leaves /\ UNCHANGED <<io, open>>
       \/ Me.r0 = 0 /\ Execv("blinkd", Me.cmd.period) /\ UNCHANGED <<io, open>>
       \/ /\ Me.r0 > 0
          /\ io' = PidOf(Me.r0)
          /\ open' = open - 1
          /\ Leaves

\* The read of the pid has left the offset at the second word.
NewPeriod(period) == [io EXCEPT !.words = 2, !.period = period]

BlinkSignals ==
    /\ AtPoint("blink", "start") /\ open < DESCRIPTORS /\ io.words > 0
    /\ open' = open + 1
    /\ io' = NewPeriod(Me.cmd.period)
    /\ Kill(io.pid, SIGUSR1) /\ Go("killed")

BlinkEnds ==
    /\ AtPoint("blink", "killed")
    /\ open' = IF Me.r0 = ERROR THEN open ELSE open - 1
    /\ Leaves
    /\ UNCHANGED io

----------------------------------------------------------------------------
(* blinkd. *)

BlinkdStarts ==
    /\ AtPoint("blinkd", "start")
    /\ Signal(SIGUSR1, TRUE)
    /\ mem' = [mem EXCEPT ![pcb_curr].pc = "handles", ![pcb_curr].period = Me.cmd.period]
    /\ UNCHANGED <<io, open>>

BlinkdFindsNoDescriptor ==
    AtPoint("blinkd", "handles") /\ open = DESCRIPTORS /\ Leaves /\ UNCHANGED <<io, open>>

\* A period of 0 is a loop that never sleeps, nor lets anybody else run.
BlinkdBlinks ==
    /\ AtPoint("blinkd", "handles") /\ open < DESCRIPTORS
    /\ open' = open + 1
    /\ Me.period > 0
    /\ Usleep(MAX_TIMEOUT) /\ Go("slept")
    /\ UNCHANGED io

\* Mutant: the new period is not looked for.
Unread(m) == m

Updated(m) == [m EXCEPT !.period = io.period, !.read_ready = FALSE]

BlinkdGoesOn ==
    /\ AtPoint("blinkd", "slept")
    /\ LET m == IF Me.read_ready THEN Updated(Me) ELSE Me
       IN mem' = [mem EXCEPT ![pcb_curr] = m] /\ m.period > 0
    /\ Usleep(MAX_TIMEOUT)
    /\ UNCHANGED <<io, open>>

\* user_signal_handler, which returns into exit.
Handler ==
    /\ SignalReturn
    /\ mem' = [mem EXCEPT ![pcb_curr].read_ready = TRUE]
    /\ UNCHANGED <<io, open>>

----------------------------------------------------------------------------
(* What the kernel does to a program's memory and registers. *)

\* The registers of whoever resumes.
ProgramReturns ==
    /\ Return
    /\ LET table == ContextSwitchTable(system_page_table, UsedPcbs, Curr)
           sp == Curr.stack_pointer
       IN mem' = IF sys'.at = "crash" THEN mem
                 ELSE [mem EXCEPT ![pcb_curr].r0 = Stored(saved_r0)[table[sp.section]][sp.level]]
    /\ UNCHANGED <<io, open>>

ProgramForks ==
    /\ ForkCopy
    /\ mem' = [mem EXCEPT ![sys.arg] = Me]
    /\ UNCHANGED <<io, open>>

\* kernel_execv opens the file and never closes it.
OnCard == Me.cmd.name \in INSTALLED \cup {"shell", "blinkd"}

ProgramExeced ==
    /\ OnCard /\ open < DESCRIPTORS
    /\ ExecDone
    /\ open' = open + 1
    /\ mem' = [mem EXCEPT ![pcb_curr] = Start(Me.cmd.name, Me.cmd.period)]
    /\ UNCHANGED io

ProgramNotExeced ==
    /\ ~ OnCard \/ open = DESCRIPTORS
    /\ ExecFails
    /\ UNCHANGED progVars

OtherKernelStep ==
    /\ \/ Schedule \/ ExecAborts \/ ExitDestroy \/ ExitAborts
       \/ ReadEnqueue \/ ReadBlock \/ PsStep \/ PsDone
    /\ UNCHANGED progVars

\* A typist who waits for the prompt or the echo, and may type ahead of a
\* command that runs, but does not hit the kernel in the middle of a call.
Typing ==
    /\ sys.at = "user"
    /\ \E i \in Pid : mem[i].prog = "shell" /\ pcb[i].state = "BLOCKED"
    /\ Interrupt
    /\ UNCHANGED progVars

ProgramStep ==
    \/ InitStarts \/ InitForked \/ InitSleeps
    \/ ShellReads \/ ShellRuns \/ ShellForked \/ ChildFails
    \/ EchoEnds \/ PsStarts \/ PsEnds
    \/ BlinkFindsNoDescriptor \/ BlinkForks \/ BlinkForked
    \/ BlinkSignals \/ BlinkEnds
    \/ BlinkdStarts \/ BlinkdFindsNoDescriptor \/ BlinkdBlinks \/ BlinkdGoesOn \/ Handler

SystemStep ==
    ProgramReturns \/ ProgramForks \/ ProgramExeced \/ ProgramNotExeced \/ OtherKernelStep

ProgramsNext ==
    \/ ProgramStep \/ SystemStep \/ Typing
    \/ Tick /\ UNCHANGED progVars

\* The processor runs on, whoever has it, and so does the clock.
ProgramsSpec ==
    /\ ProgramsInit /\ [][ProgramsNext]_allVars
    /\ WF_allVars(ProgramStep) /\ WF_allVars(SystemStep)
    /\ WF_allVars(Tick /\ UNCHANGED progVars)

----------------------------------------------------------------------------
\* Only a blinkd that handles it is ever sent SIGUSR1: the pid in blink.io is
\* that of a process that is gone, or that has registered its handler before
\* the next blink can run (blink/main.c:56; kernel_kill runs whomever it is
\* told to, in whatever state).
KillReachesBlinkd ==
    AtPoint("blink", "start") /\ io.words > 0 /\ Used(io.pid) =>
        mem[io.pid].prog = "blinkd" /\ SIGUSR1 \in pcb[io.pid].signal_handler

IsShell(i) == Used(i) /\ mem[i].prog = "shell" /\ ~ Unexeced(pcb[i])

\* Every command line ends and the shell reads on, whatever the command is,
\* whatever is typed ahead of its end, and when descriptors have run out as
\* well (cmd_handler; kernel_wait and kernel_exit).
PromptReturns ==
    \A i \in Pid : IsShell(i) /\ mem[i].pc \in {"forked", "waited"}
                   ~> IsShell(i) /\ mem[i].pc = "got"

Blinkd(i) == Used(i) /\ mem[i].prog = "blinkd" /\ mem[i].pc = "slept"

\* A new period gets to a running blinkd, through the file and the signal.
UpdateReaches ==
    \A i \in Pid : Blinkd(i) /\ io.words = 2 ~> Blinkd(i) /\ mem[i].period = io.period
============================================================================
