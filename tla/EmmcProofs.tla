---------------------------- MODULE EmmcProofs -----------------------------
(***************************************************************************)
(* Proofs about the driver of the SD card, for cards of any size, calls of *)
(* any number of blocks and any number of faults: types; that driver,      *)
(* host and card implement BlockDevice; that nothing fails with a card     *)
(* that makes no mistake; and that a write that reports done is done,      *)
(* after any failures.                                                     *)
(*                                                                         *)
(* The invariant of the implementation has four parts: where a call stands *)
(* (Shape), which command may be on its way (Commands), which place of the *)
(* card a block in the host's buffer is for (Places), and, as long as no   *)
(* call has failed, how far the transfer has come (Exact).                 *)
(***************************************************************************)
EXTENDS EmmcProperties, SequenceTheorems, TLAPS

Starting == {"issue", "send", "sent"}
Reading == {"read_ready", "clear", "drain", "take"}
Writing == {"write_ready", "write_clear", "put"}
Moving == Reading \cup Writing \cup {"done"}

\* The card has accepted the command of the call.
Accepted == at \in Moving \/ (at = "sent" /\ "command_done" \in INTERRUPT)

ShapeOf(kind) ==
    CASE kind = "init" ->
            /\ at \in Starting \cup {"off", "idle"} /\ cmd \in InitCommand
            /\ pending \in InitCommand \cup {NoCommand}
            /\ xfer = NoTransfer /\ fifo = <<>> /\ count = 0
            /\ at # "off" \/ reply = "none" => ~ failed
      [] kind = "read" -> at \in Starting \cup Reading \cup {"done", "idle"} /\ cmd = "READ_MULTIPLE_BLOCK"
      [] kind = "write" -> at \in Starting \cup Writing \cup {"done", "idle"} /\ cmd = "WRITE_MULTIPLE_BLOCK"

Shape ==
    /\ ShapeOf(request.kind)
    /\ request.kind # "init" =>
          /\ request.n > 0 /\ request.addr + request.n - 1 \in Address
          /\ at \in Starting => i = 0 /\ buf = <<>>
          /\ at \in Reading \cup Writing => i < request.n
          /\ at = "done" => i = request.n

Commands ==
    /\ at \in Moving \cup {"issue", "send"} => pending = NoCommand
    /\ at = "send" => "command_done" \notin INTERRUPT
    /\ at = "sent" =>
          /\ "command_done" \in INTERRUPT => pending = NoCommand
          /\ pending # NoCommand => pending = cmd /\ ARGUMENT1 = request.addr
    /\ at = "idle" /\ request.kind = "init" => pending = NoCommand
    /\ at = "off" /\ reply = "none" => pending = NoCommand
    /\ pending \in DataCommand => xfer.dir = "none"

Places ==
    /\ xfer.dir = "none" => fifo = <<>>
    /\ \A a \in Address : store[a].to = a
    /\ xfer.dir = "write" => \A k \in 1 .. Len(fifo) : fifo[k].to = xfer.addr + k - 1
    /\ request.kind = "write" /\ Accepted /\ xfer.dir = "write" =>
          xfer.addr + Len(fifo) = request.addr + i

\* A read has come to its i-th block; one more may be in the host's buffer.
ReadSoFar ==
    /\ request.kind = "read"
    /\ Len(fifo) <= 1 /\ count + Len(fifo) + i = request.n
    /\ xfer.addr = request.addr + i + Len(fifo)
    /\ fifo # <<>> => fifo[1] = store[request.addr + i]
    /\ "read_ready" \in INTERRUPT \/ at \in {"clear", "drain", "take"} => fifo # <<>>

\* A write has brought so many of its blocks to the card; the others that the
\* driver has put are in the host's buffer.
WrittenSoFar ==
    /\ request.kind = "write"
    /\ xfer.addr >= request.addr /\ count + (xfer.addr - request.addr) = request.n
    /\ \A k \in 0 .. xfer.addr - request.addr - 1 : store[request.addr + k] = Data(request, k)
    /\ \A k \in 1 .. Len(fifo) : fifo[k] = Data(request, xfer.addr - request.addr + k - 1)

Taken == Len(buf) = i /\ \A k \in 1 .. i : buf[k] = store[request.addr + k - 1]

Finished ==
    /\ at = "done" /\ xfer = NoTransfer /\ count = 0
    /\ request.kind = "read" => Taken
    /\ request.kind = "write" =>
          \A k \in 0 .. request.n - 1 : store[request.addr + k] = Data(request, k)

Exact == ~ failed /\ request.kind # "init" =>
    /\ at = "idle" => xfer = NoTransfer /\ count = 0 /\ pending = NoCommand
    /\ at \in {"issue", "send"} \/ (at = "sent" /\ ~ Accepted) => xfer = NoTransfer /\ count = request.n
    /\ at = "send" \/ (at = "sent" /\ ~ Accepted) => INTERRUPT \subseteq {"error"}
    /\ Accepted =>
          /\ xfer.dir = "read" => ReadSoFar /\ Taken
          /\ xfer.dir = "write" => WrittenSoFar
    /\ at \in {"send", "sent"} \cup Moving /\ "data_done" \in INTERRUPT => Finished

IInv == TypeOK /\ Shape /\ Commands /\ Places /\ Exact

----------------------------------------------------------------------------
(* Types. *)

\* A place of the request is one of the card.
LEMMA DataType ==
    ASSUME TypeOK, Shape, request.kind # "init", NEW k \in 0 .. request.n - 1
    PROVE  request.addr + k \in Address /\ Data(request, k) \in Block
<1>1. request.addr \in 0 .. LAST /\ request.n \in 0 .. MAX_COUNT /\ request.no \in Nat
  BY DEF TypeOK, Request, Address, Count
<1>2. request.addr + request.n - 1 \in 0 .. LAST
  BY DEF Shape, Address
<1>3. request.addr + k \in 0 .. LAST
  BY <1>1, <1>2, EmmcAssumption
<1> QED
  BY <1>1, <1>3 DEF Data, Block, Address

\* Which call the driver is in, where it moves blocks.
LEMMA KindShape ==
    ASSUME TypeOK, Shape
    PROVE  /\ at \in Reading => request.kind = "read"
           /\ at \in Writing => request.kind = "write"
           /\ at \in Moving => request.kind # "init"
           /\ at = "off" => request.kind = "init"
           /\ cmd \in InitCommand <=> request.kind = "init"
           /\ request.kind = "read" <=> cmd = "READ_MULTIPLE_BLOCK"
           /\ request.kind = "write" <=> cmd = "WRITE_MULTIPLE_BLOCK"
<1>1. request.kind \in {"init", "read", "write"}
  BY DEF TypeOK, Request
<1>2. CASE request.kind = "init"
  BY <1>2 DEF Shape, ShapeOf, Starting, Moving, Reading, Writing, InitCommand
<1>3. CASE request.kind = "read"
  BY <1>3 DEF Shape, ShapeOf, Starting, Moving, Reading, Writing, InitCommand
<1>4. CASE request.kind = "write"
  BY <1>4 DEF Shape, ShapeOf, Starting, Moving, Reading, Writing, InitCommand
<1> QED
  BY <1>1, <1>2, <1>3, <1>4

\* The block that is put is one of the call.
LEMMA PutShape ==
    ASSUME TypeOK, Shape, at = "put"
    PROVE  request.kind = "write" /\ i \in 0 .. request.n - 1 /\ Data(request, i) \in Block
<1>1. request.kind = "write"
  BY KindShape DEF Writing
<1>2. i \in 0 .. request.n - 1
  BY <1>1 DEF Shape, Writing, TypeOK, Request, Count
<1> QED
  BY <1>1, <1>2, DataType

\* What the card becomes by a command is a state of a card.
LEMMA ActedType ==
    ASSUME TypeOK, NEW c \in Command
    PROVE  Acted(c) \in [state : CardState, app : BOOLEAN, polls : Nat, slow : Nat]
<1>1. After(c) \in CardState
  BY DEF After, CardState, Command, InitCommand, DataCommand
<1>2. card.polls + 1 \in Nat /\ (c = "APP_CMD") \in BOOLEAN
  BY DEF TypeOK
<1> QED
  BY <1>1, <1>2 DEF Acted, TypeOK

\* A buffer that is not empty gives a block and keeps blocks.
LEMMA FifoType ==
    ASSUME TypeOK, fifo # <<>>
    PROVE  Head(fifo) \in Block /\ Tail(fifo) \in Seq(Block)
  BY HeadTailProperties DEF TypeOK

\* Every step keeps the types.
LEMMA TypeStep == TypeOK /\ Shape /\ [Next]_vars => TypeOK'
<1> SUFFICES ASSUME TypeOK, Shape, [Next]_vars PROVE TypeOK'
  OBVIOUS
<1>1. CASE Clear
  BY <1>1 DEF TypeOK, Clear, GoTo, AllCleared, driver, host
<1>2. CASE Send
  <2>1. INTERRUPT' \subseteq Bits
    BY <1>2 DEF TypeOK, Send, Raise, Bits
  <2>2. request.addr \in Address
    BY DEF TypeOK, Request
  <2> QED
    BY <1>2, <2>1, <2>2 DEF TypeOK, Send, GoTo, Busy, driver, host
<1>3. CASE CommandFails
  BY <1>3 DEF TypeOK, CommandFails, Return, driver, host
<1>4. CASE DataPhase
  BY <1>4 DEF TypeOK, DataPhase, GoTo, driver, host
<1>5. CASE ResetFails
  BY <1>5 DEF TypeOK, ResetFails, Return, driver, host
<1>6. CASE Reset
  BY <1>6 DEF TypeOK, Reset, GoTo, driver, host
<1>7. CASE InitGoesOn
  BY <1>7, EmmcAssumption, SMTT(30)
     DEF TypeOK, InitGoesOn, NextCommand, PollsLeft, Command, InitCommand, DataCommand, Count,
     driver, host
<1>8. CASE InitFails
  BY <1>8 DEF TypeOK, InitFails, Return, PollsLeft, driver, host
<1>9. CASE InitDone
  BY <1>9 DEF TypeOK, InitDone, Return, driver, host
<1>10. CASE SeeReady
  BY <1>10 DEF TypeOK, SeeReady, GoTo, BlockSeen, driver, host
<1>11. CASE ClearReady
  BY <1>11 DEF TypeOK, ClearReady, GoTo, AllCleared, driver, host
<1>12. CASE SeeNotReady
  BY <1>12 DEF TypeOK, SeeNotReady, GoTo, driver, host
<1>13. CASE TakeBlock
  <2>1. buf' \in Seq(Block \cup {Garbage})
    BY <1>13, FifoType DEF TypeOK, TakeBlock
  <2>2. fifo' \in Seq(Block)
    BY <1>13, FifoType DEF TypeOK, TakeBlock
  <2> QED
    BY <1>13, <2>1, <2>2 DEF TypeOK, TakeBlock, AllCleared, More
<1>14. CASE SeeWriteReady
  BY <1>14 DEF TypeOK, SeeWriteReady, GoTo, driver, host
<1>15. CASE ClearWriteReady
  BY <1>15 DEF TypeOK, ClearWriteReady, GoTo, AllCleared, driver, host
<1>16. CASE PutBlock
  <2>1. Data(request, i) \in Block
    BY <1>16, PutShape DEF PutBlock
  <2> QED
    BY <1>16, <2>1 DEF TypeOK, PutBlock, More
<1>17. CASE TransferDone
  BY <1>17 DEF TypeOK, TransferDone, Return, EndSeen, driver, host
<1>18. CASE GiveUp
  BY <1>18 DEF TypeOK, GiveUp, Return, HostWaits, driver, host
<1>19. CASE Answer
  <2>1. pending \in Command /\ card' \in [state : CardState, app : BOOLEAN, polls : Nat, slow : Nat]
    BY <1>19, ActedType DEF TypeOK, Answer
  <2>2. xfer' \in [dir : {"none", "read", "write"}, addr : Nat, auto : BOOLEAN, asked : BOOLEAN]
    BY <1>19 DEF TypeOK, Answer, Direction, AutoCommand, Address
  <2>3. INTERRUPT' \subseteq Bits
    BY <1>19 DEF TypeOK, Answer, Raise, Bits
  <2> QED
    BY <1>19, <2>1, <2>2, <2>3 DEF TypeOK, Answer, driver
<1>20. CASE Refuse
  BY <1>20 DEF TypeOK, Refuse, Raise, Bits, NoCommand, driver, host
<1>21. CASE LoseCommand
  <2>1. card' \in [state : CardState, app : BOOLEAN, polls : Nat, slow : Nat]
    BY <1>21, ActedType DEF TypeOK, LoseCommand
  <2>2. INTERRUPT' \subseteq Bits
    BY <1>21 DEF TypeOK, LoseCommand, Raise, Bits
  <2> QED
    BY <1>21, <2>1, <2>2 DEF TypeOK, LoseCommand, driver
<1>22. CASE HostReads
  <2>1. fifo' \in Seq(Block) /\ count' \in Count
    BY <1>22, EmmcAssumption, SMTT(30) DEF TypeOK, HostReads, Count
  <2>2. INTERRUPT' \subseteq Bits
    BY <1>22 DEF TypeOK, HostReads, Raise, Bits
  <2> QED
    BY <1>22, <2>1, <2>2, SMTT(30) DEF TypeOK, HostReads, driver
<1>23. CASE HostAsks
  BY <1>23 DEF TypeOK, HostAsks, Raise, Bits, driver, host
<1>24. CASE HostWrites
  <2>1. fifo' \in Seq(Block) /\ store' \in [Address -> Block]
    BY <1>24, FifoType DEF TypeOK, HostWrites
  <2>2. count' = count - 1 /\ count > 0 /\ xfer' = [xfer EXCEPT !.addr = @ + 1, !.asked = FALSE]
    BY <1>24 DEF HostWrites
  <2>3. count' \in Count
    BY <2>2, EmmcAssumption DEF TypeOK, Count
  <2>4. xfer' \in [dir : {"none", "read", "write"}, addr : Nat, auto : BOOLEAN, asked : BOOLEAN]
    <3>1. xfer.addr + 1 \in Nat
      BY DEF TypeOK
    <3> QED
      BY <2>2, <3>1 DEF TypeOK
  <2> QED
    BY <1>24, <2>1, <2>3, <2>4 DEF TypeOK, HostWrites, driver
<1>25. CASE HostDone
  BY <1>25 DEF TypeOK, HostDone, Raise, NoTransfer, Bits, CardState, driver, host
<1>26. CASE HostAborts
  BY <1>26 DEF TypeOK, HostAborts, Raise, NoTransfer, Bits, CardState, driver, host
<1>27. ASSUME NEW a \in Address, NEW n \in ReadSizes, ReadBlock(a, n) PROVE TypeOK'
  BY <1>27, EmmcAssumption, OrAssumption
     DEF TypeOK, ReadBlock, Begin, CountFor, Request, Command, DataCommand
<1>28. ASSUME NEW a \in Address, NEW n \in WriteSizes, WriteBlock(a, n) PROVE TypeOK'
  BY <1>28, EmmcAssumption, OrAssumption
     DEF TypeOK, WriteBlock, Begin, CountFor, Request, Command, DataCommand
<1>29. CASE UNCHANGED vars
  BY <1>29 DEF TypeOK, vars, driver, host
<1> QED
  BY <1>1, <1>2, <1>3, <1>4, <1>5, <1>6, <1>7, <1>8, <1>9, <1>10, <1>11, <1>12, <1>13, <1>14, <1>15,
     <1>16, <1>17, <1>18, <1>19, <1>20, <1>21, <1>22, <1>23, <1>24, <1>25, <1>26, <1>27, <1>28,
     <1>29
     DEF Next, DriverStep, NewCall, HostStep

----------------------------------------------------------------------------
(* Where a call stands. *)

\* Every step keeps the shape of the call: its command, its blocks and how many
\* of them the loops of the driver have moved.
LEMMA ShapeStep == TypeOK /\ Shape /\ Commands /\ [Next]_vars => Shape'
<1> SUFFICES ASSUME TypeOK, Shape, Commands, [Next]_vars PROVE Shape'
  OBVIOUS
<1> request.kind \in {"init", "read", "write"} /\ i \in Nat /\ request.n \in Nat
  BY DEF TypeOK, Request, Count
<1> request.kind = "init" => xfer.dir = "none"
  BY DEF Shape, ShapeOf, NoTransfer
<1>1. CASE Clear
  BY <1>1 DEF Shape, ShapeOf, Starting, Reading, Writing, Clear, GoTo, AllCleared, driver, host
<1>2. CASE Send
  BY <1>2 DEF Shape, ShapeOf, Starting, Reading, Writing, Send, GoTo, Busy, Raise, driver, host
<1>3. CASE CommandFails
  BY <1>3 DEF Shape, ShapeOf, Starting, Reading, Writing, CommandFails, Return, driver, host
<1>4. CASE DataPhase
  BY <1>4
     DEF Shape, ShapeOf, Starting, Reading, Writing, DataPhase, GoTo, InitCommand, DataCommand,
     driver, host
<1>5. CASE ResetFails
  BY <1>5 DEF Shape, ShapeOf, Starting, Reading, Writing, ResetFails, Return, driver, host
<1>6. CASE Reset
  BY <1>6 DEF Shape, ShapeOf, Starting, Reading, Writing, Reset, GoTo, driver, host
<1>7. CASE InitGoesOn
  BY <1>7
     DEF Shape, ShapeOf, Starting, Reading, Writing, InitGoesOn, NextCommand, PollsLeft,
     InitCommand, driver, host
<1>8. CASE InitFails
  BY <1>8
     DEF Shape, ShapeOf, Starting, Reading, Writing, InitFails, Return, PollsLeft, InitCommand,
     driver, host
<1>9. CASE InitDone
  BY <1>9 DEF Shape, ShapeOf, Starting, Reading, Writing, InitDone, Return, InitCommand, driver, host
<1>10. CASE SeeReady
  BY <1>10 DEF Shape, ShapeOf, Starting, Reading, Writing, SeeReady, GoTo, BlockSeen, driver, host
<1>11. CASE ClearReady
  BY <1>11 DEF Shape, ShapeOf, Starting, Reading, Writing, ClearReady, GoTo, AllCleared, driver, host
<1>12. CASE SeeNotReady
  BY <1>12 DEF Shape, ShapeOf, Starting, Reading, Writing, SeeNotReady, GoTo, driver, host
<1>13. CASE TakeBlock
  <2>1. at = "take" /\ i' = i + 1 /\ at' = (IF i + 1 < request.n THEN "read_ready" ELSE "done")
        /\ UNCHANGED <<request, cmd>>
    BY <1>13 DEF TakeBlock, More
  <2>2. request.kind = "read" /\ i < request.n
    BY <2>1, KindShape DEF Shape, Reading
  <2> QED
    BY <2>1, <2>2 DEF Shape, ShapeOf, Starting, Reading, Writing
<1>14. CASE SeeWriteReady
  BY <1>14 DEF Shape, ShapeOf, Starting, Reading, Writing, SeeWriteReady, GoTo, driver, host
<1>15. CASE ClearWriteReady
  BY <1>15 DEF Shape, ShapeOf, Starting, Reading, Writing, ClearWriteReady, GoTo, AllCleared, driver, host
<1>16. CASE PutBlock
  <2>1. at = "put" /\ i' = i + 1 /\ at' = (IF i + 1 < request.n THEN "put" ELSE "done")
        /\ UNCHANGED <<request, cmd>>
    BY <1>16 DEF PutBlock, More
  <2>2. request.kind = "write" /\ i < request.n
    BY <2>1, PutShape
  <2> QED
    BY <2>1, <2>2 DEF Shape, ShapeOf, Starting, Reading, Writing
<1>17. CASE TransferDone
  BY <1>17 DEF Shape, ShapeOf, Starting, Reading, Writing, TransferDone, Return, EndSeen, driver, host
<1>18. CASE GiveUp
  BY <1>18 DEF Shape, ShapeOf, Starting, Reading, Writing, GiveUp, Return, HostWaits, driver, host
<1>19. CASE Answer
  BY <1>19
     DEF Shape, ShapeOf, Starting, Reading, Writing, Answer, Raise, Acted, After, Direction,
     AutoCommand, InitCommand, DataCommand, NoCommand, driver, host
<1>20. CASE Refuse
  BY <1>20 DEF Shape, ShapeOf, Starting, Reading, Writing, Refuse, Raise, NoCommand, driver, host
<1>21. CASE LoseCommand
  BY <1>21
     DEF Shape, ShapeOf, Starting, Reading, Writing, LoseCommand, Raise, Acted, After, NoCommand,
     driver, host
<1>22. CASE HostReads
  BY <1>22 DEF Shape, ShapeOf, Starting, Reading, Writing, HostReads, Raise, driver, host
<1>23. CASE HostAsks
  BY <1>23 DEF Shape, ShapeOf, Starting, Reading, Writing, HostAsks, Raise, driver, host
<1>24. CASE HostWrites
  BY <1>24 DEF Shape, ShapeOf, Starting, Reading, Writing, HostWrites, driver, host
<1>25. CASE HostDone
  BY <1>25 DEF Shape, ShapeOf, Starting, Reading, Writing, HostDone, Raise, NoTransfer, driver, host
<1>26. CASE HostAborts
  BY <1>26 DEF Shape, ShapeOf, Starting, Reading, Writing, HostAborts, Raise, NoTransfer, driver, host
<1>27. ASSUME NEW a \in Address, NEW n \in ReadSizes, ReadBlock(a, n) PROVE Shape'
  <2>1. request' = [kind |-> "read", addr |-> a, n |-> n, no |-> writes + 1]
        /\ a + n - 1 \in Address /\ cmd' = "READ_MULTIPLE_BLOCK" /\ at' = "issue" /\ i' = 0 /\ buf' = <<>>
    BY <1>27 DEF ReadBlock, Begin
  <2>2. n \in Nat /\ n > 0
    BY EmmcAssumption DEF Count
  <2> QED
    BY <2>1, <2>2 DEF Shape, ShapeOf, Starting, Reading, Writing, Address
<1>28. ASSUME NEW a \in Address, NEW n \in WriteSizes, WriteBlock(a, n) PROVE Shape'
  <2>1. request' = [kind |-> "write", addr |-> a, n |-> n, no |-> writes + 1]
        /\ a + n - 1 \in Address /\ cmd' = "WRITE_MULTIPLE_BLOCK" /\ at' = "issue" /\ i' = 0 /\ buf' = <<>>
    BY <1>28 DEF WriteBlock, Begin
  <2>2. n \in Nat /\ n > 0
    BY EmmcAssumption DEF Count
  <2> QED
    BY <2>1, <2>2 DEF Shape, ShapeOf, Starting, Reading, Writing, Address
<1>29. CASE UNCHANGED vars
  BY <1>29 DEF Shape, ShapeOf, Starting, Reading, Writing, vars, driver, host
<1> QED
  BY <1>1, <1>2, <1>3, <1>4, <1>5, <1>6, <1>7, <1>8, <1>9, <1>10, <1>11, <1>12, <1>13, <1>14, <1>15,
     <1>16, <1>17, <1>18, <1>19, <1>20, <1>21, <1>22, <1>23, <1>24, <1>25, <1>26, <1>27, <1>28,
     <1>29
     DEF Next, DriverStep, NewCall, HostStep

----------------------------------------------------------------------------
(* Commands on their way. *)

\* A command is pending only while the driver waits for it, or after it has
\* given it up; a command for data never meets a transfer.
LEMMA CommandsStep == TypeOK /\ Shape /\ Commands /\ [Next]_vars => Commands'
<1> SUFFICES ASSUME TypeOK, Shape, Commands, [Next]_vars PROVE Commands'
  OBVIOUS
<1> request.kind \in {"init", "read", "write"}
  BY DEF TypeOK, Request
<1> NoCommand \notin Command /\ DataCommand \subseteq Command /\ pending \in Command \cup {NoCommand}
  BY DEF NoCommand, Command, InitCommand, DataCommand, TypeOK
<1> request.kind = "init" => xfer.dir = "none" /\ pending \notin DataCommand
  BY DEF Shape, ShapeOf, NoTransfer, InitCommand, DataCommand, NoCommand
<1>1. CASE Clear
  BY <1>1 DEF Commands, Starting, Reading, Writing, Moving, Clear, GoTo, AllCleared, driver, host
<1>2. CASE Send
  BY <1>2 DEF Commands, Starting, Reading, Writing, Moving, Send, GoTo, Busy, Raise, driver, host
<1>3. CASE CommandFails
  BY <1>3 DEF Commands, Starting, Reading, Writing, Moving, CommandFails, Return, driver, host
<1>4. CASE DataPhase
  BY <1>4 DEF Commands, Starting, Reading, Writing, Moving, DataPhase, GoTo, driver, host
<1>5. CASE ResetFails
  BY <1>5 DEF Commands, Starting, Reading, Writing, Moving, ResetFails, Return, driver, host
<1>6. CASE Reset
  BY <1>6 DEF Commands, Starting, Reading, Writing, Moving, Reset, GoTo, driver, host
<1>7. CASE InitGoesOn
  BY <1>7 DEF Commands, Starting, Reading, Writing, Moving, InitGoesOn, NextCommand, PollsLeft, driver, host
<1>8. CASE InitFails
  BY <1>8 DEF Commands, Starting, Reading, Writing, Moving, InitFails, Return, PollsLeft, driver, host
<1>9. CASE InitDone
  BY <1>9 DEF Commands, Starting, Reading, Writing, Moving, InitDone, Return, driver, host
<1>10. CASE SeeReady
  BY <1>10 DEF Commands, Starting, Reading, Writing, Moving, SeeReady, GoTo, BlockSeen, driver, host
<1>11. CASE ClearReady
  BY <1>11 DEF Commands, Starting, Reading, Writing, Moving, ClearReady, GoTo, AllCleared, driver, host
<1>12. CASE SeeNotReady
  BY <1>12 DEF Commands, Starting, Reading, Writing, Moving, SeeNotReady, GoTo, driver, host
<1>13. CASE TakeBlock
  BY <1>13 DEF Commands, Starting, Reading, Writing, Moving, TakeBlock, AllCleared, More, driver, host
<1>14. CASE SeeWriteReady
  BY <1>14 DEF Commands, Starting, Reading, Writing, Moving, SeeWriteReady, GoTo, driver, host
<1>15. CASE ClearWriteReady
  BY <1>15 DEF Commands, Starting, Reading, Writing, Moving, ClearWriteReady, GoTo, AllCleared, driver, host
<1>16. CASE PutBlock
  BY <1>16 DEF Commands, Starting, Reading, Writing, Moving, PutBlock, More, Data, driver, host
<1>17. CASE TransferDone
  BY <1>17 DEF Commands, Starting, Reading, Writing, Moving, TransferDone, Return, EndSeen, driver, host
<1>18. CASE GiveUp
  BY <1>18 DEF Commands, Starting, Reading, Writing, Moving, GiveUp, Return, HostWaits, driver, host
<1>19. CASE Answer
  BY <1>19
     DEF Commands, Starting, Reading, Writing, Moving, Answer, Raise, Acted, After, Direction,
     AutoCommand, driver, host
<1>20. CASE Refuse
  BY <1>20 DEF Commands, Starting, Reading, Writing, Moving, Refuse, Raise, driver, host
<1>21. CASE LoseCommand
  BY <1>21 DEF Commands, Starting, Reading, Writing, Moving, LoseCommand, Raise, Acted, After, driver, host
<1>22. CASE HostReads
  BY <1>22 DEF Commands, Starting, Reading, Writing, Moving, HostReads, Raise, driver, host
<1>23. CASE HostAsks
  BY <1>23 DEF Commands, Starting, Reading, Writing, Moving, HostAsks, Raise, driver, host
<1>24. CASE HostWrites
  BY <1>24 DEF Commands, Starting, Reading, Writing, Moving, HostWrites, driver, host
<1>25. CASE HostDone
  BY <1>25 DEF Commands, Starting, Reading, Writing, Moving, HostDone, Raise, NoTransfer, driver, host
<1>26. CASE HostAborts
  BY <1>26 DEF Commands, Starting, Reading, Writing, Moving, HostAborts, Raise, NoTransfer, driver, host
<1>27. ASSUME NEW a \in Address, NEW n \in ReadSizes, ReadBlock(a, n) PROVE Commands'
  BY <1>27, EmmcAssumption, OrAssumption
     DEF Commands, Starting, Reading, Writing, Moving, ReadBlock, Begin, CountFor, Request, Command,
     DataCommand
<1>28. ASSUME NEW a \in Address, NEW n \in WriteSizes, WriteBlock(a, n) PROVE Commands'
  BY <1>28, EmmcAssumption, OrAssumption
     DEF Commands, Starting, Reading, Writing, Moving, WriteBlock, Begin, CountFor, Request,
     Command, DataCommand
<1>29. CASE UNCHANGED vars
  BY <1>29 DEF Commands, Starting, Reading, Writing, Moving, vars, driver, host
<1> QED
  BY <1>1, <1>2, <1>3, <1>4, <1>5, <1>6, <1>7, <1>8, <1>9, <1>10, <1>11, <1>12, <1>13, <1>14, <1>15,
     <1>16, <1>17, <1>18, <1>19, <1>20, <1>21, <1>22, <1>23, <1>24, <1>25, <1>26, <1>27, <1>28,
     <1>29
     DEF Next, DriverStep, NewCall, HostStep

----------------------------------------------------------------------------
(* The places of blocks. *)

\* A block is for the place it comes to, in the buffer of the host and on the card.
LEMMA PlacesStep == TypeOK /\ Shape /\ Commands /\ Places /\ [Next]_vars => Places'
<1> SUFFICES ASSUME TypeOK, Shape, Commands, Places, [Next]_vars PROVE Places'
  OBVIOUS
<1> request.kind \in {"init", "read", "write"} /\ xfer.addr \in Nat /\ i \in Nat /\ fifo \in Seq(Block)
  BY DEF TypeOK, Request
<1> NoCommand \notin Command /\ pending \in Command \cup {NoCommand}
  BY DEF NoCommand, Command, InitCommand, DataCommand, TypeOK
<1>1. CASE Clear
  BY <1>1 DEF Places, Accepted, Starting, Reading, Writing, Moving, Clear, GoTo, AllCleared, driver, host
<1>2. CASE Send
  BY <1>2 DEF Places, Accepted, Starting, Reading, Writing, Moving, Send, GoTo, Raise, Commands, driver
<1>3. CASE CommandFails
  BY <1>3 DEF Places, Accepted, Starting, Reading, Writing, Moving, CommandFails, Return, driver, host
<1>4. CASE DataPhase
  BY <1>4 DEF Places, Accepted, Starting, Reading, Writing, Moving, DataPhase, GoTo, driver, host
<1>5. CASE ResetFails
  BY <1>5 DEF Places, Accepted, Starting, Reading, Writing, Moving, ResetFails, Return, driver, host
<1>6. CASE Reset
  BY <1>6 DEF Places, Accepted, Starting, Reading, Writing, Moving, Reset, GoTo, driver, host
<1>7. CASE InitGoesOn
  BY <1>7
     DEF Places, Accepted, Starting, Reading, Writing, Moving, InitGoesOn, NextCommand, PollsLeft,
     driver, host
<1>8. CASE InitFails
  BY <1>8
     DEF Places, Accepted, Starting, Reading, Writing, Moving, InitFails, Return, PollsLeft, driver,
     host
<1>9. CASE InitDone
  BY <1>9 DEF Places, Accepted, Starting, Reading, Writing, Moving, InitDone, Return, driver, host
<1>10. CASE SeeReady
  BY <1>10 DEF Places, Accepted, Starting, Reading, Writing, Moving, SeeReady, GoTo, BlockSeen, driver, host
<1>11. CASE ClearReady
  BY <1>11
     DEF Places, Accepted, Starting, Reading, Writing, Moving, ClearReady, GoTo, AllCleared, driver,
     host
<1>12. CASE SeeNotReady
  BY <1>12 DEF Places, Accepted, Starting, Reading, Writing, Moving, SeeNotReady, GoTo, driver, host
<1>13. CASE TakeBlock
  <2>1. request'.kind = "read" /\ xfer' = xfer /\ store' = store
        /\ fifo' = (IF fifo = <<>> \/ xfer.dir # "read" THEN fifo ELSE Tail(fifo))
    BY <1>13, KindShape DEF TakeBlock, Reading
  <2> QED
    BY <2>1 DEF Places
<1>14. CASE SeeWriteReady
  BY <1>14 DEF Places, Accepted, Starting, Reading, Writing, Moving, SeeWriteReady, GoTo, driver, host
<1>15. CASE ClearWriteReady
  BY <1>15
     DEF Places, Accepted, Starting, Reading, Writing, Moving, ClearWriteReady, GoTo, AllCleared,
     driver, host
<1>16. CASE PutBlock
  <2>1. at = "put" /\ i' = i + 1 /\ UNCHANGED <<request, xfer, store>>
        /\ fifo' = (IF xfer.dir = "write" THEN Append(fifo, Data(request, i)) ELSE fifo)
    BY <1>16 DEF PutBlock
  <2>2. CASE xfer.dir = "write"
    <3>1. xfer.addr + Len(fifo) = request.addr + i
      BY <2>1, <2>2, PutShape DEF Places, Accepted, Moving, Writing
    <3>2. Data(request, i).to = xfer.addr + Len(fifo) /\ Data(request, i) \in Block
      BY <2>1, <3>1, PutShape DEF Data
    <3>3. Len(fifo') = Len(fifo) + 1 /\ fifo'[Len(fifo) + 1] = Data(request, i)
          /\ \A k \in 1 .. Len(fifo) : fifo'[k] = fifo[k]
      BY <2>1, <2>2, <3>2, AppendProperties
    <3>4. request.addr \in Nat
      BY DEF TypeOK, Request, Address
    <3>5. \A k \in 1 .. Len(fifo') : fifo'[k].to = xfer.addr + k - 1
      <4> SUFFICES ASSUME NEW k \in 1 .. Len(fifo') PROVE fifo'[k].to = xfer.addr + k - 1
        OBVIOUS
      <4>1. CASE k = Len(fifo) + 1
        BY <4>1, <3>2, <3>3
      <4>2. CASE k \in 1 .. Len(fifo)
        BY <4>2, <3>3, <2>2 DEF Places
      <4> QED
        BY <4>1, <4>2, <3>3
    <3>6. Len(fifo) \in Nat
      BY LenProperties
    <3>7. xfer.addr + Len(fifo') = request.addr + i'
      <4>1. i' = i + 1 /\ Len(fifo') = Len(fifo) + 1
        BY <2>1, <3>3
      <4> QED
        BY <4>1, <3>1, <3>4, <3>6
    <3> QED
      BY <2>1, <2>2, <3>5, <3>7 DEF Places
  <2>3. CASE xfer.dir # "write"
    BY <2>1, <2>3 DEF Places
  <2> QED
    BY <2>2, <2>3
<1>17. CASE TransferDone
  BY <1>17
     DEF Places, Accepted, Starting, Reading, Writing, Moving, TransferDone, Return, EndSeen,
     driver, host
<1>18. CASE GiveUp
  BY <1>18 DEF Places, Accepted, Starting, Reading, Writing, Moving, GiveUp, Return, HostWaits, driver, host
<1>19. CASE Answer
  <2>1. pending # NoCommand /\ INTERRUPT' = INTERRUPT \cup {"command_done"} /\ UNCHANGED <<at, request, i, fifo, store>>
        /\ xfer' = IF pending \in DataCommand
                   THEN [dir |-> Direction(pending), addr |-> ARGUMENT1, auto |-> AutoCommand(pending), asked |-> FALSE]
                   ELSE xfer
    BY <1>19 DEF Answer, Raise, driver
  <2>2. CASE pending \in DataCommand
    <3>1. fifo = <<>> /\ xfer'.addr = ARGUMENT1
      BY <2>1, <2>2 DEF Commands, Places
    <3>2. at = "sent" /\ request.kind = "write" => ARGUMENT1 = request.addr /\ i = 0
      BY <2>1 DEF Commands, Shape, Starting
    <3>3. at \notin Moving
      BY <2>1 DEF Commands
    <3> QED
      BY <2>1, <3>1, <3>2, <3>3 DEF Places, Accepted
  <2>3. CASE pending \notin DataCommand
    <3>1. at = "sent" => pending = cmd
      BY <2>1 DEF Commands
    <3>2. request.kind = "write" => cmd \in DataCommand
      BY KindShape DEF DataCommand
    <3>3. at \notin Moving
      BY <2>1 DEF Commands
    <3> QED
      BY <2>1, <2>3, <3>1, <3>2, <3>3 DEF Places, Accepted
  <2> QED
    BY <2>2, <2>3
<1>20. CASE Refuse
  BY <1>20 DEF Places, Accepted, Starting, Reading, Writing, Moving, Refuse, Raise, driver, host
<1>21. CASE LoseCommand
  BY <1>21
     DEF Places, Accepted, Starting, Reading, Writing, Moving, LoseCommand, Raise, Acted, After,
     driver, host
<1>22. CASE HostReads
  BY <1>22 DEF Places, Accepted, Starting, Reading, Writing, Moving, HostReads, Raise, driver, host
<1>23. CASE HostAsks
  BY <1>23 DEF Places, Accepted, Starting, Reading, Writing, Moving, HostAsks, Raise, driver, host
<1>24. CASE HostWrites
  <2>1. xfer.dir = "write" /\ fifo # <<>> /\ xfer.addr \in Address /\ UNCHANGED <<at, request, i, INTERRUPT>>
        /\ store' = [store EXCEPT ![xfer.addr] = Head(fifo)] /\ fifo' = Tail(fifo)
        /\ xfer' = [xfer EXCEPT !.addr = @ + 1, !.asked = FALSE]
    BY <1>24 DEF HostWrites, driver
  <2>2. fifo \in Seq(Block) /\ store \in [Address -> Block]
    BY DEF TypeOK
  <2>3. Head(fifo) = fifo[1] /\ Len(fifo) \in Nat \ {0} /\ Len(fifo') = Len(fifo) - 1
        /\ \A k \in 1 .. Len(fifo) - 1 : fifo'[k] = fifo[k + 1]
    BY <2>1, <2>2, HeadTailProperties, LenProperties
  <2>4. xfer'.addr = xfer.addr + 1 /\ xfer'.dir = "write"
    <3>1. xfer.addr + 1 \in Nat
      OBVIOUS
    <3> QED
      BY <2>1, <3>1 DEF TypeOK
  <2>5. \A a \in Address : store'[a].to = a
    <3>1. fifo[1].to = xfer.addr
      BY <2>1, <2>3 DEF Places
    <3> QED
      BY <2>1, <2>2, <2>3, <3>1 DEF Places
  <2>6. \A k \in 1 .. Len(fifo') : fifo'[k].to = xfer'.addr + k - 1
    <3> SUFFICES ASSUME NEW k \in 1 .. Len(fifo') PROVE fifo'[k].to = xfer'.addr + k - 1
      OBVIOUS
    <3>1. k + 1 \in 1 .. Len(fifo) /\ fifo'[k] = fifo[k + 1]
      BY <2>3
    <3> QED
      BY <3>1, <2>1, <2>4 DEF Places
  <2>7. request.addr \in Nat
    BY DEF TypeOK, Request, Address
  <2>8. request.kind = "write" /\ Accepted => xfer'.addr + Len(fifo') = request.addr + i
    BY <2>1, <2>3, <2>4, <2>7 DEF Places
  <2> QED
    BY <2>1, <2>4, <2>5, <2>6, <2>8 DEF Places, Accepted
<1>25. CASE HostDone
  BY <1>25
     DEF Places, Accepted, Starting, Reading, Writing, Moving, HostDone, Raise, NoTransfer, driver,
     host
<1>26. CASE HostAborts
  BY <1>26
     DEF Places, Accepted, Starting, Reading, Writing, Moving, HostAborts, Raise, NoTransfer,
     driver, host
<1>27. ASSUME NEW a \in Address, NEW n \in ReadSizes, ReadBlock(a, n) PROVE Places'
  BY <1>27, EmmcAssumption, OrAssumption
     DEF Places, Accepted, Starting, Reading, Writing, Moving, ReadBlock, Begin, CountFor, Request,
     Command, DataCommand
<1>28. ASSUME NEW a \in Address, NEW n \in WriteSizes, WriteBlock(a, n) PROVE Places'
  BY <1>28, EmmcAssumption, OrAssumption
     DEF Places, Accepted, Starting, Reading, Writing, Moving, WriteBlock, Begin, CountFor, Request,
     Command, DataCommand
<1>29. CASE UNCHANGED vars
  BY <1>29 DEF Places, Accepted, Starting, Reading, Writing, Moving, vars, driver, host
<1> QED
  BY <1>1, <1>2, <1>3, <1>4, <1>5, <1>6, <1>7, <1>8, <1>9, <1>10, <1>11, <1>12, <1>13, <1>14, <1>15,
     <1>16, <1>17, <1>18, <1>19, <1>20, <1>21, <1>22, <1>23, <1>24, <1>25, <1>26, <1>27, <1>28,
     <1>29
     DEF Next, DriverStep, NewCall, HostStep

----------------------------------------------------------------------------
(* Exact transfers. *)

\* Until a call fails, the card answers no command but that of the call.
LEMMA Unanswered ==
    ASSUME TypeOK, Shape, Commands, Exact, ~ failed, request.kind # "init", pending # NoCommand
    PROVE  /\ at = "sent" /\ ~ Accepted /\ pending = cmd /\ ARGUMENT1 = request.addr
           /\ xfer = NoTransfer /\ count = request.n /\ INTERRUPT \subseteq {"error"}
<1>1. at \in Moving \cup Starting \cup {"idle"}
  BY KindShape DEF TypeOK, Moving, Reading, Writing, Starting
<1>2. at = "sent"
  BY <1>1 DEF Commands, Exact, Starting
<1>3. ~ Accepted
  BY <1>2 DEF Accepted, Commands, Moving, Reading, Writing
<1> QED
  BY <1>2, <1>3 DEF Commands, Exact

\* Until a call fails, the host is in a transfer only for the call.
LEMMA InTransfer ==
    ASSUME TypeOK, Shape, Exact, ~ failed, request.kind # "init", xfer.dir # "none"
    PROVE  /\ Accepted /\ "data_done" \notin INTERRUPT
           /\ xfer.dir = "read" => ReadSoFar /\ Taken
           /\ xfer.dir = "write" => WrittenSoFar
<1>1. at \in Moving \cup Starting \cup {"idle"}
  BY KindShape DEF TypeOK, Moving, Reading, Writing, Starting
<1>2. xfer # NoTransfer
  BY DEF NoTransfer
<1>3. Accepted
  BY <1>1, <1>2 DEF Exact, Accepted, Starting
<1>4. at \in {"sent"} \cup Moving
  BY <1>3 DEF Accepted
<1> QED
  BY <1>2, <1>3, <1>4 DEF Exact, Finished

\* Until a call fails, the block count, the host's place and the driver's loop
\* agree, and what has been moved is right.
LEMMA ExactStep == TypeOK /\ Shape /\ Commands /\ Places /\ Exact /\ [Next]_vars => Exact'
<1> SUFFICES ASSUME TypeOK, Shape, Commands, Places, Exact, [Next]_vars PROVE Exact'
  OBVIOUS
<1> /\ request.kind \in {"init", "read", "write"} /\ request.addr \in Nat /\ request.n \in Nat
    /\ xfer.addr \in Nat /\ i \in Nat /\ count \in Nat /\ fifo \in Seq(Block)
  BY DEF TypeOK, Request, Address, Count
<1> NoCommand \notin Command /\ pending \in Command \cup {NoCommand}
  BY DEF NoCommand, Command, InitCommand, DataCommand, TypeOK
<1>1. CASE Clear
  BY <1>1
     DEF Exact, Accepted, ReadSoFar, WrittenSoFar, Taken, Finished, Starting, Reading, Writing,
     Moving, Clear, GoTo, AllCleared, driver, host
<1>2. CASE Send
  BY <1>2
     DEF Exact, Accepted, ReadSoFar, WrittenSoFar, Taken, Finished, Starting, Reading, Writing,
     Moving, Send, GoTo, Busy, Raise, driver, host
<1>3. CASE CommandFails
  BY <1>3
     DEF Exact, Accepted, ReadSoFar, WrittenSoFar, Taken, Finished, Starting, Reading, Writing,
     Moving, CommandFails, Return, driver, host
<1>4. CASE DataPhase
  BY <1>4
     DEF Exact, Accepted, ReadSoFar, WrittenSoFar, Taken, Finished, Starting, Reading, Writing,
     Moving, DataPhase, GoTo, driver, host
<1>5. CASE ResetFails
  BY <1>5
     DEF Exact, Accepted, ReadSoFar, WrittenSoFar, Taken, Finished, Starting, Reading, Writing,
     Moving, ResetFails, Return, driver, host
<1>6. CASE Reset
  BY <1>6, KindShape DEF Reset, GoTo, Exact
<1>7. CASE InitGoesOn
  BY <1>7, KindShape DEF InitGoesOn, Exact
<1>8. CASE InitFails
  BY <1>8
     DEF Exact, Accepted, ReadSoFar, WrittenSoFar, Taken, Finished, Starting, Reading, Writing,
     Moving, InitFails, Return, PollsLeft, driver, host
<1>9. CASE InitDone
  BY <1>9, KindShape DEF InitDone, Return, Exact
<1>10. CASE SeeReady
  BY <1>10
     DEF Exact, Accepted, ReadSoFar, WrittenSoFar, Taken, Finished, Starting, Reading, Writing,
     Moving, SeeReady, GoTo, BlockSeen, driver, host
<1>11. CASE ClearReady
  BY <1>11
     DEF Exact, Accepted, ReadSoFar, WrittenSoFar, Taken, Finished, Starting, Reading, Writing,
     Moving, ClearReady, GoTo, AllCleared, driver, host
<1>12. CASE SeeNotReady
  BY <1>12
     DEF Exact, Accepted, ReadSoFar, WrittenSoFar, Taken, Finished, Starting, Reading, Writing,
     Moving, SeeNotReady, GoTo, driver, host
<1>13. CASE TakeBlock
  <2>1. /\ at = "take" /\ INTERRUPT' = {} /\ i' = i + 1 /\ at' \in {"read_ready", "done"}
        /\ buf' = Append(buf, IF fifo = <<>> \/ xfer.dir # "read" THEN Garbage ELSE Head(fifo))
        /\ fifo' = (IF fifo = <<>> \/ xfer.dir # "read" THEN fifo ELSE Tail(fifo))
        /\ UNCHANGED <<request, failed, count, xfer, store>>
    BY <1>13 DEF TakeBlock, AllCleared
  <2> SUFFICES ASSUME ~ failed, request.kind # "init" PROVE Exact'
    BY <2>1 DEF Exact
  <2>2. CASE xfer.dir = "read"
    <3>1. ReadSoFar /\ Taken /\ fifo # <<>>
      BY <2>1, <2>2, InTransfer DEF ReadSoFar
    <3>2. Len(fifo) = 1 /\ Head(fifo) = fifo[1] /\ Tail(fifo) = <<>>
      <4>1. Len(fifo) \in Nat \ {0} /\ Len(fifo) <= 1
        BY <3>1, LenProperties DEF ReadSoFar
      <4>2. Len(fifo) = 1
        <5>1. \A n \in Nat \ {0} : n <= 1 => n = 1
          OBVIOUS
        <5> QED
          BY <4>1, <5>1
      <4>3. Len(Tail(fifo)) = 0 /\ Tail(fifo) \in Seq(Block)
        BY <3>1, <4>2, HeadTailProperties
      <4>4. Tail(fifo) = <<>>
        BY <4>3, EmptySeq
      <4> QED
        BY <4>2, <4>3, <4>4
    <3>3. buf' = Append(buf, fifo[1]) /\ fifo' = <<>>
      BY <2>1, <2>2, <3>1, <3>2
    <3>4. buf \in Seq(Block \cup {Garbage}) /\ fifo[1] \in Block
      BY <3>1, <3>2, FifoType DEF TypeOK
    <3>5. Len(buf') = Len(buf) + 1 /\ buf'[Len(buf) + 1] = fifo[1] /\ \A k \in 1 .. Len(buf) : buf'[k] = buf[k]
      BY <3>3, <3>4, AppendProperties
    <3>6. ReadSoFar'
      <4>1. i' = i + 1 /\ INTERRUPT' = {} /\ at' \notin {"clear", "drain", "take"}
            /\ UNCHANGED <<request, count, xfer, store>>
        BY <2>1
      <4>2. Len(fifo') = 0
        BY <3>3
      <4> QED
        BY <4>1, <4>2, <3>1, <3>2, <3>3 DEF ReadSoFar
    <3>7. \A k \in 1 .. i + 1 : buf'[k] = store[request.addr + k - 1]
      <4> SUFFICES ASSUME NEW k \in 1 .. i + 1 PROVE buf'[k] = store[request.addr + k - 1]
        OBVIOUS
      <4>1. CASE k = i + 1
        <5>1. request.addr + k - 1 = request.addr + i
          BY <4>1
        <5> QED
          BY <4>1, <5>1, <3>1, <3>5 DEF ReadSoFar, Taken
      <4>2. CASE k \in 1 .. i
        BY <4>2, <3>1, <3>5 DEF Taken
      <4> QED
        BY <4>1, <4>2
    <3>8. Len(buf') = i'
      <4>1. i' = i + 1
        BY <2>1
      <4> QED
        BY <4>1, <3>1, <3>5 DEF Taken
    <3>9. Taken'
      BY <2>1, <3>7, <3>8 DEF Taken
    <3> QED
      BY <2>1, <2>2, <3>6, <3>9 DEF Exact, Accepted, Moving, Reading
  <2>3. CASE xfer.dir # "read"
    <3>1. xfer.dir # "write"
      BY <2>1, InTransfer, KindShape DEF WrittenSoFar, Reading
    <3> QED
      BY <2>1, <2>3, <3>1 DEF Exact, Accepted, Moving, Reading
  <2> QED
    BY <2>2, <2>3
<1>14. CASE SeeWriteReady
  BY <1>14
     DEF Exact, Accepted, ReadSoFar, WrittenSoFar, Taken, Finished, Starting, Reading, Writing,
     Moving, SeeWriteReady, GoTo, driver, host
<1>15. CASE ClearWriteReady
  BY <1>15
     DEF Exact, Accepted, ReadSoFar, WrittenSoFar, Taken, Finished, Starting, Reading, Writing,
     Moving, ClearWriteReady, GoTo, AllCleared, driver, host
<1>16. CASE PutBlock
  <2>1. /\ at = "put" /\ i' = i + 1 /\ at' \in {"put", "done"}
        /\ fifo' = (IF xfer.dir = "write" THEN Append(fifo, Data(request, i)) ELSE fifo)
        /\ UNCHANGED <<request, failed, count, xfer, store, INTERRUPT>>
    BY <1>16 DEF PutBlock
  <2> SUFFICES ASSUME ~ failed, request.kind # "init" PROVE Exact'
    BY <2>1 DEF Exact
  <2>2. "data_done" \notin INTERRUPT
    BY <2>1 DEF Exact, Finished, Moving, Writing
  <2>3. CASE xfer.dir = "write"
    <3>1. WrittenSoFar
      BY <2>3, InTransfer
    <3>2. xfer.addr + Len(fifo) = request.addr + i
      BY <2>1, <2>3, PutShape DEF Places, Accepted, Moving, Writing
    <3>3. Len(fifo) \in Nat /\ Data(request, i) \in Block
      BY <2>1, LenProperties, PutShape
    <3>4. Len(fifo') = Len(fifo) + 1 /\ fifo'[Len(fifo) + 1] = Data(request, i)
          /\ \A k \in 1 .. Len(fifo) : fifo'[k] = fifo[k]
      BY <2>1, <2>3, <3>3, AppendProperties
    <3>5. \A k \in 1 .. Len(fifo) + 1 : fifo'[k] = Data(request, xfer.addr - request.addr + k - 1)
      <4> SUFFICES ASSUME NEW k \in 1 .. Len(fifo) + 1
                   PROVE fifo'[k] = Data(request, xfer.addr - request.addr + k - 1)
        OBVIOUS
      <4>1. CASE k = Len(fifo) + 1
        <5>1. xfer.addr - request.addr + k - 1 = i
          BY <4>1, <3>2, <3>3
        <5> QED
          BY <4>1, <5>1, <3>4
      <4>2. CASE k \in 1 .. Len(fifo)
        BY <4>2, <3>1, <3>4 DEF WrittenSoFar
      <4> QED
        BY <4>1, <4>2, <3>3
    <3>6. WrittenSoFar'
      BY <2>1, <3>1, <3>4, <3>5 DEF WrittenSoFar, Data
    <3> QED
      BY <2>1, <2>2, <2>3, <3>6 DEF Exact, Accepted, Moving, Writing
  <2>4. CASE xfer.dir # "write"
    <3>1. xfer.dir # "read"
      BY <2>1, InTransfer, KindShape DEF ReadSoFar, Writing
    <3> QED
      BY <2>1, <2>2, <2>4, <3>1 DEF Exact, Accepted, Moving, Writing
  <2> QED
    BY <2>3, <2>4
<1>17. CASE TransferDone
  <2>1. at = "done" /\ "data_done" \in INTERRUPT /\ at' = "idle" /\ UNCHANGED <<request, failed, xfer, count, pending>>
    BY <1>17 DEF TransferDone, EndSeen, Return, host, TypeOK
  <2>2. pending = NoCommand
    BY <2>1 DEF Commands, Moving
  <2>3. ~ failed /\ request.kind # "init" => xfer = NoTransfer /\ count = 0
    BY <2>1 DEF Exact, Finished, Moving
  <2> QED
    BY <2>1, <2>2, <2>3 DEF Exact, Accepted, Moving, Reading, Writing
<1>18. CASE GiveUp
  BY <1>18
     DEF Exact, Accepted, ReadSoFar, WrittenSoFar, Taken, Finished, Starting, Reading, Writing,
     Moving, GiveUp, Return, HostWaits, driver, host
<1>19. CASE Answer
  <2>1. /\ pending # NoCommand /\ INTERRUPT' = INTERRUPT \cup {"command_done"}
        /\ UNCHANGED <<at, request, i, buf, failed, count, fifo, store>>
        /\ xfer' = IF pending \in DataCommand
                   THEN [dir |-> Direction(pending), addr |-> ARGUMENT1, auto |-> AutoCommand(pending), asked |-> FALSE]
                   ELSE xfer
    BY <1>19 DEF Answer, Raise, driver
  <2> SUFFICES ASSUME ~ failed, request.kind # "init" PROVE Exact'
    BY <2>1 DEF Exact
  <2>2. at = "sent" /\ count = request.n /\ xfer = NoTransfer /\ INTERRUPT \subseteq {"error"}
        /\ pending = cmd /\ ARGUMENT1 = request.addr
    BY <2>1, Unanswered
  <2>3. i = 0 /\ buf = <<>> /\ fifo = <<>>
    BY <2>2 DEF Shape, Starting, Places, NoTransfer
  <2>4. xfer'.addr = request.addr /\ xfer'.dir = request.kind
    BY <2>1, <2>2, KindShape DEF DataCommand, Direction
  <2>5. xfer'.dir = "read" => ReadSoFar' /\ Taken'
    BY <2>1, <2>2, <2>3, <2>4 DEF ReadSoFar, Taken
  <2>6. xfer'.dir = "write" => WrittenSoFar'
    BY <2>1, <2>2, <2>3, <2>4 DEF WrittenSoFar
  <2> QED
    BY <2>1, <2>2, <2>5, <2>6 DEF Exact, Accepted, Moving, Reading, Writing
<1>20. CASE Refuse
  <2>1. pending # NoCommand /\ INTERRUPT' = INTERRUPT \cup {"error"}
        /\ UNCHANGED <<at, request, i, buf, failed, xfer, count, fifo, store>>
    BY <1>20 DEF Refuse, Raise, driver
  <2> QED
    BY <2>1, Unanswered DEF Exact, Accepted, Moving, Reading, Writing
<1>21. CASE LoseCommand
  <2>1. pending # NoCommand /\ INTERRUPT' = INTERRUPT \cup {"error"}
        /\ UNCHANGED <<at, request, i, buf, failed, xfer, count, fifo, store>>
    BY <1>21 DEF LoseCommand, Raise, driver
  <2> QED
    BY <2>1, Unanswered DEF Exact, Accepted, Moving, Reading, Writing
<1>22. CASE HostReads
  <2>1. /\ xfer.dir = "read" /\ count > 0 /\ fifo = <<>> /\ xfer.addr \in Address
        /\ INTERRUPT' = INTERRUPT \cup {"read_ready"} /\ fifo' = <<store[xfer.addr]>> /\ count' = count - 1
        /\ xfer' = [xfer EXCEPT !.addr = @ + 1]
        /\ UNCHANGED <<at, request, i, buf, failed, store>>
    BY <1>22 DEF HostReads, Raise, driver
  <2> SUFFICES ASSUME ~ failed, request.kind # "init" PROVE Exact'
    BY <2>1 DEF Exact
  <2>2. Accepted /\ ReadSoFar /\ Taken /\ "data_done" \notin INTERRUPT
    BY <2>1, InTransfer
  <2>3. xfer'.dir = "read" /\ xfer'.addr = xfer.addr + 1
    BY <2>1 DEF TypeOK
  <2>4. Accepted' /\ at \notin {"idle", "issue", "send"}
    BY <2>1, <2>2 DEF Accepted, Moving, Reading, Writing
  <2>5. ReadSoFar'
    BY <2>1, <2>2, <2>3 DEF ReadSoFar
  <2>6. Taken'
    BY <2>1, <2>2 DEF Taken
  <2> QED
    BY <2>1, <2>2, <2>3, <2>4, <2>5, <2>6 DEF Exact
<1>23. CASE HostAsks
  <2>1. /\ xfer.dir = "write" /\ INTERRUPT' = INTERRUPT \cup {"write_ready"}
        /\ xfer' = [xfer EXCEPT !.asked = TRUE]
        /\ UNCHANGED <<at, request, i, buf, failed, store, fifo, count>>
    BY <1>23 DEF HostAsks, Raise, driver
  <2> SUFFICES ASSUME ~ failed, request.kind # "init" PROVE Exact'
    BY <2>1 DEF Exact
  <2>2. Accepted /\ WrittenSoFar /\ "data_done" \notin INTERRUPT
    BY <2>1, InTransfer
  <2>3. xfer'.dir = "write" /\ xfer'.addr = xfer.addr
    BY <2>1 DEF TypeOK
  <2>4. Accepted' /\ at \notin {"idle", "issue", "send"}
    BY <2>1, <2>2 DEF Accepted, Moving, Reading, Writing
  <2>5. WrittenSoFar'
    BY <2>1, <2>2, <2>3 DEF WrittenSoFar, Data
  <2> QED
    BY <2>1, <2>2, <2>3, <2>4, <2>5 DEF Exact
<1>24. CASE HostWrites
  <2>1. /\ xfer.dir = "write" /\ count > 0 /\ fifo # <<>> /\ xfer.addr \in Address
        /\ store' = [store EXCEPT ![xfer.addr] = Head(fifo)] /\ fifo' = Tail(fifo) /\ count' = count - 1
        /\ xfer' = [xfer EXCEPT !.addr = @ + 1, !.asked = FALSE]
        /\ UNCHANGED <<at, request, i, buf, failed, INTERRUPT>>
    BY <1>24 DEF HostWrites, driver
  <2> SUFFICES ASSUME ~ failed, request.kind # "init" PROVE Exact'
    BY <2>1 DEF Exact
  <2>2. Accepted /\ WrittenSoFar /\ "data_done" \notin INTERRUPT
    BY <2>1, InTransfer
  <2>3. xfer'.dir = "write" /\ xfer'.addr = xfer.addr + 1
    <3>1. xfer.addr + 1 \in Nat
      OBVIOUS
    <3> QED
      BY <2>1, <3>1 DEF TypeOK
  <2>4. Accepted' /\ at \notin {"idle", "issue", "send"}
    BY <2>1, <2>2 DEF Accepted, Moving, Reading, Writing
  <2>5. Head(fifo) = fifo[1] /\ Len(fifo) \in Nat \ {0} /\ Len(fifo') = Len(fifo) - 1
        /\ \A k \in 1 .. Len(fifo) - 1 : fifo'[k] = fifo[k + 1]
    BY <2>1, HeadTailProperties, LenProperties
  <2>6. fifo[1] = Data(request, xfer.addr - request.addr)
    BY <2>2, <2>5 DEF WrittenSoFar
  <2>7. \A k \in 0 .. xfer'.addr - request.addr - 1 : store'[request.addr + k] = Data(request, k)
    <3> SUFFICES ASSUME NEW k \in 0 .. xfer.addr - request.addr
                 PROVE store'[request.addr + k] = Data(request, k)
      BY <2>3
    <3>1. store \in [Address -> Block]
      BY DEF TypeOK
    <3>2. CASE k = xfer.addr - request.addr
      <4>1. request.addr + k = xfer.addr
        BY <3>2
      <4> QED
        BY <2>1, <2>5, <2>6, <3>1, <3>2, <4>1
    <3>3. CASE k \in 0 .. xfer.addr - request.addr - 1
      <4>1. request.addr + k # xfer.addr
        BY <3>3
      <4>2. request.addr + k \in Address
        <5>1. xfer.addr \in 0 .. LAST
          BY <2>1 DEF Address
        <5> QED
          BY <3>3, <5>1, EmmcAssumption DEF Address
      <4>3. store'[request.addr + k] = store[request.addr + k]
        BY <2>1, <3>1, <4>1, <4>2
      <4> QED
        BY <4>3, <3>3, <2>2 DEF WrittenSoFar
    <3> QED
      BY <3>2, <3>3
  <2>8. \A k \in 1 .. Len(fifo') : fifo'[k] = Data(request, xfer'.addr - request.addr + k - 1)
    <3> SUFFICES ASSUME NEW k \in 1 .. Len(fifo')
                 PROVE fifo'[k] = Data(request, xfer'.addr - request.addr + k - 1)
      OBVIOUS
    <3>1. k + 1 \in 1 .. Len(fifo) /\ fifo'[k] = fifo[k + 1]
      BY <2>5
    <3>2. fifo[k + 1] = Data(request, xfer.addr - request.addr + (k + 1) - 1)
      BY <2>2, <3>1 DEF WrittenSoFar
    <3>3. xfer.addr - request.addr + (k + 1) - 1 = (xfer.addr + 1) - request.addr + k - 1
      OBVIOUS
    <3> QED
      BY <2>3, <3>1, <3>2, <3>3
  <2>9. request'.kind = "write" /\ xfer'.addr >= request.addr /\ count' + (xfer'.addr - request.addr) = request.n
    <3>1. count' = count - 1 /\ request'.kind = request.kind
      BY <2>1
    <3>2. request.kind = "write" /\ xfer.addr >= request.addr /\ count + (xfer.addr - request.addr) = request.n
      BY <2>2 DEF WrittenSoFar
    <3> DEFINE a == xfer.addr
               b == request.addr
               n == request.n
    <3>3. a \in Nat /\ b \in Nat /\ n \in Nat /\ count \in Nat /\ a >= b /\ count + (a - b) = n
      BY <3>2
    <3>4. xfer'.addr = a + 1
      BY <2>3
    <3> HIDE DEF a, b, n
    <3>5. a + 1 >= b /\ count - 1 + ((a + 1) - b) = n
      BY <3>3
    <3> QED
      BY <3>1, <3>2, <3>4, <3>5 DEF b, n
  <2>10. WrittenSoFar'
    BY <2>1, <2>7, <2>8, <2>9 DEF WrittenSoFar, Data
  <2> QED
    BY <2>1, <2>2, <2>3, <2>4, <2>10 DEF Exact
<1>25. CASE HostDone
  <2>1. /\ xfer.dir # "none" /\ count = 0 /\ fifo = <<>> /\ xfer' = NoTransfer /\ count' = 0
        /\ UNCHANGED <<at, request, i, buf, failed, store, fifo, pending>>
    BY <1>25 DEF HostDone, driver
  <2> SUFFICES ASSUME ~ failed, request.kind # "init" PROVE Exact'
    BY <2>1 DEF Exact
  <2>2. Accepted /\ at \in {"sent"} \cup Moving /\ at \notin {"idle", "issue", "send"}
    BY <2>1, InTransfer DEF Accepted, Moving, Reading, Writing
  <2>3. CASE xfer.dir = "read"
    <3>1. ReadSoFar /\ Taken
      BY <2>3, InTransfer
    <3>2. i = request.n
      BY <2>1, <3>1 DEF ReadSoFar
    <3>3. at = "done" /\ request.kind = "read"
      BY <2>2, <3>1, <3>2 DEF ReadSoFar, Shape, Starting, Moving
    <3>4. Finished' /\ xfer'.dir = "none"
      BY <2>1, <3>1, <3>3 DEF Finished, Taken, NoTransfer
    <3> QED
      BY <2>1, <2>2, <3>3, <3>4 DEF Exact, Accepted, Moving
  <2>4. CASE xfer.dir = "write"
    <3>1. WrittenSoFar
      BY <2>4, InTransfer
    <3>2. xfer.addr - request.addr = request.n /\ i = request.n
      BY <2>1, <2>2, <2>4, <3>1 DEF WrittenSoFar, Places
    <3>3. at = "done" /\ request.kind = "write"
      BY <2>2, <3>1, <3>2 DEF WrittenSoFar, Shape, Starting, Moving
    <3>4. Finished' /\ xfer'.dir = "none"
      BY <2>1, <3>1, <3>2, <3>3 DEF Finished, WrittenSoFar, Data, NoTransfer
    <3> QED
      BY <2>1, <2>2, <3>3, <3>4 DEF Exact, Accepted, Moving
  <2> QED
    BY <2>1, <2>3, <2>4 DEF TypeOK
<1>26. CASE HostAborts
  BY <1>26
     DEF Exact, Accepted, ReadSoFar, WrittenSoFar, Taken, Finished, Starting, Reading, Writing,
     Moving, HostAborts, Raise, NoTransfer, driver, host
<1>27. ASSUME NEW a \in Address, NEW n \in ReadSizes, ReadBlock(a, n) PROVE Exact'
  <2>1. /\ at = "idle" /\ at' = "issue" /\ UNCHANGED <<failed, xfer>>
        /\ request'.n = n
        /\ count' = IF xfer.dir = "none" THEN CountFor(count, n) ELSE count
    BY <1>27 DEF ReadBlock, Begin
  <2>2. n \in Count
    BY EmmcAssumption
  <2>3. ~ failed => xfer = NoTransfer /\ count = 0
    BY <2>1 DEF Exact, Shape, ShapeOf
  <2>4. ~ failed => count' = n /\ xfer' = NoTransfer
    BY <2>1, <2>2, <2>3, OrAssumption DEF CountFor, NoTransfer, Count
  <2> QED
    BY <2>1, <2>4 DEF Exact, Accepted, Moving, Reading, Writing
<1>28. ASSUME NEW a \in Address, NEW n \in WriteSizes, WriteBlock(a, n) PROVE Exact'
  <2>1. /\ at = "idle" /\ at' = "issue" /\ UNCHANGED <<failed, xfer>>
        /\ request'.n = n
        /\ count' = IF xfer.dir = "none" THEN CountFor(count, n) ELSE count
    BY <1>28 DEF WriteBlock, Begin
  <2>2. n \in Count
    BY EmmcAssumption
  <2>3. ~ failed => xfer = NoTransfer /\ count = 0
    BY <2>1 DEF Exact, Shape, ShapeOf
  <2>4. ~ failed => count' = n /\ xfer' = NoTransfer
    BY <2>1, <2>2, <2>3, OrAssumption DEF CountFor, NoTransfer, Count
  <2> QED
    BY <2>1, <2>4 DEF Exact, Accepted, Moving, Reading, Writing
<1>29. CASE UNCHANGED vars
  BY <1>29
     DEF Exact, Accepted, ReadSoFar, WrittenSoFar, Taken, Finished, Starting, Reading, Writing,
     Moving, vars, driver, host
<1> QED
  BY <1>1, <1>2, <1>3, <1>4, <1>5, <1>6, <1>7, <1>8, <1>9, <1>10, <1>11, <1>12, <1>13, <1>14, <1>15,
     <1>16, <1>17, <1>18, <1>19, <1>20, <1>21, <1>22, <1>23, <1>24, <1>25, <1>26, <1>27, <1>28,
     <1>29
     DEF Next, DriverStep, NewCall, HostStep

----------------------------------------------------------------------------
(* The invariant. *)

\* Power on.
LEMMA Initially == Init => IInv
<1> SUFFICES ASSUME Init PROVE IInv
  OBVIOUS
<1>1. TypeOK
  <2>1. PICK slow \in 0 .. MAX_SLOW : card = [state |-> "IDLE", app |-> FALSE, polls |-> 0, slow |-> slow]
    BY DEF Init
  <2>2. card \in [state : CardState, app : BOOLEAN, polls : Nat, slow : Nat]
    BY <2>1, EmmcAssumption DEF CardState
  <2>3. store \in [Address -> Block]
    BY DEF Init, Block
  <2>4. request \in Request
    BY EmmcAssumption DEF Init, Request, Address, Count
  <2>5. buf \in Seq(Block \cup {Garbage}) /\ fifo \in Seq(Block)
    BY EmptySeq DEF Init
  <2>6. count \in Count /\ ARGUMENT1 \in Address
    BY EmmcAssumption DEF Init, Count, Address
  <2>7. xfer \in [dir : {"none", "read", "write"}, addr : Nat, auto : BOOLEAN, asked : BOOLEAN]
    BY DEF Init, NoTransfer
  <2> QED
    BY <2>2, <2>3, <2>4, <2>5, <2>6, <2>7 DEF Init, TypeOK, Command, InitCommand
<1>2. Shape
  BY DEF Init, Shape, ShapeOf, InitCommand
<1>3. Commands
  BY DEF Init, Commands, Moving, Reading, Writing, DataCommand, NoCommand
<1>4. Places
  BY DEF Init, Places, NoTransfer, Accepted, Moving, Reading, Writing
<1>5. Exact
  BY DEF Init, Exact
<1> QED
  BY <1>1, <1>2, <1>3, <1>4, <1>5 DEF IInv

\* No step of the driver, the host or the card breaks it.
LEMMA Preserved == IInv /\ [Next]_vars => IInv'
  BY TypeStep, ShapeStep, CommandsStep, PlacesStep, ExactStep DEF IInv

\* IInv is an invariant: what emmc.c keeps true between any two of its accesses
\* to the registers.
LEMMA Invariant == Spec => []IInv
<1>1. Init => IInv
  BY Initially
<1>2. IInv /\ [Next]_vars => IInv'
  BY Preserved
<1> QED
  BY <1>1, <1>2, PTL DEF Spec

\* The state of the driver, its host and its card has its types in every
\* behaviour; no counter, place or buffer leaves its range (emmc_read_block,
\* emmc_write_block: the block that is put lies on the card).
THEOREM TypeCorrect == Spec => []TypeOK
<1>1. IInv => TypeOK
  BY DEF IInv
<1> QED
  BY <1>1, Invariant, PTL

----------------------------------------------------------------------------
(* The driver, its host and its card implement BlockDevice. *)

\* A step the file system does not see.
LEMMA Unseen ==
    ASSUME UNCHANGED <<store, Asked, Unwritten, writes, Shown, Told, Broken>>
    PROVE  UNCHANGED Device!vars
  BY DEF Device!vars

\* What the file system sees changes only with the driver.
LEMMA SameDriver ==
    ASSUME UNCHANGED driver
    PROVE  UNCHANGED <<Asked, Meant, writes, Shown, Told, Broken>>
  BY DEF driver, Asked, Meant, Shown, Told, Broken, Calling, Resting, Data

\* The driver goes on with a call.
LEMMA GoingOn ==
    ASSUME ~ Resting, ~ Resting', UNCHANGED <<request, reply, writes, failed>>
    PROVE  UNCHANGED <<Asked, Meant, writes, Shown, Told, Broken>>
  BY DEF Asked, Meant, Shown, Told, Broken, Calling, Resting, Data

\* emmc_init is nothing the file system sees.
LEMMA Initializing ==
    ASSUME request.kind = "init", UNCHANGED <<request, writes>>
    PROVE  UNCHANGED <<Asked, Meant, writes, Shown, Told, Broken>>
  BY DEF Asked, Meant, Shown, Told, Broken, Calling

\* What the host holds changes only with its transfer and its buffer.
LEMMA SameHeld ==
    ASSUME UNCHANGED <<xfer, fifo>>
    PROVE  UNCHANGED Held
  BY DEF Held

\* A call that is answered: nothing is meant for the card any more.
LEMMA Answered ==
    ASSUME TypeOK, Calling, at' = "idle", failed' \in BOOLEAN, UNCHANGED <<request, xfer, fifo>>
    PROVE  /\ Asked = request /\ Asked # Device!NoRequest /\ Asked' = Device!NoRequest
           /\ Told' = reply' /\ Unwritten' = Held /\ Held \subseteq Unwritten
           /\ Shown = <<>> /\ Broken = failed /\ Broken' = failed'
<1>1. request.kind \in {"read", "write"}
  BY DEF TypeOK, Request, Calling
<1>2. Asked = request /\ Asked # Device!NoRequest
  BY <1>1 DEF Asked, Device!NoRequest
<1>3. ~ Calling'
  BY DEF Calling, Resting
<1>4. Asked' = Device!NoRequest /\ Meant' = {}
  BY <1>3 DEF Asked, Meant, Device!NoRequest
<1>5. Unwritten' = Held /\ Held \subseteq Unwritten
  BY <1>4, SameHeld DEF Unwritten
<1>6. at # "idle" /\ request.kind # "init"
  BY DEF Calling, Resting
<1>7. Told' = reply' /\ Shown = <<>>
  BY <1>6 DEF Told, Shown
<1>8. Broken = failed /\ Broken' = failed'
  BY <1>6 DEF Broken, TypeOK
<1> QED
  BY <1>2, <1>4, <1>5, <1>7, <1>8

\* A call that fails.
LEMMA Failing ==
    ASSUME TypeOK, Calling, at' = "idle", reply' = "ERR", failed' = TRUE,
           UNCHANGED <<request, xfer, fifo, store, writes, buf>>
    PROVE  Device!Fail
<1>1. Shown' = <<>>
  BY DEF Shown
<1>2. Broken' = TRUE
  BY <1>1 DEF Broken, Calling
<1> QED
  BY <1>1, <1>2, Answered DEF Device!Fail

\* A new call.
LEMMA Beginning ==
    ASSUME TypeOK, Shape, NEW kind \in {"read", "write"}, NEW a \in Address, NEW n \in Count \ {0}, Begin(kind, a, n),
           kind = "read" => UNCHANGED writes,
           kind = "write" => writes' = writes + 1
    PROVE  Device!Begin
<1>1. /\ at = "idle" /\ at' = "issue" /\ reply' = "none" /\ a + n - 1 \in Address
      /\ request' = [kind |-> kind, addr |-> a, n |-> n, no |-> writes + 1]
      /\ UNCHANGED <<store, failed, xfer, fifo>>
  BY DEF Begin
<1>2. Asked = Device!NoRequest /\ Meant = {} /\ Asked' = request' /\ Shown' = <<>> /\ Told' = "none"
  BY <1>1 DEF Asked, Meant, Shown, Told, Calling, Resting, Device!NoRequest
<1>3. Asked' # Device!NoRequest
  BY <1>1, <1>2 DEF Device!NoRequest
<1>4. Broken' = Broken
  <2>1. request.kind = "init" => ~ failed
    BY <1>1 DEF Shape, ShapeOf
  <2> QED
    BY <1>1, <2>1 DEF Broken
<1>5. Meant' = IF kind = "write" THEN Device!Blocks(request') ELSE {}
  BY <1>1 DEF Meant, Calling, Resting, Device!Blocks, Data
<1>6. Unwritten' = Unwritten \cup Meant'
  BY <1>1, <1>2, SameHeld DEF Unwritten
<1>7. CASE kind = "read"
  BY <1>1, <1>2, <1>3, <1>4, <1>5, <1>6, <1>7 DEF Device!Begin
<1>8. CASE kind = "write"
  BY <1>1, <1>2, <1>3, <1>4, <1>5, <1>6, <1>8 DEF Device!Begin
<1> QED
  BY <1>7, <1>8

\* A call that succeeds.
LEMMA Succeeding ==
    ASSUME TypeOK, Shape, Exact, TransferDone
    PROVE  Device!ReadDone \/ Device!WriteDone
<1>1. /\ at = "done" /\ "data_done" \in INTERRUPT /\ at' = "idle" /\ reply' = "OK" /\ failed' = failed
      /\ UNCHANGED <<request, xfer, fifo, store, writes, buf>>
  BY DEF TransferDone, EndSeen, Return, host, TypeOK
<1>2. request.kind \in {"read", "write"} /\ Calling
  BY <1>1, KindShape DEF Moving, TypeOK, Request, Calling, Resting
<1>3. /\ Asked = request /\ Asked # Device!NoRequest /\ Asked' = Device!NoRequest
      /\ Told' = "OK" /\ Unwritten' = Held /\ Held \subseteq Unwritten
      /\ Shown = <<>> /\ Broken = failed /\ Broken' = failed
  BY <1>1, <1>2, Answered DEF TypeOK
<1>4. failed \/ (Finished /\ i = request.n /\ xfer = NoTransfer)
  BY <1>1, <1>2 DEF Exact, Shape, Moving, Finished
<1>5. CASE request.kind = "read"
  <2>1. Shown' = buf
    BY <1>1, <1>5 DEF Shown
  <2>2. failed \/ buf = [k \in 1 .. request.n |-> store[request.addr + k - 1]]
    <3> SUFFICES ASSUME ~ failed PROVE buf = [k \in 1 .. request.n |-> store[request.addr + k - 1]]
      OBVIOUS
    <3>1. Len(buf) = request.n /\ \A k \in 1 .. request.n : buf[k] = store[request.addr + k - 1]
      BY <1>4, <1>5 DEF Finished, Taken
    <3>2. buf \in [1 .. request.n -> Block \cup {Garbage}]
      BY <3>1, LenProperties DEF TypeOK
    <3> QED
      BY <3>1, <3>2
  <2> QED
    BY <1>1, <1>3, <1>5, <2>1, <2>2 DEF Device!ReadDone
<1>6. CASE request.kind = "write"
  <2>1. Shown' = <<>>
    BY <1>1, <1>6 DEF Shown
  <2>2. failed \/ (Unwritten' = {} /\ \A b \in Device!Blocks(request) : store[b.to] = b)
    <3> SUFFICES ASSUME ~ failed PROVE Unwritten' = {} /\ \A b \in Device!Blocks(request) : store[b.to] = b
      OBVIOUS
    <3>1. Held = {}
      BY <1>4 DEF Held, NoTransfer
    <3>2. \A k \in 0 .. request.n - 1 : store[request.addr + k] = Data(request, k)
      BY <1>4, <1>6 DEF Finished
    <3> QED
      BY <1>3, <3>1, <3>2 DEF Device!Blocks, Data
  <2> QED
    BY <1>1, <1>3, <1>6, <2>1, <2>2 DEF Device!WriteDone
<1> QED
  BY <1>2, <1>5, <1>6

\* A block that goes out to the card.
LEMMA Landing ==
    ASSUME TypeOK, Places, HostWrites
    PROVE  Device!Land
<1>1. /\ xfer.dir = "write" /\ fifo # <<>> /\ xfer.addr \in Address /\ UNCHANGED driver
      /\ store' = [store EXCEPT ![xfer.addr] = Head(fifo)] /\ fifo' = Tail(fifo)
  BY DEF HostWrites
<1>2. fifo \in Seq(Block)
  BY DEF TypeOK
<1>3. Head(fifo) = fifo[1] /\ Len(fifo) \in Nat \ {0} /\ Len(fifo') = Len(fifo) - 1
      /\ \A k \in 1 .. Len(fifo) - 1 : fifo'[k] = fifo[k + 1]
  BY <1>1, <1>2, HeadTailProperties, LenProperties
<1>4. fifo[1] \in Unwritten /\ fifo[1].to = xfer.addr
  <2>1. 1 \in 1 .. Len(fifo)
    BY <1>3
  <2>2. fifo[1] \in Held
    BY <1>1, <2>1 DEF Held
  <2>3. fifo[1].to = xfer.addr + 1 - 1
    BY <1>1, <2>1 DEF Places
  <2>4. xfer.addr + 1 - 1 = xfer.addr
    BY DEF TypeOK
  <2> QED
    BY <2>2, <2>3, <2>4 DEF Unwritten
<1>5. Unwritten' \subseteq Unwritten
  <2>1. Held' \subseteq Held
    <3> SUFFICES ASSUME NEW b \in Held' PROVE b \in Held
      OBVIOUS
    <3>1. PICK k \in 1 .. Len(fifo') : b = fifo'[k]
      BY DEF Held
    <3>2. k + 1 \in 1 .. Len(fifo) /\ b = fifo[k + 1]
      BY <1>3, <3>1
    <3> QED
      BY <1>1, <3>2 DEF Held
  <2> QED
    BY <1>1, <2>1, SameDriver DEF Unwritten
<1> QED
  BY <1>1, <1>3, <1>4, <1>5, SameDriver DEF Device!Land

\* A block that the driver puts was already meant for the card.
LEMMA Putting ==
    ASSUME TypeOK, Shape, PutBlock
    PROVE  UNCHANGED Device!vars
<1>1. /\ at = "put" /\ at' \in {"put", "done"} /\ UNCHANGED <<request, reply, writes, failed, xfer, store>>
      /\ fifo' = IF xfer.dir = "write" THEN Append(fifo, Data(request, i)) ELSE fifo
  BY DEF PutBlock
<1>2. Data(request, i) \in Meant /\ Data(request, i) \in Block
  BY <1>1, PutShape DEF Meant, Calling, Resting
<1>3. UNCHANGED <<Asked, Meant, writes, Shown, Told, Broken>>
  BY <1>1, GoingOn DEF Resting
<1>4. Unwritten' = Unwritten
  <2>1. CASE xfer.dir = "write"
    <3>1. fifo \in Seq(Block) /\ Len(fifo) \in Nat
      BY LenProperties DEF TypeOK
    <3>2. Len(fifo') = Len(fifo) + 1 /\ fifo'[Len(fifo) + 1] = Data(request, i)
          /\ \A k \in 1 .. Len(fifo) : fifo'[k] = fifo[k]
      BY <1>1, <1>2, <2>1, <3>1, AppendProperties
    <3>3. Held' = Held \cup {Data(request, i)}
      <4>1. Held' = {fifo'[k] : k \in 1 .. Len(fifo) + 1}
        BY <1>1, <2>1, <3>2 DEF Held
      <4>2. 1 .. Len(fifo) + 1 = (1 .. Len(fifo)) \cup {Len(fifo) + 1}
        BY <3>1
      <4>3. Held = {fifo[k] : k \in 1 .. Len(fifo)}
        BY <2>1 DEF Held
      <4> QED
        BY <3>2, <4>1, <4>2, <4>3
    <3> QED
      BY <1>2, <1>3, <3>3 DEF Unwritten
  <2>2. CASE xfer.dir # "write"
    BY <1>1, <1>3, <2>2 DEF Unwritten, Held
  <2> QED
    BY <2>1, <2>2
<1> QED
  BY <1>1, <1>3, <1>4, Unseen

\* Every step is one of BlockDevice or is not seen.
LEMMA StepMaps == IInv /\ [Next]_vars => [Device!Next]_(Device!vars)
<1> SUFFICES ASSUME TypeOK, Shape, Commands, Places, Exact, [Next]_vars PROVE [Device!Next]_(Device!vars)
  BY DEF IInv
<1>1. CASE Clear
  <2>1. ~ Resting /\ ~ Resting' /\ UNCHANGED <<request, reply, writes, failed, xfer, fifo, store>>
    BY <1>1 DEF Clear, GoTo, Resting, host
  <2> QED
    BY <2>1, GoingOn, SameHeld, Unseen DEF Unwritten
<1>2. CASE Send
  <2>1. ~ Resting /\ ~ Resting' /\ UNCHANGED <<request, reply, writes, failed, xfer, fifo, store>>
    BY <1>2 DEF Send, GoTo, Resting, host
  <2> QED
    BY <2>1, GoingOn, SameHeld, Unseen DEF Unwritten
<1>3. CASE CommandFails
  <2>1. /\ at = "sent" /\ UNCHANGED <<request, xfer, fifo, store, writes, buf>> /\ reply' = "ERR" /\ failed' = TRUE
        /\ (request.kind # "init" => at' = "idle")
    BY <1>3 DEF CommandFails, Return, host
  <2>2. CASE request.kind = "init"
    BY <2>1, <2>2, Initializing, SameHeld, Unseen DEF Unwritten
  <2>3. CASE request.kind # "init"
    BY <2>1, <2>3, Failing DEF Calling, Resting, Device!Next
  <2> QED
    BY <2>2, <2>3
<1>4. CASE DataPhase
  <2>1. ~ Resting /\ ~ Resting' /\ UNCHANGED <<request, reply, writes, failed, xfer, fifo, store>>
    BY <1>4 DEF DataPhase, GoTo, Resting, host
  <2> QED
    BY <2>1, GoingOn, SameHeld, Unseen DEF Unwritten
<1>5. CASE ResetFails
  <2>1. request.kind = "init" /\ UNCHANGED <<request, writes, xfer, fifo, store>>
    BY <1>5, KindShape DEF ResetFails, Return, InitCommand, host
  <2> QED
    BY <2>1, Initializing, SameHeld, Unseen DEF Unwritten
<1>6. CASE Reset
  <2>1. request.kind = "init" /\ UNCHANGED <<request, writes, xfer, fifo, store>>
    BY <1>6, KindShape DEF Reset, GoTo, InitCommand, host
  <2> QED
    BY <2>1, Initializing, SameHeld, Unseen DEF Unwritten
<1>7. CASE InitGoesOn
  <2>1. request.kind = "init" /\ UNCHANGED <<request, writes, xfer, fifo, store>>
    BY <1>7, KindShape DEF InitGoesOn, InitCommand, host
  <2> QED
    BY <2>1, Initializing, SameHeld, Unseen DEF Unwritten
<1>8. CASE InitFails
  <2>1. request.kind = "init" /\ UNCHANGED <<request, writes, xfer, fifo, store>>
    BY <1>8, KindShape DEF InitFails, Return, InitCommand, host
  <2> QED
    BY <2>1, Initializing, SameHeld, Unseen DEF Unwritten
<1>9. CASE InitDone
  <2>1. request.kind = "init" /\ UNCHANGED <<request, writes, xfer, fifo, store>>
    BY <1>9, KindShape DEF InitDone, Return, InitCommand, host
  <2> QED
    BY <2>1, Initializing, SameHeld, Unseen DEF Unwritten
<1>10. CASE SeeReady
  <2>1. ~ Resting /\ ~ Resting' /\ UNCHANGED <<request, reply, writes, failed, xfer, fifo, store>>
    BY <1>10 DEF SeeReady, GoTo, Resting, host
  <2> QED
    BY <2>1, GoingOn, SameHeld, Unseen DEF Unwritten
<1>11. CASE ClearReady
  <2>1. ~ Resting /\ ~ Resting' /\ UNCHANGED <<request, reply, writes, failed, xfer, fifo, store>>
    BY <1>11 DEF ClearReady, GoTo, Resting, host
  <2> QED
    BY <2>1, GoingOn, SameHeld, Unseen DEF Unwritten
<1>12. CASE SeeNotReady
  <2>1. ~ Resting /\ ~ Resting' /\ UNCHANGED <<request, reply, writes, failed, xfer, fifo, store>>
    BY <1>12 DEF SeeNotReady, GoTo, Resting, host
  <2> QED
    BY <2>1, GoingOn, SameHeld, Unseen DEF Unwritten
<1>13. CASE TakeBlock
  <2>1. ~ Resting /\ ~ Resting' /\ UNCHANGED <<request, reply, writes, failed, xfer, store>>
        /\ (xfer.dir = "write" => fifo' = fifo)
    BY <1>13 DEF TakeBlock, Resting
  <2>2. Held' = Held
    BY <2>1 DEF Held
  <2> QED
    BY <2>1, <2>2, GoingOn, Unseen DEF Unwritten
<1>14. CASE SeeWriteReady
  <2>1. ~ Resting /\ ~ Resting' /\ UNCHANGED <<request, reply, writes, failed, xfer, fifo, store>>
    BY <1>14 DEF SeeWriteReady, GoTo, Resting, host
  <2> QED
    BY <2>1, GoingOn, SameHeld, Unseen DEF Unwritten
<1>15. CASE ClearWriteReady
  <2>1. ~ Resting /\ ~ Resting' /\ UNCHANGED <<request, reply, writes, failed, xfer, fifo, store>>
    BY <1>15 DEF ClearWriteReady, GoTo, Resting, host
  <2> QED
    BY <2>1, GoingOn, SameHeld, Unseen DEF Unwritten
<1>16. CASE PutBlock
  BY <1>16, Putting
<1>17. CASE TransferDone
  BY <1>17, Succeeding DEF Device!Next
<1>18. CASE GiveUp
  <2>1. /\ at = "done" /\ UNCHANGED <<request, xfer, fifo, store, writes, buf>> /\ reply' = "ERR" /\ failed' = TRUE
        /\ at' = "idle"
    BY <1>18 DEF GiveUp, Return, host
  <2>2. Calling
    BY <2>1, KindShape DEF Moving, Calling, Resting
  <2> QED
    BY <2>1, <2>2, Failing DEF Device!Next
<1>19. CASE Answer
  <2>1. UNCHANGED <<driver, fifo, store>> /\ (pending \notin DataCommand => xfer' = xfer)
    BY <1>19 DEF Answer
  <2>2. pending \in DataCommand => fifo = <<>>
    BY DEF Commands, Places
  <2>3. Held' = Held
    <3>1. CASE fifo = <<>>
      BY <2>1, <3>1 DEF Held
    <3>2. CASE xfer' = xfer
      BY <2>1, <3>2 DEF Held
    <3> QED
      BY <2>1, <2>2, <3>1, <3>2
  <2> QED
    BY <2>1, <2>3, SameDriver, Unseen DEF Unwritten
<1>20. CASE Refuse
  <2>1. UNCHANGED <<driver, xfer, fifo, store>>
    BY <1>20 DEF Refuse
  <2> QED
    BY <2>1, SameDriver, SameHeld, Unseen DEF Unwritten
<1>21. CASE LoseCommand
  <2>1. UNCHANGED <<driver, xfer, fifo, store>>
    BY <1>21 DEF LoseCommand
  <2> QED
    BY <2>1, SameDriver, SameHeld, Unseen DEF Unwritten
<1>22. CASE HostReads
  <2>1. UNCHANGED <<driver, store>> /\ xfer.dir = "read" /\ xfer' = [xfer EXCEPT !.addr = @ + 1]
    BY <1>22 DEF HostReads
  <2>2. Held' = Held
    BY <2>1 DEF Held, TypeOK
  <2> QED
    BY <2>1, <2>2, SameDriver, Unseen DEF Unwritten
<1>23. CASE HostAsks
  <2>1. UNCHANGED <<driver, fifo, store>> /\ xfer' = [xfer EXCEPT !.asked = TRUE]
    BY <1>23 DEF HostAsks
  <2>2. Held' = Held
    BY <2>1 DEF Held, TypeOK
  <2> QED
    BY <2>1, <2>2, SameDriver, Unseen DEF Unwritten
<1>24. CASE HostWrites
  BY <1>24, Landing DEF Device!Next
<1>25. CASE HostDone
  <2>1. UNCHANGED <<driver, store>> /\ fifo = <<>> /\ xfer' = NoTransfer
    BY <1>25 DEF HostDone
  <2>2. Held = {} /\ Held' = {}
    BY <2>1 DEF Held, NoTransfer
  <2> QED
    BY <2>1, <2>2, SameDriver, Unseen DEF Unwritten
<1>26. CASE HostAborts
  <2>1. UNCHANGED <<driver, store>> /\ xfer' = NoTransfer
    BY <1>26 DEF HostAborts
  <2>2. Held' = {}
    BY <2>1 DEF Held, NoTransfer
  <2> QED
    BY <2>1, <2>2, SameDriver DEF Unwritten, Device!Drop, Device!Next
<1>27. ASSUME NEW a \in Address, NEW n \in ReadSizes, ReadBlock(a, n) PROVE Device!Next
  <2>1. n \in Count \ {0}
    BY EmmcAssumption
  <2> QED
    BY <1>27, <2>1, Beginning DEF ReadBlock, Device!Next
<1>28. ASSUME NEW a \in Address, NEW n \in WriteSizes, WriteBlock(a, n) PROVE Device!Next
  <2>1. n \in Count \ {0}
    BY EmmcAssumption
  <2> QED
    BY <1>28, <2>1, Beginning DEF WriteBlock, Device!Next
<1>29. CASE UNCHANGED vars
  <2>1. UNCHANGED <<driver, xfer, fifo, store>>
    BY <1>29 DEF vars, host
  <2> QED
    BY <2>1, SameDriver, SameHeld, Unseen DEF Unwritten
<1> QED
  BY <1>1, <1>2, <1>3, <1>4, <1>5, <1>6, <1>7, <1>8, <1>9, <1>10, <1>11, <1>12, <1>13, <1>14, <1>15,
     <1>16, <1>17, <1>18, <1>19, <1>20, <1>21, <1>22, <1>23, <1>24, <1>25, <1>26, <1>27, <1>28,
     <1>29
     DEF Next, DriverStep, NewCall, HostStep

\* Until a call of the driver fails, a read that succeeds has brought the blocks
\* of the card and a write that succeeds has stored its own, all of them; and
\* whatever is lost, aborted or late, a block of the card changes only to what a
\* call meant for it (emmc_read_block, emmc_write_block).
THEOREM DeviceImplemented == Spec => DeviceKept
<1>1. Init => Device!Init
  BY
     DEF Init, Device!Init, Device!NoRequest, Asked, Unwritten, Meant, Held, Shown, Told, Broken,
     Calling, Resting, NoTransfer
<1>2. IInv /\ [Next]_vars => [Device!Next]_(Device!vars)
  BY StepMaps
<1> QED
  BY <1>1, <1>2, Invariant, PTL DEF Spec, DeviceKept, Device!Spec

----------------------------------------------------------------------------
(* With a card that makes no mistake and has powered up by the last poll,  *)
(* neither emmc_init nor any transfer fails.  The invariant: the card is   *)
(* in a state in which it takes the command that is to come, the driver's  *)
(* count of polls is the card's, and a transfer that is not over is the    *)
(* driver's own.                                                           *)

Healthy == faults = 0 /\ card.slow < POWER_UP_TRIES

\* The command the driver is about has not been answered.
Unanswering == at \in {"issue", "send"} \/ (at = "sent" /\ "command_done" \notin INTERRUPT)
Answering == at = "sent" /\ "command_done" \in INTERRUPT

\* emmc_init, before a command and after it.
InitReady ==
    /\ Unanswering => card.state \in Takes(cmd) /\ i = card.polls
    /\ Answering => card.polls = IF cmd = "SD_SEND_OP_COND" THEN i + 1 ELSE i
    /\ Answering =>
          CASE cmd \in {"GO_IDLE_STATE", "SEND_IF_COND"} -> card.state = "IDLE"
            [] cmd = "APP_CMD" -> card.state = "IDLE" /\ card.app
            [] cmd = "SD_SEND_OP_COND" -> \/ powered /\ card.state = "READY"
                                          \/ ~ powered /\ card.state = "IDLE" /\ i < card.slow
            [] cmd = "ALL_SEND_CID" -> card.state = "IDENTIFICATION"
            [] cmd = "SEND_RELATIVE_ADDR" -> card.state = "STANDBY"
            [] cmd = "SELECT_DESELECT_CARD" -> card.state = "TRANSMIT"

\* A call of the file system: its transfer goes on, or has ended and it shows.
CallReady ==
    /\ Unanswering => card.state = "TRANSMIT"
    /\ Accepted => \/ xfer.dir # "none" /\ xfer.auto
                   \/ xfer.dir = "none" /\ card.state = "TRANSMIT" /\ "data_done" \in INTERRUPT

\* With a healthy card.
Fit ==
    /\ reply # "ERR" /\ ~ failed
    /\ at # "off" => "error" \notin INTERRUPT
    /\ Unanswering /\ at # "issue" => INTERRUPT = {}
    /\ at = "off" => cmd = "GO_IDLE_STATE" /\ i = 0 /\ card.polls = 0 /\ reply = "none"
    /\ request.kind = "init" /\ at \notin {"off", "idle"} => InitReady
    /\ at = "idle" => card.state = "TRANSMIT"
    /\ request.kind # "init" => CallReady

Health == Healthy => Fit

\* A command does not change the time the card needs.
LEMMA SameSlow ==
    ASSUME TypeOK, NEW c
    PROVE  Acted(c).slow = card.slow
  BY DEF Acted, TypeOK

\* A card that is healthy after a step was so before it.
LEMMA HealthyBefore ==
    ASSUME TypeOK, [Next]_vars, Healthy'
    PROVE  Healthy /\ faults' = faults
<1> faults \in Nat /\ card \in [state : CardState, app : BOOLEAN, polls : Nat, slow : Nat]
  BY DEF TypeOK
<1>1. CASE DriverStep \/ UNCHANGED vars
  BY <1>1
     DEF Healthy, DriverStep, Clear, Send, CommandFails, DataPhase, ResetFails, Reset, InitGoesOn,
       InitFails, InitDone, SeeReady, ClearReady, SeeNotReady, TakeBlock, SeeWriteReady,
       ClearWriteReady, PutBlock, TransferDone, GiveUp, vars
<1>2. CASE NewCall
  BY <1>2 DEF Healthy, NewCall, ReadBlock, WriteBlock, Begin
<1>3. CASE Answer
  BY <1>3, SameSlow DEF Healthy, Answer
<1>4. CASE HostAborts
  BY <1>4 DEF Healthy, HostAborts
<1>5. CASE HostDone
  BY <1>5 DEF Healthy, HostDone
<1>6. CASE Refuse \/ HostReads \/ HostAsks \/ HostWrites
  BY <1>6 DEF Healthy, Refuse, HostReads, HostAsks, HostWrites
<1>7. CASE LoseCommand
  BY <1>7 DEF Healthy, LoseCommand
<1> QED
  BY <1>1, <1>2, <1>3, <1>4, <1>5, <1>6, <1>7 DEF Next, HostStep

\* The states in which the card takes a command are the same as before.
LEMMA SameTakes ==
    ASSUME UNCHANGED <<card, cmd>>
    PROVE  Takes(cmd)' = Takes(cmd)
  BY DEF Takes

\* Until a call fails, a transfer that is not over keeps to the blocks of the
\* call, and at the end of the call nothing of it waits for the driver.
LEMMA OnItsWay ==
    ASSUME TypeOK, Shape, Places, Exact, ~ failed, request.kind # "init", xfer.dir # "none"
    PROVE  (count > 0 => xfer.addr \in Address) /\ (at = "done" => ~ HostWaits)
<1>1. Accepted /\ (xfer.dir = "read" => ReadSoFar) /\ (xfer.dir = "write" => WrittenSoFar)
  BY InTransfer
<1>2. /\ request.addr \in Nat /\ request.n \in Nat /\ i \in Nat /\ count \in Nat /\ xfer.addr \in Nat
      /\ Len(fifo) \in Nat /\ LAST \in Nat
  BY LenProperties, EmmcAssumption DEF TypeOK, Request, Address, Count
<1>3. request.addr + request.n - 1 \in 0 .. LAST
  BY DEF Shape, Address
<1>4. xfer.addr + count = request.addr + request.n
  <2>1. CASE xfer.dir = "read"
    <3>1. count + Len(fifo) + i = request.n /\ xfer.addr = request.addr + i + Len(fifo)
      BY <1>1, <2>1 DEF ReadSoFar
    <3> QED
      BY <1>2, <3>1
  <2>2. CASE xfer.dir = "write"
    <3>1. count + (xfer.addr - request.addr) = request.n
      BY <1>1, <2>2 DEF WrittenSoFar
    <3> QED
      BY <1>2, <3>1
  <2> QED
    BY <2>1, <2>2 DEF TypeOK
<1>5. count > 0 => xfer.addr \in Address
  BY <1>2, <1>3, <1>4 DEF Address
<1>6. at = "done" => ~ HostWaits
  <2> SUFFICES ASSUME at = "done" PROVE ~ HostWaits
    OBVIOUS
  <2>1. i = request.n
    BY DEF Shape
  <2>2. CASE xfer.dir = "read"
    <3>1. count + Len(fifo) + i = request.n
      BY <1>1, <2>2 DEF ReadSoFar
    <3>2. Len(fifo) = 0
      BY <1>2, <2>1, <3>1
    <3>3. fifo = <<>>
      BY <3>2, EmptySeq DEF TypeOK
    <3> QED
      BY <2>2, <3>3 DEF HostWaits
  <2>3. CASE xfer.dir = "write"
    <3>1. xfer.addr + Len(fifo) = request.addr + i
      BY <1>1, <2>3 DEF WrittenSoFar, Places
    <3>2. Len(fifo) = count
      BY <1>2, <1>4, <2>1, <3>1
    <3>3. fifo = <<>> => count = 0
      BY <3>2, EmptySeq
    <3> QED
      BY <2>3, <3>3 DEF HostWaits
  <2> QED
    BY <2>2, <2>3 DEF TypeOK
<1> QED
  BY <1>5, <1>6

\* A command is pending only where the driver waits for it.
LEMMA Waited ==
    ASSUME IInv, Fit, pending # NoCommand
    PROVE  at = "sent" /\ pending = cmd /\ Unanswering
<1>1. at = "sent"
  <2>1. CASE request.kind = "init"
    BY <2>1 DEF IInv, Shape, ShapeOf, Commands, Fit, Starting
  <2>2. CASE request.kind # "init"
    BY <2>2, Unanswered DEF IInv, Fit
  <2> QED
    BY <2>1, <2>2
<1> QED
  BY <1>1 DEF IInv, Commands, Unanswering

\* Blocks are moved only in a transfer of the call.
LEMMA OnTheWay ==
    ASSUME IInv, Fit, xfer.dir # "none"
    PROVE  request.kind # "init" /\ Accepted /\ xfer.auto
<1>1. request.kind = "init" => xfer.dir = "none"
  BY DEF IInv, Shape, ShapeOf, NoTransfer
<1>2. Accepted
  BY <1>1, InTransfer DEF IInv, Fit
<1> QED
  BY <1>1, <1>2 DEF Fit, CallReady

\* As long as there are blocks to move, the transfer is not over.
LEMMA Midway ==
    ASSUME IInv, Fit, at \in Moving \ {"done"}
    PROVE  request.kind # "init" /\ xfer.dir # "none" /\ xfer.auto
<1>1. request.kind # "init"
  BY KindShape DEF IInv
<1>2. "data_done" \notin INTERRUPT
  BY <1>1 DEF IInv, Exact, Finished, Fit
<1> QED
  BY <1>1, <1>2 DEF Fit, CallReady, Accepted

\* The host moves a block: the transfer stays the call's.
LEMMA GoesOn ==
    ASSUME IInv, Fit, xfer.dir # "none", xfer'.dir = xfer.dir, xfer'.auto = xfer.auto,
           INTERRUPT' \subseteq INTERRUPT \cup {"read_ready", "write_ready"}, INTERRUPT \subseteq INTERRUPT',
           UNCHANGED <<at, request, reply, failed, card>>
    PROVE  Fit'
<1>1. request.kind # "init" /\ Accepted /\ xfer.auto
  BY OnTheWay
<1>2. "command_done" \in INTERRUPT' <=> "command_done" \in INTERRUPT
  OBVIOUS
<1>3. "error" \in INTERRUPT' <=> "error" \in INTERRUPT
  OBVIOUS
<1> QED
  BY <1>1, <1>2, <1>3 DEF Fit, CallReady, Unanswering, Accepted, Moving, Reading, Writing

\* Every step keeps a healthy card and its host fit.
LEMMA HealthStep == IInv /\ Health /\ [Next]_vars => Health'
<1> SUFFICES ASSUME IInv, Health, [Next]_vars, Healthy' PROVE Fit'
  BY DEF Health
<1> IInv /\ TypeOK /\ Shape /\ Commands /\ Places /\ Exact
  BY DEF IInv
<1> Fit /\ Healthy /\ UNCHANGED faults
  BY HealthyBefore DEF Health
<1> /\ request.kind \in {"init", "read", "write"} /\ i \in Nat /\ faults \in Nat
    /\ failed = FALSE /\ reply # "ERR" /\ card.slow \in Nat /\ card.slow < POWER_UP_TRIES
  BY DEF TypeOK, Request, Fit, Healthy
<1>1. CASE Clear
  <2>1. /\ at = "issue" /\ at' = "send" /\ INTERRUPT' = {}
        /\ UNCHANGED <<cmd, request, i, reply, failed, card>>
    BY <1>1 DEF Clear, AllCleared, GoTo
  <2>2. Takes(cmd)' = Takes(cmd)
    BY <2>1, SameTakes
  <2> QED
    BY <2>1, <2>2
       DEF Fit, CallReady, InitReady, Unanswering, Answering, Accepted, Moving, Reading, Writing
<1>2. CASE Send
  <2>1. at = "send" /\ ~ Busy(cmd)
    BY <1>2, KindShape DEF Send, Busy, Exact, NoTransfer, Fit, InitCommand, DataCommand
  <2>2. /\ at' = "sent" /\ INTERRUPT = {} /\ INTERRUPT' = {}
        /\ UNCHANGED <<cmd, request, i, reply, failed, card>>
    BY <1>2, <2>1 DEF Send, GoTo, Fit, Unanswering
  <2>3. Takes(cmd)' = Takes(cmd)
    BY <2>2, SameTakes
  <2> QED
    BY <2>1, <2>2, <2>3
       DEF Fit, CallReady, InitReady, Unanswering, Answering, Accepted, Moving, Reading, Writing
<1>3. CASE CommandFails
  <2>1. INTERRUPT = {}
    BY <1>3 DEF CommandFails, Fit, Unanswering
  <2> QED
    BY <1>3, <2>1 DEF CommandFails
<1>4. CASE DataPhase
  BY <1>4
     DEF Fit, CallReady, InitReady, Unanswering, Answering, Accepted, Moving, Reading, Writing,
       DataPhase, GoTo, driver, host
<1>5. CASE ResetFails
  BY <1>5 DEF ResetFails
<1>6. CASE Reset
  <2>1. /\ at = "off" /\ at' = "issue" /\ INTERRUPT' = {}
        /\ UNCHANGED <<cmd, request, i, reply, failed, card>>
    BY <1>6 DEF Reset, GoTo
  <2>2. request.kind = "init" /\ cmd = "GO_IDLE_STATE"
    BY <2>1, KindShape DEF Fit
  <2>3. card.state \in Takes(cmd)'
    BY <2>1, <2>2 DEF Takes, TypeOK, DataCommand
  <2> QED
    BY <2>1, <2>2, <2>3 DEF Fit, CallReady, InitReady, Unanswering, Answering
<1>7. CASE InitGoesOn
  <2>1. /\ at = "sent" /\ "command_done" \in INTERRUPT /\ at' = "issue"
        /\ cmd \in InitCommand \ {"SELECT_DESELECT_CARD"} /\ cmd' = NextCommand(cmd, powered)
        /\ i' = (IF cmd = "SD_SEND_OP_COND" THEN i + 1 ELSE i)
        /\ UNCHANGED <<request, reply, failed, card, INTERRUPT>>
    BY <1>7 DEF InitGoesOn
  <2>2. request.kind = "init"
    BY <2>1, KindShape
  <2>3. InitReady /\ Answering
    BY <2>1, <2>2 DEF Fit, Answering
  <2>4. card.state \in Takes(cmd)'
    BY <2>1, <2>3 DEF InitReady, InitCommand, NextCommand, Takes, DataCommand
  <2>5. card.polls = i'
    BY <2>1, <2>3 DEF InitReady
  <2> QED
    BY <2>1, <2>2, <2>4, <2>5 DEF Fit, CallReady, InitReady, Unanswering, Answering
<1>8. CASE InitFails
  <2>1. /\ at = "sent" /\ "command_done" \in INTERRUPT /\ faults' = faults
        /\ cmd = "SD_SEND_OP_COND" /\ ~ powered /\ ~ i + 1 < POWER_UP_TRIES
    BY <1>8 DEF InitFails, PollsLeft
  <2>2. request.kind = "init"
    BY <2>1, KindShape DEF InitCommand
  <2>3. i < card.slow
    BY <2>1, <2>2 DEF Fit, InitReady, Answering
  <2> QED
    BY <2>1, <2>3, EmmcAssumption
<1>9. CASE InitDone
  <2>1. /\ at = "sent" /\ "command_done" \in INTERRUPT /\ at' = "idle" /\ cmd = "SELECT_DESELECT_CARD"
        /\ reply' = "OK" /\ failed' = failed /\ UNCHANGED <<cmd, request, i, card, INTERRUPT>>
    BY <1>9 DEF InitDone, Return, host
  <2>2. request.kind = "init"
    BY <2>1, KindShape DEF InitCommand
  <2>3. card.state = "TRANSMIT"
    BY <2>1, <2>2 DEF Fit, InitReady, Answering
  <2> QED
    BY <2>1, <2>2, <2>3 DEF Fit, CallReady, InitReady, Unanswering, Answering
<1>10. CASE SeeReady
  BY <1>10
     DEF Fit, CallReady, InitReady, Unanswering, Answering, Accepted, Moving, Reading, Writing,
       SeeReady, GoTo, BlockSeen, driver, host
<1>11. CASE ClearReady
  <2>1. /\ at \in Moving \ {"done"} /\ at' = "drain" /\ INTERRUPT' = {}
        /\ UNCHANGED <<request, reply, failed, xfer, card>>
    BY <1>11 DEF ClearReady, AllCleared, GoTo, Moving, Reading
  <2> QED
    BY <2>1, Midway DEF Fit, CallReady, Unanswering, Accepted
<1>12. CASE SeeNotReady
  BY <1>12
     DEF Fit, CallReady, InitReady, Unanswering, Answering, Accepted, Moving, Reading, Writing,
       SeeNotReady, GoTo, driver, host
<1>13. CASE TakeBlock
  <2>1. /\ at \in Moving \ {"done"} /\ at' \in {"read_ready", "done"} /\ INTERRUPT' = {}
        /\ UNCHANGED <<request, reply, failed, xfer, card>>
    BY <1>13 DEF TakeBlock, AllCleared, Moving, Reading
  <2> QED
    BY <2>1, Midway DEF Fit, CallReady, Unanswering, Accepted
<1>14. CASE SeeWriteReady
  BY <1>14
     DEF Fit, CallReady, InitReady, Unanswering, Answering, Accepted, Moving, Reading, Writing,
       SeeWriteReady, GoTo, driver, host
<1>15. CASE ClearWriteReady
  <2>1. /\ at \in Moving \ {"done"} /\ at' = "put" /\ INTERRUPT' = {}
        /\ UNCHANGED <<request, reply, failed, xfer, card>>
    BY <1>15 DEF ClearWriteReady, AllCleared, GoTo, Moving, Writing
  <2> QED
    BY <2>1, Midway DEF Fit, CallReady, Unanswering, Accepted
<1>16. CASE PutBlock
  BY <1>16
     DEF Fit, CallReady, InitReady, Unanswering, Answering, Accepted, Moving, Reading, Writing,
       PutBlock, More, Data, driver, host
<1>17. CASE TransferDone
  <2>1. /\ at = "done" /\ "data_done" \in INTERRUPT /\ at' = "idle"
        /\ reply' = "OK" /\ failed' = failed /\ UNCHANGED <<cmd, request, i, card, INTERRUPT>>
    BY <1>17 DEF TransferDone, EndSeen, Return, host
  <2>2. request.kind # "init"
    BY <2>1, KindShape DEF Moving
  <2>3. xfer = NoTransfer
    BY <2>1, <2>2 DEF Exact, Finished, Moving
  <2>4. card.state = "TRANSMIT"
    BY <2>1, <2>2, <2>3 DEF Fit, CallReady, Accepted, Moving, NoTransfer
  <2> QED
    BY <2>1, <2>2, <2>4 DEF Fit, CallReady, Unanswering, Accepted, Moving, Reading, Writing
<1>18. CASE GiveUp
  <2>1. at = "done" /\ "data_done" \notin INTERRUPT /\ HostWaits
    BY <1>18 DEF GiveUp
  <2>2. request.kind # "init"
    BY <2>1, KindShape DEF Moving
  <2>3. xfer.dir # "none"
    BY <2>1, <2>2 DEF Fit, CallReady, Accepted, Moving
  <2> QED
    BY <2>1, <2>2, <2>3, OnItsWay DEF Fit
<1>19. CASE Answer
  <2>1. /\ pending # NoCommand /\ card.state \in Takes(pending) /\ card' = Acted(pending)
        /\ powered' = (pending = "SD_SEND_OP_COND" /\ card.polls >= card.slow)
        /\ INTERRUPT' = INTERRUPT \cup {"command_done"}
        /\ UNCHANGED <<at, cmd, request, i, reply, failed>>
    BY <1>19 DEF Answer, Raise, driver
  <2>2. at = "sent" /\ pending = cmd /\ Unanswering
    BY <2>1, Waited
  <2>3. /\ card'.state = After(cmd) /\ card'.app = (cmd = "APP_CMD")
        /\ card'.polls = (IF cmd = "SD_SEND_OP_COND" THEN card.polls + 1 ELSE card.polls)
    BY <2>1, <2>2 DEF Acted, TypeOK
  <2>4. /\ reply' # "ERR" /\ failed' = FALSE /\ "error" \notin INTERRUPT' /\ at' = "sent"
        /\ ~ Unanswering' /\ Answering'
    BY <2>1, <2>2 DEF Fit, Unanswering, Answering
  <2>5. CASE request.kind = "init"
    <3>1. cmd \in InitCommand /\ i = card.polls /\ cmd' = cmd /\ i' = i
      BY <2>1, <2>2, <2>5, KindShape DEF Fit, InitReady
    <3>2. card.polls \in Nat
      BY DEF TypeOK
    <3>3. ~ Unanswering' /\ card'.polls = IF cmd = "SD_SEND_OP_COND" THEN i + 1 ELSE i
      BY <2>3, <2>4, <3>1
    <3>4. ASSUME cmd = "SD_SEND_OP_COND" PROVE InitReady'
      <4>1. /\ powered' <=> i >= card.slow
            /\ card'.state = IF i >= card.slow THEN "READY" ELSE "IDLE"
        BY <2>1, <2>2, <2>3, <3>1, <3>4 DEF After
      <4>2. card'.slow = card.slow
        BY <2>1, SameSlow
      <4>3. \/ powered' /\ card'.state = "READY"
            \/ ~ powered' /\ card'.state = "IDLE" /\ i' < card'.slow
        <5>1. i \in Nat /\ card.slow \in Nat /\ i' = i
          BY <3>1
        <5>2. i < card.slow \/ i >= card.slow
          BY <5>1
        <5>3. CASE i >= card.slow
          BY <4>1, <5>3
        <5>4. CASE i < card.slow
          <6>1. ~ i >= card.slow
            BY <5>1, <5>4
          <6> QED
            BY <4>1, <4>2, <5>1, <5>4, <6>1
        <5> QED
          BY <5>2, <5>3, <5>4
      <4> QED
        BY <3>1, <3>3, <3>4, <4>3 DEF InitReady
    <3>5. ASSUME cmd # "SD_SEND_OP_COND" PROVE InitReady'
      <4>1. CASE cmd \in {"GO_IDLE_STATE", "SEND_IF_COND"}
        BY <2>3, <3>1, <3>3, <4>1 DEF InitReady, After
      <4>2. CASE cmd = "APP_CMD"
        BY <2>3, <3>1, <3>3, <4>2 DEF InitReady, After
      <4>3. CASE cmd \in {"ALL_SEND_CID", "SEND_RELATIVE_ADDR", "SELECT_DESELECT_CARD"}
        BY <2>3, <3>1, <3>3, <4>3 DEF InitReady, After
      <4> QED
        BY <3>1, <3>5, <4>1, <4>2, <4>3 DEF InitCommand
    <3>6. InitReady'
      BY <3>4, <3>5
    <3> QED
      BY <2>1, <2>4, <2>5, <3>6 DEF Fit
  <2>6. CASE request.kind # "init"
    <3>1. cmd \in DataCommand
      BY <2>6, KindShape DEF DataCommand
    <3>2. xfer'.dir # "none" /\ xfer'.auto
      BY <1>19, <2>2, <3>1 DEF Answer, Direction, AutoCommand, DataCommand
    <3> QED
      BY <2>1, <2>4, <2>6, <3>2 DEF Fit, CallReady
  <2> QED
    BY <2>5, <2>6
<1>20. CASE Refuse
  <2>1. pending # NoCommand /\ card.state \notin Takes(pending)
    BY <1>20 DEF Refuse
  <2>2. at = "sent" /\ pending = cmd /\ Unanswering
    BY <2>1, Waited
  <2>3. CASE request.kind = "init"
    BY <2>1, <2>2, <2>3 DEF Fit, InitReady
  <2>4. CASE request.kind # "init"
    <3>1. cmd \in DataCommand /\ cmd \notin InitCommand
      BY <2>4, KindShape DEF DataCommand, InitCommand
    <3>2. Takes(cmd) = {"TRANSMIT"}
      BY <3>1 DEF Takes, InitCommand, DataCommand
    <3> QED
      BY <2>1, <2>2, <2>4, <3>2 DEF Fit, CallReady
  <2> QED
    BY <2>3, <2>4
<1>21. CASE LoseCommand
  BY <1>21 DEF LoseCommand
<1>22. CASE HostReads
  <2>1. /\ xfer.dir # "none" /\ INTERRUPT' = INTERRUPT \cup {"read_ready"}
        /\ xfer'.dir = xfer.dir /\ xfer'.auto = xfer.auto
        /\ UNCHANGED <<at, request, reply, failed, card>>
    BY <1>22 DEF HostReads, Raise, TypeOK, driver
  <2> QED
    BY <2>1, GoesOn
<1>23. CASE HostAsks
  <2>1. /\ xfer.dir # "none" /\ INTERRUPT' = INTERRUPT \cup {"write_ready"}
        /\ xfer'.dir = xfer.dir /\ xfer'.auto = xfer.auto
        /\ UNCHANGED <<at, request, reply, failed, card>>
    BY <1>23 DEF HostAsks, Raise, TypeOK, driver
  <2> QED
    BY <2>1, GoesOn
<1>24. CASE HostWrites
  <2>1. /\ xfer.dir # "none" /\ INTERRUPT' = INTERRUPT
        /\ xfer'.dir = xfer.dir /\ xfer'.auto = xfer.auto
        /\ UNCHANGED <<at, request, reply, failed, card>>
    BY <1>24 DEF HostWrites, TypeOK, driver
  <2> QED
    BY <2>1, GoesOn
<1>25. CASE HostDone
  <2>1. /\ xfer.dir # "none" /\ xfer'.dir = "none" /\ INTERRUPT' = INTERRUPT \cup {"data_done"}
        /\ card' = (IF xfer.auto THEN [card EXCEPT !.state = "TRANSMIT"] ELSE card)
        /\ UNCHANGED <<at, request, reply, failed>>
    BY <1>25 DEF HostDone, Raise, NoTransfer, driver
  <2>2. request.kind # "init" /\ Accepted /\ xfer.auto
    BY <2>1, OnTheWay
  <2>3. card'.state = "TRANSMIT"
    BY <2>1, <2>2 DEF TypeOK
  <2> QED
    BY <2>1, <2>2, <2>3 DEF Fit, CallReady, Unanswering, Accepted, Moving, Reading, Writing
<1>26. CASE HostAborts
  <2>1. xfer.dir # "none" /\ count > 0 /\ xfer.addr \notin Address
    BY <1>26 DEF HostAborts
  <2>2. request.kind # "init"
    BY <2>1, OnTheWay
  <2> QED
    BY <2>1, <2>2, OnItsWay DEF Fit
<1>27. ASSUME NEW a \in Address, NEW n \in ReadSizes, ReadBlock(a, n) PROVE Fit'
  BY <1>27, EmmcAssumption, OrAssumption
     DEF Fit, CallReady, InitReady, Unanswering, Answering, Accepted, Moving, Reading, Writing,
       ReadBlock, Begin, CountFor, Request, Command, DataCommand
<1>28. ASSUME NEW a \in Address, NEW n \in WriteSizes, WriteBlock(a, n) PROVE Fit'
  BY <1>28, EmmcAssumption, OrAssumption
     DEF Fit, CallReady, InitReady, Unanswering, Answering, Accepted, Moving, Reading, Writing,
       WriteBlock, Begin, CountFor, Request, Command, DataCommand
<1>29. CASE UNCHANGED vars
  <2>1. UNCHANGED <<at, cmd, request, i, reply, failed, INTERRUPT, powered, xfer, card>>
    BY <1>29 DEF vars, driver, host
  <2>2. Takes(cmd)' = Takes(cmd)
    BY <2>1, SameTakes
  <2> QED
    BY <2>1, <2>2 DEF Fit, CallReady, InitReady, Unanswering, Answering, Accepted
<1> QED
  BY <1>1, <1>2, <1>3, <1>4, <1>5, <1>6, <1>7, <1>8, <1>9, <1>10, <1>11, <1>12, <1>13, <1>14,
     <1>15, <1>16, <1>17, <1>18, <1>19, <1>20, <1>21, <1>22, <1>23, <1>24, <1>25, <1>26, <1>27,
     <1>28, <1>29 DEF Next, DriverStep, NewCall, HostStep


\* Health is an invariant: nothing emmc.c does brings a healthy card and its
\* host to where a command or a transfer fails.
LEMMA HealthInvariant == Spec => []Health
<1>1. Init => Health
  BY DEF Init, Health, Fit, Unanswering
<1>2. IInv /\ Health /\ [Next]_vars => Health'
  BY HealthStep
<1> QED
  BY <1>1, <1>2, Invariant, PTL DEF Spec

\* With a card that makes no mistake and has powered up by the last poll,
\* neither emmc_init nor a transfer of emmc_read_block or emmc_write_block
\* fails.
THEOREM HealthyCardWorks == Spec => []HealthyWorks
<1>1. Health => HealthyWorks
  BY DEF Health, Healthy, Fit, HealthyWorks
<1> QED
  BY <1>1, HealthInvariant, PTL

----------------------------------------------------------------------------
(* Writes of single blocks, whatever failed before. *)

\* The block of a write is on the card.
Written == store[request.addr] = Data(request, 0)

\* The host is waiting for the block, and will not end the transfer without it.
Ready == count > 0 /\ fifo = <<>> /\ xfer.dir # "read"

\* WriteComplete made inductive.  The bit for the end of a transfer may be left
\* from another call until the driver clears it before it puts the block; the
\* count may be another call's, but not 0 once the host has asked for the block.
Single == request.kind = "write" =>
    /\ request.n = 1
    /\ at \in {"send", "sent", "write_ready"} /\ "write_ready" \in INTERRUPT => Ready
    /\ at \in {"write_clear", "put"} => Ready
    /\ at = "put" => "data_done" \notin INTERRUPT
    /\ at = "done" =>
          /\ xfer.dir # "read"
          /\ xfer.dir = "write" =>
                \/ fifo = <<>> /\ Written
                \/ fifo = <<Data(request, 0)>> /\ xfer.addr = request.addr
          /\ "data_done" \in INTERRUPT => Written /\ xfer.dir = "none"
    /\ at = "idle" /\ reply = "OK" => Written /\ xfer.dir = "none" /\ pending = NoCommand

LEMMA SingleStep ==
    ASSUME WriteSizes \subseteq {1}, IInv, Single, [Next]_vars
    PROVE  Single'
<1> USE DEF Single
<1>0. TypeOK /\ Shape /\ Commands /\ Places
  BY DEF IInv
<1>1. CASE Clear
  BY <1>1 DEF Clear, GoTo, AllCleared
<1>2. CASE Send
  <2>1. /\ at = "send" /\ at' = "sent" /\ INTERRUPT' \in {INTERRUPT, INTERRUPT \cup {"error"}}
        /\ UNCHANGED <<request, reply, count, xfer, fifo, store>>
    BY <1>2 DEF Send, GoTo, Raise
  <2> QED
    BY <2>1 DEF Ready
<1>3. CASE CommandFails \/ GiveUp \/ InitFails \/ ResetFails
  <2>1. at' \in {"idle", "off"} /\ reply' = "ERR" /\ request' = request
    BY <1>3 DEF CommandFails, GiveUp, InitFails, ResetFails, Return
  <2> QED
    BY <2>1
<1>4. CASE DataPhase
  <2>1. /\ at = "sent" /\ at' = (IF request.kind = "read" THEN "read_ready" ELSE "write_ready")
        /\ UNCHANGED <<request, reply, INTERRUPT, count, xfer, fifo>>
    BY <1>4 DEF DataPhase, GoTo, host
  <2> QED
    BY <2>1 DEF Ready
<1>5. CASE Reset \/ InitGoesOn \/ InitDone
  <2>1. request.kind = "init" /\ request' = request
    BY <1>0, <1>5, KindShape
       DEF Reset, InitGoesOn, InitDone, Return, GoTo, Shape, InitCommand, Starting
  <2> QED
    BY <2>1
<1>6. CASE SeeReady \/ ClearReady \/ SeeNotReady \/ TakeBlock
  <2>1. request.kind = "read" /\ request' = request
    BY <1>0, <1>6, KindShape DEF SeeReady, ClearReady, SeeNotReady, TakeBlock, GoTo, Reading
  <2> QED
    BY <2>1
<1>7. CASE SeeWriteReady
  <2>1. /\ at = "write_ready" /\ at' = "write_clear" /\ "write_ready" \in INTERRUPT
        /\ UNCHANGED <<request, reply, INTERRUPT, count, xfer, fifo>>
    BY <1>7 DEF SeeWriteReady, GoTo, host
  <2> QED
    BY <2>1 DEF Ready
<1>8. CASE ClearWriteReady
  <2>1. /\ at = "write_clear" /\ at' = "put" /\ INTERRUPT' = {}
        /\ UNCHANGED <<request, reply, count, xfer, fifo>>
    BY <1>8 DEF ClearWriteReady, GoTo, AllCleared
  <2> QED
    BY <2>1 DEF Ready
<1>9. CASE PutBlock
  <2>1. /\ at = "put" /\ UNCHANGED <<request, xfer, INTERRUPT, count, store>>
        /\ at' = (IF i + 1 < request.n THEN "put" ELSE "done")
        /\ fifo' = IF xfer.dir = "write" THEN Append(fifo, Data(request, i)) ELSE fifo
    BY <1>9 DEF PutBlock, More
  <2>2. request.kind = "write" /\ request.n = 1 /\ i = 0 /\ Ready
    BY <1>0, <2>1, PutShape DEF TypeOK, Request
  <2>3. at' = "done" /\ "data_done" \notin INTERRUPT' /\ xfer'.dir # "read"
    BY <2>1, <2>2 DEF Ready
  <2>4. xfer.dir = "write" => fifo' = <<Data(request, 0)>> /\ xfer.addr = request.addr
    <3>1. Accepted /\ Len(fifo) = 0
      BY <2>1, <2>2 DEF Accepted, Moving, Writing, Ready
    <3>2. xfer.dir = "write" => xfer.addr = request.addr
      BY <1>0, <2>2, <3>1 DEF Places, TypeOK, Request, Address
    <3> QED
      BY <2>1, <2>2, <3>2 DEF Ready
  <2> QED
    BY <2>1, <2>3, <2>4
<1>10. CASE TransferDone
  <2>1. /\ at = "done" /\ at' = "idle" /\ "data_done" \in INTERRUPT
        /\ UNCHANGED <<request, xfer, pending, store>>
    BY <1>10 DEF TransferDone, Return, EndSeen, host
  <2>2. pending = NoCommand
    BY <1>0, <2>1 DEF Commands, Moving
  <2> QED
    BY <2>1, <2>2 DEF Written
<1>11. CASE Answer
  <2>1. /\ pending # NoCommand /\ UNCHANGED <<at, request, reply, count, fifo, store>>
        /\ INTERRUPT' = INTERRUPT \cup {"command_done"}
        /\ pending \in DataCommand => xfer'.dir = Direction(pending)
        /\ pending \notin DataCommand => xfer' = xfer
    BY <1>11 DEF Answer, Raise, driver
  <2>2. request.kind = "write" => at \in {"sent", "idle"} /\ ~(at = "idle" /\ reply = "OK")
    BY <1>0, <2>1, KindShape DEF Commands, Moving, Starting, Writing, Shape, ShapeOf
  <2>3. request.kind = "write" /\ at = "sent" => pending = "WRITE_MULTIPLE_BLOCK"
    BY <1>0, <2>1 DEF Commands, Shape, ShapeOf
  <2>4. request.kind = "write" /\ at = "sent" => xfer'.dir = "write"
    BY <2>1, <2>3 DEF DataCommand, Direction
  <2> QED
    BY <2>1, <2>2, <2>4 DEF Ready
<1>12. CASE Refuse \/ LoseCommand
  <2>1. /\ pending # NoCommand /\ UNCHANGED <<at, request, reply, count, fifo, xfer, store>>
        /\ INTERRUPT' = INTERRUPT \cup {"error"}
    BY <1>12 DEF Refuse, LoseCommand, Raise, driver
  <2> QED
    BY <2>1 DEF Ready, Written
<1>13. CASE HostReads
  <2>1. /\ xfer.dir = "read" /\ xfer'.dir = "read" /\ UNCHANGED <<at, request, reply, store>>
        /\ INTERRUPT' = INTERRUPT \cup {"read_ready"}
    BY <1>0, <1>13 DEF HostReads, Raise, driver, TypeOK
  <2> QED
    BY <2>1 DEF Ready
<1>14. CASE HostAsks
  <2>1. /\ xfer.dir = "write" /\ count > 0 /\ fifo = <<>> /\ xfer'.dir = "write"
        /\ xfer'.addr = xfer.addr /\ UNCHANGED <<at, request, reply, pending, count, fifo, store>>
        /\ INTERRUPT' = INTERRUPT \cup {"write_ready"}
    BY <1>0, <1>14 DEF HostAsks, Raise, driver, TypeOK
  <2> QED
    BY <2>1 DEF Ready, Written
<1>15. CASE HostWrites
  <2>1. /\ xfer.dir = "write" /\ fifo # <<>> /\ xfer.addr \in Address /\ xfer'.dir = "write"
        /\ store' = [store EXCEPT ![xfer.addr] = Head(fifo)] /\ fifo' = Tail(fifo)
        /\ UNCHANGED <<at, request, reply, pending, INTERRUPT>>
    BY <1>0, <1>15 DEF HostWrites, driver, TypeOK
  <2>2. CASE request.kind = "write" /\ at = "done"
    <3>1. fifo = <<Data(request, 0)>> /\ xfer.addr = request.addr
      BY <2>1, <2>2
    <3>2. fifo' = <<>> /\ store'[request.addr] = Data(request, 0)
      BY <1>0, <2>1, <3>1 DEF TypeOK
    <3> QED
      BY <2>1, <2>2, <3>2 DEF Written
  <2> QED
    BY <2>1, <2>2 DEF Ready
<1>16. CASE HostDone
  <2>1. /\ xfer.dir # "none" /\ count = 0 /\ fifo = <<>> /\ xfer'.dir = "none"
        /\ INTERRUPT' = INTERRUPT \cup {"data_done"}
        /\ UNCHANGED <<at, request, reply, pending, count, fifo, store>>
    BY <1>16 DEF HostDone, NoTransfer, Raise, driver
  <2>2. xfer.dir \in {"none", "read", "write"}
    BY <1>0 DEF TypeOK
  <2> QED
    BY <2>1, <2>2 DEF Ready, Written
<1>17. CASE HostAborts
  <2>1. /\ xfer.dir # "none" /\ fifo' = <<>> /\ xfer'.dir = "none"
        /\ INTERRUPT' = INTERRUPT \cup {"error"}
        /\ UNCHANGED <<at, request, reply, pending, count, store>>
    BY <1>17 DEF HostAborts, NoTransfer, Raise, driver
  <2> QED
    BY <2>1 DEF Ready, Written
<1>18. ASSUME NEW a \in Address, NEW n \in ReadSizes, ReadBlock(a, n)
       PROVE  Single'
  BY <1>18 DEF ReadBlock, Begin
<1>19. ASSUME NEW a \in Address, NEW n \in WriteSizes, WriteBlock(a, n)
       PROVE  Single'
  <2>1. request'.n = 1 /\ at' = "issue"
    BY <1>19 DEF WriteBlock, Begin
  <2> QED
    BY <2>1
<1>20. CASE UNCHANGED vars
  BY <1>20 DEF vars, driver, host, Ready, Written
<1> QED
  BY <1>1, <1>2, <1>3, <1>4, <1>5, <1>6, <1>7, <1>8, <1>9, <1>10, <1>11, <1>12, <1>13, <1>14,
     <1>15, <1>16, <1>17, <1>18, <1>19, <1>20
     DEF Next, DriverStep, NewCall, HostStep

\* A write that reports done has brought its block to the card, on cards of any
\* size and whatever calls before it have failed, been given up or left behind
\* in the host - if the driver is asked for single blocks, as fat.c asks.
THEOREM WritesComplete ==
    ASSUME WriteSizes \subseteq {1}
    PROVE  Spec => []WriteComplete
<1>1. Init => Single
  BY DEF Init, Single
<1>2. IInv /\ Single /\ [Next]_vars => Single'
  BY SingleStep
<1>3. IInv /\ Single => WriteComplete
  <2> SUFFICES ASSUME IInv, Single, at = "idle", reply = "OK", request.kind = "write",
                      NEW k \in 0 .. request.n - 1
               PROVE  store[request.addr + k] = Data(request, k)
    BY DEF WriteComplete
  <2>1. request.n = 1 /\ Written
    BY DEF Single
  <2>2. k = 0 /\ request.addr + k = request.addr
    BY <2>1 DEF IInv, TypeOK, Request, Address
  <2> QED
    BY <2>1, <2>2 DEF Written
<1> QED
  BY <1>1, <1>2, <1>3, Invariant, PTL DEF Spec
=============================================================================
