-------------------------------- MODULE Emmc --------------------------------
(***************************************************************************)
(* The SD card driver (drivers/emmc/emmc.c), a host controller and a card. *)
(* The driver runs one call at a time and polls; between any two of its    *)
(* register accesses the host and the card go on by themselves.            *)
(*                                                                         *)
(* The host and the card are external, modelled from how the driver uses   *)
(* them and from the specifications docs/emmc.md names: a command for data *)
(* is not executed while a transfer is in progress, and a write to the     *)
(* block count is ignored; a command is answered within the 2 ms for which *)
(* the driver sleeps; an aborted transfer empties the buffer of the host.  *)
(* A block is the address it was written for and a serial number.          *)
(***************************************************************************)
EXTENDS Integers, Sequences

CONSTANTS
    LAST,            \* the last block of the card
    MAX_COUNT,       \* the largest number of blocks BLOCK_SIZE_COUNT holds
    OrCounts(_, _),  \* | on it
    POWER_UP_TRIES,
    ReadSizes, WriteSizes,   \* the num_blocks of the callers
    MAX_WRITES,      \* bound: calls that write
    MAX_FAULTS,      \* bound: what goes wrong on the card
    MAX_SLOW         \* bound: polls before the slowest card has powered up

Address == 0 .. LAST
Count == 0 .. MAX_COUNT

ASSUME EmmcAssumption ==
    /\ LAST \in Nat /\ MAX_COUNT \in Nat
    /\ ReadSizes \subseteq Count \ {0} /\ WriteSizes \subseteq Count \ {0}
    /\ POWER_UP_TRIES \in Nat \ {0}
    /\ MAX_WRITES \in Nat /\ MAX_FAULTS \in Nat /\ MAX_SLOW \in Nat

ASSUME OrAssumption ==
    \A a, b \in Count : OrCounts(a, b) \in Count /\ b <= OrCounts(a, b) /\ OrCounts(0, b) = b

VARIABLES
    at,          \* where the driver stands in its call
    cmd,         \* the command it is about
    request,     \* the call
    i,           \* the loop counter: polls for power-up, or blocks moved
    buf,         \* the caller's buffer
    reply,       \* the result of the last call
    INTERRUPT,   \* the bits set in the register
    count,       \* the number of blocks in BLOCK_SIZE_COUNT
    pending,     \* the command the card has not answered yet
    ARGUMENT1,   \* its argument: the first block
    powered,     \* the power-up bit of the last response
    xfer,        \* the transfer the host is in
    fifo,        \* the host's buffer
    card,        \* the card's state; the polls it has seen and those it needs to power up
    store,       \* its blocks
    writes,      \* calls that wrote
    failed,      \* a call has failed
    faults       \* things that went wrong

driver == <<at, cmd, request, i, buf, reply, writes, failed>>
host == <<INTERRUPT, count, pending, ARGUMENT1, powered, xfer, fifo>>
vars == <<driver, host, card, store, faults>>

InitCommand == {"GO_IDLE_STATE", "SEND_IF_COND", "APP_CMD", "SD_SEND_OP_COND",
                "ALL_SEND_CID", "SEND_RELATIVE_ADDR", "SELECT_DESELECT_CARD"}
DataCommand == {"READ_MULTIPLE_BLOCK", "WRITE_MULTIPLE_BLOCK"}
Command == InitCommand \cup DataCommand
NoCommand == "none"

Block == [to : Address, no : Nat]
Garbage == [to |-> 0 - 1, no |-> 0]
Request == [kind : {"init", "read", "write"}, addr : Address, n : Count, no : Nat]
Bits == {"command_done", "data_done", "write_ready", "read_ready", "error"}
NoTransfer == [dir |-> "none", addr |-> 0, auto |-> FALSE, asked |-> FALSE]
CardState == {"IDLE", "READY", "IDENTIFICATION", "STANDBY", "TRANSMIT", "DATA", "RECEIVE"}

TypeOK ==
    /\ at \in {"off", "issue", "send", "sent", "read_ready", "clear", "drain", "take",
               "write_ready", "write_clear", "put", "done", "idle"}
    /\ cmd \in Command
    /\ request \in Request
    /\ i \in Nat
    /\ buf \in Seq(Block \cup {Garbage})
    /\ reply \in {"none", "OK", "ERR"}
    /\ INTERRUPT \subseteq Bits
    /\ count \in Count
    /\ pending \in Command \cup {NoCommand}
    /\ ARGUMENT1 \in Address
    /\ powered \in BOOLEAN
    /\ xfer \in [dir : {"none", "read", "write"}, addr : Nat, auto : BOOLEAN, asked : BOOLEAN]
    /\ fifo \in Seq(Block)
    /\ card \in [state : CardState, app : BOOLEAN, polls : Nat, slow : Nat]
    /\ store \in [Address -> Block]
    /\ writes \in Nat /\ failed \in BOOLEAN /\ faults \in Nat

\* Power on: emmc_init is called.
Init ==
    /\ at = "off" /\ cmd = "GO_IDLE_STATE" /\ i = 0 /\ buf = <<>> /\ reply = "none"
    /\ request = [kind |-> "init", addr |-> 0, n |-> 0, no |-> 0]
    /\ INTERRUPT = {} /\ count = 0 /\ pending = NoCommand /\ ARGUMENT1 = 0 /\ powered = FALSE
    /\ xfer = NoTransfer /\ fifo = <<>>
    /\ \E slow \in 0 .. MAX_SLOW : card = [state |-> "IDLE", app |-> FALSE, polls |-> 0, slow |-> slow]
    /\ store = [a \in Address |-> [to |-> a, no |-> 0]]
    /\ writes = 0 /\ failed = FALSE /\ faults = 0

----------------------------------------------------------------------------
(* A command: emmc_issue_command. *)

\* The command fields of a transfer: its direction, and that the host ends it
\* with CMD12 when it has counted the blocks.
Direction(c) == IF c = "READ_MULTIPLE_BLOCK" THEN "read"
                ELSE IF c = "WRITE_MULTIPLE_BLOCK" THEN "write" ELSE "none"

\* Mutant: the number of blocks is added to what the register holds.
AddedTo(c, n) == c + n

\* BLOCK_SIZE_COUNT |= num_blocks << 16, which a host in a transfer ignores.
CountFor(c, n) == OrCounts(c, n)

AutoCommand(c) == c \in DataCommand

Busy(c) == c \in DataCommand /\ xfer.dir # "none"

Raise(bits) == INTERRUPT' = INTERRUPT \cup bits

GoTo(place) == at' = place /\ UNCHANGED <<cmd, request, i, buf, reply, writes, failed>>

Return(place, result) ==
    /\ at' = place /\ reply' = result
    /\ failed' = (failed \/ result = "ERR")
    /\ UNCHANGED <<cmd, request, i, buf, writes>>

\* Mutant: the bits of the command before are left standing.
LeftStanding == INTERRUPT

AllCleared == {}

\* The bits are cleared, then the driver sleeps, then it writes the command.
Clear ==
    /\ at = "issue"
    /\ INTERRUPT' = AllCleared
    /\ GoTo("send")
    /\ UNCHANGED <<count, pending, ARGUMENT1, powered, xfer, fifo, card, store, faults>>

\* A host that is in a transfer refuses a command for another, or ignores it.
Send ==
    /\ at = "send"
    /\ \/ ~ Busy(cmd) /\ pending' = cmd /\ ARGUMENT1' = request.addr /\ UNCHANGED INTERRUPT
       \/ Busy(cmd) /\ UNCHANGED <<pending, ARGUMENT1, INTERRUPT>>
       \/ Busy(cmd) /\ UNCHANGED <<pending, ARGUMENT1>> /\ Raise({"error"})
    /\ GoTo("sent")
    /\ UNCHANGED <<count, powered, xfer, fifo, card, store, faults>>

\* Some bit is set, and it is not the one for the end of a command.
CommandFails ==
    /\ at = "sent" /\ INTERRUPT # {} /\ "command_done" \notin INTERRUPT
    /\ Return(IF request.kind = "init" THEN "off" ELSE "idle", "ERR")
    /\ UNCHANGED <<host, card, store, faults>>

----------------------------------------------------------------------------
(* emmc_init.  When it fails, nothing of the card works. *)

\* The host does not come out of the reset, there is no card, or the clock is
\* not stable after a millisecond.
ResetFails ==
    /\ at = "off" /\ reply = "none" /\ faults < MAX_FAULTS
    /\ faults' = faults + 1
    /\ Return("off", "ERR")
    /\ UNCHANGED <<host, card, store>>

Reset ==
    /\ at = "off" /\ reply = "none"
    /\ INTERRUPT' = {}
    /\ GoTo("issue")
    /\ UNCHANGED <<count, pending, ARGUMENT1, powered, xfer, fifo, card, store, faults>>

\* Mutant: the last poll does not count.
PollsLeftShort(n) == n + 1 < POWER_UP_TRIES

PollsLeft(n) == n < POWER_UP_TRIES

\* The command that follows one that succeeded; the card is asked again and
\* again until it has powered up, ten times.
NextCommand(c, up) ==
    CASE c = "GO_IDLE_STATE" -> "SEND_IF_COND"
      [] c = "SEND_IF_COND" -> "APP_CMD"
      [] c = "APP_CMD" -> "SD_SEND_OP_COND"
      [] c = "SD_SEND_OP_COND" -> IF up THEN "ALL_SEND_CID" ELSE "APP_CMD"
      [] c = "ALL_SEND_CID" -> "SEND_RELATIVE_ADDR"
      [] c = "SEND_RELATIVE_ADDR" -> "SELECT_DESELECT_CARD"

\* BLOCK_SIZE_COUNT = 0x200 comes before the card is selected; so does the
\* fast clock, which may not become stable.
InitGoesOn ==
    /\ at = "sent" /\ "command_done" \in INTERRUPT
    /\ cmd \in InitCommand \ {"SELECT_DESELECT_CARD"}
    /\ LET polled == IF cmd = "SD_SEND_OP_COND" THEN i + 1 ELSE i
       IN /\ cmd = "SD_SEND_OP_COND" => powered \/ PollsLeft(polled)
          /\ i' = polled
    /\ cmd' = NextCommand(cmd, powered)
    /\ at' = "issue"
    /\ count' = IF cmd = "SEND_RELATIVE_ADDR" THEN 0 ELSE count
    /\ UNCHANGED <<request, buf, reply, writes, failed, INTERRUPT, pending, ARGUMENT1, powered, xfer, fifo,
                   card, store, faults>>

\* The card has not powered up at the last poll, or the clock fails.
InitFails ==
    /\ at = "sent" /\ "command_done" \in INTERRUPT
    /\ \/ /\ cmd = "SD_SEND_OP_COND" /\ ~ powered /\ ~ PollsLeft(i + 1)
          /\ UNCHANGED faults
       \/ /\ cmd \in {"SEND_IF_COND", "SEND_RELATIVE_ADDR"}
          /\ faults < MAX_FAULTS /\ faults' = faults + 1
    /\ Return("off", "ERR")
    /\ UNCHANGED <<host, card, store>>

InitDone ==
    /\ at = "sent" /\ "command_done" \in INTERRUPT /\ cmd = "SELECT_DESELECT_CARD"
    /\ Return("idle", "OK")
    /\ UNCHANGED <<host, card, store, faults>>

----------------------------------------------------------------------------
(* emmc_read_block and emmc_write_block. *)

Begin(kind, a, n) ==
    /\ at = "idle" /\ pending = NoCommand
    /\ a + n - 1 \in Address
    /\ request' = [kind |-> kind, addr |-> a, n |-> n, no |-> writes + 1]
    /\ cmd' = IF kind = "read" THEN "READ_MULTIPLE_BLOCK" ELSE "WRITE_MULTIPLE_BLOCK"
    /\ at' = "issue" /\ i' = 0 /\ buf' = <<>> /\ reply' = "none"
    /\ count' = IF xfer.dir = "none" THEN CountFor(count, n) ELSE count
    /\ UNCHANGED <<failed, INTERRUPT, pending, ARGUMENT1, powered, xfer, fifo, card, store, faults>>

ReadBlock(a, n) == Begin("read", a, n) /\ UNCHANGED writes

WriteBlock(a, n) == writes < MAX_WRITES /\ Begin("write", a, n) /\ writes' = writes + 1

\* The block that a write has for the k-th place.
Data(r, k) == [to |-> r.addr + k, no |-> r.no]

DataPhase ==
    /\ at = "sent" /\ "command_done" \in INTERRUPT /\ cmd \in DataCommand
    /\ GoTo(IF request.kind = "read" THEN "read_ready" ELSE "write_ready")
    /\ UNCHANGED <<host, card, store, faults>>

BlockSeen == "read_ready" \in INTERRUPT

\* For each block: wait until it is there, clear the bits, wait until they are
\* seen clear, clear them again and take the words.
SeeReady ==
    /\ at = "read_ready" /\ BlockSeen
    /\ GoTo("clear")
    /\ UNCHANGED <<host, card, store, faults>>

ClearReady ==
    /\ at = "clear"
    /\ INTERRUPT' = AllCleared
    /\ GoTo("drain")
    /\ UNCHANGED <<count, pending, ARGUMENT1, powered, xfer, fifo, card, store, faults>>

SeeNotReady ==
    /\ at = "drain" /\ "read_ready" \notin INTERRUPT
    /\ GoTo("take")
    /\ UNCHANGED <<host, card, store, faults>>

More(n) == n < request.n

\* The second clear and the words of the block in one step: the block is in the
\* host's buffer from before the one until after the other, and a host with a
\* full buffer waits. Only after a failure may the buffer be empty here; a bit
\* raised between the two is then left out.
TakeBlock ==
    /\ at = "take"
    /\ INTERRUPT' = AllCleared
    /\ buf' = Append(buf, IF fifo = <<>> \/ xfer.dir # "read" THEN Garbage ELSE Head(fifo))
    /\ fifo' = IF fifo = <<>> \/ xfer.dir # "read" THEN fifo ELSE Tail(fifo)
    /\ i' = i + 1
    /\ at' = IF More(i + 1) THEN "read_ready" ELSE "done"
    /\ UNCHANGED <<cmd, request, reply, writes, failed, count, pending, ARGUMENT1, powered, xfer, card, store, faults>>

SeeWriteReady ==
    /\ at = "write_ready" /\ "write_ready" \in INTERRUPT
    /\ GoTo("write_clear")
    /\ UNCHANGED <<host, card, store, faults>>

ClearWriteReady ==
    /\ at = "write_clear"
    /\ INTERRUPT' = AllCleared
    /\ GoTo("put")
    /\ UNCHANGED <<count, pending, ARGUMENT1, powered, xfer, fifo, card, store, faults>>

\* The words of one block; the host is taken to have room for them.
PutBlock ==
    /\ at = "put"
    /\ fifo' = IF xfer.dir = "write" THEN Append(fifo, Data(request, i)) ELSE fifo
    /\ i' = i + 1
    /\ at' = IF More(i + 1) THEN "put" ELSE "done"
    /\ UNCHANGED <<cmd, request, buf, reply, writes, failed, INTERRUPT, count, pending, ARGUMENT1, powered, xfer,
                   card, store, faults>>

\* Mutant: the driver does not look for the end of the transfer.
EndUnseen == TRUE

EndSeen == "data_done" \in INTERRUPT

TransferDone ==
    /\ at = "done" /\ EndSeen
    /\ Return("idle", "OK")
    /\ UNCHANGED <<host, card, store, faults>>

\* The host goes on only when the driver does.
HostWaits ==
    \/ xfer.dir = "none"
    \/ xfer.dir = "read" /\ fifo # <<>>
    \/ xfer.dir = "write" /\ count > 0 /\ fifo = <<>> /\ xfer.asked

\* The last of the polls, which the driver counts to half a second: nothing
\* more can come, or a slow card may still finish.
GiveUp ==
    /\ at = "done" /\ "data_done" \notin INTERRUPT /\ pending = NoCommand
    /\ \/ HostWaits /\ UNCHANGED faults
       \/ ~ HostWaits /\ faults < MAX_FAULTS /\ faults' = faults + 1
    /\ Return("idle", "ERR")
    /\ UNCHANGED <<host, card, store>>

----------------------------------------------------------------------------
(* The host controller and the card (external). *)

\* The states in which the card takes a command, and where it leads.
Takes(c) ==
    CASE c \in {"SEND_IF_COND", "APP_CMD"} -> {"IDLE"}
      [] c = "SD_SEND_OP_COND" -> IF card.app THEN {"IDLE"} ELSE {}
      [] c = "ALL_SEND_CID" -> {"READY"}
      [] c = "SEND_RELATIVE_ADDR" -> {"IDENTIFICATION", "STANDBY"}
      [] c = "SELECT_DESELECT_CARD" -> {"STANDBY"}
      [] c \in DataCommand -> {"TRANSMIT"}
      [] c = "GO_IDLE_STATE" -> CardState

After(c) ==
    CASE c \in {"GO_IDLE_STATE", "SEND_IF_COND", "APP_CMD"} -> "IDLE"
      [] c = "SD_SEND_OP_COND" -> IF card.polls >= card.slow THEN "READY" ELSE "IDLE"
      [] c = "ALL_SEND_CID" -> "IDENTIFICATION"
      [] c = "SEND_RELATIVE_ADDR" -> "STANDBY"
      [] c = "SELECT_DESELECT_CARD" -> "TRANSMIT"
      [] c = "READ_MULTIPLE_BLOCK" -> "DATA"
      [] c = "WRITE_MULTIPLE_BLOCK" -> "RECEIVE"

Acted(c) ==
    [card EXCEPT !.state = After(c), !.app = (c = "APP_CMD"),
                 !.polls = IF c = "SD_SEND_OP_COND" THEN @ + 1 ELSE @]

\* A command is executed; a transfer starts.
Answer ==
    /\ pending # NoCommand
    /\ card.state \in Takes(pending)
    /\ card' = Acted(pending)
    /\ powered' = (pending = "SD_SEND_OP_COND" /\ card.polls >= card.slow)
    /\ xfer' = IF pending \in DataCommand
               THEN [dir |-> Direction(pending), addr |-> ARGUMENT1,
                     auto |-> AutoCommand(pending), asked |-> FALSE]
               ELSE xfer
    /\ pending' = NoCommand
    /\ Raise({"command_done"})
    /\ UNCHANGED <<driver, count, ARGUMENT1, fifo, store, faults>>

\* The card does not take the command in its state.
Refuse ==
    /\ pending # NoCommand /\ card.state \notin Takes(pending)
    /\ pending' = NoCommand
    /\ Raise({"error"})
    /\ UNCHANGED <<driver, count, ARGUMENT1, powered, xfer, fifo, card, store, faults>>

\* The command or its response is lost.
LoseCommand ==
    /\ pending # NoCommand /\ faults < MAX_FAULTS
    /\ card' = card \/ (card.state \in Takes(pending) /\ card' = Acted(pending))
    /\ faults' = faults + 1
    /\ pending' = NoCommand
    /\ Raise({"error"})
    /\ UNCHANGED <<driver, count, ARGUMENT1, powered, xfer, fifo, store>>

\* A block comes in from the card, when the one before has been taken.
HostReads ==
    /\ xfer.dir = "read" /\ count > 0 /\ fifo = <<>> /\ xfer.addr \in Address
    /\ fifo' = <<store[xfer.addr]>>
    /\ xfer' = [xfer EXCEPT !.addr = @ + 1]
    /\ count' = count - 1
    /\ Raise({"read_ready"})
    /\ UNCHANGED <<driver, pending, ARGUMENT1, powered, card, store, faults>>

HostAsks ==
    /\ xfer.dir = "write" /\ count > 0 /\ fifo = <<>> /\ ~ xfer.asked
    /\ xfer' = [xfer EXCEPT !.asked = TRUE]
    /\ Raise({"write_ready"})
    /\ UNCHANGED <<driver, count, pending, ARGUMENT1, powered, fifo, card, store, faults>>

\* A block goes out to the card.
HostWrites ==
    /\ xfer.dir = "write" /\ count > 0 /\ fifo # <<>> /\ xfer.addr \in Address
    /\ store' = [store EXCEPT ![xfer.addr] = Head(fifo)]
    /\ fifo' = Tail(fifo)
    /\ xfer' = [xfer EXCEPT !.addr = @ + 1, !.asked = FALSE]
    /\ count' = count - 1
    /\ UNCHANGED <<driver, INTERRUPT, pending, ARGUMENT1, powered, card, faults>>

\* All blocks are through; CMD12 ends the transfer.
HostDone ==
    /\ xfer.dir # "none" /\ count = 0 /\ fifo = <<>>
    /\ xfer' = NoTransfer
    /\ card' = IF xfer.auto THEN [card EXCEPT !.state = "TRANSMIT"] ELSE card
    /\ Raise({"data_done"})
    /\ UNCHANGED <<driver, count, pending, ARGUMENT1, powered, fifo, store, faults>>

\* The transfer is aborted: something fails, or the count leads past the card.
HostAborts ==
    /\ xfer.dir # "none"
    /\ \/ faults < MAX_FAULTS /\ faults' = faults + 1
       \/ count > 0 /\ xfer.addr \notin Address /\ UNCHANGED faults
    /\ xfer' = NoTransfer /\ fifo' = <<>>
    /\ card' = card \/ card' = [card EXCEPT !.state = "TRANSMIT"]
    /\ Raise({"error"})
    /\ UNCHANGED <<driver, count, pending, ARGUMENT1, powered, store>>

----------------------------------------------------------------------------
DriverStep ==
    \/ Clear \/ Send \/ CommandFails \/ DataPhase
    \/ ResetFails \/ Reset \/ InitGoesOn \/ InitFails \/ InitDone
    \/ SeeReady \/ ClearReady \/ SeeNotReady \/ TakeBlock
    \/ SeeWriteReady \/ ClearWriteReady \/ PutBlock
    \/ TransferDone \/ GiveUp

NewCall ==
    \E a \in Address :
       \/ \E n \in ReadSizes : ReadBlock(a, n)
       \/ \E n \in WriteSizes : WriteBlock(a, n)

HostStep ==
    \/ Answer \/ Refuse \/ LoseCommand
    \/ HostReads \/ HostAsks \/ HostWrites \/ HostDone \/ HostAborts

Next == DriverStep \/ NewCall \/ HostStep

Spec == Init /\ [][Next]_vars

\* The driver polls on, and a host that has something to do does it.
FairSpec == Spec /\ WF_vars(DriverStep) /\ WF_vars(HostStep)
============================================================================
