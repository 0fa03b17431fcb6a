--------------------------- MODULE EmmcProperties ---------------------------
(***************************************************************************)
(* What the driver of the SD card promises.                                *)
(***************************************************************************)
EXTENDS Emmc

Resting == at \in {"idle", "off"}

\* The file system has called and not been answered.
Calling == ~ Resting /\ request.kind # "init"

\* The blocks of the call, and what the host holds of a write: they may still
\* reach the card.
Meant == IF Calling /\ request.kind = "write" THEN {Data(request, k) : k \in 0 .. request.n - 1} ELSE {}
Held == IF xfer.dir = "write" THEN {fifo[k] : k \in 1 .. Len(fifo)} ELSE {}
Unwritten == Meant \cup Held

\* What the file system sees of the driver.
Asked == IF Calling THEN request ELSE [kind |-> "none", addr |-> 0, n |-> 0, no |-> 0]
Shown == IF at = "idle" /\ reply = "OK" /\ request.kind = "read" THEN buf ELSE <<>>
Told == IF request.kind = "init" THEN "none" ELSE reply
Broken == request.kind # "init" /\ failed

Device == INSTANCE BlockDevice WITH
    request <- Asked, open <- Unwritten, buf <- Shown, reply <- Told, failed <- Broken

\* Until a call fails, what a successful call read or wrote is the card's; and
\* whatever is lost, aborted or late, no block of the card changes but to what
\* a call meant for it (emmc_read_block, emmc_write_block).
DeviceKept == Device!Spec

\* A write of one block that reports done is on the card, after any failures
\* of the calls before it (emmc_finish_write).
WriteComplete ==
    at = "idle" /\ reply = "OK" /\ request.kind = "write" =>
        \A k \in 0 .. request.n - 1 : store[request.addr + k] = Data(request, k)

\* With a card that makes no mistake and has powered up by the last poll,
\* neither emmc_init nor any transfer fails.
HealthyWorks == faults = 0 /\ card.slow < POWER_UP_TRIES => reply # "ERR"

\* docs/emmc.md:33: "we continuously poll the card by sending SD_SEND_OP_COND
\* until power up is complete".  Without a fault emmc_init does not fail.
CardComesUp == faults = 0 /\ request.kind = "init" => reply # "ERR"

\* The polling loops of the driver end, unless something goes wrong: they have
\* no timeout but for the end of a transfer.
CallsReturn == ~ Resting ~> Resting \/ faults > 0
=============================================================================
