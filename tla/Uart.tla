-------------------------------- MODULE Uart --------------------------------
(***************************************************************************)
(* The mini-UART driver (drivers/uart/uart.c): two ring buffers shared by  *)
(* the interrupt handler and, with interrupts enabled, the kernel's calls  *)
(* of uart_print and uart_read.  Nothing locks them and the build does not *)
(* optimise, so a call is split where it loads or stores a field the       *)
(* handler changes; the handler runs with interrupts masked, in one step.  *)
(*                                                                         *)
(* A byte is its number in the order of printing or typing.  Left out: the *)
(* register set-up of uart_init, empty messages, and the image-loading     *)
(* states, which are entered only by uart_handle_command, and nothing      *)
(* calls that, or by a byte put so far behind the buffer that it hits the  *)
(* field state: MAX_AHEAD stands for typists who are not that far ahead.   *)
(***************************************************************************)
EXTENDS Integers, Sequences

CONSTANTS
    UART_TX_BUFFER_SIZE,
    UART_RX_BUFFER_SIZE,
    MAX_PRINTED,     \* bound: bytes printed in a behaviour
    MAX_TYPED,       \* bound: bytes typed in a behaviour
    READ_LENGTHS,    \* bound: the lengths of reads
    MAX_AHEAD        \* bound: the typist waits while this many bytes are unread

ASSUME UartAssumption ==
    /\ UART_TX_BUFFER_SIZE \in Nat \ {0} /\ UART_RX_BUFFER_SIZE \in Nat \ {0}
    /\ MAX_PRINTED \in Nat /\ MAX_TYPED \in Nat /\ MAX_AHEAD \in Nat

ASSUME ReadAssumption == READ_LENGTHS \subseteq 1 .. UART_RX_BUFFER_SIZE - 1

TxIndex == 0 .. UART_TX_BUFFER_SIZE - 1
RxIndex == 0 .. UART_RX_BUFFER_SIZE - 1
Empty == 0     \* what uart_init fills both buffers with
WORD == 4 * UART_RX_BUFFER_SIZE   \* bound: rx_size counts modulo 2^32

VARIABLES
    tx_buf, tx_indx, tx_size,
    tx_irq,        \* the transmit bit of MINI_UART_IRQ_ENABLE
    printer,       \* uart_print: where it is, its arguments and locals
    printed,       \* bytes handed to uart_print in calls that have returned
    sent,          \* what went out on the wire
    raced,         \* a byte was sent between a load and the store it is for
    rx_buf, rx_indx, rx_size,
    reader,        \* uart_read, likewise
    typed,         \* bytes received
    got,           \* what uart_read has delivered, until it is disturbed
    queued,        \* the lengths of the reads in the kernel's read queue
    disturbed      \* a read left bytes behind, or a byte came in its middle

tx == <<tx_buf, tx_indx, tx_size, tx_irq, printer, printed, sent, raced>>
rx == <<rx_buf, rx_indx, rx_size, reader, typed, got, queued, disturbed>>
vars == <<tx, rx>>

\* at: idle, spin (for room), indx and size (the two loads of an element's
\* place), load and store (of tx_size += len), enable; of a read: front and
\* wrap (the load and the store of line 180), load and store (of rx_size -= len).
Printer == [at : {"idle", "spin", "indx", "size", "load", "store", "enable"},
            len : 0 .. MAX_PRINTED, i : 0 .. MAX_PRINTED, local : Nat]
Reader == [at : {"idle", "front", "wrap", "load", "store"}, len : RxIndex, local : Int]

IdlePrinter == [at |-> "idle", len |-> 0, i |-> 0, local |-> 0]
IdleReader == [at |-> "idle", len |-> 0, local |-> 0]

TypeOK ==
    /\ tx_buf \in [TxIndex -> 0 .. MAX_PRINTED] /\ tx_indx \in TxIndex
    /\ tx_size \in 0 .. UART_TX_BUFFER_SIZE
    /\ tx_irq \in BOOLEAN /\ raced \in BOOLEAN
    /\ printer \in Printer /\ printed \in 0 .. MAX_PRINTED
    /\ sent \in Seq(0 .. MAX_PRINTED)
    /\ rx_buf \in [RxIndex -> 0 .. MAX_TYPED] /\ rx_indx \in RxIndex
    /\ rx_size \in 0 .. WORD - 1
    /\ reader \in Reader /\ typed \in 0 .. MAX_TYPED
    /\ got \in Seq(0 .. MAX_TYPED) /\ queued \in SUBSET RxIndex
    /\ disturbed \in BOOLEAN

Init ==
    /\ tx_buf = [k \in TxIndex |-> Empty] /\ tx_indx = 0 /\ tx_size = 0
    /\ tx_irq = FALSE /\ raced = FALSE
    /\ printer = IdlePrinter /\ printed = 0 /\ sent = <<>>
    /\ rx_buf = [k \in RxIndex |-> Empty] /\ rx_indx = 0 /\ rx_size = 0
    /\ reader = IdleReader /\ typed = 0 /\ got = <<>> /\ queued = {} /\ disturbed = FALSE

----------------------------------------------------------------------------
(* uart_print. *)

\* One kernel: it does not print while it reads.  A message may be longer than
\* the ring.
UartPrint(len) ==
    /\ printer.at = "idle" /\ reader.at = "idle"
    /\ printed + len <= MAX_PRINTED
    /\ printer' = [IdlePrinter EXCEPT !.at = "spin", !.len = len]
    /\ UNCHANGED <<tx_buf, tx_indx, tx_size, tx_irq, printed, sent, raced, rx>>

\* Mutant: one byte too many.
RoomOffByOne(len) == tx_size + len <= UART_TX_BUFFER_SIZE + 1

Room(len) == tx_size + len <= UART_TX_BUFFER_SIZE

NextElement(i) == IF i < printer.len THEN "indx" ELSE "load"

PrintSpin ==
    /\ printer.at = "spin"
    /\ Room(printer.len)
    /\ printer' = [printer EXCEPT !.at = NextElement(0)]
    /\ UNCHANGED <<tx_buf, tx_indx, tx_size, tx_irq, printed, sent, raced, rx>>

PrintIndx ==
    /\ printer.at = "indx"
    /\ printer' = [printer EXCEPT !.at = "size", !.local = printer.i + tx_indx]
    /\ UNCHANGED <<tx_buf, tx_indx, tx_size, tx_irq, printed, sent, raced, rx>>

\* Mutant: the bytes waiting are not skipped.
PlaceAtStart(sum) == sum % UART_TX_BUFFER_SIZE

\* tx_buf[(i + tx_indx + tx_size) % UART_TX_BUFFER_SIZE]
Place(sum) == (sum + tx_size) % UART_TX_BUFFER_SIZE

PrintByte ==
    /\ printer.at = "size"
    /\ tx_buf' = [tx_buf EXCEPT ![Place(printer.local)] = printed + printer.i + 1]
    /\ printer' = [printer EXCEPT !.at = NextElement(printer.i + 1), !.i = @ + 1]
    /\ UNCHANGED <<tx_indx, tx_size, tx_irq, printed, sent, raced, rx>>

PrintLoad ==
    /\ printer.at = "load"
    /\ printer' = [printer EXCEPT !.at = "store", !.local = tx_size]
    /\ UNCHANGED <<tx_buf, tx_indx, tx_size, tx_irq, printed, sent, raced, rx>>

\* Mutant: the bytes already waiting are forgotten.
SumForgets(local, len) == len

Sum(local, len) == local + len

PrintStore ==
    /\ printer.at = "store"
    /\ tx_size' = Sum(printer.local, printer.len)
    /\ printer' = [printer EXCEPT !.at = "enable"]
    /\ UNCHANGED <<tx_buf, tx_indx, tx_irq, printed, sent, raced, rx>>

PrintEnable ==
    /\ printer.at = "enable"
    /\ tx_irq' = TRUE
    /\ printer' = IdlePrinter
    /\ printed' = printed + printer.len
    /\ UNCHANGED <<tx_buf, tx_indx, tx_size, sent, raced, rx>>

----------------------------------------------------------------------------
(* The transmit interrupt. *)

\* Mutant: the ring does not wrap.
TxAdvanceUnwrapped == tx_indx + 1

TxAdvance == (tx_indx + 1) % UART_TX_BUFFER_SIZE

Transmit ==
    /\ tx_irq /\ tx_size > 0
    /\ sent' = Append(sent, tx_buf[tx_indx])
    /\ tx_indx' = TxAdvance
    /\ tx_size' = tx_size - 1
    /\ raced' = (raced \/ printer.at \in {"size", "store"})
    /\ UNCHANGED <<tx_buf, tx_irq, printer, printed, rx>>

\* Mutant: stops one byte early.
DrainedEarly == tx_size <= 1

Drained == tx_size = 0

\* A transmit interrupt with nothing to send turns itself off.
TransmitOff ==
    /\ tx_irq /\ Drained
    /\ tx_irq' = FALSE
    /\ UNCHANGED <<tx_buf, tx_indx, tx_size, printer, printed, sent, raced, rx>>

----------------------------------------------------------------------------
(* The receive interrupt and uart_read. *)

\* What uart_read makes of rx_indx.
IndexAfter(size) == (size + 1) % UART_RX_BUFFER_SIZE

\* Mutant: starts one byte late.
FrontLate(buf, len) ==
    [k \in 1 .. len |-> IF rx_indx + k \in RxIndex THEN buf[rx_indx + k] ELSE Empty]

\* The bytes uart_read copies, without a wrap; past the buffer lies no byte.
Front(buf, len) ==
    [k \in 1 .. len |-> IF rx_indx + k - 1 \in RxIndex
                        THEN buf[rx_indx + k - 1] ELSE Empty]

Deliver(bytes) == got' = IF disturbed' THEN got ELSE got \o bytes

\* The byte goes behind the unread ones, without a wrap; past the buffer lie
\* rx_indx and rx_size.  The handler then has kernel_read_queue_update serve a
\* queued read that the count satisfies, which stays queued.
Receive ==
    /\ typed < MAX_TYPED /\ rx_size < MAX_AHEAD
    /\ typed' = typed + 1
    /\ LET place == rx_indx + rx_size
           size == (rx_size + 1) % UART_RX_BUFFER_SIZE
           served == {len \in queued : len <= size}
       IN \/ /\ place \in RxIndex
             /\ rx_buf' = [rx_buf EXCEPT ![place] = typed + 1]
             /\ \/ /\ served = {}
                   /\ rx_size' = size
                   /\ disturbed' = (disturbed \/ reader.at # "idle")
                   /\ UNCHANGED <<rx_indx, got>>
                \/ \E len \in served :
                   /\ rx_indx' = IndexAfter(size)
                   /\ rx_size' = size - len
                   /\ disturbed' = (disturbed \/ reader.at # "idle" \/ len < size)
                   /\ Deliver(Front(rx_buf', len))
          \/ /\ place \notin RxIndex
             /\ rx_indx' \in RxIndex /\ rx_size' \in RxIndex
             /\ UNCHANGED <<rx_buf, got, disturbed>>
    /\ UNCHANGED <<tx, reader, queued>>

\* The kernel's read of len bytes: those that are there are taken ...
Read(len) ==
    /\ printer.at = "idle" /\ reader.at = "idle"
    /\ len <= rx_size
    /\ reader' = [at |-> "front", len |-> len, local |-> 0]
    /\ disturbed' = (disturbed \/ len < rx_size)
    /\ Deliver(Front(rx_buf, len))
    /\ UNCHANGED <<tx, rx_buf, rx_indx, rx_size, typed, queued>>

\* ... and for too few the read is queued (kernel_read).
ReadQueued(len) ==
    /\ printer.at = "idle" /\ reader.at = "idle"
    /\ len > rx_size
    /\ queued' = queued \cup {len}
    /\ UNCHANGED <<tx, rx_buf, rx_indx, rx_size, reader, typed, got, disturbed>>

\* rx_indx follows from the number of bytes that were there, a byte that comes
\* between the load and the store included or not ...
ReadFront ==
    /\ reader.at = "front"
    /\ reader' = [reader EXCEPT !.at = "wrap", !.local = rx_size]
    /\ UNCHANGED <<tx, rx_buf, rx_indx, rx_size, typed, got, queued, disturbed>>

ReadWrap ==
    /\ reader.at = "wrap"
    /\ rx_indx' = IndexAfter(reader.local)
    /\ reader' = [reader EXCEPT !.at = "load"]
    /\ UNCHANGED <<tx, rx_buf, rx_size, typed, got, queued, disturbed>>

\* ... and the bytes read are subtracted from it.
ReadLoad ==
    /\ reader.at = "load"
    /\ reader' = [reader EXCEPT !.at = "store", !.local = rx_size]
    /\ UNCHANGED <<tx, rx_buf, rx_indx, rx_size, typed, got, queued, disturbed>>

ReadStore ==
    /\ reader.at = "store"
    /\ rx_size' = (reader.local - reader.len) % WORD
    /\ reader' = IdleReader
    /\ UNCHANGED <<tx, rx_buf, rx_indx, typed, got, queued, disturbed>>

----------------------------------------------------------------------------
PrintStep == PrintSpin \/ PrintIndx \/ PrintByte \/ PrintLoad \/ PrintStore \/ PrintEnable
TransmitInterrupt == Transmit \/ TransmitOff

Next ==
    \/ \E len \in 1 .. MAX_PRINTED : UartPrint(len)
    \/ PrintStep
    \/ TransmitInterrupt
    \/ Receive
    \/ \E len \in READ_LENGTHS : Read(len) \/ ReadQueued(len)
    \/ ReadFront \/ ReadWrap \/ ReadLoad \/ ReadStore

Spec == Init /\ [][Next]_vars

\* The wire takes the bytes, and the kernel runs on in uart_print.
FairSpec == Spec /\ WF_vars(TransmitInterrupt) /\ WF_vars(PrintStep)

----------------------------------------------------------------------------
(* Properties. *)

\* The bytes in the order printed, or typed.
InOrder(bytes) == \A k \in 1 .. Len(bytes) : bytes[k] = k

\* A print never overruns the ring, although it checks for room long before it
\* takes it (uart_print): meanwhile the interrupt only makes more room.
TxFits == tx_size <= UART_TX_BUFFER_SIZE

\* The wakeup is not lost: whatever waits outside a print, the interrupt that
\* will send it is on, although the handler turns it off on its own
\* (uart_print, uart_irq_handler).
TxWakeup == printer.at = "idle" /\ tx_size > 0 => tx_irq

\* The wire shows what was printed, in order, at any speed and for a message
\* that waits for room, as long as no byte is sent between the two loads that
\* place an element, or between the load and the store of tx_size.
SentInOrder == ~raced => InOrder(sent) /\ Len(sent) <= printed + printer.len

\* A race only ever makes the driver send too much: when all is quiet at least
\* as many bytes went out as were printed (uart_print, uart_irq_handler).
SentEnough == printer.at = "idle" => Len(sent) + tx_size >= printed

\* Reads return the bytes in the order typed, also for a typist who is ahead,
\* as long as every read takes all there is and no byte arrives in the middle
\* of one.  The buffer needs more than two places for each byte he may be ahead:
\* where the next bytes go depends on rx_size instead of len (uart_irq_handler,
\* uart_read).
ReadInOrder == ~disturbed => InOrder(got)

\* The print of a message that the ring has room for ends, also when it has to
\* wait for that, and everything printed is sent in the end (uart_print,
\* uart_irq_handler).  kernel_write passes messages of any length; the print of
\* one that is longer than the ring never ends.
PrintEnds ==
    /\ printer.at = "spin" /\ printer.len <= UART_TX_BUFFER_SIZE ~> printer.at = "idle"
    /\ tx_size > 0 ~> tx_size = 0
============================================================================
