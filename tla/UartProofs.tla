----------------------------- MODULE UartProofs -----------------------------
(***************************************************************************)
(* The UART driver for rings of every size, prints of every length, also   *)
(* too long for them, and a typist, the interrupt between any two loads    *)
(* and stores.                                                             *)
(***************************************************************************)
EXTENDS Uart, SequenceTheorems, TLAPS

PrinterAt == {"idle", "spin", "indx", "size", "load", "store", "enable"}
PrinterType == [at : PrinterAt, len : Nat, i : Nat, local : Nat]

TxTypes ==
    /\ tx_buf \in [TxIndex -> Nat] /\ tx_indx \in TxIndex
    /\ tx_size \in Nat /\ tx_irq \in BOOLEAN
    /\ printer \in PrinterType
    /\ printed \in Nat /\ sent \in Seq(Nat)

\* What a print has found out stays true while it goes on: the interrupt only
\* makes tx_size smaller than it was when it was looked at or loaded.
TxInv ==
    /\ TxTypes
    /\ tx_size <= UART_TX_BUFFER_SIZE
    /\ printer.at \in {"indx", "size", "load"} => tx_size + printer.len <= UART_TX_BUFFER_SIZE
    /\ printer.at = "store" => /\ tx_size <= printer.local
                               /\ printer.local + printer.len <= UART_TX_BUFFER_SIZE
    /\ printer.at # "enable" /\ tx_size > 0 => tx_irq
    /\ Len(sent) + tx_size >= printed
    /\ printer.at = "enable" => Len(sent) + tx_size >= printed + printer.len

LEMMA TxInvInit == Init => TxInv
  BY UartAssumption DEF Init, TxInv, TxTypes, TxIndex, IdlePrinter, Empty

LEMMA MakesPrinter ==
    ASSUME NEW at \in PrinterAt, NEW len \in Nat, NEW i \in Nat, NEW local \in Nat
    PROVE  LET made == [at |-> at, len |-> len, i |-> i, local |-> local]
           IN  made \in PrinterType /\ made.at = at /\ made.len = len
  BY DEF PrinterType

\* The steps of uart_print.
LEMMA PrintKeeps ==
    ASSUME TxInv, PrintStep \/ \E len \in 1 .. MAX_PRINTED : UartPrint(len)
    PROVE  TxInv'
<1> USE UartAssumption
<1>1. /\ printer \in PrinterType /\ printed \in Nat /\ Len(sent) \in Nat /\ tx_size \in Nat
      /\ printer.at \in PrinterAt /\ printer.len \in Nat /\ printer.i \in Nat
      /\ printer.local \in Nat
  BY DEF TxInv, TxTypes, PrinterType
<1>2. ASSUME NEW len \in 1 .. MAX_PRINTED, UartPrint(len)
      PROVE  TxInv'
  <2>1. printer' \in PrinterType /\ printer'.at = "spin" /\ printer'.len = len
    <3>1. len \in Nat /\ 0 \in Nat
      OBVIOUS
    <3>2. printer' = [at |-> "spin", len |-> len, i |-> 0, local |-> 0]
      BY <1>2 DEF UartPrint, IdlePrinter
    <3>3. "spin" \in PrinterAt
      BY DEF PrinterAt
    <3> QED
      BY <3>1, <3>2, <3>3, MakesPrinter
  <2>2. TxTypes'
    BY <1>2, <2>1 DEF UartPrint, TxInv, TxTypes
  <2>3. UNCHANGED <<tx_size, tx_irq, sent, printed>> /\ printer.at = "idle"
    BY <1>2 DEF UartPrint
  <2> QED
    BY <2>1, <2>2, <2>3 DEF TxInv
<1>3. CASE PrintSpin
  <2>1. /\ printer' \in PrinterType /\ printer'.at \in {"indx", "load"}
        /\ printer'.len = printer.len
    BY <1>1, <1>3 DEF PrintSpin, NextElement, PrinterType, PrinterAt
  <2> QED
    BY <1>1, <1>3, <2>1 DEF PrintSpin, Room, TxInv, TxTypes
<1>4. CASE PrintIndx
  <2>1. printer.i + tx_indx \in Nat
    BY <1>1 DEF TxInv, TxTypes, TxIndex
  <2>2. printer' \in PrinterType /\ printer'.at = "size" /\ printer'.len = printer.len
    BY <1>1, <1>4, <2>1 DEF PrintIndx, PrinterType, PrinterAt
  <2> QED
    BY <1>1, <1>4, <2>2 DEF PrintIndx, TxInv, TxTypes
<1>5. CASE PrintByte
  <2>1. printed + printer.i + 1 \in Nat
    BY <1>1
  <2>2. tx_buf' \in [TxIndex -> Nat]
    BY <1>5, <2>1 DEF PrintByte, TxInv, TxTypes
  <2>3. /\ printer' \in PrinterType /\ printer'.at \in {"indx", "load"}
        /\ printer'.len = printer.len
    <3>1. /\ printer.i + 1 \in Nat
          /\ NextElement(printer.i + 1) \in {"indx", "load"}
          /\ {"indx", "load"} \subseteq PrinterAt
      BY <1>1 DEF NextElement, PrinterAt
    <3>2. printer' = [printer EXCEPT !.at = NextElement(printer.i + 1), !.i = printer.i + 1]
      BY <1>5 DEF PrintByte
    <3>3. /\ printer'.at = NextElement(printer.i + 1) /\ printer'.len = printer.len
          /\ printer' \in PrinterType
      BY <1>1, <3>1, <3>2, Zenon DEF PrinterType
    <3> QED
      BY <3>1, <3>3
  <2>4. TxTypes'
    BY <1>5, <2>2, <2>3 DEF PrintByte, TxInv, TxTypes
  <2>5. UNCHANGED <<tx_size, tx_irq, sent, printed>> /\ printer.at = "size"
    BY <1>5 DEF PrintByte
  <2> QED
    BY <2>3, <2>4, <2>5 DEF TxInv
<1>6. CASE PrintLoad
  <2>1. /\ printer' \in PrinterType /\ printer'.at = "store"
        /\ printer'.len = printer.len /\ printer'.local = tx_size
    BY <1>1, <1>6 DEF PrintLoad, PrinterType, PrinterAt
  <2> QED
    BY <1>1, <1>6, <2>1 DEF PrintLoad, TxInv, TxTypes
<1>7. CASE PrintStore
  <2>1. printer' \in PrinterType /\ printer'.at = "enable" /\ printer'.len = printer.len
    BY <1>1, <1>7 DEF PrintStore, PrinterType, PrinterAt
  <2>2. /\ tx_size' = printer.local + printer.len /\ printer.at = "store"
        /\ UNCHANGED <<tx_buf, tx_indx, tx_irq, sent, printed>>
    BY <1>7 DEF PrintStore, Sum
  <2>3. /\ tx_size <= printer.local /\ printer.local + printer.len <= UART_TX_BUFFER_SIZE
        /\ Len(sent) + tx_size >= printed
        /\ tx_size > 0 => tx_irq
    BY <2>2 DEF TxInv
  <2>4. TxTypes'
    BY <1>1, <2>1, <2>2 DEF TxInv, TxTypes
  <2>5. tx_size' \in Nat /\ tx_size' <= UART_TX_BUFFER_SIZE
    BY <1>1, <2>2, <2>3
  <2>6. /\ Len(sent') + tx_size' >= printed'
        /\ Len(sent') + tx_size' >= printed' + printer'.len
    BY <1>1, <2>1, <2>2, <2>3
  <2> QED
    BY <2>1, <2>4, <2>5, <2>6 DEF TxInv
<1>8. CASE PrintEnable
  <2>1. printer' \in PrinterType /\ printer'.at = "idle"
    BY <1>8 DEF PrintEnable, IdlePrinter, PrinterType, PrinterAt
  <2> QED
    BY <1>1, <1>8, <2>1 DEF PrintEnable, TxInv, TxTypes
<1> QED
  BY <1>2, <1>3, <1>4, <1>5, <1>6, <1>7, <1>8 DEF PrintStep

\* The transmit interrupt.
LEMMA TransmitKeeps ==
    ASSUME TxInv, TransmitInterrupt
    PROVE  TxInv'
<1> USE UartAssumption
<1>1. CASE Transmit
  <2>1. tx_buf[tx_indx] \in Nat
    BY DEF TxInv, TxTypes
  <2>2. sent' \in Seq(Nat) /\ Len(sent') = Len(sent) + 1
    BY <1>1, <2>1 DEF Transmit, TxInv, TxTypes
  <2>3. tx_indx' \in TxIndex
    BY <1>1 DEF Transmit, TxAdvance, TxInv, TxTypes, TxIndex
  <2>4. Len(sent) \in Nat /\ printer.local \in Nat /\ printer.len \in Nat
    BY DEF TxInv, TxTypes, PrinterType
  <2>5. /\ tx_irq /\ tx_size > 0 /\ tx_size' = tx_size - 1
        /\ UNCHANGED <<tx_buf, tx_irq, printer, printed>>
    BY <1>1 DEF Transmit
  <2>6. tx_size' \in Nat /\ tx_size' < tx_size /\ Len(sent') + tx_size' = Len(sent) + tx_size
    BY <2>2, <2>4, <2>5 DEF TxInv, TxTypes
  <2>7. TxTypes'
    BY <2>2, <2>3, <2>5, <2>6 DEF TxInv, TxTypes
  <2>8. /\ tx_size \in Nat /\ printed \in Nat
        /\ UART_TX_BUFFER_SIZE \in Nat
    BY DEF TxInv, TxTypes
  <2> QED
    BY <2>4, <2>5, <2>6, <2>7, <2>8, SMTT(30) DEF TxInv
<1>2. CASE TransmitOff
  <2>1. /\ tx_size = 0 /\ tx_irq' = FALSE
        /\ UNCHANGED <<tx_buf, tx_indx, tx_size, printer, printed, sent>>
    BY <1>2 DEF TransmitOff, Drained
  <2>2. TxTypes'
    BY <2>1 DEF TxInv, TxTypes
  <2> QED
    BY <2>1, <2>2 DEF TxInv
<1> QED
  BY <1>1, <1>2 DEF TransmitInterrupt

LEMMA TxInvariant == Spec => []TxInv
<1>1. TxInv /\ [Next]_vars => TxInv'
  <2> SUFFICES ASSUME TxInv, [Next]_vars
               PROVE  TxInv'
    OBVIOUS
  <2>1. CASE UNCHANGED tx
    BY <2>1 DEF tx, TxInv, TxTypes
  <2>2. CASE PrintStep \/ TransmitInterrupt \/ \E len \in 1 .. MAX_PRINTED : UartPrint(len)
    BY <2>2, PrintKeeps, TransmitKeeps
  <2> QED
    BY <2>1, <2>2 DEF Next, vars, Receive, Read, ReadQueued, ReadFront, ReadWrap, ReadLoad, ReadStore
<1> QED
  BY <1>1, TxInvInit, PTL DEF Spec

\* A print of any length never overruns the ring, although room is checked
\* long before it is taken.
THEOREM NoOverrun == Spec => []TxFits
<1>1. TxInv => TxFits
  BY DEF TxInv, TxFits
<1> QED
  BY <1>1, TxInvariant, PTL

\* The transmit interrupt is on whenever bytes wait and no print is going on.
THEOREM NoLostWakeup == Spec => []TxWakeup
<1>1. TxInv => TxWakeup
  BY DEF TxInv, TxWakeup
<1> QED
  BY <1>1, TxInvariant, PTL

\* The race on tx_size never makes the driver send fewer bytes than printed.
THEOREM NothingWithheld == Spec => []SentEnough
<1>1. TxInv => SentEnough
  BY DEF TxInv, SentEnough
<1> QED
  BY <1>1, TxInvariant, PTL

----------------------------------------------------------------------------
(* Types. *)

\* The type invariant in two halves.
TxType ==
    /\ tx_buf \in [TxIndex -> 0 .. MAX_PRINTED] /\ tx_indx \in TxIndex
    /\ tx_size \in 0 .. UART_TX_BUFFER_SIZE
    /\ tx_irq \in BOOLEAN /\ raced \in BOOLEAN
    /\ printer \in Printer /\ printed \in 0 .. MAX_PRINTED
    /\ sent \in Seq(0 .. MAX_PRINTED)

RxType ==
    /\ rx_buf \in [RxIndex -> 0 .. MAX_TYPED] /\ rx_indx \in RxIndex
    /\ rx_size \in 0 .. WORD - 1
    /\ reader \in Reader /\ typed \in 0 .. MAX_TYPED
    /\ got \in Seq(0 .. MAX_TYPED) /\ queued \in SUBSET RxIndex
    /\ disturbed \in BOOLEAN

\* How far a print is with its elements.
Elements ==
    /\ printer.at = "idle" => printer.len = 0
    /\ printer.at \in {"idle", "spin"} => printer.i = 0
    /\ printer.at \in {"indx", "size"} => printer.i < printer.len
    /\ printer.at \in {"load", "store", "enable"} => printer.i = printer.len
    /\ printed + printer.len <= MAX_PRINTED

LEMMA ModFacts ==
    ASSUME NEW n \in Nat \ {0}, NEW x \in Nat
    PROVE  /\ x % n \in 0 .. n - 1 /\ x % n <= x
           /\ x < n => x % n = x
  OBVIOUS

LEMMA PrinterFacts ==
    ASSUME TxType
    PROVE  /\ printer.at \in PrinterAt /\ printer.len \in Nat /\ printer.i \in Nat
           /\ printer.local \in Nat /\ printed \in Nat /\ tx_size \in Nat /\ tx_indx \in Nat
           /\ Len(sent) \in Nat
  BY UartAssumption DEF TxType, Printer, PrinterAt, TxIndex

LEMMA MakesTyped ==
    ASSUME NEW at \in PrinterAt, NEW len \in 0 .. MAX_PRINTED, NEW i \in 0 .. MAX_PRINTED,
           NEW local \in Nat
    PROVE  LET made == [at |-> at, len |-> len, i |-> i, local |-> local]
           IN  /\ made \in Printer /\ made.at = at /\ made.len = len
               /\ made.i = i /\ made.local = local
  BY DEF Printer, PrinterAt

\* What a step makes of the locals of uart_print.
PrinterIs(at, len, i, local) ==
    printer' = [at |-> at, len |-> len, i |-> i, local |-> local]

LEMMA PrintEffect ==
    ASSUME TxType
    PROVE  /\ \A len \in 1 .. MAX_PRINTED : UartPrint(len) => PrinterIs("spin", len, 0, 0)
           /\ PrintSpin => PrinterIs(NextElement(0), printer.len, printer.i, printer.local)
           /\ PrintIndx => PrinterIs("size", printer.len, printer.i, printer.i + tx_indx)
           /\ PrintByte => PrinterIs(NextElement(printer.i + 1), printer.len, printer.i + 1,
                                     printer.local)
           /\ PrintLoad => PrinterIs("store", printer.len, printer.i, tx_size)
           /\ PrintStore => PrinterIs("enable", printer.len, printer.i, printer.local)
           /\ PrintEnable => PrinterIs("idle", 0, 0, 0)
<1>1. printer \in [at : PrinterAt, len : 0 .. MAX_PRINTED, i : 0 .. MAX_PRINTED, local : Nat]
  BY DEF TxType, Printer, PrinterAt
<1>2. ASSUME NEW len \in 1 .. MAX_PRINTED, UartPrint(len)
      PROVE  PrinterIs("spin", len, 0, 0)
  BY <1>2 DEF UartPrint, IdlePrinter, PrinterIs
<1>3. ASSUME PrintSpin PROVE PrinterIs(NextElement(0), printer.len, printer.i, printer.local)
  BY <1>1, <1>3 DEF PrintSpin, PrinterIs
<1>4. ASSUME PrintIndx PROVE PrinterIs("size", printer.len, printer.i, printer.i + tx_indx)
  BY <1>1, <1>4 DEF PrintIndx, PrinterIs
<1>5. ASSUME PrintByte
      PROVE  PrinterIs(NextElement(printer.i + 1), printer.len, printer.i + 1, printer.local)
  BY <1>1, <1>5 DEF PrintByte, PrinterIs
<1>6. ASSUME PrintLoad PROVE PrinterIs("store", printer.len, printer.i, tx_size)
  BY <1>1, <1>6 DEF PrintLoad, PrinterIs
<1>7. ASSUME PrintStore PROVE PrinterIs("enable", printer.len, printer.i, printer.local)
  BY <1>1, <1>7 DEF PrintStore, PrinterIs
<1>8. ASSUME PrintEnable PROVE PrinterIs("idle", 0, 0, 0)
  BY <1>8 DEF PrintEnable, IdlePrinter, PrinterIs
<1> QED
  BY <1>2, <1>3, <1>4, <1>5, <1>6, <1>7, <1>8

\* A print's locals stay in their bounds.
LEMMA ElementsKept ==
    ASSUME TxType, Elements,
           PrintStep \/ \E len \in 1 .. MAX_PRINTED : UartPrint(len)
    PROVE  printer' \in Printer /\ Elements' /\ printed' \in 0 .. MAX_PRINTED
<1> USE UartAssumption, PrinterFacts, PrintEffect
<1>0. printer.len <= MAX_PRINTED /\ printer.i <= MAX_PRINTED /\ MAX_PRINTED \in Nat
  BY DEF TxType, Printer
<1>1. ASSUME NEW len \in 1 .. MAX_PRINTED, UartPrint(len)
      PROVE  printer' \in Printer /\ Elements' /\ printed' \in 0 .. MAX_PRINTED
  <2>1. PrinterIs("spin", len, 0, 0) /\ printed' = printed /\ printed + len <= MAX_PRINTED
    BY <1>1 DEF UartPrint
  <2>2. len \in 0 .. MAX_PRINTED /\ 0 \in 0 .. MAX_PRINTED /\ "spin" \in PrinterAt
    BY <1>0, <2>1 DEF PrinterAt
  <2>3. /\ printer' \in Printer /\ printer'.at = "spin" /\ printer'.len = len
        /\ printer'.i = 0
    BY <2>1, <2>2, MakesTyped DEF PrinterIs
  <2> QED
    BY <1>0, <2>1, <2>3 DEF Elements, TxType
<1>2. ASSUME NEW at \in PrinterAt, NEW i \in 0 .. MAX_PRINTED, NEW local \in Nat,
             PrinterIs(at, printer.len, i, local), printed' = printed, at # "idle",
             at = "spin" => i = 0,
             at \in {"indx", "size"} => i < printer.len,
             at \in {"load", "store", "enable"} => i = printer.len
      PROVE  printer' \in Printer /\ Elements' /\ printed' \in 0 .. MAX_PRINTED
  <2>1. printer.len \in 0 .. MAX_PRINTED
    BY <1>0
  <2>2. /\ printer' \in Printer /\ printer'.at = at /\ printer'.len = printer.len
        /\ printer'.i = i
    BY <1>2, <2>1, MakesTyped DEF PrinterIs
  <2> QED
    BY <1>0, <1>2, <2>2 DEF Elements
<1>3. \A i \in Nat : /\ NextElement(i) \in {"indx", "load"}
                     /\ NextElement(i) = "indx" <=> i < printer.len
  BY DEF NextElement
<1>4. {"indx", "load", "size", "store", "enable"} \subseteq PrinterAt
  BY DEF PrinterAt
<1>5. CASE PrintSpin
  <2>1. printer.i = 0 /\ printed' = printed
    BY <1>5 DEF PrintSpin, Elements
  <2>2. NextElement(0) = "load" => printer.i = printer.len
    BY <1>0, <1>3, <2>1
  <2> QED
    BY <1>0, <1>2, <1>3, <1>4, <1>5, <2>1, <2>2
<1>6. CASE PrintIndx
  <2>1. printer.i < printer.len /\ printed' = printed /\ printer.i + tx_indx \in Nat
    BY <1>6 DEF PrintIndx, Elements
  <2> QED
    BY <1>0, <1>2, <1>4, <1>6, <2>1
<1>7. CASE PrintByte
  <2>1. printer.i < printer.len /\ printed' = printed
    BY <1>7 DEF PrintByte, Elements
  <2>2. printer.i + 1 \in 0 .. MAX_PRINTED
    BY <1>0, <2>1
  <2>3. NextElement(printer.i + 1) = "load" => printer.i + 1 = printer.len
    BY <1>0, <1>3, <2>1
  <2> QED
    BY <1>0, <1>2, <1>3, <1>4, <1>7, <2>1, <2>2, <2>3, SMTT(30)
<1>8. CASE PrintLoad
  <2>1. printer.i = printer.len /\ printed' = printed
    BY <1>8 DEF PrintLoad, Elements
  <2> QED
    BY <1>0, <1>2, <1>4, <1>8, <2>1
<1>9. CASE PrintStore
  <2>1. printer.i = printer.len /\ printed' = printed
    BY <1>9 DEF PrintStore, Elements
  <2> QED
    BY <1>0, <1>2, <1>4, <1>9, <2>1
<1>10. CASE PrintEnable
  <2>1. PrinterIs("idle", 0, 0, 0) /\ printed' = printed + printer.len
    BY <1>10 DEF PrintEnable
  <2>2. 0 \in 0 .. MAX_PRINTED /\ "idle" \in PrinterAt
    BY <1>0 DEF PrinterAt
  <2>3. /\ printer' \in Printer /\ printer'.at = "idle" /\ printer'.len = 0
        /\ printer'.i = 0
    BY <2>1, <2>2, MakesTyped DEF PrinterIs
  <2> QED
    BY <1>0, <2>1, <2>3 DEF Elements, TxType
<1> QED
  BY <1>1, <1>5, <1>6, <1>7, <1>8, <1>9, <1>10 DEF PrintStep

\* The bytes of a print, and what they leave as it was.
LEMMA PrintTypes ==
    ASSUME TxType, Elements, TxInv',
           PrintStep \/ \E len \in 1 .. MAX_PRINTED : UartPrint(len)
    PROVE  TxType' /\ UNCHANGED rx
<1> USE UartAssumption, PrinterFacts
<1>1. printer' \in Printer /\ printed' \in 0 .. MAX_PRINTED
  BY ElementsKept
<1>2. /\ UNCHANGED <<tx_indx, sent, raced, rx>>
      /\ tx_irq' = tx_irq \/ tx_irq' = TRUE
      /\ tx_buf' = tx_buf \/ PrintByte
  BY DEF PrintStep, UartPrint, PrintSpin, PrintIndx, PrintByte, PrintLoad, PrintStore, PrintEnable
<1>3. tx_size' \in 0 .. UART_TX_BUFFER_SIZE
  BY DEF TxInv, TxTypes
<1>4. tx_buf' \in [TxIndex -> 0 .. MAX_PRINTED]
  <2>1. CASE PrintByte
    <3>1. printer.i < printer.len /\ printed + printer.len <= MAX_PRINTED
      BY <2>1 DEF PrintByte, Elements
    <3>2. printed + printer.i + 1 \in 0 .. MAX_PRINTED
      BY <3>1
    <3> QED
      BY <2>1, <3>2 DEF PrintByte, TxType
  <2> QED
    BY <1>2, <2>1 DEF TxType
<1>5. tx_irq' \in BOOLEAN /\ raced' \in BOOLEAN /\ tx_indx' \in TxIndex
      /\ sent' \in Seq(0 .. MAX_PRINTED)
  BY <1>2 DEF TxType
<1> QED
  BY <1>1, <1>2, <1>3, <1>4, <1>5 DEF TxType

LEMMA TransmitTypes ==
    ASSUME TxType, Elements, TxInv', TransmitInterrupt
    PROVE  TxType' /\ Elements' /\ UNCHANGED rx
<1> USE UartAssumption, PrinterFacts
<1>1. UNCHANGED <<tx_buf, printer, printed, rx>>
  BY DEF TransmitInterrupt, Transmit, TransmitOff
<1>2. tx_size' \in 0 .. UART_TX_BUFFER_SIZE
  BY DEF TxInv, TxTypes
<1>3. tx_indx' \in TxIndex
  <2>1. (tx_indx + 1) % UART_TX_BUFFER_SIZE \in TxIndex
    <3>1. tx_indx + 1 \in Nat /\ UART_TX_BUFFER_SIZE \in Nat \ {0}
      OBVIOUS
    <3> QED
      BY <3>1, ModFacts DEF TxIndex
  <2> QED
    BY <2>1 DEF TransmitInterrupt, Transmit, TransmitOff, TxAdvance, TxType
<1>4. sent' \in Seq(0 .. MAX_PRINTED)
  <2>1. tx_buf[tx_indx] \in 0 .. MAX_PRINTED
    BY DEF TxType
  <2>2. Append(sent, tx_buf[tx_indx]) \in Seq(0 .. MAX_PRINTED) /\ sent \in Seq(0 .. MAX_PRINTED)
    BY <2>1, AppendProperties DEF TxType
  <2> QED
    BY <2>2 DEF TransmitInterrupt, Transmit, TransmitOff
<1>5. tx_irq' \in BOOLEAN /\ raced' \in BOOLEAN
  BY DEF TransmitInterrupt, Transmit, TransmitOff, TxType
<1> QED
  BY <1>1, <1>2, <1>3, <1>4, <1>5 DEF TxType, Elements

LEMMA FunctionIsSeq ==
    ASSUME NEW S, NEW n \in Nat, NEW f \in [1 .. n -> S]
    PROVE  f \in Seq(S) /\ Len(f) = n
  OBVIOUS

\* The bytes a read delivers are bytes typed, or what lies past the buffer.
LEMMA FrontType ==
    ASSUME NEW buf \in [RxIndex -> 0 .. MAX_TYPED], NEW len \in Nat
    PROVE  Front(buf, len) \in Seq(0 .. MAX_TYPED) /\ Len(Front(buf, len)) = len
<1> DEFINE at(k) == IF rx_indx + k - 1 \in RxIndex THEN buf[rx_indx + k - 1] ELSE Empty
<1>1. \A k \in 1 .. len : at(k) \in 0 .. MAX_TYPED
  BY UartAssumption DEF Empty
<1>2. Front(buf, len) = [k \in 1 .. len |-> at(k)]
  BY DEF Front
<1>3. Front(buf, len) \in [1 .. len -> 0 .. MAX_TYPED]
  BY <1>1, <1>2
<1> HIDE DEF at
<1> QED
  BY <1>3, FunctionIsSeq

\* The steps of the receive side, which may not touch the other.
RxStep ==
    \/ Receive
    \/ \E len \in READ_LENGTHS : Read(len) \/ ReadQueued(len)
    \/ ReadFront \/ ReadWrap \/ ReadLoad \/ ReadStore

LEMMA ReadLengths == \A len \in READ_LENGTHS : len \in RxIndex \ {0}
  BY UartAssumption, ReadAssumption DEF RxIndex

LEMMA RxTypes ==
    ASSUME RxType, RxStep
    PROVE  RxType' /\ UNCHANGED tx
<1> USE UartAssumption
<1>1. /\ UART_RX_BUFFER_SIZE \in Nat \ {0} /\ WORD \in Nat \ {0} /\ RxIndex \subseteq 0 .. WORD - 1
      /\ rx_size \in Nat /\ rx_indx \in Nat /\ reader.local \in Int /\ reader.len \in Nat
      /\ reader.len \in RxIndex
      /\ reader \in [at : {"idle", "front", "wrap", "load", "store"}, len : RxIndex, local : Int]
  BY DEF RxType, RxIndex, WORD, Reader
<1>2. \A size \in Int : IndexAfter(size) \in RxIndex
  BY <1>1 DEF IndexAfter, RxIndex
<1>3. CASE Receive
  <2> DEFINE place == rx_indx + rx_size
             size == (rx_size + 1) % UART_RX_BUFFER_SIZE
  <2>1. size \in RxIndex /\ size \in Nat
    BY <1>1, ModFacts DEF RxIndex
  <2>2. typed' \in 0 .. MAX_TYPED /\ typed + 1 \in 0 .. MAX_TYPED
    BY <1>3 DEF Receive, RxType
  <2>3. UNCHANGED <<tx, reader, queued>>
    BY <1>3 DEF Receive
  <2>4. CASE place \notin RxIndex
    <3>1. /\ rx_indx' \in RxIndex /\ rx_size' \in RxIndex
          /\ UNCHANGED <<rx_buf, got, disturbed>>
      BY <1>3, <2>4 DEF Receive
    <3> QED
      BY <1>1, <2>2, <2>3, <3>1 DEF RxType
  <2>5. CASE place \in RxIndex
    <3>1. rx_buf' = [rx_buf EXCEPT ![place] = typed + 1]
      BY <1>3, <2>5 DEF Receive
    <3>2. rx_buf' \in [RxIndex -> 0 .. MAX_TYPED]
      BY <2>2, <2>5, <3>1 DEF RxType
    <3>3. CASE /\ rx_size' = size
               /\ disturbed' = (disturbed \/ reader.at # "idle")
               /\ UNCHANGED <<rx_indx, got>>
      <4>1. rx_size' \in 0 .. WORD - 1 /\ disturbed' \in BOOLEAN
        BY <1>1, <2>1, <3>3
      <4> QED
        BY <2>2, <2>3, <3>2, <3>3, <4>1 DEF RxType
    <3>4. ASSUME NEW len \in queued, len <= size,
                 rx_indx' = IndexAfter(size), rx_size' = size - len,
                 disturbed' = (disturbed \/ reader.at # "idle" \/ len < size),
                 Deliver(Front(rx_buf', len))
          PROVE  RxType'
      <4>1. len \in Nat
        BY DEF RxType, RxIndex
      <4>2. rx_size' \in 0 .. WORD - 1
        BY <1>1, <2>1, <3>4, <4>1 DEF RxIndex
      <4>3. got' \in Seq(0 .. MAX_TYPED)
        <5>1. Front(rx_buf', len) \in Seq(0 .. MAX_TYPED) /\ got \in Seq(0 .. MAX_TYPED)
          BY <3>2, <4>1, FrontType DEF RxType
        <5>2. got' = got \/ got' = got \o Front(rx_buf', len)
          BY <3>4 DEF Deliver
        <5> QED
          BY <5>1, <5>2, ConcatProperties
      <4>4. rx_indx' \in RxIndex /\ disturbed' \in BOOLEAN
        BY <1>2, <2>1, <3>4
      <4> QED
        BY <2>2, <2>3, <3>2, <4>2, <4>3, <4>4 DEF RxType
    <3> QED
      BY <1>3, <2>3, <2>5, <3>3, <3>4, Zenon DEF Receive
  <2> QED
    BY <2>3, <2>4, <2>5
<1>4. ASSUME NEW len \in READ_LENGTHS, Read(len)
      PROVE  RxType' /\ UNCHANGED tx
  <2>0. len \in RxIndex \ {0}
    BY ReadLengths
  <2>1. reader' \in Reader
    BY <1>4, <2>0 DEF Read, Reader
  <2>2. /\ UNCHANGED <<tx, rx_buf, rx_indx, rx_size, typed, queued>>
        /\ disturbed' = (disturbed \/ len < rx_size)
        /\ got' = got \/ got' = got \o Front(rx_buf, len)
    BY <1>4 DEF Read, Deliver
  <2>3. len \in Nat
    BY <1>1, <2>0 DEF RxIndex
  <2>4. got' \in Seq(0 .. MAX_TYPED)
    <3>1. Front(rx_buf, len) \in Seq(0 .. MAX_TYPED) /\ got \in Seq(0 .. MAX_TYPED)
      BY <2>3, FrontType DEF RxType
    <3> QED
      BY <2>2, <3>1, ConcatProperties
  <2>5. disturbed' \in BOOLEAN
    BY <2>2
  <2> QED
    BY <2>1, <2>2, <2>4, <2>5 DEF RxType
<1>5. ASSUME NEW len \in READ_LENGTHS, ReadQueued(len)
      PROVE  RxType' /\ UNCHANGED tx
  BY <1>5, ReadLengths DEF ReadQueued, RxType
<1>6. CASE ReadLoad
  <2>1. reader' \in Reader
    <3>1. rx_size \in Int /\ reader' = [reader EXCEPT !.at = "store", !.local = rx_size]
      BY <1>1, <1>6 DEF ReadLoad
    <3> HIDE <1>6
    <3> QED
      BY <1>1, <3>1 DEF Reader
  <2> QED
    BY <1>6, <2>1 DEF ReadLoad, RxType
<1>7. CASE ReadStore
  <2>1. reader' \in Reader
    BY <1>7 DEF ReadStore, Reader, IdleReader, RxIndex
  <2>2. rx_size' \in 0 .. WORD - 1
    <3>1. reader.local - reader.len \in Int
      BY <1>1
    <3>2. \A x \in Int : x % WORD \in 0 .. WORD - 1
      BY <1>1
    <3> QED
      BY <1>7, <3>1, <3>2 DEF ReadStore
  <2> QED
    BY <1>7, <2>1, <2>2 DEF ReadStore, RxType
<1>8. CASE ReadFront
  <2>1. reader' \in Reader
    <3>1. rx_size \in Int /\ reader' = [reader EXCEPT !.at = "wrap", !.local = rx_size]
      BY <1>1, <1>8 DEF ReadFront
    <3> HIDE <1>8
    <3> QED
      BY <1>1, <3>1 DEF Reader
  <2> QED
    BY <1>8, <2>1 DEF ReadFront, RxType
<1>9. CASE ReadWrap
  <2>1. reader' \in Reader
    BY <1>1, <1>9 DEF ReadWrap, Reader
  <2>2. rx_indx' \in RxIndex
    BY <1>1, <1>2, <1>9 DEF ReadWrap
  <2> QED
    BY <1>9, <2>1, <2>2 DEF ReadWrap, RxType
<1> QED
  BY <1>3, <1>4, <1>5, <1>6, <1>7, <1>8, <1>9 DEF RxStep

\* The three invariants about the transmit ring and the two sides' types, made
\* inductive together.
TypeInv == TxInv /\ TxType /\ Elements /\ RxType

LEMMA NextSides ==
    ASSUME Next
    PROVE  \/ PrintStep \/ \E len \in 1 .. MAX_PRINTED : UartPrint(len)
           \/ TransmitInterrupt
           \/ RxStep
  BY DEF Next, RxStep

LEMMA TypeInvariant == Spec => []TypeInv
<1>1. Init => TypeInv
  <2>1. Init => TxType /\ Elements
    <3>1. IdlePrinter \in Printer
      BY UartAssumption DEF IdlePrinter, Printer
    <3>2. Init => TxType
      BY <3>1, UartAssumption DEF Init, TxType, TxIndex, Empty
    <3>3. ASSUME Init PROVE Elements
      <4>1. printer.at = "idle" /\ printer.len = 0 /\ printer.i = 0 /\ printed = 0
        BY <3>3 DEF Init, IdlePrinter
      <4> QED
        BY <4>1, UartAssumption DEF Elements
    <3> QED
      BY <3>2, <3>3
  <2>2. ASSUME Init PROVE RxType
    <3>1. 0 \in RxIndex /\ IdleReader \in Reader
      BY UartAssumption DEF RxIndex, IdleReader, Reader
    <3>2. 0 \in 0 .. WORD - 1 /\ 0 \in 0 .. MAX_TYPED
      BY UartAssumption DEF WORD
    <3>3. [k \in RxIndex |-> Empty] \in [RxIndex -> 0 .. MAX_TYPED]
      BY <3>2 DEF Empty
    <3>4. <<>> \in Seq(0 .. MAX_TYPED) /\ {} \in SUBSET RxIndex
      OBVIOUS
    <3>5. /\ rx_buf = [k \in RxIndex |-> Empty] /\ rx_indx = 0 /\ rx_size = 0
          /\ reader = IdleReader /\ typed = 0 /\ got = <<>> /\ queued = {} /\ disturbed = FALSE
      BY <2>2 DEF Init
    <3> QED
      BY <3>1, <3>2, <3>3, <3>4, <3>5 DEF RxType
  <2> QED
    BY <2>1, <2>2, TxInvInit DEF TypeInv
<1>2. TypeInv /\ [Next]_vars => TypeInv'
  <2> SUFFICES ASSUME TypeInv, [Next]_vars
               PROVE  TypeInv'
    OBVIOUS
  <2>1. CASE UNCHANGED tx
    <3>1. (TxInv /\ TxType /\ Elements)'
      BY <2>1 DEF tx, TypeInv, TxInv, TxTypes, TxType, Elements
    <3>2. ASSUME RxStep PROVE RxType'
      BY <3>2, RxTypes DEF TypeInv
    <3>3. ASSUME UNCHANGED rx PROVE RxType'
      BY <3>3 DEF rx, TypeInv, RxType
    <3>4. RxStep \/ UNCHANGED rx
      <4>1. CASE UNCHANGED vars
        BY <4>1 DEF vars
      <4>2. CASE PrintStep \/ \E len \in 1 .. MAX_PRINTED : UartPrint(len)
        BY <4>2, PrintTypes, PrintKeeps DEF TypeInv
      <4>3. CASE TransmitInterrupt
        BY <4>3, TransmitTypes, TransmitKeeps DEF TypeInv
      <4> QED
        BY <4>1, <4>2, <4>3, NextSides
    <3> QED
      BY <3>1, <3>2, <3>3, <3>4 DEF TypeInv
  <2>2. CASE PrintStep \/ \E len \in 1 .. MAX_PRINTED : UartPrint(len)
    <3>1. TxInv' /\ TxType' /\ Elements' /\ UNCHANGED rx
      BY <2>2, PrintKeeps, PrintTypes, ElementsKept DEF TypeInv
    <3> QED
      BY <3>1 DEF TypeInv, RxType, rx
  <2>3. CASE TransmitInterrupt
    <3>1. TxInv' /\ TxType' /\ Elements' /\ UNCHANGED rx
      BY <2>3, TransmitKeeps, TransmitTypes DEF TypeInv
    <3> QED
      BY <3>1 DEF TypeInv, RxType, rx
  <2>4. CASE RxStep
    BY <2>1, <2>4, RxTypes DEF TypeInv
  <2>5. CASE UNCHANGED vars
    BY <2>1, <2>5 DEF vars
  <2> QED
    BY <2>2, <2>3, <2>4, <2>5, NextSides
<1> QED
  BY <1>1, <1>2, PTL DEF Spec

\* The state of the driver keeps its types: ring indices stay in the rings, and
\* a print writes no element past its own end.
THEOREM TypeCorrect == Spec => []TypeOK
<1>1. TypeInv => TypeOK
  BY DEF TypeInv, TxType, RxType, TypeOK
<1> QED
  BY <1>1, TypeInvariant, PTL

----------------------------------------------------------------------------
(* The order of the bytes sent. *)

\* The bytes in the ring: those that wait, and behind them the elements that the
\* print that is going on has put there and not counted yet.
Pending == tx_size + IF printer.at \in {"indx", "size", "load", "store"} THEN printer.i ELSE 0
RingByte(k) == tx_buf[(tx_indx + k) % UART_TX_BUFFER_SIZE]

\* SentInOrder made inductive.
TxOrder ==
    ~raced => /\ InOrder(sent)
              /\ Len(sent) + tx_size
                     = printed + IF printer.at = "enable" THEN printer.len ELSE 0
              /\ printer.at = "size" => printer.local = printer.i + tx_indx
              /\ printer.at = "store" => printer.local = tx_size
              /\ \A k \in Nat : k < Pending => RingByte(k) = Len(sent) + k + 1

\* Places in a ring of n.
LEMMA Turn ==
    ASSUME NEW n \in Nat \ {0}, NEW x \in 0 .. n - 1, NEW k \in 0 .. n - 1
    PROVE  (x + k) % n = IF x + k < n THEN x + k ELSE x + k - n
  OBVIOUS
LEMMA SamePlace ==
    ASSUME NEW n \in Nat \ {0}, NEW x \in 0 .. n - 1, NEW k \in 0 .. n - 1, NEW j \in 0 .. n - 1,
          (x + j) % n = (x + k) % n
    PROVE  j = k
<1> DEFINE p == (x + j) % n
           q == (x + k) % n
<1>1. (p = IF x + j < n THEN x + j ELSE x + j - n) /\ (q = IF x + k < n THEN x + k ELSE x + k - n)
  BY Turn
<1>2. p = q
  OBVIOUS
<1> HIDE DEF p, q
<1> QED
  BY <1>1, <1>2
LEMMA NextPlace ==
    ASSUME NEW n \in Nat \ {0}, NEW x \in 0 .. n - 1, NEW k \in Nat, k + 1 \in 0 .. n - 1
    PROVE  (((x + 1) % n) + k) % n = (x + (k + 1)) % n
<1> DEFINE y == (x + 1) % n
<1>1. 1 \in 0 .. n - 1 /\ k \in 0 .. n - 1
  OBVIOUS
<1>2. y = IF x + 1 < n THEN x + 1 ELSE x + 1 - n
  BY <1>1, Turn
<1>3. y \in 0 .. n - 1
  BY <1>1, <1>2
<1> HIDE DEF y
<1>4. (y + k) % n = IF y + k < n THEN y + k ELSE y + k - n
  BY <1>1, <1>3, Turn
<1>5. (x + (k + 1)) % n = IF x + (k + 1) < n THEN x + (k + 1) ELSE x + (k + 1) - n
  BY Turn
<1>6. (y + k) % n = (x + (k + 1)) % n
  BY <1>1, <1>2, <1>3, <1>4, <1>5
<1> QED
  BY <1>6 DEF y
LEMMA RingPlaces ==
    ASSUME NEW x \in TxIndex, NEW k \in TxIndex
    PROVE  /\ (x + k) % UART_TX_BUFFER_SIZE \in TxIndex
           /\ \A j \in TxIndex :
                 (x + j) % UART_TX_BUFFER_SIZE = (x + k) % UART_TX_BUFFER_SIZE => j = k
           /\ k + 1 \in TxIndex
                 => (((x + 1) % UART_TX_BUFFER_SIZE) + k) % UART_TX_BUFFER_SIZE
                        = (x + (k + 1)) % UART_TX_BUFFER_SIZE
<1>1. UART_TX_BUFFER_SIZE \in Nat \ {0} /\ k \in Nat
  BY UartAssumption DEF TxIndex
<1>2. (x + k) % UART_TX_BUFFER_SIZE \in TxIndex
  BY <1>1, ModFacts DEF TxIndex
<1> QED
  BY <1>1, <1>2, SamePlace, NextPlace DEF TxIndex

\* What is in the ring fits it.
LEMMA PendingFits ==
    ASSUME TypeInv
    PROVE  /\ Pending \in Nat /\ Pending <= UART_TX_BUFFER_SIZE
           /\ printer.at = "size" => Pending < UART_TX_BUFFER_SIZE
<1>1. /\ printer.at \in PrinterAt /\ printer.len \in Nat /\ printer.i \in Nat
      /\ printer.local \in Nat /\ tx_size \in Nat
  BY PrinterFacts DEF TypeInv
<1>2. printer.at \in {"indx", "size", "load", "store"} => printer.i <= printer.len
  BY <1>1 DEF TypeInv, Elements
<1>3. printer.at = "size" => printer.i < printer.len
  BY DEF TypeInv, Elements
<1>4. /\ tx_size <= UART_TX_BUFFER_SIZE
      /\ printer.at \in {"indx", "size", "load"} => tx_size + printer.len <= UART_TX_BUFFER_SIZE
      /\ printer.at = "store" => /\ tx_size <= printer.local
                                 /\ printer.local + printer.len <= UART_TX_BUFFER_SIZE
  BY DEF TypeInv, TxInv
<1> QED
  BY <1>1, <1>2, <1>3, <1>4, UartAssumption DEF Pending

\* A step of a print that puts no element and leaves the ring as it was.
LEMMA OrderCarries ==
    ASSUME TypeInv, TxOrder, ~raced, Pending' = Pending,
           UNCHANGED <<tx_buf, tx_indx, sent>>,
           Len(sent) + tx_size' = printed' + IF printer'.at = "enable" THEN printer'.len ELSE 0,
           printer'.at = "size" => printer'.local = printer'.i + tx_indx,
           printer'.at = "store" => printer'.local = tx_size'
    PROVE  TxOrder'
  BY DEF TxOrder, RingByte, InOrder

LEMMA PrintOrder ==
    ASSUME TypeInv, TxOrder,
           PrintStep \/ \E len \in 1 .. MAX_PRINTED : UartPrint(len)
    PROVE  TxOrder'
<1> SUFFICES ASSUME ~raced'
             PROVE  TxOrder'
  BY DEF TxOrder
<1> USE UartAssumption, PrintEffect, PrinterFacts DEF TypeInv
<1>1. ~raced /\ UNCHANGED <<tx_indx, sent>>
  <2>1. UNCHANGED <<raced, tx_indx, sent>>
    BY DEF PrintStep, UartPrint, PrintSpin, PrintIndx, PrintByte, PrintLoad, PrintStore,
       PrintEnable
  <2> QED
    BY <2>1
<1>2. /\ Len(sent) + tx_size = printed + IF printer.at = "enable" THEN printer.len ELSE 0
      /\ printer.at = "size" => printer.local = printer.i + tx_indx
      /\ printer.at = "store" => printer.local = tx_size
  BY <1>1 DEF TxOrder
<1>3. ASSUME NEW len \in 1 .. MAX_PRINTED, UartPrint(len)
      PROVE  TxOrder'
  <2>1. /\ printer.at = "idle" /\ UNCHANGED <<tx_buf, tx_size, printed>>
        /\ printer'.at = "spin"
    <3>1. printer'.at = "spin"
      BY <1>3 DEF PrinterIs
    <3> QED
      BY <1>3, <3>1 DEF UartPrint
  <2>2. Pending' = Pending
    BY <2>1 DEF Pending
  <2> QED
    BY <1>1, <1>2, <2>1, <2>2, OrderCarries
<1>4. CASE PrintSpin
  <2>1. /\ printer.at = "spin" /\ UNCHANGED <<tx_buf, tx_size, printed>>
        /\ printer'.at \in {"indx", "load"} /\ printer'.i = 0
    BY <1>4 DEF PrintSpin, PrinterIs, NextElement, Elements
  <2>2. Pending' = Pending
    BY <2>1 DEF Pending
  <2> QED
    BY <1>1, <1>2, <2>1, <2>2, OrderCarries
<1>5. CASE PrintIndx
  <2>1. /\ printer.at = "indx" /\ UNCHANGED <<tx_buf, tx_size, printed>>
        /\ printer'.at = "size" /\ printer'.i = printer.i
        /\ printer'.local = printer.i + tx_indx
    BY <1>5 DEF PrintIndx, PrinterIs
  <2>2. Pending' = Pending
    BY <2>1 DEF Pending
  <2> QED
    BY <1>1, <1>2, <2>1, <2>2, OrderCarries
<1>6. CASE PrintByte
  <2> DEFINE place == (tx_indx + Pending) % UART_TX_BUFFER_SIZE
  <2>1. /\ printer.at = "size" /\ UNCHANGED <<tx_size, printed>>
        /\ tx_buf' = [tx_buf EXCEPT ![Place(printer.local)] = printed + printer.i + 1]
    BY <1>6 DEF PrintByte
  <2>2. printer'.at \in {"indx", "load"} /\ printer'.i = printer.i + 1
    BY <1>6 DEF PrinterIs, NextElement
  <2>3. Pending = tx_size + printer.i /\ Pending' = Pending + 1
    BY <2>1, <2>2 DEF Pending
  <2>4. Place(printer.local) = place
    <3>1. printer.local + tx_size = tx_indx + Pending
      BY <1>2, <2>1, <2>3
    <3> QED
      BY <3>1 DEF Place
  <2>5. printed + printer.i + 1 = Len(sent) + Pending + 1
    BY <1>2, <2>1, <2>3
  <2>6. tx_indx \in TxIndex /\ Pending \in TxIndex
    BY <2>1, PendingFits DEF TxType, TxIndex
  <2>7. place \in TxIndex /\ tx_buf \in [TxIndex -> 0 .. MAX_PRINTED]
    BY <2>6, RingPlaces DEF TxType
  <2>8. ASSUME NEW k \in Nat, k < Pending'
        PROVE  RingByte(k)' = Len(sent') + k + 1
    <3> DEFINE at == (tx_indx + k) % UART_TX_BUFFER_SIZE
    <3>1. tx_buf' = [tx_buf EXCEPT ![place] = Len(sent) + Pending + 1]
      BY <2>1, <2>4, <2>5
    <3>2. RingByte(k)' = tx_buf'[at] /\ RingByte(k) = tx_buf[at] /\ sent' = sent
      BY <1>1 DEF RingByte
    <3>3. CASE k = Pending
      <4>1. tx_buf'[place] = Len(sent) + Pending + 1
        BY <2>7, <3>1
      <4> QED
        BY <3>2, <3>3, <4>1
    <3>4. CASE k # Pending
      <4>1. k < Pending /\ k \in TxIndex
        BY <2>3, <2>6, <2>8, <3>4 DEF TxIndex
      <4>2. at \in TxIndex /\ at # place
        BY <2>6, <3>4, <4>1, RingPlaces
      <4>3. tx_buf'[at] = tx_buf[at]
        <5> HIDE DEF at, place
        <5> QED
          BY <2>7, <3>1, <4>2
      <4>4. RingByte(k) = Len(sent) + k + 1
        BY <1>1, <4>1 DEF TxOrder
      <4> QED
        BY <3>2, <4>3, <4>4
    <3> QED
      BY <3>3, <3>4
  <2>9. InOrder(sent')
    BY <1>1 DEF TxOrder
  <2> QED
    BY <1>1, <1>2, <2>1, <2>2, <2>8, <2>9 DEF TxOrder
<1>7. CASE PrintLoad
  <2>1. /\ printer.at = "load" /\ UNCHANGED <<tx_buf, tx_size, printed>>
        /\ printer'.at = "store" /\ printer'.i = printer.i /\ printer'.local = tx_size
    BY <1>7 DEF PrintLoad, PrinterIs
  <2>2. Pending' = Pending
    BY <2>1 DEF Pending
  <2> QED
    BY <1>1, <1>2, <2>1, <2>2, OrderCarries
<1>8. CASE PrintStore
  <2>1. /\ printer.at = "store" /\ UNCHANGED <<tx_buf, printed>>
        /\ tx_size' = tx_size + printer.len /\ printer.i = printer.len
        /\ printer'.at = "enable" /\ printer'.len = printer.len
    BY <1>2, <1>8 DEF PrintStore, PrinterIs, Sum, Elements
  <2>2. Pending' = Pending /\ Len(sent) + tx_size' = printed + printer.len
    BY <1>2, <2>1 DEF Pending
  <2> QED
    BY <1>1, <1>2, <2>1, <2>2, OrderCarries
<1>9. CASE PrintEnable
  <2>1. /\ printer.at = "enable" /\ UNCHANGED <<tx_buf, tx_size>>
        /\ printed' = printed + printer.len /\ printer'.at = "idle"
    BY <1>9 DEF PrintEnable, PrinterIs
  <2>2. Pending' = Pending /\ Len(sent) + tx_size' = printed'
    BY <1>2, <2>1 DEF Pending
  <2> QED
    BY <1>1, <1>2, <2>1, <2>2, OrderCarries
<1> QED
  BY <1>3, <1>4, <1>5, <1>6, <1>7, <1>8, <1>9 DEF PrintStep

LEMMA TransmitOrder ==
    ASSUME TypeInv, TxOrder, TransmitInterrupt
    PROVE  TxOrder'
<1> SUFFICES ASSUME ~raced'
             PROVE  TxOrder'
  BY DEF TxOrder
<1> USE UartAssumption, PrinterFacts DEF TypeInv
<1>1. CASE TransmitOff
  <2>1. UNCHANGED <<tx_buf, tx_indx, tx_size, printer, printed, sent, raced>>
    BY <1>1 DEF TransmitOff
  <2> QED
    BY <2>1 DEF TxOrder, Pending, RingByte, InOrder
<1>2. CASE Transmit
  <2>1. /\ tx_size > 0 /\ tx_size' = tx_size - 1 /\ tx_indx' = (tx_indx + 1) % UART_TX_BUFFER_SIZE
        /\ sent' = Append(sent, tx_buf[tx_indx]) /\ ~raced /\ printer.at \notin {"size", "store"}
        /\ UNCHANGED <<tx_buf, printer, printed>>
    BY <1>2 DEF Transmit, TxAdvance
  <2>2. /\ InOrder(sent)
        /\ Len(sent) + tx_size = printed + IF printer.at = "enable" THEN printer.len ELSE 0
        /\ \A k \in Nat : k < Pending => RingByte(k) = Len(sent) + k + 1
    BY <2>1 DEF TxOrder
  <2>3. /\ tx_indx \in TxIndex /\ Pending \in Nat /\ Pending > 0
        /\ Pending <= UART_TX_BUFFER_SIZE /\ Pending' = Pending - 1
    <3>1. tx_indx \in TxIndex /\ Pending \in Nat /\ Pending <= UART_TX_BUFFER_SIZE
      BY PendingFits DEF TxType
    <3>2. printer.i \in Nat /\ tx_size \in Nat
      OBVIOUS
    <3>3. Pending > 0 /\ Pending' = Pending - 1
      BY <2>1, <3>2, SMTT(30) DEF Pending
    <3> QED
      BY <3>1, <3>3
  <2>4. tx_buf[tx_indx] = Len(sent) + 1
    <3>1. tx_indx + 0 = tx_indx /\ tx_indx % UART_TX_BUFFER_SIZE = tx_indx
      <4>1. tx_indx \in Nat /\ tx_indx < UART_TX_BUFFER_SIZE /\ tx_indx + 0 = tx_indx
        BY <2>3 DEF TxIndex
      <4>2. tx_indx % UART_TX_BUFFER_SIZE = tx_indx
        BY <4>1, UartAssumption, ModFacts, Zenon
      <4> QED
        BY <4>1, <4>2
    <3>2. RingByte(0) = Len(sent) + 0 + 1
      BY <2>2, <2>3
    <3>3. RingByte(0) = tx_buf[tx_indx]
      BY <3>1, Zenon DEF RingByte
    <3> QED
      BY <3>2, <3>3
  <2>5. /\ Len(sent') = Len(sent) + 1
        /\ \A k \in 1 .. Len(sent) : sent'[k] = sent[k]
        /\ sent'[Len(sent) + 1] = Len(sent) + 1
    <3>1. sent \in Seq(0 .. MAX_PRINTED) /\ tx_buf[tx_indx] \in 0 .. MAX_PRINTED
      BY <2>3 DEF TxType
    <3> QED
      BY <2>1, <2>4, <3>1, AppendProperties
  <2>6. InOrder(sent')
    BY <2>2, <2>5 DEF InOrder
  <2>7. Len(sent') + tx_size' = printed' + IF printer'.at = "enable" THEN printer'.len ELSE 0
    BY <2>1, <2>2, <2>5
  <2>8. ASSUME NEW k \in Nat, k < Pending'
        PROVE  RingByte(k)' = Len(sent') + k + 1
    <3>1. k + 1 < Pending /\ k + 1 \in TxIndex /\ k \in TxIndex
      BY <2>3, <2>8 DEF TxIndex
    <3>2. (tx_indx' + k) % UART_TX_BUFFER_SIZE = (tx_indx + (k + 1)) % UART_TX_BUFFER_SIZE
      BY <2>1, <2>3, <3>1, RingPlaces
    <3>3. RingByte(k)' = RingByte(k + 1)
      BY <2>1, <3>2 DEF RingByte
    <3>4. RingByte(k + 1) = Len(sent) + (k + 1) + 1
      BY <2>2, <3>1
    <3> QED
      BY <2>5, <3>3, <3>4
  <2> QED
    BY <2>1, <2>6, <2>7, <2>8 DEF TxOrder
<1> QED
  BY <1>1, <1>2 DEF TransmitInterrupt

\* The wire shows the bytes printed, in order and none twice, for rings and
\* prints of every size, unless a byte is sent between the two loads that place
\* an element, or between the load and the store of tx_size.
THEOREM BytesInOrder == Spec => []SentInOrder
<1>1. Init => TxOrder
  <2> SUFFICES ASSUME Init
               PROVE  TxOrder
    OBVIOUS
  <2>1. sent = <<>> /\ tx_size = 0 /\ printed = 0 /\ printer.at = "idle"
    BY DEF Init, IdlePrinter
  <2> QED
    BY <2>1 DEF TxOrder, InOrder, Pending
<1>2. TypeInv /\ TxOrder /\ [Next]_vars => TxOrder'
  <2> SUFFICES ASSUME TypeInv, TxOrder, [Next]_vars
               PROVE  TxOrder'
    OBVIOUS
  <2>1. CASE UNCHANGED tx
    BY <2>1 DEF tx, TxOrder, InOrder, Pending, RingByte
  <2>2. UNCHANGED vars => UNCHANGED tx
    BY DEF vars
  <2>3. RxStep => UNCHANGED tx
    BY RxTypes DEF TypeInv
  <2> QED
    BY <2>1, <2>2, <2>3, NextSides, PrintOrder, TransmitOrder
<1>3. TypeInv /\ TxOrder => SentInOrder
  <2> SUFFICES ASSUME TypeInv, TxOrder
               PROVE  SentInOrder
    OBVIOUS
  <2>1. printer.len \in Nat /\ tx_size \in Nat /\ printed \in Nat /\ Len(sent) \in Nat
    BY PrinterFacts DEF TypeInv
  <2> QED
    BY <2>1 DEF TxOrder, SentInOrder
<1> QED
  BY <1>1, <1>2, <1>3, TypeInvariant, PTL DEF Spec

----------------------------------------------------------------------------
(* The order of the bytes read. *)

\* More than two places for each byte the typist may be ahead.
RoomAhead == 2 * MAX_AHEAD < UART_RX_BUFFER_SIZE

\* ReadInOrder made inductive: what has not been read lies from rx_indx on, in
\* the order typed; and rx_indx is not further than one place behind the longest
\* read there was.
RxOrder ==
    ~disturbed =>
        /\ InOrder(got)
        /\ rx_indx <= MAX_AHEAD + 1 /\ rx_size <= MAX_AHEAD
        /\ reader.at = "idle" =>
              /\ Len(got) + rx_size = typed
              /\ \A k \in Nat : k < rx_size => /\ rx_indx + k \in RxIndex
                                               /\ rx_buf[rx_indx + k] = Len(got) + k + 1
        /\ reader.at # "idle" => Len(got) = typed /\ reader.len = rx_size
        /\ reader.at \in {"wrap", "store"} => reader.local = reader.len

LEMMA RxFacts ==
    ASSUME RxType
    PROVE  /\ rx_size \in Nat /\ rx_indx \in Nat /\ rx_indx \in RxIndex /\ typed \in Nat
           /\ got \in Seq(0 .. MAX_TYPED) /\ Len(got) \in Nat
           /\ reader.len \in Nat /\ reader.local \in Int
           /\ reader.at \in {"idle", "front", "wrap", "load", "store"}
           /\ UART_RX_BUFFER_SIZE \in Nat \ {0} /\ MAX_AHEAD \in Nat
  BY UartAssumption DEF RxType, RxIndex, Reader

\* A read that takes all there is delivers it in order.
LEMMA DeliversInOrder ==
    ASSUME RxType, InOrder(got), NEW buf \in [RxIndex -> 0 .. MAX_TYPED], NEW len \in Nat,
           \A k \in Nat : k < len => /\ rx_indx + k \in RxIndex
                                     /\ buf[rx_indx + k] = Len(got) + k + 1
    PROVE  /\ InOrder(got \o Front(buf, len))
           /\ Len(got \o Front(buf, len)) = Len(got) + len
<1> DEFINE bytes == Front(buf, len)
<1>1. bytes \in Seq(0 .. MAX_TYPED) /\ Len(bytes) = len
  BY FrontType
<1>2. got \in Seq(0 .. MAX_TYPED) /\ rx_indx \in Nat /\ Len(got) \in Nat
  BY RxFacts
<1>3. ASSUME NEW k \in 1 .. len
      PROVE  bytes[k] = Len(got) + k
  <2>1. k - 1 \in Nat /\ k - 1 < len /\ rx_indx + (k - 1) = rx_indx + k - 1
    BY <1>2
  <2>2. rx_indx + k - 1 \in RxIndex /\ buf[rx_indx + k - 1] = Len(got) + (k - 1) + 1
    BY <2>1
  <2>3. bytes[k] = buf[rx_indx + k - 1]
    BY <2>2 DEF Front
  <2> QED
    BY <1>2, <2>2, <2>3
<1>4. /\ Len(got \o bytes) = Len(got) + Len(bytes)
      /\ \A k \in 1 .. Len(got) + Len(bytes) :
            (got \o bytes)[k] = IF k <= Len(got) THEN got[k] ELSE bytes[k - Len(got)]
  <2> HIDE DEF bytes
  <2> QED
    BY <1>1, <1>2, ConcatProperties
<1> HIDE DEF bytes
<1>5. ASSUME NEW k \in 1 .. Len(got) + len
      PROVE  (got \o bytes)[k] = k
  <2>1. CASE k <= Len(got)
    BY <1>1, <1>2, <1>4, <2>1 DEF InOrder
  <2>2. CASE k > Len(got)
    <3>1. k - Len(got) \in 1 .. len
      BY <1>2, <2>2
    <3>2. bytes[k - Len(got)] = Len(got) + (k - Len(got))
      BY <1>3, <3>1
    <3> QED
      BY <1>1, <1>2, <1>4, <2>2, <3>2
  <2>3. k <= Len(got) \/ k > Len(got)
    BY <1>2
  <2> QED
    BY <2>1, <2>2, <2>3, Zenon
<1>6. InOrder(got \o bytes)
  BY <1>1, <1>4, <1>5 DEF InOrder
<1> QED
  BY <1>1, <1>4, <1>6 DEF bytes

LEMMA ReceiveOrder ==
    ASSUME RoomAhead, RxType, RxType', RxOrder, Receive
    PROVE  RxOrder'
<1> SUFFICES ASSUME ~disturbed'
             PROVE  RxOrder'
  BY DEF RxOrder
<1> USE RxFacts
<1> DEFINE place == rx_indx + rx_size
           size == (rx_size + 1) % UART_RX_BUFFER_SIZE
<1>1. ~disturbed /\ rx_size < MAX_AHEAD /\ typed' = typed + 1 /\ reader' = reader
  <2>1. rx_size < MAX_AHEAD /\ typed' = typed + 1 /\ reader' = reader
    BY DEF Receive
  <2>2. disturbed => disturbed'
    BY Zenon DEF Receive
  <2> QED
    BY <2>1, <2>2
<1>2. InOrder(got) /\ rx_indx <= MAX_AHEAD + 1
  BY <1>1 DEF RxOrder
<1>3. place \in RxIndex /\ place < UART_RX_BUFFER_SIZE /\ place \in Nat
  <2>1. place \in Nat /\ place < UART_RX_BUFFER_SIZE
    BY <1>1, <1>2 DEF RoomAhead
  <2> QED
    BY <2>1 DEF RxIndex
<1>4. size = rx_size + 1
  <2>1. rx_size + 1 \in Nat /\ rx_size + 1 < UART_RX_BUFFER_SIZE
    BY <1>1 DEF RoomAhead
  <2> QED
    BY <2>1, ModFacts, Zenon
<1>5. rx_buf' = [rx_buf EXCEPT ![place] = typed + 1] /\ reader.at = "idle"
  BY <1>1, <1>3, Zenon DEF Receive
<1>6. /\ Len(got) + rx_size = typed
      /\ \A k \in Nat : k < rx_size => /\ rx_indx + k \in RxIndex
                                       /\ rx_buf[rx_indx + k] = Len(got) + k + 1
  BY <1>1, <1>5 DEF RxOrder
<1>7. \A k \in Nat : k < rx_size + 1 => /\ rx_indx + k \in RxIndex
                                        /\ rx_buf'[rx_indx + k] = Len(got) + k + 1
  <2> SUFFICES ASSUME NEW k \in Nat, k < rx_size + 1
               PROVE  rx_indx + k \in RxIndex /\ rx_buf'[rx_indx + k] = Len(got) + k + 1
    OBVIOUS
  <2>1. rx_buf \in [RxIndex -> 0 .. MAX_TYPED]
    BY DEF RxType
  <2>2. CASE k = rx_size
    BY <1>3, <1>5, <1>6, <2>1, <2>2
  <2>3. CASE k # rx_size
    <3>1. k < rx_size /\ rx_indx + k # place
      BY <2>3
    <3> QED
      BY <1>3, <1>5, <1>6, <2>1, <3>1
  <2> QED
    BY <2>2, <2>3
<1>8. CASE rx_size' = size /\ UNCHANGED <<rx_indx, got>>
  <2>1. /\ rx_indx' <= MAX_AHEAD + 1 /\ rx_size' = rx_size + 1 /\ rx_size' <= MAX_AHEAD
        /\ Len(got') + rx_size' = typed' /\ reader'.at = "idle" /\ got' = got
    BY <1>1, <1>2, <1>4, <1>5, <1>6, <1>8
  <2>2. \A k \in Nat : k < rx_size' => /\ rx_indx' + k \in RxIndex
                                        /\ rx_buf'[rx_indx' + k] = Len(got') + k + 1
    BY <1>7, <1>8, <2>1
  <2>3. InOrder(got)'
    BY <1>2, <2>1 DEF InOrder
  <2> HIDE DEF size, place
  <2> QED
    BY <2>1, <2>2, <2>3 DEF RxOrder
<1>9. ASSUME NEW len \in queued, len <= size,
             rx_indx' = IndexAfter(size), rx_size' = size - len,
             disturbed' = (disturbed \/ reader.at # "idle" \/ len < size),
             Deliver(Front(rx_buf', len))
      PROVE  RxOrder'
  <2>1. len \in Nat
    BY DEF RxType, RxIndex
  <2>2. len = rx_size + 1 /\ rx_size' = 0
    <3>1. ~(len < size)
      BY <1>9
    <3> QED
      BY <1>4, <1>9, <2>1, <3>1
  <2>3. got' = got \o Front(rx_buf', len)
    BY <1>9 DEF Deliver
  <2>4. rx_buf' \in [RxIndex -> 0 .. MAX_TYPED]
    BY DEF RxType
  <2>5. InOrder(got') /\ Len(got') = Len(got) + len
    BY <1>2, <1>7, <2>1, <2>2, <2>3, <2>4, DeliversInOrder
  <2>6. rx_indx' <= MAX_AHEAD + 1
    <3>1. size + 1 \in Nat /\ size + 1 <= MAX_AHEAD + 1
      BY <1>1, <1>4
    <3>2. rx_indx' \in Nat /\ rx_indx' <= size + 1
      <4>1. rx_indx' = IndexAfter(size)
        BY <1>9
      <4>2. \A x \in Nat : IndexAfter(x) \in Nat /\ IndexAfter(x) <= x + 1
        <5> TAKE x \in Nat
        <5>1. x + 1 \in Nat
          OBVIOUS
        <5>2. (x + 1) % UART_RX_BUFFER_SIZE \in 0 .. UART_RX_BUFFER_SIZE - 1
          BY <5>1, ModFacts, Zenon
        <5>3. (x + 1) % UART_RX_BUFFER_SIZE <= x + 1
          BY <5>1, ModFacts, Zenon
        <5> QED
          BY <5>2, <5>3 DEF IndexAfter
      <4>3. size \in Nat
        BY <1>4
      <4> HIDE DEF size
      <4> QED
        BY <4>1, <4>2, <4>3
    <3> QED
      BY <3>1, <3>2
  <2>7. InOrder(got)'
    BY <2>5 DEF InOrder
  <2> QED
    BY <1>1, <1>5, <1>6, <2>2, <2>5, <2>6, <2>7 DEF RxOrder
<1> QED
  BY <1>3, <1>8, <1>9, Zenon DEF Receive

LEMMA ReadOrder ==
    ASSUME RoomAhead, RxType, RxType', RxOrder, RxStep
    PROVE  RxOrder'
<1> SUFFICES ASSUME ~disturbed'
             PROVE  RxOrder'
  BY DEF RxOrder
<1> USE RxFacts
<1>1. ASSUME NEW len \in READ_LENGTHS, Read(len)
      PROVE  RxOrder'
  <2>1. /\ reader.at = "idle" /\ ~disturbed /\ len = rx_size
        /\ reader' = [at |-> "front", len |-> len, local |-> 0]
        /\ got' = got \o Front(rx_buf, len)
        /\ UNCHANGED <<rx_buf, rx_indx, rx_size, typed>>
    <3>1. /\ reader.at = "idle" /\ len <= rx_size
          /\ reader' = [at |-> "front", len |-> len, local |-> 0]
          /\ disturbed' = (disturbed \/ len < rx_size)
          /\ UNCHANGED <<rx_buf, rx_indx, rx_size, typed>>
      BY <1>1 DEF Read
    <3>2. ~disturbed /\ ~(len < rx_size)
      BY <3>1, Zenon
    <3>3. len = rx_size
      BY <3>1, <3>2, ReadLengths DEF RxIndex
    <3>4. got' = got \o Front(rx_buf, len)
      BY <1>1, Zenon DEF Read, Deliver
    <3> QED
      BY <3>1, <3>2, <3>3, <3>4
  <2>2. /\ InOrder(got) /\ Len(got) + rx_size = typed
        /\ rx_indx <= MAX_AHEAD + 1 /\ rx_size <= MAX_AHEAD
        /\ \A k \in Nat : k < rx_size => /\ rx_indx + k \in RxIndex
                                         /\ rx_buf[rx_indx + k] = Len(got) + k + 1
    BY <2>1 DEF RxOrder
  <2>3. rx_buf \in [RxIndex -> 0 .. MAX_TYPED]
    BY DEF RxType
  <2>4. InOrder(got') /\ Len(got') = Len(got) + len
    BY <2>1, <2>2, <2>3, DeliversInOrder
  <2>5. InOrder(got)'
    BY <2>4 DEF InOrder
  <2> QED
    BY <2>1, <2>2, <2>4, <2>5 DEF RxOrder
<1>2. ASSUME NEW len \in READ_LENGTHS, ReadQueued(len)
      PROVE  RxOrder'
  BY <1>2 DEF ReadQueued, RxOrder, InOrder
<1>3. CASE ReadFront \/ ReadLoad
  <2>1. /\ reader.at \in {"front", "load"} /\ ~disturbed
        /\ UNCHANGED <<rx_buf, rx_indx, rx_size, typed, got, disturbed>>
        /\ \/ reader' = [reader EXCEPT !.at = "wrap", !.local = rx_size]
           \/ reader' = [reader EXCEPT !.at = "store", !.local = rx_size]
    BY <1>3 DEF ReadFront, ReadLoad
  <2>2. /\ reader'.at \in {"wrap", "store"} /\ reader'.len = reader.len
        /\ reader'.local = rx_size
    <3>1. reader \in [at : {"idle", "front", "wrap", "load", "store"}, len : RxIndex, local : Int]
      BY DEF RxType, Reader
    <3> QED
      BY <2>1, <3>1
  <2>3. InOrder(got)'
    BY <2>1 DEF RxOrder, InOrder
  <2> QED
    BY <2>1, <2>2, <2>3 DEF RxOrder
<1>5. CASE ReadWrap
  <2>1. /\ reader.at = "wrap" /\ ~disturbed /\ rx_indx' = IndexAfter(reader.local)
        /\ UNCHANGED <<rx_buf, rx_size, typed, got, disturbed>>
        /\ reader' = [reader EXCEPT !.at = "load"]
    BY <1>5 DEF ReadWrap
  <2>2. reader'.at = "load" /\ reader'.len = reader.len
    <3>1. reader \in [at : {"idle", "front", "wrap", "load", "store"}, len : RxIndex, local : Int]
      BY DEF RxType, Reader
    <3> QED
      BY <2>1, <3>1
  <2>3. /\ InOrder(got) /\ rx_size <= MAX_AHEAD /\ Len(got) = typed /\ reader.len = rx_size
        /\ reader.local = rx_size
    BY <2>1 DEF RxOrder
  <2>4. rx_indx' <= MAX_AHEAD + 1
    <3>1. rx_size + 1 \in Nat /\ rx_size + 1 <= MAX_AHEAD + 1
      BY <2>3
    <3>2. rx_indx' \in Nat /\ rx_indx' <= rx_size + 1
      BY <2>1, <2>3, <3>1, ModFacts DEF IndexAfter
    <3> QED
      BY <3>1, <3>2
  <2>5. InOrder(got)'
    BY <2>1, <2>3 DEF InOrder
  <2> QED
    BY <2>1, <2>2, <2>3, <2>4, <2>5 DEF RxOrder
<1>4. CASE ReadStore
  <2>1. /\ reader.at = "store" /\ ~disturbed /\ reader'.at = "idle"
        /\ rx_size' = (reader.local - reader.len) % WORD
        /\ UNCHANGED <<rx_buf, rx_indx, typed, got, disturbed>>
    BY <1>4 DEF ReadStore, IdleReader
  <2>2. /\ InOrder(got) /\ rx_indx <= MAX_AHEAD + 1 /\ Len(got) = typed
        /\ reader.local = reader.len
    BY <2>1 DEF RxOrder
  <2>3. rx_size' = 0
    <3>1. WORD \in Nat \ {0} /\ 0 \in Nat /\ 0 < WORD /\ reader.local - reader.len = 0
      BY <2>2 DEF WORD
    <3>2. 0 % WORD = 0
      BY <3>1, ModFacts, Zenon
    <3> QED
      BY <2>1, <3>1, <3>2
  <2>4. InOrder(got)'
    BY <2>1, <2>2 DEF InOrder
  <2> QED
    BY <2>1, <2>2, <2>3, <2>4 DEF RxOrder
<1> QED
  BY <1>1, <1>2, <1>3, <1>4, <1>5, ReceiveOrder DEF RxStep

\* Reads return the bytes in the order typed, in a buffer of any size that has
\* room for a typist who is ahead, as long as every read takes all there is and
\* no byte arrives in the middle of one.
THEOREM ReadsInOrder ==
    ASSUME RoomAhead
    PROVE  Spec => []ReadInOrder
<1>1. Init => RxOrder
  <2> SUFFICES ASSUME Init
               PROVE  RxOrder
    OBVIOUS
  <2>1. /\ rx_indx = 0 /\ rx_size = 0 /\ reader.at = "idle" /\ typed = 0 /\ got = <<>>
    BY DEF Init, IdleReader
  <2> QED
    BY <2>1, UartAssumption DEF RxOrder, InOrder
<1>2. TypeInv /\ TypeInv' /\ RxOrder /\ [Next]_vars => RxOrder'
  <2> SUFFICES ASSUME TypeInv, TypeInv', RxOrder, [Next]_vars
               PROVE  RxOrder'
    OBVIOUS
  <2>1. CASE RxStep
    BY <2>1, ReadOrder DEF TypeInv
  <2>2. CASE UNCHANGED rx
    BY <2>2 DEF rx, RxOrder, InOrder
  <2>3. UNCHANGED vars => UNCHANGED rx
    BY DEF vars
  <2>4. ~RxStep /\ Next => UNCHANGED rx
    BY NextSides, PrintTypes, TransmitTypes DEF TypeInv
  <2> QED
    BY <2>1, <2>2, <2>3, <2>4
<1>3. RxOrder => ReadInOrder
  BY DEF RxOrder, ReadInOrder
<1> QED
  BY <1>1, <1>2, <1>3, TypeInvariant, PTL DEF Spec
=============================================================================
