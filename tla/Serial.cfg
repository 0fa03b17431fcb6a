\* Prints of one to three bytes into a ring of two, which never takes three,
\* and a typist up to two bytes ahead of the reader.
SPECIFICATION FairSpec
CONSTANTS
    UART_TX_BUFFER_SIZE = 2
    UART_RX_BUFFER_SIZE = 5
    MAX_PRINTED = 3
    MAX_TYPED = 3
    READ_LENGTHS = {1, 2, 3}
    MAX_AHEAD = 2
INVARIANTS
    TypeOK
    TxFits
    TxWakeup
    SentInOrder
    SentEnough
    ReadInOrder
PROPERTIES
    PrintEnds
\* The bounds on the bytes printed and typed are reached.
CHECK_DEADLOCK FALSE
