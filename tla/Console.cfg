\* One reader, which goes on forking and waiting; somebody types for ever.  A
\* lost kernel would be a deadlock.
SPECIFICATION TypingSpec
CONSTANTS
    MAX_PROCESSES = 3
    FRAME_TABLE_SIZE = 8
    KERNEL_FRAMES = {0, 7}
    SIGNALS = {2}
    MAX_TIMEOUT = 0
    MAX_LEVEL = 0
    UART_RX_BUFFER_SIZE = 2
    CALLS = {"yield", "fork", "exec", "wait", "exit", "read"}
    RULES = {"spawn", "init", "idle", "reap", "reader", "console", "typist"}
INVARIANTS
    OwnMemory
PROPERTIES
    WaitReturnsChild
    ReaderServed
