\* The interrupt finds an exiting process current.
SPECIFICATION Spec
CONSTANTS
    MAX_PROCESSES = 3
    FRAME_TABLE_SIZE = 8
    KERNEL_FRAMES = {0, 7}
    SIGNALS = {2}
    MAX_TIMEOUT = 0
    MAX_LEVEL = 0
    UART_RX_BUFFER_SIZE = 2
    CALLS = {"yield", "fork", "exec", "exit", "read"}
    RULES = {"spawn", "init", "reap", "reader"}
INVARIANTS
    CoarseTableMapped
\* A lost kernel has stopped for good.
CHECK_DEADLOCK FALSE
