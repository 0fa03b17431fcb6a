\* Signals sent to processes that handle them, in any state.  A lost kernel
\* would be a deadlock.
SPECIFICATION Spec
CONSTANTS
    MAX_PROCESSES = 3
    FRAME_TABLE_SIZE = 8
    KERNEL_FRAMES = {0, 7}
    SIGNALS = {2}
    MAX_TIMEOUT = 0
    MAX_LEVEL = 1
    UART_RX_BUFFER_SIZE = 1
    CALLS = {"yield", "fork", "exec", "wait", "exit", "signal", "raise", "kill"}
    RULES = {"spawn", "handler", "init", "reap", "wait", "handled"}
INVARIANTS
    ResultToCaller
    HandlerOnTop
    WaitQueueExact
