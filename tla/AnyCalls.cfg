\* Any programs: three slots, frames for two and a half, one process that reads
\* the console, signals to anybody; only a handler makes no call that reschedules.
SPECIFICATION Spec
CONSTANTS
    MAX_PROCESSES = 3
    FRAME_TABLE_SIZE = 7
    KERNEL_FRAMES = {0, 6}
    SIGNALS = {2}
    MAX_TIMEOUT = 0
    MAX_LEVEL = 1
    UART_RX_BUFFER_SIZE = 2
    CALLS = {"yield", "fork", "exec", "exit", "signal", "kill", "read"}
    RULES = {"handler", "reader"}
INVARIANTS
    TypeOK
    RunningIsCurrent
    FrameOwnership
    KernelSectionsMapped
\* A lost kernel has stopped for good.
CHECK_DEADLOCK FALSE
