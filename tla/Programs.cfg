\* The shell and its commands, two periods for blink, a user who types ahead.
\* A lost kernel would be a deadlock.
SPECIFICATION ProgramsSpec
CONSTANTS
    MAX_PROCESSES = 4
    FRAME_TABLE_SIZE = 10
    KERNEL_FRAMES = {0, 9}
    SIGNALS = {2}
    MAX_TIMEOUT = 1
    MAX_LEVEL = 1
    UART_RX_BUFFER_SIZE = 2
    CALLS = {"yield", "usleep", "fork", "exec", "wait", "exit", "signal", "raise", "kill", "read", "ps"}
    RULES = {}
    INSTALLED = {"echo", "ps", "blink"}
    OTHERS = {"typo"}
    PERIODS = {1, 2}
    DESCRIPTORS = 6
INVARIANTS
    KillReachesBlinkd
PROPERTIES
    PromptReturns
    UpdateReaches
