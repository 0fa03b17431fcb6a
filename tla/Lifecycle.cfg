\* fork, exec, wait and exit by programs with the usual habits.
SPECIFICATION FairSpec
CONSTANTS
    MAX_PROCESSES = 3
    FRAME_TABLE_SIZE = 8
    KERNEL_FRAMES = {0, 7}
    SIGNALS = {2}
    MAX_TIMEOUT = 1
    MAX_LEVEL = 0
    UART_RX_BUFFER_SIZE = 1
    CALLS = {"yield", "usleep", "fork", "exec", "wait", "exit", "ps"}
    RULES = {"spawn", "init", "reap", "wait", "ps"}
INVARIANTS
    NoAbort
    Isolation
    ChildSeesZero
    WaiterHasChild
    SomebodyRunnable
PROPERTIES
    WaitReturnsChild
    NobodyStarves
    WaiterRuns
