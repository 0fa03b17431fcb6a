\* A card without faults that needs more polls than emmc_init makes.
SPECIFICATION Spec
CONSTANTS
    LAST = 2
    MAX_COUNT = 3
    OrCounts <- BitOr
    POWER_UP_TRIES = 10
    ReadSizes = {1, 2}
    WriteSizes = {1, 2}
    MAX_WRITES = 3
    MAX_FAULTS = 0
    MAX_SLOW = 10
INVARIANTS
    CardComesUp
CHECK_DEADLOCK FALSE
