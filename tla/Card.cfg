\* Reads and writes of single blocks, reads of two, commands that fail or time
\* out at any point, and a card that takes its time to power up.
SPECIFICATION FairSpec
CONSTANTS
    LAST = 2
    MAX_COUNT = 3
    OrCounts <- BitOr
    POWER_UP_TRIES = 3
    ReadSizes = {1, 2}
    WriteSizes = {1}
    MAX_WRITES = 2
    MAX_FAULTS = 2
    MAX_SLOW = 3
INVARIANTS
    TypeOK
    HealthyWorks
    WriteComplete
PROPERTIES
    DeviceKept
    CallsReturn
\* A card given up in emmc_init is left alone; the bound on writes is reached.
CHECK_DEADLOCK FALSE
