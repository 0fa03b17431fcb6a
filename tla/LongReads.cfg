\* A file written piece by piece is read in one call.
SPECIFICATION CarefulSpec
CONSTANTS
    Name = {a}
    NoName = none
    SLOTS = 2
    MAX_OPEN_FILES = 4
    EMMC_BLOCK_SIZE = 1
    sectors_per_cluster = 1
    data_base_sector = 0
    CLUSTERS = 8
    ENTRIES = 10
    OpenFlags = {{"O_RDWR", "O_CREAT"}}
    CARD_FAILS = FALSE
    MAX_LEN = 5
    MAX_WRITTEN = 5
    MAX_OFFSET = 5
PROPERTIES
    LongReadsRight
CHECK_DEADLOCK FALSE
