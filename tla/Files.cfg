\* Three files opened in turn, in all ways, clusters of two blocks, a card that
\* fills up, and a table with one cluster more than the card.
SPECIFICATION CarefulSpec
CONSTANTS
    Name = {a, b, c}
    NoName = none
    SLOTS = 3
    MAX_OPEN_FILES = 4
    EMMC_BLOCK_SIZE = 2
    sectors_per_cluster = 2
    data_base_sector = 0
    CLUSTERS = 2
    ENTRIES = 5
    OpenFlags <- MCAll
    CARD_FAILS = FALSE
    MAX_LEN = 6
    MAX_WRITTEN = 6
    MAX_OFFSET = 1
SYMMETRY Symmetry
VIEW AllButReply
INVARIANTS
    StraysOnlyBehind
    SizeBacked
PROPERTIES
    StoreKept
\* The bound on the bytes written is reached.
CHECK_DEADLOCK FALSE
