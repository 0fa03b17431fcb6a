\* Two files, two descriptors, any calls, on a card that
\* fails and whose table has one entry more than the data area has clusters.
SPECIFICATION Spec
CONSTANTS
    Name = {a, b}
    NoName = none
    SLOTS = 2
    MAX_OPEN_FILES = 5
    EMMC_BLOCK_SIZE = 1
    sectors_per_cluster = 1
    data_base_sector = 0
    CLUSTERS = 2
    ENTRIES = 5
    OpenFlags = {{"O_RDWR", "O_CREAT"}}
    CARD_FAILS = TRUE
    MAX_LEN = 1
    MAX_WRITTEN = 2
    MAX_OFFSET = 1
SYMMETRY Symmetry
VIEW AllButReply
INVARIANTS
    TypeOK
    NoCrossLinks
    NamesUnique
PROPERTIES
    FilesApart
\* The bound on the bytes written is reached.
CHECK_DEADLOCK FALSE
