\* Three processes can idle, preempt, tie and starve; six blocks leave gaps between runs;
\* a fourth descriptor can be taken after a failed close; five calls overrun both limits twice;
\* three names are one more than the directory has room for.
SPECIFICATION MCSpec
CONSTANTS
    n = 3
    TIME_QUANTUM = 2
    Arrivals = {0, 1, 2}
    Bursts = {1, 2, 3}
    Priorities = {1, 2}
    BLOCKS = 6
    GROUP = 2
    REQUESTS = {0, 1, 2, 3}
    MAX_OPEN_FILES = 3
    DESCRIPTORS = {3, 4, 5, 6}
    TRANSFERS = {1, 2}
    OFFSETS = 2
    JOURNAL_CAPACITY = 2
    BLOCK_NUMS = {0, 1}
    CALLS = 5
    PREFETCH = 2
    MAX_PREFETCH = 256
    BUFFER_SIZE = 2
    FILE_SIZE = 5
    COUNTS = {1, 3}
    REGION_BLOCKS = 5
    DIRECT_BLOCKS = 2
    INDIRECT_BLOCKS = 2
    MAX_ENTRIES = 4
    JOURNAL_SIZE = 2
    NAMES = {"a", "b", "c"}
    RECORDS = 3
INVARIANTS
    SchedulesExact
    StorageExact
    RecordsInOrder
    DirectoryRecovered
CHECK_DEADLOCK FALSE
