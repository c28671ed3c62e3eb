\* Ten units hold up to four blocks: splits, gaps, a request of size 0, both kinds of merge.
\* Seven references to four pages fill three frames and replace several times.
SPECIFICATION MCSpec
CONSTANTS
    MEMORY_SIZE = 10
    HEADER = 2
    MIN_BLOCK_SIZE = 1
    Sizes = {0, 1, 3}
    PARTITION_MEMORY = 16
    MIN_PARTITION_SIZE = 2
    POOL_BLOCK_SIZE = 2
    BLOCKS = 4
    VARIABLE_SIZE = 18
    LEAST = 1
    REQUESTS = {1, 2, 3, 5, 8, 17}
    REFERENCES = 7
    CAPACITIES = {1, 2, 3}
    PAGES = 4
    HEAP_BLOCK_SIZE = 5
    HEAP_ALIGNMENT = 2
    HEAP_PAGE = 24
    HEAP_SIZE = 30
    HEAP_LIMIT = 80
    MAX_ALLOC = 2
    HEAP_REQUESTS = {0, 1, 9, 21}
    MAX_SEGMENTS = 3
    SEGMENT_MEMORY = 6
    Limits = {0, 2, 7}
    NUM_PAGES = 4
    NUM_FRAMES = 3
    TLB_SIZE = 2
    PAGE_TABLE_SIZE = 3
    OFFSET_BITS = 1
    CLOCK_BITS = 3
    FrameNums = {0, 1, 4}
    LOGICAL_PAGES = 3
    PHYSICAL_PAGES = 4
    Bits = {1, 2}
    CACHE_L1_SIZE = 1
    CACHE_L2_SIZE = 2
    MAIN_MEMORY_SIZE = 4
    VIRTUAL_MEMORY_SIZE = 8
INVARIANTS
    HeapTiled
    HeldExact
    AllocatorsSound
    HeapSound
    SegmentsKept
    ResidentPages
    FewestFaults
    FramesDisjoint
    LookupsExact
CHECK_DEADLOCK FALSE
