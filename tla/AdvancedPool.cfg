\* A pool made by advanced_pool_create, with an alignment larger than 1 as in main.
SPECIFICATION Spec
CONSTANTS
    POOL_BLOCK_SIZE = 2
    POOL_BLOCK_COUNT = 3
    ALIGNMENT = 2
    Kinds = {"advanced"}
INVARIANT
    AllocNeverCrashes
