\* Surplus of 2 items left in a buffer of 2: both semaphores reach zero.
SPECIFICATION FairSpec
CONSTANTS
    BUFFER_SIZE = 2
    PRODUCER_COUNT = 3
    CONSUMER_COUNT = 2
    THREAD_NUMS = 2
INVARIANTS
    SlotAccounting
    InBounds
    EveryItemOnce
PROPERTIES
    Terminates
