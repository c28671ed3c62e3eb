\* Two slots and a third path: the first insertion into a full cache.
SPECIFICATION Spec
CONSTANTS
    CACHE_SIZE = 2
    Paths = {"p", "q", "r"}
    MaxTime = 2
INVARIANT
    EvictedIsGone
CHECK_DEADLOCK FALSE
