\* Two workers and two submitters over a ring of two slots: it fills, empties and
\* wraps around.
SPECIFICATION FairSpec
CONSTANTS
    THREAD_POOL_SIZE = 2
    MAX_QUEUE_SIZE = 2
    Submitters = {s1, s2}
    TasksPerSubmitter = 3
INVARIANTS
    TypeOK
    TaskConservation
    NoLostWakeup
    NoUseAfterFree
PROPERTIES
    TasksRun
    DestroyReturns
