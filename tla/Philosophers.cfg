\* The program's own size.
SPECIFICATION FairSpec
CONSTANT NUM_PHILOSOPHERS = 5
INVARIANTS
    NoSharedFork
    NoCircularWait
PROPERTY
    SomeoneEats
