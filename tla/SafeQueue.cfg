\* Capacity 2, six values: the ring fills, empties and wraps around.
SPECIFICATION FairSpec
CONSTANTS
    QUEUE_SIZE = 3
    NUM_THREADS = 2
    ROUNDS = 3
PROPERTIES
    ImplementsFIFO
    Terminates
