\* Four items for three workers: pieces of one item and a last one of two.
SPECIFICATION MCSpec
CONSTANTS
    THREADS = 3
    TURNS = 3
    ROUNDS = 4
    NUM_ITEMS = 4
    NUM_WORKERS = 3
INVARIANTS
    CounterValues
    CellValues
    EachItemOnce
PROPERTIES
    ProgramsEnd
CHECK_DEADLOCK FALSE
