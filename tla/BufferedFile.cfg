\* A request larger than the buffer.
SPECIFICATION Spec
CONSTANTS
    BUFFER_SIZE = 2
    FILE_SIZE = 5
    Counts = {1, 3}
PROPERTY
    WriteReturns
CHECK_DEADLOCK FALSE
