SPECIFICATION Spec
CONSTANTS
    processes = 2
    Resources = {0}
    Units = {0, 1}
    Width = 4
PROPERTIES
    DetectionReturns
CHECK_DEADLOCK FALSE
