CONSTANTS
    TableSize = 5
    MaxRequest = 6
SPECIFICATION ScanSpec
INVARIANTS
    FindsFirstFit
PROPERTY
    Terminates
CHECK_DEADLOCK FALSE
