CONSTANTS
    VGA_WIDTH = 4
    VGA_HEIGHT = 3
    TabStep = 3
    HandlerLen = 3
    MaxChars = 5
    MaxKeys = 2
SPECIFICATION Spec
INVARIANTS
    ColumnRecovers
    OffScreenExplained
    LinesShown
CHECK_DEADLOCK FALSE
