CONSTANTS
    Files = {f1, f2}
    FatEntries = 6
    LastCluster = 4
    FatCount = 2
    SectPerClust = 2
    SectBytes = 1
    Offsets = {1, 2}
    Lens = {3}
    Seeds = {0}
    MaxCalls = 3
SPECIFICATION Spec
INVARIANT
    WriteLinked
CHECK_DEADLOCK FALSE
