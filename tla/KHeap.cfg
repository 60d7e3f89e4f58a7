CONSTANTS
    HeapStart = 2
    HeapBytes = 10
    BlockSize = 2
    WordSize = 16
    Sizes <- MCSizes
SPECIFICATION Spec
INVARIANTS
    TypeOK
    LiveDisjoint
    LiveShaped
    NoLeak
    LiveBigEnough
PROPERTY
    AbstractSpec
