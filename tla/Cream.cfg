CONSTANTS
    Slots = 3
    GuardBytes = 1
    SlotBytes = 2
    NPages = 2
    MaxHeap = 2
    MaxStreams = 1
    Sizes = {0, 1, 4, 6, 7}
    SectorData <- OldSectors
SPECIFICATION Spec
INVARIANTS
    ChunksDisjoint
    ChunksBacked
    OneOwner
PROPERTIES
    FreeExact
