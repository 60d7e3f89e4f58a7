CONSTANTS
    Slots = 3
    GuardBytes = 1
    SlotBytes = 2
    NPages = 3
    MaxHeap = 3
    MaxStreams = 0
    Sizes = {1, 6}
    SectorData <- NoSectors
SPECIFICATION Spec
PROPERTY
    FreeFindsChunk
