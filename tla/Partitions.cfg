CONSTANTS
    BootDrive = 128
    DISK_SUPPORT_MAX = 5
    Sizes = {1, 2}
    OldCounts = {0, 2}
    MaxDrives = 2
    EntryCount = 2
    WordSize = 8
    TableEntries <- MCTableEntries
    VbrTypes = {14}
    OldSectors <- MCOldSectors
SPECIFICATION BootSpec
INVARIANTS
    SizeOwnIfGot
    DrivesOnce
    ListsOwn
    NothingLost
CHECK_DEADLOCK FALSE
