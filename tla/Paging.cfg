CONSTANTS
    NO_DIR_ENTRIES = 3
    NO_PAGE_ENTRIES = 3
    NPages = 5
    HeapFrame = 4
    Remappable = {1, 3}
SPECIFICATION Spec
INVARIANTS
    MappingKept
    TablesPrivate
    TablesReachable
    FullyMapped
