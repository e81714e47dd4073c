CONSTANTS
    NumPages = 6
    Sizes = {1, 2, 3}
    Aligns = {1, 2}
SPECIFICATION MemorySpec
INVARIANTS FreeListExact PagesExact SharedMemoryExact
PROPERTY ImplementsPageAllocator
CHECK_DEADLOCK FALSE
