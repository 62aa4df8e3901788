SPECIFICATION Spec
CONSTANTS
    Word = 256
    PageLimit = 200
    PageSize = 8
    InitialPageBitmapPageCount = 32
    EntriesPerTable = 8
    MemoryMaps <- MCMemoryMaps
    KernelPhysical = 5
    KernelBytes = 30
    Devices <- MCDevices
    Owner = {heap, renderer}
    RunSizes = {0, 2, 3, 9}
INVARIANTS
    TypeOK
    CountersMatch
    FreeListExact
    TablesBelowSearch
    RunLimitHolds
PROPERTIES
    GrantsAreFreeRuns
CHECK_DEADLOCK FALSE
