SPECIFICATION KSpec
CONSTANTS
    Word = 512
    PageLimit = 400
    PageSize = 32
    InitialPageBitmapPageCount = 96
    EntriesPerTable = 32
    MemoryMaps <- MCMemoryMaps
    KernelPhysical = 4
    KernelBytes = 240
    Leftover <- Zeroes
    Garbled <- MCGarbled
    PrekernelTables <- MCPrekernelTables
    KERNEL_VIRTUAL = 1046528
    HEAP_VIRTUAL_BASE = 1048542
    virtualTargetBaseAddress = 1015808
    Framebuffer = 2048
    fbSize = 2
    MaxHeapPages = 3
    Owner <- MCOwner
    RunSizes <- MCRunSizes
    Devices <- MCDevices
INVARIANTS
    TouchedTablesAreMapped
    RamIsIdentityMapped
    DataIsBacked
    TablesAccounted
    ClonesArePrivate
PROPERTIES
    ImplementsPhysicalMemory
    CloneIsExact
    MapChangesOnePage
CHECK_DEADLOCK FALSE
