SPECIFICATION Spec
CONSTANTS
    Word = 256
    PageLimit = 200
    PageSize = 8
    InitialPageBitmapPageCount = 32
    EntriesPerTable = 8
    MemoryMaps <- MCPlainMap
    KernelPhysical = 5
    KernelBytes = 30
    Devices <- MCDevices
    Owner = {heap, renderer}
    RunSizes = {}
PROPERTY PanicOnlyWhenExhausted
CHECK_DEADLOCK FALSE
