SPECIFICATION Spec
CONSTANTS
    PageSize = 128
    HeaderSize = 24
    Owner = {renderer, shell, printer}
    Printer = printer
    Sizes <- MCSizes
    DebugBuilds = {TRUE, FALSE}
    MaxPages = 4
    MaxNesting = 6
INVARIANTS
    SegmentsTile
    NoFreeNeighbours
    UsedIsHeld
    AtMostTwoExpansions
PROPERTIES
    BlocksAreFreeRuns
    MallocReturns
CHECK_DEADLOCK FALSE
