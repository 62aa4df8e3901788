CONSTANTS
    HideColors = TRUE
    Width <- MCWidth
    BufferSize = 5
    MaxSpins = 2
    Scripts <- MCScripts
SPECIFICATION CSpec
INVARIANTS DocumentedOutput LineInOrder
PROPERTIES CallsReturn
CHECK_DEADLOCK FALSE
