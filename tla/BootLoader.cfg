CONSTANTS
    PageCount = 6
    PageSize = 2
    MaxChanges = 2
    Memories <- MCMemories
    Volumes <- MCVolumes
    ConfigTables <- MCConfigTables
SPECIFICATION Spec
INVARIANTS MapIsCurrent SegmentsIntact MapKeepsLoaderMemory
PROPERTIES LoaderEnds
CHECK_DEADLOCK FALSE
