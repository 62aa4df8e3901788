SPECIFICATION Spec
CONSTANTS
    FirmwareMasks <- MCFirmwareMasks
    DeviceSets <- MCDeviceSets
    Chips <- MCChips
    maxSpins = 3
    MaxBytes = 5
INVARIANTS
    LinesHaveTheirVectors
    MasksSurviveRemap
    NothingLeftInService
    OnlyOthersHalt
PROPERTIES
    HandlerReturns
    ReceivedBytesAreRead
CHECK_DEADLOCK FALSE
