SPECIFICATION Spec
CONSTANTS
    FirmwareMasks <- MCFirmwareMasks
    DeviceSets <- MCDeviceSets
    Chips <- MCChips
    maxSpins = 3
    MaxBytes = 5
PROPERTIES
    DisableAllDisables
CHECK_DEADLOCK FALSE
