CONSTANTS
    Drives <- MCDrives
    BootRegisters <- MCBootRegisters
SPECIFICATION Spec
CHECK_DEADLOCK FALSE
INVARIANTS
    TypeOK
    OnlyImagesWritten
    StopsExplained
PROPERTIES
    HealthyDriveBoots
    FirstStageImplements
