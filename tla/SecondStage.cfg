CONSTANTS
    Machines <- MCMachines
    KeyBuffer = 2
    MaxFrames = 4
SPECIFICATION Spec
CHECK_DEADLOCK FALSE
INVARIANTS
    TypeOK
    NoTripleFault
PROPERTIES
    ReachesThirdStage
    SecondStageImplements
