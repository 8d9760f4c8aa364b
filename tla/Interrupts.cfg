SPECIFICATION Spec
CONSTANTS
    DeviceLines <- MCDeviceLines
    NicLines <- MCNicLines
    Exceptions <- MCExceptions
    MaxEvents = 3
INVARIANTS
    TypeOK
    NeverCrashes
    OneInterruptAtATime
    StackBalanced
    OnlyNeglectedInService
PROPERTIES
    MasterEoiIsOwn
    
