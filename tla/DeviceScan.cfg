CONSTANTS
    Buses = 2
    Devices = 2
    Functions = 3
    Words = 3
    Fields = {1, 2}
    Kinds = {"absent", "floating", "disk", "late disk", "packet", "faulty"}
SPECIFICATION Spec
CHECK_DEADLOCK FALSE
INVARIANTS
    TypeOK
    ScanExact
    IdentifiedTruly
PROPERTY
    ScanEnds
