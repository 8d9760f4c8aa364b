CONSTANTS
    Fanout = 16
    PageCounts = {20, 40, 80}
    Tables <- MCTables
    AddressLimit = 12000
SPECIFICATION Spec
CHECK_DEADLOCK FALSE
INVARIANTS
    TypeOK
    ReadsCleared
    FramesInOrder
    FramesAreNotTables
PROPERTY
    BuildEnds
