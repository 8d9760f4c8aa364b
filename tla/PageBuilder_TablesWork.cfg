CONSTANTS
    Fanout = 16
    PageCounts = {20}
    Tables <- MCTables
    AddressLimit = 12000
SPECIFICATION Spec
CHECK_DEADLOCK FALSE
INVARIANT
    TablesWork
