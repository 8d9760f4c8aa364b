CONSTANT
    Junk <- MCJunk
SPECIFICATION Spec
CHECK_DEADLOCK FALSE
INVARIANTS
    TypeOK
    TablesExact
PROPERTIES
    OnlyTablesWritten
