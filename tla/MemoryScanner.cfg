CONSTANTS
    Maps <- MCMaps
    Stale <- MCStale
    StaleWords = {0, 1}
    Addresses <- MCAddresses
    Slots = 10
SPECIFICATION ScanSpec
CHECK_DEADLOCK FALSE
INVARIANTS
    ScanTypeOK
    MapComplete
    ReportComplete
    LookupAgrees
