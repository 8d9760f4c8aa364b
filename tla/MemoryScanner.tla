---------------------------- MODULE MemoryScanner ----------------------------
(***************************************************************************)
(* The second stage's memory scan and report (memory_scanner,              *)
(* print_memory_regions) and the look-up the third stage does in what they *)
(* leave (loop_over_mem_regions).  Names that PageBuilder has too begin    *)
(* with Scan: the proofs about the table at 0x21018 extend both modules.   *)
(***************************************************************************)
EXTENDS MemoryMap, Sequences

CONSTANTS
    Maps,           \* what the BIOS may report: sequences of regions
    Stale,          \* what the RAM of a slot may hold before the scan
    StaleWords,     \* what the RAM at 0x21002, above the count, may hold
    Addresses,      \* addresses the third stage asks about
    Slots           \* bound: slots of the table the model keeps

Region == [base : Nat, length : Nat, type : Nat]

ASSUME SlotsAssumption == Slots \in Nat /\ ScannedSlots \subseteq 1..Slots
ASSUME MapsAssumption ==
    \A map \in Maps : map \in Seq(Region) /\ Len(map) \in 1..Slots
ASSUME StaleAssumption == Stale \subseteq Region /\ StaleWords \subseteq Nat
ASSUME AddressesAssumption == Addresses \subseteq Nat

VARIABLES
    map,        \* the BIOS's map
    endsByCarry,\* the BIOS ends the list with the carry flag, not with EBX = 0
    staleWord,  \* the word above the count
    scanPc,     \* memory_scanner, then the report, then the third stage
    ebx,        \* continuation value: regions already returned
    count,      \* PTR_MEM_REGIONS_COUNT
    table,      \* PTR_MEM_REGIONS_TABLE
    ecx,        \* print_memory_regions' counter
    printed,    \* slots printed
    address, flag   \* the third stage's question and its answer

scanVars == <<map, endsByCarry, staleWord, scanPc, ebx, count, table, ecx,
              printed, address, flag>>

Reported == <<map, endsByCarry, staleWord>>
Scan    == <<ebx, count, table>>
Report  == <<ecx, printed>>
Query   == <<address, flag>>

\* EBX and the count are cleared; the table is not.
ScanInit ==
    /\ map \in Maps
    /\ endsByCarry \in BOOLEAN
    /\ staleWord \in StaleWords
    /\ scanPc = "memory_scanner_loop"
    /\ ebx = 0 /\ count = 0
    /\ \E old \in Stale : table = [i \in 1..Slots |-> old]
    /\ ecx = 0 /\ printed = 0
    /\ address = 0 /\ flag = FALSE

\* INT 15h/E820h: EBX = 0 asks for the first region and, on return, tells that
\* this was the last one, unless the BIOS prefers to set the carry next time.
BiosNext == IF ebx + 1 = Len(map) /\ ~endsByCarry THEN 0 ELSE ebx + 1

\* Mutant: the end of the list is tested before the region is counted.
ScanRegionUncounted ==
    /\ scanPc = "memory_scanner_loop"
    /\ ebx < Len(map)
    /\ table' = [table EXCEPT ![count + 1] = map[ebx + 1]]
    /\ count' = IF BiosNext = 0 THEN count ELSE count + 1
    /\ ebx' = BiosNext
    /\ scanPc' = IF BiosNext = 0 THEN "print_memory_regions"
                                 ELSE "memory_scanner_loop"
    /\ UNCHANGED <<Reported, Report, Query>>

ScanRegion ==
    /\ scanPc = "memory_scanner_loop"
    /\ ebx < Len(map)
    /\ table' = [table EXCEPT ![count + 1] = map[ebx + 1]]
    /\ count' = count + 1
    /\ ebx' = BiosNext
    /\ scanPc' = IF BiosNext = 0 THEN "print_memory_regions"
                                 ELSE "memory_scanner_loop"
    /\ UNCHANGED <<Reported, Report, Query>>

\* Carry, or EAX other than "SMAP": "Memory Scan Failed".
ScanFailed ==
    /\ scanPc = "memory_scanner_loop"
    /\ scanPc' = "hang"
    /\ UNCHANGED <<Reported, Scan, Report, Query>>

\* Mutant: the counter starts at the last index.
PrintLastIndex ==
    /\ scanPc = "print_memory_regions"
    /\ ecx' = count - 1 + 65536 * staleWord
    /\ scanPc' = "print_memory_regions_loop"
    /\ UNCHANGED <<Reported, Scan, printed, Query>>

\* The 16-bit count is read into ECX with the word above it.
PrintCount ==
    /\ scanPc = "print_memory_regions"
    /\ ecx' = count + 65536 * staleWord
    /\ scanPc' = "print_memory_regions_loop"
    /\ UNCHANGED <<Reported, Scan, printed, Query>>

\* Mutant: stops at 1 instead of 0.
PrintRegionJG ==
    /\ scanPc = "print_memory_regions_loop"
    /\ printed < Slots
    /\ printed' = printed + 1
    /\ ecx' = ecx - 1
    /\ scanPc' = IF ecx - 1 > 1 THEN "print_memory_regions_loop"
                                ELSE "third_stage"
    /\ UNCHANGED <<Reported, Scan, Query>>

\* The body comes before the test.  The model follows it to the last slot.
PrintRegion ==
    /\ scanPc = "print_memory_regions_loop"
    /\ printed < Slots
    /\ printed' = printed + 1
    /\ ecx' = ecx - 1
    /\ scanPc' = IF ecx - 1 # 0 THEN "print_memory_regions_loop"
                                ELSE "third_stage"
    /\ UNCHANGED <<Reported, Scan, Query>>

Lookup ==
    /\ scanPc = "third_stage"
    /\ address' \in Addresses
    /\ flag' = LoopOverMemRegions(table, address')
    /\ scanPc' = "answered"
    /\ UNCHANGED <<Reported, Scan, Report>>

ScanNext == ScanRegion \/ ScanFailed \/ PrintCount \/ PrintRegion \/ Lookup

ScanSpec == ScanInit /\ [][ScanNext]_scanVars

-----------------------------------------------------------------------------
ScanLocations == {"memory_scanner_loop", "print_memory_regions",
                  "print_memory_regions_loop", "third_stage", "answered", "hang"}

Scanned == scanPc \in ScanLocations \ {"memory_scanner_loop", "hang"}

ScanTypeOK ==
    /\ map \in Maps /\ endsByCarry \in BOOLEAN /\ staleWord \in StaleWords
    /\ scanPc \in ScanLocations
    /\ ebx \in 0..Slots /\ count \in 0..Slots
    /\ table \in [1..Slots -> Region]
    /\ ecx \in Nat /\ printed \in 0..Slots
    /\ flag \in BOOLEAN

\* A scan that does not fail leaves exactly the BIOS's regions, in its order,
\* and never fewer: the loop neither stops early nor runs past the list.
MapComplete ==
    Scanned => /\ count = Len(map)
               /\ \A i \in 1..count : table[i] = map[i]

\* When the word above the count is 0, the report shows every region once and
\* nothing else.
ReportComplete ==
    scanPc \in {"third_stage", "answered"} /\ staleWord = 0 =>
        printed = Len(map)

Sorted == \A i, j \in DOMAIN map :
              i < j => map[i].base + map[i].length <= map[j].base

Boundary(a) == \E i \in DOMAIN map :
                   a \in {map[i].base, map[i].base + map[i].length}

Filled == Len(map) >= 7 \/ \A i \in ScannedSlots : i > count =>
                               table[i] = [base |-> 0, length |-> 0, type |-> 0]

\* The look-up agrees with the BIOS's map on an address that is no boundary of
\* a region, for a sorted map of at most seven regions whose unused slots are
\* zero: the first-match order and the compare-and-jump ladder are right.
LookupAgrees ==
    scanPc = "answered" /\ Sorted /\ Filled /\ Len(map) <= 7
        /\ ~Boundary(address) /\ address # 0
        => (flag <=> InRAM(map, address))
=============================================================================
