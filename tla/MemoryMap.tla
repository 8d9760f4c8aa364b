------------------------------ MODULE MemoryMap ------------------------------
(***************************************************************************)
(* The table of memory regions at 0x21018: written by the second stage's   *)
(* memory_scanner, read by the third stage's loop_over_mem_regions.  A     *)
(* table is a function from slot numbers to regions; slots the scanner did *)
(* not write keep whatever the RAM held.                                   *)
(***************************************************************************)
EXTENDS Integers

\* The reader's loop stops before 0x21000 + 8*24, and starts at slot 1, which
\* is 24 bytes above 0x21000: seven slots.
ScannedSlots == 1..7

Usable == 1         \* the type of available RAM

\* Mutant of Within: the length compared as if it were the end.
WithinLength(region, address) ==
    /\ region.base <= address
    /\ address <= region.length

\* CMP/JG, JNG: both ends of the region are inside.
Within(region, address) ==
    /\ region.base <= address
    /\ address <= region.base + region.length

\* The first slot that contains the address decides; none means no.
LoopOverMemRegions(table, address) ==
    \E i \in ScannedSlots :
        /\ Within(table[i], address)
        /\ \A j \in ScannedSlots : j < i => ~Within(table[j], address)
        /\ table[i].type = Usable

\* What an address needs to be RAM according to the BIOS: the end is excluded.
InRAM(map, address) ==
    \E i \in DOMAIN map :
        /\ map[i].type = Usable
        /\ map[i].base <= address
        /\ address < map[i].base + map[i].length
=============================================================================
