--------------------------- MODULE BootPageTables ---------------------------
(***************************************************************************)
(* build_page_table of the second stage: four 4K tables at 0x1000 that map *)
(* the first 2M to themselves, in the 32-bit stores the code makes, and    *)
(* the walk the processor does through them once CR3 holds 0x1000.  The    *)
(* routine runs in real mode with interrupts enabled, but the BIOS's       *)
(* handlers save the registers and touch only the BIOS data area below the *)
(* tables: nothing interleaves with it.                                    *)
(***************************************************************************)
EXTENDS Integers

CONSTANT Junk       \* what a doubleword of RAM may hold before

ASSUME JunkAssumption == Junk \subseteq Nat

Base         == 4096        \* PAGE_TABLE_BASE_OFFSET, and CR3
Page         == 4096        \* MEM_PAGE_4K
PresentWrite == 3           \* PAGE_PRESENT_WRITE
Limit        == 2097152     \* CMP EAX,0x200000
ClearedWords == 4096        \* ECX of REP STOSD

Last == Base + 3 * Page                     \* the bottom table
End  == Base + 4 * Page                     \* the end of the tables

\* The doublewords from the first table to the end of the first 24K.
LastWord    == 6143
WordNumbers == {k \in 0..LastWord : Base <= 4 * k}
Words == {4 * k : k \in WordNumbers}

VARIABLES
    pc,
    di, eax,
    tables      \* the RAM: doubleword address -> value

vars == <<pc, di, eax, tables>>

Init ==
    /\ pc = "clear"
    /\ di = Base /\ eax = 0
    /\ tables \in [Words -> Junk]

\* REP STOSD with a count of doublewords; DI is reloaded afterwards.
RepStosd(count) ==
    /\ pc = "clear"
    /\ tables' = [a \in Words |-> IF a < Base + 4 * count THEN 0 ELSE tables[a]]
    /\ pc' = "link"
    /\ UNCHANGED <<di, eax>>

\* Mutant of Clear: the bytes taken for doublewords.
ClearFourTimes == RepStosd(4 * ClearedWords)

Clear == RepStosd(ClearedWords)

\* Mutant of Link: the address of the table itself, not of the next.
LinkItself ==
    /\ pc = "link"
    /\ tables' = [tables EXCEPT ![di] = di + PresentWrite]
    /\ di' = di + Page
    /\ IF di + Page = Last
       THEN pc' = "pte_loop" /\ eax' = PresentWrite
       ELSE pc' = "link" /\ eax' = di + PresentWrite

\* One upper level: the address of the next table, then DI goes there.
Link ==
    /\ pc = "link"
    /\ tables' = [tables EXCEPT ![di] = di + Page + PresentWrite]
    /\ di' = di + Page
    /\ IF di + Page = Last
       THEN pc' = "pte_loop" /\ eax' = PresentWrite
       ELSE pc' = "link" /\ eax' = di + Page + PresentWrite

\* One entry: EAX is stored, and advances by increment while DI advances by
\* stride.
StoreEntry(increment, stride) ==
    /\ pc = "pte_loop"
    /\ tables' = [tables EXCEPT ![di] = eax]
    /\ eax' = eax + increment
    /\ di' = (di + stride) % 65536
    /\ pc' = IF eax' < Limit THEN "pte_loop" ELSE "ret"

\* Mutant of PteLoop: entries of four bytes.
PteLoopShort == StoreEntry(Page, 4)

\* The low half of the entry; the high half is what Clear left.  The test comes
\* after the store and compares the next entry, flags included.
PteLoop == StoreEntry(Page, 8)

Next == Clear \/ Link \/ PteLoop

\* The routine waits for nothing.
Spec == Init /\ [][Next]_vars /\ WF_vars(Next)

-----------------------------------------------------------------------------
(***************************************************************************)
(* The processor's walk.                                                   *)
(***************************************************************************)

Unmapped == -1      \* the entry is not present
Above4G  == -2      \* its high half is not 0

Follow(table, index) ==
    LET low  == tables[table + 8 * index]
        high == tables[table + 8 * index + 4]
    IN  IF low % 2 = 0 THEN Unmapped
        ELSE IF high # 0 THEN Above4G
        ELSE low - (low % Page)

Translate(v) ==
    LET pdpt == Follow(Base, (v \div 1073741824) \div 512)
        pd   == Follow(pdpt, (v \div 1073741824) % 512)
        pt   == Follow(pd, (v \div 2097152) % 512)
    IN  Follow(pt, (v \div Page) % 512) + (v % Page)

-----------------------------------------------------------------------------
TypeOK ==
    /\ pc \in {"clear", "link", "pte_loop", "ret"}
    /\ di \in {8 * k : k \in Base \div 8 .. End \div 8}
    /\ eax \in 0..Limit + PresentWrite
    /\ tables \in [Words -> Nat]

\* What is executing when paging is turned on stays where it is: every address
\* below 2M is translated to itself, although only the low halves of the
\* entries are stored and the RAM held junk before.
IdentityMapped == pc = "ret" => \A v \in 0..Limit - 1 : Translate(v) = v

\* Nothing else is mapped: no junk entry survives in an upper table.
NothingElseMapped ==
    pc = "ret" =>
        \A t \in 0..2, i \in 1..511 : Follow(Base + t * Page, i) = Unmapped

\* The tables build_page_table leaves are the identity of the first 2M and
\* nothing more.
TablesExact == IdentityMapped /\ NothingElseMapped

\* The routine writes nothing outside its four tables: the stack grows down to
\* them and the boot sector follows.
OnlyTablesWritten ==
    [][\A a \in Words : a >= End => tables'[a] = tables[a]]_vars
=============================================================================
