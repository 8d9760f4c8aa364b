----------------------------- MODULE PageBuilder -----------------------------
(***************************************************************************)
(* The third stage's page tables: start_here walks every virtual page,     *)
(* creating the tables it meets (page_walk, build_page_table2) and giving  *)
(* each page a physical frame, then loads CR3.  It runs on the second      *)
(* stage's tables, which map nothing above IdentityLimit.                  *)
(*                                                                         *)
(* The machine is scaled down.  A table has Fanout entries of 8 bytes      *)
(* (512 in the code), a page is one table; the identity-mapped area is one *)
(* bottom table's worth of pages and the tables start in its middle, as    *)
(* 0x100000 does in 2M.  Everything else is the code's, byte addresses     *)
(* included: the low bits of an entry matter here.                         *)
(***************************************************************************)
EXTENDS MemoryMap

CONSTANTS
    Fanout,         \* entries of a table
    PageCounts,     \* numbers of pages to map: 0x140000 in the code
    Tables,         \* the region tables the second stage may leave
    AddressLimit    \* bound: where the model stops the search for memory

ASSUME FanoutAssumption == Fanout \in Nat /\ Fanout >= 8 /\ Fanout % 2 = 0
ASSUME PagesAssumption ==
    PageCounts \subseteq Nat \ {0} /\ AddressLimit \in Nat

PageSize      == 8 * Fanout
IdentityLimit == Fanout * PageSize              \* 0x200000
TableBase     == (Fanout \div 2) * PageSize     \* 0x100000

VARIABLES
    regions,    \* the table of regions, as the second stage left it
    pages,      \* how many pages are to be mapped: constant
    pc,
    r8,         \* virtual address being mapped
    level,      \* level of the walk: 1 is the PML4, 4 the bottom table
    base,       \* what the walk takes for the address of that table
    rbx,        \* next physical frame
    rcx,        \* next page table
    zeroed,     \* start of every 4K cleared for a table
    entries     \* the nonzero words written: address -> value

Machine == <<regions, pages>>

vars == <<Machine, pc, r8, level, base, rbx, rcx, zeroed, entries>>

\* looping2 of the third stage has cleared the PML4.
Init ==
    /\ regions \in Tables /\ pages \in PageCounts
    /\ pc = "page_walk"
    /\ r8 = 0 /\ level = 1 /\ base = TableBase
    /\ rbx = 0
    /\ rcx = TableBase + PageSize
    /\ zeroed = {TableBase}
    /\ entries = [a \in {} |-> 0]

\* The index of an address in the tables of a level: the shifts of page_walk.
Span(l) == PageSize * (CASE l = 1 -> Fanout * Fanout * Fanout
                         [] l = 2 -> Fanout * Fanout
                         [] l = 3 -> Fanout
                         [] l = 4 -> 1)
Index(v, l) == (v \div Span(l)) % Fanout

VirtualLimit == pages * PageSize

Entry == base + 8 * Index(r8, level)

Zeroed(a) == \E z \in zeroed : z <= a /\ a < z + PageSize

\* A word nobody wrote is 0 where the page was cleared and junk elsewhere.
Junk == 1
Read(a) ==
    IF a \in DOMAIN entries THEN entries[a]
    ELSE IF Zeroed(a) /\ Zeroed(a + 7) THEN 0 ELSE Junk

Write(f, a, value) ==
    [x \in DOMAIN f \union {a} |-> IF x = a THEN value ELSE f[x]]

\* OR with 011b.
WithFlags(a) == (a - (a % 4)) + 3

Approved(a) == LoopOverMemRegions(regions, a)

-----------------------------------------------------------------------------
\* A nonzero entry is followed; its flag bits become part of the next base.
Descend ==
    /\ pc = "page_walk"
    /\ level < 4
    /\ Read(Entry) # 0
    /\ level' = level + 1
    /\ base' = Read(Entry)
    /\ UNCHANGED <<Machine, pc, r8, rbx, rcx, zeroed, entries>>

\* allocate1 and allocate2: JE tests the flags video_print's MUL left, which
\* are undefined, because the comparison is commented out.
AllocateBlind ==
    /\ pc = "page_walk"
    /\ level \in {1, 2}
    /\ Read(Entry) = 0
    /\ pc' \in {"approve_table", "adjust_table"}
    /\ UNCHANGED <<Machine, r8, level, base, rbx, rcx, zeroed, entries>>

\* allocate3 asks first.
AllocateChecked ==
    /\ pc = "page_walk"
    /\ level = 3
    /\ Read(Entry) = 0
    /\ pc' = IF Approved(rcx) THEN "approve_table" ELSE "adjust_table"
    /\ UNCHANGED <<Machine, r8, level, base, rbx, rcx, zeroed, entries>>

\* One turn of adjust_then_call1..3.
AdjustTable ==
    /\ pc = "adjust_table"
    /\ rcx <= AddressLimit
    /\ rcx' = rcx + PageSize
    /\ pc' = IF Approved(rcx') THEN "approve_table" ELSE "adjust_table"
    /\ UNCHANGED <<Machine, r8, level, base, rbx, zeroed, entries>>

\* Mutants of ApproveTable: build_page_table2 is not called; the page is taken
\* for mapped wherever it is.
ApproveDirtyTable ==
    /\ pc = "approve_table"
    /\ rcx + PageSize <= IdentityLimit
    /\ entries' = Write(entries, Entry, WithFlags(rcx))
    /\ rcx' = WithFlags(rcx) + PageSize
    /\ level' = level + 1
    /\ base' = WithFlags(rcx)
    /\ pc' = "page_walk"
    /\ UNCHANGED <<Machine, r8, rbx, zeroed>>

ApproveTableAnywhere ==
    /\ pc = "approve_table"
    /\ zeroed' = zeroed \union {rcx}
    /\ entries' = Write(entries, Entry, WithFlags(rcx))
    /\ rcx' = WithFlags(rcx) + PageSize
    /\ level' = level + 1
    /\ base' = WithFlags(rcx)
    /\ pc' = "page_walk"
    /\ UNCHANGED <<Machine, r8, rbx>>

\* approve_allocate1..3: clear the page, enter it with its flags, go on to the
\* next page, keeping the flags in RCX.
ApproveTable ==
    /\ pc = "approve_table"
    /\ rcx + PageSize <= IdentityLimit
    /\ zeroed' = zeroed \union {rcx}
    /\ LET kept == [a \in {x \in DOMAIN entries :
                              x < rcx \/ rcx + PageSize <= x} |-> entries[a]]
       IN  entries' = Write(kept, Entry, WithFlags(rcx))
    /\ rcx' = WithFlags(rcx) + PageSize
    /\ level' = level + 1
    /\ base' = WithFlags(rcx)
    /\ pc' = "page_walk"
    /\ UNCHANGED <<Machine, r8, rbx>>

\* Clearing a page that is not mapped: with an empty IDT the machine resets.
TableFault ==
    /\ pc = "approve_table"
    /\ rcx + PageSize > IdentityLimit
    /\ pc' = "page_fault"
    /\ UNCHANGED <<Machine, r8, level, base, rbx, rcx, zeroed, entries>>

\* Mutant: JL without JE.
AllocateFrameJL ==
    /\ pc = "page_walk"
    /\ level = 4
    /\ Read(Entry) = 0
    /\ pc' = IF rbx < IdentityLimit THEN "approve_frame" ELSE "adjust_frame"
    /\ UNCHANGED <<Machine, r8, level, base, rbx, rcx, zeroed, entries>>

\* allocate4: JL and JE after one comparison; the branch skip4 around it, for a
\* page that is mapped already, is never taken (ReadsCleared).  Up to
\* IdentityLimit the frame is taken as it is; above, the next one is looked for
\* before the first test.
AllocateFrame ==
    /\ pc = "page_walk"
    /\ level = 4
    /\ Read(Entry) = 0
    /\ pc' = IF rbx <= IdentityLimit THEN "approve_frame" ELSE "adjust_frame"
    /\ UNCHANGED <<Machine, r8, level, base, rbx, rcx, zeroed, entries>>

\* Mutant: the next frame is asked for without advancing.
AdjustFrameStuck ==
    /\ pc = "adjust_frame"
    /\ rbx <= AddressLimit
    /\ pc' = IF Approved(rbx) THEN "approve_frame" ELSE "adjust_frame"
    /\ UNCHANGED <<Machine, r8, level, base, rbx, rcx, zeroed, entries>>

AdjustFrame ==
    /\ pc = "adjust_frame"
    /\ rbx <= AddressLimit
    /\ rbx' = rbx + PageSize
    /\ pc' = IF Approved(rbx') THEN "approve_frame" ELSE "adjust_frame"
    /\ UNCHANGED <<Machine, r8, level, base, rcx, zeroed, entries>>

\* Mutant: RBX is not advanced.
ApproveSameFrame ==
    /\ pc = "approve_frame"
    /\ entries' = Write(entries, Entry, rbx)
    /\ pc' = "next_page"
    /\ UNCHANGED <<Machine, r8, level, base, rbx, rcx, zeroed>>

\* RBX goes into the entry as it is, without a present bit.
ApproveFrame ==
    /\ pc = "approve_frame"
    /\ entries' = Write(entries, Entry, rbx)
    /\ rbx' = rbx + PageSize
    /\ pc' = "next_page"
    /\ UNCHANGED <<Machine, r8, level, base, rcx, zeroed>>

\* R8 advances by a stride and is compared with the limit.
Advance(stride, more) ==
    /\ pc = "next_page"
    /\ r8' = r8 + stride
    /\ level' = 1
    /\ base' = TableBase
    /\ pc' = IF more THEN "page_walk" ELSE "load_cr3"
    /\ UNCHANGED <<Machine, rbx, rcx, zeroed, entries>>

\* Mutant: JLE for JL.
NextPageJLE == Advance(PageSize, r8 + PageSize <= VirtualLimit)

NextPage == Advance(PageSize, r8 + PageSize < VirtualLimit)

\* The processor reads the word at an address that the code wrote there, or
\* else bytes 5 to 7 of the word before it, which are 0: only an entry the
\* code wrote at the very address can be present.
HardwarePresent(a) == a \in DOMAIN entries /\ entries[a] % 2 = 1

\* The instruction after MOV CR3 is fetched through the new tables: entry 0 of
\* the PML4, then entry 0 of the table at the page it names.
LoadCr3 ==
    /\ pc = "load_cr3"
    /\ LET pdpt == Read(TableBase) - (Read(TableBase) % PageSize)
       IN  pc' = IF HardwarePresent(TableBase) /\ HardwarePresent(pdpt)
                 THEN "built" ELSE "page_fault"
    /\ UNCHANGED <<Machine, r8, level, base, rbx, rcx, zeroed, entries>>

Next ==
    \/ Descend \/ AllocateBlind \/ AllocateChecked \/ AdjustTable
    \/ ApproveTable \/ TableFault \/ AllocateFrame \/ AdjustFrame
    \/ ApproveFrame \/ NextPage \/ LoadCr3

\* One processor, interrupts masked: it keeps executing.
Spec == Init /\ [][Next]_vars /\ WF_vars(Next)

-----------------------------------------------------------------------------
Locations == {"page_walk", "approve_table", "adjust_table", "approve_frame",
              "adjust_frame", "next_page", "load_cr3", "built", "page_fault"}

TypeOK ==
    /\ regions \in Tables /\ pages \in PageCounts
    /\ pc \in Locations
    /\ r8 \in 0..VirtualLimit
    /\ level \in 1..4
    /\ base \in Nat /\ rbx \in Nat /\ rcx \in Nat
    /\ zeroed \subseteq Nat
    /\ DOMAIN entries \subseteq Nat
    /\ \A a \in DOMAIN entries : entries[a] \in Nat

\* The code's own view of its tables: page_walk without allocation.
Follow(table, l, v) == IF table = 0 THEN 0 ELSE Read(table + 8 * Index(v, l))
Frame(v) ==
    Follow(Follow(Follow(Follow(TableBase, 1, v), 2, v), 3, v), 4, v)

\* Pages mapped so far (the page at r8 only once its entry is written).
Done == {p * PageSize : p \in 0..pages - 1} \intersect
        (IF pc = "next_page" THEN 0..r8 ELSE 0..r8 - 1)

TablePages == {z - (z % PageSize) : z \in zeroed}

\* The walk never takes junk for an entry: every word it reads lies in a page
\* build_page_table2 or looping2 has cleared, although from the second table
\* on it reads three bytes off; and no page is visited twice.
ReadsCleared ==
    pc = "page_walk" => /\ Zeroed(Entry) /\ Zeroed(Entry + 7)
                        /\ level = 4 => Read(Entry) = 0

\* Two virtual pages never share a frame, and frames grow with the address.
FramesIncrease == \A v, w \in Done : v < w => Frame(v) < Frame(w)

\* The loader's own memory keeps its addresses: code, stack, screen, regions
\* and tables are mapped where the second stage had them.
IdentityKept == \A v \in Done : v <= IdentityLimit => Frame(v) = v

\* Every virtual page gets a frame of its own, in order, and the area the
\* loader lives in is not disturbed.
FramesInOrder == FramesIncrease /\ IdentityKept

\* No page handed out above the identity-mapped area is one of the tables,
\* although both allocators search the same memory without telling each other.
FramesAreNotTables ==
    \A v \in Done : v >= IdentityLimit => Frame(v) \notin TablePages

\* Building ends: in success, in a fault, or at the end of the address space
\* when the memory has run out (the code itself would go on searching).
BuildEnds ==
    <>(\/ pc \in {"built", "page_fault"}
       \/ rbx > AddressLimit \/ rcx > AddressLimit)

-----------------------------------------------------------------------------
(***************************************************************************)
(* What the documentation and comments say, and the code does not do.      *)
(***************************************************************************)

\* readme.txt:11-12 "it will create page table and then print messags from
\* inside this table": creating and loading the tables does not fault.
TablesWork == pc # "page_fault"

=============================================================================
