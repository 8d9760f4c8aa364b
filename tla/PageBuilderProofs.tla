------------------------- MODULE PageBuilderProofs -------------------------
(***************************************************************************)
(* The third stage's page tables, for every fan-out, every number of pages *)
(* and every region table: what the walk reads is cleared memory or an     *)
(* entry, every page gets a frame of its own, and loading the tables       *)
(* always faults.  The invariant describes the tree: one table on each of  *)
(* the two upper levels, one directory, and bottom tables entered one      *)
(* after the other; there is room below the end of the mapped area for     *)
(* less than half a directory of them.                                     *)
(*                                                                         *)
(* The memory scan comes after it, for every map the BIOS may give and     *)
(* every content of the RAM the scan does not write, and then the two      *)
(* stages together: what the scan leaves is what the page builder asks.    *)
(***************************************************************************)
EXTENDS PageBuilder, MemoryScanner, TLAPS

-----------------------------------------------------------------------------
(* Arithmetic. *)

Half == Fanout \div 2

\* The scale of the machine: a table has an even number of entries.
LEMMA Numbers ==
    /\ Fanout \in Nat /\ Fanout >= 8 /\ Half \in Nat /\ Fanout = 2 * Half
    /\ PageSize \in Nat /\ PageSize = 8 * Fanout /\ PageSize % 4 = 0
    /\ IdentityLimit \in Nat /\ TableBase \in Nat
    /\ IdentityLimit = PageSize * Fanout /\ TableBase = PageSize * Half
    /\ TableBase % 4 = 0 /\ TableBase > 0
    /\ TableBase + PageSize <= IdentityLimit
<1>1. /\ Fanout \in Nat /\ Fanout >= 8 /\ Half \in Nat /\ Fanout = 2 * Half
      /\ PageSize \in Nat /\ PageSize = 8 * Fanout /\ PageSize % 4 = 0
  BY FanoutAssumption DEF Half, PageSize
<1>2. IdentityLimit = PageSize * Fanout /\ IdentityLimit \in Nat
  BY <1>1 DEF IdentityLimit
<1>3. TableBase = PageSize * Half /\ TableBase \in Nat
  BY <1>1 DEF TableBase, Half
<1>4. TableBase = 4 * (4 * (Half * Half))
  BY <1>1, <1>3
<1>5. Half * Half \in Nat /\ Half * Half > 0
  BY <1>1
<1>6. TableBase % 4 = 0 /\ TableBase > 0
  BY <1>4, <1>5
<1>7. TableBase + PageSize <= IdentityLimit
  <2>1. IdentityLimit = TableBase + TableBase
    BY <1>1, <1>2, <1>3
  <2>2. PageSize * 4 <= PageSize * Half
    BY <1>1
  <2> QED
    BY <1>1, <1>3, <2>1, <2>2
<1> QED
  BY <1>1, <1>2, <1>3, <1>6, <1>7

\* Products keep the order.
LEMMA Grows ==
    ASSUME NEW d \in Nat, NEW x \in Nat, NEW y \in Nat
    PROVE  /\ d * x \in Nat /\ d * (x + 1) = d * x + d
           /\ x <= y => d * x <= d * y
           /\ d > 0 /\ x < y => d * x + d <= d * y
           /\ d > 0 /\ d * x <= d * y => x <= y
<1>1. d * x \in Nat /\ d * (x + 1) = d * x + d
  OBVIOUS
<1>2. x <= y => d * x <= d * y
  OBVIOUS
<1>3. d > 0 /\ x < y => d * x + d <= d * y
  OBVIOUS
<1>4. d > 0 /\ d * x <= d * y => x <= y
  BY <1>3
<1> QED
  BY <1>1, <1>2, <1>3, <1>4

\* Division with remainder.
LEMMA Divided ==
    ASSUME NEW d \in Nat, d > 0, NEW x \in Nat
    PROVE  /\ x \div d \in Nat /\ x % d \in 0 .. d - 1
           /\ x = d * (x \div d) + (x % d)
<1>1. x \div d \in Int /\ x % d \in 0 .. d - 1
  OBVIOUS
<1>2. x = d * (x \div d) + (x % d)
  OBVIOUS
<1>3. x \div d >= 0
  <2> DEFINE q == x \div d
             r == x % d
  <2>1. q \in Int /\ r \in 0 .. d - 1 /\ x = d * q + r
    BY <1>1, <1>2
  <2> HIDE DEF q, r
  <2>2. ~(q <= -1)
    <3>1. SUFFICES ASSUME q <= -1 PROVE FALSE
      OBVIOUS
    <3>2. d * q <= -d
      BY <2>1, <3>1
    <3> QED
      BY <2>1, <3>2
  <2>3. q >= 0
    BY <2>1, <2>2
  <2> QED
    BY <2>3 DEF q
<1> QED
  BY <1>1, <1>2, <1>3

\* And it has one result.
LEMMA Quotient ==
    ASSUME NEW d \in Nat, d > 0, NEW q \in Nat, NEW r \in 0 .. d - 1
    PROVE  (d * q + r) \div d = q /\ (d * q + r) % d = r
<1> DEFINE x == d * q + r
           s == x \div d
           t == x % d
<1>1. d * q \in Nat /\ x \in Nat
  OBVIOUS
<1>2. s \in Nat /\ t \in 0 .. d - 1 /\ x = d * s + t
  BY <1>1, Divided
<1> HIDE DEF s, t
<1>3. d * s \in Nat /\ d * q + r = d * s + t
  BY <1>2
<1>4. ~(s < q)
  <2>1. s < q => d * s + d <= d * q
    BY <1>2, Grows
  <2> QED
    BY <1>1, <1>2, <1>3, <2>1
<1>5. ~(q < s)
  <2>1. q < s => d * q + d <= d * s
    BY <1>2, Grows
  <2> QED
    BY <1>1, <1>2, <1>3, <2>1
<1>6. s = q
  BY <1>2, <1>4, <1>5
<1>7. t = r
  BY <1>1, <1>2, <1>3, <1>6
<1> QED
  BY <1>6, <1>7 DEF s, t

\* A page of the part of the address space whose bottom tables fit in one
\* directory: the two upper tables are read at their first entry only.
LEMMA IndexIs ==
    ASSUME NEW p \in Nat, p < Fanout * Fanout
    PROVE  /\ Index(PageSize * p, 1) = 0 /\ Index(PageSize * p, 2) = 0
           /\ Index(PageSize * p, 3) = p \div Fanout
           /\ Index(PageSize * p, 4) = p % Fanout
<1> DEFINE P == PageSize
           F == Fanout
           k == p \div F
           i == p % F
<1>1. P \in Nat /\ P > 0 /\ F \in Nat /\ F > 0 /\ F * F \in Nat
  BY Numbers
<1>2. k \in Nat /\ i \in 0 .. F - 1 /\ p = F * k + i
  BY <1>1, Divided
<1>3. k < F
  <2>1. SUFFICES ASSUME F <= k PROVE FALSE
    BY <1>1, <1>2
  <2>2. F * F <= F * k /\ F * k \in Nat
    BY <1>1, <1>2, <2>1, Grows
  <2> HIDE DEF k, i
  <2> QED
    BY <1>1, <1>2, <2>2
<1>4. /\ Span(1) = P * (F * F * F) /\ Span(2) = P * (F * F)
      /\ Span(3) = P * F /\ Span(4) = P * 1
  <2>1. /\ 1 # 2 /\ 1 # 3 /\ 1 # 4 /\ 2 # 3 /\ 2 # 4 /\ 3 # 4
    OBVIOUS
  <2> QED
    BY <2>1, Zenon DEF Span
<1> DEFINE v == P * p
<1> HIDE DEF P, F
<1>5. v \in Nat /\ v < P * (F * F)
  <2>1. P * p + P <= P * (F * F) /\ P * p \in Nat
    BY <1>1, Grows DEF F
  <2> QED
    BY <1>1, <2>1
<1>6. (v \div (P * (F * F))) = 0
  <2> DEFINE d == P * (F * F)
  <2>1. d \in Nat /\ d > 0 /\ v \in 0 .. d - 1
    BY <1>1, <1>5
  <2> HIDE DEF d, v
  <2>2. (d * 0 + v) \div d = 0
    BY <2>1, Quotient
  <2>3. d * 0 + v = v
    BY <2>1
  <2> QED
    BY <2>2, <2>3 DEF d
<1>7. (v \div (P * (F * F * F))) = 0
  <2> DEFINE d == P * (F * F * F)
  <2>1. P * (F * F) <= d /\ d \in Nat
    <3>1. F * F <= F * F * F /\ F * F * F \in Nat
      BY <1>1
    <3> QED
      BY <1>1, <3>1, Grows
  <2>2. d > 0 /\ v \in 0 .. d - 1
    BY <1>1, <1>5, <2>1
  <2> HIDE DEF d, v
  <2>3. (d * 0 + v) \div d = 0
    BY <2>1, <2>2, Quotient
  <2>4. d * 0 + v = v
    BY <2>1, <2>2
  <2> QED
    BY <2>3, <2>4 DEF d
<1>8. (v \div (P * F)) = k
  <2> DEFINE d == P * F
  <2>1. d \in Nat /\ d > 0
    BY <1>1
  <2>2. P * i \in 0 .. d - 1
    <3>1. i \in Nat /\ i < F
      BY <1>1, <1>2
    <3> HIDE DEF i
    <3>2. P * i + P <= P * F /\ P * i \in Nat
      BY <1>1, <3>1, Grows
    <3> QED
      BY <1>1, <3>2
  <2>3. v = d * k + P * i
    <3>1. p = F * k + i /\ k \in Nat /\ i \in Nat
      BY <1>1, <1>2
    <3> HIDE DEF k, i
    <3> QED
      BY <1>1, <3>1
  <2> HIDE DEF d, v, k, i
  <2>4. (d * k + P * i) \div d = k
    BY <1>2, <2>1, <2>2, Quotient
  <2> QED
    BY <2>3, <2>4 DEF d
<1>9. (v \div (P * 1)) = p
  <2>1. P * 1 = P /\ v = P * p + 0 /\ 0 \in 0 .. P - 1
    BY <1>1, <1>5
  <2> HIDE DEF v
  <2>2. (P * p + 0) \div P = p
    BY <1>1, <2>1, Quotient
  <2> QED
    BY <2>1, <2>2
<1>10. 0 % F = 0 /\ k % F = k
  <2>1. \A x \in 0 .. F - 1 : x % F = x
    BY <1>1
  <2> QED
    BY <1>1, <1>2, <1>3, <2>1
<1> HIDE DEF v, k, i
<1>11. /\ (v \div Span(1)) % F = 0 /\ (v \div Span(2)) % F = 0
       /\ (v \div Span(3)) % F = k /\ (v \div Span(4)) % F = p % F
  BY ONLY <1>4, <1>6, <1>7, <1>8, <1>9, <1>10
<1> QED
  BY <1>11 DEF Index, v, k, F, P

-----------------------------------------------------------------------------
(* The invariant. *)

\* The page the walk is at, and how many pages are entered.
Page == r8 \div PageSize
Entered == IF pc = "next_page" THEN Page + 1 ELSE Page
Column == Page \div Fanout

\* The tables of the upper levels, as their entries give them.
HasPdpt == TableBase \in DOMAIN entries
Pdpt    == entries[TableBase]
HasPd   == HasPdpt /\ Pdpt \in DOMAIN entries
Pd      == entries[Pdpt]
Pt(j)   == entries[Pd + 8 * j]
Slot(q) == Pt(q \div Fanout) + 8 * (q % Fanout)

\* Every cleared page lies below the next table, in the mapped area. The first
\* table is entered at a multiple of the page size, the others three bytes off.
ClearedHere ==
    /\ TableBase \in zeroed /\ TableBase + PageSize <= rcx
    /\ \A z \in zeroed : /\ TableBase <= z /\ z + PageSize <= rcx
                         /\ z + PageSize <= IdentityLimit
    /\ HasPdpt => rcx % 4 = 3
    /\ ~HasPdpt => rcx % 4 = 0 /\ rcx % PageSize = 0

\* The tree with m bottom tables: each table cleared, each above the one before.
UpperHere ==
    /\ HasPdpt => /\ Pdpt - 3 \in zeroed /\ (Pdpt - 3) % PageSize = 0
                  /\ TableBase + PageSize <= Pdpt - 3
                  /\ Pdpt + PageSize <= rcx
    /\ HasPd => /\ Pd \in zeroed
                /\ Pdpt + PageSize <= Pd /\ Pd + PageSize <= rcx

BottomHere(m) ==
    /\ m \in 0 .. Half /\ (m > 0 => HasPd)
    /\ HasPd => PageSize * (Half + m + 3) <= rcx
    /\ \A j \in 0 .. m - 1 :
          /\ Pd + 8 * j \in DOMAIN entries
          /\ Pt(j) \in zeroed
          /\ Pd + PageSize <= Pt(j) /\ Pt(j) + PageSize <= rcx
          /\ \A i \in 0 .. m - 1 : i < j => Pt(i) + PageSize <= Pt(j)

\* Nothing else has been written.
EntriesHere(m) ==
    \A a \in DOMAIN entries :
        \/ a = TableBase
        \/ HasPd /\ a = Pdpt
        \/ \E j \in 0 .. m - 1 : a = Pd + 8 * j
        \/ \E q \in 0 .. Entered - 1 : a = Slot(q)

\* The frames given out: in order, each page's own number as long as the frame
\* lies in the mapped area.
FramesHere ==
    /\ \A q \in 0 .. Entered - 1 :
          /\ Slot(q) \in DOMAIN entries
          /\ PageSize * q <= entries[Slot(q)]
          /\ entries[Slot(q)] + PageSize <= rbx
          /\ q <= Fanout => entries[Slot(q)] = PageSize * q
    /\ \A q, r \in 0 .. Entered - 1 :
          q < r => entries[Slot(q)] < entries[Slot(r)]
    /\ PageSize * Entered <= rbx
    /\ Entered <= Fanout => rbx = PageSize * Entered
    /\ pc = "adjust_frame" => Entered > Fanout

\* Where the walk is, in a tree of m bottom tables.
Searching == {"page_walk", "approve_table", "adjust_table"}
Placing == {"approve_frame", "adjust_frame"}

WalkHere(m) ==
    /\ r8 = PageSize * Page /\ Page \in Nat
    /\ m = Column \/ m = Column + 1
    /\ Page % Fanout > 0 => m = Column + 1
    /\ IF pc \in {"load_cr3", "built", "page_fault"} THEN Page <= pages
       ELSE Page < pages
    /\ pc \in Searching =>
          /\ level = 1 => base = TableBase
          /\ level = 2 => HasPdpt /\ base = Pdpt
          /\ level = 3 => HasPd /\ base = Pd
    /\ pc \in {"approve_table", "adjust_table"} =>
          /\ level # 4
          /\ level = 1 => ~HasPdpt
          /\ level = 2 => ~HasPd
          /\ level = 3 => m = Column
    /\ pc \in Placing => level = 4
    /\ pc \in Placing \/ (pc = "page_walk" /\ level = 4)
          => m = Column + 1 /\ base = Pt(Column)
    /\ pc \in Placing => Slot(Page) \notin DOMAIN entries
    /\ pc = "next_page" => m = Column + 1
    /\ pc # "built"

TreeHere ==
    \E m \in 0 .. Half : BottomHere(m) /\ EntriesHere(m) /\ WalkHere(m)

IInv == TypeOK /\ ClearedHere /\ UpperHere /\ FramesHere /\ TreeHere

-----------------------------------------------------------------------------
(* The tree. *)

\* The page the walk is at belongs to the first directory, and the pages
\* entered to the bottom tables there are.
LEMMA PagesAre ==
    ASSUME NEW m \in Nat, BottomHere(m), WalkHere(m)
    PROVE  /\ Page \in Nat /\ Column \in Nat /\ Page < Fanout * Fanout
           /\ Page % Fanout \in 0 .. Fanout - 1
           /\ Page = Fanout * Column + (Page % Fanout)
           /\ Column <= m /\ m <= Half /\ Entered \in Nat
           /\ \A q \in 0 .. Entered - 1 :
                 /\ q \div Fanout \in 0 .. m - 1
                 /\ q % Fanout \in 0 .. Fanout - 1
<1> DEFINE i == Page % Fanout
<1>1. Page \in Nat /\ m <= Half /\ (m = Column \/ m = Column + 1)
  BY DEF WalkHere, BottomHere
<1>2. Column \in Nat /\ i \in 0 .. Fanout - 1 /\ Page = Fanout * Column + i
  BY <1>1, Numbers, Divided DEF Column
<1>3. Entered \in Nat /\ Entered <= Page + 1
  BY <1>1 DEF Entered
<1>4. i > 0 \/ pc = "next_page" => m = Column + 1
  BY DEF WalkHere
<1>5. Page < Fanout * Fanout
  <2>1. Column < Fanout
    BY <1>1, <1>2, Numbers
  <2>2. Fanout * Column + Fanout <= Fanout * Fanout
    BY <1>2, <2>1, Numbers, Grows
  <2>3. Fanout * Column \in Nat /\ Fanout * Fanout \in Nat
    BY <1>2, Numbers
  <2> HIDE DEF i
  <2> QED
    BY <1>2, <2>2, <2>3, Numbers
<1>6. Entered <= Fanout * m
  <2>1. /\ Fanout * Column \in Nat
        /\ Fanout * (Column + 1) = Fanout * Column + Fanout
    BY <1>2, Numbers, Grows
  <2>2. CASE m = Column + 1
    <3> HIDE DEF i
    <3> QED
      BY <1>2, <1>3, <2>1, <2>2, Numbers
  <2>3. CASE m = Column
    <3>1. i = 0 /\ pc # "next_page"
      BY <1>1, <1>2, <1>4, <2>3, Numbers
    <3>2. Entered = Page
      BY <3>1 DEF Entered
    <3> HIDE DEF i
    <3> QED
      BY <1>2, <2>1, <2>3, <3>1, <3>2, Numbers
  <2> QED
    BY <1>1, <2>2, <2>3
<1>7. ASSUME NEW q \in 0 .. Entered - 1
      PROVE  q \div Fanout \in 0 .. m - 1 /\ q % Fanout \in 0 .. Fanout - 1
  <2> DEFINE d == q \div Fanout
             r == q % Fanout
  <2>1. d \in Nat /\ r \in 0 .. Fanout - 1 /\ q = Fanout * d + r /\ q < Entered
    <3>1. q \in Nat /\ q < Entered /\ Fanout \in Nat /\ Fanout > 0
      BY <1>3, Numbers
    <3> QED
      BY <3>1, Divided
  <2> HIDE DEF d, r
  <2>2. ~(m <= d)
    <3>1. m <= d => Fanout * m <= Fanout * d
      BY <2>1, Numbers, Grows
    <3>2. Fanout * m \in Nat /\ Fanout * d \in Nat
      BY <2>1, Numbers, Grows
    <3> QED
      BY <1>3, <1>6, <2>1, <3>1, <3>2, Numbers
  <2> QED
    BY <2>1, <2>2 DEF d, r
<1> QED
  BY <1>1, <1>2, <1>3, <1>5, <1>7

\* The entry page_walk looks at.
LEMMA EntryIs ==
    ASSUME NEW m \in Nat, BottomHere(m), WalkHere(m)
    PROVE  /\ level = 1 => Entry = base + 8 * 0
           /\ level = 2 => Entry = base + 8 * 0
           /\ level = 3 => Entry = base + 8 * Column
           /\ level = 4 => Entry = base + 8 * (Page % Fanout)
<1>1. Page \in Nat /\ Page < Fanout * Fanout /\ r8 = PageSize * Page
  BY PagesAre DEF WalkHere
<1>2. /\ Index(r8, 1) = 0 /\ Index(r8, 2) = 0
      /\ Index(r8, 3) = Column /\ Index(r8, 4) = Page % Fanout
  BY <1>1, IndexIs DEF Column
<1> QED
  BY <1>2 DEF Entry

\* Where the entries are, table by table.
LEMMA PlacesAre ==
    ASSUME IInv, NEW m \in Nat, BottomHere(m), EntriesHere(m), WalkHere(m)
    PROVE  /\ \A a \in DOMAIN entries : a \in Nat /\ a + 8 <= rcx
           /\ HasPdpt => Pdpt \in Nat
           /\ HasPd => Pd \in Nat
           /\ \A j \in 0 .. m - 1 : Pt(j) \in Nat /\ 8 * j + 8 <= PageSize
           /\ \A q \in 0 .. Entered - 1 :
                 /\ Pt(q \div Fanout) <= Slot(q)
                 /\ Slot(q) + 8 <= Pt(q \div Fanout) + PageSize
<1>1. /\ DOMAIN entries \subseteq Nat /\ zeroed \subseteq Nat /\ rcx \in Nat
      /\ \A a \in DOMAIN entries : entries[a] \in Nat
  BY DEF IInv, TypeOK
<1>2. (HasPdpt => Pdpt \in Nat) /\ (HasPd => Pd \in Nat)
  BY <1>1 DEF HasPdpt, HasPd, Pdpt, Pd
<1>3. m <= Half /\ \A j \in 0 .. m - 1 : Pt(j) \in Nat
  <2>1. m \in 0 .. Half /\ \A j \in 0 .. m - 1 : Pt(j) \in zeroed
    BY DEF BottomHere
  <2>2. m <= Half
    BY ONLY <2>1, Numbers
  <2>3. \A j \in 0 .. m - 1 : Pt(j) \in Nat
    BY ONLY <1>1, <2>1
  <2> QED
    BY <2>2, <2>3
<1>4. \A j \in 0 .. m - 1 : 8 * j + 8 <= PageSize
  BY <1>3, Numbers
<1>5. ASSUME NEW q \in 0 .. Entered - 1
      PROVE  /\ Pt(q \div Fanout) <= Slot(q)
             /\ Slot(q) + 8 <= Pt(q \div Fanout) + PageSize
  <2>1. q \div Fanout \in 0 .. m - 1 /\ q % Fanout \in 0 .. Fanout - 1
    BY PagesAre
  <2>2. Pt(q \div Fanout) \in Nat
    BY <1>3, <2>1
  <2> QED
    BY <2>1, <2>2, Numbers DEF Slot
<1>6. ASSUME NEW a \in DOMAIN entries
      PROVE  a \in Nat /\ a + 8 <= rcx
  <2>1. a \in Nat
    BY <1>1
  <2>2. CASE a = TableBase
    BY <1>1, <2>2, Numbers DEF IInv, ClearedHere
  <2>3. CASE HasPd /\ a = Pdpt
    <3>1. Pdpt + PageSize <= rcx
      BY <2>3 DEF IInv, UpperHere, HasPd
    <3> QED
      BY <1>1, <1>2, <2>1, <2>3, <3>1, Numbers
  <2>4. CASE \E j \in 0 .. m - 1 : a = Pd + 8 * j
    <3>1. PICK j \in 0 .. m - 1 : a = Pd + 8 * j
      BY <2>4
    <3>2. HasPd /\ Pd + PageSize <= rcx
      BY <1>3, <3>1 DEF IInv, UpperHere, BottomHere
    <3> QED
      BY <1>1, <1>2, <1>4, <3>1, <3>2, Numbers
  <2>5. CASE \E q \in 0 .. Entered - 1 : a = Slot(q)
    <3>1. PICK q \in 0 .. Entered - 1 : a = Slot(q)
      BY <2>5
    <3>2. q \div Fanout \in 0 .. m - 1
      BY <3>1, PagesAre
    <3>3. /\ Pt(q \div Fanout) \in Nat
          /\ Pt(q \div Fanout) + PageSize <= rcx
      BY <1>3, <3>2 DEF BottomHere
    <3>4. Slot(q) + 8 <= Pt(q \div Fanout) + PageSize
      BY <1>5
    <3> QED
      BY <1>1, <2>1, <3>1, <3>3, <3>4, Numbers
  <2> QED
    BY <2>1, <2>2, <2>3, <2>4, <2>5 DEF EntriesHere
<1> QED
  BY <1>2, <1>3, <1>4, <1>5, <1>6

\* The entry of the next bottom table has not been written.
LEMMA NoTableYet ==
    ASSUME IInv, NEW m \in Nat, BottomHere(m), EntriesHere(m), WalkHere(m),
           HasPd, m < Fanout
    PROVE  Pd + 8 * m \notin DOMAIN entries
<1> DEFINE e == Pd + 8 * m
<1>1. /\ Pd \in Nat /\ Pdpt \in Nat /\ TableBase + PageSize <= Pdpt - 3
      /\ Pdpt + PageSize <= Pd /\ HasPdpt
  BY PlacesAre DEF IInv, UpperHere, HasPd
<1>2. e # TableBase /\ e # Pdpt /\ e \in Nat /\ e < Pd + PageSize
  BY <1>1, Numbers
<1>3. \A j \in 0 .. m - 1 : e # Pd + 8 * j
  BY <1>1
<1>4. ASSUME NEW q \in 0 .. Entered - 1
      PROVE  e # Slot(q)
  <2>1. q \div Fanout \in 0 .. m - 1
    BY PagesAre
  <2>2. Pd + PageSize <= Pt(q \div Fanout) /\ Pt(q \div Fanout) \in Nat
    BY <2>1, PlacesAre DEF BottomHere
  <2>3. Pt(q \div Fanout) <= Slot(q) /\ q % Fanout \in Nat
    BY PlacesAre, PagesAre
  <2>4. Slot(q) \in Nat
    BY <2>2, <2>3 DEF Slot
  <2> HIDE DEF e
  <2> QED
    BY <1>1, <1>2, <2>2, <2>3, <2>4, Numbers
<1> QED
  BY <1>2, <1>3, <1>4 DEF EntriesHere

\* Nor has the entry of the page the walk is at.
LEMMA NoFrameYet ==
    ASSUME IInv, NEW m \in Nat, BottomHere(m), EntriesHere(m), WalkHere(m),
           m = Column + 1, pc # "next_page"
    PROVE  Slot(Page) \notin DOMAIN entries
<1> DEFINE e == Slot(Page)
           i == Page % Fanout
<1>1. /\ Column \in 0 .. m - 1 /\ i \in 0 .. Fanout - 1 /\ Page \in Nat
      /\ Page = Fanout * Column + i /\ Entered = Page
  BY PagesAre DEF Entered
<1>2. /\ HasPd /\ Pt(Column) \in Nat /\ Pd + PageSize <= Pt(Column)
  BY <1>1, PlacesAre DEF BottomHere
<1>3. /\ Pd \in Nat /\ Pdpt \in Nat /\ TableBase + PageSize <= Pdpt - 3
      /\ Pdpt + PageSize <= Pd
  BY <1>2, PlacesAre DEF IInv, UpperHere, HasPd
<1>4. e = Pt(Column) + 8 * i
  BY DEF Slot, Column
<1> HIDE DEF e, i
<1>5. e # TableBase /\ e # Pdpt /\ e \in Nat
  BY <1>1, <1>2, <1>3, <1>4, Numbers
<1>6. \A j \in 0 .. m - 1 : e # Pd + 8 * j
  <2> SUFFICES ASSUME NEW j \in 0 .. m - 1 PROVE e # Pd + 8 * j
    OBVIOUS
  <2>1. 8 * j + 8 <= PageSize
    BY PlacesAre
  <2> QED
    BY <1>1, <1>2, <1>3, <1>4, <2>1, Numbers
<1>7. ASSUME NEW q \in 0 .. Entered - 1
      PROVE  e # Slot(q)
  <2> DEFINE d == q \div Fanout
             r == q % Fanout
  <2>1. d \in 0 .. m - 1 /\ r \in 0 .. Fanout - 1 /\ q = Fanout * d + r
    <3>1. q \in Nat /\ Fanout \in Nat /\ Fanout > 0
      BY <1>1, Numbers
    <3> QED
      BY <3>1, PagesAre, Divided
  <2>2. Pt(d) \in Nat /\ Slot(q) = Pt(d) + 8 * r
    BY <2>1, PlacesAre DEF Slot
  <2>3. Slot(q) + 8 <= Pt(d) + PageSize
    BY PlacesAre
  <2>4. d < Column => Pt(d) + PageSize <= Pt(Column)
    BY <1>1, <2>1 DEF BottomHere
  <2> HIDE DEF d, r
  <2>5. CASE d < Column
    <3>1. Slot(q) + 8 <= Pt(Column) /\ Slot(q) \in Nat
      BY <1>2, <2>1, <2>2, <2>3, <2>4, <2>5, Numbers
    <3> QED
      BY <1>1, <1>2, <1>4, <3>1
  <2>6. CASE d = Column
    <3>1. r # i
      BY <1>1, <2>1, <2>6
    <3> QED
      BY <1>1, <1>2, <1>4, <2>1, <2>2, <2>6, <3>1
  <2> QED
    BY <1>1, <2>1, <2>5, <2>6
<1> QED
  BY <1>5, <1>6, <1>7 DEF EntriesHere, e

\* What the walk reads has been cleared or written (a nonzero word leads on).
LEMMA ReadIs ==
    ASSUME IInv, NEW m \in Nat, BottomHere(m), EntriesHere(m), WalkHere(m),
           pc = "page_walk"
    PROVE  /\ Zeroed(Entry) /\ Zeroed(Entry + 7)
           /\ Read(Entry) = IF Entry \in DOMAIN entries THEN entries[Entry]
                            ELSE 0
           /\ level = 4 => Entry = Slot(Page) /\ Entry \notin DOMAIN entries
<1>1. /\ rcx \in Nat /\ zeroed \subseteq Nat /\ level \in 1 .. 4
  BY DEF IInv, TypeOK
<1>2. ASSUME NEW z \in zeroed, NEW k \in 0 .. PageSize - 8,
             Entry = z + k
      PROVE  Zeroed(Entry) /\ Zeroed(Entry + 7)
  <2>1. /\ z \in Nat /\ PageSize \in Nat
    BY <1>1, Numbers
  <2>2. z <= Entry /\ Entry + 7 < z + PageSize /\ Entry <= Entry + 7
    BY ONLY <1>2, <2>1
  <2>3. z <= Entry + 7 /\ Entry < z + PageSize
    BY ONLY <1>2, <2>1
  <2> QED
    BY <2>2, <2>3 DEF Zeroed
<1> DEFINE room == 0 .. PageSize - 8
<1>3. CASE level = 1
  <2>1. Entry = TableBase + 0 /\ TableBase \in zeroed
    BY <1>3, EntryIs, Numbers DEF IInv, ClearedHere, WalkHere, Searching
  <2>2. 0 \in room
    BY Numbers
  <2> QED
    BY <1>2, <1>3, <2>1, <2>2 DEF Read
<1>4. CASE level = 2
  <2>1. HasPdpt /\ base = Pdpt
    BY <1>4 DEF WalkHere, Searching
  <2>2. Pdpt \in Nat /\ Pdpt - 3 \in zeroed
    BY <2>1, PlacesAre DEF IInv, UpperHere
  <2>3. Entry = (Pdpt - 3) + 3
    BY <1>4, <2>1, <2>2, EntryIs
  <2>4. 3 \in room
    BY Numbers
  <2> QED
    BY <1>2, <1>4, <2>2, <2>3, <2>4 DEF Read
<1>5. CASE level = 3
  <2>1. HasPd /\ base = Pd
    BY <1>5 DEF WalkHere, Searching
  <2>2. Pd \in Nat /\ Pd \in zeroed
    BY <2>1, PlacesAre DEF IInv, UpperHere
  <2>3. Entry = Pd + 8 * Column /\ 8 * Column \in 0 .. PageSize - 8
    BY <1>5, <2>1, EntryIs, PagesAre, Numbers
  <2> QED
    BY <1>2, <1>5, <2>2, <2>3 DEF Read
<1>6. CASE level = 4
  <2>1. m = Column + 1 /\ base = Pt(Column)
    BY <1>6 DEF WalkHere
  <2>2. Column \in 0 .. m - 1 /\ Page % Fanout \in 0 .. Fanout - 1
    BY <2>1, PagesAre
  <2>3. Pt(Column) \in zeroed
    BY <2>2 DEF BottomHere
  <2>4. /\ Entry = Pt(Column) + 8 * (Page % Fanout)
        /\ 8 * (Page % Fanout) \in 0 .. PageSize - 8
    BY <1>6, <2>1, <2>2, EntryIs, Numbers
  <2>5. Entry = Slot(Page) /\ Entry \notin DOMAIN entries
    BY <2>1, <2>4, NoFrameYet DEF Slot, Column
  <2> QED
    BY <1>2, <2>3, <2>4, <2>5 DEF Read
<1> QED
  BY <1>1, <1>3, <1>4, <1>5, <1>6

\* What is left to show of the tree after a step.
LEMMA TreeWillBe ==
    ASSUME NEW m, BottomHere(m)', EntriesHere(m)', WalkHere(m)'
    PROVE  TreeHere'
<1>1. m \in 0 .. Half
  BY DEF BottomHere
<1> QED
  BY <1>1 DEF TreeHere

-----------------------------------------------------------------------------
(* The steps. *)

\* The tables keep their names while nothing is written.
LEMMA NamesStay ==
    ASSUME UNCHANGED entries
    PROVE  /\ HasPdpt' = HasPdpt /\ HasPd' = HasPd
           /\ Pdpt' = Pdpt /\ Pd' = Pd
           /\ \A j : Pt(j)' = Pt(j)
           /\ \A q : Slot(q)' = Slot(q)
  BY DEF HasPdpt, HasPd, Pdpt, Pd, Pt, Slot

\* And so does the tree, wherever the next table will be.
LEMMA TreeStays ==
    ASSUME IInv, NEW m \in Nat, BottomHere(m), EntriesHere(m),
           UNCHANGED <<entries, zeroed>>, Entered' = Entered,
           rcx' = rcx \/ rcx' = rcx + PageSize
    PROVE  ClearedHere' /\ UpperHere' /\ BottomHere(m)' /\ EntriesHere(m)'
<1>1. /\ HasPdpt' = HasPdpt /\ HasPd' = HasPd /\ Pdpt' = Pdpt /\ Pd' = Pd
      /\ \A j : Pt(j)' = Pt(j)
      /\ \A q : Slot(q)' = Slot(q)
  BY NamesStay
<1>2. rcx \in Nat /\ PageSize \in Nat /\ PageSize % 4 = 0 /\ PageSize > 0
  BY Numbers DEF IInv, TypeOK
<1>3. rcx' \in Nat /\ rcx <= rcx' /\ rcx' % 4 = rcx % 4
  BY <1>2
<1>4. rcx % PageSize = 0 => rcx' % PageSize = 0
  <2>1. SUFFICES ASSUME rcx % PageSize = 0, rcx' = rcx + PageSize
                 PROVE  rcx' % PageSize = 0
    BY DEF IInv
  <2> DEFINE q == rcx \div PageSize
  <2>2. q \in Nat /\ rcx = PageSize * q + (rcx % PageSize)
    BY <1>2, Divided
  <2> HIDE DEF q
  <2>3. PageSize * q \in Nat /\ PageSize * (q + 1) = PageSize * q + PageSize
    BY <1>2, <2>2, Grows
  <2>4. rcx' = PageSize * (q + 1) + 0
    BY <1>2, <2>1, <2>2, <2>3
  <2>5. (PageSize * (q + 1) + 0) % PageSize = 0
    BY <1>2, <2>2, Quotient
  <2> QED
    BY <2>4, <2>5
<1>5. zeroed \subseteq Nat /\ TableBase \in Nat
  BY Numbers DEF IInv, TypeOK
<1>6. ClearedHere'
  <2>1. ClearedHere
    BY DEF IInv
  <2>2. ASSUME NEW z \in zeroed
        PROVE  /\ TableBase <= z /\ z + PageSize <= rcx'
               /\ z + PageSize <= IdentityLimit
    BY <1>2, <1>3, <1>5, <2>1 DEF ClearedHere
  <2>3. TableBase \in zeroed /\ TableBase + PageSize <= rcx'
    BY <2>1, <2>2 DEF ClearedHere
  <2>4. /\ HasPdpt => rcx' % 4 = 3
        /\ ~HasPdpt => rcx' % 4 = 0 /\ rcx' % PageSize = 0
    BY <1>3, <1>4, <2>1 DEF ClearedHere
  <2> QED
    BY <1>1, <2>2, <2>3, <2>4 DEF ClearedHere
<1>7. UpperHere'
  <2>1. UpperHere /\ (HasPdpt => Pdpt \in Nat) /\ (HasPd => Pd \in Nat)
    BY DEF IInv, TypeOK, HasPdpt, HasPd, Pdpt, Pd
  <2>2. HasPdpt => Pdpt + PageSize <= rcx'
    BY <1>2, <1>3, <2>1 DEF UpperHere
  <2>3. HasPd => Pd + PageSize <= rcx'
    BY <1>2, <1>3, <2>1 DEF UpperHere
  <2> QED
    BY <1>1, <2>1, <2>2, <2>3 DEF UpperHere
<1>8. BottomHere(m)'
  <2>1. PageSize * (Half + m + 3) \in Nat
    BY Numbers
  <2>2. HasPd => PageSize * (Half + m + 3) <= rcx'
    BY ONLY BottomHere(m), <1>2, <1>3, <2>1 DEF BottomHere
  <2>3. ASSUME NEW j \in 0 .. m - 1
        PROVE  Pt(j) + PageSize <= rcx'
    <3>1. Pt(j) \in zeroed /\ Pt(j) + PageSize <= rcx
      BY DEF BottomHere
    <3>2. Pt(j) \in Nat
      BY <1>5, <3>1
    <3> QED
      BY ONLY <1>2, <1>3, <3>1, <3>2
  <2> QED
    BY <1>1, <2>2, <2>3 DEF BottomHere
<1>9. EntriesHere(m)'
  BY <1>1 DEF EntriesHere
<1> QED
  BY <1>6, <1>7, <1>8, <1>9

\* So do the frames given out.
LEMMA FramesStay ==
    ASSUME IInv, UNCHANGED <<entries, rbx>>, Entered' = Entered,
           pc' = "adjust_frame" => Entered > Fanout
    PROVE  FramesHere'
<1>1. \A q : Slot(q)' = Slot(q)
  BY NamesStay
<1> QED
  BY <1>1 DEF IInv, FramesHere

LEMMA Initially == Init => IInv
<1> SUFFICES ASSUME Init PROVE IInv
  OBVIOUS
<1> USE DEF Init
<1>1. /\ PageSize \in Nat /\ PageSize > 0 /\ TableBase \in Nat /\ TableBase > 0
      /\ rcx = TableBase + PageSize
  BY Numbers
<1>2. DOMAIN entries = {} /\ ~HasPdpt /\ ~HasPd
  BY DEF HasPdpt, HasPd
<1>3. Page = 0 /\ Entered = 0 /\ Column = 0 /\ Page % Fanout = 0
  <2>1. 0 \div PageSize = 0 /\ 0 \div Fanout = 0 /\ 0 % Fanout = 0
    <3>1. \A d \in Nat : d > 0 => (d * 0 + 0) \div d = 0 /\ (d * 0 + 0) % d = 0
      BY Quotient
    <3>2. \A d \in Nat : d * 0 + 0 = 0
      OBVIOUS
    <3> QED
      BY <1>1, <3>1, <3>2, Numbers
  <2>2. Page = 0
    BY <2>1 DEF Page
  <2> QED
    BY <2>1, <2>2 DEF Entered, Column
<1>4. TypeOK
  <2>1. pages \in Nat /\ pages > 0
    BY PagesAssumption
  <2>2. r8 \in 0 .. VirtualLimit
    <3>1. PageSize * pages \in Nat /\ VirtualLimit = PageSize * pages
      BY <1>1, <2>1 DEF VirtualLimit
    <3> QED
      BY <3>1
  <2> QED
    BY <1>1, <1>2, <2>2 DEF TypeOK, Locations
<1>5. ClearedHere
  <2>1. rcx = PageSize * (Half + 1) + 0
    BY <1>1, Numbers
  <2>2. (PageSize * (Half + 1) + 0) % PageSize = 0
    BY <1>1, Numbers, Quotient
  <2>3. rcx % 4 = 0
    BY <1>1, Numbers
  <2> QED
    BY <1>1, <1>2, <2>1, <2>2, <2>3, Numbers DEF ClearedHere
<1>6. UpperHere
  BY <1>2 DEF UpperHere
<1>7. FramesHere
  <2>1. PageSize * 0 = 0 /\ rbx = 0 /\ pc # "adjust_frame"
    BY <1>1
  <2> QED
    BY <1>3, <2>1 DEF FramesHere
<1>8. BottomHere(0) /\ EntriesHere(0)
  BY <1>2, Numbers DEF BottomHere, EntriesHere
<1>9. WalkHere(0)
  <2>1. r8 = PageSize * 0 /\ 0 < pages /\ pages \in Nat
    BY <1>1, PagesAssumption
  <2> QED
    BY <1>3, <2>1 DEF WalkHere, Searching, Placing
<1> QED
  BY <1>4, <1>5, <1>6, <1>7, <1>8, <1>9, Numbers
  DEF IInv, TreeHere, BottomHere

\* A word that is not zero leads to the table of the next level.
LEMMA DescendStep ==
    ASSUME IInv, Descend
    PROVE  IInv'
<1>1. PICK m \in Nat : BottomHere(m) /\ EntriesHere(m) /\ WalkHere(m)
  BY DEF IInv, TreeHere
<1>2. /\ pc = "page_walk" /\ level \in 1 .. 3
      /\ level' = level + 1 /\ base' = Read(Entry) /\ Read(Entry) # 0
      /\ UNCHANGED <<regions, pages, pc, r8, rbx, rcx, zeroed, entries>>
  BY DEF Descend, IInv, TypeOK, Machine
<1>3. Page' = Page /\ Column' = Column /\ Entered' = Entered
  BY <1>2 DEF Page, Column, Entered
<1>4. Entry \in DOMAIN entries /\ base' = entries[Entry]
  BY <1>1, <1>2, ReadIs
<1>5. ClearedHere' /\ UpperHere' /\ BottomHere(m)' /\ EntriesHere(m)'
  BY <1>1, <1>2, <1>3, TreeStays
<1>6. FramesHere'
  BY <1>2, <1>3, FramesStay
<1>7. TypeOK'
  <2>1. base' \in Nat /\ level' \in 1 .. 4
    BY <1>2, <1>4 DEF IInv, TypeOK
  <2> QED
    BY <1>2, <2>1 DEF IInv, TypeOK, VirtualLimit
<1>8. /\ HasPdpt' = HasPdpt /\ HasPd' = HasPd /\ Pdpt' = Pdpt /\ Pd' = Pd
      /\ \A j : Pt(j)' = Pt(j)
      /\ \A q : Slot(q)' = Slot(q)
  BY <1>2, NamesStay
<1>9. WalkHere(m)'
  <2>1. CASE level = 1
    <3>1. Entry = TableBase + 8 * 0
      BY <1>1, <1>2, <2>1, EntryIs DEF WalkHere, Searching
    <3>2. Entry = TableBase
      BY <3>1, Numbers
    <3>3. HasPdpt /\ base' = Pdpt
      BY <1>4, <3>2 DEF HasPdpt, Pdpt
    <3> QED
      BY <1>1, <1>2, <1>3, <1>8, <2>1, <3>3 DEF WalkHere, Searching, Placing
  <2>2. CASE level = 2
    <3>1. HasPdpt /\ Entry = Pdpt + 8 * 0 /\ Pdpt \in Nat
      BY <1>1, <1>2, <2>2, EntryIs, PlacesAre DEF WalkHere, Searching
    <3>2. Entry = Pdpt
      BY <3>1
    <3>3. HasPd /\ base' = Pd
      BY <1>4, <3>1, <3>2 DEF HasPd, Pd
    <3> QED
      BY <1>1, <1>2, <1>3, <1>8, <2>2, <3>3 DEF WalkHere, Searching, Placing
  <2>3. CASE level = 3
    <3>1. HasPd /\ Entry = Pd + 8 * Column
      BY <1>1, <1>2, <2>3, EntryIs DEF WalkHere, Searching
    <3>2. m # Column
      <4>1. m < Fanout
        BY <1>1, PagesAre, Numbers
      <4> QED
        BY <1>1, <1>4, <3>1, <4>1, NoTableYet
    <3>3. m = Column + 1
      BY <1>1, <3>2 DEF WalkHere
    <3>4. base' = Pt(Column)
      BY <1>4, <3>1 DEF Pt
    <3> QED
      BY <1>1, <1>2, <1>3, <1>8, <2>3, <3>3, <3>4
      DEF WalkHere, Searching, Placing
  <2> QED
    BY <1>2, <2>1, <2>2, <2>3
<1> QED
  BY <1>5, <1>6, <1>7, <1>9, TreeWillBe DEF IInv

\* A zero means that the table is missing, on every level but the last.
LEMMA AllocateStep ==
    ASSUME IInv, AllocateBlind \/ AllocateChecked
    PROVE  IInv'
<1>1. PICK m \in Nat : BottomHere(m) /\ EntriesHere(m) /\ WalkHere(m)
  BY DEF IInv, TreeHere
<1>2. /\ pc = "page_walk" /\ level \in 1 .. 3 /\ Read(Entry) = 0
      /\ pc' \in {"approve_table", "adjust_table"}
      /\ UNCHANGED <<regions, pages, r8, level, base, rbx, rcx, zeroed,
                     entries>>
  BY DEF AllocateBlind, AllocateChecked, Machine
<1>3. Page' = Page /\ Column' = Column /\ Entered' = Entered
  BY <1>2 DEF Page, Column, Entered
<1>4. Entry \in DOMAIN entries => entries[Entry] = 0
  BY <1>1, <1>2, ReadIs
<1>5. ClearedHere' /\ UpperHere' /\ BottomHere(m)' /\ EntriesHere(m)'
  BY <1>1, <1>2, <1>3, TreeStays
<1>6. FramesHere'
  BY <1>2, <1>3, FramesStay
<1>7. TypeOK'
  BY <1>2 DEF IInv, TypeOK, Locations, VirtualLimit
<1>8. /\ HasPdpt' = HasPdpt /\ HasPd' = HasPd /\ Pdpt' = Pdpt /\ Pd' = Pd
      /\ \A j : Pt(j)' = Pt(j)
      /\ \A q : Slot(q)' = Slot(q)
  BY <1>2, NamesStay
<1>9. level = 1 => ~HasPdpt
  <2>1. SUFFICES ASSUME level = 1, HasPdpt PROVE FALSE
    OBVIOUS
  <2>2. Entry = TableBase + 8 * 0
    BY <1>1, <1>2, <2>1, EntryIs DEF WalkHere, Searching
  <2>3. Entry = TableBase
    BY <2>2, Numbers
  <2>4. Pdpt = 0
    BY <1>4, <2>1, <2>3 DEF HasPdpt, Pdpt
  <2> QED
    BY <2>1, <2>4, Numbers DEF IInv, UpperHere
<1>10. level = 2 => ~HasPd
  <2>1. SUFFICES ASSUME level = 2, HasPd PROVE FALSE
    OBVIOUS
  <2>2. Entry = Pdpt + 8 * 0 /\ Pdpt \in Nat /\ HasPdpt
    BY <1>1, <1>2, <2>1, EntryIs, PlacesAre DEF WalkHere, Searching
  <2>3. Entry = Pdpt
    BY <2>2
  <2>4. Pd = 0
    BY <1>4, <2>1, <2>3 DEF HasPd, Pd
  <2> QED
    BY <2>1, <2>2, <2>4, Numbers DEF IInv, UpperHere
<1>11. level = 3 => m = Column
  <2>1. SUFFICES ASSUME level = 3, m = Column + 1 PROVE FALSE
    BY <1>1 DEF WalkHere
  <2>2. HasPd /\ Entry = Pd + 8 * Column
    BY <1>1, <1>2, <2>1, EntryIs DEF WalkHere, Searching
  <2>3. Column \in 0 .. m - 1
    BY <1>1, <2>1, PagesAre
  <2>4. Entry \in DOMAIN entries /\ Pd + PageSize <= Pt(Column)
    BY <1>1, <2>2, <2>3 DEF BottomHere
  <2>5. Pt(Column) = 0 /\ Pd \in Nat
    BY <1>1, <1>4, <2>2, <2>4, PlacesAre DEF Pt
  <2> QED
    BY <2>4, <2>5, Numbers
<1>12. WalkHere(m)'
  BY <1>1, <1>2, <1>3, <1>8, <1>9, <1>10, <1>11
  DEF WalkHere, Searching, Placing
<1> QED
  BY <1>5, <1>6, <1>7, <1>12, TreeWillBe DEF IInv

\* The search for memory moves the next table, or finds none that is mapped.
LEMMA AdjustTableStep ==
    ASSUME IInv, AdjustTable \/ TableFault
    PROVE  IInv'
<1>1. PICK m \in Nat : BottomHere(m) /\ EntriesHere(m) /\ WalkHere(m)
  BY DEF IInv, TreeHere
<1>2. /\ pc \in {"adjust_table", "approve_table"}
      /\ pc' \in {"approve_table", "adjust_table", "page_fault"}
      /\ rcx' = rcx \/ rcx' = rcx + PageSize
      /\ UNCHANGED <<regions, pages, r8, level, base, rbx, zeroed, entries>>
  BY DEF AdjustTable, TableFault, Machine
<1>3. Page' = Page /\ Column' = Column /\ Entered' = Entered
  BY <1>2 DEF Page, Column, Entered
<1>4. ClearedHere' /\ UpperHere' /\ BottomHere(m)' /\ EntriesHere(m)'
  BY <1>1, <1>2, <1>3, TreeStays
<1>5. FramesHere'
  BY <1>2, <1>3, FramesStay
<1>6. TypeOK'
  <2>1. rcx' \in Nat /\ pc' \in Locations
    BY <1>2, Numbers DEF IInv, TypeOK, Locations
  <2> QED
    BY <1>2, <2>1 DEF IInv, TypeOK, VirtualLimit
<1>7. /\ HasPdpt' = HasPdpt /\ HasPd' = HasPd /\ Pdpt' = Pdpt /\ Pd' = Pd
      /\ \A j : Pt(j)' = Pt(j)
      /\ \A q : Slot(q)' = Slot(q)
  BY <1>2, NamesStay
<1>8. WalkHere(m)'
  <2>1. pages \in Nat /\ Page \in Nat
    BY <1>1, PagesAssumption DEF IInv, TypeOK, WalkHere
  <2> QED
    BY <1>1, <1>2, <1>3, <1>7, <2>1 DEF WalkHere, Searching, Placing
<1> QED
  BY <1>4, <1>5, <1>6, <1>8, TreeWillBe DEF IInv

\* One word is written where there was none.
LEMMA Written ==
    ASSUME NEW f, DOMAIN f = DOMAIN entries,
           \A b \in DOMAIN entries : f[b] = entries[b],
           NEW a, a \notin DOMAIN entries, NEW x,
           entries' = Write(f, a, x)
    PROVE  /\ DOMAIN entries' = DOMAIN entries \union {a}
           /\ entries'[a] = x
           /\ \A b \in DOMAIN entries : entries'[b] = entries[b]
<1>1. entries' = [b \in DOMAIN entries \union {a} |->
                     IF b = a THEN x ELSE f[b]]
  BY DEF Write
<1>2. DOMAIN entries' = DOMAIN entries \union {a}
  BY <1>1
<1>3. entries'[a] = x
  BY <1>1
<1>4. \A b \in DOMAIN entries : entries'[b] = entries[b]
  BY <1>1
<1> QED
  BY <1>2, <1>3, <1>4

\* The tables there are keep their names when words are added.
LEMMA NamesKept ==
    ASSUME DOMAIN entries \subseteq DOMAIN entries',
           \A b \in DOMAIN entries : entries'[b] = entries[b],
           NEW m \in Nat, BottomHere(m)
    PROVE  /\ HasPdpt => HasPdpt' /\ Pdpt' = Pdpt
           /\ HasPd => HasPd' /\ Pd' = Pd
           /\ \A j \in 0 .. m - 1 :
                 Pt(j)' = Pt(j) /\ Pd + 8 * j \in DOMAIN entries'
           /\ \A q : q \div Fanout \in 0 .. m - 1 => Slot(q)' = Slot(q)
<1>1. HasPdpt => HasPdpt' /\ Pdpt' = Pdpt
  BY DEF HasPdpt, Pdpt
<1>2. HasPd => HasPd' /\ Pd' = Pd
  BY <1>1 DEF HasPd, Pd
<1>3. ASSUME NEW j \in 0 .. m - 1
      PROVE  Pt(j)' = Pt(j) /\ Pd + 8 * j \in DOMAIN entries'
  <2>1. HasPd /\ Pd + 8 * j \in DOMAIN entries
    BY DEF BottomHere
  <2> QED
    BY <1>2, <2>1 DEF Pt
<1>4. \A q : q \div Fanout \in 0 .. m - 1 => Slot(q)' = Slot(q)
  BY <1>3 DEF Slot
<1> QED
  BY <1>1, <1>2, <1>3, <1>4

\* The flags: RCX is a multiple of 4 for the first table and keeps them later.
LEMMA FlagsAre ==
    ASSUME IInv
    PROVE  /\ WithFlags(rcx) \in Nat /\ WithFlags(rcx) % 4 = 3
           /\ rcx <= WithFlags(rcx)
           /\ ~HasPdpt => WithFlags(rcx) = rcx + 3
           /\ HasPdpt => WithFlags(rcx) = rcx
<1>1. rcx \in Nat
  BY DEF IInv, TypeOK
<1>2. HasPdpt => rcx % 4 = 3
  BY DEF IInv, ClearedHere
<1>3. ~HasPdpt => rcx % 4 = 0
  BY DEF IInv, ClearedHere
<1>4. CASE HasPdpt
  <2>1. WithFlags(rcx) = rcx
    BY <1>1, <1>2, <1>4 DEF WithFlags
  <2> QED
    BY <1>1, <1>2, <1>4, <2>1
<1>5. CASE ~HasPdpt
  <2>1. WithFlags(rcx) = rcx + 3
    BY <1>1, <1>3, <1>5 DEF WithFlags
  <2>2. (rcx + 3) % 4 = 3
    BY <1>1, <1>3, <1>5
  <2> QED
    BY <1>1, <1>5, <2>1, <2>2
<1> QED
  BY <1>4, <1>5

\* What an entered table leaves alone, on every level.
LEMMA ApproveTableKeeps ==
    ASSUME IInv, ApproveTable,
           NEW m \in Nat, BottomHere(m), EntriesHere(m), WalkHere(m)
    PROVE  /\ level \in 1 .. 3
           /\ Entry \in Nat /\ Entry \notin DOMAIN entries
           /\ DOMAIN entries' = DOMAIN entries \union {Entry}
           /\ entries'[Entry] = WithFlags(rcx)
           /\ \A b \in DOMAIN entries : entries'[b] = entries[b]
           /\ level = 1 => Entry = TableBase
           /\ level = 2 => HasPdpt /\ Entry = Pdpt
           /\ level = 3 => HasPd /\ m = Column /\ Entry = Pd + 8 * m
<1>1. /\ pc = "approve_table" /\ rcx \in Nat /\ level \in 1 .. 4
      /\ DOMAIN entries \subseteq Nat
  BY DEF ApproveTable, IInv, TypeOK
<1>2. level \in 1 .. 3
  BY <1>1 DEF WalkHere
<1>3. ASSUME level = 1
      PROVE  /\ Entry \in Nat /\ Entry \notin DOMAIN entries
             /\ Entry = TableBase
  <2>1. ~HasPdpt /\ Entry = TableBase + 8 * 0
    BY <1>1, <1>3, EntryIs DEF WalkHere, Searching
  <2>2. Entry = TableBase /\ Entry \in Nat
    BY <2>1, Numbers
  <2> QED
    BY <1>3, <2>1, <2>2 DEF HasPdpt
<1>4. ASSUME level = 2
      PROVE  /\ Entry \in Nat /\ Entry \notin DOMAIN entries
             /\ HasPdpt /\ Entry = Pdpt
  <2>1. /\ HasPdpt /\ ~HasPd /\ Entry = Pdpt + 8 * 0 /\ Pdpt \in Nat
    BY <1>1, <1>4, EntryIs, PlacesAre DEF WalkHere, Searching
  <2>2. Entry = Pdpt /\ Entry \in Nat
    BY <2>1
  <2> QED
    BY <1>4, <2>1, <2>2 DEF HasPd
<1>5. ASSUME level = 3
      PROVE  /\ Entry \in Nat /\ Entry \notin DOMAIN entries
             /\ HasPd /\ m = Column
             /\ Entry = Pd + 8 * m
  <2>1. /\ HasPd /\ m = Column /\ Entry = Pd + 8 * Column /\ Pd \in Nat
    BY <1>1, <1>5, EntryIs, PlacesAre DEF WalkHere, Searching
  <2>2. m < Fanout
    BY PagesAre, Numbers
  <2>3. Entry \notin DOMAIN entries
    BY <2>1, <2>2, NoTableYet
  <2> QED
    BY <1>5, <2>1, <2>3
<1>6. Entry \in Nat /\ Entry \notin DOMAIN entries
  BY <1>2, <1>3, <1>4, <1>5
<1>7. /\ DOMAIN entries' = DOMAIN entries \union {Entry}
      /\ entries'[Entry] = WithFlags(rcx)
      /\ \A b \in DOMAIN entries : entries'[b] = entries[b]
  <2> DEFINE kept == [a \in {x \in DOMAIN entries :
                                x < rcx \/ rcx + PageSize <= x} |-> entries[a]]
  <2>1. \A a \in DOMAIN entries : a < rcx
    <3>1. \A a \in DOMAIN entries : a \in Nat /\ a + 8 <= rcx
      BY PlacesAre
    <3> QED
      BY <1>1, <3>1
  <2>2. DOMAIN kept = DOMAIN entries
    BY <2>1
  <2>3. \A b \in DOMAIN entries : kept[b] = entries[b]
    BY <2>2
  <2>4. entries' = Write(kept, Entry, WithFlags(rcx))
    BY DEF ApproveTable
  <2> HIDE DEF kept
  <2> QED
    BY <1>6, <2>2, <2>3, <2>4, Written
<1> QED
  BY <1>2, <1>3, <1>4, <1>5, <1>6, <1>7

\* What the entered table leaves true, whatever its level.
LEMMA ApproveTableCleared ==
    ASSUME IInv, ApproveTable,
           NEW m \in Nat, BottomHere(m), EntriesHere(m), WalkHere(m)
    PROVE  TypeOK' /\ ClearedHere' /\ FramesHere'
<1>1. /\ level \in 1 .. 3
      /\ Entry \in Nat /\ Entry \notin DOMAIN entries
      /\ DOMAIN entries' = DOMAIN entries \union {Entry}
      /\ entries'[Entry] = WithFlags(rcx)
      /\ \A b \in DOMAIN entries : entries'[b] = entries[b]
  BY ApproveTableKeeps
<1>2. /\ pc = "approve_table" /\ pc' = "page_walk"
      /\ rcx + PageSize <= IdentityLimit /\ zeroed' = zeroed \union {rcx}
      /\ rcx' = WithFlags(rcx) + PageSize /\ base' = WithFlags(rcx)
      /\ level' = level + 1
      /\ UNCHANGED <<regions, pages, r8, rbx>>
  BY DEF ApproveTable, Machine
<1>3. /\ WithFlags(rcx) \in Nat /\ WithFlags(rcx) % 4 = 3
      /\ rcx <= WithFlags(rcx) /\ rcx \in Nat
      /\ PageSize \in Nat /\ PageSize % 4 = 0 /\ PageSize > 0
      /\ TableBase \in Nat /\ IdentityLimit \in Nat
  BY FlagsAre, Numbers DEF IInv, TypeOK
<1>4. Page' = Page /\ Entered' = Entered
  BY <1>2 DEF Page, Entered
<1>5. TypeOK'
  <2>1. rcx' \in Nat /\ base' \in Nat /\ level' \in 1 .. 4
        /\ zeroed' \subseteq Nat
    BY <1>1, <1>2, <1>3 DEF IInv, TypeOK
  <2>2. /\ DOMAIN entries' \subseteq Nat
        /\ \A a \in DOMAIN entries' : entries'[a] \in Nat
    BY <1>1, <1>3 DEF IInv, TypeOK
  <2> QED
    BY <1>2, <2>1, <2>2 DEF IInv, TypeOK, Locations, VirtualLimit
<1>6. HasPdpt'
  <2>1. (level # 1 => HasPdpt) /\ (level = 1 => Entry = TableBase)
    <3>1. /\ level = 1 => Entry = TableBase
          /\ level = 2 => HasPdpt
          /\ level = 3 => HasPd
      BY ApproveTableKeeps
    <3> QED
      BY <1>1, <3>1 DEF HasPd
  <2> QED
    BY <1>1, <2>1 DEF HasPdpt
<1>7. ClearedHere'
  <2>1. ClearedHere /\ zeroed \subseteq Nat
    BY DEF IInv, TypeOK
  <2>2. TableBase \in zeroed' /\ TableBase + PageSize <= rcx
    BY <1>2, <2>1 DEF ClearedHere
  <2>3. rcx <= rcx' /\ rcx + PageSize <= rcx' /\ TableBase <= rcx
        /\ rcx' \in Nat
    BY <1>2, <1>3, <2>2
  <2>4. ASSUME NEW z \in zeroed'
        PROVE  /\ TableBase <= z /\ z + PageSize <= rcx'
               /\ z + PageSize <= IdentityLimit
    <3>1. CASE z = rcx
      BY <1>2, <2>3, <3>1
    <3>2. CASE z \in zeroed
      <4>1. /\ TableBase <= z /\ z + PageSize <= rcx /\ z \in Nat
            /\ z + PageSize <= IdentityLimit
        BY <2>1, <3>2 DEF ClearedHere
      <4> QED
        BY <1>3, <2>3, <4>1
    <3> QED
      BY <1>2, <3>1, <3>2
  <2>5. rcx' % 4 = 3
    BY <1>2, <1>3
  <2>6. TableBase + PageSize <= rcx'
    BY <1>3, <2>2, <2>3
  <2> QED
    BY <1>6, <2>2, <2>4, <2>5, <2>6 DEF ClearedHere
<1>8. FramesHere'
  <2>1. ASSUME NEW q \in 0 .. Entered - 1
        PROVE  /\ Slot(q)' = Slot(q) /\ Slot(q) \in DOMAIN entries
               /\ Slot(q) \in DOMAIN entries'
               /\ entries'[Slot(q)] = entries[Slot(q)]
    <3>1. q \div Fanout \in 0 .. m - 1
      BY PagesAre
    <3>2. Slot(q)' = Slot(q)
      BY <1>1, <3>1, NamesKept
    <3>3. Slot(q) \in DOMAIN entries
      BY DEF IInv, FramesHere
    <3> QED
      BY <1>1, <3>2, <3>3
  <2>2. \A q \in 0 .. Entered - 1 : (entries[Slot(q)])' = entries[Slot(q)]
    BY <2>1
  <2> QED
    BY <1>2, <1>4, <2>1, <2>2 DEF IInv, FramesHere
<1> QED
  BY <1>5, <1>7, <1>8

\* The first table.
LEMMA ApproveFirst ==
    ASSUME IInv, ApproveTable, level = 1,
           NEW m \in Nat, BottomHere(m), EntriesHere(m), WalkHere(m)
    PROVE  UpperHere' /\ TreeHere'
<1>1. /\ Entry = TableBase /\ Entry \in Nat
      /\ DOMAIN entries' = DOMAIN entries \union {Entry}
      /\ entries'[Entry] = WithFlags(rcx)
      /\ \A b \in DOMAIN entries : entries'[b] = entries[b]
  BY ApproveTableKeeps
<1>2. /\ pc = "approve_table" /\ pc' = "page_walk"
      /\ zeroed' = zeroed \union {rcx}
      /\ rcx' = WithFlags(rcx) + PageSize /\ base' = WithFlags(rcx)
      /\ level' = 2
      /\ UNCHANGED <<regions, pages, r8, rbx>>
  BY DEF ApproveTable, Machine
<1>3. ~HasPdpt /\ ~HasPd /\ m = 0
  BY <1>2 DEF WalkHere, BottomHere, HasPd
<1>4. /\ rcx \in Nat /\ WithFlags(rcx) = rcx + 3 /\ rcx % PageSize = 0
      /\ TableBase + PageSize <= rcx
  BY <1>3, FlagsAre DEF IInv, TypeOK, ClearedHere
<1>5. HasPdpt' /\ Pdpt' = rcx + 3
  BY <1>1, <1>4 DEF HasPdpt, Pdpt
<1>6. ~HasPd'
  <2>1. \A a \in DOMAIN entries : a \in Nat /\ a + 8 <= rcx
    BY PlacesAre
  <2>2. TableBase < rcx
    BY <1>4, Numbers
  <2>3. Pdpt' \notin DOMAIN entries'
    BY <1>1, <1>4, <1>5, <2>1, <2>2, Numbers
  <2> QED
    BY <2>3 DEF HasPd
<1>7. UpperHere'
  <2>1. Pdpt' - 3 = rcx /\ Pdpt' + PageSize <= rcx'
    BY <1>2, <1>4, <1>5, Numbers
  <2> QED
    BY <1>2, <1>4, <1>6, <2>1 DEF UpperHere
<1>8. Page' = Page /\ Column' = Column /\ Entered' = Entered
  BY <1>2 DEF Page, Column, Entered
<1>9. BottomHere(0)'
  BY <1>6, Numbers DEF BottomHere
<1>10. EntriesHere(0)'
  <2>1. ASSUME NEW a \in DOMAIN entries
        PROVE  a = TableBase
    <3>1. 0 .. Entered - 1 = {}
      BY <1>3, PagesAre
    <3> QED
      BY <1>3, <3>1 DEF EntriesHere
  <2> QED
    BY <1>1, <2>1 DEF EntriesHere
<1>11. WalkHere(0)'
  BY <1>2, <1>3, <1>4, <1>5, <1>8 DEF WalkHere, Searching, Placing
<1> QED
  BY <1>7, <1>9, <1>10, <1>11, TreeWillBe

\* The directory.
LEMMA ApproveSecond ==
    ASSUME IInv, ApproveTable, level = 2,
           NEW m \in Nat, BottomHere(m), EntriesHere(m), WalkHere(m)
    PROVE  UpperHere' /\ TreeHere'
<1>1. /\ HasPdpt /\ Entry = Pdpt /\ Entry \in Nat
      /\ DOMAIN entries' = DOMAIN entries \union {Entry}
      /\ entries'[Entry] = WithFlags(rcx)
      /\ \A b \in DOMAIN entries : entries'[b] = entries[b]
  BY ApproveTableKeeps
<1>2. /\ pc = "approve_table" /\ pc' = "page_walk"
      /\ zeroed' = zeroed \union {rcx}
      /\ rcx' = WithFlags(rcx) + PageSize /\ base' = WithFlags(rcx)
      /\ level' = 3
      /\ UNCHANGED <<regions, pages, r8, rbx>>
  BY DEF ApproveTable, Machine
<1>3. ~HasPd /\ m = 0
  BY <1>2 DEF WalkHere, BottomHere
<1>4. rcx \in Nat /\ WithFlags(rcx) = rcx /\ rcx' = rcx + PageSize
  BY <1>1, <1>2, FlagsAre DEF IInv, TypeOK
<1>5. HasPdpt' /\ Pdpt' = Pdpt
  BY <1>1 DEF HasPdpt, Pdpt
<1>6. HasPd' /\ Pd' = rcx
  BY <1>1, <1>4, <1>5 DEF HasPd, Pd
<1>7. /\ Pdpt - 3 \in zeroed /\ (Pdpt - 3) % PageSize = 0
      /\ TableBase + PageSize <= Pdpt - 3 /\ Pdpt + PageSize <= rcx
      /\ Pdpt \in Nat
  BY <1>1 DEF IInv, UpperHere
<1>8. UpperHere'
  <2>1. Pdpt + PageSize <= rcx' /\ rcx + PageSize <= rcx'
    BY <1>4, <1>7, Numbers
  <2> QED
    BY <1>2, <1>5, <1>6, <1>7, <2>1 DEF UpperHere
<1>9. Page' = Page /\ Column' = Column /\ Entered' = Entered
  BY <1>2 DEF Page, Column, Entered
<1>10. BottomHere(0)'
  <2>1. PageSize * (Half + 0 + 3) <= rcx'
    <3>1. PageSize * (Half + 0 + 3) = TableBase + 3 * PageSize
      BY Numbers
    <3>2. TableBase \in Nat /\ PageSize \in Nat
      BY Numbers
    <3> QED
      BY ONLY <1>4, <1>7, <3>1, <3>2
  <2> QED
    BY <1>6, <2>1, Numbers DEF BottomHere
<1>11. EntriesHere(0)'
  <2>1. ASSUME NEW a \in DOMAIN entries
        PROVE  a = TableBase
    <3>1. 0 .. Entered - 1 = {}
      BY <1>3, PagesAre
    <3> QED
      BY <1>3, <3>1 DEF EntriesHere
  <2> QED
    BY <1>1, <1>5, <1>6, <2>1 DEF EntriesHere
<1>12. WalkHere(0)'
  BY <1>2, <1>3, <1>4, <1>5, <1>6, <1>9 DEF WalkHere, Searching, Placing
<1> QED
  BY <1>8, <1>10, <1>11, <1>12, TreeWillBe

\* A bottom table: the mapped area has room for it in the directory.
LEMMA ApproveThird ==
    ASSUME IInv, ApproveTable, level = 3,
           NEW m \in Nat, BottomHere(m), EntriesHere(m), WalkHere(m)
    PROVE  UpperHere' /\ TreeHere'
<1>1. /\ HasPd /\ m = Column /\ Entry = Pd + 8 * m /\ Entry \in Nat
      /\ DOMAIN entries' = DOMAIN entries \union {Entry}
      /\ entries'[Entry] = WithFlags(rcx)
      /\ \A b \in DOMAIN entries : entries'[b] = entries[b]
  BY ApproveTableKeeps
<1>2. /\ pc = "approve_table" /\ pc' = "page_walk"
      /\ rcx + PageSize <= IdentityLimit
      /\ zeroed' = zeroed \union {rcx}
      /\ rcx' = WithFlags(rcx) + PageSize /\ base' = WithFlags(rcx)
      /\ level' = 4
      /\ UNCHANGED <<regions, pages, r8, rbx>>
  BY DEF ApproveTable, Machine
<1>3. HasPdpt /\ Pdpt \in Nat /\ Pd \in Nat
  BY <1>1, PlacesAre DEF HasPd
<1>4. rcx \in Nat /\ WithFlags(rcx) = rcx /\ rcx' = rcx + PageSize
  BY <1>2, <1>3, FlagsAre DEF IInv, TypeOK
<1>5. /\ HasPdpt' /\ Pdpt' = Pdpt /\ HasPd' /\ Pd' = Pd
      /\ \A j \in 0 .. m - 1 :
            Pt(j)' = Pt(j) /\ Pd + 8 * j \in DOMAIN entries'
      /\ \A q : q \div Fanout \in 0 .. m - 1 => Slot(q)' = Slot(q)
  BY <1>1, <1>3, NamesKept
<1>6. Pt(m)' = rcx /\ Pd + 8 * m \in DOMAIN entries'
  BY <1>1, <1>4, <1>5 DEF Pt
<1>7. PageSize \in Nat /\ PageSize > 0
  BY Numbers
<1>8. UpperHere'
  <2>1. UpperHere
    BY DEF IInv
  <2>2. Pdpt + PageSize <= rcx'
    BY <1>3, <1>4, <1>7, <2>1 DEF UpperHere
  <2>3. Pd + PageSize <= rcx'
    BY <1>1, <1>3, <1>4, <1>7, <2>1 DEF UpperHere
  <2> QED
    BY <1>1, <1>2, <1>3, <1>5, <2>1, <2>2, <2>3 DEF UpperHere
<1>9. Page' = Page /\ Column' = Column /\ Entered' = Entered
  BY <1>2 DEF Page, Column, Entered
<1>10. PageSize * (Half + m + 3) <= rcx
  BY <1>1 DEF BottomHere
<1>11. m + 1 <= Half
  <2> DEFINE n == Half + m + 3
  <2>1. n \in Nat /\ Half \in Nat
    BY Numbers
  <2>2. PageSize * n \in Nat /\ PageSize * (n + 1) = PageSize * n + PageSize
    BY <1>7, <2>1, Grows
  <2>3. IdentityLimit = PageSize * (2 * Half)
    BY Numbers
  <2> HIDE DEF n
  <2>4. PageSize * (n + 1) <= PageSize * (2 * Half)
    BY ONLY <1>2, <1>4, <1>7, <1>10, <2>1, <2>2, <2>3 DEF n
  <2>5. n + 1 <= 2 * Half
    BY <1>7, <2>1, <2>4, Grows
  <2> QED
    BY ONLY <2>1, <2>5, m \in Nat DEF n
<1>12. BottomHere(m + 1)'
  <2>1. PageSize * (Half + (m + 1) + 3) <= rcx'
    <3> DEFINE n == Half + m + 3
    <3>1. n \in Nat /\ Half + (m + 1) + 3 = n + 1
      BY Numbers
    <3>2. PageSize * n \in Nat /\ PageSize * (n + 1) = PageSize * n + PageSize
      BY <1>7, <3>1, Grows
    <3> HIDE DEF n
    <3>3. PageSize * n <= rcx
      BY <1>10 DEF n
    <3> QED
      BY ONLY <1>4, <1>7, <3>1, <3>2, <3>3
  <2>2. ASSUME NEW j \in 0 .. m - 1
        PROVE  /\ Pt(j) \in Nat /\ Pt(j) \in zeroed
               /\ Pd + PageSize <= Pt(j) /\ Pt(j) + PageSize <= rcx
               /\ \A i \in 0 .. m - 1 : i < j => Pt(i) + PageSize <= Pt(j)
    BY PlacesAre DEF BottomHere
  <2>3. ASSUME NEW j \in 0 .. m
        PROVE  /\ Pd + 8 * j \in DOMAIN entries'
               /\ Pt(j)' \in zeroed'
               /\ Pd + PageSize <= Pt(j)' /\ Pt(j)' + PageSize <= rcx'
               /\ \A i \in 0 .. m : i < j => Pt(i)' + PageSize <= Pt(j)'
    <3>1. CASE j = m
      <4>1. Pd + PageSize <= rcx
        BY <1>1 DEF IInv, UpperHere
      <4>2. \A i \in 0 .. m : i < m => Pt(i)' + PageSize <= rcx
        BY <1>5, <2>2
      <4> QED
        BY <1>2, <1>4, <1>6, <3>1, <4>1, <4>2
    <3>2. CASE j \in 0 .. m - 1
      <4>1. \A i \in 0 .. m : i < j => Pt(i)' + PageSize <= Pt(j)'
        BY <1>5, <2>2, <3>2
      <4>2. Pt(j)' + PageSize <= rcx'
        BY <1>4, <1>5, <1>7, <2>2, <3>2
      <4> QED
        BY <1>2, <1>5, <2>2, <3>2, <4>1, <4>2
    <3> QED
      BY <3>1, <3>2
  <2>4. (m + 1) - 1 = m /\ m + 1 \in 0 .. Half
    BY <1>11, Numbers
  <2> QED
    BY <1>5, <2>1, <2>3, <2>4 DEF BottomHere
<1>13. EntriesHere(m + 1)'
  <2> SUFFICES ASSUME NEW a \in DOMAIN entries'
               PROVE  \/ a = TableBase
                      \/ HasPd' /\ a = Pdpt'
                      \/ \E j \in 0 .. (m + 1) - 1 : a = Pd' + 8 * j
                      \/ \E q \in 0 .. Entered' - 1 : a = Slot(q)'
    BY DEF EntriesHere
  <2>1. CASE a = Entry
    <3>1. m \in 0 .. (m + 1) - 1
      OBVIOUS
    <3> QED
      BY <1>1, <1>5, <2>1, <3>1
  <2>2. CASE a \in DOMAIN entries
    <3>1. \A q \in 0 .. Entered - 1 : Slot(q)' = Slot(q)
      BY <1>5, PagesAre
    <3>2. 0 .. m - 1 \subseteq 0 .. (m + 1) - 1
      OBVIOUS
    <3> QED
      BY <1>5, <1>9, <2>2, <3>1, <3>2 DEF EntriesHere
  <2> QED
    BY <1>1, <2>1, <2>2
<1>14. WalkHere(m + 1)'
  BY <1>1, <1>2, <1>4, <1>5, <1>6, <1>9 DEF WalkHere, Searching, Placing
<1> QED
  BY <1>8, <1>12, <1>13, <1>14, TreeWillBe

\* A missing table is cleared and entered.
LEMMA ApproveTableStep ==
    ASSUME IInv, ApproveTable
    PROVE  IInv'
<1>1. PICK m \in Nat : BottomHere(m) /\ EntriesHere(m) /\ WalkHere(m)
  BY DEF IInv, TreeHere
<1>2. TypeOK' /\ ClearedHere' /\ FramesHere'
  BY <1>1, ApproveTableCleared
<1>3. level = 1 \/ level = 2 \/ level = 3
  <2>1. level \in 1 .. 3
    BY <1>1, ApproveTableKeeps
  <2> QED
    BY <2>1
<1>4. UpperHere' /\ TreeHere'
  BY <1>1, <1>3, ApproveFirst, ApproveSecond, ApproveThird
<1> QED
  BY <1>2, <1>4 DEF IInv

\* The frame test: above the mapped area the next frame is looked for first.
LEMMA AllocateFrameStep ==
    ASSUME IInv, AllocateFrame
    PROVE  IInv'
<1>1. PICK m \in Nat : BottomHere(m) /\ EntriesHere(m) /\ WalkHere(m)
  BY DEF IInv, TreeHere
<1>2. /\ pc = "page_walk" /\ level = 4
      /\ pc' = IF rbx <= IdentityLimit THEN "approve_frame"
               ELSE "adjust_frame"
      /\ UNCHANGED <<regions, pages, r8, level, base, rbx, rcx, zeroed,
                     entries>>
  BY DEF AllocateFrame, Machine
<1>3. pc' \in {"approve_frame", "adjust_frame"}
  BY <1>2
<1>4. Page' = Page /\ Column' = Column /\ Entered' = Entered
  BY <1>2, <1>3 DEF Page, Column, Entered
<1>5. ClearedHere' /\ UpperHere' /\ BottomHere(m)' /\ EntriesHere(m)'
  BY <1>1, <1>2, <1>4, TreeStays
<1>6. FramesHere'
  <2>1. pc' = "adjust_frame" => Entered > Fanout
    <3>1. SUFFICES ASSUME rbx > IdentityLimit, Entered <= Fanout
                   PROVE  FALSE
      <4>1. Entered \in Nat /\ Fanout \in Nat /\ rbx \in Nat
            /\ IdentityLimit \in Nat
        BY <1>1, PagesAre, Numbers DEF IInv, TypeOK
      <4>2. pc' = "adjust_frame" => rbx > IdentityLimit
        BY <1>2, <4>1
      <4> QED
        BY <4>1, <4>2
    <3>2. rbx = PageSize * Entered
      BY <3>1 DEF IInv, FramesHere
    <3>3. PageSize * Entered <= PageSize * Fanout
      <4>1. Entered \in Nat /\ PageSize \in Nat /\ Fanout \in Nat
        BY <1>1, PagesAre, Numbers
      <4> QED
        BY ONLY <3>1, <4>1, Grows
    <3>4. IdentityLimit = PageSize * Fanout /\ IdentityLimit \in Nat
          /\ rbx \in Nat
      BY Numbers DEF IInv, TypeOK
    <3> QED
      BY ONLY <3>1, <3>2, <3>3, <3>4
  <2> QED
    BY <1>2, <1>4, <2>1, FramesStay
<1>7. TypeOK'
  BY <1>2, <1>3 DEF IInv, TypeOK, Locations, VirtualLimit
<1>8. /\ HasPdpt' = HasPdpt /\ HasPd' = HasPd /\ Pdpt' = Pdpt /\ Pd' = Pd
      /\ \A j : Pt(j)' = Pt(j)
      /\ \A q : Slot(q)' = Slot(q)
  BY <1>2, NamesStay
<1>9. WalkHere(m)'
  <2>1. m = Column + 1
    BY <1>1, <1>2 DEF WalkHere
  <2>2. Slot(Page) \notin DOMAIN entries
    BY <1>1, <1>2, <2>1, NoFrameYet
  <2>3. Slot(Page)' \notin DOMAIN entries'
    BY <1>2, <1>4, <1>8, <2>2 DEF Slot
  <2> QED
    BY <1>1, <1>2, <1>3, <1>4, <1>8, <2>3 DEF WalkHere, Searching, Placing
<1> QED
  BY <1>5, <1>6, <1>7, <1>9, TreeWillBe DEF IInv

\* The search for the next frame.
LEMMA AdjustFrameStep ==
    ASSUME IInv, AdjustFrame
    PROVE  IInv'
<1>1. PICK m \in Nat : BottomHere(m) /\ EntriesHere(m) /\ WalkHere(m)
  BY DEF IInv, TreeHere
<1>2. /\ pc = "adjust_frame" /\ rbx' = rbx + PageSize
      /\ pc' \in {"approve_frame", "adjust_frame"}
      /\ UNCHANGED <<regions, pages, r8, level, base, rcx, zeroed, entries>>
  BY DEF AdjustFrame, Machine
<1>3. rbx \in Nat /\ PageSize \in Nat /\ rbx' \in Nat
  BY <1>2, Numbers DEF IInv, TypeOK
<1>4. Page' = Page /\ Column' = Column /\ Entered' = Entered
  BY <1>2 DEF Page, Column, Entered
<1>5. ClearedHere' /\ UpperHere' /\ BottomHere(m)' /\ EntriesHere(m)'
  BY <1>1, <1>2, <1>4, TreeStays
<1>6. /\ HasPdpt' = HasPdpt /\ HasPd' = HasPd /\ Pdpt' = Pdpt /\ Pd' = Pd
      /\ \A j : Pt(j)' = Pt(j)
      /\ \A q : Slot(q)' = Slot(q)
  BY <1>2, NamesStay
<1>7. FramesHere'
  <2>1. FramesHere /\ Entered > Fanout /\ Entered \in Nat /\ Fanout \in Nat
    BY <1>1, <1>2, PagesAre, Numbers DEF IInv, FramesHere
  <2>2. \A q \in 0 .. Entered - 1 : entries[Slot(q)] \in Nat
    BY <2>1 DEF FramesHere, IInv, TypeOK
  <2>3. \A q \in 0 .. Entered - 1 : entries[Slot(q)] + PageSize <= rbx'
    BY <1>2, <1>3, <2>1, <2>2 DEF FramesHere
  <2>4. PageSize * Entered <= rbx'
    <3>1. PageSize * Entered \in Nat /\ PageSize * Entered <= rbx
      BY <1>3, <2>1, Grows DEF FramesHere
    <3> QED
      BY ONLY <1>2, <1>3, <3>1
  <2>5. ~(Entered <= Fanout)
    BY <2>1
  <2> QED
    BY <1>2, <1>4, <1>6, <2>1, <2>3, <2>4, <2>5 DEF FramesHere
<1>8. TypeOK'
  BY <1>2, <1>3 DEF IInv, TypeOK, Locations, VirtualLimit
<1>9. WalkHere(m)'
  <2>1. Slot(Page)' \notin DOMAIN entries'
    BY <1>1, <1>2, <1>4, <1>6 DEF WalkHere, Placing, Slot
  <2> QED
    BY <1>1, <1>2, <1>4, <1>6, <2>1 DEF WalkHere, Searching, Placing
<1> QED
  BY <1>5, <1>7, <1>8, <1>9, TreeWillBe DEF IInv

\* The frame goes into the page's own entry.
LEMMA ApproveFrameStep ==
    ASSUME IInv, ApproveFrame
    PROVE  IInv'
<1>1. PICK m \in Nat : BottomHere(m) /\ EntriesHere(m) /\ WalkHere(m)
  BY DEF IInv, TreeHere
<1>2. /\ pc = "approve_frame" /\ pc' = "next_page"
      /\ rbx' = rbx + PageSize
      /\ entries' = Write(entries, Entry, rbx)
      /\ UNCHANGED <<regions, pages, r8, level, base, rcx, zeroed>>
  BY DEF ApproveFrame, Machine
<1>3. /\ level = 4 /\ m = Column + 1 /\ base = Pt(Column)
      /\ Slot(Page) \notin DOMAIN entries
  BY <1>1, <1>2 DEF WalkHere, Placing
<1>4. Entry = Slot(Page)
  BY <1>1, <1>3, EntryIs DEF Slot, Column
<1>5. /\ Page \in Nat /\ Column \in 0 .. m - 1 /\ Entered = Page
      /\ Page % Fanout \in 0 .. Fanout - 1
      /\ HasPd /\ HasPdpt
  BY <1>1, <1>2, <1>3, PagesAre DEF Entered, BottomHere, HasPd
<1>6. Page' = Page /\ Column' = Column /\ Entered' = Page + 1
  BY <1>2 DEF Page, Column, Entered
<1>7. /\ DOMAIN entries' = DOMAIN entries \union {Slot(Page)}
      /\ entries'[Slot(Page)] = rbx
      /\ \A b \in DOMAIN entries : entries'[b] = entries[b]
  BY <1>2, <1>3, <1>4, Written
<1>8. /\ HasPdpt' /\ Pdpt' = Pdpt /\ HasPd' /\ Pd' = Pd
      /\ \A j \in 0 .. m - 1 :
            Pt(j)' = Pt(j) /\ Pd + 8 * j \in DOMAIN entries'
      /\ \A q : q \div Fanout \in 0 .. m - 1 => Slot(q)' = Slot(q)
  BY <1>1, <1>5, <1>7, NamesKept
<1>9. \A q \in 0 .. Page : q \div Fanout \in 0 .. m - 1
  <2>1. \A q \in 0 .. Page - 1 : q \div Fanout \in 0 .. m - 1
    BY <1>1, <1>5, PagesAre
  <2>2. Page \div Fanout \in 0 .. m - 1
    BY <1>5 DEF Column
  <2>3. \A q \in 0 .. Page : q \in 0 .. Page - 1 \/ q = Page
    BY <1>5
  <2> QED
    BY <2>1, <2>2, <2>3
<1>10. \A q \in 0 .. Page : Slot(q)' = Slot(q)
  BY <1>8, <1>9
<1>11. rbx \in Nat /\ PageSize \in Nat /\ PageSize > 0 /\ rbx' \in Nat
  BY <1>2, Numbers DEF IInv, TypeOK
<1>12. TypeOK'
  <2>1. Slot(Page) \in Nat
    <3>1. Pt(Column) \in Nat
      BY <1>1, <1>5, PlacesAre
    <3> QED
      BY <1>5, <3>1 DEF Slot, Column
  <2>2. /\ DOMAIN entries' \subseteq Nat
        /\ \A a \in DOMAIN entries' : entries'[a] \in Nat
    BY <1>7, <1>11, <2>1 DEF IInv, TypeOK
  <2> QED
    BY <1>2, <1>11, <2>2 DEF IInv, TypeOK, Locations, VirtualLimit
<1>13. ClearedHere' /\ UpperHere'
  BY <1>2, <1>5, <1>8 DEF IInv, ClearedHere, UpperHere
<1>14. BottomHere(m)'
  <2>1. BottomHere(m)
    BY <1>1
  <2> QED
    BY <1>2, <1>5, <1>8, <2>1 DEF BottomHere
<1>15. EntriesHere(m)'
  <2> SUFFICES ASSUME NEW a \in DOMAIN entries'
               PROVE  \/ a = TableBase
                      \/ HasPd' /\ a = Pdpt'
                      \/ \E j \in 0 .. m - 1 : a = Pd' + 8 * j
                      \/ \E q \in 0 .. Entered' - 1 : a = Slot(q)'
    BY DEF EntriesHere
  <2>1. Page \in 0 .. Entered' - 1 /\ 0 .. Page - 1 \subseteq 0 .. Entered' - 1
        /\ 0 .. Entered' - 1 = 0 .. Page
    BY <1>5, <1>6
  <2>2. CASE a = Slot(Page)
    BY <1>10, <2>1, <2>2
  <2>3. CASE a \in DOMAIN entries
    BY <1>1, <1>5, <1>8, <1>10, <2>1, <2>3 DEF EntriesHere
  <2> QED
    BY <1>7, <2>2, <2>3
<1>16. FramesHere'
  <2>1. /\ FramesHere /\ PageSize * Page \in Nat /\ PageSize * Page <= rbx
        /\ Page <= Fanout => rbx = PageSize * Page
    BY <1>5, <1>11, Grows DEF IInv, FramesHere
  <2>2. ASSUME NEW q \in 0 .. Page - 1
        PROVE  /\ Slot(q) \in DOMAIN entries /\ entries[Slot(q)] \in Nat
               /\ entries'[Slot(q)] = entries[Slot(q)]
               /\ Slot(q)' = Slot(q)
               /\ PageSize * q <= entries[Slot(q)]
               /\ entries[Slot(q)] + PageSize <= rbx
               /\ q <= Fanout => entries[Slot(q)] = PageSize * q
    <3>1. q \in 0 .. Page
      BY <1>5
    <3>2. Slot(q) \in DOMAIN entries
      BY <1>5, <2>1 DEF FramesHere
    <3> QED
      BY <1>5, <1>7, <1>10, <2>1, <3>1, <3>2 DEF FramesHere, IInv, TypeOK
  <2>3. ASSUME NEW q, q = Page
        PROVE  Slot(q)' = Slot(q) /\ entries'[Slot(q)'] = rbx
    <3>1. q \in 0 .. Page /\ entries'[Slot(q)] = rbx
      BY <1>5, <1>7, <2>3
    <3> QED
      BY <1>10, <3>1
  <2>4. ASSUME NEW q \in 0 .. Page
        PROVE  /\ Slot(q)' \in DOMAIN entries'
               /\ PageSize * q <= entries'[Slot(q)']
               /\ entries'[Slot(q)'] + PageSize <= rbx'
               /\ q <= Fanout => entries'[Slot(q)'] = PageSize * q
    <3>1. CASE q = Page
      <4>1. Slot(q)' = Slot(q) /\ entries'[Slot(q)'] = rbx
        BY <2>3, <3>1
      <4>2. Slot(q) \in DOMAIN entries'
        BY <1>7, <3>1
      <4> QED
        BY <1>2, <1>11, <2>1, <3>1, <4>1, <4>2
    <3>2. CASE q \in 0 .. Page - 1
      <4>1. entries'[Slot(q)'] = entries[Slot(q)]
        BY <2>2, <3>2
      <4>2. entries'[Slot(q)'] + PageSize <= rbx'
        BY <1>2, <1>11, <2>2, <3>2, <4>1
      <4> QED
        BY <1>7, <2>2, <3>2, <4>1, <4>2
    <3> QED
      BY <1>5, <3>1, <3>2
  <2>5. ASSUME NEW q \in 0 .. Page, NEW r \in 0 .. Page, q < r
        PROVE  entries'[Slot(q)'] < entries'[Slot(r)']
    <3>1. q \in 0 .. Page - 1
      BY <1>5, <2>5
    <3>2. CASE r = Page
      <4>1. entries'[Slot(r)'] = rbx
        BY <2>3, <3>2
      <4>2. /\ entries'[Slot(q)'] = entries[Slot(q)]
            /\ entries[Slot(q)] \in Nat
            /\ entries[Slot(q)] + PageSize <= rbx
        BY <2>2, <3>1
      <4> QED
        BY <1>11, <4>1, <4>2
    <3>3. CASE r \in 0 .. Page - 1
      <4>1. entries[Slot(q)] < entries[Slot(r)]
        BY <1>5, <2>1, <2>5, <3>1, <3>3 DEF FramesHere
      <4> QED
        BY <2>2, <3>1, <3>3, <4>1
    <3> QED
      BY <1>5, <3>2, <3>3
  <2>6. PageSize * (Page + 1) = PageSize * Page + PageSize
    BY <1>5, <1>11, Grows
  <2>7. /\ PageSize * Entered' <= rbx'
        /\ Entered' <= Fanout => rbx' = PageSize * Entered'
    BY <1>2, <1>5, <1>6, <1>11, <2>1, <2>6, Numbers
  <2>8. 0 .. Entered' - 1 = 0 .. Page
    BY <1>5, <1>6
  <2> QED
    BY <1>2, <2>4, <2>5, <2>7, <2>8 DEF FramesHere
<1>17. WalkHere(m)'
  BY <1>1, <1>2, <1>3, <1>6 DEF WalkHere, Searching, Placing
<1> QED
  BY <1>12, <1>13, <1>14, <1>15, <1>16, <1>17, TreeWillBe DEF IInv

\* The next page: the next entry of the same table, or the first of the next.
LEMMA NextPageStep ==
    ASSUME IInv, NextPage
    PROVE  IInv'
<1>1. PICK m \in Nat : BottomHere(m) /\ EntriesHere(m) /\ WalkHere(m)
  BY DEF IInv, TreeHere
<1>2. /\ pc = "next_page" /\ r8' = r8 + PageSize
      /\ level' = 1 /\ base' = TableBase
      /\ pc' = IF r8 + PageSize < VirtualLimit THEN "page_walk"
               ELSE "load_cr3"
      /\ UNCHANGED <<regions, pages, rbx, rcx, zeroed, entries>>
  BY DEF NextPage, Advance, Machine
<1>3. /\ r8 = PageSize * Page /\ Page \in Nat /\ m = Column + 1
      /\ Page < pages /\ pages \in Nat
  BY <1>1, <1>2, PagesAssumption DEF WalkHere, IInv, TypeOK
<1>4. PageSize \in Nat /\ PageSize > 0 /\ Fanout \in Nat /\ Fanout > 0
  BY Numbers
<1>5. r8' = PageSize * (Page + 1) /\ PageSize * (Page + 1) \in Nat
  BY <1>2, <1>3, <1>4, Grows
<1>6. Page' = Page + 1
  <2>1. (PageSize * (Page + 1) + 0) \div PageSize = Page + 1
    BY <1>3, <1>4, Quotient
  <2>2. PageSize * (Page + 1) + 0 = PageSize * (Page + 1)
    BY <1>5
  <2> QED
    BY <1>5, <2>1, <2>2 DEF Page
<1>7. Entered' = Entered
  BY <1>2, <1>3, <1>6 DEF Entered
<1>8. ClearedHere' /\ UpperHere' /\ BottomHere(m)' /\ EntriesHere(m)'
  BY <1>1, <1>2, <1>7, TreeStays
<1>9. FramesHere'
  BY <1>2, <1>7, FramesStay
<1>10. PageSize * (Page + 1) <= VirtualLimit /\ VirtualLimit \in Nat
       /\ VirtualLimit = PageSize * pages
  <2>1. PageSize * (Page + 1) <= PageSize * pages /\ PageSize * pages \in Nat
    BY <1>3, <1>4, Grows
  <2>2. VirtualLimit = PageSize * pages
    BY <1>3, <1>4 DEF VirtualLimit
  <2> QED
    BY <2>1, <2>2
<1>11. TypeOK'
  <2>1. r8' \in 0 .. VirtualLimit
    BY <1>5, <1>10
  <2>2. VirtualLimit' = VirtualLimit
    BY <1>2 DEF VirtualLimit
  <2> QED
    BY <1>2, <2>1, <2>2, Numbers DEF IInv, TypeOK, Locations
<1>12. Page + 1 <= pages /\ (pc' = "page_walk" => Page + 1 < pages)
  <2>1. SUFFICES ASSUME pc' = "page_walk", Page + 1 = pages PROVE FALSE
    BY <1>3
  <2>2. r8 + PageSize < PageSize * pages
    BY <1>2, <1>10, <2>1
  <2> QED
    BY ONLY <1>2, <1>5, <2>1, <2>2
<1>13. /\ m = Column' \/ m = Column' + 1
       /\ Page' % Fanout > 0 => m = Column' + 1
  <2> DEFINE i == Page % Fanout
  <2>1. Column \in Nat /\ i \in 0 .. Fanout - 1 /\ Page = Fanout * Column + i
    BY <1>1, PagesAre
  <2>2. Column' = (Page + 1) \div Fanout
    BY <1>6 DEF Column
  <2> HIDE DEF i
  <2>3. CASE i + 1 < Fanout
    <3>1. /\ (Fanout * Column + (i + 1)) \div Fanout = Column
          /\ i + 1 \in 0 .. Fanout - 1
      BY <1>4, <2>1, <2>3, Quotient
    <3>2. Page + 1 = Fanout * Column + (i + 1)
      BY <1>4, <2>1
    <3> QED
      BY <1>3, <2>2, <3>1, <3>2
  <2>4. CASE i + 1 = Fanout
    <3>1. /\ (Fanout * (Column + 1) + 0) \div Fanout = Column + 1
          /\ (Fanout * (Column + 1) + 0) % Fanout = 0
      BY <1>4, <2>1, Quotient
    <3>2. Page + 1 = Fanout * (Column + 1) + 0
      BY <1>4, <2>1, <2>4
    <3> QED
      BY <1>3, <1>6, <2>2, <3>1, <3>2
  <2> QED
    BY <1>4, <2>1, <2>3, <2>4
<1>14. WalkHere(m)'
  BY <1>2, <1>3, <1>5, <1>6, <1>12, <1>13 DEF WalkHere, Searching, Placing
<1> QED
  BY <1>8, <1>9, <1>11, <1>14, TreeWillBe DEF IInv

\* The page the first entry names was cleared from three bytes before the
\* table on: its first word was never written, so it is not present.
LEMMA LoadCr3Step ==
    ASSUME IInv, LoadCr3
    PROVE  IInv'
<1>1. PICK m \in Nat : BottomHere(m) /\ EntriesHere(m) /\ WalkHere(m)
  BY DEF IInv, TreeHere
<1>2. /\ pc = "load_cr3"
      /\ UNCHANGED <<regions, pages, r8, level, base, rbx, rcx, zeroed,
                     entries>>
  BY DEF LoadCr3, Machine
<1> DEFINE named == Read(TableBase) - (Read(TableBase) % PageSize)
<1>3. pc' = IF HardwarePresent(TableBase) /\ HardwarePresent(named)
            THEN "built" ELSE "page_fault"
  BY DEF LoadCr3
<1>4. HardwarePresent(TableBase) => ~HardwarePresent(named)
  <2>1. SUFFICES ASSUME HasPdpt PROVE named \notin DOMAIN entries
    BY DEF HardwarePresent, HasPdpt
  <2>2. /\ Pdpt \in Nat /\ Pdpt - 3 \in Nat /\ (Pdpt - 3) % PageSize = 0
        /\ TableBase + PageSize <= Pdpt - 3
    BY <1>1, <2>1, PlacesAre, Numbers DEF IInv, UpperHere, TypeOK
  <2>3. PageSize \in Nat /\ PageSize >= 64 /\ TableBase \in Nat
    BY Numbers
  <2>4. named = Pdpt - 3
    <3> DEFINE q == (Pdpt - 3) \div PageSize
    <3>1. q \in Nat /\ Pdpt - 3 = PageSize * q + 0
      <4>1. /\ q \in Nat
            /\ Pdpt - 3 = PageSize * q + ((Pdpt - 3) % PageSize)
        BY <2>2, <2>3, Divided
      <4> QED
        BY <2>2, <4>1
    <3> HIDE DEF q
    <3>2. Pdpt = PageSize * q + 3
      <4>1. PageSize * q \in Nat
        BY <2>3, <3>1, Grows
      <4> QED
        BY ONLY <2>2, <3>1, <4>1
    <3>3. (PageSize * q + 3) % PageSize = 3
      <4>1. 3 \in 0 .. PageSize - 1
        BY <2>3
      <4> QED
        BY <2>3, <3>1, <4>1, Quotient
    <3>4. Read(TableBase) = Pdpt
      BY <2>1 DEF Read, HasPdpt, Pdpt
    <3>5. Pdpt % PageSize = 3
      BY <3>2, <3>3
    <3> QED
      BY <3>4, <3>5
  <2> HIDE DEF named
  <2>5. ASSUME HasPd PROVE Pdpt + PageSize <= Pd /\ Pd \in Nat
    BY <1>1, <2>5, PlacesAre DEF IInv, UpperHere
  <2>6. ASSUME NEW j \in 0 .. m - 1 PROVE Pdpt - 3 # Pd + 8 * j
    <3>1. HasPd
      BY <1>1 DEF BottomHere
    <3> QED
      BY <2>2, <2>3, <2>5, <3>1
  <2>7. ASSUME NEW q \in 0 .. Entered - 1 PROVE Pdpt - 3 # Slot(q)
    <3>1. q \div Fanout \in 0 .. m - 1
      BY <1>1, PagesAre
    <3>2. /\ HasPd /\ Pt(q \div Fanout) \in Nat
          /\ Pd + PageSize <= Pt(q \div Fanout)
          /\ Pt(q \div Fanout) <= Slot(q)
      BY <1>1, <3>1, PlacesAre DEF BottomHere
    <3>3. q % Fanout \in Nat
      BY <1>1, PagesAre
    <3>4. Slot(q) \in Nat
      BY <3>2, <3>3 DEF Slot
    <3> QED
      BY <2>2, <2>3, <2>5, <3>2, <3>4
  <2>8. Pdpt - 3 # TableBase /\ Pdpt - 3 # Pdpt
    BY <2>2, <2>3
  <2> QED
    BY <1>1, <2>4, <2>6, <2>7, <2>8 DEF EntriesHere
<1>5. pc' = "page_fault"
  BY <1>3, <1>4
<1>6. Page' = Page /\ Column' = Column /\ Entered' = Entered
  BY <1>2, <1>5 DEF Page, Column, Entered
<1>7. ClearedHere' /\ UpperHere' /\ BottomHere(m)' /\ EntriesHere(m)'
  BY <1>1, <1>2, <1>6, TreeStays
<1>8. FramesHere'
  BY <1>2, <1>5, <1>6, FramesStay
<1>9. TypeOK'
  BY <1>2, <1>5 DEF IInv, TypeOK, Locations, VirtualLimit
<1>10. /\ HasPdpt' = HasPdpt /\ HasPd' = HasPd /\ Pdpt' = Pdpt /\ Pd' = Pd
       /\ \A j : Pt(j)' = Pt(j)
       /\ \A q : Slot(q)' = Slot(q)
  BY <1>2, NamesStay
<1>11. WalkHere(m)'
  BY <1>1, <1>2, <1>5, <1>6, <1>10 DEF WalkHere, Searching, Placing
<1> QED
  BY <1>7, <1>8, <1>9, <1>11, TreeWillBe DEF IInv

\* Nothing changes.
LEMMA StutterStep ==
    ASSUME IInv, UNCHANGED vars
    PROVE  IInv'
<1>1. PICK m \in Nat : BottomHere(m) /\ EntriesHere(m) /\ WalkHere(m)
  BY DEF IInv, TreeHere
<1>2. UNCHANGED <<regions, pages, pc, r8, level, base, rbx, rcx, zeroed,
                  entries>>
  BY DEF vars, Machine
<1>3. Page' = Page /\ Column' = Column /\ Entered' = Entered
  BY <1>2 DEF Page, Column, Entered
<1>4. ClearedHere' /\ UpperHere' /\ BottomHere(m)' /\ EntriesHere(m)'
  BY <1>1, <1>2, <1>3, TreeStays
<1>5. FramesHere'
  <2>1. pc' = "adjust_frame" => Entered > Fanout
    BY <1>2 DEF IInv, FramesHere
  <2> QED
    BY <1>2, <1>3, <2>1, FramesStay
<1>6. TypeOK'
  BY <1>2 DEF IInv, TypeOK, VirtualLimit
<1>7. /\ HasPdpt' = HasPdpt /\ HasPd' = HasPd /\ Pdpt' = Pdpt /\ Pd' = Pd
      /\ \A j : Pt(j)' = Pt(j)
      /\ \A q : Slot(q)' = Slot(q)
  BY <1>2, NamesStay
<1>8. WalkHere(m)'
  <2>1. Slot(Page)' = Slot(Page)
    BY <1>2, <1>3, <1>7 DEF Slot
  <2> QED
    BY <1>1, <1>2, <1>3, <1>7, <2>1 DEF WalkHere, Searching, Placing
<1> QED
  BY <1>4, <1>5, <1>6, <1>8, TreeWillBe DEF IInv

\* Every step keeps the tree.
LEMMA Inductive == IInv /\ [Next]_vars => IInv'
<1> SUFFICES ASSUME IInv, [Next]_vars PROVE IInv'
  OBVIOUS
<1>1. CASE Descend
  BY <1>1, DescendStep
<1>2. CASE AllocateBlind \/ AllocateChecked
  BY <1>2, AllocateStep
<1>3. CASE AdjustTable \/ TableFault
  BY <1>3, AdjustTableStep
<1>4. CASE ApproveTable
  BY <1>4, ApproveTableStep
<1>5. CASE AllocateFrame
  BY <1>5, AllocateFrameStep
<1>6. CASE AdjustFrame
  BY <1>6, AdjustFrameStep
<1>7. CASE ApproveFrame
  BY <1>7, ApproveFrameStep
<1>8. CASE NextPage
  BY <1>8, NextPageStep
<1>9. CASE LoadCr3
  BY <1>9, LoadCr3Step
<1>10. CASE UNCHANGED vars
  BY <1>10, StutterStep
<1> QED
  BY <1>1, <1>2, <1>3, <1>4, <1>5, <1>6, <1>7, <1>8, <1>9, <1>10 DEF Next

\* So the tree is there in every state.
LEMMA Invariance == Spec => []IInv
  BY Initially, Inductive, PTL DEF Spec

-----------------------------------------------------------------------------
(* The theorems. *)

\* Every variable keeps its type: registers stay natural numbers, and R8 never
\* passes the limit of the mapping (third_stage.asm, page_walk's main loop).
THEOREM TypeCorrect == Spec => []TypeOK
<1>1. IInv => TypeOK
  BY DEF IInv
<1> QED
  BY <1>1, Invariance, PTL

\* page_walk never takes junk for an entry, although build_page_table2 leaves
\* the flags in RCX and every table from the second on is read three bytes off;
\* and it never meets a page that is mapped already (skip4 is dead code).
THEOREM ReadsAreCleared == Spec => []ReadsCleared
<1>1. IInv => ReadsCleared
  <2> SUFFICES ASSUME IInv, pc = "page_walk"
               PROVE  /\ Zeroed(Entry) /\ Zeroed(Entry + 7)
                      /\ level = 4 => Read(Entry) = 0
    BY DEF ReadsCleared
  <2>1. PICK m \in Nat : BottomHere(m) /\ EntriesHere(m) /\ WalkHere(m)
    BY DEF IInv, TreeHere
  <2> QED
    BY <2>1, ReadIs
<1> QED
  BY <1>1, Invariance, PTL

\* What the code's own walk finds for a page that is entered: its entry.
LEMMA FrameIs ==
    ASSUME IInv, NEW m \in Nat, BottomHere(m), EntriesHere(m), WalkHere(m),
           NEW q \in 0 .. Entered - 1
    PROVE  Frame(PageSize * q) = entries[Slot(q)]
<1> DEFINE v == PageSize * q
           j == q \div Fanout
           i == q % Fanout
<1>1. q \in Nat /\ q < Fanout * Fanout
  <2>1. Page \in Nat /\ Entered \in Nat /\ Page < Fanout * Fanout
        /\ Fanout * Fanout \in Nat
    BY PagesAre, Numbers
  <2>2. Entered <= Page + 1
    BY <2>1 DEF Entered
  <2> HIDE DEF v, j, i
  <2> QED
    BY ONLY <2>1, <2>2, q \in 0 .. Entered - 1
<1>2. /\ Index(v, 1) = 0 /\ Index(v, 2) = 0
      /\ Index(v, 3) = j /\ Index(v, 4) = i
  BY <1>1, IndexIs
<1>3. j \in 0 .. m - 1
  BY PagesAre
<1>4. /\ HasPdpt /\ HasPd /\ Pd + 8 * j \in DOMAIN entries
      /\ Slot(q) \in DOMAIN entries
  BY <1>3 DEF BottomHere, HasPd, IInv, FramesHere
<1>5. /\ TableBase \in Nat /\ Pdpt \in Nat /\ Pd \in Nat /\ Pt(j) \in Nat
      /\ TableBase # 0 /\ Pdpt # 0 /\ Pd # 0 /\ Pt(j) # 0
  <2>1. /\ TableBase \in Nat /\ TableBase > 0 /\ PageSize \in Nat
        /\ PageSize > 0
    BY Numbers
  <2>2. Pdpt \in Nat /\ Pd \in Nat /\ Pt(j) \in Nat
    BY <1>3, <1>4, PlacesAre
  <2>3. /\ TableBase + PageSize <= Pdpt - 3 /\ Pdpt + PageSize <= Pd
        /\ Pd + PageSize <= Pt(j)
    BY <1>3, <1>4 DEF IInv, UpperHere, BottomHere
  <2> HIDE DEF j
  <2> QED
    BY ONLY <2>1, <2>2, <2>3
<1> HIDE DEF v, j, i
<1>6. Follow(TableBase, 1, v) = Pdpt
  <2>1. TableBase + 8 * 0 = TableBase
    BY <1>5
  <2> QED
    BY <1>2, <1>4, <1>5, <2>1 DEF Follow, Read, HasPdpt, Pdpt
<1>7. Follow(Pdpt, 2, v) = Pd
  <2>1. Pdpt + 8 * 0 = Pdpt
    BY <1>5
  <2> QED
    BY <1>2, <1>4, <1>5, <2>1 DEF Follow, Read, HasPd, Pd
<1>8. Follow(Pd, 3, v) = Pt(j)
  BY <1>2, <1>4, <1>5 DEF Follow, Read, Pt
<1>9. Follow(Pt(j), 4, v) = entries[Slot(q)]
  <2>1. Slot(q) = Pt(j) + 8 * i
    BY DEF Slot, j, i
  <2> QED
    BY <1>2, <1>4, <1>5, <2>1 DEF Follow, Read
<1> QED
  BY <1>6, <1>7, <1>8, <1>9 DEF Frame, v

\* The pages mapped so far are the pages entered.
LEMMA DoneAre ==
    ASSUME NEW m \in Nat, BottomHere(m), WalkHere(m), NEW v \in Done
    PROVE  \E q \in 0 .. Entered - 1 : v = PageSize * q
<1>1. /\ r8 = PageSize * Page /\ Page \in Nat
      /\ PageSize \in Nat /\ PageSize > 0
  BY Numbers DEF WalkHere
<1>2. PICK q \in 0 .. pages - 1 : v = q * PageSize
  BY DEF Done
<1>3. v \in IF pc = "next_page" THEN 0 .. r8 ELSE 0 .. r8 - 1
  BY DEF Done
<1>4. q \in Nat /\ v = PageSize * q /\ v \in Nat /\ r8 \in Nat
  <2>1. q \in Nat /\ v = PageSize * q
    BY ONLY <1>1, <1>2
  <2>2. PageSize * q \in Nat /\ PageSize * Page \in Nat
    BY <1>1, <2>1, Grows
  <2> QED
    BY <1>1, <2>1, <2>2
<1>5. CASE pc = "next_page"
  <2>1. PageSize * q <= PageSize * Page
    BY <1>1, <1>3, <1>4, <1>5
  <2>2. q <= Page
    BY <1>1, <1>4, <2>1, Grows
  <2>3. q \in 0 .. Entered - 1
    BY <1>1, <1>4, <1>5, <2>2 DEF Entered
  <2> QED
    BY <1>4, <2>3
<1>6. CASE pc # "next_page"
  <2>1. PageSize * q < PageSize * Page
    BY <1>1, <1>3, <1>4, <1>6
  <2>2. q <= Page
    BY <1>1, <1>4, <2>1, Grows
  <2>3. q # Page
    <3>1. PageSize * q \in Nat
      BY <1>4
    <3> QED
      BY <2>1, <3>1
  <2>4. q \in 0 .. Entered - 1
    BY <1>1, <1>4, <1>6, <2>2, <2>3 DEF Entered
  <2> QED
    BY <1>4, <2>4
<1> QED
  BY <1>5, <1>6

\* Every page gets a frame of its own and frames grow with the address; as far
\* as the mapped area reaches, each page keeps its own number, so the loader,
\* its stack and its tables stay where they are (allocate4, approve_allocate4).
THEOREM FramesAreInOrder == Spec => []FramesInOrder
<1>1. IInv => FramesInOrder
  <2> SUFFICES ASSUME IInv PROVE FramesInOrder
    OBVIOUS
  <2>1. PICK m \in Nat : BottomHere(m) /\ EntriesHere(m) /\ WalkHere(m)
    BY DEF IInv, TreeHere
  <2>2. Entered \in Nat /\ PageSize \in Nat /\ PageSize > 0
        /\ Fanout \in Nat /\ IdentityLimit = PageSize * Fanout
    BY <2>1, PagesAre, Numbers
  <2>3. ASSUME NEW v \in Done, NEW w \in Done, v < w
        PROVE  Frame(v) < Frame(w)
    <3>1. PICK q \in 0 .. Entered - 1 : v = PageSize * q
      BY <2>1, DoneAre
    <3>2. PICK r \in 0 .. Entered - 1 : w = PageSize * r
      BY <2>1, DoneAre
    <3>3. q < r
      <4>1. q \in Nat /\ r \in Nat
        BY <2>2
      <4>2. r <= q => PageSize * r <= PageSize * q
        BY ONLY <2>2, <4>1, Grows
      <4>3. PageSize * r \in Nat /\ PageSize * q \in Nat
        BY ONLY <2>2, <4>1, Grows
      <4> QED
        BY ONLY <2>3, <3>1, <3>2, <4>1, <4>2, <4>3
    <3>4. entries[Slot(q)] < entries[Slot(r)]
      BY <3>3 DEF IInv, FramesHere
    <3>5. Frame(v) = entries[Slot(q)] /\ Frame(w) = entries[Slot(r)]
      BY <2>1, <3>1, <3>2, FrameIs
    <3> QED
      BY <3>4, <3>5
  <2>4. ASSUME NEW v \in Done, v <= IdentityLimit
        PROVE  Frame(v) = v
    <3>1. PICK q \in 0 .. Entered - 1 : v = PageSize * q
      BY <2>1, DoneAre
    <3>2. q \in Nat
      BY <2>2
    <3>3. q <= Fanout
      BY ONLY <2>2, <2>4, <3>1, <3>2, Grows
    <3>4. entries[Slot(q)] = PageSize * q
      BY <3>3 DEF IInv, FramesHere
    <3> QED
      BY <2>1, <3>1, <3>4, FrameIs
  <2> QED
    BY <2>3, <2>4 DEF FramesInOrder, FramesIncrease, IdentityKept
<1> QED
  BY <1>1, Invariance, PTL

\* The two allocators never meet: a frame above the mapped area is no table,
\* although RBX and RCX search the same memory without telling each other.
THEOREM FramesApart == Spec => []FramesAreNotTables
<1>1. IInv => FramesAreNotTables
  <2> SUFFICES ASSUME IInv, NEW v \in Done, v >= IdentityLimit
               PROVE  Frame(v) \notin TablePages
    BY DEF FramesAreNotTables
  <2>1. PICK m \in Nat : BottomHere(m) /\ EntriesHere(m) /\ WalkHere(m)
    BY DEF IInv, TreeHere
  <2>2. PICK q \in 0 .. Entered - 1 : v = PageSize * q
    BY <2>1, DoneAre
  <2>3. Frame(v) = entries[Slot(q)]
    BY <2>1, <2>2, FrameIs
  <2>4. /\ Slot(q) \in DOMAIN entries /\ entries[Slot(q)] \in Nat
        /\ PageSize * q <= entries[Slot(q)]
    BY DEF IInv, FramesHere, TypeOK
  <2>5. /\ IdentityLimit \in Nat /\ PageSize \in Nat /\ PageSize > 0
        /\ Entered \in Nat
    BY <2>1, PagesAre, Numbers
  <2>6. IdentityLimit <= Frame(v) /\ Frame(v) \in Nat
    <3>1. v \in Nat
      BY <2>2, <2>5, Grows
    <3> QED
      BY ONLY <2>2, <2>3, <2>4, <2>5, <3>1, v >= IdentityLimit
  <2>7. ASSUME NEW z \in zeroed
        PROVE  z - (z % PageSize) < IdentityLimit
    <3>1. z \in Nat /\ z + PageSize <= IdentityLimit
      BY DEF IInv, TypeOK, ClearedHere
    <3>2. z % PageSize \in Nat
      BY <2>5, <3>1
    <3> QED
      BY ONLY <2>5, <3>1, <3>2
  <2>8. ASSUME NEW z \in zeroed
        PROVE  z - (z % PageSize) # Frame(v)
    <3>1. z \in Nat /\ z % PageSize \in Nat
      BY <2>5 DEF IInv, TypeOK
    <3> QED
      BY ONLY <2>5, <2>6, <2>7, <2>8, <3>1
  <2> QED
    BY <2>8 DEF TablePages
<1> QED
  BY <1>1, Invariance, PTL

\* The tables never work: whatever memory the machine has, the first fetch
\* through them finds no second table, because the flags that stay in RCX put
\* it three bytes into the page the first entry names.
THEOREM LoadAlwaysFaults == Spec => [](pc # "built")
<1>1. IInv => pc # "built"
  BY DEF IInv, TreeHere, WalkHere
<1> QED
  BY <1>1, Invariance, PTL

-----------------------------------------------------------------------------
(* The scanner's inductive invariant: the first count slots hold the       *)
(* first count regions, and what is printed and what is left to print make *)
(* up the number that was read as the count.                               *)

\* The regions the BIOS has returned are in the table, in its order.
ScanHere ==
    /\ \A i \in 1 .. count : table[i] = map[i]
    /\ scanPc = "memory_scanner_loop" => ebx = count
    /\ count \in 0 .. Len(map)
    /\ Scanned => count = Len(map)

\* The count as print_memory_regions reads it.
Reading == count + 65536 * staleWord

ReportHere ==
    /\ scanPc \in {"memory_scanner_loop", "print_memory_regions"} => printed = 0
    /\ scanPc = "print_memory_regions_loop" =>
          ecx > 0 /\ printed + ecx = Reading
    /\ scanPc \in {"third_stage", "answered"} => printed = Reading

QueryHere ==
    /\ address \in Nat
    /\ scanPc = "answered" => flag = LoopOverMemRegions(table, address)

ScanIInv == ScanTypeOK /\ ScanHere /\ ReportHere /\ QueryHere

-----------------------------------------------------------------------------
\* The BIOS's map is a list of one to Slots regions.
LEMMA MapFacts ==
    ASSUME ScanTypeOK
    PROVE  /\ map \in Seq(Region) /\ Len(map) \in 1 .. Slots
           /\ DOMAIN map = 1 .. Len(map)
           /\ \A i \in 1 .. Len(map) : map[i] \in Region
           /\ staleWord \in Nat /\ Slots \in Nat
  BY MapsAssumption, StaleAssumption, SlotsAssumption DEF ScanTypeOK

\* The last region is known by EBX = 0, or by the carry that comes next.
LEMMA BiosNextIs ==
    ASSUME ScanTypeOK, ebx < Len(map)
    PROVE  /\ BiosNext \in 0 .. ebx + 1
           /\ BiosNext = 0 => ebx + 1 = Len(map)
           /\ BiosNext # 0 => BiosNext = ebx + 1
  BY MapFacts DEF BiosNext, ScanTypeOK

\* Before the first call the buffer's count is what the memory held.
LEMMA ScanInitially == ScanInit => ScanIInv
<1> SUFFICES ASSUME ScanInit
             PROVE  ScanIInv
  OBVIOUS
<1>1. ScanTypeOK
  <2>1. table \in [1 .. Slots -> Region]
    BY StaleAssumption DEF ScanInit
  <2>2. map \in Maps /\ endsByCarry \in BOOLEAN /\ staleWord \in StaleWords
    BY DEF ScanInit
  <2>3. scanPc \in ScanLocations /\ flag \in BOOLEAN
    BY DEF ScanInit, ScanLocations
  <2>4. ebx = 0 /\ count = 0 /\ ecx = 0 /\ printed = 0 /\ 0 \in 0 .. Slots
    BY SlotsAssumption DEF ScanInit
  <2> QED
    BY <2>1, <2>2, <2>3, <2>4 DEF ScanTypeOK
<1>2. ScanHere
  BY <1>1, MapFacts DEF ScanInit, ScanHere, Scanned, ScanLocations
<1>3. ReportHere /\ QueryHere
  BY DEF ScanInit, ReportHere, QueryHere
<1> QED
  BY <1>1, <1>2, <1>3 DEF ScanIInv

\* One INT 15h call: the region it returns is the next of the map.
LEMMA ScanRegionStep ==
    ASSUME ScanIInv, ScanRegion
    PROVE  ScanIInv'
<1> USE MapFacts DEF ScanIInv
<1>1. /\ scanPc = "memory_scanner_loop" /\ ebx < Len(map) /\ ebx = count
      /\ table' = [table EXCEPT ![count + 1] = map[count + 1]]
      /\ count' = count + 1 /\ ebx' = BiosNext
      /\ scanPc' = IF BiosNext = 0 THEN "print_memory_regions"
                               ELSE "memory_scanner_loop"
      /\ UNCHANGED <<Reported, Report, Query>>
  BY DEF ScanRegion, ScanHere
<1>2. count + 1 \in 1 .. Len(map) /\ map[count + 1] \in Region
  BY <1>1 DEF ScanTypeOK
<1>3. /\ BiosNext \in 0 .. count + 1
      /\ BiosNext = 0 => count + 1 = Len(map)
      /\ BiosNext # 0 => BiosNext = count + 1
  BY <1>1, BiosNextIs
<1>4. table' \in [1 .. Slots -> Region]
  BY <1>1, <1>2 DEF ScanTypeOK
<1>5. ScanTypeOK'
  BY <1>1, <1>2, <1>3, <1>4 DEF ScanTypeOK, Reported, Report, Query,
                                   ScanLocations
<1>6. \A i \in 1 .. count' : table'[i] = map'[i]
  BY <1>1, <1>2 DEF ScanTypeOK, ScanHere, Reported
<1>7. ScanHere'
  <2>1. scanPc' = "memory_scanner_loop" => ebx' = count'
    BY <1>1, <1>3
  <2>2. count' \in 0 .. Len(map') /\ map' = map
    BY <1>1, <1>2 DEF Reported
  <2>3. Scanned' => count' = Len(map)
    BY <1>1, <1>3 DEF Scanned, ScanLocations
  <2> QED
    BY <1>6, <2>1, <2>2, <2>3 DEF ScanHere
<1>8. ReportHere' /\ QueryHere'
  BY <1>1 DEF ReportHere, QueryHere, Report, Query
<1> QED
  BY <1>5, <1>7, <1>8

\* Printing the count starts the report with nothing printed.
LEMMA PrintCountStep ==
    ASSUME ScanIInv, PrintCount
    PROVE  ScanIInv'
<1> USE MapFacts DEF ScanIInv
<1>1. /\ scanPc = "print_memory_regions"
      /\ scanPc' = "print_memory_regions_loop"
      /\ ecx' = Reading
      /\ UNCHANGED <<map, endsByCarry, staleWord, ebx, count, table, printed,
                     address, flag>>
  BY DEF PrintCount, Reported, Scan, Query, Reading
<1>2. count = Len(map) /\ Reading \in Nat /\ Reading > 0 /\ printed = 0
  BY <1>1 DEF ScanHere, ReportHere, Scanned, ScanLocations, Reading
<1>3. ScanTypeOK'
  BY <1>1, <1>2 DEF ScanTypeOK, ScanLocations
<1>4. ScanHere' /\ QueryHere'
  BY <1>1, <1>2 DEF ScanHere, QueryHere, Scanned, ScanLocations
<1>5. ReportHere'
  BY <1>1, <1>2 DEF ReportHere, Reading
<1> QED
  BY <1>3, <1>4, <1>5

\* A region printed is the next one of the buffer.
LEMMA PrintRegionStep ==
    ASSUME ScanIInv, PrintRegion
    PROVE  ScanIInv'
<1> USE MapFacts DEF ScanIInv
<1>1. /\ scanPc = "print_memory_regions_loop" /\ printed < Slots
      /\ printed' = printed + 1 /\ ecx' = ecx - 1
      /\ scanPc' = IF ecx - 1 # 0 THEN "print_memory_regions_loop"
                              ELSE "third_stage"
      /\ UNCHANGED <<map, endsByCarry, staleWord, ebx, count, table, address,
                     flag>>
  BY DEF PrintRegion, Reported, Scan, Query
<1>2. /\ count = Len(map) /\ ecx \in Nat /\ ecx > 0 /\ printed \in Nat
      /\ printed + ecx = Reading /\ Reading' = Reading
  BY <1>1 DEF ScanHere, ReportHere, Scanned, ScanLocations, Reading, ScanTypeOK
<1>3. ScanTypeOK'
  BY <1>1, <1>2 DEF ScanTypeOK, ScanLocations
<1>4. ScanHere' /\ QueryHere'
  BY <1>1, <1>2 DEF ScanHere, QueryHere, Scanned, ScanLocations
<1>5. ReportHere'
  <2> HIDE DEF Reading
  <2> QED
    BY <1>1, <1>2 DEF ReportHere
<1> QED
  BY <1>3, <1>4, <1>5

\* A query walks the buffer and leaves it alone.
LEMMA LookupStep ==
    ASSUME ScanIInv, Lookup
    PROVE  ScanIInv'
<1> USE MapFacts DEF ScanIInv
<1>1. /\ scanPc = "third_stage" /\ scanPc' = "answered" /\ address' \in Nat
      /\ flag' = LoopOverMemRegions(table, address')
      /\ UNCHANGED <<map, endsByCarry, staleWord, ebx, count, table, ecx,
                     printed>>
  BY AddressesAssumption DEF Lookup, Reported, Scan, Report
<1>2. flag' \in BOOLEAN
  BY <1>1 DEF LoopOverMemRegions
<1>3. ScanTypeOK'
  BY <1>1, <1>2 DEF ScanTypeOK, ScanLocations
<1>4. ScanHere' /\ ReportHere'
  BY <1>1 DEF ScanHere, ReportHere, Scanned, ScanLocations, Reading
<1>5. QueryHere'
  BY <1>1 DEF QueryHere
<1> QED
  BY <1>3, <1>4, <1>5

\* No step of the scanner, the report or a query breaks the invariant.
LEMMA ScanInductive == ScanIInv /\ [ScanNext]_scanVars => ScanIInv'
<1> SUFFICES ASSUME ScanIInv, [ScanNext]_scanVars
             PROVE  ScanIInv'
  OBVIOUS
<1>1. CASE ScanFailed
  BY <1>1
  DEF ScanFailed, ScanIInv, ScanTypeOK, ScanHere, ReportHere, QueryHere,
      Reported, Scan, Report, Query, Scanned, ScanLocations
<1>2. CASE UNCHANGED scanVars
  BY <1>2 DEF scanVars, ScanIInv, ScanTypeOK, ScanHere, ReportHere,
              QueryHere, Scanned, Reading
<1> QED
  BY <1>1, <1>2, ScanRegionStep, PrintCountStep, PrintRegionStep, LookupStep
  DEF ScanNext

-----------------------------------------------------------------------------
(* The scanner's theorems. *)

\* Every variable keeps its type; the count and the continuation value stay
\* within the table for every map that fits it.
THEOREM ScanTypeCorrect == ScanSpec => []ScanTypeOK
<1>1. ScanIInv => ScanTypeOK
  BY DEF ScanIInv
<1> QED
  BY ScanInitially, ScanInductive, <1>1, PTL DEF ScanSpec

\* A scan that does not fail leaves the BIOS's regions, all of them and in
\* order, whichever way the BIOS ends its list (memory_scanner).
THEOREM MapIsComplete == ScanSpec => []MapComplete
<1>1. ScanIInv => MapComplete
  BY DEF ScanIInv, ScanHere, MapComplete
<1> QED
  BY ScanInitially, ScanInductive, <1>1, PTL DEF ScanSpec

\* With no stale word above the count, the report shows every region once
\* (print_memory_regions).
THEOREM ReportIsComplete == ScanSpec => []ReportComplete
<1>1. ScanIInv => ReportComplete
  <2> SUFFICES ASSUME ScanIInv, scanPc \in {"third_stage", "answered"},
                      staleWord = 0
               PROVE  printed = Len(map)
    BY DEF ReportComplete
  <2>1. count = Len(map) /\ printed = Reading /\ count \in Nat
    BY DEF ScanIInv, ScanTypeOK, ScanHere, ReportHere, Scanned, ScanLocations
  <2>2. Reading = count
    BY <2>1 DEF Reading
  <2> QED
    BY <2>1, <2>2
<1> QED
  BY ScanInitially, ScanInductive, <1>1, PTL DEF ScanSpec

\* The loop over the seven slots is the BIOS's own answer, for every sorted
\* map of at most seven regions and every address that is no boundary.
LEMMA LookupIsRight ==
    ASSUME ScanIInv, scanPc = "answered", Sorted, Filled, Len(map) <= 7,
           ~Boundary(address), address # 0
    PROVE  flag <=> InRAM(map, address)
<1> USE MapFacts DEF ScanIInv, ScannedSlots
<1>1. /\ address \in Nat /\ flag = LoopOverMemRegions(table, address)
      /\ count = Len(map) /\ \A i \in 1 .. Len(map) : table[i] = map[i]
  BY DEF QueryHere, ScanHere, Scanned, ScanLocations
<1>2. \A i \in 1 .. Len(map) :
         /\ map[i].base \in Nat /\ map[i].length \in Nat
         /\ Within(map[i], address) <=>
               /\ map[i].base < address
               /\ address < map[i].base + map[i].length
  <2> SUFFICES ASSUME NEW i \in 1 .. Len(map)
               PROVE  /\ map[i].base \in Nat /\ map[i].length \in Nat
                      /\ Within(map[i], address) <=>
                            /\ map[i].base < address
                            /\ address < map[i].base + map[i].length
    BY Zenon
  <2>1. map[i] \in Region /\ i \in DOMAIN map
    BY MapFacts
  <2>2. map[i].base \in Nat /\ map[i].length \in Nat
    BY ONLY <2>1 DEF Region
  <2>3. address # map[i].base /\ address # map[i].base + map[i].length
    BY ONLY <2>1, ~Boundary(address) DEF Boundary
  <2> QED
    BY ONLY <1>1, <2>2, <2>3 DEF Within
<1>3. \A i, j \in 1 .. Len(map) :
         i < j => map[i].base + map[i].length <= map[j].base
  BY DEF Sorted
<1>4. ASSUME InRAM(map, address)
      PROVE  LoopOverMemRegions(table, address)
  <2>1. PICK i \in 1 .. Len(map) :
            /\ map[i].type = Usable /\ map[i].base <= address
            /\ address < map[i].base + map[i].length
    BY <1>4 DEF InRAM
  <2>2. i \in 1 .. 7 /\ table[i].type = Usable
    BY <1>1, <2>1
  <2>3. Within(table[i], address)
    BY <1>1, <1>2, <2>1 DEF Within
  <2>4. ASSUME NEW j \in 1 .. 7, j < i
        PROVE  ~Within(table[j], address)
    <3>1. j \in 1 .. Len(map)
      BY <2>1, <2>4
    <3>2. map[j].base + map[j].length <= map[i].base
      BY <1>3, <2>1, <2>4, <3>1
    <3>3. map[i].base < address
      BY <1>1, <1>2, <2>1, <2>3
    <3> QED
      BY <1>1, <1>2, <2>1, <3>1, <3>2, <3>3
  <2> QED
    BY <2>2, <2>3, <2>4 DEF LoopOverMemRegions
<1>5. ASSUME LoopOverMemRegions(table, address)
      PROVE  InRAM(map, address)
  <2>1. PICK i \in 1 .. 7 :
            Within(table[i], address) /\ table[i].type = Usable
    BY <1>5 DEF LoopOverMemRegions
  <2>2. i \in 1 .. Len(map)
    <3> SUFFICES ASSUME i > Len(map)
                 PROVE  FALSE
      BY <2>1
    <3>1. table[i] = [base |-> 0, length |-> 0, type |-> 0]
      BY <1>1, <2>1 DEF Filled
    <3> QED
      BY <1>1, <2>1, <3>1 DEF Within
  <2>3. Within(map[i], address) /\ map[i].type = Usable
    BY <1>1, <2>1, <2>2
  <2>4. map[i].base <= address /\ address < map[i].base + map[i].length
    BY <1>1, <1>2, <2>2, <2>3
  <2> QED
    BY <2>2, <2>3, <2>4 DEF InRAM
<1> QED
  BY <1>1, <1>4, <1>5

\* The third stage's look-up agrees with the map the BIOS gave.
THEOREM LookupIsBiosMap == ScanSpec => []LookupAgrees
<1>1. ScanIInv => LookupAgrees
  BY LookupIsRight DEF LookupAgrees
<1> QED
  BY ScanInitially, ScanInductive, <1>1, PTL DEF ScanSpec

-----------------------------------------------------------------------------
(* From the BIOS's map to the frames: what the scan leaves decides every   *)
(* frame above the mapped area.                                            *)

\* allocate4 takes the frames up to the end of the mapped area, that page
\* included, without asking; every one after it has been asked for.
Asked ==
    /\ \A q \in 0 .. Entered - 1 :
          q > Fanout => Approved(entries[Slot(q)])
    /\ pc = "approve_frame" /\ Entered > Fanout => Approved(rbx)

\* An answer stays what it is: the table of regions is only read.
LEMMA AskedStays ==
    ASSUME Asked, UNCHANGED <<regions, entries>>, Entered' = Entered,
           pc' = "approve_frame" /\ Entered > Fanout => Approved(rbx')
    PROVE  Asked'
<1>1. \A q : Slot(q)' = Slot(q)
  BY NamesStay
<1>2. \A a : Approved(a)' = Approved(a)
  BY DEF Approved
<1>3. ASSUME NEW q \in 0 .. Entered' - 1, q > Fanout
      PROVE  Approved(entries[Slot(q)])'
  <2>1. Approved(entries[Slot(q)]) /\ Slot(q)' = Slot(q)
    BY <1>1, <1>3 DEF Asked
  <2> QED
    BY <2>1 DEF Approved
<1>4. pc' = "approve_frame" /\ Entered' > Fanout => Approved(rbx)'
  BY DEF Approved
<1> QED
  BY <1>3, <1>4 DEF Asked

\* The page after the one just entered has no frame yet.
LEMMA NextPageEnters ==
    ASSUME IInv, NextPage
    PROVE  Entered' = Entered
<1>1. PICK m \in Nat : BottomHere(m) /\ EntriesHere(m) /\ WalkHere(m)
  BY DEF IInv, TreeHere
<1>2. pc = "next_page" /\ r8' = r8 + PageSize /\ pc' # "next_page"
  BY DEF NextPage, Advance
<1>3. r8 = PageSize * Page /\ Page \in Nat
  BY <1>1 DEF WalkHere
<1>4. PageSize \in Nat /\ PageSize > 0
  BY Numbers
<1>5. r8' = PageSize * (Page + 1) + 0
  <2>1. PageSize * (Page + 1) = PageSize * Page + PageSize
    BY <1>3, <1>4, Grows
  <2>2. PageSize * (Page + 1) \in Nat
    BY <1>3, <1>4
  <2> QED
    BY <1>2, <1>3, <2>1, <2>2
<1>6. (PageSize * (Page + 1) + 0) \div PageSize = Page + 1
  BY <1>3, <1>4, Quotient
<1>7. Page' = Page + 1
  BY <1>5, <1>6 DEF Page
<1> QED
  BY <1>2, <1>7 DEF Entered

\* A new table changes no frame.
LEMMA ApproveTableAsked ==
    ASSUME IInv, Asked, ApproveTable
    PROVE  Asked'
<1>1. PICK m \in Nat : BottomHere(m) /\ EntriesHere(m) /\ WalkHere(m)
  BY DEF IInv, TreeHere
<1>2. /\ pc = "approve_table" /\ pc' = "page_walk"
      /\ UNCHANGED <<regions, pages, r8, rbx>>
  BY DEF ApproveTable, Machine
<1>3. Entered' = Entered
  BY <1>2 DEF Entered, Page
<1>4. /\ DOMAIN entries \subseteq DOMAIN entries'
      /\ \A b \in DOMAIN entries : entries'[b] = entries[b]
  BY <1>1, ApproveTableKeeps
<1>5. \A q : q \div Fanout \in 0 .. m - 1 => Slot(q)' = Slot(q)
  BY <1>1, <1>4, NamesKept
<1>6. ASSUME NEW q \in 0 .. Entered - 1, q > Fanout
      PROVE  Approved(entries[Slot(q)])'
  <2>1. Slot(q)' = Slot(q)
    BY <1>1, <1>5, PagesAre
  <2>2. entries'[Slot(q)'] = entries[Slot(q)]
    BY <1>4, <2>1 DEF IInv, FramesHere
  <2>3. Approved(entries[Slot(q)])
    BY <1>6 DEF Asked
  <2> QED
    BY <1>2, <2>2, <2>3 DEF Approved
<1> QED
  BY <1>2, <1>3, <1>6 DEF Asked

\* The frame that is entered is the one that was asked for.
LEMMA ApproveFrameAsked ==
    ASSUME IInv, Asked, ApproveFrame
    PROVE  Asked'
<1>1. PICK m \in Nat : BottomHere(m) /\ EntriesHere(m) /\ WalkHere(m)
  BY DEF IInv, TreeHere
<1>2. /\ pc = "approve_frame" /\ pc' = "next_page"
      /\ entries' = Write(entries, Entry, rbx)
      /\ UNCHANGED <<regions, r8>>
  BY DEF ApproveFrame, Machine
<1>3. /\ level = 4 /\ m = Column + 1 /\ base = Pt(Column)
      /\ Slot(Page) \notin DOMAIN entries
  BY <1>1, <1>2 DEF WalkHere, Placing
<1>4. Entry = Slot(Page)
  BY <1>1, <1>3, EntryIs DEF Slot, Column
<1>5. Page \in Nat /\ Column \in 0 .. m - 1 /\ Entered = Page
  BY <1>1, <1>2, <1>3, PagesAre DEF Entered
<1>6. Entered' = Page + 1
  BY <1>2 DEF Page, Entered
<1>7. /\ DOMAIN entries' = DOMAIN entries \union {Slot(Page)}
      /\ entries'[Slot(Page)] = rbx
      /\ \A b \in DOMAIN entries : entries'[b] = entries[b]
  BY <1>2, <1>3, <1>4, Written
<1>8. \A q : q \div Fanout \in 0 .. m - 1 => Slot(q)' = Slot(q)
  BY <1>1, <1>7, NamesKept
<1>9. ASSUME NEW q \in 0 .. Page, q > Fanout
      PROVE  Approved(entries[Slot(q)])'
  <2>1. CASE q = Page
    <3>1. Slot(q)' = Slot(q)
      BY <1>5, <1>8, <2>1 DEF Column
    <3>2. entries'[Slot(q)'] = rbx
      BY <1>7, <2>1, <3>1
    <3>3. Approved(rbx)
      BY <1>2, <1>5, <1>9, <2>1 DEF Asked
    <3> QED
      BY <1>2, <3>2, <3>3 DEF Approved
  <2>2. CASE q \in 0 .. Page - 1
    <3>1. q \in 0 .. Entered - 1
      BY <1>5, <2>2
    <3>2. Slot(q)' = Slot(q)
      BY <1>1, <1>8, <3>1, PagesAre
    <3>3. entries'[Slot(q)'] = entries[Slot(q)]
      BY <1>7, <3>1, <3>2 DEF IInv, FramesHere
    <3>4. Approved(entries[Slot(q)])
      BY <1>9, <3>1 DEF Asked
    <3> QED
      BY <1>2, <3>3, <3>4 DEF Approved
  <2> QED
    BY <1>5, <2>1, <2>2
<1>10. 0 .. Entered' - 1 = 0 .. Page
  BY <1>5, <1>6
<1> QED
  BY <1>2, <1>9, <1>10 DEF Asked

\* Up to the mapped area's last page RBX counts the pages, and past it the
\* look-up comes before the frame.
LEMMA AllocateFrameAsked ==
    ASSUME IInv, Asked, AllocateFrame
    PROVE  Asked'
<1>1. PICK m \in Nat : BottomHere(m) /\ EntriesHere(m) /\ WalkHere(m)
  BY DEF IInv, TreeHere
<1>2. /\ pc = "page_walk"
      /\ pc' = IF rbx <= IdentityLimit THEN "approve_frame"
               ELSE "adjust_frame"
      /\ UNCHANGED <<regions, r8, rbx, entries>>
  BY DEF AllocateFrame, Machine
<1>3. Entered' = Entered
  BY <1>2 DEF Entered, Page
<1>4. ASSUME pc' = "approve_frame", Entered > Fanout
      PROVE  FALSE
  <2>1. /\ Entered \in Nat /\ Fanout \in Nat /\ PageSize \in Nat
        /\ PageSize > 0 /\ rbx \in Nat
        /\ IdentityLimit = PageSize * Fanout /\ IdentityLimit \in Nat
    BY <1>1, PagesAre, Numbers DEF IInv, TypeOK
  <2>2. rbx <= IdentityLimit
    BY <1>2, <1>4
  <2>3. PageSize * Fanout + PageSize <= PageSize * Entered
    BY ONLY <1>4, <2>1, Grows
  <2>4. PageSize * Entered <= rbx /\ PageSize * Entered \in Nat
    BY <2>1, Grows DEF IInv, FramesHere
  <2> QED
    BY ONLY <2>1, <2>2, <2>3, <2>4
<1> QED
  BY <1>2, <1>3, <1>4, AskedStays

\* No step gives out a frame above the mapped area without asking.
LEMMA AskedInductive == IInv /\ Asked /\ [Next]_vars => Asked'
<1> SUFFICES ASSUME IInv, Asked, [Next]_vars
             PROVE  Asked'
  OBVIOUS
<1>1. ASSUME Descend \/ AllocateBlind \/ AllocateChecked \/ AdjustTable
                \/ TableFault \/ LoadCr3
      PROVE  Asked'
  <2>1. /\ UNCHANGED <<regions, r8, entries>>
        /\ pc # "next_page" /\ pc' # "next_page" /\ pc' # "approve_frame"
    BY <1>1
    DEF Descend, AllocateBlind, AllocateChecked, AdjustTable, TableFault,
        LoadCr3, Machine
  <2>2. Entered' = Entered
    BY <2>1 DEF Entered, Page
  <2> QED
    BY <2>1, <2>2, AskedStays
<1>2. ASSUME AdjustFrame
      PROVE  Asked'
  <2>1. /\ UNCHANGED <<regions, r8, entries>>
        /\ pc # "next_page" /\ pc' # "next_page"
        /\ pc' = "approve_frame" => Approved(rbx')
    BY <1>2 DEF AdjustFrame, Machine
  <2>2. Entered' = Entered
    BY <2>1 DEF Entered, Page
  <2> QED
    BY <2>1, <2>2, AskedStays
<1>3. ASSUME NextPage
      PROVE  Asked'
  <2>1. UNCHANGED <<regions, entries>> /\ pc' # "approve_frame"
    BY <1>3 DEF NextPage, Advance, Machine
  <2>2. Entered' = Entered
    BY <1>3, NextPageEnters
  <2> QED
    BY <2>1, <2>2, AskedStays
<1>4. CASE UNCHANGED vars
  <2>1. UNCHANGED <<regions, r8, entries, pc, rbx>>
    BY <1>4 DEF vars, Machine
  <2>2. Entered' = Entered
    BY <2>1 DEF Entered, Page
  <2>3. pc' = "approve_frame" /\ Entered > Fanout => Approved(rbx')
    BY <2>1 DEF Asked
  <2> QED
    BY <2>1, <2>2, <2>3, AskedStays
<1> QED
  BY <1>1, <1>2, <1>3, <1>4, ApproveTableAsked, ApproveFrameAsked,
     AllocateFrameAsked
  DEF Next

\* Every frame above the mapped area has been approved.
FramesApproved ==
    \A v \in Done : v > IdentityLimit =>
        Frame(v) \in Nat /\ Approved(Frame(v))

\* The third stage hands out no frame above the area it is itself mapped in
\* without the look-up's consent (allocate4, adjust_then_call4).
THEOREM FramesAreApproved == Spec => []FramesApproved
<1>1. Init => Asked
  <2> SUFFICES ASSUME Init
               PROVE  Asked
    OBVIOUS
  <2>1. r8 = 0 /\ pc = "page_walk"
    BY DEF Init
  <2>2. Entered = 0
    <3>1. 0 \div PageSize = 0
      <4>1. PageSize \in Nat /\ PageSize > 0
        BY Numbers
      <4>2. (PageSize * 0 + 0) \div PageSize = 0
        BY <4>1, Quotient
      <4>3. PageSize * 0 + 0 = 0
        BY <4>1
      <4> QED
        BY <4>2, <4>3
    <3> QED
      BY <2>1, <3>1 DEF Entered, Page
  <2> QED
    BY <2>1, <2>2 DEF Asked
<1>2. IInv /\ Asked => FramesApproved
  <2> SUFFICES ASSUME IInv, Asked, NEW v \in Done, v > IdentityLimit
               PROVE  Frame(v) \in Nat /\ Approved(Frame(v))
    BY DEF FramesApproved
  <2>1. PICK m \in Nat : BottomHere(m) /\ EntriesHere(m) /\ WalkHere(m)
    BY DEF IInv, TreeHere
  <2>2. PICK q \in 0 .. Entered - 1 : v = PageSize * q
    BY <2>1, DoneAre
  <2>3. Frame(v) = entries[Slot(q)]
    BY <2>1, <2>2, FrameIs
  <2>4. q > Fanout
    <3>1. /\ PageSize \in Nat /\ Fanout \in Nat /\ q \in Nat
          /\ IdentityLimit = PageSize * Fanout /\ IdentityLimit \in Nat
      BY <2>1, <2>2, PagesAre, Numbers
    <3>2. q <= Fanout => PageSize * q <= PageSize * Fanout
      BY ONLY <3>1, Grows
    <3>3. PageSize * q \in Nat
      BY ONLY <3>1, Grows
    <3> QED
      BY ONLY <2>2, <3>1, <3>2, <3>3, v > IdentityLimit
  <2>5. entries[Slot(q)] \in Nat
    BY <2>2 DEF IInv, TypeOK, FramesHere
  <2>6. Approved(entries[Slot(q)])
    BY <2>2, <2>4 DEF Asked
  <2> QED
    BY <2>3, <2>5, <2>6
<1> QED
  BY <1>1, <1>2, Invariance, AskedInductive, PTL DEF Spec

\* What the look-up accepts is memory of the BIOS's map, or the address just
\* past it: JNG lets the end of a region in.
LEMMA AcceptedIs ==
    ASSUME ScanIInv, Scanned, Filled, NEW a \in Nat,
           LoopOverMemRegions(table, a)
    PROVE  \/ InRAM(map, a)
           \/ \E i \in DOMAIN map : /\ map[i].type = Usable
                                    /\ a = map[i].base + map[i].length
<1>1. PICK i \in 1 .. 7 : Within(table[i], a) /\ table[i].type = Usable
  BY DEF LoopOverMemRegions, ScannedSlots
<1>2. /\ count = Len(map) /\ Len(map) \in Nat /\ DOMAIN map = 1 .. Len(map)
      /\ \A k \in 1 .. Len(map) : table[k] = map[k] /\ map[k] \in Region
  BY MapFacts DEF ScanIInv, ScanHere
<1>3. i \in 1 .. Len(map)
  <2> SUFFICES ASSUME i > Len(map)
               PROVE  FALSE
    BY <1>1, <1>2
  <2>1. table[i] = [base |-> 0, length |-> 0, type |-> 0]
    BY <1>1, <1>2 DEF Filled, ScannedSlots
  <2> QED
    BY <1>1, <2>1 DEF Usable
<1>4. /\ map[i].type = Usable /\ i \in DOMAIN map
      /\ map[i].base \in Nat /\ map[i].length \in Nat
      /\ map[i].base <= a /\ a <= map[i].base + map[i].length
  BY <1>1, <1>2, <1>3 DEF Within, Region
<1>5. CASE a = map[i].base + map[i].length
  BY <1>4, <1>5
<1>6. CASE a < map[i].base + map[i].length
  BY <1>4, <1>6 DEF InRAM
<1> QED
  BY <1>4, <1>5, <1>6

\* The second stage is done before the third begins: the table the page builder
\* reads is the one the scan has left.
HandedOver == Scanned => regions = table

\* For any map, if the slots the scan does not use are clear.
FramesFromMap ==
    Scanned /\ Filled =>
        \A v \in Done : v > IdentityLimit =>
            \/ InRAM(map, Frame(v))
            \/ \E i \in DOMAIN map :
                  /\ map[i].type = Usable
                  /\ Frame(v) = map[i].base + map[i].length

\* The two stages together: every page above the mapped area is given a frame
\* that starts in memory the BIOS reported as usable, or just past such memory
\* (memory_scanner, loop_over_mem_regions, allocate4).
THEOREM FramesComeFromTheMap ==
    ScanSpec /\ Spec /\ []HandedOver => []FramesFromMap
<1>1. ScanSpec => []ScanIInv
  BY ScanInitially, ScanInductive, PTL DEF ScanSpec
<1>2. ScanIInv /\ HandedOver /\ FramesApproved => FramesFromMap
  <2> SUFFICES ASSUME ScanIInv, HandedOver, FramesApproved, Scanned, Filled,
                      NEW v \in Done, v > IdentityLimit
               PROVE  \/ InRAM(map, Frame(v))
                      \/ \E i \in DOMAIN map :
                            /\ map[i].type = Usable
                            /\ Frame(v) = map[i].base + map[i].length
    BY DEF FramesFromMap
  <2>1. Frame(v) \in Nat /\ LoopOverMemRegions(table, Frame(v))
    BY DEF HandedOver, FramesApproved, Approved
  <2> QED
    BY <2>1, AcceptedIs
<1> QED
  BY <1>1, <1>2, FramesAreApproved, PTL

=============================================================================
