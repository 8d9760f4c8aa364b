------------------------ MODULE BootPageTablesProofs ------------------------
(***************************************************************************)
(* The boot page tables map the first 2M to itself and nothing else,       *)
(* whatever the RAM held before: proof of the properties of BootPageTables.*)
(*                                                                         *)
(* The argument is the loop invariant: every doubleword below the end of   *)
(* the tables has the value the code intends for it once DI has passed it, *)
(* and 0 before.                                                           *)
(***************************************************************************)
EXTENDS BootPageTables, TLAPS

\* The intended value of a doubleword of the tables, DI being where it is.
Want(a) ==
    IF a \in {4096, 8192, 12288} /\ a < di THEN a + 4099
    ELSE IF 16384 <= a /\ a < di /\ a % 8 = 0 THEN 512 * (a - 16384) + 3
    ELSE 0

Content == pc # "clear" => \A a \in Words : a < 20480 => tables[a] = Want(a)

\* DI and EAX advance together.
Progress ==
    \/ pc = "clear" /\ di = 4096 /\ eax = 0
    \/ pc = "link" /\ di \in {4096, 8192, 12288} /\ eax \in Nat /\ eax < Limit
    \/ /\ pc = "pte_loop"
       /\ \E n \in 0 .. 511 : di = 16384 + 8 * n /\ eax = 4096 * n + 3
    \/ pc = "ret" /\ di = 20480 /\ eax = Limit + 3

IInv == tables \in [Words -> Nat] /\ Progress /\ Content

-----------------------------------------------------------------------------
\* The sizes the code assembles, as numerals.
LEMMA Numbers ==
    /\ Base = 4096 /\ Page = 4096 /\ PresentWrite = 3
    /\ ClearedWords = 4096 /\ Last = 16384 /\ End = 20480
  BY DEF Base, Page, PresentWrite, ClearedWords, Last, End

\* The loop's bound, apart: Zenon cannot read so large a numeral.
LEMMA LimitIs == Limit = 2097152
  BY SMT DEF Limit

\* A number below the bound, for leaves that see the numeral.
LEMMA BelowLimit == \A v \in Nat : v < Limit => v < 2097152
  BY LimitIs, SMT

\* What it is when the numeral does not matter.
LEMMA LimitNat == Limit \in Nat /\ 0 < Limit
  BY SMT DEF Limit

\* The doublewords are numbered 1024 to 6143.
LEMMA WordNumbersAre ==
    \A k : k \in WordNumbers <=> k \in Nat /\ 1024 <= k /\ k < 6144
<1>1. LastWord \in Nat /\ \A k \in Nat : k <= LastWord <=> k < 6144
  BY DEF LastWord
<1>2. \A k : k \in WordNumbers <=> k \in Nat /\ k <= LastWord /\ 4096 <= 4 * k
  BY <1>1, Numbers DEF WordNumbers
<1> QED
  BY <1>1, <1>2

\* The doublewords are the multiples of 4 in their range.
LEMMA WordsAre ==
    ASSUME NEW a \in Int
    PROVE  a \in Words <=> a % 4 = 0 /\ 4096 <= a /\ a < 24576
<1>1. a \in Words <=> \E k \in WordNumbers : a = 4 * k
  BY DEF Words
<1>2. ASSUME NEW k \in WordNumbers, a = 4 * k
      PROVE  a % 4 = 0 /\ 4096 <= a /\ a < 24576
  BY <1>2, WordNumbersAre
<1>3. ASSUME a % 4 = 0, 4096 <= a, a < 24576
      PROVE  \E k \in WordNumbers : a = 4 * k
  <2>1. /\ a \div 4 \in Nat /\ 1024 <= a \div 4 /\ a \div 4 < 6144
        /\ a = 4 * (a \div 4)
    BY <1>3
  <2>2. a \div 4 \in WordNumbers
    BY <2>1, WordNumbersAre
  <2> QED
    BY <2>1, <2>2
<1> QED
  BY <1>1, <1>2, <1>3

\* Every doubleword is a number.
LEMMA WordsInt == Words \subseteq Int
  BY WordNumbersAre DEF Words

\* The invariant holds when build_page_table is called.
LEMMA InitIInv == Init => IInv
<1> SUFFICES ASSUME Init PROVE IInv
  OBVIOUS
<1>1. tables \in [Words -> Nat]
  BY JunkAssumption DEF Init
<1>2. Progress /\ Content
  BY Numbers, SMT DEF Init, Progress, Content
<1> QED
  BY <1>1, <1>2 DEF IInv

\* REP STOSD with its count of doublewords clears the four tables.
LEMMA ClearStep ==
    ASSUME IInv, Clear
    PROVE  IInv'
<1>1. tables' \in [Words -> Nat]
  BY DEF IInv, Clear, RepStosd
<1>2. pc' = "link" /\ di' = 4096 /\ eax' = 0
  BY DEF IInv, Progress, Clear, RepStosd
<1>3. \A a \in Words : a < 20480 => tables'[a] = 0
  BY Numbers DEF Clear, RepStosd
<1>4. \A a \in Words : a \in Int /\ 4096 <= a
  BY WordsInt, WordsAre
<1>5. Content'
  BY <1>2, <1>3, <1>4 DEF Content, Want
<1> QED
  BY <1>1, <1>2, <1>5, LimitNat DEF IInv, Progress

\* Entering the next table's address completes one upper table.
LEMMA LinkStep ==
    ASSUME IInv, Link
    PROVE  IInv'
<1>1. di \in {4096, 8192, 12288} /\ eax \in Nat /\ pc = "link"
  BY DEF IInv, Progress, Link
<1>2. di \in Words
  BY <1>1, WordsAre
<1>3. tables' = [tables EXCEPT ![di] = di + 4099]
  BY <1>1, Numbers DEF Link
<1>4. tables' \in [Words -> Nat]
  BY <1>1, <1>2, <1>3 DEF IInv
<1>5. Progress' /\ di' = di + 4096 /\ pc' # "clear"
  <2>1. CASE di = 12288
    <3>1. pc' = "pte_loop" /\ di' = 16384 /\ eax' = 3
      BY <2>1, Numbers DEF Link
    <3>2. 0 \in Nat /\ 0 < 512 /\ di' = 16384 + 8 * 0 /\ eax' = 4096 * 0 + 3
      BY <3>1
    <3> QED
      BY <2>1, <3>1, <3>2 DEF Progress
  <2>2. CASE di # 12288
    BY <1>1, <2>2, Numbers, LimitIs, SMT DEF Link, Progress
  <2> QED
    BY <2>1, <2>2
<1>6. Content'
  <2> SUFFICES ASSUME NEW a \in Words, a < 20480
               PROVE  tables'[a] = Want(a)'
    BY DEF Content
  <2>1. a \in Int /\ tables[a] = Want(a)
    BY <1>1, WordsInt DEF IInv, Content
  <2>2. CASE a = di
    BY <1>1, <1>2, <1>3, <1>5, <2>2 DEF Want, IInv
  <2>3. CASE a # di
    <3>1. tables'[a] = tables[a]
      BY <1>3, <2>3 DEF IInv
    <3>2. Want(a)' = Want(a)
      BY <1>1, <1>5, <2>1, <2>3 DEF Want
    <3> QED
      BY <2>1, <3>1, <3>2
  <2> QED
    BY <2>2, <2>3
<1> QED
  BY <1>4, <1>5, <1>6 DEF IInv

\* A turn of .pte_loop writes the entry DI points at and no other doubleword.
LEMMA PteLoopStep ==
    ASSUME IInv, PteLoop
    PROVE  IInv'
<1>1. PICK n \in Nat : n < 512 /\ di = 16384 + 8 * n /\ eax = 4096 * n + 3
  <2>1. \E n \in 0 .. 511 : di = 16384 + 8 * n /\ eax = 4096 * n + 3
    BY DEF IInv, Progress, PteLoop, StoreEntry
  <2>2. 0 .. 511 \subseteq Nat /\ \A n \in 0 .. 511 : n < 512
    OBVIOUS
  <2> QED
    BY <2>1, <2>2
<1>2. di \in Words
  BY <1>1, WordsAre
<1>3. tables' = [tables EXCEPT ![di] = eax]
  BY DEF PteLoop, StoreEntry
<1>4. tables' \in [Words -> Nat]
  BY <1>1, <1>2, <1>3 DEF IInv
<1>5. di' = di + 8 /\ eax' = eax + 4096
      /\ pc' = IF n + 1 < 512 THEN "pte_loop" ELSE "ret"
  BY <1>1, Numbers, LimitIs, SMT DEF PteLoop, StoreEntry
<1>6. Progress' /\ pc' # "clear"
  <2>1. CASE n + 1 < 512
    <3>1. /\ pc' = "pte_loop" /\ n + 1 \in Nat
          /\ di' = 16384 + 8 * (n + 1) /\ eax' = 4096 * (n + 1) + 3
      BY <1>1, <1>5, <2>1
    <3> QED
      BY <2>1, <3>1 DEF Progress
  <2>2. CASE ~(n + 1 < 512)
    <3>1. n = 511
      BY <1>1, <2>2
    <3> QED
      BY <1>1, <1>5, <3>1, LimitIs, SMT DEF Progress
  <2> QED
    BY <2>1, <2>2
<1>7. Content'
  <2> SUFFICES ASSUME NEW a \in Words, a < 20480
               PROVE  tables'[a] = Want(a)'
    BY DEF Content
  <2>1. a \in Int /\ tables[a] = Want(a)
    BY WordsInt DEF IInv, Content, PteLoop, StoreEntry
  <2>2. CASE a = di
    <3>1. tables'[a] = eax
      BY <1>2, <1>3, <2>2 DEF IInv
    <3>2. Want(a)' = 512 * (a - 16384) + 3
      BY <1>1, <1>5, <2>2 DEF Want
    <3> QED
      BY <1>1, <2>2, <3>1, <3>2
  <2>3. CASE a # di
    <3>1. tables'[a] = tables[a]
      BY <1>3, <2>3 DEF IInv
    <3>2. a < di' /\ a % 8 = 0 /\ 16384 <= a => a < di
      BY <1>1, <1>5, <2>1, <2>3
    <3>3. Want(a)' = Want(a)
      BY <1>1, <1>5, <2>1, <3>2 DEF Want
    <3> QED
      BY <2>1, <3>1, <3>3
  <2> QED
    BY <2>2, <2>3
<1> QED
  BY <1>4, <1>6, <1>7 DEF IInv

\* Every step of build_page_table keeps the invariant.
LEMMA NextIInv == IInv /\ [Next]_vars => IInv'
<1> SUFFICES ASSUME IInv, [Next]_vars PROVE IInv'
  OBVIOUS
<1>1. CASE Clear
  BY <1>1, ClearStep
<1>2. CASE Link
  BY <1>2, LinkStep
<1>3. CASE PteLoop
  BY <1>3, PteLoopStep
<1>4. CASE UNCHANGED vars
  BY <1>4 DEF vars, IInv, Progress, Content, Want
<1> QED
  BY <1>1, <1>2, <1>3, <1>4 DEF Next

\* The loop invariant holds in every reachable state of build_page_table.
THEOREM Invariance == Spec => []IInv
<1>1. Init => IInv
  BY InitIInv
<1>2. IInv /\ [Next]_vars => IInv'
  BY NextIInv
<1> QED
  BY <1>1, <1>2, PTL DEF Spec

-----------------------------------------------------------------------------
\* DI stays on an entry of the four tables and EAX within its range.
THEOREM TypeCorrect == Spec => []TypeOK
<1>1. IInv => TypeOK
  <2> SUFFICES ASSUME IInv PROVE TypeOK
    OBVIOUS
  <2>1. /\ pc \in {"clear", "link", "pte_loop", "ret"}
        /\ eax \in Nat /\ eax <= Limit + 3
        /\ di \in Nat /\ 4096 <= di /\ di <= 20480 /\ di % 8 = 0
    BY LimitIs, SMT DEF IInv, Progress
  <2>2. di = 8 * (di \div 8) /\ di \div 8 \in 512..2560
    BY <2>1
  <2>3. di \in {8 * k : k \in Base \div 8 .. End \div 8}
    BY <2>2, Numbers
  <2>4. eax \in 0..Limit + PresentWrite
    BY <2>1, Numbers, LimitNat
  <2> QED
    BY <2>1, <2>3, <2>4 DEF TypeOK, IInv
<1> QED
  BY <1>1, Invariance, PTL

\* What the processor finds in the finished tables.
LEMMA Finished ==
    ASSUME IInv, pc = "ret"
    PROVE  /\ Follow(4096, 0) = 8192
           /\ Follow(8192, 0) = 12288
           /\ Follow(12288, 0) = 16384
           /\ \A i \in 0..511 : Follow(16384, i) = 4096 * i
           /\ \A t \in 0..2, i \in 1..511 :
                  Follow(4096 + t * 4096, i) = Unmapped
<1>1. di = 20480 /\ \A a \in Words : a < 20480 => tables[a] = Want(a)
  BY DEF IInv, Progress, Content
<1>2. ASSUME NEW a \in Int, a % 4 = 0, 4096 <= a, a < 20480
      PROVE  tables[a] = Want(a)
  BY <1>1, <1>2, WordsAre
<1>3. /\ tables[4096] = 8195 /\ tables[8192] = 12291 /\ tables[12288] = 16387
      /\ tables[4100] = 0 /\ tables[8196] = 0 /\ tables[12292] = 0
  BY <1>1, <1>2 DEF Want
<1>4. /\ Follow(4096, 0) = 8192 /\ Follow(8192, 0) = 12288
      /\ Follow(12288, 0) = 16384
  BY <1>3 DEF Follow, Page
<1>5. ASSUME NEW i \in 0..511
      PROVE  Follow(16384, i) = 4096 * i
  <2> DEFINE a == 16384 + 8 * i
  <2>1. tables[a] = Want(a) /\ tables[a + 4] = Want(a + 4)
    BY <1>2
  <2>2. Want(a) = 4096 * i + 3 /\ Want(a + 4) = 0
    BY <1>1 DEF Want
  <2>3. (4096 * i + 3) % 2 = 1 /\ (4096 * i + 3) % 4096 = 3
    OBVIOUS
  <2> QED
    BY <2>1, <2>2, <2>3 DEF Follow, Page
<1>6. ASSUME NEW t \in 0..2, NEW i \in 1..511
      PROVE  Follow(4096 + t * 4096, i) = Unmapped
  <2> DEFINE a == 4096 + t * 4096 + 8 * i
  <2>1. a \in Int /\ a % 4 = 0 /\ 4096 <= a /\ a < 16384
        /\ a \notin {4096, 8192, 12288}
    BY t \in {0, 1, 2}
  <2>2. tables[a] = Want(a)
    BY <1>2, <2>1
  <2>3. Want(a) = 0
    BY <2>1 DEF Want
  <2> QED
    BY <2>2, <2>3 DEF Follow, Unmapped
<1> QED
  BY <1>4, <1>5, <1>6

\* What runs when paging is turned on stays at its address, for every address
\* below 2M and whatever the RAM held.
THEOREM IdentityCorrect == Spec => []IdentityMapped
<1>1. IInv => IdentityMapped
  <2> SUFFICES ASSUME IInv, pc = "ret", NEW v \in 0..Limit - 1
               PROVE  Translate(v) = v
    BY DEF IdentityMapped
  <2>0. v \in Nat /\ v < Limit
    BY LimitNat
  <2>1. v \in Nat /\ v < 2097152
    BY <2>0, BelowLimit, SMT
  <2>2. /\ v \div 1073741824 = 0 /\ 0 \div 512 = 0 /\ 0 % 512 = 0
        /\ v \div 2097152 = 0
    BY <2>1, SMT
  <2>3. v \div 4096 \in 0..511 /\ (v \div 4096) % 512 = v \div 4096
    BY <2>1, SMT
  <2>4. v = 4096 * (v \div 4096) + (v % 4096)
    BY <2>1, SMT
  <2>5. /\ (v \div 1073741824) \div 512 = 0 /\ (v \div 1073741824) % 512 = 0
        /\ (v \div 2097152) % 512 = 0
    BY <2>2, SMT
  <2>6. Translate(v) = Follow(16384, v \div 4096) + (v % 4096)
    BY <2>3, <2>5, Finished, SMT DEF Translate, Base, Page
  <2> QED
    BY <2>3, <2>4, <2>6, Finished, SMT
<1> QED
  BY <1>1, Invariance, PTL

\* No entry that the RAM held before maps anything.
THEOREM NothingElse == Spec => []NothingElseMapped
<1>1. IInv => NothingElseMapped
  BY Finished, Numbers DEF NothingElseMapped
<1> QED
  BY <1>1, Invariance, PTL

\* Together: the finished tables are the identity of the first 2M, no more.
THEOREM TablesAreExact == Spec => []TablesExact
  BY IdentityCorrect, NothingElse, PTL DEF TablesExact

\* The stores of build_page_table stay inside its four tables.
THEOREM WritesContained == Spec => OnlyTablesWritten
<1>1. ASSUME IInv, [Next]_vars
      PROVE  [\A a \in Words : a >= End => tables'[a] = tables[a]]_vars
  <2>1. CASE Clear
    BY <2>1, WordsInt, Numbers DEF Clear, RepStosd
  <2>2. CASE Link
    <3>1. di < 20480 /\ di \in Int
      BY <1>1, <2>2 DEF IInv, Progress, Link
    <3>2. \A a \in Words : a # di => tables'[a] = tables[a]
      BY <1>1, <2>2 DEF IInv, Link
    <3> QED
      BY <3>1, <3>2, WordsInt, Numbers
  <2>3. CASE PteLoop
    <3>1. di < 20480 /\ di \in Int
      BY <1>1, <2>3 DEF IInv, Progress, PteLoop, StoreEntry
    <3>2. \A a \in Words : a # di => tables'[a] = tables[a]
      BY <1>1, <2>3 DEF IInv, PteLoop, StoreEntry
    <3> QED
      BY <3>1, <3>2, WordsInt, Numbers
  <2>4. CASE UNCHANGED vars
    BY <2>4 DEF vars
  <2> QED
    BY <1>1, <2>1, <2>2, <2>3, <2>4 DEF Next
<1> QED
  BY <1>1, Invariance, PTL DEF Spec, OnlyTablesWritten
=============================================================================
