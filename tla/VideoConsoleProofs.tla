-------------------------- MODULE VideoConsoleProofs --------------------------
(***************************************************************************)
(* The console for every screen, every window that holds it and every      *)
(* length of the messages.  What the invariants of the run say of a text   *)
(* that has been printed is not inductive: the proof follows each          *)
(* character from the store on, before and after the scroll, and RBX with  *)
(* it, and shows that a text of one row meets the end of the screen once   *)
(* at most.                                                                *)
(***************************************************************************)
EXTENDS VideoConsole, SequenceTheorems, TLAPS

-----------------------------------------------------------------------------
(* The inductive invariant. *)

\* Where the text being printed, or the last one, began.
First == Cell(from)
Length == Len(shown)

\* Characters of it up to the end of the screen; the next one scrolls.
Before == (Screen - First) \div 2

\* The text has met the end of the screen: RBX was Screen exactly.
Crossed ==
    /\ First <= Screen /\ (Screen - First) % 2 = 0
    /\ First + 2 * Length > Screen

\* Where a message of at most a row is, and where its next character goes.
Straight ==
    /\ rbx = First + 2 * Length
    /\ \A k \in 1 .. Length : shown[k] = First + 2 * (k - 1)

Moved(k) == IF k <= Before THEN (First + 2 * (k - 1)) - Row
            ELSE IF k = Before + 1 THEN Gone
            ELSE LastRow + 2 * (k - Before - 1)

ScrolledOnce ==
    /\ rbx = LastRow + 2 * (Length - Before)
    /\ \A k \in 1 .. Length : shown[k] = Moved(k)

MessageHere ==
    kind = "message" /\ 2 * Length <= Row =>
        IF Crossed THEN ScrolledOnce ELSE Straight

\* A number before its last digit.
DigitsHere ==
    pc = "hexa_loop" =>
        /\ kind = "number" /\ Length + left = Digits /\ cx = left
        /\ Straight

\* And after it, while what is taken for a message fits in the last row.
NumberHere ==
    kind = "number" /\ pc # "hexa_loop" /\ cx <= Row
        /\ from + 2 * Digits <= Screen =>
        /\ Length = Digits /\ rbx = LastRow + cx
        /\ \A k \in 1 .. Digits : shown[k] = Scrolled(from + 2 * (k - 1))

IInv == TypeOK /\ MessageHere /\ DigitsHere /\ NumberHere

-----------------------------------------------------------------------------
(* The screen, the window and the scroll. *)

\* Division with remainder.
LEMMA Divided ==
    ASSUME NEW d \in Nat, d > 0, NEW x \in Nat
    PROVE  /\ x \div d \in Nat /\ x % d \in 0 .. d - 1
           /\ x = d * (x \div d) + (x % d)
<1>1. x \div d \in Int /\ x % d \in 0 .. d - 1
  OBVIOUS
<1>2. x = d * (x \div d) + (x % d)
  OBVIOUS
<1>3. x \div d >= 0
  <2> DEFINE q == x \div d
             r == x % d
  <2>1. q \in Int /\ r \in 0 .. d - 1 /\ x = d * q + r
    BY <1>1, <1>2
  <2> HIDE DEF q, r
  <2>2. ~(q <= -1)
    <3>1. SUFFICES ASSUME q <= -1 PROVE FALSE
      OBVIOUS
    <3>2. d * q <= -d
      BY <2>1, <3>1
    <3> QED
      BY <2>1, <3>2
  <2>3. q >= 0
    BY <2>1, <2>2
  <2> QED
    BY <2>3 DEF q
<1> QED
  BY <1>1, <1>2, <1>3

\* A remainder that is known: at most one turn has been made.
LEMMA Wrapped ==
    ASSUME NEW d \in Nat, d > 0, NEW x \in 0 .. 2 * d - 1
    PROVE  x % d = IF x < d THEN x ELSE x - d
<1> DEFINE q == x \div d
           r == x % d
<1>1. q \in Nat /\ r \in 0 .. d - 1 /\ x = d * q + r
  BY Divided
<1> HIDE DEF q, r
<1>2. q = 0 \/ q = 1
  <2>1. ASSUME q >= 2 PROVE FALSE
    <3>1. d * q >= d * 2
      BY <1>1, <2>1
    <3> QED
      BY <1>1, <3>1
  <2> QED
    BY <1>1, <2>1
<1>3. r = IF x < d THEN x ELSE x - d
  BY <1>1, <1>2
<1> QED
  BY <1>3 DEF r

\* The geometry: three rows or more, an even number of bytes, and the last
\* row followed by another within the window.
LEMMA Geometry ==
    /\ Row \in Nat /\ Row >= 2 /\ Row % 2 = 0
    /\ Screen \in Nat /\ Screen % 2 = 0 /\ Screen >= 3 * Row
    /\ LastRow = Screen - Row
    /\ HalfWindow \in Nat /\ Screen + Row <= HalfWindow
    /\ Window = 2 * HalfWindow /\ Window \in Nat /\ Window > 0
    /\ Gone = -Window
    /\ Digits \in Nat /\ Digits > 0 /\ 2 * Digits <= Row
<1>1. /\ Row \in Nat /\ Row >= 2 /\ Row % 2 = 0
      /\ Rows \in Nat /\ Rows >= 3 /\ HalfWindow \in Nat
      /\ HalfWindow >= (Rows + 1) * Row
  BY GeometryAssumption
<1>2. Rows * Row \in Nat /\ Rows * Row >= 3 * Row
  BY <1>1
<1>3. (Rows + 1) * Row = Rows * Row + Row
  BY <1>1
<1>4. (Rows * Row) % 2 = 0
  <2>1. PICK h \in Nat : Row = 2 * h
    <3>1. Row \div 2 \in Nat /\ Row = 2 * (Row \div 2)
      BY <1>1
    <3> QED
      BY <3>1
  <2>2. Rows * Row = 2 * (Rows * h) /\ Rows * h \in Nat
    BY <1>1, <2>1
  <2> QED
    BY <2>2
<1> QED
  BY <1>1, <1>2, <1>3, <1>4, TextAssumption
  DEF Screen, LastRow, Window, Gone

\* An address in BX is the location itself in the lower half of the window,
\* and below the screen in the upper.
LEMMA CellIs ==
    ASSUME NEW location \in 0 .. Window - 1
    PROVE  Cell(location) = IF location < HalfWindow THEN location
                            ELSE location - Window
<1> DEFINE x == HalfWindow + location
<1>1. x \in 0 .. 2 * Window - 1
  BY Geometry
<1>2. x % Window = IF x < Window THEN x ELSE x - Window
  BY <1>1, Geometry, Wrapped
<1> HIDE DEF x
<1>3. x = HalfWindow + location
  BY DEF x
<1>4. Cell(location) = (x % Window) - HalfWindow
  BY <1>3 DEF Cell
<1> QED
  BY <1>2, <1>3, <1>4, Geometry

\* Every place is below the screen, on it, above it, or gone.
LEMMA ScrolledIs ==
    ASSUME NEW place \in Places
    PROVE  /\ Scrolled(place) \in Places
           /\ place >= 0 /\ place < Row => Scrolled(place) = Gone
           /\ place >= Row /\ place < Screen => Scrolled(place) = place - Row
  BY Geometry DEF Scrolled, Places, Stored

\* The scroll moves the characters and keeps their number and order.
LEMMA ScrollIs ==
    ASSUME NEW places \in Seq(Places)
    PROVE  /\ Scroll(places) \in Seq(Places)
           /\ Len(Scroll(places)) = Len(places)
           /\ \A k \in 1 .. Len(places) :
                 places[k] \in Places
                 /\ Scroll(places)[k] = Scrolled(places[k])
<1>1. /\ Len(places) \in Nat /\ DOMAIN places = 1 .. Len(places)
      /\ \A k \in 1 .. Len(places) : places[k] \in Places
  BY LenProperties
<1>2. Scroll(places) \in [1 .. Len(places) -> Places]
  BY <1>1, ScrolledIs DEF Scroll
<1>3. Scroll(places) \in Seq(Places)
  BY <1>1, <1>2
<1>4. Len(Scroll(places)) = Len(places)
  BY <1>1, <1>2, <1>3, LenProperties
<1> QED
  BY <1>1, <1>3, <1>4 DEF Scroll

\* What the type invariant says of the text.
LEMMA TextFacts ==
    ASSUME TypeOK
    PROVE  /\ Length \in Nat /\ shown \in Seq(Places)
           /\ DOMAIN shown = 1 .. Length
           /\ from \in 0 .. Window - 1
           /\ First = IF from < HalfWindow THEN from ELSE from - Window
           /\ First \in Int
           /\ rbx \in Int /\ rbx >= -HalfWindow
           /\ left \in Nat /\ cx \in Nat
<1>1. Length \in Nat /\ DOMAIN shown = 1 .. Length
  BY LenProperties DEF TypeOK, Length
<1>2. First = IF from < HalfWindow THEN from ELSE from - Window
  BY CellIs DEF TypeOK, First
<1> QED
  BY <1>1, <1>2, Geometry DEF TypeOK, Stored

\* Where the characters of a message that has met the end of the screen are.
LEMMA MovedIs ==
    ASSUME NEW k \in Int, Before \in Int, First \in Int
    PROVE  /\ k <= Before => Moved(k) = (First + 2 * (k - 1)) - Row
           /\ k = Before + 1 => Moved(k) = Gone
           /\ k > Before + 1 => Moved(k) = LastRow + 2 * (k - Before - 1)
  BY Geometry DEF Moved

\* They are where they are as long as the text began where it began.
LEMMA MovedKept ==
    ASSUME from' = from
    PROVE  \A k : Moved(k)' = Moved(k)
  BY DEF Moved, First, Before, Cell, LastRow, Screen, Gone, Window

-----------------------------------------------------------------------------
(* The steps. *)

\* Nothing is shown yet and the next message begins at location 0.
LEMMA Initially == Init => IInv
<1> SUFFICES ASSUME Init
             PROVE  IInv
  OBVIOUS
<1>1. /\ pc = "idle" /\ start = 0 /\ rbx = 0 /\ cx = 0 /\ left = 0
      /\ end = "newline" /\ kind = "message" /\ from = 0 /\ shown = <<>>
  BY DEF Init
<1>2. TypeOK
  BY <1>1, Geometry, EmptySeq DEF TypeOK, Stored
<1>3. First = 0 /\ Length = 0
  BY <1>1, <1>2, TextFacts, Geometry, EmptySeq DEF Length
<1>4. ~Crossed /\ Straight
  BY <1>1, <1>3, Geometry DEF Crossed, Straight
<1> QED
  BY <1>1, <1>2, <1>4 DEF IInv, MessageHere, DigitsHere, NumberHere

\* A new text has no character yet, and RBX is where it begins.
LEMMA BeginStep ==
    ASSUME IInv, NEW what \in {"message", "number"},
           NEW routine \in {"video_print_loop", "hexa_loop"},
           NEW characters \in Nat,
           what = "number" <=> routine = "hexa_loop",
           routine = "hexa_loop" => characters = Digits,
           Begin(what, routine, characters),
           cx' = (IF routine = "hexa_loop" THEN characters ELSE 0),
           end' \in {"newline", "zero"}, start' = start
    PROVE  IInv'
<1>1. /\ pc' = routine /\ left' = characters /\ kind' = what
      /\ from' = start /\ rbx' = Cell(start) /\ shown' = <<>>
  BY DEF Begin
<1>2. /\ start \in 0 .. Window - 1 /\ from' \in 0 .. Window - 1
      /\ Cell(start) \in Stored /\ First' = rbx'
  <2>1. start \in 0 .. Window - 1
    BY DEF IInv, TypeOK
  <2>2. Cell(start) \in Stored
    BY <2>1, CellIs, Geometry DEF Stored
  <2> QED
    BY <1>1, <2>1, <2>2 DEF First, Cell
<1>3. Length' = 0 /\ shown' \in Seq(Places)
  BY <1>1, EmptySeq DEF Length
<1>4. TypeOK'
  BY <1>1, <1>2, <1>3, Geometry DEF TypeOK
<1>5. ~Crossed' /\ Straight'
  <2>1. rbx' \in Int
    BY <1>1, <1>2 DEF Stored
  <2>2. \A f \in Int : \A n :
           n = 0 => f = f + 2 * n /\ ~(f <= Screen /\ f + 2 * n > Screen)
    BY Geometry
  <2>3. /\ rbx' = First' + 2 * Length'
        /\ ~(First' <= Screen /\ First' + 2 * Length' > Screen)
    BY ONLY <1>2, <1>3, <2>1, <2>2, Zenon
  <2> QED
    BY <1>3, <2>3 DEF Crossed, Straight, Screen
<1>6. MessageHere' /\ DigitsHere'
  BY <1>1, <1>3, <1>5, Geometry DEF MessageHere, DigitsHere
<1>7. NumberHere'
  BY <1>1 DEF NumberHere
<1> QED
  BY <1>4, <1>6, <1>7 DEF IInv

\* After the stores, RBX is two further: where the next character goes.
LEMMA PutCharacterStep ==
    ASSUME IInv, PutCharacter
    PROVE  IInv'
<1>1. /\ pc = "video_print_loop" /\ left > 0 /\ rbx # Screen
      /\ rbx' = rbx + 2 /\ cx' = cx + 2 /\ left' = left - 1
      /\ UNCHANGED <<pc, start, end, kind, from>>
      /\ shown' = IF kind = "message" THEN Append(shown, rbx) ELSE shown
  BY DEF PutCharacter, Store
<1>2. /\ Length \in Nat /\ shown \in Seq(Places) /\ First \in Int
      /\ rbx \in Int /\ rbx >= -HalfWindow /\ left \in Nat /\ cx \in Nat
      /\ First' = First /\ rbx \in Places
  BY <1>1, TextFacts DEF IInv, First, Cell, Places, Stored
<1>3. rbx' \in Stored /\ cx' \in Nat /\ left' \in Nat
  BY <1>1, <1>2, Geometry DEF Stored
<1>4. ASSUME kind = "message"
      PROVE  /\ shown' \in Seq(Places) /\ Length' = Length + 1
             /\ \A k \in 1 .. Length : shown'[k] = shown[k]
             /\ shown'[Length + 1] = rbx
  BY <1>1, <1>2, <1>4, AppendProperties DEF Length
<1>5. TypeOK'
  <2>1. shown' \in Seq(Places)
    BY <1>1, <1>2, <1>4
  <2> QED
    BY <1>1, <1>3, <2>1 DEF IInv, TypeOK
<1>6. MessageHere'
  <2> SUFFICES ASSUME kind = "message", 2 * (Length + 1) <= Row
               PROVE  IF Crossed' THEN ScrolledOnce' ELSE Straight'
    BY <1>1, <1>4 DEF MessageHere
  <2>1. IF Crossed THEN ScrolledOnce ELSE Straight
    BY <1>2, Geometry DEF IInv, MessageHere
  <2>2. Length' = Length + 1 /\ Before' = Before
    BY <1>2, <1>4 DEF Before
  <2>3. CASE Crossed
    <3>1. First <= Screen /\ (Screen - First) % 2 = 0
          /\ First + 2 * Length > Screen
      BY <2>3 DEF Crossed
    <3>2. Crossed'
      BY <1>2, <2>2, <3>1, Geometry DEF Crossed
    <3>3. Before \in Nat /\ Screen - First = 2 * Before /\ Before < Length
      BY <1>2, <3>1, Geometry DEF Before
    <3>4. ScrolledOnce'
      <4>1. /\ rbx = LastRow + 2 * (Length - Before)
            /\ \A k \in 1 .. Length : shown[k] = Moved(k)
        BY <2>1, <2>3 DEF ScrolledOnce
      <4>2. rbx' = LastRow + 2 * (Length' - Before')
        BY <1>1, <1>2, <2>2, <3>3, <4>1, Geometry
      <4>3. ASSUME NEW k \in 1 .. Length + 1
            PROVE  shown'[k] = Moved(k)
        <5>1. CASE k \in 1 .. Length
          BY <1>4, <4>1, <5>1
        <5>2. CASE k = Length + 1
          <6>1. shown'[k] = rbx /\ k > Before + 1
            BY <1>2, <1>4, <3>3, <5>2
          <6>2. rbx = LastRow + 2 * (k - Before - 1)
            BY <1>2, <3>3, <4>1, <5>2, Geometry
          <6>3. Moved(k) = LastRow + 2 * (k - Before - 1)
            BY <1>2, <3>3, <6>1, MovedIs
          <6> QED
            BY <6>1, <6>2, <6>3
        <5> QED
          BY <1>2, <5>1, <5>2
      <4> QED
        BY <1>1, <1>2, <2>2, <4>2, <4>3, MovedKept
        DEF ScrolledOnce, LastRow, Screen
    <3> QED
      BY <3>2, <3>4
  <2>4. CASE ~Crossed
    <3>1. /\ rbx = First + 2 * Length
          /\ \A k \in 1 .. Length : shown[k] = First + 2 * (k - 1)
      BY <2>1, <2>4 DEF Straight
    <3>2. ~Crossed'
      BY <1>1, <1>2, <2>2, <2>4, <3>1, Geometry DEF Crossed
    <3>3. Straight'
      BY <1>1, <1>2, <1>4, <2>2, <3>1 DEF Straight
    <3> QED
      BY <3>2, <3>3
  <2> QED
    BY <2>3, <2>4
<1>7. DigitsHere'
  BY <1>1 DEF DigitsHere
<1>8. NumberHere'
  <2> SUFFICES ASSUME kind = "number", cx + 2 <= Row,
                      from + 2 * Digits <= Screen
               PROVE  /\ Length = Digits /\ rbx + 2 = LastRow + (cx + 2)
                      /\ \A k \in 1 .. Digits :
                            shown[k] = Scrolled(from + 2 * (k - 1))
    BY <1>1 DEF NumberHere, Length, LastRow, Screen, Scrolled, Gone, Window
  <2>1. cx <= Row /\ pc # "hexa_loop"
    BY <1>1, <1>2, Geometry
  <2>2. /\ Length = Digits /\ rbx = LastRow + cx
        /\ \A k \in 1 .. Digits : shown[k] = Scrolled(from + 2 * (k - 1))
    BY <2>1 DEF IInv, NumberHere
  <2> QED
    BY <1>2, <2>2, Geometry
<1> QED
  BY <1>5, <1>6, <1>7, <1>8 DEF IInv

\* The scroll moves every character of the message one row up; the one that
\* met the end of the screen is lost.
LEMMA ScrollUpStep ==
    ASSUME IInv, ScrollUp
    PROVE  IInv'
<1>1. /\ pc = "video_print_loop" /\ left > 0 /\ rbx = Screen
      /\ rbx' = LastRow + 2 /\ cx' = cx + 2 /\ left' = left - 1
      /\ UNCHANGED <<pc, start, end, kind, from>>
      /\ shown' = IF kind = "message" THEN Append(Scroll(shown), Gone)
                  ELSE Scroll(shown)
  BY DEF ScrollUp
<1>2. /\ Length \in Nat /\ shown \in Seq(Places) /\ First \in Int
      /\ rbx \in Int /\ left \in Nat /\ cx \in Nat /\ First' = First
      /\ Gone \in Places
  BY <1>1, TextFacts DEF IInv, First, Cell, Places
<1>3. rbx' \in Stored /\ cx' \in Nat /\ left' \in Nat
  BY <1>1, <1>2, Geometry DEF Stored
<1>4. /\ Scroll(shown) \in Seq(Places) /\ Len(Scroll(shown)) = Length
      /\ \A k \in 1 .. Length : Scroll(shown)[k] = Scrolled(shown[k])
  BY <1>2, ScrollIs DEF Length
<1>5. ASSUME kind = "message"
      PROVE  /\ shown' \in Seq(Places) /\ Length' = Length + 1
             /\ \A k \in 1 .. Length : shown'[k] = Scrolled(shown[k])
             /\ shown'[Length + 1] = Gone
  <2>1. shown' = Append(Scroll(shown), Gone)
    BY <1>1, <1>5
  <2>2. /\ shown' \in Seq(Places) /\ Len(shown') = Len(Scroll(shown)) + 1
        /\ \A k \in 1 .. Len(Scroll(shown)) : shown'[k] = Scroll(shown)[k]
        /\ shown'[Len(Scroll(shown)) + 1] = Gone
    BY ONLY <2>1, <1>2, <1>4, AppendProperties
  <2>3. Length' = Len(shown')
    BY DEF Length
  <2> QED
    BY <1>4, <2>2, <2>3
<1>6. TypeOK'
  <2>1. shown' \in Seq(Places)
    BY <1>1, <1>4, <1>5
  <2> QED
    BY <1>1, <1>3, <2>1 DEF IInv, TypeOK
<1>7. MessageHere'
  <2> SUFFICES ASSUME kind = "message", 2 * (Length + 1) <= Row
               PROVE  IF Crossed' THEN ScrolledOnce' ELSE Straight'
    BY <1>1, <1>5 DEF MessageHere
  <2>1. IF Crossed THEN ScrolledOnce ELSE Straight
    BY <1>2, Geometry DEF IInv, MessageHere
  <2>2. Length' = Length + 1 /\ Before' = Before
    BY <1>2, <1>5 DEF Before
  <2>3. CASE Crossed
    <3>1. First <= Screen /\ (Screen - First) % 2 = 0
      BY <2>3 DEF Crossed
    <3>2. Before \in Nat
      BY <1>2, <3>1, Geometry DEF Before
    <3>3. rbx = LastRow + 2 * (Length - Before)
      BY <2>1, <2>3 DEF ScrolledOnce
    <3> QED
      BY <1>1, <1>2, <3>2, <3>3, Geometry
  <2>4. CASE ~Crossed
    <3>1. /\ rbx = First + 2 * Length
          /\ \A k \in 1 .. Length : shown[k] = First + 2 * (k - 1)
      BY <2>1, <2>4 DEF Straight
    <3>2. Screen - First = 2 * Length /\ First <= Screen
      BY <1>1, <1>2, <3>1, Geometry
    <3>3. Before = Length /\ (Screen - First) % 2 = 0
      BY <1>2, <3>2 DEF Before
    <3>4. Crossed'
      BY <1>2, <2>2, <3>2, <3>3, Geometry DEF Crossed
    <3>5. rbx' = LastRow + 2 * (Length' - Before')
      BY <1>1, <1>2, <2>2, <3>3, Geometry
    <3>6. ASSUME NEW k \in 1 .. Length + 1
          PROVE  shown'[k] = Moved(k)
      <4>1. CASE k \in 1 .. Length
        <5> DEFINE place == First + 2 * (k - 1)
        <5>1. shown[k] = place /\ shown[k] \in Places
          BY <1>2, <3>1, <4>1, LenProperties DEF Length
        <5>2. place >= Row /\ place < Screen
          BY <1>2, <3>2, <4>1, Geometry
        <5>3. k <= Before
          BY <1>2, <3>3, <4>1
        <5>4. shown'[k] = place - Row
          <6> HIDE DEF place
          <6>1. Scrolled(place) = place - Row
            BY <5>1, <5>2, ScrolledIs
          <6> QED
            BY <1>5, <4>1, <5>1, <6>1, Zenon
        <5>5. Moved(k) = place - Row
          BY <1>2, <3>3, <5>3, MovedIs
        <5> QED
          BY ONLY <5>4, <5>5, Zenon
      <4>2. CASE k = Length + 1
        <5>1. Moved(k) = Gone
          BY <1>2, <3>3, <4>2, MovedIs
        <5> QED
          BY <1>5, <4>2, <5>1
      <4> QED
        BY <1>2, <4>1, <4>2
    <3>7. ScrolledOnce'
      BY <1>1, <1>2, <2>2, <3>5, <3>6, MovedKept
      DEF ScrolledOnce, LastRow, Screen
    <3> QED
      BY <3>4, <3>7
  <2> QED
    BY <2>3, <2>4
<1>8. DigitsHere'
  BY <1>1 DEF DigitsHere
<1>9. NumberHere'
  <2> SUFFICES ASSUME kind = "number", cx + 2 <= Row,
                      from + 2 * Digits <= Screen
               PROVE  FALSE
    BY <1>1 DEF NumberHere
  <2>1. cx <= Row /\ pc # "hexa_loop"
    BY <1>1, <1>2, Geometry
  <2>2. rbx = LastRow + cx
    BY <2>1 DEF IInv, NumberHere
  <2> QED
    BY <1>1, <1>2, <2>2, Geometry
<1> QED
  BY <1>6, <1>7, <1>8, <1>9 DEF IInv

\* The end of a text moves start_location within its 16 bits and nothing else.
LEMMA FinishStep ==
    ASSUME IInv, NEW location \in 0 .. Window - 1, Finish(location)
    PROVE  IInv'
<1>1. /\ pc = "video_print_loop" /\ pc' = "idle" /\ start' = location
      /\ UNCHANGED <<rbx, cx, left, end, kind, from, shown>>
  BY DEF Finish
<1>2. TypeOK'
  BY <1>1 DEF IInv, TypeOK
<1>3. MessageHere' /\ DigitsHere' /\ NumberHere'
  BY <1>1
  DEF IInv, MessageHere, DigitsHere, NumberHere, Straight, ScrolledOnce,
      Crossed, Moved, Before, First, Length
<1> QED
  BY <1>2, <1>3 DEF IInv

\* The next row begins within the window.
LEMMA NewlineStep ==
    ASSUME IInv, Newline
    PROVE  IInv'
<1> DEFINE sum == (start + Row) % Window
           location == (sum \div Row) * Row
<1>1. start + Row \in Nat
  BY Geometry DEF IInv, TypeOK
<1>2. sum \in 0 .. Window - 1
  BY <1>1, Geometry, Divided
<1>3. location \in 0 .. Window - 1
  <2> HIDE DEF sum
  <2>1. /\ sum \in Nat /\ sum \div Row \in Nat /\ sum % Row \in 0 .. Row - 1
        /\ sum = Row * (sum \div Row) + (sum % Row)
    BY <1>2, Geometry, Divided
  <2>2. location = Row * (sum \div Row)
    BY <2>1, Geometry
  <2>3. Row * (sum \div Row) \in Nat
    BY <2>1, Geometry
  <2> HIDE DEF location
  <2> QED
    BY <1>2, <2>1, <2>2, <2>3, Geometry
<1>4. Finish(location)
  BY DEF Newline
<1> HIDE DEF location
<1> QED
  BY <1>3, <1>4, FinishStep

\* And so does what follows a text that ends with a zero.
LEMMA ZeroStep ==
    ASSUME IInv, Zero
    PROVE  IInv'
<1> DEFINE location == (start + cx) % Window
<1>1. start + cx \in Nat
  BY Geometry DEF IInv, TypeOK
<1>2. location \in 0 .. Window - 1
  BY <1>1, Geometry, Divided
<1>3. Finish(location)
  BY DEF Zero
<1> HIDE DEF location
<1> QED
  BY <1>2, <1>3, FinishStep

\* A digit more, and one less to print.
LEMMA HexaDigitStep ==
    ASSUME IInv, HexaDigit
    PROVE  IInv'
<1>1. /\ pc = "hexa_loop" /\ left > 0 /\ rbx # Screen
      /\ shown' = Append(shown, rbx)
      /\ rbx' = rbx + 2 /\ cx' = cx - 1 /\ left' = left - 1
      /\ UNCHANGED <<pc, start, end, kind, from>>
  BY DEF HexaDigit
<1>2. /\ Length \in Nat /\ shown \in Seq(Places) /\ First \in Int
      /\ rbx \in Int /\ rbx >= -HalfWindow /\ left \in Nat /\ cx \in Nat
      /\ First' = First /\ rbx \in Places
  BY <1>1, TextFacts DEF IInv, First, Cell, Places, Stored
<1>3. /\ kind = "number" /\ Length + left = Digits /\ cx = left
      /\ rbx = First + 2 * Length
      /\ \A k \in 1 .. Length : shown[k] = First + 2 * (k - 1)
  BY <1>1 DEF IInv, DigitsHere, Straight
<1>4. /\ shown' \in Seq(Places) /\ Length' = Length + 1
      /\ \A k \in 1 .. Length : shown'[k] = shown[k]
      /\ shown'[Length + 1] = rbx
  BY <1>1, <1>2, AppendProperties DEF Length
<1>5. TypeOK'
  <2>1. rbx' \in Stored /\ cx' \in Nat /\ left' \in Nat
    BY <1>1, <1>2, <1>3, Geometry DEF Stored
  <2> QED
    BY <1>1, <1>4, <2>1 DEF IInv, TypeOK
<1>6. Straight'
  <2>1. rbx' = First' + 2 * Length'
    BY <1>1, <1>2, <1>3, <1>4
  <2>2. ASSUME NEW k \in 1 .. Length + 1
        PROVE  shown'[k] = First + 2 * (k - 1)
    <3>1. CASE k \in 1 .. Length
      BY <1>3, <1>4, <3>1
    <3>2. CASE k = Length + 1
      BY <1>2, <1>3, <1>4, <3>2
    <3> QED
      BY <1>2, <3>1, <3>2
  <2> QED
    BY <1>2, <1>4, <2>1, <2>2 DEF Straight
<1>7. DigitsHere'
  <2>1. Length' + left' = Digits /\ cx' = left'
    BY <1>1, <1>2, <1>3, <1>4, Geometry
  <2> QED
    BY <1>1, <1>3, <1>6, <2>1 DEF DigitsHere
<1>8. MessageHere' /\ NumberHere'
  BY <1>1, <1>3 DEF MessageHere, NumberHere
<1> QED
  BY <1>5, <1>7, <1>8 DEF IInv

\* The scroll after the last digit: a number that fits on the screen is whole,
\* one row higher, and RBX is two characters into the last row.
LEMMA HexaFallsThroughStep ==
    ASSUME IInv, HexaFallsThrough
    PROVE  IInv'
<1>1. /\ pc = "hexa_loop" /\ pc' = "video_print_loop"
      /\ left = 0 \/ rbx = Screen
      /\ shown' = Scroll(shown) /\ rbx' = LastRow + 2 /\ cx' = cx + 2
      /\ left' \in Nat /\ end' \in {"newline", "zero"}
      /\ UNCHANGED <<start, kind, from>>
  BY TextAssumption DEF HexaFallsThrough
<1>2. /\ Length \in Nat /\ shown \in Seq(Places) /\ First \in Int
      /\ left \in Nat /\ cx \in Nat /\ from \in 0 .. Window - 1
      /\ First = IF from < HalfWindow THEN from ELSE from - Window
  BY <1>1, TextFacts DEF IInv
<1>3. /\ kind = "number" /\ Length + left = Digits /\ cx = left
      /\ rbx = First + 2 * Length
      /\ \A k \in 1 .. Length : shown[k] = First + 2 * (k - 1)
  BY <1>1 DEF IInv, DigitsHere, Straight
<1>4. /\ shown' \in Seq(Places) /\ Length' = Length
      /\ \A k \in 1 .. Length : shown'[k] = Scrolled(shown[k])
  BY <1>1, <1>2, ScrollIs DEF Length
<1>5. TypeOK'
  <2>1. rbx' \in Stored /\ cx' \in Nat
    BY <1>1, <1>2, Geometry DEF Stored
  <2> QED
    BY <1>1, <1>4, <2>1 DEF IInv, TypeOK
<1>6. NumberHere'
  <2> SUFFICES ASSUME from + 2 * Digits <= Screen
               PROVE  /\ Length' = Digits /\ rbx' = LastRow + cx'
                      /\ \A k \in 1 .. Digits :
                            shown'[k] = Scrolled(from + 2 * (k - 1))
    BY <1>1 DEF NumberHere, LastRow, Screen, Scrolled, Gone, Window
  <2>1. First = from
    BY <1>2, Geometry
  <2>2. left = 0
    BY <1>1, <1>2, <1>3, <2>1, Geometry
  <2>3. Length = Digits /\ cx' = 2
    BY <1>1, <1>2, <1>3, <2>2, Geometry
  <2> QED
    BY <1>1, <1>3, <1>4, <2>1, <2>3
<1>7. MessageHere' /\ DigitsHere'
  BY <1>1, <1>3 DEF MessageHere, DigitsHere
<1> QED
  BY <1>5, <1>6, <1>7 DEF IInv

\* No step of the console breaks the invariant.
LEMMA Inductive == IInv /\ [Next]_vars => IInv'
<1> SUFFICES ASSUME IInv, [Next]_vars
             PROVE  IInv'
  OBVIOUS
<1>1. ASSUME NEW length \in Lengths, NEW last \in {"newline", "zero"},
             VideoPrint(length, last)
      PROVE  IInv'
  <2>1. length \in Nat
    BY TextAssumption
  <2>2. /\ Begin("message", "video_print_loop", length)
        /\ cx' = 0 /\ end' = last /\ start' = start
    BY <1>1 DEF VideoPrint
  <2> QED
    BY <2>1, <2>2, BeginStep
<1>2. ASSUME VideoPrintHexa
      PROVE  IInv'
  <2>1. /\ Begin("number", "hexa_loop", Digits)
        /\ cx' = Digits /\ end' = end /\ start' = start
    BY <1>2 DEF VideoPrintHexa
  <2>2. end \in {"newline", "zero"} /\ Digits \in Nat
    BY Geometry DEF IInv, TypeOK
  <2> QED
    BY <2>1, <2>2, BeginStep
<1>3. CASE UNCHANGED vars
  BY <1>3
  DEF vars, IInv, TypeOK, MessageHere, DigitsHere, NumberHere, Straight,
      ScrolledOnce, Crossed, Moved, Before, First, Length
<1> QED
  BY <1>1, <1>2, <1>3, PutCharacterStep, ScrollUpStep, NewlineStep, ZeroStep,
     HexaDigitStep, HexaFallsThroughStep
  DEF Next, Put, Line

-----------------------------------------------------------------------------
(* The theorems. *)

\* Every variable keeps its type: start_location stays a word however long the
\* messages are, and nothing is stored below the window (video_print,
\* video_print_hexa).
THEOREM TypeCorrect == Spec => []TypeOK
<1>1. IInv => TypeOK
  BY DEF IInv
<1> QED
  BY Initially, Inductive, <1>1, PTL DEF Spec

\* Of a message of at most a row, what is on the screen is all of it, or all
\* but the character that met the end, or nothing.
LEMMA MessageIsVisible ==
    ASSUME IInv
    PROVE  MessageVisible
<1> SUFFICES ASSUME kind = "message", 2 * Length <= Row
             PROVE  /\ from + 2 * Length <= Screen => Visible = 1 .. Length
                    /\ from <= Screen /\ from + 2 * Length > Screen
                          /\ from % 2 = 0 =>
                          Visible = (1 .. Length)
                                       \ {(Screen - from) \div 2 + 1}
                    /\ from > Screen /\ from + 2 * Length <= Window =>
                          Visible = {}
  BY DEF MessageVisible, Length
<1>1. /\ Length \in Nat /\ First \in Int /\ from \in 0 .. Window - 1
      /\ First = IF from < HalfWindow THEN from ELSE from - Window
      /\ DOMAIN shown = 1 .. Length
  BY TextFacts DEF IInv
<1>2. IF Crossed THEN ScrolledOnce ELSE Straight
  BY DEF IInv, MessageHere
<1>3. Visible = {k \in 1 .. Length : shown[k] \in 0 .. Screen - 1}
  BY <1>1 DEF Visible
<1>4. ASSUME from + 2 * Length <= Screen
      PROVE  Visible = 1 .. Length
  <2>1. First = from /\ ~Crossed
    BY <1>1, <1>4, Geometry DEF Crossed
  <2>2. \A k \in 1 .. Length : shown[k] = from + 2 * (k - 1)
    BY <1>2, <2>1 DEF Straight
  <2>3. \A k \in 1 .. Length : from + 2 * (k - 1) \in 0 .. Screen - 1
    BY <1>1, <1>4, Geometry
  <2> QED
    BY <1>3, <2>2, <2>3
<1>5. ASSUME from <= Screen, from + 2 * Length > Screen, from % 2 = 0
      PROVE  Visible = (1 .. Length) \ {(Screen - from) \div 2 + 1}
  <2>1. First = from
    BY <1>1, <1>5, Geometry
  <2>2. (Screen - from) % 2 = 0
    BY <1>1, <1>5, Geometry
  <2>3. Crossed
    BY <1>1, <1>5, <2>1, <2>2 DEF Crossed
  <2>4. \A k \in 1 .. Length : shown[k] = Moved(k)
    BY <1>2, <2>3 DEF ScrolledOnce
  <2>5. /\ Before = (Screen - from) \div 2 /\ Before \in Nat
        /\ Screen - from = 2 * Before /\ Before < Length
    BY <1>1, <1>5, <2>1, <2>2, Geometry DEF Before
  <2>6. ASSUME NEW k \in 1 .. Length
        PROVE  shown[k] \in 0 .. Screen - 1 <=> k # Before + 1
    <3>1. CASE k <= Before
      <4>1. Moved(k) = (First + 2 * (k - 1)) - Row
        BY <1>1, <2>5, <3>1, MovedIs
      <4>2. (First + 2 * (k - 1)) - Row \in 0 .. Screen - 1
        BY <1>1, <1>5, <2>1, <2>5, <3>1, Geometry
      <4>3. k # Before + 1
        BY <2>5, <3>1
      <4> QED
        BY <2>4, <4>1, <4>2, <4>3
    <3>2. CASE k = Before + 1
      <4>1. Moved(k) = Gone
        BY <1>1, <2>5, <3>2, MovedIs
      <4>2. Gone \notin 0 .. Screen - 1
        BY Geometry
      <4> QED
        BY <2>4, <3>2, <4>1, <4>2
    <3>3. CASE k > Before + 1
      <4>1. Moved(k) = LastRow + 2 * (k - Before - 1)
        BY <1>1, <2>5, <3>3, MovedIs
      <4>2. LastRow + 2 * (k - Before - 1) \in 0 .. Screen - 1
        BY <1>1, <2>5, <3>3, Geometry
      <4>3. k # Before + 1
        BY <2>5, <3>3
      <4> QED
        BY <2>4, <4>1, <4>2, <4>3
    <3> QED
      BY <1>1, <2>5, <3>1, <3>2, <3>3
  <2> QED
    BY <1>3, <2>5, <2>6
<1>6. ASSUME from > Screen, from + 2 * Length <= Window
      PROVE  Visible = {}
  <2>1. First > Screen \/ First + 2 * Length <= 0
    BY <1>1, <1>6, Geometry
  <2>2. ~Crossed
    BY <1>1, <2>1, Geometry DEF Crossed
  <2>3. \A k \in 1 .. Length : shown[k] = First + 2 * (k - 1)
    BY <1>2, <2>2 DEF Straight
  <2>4. \A k \in 1 .. Length : First + 2 * (k - 1) \notin 0 .. Screen - 1
    BY <1>1, <2>1, Geometry
  <2> QED
    BY <1>3, <2>3, <2>4
<1> QED
  BY <1>4, <1>5, <1>6

\* A number that fits is one row higher than it was printed, or lost.
LEMMA NumberIsVisible ==
    ASSUME IInv
    PROVE  NumberVisible
<1> SUFFICES ASSUME pc = "idle", kind = "number", cx <= Row
             PROVE  /\ from + 2 * Digits <= Row => Visible = {}
                    /\ Row <= from /\ from + 2 * Digits <= Screen =>
                          Visible = 1 .. Digits
  BY DEF NumberVisible
<1>1. /\ Length \in Nat /\ from \in 0 .. Window - 1
      /\ DOMAIN shown = 1 .. Length
  BY TextFacts DEF IInv
<1>2. ASSUME from + 2 * Digits <= Screen
      PROVE  /\ Visible = {k \in 1 .. Digits : shown[k] \in 0 .. Screen - 1}
             /\ \A k \in 1 .. Digits :
                   shown[k] = Scrolled(from + 2 * (k - 1))
  BY <1>1, <1>2 DEF IInv, NumberHere, Visible
<1>3. \A k \in 1 .. Digits : from + 2 * (k - 1) \in Places
  BY <1>1, Geometry DEF Places, Stored
<1>4. ASSUME from + 2 * Digits <= Row
      PROVE  Visible = {}
  <2>1. \A k \in 1 .. Digits : shown[k] = Gone
    <3>1. \A k \in 1 .. Digits :
             from + 2 * (k - 1) >= 0 /\ from + 2 * (k - 1) < Row
      BY <1>1, <1>4, Geometry
    <3>2. from + 2 * Digits <= Screen
      BY <1>1, <1>4, Geometry
    <3> QED
      BY <1>2, <1>3, <3>1, <3>2, ScrolledIs
  <2>2. from + 2 * Digits <= Screen /\ Gone \notin 0 .. Screen - 1
    BY <1>1, <1>4, Geometry
  <2> QED
    BY <1>2, <2>1, <2>2
<1>5. ASSUME Row <= from, from + 2 * Digits <= Screen
      PROVE  Visible = 1 .. Digits
  <2>1. ASSUME NEW k \in 1 .. Digits
        PROVE  shown[k] \in 0 .. Screen - 1
    <3> DEFINE place == from + 2 * (k - 1)
    <3>1. place \in Int /\ place >= Row /\ place < Screen
      BY <1>1, <1>5, Geometry
    <3>2. place \in Places /\ shown[k] = Scrolled(place)
      BY <1>2, <1>3, <1>5
    <3> HIDE DEF place
    <3>3. Scrolled(place) = place - Row
      BY <3>1, <3>2, ScrolledIs
    <3>4. place - Row \in 0 .. Screen - 1
      BY <3>1, Geometry
    <3> QED
      BY <3>2, <3>3, <3>4
  <2> QED
    BY <1>2, <1>5, <2>1
<1> QED
  BY <1>4, <1>5

\* From the start of a row, a short message stays inside the window: the last
\* whole row below the middle leaves HalfWindow % Row bytes.
LEMMA StaysInsideWindow ==
    ASSUME IInv
    PROVE  InsideWindow
<1> DEFINE spare == HalfWindow % Row
           rows == HalfWindow \div Row
           a == from \div Row
<1> SUFFICES ASSUME from % Row = 0, kind = "message", 2 * Length <= spare
             PROVE  rbx <= HalfWindow
  BY DEF InsideWindow, Length
<1>1. /\ Length \in Nat /\ First \in Int /\ from \in 0 .. Window - 1
      /\ First = IF from < HalfWindow THEN from ELSE from - Window
  BY TextFacts DEF IInv
<1>2. /\ spare \in 0 .. Row - 1 /\ rows \in Nat
      /\ HalfWindow = Row * rows + spare
  BY Geometry, Divided
<1>3. a \in Nat /\ from = Row * a + (from % Row)
  BY <1>1, Geometry, Divided
<1> HIDE DEF spare, rows, a
<1>4. from = Row * a
  <2>1. Row * a \in Nat
    BY <1>3, Geometry
  <2> QED
    BY <1>3, <2>1
<1>5. from < HalfWindow => from + spare <= HalfWindow
  <2> SUFFICES ASSUME from < HalfWindow
               PROVE  Row * a <= Row * rows
    BY <1>2, <1>3, <1>4, Geometry
  <2>1. a <= rows
    <3> SUFFICES ASSUME a >= rows + 1
                 PROVE  FALSE
      BY <1>2, <1>3
    <3>1. Row * a >= Row * (rows + 1)
      BY <1>2, <1>3, Geometry
    <3>2. Row * (rows + 1) = Row * rows + Row
      BY <1>2, Geometry
    <3>3. Row * a \in Nat /\ Row * rows \in Nat
      BY <1>2, <1>3, Geometry
    <3> QED
      BY <1>2, <1>4, <3>1, <3>2, <3>3, Geometry
  <2> QED
    BY <1>2, <1>3, <2>1, Geometry
<1>6. 2 * Length <= Row /\ (IF Crossed THEN ScrolledOnce ELSE Straight)
  BY <1>1, <1>2, Geometry DEF IInv, MessageHere
<1>7. CASE Crossed
  <2>1. rbx = LastRow + 2 * (Length - Before)
    BY <1>6, <1>7 DEF ScrolledOnce
  <2>2. Before \in Nat
    BY <1>1, <1>7, Geometry DEF Crossed, Before
  <2> QED
    BY <1>1, <1>6, <2>1, <2>2, Geometry
<1>8. CASE ~Crossed
  <2>1. rbx = First + 2 * Length
    BY <1>6, <1>8 DEF Straight
  <2> QED
    BY <1>1, <1>2, <1>5, <2>1, Geometry
<1> QED
  BY <1>7, <1>8

\* What is printed is where the reader of the code expects it, wherever on the
\* screen or outside it start_location is (video_print, video_print_hexa).
THEOREM PrintedIsShown == Spec => []ShownWhereExpected
<1>1. IInv => ShownWhereExpected
  BY MessageIsVisible, NumberIsVisible, StaysInsideWindow
  DEF ShownWhereExpected
<1> QED
  BY Initially, Inductive, <1>1, PTL DEF Spec
====
