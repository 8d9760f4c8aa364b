--------------------------- MODULE NicDriverProofs ---------------------------
(***************************************************************************)
(* The receive path, for every length of the ring.                         *)
(*                                                                         *)
(* Two inductive invariants.  SetUp follows the mainline: what the two     *)
(* shared words and the card hold at each step of its program, and that    *)
(* the handler does not run before the mask is written.  RingAt(a, n)      *)
(* places everything on the ring by its distance from the tail the card    *)
(* obeys: first the a descriptors the driver has released since it wrote   *)
(* that tail, then the n that are filled; together they are never more     *)
(* than the ring, and when they are all of it the card knows.              *)
(***************************************************************************)
EXTENDS NicDriver, TLAPS

-----------------------------------------------------------------------------
(* The program of the mainline, step by step. *)

Registers == {"RXDESCHEAD", "RXDESCTAIL", "RCTRL", "IMASK", "ICR"}
Address(r) == [do |-> "address", register |-> r]
Data(d)    == [do |-> "data", datum |-> d]
Steps == {Address(r) : r \in Registers} \union {Data(d) : d \in Datum}
         \union {[do |-> "write"], [do |-> "read"], [do |-> "unmask"]}

\* What the driver writes to a register is a number or a set of causes.
LEMMA DatumFacts ==
    /\ Number(0) \in Datum /\ Number(N - 1) \in Datum
    /\ CauseBits({}) \in Datum /\ CauseBits(Causes) \in Datum
    /\ \A n \in 0 .. N : Number(n) \in Datum
    /\ \A s \in SUBSET Causes : CauseBits(s) \in Datum
  BY NAssumption DEF Datum, Number, CauseBits, Beyond

\* Where the steps of a concatenation are.
LEMMA ConcatSteps ==
    ASSUME NEW s \in Seq(Steps), NEW t \in Seq(Steps)
    PROVE  /\ s \o t \in Seq(Steps) /\ Len(s \o t) = Len(s) + Len(t)
           /\ \A i \in 1 .. Len(s) : (s \o t)[i] = s[i]
           /\ \A i \in 1 .. Len(t) : (s \o t)[Len(s) + i] = t[i]
  OBVIOUS

\* Commands are three steps to write and two to read.
LEMMA CommandSteps ==
    ASSUME NEW r \in Registers, NEW d \in Datum
    PROVE  /\ Write(r, d) \in Seq(Steps) /\ Len(Write(r, d)) = 3
           /\ Write(r, d)[1] = Address(r) /\ Write(r, d)[2] = Data(d)
           /\ Write(r, d)[3] = [do |-> "write"]
           /\ Read(r) \in Seq(Steps) /\ Len(Read(r)) = 2
           /\ Read(r)[1] = Address(r) /\ Read(r)[2] = [do |-> "read"]
<1> DEFINE a == <<[do |-> "address", register |-> r]>>
           w == <<[do |-> "data", datum |-> d], [do |-> "write"]>>
           q == <<[do |-> "read"]>>
<1>1. a \in Seq(Steps) /\ w \in Seq(Steps) /\ q \in Seq(Steps)
  BY DEF Steps, Address, Data
<1>2. Len(a) = 1 /\ Len(w) = 2 /\ Len(q) = 1
  OBVIOUS
<1>3. a[1] = Address(r) /\ w[1] = Data(d) /\ w[2] = [do |-> "write"]
      /\ q[1] = [do |-> "read"]
  BY DEF Address, Data
<1>4. Write(r, d) = a \o w /\ Read(r) = a \o q
  BY DEF Write, Read, Command
<1> HIDE DEF a, w, q
<1>5. /\ a \o w \in Seq(Steps) /\ Len(a \o w) = 3
      /\ (a \o w)[1] = a[1]
  <2>1. a \o w \in Seq(Steps) /\ Len(a \o w) = Len(a) + Len(w)
    BY <1>1, ConcatSteps
  <2>2. \A i \in 1 .. Len(a) : (a \o w)[i] = a[i]
    BY <1>1, ConcatSteps
  <2> QED
    BY <1>2, <2>1, <2>2
<1>6. Write(r, d)[1 + 1] = w[1] /\ Write(r, d)[1 + 2] = w[2]
  <2>1. \A i \in 1 .. Len(w) : Write(r, d)[Len(a) + i] = w[i]
    BY <1>1, <1>4, ConcatSteps
  <2> QED
    BY <1>2, <2>1
<1>7. /\ a \o q \in Seq(Steps) /\ Len(a \o q) = 2
      /\ (a \o q)[1] = a[1]
  <2>1. a \o q \in Seq(Steps) /\ Len(a \o q) = Len(a) + Len(q)
    BY <1>1, ConcatSteps
  <2>2. \A i \in 1 .. Len(a) : (a \o q)[i] = a[i]
    BY <1>1, ConcatSteps
  <2> QED
    BY <1>2, <2>1, <2>2
<1>8. (a \o q)[1 + 1] = q[1]
  <2>1. \A i \in 1 .. Len(q) : (a \o q)[Len(a) + i] = q[i]
    BY <1>1, ConcatSteps
  <2> QED
    BY <1>2, <2>1
<1> QED
  BY <1>3, <1>4, <1>5, <1>6, <1>7, <1>8

\* The set-up of the receive ring, step by step.
LEMMA ProgramText ==
    /\ Len(Program) = 15 /\ Done = 16
    /\ Program[1] = Address("RXDESCHEAD") /\ Program[2] = Data(Number(0))
    /\ Program[4] = Address("RXDESCTAIL") /\ Program[5] = Data(Number(N - 1))
    /\ Program[7] = Address("RCTRL") /\ Program[8] = Data(CauseBits({}))
    /\ Program[3].do = "write" /\ Program[6].do = "write"
    /\ Program[9].do = "write"
    /\ Program[10].do = "unmask"
    /\ Program[11] = Address("IMASK") /\ Program[12] = Data(CauseBits(Causes))
    /\ Program[13].do = "write"
    /\ Program[14] = Address("ICR") /\ Program[15].do = "read"
<1> DEFINE head == Write("RXDESCHEAD", Number(0))
           tail == Write("RXDESCTAIL", Number(N - 1))
           rctrl == Write("RCTRL", CauseBits({}))
           unmask == <<[do |-> "unmask"]>>
           imask == Write("IMASK", CauseBits(Causes))
           icr == Read("ICR")
           S1 == head \o tail
           S2 == unmask \o imask
<1>1. /\ head \in Seq(Steps) /\ Len(head) = 3 /\ head[3].do = "write"
      /\ head[1] = Address("RXDESCHEAD") /\ head[2] = Data(Number(0))
  BY CommandSteps, DatumFacts DEF Registers
<1>2. /\ tail \in Seq(Steps) /\ Len(tail) = 3 /\ tail[3].do = "write"
      /\ tail[1] = Address("RXDESCTAIL") /\ tail[2] = Data(Number(N - 1))
  BY CommandSteps, DatumFacts DEF Registers
<1>3. /\ rctrl \in Seq(Steps) /\ Len(rctrl) = 3 /\ rctrl[3].do = "write"
      /\ rctrl[1] = Address("RCTRL") /\ rctrl[2] = Data(CauseBits({}))
  BY CommandSteps, DatumFacts DEF Registers
<1>4. /\ imask \in Seq(Steps) /\ Len(imask) = 3 /\ imask[3].do = "write"
      /\ imask[1] = Address("IMASK") /\ imask[2] = Data(CauseBits(Causes))
  BY CommandSteps, DatumFacts DEF Registers
<1>5. /\ icr \in Seq(Steps) /\ Len(icr) = 2 /\ icr[2].do = "read"
      /\ icr[1] = Address("ICR")
  BY CommandSteps, DatumFacts DEF Registers
<1>6. unmask \in Seq(Steps) /\ Len(unmask) = 1 /\ unmask[1].do = "unmask"
  BY DEF Steps
<1>7. rx_init = S1 \o rctrl /\ enable_interrupts = S2 \o icr
      /\ Program = rx_init \o enable_interrupts
  BY DEF rx_init, enable_interrupts, Program
<1> HIDE DEF head, tail, rctrl, unmask, imask, icr
<1>8. /\ S1 \in Seq(Steps) /\ Len(S1) = 6
      /\ \A i \in 1 .. 3 : S1[i] = head[i]
      /\ \A i \in 1 .. 3 : S1[3 + i] = tail[i]
  <2>1. S1 \in Seq(Steps) /\ Len(S1) = Len(head) + Len(tail)
    BY <1>1, <1>2, ConcatSteps
  <2>2. \A i \in 1 .. Len(head) : S1[i] = head[i]
    BY <1>1, <1>2, ConcatSteps
  <2>3. \A i \in 1 .. Len(tail) : S1[Len(head) + i] = tail[i]
    BY <1>1, <1>2, ConcatSteps
  <2> HIDE DEF S1
  <2> QED
    BY <1>1, <1>2, <2>1, <2>2, <2>3
<1>9. /\ S2 \in Seq(Steps) /\ Len(S2) = 4
      /\ \A i \in 1 .. 1 : S2[i] = unmask[i]
      /\ \A i \in 1 .. 3 : S2[1 + i] = imask[i]
  <2>1. S2 \in Seq(Steps) /\ Len(S2) = Len(unmask) + Len(imask)
    BY <1>4, <1>6, ConcatSteps
  <2>2. \A i \in 1 .. Len(unmask) : S2[i] = unmask[i]
    BY <1>4, <1>6, ConcatSteps
  <2>3. \A i \in 1 .. Len(imask) : S2[Len(unmask) + i] = imask[i]
    BY <1>4, <1>6, ConcatSteps
  <2> HIDE DEF S2
  <2> QED
    BY <1>4, <1>6, <2>1, <2>2, <2>3
<1> HIDE DEF S1, S2
<1>10. /\ rx_init \in Seq(Steps) /\ Len(rx_init) = 9
       /\ \A i \in 1 .. 6 : rx_init[i] = S1[i]
       /\ \A i \in 1 .. 3 : rx_init[6 + i] = rctrl[i]
  <2>1. rx_init \in Seq(Steps) /\ Len(rx_init) = Len(S1) + Len(rctrl)
    BY <1>3, <1>7, <1>8, ConcatSteps
  <2>2. \A i \in 1 .. Len(S1) : rx_init[i] = S1[i]
    BY <1>3, <1>7, <1>8, ConcatSteps
  <2>3. \A i \in 1 .. Len(rctrl) : rx_init[Len(S1) + i] = rctrl[i]
    BY <1>3, <1>7, <1>8, ConcatSteps
  <2> QED
    BY <1>3, <1>8, <2>1, <2>2, <2>3
<1>11. /\ enable_interrupts \in Seq(Steps) /\ Len(enable_interrupts) = 6
       /\ \A i \in 1 .. 4 : enable_interrupts[i] = S2[i]
       /\ \A i \in 1 .. 2 : enable_interrupts[4 + i] = icr[i]
  <2>1. enable_interrupts \in Seq(Steps)
        /\ Len(enable_interrupts) = Len(S2) + Len(icr)
    BY <1>5, <1>7, <1>9, ConcatSteps
  <2>2. \A i \in 1 .. Len(S2) : enable_interrupts[i] = S2[i]
    BY <1>5, <1>7, <1>9, ConcatSteps
  <2>3. \A i \in 1 .. Len(icr) : enable_interrupts[Len(S2) + i] = icr[i]
    BY <1>5, <1>7, <1>9, ConcatSteps
  <2> QED
    BY <1>5, <1>9, <2>1, <2>2, <2>3
<1>12. /\ Program \in Seq(Steps) /\ Len(Program) = 15
       /\ \A i \in 1 .. 9 : Program[i] = rx_init[i]
       /\ \A i \in 1 .. 6 : Program[9 + i] = enable_interrupts[i]
  <2>1. Program \in Seq(Steps)
        /\ Len(Program) = Len(rx_init) + Len(enable_interrupts)
    BY <1>7, <1>10, <1>11, ConcatSteps
  <2>2. \A i \in 1 .. Len(rx_init) : Program[i] = rx_init[i]
    BY <1>7, <1>10, <1>11, ConcatSteps
  <2>3. \A i \in 1 .. Len(enable_interrupts) :
            Program[Len(rx_init) + i] = enable_interrupts[i]
    BY <1>7, <1>10, <1>11, ConcatSteps
  <2> QED
    BY <1>10, <1>11, <2>1, <2>2, <2>3
<1>13. /\ \A i \in 1 .. 9 : Program[i] = rx_init[i]
       /\ Program[10] = unmask[1] /\ Program[11] = imask[1]
       /\ Program[12] = imask[2] /\ Program[13] = imask[3]
       /\ Program[14] = icr[1] /\ Program[15] = icr[2]
  <2>1. \A i \in 1 .. 6 : Program[9 + i] = enable_interrupts[i]
    BY <1>12
  <2>2. \A i \in 1 .. 4 : Program[9 + i] = S2[i]
    BY <2>1, <1>11
  <2>3. Program[9 + 1] = S2[1] /\ Program[9 + 2] = S2[1 + 1]
        /\ Program[9 + 3] = S2[1 + 2] /\ Program[9 + 4] = S2[1 + 3]
    BY <2>2
  <2>4. S2[1] = unmask[1] /\ S2[1 + 1] = imask[1] /\ S2[1 + 2] = imask[2]
        /\ S2[1 + 3] = imask[3]
    BY <1>9
  <2>5. /\ Program[9 + 5] = enable_interrupts[4 + 1]
        /\ Program[9 + 6] = enable_interrupts[4 + 2]
    BY <2>1
  <2>6. /\ enable_interrupts[4 + 1] = icr[1]
        /\ enable_interrupts[4 + 2] = icr[2]
    BY <1>11
  <2> QED
    BY <1>12, <2>3, <2>4, <2>5, <2>6
<1>14. /\ Program[1] = head[1] /\ Program[2] = head[2]
       /\ Program[3] = head[3] /\ Program[4] = tail[1]
       /\ Program[5] = tail[2] /\ Program[6] = tail[3]
       /\ Program[7] = rctrl[1] /\ Program[8] = rctrl[2]
       /\ Program[9] = rctrl[3]
  <2>1. \A i \in 1 .. 6 : Program[i] = S1[i]
    BY <1>10, <1>13
  <2>2. \A i \in 1 .. 3 : Program[i] = head[i]
    BY <2>1, <1>8
  <2>3. \A i \in 1 .. 3 : Program[3 + i] = tail[i]
    BY <2>1, <1>8
  <2>4. \A i \in 1 .. 3 : Program[6 + i] = rctrl[i]
    BY <1>10, <1>13
  <2>5. /\ Program[1] = head[1] /\ Program[2] = head[2]
        /\ Program[3] = head[3] /\ Program[3 + 1] = tail[1]
        /\ Program[3 + 2] = tail[2] /\ Program[3 + 3] = tail[3]
        /\ Program[6 + 1] = rctrl[1] /\ Program[6 + 2] = rctrl[2]
        /\ Program[6 + 3] = rctrl[3]
    BY <2>2, <2>3, <2>4
  <2> QED
    BY <2>5
<1> QED
  BY <1>1, <1>2, <1>3, <1>4, <1>5, <1>6, <1>9, <1>12, <1>13, <1>14 DEF Done

\* What a step of each kind is, by its place in the program.
LEMMA StepAt ==
    ASSUME pc \in 1 .. Done
    PROVE  /\ \A what : Step(what) => pc \in 1 .. 15 /\ pc' = pc + 1
           /\ Step("address") =>
                 \/ pc = 1 /\ Program[pc].register = "RXDESCHEAD"
                 \/ pc = 4 /\ Program[pc].register = "RXDESCTAIL"
                 \/ pc = 7 /\ Program[pc].register = "RCTRL"
                 \/ pc = 11 /\ Program[pc].register = "IMASK"
                 \/ pc = 14 /\ Program[pc].register = "ICR"
           /\ Step("data") =>
                 \/ pc = 2 /\ Program[pc].datum = Number(0)
                 \/ pc = 5 /\ Program[pc].datum = Number(N - 1)
                 \/ pc = 8 /\ Program[pc].datum = CauseBits({})
                 \/ pc = 12 /\ Program[pc].datum = CauseBits(Causes)
           /\ Step("write") => pc \in {3, 6, 9, 13}
           /\ Step("read") => pc = 15
           /\ Step("unmask") => pc = 10
<1>1. \A what : Step(what) =>
         pc \in 1 .. 15 /\ pc' = pc + 1 /\ Program[pc].do = what
  BY ProgramText DEF Step
<1>2. pc \in 1 .. 15 =>
        /\ Program[pc].do = "address" => pc \in {1, 4, 7, 11, 14}
        /\ Program[pc].do = "data" => pc \in {2, 5, 8, 12}
        /\ Program[pc].do = "write" => pc \in {3, 6, 9, 13}
        /\ Program[pc].do = "read" => pc = 15
        /\ Program[pc].do = "unmask" => pc = 10
  BY ProgramText DEF Address, Data
<1>3. /\ pc = 1 => Program[pc].register = "RXDESCHEAD"
      /\ pc = 4 => Program[pc].register = "RXDESCTAIL"
      /\ pc = 7 => Program[pc].register = "RCTRL"
      /\ pc = 11 => Program[pc].register = "IMASK"
      /\ pc = 14 => Program[pc].register = "ICR"
  BY ProgramText DEF Address
<1>4. /\ pc = 2 => Program[pc].datum = Number(0)
      /\ pc = 5 => Program[pc].datum = Number(N - 1)
      /\ pc = 8 => Program[pc].datum = CauseBits({})
      /\ pc = 12 => Program[pc].datum = CauseBits(Causes)
  BY ProgramText DEF Data
<1> QED
  BY <1>1, <1>2, <1>3, <1>4

-----------------------------------------------------------------------------
(* The inductive invariants. *)

\* What each step of the mainline finds.
SetUp ==
    /\ pc \in {2, 3} => rw_address = "RXDESCHEAD"
    /\ pc \in {5, 6} => rw_address = "RXDESCTAIL"
    /\ pc \in {8, 9} => rw_address = "RCTRL"
    /\ pc \in {12, 13} => rw_address = "IMASK"
    /\ pc = 15 => rw_address \in {"ICR", "RXDESCHEAD", "RXDESCTAIL"}
    /\ pc = 3 => rw_data = Number(0)
    /\ pc = 6 => rw_data = Number(N - 1)
    /\ pc = 13 => rw_data = CauseBits(Causes)
    /\ pc < 14 => place = "none" /\ card.ims = {}
    /\ pc >= 14 => card.ims = Causes
    /\ card.enabled <=> pc >= 10
    /\ pc < 10 => card.rdh = 0 /\ dd = {} /\ rx_cur = 0
    /\ pc < 7 => card.rdt = 0

\* Where a number below twice the length of the ring points, and how far one
\* descriptor is behind another.
Slot(i)   == IF i >= N THEN i - N ELSE i
Gap(x, y) == IF y >= x THEN y - x ELSE y - x + N

\* The first descriptor the driver has not released.
First == IF place = "advance" THEN Slot(rx_cur + 1) ELSE rx_cur

RingAt(a, n) ==
    /\ a + n <= N
    /\ card.rdt \in Slots
    /\ First = Slot(card.rdt + a)
    /\ card.rdh = Slot(card.rdt + a + n)
    /\ \A i \in Slots : i \in dd <=> Gap(card.rdt, i) \in a .. a + n - 1
    /\ a + n = N => card.check_rxov
    /\ place \in {"advance", "update_tail"} => a >= 1
    /\ place = "loop" => a + n >= 1
    /\ place = "clear_status" => n >= 1

Ring == \E a, n \in 0 .. N : RingAt(a, n)

-----------------------------------------------------------------------------
(* What a step of the mainline does, by its place in the program. *)

\* What each register the driver writes changes in the card.
LEMMA RegistersWritten ==
    ASSUME NEW c, NEW d
    PROVE  /\ WriteRegister(c, "RXDESCHEAD", d) = [c EXCEPT !.rdh = d.number]
           /\ WriteRegister(c, "RXDESCTAIL", d) =
                [c EXCEPT !.rdt = d.number, !.check_rxov = FALSE]
           /\ WriteRegister(c, "RCTRL", d) = [c EXCEPT !.enabled = TRUE]
           /\ WriteRegister(c, "IMASK", d) =
                [c EXCEPT !.ims = @ \union d.causes]
  BY DEF WriteRegister

\* Which write the set-up is at when it writes a register.
LEMMA WriteSteps ==
    ASSUME TypeOK, SetUp, WriteCommand
    PROVE  /\ pc' = pc + 1 /\ place = "none" /\ pc < 14
           /\ \/ pc = 3 /\ card' = [card EXCEPT !.rdh = 0]
              \/ pc = 6 /\ card' = [card EXCEPT !.rdt = N - 1,
                                                !.check_rxov = FALSE]
              \/ pc = 9 /\ card' = [card EXCEPT !.enabled = TRUE]
              \/ pc = 13 /\ card' = [card EXCEPT !.ims = Causes]
<1>1. pc \in {3, 6, 9, 13} /\ pc' = pc + 1 /\ place = "none"
  BY StepAt DEF WriteCommand, TypeOK, Step
<1>2. card' = WriteRegister(card, rw_address, rw_data)
  BY DEF WriteCommand
<1>3. CASE pc = 3
  <2>1. rw_address = "RXDESCHEAD" /\ rw_data.number = 0
    BY <1>3 DEF SetUp, Number
  <2>2. card' = [card EXCEPT !.rdh = rw_data.number]
    BY <1>2, <2>1, RegistersWritten
  <2> QED
    BY <1>1, <1>3, <2>1, <2>2
<1>4. CASE pc = 6
  <2>1. rw_address = "RXDESCTAIL" /\ rw_data.number = N - 1
    BY <1>4 DEF SetUp, Number
  <2>2. card' = [card EXCEPT !.rdt = rw_data.number, !.check_rxov = FALSE]
    BY <1>2, <2>1, RegistersWritten
  <2> QED
    BY <1>1, <1>4, <2>1, <2>2
<1>5. CASE pc = 9
  <2>1. rw_address = "RCTRL"
    BY <1>5 DEF SetUp
  <2>2. card' = [card EXCEPT !.enabled = TRUE]
    BY <1>2, <2>1, RegistersWritten
  <2> QED
    BY <1>1, <1>5, <2>2
<1>6. CASE pc = 13
  <2>1. rw_address = "IMASK" /\ rw_data.causes = Causes
    BY <1>6 DEF SetUp, CauseBits
  <2>2. card' = [card EXCEPT !.ims = card.ims \union rw_data.causes]
    BY <1>2, <2>1, RegistersWritten
  <2>3. card.ims \union Causes = Causes
    BY <1>6 DEF TypeOK, Card
  <2> QED
    BY <1>1, <1>6, <2>1, <2>2, <2>3
<1> QED
  BY <1>1, <1>3, <1>4, <1>5, <1>6

\* The card's fields after that write, one by one.
LEMMA WriteCard ==
    ASSUME TypeOK, SetUp, WriteCommand
    PROVE  /\ card' \in Card /\ card'.icr = card.icr
           /\ card'.rdh = IF pc = 3 THEN 0 ELSE card.rdh
           /\ card'.rdt = IF pc = 6 THEN N - 1 ELSE card.rdt
           /\ pc = 6 => card'.check_rxov = FALSE
           /\ pc # 6 => card'.check_rxov = card.check_rxov
           /\ pc = 9 => card'.enabled = TRUE
           /\ pc # 9 => card'.enabled = card.enabled
           /\ card'.ims = IF pc = 13 THEN Causes ELSE card.ims
<1> USE DEF TypeOK, Card
<1>1. CASE pc = 3
  <2>1. card' = [card EXCEPT !.rdh = 0]
    BY <1>1, WriteSteps
  <2> QED
    BY <1>1, <2>1, NAssumption
<1>2. CASE pc = 6
  <2>1. card' = [card EXCEPT !.rdt = N - 1, !.check_rxov = FALSE]
    BY <1>2, WriteSteps
  <2>2. card'.check_rxov = FALSE /\ card'.rdt = N - 1
    BY <2>1
  <2>3. /\ card'.rdh = card.rdh /\ card'.enabled = card.enabled
        /\ card'.ims = card.ims /\ card'.icr = card.icr
    BY <2>1
  <2>4. card' \in Card
    <3>1. N - 1 \in 0 .. N
      BY NAssumption
    <3> QED
      BY <2>1, <3>1
  <2> QED
    BY <1>2, <2>2, <2>3, <2>4
<1>3. CASE pc = 9
  <2>1. card' = [card EXCEPT !.enabled = TRUE]
    BY <1>3, WriteSteps
  <2>2. card'.enabled = TRUE
    BY <2>1
  <2>3. /\ card'.rdh = card.rdh /\ card'.rdt = card.rdt
        /\ card'.check_rxov = card.check_rxov
        /\ card'.ims = card.ims /\ card'.icr = card.icr
    BY <2>1
  <2>4. card' \in Card
    BY <2>1
  <2> QED
    BY <1>3, <2>2, <2>3, <2>4
<1>4. CASE pc = 13
  <2>1. card' = [card EXCEPT !.ims = Causes]
    BY <1>4, WriteSteps
  <2> QED
    BY <1>4, <2>1
<1> QED
  BY <1>1, <1>2, <1>3, <1>4, WriteSteps

\* The read of REG_ICR may be one of another register, when the handler came
\* between the address and the command.
LEMMA ReadSteps ==
    ASSUME TypeOK, SetUp, ReadCommand
    PROVE  /\ pc = 15 /\ pc' = 16 /\ place = "none"
           /\ rw_data' \in Datum /\ card' \in Card
           /\ card'.rdh = card.rdh /\ card'.rdt = card.rdt
           /\ card'.check_rxov = card.check_rxov
           /\ card'.enabled = card.enabled /\ card'.ims = card.ims
           /\ \/ card'.icr = card.icr /\ missed' = missed
              \/ missed' = (missed \/ "RXT0" \in card.icr)
<1>1. pc = 15 /\ pc' = 16 /\ place = "none"
  BY StepAt DEF ReadCommand, TypeOK, Step
<1>2. rw_address \in {"ICR", "RXDESCHEAD", "RXDESCTAIL"}
  BY <1>1 DEF SetUp
<1>3. CASE rw_address = "ICR"
  <2>1. rw_data' = CauseBits(card.icr) /\ card.icr \in SUBSET Causes
    BY <1>3 DEF ReadCommand, ReadRegister, TypeOK, Card
  <2>2. card' = [card EXCEPT !.icr = {}]
        /\ missed' = (missed \/ "RXT0" \in card.icr)
    BY <1>3 DEF ReadCommand, AfterRead
  <2> QED
    BY <1>1, <2>1, <2>2, DatumFacts DEF TypeOK, Card
<1>4. CASE rw_address \in {"RXDESCHEAD", "RXDESCTAIL"}
  <2>1. rw_data' \in {Number(card.rdh), Number(card.rdt)}
    BY <1>4 DEF ReadCommand, ReadRegister
  <2>2. card' = card /\ (missed' = missed)
    BY <1>4 DEF ReadCommand, AfterRead, TypeOK
  <2> QED
    BY <1>1, <2>1, <2>2, DatumFacts DEF TypeOK, Card
<1> QED
  BY <1>2, <1>3, <1>4

-----------------------------------------------------------------------------
(* What the other steps do to the card. *)

\* Reading ICR clears the causes and nothing else.
LEMMA IntHandlerCard ==
    ASSUME TypeOK, IntHandler
    PROVE  /\ card' \in Card /\ card'.icr = {}
           /\ card'.rdh = card.rdh /\ card'.rdt = card.rdt
           /\ card'.check_rxov = card.check_rxov
           /\ card'.enabled = card.enabled /\ card'.ims = card.ims
<1>1. card' = [card EXCEPT !.icr = {}]
  BY DEF IntHandler, AfterRead
<1> QED
  BY <1>1 DEF TypeOK, Card

\* Writing the tail gives the card back the descriptors up to rx_cur and
\* ends its overflow check.
LEMMA UpdateTailCard ==
    ASSUME TypeOK, UpdateTail
    PROVE  /\ card' \in Card /\ card'.icr = card.icr
           /\ card'.rdh = card.rdh /\ card'.rdt = rx_cur
           /\ card'.check_rxov = FALSE
           /\ card'.enabled = card.enabled /\ card'.ims = card.ims
<1>1. Number(rx_cur).number = rx_cur
  BY DEF Number
<1>2. card' = [card EXCEPT !.rdt = Number(rx_cur).number, !.check_rxov = FALSE]
  BY RegistersWritten DEF UpdateTail
<1>3. card' = [card EXCEPT !.rdt = rx_cur, !.check_rxov = FALSE]
  BY <1>1, <1>2
<1>4. rx_cur \in 0 .. N
  BY NAssumption DEF TypeOK, Slots
<1> QED
  BY <1>3, <1>4 DEF TypeOK, Card

\* A frame is put in the ring, or lost with the cause "overrun".
LEMMA RxFrameCard ==
    ASSUME TypeOK, RxFrame
    PROVE  /\ card' \in Card /\ card.enabled
           /\ card.icr \subseteq card'.icr /\ card'.rdt = card.rdt
           /\ card'.enabled = card.enabled /\ card'.ims = card.ims
           /\ \/ /\ HasRxbufs(card)
                 /\ card'.rdh = IF card.rdh + 1 >= N THEN 0 ELSE card.rdh + 1
                 /\ card'.check_rxov = TRUE /\ "RXT0" \in card'.icr
                 /\ dd' = dd \union ({card.rdh} \intersect Slots)
              \/ /\ card'.rdh = card.rdh
                 /\ card'.check_rxov = card.check_rxov
                 /\ dd' = dd
<1>1. CASE HasRxbufs(card)
  <2> DEFINE c == [card EXCEPT !.rdh = IF @ + 1 >= N THEN 0 ELSE @ + 1,
                               !.check_rxov = TRUE]
             new == c.icr \union {"RXT0"} \union
                        IF FewFree(c) THEN {"RXDMT0"} ELSE {}
  <2>1. card.enabled /\ dd' = dd \union ({card.rdh} \intersect Slots)
        /\ card' = [c EXCEPT !.icr = new]
    BY <1>1 DEF RxFrame, Fill
  <2>2. /\ c \in Card /\ c.icr = card.icr /\ c.rdt = card.rdt
        /\ c.enabled = card.enabled /\ c.ims = card.ims
        /\ c.rdh = IF card.rdh + 1 >= N THEN 0 ELSE card.rdh + 1
        /\ c.check_rxov = TRUE
    <3>1. (IF card.rdh + 1 >= N THEN 0 ELSE card.rdh + 1) \in 0 .. N
      BY NAssumption DEF TypeOK, Card
    <3> QED
      BY <3>1 DEF TypeOK, Card
  <2>3. new \subseteq Causes /\ "RXT0" \in new /\ c.icr \subseteq new
    <3> HIDE DEF c
    <3> QED
      BY <2>2 DEF Card, Causes
  <2> HIDE DEF c, new
  <2> QED
    BY <1>1, <2>1, <2>2, <2>3 DEF Card
<1>2. CASE ~HasRxbufs(card)
  <2>1. card.enabled /\ dd' = dd
        /\ card' = [card EXCEPT !.icr = card.icr \union {"RXO"}]
    BY <1>2 DEF RxFrame
  <2> QED
    BY <2>1 DEF TypeOK, Card, Causes
<1> QED
  BY <1>1, <1>2

\* A link change adds causes and leaves the ring alone.
LEMMA LinkChangeCard ==
    ASSUME TypeOK, LinkChange
    PROVE  /\ card' \in Card /\ card.icr \subseteq card'.icr
           /\ card'.rdh = card.rdh /\ card'.rdt = card.rdt
           /\ card'.check_rxov = card.check_rxov
           /\ card'.enabled = card.enabled /\ card'.ims = card.ims
<1>1. card' = [card EXCEPT !.icr = card.icr \union {"LSC"}]
  BY DEF LinkChange
<1> QED
  BY <1>1 DEF TypeOK, Card, Causes

-----------------------------------------------------------------------------
(* Each invariant is kept by each step. *)

\* Every step of the driver or the card keeps the types.
LEMMA TypeStep ==
    ASSUME TypeOK, SetUp, [Next]_vars
    PROVE  TypeOK'
<1> USE NAssumption DEF TypeOK, Slots, Places
<1>1. CASE SetAddress
  BY <1>1, StepAt, ProgramText DEF SetAddress, Step
<1>2. CASE SetData
  BY <1>2, StepAt, ProgramText, DatumFacts DEF SetData, Step
<1>3. CASE WriteCommand
  <2>1. UNCHANGED <<rw, unmasked, missed, dd, rx_cur, place>>
    BY <1>3 DEF WriteCommand, Step
  <2>2. pc' \in 1 .. Done
    BY <1>3, WriteSteps, ProgramText
  <2>3. card' \in Card
    BY <1>3, WriteCard
  <2> QED
    BY <2>1, <2>2, <2>3 DEF rw
<1>4. CASE ReadCommand
  <2>1. UNCHANGED <<rw_address, unmasked, dd, rx_cur, place>>
    BY <1>4 DEF ReadCommand, Step
  <2>2. missed' \in BOOLEAN
    BY <1>4 DEF ReadCommand
  <2> QED
    BY <1>4, <2>1, <2>2, ReadSteps, ProgramText
<1>5. CASE Unmask
  BY <1>5, StepAt, ProgramText DEF Unmask, Step, rw
<1>6. CASE Interrupt
  BY <1>6 DEF Interrupt, rw
<1>7. CASE IntHandler
  <2>1. rw_data' \in Datum
    BY <1>7, DatumFacts DEF IntHandler, Card
  <2>2. card' \in Card
    BY <1>7, IntHandlerCard
  <2> QED
    BY <1>7, <2>1, <2>2 DEF IntHandler, At
<1>8. CASE ProcessPacket
  <2>1. rw_data' \in Datum /\ card' = card
    BY <1>8, DatumFacts DEF ProcessPacket, CompareHead, Card
  <2> QED
    BY <1>8, <2>1 DEF ProcessPacket, CompareHead, At
<1>9. CASE Loop \/ ClearStatus \/ Advance \/ Out
  <2>1. UNCHANGED <<pc, rw_address, rw_data, card, unmasked, missed>>
    BY <1>9 DEF Loop, ClearStatus, Advance, Out, At, rw
  <2>2. dd' \subseteq Slots
    BY <1>9 DEF Loop, ClearStatus, Advance, Out
  <2>3. rx_cur' \in Slots
    BY <1>9 DEF Loop, ClearStatus, Advance, Out
  <2>4. place' \in Places
    BY <1>9 DEF Loop, ClearStatus, Advance, Out
  <2> QED
    BY <2>1, <2>2, <2>3, <2>4
<1>10. CASE UpdateTail
  <2>1. Number(rx_cur) \in Datum
    BY DEF Number, Datum
  <2>2. card' \in Card
    BY <1>10, UpdateTailCard
  <2> QED
    BY <1>10, <2>1, <2>2 DEF UpdateTail, At
<1>11. CASE RxFrame
  <2>1. card' \in Card /\ dd' \subseteq Slots
    BY <1>11, RxFrameCard
  <2> QED
    BY <1>11, <2>1 DEF RxFrame, rw
<1>12. CASE LinkChange
  BY <1>12, LinkChangeCard DEF LinkChange, rw
<1>13. CASE UNCHANGED vars
  BY <1>13 DEF vars
<1> QED
  BY <1>1, <1>2, <1>3, <1>4, <1>5, <1>6, <1>7, <1>8, <1>9, <1>10, <1>11,
     <1>12, <1>13
  DEF Next, Mainline, Handler, Network

\* Every step keeps what the set-up has written so far.
LEMMA SetUpStep ==
    ASSUME TypeOK, SetUp, [Next]_vars
    PROVE  SetUp'
<1>1. CASE SetAddress
  <2>1. UNCHANGED <<rw_data, card, dd, rx_cur, place>>
    BY <1>1 DEF SetAddress, Step
  <2> QED
    BY <1>1, <2>1, StepAt DEF SetAddress, TypeOK, SetUp
<1>2. CASE SetData
  <2>1. UNCHANGED <<rw_address, card, dd, rx_cur, place>>
    BY <1>2 DEF SetData, Step
  <2> QED
    BY <1>2, <2>1, StepAt DEF SetData, TypeOK, SetUp
<1>3. CASE WriteCommand
  <2>1. UNCHANGED <<rw, dd, rx_cur, place>>
    BY <1>3 DEF WriteCommand, Step
  <2>2. pc \in {3, 6, 9, 13} /\ pc' = pc + 1
    BY <1>3, WriteSteps
  <2>3. /\ card'.rdh = IF pc = 3 THEN 0 ELSE card.rdh
        /\ card'.rdt = IF pc = 6 THEN N - 1 ELSE card.rdt
        /\ card'.ims = IF pc = 13 THEN Causes ELSE card.ims
    BY <1>3, WriteCard
  <2>4. /\ pc' < 14 => card'.ims = {}
        /\ pc' >= 14 => card'.ims = Causes
        /\ pc' < 10 => card'.rdh = 0
        /\ pc' < 7 => card'.rdt = 0
    BY <2>2, <2>3 DEF SetUp
  <2>5. pc = 9 => card'.enabled = TRUE
    BY <1>3, WriteCard
  <2>6. pc # 9 => card'.enabled = card.enabled
    BY <1>3, WriteCard
  <2>7. card.enabled <=> pc >= 10
    BY DEF SetUp
  <2>8. card'.enabled <=> pc' >= 10
    BY <2>2, <2>5, <2>6, <2>7
  <2> QED
    BY <1>3, <2>1, <2>2, <2>4, <2>8, WriteSteps DEF SetUp, rw
<1>4. CASE ReadCommand
  <2>1. UNCHANGED <<dd, rx_cur, place>>
    BY <1>4 DEF ReadCommand, Step
  <2> QED
    BY <1>4, <2>1, ReadSteps DEF TypeOK, SetUp, Card
<1>5. CASE Unmask
  <2>1. UNCHANGED <<rw, card, dd, rx_cur, place>>
    BY <1>5 DEF Unmask, Step
  <2> QED
    BY <1>5, <2>1, StepAt DEF Unmask, TypeOK, SetUp, rw
<1>6. CASE Interrupt
  <2>1. pc >= 14 /\ UNCHANGED <<pc, rw, card>>
    BY <1>6 DEF Interrupt, Asserted, TypeOK, SetUp
  <2> QED
    BY <2>1 DEF TypeOK, SetUp, rw
<1>7. CASE Handler
  <2>1. pc >= 14 /\ pc' = pc
    BY <1>7 DEF Handler, IntHandler, ProcessPacket, CompareHead, Loop,
         ClearStatus, Advance, UpdateTail, Out, At, TypeOK, SetUp
  <2>2. card'.ims = card.ims /\ card'.enabled = card.enabled
    BY <1>7, IntHandlerCard, UpdateTailCard
    DEF Handler, ProcessPacket, CompareHead, Loop, ClearStatus, Advance, Out
  <2>3. rw_address' \in {rw_address, "ICR", "RXDESCHEAD", "RXDESCTAIL"}
    BY <1>7
    DEF Handler, IntHandler, ProcessPacket, CompareHead, Loop,
        ClearStatus, Advance, UpdateTail, Out, rw
  <2> QED
    BY <2>1, <2>2, <2>3 DEF TypeOK, SetUp
<1>8. CASE RxFrame
  <2>1. pc >= 10 /\ UNCHANGED <<pc, rw, place>>
    BY <1>8 DEF RxFrame, TypeOK, SetUp
  <2>2. card'.ims = card.ims /\ card'.enabled = card.enabled
    BY <1>8, RxFrameCard
  <2> QED
    BY <2>1, <2>2 DEF TypeOK, SetUp, rw
<1>9. CASE LinkChange
  <2>1. UNCHANGED <<pc, rw, dd, rx_cur, place>>
    BY <1>9 DEF LinkChange
  <2> QED
    BY <1>9, <2>1, LinkChangeCard DEF SetUp, rw
<1>10. CASE UNCHANGED vars
  BY <1>10 DEF vars, SetUp
<1> QED
  BY <1>1, <1>2, <1>3, <1>4, <1>5, <1>6, <1>7, <1>8, <1>9, <1>10
  DEF Next, Mainline, Network
\* Two descriptors at one distance are one descriptor.
LEMMA GapInjective ==
    ASSUME NEW r \in Slots, NEW i \in Slots, NEW j \in Slots,
           Gap(r, i) = Gap(r, j)
    PROVE  i = j
  BY NAssumption DEF Slots, Gap

\* A step that leaves the ring alone, and does not claim more of it.
LEMMA RingLeft ==
    ASSUME Ring, UNCHANGED <<dd, rx_cur>>,
           card'.rdt = card.rdt, card'.rdh = card.rdh,
           card'.check_rxov = card.check_rxov, place # "advance",
           \/ place' = place
           \/ place' \in {"none", "handler", "process_packet", "out"}
    PROVE  Ring'
<1>1. PICK a \in 0 .. N, n \in 0 .. N : RingAt(a, n)
  BY DEF Ring
<1>2. RingAt(a, n)'
  BY <1>1 DEF RingAt, First
<1> QED
  BY <1>2 DEF Ring

\* Every step keeps the division of the ring between driver and card.
LEMMA RingStep ==
    ASSUME TypeOK, SetUp, Ring, [Next]_vars
    PROVE  Ring'
<1>1. CASE SetAddress \/ SetData \/ Unmask \/ ReadCommand \/ WriteCommand
  <2>1. UNCHANGED <<dd, rx_cur, place>> /\ place = "none"
    BY <1>1 DEF SetAddress, SetData, Unmask, ReadCommand, WriteCommand, Step
  <2>2. CASE WriteCommand /\ pc = 6
    <3>1. /\ dd = {} /\ rx_cur = 0 /\ card.rdh = 0
      BY <2>2 DEF SetUp
    <3>2. card'.rdt = N - 1 /\ card'.rdh = 0
      BY <2>2, <3>1, WriteCard
    <3>3. RingAt(1, 0)'
      BY <2>1, <3>1, <3>2, NAssumption DEF RingAt, First, Slot, Slots
    <3> QED
      BY <3>3, NAssumption DEF Ring
  <2>3. CASE ~(WriteCommand /\ pc = 6)
    <3>1. CASE WriteCommand
      <4>1. pc = 3 => card.rdh = 0
        BY DEF SetUp
      <4> QED
        BY <2>1, <2>3, <3>1, <4>1, WriteCard, RingLeft
    <3>2. CASE ReadCommand
      BY <2>1, <3>2, ReadSteps, RingLeft
    <3>3. CASE SetAddress \/ SetData \/ Unmask
      BY <2>1, <3>3, RingLeft DEF SetAddress, SetData, Unmask
    <3> QED
      BY <1>1, <3>1, <3>2, <3>3
  <2> QED
    BY <2>2, <2>3
<1>2. CASE Interrupt \/ Out
  <2>1. /\ UNCHANGED <<card, dd, rx_cur>> /\ place # "advance"
        /\ place' \in {"none", "handler"}
    BY <1>2 DEF Interrupt, Out, At
  <2> QED
    BY <2>1, RingLeft
<1>3. CASE IntHandler
  <2>1. /\ UNCHANGED <<dd, rx_cur>> /\ place # "advance"
        /\ place' \in {"process_packet", "out"}
    BY <1>3 DEF IntHandler, At
  <2> QED
    BY <1>3, <2>1, IntHandlerCard, RingLeft
<1>4. CASE ProcessPacket
  <2>1. /\ UNCHANGED <<card, dd, rx_cur>> /\ place = "process_packet"
        /\ IF card.rdh = rx_cur THEN place' = "out" ELSE place' = "loop"
    BY <1>4 DEF ProcessPacket, CompareHead, At
  <2>2. CASE place' = "out"
    BY <2>1, <2>2, RingLeft
  <2>3. CASE place' = "loop"
    <3>1. PICK a \in 0 .. N, n \in 0 .. N : RingAt(a, n)
      BY DEF Ring
    <3>2. a + n >= 1
      <4>1. card.rdh # rx_cur /\ rx_cur = Slot(card.rdt + a)
            /\ card.rdh = Slot(card.rdt + a + n) /\ card.rdt \in Slots
        BY <2>1, <2>3, <3>1 DEF RingAt, First
      <4> QED
        BY <4>1, NAssumption DEF Slots
    <3>3. RingAt(a, n)'
      BY <2>1, <2>3, <3>1, <3>2 DEF RingAt, First
    <3> QED
      BY <3>3 DEF Ring
  <2> QED
    BY <2>1, <2>2, <2>3
<1>5. CASE Loop
  <2>1. PICK a \in 0 .. N, n \in 0 .. N : RingAt(a, n)
    BY DEF Ring
  <2>2. /\ UNCHANGED <<card, dd, rx_cur>> /\ place = "loop"
        /\ place' = IF rx_cur \in dd THEN "clear_status" ELSE "update_tail"
    BY <1>5 DEF Loop, At
  <2>3. rx_cur \in Slots /\ rx_cur = Slot(card.rdt + a)
    BY <2>1, <2>2 DEF RingAt, First, TypeOK
  <2>4. card.rdt \in Slots /\ a + n <= N
    BY <2>1 DEF RingAt
  <2>5. rx_cur \in dd => n >= 1
    BY <2>1, <2>3 DEF RingAt
  <2>6. rx_cur \notin dd => n = 0
    <3> SUFFICES ASSUME n >= 1
                 PROVE  rx_cur \in dd
      OBVIOUS
    <3>1. Gap(card.rdt, rx_cur) = a
      BY <2>3, <2>4, NAssumption DEF Gap, Slot, Slots
    <3> QED
      BY <2>1, <2>3, <3>1 DEF RingAt
  <2>7. a + n >= 1
    BY <2>1, <2>2 DEF RingAt
  <2>8. RingAt(a, n)'
    BY <2>1, <2>2, <2>5, <2>6, <2>7 DEF RingAt, First
  <2> QED
    BY <2>8 DEF Ring
<1>6. CASE ClearStatus
  <2>1. PICK a \in 0 .. N, n \in 0 .. N : RingAt(a, n)
    BY DEF Ring
  <2>2. /\ UNCHANGED <<card, rx_cur>> /\ place = "clear_status"
        /\ place' = "advance" /\ dd' = dd \ {rx_cur}
    BY <1>6 DEF ClearStatus, At
  <2>3. /\ card.rdt \in Slots /\ a + n <= N /\ n >= 1
        /\ rx_cur \in Slots /\ rx_cur = Slot(card.rdt + a)
        /\ card.rdh = Slot(card.rdt + a + n)
        /\ a + n = N => card.check_rxov
        /\ \A i \in Slots : i \in dd <=> Gap(card.rdt, i) \in a .. a + n - 1
    BY <2>1, <2>2 DEF RingAt, First, TypeOK
  <2>4. Slot(rx_cur + 1) = Slot(card.rdt + (a + 1))
    BY <2>3, NAssumption DEF Gap, Slot, Slots
  <2>5. \A i \in Slots :
           i \in dd' <=> Gap(card.rdt, i) \in a + 1 .. (a + 1) + (n - 1) - 1
    <3> SUFFICES ASSUME NEW i \in Slots
                 PROVE  i \in dd' <=> Gap(card.rdt, i) \in a + 1 .. a + n - 1
      OBVIOUS
    <3>1. Gap(card.rdt, rx_cur) = a
      BY <2>3, NAssumption DEF Gap, Slot, Slots
    <3>2. i = rx_cur <=> Gap(card.rdt, i) = a
      BY <2>3, <3>1, GapInjective
    <3>3. Gap(card.rdt, i) \in Int
      BY <2>3, NAssumption DEF Gap, Slots
    <3> QED
      BY <2>2, <2>3, <3>2, <3>3
  <2>6. a + 1 \in 0 .. N /\ n - 1 \in 0 .. N /\ (a + 1) + (n - 1) = a + n
        /\ card.rdt + (a + 1) + (n - 1) = card.rdt + a + n
    BY <2>3, NAssumption DEF Slots
  <2>7. RingAt(a + 1, n - 1)'
    BY <2>2, <2>3, <2>4, <2>5, <2>6 DEF RingAt, First
  <2> QED
    BY <2>6, <2>7 DEF Ring
<1>7. CASE Advance
  <2>1. PICK a \in 0 .. N, n \in 0 .. N : RingAt(a, n)
    BY DEF Ring
  <2>2. /\ UNCHANGED <<card, dd>> /\ place = "advance" /\ place' = "loop"
        /\ rx_cur' = IF rx_cur + 1 < N THEN rx_cur + 1 ELSE 0
    BY <1>7 DEF Advance, At
  <2>3. First' = First
    BY <2>2, NAssumption DEF First, Slot, TypeOK, Slots
  <2>4. RingAt(a, n)'
    BY <2>1, <2>2, <2>3 DEF RingAt
  <2> QED
    BY <2>4 DEF Ring
<1>8. CASE UpdateTail
  <2>1. PICK a \in 0 .. N, n \in 0 .. N : RingAt(a, n)
    BY DEF Ring
  <2>2. /\ UNCHANGED <<dd, rx_cur>> /\ place = "update_tail"
        /\ place' = "out"
        /\ card'.rdh = card.rdh /\ card'.rdt = rx_cur
    BY <1>8, UpdateTailCard DEF UpdateTail, At
  <2>3. /\ card.rdt \in Slots /\ a + n <= N /\ a >= 1
        /\ rx_cur \in Slots /\ rx_cur = Slot(card.rdt + a)
        /\ card.rdh = Slot(card.rdt + a + n)
        /\ \A i \in Slots : i \in dd <=> Gap(card.rdt, i) \in a .. a + n - 1
    BY <2>1, <2>2 DEF RingAt, First, TypeOK
  <2>4. card.rdh = Slot(rx_cur + 0 + n)
    BY <2>3, NAssumption DEF Slot, Slots
  <2>5. \A i \in Slots : i \in dd <=> Gap(rx_cur, i) \in 0 .. 0 + n - 1
    <3> SUFFICES ASSUME NEW i \in Slots
                 PROVE  Gap(card.rdt, i) \in a .. a + n - 1
                            <=> Gap(rx_cur, i) \in 0 .. n - 1
      BY <2>3
    <3> QED
      BY <2>3, NAssumption DEF Gap, Slot, Slots
  <2>6. RingAt(0, n)'
    BY <2>2, <2>3, <2>4, <2>5, NAssumption DEF RingAt, First, Slot, Slots
  <2> QED
    BY <2>6, NAssumption DEF Ring
<1>9. CASE RxFrame
  <2>1. PICK a \in 0 .. N, n \in 0 .. N : RingAt(a, n)
    BY DEF Ring
  <2>2. UNCHANGED <<rx_cur, place>> /\ card'.rdt = card.rdt
    BY <1>9, RxFrameCard DEF RxFrame
  <2>3. CASE dd' = dd /\ card'.rdh = card.rdh
             /\ card'.check_rxov = card.check_rxov
    <3>1. RingAt(a, n)'
      BY <2>1, <2>2, <2>3 DEF RingAt, First
    <3> QED
      BY <3>1 DEF Ring
  <2>4. CASE /\ HasRxbufs(card) /\ card'.check_rxov = TRUE
             /\ card'.rdh = IF card.rdh + 1 >= N THEN 0 ELSE card.rdh + 1
             /\ dd' = dd \union ({card.rdh} \intersect Slots)
    <3>1. /\ card.rdt \in Slots /\ a + n <= N
          /\ First = Slot(card.rdt + a)
          /\ card.rdh = Slot(card.rdt + a + n)
          /\ a + n = N => card.check_rxov
          /\ \A i \in Slots : i \in dd <=> Gap(card.rdt, i) \in a .. a + n - 1
      BY <2>1 DEF RingAt
    <3>2. a + n < N
      BY <2>4, <3>1, NAssumption DEF HasRxbufs, Slot, Slots
    <3>3. card.rdh \in Slots /\ Gap(card.rdt, card.rdh) = a + n
      BY <3>1, <3>2, NAssumption DEF Gap, Slot, Slots
    <3>4. card'.rdh = Slot(card.rdt + a + (n + 1))
      BY <2>4, <3>1, <3>2, <3>3, NAssumption DEF Slot, Slots
    <3>5. \A i \in Slots :
             i \in dd' <=> Gap(card.rdt, i) \in a .. a + (n + 1) - 1
      <4> SUFFICES ASSUME NEW i \in Slots
                   PROVE  i \in dd' <=> Gap(card.rdt, i) \in a .. a + n
        OBVIOUS
      <4>1. i = card.rdh <=> Gap(card.rdt, i) = a + n
        BY <3>1, <3>3, GapInjective
      <4>2. Gap(card.rdt, i) \in Int
        BY <3>1, NAssumption DEF Gap, Slots
      <4> QED
        BY <2>4, <3>1, <3>3, <4>1, <4>2
    <3>6. n + 1 \in 0 .. N /\ a + (n + 1) <= N
      BY <3>2, NAssumption
    <3>7. First' = First
      BY <2>2 DEF First
    <3>8. RingAt(a, n + 1)'
      BY <2>1, <2>2, <2>4, <3>1, <3>4, <3>5, <3>6, <3>7 DEF RingAt
    <3> QED
      BY <3>6, <3>8 DEF Ring
  <2> QED
    BY <1>9, <2>3, <2>4, RxFrameCard
<1>10. CASE LinkChange
  <2>1. UNCHANGED <<dd, rx_cur, place>>
    BY <1>10 DEF LinkChange
  <2>2. PICK a \in 0 .. N, n \in 0 .. N : RingAt(a, n)
    BY DEF Ring
  <2>3. RingAt(a, n)'
    BY <1>10, <2>1, <2>2, LinkChangeCard DEF RingAt, First
  <2> QED
    BY <2>3 DEF Ring
<1>11. CASE UNCHANGED vars
  BY <1>11 DEF vars, Ring, RingAt, First
<1> QED
  BY <1>1, <1>2, <1>3, <1>4, <1>5, <1>6, <1>7, <1>8, <1>9, <1>10, <1>11
  DEF Next, Mainline, Handler, Network
\* Only the handler looks at a packet without its cause being pending.
LEMMA WaitingStep ==
    ASSUME TypeOK, SetUp, WaitingIsSignalled, [Next]_vars
    PROVE  WaitingIsSignalled'
<1> USE DEF WaitingIsSignalled
<1>1. CASE SetAddress \/ SetData \/ Unmask \/ WriteCommand
  <2>1. UNCHANGED <<dd, rx_cur, place, missed>> /\ card'.icr = card.icr
    BY <1>1, WriteCard DEF SetAddress, SetData, Unmask, WriteCommand, Step
  <2> QED
    BY <2>1
<1>2. CASE ReadCommand
  <2>1. UNCHANGED <<dd, rx_cur, place>>
    BY <1>2 DEF ReadCommand, Step
  <2> QED
    BY <1>2, <2>1, ReadSteps
<1>3. CASE Interrupt
  BY <1>3 DEF Interrupt
<1>4. CASE IntHandler
  <2>1. /\ UNCHANGED <<dd, rx_cur>> /\ place = "handler"
        /\ place' \in {"process_packet", "out"}
        /\ place' = "out" =>
              missed' = (missed \/ "RXT0" \in card.icr)
    BY <1>4 DEF IntHandler, At
  <2> QED
    BY <2>1
<1>5. CASE ProcessPacket
  BY <1>5 DEF ProcessPacket, CompareHead, At
<1>6. CASE Loop
  BY <1>6 DEF Loop, At
<1>7. CASE ClearStatus \/ Advance
  BY <1>7 DEF ClearStatus, Advance, At
<1>8. CASE UpdateTail
  <2>1. UNCHANGED <<dd, rx_cur, missed>> /\ place = "update_tail"
    BY <1>8 DEF UpdateTail, At
  <2> QED
    BY <1>8, <2>1, UpdateTailCard
<1>9. CASE Out
  BY <1>9 DEF Out, At
<1>10. CASE RxFrame
  <2>1. UNCHANGED <<rx_cur, place, missed>>
    BY <1>10 DEF RxFrame
  <2> QED
    BY <1>10, <2>1, RxFrameCard
<1>11. CASE LinkChange
  <2>1. UNCHANGED <<dd, rx_cur, place, missed>>
    BY <1>11 DEF LinkChange
  <2> QED
    BY <1>11, <2>1, LinkChangeCard
<1>12. CASE UNCHANGED vars
  BY <1>12 DEF vars
<1> QED
  BY <1>1, <1>2, <1>3, <1>4, <1>5, <1>6, <1>7, <1>8, <1>9, <1>10, <1>11,
     <1>12
  DEF Next, Mainline, Handler, Network

-----------------------------------------------------------------------------
(* The theorems. *)

IInv == TypeOK /\ SetUp /\ Ring /\ WaitingIsSignalled

\* The card starts disabled, with nothing to receive into.
LEMMA Initially == Init => IInv
<1> SUFFICES ASSUME Init
             PROVE  IInv
  OBVIOUS
<1> USE NAssumption DEF Init
<1>1. TypeOK
  <2>1. card \in Card
    BY DEF Card, Causes
  <2>2. pc \in 1 .. Done /\ rw_data \in Datum
    BY ProgramText, DatumFacts
  <2>3. dd \subseteq Slots /\ rx_cur \in Slots /\ place \in Places
    BY DEF Slots, Places
  <2>4. unmasked \in BOOLEAN /\ missed \in BOOLEAN
    OBVIOUS
  <2>5. rw_address \in Registers
    BY DEF Registers
  <2> QED
    BY <2>1, <2>2, <2>3, <2>4, <2>5 DEF TypeOK, Registers
<1>2. SetUp
  BY DEF SetUp
<1>3. Ring
  <2>1. RingAt(0, 0)
    BY DEF RingAt, First, Slot, Slots
  <2> QED
    BY <2>1 DEF Ring
<1>4. WaitingIsSignalled
  BY DEF WaitingIsSignalled
<1> QED
  BY <1>1, <1>2, <1>3, <1>4 DEF IInv

\* No step of the driver or the card breaks the invariant.
LEMMA Inductive == IInv /\ [Next]_vars => IInv'
  BY TypeStep, SetUpStep, RingStep, WaitingStep DEF IInv

\* Every variable keeps its type, for every length of the ring: rx_cur and
\* the numbers the card is given stay descriptors of the ring.
THEOREM TypeCorrect == Spec => []TypeOK
<1>1. IInv => TypeOK
  BY DEF IInv
<1> QED
  BY Initially, Inductive, <1>1, PTL DEF Spec

\* A number modulo the length of the ring, below twice the length.
LEMMA SlotIsModulo ==
    ASSUME NEW i \in 0 .. 2 * N - 1
    PROVE  i % N = Slot(i)
<1>1. CASE i < N
  BY <1>1, NAssumption DEF Slot
<1>2. CASE i >= N
  BY <1>2, NAssumption DEF Slot
<1> QED
  BY <1>1, <1>2, NAssumption

\* The descriptors that are filled are one stretch from the driver's place to
\* the card's, for every length of the ring: no packet is overwritten or
\* taken out of order (e1000_process_packet against the card's fill).
THEOREM PacketsInOrder == Spec => []RingInOrder
<1>1. IInv => RingInOrder
  <2> SUFFICES ASSUME IInv
               PROVE  RingInOrder
    OBVIOUS
  <2> DEFINE first == IF place = "advance" THEN (rx_cur + 1) % N ELSE rx_cur
  <2>1. PICK a \in 0 .. N, n \in 0 .. N : RingAt(a, n)
    BY DEF IInv, Ring
  <2>2. rx_cur \in Slots /\ dd \subseteq Slots
    BY DEF IInv, TypeOK
  <2>3. first = First
    BY <2>2, SlotIsModulo, NAssumption DEF First, Slots
  <2>4. /\ card.rdt \in Slots /\ a + n <= N
        /\ First = Slot(card.rdt + a)
        /\ card.rdh = Slot(card.rdt + a + n)
        /\ \A i \in Slots : i \in dd <=> Gap(card.rdt, i) \in a .. a + n - 1
    BY <2>1 DEF RingAt
  <2>5. First \in Slots
    BY <2>4, NAssumption DEF Slot, Slots
  <2>6. \A k \in 0 .. N : (First + k) % N = Slot(First + k)
    BY <2>5, SlotIsModulo, NAssumption DEF Slots
  <2>7. card.rdh = Slot(First + n)
    BY <2>4, NAssumption DEF Slot, Slots
  <2>8. \A i \in Slots : i \in dd <=> Gap(First, i) \in 0 .. n - 1
    BY <2>4, NAssumption DEF Slot, Gap, Slots
  <2>9. \A k \in 0 .. n - 1 : /\ Slot(First + k) \in Slots
                              /\ Gap(First, Slot(First + k)) = k
    BY <2>4, <2>5, NAssumption DEF Slot, Gap, Slots
  <2>10. \A i \in Slots : i = Slot(First + Gap(First, i))
    BY <2>5, NAssumption DEF Slot, Gap, Slots
  <2>11. dd = {(First + k) % N : k \in 0 .. n - 1}
    <3>1. ASSUME NEW i \in dd
          PROVE  \E k \in 0 .. n - 1 : i = (First + k) % N
      BY <2>2, <2>6, <2>8, <2>10, <3>1, NAssumption
    <3>2. ASSUME NEW k \in 0 .. n - 1
          PROVE  (First + k) % N \in dd
      BY <2>6, <2>8, <2>9, <3>2, NAssumption
    <3> QED
      BY <3>1, <3>2
  <2> HIDE DEF first
  <2>12. \E m \in 0 .. N :
            /\ dd = {(first + k) % N : k \in 0 .. m - 1}
            /\ card.rdh = (first + m) % N
    BY <2>3, <2>6, <2>7, <2>11
  <2> QED
    BY <2>12 DEF RingInOrder, first
<1> QED
  BY Initially, Inductive, <1>1, PTL DEF Spec

\* A packet that waits while the handler is not looking has its cause pending
\* or let pass, for every length of the ring and every order of frames, link
\* changes, interrupts and the mainline's own read of REG_ICR.
THEOREM WaitingSignalled == Spec => []WaitingIsSignalled
<1>1. IInv => WaitingIsSignalled
  BY DEF IInv
<1> QED
  BY Initially, Inductive, <1>1, PTL DEF Spec

\* The mainline's commands reach the registers they are meant for, although
\* the handler uses the same two words.
THEOREM MaskReaches == Spec => []MaskReachesCard
<1>1. IInv => MaskReachesCard
  <2> SUFFICES ASSUME IInv, pc = Done
               PROVE  card.ims = Causes /\ card.rdt \in Slots /\ card.enabled
    BY DEF MaskReachesCard
  <2>1. pc = 16
    BY ProgramText
  <2> QED
    BY <2>1 DEF IInv, SetUp, Ring, RingAt
<1> QED
  BY Initially, Inductive, <1>1, PTL DEF Spec
=============================================================================
