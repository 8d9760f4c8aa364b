-------------------------- MODULE InterruptsProofs --------------------------
(***************************************************************************)
(* Interrupts in the third stage, for every set of devices, every line the *)
(* card may be routed to and any number of events.  The invariant says     *)
(* how far the mainline has set the controllers and the tables up, what    *)
(* the controllers may show the processor, and what the one interrupt      *)
(* that can be under way still owes them.                                  *)
(***************************************************************************)
EXTENDS Interrupts, SequenceTheorems, FiniteSetTheorems, TLAPS

-----------------------------------------------------------------------------
(* What the processor and the controllers are like, whatever the devices do. *)

Controllers == {"master", "slave"}
Pics == [master : Pic, slave : Pic]

\* The request a controller shows the processor is above all it has in service.
Sound(p) == p.int => \A s \in p.isr : p.irq < s

\* The master is asked through line 2 only while the slave shows a request.
Cascade(ps) ==
    2 \in ps.master.irr \/ (ps.master.int /\ ps.master.irq = 2)
        => ps.slave.int = TRUE

Healthy(ps) == Sound(ps.master) /\ Sound(ps.slave) /\ Cascade(ps)

PicsHere == Healthy(pics)

\* How far the mainline has set the controllers up: a controller that is asleep
\* masks every line and shows nothing.
Asleep(p) == p.imr = Bits /\ p.int = FALSE

SetUpHere ==
    /\ pc <= 5 => Asleep(pics.master)
    /\ pc <= 6 => Asleep(pics.slave)
    /\ pics.master.icw = IF pc \in {6, 7} THEN 2
                         ELSE IF pc \in {8, 9} THEN 3
                         ELSE IF pc \in {10, 11} THEN 4 ELSE 0
    /\ pics.slave.icw = IF pc \in {7, 8} THEN 2
                        ELSE IF pc \in {9, 10} THEN 3
                        ELSE IF pc \in {11, 12} THEN 4 ELSE 0
    /\ pc >= 8 => pics.master.base = 32
    /\ pc >= 9 => pics.slave.base = 40

\* The tables, and when an interrupt or an exception may come.
TablesHere ==
    /\ pc >= 2 => junk = FALSE
    /\ pc >= 32 => 0 .. 31 \subseteq idt
    /\ pc >= 33 => 0 .. 47 \subseteq idt
    /\ idtr = TRUE => pc >= 35
    /\ pc >= 35 => idtr = TRUE
    /\ iflag = TRUE => pc <= 2 \/ pc >= 37
    /\ registered \subseteq {nic.line + 32}

\* What the interrupt under way owes: the lines it acknowledged are the highest
\* in service until their EOIs, and every other one in service was neglected.
Owes(f) ==
    /\ f.exception = TRUE => f.vector \in 0 .. 31 /\ f.lines = {}
    /\ f.exception = FALSE => f.vector \in 32 .. 47
    /\ f.at \in {"stub", "default", "handler", "eoi_master"}
          => InService \subseteq neglected \union f.lines
    /\ f.at = "eoi_slave"
          => InService \subseteq neglected \union (f.lines \ Bits)
    /\ f.at = "out" => InService \subseteq neglected
    /\ f.at \in {"stub", "handler", "eoi_master"}
          => \A b \in Bits : b \in f.lines
                => b \in pics.master.isr /\ \A s \in pics.master.isr : b <= s
    /\ f.at \in {"stub", "handler", "eoi_master", "eoi_slave"}
          => \A b \in Bits : 8 + b \in f.lines
                => b \in pics.slave.isr /\ \A s \in pics.slave.isr : b <= s
    /\ f.at = "stub" /\ f.exception = FALSE /\ f.vector \notin {39, 47}
          => \E b \in Bits : b \in f.lines
    /\ f.at \in {"handler", "eoi_master"} => \E b \in Bits : b \in f.lines

FramesHere ==
    /\ Len(frames) <= 1
    /\ Len(frames) = 0 => InService \subseteq neglected
    /\ Len(frames) = 1 =>
          /\ iflag = FALSE /\ pc >= 35
          /\ frames[1].if = TRUE => pc >= 37
          /\ frames[1].at # "crash"
          /\ frames[1].at \in {"handler", "eoi_master", "eoi_slave"}
                => frames[1].exception = FALSE
          /\ Owes(frames[1])

IInv == TypeOK /\ PicsHere /\ SetUpHere /\ TablesHere /\ FramesHere

-----------------------------------------------------------------------------
(* The controllers. *)

\* The least line of a set is in it and below the others.
LEMMA MinIs ==
    ASSUME NEW S \in SUBSET Bits, S # {}
    PROVE  Min(S) \in S /\ \A y \in S : Min(S) <= y
<1>1. \E x \in S : \A y \in S : x <= y
  <2> SUFFICES ASSUME \A x \in S : \E y \in S : y < x
               PROVE  FALSE
    BY DEF Bits
  <2>0. 0 \notin S
    BY DEF Bits
  <2>1. 1 \notin S
    BY <2>0 DEF Bits
  <2>2. 2 \notin S
    BY <2>0, <2>1 DEF Bits
  <2>3. 3 \notin S
    BY <2>0, <2>1, <2>2 DEF Bits
  <2>4. 4 \notin S
    BY <2>0, <2>1, <2>2, <2>3 DEF Bits
  <2>5. 5 \notin S
    BY <2>0, <2>1, <2>2, <2>3, <2>4 DEF Bits
  <2>6. 6 \notin S
    BY <2>0, <2>1, <2>2, <2>3, <2>4, <2>5 DEF Bits
  <2>7. 7 \notin S
    BY <2>0, <2>1, <2>2, <2>3, <2>4, <2>5, <2>6 DEF Bits
  <2>8. \A x \in 0 .. 7 : x \notin S
    BY <2>0, <2>1, <2>2, <2>3, <2>4, <2>5, <2>6, <2>7
  <2> QED
    BY <2>8 DEF Bits
<1> QED
  BY <1>1 DEF Min

\* q differs from p in its lines, its requests and what it shows only; a
\* controller that masks everything shows what it showed.
Like(q, p) ==
    /\ q \in Pic
    /\ q.isr = p.isr /\ q.imr = p.imr /\ q.icw = p.icw /\ q.base = p.base
    /\ Sound(p) => Sound(q)
    /\ p.imr = Bits => q.int = p.int

\* A controller that asks for service shows its highest unmasked request.
LEMMA ServiceKeeps ==
    ASSUME NEW p \in Pic
    PROVE  /\ Like(Service(p), p)
           /\ Service(p).in = p.in /\ Service(p).irr = p.irr
           /\ p.int = TRUE => Service(p) = p
           /\ p.int = FALSE /\ Service(p).int = TRUE
                => Service(p).irq \in p.irr
<1>1. CASE p.int \/ Ready(p) = {}
  BY <1>1 DEF Service, Like, Pic
<1>2. CASE ~(p.int \/ Ready(p) = {})
  <2>1. Ready(p) \in SUBSET Bits
    BY DEF Ready, Pic
  <2>2. Min(Ready(p)) \in Ready(p)
    BY <1>2, <2>1, MinIs
  <2>3. /\ Min(Ready(p)) \in Bits /\ Min(Ready(p)) \in p.irr
        /\ \A s \in p.isr : Min(Ready(p)) < s
        /\ p.imr # Bits
    BY <2>1, <2>2 DEF Ready, Pic
  <2>4. Service(p) = [p EXCEPT !.int = TRUE, !.irq = Min(Ready(p))]
    BY <1>2 DEF Service
  <2>5. /\ Service(p) \in Pic /\ Service(p).int = TRUE
        /\ Service(p).irq = Min(Ready(p))
        /\ Service(p).in = p.in /\ Service(p).irr = p.irr
        /\ Service(p).isr = p.isr /\ Service(p).imr = p.imr
        /\ Service(p).icw = p.icw /\ Service(p).base = p.base
    BY <2>3, <2>4 DEF Pic
  <2> QED
    BY <1>2, <2>3, <2>5 DEF Like, Sound
<1> QED
  BY <1>1, <1>2

\* A controller whose line rises: another request, shown perhaps.
LEMMA RaisedKeeps ==
    ASSUME NEW p \in Pic, NEW b \in Bits
    PROVE  /\ Like(Raised(p, b), p)
           /\ Raised(p, b).irr \subseteq p.irr \union {b}
           /\ p.int = TRUE
                => Raised(p, b).int = TRUE /\ Raised(p, b).irq = p.irq
           /\ p.int = FALSE /\ Raised(p, b).int = TRUE
                => Raised(p, b).irq \in p.irr \union {b}
<1>1. CASE b \in p.in
  BY <1>1 DEF Raised, Like
<1>2. CASE b \notin p.in
  <2> DEFINE r == [p EXCEPT !.in = @ \union {b}, !.irr = @ \union {b}]
  <2>1. /\ r \in Pic /\ r.irr = p.irr \union {b}
        /\ r.isr = p.isr /\ r.imr = p.imr /\ r.icw = p.icw /\ r.base = p.base
        /\ r.int = p.int /\ r.irq = p.irq
    BY DEF Pic
  <2>2. Raised(p, b) = Service(r)
    BY <1>2 DEF Raised
  <2> HIDE DEF r
  <2>3. /\ Like(Service(r), r) /\ Service(r).irr = r.irr
        /\ r.int = TRUE => Service(r) = r
        /\ r.int = FALSE /\ Service(r).int = TRUE => Service(r).irq \in r.irr
    BY <2>1, ServiceKeeps
  <2>4. Like(r, p)
    BY <2>1 DEF Like, Sound
  <2>5. Like(Service(r), p)
    BY <2>3, <2>4 DEF Like
  <2> QED
    BY <2>1, <2>2, <2>3, <2>5
<1> QED
  BY <1>1, <1>2

\* A controller is like itself.
LEMMA LikeItself == \A p \in Pic : Like(p, p)
  BY DEF Like

\* Likeness carries over two changes.
LEMMA LikeChain ==
    \A p, q, r : Like(r, q) /\ Like(q, p) => Like(r, p)
  BY DEF Like

\* The pair of controllers: qs differs from ps as above, and the cascade holds
\* in it when it held in ps.
Calm(qs, ps) ==
    /\ qs \in Pics
    /\ Like(qs.master, ps.master) /\ Like(qs.slave, ps.slave)
    /\ Cascade(ps) => Cascade(qs)

\* A pair of controllers left alone is calm.
LEMMA CalmItself == \A ps \in Pics : Calm(ps, ps)
  BY LikeItself DEF Calm, Pics

\* A slave put in place: the master is told when the slave starts asking.
LEMMA UpdateSlave ==
    ASSUME NEW ps \in Pics, NEW p \in Pic,
           ps.slave.int => p.int
    PROVE  /\ Update(ps, "slave", p) \in Pics
           /\ Update(ps, "slave", p).slave = p
           /\ Like(Update(ps, "slave", p).master, ps.master)
           /\ Cascade(ps) => Cascade(Update(ps, "slave", p))
           /\ p.int = ps.slave.int => Update(ps, "slave", p).master = ps.master
<1> DEFINE us == Update(ps, "slave", p)
<1>1. /\ us.slave = p
      /\ us.master = IF p.int /\ ~ps.slave.int THEN Raised(ps.master, 2)
                     ELSE ps.master
      /\ us = [slave |-> us.slave, master |-> us.master]
  BY DEF Update
<1> HIDE DEF us
<1>2. ps.master \in Pic /\ ps.slave \in Pic /\ 2 \in Bits
  BY DEF Pics, Bits
<1>3. Like(us.master, ps.master)
  BY ZenonT(30), <1>1, <1>2, RaisedKeeps, LikeItself
<1>4. us \in Pics
  BY <1>1, <1>3 DEF Pics, Like
<1>5. Cascade(ps) => Cascade(us)
  <2>1. CASE p.int /\ ~ps.slave.int
    BY <1>1, <2>1 DEF Cascade, Pic
  <2>2. CASE ~(p.int /\ ~ps.slave.int)
    <3>1. us.master = ps.master
      BY <1>1, <2>2
    <3> QED
      BY <1>1, <1>2, <3>1 DEF Cascade, Pic
  <2> QED
    BY <2>1, <2>2
<1> QED
  BY <1>1, <1>3, <1>4, <1>5 DEF us

\* A master put in place.
LEMMA UpdateMaster ==
    ASSUME NEW ps \in Pics, NEW p \in Pic
    PROVE  /\ Update(ps, "master", p) \in Pics
           /\ Update(ps, "master", p).master = p
           /\ Update(ps, "master", p).slave = ps.slave
  BY DEF Update, Pics

\* A line is one of a controller's eight; the cascade's own is line 2.
LEMMA LinesAre ==
    \A line \in 0 .. 15 :
        /\ Controller(line) \in Controllers
        /\ line % 8 \in Bits
        /\ line # 2 /\ Controller(line) = "master" => line % 8 # 2
  BY DEF Controller, Controllers, Bits

\* A line other than the cascade's that rises or falls leaves the controllers
\* as they were, but for what they are asked and show.
LEMMA RaiseLineKeeps ==
    ASSUME NEW ps \in Pics, NEW line \in (0 .. 15) \ {2}
    PROVE  Calm(RaiseLine(ps, line), ps)
<1>1. ps.master \in Pic /\ ps.slave \in Pic /\ line % 8 \in Bits
  BY LinesAre DEF Pics
<1>2. CASE Controller(line) = "master"
  <2> DEFINE p == Raised(ps.master, line % 8)
             us == RaiseLine(ps, line)
  <2>1. us = Update(ps, "master", p)
    BY <1>2 DEF RaiseLine
  <2>2. /\ Like(p, ps.master)
        /\ p.irr \subseteq ps.master.irr \union {line % 8}
        /\ ps.master.int = TRUE => p.int = TRUE /\ p.irq = ps.master.irq
        /\ ps.master.int = FALSE /\ p.int = TRUE
             => p.irq \in ps.master.irr \union {line % 8}
    BY <1>1, RaisedKeeps
  <2>3. line % 8 # 2
    BY <1>2, LinesAre
  <2> HIDE DEF p, us
  <2>4. us \in Pics /\ us.master = p /\ us.slave = ps.slave
    BY <2>1, <2>2, UpdateMaster DEF Like
  <2>5. Cascade(ps) => Cascade(us)
    BY <1>1, <2>2, <2>3, <2>4 DEF Cascade, Like, Pic
  <2>6. Calm(us, ps)
    BY <1>1, <2>2, <2>4, <2>5, LikeItself DEF Calm
  <2> QED
    BY <2>6 DEF us
<1>3. CASE Controller(line) = "slave"
  <2> DEFINE p == Raised(ps.slave, line % 8)
             us == RaiseLine(ps, line)
  <2>1. us = Update(ps, "slave", p)
    BY <1>3 DEF RaiseLine
  <2>2. Like(p, ps.slave) /\ (ps.slave.int = TRUE => p.int = TRUE)
    BY ZenonT(30), <1>1, RaisedKeeps
  <2> HIDE DEF p, us
  <2>3. p \in Pic /\ (ps.slave.int => p.int)
    BY <1>1, <2>2 DEF Like, Pic
  <2>4. /\ us \in Pics /\ us.slave = p /\ Like(us.master, ps.master)
        /\ Cascade(ps) => Cascade(us)
    BY <2>1, <2>3, UpdateSlave
  <2>5. Calm(us, ps)
    BY <2>2, <2>4 DEF Calm
  <2> QED
    BY <2>5 DEF us
<1> QED
  BY <1>2, <1>3, LinesAre DEF Controllers

\* Dropping a line, too, leaves everything acknowledged as it was.
LEMMA LowerLineKeeps ==
    ASSUME NEW ps \in Pics, NEW line \in (0 .. 15) \ {2}
    PROVE  Calm(LowerLine(ps, line), ps)
<1> DEFINE us == LowerLine(ps, line)
<1>1. ps.master \in Pic /\ ps.slave \in Pic /\ line % 8 \in Bits
  BY LinesAre DEF Pics
<1>2. CASE Controller(line) = "master"
  <2>1. us = [ps EXCEPT !.master.in = @ \ {line % 8},
                        !.master.irr = @ \ {line % 8}]
    BY <1>2 DEF LowerLine
  <2>2. /\ us = [master |-> us.master, slave |-> ps.slave]
        /\ us.master = [ps.master EXCEPT !.in = @ \ {line % 8},
                                         !.irr = @ \ {line % 8}]
    BY <1>1, <2>1 DEF Pics
  <2> HIDE DEF us
  <2>3. /\ us.master \in Pic /\ us.master.irr \subseteq ps.master.irr
        /\ us.master.isr = ps.master.isr /\ us.master.imr = ps.master.imr
        /\ us.master.icw = ps.master.icw /\ us.master.base = ps.master.base
        /\ us.master.int = ps.master.int /\ us.master.irq = ps.master.irq
    BY ZenonT(60), <1>1, <2>2 DEF Pic
  <2>4. us.slave = ps.slave
    BY <2>2
  <2>5. us \in Pics
    BY <1>1, <2>2, <2>3 DEF Pics
  <2>6. Calm(us, ps)
    BY <1>1, <2>3, <2>4, <2>5, LikeItself DEF Calm, Like, Sound, Cascade
  <2> QED
    BY <2>6 DEF us
<1>3. CASE Controller(line) = "slave"
  <2>1. us = [ps EXCEPT !.slave.in = @ \ {line % 8},
                        !.slave.irr = @ \ {line % 8}]
    BY <1>3 DEF LowerLine
  <2>2. /\ us = [master |-> ps.master, slave |-> us.slave]
        /\ us.slave = [ps.slave EXCEPT !.in = @ \ {line % 8},
                                       !.irr = @ \ {line % 8}]
    BY <1>1, <2>1 DEF Pics
  <2> HIDE DEF us
  <2>3. /\ us.slave \in Pic
        /\ us.slave.isr = ps.slave.isr /\ us.slave.imr = ps.slave.imr
        /\ us.slave.icw = ps.slave.icw /\ us.slave.base = ps.slave.base
        /\ us.slave.int = ps.slave.int /\ us.slave.irq = ps.slave.irq
    BY ZenonT(60), <1>1, <2>2 DEF Pic
  <2>4. us.master = ps.master
    BY <2>2
  <2>5. us \in Pics
    BY <1>1, <2>2, <2>3 DEF Pics
  <2>6. Calm(us, ps)
    BY <1>1, <2>3, <2>4, <2>5, LikeItself DEF Calm, Like, Sound, Cascade
  <2> QED
    BY <2>6 DEF us
<1> QED
  BY <1>2, <1>3, LinesAre DEF Controllers

\* The lines of the devices and of the card are not the cascade's.
LEMMA DeviceLinesAre ==
    /\ DeviceLines \subseteq (0 .. 15) \ {2}
    /\ NicLines \subseteq (0 .. 15) \ {2}
    /\ 7 \notin NicLines /\ 15 \notin NicLines
  BY LinesAssumption

\* The card's causes and mask only move its line.
LEMMA DriveKeeps ==
    ASSUME pics \in Pics, NEW n, n.line \in NicLines, Drive(n)
    PROVE  nic' = n /\ Calm(pics', pics)
<1>1. n.line \in (0 .. 15) \ {2}
  BY DeviceLinesAre
<1> QED
  BY <1>1, RaiseLineKeeps, LowerLineKeeps DEF Drive

-----------------------------------------------------------------------------
(* What the kernel's writes do to the controllers. *)

\* A calm change keeps the controllers healthy.
LEMMA CalmHealthy ==
    \A ps, qs : Calm(qs, ps) /\ Healthy(ps) => Healthy(qs)
  BY DEF Calm, Healthy, Like

\* Writing the master back: it may show no request it did not show or hold.
LEMMA PutMaster ==
    ASSUME NEW ps \in Pics, Healthy(ps), NEW p \in Pic, Sound(p),
           p.irr \subseteq ps.master.irr,
           p.int = TRUE => \/ ps.master.int = TRUE /\ p.irq = ps.master.irq
                           \/ p.irq \in p.irr
    PROVE  /\ Update(ps, "master", p) \in Pics
           /\ Healthy(Update(ps, "master", p))
           /\ Update(ps, "master", p).master = p
           /\ Update(ps, "master", p).slave = ps.slave
<1> DEFINE us == Update(ps, "master", p)
<1>1. us \in Pics /\ us.master = p /\ us.slave = ps.slave
  BY UpdateMaster
<1> HIDE DEF us
<1>2. p.int \in BOOLEAN /\ ps.master.int \in BOOLEAN
  BY DEF Pic, Pics
<1>3. Healthy(us)
  BY <1>1, <1>2 DEF Healthy, Cascade
<1> QED
  BY <1>1, <1>3 DEF us

\* Writing the slave back: if it now shows a request, line 2 rises.
LEMMA PutSlave ==
    ASSUME NEW ps \in Pics, Healthy(ps), NEW p \in Pic, Sound(p),
           ps.slave.int => p.int
    PROVE  /\ Update(ps, "slave", p) \in Pics
           /\ Healthy(Update(ps, "slave", p))
           /\ Update(ps, "slave", p).slave = p
           /\ Like(Update(ps, "slave", p).master, ps.master)
<1> DEFINE us == Update(ps, "slave", p)
<1>1. /\ us \in Pics /\ us.slave = p /\ Like(us.master, ps.master)
      /\ Cascade(ps) => Cascade(us)
  BY UpdateSlave
<1> HIDE DEF us
<1>2. Healthy(us)
  BY <1>1 DEF Healthy, Like
<1> QED
  BY <1>1, <1>2 DEF us

\* The initialisation of a controller begins.
LEMMA ResetMaster ==
    ASSUME NEW ps \in Pics, Healthy(ps)
    PROVE  LET us == OutCommand(ps, "master", {0, 4})
           IN /\ us \in Pics /\ Healthy(us)
              /\ us.master.isr = {} /\ us.master.icw = 2
              /\ us.slave = ps.slave
<1> DEFINE us == OutCommand(ps, "master", {0, 4})
<1>1. ps.master \in Pic
  BY DEF Pics
<1>2. /\ us.master = [ps.master EXCEPT !.imr = {}, !.isr = {}, !.irr = {},
                                       !.int = FALSE, !.icw = 2]
      /\ us.slave = ps.slave
      /\ us = [master |-> us.master, slave |-> ps.slave]
  BY DEF OutCommand, Pics
<1> HIDE DEF us
<1>3. /\ us.master \in Pic /\ us.master.isr = {} /\ us.master.irr = {}
      /\ us.master.int = FALSE /\ us.master.icw = 2
  BY <1>1, <1>2 DEF Pic
<1>4. us \in Pics
  BY <1>2, <1>3 DEF Pics
<1>5. Healthy(us)
  BY <1>2, <1>3 DEF Healthy, Sound, Cascade
<1> QED
  BY <1>2, <1>3, <1>4, <1>5 DEF us

\* ICW1 to the slave drops the request line 2 stood for.
LEMMA ResetSlave ==
    ASSUME NEW ps \in Pics, Healthy(ps), ps.slave.int = FALSE
    PROVE  LET us == OutCommand(ps, "slave", {0, 4})
           IN /\ us \in Pics /\ Healthy(us)
              /\ us.slave.isr = {} /\ us.slave.icw = 2
              /\ us.master.isr = ps.master.isr
              /\ us.master.icw = ps.master.icw
              /\ us.master.base = ps.master.base
<1> DEFINE us == OutCommand(ps, "slave", {0, 4})
<1>1. ps.master \in Pic /\ ps.slave \in Pic
  BY DEF Pics
<1>2. /\ us.slave = [ps.slave EXCEPT !.imr = {}, !.isr = {}, !.irr = {},
                                     !.int = FALSE, !.icw = 2]
      /\ us.master = [ps.master EXCEPT !.in = @ \ {2}]
      /\ us = [master |-> us.master, slave |-> us.slave]
  BY DEF OutCommand, Pics
<1> HIDE DEF us
<1>3. /\ us.slave \in Pic /\ us.slave.isr = {}
      /\ us.slave.int = FALSE /\ us.slave.icw = 2
  BY <1>1, <1>2 DEF Pic
<1>4. /\ us.master \in Pic /\ us.master.isr = ps.master.isr
      /\ us.master.irr = ps.master.irr /\ us.master.int = ps.master.int
      /\ us.master.irq = ps.master.irq /\ us.master.icw = ps.master.icw
      /\ us.master.base = ps.master.base
  BY <1>1, <1>2 DEF Pic
<1>5. us \in Pics
  BY <1>2, <1>3, <1>4 DEF Pics
<1>6. Healthy(us)
  BY <1>3, <1>4 DEF Healthy, Sound, Cascade
<1> QED
  BY <1>3, <1>4, <1>5, <1>6 DEF us

\* An EOI ends the highest interrupt in service, and no other.
LEMMA ClearKeeps ==
    ASSUME NEW p \in Pic, Sound(p)
    PROVE  LET q == Service(ClearHighest(p))
           IN /\ q \in Pic /\ Sound(q)
              /\ \A b : b \in q.isr
                    <=> b \in p.isr /\ \E s \in p.isr : s < b
              /\ q.irr = p.irr /\ q.imr = p.imr
              /\ q.icw = p.icw /\ q.base = p.base
              /\ p.int = TRUE => q.int = TRUE /\ q.irq = p.irq
              /\ p.int = FALSE /\ q.int = TRUE => q.irq \in q.irr
<1> DEFINE c == ClearHighest(p)
<1>1. CASE p.isr = {}
  <2>1. c = p
    BY <1>1 DEF ClearHighest
  <2>2. Like(Service(p), p)
    BY ServiceKeeps
  <2>3. /\ Service(p).irr = p.irr
        /\ p.int = TRUE => Service(p) = p
        /\ p.int = FALSE /\ Service(p).int = TRUE => Service(p).irq \in p.irr
    BY ServiceKeeps
  <2>4. /\ Service(p) \in Pic /\ Sound(Service(p)) /\ Service(p).isr = {}
        /\ Service(p).imr = p.imr /\ Service(p).icw = p.icw
        /\ Service(p).base = p.base
    BY <1>1, <2>2 DEF Like
  <2> HIDE DEF c
  <2>5. /\ Service(c) \in Pic /\ Sound(Service(c))
        /\ \A b : b \in Service(c).isr
              <=> b \in p.isr /\ \E s \in p.isr : s < b
        /\ Service(c).irr = p.irr /\ Service(c).imr = p.imr
        /\ Service(c).icw = p.icw /\ Service(c).base = p.base
        /\ p.int = TRUE => Service(c).int = TRUE /\ Service(c).irq = p.irq
        /\ p.int = FALSE /\ Service(c).int = TRUE
             => Service(c).irq \in Service(c).irr
    BY <1>1, <2>1, <2>3, <2>4
  <2> QED
    BY <2>5 DEF c
<1>2. CASE p.isr # {}
  <2>1. p.isr \in SUBSET Bits
    BY DEF Pic
  <2>2. Min(p.isr) \in p.isr /\ \A y \in p.isr : Min(p.isr) <= y
    BY <1>2, <2>1, MinIs
  <2>3. c = [p EXCEPT !.isr = @ \ {Min(@)}]
    BY <1>2 DEF ClearHighest
  <2> HIDE DEF c
  <2>4. /\ c \in Pic /\ c.isr = p.isr \ {Min(p.isr)}
        /\ c.irr = p.irr /\ c.imr = p.imr /\ c.icw = p.icw
        /\ c.base = p.base /\ c.int = p.int /\ c.irq = p.irq
    BY <2>3 DEF Pic
  <2>5. \A b : b \in c.isr <=> b \in p.isr /\ \E s \in p.isr : s < b
    BY <2>1, <2>2, <2>4 DEF Bits
  <2>6. Sound(c)
    BY <2>4 DEF Sound
  <2>7. /\ Like(Service(c), c) /\ Service(c).irr = c.irr
        /\ c.int = TRUE => Service(c) = c
        /\ c.int = FALSE /\ Service(c).int = TRUE => Service(c).irq \in c.irr
    BY <2>4, ServiceKeeps
  <2>8. Service(c) \in Pic /\ Sound(Service(c)) /\ Service(c).isr = c.isr
        /\ Service(c).imr = c.imr /\ Service(c).icw = c.icw
        /\ Service(c).base = c.base
    BY <2>6, <2>7 DEF Like
  <2> QED
    BY <2>4, <2>5, <2>7, <2>8 DEF c
<1> QED
  BY <1>1, <1>2

\* An EOI to the master ends the highest line in service there, and leaves
\* the slave alone.
LEMMA EoiToMaster ==
    ASSUME NEW ps \in Pics, Healthy(ps)
    PROVE  LET us == OutCommand(ps, "master", {5})
           IN /\ us \in Pics /\ Healthy(us)
              /\ \A b : b \in us.master.isr
                    <=> b \in ps.master.isr /\ \E s \in ps.master.isr : s < b
              /\ us.master.icw = ps.master.icw
              /\ us.master.base = ps.master.base
              /\ us.slave = ps.slave
<1> DEFINE q == Service(ClearHighest(ps.master))
           us == OutCommand(ps, "master", {5})
<1>1. ps.master \in Pic /\ Sound(ps.master) /\ ps.master.int \in BOOLEAN
  BY DEF Pics, Pic, Healthy
<1>2. us = Update(ps, "master", q)
  BY DEF OutCommand
<1>3. /\ q \in Pic /\ Sound(q)
      /\ \A b : b \in q.isr
            <=> b \in ps.master.isr /\ \E s \in ps.master.isr : s < b
      /\ q.irr = ps.master.irr /\ q.icw = ps.master.icw
      /\ q.base = ps.master.base
      /\ ps.master.int = TRUE => q.int = TRUE /\ q.irq = ps.master.irq
      /\ ps.master.int = FALSE /\ q.int = TRUE => q.irq \in q.irr
  BY <1>1, ClearKeeps
<1> HIDE DEF q, us
<1>4. /\ us \in Pics /\ Healthy(us) /\ us.master = q /\ us.slave = ps.slave
  BY <1>1, <1>2, <1>3, PutMaster
<1> QED
  BY <1>3, <1>4 DEF us

\* An EOI to the slave ends the highest line in service there, and none of
\* the master's.
LEMMA EoiToSlave ==
    ASSUME NEW ps \in Pics, Healthy(ps)
    PROVE  LET us == OutCommand(ps, "slave", {5})
           IN /\ us \in Pics /\ Healthy(us)
              /\ us.slave.isr \subseteq ps.slave.isr
              /\ \A b : b \in us.slave.isr
                    <=> b \in ps.slave.isr /\ \E s \in ps.slave.isr : s < b
              /\ us.slave.icw = ps.slave.icw /\ us.slave.base = ps.slave.base
              /\ us.master.isr = ps.master.isr
              /\ us.master.icw = ps.master.icw
              /\ us.master.base = ps.master.base
<1> DEFINE q == Service(ClearHighest(ps.slave))
           us == OutCommand(ps, "slave", {5})
<1>1. ps.slave \in Pic /\ Sound(ps.slave) /\ ps.slave.int \in BOOLEAN
  BY DEF Pics, Pic, Healthy
<1>2. us = Update(ps, "slave", q)
  BY DEF OutCommand
<1>3. /\ q \in Pic /\ Sound(q)
      /\ \A b : b \in q.isr
            <=> b \in ps.slave.isr /\ \E s \in ps.slave.isr : s < b
      /\ q.icw = ps.slave.icw /\ q.base = ps.slave.base
      /\ ps.slave.int = TRUE => q.int = TRUE
  BY <1>1, ClearKeeps
<1> HIDE DEF q, us
<1>4. /\ us \in Pics /\ Healthy(us) /\ us.slave = q
      /\ Like(us.master, ps.master)
  BY <1>1, <1>2, <1>3, PutSlave
<1> QED
  BY <1>3, <1>4 DEF us, Like

\* A mask set outside the initialisation.
LEMMA MaskKeeps ==
    ASSUME NEW p \in Pic, Sound(p), NEW byte \in SUBSET Bits
    PROVE  LET q == Service([p EXCEPT !.imr = byte])
           IN /\ q \in Pic /\ Sound(q)
              /\ q.isr = p.isr /\ q.irr = p.irr /\ q.imr = byte
              /\ q.icw = p.icw /\ q.base = p.base
              /\ p.int = TRUE => q.int = TRUE /\ q.irq = p.irq
              /\ p.int = FALSE /\ q.int = TRUE => q.irq \in q.irr
              /\ p.int = FALSE /\ byte = Bits => q.int = FALSE
<1> DEFINE c == [p EXCEPT !.imr = byte]
<1>1. /\ c \in Pic /\ c.isr = p.isr /\ c.irr = p.irr /\ c.imr = byte
      /\ c.icw = p.icw /\ c.base = p.base /\ c.int = p.int /\ c.irq = p.irq
  BY DEF Pic
<1> HIDE DEF c
<1>2. Sound(c)
  BY <1>1 DEF Sound
<1>3. /\ Like(Service(c), c) /\ Service(c).irr = c.irr
      /\ c.int = TRUE => Service(c) = c
      /\ c.int = FALSE /\ Service(c).int = TRUE => Service(c).irq \in c.irr
  BY <1>1, ServiceKeeps
<1>4. /\ Service(c) \in Pic /\ Sound(Service(c))
      /\ Service(c).isr = c.isr /\ Service(c).imr = c.imr
      /\ Service(c).icw = c.icw /\ Service(c).base = c.base
      /\ c.imr = Bits => Service(c).int = c.int
  BY <1>2, <1>3 DEF Like
<1>5. /\ Service(c) \in Pic /\ Sound(Service(c))
      /\ Service(c).isr = p.isr /\ Service(c).irr = p.irr
      /\ Service(c).imr = byte /\ Service(c).icw = p.icw
      /\ Service(c).base = p.base
      /\ p.int = TRUE => Service(c).int = TRUE /\ Service(c).irq = p.irq
      /\ p.int = FALSE /\ Service(c).int = TRUE
           => Service(c).irq \in Service(c).irr
      /\ p.int = FALSE /\ byte = Bits => Service(c).int = FALSE
  BY <1>1, <1>3, <1>4
<1> QED
  BY <1>5 DEF c

\* A mask written to the master changes nothing in service.
LEMMA MasterMask ==
    ASSUME NEW ps \in Pics, Healthy(ps), NEW byte \in SUBSET Bits,
           ps.master.icw = 0
    PROVE  LET us == OutData(ps, "master", byte)
           IN /\ us \in Pics /\ Healthy(us)
              /\ us.master.isr = ps.master.isr /\ us.master.imr = byte
              /\ us.master.icw = 0 /\ us.master.base = ps.master.base
              /\ ps.master.int = FALSE /\ byte = Bits
                    => us.master.int = FALSE
              /\ us.slave = ps.slave
<1> DEFINE q == Service([ps.master EXCEPT !.imr = byte])
           us == OutData(ps, "master", byte)
<1>1. ps.master \in Pic /\ Sound(ps.master) /\ ps.master.int \in BOOLEAN
  BY DEF Pics, Pic, Healthy
<1>2. us = Update(ps, "master", q)
  BY DEF OutData
<1>3. /\ q \in Pic /\ Sound(q)
      /\ q.isr = ps.master.isr /\ q.irr = ps.master.irr /\ q.imr = byte
      /\ q.icw = ps.master.icw /\ q.base = ps.master.base
      /\ ps.master.int = TRUE => q.int = TRUE /\ q.irq = ps.master.irq
      /\ ps.master.int = FALSE /\ q.int = TRUE => q.irq \in q.irr
      /\ ps.master.int = FALSE /\ byte = Bits => q.int = FALSE
  BY <1>1, MaskKeeps
<1> HIDE DEF q, us
<1>4. /\ us \in Pics /\ Healthy(us) /\ us.master = q /\ us.slave = ps.slave
  BY <1>1, <1>2, <1>3, PutMaster
<1> QED
  BY <1>3, <1>4 DEF us

\* Nor does one written to the slave.
LEMMA SlaveMask ==
    ASSUME NEW ps \in Pics, Healthy(ps), NEW byte \in SUBSET Bits,
           ps.slave.icw = 0
    PROVE  LET us == OutData(ps, "slave", byte)
           IN /\ us \in Pics /\ Healthy(us)
              /\ us.slave.isr = ps.slave.isr /\ us.slave.imr = byte
              /\ us.slave.icw = 0 /\ us.slave.base = ps.slave.base
              /\ ps.slave.int = FALSE /\ byte = Bits => us.slave.int = FALSE
              /\ Like(us.master, ps.master)
<1> DEFINE q == Service([ps.slave EXCEPT !.imr = byte])
           us == OutData(ps, "slave", byte)
<1>1. ps.slave \in Pic /\ Sound(ps.slave) /\ ps.slave.int \in BOOLEAN
  BY DEF Pics, Pic, Healthy
<1>2. us = Update(ps, "slave", q)
  BY DEF OutData
<1>3. /\ q \in Pic /\ Sound(q)
      /\ q.isr = ps.slave.isr /\ q.imr = byte
      /\ q.icw = ps.slave.icw /\ q.base = ps.slave.base
      /\ ps.slave.int = TRUE => q.int = TRUE
      /\ ps.slave.int = FALSE /\ byte = Bits => q.int = FALSE
  BY <1>1, MaskKeeps
<1> HIDE DEF q, us
<1>4. /\ us \in Pics /\ Healthy(us) /\ us.slave = q
      /\ Like(us.master, ps.master)
  BY <1>1, <1>2, <1>3, PutSlave
<1> QED
  BY <1>3, <1>4 DEF us

\* The vector base, and the two words after it.
LEMMA WordsOfMaster ==
    ASSUME NEW ps \in Pics, Healthy(ps), NEW byte \in SUBSET Bits,
           ps.master.icw # 0
    PROVE  LET us == OutData(ps, "master", byte)
           IN /\ us \in Pics /\ Healthy(us)
              /\ us.master.isr = ps.master.isr
              /\ ps.master.icw = 2
                    => us.master.icw = 3 /\ us.master.base = VectorBase(byte)
              /\ ps.master.icw = 3
                    => us.master.icw = 4 /\ us.master.base = ps.master.base
              /\ ps.master.icw = 4
                    => us.master.icw = 0 /\ us.master.base = ps.master.base
              /\ us.slave = ps.slave
<1> DEFINE us == OutData(ps, "master", byte)
<1>1. ps.master \in Pic /\ ps.master.icw \in {2, 3, 4}
  BY DEF Pics, Pic
<1>2. VectorBase(byte) \in 0 .. 255
  BY DEF VectorBase
<1>3. /\ us = [master |-> us.master, slave |-> ps.slave]
      /\ ps.master.icw = 2
            => us.master = [ps.master EXCEPT !.base = VectorBase(byte),
                                             !.icw = 3]
      /\ ps.master.icw = 3 => us.master = [ps.master EXCEPT !.icw = 4]
      /\ ps.master.icw = 4 => us.master = [ps.master EXCEPT !.icw = 0]
  <2>1. CASE ps.master.icw = 2
    <3>1. ps["master"].icw = 2
          /\ 2 # 0 /\ 2 # 3 /\ 2 # 4
      BY <2>1
    <3>2. us = [ps EXCEPT !["master"].base = VectorBase(byte),
                         !["master"].icw = 3]
      BY <3>1, Zenon DEF OutData
    <3>3. /\ us = [master |-> us.master, slave |-> ps.slave]
          /\ us.master = [ps.master EXCEPT !.base = VectorBase(byte), !.icw = 3]
      <4> DEFINE v == VectorBase(byte)
      <4> HIDE DEF v
      <4>1. us = [ps EXCEPT !["master"].base = v, !["master"].icw = 3]
        BY <3>2 DEF v
      <4>2. /\ us = [master |-> us.master, slave |-> ps.slave]
            /\ us.master = [ps.master EXCEPT !.base = v, !.icw = 3]
        BY <4>1 DEF Pics
      <4> QED
        BY <4>2 DEF v
    <3> QED
      BY <2>1, <3>3
  <2>2. CASE ps.master.icw = 3
    <3>1. ps["master"].icw = 3
          /\ 3 # 0 /\ 3 # 2 /\ 3 # 4
      BY <2>2
    <3>2. us = [ps EXCEPT !["master"].icw = 4]
      BY <3>1, Zenon DEF OutData
    <3> QED
      BY <1>1, <2>2, <3>2 DEF Pics
  <2>3. CASE ps.master.icw = 4
    <3>1. ps["master"].icw = 4
          /\ 4 # 0 /\ 4 # 2 /\ 4 # 3
      BY <2>3
    <3>2. us = [ps EXCEPT !["master"].icw = 0]
      BY <3>1, Zenon DEF OutData
    <3> QED
      BY <1>1, <2>3, <3>2 DEF Pics
  <2> QED
    BY <1>1, <2>1, <2>2, <2>3
<1> HIDE DEF us
<1>4. /\ us.master \in Pic
      /\ us.master.isr = ps.master.isr /\ us.master.irr = ps.master.irr
      /\ us.master.int = ps.master.int /\ us.master.irq = ps.master.irq
      /\ ps.master.icw = 2
            => us.master.icw = 3 /\ us.master.base = VectorBase(byte)
      /\ ps.master.icw = 3
            => us.master.icw = 4 /\ us.master.base = ps.master.base
      /\ ps.master.icw = 4
            => us.master.icw = 0 /\ us.master.base = ps.master.base
  BY ZenonT(30), <1>1, <1>2, <1>3 DEF Pic
<1>5. us \in Pics /\ us.slave = ps.slave
  BY <1>3, <1>4 DEF Pics
<1>6. Healthy(us)
  BY <1>4, <1>5 DEF Healthy, Sound, Cascade
<1> QED
  BY <1>4, <1>5, <1>6 DEF us

\* The slave takes its initialisation words in turn.
LEMMA WordsOfSlave ==
    ASSUME NEW ps \in Pics, Healthy(ps), NEW byte \in SUBSET Bits,
           ps.slave.icw # 0
    PROVE  LET us == OutData(ps, "slave", byte)
           IN /\ us \in Pics /\ Healthy(us)
              /\ us.slave.isr = ps.slave.isr
              /\ ps.slave.icw = 2
                    => us.slave.icw = 3 /\ us.slave.base = VectorBase(byte)
              /\ ps.slave.icw = 3
                    => us.slave.icw = 4 /\ us.slave.base = ps.slave.base
              /\ ps.slave.icw = 4
                    => us.slave.icw = 0 /\ us.slave.base = ps.slave.base
              /\ us.master = ps.master
<1> DEFINE us == OutData(ps, "slave", byte)
<1>1. ps.slave \in Pic /\ ps.slave.icw \in {2, 3, 4}
  BY DEF Pics, Pic
<1>2. VectorBase(byte) \in 0 .. 255
  BY DEF VectorBase
<1>3. /\ us = [master |-> ps.master, slave |-> us.slave]
      /\ ps.slave.icw = 2
            => us.slave = [ps.slave EXCEPT !.base = VectorBase(byte), !.icw = 3]
      /\ ps.slave.icw = 3 => us.slave = [ps.slave EXCEPT !.icw = 4]
      /\ ps.slave.icw = 4 => us.slave = [ps.slave EXCEPT !.icw = 0]
  <2>1. CASE ps.slave.icw = 2
    <3>1. ps["slave"].icw = 2
          /\ 2 # 0 /\ 2 # 3 /\ 2 # 4
      BY <2>1
    <3>2. us = [ps EXCEPT !["slave"].base = VectorBase(byte),
                         !["slave"].icw = 3]
      BY <3>1, Zenon DEF OutData
    <3>3. /\ us = [master |-> ps.master, slave |-> us.slave]
          /\ us.slave = [ps.slave EXCEPT !.base = VectorBase(byte), !.icw = 3]
      <4> DEFINE v == VectorBase(byte)
      <4> HIDE DEF v
      <4>1. us = [ps EXCEPT !["slave"].base = v, !["slave"].icw = 3]
        BY <3>2 DEF v
      <4>2. /\ us = [master |-> ps.master, slave |-> us.slave]
            /\ us.slave = [ps.slave EXCEPT !.base = v, !.icw = 3]
        BY <4>1 DEF Pics
      <4> QED
        BY <4>2 DEF v
    <3> QED
      BY <2>1, <3>3
  <2>2. CASE ps.slave.icw = 3
    <3>1. ps["slave"].icw = 3
          /\ 3 # 0 /\ 3 # 2 /\ 3 # 4
      BY <2>2
    <3>2. us = [ps EXCEPT !["slave"].icw = 4]
      BY <3>1, Zenon DEF OutData
    <3> QED
      BY <1>1, <2>2, <3>2 DEF Pics
  <2>3. CASE ps.slave.icw = 4
    <3>1. ps["slave"].icw = 4
          /\ 4 # 0 /\ 4 # 2 /\ 4 # 3
      BY <2>3
    <3>2. us = [ps EXCEPT !["slave"].icw = 0]
      BY <3>1, Zenon DEF OutData
    <3> QED
      BY <1>1, <2>3, <3>2 DEF Pics
  <2> QED
    BY <1>1, <2>1, <2>2, <2>3
<1> HIDE DEF us
<1>4. /\ us.slave \in Pic
      /\ us.slave.isr = ps.slave.isr /\ us.slave.int = ps.slave.int
      /\ us.slave.irq = ps.slave.irq
      /\ ps.slave.icw = 2
            => us.slave.icw = 3 /\ us.slave.base = VectorBase(byte)
      /\ ps.slave.icw = 3
            => us.slave.icw = 4 /\ us.slave.base = ps.slave.base
      /\ ps.slave.icw = 4
            => us.slave.icw = 0 /\ us.slave.base = ps.slave.base
  BY ZenonT(30), <1>1, <1>2, <1>3 DEF Pic
<1>5. us \in Pics /\ us.master = ps.master
  BY <1>3, <1>4 DEF Pics
<1>6. Healthy(us)
  BY <1>4, <1>5 DEF Healthy, Sound, Cascade
<1> QED
  BY <1>4, <1>5, <1>6 DEF us

-----------------------------------------------------------------------------
(* The acknowledgement. *)

\* The request that was shown is in service now.
LEMMA AckedIs ==
    ASSUME NEW p \in Pic, NEW ctl
    PROVE  LET r == AckedPic(p, ctl)
           IN /\ r \in Pic /\ r.isr = p.isr \union {p.irq}
              /\ r.irr \subseteq p.irr /\ r.int = p.int
              /\ r.icw = p.icw /\ r.base = p.base
              /\ ctl = "master" /\ p.irq = 2 => r.irr = p.irr \ {2}
<1> DEFINE r == AckedPic(p, ctl)
           irr == IF Line(ctl, p.irq) \in Level THEN p.irr
                  ELSE p.irr \ {p.irq}
<1>1. r = [p EXCEPT !.irr = irr, !.isr = p.isr \union {p.irq}]
  BY DEF AckedPic, Pic
<1>2. irr \subseteq p.irr
  OBVIOUS
<1>3. ctl = "master" /\ p.irq = 2 => irr = p.irr \ {2}
  BY DEF Line, Level
<1> HIDE DEF irr, r
<1>4. /\ r \in Pic /\ r.isr = p.isr \union {p.irq} /\ r.irr = irr
      /\ r.int = p.int /\ r.icw = p.icw /\ r.base = p.base
  BY <1>1, <1>2 DEF Pic
<1> QED
  BY <1>2, <1>3, <1>4 DEF r

\* Withdrawing INT changes nothing else.
LEMMA QuietIs ==
    ASSUME NEW p \in Pic
    PROVE  LET q == [p EXCEPT !.int = FALSE]
           IN /\ q \in Pic /\ q.int = FALSE
              /\ q.isr = p.isr /\ q.irr = p.irr /\ q.irq = p.irq
              /\ q.icw = p.icw /\ q.base = p.base
  BY DEF Pic

\* What the processor gets, and what the controllers keep: the lines are the
\* ones that came in service, above all the others, and the vector is one of
\* the two for spurious interrupts when there is none.
Answered(a, ps) ==
    /\ a.pics \in Pics /\ Healthy(a.pics)
    /\ a.pics.master.icw = ps.master.icw /\ a.pics.slave.icw = ps.slave.icw
    /\ a.pics.master.base = ps.master.base
    /\ a.pics.slave.base = ps.slave.base
    /\ a.vector \in 32 .. 47 /\ a.lines \subseteq 0 .. 15
    /\ \A b \in Bits :
          /\ b \in a.pics.master.isr <=> b \in ps.master.isr \/ b \in a.lines
          /\ b \in a.pics.slave.isr <=> b \in ps.slave.isr \/ 8 + b \in a.lines
          /\ b \in a.lines => \A s \in a.pics.master.isr : b <= s
          /\ 8 + b \in a.lines => \A s \in a.pics.slave.isr : b <= s
    /\ a.vector \notin {39, 47} => \E b \in Bits : b \in a.lines

\* The processor's acknowledge answers as described, on bases 32 and 40.
LEMMA Acknowledged ==
    ASSUME NEW ps \in Pics, Healthy(ps), ps.master.int = TRUE,
           ps.master.base = 32, ps.slave.base = 40
    PROVE  Answered(IAC(ps), ps)
<1> DEFINE a == IAC(ps)
           m == [ps.master EXCEPT !.int = FALSE]
           m1 == AckedPic(m, "master")
           s == [ps.slave EXCEPT !.int = FALSE]
           mc == [m1 EXCEPT !.in = @ \ {2}]
           q == Service(AckedPic(s, "slave"))
           quiet == [master |-> mc, slave |-> s]
           ps1 == Update(quiet, "slave", q)
<1>1. /\ ps.master \in Pic /\ ps.slave \in Pic
      /\ Sound(ps.master) /\ Sound(ps.slave) /\ Cascade(ps)
  BY DEF Pics, Healthy
<1>2. /\ m.irr = {} => a = [pics |-> [ps EXCEPT !.master = m],
                            vector |-> m.base + 7, lines |-> {}]
      /\ m.irr # {} /\ m.irq # 2 =>
            a = [pics |-> [ps EXCEPT !.master = Service(m1)],
                 vector |-> m.base + m.irq, lines |-> {m.irq}]
      /\ m.irr # {} /\ m.irq = 2 /\ s.irr = {} =>
            a = [pics |-> quiet, vector |-> s.base + 7, lines |-> {2}]
      /\ m.irr # {} /\ m.irq = 2 /\ s.irr # {} =>
            a = [pics |-> [ps1 EXCEPT !.master = Service(@)],
                 vector |-> s.base + s.irq, lines |-> {2, 8 + s.irq}]
  BY Zenon DEF IAC
<1>3. /\ m \in Pic /\ m.int = FALSE /\ m.isr = ps.master.isr
      /\ m.irr = ps.master.irr /\ m.irq = ps.master.irq
      /\ m.icw = ps.master.icw /\ m.base = 32
  BY <1>1, QuietIs
<1>4. /\ s \in Pic /\ s.int = FALSE /\ s.isr = ps.slave.isr
      /\ s.irr = ps.slave.irr /\ s.irq = ps.slave.irq
      /\ s.icw = ps.slave.icw /\ s.base = 40
  BY <1>1, QuietIs
<1> HIDE DEF m, s, a
<1>5. /\ m1 \in Pic /\ m1.isr = m.isr \union {m.irq}
      /\ m1.irr \subseteq m.irr /\ m1.int = FALSE
      /\ m1.icw = m.icw /\ m1.base = m.base
      /\ m.irq = 2 => m1.irr = m.irr \ {2}
  BY <1>3, AckedIs
<1> HIDE DEF m1
<1>6. /\ mc \in Pic /\ mc.isr = m1.isr /\ mc.irr = m1.irr /\ mc.int = FALSE
      /\ mc.icw = m1.icw /\ mc.base = m1.base
  BY <1>5 DEF Pic
<1> HIDE DEF mc
<1>7. /\ m.irq \in Bits /\ s.irq \in Bits /\ m.isr \subseteq Bits
      /\ s.isr \subseteq Bits
      /\ \A y \in m.isr : m.irq < y
      /\ m.irq = 2 => \A y \in s.isr : s.irq < y
  BY <1>1, <1>3, <1>4 DEF Pic, Sound, Cascade
<1>a. CASE m.irr = {}
  <2> DEFINE us == Update(ps, "master", m)
  <2>1. us = [ps EXCEPT !.master = m]
    BY DEF Update
  <2>2. Sound(m)
    BY <1>3 DEF Sound
  <2>3. us \in Pics /\ Healthy(us) /\ us.master = m /\ us.slave = ps.slave
    BY <1>3, <2>2, PutMaster
  <2> HIDE DEF us
  <2>4. a.pics = us /\ a.vector = 39 /\ a.lines = {}
    BY <1>2, <1>3, <1>a, <2>1
  <2>5. Answered(a, ps)
    BY <1>3, <2>3, <2>4 DEF Answered
  <2> QED
    BY <2>5 DEF a
<1>b. CASE m.irr # {} /\ m.irq # 2
  <2> DEFINE p == Service(m1)
             us == Update(ps, "master", p)
  <2>1. us = [ps EXCEPT !.master = p]
    BY DEF Update
  <2>2. Sound(m1)
    BY <1>5 DEF Sound
  <2>3. /\ Like(p, m1) /\ p.irr = m1.irr
        /\ p.int = TRUE => p.irq \in m1.irr
    BY <1>5, ServiceKeeps
  <2>4. /\ p \in Pic /\ Sound(p) /\ p.isr = m1.isr /\ p.icw = m1.icw
        /\ p.base = m1.base /\ p.irr \subseteq ps.master.irr
        /\ p.int = TRUE => p.irq \in p.irr
    BY <1>3, <1>5, <2>2, <2>3 DEF Like
  <2> HIDE DEF p
  <2>5. us \in Pics /\ Healthy(us) /\ us.master = p /\ us.slave = ps.slave
    BY <2>4, PutMaster
  <2> HIDE DEF us
  <2>6. a.pics = us /\ a.vector = 32 + m.irq /\ a.lines = {m.irq}
    BY <1>2, <1>3, <1>b, <2>1 DEF p
  <2>7. a.vector \in 32 .. 47 /\ a.lines \subseteq 0 .. 15
        /\ \E b \in Bits : b \in a.lines
    BY <1>7, <2>6 DEF Bits
  <2>8. \A b \in Bits :
          /\ b \in a.pics.master.isr <=> b \in ps.master.isr \/ b \in a.lines
          /\ b \in a.pics.slave.isr <=> b \in ps.slave.isr \/ 8 + b \in a.lines
          /\ b \in a.lines => \A y \in a.pics.master.isr : b <= y
          /\ 8 + b \in a.lines => \A y \in a.pics.slave.isr : b <= y
    BY <1>3, <1>5, <1>7, <2>4, <2>5, <2>6 DEF Bits
  <2>9. Answered(a, ps)
    BY <1>3, <1>5, <2>4, <2>5, <2>6, <2>7, <2>8 DEF Answered
  <2> QED
    BY <2>9 DEF a
<1>9. m.irq = 2 => quiet \in Pics /\ Healthy(quiet)
  BY <1>4, <1>5, <1>6 DEF Pics, Healthy, Sound, Cascade
<1>10. quiet.master = mc /\ quiet.slave = s
  OBVIOUS
<1> HIDE DEF quiet
<1>c. CASE m.irr # {} /\ m.irq = 2 /\ s.irr = {}
  <2>1. a.pics = quiet /\ a.vector = 47 /\ a.lines = {2}
    BY <1>2, <1>4, <1>c
  <2>2. \A b \in Bits :
          /\ b \in a.pics.master.isr <=> b \in ps.master.isr \/ b \in a.lines
          /\ b \in a.pics.slave.isr <=> b \in ps.slave.isr \/ 8 + b \in a.lines
          /\ b \in a.lines => \A y \in a.pics.master.isr : b <= y
          /\ 8 + b \in a.lines => \A y \in a.pics.slave.isr : b <= y
    BY <1>3, <1>4, <1>5, <1>6, <1>7, <1>10, <1>c, <2>1 DEF Bits
  <2>3. Answered(a, ps)
    BY <1>3, <1>4, <1>5, <1>6, <1>9, <1>10, <1>c, <2>1, <2>2 DEF Answered
  <2> QED
    BY <2>3 DEF a
<1>d. CASE m.irr # {} /\ m.irq = 2 /\ s.irr # {}
  <2> DEFINE r == AckedPic(s, "slave")
             sm == Service(ps1.master)
             us == Update(ps1, "master", sm)
  <2>1. /\ r \in Pic /\ r.isr = s.isr \union {s.irq} /\ r.int = FALSE
        /\ r.icw = s.icw /\ r.base = s.base
    BY <1>4, AckedIs
  <2> HIDE DEF r
  <2>2. Sound(r) /\ Like(Service(r), r)
    BY <2>1, ServiceKeeps DEF Sound
  <2>3. q = Service(r)
    BY DEF r
  <2> HIDE DEF q
  <2>4. /\ q \in Pic /\ Sound(q) /\ q.isr = r.isr
        /\ q.icw = r.icw /\ q.base = r.base
    BY <2>2, <2>3 DEF Like
  <2>5. /\ ps1 \in Pics /\ Healthy(ps1) /\ ps1.slave = q
        /\ Like(ps1.master, mc)
    BY <1>4, <1>9, <1>10, <1>d, <2>4, PutSlave
  <2> HIDE DEF ps1
  <2>6. ps1.master \in Pic /\ Sound(ps1.master)
    BY <2>5 DEF Pics, Healthy
  <2>7. /\ Like(sm, ps1.master) /\ sm.irr = ps1.master.irr
        /\ ps1.master.int = TRUE => sm = ps1.master
        /\ ps1.master.int = FALSE /\ sm.int = TRUE => sm.irq \in ps1.master.irr
    BY <2>6, ServiceKeeps
  <2>8. /\ sm \in Pic /\ Sound(sm) /\ sm.isr = mc.isr /\ sm.icw = mc.icw
        /\ sm.base = mc.base /\ ps1.master.int \in BOOLEAN
    BY <2>5, <2>6, <2>7 DEF Like, Pic
  <2>9. us = [ps1 EXCEPT !.master = Service(@)]
    BY <2>5 DEF Update, Pics
  <2> HIDE DEF sm
  <2>10. us \in Pics /\ Healthy(us) /\ us.master = sm /\ us.slave = q
    BY <2>5, <2>7, <2>8, PutMaster
  <2> HIDE DEF us
  <2>11. a.pics = us /\ a.vector = 40 + s.irq /\ a.lines = {2, 8 + s.irq}
    BY <1>2, <1>4, <1>d, <2>9
  <2>12. a.vector \in 32 .. 47 /\ a.lines \subseteq 0 .. 15
         /\ \E b \in Bits : b \in a.lines
    BY <1>7, <2>11 DEF Bits
  <2>13. \A b \in Bits :
          /\ b \in a.pics.master.isr <=> b \in ps.master.isr \/ b \in a.lines
          /\ b \in a.pics.slave.isr <=> b \in ps.slave.isr \/ 8 + b \in a.lines
    BY <1>3, <1>4, <1>5, <1>6, <1>7, <1>d, <2>1, <2>4, <2>8, <2>10, <2>11
    DEF Bits
  <2>14. \A b \in Bits :
          /\ b \in a.lines => \A y \in a.pics.master.isr : b <= y
          /\ 8 + b \in a.lines => \A y \in a.pics.slave.isr : b <= y
    BY <1>3, <1>4, <1>5, <1>6, <1>7, <1>d, <2>1, <2>4, <2>8, <2>10, <2>11
    DEF Bits
  <2>15. Answered(a, ps)
    BY <1>3, <1>4, <1>5, <1>6, <2>1, <2>4, <2>8, <2>10, <2>11, <2>12, <2>13,
       <2>14
    DEF Answered
  <2> QED
    BY <2>15 DEF a
<1> QED
  BY <1>a, <1>b, <1>c, <1>d

-----------------------------------------------------------------------------
(* The mainline's steps, in order. *)

Steps ==
    [do : {"init_idt", "cli", "load_idt_descriptor", "sti",
           "register_idt_handler", "clear_nic_mask", "write_imask",
           "read_icr", "kernel_halt"}]
    \union [do : {"set_irq_mask", "clear_irq_mask"}, arg : Nat]
    \union [do : {"setup_idt_entries"}, arg : SUBSET Nat]
    \union [do : {"out"}, ctl : Controllers, port : {"command", "data"},
            byte : SUBSET Bits]

\* The elements of two pieces put together.
LEMMA Joined ==
    ASSUME NEW s \in Seq(Steps), NEW t \in Seq(Steps)
    PROVE  /\ s \o t \in Seq(Steps) /\ Len(s \o t) = Len(s) + Len(t)
           /\ \A i \in 1 .. Len(s) : (s \o t)[i] = s[i]
           /\ \A i \in 1 .. Len(t) : (s \o t)[Len(s) + i] = t[i]
  BY ConcatProperties

\* The mainline, step by step: what it does there, and with what.
Does ==
    [i \in 1 .. 41 |->
        IF i = 1 THEN Do("init_idt")
        ELSE IF i = 2 THEN Do("cli")
        ELSE IF i = 3 THEN Out("master", "data", Bits)
        ELSE IF i = 4 THEN Out("slave", "data", Bits)
        ELSE IF i = 5 THEN Out("master", "command", {0, 4})
        ELSE IF i = 6 THEN Out("slave", "command", {0, 4})
        ELSE IF i = 7 THEN Out("master", "data", {5})
        ELSE IF i = 8 THEN Out("slave", "data", {3, 5})
        ELSE IF i = 9 THEN Out("master", "data", {2})
        ELSE IF i = 10 THEN Out("slave", "data", {1})
        ELSE IF i = 11 THEN Out("master", "data", {0})
        ELSE IF i = 12 THEN Out("slave", "data", {0})
        ELSE IF i = 13 THEN Out("master", "data", {})
        ELSE IF i = 14 THEN Out("slave", "data", {})
        ELSE IF i <= 30 THEN DoWith("set_irq_mask", i - 15)
        ELSE IF i = 31 THEN DoWith("setup_idt_entries", 0 .. 31)
        ELSE IF i = 32 THEN DoWith("setup_idt_entries", 32 .. 47)
        ELSE IF i = 33 THEN DoWith("setup_idt_entries", {255})
        ELSE IF i = 34 THEN Do("load_idt_descriptor")
        ELSE IF i = 35 THEN DoWith("clear_irq_mask", 0)
        ELSE IF i = 36 THEN Do("sti")
        ELSE IF i = 37 THEN Do("register_idt_handler")
        ELSE IF i = 38 THEN Do("clear_nic_mask")
        ELSE IF i = 39 THEN Do("write_imask")
        ELSE IF i = 40 THEN Do("read_icr")
        ELSE Do("kernel_halt")]

\* A piece of the mainline: n steps, from the one after the k-th.
At(s, k, n) ==
    /\ s \in Seq(Steps) /\ Len(s) = n
    /\ \A i \in 1 .. n : s[i] = Does[k + i]

\* A piece, then the piece that follows it, is a longer piece.
LEMMA Lengthened ==
    ASSUME NEW k \in Nat, NEW m \in Nat, NEW n \in Nat, NEW s, NEW t,
           At(s, k, m), At(t, k + m, n)
    PROVE  At(s \o t, k, m + n)
<1>1. /\ s \in Seq(Steps) /\ t \in Seq(Steps) /\ Len(s) = m /\ Len(t) = n
      /\ \A i \in 1 .. m : s[i] = Does[k + i]
      /\ \A i \in 1 .. n : t[i] = Does[k + m + i]
  BY DEF At
<1>2. /\ s \o t \in Seq(Steps) /\ Len(s \o t) = m + n
      /\ \A i \in 1 .. m : (s \o t)[i] = s[i]
      /\ \A i \in 1 .. n : (s \o t)[m + i] = t[i]
  BY <1>1, Joined
<1>3. \A i \in 1 .. m + n : (s \o t)[i] = Does[k + i]
  <2> SUFFICES ASSUME NEW i \in 1 .. m + n
               PROVE  (s \o t)[i] = Does[k + i]
    OBVIOUS
  <2>1. CASE i \in 1 .. m
    BY <1>1, <1>2, <2>1
  <2>2. CASE i \notin 1 .. m
    <3>1. PICK j \in 1 .. n : i = m + j
      <4>1. i - m \in 1 .. n /\ i = m + (i - m)
        BY <2>2
      <4> QED
        BY <4>1
    <3>2. k + i = k + m + j
      BY <3>1
    <3> QED
      BY <1>1, <1>2, <3>1, <3>2
  <2> QED
    BY <2>1, <2>2
<1> QED
  BY <1>2, <1>3 DEF At

\* The mainline is made of steps.
LEMMA StepsAre ==
    /\ \A what \in {"init_idt", "cli", "load_idt_descriptor", "sti",
           "register_idt_handler", "clear_nic_mask", "write_imask",
           "read_icr", "kernel_halt"} : Do(what) \in Steps
    /\ \A n \in Nat : /\ DoWith("set_irq_mask", n) \in Steps
                      /\ DoWith("clear_irq_mask", n) \in Steps
    /\ \A S \in SUBSET Nat : DoWith("setup_idt_entries", S) \in Steps
    /\ \A ctl \in Controllers, port \in {"command", "data"},
          byte \in SUBSET Bits : Out(ctl, port, byte) \in Steps
  BY DEF Steps, Do, DoWith, Out

\* A list given by its elements.
LEMMA Tuples ==
    /\ \A a \in Steps : <<a>> \in Seq(Steps) /\ Len(<<a>>) = 1 /\ <<a>>[1] = a
    /\ \A a, b \in Steps :
          /\ <<a, b>> \in Seq(Steps) /\ Len(<<a, b>>) = 2
          /\ <<a, b>>[1] = a /\ <<a, b>>[2] = b
    /\ \A a, b, c \in Steps :
          /\ <<a, b, c>> \in Seq(Steps) /\ Len(<<a, b, c>>) = 3
          /\ <<a, b, c>>[1] = a /\ <<a, b, c>>[2] = b /\ <<a, b, c>>[3] = c
    /\ \A a, b, c, d \in Steps :
          /\ <<a, b, c, d>> \in Seq(Steps) /\ Len(<<a, b, c, d>>) = 4
          /\ <<a, b, c, d>>[1] = a /\ <<a, b, c, d>>[2] = b
          /\ <<a, b, c, d>>[3] = c /\ <<a, b, c, d>>[4] = d
  OBVIOUS

\* The same, one step at a time.
LEMMA MainlineDoes ==
    /\ Does[1] = Do("init_idt") /\ Does[2] = Do("cli")
    /\ Does[3] = Out("master", "data", Bits)
    /\ Does[4] = Out("slave", "data", Bits)
    /\ Does[5] = Out("master", "command", {0, 4})
    /\ Does[6] = Out("slave", "command", {0, 4})
    /\ Does[7] = Out("master", "data", {5})
    /\ Does[8] = Out("slave", "data", {3, 5})
    /\ Does[9] = Out("master", "data", {2})
    /\ Does[10] = Out("slave", "data", {1})
    /\ Does[11] = Out("master", "data", {0})
    /\ Does[12] = Out("slave", "data", {0})
    /\ Does[13] = Out("master", "data", {})
    /\ Does[14] = Out("slave", "data", {})
    /\ \A i \in 15 .. 30 : Does[i] = DoWith("set_irq_mask", i - 15)
    /\ Does[31] = DoWith("setup_idt_entries", 0 .. 31)
    /\ Does[32] = DoWith("setup_idt_entries", 32 .. 47)
    /\ Does[33] = DoWith("setup_idt_entries", {255})
    /\ Does[34] = Do("load_idt_descriptor")
    /\ Does[35] = DoWith("clear_irq_mask", 0) /\ Does[36] = Do("sti")
    /\ Does[37] = Do("register_idt_handler")
    /\ Does[38] = Do("clear_nic_mask") /\ Does[39] = Do("write_imask")
    /\ Does[40] = Do("read_icr") /\ Does[41] = Do("kernel_halt")
<1>1. /\ Does[1] = Do("init_idt") /\ Does[2] = Do("cli")
      /\ Does[3] = Out("master", "data", Bits)
      /\ Does[4] = Out("slave", "data", Bits)
      /\ Does[5] = Out("master", "command", {0, 4})
      /\ Does[6] = Out("slave", "command", {0, 4})
      /\ Does[7] = Out("master", "data", {5})
      /\ Does[8] = Out("slave", "data", {3, 5})
  BY DEF Does
<1>2. /\ Does[9] = Out("master", "data", {2})
      /\ Does[10] = Out("slave", "data", {1})
      /\ Does[11] = Out("master", "data", {0})
      /\ Does[12] = Out("slave", "data", {0})
      /\ Does[13] = Out("master", "data", {})
      /\ Does[14] = Out("slave", "data", {})
  BY DEF Does
<1>3. \A i \in 15 .. 30 : Does[i] = DoWith("set_irq_mask", i - 15)
  BY DEF Does
<1>4. /\ Does[31] = DoWith("setup_idt_entries", 0 .. 31)
      /\ Does[32] = DoWith("setup_idt_entries", 32 .. 47)
      /\ Does[33] = DoWith("setup_idt_entries", {255})
      /\ Does[34] = Do("load_idt_descriptor")
      /\ Does[35] = DoWith("clear_irq_mask", 0) /\ Does[36] = Do("sti")
  BY DEF Does
<1>5. /\ Does[37] = Do("register_idt_handler")
      /\ Does[38] = Do("clear_nic_mask") /\ Does[39] = Do("write_imask")
      /\ Does[40] = Do("read_icr") /\ Does[41] = Do("kernel_halt")
  BY DEF Does
<1> QED
  BY <1>1, <1>2, <1>3, <1>4, <1>5

\* The pieces the mainline is written in.
LEMMA PiecesAre ==
    /\ At(<<Do("init_idt")>>, 0, 1) /\ At(<<Do("cli")>>, 1, 1)
    /\ At(OutBoth("data", Bits), 2, 2)
    /\ At(OutBoth("command", {0, 4}), 4, 2)
    /\ At(<<Out("master", "data", {5}), Out("slave", "data", {3, 5}),
           Out("master", "data", {2}), Out("slave", "data", {1})>>, 6, 4)
    /\ At(OutBoth("data", {0}), 10, 2) /\ At(OutBoth("data", {}), 12, 2)
    /\ At(SetMasks, 14, 16)
    /\ At(SetupEntries, 30, 3)
    /\ At(<<Do("load_idt_descriptor"), DoWith("clear_irq_mask", 0),
           Do("sti")>>, 33, 3)
    /\ At(e1000_enable_interrupts, 36, 4)
    /\ At(<<Do("kernel_halt")>>, 40, 1)
<1>1. /\ \A n \in {1, 2, 34, 36, 37, 38, 39, 40, 41} : Does[n] \in Steps
      /\ \A n \in 3 .. 14 : Does[n] \in Steps
      /\ \A n \in 31 .. 33 : Does[n] \in Steps
      /\ Does[35] \in Steps
  BY MainlineDoes, StepsAre DEF Bits, Controllers
<1>2. \A k \in 0 .. 40 : Does[k + 1] \in Steps => At(<<Does[k + 1]>>, k, 1)
  BY Tuples DEF At
<1>3. \A k \in 0 .. 39 :
        Does[k + 1] \in Steps /\ Does[k + 2] \in Steps
            => At(<<Does[k + 1], Does[k + 2]>>, k, 2)
  BY Tuples DEF At
<1>4. \A k \in 0 .. 38 :
        Does[k + 1] \in Steps /\ Does[k + 2] \in Steps /\ Does[k + 3] \in Steps
            => At(<<Does[k + 1], Does[k + 2], Does[k + 3]>>, k, 3)
  BY Tuples DEF At
<1>5. ASSUME NEW k \in 0 .. 37, NEW a \in Steps, NEW b \in Steps,
             NEW c \in Steps, NEW d \in Steps,
             a = Does[k + 1], b = Does[k + 2], c = Does[k + 3], d = Does[k + 4]
      PROVE  At(<<a, b, c, d>>, k, 4)
  <2> DEFINE t == <<a, b, c, d>>
  <2>1. /\ t \in Seq(Steps) /\ Len(t) = 4
        /\ t[1] = a /\ t[2] = b /\ t[3] = c /\ t[4] = d
    BY Tuples
  <2> HIDE DEF t
  <2>2. \A i \in 1 .. 4 : t[i] = Does[k + i]
    BY <1>5, <2>1
  <2>3. At(t, k, 4)
    BY <2>1, <2>2 DEF At
  <2> QED
    BY <2>3 DEF t
<1>6. /\ At(<<Does[1]>>, 0, 1) /\ At(<<Does[2]>>, 1, 1)
      /\ At(<<Does[41]>>, 40, 1)
  BY <1>1, <1>2
<1>7. /\ At(<<Does[3], Does[4]>>, 2, 2) /\ At(<<Does[5], Does[6]>>, 4, 2)
      /\ At(<<Does[11], Does[12]>>, 10, 2) /\ At(<<Does[13], Does[14]>>, 12, 2)
  BY <1>1, <1>3
<1>8. /\ At(<<Does[31], Does[32], Does[33]>>, 30, 3)
      /\ At(<<Does[34], Does[35], Does[36]>>, 33, 3)
  BY <1>1, <1>4
<1>9. /\ At(<<Does[7], Does[8], Does[9], Does[10]>>, 6, 4)
      /\ At(<<Does[37], Does[38], Does[39], Does[40]>>, 36, 4)
  <2>1. At(<<Does[7], Does[8], Does[9], Does[10]>>, 6, 4)
    <3>1. /\ Does[7] = Does[6 + 1] /\ Does[8] = Does[6 + 2]
          /\ Does[9] = Does[6 + 3] /\ Does[10] = Does[6 + 4]
      OBVIOUS
    <3>2. /\ Does[7] \in Steps /\ Does[8] \in Steps
          /\ Does[9] \in Steps /\ Does[10] \in Steps
      BY <1>1
    <3>3. 6 \in 0 .. 37
      OBVIOUS
    <3> QED
      BY ONLY <3>1, <3>2, <3>3, <1>5, Zenon
  <2>2. At(<<Does[37], Does[38], Does[39], Does[40]>>, 36, 4)
    <3>1. /\ Does[37] = Does[36 + 1] /\ Does[38] = Does[36 + 2]
          /\ Does[39] = Does[36 + 3] /\ Does[40] = Does[36 + 4]
      OBVIOUS
    <3>2. /\ Does[37] \in Steps /\ Does[38] \in Steps
          /\ Does[39] \in Steps /\ Does[40] \in Steps
      BY <1>1
    <3>3. 36 \in 0 .. 37
      OBVIOUS
    <3> QED
      BY ONLY <3>1, <3>2, <3>3, <1>5, Zenon
  <2> QED
    BY <2>1, <2>2
<1>10. At(SetMasks, 14, 16)
  <2>1. SetMasks = [i \in 1 .. 16 |-> DoWith("set_irq_mask", i - 1)]
    BY DEF SetMasks
  <2>2. \A i \in 1 .. 16 : SetMasks[i] \in Steps
    BY <2>1, StepsAre
  <2>3. SetMasks \in Seq(Steps) /\ Len(SetMasks) = 16
    BY <2>1, <2>2
  <2>4. \A i \in 1 .. 16 : SetMasks[i] = Does[14 + i]
    BY <2>1, MainlineDoes
  <2> QED
    BY <2>3, <2>4 DEF At
<1> QED
  BY <1>6, <1>7, <1>8, <1>9, <1>10, MainlineDoes
  DEF OutBoth, SetupEntries, e1000_enable_interrupts

\* The program the module states, piece by piece, is the one listed here.
LEMMA ProgramIs == At(Program, 0, 41)
<1>1. At(configure_pic, 2, 12)
  <2> DEFINE a == OutBoth("data", Bits)
             b == OutBoth("command", {0, 4})
             c == <<Out("master", "data", {5}), Out("slave", "data", {3, 5}),
                    Out("master", "data", {2}), Out("slave", "data", {1})>>
             d == OutBoth("data", {0})
             e == OutBoth("data", {})
  <2>1. configure_pic = a \o b \o c \o d \o e
    BY DEF configure_pic
  <2>2. At(a, 2, 2) /\ At(b, 4, 2) /\ At(c, 6, 4) /\ At(d, 10, 2)
        /\ At(e, 12, 2)
    BY PiecesAre
  <2> HIDE DEF a, b, c, d, e
  <2>3. At(a \o b, 2, 4)
    BY <2>2, Lengthened
  <2>4. At((a \o b) \o c, 2, 8)
    BY <2>2, <2>3, Lengthened
  <2>5. At(((a \o b) \o c) \o d, 2, 10)
    BY <2>2, <2>4, Lengthened
  <2>6. At((((a \o b) \o c) \o d) \o e, 2, 12)
    BY <2>2, <2>5, Lengthened
  <2> QED
    BY <2>1, <2>6
<1>2. At(setup_idt, 1, 35)
  <2> DEFINE a == <<Do("cli")>>
             e == <<Do("load_idt_descriptor"), DoWith("clear_irq_mask", 0),
                    Do("sti")>>
  <2>1. setup_idt = a \o configure_pic \o SetMasks \o SetupEntries \o e
    BY DEF setup_idt
  <2>2. At(a, 1, 1) /\ At(SetMasks, 14, 16) /\ At(SetupEntries, 30, 3)
        /\ At(e, 33, 3)
    BY PiecesAre
  <2> HIDE DEF a, e
  <2>3. At(a \o configure_pic, 1, 13)
    BY <1>1, <2>2, Lengthened
  <2>4. At((a \o configure_pic) \o SetMasks, 1, 29)
    BY <2>2, <2>3, Lengthened
  <2>5. At(((a \o configure_pic) \o SetMasks) \o SetupEntries, 1, 32)
    BY <2>2, <2>4, Lengthened
  <2>6. At((((a \o configure_pic) \o SetMasks) \o SetupEntries) \o e, 1, 35)
    BY <2>2, <2>5, Lengthened
  <2> QED
    BY <2>1, <2>6
<1> DEFINE a == <<Do("init_idt")>>
           e == <<Do("kernel_halt")>>
<1>3. Program = a \o setup_idt \o e1000_enable_interrupts \o e
  BY DEF Program
<1>4. At(a, 0, 1) /\ At(e1000_enable_interrupts, 36, 4) /\ At(e, 40, 1)
  BY PiecesAre
<1> HIDE DEF a, e
<1>5. At(a \o setup_idt, 0, 36)
  BY <1>2, <1>4, Lengthened
<1>6. At((a \o setup_idt) \o e1000_enable_interrupts, 0, 40)
  BY <1>4, <1>5, Lengthened
<1>7. At(((a \o setup_idt) \o e1000_enable_interrupts) \o e, 0, 41)
  BY <1>4, <1>6, Lengthened
<1> QED
  BY <1>3, <1>7

\* The mainline has 41 steps; where each kind of step is, and what it is with.
LEMMA ProgramText ==
    /\ Halted = 41
    /\ \A i \in 1 .. 41 : Program[i] = Does[i]
<1>1. Len(Program) = 41 /\ \A i \in 1 .. 41 : Program[i] = Does[0 + i]
  BY ProgramIs DEF At
<1> QED
  BY <1>1 DEF Halted

\* What a step does tells where the mainline is.
LEMMA WhereIs ==
    ASSUME pc \in 1 .. 41
    PROVE  /\ Program[pc].do = "init_idt" => pc = 1
           /\ Program[pc].do = "cli" => pc = 2
           /\ Program[pc].do = "out" => pc \in 3 .. 14
           /\ Program[pc].do = "set_irq_mask"
                => pc \in 15 .. 30 /\ Program[pc].arg = pc - 15
           /\ Program[pc].do = "setup_idt_entries" => pc \in 31 .. 33
           /\ Program[pc].do = "load_idt_descriptor" => pc = 34
           /\ Program[pc].do = "clear_irq_mask"
                => pc = 35 /\ Program[pc].arg = 0
           /\ Program[pc].do = "sti" => pc = 36
           /\ Program[pc].do = "register_idt_handler" => pc = 37
           /\ Program[pc].do = "clear_nic_mask" => pc = 38
           /\ Program[pc].do = "write_imask" => pc = 39
           /\ Program[pc].do = "read_icr" => pc = 40
<1>1. Program[pc] = Does[pc]
  BY ProgramText
<1>2. /\ \A i \in 3 .. 14 : Does[i].do = "out"
      /\ \A i \in 15 .. 30 :
            Does[i].do = "set_irq_mask" /\ Does[i].arg = i - 15
      /\ \A i \in 31 .. 33 : Does[i].do = "setup_idt_entries"
      /\ Does[1].do = "init_idt" /\ Does[2].do = "cli"
      /\ Does[34].do = "load_idt_descriptor"
      /\ Does[35].do = "clear_irq_mask" /\ Does[35].arg = 0
      /\ Does[36].do = "sti" /\ Does[37].do = "register_idt_handler"
      /\ Does[38].do = "clear_nic_mask" /\ Does[39].do = "write_imask"
      /\ Does[40].do = "read_icr" /\ Does[41].do = "kernel_halt"
  BY MainlineDoes DEF Do, DoWith, Out
<1>3. CASE pc \in 3 .. 14
  BY <1>1, <1>2, <1>3
<1>4. CASE pc \in 15 .. 30
  BY <1>1, <1>2, <1>4
<1>5. CASE pc \in 31 .. 33
  BY <1>1, <1>2, <1>5
<1>6. CASE pc \in {1, 2} \union 34 .. 41
  BY <1>1, <1>2, <1>6
<1> QED
  BY <1>3, <1>4, <1>5, <1>6

-----------------------------------------------------------------------------
(* The frames. *)

\* There is no frame, or one, which is then the running one.
LEMMA FramesAre ==
    ASSUME IInv
    PROVE  /\ Len(frames) \in {0, 1}
           /\ InMainline <=> Len(frames) = 0
           /\ Len(frames) = 1 => Top = frames[1] /\ frames[1] \in Frame
           /\ \A place : Running(place)
                <=> Len(frames) = 1 /\ frames[1].at = place
<1>1. frames \in Seq(Frame) /\ Len(frames) <= 1
  BY DEF IInv, TypeOK, FramesHere
<1>2. Len(frames) \in {0, 1} /\ (frames = <<>> <=> Len(frames) = 0)
  <2>1. Len(frames) \in Nat
    BY <1>1, LenProperties
  <2>2. frames # <<>> => Len(frames) \in Nat \ {0}
    BY <1>1, EmptySeq
  <2>3. frames = <<>> => Len(frames) = 0
    BY EmptySeq
  <2>4. Len(frames) \in {0, 1}
    <3>1. \A n \in Nat : n <= 1 => n \in {0, 1}
      OBVIOUS
    <3>2. Len(frames) <= 1
      BY <1>1
    <3> QED
      BY ONLY <2>1, <3>1, <3>2
  <2>5. Len(frames) = 0 => frames = <<>>
    BY <2>2
  <2> QED
    BY <2>3, <2>4, <2>5, Zenon
<1>3. Len(frames) = 1 => frames[1] \in Frame
  BY <1>1
<1> QED
  BY <1>2, <1>3 DEF InMainline, Top, Running

\* Entering a gate makes one frame, in its stub if the gate is there.
LEMMA EnterEffect ==
    ASSUME frames = <<>>, NEW v \in 0 .. 255, NEW e \in BOOLEAN,
           NEW L \in SUBSET (0 .. 15), iflag \in BOOLEAN, sp \in Int,
           Enter(v, e, L)
    PROVE  /\ frames' \in Seq(Frame) /\ Len(frames') = 1
           /\ frames'[1].vector = v /\ frames'[1].exception = e
           /\ frames'[1].lines = L /\ frames'[1].if = iflag
           /\ idtr /\ v \in idt => frames'[1].at = "stub"
           /\ iflag' = FALSE /\ sp' \in Int
<1> DEFINE at == IF idtr /\ v \in idt THEN "stub" ELSE "crash"
           f == [vector |-> v, exception |-> e, lines |-> L, if |-> iflag,
                 at |-> at]
<1>1. at \in Places /\ (idtr /\ v \in idt => at = "stub")
  BY DEF Places
<1>2. frames' = Append(<<>>, f) /\ iflag' = FALSE
  BY DEF Enter
<1> HIDE DEF at
<1>3. f \in Frame
  BY <1>1 DEF Frame
<1>4. /\ f.vector = v /\ f.exception = e /\ f.lines = L /\ f.if = iflag
      /\ f.at = at
  OBVIOUS
<1> HIDE DEF f
<1>5. frames' \in Seq(Frame) /\ Len(frames') = 1 /\ frames'[1] = f
  BY <1>2, <1>3
<1>6. sp' \in Int
  BY DEF Enter, Pushed
<1> QED
  BY <1>1, <1>2, <1>4, <1>5, <1>6

\* Moving on in a stub changes where the frame is, nothing else.
LEMMA GotoEffect ==
    ASSUME frames \in Seq(Frame), Len(frames) = 1, NEW place \in Places,
           Goto(place)
    PROVE  /\ frames' \in Seq(Frame) /\ Len(frames') = 1
           /\ frames'[1].at = place
           /\ frames'[1].vector = frames[1].vector
           /\ frames'[1].exception = frames[1].exception
           /\ frames'[1].lines = frames[1].lines
           /\ frames'[1].if = frames[1].if
<1> DEFINE f == [frames[1] EXCEPT !.at = place]
<1>1. frames[1] \in Frame
  OBVIOUS
<1>2. /\ f \in Frame /\ f.at = place /\ f.vector = frames[1].vector
      /\ f.exception = frames[1].exception /\ f.lines = frames[1].lines
      /\ f.if = frames[1].if
  BY <1>1 DEF Frame
<1>3. frames' = [frames EXCEPT ![1] = f]
  BY DEF Goto
<1> HIDE DEF f
<1>4. frames' \in Seq(Frame) /\ Len(frames') = 1 /\ frames'[1] = f
  BY SMTT(30), <1>2, <1>3, ExceptSeq
<1> QED
  BY <1>2, <1>4

\* The lines in service, at either controller.
LEMMA ServiceIs ==
    /\ \A x : x \in InService
          <=> x \in pics.master.isr \/ \E b \in pics.slave.isr : x = 8 + b
    /\ \A x : x \in InService'
          <=> x \in pics'.master.isr \/ \E b \in pics'.slave.isr : x = 8 + b
  BY DEF InService

-----------------------------------------------------------------------------
(* What the steps keep. *)

\* Steps that move lines, causes and the card's mask only.
LEMMA CalmKeeps ==
    ASSUME IInv, Calm(pics', pics), nic'.line = nic.line,
           nic' \in [line : NicLines, icr : BOOLEAN, imask : BOOLEAN],
           UNCHANGED <<pc, iflag, cpuVars, split, frames, sp, neglected>>,
           events' \in 0 .. MaxEvents
    PROVE  IInv'
<1>1. pics' \in Pics /\ Healthy(pics')
  BY CalmHealthy DEF Calm, IInv, PicsHere
<1>2. /\ pics'.master.isr = pics.master.isr /\ pics'.slave.isr = pics.slave.isr
      /\ pics'.master.icw = pics.master.icw /\ pics'.slave.icw = pics.slave.icw
      /\ pics'.master.base = pics.master.base
      /\ pics'.slave.base = pics.slave.base
      /\ Asleep(pics.master) => Asleep(pics'.master)
      /\ Asleep(pics.slave) => Asleep(pics'.slave)
  BY DEF Calm, Like, Asleep
<1>3. InService' = InService
  BY <1>2 DEF InService
<1>4. TypeOK'
  BY <1>1 DEF IInv, TypeOK, Pics, cpuVars
<1>5. PicsHere'
  BY <1>1 DEF PicsHere
<1>6. SetUpHere'
  BY <1>2 DEF IInv, SetUpHere
<1>7. TablesHere'
  BY DEF IInv, TablesHere, cpuVars
<1>8. FramesHere'
  <2>1. Owes(frames[1]) => Owes(frames[1])'
    BY <1>2, <1>3 DEF Owes
  <2> QED
    BY <1>3, <2>1 DEF IInv, FramesHere
<1> QED
  BY <1>4, <1>5, <1>6, <1>7, <1>8 DEF IInv

\* Steps of the mainline.
LEMMA MainKeeps ==
    ASSUME IInv, InMainline, pc' = pc + 1, pc <= 40, iflag' \in BOOLEAN,
           UNCHANGED <<split, frames, sp, neglected, events, nic>>,
           pics' \in Pics, Healthy(pics'),
           pics'.master.isr \subseteq pics.master.isr,
           pics'.slave.isr \subseteq pics.slave.isr,
           SetUpHere', TablesHere',
           idt' \subseteq 0 .. 255, idtr' \in BOOLEAN, junk' \in BOOLEAN,
           registered' \subseteq 0 .. 255
    PROVE  IInv'
<1>1. InService' \subseteq InService
  BY ServiceIs
<1>2. TypeOK'
  <2>1. pc' \in 1 .. Halted
    BY ProgramText DEF IInv, TypeOK
  <2> QED
    BY <2>1 DEF IInv, TypeOK, Pics
<1>3. FramesHere'
  <2>1. Len(frames) = 0 /\ InService \subseteq neglected
    BY FramesAre DEF IInv, FramesHere
  <2>2. Len(frames') = 0 /\ InService' \subseteq neglected'
    BY <1>1, <2>1
  <2> QED
    BY <2>2 DEF FramesHere
<1> QED
  BY <1>2, <1>3 DEF IInv, PicsHere

\* The controllers stay set up when nothing is written to them.
LEMMA SetUpStays ==
    ASSUME IInv, pc' = pc + 1, pc \in {1, 2} \/ pc >= 13,
           UNCHANGED pics
    PROVE  SetUpHere' /\ pics' \in Pics /\ Healthy(pics')
<1>1. pc \in 1 .. 41
  BY ProgramText DEF IInv, TypeOK
<1>2. SetUpHere'
  BY <1>1 DEF IInv, SetUpHere
<1> QED
  BY <1>2 DEF IInv, TypeOK, Pics, PicsHere

\* A mask set after the initialisation.
LEMMA WriteKeeps ==
    ASSUME IInv, pc >= 13, NEW line \in 0 .. 15, NEW byte \in SUBSET Bits,
           pics' = WriteMask(line, byte), pc' = pc + 1
    PROVE  /\ SetUpHere' /\ pics' \in Pics /\ Healthy(pics')
           /\ pics'.master.isr = pics.master.isr
           /\ pics'.slave.isr = pics.slave.isr
<1>1. pc \in 1 .. 41 /\ pics \in Pics /\ Healthy(pics)
  BY ProgramText DEF IInv, TypeOK, Pics, PicsHere
<1>2. pics.master.icw = 0 /\ pics.slave.icw = 0
  BY <1>1 DEF IInv, SetUpHere
<1>3. CASE ~split
  <2>1. pics' = pics
    BY <1>3 DEF WriteMask
  <2> QED
    BY <2>1, SetUpStays
<1>4. CASE split /\ Controller(line) = "master"
  <2>1. pics' = OutData(pics, "master", byte)
    BY <1>4 DEF WriteMask
  <2>2. /\ pics' \in Pics /\ Healthy(pics')
        /\ pics'.master.isr = pics.master.isr /\ pics'.master.icw = 0
        /\ pics'.master.base = pics.master.base /\ pics'.slave = pics.slave
    BY ONLY <1>1, <1>2, <2>1, MasterMask
  <2>3. SetUpHere'
    BY <1>1, <1>2, <2>2 DEF IInv, SetUpHere
  <2> QED
    BY <2>2, <2>3
<1>5. CASE split /\ Controller(line) = "slave"
  <2>1. pics' = OutData(pics, "slave", byte)
    BY <1>5 DEF WriteMask
  <2>2. /\ pics' \in Pics /\ Healthy(pics')
        /\ pics'.slave.isr = pics.slave.isr /\ pics'.slave.icw = 0
        /\ pics'.slave.base = pics.slave.base
        /\ Like(pics'.master, pics.master)
    BY ONLY <1>1, <1>2, <2>1, SlaveMask
  <2>3. /\ pics'.master.isr = pics.master.isr
        /\ pics'.master.icw = pics.master.icw
        /\ pics'.master.base = pics.master.base
    BY <2>2 DEF Like
  <2>4. SetUpHere'
    BY <1>1, <1>2, <2>2, <2>3 DEF IInv, SetUpHere
  <2> QED
    BY <2>2, <2>3, <2>4
<1> QED
  BY <1>3, <1>4, <1>5, LinesAre DEF Controllers

-----------------------------------------------------------------------------
(* One lemma per action. *)

\* The stage starts with both controllers asleep and no frame.
LEMMA Initially == Init => IInv
<1> SUFFICES ASSUME Init PROVE IInv
  OBVIOUS
<1>1. PICK up \in SUBSET DeviceLines :
         LET p(ctl, base) ==
                LET on == {l % 8 : l \in {l \in up : Controller(l) = ctl}}
                IN [in |-> on, irr |-> on, imr |-> Bits, isr |-> {},
                    int |-> FALSE, irq |-> 0, icw |-> 0, base |-> base]
         IN pics = [master |-> p("master", 8), slave |-> p("slave", 112)]
  BY Zenon DEF Init
<1> DEFINE on(ctl) == {l % 8 : l \in {l \in up : Controller(l) = ctl}}
<1>2. on("master") \subseteq Bits /\ on("slave") \subseteq Bits
      /\ 2 \notin on("master")
  BY LinesAre, DeviceLinesAre
<1>3. /\ pics.master = [in |-> on("master"), irr |-> on("master"),
                        imr |-> Bits, isr |-> {}, int |-> FALSE, irq |-> 0,
                        icw |-> 0, base |-> 8]
      /\ pics.slave = [in |-> on("slave"), irr |-> on("slave"),
                       imr |-> Bits, isr |-> {}, int |-> FALSE, irq |-> 0,
                       icw |-> 0, base |-> 112]
      /\ pics = [master |-> pics.master, slave |-> pics.slave]
  BY <1>1
<1> HIDE DEF on
<1>4. /\ pics.master \in Pic /\ pics.slave \in Pic
      /\ pics.master.irr = on("master") /\ pics.master.isr = {}
      /\ pics.slave.isr = {} /\ pics.master.int = FALSE
      /\ pics.slave.int = FALSE /\ pics.master.imr = Bits
      /\ pics.slave.imr = Bits /\ pics.master.icw = 0 /\ pics.slave.icw = 0
  BY <1>2, <1>3 DEF Pic, Bits
<1>5. pics \in [master : Pic, slave : Pic]
  BY <1>3, <1>4
<1>6. frames \in Seq(Frame) /\ Len(frames) = 0
  BY DEF Init
<1>7. nic \in [line : NicLines, icr : BOOLEAN, imask : BOOLEAN]
  BY DEF Init
<1>8. TypeOK
  <2>1. pc \in 1 .. Halted
    BY ProgramText DEF Init
  <2>2. events \in 0 .. MaxEvents
    BY MaxEventsAssumption DEF Init
  <2>3. iflag \in BOOLEAN /\ idtr \in BOOLEAN /\ junk \in BOOLEAN
        /\ split \in BOOLEAN
    BY Zenon DEF Init
  <2>4. /\ idt \subseteq 0 .. 255 /\ registered \subseteq 0 .. 255
        /\ sp \in Int /\ neglected \subseteq 0 .. 15
    BY DEF Init
  <2> QED
    BY <1>5, <1>6, <1>7, <2>1, <2>2, <2>3, <2>4 DEF TypeOK
<1>9. PicsHere
  BY <1>2, <1>4 DEF PicsHere, Healthy, Sound, Cascade
<1>10. SetUpHere
  BY <1>4 DEF Init, SetUpHere, Asleep
<1>11. TablesHere
  BY DEF Init, TablesHere
<1>12. FramesHere
  BY <1>4, <1>6 DEF FramesHere, InService
<1> QED
  BY <1>8, <1>9, <1>10, <1>11, <1>12 DEF IInv

\* init_idt, cli, sti, and the steps that build the tables.
LEMMA TableStep ==
    ASSUME IInv, \/ InitIdt \/ Cli \/ Sti \/ SetupIdtEntries
                 \/ LoadIdtDescriptor \/ RegisterIdtHandler
    PROVE  IInv'
<1>1. /\ pc \in 1 .. 41 /\ iflag \in BOOLEAN /\ idtr \in BOOLEAN
      /\ junk \in BOOLEAN /\ idt \subseteq 0 .. 255
      /\ registered \subseteq 0 .. 255 /\ nic.line \in 0 .. 15
  BY ProgramText, DeviceLinesAre DEF IInv, TypeOK
<1>2. CASE InitIdt
  <2>1. pc = 1 /\ pc' = pc + 1 /\ UNCHANGED pics /\ InMainline
    BY <1>1, <1>2, WhereIs DEF InitIdt, Step
  <2>2. SetUpHere' /\ pics' \in Pics /\ Healthy(pics')
    BY <2>1, SetUpStays
  <2>3. TablesHere'
    BY <1>2, <2>1 DEF InitIdt, IInv, TablesHere
  <2>4. /\ idt' \subseteq 0 .. 255 /\ registered' \subseteq 0 .. 255
        /\ UNCHANGED <<iflag, idtr, split, frames, sp, neglected, events, nic>>
    BY <1>2 DEF InitIdt
  <2>5. junk' \in BOOLEAN
    BY <1>2, Zenon DEF InitIdt
  <2> QED
    BY <1>1, <2>1, <2>2, <2>3, <2>4, <2>5, MainKeeps
<1>3. CASE Cli
  <2>1. pc = 2 /\ pc' = pc + 1 /\ UNCHANGED pics /\ InMainline
    BY <1>1, <1>3, WhereIs DEF Cli, Step
  <2>2. SetUpHere' /\ pics' \in Pics /\ Healthy(pics')
    BY <2>1, SetUpStays
  <2>3. TablesHere'
    BY <1>3, <2>1 DEF Cli, IInv, TablesHere, cpuVars
  <2>4. iflag' \in BOOLEAN
    BY <1>3, Zenon DEF Cli
  <2>5. UNCHANGED <<cpuVars, split, frames, sp, neglected, events, nic>>
    BY <1>3 DEF Cli
  <2> QED
    BY <1>1, <2>1, <2>2, <2>3, <2>4, <2>5, MainKeeps DEF cpuVars
<1>4. CASE Sti
  <2>1. pc = 36 /\ pc' = pc + 1 /\ UNCHANGED pics /\ InMainline
    BY <1>1, <1>4, WhereIs DEF Sti, Step
  <2>2. SetUpHere' /\ pics' \in Pics /\ Healthy(pics')
    BY <2>1, SetUpStays
  <2>3. TablesHere'
    BY <1>4, <2>1 DEF Sti, IInv, TablesHere, cpuVars
  <2> QED
    BY <1>1, <1>4, <2>1, <2>2, <2>3, MainKeeps DEF Sti, cpuVars
<1>5. CASE SetupIdtEntries
  <2>1. pc \in 31 .. 33 /\ pc' = pc + 1 /\ UNCHANGED pics /\ InMainline
    BY <1>1, <1>5, WhereIs DEF SetupIdtEntries, Step
  <2>2. /\ pc = 31 => Program[pc].arg = 0 .. 31
        /\ pc = 32 => Program[pc].arg = 32 .. 47
        /\ pc = 33 => Program[pc].arg = {255}
    BY <2>1, ProgramText, MainlineDoes DEF DoWith
  <2>3. idt' = idt \union Program[pc].arg
    BY <1>5 DEF SetupIdtEntries
  <2>4. SetUpHere' /\ pics' \in Pics /\ Healthy(pics')
    BY <2>1, SetUpStays
  <2>5. TablesHere'
    <3>1. /\ junk' = junk /\ idtr' = idtr /\ iflag' = iflag
          /\ registered' = registered /\ nic' = nic
      BY <1>5 DEF SetupIdtEntries
    <3>2. pc' >= 33 => 0 .. 47 \subseteq idt'
      <4>1. pc' >= 33 => pc = 32 \/ pc = 33
        BY <2>1
      <4>2. CASE pc = 33
        BY <2>3, <4>2 DEF IInv, TablesHere
      <4>3. CASE pc = 32
        <5>1. 0 .. 31 \subseteq idt
          BY <4>3 DEF IInv, TablesHere
        <5>2. idt' = idt \union 32 .. 47
          BY <2>2, <2>3, <4>3
        <5> QED
          BY <5>1, <5>2
      <4> QED
        BY <4>1, <4>2, <4>3
    <3>3. pc' >= 32 => 0 .. 31 \subseteq idt'
      <4>1. CASE pc = 31
        BY <2>2, <2>3, <4>1
      <4>2. CASE pc # 31
        BY <2>1, <2>3, <4>2 DEF IInv, TablesHere
      <4> QED
        BY <4>1, <4>2
    <3> QED
      BY <2>1, <3>1, <3>2, <3>3 DEF IInv, TablesHere
  <2>6. idt' \subseteq 0 .. 255
    <3>1. Program[pc].arg \subseteq 0 .. 255
      BY <2>1, <2>2
    <3> QED
      BY <1>1, <2>3, <3>1
  <2> QED
    BY <1>1, <1>5, <2>1, <2>4, <2>5, <2>6, MainKeeps DEF SetupIdtEntries
<1>6. CASE LoadIdtDescriptor
  <2>1. pc = 34 /\ pc' = pc + 1 /\ UNCHANGED pics /\ InMainline
    BY <1>1, <1>6, WhereIs DEF LoadIdtDescriptor, Step
  <2>2. SetUpHere' /\ pics' \in Pics /\ Healthy(pics')
    BY <2>1, SetUpStays
  <2>3. TablesHere'
    BY <1>6, <2>1 DEF LoadIdtDescriptor, IInv, TablesHere
  <2> QED
    BY <1>1, <1>6, <2>1, <2>2, <2>3, MainKeeps DEF LoadIdtDescriptor
<1>7. CASE RegisterIdtHandler
  <2>1. pc = 37 /\ pc' = pc + 1 /\ UNCHANGED pics /\ InMainline
    BY <1>1, <1>7, WhereIs DEF RegisterIdtHandler, Step
  <2>2. SetUpHere' /\ pics' \in Pics /\ Healthy(pics')
    BY <2>1, SetUpStays
  <2>3. /\ registered' = registered \union {nic.line + 32}
        /\ UNCHANGED <<iflag, idt, idtr, junk, nic>>
    BY <1>7 DEF RegisterIdtHandler
  <2>4. TablesHere'
    <3>1. registered' \subseteq {nic'.line + 32}
      BY <2>3 DEF IInv, TablesHere
    <3> QED
      BY <2>1, <2>3, <3>1 DEF IInv, TablesHere
  <2>5. registered' \subseteq 0 .. 255
    <3>1. nic.line + 32 \in 0 .. 255
      BY <1>1
    <3> QED
      BY ZenonT(30), <1>1, <2>3, <3>1
  <2> QED
    BY <1>1, <1>7, <2>1, <2>2, <2>4, <2>5, MainKeeps DEF RegisterIdtHandler
<1> QED
  BY <1>2, <1>3, <1>4, <1>5, <1>6, <1>7

\* The initialisation of the controllers, word by word.
LEMMA PicOutStep ==
    ASSUME IInv, PicOut
    PROVE  IInv'
<1>1. pc \in 1 .. 41 /\ pics \in Pics /\ Healthy(pics)
  BY ProgramText DEF IInv, TypeOK, Pics, PicsHere
<1>2. pc \in 3 .. 14 /\ pc' = pc + 1 /\ InMainline
  BY <1>1, WhereIs DEF PicOut, Step
<1>3. /\ pc = 3 => pics' = OutData(pics, "master", Bits)
      /\ pc = 4 => pics' = OutData(pics, "slave", Bits)
      /\ pc = 5 => pics' = OutCommand(pics, "master", {0, 4})
      /\ pc = 6 => pics' = OutCommand(pics, "slave", {0, 4})
      /\ pc = 7 => pics' = OutData(pics, "master", {5})
      /\ pc = 8 => pics' = OutData(pics, "slave", {3, 5})
      /\ pc = 9 => pics' = OutData(pics, "master", {2})
      /\ pc = 10 => pics' = OutData(pics, "slave", {1})
      /\ pc = 11 => pics' = OutData(pics, "master", {0})
      /\ pc = 12 => pics' = OutData(pics, "slave", {0})
      /\ pc = 13 => pics' = OutData(pics, "master", {})
      /\ pc = 14 => pics' = OutData(pics, "slave", {})
  <2>1. /\ Program[pc] = Does[pc]
        /\ pics' = IF Program[pc].port = "command"
                   THEN OutCommand(pics, Program[pc].ctl, Program[pc].byte)
                   ELSE OutData(pics, Program[pc].ctl, Program[pc].byte)
    BY <1>1, ProgramText DEF PicOut
  <2>2. \A ctl, byte : Out(ctl, "data", byte).port # "command"
    BY DEF Out
  <2>3. \A ctl, port, byte : /\ Out(ctl, port, byte).ctl = ctl
                             /\ Out(ctl, port, byte).port = port
                             /\ Out(ctl, port, byte).byte = byte
    BY DEF Out
  <2>4. \A ctl, byte : Program[pc] = Out(ctl, "data", byte)
                          => pics' = OutData(pics, ctl, byte)
    BY <2>1, <2>2, <2>3
  <2>5. \A ctl, byte : Program[pc] = Out(ctl, "command", byte)
                          => pics' = OutCommand(pics, ctl, byte)
    BY <2>1, <2>3
  <2> QED
    BY <2>1, <2>4, <2>5, MainlineDoes
<1>4. /\ VectorBase({5}) = 32 /\ VectorBase({3, 5}) = 40
      /\ {5} \in SUBSET Bits /\ {3, 5} \in SUBSET Bits /\ {2} \in SUBSET Bits
      /\ {1} \in SUBSET Bits /\ {0} \in SUBSET Bits /\ {} \in SUBSET Bits
      /\ Bits \in SUBSET Bits
  BY DEF VectorBase, Bits
<1>5. SetUpHere
  BY DEF IInv
<1> DEFINE Goal == /\ SetUpHere' /\ pics' \in Pics /\ Healthy(pics')
                   /\ pics'.master.isr \subseteq pics.master.isr
                   /\ pics'.slave.isr \subseteq pics.slave.isr
<1>6. Goal
  <2>3. CASE pc = 3
    <3>1. pics.master.icw = 0 /\ Asleep(pics.master) /\ Asleep(pics.slave)
          /\ pics.slave.icw = 0
      BY <1>5, <2>3 DEF SetUpHere
    <3>2. pics' = OutData(pics, "master", Bits)
      BY <1>3, <2>3
    <3>3. /\ pics' \in Pics /\ Healthy(pics')
          /\ pics'.master.isr = pics.master.isr /\ pics'.master.imr = Bits
          /\ pics'.master.icw = 0 /\ pics'.slave = pics.slave
          /\ pics.master.int = FALSE => pics'.master.int = FALSE
      BY ONLY ZenonT(30), <1>1, <1>4, <3>1, <3>2, MasterMask
    <3> QED
      BY <1>2, <2>3, <3>1, <3>3 DEF SetUpHere, Asleep
  <2>4. CASE pc = 4
    <3>1. pics.slave.icw = 0 /\ Asleep(pics.master) /\ Asleep(pics.slave)
          /\ pics.master.icw = 0
      BY <1>5, <2>4 DEF SetUpHere
    <3>2. pics' = OutData(pics, "slave", Bits)
      BY <1>3, <2>4
    <3>3. /\ pics' \in Pics /\ Healthy(pics')
          /\ pics'.slave.isr = pics.slave.isr /\ pics'.slave.imr = Bits
          /\ pics'.slave.icw = 0 /\ Like(pics'.master, pics.master)
          /\ pics.slave.int = FALSE => pics'.slave.int = FALSE
      BY ONLY <1>1, <1>4, <3>1, <3>2, SlaveMask
    <3> QED
      BY <1>2, <2>4, <3>1, <3>3 DEF SetUpHere, Asleep, Like
  <2>5. CASE pc = 5
    <3>1. Asleep(pics.slave) /\ pics.slave.icw = 0
      BY <1>5, <2>5 DEF SetUpHere
    <3>2. pics' = OutCommand(pics, "master", {0, 4})
      BY <1>3, <2>5
    <3>3. /\ pics' \in Pics /\ Healthy(pics') /\ pics'.master.isr = {}
          /\ pics'.master.icw = 2 /\ pics'.slave = pics.slave
      BY ONLY <1>1, <3>2, ResetMaster
    <3> QED
      BY <1>2, <2>5, <3>1, <3>3 DEF SetUpHere
  <2>6. CASE pc = 6
    <3>1. pics.slave.int = FALSE /\ pics.master.icw = 2
      BY <1>5, <2>6 DEF SetUpHere, Asleep
    <3>2. pics' = OutCommand(pics, "slave", {0, 4})
      BY <1>3, <2>6
    <3>3. /\ pics' \in Pics /\ Healthy(pics') /\ pics'.slave.isr = {}
          /\ pics'.slave.icw = 2 /\ pics'.master.isr = pics.master.isr
          /\ pics'.master.icw = pics.master.icw
      BY ONLY <1>1, <3>1, <3>2, ResetSlave
    <3> QED
      BY <1>2, <2>6, <3>1, <3>3 DEF SetUpHere
  <2>7. CASE pc \in {7, 9, 11}
    <3> DEFINE byte == IF pc = 7 THEN {5} ELSE IF pc = 9 THEN {2} ELSE {0}
    <3>1. /\ pics.master.icw # 0
          /\ pc = 7 => pics.master.icw = 2 /\ pics.slave.icw = 2
          /\ pc = 9 => pics.master.icw = 3 /\ pics.slave.icw = 3
          /\ pc = 11 => pics.master.icw = 4 /\ pics.slave.icw = 4
          /\ pc > 7 => pics.master.base = 32
          /\ pc > 8 => pics.slave.base = 40
      BY <1>5, <2>7 DEF SetUpHere
    <3>2. /\ pics' = OutData(pics, "master", byte) /\ byte \in SUBSET Bits
          /\ pc = 7 => VectorBase(byte) = 32
      BY <1>3, <1>4, <2>7
    <3> HIDE DEF byte
    <3>3. /\ pics' \in Pics /\ Healthy(pics')
          /\ pics'.master.isr = pics.master.isr
          /\ pics.master.icw = 2 => pics'.master.icw = 3
                                    /\ pics'.master.base = VectorBase(byte)
          /\ pics.master.icw = 3 => pics'.master.icw = 4
                                    /\ pics'.master.base = pics.master.base
          /\ pics.master.icw = 4 => pics'.master.icw = 0
                                    /\ pics'.master.base = pics.master.base
          /\ pics'.slave = pics.slave
      BY ONLY <1>1, <3>1, <3>2, WordsOfMaster
    <3>4. SetUpHere'
      BY <1>2, <2>7, <3>1, <3>2, <3>3 DEF SetUpHere
    <3> QED
      BY <3>3, <3>4
  <2>8. CASE pc \in {8, 10, 12}
    <3> DEFINE byte == IF pc = 8 THEN {3, 5} ELSE IF pc = 10 THEN {1} ELSE {0}
    <3>1. /\ pics.slave.icw # 0
          /\ pc = 8 => pics.slave.icw = 2 /\ pics.master.icw = 3
          /\ pc = 10 => pics.slave.icw = 3 /\ pics.master.icw = 4
          /\ pc = 12 => pics.slave.icw = 4 /\ pics.master.icw = 0
          /\ pics.master.base = 32
          /\ pc > 8 => pics.slave.base = 40
      BY <1>5, <2>8 DEF SetUpHere
    <3>2. /\ pics' = OutData(pics, "slave", byte) /\ byte \in SUBSET Bits
          /\ pc = 8 => VectorBase(byte) = 40
      BY <1>3, <1>4, <2>8
    <3> HIDE DEF byte
    <3>3. /\ pics' \in Pics /\ Healthy(pics')
          /\ pics'.slave.isr = pics.slave.isr
          /\ pics.slave.icw = 2 => pics'.slave.icw = 3
                                   /\ pics'.slave.base = VectorBase(byte)
          /\ pics.slave.icw = 3 => pics'.slave.icw = 4
                                   /\ pics'.slave.base = pics.slave.base
          /\ pics.slave.icw = 4 => pics'.slave.icw = 0
                                   /\ pics'.slave.base = pics.slave.base
          /\ pics'.master = pics.master
      BY ONLY <1>1, <3>1, <3>2, WordsOfSlave
    <3>4. SetUpHere'
      BY <1>2, <2>8, <3>1, <3>2, <3>3 DEF SetUpHere
    <3> QED
      BY <3>3, <3>4
  <2>9. CASE pc = 13
    <3>1. /\ pics.master.icw = 0 /\ pics.slave.icw = 0
          /\ pics.master.base = 32 /\ pics.slave.base = 40
      BY <1>5, <2>9 DEF SetUpHere
    <3>2. pics' = OutData(pics, "master", {})
      BY <1>3, <2>9
    <3>3. /\ pics' \in Pics /\ Healthy(pics')
          /\ pics'.master.isr = pics.master.isr /\ pics'.master.icw = 0
          /\ pics'.master.base = pics.master.base
          /\ pics'.slave = pics.slave
      BY ONLY <1>1, <1>4, <3>1, <3>2, MasterMask
    <3> QED
      BY <1>2, <2>9, <3>1, <3>3 DEF SetUpHere
  <2>10. CASE pc = 14
    <3>1. /\ pics.master.icw = 0 /\ pics.slave.icw = 0
          /\ pics.master.base = 32 /\ pics.slave.base = 40
      BY <1>5, <2>10 DEF SetUpHere
    <3>2. pics' = OutData(pics, "slave", {})
      BY <1>3, <2>10
    <3>3. /\ pics' \in Pics /\ Healthy(pics')
          /\ pics'.slave.isr = pics.slave.isr /\ pics'.slave.icw = 0
          /\ pics'.slave.base = pics.slave.base
          /\ Like(pics'.master, pics.master)
      BY ONLY <1>1, <1>4, <3>1, <3>2, SlaveMask
    <3> QED
      BY <1>2, <2>10, <3>1, <3>3 DEF SetUpHere, Like
  <2>11. \/ pc = 3 \/ pc = 4 \/ pc = 5 \/ pc = 6 \/ pc \in {7, 9, 11}
         \/ pc \in {8, 10, 12} \/ pc = 13 \/ pc = 14
    BY <1>2
  <2> QED
    BY <2>3, <2>4, <2>5, <2>6, <2>7, <2>8, <2>9, <2>10, <2>11
<1>7. /\ UNCHANGED <<idt, idtr, junk, registered, iflag, split, nic, frames,
                     sp, neglected, events>>
  BY DEF PicOut, cpuVars
<1>8. TablesHere'
  BY <1>2, <1>7 DEF IInv, TablesHere
<1>9. /\ iflag \in BOOLEAN /\ idt \subseteq 0 .. 255 /\ idtr \in BOOLEAN
      /\ junk \in BOOLEAN /\ registered \subseteq 0 .. 255
  BY DEF IInv, TypeOK
<1> QED
  BY <1>2, <1>6, <1>7, <1>8, <1>9, MainKeeps

\* The masks, set and cleared by reading them back.
LEMMA MaskStep ==
    ASSUME IInv, SetIrqMask \/ ClearIrqMask
    PROVE  IInv'
<1>1. /\ pc \in 1 .. 41 /\ pics \in Pics /\ nic.line \in 0 .. 15
  BY ZenonT(30), ProgramText, DeviceLinesAre DEF IInv, TypeOK, Pics
<1>2. pc >= 13 /\ pc <= 40 /\ pc \notin {31, 32, 33, 34, 36} /\ pc' = pc + 1
      /\ InMainline
  BY <1>1, WhereIs DEF SetIrqMask, ClearIrqMask, Step
<1>3. \E line \in 0 .. 15, byte \in SUBSET Bits : pics' = WriteMask(line, byte)
  <2>1. \A line \in 0 .. 15 :
          /\ pics[Controller(line)].imr \in SUBSET Bits
          /\ {line % 8} \in SUBSET Bits
    BY <1>1, LinesAre DEF Controllers, Pics, Pic
  <2>2. CASE SetIrqMask
    <3>1. Program[pc].arg \in 0 .. 15 /\ pics' = set_irq_mask(Program[pc].arg)
      BY <1>1, <2>2, WhereIs DEF SetIrqMask, Step
    <3> QED
      BY <2>1, <3>1 DEF set_irq_mask
  <2>3. CASE ClearIrqMask
    <3>1. \E line \in 0 .. 15 : pics' = clear_irq_mask(line)
      BY <1>1, <2>3, WhereIs DEF ClearIrqMask, Step
    <3> QED
      BY <2>1, <3>1 DEF clear_irq_mask
  <2> QED
    BY <2>2, <2>3
<1>4. /\ SetUpHere' /\ pics' \in Pics /\ Healthy(pics')
      /\ pics'.master.isr = pics.master.isr
      /\ pics'.slave.isr = pics.slave.isr
  BY <1>2, <1>3, WriteKeeps
<1>5. UNCHANGED <<idt, idtr, junk, registered, iflag, split, nic, frames,
                  sp, neglected, events>>
  BY DEF SetIrqMask, ClearIrqMask, cpuVars
<1>6. TablesHere'
  BY <1>1, <1>2, <1>5 DEF IInv, TablesHere
<1>7. /\ iflag \in BOOLEAN /\ idt \subseteq 0 .. 255 /\ idtr \in BOOLEAN
      /\ junk \in BOOLEAN /\ registered \subseteq 0 .. 255
  BY DEF IInv, TypeOK
<1> QED
  BY <1>2, <1>4, <1>5, <1>6, <1>7, MainKeeps

\* The card's mask is opened, and its causes are read.
LEMMA CardStep ==
    ASSUME IInv, WriteImask \/ ReadIcr
    PROVE  IInv'
<1>1. /\ pc \in 1 .. 41 /\ pics \in Pics /\ Healthy(pics)
      /\ nic \in [line : NicLines, icr : BOOLEAN, imask : BOOLEAN]
  BY ProgramText DEF IInv, TypeOK, Pics, PicsHere
<1>2. pc \in {39, 40} /\ pc' = pc + 1 /\ InMainline
  BY <1>1, WhereIs DEF WriteImask, ReadIcr, Step
<1>3. PICK n \in {[nic EXCEPT !.imask = TRUE], [nic EXCEPT !.icr = FALSE]} :
          Drive(n)
  BY DEF WriteImask, ReadIcr
<1>4. /\ n \in [line : NicLines, icr : BOOLEAN, imask : BOOLEAN]
      /\ n.line = nic.line
  BY <1>1
<1>5. nic' = n /\ Calm(pics', pics)
  BY <1>1, <1>3, <1>4, DriveKeeps
<1>6. /\ pics' \in Pics /\ Healthy(pics')
      /\ pics'.master.isr = pics.master.isr /\ pics'.slave.isr = pics.slave.isr
      /\ pics'.master.icw = pics.master.icw /\ pics'.slave.icw = pics.slave.icw
      /\ pics'.master.base = pics.master.base
      /\ pics'.slave.base = pics.slave.base
  BY <1>1, <1>5, CalmHealthy DEF Calm, Like
<1>7. UNCHANGED <<idt, idtr, junk, registered, iflag, split, frames, sp,
                  neglected, events>>
  BY DEF WriteImask, ReadIcr, cpuVars
<1>8. SetUpHere' /\ TablesHere'
  BY <1>2, <1>4, <1>5, <1>6, <1>7 DEF IInv, SetUpHere, TablesHere
<1>9. InService' = InService
  BY <1>6 DEF InService
<1>10. TypeOK'
  <2>1. pc' \in 1 .. Halted
    BY <1>2, ProgramText
  <2> QED
    BY <1>4, <1>5, <1>6, <1>7, <2>1 DEF IInv, TypeOK, Pics
<1>11. FramesHere'
  <2>1. Len(frames) = 0 /\ InService \subseteq neglected
    BY <1>2, FramesAre DEF IInv, FramesHere
  <2>2. Len(frames') = 0 /\ InService' \subseteq neglected'
    BY <1>7, <1>9, <2>1
  <2> QED
    BY <2>2 DEF FramesHere
<1> QED
  BY <1>6, <1>8, <1>10, <1>11 DEF IInv, PicsHere

\* Nothing happens to a kernel that has halted.
LEMMA HaltStep ==
    ASSUME IInv, UNCHANGED vars
    PROVE  IInv'
<1>1. UNCHANGED <<pc, iflag, idt, idtr, junk, registered, pics, split, nic,
                  frames, sp, neglected, events>>
  BY DEF vars
<1>2. InService' = InService
  BY <1>1 DEF InService
<1>3. TypeOK'
  BY <1>1 DEF IInv, TypeOK
<1>4. PicsHere' /\ SetUpHere' /\ TablesHere'
  BY <1>1 DEF IInv, PicsHere, SetUpHere, TablesHere
<1>5. Owes(frames[1]) => Owes(frames[1])'
  BY <1>1, <1>2 DEF Owes
<1>6. FramesHere'
  BY <1>1, <1>2, <1>5 DEF IInv, FramesHere
<1> QED
  BY <1>3, <1>4, <1>6 DEF IInv

\* The devices.
LEMMA DeviceStep ==
    ASSUME IInv, Device
    PROVE  IInv'
<1>1. /\ pics \in Pics /\ events \in 0 .. MaxEvents
      /\ nic \in [line : NicLines, icr : BOOLEAN, imask : BOOLEAN]
  BY DEF IInv, TypeOK, Pics
<1>2. ASSUME NEW line \in DeviceLines, DeviceRaises(line)
      PROVE  IInv'
  <2>1. Calm(pics', pics)
    BY <1>1, <1>2, RaiseLineKeeps, DeviceLinesAre DEF DeviceRaises
  <2>2. events' \in 0 .. MaxEvents
    BY <1>1, <1>2, MaxEventsAssumption DEF DeviceRaises, Event
  <2> QED
    BY <1>1, <1>2, <2>1, <2>2, CalmKeeps DEF DeviceRaises
<1>3. ASSUME NEW line \in DeviceLines, DeviceLowers(line)
      PROVE  IInv'
  <2>1. Calm(pics', pics)
    BY <1>1, <1>3, LowerLineKeeps, DeviceLinesAre DEF DeviceLowers
  <2> QED
    BY <1>1, <1>3, <2>1, CalmKeeps DEF DeviceLowers
<1>4. CASE PacketArrives
  <2> DEFINE n == [nic EXCEPT !.icr = TRUE]
  <2>1. /\ n \in [line : NicLines, icr : BOOLEAN, imask : BOOLEAN]
        /\ n.line = nic.line /\ n.line \in NicLines
    BY <1>1
  <2>2. Drive(n)
    BY <1>4 DEF PacketArrives
  <2> HIDE DEF n
  <2>3. nic' = n /\ Calm(pics', pics)
    BY <1>1, <2>1, <2>2, DriveKeeps
  <2>4. events' \in 0 .. MaxEvents
    BY <1>1, <1>4, MaxEventsAssumption DEF PacketArrives, Event
  <2> QED
    BY <1>4, <2>1, <2>3, <2>4, CalmKeeps DEF PacketArrives
<1> QED
  BY <1>2, <1>3, <1>4 DEF Device

\* A frame is made: the tables are there.
LEMMA InterruptStep ==
    ASSUME IInv, Interrupt
    PROVE  IInv'
<1>1. /\ pc \in 1 .. 41 /\ pics \in Pics /\ Healthy(pics)
      /\ iflag \in BOOLEAN /\ sp \in Int
  BY ProgramText DEF IInv, TypeOK, Pics, PicsHere
<1>2. iflag = TRUE /\ pics.master.int = TRUE
  <2>1. pics.master.int \in BOOLEAN
    BY <1>1 DEF Pics, Pic
  <2> QED
    BY <1>1, <2>1 DEF Interrupt
<1>3. pc >= 37
  BY <1>1, <1>2 DEF IInv, TablesHere, SetUpHere, Asleep
<1>4. /\ pics.master.base = 32 /\ pics.slave.base = 40
      /\ idtr = TRUE /\ 0 .. 47 \subseteq idt
  BY <1>1, <1>3 DEF IInv, SetUpHere, TablesHere
<1>5. Len(frames) = 0 /\ frames = <<>> /\ InService \subseteq neglected
  BY <1>2, FramesAre DEF IInv, FramesHere, InMainline
<1> DEFINE a == IAC(pics)
<1>6. Answered(a, pics)
  BY <1>1, <1>2, <1>4, Acknowledged
<1>7. pics' = a.pics /\ Enter(a.vector, FALSE, a.lines)
  BY DEF Interrupt
<1> HIDE DEF a
<1>8. a.vector \in 32 .. 47 /\ a.lines \subseteq 0 .. 15
  BY <1>6 DEF Answered
<1>9. /\ frames' \in Seq(Frame) /\ Len(frames') = 1
      /\ frames'[1].vector = a.vector /\ frames'[1].exception = FALSE
      /\ frames'[1].lines = a.lines /\ frames'[1].if = iflag
      /\ idtr /\ a.vector \in idt => frames'[1].at = "stub"
      /\ iflag' = FALSE /\ sp' \in Int
  <2>1. a.vector \in 0 .. 255 /\ a.lines \in SUBSET (0 .. 15)
    BY <1>8
  <2>2. FALSE \in BOOLEAN
    BY Zenon
  <2> QED
    BY ONLY <1>1, <1>5, <1>7, <2>1, <2>2, EnterEffect
<1>10. frames'[1].at = "stub"
  <2>1. a.vector \in idt
    BY <1>4, <1>8
  <2> QED
    BY <1>4, <1>9, <2>1, Zenon
<1>11. /\ pics' \in Pics /\ Healthy(pics')
       /\ pics'.master.icw = pics.master.icw
       /\ pics'.slave.icw = pics.slave.icw
       /\ pics'.master.base = pics.master.base
       /\ pics'.slave.base = pics.slave.base
  BY <1>6, <1>7 DEF Answered
<1>12. UNCHANGED <<pc, idt, idtr, junk, registered, split, nic, neglected,
                   events>>
  BY DEF Interrupt, cpuVars
<1>13. TypeOK'
  <2>1. iflag' \in BOOLEAN
    BY <1>9, Zenon
  <2> QED
    BY <1>9, <1>11, <1>12, <2>1 DEF IInv, TypeOK, Pics
<1>14. SetUpHere' /\ TablesHere'
  BY <1>1, <1>3, <1>9, <1>11, <1>12 DEF IInv, SetUpHere, TablesHere
<1>15. \A b \in Bits :
          /\ b \in pics'.master.isr <=> b \in pics.master.isr \/ b \in a.lines
          /\ b \in pics'.slave.isr <=> b \in pics.slave.isr \/ 8 + b \in a.lines
          /\ b \in a.lines => \A s \in pics'.master.isr : b <= s
          /\ 8 + b \in a.lines => \A s \in pics'.slave.isr : b <= s
  BY <1>6, <1>7 DEF Answered
<1>16. InService' \subseteq neglected \union a.lines
  <2>1. pics'.master.isr \subseteq Bits /\ pics'.slave.isr \subseteq Bits
    BY <1>11 DEF Pics, Pic
  <2> QED
    BY <1>5, <1>15, <2>1, ServiceIs
<1>17. a.vector \notin {39, 47} => \E b \in Bits : b \in a.lines
  BY <1>6 DEF Answered
<1>18. Owes(frames[1])'
  <2>1. /\ frames'[1].exception = FALSE /\ frames'[1].at = "stub"
        /\ frames'[1].vector \in 32 .. 47
    BY <1>8, <1>9, <1>10
  <2>2. InService' \subseteq neglected' \union frames'[1].lines
    BY <1>9, <1>12, <1>16
  <2>3. \A b \in Bits : b \in frames'[1].lines
          => b \in pics'.master.isr /\ \A s \in pics'.master.isr : b <= s
    BY <1>9, <1>15
  <2>4. \A b \in Bits : 8 + b \in frames'[1].lines
          => b \in pics'.slave.isr /\ \A s \in pics'.slave.isr : b <= s
    BY <1>9, <1>15
  <2>5. frames'[1].vector \notin {39, 47}
          => \E b \in Bits : b \in frames'[1].lines
    BY <1>9, <1>17
  <2> QED
    BY <2>1, <2>2, <2>3, <2>4, <2>5 DEF Owes
<1>19. FramesHere'
  BY <1>1, <1>3, <1>9, <1>10, <1>12, <1>18 DEF FramesHere
<1> QED
  BY <1>11, <1>13, <1>14, <1>19 DEF IInv, PicsHere

\* An exception finds its gate too, and acknowledges nothing.
LEMMA ExceptionStep ==
    ASSUME IInv, Exception
    PROVE  IInv'
<1>1. /\ pc \in 1 .. 41 /\ pics \in Pics /\ Healthy(pics)
      /\ iflag \in BOOLEAN /\ sp \in Int /\ idtr = TRUE
      /\ events \in 0 .. MaxEvents
  BY ProgramText DEF IInv, TypeOK, Pics, PicsHere, Exception
<1>2. pc >= 35 /\ 0 .. 47 \subseteq idt
  BY <1>1 DEF IInv, TablesHere
<1>3. Len(frames) = 0 /\ frames = <<>> /\ InService \subseteq neglected
  BY FramesAre DEF IInv, FramesHere, InMainline, Exception
<1>4. PICK v \in Exceptions : Enter(v, TRUE, {})
  BY DEF Exception
<1>5. v \in 0 .. 31
  BY ExceptionsAssumption
<1>6. /\ frames' \in Seq(Frame) /\ Len(frames') = 1
      /\ frames'[1].vector = v /\ frames'[1].exception = TRUE
      /\ frames'[1].lines = {} /\ frames'[1].if = iflag
      /\ idtr /\ v \in idt => frames'[1].at = "stub"
      /\ iflag' = FALSE /\ sp' \in Int
  <2>1. v \in 0 .. 255 /\ {} \in SUBSET (0 .. 15)
    BY <1>5
  <2>2. TRUE \in BOOLEAN
    BY Zenon
  <2> QED
    BY ONLY <1>1, <1>3, <1>4, <2>1, <2>2, EnterEffect
<1>7. frames'[1].at = "stub"
  <2>1. v \in idt
    BY <1>2, <1>5
  <2> QED
    BY <1>1, <1>6, <2>1, Zenon
<1>8. UNCHANGED <<pc, idt, idtr, junk, registered, pics, split, nic,
                  neglected>>
      /\ events' \in 0 .. MaxEvents
  BY <1>1, MaxEventsAssumption DEF Exception, cpuVars
<1>9. TypeOK'
  <2>1. iflag' \in BOOLEAN
    BY <1>6, Zenon
  <2> QED
    BY <1>6, <1>8, <2>1 DEF IInv, TypeOK
<1>10. SetUpHere' /\ TablesHere' /\ PicsHere'
  BY <1>6, <1>8 DEF IInv, SetUpHere, TablesHere, PicsHere
<1>11. Owes(frames[1])'
  <2>1. InService' \subseteq neglected'
    BY <1>3, <1>8 DEF InService
  <2> QED
    BY <1>5, <1>6, <1>7, <2>1 DEF Owes
<1>12. FramesHere'
  <2>1. iflag = TRUE => pc >= 37
    BY <1>1, <1>2 DEF IInv, TablesHere
  <2> QED
    BY <1>2, <1>6, <1>7, <1>8, <1>11, <2>1 DEF FramesHere
<1> QED
  BY <1>9, <1>10, <1>12 DEF IInv

\* The stub goes on to another place.
LEMMA StubKeeps ==
    ASSUME IInv, Len(frames) = 1, NEW place \in Places \ {"crash"},
           Goto(place),
           UNCHANGED <<pc, iflag, idt, idtr, junk, registered, split, sp,
                       events>>,
           nic' \in [line : NicLines, icr : BOOLEAN, imask : BOOLEAN],
           nic'.line = nic.line,
           pics' \in Pics, Healthy(pics'),
           pics'.master.icw = pics.master.icw,
           pics'.slave.icw = pics.slave.icw,
           pics'.master.base = pics.master.base,
           pics'.slave.base = pics.slave.base,
           neglected' \subseteq 0 .. 15,
           place \in {"handler", "eoi_master", "eoi_slave"}
                => frames[1].exception = FALSE,
           Owes(frames[1])'
    PROVE  IInv'
<1>1. /\ frames' \in Seq(Frame) /\ Len(frames') = 1
      /\ frames'[1].at = place
      /\ frames'[1].exception = frames[1].exception
      /\ frames'[1].if = frames[1].if
  BY GotoEffect DEF IInv, TypeOK
<1>2. TypeOK'
  BY <1>1 DEF IInv, TypeOK, Pics
<1>3. pc \in 1 .. 41 /\ pc >= 35
  BY ProgramText DEF IInv, TypeOK, FramesHere
<1>4. SetUpHere' /\ TablesHere'
  BY <1>3 DEF IInv, SetUpHere, TablesHere
<1>5. FramesHere'
  BY <1>1 DEF IInv, FramesHere
<1> QED
  BY <1>2, <1>4, <1>5 DEF IInv, PicsHere

\* What a place of the stub has to do with the frame that is at it.
LEMMA StubAt ==
    ASSUME IInv, NEW place, Running(place)
    PROVE  /\ Len(frames) = 1 /\ frames[1].at = place
           /\ Top = frames[1] /\ frames[1] \in Frame
           /\ frames \in Seq(Frame) /\ Owes(frames[1])
           /\ pics \in Pics /\ Healthy(pics)
           /\ nic \in [line : NicLines, icr : BOOLEAN, imask : BOOLEAN]
           /\ neglected \subseteq 0 .. 15
  BY FramesAre DEF IInv, FramesHere, TypeOK, Pics, PicsHere

\* A registered vector is the card's, which is not a spurious one.
LEMMA DispatchStep ==
    ASSUME IInv, Dispatch
    PROVE  IInv'
<1>1. /\ Len(frames) = 1 /\ frames[1].at = "stub"
      /\ Top = frames[1] /\ frames[1] \in Frame
      /\ frames \in Seq(Frame) /\ Owes(frames[1])
      /\ pics \in Pics /\ Healthy(pics)
      /\ nic \in [line : NicLines, icr : BOOLEAN, imask : BOOLEAN]
      /\ neglected \subseteq 0 .. 15
  BY StubAt DEF Dispatch
<1>2. UNCHANGED <<pc, iflag, idt, idtr, junk, registered, pics, split, nic,
                  sp, neglected, events>>
  BY DEF Dispatch, cpuVars
<1>3. junk = FALSE
  BY <1>1, ProgramText DEF IInv, TypeOK, FramesHere, TablesHere
<1> DEFINE place == IF frames[1].vector \in registered THEN "handler"
                    ELSE "default"
<1>4. Goto(place)
  BY <1>1, <1>3 DEF Dispatch
<1>5. place \in {"handler", "default"}
  OBVIOUS
<1>6. place = "handler" => /\ frames[1].exception = FALSE
                           /\ \E b \in Bits : b \in frames[1].lines
  <2> SUFFICES ASSUME frames[1].vector \in registered
               PROVE  /\ frames[1].exception = FALSE
                      /\ \E b \in Bits : b \in frames[1].lines
    OBVIOUS
  <2>1. frames[1].vector = nic.line + 32
    BY DEF IInv, TablesHere
  <2>2. nic.line \in (0 .. 15) \ {7, 15}
    BY <1>1, DeviceLinesAre
  <2>3. frames[1].vector \notin 0 .. 31 /\ frames[1].vector \notin {39, 47}
    BY <2>1, <2>2
  <2>4. frames[1].exception \in BOOLEAN
    BY <1>1 DEF Frame
  <2>5. frames[1].exception = FALSE
    BY <1>1, <2>3, <2>4 DEF Owes
  <2> QED
    BY <1>1, <2>3, <2>5 DEF Owes
<1> HIDE DEF place
<1>7. place \in Places
  BY <1>5 DEF Places
<1>8. /\ frames' \in Seq(Frame) /\ Len(frames') = 1
      /\ frames'[1].at = place
      /\ frames'[1].vector = frames[1].vector
      /\ frames'[1].exception = frames[1].exception
      /\ frames'[1].lines = frames[1].lines
  BY <1>1, <1>4, <1>7, GotoEffect
<1>9. InService' = InService
  BY <1>2 DEF InService
<1>10. Owes(frames[1])'
  <2>1. /\ frames'[1].exception = TRUE
              => frames'[1].vector \in 0 .. 31 /\ frames'[1].lines = {}
        /\ frames'[1].exception = FALSE => frames'[1].vector \in 32 .. 47
        /\ InService' \subseteq neglected' \union frames'[1].lines
    BY <1>1, <1>2, <1>8, <1>9 DEF Owes
  <2>2. /\ \A b \in Bits : b \in frames'[1].lines
              => b \in pics'.master.isr /\ \A s \in pics'.master.isr : b <= s
        /\ \A b \in Bits : 8 + b \in frames'[1].lines
              => b \in pics'.slave.isr /\ \A s \in pics'.slave.isr : b <= s
    BY <1>1, <1>2, <1>8 DEF Owes
  <2>3. frames'[1].at = "handler" => \E b \in Bits : b \in frames'[1].lines
    BY <1>6, <1>8
  <2> QED
    BY <1>5, <1>8, <2>1, <2>2, <2>3 DEF Owes
<1> QED
  BY <1>1, <1>2, <1>4, <1>5, <1>6, <1>7, <1>10, StubKeeps

\* The default handler leaves its lines in service, and they are neglected.
LEMMA DefaultStep ==
    ASSUME IInv, IdtDefaultHandler
    PROVE  IInv'
<1>1. /\ Len(frames) = 1 /\ frames[1].at = "default"
      /\ Top = frames[1] /\ frames[1] \in Frame
      /\ frames \in Seq(Frame) /\ Owes(frames[1])
      /\ pics \in Pics /\ Healthy(pics)
      /\ nic \in [line : NicLines, icr : BOOLEAN, imask : BOOLEAN]
      /\ neglected \subseteq 0 .. 15
  BY StubAt DEF IdtDefaultHandler
<1>2. UNCHANGED <<pc, iflag, idt, idtr, junk, registered, pics, split, nic,
                  sp, events>>
  BY DEF IdtDefaultHandler, cpuVars
<1>3. neglected' = neglected \union frames[1].lines /\ Goto("out")
  BY <1>1 DEF IdtDefaultHandler
<1>4. "out" \in Places \ {"crash"}
  BY DEF Places
<1>5. /\ frames' \in Seq(Frame) /\ Len(frames') = 1
      /\ frames'[1].at = "out"
      /\ frames'[1].vector = frames[1].vector
      /\ frames'[1].exception = frames[1].exception
      /\ frames'[1].lines = frames[1].lines
  BY <1>1, <1>3, <1>4, GotoEffect
<1>6. InService' \subseteq neglected'
  BY <1>1, <1>2, <1>3 DEF InService, Owes
<1>7. Owes(frames[1])'
  BY <1>1, <1>5, <1>6 DEF Owes
<1>8. neglected' \subseteq 0 .. 15
  BY <1>1, <1>3 DEF Frame
<1> QED
  BY <1>1, <1>2, <1>3, <1>4, <1>7, <1>8, StubKeeps

\* The card's handler moves the card's line only.
LEMMA HandlerStep ==
    ASSUME IInv, E1000IntHandler
    PROVE  IInv'
<1>1. /\ Len(frames) = 1 /\ frames[1].at = "handler"
      /\ Top = frames[1] /\ frames[1] \in Frame
      /\ frames \in Seq(Frame) /\ Owes(frames[1])
      /\ pics \in Pics /\ Healthy(pics)
      /\ nic \in [line : NicLines, icr : BOOLEAN, imask : BOOLEAN]
      /\ neglected \subseteq 0 .. 15
  BY StubAt DEF E1000IntHandler
<1>2. UNCHANGED <<pc, iflag, idt, idtr, junk, registered, split, sp,
                  neglected, events>>
  BY DEF E1000IntHandler, cpuVars
<1>3. frames[1].exception = FALSE
  BY <1>1 DEF IInv, FramesHere
<1>4. Goto("eoi_master")
  BY <1>1, <1>3 DEF E1000IntHandler
<1> DEFINE n == [nic EXCEPT !.icr = FALSE]
<1>5. /\ n \in [line : NicLines, icr : BOOLEAN, imask : BOOLEAN]
      /\ n.line = nic.line /\ n.line \in NicLines
  BY <1>1
<1>6. Drive(n)
  BY DEF E1000IntHandler
<1> HIDE DEF n
<1>7. nic' = n /\ Calm(pics', pics)
  BY <1>1, <1>5, <1>6, DriveKeeps
<1>8. /\ pics' \in Pics /\ Healthy(pics')
      /\ pics'.master.isr = pics.master.isr /\ pics'.slave.isr = pics.slave.isr
      /\ pics'.master.icw = pics.master.icw /\ pics'.slave.icw = pics.slave.icw
      /\ pics'.master.base = pics.master.base
      /\ pics'.slave.base = pics.slave.base
  BY <1>1, <1>7, CalmHealthy DEF Calm, Like
<1>9. "eoi_master" \in Places \ {"crash"}
  BY DEF Places
<1>10. /\ frames' \in Seq(Frame) /\ Len(frames') = 1
       /\ frames'[1].at = "eoi_master"
       /\ frames'[1].vector = frames[1].vector
       /\ frames'[1].exception = frames[1].exception
       /\ frames'[1].lines = frames[1].lines
  BY <1>1, <1>4, <1>9, GotoEffect
<1>11. InService' = InService
  BY <1>8 DEF InService
<1>12. Owes(frames[1])'
  BY <1>1, <1>2, <1>8, <1>10, <1>11 DEF Owes
<1> QED
  BY <1>1, <1>2, <1>3, <1>4, <1>5, <1>7, <1>8, <1>9, <1>12, StubKeeps

\* The EOI to the master ends the interrupt that is under way: the highest in
\* service is the one the frame acknowledged.
LEMMA OwnEoi ==
    ASSUME IInv, EoiMaster
    PROVE  /\ pics.master.isr \ pics'.master.isr = Top.lines \intersect Bits
           /\ pics'.master.isr \subseteq pics.master.isr
           /\ pics'.slave = pics.slave
<1>1. /\ frames[1].at = "eoi_master" /\ Top = frames[1] /\ Owes(frames[1])
      /\ pics \in Pics /\ Healthy(pics)
  BY StubAt DEF EoiMaster
<1>2. pics' = OutCommand(pics, "master", {5})
  BY DEF EoiMaster
<1>3. /\ \A b : b \in pics'.master.isr
             <=> b \in pics.master.isr /\ \E s \in pics.master.isr : s < b
      /\ pics'.slave = pics.slave
  BY <1>1, <1>2, EoiToMaster
<1>4. pics.master.isr \subseteq Bits
  BY <1>1 DEF Pics, Pic
<1>5. PICK b \in Bits : b \in frames[1].lines
  BY <1>1 DEF Owes
<1>6. \A c \in Bits : c \in frames[1].lines
          => c \in pics.master.isr /\ \A s \in pics.master.isr : c <= s
  BY <1>1 DEF Owes
<1>7. \A c \in Bits : c \in frames[1].lines <=> c = b
  <2>1. \A c \in Bits : c \in frames[1].lines => c <= b /\ b <= c
    BY <1>5, <1>6
  <2> QED
    BY <1>5, <2>1 DEF Bits
<1>8. \A c : c \in pics.master.isr \ pics'.master.isr <=> c = b
  <2>1. b \in pics.master.isr /\ \A s \in pics.master.isr : b <= s
    BY <1>5, <1>6
  <2> QED
    BY <1>3, <1>4, <2>1 DEF Bits
<1> QED
  BY <1>1, <1>3, <1>5, <1>7, <1>8

\* The master's EOI ends the line the frame acknowledged there.
LEMMA EoiMasterStep ==
    ASSUME IInv, EoiMaster
    PROVE  IInv'
<1>1. /\ Len(frames) = 1 /\ frames[1].at = "eoi_master"
      /\ Top = frames[1] /\ frames[1] \in Frame
      /\ frames \in Seq(Frame) /\ Owes(frames[1])
      /\ pics \in Pics /\ Healthy(pics)
      /\ nic \in [line : NicLines, icr : BOOLEAN, imask : BOOLEAN]
      /\ neglected \subseteq 0 .. 15
  BY StubAt DEF EoiMaster
<1>2. UNCHANGED <<pc, iflag, idt, idtr, junk, registered, split, nic, sp,
                  neglected, events>>
  BY DEF EoiMaster, cpuVars
<1>3. frames[1].exception = FALSE /\ Goto("eoi_slave")
  BY <1>1 DEF IInv, FramesHere, EoiMaster
<1>4. "eoi_slave" \in Places \ {"crash"}
  BY DEF Places
<1>5. pics' = OutCommand(pics, "master", {5})
  BY DEF EoiMaster
<1>6. /\ pics' \in Pics /\ Healthy(pics')
      /\ pics'.master.icw = pics.master.icw
      /\ pics'.master.base = pics.master.base /\ pics'.slave = pics.slave
  BY <1>1, <1>5, EoiToMaster
<1>7. /\ pics.master.isr \ pics'.master.isr = frames[1].lines \intersect Bits
      /\ pics'.master.isr \subseteq pics.master.isr
  BY <1>1, OwnEoi
<1>8. /\ frames' \in Seq(Frame) /\ Len(frames') = 1
      /\ frames'[1].at = "eoi_slave"
      /\ frames'[1].vector = frames[1].vector
      /\ frames'[1].exception = frames[1].exception
      /\ frames'[1].lines = frames[1].lines
  BY <1>1, <1>3, <1>4, GotoEffect
<1>9. InService' \subseteq neglected \union (frames[1].lines \ Bits)
  <2>1. InService \subseteq neglected \union frames[1].lines
    BY <1>1 DEF Owes
  <2>2. pics'.master.isr \subseteq Bits /\ pics'.slave.isr \subseteq Bits
    BY <1>6 DEF Pics, Pic
  <2> SUFFICES ASSUME NEW x \in InService', x \notin neglected
               PROVE  x \in frames[1].lines \ Bits
    OBVIOUS
  <2>3. CASE x \in pics'.master.isr
    <3>1. x \in InService
      BY <1>7, <2>3, ServiceIs
    <3> QED
      BY <1>7, <2>1, <2>2, <2>3, <3>1
  <2>4. CASE \E b \in pics'.slave.isr : x = 8 + b
    <3>1. x \in InService
      BY <1>6, <2>4, ServiceIs
    <3>2. x \notin Bits
      BY <2>2, <2>4 DEF Bits
    <3> QED
      BY <2>1, <3>1, <3>2
  <2> QED
    BY <2>3, <2>4, ServiceIs
<1>10. Owes(frames[1])'
  <2>1. /\ frames'[1].exception = FALSE
        /\ frames'[1].vector \in 32 .. 47
        /\ InService' \subseteq neglected' \union (frames'[1].lines \ Bits)
    BY <1>1, <1>2, <1>3, <1>8, <1>9 DEF Owes
  <2>2. \A b \in Bits : 8 + b \in frames'[1].lines
              => b \in pics'.slave.isr /\ \A s \in pics'.slave.isr : b <= s
    BY <1>1, <1>6, <1>8 DEF Owes
  <2> QED
    BY <1>8, <2>1, <2>2 DEF Owes
<1> QED
  BY <1>1, <1>2, <1>3, <1>4, <1>6, <1>10, StubKeeps

\* The EOI to the slave ends the other half of the interrupt, if it has one.
LEMMA EoiSlaveStep ==
    ASSUME IInv, EoiSlave
    PROVE  IInv'
<1>1. /\ Len(frames) = 1 /\ frames[1].at = "eoi_slave"
      /\ Top = frames[1] /\ frames[1] \in Frame
      /\ frames \in Seq(Frame) /\ Owes(frames[1])
      /\ pics \in Pics /\ Healthy(pics)
      /\ nic \in [line : NicLines, icr : BOOLEAN, imask : BOOLEAN]
      /\ neglected \subseteq 0 .. 15
  BY StubAt DEF EoiSlave
<1>2. UNCHANGED <<pc, iflag, idt, idtr, junk, registered, split, nic, sp,
                  neglected, events>>
  BY DEF EoiSlave, cpuVars
<1>3. Goto("out")
  BY DEF EoiSlave
<1>4. "out" \in Places \ {"crash"}
  BY DEF Places
<1>5. pics' = OutCommand(pics, "slave", {5})
  BY DEF EoiSlave
<1>6. /\ pics' \in Pics /\ Healthy(pics')
      /\ \A b : b \in pics'.slave.isr
             <=> b \in pics.slave.isr /\ \E s \in pics.slave.isr : s < b
      /\ pics'.slave.icw = pics.slave.icw /\ pics'.slave.base = pics.slave.base
      /\ pics'.master.isr = pics.master.isr
      /\ pics'.master.icw = pics.master.icw
      /\ pics'.master.base = pics.master.base
  BY <1>1, <1>5, EoiToSlave
<1>7. /\ frames' \in Seq(Frame) /\ Len(frames') = 1
      /\ frames'[1].at = "out"
      /\ frames'[1].vector = frames[1].vector
      /\ frames'[1].exception = frames[1].exception
      /\ frames'[1].lines = frames[1].lines
  BY <1>1, <1>3, <1>4, GotoEffect
<1>8. InService' \subseteq neglected
  <2>1. InService \subseteq neglected \union (frames[1].lines \ Bits)
    BY <1>1 DEF Owes
  <2>2. pics.master.isr \subseteq Bits /\ pics.slave.isr \subseteq Bits
    BY <1>1 DEF Pics, Pic
  <2>3. \A b \in Bits : 8 + b \in frames[1].lines
            => b \in pics.slave.isr /\ \A s \in pics.slave.isr : b <= s
    BY <1>1 DEF Owes
  <2> SUFFICES ASSUME NEW x \in InService'
               PROVE  x \in neglected
    OBVIOUS
  <2>4. CASE x \in pics'.master.isr
    <3>1. x \in InService /\ x \in Bits
      BY <1>6, <2>2, <2>4, ServiceIs
    <3> QED
      BY <2>1, <3>1
  <2>5. CASE \E b \in pics'.slave.isr : x = 8 + b
    <3>1. PICK b \in pics'.slave.isr : x = 8 + b
      BY <2>5
    <3>2. b \in pics.slave.isr /\ b \in Bits /\ \E s \in pics.slave.isr : s < b
      BY <1>6, <2>2
    <3>3. x \in InService
      BY <3>1, <3>2, ServiceIs
    <3>4. x \notin frames[1].lines
      BY <2>2, <2>3, <3>1, <3>2 DEF Bits
    <3> QED
      BY <2>1, <3>3, <3>4
  <2> QED
    BY <2>4, <2>5, ServiceIs
<1>9. Owes(frames[1])'
  BY <1>1, <1>2, <1>7, <1>8 DEF Owes
<1> QED
  BY <1>1, <1>2, <1>3, <1>4, <1>6, <1>9, StubKeeps

\* The frame is left as it was found.
LEMMA ReturnStep ==
    ASSUME IInv, Return
    PROVE  IInv'
<1>1. /\ Len(frames) = 1 /\ frames[1].at = "out"
      /\ Top = frames[1] /\ frames[1] \in Frame
      /\ frames \in Seq(Frame) /\ Owes(frames[1])
      /\ pics \in Pics
  BY StubAt DEF Return
<1>2. UNCHANGED <<pc, idt, idtr, junk, registered, pics, split, nic,
                  neglected, events>>
  BY DEF Return, cpuVars
<1>3. iflag' = frames[1].if /\ frames' = Front(frames) /\ sp' = sp - Popped
  BY <1>1 DEF Return
<1>4. frames' \in Seq(Frame) /\ Len(frames') = 0
  <2>1. Front(frames) = SubSeq(frames, 1, 0)
    BY <1>1 DEF Front
  <2>2. SubSeq(frames, 1, 0) = <<>>
    BY <1>1, SubSeqProperties, EmptySeq
  <2> QED
    BY <1>3, <2>1, <2>2, EmptySeq
<1>5. iflag' \in BOOLEAN
  BY <1>1, <1>3 DEF Frame
<1>6. sp' \in Int
  BY <1>3 DEF IInv, TypeOK, Popped
<1>7. TypeOK'
  BY <1>2, <1>4, <1>5, <1>6 DEF IInv, TypeOK
<1>8. iflag' = TRUE => pc' >= 37
  BY <1>1, <1>2, <1>3 DEF IInv, FramesHere
<1>9. PicsHere' /\ SetUpHere' /\ TablesHere'
  BY <1>2, <1>8 DEF IInv, PicsHere, SetUpHere, TablesHere
<1>10. InService' \subseteq neglected'
  BY <1>1, <1>2 DEF InService, Owes
<1>11. FramesHere'
  BY <1>4, <1>10 DEF FramesHere
<1> QED
  BY <1>7, <1>9, <1>11 DEF IInv

-----------------------------------------------------------------------------
(* The theorems. *)

\* No step of the mainline, a stub or a device breaks the invariant.
LEMMA Inductive == IInv /\ [Next]_vars => IInv'
<1> SUFFICES ASSUME IInv, [Next]_vars PROVE IInv'
  OBVIOUS
<1>1. CASE UNCHANGED vars
  BY <1>1, HaltStep
<1>2. CASE Mainline
  BY <1>2, TableStep, PicOutStep, MaskStep, CardStep, HaltStep
  DEF Mainline, KernelHalt
<1>3. CASE Interrupt
  BY <1>3, InterruptStep
<1>4. CASE Exception
  BY <1>4, ExceptionStep
<1>5. CASE Stub
  BY <1>5, DispatchStep, DefaultStep, HandlerStep, EoiMasterStep,
     EoiSlaveStep, ReturnStep
  DEF Stub
<1>6. CASE Device
  BY <1>6, DeviceStep
<1> QED
  BY <1>1, <1>2, <1>3, <1>4, <1>5, <1>6 DEF Next

\* So it holds in every state of every behaviour.
LEMMA Invariance == Spec => []IInv
  BY Initially, Inductive, PTL DEF Spec

\* Every variable keeps its type; the controllers' registers keep theirs
\* through the initialisation, the masks, the EOIs and the acknowledgements.
THEOREM TypeCorrect == Spec => []TypeOK
<1>1. IInv => TypeOK
  BY DEF IInv
<1> QED
  BY <1>1, Invariance, PTL

\* No interrupt and no exception finds its gate missing or calls what the
\* memory held before init_idt, though the kernel starts with IF set.
THEOREM NeverThroughAHole == Spec => []NeverCrashes
<1>1. IInv => NeverCrashes
  BY FramesAre DEF IInv, FramesHere, NeverCrashes
<1> QED
  BY <1>1, Invariance, PTL

\* One interrupt at most is under way, whatever the devices do: the stubs run
\* with IF cleared from the gate to iretq.
THEOREM OneAtATime == Spec => []OneInterruptAtATime
<1>1. IInv => OneInterruptAtATime
  <2> SUFFICES ASSUME IInv PROVE OneInterruptAtATime
    OBVIOUS
  <2> DEFINE under == {i \in DOMAIN frames : ~frames[i].exception}
  <2>1. frames \in Seq(Frame) /\ Len(frames) \in {0, 1}
    BY FramesAre DEF IInv, TypeOK
  <2>2. DOMAIN frames = 1 .. Len(frames)
    BY <2>1, LenProperties
  <2>3. under \subseteq {1}
    BY <2>1, <2>2
  <2>4. under = {} \/ under = {1}
    BY <2>3
  <2> HIDE DEF under
  <2>5. Cardinality({}) = 0 /\ Cardinality({1}) = 1
    BY FS_EmptySet, FS_Singleton
  <2>6. Cardinality(under) <= 1
    BY <2>4, <2>5
  <2> QED
    BY <2>6 DEF OneInterruptAtATime, under
<1> QED
  BY <1>1, Invariance, PTL

\* When no stub runs, a line is in service only if the default handler, which
\* acknowledges nothing, took its interrupt.
THEOREM NothingElseInService == Spec => []OnlyNeglectedInService
<1>1. IInv => OnlyNeglectedInService
  BY FramesAre DEF IInv, FramesHere, OnlyNeglectedInService
<1> QED
  BY <1>1, Invariance, PTL

\* An EOI to the master ends the interrupt its stub is serving, none other.
THEOREM EoiIsOwn == Spec => MasterEoiIsOwn
<1>1. ASSUME IInv, [Next]_vars
      PROVE  [EoiMaster =>
                /\ pics.master.isr \ pics'.master.isr
                       = Top.lines \intersect Bits
                /\ pics.slave.isr = pics'.slave.isr]_vars
  BY <1>1, OwnEoi
<1> QED
  BY <1>1, Invariance, PTL DEF Spec, MasterEoiIsOwn

\* The stack: what a stub takes back is what the processor and its macro
\* pushed, when the processor's error codes are those of the stubs.
LEMMA PushedIsPopped ==
    ASSUME NEW v, NEW e \in BOOLEAN,
           e = TRUE => v \notin HardwareErrorCodes \ ErrCodeStubs
    PROVE  Pushed(v, e) = Popped
<1>1. ErrCodeStubs \subseteq HardwareErrorCodes
  BY DEF ErrCodeStubs, HardwareErrorCodes
<1>2. CASE e = TRUE /\ v \in HardwareErrorCodes
  BY <1>2 DEF Pushed, Popped
<1>3. CASE e = FALSE
  BY <1>1, <1>3 DEF Pushed, Popped
<1>4. CASE v \notin HardwareErrorCodes
  BY <1>1, <1>4 DEF Pushed, Popped
<1> QED
  BY <1>2, <1>3, <1>4

\* What the stub under way has on the stack, on top of the mainline's own.
Owed == /\ Len(frames) = 0 => sp = 0
        /\ Len(frames) = 1 => sp = Popped

\* An interrupt or an exception makes the frame the return will take off.
LEMMA EnterOwes ==
    ASSUME frames = <<>>, sp = 0, NEW v, NEW e \in BOOLEAN, NEW L,
           e = TRUE => v \notin HardwareErrorCodes \ ErrCodeStubs,
           Enter(v, e, L)
    PROVE  Owed'
<1> DEFINE f == [vector |-> v, exception |-> e, lines |-> L, if |-> iflag,
                 at |-> IF idtr /\ v \in idt THEN "stub" ELSE "crash"]
<1>1. frames' = Append(<<>>, f) /\ sp' = sp + Pushed(v, e)
  BY DEF Enter
<1> HIDE DEF f
<1>2. Len(frames') = 1
  BY <1>1
<1>3. Pushed(v, e) = Popped
  BY PushedIsPopped
<1>4. sp' = Popped
  BY <1>1, <1>3 DEF Popped
<1> QED
  BY <1>2, <1>4 DEF Owed

\* The steps that neither enter a stub nor leave one.
LEMMA OthersKeepStack ==
    ASSUME IInv,
           \/ Mainline \/ Device \/ Dispatch \/ IdtDefaultHandler
           \/ E1000IntHandler \/ EoiMaster \/ EoiSlave \/ UNCHANGED vars
    PROVE  sp' = sp /\ Len(frames') = Len(frames)
<1>1. CASE Mainline
  BY <1>1 DEF Mainline, InitIdt, Cli, Sti, PicOut, SetIrqMask, ClearIrqMask,
     SetupIdtEntries, LoadIdtDescriptor, RegisterIdtHandler, WriteImask,
     ReadIcr, KernelHalt, vars
<1>2. CASE Device
  BY <1>2 DEF Device, DeviceRaises, DeviceLowers, PacketArrives
<1>3. CASE UNCHANGED vars
  BY <1>3 DEF vars
<1>4. ASSUME NEW from, NEW to \in Places, Running(from), Goto(to)
      PROVE  Len(frames') = Len(frames)
  <2>1. frames \in Seq(Frame) /\ Len(frames) = 1
    BY <1>4, FramesAre DEF IInv, TypeOK
  <2> QED
    BY <1>4, <2>1, GotoEffect
<1>5. {"default", "handler", "eoi_master", "eoi_slave", "out", "crash"}
        \subseteq Places
  BY DEF Places
<1>6. CASE Dispatch
  <2>1. PICK to \in Places : Running("stub") /\ Goto(to)
    BY <1>5, <1>6 DEF Dispatch
  <2> QED
    BY <1>4, <1>6, <2>1 DEF Dispatch
<1>7. CASE IdtDefaultHandler
  BY <1>4, <1>5, <1>7 DEF IdtDefaultHandler
<1>8. CASE E1000IntHandler
  <2>1. PICK to \in Places : Running("handler") /\ Goto(to)
    BY <1>5, <1>8 DEF E1000IntHandler
  <2> QED
    BY <1>4, <1>8, <2>1 DEF E1000IntHandler
<1>9. CASE EoiMaster
  BY <1>4, <1>5, <1>9 DEF EoiMaster
<1>10. CASE EoiSlave
  BY <1>4, <1>5, <1>10 DEF EoiSlave
<1> QED
  BY <1>1, <1>2, <1>3, <1>6, <1>7, <1>8, <1>9, <1>10

\* The stack holds what the frame under way will take off, and nothing else.
LEMMA OwedInductive ==
    ASSUME Exceptions \intersect (HardwareErrorCodes \ ErrCodeStubs) = {},
           IInv, Owed, [Next]_vars
    PROVE  Owed'
<1>1. CASE Interrupt
  <2>1. frames = <<>> /\ sp = 0
    <3>1. iflag = TRUE
      BY <1>1 DEF Interrupt, IInv, TypeOK
    <3> QED
      BY <3>1, FramesAre DEF IInv, FramesHere, InMainline, Owed
  <2>2. PICK v, L : Enter(v, FALSE, L)
    BY <1>1 DEF Interrupt
  <2>3. FALSE \in BOOLEAN /\ FALSE # TRUE
    BY Zenon
  <2> QED
    BY ONLY <2>1, <2>2, <2>3, EnterOwes
<1>2. CASE Exception
  <2>1. frames = <<>> /\ sp = 0
    BY <1>2, FramesAre DEF Exception, InMainline, Owed
  <2>2. PICK v \in Exceptions : Enter(v, TRUE, {})
    BY <1>2 DEF Exception
  <2>3. v \notin HardwareErrorCodes \ ErrCodeStubs
    OBVIOUS
  <2>4. TRUE \in BOOLEAN
    BY Zenon
  <2> QED
    BY ONLY <2>1, <2>2, <2>3, <2>4, EnterOwes
<1>3. CASE Return
  <2>1. Len(frames) = 1 /\ frames \in Seq(Frame)
    BY <1>3, FramesAre DEF Return, IInv, TypeOK
  <2>2. frames' = Front(frames) /\ sp' = sp - Popped
    BY <1>3 DEF Return
  <2>3. Len(frames') = 0
    <3>1. Front(frames) = SubSeq(frames, 1, 0)
      BY <2>1 DEF Front
    <3>2. SubSeq(frames, 1, 0) = <<>>
      BY <2>1, SubSeqProperties, EmptySeq
    <3> QED
      BY <2>2, <3>1, <3>2, EmptySeq
  <2> QED
    BY <2>1, <2>2, <2>3 DEF Owed, Popped
<1>4. CASE \/ Mainline \/ Device \/ Dispatch \/ IdtDefaultHandler
           \/ E1000IntHandler \/ EoiMaster \/ EoiSlave \/ UNCHANGED vars
  BY <1>4, OthersKeepStack DEF Owed
<1> QED
  BY <1>1, <1>2, <1>3, <1>4 DEF Next, Stub

\* Every stub leaves the stack as the interrupted code had it, if the only
\* exceptions that arise are those for which the macro's choice to push a
\* zero agrees with the processor's: not 17 and 21, which need ring 3 and
\* shadow stacks, and the third stage has neither.
THEOREM StackKept ==
    ASSUME Exceptions \intersect (HardwareErrorCodes \ ErrCodeStubs) = {}
    PROVE  Spec => []StackBalanced
<1>1. Init => IInv /\ Owed
  <2>1. Init => frames = <<>> /\ sp = 0
    BY DEF Init
  <2> QED
    BY <2>1, Initially, EmptySeq DEF Owed
<1>2. IInv /\ Owed /\ [Next]_vars => (IInv /\ Owed)'
  BY Inductive, OwedInductive
<1>3. IInv /\ Owed => StackBalanced
  BY FramesAre DEF Owed, StackBalanced
<1> QED
  BY <1>1, <1>2, <1>3, PTL DEF Spec

=============================================================================
