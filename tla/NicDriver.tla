------------------------------ MODULE NicDriver ------------------------------
(***************************************************************************)
(* The network card's receive path: the ring the card fills, e1000_rx_init *)
(* and e1000_enable_interrupts in the mainline, and e1000_int_handler with *)
(* e1000_process_packet, which runs with interrupts disabled while the     *)
(* card goes on.  Every access to a register goes through e1000_rw_address *)
(* and e1000_rw_data, which the mainline and the handler share.            *)
(*                                                                         *)
(* The ring is scaled from 2048 descriptors to N; a descriptor is its DD   *)
(* bit.  The card is the one of iodev/network/e1000.cc, by memory-mapped   *)
(* access.  The handler's frame and its EOIs are module Interrupts's: here *)
(* an interrupt the card asserts is taken, and taken again when the        *)
(* handler is left with a cause pending.  No other device is on its line.  *)
(***************************************************************************)
EXTENDS Integers, FiniteSets, Sequences

CONSTANT N      \* e1000_desc_array_count

ASSUME NAssumption == N \in Nat /\ N >= 6 /\ N % 2 = 0

Slots  == 0 .. N - 1
Beyond == N             \* a number no descriptor has: bits that mean causes

\* The causes that REG_ICR reports and 0x1F6DC enables: link change, few free
\* descriptors, overrun, packet received.
Causes == {"LSC", "RXDMT0", "RXO", "RXT0"}

\* The contents of a register, as a set of causes and as a number.
Datum == [causes : SUBSET Causes, number : 0 .. N]
Number(n)   == [causes |-> {}, number |-> n]
CauseBits(s) == [causes |-> s, number |-> Beyond]

VARIABLES
    pc,         \* next step of the mainline
    rw_address, rw_data,
    card,       \* its registers, and check_rxov of the emulated card
    dd,         \* the ring: descriptors with their DD bit set
    rx_cur,
    place,      \* where the handler is, "none" when it does not run
    unmasked,   \* the card's handler is registered and its line unmasked
    missed      \* history: a packet's cause was read and not acted upon

vars == <<pc, rw_address, rw_data, card, dd, rx_cur, place, unmasked, missed>>
rw == <<rw_address, rw_data>>

Card == [rdh : 0 .. N, rdt : 0 .. N, check_rxov : BOOLEAN, enabled : BOOLEAN,
         icr : SUBSET Causes, ims : SUBSET Causes]

-----------------------------------------------------------------------------
(* The card. *)

HasRxbufs(c) == c.rdh # c.rdt \/ ~c.check_rxov

\* At most half of the ring is free for the card.
FewFree(c) ==
    (IF c.rdt < c.rdh THEN c.rdt + N ELSE c.rdt) - c.rdh <= N \div 2

WriteRegister(c, register, datum) ==
    CASE register = "RXDESCHEAD" -> [c EXCEPT !.rdh = datum.number]
      [] register = "RXDESCTAIL" ->
            [c EXCEPT !.rdt = datum.number, !.check_rxov = FALSE]
      [] register = "RCTRL" -> [c EXCEPT !.enabled = TRUE]
      [] register = "IMASK" -> [c EXCEPT !.ims = @ \union datum.causes]
      [] register = "ICR"   -> [c EXCEPT !.icr = @ \ datum.causes]

ReadRegister(register) ==
    CASE register = "ICR"        -> CauseBits(card.icr)
      [] register = "RXDESCHEAD" -> Number(card.rdh)
      [] register = "RXDESCTAIL" -> Number(card.rdt)

\* The one register a read changes.
AfterRead(register) ==
    IF register = "ICR" THEN [card EXCEPT !.icr = {}] ELSE card

Asserted == card.icr \intersect card.ims # {}

-----------------------------------------------------------------------------
(* The mainline. *)

Command(register, step) == <<[do |-> "address", register |-> register]>> \o step
Write(register, datum) ==
    Command(register, <<[do |-> "data", datum |-> datum], [do |-> "write"]>>)
Read(register) == Command(register, <<[do |-> "read"]>>)

\* The registers that place the ring and give its length keep their values.
rx_init ==
    Write("RXDESCHEAD", Number(0)) \o Write("RXDESCTAIL", Number(N - 1))
        \o Write("RCTRL", CauseBits({}))

enable_interrupts ==
    <<[do |-> "unmask"]>> \o Write("IMASK", CauseBits(Causes)) \o Read("ICR")

\* Mutant: interrupts are enabled before the ring is set up.
EnableFirst == enable_interrupts \o rx_init

\* tx_init, between the two, programs registers of the transmit ring.
Program == rx_init \o enable_interrupts

Done == Len(Program) + 1

Init ==
    /\ pc = 1
    /\ rw_address = "RXDESCHEAD" /\ rw_data = Number(0)
    /\ \E link \in SUBSET {"LSC"} :
         card = [rdh |-> 0, rdt |-> 0, check_rxov |-> FALSE,
                 enabled |-> FALSE, icr |-> link, ims |-> {}]
    /\ dd = {} /\ rx_cur = 0
    /\ place = "none" /\ unmasked = FALSE
    /\ missed = FALSE

Step(what) ==
    /\ place = "none" /\ pc < Done /\ Program[pc].do = what
    /\ pc' = pc + 1
    /\ UNCHANGED <<dd, rx_cur, place>>

SetAddress ==
    /\ Step("address")
    /\ rw_address' = Program[pc].register
    /\ UNCHANGED <<rw_data, card, unmasked, missed>>

SetData ==
    /\ Step("data")
    /\ rw_data' = Program[pc].datum
    /\ UNCHANGED <<rw_address, card, unmasked, missed>>

WriteCommand ==
    /\ Step("write")
    /\ card' = WriteRegister(card, rw_address, rw_data)
    /\ UNCHANGED <<rw, unmasked, missed>>

ReadCommand ==
    /\ Step("read")
    /\ rw_data' = ReadRegister(rw_address)
    /\ card' = AfterRead(rw_address)
    /\ missed' = (missed \/ (rw_address = "ICR" /\ "RXT0" \in card.icr))
    /\ UNCHANGED <<rw_address, unmasked>>

\* register_idt_handler and clear_irq_mask.
Unmask ==
    /\ Step("unmask")
    /\ unmasked' = TRUE
    /\ UNCHANGED <<rw, card, missed>>

-----------------------------------------------------------------------------
(* The handler. *)

Interrupt ==
    /\ place = "none" /\ unmasked /\ Asserted
    /\ place' = "handler"
    /\ UNCHANGED <<pc, rw, card, dd, rx_cur, unmasked, missed>>

At(here) ==
    /\ place = here
    /\ UNCHANGED <<pc, unmasked>>

\* The causes are looked at one after the other, and the first one found is
\* the only one served.
IntHandler ==
    /\ At("handler")
    /\ rw_address' = "ICR" /\ rw_data' = CauseBits(card.icr)
    /\ card' = AfterRead("ICR")
    /\ LET process == "RXT0" \in card.icr
                        /\ card.icr \intersect {"LSC", "RXDMT0"} = {}
       IN /\ place' = IF process THEN "process_packet" ELSE "out"
          /\ missed' = (missed \/ ("RXT0" \in card.icr /\ ~process))
    /\ UNCHANGED <<dd, rx_cur>>

\* The head is compared with rx_cur: a full ring looks like an empty one.
CompareHead(equal) ==
    /\ At("process_packet")
    /\ rw_address' = "RXDESCHEAD" /\ rw_data' = Number(card.rdh)
    /\ IF card.rdh = rx_cur
       THEN place' = equal /\ missed' = (missed \/ rx_cur \in dd)
       ELSE place' = "loop" /\ missed' = FALSE
    /\ UNCHANGED <<card, dd, rx_cur>>

\* Mutant: an empty ring, too, goes on to .update_tail.
ProcessPacketToTail == CompareHead("update_tail")

ProcessPacket == CompareHead("out")

\* The packet is copied and network_stack called.  It takes the type from the
\* descriptor, bytes 12 and 13, which hold status and errors: with DD set they
\* are neither ARP nor IP, and nothing is ever answered.
Loop ==
    /\ At("loop")
    /\ place' = IF rx_cur \in dd THEN "clear_status" ELSE "update_tail"
    /\ UNCHANGED <<rw, card, dd, rx_cur, missed>>

ClearStatus ==
    /\ At("clear_status")
    /\ dd' = dd \ {rx_cur}
    /\ place' = "advance"
    /\ UNCHANGED <<rw, card, rx_cur, missed>>

\* Mutant: JLE for JL, which lets rx_cur reach the end of the ring.
AdvanceLate ==
    /\ At("advance")
    /\ rx_cur' = IF rx_cur + 1 <= N THEN rx_cur + 1 ELSE 0
    /\ place' = "loop"
    /\ UNCHANGED <<rw, card, dd, missed>>

\* Mutant: one packet for each interrupt.
AdvanceOnePacket ==
    /\ At("advance")
    /\ rx_cur' = IF rx_cur + 1 < N THEN rx_cur + 1 ELSE 0
    /\ place' = "update_tail"
    /\ UNCHANGED <<rw, card, dd, missed>>

Advance ==
    /\ At("advance")
    /\ rx_cur' = IF rx_cur + 1 < N THEN rx_cur + 1 ELSE 0
    /\ place' = "loop"
    /\ UNCHANGED <<rw, card, dd, missed>>

\* Mutant: the causes that came in the meantime are cleared.
UpdateTailAndClear ==
    /\ At("update_tail")
    /\ rw_address' = "RXDESCTAIL" /\ rw_data' = Number(rx_cur)
    /\ card' = [WriteRegister(card, "RXDESCTAIL", Number(rx_cur))
                    EXCEPT !.icr = {}]
    /\ place' = "out"
    /\ UNCHANGED <<dd, rx_cur, missed>>

UpdateTail ==
    /\ At("update_tail")
    /\ rw_address' = "RXDESCTAIL" /\ rw_data' = Number(rx_cur)
    /\ card' = WriteRegister(card, "RXDESCTAIL", Number(rx_cur))
    /\ place' = "out"
    /\ UNCHANGED <<dd, rx_cur, missed>>

Out ==
    /\ At("out")
    /\ place' = "none"
    /\ UNCHANGED <<rw, card, dd, rx_cur, missed>>

-----------------------------------------------------------------------------
(* The network. *)

\* The card fills the descriptor at its head, wherever that is, and wraps.
Fill ==
    LET c == [card EXCEPT !.rdh = IF @ + 1 >= N THEN 0 ELSE @ + 1,
                          !.check_rxov = TRUE]
    IN /\ dd' = dd \union ({card.rdh} \intersect Slots)
       /\ card' = [c EXCEPT !.icr = @ \union {"RXT0"} \union
                                IF FewFree(c) THEN {"RXDMT0"} ELSE {}]

RxFrame ==
    /\ card.enabled
    /\ IF HasRxbufs(card) THEN Fill
       ELSE card' = [card EXCEPT !.icr = @ \union {"RXO"}] /\ UNCHANGED dd
    /\ UNCHANGED <<pc, rw, rx_cur, place, unmasked, missed>>

LinkChange ==
    /\ card' = [card EXCEPT !.icr = @ \union {"LSC"}]
    /\ UNCHANGED <<pc, rw, dd, rx_cur, place, unmasked, missed>>

Mainline == SetAddress \/ SetData \/ WriteCommand \/ ReadCommand \/ Unmask
Handler ==
    IntHandler \/ ProcessPacket \/ Loop \/ ClearStatus \/ Advance
        \/ UpdateTail \/ Out
Network == RxFrame \/ LinkChange

Next == Mainline \/ Interrupt \/ Handler \/ Network

\* The processor keeps executing and takes the interrupt it is shown; the
\* network owes nothing.
Spec == Init /\ [][Next]_vars
             /\ WF_vars(Mainline) /\ WF_vars(Interrupt) /\ WF_vars(Handler)

-----------------------------------------------------------------------------
Places == {"none", "handler", "process_packet", "loop", "clear_status",
           "advance", "update_tail", "out"}

TypeOK ==
    /\ pc \in 1 .. Done
    /\ rw_address \in {"RXDESCHEAD", "RXDESCTAIL", "RCTRL", "IMASK", "ICR"}
    /\ rw_data \in Datum
    /\ card \in Card
    /\ dd \subseteq Slots /\ rx_cur \in Slots
    /\ place \in Places
    /\ unmasked \in BOOLEAN /\ missed \in BOOLEAN

\* The descriptors the card has filled and the driver has not released lie in
\* one stretch from the driver's place to the card's: packets are taken in
\* the order they came, each once, and none is overwritten, although the card
\* goes on while the driver works and the tail it obeys is the one of before.
RingInOrder ==
    LET first == IF place = "advance" THEN (rx_cur + 1) % N ELSE rx_cur
    IN \E n \in 0 .. N :
          /\ dd = {(first + k) % N : k \in 0 .. n - 1}
          /\ card.rdh = (first + n) % N

\* A packet that waits while the handler is not looking has its cause pending,
\* unless the driver has read that cause and let it pass: no packet slips
\* between the last look at the ring and the return.
WaitingIsSignalled ==
    rx_cur \in dd /\ place \in {"none", "handler", "update_tail", "out"}
        => "RXT0" \in card.icr \/ missed

\* The set-up reaches the card: the handler, which uses the same two words,
\* never runs between the steps of a mainline's command that counts.
MaskReachesCard ==
    pc = Done =>
        card.ims = Causes /\ card.rdt \in Slots /\ card.enabled

\* A packet in the ring is taken in the end, unless its cause is let pass.
PacketsTaken ==
    \A i \in Slots : i \in dd ~> (i \notin dd \/ missed)

-----------------------------------------------------------------------------
\* nic.asm:908 "If they are equal nothing to process".
EqualMeansEmpty ==
    place = "process_packet" /\ card.rdh = rx_cur => rx_cur \notin dd
=============================================================================
