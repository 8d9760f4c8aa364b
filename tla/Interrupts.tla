----------------------------- MODULE Interrupts -----------------------------
(***************************************************************************)
(* Interrupts in the third stage: the vector table and the handler table   *)
(* (idt.asm), the two interrupt controllers (pic.asm, with the chip of     *)
(* iodev/pic.cc), the stubs every interrupt and exception goes through,    *)
(* and the network card, the one device whose driver registers a handler.  *)
(*                                                                         *)
(* The mainline calls init_idt, setup_idt and e1000_enable_interrupts, in  *)
(* the order the kernel lists them.  Devices raise and drop their lines    *)
(* between any two of its steps; the stage starts as the second left it:   *)
(* interrupts enabled, every line masked, an IDT of limit 0.               *)
(***************************************************************************)
EXTENDS Integers, FiniteSets, SequencesExt

CONSTANTS
    DeviceLines,    \* lines of devices no driver knows: timer, keyboard, ...
    NicLines,       \* the lines the BIOS may route the network card to
    Exceptions,     \* exceptions the kernel's own code may raise
    MaxEvents       \* bound: line raises, packets and exceptions of a run

ASSUME LinesAssumption ==
    /\ DeviceLines \subseteq (0 .. 15) \ {2}
    /\ NicLines \subseteq (0 .. 15) \ ({2, 7, 15} \union DeviceLines)
ASSUME ExceptionsAssumption == Exceptions \subseteq 0 .. 31
ASSUME MaxEventsAssumption == MaxEvents \in Nat

VARIABLES
    pc,         \* next step of the mainline
    iflag,      \* IF
    idt,        \* vectors with a gate
    idtr,       \* the table is loaded
    junk,       \* the handler table holds what the memory held
    registered, \* vectors with the card's handler in the handler table
    pics,       \* the interrupt controllers
    split,      \* the chipset splits a 32-bit port access into bytes
    nic,        \* the card: its line, pending causes, interrupts enabled
    frames,     \* interrupts and exceptions under way, innermost last
    sp,         \* quadwords the stubs have on the stack
    neglected,  \* history: lines acknowledged whose EOI was never sent
    events

vars == <<pc, iflag, idt, idtr, junk, registered, pics, split, nic, frames,
          sp, neglected, events>>
cpuVars == <<idt, idtr, junk, registered>>

-----------------------------------------------------------------------------
(* The interrupt controllers. A byte is the set of its bits. *)

Bits == 0 .. 7

\* icw: the initialisation word expected next on the data port, 0 for none.
Pic == [in : SUBSET Bits, irr : SUBSET Bits, imr : SUBSET Bits,
        isr : SUBSET Bits, int : BOOLEAN, irq : Bits, icw : {0, 2, 3, 4},
        base : 0 .. 255]

Line(ctl, b) == IF ctl = "master" THEN b ELSE 8 + b
Controller(line) == IF line < 8 THEN "master" ELSE "slave"

\* Lines the BIOS set to level trigger: those it routes PCI devices to.
Level == {9, 11}

Ready(p) == {b \in p.irr \ p.imr : \A s \in p.isr : b < s}

\* An interrupt the processor has not acknowledged is never withdrawn.
Service(p) ==
    IF p.int \/ Ready(p) = {} THEN p
    ELSE [p EXCEPT !.int = TRUE, !.irq = Min(Ready(p))]

Raised(p, b) ==
    IF b \in p.in THEN p
    ELSE Service([p EXCEPT !.in = @ \union {b}, !.irr = @ \union {b}])

\* p becomes controller ctl; a slave that asks for service raises line 2.
Update(ps, ctl, p) ==
    IF ctl = "master" THEN [ps EXCEPT !.master = p]
    ELSE [slave |-> p,
          master |-> IF p.int /\ ~ps.slave.int THEN Raised(ps.master, 2)
                     ELSE ps.master]

RaiseLine(ps, line) ==
    LET ctl == Controller(line)
    IN Update(ps, ctl, Raised(ps[ctl], line % 8))

LowerLine(ps, line) ==
    LET ctl == Controller(line)
    IN [ps EXCEPT ![ctl].in = @ \ {line % 8}, ![ctl].irr = @ \ {line % 8}]

\* The byte without its three low bits.
VectorBase(byte) ==
    LET Weight(b, w) == IF b \in byte THEN w ELSE 0
    IN Weight(3, 8) + Weight(4, 16) + Weight(5, 32) + Weight(6, 64)
         + Weight(7, 128)

ClearHighest(p) ==
    IF p.isr = {} THEN p ELSE [p EXCEPT !.isr = @ \ {Min(@)}]

\* ICW1 if bit 4 is set; else the EOI, the one other command the kernel uses.
OutCommand(ps, ctl, byte) ==
    IF 4 \in byte
    THEN LET reset == [ps[ctl] EXCEPT !.imr = {}, !.isr = {}, !.irr = {},
                                      !.int = FALSE, !.icw = 2]
             ps1 == [ps EXCEPT ![ctl] = reset]
         IN IF ctl = "slave" THEN [ps1 EXCEPT !.master.in = @ \ {2}] ELSE ps1
    ELSE Update(ps, ctl, Service(ClearHighest(ps[ctl])))

OutData(ps, ctl, byte) ==
    CASE ps[ctl].icw = 0 ->
            Update(ps, ctl, Service([ps[ctl] EXCEPT !.imr = byte]))
      [] ps[ctl].icw = 2 ->
            [ps EXCEPT ![ctl].base = VectorBase(byte), ![ctl].icw = 3]
      [] ps[ctl].icw = 3 -> [ps EXCEPT ![ctl].icw = 4]
      [] ps[ctl].icw = 4 -> [ps EXCEPT ![ctl].icw = 0]

\* The processor acknowledges INT; a line that fell meanwhile reads as line 7.
AckedPic(p, ctl) ==
    [p EXCEPT !.irr = IF Line(ctl, p.irq) \in Level THEN @ ELSE @ \ {p.irq},
              !.isr = @ \union {p.irq}]

IAC(ps) ==
    LET m == [ps.master EXCEPT !.int = FALSE]
        m1 == AckedPic(m, "master")
        s == [ps.slave EXCEPT !.int = FALSE]
        mc == [m1 EXCEPT !.in = @ \ {2}]
        ps1 == Update([master |-> mc, slave |-> s], "slave",
                      Service(AckedPic(s, "slave")))
    IN CASE m.irr = {} ->
              [pics |-> [ps EXCEPT !.master = m], vector |-> m.base + 7,
               lines |-> {}]
         [] m.irr # {} /\ m.irq # 2 ->
              [pics |-> [ps EXCEPT !.master = Service(m1)],
               vector |-> m.base + m.irq, lines |-> {m.irq}]
         [] m.irr # {} /\ m.irq = 2 /\ s.irr = {} ->
              [pics |-> [master |-> mc, slave |-> s],
               vector |-> s.base + 7, lines |-> {2}]
         [] m.irr # {} /\ m.irq = 2 /\ s.irr # {} ->
              [pics |-> [ps1 EXCEPT !.master = Service(@)],
               vector |-> s.base + s.irq, lines |-> {2, 8 + s.irq}]

InService == pics.master.isr \union {8 + b : b \in pics.slave.isr}

-----------------------------------------------------------------------------
(* The mainline. *)

Out(ctl, port, byte) ==
    [do |-> "out", ctl |-> ctl, port |-> port, byte |-> byte]
OutBoth(port, byte) ==
    <<Out("master", port, byte), Out("slave", port, byte)>>
Do(what) == [do |-> what]
DoWith(what, arg) == [do |-> what, arg |-> arg]

configure_pic ==
    OutBoth("data", Bits) \o OutBoth("command", {0, 4})
    \o <<Out("master", "data", {5}), Out("slave", "data", {3, 5}),
         Out("master", "data", {2}), Out("slave", "data", {1})>>
    \o OutBoth("data", {0}) \o OutBoth("data", {})

SetMasks == [i \in 1 .. 16 |-> DoWith("set_irq_mask", i - 1)]

SetupEntries ==
    <<DoWith("setup_idt_entries", 0 .. 31),
      DoWith("setup_idt_entries", 32 .. 47),
      DoWith("setup_idt_entries", {255})>>

setup_idt ==
    <<Do("cli")>> \o configure_pic \o SetMasks \o SetupEntries
    \o <<Do("load_idt_descriptor"), DoWith("clear_irq_mask", 0), Do("sti")>>

e1000_enable_interrupts ==
    <<Do("register_idt_handler"), Do("clear_nic_mask"), Do("write_imask"),
      Do("read_icr")>>

Program == <<Do("init_idt")>> \o setup_idt \o e1000_enable_interrupts
                \o <<Do("kernel_halt")>>

Halted == Len(Program)

-----------------------------------------------------------------------------
(* Frames. Everything from the gate to iretq runs with IF = 0. *)

HardwareErrorCodes == {8, 10, 11, 12, 13, 14, 17, 21}
\* Mutant: the page fault's stub pushes a 0 of its own.
ErrCodeStubsNoPageFault == {8, 10, 11, 12, 13}

ErrCodeStubs == {8, 10, 11, 12, 13, 14}

\* What the processor and the stub's macro push, and what irq_common_stub and
\* isr_common_stub take back: two quadwords, then the five of iretq.
Pushed(vector, exception) ==
    5 + (IF exception /\ vector \in HardwareErrorCodes THEN 1 ELSE 0)
      + (IF exception /\ vector \in ErrCodeStubs THEN 1 ELSE 2)
Popped == 7

\* at: where the frame is in its stub.
Places == {"stub", "default", "handler", "eoi_master", "eoi_slave", "out",
           "crash"}

\* The instruction stream that runs: the mainline's or the innermost frame's.
Running(place) == frames # <<>> /\ frames[Len(frames)].at = place
InMainline == frames = <<>>
Goto(place) == frames' = [frames EXCEPT ![Len(frames)].at = place]
Top == frames[Len(frames)]

\* Control goes through gate `vector'; without one the machine resets.
Enter(vector, exception, lines) ==
    /\ frames' = Append(frames,
          [vector |-> vector, exception |-> exception, lines |-> lines,
           if |-> iflag,
           at |-> IF idtr /\ vector \in idt THEN "stub" ELSE "crash"])
    /\ iflag' = FALSE
    /\ sp' = sp + Pushed(vector, exception)

-----------------------------------------------------------------------------
Init ==
    /\ pc = 1
    /\ iflag = TRUE
    /\ idt = {} /\ idtr = FALSE /\ junk = TRUE /\ registered = {}
    /\ \E up \in SUBSET DeviceLines :
         LET p(ctl, base) ==
                LET on == {l % 8 : l \in {l \in up : Controller(l) = ctl}}
                IN [in |-> on, irr |-> on, imr |-> Bits, isr |-> {},
                    int |-> FALSE, irq |-> 0, icw |-> 0, base |-> base]
         IN pics = [master |-> p("master", 8), slave |-> p("slave", 112)]
    /\ split \in BOOLEAN
    /\ \E line \in NicLines :
         nic = [line |-> line, icr |-> FALSE, imask |-> FALSE]
    /\ frames = <<>> /\ sp = 0
    /\ neglected = {} /\ events = 0

-----------------------------------------------------------------------------
(* The mainline's steps. *)

Step(what) == InMainline /\ Program[pc].do = what /\ pc' = pc + 1

\* Mutant: the 4 KB the comment speaks of, which is the vector table alone.
InitIdtTableOnly ==
    /\ Step("init_idt")
    /\ idt' = {}
    /\ UNCHANGED <<iflag, idtr, junk, registered, pics, split, nic, frames,
                   sp, neglected, events>>

\* 1024 quadwords: the vector table and, behind it, the handler table.
InitIdt ==
    /\ Step("init_idt")
    /\ idt' = {} /\ junk' = FALSE /\ registered' = {}
    /\ UNCHANGED <<iflag, idtr, pics, split, nic, frames, sp, neglected,
                   events>>

Cli ==
    /\ Step("cli")
    /\ iflag' = FALSE
    /\ UNCHANGED <<cpuVars, pics, split, nic, frames, sp, neglected, events>>

Sti ==
    /\ Step("sti")
    /\ iflag' = TRUE
    /\ UNCHANGED <<cpuVars, pics, split, nic, frames, sp, neglected, events>>

PicOut ==
    /\ Step("out")
    /\ LET o == Program[pc]
       IN pics' = IF o.port = "command" THEN OutCommand(pics, o.ctl, o.byte)
                  ELSE OutData(pics, o.ctl, o.byte)
    /\ UNCHANGED <<cpuVars, iflag, split, nic, frames, sp, neglected, events>>

\* `in eax, dx' and `out dx, eax': a chipset that does not split them into
\* bytes ignores the write.
WriteMask(line, imr) ==
    IF split THEN OutData(pics, Controller(line), imr) ELSE pics

\* Mutant: the slave's lines are not made relative to the slave.
set_irq_mask_absolute(line) ==
    WriteMask(line, pics[Controller(line)].imr \union {line})

set_irq_mask(line) ==
    WriteMask(line, pics[Controller(line)].imr \union {line % 8})

\* xor: a line that was not masked becomes masked.
clear_irq_mask(line) ==
    LET imr == pics[Controller(line)].imr
        bit == {line % 8}
    IN WriteMask(line, (imr \ bit) \union (bit \ imr))

SetIrqMask ==
    /\ Step("set_irq_mask")
    /\ pics' = set_irq_mask(Program[pc].arg)
    /\ UNCHANGED <<cpuVars, iflag, split, nic, frames, sp, neglected, events>>

ClearIrqMask ==
    /\ \/ Step("clear_irq_mask") /\ pics' = clear_irq_mask(Program[pc].arg)
       \/ Step("clear_nic_mask") /\ pics' = clear_irq_mask(nic.line)
    /\ UNCHANGED <<cpuVars, iflag, split, nic, frames, sp, neglected, events>>

SetupIdtEntries ==
    /\ Step("setup_idt_entries")
    /\ idt' = idt \union Program[pc].arg
    /\ UNCHANGED <<iflag, idtr, junk, registered, pics, split, nic, frames,
                   sp, neglected, events>>

LoadIdtDescriptor ==
    /\ Step("load_idt_descriptor")
    /\ idtr' = TRUE
    /\ UNCHANGED <<iflag, idt, junk, registered, pics, split, nic, frames,
                   sp, neglected, events>>

RegisterIdtHandler ==
    /\ Step("register_idt_handler")
    /\ registered' = registered \union {nic.line + 32}
    /\ UNCHANGED <<iflag, idt, idtr, junk, pics, split, nic, frames, sp,
                   neglected, events>>

\* The card drives its line while a cause it may interrupt for is pending.
Drive(n) ==
    /\ nic' = n
    /\ pics' = IF n.icr /\ n.imask THEN RaiseLine(pics, n.line)
               ELSE LowerLine(pics, n.line)

WriteImask ==
    /\ Step("write_imask")
    /\ Drive([nic EXCEPT !.imask = TRUE])
    /\ UNCHANGED <<cpuVars, iflag, split, frames, sp, neglected, events>>

\* Reading ICR clears every cause: the one of a packet too.
ReadIcr ==
    /\ Step("read_icr")
    /\ Drive([nic EXCEPT !.icr = FALSE])
    /\ UNCHANGED <<cpuVars, iflag, split, frames, sp, neglected, events>>

KernelHalt ==
    /\ InMainline /\ pc = Halted
    /\ UNCHANGED vars

-----------------------------------------------------------------------------
(* Interrupts and exceptions. *)

Interrupt ==
    /\ iflag /\ pics.master.int
    /\ LET ack == IAC(pics)
       IN pics' = ack.pics /\ Enter(ack.vector, FALSE, ack.lines)
    /\ UNCHANGED <<pc, cpuVars, split, nic, neglected, events>>

\* The instruction that runs faults; it is run again when the stub returns.
Exception ==
    /\ InMainline /\ idtr /\ pc < Halted
    /\ events < MaxEvents /\ events' = events + 1
    /\ \E v \in Exceptions : Enter(v, TRUE, {})
    /\ UNCHANGED <<pc, cpuVars, pics, split, nic, neglected>>

\* The stub looks the handler up; a NULL one is replaced by the default.
Dispatch ==
    /\ Running("stub")
    /\ Goto(IF junk THEN "crash"
            ELSE IF Top.vector \in registered THEN "handler" ELSE "default")
    /\ UNCHANGED <<pc, iflag, cpuVars, pics, split, nic, sp, neglected, events>>

\* Nothing is acknowledged on this path.
IdtDefaultHandler ==
    /\ Running("default")
    /\ Goto("out")
    /\ neglected' = neglected \union Top.lines
    /\ UNCHANGED <<pc, iflag, cpuVars, pics, split, nic, sp, events>>

\* Mutant: the jump to .out comes before the EOIs.
E1000IntHandlerNoEoi ==
    /\ Running("handler")
    /\ Drive([nic EXCEPT !.icr = FALSE])
    /\ Goto("out")
    /\ UNCHANGED <<pc, iflag, cpuVars, split, sp, neglected, events>>

\* The card's handler reads ICR, and what it does with the packet touches
\* nothing here; only an interrupt's stub then sends EOIs.
E1000IntHandler ==
    /\ Running("handler")
    /\ Drive([nic EXCEPT !.icr = FALSE])
    /\ Goto(IF Top.exception THEN "out" ELSE "eoi_master")
    /\ UNCHANGED <<pc, iflag, cpuVars, split, sp, neglected, events>>

\* Mutant: the handler has already sent the EOI the stub sends.
EoiMasterTwice ==
    /\ Running("eoi_master")
    /\ pics' = OutCommand(OutCommand(pics, "master", {5}), "master", {5})
    /\ Goto("eoi_slave")
    /\ UNCHANGED <<pc, iflag, cpuVars, split, nic, sp, neglected, events>>

EoiMaster ==
    /\ Running("eoi_master")
    /\ pics' = OutCommand(pics, "master", {5})
    /\ Goto("eoi_slave")
    /\ UNCHANGED <<pc, iflag, cpuVars, split, nic, sp, neglected, events>>

\* Mutant: the slave is not told.
EoiSlaveForgotten ==
    /\ Running("eoi_slave")
    /\ Goto("out")
    /\ UNCHANGED <<pc, iflag, cpuVars, pics, split, nic, sp, neglected, events>>

\* Mutant: sti where the EOIs are, with the registers still to be restored.
EoiSlaveThenSti ==
    /\ Running("eoi_slave")
    /\ pics' = OutCommand(pics, "slave", {5})
    /\ Goto("out")
    /\ iflag' = TRUE
    /\ UNCHANGED <<pc, cpuVars, split, nic, sp, neglected, events>>

EoiSlave ==
    /\ Running("eoi_slave")
    /\ pics' = OutCommand(pics, "slave", {5})
    /\ Goto("out")
    /\ UNCHANGED <<pc, iflag, cpuVars, split, nic, sp, neglected, events>>

\* popaq, add rsp, sti, iretq: the processor takes no interrupt between sti
\* and the instruction after it, and iretq restores IF.
Return ==
    /\ Running("out")
    /\ sp' = sp - Popped
    /\ iflag' = Top.if
    /\ frames' = Front(frames)
    /\ UNCHANGED <<pc, cpuVars, pics, split, nic, neglected, events>>

-----------------------------------------------------------------------------
(* The devices. *)

Event == events < MaxEvents /\ events' = events + 1

DeviceRaises(line) ==
    /\ Event
    /\ line % 8 \notin pics[Controller(line)].in
    /\ pics' = RaiseLine(pics, line)
    /\ UNCHANGED <<pc, iflag, cpuVars, split, nic, frames, sp, neglected>>

DeviceLowers(line) ==
    /\ line % 8 \in pics[Controller(line)].in
    /\ pics' = LowerLine(pics, line)
    /\ UNCHANGED <<pc, iflag, cpuVars, split, nic, frames, sp, neglected,
                   events>>

PacketArrives ==
    /\ Event
    /\ Drive([nic EXCEPT !.icr = TRUE])
    /\ UNCHANGED <<pc, iflag, cpuVars, split, frames, sp, neglected>>

-----------------------------------------------------------------------------
Mainline ==
    \/ InitIdt \/ Cli \/ Sti \/ PicOut \/ SetIrqMask \/ ClearIrqMask
    \/ SetupIdtEntries \/ LoadIdtDescriptor \/ RegisterIdtHandler
    \/ WriteImask \/ ReadIcr \/ KernelHalt

Stub ==
    \/ Dispatch \/ IdtDefaultHandler \/ E1000IntHandler
    \/ EoiMaster \/ EoiSlave \/ Return

Device ==
    \/ \E line \in DeviceLines : DeviceRaises(line) \/ DeviceLowers(line)
    \/ PacketArrives

Next == Mainline \/ Interrupt \/ Exception \/ Stub \/ Device

\* The processor keeps executing, and takes an interrupt it is shown: INT is
\* never withdrawn and the mainline leaves IF set.  Devices owe nothing.
Fairness == WF_vars(Mainline) /\ WF_vars(Interrupt) /\ WF_vars(Stub)

Spec == Init /\ [][Next]_vars /\ Fairness

-----------------------------------------------------------------------------
Frame == [vector : 0 .. 255, exception : BOOLEAN, lines : SUBSET (0 .. 15),
          if : BOOLEAN, at : Places]

\* Every variable keeps its type.
TypeOK ==
    /\ pc \in 1 .. Halted /\ iflag \in BOOLEAN
    /\ idt \subseteq 0 .. 255 /\ idtr \in BOOLEAN
    /\ junk \in BOOLEAN /\ registered \subseteq 0 .. 255
    /\ pics \in [master : Pic, slave : Pic] /\ split \in BOOLEAN
    /\ nic \in [line : NicLines, icr : BOOLEAN, imask : BOOLEAN]
    /\ frames \in Seq(Frame) /\ sp \in Int
    /\ neglected \subseteq 0 .. 15
    /\ events \in 0 .. MaxEvents

\* No interrupt or exception goes through an absent gate or calls what the
\* memory held before init_idt: setup_idt keeps interrupts out until the
\* tables are built, though the kernel starts with IF set.
NeverCrashes == ~Running("crash")

\* At most one interrupt is under way, whatever the devices do: the stack of
\* the third stage is bounded, and no handler is interrupted by itself.
OneInterruptAtATime ==
    Cardinality({i \in DOMAIN frames : ~frames[i].exception}) <= 1

\* Each stub takes off the stack what the processor and its macro pushed, so
\* the interrupted code finds its own stack: an exception's error code is
\* dropped exactly when there is one.
StackBalanced == InMainline => sp = 0

\* When no stub runs, a line is still in service only if the default handler
\* took its interrupt: the other path acknowledges what it served, and never
\* some other line instead.
OnlyNeglectedInService == InMainline => InService \subseteq neglected

\* An EOI to the master ends the interrupt the stub is serving, none other.
MasterEoiIsOwn ==
    [][EoiMaster =>
         /\ pics.master.isr \ pics'.master.isr = Top.lines \intersect Bits
         /\ pics.slave.isr = pics'.slave.isr]_vars

\* A packet is noticed in the end, unless the default handler has left a line
\* in service or the cascade is masked: no interrupt of the card is lost to
\* the EOIs, the trigger mode or the read of ICR that ends its set-up.
PacketsNoticed ==
    (nic.icr /\ nic.imask)
        ~> (~nic.icr \/ neglected # {} \/ 2 \in pics.master.imr)

=============================================================================
