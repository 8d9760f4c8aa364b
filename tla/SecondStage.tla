----------------------------- MODULE SecondStage -----------------------------
(***************************************************************************)
(* The second stage: real-mode code that opens the A20 gate, checks the    *)
(* processor, scans the memory, builds the boot page tables and switches   *)
(* to 64-bit mode, with the user's keys and the timer interrupting it.     *)
(*                                                                         *)
(* The text it prints and the tables it builds are left out (modules       *)
(* MemoryScanner and BootPageTables model the latter); what is kept is the *)
(* order of the calls, the stack where a routine unbalances it, the        *)
(* interrupt controller's mask, the vector table in force, and the control *)
(* bits of the processor with the faults it raises when they are set in a  *)
(* wrong order.                                                            *)
(***************************************************************************)
EXTENDS Naturals, Sequences

CONSTANTS
    Machines,       \* the machines the stage may run on
    KeyBuffer,      \* keys the BIOS buffers
    MaxFrames       \* bound: register frames the model keeps on the stack

ASSUME KeyBufferAssumption == KeyBuffer \in Nat \ {0}
ASSUME MaxFramesAssumption == MaxFrames \in Nat \ {0}

\* cpuid: bit 21 of EFLAGS can be flipped.  maxLeaf: EAX of CPUID 80000000h,
\* as its top bit and the other 31; bit29 what CPUID 80000001h then returns.
\* a20Opens: INT 15h/2401h really opens the gate.  flatData: the BIOS left DS
\* with a limit above 64K ("unreal mode").  faulty: BIOS calls may fail.
MachineType ==
    [cpuid : BOOLEAN, maxLeaf : [top : BOOLEAN, low : Nat], bit29 : BOOLEAN,
     a20Open : BOOLEAN, a20Opens : BOOLEAN, flatData : BOOLEAN,
     faulty : BOOLEAN]

ASSUME MachinesAssumption == Machines \subseteq MachineType

VARIABLES
    machine,
    pc,
    stack,      \* words above the initial SP, last pushed first
    a20,        \* the gate is open
    masked,     \* both interrupt controllers mask every line
    vectors,    \* "bios" (the IVT) or "none" (an IDT of limit 0)
    pending,    \* interrupt lines raised and not yet served
    keys,       \* keys in the BIOS buffer
    cpu         \* control bits set so far

vars == <<machine, pc, stack, a20, masked, vectors, pending, keys, cpu>>

\* Mutant: the IDT is emptied before the controllers are masked.
ProgramIdtFirst ==
    <<"key_1", "key_2", "check_a20_gate", "key_3", "check_long_mode", "key_4",
      "memory_scanner", "key_5", "key_6", "build_page_table",
      "load_idt_descriptor", "disable_pic", "video_cls_16", "cr4", "cr3",
      "efer", "cr0", "lgdt", "far_jump", "LM64", "third_stage">>

\* The calls of the main program in order; each is followed by the next.
Program ==
    <<"key_1", "key_2", "check_a20_gate", "key_3", "check_long_mode", "key_4",
      "memory_scanner", "key_5", "key_6", "build_page_table", "disable_pic",
      "load_idt_descriptor", "video_cls_16", "cr4", "cr3", "efer", "cr0",
      "lgdt", "far_jump", "LM64", "third_stage">>

KeyWaits == {"key_1", "key_2", "key_3", "key_4", "key_5", "key_6"}

Position(label) == CHOOSE i \in 1..Len(Program) : Program[i] = label
NextCall == Program[Position(pc) + 1]

Stopped == {"hang", "wild", "stack_exhausted", "triple_fault", "third_stage"}

Environment == <<machine, pending, keys>>

Init ==
    /\ machine \in Machines
    /\ pc = "key_1"
    /\ stack = <<>>
    /\ a20 = machine.a20Open
    /\ masked = FALSE
    /\ vectors = "bios"
    /\ pending = {}
    /\ keys = 0
    /\ cpu = {}

\* Finish the current call of the main program.
Proceed(label) == pc = label /\ pc' = NextCall

\* A fault with no vector to take is a triple fault: the processor resets.
Fault == pc' = IF vectors = "none" THEN "triple_fault" ELSE "hang"

-----------------------------------------------------------------------------
(***************************************************************************)
(* Interrupts.  Nothing in this stage clears IF: a line that is raised and *)
(* not masked is served between two instructions.                          *)
(***************************************************************************)

Lines == {"timer", "keyboard"}
Running == pc \notin Stopped \ {"hang"}

Raise(line) ==
    /\ Running
    /\ line \notin pending
    /\ pending' = pending \union {line}
    /\ UNCHANGED <<machine, pc, stack, a20, masked, vectors, keys, cpu>>

\* Through the vector table the BIOS handler runs and returns; a key goes to
\* its buffer.  Through an empty table there is nothing to run.
Serve(line) ==
    /\ Running
    /\ ~masked
    /\ line \in pending
    /\ pending' = pending \ {line}
    /\ IF vectors = "bios" /\ "PG" \notin cpu
       THEN /\ keys' = IF line = "keyboard" /\ keys < KeyBuffer
                       THEN keys + 1 ELSE keys
            /\ UNCHANGED pc
       ELSE /\ pc' = "triple_fault"
            /\ UNCHANGED keys
    /\ UNCHANGED <<machine, stack, a20, masked, vectors, cpu>>

-----------------------------------------------------------------------------
(***************************************************************************)
(* Waiting for a key, and the A20 gate.  PUSHA pushes eight words, DI      *)
(* last; a RET that finds DI on top goes to the caller's DI.               *)
(***************************************************************************)

\* Mutant: INT 16h/01h, which does not wait, for 00h.
GetKeyWithoutWaiting ==
    /\ pc \in KeyWaits /\ Proceed(pc)
    /\ keys' = keys - 1
    /\ UNCHANGED <<machine, stack, a20, masked, vectors, pending, cpu>>

GetKeyStroke ==
    /\ pc \in KeyWaits /\ Proceed(pc)
    /\ keys > 0
    /\ keys' = keys - 1
    /\ UNCHANGED <<machine, stack, a20, masked, vectors, pending, cpu>>

Pusha == <<"di", "si", "bp", "sp", "bx", "dx", "cx", "ax">>
Popa(s) == SubSeq(s, 9, Len(s))

CallCheckA20Gate ==
    /\ pc = "check_a20_gate"
    /\ stack' = <<"main">> \o stack
    /\ pc' = "query_a20"
    /\ UNCHANGED <<Environment, a20, masked, vectors, cpu>>

\* Mutant: the answer of INT 15h/2402h is not looked at.
QueryA20Unread ==
    /\ pc = "query_a20"
    /\ Len(stack) + 8 <= 8 * MaxFrames + 1
    /\ stack' = Pusha \o stack
    /\ pc' = "a20_skip" \/ (machine.faulty /\ pc' = "hang")
    /\ UNCHANGED <<Environment, a20, masked, vectors, cpu>>

\* PUSHA and INT 15h/2402h; AL = 0 sends it to enable_a20.
QueryA20 ==
    /\ pc = "query_a20"
    /\ Len(stack) + 8 <= 8 * MaxFrames + 1
    /\ stack' = Pusha \o stack
    /\ \/ pc' = IF a20 THEN "a20_skip" ELSE "enable_a20"
       \/ machine.faulty /\ pc' = "hang"
    /\ UNCHANGED <<Environment, a20, masked, vectors, cpu>>

\* The stack keeps growing towards the vector table; the model stops here.
StackExhausted ==
    /\ pc = "query_a20"
    /\ Len(stack) + 8 > 8 * MaxFrames + 1
    /\ pc' = "stack_exhausted"
    /\ UNCHANGED <<Environment, stack, a20, masked, vectors, cpu>>

\* INT 15h/2401h, then JMP (not RET) to the start of check_a20_gate.
EnableA20 ==
    /\ pc = "enable_a20"
    /\ \/ a20' = machine.a20Opens /\ pc' = "query_a20"
       \/ machine.faulty /\ pc' = "hang" /\ UNCHANGED a20
    /\ UNCHANGED <<Environment, stack, masked, vectors, cpu>>

\* POPA; RET.
A20Skip ==
    /\ pc = "a20_skip"
    /\ stack' = Tail(Popa(stack))
    /\ pc' = IF Head(Popa(stack)) = "main" THEN "key_3" ELSE "wild"
    /\ UNCHANGED <<Environment, a20, masked, vectors, cpu>>

-----------------------------------------------------------------------------
(***************************************************************************)
(* The processor check.  JL compares as signed numbers: a leaf with the    *)
(* top bit clear is positive, above 80000001h.                             *)
(***************************************************************************)

\* Mutant: JLE for JL.
SignedUpTo80000001(leaf) == leaf.top /\ leaf.low <= 1

SignedBelow80000001(leaf) == leaf.top /\ leaf.low < 1

PassesLongModeCheck ==
    /\ machine.cpuid
    /\ ~SignedBelow80000001(machine.maxLeaf)
    /\ machine.bit29

CheckLongMode ==
    /\ pc = "check_long_mode"
    /\ pc' = IF PassesLongModeCheck THEN NextCall ELSE "hang"
    /\ UNCHANGED <<Environment, stack, a20, masked, vectors, cpu>>

\* memory_scanner hangs on any carry of INT 15h/E820h.
ScanMemory ==
    /\ pc = "memory_scanner"
    /\ pc' = NextCall \/ (machine.faulty /\ pc' = "hang")
    /\ UNCHANGED <<Environment, stack, a20, masked, vectors, cpu>>

-----------------------------------------------------------------------------
(***************************************************************************)
(* The switch to long mode.                                                *)
(***************************************************************************)

BuildPageTable ==
    /\ Proceed("build_page_table")
    /\ cpu' = cpu \union {"tables"}
    /\ UNCHANGED <<Environment, stack, a20, masked, vectors>>

DisablePic ==
    /\ Proceed("disable_pic")
    /\ masked' = TRUE
    /\ UNCHANGED <<Environment, stack, a20, vectors, cpu>>

LoadIdtDescriptor ==
    /\ Proceed("load_idt_descriptor")
    /\ vectors' = "none"
    /\ UNCHANGED <<Environment, stack, a20, masked, cpu>>

\* Stores through DS at offset 0xB8000: beyond a 64K limit that is #GP.
VideoCls16 ==
    /\ pc = "video_cls_16"
    /\ IF machine.flatData THEN pc' = NextCall ELSE Fault
    /\ UNCHANGED <<Environment, stack, a20, masked, vectors, cpu>>

SetControl(label, bits) ==
    /\ Proceed(label)
    /\ cpu' = cpu \union bits
    /\ UNCHANGED <<Environment, stack, a20, masked, vectors>>

SetCr4  == SetControl("cr4", {"PAE"})
SetCr3  == SetControl("cr3", {"CR3"})
SetEfer == SetControl("efer", {"LME"})
LoadGdt == SetControl("lgdt", {"GDT"})

LongModeCapable ==
    /\ machine.cpuid /\ machine.bit29
    /\ machine.maxLeaf.top /\ machine.maxLeaf.low >= 1

\* PE and PG at once.  The processor refuses paging in long mode without PAE,
\* and cannot fetch the next instruction without tables that map it.
SetCr0 ==
    /\ pc = "cr0"
    /\ IF {"PAE", "LME", "CR3", "tables"} \subseteq cpu /\ LongModeCapable
       THEN pc' = NextCall /\ cpu' = cpu \union {"PE", "PG"}
       ELSE Fault /\ UNCHANGED cpu
    /\ UNCHANGED <<Environment, stack, a20, masked, vectors>>

FarJump ==
    /\ pc = "far_jump"
    /\ IF {"GDT", "PG"} \subseteq cpu
       THEN pc' = NextCall /\ cpu' = cpu \union {"CS64"}
       ELSE Fault /\ UNCHANGED cpu
    /\ UNCHANGED <<Environment, stack, a20, masked, vectors>>

LM64 ==
    /\ Proceed("LM64")
    /\ cpu' = cpu \union {"DATA_SEG"}
    /\ UNCHANGED <<Environment, stack, a20, masked, vectors>>

Step ==
    \/ GetKeyStroke \/ CallCheckA20Gate \/ QueryA20 \/ StackExhausted
    \/ EnableA20 \/ A20Skip \/ CheckLongMode \/ ScanMemory \/ BuildPageTable
    \/ DisablePic \/ LoadIdtDescriptor \/ VideoCls16 \/ SetCr4 \/ SetCr3
    \/ SetEfer \/ SetCr0 \/ LoadGdt \/ FarJump \/ LM64

Next == Step \/ \E line \in Lines : Raise(line) \/ Serve(line)

\* The processor runs and serves every line that is pending, and the user,
\* asked for a key, presses one.
Spec ==
    /\ Init /\ [][Next]_vars
    /\ WF_vars(Step)
    /\ \A line \in Lines : WF_vars(Serve(line))
    /\ WF_vars(Raise("keyboard"))

-----------------------------------------------------------------------------
(***************************************************************************)
(* What the stage promises.                                                *)
(***************************************************************************)

Labels == {Program[i] : i \in 1..Len(Program)}
          \union {"query_a20", "enable_a20", "a20_skip"} \union Stopped

TypeOK ==
    /\ machine \in Machines
    /\ pc \in Labels
    /\ stack \in Seq({"main"} \union {Pusha[i] : i \in 1..8})
    /\ Len(stack) <= 8 * MaxFrames + 1
    /\ a20 \in BOOLEAN /\ masked \in BOOLEAN
    /\ vectors \in {"bios", "none"}
    /\ pending \subseteq Lines
    /\ keys \in 0..KeyBuffer
    /\ cpu \subseteq {"tables", "PAE", "CR3", "LME", "PE", "PG", "GDT", "CS64",
                      "DATA_SEG"}

\* A machine the stage is written for.
Suitable == LongModeCapable /\ machine.flatData

\* On a suitable machine no interleaving of keys and timer ticks with the
\* switch makes the processor take an interrupt or a fault without vectors:
\* the mask is set before the IDT is emptied and nothing is unmasked later.
NoTripleFault == Suitable => pc # "triple_fault"

\* On a suitable machine with the gate open and a BIOS that does not fail,
\* the third stage is reached whatever interrupts arrive.
ReachesThirdStage ==
    Suitable /\ machine.a20Open /\ ~machine.faulty => <>(pc = "third_stage")

-----------------------------------------------------------------------------
\* a20_gate.asm:42 "check again after enabling" and :33 POPA, RET: enabling the
\* gate returns to the caller.
A20ReturnsToCaller == pc # "wild"
=============================================================================
