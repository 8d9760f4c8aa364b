--------------------------- MODULE SecondStageProofs ---------------------------
(***************************************************************************)
(* The second stage, for every set of machines, keyboard buffer and bound  *)
(* on the stack.  The calls of the main program are in a fixed order, and  *)
(* most of the invariant says of one call what holds After it; the rest    *)
(* follows the A20 routine, which leaves that order, and ties the vector   *)
(* table and paging to the mask of the interrupt controllers.              *)
(***************************************************************************)
EXTENDS SecondStageChain, SequenceTheorems, TLAPS

-----------------------------------------------------------------------------
(* The order of the calls. *)

Calls == {Program[i] : i \in 1 .. 21}

\* The calls that come after one of them.
After(call) == {Program[i] : i \in Position(call) + 1 .. 21}

\* The second stage's main program, step by step.
LEMMA ProgramText ==
    /\ Len(Program) = 21
    /\ Program[1] = "key_1" /\ Program[2] = "key_2"
    /\ Program[3] = "check_a20_gate" /\ Program[4] = "key_3"
    /\ Program[5] = "check_long_mode" /\ Program[6] = "key_4"
    /\ Program[7] = "memory_scanner" /\ Program[8] = "key_5"
    /\ Program[9] = "key_6" /\ Program[10] = "build_page_table"
    /\ Program[11] = "disable_pic" /\ Program[12] = "load_idt_descriptor"
    /\ Program[13] = "video_cls_16" /\ Program[14] = "cr4"
    /\ Program[15] = "cr3" /\ Program[16] = "efer" /\ Program[17] = "cr0"
    /\ Program[18] = "lgdt" /\ Program[19] = "far_jump"
    /\ Program[20] = "LM64" /\ Program[21] = "third_stage"
  BY DEF Program

\* The labels of its steps.
LEMMA CallsAre ==
    Calls = {"key_1", "key_2", "check_a20_gate", "key_3", "check_long_mode",
             "key_4", "memory_scanner", "key_5", "key_6", "build_page_table",
             "disable_pic", "load_idt_descriptor", "video_cls_16", "cr4",
             "cr3", "efer", "cr0", "lgdt", "far_jump", "LM64", "third_stage"}
  BY ProgramText DEF Calls

\* No call is made twice.
LEMMA CallsDiffer ==
    \A i, j \in 1 .. 21 : Program[i] = Program[j] => i = j
  BY ProgramText

\* No label occurs twice, so a label says how far the program is.
LEMMA PositionIs == \A i \in 1 .. 21 : Position(Program[i]) = i
<1> SUFFICES ASSUME NEW i \in 1 .. 21
             PROVE  Position(Program[i]) = i
  OBVIOUS
<1>1. \A j \in 1 .. 21 : Program[j] = Program[i] <=> j = i
  BY CallsDiffer
<1> QED
  BY <1>1, ProgramText DEF Position

\* A call is after another one when it is further on in the program; the next
\* call is after those its predecessor was after, and after its predecessor.
LEMMA AfterNext ==
    ASSUME NEW call \in Calls, NEW p \in 1 .. 20
    PROVE  /\ Program[p + 1] \in After(call)
                <=> Program[p] \in After(call) \/ Program[p] = call
           /\ Program[Position(Program[p]) + 1] = Program[p + 1]
<1>1. PICK c \in 1 .. 21 : call = Program[c]
  BY DEF Calls
<1>2. Position(call) = c /\ Position(Program[p]) = p
  BY <1>1, PositionIs
<1>3. \A i \in 1 .. 21 : Program[i] \in After(call) <=> i > c
  BY <1>2, CallsDiffer DEF After
<1>4. Program[p] = call <=> p = c
  BY <1>1, CallsDiffer
<1> QED
  BY <1>2, <1>3, <1>4

\* What a step to the next call changes.
LEMMA Proceeds ==
    ASSUME pc \in Calls \ {"third_stage"}, pc' = NextCall
    PROVE  /\ pc' \in Calls
           /\ \A call \in Calls :
                 pc' \in After(call) <=> pc \in After(call) \/ pc = call
<1>1. PICK p \in 1 .. 20 : pc = Program[p]
  BY ProgramText DEF Calls
<1>2. pc' = Program[p + 1]
  BY <1>1, AfterNext, CallsAre DEF NextCall
<1> QED
  BY <1>1, <1>2, AfterNext DEF Calls

\* The places that are not calls of the main program, and key_3, where the
\* A20 routine returns to.
LEMMA NotAfter ==
    ASSUME NEW call \in Calls
    PROVE  /\ After(call) \subseteq Calls
           /\ "key_1" \notin After(call)
           /\ call \in {"build_page_table", "disable_pic",
                        "load_idt_descriptor", "cr4", "cr3", "efer", "cr0",
                        "lgdt", "far_jump"} => "key_3" \notin After(call)
<1>1. PICK c \in 1 .. 21 : call = Program[c]
  BY DEF Calls
<1>2. Position(call) = c
  BY <1>1, PositionIs
<1>3. \A i \in 1 .. 21 : Program[i] \in After(call) <=> i > c
  BY <1>2, CallsDiffer DEF After
<1>4. After(call) \subseteq Calls
  BY <1>2 DEF After, Calls
<1>5. "key_1" \notin After(call)
  BY <1>3, ProgramText
<1>6. call \in {"build_page_table", "disable_pic", "load_idt_descriptor",
                "cr4", "cr3", "efer", "cr0", "lgdt", "far_jump"} => c >= 10
  BY <1>1, ProgramText
<1> QED
  BY <1>3, <1>4, <1>5, <1>6, ProgramText

\* The order of the calls the switch rests on.
LEMMA OrderIs ==
    /\ "load_idt_descriptor" \in After("disable_pic")
    /\ \A call \in {"video_cls_16", "cr4", "cr3", "efer", "cr0", "lgdt",
                    "far_jump", "LM64"} :
          call \in After("disable_pic")
    /\ \A call \in {"build_page_table", "cr4", "cr3", "efer"} :
          "cr0" \in After(call)
    /\ \A call \in {"cr0", "lgdt"} : "far_jump" \in After(call)
    /\ \A call \in {"check_a20_gate", "build_page_table", "disable_pic",
                    "load_idt_descriptor", "cr4", "cr3", "efer", "cr0",
                    "lgdt", "far_jump"} :
          "LM64" \in After(call)
<1>1. \A i, j \in 1 .. 21 : i > j => Program[i] \in After(Program[j])
  BY PositionIs DEF After
<1>2. \A i \in 12 .. 20 : Program[i] \in After(Program[11])
  BY <1>1
<1>3. \A j \in {10, 14, 15, 16} : Program[17] \in After(Program[j])
  BY <1>1
<1>4. \A j \in {17, 18} : Program[19] \in After(Program[j])
  BY <1>1
<1>5. \A j \in 1 .. 19 : Program[20] \in After(Program[j])
  BY <1>1
<1> QED
  BY <1>2, <1>3, <1>4, <1>5, ProgramText

-----------------------------------------------------------------------------
(* The inductive invariant. *)

\* The A20 routine: it asks for the gate to be opened when it is closed only,
\* it returns when it is open, and what it pushed is on the stack until then.
A20Here ==
    /\ pc \in {"key_1", "key_2", "check_a20_gate"} => stack = <<>>
    /\ pc = "query_a20" => Len(stack) >= 1
    /\ pc \in {"enable_a20", "a20_skip"} => Len(stack) >= 9
    /\ pc = "enable_a20" => a20 = FALSE
    /\ pc = "a20_skip" \/ pc \in After("check_a20_gate") => a20 = TRUE

\* What a call puts in place is there after it.
SwitchHere ==
    /\ pc \in After("build_page_table") => "tables" \in cpu
    /\ pc \in After("cr4") => "PAE" \in cpu
    /\ pc \in After("cr3") => "CR3" \in cpu
    /\ pc \in After("efer") => "LME" \in cpu
    /\ pc \in After("cr0") => {"PE", "PG"} \subseteq cpu
    /\ pc \in After("lgdt") => "GDT" \in cpu
    /\ pc \in After("far_jump") => "CS64" \in cpu
    /\ pc \in After("load_idt_descriptor") => vectors = "none"

\* The mask comes before anything an interrupt could not survive.
MaskedFirst ==
    /\ pc \in After("disable_pic") => masked = TRUE
    /\ vectors = "none" => masked = TRUE
    /\ "PG" \in cpu => masked = TRUE

IInv == TypeOK /\ A20Here /\ SwitchHere /\ MaskedFirst /\ NoTripleFault

-----------------------------------------------------------------------------
(* What a step of each kind keeps. *)

\* The calls the invariant speaks of.
Landmarks ==
    {"check_a20_gate", "build_page_table", "disable_pic",
     "load_idt_descriptor", "cr4", "cr3", "efer", "cr0", "lgdt", "far_jump"}

\* The steps the invariant counts from are steps of the program.
LEMMA LandmarksAreCalls == Landmarks \subseteq Calls
  BY CallsAre DEF Landmarks

\* The labels outside the program come after none of its steps.
LEMMA PlacesAre ==
    /\ Labels = Calls \union {"query_a20", "enable_a20", "a20_skip"}
                \union Stopped
    /\ \A call \in Landmarks, label \in Labels :
          label \notin Calls => label \notin After(call)
  BY ProgramText, NotAfter, LandmarksAreCalls DEF Labels, Calls

\* The stack of the A20 routine.
Words == {"main"} \union {Pusha[i] : i \in 1 .. 8}

\* What pusha pushes, and the return address of a call.
LEMMA PushaType ==
    /\ Pusha \in Seq(Words) /\ Len(Pusha) = 8
    /\ <<"main">> \in Seq(Words) /\ Len(<<"main">>) = 1
  BY DEF Pusha, Words

\* A step to the next call that only adds to what is in place.
LEMMA CallKeeps ==
    ASSUME IInv, pc \in Calls \ {"third_stage"}, pc' = NextCall,
           UNCHANGED <<machine, stack, a20, pending>>,
           cpu \subseteq cpu', masked => masked',
           keys' \in 0 .. KeyBuffer, masked' \in BOOLEAN,
           vectors' \in {"bios", "none"},
           vectors = "none" => vectors' = vectors,
           cpu' \subseteq {"tables", "PAE", "CR3", "LME", "PE", "PG", "GDT",
                          "CS64", "DATA_SEG"},
           pc # "check_a20_gate",
           pc = "build_page_table" => "tables" \in cpu',
           pc = "cr4" => "PAE" \in cpu', pc = "cr3" => "CR3" \in cpu',
           pc = "efer" => "LME" \in cpu',
           pc = "cr0" => {"PE", "PG"} \subseteq cpu',
           pc = "lgdt" => "GDT" \in cpu', pc = "far_jump" => "CS64" \in cpu',
           pc = "load_idt_descriptor" => vectors' = "none",
           pc = "disable_pic" => masked' = TRUE,
           vectors' = "none" \/ "PG" \in cpu' => masked' = TRUE
    PROVE  IInv'
<1>1. /\ pc' \in Calls
      /\ \A call \in Landmarks :
            pc' \in After(call) <=> pc \in After(call) \/ pc = call
  BY Proceeds, LandmarksAreCalls
<1>2. pc' \in {"key_1", "key_2", "check_a20_gate"} => stack = <<>>
  <2>1. PICK p \in 1 .. 20 : pc = Program[p]
    BY ProgramText DEF Calls
  <2>2. pc' = Program[p + 1]
    BY <2>1, AfterNext, CallsAre DEF NextCall
  <2>3. pc' \in {"key_1", "key_2", "check_a20_gate"} => p \in {1, 2}
    BY <2>2, ProgramText
  <2> QED
    BY <2>1, <2>3, ProgramText DEF IInv, A20Here
<1>3. TypeOK'
  BY <1>1, PlacesAre DEF IInv, TypeOK
<1>4. A20Here'
  BY <1>1, <1>2, CallsAre DEF IInv, A20Here, Landmarks
<1>5. SwitchHere'
  BY <1>1 DEF IInv, SwitchHere, Landmarks
<1>6. MaskedFirst'
  BY <1>1 DEF IInv, MaskedFirst, Landmarks, TypeOK
<1>7. NoTripleFault'
  BY <1>1, CallsAre DEF NoTripleFault
<1> QED
  BY <1>3, <1>4, <1>5, <1>6, <1>7 DEF IInv

\* A step that ends the stage, before the third one.
LEMMA StopKeeps ==
    ASSUME IInv, pc' \in Stopped \ {"third_stage"},
           Suitable => pc' # "triple_fault",
           UNCHANGED <<Environment, stack, a20, masked, vectors, cpu>>
    PROVE  IInv'
<1>1. pc' \in Labels /\ \A call \in Landmarks : pc' \notin After(call)
  BY PlacesAre, CallsAre DEF Stopped
<1>2. TypeOK'
  BY <1>1 DEF IInv, TypeOK, Environment
<1>3. A20Here'
  BY <1>1 DEF A20Here, Stopped, Landmarks
<1>4. SwitchHere'
  BY <1>1 DEF SwitchHere, Landmarks
<1>5. MaskedFirst'
  BY <1>1 DEF IInv, MaskedFirst, Landmarks
<1>6. NoTripleFault'
  BY DEF NoTripleFault, Suitable, LongModeCapable, Environment
<1> QED
  BY <1>2, <1>3, <1>4, <1>5, <1>6 DEF IInv

-----------------------------------------------------------------------------
(* One lemma per action. *)

\* The stage starts in real mode, with the BIOS's vectors and nothing pushed.
LEMMA Initially == Init => IInv
<1> SUFFICES ASSUME Init PROVE IInv
  OBVIOUS
<1>1. \A call \in Landmarks : pc \notin After(call)
  BY NotAfter, LandmarksAreCalls DEF Init
<1>2. machine \in MachineType
  BY MachinesAssumption DEF Init
<1>3. TypeOK
  <2>1. stack \in Seq(Words) /\ Len(stack) = 0
    BY DEF Init
  <2>2. pc \in Labels
    BY PlacesAre, CallsAre DEF Init
  <2>3. a20 \in BOOLEAN /\ keys \in 0 .. KeyBuffer
    BY <1>2, KeyBufferAssumption DEF Init, MachineType
  <2>4. Len(stack) <= 8 * MaxFrames + 1
    BY <2>1, MaxFramesAssumption
  <2> QED
    BY <2>1, <2>2, <2>3, <2>4 DEF Init, TypeOK, Words
<1>4. A20Here /\ SwitchHere /\ MaskedFirst /\ NoTripleFault
  BY <1>1 DEF Init, A20Here, SwitchHere, MaskedFirst, NoTripleFault, Landmarks
<1> QED
  BY <1>3, <1>4 DEF IInv

\* A device's line may rise at any time.
LEMMA RaiseStep ==
    ASSUME IInv, NEW line \in Lines, Raise(line)
    PROVE  IInv'
<1>1. TypeOK'
  BY DEF IInv, TypeOK, Raise, Lines
<1> QED
  BY <1>1 DEF IInv, A20Here, SwitchHere, MaskedFirst, NoTripleFault, Suitable,
              LongModeCapable, Raise

\* An interrupt that is served finds the vectors of the BIOS: the mask would
\* have kept it away otherwise.
LEMMA ServeStep ==
    ASSUME IInv, NEW line \in Lines, Serve(line)
    PROVE  IInv'
<1>1. vectors = "bios" /\ "PG" \notin cpu
  BY DEF IInv, TypeOK, MaskedFirst, Serve
<1>2. UNCHANGED <<machine, pc, stack, a20, masked, vectors, cpu>>
  BY <1>1 DEF Serve
<1>3. keys' \in 0 .. KeyBuffer
  BY <1>1, KeyBufferAssumption DEF IInv, TypeOK, Serve
<1>4. TypeOK'
  BY <1>2, <1>3 DEF IInv, TypeOK, Serve, Lines
<1> QED
  BY <1>2, <1>4 DEF IInv, A20Here, SwitchHere, MaskedFirst, NoTripleFault,
                    Suitable, LongModeCapable

\* Waiting for a key changes the place only.
LEMMA KeyStep ==
    ASSUME IInv, GetKeyStroke
    PROVE  IInv'
<1>1. keys' \in 0 .. KeyBuffer
  BY KeyBufferAssumption DEF IInv, TypeOK, GetKeyStroke
<1>2. pc \in Calls \ {"third_stage"} /\ pc' = NextCall
  BY CallsAre DEF GetKeyStroke, KeyWaits, Proceed
<1> QED
  BY <1>1, <1>2, CallKeeps
  DEF GetKeyStroke, KeyWaits, IInv, TypeOK, MaskedFirst

\* check_a20_gate is called with the main program's address on the stack.
LEMMA CallStep ==
    ASSUME IInv, CallCheckA20Gate
    PROVE  IInv'
<1>1. stack = <<>> /\ stack' = <<"main">> \o <<>>
  BY DEF IInv, A20Here, CallCheckA20Gate
<1>2. stack' = <<"main">>
  BY <1>1
<1>3. stack' \in Seq(Words) /\ Len(stack') = 1
  BY <1>2, PushaType
<1>4. pc' \in Labels /\ \A call \in Landmarks : pc' \notin After(call)
  BY PlacesAre, CallsAre DEF CallCheckA20Gate
<1>5. TypeOK'
  BY <1>3, <1>4, MaxFramesAssumption
  DEF IInv, TypeOK, Words, CallCheckA20Gate, Environment
<1>6. A20Here'
  BY <1>3, <1>4 DEF A20Here, Landmarks, CallCheckA20Gate
<1> QED
  BY <1>4, <1>5, <1>6 DEF IInv, SwitchHere, MaskedFirst, NoTripleFault,
                          Landmarks, CallCheckA20Gate

\* The BIOS is asked about A20; its answer picks the branch.
LEMMA QueryStep ==
    ASSUME IInv, QueryA20
    PROVE  IInv'
<1>1. stack \in Seq(Words) /\ Len(stack) >= 1
  BY DEF IInv, TypeOK, A20Here, QueryA20, Words
<1>2. stack' \in Seq(Words) /\ Len(stack') = 8 + Len(stack)
  <2>1. stack' = Pusha \o stack
    BY DEF QueryA20
  <2>2. Pusha \o stack \in Seq(Words)
        /\ Len(Pusha \o stack) = Len(Pusha) + Len(stack)
    BY ONLY <1>1, PushaType, ConcatProperties
  <2> QED
    BY <2>1, <2>2, PushaType
<1>3. Len(stack') \in 9 .. 8 * MaxFrames + 1
  BY <1>1, <1>2, MaxFramesAssumption DEF QueryA20
<1>4. pc' \in {"a20_skip", "enable_a20", "hang"}
  BY DEF QueryA20
<1>5. pc' \in Labels /\ \A call \in Landmarks : pc' \notin After(call)
  BY <1>4, PlacesAre, CallsAre DEF Stopped
<1>6. TypeOK'
  BY <1>2, <1>3, <1>5, MaxFramesAssumption
  DEF IInv, TypeOK, Words, QueryA20, Environment
<1>7. A20Here'
  <2>1. pc' = "enable_a20" => a20' = FALSE
    BY DEF IInv, TypeOK, QueryA20
  <2>2. pc' = "a20_skip" => a20' = TRUE
    BY DEF IInv, TypeOK, QueryA20
  <2> QED
    BY <1>3, <1>4, <1>5, <2>1, <2>2 DEF A20Here, Landmarks
<1> QED
  BY <1>4, <1>5, <1>6, <1>7 DEF IInv, SwitchHere, MaskedFirst, NoTripleFault,
                                Landmarks, QueryA20

\* The BIOS is asked to open A20, and the check starts again from its top.
LEMMA EnableStep ==
    ASSUME IInv, EnableA20
    PROVE  IInv'
<1>1. CASE pc' = "hang" /\ UNCHANGED a20
  BY <1>1, StopKeeps DEF EnableA20, Stopped, Suitable
<1>2. CASE a20' = machine.a20Opens /\ pc' = "query_a20"
  <2>1. machine \in MachineType
    BY MachinesAssumption DEF IInv, TypeOK
  <2>2. a20' \in BOOLEAN
    BY <1>2, <2>1 DEF MachineType
  <2>3. pc' \in Labels /\ \A call \in Landmarks : pc' \notin After(call)
    BY <1>2, PlacesAre, CallsAre
  <2>4. TypeOK'
    BY <2>2, <2>3 DEF IInv, TypeOK, EnableA20, Environment
  <2>5. A20Here'
    BY <1>2, <2>3 DEF IInv, TypeOK, A20Here, Landmarks, EnableA20
  <2> QED
    BY <1>2, <2>3, <2>4, <2>5 DEF IInv, SwitchHere, MaskedFirst,
                                  NoTripleFault, Landmarks, EnableA20
<1> QED
  BY <1>1, <1>2 DEF EnableA20

\* popa and ret go on at what the stack holds under the registers: key_3,
\* or wherever a second call's registers lead.
LEMMA SkipStep ==
    ASSUME IInv, A20Skip
    PROVE  IInv'
<1>1. stack \in Seq(Words) /\ Len(stack) >= 9
  BY DEF IInv, TypeOK, A20Here, A20Skip, Words
<1>2. Popa(stack) \in Seq(Words) /\ Len(Popa(stack)) = Len(stack) - 8
  BY <1>1, SubSeqProperties DEF Popa
<1>3. stack' \in Seq(Words) /\ Len(stack') = Len(stack) - 9
  BY <1>1, <1>2, HeadTailProperties DEF A20Skip
<1>4. pc' \in {"key_3", "wild"} /\ pc' \in Labels
  BY PlacesAre, CallsAre DEF A20Skip, Stopped
<1>5. \A call \in Landmarks \ {"check_a20_gate"} : pc' \notin After(call)
  <2>1. "key_3" \in Calls /\ "wild" \notin Calls /\ "wild" \in Labels
    BY PlacesAre, CallsAre DEF Stopped
  <2> QED
    BY <1>4, <2>1, NotAfter, PlacesAre, LandmarksAreCalls DEF Landmarks
<1>6. TypeOK'
  BY <1>1, <1>3, <1>4, MaxFramesAssumption
  DEF IInv, TypeOK, Words, A20Skip, Environment
<1>7. A20Here'
  BY <1>4 DEF IInv, A20Here, A20Skip
<1> QED
  BY <1>4, <1>5, <1>6, <1>7 DEF IInv, SwitchHere, MaskedFirst, NoTripleFault,
                                Landmarks, A20Skip

\* Where the model stops following the growing stack.
LEMMA StackStep ==
    ASSUME IInv, StackExhausted
    PROVE  IInv'
  BY StopKeeps DEF StackExhausted, Stopped

\* The processor check and the memory scan proceed or hang.
LEMMA CheckStep ==
    ASSUME IInv, CheckLongMode \/ ScanMemory
    PROVE  IInv'
<1>1. pc' = NextCall \/ pc' = "hang"
  BY DEF CheckLongMode, ScanMemory
<1>2. CASE pc' = "hang"
  BY <1>2, StopKeeps DEF CheckLongMode, ScanMemory, Stopped
<1>3. CASE pc' = NextCall
  <2>1. pc \in {"check_long_mode", "memory_scanner"}
    BY DEF CheckLongMode, ScanMemory
  <2> QED
    BY <1>3, <2>1, CallsAre, CallKeeps
    DEF CheckLongMode, ScanMemory, Environment, IInv, TypeOK, MaskedFirst
<1> QED
  BY <1>1, <1>2, <1>3

\* The page tables are built before anything uses them.
LEMMA TablesStep ==
    ASSUME IInv, BuildPageTable
    PROVE  IInv'
  BY CallsAre, CallKeeps
  DEF BuildPageTable, Proceed, Environment, IInv, TypeOK, MaskedFirst

\* Every line is masked before the real-mode vectors are given up.
LEMMA MaskStep ==
    ASSUME IInv, DisablePic
    PROVE  IInv'
  BY CallsAre, CallKeeps
  DEF DisablePic, Proceed, Environment, IInv, TypeOK, MaskedFirst

\* The empty vector table comes after the mask.
LEMMA VectorsStep ==
    ASSUME IInv, LoadIdtDescriptor
    PROVE  IInv'
<1>1. pc = "load_idt_descriptor" /\ pc \in After("disable_pic")
  BY OrderIs DEF LoadIdtDescriptor, Proceed
<1> QED
  BY <1>1, CallsAre, CallKeeps
  DEF LoadIdtDescriptor, Proceed, Environment, IInv, TypeOK, MaskedFirst

\* A store beyond a 64K limit faults; a suitable machine has none.
LEMMA ClearStep ==
    ASSUME IInv, VideoCls16
    PROVE  IInv'
<1>1. CASE machine.flatData
  BY <1>1, CallsAre, CallKeeps
  DEF VideoCls16, Environment, IInv, TypeOK, MaskedFirst
<1>2. CASE ~machine.flatData
  BY <1>2, StopKeeps DEF VideoCls16, Fault, Stopped, Suitable
<1> QED
  BY <1>1, <1>2

\* The control registers and the descriptor table are set one by one.
LEMMA ControlStep ==
    ASSUME IInv, SetCr4 \/ SetCr3 \/ SetEfer \/ LoadGdt
    PROVE  IInv'
<1> USE CallsAre DEF SetControl, Proceed, Environment, IInv, TypeOK, MaskedFirst
<1>1. CASE SetCr4
  BY <1>1, CallKeeps DEF SetCr4
<1>2. CASE SetCr3
  BY <1>2, CallKeeps DEF SetCr3
<1>3. CASE SetEfer
  BY <1>3, CallKeeps DEF SetEfer
<1>4. CASE LoadGdt
  BY <1>4, CallKeeps DEF LoadGdt
<1> QED
  BY <1>1, <1>2, <1>3, <1>4

\* Paging and protection together: everything the processor asks for is there,
\* and the mask has been set.
LEMMA Cr0Step ==
    ASSUME IInv, SetCr0
    PROVE  IInv'
<1>1. {"PAE", "LME", "CR3", "tables"} \subseteq cpu /\ masked = TRUE
  BY OrderIs DEF IInv, SwitchHere, MaskedFirst, SetCr0
<1>2. CASE LongModeCapable
  BY <1>1, <1>2, CallsAre, CallKeeps
  DEF SetCr0, Environment, IInv, TypeOK, MaskedFirst
<1>3. CASE ~LongModeCapable
  BY <1>3, StopKeeps DEF SetCr0, Fault, Stopped, Suitable
<1> QED
  BY <1>2, <1>3

\* The far jump enters long mode with all it needs in place.
LEMMA JumpStep ==
    ASSUME IInv, FarJump
    PROVE  IInv'
<1>1. {"GDT", "PG"} \subseteq cpu
  BY OrderIs DEF IInv, SwitchHere, FarJump
<1> QED
  BY <1>1, CallsAre, CallKeeps
  DEF FarJump, Environment, IInv, TypeOK, MaskedFirst

\* The 64-bit code calls the third stage.
LEMMA LastStep ==
    ASSUME IInv, LM64
    PROVE  IInv'
  BY CallsAre, CallKeeps
  DEF LM64, Proceed, Environment, IInv, TypeOK, MaskedFirst

-----------------------------------------------------------------------------
(* The theorems. *)

\* No step of the program, the BIOS or a device breaks the invariant.
LEMMA Inductive == IInv /\ [Next]_vars => IInv'
<1> SUFFICES ASSUME IInv, [Next]_vars PROVE IInv'
  OBVIOUS
<1>1. CASE UNCHANGED vars
  BY <1>1 DEF vars, IInv, TypeOK, A20Here, SwitchHere, MaskedFirst,
              NoTripleFault, Suitable, LongModeCapable
<1>2. CASE \E line \in Lines : Raise(line) \/ Serve(line)
  BY <1>2, RaiseStep, ServeStep
<1>3. CASE Step
  BY <1>3, KeyStep, CallStep, QueryStep, StackStep, EnableStep, SkipStep,
     CheckStep, TablesStep, MaskStep, VectorsStep, ClearStep, ControlStep,
     Cr0Step, JumpStep, LastStep
  DEF Step
<1> QED
  BY <1>1, <1>2, <1>3 DEF Next

\* So it holds in every state of every behaviour.
LEMMA Invariance == Spec => []IInv
  BY Initially, Inductive, PTL DEF Spec

\* The variables stay in their types; in particular the stack never runs over
\* the bound the model puts on it.
THEOREM TypeCorrect == Spec => []TypeOK
<1>1. IInv => TypeOK
  BY DEF IInv
<1> QED
  BY <1>1, Invariance, PTL

\* Whatever keys and timer ticks arrive while the stage switches to long mode,
\* a processor and a BIOS it is written for take no fault and no interrupt
\* without vectors.
THEOREM NoFaultWithoutVectors == Spec => []NoTripleFault
<1>1. IInv => NoTripleFault
  BY DEF IInv
<1> QED
  BY <1>1, Invariance, PTL

-----------------------------------------------------------------------------
(* The link of the chain. *)

\* A step that stays in the stage and adds to what is in place.
LEMMA Adds ==
    ASSUME Stage = "second_stage", Stage' = "second_stage",
           cpu \subseteq cpu', a20 => a20', masked => masked',
           vectors = "none" => vectors' = "none"
    PROVE  [Chain!Next]_<<Stage, InPlace, TRUE>>
<1>1. InPlace \subseteq InPlace' /\ InPlace' \subseteq ThirdStageNeeds
  BY DEF InPlace, ThirdStageNeeds
<1> QED
  BY <1>1 DEF Chain!Next, Chain!Prepare

\* A step that changes nothing but the place, to one the stage ends at.
LEMMA Ends ==
    ASSUME Stage = "second_stage", pc' \in Stopped \ {"third_stage"},
           UNCHANGED <<cpu, a20, masked, vectors>>
    PROVE  [Chain!Next]_<<Stage, InPlace, TRUE>>
<1>1. Stage' = "lost"
  BY DEF Stage, Stopped
<1>2. InPlace' = InPlace
  BY DEF InPlace
<1> QED
  BY <1>1, <1>2 DEF Chain!Next, Chain!GetLost

\* Before a call other than the last the stage runs, and after it too.
LEMMA StageRuns ==
    /\ pc \in Labels \ Stopped => Stage = "second_stage"
    /\ (pc \in Labels \ Stopped)' => Stage' = "second_stage"
    /\ pc \in Calls \ {"LM64", "third_stage"} /\ pc' = NextCall
          => Stage = "second_stage" /\ Stage' = "second_stage"
<1>1. /\ pc \in Labels \ Stopped => Stage = "second_stage"
      /\ (pc \in Labels \ Stopped)' => Stage' = "second_stage"
  BY DEF Stage, Stopped
<1>2. ASSUME pc \in Calls \ {"LM64", "third_stage"}, pc' = NextCall
      PROVE  Stage = "second_stage" /\ Stage' = "second_stage"
  <2>1. PICK p \in 1 .. 19 : pc = Program[p]
    BY <1>2, ProgramText DEF Calls
  <2>2. pc' = Program[p + 1]
    BY <1>2, <2>1, AfterNext, CallsAre DEF NextCall
  <2>3. pc' \in Calls \ {"third_stage"}
    BY <2>1, <2>2, CallsDiffer, ProgramText DEF Calls
  <2> QED
    BY <1>2, <2>3, CallsAre DEF Stage, Stopped
<1> QED
  BY <1>1, <1>2

\* Every step of the stage is a step of the chain or a stutter.
LEMMA StepSimulated ==
    ASSUME IInv, [Next]_vars
    PROVE  [Chain!Next]_<<Stage, InPlace, TRUE>>
<1> USE DEF Environment
<1>1. CASE UNCHANGED vars
  BY <1>1 DEF vars, Stage, Stopped, InPlace
<1>2. ASSUME NEW line \in Lines, Raise(line) \/ Serve(line)
      PROVE  UNCHANGED <<Stage, InPlace>>
  <2>1. UNCHANGED <<pc, cpu, a20, masked, vectors>>
    BY <1>2 DEF IInv, TypeOK, MaskedFirst, Raise, Serve
  <2> QED
    BY <2>1 DEF Stage, Stopped, InPlace
<1>3. CASE GetKeyStroke
  BY <1>3, CallsAre, StageRuns, Adds DEF GetKeyStroke, KeyWaits, Proceed
<1>4. CASE CallCheckA20Gate
  <2>1. Stage = "second_stage" /\ Stage' = "second_stage"
    BY <1>4 DEF CallCheckA20Gate, Stage, Stopped
  <2> QED
    BY <1>4, <2>1, Adds DEF CallCheckA20Gate
<1>5. CASE QueryA20
  <2>1. Stage = "second_stage"
    BY <1>5 DEF QueryA20, Stage, Stopped
  <2>2. pc' \in {"a20_skip", "enable_a20", "hang"}
    BY <1>5 DEF QueryA20
  <2>3. CASE pc' = "hang"
    BY <1>5, <2>1, <2>3, Ends DEF QueryA20, Stopped
  <2>4. CASE pc' # "hang"
    <3>1. Stage' = "second_stage"
      BY <2>2, <2>4 DEF Stage, Stopped
    <3> QED
      BY <1>5, <2>1, <3>1, Adds DEF QueryA20
  <2> QED
    BY <2>3, <2>4
<1>6. CASE StackExhausted
  <2>1. Stage = "second_stage"
    BY <1>6 DEF StackExhausted, Stage, Stopped
  <2> QED
    BY <1>6, <2>1, Ends DEF StackExhausted, Stopped
<1>7. CASE EnableA20
  <2>1. Stage = "second_stage" /\ a20 = FALSE
    BY <1>7 DEF IInv, A20Here, EnableA20, Stage, Stopped
  <2>2. CASE pc' = "query_a20"
    <3>1. Stage' = "second_stage"
      BY <2>2 DEF Stage, Stopped
    <3> QED
      BY <1>7, <2>1, <3>1, Adds DEF EnableA20
  <2>3. CASE pc' = "hang" /\ UNCHANGED a20
    BY <1>7, <2>1, <2>3, Ends DEF EnableA20, Stopped
  <2> QED
    BY <1>7, <2>2, <2>3 DEF EnableA20
<1>8. CASE A20Skip
  <2>1. Stage = "second_stage"
    BY <1>8 DEF A20Skip, Stage, Stopped
  <2>2. CASE pc' = "key_3"
    <3>1. Stage' = "second_stage"
      BY <2>2 DEF Stage, Stopped
    <3> QED
      BY <1>8, <2>1, <3>1, Adds DEF A20Skip
  <2>3. CASE pc' = "wild"
    BY <1>8, <2>1, <2>3, Ends DEF A20Skip, Stopped
  <2> QED
    BY <1>8, <2>2, <2>3 DEF A20Skip
<1>9. CASE CheckLongMode \/ ScanMemory \/ VideoCls16 \/ SetCr0 \/ FarJump
  <2>1. pc \in Calls \ {"LM64", "third_stage"} /\ Stage = "second_stage"
    BY <1>9, CallsAre
    DEF CheckLongMode, ScanMemory, VideoCls16, SetCr0, FarJump, Stage, Stopped
  <2>2. CASE pc' = NextCall /\ cpu \subseteq cpu'
    BY <1>9, <2>1, <2>2, StageRuns, Adds
    DEF CheckLongMode, ScanMemory, VideoCls16, SetCr0, FarJump
  <2>3. CASE pc' \in {"hang", "triple_fault"} /\ UNCHANGED cpu
    BY <1>9, <2>1, <2>3, Ends
    DEF CheckLongMode, ScanMemory, VideoCls16, SetCr0, FarJump, Stopped
  <2> QED
    BY <1>9, <2>2, <2>3
    DEF CheckLongMode, ScanMemory, VideoCls16, SetCr0, FarJump, Fault
<1>10. CASE BuildPageTable \/ DisablePic \/ LoadIdtDescriptor \/ SetCr4
            \/ SetCr3 \/ SetEfer \/ LoadGdt
  <2>1. /\ pc \in Calls \ {"LM64", "third_stage"} /\ pc' = NextCall
        /\ cpu \subseteq cpu' /\ UNCHANGED a20
        /\ masked' = masked \/ masked' = TRUE
        /\ vectors' = vectors \/ vectors' = "none"
    BY <1>10, CallsAre
    DEF BuildPageTable, DisablePic, LoadIdtDescriptor, SetCr4, SetCr3,
        SetEfer, LoadGdt, SetControl, Proceed
  <2> QED
    BY <2>1, StageRuns, Adds
\* The hand-over: every part of the switch has been made.
<1>11. CASE LM64
  <2>1. pc = "LM64" /\ pc' = "third_stage" /\ cpu' = cpu \union {"DATA_SEG"}
        /\ UNCHANGED <<a20, masked, vectors>>
    <3>1. Position("LM64") = 20
      BY PositionIs, ProgramText
    <3> QED
      BY <1>11, <3>1, ProgramText DEF LM64, Proceed, NextCall
  <2>2. Stage = "second_stage" /\ Stage' = "third_stage"
    BY <2>1 DEF Stage, Stopped
  <2>3. {"tables", "PAE", "CR3", "LME", "PE", "PG", "GDT", "CS64"}
            \subseteq cpu
        /\ a20 = TRUE /\ masked = TRUE /\ vectors = "none"
    BY <2>1, OrderIs DEF IInv, A20Here, SwitchHere, MaskedFirst
  <2>4. InPlace = ThirdStageNeeds /\ InPlace' = InPlace
    BY <2>1, <2>3 DEF InPlace, ThirdStageNeeds
  <2> QED
    BY <2>2, <2>4 DEF Chain!Next, Chain!HandOver
<1> QED
  BY <1>1, <1>2, <1>3, <1>4, <1>5, <1>6, <1>7, <1>8, <1>9, <1>10, <1>11
  DEF Next, Step

\* The second stage keeps the chain's promise on every machine: the third stage
\* is entered with every part of the switch made, the gate open and nothing
\* able to interrupt it, and no part is taken back on the way.
THEOREM ChainImplemented == Spec => SecondStageImplements
<1>1. Init => Chain!Init
  BY DEF Init, Chain!Init, Stage, Stopped, InPlace, ThirdStageNeeds
<1> QED
  BY <1>1, StepSimulated, Invariance, PTL
  DEF Spec, SecondStageImplements, Chain!Spec
=============================================================================
