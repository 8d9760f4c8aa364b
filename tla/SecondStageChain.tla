-------------------------- MODULE SecondStageChain --------------------------
(***************************************************************************)
(* The second stage as a link of the chain: what the third stage needs are *)
(* the processor's control bits, the boot page tables, the gate, and that  *)
(* no interrupt can arrive.                                                *)
(***************************************************************************)
EXTENDS SecondStage

ThirdStageNeeds ==
    {"tables", "PAE", "CR3", "LME", "PE", "PG", "GDT", "CS64",
     "a20", "masked", "no_vectors"}

Stage == CASE pc = "third_stage" -> "third_stage"
           [] pc \in Stopped \ {"third_stage"} -> "lost"
           [] OTHER -> "second_stage"

InPlace == (cpu \intersect ThirdStageNeeds)
           \union {c \in {"a20"} : a20} \union {c \in {"masked"} : masked}
           \union {c \in {"no_vectors"} : vectors = "none"}

Chain == INSTANCE BootChain WITH
            First <- "second_stage", Second <- "third_stage",
            Needs <- ThirdStageNeeds,
            stage <- Stage, ready <- InPlace, trusted <- TRUE

\* The second stage keeps the chain's promise on every machine: the third
\* stage starts in 64-bit mode with the gate open and nothing able to
\* interrupt it, and no part of the switch is taken back on the way.
SecondStageImplements == Chain!Spec
=============================================================================
