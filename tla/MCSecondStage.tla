---------------------------- MODULE MCSecondStage ----------------------------
(***************************************************************************)
(* Machines for TLC: every combination of the flags, with the largest CPUID*)
(* leaf on both sides of each comparison (16h, 80000000h, 80000001h).      *)
(***************************************************************************)
EXTENDS SecondStageChain

MCMachines ==
    [cpuid : BOOLEAN,
     maxLeaf : {[top |-> FALSE, low |-> 22], [top |-> TRUE, low |-> 0],
                [top |-> TRUE, low |-> 1]},
     bit29 : BOOLEAN, a20Open : BOOLEAN, a20Opens : BOOLEAN,
     flatData : BOOLEAN, faulty : BOOLEAN]
=============================================================================
