------------------------------ MODULE BootChain ------------------------------
(***************************************************************************)
(* What the chain of boot programs promises, whatever each does inside:    *)
(* a program jumps to the next one only when all the next one needs is in  *)
(* place, and nothing put in place for it is undone before the jump.       *)
(*                                                                         *)
(* trusted is what the promise rests on outside the program: the machine   *)
(* handed over registers, drive or processor as the program expects.       *)
(***************************************************************************)
CONSTANTS
    First,      \* the program that runs
    Second,     \* the program it hands over to
    Needs       \* what has to be in place for Second

VARIABLES stage, ready, trusted

Init == stage = First /\ ready \subseteq Needs /\ trusted \in BOOLEAN

Prepare ==
    /\ stage = First /\ stage' = First
    /\ ready' \subseteq Needs
    /\ trusted' => trusted /\ ready \subseteq ready'

HandOver ==
    /\ stage = First /\ stage' = Second
    /\ trusted => ready = Needs
    /\ UNCHANGED <<ready, trusted>>

\* An error message and a halt, a fault, or a jump into nowhere.
GetLost ==
    /\ stage = First /\ stage' = "lost"
    /\ UNCHANGED <<ready, trusted>>

Next == Prepare \/ HandOver \/ GetLost

Spec == Init /\ [][Next]_<<stage, ready, trusted>>
=============================================================================
