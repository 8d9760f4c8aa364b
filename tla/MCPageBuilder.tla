---------------------------- MODULE MCPageBuilder ----------------------------
(***************************************************************************)
(* A machine 1024 times smaller: tables of 16 entries, pages of 128 bytes, *)
(* 2K mapped, tables from 1K.  The region tables are a PC's, one with a    *)
(* hole where the tables are built, and one whose memory ends early.       *)
(***************************************************************************)
EXTENDS PageBuilder, Sequences

R(b, l, t) == [base |-> b, length |-> l, type |-> t]

Padded(s) == [i \in 1..8 |-> IF i <= Len(s) THEN s[i] ELSE R(0, 0, 0)]

LowMemory == <<R(0, 640, 1), R(640, 8, 2), R(960, 64, 2)>>

MCTables ==
    {Padded(LowMemory \o s) :
        s \in {<<R(1024, 14000, 1)>>,
               <<R(1024, 500, 1), R(1524, 100, 2), R(1624, 14000, 1)>>,
               <<R(1024, 2048, 1), R(3072, 1024, 2)>>}}
=============================================================================
