---------------------------- MODULE MCDiskLoader ----------------------------
(***************************************************************************)
(* Drives for TLC.  Cylinder 0 of the small disk ends among the sectors of *)
(* the second stage, that of the medium disk among those of the third; the *)
(* big ones hold both stages.  The 720K diskette has fewer sectors and the *)
(* 2.88M one more than the assembled 18.                                   *)
(***************************************************************************)
EXTENDS DiskLoaderChain

Drive(dl, s, h, c, f) ==
    [dl |-> dl, spt |-> s, heads |-> h, cylinders |-> c, faults |-> f]

AllFaults == {"reset", "params", "read"}

MCDrives ==
    {Drive(0, 18, 2, 80, f) : f \in {{}, AllFaults}}
    \union {Drive(0, 9, 2, 80, {}), Drive(0, 36, 2, 80, {}),
            Drive(0, 18, 2, 3, {}), Drive(1, 18, 2, 80, {})}
    \union {Drive(128, 63, 16, 100, f) : f \in {{}, {"params"}, AllFaults}}
    \union {Drive(128, 3, 2, 100, {}), Drive(128, 17, 4, 100, {}),
            Drive(128, 17, 1, 100, {}),
            Drive(128, 1, 255, 2, {}), Drive(128, 63, 255, 1, {}),
            Drive(128, 63, 256, 1, {})}

\* BX = 0, which the loader silently relies on, and three values it was not
\* written for: an unaligned one, one sector, and the largest considered.
MCBootRegisters ==
    {[bx |-> b, cx |-> c, dh |-> d] :
        b \in {0, 256, 512, 12288}, c \in {0, 18}, d \in {0, 1, 255}}
=============================================================================
