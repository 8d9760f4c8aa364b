--------------------------- MODULE MCMemoryScanner ---------------------------
(***************************************************************************)
(* Maps for TLC, in units of 64K: an emulator's with 512M and with memory  *)
(* above 4G (seven and eight regions), a short one, an unsorted one.       *)
(***************************************************************************)
EXTENDS MemoryScanner

R(b, l, t) == [base |-> b, length |-> l, type |-> t]

Low == <<R(0, 9, 1), R(9, 1, 2), R(14, 2, 2), R(16, 8100, 1)>>
Top == <<R(8116, 2, 2), R(8118, 74, 3), R(65532, 4, 2)>>

MCMaps == {Low, Low \o Top, Low \o Top \o <<R(65536, 100, 1)>>,
           <<R(16, 8, 1), R(0, 9, 1)>>, <<R(0, 9, 1)>>}
MCStale == {R(0, 0, 0), R(8116, 1000, 1)}
MCAddresses == {0, 5, 9, 10, 12, 15, 16, 100, 8110, 8116, 8117, 8500,
                65534, 65600}
=============================================================================
