-------------------------- MODULE MCBootPageTables --------------------------
(***************************************************************************)
(* The real sizes; the RAM is full of sevens, which would be present       *)
(* entries if the tables were not cleared.                                 *)
(***************************************************************************)
EXTENDS BootPageTables

MCJunk == {7}
=============================================================================
