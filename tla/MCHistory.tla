------------------------------ MODULE MCHistory ------------------------------
(***************************************************************************)
(* Small instances of History for TLC: events of one or two bytes in a     *)
(* history of three, held no longer than the clock stands still.           *)
(***************************************************************************)
EXTENDS History, TLC
=============================================================================
