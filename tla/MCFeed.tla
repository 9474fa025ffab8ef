------------------------------- MODULE MCFeed -------------------------------
(***************************************************************************)
(* Small instances of Feed for TLC: pids are model values, alike.          *)
(***************************************************************************)
EXTENDS Feed, TLC

Interchangeable == Permutations(Pids)
=============================================================================
