--------------------------- MODULE MCRemoteWatch ---------------------------
(***************************************************************************)
(* Small instances of RemoteWatch for TLC.                                 *)
(***************************************************************************)
EXTENDS RemoteWatch, TLC

Interchangeable == Permutations(Pids) \cup Permutations(Watches)
=============================================================================
