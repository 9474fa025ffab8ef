--------------------------- MODULE MCProcessTable ---------------------------
(***************************************************************************)
(* A small instance of ProcessTable for TLC: two pids, one image on this   *)
(* machine and one on another.  Processes share an image, leave it and     *)
(* come back to it on pids that change hands, and a pid goes from one      *)
(* image to the other.                                                     *)
(***************************************************************************)
EXTENDS ProcessTable
=============================================================================
