--------------------------- MODULE MCServiceWatch ---------------------------
(***************************************************************************)
(* Small instances of ServiceWatch for TLC.                                *)
(***************************************************************************)
EXTENDS ServiceWatch, TLC
=============================================================================
