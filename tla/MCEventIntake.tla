--------------------------- MODULE MCEventIntake ---------------------------
(***************************************************************************)
(* Small instances of EventIntake for TLC: two processes on one pid, told  *)
(* up to a unit of time late, and an event waits for no more than two.     *)
(***************************************************************************)
EXTENDS EventIntake
=============================================================================
