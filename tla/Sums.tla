-------------------------------- MODULE Sums --------------------------------
(***************************************************************************)
(* The sum of numbers in a row, which the history and the router keep and  *)
(* the code adds up in loops.                                              *)
(***************************************************************************)
EXTENDS Integers, Sequences

Total(s) ==
  LET upto[n \in 0..Len(s)] == IF n = 0 THEN 0 ELSE upto[n - 1] + s[n]
  IN  upto[Len(s)]
=============================================================================
