------------------------------- MODULE MCFiles ------------------------------
(* main, init and one more process; directory entries for all names but one. *)
EXTENDS Files

CONSTANTS p1, na, nb, nc
Symmetry == Permutations(Names)
(* The properties speak of the states before the first unprotected step.   *)
Unraced == ~raced
=============================================================================
