----------------------------- MODULE MCMemory -------------------------------
(* init and one more process in a small memory.                           *)
EXTENDS Memory

CONSTANTS p1
=============================================================================
