------------------------------- MODULE MCSync -------------------------------
(* Three clients and idle on one recursive lock.                            *)
EXTENDS Sync

CONSTANTS p1, l1, l2
MCPrio == [t \in Threads |-> 1]
=============================================================================
