---------------------------- MODULE MCWaitExit ------------------------------
(* init and up to two (or three) other processes: a child and a grandchild. *)
EXTENDS WaitExit

CONSTANTS p1, p2, p3
MCPrio == [t \in Threads |-> 1]
=============================================================================
