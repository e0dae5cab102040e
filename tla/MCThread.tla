------------------------------ MODULE MCThread ------------------------------
(* The scheduler with main, idle, init and two more PCB pages.              *)
EXTENDS Thread

CONSTANTS p1, p2
MCPrio == [t \in Threads |-> 1]
=============================================================================
