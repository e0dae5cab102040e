----------------------------- MODULE MCIoQueue ------------------------------
(* init and one or two more processes on a keyboard buffer and a pipe of   *)
(* three cells.                                                             *)
EXTENDS IoQueue

CONSTANTS p1, p2
MCPrio == [t \in Threads |-> 1]

(* A single reader of the keyboard with two writers to the pipe, and with   *)
(* one; all read the keyboard.                                              *)
MCSetups == {[readers |-> {InitProc}, writers |-> {InitProc, p1}],
             [readers |-> {InitProc}, writers |-> {p1}],
             [readers |-> Threads \ {Idle, Main}, writers |-> {}]}
=============================================================================
