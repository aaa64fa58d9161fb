------------------------------- MODULE MCPipe -------------------------------
(* Pipe for TLC: processes of the same priority.                           *)
EXTENDS Pipe

MCPriority == [t \in Threads |-> 0]
=============================================================================
