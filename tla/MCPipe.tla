------------------------------- MODULE MCPipe -------------------------------
(***************************************************************************)
(* Instances of Pipe for TLC: a parent that made the pipe and reads or      *)
(* writes, and the children it forks.                                       *)
(***************************************************************************)
EXTENDS Pipe
=============================================================================
