---------------------------- MODULE MCFileServer ----------------------------
(* Instances of FileServer for TLC. *)
EXTENDS FileServer

CONSTANTS e1, e2

TwoEnvs == {e1, e2}
=============================================================================
