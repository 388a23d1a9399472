---------------------------- MODULE MCNetServer ----------------------------
(***************************************************************************)
(* Instances of NetServer for TLC.                                          *)
(***************************************************************************)
EXTENDS NetServer

CONSTANTS c1, c2, p1, p2, p3, p4

TwoClients == {c1, c2}
FourPkts == {p1, p2, p3, p4}
=============================================================================
