------------------------------- MODULE MCNic -------------------------------
(***************************************************************************)
(* Instances of Nic: two packets that can be told apart, and two pages for  *)
(* the input environment to pass to the server.                             *)
(***************************************************************************)
EXTENDS Nic

CONSTANTS p1, p2, g1, g2

TwoPkts == {p1, p2}
TwoPages == {g1, g2}
=============================================================================
