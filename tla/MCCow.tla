------------------------------- MODULE MCCow -------------------------------
(***************************************************************************)
(* An instance of Cow: one page of data and one of stack.                   *)
(***************************************************************************)
EXTENDS Cow, TLC

CONSTANTS e1, e2, p1, p2, p3, p4

TwoEnvs == {e1, e2}
FourPages == {p1, p2, p3, p4}
TwoBits == {0, 1}

\* Pages are interchangeable: nothing orders or names them.
Symmetry == Permutations(FourPages)
=============================================================================
