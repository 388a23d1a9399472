----------------------------- MODULE MCFileSys -----------------------------
(* Instances of FileSys for TLC. Nothing distinguishes the names but which
   was created first, so they may be permuted. *)
EXTENDS FileSys, TLC

CONSTANTS n1, n2

TwoNames == {n1, n2}
Symmetry == Permutations(TwoNames)
=============================================================================
