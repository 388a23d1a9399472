------------------------------- MODULE MCPmap -------------------------------
(* TLC instances of Pmap: v1 and v2 share a page table, v3 needs another.    *)
EXTENDS Pmap, TLC

CONSTANTS v1, v2, v3, d1, d2

TwoTables == [va \in VAs |-> IF va = v3 THEN d2 ELSE d1]
Symmetry == Permutations(Pages) \cup Permutations(CPUs)
=============================================================================
