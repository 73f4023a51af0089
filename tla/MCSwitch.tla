------------------------------ MODULE MCSwitch ------------------------------
(* Small instances of Switch: connections a1 and a2 to node a, b1 to node b. *)
EXTENDS Switch, TLC

CONSTANTS a, b, a1, a2, b1

MCID == [p \in Peers |-> IF p = b1 THEN b ELSE a]

\* Both are connections we dial to the same node.
Symmetry == Permutations({a1, a2})
=============================================================================
