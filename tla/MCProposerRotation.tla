------------------------- MODULE MCProposerRotation -------------------------
(* Two committees that share two members.                                    *)
EXTENDS ProposerRotation, TLC

TwoCommittees == <<{1, 2, 3}, {2, 3, 4}>>

Symmetry == Permutations(Nodes)
=============================================================================
