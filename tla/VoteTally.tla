----------------------------- MODULE VoteTally -----------------------------
(***************************************************************************)
(* The promise of a VoteSet to its readers, as a specification.            *)
(***************************************************************************)
EXTENDS Tallies

VARIABLE tally

Init == tally = "none"

Next == tally' \in Later(tally) \ {tally}

Spec == Init /\ [][Next]_tally
=============================================================================
