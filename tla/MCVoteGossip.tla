---------------------------- MODULE MCVoteGossip ----------------------------
(***************************************************************************)
(* Instances of VoteGossip: which votes there are, and where the node is.  *)
(***************************************************************************)
EXTENDS VoteGossip

votes(r, t, vals) == {[round |-> r, type |-> t, val |-> v] : v \in vals}

CONSTANTS v1, v2

\* The commit was reached in a round that a peer in round 0 does not track.
CommitVotes == votes(2, "precommit", Validators)
EarlyVotes == votes(0, "prevote", {v1})

AllVotes == CommitVotes \cup EarlyVotes

FewVotes == AllVotes \ votes(2, "precommit", {v2})

=============================================================================
