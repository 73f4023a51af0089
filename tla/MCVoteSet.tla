----------------------------- MODULE MCVoteSet -----------------------------
(***************************************************************************)
(* Instances of VoteSet for TLC.  Validators, blocks and peers are only    *)
(* compared for equality, so permuting each of the sets is a symmetry.     *)
(***************************************************************************)
EXTENDS VoteSet, TLC

Symmetry ==
    Permutations(Validators) \cup Permutations(BlockIDs) \cup Permutations(Peers)
=============================================================================
