-------------------------- MODULE ConsensusClaims --------------------------
(***************************************************************************)
(* What a comment of the code says of ConsensusState and the code does     *)
(* not do, refuted by a run of its own.                                    *)
(***************************************************************************)
EXTENDS ConsensusState

\* The PrivValidator "never double signs": a validator's votes of one type in
\* one round of a height, under whichever committee, are for the same block.
NeverDoubleSigns ==
    \A c, d \in cs.past \cup {cs.cast} :
      \A st \in {stepPrevote, stepPrecommit}, r \in Rounds :
        c[st][r] # NoVote /\ d[st][r] # NoVote => c[st][r].hash = d[st][r].hash
=============================================================================
