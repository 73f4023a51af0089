------------------------------- MODULE Voter -------------------------------
(***************************************************************************)
(* What a node promises the committee: the votes it casts in an era, which *)
(* is a height under one committee.  TbftVoting shows that a committee of  *)
(* such nodes never finalizes two blocks.  One handler of a node may enter *)
(* rounds and cast votes, so a step does several things at once.           *)
(***************************************************************************)
EXTENDS VotingRules

VARIABLES
    era,         \* counts the heights and the committees
    round,       \* the round the node is in
    prevotes,    \* its prevotes of the era, by round
    precommits,  \* its precommits
    seen         \* the polkas it has seen, by round

vars == <<era, round, prevotes, precommits, seen>>

NoVotes == [r \in Rounds |-> NoVote]

NoPolkas == [r \in Rounds |-> {}]

Init ==
    /\ era \in Nat
    /\ round = 0
    /\ prevotes = NoVotes /\ precommits = NoVotes /\ seen = NoPolkas

\* The votes of the rounds a step passes are cast once, and by the rule.
Cast(votes, later, Rule(_, _)) ==
    votes # later =>
      \A r \in Rounds : votes[r] # later[r] =>
        /\ votes[r] = NoVote
        /\ r \in round .. round' /\ later[r] \in Values
        /\ Rule(r, later[r])

Vote ==
    LET MayPrevote(r, v) == precommits[r] = NoVote /\ PrevoteRule(precommits', seen', r, v)
        MayPrecommit(r, v) == PrecommitRule(seen', r, v)
    IN  /\ era' = era
        /\ round' \in round .. MaxRound
        /\ \A r \in Rounds : seen[r] \subseteq seen'[r]
        /\ Cast(prevotes, prevotes', MayPrevote)
        /\ Cast(precommits, precommits', MayPrecommit)

NewEra ==
    /\ era' > era
    /\ round' \in Rounds
    /\ prevotes' = NoVotes /\ precommits' = NoVotes /\ seen' = NoPolkas

Next == Vote \/ NewEra

Spec == Init /\ [][Next]_vars
=============================================================================
