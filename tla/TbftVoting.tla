----------------------------- MODULE TbftVoting -----------------------------
(***************************************************************************)
(* One height of a committee: honest validators that move through rounds   *)
(* and vote by the rules, and faulty ones that may send any vote to        *)
(* anyone.  Messages are not modelled: a quorum that exists may be seen by *)
(* an honest validator at any later time or never.  A precommit for nil    *)
(* supports nothing and is not told apart from not precommitting.          *)
(***************************************************************************)
EXTENDS VotingRules, FiniteSets

CONSTANTS
    Validators,  \* the committee
    Faulty       \* its members that do not follow the code

ASSUME CommitteeAssumption ==
    /\ IsFiniteSet(Validators)
    /\ Faulty \subseteq Validators
    /\ 3 * Cardinality(Faulty) < Cardinality(Validators)

VARIABLES
    round,       \* cs.Round of every honest validator
    prevotes,    \* the prevotes the honest validators signed
    precommits   \* their precommits for blocks

vars == <<round, prevotes, precommits>>

Honest == Validators \ Faulty

\* sum > TotalVotingPower*2/3
IsQuorum(S) == 3 * Cardinality(S) > 2 * Cardinality(Validators)

\* The values that have, or with the votes of faulty validators can be shown
\* to have, +2/3 of the votes of a round.
majorities(votes, r) ==
    {v \in Values : IsQuorum({n \in Honest : votes[n][r] = v} \cup Faulty)}

polkas == [r \in Rounds |-> majorities(prevotes, r)]

Init ==
    /\ round = [n \in Honest |-> 0]
    /\ prevotes = [n \in Honest |-> [r \in Rounds |-> NoVote]]
    /\ precommits = [n \in Honest |-> [r \in Rounds |-> NoVote]]

\* enterPrevote: once a round, and not after the round's precommit.
Prevote(n, v) ==
    /\ prevotes[n][round[n]] = NoVote
    /\ precommits[n][round[n]] = NoVote
    /\ PrevoteRule(precommits[n], polkas, round[n], v)
    /\ prevotes' = [prevotes EXCEPT ![n][round[n]] = v]
    /\ UNCHANGED <<round, precommits>>

\* enterPrecommit: once a round.
Precommit(n, v) ==
    /\ precommits[n][round[n]] = NoVote
    /\ PrecommitRule(polkas, round[n], v)
    /\ precommits' = [precommits EXCEPT ![n][round[n]] = v]
    /\ UNCHANGED <<round, prevotes>>

EnterAnyRound(n, r) ==
    /\ round' = [round EXCEPT ![n] = r]
    /\ UNCHANGED <<prevotes, precommits>>

EnterRoundAfter(n, r) ==
    /\ round[n] < r
    /\ round' = [round EXCEPT ![n] = r + 1]
    /\ UNCHANGED <<prevotes, precommits>>

\* enterNewRound: rounds only grow, and may be skipped.
EnterNewRound(n, r) ==
    /\ round[n] < r
    /\ round' = [round EXCEPT ![n] = r]
    /\ UNCHANGED <<prevotes, precommits>>

Next ==
    \E n \in Honest :
      \/ \E v \in Values : Prevote(n, v)
      \/ \E b \in Blocks : Precommit(n, b)
      \/ \E r \in Rounds : EnterNewRound(n, r)

Spec == Init /\ [][Next]_vars
-----------------------------------------------------------------------------
TypeOK ==
    /\ round \in [Honest -> Rounds]
    /\ prevotes \in [Honest -> [Rounds -> Values \cup {NoVote}]]
    /\ precommits \in [Honest -> [Rounds -> Blocks \cup {NoVote}]]

\* enterCommit finalizes a block with +2/3 precommits in any round: no two
\* blocks of a height ever come to have them, whatever less than a third of
\* the committee does and however the votes are delayed.
Agreement ==
    \A q, r \in Rounds :
      \A b \in majorities(precommits, q), c \in majorities(precommits, r) : b = c

\* Validator n will not precommit b in round r.
Forgoes(n, r, b) ==
    precommits[n][r] # b /\ (precommits[n][r] # NoVote \/ round[n] > r)

\* The argument behind Agreement, about every polka and every earlier round:
\* no quorum of that round can still come to precommit another block.
PolkasAreSafe ==
    \A p, r \in Rounds : \A v \in polkas[p], b \in Blocks :
      r < p /\ b # v =>
        ~ IsQuorum({n \in Honest : ~ Forgoes(n, r, b)} \cup Faulty)
=============================================================================
