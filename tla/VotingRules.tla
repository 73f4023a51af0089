---------------------------- MODULE VotingRules ----------------------------
(***************************************************************************)
(* The rules a validator's votes obey within one height.  ConsensusState   *)
(* (state.go) enforces them with LockedBlock and LockedRound; here they    *)
(* are stated over the votes alone, so that what one node does and what a  *)
(* committee may conclude from it can be checked apart from each other.    *)
(***************************************************************************)
EXTENDS Integers

CONSTANTS
    Blocks,    \* the blocks that may be proposed at the height
    Nil,       \* the zero BlockID
    NoVote,    \* no vote cast
    MaxRound   \* bound on the rounds

ASSUME VotingAssumption ==
    /\ MaxRound \in Nat
    /\ Nil \notin Blocks
    /\ NoVote \notin Blocks \cup {Nil}

Rounds == 0 .. MaxRound

Values == Blocks \cup {Nil}

PrevoteRuleAnyPolka(precommitted, polkas, r, v) ==
    \A q \in Rounds :
      q < r /\ precommitted[q] \in Blocks \ {v}
        => \E p \in Rounds : p < r /\ polkas[p] \ {precommitted[q]} # {}

\* After a precommit for a block a validator prevotes for something else only
\* when a later round, before this one, had a polka for something else.
PrevoteRule(precommitted, polkas, r, v) ==
    \A q \in Rounds :
      q < r /\ precommitted[q] \in Blocks \ {v}
        => \E p \in Rounds :
             q < p /\ p < r /\ polkas[p] \ {precommitted[q]} # {}

\* A precommit for a block needs a polka for it in the same round.
PrecommitRule(polkas, r, v) == v \in Blocks => v \in polkas[r]
=============================================================================
