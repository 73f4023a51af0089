------------------------------ MODULE Tallies ------------------------------
(***************************************************************************)
(* What the rest of TBFT can read from a VoteSet.  ConsensusState asks a   *)
(* set of votes for three things: its majority (TwoThirdsMajority), whether *)
(* more than two thirds voted at all (HasTwoThirdsAny) and whether everyone *)
(* did (HasAll).  A tally is the strongest of the three answers.           *)
(***************************************************************************)
EXTENDS Integers

CONSTANT Values  \* the BlockIDs that can have a majority, nil included

Tally == {"none", "any", "all"} \cup Values

HasTwoThirdsAny(t) == t # "none"

TwoThirdsMajority(t) == t \in Values

Rank(t) ==
    IF t = "none" THEN 0 ELSE IF t = "any" THEN 1 ELSE IF t = "all" THEN 2 ELSE 3

\* The tallies one more vote may lead to: the answers never become weaker and
\* a majority is final.  A majority may follow HasAll: a conflicting vote for
\* a block that a peer claimed is counted for that block.
Later(t) == {t} \cup {u \in Tally : Rank(t) < Rank(u)}
=============================================================================
