-------------------------- MODULE MCConsensusState --------------------------
(***************************************************************************)
(* Instances of ConsensusState: which opinions the agent may have of the   *)
(* blocks, and which stages of a round's votes the node gets to see.       *)
(***************************************************************************)
EXTENDS ConsensusClaims, TLC

\* Whether a block is valid never matters.
AllAgree == {[b \in Blocks |-> "agree"]}

\* The agent signs for every block or for none, or it may sign against them.
AllOrNone == {[b \in Blocks |-> v] : v \in {"agree", "invalid"}}
AgreeOrAgainst == [Blocks -> {"agree", "against"}]

AnyVerdict == [Blocks -> Verdict]

\* Every stage, or only the decisive ones: a majority (or votes of +2/3).
EveryTally == Tally \ {"none"}
Majorities == Values
MajoritiesOrAny == Values \cup {"any"}

\* Blocks are compared for equality only.
Symmetry == Permutations(Blocks)
=============================================================================
