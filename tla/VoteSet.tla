------------------------------ MODULE VoteSet ------------------------------
(***************************************************************************)
(* The set of votes of one height, round and type (types/vote_set.go).     *)
(*                                                                         *)
(* VoteSet.AddVote runs under voteSet.mtx, so every call is one step.      *)
(* Every validator of a committee has voting power 1 (node.go), so sums of *)
(* voting power are numbers of validators.  A vote is its validator, its   *)
(* block and its Result; the signature matters only through the comparison *)
(* of AddVote with the vote that is already known.  The nil block is one   *)
(* of BlockIDs: BlockID{}.Key() is a key like any other.                   *)
(***************************************************************************)
EXTENDS Integers, FiniteSets

CONSTANTS
    Validators,  \* the members of valSet
    BlockIDs,    \* the BlockIDs votes are for, nil included
    Peers,       \* the peers that may claim a majority
    NoBlock,     \* maj23 == nil, or no claim of a peer
    NoVote       \* a nil *Vote

ASSUME VoteSetAssumption ==
    /\ IsFiniteSet(Validators) /\ Validators # {}
    /\ BlockIDs \cap {NoBlock, "none", "any", "all"} = {}
    /\ NoVote \notin {"agree", "against"}
    /\ NoVote \notin [block : BlockIDs, result : {"agree", "against"}]

VARIABLES
    votes,          \* .votes: the canonical vote of each validator
    votesBitArray,  \* .votesBitArray: the validators whose bit is set
    sum,            \* .sum: power of the validators with a vote
    vsum,           \* .vsum: power of those whose first vote agrees
    maj23,          \* .maj23: the first 2/3 majority seen
    tracked,        \* the keys of .votesByBlock
    peerMaj23,      \* the keys whose blockVotes.peerMaj23 is set
    blockVotes,     \* blockVotes.votes of every key: the Result, or NoVote
    blockSum,       \* blockVotes.sum of every key
    peerMaj23s,     \* .peerMaj23s: the claim of each peer
    ret             \* what the last AddVote returned

vars == <<votes, votesBitArray, sum, vsum, maj23, tracked, peerMaj23,
          blockVotes, blockSum, peerMaj23s, ret>>

Results == {"agree", "against"}

Errors == {"nil", "invalid", "nondeterministic", "conflicting"}

Vote == [block : BlockIDs, result : Results]

TotalVotingPower == Cardinality(Validators)

QuorumOffByOne == (TotalVotingPower * 2) \div 3

\* TotalVotingPower()*2/3 + 1
quorum == (TotalVotingPower * 2) \div 3 + 1

HasTwoThirdsMajority == maj23 # NoBlock

HasTwoThirdsAny == sum > (TotalVotingPower * 2) \div 3

HasAll == sum = TotalVotingPower

\* NewVoteSet
Init ==
    /\ votes = [v \in Validators |-> NoVote]
    /\ votesBitArray = {}
    /\ sum = 0
    /\ vsum = 0
    /\ maj23 = NoBlock
    /\ tracked = {}
    /\ peerMaj23 = {}
    /\ blockVotes = [b \in BlockIDs |-> [v \in Validators |-> NoVote]]
    /\ blockSum = [b \in BlockIDs |-> 0]
    /\ peerMaj23s = [p \in Peers |-> NoBlock]
    /\ ret = [added |-> FALSE, err |-> "nil"]

\* A vote with a bad index, address, height, round, type or signature.
AddInvalidVote ==
    /\ ret' = [added |-> FALSE, err |-> "invalid"]
    /\ UNCHANGED <<votes, votesBitArray, sum, vsum, maj23, tracked, peerMaj23,
                   blockVotes, blockSum, peerMaj23s>>

GetVoteInVotesOnly(v, b) == votes[v] # NoVote /\ votes[v].block = b

\* getVote(valIndex, blockKey): the vote is known in either storage area.
getVote(v, b) ==
    \/ votes[v] # NoVote /\ votes[v].block = b
    \/ blockVotes[b][v] # NoVote

\* A vote the set already knows is a duplicate when the signatures are equal.
AddKnownVote(v, b) ==
    /\ getVote(v, b)
    /\ \E err \in {"nil", "nondeterministic"} :
           ret' = [added |-> FALSE, err |-> err]
    /\ UNCHANGED <<votes, votesBitArray, sum, vsum, maj23, tracked, peerMaj23,
                   blockVotes, blockSum, peerMaj23s>>

\* A validator's vote is conflicting when .votes holds one for another block.
conflicting(v) == votes[v] # NoVote

PutVoteFirstOnly(v, b, result) ==
    IF conflicting(v)
    THEN votes
    ELSE [votes EXCEPT ![v] = [block |-> b, result |-> result]]

PutVoteLast(v, b, result) == [votes EXCEPT ![v] = [block |-> b, result |-> result]]

\* .votes before the quorum test: the first vote, or one for the majority.
putVote(v, b, result) ==
    IF conflicting(v) /\ maj23 # b
    THEN votes
    ELSE [votes EXCEPT ![v] = [block |-> b, result |-> result]]

putBit(v, b) ==
    IF conflicting(v) /\ maj23 # b THEN votesBitArray
                                   ELSE votesBitArray \cup {v}

ClaimedIfTracked(b) == b \in tracked

\* A conflicting vote is kept only where blockVotes.peerMaj23 is set.
claimed(b) == b \in peerMaj23

\* Conflicting votes are kept only for a block some peer claims; a replaced
\* vote stays in .votes although AddVote reports that nothing was added.
refuseVote(v, b, result) ==
    /\ conflicting(v)
    /\ ~ claimed(b)
    /\ votes' = putVote(v, b, result)
    /\ votesBitArray' = putBit(v, b)
    /\ ret' = [added |-> FALSE, err |-> "conflicting"]
    /\ UNCHANGED <<sum, vsum, maj23, tracked, peerMaj23, blockVotes, blockSum,
                   peerMaj23s>>

WeightOfAny(result) == 1

\* Only votes whose Result is VoteAgree count towards a majority.
Weight(result) == IF result = "agree" THEN 1 ELSE 0

CrossesQuorumLate(b, result) ==
    blockSum[b] <= quorum /\ quorum < blockSum[b] + Weight(result)

\* The test against the quorum of blockVotes.sum before and after the vote.
crossesQuorum(b, result) ==
    blockSum[b] < quorum /\ quorum <= blockSum[b] + Weight(result)

AnyQuorum == TRUE

\* Only the first quorum reached is considered.
firstQuorum == maj23 = NoBlock

\* The vote is counted, and the first quorum becomes the majority, whose
\* votes are copied over .votes.
countVote(v, b, result) ==
    /\ conflicting(v) => claimed(b)
    /\ votesBitArray' = putBit(v, b)
    /\ IF conflicting(v)
       THEN UNCHANGED <<sum, vsum>>
       ELSE sum' = sum + 1 /\ vsum' = vsum + Weight(result)
    /\ tracked' = tracked \cup {b}
    /\ blockVotes' = [blockVotes EXCEPT ![b][v] = result]
    /\ blockSum' = [blockSum EXCEPT ![b] = @ + Weight(result)]
    /\ IF firstQuorum /\ crossesQuorum(b, result)
       THEN /\ maj23' = b
            /\ votes' = [u \in Validators |->
                           IF blockVotes'[b][u] # NoVote
                           THEN [block |-> b, result |-> blockVotes'[b][u]]
                           ELSE putVote(v, b, result)[u]]
       ELSE /\ maj23' = maj23
            /\ votes' = putVote(v, b, result)
    /\ ret' = [added |-> TRUE,
               err |-> IF conflicting(v) THEN "conflicting" ELSE "nil"]
    /\ UNCHANGED <<peerMaj23, peerMaj23s>>

addVerifiedVote(v, b, result) ==
    /\ ~ getVote(v, b)
    /\ refuseVote(v, b, result) \/ countVote(v, b, result)

\* SetPeerMaj23: a peer's first claim starts the tracking of its block.
SetPeerMaj23(p, b) ==
    /\ peerMaj23s[p] = NoBlock
    /\ peerMaj23s' = [peerMaj23s EXCEPT ![p] = b]
    /\ tracked' = tracked \cup {b}
    /\ peerMaj23' = peerMaj23 \cup {b}
    /\ UNCHANGED <<votes, votesBitArray, sum, vsum, maj23, blockVotes,
                   blockSum, ret>>

AddVote ==
    \/ AddInvalidVote
    \/ \E v \in Validators, b \in BlockIDs :
          \/ AddKnownVote(v, b)
          \/ \E result \in Results : addVerifiedVote(v, b, result)

Next ==
    \/ AddVote
    \/ \E p \in Peers, b \in BlockIDs : SetPeerMaj23(p, b)

Spec == Init /\ [][Next]_vars
-----------------------------------------------------------------------------
Voted == {v \in Validators : votes[v] # NoVote}

Agreeing(b) == {v \in Validators : blockVotes[b][v] = "agree"}

\* The values the fields of a VoteSet take; no sum exceeds the total power.
TypeOK ==
    /\ votes \in [Validators -> Vote \cup {NoVote}]
    /\ votesBitArray \in SUBSET Validators
    /\ sum \in 0 .. TotalVotingPower
    /\ vsum \in 0 .. TotalVotingPower
    /\ maj23 \in BlockIDs \cup {NoBlock}
    /\ tracked \in SUBSET BlockIDs
    /\ peerMaj23 \in SUBSET BlockIDs
    /\ blockVotes \in [BlockIDs -> [Validators -> Results \cup {NoVote}]]
    /\ blockSum \in [BlockIDs -> 0 .. TotalVotingPower]
    /\ peerMaj23s \in [Peers -> BlockIDs \cup {NoBlock}]
    /\ ret \in [added : BOOLEAN, err : Errors]

\* The commit MakeCommit builds from .votes once there is a majority carries
\* agreeing votes for that block from more than two thirds of the power,
\* whatever conflicting votes arrived before and after the majority.
CommitHasQuorum ==
    maj23 # NoBlock =>
      3 * Cardinality({v \in Validators :
             votes[v] = [block |-> maj23, result |-> "agree"]})
        > 2 * Cardinality(Validators)

\* addVerifiedVote never lets a block pass two thirds unnoticed: when some
\* block has that many agreeing votes there is a majority.
NoMajorityMissed ==
    \A b \in BlockIDs :
      3 * Cardinality(Agreeing(b)) > 2 * Cardinality(Validators)
        => maj23 # NoBlock

\* The counters HasTwoThirdsAny, HasAll and the quorum test read agree with
\* the votes that are stored: conflicting votes are never counted twice.
SumsAreExact ==
    /\ sum = Cardinality(Voted)
    /\ votesBitArray = Voted
    /\ \A b \in BlockIDs : blockSum[b] = Cardinality(Agreeing(b))

\* Votes for the majority get priority in .votes: a validator known to have
\* voted for it is never shown with a conflicting vote.
MajorityHasPriority ==
    \A v \in Validators :
      maj23 # NoBlock /\ blockVotes[maj23][v] # NoVote => votes[v].block = maj23

\* The comment "all votes in `.votes` will have a corresponding entry in
\* `.votesByBlock`" is exact but for one case: a validator whose first vote was
\* for another block, and whose vote for the majority came after the majority
\* and was refused, is shown in .votes with the vote that was refused.
VotesHaveEntry ==
    \A v \in Validators :
      votes[v] # NoVote /\ blockVotes[votes[v].block][v] = NoVote
        => /\ votes[v].block = maj23
           /\ \E b \in BlockIDs \ {maj23} : blockVotes[b][v] # NoVote

\* The memory bound of the VoteSet comment: outside the blocks that peers
\* claim, one vote of each validator is kept.
ConflictsOnlyWhereClaimed ==
    \A v \in Validators : \A b, c \in BlockIDs :
      /\ blockVotes[b][v] # NoVote
      /\ blockVotes[c][v] # NoVote
      /\ b # c
      => \E p \in Peers : peerMaj23s[p] \in {b, c}

\* HasTwoThirdsAny holds whenever there is a majority or everyone has voted:
\* addVote in state.go relies on it when it skips to a later round.
AnyIsWeakest == HasTwoThirdsMajority \/ HasAll => HasTwoThirdsAny

tally ==
    IF HasTwoThirdsMajority THEN maj23
    ELSE IF HasAll THEN "all"
    ELSE IF HasTwoThirdsAny THEN "any" ELSE "none"

VT == INSTANCE VoteTally WITH Values <- BlockIDs

\* A VoteSet keeps its promise to ConsensusState: what TwoThirdsMajority,
\* HasAll and HasTwoThirdsAny answer never becomes weaker, and the first
\* majority seen is final.
ImplementsTally == VT!Spec
=============================================================================
