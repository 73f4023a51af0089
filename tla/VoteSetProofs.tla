--------------------------- MODULE VoteSetProofs ---------------------------
(***************************************************************************)
(* Proofs about VoteSet for any finite set of validators, any set of       *)
(* blocks and any peers.                                                   *)
(***************************************************************************)
EXTENDS VoteSet, FiniteSetTheorems, TLAPS

\* A leaf that names no prover is the SMT solver's.
USE SMTT(60)

\* The types alone; the bounds on the sums follow from SumsAreExact.
Types ==
    /\ votes \in [Validators -> Vote \cup {NoVote}]
    /\ votesBitArray \in SUBSET Validators
    /\ sum \in Nat
    /\ vsum \in Nat
    /\ maj23 \in BlockIDs \cup {NoBlock}
    /\ tracked \in SUBSET BlockIDs
    /\ peerMaj23 \in SUBSET BlockIDs
    /\ blockVotes \in [BlockIDs -> [Validators -> Results \cup {NoVote}]]
    /\ blockSum \in [BlockIDs -> Nat]
    /\ peerMaj23s \in [Peers -> BlockIDs \cup {NoBlock}]
    /\ ret \in [added : BOOLEAN, err : Errors]

\* A validator with a vote for some block has a canonical vote.
StoredIsVoted ==
    \A b \in BlockIDs, v \in Validators :
      blockVotes[b][v] # NoVote => votes[v] # NoVote

\* Every stored vote for the majority is the canonical one.
MajorityIsCanonical ==
    \A v \in Validators :
      maj23 # NoBlock /\ blockVotes[maj23][v] # NoVote
        => votes[v] = [block |-> maj23, result |-> blockVotes[maj23][v]]

\* There is a majority exactly when some sum has reached the quorum.
MajorityCounted ==
    /\ maj23 # NoBlock => quorum <= blockSum[maj23]
    /\ \A b \in BlockIDs : quorum <= blockSum[b] => maj23 # NoBlock

\* peerMaj23 is set only by the claim of a peer.
ClaimsHavePeers == \A b \in peerMaj23 : \E p \in Peers : peerMaj23s[p] = b

\* Of two blocks with votes of one validator, one is claimed.
ConflictsClaimed ==
    \A v \in Validators : \A b, c \in BlockIDs :
      blockVotes[b][v] # NoVote /\ blockVotes[c][v] # NoVote /\ b # c
        => b \in peerMaj23 \/ c \in peerMaj23

IInv ==
    /\ Types
    /\ SumsAreExact
    /\ vsum <= sum
    /\ StoredIsVoted
    /\ MajorityIsCanonical
    /\ MajorityCounted
    /\ ClaimsHavePeers
    /\ ConflictsClaimed
    /\ VotesHaveEntry

-----------------------------------------------------------------------------
\* Subsets of the validators are finite and no larger than the committee.
LEMMA ValidatorSubsets ==
    ASSUME NEW S \in SUBSET Validators
    PROVE  /\ IsFiniteSet(S)
           /\ Cardinality(S) \in Nat
           /\ Cardinality(S) <= Cardinality(Validators)
           /\ Cardinality(Validators) \in Nat
  BY VoteSetAssumption, FS_Subset, FS_CardinalityType

\* Adding a validator to a set it is not in adds one to its power.
LEMMA AddValidator ==
    ASSUME NEW S \in SUBSET Validators, NEW v \in Validators, v \notin S
    PROVE  Cardinality(S \cup {v}) = Cardinality(S) + 1
  BY ValidatorSubsets, FS_AddElement

\* The quorum is the least number above two thirds of the committee.
LEMMA QuorumBound ==
    ASSUME NEW n \in Nat
    PROVE  quorum <= n <=> 3 * n > 2 * Cardinality(Validators)
  <1>1. Cardinality(Validators) \in Nat
    BY ValidatorSubsets
  <1>2. ASSUME NEW k \in Nat
        PROVE  (k * 2) \div 3 + 1 <= n <=> 3 * n > 2 * k
    BY <1>2
  <1> QED BY <1>1, <1>2 DEF quorum, TotalVotingPower

LEMMA QuorumType == quorum \in Nat /\ 0 < quorum
  BY ValidatorSubsets DEF quorum, TotalVotingPower

-----------------------------------------------------------------------------
LEMMA InitIInv == Init => IInv
  <1> SUFFICES ASSUME Init PROVE IInv
    OBVIOUS
  <1> USE DEF Init
  <1>1. Types
    BY DEF Types, Errors
  <1>2. Voted = {} /\ \A b \in BlockIDs : Agreeing(b) = {}
    BY VoteSetAssumption DEF Voted, Agreeing
  <1>3. SumsAreExact
    BY <1>2, FS_EmptySet DEF SumsAreExact
  <1>4. vsum <= sum /\ StoredIsVoted /\ MajorityIsCanonical
    BY DEF StoredIsVoted, MajorityIsCanonical
  <1>5. MajorityCounted
    BY QuorumType DEF MajorityCounted
  <1>6. ClaimsHavePeers /\ ConflictsClaimed
    BY DEF ClaimsHavePeers, ConflictsClaimed
  <1>7. VotesHaveEntry
    BY DEF VotesHaveEntry
  <1> QED BY <1>1, <1>3, <1>4, <1>5, <1>6, <1>7 DEF IInv

-----------------------------------------------------------------------------
\* Steps that leave the stored votes alone.
LEMMA NoVoteStored ==
    ASSUME IInv, ret' \in [added : BOOLEAN, err : Errors],
           UNCHANGED <<votes, votesBitArray, sum, vsum, maj23, tracked,
                       peerMaj23, blockVotes, blockSum, peerMaj23s>>
    PROVE  IInv'
  BY DEF IInv, Types, SumsAreExact, Voted, Agreeing, StoredIsVoted,
         MajorityIsCanonical, MajorityCounted, ClaimsHavePeers,
         ConflictsClaimed, VotesHaveEntry, quorum

\* A claim only starts tracking a block.
LEMMA ClaimIInv ==
    ASSUME IInv, NEW p \in Peers, NEW b \in BlockIDs, SetPeerMaj23(p, b)
    PROVE  IInv'
  <1> USE DEF SetPeerMaj23, IInv
  <1>1. Types'
    BY DEF Types
  <1>2. SumsAreExact' /\ (vsum <= sum)'
    BY DEF SumsAreExact, Voted, Agreeing
  <1>3. StoredIsVoted' /\ MajorityIsCanonical' /\ MajorityCounted'
    BY DEF StoredIsVoted, MajorityIsCanonical, MajorityCounted, quorum
  <1>4. ClaimsHavePeers'
    <2> SUFFICES ASSUME NEW c \in peerMaj23'
                 PROVE  \E q \in Peers : peerMaj23s'[q] = c
      BY DEF ClaimsHavePeers
    <2>1. CASE c = b
      BY <2>1 DEF Types
    <2>2. CASE c \in peerMaj23
      <3> PICK q \in Peers : peerMaj23s[q] = c
        BY <2>2 DEF ClaimsHavePeers
      <3>1. q # p
        BY <2>2, VoteSetAssumption DEF Types
      <3> QED BY <3>1 DEF Types
    <2> QED BY <2>1, <2>2
  <1>5. ConflictsClaimed' /\ VotesHaveEntry'
    BY DEF ConflictsClaimed, VotesHaveEntry
  <1> QED BY <1>1, <1>2, <1>3, <1>4, <1>5

\* A refused vote may replace the canonical vote, and nothing else.
LEMMA RefuseIInv ==
    ASSUME IInv, NEW v \in Validators, NEW b \in BlockIDs,
           NEW result \in Results, ~ getVote(v, b), refuseVote(v, b, result)
    PROVE  IInv'
  <1> USE DEF IInv, refuseVote, putVote, putBit, conflicting, claimed
  <1>1. Types'
    BY DEF Types, Vote, Errors
  <1>2. Voted' = Voted /\ v \in Voted
    BY VoteSetAssumption DEF Voted, Types, Vote, Results
  <1>3. SumsAreExact' /\ (vsum <= sum)'
    BY <1>2 DEF SumsAreExact, Agreeing
  <1>4. StoredIsVoted'
    BY VoteSetAssumption DEF StoredIsVoted, Types, Results
  <1>5. MajorityIsCanonical'
    BY DEF MajorityIsCanonical, getVote, Types
  <1>6. MajorityCounted' /\ ClaimsHavePeers' /\ ConflictsClaimed'
    BY ZenonT(60) DEF MajorityCounted, ClaimsHavePeers, ConflictsClaimed, quorum
  <1>7. VotesHaveEntry'
    <2> SUFFICES ASSUME NEW u \in Validators, votes'[u] # NoVote,
                        blockVotes[votes'[u].block][u] = NoVote
                 PROVE  /\ votes'[u].block = maj23
                        /\ \E c \in BlockIDs \ {maj23} : blockVotes[c][u] # NoVote
      BY DEF VotesHaveEntry
    <2>1. CASE votes'[u] = votes[u]
      BY <2>1 DEF VotesHaveEntry
    <2>2. CASE votes'[u] # votes[u]
      <3>1. u = v /\ maj23 = b /\ votes'[v].block = b
        BY <2>2 DEF Types
      <3>2. votes[v].block \in BlockIDs \ {b}
        BY DEF getVote, Types, Vote
      <3>3. blockVotes[votes[v].block][v] # NoVote
        BY <3>1, <3>2 DEF VotesHaveEntry
      <3> QED BY <3>1, <3>2, <3>3
    <2> QED BY <2>1, <2>2
  <1> QED BY <1>1, <1>3, <1>4, <1>5, <1>6, <1>7

\* A counted vote enters both storage areas.
LEMMA CountIInv ==
    ASSUME IInv, NEW v \in Validators, NEW b \in BlockIDs,
           NEW result \in Results, ~ getVote(v, b), countVote(v, b, result)
    PROVE  IInv'
  <1> DEFINE vote == [block |-> b, result |-> result]
             put == putVote(v, b, result)
             new == firstQuorum /\ crossesQuorum(b, result)
  <1> USE DEF IInv
  <1>1. /\ blockVotes[b][v] = NoVote
        /\ votes[v] # NoVote => votes[v].block # b
        /\ conflicting(v) => b \in peerMaj23
    BY DEF getVote, countVote, claimed
  <1>2. /\ put \in [Validators -> Vote \cup {NoVote}]
        /\ \A u \in Validators : put[u] # NoVote <=> u \in Voted \/ u = v
    BY VoteSetAssumption DEF putVote, conflicting, Voted, Types, Vote, Results
  <1>3. /\ blockVotes' = [blockVotes EXCEPT ![b][v] = result]
        /\ blockVotes' \in [BlockIDs -> [Validators -> Results \cup {NoVote}]]
        /\ \A c \in BlockIDs, u \in Validators :
             blockVotes'[c][u] = IF c = b /\ u = v THEN result
                                                  ELSE blockVotes[c][u]
    BY DEF countVote, Types
  <1>4. /\ votes' \in [Validators -> Vote \cup {NoVote}]
        /\ \A u \in Validators :
             votes'[u] = IF new /\ blockVotes'[b][u] # NoVote
                         THEN [block |-> b, result |-> blockVotes'[b][u]]
                         ELSE put[u]
    BY <1>2, <1>3 DEF countVote, Vote
  <1>5. /\ blockSum' = [blockSum EXCEPT ![b] = @ + Weight(result)]
        /\ blockSum' \in [BlockIDs -> Nat]
        /\ maj23' = IF new THEN b ELSE maj23
    BY DEF countVote, Types, Weight
  <1>6. Types'
    BY <1>3, <1>4, <1>5 DEF Types, countVote, putBit, Weight, Errors
  <1>7. Voted' = Voted \cup {v}
    BY <1>1, <1>2, <1>3, <1>4, VoteSetAssumption
       DEF Voted, StoredIsVoted, Vote, Results
  <1>8. (sum = Cardinality(Voted))' /\ (vsum <= sum)' /\ (votesBitArray = Voted)'
    <2>1. CASE conflicting(v)
      <3>1. v \in Voted
        BY <2>1 DEF conflicting, Voted
      <3> QED BY <2>1, <3>1, <1>7 DEF countVote, putBit, SumsAreExact
    <2>2. CASE ~ conflicting(v)
      <3>1. v \notin Voted /\ Voted \in SUBSET Validators
        BY <2>2 DEF conflicting, Voted
      <3>2. Cardinality(Voted \cup {v}) = Cardinality(Voted) + 1
        BY <3>1, AddValidator
      <3> QED BY <2>2, <3>2, <1>7 DEF countVote, putBit, SumsAreExact, Types, Weight
    <2> QED BY <2>1, <2>2
  <1>9. ASSUME NEW c \in BlockIDs
        PROVE  (blockSum[c] = Cardinality(Agreeing(c)))'
    <2> USE <1>3, <1>5
    <2>1. CASE c = b /\ result = "agree"
      <3>1. Agreeing(c)' = Agreeing(c) \cup {v}
        BY <2>1 DEF Agreeing
      <3>2. v \notin Agreeing(c) /\ Agreeing(c) \in SUBSET Validators
        BY <2>1, <1>1, VoteSetAssumption DEF Agreeing
      <3>3. Cardinality(Agreeing(c) \cup {v}) = Cardinality(Agreeing(c)) + 1
        BY <3>2, AddValidator
      <3> QED BY <2>1, <3>1, <3>3 DEF SumsAreExact, Types, Weight
    <2>2. CASE ~ (c = b /\ result = "agree")
      <3>1. Agreeing(c)' = Agreeing(c)
        BY <2>2, <1>1, VoteSetAssumption DEF Agreeing
      <3> QED BY <2>2, <3>1 DEF SumsAreExact, Types, Weight
    <2> QED BY <2>1, <2>2
  <1>10. StoredIsVoted'
    BY <1>2, <1>3, <1>7 DEF StoredIsVoted, Voted
  <1>11. MajorityIsCanonical'
    <2> SUFFICES ASSUME NEW u \in Validators, maj23' # NoBlock,
                        blockVotes'[maj23'][u] # NoVote
                 PROVE  votes'[u] = [block |-> maj23',
                                     result |-> blockVotes'[maj23'][u]]
      BY ZenonT(60) DEF MajorityIsCanonical
    <2>1. CASE new
      BY ZenonT(60), <2>1, <1>4, <1>5
    <2>2. CASE ~ new /\ u = v /\ maj23 = b
      BY <2>2, <1>3, <1>4, <1>5 DEF putVote, Types
    <2>3. CASE ~ new /\ u = v /\ maj23 # b
      <3>1. blockVotes[maj23][v] # NoVote /\ maj23 # NoBlock /\ maj23 \in BlockIDs
        BY <2>3, <1>3, <1>5 DEF Types
      <3>2. conflicting(v)
        BY <3>1 DEF StoredIsVoted, conflicting
      <3> QED BY ZenonT(60), <2>3, <3>1, <3>2, <1>3, <1>4, <1>5
            DEF putVote, MajorityIsCanonical
    <2>4. CASE ~ new /\ u # v
      BY <2>4, <1>3, <1>4, <1>5 DEF putVote, MajorityIsCanonical, Types
    <2> QED BY <2>1, <2>2, <2>3, <2>4
  <1>12. MajorityCounted'
    BY <1>5, QuorumType, VoteSetAssumption
       DEF MajorityCounted, crossesQuorum, firstQuorum, Types, Weight, quorum
  <1>13. ClaimsHavePeers'
    BY DEF ClaimsHavePeers, countVote
  <1>14. ConflictsClaimed'
    <2>1. peerMaj23' = peerMaj23
      BY DEF countVote
    <2>2. CASE conflicting(v)
      BY <2>1, <2>2, <1>1, <1>3 DEF ConflictsClaimed
    <2>3. CASE ~ conflicting(v)
      BY <2>1, <2>3, <1>3 DEF ConflictsClaimed, StoredIsVoted, conflicting
    <2> QED BY <2>2, <2>3
  <1>15. VotesHaveEntry'
    <2> SUFFICES ASSUME NEW u \in Validators, votes'[u] # NoVote,
                        blockVotes'[votes'[u].block][u] = NoVote
                 PROVE  /\ votes'[u].block = maj23'
                        /\ \E c \in BlockIDs \ {maj23'} : blockVotes'[c][u] # NoVote
      BY DEF VotesHaveEntry
    <2>1. votes'[u] = put[u] /\ votes'[u].block \in BlockIDs
      BY <1>4 DEF Vote
    <2>2. put[u] = votes[u]
      BY <1>3, <2>1, VoteSetAssumption DEF putVote, Types, Results
    <2>3. blockVotes[votes[u].block][u] = NoVote
      BY <1>3, <2>1, <2>2, VoteSetAssumption DEF Results
    <2>4. PICK c \in BlockIDs \ {maj23} : blockVotes[c][u] # NoVote
      BY ZenonT(60), <2>1, <2>2, <2>3 DEF VotesHaveEntry
    <2>5. votes[u].block = maj23
      BY ZenonT(60), <2>1, <2>2, <2>3 DEF VotesHaveEntry
    <2>6. maj23' = maj23
      BY <2>1, <2>2, <2>5, <1>5, VoteSetAssumption DEF firstQuorum
    <2>7. blockVotes'[c][u] # NoVote
      BY <1>1, <1>3, <2>4
    <2> QED BY <2>1, <2>2, <2>4, <2>5, <2>6, <2>7
  <1> QED BY ZenonT(60), <1>6, <1>7, <1>8, <1>9, <1>10, <1>11, <1>12, <1>13, <1>14, <1>15
        DEF SumsAreExact

LEMMA NextIInv == IInv /\ [Next]_vars => IInv'
  <1> SUFFICES ASSUME IInv, [Next]_vars PROVE IInv'
    OBVIOUS
  <1>1. CASE AddInvalidVote
    BY <1>1, NoVoteStored DEF AddInvalidVote, Errors
  <1>2. ASSUME NEW v \in Validators, NEW b \in BlockIDs, AddKnownVote(v, b)
        PROVE  IInv'
    BY <1>2, NoVoteStored DEF AddKnownVote, Errors
  <1>3. ASSUME NEW v \in Validators, NEW b \in BlockIDs,
               NEW result \in Results, addVerifiedVote(v, b, result)
        PROVE  IInv'
    BY <1>3, RefuseIInv, CountIInv DEF addVerifiedVote
  <1>4. ASSUME NEW p \in Peers, NEW b \in BlockIDs, SetPeerMaj23(p, b)
        PROVE  IInv'
    BY <1>4, ClaimIInv
  <1>5. CASE UNCHANGED vars
    BY ZenonT(60), <1>5, NoVoteStored DEF vars, IInv, Types
  <1> QED BY <1>1, <1>2, <1>3, <1>4, <1>5 DEF Next, AddVote

\* The inductive invariant holds in every state of every VoteSet.
THEOREM Invariance == Spec => []IInv
  BY InitIInv, NextIInv, PTL DEF Spec

-----------------------------------------------------------------------------
\* The fields of a VoteSet have their types and no sum exceeds the total
\* power: no vote is ever counted twice by addVerifiedVote.
THEOREM TypeCorrect == Spec => []TypeOK
  <1>1. IInv => TypeOK
    <2> SUFFICES ASSUME IInv PROVE TypeOK
      OBVIOUS
    <2>1. sum <= TotalVotingPower /\ TotalVotingPower \in Nat
      BY ValidatorSubsets DEF IInv, SumsAreExact, Voted, TotalVotingPower
    <2>2. ASSUME NEW b \in BlockIDs
          PROVE  blockSum[b] <= TotalVotingPower
      BY ZenonT(60), ValidatorSubsets DEF IInv, SumsAreExact, Agreeing, TotalVotingPower
    <2> QED BY <2>1, <2>2 DEF IInv, Types, TypeOK
  <1> QED BY <1>1, Invariance, PTL

\* The counters the round changes read are exact, with any equivocation.
THEOREM SumsExact == Spec => []SumsAreExact
  <1>1. IInv => SumsAreExact
    BY DEF IInv
  <1> QED BY <1>1, Invariance, PTL

\* The commit built by MakeCommit carries more than two thirds of the power
\* in agreeing votes for the majority block.
THEOREM CommitQuorum == Spec => []CommitHasQuorum
  <1>1. IInv => CommitHasQuorum
    <2> SUFFICES ASSUME IInv, maj23 # NoBlock
                 PROVE  3 * Cardinality({v \in Validators :
                            votes[v] = [block |-> maj23, result |-> "agree"]})
                          > 2 * Cardinality(Validators)
      BY DEF CommitHasQuorum
    <2> DEFINE S == {v \in Validators :
                        votes[v] = [block |-> maj23, result |-> "agree"]}
    <2>1. maj23 \in BlockIDs
      BY DEF IInv, Types
    <2>2. Agreeing(maj23) \subseteq S
      BY VoteSetAssumption DEF IInv, MajorityIsCanonical, Agreeing
    <2>3. Cardinality(Agreeing(maj23)) <= Cardinality(S) /\ Cardinality(S) \in Nat
      BY <2>2, ValidatorSubsets, FS_Subset
    <2>4. quorum <= Cardinality(Agreeing(maj23)) /\ Cardinality(Agreeing(maj23)) \in Nat
      BY <2>1, ValidatorSubsets DEF IInv, MajorityCounted, SumsAreExact, Agreeing
    <2>5. quorum <= Cardinality(S)
      BY <2>3, <2>4, QuorumType
    <2> QED BY <2>3, <2>5, QuorumBound
  <1> QED BY <1>1, Invariance, PTL

\* addVerifiedVote never misses a block with more than two thirds.
THEOREM MajorityFound == Spec => []NoMajorityMissed
  <1>1. IInv => NoMajorityMissed
    <2> SUFFICES ASSUME IInv, NEW b \in BlockIDs,
                        3 * Cardinality(Agreeing(b)) > 2 * Cardinality(Validators)
                 PROVE  maj23 # NoBlock
      BY DEF NoMajorityMissed
    <2>1. Cardinality(Agreeing(b)) \in Nat
      BY ValidatorSubsets DEF Agreeing
    <2>2. quorum <= blockSum[b]
      BY <2>1, QuorumBound DEF IInv, SumsAreExact
    <2> QED BY <2>2 DEF IInv, MajorityCounted
  <1> QED BY <1>1, Invariance, PTL

\* A vote in .votes has its entry in .votesByBlock, but for a refused vote for
\* the majority of a validator with an entry for another block.
THEOREM EntriesKept == Spec => []VotesHaveEntry
  <1>1. IInv => VotesHaveEntry
    BY DEF IInv
  <1> QED BY <1>1, Invariance, PTL

\* Conflicting votes are stored only for blocks that a peer claimed.
THEOREM MemoryBound == Spec => []ConflictsOnlyWhereClaimed
  <1>1. IInv => ConflictsOnlyWhereClaimed
    BY DEF IInv, ConflictsOnlyWhereClaimed, ConflictsClaimed, ClaimsHavePeers
  <1> QED BY <1>1, Invariance, PTL

\* A validator known to have voted for the majority is shown with that vote.
THEOREM MajorityPriority == Spec => []MajorityHasPriority
  <1>1. IInv => MajorityHasPriority
    <2> SUFFICES ASSUME IInv, NEW v \in Validators, maj23 # NoBlock,
                        blockVotes[maj23][v] # NoVote
                 PROVE  votes[v].block = maj23
      BY DEF MajorityHasPriority
    <2>1. votes[v] = [block |-> maj23, result |-> blockVotes[maj23][v]]
      BY DEF IInv, MajorityIsCanonical
    <2> QED BY <2>1
  <1> QED BY <1>1, Invariance, PTL

\* A stored vote for some block is a vote of a validator that voted.
LEMMA MajorityVoted == IInv /\ maj23 # NoBlock => quorum <= sum
  <1> SUFFICES ASSUME IInv, maj23 # NoBlock PROVE quorum <= sum
    OBVIOUS
  <1>1. maj23 \in BlockIDs
    BY DEF IInv, Types
  <1>2. Agreeing(maj23) \subseteq Voted /\ Voted \subseteq Validators
    BY <1>1, VoteSetAssumption DEF IInv, StoredIsVoted, Agreeing, Voted
  <1>3. /\ Cardinality(Agreeing(maj23)) <= Cardinality(Voted)
        /\ Cardinality(Agreeing(maj23)) \in Nat /\ Cardinality(Voted) \in Nat
    BY <1>2, ValidatorSubsets, FS_Subset, FS_CardinalityType
  <1> QED BY <1>1, <1>3, QuorumType DEF IInv, SumsAreExact, MajorityCounted

\* HasTwoThirdsAny is implied by a majority and by HasAll.
THEOREM AnyWeakest == Spec => []AnyIsWeakest
  <1>1. IInv => AnyIsWeakest
    <2> SUFFICES ASSUME IInv, HasTwoThirdsMajority \/ HasAll
                 PROVE  HasTwoThirdsAny
      BY DEF AnyIsWeakest
    <2>1. CASE HasTwoThirdsMajority
      BY <2>1, MajorityVoted, ValidatorSubsets
         DEF HasTwoThirdsMajority, HasTwoThirdsAny, quorum, TotalVotingPower,
             IInv, Types
    <2>2. CASE HasAll
      <3>1. Cardinality(Validators) \in Nat /\ Cardinality(Validators) # 0
        BY ZenonT(60), VoteSetAssumption, ValidatorSubsets, FS_EmptySet
      <3>2. ASSUME NEW k \in Nat, k # 0 PROVE k > (k * 2) \div 3
        BY <3>2
      <3> QED BY <2>2, <3>1, <3>2 DEF HasAll, HasTwoThirdsAny, TotalVotingPower
    <2> QED BY <2>1, <2>2
  <1> QED BY <1>1, Invariance, PTL

\* No step takes back a majority, the vote of a validator or a count.
LEMMA StepGrows ==
    ASSUME IInv, [Next]_vars
    PROVE  sum <= sum' /\ (maj23 # NoBlock => maj23' = maj23)
  <1>1. sum \in Nat
    BY ZenonT(60) DEF IInv, Types
  <1>2. ASSUME NEW v, NEW b, NEW result, countVote(v, b, result)
        PROVE  (sum' = sum \/ sum' = sum + 1) /\ (maj23 # NoBlock => maj23' = maj23)
    BY ZenonT(60), <1>2 DEF countVote, firstQuorum
  <1>3. ASSUME NEW v, NEW b, NEW result, refuseVote(v, b, result)
        PROVE  sum' = sum /\ maj23' = maj23
    BY ZenonT(60), <1>3 DEF refuseVote
  <1>4. ASSUME NEW v, NEW b, AddKnownVote(v, b)
        PROVE  sum' = sum /\ maj23' = maj23
    BY ZenonT(60), <1>4 DEF AddKnownVote
  <1>5. ASSUME NEW p, NEW b, SetPeerMaj23(p, b)
        PROVE  sum' = sum /\ maj23' = maj23
    BY ZenonT(60), <1>5 DEF SetPeerMaj23
  <1>6. AddInvalidVote \/ UNCHANGED vars => sum' = sum /\ maj23' = maj23
    BY ZenonT(60) DEF AddInvalidVote, vars
  <1>7. (sum' = sum \/ sum' = sum + 1) /\ (maj23 # NoBlock => maj23' = maj23)
    BY ZenonT(60), <1>2, <1>3, <1>4, <1>5, <1>6 DEF Next, AddVote, addVerifiedVote
  <1> QED BY <1>1, <1>7

\* The readers of a VoteSet see a tally that only becomes stronger, and a
\* majority that is final.
THEOREM VoteSetImplementsTally == Spec => ImplementsTally
  <1>1. Init => VT!Init
    <2> SUFFICES ASSUME Init PROVE tally = "none"
      BY DEF VT!Init
    <2>1. Cardinality(Validators) \in Nat /\ Cardinality(Validators) # 0
      BY VoteSetAssumption, ValidatorSubsets, FS_EmptySet
    <2>2. ASSUME NEW k \in Nat PROVE ~ (0 > (k * 2) \div 3)
      BY <2>2
    <2> QED BY <2>1, <2>2 DEF Init, tally, HasTwoThirdsMajority, HasAll,
                              HasTwoThirdsAny, TotalVotingPower
  <1>2. IInv /\ IInv' /\ [Next]_vars => [VT!Next]_tally
    <2> SUFFICES ASSUME IInv, IInv', [Next]_vars, tally' # tally
                 PROVE  tally' \in VT!Later(tally)
      BY DEF VT!Next
    <2>1. sum <= sum' /\ (maj23 # NoBlock => maj23' = maj23)
      BY StepGrows
    <2>2. /\ sum \in Nat /\ sum' \in Nat
          /\ maj23 \in BlockIDs \cup {NoBlock}
          /\ maj23' \in BlockIDs \cup {NoBlock}
      BY DEF IInv, Types
    <2>3. sum' <= TotalVotingPower /\ TotalVotingPower \in Nat
      BY ValidatorSubsets DEF IInv, SumsAreExact, Voted, TotalVotingPower
    <2>4. tally' \in VT!Tally
      BY <2>2 DEF tally, VT!Tally, HasTwoThirdsMajority
    <2>5. maj23 = NoBlock
      BY <2>1 DEF tally, HasTwoThirdsMajority
    <2>6. VT!Rank(tally) < VT!Rank(tally')
      <3>1. CASE maj23' # NoBlock
        BY <3>1, <2>2, <2>5, VoteSetAssumption
           DEF tally, VT!Rank, HasTwoThirdsMajority
      <3>2. CASE maj23' = NoBlock
        <4> DEFINE two == (TotalVotingPower * 2) \div 3
        <4>1. two \in Int
          BY <2>3
        <4> HIDE DEF two
        <4>2. /\ HasAll <=> sum = TotalVotingPower
              /\ HasAll' <=> sum' = TotalVotingPower
              /\ HasTwoThirdsAny <=> sum > two
              /\ HasTwoThirdsAny' <=> sum' > two
          BY DEF HasAll, HasTwoThirdsAny, two, TotalVotingPower
        <4> QED BY <3>2, <4>1, <4>2, <2>1, <2>2, <2>3, <2>5
                DEF tally, VT!Rank, HasTwoThirdsMajority
      <3> QED BY <3>1, <3>2
    <2> QED BY <2>4, <2>6 DEF VT!Later
  <1> QED BY <1>1, <1>2, Invariance, PTL DEF Spec, ImplementsTally, VT!Spec
=============================================================================
