----------------------------- MODULE VoteGossip -----------------------------
(***************************************************************************)
(* How the reactor of a node brings a peer the votes it lacks.             *)
(*                                                                         *)
(* For each peer a node runs gossipVotesRoutine and queryMaj23Routine.     *)
(* They decide by ps, the node's PeerState of the peer, which the peer's   *)
(* messages change between any two of their steps.  The peer is at height  *)
(* 1 and goes on to height 2; the node is at height 1 too, or ahead of it. *)
(*                                                                         *)
(* A Send that finds its queue full for ten seconds gives up: the message  *)
(* is lost.  Broadcast sends every announcement in a goroutine of its own, *)
(* so announcements arrive in any order, and one that is lost is one that  *)
(* never arrives.                                                          *)
(***************************************************************************)
EXTENDS PeerState, FiniteSets

CONSTANTS
    Validators,
    ForBlock,     \* those who vote for the block that is decided on
    Rounds,
    Cast,         \* the votes that exist
    HeldAtStart,  \* those of them the node starts with
    Elsewhere,    \* those of them the peer may get from others
    PeerSteps,    \* the steps at which the peer may be seen
    PolRounds,    \* the POL rounds of the proposals
    MaxNodeHeight,\* bound on the height of the node
    StoreLimit,   \* MaxLimitBlockStore
    MaxWire,      \* bound on the announcements under way
    MaxLost       \* bound on the votes that are lost

Vote == [round : Rounds, type : VoteTypes, val : Validators]

ASSUME VoteGossipAssumption ==
    /\ IsFiniteSet(Validators) /\ ForBlock \subseteq Validators
    /\ Rounds \subseteq Nat /\ PolRounds \subseteq Rounds
    /\ \A st \in PeerSteps : st \in Nat /\ st > RoundStepNewHeight
    /\ Cast \subseteq Vote /\ HeldAtStart \subseteq Cast /\ MaxNodeHeight \in Nat \ {0, 1}
    /\ Nil \notin Arrays /\ \A S \in SUBSET Validators : S # Nil

VARIABLES
    node,      \* its height and the round of the commit of height 1
    held,      \* its votes of height 1
    ps,        \* its PeerState of the peer
    peer,      \* height, round, step, lastCommitRound; the catch-up rounds of
               \* its HeightVoteSet that the node opened
    has,       \* the votes of height 1 the peer has
    stateWire, \* the peer's announcements under way
    voteWire,  \* the votes on their way to the peer
    answer,    \* the VoteSetBits on its way to the node, or Nil
    lost       \* votes that were marked as sent and lost

vars == <<node, held, ps, peer, has, stateWire, voteWire, answer, lost>>
peerVars == <<peer, has, stateWire>>

Of(votes, r, t) == {x.val : x \in {y \in votes : y.round = r /\ y.type = t}}

\* TwoThirdsMajority for the block; all validators have power 1.
HasMaj23(votes, r, t) ==
    Cardinality(Of(votes, r, t) \cap ForBlock) > (Cardinality(Validators) * 2) \div 3
-----------------------------------------------------------------------------
(* The peer.                                                                 *)

\* makeRoundStepMessages; CommitStep concerns the parts of the block only.
NewRoundStep(p) ==
    [height |-> p.height, round |-> p.round, step |-> p.step,
     lastCommitRound |-> p.lastCommitRound]

\* The rounds of the peer's HeightVoteSet: SetRound(round + 1), catch-up rounds.
Tracked(p) ==
    p.catchups \cup {r \in Rounds : r <= IF p.step = RoundStepNewHeight THEN 0 ELSE p.round + 1}

Enter(p, r, st) == [p EXCEPT !.round = IF r > @ THEN r ELSE @, !.step = st]

\* addVote: a majority of precommits takes the peer to Commit, one of prevotes
\* to Precommit of its round.  Of the steps on the way the last is announced; the
\* others differ from it by the step only, which nothing here depends on.
AfterVote(p, votes, x) ==
    IF ~ HasMaj23(votes, x.round, x.type) THEN p
    ELSE IF x.type = "precommit" THEN Enter(p, x.round, RoundStepCommit)
    ELSE IF x.round > p.round \/ (x.round = p.round /\ p.step < RoundStepPrecommit)
      THEN Enter(p, x.round, RoundStepPrecommit)
    ELSE p

MaxCatchupRounds == 2

RefuseCatchup(x) == x.round \notin Tracked(peer)

\* HeightVoteSet.AddVote: the node may open two rounds that are not tracked.
Refused(x) == x.round \notin Tracked(peer) /\ Cardinality(peer.catchups) >= MaxCatchupRounds

\* A vote of the last height is taken in step NewHeight only.
RefusedLast(x) ==
    peer.step # RoundStepNewHeight \/ x.type # "precommit" \/ x.round # peer.lastCommitRound

AddVote(x) ==
    LET p == IF x.round \in Tracked(peer) THEN peer ELSE [peer EXCEPT !.catchups = @ \cup {x.round}]
        q == AfterVote(p, has \cup {x}, x)
    IN  IF x \in has \/ (IF peer.height = 1 THEN Refused(x) ELSE RefusedLast(x))
          THEN UNCHANGED peerVars
        ELSE /\ has' = has \cup {x}
             /\ peer' = IF peer.height = 1 THEN q ELSE peer
             /\ stateWire' = IF NewRoundStep(peer') = NewRoundStep(peer) THEN stateWire
                             ELSE stateWire \cup {NewRoundStep(peer')}

PeerReceivesVote(x) ==
    /\ x \in voteWire
    /\ voteWire' = voteWire \ {x}
    /\ AddVote(x)
    /\ UNCHANGED <<node, held, ps, answer, lost>>

\* Votes reach the peer from other nodes too, and from itself.
PeerLearnsVote(x) ==
    /\ x \in Elsewhere \ has
    /\ peer.height = 1 /\ x.round \in Tracked(peer)
    /\ AddVote(x)
    /\ UNCHANGED <<node, held, ps, voteWire, answer, lost>>

\* Timeouts and votes for other blocks take the peer to any later round or step
\* (ConsensusState has the details).
PeerMovesOn(r, st) ==
    /\ Cardinality(stateWire) < MaxWire
    /\ r > peer.round \/ (r = peer.round /\ st > peer.step)
    /\ peer.height = 2 => r = 0
    /\ peer' = Enter(peer, r, st)
    /\ stateWire' = stateWire \cup {NewRoundStep(peer')}
    /\ UNCHANGED <<node, held, ps, has, voteWire, answer, lost>>

\* updateToState, once the peer has the block it commits.
PeerFinalizes(r) ==
    /\ peer.height = 1 /\ peer.step = RoundStepCommit /\ HasMaj23(has, r, "precommit")
    /\ peer' = [height |-> 2, round |-> 0, step |-> RoundStepNewHeight, lastCommitRound |-> r,
                catchups |-> {}]
    /\ stateWire' = stateWire \cup {NewRoundStep(peer')}
    /\ UNCHANGED <<node, held, ps, has, voteWire, answer, lost>>

\* Receive of a VoteSetMaj23 (r, t), which queryMaj23Routine may have sent long
\* ago: the votes the peer has for the block, or nil if it does not track the
\* round.  At another height it does not answer.
PeerAnswers(r, t) ==
    /\ HasMaj23(held, r, t)
    /\ peer.height = 1 /\ answer = Nil
    /\ answer' = [round |-> r, type |-> t,
                  bits |-> IF r \in Tracked(peer) THEN Of(has, r, t) \cap ForBlock ELSE Nil]
    /\ UNCHANGED <<node, held, ps, peerVars, voteWire, lost>>
-----------------------------------------------------------------------------
(* The node receives (Receive).                                              *)

NodeReceivesState(m) ==
    /\ m \in stateWire
    /\ stateWire' = stateWire \ {m}
    /\ ps' = ApplyNewRoundStepMessage(ps, m)
    /\ UNCHANGED <<node, held, peer, has, voteWire, answer, lost>>

\* The peer announces every vote it adds.
NodeReceivesHasVote(x) ==
    /\ x \in has
    /\ ps' = ApplyHasVoteMessage(ps, 1, x.round, x.type, x.val)
    /\ UNCHANGED <<node, held, peerVars, voteWire, answer, lost>>

\* The peer sends a vote of its own.  An announcement may replace the arrays
\* between EnsureVoteBitArrays and SetHasVote.  A precommit that is late for the
\* commit only adds to LastCommit, which the stored commit does not have: left out.
NodeReceivesVote(x) ==
    /\ x \in has
    /\ \E p \in {ps, Ensured(ps, node.height)} : ps' = setHasVote(p, 1, x.round, x.type, x.val)
    /\ held' = IF node.height = 1 THEN held \cup {x} ELSE held
    /\ UNCHANGED <<node, peerVars, voteWire, answer, lost>>

NodeLearnsVote(x) ==
    /\ x \in Cast \ held /\ node.height = 1
    /\ held' = held \cup {x}
    /\ UNCHANGED <<node, ps, peerVars, voteWire, answer, lost>>

\* The proposal of the peer's round is known to be with the peer, sent by either.
\* Only one with a POL round, which is before its own, concerns the votes.
ProposalShared(pol) ==
    /\ ps.height = 1 /\ pol < ps.round /\ ~ ps.proposal
    /\ ps' = SetHasProposal(ps, [height |-> 1, round |-> ps.round, header |-> Nil, polRound |-> pol])
    /\ UNCHANGED <<node, held, peerVars, voteWire, answer, lost>>

\* A ProposalPOL of the peer: the prevotes it had when it sent it.
NodeReceivesPOL(r, bits) ==
    /\ ps.height = 1 /\ ps.polRound = r /\ bits \subseteq Of(has, r, "prevote")
    /\ ps' = ApplyProposalPOLMessage(ps, 1, r, bits)
    /\ UNCHANGED <<node, held, peerVars, voteWire, answer, lost>>

\* A VoteSetBits, against our own votes for the block: nil at another height.
NodeReceivesBits ==
    /\ answer # Nil
    /\ answer' = Nil
    /\ ps' = ApplyVoteSetBitsMessage(ps, 1, answer.round, answer.type, answer.bits,
               IF node.height = 1 THEN Of(held, answer.round, answer.type) \cap ForBlock ELSE Nil)
    /\ UNCHANGED <<node, held, peerVars, voteWire, lost>>
-----------------------------------------------------------------------------
(* The node's routines for the peer.                                         *)

\* LoadBlockCommit: the store keeps the last StoreLimit blocks.
Stored == node.height > 1 /\ node.height - 1 <= StoreLimit

\* gossipVotesRoutine calls PickSendVote with these vote sets.  It decides by
\* copies of the round states, so the peer may have gone on meanwhile.  At the
\* same height the node may be in any round; it serves one it has reached.
MayServe(r, t) ==
    IF node.height = 1
      THEN ps.height = 1 /\ (r <= ps.round \/ (t = "prevote" /\ r = ps.polRound))
      ELSE /\ t = "precommit" /\ r = node.commitRound
           /\ \/ ps.height = 1 /\ (node.height = 2 \/ Stored)
              \/ ps.height = 2 /\ node.height = 2 /\ ps.step = RoundStepNewHeight

\* VoteSet.IsCommit, or a stored Commit.
IsCommit(r, t) == t = "precommit" /\ HasMaj23(held, r, t)

\* PickSendVote: the arrays and the catch-up round are set up whether or not there
\* is a vote to send; one that is picked is marked as known before it is sent.
PickSendVote(r, t) ==
    LET p == Prepared(ps, 1, r, t, IsCommit(r, t))
        candidates == Candidates(p, 1, r, t, Of(held, r, t))
    IN  \/ candidates = {} /\ ps' = p /\ UNCHANGED <<voteWire, lost>>
        \/ \E v \in candidates :
             LET x == [round |-> r, type |-> t, val |-> v] IN
             /\ ps' = setHasVote(p, 1, r, t, v)
             /\ \/ /\ voteWire' = voteWire \cup {x}
                   /\ lost' = lost \ {x}
                \/ /\ Cardinality(lost) < MaxLost
                   /\ lost' = lost \cup {x}
                   /\ UNCHANGED voteWire

gossipVotesRoutine(r, t) ==
    /\ MayServe(r, t)
    /\ PickSendVote(r, t)
    /\ UNCHANGED <<node, held, peerVars, answer>>

\* The majorities queryMaj23Routine tells the peer of.
MayQuery(r, t) ==
    IF node.height = 1
      THEN ps.height = 1 /\ HasMaj23(held, r, t)
           /\ (r = ps.round \/ (t = "prevote" /\ r = ps.polRound))
      ELSE ps.height = 1 /\ ps.catchupRound # NoRound /\ Stored
           /\ t = "precommit" /\ r = node.commitRound
-----------------------------------------------------------------------------
(* The node's own progress (ConsensusState), which the routines only read.   *)

NodeCommits(r) ==
    /\ node.height = 1 /\ HasMaj23(held, r, "precommit")
    /\ node' = [height |-> 2, commitRound |-> r]
    /\ UNCHANGED <<held, ps, peerVars, voteWire, answer, lost>>

NodeCommitsMore ==
    /\ node.height \in 2 .. MaxNodeHeight - 1
    /\ node' = [node EXCEPT !.height = @ + 1]
    /\ UNCHANGED <<held, ps, peerVars, voteWire, answer, lost>>
-----------------------------------------------------------------------------
\* AddPeer on both sides: each sends the other its round state.
Init ==
    /\ node = [height |-> 1, commitRound |-> NoRound] /\ held = HeldAtStart
    /\ ps = NewPeerState
    /\ peer = [height |-> 1, round |-> 0, step |-> RoundStepNewHeight, lastCommitRound |-> NoRound,
               catchups |-> {}]
    /\ has = {}
    /\ stateWire = {NewRoundStep(peer)} /\ voteWire = {}
    /\ answer = Nil /\ lost = {}

Next ==
    \/ \E x \in Cast : \/ PeerReceivesVote(x) \/ PeerLearnsVote(x) \/ NodeLearnsVote(x)
                       \/ NodeReceivesHasVote(x) \/ NodeReceivesVote(x)
    \/ \E r \in Rounds, st \in PeerSteps : PeerMovesOn(r, st)
    \/ \E r \in Rounds : PeerFinalizes(r) \/ NodeCommits(r)
    \/ NodeReceivesBits \/ NodeCommitsMore
    \/ \E m \in stateWire : NodeReceivesState(m)
    \/ \E r \in PolRounds : ProposalShared(r)
    \/ \E r \in Rounds, bits \in SUBSET Validators : NodeReceivesPOL(r, bits)
    \/ \E r \in Rounds, t \in VoteTypes : gossipVotesRoutine(r, t) \/ PeerAnswers(r, t)

Spec == Init /\ [][Next]_vars
-----------------------------------------------------------------------------
\* Heights and rounds within their bounds, votes that were cast only, and bit
\* arrays over the committee.
TypeOK ==
    /\ node.height \in 1 .. MaxNodeHeight /\ peer.height \in 1 .. 2
    /\ ps.height \in 0 .. 2 /\ ps.catchupRound \in Rounds \cup {NoRound}
    /\ held \subseteq Cast /\ has \subseteq Cast /\ voteWire \subseteq Cast /\ lost \subseteq Cast
    /\ \A a \in Arrays : ps.votes[a] = Nil \/ ps.votes[a] \subseteq Validators
    /\ Cardinality(peer.catchups) <= MaxCatchupRounds

\* A vote the node believes the peer to have, and therefore never sends it again,
\* is with the peer, on its way there, or was lost in a Send that failed: no new
\* round, catch-up round, shared bit array, HasVote, VoteSetBits or ProposalPOL,
\* however late it comes, makes the PeerState claim a vote the peer lacks, and
\* the peer never refuses one.
NoVoteForgotten ==
    ps.height = peer.height /\ (peer.height = 2 => peer.step = RoundStepNewHeight)
      => \A r \in Rounds, t \in VoteTypes :
           LET known == Known(ps, 1, r, t) IN
           known # Nil => known \subseteq Of(has \cup voteWire \cup lost, r, t)

\* Every message has arrived, and neither routine has anything left to do: there
\* is nothing to set up or to send, and asking the peer about a majority teaches
\* nothing.
Quiet ==
    /\ stateWire = {} /\ voteWire = {} /\ answer = Nil
    /\ \A r \in Rounds, t \in VoteTypes :
         /\ MayServe(r, t) => /\ Prepared(ps, 1, r, t, IsCommit(r, t)) = ps
                              /\ Candidates(ps, 1, r, t, Of(held, r, t)) = {}
         /\ MayQuery(r, t) =>
              ps = ApplyVoteSetBitsMessage(ps, 1, r, t,
                     IF r \in Tracked(peer) THEN Of(has, r, t) \cap ForBlock ELSE Nil,
                     IF node.height = 1 THEN Of(held, r, t) \cap ForBlock ELSE Nil)

\* The routines do not stop before a peer that is behind has the majority of
\* precommits, whatever a Send lost; unless it lost all of them, for a peer that
\* does not track the round of the commit answers every query with nil.
CommitReachesPeer ==
    Quiet /\ Stored /\ peer.height = 1
      => \/ HasMaj23(has, node.commitRound, "precommit")
         \/ Of(held, node.commitRound, "precommit") \subseteq Of(lost, node.commitRound, "precommit")
=============================================================================
