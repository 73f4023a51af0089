---------------------------- MODULE BlockGossip ----------------------------
(***************************************************************************)
(* How the reactor of a node brings a peer the proposal and its block.     *)
(*                                                                         *)
(* gossipDataRoutine of the node looks at its round state and at ps, its   *)
(* PeerState of the peer, decides what to send, sends it and then marks it *)
(* in ps.  Meanwhile messages of the peer change ps.  The peer is at       *)
(* height 1, where block B is committed; the majority of precommits for it *)
(* comes from VoteGossip.  The node is at height 1 too, or ahead.          *)
(***************************************************************************)
EXTENDS PeerState, FiniteSets, Sequences

CONSTANTS
    Proposed,      \* the parts header of the proposal of each round
    Block,         \* the parts header of B
    CommitRound,   \* the round of the majority of precommits for B
    PeerSteps,     \* the steps at which the peer may be seen
    MaxNodeHeight, \* bound on the height of the node
    StoreLimit,    \* MaxLimitBlockStore
    MaxLate,       \* bound on Late when the peer moves on or gossips
    MaxQueue       \* bound on the messages on their way to the peer

Rounds == DOMAIN Proposed

Headers == {Block} \cup {Proposed[r] : r \in Rounds}

Proposal(r) == [height |-> 1, round |-> r, header |-> Proposed[r], polRound |-> NoRound]

ASSUME BlockGossipAssumption ==
    /\ Rounds \subseteq Nat /\ CommitRound \in Rounds /\ Proposed[CommitRound] = Block
    /\ Nil \notin Headers
    /\ StoreLimit \in Nat /\ MaxLate \in Nat /\ MaxQueue \in Nat

VARIABLES
    node,      \* height, round, the proposal it has, the header of its block, if
               \* it is locked on B, and the proposal it stored with B
    ps,        \* its PeerState of the peer
    pending,   \* what gossipDataRoutine has decided to send, or Nil
    peer,      \* the peer's round state
    stateWire, \* the peer's announcements under way
    dataWire,  \* the proposals and parts on their way to the peer
    backWire,  \* those on their way from the peer
    crossed    \* if what was said of one part set of the peer met another

vars == <<node, ps, pending, peer, stateWire, dataWire, backWire, crossed>>
peerVars == <<peer, stateWire, backWire>>

\* How much of the peer's the node has yet to receive.
Late == Cardinality(stateWire) + Len(backWire)
-----------------------------------------------------------------------------
(* The peer's ConsensusState, as far as data gossip reaches it.              *)

\* A CommitStep follows in step Commit if there are parts.  Its round is not in the
\* message; crossed refers to it.
makeRoundStepMessages(p) ==
    {[type |-> "step", height |-> p.height, round |-> p.round, step |-> p.step,
      lastCommitRound |-> NoRound]} \cup
    IF p.step = RoundStepCommit /\ p.header # Nil
      THEN {[type |-> "commit", height |-> p.height, round |-> p.round, header |-> p.header,
             parts |-> p.parts]}
      ELSE {}

\* Fetch a block: NewPartSetFromHeader.
Fetch(p, header) == [p EXCEPT !.header = header, !.parts = {}, !.block = Nil]

enterNewRound(p, r) ==
    IF r > p.round
      THEN [Fetch(p, Nil) EXCEPT !.round = r, !.step = RoundStepPropose, !.proposal = FALSE]
    ELSE IF r = p.round /\ p.step = RoundStepNewHeight THEN [p EXCEPT !.step = RoundStepPropose]
    ELSE p

\* A polka for B: lock it, or fetch it.
enterPrecommit(p, r, polka) ==
    IF r # p.round \/ p.step >= RoundStepPrecommit THEN p
    ELSE LET q == [p EXCEPT !.step = RoundStepPrecommit] IN
         IF ~ polka \/ p.locked THEN q
         ELSE IF p.block = Block THEN [q EXCEPT !.locked = (p.header = Block)]
         ELSE IF p.header # Block THEN Fetch(q, Block)
         ELSE q

\* finalizeCommit panics on parts of another block; RoundStepCommit + 1 stands
\* for a peer that did.
tryFinalizeCommit(p) ==
    IF p.step # RoundStepCommit \/ p.block # Block THEN p
    ELSE IF p.header # Block THEN [p EXCEPT !.step = RoundStepCommit + 1]
    ELSE [Fetch(p, Nil) EXCEPT !.height = 2, !.round = 0, !.step = RoundStepNewHeight,
                               !.proposal = FALSE, !.locked = FALSE]

\* Only a peer that has some other block sets up to get the committed one.
enterCommit(p) ==
    LET q == [p EXCEPT !.step = RoundStepCommit] IN
    IF p.step >= RoundStepCommit THEN p
    ELSE IF p.locked THEN [q EXCEPT !.block = Block, !.header = Block, !.parts = PartsOf(Block)]
    ELSE IF p.block # Nil /\ p.block # Block /\ p.header # Block THEN Fetch(q, Block)
    ELSE q

Announce(steps) ==
    stateWire' = stateWire \cup UNION {makeRoundStepMessages(p) : p \in steps \ {peer}}

\* The majority of precommits for B is there; the peer may have seen the polka.
PeerCommits ==
    /\ peer.height = 1 /\ peer.step < RoundStepCommit
    /\ \E polka \in BOOLEAN :
         LET p1 == enterPrecommit(enterNewRound(peer, CommitRound), CommitRound, polka)
             p2 == enterCommit(p1)
         IN  peer' = tryFinalizeCommit(p2) /\ Announce({p2, peer'})
    /\ UNCHANGED <<node, ps, pending, dataWire, backWire, crossed>>

\* +2/3 prevotes for B in the round of the commit.
PeerSeesPolka ==
    /\ peer.height = 1 /\ peer.round <= CommitRound
    /\ peer' = enterPrecommit(enterNewRound(peer, CommitRound), CommitRound, TRUE)
    /\ Announce({peer'})
    /\ UNCHANGED <<node, ps, pending, dataWire, backWire, crossed>>

\* Timeouts and votes for other blocks take the peer to any later round or step
\* (ConsensusState has the details), even out of Commit.  Only MaxLate bounds
\* how much later its announcements come in.
PeerMovesOn(r, st) ==
    /\ Late < MaxLate
    /\ peer.height = 1 /\ peer.step <= RoundStepCommit
    /\ r > peer.round \/ (r = peer.round /\ st > peer.step)
    /\ peer' = [enterNewRound(peer, r) EXCEPT !.step = st]
    /\ Announce({peer'})
    /\ UNCHANGED <<node, ps, pending, dataWire, backWire, crossed>>

\* defaultSetProposal; the block stays.
SetProposal(p, m) ==
    IF p.proposal \/ m.height # p.height \/ m.round # p.round \/ p.step >= RoundStepCommit THEN p
    ELSE [p EXCEPT !.proposal = TRUE, !.header = m.header, !.parts = {}]

\* addProposalBlockPart: a part of another block has no valid proof.
AddPart(p, m) ==
    IF p.height # m.height \/ p.header # m.header \/ m.index \in p.parts THEN p
    ELSE LET q == [p EXCEPT !.parts = @ \cup {m.index},
                            !.block = IF p.parts \cup {m.index} = PartsOf(m.header) THEN m.header ELSE @]
         IN  IF q.parts # PartsOf(m.header) THEN q
             ELSE IF q.step <= RoundStepPropose /\ q.proposal THEN [q EXCEPT !.step = RoundStepPrevote]
             ELSE tryFinalizeCommit(q)

\* A proposal for the header it collects makes the peer start over.
Dropped == peer'.header = peer.header /\ ~ (peer.parts \subseteq peer'.parts)

PeerReceivesData ==
    /\ dataWire # <<>>
    /\ dataWire' = Tail(dataWire)
    /\ LET m == Head(dataWire) IN
       peer' = IF m.type = "proposal" THEN SetProposal(peer, m.proposal) ELSE AddPart(peer, m)
    /\ crossed' = (crossed \/ Dropped)
    /\ Announce(IF peer'.step = peer.step THEN {} ELSE {peer'})
    /\ UNCHANGED <<node, ps, pending, backWire>>

\* Others give the peer the proposal of its round, or the block as well.
PeerLearnsBlock(all) ==
    /\ peer.height = 1 /\ peer.step = RoundStepPropose /\ ~ peer.proposal
    /\ LET p == SetProposal(peer, Proposal(peer.round)) IN
       peer' = IF all THEN [p EXCEPT !.parts = PartsOf(p.header), !.block = p.header,
                                     !.step = RoundStepPrevote]
               ELSE p
    /\ Announce(IF all THEN {peer'} ELSE {})
    /\ UNCHANGED <<node, ps, pending, dataWire, backWire, crossed>>
-----------------------------------------------------------------------------
(* The node receives (Receive).                                              *)

\* A CommitStep may arrive before the NewRoundStep of its round, which then wipes
\* it, or after that of a later round.
NodeReceivesState(m) ==
    /\ m \in stateWire
    /\ stateWire' = stateWire \ {m}
    /\ IF m.type = "step"
         THEN ps' = ApplyNewRoundStepMessage(ps, m) /\ UNCHANGED crossed
         ELSE ps' = ApplyCommitStepMessage(ps, m) /\ crossed' = (crossed \/ m.round # ps.round)
    /\ UNCHANGED <<node, pending, peer, dataWire, backWire>>

\* The peer gossips as well: a part of the block it collects, and its proposal to a
\* node that it saw in its round.
Forwarded ==
    {[type |-> "part", round |-> peer.round, header |-> peer.header, index |-> i] :
        i \in peer.parts}
    \cup IF peer.proposal /\ (node.height > 1 \/ node.round >= peer.round)
           THEN {[type |-> "proposal", proposal |-> Proposal(peer.round)]} ELSE {}

PeerGossips ==
    /\ peer.height = 1 /\ Late < MaxLate
    /\ \E m \in Forwarded : backWire' = Append(backWire, m)
    /\ UNCHANGED <<node, ps, pending, peer, stateWire, dataWire, crossed>>

\* A part is marked although it is not of the block that ps has the header of, or a
\* proposal takes the place of that header.
Misread(m) ==
    /\ ps' # ps
    /\ \/ m.type = "part" /\ ps.header # m.header
       \/ m.type = "proposal" /\ ps.header = Block /\ m.proposal.header # Block

\* By then the peer, or what the node knows of it, may have moved on.
NodeReceivesData ==
    /\ backWire # <<>>
    /\ backWire' = Tail(backWire)
    /\ LET m == Head(backWire) IN
       /\ ps' = IF m.type = "part" THEN SetHasProposalBlockPart(ps, 1, m.round, m.index)
                ELSE SetHasProposal(ps, m.proposal)
       /\ crossed' = (crossed \/ Misread(m))
    /\ UNCHANGED <<node, pending, peer, stateWire, dataWire>>
-----------------------------------------------------------------------------
(* gossipDataRoutine.  A decision holds the height and round of prs, the copy *)
(* of ps it was made from.                                                   *)

\* LoadBlockMeta: the store keeps the last StoreLimit blocks.
Stored == node.height > 1 /\ node.height - 1 <= StoreLimit

Missing(header) ==
    IF ps.parts = Nil \/ ps.header # header THEN {} ELSE PartsOf(header) \ ps.parts

PartDecision(h, header, i) ==
    [do |-> "part", msg |-> [type |-> "part", height |-> h, header |-> header, index |-> i],
     height |-> ps.height, round |-> ps.round]

ProposalDecision(p, then) ==
    [do |-> "proposal", msg |-> [type |-> "proposal", proposal |-> p], then |-> then]

\* Parts of our own proposal block that the peer wants.
OwnParts ==
    IF node.header = Nil THEN {}
    ELSE {PartDecision(node.height, node.header, i) : i \in Missing(node.header)}

\* The stored proposal, then a part.  Without a proposal nothing is sent.
gossipDataForCatchup ==
    LET parts == {PartDecision(1, Block, i) : i \in Missing(Block)} IN
    IF ~ Stored THEN {}
    ELSE IF ps.proposal THEN parts
    ELSE IF node.meta = Nil THEN {}
    ELSE {ProposalDecision(node.meta, part) : part \in IF parts = {} THEN {Nil} ELSE parts}

\* One iteration of the loop: what it may decide to do.
Decisions ==
    IF OwnParts # {} THEN OwnParts
    ELSE IF ps.height = 1 /\ node.height > 1
      THEN IF ps.parts # Nil THEN gossipDataForCatchup
           ELSE IF Stored THEN {[do |-> "init"]} ELSE {}
    ELSE IF /\ ps.height = node.height /\ ps.round = node.round
            /\ node.proposal # Nil /\ ~ ps.proposal
      THEN {ProposalDecision(node.proposal, Nil)}
    ELSE {}

GossipDataLooks ==
    /\ pending = Nil
    /\ \E d \in Decisions : pending' = d
    /\ UNCHANGED <<node, ps, peerVars, dataWire, crossed>>

\* What is sent is marked, if it was sent.  Any Send may fail.
Marked ==
    IF pending.do = "proposal" THEN SetHasProposal(ps, pending.msg.proposal)
    ELSE SetHasProposalBlockPart(ps, pending.height, pending.round, pending.msg.index)


GossipDataSends ==
    /\ pending # Nil /\ pending.do # "init"
    /\ \/ /\ Len(dataWire) < MaxQueue
          /\ dataWire' = Append(dataWire, pending.msg)
          /\ ps' = Marked
       \/ UNCHANGED <<dataWire, ps>>
    /\ pending' = IF pending.do = "proposal" THEN pending.then ELSE Nil
    /\ UNCHANGED <<node, peerVars>>
    /\ crossed' = (crossed \/ Misread(pending.msg))

GossipDataInits ==
    /\ pending # Nil /\ pending.do = "init"
    /\ ps' = InitProposalBlockParts(ps, Block)
    /\ pending' = Nil
    /\ UNCHANGED <<node, peerVars, dataWire, crossed>>
-----------------------------------------------------------------------------
(* The node's own progress (ConsensusState), which the routine only reads.   *)

\* The node may have locked B before it leaves a round.
NodeEntersRound(r) ==
    /\ node.height = 1 /\ r > node.round
    /\ \E lock \in {node.locked, node.locked \/ node.header = Block} :
         node' = [node EXCEPT !.round = r, !.proposal = Nil, !.header = Nil, !.locked = lock]
    /\ UNCHANGED <<ps, pending, peerVars, dataWire, crossed>>

NodeGetsBlock ==
    /\ node.height = 1 /\ node.proposal = Nil
    /\ node' = [node EXCEPT !.proposal = Proposal(node.round), !.header = Proposed[node.round]]
    /\ UNCHANGED <<ps, pending, peerVars, dataWire, crossed>>

\* finalizeCommit stores B with cs.Proposal: the proposal of the node's round,
\* if any, whatever block it is for.
NodeCommits ==
    /\ node.height = 1 /\ CommitRound <= node.round /\ (node.header = Block \/ node.locked)
    /\ node' = [height |-> 2, round |-> 0, proposal |-> Nil, header |-> Nil, locked |-> FALSE,
                meta |-> node.proposal]
    /\ UNCHANGED <<ps, pending, peerVars, dataWire, crossed>>

NodeCommitsMore ==
    /\ node.height \in 2 .. MaxNodeHeight - 1
    /\ node' = [node EXCEPT !.height = @ + 1]
    /\ UNCHANGED <<ps, pending, peerVars, dataWire, crossed>>
-----------------------------------------------------------------------------
\* AddPeer on both sides: each sends the other its round state.
Init ==
    /\ node = [height |-> 1, round |-> 0, proposal |-> Nil, header |-> Nil, locked |-> FALSE,
               meta |-> Nil]
    /\ ps = NewPeerState /\ pending = Nil
    /\ peer = [height |-> 1, round |-> 0, step |-> RoundStepNewHeight, proposal |-> FALSE,
               header |-> Nil, parts |-> {}, block |-> Nil, locked |-> FALSE]
    /\ stateWire = makeRoundStepMessages(peer) /\ dataWire = <<>>
    /\ backWire = <<>> /\ crossed = FALSE

Next ==
    \/ PeerCommits \/ PeerSeesPolka \/ PeerReceivesData
    \/ \E r \in Rounds, st \in PeerSteps : PeerMovesOn(r, st)
    \/ \E all \in BOOLEAN : PeerLearnsBlock(all)
    \/ \E m \in stateWire : NodeReceivesState(m)
    \/ PeerGossips \/ NodeReceivesData
    \/ GossipDataLooks \/ GossipDataSends \/ GossipDataInits
    \/ \E r \in Rounds : NodeEntersRound(r)
    \/ NodeGetsBlock \/ NodeCommits \/ NodeCommitsMore

Spec == Init /\ [][Next]_vars
-----------------------------------------------------------------------------
\* Heights within their bounds, headers of proposed blocks only, and no part
\* beyond the number of parts of the header it is counted for.
TypeOK ==
    /\ node.height \in 1 .. MaxNodeHeight /\ peer.height \in 1 .. 2
    /\ {node.header, peer.header, peer.block, ps.header} \subseteq Headers \cup {Nil}
    /\ peer.parts \subseteq IF peer.header = Nil THEN {} ELSE PartsOf(peer.header)
    /\ ps.parts # Nil => ps.parts \subseteq PartsOf(ps.header)
    /\ Len(dataWire) <= MaxQueue /\ Len(backWire) <= MaxLate

\* The peer is in Commit without a part set for B (enterCommit sets one up only
\* over another complete block), or panicked there: it takes no part of B.
Stranded == peer.step >= RoundStepCommit /\ peer.header # Block

\* Every message has arrived and the routine has nothing left to send but a
\* proposal of another round.
Idle ==
    /\ stateWire = {} /\ dataWire = <<>> /\ backWire = <<>> /\ pending = Nil
    /\ \A d \in Decisions : /\ d.do = "proposal" /\ d.then = Nil
                            /\ SetHasProposal(ps, d.msg.proposal) = ps

=============================================================================
