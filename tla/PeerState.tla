----------------------------- MODULE PeerState -----------------------------
(***************************************************************************)
(* PeerState (reactor.go): what a node believes that one peer has.         *)
(*                                                                         *)
(* A state is a record; each operator is one method, which holds the mutex *)
(* of the state throughout.  A bit array over the committee is the set of  *)
(* the validators whose bit is set, or Nil where the Go pointer is nil;    *)
(* the bit array of a block's parts is the set of their indices, or Nil.   *)
(***************************************************************************)
EXTENDS Integers

CONSTANT Nil

\* The indices of the parts of a PartSetHeader.
PartsOf(header) == 0 .. header.total - 1

RoundStepNewHeight     == 1
RoundStepPropose       == 3
RoundStepPrevote       == 4
RoundStepPrevoteWait   == 5
RoundStepPrecommit     == 6
RoundStepPrecommitWait == 7
RoundStepCommit        == 8

NoRound == -1   \* ^uint(0), or -1 for CatchupCommitRound

VoteTypes == {"prevote", "precommit"}

\* The bit arrays of PeerRoundState.
Arrays == {"prevotes", "precommits", "pol", "lastCommit", "catchup"}

\* Two fields may hold one pointer: shared says that CatchupCommit and
\* Precommits are the same array.
NewPeerState ==
    [height |-> 0, round |-> NoRound, step |-> 0,
     proposal |-> FALSE, header |-> Nil, parts |-> Nil,
     polRound |-> NoRound, lastCommitRound |-> NoRound, catchupRound |-> NoRound,
     votes |-> [a \in Arrays |-> Nil], shared |-> FALSE]

\* CompareHRS(h1, r1, s1, h2, r2, s2) > 0
Later(h1, r1, s1, h2, r2, s2) ==
    \/ h1 > h2
    \/ h1 = h2 /\ r1 > r2
    \/ h1 = h2 /\ r1 = r2 /\ s1 > s2
-----------------------------------------------------------------------------
(* Votes.                                                                    *)

\* The array that records the votes of height h, round r and type t, if any.
getVoteBitArray(ps, h, r, t) ==
    IF ps.height = h THEN
        IF ps.round = r THEN (IF t = "prevote" THEN "prevotes" ELSE "precommits")
        ELSE IF ps.catchupRound = r THEN (IF t = "prevote" THEN Nil ELSE "catchup")
        ELSE IF ps.polRound = r /\ t = "prevote" THEN "pol"
        ELSE Nil
    ELSE IF ps.height = h + 1 /\ ps.lastCommitRound = r /\ t = "precommit" THEN "lastCommit"
    ELSE Nil

\* The votes believed to be with the peer, or Nil.
Known(ps, h, r, t) ==
    LET a == getVoteBitArray(ps, h, r, t) IN IF a = Nil THEN Nil ELSE ps.votes[a]

\* Writing through one of two shared pointers.
Write(ps, a, bits) ==
    [ps EXCEPT !.votes = [b \in Arrays |->
        IF b = a \/ (ps.shared /\ {a, b} = {"precommits", "catchup"})
          THEN bits ELSE ps.votes[b]]]

SetsRoundBit(ps, h, r, t, v) ==
    LET a == getVoteBitArray(ps, h, r, t) IN
    IF a = Nil \/ Known(ps, h, r, t) = Nil THEN ps
    ELSE Write(ps, a, ps.votes[a] \cup {r})

setHasVote(ps, h, r, t, v) ==
    LET a == getVoteBitArray(ps, h, r, t) IN
    IF a = Nil \/ Known(ps, h, r, t) = Nil THEN ps
    ELSE Write(ps, a, ps.votes[a] \cup {v})

\* A round for which we have a +2/3 commit.
ensureCatchupCommitRound(ps, h, r) ==
    IF ps.height # h \/ ps.catchupRound = r THEN ps
    ELSE [ps EXCEPT !.catchupRound = r,
                    !.shared = (r = ps.round /\ ps.votes["precommits"] # Nil),
                    !.votes["catchup"] = IF r = ps.round THEN ps.votes["precommits"] ELSE {}]

\* NewBitArray for the arrays that are still nil.
ensureVoteBitArrays(ps, h) ==
    LET missing == IF ps.height = h THEN Arrays \ {"lastCommit"}
                   ELSE IF ps.height = h + 1 THEN {"lastCommit"} ELSE {}
    IN  [ps EXCEPT !.votes = [a \in Arrays |->
            IF a \in missing /\ ps.votes[a] = Nil THEN {} ELSE ps.votes[a]]]

\* PickVoteToSend for a vote set (h, r, t) that holds the votes in has: the
\* state in which a vote is picked, and the votes that may be.
Prepared(ps, h, r, t, isCommit) ==
    ensureVoteBitArrays(IF isCommit THEN ensureCatchupCommitRound(ps, h, r) ELSE ps, h)

Candidates(ps, h, r, t, has) ==
    LET known == Known(ps, h, r, t) IN IF known = Nil THEN {} ELSE has \ known

\* Receive of a vote from the peer by a node at height h: both EnsureVoteBitArrays,
\* which SetHasVote follows.
Ensured(ps, h) == ensureVoteBitArrays(ensureVoteBitArrays(ps, h), h - 1)
-----------------------------------------------------------------------------
(* Messages from the peer.                                                   *)

\* The peer is at a new height, round or step.  Precommits are cleared before
\* they are shifted to LastCommit, which is therefore always nil.
ApplyNewRoundStepMessage(ps, m) ==
    LET newHeight == ps.height # m.height
        newRound  == newHeight \/ ps.round # m.round
        caughtUp  == ~ newHeight /\ newRound /\ m.round = ps.catchupRound
        votes == [a \in Arrays |->
            IF newHeight THEN Nil
            ELSE IF ~ newRound \/ a \in {"lastCommit", "catchup"} THEN ps.votes[a]
            ELSE IF a = "precommits" /\ caughtUp THEN ps.votes["catchup"]
            ELSE Nil]
    IN  IF ~ Later(m.height, m.round, m.step, ps.height, ps.round, ps.step) THEN ps
        ELSE [height |-> m.height, round |-> m.round, step |-> m.step,
              proposal |-> ~ newRound /\ ps.proposal,
              header |-> IF newRound THEN Nil ELSE ps.header,
              parts |-> IF newRound THEN Nil ELSE ps.parts,
              polRound |-> IF newRound THEN NoRound ELSE ps.polRound,
              lastCommitRound |-> IF newHeight THEN m.lastCommitRound ELSE ps.lastCommitRound,
              catchupRound |-> IF newHeight THEN NoRound ELSE ps.catchupRound,
              votes |-> votes,
              shared |-> IF newRound THEN caughtUp /\ ps.votes["catchup"] # Nil ELSE ps.shared]

ApplyCommitStepMessage(ps, m) ==
    IF ps.height # m.height THEN ps
    ELSE [ps EXCEPT !.header = m.header, !.parts = m.parts]

ApplyProposalPOLMessage(ps, h, r, bits) ==
    IF ps.height # h \/ ps.polRound # r THEN ps ELSE [ps EXCEPT !.votes["pol"] = bits]

ApplyHasVoteMessage(ps, h, r, t, v) ==
    IF ps.height # h THEN ps ELSE setHasVote(ps, h, r, t, v)

ApplyAddsBits(ps, h, r, t, bits, ourVotes) ==
    LET a == getVoteBitArray(ps, h, r, t) IN
    IF a = Nil \/ Known(ps, h, r, t) = Nil \/ bits = Nil THEN ps
    ELSE Write(ps, a, ps.votes[a] \cup bits)

\* The peer's votes for a block, against our own for it (Nil: unknown).
ApplyVoteSetBitsMessage(ps, h, r, t, bits, ourVotes) ==
    LET a == getVoteBitArray(ps, h, r, t) IN
    IF a = Nil \/ Known(ps, h, r, t) = Nil THEN ps
    ELSE IF ourVotes # Nil
      THEN Write(ps, a, (ps.votes[a] \ ourVotes) \cup (IF bits = Nil THEN {} ELSE bits))
    ELSE IF bits # Nil THEN Write(ps, a, bits)
    ELSE ps
-----------------------------------------------------------------------------
(* The proposal and its block.                                               *)

\* A proposal is a record of a height, a round, a parts header and a POL round.
SetHasProposal(ps, p) ==
    IF ps.height # p.height \/ ps.round # p.round \/ ps.proposal THEN ps
    ELSE [ps EXCEPT !.proposal = TRUE, !.header = p.header, !.parts = {},
                    !.polRound = p.polRound, !.votes["pol"] = Nil]

InitProposalBlockParts(ps, header) ==
    IF ps.parts # Nil THEN ps ELSE [ps EXCEPT !.header = header, !.parts = {}]

MarkAnyPart(ps, h, r, i) ==
    IF ps.height # h \/ ps.round # r \/ ps.parts = Nil THEN ps
    ELSE [ps EXCEPT !.parts = @ \cup {i}]

\* SetIndex does nothing on a nil array or outside of it.
SetHasProposalBlockPart(ps, h, r, i) ==
    IF ps.height # h \/ ps.round # r \/ ps.parts = Nil \/ i \notin PartsOf(ps.header) THEN ps
    ELSE [ps EXCEPT !.parts = @ \cup {i}]
=============================================================================
