-------------------------- MODULE VoteGossipProofs --------------------------
(***************************************************************************)
(* NoVoteForgotten and CommitReachesPeer, for every committee, every number *)
(* of rounds, votes and announcements under way, and failed Sends.         *)
(*                                                                         *)
(* Every bit array of the PeerState stands for the votes of one round and  *)
(* type (its key, which changes with the round, the POL round and the      *)
(* catch-up round).  The invariant is that each array, under its present   *)
(* key, holds only votes that went to the peer.  It needs that the         *)
(* PeerState is never ahead of the peer, for otherwise the peer could      *)
(* refuse a vote, and that at most one catch-up round is ever opened.      *)
(***************************************************************************)
EXTENDS VoteGossip, TLAPS, FiniteSetTheorems

\* A leaf that names no prover is Zenon's.
USE ZenonT(60)
-----------------------------------------------------------------------------
(* What the methods of PeerState preserve.  A PeerState is sound for a set of  *)
(* votes if each array, under its present key, holds only votes of the set;    *)
(* the lemmas say which methods keep it so.                                    *)

Bits == (SUBSET Validators) \cup {Nil}

PeerStates ==
    [height : {0, 1, 2}, round : Int, step : Int,
     proposal : BOOLEAN, header : {Nil}, parts : {Nil, {}},
     polRound : Int, lastCommitRound : Int, catchupRound : Rounds \cup {NoRound},
     votes : [Arrays -> Bits], shared : BOOLEAN]

Messages == [height : {1, 2}, round : Nat, step : Nat, lastCommitRound : Int]

Within(bits, S) == bits # Nil => bits \subseteq S

\* What the arrays claim of height 1, of a peer that is at height 1 ...
Sound(p, V) ==
    /\ p.shared => p.round = p.catchupRound
    /\ Within(p.votes["prevotes"], Of(V, p.round, "prevote"))
    /\ Within(p.votes["precommits"], Of(V, p.round, "precommit"))
    /\ Within(p.votes["pol"], Of(V, p.polRound, "prevote"))
    /\ Within(p.votes["catchup"], Of(V, p.catchupRound, "precommit"))

\* ... and of one at height 2.
SoundLast(p, V) == Within(p.votes["lastCommit"], Of(V, p.lastCommitRound, "precommit"))

PolBefore(p) == p.polRound < p.round \/ p.polRound = NoRound

\* A method of the PeerState that adds only what is in V.
Keeps(q, p, V) ==
    /\ q \in PeerStates
    /\ q.height = p.height /\ q.round = p.round /\ q.lastCommitRound = p.lastCommitRound
    /\ PolBefore(p) => PolBefore(q)
    /\ p.height = 1 /\ Sound(p, V) => Sound(q, V)
    /\ SoundLast(p, V) => SoundLast(q, V)
-----------------------------------------------------------------------------
(* The methods of PeerState.                                                 *)

LEMMA OfMonotone ==
    ASSUME NEW V, NEW W, V \subseteq W, NEW r, NEW t
    PROVE  Of(V, r, t) \subseteq Of(W, r, t)
  BY DEF Of

LEMMA SoundMonotone ==
    ASSUME NEW V, NEW W, V \subseteq W, NEW p
    PROVE  (Sound(p, V) => Sound(p, W)) /\ (SoundLast(p, V) => SoundLast(p, W))
<1>1. \A r, t : Of(V, r, t) \subseteq Of(W, r, t)
  BY OfMonotone
<1> QED BY <1>1 DEF Sound, SoundLast, Within

LEMMA KeepsItself ==
    ASSUME NEW p \in PeerStates, NEW V
    PROVE  Keeps(p, p, V)
  BY DEF Keeps

LEMMA KeepsOn ==
    ASSUME NEW p, NEW q, NEW s, NEW V, Keeps(q, p, V), Keeps(s, q, V)
    PROVE  Keeps(s, p, V)
  BY DEF Keeps

\* The array is one of those whose key is (1, r, t).
LEMMA ArrayKey ==
    ASSUME NEW p \in PeerStates, NEW r \in Rounds, NEW t \in VoteTypes,
           getVoteBitArray(p, 1, r, t) # Nil
    PROVE  LET a == getVoteBitArray(p, 1, r, t) IN
           \/ a = "prevotes" /\ p.height = 1 /\ p.round = r /\ t = "prevote"
           \/ a = "precommits" /\ p.height = 1 /\ p.round = r /\ t = "precommit"
           \/ a = "catchup" /\ p.height = 1 /\ p.round # r /\ p.catchupRound = r /\ t = "precommit"
           \/ a = "pol" /\ p.height = 1 /\ p.polRound = r /\ t = "prevote"
           \/ a = "lastCommit" /\ p.height = 2 /\ p.lastCommitRound = r /\ t = "precommit"
  BY SMTT(60) DEF getVoteBitArray, VoteTypes, PeerStates

LEMMA KeyOfArray ==
    ASSUME NEW p, NEW r, NEW t, getVoteBitArray(p, 1, r, t) # Nil
    PROVE  getVoteBitArray(p, 1, r, t) \in Arrays
  BY DEF getVoteBitArray, Arrays

\* Writing votes that are in V under the key of the array; Precommits and
\* CatchupCommit have one key while they are shared.
LEMMA WriteKeeps ==
    ASSUME NEW p \in PeerStates, NEW V, NEW r \in Rounds, NEW t \in VoteTypes,
           NEW a, a = getVoteBitArray(p, 1, r, t), a # Nil, NEW bits \in SUBSET Validators,
           (p.height = 1 /\ Sound(p, V)) \/ (p.height = 2 /\ SoundLast(p, V)) => bits \subseteq Of(V, r, t)
    PROVE  Keeps(Write(p, a, bits), p, V)
<1> DEFINE q == Write(p, a, bits)
           w == [b \in Arrays |-> IF b = a \/ (p.shared /\ {a, b} = {"precommits", "catchup"})
                                  THEN bits ELSE p.votes[b]]
<1>1. w \in [Arrays -> Bits]
  BY DEF PeerStates, Bits
<1>2. /\ q \in PeerStates /\ q.votes = w
      /\ q.height = p.height /\ q.round = p.round /\ q.polRound = p.polRound
      /\ q.lastCommitRound = p.lastCommitRound /\ q.catchupRound = p.catchupRound
      /\ q.shared = p.shared
  BY <1>1 DEF Write, PeerStates
<1>3. /\ w["prevotes"] = IF a = "prevotes" THEN bits ELSE p.votes["prevotes"]
      /\ w["pol"] = IF a = "pol" THEN bits ELSE p.votes["pol"]
      /\ w["lastCommit"] = IF a = "lastCommit" THEN bits ELSE p.votes["lastCommit"]
      /\ w["precommits"] = IF a = "precommits" \/ (p.shared /\ a = "catchup")
                            THEN bits ELSE p.votes["precommits"]
      /\ w["catchup"] = IF a = "catchup" \/ (p.shared /\ a = "precommits")
                         THEN bits ELSE p.votes["catchup"]
  <2>1. {"prevotes", "pol", "lastCommit", "precommits", "catchup"} \subseteq Arrays
    BY DEF Arrays
  <2>2. \A b : b \notin {"precommits", "catchup"} => {a, b} # {"precommits", "catchup"}
    OBVIOUS
  <2>3. {a, "precommits"} = {"precommits", "catchup"} <=> a = "catchup"
    OBVIOUS
  <2>4. {a, "catchup"} = {"precommits", "catchup"} <=> a = "precommits"
    OBVIOUS
  <2> QED BY <2>1, <2>2, <2>3, <2>4
<1> HIDE DEF q, w
<1>4. PolBefore(p) => PolBefore(q)
  BY <1>2 DEF PolBefore
<1>5. ASSUME p.height = 1, Sound(p, V) PROVE Sound(q, V)
  <2>1. bits \subseteq Of(V, r, t)
    BY <1>5
  <2>2. a = "catchup" => ~ p.shared
    BY SMTT(60), <1>5, ArrayKey DEF Sound
  <2> QED BY SMTT(60), <1>2, <1>3, <1>5, <2>1, <2>2, ArrayKey DEF Sound, Within
<1>6. ASSUME SoundLast(p, V) PROVE SoundLast(q, V)
  BY SMTT(60), <1>2, <1>3, <1>6, ArrayKey DEF SoundLast, Within
<1> QED BY <1>2, <1>4, <1>5, <1>6 DEF Keeps, q

LEMMA SetHasVoteKeeps ==
    ASSUME NEW p \in PeerStates, NEW V, NEW r \in Rounds, NEW t \in VoteTypes,
           NEW v \in Validators, v \in Of(V, r, t)
    PROVE  Keeps(setHasVote(p, 1, r, t, v), p, V)
<1> DEFINE a == getVoteBitArray(p, 1, r, t)
<1>1. CASE a = Nil \/ Known(p, 1, r, t) = Nil
  BY <1>1, KeepsItself DEF setHasVote
<1>2. CASE a # Nil /\ Known(p, 1, r, t) # Nil
  <2>1. a \in Arrays
    BY <1>2, ArrayKey DEF Arrays
  <2>2. p.votes[a] # Nil
    BY <1>2 DEF Known
  <2> DEFINE bits == p.votes[a] \cup {v}
  <2>3. bits \in SUBSET Validators
    BY <2>1, <2>2 DEF PeerStates, Bits
  <2>4. (p.height = 1 /\ Sound(p, V)) \/ (p.height = 2 /\ SoundLast(p, V)) => p.votes[a] \subseteq Of(V, r, t)
    BY SMTT(60), <1>2, <2>2, ArrayKey DEF Sound, SoundLast, Within
  <2>5. setHasVote(p, 1, r, t, v) = Write(p, a, bits)
    BY <1>2 DEF setHasVote
  <2>6. Keeps(Write(p, a, bits), p, V)
    <3> HIDE DEF a
    <3>1. a = getVoteBitArray(p, 1, r, t)
      BY DEF a
    <3>2. (p.height = 1 /\ Sound(p, V)) \/ (p.height = 2 /\ SoundLast(p, V)) => bits \subseteq Of(V, r, t)
      BY <2>4
    <3> HIDE DEF bits
    <3> QED BY <1>2, <2>3, <3>1, <3>2, WriteKeeps
  <2> QED BY <2>5, <2>6
<1> QED BY <1>1, <1>2

\* Bits that answer for the key: what is not claimed by them, but by us, goes.
LEMMA VoteSetBitsKeeps ==
    ASSUME NEW p \in PeerStates, NEW V, NEW r \in Rounds, NEW t \in VoteTypes,
           NEW bits \in Bits, Within(bits, Of(V, r, t)), NEW ours
    PROVE  Keeps(ApplyVoteSetBitsMessage(p, 1, r, t, bits, ours), p, V)
<1> DEFINE a == getVoteBitArray(p, 1, r, t)
           given == IF bits = Nil THEN {} ELSE bits
           kept == IF ours = Nil THEN {} ELSE p.votes[a] \ ours
           new == kept \cup given
<1>1. CASE \/ a = Nil \/ Known(p, 1, r, t) = Nil
           \/ ours = Nil /\ bits = Nil
  BY <1>1, KeepsItself DEF ApplyVoteSetBitsMessage
<1>2. CASE a # Nil /\ Known(p, 1, r, t) # Nil /\ (ours # Nil \/ bits # Nil)
  <2>1. a \in Arrays /\ p.votes[a] # Nil
    BY SMTT(60), <1>2, ArrayKey DEF Arrays, Known
  <2>2. new \in SUBSET Validators /\ given \subseteq Of(V, r, t)
    BY <2>1 DEF PeerStates, Bits, Within
  <2>3. (p.height = 1 /\ Sound(p, V)) \/ (p.height = 2 /\ SoundLast(p, V)) => p.votes[a] \subseteq Of(V, r, t)
    BY SMTT(60), <1>2, <2>1, ArrayKey DEF Sound, SoundLast, Within
  <2>4. (p.height = 1 /\ Sound(p, V)) \/ (p.height = 2 /\ SoundLast(p, V)) => new \subseteq Of(V, r, t)
    BY <2>2, <2>3
  <2>5. ApplyVoteSetBitsMessage(p, 1, r, t, bits, ours) = Write(p, a, new)
    <3>1. CASE ours # Nil
      BY <1>2, <3>1 DEF ApplyVoteSetBitsMessage
    <3>2. CASE ours = Nil
      <4>1. new = bits
        BY <1>2, <3>2
      <4> HIDE DEF new
      <4> QED BY <1>2, <3>2, <4>1 DEF ApplyVoteSetBitsMessage
    <3> QED BY <3>1, <3>2
  <2>6. Keeps(Write(p, a, new), p, V)
    <3> HIDE DEF a, new
    <3>1. a = getVoteBitArray(p, 1, r, t)
      BY DEF a
    <3> QED BY <1>2, <2>2, <2>4, <3>1, WriteKeeps
  <2> QED BY <2>5, <2>6
<1> QED BY <1>1, <1>2

LEMMA EnsureArraysKeeps ==
    ASSUME NEW p \in PeerStates, NEW V, NEW h
    PROVE  Keeps(ensureVoteBitArrays(p, h), p, V)
<1> DEFINE q == ensureVoteBitArrays(p, h)
           missing == IF p.height = h THEN Arrays \ {"lastCommit"}
                      ELSE IF p.height = h + 1 THEN {"lastCommit"} ELSE {}
           w == [b \in Arrays |-> IF b \in missing /\ p.votes[b] = Nil THEN {} ELSE p.votes[b]]
<1>1. w \in [Arrays -> Bits]
  BY DEF PeerStates, Bits
<1>2. q = [p EXCEPT !.votes = w]
  BY DEF ensureVoteBitArrays
<1>3. \A b \in Arrays : w[b] = {} \/ w[b] = p.votes[b]
  OBVIOUS
<1> HIDE DEF w
<1>4. /\ q \in PeerStates /\ q.votes = w
      /\ q.height = p.height /\ q.round = p.round /\ q.polRound = p.polRound
      /\ q.lastCommitRound = p.lastCommitRound /\ q.catchupRound = p.catchupRound
      /\ q.shared = p.shared
  BY <1>1, <1>2 DEF PeerStates
<1> HIDE DEF q
<1>5. (PolBefore(p) => PolBefore(q)) /\ (SoundLast(p, V) => SoundLast(q, V))
  BY <1>3, <1>4 DEF PolBefore, SoundLast, Within, Arrays
<1>6. Sound(p, V) => Sound(q, V)
  BY <1>3, <1>4 DEF Sound, Within, Arrays
<1> QED BY <1>4, <1>5, <1>6 DEF Keeps, q

LEMMA EnsureCatchupKeeps ==
    ASSUME NEW p \in PeerStates, NEW V, NEW r \in Rounds
    PROVE  Keeps(ensureCatchupCommitRound(p, 1, r), p, V)
<1> DEFINE q == ensureCatchupCommitRound(p, 1, r)
           c == IF r = p.round THEN p.votes["precommits"] ELSE {}
           w == [p.votes EXCEPT !["catchup"] = c]
<1>1. CASE p.height # 1 \/ p.catchupRound = r
  BY <1>1, KeepsItself DEF ensureCatchupCommitRound
<1>2. CASE p.height = 1 /\ p.catchupRound # r
  <2>1. c \in Bits /\ {"precommits", "catchup", "pol", "prevotes", "lastCommit"} \subseteq Arrays
    BY SMTT(60), VoteGossipAssumption DEF PeerStates, Bits, Arrays
  <2>2. w \in [Arrays -> Bits] /\ w["catchup"] = c
        /\ \A b \in Arrays \ {"catchup"} : w[b] = p.votes[b]
    BY <2>1 DEF PeerStates
  <2>3. q = [p EXCEPT !.catchupRound = r, !.shared = (r = p.round /\ p.votes["precommits"] # Nil), !.votes = w]
    BY <1>2 DEF ensureCatchupCommitRound, PeerStates
  <2> HIDE DEF w
  <2>4. /\ q \in PeerStates /\ q.votes = w
        /\ q.height = p.height /\ q.round = p.round /\ q.polRound = p.polRound
        /\ q.lastCommitRound = p.lastCommitRound /\ q.catchupRound = r
        /\ q.shared => r = p.round
    BY <2>1, <2>2, <2>3 DEF PeerStates
  <2> HIDE DEF q
  <2>5. (PolBefore(p) => PolBefore(q)) /\ (SoundLast(p, V) => SoundLast(q, V))
    BY <2>1, <2>2, <2>4 DEF PolBefore, SoundLast
  <2>6. Sound(p, V) => Sound(q, V)
    BY <2>1, <2>2, <2>4 DEF Sound, Within
  <2> QED BY <2>4, <2>5, <2>6 DEF Keeps, q
<1> QED BY <1>1, <1>2

LEMMA PreparedKeeps ==
    ASSUME NEW p \in PeerStates, NEW V, NEW r \in Rounds, NEW t, NEW isCommit
    PROVE  Keeps(Prepared(p, 1, r, t, isCommit), p, V)
<1> DEFINE q == IF isCommit THEN ensureCatchupCommitRound(p, 1, r) ELSE p
<1>1. Keeps(q, p, V)
  BY EnsureCatchupKeeps, KeepsItself
<1>2. q \in PeerStates /\ Prepared(p, 1, r, t, isCommit) = ensureVoteBitArrays(q, 1)
  BY <1>1 DEF Keeps, Prepared
<1> HIDE DEF q
<1>3. Keeps(ensureVoteBitArrays(q, 1), q, V)
  BY <1>2, EnsureArraysKeeps
<1> QED BY <1>1, <1>2, <1>3, KeepsOn

LEMMA EnsuredKeeps ==
    ASSUME NEW p \in PeerStates, NEW V, NEW h
    PROVE  Keeps(Ensured(p, h), p, V)
<1> DEFINE q == ensureVoteBitArrays(p, h)
<1>1. Keeps(q, p, V)
  BY EnsureArraysKeeps
<1>2. q \in PeerStates /\ Ensured(p, h) = ensureVoteBitArrays(q, h - 1)
  BY <1>1 DEF Keeps, Ensured
<1> HIDE DEF q
<1>3. Keeps(ensureVoteBitArrays(q, h - 1), q, V)
  BY <1>2, EnsureArraysKeeps
<1> QED BY <1>1, <1>2, <1>3, KeepsOn

LEMMA POLKeeps ==
    ASSUME NEW p \in PeerStates, NEW V, NEW r, NEW bits \in SUBSET Validators,
           bits \subseteq Of(V, r, "prevote")
    PROVE  Keeps(ApplyProposalPOLMessage(p, 1, r, bits), p, V)
<1> DEFINE w == [p.votes EXCEPT !["pol"] = bits]
           q == [p EXCEPT !.votes = w]
<1>1. CASE p.height # 1 \/ p.polRound # r
  BY <1>1, KeepsItself DEF ApplyProposalPOLMessage
<1>2. CASE p.height = 1 /\ p.polRound = r
  <2>1. w \in [Arrays -> Bits] /\ w["pol"] = bits
        /\ \A b \in Arrays \ {"pol"} : w[b] = p.votes[b]
    BY DEF PeerStates, Bits, Arrays
  <2>2. ApplyProposalPOLMessage(p, 1, r, bits) = q
    BY <1>2 DEF ApplyProposalPOLMessage
  <2> HIDE DEF w
  <2>3. /\ q \in PeerStates /\ q.votes = w
        /\ q.height = p.height /\ q.round = p.round /\ q.polRound = p.polRound
        /\ q.lastCommitRound = p.lastCommitRound /\ q.catchupRound = p.catchupRound
        /\ q.shared = p.shared
    BY <2>1 DEF PeerStates
  <2> HIDE DEF q
  <2>4. Keeps(q, p, V)
    BY <1>2, <2>1, <2>3 DEF Keeps, Sound, SoundLast, PolBefore, Within, Arrays
  <2> QED BY <2>2, <2>4
<1> QED BY <1>1, <1>2

LEMMA ProposalKeeps ==
    ASSUME NEW p \in PeerStates, NEW V, NEW pol \in Int, pol < p.round,
           NEW prop, prop = [height |-> 1, round |-> p.round, header |-> Nil, polRound |-> pol]
    PROVE  Keeps(SetHasProposal(p, prop), p, V)
<1> DEFINE w == [p.votes EXCEPT !["pol"] = Nil]
           q == [p EXCEPT !.proposal = TRUE, !.header = Nil, !.parts = {}, !.polRound = pol, !.votes = w]
<1>1. CASE p.height # 1 \/ p.proposal
  BY <1>1, KeepsItself DEF SetHasProposal
<1>2. CASE p.height = 1 /\ ~ p.proposal
  <2>1. w \in [Arrays -> Bits] /\ w["pol"] = Nil
        /\ \A b \in Arrays \ {"pol"} : w[b] = p.votes[b]
    BY DEF PeerStates, Bits, Arrays
  <2>2. SetHasProposal(p, prop) = q
    BY <1>2 DEF SetHasProposal
  <2> HIDE DEF w
  <2>3. /\ q \in PeerStates /\ q.votes = w
        /\ q.height = p.height /\ q.round = p.round /\ q.polRound = pol
        /\ q.lastCommitRound = p.lastCommitRound /\ q.catchupRound = p.catchupRound
        /\ q.shared = p.shared
    BY <2>1 DEF PeerStates
  <2> HIDE DEF q
  <2>4. Keeps(q, p, V)
    BY <1>2, <2>1, <2>3 DEF Keeps, Sound, SoundLast, PolBefore, Within, Arrays
  <2> QED BY <2>2, <2>4
<1> QED BY <1>1, <1>2

\* An announcement that is late is ignored; another moves every array that is
\* kept to its new key, which CatchupCommit and Precommits may come to share.
LEMMA NewRoundStepSound ==
    ASSUME NEW p \in PeerStates, NEW m \in Messages, NEW V, PolBefore(p),
           NEW q, q = ApplyNewRoundStepMessage(p, m)
    PROVE  /\ q \in PeerStates /\ PolBefore(q)
           /\ \/ q = p
              \/ /\ q.height = m.height /\ q.round = m.round /\ p.height <= m.height
                 /\ q.lastCommitRound = IF p.height = m.height THEN p.lastCommitRound ELSE m.lastCommitRound
                 /\ m.height = 1 /\ (p.height = 1 => Sound(p, V)) => Sound(q, V)
                 /\ m.height = 2 /\ (p.height = 2 => SoundLast(p, V)) => SoundLast(q, V)
<1> DEFINE newHeight == p.height # m.height
           newRound  == newHeight \/ p.round # m.round
           caughtUp  == ~ newHeight /\ newRound /\ m.round = p.catchupRound
           w == [a \in Arrays |->
                   IF newHeight THEN Nil
                   ELSE IF ~ newRound \/ a \in {"lastCommit", "catchup"} THEN p.votes[a]
                   ELSE IF a = "precommits" /\ caughtUp THEN p.votes["catchup"]
                   ELSE Nil]
<1>1. CASE ~ Later(m.height, m.round, m.step, p.height, p.round, p.step)
  BY <1>1 DEF ApplyNewRoundStepMessage
<1>2. CASE Later(m.height, m.round, m.step, p.height, p.round, p.step)
  <2>1. w \in [Arrays -> Bits]
    BY DEF PeerStates, Bits, Arrays
  <2>2. /\ w["lastCommit"] = IF newHeight THEN Nil ELSE p.votes["lastCommit"]
        /\ w["catchup"] = IF newHeight THEN Nil ELSE p.votes["catchup"]
        /\ w["pol"] = IF newRound THEN Nil ELSE p.votes["pol"]
        /\ w["prevotes"] = IF newRound THEN Nil ELSE p.votes["prevotes"]
        /\ w["precommits"] = IF ~ newRound THEN p.votes["precommits"]
                             ELSE IF caughtUp THEN p.votes["catchup"] ELSE Nil
    BY DEF Arrays
  <2> DEFINE proposed == ~ newRound /\ p.proposal
             isShared == IF newRound THEN caughtUp /\ p.votes["catchup"] # Nil ELSE p.shared
             head == IF newRound THEN Nil ELSE p.header
             parts == IF newRound THEN Nil ELSE p.parts
             pol == IF newRound THEN NoRound ELSE p.polRound
             last == IF newHeight THEN m.lastCommitRound ELSE p.lastCommitRound
             catchup == IF newHeight THEN NoRound ELSE p.catchupRound
  <2>3. q = [height |-> m.height, round |-> m.round, step |-> m.step,
             proposal |-> proposed, header |-> head, parts |-> parts, polRound |-> pol,
             lastCommitRound |-> last, catchupRound |-> catchup, votes |-> w, shared |-> isShared]
    BY <1>2 DEF ApplyNewRoundStepMessage
  <2>4. proposed \in BOOLEAN /\ isShared \in BOOLEAN
    BY DEF PeerStates
  <2>5. isShared => IF newRound THEN caughtUp ELSE p.shared
    OBVIOUS
  <2>6. /\ head = Nil /\ parts \in {Nil, {}}
        /\ pol \in Int /\ last \in Int /\ catchup \in Rounds \cup {NoRound}
    BY SMTT(60) DEF PeerStates, Messages, NoRound
  <2> HIDE DEF w, proposed, isShared, head, parts, pol, last, catchup
  <2>7. /\ q.height = m.height /\ q.round = m.round /\ q.votes = w /\ q.polRound = pol
        /\ q.lastCommitRound = last /\ q.catchupRound = catchup /\ q.shared = isShared
    BY SMTT(60), <2>3
  <2>8. q \in PeerStates
    BY SMTT(60), <2>1, <2>3, <2>4, <2>6 DEF PeerStates, Messages
  <2>9. p.height <= m.height
    BY SMTT(60), <1>2 DEF Later, PeerStates, Messages
  <2>10. PolBefore(q)
    BY <2>7 DEF PolBefore, pol
  <2>11. ASSUME m.height = 1, p.height = 1 => Sound(p, V) PROVE Sound(q, V)
    <3>1. CASE newHeight
      BY <2>2, <2>5, <2>7, <3>1 DEF Sound, Within
    <3>2. CASE ~ newHeight /\ newRound
      BY <2>2, <2>5, <2>7, <2>11, <3>2 DEF Sound, Within, catchup
    <3>3. CASE ~ newRound
      BY SMTT(60), <2>2, <2>5, <2>7, <2>11, <3>3 DEF Sound, Within, catchup, pol
    <3> QED BY <3>1, <3>2, <3>3
  <2>12. ASSUME m.height = 2, p.height = 2 => SoundLast(p, V) PROVE SoundLast(q, V)
    BY <2>2, <2>7, <2>12 DEF SoundLast, Within, last
  <2> QED BY <2>7, <2>8, <2>9, <2>10, <2>11, <2>12 DEF last
<1> QED BY <1>1, <1>2
-----------------------------------------------------------------------------
(* The node and the peer.                                                    *)

Peers ==
    [height : {1, 2}, round : Nat, step : Nat, lastCommitRound : Int, catchups : SUBSET Rounds]

Answers == [round : Rounds, type : VoteTypes, bits : Bits]

\* The votes that went to the peer, or were lost on the way.
Sent == has \cup voteWire \cup lost

\* m, an announcement or the PeerState, is not ahead of the peer.
Behind(m, p) ==
    /\ m.height <= p.height
    /\ m.height = 1 /\ p.height = 1 => m.round <= p.round
    /\ m.height = 2 => m.lastCommitRound = p.lastCommitRound

\* The peer takes every vote that is on its way.
Welcome(x) == x.round \in Tracked(peer) \cup {node.commitRound}

PeerInv ==
    /\ node.height \in 1 .. MaxNodeHeight /\ node.commitRound \in Rounds \cup {NoRound}
    /\ node.height = 1 => node.commitRound = NoRound
    /\ node = [height |-> node.height, commitRound |-> node.commitRound]
    /\ held \subseteq Cast /\ has \subseteq Cast /\ voteWire \subseteq Cast /\ lost \subseteq Cast
    /\ peer \in Peers /\ stateWire \subseteq Messages
    /\ \A m \in stateWire : Behind(m, peer)
    /\ peer.height = 1 /\ peer.step = RoundStepNewHeight => peer.round = 0
    /\ peer.catchups \subseteq {node.commitRound}
    /\ peer.height = 1 => \A x \in voteWire : Welcome(x)

IInv ==
    /\ PeerInv
    /\ ps \in PeerStates /\ Behind(ps, peer) /\ PolBefore(ps)
    /\ ps.height = 1 /\ peer.height = 1 => Sound(ps, Sent)
    /\ ps.height = 2 /\ peer.step = RoundStepNewHeight => SoundLast(ps, Sent)
    /\ answer \in Answers \cup {Nil}
    /\ answer # Nil => Within(answer.bits, Of(has, answer.round, answer.type))
-----------------------------------------------------------------------------
(* The steps of the peer.                                                    *)

LEMMA Types ==
    ASSUME IInv
    PROVE  /\ ps \in PeerStates /\ peer \in Peers
           /\ held \subseteq Cast /\ has \subseteq Cast /\ voteWire \subseteq Cast /\ lost \subseteq Cast
           /\ peer.catchups \subseteq {node.commitRound}
  BY DEF IInv, PeerInv

LEMMA VoteFields ==
    ASSUME NEW x \in Cast
    PROVE  x.round \in Rounds /\ x.round \in Nat /\ x.type \in VoteTypes /\ x.val \in Validators
  BY VoteGossipAssumption DEF Vote

\* A peer that goes on within a height.
Advances(q, p) ==
    /\ q \in Peers /\ q.height = p.height /\ q.lastCommitRound = p.lastCommitRound
    /\ p.round <= q.round /\ p.catchups \subseteq q.catchups
    /\ q.step = RoundStepNewHeight => p.step = RoundStepNewHeight /\ q.round = p.round

LEMMA AdvancesTracked ==
    ASSUME NEW p \in Peers, NEW q, Advances(q, p)
    PROVE  Tracked(p) \subseteq Tracked(q)
<1>1. p.round \in Nat /\ q.round \in Nat /\ p.round <= q.round /\ p.catchups \subseteq q.catchups
      /\ (q.step = RoundStepNewHeight => p.step = RoundStepNewHeight)
  BY DEF Advances, Peers
<1>2. ASSUME NEW r \in Rounds, r <= IF p.step = RoundStepNewHeight THEN 0 ELSE p.round + 1
      PROVE  r <= IF q.step = RoundStepNewHeight THEN 0 ELSE q.round + 1
  <2>1. r \in Nat
    BY VoteGossipAssumption
  <2>2. CASE q.step = RoundStepNewHeight
    BY <1>1, <1>2, <2>2
  <2>3. CASE q.step # RoundStepNewHeight
    BY SMTT(60), <1>1, <1>2, <2>1, <2>3
  <2> QED BY <2>2, <2>3
<1> QED BY <1>1, <1>2 DEF Tracked

LEMMA EnterAdvances ==
    ASSUME NEW p \in Peers, NEW r \in Nat, NEW st \in Nat, st > RoundStepNewHeight
    PROVE  Advances(Enter(p, r, st), p) /\ Enter(p, r, st).catchups = p.catchups
<1> DEFINE s == IF r > p.round THEN r ELSE p.round
<1>1. s \in Nat /\ p.round <= s
  BY SMTT(60) DEF Peers
<1>2. Enter(p, r, st) = [p EXCEPT !.round = s, !.step = st]
  BY DEF Enter, Peers
<1> HIDE DEF s
<1>3. RoundStepNewHeight \in Nat
  BY DEF RoundStepNewHeight
<1>4. st # RoundStepNewHeight
  BY SMTT(60), <1>3
<1> DEFINE q == [p EXCEPT !.round = s, !.step = st]
<1>5. /\ q \in Peers /\ q.height = p.height /\ q.lastCommitRound = p.lastCommitRound
      /\ q.round = s /\ q.step = st /\ q.catchups = p.catchups
  BY <1>1 DEF Peers
<1> HIDE DEF q
<1>6. Advances(q, p)
  BY <1>1, <1>4, <1>5 DEF Advances
<1> QED BY <1>2, <1>5, <1>6 DEF q

LEMMA AfterVoteAdvances ==
    ASSUME NEW p \in Peers, NEW votes, NEW x, x.round \in Nat
    PROVE  Advances(AfterVote(p, votes, x), p) /\ AfterVote(p, votes, x).catchups = p.catchups
<1>1. Advances(p, p)
  BY SMTT(60) DEF Advances, Peers
<1>2. /\ RoundStepCommit \in Nat /\ RoundStepCommit > RoundStepNewHeight
      /\ RoundStepPrecommit \in Nat /\ RoundStepPrecommit > RoundStepNewHeight
  BY SMTT(60) DEF RoundStepCommit, RoundStepPrecommit, RoundStepNewHeight
<1>3. /\ Advances(Enter(p, x.round, RoundStepCommit), p)
      /\ Enter(p, x.round, RoundStepCommit).catchups = p.catchups
      /\ Advances(Enter(p, x.round, RoundStepPrecommit), p)
      /\ Enter(p, x.round, RoundStepPrecommit).catchups = p.catchups
  BY <1>2, EnterAdvances
<1> QED BY <1>1, <1>3 DEF AfterVote

\* It claims no more of what went to the peer than before, and the peer still
\* takes what is under way.
LEMMA PeerStep ==
    ASSUME IInv, Advances(peer', peer), UNCHANGED <<node, held, ps, lost>>,
           stateWire' \subseteq stateWire \cup {NewRoundStep(peer')},
           peer'.catchups \subseteq {node.commitRound},
           has \subseteq has', has' \subseteq Cast, voteWire' \subseteq voteWire,
           \/ Sent \subseteq Sent'
           \/ /\ peer.height = 2
              /\ peer.step = RoundStepNewHeight =>
                   Of(Sent, peer.lastCommitRound, "precommit")
                     \subseteq Of(Sent', peer.lastCommitRound, "precommit"),
           answer' = answer
    PROVE  IInv'
<1> USE DEF IInv, PeerInv
<1>1. peer \in Peers /\ peer' \in Peers /\ ps \in PeerStates
  BY DEF Advances
<1>2. \A m : Behind(m, peer) /\ m.height \in Int /\ m.round \in Int => Behind(m, peer')
  BY SMTT(60), <1>1 DEF Behind, Advances, Peers
<1>3. NewRoundStep(peer') \in Messages /\ Behind(NewRoundStep(peer'), peer')
  BY SMTT(60), <1>1 DEF NewRoundStep, Messages, Behind, Peers
<1>4. stateWire' \subseteq Messages /\ \A m \in stateWire' : Behind(m, peer')
  BY SMTT(60), <1>2, <1>3 DEF Messages
<1>5. peer'.height = 1 => \A x \in voteWire' : Welcome(x)'
  BY <1>1, AdvancesTracked DEF Welcome, Advances
<1>6. PeerInv'
  <2>1. peer'.height = 1 /\ peer'.step = RoundStepNewHeight => peer'.round = 0
    BY DEF Advances
  <2>2. peer'.catchups \subseteq {node'.commitRound}
    BY DEF Advances
  <2> QED BY <1>1, <1>4, <1>5, <2>1, <2>2
<1>7. Behind(ps', peer')
  BY SMTT(60), <1>1, <1>2 DEF PeerStates
<1>8. ps'.height = 1 /\ peer'.height = 1 => Sound(ps', Sent')
  BY SMTT(60), SoundMonotone DEF Advances
<1>9. ps'.height = 2 /\ peer'.step = RoundStepNewHeight => SoundLast(ps', Sent')
  <2> SUFFICES ASSUME ps.height = 2, peer'.step = RoundStepNewHeight PROVE SoundLast(ps, Sent')
    OBVIOUS
  <2>1. SoundLast(ps, Sent)
    BY DEF Advances
  <2>2. ps.lastCommitRound = peer.lastCommitRound
    BY DEF Behind
  <2>3. CASE Sent \subseteq Sent'
    BY <2>1, <2>3, SoundMonotone
  <2>4. CASE Of(Sent, peer.lastCommitRound, "precommit")
               \subseteq Of(Sent', peer.lastCommitRound, "precommit")
    BY <2>1, <2>2, <2>4 DEF SoundLast, Within
  <2> QED BY <2>3, <2>4 DEF Advances
<1>10. answer' # Nil => Within(answer'.bits, Of(has', answer'.round, answer'.type))
  BY OfMonotone DEF Within
<1> QED BY <1>6, <1>7, <1>8, <1>9, <1>10

\* HeightVoteSet refuses nothing that is under way at height 1, and the vote set
\* of the last commit nothing the PeerState could claim.
LEMMA ReceiveVoteStep ==
    ASSUME IInv, NEW x \in Cast, PeerReceivesVote(x)
    PROVE  IInv'
<1>0. /\ peer \in Peers /\ has \subseteq Cast /\ x.round \in Rounds /\ x.round \in Nat
      /\ x \in voteWire /\ voteWire' = voteWire \ {x} /\ UNCHANGED <<node, held, ps, answer, lost>>
  BY Types, VoteFields DEF PeerReceivesVote
<1> DEFINE p == IF x.round \in Tracked(peer) THEN peer ELSE [peer EXCEPT !.catchups = @ \cup {x.round}]
           q == AfterVote(p, has \cup {x}, x)
           refused == IF peer.height = 1 THEN Refused(x) ELSE RefusedLast(x)
<1>1. Advances(peer, peer)
  BY SMTT(60), <1>0 DEF Advances, Peers
<1>2. peer.height = 1 => ~ refused
  <2> SUFFICES ASSUME peer.height = 1 PROVE ~ Refused(x)
    OBVIOUS
  <2>1. peer.catchups \subseteq {node.commitRound}
    BY Types
  <2>2. IsFiniteSet({node.commitRound}) /\ Cardinality({node.commitRound}) = 1
    BY FS_Singleton
  <2>3. Cardinality(peer.catchups) \in Nat /\ Cardinality(peer.catchups) <= 1
    BY SMTT(60), <2>1, <2>2, FS_Subset, FS_CardinalityType
  <2> QED BY SMTT(60), <2>3 DEF Refused, MaxCatchupRounds
<1>3. CASE x \in has \/ refused
  <2>1. UNCHANGED <<peer, has, stateWire>>
    BY <1>3 DEF PeerReceivesVote, AddVote, peerVars
  <2>2. CASE x \in has
    <3>1. Sent \subseteq Sent'
      BY SMTT(60), <1>0, <2>1, <2>2 DEF Sent
    <3> QED BY <1>0, <1>1, <2>1, <3>1, PeerStep, Types
  <2>3. CASE refused
    <3>1. peer.height = 2
      BY <1>0, <1>2, <2>3 DEF Peers
    <3>2. peer.step = RoundStepNewHeight => x.type # "precommit" \/ x.round # peer.lastCommitRound
      BY SMTT(60), <2>3, <3>1 DEF RefusedLast
    <3>3. Sent \ {x} \subseteq Sent'
      BY <1>0, <2>1 DEF Sent
    <3>4. peer.step = RoundStepNewHeight =>
            Of(Sent, peer.lastCommitRound, "precommit") \subseteq Of(Sent', peer.lastCommitRound, "precommit")
      BY <3>2, <3>3 DEF Of
    <3> QED BY SMTT(60), <1>0, <1>1, <2>1, <3>1, <3>4, PeerStep, Types
  <2> QED BY <1>3, <2>2, <2>3
<1>4. CASE ~ (x \in has \/ refused)
  <2>1. /\ has' = has \cup {x} /\ peer' = IF peer.height = 1 THEN q ELSE peer
        /\ stateWire' \subseteq stateWire \cup {NewRoundStep(peer')}
    BY <1>4 DEF PeerReceivesVote, AddVote
  <2>2. Sent \subseteq Sent'
    BY SMTT(60), <1>0, <2>1 DEF Sent
  <2>3. p \in Peers /\ Advances(p, peer)
    BY <1>0, <1>1 DEF Advances, Peers
  <2>4. peer.height = 1 => p.catchups \subseteq {node.commitRound}
    <3> SUFFICES ASSUME peer.height = 1 PROVE p.catchups \subseteq {node.commitRound}
      OBVIOUS
    <3>1. peer.catchups \subseteq {node.commitRound} /\ Welcome(x)
      BY <1>0 DEF IInv, PeerInv
    <3>2. p.catchups = IF x.round \in Tracked(peer) THEN peer.catchups ELSE peer.catchups \cup {x.round}
      BY <1>0 DEF Peers
    <3> QED BY <3>1, <3>2 DEF Welcome
  <2>5. Advances(q, peer) /\ q.catchups = p.catchups
    <3> HIDE DEF p
    <3>1. Advances(q, p) /\ q.catchups = p.catchups
      BY <1>0, <2>3, AfterVoteAdvances
    <3> HIDE DEF q
    <3> QED BY SMTT(60), <1>0, <2>3, <3>1 DEF Advances, Peers
  <2> HIDE DEF p, q
  <2>6. Advances(peer', peer) /\ peer'.catchups \subseteq {node.commitRound}
    BY <1>1, <2>1, <2>4, <2>5, Types
  <2> QED BY <1>0, <2>1, <2>2, <2>6, PeerStep
<1> QED BY <1>3, <1>4

LEMMA LearnVoteStep ==
    ASSUME IInv, NEW x \in Cast, PeerLearnsVote(x)
    PROVE  IInv'
<1>0. /\ peer \in Peers /\ has \subseteq Cast /\ x.round \in Rounds /\ x.round \in Nat
      /\ UNCHANGED <<node, held, ps, voteWire, answer, lost>>
  BY Types, VoteFields DEF PeerLearnsVote
<1> DEFINE q == AfterVote(peer, has \cup {x}, x)
<1>1. /\ has' = has \cup {x} /\ peer' = q
      /\ stateWire' \subseteq stateWire \cup {NewRoundStep(peer')}
  BY DEF PeerLearnsVote, AddVote, Refused
<1>2. Advances(q, peer) /\ q.catchups = peer.catchups
  BY <1>0, AfterVoteAdvances
<1>3. Sent \subseteq Sent'
  BY SMTT(60), <1>0, <1>1 DEF Sent
<1>4. peer'.catchups \subseteq {node.commitRound}
  BY <1>1, <1>2, Types
<1> HIDE DEF q
<1> QED BY <1>0, <1>1, <1>2, <1>3, <1>4, PeerStep

LEMMA MoveOnStep ==
    ASSUME IInv, NEW r \in Rounds, NEW st \in PeerSteps, PeerMovesOn(r, st)
    PROVE  IInv'
<1>0. peer \in Peers /\ r \in Nat /\ st \in Nat /\ st > RoundStepNewHeight
  BY VoteGossipAssumption, Types
<1> USE DEF PeerMovesOn
<1>1. Advances(peer', peer) /\ peer'.catchups = peer.catchups
  BY <1>0, EnterAdvances
<1>2. Sent \subseteq Sent'
  BY DEF Sent
<1> QED BY <1>1, <1>2, PeerStep, Types

\* The PeerState is at height 1 when the peer leaves it, and claims nothing there
\* that a vote could be missed for.
LEMMA FinalizeStep ==
    ASSUME IInv, NEW r \in Rounds, PeerFinalizes(r)
    PROVE  IInv'
<1> USE DEF PeerFinalizes, IInv, PeerInv
<1>1. peer' \in Peers /\ peer'.height = 2 /\ peer'.lastCommitRound = r /\ peer'.catchups = {}
  BY SMTT(60), VoteGossipAssumption DEF Peers, RoundStepNewHeight
<1>2. NewRoundStep(peer') \in Messages /\ Behind(NewRoundStep(peer'), peer')
  BY SMTT(60), <1>1 DEF NewRoundStep, Messages, Behind, Peers
<1>3. \A m : Behind(m, peer) /\ m.height \in {0, 1, 2} => Behind(m, peer') /\ m.height # 2
  BY SMTT(60), <1>1 DEF Behind
<1>4. \A m \in stateWire' : m \in Messages /\ Behind(m, peer')
  BY <1>2, <1>3 DEF Messages
<1>5. Behind(ps', peer') /\ ps'.height # 2
  BY <1>3 DEF PeerStates
<1>6. UNCHANGED <<node, held, ps, has, voteWire, answer, lost>>
  OBVIOUS
<1> HIDE DEF PeerFinalizes
<1>7. PeerInv'
  BY SMTT(60), <1>1, <1>4, <1>6
<1> QED BY SMTT(60), <1>1, <1>5, <1>6, <1>7

LEMMA AnswerStep ==
    ASSUME IInv, NEW r \in Rounds, NEW t \in VoteTypes, PeerAnswers(r, t)
    PROVE  IInv'
<1> USE DEF PeerAnswers, peerVars
<1> DEFINE bits == IF r \in Tracked(peer) THEN Of(has, r, t) \cap ForBlock ELSE Nil
<1>1. bits \in Bits /\ Within(bits, Of(has, r, t))
  BY VoteGossipAssumption DEF Bits, Within
<1>2. answer' \in Answers /\ Within(answer'.bits, Of(has', answer'.round, answer'.type))
  <2> HIDE DEF bits
  <2>1. answer' = [round |-> r, type |-> t, bits |-> bits]
    BY DEF bits
  <2>2. /\ answer' \in Answers /\ answer'.round = r /\ answer'.type = t /\ answer'.bits = bits
        /\ has' = has
    BY SMTT(60), <1>1, <2>1 DEF Answers
  <2> QED BY <1>1, <2>2
<1>3. UNCHANGED <<node, held, ps, peer, has, stateWire, voteWire, lost>>
  OBVIOUS
<1> QED BY <1>2, <1>3 DEF IInv, PeerInv, Welcome, Sent
-----------------------------------------------------------------------------
(* The steps of the node.                                                    *)

\* One that changes the PeerState by a method that adds only what is sent.
LEMMA NodeStep ==
    ASSUME IInv, UNCHANGED <<node, peer, has>>, Keeps(ps', ps, Sent'), Sent \subseteq Sent',
           stateWire' \subseteq stateWire, held' \subseteq Cast, voteWire' \subseteq Cast, lost' \subseteq Cast,
           peer.height = 1 => \A x \in voteWire' \ voteWire : Welcome(x),
           answer' \in {answer, Nil}
    PROVE  IInv'
<1> USE DEF IInv, PeerInv
<1>1. PeerInv'
  BY DEF Welcome
<1>2. /\ ps' \in PeerStates /\ PolBefore(ps') /\ Behind(ps', peer')
  BY DEF Keeps, Behind
<1>3. ps'.height = 1 /\ peer'.height = 1 => Sound(ps', Sent')
  BY SoundMonotone DEF Keeps
<1>4. ps'.height = 2 /\ peer'.step = RoundStepNewHeight => SoundLast(ps', Sent')
  BY SoundMonotone DEF Keeps
<1>5. /\ answer' \in Answers \cup {Nil}
      /\ answer' # Nil => Within(answer'.bits, Of(has', answer'.round, answer'.type))
  OBVIOUS
<1> QED BY <1>1, <1>2, <1>3, <1>4, <1>5

LEMMA StateStep ==
    ASSUME IInv, NEW m \in stateWire, NodeReceivesState(m)
    PROVE  IInv'
<1> USE DEF NodeReceivesState, IInv, PeerInv
<1>1. m \in Messages /\ Behind(m, peer) /\ ps \in PeerStates /\ PolBefore(ps) /\ peer \in Peers
  OBVIOUS
<1>2. Sent' = Sent
  BY SMTT(60) DEF Sent
<1>3. PeerInv'
  BY SMTT(60) DEF Welcome
<1>4. CASE ps' = ps
  BY <1>2, <1>3, <1>4
<1>5. CASE ps' # ps
  <2>1. /\ ps' \in PeerStates /\ PolBefore(ps')
        /\ ps'.height = m.height /\ ps'.round = m.round /\ ps.height <= m.height
        /\ ps'.lastCommitRound = IF ps.height = m.height THEN ps.lastCommitRound ELSE m.lastCommitRound
        /\ m.height = 1 /\ (ps.height = 1 => Sound(ps, Sent)) => Sound(ps', Sent)
        /\ m.height = 2 /\ (ps.height = 2 => SoundLast(ps, Sent)) => SoundLast(ps', Sent)
    <3> HIDE DEF NodeReceivesState, IInv, PeerInv
    <3>1. ps' = ApplyNewRoundStepMessage(ps, m)
      BY DEF NodeReceivesState
    <3> QED BY SMTT(60), <1>1, <1>5, <3>1, NewRoundStepSound
  <2>2. Behind(ps', peer')
    BY <1>1, <2>1 DEF Behind
  <2> QED BY <1>2, <1>3, <2>1, <2>2
<1> QED BY <1>4, <1>5

LEMMA HasVoteStep ==
    ASSUME IInv, NEW x \in Cast, NodeReceivesHasVote(x)
    PROVE  IInv'
<1>1. UNCHANGED <<node, held, peer, has, stateWire, voteWire, answer, lost>> /\ Sent' = Sent
  BY DEF NodeReceivesHasVote, peerVars, Sent
<1>2. x.val \in Of(Sent, x.round, x.type)
  BY DEF NodeReceivesHasVote, Sent, Of
<1>3. Keeps(ps', ps, Sent)
  BY SMTT(60), <1>2, Types, VoteFields, SetHasVoteKeeps, KeepsItself DEF NodeReceivesHasVote, ApplyHasVoteMessage
<1> QED BY <1>1, <1>3, NodeStep, Types

LEMMA VoteStep ==
    ASSUME IInv, NEW x \in Cast, NodeReceivesVote(x)
    PROVE  IInv'
<1>1. UNCHANGED <<node, peer, has, stateWire, voteWire, answer, lost>> /\ held' \subseteq Cast /\ Sent' = Sent
  BY Types DEF NodeReceivesVote, peerVars, Sent
<1>2. x.val \in Of(Sent, x.round, x.type)
  BY DEF NodeReceivesVote, Sent, Of
<1>3. PICK p \in {ps, Ensured(ps, node.height)} : ps' = setHasVote(p, 1, x.round, x.type, x.val)
  BY DEF NodeReceivesVote
<1>4. Keeps(p, ps, Sent)
  BY <1>3, Types, EnsuredKeeps, KeepsItself
<1>5. p \in PeerStates
  BY SMTT(60), <1>4 DEF Keeps
<1>6. Keeps(ps', p, Sent)
  BY SMTT(60), <1>2, <1>3, <1>5, VoteFields, SetHasVoteKeeps
<1>7. Keeps(ps', ps, Sent)
  BY <1>4, <1>6, KeepsOn
<1> QED BY <1>1, <1>7, NodeStep, Types

LEMMA NodeLearnStep ==
    ASSUME IInv, NEW x \in Cast, NodeLearnsVote(x)
    PROVE  IInv'
<1>1. UNCHANGED <<node, ps, peer, has, stateWire, voteWire, answer, lost>> /\ held' \subseteq Cast
  BY Types DEF NodeLearnsVote, peerVars
<1>2. Sent' = Sent
  BY <1>1 DEF Sent
<1>3. Keeps(ps', ps, Sent)
  BY SMTT(60), <1>1, Types, KeepsItself
<1> QED BY SMTT(60), <1>1, <1>2, <1>3, NodeStep, Types

LEMMA ProposalStep ==
    ASSUME IInv, NEW pol \in PolRounds, ProposalShared(pol)
    PROVE  IInv'
<1>1. UNCHANGED <<node, held, peer, has, stateWire, voteWire, answer, lost>> /\ Sent' = Sent
  BY DEF ProposalShared, peerVars, Sent
<1>2. ps \in PeerStates /\ pol \in Int
  <2>1. pol \in Rounds
    BY VoteGossipAssumption
  <2>2. pol \in Nat
    BY <2>1, VoteGossipAssumption
  <2> QED BY SMTT(60), <2>2, Types
<1>3. Keeps(ps', ps, Sent)
  BY <1>2, ProposalKeeps DEF ProposalShared
<1> QED BY <1>1, <1>3, NodeStep, Types

LEMMA POLStep ==
    ASSUME IInv, NEW r \in Rounds, NEW bits \in SUBSET Validators, NodeReceivesPOL(r, bits)
    PROVE  IInv'
<1>1. UNCHANGED <<node, held, peer, has, stateWire, voteWire, answer, lost>> /\ Sent' = Sent
  BY DEF NodeReceivesPOL, peerVars, Sent
<1>2. bits \subseteq Of(Sent, r, "prevote")
  BY DEF NodeReceivesPOL, Sent, Of
<1>3. Keeps(ps', ps, Sent)
  BY <1>2, Types, POLKeeps DEF NodeReceivesPOL
<1> QED BY <1>1, <1>3, NodeStep, Types

LEMMA BitsStep ==
    ASSUME IInv, NodeReceivesBits
    PROVE  IInv'
<1> DEFINE ours == IF node.height = 1 THEN Of(held, answer.round, answer.type) \cap ForBlock ELSE Nil
<1>1. UNCHANGED <<node, held, peer, has, stateWire, voteWire, lost>> /\ answer' = Nil /\ Sent' = Sent
  BY DEF NodeReceivesBits, peerVars, Sent
<1>2. /\ answer.round \in Rounds /\ answer.type \in VoteTypes /\ answer.bits \in Bits
      /\ Within(answer.bits, Of(has, answer.round, answer.type)) /\ ps \in PeerStates
  BY DEF NodeReceivesBits, IInv, Answers
<1>3. has \subseteq Sent
  BY SMTT(60) DEF Sent
<1>4. Within(answer.bits, Of(Sent, answer.round, answer.type))
  BY <1>2, <1>3, OfMonotone DEF Within
<1>5. Keeps(ps', ps, Sent)
  <2>1. ps' = ApplyVoteSetBitsMessage(ps, 1, answer.round, answer.type, answer.bits, ours)
    BY DEF NodeReceivesBits
  <2> HIDE DEF ours
  <2> QED BY <1>2, <1>4, <2>1, VoteSetBitsKeeps
<1> QED BY SMTT(60), <1>1, <1>5, NodeStep, Types

\* The routine serves a peer at height 1 only from rounds it has reached, or from
\* the commit.
LEMMA ServeWelcome ==
    ASSUME IInv, NEW r \in Rounds, NEW t, MayServe(r, t), peer.height = 1
    PROVE  r \in Tracked(peer) \cup {node.commitRound}
<1>1. /\ ps \in PeerStates /\ peer \in Peers /\ Behind(ps, peer) /\ PolBefore(ps) /\ r \in Nat
      /\ (peer.step = RoundStepNewHeight => peer.round = 0)
  BY VoteGossipAssumption DEF IInv, PeerInv
<1>2. ps.height # 2
  BY SMTT(60), <1>1 DEF Behind
<1>3. CASE node.height # 1
  BY <1>3 DEF MayServe
<1>4. CASE node.height = 1
  <2>1. ps.height = 1 /\ (r <= ps.round \/ r = ps.polRound)
    BY <1>4 DEF MayServe
  <2>2. ps.round <= peer.round /\ ps.round \in Int /\ peer.round \in Nat
    BY <1>1, <2>1 DEF Behind, PeerStates, Peers
  <2>3. r = ps.polRound => r < ps.round
    BY SMTT(60), <1>1 DEF PolBefore, NoRound
  <2>4. r <= peer.round
    BY SMTT(60), <1>1, <2>1, <2>2, <2>3
  <2> QED BY SMTT(60), <1>1, <2>2, <2>4 DEF Tracked
<1> QED BY <1>3, <1>4

LEMMA SendStep ==
    ASSUME IInv, NEW r \in Rounds, NEW t \in VoteTypes, NEW v, NEW p, NEW x,
           p = Prepared(ps, 1, r, t, IsCommit(r, t)), x = [round |-> r, type |-> t, val |-> v],
           UNCHANGED <<node, held, peer, has, stateWire, answer>>, MayServe(r, t),
           v \in Candidates(p, 1, r, t, Of(held, r, t)), ps' = setHasVote(p, 1, r, t, v),
           \/ voteWire' = voteWire \cup {x} /\ lost' = lost \ {x}
           \/ voteWire' = voteWire /\ lost' = lost \cup {x}
    PROVE  IInv'
<1>1. v \in Of(held, r, t)
  BY DEF Candidates
<1>2. x \in Cast /\ v \in Validators
  <2>1. PICK y \in held : y.round = r /\ y.type = t /\ y.val = v
    BY <1>1 DEF Of
  <2>2. y \in Cast /\ y \in Vote
    BY VoteGossipAssumption, Types
  <2>3. y = x
    BY <2>1, <2>2 DEF Vote
  <2> QED BY <2>1, <2>2, <2>3 DEF Vote
<1>3. x.round = r /\ x.type = t /\ x.val = v
  OBVIOUS
<1>4. ps \in PeerStates /\ held \subseteq Cast /\ voteWire \subseteq Cast /\ lost \subseteq Cast
  BY Types
<1>5. Keeps(p, ps, Sent') /\ p \in PeerStates
  <2>1. Keeps(p, ps, Sent')
    BY <1>4, PreparedKeeps
  <2> QED BY <2>1 DEF Keeps
<1>6. Sent \subseteq Sent' /\ x \in Sent'
  BY DEF Sent
<1>7. v \in Of(Sent', r, t)
  BY <1>3, <1>6 DEF Of
<1>8. Keeps(ps', ps, Sent')
  <2>1. Keeps(ps', p, Sent')
    BY SMTT(60), <1>2, <1>5, <1>7, SetHasVoteKeeps
  <2> QED BY <1>5, <2>1, KeepsOn
<1>9. peer.height = 1 => Welcome(x)
  BY <1>3, ServeWelcome DEF Welcome
<1>10. voteWire' \subseteq Cast /\ lost' \subseteq Cast /\ voteWire' \subseteq voteWire \cup {x}
  BY <1>2, <1>4
<1> QED BY <1>4, <1>6, <1>8, <1>9, <1>10, NodeStep

LEMMA GossipStep ==
    ASSUME IInv, NEW r \in Rounds, NEW t \in VoteTypes, gossipVotesRoutine(r, t)
    PROVE  IInv'
<1> DEFINE p == Prepared(ps, 1, r, t, IsCommit(r, t))
<1>1. UNCHANGED <<node, held, peer, has, stateWire, answer>> /\ MayServe(r, t) /\ PickSendVote(r, t)
  BY DEF gossipVotesRoutine, peerVars
<1>2. CASE ps' = p /\ UNCHANGED <<voteWire, lost>>
  <2>1. Sent' = Sent
    BY <1>1, <1>2 DEF Sent
  <2>2. Keeps(ps', ps, Sent')
    BY <1>2, Types, PreparedKeeps
  <2> QED BY <1>1, <1>2, <2>1, <2>2, NodeStep, Types
<1>3. ASSUME NEW v \in Candidates(p, 1, r, t, Of(held, r, t)),
             LET x == [round |-> r, type |-> t, val |-> v] IN
             /\ ps' = setHasVote(p, 1, r, t, v)
             /\ \/ voteWire' = voteWire \cup {x} /\ lost' = lost \ {x}
                \/ voteWire' = voteWire /\ lost' = lost \cup {x}
      PROVE  IInv'
  <2> DEFINE x == [round |-> r, type |-> t, val |-> v]
  <2>1. /\ p = Prepared(ps, 1, r, t, IsCommit(r, t)) /\ x = [round |-> r, type |-> t, val |-> v]
        /\ ps' = setHasVote(p, 1, r, t, v)
        /\ \/ voteWire' = voteWire \cup {x} /\ lost' = lost \ {x}
           \/ voteWire' = voteWire /\ lost' = lost \cup {x}
    BY <1>3
  <2> HIDE DEF p, x
  <2> QED BY <1>1, <1>3, <2>1, SendStep
<1> QED BY <1>1, <1>2, <1>3 DEF PickSendVote

\* Until it commits no round is opened at the peer; from then on only the round
\* of the commit.
LEMMA CommitStep ==
    ASSUME IInv, NEW r \in Rounds, NodeCommits(r)
    PROVE  IInv'
<1> USE DEF NodeCommits, peerVars
<1>1. UNCHANGED <<held, ps, peer, has, stateWire, voteWire, answer, lost>>
  OBVIOUS
<1>2. node' = [height |-> 2, commitRound |-> r] /\ node'.height = 2 /\ node'.commitRound = r
  OBVIOUS
<1>3. node.commitRound = NoRound /\ NoRound \notin Rounds
  BY SMTT(60), VoteGossipAssumption DEF IInv, PeerInv, NoRound
<1> HIDE DEF NodeCommits
<1>4. peer.catchups = {} /\ node'.height \in 1 .. MaxNodeHeight /\ node'.height # 1
  <2>1. peer.catchups = {}
    BY <1>3 DEF IInv, PeerInv, Peers
  <2> QED BY SMTT(60), <1>2, <2>1, VoteGossipAssumption
<1>5. peer.height = 1 => \A x \in voteWire : Welcome(x)'
  <2>1. \A x \in voteWire : x.round \in Rounds
    BY VoteGossipAssumption DEF IInv, PeerInv, Vote
  <2>2. peer.height = 1 => \A x \in voteWire : x.round \in Tracked(peer)
    BY <1>3, <2>1 DEF IInv, PeerInv, Welcome
  <2> QED BY <1>1, <2>2 DEF Welcome
<1>6. PeerInv'
  BY SMTT(60), <1>1, <1>2, <1>4, <1>5 DEF IInv, PeerInv
<1> QED BY <1>1, <1>6 DEF IInv, Sent

LEMMA CommitMoreStep ==
    ASSUME IInv, NodeCommitsMore
    PROVE  IInv'
<1> USE DEF NodeCommitsMore, peerVars
<1>1. UNCHANGED <<held, ps, peer, has, stateWire, voteWire, answer, lost>>
  OBVIOUS
<1>2. /\ node.height \in Nat /\ node.height + 1 \in 1 .. MaxNodeHeight /\ node.height # 1 /\ node.height + 1 # 1
      /\ node = [height |-> node.height, commitRound |-> node.commitRound]
  BY SMTT(60), VoteGossipAssumption DEF IInv, PeerInv
<1>3. /\ node'.height = node.height + 1 /\ node'.commitRound = node.commitRound
      /\ node' = [height |-> node'.height, commitRound |-> node'.commitRound]
  BY <1>2
<1> HIDE DEF NodeCommitsMore
<1>4. PeerInv'
  BY SMTT(60), <1>1, <1>2, <1>3 DEF IInv, PeerInv, Welcome
<1> QED BY <1>1, <1>4 DEF IInv, Sent
-----------------------------------------------------------------------------
LEMMA InitIInv == Init => IInv
<1> SUFFICES ASSUME Init PROVE IInv
  OBVIOUS
<1>1. NewPeerState \in PeerStates /\ NewPeerState.height = 0 /\ NewPeerState.polRound = NoRound
  BY SMTT(60) DEF NewPeerState, PeerStates, Bits, NoRound
<1>2. /\ node = [height |-> 1, commitRound |-> NoRound] /\ node.height = 1 /\ node.commitRound = NoRound
      /\ held = HeldAtStart /\ ps = NewPeerState /\ has = {} /\ voteWire = {} /\ answer = Nil /\ lost = {}
      /\ stateWire = {NewRoundStep(peer)}
  BY DEF Init
<1>3. peer = [height |-> 1, round |-> 0, step |-> RoundStepNewHeight, lastCommitRound |-> NoRound,
              catchups |-> {}]
  BY DEF Init
<1>4. peer.height = 1 /\ peer.round = 0 /\ peer.catchups = {}
  BY <1>3
<1>5. peer \in Peers
  <2>1. NoRound \in Int /\ RoundStepNewHeight \in Nat
    BY SMTT(60) DEF NoRound, RoundStepNewHeight
  <2> QED BY <1>3, <2>1 DEF Peers
<1>6. NewRoundStep(peer) \in Messages /\ Behind(NewRoundStep(peer), peer)
  BY SMTT(60), <1>4, <1>5 DEF NewRoundStep, Messages, Behind, Peers
<1>7. PeerInv
  BY SMTT(60), <1>2, <1>4, <1>5, <1>6, VoteGossipAssumption DEF PeerInv
<1>8. Behind(ps, peer) /\ PolBefore(ps)
  BY SMTT(60), <1>1, <1>2, <1>4 DEF Behind, PolBefore
<1> QED BY SMTT(60), <1>1, <1>2, <1>7, <1>8 DEF IInv

LEMMA NextIInv == IInv /\ [Next]_vars => IInv'
<1> SUFFICES ASSUME IInv, [Next]_vars PROVE IInv'
  BY SMTT(60)
<1>1. CASE UNCHANGED vars
  BY <1>1 DEF vars, IInv, PeerInv, Welcome, Sent
<1>2. ASSUME NEW x \in Cast,
             \/ PeerReceivesVote(x) \/ PeerLearnsVote(x) \/ NodeLearnsVote(x)
             \/ NodeReceivesHasVote(x) \/ NodeReceivesVote(x)
      PROVE  IInv'
  BY <1>2, ReceiveVoteStep, LearnVoteStep, NodeLearnStep, HasVoteStep, VoteStep
<1>3. ASSUME NEW r \in Rounds, NEW st \in PeerSteps, PeerMovesOn(r, st) PROVE IInv'
  BY SMTT(60), <1>3, MoveOnStep
<1>4. ASSUME NEW r \in Rounds, PeerFinalizes(r) \/ NodeCommits(r) PROVE IInv'
  BY <1>4, FinalizeStep, CommitStep
<1>5. CASE NodeReceivesBits \/ NodeCommitsMore
  BY <1>5, BitsStep, CommitMoreStep
<1>6. ASSUME NEW m \in stateWire, NodeReceivesState(m) PROVE IInv'
  BY SMTT(60), <1>6, StateStep
<1>7. ASSUME NEW r \in PolRounds, ProposalShared(r) PROVE IInv'
  BY <1>7, ProposalStep
<1>8. ASSUME NEW r \in Rounds, NEW bits \in SUBSET Validators, NodeReceivesPOL(r, bits) PROVE IInv'
  BY <1>8, POLStep
<1>9. ASSUME NEW r \in Rounds, NEW t \in VoteTypes, gossipVotesRoutine(r, t) \/ PeerAnswers(r, t)
      PROVE  IInv'
  BY <1>9, GossipStep, AnswerStep
<1> QED BY <1>1, <1>2, <1>3, <1>4, <1>5, <1>6, <1>7, <1>8, <1>9 DEF Next

LEMMA IInvImplies == IInv => NoVoteForgotten
<1> SUFFICES ASSUME IInv, ps.height = peer.height,
                    peer.height = 2 => peer.step = RoundStepNewHeight,
                    NEW r \in Rounds, NEW t \in VoteTypes, Known(ps, 1, r, t) # Nil
             PROVE  Known(ps, 1, r, t) \subseteq Of(Sent, r, t)
  BY DEF NoVoteForgotten, Sent
<1>1. ps \in PeerStates /\ getVoteBitArray(ps, 1, r, t) # Nil
  BY DEF IInv, Known
<1>2. Known(ps, 1, r, t) = ps.votes[getVoteBitArray(ps, 1, r, t)]
  BY <1>1 DEF Known
<1>3. ps.height = 1 => Sound(ps, Sent)
  BY DEF IInv
<1>4. ps.height = 2 => SoundLast(ps, Sent)
  BY DEF IInv
<1> QED BY SMTT(60), <1>1, <1>2, <1>3, <1>4, ArrayKey DEF Sound, SoundLast, Within

\* A vote that a node's PeerState claims for the peer, and that gossipVotesRoutine
\* therefore never sends again, is with the peer, on its way, or was lost in a
\* failed Send: for every committee, any rounds, votes and announcements.
THEOREM VotesRemembered == Spec => []NoVoteForgotten
<1>1. Init => IInv
  BY InitIInv
<1>2. IInv /\ [Next]_vars => IInv'
  BY NextIInv
<1>3. IInv => NoVoteForgotten
  BY IInvImplies
<1> QED BY <1>1, <1>2, <1>3, PTL DEF Spec
-----------------------------------------------------------------------------
(* The commit reaches the peer.  Besides IInv this needs that the node has heard *)
(* of the peer or is about to, that it holds the majority it committed with, and *)
(* that the peer has votes of rounds it tracks only.                             *)

Heard == ps.height = 0 => stateWire # {}

Committed ==
    node.height # 1 => node.commitRound \in Rounds /\ HasMaj23(held, node.commitRound, "precommit")

Counted == peer.height = 1 => \A x \in has : x.round \in Tracked(peer)

Reach == Heard /\ Committed /\ Counted

LEMMA WriteHeight ==
    ASSUME NEW p \in PeerStates, NEW a, NEW bits
    PROVE  Write(p, a, bits).height = p.height
  BY DEF Write, PeerStates

LEMMA SetHasVoteHeight ==
    ASSUME NEW p \in PeerStates, NEW r, NEW t, NEW v
    PROVE  setHasVote(p, 1, r, t, v).height = p.height
  BY WriteHeight DEF setHasVote

\* The methods of PeerState other than ApplyNewRoundStepMessage keep the height.
LEMMA RecordsKeepHeight ==
    ASSUME IInv,
           \/ \E x \in Cast : NodeReceivesHasVote(x) \/ NodeReceivesVote(x)
           \/ \E r \in PolRounds : ProposalShared(r)
           \/ \E r \in Rounds, bits \in SUBSET Validators : NodeReceivesPOL(r, bits)
           \/ \E r \in Rounds, t \in VoteTypes : gossipVotesRoutine(r, t)
           \/ NodeReceivesBits
    PROVE  ps'.height = ps.height
<1>0. ps \in PeerStates
  BY Types
<1>1. ASSUME NEW x \in Cast, NodeReceivesHasVote(x) PROVE ps'.height = ps.height
  <2>1. setHasVote(ps, 1, x.round, x.type, x.val).height = ps.height
    BY SMTT(60), <1>0, SetHasVoteHeight
  <2>2. ps' = ps \/ ps' = setHasVote(ps, 1, x.round, x.type, x.val)
    BY <1>1 DEF NodeReceivesHasVote, ApplyHasVoteMessage
  <2> QED BY <2>1, <2>2
<1>2. ASSUME NEW x \in Cast, NodeReceivesVote(x) PROVE ps'.height = ps.height
  <2>1. PICK p \in {ps, Ensured(ps, node.height)} : ps' = setHasVote(p, 1, x.round, x.type, x.val)
    BY <1>2 DEF NodeReceivesVote
  <2>2. Keeps(p, ps, Sent)
    BY <1>0, <2>1, EnsuredKeeps, KeepsItself
  <2>3. p \in PeerStates /\ p.height = ps.height
    BY <2>2 DEF Keeps
  <2>4. setHasVote(p, 1, x.round, x.type, x.val).height = p.height
    BY SMTT(60), <2>3, SetHasVoteHeight
  <2> QED BY <2>1, <2>3, <2>4
<1>3. ASSUME NEW r \in PolRounds, ProposalShared(r) PROVE ps'.height = ps.height
  BY <1>0, <1>3 DEF ProposalShared, SetHasProposal, PeerStates
<1>4. ASSUME NEW r \in Rounds, NEW bits \in SUBSET Validators, NodeReceivesPOL(r, bits)
      PROVE  ps'.height = ps.height
  BY <1>0, <1>4 DEF NodeReceivesPOL, ApplyProposalPOLMessage, PeerStates
<1>5. ASSUME NEW r \in Rounds, NEW t \in VoteTypes, gossipVotesRoutine(r, t) PROVE ps'.height = ps.height
  <2> DEFINE p == Prepared(ps, 1, r, t, IsCommit(r, t))
  <2>1. Keeps(p, ps, Sent)
    BY <1>0, PreparedKeeps
  <2>2. p \in PeerStates /\ p.height = ps.height
    BY <2>1 DEF Keeps
  <2>3. ps' = p \/ \E v : ps' = setHasVote(p, 1, r, t, v)
    BY <1>5 DEF gossipVotesRoutine, PickSendVote
  <2> HIDE DEF p
  <2>4. \A v : setHasVote(p, 1, r, t, v).height = p.height
    BY <2>2, SetHasVoteHeight
  <2> QED BY <2>2, <2>3, <2>4
<1>6. CASE NodeReceivesBits
  <2>1. ps' = ps \/ \E a, bits : ps' = Write(ps, a, bits)
    BY <1>6 DEF NodeReceivesBits, ApplyVoteSetBitsMessage
  <2>2. \A a, bits : Write(ps, a, bits).height = ps.height
    BY <1>0, WriteHeight
  <2> QED BY <2>1, <2>2
<1> QED BY <1>1, <1>2, <1>3, <1>4, <1>5, <1>6

LEMMA ReachUndisturbed ==
    ASSUME Reach, UNCHANGED <<node, held, peer, has, stateWire>>, ps'.height = ps.height
    PROVE  Reach'
  BY DEF Reach, Heard, Committed, Counted

\* The peer opens a round before it counts a vote of it.
LEMMA AddVoteReach ==
    ASSUME IInv, Reach, NEW x \in Cast, AddVote(x), UNCHANGED <<node, held, ps>>
    PROVE  Reach'
<1> DEFINE p == IF x.round \in Tracked(peer) THEN peer ELSE [peer EXCEPT !.catchups = @ \cup {x.round}]
           q == AfterVote(p, has \cup {x}, x)
<1>0. peer \in Peers /\ x.round \in Rounds /\ x.round \in Nat
  BY Types, VoteFields
<1>1. CASE UNCHANGED peerVars
  BY <1>1, ReachUndisturbed DEF peerVars
<1>2. CASE /\ has' = has \cup {x} /\ peer' = IF peer.height = 1 THEN q ELSE peer
           /\ stateWire' = IF NewRoundStep(peer') = NewRoundStep(peer) THEN stateWire
                           ELSE stateWire \cup {NewRoundStep(peer')}
  <2>1. Advances(peer, peer)
    BY SMTT(60), <1>0 DEF Advances, Peers
  <2>2. p \in Peers /\ Advances(p, peer)
    BY <1>0, <2>1 DEF Advances, Peers
  <2>3. x.round \in Tracked(p)
    BY <1>0 DEF Tracked, Peers
  <2> HIDE DEF p
  <2>4. Advances(q, p)
    BY <1>0, <2>2, AfterVoteAdvances
  <2> HIDE DEF q
  <2>5. Tracked(peer) \subseteq Tracked(p) /\ Tracked(p) \subseteq Tracked(q)
    BY <1>0, <2>2, <2>4, AdvancesTracked
  <2>6. q.height = peer.height
    BY <2>2, <2>4 DEF Advances
  <2>7. Counted'
    BY <1>2, <2>3, <2>5, <2>6 DEF Reach, Counted
  <2>8. Heard' /\ Committed'
    BY <1>2 DEF Reach, Heard, Committed
  <2> QED BY <2>7, <2>8 DEF Reach
<1> QED BY <1>1, <1>2 DEF AddVote

LEMMA MoveOnReach ==
    ASSUME IInv, Reach, NEW r \in Rounds, NEW st \in PeerSteps, PeerMovesOn(r, st)
    PROVE  Reach'
<1>0. peer \in Peers /\ r \in Nat /\ st \in Nat /\ st > RoundStepNewHeight
  BY VoteGossipAssumption, Types
<1>1. peer' = Enter(peer, r, st) /\ UNCHANGED <<node, held, ps, has>> /\ stateWire \subseteq stateWire'
  BY DEF PeerMovesOn
<1>2. Advances(peer', peer)
  BY <1>0, <1>1, EnterAdvances
<1>3. Tracked(peer) \subseteq Tracked(peer') /\ peer'.height = peer.height
  BY <1>0, <1>2, AdvancesTracked DEF Advances
<1> QED BY <1>1, <1>3 DEF Reach, Heard, Committed, Counted

\* The first announcement that arrives tells the height of the peer.
LEMMA StateReach ==
    ASSUME IInv, Reach, NEW m \in stateWire, NodeReceivesState(m)
    PROVE  Reach'
<1>1. /\ ps' = ApplyNewRoundStepMessage(ps, m) /\ UNCHANGED <<node, held, peer, has>>
      /\ ps \in PeerStates /\ m \in Messages
  BY DEF NodeReceivesState, IInv, PeerInv
<1>2. ps'.height # 0
  <2>1. CASE ~ Later(m.height, m.round, m.step, ps.height, ps.round, ps.step)
    <3>1. ps' = ps
      BY <1>1, <2>1 DEF ApplyNewRoundStepMessage
    <3>2. ps.height # 0
      BY SMTT(60), <1>1, <2>1 DEF Later, Messages
    <3> QED BY <3>1, <3>2
  <2>2. CASE Later(m.height, m.round, m.step, ps.height, ps.round, ps.step)
    <3>1. ps'.height = m.height
      BY <1>1, <2>2 DEF ApplyNewRoundStepMessage
    <3> QED BY SMTT(60), <1>1, <3>1 DEF Messages
  <2> QED BY <2>1, <2>2
<1> QED BY <1>1, <1>2 DEF Reach, Heard, Committed, Counted

\* From its commit on the node takes no vote of the height.
LEMMA HoldReach ==
    ASSUME IInv, Reach, NEW x \in Cast, NodeLearnsVote(x) \/ NodeReceivesVote(x)
    PROVE  Reach'
<1>1. UNCHANGED <<node, peer, has, stateWire>> /\ (node.height # 1 => held' = held)
  BY DEF NodeLearnsVote, NodeReceivesVote, peerVars
<1>2. ps'.height = ps.height
  BY RecordsKeepHeight DEF NodeLearnsVote
<1> QED BY <1>1, <1>2 DEF Reach, Heard, Committed, Counted

LEMMA CommitReach ==
    ASSUME Reach, IInv, (\E r \in Rounds : NodeCommits(r)) \/ NodeCommitsMore
    PROVE  Reach'
<1>1. UNCHANGED <<held, ps, peer, has, stateWire>>
  BY DEF NodeCommits, NodeCommitsMore, peerVars
<1>2. Committed'
  <2>1. ASSUME NEW r \in Rounds, NodeCommits(r) PROVE Committed'
    <3>1. node'.commitRound = r /\ HasMaj23(held, r, "precommit") /\ held' = held
      BY <2>1 DEF NodeCommits
    <3> QED BY <3>1 DEF Committed
  <2>2. CASE NodeCommitsMore
    <3>1. node.height # 1 /\ node = [height |-> node.height, commitRound |-> node.commitRound]
      BY SMTT(60), <2>2 DEF NodeCommitsMore, IInv, PeerInv
    <3>2. node'.commitRound = node.commitRound
      BY <2>2, <3>1 DEF NodeCommitsMore
    <3> QED BY <1>1, <3>1, <3>2 DEF Reach, Committed
  <2> QED BY <2>1, <2>2
<1> QED BY <1>1, <1>2 DEF Reach, Heard, Counted

LEMMA InitReach == Init => Reach
<1> SUFFICES ASSUME Init PROVE Reach
  OBVIOUS
<1>1. node.height = 1 /\ has = {} /\ stateWire # {}
  BY DEF Init
<1> QED BY <1>1 DEF Reach, Heard, Committed, Counted

LEMMA NextReach == IInv /\ Reach /\ [Next]_vars => Reach'
<1> SUFFICES ASSUME IInv, Reach, [Next]_vars PROVE Reach'
  OBVIOUS
<1>1. CASE UNCHANGED vars
  BY <1>1, ReachUndisturbed DEF vars
<1>2. ASSUME NEW x \in Cast, PeerReceivesVote(x) \/ PeerLearnsVote(x) PROVE Reach'
  BY <1>2, AddVoteReach DEF PeerReceivesVote, PeerLearnsVote
<1>3. ASSUME NEW x \in Cast, NodeLearnsVote(x) \/ NodeReceivesVote(x) PROVE Reach'
  BY <1>3, HoldReach
<1>4. ASSUME NEW x \in Cast, NodeReceivesHasVote(x) PROVE Reach'
  BY <1>4, RecordsKeepHeight, ReachUndisturbed DEF NodeReceivesHasVote, peerVars
<1>5. ASSUME NEW r \in Rounds, NEW st \in PeerSteps, PeerMovesOn(r, st) PROVE Reach'
  BY <1>5, MoveOnReach
<1>6. ASSUME NEW r \in Rounds, PeerFinalizes(r) PROVE Reach'
  BY SMTT(60), <1>6 DEF PeerFinalizes, Reach, Heard, Committed, Counted
<1>7. CASE (\E r \in Rounds : NodeCommits(r)) \/ NodeCommitsMore
  BY <1>7, CommitReach
<1>8. CASE NodeReceivesBits
  BY <1>8, RecordsKeepHeight, ReachUndisturbed DEF NodeReceivesBits, peerVars
<1>9. ASSUME NEW m \in stateWire, NodeReceivesState(m) PROVE Reach'
  BY <1>9, StateReach
<1>10. ASSUME NEW r \in PolRounds, ProposalShared(r) PROVE Reach'
  BY <1>10, RecordsKeepHeight, ReachUndisturbed DEF ProposalShared, peerVars
<1>11. ASSUME NEW r \in Rounds, NEW bits \in SUBSET Validators, NodeReceivesPOL(r, bits) PROVE Reach'
  BY <1>11, RecordsKeepHeight, ReachUndisturbed DEF NodeReceivesPOL, peerVars
<1>12. ASSUME NEW r \in Rounds, NEW t \in VoteTypes, gossipVotesRoutine(r, t) PROVE Reach'
  BY <1>12, RecordsKeepHeight, ReachUndisturbed DEF gossipVotesRoutine, peerVars
<1>13. ASSUME NEW r \in Rounds, NEW t \in VoteTypes, PeerAnswers(r, t) PROVE Reach'
  BY <1>13, ReachUndisturbed DEF PeerAnswers, peerVars
<1> QED BY <1>1, <1>2, <1>3, <1>4, <1>5, <1>6, <1>7, <1>8, <1>9, <1>10, <1>11, <1>12, <1>13 DEF Next

\* More votes for the block are no less a majority.
LEMMA MajorityMonotone ==
    ASSUME NEW V, NEW W, NEW r, NEW t, Of(V, r, t) \cap ForBlock \subseteq Of(W, r, t), HasMaj23(V, r, t)
    PROVE  HasMaj23(W, r, t)
<1> DEFINE A == Of(V, r, t) \cap ForBlock
           B == Of(W, r, t) \cap ForBlock
<1>1. A \subseteq B /\ B \subseteq Validators /\ IsFiniteSet(Validators)
  BY VoteGossipAssumption
<1> HIDE DEF A, B
<1>2. IsFiniteSet(B) /\ IsFiniteSet(A) /\ Cardinality(A) <= Cardinality(B)
  BY <1>1, FS_Subset
<1>3. Cardinality(A) \in Nat /\ Cardinality(B) \in Nat /\ Cardinality(Validators) \in Nat
  BY <1>1, <1>2, FS_CardinalityType
<1>4. Cardinality(A) > (Cardinality(Validators) * 2) \div 3
  BY DEF HasMaj23, A
<1>5. Cardinality(B) > (Cardinality(Validators) * 2) \div 3
  BY SMTT(60), <1>2, <1>3, <1>4
<1> QED BY <1>5 DEF HasMaj23, B

\* Of a round that is committed, the routine has set up the arrays.
LEMMA PreparedCommit ==
    ASSUME NEW p \in PeerStates, NEW r \in Rounds, p.height = 1,
           Prepared(p, 1, r, "precommit", TRUE) = p
    PROVE  p.catchupRound = r /\ getVoteBitArray(p, 1, r, "precommit") # Nil
           /\ Known(p, 1, r, "precommit") # Nil
<1> DEFINE q == ensureCatchupCommitRound(p, 1, r)
<1>1. Keeps(q, p, {})
  BY EnsureCatchupKeeps
<1>2. q \in PeerStates /\ q.height = 1
  BY <1>1 DEF Keeps
<1>3. q.catchupRound = r
  BY DEF ensureCatchupCommitRound, PeerStates
<1>4. p = ensureVoteBitArrays(q, 1)
  BY DEF Prepared
<1> HIDE DEF q
<1>5. p.catchupRound = r
  BY <1>2, <1>3, <1>4 DEF ensureVoteBitArrays, PeerStates
<1>6. \A a \in {"precommits", "catchup"} : p.votes[a] # Nil
  <2> SUFFICES ASSUME NEW a \in {"precommits", "catchup"} PROVE p.votes[a] # Nil
    OBVIOUS
  <2>1. a \in Arrays \ {"lastCommit"}
    BY DEF Arrays
  <2>2. p.votes[a] = IF q.votes[a] = Nil THEN {} ELSE q.votes[a]
    BY <1>2, <1>4, <2>1 DEF ensureVoteBitArrays, PeerStates
  <2>3. {} # Nil
    BY VoteGossipAssumption
  <2> QED BY <2>2, <2>3
<1>7. getVoteBitArray(p, 1, r, "precommit") \in {"precommits", "catchup"}
  BY <1>5 DEF getVoteBitArray
<1>8. Nil \notin {"precommits", "catchup"}
  BY VoteGossipAssumption DEF Arrays
<1> QED BY <1>5, <1>6, <1>7, <1>8 DEF Known

LEMMA ReachImplies == IInv /\ Reach => CommitReachesPeer
<1> DEFINE cr == node.commitRound
           known == Known(ps, 1, cr, "precommit")
<1> SUFFICES ASSUME IInv, Reach, Quiet, Stored, peer.height = 1
             PROVE  \/ HasMaj23(has, cr, "precommit")
                    \/ Of(held, cr, "precommit") \subseteq Of(lost, cr, "precommit")
  BY DEF CommitReachesPeer
<1>1. /\ ps \in PeerStates /\ node.height # 1 /\ cr \in Rounds
      /\ HasMaj23(held, cr, "precommit") /\ "precommit" \in VoteTypes
  BY SMTT(60) DEF Stored, IInv, Reach, Committed, VoteTypes
<1>2. ps.height = 1
  <2>1. ps.height # 0
    BY DEF Quiet, Reach, Heard
  <2> QED BY SMTT(60), <1>1, <2>1 DEF IInv, Behind, PeerStates
<1>3. MayServe(cr, "precommit") /\ IsCommit(cr, "precommit") = TRUE
  BY <1>1, <1>2 DEF MayServe, IsCommit, HasMaj23
<1>4. /\ Prepared(ps, 1, cr, "precommit", TRUE) = ps
      /\ Candidates(ps, 1, cr, "precommit", Of(held, cr, "precommit")) = {}
  BY <1>1, <1>3 DEF Quiet
<1>5. ps.catchupRound = cr /\ getVoteBitArray(ps, 1, cr, "precommit") # Nil /\ known # Nil
  BY <1>1, <1>2, <1>4, PreparedCommit
<1>6. Of(held, cr, "precommit") \subseteq known
  BY <1>4, <1>5 DEF Candidates
<1>7. CASE cr \in Tracked(peer)
  <2> DEFINE a == getVoteBitArray(ps, 1, cr, "precommit")
             bits == Of(has, cr, "precommit") \cap ForBlock
  <2>1. MayQuery(cr, "precommit")
    <3>1. cr # NoRound
      BY SMTT(60), <1>1, VoteGossipAssumption DEF NoRound
    <3> QED BY <1>1, <1>2, <1>5, <3>1 DEF MayQuery
  <2>2. ps = ApplyVoteSetBitsMessage(ps, 1, cr, "precommit", bits, Nil)
    BY <1>1, <1>7, <2>1 DEF Quiet
  <2>3. bits # Nil
    <3>1. bits \subseteq Validators
      BY VoteGossipAssumption
    <3> QED BY <3>1, VoteGossipAssumption
  <2>4. ps = Write(ps, a, bits)
    BY <1>5, <2>2, <2>3 DEF ApplyVoteSetBitsMessage
  <2>5. a \in Arrays
    BY <1>5, KeyOfArray
  <2> HIDE DEF a, bits
  <2>6. Write(ps, a, bits).votes[a] = bits
    BY <1>1, <2>5 DEF Write, PeerStates
  <2>7. known = bits
    BY <1>5, <2>4, <2>6 DEF Known, a
  <2>8. Of(held, cr, "precommit") \cap ForBlock \subseteq Of(has, cr, "precommit")
    BY <1>6, <2>7 DEF bits
  <2> QED BY <1>1, <2>8, MajorityMonotone
<1>8. CASE cr \notin Tracked(peer)
  <2>1. known \subseteq Of(has \cup voteWire \cup lost, cr, "precommit")
    <3>1. NoVoteForgotten
      BY IInvImplies
    <3>2. ps.height = peer.height /\ peer.height # 2
      BY SMTT(60), <1>2
    <3> QED BY <1>1, <1>5, <3>1, <3>2 DEF NoVoteForgotten
  <2>2. voteWire = {} /\ \A x \in has : x.round # cr
    BY <1>8 DEF Quiet, Reach, Counted
  <2>3. Of(has \cup voteWire \cup lost, cr, "precommit") \subseteq Of(lost, cr, "precommit")
    BY <2>2 DEF Of
  <2> QED BY <1>6, <2>1, <2>3
<1> QED BY <1>7, <1>8

\* gossipVotesRoutine and queryMaj23Routine do not come to rest before a peer that
\* is behind has the majority of precommits the node committed with, whatever a
\* failed Send lost; unless all of it was lost, and the peer does not track the
\* round.
THEOREM CommitDelivered == Spec => []CommitReachesPeer
<1>1. Init => IInv /\ Reach
  BY InitIInv, InitReach
<1>2. IInv /\ Reach /\ [Next]_vars => (IInv /\ Reach)'
  BY NextIInv, NextReach
<1>3. IInv /\ Reach => CommitReachesPeer
  BY ReachImplies
<1> QED BY <1>1, <1>2, <1>3, PTL DEF Spec

\* Heights and rounds stay within their bounds, the sets of votes within those
\* that were cast, and a peer grants the node at most two catch-up rounds.
THEOREM TypeCorrect == Spec => []TypeOK
<1>1. Init => IInv
  BY InitIInv
<1>2. IInv /\ [Next]_vars => IInv'
  BY NextIInv
<1>3. IInv => TypeOK
  <2> SUFFICES ASSUME IInv PROVE TypeOK
    OBVIOUS
  <2>1. /\ node.height \in 1 .. MaxNodeHeight /\ peer.height \in {1, 2}
        /\ ps.height \in {0, 1, 2} /\ ps.catchupRound \in Rounds \cup {NoRound}
        /\ held \subseteq Cast /\ has \subseteq Cast /\ voteWire \subseteq Cast /\ lost \subseteq Cast
        /\ \A a \in Arrays : ps.votes[a] \in Bits
    BY DEF IInv, PeerInv, PeerStates, Peers
  <2>2. Cardinality(peer.catchups) <= MaxCatchupRounds
    <3>1. IsFiniteSet({node.commitRound}) /\ Cardinality({node.commitRound}) = 1
      BY FS_Singleton
    <3>2. Cardinality(peer.catchups) \in Nat /\ Cardinality(peer.catchups) <= 1
      BY SMTT(60), <3>1, Types, FS_Subset, FS_CardinalityType
    <3> QED BY SMTT(60), <3>2 DEF MaxCatchupRounds
  <2>3. peer.height \in 1 .. 2 /\ ps.height \in 0 .. 2
    BY SMTT(60), <2>1
  <2> QED BY <2>1, <2>2, <2>3 DEF TypeOK, Bits
<1> QED BY <1>1, <1>2, <1>3, PTL DEF Spec
=============================================================================
