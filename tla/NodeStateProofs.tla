-------------------------- MODULE NodeStateProofs --------------------------
(***************************************************************************)
(* What the functions of state.go that enter rounds and steps, cast votes, *)
(* set the timer and commit preserve of the state of a node.  Each lemma   *)
(* is about one function, and about a state as the function meets it, in   *)
(* the middle of a handler.                                                *)
(***************************************************************************)
EXTENDS ConsensusState, WellFoundedInduction, TLAPS

\* A leaf that names no prover is Zenon's.
USE ZenonT(60)

Fields ==
    {"height", "round", "step", "proposal", "block", "parts",
     "lockedRound", "lockedBlock", "lockedParts",
     "validRound", "validBlock", "validParts", "commitRound", "lastCommit",
     "prevotes", "precommits", "hvsRound", "timer", "tocks", "own",
     "priv", "cast", "past", "member", "chain", "saved", "updates", "synced", "panic"}

\* The fields that the invariant does not mention.
Others == {"timer", "tocks", "lastCommit", "past", "member", "saved", "synced"}

\* t differs from s in the fields F at most.
Frame(s, t, F) == DOMAIN t = Fields /\ \A f \in Fields \ F : t[f] = s[f]

\* What a vote is counted for.
For(v) == IF v = NoVote THEN NoVote ELSE IF v.result # "agree" THEN NoVote ELSE v.hash

CastVotes == [hash : Values, parts : Values, result : {"agree", "against"}]

VoteSteps == {stepPrevote, stepPrecommit}

\* Where the node is.
Placed(s) ==
    /\ DOMAIN s = Fields
    /\ s.height \in Nat /\ s.updates \in Nat /\ s.chain \in Nat /\ s.height <= s.chain + 1
    /\ s.round \in Nat /\ s.step \in 1 .. 8
    /\ s.step = 1 => s.hvsRound = 0
    /\ s.hvsRound = s.round + 1 \/ (s.hvsRound = 0 /\ s.round = 0)
    /\ s.panic \in {"none", "finalizeCommit"}

\* A proposal of this node, with all its parts.
Proposals ==
    [sent : {"proposal", "parts"}, round : Nat, block : Values,
     pol : {NoRound} \cup Rounds, whole : {TRUE}]

\* What it was told.
Heard(s) ==
    /\ s.prevotes \in [Rounds -> Tally] /\ s.precommits \in [Rounds -> Tally]
    /\ s.commitRound # NoRound => s.commitRound \in Rounds /\ s.precommits[s.commitRound] \in Values
    /\ s.parts = Nil \/ s.parts \in [of : Values, complete : {"no", "yes"}]
    /\ s.block \in Values
    /\ s.own = Nil \/ s.own \in Proposals

\* A lock or a valid block rests on a polka, and its parts are complete.
Locked(s, W) ==
    /\ s.lockedBlock \in Values /\ s.lockedRound \in Nat /\ s.lockedRound <= s.round
    /\ s.lockedBlock = Nil => s.lockedParts = Nil
    /\ s.lockedBlock # Nil =>
         /\ s.lockedRound \in Rounds /\ s.prevotes[s.lockedRound] = s.lockedBlock
         /\ s.lockedParts = MadePartSet(s.lockedBlock)
         /\ StableVerdicts => W[s.lockedBlock] = "agree"

Valid(s) ==
    /\ s.validBlock \in Values /\ s.validRound \in Nat /\ s.validRound <= s.round
    /\ s.validBlock # Nil =>
         /\ s.validRound \in Rounds /\ s.prevotes[s.validRound] = s.validBlock
         /\ s.validParts = MadePartSet(s.validBlock)

\* The block of this round's polka, which is the valid block.
Fetched(s) ==
    /\ s.step >= 6 /\ s.round \in Rounds
    /\ s.prevotes[s.round] = s.block /\ s.validRound = s.round

\* The parts of the block are there, unless a late proposal replaced them.
BlockThere(s) ==
    /\ s.block # Nil => s.parts = MadePartSet(s.block) \/ Fetched(s)
    /\ s.proposal = Nil /\ s.block # Nil => s.step = 8 \/ Fetched(s)
    /\ s.proposal = Nil /\ s.parts # Nil =>
         s.step = 8 \/ (s.step >= 6 /\ s.round \in Rounds /\ s.prevotes[s.round] = s.parts.of)

\* The private validator knows the last vote.
Signed(s) ==
    /\ s.priv \in [round : Nat, step : 0 .. 3] /\ s.priv.round <= s.round
    /\ s.priv.round = s.round =>
         /\ s.priv.step = 1 => s.step >= 3
         /\ s.priv.step = 2 => s.step >= 4
         /\ s.priv.step = 3 => s.step >= 6
    /\ s.cast \in [VoteSteps -> [Rounds -> CastVotes \cup {NoVote}]]
    /\ \A st \in VoteSteps, r \in Rounds :
         s.cast[st][r] # NoVote =>
           /\ ~ later(r, st, s.priv.round, s.priv.step)
           /\ s.cast[st][r].hash = s.cast[st][r].parts

\* A polka for something other than b, after round q and before round r.
PolkaBetween(s, q, r, b) ==
    \E p \in Rounds : q < p /\ p < r /\ s.prevotes[p] \in Values \ {b}

\* A precommit for a block has its polka, and the node is still locked on the
\* block or has seen a later polka for something else.
Precommits(s) ==
    \A q \in Rounds, b \in Blocks : For(s.cast[stepPrecommit][q]) = b =>
      /\ s.prevotes[q] = b
      /\ (s.lockedBlock = b /\ q <= s.lockedRound) \/ PolkaBetween(s, q, s.round + 1, b)

\* A prevote against a precommit followed such a polka.
Prevotes(s) ==
    StableVerdicts =>
      \A q, r \in Rounds, b \in Blocks, v \in Values :
        b # v /\ q < r /\ For(s.cast[stepPrevote][r]) = v /\ For(s.cast[stepPrecommit][q]) = b
          => PolkaBetween(s, q, r, b)

Good(s, W) ==
    /\ Placed(s) /\ Heard(s) /\ Locked(s, W) /\ Valid(s)
    /\ BlockThere(s) /\ Signed(s) /\ Precommits(s) /\ Prevotes(s)

\* Votes are added in the rounds that were passed only, and once.
NewVotes(s, t) ==
    \A st \in VoteSteps, r \in Rounds :
      t.cast[st][r] # s.cast[st][r] =>
        /\ s.cast[st][r] = NoVote
        /\ s.round <= r /\ r <= t.round
        /\ st = stepPrevote => s.cast[stepPrecommit][r] = NoVote

\* A new timeout is not for a later round.
NewTocks(s, t) == \A k \in t.tocks : k \in s.tocks \/ (k.round \in Nat /\ k.round <= t.round)

Ahead(s, t) == ~ later(s.round, s.step, t.round, t.step)

\* What a function does within a height, to a state in which the invariant holds.
Move(s, t, W) ==
    /\ Good(t, W)
    /\ t.height = s.height /\ t.updates = s.updates
    /\ t.prevotes = s.prevotes /\ t.precommits = s.precommits
    /\ Ahead(s, t) /\ NewVotes(s, t) /\ NewTocks(s, t)

\* No polka is known of a later round, or of a round the node may prevote in.
PolkasPassed(s) ==
    \A p \in Rounds : s.prevotes[p] \in Values =>
      p < s.round \/ (p = s.round /\ (s.step >= 6 \/ s.round = 0))

TocksPassed(s) == \A k \in s.tocks : k.round \in Nat /\ k.round <= s.round
-----------------------------------------------------------------------------
(* Facts about the definitions.                                              *)

\* A majority is final, and a tally without votes is none.
LEMMA MajorityStays ==
    ASSUME NEW x \in Tally, NEW y \in Later(x)
    PROVE  y \in Tally /\ (x \in Values => y = x)
BY SMTT(60), NodeAssumption DEF Later, Rank, Tally

LEMMA MajorityIsAny == \A t \in Values : HasTwoThirdsAny(t)
BY NodeAssumption DEF HasTwoThirdsAny

\* Each part of the invariant reads a few fields only.
LEMMA KeepPlaced ==
    ASSUME NEW s, NEW t, NEW F, Placed(s), Frame(s, t, F),
           F \cap {"height", "updates", "chain", "round", "step", "hvsRound", "panic"} = {}
    PROVE  Placed(t)
<1>1. /\ t.height = s.height /\ t.updates = s.updates /\ t.chain = s.chain
      /\ t.round = s.round /\ t.step = s.step /\ t.hvsRound = s.hvsRound /\ t.panic = s.panic
      /\ DOMAIN t = Fields
  BY DEF Frame, Fields
<1> QED BY <1>1 DEF Placed

LEMMA KeepHeard ==
    ASSUME NEW s, NEW t, NEW F, Heard(s), Frame(s, t, F),
           F \cap {"prevotes", "precommits", "commitRound", "parts", "block", "own"} = {}
    PROVE  Heard(t)
<1>1. /\ t.prevotes = s.prevotes /\ t.precommits = s.precommits
      /\ t.commitRound = s.commitRound /\ t.parts = s.parts /\ t.block = s.block
      /\ t.own = s.own
  BY DEF Frame, Fields
<1> QED BY <1>1 DEF Heard

LEMMA KeepLocked ==
    ASSUME NEW s, NEW t, NEW F, NEW W, Locked(s, W), Frame(s, t, F),
           F \cap {"lockedBlock", "lockedRound", "lockedParts", "prevotes"} = {},
           s.round \in Nat, t.round \in Nat, s.round <= t.round
    PROVE  Locked(t, W)
<1>1. /\ t.lockedBlock = s.lockedBlock /\ t.lockedRound = s.lockedRound
      /\ t.lockedParts = s.lockedParts /\ t.prevotes = s.prevotes
  BY DEF Frame, Fields
<1>2. s.lockedRound \in Nat /\ s.lockedRound <= s.round
  BY DEF Locked
<1>3. s.lockedRound <= t.round
  BY SMTT(60), <1>2
<1> QED BY <1>1, <1>3 DEF Locked

LEMMA KeepValid ==
    ASSUME NEW s, NEW t, NEW F, Valid(s), Frame(s, t, F),
           F \cap {"validBlock", "validRound", "validParts", "prevotes"} = {},
           s.round \in Nat, t.round \in Nat, s.round <= t.round
    PROVE  Valid(t)
<1>1. /\ t.validBlock = s.validBlock /\ t.validRound = s.validRound
      /\ t.validParts = s.validParts /\ t.prevotes = s.prevotes
  BY DEF Frame, Fields
<1>2. s.validRound \in Nat /\ s.validRound <= s.round
  BY DEF Valid
<1>3. s.validRound <= t.round
  BY SMTT(60), <1>2
<1> QED BY <1>1, <1>3 DEF Valid

LEMMA KeepBlock ==
    ASSUME NEW s, NEW t, NEW F, BlockThere(s), Frame(s, t, F),
           F \cap {"block", "parts", "proposal", "prevotes", "validRound", "round"} = {},
           s.step \in 1 .. 8, t.step \in 1 .. 8, s.step <= t.step
    PROVE  BlockThere(t)
<1>1. /\ t.block = s.block /\ t.parts = s.parts /\ t.proposal = s.proposal
      /\ t.prevotes = s.prevotes /\ t.validRound = s.validRound /\ t.round = s.round
  BY DEF Frame, Fields
<1>2. s.step >= 6 => t.step >= 6
  BY SMTT(60)
<1>3. s.step = 8 => t.step = 8
  BY SMTT(60)
<1>4. Fetched(s) => Fetched(t)
  BY <1>1, <1>2 DEF Fetched
<1> QED BY <1>1, <1>2, <1>3, <1>4 DEF BlockThere

LEMMA KeepSigned ==
    ASSUME NEW s, NEW t, NEW F, Signed(s), Frame(s, t, F),
           F \cap {"priv", "cast"} = {},
           s.round \in Nat, t.round \in Nat, s.step \in 1 .. 8, t.step \in 1 .. 8,
           Ahead(s, t)
    PROVE  Signed(t)
<1>1. t.priv = s.priv /\ t.cast = s.cast
  BY DEF Frame, Fields
<1>2. s.priv.round \in Nat /\ s.priv.round <= s.round
  BY DEF Signed
<1>3. s.priv.round <= t.round
  BY SMTT(60), <1>2 DEF Ahead, later
<1>4. s.priv.round = t.round => s.priv.round = s.round /\ s.step <= t.step
  BY SMTT(60), <1>2 DEF Ahead, later
<1> QED BY SMTT(60), <1>1, <1>3, <1>4 DEF Signed

LEMMA KeepVotes ==
    ASSUME NEW s, NEW t, NEW F, Precommits(s), Prevotes(s), Frame(s, t, F),
           F \cap {"cast", "prevotes", "lockedBlock", "lockedRound"} = {},
           s.round \in Nat, t.round \in Nat, s.round <= t.round
    PROVE  Precommits(t) /\ Prevotes(t)
<1>1. /\ t.cast = s.cast /\ t.prevotes = s.prevotes
      /\ t.lockedBlock = s.lockedBlock /\ t.lockedRound = s.lockedRound
  BY DEF Frame, Fields
<1>2. ASSUME NEW q \in Rounds, NEW b, PolkaBetween(s, q, s.round + 1, b)
      PROVE  PolkaBetween(t, q, t.round + 1, b)
  BY SMTT(60), <1>1, <1>2 DEF PolkaBetween, Rounds
<1>3. ASSUME NEW q, NEW r, NEW b, PolkaBetween(s, q, r, b)
      PROVE  PolkaBetween(t, q, r, b)
  BY <1>1, <1>3 DEF PolkaBetween
<1>4. Precommits(t)
  BY <1>1, <1>2 DEF Precommits
<1>5. Prevotes(t)
  BY <1>1, <1>3 DEF Prevotes
<1> QED BY <1>4, <1>5

\* A move that casts no vote.
LEMMA QuietMove ==
    ASSUME NEW s, NEW t, NEW W, NEW F, Good(t, W), Frame(s, t, F),
           F \cap {"height", "updates", "prevotes", "precommits", "cast"} = {},
           Ahead(s, t), NewTocks(s, t)
    PROVE  Move(s, t, W)
<1>1. /\ t.height = s.height /\ t.updates = s.updates
      /\ t.prevotes = s.prevotes /\ t.precommits = s.precommits /\ t.cast = s.cast
  BY DEF Frame, Fields
<1>2. NewVotes(s, t)
  BY <1>1 DEF NewVotes
<1> QED BY <1>1, <1>2 DEF Move

LEMMA MoveReflexive ==
    ASSUME NEW s, NEW W, Good(s, W)
    PROVE  Move(s, s, W)
<1>1. s.round \in Nat /\ s.step \in 1 .. 8
  BY DEF Good, Placed
<1>2. Ahead(s, s)
  BY SMTT(60), <1>1 DEF Ahead, later
<1> QED BY <1>2 DEF Move, NewVotes, NewTocks

LEMMA VotesTransitive ==
    ASSUME NEW s, NEW t, NEW u, s.round \in Nat, t.round \in Nat, u.round \in Nat,
           s.round <= t.round, t.round <= u.round, NewVotes(s, t), NewVotes(t, u)
    PROVE  NewVotes(s, u)
<1> SUFFICES ASSUME NEW st \in VoteSteps, NEW r \in Rounds, u.cast[st][r] # s.cast[st][r]
             PROVE  /\ s.cast[st][r] = NoVote
                    /\ s.round <= r /\ r <= u.round
                    /\ st = stepPrevote => s.cast[stepPrecommit][r] = NoVote
  BY DEF NewVotes
<1>0. stepPrecommit \in VoteSteps /\ r \in Int
  BY SMTT(60), VotingAssumption DEF VoteSteps, Rounds
<1>1. CASE t.cast[st][r] # s.cast[st][r]
  <2>1. /\ s.cast[st][r] = NoVote
        /\ s.round <= r /\ r <= t.round
        /\ st = stepPrevote => s.cast[stepPrecommit][r] = NoVote
    BY <1>1 DEF NewVotes
  <2> QED BY SMTT(60), <1>0, <2>1
<1>2. CASE t.cast[st][r] = s.cast[st][r]
  <2>1. /\ t.cast[st][r] = NoVote
        /\ t.round <= r /\ r <= u.round
        /\ st = stepPrevote => t.cast[stepPrecommit][r] = NoVote
    BY <1>2 DEF NewVotes
  <2>2. t.cast[stepPrecommit][r] = NoVote => s.cast[stepPrecommit][r] = NoVote
    BY <1>0 DEF NewVotes
  <2> QED BY SMTT(60), <1>0, <1>2, <2>1, <2>2
<1> QED BY <1>1, <1>2

LEMMA MoveTransitive ==
    ASSUME NEW s, NEW t, NEW u, NEW W, Good(s, W), Move(s, t, W), Move(t, u, W)
    PROVE  Move(s, u, W)
<1>1. /\ s.round \in Nat /\ t.round \in Nat /\ u.round \in Nat
      /\ s.step \in Nat /\ t.step \in Nat /\ u.step \in Nat
  BY SMTT(60) DEF Move, Good, Placed
<1>2. Ahead(s, t) /\ Ahead(t, u)
  BY DEF Move
<1>3. s.round <= t.round /\ t.round <= u.round /\ Ahead(s, u)
  BY SMTT(60), <1>1, <1>2 DEF Ahead, later
<1>4. NewVotes(s, t) /\ NewVotes(t, u) /\ NewTocks(s, t) /\ NewTocks(t, u)
  BY DEF Move
<1>5. NewVotes(s, u)
  BY <1>1, <1>3, <1>4, VotesTransitive
<1>6. NewTocks(s, u)
  BY SMTT(60), <1>1, <1>3, <1>4 DEF NewTocks
<1> QED BY <1>3, <1>5, <1>6 DEF Move

LEMMA MoveKeepsPassed ==
    ASSUME NEW s, NEW t, NEW W, Good(s, W), Move(s, t, W)
    PROVE  /\ PolkasPassed(s) => PolkasPassed(t)
           /\ TocksPassed(s) => TocksPassed(t)
<1>1. /\ s.round \in Nat /\ t.round \in Nat /\ s.step \in Nat /\ t.step \in Nat
      /\ t.prevotes = s.prevotes /\ NewTocks(s, t)
  BY SMTT(60) DEF Move, Good, Placed
<1>2. s.round < t.round \/ (s.round = t.round /\ s.step <= t.step)
  BY SMTT(60), <1>1 DEF Move, Ahead, later
<1>3. PolkasPassed(s) => PolkasPassed(t)
  BY SMTT(60), <1>1, <1>2 DEF PolkasPassed, Rounds
<1>4. TocksPassed(s) => TocksPassed(t)
  BY SMTT(60), <1>1, <1>2 DEF TocksPassed, NewTocks
<1> QED BY <1>3, <1>4

\* A function that changes what the invariant does not mention.
LEMMA OthersMove ==
    ASSUME NEW s, NEW t, NEW W, Good(s, W), Frame(s, t, Others), NewTocks(s, t)
    PROVE  Move(s, t, W)
<1>1. /\ s.round \in Nat /\ s.step \in 1 .. 8 /\ t.round = s.round /\ t.step = s.step
  BY DEF Good, Placed, Frame, Others, Fields
<1>2. Placed(t)
  BY SMTT(60), KeepPlaced DEF Good, Others
<1>3. Heard(t)
  BY SMTT(60), KeepHeard DEF Good, Others
<1>4. Locked(t, W)
  BY SMTT(60), <1>1, KeepLocked DEF Good, Others
<1>5. Valid(t)
  BY SMTT(60), <1>1, KeepValid DEF Good, Others
<1>6. BlockThere(t)
  BY SMTT(60), <1>1, KeepBlock DEF Good, Others
<1>7. Ahead(s, t)
  BY SMTT(60), <1>1 DEF Ahead, later
<1>8. Signed(t)
  BY <1>1, <1>7, KeepSigned DEF Good, Others
<1>9. Precommits(t) /\ Prevotes(t)
  BY SMTT(60), <1>1, KeepVotes DEF Good, Others
<1>10. Good(t, W)
  BY <1>2, <1>3, <1>4, <1>5, <1>6, <1>8, <1>9 DEF Good
<1> QED BY <1>7, <1>10, QuietMove DEF Others

\* scheduleTimeout, for a round that has begun.
LEMMA Schedule ==
    ASSUME NEW s, NEW W, Good(s, W), NEW r \in Nat, r <= s.round, NEW st, NEW w
    PROVE  /\ Move(s, scheduleTimeout(s, r, st, w), W)
           /\ Frame(s, scheduleTimeout(s, r, st, w), {"timer", "tocks"})
<1> DEFINE t == scheduleTimeout(s, r, st, w)
<1>1. DOMAIN s = Fields
  BY DEF Good, Placed
<1>2. Frame(s, t, {"timer", "tocks"})
  BY <1>1 DEF scheduleTimeout, Frame, Fields
<1>3. t.tocks = s.tocks \/ t.tocks = s.tocks \cup {[round |-> r, step |-> st, wait |-> w]}
  BY <1>1 DEF scheduleTimeout, Fields
<1>4. t.round = s.round
  BY <1>2 DEF Frame, Fields
<1>5. NewTocks(s, t)
  BY SMTT(60), <1>3, <1>4 DEF NewTocks
<1>6. Frame(s, t, Others)
  BY <1>2 DEF Frame, Others
<1> QED BY <1>2, <1>5, <1>6, OthersMove

\* The step goes up within the round.
LEMMA RaiseStep ==
    ASSUME NEW s, NEW t, NEW W, Good(s, W), Frame(s, t, {"step"}),
           t.step \in 1 .. 8, s.step <= t.step
    PROVE  Move(s, t, W)
<1>1. /\ s.round \in Nat /\ s.step \in 1 .. 8 /\ t.round = s.round
      /\ s.step = 1 \/ t.step # 1
      /\ t.tocks = s.tocks
  BY SMTT(60) DEF Good, Placed, Frame, Fields
<1>2. Placed(t)
  BY <1>1 DEF Good, Placed, Frame, Fields
<1>3. Heard(t)
  BY KeepHeard DEF Good
<1>4. Locked(t, W)
  BY SMTT(60), <1>1, KeepLocked DEF Good
<1>5. Valid(t)
  BY SMTT(60), <1>1, KeepValid DEF Good
<1>6. BlockThere(t)
  BY <1>1, KeepBlock DEF Good
<1>7. Ahead(s, t)
  BY SMTT(60), <1>1 DEF Ahead, later
<1>8. Signed(t)
  BY <1>1, <1>7, KeepSigned DEF Good
<1>9. Precommits(t) /\ Prevotes(t)
  BY SMTT(60), <1>1, KeepVotes DEF Good
<1>10. Good(t, W)
  BY <1>2, <1>3, <1>4, <1>5, <1>6, <1>8, <1>9 DEF Good
<1>11. NewTocks(s, t)
  BY <1>1 DEF NewTocks
<1> QED BY <1>7, <1>10, <1>11, QuietMove
-----------------------------------------------------------------------------
(* Signing.                                                                  *)

\* signAddVote adds the vote, or the node may not vote.
Signs(s, t, st, v) ==
    /\ Frame(s, t, {"priv", "cast"})
    /\ \/ t.priv = s.priv /\ t.cast = s.cast
       \/ /\ later(s.round, st, s.priv.round, s.priv.step)
          /\ t.priv = [round |-> s.round, step |-> st]
          /\ t.cast = [s.cast EXCEPT ![st] = [s.cast[st] EXCEPT ![s.round] = v]]

\* The step that follows a vote comes to the same when it is entered first.
LEMMA SignAtStep ==
    ASSUME NEW s, DOMAIN s = Fields, s.panic = "none", NEW st, NEW h, NEW p, NEW res, NEW k,
           s.priv.round = s.round => s.priv.step # st
    PROVE  /\ Frame(s, [s EXCEPT !.step = k], {"step"}) /\ [s EXCEPT !.step = k].step = k
           /\ Signs([s EXCEPT !.step = k], atStep(signAddVote(s, st, h, p, res), s.round, k),
                    st, [hash |-> h, parts |-> p, result |-> res])
<1> DEFINE v == [hash |-> h, parts |-> p, result |-> res]
           x == [s EXCEPT !.step = k]
           u == signAddVote(s, st, h, p, res)
           t == atStep(u, s.round, k)
<1>1. Frame(s, x, {"step"}) /\ x.step = k
  BY DEF Frame, Fields
<1>2. ~ sameHRS(s, st)
  BY SMTT(60) DEF sameHRS
<1>3. CASE u = s
  <2>1. t = [s EXCEPT !.round = s.round, !.step = k]
    BY <1>3 DEF atStep
  <2>2. Frame(x, t, {})
    BY SMTT(60), <2>1 DEF Frame, Fields
  <2> QED BY <1>1, <2>2 DEF Signs, Frame, Fields
<1>4. CASE u # s
  <2>1. /\ later(s.round, st, s.priv.round, s.priv.step)
        /\ u = [s EXCEPT !.priv = [round |-> s.round, step |-> st],
                         !.cast[st][s.round] = v]
    BY <1>2, <1>4 DEF signAddVote, checkHRS
  <2>2. /\ Frame(s, u, {"priv", "cast"})
        /\ u.priv = [round |-> s.round, step |-> st]
        /\ u.cast = [s.cast EXCEPT ![st] = [s.cast[st] EXCEPT ![s.round] = v]]
    BY <2>1 DEF Frame, Fields
  <2>3. t = [u EXCEPT !.round = s.round, !.step = k]
    BY <2>2 DEF atStep, Frame, Fields
  <2>4. Frame(u, t, {"round", "step"}) /\ t.round = s.round /\ t.step = k
    BY <2>2, <2>3 DEF Frame, Fields
  <2>5. Frame(x, t, {"priv", "cast"}) /\ t.priv = u.priv /\ t.cast = u.cast
    BY SMTT(60), <1>1, <2>2, <2>4 DEF Frame, Fields
  <2>6. x.round = s.round /\ x.priv = s.priv /\ x.cast = s.cast
    BY <1>1 DEF Frame, Fields
  <2> QED BY <1>1, <2>1, <2>2, <2>5, <2>6 DEF Signs
<1> QED BY <1>3, <1>4

\* A vote that the rules allow keeps the invariant: a precommit for a block
\* with the lock on it, a prevote for the locked block if there is one.
LEMMA SignMove ==
    ASSUME NEW s, NEW t, NEW W, NEW st \in VoteSteps, NEW v \in CastVotes,
           Good(s, W), Signs(s, t, st, v), s.round \in Rounds, v.hash = v.parts,
           s.step >= (IF st = stepPrevote THEN 4 ELSE 6),
           st = stepPrecommit /\ For(v) \in Blocks =>
             s.prevotes[s.round] = For(v) /\ s.lockedBlock = For(v) /\ s.lockedRound = s.round,
           st = stepPrevote /\ StableVerdicts =>
             /\ s.round = 0 \/ s.prevotes[s.round] \notin Values
             /\ s.lockedBlock # Nil => For(v) = s.lockedBlock
    PROVE  Move(s, t, W)
<1> DEFINE r0 == s.round
<1>1. /\ s.round \in Nat /\ s.step \in 1 .. 8 /\ t.round = s.round /\ t.step = s.step
      /\ t.prevotes = s.prevotes /\ t.tocks = s.tocks /\ t.lockedBlock = s.lockedBlock
      /\ t.lockedRound = s.lockedRound /\ t.height = s.height /\ t.updates = s.updates
      /\ t.precommits = s.precommits
  BY DEF Good, Placed, Signs, Frame, Fields
<1>2. Frame(s, t, {"priv", "cast"})
  BY DEF Signs
<1>3. Placed(t) /\ Heard(t)
  BY <1>2, KeepPlaced, KeepHeard DEF Good
<1>4. Locked(t, W) /\ Valid(t) /\ BlockThere(t)
  BY SMTT(60), <1>1, <1>2, KeepLocked, KeepValid, KeepBlock DEF Good
<1>5. CASE t.priv = s.priv /\ t.cast = s.cast
  <2>1. Signed(t) /\ Precommits(t) /\ Prevotes(t)
    BY SMTT(60), <1>1, <1>5 DEF Good, Signed, Precommits, Prevotes, PolkaBetween
  <2>2. Good(t, W)
    BY <1>3, <1>4, <2>1 DEF Good
  <2> QED BY SMTT(60), <1>1, <1>5, <2>2 DEF Move, NewVotes, NewTocks, Ahead, later
<1>6. CASE /\ later(s.round, st, s.priv.round, s.priv.step)
           /\ t.priv = [round |-> s.round, step |-> st]
           /\ t.cast = [s.cast EXCEPT ![st] = [s.cast[st] EXCEPT ![s.round] = v]]
  <2>1. /\ s.cast \in [VoteSteps -> [Rounds -> CastVotes \cup {NoVote}]]
        /\ s.priv.round \in Nat /\ s.priv.step \in 0 .. 3
        /\ \A su \in VoteSteps, r \in Rounds : s.cast[su][r] # NoVote =>
             /\ ~ later(r, su, s.priv.round, s.priv.step)
             /\ s.cast[su][r].hash = s.cast[su][r].parts
    BY DEF Good, Signed
  <2>2. /\ t.cast \in [VoteSteps -> [Rounds -> CastVotes \cup {NoVote}]]
        /\ t.cast[st][s.round] = v
        /\ \A su \in VoteSteps, r \in Rounds :
             su # st \/ r # s.round => t.cast[su][r] = s.cast[su][r]
    BY SMTT(60), <1>6, <2>1
  <2>3. s.priv.round <= s.round
    BY DEF Good, Signed
  <2>4. /\ t.priv \in [round : Nat, step : 0 .. 3] /\ t.priv.round = s.round /\ t.priv.step = st
        /\ st \in Nat
    BY SMTT(60), <1>1, <1>6 DEF VoteSteps, stepPrevote, stepPrecommit
  <2>5. ASSUME NEW su \in VoteSteps, NEW r \in Rounds, s.cast[su][r] # NoVote
        PROVE  /\ ~ later(r, su, s.round, st) /\ r <= s.round
               /\ r = s.round => su < st
    <3>1. su \in Nat /\ r \in Int
      BY SMTT(60), VotingAssumption DEF VoteSteps, stepPrevote, stepPrecommit, Rounds
    <3> QED BY SMTT(60), <1>1, <1>6, <2>1, <2>3, <2>4, <2>5, <3>1 DEF later
  <2>6. Signed(t)
    <3>1. ASSUME NEW su \in VoteSteps, NEW r \in Rounds, t.cast[su][r] # NoVote
          PROVE  ~ later(r, su, t.priv.round, t.priv.step) /\ t.cast[su][r].hash = t.cast[su][r].parts
      <4>1. CASE su = st /\ r = s.round
        BY SMTT(60), <1>1, <2>2, <2>4, <4>1 DEF later
      <4>2. CASE su # st \/ r # s.round
        <5>1. t.cast[su][r] = s.cast[su][r]
          BY <2>2, <4>2
        <5>2. s.cast[su][r] # NoVote
          BY <3>1, <5>1
        <5>3. ~ later(r, su, s.round, st) /\ s.cast[su][r].hash = s.cast[su][r].parts
          BY <2>1, <2>5, <5>2
        <5> QED BY <2>4, <5>1, <5>3
      <4> QED BY <4>1, <4>2
    <3>2. /\ t.priv.step = 1 => t.step >= 3
          /\ t.priv.step = 2 => t.step >= 4
          /\ t.priv.step = 3 => t.step >= 6
      BY SMTT(60), <1>1, <2>4 DEF VoteSteps, stepPrevote, stepPrecommit
    <3>3. t.priv.round <= t.round
      BY SMTT(60), <1>1, <2>4
    <3> QED BY <2>2, <2>4, <3>1, <3>2, <3>3 DEF Signed
  <2>7. ASSUME NEW q \in Rounds, NEW b \in Blocks, For(s.cast[stepPrecommit][q]) = b
        PROVE  /\ s.prevotes[q] = b
               /\ (s.lockedBlock = b /\ q <= s.lockedRound) \/ PolkaBetween(s, q, s.round + 1, b)
    BY <2>7 DEF Good, Precommits
  <2>8. Precommits(t)
    <3> SUFFICES ASSUME NEW q \in Rounds, NEW b \in Blocks, For(t.cast[stepPrecommit][q]) = b
                 PROVE  /\ s.prevotes[q] = b
                        /\ \/ s.lockedBlock = b /\ q <= s.lockedRound
                           \/ PolkaBetween(s, q, s.round + 1, b)
      BY SMTT(60), <1>1 DEF Precommits, PolkaBetween
    <3>1. CASE st = stepPrecommit /\ q = s.round
      BY SMTT(60), <1>1, <2>2, <3>1
    <3>2. CASE ~ (st = stepPrecommit /\ q = s.round)
      <4>1. t.cast[stepPrecommit][q] = s.cast[stepPrecommit][q]
        BY <2>2, <3>2 DEF VoteSteps
      <4> QED BY <4>1, <2>7
    <3> QED BY <3>1, <3>2
  <2>9. Prevotes(t)
    <3> SUFFICES ASSUME StableVerdicts,
                        NEW q \in Rounds, NEW r \in Rounds, NEW b \in Blocks,
                        NEW w \in Values, b # w, q < r,
                        For(t.cast[stepPrevote][r]) = w, For(t.cast[stepPrecommit][q]) = b
                 PROVE  PolkaBetween(s, q, r, b)
      BY SMTT(60), <1>1 DEF Prevotes, PolkaBetween
    <3>0. q \in Nat /\ r \in Nat /\ stepPrevote # stepPrecommit
      BY SMTT(60), VotingAssumption DEF Rounds, stepPrevote, stepPrecommit
    <3>1. CASE st = stepPrevote /\ r = s.round
      <4>1. For(v) = w /\ For(s.cast[stepPrecommit][q]) = b
        BY <2>2, <3>0, <3>1 DEF VoteSteps
      <4>2. ~ (s.lockedBlock = b)
        BY <3>1, <4>1, VotingAssumption
      <4>3. PolkaBetween(s, q, s.round + 1, b)
        BY <2>7, <4>1, <4>2
      <4>4. s.prevotes[s.round] \notin Values
        BY SMTT(60), <3>0, <3>1
      <4> QED BY SMTT(60), <1>1, <3>0, <3>1, <4>3, <4>4 DEF PolkaBetween, Rounds
    <3>2. CASE st = stepPrecommit /\ q = s.round
      <4>1. t.cast[stepPrevote][r] = s.cast[stepPrevote][r]
        BY <2>2, <3>0, <3>2 DEF VoteSteps
      <4>2. s.cast[stepPrevote][r] # NoVote
        BY <4>1, VotingAssumption DEF For, Values
      <4>3. r <= s.round
        BY <2>5, <4>2 DEF VoteSteps
      <4> QED BY SMTT(60), <1>1, <3>0, <3>2, <4>3
    <3>3. CASE ~ (st = stepPrevote /\ r = s.round) /\ ~ (st = stepPrecommit /\ q = s.round)
      <4>1. /\ t.cast[stepPrevote][r] = s.cast[stepPrevote][r]
            /\ t.cast[stepPrecommit][q] = s.cast[stepPrecommit][q]
        BY <2>2, <3>0, <3>3 DEF VoteSteps
      <4> QED BY <4>1 DEF Good, Prevotes
    <3> QED BY <3>1, <3>2, <3>3
  <2>10. NewVotes(s, t)
    <3> SUFFICES ASSUME NEW su \in VoteSteps, NEW r \in Rounds, t.cast[su][r] # s.cast[su][r]
                 PROVE  /\ s.cast[su][r] = NoVote
                        /\ s.round <= r /\ r <= t.round
                        /\ su = stepPrevote => s.cast[stepPrecommit][r] = NoVote
      BY DEF NewVotes
    <3>1. su = st /\ r = s.round
      BY <2>2
    <3>2. s.cast[st][s.round] = NoVote
      BY SMTT(60), <2>4, <2>5
    <3>3. st = stepPrevote => s.cast[stepPrecommit][s.round] = NoVote
      BY SMTT(60), <2>4, <2>5 DEF VoteSteps, stepPrevote, stepPrecommit
    <3> QED BY SMTT(60), <1>1, <3>1, <3>2, <3>3
  <2>11. Good(t, W)
    BY <1>3, <1>4, <2>6, <2>8, <2>9 DEF Good
  <2> QED BY SMTT(60), <1>1, <2>10, <2>11 DEF Move, NewTocks, Ahead, later
<1> QED BY <1>5, <1>6 DEF Signs
-----------------------------------------------------------------------------
(* The lock.                                                                 *)

LockFields == {"lockedRound", "lockedBlock", "lockedParts"}

\* A change of the lock keeps everything but the lock and the reasons of the
\* precommits.
LEMMA RelockMove ==
    ASSUME NEW s, NEW t, NEW W, Good(s, W), Frame(s, t, LockFields),
           Locked(t, W), Precommits(t)
    PROVE  Move(s, t, W)
<1>1. /\ s.round \in Nat /\ s.step \in 1 .. 8 /\ t.round = s.round /\ t.step = s.step
      /\ t.cast = s.cast /\ t.prevotes = s.prevotes /\ t.tocks = s.tocks
  BY DEF Good, Placed, Frame, LockFields, Fields
<1>2. Placed(t) /\ Heard(t)
  BY SMTT(60), KeepPlaced, KeepHeard DEF Good, LockFields
<1>3. Ahead(s, t)
  BY SMTT(60), <1>1 DEF Ahead, later
<1>4. Valid(t) /\ BlockThere(t) /\ Signed(t)
  BY SMTT(60), <1>1, <1>3, KeepValid, KeepBlock, KeepSigned DEF Good, LockFields
<1>5. Prevotes(t)
  BY SMTT(60), <1>1 DEF Good, Prevotes, PolkaBetween
<1>6. Good(t, W)
  BY <1>2, <1>4, <1>5 DEF Good
<1>7. NewTocks(s, t)
  BY <1>1 DEF NewTocks
<1> QED BY <1>3, <1>6, <1>7, QuietMove DEF LockFields

\* A polka for something else, after the lock, unlocks.
LEMMA UnlockMove ==
    ASSUME NEW s, NEW t, NEW W, Good(s, W), Frame(s, t, LockFields),
           t.lockedRound = 0, t.lockedBlock = Nil, t.lockedParts = Nil,
           NEW p \in Rounds, p <= s.round, s.prevotes[p] \in Values,
           s.lockedBlock # Nil => s.lockedRound < p /\ s.prevotes[p] # s.lockedBlock
    PROVE  Move(s, t, W)
<1>1. /\ s.round \in Nat /\ t.round = s.round /\ t.cast = s.cast /\ t.prevotes = s.prevotes
      /\ s.lockedRound \in Nat /\ p \in Nat
  BY SMTT(60), VotingAssumption DEF Good, Placed, Locked, Frame, LockFields, Fields, Rounds
<1>2. Locked(t, W)
  BY SMTT(60), <1>1 DEF Locked, Values
<1>3. Precommits(t)
  <2> SUFFICES ASSUME NEW q \in Rounds, NEW b \in Blocks, For(s.cast[stepPrecommit][q]) = b
               PROVE  s.prevotes[q] = b /\ PolkaBetween(s, q, s.round + 1, b)
    BY SMTT(60), <1>1 DEF Precommits, PolkaBetween
  <2>1. /\ s.prevotes[q] = b
        /\ (s.lockedBlock = b /\ q <= s.lockedRound) \/ PolkaBetween(s, q, s.round + 1, b)
    BY DEF Good, Precommits
  <2>2. CASE s.lockedBlock = b /\ q <= s.lockedRound
    <3>1. q < p /\ p < s.round + 1 /\ s.prevotes[p] \in Values \ {b}
      BY SMTT(60), <1>1, <2>2, VotingAssumption DEF Rounds
    <3> QED BY <2>1, <3>1 DEF PolkaBetween
  <2> QED BY <2>1, <2>2
<1> QED BY <1>2, <1>3, RelockMove

\* The polka of this round locks its block.
LEMMA LockMove ==
    ASSUME NEW s, NEW t, NEW W, Good(s, W), Frame(s, t, LockFields), s.round \in Rounds,
           NEW b \in Blocks, s.prevotes[s.round] = b, StableVerdicts => W[b] = "agree",
           t.lockedRound = s.round, t.lockedBlock = b, t.lockedParts = MadePartSet(b)
    PROVE  Move(s, t, W)
<1>1. /\ s.round \in Nat /\ t.round = s.round /\ t.cast = s.cast /\ t.prevotes = s.prevotes
      /\ s.lockedRound \in Nat /\ s.lockedRound <= s.round
      /\ b \in Values /\ b # Nil
  BY VotingAssumption DEF Good, Placed, Locked, Frame, LockFields, Fields, Values
<1>2. Locked(t, W)
  BY SMTT(60), <1>1 DEF Locked
<1>3. Precommits(t)
  <2> SUFFICES ASSUME NEW q \in Rounds, NEW c \in Blocks, For(s.cast[stepPrecommit][q]) = c
               PROVE  /\ s.prevotes[q] = c
                      /\ (b = c /\ q <= s.round) \/ PolkaBetween(s, q, s.round + 1, c)
    BY SMTT(60), <1>1 DEF Precommits, PolkaBetween
  <2>1. /\ s.prevotes[q] = c
        /\ (s.lockedBlock = c /\ q <= s.lockedRound) \/ PolkaBetween(s, q, s.round + 1, c)
    BY DEF Good, Precommits
  <2>2. CASE s.lockedBlock = c /\ q <= s.lockedRound /\ b # c
    <3>1. s.prevotes[s.lockedRound] = c
      BY <2>2, VotingAssumption DEF Good, Locked
    <3>2. q < s.round /\ s.round < s.round + 1 /\ s.prevotes[s.round] \in Values \ {c}
      BY SMTT(60), <1>1, <2>2, <3>1 DEF Rounds
    <3> QED BY <2>1, <3>2 DEF PolkaBetween
  <2>3. CASE s.lockedBlock = c /\ q <= s.lockedRound /\ b = c
    BY SMTT(60), <1>1, <2>1, <2>3 DEF Rounds
  <2> QED BY <2>1, <2>2, <2>3
<1> QED BY <1>2, <1>3, RelockMove

\* Dropping or completing a part set does not spoil a complete one.
Unspoiled(ps, qs) == (ps = Nil => qs = Nil) /\ \A b : ps = MadePartSet(b) => qs = ps

LEMMA OrphanUnspoiled == \A ps : Unspoiled(ps, Orphan(ps))
BY SMTT(60) DEF Unspoiled, Orphan, MadePartSet

PartsFields ==
    {"proposal", "block", "parts", "lockedParts", "validRound", "validBlock", "validParts"}

\* The proposal, its block and its parts change, and maybe the valid block.
LEMMA PartsMove ==
    ASSUME NEW s, NEW t, NEW W, Good(s, W), Frame(s, t, PartsFields),
           Unspoiled(s.lockedParts, t.lockedParts),
           t.parts = Nil \/ t.parts \in [of : Values, complete : {"no", "yes"}],
           t.block \in Values, BlockThere(t), Valid(t)
    PROVE  Move(s, t, W)
<1>1. /\ s.round \in Nat /\ s.step \in 1 .. 8 /\ t.round = s.round /\ t.step = s.step
      /\ t.cast = s.cast /\ t.prevotes = s.prevotes /\ t.tocks = s.tocks
      /\ t.precommits = s.precommits /\ t.commitRound = s.commitRound /\ t.own = s.own
      /\ t.lockedBlock = s.lockedBlock /\ t.lockedRound = s.lockedRound
  BY DEF Good, Placed, Frame, Fields, PartsFields
<1>2. Placed(t)
  BY SMTT(60), KeepPlaced DEF Good, PartsFields
<1>3. Heard(t)
  BY <1>1 DEF Good, Heard
<1>4. Locked(t, W)
  BY <1>1 DEF Good, Locked, Unspoiled
<1>5. Ahead(s, t)
  BY SMTT(60), <1>1 DEF Ahead, later
<1>6. Signed(t)
  BY <1>1, <1>5, KeepSigned DEF Good, PartsFields
<1>7. Precommits(t) /\ Prevotes(t)
  BY SMTT(60), <1>1, KeepVotes DEF Good, PartsFields
<1>8. Good(t, W)
  BY <1>2, <1>3, <1>4, <1>6, <1>7 DEF Good
<1>9. NewTocks(s, t)
  BY <1>1 DEF NewTocks
<1> QED BY <1>5, <1>8, <1>9, QuietMove DEF PartsFields

\* The valid block stays valid when its parts are not spoiled.
LEMMA ValidUnspoiled ==
    ASSUME NEW s, NEW t, Valid(s), Unspoiled(s.validParts, t.validParts),
           t.validBlock = s.validBlock, t.validRound = s.validRound,
           t.prevotes = s.prevotes, t.round = s.round
    PROVE  Valid(t)
BY DEF Valid, Unspoiled
-----------------------------------------------------------------------------
(* Prevotes and precommits.                                                  *)

Opinions == [Blocks -> Verdict]

\* doPrevote signs for the locked block if there is one that the agent agrees to.
LEMMA DoPrevote ==
    ASSUME NEW s, NEW W \in Opinions, NEW e, e.verdict = W, Good(s, W), s.step < 4
    PROVE  \E h \in Values, res \in {"agree", "against"} :
             /\ doPrevote(s, e) = signAddVote(s, stepPrevote, h, h, res)
             /\ StableVerdicts /\ s.lockedBlock # Nil => h = s.lockedBlock /\ res = "agree"
<1>1. s.step \in 1 .. 8 /\ s.block \in Values /\ s.lockedBlock \in Values /\ Nil \in Values
  BY DEF Good, Placed, Heard, Locked, Values
<1>2. ASSUME NEW b \in Values, b # Nil
      PROVE  \/ /\ W[b] \in {"agree", "against"}
                /\ signBlock(s, stepPrevote, b, b, e) = signAddVote(s, stepPrevote, b, b, W[b])
             \/ /\ W[b] # "agree"
                /\ signBlock(s, stepPrevote, b, b, e) = signAddVote(s, stepPrevote, Nil, Nil, "agree")
  BY DEF signBlock, signNil
<1>3. CASE s.lockedBlock # Nil
  <2>1. s.lockedParts.of = s.lockedBlock /\ (StableVerdicts => W[s.lockedBlock] = "agree")
    BY SMTT(60), <1>3 DEF Good, Locked, MadePartSet
  <2>2. doPrevote(s, e) = signBlock(s, stepPrevote, s.lockedBlock, s.lockedBlock, e)
    BY <1>3, <2>1 DEF doPrevote
  <2> QED BY <1>1, <1>2, <1>3, <2>1, <2>2
<1>4. CASE s.lockedBlock = Nil /\ s.block # Nil
  <2>1. s.parts.of = s.block
    BY SMTT(60), <1>1, <1>4 DEF Good, BlockThere, Fetched, MadePartSet
  <2>2. doPrevote(s, e) = signBlock(s, stepPrevote, s.block, s.block, e)
    BY <1>4, <2>1 DEF doPrevote
  <2> QED BY <1>1, <1>2, <1>4, <2>2
<1>5. CASE s.lockedBlock = Nil /\ s.block = Nil
  <2>1. doPrevote(s, e) = signAddVote(s, stepPrevote, Nil, Nil, "agree")
    BY <1>5 DEF doPrevote, signNil
  <2> QED BY <1>1, <1>5, <2>1
<1> QED BY <1>3, <1>4, <1>5

\* The rounds in which a node may enter a step: not a later one than its own.
LEMMA Behind ==
    ASSUME NEW s, NEW W, Good(s, W), NEW r \in Rounds, r <= s.round, NEW st \in 1 .. 8,
           ~ behind(s, r, st)
    PROVE  r = s.round /\ s.step < st /\ s.panic = "none" /\ s.step \in 1 .. 8
BY SMTT(60), VotingAssumption DEF Good, Placed, behind, later, Rounds

LEMMA EnterPrevote ==
    ASSUME NEW s, NEW W \in Opinions, NEW e, e.verdict = W, Good(s, W),
           NEW r \in Rounds, r <= s.round,
           s.step >= 6 \/ s.round = 0 \/ s.prevotes[s.round] \notin Values
    PROVE  /\ Move(s, enterPrevote(s, r, e), W)
           /\ Frame(s, enterPrevote(s, r, e), {"step", "priv", "cast"})
<1> DEFINE t == enterPrevote(s, r, e)
<1>1. DOMAIN s = Fields
  BY DEF Good, Placed
<1>2. CASE behind(s, r, RoundStepPrevote)
  <2>1. t = s
    BY <1>2 DEF enterPrevote
  <2> QED BY <1>1, <2>1, MoveReflexive DEF Frame
<1>3. CASE ~ behind(s, r, RoundStepPrevote)
  <2>1. r = s.round /\ s.step < 4 /\ s.panic = "none" /\ s.step \in 1 .. 8
    BY SMTT(60), <1>3, Behind DEF RoundStepPrevote
  <2>2. PICK h \in Values, res \in {"agree", "against"} :
             /\ doPrevote(s, e) = signAddVote(s, stepPrevote, h, h, res)
             /\ StableVerdicts /\ s.lockedBlock # Nil => h = s.lockedBlock /\ res = "agree"
    BY <2>1, DoPrevote
  <2> DEFINE v == [hash |-> h, parts |-> h, result |-> res]
             x == [s EXCEPT !.step = 4]
  <2>3. t = atStep(signAddVote(s, stepPrevote, h, h, res), s.round, 4)
    BY <1>3, <2>1, <2>2 DEF enterPrevote, RoundStepPrevote
  <2>4. s.priv.round = s.round => s.priv.step # stepPrevote
    BY SMTT(60), <2>1 DEF Good, Signed, stepPrevote
  <2>5. Frame(s, x, {"step"}) /\ x.step = 4 /\ Signs(x, t, stepPrevote, v)
    <3> HIDE DEF t
    <3> QED BY SMTT(60), <1>1, <2>1, <2>3, <2>4, SignAtStep
  <2> HIDE DEF t, x
  <2>6. Move(s, x, W)
    <3>1. x.step \in 1 .. 8 /\ s.step <= x.step
      BY SMTT(60), <2>1, <2>5
    <3> QED BY <2>5, <3>1, RaiseStep
  <2>7. /\ x.round = s.round /\ x.prevotes = s.prevotes /\ x.lockedBlock = s.lockedBlock
        /\ Good(x, W)
    BY <2>5, <2>6 DEF Frame, Fields, Move
  <2>8. v \in CastVotes /\ v.hash = v.parts /\ (res = "agree" => For(v) = h)
    BY SMTT(60), NodeAssumption DEF CastVotes, For
  <2>9. stepPrevote \in VoteSteps /\ stepPrevote # stepPrecommit
    BY SMTT(60) DEF VoteSteps, stepPrevote, stepPrecommit
  <2>10. Move(x, t, W)
    <3> HIDE DEF v
    <3>1. x.step >= 4 /\ x.round \in Rounds
      BY SMTT(60), <2>1, <2>5, <2>7
    <3>2. StableVerdicts =>
            /\ x.round = 0 \/ x.prevotes[x.round] \notin Values
            /\ x.lockedBlock # Nil => For(v) = x.lockedBlock
      BY SMTT(60), <2>1, <2>2, <2>7, <2>8
    <3> QED BY <2>5, <2>7, <2>8, <2>9, <3>1, <3>2, SignMove
  <2>11. Frame(s, t, {"step", "priv", "cast"})
    BY <2>5 DEF Signs, Frame
  <2>12. Move(s, t, W)
    BY <2>6, <2>10, MoveTransitive
  <2> QED BY <2>11, <2>12 DEF t
<1> QED BY <1>2, <1>3

\* HeightVoteSet.POLInfo finds the last polka that it looks for.
LEMMA POLInfoIsLast ==
    ASSUME NEW s, NEW W, Good(s, W)
    PROVE  /\ POLInfo(s) \in {NoRound} \cup Rounds
           /\ \A r \in Rounds : r <= s.round /\ TwoThirdsMajority(s.prevotes[r]) => r <= POLInfo(s)
<1> DEFINE S == {NoRound} \cup {r \in Rounds : r <= s.hvsRound /\ TwoThirdsMajority(s.prevotes[r])}
           D == {n \in Nat : MaxRound - n \in S}
<1>1. MaxRound \in Nat /\ NoRound \in S /\ S \subseteq NoRound .. MaxRound /\ NoRound = -1
  BY SMTT(60), VotingAssumption DEF Rounds, NoRound
<1>2. MaxRound + 1 \in D
  <2>1. MaxRound - (MaxRound + 1) = NoRound
    BY SMTT(60), <1>1
  <2> QED BY SMTT(60), <1>1, <2>1
<1>3. PICK n \in D : \A m \in D : ~ (<<m, n>> \in OpToRel(<, Nat))
  <2> HIDE DEF D
  <2>1. D \subseteq Nat
    BY DEF D
  <2> QED BY <1>2, <2>1, WFMin, NatLessThanWellFounded
<1>4. \A m \in D : ~ (m < n)
  BY <1>3 DEF OpToRel
<1> DEFINE x == MaxRound - n
<1>5. x \in S /\ \A y \in S : x >= y
  <2>1. x \in S /\ n \in Nat
    OBVIOUS
  <2>2. ASSUME NEW y \in S PROVE x >= y
    <3>1. y \in Int /\ y <= MaxRound
      BY SMTT(60), <1>1
    <3>2. MaxRound - y \in Nat /\ MaxRound - (MaxRound - y) = y
      BY SMTT(60), <1>1, <3>1
    <3>3. MaxRound - y \in D
      BY <3>2
    <3>4. ~ (MaxRound - y < n)
      BY <1>4, <3>3
    <3> QED BY SMTT(60), <1>1, <2>1, <3>1, <3>4
  <2> QED BY <2>1, <2>2
<1> HIDE DEF S, x
<1>6. POLInfo(s) = CHOOSE y \in S : \A z \in S : y >= z
  BY DEF POLInfo, Max, S
<1>7. POLInfo(s) \in S /\ \A z \in S : POLInfo(s) >= z
  BY <1>5, <1>6
<1>8. ASSUME NEW r \in Rounds, r <= s.round, TwoThirdsMajority(s.prevotes[r])
      PROVE  r <= POLInfo(s)
  <2>1. r <= s.hvsRound
    BY SMTT(60), <1>1, <1>8 DEF Good, Placed, Rounds
  <2>2. r \in S
    BY <1>8, <2>1 DEF S
  <2> QED BY <1>1, <1>7, <2>2
<1> QED BY <1>7, <1>8 DEF S

\* The precommit of a node that changed its lock to that of u.
LEMMA PrecommitFrom ==
    ASSUME NEW s, NEW u, NEW W, Good(s, W), s.round \in Rounds, s.step < 6, s.panic = "none",
           DOMAIN u = Fields, u.priv = s.priv, u.panic = s.panic, u.round = s.round,
           Move(s, [u EXCEPT !.step = 6], W),
           NEW h \in Values, NEW res \in {"agree", "against"},
           res = "agree" /\ h # Nil =>
             u.prevotes[u.round] = h /\ u.lockedBlock = h /\ u.lockedRound = u.round
    PROVE  /\ Move(s, atStep(signAddVote(u, stepPrecommit, h, h, res), s.round, 6), W)
           /\ Frame(u, atStep(signAddVote(u, stepPrecommit, h, h, res), s.round, 6),
                    {"step", "priv", "cast"})
           /\ atStep(signAddVote(u, stepPrecommit, h, h, res), s.round, 6).step = 6
<1> DEFINE v == [hash |-> h, parts |-> h, result |-> res]
           x == [u EXCEPT !.step = 6]
           t == atStep(signAddVote(u, stepPrecommit, h, h, res), s.round, 6)
<1>1. s.priv.round = s.round => s.priv.step # stepPrecommit
  BY SMTT(60) DEF Good, Placed, Signed, stepPrecommit
<1>2. Frame(u, x, {"step"}) /\ x.step = 6 /\ Signs(x, t, stepPrecommit, v)
  <2>1. u.panic = "none" /\ (u.priv.round = u.round => u.priv.step # stepPrecommit)
    BY <1>1
  <2>2. t = atStep(signAddVote(u, stepPrecommit, h, h, res), u.round, 6)
    OBVIOUS
  <2> HIDE DEF t
  <2> QED BY SMTT(60), <2>1, <2>2, SignAtStep
<1>3. /\ x.round = s.round /\ x.prevotes = u.prevotes /\ x.lockedBlock = u.lockedBlock
      /\ x.lockedRound = u.lockedRound /\ Good(x, W)
  BY <1>2 DEF Frame, Fields, Move
<1>4. v \in CastVotes /\ v.hash = v.parts /\ For(v) = IF res = "agree" THEN h ELSE NoVote
  BY SMTT(60), NodeAssumption DEF CastVotes, For
<1>5. For(v) \in Blocks => res = "agree" /\ h # Nil /\ For(v) = h
  BY <1>4, VotingAssumption
<1>6. stepPrecommit \in VoteSteps /\ stepPrevote # stepPrecommit
  BY SMTT(60) DEF VoteSteps, stepPrevote, stepPrecommit
<1>7. Move(x, t, W)
  <2> HIDE DEF v, x, t
  <2> QED BY SMTT(60), <1>2, <1>3, <1>4, <1>5, <1>6, SignMove
<1>8. Frame(u, t, {"step", "priv", "cast"}) /\ t.step = 6
  BY <1>2 DEF Signs, Frame, Fields
<1> QED BY <1>7, <1>8, MoveTransitive

\* What precommit changes before it signs: the lock, and the block to fetch.
FetchFields == LockFields \cup {"parts", "block", "validParts"}

LEMMA Precommit ==
    ASSUME NEW s, NEW W \in Opinions, NEW e, e.verdict = W, Good(s, W),
           s.round \in Rounds, s.step < 6, s.panic = "none"
    PROVE  \E u : \E h \in Values, res \in {"agree", "against"} :
             /\ precommit(s, s.round, e) = signAddVote(u, stepPrecommit, h, h, res)
             /\ Frame(s, u, FetchFields)
             /\ Move(s, [u EXCEPT !.step = 6], W)
             /\ res = "agree" /\ h # Nil =>
                  u.prevotes[u.round] = h /\ u.lockedBlock = h /\ u.lockedRound = u.round
<1> DEFINE r == s.round
           polka == s.prevotes[s.round]
           m == [s EXCEPT !.step = 6]
           Result(u, h, res) ==
             /\ precommit(s, s.round, e) = signAddVote(u, stepPrecommit, h, h, res)
             /\ Frame(s, u, FetchFields)
             /\ Move(s, [u EXCEPT !.step = 6], W)
             /\ res = "agree" /\ h # Nil =>
                  u.prevotes[u.round] = h /\ u.lockedBlock = h /\ u.lockedRound = u.round
<1> SUFFICES \E x : \E k \in Values, a \in {"agree", "against"} : Result(x, k, a)
  OBVIOUS
<1>0. DOMAIN s = Fields /\ s.step \in 1 .. 8 /\ Nil \in Values /\ r \in Nat
  BY DEF Good, Placed, Values
<1>1. Frame(s, m, {"step"}) /\ m.step = 6
  BY <1>0 DEF Frame, Fields
<1>2. Move(s, m, W)
  <2>1. m.step \in 1 .. 8 /\ s.step <= m.step
    BY SMTT(60), <1>0, <1>1
  <2> HIDE DEF m
  <2> QED BY <1>1, <2>1, RaiseStep
<1>3. /\ Good(m, W) /\ m.round = r /\ m.prevotes = s.prevotes /\ m.lockedBlock = s.lockedBlock
      /\ m.lockedRound = s.lockedRound /\ m.lockedParts = s.lockedParts
      /\ m.block = s.block /\ m.parts = s.parts
  BY <1>1, <1>2 DEF Frame, Fields, Move
<1>4. Frame(s, s, FetchFields)
  BY <1>0 DEF Frame
<1>5. ASSUME NEW b \in Values, b # Nil, NEW u
      PROVE  \/ /\ W[b] \in {"agree", "against"}
                /\ signBlock(u, stepPrecommit, b, b, e) = signAddVote(u, stepPrecommit, b, b, W[b])
             \/ /\ W[b] # "agree"
                /\ signBlock(u, stepPrecommit, b, b, e)
                     = signAddVote(u, stepPrecommit, Nil, Nil, "agree")
  BY DEF signBlock, signNil
<1>6. ASSUME NEW u, NEW h \in Values, NEW res \in {"agree", "against"}, Result(u, h, res)
      PROVE  \E x : \E k \in Values, a \in {"agree", "against"} : Result(x, k, a)
  <2> HIDE DEF Result
  <2> WITNESS u
  <2> WITNESS h \in Values, res \in {"agree", "against"}
  <2> QED BY <1>6
<1>7. CASE ~ TwoThirdsMajority(polka)
  <2>1. precommit(s, r, e) = signAddVote(s, stepPrecommit, Nil, Nil, "agree")
    BY <1>7 DEF precommit, signNil
  <2>2. Result(s, Nil, "agree")
    BY <1>2, <1>4, <2>1
  <2> HIDE DEF Result
  <2> QED BY <1>0, <2>2, <1>6
<1>8. ASSUME TwoThirdsMajority(polka) PROVE polka \in Values /\ ~ (POLInfo(s) < r)
  <2>1. POLInfo(s) \in Int /\ r <= POLInfo(s)
    BY SMTT(60), <1>0, <1>8, POLInfoIsLast DEF NoRound, Rounds
  <2> QED BY SMTT(60), <1>0, <1>8, <2>1 DEF TwoThirdsMajority
\* Unlocking, in the states before and after the step is entered.
<1>9. ASSUME TwoThirdsMajority(polka), s.lockedBlock # polka \/ s.lockedBlock = Nil
      PROVE  /\ Frame(s, unlock(s), LockFields) /\ Frame(s, unlock(s), FetchFields)
             /\ Move(s, [unlock(s) EXCEPT !.step = 6], W)
             /\ Frame(m, [unlock(s) EXCEPT !.step = 6], LockFields)
             /\ unlock(s).lockedBlock = Nil /\ unlock(s).lockedParts = Nil
  <2> DEFINE u == unlock(s)
             x == [unlock(s) EXCEPT !.step = 6]
  <2>1. /\ Frame(s, u, LockFields) /\ u.lockedRound = 0 /\ u.lockedBlock = Nil /\ u.lockedParts = Nil
    BY <1>0 DEF unlock, Frame, Fields, LockFields
  <2>2. /\ Frame(m, x, LockFields) /\ x.lockedRound = 0 /\ x.lockedBlock = Nil /\ x.lockedParts = Nil
    BY <1>1, <2>1 DEF Frame, Fields, LockFields
  <2>3. s.lockedBlock # Nil => s.lockedRound < r /\ polka # s.lockedBlock
    BY SMTT(60), <1>0, <1>9 DEF Good, Locked
  <2>4. Move(m, x, W)
    <3> HIDE DEF m, x
    <3> QED BY SMTT(60), <1>0, <1>3, <1>8, <1>9, <2>2, <2>3, UnlockMove
  <2>5. Move(s, x, W)
    BY <1>2, <2>4, MoveTransitive
  <2> QED BY <2>1, <2>2, <2>5 DEF Frame, FetchFields
<1>10. CASE TwoThirdsMajority(polka) /\ polka = Nil
  <2>1. precommit(s, r, e) = signAddVote(unlock(s), stepPrecommit, Nil, Nil, "agree")
    BY <1>8, <1>10 DEF precommit, signNil
  <2>2. Result(unlock(s), Nil, "agree")
    BY <1>9, <1>10, <2>1
  <2> HIDE DEF Result
  <2> QED BY <1>0, <2>2, <1>6
<1>11. CASE TwoThirdsMajority(polka) /\ polka # Nil /\ s.lockedBlock = polka
  <2> DEFINE u == [s EXCEPT !.lockedRound = r]
             x == [u EXCEPT !.step = 6]
  <2>1. precommit(s, r, e) = signBlock(u, stepPrecommit, polka, polka, e)
    BY <1>8, <1>11 DEF precommit
  <2>2. /\ Frame(s, u, {"lockedRound"}) /\ u.lockedRound = r
    BY <1>0 DEF Frame, Fields
  <2>3. /\ Frame(m, x, LockFields) /\ x.lockedRound = r /\ x.lockedBlock = s.lockedBlock
        /\ x.lockedParts = s.lockedParts
    BY <1>1, <2>2 DEF Frame, Fields, LockFields
  <2>4. /\ polka \in Blocks /\ s.lockedParts = MadePartSet(polka)
        /\ StableVerdicts => W[polka] = "agree"
    BY <1>8, <1>11 DEF Good, Locked, Values
  <2>5. Move(m, x, W)
    <3> HIDE DEF m, x
    <3> QED BY <1>3, <1>11, <2>3, <2>4, LockMove
  <2>6. Move(s, x, W)
    BY <1>2, <2>5, MoveTransitive
  <2>7. /\ Frame(s, u, FetchFields) /\ u.prevotes[u.round] = polka
        /\ u.lockedBlock = polka /\ u.lockedRound = u.round
    BY <1>11, <2>2 DEF Frame, Fields, FetchFields, LockFields
  <2>8. \/ Result(u, polka, W[polka]) /\ W[polka] \in {"agree", "against"}
        \/ Result(u, Nil, "agree")
    BY <1>5, <1>8, <1>11, <2>1, <2>6, <2>7
  <2> HIDE DEF Result, u, x
  <2>9. CASE Result(u, polka, W[polka]) /\ W[polka] \in {"agree", "against"}
    BY <1>8, <1>11, <2>9, <1>6
  <2>10. CASE Result(u, Nil, "agree")
    BY <1>0, <2>10, <1>6
  <2> QED BY <2>8, <2>9, <2>10
<1>12. CASE TwoThirdsMajority(polka) /\ polka # Nil /\ s.lockedBlock # polka /\ s.block = polka
  <2>1. precommit(s, r, e) = lockAndPrecommit(s, r, e)
    BY <1>8, <1>12 DEF precommit
  <2>2. polka \in Blocks /\ s.parts = MadePartSet(polka)
    BY SMTT(60), <1>0, <1>8, <1>12 DEF Good, BlockThere, Fetched, Values
  <2>3. CASE W[polka] = "agree"
    <3> DEFINE u == [s EXCEPT !.lockedRound = r, !.lockedBlock = s.block, !.lockedParts = s.parts]
               x == [u EXCEPT !.step = 6]
    <3>1. precommit(s, r, e) = signAddVote(u, stepPrecommit, polka, polka, "agree")
      BY <1>12, <2>1, <2>3 DEF lockAndPrecommit, signBlock
    <3>2. /\ Frame(s, u, LockFields) /\ u.lockedRound = r /\ u.lockedBlock = s.block
          /\ u.lockedParts = s.parts
      BY <1>0 DEF Frame, Fields, LockFields
    <3>3. /\ Frame(m, x, LockFields) /\ x.lockedRound = r /\ x.lockedBlock = polka
          /\ x.lockedParts = MadePartSet(polka)
      BY <1>1, <1>12, <2>2, <3>2 DEF Frame, Fields, LockFields
    <3>4. Move(m, x, W)
      <4> HIDE DEF m, x
      <4> QED BY <1>3, <2>2, <2>3, <3>3, LockMove
    <3>5. Move(s, x, W)
      BY <1>2, <3>4, MoveTransitive
    <3>6. /\ Frame(s, u, FetchFields) /\ u.prevotes[u.round] = polka
          /\ u.lockedBlock = polka /\ u.lockedRound = u.round
      BY <1>12, <3>2 DEF Frame, Fields, FetchFields, LockFields
    <3>7. Result(u, polka, "agree")
      BY <3>1, <3>5, <3>6
    <3> HIDE DEF Result
    <3> QED BY <1>8, <1>12, <3>7, <1>6
  <2>4. CASE W[polka] # "agree"
    <3>1. precommit(s, r, e) = signBlock(s, stepPrecommit, polka, polka, e)
      BY <1>12, <2>1, <2>4 DEF lockAndPrecommit
    <3>2. CASE precommit(s, r, e) = signAddVote(s, stepPrecommit, Nil, Nil, "agree")
      <4>1. Result(s, Nil, "agree")
        BY <1>2, <1>4, <3>2
      <4> HIDE DEF Result
      <4> QED BY <1>0, <4>1, <1>6
    <3>3. CASE precommit(s, r, e) = signAddVote(s, stepPrecommit, polka, polka, "against")
      <4>1. Result(s, polka, "against")
        BY <1>2, <1>4, <3>3
      <4> HIDE DEF Result
      <4> QED BY <1>8, <1>12, <4>1, <1>6
    <3> QED BY <1>5, <1>8, <1>12, <2>4, <3>1, <3>2, <3>3
  <2> QED BY <2>3, <2>4
<1>13. CASE TwoThirdsMajority(polka) /\ polka # Nil /\ s.lockedBlock # polka /\ s.block # polka
  <2>1. precommit(s, r, e) = unlockAndFetch(s, polka)
    BY <1>8, <1>13 DEF precommit
  <2>2. CASE HasHeader(s.parts, polka)
    <3>1. precommit(s, r, e) = signAddVote(unlock(s), stepPrecommit, Nil, Nil, "agree")
      BY <2>1, <2>2 DEF unlockAndFetch, signNil
    <3>2. Result(unlock(s), Nil, "agree")
      BY <1>9, <1>13, <3>1
    <3> HIDE DEF Result
    <3> QED BY <1>0, <3>2, <1>6
  <2>3. CASE ~ HasHeader(s.parts, polka)
    <3> DEFINE l == unlock(s)
               n == [l EXCEPT !.step = 6]
               u == [dropParts(l, NewPartSet(polka)) EXCEPT !.block = Nil]
               x == [u EXCEPT !.step = 6]
    <3>1. precommit(s, r, e) = signAddVote(u, stepPrecommit, Nil, Nil, "agree")
      BY <2>1, <2>3 DEF unlockAndFetch, signNil
    <3>2. /\ Frame(s, l, LockFields) /\ Move(s, n, W) /\ Frame(m, n, LockFields)
          /\ l.lockedBlock = Nil /\ l.lockedParts = Nil
      BY <1>9, <1>13
    <3>3. /\ Frame(l, u, {"parts", "block", "validParts", "lockedParts"})
          /\ u.parts = NewPartSet(polka) /\ u.block = Nil
          /\ u.validParts = Orphan(l.validParts) /\ u.lockedParts = Orphan(l.lockedParts)
      <4> HIDE DEF l
      <4> QED BY <3>2 DEF dropParts, Frame, Fields
    <3>4. Frame(l, n, {"step"}) /\ n.step = 6 /\ Frame(u, x, {"step"}) /\ x.step = 6
      <4> HIDE DEF l, u
      <4> QED BY <3>2, <3>3 DEF Frame, Fields
    <3> HIDE DEF l, n, u, x
    <3>5. /\ Frame(n, x, PartsFields)
          /\ x.validBlock = n.validBlock /\ x.validRound = n.validRound
          /\ x.prevotes = n.prevotes /\ x.round = n.round
          /\ x.parts = NewPartSet(polka) /\ x.block = Nil
          /\ x.validParts = Orphan(n.validParts) /\ x.lockedParts = Orphan(n.lockedParts)
      BY SMTT(60), <3>3, <3>4 DEF Frame, Fields, PartsFields
    <3>6. x.round = r /\ x.prevotes = s.prevotes /\ Good(n, W)
      BY <3>2, <3>4, <3>5 DEF Frame, Fields, LockFields, Move
    <3>7. BlockThere(x)
      <4>1. x.step >= 6
        BY SMTT(60), <3>4
      <4>2. x.parts.of = polka
        BY SMTT(60), <3>5 DEF NewPartSet
      <4> QED BY <3>5, <3>6, <4>1, <4>2 DEF BlockThere
    <3>8. x.parts \in [of : Values, complete : {"no", "yes"}] /\ x.block \in Values
      <4>1. polka \in Values /\ Nil \in Values
        BY <1>13 DEF TwoThirdsMajority, Values
      <4> QED BY SMTT(60), <3>5, <4>1 DEF NewPartSet
    <3>9. Move(n, x, W)
      <4>1. Valid(x)
        <5>1. Valid(n) /\ Unspoiled(n.validParts, x.validParts)
          BY <3>5, <3>6, OrphanUnspoiled DEF Good
        <5> QED BY <3>5, <5>1, ValidUnspoiled
      <4> QED BY <3>5, <3>6, <3>7, <3>8, <4>1, OrphanUnspoiled, PartsMove
    <3>10. Move(s, x, W)
      BY <3>2, <3>9, MoveTransitive
    <3>11. Frame(s, u, FetchFields)
      BY <3>2, <3>3 DEF Frame, FetchFields, LockFields
    <3>12. Result(u, Nil, "agree")
      BY <3>1, <3>10, <3>11 DEF x
    <3> HIDE DEF Result
    <3> QED BY <1>0, <3>12, <1>6
  <2> QED BY <2>2, <2>3
<1> QED BY <1>7, <1>8, <1>10, <1>11, <1>12, <1>13

LEMMA EnterPrecommit ==
    ASSUME NEW s, NEW W \in Opinions, NEW e, e.verdict = W, Good(s, W),
           NEW r \in Rounds, r <= s.round
    PROVE  /\ Move(s, enterPrecommit(s, r, e), W)
           /\ Frame(s, enterPrecommit(s, r, e), FetchFields \cup {"step", "priv", "cast"})
           /\ s.panic = "none" /\ r = s.round => enterPrecommit(s, r, e).step >= 6
<1> DEFINE t == enterPrecommit(s, r, e)
<1>1. DOMAIN s = Fields /\ s.step \in 1 .. 8 /\ s.round \in Nat
  BY DEF Good, Placed
<1>2. CASE behind(s, r, RoundStepPrecommit)
  <2>1. t = s
    BY <1>2 DEF enterPrecommit
  <2>2. s.panic = "none" /\ r = s.round => s.step >= 6
    BY SMTT(60), <1>1, <1>2 DEF behind, later, RoundStepPrecommit
  <2> QED BY <1>1, <2>1, <2>2, MoveReflexive DEF Frame
<1>3. CASE ~ behind(s, r, RoundStepPrecommit)
  <2>1. r = s.round /\ s.step < 6 /\ s.panic = "none" /\ s.step \in 1 .. 8
    BY SMTT(60), <1>3, Behind DEF RoundStepPrecommit
  <2> DEFINE Result(u, h, res) ==
             /\ precommit(s, s.round, e) = signAddVote(u, stepPrecommit, h, h, res)
             /\ Frame(s, u, FetchFields)
             /\ Move(s, [u EXCEPT !.step = 6], W)
             /\ res = "agree" /\ h # Nil =>
                  u.prevotes[u.round] = h /\ u.lockedBlock = h /\ u.lockedRound = u.round
  <2>0. PICK u : \E h \in Values, res \in {"agree", "against"} : Result(u, h, res)
    BY SMTT(60), <2>1, Precommit
  <2>2. PICK h \in Values, res \in {"agree", "against"} : Result(u, h, res)
    BY <2>0
  <2>3. t = atStep(signAddVote(u, stepPrecommit, h, h, res), s.round, 6)
    BY <1>3, <2>1, <2>2 DEF enterPrecommit, RoundStepPrecommit
  <2>4. DOMAIN u = Fields /\ u.priv = s.priv /\ u.panic = s.panic /\ u.round = s.round
    BY <2>2 DEF Frame, Fields, FetchFields, LockFields
  <2>5. Move(s, t, W) /\ Frame(u, t, {"step", "priv", "cast"}) /\ t.step = 6
    BY SMTT(60), <2>1, <2>2, <2>3, <2>4, PrecommitFrom
  <2>6. Frame(s, t, FetchFields \cup {"step", "priv", "cast"})
    BY <2>2, <2>5 DEF Frame
  <2> QED BY SMTT(60), <2>5, <2>6
<1> QED BY <1>2, <1>3

\* enterPrevoteWait and enterPrecommitWait, once there are votes of +2/3.
LEMMA EnterWait ==
    ASSUME NEW s, NEW W, Good(s, W), NEW r \in Rounds, r <= s.round, NEW st \in {5, 7}, NEW t,
           \/ t = s
           \/ ~ behind(s, r, st) /\ t = atStep(scheduleTimeout(s, r, st, 1), r, st)
    PROVE  Move(s, t, W)
<1>1. CASE t = s
  BY <1>1, MoveReflexive
<1>2. CASE ~ behind(s, r, st) /\ t = atStep(scheduleTimeout(s, r, st, 1), r, st)
  <2> DEFINE u == scheduleTimeout(s, r, st, 1)
  <2>1. r = s.round /\ s.step < st /\ s.panic = "none" /\ s.step \in 1 .. 8
    BY SMTT(60), <1>2, Behind
  <2>2. Move(s, u, W) /\ Frame(s, u, {"timer", "tocks"})
    BY <2>1, Schedule DEF Good, Placed
  <2> HIDE DEF u
  <2>3. t = [u EXCEPT !.round = s.round, !.step = st]
    BY <1>2, <2>1, <2>2 DEF atStep, Frame, Fields, u
  <2>4. Frame(u, t, {"step"}) /\ t.step = st /\ u.step = s.step
    BY <2>2, <2>3 DEF Frame, Fields
  <2>5. Move(u, t, W)
    BY SMTT(60), <2>1, <2>2, <2>4, RaiseStep DEF Move
  <2> QED BY <2>2, <2>5, MoveTransitive
<1> QED BY <1>1, <1>2

LEMMA EnterPrevoteWait ==
    ASSUME NEW s, NEW W, Good(s, W), NEW r \in Rounds, r <= s.round,
           HasTwoThirdsAny(s.prevotes[r])
    PROVE  Move(s, enterPrevoteWait(s, r), W)
BY EnterWait DEF enterPrevoteWait, RoundStepPrevoteWait

LEMMA EnterPrecommitWait ==
    ASSUME NEW s, NEW W, Good(s, W), NEW r \in Rounds, r <= s.round,
           HasTwoThirdsAny(s.precommits[r])
    PROVE  Move(s, enterPrecommitWait(s, r), W)
BY EnterWait DEF enterPrecommitWait, RoundStepPrecommitWait
-----------------------------------------------------------------------------
(* Proposing and new rounds.                                                 *)

\* The proposer has all the parts of what it proposes.
LEMMA DecideProposal ==
    ASSUME NEW s, NEW W, NEW e, Good(s, W), s.step < 3, s.panic = "none",
           e.made \in Values, e.made # Nil
    PROVE  LET t == atStep(defaultDecideProposal(s, s.round, e), s.round, RoundStepPropose) IN
           Move(s, t, W) /\ Frame(s, t, {"step", "priv", "own"}) /\ t.step = 3
<1> DEFINE parts == IF s.lockedBlock # Nil THEN s.lockedParts
                    ELSE IF s.validBlock # Nil THEN s.validParts
                    ELSE MadePartSet(e.made)
           d == defaultDecideProposal(s, s.round, e)
           own == [sent |-> "proposal", round |-> s.round, block |-> parts.of,
                   pol |-> POLInfo(s), whole |-> parts.complete = "yes"]
           t == atStep(d, s.round, RoundStepPropose)
           x == [s EXCEPT !.step = 3]
<1>1. DOMAIN s = Fields /\ s.round \in Nat /\ s.step \in 1 .. 8
  BY DEF Good, Placed
<1>2. Frame(s, x, {"step"}) /\ x.step = 3
  BY <1>1 DEF Frame, Fields
<1>3. Move(s, x, W)
  <2>1. x.step \in 1 .. 8 /\ s.step <= x.step
    BY SMTT(60), <1>1, <1>2
  <2> HIDE DEF x
  <2> QED BY <1>2, <2>1, RaiseStep
<1>4. parts.of \in Values /\ parts.complete = "yes"
  BY SMTT(60) DEF Good, Locked, Valid, MadePartSet
<1>5. POLInfo(s) \in {NoRound} \cup Rounds
  BY POLInfoIsLast
<1>6. ~ sameHRS(s, stepPropose)
  <2>1. s.priv.round = s.round => (s.priv.step = 1 => s.step >= 3)
    BY DEF Good, Signed
  <2>2. ~ (s.step >= 3)
    BY SMTT(60), <1>1
  <2>3. sameHRS(s, stepPropose) => s.priv.round = s.round /\ s.priv.step = 1
    BY SMTT(60) DEF sameHRS, stepPropose
  <2> QED BY <2>1, <2>2, <2>3
<1>7. CASE ~ checkHRS(s, stepPropose)
  <2>1. t = [s EXCEPT !.round = s.round, !.step = 3]
    BY <1>6, <1>7 DEF defaultDecideProposal, atStep, RoundStepPropose
  <2>2. Frame(s, t, {"step"}) /\ t.step = 3
    BY <1>1, <2>1 DEF Frame, Fields
  <2>3. Move(s, t, W)
    BY SMTT(60), <1>1, <2>2, RaiseStep
  <2> QED BY <2>2, <2>3 DEF Frame
<1>8. CASE checkHRS(s, stepPropose)
  <2>1. d = [s EXCEPT !.priv = [round |-> s.round, step |-> stepPropose], !.own = own]
    BY <1>6, <1>8 DEF defaultDecideProposal
  <2> HIDE DEF own, d, parts
  <2>2. /\ Frame(s, d, {"priv", "own"}) /\ d.own = own
        /\ d.priv = [round |-> s.round, step |-> stepPropose]
    BY <1>1, <2>1 DEF Frame, Fields
  <2>3. t = [d EXCEPT !.round = s.round, !.step = 3]
    BY <2>2 DEF atStep, RoundStepPropose, Frame, Fields
  <2>4. /\ Frame(d, t, {"step"}) /\ t.step = 3
    <3> HIDE DEF t
    <3> QED BY <2>2, <2>3 DEF Frame, Fields
  <2> HIDE DEF t, x
  <2>5. /\ Frame(x, t, {"priv", "own"}) /\ t.own = own
        /\ t.priv = [round |-> s.round, step |-> stepPropose]
    BY SMTT(60), <1>2, <2>2, <2>4 DEF Frame, Fields
  <2>6. /\ Good(x, W) /\ x.round = s.round /\ t.round = s.round /\ t.cast = x.cast
        /\ x.priv = s.priv /\ t.tocks = x.tocks
        /\ t.prevotes = x.prevotes /\ t.precommits = x.precommits
        /\ t.commitRound = x.commitRound /\ t.parts = x.parts /\ t.block = x.block
    BY <1>2, <1>3, <2>5 DEF Frame, Fields, Move
  <2>7. Placed(t)
    BY <2>5, <2>6, KeepPlaced DEF Good
  <2>8. own \in Proposals
    BY <1>1, <1>4, <1>5 DEF own, Proposals
  <2>9. Heard(t)
    BY <2>5, <2>6, <2>8 DEF Good, Heard
  <2>10. Locked(t, W) /\ Valid(t)
    <3>1. x.round \in Nat /\ t.round \in Nat /\ x.round <= t.round
      BY SMTT(60), <1>1, <2>6
    <3>2. Locked(t, W)
      BY <2>5, <2>6, <3>1, KeepLocked DEF Good
    <3>3. Valid(t)
      BY <2>5, <2>6, <3>1, KeepValid DEF Good
    <3> QED BY <3>2, <3>3
  <2>11. BlockThere(t)
    <3>1. x.step \in 1 .. 8 /\ t.step \in 1 .. 8 /\ x.step <= t.step
      BY SMTT(60), <1>2, <2>4
    <3> QED BY <2>5, <2>6, <3>1, KeepBlock DEF Good
  <2>12. Precommits(t) /\ Prevotes(t)
    <3>1. x.round \in Nat /\ t.round \in Nat /\ x.round <= t.round
      BY SMTT(60), <1>1, <2>6
    <3> QED BY <2>5, <2>6, <3>1, KeepVotes DEF Good
  <2>13. Signed(t)
    <3>1. s.priv.round \in Nat /\ s.priv.step \in Nat
      BY SMTT(60) DEF Good, Signed
    <3>2. ASSUME NEW su \in VoteSteps, NEW r \in Rounds, x.cast[su][r] # NoVote
          PROVE  /\ ~ later(r, su, s.round, stepPropose)
                 /\ x.cast[su][r].hash = x.cast[su][r].parts
      <4>1. ~ later(r, su, s.priv.round, s.priv.step) /\ x.cast[su][r].hash = x.cast[su][r].parts
        BY <2>6, <3>2 DEF Good, Signed
      <4>2. su \in Nat /\ r \in Nat /\ su > stepPropose /\ stepPropose \in Nat
        BY SMTT(60), VotingAssumption DEF VoteSteps, stepPrevote, stepPrecommit, stepPropose, Rounds
      <4> QED BY SMTT(60), <1>1, <1>8, <3>1, <4>1, <4>2 DEF later, checkHRS
    <3>3. x.cast \in [VoteSteps -> [Rounds -> CastVotes \cup {NoVote}]]
      BY <2>6 DEF Good, Signed
    <3>4. t.priv \in [round : Nat, step : 0 .. 3] /\ t.priv.round = s.round /\ t.priv.step = 1
      BY SMTT(60), <1>1, <2>5 DEF stepPropose
    <3>5. /\ t.priv.round <= t.round /\ t.step >= 3
          /\ t.priv.step # 2 /\ t.priv.step # 3
      BY SMTT(60), <1>1, <2>4, <2>6, <3>4
    <3>6. ASSUME NEW su \in VoteSteps, NEW r \in Rounds, t.cast[su][r] # NoVote
          PROVE  /\ ~ later(r, su, t.priv.round, t.priv.step)
                 /\ t.cast[su][r].hash = t.cast[su][r].parts
      BY <2>6, <3>2, <3>4, <3>6 DEF stepPropose
    <3> QED BY <2>6, <3>3, <3>4, <3>5, <3>6 DEF Signed
  <2>14. Good(t, W)
    BY <2>7, <2>9, <2>10, <2>11, <2>12, <2>13 DEF Good
  <2>15. Ahead(x, t) /\ NewTocks(x, t)
    BY SMTT(60), <1>1, <1>2, <2>4, <2>6 DEF Ahead, later, NewTocks
  <2>16. Move(x, t, W)
    BY <2>5, <2>14, <2>15, QuietMove
  <2>17. Move(s, t, W)
    BY <1>3, <2>16, MoveTransitive
  <2>18. Frame(s, t, {"step", "priv", "own"})
    BY <1>2, <2>5 DEF Frame
  <2> QED BY <2>4, <2>17, <2>18 DEF t, d
<1> QED BY <1>7, <1>8

ProposeFields == {"step", "priv", "own", "cast", "timer", "tocks"}

\* The proposal of round 0 may be complete when the round begins; there is no
\* other proposal that could be.
LEMMA AfterPropose ==
    ASSUME NEW s, NEW W \in Opinions, NEW e, e.verdict = W, Good(s, W),
           s.round = 0 \/ s.proposal = Nil, NEW t,
           t = IF isProposalComplete(s) THEN enterPrevote(s, s.round, e) ELSE s
    PROVE  /\ Move(s, t, W) /\ Frame(s, t, ProposeFields)
           /\ s.proposal = Nil => t.cast = s.cast
<1>1. DOMAIN s = Fields
  BY DEF Good, Placed
<1>2. CASE t = s
  BY <1>1, <1>2, MoveReflexive DEF Frame
<1>3. CASE t # s
  <2>1. s.proposal # Nil /\ s.round = 0 /\ t = enterPrevote(s, 0, e)
    BY <1>3 DEF isProposalComplete
  <2>2. 0 \in Rounds
    BY SMTT(60), VotingAssumption DEF Rounds
  <2>3. Move(s, t, W) /\ Frame(s, t, {"step", "priv", "cast"})
    BY SMTT(60), <2>1, <2>2, EnterPrevote
  <2> QED BY <2>1, <2>3 DEF Frame, ProposeFields
<1> QED BY <1>2, <1>3

LEMMA TryEnterProposal ==
    ASSUME NEW s, NEW W \in Opinions, NEW e, e.verdict = W, e.made \in Values, Good(s, W),
           NEW r \in Nat, r <= s.round, s.round = 0 \/ s.proposal = Nil, NEW w
    PROVE  LET t == tryEnterProposal(s, r, w, e) IN
           /\ Move(s, t, W) /\ Frame(s, t, ProposeFields)
           /\ s.proposal = Nil => t.cast = s.cast
<1> DEFINE t == tryEnterProposal(s, r, w, e)
           u == scheduleTimeout(s, r, RoundStepPropose, 1)
<1>0. DOMAIN s = Fields /\ s.step \in 1 .. 8 /\ s.round \in Nat
  BY DEF Good, Placed
<1>1. CASE behind(s, r, RoundStepPropose)
  <2>1. t = s
    BY <1>1 DEF tryEnterProposal
  <2> QED BY <1>0, <2>1, MoveReflexive DEF Frame
<1>2. ASSUME ~ behind(s, r, RoundStepPropose)
      PROVE  r = s.round /\ s.step < 3 /\ s.panic = "none"
  BY SMTT(60), <1>0, <1>2 DEF behind, later, RoundStepPropose
<1>3. Move(s, u, W) /\ Frame(s, u, {"timer", "tocks"})
  BY Schedule
<1>4. /\ Good(u, W) /\ u.round = s.round /\ u.step = s.step /\ u.panic = s.panic
      /\ u.proposal = s.proposal /\ u.cast = s.cast
  BY <1>3 DEF Move, Frame, Fields
<1>5. ASSUME NEW x, ~ behind(s, r, RoundStepPropose), t = donePropose(x, r, e),
             Move(u, atStep(x, r, RoundStepPropose), W),
             Frame(u, atStep(x, r, RoundStepPropose), {"step", "priv", "own"})
      PROVE  /\ Move(s, t, W) /\ Frame(s, t, ProposeFields)
             /\ s.proposal = Nil => t.cast = s.cast
  <2> DEFINE y == atStep(x, r, RoundStepPropose)
  <2>1. t = IF isProposalComplete(y) THEN enterPrevote(y, y.round, e) ELSE y
    BY <1>5 DEF donePropose
  <2>2. Good(y, W) /\ y.round = u.round /\ y.proposal = u.proposal /\ y.cast = u.cast
    BY <1>5 DEF Move, Frame, Fields
  <2> HIDE DEF y, t, u
  <2>3. /\ Move(y, t, W) /\ Frame(y, t, ProposeFields)
        /\ y.proposal = Nil => t.cast = y.cast
    BY SMTT(60), <1>4, <2>1, <2>2, AfterPropose
  <2>4. Move(s, y, W)
    BY <1>3, <1>4, <1>5, MoveTransitive DEF y
  <2>5. Move(s, t, W)
    BY <2>3, <2>4, MoveTransitive
  <2>6. Frame(s, t, ProposeFields)
    BY <1>3, <1>5, <2>3 DEF Frame, ProposeFields, y
  <2> QED BY <1>4, <2>2, <2>3, <2>5, <2>6
<1>6. CASE ~ behind(s, r, RoundStepPropose) /\ (~ isProposer(s, r) \/ e.made = Nil)
  <2>1. t = donePropose(u, r, e)
    BY <1>6 DEF tryEnterProposal
  <2> DEFINE y == atStep(u, r, RoundStepPropose)
  <2>2. Frame(u, y, {"step"}) /\ y.step = 3
    BY <1>2, <1>3, <1>4, <1>6 DEF atStep, RoundStepPropose, Frame, Fields
  <2>3. Move(u, y, W)
    <3> HIDE DEF y, u
    <3> QED BY SMTT(60), <1>0, <1>2, <1>4, <1>6, <2>2, RaiseStep
  <2>4. Frame(u, y, {"step", "priv", "own"})
    BY <2>2 DEF Frame
  <2> QED BY <1>5, <1>6, <2>1, <2>3, <2>4
<1>7. CASE /\ ~ behind(s, r, RoundStepPropose) /\ ~ (~ isProposer(s, r) \/ e.made = Nil)
           /\ e.empty /\ r = 0 /\ w < MaxWait
  <2>1. t = scheduleTimeout(s, r, RoundStepNewRound, w + 1)
    BY <1>7 DEF tryEnterProposal
  <2>2. Move(s, t, W) /\ Frame(s, t, {"timer", "tocks"})
    BY <2>1, Schedule
  <2> QED BY <2>2 DEF Frame, Fields, ProposeFields
<1>8. CASE /\ ~ behind(s, r, RoundStepPropose) /\ ~ (~ isProposer(s, r) \/ e.made = Nil)
           /\ ~ (e.empty /\ r = 0 /\ w < MaxWait)
  <2> DEFINE x == defaultDecideProposal(u, r, e)
  <2>1. t = donePropose(x, r, e)
    BY <1>8 DEF tryEnterProposal, enterPropose
  <2>2. /\ Move(u, atStep(x, r, RoundStepPropose), W)
        /\ Frame(u, atStep(x, r, RoundStepPropose), {"step", "priv", "own"})
    <3> HIDE DEF u
    <3> QED BY <1>2, <1>4, <1>8, DecideProposal
  <2> QED BY <1>5, <1>8, <2>1, <2>2
<1> QED BY <1>1, <1>6, <1>7, <1>8

\* The round begins: the proposal and its block are forgotten, except that
\* those for round 0 may be early.
RoundBegins(s, r) == s.panic = "none" /\ (r > s.round \/ (r = s.round /\ s.step = 1))

RoundFields ==
    ProposeFields \cup {"round", "hvsRound", "proposal", "block", "parts", "validParts", "lockedParts"}

LEMMA NewRoundMove ==
    ASSUME NEW s, NEW W, Good(s, W), NEW r \in Nat, RoundBegins(s, r)
    PROVE  LET fresh == IF r = 0 THEN s
                        ELSE [dropParts(s, Nil) EXCEPT !.proposal = Nil, !.block = Nil]
               t == SetRound(atStep(fresh, r, RoundStepNewRound), r + 1)
           IN  /\ Move(s, t, W) /\ Frame(s, t, RoundFields)
               /\ t.round = r /\ t.step = 2 /\ t.panic = "none" /\ t.cast = s.cast
               /\ t.timer = s.timer /\ t.tocks = s.tocks
               /\ IF r = 0 THEN t.proposal = s.proposal ELSE t.proposal = Nil
<1> DEFINE fresh == IF r = 0 THEN s
                    ELSE [dropParts(s, Nil) EXCEPT !.proposal = Nil, !.block = Nil]
           a == atStep(fresh, r, RoundStepNewRound)
           t == SetRound(a, r + 1)
           C == {"round", "step", "hvsRound", "proposal", "block", "parts", "validParts", "lockedParts"}
<1>0. /\ Placed(s) /\ Heard(s) /\ Locked(s, W) /\ Valid(s) /\ BlockThere(s)
      /\ Signed(s) /\ Precommits(s) /\ Prevotes(s)
  BY DEF Good
<1>1. /\ DOMAIN s = Fields /\ s.round \in Nat /\ s.step \in 1 .. 8 /\ s.panic = "none"
      /\ s.step = 1 => s.hvsRound = 0 /\ s.round = 0
      /\ s.hvsRound = s.round + 1 \/ (s.hvsRound = 0 /\ s.round = 0)
      /\ r > s.round \/ (r = 0 /\ s.round = 0 /\ s.step = 1)
  BY SMTT(60), <1>0 DEF Placed, RoundBegins
<1>2. Frame(s, fresh, C) /\ fresh.hvsRound = s.hvsRound /\ fresh.panic = "none"
  BY <1>1 DEF dropParts, Frame, Fields
<1>3. /\ r = 0 => /\ fresh.proposal = s.proposal /\ fresh.block = s.block /\ fresh.parts = s.parts
                  /\ fresh.validParts = s.validParts /\ fresh.lockedParts = s.lockedParts
      /\ r # 0 => /\ fresh.proposal = Nil /\ fresh.block = Nil /\ fresh.parts = Nil
                  /\ fresh.validParts = Orphan(s.validParts)
                  /\ fresh.lockedParts = Orphan(s.lockedParts)
  BY <1>1 DEF dropParts, Frame, Fields
<1> HIDE DEF fresh
<1>4. /\ Frame(fresh, a, {"round", "step"}) /\ a.round = r /\ a.step = 2
      /\ a.hvsRound = s.hvsRound /\ a.panic = "none"
  BY <1>2 DEF atStep, RoundStepNewRound, Frame, Fields
<1> HIDE DEF a
<1>5. t = [a EXCEPT !.hvsRound = r + 1]
  BY SMTT(60), <1>1, <1>4 DEF SetRound
<1>6. Frame(a, t, {"hvsRound"}) /\ t.hvsRound = r + 1
  BY <1>4, <1>5 DEF Frame, Fields
<1> HIDE DEF t
<1>7. /\ Frame(s, t, C) /\ t.round = r /\ t.step = 2 /\ t.hvsRound = r + 1 /\ t.panic = "none"
      /\ t.proposal = fresh.proposal /\ t.block = fresh.block /\ t.parts = fresh.parts
      /\ t.validParts = fresh.validParts /\ t.lockedParts = fresh.lockedParts
  BY SMTT(60), <1>2, <1>4, <1>6 DEF Frame, Fields
<1>8. /\ t.height = s.height /\ t.updates = s.updates /\ t.chain = s.chain
      /\ t.prevotes = s.prevotes /\ t.precommits = s.precommits /\ t.commitRound = s.commitRound
      /\ t.own = s.own /\ t.cast = s.cast /\ t.tocks = s.tocks /\ t.timer = s.timer
      /\ t.lockedBlock = s.lockedBlock /\ t.lockedRound = s.lockedRound
      /\ t.validBlock = s.validBlock /\ t.validRound = s.validRound /\ DOMAIN t = Fields
  BY SMTT(60), <1>7 DEF Frame, Fields
<1>9. Placed(t)
  <2>1. /\ s.height \in Nat /\ s.updates \in Nat /\ s.chain \in Nat
        /\ s.height <= s.chain + 1
    BY <1>0 DEF Placed
  <2>2. t.step \in 1 .. 8 /\ t.step # 1
    BY SMTT(60), <1>1, <1>7
  <2> QED BY <1>1, <1>7, <1>8, <2>1, <2>2 DEF Placed
<1>10. Heard(t)
  BY <1>0, <1>3, <1>7, <1>8 DEF Heard, Values
<1>11. s.lockedRound \in Nat /\ s.lockedRound <= r /\ s.validRound \in Nat /\ s.validRound <= r
  <2>1. /\ s.lockedRound \in Nat /\ s.lockedRound <= s.round
        /\ s.validRound \in Nat /\ s.validRound <= s.round
    BY <1>0 DEF Locked, Valid
  <2> QED BY SMTT(60), <1>1, <2>1
<1>12. Unspoiled(s.lockedParts, t.lockedParts) /\ Unspoiled(s.validParts, t.validParts)
  BY <1>3, <1>7, OrphanUnspoiled DEF Unspoiled
<1>13. Locked(t, W)
  BY <1>0, <1>7, <1>8, <1>11, <1>12 DEF Locked, Unspoiled
<1>14. Valid(t)
  BY <1>0, <1>7, <1>8, <1>11, <1>12 DEF Valid, Unspoiled
<1>15. BlockThere(t)
  <2>1. CASE r = 0
    <3>1. s.step = 1 /\ ~(s.step = 8) /\ ~(s.step >= 6)
      BY SMTT(60), <1>1, <2>1
    <3>2. /\ s.block # Nil => s.parts = MadePartSet(s.block)
          /\ s.proposal = Nil => s.block = Nil /\ s.parts = Nil
      BY <1>0, <3>1 DEF BlockThere, Fetched
    <3> QED BY <1>3, <1>7, <2>1, <3>2 DEF BlockThere
  <2>2. CASE r # 0
    BY <1>3, <1>7, <2>2 DEF BlockThere
  <2> QED BY <2>1, <2>2
<1>16. Ahead(s, t)
  BY SMTT(60), <1>1, <1>7 DEF Ahead, later
<1>17. Signed(t)
  <2>1. t.round \in Nat /\ t.step \in 1 .. 8
    BY SMTT(60), <1>1, <1>7
  <2> QED BY <1>0, <1>1, <1>7, <1>16, <2>1, KeepSigned
<1>18. Precommits(t) /\ Prevotes(t)
  <2>1. t.round \in Nat /\ s.round <= t.round
    BY SMTT(60), <1>1, <1>7
  <2> QED BY <1>0, <1>1, <1>7, <2>1, KeepVotes
<1>19. Good(t, W)
  BY <1>9, <1>10, <1>13, <1>14, <1>15, <1>17, <1>18 DEF Good
<1>20. NewTocks(s, t)
  BY <1>8 DEF NewTocks
<1>21. Move(s, t, W)
  BY <1>7, <1>16, <1>19, <1>20, QuietMove
<1>22. Frame(s, t, RoundFields)
  BY <1>7 DEF Frame, RoundFields, ProposeFields
<1> QED BY <1>3, <1>7, <1>8, <1>21, <1>22 DEF t, a, fresh

\* enterNewRound votes in round 0 only, where the proposal was early.
LEMMA EnterNewRound ==
    ASSUME NEW s, NEW W \in Opinions, NEW e, e.verdict = W, e.made \in Values, Good(s, W),
           NEW r \in Nat
    PROVE  LET t == enterNewRound(s, r, e) IN
           /\ Move(s, t, W) /\ Frame(s, t, RoundFields)
           /\ t.round = IF RoundBegins(s, r) THEN r ELSE s.round
           /\ s.proposal = Nil => t.cast = s.cast /\ t.proposal = Nil
<1> DEFINE fresh == IF r = 0 THEN s
                    ELSE [dropParts(s, Nil) EXCEPT !.proposal = Nil, !.block = Nil]
           x == SetRound(atStep(fresh, r, RoundStepNewRound), r + 1)
           t == enterNewRound(s, r, e)
<1>0. DOMAIN s = Fields /\ s.round \in Nat
  BY DEF Good, Placed
<1>1. CASE ~ RoundBegins(s, r)
  <2>1. t = s
    BY SMTT(60), <1>0, <1>1 DEF enterNewRound, RoundBegins, RoundStepNewHeight
  <2> QED BY <1>0, <1>1, <2>1, MoveReflexive DEF Frame
<1>2. CASE RoundBegins(s, r)
  <2>1. t = tryEnterProposal(x, r, 1, e)
    BY SMTT(60), <1>0, <1>2 DEF enterNewRound, RoundBegins, RoundStepNewHeight
  <2>2. /\ Move(s, x, W) /\ Frame(s, x, RoundFields)
        /\ x.round = r /\ x.step = 2 /\ x.panic = "none" /\ x.cast = s.cast
        /\ x.timer = s.timer /\ x.tocks = s.tocks
        /\ IF r = 0 THEN x.proposal = s.proposal ELSE x.proposal = Nil
    BY <1>2, NewRoundMove
  <2> HIDE DEF x, t
  <2>a. Good(x, W)
    BY <2>2 DEF Move
  <2>b. r <= x.round /\ (x.round = 0 \/ x.proposal = Nil)
    BY SMTT(60), <2>2
  <2>3. /\ Move(x, t, W) /\ Frame(x, t, ProposeFields)
        /\ x.proposal = Nil => t.cast = x.cast
    BY <2>1, <2>a, <2>b, TryEnterProposal
  <2>4. Move(s, t, W)
    BY <2>2, <2>3, MoveTransitive
  <2>5. Frame(s, t, RoundFields) /\ t.round = r /\ t.proposal = x.proposal
    BY <2>2, <2>3 DEF Frame, Fields, RoundFields, ProposeFields
  <2> QED BY <1>2, <2>2, <2>3, <2>4, <2>5 DEF t
<1> QED BY <1>1, <1>2
-----------------------------------------------------------------------------
(* The timer.                                                                *)

\* The steps that only a timeout is certain to end.
TimedSteps == {1, 2, 3, 5, 7}

\* No timeout was scheduled for a step the node has not entered.
Past(s) ==
    /\ s.timer.round \in Nat /\ s.timer.step \in Nat
    /\ ~ later(s.timer.round, s.timer.step, s.round, s.step)
    /\ \A k \in s.tocks :
         /\ k.round \in Nat /\ k.step \in Nat /\ k.wait \in Nat \ {0}
         /\ ~ later(k.round, k.step, s.round, s.step)
         /\ k.step = 2 => k.round = 0

TockSet(s) == \E k \in s.tocks : k.round = s.round /\ k.step = s.step

Timed(s) == Past(s) /\ (s.panic = "none" /\ s.step \in TimedSteps => TockSet(s))

\* A move that leaves the node with the timeout it needs.
Stays(s, t, W) == Move(s, t, W) /\ (Timed(s) => Timed(t))

LEMMA StillPast ==
    ASSUME NEW s, NEW t, NEW W, Past(s), Good(s, W), Good(t, W), Ahead(s, t),
           t.timer = s.timer, \A k \in t.tocks : k \in s.tocks
    PROVE  Past(t)
<1>0. /\ s.round \in Nat /\ s.step \in 1 .. 8
      /\ t.round \in Nat /\ t.step \in 1 .. 8
  BY DEF Good, Placed
<1>1. s.round \in Nat /\ s.step \in Nat /\ t.round \in Nat /\ t.step \in Nat
  BY SMTT(60), <1>0
<1>2. ASSUME NEW r \in Nat, NEW st \in Nat, ~ later(r, st, s.round, s.step)
      PROVE  ~ later(r, st, t.round, t.step)
  BY SMTT(60), <1>1, <1>2 DEF Ahead, later
<1> QED BY <1>2 DEF Past

\* A node that leaves the ticker alone needs no other timeout, unless it enters
\* a step that has one.
LEMMA QuietStays ==
    ASSUME NEW s, NEW t, NEW W, Good(s, W), Move(s, t, W),
           t.timer = s.timer, t.tocks = s.tocks,
           \/ t.round = s.round /\ t.step = s.step /\ (t.panic = "none" => s.panic = "none")
           \/ t.step \notin TimedSteps
           \/ t.panic # "none"
    PROVE  Stays(s, t, W)
<1> SUFFICES ASSUME Timed(s) PROVE Timed(t)
  BY DEF Stays
<1>1. Past(t)
  BY StillPast DEF Timed, Move
<1> QED BY <1>1 DEF Timed, TockSet

LEMMA FrameStays ==
    ASSUME NEW s, NEW t, NEW W, NEW F, Good(s, W), Move(s, t, W), Frame(s, t, F),
           F \cap {"timer", "tocks", "round", "step", "panic"} = {}
    PROVE  Stays(s, t, W)
<1>1. /\ t.timer = s.timer /\ t.tocks = s.tocks /\ t.round = s.round /\ t.step = s.step
      /\ t.panic = s.panic
  BY DEF Frame, Fields
<1> QED BY <1>1, QuietStays

LEMMA StaysReflexive ==
    ASSUME NEW s, NEW W, Good(s, W)
    PROVE  Stays(s, s, W)
BY MoveReflexive DEF Stays

LEMMA StaysTransitive ==
    ASSUME NEW s, NEW t, NEW u, NEW W, Good(s, W), Stays(s, t, W), Stays(t, u, W)
    PROVE  Stays(s, u, W)
BY MoveTransitive DEF Stays

\* The ticker accepts the timeout of a step that is being entered, and a wait
\* for transactions always.
LEMMA TimerStarts ==
    ASSUME NEW s, NEW u, NEW W, Past(s), Good(s, W), NEW st \in 1 .. 8, NEW w \in Nat \ {0},
           u.round = s.round, u.step = st,
           s.step < st \/ (s.step = st /\ (w # 1 \/ s.timer.step = 0)),
           st = 2 => s.round = 0,
           u.timer = scheduleTimeout(s, s.round, st, w).timer,
           u.tocks = scheduleTimeout(s, s.round, st, w).tocks
    PROVE  Timed(u)
<1> DEFINE k == [round |-> s.round, step |-> st, wait |-> w]
<1>1. DOMAIN s = Fields /\ s.round \in Nat /\ s.step \in 1 .. 8
  BY DEF Good, Placed
<1>2. ~ (w = 1 /\ s.timer.step > 0 /\ ~ later(s.round, st, s.timer.round, s.timer.step))
  BY SMTT(60), <1>1 DEF Past, later
<1>3. scheduleTimeout(s, s.round, st, w) =
        [s EXCEPT !.timer = [round |-> s.round, step |-> st], !.tocks = @ \cup {k}]
  BY <1>2 DEF scheduleTimeout
<1>4. u.timer = [round |-> s.round, step |-> st] /\ u.tocks = s.tocks \cup {k}
  BY <1>1, <1>3 DEF Fields
<1>5. /\ k.round = s.round /\ k.step = st /\ k.wait = w /\ k \in u.tocks
      /\ u.timer.round = s.round /\ u.timer.step = st
  BY SMTT(60), <1>4
<1>6. ~ later(s.round, st, u.round, u.step)
  BY SMTT(60), <1>1 DEF later
<1>7. ASSUME NEW j \in s.tocks PROVE ~ later(j.round, j.step, u.round, u.step)
  BY SMTT(60), <1>1 DEF Past, later
<1> HIDE DEF k
<1>8. Past(u)
  <2>1. u.timer.round \in Nat /\ u.timer.step \in Nat
    BY SMTT(60), <1>1, <1>5
  <2>2. ASSUME NEW j \in u.tocks
        PROVE  /\ j.round \in Nat /\ j.step \in Nat /\ j.wait \in Nat \ {0}
               /\ ~ later(j.round, j.step, u.round, u.step)
               /\ j.step = 2 => j.round = 0
    <3>1. CASE j \in s.tocks
      BY <1>7, <3>1 DEF Past
    <3>2. CASE j = k
      <4>1. st \in Nat
        BY SMTT(60)
      <4> QED BY <1>1, <1>5, <1>6, <3>2, <4>1
    <3> QED BY <1>4, <3>1, <3>2
  <2> QED BY <1>5, <1>6, <2>1, <2>2 DEF Past
<1>9. TockSet(u)
  BY <1>5 DEF TockSet
<1> QED BY <1>8, <1>9 DEF Timed

LEMMA AtStep ==
    ASSUME NEW y, NEW r, NEW st, NEW t, t = atStep(y, r, st), DOMAIN t = Fields
    PROVE  t.panic # "none" \/ t.step = st
<1>1. CASE y.panic # "none"
  BY <1>1 DEF atStep
<1>2. CASE y.panic = "none"
  <2>1. t = [y EXCEPT !.round = r, !.step = st]
    BY <1>2 DEF atStep
  <2>2. DOMAIN y = Fields
    BY <2>1
  <2> QED BY <2>1, <2>2 DEF Fields
<1> QED BY <1>1, <1>2

\* Votes end the wait that the step before began.
LEMMA PrevoteTimed ==
    ASSUME NEW s, NEW W \in Opinions, NEW e, e.verdict = W, Good(s, W), Past(s),
           NEW r \in Rounds, r <= s.round,
           s.step >= 6 \/ s.round = 0 \/ s.prevotes[s.round] \notin Values,
           Timed(s) \/ (r = s.round /\ s.step < 4 /\ s.panic = "none")
    PROVE  Timed(enterPrevote(s, r, e))
<1> DEFINE t == enterPrevote(s, r, e)
<1> SUFFICES Timed(t)
  OBVIOUS
<1>1. Move(s, t, W) /\ Frame(s, t, {"step", "priv", "cast"})
  BY EnterPrevote
<1>2. \/ t = s /\ behind(s, r, 4)
      \/ t = atStep(doPrevote(s, e), r, 4)
  BY DEF enterPrevote, RoundStepPrevote
<1> HIDE DEF t
<1>3. Good(t, W) /\ Ahead(s, t) /\ DOMAIN t = Fields /\ t.timer = s.timer /\ t.tocks = s.tocks
  BY <1>1 DEF Move, Frame, Fields
<1>4. CASE t = s /\ behind(s, r, 4)
  <2>1. ~ (r = s.round /\ s.step < 4 /\ s.panic = "none")
    BY <1>4 DEF behind, later, Good, Placed
  <2> QED BY <1>4, <2>1
<1>5. CASE t = atStep(doPrevote(s, e), r, 4)
  <2>1. t.panic # "none" \/ t.step = 4
    BY <1>3, <1>5, AtStep
  <2>2. Past(t)
    BY <1>3, StillPast
  <2> QED BY SMTT(60), <2>1, <2>2 DEF Timed, TimedSteps
<1> QED BY <1>2, <1>4, <1>5

LEMMA PrecommitTimed ==
    ASSUME NEW s, NEW W \in Opinions, NEW e, e.verdict = W, Good(s, W), Past(s),
           NEW r \in Rounds, r <= s.round,
           Timed(s) \/ (r = s.round /\ s.step < 6 /\ s.panic = "none")
    PROVE  Timed(enterPrecommit(s, r, e))
<1> DEFINE t == enterPrecommit(s, r, e)
<1> SUFFICES Timed(t)
  OBVIOUS
<1>1. Move(s, t, W) /\ Frame(s, t, FetchFields \cup {"step", "priv", "cast"})
  BY EnterPrecommit
<1>2. \/ t = s /\ behind(s, r, 6)
      \/ t = atStep(precommit(s, r, e), r, 6)
  BY DEF enterPrecommit, RoundStepPrecommit
<1> HIDE DEF t
<1>3. Good(t, W) /\ Ahead(s, t) /\ DOMAIN t = Fields /\ t.timer = s.timer /\ t.tocks = s.tocks
  BY <1>1 DEF Move, Frame, Fields, FetchFields, LockFields
<1>4. CASE t = s /\ behind(s, r, 6)
  <2>1. ~ (r = s.round /\ s.step < 6 /\ s.panic = "none")
    BY <1>4 DEF behind, later, Good, Placed
  <2> QED BY <1>4, <2>1
<1>5. CASE t = atStep(precommit(s, r, e), r, 6)
  <2>1. t.panic # "none" \/ t.step = 6
    BY <1>3, <1>5, AtStep
  <2>2. Past(t)
    BY <1>3, StillPast
  <2> QED BY SMTT(60), <2>1, <2>2 DEF Timed, TimedSteps
<1> QED BY <1>2, <1>4, <1>5

\* enterPrevoteWait and enterPrecommitWait.
LEMMA WaitTimed ==
    ASSUME NEW s, NEW W, Good(s, W), Timed(s), NEW r \in Rounds, r <= s.round,
           NEW st \in {5, 7}, NEW t,
           \/ t = s
           \/ ~ behind(s, r, st) /\ t = atStep(scheduleTimeout(s, r, st, 1), r, st)
    PROVE  Timed(t)
<1>1. CASE t = s
  BY <1>1
<1>2. CASE ~ behind(s, r, st) /\ t = atStep(scheduleTimeout(s, r, st, 1), r, st)
  <2> DEFINE u == scheduleTimeout(s, r, st, 1)
  <2>0. st \in 1 .. 8 /\ st # 2 /\ r \in Nat
    BY SMTT(60) DEF Rounds
  <2>1. r = s.round /\ s.step < st /\ s.panic = "none"
    BY <1>2, <2>0, Behind
  <2>2. Frame(s, u, {"timer", "tocks"})
    BY <2>0, Schedule
  <2> HIDE DEF u
  <2>3. t = [u EXCEPT !.round = r, !.step = st] /\ DOMAIN u = Fields
    BY <1>2, <2>1, <2>2 DEF atStep, Frame, Fields, u
  <2>4. t.timer = u.timer /\ t.tocks = u.tocks /\ t.round = s.round /\ t.step = st
    BY <2>1, <2>3 DEF Fields
  <2>5. t.timer = scheduleTimeout(s, s.round, st, 1).timer
        /\ t.tocks = scheduleTimeout(s, s.round, st, 1).tocks
    BY <2>1, <2>4 DEF u
  <2>6. Past(s) /\ 1 \in Nat \ {0}
    BY SMTT(60) DEF Timed
  <2> QED BY <2>0, <2>1, <2>4, <2>5, <2>6, TimerStarts
<1> QED BY <1>1, <1>2

LEMMA PrevoteWaitTimed ==
    ASSUME NEW s, NEW W, Good(s, W), Timed(s), NEW r \in Rounds, r <= s.round,
           HasTwoThirdsAny(s.prevotes[r])
    PROVE  Timed(enterPrevoteWait(s, r))
BY WaitTimed DEF enterPrevoteWait, RoundStepPrevoteWait

LEMMA PrecommitWaitTimed ==
    ASSUME NEW s, NEW W, Good(s, W), Timed(s), NEW r \in Rounds, r <= s.round,
           HasTwoThirdsAny(s.precommits[r])
    PROVE  Timed(enterPrecommitWait(s, r))
BY WaitTimed DEF enterPrecommitWait, RoundStepPrecommitWait

\* A round has begun: the node waits for a proposal, or for transactions.
LEMMA ProposeTimed ==
    ASSUME NEW s, NEW W \in Opinions, NEW e, e.verdict = W, e.made \in Values, Good(s, W),
           Past(s), s.step = 2, s.panic = "none", s.round = 0 \/ s.proposal = Nil,
           NEW w \in Nat \ {0}
    PROVE  Timed(tryEnterProposal(s, s.round, w, e))
<1> DEFINE r == s.round
           t == tryEnterProposal(s, r, w, e)
           u == scheduleTimeout(s, r, 3, 1)
           x == defaultDecideProposal(u, r, e)
<1> SUFFICES Timed(t)
  OBVIOUS
<1>1. r \in Nat /\ r <= s.round /\ DOMAIN s = Fields
  BY SMTT(60) DEF Good, Placed
<1>2. ~ behind(s, r, RoundStepPropose)
  BY SMTT(60), <1>1 DEF behind, later, RoundStepPropose
<1>3. Move(s, u, W) /\ Frame(s, u, {"timer", "tocks"})
  BY <1>1, Schedule
<1>4. /\ Good(u, W) /\ u.round = r /\ u.step = 2 /\ u.panic = "none"
      /\ u.proposal = s.proposal
  BY <1>3 DEF Move, Frame, Fields
<1>5. \/ t = donePropose(u, r, e)
      \/ r = 0 /\ t = scheduleTimeout(s, r, 2, w + 1)
      \/ t = donePropose(x, r, e) /\ e.made # Nil
  BY <1>2 DEF tryEnterProposal, enterPropose, RoundStepPropose, RoundStepNewRound
<1>6. ASSUME NEW y, Good(y, W), Frame(u, y, {"step", "priv", "own"}), y.step = 3, NEW z,
             z = IF isProposalComplete(y) THEN enterPrevote(y, y.round, e) ELSE y
      PROVE  Timed(z)
  <2>1. /\ y.timer = u.timer /\ y.tocks = u.tocks /\ y.round = s.round
        /\ y.proposal = s.proposal
    BY <1>4, <1>6 DEF Frame, Fields
  <2>2. Timed(y)
    <3>1. 3 \in 1 .. 8 /\ 3 # 2 /\ 1 \in Nat \ {0} /\ s.step < 3
      BY SMTT(60)
    <3> QED BY <1>6, <2>1, <3>1, TimerStarts
  <2>3. CASE z = y
    BY <2>2, <2>3
  <2>4. CASE z # y
    <3>1. y.proposal # Nil /\ y.round = 0 /\ z = enterPrevote(y, 0, e)
      BY <1>6, <2>1, <2>4 DEF isProposalComplete
    <3>2. 0 \in Rounds
      BY SMTT(60), VotingAssumption DEF Rounds
    <3>3. 0 <= y.round
      BY SMTT(60), <3>1
    <3> QED BY <1>6, <2>2, <3>1, <3>2, <3>3, PrevoteTimed DEF Timed
  <2> QED BY <2>3, <2>4
<1>7. CASE t = donePropose(u, r, e)
  <2> DEFINE y == atStep(u, r, 3)
  <2>1. Frame(u, y, {"step"}) /\ y.step = 3
    BY <1>3, <1>4 DEF atStep, Frame, Fields
  <2>2. t = IF isProposalComplete(y) THEN enterPrevote(y, y.round, e) ELSE y
    BY <1>7 DEF donePropose, RoundStepPropose
  <2> HIDE DEF y, u, t
  <2>3. 3 \in 1 .. 8 /\ u.step <= 3
    BY SMTT(60), <1>4
  <2>4. Good(y, W)
    BY <1>4, <2>1, <2>3, RaiseStep DEF Move
  <2>5. Frame(u, y, {"step", "priv", "own"})
    BY <2>1 DEF Frame
  <2> QED BY <1>6, <2>1, <2>2, <2>4, <2>5
<1>8. CASE r = 0 /\ t = scheduleTimeout(s, r, 2, w + 1)
  <2>1. Frame(s, t, {"timer", "tocks"})
    BY <1>1, <1>8, Schedule
  <2>2. t.round = s.round /\ t.step = 2
    BY <2>1 DEF Frame, Fields
  <2>3. 2 \in 1 .. 8 /\ w + 1 \in Nat \ {0} /\ w + 1 # 1
    BY SMTT(60)
  <2> HIDE DEF t
  <2> QED BY <1>8, <2>2, <2>3, TimerStarts
<1>9. CASE t = donePropose(x, r, e) /\ e.made # Nil
  <2> DEFINE y == atStep(x, r, 3)
  <2>1. t = IF isProposalComplete(y) THEN enterPrevote(y, y.round, e) ELSE y
    BY <1>9 DEF donePropose, RoundStepPropose
  <2> HIDE DEF u, t
  <2>2. Move(u, y, W) /\ Frame(u, y, {"step", "priv", "own"}) /\ y.step = 3
    <3>1. u.step < 3
      BY SMTT(60), <1>4
    <3>2. y = atStep(defaultDecideProposal(u, u.round, e), u.round, RoundStepPropose)
      BY <1>4 DEF RoundStepPropose
    <3> HIDE DEF y, x
    <3> QED BY <1>4, <1>9, <3>1, <3>2, DecideProposal
  <2> HIDE DEF y, x
  <2> QED BY <1>6, <2>1, <2>2 DEF Move
<1> QED BY <1>5, <1>7, <1>8, <1>9

LEMMA NewRoundTimed ==
    ASSUME NEW s, NEW W \in Opinions, NEW e, e.verdict = W, e.made \in Values, Good(s, W),
           NEW r \in Nat, Past(s), Timed(s) \/ RoundBegins(s, r)
    PROVE  Timed(enterNewRound(s, r, e))
<1> DEFINE fresh == IF r = 0 THEN s
                    ELSE [dropParts(s, Nil) EXCEPT !.proposal = Nil, !.block = Nil]
           x == SetRound(atStep(fresh, r, RoundStepNewRound), r + 1)
           t == enterNewRound(s, r, e)
<1>0. s.round \in Nat /\ s.step \in 1 .. 8
  BY DEF Good, Placed
<1>1. CASE ~ RoundBegins(s, r)
  BY SMTT(60), <1>0, <1>1 DEF enterNewRound, RoundBegins, RoundStepNewHeight
<1>2. CASE RoundBegins(s, r)
  <2>1. t = tryEnterProposal(x, r, 1, e)
    BY SMTT(60), <1>0, <1>2 DEF enterNewRound, RoundBegins, RoundStepNewHeight
  <2>2. /\ Move(s, x, W) /\ x.timer = s.timer /\ x.tocks = s.tocks
        /\ x.round = r /\ x.step = 2 /\ x.panic = "none"
        /\ IF r = 0 THEN x.proposal = s.proposal ELSE x.proposal = Nil
    BY <1>2, NewRoundMove
  <2> HIDE DEF x, t
  <2>3. Good(x, W) /\ Past(x)
    BY <1>0, <2>2, StillPast DEF Move
  <2>4. Timed(t)
    BY SMTT(60), <2>1, <2>2, <2>3, ProposeTimed
  <2> QED BY <2>4 DEF t
<1> QED BY <1>1, <1>2

\* What the functions that enter a step do, as moves that keep the timeout.
LEMMA PrevoteStays ==
    ASSUME NEW s, NEW W \in Opinions, NEW e, e.verdict = W, Good(s, W),
           NEW r \in Rounds, r <= s.round,
           s.step >= 6 \/ s.round = 0 \/ s.prevotes[s.round] \notin Values
    PROVE  Stays(s, enterPrevote(s, r, e), W)
BY EnterPrevote, PrevoteTimed DEF Stays, Timed

LEMMA PrecommitStays ==
    ASSUME NEW s, NEW W \in Opinions, NEW e, e.verdict = W, Good(s, W),
           NEW r \in Rounds, r <= s.round
    PROVE  Stays(s, enterPrecommit(s, r, e), W)
BY EnterPrecommit, PrecommitTimed DEF Stays, Timed

LEMMA PrevoteWaitStays ==
    ASSUME NEW s, NEW W, Good(s, W), NEW r \in Rounds, r <= s.round,
           HasTwoThirdsAny(s.prevotes[r])
    PROVE  Stays(s, enterPrevoteWait(s, r), W)
BY EnterPrevoteWait, PrevoteWaitTimed DEF Stays

LEMMA PrecommitWaitStays ==
    ASSUME NEW s, NEW W, Good(s, W), NEW r \in Rounds, r <= s.round,
           HasTwoThirdsAny(s.precommits[r])
    PROVE  Stays(s, enterPrecommitWait(s, r), W)
BY EnterPrecommitWait, PrecommitWaitTimed DEF Stays

LEMMA NewRoundStays ==
    ASSUME NEW s, NEW W \in Opinions, NEW e, e.verdict = W, e.made \in Values, Good(s, W),
           NEW r \in Nat
    PROVE  Stays(s, enterNewRound(s, r, e), W)
BY EnterNewRound, NewRoundTimed DEF Stays, Timed
-----------------------------------------------------------------------------
(* The handlers of state.go.  Each stays within the height, ends it, or ends *)
(* the committee.                                                            *)

\* A height, or a committee, begins: no votes, and no lock.
Fresh(s, W) ==
    /\ Good(s, W) /\ s.cast = NothingCast /\ s.prevotes = NoTallies
    /\ s.proposal = Nil /\ s.lockedBlock = Nil

\* What a handler does within a height and a committee.
Within(s, t, W) ==
    /\ Good(t, W)
    /\ t.height = s.height /\ t.updates = s.updates
    /\ \A r \in Rounds : s.prevotes[r] \in Values => t.prevotes[r] = s.prevotes[r]
    /\ Ahead(s, t) /\ NewVotes(s, t) /\ NewTocks(s, t)
    /\ Timed(s) => Timed(t)

\* What a handler does when a height ends, or a new committee takes over.
NextHeight(s, t, W) ==
    /\ Fresh(t, W) /\ TocksPassed(t) /\ Timed(t)
    /\ t.height > s.height /\ t.updates = s.updates

NextCommittee(s, t, W) ==
    /\ Fresh(t, W) /\ TocksPassed(t) /\ t.height >= s.height /\ t.updates = s.updates + 1
    /\ t.height = s.height => t.round > s.round \/ t.round = 0
    /\ s.updates < MaxUpdates

Inv(s, W) == Good(s, W) /\ PolkasPassed(s) /\ TocksPassed(s) /\ s.round \in Rounds

\* What a handler does to a state between two handlers.
Handled(s, t, W) ==
    \/ Within(s, t, W) /\ PolkasPassed(t) /\ TocksPassed(t)
    \/ NextHeight(s, t, W)
    \/ NextCommittee(s, t, W)
-----------------------------------------------------------------------------
LEMMA MoveIsWithin ==
    ASSUME NEW s, NEW t, NEW W, Stays(s, t, W)
    PROVE  Within(s, t, W)
BY DEF Stays, Move, Within

LEMMA WithinMove ==
    ASSUME NEW s, NEW t, NEW u, NEW W, Good(s, W), Within(s, t, W), Stays(t, u, W)
    PROVE  Within(s, u, W)
<1>1. /\ s.round \in Nat /\ t.round \in Nat /\ u.round \in Nat
      /\ s.step \in Nat /\ t.step \in Nat /\ u.step \in Nat
  BY SMTT(60) DEF Stays, Move, Within, Good, Placed
<1>2. Ahead(s, t) /\ Ahead(t, u)
  BY DEF Stays, Move, Within
<1>3. s.round <= t.round /\ t.round <= u.round /\ Ahead(s, u)
  BY SMTT(60), <1>1, <1>2 DEF Ahead, later
<1>4. NewVotes(s, t) /\ NewVotes(t, u) /\ NewTocks(s, t) /\ NewTocks(t, u)
  BY DEF Stays, Move, Within
<1>5. NewVotes(s, u)
  BY <1>1, <1>3, <1>4, VotesTransitive
<1>6. NewTocks(s, u)
  <2>1. \A n \in Nat : n <= t.round => n <= u.round
    BY SMTT(60), <1>1, <1>3
  <2> QED BY <1>4, <2>1 DEF NewTocks
<1> QED BY <1>3, <1>5, <1>6 DEF Stays, Move, Within

LEMMA WithinTocks ==
    ASSUME NEW s, NEW t, NEW W, Good(s, W), Within(s, t, W), TocksPassed(s)
    PROVE  TocksPassed(t)
<1>1. s.round \in Nat /\ t.round \in Nat /\ s.round <= t.round
  BY SMTT(60) DEF Within, Good, Placed, Ahead, later
<1> QED BY SMTT(60), <1>1 DEF TocksPassed, Within, NewTocks

LEMMA MoveHandles ==
    ASSUME NEW s, NEW t, NEW W, Inv(s, W), Stays(s, t, W)
    PROVE  Handled(s, t, W)
BY MoveIsWithin, MoveKeepsPassed DEF Inv, Handled, Stays

\* Handlers go on after a part that stayed within the height.
LEMMA WithinHandles ==
    ASSUME NEW s, NEW t, NEW u, NEW W, Inv(s, W), Within(s, t, W), PolkasPassed(t),
           Stays(t, u, W) \/ NextHeight(t, u, W)
    PROVE  Handled(s, u, W)
<1>1. CASE Stays(t, u, W)
  <2>1. Good(s, W) /\ Good(t, W) /\ Move(t, u, W)
    BY <1>1 DEF Inv, Within, Stays
  <2>2. Within(s, u, W)
    BY <1>1, <2>1, WithinMove
  <2>3. PolkasPassed(u)
    BY <1>1, <2>1, MoveKeepsPassed DEF Stays
  <2> QED BY <2>2, <2>3, WithinTocks DEF Inv, Handled
<1>2. CASE NextHeight(t, u, W)
  BY <1>2 DEF NextHeight, Within, Handled
<1> QED BY <1>1, <1>2
-----------------------------------------------------------------------------
(* A height begins.                                                          *)

\* Neither the votes nor the lock speak of the agent's opinions.
LEMMA FreshForAll ==
    ASSUME NEW s, NEW W, NEW X, Fresh(s, W)
    PROVE  Fresh(s, X) /\ PolkasPassed(s)
<1>1. Locked(s, X)
  BY DEF Fresh, Good, Locked
<1>2. PolkasPassed(s)
  BY NodeAssumption DEF Fresh, NoTallies, PolkasPassed
<1> QED BY <1>1, <1>2 DEF Fresh, Good

LEMMA FreshState ==
    ASSUME NEW s, NEW W, DOMAIN s = Fields,
           s.height \in Nat, s.updates \in Nat, s.chain \in Nat, s.height <= s.chain + 1,
           s.panic \in {"none", "finalizeCommit"}, s.round = 0, s.step = 1, s.hvsRound = 0,
           s.proposal = Nil, s.block = Nil, s.parts = Nil,
           s.lockedRound = 0, s.lockedBlock = Nil, s.lockedParts = Nil,
           s.validRound = 0, s.validBlock = Nil, s.commitRound = NoRound,
           s.prevotes = NoTallies, s.precommits = NoTallies, s.cast = NothingCast,
           s.priv = [round |-> 0, step |-> 0], s.own = Nil \/ s.own \in Proposals
    PROVE  Fresh(s, W)
<1>1. Placed(s)
  BY SMTT(60) DEF Placed
<1>2. NoTallies \in [Rounds -> Tally] /\ Nil \in Values
  BY DEF NoTallies, Tally, Values
<1>3. Heard(s)
  BY <1>2 DEF Heard
<1>4. Locked(s, W) /\ Valid(s) /\ BlockThere(s)
  <2>1. 0 \in Nat /\ 0 <= s.round
    BY SMTT(60)
  <2> QED BY <1>2, <2>1 DEF Locked, Valid, BlockThere
<1>5. /\ NothingCast \in [VoteSteps -> [Rounds -> CastVotes \cup {NoVote}]]
      /\ \A st \in VoteSteps, r \in Rounds : NothingCast[st][r] = NoVote
  BY DEF NothingCast, VoteSteps
<1>6. Signed(s)
  BY SMTT(60), <1>5 DEF Signed
<1>7. stepPrecommit \in VoteSteps /\ \A b \in Blocks : For(NoVote) # b
  BY VotingAssumption DEF VoteSteps, For
<1>8. Precommits(s) /\ Prevotes(s)
  BY <1>5, <1>7 DEF Precommits, Prevotes
<1> QED BY <1>1, <1>3, <1>4, <1>6, <1>8 DEF Fresh, Good

KeptFields == {"chain", "updates", "panic", "member", "saved", "synced"}

\* updateToState, which a commit or a new committee or a new block calls.
LEMMA UpdateToState ==
    ASSUME NEW s, NEW W, Good(s, W)
    PROVE  LET t == updateToState(s) IN
           /\ DOMAIN t = Fields /\ \A f \in KeptFields : t[f] = s[f]
           /\ t.height = s.chain + 1
           /\ t.round = 0 /\ t.step = 1 /\ t.hvsRound = 0
           /\ t.proposal = Nil /\ t.block = Nil /\ t.parts = Nil
           /\ t.lockedRound = 0 /\ t.lockedBlock = Nil /\ t.lockedParts = Nil
           /\ t.validRound = 0 /\ t.validBlock = Nil /\ t.commitRound = NoRound
           /\ t.prevotes = NoTallies /\ t.precommits = NoTallies /\ t.cast = NothingCast
           /\ IF s.height = s.chain + 1
                THEN t.own = s.own /\ t.tocks = s.tocks
                ELSE t.own = Nil /\ t.tocks = {} /\ t.priv = [round |-> 0, step |-> 0]
                     /\ t.timer = [round |-> 0, step |-> 0]
<1> DEFINE u == atHeight(s, s.chain + 1)
           t == updateToState(s)
<1>1. DOMAIN s = Fields
  BY DEF Good, Placed
<1>2. /\ DOMAIN u = Fields /\ \A f \in KeptFields : u[f] = s[f]
      /\ u.height = s.chain + 1
      /\ IF s.height = s.chain + 1
           THEN u.own = s.own /\ u.tocks = s.tocks
           ELSE u.own = Nil /\ u.tocks = {} /\ u.priv = [round |-> 0, step |-> 0]
                /\ u.timer = [round |-> 0, step |-> 0]
  <2>1. CASE s.height = s.chain + 1
    BY <1>1, <2>1 DEF atHeight
  <2>2. CASE s.height # s.chain + 1
    BY <1>1, <2>2 DEF atHeight, Fields, KeptFields
  <2> QED BY <2>1, <2>2
<1>3. t = [u EXCEPT
            !.round = 0, !.step = RoundStepNewHeight,
            !.proposal = Nil, !.block = Nil, !.parts = Nil,
            !.lockedRound = 0, !.lockedBlock = Nil, !.lockedParts = Nil,
            !.validRound = 0, !.validBlock = Nil, !.validParts = Nil,
            !.prevotes = NoTallies, !.precommits = NoTallies, !.hvsRound = 0,
            !.cast = NothingCast,
            !.lastCommit = IF s.commitRound # NoRound THEN s.height ELSE 0,
            !.commitRound = NoRound]
  BY DEF updateToState, Good, Heard, TwoThirdsMajority
<1> HIDE DEF t, u
<1>4. /\ DOMAIN t = Fields /\ \A f \in KeptFields : t[f] = u[f]
      /\ t.height = u.height /\ t.own = u.own /\ t.tocks = u.tocks /\ t.priv = u.priv
      /\ t.timer = u.timer
  BY <1>2, <1>3 DEF Fields, KeptFields
<1>5. /\ t.round = 0 /\ t.step = 1 /\ t.hvsRound = 0
      /\ t.proposal = Nil /\ t.block = Nil /\ t.parts = Nil
      /\ t.lockedRound = 0 /\ t.lockedBlock = Nil /\ t.lockedParts = Nil
      /\ t.validRound = 0 /\ t.validBlock = Nil /\ t.commitRound = NoRound
      /\ t.prevotes = NoTallies /\ t.precommits = NoTallies /\ t.cast = NothingCast
  BY <1>2, <1>3 DEF Fields, RoundStepNewHeight
<1> QED BY <1>2, <1>4, <1>5 DEF t, KeptFields

\* The ticker accepts the first timeout of a height.
LEMMA FirstTimer ==
    ASSUME NEW s, NEW W, Good(s, W), s.round = 0, s.step = 1,
           s.timer = [round |-> 0, step |-> 0], s.tocks = {}
    PROVE  Timed(scheduleTimeout(s, 0, RoundStepNewHeight, 1))
<1> DEFINE t == scheduleTimeout(s, 0, RoundStepNewHeight, 1)
<1>1. s.timer.round = 0 /\ s.timer.step = 0
  BY SMTT(60)
<1>2. Past(s)
  BY SMTT(60), <1>1 DEF Past, later
<1>3. Frame(s, t, {"timer", "tocks"}) /\ t = scheduleTimeout(s, s.round, 1, 1)
  BY SMTT(60), Schedule DEF RoundStepNewHeight
<1> HIDE DEF t
<1>4. t.round = s.round /\ t.step = 1
  BY <1>3 DEF Frame, Fields
<1>5. 1 \in 1 .. 8 /\ 1 \in Nat \ {0} /\ 1 # 2
  BY SMTT(60)
<1>6. Timed(t)
  BY <1>1, <1>2, <1>3, <1>4, <1>5, TimerStarts
<1> QED BY <1>6 DEF t

\* The chain has the block of this height: the next height begins.
LEMMA HeightEnds ==
    ASSUME NEW s, NEW W, Good(s, W), s.height # s.chain + 1, NEW u,
           \/ u = updateToState(s)
           \/ u = [updateToState(s) EXCEPT !.priv = [round |-> 0, step |-> 0]]
    PROVE  NextHeight(s, scheduleTimeout(u, 0, RoundStepNewHeight, 1), W)
<1> DEFINE v == updateToState(s)
           t == scheduleTimeout(u, 0, RoundStepNewHeight, 1)
<1>1. /\ DOMAIN v = Fields /\ \A f \in KeptFields : v[f] = s[f]
      /\ v.height = s.chain + 1
      /\ v.round = 0 /\ v.step = 1 /\ v.hvsRound = 0
      /\ v.proposal = Nil /\ v.block = Nil /\ v.parts = Nil
      /\ v.lockedRound = 0 /\ v.lockedBlock = Nil /\ v.lockedParts = Nil
      /\ v.validRound = 0 /\ v.validBlock = Nil /\ v.commitRound = NoRound
      /\ v.prevotes = NoTallies /\ v.precommits = NoTallies /\ v.cast = NothingCast
      /\ v.own = Nil /\ v.tocks = {} /\ v.priv = [round |-> 0, step |-> 0]
      /\ v.timer = [round |-> 0, step |-> 0]
  BY UpdateToState
<1> HIDE DEF v
<1>2. Frame(v, u, {"priv"}) /\ u.priv = [round |-> 0, step |-> 0]
  BY <1>1 DEF Frame, Fields, v
<1>3. /\ DOMAIN u = Fields /\ u.height = s.chain + 1
      /\ u.round = 0 /\ u.step = 1 /\ u.hvsRound = 0
      /\ u.proposal = Nil /\ u.block = Nil /\ u.parts = Nil
      /\ u.lockedRound = 0 /\ u.lockedBlock = Nil /\ u.lockedParts = Nil
      /\ u.validRound = 0 /\ u.validBlock = Nil /\ u.commitRound = NoRound
      /\ u.prevotes = NoTallies /\ u.precommits = NoTallies /\ u.cast = NothingCast
      /\ u.own = Nil /\ u.tocks = {} /\ u.priv = [round |-> 0, step |-> 0]
      /\ u.timer = [round |-> 0, step |-> 0]
  BY SMTT(60), <1>1, <1>2 DEF Frame, Fields
<1>4. u.chain = s.chain /\ u.updates = s.updates /\ u.panic = s.panic
  BY <1>1, <1>2 DEF Frame, Fields, KeptFields
<1>5. /\ s.height \in Nat /\ s.updates \in Nat /\ s.chain \in Nat /\ s.height <= s.chain + 1
      /\ s.panic \in {"none", "finalizeCommit"}
  BY DEF Good, Placed
<1>6. Fresh(u, W)
  BY SMTT(60), <1>3, <1>4, <1>5, FreshState
<1>7. Move(u, t, W) /\ Frame(u, t, {"timer", "tocks"})
  BY SMTT(60), <1>3, <1>6, Schedule DEF Fresh
<1>8. Timed(t)
  BY <1>3, <1>6, <1>7, FirstTimer DEF Fresh, t
<1> HIDE DEF t
<1>9. Fresh(t, W) /\ t.height > s.height /\ t.updates = s.updates
  BY SMTT(60), <1>3, <1>4, <1>5, <1>6, <1>7 DEF Fresh, Move, Frame, Fields
<1>10. TocksPassed(t)
  BY <1>3, <1>6, <1>7, MoveKeepsPassed DEF Fresh, TocksPassed
<1> QED BY <1>8, <1>9, <1>10 DEF NextHeight, t
-----------------------------------------------------------------------------
(* Committing.                                                               *)

\* The chain grows, and what is stored of it.
LEMMA ChainMove ==
    ASSUME NEW s, NEW t, NEW W, Good(s, W), Frame(s, t, {"chain", "saved", "synced"}),
           t.chain \in Nat, t.chain >= s.chain
    PROVE  Stays(s, t, W)
<1>1. /\ t.round = s.round /\ t.step = s.step /\ t.tocks = s.tocks
      /\ t.height = s.height /\ t.updates = s.updates /\ t.hvsRound = s.hvsRound
      /\ t.panic = s.panic /\ DOMAIN t = Fields
  BY DEF Frame, Fields
<1>2. s.round \in Nat /\ s.step \in 1 .. 8
  BY DEF Good, Placed
<1>3. Placed(t)
  <2>1. s.height \in Nat /\ s.chain \in Nat /\ s.height <= s.chain + 1
    BY DEF Good, Placed
  <2>2. t.height <= t.chain + 1
    BY SMTT(60), <1>1, <2>1
  <2> QED BY <1>1, <2>2 DEF Good, Placed
<1>4. Ahead(s, t) /\ NewTocks(s, t)
  BY SMTT(60), <1>1, <1>2 DEF Ahead, later, NewTocks
<1>5. Heard(t)
  BY SMTT(60), KeepHeard DEF Good
<1>6. Locked(t, W) /\ Valid(t)
  BY SMTT(60), <1>1, <1>2, KeepLocked, KeepValid DEF Good
<1>7. BlockThere(t) /\ Signed(t)
  BY SMTT(60), <1>1, <1>2, <1>4, KeepBlock, KeepSigned DEF Good
<1>8. Precommits(t) /\ Prevotes(t)
  BY SMTT(60), <1>1, <1>2, KeepVotes DEF Good
<1>9. Good(t, W)
  BY <1>3, <1>5, <1>6, <1>7, <1>8 DEF Good
<1>10. Move(s, t, W)
  BY <1>4, <1>9, QuietMove
<1> QED BY <1>10, FrameStays

LEMMA FinalizeCommit ==
    ASSUME NEW s, NEW W, Good(s, W), NEW e, NEW t, t = s \/ t = finalizeCommit(s, e)
    PROVE  Stays(s, t, W) \/ NextHeight(s, t, W)
<1>1. DOMAIN s = Fields /\ s.height \in Nat /\ s.chain \in Nat /\ s.height <= s.chain + 1
  BY DEF Good, Placed
<1>2. CASE t = s
  BY <1>2, StaysReflexive
<1>3. CASE t = [s EXCEPT !.panic = "finalizeCommit"]
  <2>1. Frame(s, t, {"panic"}) /\ t.panic = "finalizeCommit"
    BY <1>1, <1>3 DEF Frame, Fields
  <2>2. /\ t.round = s.round /\ t.step = s.step /\ t.tocks = s.tocks
        /\ s.round \in Nat /\ s.step \in 1 .. 8
    BY <2>1 DEF Frame, Fields, Good, Placed
  <2>3. Placed(t)
    BY <2>1 DEF Good, Placed, Frame, Fields
  <2>4. Ahead(s, t) /\ NewTocks(s, t)
    BY SMTT(60), <2>2 DEF Ahead, later, NewTocks
  <2>5. Heard(t)
    BY <2>1, KeepHeard DEF Good
  <2>6. Locked(t, W) /\ Valid(t)
    BY SMTT(60), <2>1, <2>2, KeepLocked, KeepValid DEF Good
  <2>7. BlockThere(t) /\ Signed(t)
    BY SMTT(60), <2>1, <2>2, <2>4, KeepBlock, KeepSigned DEF Good
  <2>8. Precommits(t) /\ Prevotes(t)
    BY SMTT(60), <2>1, <2>2, KeepVotes DEF Good
  <2>9. Good(t, W)
    BY <2>3, <2>5, <2>6, <2>7, <2>8 DEF Good
  <2>10. Move(s, t, W)
    BY <2>1, <2>4, <2>9, QuietMove
  <2>11. t.timer = s.timer /\ t.panic # "none"
    BY <2>1 DEF Frame, Fields
  <2> QED BY <2>2, <2>10, <2>11, QuietStays
<1>4. CASE t # s /\ t # [s EXCEPT !.panic = "finalizeCommit"]
  <2> DEFINE c == [s EXCEPT !.chain = Max({@, s.height}),
                            !.saved = [height |-> s.height, block |-> s.block,
                                       whole |-> s.parts.complete = "yes"]]
  <2>1. t = scheduleTimeout(updateToState(c), 0, RoundStepNewHeight, 1)
    BY <1>4 DEF finalizeCommit, scheduleRound0
  <2>2. LET m == Max({s.chain, s.height}) IN m \in Nat /\ m >= s.height /\ m >= s.chain
    <3>1. \E x \in {s.chain, s.height} : \A y \in {s.chain, s.height} : x >= y
      BY SMTT(60), <1>1
    <3> QED BY <1>1, <3>1 DEF Max
  <2>3. /\ Frame(s, c, {"chain", "saved", "synced"})
        /\ c.chain \in Nat /\ c.chain >= s.height /\ c.chain >= s.chain
    BY <1>1, <2>2 DEF Frame, Fields
  <2> HIDE DEF c
  <2>4. Move(s, c, W)
    BY <2>3, ChainMove DEF Stays
  <2>5. Good(c, W) /\ c.height = s.height /\ c.updates = s.updates
    BY <2>4 DEF Move
  <2>6. NextHeight(c, t, W)
    BY SMTT(60), <1>1, <2>1, <2>3, <2>5, HeightEnds
  <2> QED BY <2>5, <2>6 DEF NextHeight
<1> QED BY <1>2, <1>3, <1>4

LEMMA TryFinalizeCommit ==
    ASSUME NEW s, NEW W, Good(s, W), NEW e
    PROVE  Stays(s, tryFinalizeCommit(s, e), W) \/ NextHeight(s, tryFinalizeCommit(s, e), W)
BY FinalizeCommit DEF tryFinalizeCommit

\* The step and the round of a commit.
LEMMA CommitMove ==
    ASSUME NEW s, NEW t, NEW W, Good(s, W), Frame(s, t, {"step", "commitRound"}), t.step = 8,
           t.commitRound \in Rounds, s.precommits[t.commitRound] \in Values
    PROVE  Stays(s, t, W)
<1>1. /\ s.round \in Nat /\ s.step \in 1 .. 8 /\ t.round = s.round /\ t.tocks = s.tocks
  BY DEF Good, Placed, Frame, Fields
<1>2. Placed(t)
  <2>1. /\ DOMAIN t = Fields /\ t.height = s.height /\ t.updates = s.updates
        /\ t.chain = s.chain /\ t.hvsRound = s.hvsRound /\ t.panic = s.panic /\ Placed(s)
    BY DEF Good, Frame, Fields
  <2> QED BY SMTT(60), <1>1, <2>1 DEF Placed
<1>3. Heard(t)
  BY DEF Good, Heard, Frame, Fields
<1>4. Ahead(s, t) /\ NewTocks(s, t)
  BY SMTT(60), <1>1 DEF Ahead, later, NewTocks
<1>5. t.round \in Nat /\ s.round <= t.round /\ t.step \in 1 .. 8 /\ s.step <= t.step
  BY SMTT(60), <1>1
<1>6. Locked(t, W)
  BY <1>1, <1>5, KeepLocked DEF Good
<1>7. Valid(t)
  BY <1>1, <1>5, KeepValid DEF Good
<1>8. BlockThere(t)
  BY <1>1, <1>5, KeepBlock DEF Good
<1>9. Signed(t)
  BY <1>1, <1>4, <1>5, KeepSigned DEF Good
<1>10. Precommits(t) /\ Prevotes(t)
  BY <1>1, <1>5, KeepVotes DEF Good
<1>11. Good(t, W)
  BY <1>2, <1>3, <1>6, <1>7, <1>8, <1>9, <1>10 DEF Good
<1>12. Move(s, t, W)
  BY <1>4, <1>11, QuietMove
<1>13. t.step \notin TimedSteps
  BY SMTT(60) DEF TimedSteps
<1>14. t.timer = s.timer
  BY DEF Frame, Fields
<1> QED BY <1>1, <1>12, <1>13, <1>14, QuietStays

\* enterCommit takes the locked block, or gets ready to fetch the block.  The
\* step is entered first here: the block does not depend on it.
LEMMA EnterCommit ==
    ASSUME NEW s, NEW W, Good(s, W), NEW r \in Rounds, s.precommits[r] \in Values,
           s.precommits[r] # Nil, NEW e
    PROVE  Stays(s, enterCommit(s, r, e), W) \/ NextHeight(s, enterCommit(s, r, e), W)
<1> DEFINE b == s.precommits[r]
           m == [s EXCEPT !.step = 8, !.commitRound = r]
           l == useLockedBlock(s, b)
           f == fetchCommitBlock(l, b)
           u == [f EXCEPT !.step = RoundStepCommit, !.commitRound = r]
           t == enterCommit(s, r, e)
           C == {"parts", "block", "validParts", "lockedParts"}
<1>1. DOMAIN s = Fields /\ s.step \in 1 .. 8
  BY DEF Good, Placed
<1>2. CASE t = s
  BY <1>2, StaysReflexive
<1>3. CASE t # s
  <2>1. t = tryFinalizeCommit(u, e)
    BY <1>3 DEF enterCommit, TwoThirdsMajority
  <2>2. Frame(s, m, {"step", "commitRound"}) /\ m.step = 8 /\ m.commitRound = r
    BY <1>1 DEF Frame, Fields
  <2> HIDE DEF m
  <2>3. Stays(s, m, W)
    BY <1>1, <2>2, CommitMove
  <2>4. /\ Frame(s, l, C) /\ Unspoiled(s.lockedParts, l.lockedParts)
        /\ Unspoiled(s.validParts, l.validParts)
        /\ \/ l.block = s.block /\ l.parts = s.parts
           \/ l.block = b /\ l.parts = MadePartSet(b)
    <3>1. CASE s.lockedBlock = b
      <4>1. l = [dropParts(s, s.lockedParts) EXCEPT !.block = b]
        BY <3>1 DEF useLockedBlock
      <4>2. /\ Frame(s, l, C) /\ l.lockedParts = Orphan(s.lockedParts)
            /\ l.validParts = Orphan(s.validParts) /\ l.block = b /\ l.parts = s.lockedParts
        BY <1>1, <4>1 DEF dropParts, Frame, Fields
      <4>3. s.lockedParts = MadePartSet(b)
        BY <3>1 DEF Good, Locked
      <4> QED BY <4>2, <4>3, OrphanUnspoiled
    <3>2. CASE s.lockedBlock # b
      <4>1. l = s
        BY <3>2 DEF useLockedBlock
      <4> QED BY <1>1, <4>1 DEF Frame, Unspoiled
    <3> QED BY <3>1, <3>2
  <2> HIDE DEF l
  <2>5. /\ Frame(s, f, C) /\ Unspoiled(s.lockedParts, f.lockedParts)
        /\ Unspoiled(s.validParts, f.validParts)
        /\ \/ f.block = s.block /\ f.parts = s.parts
           \/ f.block = b /\ f.parts = MadePartSet(b)
           \/ f.block = Nil /\ f.parts = NewPartSet(b)
    <3>1. CASE f = l
      BY <2>4, <3>1
    <3>2. CASE f # l
      <4>1. f = [dropParts(l, NewPartSet(b)) EXCEPT !.block = Nil]
        BY <3>2 DEF fetchCommitBlock
      <4>2. /\ Frame(l, f, C) /\ f.lockedParts = Orphan(l.lockedParts)
            /\ f.validParts = Orphan(l.validParts) /\ f.block = Nil /\ f.parts = NewPartSet(b)
        BY <2>4, <4>1 DEF dropParts, Frame, Fields
      <4>3. Frame(s, f, C)
        BY <2>4, <4>2 DEF Frame
      <4>4. /\ Unspoiled(s.lockedParts, f.lockedParts)
            /\ Unspoiled(s.validParts, f.validParts)
        BY <2>4, <4>2, OrphanUnspoiled DEF Unspoiled
      <4> QED BY <4>2, <4>3, <4>4
    <3> QED BY <3>1, <3>2
  <2> HIDE DEF f
  <2>6. Frame(f, u, {"step", "commitRound"}) /\ u.step = 8 /\ u.commitRound = r
    BY <2>5 DEF Frame, Fields, RoundStepCommit
  <2> HIDE DEF u
  <2>7. /\ Frame(m, u, PartsFields) /\ Unspoiled(m.lockedParts, u.lockedParts)
        /\ Unspoiled(m.validParts, u.validParts)
        /\ \/ u.block = m.block /\ u.parts = m.parts
           \/ u.block = b /\ u.parts = MadePartSet(b)
           \/ u.block = Nil /\ u.parts = NewPartSet(b)
        /\ u.step = m.step /\ u.proposal = m.proposal
        /\ u.validBlock = m.validBlock /\ u.validRound = m.validRound
        /\ u.prevotes = m.prevotes /\ u.round = m.round
    <3>1. /\ DOMAIN m = Fields /\ DOMAIN u = Fields
          /\ \A g \in Fields \ {"step", "commitRound"} : m[g] = s[g] /\ u[g] = f[g]
          /\ m.step = u.step /\ m.commitRound = u.commitRound
      BY <2>2, <2>5, <2>6 DEF Frame
    <3>2. Frame(m, u, PartsFields)
      BY <2>5, <3>1 DEF Frame, PartsFields
    <3>3. /\ u.block = f.block /\ u.parts = f.parts /\ u.lockedParts = f.lockedParts
          /\ u.validParts = f.validParts /\ m.block = s.block /\ m.parts = s.parts
          /\ m.lockedParts = s.lockedParts /\ m.validParts = s.validParts
      BY <3>1 DEF Fields
    <3>4. /\ u.proposal = m.proposal
          /\ u.validBlock = m.validBlock /\ u.validRound = m.validRound
          /\ u.prevotes = m.prevotes /\ u.round = m.round
      BY <2>5, <3>1 DEF Frame, Fields
    <3> QED BY <2>5, <3>1, <3>2, <3>3, <3>4
  <2>8. Good(m, W)
    BY <2>3 DEF Stays, Move
  <2>9. BlockThere(u)
    BY <2>2, <2>7, <2>8 DEF Good, BlockThere, Fetched
  <2>10. Valid(u)
    BY <2>7, <2>8, ValidUnspoiled DEF Good
  <2>11. /\ u.block \in Values
         /\ u.parts = Nil \/ u.parts \in [of : Values, complete : {"no", "yes"}]
    <3>1. /\ m.block \in Values /\ Nil \in Values
          /\ m.parts = Nil \/ m.parts \in [of : Values, complete : {"no", "yes"}]
      BY <2>8 DEF Good, Heard, Values
    <3> QED BY SMTT(60), <2>7, <3>1 DEF NewPartSet, MadePartSet
  <2>12. Move(m, u, W)
    BY <2>7, <2>8, <2>9, <2>10, <2>11, PartsMove
  <2>13. Stays(s, u, W)
    <3>1. PartsFields \cap {"timer", "tocks", "round", "step", "panic"} = {}
      BY DEF PartsFields
    <3>2. Stays(m, u, W)
      BY <2>7, <2>8, <2>12, <3>1, FrameStays
    <3> QED BY <2>3, <3>2, StaysTransitive
  <2>14. Stays(u, t, W) \/ NextHeight(u, t, W)
    BY <2>1, <2>13, TryFinalizeCommit DEF Stays, Move
  <2>15. CASE Stays(u, t, W)
    BY <2>13, <2>15, StaysTransitive
  <2>16. CASE NextHeight(u, t, W)
    BY <2>13, <2>16 DEF NextHeight, Stays, Move
  <2> QED BY <2>14, <2>15, <2>16
<1> QED BY <1>2, <1>3
=============================================================================
