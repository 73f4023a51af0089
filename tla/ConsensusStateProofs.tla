----------------------- MODULE ConsensusStateProofs -----------------------
(***************************************************************************)
(* The consensus state machine of a node keeps its promises: whatever      *)
(* arrives in whatever order, its locks rest on polkas, its consistency    *)
(* checks hold, its round and step go forward, its timeouts are set while  *)
(* the committee stays, and its votes are those of a Voter.                *)
(***************************************************************************)
EXTENDS NodeStateProofs

\* A leaf that names no prover is Zenon's.
USE ZenonT(60)
-----------------------------------------------------------------------------
(* Proposals and block parts.                                                *)

LEMMA PartsStay ==
    ASSUME NEW s, NEW t, NEW W, Good(s, W), Move(s, t, W), Frame(s, t, PartsFields)
    PROVE  Stays(s, t, W)
<1>1. PartsFields \cap {"timer", "tocks", "round", "step", "panic"} = {}
  BY DEF PartsFields
<1> QED BY <1>1, FrameStays

LEMMA SetProposal ==
    ASSUME NEW s, NEW W, Good(s, W), NEW r, NEW b \in Values, NEW pol \in Int
    PROVE  Stays(s, defaultSetProposal(s, r, b, pol), W)
<1> DEFINE t == defaultSetProposal(s, r, b, pol)
           p == [block |-> b, pol |-> pol]
<1> SUFFICES Stays(s, t, W)
  OBVIOUS
<1>1. DOMAIN s = Fields /\ s.step \in 1 .. 8
  BY DEF Good, Placed
<1>2. CASE t = s
  BY <1>2, StaysReflexive
<1>3. CASE t # s
  <2>1. /\ s.proposal = Nil /\ s.step < 8
        /\ t = [dropParts(s, NewPartSet(b)) EXCEPT !.proposal = p]
    BY <1>3 DEF defaultSetProposal, RoundStepCommit
  <2>2. p # Nil
    BY SMTT(60), NodeAssumption
  <2> HIDE DEF p, t
  <2>3. /\ Frame(s, t, PartsFields) /\ t.proposal = p /\ t.parts = NewPartSet(b)
        /\ t.block = s.block /\ t.validBlock = s.validBlock /\ t.validRound = s.validRound
        /\ t.validParts = Orphan(s.validParts) /\ t.lockedParts = Orphan(s.lockedParts)
    BY <1>1, <2>1 DEF dropParts, Frame, Fields, PartsFields
  <2>4. t.prevotes = s.prevotes /\ t.round = s.round /\ t.step = s.step
    BY <2>3 DEF Frame, Fields, PartsFields
  <2>5. BlockThere(t)
    <3>1. s.block # Nil => Fetched(s)
      BY SMTT(60), <1>1, <2>1 DEF Good, BlockThere
    <3>2. t.block # Nil => Fetched(t)
      BY <2>3, <2>4, <3>1 DEF Fetched
    <3> QED BY <2>2, <2>3, <3>2 DEF BlockThere
  <2>6. Valid(t)
    BY SMTT(60), <2>3, <2>4, OrphanUnspoiled, ValidUnspoiled DEF Good
  <2>7. t.block \in Values /\ t.parts \in [of : Values, complete : {"no", "yes"}]
    BY SMTT(60), <2>3 DEF NewPartSet, Good, Heard
  <2>8. Unspoiled(s.lockedParts, t.lockedParts)
    BY <2>3, OrphanUnspoiled
  <2>9. Move(s, t, W)
    BY <2>3, <2>5, <2>6, <2>7, <2>8, PartsMove
  <2> QED BY <2>3, <2>9, PartsStay
<1> QED BY <1>2, <1>3

\* A polka of the round was passed over before the node may prevote in it.
LEMMA MayPrevote ==
    ASSUME NEW s, PolkasPassed(s), s.round \in Rounds
    PROVE  s.step >= 6 \/ s.round = 0 \/ s.prevotes[s.round] \notin Values
BY SMTT(60), VotingAssumption DEF PolkasPassed, Rounds

\* The last part is added: the block is there, and is the valid block if it
\* has a polka.
LEMMA CompletedMove ==
    ASSUME NEW s, NEW W, Good(s, W), s.round \in Rounds, s.parts # Nil, s.parts.complete = "no",
           NEW u,
           LET t == [completed(s) EXCEPT !.block = s.parts.of] IN
           \/ u = [completed(s) EXCEPT !.block = Nil]
           \/ u = IF s.prevotes[s.round] = s.parts.of /\ s.validRound < s.round
                    THEN setValid(t, s.round) ELSE t
    PROVE  Stays(s, u, W) /\ u.round = s.round
<1> DEFINE b == s.parts.of
           c == completed(s)
           t == [c EXCEPT !.block = b]
           g == [c EXCEPT !.block = Nil]
<1>1. DOMAIN s = Fields /\ s.step \in 1 .. 8 /\ s.round \in Nat
  BY DEF Good, Placed
<1>2. s.parts = NewPartSet(b) /\ b \in Values /\ Nil \in Values
  BY DEF Good, Heard, NewPartSet, Values
<1>3. /\ Frame(s, c, {"parts", "validParts", "lockedParts"})
      /\ c.parts = MadePartSet(b)
      /\ Unspoiled(s.lockedParts, c.lockedParts) /\ Unspoiled(s.validParts, c.validParts)
  <2> DEFINE fill(ps) == IF ps # Nil /\ ps.complete = "no"
                           THEN [ps EXCEPT !.complete = "yes"] ELSE ps
  <2>1. \A ps : Unspoiled(ps, fill(ps))
    BY SMTT(60) DEF Unspoiled, MadePartSet
  <2>2. fill(s.parts) = MadePartSet(b)
    BY <1>2 DEF NewPartSet, MadePartSet
  <2>3. c = [s EXCEPT !.parts = fill(s.parts), !.validParts = fill(s.validParts),
                      !.lockedParts = fill(s.lockedParts)]
    BY DEF completed
  <2> HIDE DEF fill, c
  <2>4. /\ Frame(s, c, {"parts", "validParts", "lockedParts"}) /\ c.parts = fill(s.parts)
        /\ c.validParts = fill(s.validParts) /\ c.lockedParts = fill(s.lockedParts)
    BY <1>1, <2>3 DEF Frame, Fields
  <2> QED BY <2>1, <2>2, <2>4
<1> HIDE DEF c
<1>4. /\ Frame(s, g, PartsFields) /\ g.block = Nil /\ g.proposal = s.proposal
      /\ g.parts = c.parts /\ g.lockedParts = c.lockedParts /\ g.validParts = c.validParts
      /\ g.validRound = s.validRound /\ g.validBlock = s.validBlock
  BY <1>3 DEF Frame, Fields, PartsFields
<1>5. /\ Frame(s, t, PartsFields) /\ t.block = b /\ t.proposal = s.proposal
      /\ t.parts = c.parts /\ t.lockedParts = c.lockedParts /\ t.validParts = c.validParts
      /\ t.validRound = s.validRound /\ t.validBlock = s.validBlock
  BY <1>3 DEF Frame, Fields, PartsFields
<1> HIDE DEF g, t
<1>6. s.proposal = Nil => s.step = 8 \/ (s.step >= 6 /\ s.prevotes[s.round] = b)
  BY DEF Good, BlockThere
<1>7. s.validRound \in Nat /\ s.validRound <= s.round
  BY DEF Good, Valid
<1>8. ASSUME NEW x, Frame(s, x, PartsFields), x.proposal = s.proposal, x.parts = c.parts,
             x.lockedParts = c.lockedParts, x.block \in Values,
             x.block = Nil \/ (x.block = b /\ (s.prevotes[s.round] = b => x.validRound = s.round)),
             Valid(x)
      PROVE  Stays(s, x, W) /\ x.round = s.round
  <2>1. x.step = s.step /\ x.round = s.round /\ x.prevotes = s.prevotes
    BY <1>8 DEF Frame, Fields, PartsFields
  <2>2. x.parts = MadePartSet(b) /\ x.parts.of = b
    BY SMTT(60), <1>3, <1>8 DEF MadePartSet
  <2>3. BlockThere(x)
    BY <1>6, <1>8, <2>1, <2>2 DEF BlockThere, Fetched
  <2>4. x.parts \in [of : Values, complete : {"no", "yes"}]
    BY SMTT(60), <1>2, <2>2 DEF MadePartSet
  <2>5. Move(s, x, W)
    BY <1>3, <1>8, <2>1, <2>3, <2>4, PartsMove
  <2> QED BY <1>8, <2>1, <2>5, PartsStay
<1>9. ASSUME NEW x, Frame(s, x, PartsFields), x.validParts = c.validParts,
             x.validRound = s.validRound, x.validBlock = s.validBlock
      PROVE  Valid(x)
  <2>1. x.round = s.round /\ x.prevotes = s.prevotes
    BY <1>9 DEF Frame, Fields, PartsFields
  <2> QED BY <1>3, <1>9, <2>1, ValidUnspoiled DEF Good
<1>10. CASE u = g
  BY <1>2, <1>4, <1>8, <1>9, <1>10
<1>11. CASE u = t /\ ~ (s.prevotes[s.round] = b /\ s.validRound < s.round)
  <2>1. s.prevotes[s.round] = b => t.validRound = s.round
    BY SMTT(60), <1>1, <1>5, <1>7, <1>11
  <2>2. Valid(t)
    BY <1>5, <1>9
  <2> QED BY <1>2, <1>5, <1>8, <1>11, <2>1, <2>2
<1>12. CASE u = setValid(t, s.round) /\ s.prevotes[s.round] = b
  <2>1. /\ Frame(s, u, PartsFields) /\ u.block = b /\ u.proposal = s.proposal
        /\ u.parts = c.parts /\ u.lockedParts = c.lockedParts /\ u.validParts = c.parts
        /\ u.validRound = s.round /\ u.validBlock = b
    BY <1>5, <1>12 DEF setValid, Frame, Fields, PartsFields
  <2>2. u.round = s.round /\ u.prevotes = s.prevotes
    BY <2>1 DEF Frame, Fields, PartsFields
  <2>3. Valid(u)
    BY SMTT(60), <1>1, <1>2, <1>3, <1>12, <2>1, <2>2 DEF Valid
  <2> QED BY <1>2, <1>8, <2>1, <2>3
<1> QED BY <1>10, <1>11, <1>12 DEF t, g, c

LEMMA AddPart ==
    ASSUME NEW s, NEW W \in Opinions, NEW e, e.verdict = W, Inv(s, W),
           s.parts # Nil, s.parts.complete = "no"
    PROVE  LET t == addProposalBlockPart(s, e) IN Stays(s, t, W) \/ NextHeight(s, t, W)
<1> DEFINE b == s.parts.of
           c == [completed(s) EXCEPT !.block = b]
           u == IF s.prevotes[s.round] = b /\ s.validRound < s.round
                  THEN setValid(c, s.round) ELSE c
           g == [completed(s) EXCEPT !.block = Nil]
           t == addProposalBlockPart(s, e)
<1> SUFFICES Stays(s, t, W) \/ NextHeight(s, t, W)
  OBVIOUS
<1>1. Good(s, W) /\ PolkasPassed(s) /\ s.round \in Rounds
  BY DEF Inv
<1>2. Stays(s, u, W) /\ u.round = s.round /\ Stays(s, g, W)
  BY <1>1, CompletedMove
<1>3. \/ t = g \/ t = u
      \/ t = enterPrevote(u, u.round, e)
      \/ t = tryFinalizeCommit(u, e)
  BY DEF addProposalBlockPart
<1> HIDE DEF u, g, t
<1>4. Good(u, W) /\ PolkasPassed(u) /\ u.round \in Rounds
  BY <1>1, <1>2, MoveKeepsPassed DEF Stays, Move
<1>5. Stays(u, enterPrevote(u, u.round, e), W)
  <2>1. u.round <= u.round
    BY SMTT(60), <1>4 DEF Rounds
  <2> QED BY <1>4, <2>1, MayPrevote, PrevoteStays
<1>6. CASE t = enterPrevote(u, u.round, e)
  BY <1>1, <1>2, <1>5, <1>6, StaysTransitive
<1>7. CASE t = tryFinalizeCommit(u, e)
  <2>1. Stays(u, t, W) \/ NextHeight(u, t, W)
    BY <1>4, <1>7, TryFinalizeCommit
  <2>2. CASE Stays(u, t, W)
    BY <1>1, <1>2, <2>2, StaysTransitive
  <2>3. CASE NextHeight(u, t, W)
    BY <1>2, <2>3 DEF Stays, Move, NextHeight
  <2> QED BY <2>1, <2>2, <2>3
<1> QED BY <1>2, <1>3, <1>6, <1>7

\* The proposal of this node on its way through the queue.
LEMMA OwnMove ==
    ASSUME NEW s, NEW t, NEW W, Good(s, W), Frame(s, t, {"own"}),
           t.own = Nil \/ t.own \in Proposals
    PROVE  Stays(s, t, W)
<1>1. /\ s.round \in Nat /\ s.step \in 1 .. 8 /\ t.round = s.round /\ t.step = s.step
      /\ t.tocks = s.tocks
  BY DEF Good, Placed, Frame, Fields
<1>2. Placed(t)
  BY KeepPlaced DEF Good
<1>3. Heard(t)
  BY DEF Good, Heard, Frame, Fields
<1>4. Ahead(s, t) /\ NewTocks(s, t)
  BY SMTT(60), <1>1 DEF Ahead, later, NewTocks
<1>5. Locked(t, W) /\ Valid(t)
  BY SMTT(60), <1>1, KeepLocked, KeepValid DEF Good
<1>6. BlockThere(t) /\ Signed(t)
  BY SMTT(60), <1>1, <1>4, KeepBlock, KeepSigned DEF Good
<1>7. Precommits(t) /\ Prevotes(t)
  BY SMTT(60), <1>1, KeepVotes DEF Good
<1>8. Good(t, W)
  BY <1>2, <1>3, <1>5, <1>6, <1>7 DEF Good
<1>9. Move(s, t, W)
  BY <1>4, <1>8, QuietMove
<1> QED BY <1>9, FrameStays

\* A new height goes on without votes.
LEMMA FreshMove ==
    ASSUME NEW s, NEW t, NEW W, Fresh(s, W), TocksPassed(s), Move(s, t, W),
           t.cast = s.cast, t.proposal = Nil, t.lockedBlock = s.lockedBlock
    PROVE  /\ Fresh(t, W) /\ TocksPassed(t)
           /\ t.height = s.height /\ t.updates = s.updates
<1>1. Good(s, W)
  BY DEF Fresh
<1>2. TocksPassed(t)
  BY <1>1, MoveKeepsPassed
<1> QED BY <1>2 DEF Fresh, Move

LEMMA AddOwnParts ==
    ASSUME NEW s, NEW W \in Opinions, NEW e, e.verdict = W, Inv(s, W), s.own # Nil
    PROVE  LET t == [addOwnParts(s, e) EXCEPT !.own = Nil] IN
           Stays(s, t, W) \/ NextHeight(s, t, W)
<1> DEFINE u == addOwnParts(s, e)
           t == [u EXCEPT !.own = Nil]
<1>1. s.own.whole /\ Good(s, W)
  BY DEF Inv, Good, Heard, Proposals
<1>2. u = s \/ (s.parts # Nil /\ s.parts.complete = "no" /\ u = addProposalBlockPart(s, e))
  BY <1>1 DEF addOwnParts
<1> HIDE DEF u
<1>3. Stays(s, u, W) \/ NextHeight(s, u, W)
  BY <1>1, <1>2, StaysReflexive, AddPart
<1>4. Good(u, W) /\ DOMAIN u = Fields
  BY <1>3 DEF Stays, Move, NextHeight, Fresh, Good, Placed
<1>5. Frame(u, t, {"own"}) /\ t.own = Nil
  BY <1>4 DEF Frame, Fields
<1> HIDE DEF t
<1>6. Stays(u, t, W)
  BY <1>4, <1>5, OwnMove
<1>7. CASE Stays(s, u, W)
  BY <1>1, <1>6, <1>7, StaysTransitive DEF t, u
<1>8. CASE NextHeight(s, u, W)
  <2>1. t.cast = u.cast /\ t.proposal = u.proposal /\ t.lockedBlock = u.lockedBlock
    BY <1>5 DEF Frame, Fields
  <2>2. NextHeight(s, t, W)
    BY SMTT(60), <1>6, <1>8, <2>1, FreshMove DEF NextHeight, Fresh, Stays
  <2> QED BY <2>2 DEF t, u
<1> QED BY <1>3, <1>7, <1>8
-----------------------------------------------------------------------------
(* Votes.                                                                    *)

\* More votes are known, and no majority is forgotten.
LEMMA TallyWithin ==
    ASSUME NEW s, NEW t, NEW W, Good(s, W), Frame(s, t, {"prevotes", "precommits"}),
           t.prevotes \in [Rounds -> Tally], t.precommits \in [Rounds -> Tally],
           \A r \in Rounds : s.prevotes[r] \in Values => t.prevotes[r] = s.prevotes[r],
           \A r \in Rounds : s.precommits[r] \in Values => t.precommits[r] = s.precommits[r]
    PROVE  Within(s, t, W)
<1>1. /\ t.height = s.height /\ t.updates = s.updates /\ t.round = s.round /\ t.step = s.step
      /\ t.commitRound = s.commitRound /\ t.parts = s.parts /\ t.block = s.block
      /\ t.proposal = s.proposal /\ t.own = s.own /\ t.tocks = s.tocks /\ t.cast = s.cast
  BY DEF Frame, Fields
<1>2. /\ t.lockedBlock = s.lockedBlock /\ t.lockedRound = s.lockedRound
      /\ t.lockedParts = s.lockedParts /\ t.validBlock = s.validBlock
      /\ t.validRound = s.validRound /\ t.validParts = s.validParts
  BY DEF Frame, Fields
<1>3. s.round \in Nat /\ s.step \in 1 .. 8
  BY DEF Good, Placed
<1>4. Placed(t)
  BY KeepPlaced DEF Good
<1>5. Heard(t)
  BY <1>1 DEF Good, Heard
<1>6. Locked(t, W) /\ Valid(t)
  BY <1>1, <1>2 DEF Good, Locked, Valid
<1>7. BlockThere(t)
  <2>1. s.block \in Values /\ (s.parts # Nil => s.parts.of \in Values)
    BY DEF Good, Heard
  <2>2. Fetched(s) => Fetched(t)
    BY <1>1, <1>2, <2>1 DEF Fetched
  <2> QED BY <1>1, <2>1, <2>2 DEF Good, BlockThere
<1>8. Ahead(s, t) /\ NewTocks(s, t) /\ NewVotes(s, t)
  BY SMTT(60), <1>1, <1>3 DEF Ahead, later, NewTocks, NewVotes
<1>9. Signed(t)
  BY <1>1, <1>3, <1>8, KeepSigned DEF Good
<1>10. ASSUME NEW q, NEW r, NEW b, PolkaBetween(s, q, r, b)
       PROVE  PolkaBetween(t, q, r, b)
  BY <1>10 DEF PolkaBetween
<1>11. \A b \in Blocks : b \in Values
  BY DEF Values
<1>12. Precommits(t)
  BY SMTT(60), <1>1, <1>2, <1>10, <1>11 DEF Good, Precommits
<1>13. Prevotes(t)
  BY SMTT(60), <1>1, <1>10 DEF Good, Prevotes
<1>14. Good(t, W)
  BY <1>4, <1>5, <1>6, <1>7, <1>9, <1>12, <1>13 DEF Good
<1>15. t.timer = s.timer /\ t.panic = s.panic
  BY DEF Frame, Fields
<1>16. Timed(s) => Timed(t)
  BY <1>1, <1>15 DEF Timed, Past, TockSet
<1> QED BY <1>1, <1>8, <1>14, <1>16 DEF Within

\* A new polka was passed over, as the old ones were.
LEMMA NewPolkaPassed ==
    ASSUME NEW s, NEW t, NEW W, Inv(s, W), Within(s, t, W), NEW vr \in Rounds,
           \A r \in Rounds \ {vr} : t.prevotes[r] = s.prevotes[r],
           t.prevotes[vr] \in Values =>
             vr < t.round \/ (vr = t.round /\ (t.step >= 6 \/ t.round = 0))
    PROVE  PolkasPassed(t)
<1>1. /\ s.round \in Nat /\ t.round \in Nat /\ s.step \in Nat /\ t.step \in Nat
  BY SMTT(60) DEF Inv, Within, Good, Placed
<1>2. s.round < t.round \/ (s.round = t.round /\ s.step <= t.step)
  BY SMTT(60), <1>1 DEF Within, Ahead, later
<1> SUFFICES ASSUME NEW p \in Rounds, t.prevotes[p] \in Values
             PROVE  p < t.round \/ (p = t.round /\ (t.step >= 6 \/ t.round = 0))
  BY DEF PolkasPassed
<1>3. CASE p = vr
  BY <1>3
<1>4. CASE p # vr
  <2>1. p < s.round \/ (p = s.round /\ (s.step >= 6 \/ s.round = 0))
    BY <1>4 DEF Inv, PolkasPassed
  <2>2. p \in Int
    BY SMTT(60) DEF Rounds
  <2> QED BY SMTT(60), <1>1, <1>2, <2>1, <2>2
<1> QED BY <1>3, <1>4

\* Where enterNewRound leaves a node that a vote takes to its round.
LEMMA RoundReached ==
    ASSUME NEW s, NEW W \in Opinions, NEW e, e.verdict = W, e.made \in Values, Good(s, W),
           s.panic = "none", NEW vr \in Rounds
    PROVE  LET n == enterNewRound(s, vr, e) IN
           /\ Stays(s, n, W) /\ Good(n, W) /\ n.panic = "none" /\ vr <= n.round
           /\ s.round <= vr => n.round = vr
<1> DEFINE n == enterNewRound(s, vr, e)
<1>1. vr \in Nat /\ s.round \in Nat
  BY SMTT(60) DEF Good, Placed, Rounds
<1>2. /\ Move(s, n, W) /\ Frame(s, n, RoundFields)
      /\ n.round = IF RoundBegins(s, vr) THEN vr ELSE s.round
  BY <1>1, EnterNewRound
<1>3. Stays(s, n, W)
  BY <1>1, NewRoundStays
<1> HIDE DEF n
<1>4. n.panic = "none"
  BY <1>2 DEF Frame, Fields, RoundFields, ProposeFields
<1>5. vr <= n.round /\ (s.round <= vr => n.round = vr)
  BY SMTT(60), <1>1, <1>2 DEF RoundBegins
<1> QED BY <1>2, <1>3, <1>4, <1>5 DEF Move, n

\* The lock and the valid block after a polka.
LEMMA PolkaMove ==
    ASSUME NEW s, NEW W, Good(s, W), NEW vr \in Rounds, s.prevotes[vr] \in Values, NEW u,
           u = validOnPolka(unlockOnPolka(s, vr, s.prevotes[vr]), vr, s.prevotes[vr])
    PROVE  Move(s, u, W) /\ Frame(s, u, LockFields \cup PartsFields)
           /\ u.proposal = s.proposal
<1> DEFINE t == s.prevotes[vr]
           l == unlockOnPolka(s, vr, t)
<1>1. DOMAIN s = Fields /\ s.round \in Nat /\ vr \in Nat
  BY SMTT(60) DEF Good, Placed, Rounds
<1>2. Move(s, l, W) /\ Frame(s, l, LockFields)
  <2>1. CASE l = s
    BY <1>1, <2>1, MoveReflexive DEF Frame
  <2>2. CASE l # s
    <3>1. /\ l = unlock(s) /\ s.lockedBlock # Nil /\ s.lockedBlock # t
          /\ s.lockedRound < vr /\ vr <= s.round
      BY <2>2 DEF unlockOnPolka
    <3> HIDE DEF l
    <3>2. /\ Frame(s, l, LockFields)
          /\ l.lockedRound = 0 /\ l.lockedBlock = Nil /\ l.lockedParts = Nil
      BY <1>1, <3>1 DEF unlock, Frame, Fields, LockFields
    <3> QED BY <3>1, <3>2, UnlockMove
  <2> QED BY <2>1, <2>2
<1>3. u = validOnPolka(l, vr, t)
  OBVIOUS
<1> HIDE DEF l
<1>4. /\ Good(l, W) /\ DOMAIN l = Fields /\ l.prevotes[vr] = t /\ l.proposal = s.proposal
  BY <1>2 DEF Move, Frame, Fields, LockFields
<1>5. CASE u = l
  BY <1>2, <1>4, <1>5 DEF Frame
<1>6. CASE u # l
  <2>1. /\ u = setValid(l, vr) /\ t # Nil /\ t = l.block /\ l.validRound < vr /\ vr <= l.round
    BY <1>3, <1>6 DEF validOnPolka
  <2>2. /\ Frame(l, u, {"validRound", "validBlock", "validParts"})
        /\ u.validRound = vr /\ u.validBlock = l.block /\ u.validParts = l.parts
    BY <1>4, <2>1 DEF setValid, Frame, Fields
  <2>3. /\ u.block = l.block /\ u.parts = l.parts /\ u.lockedParts = l.lockedParts
        /\ u.proposal = l.proposal /\ u.step = l.step /\ u.round = l.round
        /\ u.prevotes = l.prevotes
    BY <2>2 DEF Frame, Fields
  <2>4. l.validRound \in Nat /\ l.round \in Nat /\ l.block \in Values
    BY <1>4 DEF Good, Valid, Placed, Heard
  <2>5. ~ Fetched(l)
    BY SMTT(60), <1>1, <2>1, <2>4 DEF Fetched
  <2>6. l.parts = MadePartSet(l.block) /\ BlockThere(u)
    BY <1>4, <2>1, <2>3, <2>5 DEF Good, BlockThere
  <2>7. Valid(u)
    BY <1>1, <1>4, <2>1, <2>2, <2>3, <2>4, <2>6 DEF Valid
  <2>8. Frame(l, u, PartsFields) /\ Unspoiled(l.lockedParts, u.lockedParts)
    BY <2>2, <2>3 DEF Frame, PartsFields, Unspoiled
  <2>9. u.parts = Nil \/ u.parts \in [of : Values, complete : {"no", "yes"}]
    BY <1>4, <2>3 DEF Good, Heard
  <2>10. Move(l, u, W)
    BY <1>4, <2>3, <2>4, <2>6, <2>7, <2>8, <2>9, PartsMove
  <2>11. Move(s, u, W)
    BY <1>2, <2>10, MoveTransitive
  <2>12. Frame(s, u, LockFields \cup PartsFields)
    BY <1>2, <2>8 DEF Frame
  <2> QED BY <1>4, <2>3, <2>11, <2>12
<1> QED BY <1>5, <1>6

LEMMA AddPrevote ==
    ASSUME NEW s, NEW W \in Opinions, NEW e, e.verdict = W, e.made \in Values, Inv(s, W),
           s.panic = "none", NEW vr \in Rounds, NEW t \in Later(s.prevotes[vr])
    PROVE  Handled(s, addPrevote(s, vr, t, e), W)
<1> DEFINE a == [s EXCEPT !.prevotes[vr] = t]
           u == IF TwoThirdsMajority(t)
                  THEN validOnPolka(unlockOnPolka(a, vr, t), vr, t) ELSE a
           n == enterNewRound(u, vr, e)
           x == addPrevote(s, vr, t, e)
<1> SUFFICES Handled(s, x, W)
  OBVIOUS
<1>1. /\ Good(s, W) /\ s.round \in Rounds /\ s.round \in Nat /\ vr \in Nat /\ DOMAIN s = Fields
      /\ s.prevotes \in [Rounds -> Tally] /\ s.precommits \in [Rounds -> Tally]
  BY SMTT(60) DEF Inv, Good, Placed, Heard, Rounds
<1>2. t \in Tally /\ (s.prevotes[vr] \in Values => t = s.prevotes[vr])
  BY <1>1, MajorityStays
<1>3. x = IF u.round <= vr /\ HasTwoThirdsAny(t)
            THEN IF TwoThirdsMajority(t) THEN enterPrecommit(n, vr, e)
                 ELSE enterPrevoteWait(enterPrevote(n, vr, e), vr)
          ELSE IF u.proposal # Nil /\ u.proposal.pol = vr /\ isProposalComplete(u)
            THEN enterPrevote(u, u.round, e)
          ELSE u
  BY DEF addPrevote
<1>4. Frame(s, a, {"prevotes"}) /\ a.prevotes = [s.prevotes EXCEPT ![vr] = t]
  BY <1>1 DEF Frame, Fields
<1> HIDE DEF a, x
<1>5. /\ a.prevotes \in [Rounds -> Tally] /\ a.prevotes[vr] = t
      /\ \A r \in Rounds \ {vr} : a.prevotes[r] = s.prevotes[r]
      /\ \A r \in Rounds : s.prevotes[r] \in Values => a.prevotes[r] = s.prevotes[r]
  BY <1>1, <1>2, <1>4
<1>6. a.precommits = s.precommits /\ a.round = s.round /\ a.panic = s.panic
      /\ Frame(s, a, {"prevotes", "precommits"})
  BY <1>4 DEF Frame, Fields
<1>7. Within(s, a, W)
  BY <1>1, <1>5, <1>6, TallyWithin
<1>8. /\ Stays(a, u, W) /\ u.round = s.round /\ u.panic = "none"
  <2>1. Good(a, W)
    BY <1>7 DEF Within
  <2>2. CASE TwoThirdsMajority(t)
    <3>1. t \in Values
      BY <2>2 DEF TwoThirdsMajority
    <3>2. Move(a, u, W) /\ Frame(a, u, LockFields \cup PartsFields)
      BY <1>5, <2>1, <2>2, <3>1, PolkaMove
    <3> HIDE DEF u
    <3>3. (LockFields \cup PartsFields) \cap {"timer", "tocks", "round", "step", "panic"} = {}
      BY DEF LockFields, PartsFields
    <3>4. Stays(a, u, W)
      BY <2>1, <3>2, <3>3, FrameStays
    <3>5. u.round = a.round /\ u.panic = a.panic
      BY <3>2 DEF Frame, Fields, LockFields, PartsFields
    <3> QED BY <1>6, <3>4, <3>5
  <2>3. CASE ~ TwoThirdsMajority(t)
    BY <1>6, <2>1, <2>3, StaysReflexive
  <2> QED BY <2>2, <2>3
<1> HIDE DEF u
<1>9. Within(s, u, W) /\ Good(u, W) /\ u.prevotes = a.prevotes
  BY <1>1, <1>7, <1>8, WithinMove DEF Stays, Move, Within
<1>10. /\ Stays(u, n, W) /\ Good(n, W) /\ n.panic = "none" /\ vr <= n.round
       /\ u.round <= vr => n.round = vr
  BY SMTT(60), <1>8, <1>9, RoundReached
<1> HIDE DEF n
<1>11. Within(s, n, W) /\ n.prevotes = a.prevotes
  BY <1>1, <1>9, <1>10, WithinMove DEF Stays, Move
<1>12. CASE u.round <= vr /\ HasTwoThirdsAny(t) /\ TwoThirdsMajority(t)
  <2>1. x = enterPrecommit(n, vr, e) /\ n.round = vr
    BY <1>3, <1>10, <1>12
  <2>2. /\ Stays(n, x, W) /\ x.step >= 6
        /\ Frame(n, x, FetchFields \cup {"step", "priv", "cast"})
    BY <1>10, <2>1, EnterPrecommit, PrecommitStays
  <2>3. x.round = vr /\ x.prevotes = a.prevotes
    BY <1>11, <2>1, <2>2 DEF Frame, Fields, FetchFields, LockFields
  <2>4. Within(s, x, W)
    BY <1>1, <1>11, <2>2, WithinMove
  <2>5. PolkasPassed(x)
    BY SMTT(60), <1>5, <2>2, <2>3, <2>4, NewPolkaPassed
  <2> QED BY <1>1, <2>4, <2>5, WithinTocks DEF Inv, Handled
<1>13. CASE u.round <= vr /\ HasTwoThirdsAny(t) /\ ~ TwoThirdsMajority(t)
  <2> DEFINE p == enterPrevote(n, vr, e)
  <2>1. x = enterPrevoteWait(p, vr) /\ n.round = vr /\ t \notin Values
    BY <1>3, <1>10, <1>13 DEF TwoThirdsMajority
  <2>2. n.prevotes[n.round] \notin Values
    BY <1>5, <1>11, <2>1
  <2>3. Stays(n, p, W) /\ Frame(n, p, {"step", "priv", "cast"})
    BY <1>10, <2>2, EnterPrevote, PrevoteStays
  <2> HIDE DEF p
  <2>4. Good(p, W) /\ p.round = vr /\ p.prevotes = a.prevotes
    BY <1>11, <2>1, <2>3 DEF Stays, Move, Frame, Fields
  <2>5. vr <= p.round /\ HasTwoThirdsAny(p.prevotes[vr])
    BY SMTT(60), <1>1, <1>5, <1>13, <2>4
  <2>6. Stays(p, x, W)
    BY <2>1, <2>4, <2>5, PrevoteWaitStays
  <2>7. Stays(n, x, W)
    BY <1>10, <2>3, <2>6, StaysTransitive
  <2>8. Within(s, x, W) /\ x.prevotes = a.prevotes
    BY <1>1, <1>11, <2>7, WithinMove DEF Stays, Move
  <2>9. PolkasPassed(x)
    BY SMTT(60), <1>5, <2>1, <2>8, NewPolkaPassed
  <2> QED BY <1>1, <2>8, <2>9, WithinTocks DEF Inv, Handled
<1>14. CASE ~ (u.round <= vr /\ HasTwoThirdsAny(t))
  <2>1. t \in Values => vr < u.round
    BY SMTT(60), <1>1, <1>8, <1>14, MajorityIsAny
  <2>2. PolkasPassed(u)
    BY SMTT(60), <1>5, <1>9, <2>1, NewPolkaPassed
  <2>3. u.round \in Rounds /\ u.round <= u.round
    BY SMTT(60), <1>1, <1>8
  <2>4. Stays(u, enterPrevote(u, u.round, e), W)
    BY <1>9, <2>2, <2>3, MayPrevote, PrevoteStays
  <2>5. Stays(u, x, W)
    BY <1>3, <1>9, <1>14, <2>4, StaysReflexive
  <2> QED BY <1>9, <2>2, <2>5, WithinHandles
<1> QED BY <1>12, <1>13, <1>14

\* The next height may begin at once.
LEMMA SkipWait ==
    ASSUME NEW s, NEW c, NEW W \in Opinions, NEW e, e.verdict = W, e.made \in Values,
           Good(s, W), Stays(s, c, W) \/ NextHeight(s, c, W)
    PROVE  LET x == enterNewRound(c, 0, e) IN Stays(s, x, W) \/ NextHeight(s, x, W)
<1> DEFINE x == enterNewRound(c, 0, e)
<1> SUFFICES Stays(s, x, W) \/ NextHeight(s, x, W)
  OBVIOUS
<1>1. Good(c, W)
  BY DEF Stays, Move, NextHeight, Fresh
<1>2. /\ Stays(c, x, W) /\ Frame(c, x, RoundFields)
      /\ c.proposal = Nil => x.cast = c.cast /\ x.proposal = Nil
  BY <1>1, EnterNewRound, NewRoundStays
<1> HIDE DEF x
<1>3. CASE Stays(s, c, W)
  BY <1>2, <1>3, StaysTransitive
<1>4. CASE NextHeight(s, c, W)
  <2>1. x.lockedBlock = c.lockedBlock
    BY <1>2 DEF Frame, Fields, RoundFields, ProposeFields
  <2> QED BY SMTT(60), <1>2, <1>4, <2>1, FreshMove DEF NextHeight, Fresh, Stays
<1> QED BY <1>3, <1>4

LEMMA CommitVote ==
    ASSUME NEW s, NEW W \in Opinions, NEW e, e.verdict = W, e.made \in Values, Good(s, W),
           s.panic = "none", NEW vr \in Rounds,
           s.precommits[vr] \in Values, s.precommits[vr] # Nil
    PROVE  LET x == commitVote(s, vr, e) IN Stays(s, x, W) \/ NextHeight(s, x, W)
<1> DEFINE n == enterNewRound(s, vr, e)
           p == enterPrecommit(n, vr, e)
           c == enterCommit(p, vr, e)
           x == commitVote(s, vr, e)
<1> SUFFICES Stays(s, x, W) \/ NextHeight(s, x, W)
  OBVIOUS
<1>1. x = c \/ x = enterNewRound(c, 0, e)
  BY DEF commitVote
<1> HIDE DEF x
<1>2. Stays(s, n, W) /\ Good(n, W) /\ vr <= n.round
  BY RoundReached
<1> HIDE DEF n
<1>3. Stays(n, p, W)
  BY <1>2, PrecommitStays
<1> HIDE DEF p
<1>4. Stays(s, p, W)
  BY <1>2, <1>3, StaysTransitive
<1>5. Good(p, W) /\ p.precommits = s.precommits /\ p.height = s.height /\ p.updates = s.updates
  BY <1>4 DEF Stays, Move
<1>6. Stays(p, c, W) \/ NextHeight(p, c, W)
  BY <1>5, EnterCommit
<1> HIDE DEF c
<1>7. Stays(p, x, W) \/ NextHeight(p, x, W)
  BY <1>1, <1>5, <1>6, SkipWait
<1>8. CASE Stays(p, x, W)
  BY <1>4, <1>8, StaysTransitive
<1>9. CASE NextHeight(p, x, W)
  BY <1>5, <1>9 DEF NextHeight
<1> QED BY <1>7, <1>8, <1>9

LEMMA AddPrecommit ==
    ASSUME NEW s, NEW W \in Opinions, NEW e, e.verdict = W, e.made \in Values, Inv(s, W),
           s.panic = "none", NEW vr \in Rounds, NEW t \in Later(s.precommits[vr])
    PROVE  Handled(s, addPrecommit(s, vr, t, e), W)
<1> DEFINE u == [s EXCEPT !.precommits[vr] = t]
           n == enterNewRound(u, vr, e)
           p == enterPrecommit(n, vr, e)
           x == addPrecommit(s, vr, t, e)
<1> SUFFICES Handled(s, x, W)
  OBVIOUS
<1>1. /\ Good(s, W) /\ PolkasPassed(s) /\ s.round \in Nat /\ vr \in Nat /\ DOMAIN s = Fields
      /\ s.prevotes \in [Rounds -> Tally] /\ s.precommits \in [Rounds -> Tally]
  BY SMTT(60) DEF Inv, Good, Placed, Heard, Rounds
<1>2. t \in Tally /\ (s.precommits[vr] \in Values => t = s.precommits[vr])
  BY <1>1, MajorityStays
<1>3. \/ x = enterNewRound(u, vr + 1, e)
      \/ x = commitVote(u, vr, e) /\ TwoThirdsMajority(t) /\ t # Nil
      \/ x = enterNewRound(u, u.round + 1, e)
      \/ x = enterPrecommitWait(p, vr) /\ u.round <= vr /\ HasTwoThirdsAny(t)
      \/ x = u
  BY DEF addPrecommit
<1>4. Frame(s, u, {"precommits"}) /\ u.precommits = [s.precommits EXCEPT ![vr] = t]
  BY <1>1 DEF Frame, Fields
<1> HIDE DEF u, x
<1>5. /\ u.precommits \in [Rounds -> Tally] /\ u.precommits[vr] = t
      /\ \A r \in Rounds : s.precommits[r] \in Values => u.precommits[r] = s.precommits[r]
  BY <1>1, <1>2, <1>4
<1>6. /\ u.prevotes = s.prevotes /\ u.round = s.round /\ u.step = s.step /\ u.panic = "none"
      /\ Frame(s, u, {"prevotes", "precommits"})
  BY <1>4 DEF Frame, Fields
<1>7. Within(s, u, W) /\ Good(u, W)
  BY <1>1, <1>5, <1>6, TallyWithin DEF Within
<1>8. PolkasPassed(u)
  BY <1>1, <1>6 DEF PolkasPassed
<1>9. Stays(u, x, W) \/ NextHeight(u, x, W)
  <2>1. CASE x = enterNewRound(u, vr + 1, e)
    BY SMTT(60), <1>1, <1>7, <2>1, NewRoundStays
  <2>2. CASE x = commitVote(u, vr, e) /\ TwoThirdsMajority(t) /\ t # Nil
    BY <1>5, <1>6, <1>7, <2>2, CommitVote DEF TwoThirdsMajority
  <2>3. CASE x = enterNewRound(u, u.round + 1, e)
    <3>1. u.round + 1 \in Nat
      BY SMTT(60), <1>1, <1>6
    <3> QED BY <1>7, <2>3, <3>1, NewRoundStays
  <2>4. CASE x = enterPrecommitWait(p, vr) /\ u.round <= vr /\ HasTwoThirdsAny(t)
    <3>1. Stays(u, n, W) /\ Good(n, W) /\ vr <= n.round
      BY <1>6, <1>7, RoundReached
    <3> HIDE DEF n
    <3>2. Stays(n, p, W) /\ Frame(n, p, FetchFields \cup {"step", "priv", "cast"})
      BY <3>1, EnterPrecommit, PrecommitStays
    <3> HIDE DEF p
    <3>3. Stays(u, p, W)
      BY <1>7, <3>1, <3>2, StaysTransitive
    <3>4. Good(p, W) /\ p.precommits[vr] = t /\ vr <= p.round
      BY <1>5, <3>1, <3>2, <3>3 DEF Stays, Move, Frame, Fields, FetchFields, LockFields
    <3>5. Stays(p, x, W)
      BY <2>4, <3>4, PrecommitWaitStays
    <3> QED BY <1>7, <3>3, <3>5, StaysTransitive
  <2>5. CASE x = u
    BY <1>7, <2>5, StaysReflexive
  <2> QED BY <1>3, <2>1, <2>2, <2>3, <2>4, <2>5
<1> QED BY <1>7, <1>8, <1>9, WithinHandles
-----------------------------------------------------------------------------
(* Timeouts, committees, and the end of a handler.                           *)

\* A timeout for the step the node is in ends that step, any other one is old.
LEMMA HandleTimeout ==
    ASSUME NEW s, NEW W \in Opinions, NEW e, e.verdict = W, e.made \in Values, Inv(s, W),
           s.panic = "none", NEW k \in s.tocks
    PROVE  Stays(s, handleTimeout([s EXCEPT !.tocks = @ \ {k}], k, e), W)
<1> DEFINE u == [s EXCEPT !.tocks = @ \ {k}]
           x == handleTimeout(u, k, e)
<1> SUFFICES Stays(s, x, W)
  OBVIOUS
<1>1. /\ Good(s, W) /\ PolkasPassed(s) /\ DOMAIN s = Fields /\ s.round \in Rounds
      /\ s.round \in Nat /\ s.step \in 1 .. 8 /\ k.round \in Nat /\ k.round <= s.round
  BY DEF Inv, Good, Placed, TocksPassed
<1>2. Frame(s, u, {"tocks"}) /\ u.tocks = s.tocks \ {k}
  BY <1>1 DEF Frame, Fields
<1> HIDE DEF u
<1>3. \/ x = u /\ later(u.round, u.step, k.round, k.step)
      \/ ~ later(u.round, u.step, k.round, k.step) /\
           \/ x = enterNewRound(u, 0, e) /\ k.step = 1
           \/ x = tryEnterProposal(u, 0, k.wait, e) /\ k.step = 2
           \/ x = enterPrevote(u, k.round, e) /\ k.step = 3
           \/ x = enterPrecommit(u, k.round, e) /\ k.step = 5
           \/ x = enterNewRound(u, k.round + 1, e)
  BY DEF handleTimeout, RoundStepNewHeight, RoundStepNewRound, RoundStepPropose,
               RoundStepPrevoteWait
<1> HIDE DEF x
<1>4. Move(s, u, W)
  <2>1. NewTocks(s, u) /\ Frame(s, u, Others)
    BY <1>2 DEF NewTocks, Frame, Others
  <2> QED BY <1>1, <2>1, OthersMove
<1>5. /\ Good(u, W) /\ PolkasPassed(u) /\ u.round = s.round /\ u.step = s.step
      /\ u.timer = s.timer /\ u.panic = "none"
  BY <1>1, <1>2, <1>4, MoveKeepsPassed DEF Move, Frame, Fields
<1>6. ASSUME ~ later(u.round, u.step, k.round, k.step) PROVE k.round = u.round /\ k.round \in Rounds
  BY SMTT(60), <1>1, <1>5, <1>6 DEF later
<1>7. Timed(s) => Past(u) /\ k.step \in Nat /\ k.wait \in Nat \ {0}
                  /\ ~ later(k.round, k.step, u.round, u.step) /\ (k.step = 2 => k.round = 0)
  <2>1. \A j \in u.tocks : j \in s.tocks
    BY <1>2
  <2> QED BY <1>1, <1>4, <1>5, <2>1, StillPast DEF Timed, Past, Move
<1>8. Timed(s) /\ ~ later(u.round, u.step, k.round, k.step) => k.step = u.step
  BY SMTT(60), <1>1, <1>5, <1>7 DEF later
<1>9. Move(u, x, W) /\ (Timed(s) => Timed(x))
  <2>1. CASE x = u /\ later(u.round, u.step, k.round, k.step)
    <3>1. ~ (k.round = s.round /\ k.step = s.step)
      BY SMTT(60), <1>1, <1>5, <2>1 DEF later
    <3>2. TockSet(s) => TockSet(u)
      BY <1>2, <1>5, <3>1 DEF TockSet
    <3>3. Timed(s) => Timed(u)
      BY <1>5, <1>7, <3>2 DEF Timed
    <3> QED BY <1>5, <2>1, <3>3, MoveReflexive
  <2>2. CASE x = enterNewRound(u, 0, e) /\ k.step = 1 /\ ~ later(u.round, u.step, k.round, k.step)
    <3>1. 0 \in Nat
      OBVIOUS
    <3>2. u.step = 1 => RoundBegins(u, 0)
      BY SMTT(60), <1>5 DEF RoundBegins, Good, Placed
    <3> QED BY <1>5, <1>7, <1>8, <2>2, <3>1, <3>2, EnterNewRound, NewRoundTimed
  <2>3. CASE x = tryEnterProposal(u, 0, k.wait, e) /\ k.step = 2
             /\ ~ later(u.round, u.step, k.round, k.step)
    <3>1. CASE u.round = 0
      <4>1. Move(u, x, W)
        BY SMTT(60), <1>5, <2>3, <3>1, TryEnterProposal
      <4>2. Timed(s) => Timed(x)
        BY <1>5, <1>7, <1>8, <2>3, <3>1, ProposeTimed
      <4> QED BY <4>1, <4>2
    <3>2. CASE u.round # 0
      <4>1. behind(u, 0, RoundStepPropose) /\ ~ Timed(s)
        BY SMTT(60), <1>1, <1>5, <1>6, <1>7, <2>3, <3>2 DEF behind, later
      <4>2. x = u
        BY <2>3, <4>1 DEF tryEnterProposal
      <4> QED BY <1>5, <4>1, <4>2, MoveReflexive
    <3> QED BY <3>1, <3>2
  <2>4. CASE x = enterPrevote(u, k.round, e) /\ k.step = 3
             /\ ~ later(u.round, u.step, k.round, k.step)
    <3>1. u.step >= 6 \/ u.round = 0 \/ u.prevotes[u.round] \notin Values
      BY <1>1, <1>5, MayPrevote
    <3>2. k.round = u.round /\ k.round \in Rounds /\ k.round <= u.round
      BY <1>1, <1>5, <1>6, <2>4
    <3>3. Timed(s) => u.step < 4
      BY SMTT(60), <1>8, <2>4
    <3> QED BY <1>5, <1>7, <2>4, <3>1, <3>2, <3>3, EnterPrevote, PrevoteTimed
  <2>5. CASE x = enterPrecommit(u, k.round, e) /\ k.step = 5
             /\ ~ later(u.round, u.step, k.round, k.step)
    <3>1. k.round = u.round /\ k.round \in Rounds /\ k.round <= u.round
      BY <1>1, <1>5, <1>6, <2>5
    <3>2. Timed(s) => u.step < 6
      BY SMTT(60), <1>8, <2>5
    <3> QED BY <1>5, <1>7, <2>5, <3>1, <3>2, EnterPrecommit, PrecommitTimed
  <2>6. CASE x = enterNewRound(u, k.round + 1, e) /\ ~ later(u.round, u.step, k.round, k.step)
    <3>1. k.round + 1 \in Nat /\ RoundBegins(u, k.round + 1)
      BY SMTT(60), <1>1, <1>5, <1>6, <2>6 DEF RoundBegins
    <3> QED BY <1>5, <1>7, <2>6, <3>1, EnterNewRound, NewRoundTimed
  <2> QED BY <1>3, <2>1, <2>2, <2>3, <2>4, <2>5, <2>6
<1>10. Move(s, x, W)
  BY <1>1, <1>4, <1>9, MoveTransitive
<1> QED BY <1>9, <1>10 DEF Stays

LEMMA UpdateStateForSync ==
    ASSUME NEW s, NEW W, Good(s, W)
    PROVE  LET t == updateStateForSync(s) IN Stays(s, t, W) \/ NextHeight(s, t, W)
<1> DEFINE t == updateStateForSync(s)
<1>1. CASE s.chain + 1 = s.height
  BY <1>1, StaysReflexive DEF updateStateForSync
<1>2. CASE s.chain + 1 # s.height
  BY <1>2, HeightEnds DEF updateStateForSync
<1> QED BY <1>1, <1>2

LEMMA NewCommittee ==
    ASSUME NEW s, NEW W \in Opinions, NEW e, e.verdict = W, e.made \in Values, Inv(s, W),
           s.panic = "none", s.updates < MaxUpdates, NEW member
    PROVE  NextCommittee(s, validatorUpdate(s, member, e), W)
<1> DEFINE v == updateToState(s)
           t == [v EXCEPT !.priv = [round |-> 0, step |-> 0], !.member = member, !.updates = @ + 1,
                          !.past = IF s.height = s.chain + 1 THEN @ \cup {s.cast} ELSE {}]
           k == IF t.height = s.height /\ s.round > 0 THEN s.round + 1 ELSE 0
           x == validatorUpdate(s, member, e)
<1> SUFFICES NextCommittee(s, x, W)
  OBVIOUS
<1>1. /\ Good(s, W) /\ s.height \in Nat /\ s.updates \in Nat /\ s.chain \in Nat
      /\ s.height <= s.chain + 1 /\ s.round \in Nat /\ TocksPassed(s)
      /\ s.own = Nil \/ s.own \in Proposals
  BY DEF Inv, Good, Placed, Heard
<1>2. /\ DOMAIN v = Fields /\ \A f \in KeptFields : v[f] = s[f]
      /\ v.height = s.chain + 1
      /\ v.round = 0 /\ v.step = 1 /\ v.hvsRound = 0
      /\ v.proposal = Nil /\ v.block = Nil /\ v.parts = Nil
      /\ v.lockedRound = 0 /\ v.lockedBlock = Nil /\ v.lockedParts = Nil
      /\ v.validRound = 0 /\ v.validBlock = Nil /\ v.commitRound = NoRound
      /\ v.prevotes = NoTallies /\ v.precommits = NoTallies /\ v.cast = NothingCast
      /\ IF s.height = s.chain + 1
           THEN v.own = s.own /\ v.tocks = s.tocks
           ELSE v.own = Nil /\ v.tocks = {} /\ v.priv = [round |-> 0, step |-> 0]
                /\ v.timer = [round |-> 0, step |-> 0]
  BY <1>1, UpdateToState
<1>3. x = enterNewRound(t, k, e)
  BY DEF validatorUpdate
<1> HIDE DEF v, x
<1>4. /\ Frame(v, t, {"priv", "member", "updates", "past"})
      /\ t.priv = [round |-> 0, step |-> 0] /\ t.updates = v.updates + 1
  BY <1>2 DEF Frame, Fields
<1> HIDE DEF t
<1>5. /\ DOMAIN t = Fields /\ t.height = s.chain + 1 /\ t.chain = s.chain
      /\ t.updates = s.updates + 1 /\ t.panic = "none"
      /\ t.round = 0 /\ t.step = 1 /\ t.hvsRound = 0
  BY <1>2, <1>4 DEF Frame, Fields, KeptFields
<1>6. /\ t.proposal = Nil /\ t.block = Nil /\ t.parts = Nil
      /\ t.lockedRound = 0 /\ t.lockedBlock = Nil /\ t.lockedParts = Nil
      /\ t.validRound = 0 /\ t.validBlock = Nil /\ t.commitRound = NoRound
      /\ t.prevotes = NoTallies /\ t.precommits = NoTallies /\ t.cast = NothingCast
      /\ t.own = v.own /\ t.tocks = v.tocks
  BY <1>2, <1>4 DEF Frame, Fields
<1>7. Fresh(t, W)
  <2>1. t.height \in Nat /\ t.updates \in Nat /\ t.chain \in Nat /\ t.height <= t.chain + 1
    BY SMTT(60), <1>1, <1>5
  <2> QED BY <1>1, <1>2, <1>4, <1>5, <1>6, <2>1, FreshState
<1>8. k \in Nat /\ RoundBegins(t, k)
  BY SMTT(60), <1>1, <1>5 DEF RoundBegins
<1> HIDE DEF k
<1>9. /\ Move(t, x, W) /\ Frame(t, x, RoundFields) /\ x.round = k
      /\ x.cast = t.cast /\ x.proposal = Nil
  BY SMTT(60), <1>3, <1>6, <1>7, <1>8, EnterNewRound DEF Fresh
<1>10. x.lockedBlock = Nil /\ x.prevotes = NoTallies
  BY <1>6, <1>9 DEF Frame, Fields, RoundFields, ProposeFields
<1>11. Fresh(x, W) /\ x.height = s.chain + 1 /\ x.updates = s.updates + 1
  BY <1>5, <1>6, <1>9, <1>10 DEF Fresh, Move
<1>12. x.height = s.height => x.round = 0 \/ x.round > s.round
  BY SMTT(60), <1>1, <1>5, <1>9, <1>11 DEF k
<1>13. TocksPassed(x)
  <2> SUFFICES ASSUME NEW j \in x.tocks PROVE j.round \in Nat /\ j.round <= x.round
    BY DEF TocksPassed
  <2>1. CASE j \in t.tocks
    <3>1. s.height = s.chain + 1 /\ j \in s.tocks
      BY <1>2, <1>6, <2>1
    <3>2. j.round \in Nat /\ j.round <= s.round
      BY <1>1, <3>1 DEF TocksPassed
    <3>3. s.round <= x.round
      BY SMTT(60), <1>1, <1>5, <1>9, <3>1 DEF k
    <3> QED BY SMTT(60), <1>1, <1>8, <1>9, <3>2, <3>3
  <2>2. CASE j \notin t.tocks
    BY <1>9, <2>2 DEF Move, NewTocks
  <2> QED BY <2>1, <2>2
<1> QED BY <1>1, <1>11, <1>12, <1>13 DEF NextCommittee

\* The timeouts that are dropped at the end of a handler are of no consequence.
LEMMA TocksDropped ==
    ASSUME NEW s, NEW t, NEW W, Inv(s, W), Handled(s, t, W)
    PROVE  Handled(s, dropTocks(t), W) /\ dropTocks(t).height = t.height
           /\ dropTocks(t).round = t.round
<1> DEFINE d == dropTocks(t)
<1>1. Good(t, W) /\ DOMAIN t = Fields
  BY DEF Handled, Within, NextHeight, NextCommittee, Fresh, Good, Placed
<1>2. Frame(t, d, {"tocks"}) /\ \A j \in d.tocks : j \in t.tocks
  BY <1>1 DEF dropTocks, Frame, Fields
<1>3. \A j \in t.tocks : j.round = t.round /\ j.step = t.step /\ t.step \in Nat => j \in d.tocks
  BY SMTT(60), <1>1 DEF dropTocks, Fields
<1> HIDE DEF d
<1>4. Move(t, d, W)
  <2>1. NewTocks(t, d) /\ Frame(t, d, Others)
    BY <1>2 DEF NewTocks, Frame, Others
  <2> QED BY <1>1, <2>1, OthersMove
<1>5. /\ d.height = t.height /\ d.round = t.round /\ d.cast = t.cast
      /\ d.proposal = t.proposal /\ d.lockedBlock = t.lockedBlock
  BY <1>2 DEF Frame, Fields
<1>6. Stays(t, d, W)
  <2>0. t.step \in Nat
    BY SMTT(60), <1>1 DEF Good, Placed
  <2>1. d.timer = t.timer /\ d.step = t.step /\ d.panic = t.panic
    BY <1>2 DEF Frame, Fields
  <2>2. TockSet(t) => TockSet(d)
    BY <1>3, <1>5, <2>0, <2>1 DEF TockSet
  <2>3. Past(t) => Past(d)
    BY <1>1, <1>2, <1>4, <2>1, StillPast DEF Move
  <2> QED BY <1>4, <2>1, <2>2, <2>3 DEF Stays, Timed
<1>7. CASE Within(s, t, W) /\ PolkasPassed(t) /\ TocksPassed(t)
  <2>1. Handled(s, d, W)
    BY <1>6, <1>7, WithinHandles
  <2> QED BY <1>5, <2>1 DEF d
<1>8. CASE NextHeight(s, t, W) \/ NextCommittee(s, t, W)
  <2>1. Fresh(d, W) /\ TocksPassed(d) /\ d.updates = t.updates
    BY SMTT(60), <1>4, <1>5, <1>8, FreshMove DEF NextHeight, NextCommittee, Fresh
  <2>2. Handled(s, d, W)
    BY <1>5, <1>6, <1>8, <2>1 DEF Handled, NextHeight, NextCommittee, Stays
  <2> QED BY <1>5, <2>2 DEF d
<1> QED BY <1>7, <1>8 DEF Handled
-----------------------------------------------------------------------------
(* The node.                                                                 *)

\* The inductive invariant.
IInv == Inv(cs, verdict) /\ verdict \in Opinions

\* What a step does.
Stepped ==
    \/ Within(cs, cs', verdict')
    \/ NextHeight(cs, cs', verdict')
    \/ NextCommittee(cs, cs', verdict')

LEMMA AnswersFit == \A e \in Answers : e.verdict = verdict /\ e.made \in Values
BY DEF Answers, Values

\* Whatever a handler did that keeps the invariant, its end does too.
LEMMA DoneSteps ==
    ASSUME IInv, NEW t, Handled(cs, t, verdict), Done(t)
    PROVE  IInv' /\ Stepped
<1>1. /\ Handled(cs, cs', verdict) /\ cs'.height = t.height /\ cs'.round = t.round
      /\ t.round <= MaxRound
      /\ verdict' \in (IF t.height = cs.height THEN {verdict} ELSE Verdicts)
  BY TocksDropped DEF IInv, Done
<1>2. verdict' \in Opinions
  BY <1>1, NodeAssumption DEF IInv, Opinions
<1>3. Good(cs', verdict)
  BY <1>1 DEF Handled, Within, NextHeight, NextCommittee, Fresh
<1>4. cs'.round \in Rounds
  <2>1. cs'.round \in Nat
    BY <1>3 DEF Good, Placed
  <2> QED BY SMTT(60), <1>1, <2>1, VotingAssumption DEF Rounds
<1>5. CASE Within(cs, cs', verdict) /\ PolkasPassed(cs') /\ TocksPassed(cs')
  <2>1. verdict' = verdict
    BY <1>1, <1>5 DEF Within
  <2> QED BY <1>2, <1>3, <1>4, <1>5, <2>1 DEF IInv, Inv, Stepped
<1>6. CASE NextHeight(cs, cs', verdict) \/ NextCommittee(cs, cs', verdict)
  <2>1. Fresh(cs', verdict) /\ TocksPassed(cs')
    BY <1>6 DEF NextHeight, NextCommittee
  <2>2. Fresh(cs', verdict') /\ PolkasPassed(cs')
    BY <2>1, FreshForAll
  <2>3. Stepped
    BY <1>6, <2>2 DEF NextHeight, NextCommittee, Stepped
  <2>4. Good(cs', verdict')
    BY <2>2 DEF Fresh
  <2> QED BY <1>2, <1>4, <2>1, <2>2, <2>3, <2>4 DEF IInv, Inv
<1> QED BY <1>1, <1>5, <1>6 DEF Handled

\* Most handlers move within the height or end it.
LEMMA MovedSteps ==
    ASSUME IInv, NEW t, Stays(cs, t, verdict) \/ NextHeight(cs, t, verdict), Done(t)
    PROVE  IInv' /\ Stepped
<1>1. Handled(cs, t, verdict)
  BY MoveHandles DEF IInv, Handled
<1> QED BY <1>1, DoneSteps

LEMMA NodeInit == Init => IInv /\ Fresh(cs, verdict) /\ Timed(cs)
<1> SUFFICES ASSUME Init PROVE IInv /\ Fresh(cs, verdict) /\ Timed(cs)
  OBVIOUS
<1> DEFINE s == [height |-> 1, round |-> 0, step |-> RoundStepNewHeight,
                 proposal |-> Nil, block |-> Nil, parts |-> Nil,
                 lockedRound |-> 0, lockedBlock |-> Nil, lockedParts |-> Nil,
                 validRound |-> 0, validBlock |-> Nil, validParts |-> Nil,
                 commitRound |-> NoRound, lastCommit |-> 0,
                 prevotes |-> NoTallies, precommits |-> NoTallies, hvsRound |-> 0,
                 timer |-> [round |-> 0, step |-> 0], tocks |-> {}, own |-> Nil,
                 priv |-> [round |-> 0, step |-> 0], cast |-> NothingCast, past |-> {},
                 member |-> TRUE, chain |-> 0, saved |-> Nil, updates |-> 0, synced |-> 0,
                 panic |-> "none"]
<1>1. cs = scheduleTimeout(s, 0, RoundStepNewHeight, 1) /\ verdict \in Opinions
  BY NodeAssumption DEF Init, scheduleRound0, Opinions
<1>2. DOMAIN s = Fields
  BY DEF Fields
<1>3. /\ s.height = 1 /\ s.updates = 0 /\ s.chain = 0 /\ s.panic = "none"
      /\ s.step = 1 /\ s.hvsRound = 0
      /\ s.proposal = Nil /\ s.block = Nil /\ s.parts = Nil
      /\ s.lockedRound = 0 /\ s.lockedBlock = Nil /\ s.lockedParts = Nil
      /\ s.validRound = 0 /\ s.validBlock = Nil /\ s.commitRound = NoRound
      /\ s.prevotes = NoTallies /\ s.precommits = NoTallies /\ s.cast = NothingCast
      /\ s.priv = [round |-> 0, step |-> 0] /\ s.own = Nil
  BY DEF RoundStepNewHeight
<1>4. s.tocks = {} /\ s.round = 0 /\ s.timer = [round |-> 0, step |-> 0]
  OBVIOUS
<1> HIDE DEF s
<1>5. Fresh(s, verdict)
  <2>1. /\ s.height \in Nat /\ s.updates \in Nat /\ s.chain \in Nat
        /\ s.height <= s.chain + 1
    BY SMTT(60), <1>3
  <2>2. s.panic \in {"none", "finalizeCommit"}
    BY <1>3
  <2> QED BY <1>2, <1>3, <1>4, <2>1, <2>2, FreshState
<1>6. Move(s, cs, verdict) /\ Frame(s, cs, {"timer", "tocks"})
  BY SMTT(60), <1>1, <1>4, <1>5, Schedule DEF Fresh
<1>7. TocksPassed(s)
  BY <1>4 DEF TocksPassed
<1>8. /\ cs.cast = s.cast /\ cs.proposal = s.proposal /\ cs.lockedBlock = s.lockedBlock
      /\ cs.round = 0
  BY <1>4, <1>6 DEF Frame, Fields
<1>9. Fresh(cs, verdict) /\ TocksPassed(cs)
  BY SMTT(60), <1>5, <1>6, <1>7, <1>8, FreshMove DEF Fresh
<1>10. PolkasPassed(cs) /\ Good(cs, verdict)
  BY <1>9, FreshForAll DEF Fresh
<1>11. Timed(cs)
  BY <1>1, <1>3, <1>4, <1>5, FirstTimer DEF Fresh
<1> QED BY SMTT(60), <1>1, <1>8, <1>9, <1>10, <1>11, VotingAssumption DEF IInv, Inv, Rounds

\* Every action keeps the invariant.
LEMMA NodeStep == IInv /\ Next => IInv' /\ Stepped
<1> SUFFICES ASSUME IInv, Next PROVE IInv' /\ Stepped
  OBVIOUS
<1> USE DEF IInv
<1>0. /\ Inv(cs, verdict) /\ Good(cs, verdict) /\ verdict \in Opinions
      /\ DOMAIN cs = Fields /\ cs.chain \in Nat
      /\ cs.round \in Rounds
  BY DEF Inv, Good, Placed
<1>1. ASSUME NEW vr \in Rounds, NEW t, ReceivePrevote(vr, t) PROVE IInv' /\ Stepped
  <2>1. cs.panic = "none" /\ t \in Later(cs.prevotes[vr])
    BY <1>1 DEF ReceivePrevote, Running
  <2>2. PICK e \in Answers : Done(addPrevote(cs, vr, t, e))
    BY <1>1 DEF ReceivePrevote
  <2>3. Handled(cs, addPrevote(cs, vr, t, e), verdict)
    BY <1>0, <2>1, AnswersFit, AddPrevote
  <2> QED BY <2>2, <2>3, DoneSteps
<1>2. ASSUME NEW vr \in Rounds, NEW t, ReceivePrecommit(vr, t) PROVE IInv' /\ Stepped
  <2>1. cs.panic = "none" /\ t \in Later(cs.precommits[vr])
    BY <1>2 DEF ReceivePrecommit, Running
  <2>2. PICK e \in Answers : Done(addPrecommit(cs, vr, t, e))
    BY <1>2 DEF ReceivePrecommit
  <2>3. Handled(cs, addPrecommit(cs, vr, t, e), verdict)
    BY <1>0, <2>1, AnswersFit, AddPrecommit
  <2> QED BY <2>2, <2>3, DoneSteps
<1>3. CASE ReceiveLastPrecommit
  <2>1. PICK e \in Answers : Done(enterNewRound(cs, 0, e))
    BY <1>3 DEF ReceiveLastPrecommit
  <2>2. Stays(cs, enterNewRound(cs, 0, e), verdict)
    BY <1>0, AnswersFit, NewRoundStays
  <2> QED BY <2>1, <2>2, MovedSteps
<1>4. ASSUME NEW b \in Blocks, NEW pol \in {NoRound} \cup Rounds, ReceiveProposal(b, pol)
      PROVE  IInv' /\ Stepped
  <2>1. b \in Values /\ pol \in Int
    BY SMTT(60) DEF Values, NoRound, Rounds
  <2>2. Stays(cs, defaultSetProposal(cs, cs.round, b, pol), verdict)
    BY <1>0, <2>1, SetProposal
  <2>3. Done(defaultSetProposal(cs, cs.round, b, pol))
    BY <1>4 DEF ReceiveProposal
  <2> QED BY <2>2, <2>3, MovedSteps
<1>5. CASE ReceiveBlockParts
  <2>1. PICK e \in Answers : Done(addProposalBlockPart(cs, e))
    BY <1>5 DEF ReceiveBlockParts
  <2>2. cs.parts # Nil /\ cs.parts.complete = "no"
    BY <1>5 DEF ReceiveBlockParts
  <2>3. LET t == addProposalBlockPart(cs, e) IN
        Stays(cs, t, verdict) \/ NextHeight(cs, t, verdict)
    BY <1>0, <2>2, AnswersFit, AddPart
  <2> QED BY <2>1, <2>3, MovedSteps
<1>6. CASE OwnProposal
  <2> DEFINE s == [cs EXCEPT !.own.sent = "parts"]
             t == defaultSetProposal(s, s.own.round, s.own.block, s.own.pol)
  <2>1. Done(IF isProposer(s, s.round) THEN t ELSE s)
    BY <1>6 DEF OwnProposal
  <2>2. cs.own \in Proposals
    BY <1>0, <1>6 DEF OwnProposal, Good, Heard
  <2>3. Frame(cs, s, {"own"}) /\ s.own = [cs.own EXCEPT !.sent = "parts"]
    BY <1>0 DEF Frame, Fields
  <2> HIDE DEF s
  <2>4. s.own \in Proposals
    BY <2>2, <2>3 DEF Proposals
  <2>5. Stays(cs, s, verdict)
    BY <1>0, <2>3, <2>4, OwnMove
  <2>6. s.own.block \in Values /\ s.own.pol \in Int
    <3>1. s.own.block \in Values /\ s.own.pol \in {NoRound} \cup Rounds
      BY <2>4 DEF Proposals
    <3>2. {NoRound} \cup Rounds \subseteq Int
      BY SMTT(60) DEF NoRound, Rounds
    <3> QED BY <3>1, <3>2
  <2>7. Stays(s, t, verdict)
    BY <2>5, <2>6, SetProposal DEF Stays, Move
  <2>8. Stays(cs, t, verdict)
    BY <1>0, <2>5, <2>7, StaysTransitive
  <2> HIDE DEF t
  <2> QED BY <2>1, <2>5, <2>8, MovedSteps
<1>7. CASE OwnParts
  <2>1. PICK e \in Answers : Done([addOwnParts(cs, e) EXCEPT !.own = Nil])
    BY <1>7 DEF OwnParts
  <2>2. LET t == [addOwnParts(cs, e) EXCEPT !.own = Nil] IN
        Stays(cs, t, verdict) \/ NextHeight(cs, t, verdict)
    BY <1>0, <1>7, AnswersFit, AddOwnParts DEF OwnParts
  <2> QED BY <2>1, <2>2, MovedSteps
<1>8. ASSUME NEW k \in cs.tocks, Timeout(k) PROVE IInv' /\ Stepped
  <2>1. PICK e \in Answers : Done(handleTimeout([cs EXCEPT !.tocks = @ \ {k}], k, e))
    BY <1>8 DEF Timeout
  <2>2. Stays(cs, handleTimeout([cs EXCEPT !.tocks = @ \ {k}], k, e), verdict)
    BY <1>0, <1>8, AnswersFit, HandleTimeout DEF Timeout, Running
  <2> QED BY <2>1, <2>2, MovedSteps
<1>9. CASE SyncTimeout
  <2>1. LET t == updateStateForSync(cs) IN
        Stays(cs, t, verdict) \/ NextHeight(cs, t, verdict)
    BY <1>0, UpdateStateForSync
  <2> QED BY <1>9, <2>1, MovedSteps DEF SyncTimeout
<1>10. ASSUME NEW member \in BOOLEAN, ValidatorUpdate(member) PROVE IInv' /\ Stepped
  <2>1. PICK e \in Answers : Done(validatorUpdate(cs, member, e))
    BY <1>10 DEF ValidatorUpdate
  <2>2. cs.panic = "none" /\ cs.updates < MaxUpdates
    BY <1>10 DEF ValidatorUpdate, Running
  <2>3. NextCommittee(cs, validatorUpdate(cs, member, e), verdict)
    BY <1>0, <2>2, AnswersFit, NewCommittee
  <2> QED BY <2>1, <2>3, DoneSteps DEF Handled
<1>11. CASE ChainAdvances
  <2>1. cs' = [cs EXCEPT !.chain = @ + 1, !.synced = @ + 1] /\ verdict' = verdict
    BY <1>11 DEF ChainAdvances
  <2>2. /\ Frame(cs, cs', {"chain", "saved", "synced"}) /\ cs'.chain = cs.chain + 1
    BY <1>0, <2>1 DEF Frame, Fields
  <2>3. Stays(cs, cs', verdict)
    BY SMTT(60), <1>0, <2>2, ChainMove
  <2>4. PolkasPassed(cs') /\ TocksPassed(cs') /\ Within(cs, cs', verdict) /\ Good(cs', verdict)
    BY <1>0, <2>3, MoveKeepsPassed, MoveIsWithin DEF Inv, Stays, Move
  <2>5. cs'.round = cs.round
    BY <2>2 DEF Frame, Fields
  <2> QED BY <1>0, <2>1, <2>4, <2>5 DEF Inv, Stepped
<1>12. CASE VerdictChanges
  <2>1. cs' = cs /\ ~ StableVerdicts /\ verdict' \in Opinions
    BY <1>12, NodeAssumption DEF VerdictChanges, Opinions
  <2>2. Good(cs', verdict')
    BY <1>0, <2>1 DEF Good, Locked
  <2>3. Stays(cs, cs', verdict')
    BY <2>1, <2>2, StaysReflexive
  <2>4. Stepped
    BY <2>3, MoveIsWithin DEF Stepped
  <2> QED BY <1>0, <2>1, <2>2, <2>4 DEF Inv
<1> QED
  BY <1>1, <1>2, <1>3, <1>4, <1>5, <1>6, <1>7, <1>8, <1>9, <1>10, <1>11, <1>12 DEF Next
-----------------------------------------------------------------------------
(* What a node promises.                                                     *)

LEMMA NodeKeepsInvariant == Spec => []IInv
<1>1. Init => IInv
  BY NodeInit
<1>2. IInv /\ [Next]_vars => IInv'
  <2> SUFFICES ASSUME IInv, [Next]_vars PROVE IInv'
    OBVIOUS
  <2>1. CASE Next
    BY <2>1, NodeStep
  <2>2. CASE UNCHANGED vars
    BY <2>2 DEF vars, IInv, Inv
  <2> QED BY <2>1, <2>2
<1> QED BY <1>1, <1>2, PTL DEF Spec

\* Whatever a node locks (enterPrecommit) or takes for valid (addVote,
\* addProposalBlockPart) has +2/3 prevotes of that round, and it has all its
\* parts, however many blocks, rounds, heights and committees there are.
THEOREM LocksRestOnPolkas == Spec => []LockHasPolka
<1>1. IInv => LockHasPolka
  BY DEF IInv, Inv, Good, Locked, Valid, LockHasPolka
<1> QED BY <1>1, NodeKeepsInvariant, PTL

\* The panics of enterPrevoteWait, enterPrecommit, enterPrecommitWait,
\* enterCommit, updateToState, SetRound, of the private validator and of an
\* own proposal with missing parts are never reached.  The assertions of
\* finalizeCommit are the exception that SanityChecksHold names.
THEOREM ChecksNeverFail == Spec => []SanityChecksHold
<1>1. IInv => SanityChecksHold
  BY DEF IInv, Inv, Good, Placed, SanityChecksHold
<1> QED BY <1>1, NodeKeepsInvariant, PTL

\* A handler never takes the node back to an earlier height, round or step,
\* except that validatorUpdate starts the height over.
THEOREM StepsForward == Spec => HRSAdvances
<1> DEFINE Forward ==
             \/ cs'.height > cs.height
             \/ cs'.height = cs.height /\
                  \/ cs'.updates > cs.updates /\ (cs'.round > cs.round \/ cs'.round = 0)
                  \/ cs'.updates = cs.updates
                       /\ ~ later(cs.round, cs.step, cs'.round, cs'.step)
<1>1. IInv /\ [Next]_vars => [Forward]_vars
  <2> SUFFICES ASSUME IInv, Next PROVE Forward
    OBVIOUS
  <2>1. /\ cs.height \in Nat /\ cs.updates \in Nat /\ cs'.height \in Nat
    BY NodeStep DEF IInv, Inv, Good, Placed
  <2>2. CASE Within(cs, cs', verdict')
    BY <2>2 DEF Within, Ahead
  <2>3. CASE NextHeight(cs, cs', verdict')
    BY <2>3 DEF NextHeight
  <2>4. CASE NextCommittee(cs, cs', verdict')
    BY SMTT(60), <2>1, <2>4 DEF NextCommittee
  <2> QED BY <2>2, <2>3, <2>4, NodeStep DEF Stepped
<1> QED BY <1>1, NodeKeepsInvariant, PTL DEF Spec, HRSAdvances

\* Where the committee is never replaced, the timeout that a step relies on is
\* always set: the ticker (timeoutRoutine) refuses none of the timeouts that
\* enterNewRound, tryEnterProposal, enterPropose, the two waits and
\* finalizeCommit schedule.  After validatorUpdate has started round 0 over it
\* does refuse them, so the theorem says nothing of a committee that changes.
THEOREM TimersAreSet == MaxUpdates = 0 => (Spec => []TimerIsSet)
<1> SUFFICES ASSUME MaxUpdates = 0 PROVE Spec => []TimerIsSet
  OBVIOUS
<1> DEFINE TInv == Timed(cs)
<1>1. Init => TInv
  BY NodeInit
<1>2. IInv /\ TInv /\ [Next]_vars => TInv'
  <2> SUFFICES ASSUME IInv, TInv, [Next]_vars PROVE Timed(cs')
    OBVIOUS
  <2>1. CASE UNCHANGED vars
    BY <2>1 DEF vars
  <2>2. CASE Next
    <3>1. cs.updates \in Nat
      BY DEF IInv, Inv, Good, Placed
    <3>2. ~ NextCommittee(cs, cs', verdict')
      BY SMTT(60), <3>1 DEF NextCommittee
    <3> QED BY <2>2, <3>2, NodeStep DEF Stepped, Within, NextHeight
  <2> QED BY <2>1, <2>2
<1>3. TInv => TimerIsSet
  <2>1. {RoundStepNewHeight, RoundStepNewRound, RoundStepPropose,
         RoundStepPrevoteWait, RoundStepPrecommitWait} = TimedSteps
    BY DEF TimedSteps, RoundStepNewHeight, RoundStepNewRound, RoundStepPropose,
                 RoundStepPrevoteWait, RoundStepPrecommitWait
  <2> QED BY <2>1 DEF Timed, TockSet, TimerIsSet
<1> HIDE DEF TInv
<1> QED BY <1>1, <1>2, <1>3, NodeKeepsInvariant, PTL DEF Spec
-----------------------------------------------------------------------------
(* A node is a Voter.                                                        *)

Votes(s, st) == [r \in Rounds |-> For(s.cast[st][r])]

\* A vote is for a block with the parts of that block, so it is counted.
LEMMA CountedFor ==
    ASSUME NEW s, Signed(s), NEW st \in VoteSteps
    PROVE  Votes(s, st) =
             [r \in Rounds |->
                LET v == s.cast[st][r] IN
                IF v = NoVote THEN NoVote
                ELSE IF v.result # "agree" THEN NoVote
                ELSE IF v.hash = v.parts THEN v.hash ELSE "mixed"]
BY DEF Votes, For, Signed

LEMMA VoteValues ==
    ASSUME NEW s, Signed(s), NEW st \in VoteSteps, NEW r \in Rounds
    PROVE  Votes(s, st)[r] = For(s.cast[st][r]) /\ Votes(s, st)[r] \in Values \cup {NoVote}
<1>1. s.cast[st][r] \in CastVotes \cup {NoVote}
  BY DEF Signed
<1> QED BY <1>1 DEF Votes, For, CastVotes

\* What it does within a height is what a Voter may do.
LEMMA VotesByTheRules ==
    ASSUME NEW s, NEW t, NEW W, StableVerdicts, Signed(s), Within(s, t, W), NEW r \in Rounds
    PROVE  /\ Votes(t, stepPrevote)[r] # Votes(s, stepPrevote)[r] =>
                /\ Votes(s, stepPrevote)[r] = NoVote /\ Votes(s, stepPrecommit)[r] = NoVote
                /\ s.round <= r /\ r <= t.round /\ Votes(t, stepPrevote)[r] \in Values
                /\ \A q \in Rounds : q < r /\ Votes(t, stepPrecommit)[q] \in Blocks
                     /\ Votes(t, stepPrecommit)[q] # Votes(t, stepPrevote)[r]
                       => PolkaBetween(t, q, r, Votes(t, stepPrecommit)[q])
           /\ Votes(t, stepPrecommit)[r] # Votes(s, stepPrecommit)[r] =>
                /\ Votes(s, stepPrecommit)[r] = NoVote
                /\ s.round <= r /\ r <= t.round /\ Votes(t, stepPrecommit)[r] \in Values
                /\ Votes(t, stepPrecommit)[r] \in Blocks =>
                     t.prevotes[r] = Votes(t, stepPrecommit)[r]
<1>1. Signed(s) /\ Signed(t) /\ NewVotes(s, t) /\ Precommits(t) /\ Prevotes(t)
  BY DEF Within, Good
<1>2. stepPrevote \in VoteSteps /\ stepPrecommit \in VoteSteps
  BY DEF VoteSteps
<1>3. For(NoVote) = NoVote
  BY DEF For
<1>4. ASSUME NEW st \in VoteSteps, Votes(t, st)[r] # Votes(s, st)[r]
      PROVE  /\ Votes(s, st)[r] = NoVote /\ Votes(t, st)[r] \in Values
             /\ s.round <= r /\ r <= t.round
             /\ st = stepPrevote => Votes(s, stepPrecommit)[r] = NoVote
  <2>1. t.cast[st][r] # s.cast[st][r]
    BY SMTT(60), <1>1, <1>4, VoteValues
  <2>2. /\ s.cast[st][r] = NoVote /\ s.round <= r /\ r <= t.round
        /\ st = stepPrevote => s.cast[stepPrecommit][r] = NoVote
    BY <1>1, <2>1 DEF NewVotes
  <2> QED BY SMTT(60), <1>1, <1>2, <1>3, <1>4, <2>2, VoteValues
<1>5. ASSUME Votes(t, stepPrevote)[r] # Votes(s, stepPrevote)[r],
             NEW q \in Rounds, q < r, Votes(t, stepPrecommit)[q] \in Blocks,
             Votes(t, stepPrecommit)[q] # Votes(t, stepPrevote)[r]
      PROVE  PolkaBetween(t, q, r, Votes(t, stepPrecommit)[q])
  <2>1. Votes(t, stepPrevote)[r] \in Values
    BY <1>2, <1>4, <1>5
  <2>2. /\ Votes(t, stepPrevote)[r] = For(t.cast[stepPrevote][r])
        /\ Votes(t, stepPrecommit)[q] = For(t.cast[stepPrecommit][q])
    BY <1>1, <1>2, VoteValues
  <2> QED BY <1>1, <1>5, <2>1, <2>2 DEF Prevotes
<1>6. ASSUME Votes(t, stepPrecommit)[r] \in Blocks
      PROVE  t.prevotes[r] = Votes(t, stepPrecommit)[r]
  BY SMTT(60), <1>1, <1>2, <1>6, VoteValues DEF Precommits
<1> QED BY <1>2, <1>4, <1>5, <1>6

\* Where no votes were cast and none were counted, an era may begin.
LEMMA FreshVotes ==
    ASSUME NEW s, NEW W, Fresh(s, W)
    PROVE  /\ \A st \in VoteSteps : Votes(s, st) = [r \in Rounds |-> NoVote]
           /\ [r \in Rounds |-> {s.prevotes[r]} \cap Values] = [r \in Rounds |-> {}]
<1>1. ASSUME NEW st \in VoteSteps PROVE Votes(s, st) = [r \in Rounds |-> NoVote]
  BY SMTT(60) DEF Fresh, Votes, NothingCast, VoteSteps, For
<1>2. "none" \notin Values
  BY NodeAssumption
<1> QED BY SMTT(60), <1>1, <1>2 DEF Fresh, NoTallies

LEMMA Mapping ==
    ASSUME IInv
    PROVE  \A st \in VoteSteps : counted(st) = Votes(cs, st)
BY SMTT(60), CountedFor DEF IInv, Inv, Good, counted

LEMMA MappingPrimed ==
    ASSUME IInv'
    PROVE  \A st \in VoteSteps : counted(st)' = Votes(cs', st)
<1>1. Signed(cs')
  BY DEF IInv, Inv, Good
<1>2. ASSUME NEW st \in VoteSteps PROVE counted(st)' = Votes(cs', st)
  BY <1>1, CountedFor DEF counted
<1> QED BY <1>2

\* A handler that stays within the height is a Vote of Voter.
LEMMA VoteStep ==
    ASSUME StableVerdicts, IInv, IInv', Within(cs, cs', verdict')
    PROVE  V!Vote
<1> DEFINE seenNow == [r \in Rounds |-> {cs.prevotes[r]} \cap Values]
           seenNext == [r \in Rounds |-> {cs'.prevotes[r]} \cap Values]
<1>0. Signed(cs)
  BY DEF IInv, Inv, Good
<1>1. stepPrevote \in VoteSteps /\ stepPrecommit \in VoteSteps
  BY DEF VoteSteps
<1>2. /\ counted(stepPrevote) = Votes(cs, stepPrevote)
      /\ counted(stepPrecommit) = Votes(cs, stepPrecommit)
      /\ counted(stepPrevote)' = Votes(cs', stepPrevote)
      /\ counted(stepPrecommit)' = Votes(cs', stepPrecommit)
  BY <1>1, Mapping, MappingPrimed
<1>3. /\ cs.round \in Nat /\ cs'.round \in Nat /\ cs.round <= cs'.round /\ cs'.round <= MaxRound
      /\ cs'.height = cs.height /\ cs'.updates = cs.updates
  <2>1. Placed(cs) /\ Placed(cs')
    BY DEF IInv, Inv, Good
  <2>2. Ahead(cs, cs') /\ cs'.height = cs.height /\ cs'.updates = cs.updates /\ cs'.round \in Rounds
    BY DEF Within, IInv, Inv
  <2>3. cs.round \in Nat /\ cs.step \in 1 .. 8 /\ cs'.round \in Nat /\ cs'.step \in 1 .. 8
    BY <2>1 DEF Placed
  <2>4. cs'.round <= MaxRound
    BY SMTT(60), <2>2, VotingAssumption DEF Rounds
  <2> QED BY SMTT(60), <2>2, <2>3, <2>4 DEF Ahead, later
<1>4. \A r \in Rounds : seenNow[r] \subseteq seenNext[r]
  BY DEF Within
<1>5. ASSUME NEW r \in Rounds, NEW q \in Rounds, NEW b \in Values, PolkaBetween(cs', q, r, b)
      PROVE  \E p \in Rounds : q < p /\ p < r /\ seenNext[p] \ {b} # {}
  BY <1>5 DEF PolkaBetween
<1>6. ASSUME NEW r \in Rounds, Votes(cs, stepPrevote)[r] # Votes(cs', stepPrevote)[r]
      PROVE  /\ Votes(cs, stepPrevote)[r] = NoVote
             /\ r \in cs.round .. cs'.round /\ Votes(cs', stepPrevote)[r] \in Values
             /\ Votes(cs, stepPrecommit)[r] = NoVote
             /\ PrevoteRule(Votes(cs', stepPrecommit), seenNext, r, Votes(cs', stepPrevote)[r])
  <2>1. /\ Votes(cs, stepPrevote)[r] = NoVote /\ Votes(cs, stepPrecommit)[r] = NoVote
        /\ cs.round <= r /\ r <= cs'.round /\ Votes(cs', stepPrevote)[r] \in Values
        /\ \A q \in Rounds : q < r /\ Votes(cs', stepPrecommit)[q] \in Blocks
             /\ Votes(cs', stepPrecommit)[q] # Votes(cs', stepPrevote)[r]
               => PolkaBetween(cs', q, r, Votes(cs', stepPrecommit)[q])
    BY <1>6, <1>0, VotesByTheRules
  <2>2. PrevoteRule(Votes(cs', stepPrecommit), seenNext, r, Votes(cs', stepPrevote)[r])
    <3> HIDE DEF seenNext
    <3> QED BY <1>5, <2>1 DEF PrevoteRule, Values
  <2>3. r \in cs.round .. cs'.round
    BY SMTT(60), <1>3, <2>1 DEF Rounds
  <2> QED BY <2>1, <2>2, <2>3
<1>7. ASSUME NEW r \in Rounds, Votes(cs, stepPrecommit)[r] # Votes(cs', stepPrecommit)[r]
      PROVE  /\ Votes(cs, stepPrecommit)[r] = NoVote
             /\ r \in cs.round .. cs'.round /\ Votes(cs', stepPrecommit)[r] \in Values
             /\ PrecommitRule(seenNext, r, Votes(cs', stepPrecommit)[r])
  <2>1. /\ Votes(cs, stepPrecommit)[r] = NoVote
        /\ cs.round <= r /\ r <= cs'.round /\ Votes(cs', stepPrecommit)[r] \in Values
        /\ Votes(cs', stepPrecommit)[r] \in Blocks =>
             cs'.prevotes[r] = Votes(cs', stepPrecommit)[r]
    BY <1>7, <1>0, VotesByTheRules
  <2>2. PrecommitRule(seenNext, r, Votes(cs', stepPrecommit)[r])
    BY <2>1 DEF PrecommitRule, Values
  <2>3. r \in cs.round .. cs'.round
    BY SMTT(60), <1>3, <2>1 DEF Rounds
  <2> QED BY <2>1, <2>2, <2>3
<1>8. (cs.height + cs.updates)' = cs.height + cs.updates
      /\ cs'.round \in cs.round .. MaxRound
  BY SMTT(60), <1>3, VotingAssumption
<1> HIDE DEF seenNow, seenNext
<1>9. V!Rounds = Rounds /\ V!Values = Values
  BY DEF V!Rounds, Rounds, V!Values, Values
<1>10. [r \in Rounds |-> {cs.prevotes[r]} \cap Values]' = seenNext
       /\ [r \in Rounds |-> {cs.prevotes[r]} \cap Values] = seenNow
  BY DEF seenNext, seenNow
<1>11. /\ \A v, r : V!PrevoteRule(Votes(cs', stepPrecommit), seenNext, r, v)
                    <=> PrevoteRule(Votes(cs', stepPrecommit), seenNext, r, v)
       /\ \A v, r : V!PrecommitRule(seenNext, r, v) <=> PrecommitRule(seenNext, r, v)
  BY <1>9 DEF V!PrevoteRule, PrevoteRule, V!PrecommitRule, PrecommitRule
<1>12. \A r \in V!Rounds : Votes(cs, stepPrevote)[r] # Votes(cs', stepPrevote)[r] =>
         /\ Votes(cs, stepPrevote)[r] = NoVote
         /\ r \in cs.round .. cs'.round /\ Votes(cs', stepPrevote)[r] \in V!Values
         /\ Votes(cs, stepPrecommit)[r] = NoVote
         /\ V!PrevoteRule(Votes(cs', stepPrecommit), seenNext, r, Votes(cs', stepPrevote)[r])
  BY <1>6, <1>9, <1>11
<1>13. \A r \in V!Rounds : Votes(cs, stepPrecommit)[r] # Votes(cs', stepPrecommit)[r] =>
         /\ Votes(cs, stepPrecommit)[r] = NoVote
         /\ r \in cs.round .. cs'.round /\ Votes(cs', stepPrecommit)[r] \in V!Values
         /\ V!PrecommitRule(seenNext, r, Votes(cs', stepPrecommit)[r])
  BY <1>7, <1>9, <1>11
<1>14. \A r \in V!Rounds : seenNow[r] \subseteq seenNext[r]
  BY <1>4, <1>9
<1> QED
  BY <1>2, <1>8, <1>10, <1>12, <1>13, <1>14 DEF V!Vote, V!Cast

\* A height that begins is a new era.
LEMMA EraStep ==
    ASSUME IInv, IInv', Fresh(cs', verdict'),
           cs'.height + cs'.updates > cs.height + cs.updates
    PROVE  V!NewEra
<1>1. /\ counted(stepPrevote)' = [r \in Rounds |-> NoVote]
      /\ counted(stepPrecommit)' = [r \in Rounds |-> NoVote]
      /\ [r \in Rounds |-> {cs'.prevotes[r]} \cap Values] = [r \in Rounds |-> {}]
  BY MappingPrimed, FreshVotes DEF VoteSteps
<1>2. [r \in Rounds |-> {cs.prevotes[r]} \cap Values]' = [r \in Rounds |-> {}]
  BY <1>1
<1>3. V!Rounds = Rounds /\ cs'.round \in Rounds
  BY DEF V!Rounds, Rounds, IInv, Inv
<1> QED BY <1>1, <1>2, <1>3 DEF V!NewEra, V!NoVotes, V!NoPolkas

\* The votes a node signs are those of a Voter, if its agent does not change
\* its opinion of a block within a height: one prevote and one precommit a
\* round, a precommit for a block only with a polka, and a prevote against an
\* earlier precommit only after a later polka, whatever votes, proposals,
\* timeouts, synchronised blocks and committees come (defaultDoPrevote,
\* enterPrecommit, addVote, updateToState, validatorUpdate).
THEOREM NodeImplementsVoter == StableVerdicts => (Spec => ImplementsVoter)
<1> SUFFICES ASSUME StableVerdicts PROVE Spec => ImplementsVoter
  OBVIOUS
<1>1. Init => V!Init
  <2> SUFFICES ASSUME Init PROVE V!Init
    OBVIOUS
  <2>1. IInv /\ Fresh(cs, verdict)
    BY NodeInit
  <2>2. /\ counted(stepPrevote) = [r \in Rounds |-> NoVote]
        /\ counted(stepPrecommit) = [r \in Rounds |-> NoVote]
        /\ [r \in Rounds |-> {cs.prevotes[r]} \cap Values] = [r \in Rounds |-> {}]
    BY <2>1, Mapping, FreshVotes DEF VoteSteps
  <2>3. cs.height + cs.updates \in Nat
    BY SMTT(60), <2>1 DEF IInv, Inv, Good, Placed
  <2>4. cs.round = 0
    BY DEF Init, scheduleRound0, scheduleTimeout
  <2>5. V!Rounds = Rounds
    BY DEF V!Rounds, Rounds
  <2> QED BY <2>2, <2>3, <2>4, <2>5 DEF V!Init, V!NoVotes, V!NoPolkas
<1>2. IInv /\ [Next]_vars => [V!Next]_V!vars
  <2> SUFFICES ASSUME IInv, Next PROVE V!Next
    <3>1. UNCHANGED vars => UNCHANGED V!vars
      BY DEF vars, V!vars, counted
    <3> QED BY <3>1
  <2>1. IInv' /\ Stepped
    BY NodeStep
  <2>2. CASE Within(cs, cs', verdict')
    BY <2>1, <2>2, VoteStep DEF V!Next
  <2>3. CASE NextHeight(cs, cs', verdict') \/ NextCommittee(cs, cs', verdict')
    <3>1. /\ cs.height \in Nat /\ cs.updates \in Nat /\ cs'.height \in Nat /\ cs'.updates \in Nat
      BY <2>1 DEF IInv, Inv, Good, Placed
    <3>2. Fresh(cs', verdict') /\ cs'.height + cs'.updates > cs.height + cs.updates
      BY SMTT(60), <2>3, <3>1 DEF NextHeight, NextCommittee
    <3> QED BY <2>1, <3>2, EraStep DEF V!Next
  <2> QED BY <2>1, <2>2, <2>3 DEF Stepped
<1> QED BY <1>1, <1>2, NodeKeepsInvariant, PTL DEF Spec, ImplementsVoter, V!Spec
=============================================================================
