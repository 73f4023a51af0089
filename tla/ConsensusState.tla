--------------------------- MODULE ConsensusState ---------------------------
(***************************************************************************)
(* The consensus state machine of one node (state.go).                     *)
(*                                                                         *)
(* receiveRoutine handles one message or timeout at a time, so a handler   *)
(* is one action.  The functions a handler calls are operators from a      *)
(* state of the node to the next one, named after the Go functions and     *)
(* composed as they call each other; cs holds what they read and write.    *)
(* The votes of the committee are Tallies, which grow as the environment   *)
(* pleases as long as the tallies of the rounds are consistent with each   *)
(* other (TbftVoting shows that they are).                                 *)
(***************************************************************************)
EXTENDS VotingRules, FiniteSets, FiniteSetsExt

CONSTANTS
    ProposerRounds,     \* the rounds this node is the proposer of
    SkipTimeoutCommit,  \* config.SkipTimeoutCommit
    AgentMayFail,       \* ConsensusCommit may return an error
    StableVerdicts,     \* the agent's opinion of a block never changes
    Verdicts,           \* the opinions it may have: [Blocks -> Verdict]
    MaxHeight,          \* bound on the heights
    MaxWait,            \* how often the proposer waits for transactions
    MaxUpdates,         \* bound on the validator updates
    MaxSynced,          \* bound on the blocks the chain gets from elsewhere
    VoteTallies         \* bound on what is learnt of the votes of a round

\* ValidateBlock: a signature with a result, one that comes with an error (or
\* none, outside the committee's heights), or no decodable block.  An agent that
\* returns no signature makes the code panic in a log call and is left out.
Verdict == {"agree", "against", "invalid", "garbled"}

ASSUME NodeAssumption ==
    /\ ProposerRounds \subseteq Nat
    /\ {SkipTimeoutCommit, AgentMayFail, StableVerdicts} \subseteq BOOLEAN
    /\ Verdicts \subseteq [Blocks -> Verdict]
    /\ MaxHeight \in Nat /\ MaxWait \in Nat \ {0}
    /\ MaxUpdates \in Nat /\ MaxSynced \in Nat
    /\ Values \cap {"none", "any", "all"} = {}
    /\ Nil \notin [block : Values, pol : Int]
    /\ NoVote \notin [hash : Values, parts : Values, result : {"agree", "against"}]

INSTANCE Tallies

VARIABLES
    cs,       \* the node
    verdict   \* what its agent thinks of the blocks

vars == <<cs, verdict>>

RoundStepNewHeight     == 1
RoundStepNewRound      == 2
RoundStepPropose       == 3
RoundStepPrevote       == 4
RoundStepPrevoteWait   == 5
RoundStepPrecommit     == 6
RoundStepPrecommitWait == 7
RoundStepCommit        == 8

\* The steps of the private validator.
stepPropose   == 1
stepPrevote   == 2
stepPrecommit == 3

NoRound == -1

\* A part set of block b: complete, incomplete, or incomplete for ever since
\* nobody adds parts to it any more.
NewPartSet(b) == [of |-> b, complete |-> "no"]
MadePartSet(b) == [of |-> b, complete |-> "yes"]

HasHeader(ps, b) == ps # Nil /\ ps.of = b

\* No other pointer to the set is left that could complete it.
Orphan(ps) ==
    IF ps # Nil /\ ps.complete = "no" THEN [ps EXCEPT !.complete = "never"] ELSE ps

dropParts(s, ps) ==
    [s EXCEPT !.parts = ps, !.validParts = Orphan(@), !.lockedParts = Orphan(@)]

later(r, st, q, su) == r > q \/ (r = q /\ st > su)
-----------------------------------------------------------------------------
(* The timer.  timer is the last timeout the ticker accepted; tocks are the  *)
(* timeouts that were accepted at this height and not handled yet.  All but  *)
(* the last may have been stopped, or may have fired and wait in tockChan.   *)

ScheduleLaterRounds(s, r, st, w) ==
    IF w = 1 /\ s.timer.step > 0 /\ r <= s.timer.round THEN s
    ELSE [s EXCEPT !.timer = [round |-> r, step |-> st],
                   !.tocks = @ \cup {[round |-> r, step |-> st, wait |-> w]}]

\* timeoutRoutine: only later timeouts replace the one that is set, except that
\* the wait for transactions is always accepted.
scheduleTimeout(s, r, st, w) ==
    IF w = 1 /\ s.timer.step > 0 /\ ~ later(r, st, s.timer.round, s.timer.step)
      THEN s
      ELSE [s EXCEPT !.timer = [round |-> r, step |-> st],
                     !.tocks = @ \cup {[round |-> r, step |-> st, wait |-> w]}]

\* Timeouts that handleTimeout would ignore now and for ever.
dropTocks(s) ==
    [s EXCEPT !.tocks =
       {t \in @ : \/ t.round > s.round
                  \/ t.round = s.round /\ (t.step >= s.step \/ s.updates < MaxUpdates)}]
-----------------------------------------------------------------------------
(* Signing.                                                                  *)

\* privValidator: signs only for a later round or step than the last one.
\* A second request for the same step panics on the bytes it signed first.
checkHRS(s, st) == later(s.round, st, s.priv.round, s.priv.step)
sameHRS(s, st) == s.priv = [round |-> s.round, step |-> st]

signAddVote(s, st, hash, parts, result) ==
    IF ~ s.member \/ (~ checkHRS(s, st) /\ ~ sameHRS(s, st)) THEN s
    ELSE IF sameHRS(s, st) THEN [s EXCEPT !.panic = "signVote"]
    ELSE [s EXCEPT !.priv = [round |-> s.round, step |-> st],
                   !.cast[st][s.round] = [hash |-> hash, parts |-> parts, result |-> result]]

signNil(s, st) == signAddVote(s, st, Nil, Nil, "agree")
-----------------------------------------------------------------------------
(* Round 0 of a new height.                                                  *)

\* A committee's height begins with a fresh HeightVoteSet, and with no votes
\* cast.
NoTallies == [r \in Rounds |-> "none"]

NothingCast == [st \in {stepPrevote, stepPrecommit} |-> [r \in Rounds |-> NoVote]]

atHeight(s, h) ==
    IF h = s.height THEN s
    ELSE [s EXCEPT !.height = h, !.timer = [round |-> 0, step |-> 0], !.tocks = {},
                   !.priv = [round |-> 0, step |-> 0], !.past = {}, !.own = Nil]

UpdateKeepsLock(s) ==
    [atHeight(s, s.chain + 1) EXCEPT
       !.round = 0, !.step = RoundStepNewHeight,
       !.proposal = Nil, !.block = Nil, !.parts = Nil,
       !.validRound = 0, !.validBlock = Nil, !.validParts = Nil,
       !.prevotes = NoTallies, !.precommits = NoTallies, !.hvsRound = 0,
       !.cast = NothingCast,
       !.lastCommit = IF s.commitRound # NoRound THEN s.height ELSE 0,
       !.commitRound = NoRound]

updateToState(s) ==
    IF s.commitRound # NoRound /\ ~ TwoThirdsMajority(s.precommits[s.commitRound])
    THEN [s EXCEPT !.panic = "updateToState"]
    ELSE [atHeight(s, s.chain + 1) EXCEPT
            !.round = 0, !.step = RoundStepNewHeight,
            !.proposal = Nil, !.block = Nil, !.parts = Nil,
            !.lockedRound = 0, !.lockedBlock = Nil, !.lockedParts = Nil,
            !.validRound = 0, !.validBlock = Nil, !.validParts = Nil,
            !.prevotes = NoTallies, !.precommits = NoTallies, !.hvsRound = 0,
            !.cast = NothingCast,
            !.lastCommit = IF s.commitRound # NoRound THEN s.height ELSE 0,
            !.commitRound = NoRound]

scheduleRound0(s) == scheduleTimeout(s, 0, RoundStepNewHeight, 1)
-----------------------------------------------------------------------------
(* Prevotes and precommits.  e holds the agent's answers to this handler.    *)

BehindInRound(s, r, st) == s.panic # "none" \/ r < s.round

\* The early return of the enter* functions: this step was already entered.
behind(s, r, st) == s.panic # "none" \/ ~ later(r, st, s.round, s.step)

atStep(s, r, st) ==
    IF s.panic # "none" THEN s ELSE [s EXCEPT !.round = r, !.step = st]

\* The proposed block is there, and the prevotes its proposer refers to.
isProposalComplete(s) ==
    /\ s.proposal # Nil /\ s.block # Nil
    /\ s.proposal.pol = NoRound \/ TwoThirdsMajority(s.prevotes[s.proposal.pol])

\* Sign for a block if the agent gives a signature of its own for it.
signBlock(s, st, b, parts, e) ==
    IF e.verdict[b] \in {"agree", "against"}
      THEN signAddVote(s, st, b, parts, e.verdict[b])
      ELSE signNil(s, st)

doPrevote(s, e) ==
    IF s.lockedBlock # Nil
      THEN signBlock(s, stepPrevote, s.lockedBlock, s.lockedParts.of, e)
    ELSE IF s.block # Nil
      THEN signBlock(s, stepPrevote, s.block, s.parts.of, e)
    ELSE signNil(s, stepPrevote)

enterPrevote(s, r, e) ==
    IF behind(s, r, RoundStepPrevote) THEN s
    ELSE atStep(doPrevote(s, e), r, RoundStepPrevote)

enterPrevoteWait(s, r) ==
    IF behind(s, r, RoundStepPrevoteWait) THEN s
    ELSE IF ~ HasTwoThirdsAny(s.prevotes[r])
      THEN [s EXCEPT !.panic = "enterPrevoteWait"]
    ELSE atStep(scheduleTimeout(s, r, RoundStepPrevoteWait, 1), r, RoundStepPrevoteWait)

\* The last round, up to the next one, with +2/3 prevotes for a block or nil.
POLInfo(s) ==
    Max({NoRound} \cup {r \in Rounds : r <= s.hvsRound /\ TwoThirdsMajority(s.prevotes[r])})

unlock(s) == [s EXCEPT !.lockedRound = 0, !.lockedBlock = Nil, !.lockedParts = Nil]

LockKeepsRound(s, r, e) ==
    LET locked == [s EXCEPT !.lockedBlock = s.block, !.lockedParts = s.parts]
    IN  signBlock(IF e.verdict[s.block] = "agree" THEN locked ELSE s,
                  stepPrecommit, s.block, s.block, e)

LockIfAgainst(s, r, e) ==
    LET locked == [s EXCEPT !.lockedRound = r, !.lockedBlock = s.block,
                            !.lockedParts = s.parts]
    IN  signBlock(IF e.verdict[s.block] = "against" THEN locked ELSE s,
                  stepPrecommit, s.block, s.block, e)

\* +2/3 prevotes for the block we hold: lock it if the agent agrees with it.
lockAndPrecommit(s, r, e) ==
    LET locked == [s EXCEPT !.lockedRound = r, !.lockedBlock = s.block,
                            !.lockedParts = s.parts]
    IN  signBlock(IF e.verdict[s.block] = "agree" THEN locked ELSE s,
                  stepPrecommit, s.block, s.block, e)

\* +2/3 prevotes for a block we do not hold: unlock and get ready to fetch it.
unlockAndFetch(s, b) ==
    LET fetching == [dropParts(unlock(s), NewPartSet(b)) EXCEPT !.block = Nil]
    IN  signNil(IF HasHeader(s.parts, b) THEN unlock(s) ELSE fetching, stepPrecommit)

precommit(s, r, e) ==
    LET polka == s.prevotes[r] IN
    IF ~ TwoThirdsMajority(polka) THEN signNil(s, stepPrecommit)
    ELSE IF POLInfo(s) < r THEN [s EXCEPT !.panic = "POLInfo"]
    ELSE IF polka = Nil THEN signNil(unlock(s), stepPrecommit)
    ELSE IF s.lockedBlock = polka
      THEN signBlock([s EXCEPT !.lockedRound = r], stepPrecommit, polka, polka, e)
    ELSE IF s.block = polka THEN lockAndPrecommit(s, r, e)
    ELSE unlockAndFetch(s, polka)

enterPrecommit(s, r, e) ==
    IF behind(s, r, RoundStepPrecommit) THEN s
    ELSE atStep(precommit(s, r, e), r, RoundStepPrecommit)

enterPrecommitWait(s, r) ==
    IF behind(s, r, RoundStepPrecommitWait) THEN s
    ELSE IF ~ HasTwoThirdsAny(s.precommits[r])
      THEN [s EXCEPT !.panic = "enterPrecommitWait"]
    ELSE atStep(scheduleTimeout(s, r, RoundStepPrecommitWait, 1), r, RoundStepPrecommitWait)
-----------------------------------------------------------------------------
(* Proposing.  own is the proposal this node signed, on its way through      *)
(* internalMsgQueue: first the proposal itself, then the parts of its block. *)

\* Propose the locked block, else the valid one, else the one just made.
defaultDecideProposal(s, r, e) ==
    LET parts == IF s.lockedBlock # Nil THEN s.lockedParts
                 ELSE IF s.validBlock # Nil THEN s.validParts
                 ELSE MadePartSet(e.made)
    IN  IF sameHRS(s, stepPropose) THEN [s EXCEPT !.panic = "signProposal"]
        ELSE IF ~ checkHRS(s, stepPropose) THEN s
        ELSE [s EXCEPT !.priv = [round |-> s.round, step |-> stepPropose],
                       !.own = [sent |-> "proposal", round |-> r, block |-> parts.of,
                                pol |-> POLInfo(s), whole |-> parts.complete = "yes"]]

\* Enter Propose, and go on at once if the proposal is already complete.
donePropose(s, r, e) ==
    LET t == atStep(s, r, RoundStepPropose)
    IN  IF isProposalComplete(t) THEN enterPrevote(t, t.round, e) ELSE t

isProposer(s, r) == s.member /\ r \in ProposerRounds

enterPropose(s, r, e) ==
    donePropose(defaultDecideProposal(scheduleTimeout(s, r, RoundStepPropose, 1), r, e), r, e)

tryEnterProposal(s, r, wait, e) ==
    IF behind(s, r, RoundStepPropose) THEN s
    ELSE IF ~ isProposer(s, r) \/ e.made = Nil
      THEN donePropose(scheduleTimeout(s, r, RoundStepPropose, 1), r, e)
    ELSE IF e.empty /\ r = 0 /\ wait < MaxWait
      THEN scheduleTimeout(s, r, RoundStepNewRound, wait + 1)
    ELSE enterPropose(s, r, e)
-----------------------------------------------------------------------------
(* Rounds.                                                                   *)

SetRoundBehind(s, r) == [s EXCEPT !.hvsRound = r - 1]

\* HeightVoteSet.SetRound tracks one round more than the current one.
SetRound(s, r) ==
    IF s.hvsRound # 0 /\ r < s.hvsRound + 1 THEN [s EXCEPT !.panic = "SetRound"]
    ELSE [s EXCEPT !.hvsRound = r]

EnterSameRound(s, r, e) ==
    LET fresh == IF r = 0 THEN s
                 ELSE [dropParts(s, Nil) EXCEPT !.proposal = Nil, !.block = Nil]
    IN  IF s.panic # "none" \/ r < s.round THEN s
        ELSE tryEnterProposal(SetRound(atStep(fresh, r, RoundStepNewRound), r + 1), r, 1, e)

\* A proposal for round 0 may have arrived before the round began.
enterNewRound(s, r, e) ==
    LET fresh == IF r = 0 THEN s
                 ELSE [dropParts(s, Nil) EXCEPT !.proposal = Nil, !.block = Nil]
    IN  IF s.panic # "none" \/ r < s.round \/ (r = s.round /\ s.step # RoundStepNewHeight)
          THEN s
          ELSE tryEnterProposal(SetRound(atStep(fresh, r, RoundStepNewRound), r + 1),
                                r, 1, e)
-----------------------------------------------------------------------------
(* Committing.                                                               *)

\* The agent takes the block, the store keeps it, and the next height begins.
finalizeCommit(s, e) ==
    IF ~ HasHeader(s.parts, s.precommits[s.commitRound])
      THEN [s EXCEPT !.panic = "finalizeCommit"]
    ELSE IF ~ e.commitOK THEN s
    ELSE scheduleRound0(updateToState(
           [s EXCEPT !.chain = Max({@, s.height}),
                     !.saved = [height |-> s.height, block |-> s.block,
                                whole |-> s.parts.complete = "yes"]]))

tryFinalizeCommit(s, e) ==
    IF s.step = RoundStepCommit /\ s.block # Nil /\ s.precommits[s.commitRound] = s.block
      THEN finalizeCommit(s, e) ELSE s

useLockedBlock(s, b) ==
    IF s.lockedBlock = b
      THEN [dropParts(s, s.lockedParts) EXCEPT !.block = b] ELSE s

\* The parts are replaced only when another block was there before.
fetchCommitBlock(s, b) ==
    IF s.block # Nil /\ s.block # b /\ ~ HasHeader(s.parts, b)
      THEN [dropParts(s, NewPartSet(b)) EXCEPT !.block = Nil] ELSE s

CommitCurrentRound(s, r, e) ==
    LET b == s.precommits[r] IN
    IF s.panic # "none" \/ RoundStepCommit <= s.step THEN s
    ELSE tryFinalizeCommit(
           [fetchCommitBlock(useLockedBlock(s, b), b) EXCEPT
              !.step = RoundStepCommit, !.commitRound = s.round], e)

enterCommit(s, r, e) ==
    LET b == s.precommits[r] IN
    IF s.panic # "none" \/ RoundStepCommit <= s.step THEN s
    ELSE IF ~ TwoThirdsMajority(b) THEN [s EXCEPT !.panic = "enterCommit"]
    ELSE tryFinalizeCommit(
           [fetchCommitBlock(useLockedBlock(s, b), b) EXCEPT
              !.step = RoundStepCommit, !.commitRound = r], e)
-----------------------------------------------------------------------------
(* Proposals and block parts.                                                *)

defaultSetProposal(s, r, b, pol) ==
    IF /\ s.proposal = Nil /\ r = s.round /\ s.step < RoundStepCommit
       /\ pol = NoRound \/ pol < r
      THEN [dropParts(s, NewPartSet(b)) EXCEPT !.proposal = [block |-> b, pol |-> pol]]
      ELSE s

setValid(s, r) ==
    [s EXCEPT !.validRound = r, !.validBlock = s.block, !.validParts = s.parts]

\* The missing parts arrive; whoever shares the part set has them too.
completed(s) ==
    LET fill(ps) == IF ps # Nil /\ ps.complete = "no"
                      THEN [ps EXCEPT !.complete = "yes"] ELSE ps
    IN  [s EXCEPT !.parts = fill(@), !.validParts = fill(@), !.lockedParts = fill(@)]

addProposalBlockPart(s, e) ==
    LET b == s.parts.of
        t == [completed(s) EXCEPT !.block = b]
        u == IF s.prevotes[s.round] = b /\ s.validRound < s.round
               THEN setValid(t, s.round) ELSE t
    IN  IF e.verdict[b] = "garbled" THEN [completed(s) EXCEPT !.block = Nil]
        ELSE IF u.step <= RoundStepPropose /\ isProposalComplete(u)
          THEN enterPrevote(u, u.round, e)
        ELSE IF u.step = RoundStepCommit THEN tryFinalizeCommit(u, e)
        ELSE u

\* Our own parts come back through the queue.  A part that is missing in the
\* set we proposed from is a nil pointer.
addOwnParts(s, e) ==
    LET expects == s.parts # Nil /\ s.parts.complete = "no" /\ s.parts.of = s.own.block
    IN  IF s.parts # Nil /\ ~ s.own.whole THEN [s EXCEPT !.panic = "AddPart"]
        ELSE IF expects THEN addProposalBlockPart(s, e) ELSE s
-----------------------------------------------------------------------------
(* Votes.                                                                    *)

UnlockOnAnyPolka(s, vr, t) ==
    IF s.lockedBlock # Nil /\ s.lockedBlock # t /\ vr <= s.round THEN unlock(s) ELSE s

\* A polka later than our lock, and not ahead of us, unlocks.
unlockOnPolka(s, vr, t) ==
    IF /\ s.lockedBlock # Nil /\ s.lockedBlock # t
       /\ s.lockedRound < vr /\ vr <= s.round
      THEN unlock(s) ELSE s

validOnPolka(s, vr, t) ==
    IF t # Nil /\ t = s.block /\ s.validRound < vr /\ vr <= s.round
      THEN setValid(s, vr) ELSE s

addPrevote(s, vr, t, e) ==
    LET added == [s EXCEPT !.prevotes[vr] = t]
        u == IF TwoThirdsMajority(t)
               THEN validOnPolka(unlockOnPolka(added, vr, t), vr, t) ELSE added
        n == enterNewRound(u, vr, e)
    IN  IF u.round <= vr /\ HasTwoThirdsAny(t)
          THEN IF TwoThirdsMajority(t) THEN enterPrecommit(n, vr, e)
               ELSE enterPrevoteWait(enterPrevote(n, vr, e), vr)
        ELSE IF u.proposal # Nil /\ u.proposal.pol = vr /\ isProposalComplete(u)
          THEN enterPrevote(u, u.round, e)
        ELSE u

\* A commit may finish the height; with every precommit there is no need to
\* wait for the next one to begin.
commitVote(s, vr, e) ==
    LET c == enterCommit(enterPrecommit(enterNewRound(s, vr, e), vr, e), vr, e)
    IN  IF SkipTimeoutCommit /\ e.all THEN enterNewRound(c, 0, e) ELSE c

addPrecommit(s, vr, t, e) ==
    LET u == [s EXCEPT !.precommits[vr] = t] IN
    IF t = Nil THEN enterNewRound(u, vr + 1, e)
    ELSE IF TwoThirdsMajority(t) THEN commitVote(u, vr, e)
    ELSE IF t = "all" THEN enterNewRound(u, u.round + 1, e)
    ELSE IF u.round <= vr /\ HasTwoThirdsAny(t)
      THEN enterPrecommitWait(enterPrecommit(enterNewRound(u, vr, e), vr, e), vr)
    ELSE u
-----------------------------------------------------------------------------
(* Committee changes and synchronised blocks.                                *)

\* The committee is replaced; within a height the rounds go on.
validatorUpdate(s, member, e) ==
    LET t == [updateToState(s) EXCEPT !.priv = [round |-> 0, step |-> 0],
                                      !.member = member, !.updates = @ + 1,
                                      !.past = IF s.height = s.chain + 1
                                                 THEN @ \cup {s.cast} ELSE {}]
    IN  enterNewRound(t, IF t.height = s.height /\ s.round > 0 THEN s.round + 1 ELSE 0, e)

SyncAlways(s) ==
    scheduleTimeout([updateToState(s) EXCEPT !.priv = [round |-> 0, step |-> 0]],
                    0, RoundStepNewHeight, 1)

updateStateForSync(s) ==
    IF s.chain + 1 = s.height THEN s
    ELSE scheduleTimeout([updateToState(s) EXCEPT !.priv = [round |-> 0, step |-> 0]],
                         0, RoundStepNewHeight, 1)
-----------------------------------------------------------------------------
(* The actions: what receiveRoutine handles, and what the environment does.  *)

Init ==
    /\ verdict \in Verdicts
    /\ cs = scheduleRound0(
         [height |-> 1, round |-> 0, step |-> RoundStepNewHeight,
          proposal |-> Nil, block |-> Nil, parts |-> Nil,
          lockedRound |-> 0, lockedBlock |-> Nil, lockedParts |-> Nil,
          validRound |-> 0, validBlock |-> Nil, validParts |-> Nil,
          commitRound |-> NoRound, lastCommit |-> 0,
          prevotes |-> NoTallies, precommits |-> NoTallies, hvsRound |-> 0,
          timer |-> [round |-> 0, step |-> 0], tocks |-> {}, own |-> Nil,
          priv |-> [round |-> 0, step |-> 0], cast |-> NothingCast, past |-> {}, member |-> TRUE,
          chain |-> 0, saved |-> Nil, updates |-> 0, synced |-> 0, panic |-> "none"])

\* What the agent and the configuration may answer during a handler: the block
\* it makes, whether that is empty, whether it takes the committed block, and
\* whether a majority comes with the precommits of everyone.
Answers ==
    [verdict : {verdict},
     made : IF ProposerRounds = {} THEN {Nil} ELSE Blocks \cup {Nil},
     empty : IF MaxWait = 1 THEN {FALSE} ELSE BOOLEAN,
     commitOK : IF AgentMayFail THEN BOOLEAN ELSE {TRUE},
     all : IF SkipTimeoutCommit THEN BOOLEAN ELSE {FALSE}]

Running == cs.panic = "none" /\ cs.height <= MaxHeight

\* The handler is over.  MaxRound bounds the rounds.
Done(s) ==
    /\ s.round <= MaxRound
    /\ cs' = dropTocks(s)
    /\ verdict' \in (IF s.height = cs.height THEN {verdict} ELSE Verdicts)

\* What TbftVoting proves of a committee: a commit agrees with the polkas of
\* its round and the later ones, and with every other commit.
Consistent(prevotes, precommits) ==
    \A q \in Rounds : precommits[q] \in Blocks =>
      \A r \in Rounds :
        /\ q <= r /\ TwoThirdsMajority(prevotes[r]) => prevotes[r] = precommits[q]
        /\ precommits[r] \in Blocks => precommits[r] = precommits[q]

ReceivePrevote(vr, t) ==
    /\ Running
    /\ t \in Later(cs.prevotes[vr])
    /\ Consistent([cs.prevotes EXCEPT ![vr] = t], cs.precommits)
    /\ \E e \in Answers : Done(addPrevote(cs, vr, t, e))

ReceivePrecommit(vr, t) ==
    /\ Running
    /\ t \in Later(cs.precommits[vr])
    /\ Consistent(cs.prevotes, [cs.precommits EXCEPT ![vr] = t])
    /\ \E e \in Answers : Done(addPrecommit(cs, vr, t, e))

\* A precommit of the last height arrives and now everyone's is there.
ReceiveLastPrecommit ==
    /\ Running
    /\ cs.step = RoundStepNewHeight /\ cs.lastCommit # 0 /\ cs.lastCommit = cs.height - 1
    /\ SkipTimeoutCommit
    /\ \E e \in Answers : Done(enterNewRound(cs, 0, e))

\* A proposal signed by the proposer of the round, who may be faulty.  One that
\* is refused changes nothing.
ReceiveProposal(b, pol) ==
    LET s == defaultSetProposal(cs, cs.round, b, pol) IN
    /\ Running
    /\ ~ isProposer(cs, cs.round)
    /\ s # cs
    /\ Done(s)

ReceiveBlockParts ==
    /\ Running
    /\ cs.parts # Nil /\ cs.parts.complete = "no"
    /\ \E e \in Answers : Done(addProposalBlockPart(cs, e))

OwnProposal ==
    /\ Running
    /\ cs.own # Nil /\ cs.own.sent = "proposal"
    /\ LET s == [cs EXCEPT !.own.sent = "parts"] IN
       Done(IF isProposer(s, s.round)
              THEN defaultSetProposal(s, s.own.round, s.own.block, s.own.pol) ELSE s)

OwnParts ==
    /\ Running
    /\ cs.own # Nil /\ cs.own.sent = "parts"
    /\ \E e \in Answers : Done([addOwnParts(cs, e) EXCEPT !.own = Nil])

handleTimeout(s, t, e) ==
    IF later(s.round, s.step, t.round, t.step) THEN s
    ELSE IF t.step = RoundStepNewHeight THEN enterNewRound(s, 0, e)
    ELSE IF t.step = RoundStepNewRound THEN tryEnterProposal(s, 0, t.wait, e)
    ELSE IF t.step = RoundStepPropose THEN enterPrevote(s, t.round, e)
    ELSE IF t.step = RoundStepPrevoteWait THEN enterPrecommit(s, t.round, e)
    ELSE enterNewRound(s, t.round + 1, e)

Timeout(t) ==
    /\ Running
    /\ \E e \in Answers : Done(handleTimeout([cs EXCEPT !.tocks = @ \ {t}], t, e))

\* handleTimeoutForTask: the task timer is always set again.
SyncTimeout == Running /\ Done(updateStateForSync(cs))

ValidatorUpdate(member) ==
    /\ Running /\ cs.updates < MaxUpdates
    /\ \E e \in Answers : Done(validatorUpdate(cs, member, e))

\* The agent's chain gets a block from elsewhere.
ChainAdvances ==
    /\ Running /\ cs.chain < MaxHeight /\ cs.synced < MaxSynced
    /\ cs' = [cs EXCEPT !.chain = @ + 1, !.synced = @ + 1]
    /\ UNCHANGED verdict

\* The agent's opinion depends on its chain and pool, which change.
VerdictChanges ==
    /\ Running /\ ~ StableVerdicts
    /\ verdict' \in Verdicts
    /\ UNCHANGED cs

Next ==
    \/ \E vr \in Rounds, t \in VoteTallies \ {"all"} : ReceivePrevote(vr, t)
    \/ \E vr \in Rounds, t \in VoteTallies : ReceivePrecommit(vr, t)
    \/ ReceiveLastPrecommit
    \/ \E b \in Blocks, pol \in {NoRound} \cup Rounds : ReceiveProposal(b, pol)
    \/ ReceiveBlockParts
    \/ OwnProposal
    \/ OwnParts
    \/ \E t \in cs.tocks : Timeout(t)
    \/ SyncTimeout
    \/ \E member \in BOOLEAN : ValidatorUpdate(member)
    \/ ChainAdvances
    \/ VerdictChanges

Spec == Init /\ [][Next]_vars

\* A timer that is set goes off.
LiveSpec == Spec /\ WF_vars(\E t \in cs.tocks : Timeout(t))
-----------------------------------------------------------------------------
(* Properties.                                                               *)

Pointer(S) == S \cup {Nil}

PartSets == [of : Blocks, complete : {"no", "yes", "never"}]

TypeOK ==
    /\ cs.height \in 1 .. MaxHeight + 1 /\ cs.chain \in 0 .. MaxHeight
    /\ cs.round \in Rounds /\ cs.step \in RoundStepNewHeight .. RoundStepCommit
    /\ cs.proposal \in Pointer([block : Blocks, pol : {NoRound} \cup Rounds])
    /\ {cs.block, cs.lockedBlock, cs.validBlock} \subseteq Pointer(Blocks)
    /\ {cs.parts, cs.lockedParts, cs.validParts} \subseteq Pointer(PartSets)
    /\ cs.lockedRound \in 0 .. cs.round /\ cs.validRound \in 0 .. cs.round
    /\ cs.commitRound \in {NoRound} \cup 0 .. cs.round
    /\ {cs.prevotes, cs.precommits} \subseteq [Rounds -> Tally]
    /\ \A t \in cs.tocks :
         t.round \in cs.round .. MaxRound /\ t.step \in 1 .. 7 /\ t.wait \in 1 .. MaxWait
    /\ \A st \in {stepPrevote, stepPrecommit}, r \in Rounds :
         cs.cast[st][r] \in [hash : Values, parts : Values, result : {"agree", "against"}]
                            \cup {NoVote}
    /\ cs.hvsRound \in {0, cs.round + 1}
    /\ verdict \in Verdicts

\* The consistency checks that panic in enterPrevoteWait, enterPrecommit,
\* enterPrecommitWait, enterCommit, updateToState, SetRound and the private
\* validator never fail and no part of a proposal is a nil pointer, in whatever
\* order votes, proposals, timeouts, synchronised blocks and committees arrive.
\* (The check of finalizeCommit can fail: a late proposal replaces the parts.)
SanityChecksHold == cs.panic \in {"none", "finalizeCommit"}

\* A node is locked on a block, or takes it for valid, only if it saw +2/3
\* prevotes for it in that round, and it then holds all parts of the block, so
\* that it can propose it (defaultDecideProposal) or commit it (enterCommit):
\* a proposal that arrives late never takes the parts away.
LockHasPolka ==
    /\ cs.lockedBlock # Nil =>
         /\ cs.prevotes[cs.lockedRound] = cs.lockedBlock
         /\ cs.lockedParts = MadePartSet(cs.lockedBlock)
    /\ cs.validBlock # Nil =>
         /\ cs.prevotes[cs.validRound] = cs.validBlock
         /\ cs.validParts = MadePartSet(cs.validBlock)

\* In every step that only a timeout is certain to end (newStep after
\* scheduleTimeout), that timeout is set: the ticker refused none that the
\* node relies on.  A proposer that waits for transactions is in NewRound.
TimerIsSet ==
    cs.panic = "none" /\ cs.height <= MaxHeight
      /\ cs.step \in {RoundStepNewHeight, RoundStepNewRound, RoundStepPropose,
                       RoundStepPrevoteWait, RoundStepPrecommitWait}
    => \E t \in cs.tocks : t.round = cs.round /\ t.step = cs.step

\* Height, round and step never go back (CompareHRS), except that a new
\* committee starts the height over in round 0 or in the next round.
HRSAdvances ==
    [][\/ cs'.height > cs.height
       \/ cs'.height = cs.height /\
            \/ cs'.updates > cs.updates /\ (cs'.round > cs.round \/ cs'.round = 0)
            \/ cs'.updates = cs.updates
                 /\ ~ later(cs.round, cs.step, cs'.round, cs'.step)]_vars

\* What a vote is counted for.  An against-vote is counted for nothing.
counted(st) ==
    [r \in Rounds |->
       LET v == cs.cast[st][r] IN
       IF v = NoVote THEN NoVote
       ELSE IF v.result # "agree" THEN NoVote
       ELSE IF v.hash = v.parts THEN v.hash ELSE "mixed"]

V == INSTANCE Voter WITH
       era <- cs.height + cs.updates, round <- cs.round,
       prevotes <- counted(stepPrevote), precommits <- counted(stepPrecommit),
       seen <- [r \in Rounds |-> {cs.prevotes[r]} \cap Values]

\* The votes the node signs keep the promise of Voter: one prevote and one
\* precommit a round, for a block with its own parts, a precommit only with a
\* polka and a prevote against a lock only after a later polka.  This is what
\* the agreement of the committee rests on.
ImplementsVoter == V!Spec

\* A node does not stay for ever in a step that has a timeout: enterPropose,
\* the waits for more votes, for transactions and for the next height all end.
\* (Rounds only grow, so with bounded rounds a node that is in such steps for
\* ever is in one of them for ever.)
TimedStepsEnd ==
    []<> \/ ~ Running
         \/ cs.step \in {RoundStepPrevote, RoundStepPrecommit, RoundStepCommit}
         \/ cs.step = RoundStepPrecommitWait /\ cs.round = MaxRound
=============================================================================
