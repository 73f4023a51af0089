-------------------------- MODULE ProposerRotation --------------------------
(***************************************************************************)
(* Who proposes: ValidatorSet (types/validator_set.go) as ConsensusState   *)
(* uses it (state.go, enterNewRound, updateToState, validatorUpdate).      *)
(*                                                                         *)
(* Every node derives the proposer of a round by itself, from its own copy *)
(* of the committee.  Round 0 belongs to the proposer of the last block,   *)
(* when it is a member (FindValidatorSetProposer); every other round to    *)
(* the rotation by Accum, which a node may enter at any round, skipping    *)
(* others, after any number of heights, restarts and committee changes.    *)
(*                                                                         *)
(* An address is a number: only the order of addresses matters.  Committee *)
(* number c has the members Committees[c].  chain[h] is the proposer of    *)
(* the block at height h; a node knows the first `view` blocks.            *)
(***************************************************************************)
EXTENDS Integers, Sequences, FiniteSets

CONSTANTS Nodes, Committees, MaxHeight, MaxRound, Nil

\* A ValidatorSet: the Accum of each member, and the proposer.
ValidatorSet(members) == [accum : [members -> Int], proposer : members]

ASSUME CommitteesAssumption ==
    /\ Committees \in Seq(SUBSET Nat) /\ Committees # <<>>
    /\ \A c \in DOMAIN Committees :
         /\ Committees[c] # {} /\ IsFiniteSet(Committees[c])
         /\ Nil \notin ValidatorSet(Committees[c])
    /\ MaxHeight \in Nat /\ MaxRound \in Nat /\ Nil \notin Nat

VARIABLES chain, node

vars == <<chain, node>>
-----------------------------------------------------------------------------
(* A ValidatorSet is a record [accum, proposer].                             *)

power == 1   \* MakeValidators gives every member the same voting power

TotalVotingPower(set) == power * Cardinality(DOMAIN set.accum)

\* CompareAccum: the greater Accum, or the lower address.
CompareAccum(accum, a, b) ==
    IF accum[a] > accum[b] \/ (accum[a] = accum[b] /\ a <= b) THEN a ELSE b

\* What the heap keeps at its top, and what findProposer finds.
Mostest(accum) ==
    CHOOSE a \in DOMAIN accum : \A b \in DOMAIN accum : CompareAccum(accum, a, b) = a

\* The loop body: the validator with most Accum pays the total power.
Pay(set) ==
    LET most == Mostest(set.accum)
    IN  [accum |-> [set.accum EXCEPT ![most] = @ - TotalVotingPower(set)], proposer |-> most]

IncrementAccum(set, times) ==
    LET raised == [set EXCEPT !.accum = [a \in DOMAIN @ |-> @[a] + times * power]]
        loop[i \in 0 .. times] == IF i = 0 THEN raised ELSE Pay(loop[i - 1])
    IN  loop[times]

NewValidatorSet(members) ==
    IncrementAccum([accum |-> [a \in members |-> 0], proposer |-> Nil], 1)

FindAnyone(set, address) ==
    IF address # Nil THEN [set EXCEPT !.proposer = address] ELSE set

FindOnce(set, address) ==
    IF address \in DOMAIN set.accum /\ \A a \in DOMAIN set.accum : set.proposer <= a
      THEN [set EXCEPT !.proposer = address] ELSE set

FindValidatorSetProposer(set, address) ==
    IF address \in DOMAIN set.accum THEN [set EXCEPT !.proposer = address] ELSE set
-----------------------------------------------------------------------------
(* A node: the committee it knows (number and set) is its StateAgent's; the  *)
(* set of ConsensusState is that same set, or a copy of it (own # Nil).      *)
(* since is the height at which the node made the set.                       *)

GetLastValidatorAddress(n) == IF n.view = 0 THEN Nil ELSE chain[n.view]

Validators(n) == IF n.own = Nil THEN n.agent ELSE n.own

Proposer(n) == Validators(n).proposer

updateToState(n) ==
    [n EXCEPT !.height = n.view + 1, !.round = 0, !.entered = FALSE, !.own = Nil]

EnterWithoutCopy(n, r) ==
    [n EXCEPT !.agent = IF r > n.round THEN IncrementAccum(@, r - n.round)
                        ELSE FindValidatorSetProposer(@, GetLastValidatorAddress(n)),
              !.round = r, !.entered = TRUE]

\* FindValidatorSetProposer works in place, on the set of the StateAgent: a
\* node is at round 0 only with the set that updateToState gave it.
enterNewRound(n, r) ==
    LET moved == IF r > n.round
                 THEN [n EXCEPT !.own = IncrementAccum(Validators(n), r - n.round)]
                 ELSE n
        found == IF r = 0
                 THEN [moved EXCEPT !.agent = FindValidatorSetProposer(@, GetLastValidatorAddress(n))]
                 ELSE moved
    IN  [found EXCEPT !.round = r, !.entered = TRUE]

\* A new service for committee c, at the head of the chain.
PutCommittee(view, c) ==
    updateToState([view |-> view, committee |-> c, agent |-> NewValidatorSet(Committees[c]),
                   since |-> view + 1, own |-> Nil, height |-> 0, round |-> 0, entered |-> FALSE])

\* validatorUpdate: the next committee; its first round depends on the old one.
validatorUpdate(n) ==
    LET given == updateToState([n EXCEPT
                     !.committee = @ + 1, !.since = n.view + 1,
                     !.agent = NewValidatorSet(Committees[n.committee + 1])])
    IN  enterNewRound(given, IF given.height = n.height /\ n.round > 0 THEN n.round + 1 ELSE 0)
-----------------------------------------------------------------------------
Step(i, n) == node' = [node EXCEPT ![i] = n]

EnterNewRound(i, r) ==
    /\ r > node[i].round \/ (r = node[i].round /\ ~ node[i].entered)
    /\ Step(i, enterNewRound(node[i], r))
    /\ UNCHANGED chain

ValidatorUpdate(i) ==
    /\ node[i].committee < Len(Committees)
    /\ node[i].round < MaxRound
    /\ Step(i, validatorUpdate(node[i]))
    /\ UNCHANGED chain

\* A block is agreed on: any member of a committee at work may have built it.
BlockCommitted(p) ==
    /\ Len(chain) < MaxHeight
    /\ \E i \in Nodes : node[i].height = Len(chain) + 1 /\ p \in Committees[node[i].committee]
    /\ chain' = Append(chain, p)
    /\ UNCHANGED node

\* The agent of a node gets the next block, which consensus notices later.
BlockArrives(i) ==
    /\ node[i].view < Len(chain)
    /\ Step(i, [node[i] EXCEPT !.view = @ + 1])
    /\ UNCHANGED chain

\* finalizeCommit, or the end of a block sync.
NewHeight(i) ==
    /\ node[i].height <= node[i].view
    /\ Step(i, updateToState(node[i]))
    /\ UNCHANGED chain

Restart(i) ==
    /\ Step(i, PutCommittee(node[i].view, node[i].committee))
    /\ UNCHANGED chain

Init ==
    /\ chain = <<>>
    /\ node = [i \in Nodes |-> PutCommittee(0, 1)]

Next ==
    \/ \E i \in Nodes :
         \/ \E r \in 0 .. MaxRound : EnterNewRound(i, r)
         \/ ValidatorUpdate(i)
         \/ BlockArrives(i)
         \/ NewHeight(i)
         \/ Restart(i)
    \/ \E p \in UNION {Committees[c] : c \in DOMAIN Committees} : BlockCommitted(p)

Spec == Init /\ [][Next]_vars
-----------------------------------------------------------------------------
\* Every field has its type, and the sets a node holds are sets of its committee.
TypeOK ==
    /\ chain \in Seq(Nat)
    /\ \A i \in Nodes :
         LET n == node[i] IN
         /\ n.view \in 0 .. Len(chain) /\ n.height \in 1 .. n.view + 1
         /\ n.committee \in DOMAIN Committees
         /\ n.round \in 0 .. MaxRound /\ n.entered \in BOOLEAN /\ n.since \in Nat
         /\ \A s \in {n.agent, Validators(n)} :
              DOMAIN s.accum = Committees[n.committee] /\ s.proposer \in Committees[n.committee]

\* Working at the height after its last block (not being overtaken by a sync).
AtHead(n) == n.entered /\ n.height = n.view + 1

\* Two nodes in one round of one height with one committee agree on the
\* proposer, whatever rounds each of them skipped and however often each
\* restarted: otherwise one refuses the proposal that the other makes
\* (defaultSetProposal).  The one exception is round 0 after a block of a
\* proposer that is not a member, at a node that had the committee before that
\* block: FindValidatorSetProposer leaves it the proposer of an earlier height.
ProposersAgree ==
    \A i, j \in Nodes :
        LET m == node[i]
            n == node[j]
        IN  (/\ AtHead(m) /\ AtHead(n)
             /\ m.height = n.height /\ m.round = n.round /\ m.committee = n.committee)
            => \/ Proposer(m) = Proposer(n)
               \/ /\ m.round = 0
                  /\ m.since < m.height \/ n.since < n.height
                  /\ chain[m.view] \notin Committees[m.committee]

Rank(a, members) == Cardinality({b \in members : b < a})

\* Past round 0 the proposers take turns in the order of their addresses: the
\* heap, the sums and the skipped rounds of IncrementAccum come to the round
\* number modulo the size of the committee.
ProposersTakeTurns ==
    \A i \in Nodes :
        LET n == node[i]
            members == Committees[n.committee]
        IN  n.round > 0 => Rank(Proposer(n), members) = n.round % Cardinality(members)
=============================================================================
