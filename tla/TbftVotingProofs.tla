-------------------------- MODULE TbftVotingProofs --------------------------
(***************************************************************************)
(* Agreement for every committee, every set of faulty validators smaller   *)
(* than a third of it, every set of blocks and every number of rounds.     *)
(***************************************************************************)
EXTENDS TbftVoting, FiniteSetTheorems, TLAPS

\* A leaf that names no prover is the SMT solver's.
USE SMTT(60)

\* Validators vote in the round they are in: no vote is ahead of its voter.
VotedRounds ==
    \A n \in Honest, r \in Rounds :
      prevotes[n][r] # NoVote \/ precommits[n][r] # NoVote => r <= round[n]

\* The polka that allowed a prevote against an earlier precommit still exists.
LocksJustified ==
    \A n \in Honest, r \in Rounds :
      prevotes[n][r] # NoVote =>
        PrevoteRule(precommits[n], polkas, r, prevotes[n][r])

\* So does the polka behind a precommit.
PrecommitsJustified ==
    \A n \in Honest, r \in Rounds :
      precommits[n][r] # NoVote => precommits[n][r] \in polkas[r]

IInv ==
    /\ TypeOK
    /\ VotedRounds
    /\ LocksJustified
    /\ PrecommitsJustified
    /\ PolkasAreSafe

-----------------------------------------------------------------------------
\* A set of validators that contains a quorum is one.
LEMMA QuorumGrows ==
    ASSUME NEW S \in SUBSET Validators, NEW R \in SUBSET S, IsQuorum(R)
    PROVE  IsQuorum(S)
  <1>1. IsFiniteSet(S) /\ IsFiniteSet(Validators)
    BY CommitteeAssumption, FS_Subset
  <1>2. /\ Cardinality(R) <= Cardinality(S)
        /\ Cardinality(R) \in Nat /\ Cardinality(S) \in Nat
        /\ Cardinality(Validators) \in Nat
    BY <1>1, FS_Subset, FS_CardinalityType
  <1> QED BY <1>2 DEF IsQuorum

\* Two quorums have an honest validator in common.
LEMMA QuorumsMeet ==
    ASSUME NEW S \in SUBSET Honest, NEW R \in SUBSET Honest,
           IsQuorum(S \cup Faulty), IsQuorum(R \cup Faulty)
    PROVE  \E n \in Honest : n \in S /\ n \in R
  <1> SUFFICES ASSUME S \cap R = {} PROVE FALSE
    OBVIOUS
  <1> DEFINE Q1 == S \cup Faulty
             Q2 == R \cup Faulty
  <1>1. Q1 \subseteq Validators /\ Q2 \subseteq Validators
        /\ Q1 \cup Q2 \subseteq Validators
    BY CommitteeAssumption DEF Honest
  <1>2. Q1 \cap Q2 = Faulty
    BY DEF Honest
  <1>3. IsFiniteSet(Q1) /\ IsFiniteSet(Q2)
    BY <1>1, CommitteeAssumption, FS_Subset
  <1>4. Cardinality(Q1 \cup Q2)
          = Cardinality(Q1) + Cardinality(Q2) - Cardinality(Faulty)
    BY <1>2, <1>3, FS_Union
  <1>5. Cardinality(Q1 \cup Q2) <= Cardinality(Validators)
    BY <1>1, CommitteeAssumption, FS_Subset
  <1>6. /\ Cardinality(Q1) \in Nat /\ Cardinality(Q2) \in Nat
        /\ Cardinality(Faulty) \in Nat /\ Cardinality(Validators) \in Nat
        /\ Cardinality(Q1 \cup Q2) \in Nat
    BY <1>1, <1>3, CommitteeAssumption, FS_Subset, FS_CardinalityType
  <1>7. /\ 3 * Cardinality(Q1) > 2 * Cardinality(Validators)
        /\ 3 * Cardinality(Q2) > 2 * Cardinality(Validators)
    BY DEF IsQuorum
  <1> HIDE DEF Q1, Q2
  <1> QED BY <1>4, <1>5, <1>6, <1>7, CommitteeAssumption

\* A step that adds votes keeps every majority.
LEMMA MajoritiesGrow ==
    ASSUME NEW f, NEW g, NEW r \in Rounds,
           \A n \in Honest : f[n][r] # NoVote => g[n][r] = f[n][r]
    PROVE  majorities(f, r) \subseteq majorities(g, r)
  <1> SUFFICES ASSUME NEW v \in majorities(f, r) PROVE v \in majorities(g, r)
    OBVIOUS
  <1> DEFINE F == {n \in Honest : f[n][r] = v} \cup Faulty
             G == {n \in Honest : g[n][r] = v} \cup Faulty
  <1>1. v \in Values /\ v # NoVote /\ IsQuorum(F)
    BY VotingAssumption DEF majorities, Values
  <1>2. F \in SUBSET G
    BY <1>1
  <1>3. G \in SUBSET Validators
    BY CommitteeAssumption DEF Honest
  <1>4. IsQuorum(G)
    BY <1>1, <1>2, <1>3, QuorumGrows
  <1> QED BY <1>1, <1>4 DEF majorities

\* More polkas allow no less.
LEMMA PrevoteRuleGrows ==
    ASSUME NEW pc, NEW f, NEW g, NEW r, NEW v,
           \A p \in Rounds : f[p] \subseteq g[p],
           PrevoteRule(pc, f, r, v)
    PROVE  PrevoteRule(pc, g, r, v)
  <1> SUFFICES ASSUME NEW q \in Rounds, q < r, pc[q] \in Blocks \ {v}
               PROVE  \E p \in Rounds : q < p /\ p < r /\ g[p] \ {pc[q]} # {}
    BY DEF PrevoteRule
  <1>1. PICK p \in Rounds : q < p /\ p < r /\ f[p] \ {pc[q]} # {}
    BY DEF PrevoteRule
  <1> QED BY <1>1

\* A validator that will not precommit b stays so, and with it a round in
\* which b has lost its chance.
LEMMA SafeStaysSafe ==
    ASSUME NEW r \in Rounds, NEW b \in Blocks,
           \A n \in Honest : Forgoes(n, r, b) => Forgoes(n, r, b)',
           ~ IsQuorum({n \in Honest : ~ Forgoes(n, r, b)} \cup Faulty)
    PROVE  ~ IsQuorum({n \in Honest : ~ Forgoes(n, r, b)'} \cup Faulty)
  <1> DEFINE S == {n \in Honest : ~ Forgoes(n, r, b)} \cup Faulty
             T == {n \in Honest : ~ Forgoes(n, r, b)'} \cup Faulty
  <1>1. T \in SUBSET S /\ S \in SUBSET Validators
    BY CommitteeAssumption DEF Honest
  <1> QED BY <1>1, QuorumGrows

-----------------------------------------------------------------------------
LEMMA NoQuorumOfFaulty == ~ IsQuorum(Faulty)
  <1>1. Cardinality(Faulty) \in Nat /\ Cardinality(Validators) \in Nat
    BY CommitteeAssumption, FS_Subset, FS_CardinalityType
  <1> QED BY <1>1, CommitteeAssumption DEF IsQuorum

LEMMA InitIInv == Init => IInv
  <1> SUFFICES ASSUME Init PROVE IInv
    OBVIOUS
  <1> USE DEF Init
  <1>1. TypeOK
    BY VotingAssumption DEF TypeOK, Rounds
  <1>2. VotedRounds /\ LocksJustified /\ PrecommitsJustified
    BY DEF VotedRounds, LocksJustified, PrecommitsJustified
  <1>3. ASSUME NEW r \in Rounds PROVE polkas[r] = {}
    <2> SUFFICES ASSUME NEW v \in majorities(prevotes, r) PROVE FALSE
      BY DEF polkas
    <2>1. v \in Values /\ IsQuorum({n \in Honest : prevotes[n][r] = v} \cup Faulty)
      BY DEF majorities
    <2>2. {n \in Honest : prevotes[n][r] = v} \cup Faulty = Faulty
      BY <2>1, VotingAssumption DEF Values
    <2> QED BY ZenonT(60), <2>1, <2>2, NoQuorumOfFaulty
  <1>4. PolkasAreSafe
    BY <1>3 DEF PolkasAreSafe
  <1> QED BY <1>1, <1>2, <1>4 DEF IInv

\* A prevote may complete a polka.  A quorum that could still precommit another
\* block in an earlier round would share an honest validator with the polka,
\* and that validator's prevote was allowed only by an earlier polka, which
\* had already ruled the quorum out.
LEMMA PrevoteIInv ==
    ASSUME IInv, NEW n \in Honest, NEW v \in Values, Prevote(n, v)
    PROVE  IInv'
  <1> USE DEF IInv
  <1> DEFINE k == round[n]
  <1>1. k \in Rounds /\ v # NoVote /\ prevotes[n][k] = NoVote
    BY VotingAssumption DEF Prevote, TypeOK, Values
  <1>2. /\ prevotes' \in [Honest -> [Rounds -> Values \cup {NoVote}]]
        /\ \A m \in Honest, r \in Rounds :
             prevotes'[m][r] = IF m = n /\ r = k THEN v ELSE prevotes[m][r]
    BY <1>1 DEF Prevote, TypeOK
  <1>3. round' = round /\ precommits' = precommits
    BY DEF Prevote
  <1>4. TypeOK'
    BY <1>2, <1>3 DEF TypeOK
  <1>5. VotedRounds'
    BY <1>1, <1>2, <1>3 DEF VotedRounds, TypeOK, Rounds
  <1>6. \A r \in Rounds : polkas[r] \subseteq polkas'[r]
    BY <1>1, <1>2, MajoritiesGrow DEF polkas
  <1>7. LocksJustified'
    <2> SUFFICES ASSUME NEW m \in Honest, NEW r \in Rounds,
                        prevotes'[m][r] # NoVote
                 PROVE  PrevoteRule(precommits[m], polkas', r, prevotes'[m][r])
      BY <1>3 DEF LocksJustified
    <2>1. PrevoteRule(precommits[m], polkas, r, prevotes'[m][r])
      BY <1>2 DEF LocksJustified, Prevote
    <2> QED BY <2>1, <1>6, PrevoteRuleGrows
  <1>8. PrecommitsJustified'
    BY <1>3, <1>6 DEF PrecommitsJustified
  <1>9. PolkasAreSafe'
    <2> SUFFICES ASSUME NEW p \in Rounds, NEW r \in Rounds, NEW w \in polkas'[p],
                        NEW b \in Blocks, r < p, b # w,
                        IsQuorum({m \in Honest : ~ Forgoes(m, r, b)'} \cup Faulty)
                 PROVE  FALSE
      BY DEF PolkasAreSafe
    <2>1. \A m \in Honest : Forgoes(m, r, b)' <=> Forgoes(m, r, b)
      BY <1>3 DEF Forgoes
    <2>2. IsQuorum({m \in Honest : ~ Forgoes(m, r, b)} \cup Faulty)
      BY <2>1, SafeStaysSafe
    <2>3. IsQuorum({m \in Honest : prevotes'[m][p] = w} \cup Faulty) /\ w \in Values
      BY DEF polkas, majorities
    <2>4. PICK m \in Honest : ~ Forgoes(m, r, b) /\ prevotes'[m][p] = w
      <3> DEFINE S == {m \in Honest : ~ Forgoes(m, r, b)}
                 R == {m \in Honest : prevotes'[m][p] = w}
      <3>1. S \in SUBSET Honest /\ R \in SUBSET Honest
        OBVIOUS
      <3>2. \E m \in Honest : m \in S /\ m \in R
        <4> HIDE DEF S, R
        <4> QED BY ZenonT(60), <2>2, <2>3, <3>1, QuorumsMeet DEF S, R
      <3> QED BY <3>2
    <2>5. w # NoVote /\ w # b
      BY <2>3, VotingAssumption DEF Values
    <2>6. p <= round[m]
      BY <1>3, <1>5, <2>4, <2>5 DEF VotedRounds
    <2>7. precommits[m][r] = b
      BY <2>4, <2>6 DEF Forgoes, TypeOK, Rounds
    <2>8. PrevoteRule(precommits[m], polkas, p, w)
      BY <1>2, <2>4, <2>5 DEF LocksJustified, Prevote
    <2>9. PICK q \in Rounds : r < q /\ q < p /\ polkas[q] \ {b} # {}
      BY <2>7, <2>8, <2>5 DEF PrevoteRule
    <2>10. PICK d \in polkas[q] : d # b
      BY <2>9
    <2> QED BY <2>2, <2>9, <2>10 DEF PolkasAreSafe
  <1> QED BY <1>4, <1>5, <1>7, <1>8, <1>9

\* A precommit changes no polka and commits its validator to less.
LEMMA PrecommitIInv ==
    ASSUME IInv, NEW n \in Honest, NEW c \in Blocks, Precommit(n, c)
    PROVE  IInv'
  <1> USE DEF IInv
  <1> DEFINE k == round[n]
  <1>1. k \in Rounds /\ c # NoVote /\ precommits[n][k] = NoVote
    BY VotingAssumption DEF Precommit, TypeOK
  <1>2. /\ precommits' \in [Honest -> [Rounds -> Blocks \cup {NoVote}]]
        /\ \A m \in Honest, r \in Rounds :
             precommits'[m][r] = IF m = n /\ r = k THEN c ELSE precommits[m][r]
    BY <1>1 DEF Precommit, TypeOK
  <1>3. round' = round /\ prevotes' = prevotes /\ polkas' = polkas
    BY DEF Precommit, polkas
  <1>4. TypeOK'
    BY <1>2, <1>3 DEF TypeOK
  <1>5. VotedRounds'
    BY <1>1, <1>2, <1>3 DEF VotedRounds, TypeOK, Rounds
  <1>6. LocksJustified'
    <2> SUFFICES ASSUME NEW m \in Honest, NEW r \in Rounds,
                        prevotes[m][r] # NoVote
                 PROVE  PrevoteRule(precommits'[m], polkas, r, prevotes[m][r])
      BY <1>3 DEF LocksJustified
    <2>1. PrevoteRule(precommits[m], polkas, r, prevotes[m][r])
      BY DEF LocksJustified
    <2>2. r <= round[m] /\ round[m] \in Rounds
      BY DEF VotedRounds, TypeOK
    <2>3. \A q \in Rounds : q < r => precommits'[m][q] = precommits[m][q]
      BY <1>2, <2>2 DEF Rounds
    <2> QED BY <2>1, <2>3 DEF PrevoteRule
  <1>7. PrecommitsJustified'
    BY <1>1, <1>2, <1>3 DEF PrecommitsJustified, Precommit, PrecommitRule
  <1>8. PolkasAreSafe'
    <2> SUFFICES ASSUME NEW p \in Rounds, NEW r \in Rounds, NEW w \in polkas[p],
                        NEW b \in Blocks, r < p, b # w
                 PROVE  ~ IsQuorum({m \in Honest : ~ Forgoes(m, r, b)'} \cup Faulty)
      BY <1>3 DEF PolkasAreSafe
    <2>1. \A m \in Honest : Forgoes(m, r, b) => Forgoes(m, r, b)'
      BY <1>1, <1>2, <1>3 DEF Forgoes, TypeOK, Rounds
    <2>2. ~ IsQuorum({m \in Honest : ~ Forgoes(m, r, b)} \cup Faulty)
      BY DEF PolkasAreSafe
    <2> QED BY <2>1, <2>2, SafeStaysSafe
  <1> QED BY <1>4, <1>5, <1>6, <1>7, <1>8

LEMMA NewRoundIInv ==
    ASSUME IInv, NEW n \in Honest, NEW k \in Rounds, EnterNewRound(n, k)
    PROVE  IInv'
  <1> USE DEF IInv
  <1>1. /\ round' \in [Honest -> Rounds]
        /\ \A m \in Honest : round[m] <= round'[m]
    BY DEF EnterNewRound, TypeOK, Rounds
  <1>2. prevotes' = prevotes /\ precommits' = precommits /\ polkas' = polkas
    BY DEF EnterNewRound, polkas
  <1>3. TypeOK' /\ VotedRounds' /\ LocksJustified' /\ PrecommitsJustified'
    BY <1>1, <1>2 DEF TypeOK, VotedRounds, LocksJustified,
                      PrecommitsJustified, Rounds
  <1>4. PolkasAreSafe'
    <2> SUFFICES ASSUME NEW p \in Rounds, NEW r \in Rounds, NEW w \in polkas[p],
                        NEW b \in Blocks, r < p, b # w
                 PROVE  ~ IsQuorum({m \in Honest : ~ Forgoes(m, r, b)'} \cup Faulty)
      BY <1>2 DEF PolkasAreSafe
    <2>1. \A m \in Honest : Forgoes(m, r, b) => Forgoes(m, r, b)'
      BY <1>1, <1>2 DEF Forgoes, TypeOK, Rounds
    <2>2. ~ IsQuorum({m \in Honest : ~ Forgoes(m, r, b)} \cup Faulty)
      BY DEF PolkasAreSafe
    <2> QED BY <2>1, <2>2, SafeStaysSafe
  <1> QED BY <1>3, <1>4

LEMMA NextIInv == IInv /\ [Next]_vars => IInv'
  <1> SUFFICES ASSUME IInv, [Next]_vars PROVE IInv'
    OBVIOUS
  <1>1. CASE Next
    BY <1>1, PrevoteIInv, PrecommitIInv, NewRoundIInv DEF Next
  <1>2. CASE UNCHANGED vars
    BY <1>2 DEF vars, IInv, TypeOK, VotedRounds, LocksJustified,
                PrecommitsJustified, PolkasAreSafe, Forgoes, polkas
  <1> QED BY <1>1, <1>2

THEOREM Invariance == Spec => []IInv
  BY InitIInv, NextIInv, PTL DEF Spec

\* Every polka rules out the other blocks in every earlier round: the reason
\* why the unlocking of addVote and enterPrecommit is safe.
THEOREM PolkasSafe == Spec => []PolkasAreSafe
  <1>1. IInv => PolkasAreSafe
    BY DEF IInv
  <1> QED BY <1>1, Invariance, PTL

\* Two rounds with +2/3 precommits have them for the same block.
LEMMA CommitsAgree ==
    ASSUME IInv, NEW q \in Rounds, NEW r \in Rounds, q <= r,
           NEW b \in majorities(precommits, q), NEW c \in majorities(precommits, r)
    PROVE  b = c
  <1> USE DEF IInv
  <1>1. /\ b \in Values /\ b # NoVote
        /\ IsQuorum({n \in Honest : precommits[n][q] = b} \cup Faulty)
    BY VotingAssumption DEF majorities, Values
  <1>2. /\ c \in Values /\ c # NoVote
        /\ IsQuorum({n \in Honest : precommits[n][r] = c} \cup Faulty)
    BY VotingAssumption DEF majorities, Values
  <1> DEFINE ForB == {n \in Honest : precommits[n][q] = b}
             ForC == {n \in Honest : precommits[n][r] = c}
  <1>3. ForB \in SUBSET Honest /\ ForC \in SUBSET Honest
    OBVIOUS
  <1>4. /\ IsQuorum(ForB \cup Faulty) /\ IsQuorum(ForC \cup Faulty)
    BY <1>1, <1>2
  <1>5. \E n \in Honest : n \in ForB
    <2> HIDE DEF ForB, ForC
    <2> QED BY <1>3, <1>4, QuorumsMeet
  <1>6. \E n \in Honest : n \in ForC
    <2> HIDE DEF ForB, ForC
    <2> QED BY <1>3, <1>4, QuorumsMeet
  <1>7. \E n \in Honest : n \in ForB /\ n \in ForC
    <2> HIDE DEF ForB, ForC
    <2> QED BY <1>3, <1>4, QuorumsMeet
  <1>8. CASE q = r
    <2>1. PICK n \in Honest : precommits[n][q] = b /\ precommits[n][r] = c
      BY <1>7
    <2> QED BY <2>1, <1>8
  <1>9. CASE q < r
    <2>1. PICK n \in Honest : precommits[n][r] = c
      BY <1>6
    <2>2. c \in polkas[r]
      BY <2>1, <1>2 DEF PrecommitsJustified
    <2>3. PICK m \in Honest : precommits[m][q] = b
      BY <1>5
    <2>4. b \in Blocks
      BY <2>3, <1>1 DEF TypeOK
    <2> SUFFICES ASSUME b # c PROVE FALSE
      OBVIOUS
    <2> DEFINE S == {k \in Honest : precommits[k][q] = b} \cup Faulty
               T == {k \in Honest : ~ Forgoes(k, q, b)} \cup Faulty
    <2>5. S \in SUBSET T /\ T \in SUBSET Validators
      BY CommitteeAssumption DEF Forgoes, Honest
    <2>6. IsQuorum(T)
      BY <1>1, <2>5, QuorumGrows
    <2> QED BY <1>9, <2>2, <2>4, <2>6 DEF PolkasAreSafe
  <1> QED BY <1>8, <1>9 DEF Rounds

\* No two blocks of a height are ever finalized.
THEOREM AgreementHolds == Spec => []Agreement
  <1>1. IInv => Agreement
    <2> SUFFICES ASSUME IInv, NEW q \in Rounds, NEW r \in Rounds,
                        NEW b \in majorities(precommits, q),
                        NEW c \in majorities(precommits, r)
                 PROVE  b = c
      BY DEF Agreement
    <2>1. q <= r \/ r <= q
      BY DEF Rounds
    <2> QED BY <2>1, CommitsAgree
  <1> QED BY <1>1, Invariance, PTL

\* The votes and rounds keep their types.
THEOREM TypeCorrect == Spec => []TypeOK
  <1>1. IInv => TypeOK
    BY DEF IInv
  <1> QED BY <1>1, Invariance, PTL
=============================================================================
