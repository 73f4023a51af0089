----------------------- MODULE ProposerRotationProofs -----------------------
(***************************************************************************)
(* That the proposers take turns and that the nodes agree on them, for     *)
(* every committee and any number of nodes, heights and rounds.            *)
(*                                                                         *)
(* The Accums of a committee always have one of Cardinality(members)       *)
(* shapes: those who come before the next proposer in the order of the     *)
(* addresses have paid once more than the others (Shape).  The loop of     *)
(* IncrementAccum moves from each shape to the next one, by induction on   *)
(* its counter.  Each node then keeps a set whose shape is given by its    *)
(* round alone (NodeInv), whatever it skipped.                             *)
(***************************************************************************)
EXTENDS ProposerRotation, FiniteSetTheorems, TLAPS

\* A leaf that names no prover is the SMT solver's.
USE SMTT(60)
-----------------------------------------------------------------------------
(* Induction, and the remainders of successive numbers.                      *)

\* A set of naturals that is not empty has a least element.
LEMMA LeastNatural ==
    ASSUME NEW T, T \subseteq Nat, T # {}
    PROVE  \E n \in T : \A m \in T : n <= m
<1> DEFINE R == {ss \in Nat \X Nat : ss[1] < ss[2]}
<1>1. IsWellFoundedOn(R, Nat)
  BY NatLessThanWellFounded DEF OpToRel
<1> HIDE DEF R
<1>2. PICK n \in T : \A m \in T : ~ (<<m, n>> \in R)
  BY ZenonT(60), <1>1, WFMin
<1>3. \A m \in T : ~ (m < n)
  BY ZenonT(60), <1>2 DEF R
<1> QED
  BY <1>3

\* A set that contains 0 and the successor of each of its naturals contains all.
LEMMA SetInduction ==
    ASSUME NEW S, 0 \in S, \A n \in Nat : n \in S => n + 1 \in S
    PROVE  Nat \subseteq S
<1> SUFFICES ASSUME Nat \ S # {} PROVE FALSE
  OBVIOUS
<1>1. PICK n \in Nat \ S : \A m \in Nat \ S : n <= m
  BY ZenonT(60), LeastNatural
<1>2. n # 0 /\ n - 1 \in Nat
  BY <1>1
<1>3. n - 1 \in S
  BY <1>1, <1>2
<1> QED
  BY <1>2, <1>3

\* The remainders of successive numbers go up by one and start over.
LEMMA NextRemainder ==
    ASSUME NEW x \in Nat, NEW n \in Nat \ {0}
    PROVE  /\ x % n \in 0 .. n - 1
           /\ (x + 1) % n = IF (x % n) + 1 = n THEN 0 ELSE (x % n) + 1
<1> DEFINE q == x \div n
           p == x % n
           q1 == (x + 1) \div n
           p1 == (x + 1) % n
           d == q1 - q
<1>1. x = n * q + p /\ q \in Nat /\ p \in 0 .. n - 1
  OBVIOUS
<1>2. x + 1 = n * q1 + p1 /\ q1 \in Nat /\ p1 \in 0 .. n - 1
  OBVIOUS
<1> HIDE DEF q, p, q1, p1
<1>3. n * q1 + p1 = n * q + (p + 1)
  BY <1>1, <1>2
<1>4. d \in Int /\ n * d = p + 1 - p1 /\ p + 1 - p1 \in Int
  BY <1>1, <1>2, <1>3
<1>5. p + 1 - p1 <= n /\ p + 1 - p1 > -n
  BY <1>1, <1>2
<1> HIDE DEF d
<1>6. d < 2 /\ d > -1
  <2>1. d < 2
    BY <1>4, <1>5
  <2>2. d > -1
    BY <1>4, <1>5
  <2> QED
    BY <2>1, <2>2
<1>7. CASE d = 0
  BY <1>7, <1>1, <1>2, <1>4 DEF p, p1
<1>8. CASE d = 1
  <2>1. p + 1 - p1 = n
    BY <1>8, <1>4
  <2> QED
    BY <2>1, <1>1, <1>2 DEF p, p1
<1> QED
  BY <1>4, <1>6, <1>7, <1>8
-----------------------------------------------------------------------------
(* The rank of a member.                                                     *)

\* The members with a lower address; fewer than all.
LEMMA RankType ==
    ASSUME NEW M \in SUBSET Nat, IsFiniteSet(M), NEW a \in M
    PROVE  Cardinality(M) \in Nat \ {0} /\ Rank(a, M) \in 0 .. Cardinality(M) - 1
<1> DEFINE L == {b \in M : b < a}
<1>1. L \in SUBSET (M \ {a})
  OBVIOUS
<1>2. IsFiniteSet(M \ {a}) /\ Cardinality(M \ {a}) = Cardinality(M) - 1
  BY FS_RemoveElement
<1>3. IsFiniteSet(L) /\ Cardinality(L) <= Cardinality(M \ {a})
  BY <1>1, <1>2, FS_Subset
<1>4. Cardinality(L) \in Nat /\ Cardinality(M) \in Nat /\ Cardinality(M \ {a}) \in Nat
  BY <1>2, <1>3, FS_CardinalityType
<1> QED
  BY <1>2, <1>3, <1>4 DEF Rank

\* The order of the ranks is that of the addresses.
LEMMA RankOrder ==
    ASSUME NEW M \in SUBSET Nat, IsFiniteSet(M), NEW a \in M, NEW b \in M, a < b
    PROVE  Rank(a, M) < Rank(b, M)
<1> DEFINE A == {c \in M : c < a}
           B == {c \in M : c < b}
<1>1. A \cup {a} \in SUBSET B /\ a \notin A /\ A \in SUBSET M /\ B \in SUBSET M
  <2>1. \A c \in M : c < a => c < b
    OBVIOUS
  <2>2. a \in B /\ ~ (a < a)
    OBVIOUS
  <2> QED
    BY ZenonT(60), <2>1, <2>2
<1>2. IsFiniteSet(A) /\ IsFiniteSet(B)
  BY <1>1, FS_Subset
<1>3. Cardinality(A \cup {a}) = Cardinality(A) + 1
  BY <1>1, <1>2, FS_AddElement
<1>4. Cardinality(A \cup {a}) <= Cardinality(B)
  BY <1>1, <1>2, FS_Subset
<1>5. Cardinality(A) \in Nat /\ Cardinality(B) \in Nat
  BY <1>2, FS_CardinalityType
<1> QED
  BY <1>3, <1>4, <1>5 DEF Rank

LEMMA RankInjective ==
    ASSUME NEW M \in SUBSET Nat, IsFiniteSet(M), NEW a \in M, NEW b \in M,
           Rank(a, M) = Rank(b, M)
    PROVE  a = b
<1>1. a \in Nat /\ b \in Nat
  OBVIOUS
<1>2. CASE a < b
  BY <1>2, RankOrder, RankType
<1>3. CASE b < a
  BY <1>3, RankOrder, RankType
<1> QED
  BY <1>1, <1>2, <1>3

\* Every number below the size of the committee is somebody's rank.
LEMMA RankSurjective ==
    ASSUME NEW M \in SUBSET Nat, IsFiniteSet(M), M # {}, NEW k \in 0 .. Cardinality(M) - 1
    PROVE  \E a \in M : Rank(a, M) = k
<1> DEFINE N == 0 .. Cardinality(M) - 1
           f == [a \in M |-> Rank(a, M)]
<1>1. Cardinality(M) \in Nat \ {0}
  BY ZenonT(60), RankType
<1>2. IsFiniteSet(N) /\ Cardinality(N) = Cardinality(M)
  BY <1>1, FS_Interval
<1>3. f \in [M -> N]
  BY RankType
<1>4. \A a, b \in M : f[a] = f[b] => a = b
  BY RankInjective
<1>5. f \in Injection(M, N)
  BY ZenonT(60), <1>3, <1>4 DEF Injection, IsInjective
<1> HIDE DEF f, N
<1>6. f \in Surjection(M, N)
  BY <1>2, <1>5, FS_Injection
<1>7. \E a \in M : f[a] = k
  BY <1>6 DEF Surjection, N
<1> QED
  BY <1>7 DEF f
-----------------------------------------------------------------------------
(* The Accums.                                                               *)

\* All have Accum base, except that those before member number p in the order
\* of the addresses have paid and have n less.
Shape(accum, M, p) ==
    /\ accum \in [M -> Int]
    /\ \E base \in Int : \A a \in M :
         accum[a] = IF Rank(a, M) < p THEN base - Cardinality(M) ELSE base

Committee(M) == M \in SUBSET Nat /\ IsFiniteSet(M) /\ M # {}

\* The one with most Accum is then member number p.
LEMMA MostestRank ==
    ASSUME NEW M, Committee(M), NEW p \in 0 .. Cardinality(M) - 1, NEW accum, Shape(accum, M, p)
    PROVE  Mostest(accum) \in M /\ Rank(Mostest(accum), M) = p
<1> DEFINE n == Cardinality(M)
<1>1. PICK m \in M : Rank(m, M) = p
  BY RankSurjective DEF Committee
<1>2. n \in Nat \ {0} /\ \A a \in M : a \in Nat /\ Rank(a, M) \in 0 .. n - 1
  BY <1>1, RankType DEF Committee
<1> HIDE DEF n
<1>3. PICK base \in Int : \A a \in M : accum[a] = IF Rank(a, M) < p THEN base - n ELSE base
  BY DEF Shape, n
<1>4. DOMAIN accum = M
  BY DEF Shape
<1>5. \A b \in M : accum[m] > accum[b] \/ (accum[m] = accum[b] /\ m <= b)
  <2> SUFFICES ASSUME NEW b \in M PROVE accum[m] > accum[b] \/ (accum[m] = accum[b] /\ m <= b)
    OBVIOUS
  <2>1. accum[m] = base
    BY <1>1, <1>2, <1>3
  <2>2. CASE Rank(b, M) < p
    BY <2>1, <2>2, <1>2, <1>3
  <2>3. CASE ~ (Rank(b, M) < p)
    <3>1. ~ (b < m)
      BY <2>3, <1>1, RankOrder DEF Committee
    <3> QED
      BY <2>1, <2>3, <3>1, <1>2, <1>3
  <2> QED
    BY <2>2, <2>3
<1>6. \A b \in M : CompareAccum(accum, m, b) = m
  BY <1>5 DEF CompareAccum
<1>7. \A a \in M : (\A b \in M : CompareAccum(accum, a, b) = a) => a = m
  <2> SUFFICES ASSUME NEW a \in M, CompareAccum(accum, a, m) = a PROVE a = m
    BY <1>1
  <2>1. accum[a] \in Int /\ accum[m] \in Int
    BY DEF Shape
  <2> QED
    BY <1>2, <1>5, <2>1 DEF CompareAccum
<1>8. Mostest(accum) = m
  BY <1>4, <1>6, <1>7 DEF Mostest
<1> QED
  BY <1>1, <1>8

Following(p, M) == IF p + 1 = Cardinality(M) THEN 0 ELSE p + 1

\* One turn of the loop: number p pays and is the proposer, the next one follows.
LEMMA PayShape ==
    ASSUME NEW M, Committee(M), NEW p \in 0 .. Cardinality(M) - 1,
           NEW set, Shape(set.accum, M, p)
    PROVE  /\ Shape(Pay(set).accum, M, Following(p, M))
           /\ Pay(set).proposer \in M /\ Rank(Pay(set).proposer, M) = p
           /\ Pay(set) = [accum |-> Pay(set).accum, proposer |-> Pay(set).proposer]
<1> DEFINE n == Cardinality(M)
           m == Mostest(set.accum)
           accum == [set.accum EXCEPT ![m] = @ - n]
<1>1. m \in M /\ Rank(m, M) = p
  BY MostestRank
<1>2. n \in Nat \ {0} /\ \A a \in M : a \in Nat /\ Rank(a, M) \in 0 .. n - 1
  BY ZenonT(60), <1>1, RankType DEF Committee
<1>3. set.accum \in [M -> Int]
  BY DEF Shape
<1> HIDE DEF m
<1>4. TotalVotingPower(set) = n
  BY <1>2, <1>3 DEF TotalVotingPower, power
<1>5. Pay(set) = [accum |-> accum, proposer |-> m]
  BY <1>4 DEF Pay, m
<1> HIDE DEF n
<1>6. accum \in [M -> Int] /\ accum[m] = set.accum[m] - n /\ \A a \in M : a # m => accum[a] = set.accum[a]
  BY <1>1, <1>2, <1>3
<1>7. PICK base \in Int : \A a \in M : set.accum[a] = IF Rank(a, M) < p THEN base - n ELSE base
  BY DEF Shape, n
<1>8. \A a \in M : Rank(a, M) = p => a = m
  BY <1>1, RankInjective DEF Committee
<1> HIDE DEF accum
<1>9. \A a \in M : accum[a] = IF Rank(a, M) < p + 1 THEN base - n ELSE base
  <2> SUFFICES ASSUME NEW a \in M
               PROVE  accum[a] = IF Rank(a, M) < p + 1 THEN base - n ELSE base
    OBVIOUS
  <2>1. CASE a = m
    BY <2>1, <1>1, <1>6, <1>7
  <2>2. CASE a # m
    BY <2>2, <1>2, <1>6, <1>7, <1>8
  <2> QED
    BY <2>1, <2>2
<1>10. Shape(accum, M, Following(p, M))
  <2>1. CASE p + 1 = n
    <3>1. base - n \in Int /\ \A a \in M : accum[a] = base - n
      BY <2>1, <1>2, <1>9
    <3>2. \A a \in M : accum[a] = IF Rank(a, M) < 0 THEN (base - n) - n ELSE base - n
      BY <3>1, <1>2
    <3>3. Following(p, M) = 0
      BY <2>1 DEF Following, n
    <3> QED
      BY <1>6, <3>1, <3>2, <3>3 DEF Shape, n
  <2>2. CASE p + 1 # n
    BY <2>2, <1>6, <1>9 DEF Shape, Following, n
  <2> QED
    BY <2>1, <2>2
<1> QED
  BY <1>1, <1>5, <1>10
-----------------------------------------------------------------------------
(* IncrementAccum.                                                           *)

Raised(set, times) == [set EXCEPT !.accum = [a \in DOMAIN @ |-> @[a] + times * power]]

\* The states of the loop.
IsLoop(g, c, times) == g = [i \in 0 .. times |-> IF i = 0 THEN c ELSE Pay(g[i - 1])]

\* The loop is well defined: by induction on its length.
LEMMA LoopExists ==
    ASSUME NEW c, NEW times \in Nat
    PROVE  \E g : IsLoop(g, c, times)
<1> DEFINE S == {k \in Nat : \E g : IsLoop(g, c, k)}
<1>1. 0 \in S
  <2> DEFINE g == [i \in 0 .. 0 |-> c]
  <2>1. IsLoop(g, c, 0)
    BY DEF IsLoop
  <2> QED
    BY <2>1
<1>2. ASSUME NEW k \in Nat, k \in S PROVE k + 1 \in S
  <2>1. PICK g : IsLoop(g, c, k)
    BY <1>2
  <2> DEFINE h == [i \in 0 .. k + 1 |-> IF i = k + 1 THEN Pay(g[k]) ELSE g[i]]
  <2>2. \A i \in 0 .. k : g[i] = IF i = 0 THEN c ELSE Pay(g[i - 1])
    BY <2>1 DEF IsLoop
  <2>3. \A i \in 0 .. k + 1 : h[i] = IF i = 0 THEN c ELSE Pay(h[i - 1])
    <3> SUFFICES ASSUME NEW i \in 0 .. k + 1 PROVE h[i] = IF i = 0 THEN c ELSE Pay(h[i - 1])
      OBVIOUS
    <3>1. CASE i = 0
      BY <3>1, <2>2
    <3>2. CASE i = k + 1
      <4>1. h[i] = Pay(g[k]) /\ h[i - 1] = g[k] /\ i # 0
        BY <3>2
      <4> QED
        BY <4>1
    <3>3. CASE i # 0 /\ i # k + 1
      <4>1. i \in 0 .. k /\ i - 1 \in 0 .. k /\ i - 1 # k + 1
        BY <3>3
      <4>2. h[i] = g[i] /\ h[i - 1] = g[i - 1]
        BY <4>1, <3>3
      <4> QED
        BY <4>1, <4>2, <3>3, <2>2
    <3> QED
      BY <3>1, <3>2, <3>3
  <2>4. IsLoop(h, c, k + 1)
    <3>1. h = [i \in 0 .. k + 1 |-> h[i]]
      OBVIOUS
    <3> HIDE DEF h
    <3> QED
      BY ZenonT(60), <3>1, <2>3 DEF IsLoop
  <2> QED
    BY <2>4
<1> HIDE DEF S
<1>3. Nat \subseteq S
  BY <1>1, <1>2, SetInduction
<1> QED
  BY <1>3 DEF S

\* What IncrementAccum returns is the last state of the loop.
LEMMA LoopResult ==
    ASSUME NEW set, NEW times \in Nat
    PROVE  \E g : IsLoop(g, Raised(set, times), times) /\ IncrementAccum(set, times) = g[times]
<1> DEFINE c == Raised(set, times)
           g == CHOOSE h : IsLoop(h, c, times)
<1>1. IsLoop(g, c, times)
  BY LoopExists
<1>2. IncrementAccum(set, times) = g[times]
  BY DEF IncrementAccum, IsLoop, Raised
<1> QED
  BY ZenonT(60), <1>1, <1>2

\* IncrementAccum moves on by times members, and the last of them is the
\* proposer: the same as if it had been called for every round by itself.
LEMMA IncrementAccumShape ==
    ASSUME NEW M, Committee(M), NEW x \in Nat, NEW times \in Nat \ {0},
           NEW set, set = [accum |-> set.accum, proposer |-> set.proposer],
           Shape(set.accum, M, x % Cardinality(M))
    PROVE  LET t == IncrementAccum(set, times) IN
           /\ t = [accum |-> t.accum, proposer |-> t.proposer]
           /\ Shape(t.accum, M, (x + times) % Cardinality(M))
           /\ t.proposer \in M /\ Rank(t.proposer, M) = (x + times - 1) % Cardinality(M)
<1> DEFINE n == Cardinality(M)
           c == Raised(set, times)
<1>1. n \in Nat \ {0}
  BY RankType DEF Committee
<1>2. Shape(c.accum, M, x % n)
  <2>1. PICK base \in Int : \A a \in M : set.accum[a] = IF Rank(a, M) < x % n THEN base - n ELSE base
    BY DEF Shape
  <2>2. set.accum \in [M -> Int]
    BY DEF Shape
  <2>3. c.accum = [a \in M |-> set.accum[a] + times]
    BY <2>2 DEF Raised, power
  <2> HIDE DEF n, c
  <2>4. base + times \in Int /\ \A a \in M : c.accum[a] = IF Rank(a, M) < x % n THEN (base + times) - n ELSE base + times
    BY <1>1, <2>1, <2>2, <2>3
  <2>5. c.accum \in [M -> Int]
    BY <2>2, <2>3
  <2> QED
    BY <2>4, <2>5 DEF Shape, n
<1> HIDE DEF n, c
<1>3. PICK g : IsLoop(g, c, times) /\ IncrementAccum(set, times) = g[times]
  BY LoopResult DEF c
<1>4. g[0] = c /\ \A i \in 1 .. times : g[i] = Pay(g[i - 1])
  <2>1. \A i \in 0 .. times : g[i] = IF i = 0 THEN c ELSE Pay(g[i - 1])
    BY <1>3 DEF IsLoop
  <2> QED
    BY <2>1
<1> DEFINE S == {i \in Nat : i <= times =>
                  /\ Shape(g[i].accum, M, (x + i) % n)
                  /\ i > 0 => /\ g[i].proposer \in M /\ Rank(g[i].proposer, M) = (x + i - 1) % n
                              /\ g[i] = [accum |-> g[i].accum, proposer |-> g[i].proposer]}
<1>5. 0 \in S
  BY <1>2, <1>4
<1>6. ASSUME NEW i \in Nat, i \in S PROVE i + 1 \in S
  <2> SUFFICES ASSUME i + 1 <= times
               PROVE  /\ Shape(g[i + 1].accum, M, (x + (i + 1)) % n)
                      /\ g[i + 1].proposer \in M
                      /\ Rank(g[i + 1].proposer, M) = (x + (i + 1) - 1) % n
                      /\ g[i + 1] = [accum |-> g[i + 1].accum, proposer |-> g[i + 1].proposer]
    OBVIOUS
  <2>1. Shape(g[i].accum, M, (x + i) % n)
    BY <1>6
  <2>2. g[i + 1] = Pay(g[i])
    BY <1>4
  <2>3. (x + i) % n \in 0 .. n - 1 /\ (x + (i + 1)) % n = Following((x + i) % n, M)
    <3>1. x + i \in Nat /\ x + (i + 1) = (x + i) + 1
      OBVIOUS
    <3>2. (x + i) % n \in 0 .. n - 1
          /\ ((x + i) + 1) % n = IF ((x + i) % n) + 1 = n THEN 0 ELSE ((x + i) % n) + 1
      BY ZenonT(60), <1>1, <3>1, NextRemainder
    <3> QED
      BY ZenonT(60), <3>1, <3>2 DEF Following, n
  <2>4. x + (i + 1) - 1 = x + i
    OBVIOUS
  <2> QED
    BY <2>1, <2>2, <2>3, <2>4, PayShape DEF n
<1> HIDE DEF S
<1>7. times \in S
  BY <1>5, <1>6, SetInduction
<1> QED
  BY <1>3, <1>7 DEF S, n
-----------------------------------------------------------------------------
(* A node.                                                                   *)

Members(n) == Committees[n.committee]

\* A set of the committee, in the shape that x calls of IncrementAccum lead to.
SetAfter(set, M, x) ==
    /\ set \in ValidatorSet(M)
    /\ Shape(set.accum, M, x % Cardinality(M))

ValidatorSets == UNION {ValidatorSet(Committees[c]) : c \in DOMAIN Committees}

NodeType ==
    [view : Nat, committee : DOMAIN Committees, agent : ValidatorSets, since : Nat,
     own : ValidatorSets \cup {Nil}, height : Nat, round : 0 .. MaxRound, entered : BOOLEAN]

\* The proposer of the last block belongs to the committee.
LastIsMember(n) == n.view > 0 /\ chain[n.view] \in Members(n)

\* The StateAgent's set is as NewValidatorSet made it, up to the proposer.
AgentInv(n) ==
    /\ n \in NodeType /\ n.view <= Len(chain) /\ n.since > 0
    /\ SetAfter(n.agent, Members(n), 1)

\* Past round 0 a node has a set of its own, whose shape is given by the round.
OwnInv(n) ==
    /\ n.own = Nil <=> n.round = 0
    /\ n.own # Nil => /\ SetAfter(n.own, Members(n), n.round + 1)
                      /\ Rank(n.own.proposer, Members(n)) = n.round % Cardinality(Members(n))

\* In round 0 the proposer is that of the last block, if it is a member, or the
\* first member, if the set was made after that block.
FirstInv(n) ==
    n.round = 0 /\ n.height = n.view + 1 =>
      /\ n.entered /\ LastIsMember(n) => n.agent.proposer = chain[n.view]
      /\ n.since = n.height /\ ~ (n.entered /\ LastIsMember(n))
           => Rank(n.agent.proposer, Members(n)) = 0

NodeInv(n) ==
    /\ n.height \in 1 .. n.view + 1 /\ n.since <= n.height
    /\ AgentInv(n) /\ OwnInv(n) /\ FirstInv(n)

IInv == chain \in Seq(Nat) /\ node \in [Nodes -> NodeType] /\ \A i \in Nodes : NodeInv(node[i])

LEMMA CommitteeMembers ==
    ASSUME NEW c \in DOMAIN Committees
    PROVE  /\ Committee(Committees[c]) /\ Cardinality(Committees[c]) \in Nat \ {0}
           /\ ValidatorSet(Committees[c]) \subseteq ValidatorSets
<1>1. Committees[c] \in SUBSET Nat /\ IsFiniteSet(Committees[c]) /\ Committees[c] # {}
  BY CommitteesAssumption
<1>2. Cardinality(Committees[c]) \in Nat \ {0}
  BY <1>1, RankType
<1> QED
  BY <1>1, <1>2 DEF Committee, ValidatorSets

\* IncrementAccum on the set of a committee.
LEMMA Increment ==
    ASSUME NEW M, Committee(M), NEW x \in Nat, NEW times \in Nat \ {0}, NEW set, SetAfter(set, M, x)
    PROVE  LET t == IncrementAccum(set, times) IN
           /\ SetAfter(t, M, x + times)
           /\ Rank(t.proposer, M) = (x + times - 1) % Cardinality(M)
<1> DEFINE t == IncrementAccum(set, times)
<1>1. set = [accum |-> set.accum, proposer |-> set.proposer] /\ Shape(set.accum, M, x % Cardinality(M))
  BY DEF SetAfter, ValidatorSet
<1>2. /\ t = [accum |-> t.accum, proposer |-> t.proposer]
      /\ Shape(t.accum, M, (x + times) % Cardinality(M))
      /\ t.proposer \in M /\ Rank(t.proposer, M) = (x + times - 1) % Cardinality(M)
  BY <1>1, IncrementAccumShape
<1> HIDE DEF t
<1>3. t.accum \in [M -> Int]
  BY <1>2 DEF Shape
<1>4. t \in ValidatorSet(M)
  BY <1>2, <1>3 DEF ValidatorSet
<1> QED
  BY <1>2, <1>4 DEF SetAfter, t

\* A new set: the first member is the proposer.
LEMMA NewSet ==
    ASSUME NEW M, Committee(M)
    PROVE  SetAfter(NewValidatorSet(M), M, 1) /\ Rank(NewValidatorSet(M).proposer, M) = 0
<1> DEFINE set == [accum |-> [a \in M |-> 0], proposer |-> Nil]
           n == Cardinality(M)
<1>1. n \in Nat \ {0} /\ \A a \in M : Rank(a, M) \in 0 .. n - 1
  BY ZenonT(60), RankType DEF Committee
<1>2. 0 % n = 0
  BY <1>1
<1>3. Shape(set.accum, M, 0 % n)
  <2>1. \A a \in M : set.accum[a] = IF Rank(a, M) < 0 THEN 0 - n ELSE 0
    BY <1>1
  <2> QED
    BY <1>2, <2>1 DEF Shape
<1>4. set = [accum |-> set.accum, proposer |-> set.proposer]
  OBVIOUS
<1> DEFINE t == IncrementAccum(set, 1)
<1>5. /\ t = [accum |-> t.accum, proposer |-> t.proposer]
      /\ Shape(t.accum, M, (0 + 1) % n)
      /\ t.proposer \in M /\ Rank(t.proposer, M) = (0 + 1 - 1) % n
  <2> HIDE DEF set
  <2>1. 0 \in Nat /\ 1 \in Nat \ {0}
    OBVIOUS
  <2> QED
    BY ZenonT(60), <1>3, <1>4, <2>1, IncrementAccumShape
<1>6. NewValidatorSet(M) = t
  BY DEF NewValidatorSet
<1> HIDE DEF t, n
<1>7. 0 + 1 = 1 /\ 0 + 1 - 1 = 0
  OBVIOUS
<1>8. t.accum \in [M -> Int]
  BY <1>5 DEF Shape
<1>9. t \in ValidatorSet(M)
  BY <1>5, <1>8 DEF ValidatorSet
<1> QED
  BY <1>2, <1>5, <1>6, <1>7, <1>9 DEF SetAfter, n
-----------------------------------------------------------------------------
(* The operations of a node.                                                 *)

\* updateToState: a new height begins, in round 0.
LEMMA UpdateToStateInv ==
    ASSUME NEW n, AgentInv(n), n.since <= n.view + 1,
           n.since = n.view + 1 => Rank(n.agent.proposer, Members(n)) = 0
    PROVE  LET t == updateToState(n) IN
           /\ NodeInv(t) /\ t.round = 0 /\ t.committee = n.committee /\ t.view = n.view
           /\ t.height = n.view + 1 /\ ~ t.entered
<1> DEFINE t == updateToState(n)
<1>1. n \in NodeType /\ n.view \in Nat /\ n.since \in Nat
  BY DEF AgentInv, NodeType
<1>2. t \in NodeType
  <2>1. 0 \in 0 .. MaxRound /\ n.view + 1 \in Nat
    BY <1>1, CommitteesAssumption
  <2> QED
    BY ZenonT(60), <1>1, <2>1 DEF updateToState, NodeType
<1>3. /\ t.view = n.view /\ t.committee = n.committee /\ t.agent = n.agent /\ t.since = n.since
      /\ t.own = Nil /\ t.height = n.view + 1 /\ t.round = 0 /\ t.entered = FALSE
  BY <1>1 DEF updateToState, NodeType
<1> HIDE DEF t
<1>4. AgentInv(t)
  BY <1>2, <1>3 DEF AgentInv, Members
<1> QED
  BY <1>1, <1>3, <1>4 DEF NodeInv, OwnInv, FirstInv, Members, t

\* enterNewRound, from any earlier round.
LEMMA EnterNewRoundInv ==
    ASSUME NEW n, NodeInv(n), NEW r \in 0 .. MaxRound, chain \in Seq(Nat),
           r > n.round \/ (r = n.round /\ ~ n.entered)
    PROVE  NodeInv(enterNewRound(n, r))
<1> DEFINE M == Members(n)
           t == enterNewRound(n, r)
<1>1. n \in NodeType /\ n.round \in Nat /\ n.view \in Nat /\ n.committee \in DOMAIN Committees
  BY CommitteesAssumption DEF NodeInv, AgentInv, NodeType
<1>2. Committee(M) /\ Cardinality(M) \in Nat \ {0} /\ ValidatorSet(M) \subseteq ValidatorSets
  BY <1>1, CommitteeMembers DEF Members
<1>3. CASE r > n.round
  <2> DEFINE x == IF n.own = Nil THEN 1 ELSE n.round + 1
             own == IncrementAccum(Validators(n), r - n.round)
  <2>1. x \in Nat /\ r - n.round \in Nat \ {0} /\ SetAfter(Validators(n), M, x)
    BY <1>1, <1>3 DEF NodeInv, AgentInv, OwnInv, Validators
  <2>2. x + (r - n.round) = r + 1 /\ x + (r - n.round) - 1 = r
    BY <1>1, <1>3 DEF NodeInv, OwnInv
  <2>3. SetAfter(own, M, r + 1) /\ Rank(own.proposer, M) = r % Cardinality(M)
    <3> DEFINE times == r - n.round
    <3> HIDE DEF x, M, times
    <3>1. times \in Nat \ {0} /\ own = IncrementAccum(Validators(n), times)
      BY ZenonT(60), <2>1 DEF times
    <3> HIDE DEF own
    <3>2. SetAfter(own, M, x + times) /\ Rank(own.proposer, M) = (x + times - 1) % Cardinality(M)
      BY ZenonT(60), <1>2, <2>1, <3>1, Increment
    <3> QED
      BY ZenonT(60), <2>2, <3>2 DEF times
  <2>4. own \in ValidatorSet(M) /\ own \in ValidatorSets /\ own # Nil
    <3>1. own \in ValidatorSet(M)
      BY <2>3 DEF SetAfter
    <3>2. Nil \notin ValidatorSet(M)
      BY <1>1, CommitteesAssumption DEF Members
    <3> QED
      BY <3>1, <3>2, <1>2
  <2>5. t = [[n EXCEPT !.own = own] EXCEPT !.round = r, !.entered = TRUE] /\ r # 0
    <3>1. r # 0
      BY <1>1, <1>3
    <3> QED
      BY ZenonT(60), <1>3, <3>1 DEF enterNewRound
  <2> HIDE DEF own
  <2>6. /\ t \in NodeType
        /\ t.view = n.view /\ t.committee = n.committee /\ t.agent = n.agent /\ t.since = n.since
        /\ t.own = own /\ t.height = n.height /\ t.round = r /\ r # 0
    BY ZenonT(60), <1>1, <2>4, <2>5 DEF NodeType
  <2> HIDE DEF t
  <2> QED
    <3>1. AgentInv(t) /\ Members(t) = M
      BY ZenonT(60), <2>6 DEF NodeInv, AgentInv, Members
    <3>2. t.height \in 1 .. t.view + 1 /\ t.since <= t.height
      BY ZenonT(60), <2>6 DEF NodeInv
    <3> HIDE DEF M
    <3>3. OwnInv(t)
      BY ZenonT(60), <2>3, <2>4, <2>6, <3>1 DEF OwnInv
    <3>4. FirstInv(t)
      BY ZenonT(60), <2>6 DEF FirstInv
    <3> QED
      BY ZenonT(60), <3>1, <3>2, <3>3, <3>4 DEF NodeInv, t
<1>4. CASE r = n.round /\ ~ n.entered /\ r # 0
  <2>1. t = [n EXCEPT !.round = r, !.entered = TRUE]
    <3>1. ~ (r > n.round)
      BY <1>1, <1>4
    <3> QED
      BY ZenonT(60), <1>4, <3>1 DEF enterNewRound
  <2>2. /\ t \in NodeType
        /\ t.view = n.view /\ t.committee = n.committee /\ t.agent = n.agent /\ t.since = n.since
        /\ t.own = n.own /\ t.height = n.height /\ t.round = n.round /\ t.round # 0
    BY ZenonT(60), <1>1, <1>4, <2>1 DEF NodeType
  <2> HIDE DEF t
  <2> QED
    <3>1. AgentInv(t) /\ Members(t) = M
      BY ZenonT(60), <2>2 DEF NodeInv, AgentInv, Members
    <3>2. t.height \in 1 .. t.view + 1 /\ t.since <= t.height
      BY ZenonT(60), <2>2 DEF NodeInv
    <3>3. OwnInv(t)
      BY ZenonT(60), <2>2 DEF NodeInv, OwnInv, Members
    <3>4. FirstInv(t)
      BY ZenonT(60), <2>2 DEF FirstInv
    <3> QED
      BY ZenonT(60), <3>1, <3>2, <3>3, <3>4 DEF NodeInv, t
<1>5. CASE r = 0 /\ n.round = 0 /\ ~ n.entered
  <2> DEFINE a == GetLastValidatorAddress(n)
             agent == FindValidatorSetProposer(n.agent, a)
  <2>1. t = [[n EXCEPT !.agent = agent] EXCEPT !.round = r, !.entered = TRUE]
    BY <1>1, <1>5 DEF enterNewRound
  <2>2. n.agent \in ValidatorSet(M) /\ Shape(n.agent.accum, M, 1 % Cardinality(M)) /\ DOMAIN n.agent.accum = M
    BY DEF NodeInv, AgentInv, SetAfter, ValidatorSet
  <2>3. a \in M <=> LastIsMember(n)
    <3>1. M \subseteq Nat
      BY <1>2 DEF Committee
    <3>2. CASE n.view = 0
      BY <3>1, <3>2, CommitteesAssumption DEF GetLastValidatorAddress, LastIsMember
    <3>3. CASE n.view # 0
      BY <3>3, <1>1 DEF GetLastValidatorAddress, LastIsMember
    <3> QED
      BY <3>2, <3>3
  <2>4. LastIsMember(n) => a = chain[n.view]
    BY <1>1 DEF GetLastValidatorAddress, LastIsMember
  <2>5. /\ agent \in ValidatorSet(M) /\ agent.accum = n.agent.accum
        /\ agent.proposer = IF a \in M THEN a ELSE n.agent.proposer
    <3> HIDE DEF a, M
    <3> QED
      BY <2>2 DEF FindValidatorSetProposer, ValidatorSet
  <2> HIDE DEF agent, a
  <2>6. /\ t \in NodeType
        /\ t.view = n.view /\ t.committee = n.committee /\ t.agent = agent /\ t.since = n.since
        /\ t.own = n.own /\ t.height = n.height /\ t.round = 0 /\ t.entered = TRUE
    BY ZenonT(60), <1>1, <1>2, <1>5, <2>1, <2>5 DEF NodeType
  <2> HIDE DEF t
  <2>7. SetAfter(agent, M, 1)
    BY <2>2, <2>5 DEF SetAfter
  <2>8. Members(t) = M /\ (LastIsMember(t) <=> LastIsMember(n))
    BY <2>6 DEF LastIsMember, Members
  <2> QED
    <3>1. AgentInv(t)
      BY ZenonT(60), <2>6, <2>7, <2>8 DEF NodeInv, AgentInv
    <3>2. t.height \in 1 .. t.view + 1 /\ t.since <= t.height /\ n.own = Nil
      BY ZenonT(60), <1>5, <2>6 DEF NodeInv, OwnInv
    <3>3. LastIsMember(t) => t.agent.proposer = chain[t.view]
      BY ZenonT(60), <2>3, <2>4, <2>5, <2>6, <2>8
    <3>4. t.height = t.view + 1 /\ t.since = t.height /\ ~ LastIsMember(t) => Rank(t.agent.proposer, Members(t)) = 0
      <4>1. n.height = n.view + 1 /\ n.since = n.height => Rank(n.agent.proposer, M) = 0
        BY ZenonT(60), <1>5 DEF NodeInv, FirstInv
      <4> HIDE DEF M
      <4> QED
        BY ZenonT(60), <4>1, <2>3, <2>5, <2>6, <2>8
    <3>5. OwnInv(t)
      BY ZenonT(60), <2>6, <3>2 DEF OwnInv
    <3>6. FirstInv(t)
      BY ZenonT(60), <2>6, <3>3, <3>4 DEF FirstInv
    <3> QED
      BY ZenonT(60), <3>1, <3>2, <3>5, <3>6 DEF NodeInv, t
<1> QED
  BY <1>3, <1>4, <1>5

\* PutCommittee, after which the first member is the proposer.
LEMMA PutCommitteeInv ==
    ASSUME NEW view \in 0 .. Len(chain), NEW c \in DOMAIN Committees
    PROVE  NodeInv(PutCommittee(view, c)) /\ PutCommittee(view, c).round = 0
<1> DEFINE M == Committees[c]
           n == [view |-> view, committee |-> c, agent |-> NewValidatorSet(M), since |-> view + 1,
                 own |-> Nil, height |-> 0, round |-> 0, entered |-> FALSE]
<1>1. Committee(M) /\ ValidatorSet(M) \subseteq ValidatorSets
  BY CommitteeMembers
<1>2. SetAfter(NewValidatorSet(M), M, 1) /\ Rank(NewValidatorSet(M).proposer, M) = 0
  BY <1>1, NewSet
<1>3. NewValidatorSet(M) \in ValidatorSets
  BY <1>1, <1>2 DEF SetAfter
<1>4. n \in NodeType
  BY <1>3, CommitteesAssumption DEF NodeType
<1>5. AgentInv(n) /\ n.since = n.view + 1 /\ Rank(n.agent.proposer, Members(n)) = 0
  BY <1>2, <1>4 DEF AgentInv, Members
<1>6. PutCommittee(view, c) = updateToState(n)
  BY DEF PutCommittee
<1> HIDE DEF n
<1> QED
  <2>1. n.since <= n.view + 1
    BY <1>5 DEF AgentInv, NodeType
  <2> QED
    BY ZenonT(60), <1>5, <1>6, <2>1, UpdateToStateInv

\* validatorUpdate: the next committee, from a round that the old one gives.
LEMMA ValidatorUpdateInv ==
    ASSUME NEW n, NodeInv(n), n.committee < Len(Committees), n.round < MaxRound, chain \in Seq(Nat)
    PROVE  NodeInv(validatorUpdate(n))
<1> DEFINE M == Committees[n.committee + 1]
           s == [n EXCEPT !.committee = @ + 1, !.since = n.view + 1, !.agent = NewValidatorSet(M)]
           given == updateToState(s)
           r == IF given.height = n.height /\ n.round > 0 THEN n.round + 1 ELSE 0
<1>1. n \in NodeType /\ n.view \in Nat /\ n.round \in Nat /\ n.committee \in DOMAIN Committees
  BY CommitteesAssumption DEF NodeInv, AgentInv, NodeType
<1>2. n.committee + 1 \in DOMAIN Committees
  BY <1>1, CommitteesAssumption
<1>3. Committee(M) /\ ValidatorSet(M) \subseteq ValidatorSets
  BY <1>2, CommitteeMembers
<1>4. SetAfter(NewValidatorSet(M), M, 1) /\ Rank(NewValidatorSet(M).proposer, M) = 0
  BY <1>3, NewSet
<1>5. NewValidatorSet(M) \in ValidatorSets
  BY <1>3, <1>4 DEF SetAfter
<1>6. /\ s \in NodeType /\ s.view = n.view /\ s.committee = n.committee + 1
      /\ s.since = n.view + 1 /\ s.agent = NewValidatorSet(M)
  <2>1. n.view + 1 \in Nat
    BY <1>1
  <2> HIDE DEF M
  <2> QED
    BY ZenonT(60), <1>1, <1>2, <1>5, <2>1 DEF NodeType
<1> HIDE DEF s
<1>7. AgentInv(s) /\ s.since = s.view + 1 /\ Rank(s.agent.proposer, Members(s)) = 0
  <2>1. n.view <= Len(chain)
    BY DEF NodeInv, AgentInv
  <2> QED
    BY <1>1, <1>4, <1>6, <2>1 DEF AgentInv, Members
<1>8. NodeInv(given) /\ given.round = 0 /\ ~ given.entered
  BY <1>1, <1>6, <1>7, UpdateToStateInv
<1>9. r \in 0 .. MaxRound /\ (r > given.round \/ (r = given.round /\ ~ given.entered))
  BY <1>1, <1>8, CommitteesAssumption
<1>10. validatorUpdate(n) = enterNewRound(given, r)
  BY DEF validatorUpdate, s
<1> HIDE DEF given, r
<1> QED
  BY <1>8, <1>9, <1>10, EnterNewRoundInv

\* The agent gets a block: the node is no longer at the head of the chain.
LEMMA BlockArrivesInv ==
    ASSUME NEW n, NodeInv(n), n.view < Len(chain), chain \in Seq(Nat)
    PROVE  NodeInv([n EXCEPT !.view = @ + 1])
<1> DEFINE t == [n EXCEPT !.view = @ + 1]
<1>1. n \in NodeType /\ n.view \in Nat /\ n.height \in 1 .. n.view + 1
  BY DEF NodeInv, AgentInv, NodeType
<1>2. /\ t \in NodeType /\ t.view = n.view + 1 /\ t.committee = n.committee /\ t.agent = n.agent
      /\ t.since = n.since /\ t.own = n.own /\ t.height = n.height /\ t.round = n.round
  BY <1>1 DEF NodeType
<1> HIDE DEF t
<1>3. t.view <= Len(chain) /\ t.height \in 1 .. t.view + 1 /\ t.height # t.view + 1
  BY <1>1, <1>2
<1> QED
  BY <1>2, <1>3 DEF NodeInv, AgentInv, OwnInv, FirstInv, Members, t

\* The chain grows: what a node knows of it stays.
LEMMA ChainGrows ==
    ASSUME NEW n, NodeInv(n), chain \in Seq(Nat), NEW p \in Nat, chain' = Append(chain, p)
    PROVE  NodeInv(n)'
<1>1. n.view \in Nat /\ n.view <= Len(chain)
  BY DEF NodeInv, AgentInv, NodeType
<1>2. Len(chain') = Len(chain) + 1 /\ \A k \in 1 .. Len(chain) : chain'[k] = chain[k]
  OBVIOUS
<1>3. n.view <= Len(chain') /\ (n.view > 0 => chain'[n.view] = chain[n.view])
  BY <1>1, <1>2
<1>4. AgentInv(n)'
  BY <1>3 DEF NodeInv, AgentInv, NodeType, Members, SetAfter, ValidatorSets
<1>5. (LastIsMember(n)' <=> LastIsMember(n)) /\ Members(n)' = Members(n)
  BY ZenonT(60), <1>3 DEF LastIsMember, Members
<1> QED
  BY ZenonT(60), <1>3, <1>4, <1>5 DEF NodeInv, OwnInv, FirstInv, LastIsMember, Members, SetAfter
-----------------------------------------------------------------------------
(* The specification.                                                        *)

LEMMA InitIInv == Init => IInv
<1> SUFFICES ASSUME Init PROVE IInv
  OBVIOUS
<1>1. chain = <<>> /\ chain \in Seq(Nat) /\ Len(chain) = 0 /\ node = [i \in Nodes |-> PutCommittee(0, 1)]
  BY DEF Init
<1>2. 0 \in 0 .. Len(chain) /\ 1 \in DOMAIN Committees
  BY <1>1, CommitteesAssumption
<1>3. NodeInv(PutCommittee(0, 1))
  BY ZenonT(60), <1>2, PutCommitteeInv
<1>4. PutCommittee(0, 1) \in NodeType
  BY ZenonT(60), <1>3 DEF NodeInv, AgentInv
<1> QED
  BY ZenonT(60), <1>1, <1>3, <1>4 DEF IInv

\* A step of one node that leaves the chain alone.
LEMMA OneNode ==
    ASSUME IInv, NEW i \in Nodes, NEW n, NodeInv(n), Step(i, n), UNCHANGED chain
    PROVE  IInv'
<1>1. n \in NodeType
  BY ZenonT(60) DEF NodeInv, AgentInv
<1>2. node' \in [Nodes -> NodeType] /\ \A j \in Nodes : node'[j] = IF j = i THEN n ELSE node[j]
  BY <1>1 DEF IInv, Step
<1>3. \A j \in Nodes : NodeInv(node'[j])
  BY ZenonT(60), <1>2 DEF IInv
<1>4. \A m : NodeInv(m) => NodeInv(m)'
  BY ZenonT(60) DEF NodeInv, AgentInv, OwnInv, FirstInv, LastIsMember, SetAfter, NodeType, Members
<1> QED
  BY ZenonT(60), <1>2, <1>3, <1>4 DEF IInv

LEMMA EnterNewRoundStep ==
    ASSUME IInv, NEW i \in Nodes, NEW r \in 0 .. MaxRound, EnterNewRound(i, r)
    PROVE  IInv'
<1>1. NodeInv(node[i]) /\ chain \in Seq(Nat)
  BY ZenonT(60) DEF IInv
<1>2. NodeInv(enterNewRound(node[i], r))
  BY ZenonT(60), <1>1, EnterNewRoundInv DEF EnterNewRound
<1> QED
  BY ZenonT(60), <1>2, OneNode DEF EnterNewRound

LEMMA ValidatorUpdateStep ==
    ASSUME IInv, NEW i \in Nodes, ValidatorUpdate(i)
    PROVE  IInv'
<1>1. NodeInv(node[i]) /\ chain \in Seq(Nat)
  BY ZenonT(60) DEF IInv
<1>2. NodeInv(validatorUpdate(node[i]))
  BY ZenonT(60), <1>1, ValidatorUpdateInv DEF ValidatorUpdate
<1> QED
  BY ZenonT(60), <1>2, OneNode DEF ValidatorUpdate

LEMMA BlockArrivesStep ==
    ASSUME IInv, NEW i \in Nodes, BlockArrives(i)
    PROVE  IInv'
<1>1. NodeInv(node[i]) /\ chain \in Seq(Nat)
  BY ZenonT(60) DEF IInv
<1>2. NodeInv([node[i] EXCEPT !.view = @ + 1])
  BY ZenonT(60), <1>1, BlockArrivesInv DEF BlockArrives
<1> QED
  BY ZenonT(60), <1>2, OneNode DEF BlockArrives

\* A height that begins after the set was made: any member may be the proposer.
LEMMA NewHeightStep ==
    ASSUME IInv, NEW i \in Nodes, NewHeight(i)
    PROVE  IInv'
<1> DEFINE n == node[i]
<1>1. NodeInv(n) /\ n.height <= n.view
  BY ZenonT(60) DEF IInv, NewHeight
<1>2. AgentInv(n) /\ n.view \in Nat /\ n.height \in Nat /\ n.since \in Nat /\ n.since <= n.height
  BY ZenonT(60), <1>1 DEF NodeInv, AgentInv, NodeType
<1>3. n.since <= n.view + 1 /\ n.since # n.view + 1
  BY <1>1, <1>2
<1>4. NodeInv(updateToState(n))
  BY ZenonT(60), <1>2, <1>3, UpdateToStateInv
<1> QED
  BY ZenonT(60), <1>4, OneNode DEF NewHeight

LEMMA RestartStep ==
    ASSUME IInv, NEW i \in Nodes, Restart(i)
    PROVE  IInv'
<1>1. node[i].view \in Nat /\ node[i].view <= Len(chain) /\ node[i].committee \in DOMAIN Committees
  BY ZenonT(60) DEF IInv, NodeInv, AgentInv, NodeType
<1>2. node[i].view \in 0 .. Len(chain)
  BY <1>1 DEF IInv
<1>3. NodeInv(PutCommittee(node[i].view, node[i].committee))
  BY ZenonT(60), <1>1, <1>2, PutCommitteeInv
<1> QED
  BY ZenonT(60), <1>3, OneNode DEF Restart

LEMMA BlockCommittedStep ==
    ASSUME IInv, NEW p \in Nat, BlockCommitted(p)
    PROVE  IInv'
<1>1. chain \in Seq(Nat) /\ chain' = Append(chain, p) /\ node' = node
  BY ZenonT(60) DEF IInv, BlockCommitted
<1>2. chain' \in Seq(Nat)
  BY <1>1
<1>3. \A i \in Nodes : NodeInv(node[i])'
  <2> SUFFICES ASSUME NEW i \in Nodes PROVE NodeInv(node[i])'
    OBVIOUS
  <2>1. NodeInv(node[i])
    BY ZenonT(60) DEF IInv
  <2>2. \A m : NodeInv(m) => NodeInv(m)'
    BY <1>1, ChainGrows
  <2> QED
    BY ZenonT(60), <1>1, <2>1, <2>2
<1>4. NodeType' = NodeType
  BY ZenonT(60) DEF NodeType
<1> QED
  BY ZenonT(60), <1>1, <1>2, <1>3, <1>4 DEF IInv

LEMMA NextIInv == IInv /\ [Next]_vars => IInv'
<1> SUFFICES ASSUME IInv, [Next]_vars PROVE IInv'
  OBVIOUS
<1>1. CASE UNCHANGED vars
  BY ZenonT(60), <1>1 DEF IInv, NodeInv, AgentInv, OwnInv, FirstInv, LastIsMember, vars
<1>2. CASE \E i \in Nodes :
             \/ \E r \in 0 .. MaxRound : EnterNewRound(i, r)
             \/ ValidatorUpdate(i) \/ BlockArrives(i) \/ NewHeight(i) \/ Restart(i)
  BY ZenonT(60), <1>2, EnterNewRoundStep, ValidatorUpdateStep, BlockArrivesStep, NewHeightStep, RestartStep
<1>3. CASE \E p \in UNION {Committees[c] : c \in DOMAIN Committees} : BlockCommitted(p)
  <2>1. UNION {Committees[c] : c \in DOMAIN Committees} \subseteq Nat
    BY CommitteesAssumption
  <2> QED
    BY ZenonT(60), <1>3, <2>1, BlockCommittedStep
<1> QED
  BY ZenonT(60), <1>1, <1>2, <1>3 DEF Next

\* The invariant of the rotation: whatever rounds, heights and committees a node
\* went through, and however often it restarted, its set has the shape of its
\* round (enterNewRound, validatorUpdate, updateToState).
THEOREM Invariance == Spec => []IInv
<1>1. Init => IInv
  BY InitIInv
<1>2. IInv /\ [Next]_vars => IInv'
  BY NextIInv
<1> QED
  BY <1>1, <1>2, PTL DEF Spec

\* Every set a node holds is one of its committee, and its proposer is a member.
LEMMA IInvTypes == IInv => TypeOK
<1> SUFFICES ASSUME IInv PROVE TypeOK
  OBVIOUS
<1> SUFFICES ASSUME NEW i \in Nodes
             PROVE  LET n == node[i] IN
                    /\ n.view \in 0 .. Len(chain) /\ n.height \in 1 .. n.view + 1
                    /\ n.committee \in DOMAIN Committees
                    /\ n.round \in 0 .. MaxRound /\ n.entered \in BOOLEAN /\ n.since \in Nat
                    /\ \A s \in {n.agent, Validators(n)} :
                         DOMAIN s.accum = Committees[n.committee] /\ s.proposer \in Committees[n.committee]
  BY ZenonT(60) DEF IInv, TypeOK
<1> DEFINE n == node[i]
           M == Members(n)
<1>1. NodeInv(n) /\ n \in NodeType /\ chain \in Seq(Nat)
  BY ZenonT(60) DEF IInv
<1>2. n.view \in Nat /\ n.view <= Len(chain)
  BY ZenonT(60), <1>1 DEF NodeInv, AgentInv, NodeType
<1>3. n.agent \in ValidatorSet(M) /\ (n.own # Nil => n.own \in ValidatorSet(M))
  BY ZenonT(60), <1>1 DEF NodeInv, AgentInv, OwnInv, SetAfter
<1>4. Validators(n) \in ValidatorSet(M)
  BY ZenonT(60), <1>3 DEF Validators
<1>5. \A s \in ValidatorSet(M) : DOMAIN s.accum = M /\ s.proposer \in M
  BY DEF ValidatorSet
<1>6. n.view \in 0 .. Len(chain)
  BY <1>1, <1>2
<1>7. n.height \in 1 .. n.view + 1
  BY ZenonT(60), <1>1 DEF NodeInv
<1> QED
  BY ZenonT(60), <1>1, <1>3, <1>4, <1>5, <1>6, <1>7 DEF NodeType, Members

LEMMA IInvTurns == IInv => ProposersTakeTurns
<1> SUFFICES ASSUME IInv, NEW i \in Nodes, node[i].round > 0
             PROVE  Rank(Proposer(node[i]), Members(node[i]))
                      = node[i].round % Cardinality(Members(node[i]))
  BY ZenonT(60) DEF ProposersTakeTurns, Members
<1>1. NodeInv(node[i]) /\ node[i].round # 0
  BY DEF IInv
<1> QED
  BY ZenonT(60), <1>1 DEF NodeInv, OwnInv, Proposer, Validators

LEMMA IInvAgree == IInv => ProposersAgree
<1> SUFFICES ASSUME IInv, NEW i \in Nodes, NEW j \in Nodes,
                    AtHead(node[i]), AtHead(node[j]), node[i].height = node[j].height,
                    node[i].round = node[j].round, node[i].committee = node[j].committee
             PROVE  \/ Proposer(node[i]) = Proposer(node[j])
                    \/ /\ node[i].round = 0
                       /\ node[i].since < node[i].height \/ node[j].since < node[j].height
                       /\ chain[node[i].view] \notin Committees[node[i].committee]
  BY ZenonT(60) DEF ProposersAgree
<1> DEFINE m == node[i]
           n == node[j]
           M == Members(m)
<1>1. NodeInv(m) /\ NodeInv(n) /\ m \in NodeType /\ n \in NodeType /\ Members(n) = M
  BY ZenonT(60) DEF IInv, Members
<1>2. /\ m.view \in Nat /\ n.view \in Nat /\ m.since \in Nat /\ n.since \in Nat
      /\ m.since > 0 /\ n.since > 0 /\ m.height \in Nat /\ m.committee \in DOMAIN Committees
      /\ m.since <= m.height /\ n.since <= n.height /\ m.height = m.view + 1 /\ n.height = n.view + 1
      /\ m.entered /\ n.entered
  BY ZenonT(60), <1>1 DEF NodeInv, AgentInv, NodeType, AtHead
<1>3. m.view = n.view
  <2>1. \A a, b \in Nat : a + 1 = b + 1 => a = b
    OBVIOUS
  <2> QED
    BY ZenonT(60), <1>2, <2>1
<1>4. Committee(M)
  BY ZenonT(60), <1>2, CommitteeMembers DEF Members
<1>5. TypeOK /\ Proposer(m) \in M /\ Proposer(n) \in M
  BY ZenonT(60), <1>1, IInvTypes DEF TypeOK, Proposer, Members
<1>6. ASSUME Rank(Proposer(m), M) = Rank(Proposer(n), M) PROVE Proposer(m) = Proposer(n)
  BY ZenonT(60), <1>4, <1>5, <1>6, RankInjective DEF Committee
<1>7. CASE m.round # 0
  <2>1. \A k \in {m, n} : Rank(Proposer(k), M) = m.round % Cardinality(M)
    BY ZenonT(60), <1>1, <1>7 DEF NodeInv, OwnInv, Proposer, Validators
  <2> QED
    BY ZenonT(60), <2>1, <1>6
<1>8. CASE m.round = 0
  <2>1. Proposer(m) = m.agent.proposer /\ Proposer(n) = n.agent.proposer
    BY ZenonT(60), <1>1, <1>8 DEF NodeInv, OwnInv, Proposer, Validators
  <2>2. CASE LastIsMember(m)
    <3>1. LastIsMember(n)
      BY ZenonT(60), <2>2, <1>1, <1>3 DEF LastIsMember
    <3> QED
      BY ZenonT(60), <2>1, <2>2, <3>1, <1>1, <1>2, <1>3, <1>8 DEF NodeInv, FirstInv
  <2>3. CASE ~ LastIsMember(m) /\ m.since = m.height /\ n.since = n.height
    <3>1. ~ LastIsMember(n)
      BY ZenonT(60), <2>3, <1>1, <1>3 DEF LastIsMember
    <3>2. Rank(Proposer(m), M) = 0 /\ Rank(Proposer(n), M) = 0
      BY ZenonT(60), <2>1, <2>3, <3>1, <1>1, <1>2, <1>8 DEF NodeInv, FirstInv
    <3> QED
      BY ZenonT(60), <3>2, <1>6
  <2>4. CASE ~ LastIsMember(m) /\ ~ (m.since = m.height /\ n.since = n.height)
    <3>1. m.since < m.height \/ n.since < n.height
      BY <2>4, <1>2
    <3>2. m.view > 0
      BY <3>1, <1>2
    <3> QED
      BY ZenonT(60), <2>4, <3>1, <3>2, <1>8 DEF LastIsMember, Members
  <2> QED
    BY ZenonT(60), <2>2, <2>3, <2>4
<1> QED
  BY ZenonT(60), <1>7, <1>8

\* The validator sets that a node keeps are of its committee, and the proposer
\* that enterNewRound, IncrementAccum or FindValidatorSetProposer leaves in them is
\* a member of it.
THEOREM SetsOfTheCommittee == Spec => []TypeOK
BY Invariance, IInvTypes, PTL

\* Past round 0 the proposers take turns in the order of the addresses: for a
\* committee of any size the loop of IncrementAccum, called for the rounds since
\* the last call, comes to the round number modulo the size.
THEOREM TurnsInOrder == Spec => []ProposersTakeTurns
BY Invariance, IInvTurns, PTL

\* Two nodes of one committee in one round of one height have one proposer,
\* whichever rounds and heights each of them saw and however often it restarted,
\* except in round 0 after a block of a proposer that is not a member
\* (FindValidatorSetProposer).
THEOREM OneProposer == Spec => []ProposersAgree
BY Invariance, IInvAgree, PTL
=============================================================================
