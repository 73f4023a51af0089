--------------------------- MODULE SwitchProofs ---------------------------
(***************************************************************************)
(* The peer set stays consistent in every run of the switch, for any       *)
(* number of peers, IDs, reconnect loops and faults.                       *)
(***************************************************************************)
EXTENDS Switch, TLAPS

\* A leaf that names no prover is Zenon's.
USE ZenonT(60)

\* PeerSet.Add of a peer whose ID is not there yet keeps the list and the
\* lookup in step.
LEMMA AddIndexed ==
    ASSUME NEW ps \in PeerSets, Indexed(ps), NEW p \in Peers, ~Has(ps, ID[p])
    PROVE  Add(ps, p) \in PeerSets /\ Indexed(Add(ps, p))
<1> DEFINE new == Add(ps, p)
           n == Len(ps.list)
<1>1. ID[p] \in IDs /\ ps.list \in Seq(Peers) /\ n \in Nat
      /\ ps.lookup \in [IDs -> [peer : Peers, index : Nat] \cup {NoItem}]
  BY SMTT(60), PeerAssumption DEF PeerSets
<1>2. /\ new.list = Append(ps.list, p)
      /\ new.lookup = [ps.lookup EXCEPT ![ID[p]] = [peer |-> p, index |-> n + 1]]
  BY DEF Add
<1>3. new \in PeerSets
  <2>1. new.list \in Seq(Peers)
    BY SMTT(60), <1>1, <1>2
  <2>2. [peer |-> p, index |-> n + 1] \in [peer : Peers, index : Nat]
    BY SMTT(60), <1>1
  <2>3. new.lookup \in [IDs -> [peer : Peers, index : Nat] \cup {NoItem}]
    BY <1>1, <1>2, <2>2
  <2> QED BY <2>1, <2>3 DEF PeerSets, Add
<1>4. /\ Len(new.list) = n + 1 /\ new.list[n + 1] = p
      /\ \A i \in 1..n : new.list[i] = ps.list[i] /\ ps.list[i] \in Peers
  BY SMTT(60), <1>1, <1>2
<1>5. /\ new.lookup[ID[p]] = [peer |-> p, index |-> n + 1]
      /\ \A id \in IDs : id # ID[p] => new.lookup[id] = ps.lookup[id]
  BY <1>1, <1>2
<1>6. ASSUME NEW id \in IDs, Has(new, id)
      PROVE  /\ new.lookup[id].index \in 1..Len(new.list)
             /\ new.list[new.lookup[id].index] = new.lookup[id].peer
             /\ ID[new.lookup[id].peer] = id
  <2>1. CASE id = ID[p]
    BY SMTT(60), <2>1, <1>1, <1>4, <1>5
  <2>2. CASE id # ID[p]
    <3>1. new.lookup[id] = ps.lookup[id] /\ Has(ps, id)
      BY <2>2, <1>5, <1>6 DEF Has
    <3>2. ps.lookup[id].index \in 1..n
      BY <3>1 DEF Indexed
    <3>3. ps.list[ps.lookup[id].index] = ps.lookup[id].peer /\ ID[ps.lookup[id].peer] = id
      BY <3>1 DEF Indexed
    <3> QED BY SMTT(60), <3>1, <3>2, <3>3, <1>1, <1>4
  <2> QED BY <2>1, <2>2
<1>7. ASSUME NEW i \in 1..Len(new.list)
      PROVE  new.lookup[ID[new.list[i]]].index = i
  <2>1. CASE i = n + 1
    BY SMTT(60), <2>1, <1>4, <1>5
  <2>2. CASE i # n + 1
    <3>1. i \in 1..n
      BY SMTT(60), <2>2, <1>1, <1>4
    <3>2. new.list[i] = ps.list[i] /\ ps.list[i] \in Peers /\ ps.lookup[ID[ps.list[i]]].index = i
      BY <3>1, <1>4 DEF Indexed
    <3>3. ID[ps.list[i]] \in IDs
      BY <3>2, PeerAssumption
    <3>4. ID[ps.list[i]] # ID[p]
      BY SMTT(60), <3>1, <3>2, <1>1 DEF Has, NoItem
    <3> QED BY <3>2, <3>3, <3>4, <1>5
  <2> QED BY <2>1, <2>2
<1> QED BY <1>3, <1>6, <1>7 DEF Indexed

\* The first places of a list.
LEMMA FrontOfList ==
    ASSUME NEW S, NEW s \in Seq(S), NEW m \in Nat, m <= Len(s)
    PROVE  SubSeq(s, 1, m) \in Seq(S) /\ Len(SubSeq(s, 1, m)) = m
           /\ \A i \in 1..m : SubSeq(s, 1, m)[i] = s[i]
BY SMTT(60)

\* Overwriting one place of a list.
LEMMA Overwritten ==
    ASSUME NEW S, NEW s \in Seq(S), NEW i \in 1..Len(s), NEW e \in S
    PROVE  [s EXCEPT ![i] = e] \in Seq(S) /\ Len([s EXCEPT ![i] = e]) = Len(s)
           /\ \A j \in 1..Len(s) : [s EXCEPT ![i] = e][j] = IF j = i THEN e ELSE s[j]
BY SMTT(60)

\* Two places of a list in step with its lookup hold peers of different IDs.
LEMMA PlacesDiffer ==
    ASSUME NEW ps \in PeerSets, Indexed(ps), NEW id \in IDs, Has(ps, id),
           NEW i \in 1..Len(ps.list), i # ps.lookup[id].index
    PROVE  ps.list[i] \in Peers /\ ID[ps.list[i]] \in IDs \ {id}
<1>1. ps.list[i] \in Peers
  BY SMTT(60) DEF PeerSets
<1>2. ps.lookup[ID[ps.list[i]]].index = i
  BY DEF Indexed
<1> QED BY <1>1, <1>2, PeerAssumption

\* PeerSet.Remove keeps the list and the lookup in step, wherever the peer
\* stands in the list and whether or not it is there.
LEMMA RemoveIndexed ==
    ASSUME NEW ps \in PeerSets, Indexed(ps), NEW id \in IDs
    PROVE  Remove(ps, id) \in PeerSets /\ Indexed(Remove(ps, id))
<1>1. CASE ~Has(ps, id)
  BY <1>1 DEF Remove
<1>2. CASE Has(ps, id)
  <2> DEFINE n     == Len(ps.list)
             new   == Remove(ps, id)
             index == ps.lookup[id].index
             front == SubSeq(ps.list, 1, n - 1)
  <2>1. /\ ps.list \in Seq(Peers) /\ n \in Nat
        /\ ps.lookup \in [IDs -> [peer : Peers, index : Nat] \cup {NoItem}]
    BY SMTT(60) DEF PeerSets
  <2>2. index \in 1..n
    BY <1>2 DEF Indexed
  <2>3. front \in Seq(Peers) /\ Len(front) = n - 1 /\ \A i \in 1 .. n - 1 : front[i] = ps.list[i]
    <3>1. n - 1 \in Nat /\ n - 1 <= n
      BY SMTT(60), <2>1, <2>2
    <3> QED BY <2>1, <3>1, FrontOfList
  <2>4. CASE index = n
    <3>1. new.list = front /\ new.lookup = [ps.lookup EXCEPT ![id] = NoItem]
      BY <1>2, <2>4 DEF Remove, RemoveLast
    <3>2. new \in PeerSets
      BY <1>2, <2>1, <2>3, <2>4 DEF Remove, RemoveLast, PeerSets
    <3>3. new.lookup[id] = NoItem /\ \A x \in IDs \ {id} : new.lookup[x] = ps.lookup[x]
      BY <2>1, <3>1
    <3>4. ASSUME NEW x \in IDs, Has(new, x)
          PROVE  /\ new.lookup[x].index \in 1..Len(new.list)
                 /\ new.list[new.lookup[x].index] = new.lookup[x].peer
                 /\ ID[new.lookup[x].peer] = x
      <4>1. x # id /\ Has(ps, x) /\ new.lookup[x] = ps.lookup[x]
        BY SMTT(60), <3>3, <3>4 DEF Has
      <4>2. /\ ps.lookup[x].index \in 1..n
            /\ ps.list[ps.lookup[x].index] = ps.lookup[x].peer
            /\ ID[ps.lookup[x].peer] = x
        BY <4>1 DEF Indexed
      <4>3. ps.list[n] = ps.lookup[id].peer /\ ID[ps.lookup[id].peer] = id
        BY <1>2, <2>4 DEF Indexed
      <4>4. ps.lookup[x].index \in 1 .. n - 1
        BY SMTT(60), <4>1, <4>2, <4>3, <2>1
      <4> QED BY <4>1, <4>2, <4>4, <2>3, <3>1
    <3>5. ASSUME NEW i \in 1..Len(new.list)
          PROVE  new.lookup[ID[new.list[i]]].index = i
      <4>1. i \in 1 .. n - 1 /\ i \in 1..n /\ i # index /\ new.list[i] = ps.list[i]
        BY SMTT(60), <2>1, <2>3, <2>4, <3>1
      <4>2. ID[ps.list[i]] \in IDs \ {id}
        BY <1>2, <4>1, PlacesDiffer
      <4>3. ps.lookup[ID[ps.list[i]]].index = i
        BY <4>1 DEF Indexed
      <4> QED BY <4>1, <4>2, <4>3, <3>3
    <3> QED BY <3>2, <3>4, <3>5 DEF Indexed
  <2>5. CASE index # n
    <3> DEFINE last == ps.list[n]
    <3>1. n \in 1..n /\ index \in 1 .. n - 1
      BY SMTT(60), <2>1, <2>2, <2>5
    <3>2. last \in Peers /\ ID[last] \in IDs \ {id}
      BY <1>2, <2>5, <3>1, PlacesDiffer
    <3>3. ps.lookup[ID[last]].index = n
      BY <3>1 DEF Indexed
    <3>4. Has(ps, ID[last]) /\ ps.lookup[ID[last]].peer = last
      <4>1. Has(ps, ID[last])
        BY SMTT(60), <3>1, <3>3 DEF Has, NoItem
      <4> QED BY <4>1, <3>2, <3>3 DEF Indexed
    <3>5. /\ new.list = [front EXCEPT ![index] = last]
          /\ new.lookup = [ps.lookup EXCEPT ![ID[last]] = [peer |-> last, index |-> index], ![id] = NoItem]
      <4>1. new = RemoveInner(ps, id)
        BY <1>2, <2>5 DEF Remove
      <4> QED BY SMTT(60), <4>1, <3>2, <3>4, <2>1 DEF RemoveInner
    <3>6. /\ new.list \in Seq(Peers) /\ Len(new.list) = n - 1 /\ new.list[index] = last
          /\ \A i \in 1 .. n - 1 : i # index => new.list[i] = ps.list[i]
      <4>1. /\ [front EXCEPT ![index] = last] \in Seq(Peers)
            /\ Len([front EXCEPT ![index] = last]) = Len(front)
            /\ \A j \in 1 .. Len(front) :
                 [front EXCEPT ![index] = last][j] = IF j = index THEN last ELSE front[j]
        <5>1. index \in 1..Len(front)
          BY <2>3, <3>1
        <5>2. front \in Seq(Peers) /\ last \in Peers
          BY <2>3, <3>2
        <5> HIDE DEF front, index, last
        <5> QED BY SMTT(60), <5>1, <5>2, Overwritten
      <4> HIDE DEF front, index, last, new, n
      <4> QED BY <4>1, <2>3, <3>1, <3>5
    <3>7. /\ new.lookup[id] = NoItem /\ new.lookup[ID[last]] = [peer |-> last, index |-> index]
          /\ \A x \in IDs \ {id, ID[last]} : new.lookup[x] = ps.lookup[x]
      BY <2>1, <3>2, <3>5
    <3>8. new \in PeerSets
      <4>1. [peer |-> last, index |-> index] \in [peer : Peers, index : Nat]
        BY SMTT(60), <3>1, <3>2
      <4>2. new.lookup \in [IDs -> [peer : Peers, index : Nat] \cup {NoItem}]
        BY SMTT(60), <4>1, <2>1, <3>2, <3>5
      <4>3. new = [list |-> new.list, lookup |-> new.lookup]
        BY <1>2, <2>5 DEF Remove, RemoveInner
      <4> QED BY <4>2, <4>3, <3>6 DEF PeerSets
    <3>9. ASSUME NEW x \in IDs, Has(new, x)
          PROVE  /\ new.lookup[x].index \in 1..Len(new.list)
                 /\ new.list[new.lookup[x].index] = new.lookup[x].peer
                 /\ ID[new.lookup[x].peer] = x
      <4>1. CASE x = ID[last]
        BY SMTT(60), <4>1, <3>1, <3>6, <3>7
      <4>2. CASE x # ID[last]
        <5>1. x # id /\ new.lookup[x] = ps.lookup[x] /\ Has(ps, x)
          BY <4>2, <3>7, <3>9 DEF Has
        <5>2. /\ ps.lookup[x].index \in 1..n
              /\ ps.list[ps.lookup[x].index] = ps.lookup[x].peer
              /\ ID[ps.lookup[x].peer] = x
          BY <5>1 DEF Indexed
        <5>3. ps.list[index] = ps.lookup[id].peer /\ ID[ps.lookup[id].peer] = id
          BY <1>2 DEF Indexed
        <5>4. ps.lookup[x].index # index /\ ps.lookup[x].index # n
          BY <5>1, <5>2, <5>3, <4>2
        <5>5. ps.lookup[x].index \in 1 .. n - 1
          BY SMTT(60), <5>2, <5>4, <2>1
        <5> QED BY <5>1, <5>2, <5>4, <5>5, <3>6
      <4> QED BY <4>1, <4>2
    <3>10. ASSUME NEW i \in 1..Len(new.list)
           PROVE  new.lookup[ID[new.list[i]]].index = i
      <4>1. CASE i = index
        BY SMTT(60), <4>1, <3>6, <3>7
      <4>2. CASE i # index
        <5>1. i \in 1 .. n - 1 /\ i \in 1..n /\ i # n /\ new.list[i] = ps.list[i]
          BY SMTT(60), <4>2, <3>6, <2>1
        <5>2. ID[ps.list[i]] \in IDs \ {id}
          BY <1>2, <4>2, <5>1, PlacesDiffer
        <5>3. ps.lookup[ID[ps.list[i]]].index = i
          BY <5>1 DEF Indexed
        <5>4. ID[ps.list[i]] # ID[last]
          BY <5>1, <5>3, <3>3
        <5> QED BY <5>1, <5>2, <5>3, <5>4, <3>7
      <4> QED BY <4>1, <4>2
    <3> QED BY <3>8, <3>9, <3>10 DEF Indexed
  <2> QED BY <2>4, <2>5
<1> QED BY <1>1, <1>2

-----------------------------------------------------------------------------
\* What Switch's steps need to keep: the peer set is in step, and the rest of
\* OnStop's list is a list of peers, not empty while OnStop is at its head.
IInv ==
    /\ peers \in PeerSets /\ Indexed(peers)
    /\ toStop \in Seq(Peers) /\ (sw = "removing" => toStop # <<>>)

LEMMA InitIInv == Init => IInv
<1> SUFFICES ASSUME Init PROVE IInv
  OBVIOUS
<1>1. peers.list = <<>> /\ peers.lookup = [id \in IDs |-> NoItem] /\ toStop = <<>> /\ sw = "running"
  BY DEF Init, NewPeerSet
<1>2. peers \in PeerSets
  BY SMTT(60), <1>1 DEF Init, NewPeerSet, PeerSets
<1>3. Len(peers.list) = 0 /\ \A id \in IDs : ~Has(peers, id)
  BY <1>1 DEF Has
<1> QED BY SMTT(60), <1>1, <1>2, <1>3 DEF IInv, Indexed

LEMMA NextIInv == IInv /\ [Next]_vars => IInv'
<1> SUFFICES ASSUME IInv, [Next]_vars PROVE IInv'
  OBVIOUS
<1> DEFINE Same == UNCHANGED <<peers, toStop>> /\ (sw' = sw \/ sw' # "removing")
<1>1. Same => IInv'
  BY DEF IInv, Indexed, Has, PeerSets
<1>2. ASSUME NEW p \in Peers, peers' = Remove(peers, ID[p]), toStop' \in Seq(Peers),
             sw' = "removing" => toStop' # <<>>
      PROVE  IInv'
  <2>1. ID[p] \in IDs
    BY PeerAssumption
  <2>2. peers' \in PeerSets /\ Indexed(peers')
    BY <1>2, <2>1, RemoveIndexed DEF IInv
  <2> QED BY <1>2, <2>2 DEF IInv, Indexed, Has
<1>3. ASSUME NEW p \in Peers, PeerStep(p) PROVE IInv'
  <2>1. CASE NodeDials(p) \/ Accept(p) \/ HandshakeFails(p) \/ HandshakeDone(p) \/ StartPeer(p)
    BY <2>1, <1>1 DEF NodeDials, Accept, HandshakeFails, HandshakeDone, StartPeer
  <2>2. CASE AddToPeers(p)
    <3>1. CASE Has(peers, ID[p])
      BY <2>2, <3>1, <1>1 DEF AddToPeers
    <3>2. CASE ~Has(peers, ID[p])
      <4>1. peers' = Add(peers, p) /\ toStop' = toStop /\ sw' = sw
        BY <2>2, <3>2 DEF AddToPeers
      <4>2. peers' \in PeerSets /\ Indexed(peers')
        BY <3>2, <4>1, AddIndexed DEF IInv
      <4> QED BY <4>1, <4>2 DEF IInv, Indexed, Has
    <3> QED BY <3>1, <3>2
  <2>3. CASE ConnError(p) \/ AskToStop(p)
    BY <2>3, <1>1 DEF ConnError, AskToStop
  <2>4. ASSUME NEW k \in {"error", "asked"}, DropRemoves(p, k) PROVE IInv'
    BY <2>4, <1>2 DEF DropRemoves, IInv
  <2>5. ASSUME NEW k \in {"error", "asked"}, DropStops(p, k) PROVE IInv'
    BY <2>5, <1>1 DEF DropStops
  <2> QED BY <1>3, <2>1, <2>2, <2>3, <2>4, <2>5 DEF PeerStep
<1>4. ASSUME NEW r \in Routines, RoutineStep(r) PROVE IInv'
  BY <1>4, <1>1 DEF RoutineStep, ReconnectWakes, ReconnectLooks, ReconnectEnters,
                    ReconnectChecks, ReconnectFails, ReconnectDials
<1>5. ASSUME NEW id \in IDs, NodeDialFails(id) PROVE IInv'
  BY <1>5, <1>1 DEF NodeDialFails
<1>6. CASE StopSwitch \/ StopReactor
  BY <1>6, <1>1 DEF StopSwitch, StopReactor
<1>7. CASE StopNext
  BY <1>7 DEF StopNext, IInv, Indexed, Has
<1>8. CASE ListPeers
  <2>1. toStop' \in Seq(Peers) /\ peers' = peers /\ sw' = "listed"
    BY <1>8 DEF ListPeers, IInv, PeerSets
  <2> QED BY <2>1 DEF IInv, Indexed, Has
<1>9. CASE RemoveNext
  <2>1. Head(toStop) \in Peers /\ Tail(toStop) \in Seq(Peers)
    BY SMTT(60), <1>9 DEF RemoveNext, IInv
  <2> QED BY <1>9, <2>1, <1>2 DEF RemoveNext
<1>10. CASE UNCHANGED vars
  BY <1>10, <1>1 DEF vars
<1> QED BY <1>3, <1>4, <1>5, <1>6, <1>7, <1>8, <1>9, <1>10 DEF Next

\* Whatever the dialing, accepting, dropping, reconnecting and stopping
\* goroutines do, PeerSet's list and lookup stay in step: Add is only reached
\* for an ID that is not listed, and Remove is safe at any time.
THEOREM PeersStayIndexed == Spec => []PeersIndexed
<1>1. IInv => PeersIndexed
  BY DEF IInv, PeersIndexed
<1> QED BY <1>1, InitIInv, NextIInv, PTL DEF Spec

-----------------------------------------------------------------------------
\* The peer objects, as far as stopping them is concerned.
PeerRecords ==
    [add   : Adding \cup {"none", "added", "refused"}, by : Routines \cup {0},
     svc   : Services, mconn : Services, error : Drops, asked : Drops]

\* Someone may stop the peer: it is on its way into the list or there, its
\* connection runs, or a StopPeerForError is under way.
Exposed(p) ==
    \/ peer[p].add \in {"add", "added"} \/ peer[p].mconn = "running"
    \/ peer[p].error # "no" \/ peer[p].asked # "no"
    \/ Listed(peers, p)

\* As long as the switch runs, whoever is exposed was started.
StartedInv ==
    /\ peer \in [Peers -> PeerRecords]
    /\ sw = "running" => ~panicked /\ \A p \in Peers : Exposed(p) => peer[p].svc # "new"

\* Remove, whichever place the peer has, lists nobody anew.
LEMMA RemoveListsNobody ==
    ASSUME NEW ps \in PeerSets, Indexed(ps), NEW id \in IDs, NEW p \in Peers,
           Listed(Remove(ps, id), p)
    PROVE  Listed(ps, p)
<1>1. CASE ~Has(ps, id)
  BY <1>1 DEF Remove
<1>2. CASE Has(ps, id) /\ ps.lookup[id].index = Len(ps.list)
  <2>1. Remove(ps, id).lookup = [ps.lookup EXCEPT ![id] = NoItem]
    BY <1>2 DEF Remove, RemoveLast
  <2>2. ID[p] \in IDs /\ NoItem.peer # p
    BY PeerAssumption DEF NoItem
  <2> QED BY <2>1, <2>2 DEF Listed, PeerSets
<1>3. CASE Has(ps, id) /\ ps.lookup[id].index # Len(ps.list)
  <2> DEFINE last == ps.list[Len(ps.list)]
             index == ps.lookup[id].index
  <2>1. Remove(ps, id).lookup =
          [ps.lookup EXCEPT ![ID[last]] = [peer |-> @.peer, index |-> index], ![id] = NoItem]
    BY <1>3 DEF Remove, RemoveInner
  <2>2. ID[p] \in IDs /\ NoItem.peer # p
    BY SMTT(60), PeerAssumption DEF NoItem
  <2> HIDE DEF last, index
  <2>3. ps.lookup \in [IDs -> [peer : Peers, index : Nat] \cup {NoItem}]
    BY DEF PeerSets
  <2>4. CASE ID[p] = id
    BY <2>1, <2>2, <2>3, <2>4 DEF Listed
  <2>5. CASE ID[p] # id /\ ID[p] = ID[last]
    BY SMTT(60), <2>1, <2>2, <2>3, <2>5 DEF Listed
  <2>6. CASE ID[p] # id /\ ID[p] # ID[last]
    BY <2>1, <2>2, <2>3, <2>6 DEF Listed
  <2> QED BY <2>4, <2>5, <2>6
<1> QED BY <1>1, <1>2, <1>3

\* A step that changes the record of one peer, lists nobody else and does not
\* start the switch keeps StartedInv if that peer, where it is exposed, has
\* been started.
LEMMA OnePeerChanges ==
    ASSUME StartedInv, NEW p \in Peers, NEW rec \in PeerRecords,
           peer' = [peer EXCEPT ![p] = rec],
           sw' = "running" => sw = "running" /\ ~panicked',
           \A q \in Peers \ {p} : Listed(peers', q) => Listed(peers, q),
           sw' = "running" /\ Exposed(p)' => rec.svc # "new"
    PROVE  StartedInv'
<1>1. peer' \in [Peers -> PeerRecords]
  BY DEF StartedInv
<1>2. ASSUME sw' = "running", NEW q \in Peers, Exposed(q)' PROVE peer'[q].svc # "new"
  <2>1. CASE q = p
    BY <1>2, <2>1 DEF StartedInv
  <2>2. CASE q # p
    <3>1. peer'[q] = peer[q]
      BY <2>2 DEF StartedInv
    <3>2. Exposed(q)
      BY <1>2, <2>2, <3>1 DEF Exposed
    <3> QED BY <1>2, <3>1, <3>2 DEF StartedInv
  <2> QED BY <2>1, <2>2
<1> QED BY <1>1, <1>2 DEF StartedInv

LEMMA NextStarted == IInv /\ StartedInv /\ [Next]_vars => StartedInv'
<1> SUFFICES ASSUME IInv, StartedInv, [Next]_vars PROVE StartedInv'
  OBVIOUS
<1>1. UNCHANGED <<peers, peer, sw, panicked>> => StartedInv'
  BY SMTT(60) DEF StartedInv, Exposed, Listed
<1>2. ASSUME NEW p \in Peers, PeerStep(p) PROVE StartedInv'
  <2> DEFINE old == peer[p]
  <2>0. /\ old \in PeerRecords
        /\ sw = "running" => ~panicked
        /\ sw = "running" /\ Exposed(p) => old.svc # "new"
    BY DEF StartedInv
  <2>1. CASE NodeDials(p) \/ Accept(p) \/ HandshakeFails(p) \/ HandshakeDone(p)
    <3>1. PICK a \in {"handshake", "checked", "refused"}, by \in {0, old.by} :
            /\ peer' = [peer EXCEPT ![p] = [old EXCEPT !.add = a, !.by = by]]
            /\ UNCHANGED <<peers, sw, panicked>>
      BY <2>0, <2>1 DEF NodeDials, Accept, HandshakeFails, HandshakeDone, StartedInv, PeerRecords
    <3> DEFINE rec == [old EXCEPT !.add = a, !.by = by]
    <3>2. rec \in PeerRecords /\ rec.add = a /\ rec.svc = old.svc /\ rec.mconn = old.mconn
          /\ rec.error = old.error /\ rec.asked = old.asked
      BY <2>0 DEF PeerRecords, Adding
    <3>3. Exposed(p)' => Exposed(p)
      BY <3>1, <3>2 DEF Exposed, StartedInv, Listed
    <3>4. \A q \in Peers : Listed(peers', q) => Listed(peers, q)
      BY <3>1
    <3> HIDE DEF rec
    <3> QED BY <2>0, <3>1, <3>2, <3>3, <3>4, OnePeerChanges DEF rec
  <2>2. CASE StartPeer(p)
    <3>1. CASE sw # "running"
      <4>1. peer' = [peer EXCEPT ![p] = [old EXCEPT !.add = "add"]] /\ UNCHANGED <<peers, sw, panicked>>
        BY <2>2, <3>1 DEF StartPeer
      <4>2. [old EXCEPT !.add = "add"] \in PeerRecords
        BY <2>0 DEF PeerRecords, Adding
      <4> QED BY <3>1, <4>1, <4>2 DEF StartedInv
    <3>2. CASE sw = "running"
      <4> DEFINE rec == [old EXCEPT !.add = "add", !.svc = "running", !.mconn = "running"]
      <4>1. peer' = [peer EXCEPT ![p] = rec] /\ UNCHANGED <<peers, sw, panicked>>
        BY <2>2, <3>2 DEF StartPeer
      <4>2. rec \in PeerRecords /\ rec.svc = "running"
        BY <2>0 DEF PeerRecords, Adding, Services
      <4> HIDE DEF rec
      <4> QED BY <2>0, <3>2, <4>1, <4>2, OnePeerChanges
    <3> QED BY <3>1, <3>2
  <2>3. CASE AddToPeers(p)
    <3>1. PICK a \in {"refused", "added"} :
            peer' = [peer EXCEPT ![p] = [old EXCEPT !.add = a, !.by = 0]] /\ old.add = "add"
            /\ (peers' = peers \/ peers' = Add(peers, p)) /\ UNCHANGED <<sw, panicked>>
      BY <2>3 DEF AddToPeers, StartedInv, PeerRecords
    <3> DEFINE rec == [old EXCEPT !.add = a, !.by = 0]
    <3>2. rec \in PeerRecords /\ rec.svc = old.svc
      BY <2>0 DEF PeerRecords, Adding
    <3>3. Exposed(p)
      BY <3>1 DEF Exposed
    <3>4. ASSUME NEW q \in Peers \ {p}, Listed(peers', q) PROVE Listed(peers, q)
      BY SMTT(60), <3>1, <3>4, PeerAssumption DEF Listed, Add, IInv, PeerSets
    <3> HIDE DEF rec
    <3> QED BY <2>0, <3>1, <3>2, <3>3, <3>4, OnePeerChanges DEF rec
  <2>4. CASE ConnError(p)
    <3> DEFINE rec == [old EXCEPT !.mconn = "stopped", !.error = "remove"]
    <3>1. peer' = [peer EXCEPT ![p] = rec] /\ old.mconn = "running" /\ UNCHANGED <<peers, sw, panicked>>
      BY <2>4 DEF ConnError, StartedInv, PeerRecords
    <3>2. rec \in PeerRecords /\ rec.svc = old.svc
      BY <2>0 DEF PeerRecords, Services, Drops
    <3>3. Exposed(p)
      BY <3>1 DEF Exposed
    <3> HIDE DEF rec
    <3> QED BY <2>0, <3>1, <3>2, <3>3, OnePeerChanges
  <2>5. CASE AskToStop(p)
    <3> DEFINE rec == [old EXCEPT !.asked = "remove"]
    <3>1. peer' = [peer EXCEPT ![p] = rec] /\ UNCHANGED <<peers, sw, panicked>>
      BY <2>5 DEF AskToStop, StartedInv, PeerRecords
    <3>2. rec \in PeerRecords /\ rec.svc = old.svc
      BY <2>0 DEF PeerRecords, Drops
    <3>3. Exposed(p)
      BY <2>5 DEF AskToStop, Exposed
    <3> HIDE DEF rec
    <3> QED BY <2>0, <3>1, <3>2, <3>3, OnePeerChanges
  <2>6. ASSUME NEW k \in {"error", "asked"}, DropRemoves(p, k) PROVE StartedInv'
    <3>1. PICK rec \in {[old EXCEPT !.error = "stop"], [old EXCEPT !.asked = "stop"]} :
            peer' = [peer EXCEPT ![p] = rec]
      BY <2>6 DEF DropRemoves, StartedInv, PeerRecords
    <3>2. rec \in PeerRecords /\ rec.svc = old.svc
      BY <2>0 DEF PeerRecords, Drops
    <3>3. Exposed(p)
      BY <2>6 DEF DropRemoves, Exposed
    <3>4. peers' = Remove(peers, ID[p]) /\ UNCHANGED <<sw, panicked>> /\ ID[p] \in IDs
      BY <2>6, PeerAssumption DEF DropRemoves
    <3>5. ASSUME NEW q \in Peers, Listed(peers', q) PROVE Listed(peers, q)
      BY <3>4, <3>5, RemoveListsNobody DEF IInv
    <3> QED BY <2>0, <3>1, <3>2, <3>3, <3>4, <3>5, OnePeerChanges
  <2>7. ASSUME NEW k \in {"error", "asked"}, DropStops(p, k) PROVE StartedInv'
    <3>1. PICK rec \in {[old EXCEPT !.error = "done", !.svc = "stopped", !.mconn = "stopped"],
                        [old EXCEPT !.asked = "done", !.svc = "stopped", !.mconn = "stopped"]} :
            peer' = [peer EXCEPT ![p] = rec]
      BY <2>7 DEF DropStops, Stopped, StartedInv, PeerRecords
    <3>2. rec \in PeerRecords /\ rec.svc = "stopped"
      BY <2>0 DEF PeerRecords, Drops, Services
    <3>3. Exposed(p)
      BY <2>7 DEF DropStops, Exposed
    <3>4. UNCHANGED <<peers, sw>> /\ (old.svc # "new" => panicked' = panicked)
      BY <2>7 DEF DropStops, StopPeer
    <3>5. sw' = "running" => sw = "running" /\ ~panicked'
      BY <2>0, <3>3, <3>4
    <3>6. \A q \in Peers : Listed(peers', q) => Listed(peers, q)
      BY <3>4
    <3> QED BY <3>1, <3>2, <3>5, <3>6, OnePeerChanges
  <2> QED BY <1>2, <2>1, <2>2, <2>3, <2>4, <2>5, <2>6, <2>7 DEF PeerStep
<1>3. ASSUME NEW r \in Routines, NEW p \in Peers, ReconnectDials(r, p) PROVE StartedInv'
  <2> DEFINE rec == [peer[p] EXCEPT !.add = "handshake", !.by = r]
  <2>1. peer' = [peer EXCEPT ![p] = rec] /\ UNCHANGED <<peers, sw, panicked>>
    BY <1>3 DEF ReconnectDials, StartedInv, PeerRecords
  <2>2. rec \in PeerRecords /\ rec.add = "handshake" /\ rec.svc = peer[p].svc
        /\ rec.mconn = peer[p].mconn /\ rec.error = peer[p].error /\ rec.asked = peer[p].asked
    BY DEF PeerRecords, Adding, StartedInv
  <2> HIDE DEF rec
  <2>3. Exposed(p)' => Exposed(p)
    BY <2>1, <2>2 DEF Exposed, StartedInv, Listed
  <2> QED BY <2>1, <2>2, <2>3, OnePeerChanges DEF StartedInv
<1>4. ASSUME NEW r \in Routines,
             ReconnectWakes(r) \/ ReconnectLooks(r) \/ ReconnectEnters(r)
               \/ ReconnectChecks(r) \/ ReconnectFails(r)
      PROVE  StartedInv'
  BY <1>1, <1>4 DEF ReconnectWakes, ReconnectLooks, ReconnectEnters, ReconnectChecks, ReconnectFails
<1>5. ASSUME NEW id \in IDs, NodeDialFails(id) PROVE StartedInv'
  BY <1>1, <1>5 DEF NodeDialFails
<1>6. CASE StopSwitch \/ ListPeers \/ RemoveNext \/ StopReactor
  BY <1>6 DEF StopSwitch, ListPeers, RemoveNext, StopReactor, StartedInv
<1>7. CASE StopNext
  <2>1. Head(toStop) \in Peers /\ sw' # "running"
    BY SMTT(60), <1>7 DEF StopNext, IInv
  <2> DEFINE rec == [peer[Head(toStop)] EXCEPT !.svc = "stopped", !.mconn = "stopped"]
  <2>2. peer' = [peer EXCEPT ![Head(toStop)] = rec]
    BY <1>7, <2>1 DEF StopNext, Stopped, StartedInv, PeerRecords
  <2>3. rec \in PeerRecords
    BY <2>1 DEF StartedInv, PeerRecords, Services
  <2> QED BY <2>1, <2>2, <2>3 DEF StartedInv
<1>8. CASE UNCHANGED vars
  BY <1>1, <1>8 DEF vars
<1> QED BY <1>2, <1>3, <1>4, <1>5, <1>6, <1>7, <1>8 DEF Next, RoutineStep

LEMMA InitStarted == Init => StartedInv
<1> SUFFICES ASSUME Init PROVE StartedInv
  BY SMTT(60)
<1>1. peer \in [Peers -> PeerRecords]
  BY DEF Init, NewPeer, PeerRecords, Services, Drops
<1>2. \A p \in Peers : ~Listed(peers, p)
  BY PeerAssumption DEF Init, NewPeerSet, Listed, NoItem
<1>3. \A p \in Peers : ~Exposed(p)
  BY <1>2 DEF Init, NewPeer, Exposed
<1> QED BY <1>1, <1>3 DEF Init, StartedInv

\* addPeer's order, start before list, makes a listed peer safe to stop at any
\* moment of a running switch, whatever handshakes, errors, reconnections and
\* requests to stop overlap.
THEOREM ListedPeersStarted == Spec => []ListedPeersSafeToStop
<1>1. StartedInv => ListedPeersSafeToStop
  BY DEF StartedInv, ListedPeersSafeToStop, Exposed
<1> QED BY <1>1, InitIInv, NextIInv, InitStarted, NextStarted, PTL DEF Spec

-----------------------------------------------------------------------------
(* One connection to a node at a time.                                       *)

\* The connection is on its way into the list, listed, running, or about to
\* take its ID off the list.
Active(p) ==
    \/ peer[p].add \in {"checked", "add"} \/ peer[p].mconn = "running"
    \/ "remove" \in {peer[p].error, peer[p].asked} \/ Listed(peers, p)

\* Nobody has started the peer, listed it or asked to stop it.
Untouched(p) ==
    /\ peer[p].svc = "new" /\ peer[p].mconn = "new"
    /\ peer[p].error = "no" /\ peer[p].asked = "no" /\ ~Listed(peers, p)

\* What holds of one peer of a running switch.
Fit(p) ==
    /\ \/ peer[p].add \in {"none", "handshake", "checked"}
       \/ peer[p].add = "refused" /\ ID[p] \notin rivals
       => Untouched(p)
    /\ peer[p].add = "add" => ~Listed(peers, p)
    /\ peer[p].error # "no" => peer[p].mconn = "stopped"
    /\ ID[p] \notin rivals /\ peer[p].add = "added" /\ peer[p].mconn = "running"
         /\ peer[p].asked # "stop"
       => Listed(peers, p)

\* No two connections with an ID were active together, or the ID is in rivals.
Alone ==
    \A p, q \in Peers :
      p # q /\ ID[p] = ID[q] /\ Active(p) /\ Active(q) => ID[p] \in rivals

AloneInv == sw = "running" => Alone /\ \A p \in Peers : Fit(p)

\* Remove leaves every other ID listed.
LEMMA RemoveKeepsOthers ==
    ASSUME NEW ps \in PeerSets, Indexed(ps), NEW id \in IDs, NEW p \in Peers,
           ID[p] # id, Listed(ps, p)
    PROVE  Listed(Remove(ps, id), p)
<1>0. ID[p] \in IDs
  BY PeerAssumption
<1>1. CASE ~Has(ps, id)
  BY <1>1 DEF Remove
<1>2. CASE Has(ps, id) /\ ps.lookup[id].index = Len(ps.list)
  <2>1. Remove(ps, id).lookup = [ps.lookup EXCEPT ![id] = NoItem]
    BY <1>2 DEF Remove, RemoveLast
  <2> QED BY <1>0, <2>1 DEF Listed, PeerSets
<1>3. CASE Has(ps, id) /\ ps.lookup[id].index # Len(ps.list)
  <2> DEFINE last == ps.list[Len(ps.list)]
             index == ps.lookup[id].index
  <2>1. Remove(ps, id).lookup =
          [ps.lookup EXCEPT ![ID[last]] = [peer |-> @.peer, index |-> index], ![id] = NoItem]
    BY <1>3 DEF Remove, RemoveInner
  <2> HIDE DEF last, index
  <2>2. ps.lookup \in [IDs -> [peer : Peers, index : Nat] \cup {NoItem}]
    BY DEF PeerSets
  <2>3. CASE ID[p] = ID[last]
    BY SMTT(60), <1>0, <2>1, <2>2, <2>3 DEF Listed
  <2>4. CASE ID[p] # ID[last]
    BY <1>0, <2>1, <2>2, <2>4 DEF Listed
  <2> QED BY <2>3, <2>4
<1> QED BY <1>1, <1>2, <1>3

\* An ID is found exactly when a peer with it is listed.
LEMMA HasListed ==
    ASSUME NEW ps \in PeerSets, Indexed(ps), NEW id \in IDs
    PROVE  Has(ps, id) <=> \E p \in Peers : ID[p] = id /\ Listed(ps, p)
<1>1. ps.lookup[id] \in [peer : Peers, index : Nat] \cup {NoItem}
  BY DEF PeerSets
<1>2. ASSUME Has(ps, id) PROVE \E p \in Peers : ID[p] = id /\ Listed(ps, p)
  <2>1. ps.lookup[id].peer \in Peers
    BY <1>1, <1>2 DEF Has
  <2>2. ID[ps.lookup[id].peer] = id
    BY <1>2 DEF Indexed
  <2> QED BY <2>1, <2>2 DEF Listed
<1>3. ASSUME NEW p \in Peers, ID[p] = id, Listed(ps, p) PROVE Has(ps, id)
  BY SMTT(60), <1>3, PeerAssumption DEF Has, Listed, NoItem
<1> QED BY <1>2, <1>3

\* Add lists the peer, and no other anew.
LEMMA AddLists ==
    ASSUME NEW ps \in PeerSets, Indexed(ps), NEW p \in Peers, ~Has(ps, ID[p])
    PROVE  /\ Listed(Add(ps, p), p)
           /\ \A q \in Peers \ {p} : Listed(Add(ps, p), q) <=> Listed(ps, q)
<1>1. /\ ID[p] \in IDs /\ ps.lookup \in [IDs -> [peer : Peers, index : Nat] \cup {NoItem}]
      /\ Add(ps, p).lookup = [ps.lookup EXCEPT ![ID[p]] = [peer |-> p, index |-> Len(ps.list) + 1]]
  BY PeerAssumption DEF PeerSets, Add
<1>2. ASSUME NEW q \in Peers \ {p} PROVE Listed(Add(ps, p), q) <=> Listed(ps, q)
  <2>1. ID[q] \in IDs /\ (ID[q] = ID[p] => ~Listed(ps, q))
    BY HasListed, PeerAssumption
  <2> QED BY SMTT(60), <1>1, <2>1 DEF Listed
<1> QED BY SMTT(60), <1>1, <1>2 DEF Listed

\* What a step on one connection may do to the list, and what it leaves.
OneStep(p) ==
    /\ rivals \subseteq rivals'
    /\ \A q \in Peers \ {p} :
         /\ Listed(peers', q) => Listed(peers, q)
         /\ Listed(peers, q) => Listed(peers', q) \/ (ID[q] = ID[p] /\ Active(p))
    /\ \/ Active(p)' => Active(p)
       \/ ID[p] \in rivals'
       \/ \A q \in Peers \ {p} : ID[q] = ID[p] => ~Active(q)
    /\ Fit(p)'

\* Such a step keeps the connection the only one of its ID.
LEMMA OneConnection ==
    ASSUME StartedInv, AloneInv, sw = "running", NEW p \in Peers, NEW rec \in PeerRecords,
           peer' = [peer EXCEPT ![p] = rec], OneStep(p)
    PROVE  AloneInv'
<1>0. /\ rivals \subseteq rivals'
      /\ \A q \in Peers \ {p} :
           /\ Listed(peers', q) => Listed(peers, q)
           /\ Listed(peers, q) => Listed(peers', q) \/ (ID[q] = ID[p] /\ Active(p))
      /\ \/ Active(p)' => Active(p)
         \/ ID[p] \in rivals'
         \/ \A q \in Peers \ {p} : ID[q] = ID[p] => ~Active(q)
      /\ Fit(p)'
  BY DEF OneStep
<1>1. /\ Alone /\ \A q \in Peers : Fit(q)
      /\ \A q \in Peers \ {p} : peer'[q] = peer[q]
  BY DEF AloneInv, StartedInv
<1>2. ASSUME NEW q \in Peers \ {p}, Active(q)' PROVE Active(q)
  BY <1>0, <1>1, <1>2 DEF Active
<1>3. ASSUME NEW q \in Peers \ {p}, ID[p] = ID[q], Active(p)', Active(q)'
      PROVE  ID[p] \in rivals'
  BY <1>0, <1>1, <1>2, <1>3 DEF Alone
<1>4. Alone'
  <2> SUFFICES ASSUME NEW x \in Peers, NEW y \in Peers, x # y, ID[x] = ID[y],
                      Active(x)', Active(y)'
               PROVE  ID[x] \in rivals'
    BY DEF Alone
  <2>1. CASE x = p
    BY <1>3, <2>1
  <2>2. CASE y = p
    BY <1>3, <2>2
  <2>3. CASE x # p /\ y # p
    BY <1>0, <1>1, <1>2, <2>3 DEF Alone
  <2> QED BY <2>1, <2>2, <2>3
<1>5. ASSUME NEW q \in Peers \ {p} PROVE Fit(q)'
  <2>1. Untouched(q) => Untouched(q)'
    BY <1>0, <1>1 DEF Untouched
  <2>2. ASSUME ID[q] \notin rivals, peer[q].mconn = "running", Listed(peers, q)
        PROVE  Listed(peers', q)
    BY <1>0, <1>1, <2>2 DEF Alone, Active
  <2> QED BY <1>0, <1>1, <2>1, <2>2 DEF Fit
<1> QED BY <1>0, <1>4, <1>5 DEF AloneInv

\* The peer of a connection that addPeer has not started, or refused before
\* that.
LEMMA Shelved ==
    ASSUME StartedInv, AloneInv, NEW p \in Peers, NEW rec \in PeerRecords,
           peer' = [peer EXCEPT ![p] = rec], UNCHANGED <<peers, sw, rivals>>,
           peer[p].add \in {"none", "handshake"}, rec.add \in {"handshake", "refused"},
           rec.svc = peer[p].svc, rec.mconn = peer[p].mconn,
           rec.error = peer[p].error, rec.asked = peer[p].asked
    PROVE  AloneInv'
<1> SUFFICES ASSUME sw = "running" PROVE AloneInv'
  BY DEF AloneInv
<1>1. peer'[p] = rec
  BY DEF StartedInv
<1>2. Untouched(p)
  BY DEF AloneInv, Fit
<1>3. Untouched(p)'
  BY <1>1, <1>2 DEF Untouched, Listed
<1>4. Fit(p)'
  BY <1>1, <1>3 DEF Fit, Untouched
<1>5. ~Active(p)'
  BY <1>1, <1>3 DEF Active, Untouched
<1>6. OneStep(p)
  BY <1>4, <1>5 DEF OneStep
<1> QED BY <1>4, <1>5, <1>6, OneConnection

LEMMA NextAlone == IInv /\ StartedInv /\ AloneInv /\ [Next]_vars => AloneInv'
<1> SUFFICES ASSUME IInv, StartedInv, AloneInv, [Next]_vars PROVE AloneInv'
  OBVIOUS
<1>0. peers \in PeerSets /\ Indexed(peers) /\ ID \in [Peers -> IDs]
  BY PeerAssumption DEF IInv
<1>1. UNCHANGED <<peers, peer, sw, rivals>> => AloneInv'
  BY SMTT(60) DEF AloneInv, Alone, Fit, Active, Untouched, Listed
<1>2. ASSUME NEW p \in Peers, PeerStep(p) PROVE AloneInv'
  <2> DEFINE old == peer[p]
  <2>0. old \in PeerRecords /\ sw' = sw
    BY <1>2 DEF StartedInv, PeerStep, NodeDials, Accept, HandshakeFails, HandshakeDone,
                StartPeer, AddToPeers, ConnError, AskToStop, DropRemoves, DropStops
  <2> SUFFICES ASSUME sw = "running" PROVE AloneInv'
    BY <2>0 DEF AloneInv
  <2>1. Fit(p) /\ Alone
    BY DEF AloneInv
  <2>2. CASE \/ NodeDials(p) \/ Accept(p) \/ HandshakeFails(p)
             \/ HandshakeDone(p) /\ Has(peers, ID[p])
    <3>1. PICK a \in {"handshake", "refused"}, by \in {0, old.by} :
            /\ peer' = [peer EXCEPT ![p] = [old EXCEPT !.add = a, !.by = by]]
            /\ UNCHANGED <<peers, sw, rivals>> /\ old.add \in {"none", "handshake"}
      BY <2>0, <2>2 DEF NodeDials, Accept, HandshakeFails, HandshakeDone, StartedInv, PeerRecords
    <3> DEFINE rec == [old EXCEPT !.add = a, !.by = by]
    <3>2. rec \in PeerRecords /\ rec.add = a /\ rec.svc = old.svc /\ rec.mconn = old.mconn
          /\ rec.error = old.error /\ rec.asked = old.asked
      BY <2>0 DEF PeerRecords, Adding
    <3> HIDE DEF rec
    <3> QED BY <3>1, <3>2, Shelved DEF rec
  <2>3. CASE HandshakeDone(p) /\ ~Has(peers, ID[p])
    <3> DEFINE rec == [old EXCEPT !.add = "checked"]
    <3>1. /\ peer' = [peer EXCEPT ![p] = rec] /\ UNCHANGED <<peers, sw>> /\ old.add = "handshake"
          /\ rivals' = IF HasRival(p) THEN rivals \cup {ID[p]} ELSE rivals
      BY <2>3 DEF HandshakeDone, StartedInv, PeerRecords
    <3>2. rec \in PeerRecords /\ rec.add = "checked" /\ rec.svc = old.svc /\ rec.mconn = old.mconn
          /\ rec.error = old.error /\ rec.asked = old.asked
      BY <2>0 DEF PeerRecords, Adding
    <3> HIDE DEF rec
    <3>3. peer'[p] = rec
      BY <3>1 DEF StartedInv
    <3>4. Fit(p)'
      BY <2>1, <3>1, <3>2, <3>3 DEF Fit, Untouched, Listed
    <3>5. ASSUME NEW q \in Peers \ {p}, ID[q] = ID[p], Active(q) PROVE HasRival(p)
      <4>1. ~Listed(peers, q)
        BY <1>0, <2>3, <3>5, HasListed
      <4> QED BY <3>5, <4>1 DEF Active, HasRival
    <3>6. ID[p] \in rivals' \/ \A q \in Peers \ {p} : ID[q] = ID[p] => ~Active(q)
      BY <3>1, <3>5
    <3>7. rivals \subseteq rivals' /\ peers' = peers
      BY <3>1
    <3>8. OneStep(p)
      BY <3>1, <3>2, <3>4, <3>6, <3>7 DEF OneStep
    <3> QED BY <3>1, <3>2, <3>4, <3>6, <3>7, <3>8, OneConnection
  <2>4. CASE StartPeer(p)
    <3> DEFINE rec == [old EXCEPT !.add = "add", !.svc = "running", !.mconn = "running"]
    <3>1. peer' = [peer EXCEPT ![p] = rec] /\ UNCHANGED <<peers, sw, rivals>> /\ old.add = "checked"
      BY <2>4 DEF StartPeer
    <3>2. rec \in PeerRecords /\ rec.add = "add" /\ rec.mconn = "running"
          /\ rec.error = old.error /\ rec.asked = old.asked
      BY <2>0 DEF PeerRecords, Adding, Services
    <3> HIDE DEF rec
    <3>3. peer'[p] = rec
      BY <3>1 DEF StartedInv
    <3>4. Fit(p)'
      BY <2>1, <3>1, <3>2, <3>3 DEF Fit, Untouched, Listed
    <3>5. Active(p) /\ peers' = peers /\ rivals' = rivals
      BY <3>1 DEF Active
    <3>6. OneStep(p)
      BY <3>1, <3>2, <3>4, <3>5 DEF OneStep
    <3> QED BY <3>1, <3>2, <3>4, <3>5, <3>6, OneConnection
  <2>5. CASE AddToPeers(p) /\ Has(peers, ID[p])
    <3> DEFINE rec == [old EXCEPT !.add = "refused", !.by = 0]
    <3>1. peer' = [peer EXCEPT ![p] = rec] /\ UNCHANGED <<peers, sw, rivals>> /\ old.add = "add"
      BY <2>5 DEF AddToPeers, StartedInv, PeerRecords
    <3>2. rec \in PeerRecords /\ rec.add = "refused" /\ rec.mconn = old.mconn
          /\ rec.error = old.error /\ rec.asked = old.asked
      BY <2>0 DEF PeerRecords, Adding
    <3> HIDE DEF rec
    <3>3. peer'[p] = rec
      BY <3>1 DEF StartedInv
    <3>4. PICK q \in Peers : ID[q] = ID[p] /\ Listed(peers, q)
      BY <1>0, <2>5, HasListed
    <3>5. q # p /\ Active(p) /\ Active(q)
      BY <2>1, <3>1, <3>4 DEF Fit, Active
    <3>6. ID[p] \in rivals /\ peers' = peers /\ rivals' = rivals
      BY <2>1, <3>1, <3>4, <3>5 DEF Alone
    <3>7. Fit(p)'
      BY <2>1, <3>2, <3>3, <3>6 DEF Fit
    <3>8. OneStep(p)
      BY <3>1, <3>2, <3>5, <3>6, <3>7 DEF OneStep
    <3> QED BY <3>1, <3>2, <3>5, <3>6, <3>7, <3>8, OneConnection
  <2>6. CASE AddToPeers(p) /\ ~Has(peers, ID[p])
    <3> DEFINE rec == [old EXCEPT !.add = "added", !.by = 0]
    <3>1. /\ peer' = [peer EXCEPT ![p] = rec] /\ peers' = Add(peers, p)
          /\ UNCHANGED <<sw, rivals>> /\ old.add = "add"
      BY <2>6 DEF AddToPeers, StartedInv, PeerRecords
    <3>2. rec \in PeerRecords /\ rec.add = "added" /\ rec.mconn = old.mconn
          /\ rec.error = old.error /\ rec.asked = old.asked
      BY <2>0 DEF PeerRecords, Adding
    <3> HIDE DEF rec
    <3>3. peer'[p] = rec
      BY <3>1 DEF StartedInv
    <3>4. Listed(peers', p) /\ \A q \in Peers \ {p} : Listed(peers', q) <=> Listed(peers, q)
      BY <1>0, <2>6, <3>1, AddLists
    <3>5. Fit(p)'
      BY <2>1, <3>2, <3>3, <3>4 DEF Fit
    <3>6. Active(p) /\ rivals' = rivals
      BY <3>1 DEF Active
    <3>7. OneStep(p)
      BY <3>1, <3>2, <3>4, <3>5, <3>6 DEF OneStep
    <3> QED BY <3>1, <3>2, <3>4, <3>5, <3>6, <3>7, OneConnection
  <2>7. CASE ConnError(p) \/ AskToStop(p)
    <3>1. PICK rec \in {[old EXCEPT !.mconn = "stopped", !.error = "remove"], [old EXCEPT !.asked = "remove"]} :
            /\ peer' = [peer EXCEPT ![p] = rec] /\ UNCHANGED <<peers, sw, rivals>>
            /\ rec.error = old.error \/ rec.mconn = "stopped"
            /\ rec.asked # "stop"  \/ rec.mconn # "running"
            /\ rec.mconn = "running" => old.mconn = "running" /\ old.asked # "stop"
      BY <2>0, <2>7 DEF ConnError, AskToStop, StartedInv, PeerRecords
    <3>2. rec \in PeerRecords /\ rec.add = old.add
      BY <2>0 DEF PeerRecords, Services, Drops
    <3>3. peer'[p] = rec
      BY <3>1 DEF StartedInv
    <3>4. Active(p) /\ ~Untouched(p)
      BY <2>7 DEF ConnError, AskToStop, Active, Untouched
    <3>5. rec.error # "no" => rec.mconn = "stopped"
      BY <2>1, <3>1, <2>0 DEF Fit, PeerRecords
    <3>6. Fit(p)'
      BY SMTT(60), <2>1, <3>1, <3>2, <3>3, <3>4, <3>5 DEF Fit, Listed
    <3>7. peers' = peers /\ rivals' = rivals
      BY <3>1
    <3>8. OneStep(p)
      BY <3>1, <3>2, <3>4, <3>6, <3>7 DEF OneStep
    <3> QED BY <3>1, <3>2, <3>4, <3>6, <3>7, <3>8, OneConnection
  <2>8. ASSUME NEW k \in {"error", "asked"}, DropRemoves(p, k) PROVE AloneInv'
    <3>1. PICK rec \in {[old EXCEPT !.error = "stop"], [old EXCEPT !.asked = "stop"]} :
            /\ peer' = [peer EXCEPT ![p] = rec] /\ peers' = Remove(peers, ID[p])
            /\ UNCHANGED <<sw, rivals>>
            /\ rec.mconn = old.mconn /\ rec.add = old.add
            /\ \/ rec.error = old.error /\ rec.asked = "stop" /\ old.asked = "remove"
               \/ old.error = "remove" /\ rec.asked = old.asked
      BY <2>0, <2>8 DEF DropRemoves, StartedInv, PeerRecords
    <3>2. rec \in PeerRecords
      BY <2>0 DEF PeerRecords, Drops
    <3>3. peer'[p] = rec
      BY <3>1 DEF StartedInv
    <3>4. Active(p) /\ ~Untouched(p)
      BY <3>1 DEF Active, Untouched
    <3>5. ASSUME NEW q \in Peers, Listed(peers', q) PROVE Listed(peers, q)
      BY <1>0, <3>1, <3>5, RemoveListsNobody
    <3>6. ASSUME NEW q \in Peers \ {p}, Listed(peers, q)
          PROVE  Listed(peers', q) \/ ID[q] = ID[p]
      BY <1>0, <3>1, <3>6, RemoveKeepsOthers
    <3>7. Fit(p)'
      BY <2>1, <3>1, <3>3, <3>4, <3>5 DEF Fit
    <3>8. rivals' = rivals
      BY <3>1
    <3>9. OneStep(p)
      BY <3>1, <3>2, <3>4, <3>5, <3>6, <3>7, <3>8 DEF OneStep
    <3> QED BY <3>1, <3>2, <3>4, <3>5, <3>6, <3>7, <3>8, <3>9, OneConnection
  <2>9. ASSUME NEW k \in {"error", "asked"}, DropStops(p, k) PROVE AloneInv'
    <3>1. PICK rec \in {[old EXCEPT !.error = "done", !.svc = "stopped", !.mconn = "stopped"],
                        [old EXCEPT !.asked = "done", !.svc = "stopped", !.mconn = "stopped"]} :
            /\ peer' = [peer EXCEPT ![p] = rec] /\ UNCHANGED <<peers, sw, rivals>>
            /\ rec.mconn = "stopped" /\ rec.add = old.add
            /\ "remove" \in {rec.error, rec.asked} => "remove" \in {old.error, old.asked}
            /\ "stop" \in {old.error, old.asked}
      BY <2>0, <2>9 DEF DropStops, Stopped, StartedInv, PeerRecords
    <3>2. rec \in PeerRecords
      BY <2>0 DEF PeerRecords, Drops, Services
    <3>3. peer'[p] = rec
      BY <3>1 DEF StartedInv
    <3>4. ~Untouched(p)
      BY <3>1 DEF Untouched
    <3>5. Active(p)' => Active(p)
      BY <3>1, <3>3 DEF Active, Listed
    <3>6. Fit(p)'
      BY SMTT(60), <2>1, <3>1, <3>3, <3>4 DEF Fit, Listed
    <3>7. peers' = peers /\ rivals' = rivals
      BY <3>1
    <3>8. OneStep(p)
      BY <3>1, <3>2, <3>5, <3>6, <3>7 DEF OneStep
    <3> QED BY <3>1, <3>2, <3>5, <3>6, <3>7, <3>8, OneConnection
  <2> QED BY <1>2, <2>2, <2>3, <2>4, <2>5, <2>6, <2>7, <2>8, <2>9 DEF PeerStep
<1>3. ASSUME NEW r \in Routines, NEW p \in Peers, ReconnectDials(r, p) PROVE AloneInv'
  <2> DEFINE rec == [peer[p] EXCEPT !.add = "handshake", !.by = r]
  <2>1. /\ peer' = [peer EXCEPT ![p] = rec] /\ UNCHANGED <<peers, sw, rivals>>
        /\ peer[p].add = "none"
    BY <1>3 DEF ReconnectDials, StartedInv, PeerRecords
  <2>2. rec \in PeerRecords /\ rec.add = "handshake" /\ rec.svc = peer[p].svc
        /\ rec.mconn = peer[p].mconn /\ rec.error = peer[p].error /\ rec.asked = peer[p].asked
    BY DEF PeerRecords, Adding, StartedInv
  <2> HIDE DEF rec
  <2> QED BY <2>1, <2>2, Shelved
<1>4. ASSUME NEW r \in Routines,
             ReconnectWakes(r) \/ ReconnectLooks(r) \/ ReconnectEnters(r)
               \/ ReconnectChecks(r) \/ ReconnectFails(r)
      PROVE  AloneInv'
  BY <1>1, <1>4 DEF ReconnectWakes, ReconnectLooks, ReconnectEnters, ReconnectChecks, ReconnectFails
<1>5. ASSUME NEW id \in IDs, NodeDialFails(id) PROVE AloneInv'
  BY <1>1, <1>5 DEF NodeDialFails
<1>6. CASE StopSwitch \/ ListPeers \/ StopNext \/ RemoveNext \/ StopReactor
  BY <1>6 DEF StopSwitch, ListPeers, StopNext, RemoveNext, StopReactor, AloneInv
<1>7. CASE UNCHANGED vars
  BY <1>1, <1>7 DEF vars
<1> QED BY <1>2, <1>3, <1>4, <1>5, <1>6, <1>7 DEF Next, RoutineStep

LEMMA InitAlone == Init => AloneInv
<1> SUFFICES ASSUME Init PROVE AloneInv
  BY SMTT(60)
<1>1. \A p \in Peers : peer[p] = NewPeer /\ ~Listed(peers, p)
  BY PeerAssumption DEF Init, NewPeerSet, Listed, NoItem
<1> QED BY SMTT(60), <1>1 DEF AloneInv, Alone, Fit, Active, Untouched, NewPeer

\* While the switch runs, a peer that was added and whose connection runs is
\* in the list, as long as no two connections with its ID were up at one time:
\* addPeer, ConnError, StopPeerForError and Remove then concern one object.
THEOREM RunningPeersStayListed == Spec => []RunningPeersListed
<1>1. AloneInv => RunningPeersListed
  BY DEF AloneInv, Fit, RunningPeersListed
<1> QED BY <1>1, InitIInv, NextIInv, InitStarted, NextStarted, InitAlone, NextAlone, PTL DEF Spec

-----------------------------------------------------------------------------
(* The reconnect loops.                                                      *)

LoopStates == {"looping", "ready", "dialing"}

RoutineRecords ==
    [pc : {"idle", "waiting", "absent", "entering"} \cup LoopStates, id : IDs, tries : Tries]

\* A peer dialed by a loop is the one that this loop waits for, and an ID in
\* reconnecting is one that a loop is at.
LoopsFit(rt, pr, re) ==
    /\ rt \in [Routines -> RoutineRecords]
    /\ \A p \in Peers : pr[p].by # 0 => rt[pr[p].by].pc = "dialing" /\ rt[pr[p].by].id = ID[p]
    /\ \A p, q \in Peers : p # q /\ pr[p].by # 0 => pr[q].by # pr[p].by
    /\ re \subseteq IDs
    /\ \A id \in re : \E r \in Routines : rt[r].id = id /\ rt[r].pc \in LoopStates

LEMMA IdleFits == Idle \in RoutineRecords /\ Idle.pc = "idle"
<1>1. (CHOOSE id \in IDs : TRUE) \in IDs
  BY SwitchAssumption
<1>2. 0 \in Tries
  BY SMTT(60), SwitchAssumption DEF Tries
<1> QED BY <1>1, <1>2 DEF Idle, RoutineRecords

\* A new goroutine takes a place where none is.
LEMMA SpawnedIs ==
    ASSUME NEW rt \in [Routines -> RoutineRecords], NEW id \in IDs,
           \E r \in Routines : rt[r].pc = "idle"
    PROVE  \E n \in Routines : \E new \in RoutineRecords :
             /\ rt[n].pc = "idle" /\ new.pc = "waiting" /\ new.id = id
             /\ Spawned(rt, id) = [rt EXCEPT ![n] = new]
<1> DEFINE n == CHOOSE r \in Routines : rt[r].pc = "idle"
           new == [pc |-> "waiting", id |-> id, tries |-> 0]
<1>1. n \in Routines /\ rt[n].pc = "idle"
  OBVIOUS
<1>2. 0 \in Tries
  BY SMTT(60), SwitchAssumption DEF Tries
<1>3. new \in RoutineRecords /\ new.pc = "waiting" /\ new.id = id
  BY <1>2 DEF RoutineRecords
<1>4. Spawned(rt, id) = [rt EXCEPT ![n] = new]
  BY DEF Spawned
<1> HIDE DEF n, new
<1> QED BY <1>1, <1>3, <1>4

\* A loop moves, or gives its peer back: it stays at the ID it is at or takes
\* it out of reconnecting.
LoopMove(rt, pr, re, r, rec, pr2, re2) ==
    /\ \A p \in Peers : pr2[p].by # r /\ pr2[p].by \in {0, pr[p].by}
    /\ re2 \subseteq IDs
    /\ \A id \in re2 \ re : id = rec.id /\ rec.pc \in LoopStates
    /\ rt[r].pc \in LoopStates =>
         (rec.pc \in LoopStates /\ rec.id = rt[r].id) \/ rt[r].id \notin re2

LEMMA LoopMoves ==
    ASSUME NEW rt, NEW pr, NEW re, LoopsFit(rt, pr, re), NEW r \in Routines,
           NEW rec \in RoutineRecords, NEW pr2, NEW re2, LoopMove(rt, pr, re, r, rec, pr2, re2),
           NEW rt2, rt2 = [rt EXCEPT ![r] = rec]
    PROVE  LoopsFit(rt2, pr2, re2)
<1>0. /\ \A p \in Peers : pr2[p].by # r /\ pr2[p].by \in {0, pr[p].by}
      /\ re2 \subseteq IDs
      /\ \A id \in re2 \ re : id = rec.id /\ rec.pc \in LoopStates
      /\ rt[r].pc \in LoopStates =>
           (rec.pc \in LoopStates /\ rec.id = rt[r].id) \/ rt[r].id \notin re2
  BY DEF LoopMove
<1>1. /\ rt2 \in [Routines -> RoutineRecords] /\ rt2[r] = rec
      /\ \A x \in Routines \ {r} : rt2[x] = rt[x]
  BY DEF LoopsFit
<1>2. \A p \in Peers : pr2[p].by # 0 => pr2[p].by = pr[p].by /\ pr[p].by # r
  BY <1>0
<1>3. ASSUME NEW p \in Peers, pr2[p].by # 0
      PROVE  rt2[pr2[p].by].pc = "dialing" /\ rt2[pr2[p].by].id = ID[p]
  <2>1. rt[pr[p].by].pc = "dialing" /\ rt[pr[p].by].id = ID[p] /\ pr2[p].by = pr[p].by
        /\ pr[p].by # r
    BY <1>2, <1>3 DEF LoopsFit
  <2>2. rt2[pr[p].by] = rt[pr[p].by]
    BY SMTT(60), <2>1 DEF LoopsFit
  <2> QED BY <2>1, <2>2
<1>4. ASSUME NEW p \in Peers, NEW q \in Peers, p # q, pr2[p].by # 0 PROVE pr2[q].by # pr2[p].by
  BY SMTT(60), <1>2, <1>4 DEF LoopsFit
<1>5. ASSUME NEW id \in re2 PROVE \E x \in Routines : rt2[x].id = id /\ rt2[x].pc \in LoopStates
  <2>1. CASE id \in re
    <3>1. PICK x \in Routines : rt[x].id = id /\ rt[x].pc \in LoopStates
      BY <2>1 DEF LoopsFit
    <3>2. CASE x = r
      BY <1>0, <1>1, <1>5, <3>1, <3>2
    <3>3. CASE x # r
      BY <1>1, <3>1, <3>3
    <3> QED BY <3>2, <3>3
  <2>2. CASE id \notin re
    BY <1>0, <1>1, <1>5, <2>2
  <2> QED BY <2>1, <2>2
<1> QED BY <1>0, <1>1, <1>3, <1>4, <1>5 DEF LoopsFit

\* The loops stay as they are, and no peer is dialed by one.
LEMMA LoopsStay ==
    ASSUME NEW rt, NEW pr, NEW re, LoopsFit(rt, pr, re), NEW pr2,
           \A p \in Peers : pr2[p].by \in {0, pr[p].by}
    PROVE  LoopsFit(rt, pr2, re)
<1>1. \A p \in Peers : pr2[p].by # 0 => pr2[p].by = pr[p].by
  OBVIOUS
<1>2. \A p, q \in Peers : p # q /\ pr2[p].by # 0 => pr2[q].by # pr2[p].by
  BY SMTT(60), <1>1 DEF LoopsFit
<1> QED BY SMTT(60), <1>1, <1>2 DEF LoopsFit

\* Starting one more goroutine.
LEMMA SpawnedFits ==
    ASSUME NEW rt, NEW pr, NEW re, LoopsFit(rt, pr, re), NEW id \in IDs,
           \E r \in Routines : rt[r].pc = "idle"
    PROVE  LoopsFit(Spawned(rt, id), pr, re)
<1>1. rt \in [Routines -> RoutineRecords] /\ re \in SUBSET IDs
  BY DEF LoopsFit
<1>2. PICK n \in Routines : \E new \in RoutineRecords :
             /\ rt[n].pc = "idle" /\ new.pc = "waiting" /\ new.id = id
             /\ Spawned(rt, id) = [rt EXCEPT ![n] = new]
  BY SMTT(60), <1>1, SpawnedIs
<1>3. PICK new \in RoutineRecords :
             /\ rt[n].pc = "idle" /\ new.pc = "waiting" /\ new.id = id
             /\ Spawned(rt, id) = [rt EXCEPT ![n] = new]
  BY <1>2
<1>4. \A p \in Peers : pr[p].by # n
  <2>1. n # 0
    BY SMTT(60) DEF Routines
  <2> QED BY <1>3, <2>1 DEF LoopsFit
<1>5. LoopMove(rt, pr, re, n, new, pr, re)
  BY <1>1, <1>3, <1>4 DEF LoopMove, LoopStates
<1>6. Spawned(rt, id) = [rt EXCEPT ![n] = new]
  BY <1>3
<1> QED BY <1>5, <1>6, LoopMoves

\* A reconnectToPeer is at work for the ID.
Looked(rt, id) == \E r \in Routines : rt[r].pc # "idle" /\ rt[r].id = id

LEMMA SpawnedLooks ==
    ASSUME NEW rt \in [Routines -> RoutineRecords], NEW id \in IDs,
           \E r \in Routines : rt[r].pc = "idle"
    PROVE  Looked(Spawned(rt, id), id) /\ \A x \in IDs : Looked(rt, x) => Looked(Spawned(rt, id), x)
<1>1. PICK n \in Routines : \E new \in RoutineRecords :
             /\ rt[n].pc = "idle" /\ new.pc = "waiting" /\ new.id = id
             /\ Spawned(rt, id) = [rt EXCEPT ![n] = new]
  BY SMTT(60), SpawnedIs
<1>2. PICK new \in RoutineRecords :
             /\ rt[n].pc = "idle" /\ new.pc = "waiting" /\ new.id = id
             /\ Spawned(rt, id) = [rt EXCEPT ![n] = new]
  BY <1>1
<1>3. Spawned(rt, id)[n] = new /\ \A r \in Routines \ {n} : Spawned(rt, id)[r] = rt[r]
  BY <1>2
<1>4. Looked(Spawned(rt, id), id)
  BY <1>2, <1>3 DEF Looked
<1>5. ASSUME NEW x \in IDs, Looked(rt, x) PROVE Looked(Spawned(rt, id), x)
  <2>1. PICK r \in Routines : rt[r].pc # "idle" /\ rt[r].id = x
    BY <1>5 DEF Looked
  <2>2. r # n
    BY <1>2, <2>1
  <2> QED BY <1>3, <2>1, <2>2 DEF Looked
<1> QED BY <1>4, <1>5

\* One loop moves: the others are where they were.
Moved(rt, r, rec, rt2) ==
    rt \in [Routines -> RoutineRecords] /\ r \in Routines /\ rt2 = [rt EXCEPT ![r] = rec]

LEMMA MovedLooks ==
    ASSUME NEW rt, NEW r, NEW rec, NEW rt2, Moved(rt, r, rec, rt2), NEW id, Looked(rt, id)
    PROVE  \/ Looked(rt2, id)
           \/ id = rt[r].id /\ (rec.pc = "idle" \/ rec.id # id)
<1>1. rt2[r] = rec /\ \A x \in Routines \ {r} : rt2[x] = rt[x]
  BY DEF Moved
<1>2. PICK x \in Routines : rt[x].pc # "idle" /\ rt[x].id = id
  BY DEF Looked
<1>3. CASE x = r
  BY <1>1, <1>2, <1>3 DEF Looked
<1>4. CASE x # r
  BY <1>1, <1>2, <1>4 DEF Looked
<1> QED BY <1>3, <1>4

\* An attempt failed: the loop goes on, or gave the ID up.
Retries(rt, pr, r, pr2) ==
    /\ rt[r].pc \in LoopStates /\ rt[r] = routine[r]
    /\ \A p \in Peers : pr2[p].by # r /\ pr2[p].by \in {0, pr[p].by}

LEMMA RetryKeeps ==
    ASSUME NEW rt, NEW pr, LoopsFit(rt, pr, reconnecting), NEW r \in Routines, NEW pr2,
           Retries(rt, pr, r, pr2), Retry(r, rt)
    PROVE  /\ LoopsFit(routine', pr2, reconnecting')
           /\ gaveUp \subseteq gaveUp' /\ gaveUp' \subseteq gaveUp \cup IDs
           /\ sw = "running" =>
                \A id \in IDs : Looked(rt, id) => Looked(routine', id) \/ id \in gaveUp'
<1> DEFINE tries == routine[r].tries + 1
           rec == [rt[r] EXCEPT !.pc = "looping", !.tries = tries]
<1>0. /\ rt[r].pc \in LoopStates /\ rt[r] = routine[r]
      /\ \A p \in Peers : pr2[p].by # r /\ pr2[p].by \in {0, pr[p].by}
  BY DEF Retries
<1>1. /\ rt \in [Routines -> RoutineRecords] /\ rt[r] \in RoutineRecords
      /\ rt[r].id \in IDs /\ rt[r].tries \in Tries /\ reconnecting \in SUBSET IDs
  BY DEF LoopsFit, RoutineRecords
<1>2. CASE tries < Attempts + BackOffAttempts
  <2>1. /\ routine' = [rt EXCEPT ![r].pc = "looping", ![r].tries = tries]
        /\ reconnecting' = reconnecting /\ gaveUp' = gaveUp
    BY <1>2 DEF Retry
  <2>2. routine' = [rt EXCEPT ![r] = rec]
    BY <1>1, <2>1
  <2>3. tries \in Tries
    BY SMTT(60), <1>0, <1>1, <1>2, SwitchAssumption DEF Tries
  <2>4. rec \in RoutineRecords /\ rec.pc = "looping" /\ rec.id = rt[r].id
    BY <1>1, <2>3 DEF RoutineRecords, LoopStates
  <2> HIDE DEF rec, tries
  <2>5. LoopMove(rt, pr, reconnecting, r, rec, pr2, reconnecting')
    BY <1>0, <1>1, <2>1, <2>4 DEF LoopMove, LoopStates
  <2>6. LoopsFit(routine', pr2, reconnecting')
    BY <2>2, <2>4, <2>5, LoopMoves
  <2>7. Moved(rt, r, rec, routine')
    BY <1>1, <2>2 DEF Moved
  <2>8. ASSUME NEW id \in IDs, Looked(rt, id) PROVE Looked(routine', id)
    BY SMTT(60), <2>4, <2>7, <2>8, MovedLooks
  <2> QED BY <2>1, <2>6, <2>8
<1>3. CASE ~(tries < Attempts + BackOffAttempts)
  <2>1. /\ routine' = [rt EXCEPT ![r] = Idle]
        /\ reconnecting' = reconnecting \ {rt[r].id}
        /\ gaveUp' = IF sw = "running" THEN gaveUp \cup {rt[r].id} ELSE gaveUp
    BY <1>0, <1>3 DEF Retry
  <2>2. LoopMove(rt, pr, reconnecting, r, Idle, pr2, reconnecting')
    BY <1>0, <1>1, <2>1 DEF LoopMove
  <2>3. LoopsFit(routine', pr2, reconnecting')
    BY <2>1, <2>2, IdleFits, LoopMoves
  <2>4. Moved(rt, r, Idle, routine')
    BY <1>1, <2>1 DEF Moved
  <2>5. ASSUME NEW id \in IDs, Looked(rt, id) PROVE Looked(routine', id) \/ id = rt[r].id
    BY SMTT(60), <2>4, <2>5, IdleFits, MovedLooks
  <2> QED BY <1>1, <2>1, <2>3, <2>5
<1> QED BY <1>2, <1>3

\* addPeer's result reaches the loop that dialed, if one did.
LEMMA DialedKeeps ==
    ASSUME StartedInv, LoopsFit(routine, peer, reconnecting), NEW p \in Peers,
           NEW rec \in PeerRecords, rec.by = 0, peer' = [peer EXCEPT ![p] = rec],
           NEW result, Dialed(p, result)
    PROVE  /\ LoopsFit(routine', peer', reconnecting')
           /\ gaveUp \subseteq gaveUp' /\ gaveUp' \subseteq gaveUp \cup IDs
           /\ sw = "running" =>
                \A id \in IDs :
                  Looked(routine, id) =>
                    Looked(routine', id) \/ id \in gaveUp' \/ (id = ID[p] /\ result # "failed")
<1>1. \A q \in Peers : peer'[q].by \in {0, peer[q].by} /\ (q # p => peer'[q].by = peer[q].by)
  BY DEF StartedInv
<1>2. peer'[p].by = 0
  BY DEF StartedInv
<1>3. CASE peer[p].by = 0
  <2>1. routine' = routine /\ reconnecting' = reconnecting /\ gaveUp' = gaveUp
    BY <1>3 DEF Dialed
  <2> QED BY <1>1, <2>1, LoopsStay
<1>4. CASE peer[p].by # 0
  <2> DEFINE r == peer[p].by
  <2>1. r \in Routines /\ r # 0
    BY <1>4 DEF StartedInv, PeerRecords
  <2>2. routine[r].pc = "dialing" /\ routine[r].id = ID[p] /\ \A q \in Peers \ {p} : peer[q].by # r
    BY <1>4 DEF LoopsFit
  <2>3. \A q \in Peers : peer'[q].by # r /\ peer'[q].by \in {0, peer[q].by}
    BY <1>1, <1>2, <2>1, <2>2
  <2>4. \/ Return(r) /\ result # "failed"
        \/ Retry(r, routine)
    BY <1>4 DEF Dialed
  <2>5. routine \in [Routines -> RoutineRecords] /\ reconnecting \in SUBSET IDs
    BY DEF LoopsFit
  <2> HIDE DEF r
  <2>6. CASE Return(r) /\ result # "failed"
    <3>1. /\ routine' = [routine EXCEPT ![r] = Idle] /\ gaveUp' = gaveUp
          /\ reconnecting' = reconnecting \ {routine[r].id}
      BY <2>6 DEF Return
    <3>2. LoopMove(routine, peer, reconnecting, r, Idle, peer', reconnecting')
      BY <2>3, <2>5, <3>1 DEF LoopMove
    <3>3. LoopsFit(routine', peer', reconnecting')
      BY <2>1, <3>1, <3>2, IdleFits, LoopMoves
    <3>4. Moved(routine, r, Idle, routine')
      BY <2>1, <2>5, <3>1 DEF Moved
    <3>5. ASSUME NEW id \in IDs, Looked(routine, id) PROVE Looked(routine', id) \/ id = ID[p]
      BY SMTT(60), <2>2, <3>4, <3>5, IdleFits, MovedLooks
    <3> QED BY <2>6, <3>1, <3>3, <3>5
  <2>7. CASE Retry(r, routine)
    <3>1. Retries(routine, peer, r, peer')
      BY <2>2, <2>3 DEF LoopStates, Retries
    <3>2. /\ LoopsFit(routine', peer', reconnecting')
          /\ gaveUp \subseteq gaveUp' /\ gaveUp' \subseteq gaveUp \cup IDs
          /\ sw = "running" =>
               \A id \in IDs : Looked(routine, id) => Looked(routine', id) \/ id \in gaveUp'
      BY <2>1, <2>7, <3>1, RetryKeeps
    <3> QED BY <3>2
  <2> QED BY <2>4, <2>6, <2>7
<1> QED BY <1>3, <1>4

-----------------------------------------------------------------------------
(* A peer we dialed is not forgotten.                                        *)

\* A StopPeerForError of the peer is under way.
Dropping(rec) == {rec.error, rec.asked} \cap {"remove", "stop"} # {}

EarlyAdds == {"none", "handshake", "checked", "refused"}

Lost(id) == \E p \in Outbound : ID[p] = id /\ peer[p].svc = "stopped"

\* No connection that the other side opened is being started or was.
Early(id) == \A q \in Peers \ Outbound : ID[q] = id => peer[q].add \in EarlyAdds

Wanted(id) ==
    \/ Has(peers, id) \/ Looked(routine, id)
    \/ \E q \in Peers : ID[q] = id /\ Dropping(peer[q])

LoopsInv == LoopsFit(routine, peer, reconnecting)

\* Unlike DroppedPeersSought, without the connections that are being added or
\* run: those leave the list, or find the ID in it, before a loop that dialed
\* them ends.
SoughtInv ==
    sw = "running" =>
      \A id \in IDs \ (rivals \cup gaveUp) : Lost(id) /\ Early(id) => Wanted(id)

\* A step on one connection, not the end of a StopPeerForError.
LEMMA OneSought ==
    ASSUME StartedInv, SoughtInv, sw = "running", NEW p \in Peers, NEW rec \in PeerRecords,
           peer' = [peer EXCEPT ![p] = rec], rivals \subseteq rivals', gaveUp \subseteq gaveUp',
           rec.svc = "stopped" => peer[p].svc = "stopped",
           rec.add \in EarlyAdds => peer[p].add \in EarlyAdds \/ Has(peers', ID[p]),
           Dropping(peer[p]) => Dropping(rec),
           \A id \in IDs : Has(peers, id) => Has(peers', id) \/ (id = ID[p] /\ Dropping(rec)),
           \A id \in IDs :
             Looked(routine, id) =>
               Looked(routine', id) \/ id \in gaveUp' \/ (id = ID[p] /\ Has(peers', id))
    PROVE  SoughtInv'
<1> SUFFICES ASSUME NEW id \in IDs, id \notin rivals' \cup gaveUp', Lost(id)', Early(id)',
                    ~Has(peers', id)
             PROVE  Wanted(id)'
  BY DEF SoughtInv, Wanted
<1>1. peer'[p] = rec /\ \A q \in Peers \ {p} : peer'[q] = peer[q]
  BY DEF StartedInv
<1>2. Lost(id)
  BY <1>1, SwitchAssumption DEF Lost
<1>3. Early(id)
  BY <1>1 DEF Early
<1>4. Wanted(id)
  BY <1>2, <1>3 DEF SoughtInv
<1>5. CASE Has(peers, id)
  BY <1>1, <1>5 DEF Wanted
<1>6. CASE Looked(routine, id)
  BY <1>6 DEF Wanted
<1>7. ASSUME NEW q \in Peers, ID[q] = id, Dropping(peer[q]) PROVE Wanted(id)'
  BY <1>1, <1>7 DEF Wanted
<1> QED BY <1>4, <1>5, <1>6, <1>7 DEF Wanted

\* The loops' own steps.
LEMMA LoopSought ==
    ASSUME SoughtInv, UNCHANGED <<peers, peer, sw, rivals>>, gaveUp \subseteq gaveUp',
           sw = "running" =>
             \A id \in IDs :
               Looked(routine, id) => Looked(routine', id) \/ id \in gaveUp' \/ Has(peers, id)
    PROVE  SoughtInv'
<1> SUFFICES ASSUME sw = "running", NEW id \in IDs, id \notin rivals \cup gaveUp',
                    Lost(id), Early(id)
             PROVE  Wanted(id)'
  BY DEF SoughtInv, Lost, Early
<1>1. Wanted(id)
  BY DEF SoughtInv
<1> QED BY <1>1 DEF Wanted

\* Remove takes one ID out.
LEMMA RemoveLeavesIDs ==
    ASSUME NEW ps \in PeerSets, Indexed(ps), NEW id \in IDs, NEW x \in IDs, x # id, Has(ps, x)
    PROVE  Has(Remove(ps, id), x)
<1>1. PICK p \in Peers : ID[p] = x /\ Listed(ps, p)
  BY HasListed
<1>2. Listed(Remove(ps, id), p)
  BY <1>1, RemoveKeepsOthers
<1>3. Remove(ps, id) \in PeerSets /\ Indexed(Remove(ps, id))
  BY RemoveIndexed
<1> QED BY <1>1, <1>2, <1>3, HasListed

\* Add takes none out.
LEMMA AddLeavesIDs ==
    ASSUME NEW ps \in PeerSets, Indexed(ps), NEW p \in Peers, ~Has(ps, ID[p])
    PROVE  Has(Add(ps, p), ID[p]) /\ \A x \in IDs : Has(ps, x) => Has(Add(ps, p), x)
<1>1. Add(ps, p) \in PeerSets /\ Indexed(Add(ps, p)) /\ ID[p] \in IDs
  BY AddIndexed, PeerAssumption
<1>2. Listed(Add(ps, p), p) /\ \A q \in Peers \ {p} : Listed(Add(ps, p), q) <=> Listed(ps, q)
  BY AddLists
<1>3. Has(Add(ps, p), ID[p])
  BY <1>1, <1>2, HasListed
<1>4. ASSUME NEW x \in IDs, Has(ps, x) PROVE Has(Add(ps, p), x)
  <2>1. PICK q \in Peers : ID[q] = x /\ Listed(ps, q)
    BY <1>4, HasListed
  <2>2. q # p
    BY <1>4, <2>1
  <2> QED BY <1>1, <1>2, <2>1, <2>2, HasListed
<1> QED BY <1>3, <1>4

LEMMA PeerSought ==
    ASSUME IInv, StartedInv, AloneInv, LoopsInv, SoughtInv, NEW p \in Peers, PeerStep(p)
    PROVE  LoopsInv' /\ SoughtInv'
<1> DEFINE old == peer[p]
<1>0. /\ old \in PeerRecords /\ ID[p] \in IDs /\ peers \in PeerSets /\ Indexed(peers)
      /\ routine \in [Routines -> RoutineRecords] /\ peer \in [Peers -> PeerRecords]
  BY PeerAssumption DEF StartedInv, IInv, LoopsInv, LoopsFit
<1>00. sw' = sw
  BY DEF PeerStep, NodeDials, Accept, HandshakeFails, HandshakeDone,
               StartPeer, AddToPeers, ConnError, AskToStop, DropRemoves, DropStops
<1>1. ASSUME NEW rec \in PeerRecords, peer' = [peer EXCEPT ![p] = rec], rec.by = old.by,
             UNCHANGED <<routine, reconnecting>>
      PROVE  LoopsInv' /\ \A id \in IDs : Looked(routine, id) => Looked(routine', id)
  <2>1. \A q \in Peers : peer'[q].by \in {0, peer[q].by}
    BY <1>0, <1>1
  <2>2. LoopsFit(routine, peer', reconnecting)
    BY <2>1, LoopsStay DEF LoopsInv
  <2> QED BY <1>1, <2>2 DEF LoopsInv
<1>2. ASSUME NEW rec \in PeerRecords, peer' = [peer EXCEPT ![p] = rec], rec.by = old.by,
             UNCHANGED <<routine, reconnecting, gaveUp>>, rivals \subseteq rivals' \/ sw # "running",
             sw = "running" => (rec.svc = "stopped" => old.svc = "stopped"),
             rec.add \in EarlyAdds => old.add \in EarlyAdds,
             Dropping(old) => Dropping(rec),
             \A id \in IDs : Has(peers, id) => Has(peers', id) \/ (id = ID[p] /\ Dropping(rec))
      PROVE  LoopsInv' /\ SoughtInv'
  <2>1. LoopsInv' /\ \A id \in IDs : Looked(routine, id) => Looked(routine', id)
    BY <1>1, <1>2
  <2>2. CASE sw = "running"
    BY <1>2, <2>1, <2>2, OneSought
  <2>3. CASE sw # "running"
    BY <1>00, <2>1, <2>3 DEF SoughtInv
  <2> QED BY <2>1, <2>2, <2>3
<1>3. CASE NodeDials(p) \/ Accept(p)
  <2>1. PICK a \in {"handshake", "refused"} :
          /\ peer' = [peer EXCEPT ![p] = [old EXCEPT !.add = a]] /\ old.add = "none"
          /\ UNCHANGED <<peers, routine, reconnecting, gaveUp, rivals>>
    BY <1>0, <1>3 DEF NodeDials, Accept
  <2> DEFINE rec == [old EXCEPT !.add = a]
  <2>2. rec \in PeerRecords /\ rec.by = old.by /\ rec.svc = old.svc
        /\ rec.error = old.error /\ rec.asked = old.asked
    BY <1>0 DEF PeerRecords, Adding
  <2> HIDE DEF rec
  <2>3. Dropping(old) => Dropping(rec)
    BY <2>2 DEF Dropping
  <2>4. old.add \in EarlyAdds
    BY <2>1 DEF EarlyAdds
  <2> QED BY <1>2, <2>1, <2>2, <2>3, <2>4 DEF rec
<1>4. CASE HandshakeDone(p) /\ ~Has(peers, ID[p])
  <2> DEFINE rec == [old EXCEPT !.add = "checked"]
  <2>1. /\ peer' = [peer EXCEPT ![p] = rec] /\ old.add = "handshake" /\ rivals \subseteq rivals'
        /\ UNCHANGED <<peers, routine, reconnecting, gaveUp>>
    BY <1>4 DEF HandshakeDone
  <2>2. rec \in PeerRecords /\ rec.by = old.by /\ rec.svc = old.svc
        /\ rec.error = old.error /\ rec.asked = old.asked
    BY <1>0 DEF PeerRecords, Adding
  <2> HIDE DEF rec
  <2>3. Dropping(old) => Dropping(rec)
    BY <2>2 DEF Dropping
  <2>4. old.add \in EarlyAdds
    BY <2>1 DEF EarlyAdds
  <2> QED BY <1>2, <2>1, <2>2, <2>3, <2>4
<1>5. CASE StartPeer(p)
  <2> DEFINE rec == IF sw = "running"
                    THEN [old EXCEPT !.add = "add", !.svc = "running", !.mconn = "running"]
                    ELSE [old EXCEPT !.add = "add"]
  <2>1. /\ peer' = [peer EXCEPT ![p] = rec]
        /\ UNCHANGED <<peers, routine, reconnecting, gaveUp, rivals>>
    BY <1>5 DEF StartPeer
  <2>2. rec \in PeerRecords /\ rec.by = old.by /\ rec.add = "add"
        /\ rec.error = old.error /\ rec.asked = old.asked
        /\ (sw = "running" => rec.svc = "running")
    BY <1>0 DEF PeerRecords, Adding, Services
  <2> HIDE DEF rec
  <2>3. Dropping(old) => Dropping(rec)
    BY <2>2 DEF Dropping
  <2>4. rec.add \notin EarlyAdds
    BY <2>2 DEF EarlyAdds
  <2>5. sw = "running" => rec.svc # "stopped"
    BY <2>2
  <2> QED BY <1>2, <2>1, <2>2, <2>3, <2>4, <2>5
<1>6. CASE ConnError(p) \/ AskToStop(p)
  <2>1. PICK rec \in {[old EXCEPT !.mconn = "stopped", !.error = "remove"], [old EXCEPT !.asked = "remove"]} :
          /\ peer' = [peer EXCEPT ![p] = rec]
          /\ UNCHANGED <<peers, routine, reconnecting, gaveUp, rivals>>
    BY <1>0, <1>6 DEF ConnError, AskToStop
  <2>2. rec \in PeerRecords /\ rec.by = old.by /\ rec.add = old.add /\ rec.svc = old.svc
        /\ "remove" \in {rec.error, rec.asked}
    BY <1>0 DEF PeerRecords, Drops, Services
  <2>3. Dropping(rec)
    BY <2>2 DEF Dropping
  <2> QED BY <1>2, <2>1, <2>2, <2>3
<1>7. ASSUME NEW k \in {"error", "asked"}, DropRemoves(p, k) PROVE LoopsInv' /\ SoughtInv'
  <2>1. PICK rec \in {[old EXCEPT !.error = "stop"], [old EXCEPT !.asked = "stop"]} :
          /\ peer' = [peer EXCEPT ![p] = rec] /\ peers' = Remove(peers, ID[p])
          /\ UNCHANGED <<routine, reconnecting, gaveUp, rivals>>
    BY <1>0, <1>7 DEF DropRemoves
  <2>2. rec \in PeerRecords /\ rec.by = old.by /\ rec.add = old.add /\ rec.svc = old.svc
        /\ "stop" \in {rec.error, rec.asked}
    BY <1>0 DEF PeerRecords, Drops
  <2>3. Dropping(rec)
    BY <2>2 DEF Dropping
  <2>4. \A id \in IDs : Has(peers, id) => Has(peers', id) \/ id = ID[p]
    BY <1>0, <2>1, RemoveLeavesIDs
  <2> QED BY <1>2, <2>1, <2>2, <2>3, <2>4
<1>8. ASSUME NEW rec \in PeerRecords, NEW result, peer' = [peer EXCEPT ![p] = rec], rec.by = 0,
             rec.svc = old.svc, rec.error = old.error, rec.asked = old.asked,
             Dialed(p, result), rivals' = rivals,
             result # "failed" => Has(peers', ID[p]),
             rec.add \in EarlyAdds => old.add \in EarlyAdds \/ Has(peers', ID[p]),
             \A id \in IDs : Has(peers, id) => Has(peers', id)
      PROVE  LoopsInv' /\ SoughtInv'
  <2>1. /\ LoopsInv' /\ gaveUp \subseteq gaveUp'
        /\ sw = "running" =>
             \A id \in IDs :
               Looked(routine, id) =>
                 Looked(routine', id) \/ id \in gaveUp' \/ (id = ID[p] /\ Has(peers', id))
    BY <1>8, DialedKeeps DEF LoopsInv
  <2>2. Dropping(old) => Dropping(rec)
    BY <1>8 DEF Dropping
  <2>3. CASE sw = "running"
    BY <1>8, <2>1, <2>2, <2>3, OneSought
  <2>4. CASE sw # "running"
    BY <1>00, <2>1, <2>4 DEF SoughtInv
  <2> QED BY <2>1, <2>3, <2>4
<1>9. CASE HandshakeFails(p) \/ (HandshakeDone(p) /\ Has(peers, ID[p]))
           \/ (AddToPeers(p) /\ Has(peers, ID[p]))
  <2> DEFINE rec == [old EXCEPT !.add = "refused", !.by = 0]
  <2>1. /\ peer' = [peer EXCEPT ![p] = rec] /\ UNCHANGED <<peers, rivals>>
        /\ \/ Dialed(p, "failed") /\ old.add = "handshake"
           \/ Dialed(p, "duplicate") /\ Has(peers, ID[p])
    BY <1>0, <1>9 DEF HandshakeFails, HandshakeDone, AddToPeers
  <2>2. rec \in PeerRecords /\ rec.by = 0 /\ rec.svc = old.svc
        /\ rec.error = old.error /\ rec.asked = old.asked
    BY <1>0 DEF PeerRecords, Adding
  <2> HIDE DEF rec
  <2>3. CASE Dialed(p, "failed") /\ old.add = "handshake"
    <3>1. old.add \in EarlyAdds
      BY <2>3 DEF EarlyAdds
    <3> QED BY <1>8, <2>1, <2>2, <2>3, <3>1
  <2>4. CASE Dialed(p, "duplicate") /\ Has(peers, ID[p])
    BY <1>8, <2>1, <2>2, <2>4
  <2> QED BY <2>1, <2>3, <2>4
<1>10. CASE AddToPeers(p) /\ ~Has(peers, ID[p])
  <2> DEFINE rec == [old EXCEPT !.add = "added", !.by = 0]
  <2>1. peer' = [peer EXCEPT ![p] = rec] /\ rivals' = rivals /\ peers' = Add(peers, p) /\ Dialed(p, "ok")
    BY <1>0, <1>10 DEF AddToPeers
  <2>2. rec \in PeerRecords /\ rec.by = 0 /\ rec.svc = old.svc
        /\ rec.error = old.error /\ rec.asked = old.asked
    BY <1>0 DEF PeerRecords, Adding
  <2> HIDE DEF rec
  <2>3. Has(peers', ID[p]) /\ \A id \in IDs : Has(peers, id) => Has(peers', id)
    BY <1>0, <1>10, <2>1, AddLeavesIDs
  <2> QED BY <1>8, <2>1, <2>2, <2>3
<1>11. ASSUME NEW k \in {"error", "asked"}, DropStops(p, k) PROVE LoopsInv' /\ SoughtInv'
  <2>1. PICK rec \in {[old EXCEPT !.error = "done", !.svc = "stopped", !.mconn = "stopped"],
                      [old EXCEPT !.asked = "done", !.svc = "stopped", !.mconn = "stopped"]} :
          /\ peer' = [peer EXCEPT ![p] = rec] /\ "stop" \in {old.error, old.asked}
          /\ UNCHANGED <<peers, reconnecting, rivals, gaveUp>>
          /\ p \in Outbound => CanSpawn
          /\ routine' = IF p \in Outbound THEN Spawned(routine, ID[p]) ELSE routine
    BY <1>0, <1>11 DEF DropStops, Stopped
  <2>2. rec \in PeerRecords /\ rec.by = old.by /\ rec.add = old.add
    BY <1>0 DEF PeerRecords, Drops, Services
  <2>3. peer'[p] = rec /\ \A q \in Peers \ {p} : peer'[q] = peer[q]
    BY <1>0, <2>1
  <2>4. LoopsFit(routine, peer', reconnecting)
    <3>1. \A q \in Peers : peer'[q].by \in {0, peer[q].by}
      BY <2>2, <2>3
    <3> QED BY <3>1, LoopsStay DEF LoopsInv
  <2>5. CASE p \in Outbound
    <3>1. routine' = Spawned(routine, ID[p]) /\ \E r \in Routines : routine[r].pc = "idle"
      BY <2>1, <2>5 DEF CanSpawn
    <3>2. LoopsInv'
      BY SMTT(60), <1>0, <2>1, <2>4, <3>1, SpawnedFits DEF LoopsInv
    <3>3. Looked(routine', ID[p]) /\ \A id \in IDs : Looked(routine, id) => Looked(routine', id)
      BY <1>0, <3>1, SpawnedLooks
    <3>4. ASSUME sw = "running", NEW id \in IDs, id \notin rivals \cup gaveUp, id # ID[p],
                 Lost(id)', Early(id)'
          PROVE  Wanted(id)'
      <4>1. Lost(id) /\ Early(id)
        BY <2>3, <3>4, SwitchAssumption DEF Lost, Early
      <4>2. Wanted(id)
        BY <3>4, <4>1 DEF SoughtInv
      <4> QED BY <2>1, <2>3, <3>3, <3>4, <4>2 DEF Wanted
    <3>5. Wanted(ID[p])'
      BY <3>3 DEF Wanted
    <3> QED BY <1>00, <2>1, <3>2, <3>4, <3>5 DEF SoughtInv
  <2>6. CASE p \notin Outbound
    <3>1. LoopsInv' /\ routine' = routine
      BY <2>1, <2>4, <2>6 DEF LoopsInv
    <3>2. ASSUME sw = "running", NEW id \in IDs, id \notin rivals \cup gaveUp,
                 Lost(id)', Early(id)'
          PROVE  Wanted(id)'
      <4>1. Lost(id) /\ Early(id)
        BY <2>2, <2>3, <2>6, <3>2, SwitchAssumption DEF Lost, Early
      <4>2. Wanted(id)
        BY <3>2, <4>1 DEF SoughtInv
      <4>3. Fit(p) /\ ~Untouched(p)
        BY <2>1, <3>2 DEF AloneInv, Untouched
      <4>4. id # ID[p]
        BY <2>6, <3>2, <4>1, <4>3 DEF Fit, Early, EarlyAdds
      <4> QED BY <2>1, <2>3, <3>1, <4>2, <4>4 DEF Wanted
    <3> QED BY <1>00, <2>1, <3>1, <3>2 DEF SoughtInv
  <2> QED BY <2>5, <2>6
<1> QED BY <1>3, <1>4, <1>5, <1>6, <1>7, <1>9, <1>10, <1>11 DEF PeerStep

\* One goroutine moves on, or leaves what it is at to others.
LEMMA LoopSteps ==
    ASSUME LoopsInv, SoughtInv, NEW r \in Routines, NEW rec \in RoutineRecords,
           routine' = [routine EXCEPT ![r] = rec], routine[r].pc # "dialing",
           UNCHANGED <<peers, peer, sw, rivals, gaveUp>>,
           \/ reconnecting' = reconnecting
           \/ reconnecting' = reconnecting \cup {routine[r].id} /\ rec.pc = "looping"
           \/ reconnecting' = reconnecting \ {routine[r].id},
           \/ rec.id = routine[r].id /\ rec.pc # "idle"
              /\ (routine[r].pc \in LoopStates => rec.pc \in LoopStates)
           \/ routine[r].pc \notin LoopStates /\ (Has(peers, routine[r].id) \/ routine[r].id \in reconnecting)
              /\ reconnecting' = reconnecting
           \/ sw # "running" /\ routine[r].id \notin reconnecting'
    PROVE  LoopsInv' /\ SoughtInv'
<1>1. /\ routine \in [Routines -> RoutineRecords] /\ routine[r].id \in IDs
      /\ reconnecting' \in SUBSET IDs
  BY SMTT(60) DEF LoopsInv, LoopsFit, RoutineRecords
<1>2. \A p \in Peers : peer[p].by # r
  <2>1. r # 0
    BY SMTT(60) DEF Routines
  <2> QED BY SMTT(60), <2>1 DEF LoopsInv, LoopsFit
<1>3. LoopsFit(routine', peer, reconnecting')
  <2>1. LoopMove(routine, peer, reconnecting, r, rec, peer, reconnecting')
    BY <1>1, <1>2 DEF LoopMove, LoopStates
  <2> QED BY <2>1, LoopMoves DEF LoopsInv
<1>4. ASSUME sw = "running", NEW id \in IDs, Looked(routine, id)
      PROVE  Looked(routine', id) \/ Has(peers, id)
  <2>0. Moved(routine, r, rec, routine')
    BY <1>1 DEF Moved
  <2>1. Looked(routine', id) \/ (id = routine[r].id /\ (rec.pc = "idle" \/ rec.id # id))
    BY SMTT(60), <1>4, <2>0, MovedLooks
  <2>2. ASSUME routine[r].pc \notin LoopStates, routine[r].id \in reconnecting
        PROVE  Looked(routine', routine[r].id)
    <3>1. PICK x \in Routines : routine[x].id = routine[r].id /\ routine[x].pc \in LoopStates
      BY <2>2 DEF LoopsInv, LoopsFit
    <3>2. x # r /\ routine[x].pc # "idle"
      BY <2>2, <3>1 DEF LoopStates
    <3>3. routine'[x] = routine[x]
      BY <1>1, <3>2
    <3> QED BY <3>1, <3>2, <3>3 DEF Looked
  <2> QED BY <1>4, <2>1, <2>2
<1>5. SoughtInv'
  BY <1>4, LoopSought
<1> QED BY <1>3, <1>5 DEF LoopsInv

LEMMA RoutineSought ==
    ASSUME StartedInv, LoopsInv, SoughtInv, NEW r \in Routines, RoutineStep(r)
    PROVE  LoopsInv' /\ SoughtInv'
<1> DEFINE old == routine[r]
<1>0. /\ routine \in [Routines -> RoutineRecords] /\ old \in RoutineRecords /\ old.id \in IDs
      /\ peer \in [Peers -> PeerRecords] /\ reconnecting \subseteq IDs
  BY DEF LoopsInv, LoopsFit, RoutineRecords, StartedInv
<1>1. ASSUME NEW s \in {"absent", "entering"} \cup LoopStates
      PROVE  [old EXCEPT !.pc = s] \in RoutineRecords /\ [old EXCEPT !.pc = s].id = old.id
             /\ [old EXCEPT !.pc = s].pc = s
  BY <1>0 DEF RoutineRecords
<1>2. CASE ReconnectWakes(r)
  <2>1. /\ old.pc = "waiting" /\ UNCHANGED <<peers, peer, sw, rivals, gaveUp, reconnecting>>
        /\ routine' = [routine EXCEPT ![r] = IF Has(peers, old.id) THEN Idle ELSE [old EXCEPT !.pc = "absent"]]
    BY <1>2 DEF ReconnectWakes
  <2>2. CASE Has(peers, old.id)
    <3>1. routine' = [routine EXCEPT ![r] = Idle] /\ old.pc \notin LoopStates /\ old.pc # "dialing"
      BY <2>1, <2>2 DEF LoopStates
    <3> QED BY <2>1, <2>2, <3>1, IdleFits, LoopSteps
  <2>3. CASE ~Has(peers, old.id)
    <3> DEFINE new == [old EXCEPT !.pc = "absent"]
    <3>1. routine' = [routine EXCEPT ![r] = new] /\ old.pc \notin LoopStates /\ old.pc # "dialing"
      BY <2>1, <2>3 DEF LoopStates
    <3>2. new \in RoutineRecords /\ new.id = old.id /\ new.pc # "idle"
      BY SMTT(60), <1>1
    <3> HIDE DEF new
    <3> QED BY <2>1, <3>1, <3>2, LoopSteps
  <2> QED BY <2>2, <2>3
<1>3. CASE ReconnectLooks(r)
  <2>1. /\ old.pc = "absent" /\ UNCHANGED <<peers, peer, sw, rivals, gaveUp, reconnecting>>
        /\ routine' = [routine EXCEPT ![r] = IF old.id \in reconnecting THEN Idle ELSE [old EXCEPT !.pc = "entering"]]
    BY <1>3 DEF ReconnectLooks
  <2>2. CASE old.id \in reconnecting
    BY <2>1, <2>2, IdleFits, LoopSteps DEF LoopStates
  <2>3. CASE old.id \notin reconnecting
    BY <1>1, <2>1, <2>3, LoopSteps DEF LoopStates
  <2> QED BY <2>2, <2>3
<1>4. CASE ReconnectEnters(r)
  <2>1. /\ old.pc = "entering" /\ UNCHANGED <<peers, peer, sw, rivals, gaveUp>>
        /\ reconnecting' = reconnecting \cup {old.id}
        /\ routine' = [routine EXCEPT ![r] = [old EXCEPT !.pc = "looping"]]
    BY <1>4 DEF ReconnectEnters
  <2> QED BY <1>1, <2>1, LoopSteps DEF LoopStates
<1>5. CASE ReconnectChecks(r)
  <2>1. old.pc = "looping" /\ UNCHANGED <<peers, peer, sw, rivals>>
    BY <1>5 DEF ReconnectChecks
  <2>2. CASE sw = "running"
    <3>1. /\ routine' = [routine EXCEPT ![r] = [old EXCEPT !.pc = "ready"]]
          /\ UNCHANGED <<reconnecting, gaveUp>>
      BY <1>5, <2>2 DEF ReconnectChecks
    <3> QED BY <1>1, <2>1, <3>1, LoopSteps DEF LoopStates
  <2>3. CASE sw # "running"
    <3>1. /\ routine' = [routine EXCEPT ![r] = Idle] /\ gaveUp' = gaveUp
          /\ reconnecting' = reconnecting \ {old.id}
      BY <1>5, <2>3 DEF ReconnectChecks, Return
    <3> QED BY <2>1, <2>3, <3>1, IdleFits, LoopSteps
  <2> QED BY <2>2, <2>3
<1>6. CASE ReconnectFails(r)
  <2> DEFINE rt == Spawned(routine, old.id)
  <2>1. /\ old.pc = "ready" /\ UNCHANGED <<peers, peer, sw, rivals>> /\ Retry(r, rt)
        /\ \E x \in Routines : routine[x].pc = "idle"
    BY <1>6 DEF ReconnectFails, CanSpawn
  <2>2. LoopsFit(rt, peer, reconnecting)
    BY <1>0, <2>1, SpawnedFits DEF LoopsInv
  <2>3. rt[r] = old
    <3>1. PICK n \in Routines : \E new \in RoutineRecords :
             /\ routine[n].pc = "idle" /\ new.pc = "waiting" /\ new.id = old.id
             /\ rt = [routine EXCEPT ![n] = new]
      BY <1>0, <2>1, SpawnedIs
    <3> QED BY <1>0, <2>1, <3>1
  <2>4. \A id \in IDs : Looked(routine, id) => Looked(rt, id)
    BY <1>0, <2>1, SpawnedLooks
  <2>5. \A p \in Peers : peer[p].by # r
    <3>1. r # 0
      BY SMTT(60) DEF Routines
    <3> QED BY <2>1, <3>1 DEF LoopsInv, LoopsFit
  <2> HIDE DEF rt
  <2>6. /\ LoopsFit(routine', peer, reconnecting') /\ gaveUp \subseteq gaveUp'
        /\ sw = "running" =>
             \A id \in IDs : Looked(rt, id) => Looked(routine', id) \/ id \in gaveUp'
    <3>1. Retries(rt, peer, r, peer)
      BY <2>1, <2>3, <2>5 DEF Retries, LoopStates
    <3> QED BY <2>1, <2>2, <3>1, RetryKeeps
  <2>7. LoopsInv'
    BY <2>1, <2>6 DEF LoopsInv
  <2>8. SoughtInv'
    BY <2>1, <2>4, <2>6, LoopSought
  <2> QED BY <2>7, <2>8
<1>7. ASSUME NEW p \in Peers, ReconnectDials(r, p) PROVE LoopsInv' /\ SoughtInv'
  <2> DEFINE rec == [peer[p] EXCEPT !.add = "handshake", !.by = r]
             new == [old EXCEPT !.pc = "dialing"]
  <2>1. /\ peer' = [peer EXCEPT ![p] = rec] /\ routine' = [routine EXCEPT ![r] = new]
        /\ peer[p].add = "none" /\ old.pc = "ready" /\ old.id = ID[p]
        /\ UNCHANGED <<peers, sw, rivals, gaveUp, reconnecting>>
    BY <1>0, <1>7 DEF ReconnectDials
  <2>2. rec \in PeerRecords /\ rec.by = r /\ rec.svc = peer[p].svc
        /\ rec.error = peer[p].error /\ rec.asked = peer[p].asked
    BY <1>0 DEF PeerRecords, Adding
  <2>3. new \in RoutineRecords /\ new.id = ID[p] /\ new.pc = "dialing"
    BY <1>1, <2>1 DEF LoopStates
  <2> HIDE DEF rec, new
  <2>4. /\ peer'[p] = rec /\ \A q \in Peers \ {p} : peer'[q] = peer[q]
        /\ routine' \in [Routines -> RoutineRecords]
        /\ routine'[r] = new /\ \A x \in Routines \ {r} : routine'[x] = routine[x]
    BY <1>0, <2>1, <2>2, <2>3
  <2>5. \A q \in Peers : peer[q].by # r
    <3>1. r # 0
      BY SMTT(60) DEF Routines
    <3> QED BY <2>1, <3>1 DEF LoopsInv, LoopsFit
  <2>6. \A q \in Peers : peer'[q].by # 0 =>
          routine'[peer'[q].by].pc = "dialing" /\ routine'[peer'[q].by].id = ID[q]
    <3>1. ASSUME NEW q \in Peers \ {p}, peer[q].by # 0
          PROVE  routine'[peer[q].by].pc = "dialing" /\ routine'[peer[q].by].id = ID[q]
      <4>1. peer[q].by \in Routines \ {r}
        BY <1>0, <2>5, <3>1 DEF PeerRecords
      <4>2. routine'[peer[q].by] = routine[peer[q].by]
        BY <2>4, <4>1
      <4> QED BY <3>1, <4>2 DEF LoopsInv, LoopsFit
    <3> QED BY SMTT(60), <2>2, <2>3, <2>4, <3>1
  <2>7. \A x, y \in Peers : x # y /\ peer'[x].by # 0 => peer'[y].by # peer'[x].by
    BY SMTT(60), <2>2, <2>4, <2>5 DEF LoopsInv, LoopsFit
  <2>8. \A id \in reconnecting : \E x \in Routines : routine'[x].id = id /\ routine'[x].pc \in LoopStates
    BY SMTT(60), <2>1, <2>3, <2>4 DEF LoopsInv, LoopsFit, LoopStates
  <2>9. LoopsInv'
    BY <1>0, <2>1, <2>4, <2>6, <2>7, <2>8 DEF LoopsInv, LoopsFit
  <2>10. ASSUME NEW id \in IDs, Looked(routine, id) PROVE Looked(routine', id)
    <3>1. Moved(routine, r, new, routine')
      BY <1>0, <2>1 DEF Moved
    <3> QED BY SMTT(60), <2>1, <2>3, <2>10, <3>1, MovedLooks
  <2>11. CASE sw = "running"
    <3>1. (Dropping(peer[p]) => Dropping(rec)) /\ peer[p].add \in EarlyAdds
      BY <2>1, <2>2 DEF Dropping, EarlyAdds
    <3> QED BY <2>1, <2>2, <2>9, <2>10, <2>11, <3>1, OneSought
  <2>12. CASE sw # "running"
    BY <2>1, <2>9, <2>12 DEF SoughtInv
  <2> QED BY <2>9, <2>11, <2>12
<1> QED BY <1>2, <1>3, <1>4, <1>5, <1>6, <1>7 DEF RoutineStep

LEMMA NextSought ==
    IInv /\ StartedInv /\ AloneInv /\ LoopsInv /\ SoughtInv /\ [Next]_vars => LoopsInv' /\ SoughtInv'
<1> SUFFICES ASSUME IInv, StartedInv, AloneInv, LoopsInv, SoughtInv, [Next]_vars
             PROVE  LoopsInv' /\ SoughtInv'
  OBVIOUS
<1>1. ASSUME NEW p \in Peers, PeerStep(p) PROVE LoopsInv' /\ SoughtInv'
  BY <1>1, PeerSought
<1>2. ASSUME NEW r \in Routines, RoutineStep(r) PROVE LoopsInv' /\ SoughtInv'
  BY <1>2, RoutineSought
<1>3. ASSUME NEW id \in IDs, NodeDialFails(id) PROVE LoopsInv' /\ SoughtInv'
  <2>1. /\ \E r \in Routines : routine[r].pc = "idle"
        /\ routine' = Spawned(routine, id) /\ UNCHANGED <<peers, peer, sw, reconnecting, rivals, gaveUp>>
    BY <1>3 DEF NodeDialFails, CanSpawn
  <2>2. routine \in [Routines -> RoutineRecords]
    BY DEF LoopsInv, LoopsFit
  <2>3. LoopsFit(routine', peer, reconnecting)
    BY <2>1, SpawnedFits DEF LoopsInv
  <2>4. \A x \in IDs : Looked(routine, x) => Looked(routine', x)
    BY <2>1, <2>2, SpawnedLooks
  <2>5. SoughtInv'
    BY <2>1, <2>4, LoopSought
  <2> QED BY <2>1, <2>3, <2>5 DEF LoopsInv
<1>4. ASSUME UNCHANGED <<routine, reconnecting>>, \A p \in Peers : peer'[p].by = peer[p].by
      PROVE  LoopsInv'
  BY <1>4, LoopsStay DEF LoopsInv
<1>5. CASE StopSwitch \/ ListPeers \/ StopReactor \/ RemoveNext
  BY <1>4, <1>5 DEF StopSwitch, ListPeers, RemoveNext, StopReactor, SoughtInv
<1>6. CASE StopNext
  <2>1. \A p \in Peers : peer'[p].by = peer[p].by
    BY <1>6 DEF StopNext, Stopped, StartedInv, PeerRecords
  <2> QED BY <1>4, <1>6, <2>1 DEF StopNext, SoughtInv
<1>7. CASE UNCHANGED vars
  BY <1>4, <1>7, LoopSought DEF vars
<1> QED BY <1>1, <1>2, <1>3, <1>5, <1>6, <1>7 DEF Next

LEMMA InitSought == Init => LoopsInv /\ SoughtInv
<1> SUFFICES ASSUME Init PROVE LoopsInv /\ SoughtInv
  OBVIOUS
<1>1. routine \in [Routines -> RoutineRecords] /\ \A p \in Peers : peer[p] = NewPeer
  BY IdleFits DEF Init
<1>2. reconnecting = {}
  BY DEF Init
<1>3. LoopsInv
  BY SMTT(60), <1>1, <1>2 DEF LoopsInv, LoopsFit, NewPeer
<1>4. SoughtInv
  BY SMTT(60), <1>1, SwitchAssumption DEF SoughtInv, Lost, NewPeer
<1> QED BY <1>3, <1>4

\* A peer we dialed and whose connection ended is not forgotten while the
\* switch runs: the goroutines of reconnectToPeer that leave the work to a
\* listed peer or to the entry another one made in reconnecting are never all
\* wrong, unless attempts ran out or connections with the ID met.
THEOREM DroppedPeersStaySought == Spec => []DroppedPeersSought
<1>1. SoughtInv => DroppedPeersSought
  <2> SUFFICES ASSUME SoughtInv, NEW p \in Outbound, sw = "running",
                      ID[p] \notin rivals \cup gaveUp, peer[p].svc = "stopped",
                      \A q \in Peers \ Outbound : ID[q] = ID[p] => peer[q].add \in {"none", "refused"}
               PROVE  \/ Has(peers, ID[p])
                      \/ \E q \in Peers : ID[q] = ID[p] /\ InHand(q)
                      \/ \E r \in Routines : routine[r].pc # "idle" /\ routine[r].id = ID[p]
    BY DEF DroppedPeersSought
  <2>1. ID[p] \in IDs
    BY PeerAssumption, SwitchAssumption
  <2>2. Lost(ID[p]) /\ Early(ID[p])
    BY DEF Lost, Early, EarlyAdds
  <2>3. Wanted(ID[p])
    BY <2>1, <2>2 DEF SoughtInv
  <2> QED BY <2>3 DEF Wanted, Looked, Dropping, InHand
<1> QED BY <1>1, InitIInv, NextIInv, InitStarted, NextStarted, InitAlone, NextAlone,
           InitSought, NextSought, PTL DEF Spec

-----------------------------------------------------------------------------
(* Types.                                                                    *)

SwitchStates == {"running", "stopping", "listed", "removing", "stopped"}

RestTyped ==
    /\ sw \in SwitchStates /\ reactor \in BOOLEAN /\ panicked \in BOOLEAN
    /\ rivals \subseteq IDs /\ gaveUp \subseteq IDs /\ faults \in 0..MaxFaults

LEMMA RetryGivesUp ==
    ASSUME LoopsInv, gaveUp \subseteq IDs, NEW r \in Routines, NEW rt, Retry(r, rt)
    PROVE  gaveUp' \subseteq IDs
<1>1. routine[r].id \in IDs
  BY DEF LoopsInv, LoopsFit, RoutineRecords
<1> QED BY <1>1 DEF Retry

LEMMA DialedGivesUp ==
    ASSUME StartedInv, LoopsInv, gaveUp \subseteq IDs, NEW p \in Peers, NEW result, Dialed(p, result)
    PROVE  gaveUp' \subseteq IDs
<1>1. CASE peer[p].by = 0
  BY <1>1 DEF Dialed
<1>2. CASE peer[p].by # 0
  <2> DEFINE r == peer[p].by
  <2>1. r \in Routines
    BY <1>2 DEF StartedInv, PeerRecords
  <2>2. Return(r) \/ Retry(r, routine)
    BY <1>2 DEF Dialed
  <2> HIDE DEF r
  <2>3. CASE Return(r)
    BY <2>3 DEF Return
  <2>4. CASE Retry(r, routine)
    BY <2>1, <2>4, RetryGivesUp
  <2> QED BY <2>2, <2>3, <2>4
<1> QED BY <1>1, <1>2

LEMMA NextTyped == StartedInv /\ LoopsInv /\ RestTyped /\ [Next]_vars => RestTyped'
<1> SUFFICES ASSUME StartedInv, LoopsInv, RestTyped, [Next]_vars PROVE RestTyped'
  BY SMTT(60)
<1> USE DEF RestTyped
<1>0. Fault => faults' \in 0..MaxFaults
  BY SMTT(60), SwitchAssumption DEF Fault
<1>1. ASSUME NEW p \in Peers, PeerStep(p) PROVE RestTyped'
  <2>0. ID[p] \in IDs
    BY PeerAssumption
  <2>1. CASE NodeDials(p) \/ Accept(p) \/ StartPeer(p)
    BY <2>1 DEF NodeDials, Accept, StartPeer
  <2>2. CASE HandshakeFails(p)
    BY <1>0, <2>2, DialedGivesUp DEF HandshakeFails
  <2>3. CASE HandshakeDone(p)
    <3>1. CASE Has(peers, ID[p])
      BY <2>3, <3>1, DialedGivesUp DEF HandshakeDone
    <3>2. CASE ~Has(peers, ID[p])
      BY <2>0, <2>3, <3>2 DEF HandshakeDone
    <3> QED BY <3>1, <3>2
  <2>4. CASE AddToPeers(p)
    <3>1. \E result \in {"ok", "duplicate"} : Dialed(p, result)
      BY <2>4 DEF AddToPeers
    <3>2. gaveUp' \subseteq IDs
      BY <3>1, DialedGivesUp
    <3> QED BY <2>4, <3>2 DEF AddToPeers
  <2>5. CASE ConnError(p)
    BY <1>0, <2>5 DEF ConnError
  <2>6. CASE AskToStop(p)
    BY <1>0, <2>6 DEF AskToStop
  <2>7. ASSUME NEW k \in {"error", "asked"}, DropRemoves(p, k) PROVE RestTyped'
    BY <2>7 DEF DropRemoves
  <2>8. ASSUME NEW k \in {"error", "asked"}, DropStops(p, k) PROVE RestTyped'
    BY <2>8 DEF DropStops, StopPeer
  <2> QED BY <1>1, <2>1, <2>2, <2>3, <2>4, <2>5, <2>6, <2>7, <2>8 DEF PeerStep
<1>2. ASSUME NEW r \in Routines, RoutineStep(r) PROVE RestTyped'
  <2>1. CASE ReconnectWakes(r) \/ ReconnectLooks(r) \/ ReconnectEnters(r)
             \/ \E p \in Peers : ReconnectDials(r, p)
    BY <2>1 DEF ReconnectWakes, ReconnectLooks, ReconnectEnters, ReconnectDials
  <2>2. CASE ReconnectChecks(r)
    BY <2>2 DEF ReconnectChecks, Return
  <2>3. CASE ReconnectFails(r)
    BY <1>0, <2>3, RetryGivesUp DEF ReconnectFails
  <2> QED BY <1>2, <2>1, <2>2, <2>3 DEF RoutineStep
<1>3. ASSUME NEW id \in IDs, NodeDialFails(id) PROVE RestTyped'
  BY <1>0, <1>3 DEF NodeDialFails
<1>4. CASE StopSwitch \/ ListPeers \/ RemoveNext \/ StopReactor
  BY <1>4 DEF StopSwitch, ListPeers, RemoveNext, StopReactor, SwitchStates
<1>5. CASE StopNext
  <2>1. panicked' \in BOOLEAN
    BY <1>5 DEF StopNext, StopPeer
  <2> QED BY <1>5, <2>1 DEF StopNext, SwitchStates
<1>6. CASE UNCHANGED vars
  BY <1>6 DEF vars
<1> QED BY <1>1, <1>2, <1>3, <1>4, <1>5, <1>6 DEF Next

\* Every variable of the switch stays in its type: no peer object, goroutine or
\* list entry gets into a state that the code has no case for, and a goroutine
\* never exceeds the attempts of reconnectToPeer's two loops.
THEOREM SwitchTypeCorrect == Spec => []TypeOK
<1>1. ASSUME Init PROVE RestTyped
  <2>1. faults \in 0..MaxFaults
    BY SMTT(60), <1>1, SwitchAssumption DEF Init
  <2> QED BY <1>1, <2>1 DEF Init, RestTyped, SwitchStates
<1>2. IInv /\ StartedInv /\ LoopsInv /\ RestTyped => TypeOK
  <2> SUFFICES ASSUME IInv, StartedInv, LoopsInv, RestTyped PROVE TypeOK
    OBVIOUS
  <2>1. peers \in PeerSets /\ toStop \in Seq(Peers) /\ peer \in [Peers -> PeerRecords]
    BY DEF IInv, StartedInv
  <2>2. routine \in [Routines -> RoutineRecords] /\ reconnecting \subseteq IDs
    BY DEF LoopsInv, LoopsFit
  <2>3. RoutineRecords = [pc : {"idle", "waiting", "absent", "entering", "looping", "ready", "dialing"},
                          id : IDs, tries : Tries]
    <3>1. {"idle", "waiting", "absent", "entering"} \cup LoopStates
            = {"idle", "waiting", "absent", "entering", "looping", "ready", "dialing"}
      BY DEF LoopStates
    <3> QED BY <3>1 DEF RoutineRecords
  <2> QED BY <2>1, <2>2, <2>3 DEF TypeOK, PeerRecords, RestTyped, SwitchStates
<1> QED BY <1>1, <1>2, InitIInv, NextIInv, InitStarted, NextStarted, InitAlone, NextAlone,
           InitSought, NextSought, NextTyped, PTL DEF Spec
=============================================================================
