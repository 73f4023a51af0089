------------------------- MODULE NodeServiceProofs -------------------------
(***************************************************************************)
(* No change of a member is missed and no running service is lost, for any *)
(* number of committees, members and calls.                                *)
(***************************************************************************)
EXTENDS NodeService, TLAPS

\* A leaf that names no prover is the SMT solver's.
USE SMTT(60)

HasSignal(ch) == \E i \in DOMAIN ch : ch[i]

\* false is sent only to stop, so before that a full channel holds a signal.
OnlySignals(ch) == \A i \in DOMAIN ch : ch[i]

\* What keeps a change from being missed.  While updateNodes holds s.lock, the
\* changes it has not seen are those of members it still has to look at.
Steady(s) ==
    /\ s.sw # "stopped" => OnlySignals(s.chan)
    /\ s.singleCon = (s.updater # "none")
    /\ s.updater = "locked" => s.due \subseteq s.todo

Signalled(s) ==
    s.due # {} /\ s.sw # "stopped" /\ nodesHaveSelf(s)
      => \/ s.senders > 0 \/ HasSignal(s.chan)
         \/ s.updater = "started" \/ s.due \subseteq s.todo

\* UpdateCommittee has still to send the signal for a service it stops.
Owed(c) == call # Nil /\ call.op = "stop" /\ call.signal = TRUE /\ c \in call.ids

\* The services a call is about.
About(k) == IF k.op = "stop" THEN k.ids ELSE {k.id}

IInv ==
    /\ svc \in [Ids -> Services \cup {Nil}]
    /\ services \subseteq Ids /\ \A c \in services : svc[c] \in Services
    /\ call \in Calls \cup {Nil}
    /\ call # Nil => \A c \in About(call) : c \in Ids /\ svc[c] \in Services
    /\ \A c \in Ids : svc[c] # Nil => Steady(svc[c]) /\ (Signalled(svc[c]) \/ Owed(c))
    /\ RunningServicesListed
-----------------------------------------------------------------------------
(* The channel.                                                              *)

LEMMA Sent ==
    ASSUME NEW ch \in Seq(BOOLEAN)
    PROVE  /\ Append(ch, TRUE) \in Seq(BOOLEAN) /\ Append(ch, FALSE) \in Seq(BOOLEAN)
           /\ HasSignal(Append(ch, TRUE))
           /\ OnlySignals(ch) => OnlySignals(Append(ch, TRUE))
<1>1. /\ Append(ch, TRUE) \in Seq(BOOLEAN) /\ Append(ch, FALSE) \in Seq(BOOLEAN)
      /\ Len(ch) \in Nat /\ DOMAIN ch = 1..Len(ch)
  OBVIOUS
<1>2. /\ DOMAIN Append(ch, TRUE) = 1 .. Len(ch) + 1
      /\ Append(ch, TRUE)[Len(ch) + 1] = TRUE
      /\ \A i \in 1..Len(ch) : Append(ch, TRUE)[i] = ch[i]
  OBVIOUS
<1>3. Len(ch) + 1 \in 1 .. Len(ch) + 1 /\ \A i \in 1 .. Len(ch) + 1 : i \in 1..Len(ch) \/ i = Len(ch) + 1
  BY <1>1
<1> QED BY <1>1, <1>2, <1>3 DEF HasSignal, OnlySignals

LEMMA Read ==
    ASSUME NEW ch \in Seq(BOOLEAN), ch # <<>>
    PROVE  /\ Tail(ch) \in Seq(BOOLEAN)
           /\ OnlySignals(ch) => Head(ch) = TRUE /\ OnlySignals(Tail(ch))
<1>1. /\ Tail(ch) \in Seq(BOOLEAN) /\ Len(ch) \in Nat \ {0} /\ DOMAIN ch = 1..Len(ch)
      /\ Head(ch) = ch[1] /\ DOMAIN Tail(ch) = 1 .. Len(ch) - 1
      /\ \A i \in 1 .. Len(ch) - 1 : Tail(ch)[i] = ch[i + 1]
  OBVIOUS
<1>2. 1 \in DOMAIN ch /\ \A i \in DOMAIN Tail(ch) : i + 1 \in DOMAIN ch
  BY <1>1
<1>3. \A i \in DOMAIN ch : ch[i] \in BOOLEAN
  OBVIOUS
<1> QED BY ZenonT(60), <1>1, <1>2, <1>3 DEF OnlySignals

LEMMA FullHasSignal ==
    ASSUME NEW ch \in Seq(BOOLEAN), OnlySignals(ch), Len(ch) >= UpdateChanSize
    PROVE  HasSignal(ch)
<1>1. 1 \in DOMAIN ch
  BY DEF UpdateChanSize
<1> QED BY <1>1 DEF OnlySignals, HasSignal

-----------------------------------------------------------------------------
(* The services.                                                             *)

\* A step that replaces one service and keeps the others in n.services or
\* among the displaced.
LEMMA OneService ==
    ASSUME IInv, NEW c \in Ids, NEW s \in Services, svc' = [svc EXCEPT ![c] = s],
           Steady(s), Signalled(s) \/ Owed(c)',
           \A d \in Ids \ {c} : Owed(d) => Owed(d)',
           services' \subseteq services \cup {c},
           call' \in Calls \cup {Nil},
           call' # Nil => \A d \in About(call') : d = c \/ (d \in Ids /\ svc[d] \in Services),
           \A d \in Ids \ {c} : Running(svc[d]) => d \in services' \cup displaced',
           Running(s) => c \in services' \cup displaced'
    PROVE  IInv'
<1>1. svc' \in [Ids -> Services \cup {Nil}]
  BY DEF IInv
<1>2. svc'[c] = s /\ \A d \in Ids \ {c} : svc'[d] = svc[d]
  BY DEF IInv
<1>3. services' \subseteq Ids /\ \A d \in services' : svc'[d] \in Services
  BY <1>2 DEF IInv
<1>4. call' # Nil => \A d \in About(call') : d \in Ids /\ svc'[d] \in Services
  BY <1>2
<1>5. \A d \in Ids : svc'[d] # Nil => Steady(svc'[d]) /\ (Signalled(svc'[d]) \/ Owed(d)')
  BY <1>2 DEF IInv
<1>6. RunningServicesListed'
  BY <1>2 DEF RunningServicesListed
<1> QED BY <1>1, <1>3, <1>4, <1>5, <1>6 DEF IInv

\* The goroutines of a service.
LEMMA GoroutineStep ==
    ASSUME IInv, NEW c \in Ids, svc[c] # Nil, NEW s \in Services, Set(c, s), UNCHANGED nodeVars,
           s.sw = svc[c].sw, Steady(s), Signalled(svc[c]) => Signalled(s)
    PROVE  IInv'
<1>1. svc' = [svc EXCEPT ![c] = s] /\ services' = services /\ call' = call /\ displaced' = displaced
  BY DEF Set, nodeVars
<1>2. \A d \in Ids : Owed(d) => Owed(d)'
  BY <1>1 DEF Owed
<1>3. Signalled(svc[c]) \/ Owed(c)
  BY DEF IInv
<1>4. call' # Nil => \A d \in About(call') : d \in Ids /\ svc[d] \in Services
  BY <1>1 DEF IInv
<1>5. \A d \in Ids : Running(svc[d]) => d \in services' \cup displaced'
  BY <1>1 DEF IInv, RunningServicesListed
<1>6. Running(s) => Running(svc[c])
  BY DEF Running
<1> QED BY ZenonT(60), <1>1, <1>2, <1>3, <1>4, <1>5, <1>6, OneService DEF IInv

\* A signal that is read either finds an updateNodes at work, which has yet to
\* look at every member with a change, or starts one.
LEMMA LoopIInv ==
    ASSUME IInv, NEW c \in Ids, Loop(c)
    PROVE  IInv'
<1> DEFINE s == svc[c]
           t == LoopTurn(s)
           tail == Tail(s.chan)
<1>1. s \in Services /\ s # Nil /\ s.chan # <<>> /\ s.chan \in Seq(BOOLEAN) /\ Steady(s)
  BY DEF Loop, IInv, Services
<1>2. tail \in Seq(BOOLEAN) /\ (s.sw # "stopped" => Head(s.chan) = TRUE /\ OnlySignals(tail))
  BY ZenonT(60), <1>1, Read DEF Steady
<1> HIDE DEF tail
<1>3. t \in { [s EXCEPT !.chan = tail, !.loop = FALSE], [s EXCEPT !.chan = tail],
              [s EXCEPT !.chan = tail, !.singleCon = TRUE, !.updater = "started"] }
  BY ZenonT(60) DEF LoopTurn, tail
<1>4. t \in Services /\ t.sw = s.sw /\ t.chan = tail /\ t.due = s.due /\ t.todo = s.todo
      /\ t.used = s.used /\ t.senders = s.senders
      /\ \/ t.updater = "started" /\ t.singleCon = TRUE
         \/ t.updater = s.updater /\ t.singleCon = s.singleCon
  <2> HIDE DEF t, s
  <2>1. CASE t = [s EXCEPT !.chan = tail, !.loop = FALSE]
    BY ZenonT(60), <1>1, <1>2, <2>1 DEF Services
  <2>2. CASE t = [s EXCEPT !.chan = tail]
    BY ZenonT(60), <1>1, <1>2, <2>2 DEF Services
  <2>3. CASE t = [s EXCEPT !.chan = tail, !.singleCon = TRUE, !.updater = "started"]
    BY ZenonT(60), <1>1, <1>2, <2>3 DEF Services
  <2> QED BY ZenonT(60), <1>3, <2>1, <2>2, <2>3
<1>5. s.sw # "stopped" => t.updater # "none"
  BY ZenonT(60), <1>1, <1>2 DEF LoopTurn, Steady, Services, tail
<1> HIDE DEF t
<1>6. Steady(t)
  BY ZenonT(60), <1>1, <1>2, <1>4 DEF Steady
<1>7. Signalled(t)
  BY <1>4, <1>5, <1>6 DEF Signalled, Steady, Services
<1> QED BY <1>1, <1>4, <1>6, <1>7, GoroutineStep DEF Loop, t

LEMMA SenderIInv ==
    ASSUME IInv, NEW c \in Ids, Sender(c)
    PROVE  IInv'
<1> DEFINE s == svc[c]
           n == s.senders - 1
           ch == Append(s.chan, TRUE)
           t == [s EXCEPT !.senders = n, !.chan = ch]
<1>1. s \in Services /\ s # Nil /\ s.chan \in Seq(BOOLEAN) /\ Steady(s) /\ n \in Nat
  BY DEF Sender, IInv, Services
<1>2. ch \in Seq(BOOLEAN) /\ HasSignal(ch) /\ (OnlySignals(s.chan) => OnlySignals(ch))
  BY ZenonT(60), <1>1, Sent
<1> HIDE DEF ch, n
<1>3. t \in Services /\ t.sw = s.sw /\ t.chan = ch /\ t.due = s.due /\ t.todo = s.todo
      /\ t.updater = s.updater /\ t.singleCon = s.singleCon
  BY ZenonT(60), <1>1, <1>2 DEF Services
<1>4. Set(c, t)
  BY DEF Sender, ch, n
<1> HIDE DEF t
<1>5. Steady(t) /\ Signalled(t)
  BY <1>1, <1>2, <1>3 DEF Steady, Signalled
<1> QED BY <1>1, <1>3, <1>4, <1>5, GoroutineStep DEF Sender

\* updateNodes begins with every member ahead of it and ends with none.
LEMMA UpdateNodesIInv ==
    ASSUME IInv, NEW c \in Ids, updateNodes(c)
    PROVE  IInv'
<1> DEFINE s == svc[c]
<1>1. s \in Services /\ s # Nil /\ Steady(s)
  BY ZenonT(60) DEF updateNodes, UpdateNodesLocks, UpdateNodesReturns, UpdateNodesUnlocks, connTo, IInv
<1>2. CASE UpdateNodesLocks(c)
  <2> DEFINE t == [s EXCEPT !.updater = "locked", !.todo = Members]
  <2>1. Set(c, t) /\ UNCHANGED nodeVars /\ s.updater = "started"
    BY <1>2 DEF UpdateNodesLocks
  <2>2. t \in Services /\ t.sw = s.sw /\ t.chan = s.chan /\ t.due = s.due /\ t.todo = Members
        /\ t.updater = "locked" /\ t.singleCon = s.singleCon /\ t.due \subseteq Members
    BY ZenonT(60), <1>1 DEF Services
  <2> HIDE DEF t
  <2>3. Steady(t) /\ Signalled(t)
    BY <1>1, <2>1, <2>2 DEF Steady, Signalled
  <2> QED BY <1>1, <2>1, <2>2, <2>3, GoroutineStep
<1>3. CASE UpdateNodesReturns(c)
  <2> DEFINE t == [s EXCEPT !.updater = "none", !.singleCon = FALSE, !.unlocking = TRUE]
  <2>1. Set(c, t) /\ UNCHANGED nodeVars /\ s.updater = "locked" /\ s.todo = {}
    BY <1>3 DEF UpdateNodesReturns
  <2>2. t \in Services /\ t.sw = s.sw /\ t.chan = s.chan /\ t.due = s.due
        /\ t.updater = "none" /\ t.singleCon = FALSE
    BY ZenonT(60), <1>1 DEF Services
  <2> HIDE DEF t
  <2>3. s.due = {}
    BY <1>1, <2>1 DEF Steady
  <2>4. Steady(t) /\ Signalled(t)
    BY ZenonT(60), <1>1, <2>2, <2>3 DEF Steady, Signalled
  <2> QED BY <1>1, <2>1, <2>2, <2>4, GoroutineStep
<1>4. ASSUME NEW p \in Members, connTo(c, p) PROVE IInv'
  <2>1. PICK dialled \in {{}, {p}} :
          Set(c, [s EXCEPT !.todo = @ \ {p}, !.due = @ \ {p}, !.enable = @ \cup dialled])
    BY ZenonT(60), <1>4 DEF connTo
  <2> DEFINE t == [s EXCEPT !.todo = @ \ {p}, !.due = @ \ {p}, !.enable = @ \cup dialled]
  <2>2. UNCHANGED nodeVars /\ s.updater = "locked"
    BY <1>4 DEF connTo
  <2>3. t \in Services /\ t.sw = s.sw /\ t.chan = s.chan /\ t.due = s.due \ {p}
        /\ t.todo = s.todo \ {p} /\ t.updater = s.updater /\ t.singleCon = s.singleCon
    BY ZenonT(60), <1>1 DEF Services
  <2>4. Set(c, t)
    BY <2>1
  <2> HIDE DEF t
  <2>5. Steady(t) /\ Signalled(t)
    BY <1>1, <2>2, <2>3 DEF Steady, Signalled
  <2> QED BY <1>1, <2>2, <2>3, <2>4, <2>5, GoroutineStep
<1>5. CASE UpdateNodesUnlocks(c)
  <2> DEFINE t == [s EXCEPT !.unlocking = FALSE]
  <2>1. Set(c, t) /\ UNCHANGED nodeVars
    BY <1>5 DEF UpdateNodesUnlocks
  <2>2. t \in Services /\ t.sw = s.sw /\ t.chan = s.chan /\ t.due = s.due /\ t.todo = s.todo
        /\ t.updater = s.updater /\ t.singleCon = s.singleCon /\ t.senders = s.senders
        /\ t.used = s.used
    BY ZenonT(60), <1>1 DEF Services
  <2> HIDE DEF t
  <2>3. Steady(t) /\ (Signalled(s) => Signalled(t))
    BY ZenonT(60), <1>1, <2>2 DEF Steady, Signalled, nodesHaveSelf
  <2> QED BY <1>1, <2>1, <2>2, <2>3, GoroutineStep
<1> QED BY <1>2, <1>3, <1>4, <1>5 DEF updateNodes
-----------------------------------------------------------------------------
(* The calls.                                                                *)

LEMMA PutCommitteeIInv ==
    ASSUME IInv, NEW c \in Ids, NEW used \in UsedSets, PutCommittee(c, used)
    PROVE  IInv'
<1> DEFINE t == newNodeService(used)
<1>1. t \in Services /\ t.sw = "new" /\ t.chan = <<>> /\ t.due = {} /\ t.updater = "none"
      /\ t.singleCon = FALSE
  BY NodeAssumption DEF newNodeService, Services
<1>2. svc' = [svc EXCEPT ![c] = t] /\ services' = services \cup {c} /\ displaced' = displaced
      /\ call = Nil /\ call' = Nil
  BY DEF PutCommittee, Set
<1> HIDE DEF t
<1>3. Steady(t) /\ Signalled(t) /\ ~Running(t)
  <2>1. DOMAIN t.chan = {}
    BY <1>1
  <2>2. OnlySignals(t.chan)
    BY <2>1, ZenonT(60) DEF OnlySignals
  <2> QED BY ZenonT(60), <1>1, <2>2 DEF Steady, Signalled, Running
<1>4. \A d \in Ids : ~Owed(d)
  BY <1>2 DEF Owed
<1>5. \A d \in Ids : Running(svc[d]) => d \in services' \cup displaced'
  BY <1>2 DEF IInv, RunningServicesListed
<1> QED BY ZenonT(60), <1>1, <1>2, <1>3, <1>4, <1>5, OneService

\* The service that is started is in n.services, and the one that is deleted
\* is another.
LEMMA NotifyStartIInv ==
    ASSUME IInv, NEW c \in Ids, NotifyStart(c)
    PROVE  IInv'
<1> DEFINE s == svc[c]
           t == start(s)
<1>1. s \in Services /\ c \in services /\ call = Nil /\ call' = Nil /\ svc' = [svc EXCEPT ![c] = t]
  BY DEF NotifyStart, IInv, Set
<1>2. t \in Services /\ t.chan = s.chan /\ t.due = s.due /\ t.todo = s.todo /\ t.used = s.used
      /\ t.updater = s.updater /\ t.singleCon = s.singleCon /\ t.senders = s.senders
      /\ (t.sw = s.sw \/ (s.sw = "new" /\ t.sw = "running"))
  BY ZenonT(60), <1>1 DEF start, Services
<1> HIDE DEF t
<1>3. services' \subseteq services /\ c \in services'
  BY <1>1 DEF NotifyStart
<1>4. \A d \in Ids : Running(svc[d]) => d \in services' \cup displaced'
  BY DEF NotifyStart, IInv, RunningServicesListed
<1>5. \A d \in Ids : ~Owed(d)
  BY <1>1 DEF Owed
<1>6. Steady(s) /\ Signalled(s)
  BY <1>1, <1>5, NodeAssumption DEF IInv
<1>7. Steady(t) /\ Signalled(t)
  BY <1>2, <1>6 DEF Steady, Signalled, nodesHaveSelf
<1> QED BY ZenonT(60), <1>1, <1>2, <1>3, <1>4, <1>5, <1>7, OneService

\* A step that leaves every service alone.
LEMMA CallOnly ==
    ASSUME IInv, UNCHANGED <<svc, services, displaced>>, call' \in Calls \cup {Nil},
           call' # Nil => \A d \in About(call') : d \in Ids /\ svc[d] \in Services,
           \A d \in Ids : Owed(d) => Owed(d)'
    PROVE  IInv'
<1>1. \A d \in Ids : svc'[d] # Nil => Steady(svc'[d]) /\ (Signalled(svc'[d]) \/ Owed(d)')
  BY DEF IInv
<1>2. RunningServicesListed'
  BY DEF IInv, RunningServicesListed
<1> QED BY <1>1, <1>2 DEF IInv

LEMMA TakeIInv ==
    ASSUME IInv, NEW k \in Calls, Take(k), \A d \in About(k) : d \in services
    PROVE  IInv'
<1>1. call = Nil /\ call' = k /\ UNCHANGED <<svc, services, displaced>>
  BY DEF Take
<1>2. \A d \in About(k) : d \in Ids /\ svc[d] \in Services
  BY DEF IInv
<1>3. \A d \in Ids : ~Owed(d)
  BY <1>1 DEF Owed
<1> QED BY <1>1, <1>2, <1>3, CallOnly

\* stop: the signal UpdateCommittee owes is sent when its service is stopped.
LEMMA StopOneIInv ==
    ASSUME IInv, NEW c \in Ids, StopOne(c)
    PROVE  IInv'
<1> DEFINE s == svc[c]
           ch == Append(s.chan, FALSE)
           stopped == IF Running(s) THEN [s EXCEPT !.chan = ch, !.sw = "stopped"] ELSE s
           n == stopped.senders + 1
           t == IF call.signal THEN [stopped EXCEPT !.senders = n] ELSE stopped
<1>1. call \in [op : {"stop"}, ids : SUBSET Ids, signal : BOOLEAN] /\ call # Nil /\ c \in call.ids
  BY DEF StopOne, IInv, Calls
<1>2. s \in Services /\ s.chan \in Seq(BOOLEAN)
  BY <1>1 DEF IInv, About, Services
<1>3. Steady(s) /\ (Signalled(s) \/ Owed(c)) /\ s # Nil
  BY <1>2, NodeAssumption DEF IInv
<1>4. ch \in Seq(BOOLEAN)
  BY <1>2, Sent
<1>5. svc' = [svc EXCEPT ![c] = t] /\ call' = [call EXCEPT !.ids = @ \ {c}]
      /\ UNCHANGED <<services, displaced>>
  BY DEF StopOne, Set
<1> HIDE DEF ch
<1>6. stopped \in Services /\ (stopped = s \/ stopped.sw = "stopped")
      /\ stopped.due = s.due /\ stopped.todo = s.todo /\ stopped.updater = s.updater
      /\ stopped.singleCon = s.singleCon /\ (Running(s) => stopped.sw = "stopped")
  BY ZenonT(60), <1>2, <1>4 DEF Services
<1> HIDE DEF stopped
<1>7. n \in Nat /\ n > 0
  BY <1>6 DEF Services
<1> HIDE DEF n
<1>8. t \in Services /\ t.sw = stopped.sw /\ t.chan = stopped.chan /\ t.due = stopped.due
      /\ t.todo = stopped.todo /\ t.updater = stopped.updater /\ t.used = stopped.used
      /\ t.singleCon = stopped.singleCon
      /\ (call.signal = TRUE => t.senders > 0) /\ (call.signal = FALSE => t = stopped)
  BY <1>1, <1>6, <1>7 DEF Services
<1> HIDE DEF t, s
<1>9. Steady(stopped) /\ (Signalled(stopped) \/ call.signal = TRUE)
  BY <1>3, <1>6 DEF Steady, Signalled, Owed
<1>10. Steady(t)
  BY <1>8, <1>9 DEF Steady
<1>11. Signalled(t)
  <2>1. CASE call.signal = TRUE
    BY <1>8, <2>1 DEF Signalled
  <2>2. CASE call.signal = FALSE
    BY <1>8, <1>9, <2>2
  <2> QED BY ZenonT(60), <1>1, <2>1, <2>2
<1>12. /\ call' \in Calls /\ call'.op = "stop" /\ call'.ids = call.ids \ {c} /\ call'.signal = call.signal
       /\ call' # Nil => About(call') \subseteq call.ids
  BY <1>1, <1>5 DEF Calls, About
<1>13. \A d \in Ids \ {c} : Owed(d) => Owed(d)'
  BY <1>12, NodeAssumption DEF Owed
<1>14. \A d \in call.ids : d \in Ids /\ svc[d] \in Services
  BY <1>1 DEF IInv, About
<1>15. \A d \in Ids \ {c} : Running(svc[d]) => d \in services' \cup displaced'
  BY <1>5 DEF IInv, RunningServicesListed
<1>16. ~Running(t)
  BY <1>3, <1>6, <1>8 DEF Running
<1> QED BY ZenonT(60), <1>5, <1>8, <1>10, <1>11, <1>12, <1>13, <1>14, <1>15, <1>16, OneService

\* putNodes: where no signal is sent, none is needed or one is still unread.
LEMMA PutNodesIInv ==
    ASSUME IInv, PutNodesLocked
    PROVE  IInv'
<1>1. /\ call \in [op : {"put"}, id : Ids, listed : SUBSET Peers, changed : SUBSET Peers,
                   resolved : SUBSET Peers]
      /\ call # Nil
  BY DEF PutNodesLocked, IInv, Calls
<1> PICK c \in Ids : c = call.id
  BY <1>1
<1> DEFINE s == svc[c]
           addr == (s.addr \ call.listed) \cup call.resolved
           due == s.due \cup call.changed
           ch == Append(s.chan, TRUE)
           t == putNodes(s, call.listed, call.changed, call.resolved)
<1>2. c \in Ids /\ s \in Services /\ s.chan \in Seq(BOOLEAN) /\ s.updater # "locked"
  BY <1>1 DEF IInv, About, Services, PutNodesLocked, Locked
<1>3. Steady(s) /\ Signalled(s)
  BY <1>1, <1>2, NodeAssumption DEF IInv, Owed
<1>4. ch \in Seq(BOOLEAN) /\ HasSignal(ch) /\ (OnlySignals(s.chan) => OnlySignals(ch))
  BY ZenonT(60), <1>2, Sent
<1>5. addr \in SUBSET Members /\ due \in SUBSET Members
  BY <1>1, <1>2 DEF Services, Members
<1>6. t \in {[s EXCEPT !.addr = addr, !.due = due], [s EXCEPT !.addr = addr, !.due = due, !.chan = ch]}
  BY DEF putNodes
<1>7. \/ call.changed = {} \/ ~nodesHaveSelf(s) \/ Len(s.chan) >= UpdateChanSize
      \/ t = [s EXCEPT !.addr = addr, !.due = due, !.chan = ch]
  BY DEF putNodes, Full
<1>8. Set(c, t) /\ call' = Nil /\ UNCHANGED <<services, displaced>>
  BY DEF PutNodesLocked
<1> HIDE DEF addr, ch, t
<1>9. t \in Services /\ t.sw = s.sw /\ t.todo = s.todo /\ t.updater = s.updater /\ t.used = s.used
      /\ t.singleCon = s.singleCon /\ t.senders = s.senders /\ t.due = due /\ t.chan \in {s.chan, ch}
      /\ (t = [s EXCEPT !.addr = addr, !.due = due, !.chan = ch] => t.chan = ch)
  <2> HIDE DEF s, due
  <2>1. CASE t = [s EXCEPT !.addr = addr, !.due = due]
    <3>1. t.chan = s.chan /\ t \in Services
      BY ZenonT(60), <1>2, <1>5, <2>1 DEF Services
    <3>2. t = [s EXCEPT !.addr = addr, !.due = due, !.chan = ch] => t.chan = ch
      BY <1>2 DEF Services
    <3> QED BY <1>2, <2>1, <3>1, <3>2 DEF Services
  <2>2. CASE t = [s EXCEPT !.addr = addr, !.due = due, !.chan = ch]
    BY ZenonT(60), <1>2, <1>4, <1>5, <2>2 DEF Services
  <2> QED BY <1>6, <2>1, <2>2
<1>10. Steady(t)
  BY <1>2, <1>3, <1>4, <1>9 DEF Steady
<1>11. Signalled(t)
  <2> SUFFICES ASSUME t.sw # "stopped", nodesHaveSelf(t), t.chan = s.chan, ~HasSignal(t.chan)
               PROVE  Signalled(t)
    BY <1>4, <1>9 DEF Signalled
  <2>1. nodesHaveSelf(s)
    BY <1>9 DEF nodesHaveSelf
  <2>2. OnlySignals(s.chan) /\ ~(Len(s.chan) >= UpdateChanSize)
    BY <1>2, <1>3, <1>9, FullHasSignal DEF Steady
  <2>3. call.changed = {}
    BY <1>4, <1>7, <1>9, <2>1, <2>2
  <2> QED BY <1>3, <1>9, <2>1, <2>3 DEF Signalled
<1>12. \A d \in Ids : ~Owed(d)
  BY <1>1 DEF Owed
<1>13. \A d \in Ids : Running(svc[d]) => d \in services' \cup displaced'
  BY <1>8 DEF IInv, RunningServicesListed
<1>14. Running(t) => Running(s)
  BY <1>2, <1>9, NodeAssumption DEF Running
<1> HIDE DEF s
<1>15. svc' = [svc EXCEPT ![c] = t]
  BY <1>8 DEF Set
<1> QED BY ZenonT(60), <1>2, <1>8, <1>9, <1>10, <1>11, <1>12, <1>13, <1>14, <1>15, OneService DEF s

\* UpdateCommittee signals, or stops the service and then signals.
LEMMA UpdateCommitteeIInv ==
    ASSUME IInv, UpdateCommitteeLocked
    PROVE  IInv'
<1>1. call \in [op : {"update"}, id : Ids, used : SUBSET Members] /\ call # Nil
  BY DEF UpdateCommitteeLocked, IInv, Calls
<1> PICK c \in Ids : c = call.id
  BY <1>1
<1> DEFINE s == svc[c]
           due == s.due \cup (call.used \ s.used)
           n == s.senders + 1
           t == [s EXCEPT !.used = call.used, !.due = due]
           u == [s EXCEPT !.used = call.used, !.due = due, !.senders = n]
<1>2. c \in Ids /\ s \in Services /\ s.updater # "locked" /\ n \in Nat /\ n > 0
  BY <1>1 DEF IInv, About, Services, UpdateCommitteeLocked, Locked
<1>3. Steady(s) /\ due \in SUBSET Members
  BY <1>1, <1>2, NodeAssumption DEF IInv, Services
<1>4. UNCHANGED <<services, displaced>>
      /\ \/ Set(c, t) /\ call' = [op |-> "stop", ids |-> {c}, signal |-> TRUE]
         \/ Set(c, u) /\ call' = Nil
  BY DEF UpdateCommitteeLocked
<1> HIDE DEF due, n
<1>5. \A d \in Ids : ~Owed(d)
  BY <1>1 DEF Owed
<1>6. \A d \in Ids : Running(svc[d]) => d \in services' \cup displaced'
  BY <1>4 DEF IInv, RunningServicesListed
<1>7. CASE Set(c, t) /\ call' = [op |-> "stop", ids |-> {c}, signal |-> TRUE]
  <2>1. t \in Services /\ t.sw = s.sw /\ t.chan = s.chan /\ t.updater = s.updater /\ t.singleCon = s.singleCon
    BY ZenonT(60), <1>1, <1>2, <1>3 DEF Services
  <2>2. svc' = [svc EXCEPT ![c] = t]
    BY <1>7 DEF Set
  <2> HIDE DEF t
  <2>3. Steady(t)
    BY <1>2, <1>3, <2>1 DEF Steady
  <2>4. call' \in Calls /\ About(call') = {c}
    BY <1>2, <1>7 DEF Calls, About
  <2>5. Owed(c)'
    BY ZenonT(60), <1>7, <2>4, NodeAssumption DEF Owed
  <2>6. Running(t) => Running(s)
    BY <1>2, <2>1, NodeAssumption DEF Running
  <2> QED BY ZenonT(60), <1>2, <1>4, <1>5, <1>6, <2>1, <2>2, <2>3, <2>4, <2>5, <2>6, OneService
<1>8. CASE Set(c, u) /\ call' = Nil
  <2>1. u \in Services /\ u.sw = s.sw /\ u.chan = s.chan /\ u.updater = s.updater
        /\ u.singleCon = s.singleCon /\ u.senders = n
    BY ZenonT(60), <1>1, <1>2, <1>3 DEF Services
  <2>2. svc' = [svc EXCEPT ![c] = u]
    BY <1>8 DEF Set
  <2> HIDE DEF u
  <2>3. Steady(u) /\ Signalled(u)
    BY <1>2, <1>3, <2>1 DEF Steady, Signalled
  <2>4. Running(u) => Running(s)
    BY <1>2, <2>1, NodeAssumption DEF Running
  <2> QED BY ZenonT(60), <1>2, <1>4, <1>5, <1>6, <1>8, <2>1, <2>2, <2>3, <2>4, OneService
<1> QED BY <1>4, <1>7, <1>8
-----------------------------------------------------------------------------
LEMMA InitIInv == Init => IInv
  BY DEF Init, IInv, RunningServicesListed, Running

LEMMA NextIInv == IInv /\ [Next]_vars => IInv'
<1> SUFFICES ASSUME IInv, [Next]_vars PROVE IInv'
  OBVIOUS
<1>1. ASSUME NEW c \in Ids, Loop(c) \/ Sender(c) \/ updateNodes(c) \/ NotifyStart(c) PROVE IInv'
  BY <1>1, LoopIInv, SenderIInv, UpdateNodesIInv, NotifyStartIInv
<1>2. ASSUME NEW c \in Ids, NEW used \in UsedSets, PutCommittee(c, used) PROVE IInv'
  BY <1>2, PutCommitteeIInv
<1>3. ASSUME NEW ids \in SUBSET services, Take([op |-> "stop", ids |-> ids, signal |-> FALSE])
      PROVE  IInv'
  <2> DEFINE k == [op |-> "stop", ids |-> ids, signal |-> FALSE]
  <2>1. k \in Calls /\ About(k) = ids
    BY DEF Calls, About, IInv
  <2> HIDE DEF k
  <2> QED BY <1>3, <2>1, TakeIInv DEF k
<1>4. ASSUME NEW c \in Ids, Notify(c) PROVE IInv'
  BY <1>3, <1>4 DEF Notify
<1>5. CASE OnStop
  BY <1>3, <1>5 DEF OnStop
<1>6. ASSUME NEW c \in Ids, NEW used \in UsedSets, UpdateCommittee(c, used) PROVE IInv'
  <2> DEFINE k == [op |-> "update", id |-> c, used |-> used]
  <2>1. k \in Calls /\ About(k) = {c}
    BY NodeAssumption DEF Calls, About
  <2>2. Take(k) /\ c \in services
    BY <1>6 DEF UpdateCommittee
  <2> HIDE DEF k
  <2> QED BY <2>1, <2>2, TakeIInv
<1>7. ASSUME NEW c \in Ids, NEW listed \in SUBSET Peers, NEW changed \in SUBSET listed,
             NEW resolved \in SUBSET listed, PutNodes(c, listed, changed, resolved)
      PROVE  IInv'
  <2> DEFINE k == [op |-> "put", id |-> c, listed |-> listed, changed |-> changed, resolved |-> resolved]
  <2>1. k \in Calls /\ About(k) = {c}
    BY DEF Calls, About
  <2>2. Take(k) /\ c \in services
    BY <1>7 DEF PutNodes
  <2> HIDE DEF k
  <2> QED BY <2>1, <2>2, TakeIInv
<1>8. CASE StopReturns
  <2>1. call' = Nil /\ UNCHANGED <<svc, services, displaced>> /\ \A d \in Ids : ~Owed(d)
    BY <1>8 DEF StopReturns, Owed
  <2> QED BY <2>1, CallOnly
<1>9. CASE CallGoesOn
  BY <1>8, <1>9, StopOneIInv, PutNodesIInv, UpdateCommitteeIInv DEF CallGoesOn
<1>10. CASE UNCHANGED vars
  <2>1. UNCHANGED <<svc, services, displaced, call>>
    BY <1>10 DEF vars
  <2>2. \A d \in Ids : Owed(d) => Owed(d)'
    BY <2>1 DEF Owed
  <2> QED BY <2>1, <2>2, CallOnly DEF IInv
<1> QED BY <1>1, <1>2, <1>4, <1>5, <1>6, <1>7, <1>9, <1>10 DEF Next

\* The inductive invariant of node.go's services: each one is steady, signalled
\* or owed a signal by the call that stops it, and listed while it runs.
THEOREM Invariance == Spec => []IInv
  BY InitIInv, NextIInv, PTL DEF Spec

\* putNodes and UpdateCommittee may find the channel full, their signal may be
\* dropped by the loop, and updateNodes may be at work: a change of a member is
\* never missed, however many committees, members, calls and goroutines meet.
THEOREM NoChangeMissed == Spec => []ChangesSignalled
<1>1. IInv => ChangesSignalled
  BY DEF IInv, ChangesSignalled, Signalled, HasSignal, Owed
<1> QED BY <1>1, Invariance, PTL

\* Whatever is put, started, displaced and stopped, the Node can stop every
\* service that runs, but for those Notify(Start) deleted while they ran.
THEOREM NoServiceLost == Spec => []RunningServicesListed
<1>1. IInv => RunningServicesListed
  BY DEF IInv
<1> QED BY <1>1, Invariance, PTL

\* At most one updateNodes of a service is at work, another may only have to unlock;
\* and while it holds s.lock no member changes that it does not look at afterwards.
THEOREM OneUpdater ==
    Spec => [](\A c \in Ids : svc[c] # Nil => Steady(svc[c]))
<1>1. IInv => \A c \in Ids : svc[c] # Nil => Steady(svc[c])
  BY DEF IInv
<1> QED BY <1>1, Invariance, PTL
-----------------------------------------------------------------------------
(* Bounds.  A call of UpdateCommittee starts one goroutine, at once or when  *)
(* the service it stops has stopped.                                         *)

Owing(c) == call # Nil /\ (Owed(c) \/ (call.op = "update" /\ call.id = c))

\* The goroutine that is still to be started for service c.
Due(c) == IF Owing(c) THEN 1 ELSE 0

Bounded(s) ==
    /\ Len(s.chan) <= UpdateChanSize
    /\ s.updater # "locked" => s.todo = {}
    /\ s.loop => s.sw # "new"

BInv ==
    /\ updates \in 0 .. MaxUpdates
    /\ \A c \in Ids : svc[c] # Nil => Bounded(svc[c]) /\ svc[c].senders + Due(c) <= updates

LEMMA DueLess ==
    ASSUME NEW c, Owing(c)' => Owing(c)
    PROVE  Due(c) \in {0, 1} /\ Due(c)' \in {0, 1} /\ Due(c)' <= Due(c)
<1>1. Due(c) \in {0, 1} /\ Due(c)' \in {0, 1} /\ (Due(c)' = 0 \/ Due(c) = 1)
  BY ZenonT(60) DEF Due
<1> QED BY <1>1

\* A step that replaces one service.
LEMMA OneBounded ==
    ASSUME IInv, BInv, NEW c \in Ids, NEW s, svc' = [svc EXCEPT ![c] = s], updates' = updates,
           Bounded(s), s.senders + Due(c)' <= updates,
           \A d \in Ids \ {c} : Owing(d)' => Owing(d)
    PROVE  BInv'
<1>1. svc'[c] = s /\ \A d \in Ids \ {c} : svc'[d] = svc[d]
  BY ZenonT(60) DEF IInv
<1>2. ASSUME NEW d \in Ids, svc'[d] # Nil
      PROVE  Bounded(svc'[d]) /\ svc'[d].senders + Due(d)' <= updates
  <2>1. CASE d = c
    BY ZenonT(60), <1>1, <2>1
  <2>2. CASE d # c
    <3>1. svc'[d] = svc[d] /\ svc[d] # Nil
      BY ZenonT(60), <1>1, <1>2, <2>2
    <3>2. svc[d].senders \in Nat /\ updates \in Nat /\ svc[d].senders + Due(d) <= updates
          /\ Bounded(svc[d])
      BY <3>1 DEF IInv, BInv, Services
    <3>3. Due(d) \in {0, 1} /\ Due(d)' \in {0, 1} /\ Due(d)' <= Due(d)
      BY ZenonT(60), <2>2, DueLess
    <3>4. svc[d].senders + Due(d)' <= updates
      BY <3>2, <3>3
    <3> QED BY ZenonT(60), <3>1, <3>2, <3>4
  <2> QED BY ZenonT(60), <2>1, <2>2
<1> QED BY ZenonT(60), <1>2 DEF BInv

\* One that leaves the services alone.
LEMMA NoneBounded ==
    ASSUME IInv, BInv, svc' = svc, updates' = updates, \A d \in Ids : Owing(d)' => Owing(d)
    PROVE  BInv'
<1>1. ASSUME NEW d \in Ids, svc[d] # Nil PROVE svc[d].senders + Due(d)' <= updates
  <2>1. svc[d].senders \in Nat /\ updates \in Nat /\ svc[d].senders + Due(d) <= updates
    BY <1>1 DEF IInv, BInv, Services
  <2>2. Due(d) \in {0, 1} /\ Due(d)' \in {0, 1} /\ Due(d)' <= Due(d)
    BY ZenonT(60), DueLess
  <2> QED BY <2>1, <2>2
<1> QED BY ZenonT(60), <1>1 DEF BInv

\* A goroutine of a service, which starts no other.
LEMMA GoroutineBounded ==
    ASSUME IInv, BInv, NEW c \in Ids, svc[c] # Nil, NEW s, Set(c, s), UNCHANGED nodeVars,
           s.senders \in Nat, s.senders <= svc[c].senders, Bounded(s)
    PROVE  BInv'
<1>1. svc' = [svc EXCEPT ![c] = s] /\ call' = call /\ updates' = updates
  BY ZenonT(60) DEF Set, nodeVars
<1>2. \A d \in Ids : Owing(d)' <=> Owing(d)
  BY ZenonT(60), <1>1 DEF Owing, Owed
<1>3. svc[c].senders \in Nat /\ updates \in Nat /\ svc[c].senders + Due(c) <= updates
  BY DEF IInv, BInv, Services
<1>4. Due(c) \in {0, 1} /\ Due(c)' \in {0, 1} /\ Due(c)' <= Due(c)
  BY ZenonT(60), <1>2, DueLess
<1>5. s.senders + Due(c)' <= updates
  BY <1>3, <1>4
<1> QED BY ZenonT(60), <1>1, <1>2, <1>5, OneBounded

LEMMA Lengths ==
    ASSUME NEW ch \in Seq(BOOLEAN), NEW b \in BOOLEAN
    PROVE  /\ Len(Append(ch, b)) = Len(ch) + 1 /\ Len(ch) \in Nat
           /\ ch # <<>> => Len(Tail(ch)) = Len(ch) - 1
  OBVIOUS

\* Where updateNodes starts none is at work.
LEMMA LoopBounded ==
    ASSUME IInv, BInv, NEW c \in Ids, Loop(c)
    PROVE  BInv'
<1> DEFINE s == svc[c]
           t == LoopTurn(s)
           tail == Tail(s.chan)
<1>1. s \in Services /\ s # Nil /\ s.chan # <<>> /\ s.chan \in Seq(BOOLEAN) /\ Steady(s) /\ Bounded(s)
  BY DEF Loop, IInv, BInv, Services
<1>2. Len(tail) <= UpdateChanSize
  <2>1. Len(tail) = Len(s.chan) - 1 /\ Len(s.chan) \in Nat /\ Len(s.chan) <= UpdateChanSize
    BY ZenonT(60), <1>1, Lengths DEF Bounded
  <2> QED BY <2>1 DEF UpdateChanSize
<1> HIDE DEF tail
<1>3. \/ t = [s EXCEPT !.chan = tail, !.loop = FALSE]
      \/ t = [s EXCEPT !.chan = tail]
      \/ t = [s EXCEPT !.chan = tail, !.singleCon = TRUE, !.updater = "started"] /\ ~ s.singleCon
  BY ZenonT(60) DEF LoopTurn, tail
<1>4. t.sw = s.sw /\ t.chan = tail /\ t.todo = s.todo /\ t.senders = s.senders
      /\ (t.loop => s.loop) /\ (t.updater = s.updater \/ s.updater = "none")
  <2> HIDE DEF t, s
  <2>1. CASE t = [s EXCEPT !.chan = tail, !.loop = FALSE]
    BY ZenonT(60), <1>1, <2>1 DEF Services
  <2>2. CASE t = [s EXCEPT !.chan = tail]
    BY ZenonT(60), <1>1, <2>2 DEF Services
  <2>3. CASE t = [s EXCEPT !.chan = tail, !.singleCon = TRUE, !.updater = "started"] /\ ~ s.singleCon
    BY ZenonT(60), <1>1, <2>3 DEF Services, Steady
  <2> QED BY ZenonT(60), <1>3, <2>1, <2>2, <2>3
<1>5. Set(c, t) /\ UNCHANGED nodeVars
  BY ZenonT(60) DEF Loop
<1> HIDE DEF t
<1>6. Bounded(t)
  BY ZenonT(60), <1>1, <1>2, <1>4 DEF Bounded
<1>7. t.senders \in Nat /\ t.senders <= s.senders
  BY <1>1, <1>4 DEF Services
<1> QED BY ZenonT(60), <1>1, <1>5, <1>6, <1>7, GoroutineBounded

LEMMA SenderBounded ==
    ASSUME IInv, BInv, NEW c \in Ids, Sender(c)
    PROVE  BInv'
<1> DEFINE s == svc[c]
           n == s.senders - 1
           ch == Append(s.chan, TRUE)
           t == [s EXCEPT !.senders = n, !.chan = ch]
<1>1. s \in Services /\ s # Nil /\ s.chan \in Seq(BOOLEAN) /\ Bounded(s)
      /\ n \in Nat /\ n <= s.senders /\ ~ Full(s)
  BY DEF Sender, IInv, BInv, Services
<1>2. Len(ch) <= UpdateChanSize
  <2>1. Len(ch) = Len(s.chan) + 1 /\ Len(s.chan) \in Nat
    BY ZenonT(60), <1>1, Lengths
  <2> QED BY <1>1, <2>1 DEF UpdateChanSize, Full
<1>3. Set(c, t) /\ UNCHANGED nodeVars
  BY ZenonT(60) DEF Sender
<1> HIDE DEF ch, n
<1>4. t.sw = s.sw /\ t.chan = ch /\ t.todo = s.todo /\ t.senders = n
      /\ t.loop = s.loop /\ t.updater = s.updater
  BY ZenonT(60), <1>1 DEF Services
<1> HIDE DEF t
<1>5. Bounded(t)
  BY ZenonT(60), <1>1, <1>2, <1>4 DEF Bounded
<1> QED BY ZenonT(60), <1>1, <1>3, <1>4, <1>5, GoroutineBounded

LEMMA UpdateNodesBounded ==
    ASSUME IInv, BInv, NEW c \in Ids, updateNodes(c)
    PROVE  BInv'
<1> DEFINE s == svc[c]
<1>1. s \in Services /\ s # Nil /\ Bounded(s) /\ UNCHANGED nodeVars
  BY ZenonT(60) DEF updateNodes, UpdateNodesLocks, UpdateNodesReturns, UpdateNodesUnlocks, connTo, IInv, BInv
<1>2. s.senders \in Nat /\ s.senders <= s.senders
  BY <1>1 DEF Services
<1>3. ASSUME NEW t, Set(c, t), t.chan = s.chan, t.loop = s.loop, t.sw = s.sw, t.senders = s.senders,
             t.updater # "locked" => t.todo = {}
      PROVE  BInv'
  <2>1. Bounded(t)
    BY ZenonT(60), <1>1, <1>3 DEF Bounded
  <2> QED BY ZenonT(60), <1>1, <1>2, <1>3, <2>1, GoroutineBounded
<1>4. CASE UpdateNodesLocks(c)
  <2> DEFINE t == [s EXCEPT !.updater = "locked", !.todo = Members]
  <2>1. Set(c, t)
    BY ZenonT(60), <1>4 DEF UpdateNodesLocks
  <2>2. /\ t.chan = s.chan /\ t.loop = s.loop /\ t.sw = s.sw /\ t.senders = s.senders
        /\ t.updater = "locked"
    BY ZenonT(60), <1>1 DEF Services
  <2> HIDE DEF t
  <2> QED BY ZenonT(60), <1>3, <2>1, <2>2
<1>5. CASE UpdateNodesReturns(c)
  <2> DEFINE t == [s EXCEPT !.updater = "none", !.singleCon = FALSE, !.unlocking = TRUE]
  <2>1. Set(c, t) /\ s.todo = {}
    BY ZenonT(60), <1>5 DEF UpdateNodesReturns
  <2>2. /\ t.chan = s.chan /\ t.loop = s.loop /\ t.sw = s.sw /\ t.senders = s.senders
        /\ t.todo = s.todo
    BY ZenonT(60), <1>1 DEF Services
  <2> HIDE DEF t
  <2> QED BY ZenonT(60), <1>3, <2>1, <2>2
<1>6. ASSUME NEW p \in Members, connTo(c, p) PROVE BInv'
  <2>1. PICK dialled : Set(c, [s EXCEPT !.todo = @ \ {p}, !.due = @ \ {p}, !.enable = @ \cup dialled])
    BY ZenonT(60), <1>6 DEF connTo
  <2> DEFINE t == [s EXCEPT !.todo = @ \ {p}, !.due = @ \ {p}, !.enable = @ \cup dialled]
  <2>2. Set(c, t) /\ s.updater = "locked"
    BY ZenonT(60), <1>6, <2>1 DEF connTo
  <2>3. /\ t.chan = s.chan /\ t.loop = s.loop /\ t.sw = s.sw /\ t.senders = s.senders
        /\ t.updater = s.updater
    BY ZenonT(60), <1>1 DEF Services
  <2> HIDE DEF t
  <2> QED BY ZenonT(60), <1>3, <2>2, <2>3
<1>7. CASE UpdateNodesUnlocks(c)
  <2> DEFINE t == [s EXCEPT !.unlocking = FALSE]
  <2>1. Set(c, t)
    BY ZenonT(60), <1>7 DEF UpdateNodesUnlocks
  <2>2. /\ t.chan = s.chan /\ t.loop = s.loop /\ t.sw = s.sw /\ t.senders = s.senders
        /\ t.updater = s.updater /\ t.todo = s.todo
    BY ZenonT(60), <1>1 DEF Services
  <2> HIDE DEF t
  <2>3. t.updater # "locked" => t.todo = {}
    BY ZenonT(60), <1>1, <2>2 DEF Bounded
  <2> QED BY ZenonT(60), <1>3, <2>1, <2>2, <2>3
<1> QED BY ZenonT(60), <1>4, <1>5, <1>6, <1>7 DEF updateNodes

\* Calls that find none in progress, and so nothing owed.
LEMMA PutStartBounded ==
    ASSUME IInv, BInv, NEW c \in Ids,
           NotifyStart(c) \/ \E used \in UsedSets : PutCommittee(c, used)
    PROVE  BInv'
<1>1. call = Nil /\ call' = Nil /\ updates' = updates
  BY ZenonT(60) DEF NotifyStart, PutCommittee
<1>2. \A d : ~ Owing(d) /\ ~ Owing(d)'
  BY ZenonT(60), <1>1 DEF Owing
<1>3. Due(c) = 0 /\ Due(c)' = 0
  BY ZenonT(60), <1>2 DEF Due
<1>4. ASSUME NEW t, Set(c, t), Bounded(t), t.senders \in Nat, t.senders <= updates PROVE BInv'
  <2>1. t.senders + Due(c)' <= updates
    BY <1>3, <1>4 DEF BInv
  <2> QED BY ZenonT(60), <1>1, <1>2, <1>4, <2>1, OneBounded DEF Set
<1>5. CASE NotifyStart(c)
  <2> DEFINE s == svc[c]
             t == start(s)
  <2>1. s \in Services /\ s # Nil /\ Set(c, t)
    BY ZenonT(60), <1>5, NodeAssumption DEF NotifyStart, IInv
  <2>2. Bounded(s) /\ s.senders \in Nat /\ s.senders <= updates
    BY <1>3, <2>1 DEF BInv, Services
  <2>3. /\ t.chan = s.chan /\ t.todo = s.todo /\ t.updater = s.updater /\ t.senders = s.senders
        /\ t.sw = "running" \/ (t.sw = s.sw /\ t.loop = s.loop)
    BY ZenonT(60), <2>1 DEF start, Services
  <2> HIDE DEF t
  <2>4. Bounded(t)
    BY ZenonT(60), <2>2, <2>3 DEF Bounded
  <2> QED BY ZenonT(60), <1>4, <2>1, <2>2, <2>3, <2>4
<1>6. ASSUME NEW used \in UsedSets, PutCommittee(c, used) PROVE BInv'
  <2> DEFINE t == newNodeService(used)
  <2>1. Set(c, t)
    BY ZenonT(60), <1>6 DEF PutCommittee
  <2>2. t.chan = <<>> /\ t.senders = 0 /\ t.todo = {} /\ t.loop = FALSE
    BY ZenonT(60) DEF newNodeService
  <2> HIDE DEF t
  <2>3. Bounded(t)
    <3>1. Len(t.chan) <= UpdateChanSize
      BY <2>2 DEF UpdateChanSize
    <3> QED BY ZenonT(60), <2>2, <3>1 DEF Bounded
  <2>4. t.senders \in Nat /\ t.senders <= updates
    BY <2>2 DEF BInv
  <2> QED BY ZenonT(60), <1>4, <2>1, <2>3, <2>4
<1> QED BY ZenonT(60), <1>5, <1>6

LEMMA TakeBounded ==
    ASSUME IInv, BInv, NEW k, Take(k), k.op # "update", updates' = updates,
           k.op = "stop" => k.signal = FALSE
    PROVE  BInv'
<1>1. svc' = svc /\ call' = k
  BY ZenonT(60) DEF Take
<1>2. \A d : ~ Owing(d)'
  BY ZenonT(60), <1>1 DEF Owing, Owed
<1> QED BY ZenonT(60), <1>1, <1>2, NoneBounded

\* The call is counted when it owes a goroutine.
LEMMA UpdateCommitteeBounded ==
    ASSUME IInv, BInv, NEW c \in Ids, NEW used \in UsedSets, UpdateCommittee(c, used)
    PROVE  BInv'
<1>1. call = Nil /\ svc' = svc /\ updates' = updates + 1 /\ updates < MaxUpdates
  BY ZenonT(60) DEF UpdateCommittee, Take
<1>2. \A d : Due(d) = 0 /\ Due(d)' \in {0, 1}
  BY ZenonT(60), <1>1 DEF Due, Owing
<1>3. updates \in Nat /\ updates' \in 0 .. MaxUpdates
  BY <1>1, NodeAssumption DEF BInv
<1>4. ASSUME NEW d \in Ids, svc[d] # Nil PROVE Bounded(svc[d]) /\ svc[d].senders + Due(d)' <= updates'
  <2>1. svc[d].senders \in Nat /\ svc[d].senders + Due(d) <= updates /\ Bounded(svc[d])
    BY <1>4 DEF IInv, BInv, Services
  <2>2. svc[d].senders + Due(d)' <= updates'
    BY <1>1, <1>2, <1>3, <2>1
  <2> QED BY ZenonT(60), <2>1, <2>2
<1> QED BY ZenonT(60), <1>1, <1>3, <1>4 DEF BInv

\* stop sends false to a service that runs, and waits for room to do so.
LEMMA StopOneBounded ==
    ASSUME IInv, BInv, NEW c \in Ids, StopOne(c)
    PROVE  BInv'
<1> DEFINE s == svc[c]
           ch == Append(s.chan, FALSE)
           stopped == IF Running(s) THEN [s EXCEPT !.chan = ch, !.sw = "stopped"] ELSE s
           n == stopped.senders + 1
           t == IF call.signal THEN [stopped EXCEPT !.senders = n] ELSE stopped
<1>1. /\ call \in [op : {"stop"}, ids : SUBSET Ids, signal : BOOLEAN] /\ call # Nil /\ c \in call.ids
      /\ (Running(s) => ~ Full(s))
  BY DEF StopOne, IInv, Calls
<1>2. s \in Services /\ s.chan \in Seq(BOOLEAN)
  BY <1>1 DEF IInv, About, Services
<1>3. Bounded(s) /\ s.senders \in Nat /\ s.senders + Due(c) <= updates /\ updates \in Nat
  BY <1>2, NodeAssumption DEF BInv, Services
<1>4. svc' = [svc EXCEPT ![c] = t] /\ call' = [call EXCEPT !.ids = @ \ {c}] /\ updates' = updates
  BY ZenonT(60) DEF StopOne, Set
<1>5. Running(s) => Len(ch) <= UpdateChanSize
  <2>1. Len(ch) = Len(s.chan) + 1 /\ Len(s.chan) \in Nat
    BY ZenonT(60), <1>2, Lengths
  <2> QED BY <1>1, <2>1 DEF UpdateChanSize, Full
<1> HIDE DEF ch
<1>6. /\ stopped.todo = s.todo /\ stopped.updater = s.updater /\ stopped.senders = s.senders
      /\ stopped.sw = "stopped" \/ (stopped.sw = s.sw /\ stopped.loop = s.loop)
      /\ stopped.chan = s.chan \/ (Running(s) /\ stopped.chan = ch)
  BY ZenonT(60), <1>2 DEF Services
<1>7. stopped \in Services
  <2>1. ch \in Seq(BOOLEAN)
    BY ZenonT(60), <1>2, Sent DEF ch
  <2> QED BY ZenonT(60), <1>2, <2>1 DEF Services
<1> HIDE DEF stopped
<1>8. Bounded(stopped)
  BY ZenonT(60), <1>3, <1>5, <1>6 DEF Bounded
<1>9. /\ t.todo = stopped.todo /\ t.updater = stopped.updater /\ t.sw = stopped.sw
      /\ t.loop = stopped.loop /\ t.chan = stopped.chan
      /\ t.senders = IF call.signal THEN n ELSE stopped.senders
  BY ZenonT(60), <1>7 DEF Services
<1> HIDE DEF t
<1>10. Bounded(t)
  BY ZenonT(60), <1>8, <1>9 DEF Bounded
<1>11. /\ call'.op = "stop" /\ call'.ids = call.ids \ {c} /\ call'.signal = call.signal
  BY ZenonT(60), <1>1, <1>4
<1>12. ~ Owing(c)' /\ \A d \in Ids : Owing(d)' => Owing(d)
  BY ZenonT(60), <1>1, <1>11 DEF Owing, Owed
<1>13. call.signal => Owing(c)
  BY ZenonT(60), <1>1 DEF Owing, Owed
<1>14. Due(c)' = 0 /\ (call.signal => Due(c) = 1) /\ Due(c) \in {0, 1}
  BY ZenonT(60), <1>12, <1>13 DEF Due
<1>15. t.senders + Due(c)' <= updates
  <2>1. CASE call.signal
    BY <1>3, <1>6, <1>9, <1>14, <2>1
  <2>2. CASE ~ call.signal
    BY <1>3, <1>6, <1>9, <1>14, <2>2
  <2> QED BY ZenonT(60), <2>1, <2>2
<1> QED BY ZenonT(60), <1>4, <1>10, <1>12, <1>15, OneBounded

LEMMA PutNodesBounded ==
    ASSUME IInv, BInv, PutNodesLocked
    PROVE  BInv'
<1>1. /\ call \in [op : {"put"}, id : Ids, listed : SUBSET Peers, changed : SUBSET Peers,
                   resolved : SUBSET Peers]
      /\ call # Nil
  BY DEF PutNodesLocked, IInv, Calls
<1> PICK c \in Ids : c = call.id
  BY ZenonT(60), <1>1
<1> DEFINE s == svc[c]
           addr == (s.addr \ call.listed) \cup call.resolved
           due == s.due \cup call.changed
           ch == Append(s.chan, TRUE)
           t == putNodes(s, call.listed, call.changed, call.resolved)
<1>2. s \in Services /\ s.chan \in Seq(BOOLEAN)
  BY <1>1 DEF IInv, About, Services
<1>3. Bounded(s) /\ s.senders \in Nat /\ s.senders + Due(c) <= updates
  BY <1>2, NodeAssumption DEF BInv, Services
<1>4. svc' = [svc EXCEPT ![c] = t] /\ call' = Nil /\ updates' = updates
  BY ZenonT(60) DEF PutNodesLocked, Set
<1>5. \A d : ~ Owing(d) /\ ~ Owing(d)'
  BY ZenonT(60), <1>1, <1>4 DEF Owing, Owed
<1>6. Due(c) = 0 /\ Due(c)' = 0
  BY ZenonT(60), <1>5 DEF Due
<1>7. ~ Full(s) => Len(ch) <= UpdateChanSize
  <2>1. Len(ch) = Len(s.chan) + 1 /\ Len(s.chan) \in Nat
    BY ZenonT(60), <1>2, Lengths
  <2> QED BY <2>1 DEF UpdateChanSize, Full
<1>8. \/ t = [s EXCEPT !.addr = addr, !.due = due]
      \/ t = [s EXCEPT !.addr = addr, !.due = due, !.chan = ch] /\ ~ Full(s)
  BY ZenonT(60) DEF putNodes
<1> HIDE DEF addr, due, ch, t
<1>9. /\ t.todo = s.todo /\ t.updater = s.updater /\ t.senders = s.senders /\ t.sw = s.sw /\ t.loop = s.loop
      /\ t.chan = s.chan \/ (t.chan = ch /\ ~ Full(s))
  BY ZenonT(60), <1>2, <1>8 DEF Services
<1>10. Bounded(t)
  BY ZenonT(60), <1>3, <1>7, <1>9 DEF Bounded
<1>11. t.senders + Due(c)' <= updates
  BY ZenonT(60), <1>3, <1>6, <1>9
<1> QED BY ZenonT(60), <1>4, <1>5, <1>10, <1>11, OneBounded

\* What the call owes is started, or owed by the stop it turns into.
LEMMA UpdateLockedBounded ==
    ASSUME IInv, BInv, UpdateCommitteeLocked
    PROVE  BInv'
<1>1. call \in [op : {"update"}, id : Ids, used : SUBSET Members] /\ call # Nil
  BY DEF UpdateCommitteeLocked, IInv, Calls
<1> PICK c \in Ids : c = call.id
  BY ZenonT(60), <1>1
<1> DEFINE s == svc[c]
           due == s.due \cup (call.used \ s.used)
           n == s.senders + 1
           t == [s EXCEPT !.used = call.used, !.due = due]
           u == [s EXCEPT !.used = call.used, !.due = due, !.senders = n]
<1>2. s \in Services
  BY <1>1 DEF IInv, About
<1>3. Due(c) = 1
  BY ZenonT(60), <1>1 DEF Due, Owing
<1>4. Bounded(s) /\ s.senders \in Nat /\ s.senders + 1 <= updates
  BY <1>2, <1>3, NodeAssumption DEF BInv, Services
<1>5. updates' = updates
      /\ \/ Set(c, t) /\ call' = [op |-> "stop", ids |-> {c}, signal |-> TRUE]
         \/ Set(c, u) /\ call' = Nil
  BY DEF UpdateCommitteeLocked
<1> HIDE DEF due
<1>6. CASE Set(c, t) /\ call' = [op |-> "stop", ids |-> {c}, signal |-> TRUE]
  <2>1. \A d \in Ids \ {c} : ~ Owing(d)'
    BY ZenonT(60), <1>6 DEF Owing, Owed
  <2>2. t.todo = s.todo /\ t.updater = s.updater /\ t.senders = s.senders /\ t.sw = s.sw
        /\ t.loop = s.loop /\ t.chan = s.chan
    BY ZenonT(60), <1>2 DEF Services
  <2>3. svc' = [svc EXCEPT ![c] = t]
    BY ZenonT(60), <1>6 DEF Set
  <2> HIDE DEF t
  <2>4. Bounded(t)
    BY ZenonT(60), <1>4, <2>2 DEF Bounded
  <2>5. Due(c)' \in {0, 1}
    BY ZenonT(60) DEF Due
  <2>6. t.senders + Due(c)' <= updates
    BY <1>4, <2>2, <2>5 DEF BInv
  <2> QED BY ZenonT(60), <1>5, <2>1, <2>3, <2>4, <2>6, OneBounded
<1>7. CASE Set(c, u) /\ call' = Nil
  <2>1. \A d : ~ Owing(d)'
    BY ZenonT(60), <1>7 DEF Owing
  <2> HIDE DEF n
  <2>2. u.todo = s.todo /\ u.updater = s.updater /\ u.senders = n /\ u.sw = s.sw
        /\ u.loop = s.loop /\ u.chan = s.chan
    BY ZenonT(60), <1>2 DEF Services
  <2>3. svc' = [svc EXCEPT ![c] = u]
    BY ZenonT(60), <1>7 DEF Set
  <2> HIDE DEF u
  <2>4. Bounded(u)
    BY ZenonT(60), <1>4, <2>2 DEF Bounded
  <2>5. Due(c)' = 0
    BY ZenonT(60), <2>1 DEF Due
  <2>6. u.senders + Due(c)' <= updates
    BY <1>4, <2>2, <2>5 DEF n
  <2> QED BY ZenonT(60), <1>5, <2>1, <2>3, <2>4, <2>6, OneBounded
<1> QED BY ZenonT(60), <1>5, <1>6, <1>7

LEMMA NextBounded == IInv /\ BInv /\ [Next]_vars => BInv'
<1> SUFFICES ASSUME IInv, BInv, [Next]_vars PROVE BInv'
  BY ZenonT(60)
<1>1. ASSUME NEW c \in Ids, Loop(c) \/ Sender(c) \/ updateNodes(c) \/ NotifyStart(c) PROVE BInv'
  BY ZenonT(60), <1>1, LoopBounded, SenderBounded, UpdateNodesBounded, PutStartBounded
<1>2. ASSUME NEW c \in Ids, NEW used \in UsedSets, PutCommittee(c, used) \/ UpdateCommittee(c, used)
      PROVE  BInv'
  BY ZenonT(60), <1>2, PutStartBounded, UpdateCommitteeBounded
<1>3. ASSUME NEW ids, Take([op |-> "stop", ids |-> ids, signal |-> FALSE]), updates' = updates PROVE BInv'
  <2> DEFINE k == [op |-> "stop", ids |-> ids, signal |-> FALSE]
  <2>1. Take(k) /\ k.op # "update" /\ (k.op = "stop" => k.signal = FALSE)
    BY ZenonT(60), <1>3
  <2> HIDE DEF k
  <2> QED BY ZenonT(60), <1>3, <2>1, TakeBounded
<1>4. CASE OnStop \/ \E c \in Ids : Notify(c)
  BY ZenonT(60), <1>3, <1>4 DEF Notify, OnStop
<1>5. ASSUME NEW c \in Ids, NEW listed, NEW changed, NEW resolved, PutNodes(c, listed, changed, resolved)
      PROVE  BInv'
  <2> DEFINE k == [op |-> "put", id |-> c, listed |-> listed, changed |-> changed, resolved |-> resolved]
  <2>1. Take(k) /\ k.op = "put" /\ updates' = updates
    BY ZenonT(60), <1>5 DEF PutNodes
  <2> HIDE DEF k
  <2> QED BY ZenonT(60), <2>1, TakeBounded
<1>6. CASE StopReturns
  <2>1. svc' = svc /\ call' = Nil /\ updates' = updates
    BY ZenonT(60), <1>6 DEF StopReturns
  <2> QED BY ZenonT(60), <2>1, NoneBounded DEF Owing
<1>7. CASE CallGoesOn
  BY ZenonT(60), <1>6, <1>7, StopOneBounded, PutNodesBounded, UpdateLockedBounded DEF CallGoesOn
<1>8. CASE UNCHANGED vars
  <2>1. svc' = svc /\ call' = call /\ updates' = updates
    BY ZenonT(60), <1>8 DEF vars
  <2> QED BY ZenonT(60), <2>1, NoneBounded DEF Owing, Owed
<1> QED BY ZenonT(60), <1>1, <1>2, <1>4, <1>5, <1>7, <1>8 DEF Next

\* updateChan never holds more than its two elements, one call of UpdateCommittee
\* leaves at most one goroutine behind, updateNodes runs if and only if singleCon
\* says so, and only a service that was started has a loop.
THEOREM WithinBounds == Spec => []TypeOK
<1>1. Init => IInv /\ BInv
  <2>1. Init => BInv
    BY NodeAssumption DEF Init, BInv
  <2> QED BY ZenonT(60), <2>1, InitIInv
<1>2. IInv /\ BInv /\ [Next]_vars => (IInv /\ BInv)'
  BY ZenonT(60), NextIInv, NextBounded
<1>3. IInv /\ BInv => TypeOK
  <2> SUFFICES ASSUME IInv, BInv PROVE TypeOK
    BY ZenonT(60)
  <2>1. ASSUME NEW c \in Ids, svc[c] # Nil
        PROVE  Bounded(svc[c]) /\ Steady(svc[c]) /\ svc[c].senders \in 0 .. MaxUpdates
    <3>1. Due(c) \in {0, 1} /\ svc[c].senders \in Nat /\ Bounded(svc[c]) /\ Steady(svc[c])
      BY <2>1 DEF IInv, BInv, Services, Due
    <3>2. svc[c].senders + Due(c) <= updates /\ updates \in 0 .. MaxUpdates
      BY ZenonT(60), <2>1 DEF BInv
    <3> QED BY <3>1, <3>2, NodeAssumption
  <2> QED BY ZenonT(60), <2>1 DEF TypeOK, Bounded, Steady, IInv
<1> QED BY <1>1, <1>2, <1>3, PTL DEF Spec
=============================================================================
