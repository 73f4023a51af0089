---------------------------- MODULE NodeService ----------------------------
(***************************************************************************)
(* Node and its committee services (node.go).                              *)
(*                                                                         *)
(* The agent calls the Node, which holds n.lock during each call and keeps *)
(* one service per committee.  A started service runs a loop that reads    *)
(* updateChan and starts updateNodes, at most one at a time (singleCon),   *)
(* which dials the members of the committee that are not connected yet.    *)
(*                                                                         *)
(* A call that must wait (for s.lock, which updateNodes holds while it     *)
(* dials, or for room in updateChan) keeps n.lock meanwhile: `call` is the *)
(* call in progress.  What the calls do to the Switch and to the           *)
(* ConsensusState is in the modules of these; the HealthMgr is disabled,   *)
(* and with it checkPeerForDuplicate, which gives up at a tick below 30.   *)
(***************************************************************************)
EXTENDS Integers, Sequences, FiniteSets

CONSTANTS Ids, Peers, Self, Nil,
    UsedSets,    \* bound: which members may have StateUsedFlag
    Busy,        \* bound: the committees whose members change
    MaxPuts,     \* bound on the calls of PutNodes
    MaxUpdates   \* bound on the calls of UpdateCommittee

Members == Peers \cup {Self}

\* nodeService: used, addr, enable and due are the members with StateUsedFlag,
\* with an address, with Enable, and those whose address or flag has changed
\* since updateNodes looked at them.  sw is the BaseService of the Switch.
Services ==
    [sw : {"new", "running", "stopped"}, loop : BOOLEAN, chan : Seq(BOOLEAN),
     senders : Nat,      \* goroutines about to send true
     singleCon : BOOLEAN, updater : {"none", "started", "locked"},
     unlocking : BOOLEAN, \* an updateNodes has reset singleCon and still holds s.lock
     todo : SUBSET Members, used : SUBSET Members, addr : SUBSET Members,
     enable : SUBSET Members, due : SUBSET Members]

\* The calls that hold n.lock for more than one step.
Calls ==
    [op : {"stop"}, ids : SUBSET Ids, signal : BOOLEAN]
    \cup [op : {"put"}, id : Ids, listed : SUBSET Peers, changed : SUBSET Peers, resolved : SUBSET Peers]
    \cup [op : {"update"}, id : Ids, used : SUBSET Members]

ASSUME NodeAssumption ==
    /\ Self \notin Peers /\ UsedSets \subseteq SUBSET Members
    /\ MaxPuts \in Nat /\ MaxUpdates \in Nat /\ Nil \notin Services \cup Calls

VARIABLES
    svc,        \* the services by committee, Nil before PutCommittee
    services,   \* the committees in n.services
    servicePre, \* the committee started last, 0 before the first
    call,       \* the call that holds n.lock, or Nil
    displaced,  \* the committees that were deleted while they ran
    puts, updates

vars == <<svc, services, servicePre, call, displaced, puts, updates>>
-----------------------------------------------------------------------------
(* A service.                                                                *)

UpdateChanSize == 2

newNodeService(used) ==
    [sw |-> "new", loop |-> FALSE, chan |-> <<>>, senders |-> 0,
     singleCon |-> FALSE, updater |-> "none", unlocking |-> FALSE, todo |-> {},
     used |-> used, addr |-> {}, enable |-> {}, due |-> {}]

Running(s) == s # Nil /\ s.sw = "running"

\* s.sa.Priv is nil until start.
nodesHaveSelf(s) == s.sw = "new" \/ Self \in s.used

Full(s) == Len(s.chan) >= UpdateChanSize

\* start: a Switch that was stopped does not start again.
start(s) == IF s.sw = "new" THEN [s EXCEPT !.sw = "running", !.loop = TRUE] ELSE s

PutNodesStarted(s, listed, changed, resolved) ==
    LET t == [s EXCEPT !.addr = (@ \ listed) \cup resolved, !.due = @ \cup changed] IN
    IF changed = {} \/ ~ Running(s) \/ ~ nodesHaveSelf(s) \/ Full(s) THEN t
    ELSE [t EXCEPT !.chan = Append(@, TRUE)]

\* The change of a member, signalled if there is room: otherwise a signal is
\* still unread.
putNodes(s, listed, changed, resolved) ==
    LET t == [s EXCEPT !.addr = (@ \ listed) \cup resolved, !.due = @ \cup changed] IN
    IF changed = {} \/ ~ nodesHaveSelf(s) \/ Full(s) THEN t
    ELSE [t EXCEPT !.chan = Append(@, TRUE)]

canConn(s, p) == p \notin s.enable /\ p \in s.used /\ p \in s.addr /\ p # Self

LoopOnce(s) ==
    LET t == [s EXCEPT !.chan = Tail(@), !.loop = FALSE] IN
    IF ~ Head(s.chan) \/ s.singleCon THEN t
    ELSE [t EXCEPT !.singleCon = TRUE, !.updater = "started"]

LoopStartsAnyway(s) ==
    LET t == [s EXCEPT !.chan = Tail(@)] IN
    IF ~ Head(s.chan) THEN [t EXCEPT !.loop = FALSE]
    ELSE [t EXCEPT !.singleCon = TRUE, !.updater = "started"]

\* The loop.  A signal that finds an updateNodes at work is dropped.
LoopTurn(s) ==
    LET t == [s EXCEPT !.chan = Tail(@)] IN
    IF ~ Head(s.chan) THEN [t EXCEPT !.loop = FALSE]
    ELSE IF s.singleCon THEN t
    ELSE [t EXCEPT !.singleCon = TRUE, !.updater = "started"]
-----------------------------------------------------------------------------
(* The goroutines of a service.                                              *)

Set(c, s) == svc' = [svc EXCEPT ![c] = s]

nodeVars == <<services, servicePre, call, displaced, puts, updates>>

Loop(c) ==
    /\ svc[c] # Nil /\ svc[c].loop /\ svc[c].chan # <<>>
    /\ Set(c, LoopTurn(svc[c]))
    /\ UNCHANGED nodeVars

\* go func() { service.updateChan <- true }()
Sender(c) ==
    /\ svc[c] # Nil /\ svc[c].senders > 0 /\ ~ Full(svc[c])
    /\ Set(c, [svc[c] EXCEPT !.senders = @ - 1, !.chan = Append(@, TRUE)])
    /\ UNCHANGED nodeVars

\* updateNodes takes s.lock ...
UpdateNodesLocks(c) ==
    /\ svc[c] # Nil /\ svc[c].updater = "started" /\ ~ svc[c].unlocking
    /\ Set(c, [svc[c] EXCEPT !.updater = "locked", !.todo = Members])
    /\ UNCHANGED nodeVars

\* ... dials the members one by one, which may fail ...
connTo(c, p) ==
    /\ svc[c] # Nil /\ svc[c].updater = "locked" /\ p \in svc[c].todo
    /\ \E dialled \in IF canConn(svc[c], p) THEN {{}, {p}} ELSE {{}} :
         Set(c, [svc[c] EXCEPT !.todo = @ \ {p}, !.due = @ \ {p}, !.enable = @ \cup dialled])
    /\ UNCHANGED nodeVars

\* ... resets singleCon, after which the loop may start another ...
UpdateNodesReturns(c) ==
    /\ svc[c] # Nil /\ svc[c].updater = "locked" /\ svc[c].todo = {}
    /\ Set(c, [svc[c] EXCEPT !.updater = "none", !.singleCon = FALSE, !.unlocking = TRUE])
    /\ UNCHANGED nodeVars

\* ... and unlocks (the deferred calls run last to first).
UpdateNodesUnlocks(c) ==
    /\ svc[c] # Nil /\ svc[c].unlocking
    /\ Set(c, [svc[c] EXCEPT !.unlocking = FALSE])
    /\ UNCHANGED nodeVars

updateNodes(c) ==
    \/ UpdateNodesLocks(c) \/ UpdateNodesReturns(c) \/ UpdateNodesUnlocks(c)
    \/ \E p \in Members : connTo(c, p)

\* s.lock is held by an updateNodes.
Locked(s) == s.updater = "locked" \/ s.unlocking
-----------------------------------------------------------------------------
(* The calls of the agent, which take n.lock.                                *)

\* A committee is put once: the agent counts them upwards.
PutCommittee(c, used) ==
    /\ call = Nil /\ svc[c] = Nil
    /\ Set(c, newNodeService(used))
    /\ services' = services \cup {c}
    /\ UNCHANGED <<servicePre, call, displaced, puts, updates>>

StartThenDelete(c) ==
    /\ call = Nil /\ c \in services
    /\ services' = IF servicePre # c THEN services \ {c} ELSE services
    /\ servicePre' = c
    /\ Set(c, start(svc[c]))
    /\ UNCHANGED <<call, displaced, puts, updates>>

\* Notify(Start): the service started last is deleted, not stopped.
NotifyStart(c) ==
    /\ call = Nil /\ c \in services
    /\ LET gone == IF servicePre # c THEN {servicePre} \cap services ELSE {} IN
       /\ services' = services \ gone
       /\ displaced' = displaced \cup {d \in gone : Running(svc[d])}
    /\ servicePre' = c
    /\ Set(c, start(svc[c]))
    /\ UNCHANGED <<call, puts, updates>>

Take(op) == call = Nil /\ call' = op /\ UNCHANGED <<svc, services, servicePre, displaced>>

Notify(c) == Take([op |-> "stop", ids |-> {c} \cap services, signal |-> FALSE])
             /\ UNCHANGED <<puts, updates>>

OnStop == Take([op |-> "stop", ids |-> services, signal |-> FALSE]) /\ UNCHANGED <<puts, updates>>

\* Of the nodes that are listed some have a new IP or port, and some names resolve.
PutNodes(c, listed, changed, resolved) ==
    /\ puts < MaxPuts /\ c \in Busy \cap services
    /\ Take([op |-> "put", id |-> c, listed |-> listed, changed |-> changed, resolved |-> resolved])
    /\ puts' = puts + 1 /\ UNCHANGED updates

UpdateCommittee(c, used) ==
    /\ updates < MaxUpdates /\ c \in Busy \cap services
    /\ Take([op |-> "update", id |-> c, used |-> used])
    /\ updates' = updates + 1 /\ UNCHANGED puts

\* stop: send false, then stop the Switch.  OnStop stops every service.
StopOne(c) ==
    /\ call # Nil /\ call.op = "stop" /\ c \in call.ids
    /\ Running(svc[c]) => ~ Full(svc[c])
    /\ LET s == IF Running(svc[c])
                THEN [svc[c] EXCEPT !.chan = Append(@, FALSE), !.sw = "stopped"] ELSE svc[c]
       IN  Set(c, IF call.signal THEN [s EXCEPT !.senders = @ + 1] ELSE s)
    /\ call' = [call EXCEPT !.ids = @ \ {c}]
    /\ UNCHANGED <<services, servicePre, displaced, puts, updates>>

StopReturns ==
    /\ call # Nil /\ call.op = "stop" /\ call.ids = {}
    /\ call' = Nil
    /\ UNCHANGED <<svc, services, servicePre, displaced, puts, updates>>

PutNodesLocked ==
    /\ call # Nil /\ call.op = "put" /\ ~ Locked(svc[call.id])
    /\ Set(call.id, putNodes(svc[call.id], call.listed, call.changed, call.resolved))
    /\ call' = Nil
    /\ UNCHANGED <<services, servicePre, displaced, puts, updates>>

\* New flags, then a signal.  A member without StateUsedFlag may have been removed
\* or be unused; a node that was removed stops its service first.  To tell if it
\* was takes its key, which start sets: with a removed member the call panics, and
\* the process ends, on a service that was never started.
UpdateCommitteeLocked ==
    /\ call # Nil /\ call.op = "update" /\ ~ Locked(svc[call.id])
    /\ LET s == svc[call.id]
           t == [s EXCEPT !.used = call.used, !.due = @ \cup (call.used \ s.used)]
       IN  \/ /\ Self \notin call.used /\ s.sw # "new"
              /\ Set(call.id, t)
              /\ call' = [op |-> "stop", ids |-> {call.id}, signal |-> TRUE]
           \/ /\ Set(call.id, [t EXCEPT !.senders = @ + 1])
              /\ call' = Nil
    /\ UNCHANGED <<services, servicePre, displaced, puts, updates>>

CallGoesOn == (\E c \in Ids : StopOne(c)) \/ StopReturns \/ PutNodesLocked \/ UpdateCommitteeLocked
-----------------------------------------------------------------------------
Init ==
    /\ svc = [c \in Ids |-> Nil] /\ services = {} /\ servicePre = 0
    /\ call = Nil /\ displaced = {} /\ puts = 0 /\ updates = 0

Next ==
    \/ \E c \in Ids :
         \/ Loop(c) \/ Sender(c) \/ updateNodes(c)
         \/ NotifyStart(c) \/ Notify(c)
         \/ \E used \in UsedSets : PutCommittee(c, used) \/ UpdateCommittee(c, used)
         \/ \E listed \in SUBSET Peers : \E changed, resolved \in SUBSET listed :
              PutNodes(c, listed, changed, resolved)
    \/ OnStop \/ CallGoesOn

Spec == Init /\ [][Next]_vars

\* Goroutines are scheduled, and a dial ends.
Fairness ==
    /\ WF_vars(CallGoesOn)
    /\ \A c \in Ids : WF_vars(Loop(c)) /\ WF_vars(Sender(c)) /\ WF_vars(updateNodes(c))

LiveSpec == Spec /\ Fairness
-----------------------------------------------------------------------------
\* Services and calls have their types, the channel is within its size, and
\* updateNodes runs if and only if singleCon says so.
TypeOK ==
    /\ svc \in [Ids -> Services \cup {Nil}] /\ call \in Calls \cup {Nil}
    /\ \A c \in Ids :
         svc[c] # Nil =>
            /\ Len(svc[c].chan) <= UpdateChanSize
            /\ svc[c].senders \in 0 .. MaxUpdates
            /\ svc[c].singleCon = (svc[c].updater # "none")
            /\ svc[c].updater # "locked" => svc[c].todo = {}
            /\ svc[c].loop => svc[c].sw # "new"

\* No change of a member is missed: as long as its service is not stopped, a
\* signal is in the channel or on its way there, or an updateNodes has yet to
\* look at the member, although signals are dropped when the channel is full
\* and when an updateNodes is at work.
ChangesSignalled ==
    \A c \in Ids :
        svc[c] # Nil =>
            LET s == svc[c] IN
            s.due # {} /\ s.sw # "stopped" /\ nodesHaveSelf(s)
              => \/ s.senders > 0 \/ \E i \in DOMAIN s.chan : s.chan[i]
                 \/ s.updater = "started" \/ s.due \subseteq s.todo
                 \/ call # Nil /\ call.op = "stop" /\ c \in call.ids

\* Every service that runs can be stopped through the Node: it is in n.services,
\* unless Notify(Start) of another committee deleted it while it ran.
RunningServicesListed == \A c \in Ids : Running(svc[c]) => c \in services \/ c \in displaced

\* No call keeps n.lock for ever: stop finds room in updateChan and the calls that
\* need s.lock get it.
CallsReturn == call # Nil ~> call = Nil
=============================================================================
