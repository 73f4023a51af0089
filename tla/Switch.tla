------------------------------- MODULE Switch -------------------------------
(***************************************************************************)
(* tp2p/switch.go with the life of a peer (peer.go), of its multiplexed    *)
(* connection (conn/connection.go) and of the services they are            *)
(* (help/service.go).  The goroutines that meet here are the callers of    *)
(* DialPeerWithAddress, the listener, the two routines of a connection,    *)
(* reconnectToPeer, and whoever stops a peer or the switch.  Each takes    *)
(* its steps one at a time; only the peer set, the reconnecting map and    *)
(* the service flags are shared.                                           *)
(*                                                                         *)
(* A peer object is used for one connection.  Reading and writing on it,   *)
(* the secret handshake and the node info are left to chance: a handshake  *)
(* may fail, and a running connection may break, at any time.              *)
(***************************************************************************)
EXTENDS PeerSet

CONSTANTS
    Outbound,         \* the peers we dial; the others dial us
    MaxInbound,       \* MaxNumPeers - DefaultMinNumOutboundPeers
    Attempts,         \* reconnectAttempts
    BackOffAttempts,  \* reconnectBackOffAttempts
    MaxReconnects,    \* bound: reconnectToPeer goroutines alive at one time
    MaxFaults         \* bound: dials, handshakes and connections that fail

ASSUME SwitchAssumption ==
    /\ IDs # {} /\ Outbound \subseteq Peers
    /\ MaxInbound \in Nat /\ Attempts \in Nat \ {0} /\ BackOffAttempts \in Nat
    /\ MaxReconnects \in Nat /\ MaxFaults \in Nat

VARIABLES
    peers,         \* sw.peers
    sw,            \* the switch's service flag and how far OnStop has come
    toStop,        \* the rest of the list OnStop iterates over
    reactor,       \* the consensus reactor is running
    peer,          \* each peer object, see TypeOK
    routine,       \* the reconnectToPeer goroutines
    reconnecting,  \* sw.reconnecting
    panicked,      \* a goroutine panicked outside every recover
    rivals,        \* history, while running: IDs two of whose connections were up at one time
    gaveUp,        \* history, while running: IDs a reconnectToPeer ran out of attempts for
    faults         \* the faults so far

vars == <<peers, sw, toStop, reactor, peer, routine, reconnecting, panicked, rivals, gaveUp, faults>>

Services == {"new", "running", "stopped"}

\* Where addPeer's goroutine is; "added" and "refused" are its two results.
Adding == {"handshake", "checked", "add"}

\* How far a StopPeerForError has come.
Drops == {"no", "remove", "stop", "done"}

Routines == 1..MaxReconnects

Tries == 0 .. Attempts + BackOffAttempts - 1

Idle == [pc |-> "idle", id |-> CHOOSE id \in IDs : TRUE, tries |-> 0]

\* One state for every component of the switch.
TypeOK ==
    /\ peers \in PeerSets
    /\ sw \in {"running", "stopping", "listed", "removing", "stopped"}
    /\ toStop \in Seq(Peers)
    /\ reactor \in BOOLEAN /\ panicked \in BOOLEAN
    /\ peer \in [Peers -> [add   : Adding \cup {"none", "added", "refused"},
                           by    : Routines \cup {0},  \* the reconnect loop that dialed
                           svc   : Services,           \* the peer's service
                           mconn : Services,           \* its MConnection's service
                           error : Drops,              \* StopPeerForError by the connection
                           asked : Drops]]             \* StopPeerForError by the reactor or the node
    /\ routine \in [Routines -> [pc : {"idle", "waiting", "absent", "entering", "looping", "ready", "dialing"},
                                 id : IDs, tries : Tries]]
    /\ reconnecting \subseteq IDs /\ rivals \subseteq IDs /\ gaveUp \subseteq IDs
    /\ faults \in 0..MaxFaults

NewPeer == [add |-> "none", by |-> 0, svc |-> "new", mconn |-> "new", error |-> "no", asked |-> "no"]

\* OnStart has started the reactor and the listener.
Init ==
    /\ peers = NewPeerSet /\ sw = "running" /\ toStop = <<>> /\ reactor = TRUE
    /\ peer = [p \in Peers |-> NewPeer]
    /\ routine = [r \in Routines |-> Idle]
    /\ reconnecting = {} /\ panicked = FALSE /\ rivals = {} /\ gaveUp = {} /\ faults = 0

Fault == faults < MaxFaults /\ faults' = faults + 1

-----------------------------------------------------------------------------
(* reconnectToPeer *)

CanSpawn == \E r \in Routines : routine[r].pc = "idle"

\* go sw.reconnectToPeer(addr)
Spawned(rt, id) ==
    LET r == CHOOSE r \in Routines : rt[r].pc = "idle"
    IN  [rt EXCEPT ![r] = [pc |-> "waiting", id |-> id, tries |-> 0]]

ReturnWithoutDelete(r) ==  \* a mutant: no deferred Delete
    /\ routine' = [routine EXCEPT ![r] = Idle]
    /\ UNCHANGED <<reconnecting, gaveUp>>

\* Every way out of the loop deletes the ID from reconnecting.
Return(r) ==
    /\ routine' = [routine EXCEPT ![r] = Idle]
    /\ reconnecting' = reconnecting \ {routine[r].id}
    /\ UNCHANGED gaveUp

RetryOnceMore(r, rt) ==  \* a mutant: one attempt too many
    LET tries == routine[r].tries + 1
    IN  IF tries <= Attempts + BackOffAttempts
        THEN /\ routine' = [rt EXCEPT ![r].pc = "looping", ![r].tries = tries]
             /\ UNCHANGED <<reconnecting, gaveUp>>
        ELSE /\ routine' = [rt EXCEPT ![r] = Idle]
             /\ reconnecting' = reconnecting \ {routine[r].id}
             /\ gaveUp' = IF sw = "running" THEN gaveUp \cup {routine[r].id} ELSE gaveUp

\* The attempt failed: sleep and try again, first Attempts times at a fixed
\* interval, then BackOffAttempts times, then no more.
Retry(r, rt) ==
    LET tries == routine[r].tries + 1
    IN  IF tries < Attempts + BackOffAttempts
        THEN /\ routine' = [rt EXCEPT ![r].pc = "looping", ![r].tries = tries]
             /\ UNCHANGED <<reconnecting, gaveUp>>
        ELSE /\ routine' = [rt EXCEPT ![r] = Idle]
             /\ reconnecting' = reconnecting \ {routine[r].id}
             /\ gaveUp' = IF sw = "running" THEN gaveUp \cup {routine[r].id} ELSE gaveUp

\* After its first sleep the goroutine leaves if the peer is back, or if
\* another goroutine is at it.  Looking up and entering the ID in reconnecting
\* are two critical sections of the map's mutex.
ReconnectWakes(r) ==
    /\ routine[r].pc = "waiting"
    /\ routine' = [routine EXCEPT ![r] = IF Has(peers, @.id) THEN Idle ELSE [@ EXCEPT !.pc = "absent"]]
    /\ UNCHANGED <<peers, sw, toStop, reactor, peer, reconnecting, panicked, rivals, gaveUp, faults>>

ReconnectLooks(r) ==
    /\ routine[r].pc = "absent"
    /\ routine' = [routine EXCEPT ![r] =
                     IF @.id \in reconnecting THEN Idle ELSE [@ EXCEPT !.pc = "entering"]]
    /\ UNCHANGED <<peers, sw, toStop, reactor, peer, reconnecting, panicked, rivals, gaveUp, faults>>

ReconnectEnters(r) ==
    /\ routine[r].pc = "entering"
    /\ routine' = [routine EXCEPT ![r].pc = "looping"]
    /\ reconnecting' = reconnecting \cup {routine[r].id}
    /\ UNCHANGED <<peers, sw, toStop, reactor, peer, panicked, rivals, gaveUp, faults>>

\* if !sw.IsRunning() { return }
ReconnectChecks(r) ==
    /\ routine[r].pc = "looping"
    /\ IF sw = "running"
       THEN routine' = [routine EXCEPT ![r].pc = "ready"] /\ UNCHANGED <<reconnecting, gaveUp>>
       ELSE Return(r)
    /\ UNCHANGED <<peers, sw, toStop, reactor, peer, panicked, rivals, faults>>

\* newOutboundPeerConn failed: addOutboundPeerWithConfig starts another
\* reconnectToPeer, and this one tries again.
ReconnectFails(r) ==
    /\ routine[r].pc = "ready" /\ CanSpawn
    /\ Retry(r, Spawned(routine, routine[r].id))
    /\ Fault
    /\ UNCHANGED <<peers, sw, toStop, reactor, peer, panicked, rivals>>

-----------------------------------------------------------------------------
(* addPeer *)

\* DialPeerWithAddress reached the peer, for the node or for a reconnect loop.
NodeDials(p) ==
    /\ p \in Outbound /\ peer[p].add = "none"
    /\ peer' = [peer EXCEPT ![p].add = "handshake"]
    /\ UNCHANGED <<peers, sw, toStop, reactor, routine, reconnecting, panicked, rivals, gaveUp, faults>>

NodeDialFails(id) ==
    /\ CanSpawn /\ \E p \in Outbound : ID[p] = id /\ peer[p].add = "none"
    /\ routine' = Spawned(routine, id)
    /\ Fault
    /\ UNCHANGED <<peers, sw, toStop, reactor, peer, reconnecting, panicked, rivals, gaveUp>>

ReconnectDials(r, p) ==
    /\ p \in Outbound /\ peer[p].add = "none"
    /\ routine[r].pc = "ready" /\ routine[r].id = ID[p]
    /\ routine' = [routine EXCEPT ![r].pc = "dialing"]
    /\ peer' = [peer EXCEPT ![p].add = "handshake", ![p].by = r]
    /\ UNCHANGED <<peers, sw, toStop, reactor, reconnecting, panicked, rivals, gaveUp, faults>>

\* listenerRoutine takes one connection at a time, and closes it at once when
\* there are enough peers.
Accept(p) ==
    /\ p \notin Outbound /\ peer[p].add = "none" /\ sw \in {"running", "stopping"}
    /\ \A q \in Peers \ Outbound : peer[q].add \notin Adding
    /\ peer' = [peer EXCEPT ![p].add = IF MaxInbound <= Len(peers.list) THEN "refused" ELSE "handshake"]
    /\ UNCHANGED <<peers, sw, toStop, reactor, routine, reconnecting, panicked, rivals, gaveUp, faults>>

\* What the caller of addPeer makes of its result.
Dialed(p, result) ==
    LET r == peer[p].by
    IN  IF r = 0 THEN UNCHANGED <<routine, reconnecting, gaveUp>>
        ELSE IF result = "ok" \/ (result = "duplicate" /\ routine[r].tries < Attempts)
        THEN Return(r)
        ELSE Retry(r, routine)

\* The handshake, the committee's HasPeerID or another check refuses the peer.
HandshakeFails(p) ==
    /\ peer[p].add = "handshake"
    /\ peer' = [peer EXCEPT ![p].add = "refused", ![p].by = 0]
    /\ Dialed(p, "failed")
    /\ Fault
    /\ UNCHANGED <<peers, sw, toStop, reactor, panicked, rivals>>

\* History: another connection with p's ID is on its way into the list, about
\* to take its ID off the list, or running without being listed.
HasRival(p) ==
    \E q \in Peers \ {p} :
      /\ ID[q] = ID[p]
      /\ \/ peer[q].add \in {"checked", "add"}
         \/ "remove" \in {peer[q].error, peer[q].asked}
         \/ (peer[q].mconn = "running" /\ ~Listed(peers, q))

HandshakeDoneUnchecked(p) ==  \* a mutant: no check for a duplicate
    /\ peer[p].add = "handshake"
    /\ peer' = [peer EXCEPT ![p].add = "checked"]
    /\ rivals' = IF sw = "running" /\ HasRival(p) THEN rivals \cup {ID[p]} ELSE rivals
    /\ UNCHANGED <<peers, sw, toStop, reactor, routine, reconnecting, panicked, gaveUp, faults>>

\* "Avoid duplicate"
HandshakeDone(p) ==
    /\ peer[p].add = "handshake"
    /\ IF Has(peers, ID[p])
       THEN /\ peer' = [peer EXCEPT ![p].add = "refused", ![p].by = 0]
            /\ Dialed(p, "duplicate")
            /\ UNCHANGED rivals
       ELSE /\ peer' = [peer EXCEPT ![p].add = "checked"]
            /\ rivals' = IF sw = "running" /\ HasRival(p) THEN rivals \cup {ID[p]} ELSE rivals
            /\ UNCHANGED <<routine, reconnecting, gaveUp>>
    /\ UNCHANGED <<peers, sw, toStop, reactor, panicked, faults>>

StartAfterAdd(p) ==
    /\ peer[p].add = "checked"
    /\ peer' = [peer EXCEPT ![p].add = "add"]
    /\ UNCHANGED <<peers, sw, toStop, reactor, routine, reconnecting, panicked, rivals, gaveUp, faults>>

\* if sw.IsRunning(), startInitPeer: from here on the connection's routines run.
\* Nothing sees the peer between the test and its start.
StartPeer(p) ==
    /\ peer[p].add = "checked"
    /\ peer' = [peer EXCEPT ![p] = IF sw = "running"
                                   THEN [@ EXCEPT !.add = "add", !.svc = "running", !.mconn = "running"]
                                   ELSE [@ EXCEPT !.add = "add"]]
    /\ UNCHANGED <<peers, sw, toStop, reactor, routine, reconnecting, panicked, rivals, gaveUp, faults>>

\* sw.peers.Add(peer); the caller closes the connection of a peer refused here,
\* which its own routines then report as an error.
AddToPeers(p) ==
    /\ peer[p].add = "add"
    /\ IF Has(peers, ID[p])
       THEN /\ peer' = [peer EXCEPT ![p].add = "refused", ![p].by = 0]
            /\ Dialed(p, "duplicate")
            /\ UNCHANGED peers
       ELSE /\ peer' = [peer EXCEPT ![p].add = "added", ![p].by = 0]
            /\ peers' = Add(peers, p)
            /\ Dialed(p, "ok")
    /\ UNCHANGED <<sw, toStop, reactor, panicked, rivals, faults>>

-----------------------------------------------------------------------------
(* StopPeerForError and OnStop *)

\* peer.Stop: the peer and its connection stop, whichever still runs.
\* MConnection.OnStop stops the ping timer that only OnStart makes, so stopping
\* a peer that was never started panics.
StopPeer(p) ==
    IF peer[p].svc = "new" THEN panicked' = TRUE ELSE UNCHANGED panicked

Stopped(pr, p) == [pr EXCEPT ![p].svc = "stopped", ![p].mconn = "stopped"]

\* stopForError: a read or write fails, a pong is overdue, or Receive panics,
\* as it does when the peer has no PeerState yet.
ConnError(p) ==
    /\ peer[p].mconn = "running"
    /\ peer' = [peer EXCEPT ![p].mconn = "stopped", ![p].error = "remove"]
    /\ IF peer[p].add = "refused" THEN UNCHANGED faults ELSE Fault
    /\ UNCHANGED <<peers, sw, toStop, reactor, routine, reconnecting, panicked, rivals, gaveUp>>

\* StopPeerForError called by the reactor's Receive, or by UpdateCommittee for
\* a listed peer whose member left.
AskToStop(p) ==
    /\ peer[p].asked = "no"
    /\ (peer[p].mconn = "running" /\ reactor) \/ Listed(peers, p)
    /\ peer' = [peer EXCEPT ![p].asked = "remove"]
    /\ Fault
    /\ UNCHANGED <<peers, sw, toStop, reactor, routine, reconnecting, panicked, rivals, gaveUp>>

\* stopAndRemovePeer: sw.peers.Remove(peer)
DropRemoves(p, k) ==
    /\ peer[p][k] = "remove"
    /\ peers' = Remove(peers, ID[p])
    /\ peer' = [peer EXCEPT ![p][k] = "stop"]
    /\ UNCHANGED <<sw, toStop, reactor, routine, reconnecting, panicked, rivals, gaveUp, faults>>

\* peer.Stop(), and reconnectToPeer for a persistent peer: every peer we dialed.
DropStops(p, k) ==
    /\ peer[p][k] = "stop" /\ (p \in Outbound => CanSpawn)
    /\ StopPeer(p)
    /\ peer' = Stopped([peer EXCEPT ![p][k] = "done"], p)
    /\ routine' = IF p \in Outbound THEN Spawned(routine, ID[p]) ELSE routine
    /\ UNCHANGED <<peers, sw, toStop, reactor, reconnecting, rivals, gaveUp, faults>>

\* Switch.Stop sets the flag, OnStop stops the listeners and takes the list.
StopSwitch ==
    /\ sw = "running"
    /\ sw' = "stopping" /\ rivals' = {} /\ gaveUp' = {}
    /\ UNCHANGED <<peers, toStop, reactor, peer, routine, reconnecting, panicked, faults>>

ListPeers ==
    /\ sw = "stopping"
    /\ sw' = "listed" /\ toStop' = peers.list
    /\ UNCHANGED <<peers, reactor, peer, routine, reconnecting, panicked, rivals, gaveUp, faults>>

StopNext ==
    /\ sw = "listed" /\ toStop # <<>>
    /\ sw' = "removing"
    /\ StopPeer(Head(toStop))
    /\ peer' = Stopped(peer, Head(toStop))
    /\ UNCHANGED <<peers, toStop, reactor, routine, reconnecting, rivals, gaveUp, faults>>

RemoveNext ==
    /\ sw = "removing"
    /\ sw' = "listed" /\ toStop' = Tail(toStop)
    /\ peers' = Remove(peers, ID[Head(toStop)])
    /\ UNCHANGED <<reactor, peer, routine, reconnecting, panicked, rivals, gaveUp, faults>>

StopReactor ==
    /\ sw = "listed" /\ toStop = <<>>
    /\ sw' = "stopped" /\ reactor' = FALSE
    /\ UNCHANGED <<peers, toStop, peer, routine, reconnecting, panicked, rivals, gaveUp, faults>>

-----------------------------------------------------------------------------
PeerStep(p) ==
    \/ NodeDials(p) \/ Accept(p) \/ HandshakeFails(p) \/ HandshakeDone(p)
    \/ StartPeer(p) \/ AddToPeers(p)
    \/ ConnError(p) \/ AskToStop(p)
    \/ \E k \in {"error", "asked"} : DropRemoves(p, k) \/ DropStops(p, k)

RoutineStep(r) ==
    \/ ReconnectWakes(r) \/ ReconnectLooks(r) \/ ReconnectEnters(r)
    \/ ReconnectChecks(r) \/ ReconnectFails(r)
    \/ \E p \in Peers : ReconnectDials(r, p)

Next ==
    /\ ~panicked
    /\ \/ \E p \in Peers : PeerStep(p)
       \/ \E r \in Routines : RoutineStep(r)
       \/ \E id \in IDs : NodeDialFails(id)
       \/ StopSwitch \/ ListPeers \/ StopNext \/ RemoveNext \/ StopReactor

Spec == Init /\ [][Next]_vars

-----------------------------------------------------------------------------
(* Properties *)

\* PeerSet.Add and Remove keep the list and the lookup in step, whatever the
\* goroutines that call them do.
PeersIndexed == Indexed(peers)

\* While the switch runs, a peer that was added and whose connection runs is in
\* the list, where StopPeer, OnStop and Broadcast find it, unless two
\* connections with its ID were up at one time: addPeer's check of the list
\* and Remove, which goes by ID, are exact for one connection at a time.
RunningPeersListed ==
    \A p \in Peers :
      /\ sw = "running" /\ ID[p] \notin rivals
      /\ peer[p].add = "added" /\ peer[p].mconn = "running" /\ peer[p].asked # "stop"
      => Listed(peers, p)

\* A peer we dialed is not forgotten: after its connection broke, and as long as
\* the switch runs and no attempt ran out, its ID is listed, another connection
\* with it is being added or dropped, or a reconnectToPeer is at work for it,
\* although these leave the work to one another.  A connection the other side
\* opened ends this duty.
InHand(p) ==
    \/ peer[p].add \in Adding \/ peer[p].mconn = "running"
    \/ {peer[p].error, peer[p].asked} \cap {"remove", "stop"} # {}

DroppedPeersSought ==
    \A p \in Outbound :
      /\ sw = "running" /\ ID[p] \notin rivals \cup gaveUp
      /\ peer[p].svc = "stopped"
      /\ \A q \in Peers \ Outbound : ID[q] = ID[p] => peer[q].add \in {"none", "refused"}
      => \/ Has(peers, ID[p])
         \/ \E q \in Peers : ID[q] = ID[p] /\ InHand(q)
         \/ \E r \in Routines : routine[r].pc # "idle" /\ routine[r].id = ID[p]

\* "We start it first so that a peer in the list is safe to Stop" (addPeer): as
\* long as the switch runs, every listed peer was started, and no StopPeerForError
\* stops a peer that was not, which would panic.  Once the switch is stopping,
\* addPeer lists peers that it did not start.
ListedPeersSafeToStop ==
    sw = "running" =>
      /\ ~panicked
      /\ \A p \in Peers : Listed(peers, p) => peer[p].svc # "new"
=============================================================================
