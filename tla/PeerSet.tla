------------------------------ MODULE PeerSet ------------------------------
(***************************************************************************)
(* tp2p/peer_set.go: the table of connected peers.  `list' is what the     *)
(* switch iterates over; `lookup' finds a peer by its ID and remembers its *)
(* place in the list.  Each operation runs under the table's mutex.        *)
(* Places count from 1.                                                    *)
(***************************************************************************)
EXTENDS Integers, Sequences

CONSTANTS
    IDs,      \* the identities a remote node can have
    Peers,    \* the peer objects, one for every connection
    ID,       \* ID[p]: the identity p.ID() reports
    NoPeer    \* no peer object

ASSUME PeerAssumption == ID \in [Peers -> IDs] /\ NoPeer \notin Peers

NoItem == [peer |-> NoPeer, index |-> 0]

PeerSets == [list : Seq(Peers), lookup : [IDs -> [peer : Peers, index : Nat] \cup {NoItem}]]

NewPeerSet == [list |-> <<>>, lookup |-> [id \in IDs |-> NoItem]]

Has(ps, id) == ps.lookup[id] # NoItem

Listed(ps, p) == ps.lookup[ID[p]].peer = p

\* Add: refused with ErrSwitchDuplicatePeerID when Has(ps, ID[p]).
Add(ps, p) ==
    [list   |-> Append(ps.list, p),
     lookup |-> [ps.lookup EXCEPT ![ID[p]] = [peer |-> p, index |-> Len(ps.list) + 1]]]

\* Remove looks the peer up by its ID: what it discards is the peer that is
\* listed under that ID, whichever object that is.  The last peer of the list
\* takes the place of the one removed.
RemoveLast(ps, id) ==
    [list   |-> SubSeq(ps.list, 1, Len(ps.list) - 1),
     lookup |-> [ps.lookup EXCEPT ![id] = NoItem]]

RemoveInnerKeepingIndex(ps, id) ==  \* a mutant: the moved peer keeps its old index
    LET last  == ps.list[Len(ps.list)]
        index == ps.lookup[id].index
    IN  [list   |-> [SubSeq(ps.list, 1, Len(ps.list) - 1) EXCEPT ![index] = last],
         lookup |-> [ps.lookup EXCEPT ![id] = NoItem]]

RemoveInner(ps, id) ==
    LET last  == ps.list[Len(ps.list)]
        index == ps.lookup[id].index
    IN  [list   |-> [SubSeq(ps.list, 1, Len(ps.list) - 1) EXCEPT ![index] = last],
         lookup |-> [ps.lookup EXCEPT ![ID[last]] = [peer |-> @.peer, index |-> index],
                                      ![id] = NoItem]]

Remove(ps, id) ==
    IF ~Has(ps, id) THEN ps
    ELSE IF ps.lookup[id].index = Len(ps.list) THEN RemoveLast(ps, id)
    ELSE RemoveInner(ps, id)

\* The list and the lookup describe the same peers: every ID that is looked up
\* leads to the place of a peer with that ID, and every place of the list is
\* the one its peer's ID leads to.  Remove relies on it to overwrite the right
\* place, and Size to count every peer once.
Indexed(ps) ==
    /\ \A id \in IDs : Has(ps, id) =>
         /\ ps.lookup[id].index \in 1..Len(ps.list)
         /\ ps.list[ps.lookup[id].index] = ps.lookup[id].peer
         /\ ID[ps.lookup[id].peer] = id
    /\ \A i \in 1..Len(ps.list) : ps.lookup[ID[ps.list[i]]].index = i
=============================================================================
