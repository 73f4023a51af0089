SPECIFICATION Spec
SYMMETRY Symmetry
CONSTANTS
    a = a
    b = b
    a1 = a1
    a2 = a2
    b1 = b1
    NoPeer = NoPeer
    IDs = {a, b}
    Peers = {a1, a2, b1}
    ID <- MCID
    Outbound = {a1, a2}
    MaxInbound = 1
    Attempts = 1
    BackOffAttempts = 1
    MaxReconnects = 2
    MaxFaults = 2
CHECK_DEADLOCK FALSE
INVARIANTS
    TypeOK
    PeersIndexed
    RunningPeersListed
    DroppedPeersSought
    ListedPeersSafeToStop
