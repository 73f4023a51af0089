SPECIFICATION Spec
CONSTANTS
    Nil = Nil
    v1 = v1
    v2 = v2
    Validators = {v1, v2}
    ForBlock = {v1, v2}
    Rounds = {0, 2}
    Cast <- AllVotes
    HeldAtStart <- FewVotes
    Elsewhere <- EarlyVotes
    PeerSteps = {3}
    MaxNodeHeight = 3
    StoreLimit = 2
    PolRounds = {0}
    MaxWire = 1
    MaxLost = 1
CHECK_DEADLOCK FALSE
INVARIANTS
    TypeOK
    NoVoteForgotten
    CommitReachesPeer
