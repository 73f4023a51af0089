SPECIFICATION Spec
CONSTANTS
    Nil = Nil
    A = A
    B = B
    Proposed <- BThenA
    Block <- TwoParts
    CommitRound = 0
    PeerSteps = {3}
    MaxNodeHeight = 3
    StoreLimit = 1
    MaxLate = 2
    MaxQueue = 1
CHECK_DEADLOCK FALSE
INVARIANTS
    TypeOK
    
