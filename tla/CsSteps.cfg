SPECIFICATION Spec
CONSTANTS
    Blocks = {A, B}
    Nil = Nil
    NoVote = NoVote
    MaxRound = 1
    ProposerRounds = {}
    SkipTimeoutCommit = FALSE
    AgentMayFail = TRUE
    StableVerdicts = FALSE
    Verdicts <- AllOrNone
    MaxHeight = 1
    MaxWait = 1
    MaxUpdates = 0
    MaxSynced = 0
    VoteTallies <- EveryTally
SYMMETRY Symmetry
CHECK_DEADLOCK FALSE
INVARIANTS
    TypeOK
    SanityChecksHold
    TimerIsSet
PROPERTIES
    HRSAdvances
