SPECIFICATION Spec
CONSTANTS
    Blocks = {A, B}
    Nil = Nil
    NoVote = NoVote
    MaxRound = 2
    ProposerRounds = {}
    SkipTimeoutCommit = FALSE
    AgentMayFail = FALSE
    StableVerdicts = TRUE
    Verdicts <- AllAgree
    MaxHeight = 1
    MaxWait = 1
    MaxUpdates = 0
    MaxSynced = 0
    VoteTallies <- Majorities
SYMMETRY Symmetry
CHECK_DEADLOCK FALSE
INVARIANTS
    LockHasPolka
PROPERTIES
    ImplementsVoter
