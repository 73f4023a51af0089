SPECIFICATION Spec
CONSTANTS
    Blocks = {A}
    Nil = Nil
    NoVote = NoVote
    MaxRound = 1
    ProposerRounds = {}
    SkipTimeoutCommit = TRUE
    AgentMayFail = FALSE
    StableVerdicts = TRUE
    Verdicts <- AgreeOrAgainst
    MaxHeight = 2
    MaxWait = 1
    MaxUpdates = 1
    MaxSynced = 1
    VoteTallies <- Majorities
SYMMETRY Symmetry
CHECK_DEADLOCK FALSE
INVARIANTS
    LockHasPolka
    SanityChecksHold
PROPERTIES
    HRSAdvances
    ImplementsVoter
