SPECIFICATION LiveSpec
CONSTANTS
    Blocks = {A}
    Nil = Nil
    NoVote = NoVote
    MaxRound = 1
    ProposerRounds = {0}
    SkipTimeoutCommit = FALSE
    AgentMayFail = FALSE
    StableVerdicts = TRUE
    Verdicts <- AllAgree
    MaxHeight = 1
    MaxWait = 3
    MaxUpdates = 0
    MaxSynced = 0
    VoteTallies <- MajoritiesOrAny
CHECK_DEADLOCK FALSE
INVARIANTS
    SanityChecksHold
PROPERTIES
    TimedStepsEnd
