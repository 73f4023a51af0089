SPECIFICATION Spec
CONSTANTS
    Blocks = {A, B}
    Nil = Nil
    NoVote = NoVote
    MaxRound = 1
    ProposerRounds = {}
    SkipTimeoutCommit = FALSE
    AgentMayFail = FALSE
    StableVerdicts = TRUE
    Verdicts <- AllAgree
    MaxHeight = 1
    MaxWait = 1
    MaxUpdates = 1
    MaxSynced = 0
    VoteTallies <- EveryTally
SYMMETRY Symmetry
CHECK_DEADLOCK FALSE
INVARIANTS
    NeverDoubleSigns
