SPECIFICATION Spec
CONSTANTS
    Validators = {v1, v2, v3, v4}
    BlockIDs = {bnil, b1}
    Peers = {p1, p2}
    NoBlock = NoBlock
    NoVote = NoVote
SYMMETRY Symmetry
INVARIANTS
    TypeOK
    VotesHaveEntry
    CommitHasQuorum
    NoMajorityMissed
    SumsAreExact
    MajorityHasPriority
    ConflictsOnlyWhereClaimed
PROPERTY
    ImplementsTally
