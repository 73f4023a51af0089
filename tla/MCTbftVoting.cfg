SPECIFICATION Spec
CONSTANTS
    Validators = {v1, v2, v3, v4}
    Faulty = {v4}
    Blocks = {A, B}
    Nil = Nil
    NoVote = NoVote
    MaxRound = 2
SYMMETRY Symmetry
CHECK_DEADLOCK FALSE
INVARIANTS
    TypeOK
    Agreement
    PolkasAreSafe
