SPECIFICATION Spec
CONSTANTS
  Nil = Nil
  Nodes = {n1, n2}
  Committees <- TwoCommittees
  MaxHeight = 2
  MaxRound = 4
INVARIANTS TypeOK ProposersAgree ProposersTakeTurns
SYMMETRY Symmetry
