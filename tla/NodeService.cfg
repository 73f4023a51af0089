SPECIFICATION LiveSpec
CONSTANTS
    Nil = Nil
    Ids = {0, 1}
    Peers = {p}
    Self = self
    UsedSets = {{p, self}, {self}, {p}}
    Busy = {1}
    MaxPuts = 2
    MaxUpdates = 1
CHECK_DEADLOCK FALSE
INVARIANTS
    TypeOK
    ChangesSignalled
    RunningServicesListed
PROPERTY
    CallsReturn
