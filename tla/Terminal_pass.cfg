CONSTANTS
    Readers = {r}
    Writers = {r, w}
    Openers = {w}
    InSize = 3
    OutSize = 3
    LineSize = 2
    Returns = {2}
    Zeros = {}
    Documents = {d, e}
    None = none
    MaxTyped = 3
    MaxSaid = 2
SPECIFICATION FairSpec
INVARIANTS
    TextIntact
    NoFalseEnd
    OpenedAsAsked
PROPERTY
    Served
CHECK_DEADLOCK FALSE
