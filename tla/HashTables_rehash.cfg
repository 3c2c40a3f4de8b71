CONSTANTS
    Keys = {k1, k2}
    Values = {v1, v2}
    NoValue = none
    Addresses = {0, 1, 2}
    FirstSize = 2
    MaxSize = 4
    GCPoints = {"idle", "alloc", "rehash"}
SPECIFICATION Spec
INVARIANT
    StaleKnown
