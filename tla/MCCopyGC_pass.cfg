CONSTANTS
    Objs = {a, b}
    Roots = {x, y}
    Weaks = {w}
    Ids = {i}
    Nil = nil
    Ops = {"large", "code"}
    MaxCalls = 2
    HardwareAssist = TRUE
SPECIFICATION Spec
SYMMETRY Symmetric
INVARIANTS
    NoDangling
    PointersInv
    FullCollectionIsPrecise
    FinalizedOnce
PROPERTIES
    FinalizersKept
    ImplementsGraph
