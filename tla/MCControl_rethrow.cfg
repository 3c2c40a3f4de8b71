SPECIFICATION Spec
CONSTANTS
    Programs <- MCCleanupPrograms
    Specials = {"s", "u"}
INVARIANT AsEvaluated
CHECK_DEADLOCK FALSE
