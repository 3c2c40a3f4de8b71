SPECIFICATION Spec
CONSTANTS
    Programs <- MCPrograms
    Specials = {"s", "u"}
INVARIANTS AsEvaluated Balanced StackIndexAgrees CatchersLive BindingsCovered
PROPERTY Ends
CHECK_DEADLOCK FALSE
