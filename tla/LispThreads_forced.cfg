CONSTANTS
    Primary = p
    Secondaries = {s}
    Foreigners = {f}
    NoThread = none
    Workloads = {
        {"alloc", "gc", "atomic", "create", "exit", "terminate", "createFails", "critical", "hook"},
        {"gc", "alloc", "atomic", "bless", "unbless", "abort", "save", "load", "loadFails"}}
    MaxDepth = 14
    MaxLeaks = 1
    SuspendWorks = TRUE
    Bootstrapping = FALSE
SPECIFICATION FairSpec
INVARIANTS
    CountCoversList
    ValuesFresh
CHECK_DEADLOCK FALSE
