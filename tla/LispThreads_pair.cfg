CONSTANTS
    Primary = p
    Secondaries = {}
    Foreigners = {f}
    NoThread = none
    Workloads = {{"alloc", "gc", "atomic", "bless", "hook"}}
    MaxDepth = 10
    MaxLeaks = 1
    SuspendWorks = TRUE
    Bootstrapping = FALSE
SPECIFICATION FairSpec
INVARIANT
    StopTheWorld
PROPERTIES
    StopEnds
    SuspendedRuns
