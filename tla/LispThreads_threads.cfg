CONSTANTS
    Primary = p
    Secondaries = {s}
    Foreigners = {f}
    NoThread = none
    Workloads = {{"alloc", "gc", "atomic", "create", "exit", "bless"}}
    MaxDepth = 10
    MaxLeaks = 1
    SuspendWorks = TRUE
    Bootstrapping = FALSE
SPECIFICATION FairSpec
INVARIANTS
    HeapExclusive
    LocksReturned
    SuspendedHasResumer
    WokenStaysListed
    WalkedRecordsExist
