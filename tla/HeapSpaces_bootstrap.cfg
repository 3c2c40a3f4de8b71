CONSTANTS
    E1Size = 3
    E2Requested = 2
    LispHeapSize = 2
    E1Reserve = 9
    L1Reserve = 13
    L2Reserve = 13
    Meg = 2
    SmallSizes = {1}
    LocalHeapCells = 2
    LargeSizes = {1, 3}
    ImageSizes = {2, 6}
    L1First = TRUE
    HookBudget = 1
    MaxNesting = 2
    Bootstrapping = TRUE
    DecommitUnmaps = FALSE
SPECIFICATION FairSpec
INVARIANTS
    BootstrapMakesRoom
CHECK_DEADLOCK FALSE
