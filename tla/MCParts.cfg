SPECIFICATION MCSpec
CONSTANTS
    Docs = {1, 2}
    Txs = {1, 2}
    TxAddrs <- MCTxAddrs
    MaxHeight = 2
    MaxBlocks = 3
    MaxCrashes = 2
    Menu <- MCMenu
    Shapes <- MCShapes
    Locals <- MCLocals
    GasLimit = 2
    MaxDepth = 4
    Grows <- MCGrows
    Half = 8
    WordSize = 256
    ShortWord = 16
    Writers = {"sender", "relay"}
    Queues <- MCQueues
    MaxFrame = 120
    NoWriter = "none"
    TreeDepth = 3
    Path <- MCPath
    LeafValues = {1, 2}
    HalfBits = 4
    Polys <- MCPolys
    Challenges = {0, 1, 17, 240}
    Blowup = 2
    FoldStopBits = 0
    NumQueries = 2
INVARIANTS StateHasItsGenesis ChainOnDisk ListedOnDisk  ModuleLoads
INVARIANTS ReceivedInOrder CutIsRefused TreeIsItsEntries ProofsDoNotLie
INVARIANTS FieldIsModular TransformsAreEvaluations OpeningsAreGood VerdictIsRight
PROPERTY CallEndsOrRefills
CHECK_DEADLOCK FALSE
