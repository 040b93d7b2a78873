SPECIFICATION Spec
CONSTANTS
    n1 = n1
    n2 = n2
    n3 = n3
    n4 = n4
    Nodes = {n1, n2, n3, n4}
    Producer = n1
    Dials <- MCDials
    Speaks <- MCSpeaks
    MinProtocol = 2
    SyncBatch = 2
    UserTxs <- MCUserTxs
    Entries <- MCEntries
    Accounts = {1, 2}
    Faucet = 1
    Plans <- MCPlans
    PoolMax = 2
    BlockMax = 2
INVARIANTS TypeOK NoncesInOrder FaucetNotStuck
CHECK_DEADLOCK FALSE
PROPERTIES  CatchesUp GossipDiesOut
