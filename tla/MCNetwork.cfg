SPECIFICATION HSpec
CONSTANTS
    n1 = n1
    n2 = n2
    n3 = n3
    byz = byz
    Nodes = {n1, n2, n3}
    Keyed = {n1, n2, n3}
    Validators = {n1, n2, n3, byz}
    Order <- MCOrder
    Draw <- MCDraw
    NoProposer = NoProposer
    SlashDoubleSignBps = 5000
    SlashDowntimeBps = 0
    DowntimeJailThreshold = 9
    GenesisSet <- MCGenesis
    Payloads = {0}
    MaxHeight = 2
    MaxRound = 2
    NotFrozen = NotFrozen
    NoChild = NoChild
    ForkPoint <- MCForkPoint
    SiblingHeaders <- MCSiblingHeaders
    PowerSets <- MCPowerSets
    CommitChoices <- MCCommits
    EvidenceChoices <- MCEvidence
    ContentChoices = {TRUE}
    RoundsAt <- MCRoundsAt
    VoteReaches <- MCVoteReaches
    BlockReaches <- MCBlockReaches
    Fails <- MCFails
SYMMETRY MCSymmetry
PROPERTY ImplementsForkVoting
CHECK_DEADLOCK FALSE
