SPECIFICATION Spec
CONSTANTS
    n1 = n1
    v1 = v1
    Nodes = {n1}
    Keyed = {n1}
    Validators = {n1, v1}
    Order <- MCOrder
    Draw <- MCDraw
    NoProposer = NoProposer
    SlashDoubleSignBps = 5000
    SlashDowntimeBps = 0
    DowntimeJailThreshold = 2
    GenesisSet <- MCGenesis
    Payloads = {0}
    MaxHeight = 3
    MaxRound = 2
    NotFrozen = NotFrozen
    CommitChoices <- MCCommits
    EvidenceChoices = {{}}
    ContentChoices = {TRUE}
    RoundsAt <- MCRoundsAt
    VoteReaches <- MCVoteReaches
    BlockReaches <- MCBlockReaches
    MaxEnvVotes = 2
    MaxForks = 1
    MaxFailures = 0
    Fails <- MCFails
INVARIANT NoSelfEquivocation
CHECK_DEADLOCK FALSE
