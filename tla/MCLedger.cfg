SPECIFICATION Spec
CONSTANTS
    Params <- MCParams
    MsPerYear = 2
    Word = 16384
    Addr = {1, 2, 3}
    Symbols = {"TOK"}
    Native = "CGO"
    NoAddr = 0
    PrivacyEnabled = TRUE
    Capacity = 3
    FieldOrder = 16381
    WasmEnabled = TRUE
    Programs <- MCPrograms
    Scenes = {"staking", "tokens", "contracts", "shielded", "wasm"}
    Document <- MCDocument
    Submitted <- MCSubmitted
    Conduct <- MCConduct
    Proposers <- MCProposers
    Advances <- MCAdvances
    MaxBlocks <- MCMaxBlocks
    MaxTxs <- MCMaxTxs
INVARIANTS TypeOK SupplyConserved StakesAddUp ContractsSolvent TokensAddUp
PROPERTIES ReplayAgrees PoolDebtExplained
CHECK_DEADLOCK FALSE
