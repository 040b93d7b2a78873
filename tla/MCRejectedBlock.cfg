SPECIFICATION Spec
CONSTANTS
    Params <- MCParams
    MsPerYear = 2
    Word = 16384
    Addr = {1, 2, 3}
    Symbols = {"TOK"}
    Native = "CGO"
    NoAddr = 0
    PrivacyEnabled = TRUE
    Capacity = 3
    FieldOrder = 16381
    WasmEnabled = TRUE
    Programs <- MCPrograms
    Scenes = {"tokens"}
    Document <- MCDocument
    Submitted <- MCSubmitted
    Conduct <- MCConduct
    Proposers <- MCValidatorOnly
    Advances <- MCAdvances
    MaxBlocks <- MCMaxBlocks
    MaxTxs <- MCMaxTxs
PROPERTY FollowersAccept
CHECK_DEADLOCK FALSE
