CONSTANTS
    Blocks <- MCBlocks
    NoBlock = NoBlockV
    NoBlockV = NoBlockV
    Code <- MCCode
    Envs <- RelaxedEnvs
    Addrs <- MCAddrs
    CuBase = 0
    MaxDepth = 64
    MaxFrames = 70
SPECIFICATION Spec
INVARIANT SpecAgreement
CHECK_DEADLOCK FALSE
