CONSTANTS
    Blocks <- MCBlocks
    NoBlock = NoBlockV
    NoBlockV = NoBlockV
    Code <- MCCode
    Envs <- ConstTypeEnvs
    Addrs <- MCAddrs
    CuBase = 0
    MaxDepth = 64
    MaxFrames = 70
SPECIFICATION Spec
INVARIANT SpecAgreement
CHECK_DEADLOCK FALSE
