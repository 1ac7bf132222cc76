CONSTANTS
    Blocks <- MCBlocks
    NoBlock = NoBlockV
    NoBlockV = NoBlockV
    Code <- MCCode
    Envs <- PassEnvs
    Addrs <- MCAddrs
    CuBase = 0
    MaxDepth = 64
    MaxFrames = 70
SPECIFICATION Spec
INVARIANT TypeOK
INVARIANT StackBounded
INVARIANT SpecAgreement
PROPERTY Terminates
PROPERTY Progress
CHECK_DEADLOCK FALSE
