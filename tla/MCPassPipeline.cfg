SPECIFICATION Spec
CONSTANTS
    p = p
    q = q
    MaxLine = 3
    Levels <- MCLevels
    Passes <- MCPasses
    Normal <- MCNormal
    Lines <- MCLines
    MaxCalls = 2
CHECK_DEADLOCK FALSE
INVARIANTS
    PassesVerified
    PipelineAsAsked
    OwnPassesRun
