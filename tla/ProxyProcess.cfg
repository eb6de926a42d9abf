SPECIFICATION Spec
CONSTANTS
    Scenarios <- MCScenarios
    MirrorMaxAttempts = 2
CHECK_DEADLOCK FALSE
INVARIANT DialedAsConfigured
INVARIANT PoolTracksConfig
INVARIANT StreamsSurvive
INVARIANT GRPCReported
PROPERTY Released
PROPERTY Drains
