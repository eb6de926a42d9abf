CONSTANTS
    Alphabet <- MCAlphabet
    Scenarios <- MCScenarios
    PolicyAncestorMax = 2
    ProxyImage = TRUE
    RenderNetworkPolicy = TRUE
SPECIFICATION Spec
CHECK_DEADLOCK FALSE
INVARIANT SyncFollows
