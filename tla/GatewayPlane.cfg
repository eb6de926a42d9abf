CONSTANTS
    Alphabet <- MCAlphabet
    Scenarios <- MCScenarios
    PolicyAncestorMax = 2
    ProxyImage = TRUE
    RenderNetworkPolicy = TRUE
SPECIFICATION Spec
CHECK_DEADLOCK FALSE
INVARIANT StatusesCurrent
INVARIANT RenderedCurrent
INVARIANT OwnToken
PROPERTY OthersKept
