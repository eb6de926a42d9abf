CONSTANTS
    Alphabet <- MCAlphabet
    Scenarios <- MCScenarios
    RouteParentStatusMaxCount = 2
SPECIFICATION MCSpec
CHECK_DEADLOCK FALSE
INVARIANT SharesKept
INVARIANT VerdictsJustified
INVARIANT NoDowngrade
INVARIANT HostnamesInScope
INVARIANT CrossTypeExclusive
INVARIANT ViewsFresh
INVARIANT StatusTruthful
PROPERTY ForeignKept
PROPERTY Converges
