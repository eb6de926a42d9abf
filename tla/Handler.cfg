SPECIFICATION Spec
CONSTANTS
    LowerOf <- MCLowerOf
    Language <- MCLanguage
    Configs <- MCConfigs
    Requests <- MCRequests
    Draws = {49, 50}
INVARIANT RouteIsBest
INVARIANT ShadowHonest
INVARIANT TrafficSplit
INVARIANT PathsSpliced
INVARIANT CORSConsistent
