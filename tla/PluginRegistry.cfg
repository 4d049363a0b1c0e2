SPECIFICATION FairSpec
CONSTANTS
    Names <- MCNames
    BuiltIn <- MCBuiltIn
    P = 2
    Provides <- MCProvides
INVARIANT Precedence WarmRegistryNeverMisses
PROPERTY MissOnlyWhileLoading LookupsEnd
CHECK_DEADLOCK FALSE
