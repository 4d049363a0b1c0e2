SPECIFICATION Spec
CONSTANTS
    Names <- MCNames
    BuiltIn <- MCBuiltIn
    P = 2
    Provides <- MCProvides
INVARIANT LookupFindsPlugins
CHECK_DEADLOCK FALSE
