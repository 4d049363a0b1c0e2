SPECIFICATION FairSpec
CONSTANTS
    Names <- MCNames
    Versions <- MCVersions
    Fetchable <- MCFetchable
    Curated <- MCCurated
    Decls <- MCDecls
    Locations = {Mirrored}
    Mirrored = Mirrored
    Mirrors <- MCMirrors
    Rolling <- MCRolling
    MaxRoll = 2
    MaxHead = 2
    None = None
INVARIANT TypeOK LockDescribesBuild
PROPERTY PinsAreStable OfflineTrustsNothingNew ImplementsPinStore RunsEnd
CHECK_DEADLOCK FALSE
