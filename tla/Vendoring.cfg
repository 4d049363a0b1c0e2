SPECIFICATION VFairSpec
CONSTANTS
    Names <- MCNames
    Versions <- MCVersions
    Fetchable <- MCFetchable
    Curated <- MCCurated
    Decls <- MCDecls
    Locations <- MCLocations
    Mirrors <- MCMirrors
    FileOf <- MCFileOf
    Rolling <- MCRolling
    MaxRoll = 2
    MaxHead = 0
    None = None
    Partial = Partial
    One1 = One1
    One2 = One2
    Two = Two
INVARIANT VendoredBuildIsLocal
PROPERTY MapsVerifiedFiles ImplementsResolution VendorEnds
CHECK_DEADLOCK FALSE
