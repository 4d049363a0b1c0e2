SPECIFICATION FairSpec
CONSTANTS
    Dirs <- MCDirs
    Root = "root"
    HasScript <- MCHasScript
    MaxProjects = 3
    Packages = {fmt}
    Versions = {1, 2}
    Managers = {"auto", "vcpkg"}
    BuildTypes = {1, 2}
    Contents <- MCContents
    Within <- MCWithin
INVARIANT GuardsFollowCalls NoScriptTwice MountsFormForest EmittedAsDeclared
INVARIANT PackagesBeforeTargets SharedLinksPIC RootTypeWins
PROPERTY BuildEnds
CHECK_DEADLOCK FALSE
