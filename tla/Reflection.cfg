SPECIFICATION FairProjectSpec
CONSTANTS
    Libraries <- MCLibraries
    Imported <- MCImported
    Reserved <- MCReserved
    Names <- MCNames
    Words <- MCWords
    Paths <- MCPaths
    Files <- MCFiles
    Dirs <- MCDirs
    Outside <- MCOutside
    Matches <- MCMatches
    Foreign <- MCForeign
    FrameworkPackage <- MCFrameworkPackage
    BindingPackage <- MCBindingPackage
    Topics <- MCReflecting
    BadNames <- MCBadNames
    Standards <- MCStandards
    ModulesFrom = 20
    Sanitizers <- MCSanitizers
    BuildType <- MCBuildType
    Managers <- MCManagers
    Formats <- MCFormats
INVARIANT VariablesAreFound
CHECK_DEADLOCK FALSE
