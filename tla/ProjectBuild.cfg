SPECIFICATION FairProjectSpec
CONSTANTS
    Libraries <- MCLibraries
    Imported <- MCImported
    Reserved <- MCReserved
    Names <- MCNames
    Words <- MCWords
    Paths <- MCPaths
    Files <- MCFiles
    Dirs <- MCDirs
    Outside <- MCOutside
    Matches <- MCMatches
    Foreign <- MCForeign
    FrameworkPackage <- MCFrameworkPackage
    BindingPackage <- MCBindingPackage
    Topics <- MCTopics
    BadNames <- MCBadNames
    Standards <- MCStandards
    ModulesFrom = 20
    Sanitizers <- MCSanitizers
    BuildType <- MCBuildType
    Managers <- MCManagers
    Formats <- MCFormats
INVARIANT ProjectTypeOK ReportedCycleIsReal AcceptedIsAcyclic  StuckOnlyInCircles CopiesAreNeeded NothingIsIgnored PresetsAreKept ReflectionIsCurrent
PROPERTY BuildCallEnds
CHECK_DEADLOCK FALSE
