SPECIFICATION Spec
CONSTANTS
    Presets <- MCPresets
    Implicit <- MCImplicit
    Plain <- MCPlain
    BuildTypes <- MCBuildTypes
    Sources <- MCSources
    Scripts <- MCScripts
    Generators <- MCGenerators
    Exporting <- MCExporting
    MultiConfig <- MCMultiConfig
    DefaultGenerator <- MCDefaultGenerator
    Size <- MCSize
    Place <- MCPlace
    None = None
INVARIANT RootIsOneTrees
