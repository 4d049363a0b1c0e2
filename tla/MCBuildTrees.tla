----------------------------- MODULE MCBuildTrees -----------------------------
(***************************************************************************)
(* BuildTrees for TLC: a script without presets and two with one; between   *)
(* them the build types, the sanitizer, the package manager and the sources *)
(* change. --sanitize adds a second preset, so that configure_presets has    *)
(* two threads. The module of the first preset comes before that of the     *)
(* plain tree in path order, the other one after it. A script names a       *)
(* generator of several configurations, which exports nothing, the others   *)
(* none, which is CMake's default or that of the tree.                     *)
(***************************************************************************)
EXTENDS BuildTrees

MCPresets == {1}
MCImplicit == 2
MCPlain == 3
MCBuildTypes == {"Debug", "Release"}
MCSources == {1, 2}
MCSize == <<1, 2, 1>>
MCPlace == <<1, 3, 2>>

P(type, sanitize) == [optimize |-> type, sanitize |-> sanitize]
S(type, conan, sources, gen, ps) ==
    [optimize |-> type, conan |-> conan, sources |-> sources, generator |-> gen, presets |-> ps]
MCGenerators == {"make", "vs"}
MCExporting == {"make"}
MCMultiConfig == {"vs"}
MCDefaultGenerator == "make"
MCScripts ==
    {S("Debug", FALSE, 1, "vs", <<None>>),
     S("Release", FALSE, 2, None, <<P("Release", TRUE)>>),
     S("Debug", TRUE, 2, None, <<P("Debug", FALSE)>>)}
=============================================================================
