--------------------------- MODULE MCPluginRegistry ---------------------------
(***************************************************************************)
(* PluginRegistry for TLC: "fmt" is curated, "corelib" comes from both of    *)
(* the installed plugins and "netlib" from the second only, which also      *)
(* tries to redefine "fmt". Every subset of the entry points may raise.     *)
(***************************************************************************)
EXTENDS PluginRegistry

MCNames == {"fmt", "corelib", "netlib"}
MCBuiltIn == {"fmt"}
MCProvides == <<{"corelib"}, {"corelib", "netlib", "fmt"}>>
=============================================================================
