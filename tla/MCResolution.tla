----------------------------- MODULE MCResolution -----------------------------
(***************************************************************************)
(* Package 1 moves between an uncurated and a curated version; package 2   *)
(* has one version, from the registry or from a url with a hash of the     *)
(* script's own. Package 1 alone can be downloaded from the registry.      *)
(***************************************************************************)
EXTENDS Resolution

CONSTANT Mirrored   \* where a mirror map sends builds

MCNames == {1, 2}
MCVersions == {"v1", "v2"}
MCFetchable == {1}
MCCurated == {<<1, "v2">>}
Plain(v) == [version |-> v, url |-> "registry", sha |-> "none"]
MCDecls == <<{Plain("v1"), Plain("v2")},
             {Plain("v1"), [version |-> "v1", url |-> "custom", sha |-> "given"]}>>
MCRolling == Urls
NoMap == [n \in MCNames |-> None]
MCMirrors == {NoMap, [NoMap EXCEPT ![1] = Mirrored]}
=============================================================================
