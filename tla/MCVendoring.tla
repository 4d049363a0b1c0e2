------------------------------ MODULE MCVendoring ------------------------------
(***************************************************************************)
(* The packages of MCResolution with the map written by vendor runs only.  *)
(* One upstream archive may change under its url.                          *)
(***************************************************************************)
EXTENDS Vendoring

CONSTANTS One1, One2, Two   \* the files that the archives are stored in

MCNames == {1, 2}
MCVersions == {"v1", "v2"}
MCFetchable == {1}
MCCurated == {<<1, "v2">>}
MCDecls == <<{[version |-> v, url |-> "registry", sha |-> "none"] : v \in MCVersions},
             {[version |-> "v1", url |-> "custom", sha |-> "given"]}>>
MCRolling == {<<1, "v1">>}
MCLocations == {One1, One2, Two}

\* Package 2 keeps one file name; the name of package 1 has its version.
MCFileOf == [u \in Urls |-> IF u[1] = 2 THEN Two ELSE IF u[2] = "v2" THEN One2 ELSE One1]

\* Nobody writes the map by hand.
MCMirrors == {}
=============================================================================
