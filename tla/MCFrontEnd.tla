---------------------------- MODULE MCFrontEnd ----------------------------
(* Small instance for TLC: three directories below each other, one without  *)
(* a script, one package, and contents that differ from the plainest one in *)
(* at most two respects that meet.                                          *)
EXTENDS FrontEnd

MCDirs == {"root", "a", "ab", "none"}
MCHasScript == {"root", "a", "ab"}
MCWithin == {<<d, d>> : d \in MCDirs} \cup {<<"root", "a">>, <<"root", "ab">>, <<"a", "ab">>}

Say(v, shared, manager, optimize, faulty) ==
    [needs |-> [k \in Packages |-> v], shared |-> shared, manager |-> manager,
     optimize |-> optimize, faulty |-> faulty]

MCContents ==
    {Say(v, shared, "auto", 0, FALSE) : v \in Versions \cup {0}, shared \in BOOLEAN}
    \cup {Say(0, FALSE, "auto", t, FALSE) : t \in BuildTypes}
    \cup {Say(1, shared, "vcpkg", 0, FALSE) : shared \in BOOLEAN}
    \cup {Say(0, FALSE, "auto", 0, TRUE)}
=============================================================================
