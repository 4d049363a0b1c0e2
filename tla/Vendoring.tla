------------------------------- MODULE Vendoring -------------------------------
(***************************************************************************)
(* `cmakeless vendor` beside the resolving verbs (src/cmakeless/deps/       *)
(* vendor.py and mirror.py on top of Resolution). It downloads every locked *)
(* archive, one package after the other in sorted order, verifies it,       *)
(* stores it, and at the end replaces the mirror map that later builds are  *)
(* sent to. One verb runs at a time, upstream changes whenever it likes,    *)
(* and a run can die between any two steps.                                *)
(***************************************************************************)
EXTENDS Resolution

CONSTANTS
    FileOf,   \* the name that the archive at a url gets in vendor/
    Partial   \* a file that has been truncated and not written yet

ASSUME VendoringAssumption ==
    /\ FileOf \in [Urls -> Locations]
    /\ \A u, v \in Urls : u[1] # v[1] => FileOf[u] # FileOf[v]
    /\ Partial \notin Digests \cup {None}

VARIABLES
    store,     \* the vendored files: nothing, a truncated file or an archive
    vphase,    \* what the vendor run is doing
    payload,   \* the archive it has in memory
    vmap,      \* the mirror map that it is collecting
    vendored   \* the last vendor run went through, and the lockfile and the
               \* mirror map are as it left them

vendorVars == <<store, vphase, payload, vmap, vendored>>
allVars == <<vars, vendorVars>>

VTypeOK ==
    /\ TypeOK
    /\ store \in [Locations -> Digests \cup {None, Partial}]
    /\ vphase \in {"idle", "fetching", "storing", "writing", "mapping"}
    /\ payload \in Digests \cup {None}
    /\ vmap \in [Names -> Locations \cup {None}]
    /\ vendored \in BOOLEAN

VInit ==
    /\ Init
    /\ store = [l \in Locations |-> None]
    /\ vphase = "idle"
    /\ payload = None
    /\ vmap = NoMirror
    /\ vendored = FALSE

-----------------------------------------------------------------------------

\* Packages that a package manager provides have no url and are skipped.
Fetched == {n \in Names : lock.pins[n] # None /\ lock.pins[n].url # None}
Remaining == {n \in Fetched : vmap[n] = None}
IsNext(n) == n \in Remaining /\ \A m \in Remaining : n <= m
File(n) == FileOf[lock.pins[n].url]

\* Without a readable lockfile the verb refuses.
VendorStart ==
    /\ vphase = "idle"
    /\ phase = "idle"
    /\ ~torn /\ lock # EmptyLock
    /\ vphase' = "fetching"
    /\ vmap' = NoMirror
    /\ vendored' = FALSE
    /\ UNCHANGED <<vars, store, payload>>

\* Mutant: the archive is kept without comparing its hash.
FetchUnverified(n) ==
    /\ vphase = "fetching"
    /\ IsNext(n)
    /\ payload' = Archive(lock.pins[n].url, roll[lock.pins[n].url])
    /\ vphase' = "storing"
    /\ UNCHANGED <<vars, store, vmap, vendored>>

\* Mutant: a changed archive is vendored and pinned anew.
FetchAndPin(n) ==
    /\ vphase = "fetching"
    /\ IsNext(n)
    /\ payload' = Archive(lock.pins[n].url, roll[lock.pins[n].url])
    /\ lock' = [lock EXCEPT !.pins[n].sha = payload']
    /\ vphase' = "storing"
    /\ UNCHANGED <<scriptVars, worldVars, torn, mirror, mirrorTorn, runVars, lastVars, store, vmap,
                   vendored>>

\* The archive that upstream serves now has the locked hash, if there is one.
FetchArchive(n) ==
    /\ vphase = "fetching"
    /\ IsNext(n)
    /\ payload' = Archive(lock.pins[n].url, roll[lock.pins[n].url])
    /\ lock.pins[n].sha \in {None, payload'}
    /\ vphase' = "storing"
    /\ UNCHANGED <<vars, store, vmap, vendored>>

\* A failed download, a refused scheme or another hash ends the run: archives
\* that are stored already stay, the mirror map is not touched.
FetchFails ==
    /\ vphase = "fetching"
    /\ Remaining # {}
    /\ vphase' = "idle"
    /\ vmap' = NoMirror
    /\ UNCHANGED <<vars, store, payload, vendored>>

\* Path.write_bytes truncates a file of that name first.
OpenFile(n) ==
    /\ vphase = "storing"
    /\ IsNext(n)
    /\ store' = [store EXCEPT ![File(n)] = Partial]
    /\ vphase' = "writing"
    /\ UNCHANGED <<vars, payload, vmap, vendored>>

\* Mutant: the archive is stored and not entered in the map.
WriteFileOnly(n) ==
    /\ vphase = "writing"
    /\ IsNext(n)
    /\ store' = [store EXCEPT ![File(n)] = payload]
    /\ payload' = None
    /\ vphase' = "fetching"
    /\ UNCHANGED <<vars, vmap, vendored>>

WriteFile(n) ==
    /\ vphase = "writing"
    /\ IsNext(n)
    /\ store' = [store EXCEPT ![File(n)] = payload]
    /\ vmap' = [vmap EXCEPT ![n] = File(n)]
    /\ payload' = None
    /\ vphase' = "fetching"
    /\ UNCHANGED <<vars, vendored>>

\* A map without entries is not written, and an old one stays.
MapNothing ==
    /\ vphase = "fetching"
    /\ Remaining = {}
    /\ vmap = NoMirror
    /\ vphase' = "idle"
    /\ vendored' = TRUE
    /\ UNCHANGED <<vars, store, payload, vmap>>

\* Path.write_text truncates the map first.
OpenMap ==
    /\ vphase = "fetching"
    /\ Remaining = {}
    /\ vmap # NoMirror
    /\ ReplaceMirror(mirror, TRUE)
    /\ vphase' = "mapping"
    /\ UNCHANGED <<store, payload, vmap, vendored>>

\* Mutant: entries that the map has already are kept.
MergedMap == [n \in Names |-> IF mirror[n] # None THEN mirror[n] ELSE vmap[n]]

\* The whole map is replaced, entries written by hand included.
NewMap == vmap

WriteMap ==
    /\ vphase = "mapping"
    /\ ReplaceMirror(NewMap, FALSE)
    /\ vphase' = "idle"
    /\ vmap' = NoMirror
    /\ vendored' = TRUE
    /\ UNCHANGED <<store, payload>>

VendorCrash ==
    /\ vphase # "idle"
    /\ vphase' = "idle"
    /\ payload' = None
    /\ vmap' = NoMirror
    /\ UNCHANGED <<vars, store, vendored>>

-----------------------------------------------------------------------------

VendorStep ==
    \/ \E n \in Names : FetchArchive(n) \/ OpenFile(n) \/ WriteFile(n)
    \/ FetchFails
    \/ MapNothing
    \/ OpenMap
    \/ WriteMap

\* The other verbs and the user wait for the vendor run.
OtherStep ==
    /\ vphase = "idle"
    /\ UserStep \/ StartStep \/ RunStep \/ Crash
    /\ vendored' = (vendored /\ UNCHANGED <<lock, mirror, mirrorTorn>>)
    /\ UNCHANGED <<store, vphase, payload, vmap>>

World == WorldStep /\ UNCHANGED vendorVars

VNext == VendorStart \/ VendorStep \/ VendorCrash \/ OtherStep \/ World

VSpec == VInit /\ [][VNext]_allVars

\* A vendor run that has begun goes on: a download ends or times out.
VFairSpec == VSpec /\ WF_allVars(VendorStep)

-----------------------------------------------------------------------------
(* Properties.                                                             *)

\* As long as nobody refreshes the lockfile or edits the map, a build after a
\* vendor run fetches local files only, and they are the archives it verifies,
\* whatever upstream serves by then: "cmakeless build --offline  # resolve from
\* the vendored copies, no network at all" (docs/cookbook.md).
VendoredBuildIsLocal ==
    vendored /\ end = "built" =>
        \A n \in Names :
            emitted[n] # None =>
                emitted[n].source \in Locations /\ store[emitted[n].source] = emitted[n].sha

\* The map is only ever rewritten by a vendor run when every archive it will
\* name is whole and has the hash in the lockfile.
MapsVerifiedFiles ==
    [][vphase = "mapping" /\ vphase' = "idle" /\ mirror' # mirror =>
          \A n \in Names :
              /\ mirror'[n] # None <=> n \in Fetched
              /\ n \in Fetched =>
                    /\ store[mirror'[n]] \in Digests
                    /\ lock.pins[n].sha \in {None, store[mirror'[n]]}]_allVars

\* Every vendor run comes to an end.
VendorEnds == vphase # "idle" ~> vphase = "idle"

\* Whatever Resolution promises it promises beside vendor runs too: to it they
\* are edits of the mirror map.
Resolver == INSTANCE Resolution WITH Mirrors <- [Names -> Locations \cup {None}]
ImplementsResolution == Resolver!Spec

-----------------------------------------------------------------------------
(* What the documentation says and the code does not do.                   *)

\* "so a later --offline build resolves every package from disk with no extra
\* configuration" (deps/vendor.py): the file that an --offline build takes a
\* package from is the archive whose hash it verifies.
MirrorFollowsPins ==
    [][phase = "emitting" /\ offline /\ end' = "built" =>
          \A n \in Names :
              emitted'[n] # None /\ emitted'[n].source \in Locations =>
                  store[emitted'[n].source] = emitted'[n].sha]_allVars

\* "--offline refuses to fetch anything not already available rather than
\* silently reaching the network" (docs/cookbook.md): an --offline build that
\* succeeds has no upstream url in its project.
OfflineStaysLocal ==
    [][phase = "emitting" /\ offline /\ end' = "built" =>
          \A n \in Names : emitted'[n] # None => emitted'[n].source \in Locations]_allVars
=============================================================================
