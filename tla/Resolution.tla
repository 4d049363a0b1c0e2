------------------------------ MODULE Resolution ------------------------------
(***************************************************************************)
(* The life of one project directory as far as dependency resolution is     *)
(* concerned (src/cmakeless/deps/resolver.py, fetchcontent.py, lockfile.py, *)
(* mirror.py, vcpkg.py and the verbs of src/cmakeless/api/project.py that    *)
(* resolve). The user edits the build script between runs and starts one    *)
(* verb at a time; a run resolves every required package, one worker each,  *)
(* rewrites cmakeless.lock, and a build then emits the CMake project.       *)
(*                                                                         *)
(* The workers run in a thread pool. PoolMap shows that its caller sees     *)
(* either all results or the error of the first failing package, and this   *)
(* module builds on that: workers finish in any order, and the run goes on  *)
(* when all have succeeded or when the first failing one is known.          *)
(***************************************************************************)
EXTENDS Naturals

CONSTANTS
    Names,       \* package names, as numbers in sorted order
    Versions,    \* version strings
    Fetchable,   \* the packages whose registry entry has a url template
    Curated,     \* the <<name, version>> pairs with a curated hash
    Decls,       \* the declarations of each package that the user tries
    Locations,   \* where a mirror map can send a build
    Mirrors,     \* the mirror maps that are found between runs
    Rolling,     \* bound: the urls whose archive upstream replaces
    MaxRoll,     \* bound: how many archives it serves at one of them
    MaxHead,     \* bound: how many commits the vcpkg checkout moves through
    None         \* no declaration, no pin, no url, no hash

Urls == Names \X (Versions \cup {"custom"})
Digests == [url : Urls, roll : 1 .. MaxRoll]
Managers == {"auto", "vcpkg"}
Decl == [version : Versions, url : {"registry", "custom"}, sha : {"none", "given"}]
Pin == [version : Versions, backend : Managers, url : Urls \cup {None}, sha : Digests \cup {None}]
Lock == [pins : [Names -> Pin \cup {None}], baseline : 0 .. MaxHead]
Fetch == [source : Urls \cup Locations, sha : Digests]

ASSUME ResolutionAssumption ==
    /\ Names \subseteq Nat \ {0}
    /\ "custom" \notin Versions
    /\ Fetchable \subseteq Names
    /\ Curated \subseteq Names \X Versions
    /\ Decls \in [Names -> SUBSET Decl]
    /\ Mirrors \subseteq [Names -> Locations \cup {None}]
    /\ MaxRoll \in Nat \ {0}
    /\ MaxHead \in Nat
    /\ None \notin Decl \cup Pin \cup Urls \cup Digests \cup Locations \cup Fetch

VARIABLES
    decl,         \* depends(): what the build script requires of each package
    manager,      \* project.package_manager
    roll,         \* how many different archives upstream has served at each url
    head,         \* HEAD of the vcpkg checkout, 0 when there is none
    lock,         \* cmakeless.lock, as it was last completely written
    torn,         \* whether cmakeless.lock has been truncated since
    mirror,       \* cmakeless.mirror.json, likewise
    mirrorTorn,
    phase,        \* what the current run is doing
    verb,         \* its verb
    offline,      \* whether it was started with --offline
    work,         \* what became of each worker
    result,       \* the completed pins
    end,          \* how the last run ended; "none" once the script has changed
    emitted       \* what the project that it generated fetches

scriptVars == <<decl, manager>>
worldVars == <<roll, head>>
fileVars == <<lock, torn, mirror, mirrorTorn>>
runVars == <<phase, verb, offline, work, result>>
lastVars == <<end, emitted>>
vars == <<scriptVars, worldVars, fileVars, runVars, lastVars>>

NoPins == [n \in Names |-> None]
EmptyLock == [pins |-> NoPins, baseline |-> 0]
NoMirror == [n \in Names |-> None]
Nothing == [n \in Names |-> None]
AllPending == [n \in Names |-> "pending"]

TypeOK ==
    /\ decl \in [Names -> Decl \cup {None}]
    /\ manager \in Managers
    /\ roll \in [Urls -> 1 .. MaxRoll]
    /\ head \in 0 .. MaxHead
    /\ lock \in Lock
    /\ torn \in BOOLEAN
    /\ mirror \in [Names -> Locations \cup {None}]
    /\ mirrorTorn \in BOOLEAN
    /\ phase \in {"idle", "resolving", "locking", "emitting"}
    /\ verb \in {"build", "lock"}
    /\ offline \in BOOLEAN
    /\ work \in [Names -> {"pending", "ok", "error"}]
    /\ result \in [Names -> Pin \cup {None}]
    /\ end \in {"none", "locked", "built", "failed", "crashed"}
    /\ emitted \in [Names -> Fetch \cup {None}]

Init ==
    /\ decl = Nothing
    /\ manager = "auto"
    /\ roll = [u \in Urls |-> 1]
    /\ head \in 0 .. 1
    /\ head <= MaxHead
    /\ lock = EmptyLock
    /\ torn = FALSE
    /\ mirror = NoMirror
    /\ mirrorTorn = FALSE
    /\ phase = "idle"
    /\ verb = "build"
    /\ offline = FALSE
    /\ work = AllPending
    /\ result = NoPins
    /\ end = "none"
    /\ emitted = Nothing

-----------------------------------------------------------------------------
(* The user and the world, between runs or, for the world, at any time.    *)

Between(manual) ==
    /\ phase = "idle"
    /\ manual
    /\ end' = "none"
    /\ emitted' = Nothing
    /\ UNCHANGED <<worldVars, runVars>>

\* The script declares another set of packages the next time it is run.
Edit(n, d) ==
    /\ Between(d # decl[n])
    /\ decl' = [decl EXCEPT ![n] = d]
    /\ UNCHANGED <<manager, fileVars>>

ChooseManager(m) ==
    /\ Between(m # manager)
    /\ manager' = m
    /\ UNCHANGED <<decl, fileVars>>

\* "Delete it and rerun to regenerate."
DeleteLock ==
    /\ Between(torn \/ lock # EmptyLock)
    /\ lock' = EmptyLock
    /\ torn' = FALSE
    /\ UNCHANGED <<scriptVars, mirror, mirrorTorn>>

\* The mirror map is written by hand or by `cmakeless vendor`, between runs.
ReplaceMirror(m, t) ==
    /\ Between(TRUE)
    /\ mirror' = m
    /\ mirrorTorn' = t
    /\ UNCHANGED <<scriptVars, lock, torn>>

Required == {n \in Names : decl[n] # None}

UrlOf(n) == <<n, IF decl[n].url = "custom" THEN "custom" ELSE decl[n].version>>
Archive(u, r) == [url |-> u, roll |-> r]

\* Upstream serves another archive at a url, as GitHub may do with a generated
\* tarball. An archive that nobody asks for might as well wait.
Reroll(n) ==
    /\ n \in Required
    /\ UrlOf(n) \in Rolling
    /\ roll[UrlOf(n)] < MaxRoll
    /\ roll' = [roll EXCEPT ![UrlOf(n)] = @ + 1]
    /\ UNCHANGED <<scriptVars, head, fileVars, runVars, lastVars>>

MoveHead ==
    /\ head \in 1 .. MaxHead - 1
    /\ head' = head + 1
    /\ UNCHANGED <<scriptVars, roll, fileVars, runVars, lastVars>>

-----------------------------------------------------------------------------
(* Starting a run.                                                         *)

\* A tree without dependencies is returned as it is: no lockfile is read or
\* written, and the mirror map is not looked at.
StartEmpty(v) ==
    /\ phase = "idle"
    /\ Required = {}
    /\ end' = IF v = "build" THEN "built" ELSE "locked"
    /\ emitted' = Nothing
    /\ UNCHANGED <<scriptVars, worldVars, fileVars, runVars>>

\* An unreadable lockfile or mirror map ends the run before any worker starts.
StartUnreadable ==
    /\ phase = "idle"
    /\ Required # {}
    /\ torn \/ mirrorTorn
    /\ end' = "failed"
    /\ emitted' = Nothing
    /\ UNCHANGED <<scriptVars, worldVars, fileVars, runVars>>

\* Mutant: a lockfile that does not parse is treated like one that is not there.
StartAnyway(v, o) ==
    /\ phase = "idle"
    /\ Required # {}
    /\ phase' = "resolving"
    /\ verb' = v
    /\ offline' = o
    /\ end' = "none"
    /\ emitted' = Nothing
    /\ UNCHANGED <<scriptVars, worldVars, fileVars, work, result>>

Start(v, o) ==
    /\ phase = "idle"
    /\ Required # {}
    /\ ~torn /\ ~mirrorTorn
    /\ phase' = "resolving"
    /\ verb' = v
    /\ offline' = o
    /\ end' = "none"
    /\ emitted' = Nothing
    /\ UNCHANGED <<scriptVars, worldVars, fileVars, work, result>>

force == verb = "lock"

-----------------------------------------------------------------------------
(* The workers: AutoAdapter.resolve and its siblings. Nothing else writes   *)
(* the lockfile during a run, so the file still is the snapshot that the    *)
(* workers were given.                                                      *)

CompletePin(n) ==
    /\ lock.pins[n] # None
    /\ lock.pins[n].backend = "auto"
    /\ lock.pins[n].url # None
    /\ lock.pins[n].sha # None

\* Mutant: a pin of another backend, without url or hash, counts as well.
LockedPinIncomplete(n) ==
    /\ ~force
    /\ lock.pins[n] # None
    /\ lock.pins[n].version = decl[n].version

\* Mutant: the lock verb reuses what it was asked to refresh, and a build does not.
LockedPinInverted(n) ==
    /\ force
    /\ CompletePin(n)
    /\ lock.pins[n].version = decl[n].version

\* _locked_pin: a complete pin of the required version by the same backend.
LockedPin(n) ==
    /\ ~force
    /\ CompletePin(n)
    /\ lock.pins[n].version = decl[n].version

\* An override names the archive it was taken from; the curated hash of a
\* release counts only when the registry's own url is used.
KnownHash(n) ==
    \/ decl[n].sha = "given"
    \/ decl[n].url = "registry" /\ <<n, decl[n].version>> \in Curated

\* _registry_url raises for a package that no template covers.
HasUrl(n) == decl[n].url = "custom" \/ n \in Fetchable

PinOf(n, u, s) == [version |-> decl[n].version, backend |-> manager, url |-> u, sha |-> s]

Running(n) == phase = "resolving" /\ n \in Required /\ work[n] = "pending"

Report(n, w) ==
    /\ work' = [work EXCEPT ![n] = w]
    /\ UNCHANGED <<scriptVars, worldVars, fileVars, phase, verb, offline, lastVars>>

Succeed(n, u, s) ==
    /\ Report(n, "ok")
    /\ result' = [result EXCEPT ![n] = PinOf(n, u, s)]

\* vcpkg, conan and find_package fill in names only: overrides pass through.
ResolveByManager(n) ==
    /\ manager # "auto"
    /\ Succeed(n, IF decl[n].url = "custom" THEN UrlOf(n) ELSE None,
                  IF decl[n].sha = "given" THEN Archive(UrlOf(n), 1) ELSE None)

ResolveFromLock(n) ==
    /\ manager = "auto"
    /\ LockedPin(n)
    /\ Succeed(n, lock.pins[n].url, lock.pins[n].sha)

ResolveKnown(n) ==
    /\ manager = "auto"
    /\ ~LockedPin(n)
    /\ HasUrl(n)
    /\ KnownHash(n)
    /\ Succeed(n, UrlOf(n), Archive(UrlOf(n), 1))

\* Mutant: --offline is not consulted before downloading.
DownloadAnyway(n) ==
    /\ manager = "auto"
    /\ ~LockedPin(n)
    /\ HasUrl(n)
    /\ ~KnownHash(n)
    /\ Succeed(n, UrlOf(n), Archive(UrlOf(n), roll[UrlOf(n)]))

\* Trust on first use: the archive that upstream serves right now is pinned.
Download(n) ==
    /\ manager = "auto"
    /\ ~LockedPin(n)
    /\ HasUrl(n)
    /\ ~KnownHash(n)
    /\ ~offline
    /\ Succeed(n, UrlOf(n), Archive(UrlOf(n), roll[UrlOf(n)]))

\* A DependencyError: no url, no hash without the network, or the download fails.
Fail(n) ==
    /\ manager = "auto"
    /\ ~LockedPin(n)
    /\ ~HasUrl(n) \/ ~KnownHash(n)
    /\ Report(n, "error")
    /\ UNCHANGED result

-----------------------------------------------------------------------------
(* The end of a run.                                                       *)

EndRun(e) ==
    /\ phase' = "idle"
    /\ verb' = "build"
    /\ offline' = FALSE
    /\ work' = AllPending
    /\ result' = NoPins
    /\ end' = e

\* Mutant: only the first package's error is looked at.
RaiseFirstOnly(n) ==
    /\ phase = "resolving"
    /\ work[n] = "error"
    /\ \A m \in Required : m >= n
    /\ EndRun("failed")
    /\ UNCHANGED <<scriptVars, worldVars, fileVars, emitted>>

\* The pool re-raises the error of the first package in sorted order, and what
\* the other workers found is dropped. Nothing has been written.
Raise(n) ==
    /\ phase = "resolving"
    /\ work[n] = "error"
    /\ \A m \in Required : m < n => work[m] = "ok"
    /\ EndRun("failed")
    /\ UNCHANGED <<scriptVars, worldVars, fileVars, emitted>>

\* Path.write_text truncates the file first.
OpenLock ==
    /\ phase = "resolving"
    /\ \A n \in Required : work[n] = "ok"
    /\ phase' = "locking"
    /\ torn' = TRUE
    /\ UNCHANGED <<scriptVars, worldVars, lock, mirror, mirrorTorn, verb, offline, work, result,
                   lastVars>>

\* VcpkgAdapter.lock_baseline; the other backends record none.
LockBaseline ==
    IF manager # "vcpkg" THEN 0
    ELSE IF ~force /\ lock.baseline # 0 THEN lock.baseline ELSE head

\* Mutant: entries of packages that are no longer required are carried over.
KeepOldPins == [n \in Names |-> IF result[n] = None THEN lock.pins[n] ELSE result[n]]

\* The whole table is replaced by what this run has resolved.
NewPins == result

WriteLock ==
    /\ phase = "locking"
    /\ lock' = [pins |-> NewPins, baseline |-> LockBaseline]
    /\ torn' = FALSE
    /\ \/ /\ verb = "lock"
          /\ EndRun("locked")
       \/ /\ verb = "build"
          /\ phase' = "emitting"
          /\ UNCHANGED <<verb, offline, work, result, end>>
    /\ UNCHANGED <<scriptVars, worldVars, mirror, mirrorTorn, emitted>>

\* _apply_mirror swaps the url of every package that the map names, whatever
\* its version; the hash stays. Only "auto" emits a FetchContent fallback.
Emission ==
    [n \in Names |->
        IF result[n] = None \/ manager # "auto" THEN None
        ELSE [source |-> IF mirror[n] # None THEN mirror[n] ELSE result[n].url,
              sha |-> result[n].sha]]

Emit ==
    /\ phase = "emitting"
    /\ emitted' = Emission
    /\ EndRun("built")
    /\ UNCHANGED <<scriptVars, worldVars, fileVars>>

\* The process is interrupted or killed; files stay as they are.
Crash ==
    /\ phase # "idle"
    /\ EndRun("crashed")
    /\ UNCHANGED <<scriptVars, worldVars, fileVars, emitted>>

-----------------------------------------------------------------------------

UserStep ==
    \/ \E n \in Names : \E d \in Decls[n] \cup {None} : Edit(n, d)
    \/ \E m \in Managers : ChooseManager(m)
    \/ DeleteLock
    \/ \E m \in Mirrors, t \in BOOLEAN : ReplaceMirror(m, t)

WorldStep == MoveHead \/ \E n \in Names : Reroll(n)

StartStep ==
    \/ \E v \in {"build", "lock"} : StartEmpty(v)
    \/ StartUnreadable
    \/ \E v \in {"build", "lock"}, o \in BOOLEAN : Start(v, o)

WorkerStep(n) ==
    /\ Running(n)
    /\ ResolveByManager(n) \/ ResolveFromLock(n) \/ ResolveKnown(n) \/ Download(n) \/ Fail(n)

RunStep ==
    \/ \E n \in Names : WorkerStep(n) \/ Raise(n)
    \/ OpenLock
    \/ WriteLock
    \/ Emit

Next == UserStep \/ WorldStep \/ StartStep \/ RunStep \/ Crash

Spec == Init /\ [][Next]_vars

\* A run that has begun goes on: workers are scheduled, downloads end or time
\* out. Nobody has to start, edit or delete anything.
FairSpec == Spec /\ WF_vars(RunStep)

-----------------------------------------------------------------------------
(* Properties.                                                             *)

\* After a successful run the lockfile lists exactly what the script requires,
\* at the required versions, and a build verifies exactly the recorded hashes:
\* "cmakeless.lock now records exactly what got fetched" (docs/tutorial.md).
LockDescribesBuild ==
    end \in {"built", "locked"} /\ Required # {} =>
        /\ ~torn
        /\ \A n \in Names :
              /\ lock.pins[n] # None <=> n \in Required
              /\ n \in Required => lock.pins[n].version = decl[n].version
              /\ end = "built" /\ manager = "auto" /\ n \in Required =>
                    emitted[n] # None /\ emitted[n].sha = lock.pins[n].sha
              /\ end = "built" /\ (manager # "auto" \/ n \notin Required) => emitted[n] = None

\* Only the lock verb moves a pin: any other run that completes leaves the url
\* and hash of a package at its locked version, and the vcpkg baseline, alone,
\* whatever upstream serves meanwhile and in whatever order the workers finish.
PinsAreStable ==
    [][phase = "locking" /\ phase' = "emitting" =>
          /\ \A n \in Required :
                manager = "auto" /\ CompletePin(n) /\ lock.pins[n].version = decl[n].version
                => lock'.pins[n] = lock.pins[n]
          /\ manager = "vcpkg" /\ lock.baseline # 0 => lock'.baseline = lock.baseline]_vars

\* An --offline run that completes pins nothing it has not been told before: by
\* the lockfile, by the script, or by the curated table.
OfflineTrustsNothingNew ==
    [][lock' # lock /\ phase = "locking" /\ offline =>
          \A n \in Names :
              lock'.pins[n] # None /\ lock'.pins[n].sha # None =>
                  \/ lock.pins[n] # None /\ lock'.pins[n].sha = lock.pins[n].sha
                  \/ KnownHash(n) /\ lock'.pins[n].sha = Archive(UrlOf(n), 1)]_vars

\* Every run comes to an end.
RunsEnd == phase # "idle" ~> phase = "idle"

-----------------------------------------------------------------------------
(* The lockfile as its owner sees it: a file that is being rewritten still  *)
(* counts as the old one, unless the writer dies.                           *)

Store == INSTANCE PinStore WITH torn <- torn /\ phase # "locking"

\* Runs, workers and half-written files implement the table of PinStore: it
\* changes by completed resolutions, by being torn and by being deleted only.
ImplementsPinStore == Store!Spec
=============================================================================
