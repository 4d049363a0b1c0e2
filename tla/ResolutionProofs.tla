--------------------------- MODULE ResolutionProofs ---------------------------
(***************************************************************************)
(* Proofs about Resolution, for every set of packages and versions, every   *)
(* curated table and every bound. The invariant says what a run knows at    *)
(* each of its phases: while workers run, every result so far is a pin that *)
(* PinStore would admit against the lockfile as it is, and the lockfile is  *)
(* not touched until all results are in; once it is written, it and the     *)
(* results agree. The second part is about Vendoring, which stands on the   *)
(* same lockfile: what a run of vendor() knows of the caches and of the map,*)
(* and that each of its steps is one of Resolution or none.                *)
(***************************************************************************)
EXTENDS Vendoring, TLAPS

IdleIsClean ==
    phase = "idle" => work = AllPending /\ result = NoPins /\ verb = "build" /\ offline = FALSE

RunHasWork == phase # "idle" => Required # {} /\ end = "none" /\ emitted = Nothing

TornWhileLocking == (phase = "locking" => torn) /\ (phase \in {"resolving", "emitting"} => ~torn)

\* A worker that is done has left a result, and only required packages have one.
ResultsMatchWork ==
    /\ phase = "resolving" => \A n \in Names : work[n] = "ok" <=> result[n] # None
    /\ phase \in {"locking", "emitting"} => \A n \in Required : result[n] # None
    /\ \A n \in Names \ Required : result[n] = None /\ work[n] # "ok"

ResultsAdmissible ==
    phase \in {"resolving", "locking"} =>
        \A n \in Required : result[n] # None => Store!Admissible(n, result[n], force, offline)

\* What a build emits comes from pins that are complete and that are in the file.
EmittingWhatIsLocked ==
    phase = "emitting" =>
        /\ verb = "build"
        /\ lock.pins = result
        /\ \A n \in Required :
              /\ result[n].version = decl[n].version
              /\ manager = "auto" => result[n].url # None /\ result[n].sha # None

Inv ==
    /\ TypeOK
    /\ IdleIsClean
    /\ RunHasWork
    /\ TornWhileLocking
    /\ ResultsMatchWork
    /\ ResultsAdmissible
    /\ EmittingWhatIsLocked
    /\ LockDescribesBuild

-----------------------------------------------------------------------------

LEMMA DeclFacts ==
    ASSUME NEW n \in Names, TypeOK, decl[n] # None
    PROVE  /\ decl[n] \in Decl
           /\ UrlOf(n) \in Urls
           /\ Archive(UrlOf(n), 1) \in Digests
           /\ roll[UrlOf(n)] \in 1 .. MaxRoll
           /\ Archive(UrlOf(n), roll[UrlOf(n)]) \in Digests
  <1>1. decl[n] \in Decl
    BY DEF TypeOK
  <1>2. UrlOf(n) \in Urls
    BY <1>1 DEF UrlOf, Urls, Decl
  <1>3. roll[UrlOf(n)] \in 1 .. MaxRoll
    BY <1>2 DEF TypeOK
  <1>. QED
    BY <1>1, <1>2, <1>3, ResolutionAssumption DEF Archive, Digests

LEMMA NoneFacts == None \notin Urls /\ None \notin Digests /\ None \notin Pin /\ None \notin Decl
                   /\ None \notin Fetch
  BY ResolutionAssumption

LEMMA PinFacts ==
    ASSUME TypeOK, NEW n \in Names, lock.pins[n] # None
    PROVE  /\ lock.pins[n] \in Pin
           /\ lock.pins[n].url # None => lock.pins[n].url \in Urls
           /\ lock.pins[n].sha # None => lock.pins[n].sha \in Digests
  BY DEF TypeOK, Lock, Pin

LEMMA InitInv == ASSUME Init PROVE Inv
  <1>. USE DEF Init
  <1>1. EmptyLock \in Lock
    BY ResolutionAssumption DEF EmptyLock, NoPins, Lock
  <1>2. roll \in [Urls -> 1 .. MaxRoll]
    BY ResolutionAssumption
  <1>3. head \in 0 .. MaxHead
    BY ResolutionAssumption
  <1>4. TypeOK
    BY <1>1, <1>2, <1>3 DEF TypeOK, NoPins, NoMirror, Nothing, AllPending, Managers
  <1>. QED
    BY <1>4 DEF Inv, IdleIsClean, RunHasWork, TornWhileLocking, ResultsMatchWork,
       ResultsAdmissible, EmittingWhatIsLocked, LockDescribesBuild, NoPins, AllPending

\* A worker's pin has its type and is one that PinStore admits.
LEMMA WorkerPin ==
    ASSUME NEW n \in Names, Inv, Running(n),
           ResolveByManager(n) \/ ResolveFromLock(n) \/ ResolveKnown(n) \/ Download(n)
    PROVE  \E p \in Pin : /\ Store!Admissible(n, p, force, offline)
                          /\ Report(n, "ok")
                          /\ result' = [result EXCEPT ![n] = p]
  <1>. USE DEF Inv
  <1>1. decl[n] # None /\ decl[n] \in Decl /\ UrlOf(n) \in Urls /\ manager \in Managers
        /\ Archive(UrlOf(n), 1) \in Digests /\ Archive(UrlOf(n), roll[UrlOf(n)]) \in Digests
        /\ roll[UrlOf(n)] \in 1 .. MaxRoll
    BY DeclFacts DEF Running, Required, TypeOK
  <1>2. ASSUME NEW u \in Urls \cup {None}, NEW s \in Digests \cup {None}
        PROVE  PinOf(n, u, s) \in Pin
    BY <1>1 DEF PinOf, Pin, Decl
  <1>3. CASE ResolveByManager(n)
    <2>. DEFINE u == IF decl[n].url = "custom" THEN UrlOf(n) ELSE None
                s == IF decl[n].sha = "given" THEN Archive(UrlOf(n), 1) ELSE None
    <2>1. PinOf(n, u, s) \in Pin
      BY <1>1, <1>2
    <2>2. Store!Admissible(n, PinOf(n, u, s), force, offline)
      BY <1>3 DEF ResolveByManager, Store!Admissible, PinOf, UrlOf, Store!UrlOf, Archive,
         Store!Archive
    <2>. QED
      BY <1>3, <2>1, <2>2 DEF ResolveByManager, Succeed
  <1>4. CASE ResolveFromLock(n)
    <2>. DEFINE p == PinOf(n, lock.pins[n].url, lock.pins[n].sha)
    <2>1. p \in Pin
      BY <1>2, <1>4, PinFacts DEF ResolveFromLock, LockedPin, CompletePin
    <2>2. Store!Admissible(n, p, force, offline)
      BY <1>4 DEF ResolveFromLock, Store!Admissible, PinOf, LockedPin, CompletePin,
         Store!Reusable
    <2>. QED
      BY <1>4, <2>1, <2>2 DEF ResolveFromLock, Succeed
  <1>5. CASE ResolveKnown(n)
    <2>. DEFINE p == PinOf(n, UrlOf(n), Archive(UrlOf(n), 1))
    <2>1. p \in Pin
      BY <1>1, <1>2
    <2>2. Store!Admissible(n, p, force, offline)
      BY <1>5 DEF ResolveKnown, Store!Admissible, PinOf, LockedPin, CompletePin,
         Store!Reusable, KnownHash, Store!Known, UrlOf, Store!UrlOf, Archive, Store!Archive
    <2>. QED
      BY <1>5, <2>1, <2>2 DEF ResolveKnown, Succeed
  <1>6. CASE Download(n)
    <2>. DEFINE r == roll[UrlOf(n)]
                p == PinOf(n, UrlOf(n), Archive(UrlOf(n), r))
    <2>1. p \in Pin
      BY <1>1, <1>2
    <2>2. r \in 1 .. r
      BY <1>1, ResolutionAssumption
    <2>3. Store!Admissible(n, p, force, offline)
      BY <1>6, <2>2 DEF Download, Store!Admissible, PinOf, LockedPin, CompletePin,
         Store!Reusable, KnownHash, Store!Known, UrlOf, Store!UrlOf, Archive, Store!Archive
    <2>. QED
      BY <1>6, <2>1, <2>3 DEF Download, Succeed
  <1>. QED
    BY <1>3, <1>4, <1>5, <1>6

-----------------------------------------------------------------------------
(* One lemma per kind of step.                                             *)

\* Whatever the user does between runs: the last run is history, and nothing of a
\* run is left that the change could belie.
LEMMA BetweenInv ==
    ASSUME Inv, NEW manual, Between(manual),
           decl' \in [Names -> Decl \cup {None}], manager' \in Managers,
           lock' \in Lock, torn' \in BOOLEAN,
           mirror' \in [Names -> Locations \cup {None}], mirrorTorn' \in BOOLEAN
    PROVE  Inv'
  <1>1. TypeOK'
    <2>1. Nothing \in [Names -> Fetch \cup {None}]
      BY DEF Nothing
    <2>. QED
      BY <2>1 DEF Inv, TypeOK, Between, worldVars, runVars
  <1>2. IdleIsClean' /\ RunHasWork' /\ TornWhileLocking'
    BY DEF Inv, IdleIsClean, RunHasWork, TornWhileLocking, Between, runVars, NoPins, AllPending
  <1>3. ResultsMatchWork'
    BY DEF Inv, IdleIsClean, ResultsMatchWork, Between, runVars, NoPins, AllPending
  <1>4. ResultsAdmissible' /\ EmittingWhatIsLocked' /\ LockDescribesBuild'
    BY DEF ResultsAdmissible, EmittingWhatIsLocked, LockDescribesBuild, Between, runVars
  <1>. QED
    BY <1>1, <1>2, <1>3, <1>4 DEF Inv

\* The map may be replaced by any other.
LEMMA ReplaceMirrorInv ==
    ASSUME Inv, NEW m \in [Names -> Locations \cup {None}], NEW t \in BOOLEAN,
           ReplaceMirror(m, t)
    PROVE  Inv'
  BY BetweenInv DEF ReplaceMirror, Inv, TypeOK, scriptVars

LEMMA UserInv == ASSUME Inv, UserStep PROVE Inv'
  <1>1. CASE \E n \in Names : \E d \in Decls[n] \cup {None} : Edit(n, d)
    <2>1. PICK n \in Names : \E d \in Decls[n] \cup {None} : Edit(n, d)
      BY <1>1
    <2>2. PICK d \in Decls[n] \cup {None} : Edit(n, d)
      BY <2>1
    <2>3. d \in Decl \cup {None}
      BY ResolutionAssumption
    <2>4. decl' \in [Names -> Decl \cup {None}]
      BY <2>2, <2>3 DEF Inv, TypeOK, Edit
    <2>. QED
      BY <2>2, <2>4, BetweenInv DEF Inv, TypeOK, Edit, fileVars
  <1>2. CASE \E m \in Managers : ChooseManager(m)
    BY <1>2, BetweenInv DEF Inv, TypeOK, ChooseManager, fileVars
  <1>3. CASE DeleteLock
    <2>1. EmptyLock \in Lock
      BY ResolutionAssumption DEF EmptyLock, NoPins, Lock
    <2>. QED
      BY <1>3, <2>1, BetweenInv DEF Inv, TypeOK, DeleteLock, scriptVars
  <1>4. CASE \E m \in Mirrors, t \in BOOLEAN : ReplaceMirror(m, t)
    BY <1>4, ReplaceMirrorInv, ResolutionAssumption
  <1>. QED
    BY <1>1, <1>2, <1>3, <1>4 DEF UserStep

LEMMA WorldInv == ASSUME Inv, WorldStep PROVE Inv'
  <1>1. UNCHANGED <<scriptVars, fileVars, runVars, lastVars>>
    BY DEF WorldStep, MoveHead, Reroll
  <1>2. head' \in 0 .. MaxHead /\ roll' \in [Urls -> 1 .. MaxRoll]
    <2>1. CASE MoveHead
      BY <2>1, ResolutionAssumption DEF MoveHead, Inv, TypeOK
    <2>2. ASSUME NEW n \in Names, Reroll(n)
          PROVE  head' \in 0 .. MaxHead /\ roll' \in [Urls -> 1 .. MaxRoll]
      <3>1. UrlOf(n) \in Urls /\ roll[UrlOf(n)] \in 1 .. MaxRoll
        BY <2>2, DeclFacts DEF Reroll, Required, Inv
      <3>2. roll[UrlOf(n)] + 1 \in 1 .. MaxRoll
        BY <2>2, <3>1, ResolutionAssumption DEF Reroll
      <3>. QED
        BY <2>2, <3>2 DEF Reroll, Inv, TypeOK
    <2>. QED
      BY <2>1, <2>2 DEF WorldStep
  <1>3. \A u \in Urls : 1 .. roll[u] \subseteq 1 .. roll'[u]
    <2>1. CASE MoveHead
      BY <2>1 DEF MoveHead
    <2>2. ASSUME NEW n \in Names, Reroll(n), NEW u \in Urls
          PROVE  1 .. roll[u] \subseteq 1 .. roll'[u]
      BY <2>2, ResolutionAssumption DEF Reroll, Inv, TypeOK
    <2>. QED
      BY <2>1, <2>2 DEF WorldStep
  <1>4. TypeOK'
    BY <1>1, <1>2 DEF Inv, TypeOK, scriptVars, fileVars, runVars, lastVars
  <1>5. IdleIsClean' /\ RunHasWork' /\ TornWhileLocking' /\ ResultsMatchWork'
    BY <1>1 DEF Inv, IdleIsClean, RunHasWork, TornWhileLocking, ResultsMatchWork, Required,
       scriptVars, fileVars, runVars, lastVars, AllPending, NoPins, Nothing
  <1>6. ResultsAdmissible'
    <2>1. SUFFICES ASSUME phase \in {"resolving", "locking"},
                          NEW n \in Required, result[n] # None
                   PROVE  Store!Admissible(n, result[n], force, offline)'
      BY <1>1 DEF ResultsAdmissible, Required, scriptVars, runVars
    <2>2. Store!Admissible(n, result[n], force, offline)
      BY <2>1 DEF Inv, ResultsAdmissible
    <2>3. UrlOf(n) \in Urls /\ Store!UrlOf(n) = UrlOf(n) /\ n \in Names
      BY DeclFacts DEF Required, Inv, UrlOf, Store!UrlOf
    <2>. QED
      BY <1>1, <1>3, <2>2, <2>3 DEF Store!Admissible, Store!Reusable, Store!Known, Store!UrlOf,
         Store!Archive, force, scriptVars, fileVars, runVars
  <1>7. EmittingWhatIsLocked' /\ LockDescribesBuild'
    BY <1>1 DEF Inv, EmittingWhatIsLocked, LockDescribesBuild, Required, scriptVars, fileVars,
       runVars, lastVars
  <1>. QED
    BY <1>4, <1>5, <1>6, <1>7 DEF Inv

LEMMA StartInv == ASSUME Inv, StartStep PROVE Inv'
  <1>1. Nothing \in [Names -> Fetch \cup {None}]
    BY DEF Nothing
  <1>2. ASSUME NEW v \in {"build", "lock"}, StartEmpty(v) PROVE Inv'
    <2>1. TypeOK'
      BY <1>1, <1>2 DEF Inv, TypeOK, StartEmpty, scriptVars, worldVars, fileVars, runVars
    <2>. QED
      BY <1>2, <2>1 DEF Inv, StartEmpty, IdleIsClean, RunHasWork, TornWhileLocking,
         ResultsMatchWork, ResultsAdmissible, EmittingWhatIsLocked, LockDescribesBuild, Required,
         scriptVars, worldVars, fileVars, runVars, AllPending, NoPins
  <1>3. ASSUME StartUnreadable PROVE Inv'
    <2>1. TypeOK'
      BY <1>1, <1>3 DEF Inv, TypeOK, StartUnreadable, scriptVars, worldVars, fileVars, runVars
    <2>. QED
      BY <1>3, <2>1 DEF Inv, StartUnreadable, IdleIsClean, RunHasWork, TornWhileLocking,
         ResultsMatchWork, ResultsAdmissible, EmittingWhatIsLocked, LockDescribesBuild, Required,
         scriptVars, worldVars, fileVars, runVars, AllPending, NoPins
  <1>4. ASSUME NEW v \in {"build", "lock"}, NEW o \in BOOLEAN, Start(v, o) PROVE Inv'
    <2>1. TypeOK'
      BY <1>1, <1>4 DEF Inv, TypeOK, Start, scriptVars, worldVars, fileVars
    <2>2. IdleIsClean' /\ RunHasWork' /\ TornWhileLocking' /\ EmittingWhatIsLocked'
          /\ LockDescribesBuild'
      BY <1>4 DEF Inv, Start, IdleIsClean, RunHasWork, TornWhileLocking, EmittingWhatIsLocked,
         LockDescribesBuild, Required, scriptVars, fileVars, Nothing
    <2>3. ResultsMatchWork' /\ ResultsAdmissible'
      BY <1>4 DEF Inv, Start, IdleIsClean, ResultsMatchWork, ResultsAdmissible, Required,
         scriptVars, AllPending, NoPins
    <2>. QED
      BY <2>1, <2>2, <2>3 DEF Inv
  <1>. QED
    BY <1>2, <1>3, <1>4 DEF StartStep

\* A run that ends early leaves every file and the script as they were.
LEMMA EndInv ==
    ASSUME Inv, NEW e \in {"failed", "crashed"}, EndRun(e), phase # "idle",
           UNCHANGED <<scriptVars, worldVars, fileVars, emitted>>
    PROVE  Inv'
  <1>1. TypeOK'
    BY DEF Inv, TypeOK, EndRun, AllPending, NoPins, scriptVars, worldVars, fileVars
  <1>. QED
    BY <1>1 DEF Inv, EndRun, IdleIsClean, RunHasWork, TornWhileLocking, ResultsMatchWork,
       ResultsAdmissible, EmittingWhatIsLocked, LockDescribesBuild, Required, AllPending, NoPins,
       scriptVars

LEMMA WorkerInv == ASSUME Inv, NEW n \in Names, WorkerStep(n) PROVE Inv'
  <1>1. Running(n)
    BY DEF WorkerStep
  <1>2. ASSUME NEW w \in {"ok", "error"}, Report(n, w), result' \in [Names -> Pin \cup {None}]
        PROVE  TypeOK' /\ IdleIsClean' /\ RunHasWork' /\ TornWhileLocking'
               /\ EmittingWhatIsLocked' /\ LockDescribesBuild'
    <2>1. TypeOK'
      BY <1>2 DEF Inv, TypeOK, Report, scriptVars, worldVars, fileVars, lastVars
    <2>. QED
      BY <1>1, <1>2, <2>1 DEF Inv, Running, Report, IdleIsClean, RunHasWork, TornWhileLocking,
         EmittingWhatIsLocked, LockDescribesBuild, Required, scriptVars, fileVars, lastVars,
         Nothing
  <1>3. CASE Fail(n)
    <2>1. Report(n, "error") /\ result' = result
      BY <1>3 DEF Fail
    <2>2. ResultsMatchWork'
      BY <1>1, <2>1 DEF Inv, TypeOK, Running, Report, ResultsMatchWork, Required, scriptVars
    <2>3. ResultsAdmissible'
      <3>1. SUFFICES ASSUME NEW m \in Required, result[m] # None
                     PROVE  Store!Admissible(m, result[m], force, offline)'
        BY <2>1 DEF ResultsAdmissible, Report, Required, scriptVars
      <3>2. Store!Admissible(m, result[m], force, offline)
        BY <1>1, <3>1 DEF Inv, ResultsAdmissible, Running
      <3>. QED
        BY <2>1, <3>2 DEF Report, scriptVars, fileVars, worldVars, Store!Admissible,
           Store!Reusable, Store!Known, Store!UrlOf, Store!Archive, force
    <2>. QED
      BY <1>2, <2>1, <2>2, <2>3 DEF Inv, TypeOK
  <1>4. CASE ResolveByManager(n) \/ ResolveFromLock(n) \/ ResolveKnown(n) \/ Download(n)
    <2>1. PICK p \in Pin : /\ Store!Admissible(n, p, force, offline)
                           /\ Report(n, "ok")
                           /\ result' = [result EXCEPT ![n] = p]
      BY <1>1, <1>4, WorkerPin
    <2>2. ResultsMatchWork'
      BY <1>1, <2>1, NoneFacts DEF Inv, TypeOK, Running, Report, ResultsMatchWork, Required,
         scriptVars
    <2>3. ResultsAdmissible'
      <3>1. SUFFICES ASSUME NEW m \in Required, result'[m] # None
                     PROVE  Store!Admissible(m, result[m], force, offline)'
        BY <2>1 DEF ResultsAdmissible, Report, Required, scriptVars
      <3>2. Store!Admissible(m, result'[m], force, offline)
        <4>1. CASE m = n
          BY <2>1, <4>1 DEF Inv, TypeOK, Required
        <4>2. CASE m # n
          BY <1>1, <2>1, <3>1, <4>2 DEF Inv, TypeOK, ResultsAdmissible, Running, Required
        <4>. QED
          BY <4>1, <4>2
      <3>. QED
        BY <2>1, <3>2 DEF Report, scriptVars, fileVars, worldVars, Store!Admissible,
           Store!Reusable, Store!Known, Store!UrlOf, Store!Archive, force
    <2>. QED
      BY <1>2, <2>1, <2>2, <2>3 DEF Inv, TypeOK
  <1>. QED
    BY <1>3, <1>4 DEF WorkerStep

LEMMA OpenLockInv == ASSUME Inv, OpenLock PROVE Inv'
  <1>1. TypeOK'
    BY DEF Inv, TypeOK, OpenLock, scriptVars, worldVars, lastVars
  <1>2. ResultsMatchWork'
    BY DEF Inv, TypeOK, OpenLock, ResultsMatchWork, Required, scriptVars
  <1>3. ResultsAdmissible'
    <2>1. SUFFICES ASSUME NEW m \in Required, result[m] # None
                   PROVE  Store!Admissible(m, result[m], force, offline)'
      BY DEF ResultsAdmissible, OpenLock, Required, scriptVars
    <2>2. Store!Admissible(m, result[m], force, offline)
      BY <2>1 DEF Inv, ResultsAdmissible, OpenLock
    <2>. QED
      BY <2>2 DEF OpenLock, scriptVars, worldVars, Store!Admissible, Store!Reusable,
         Store!Known, Store!UrlOf, Store!Archive, force
  <1>. QED
    BY <1>1, <1>2, <1>3 DEF Inv, OpenLock, IdleIsClean, RunHasWork, TornWhileLocking,
       EmittingWhatIsLocked, LockDescribesBuild, Required, scriptVars, lastVars, Nothing

\* What is in hand when the lockfile is written.
LEMMA Completed ==
    ASSUME Inv, phase = "locking", NEW n \in Names
    PROVE  /\ result[n] # None <=> n \in Required
           /\ n \in Required => /\ result[n] \in Pin
                                /\ result[n].version = decl[n].version
                                /\ Store!Admissible(n, result[n], force, offline)
                                /\ manager = "auto" => result[n].url # None /\ result[n].sha # None
  <1>1. result[n] # None <=> n \in Required
    BY DEF Inv, ResultsMatchWork
  <1>2. ASSUME n \in Required
        PROVE  result[n] \in Pin /\ Store!Admissible(n, result[n], force, offline)
    BY <1>1, <1>2 DEF Inv, TypeOK, ResultsAdmissible
  <1>3. ASSUME n \in Required, manager = "auto"
        PROVE  result[n].url # None /\ result[n].sha # None
    <2>1. UrlOf(n) \in Urls /\ Archive(UrlOf(n), 1) \in Digests
      BY <1>3, DeclFacts DEF Inv, Required
    <2>2. \A r \in 1 .. roll[UrlOf(n)] : Archive(UrlOf(n), r) \in Digests
      BY <2>1, ResolutionAssumption DEF Inv, TypeOK, Archive, Digests
    <2>3. UrlOf(n) = Store!UrlOf(n) /\ \A u, r : Archive(u, r) = Store!Archive(u, r)
      BY DEF UrlOf, Store!UrlOf, Archive, Store!Archive
    <2>. QED
      BY <1>2, <1>3, <2>1, <2>2, <2>3, NoneFacts DEF Store!Admissible, Store!Reusable
  <1>. QED
    BY <1>1, <1>2, <1>3 DEF Store!Admissible

LEMMA WriteLockInv == ASSUME Inv, WriteLock PROVE Inv'
  <1>1. phase = "locking" /\ lock' = [pins |-> result, baseline |-> LockBaseline] /\ ~torn'
    BY DEF WriteLock, NewPins
  <1>2. lock' \in Lock
    <2>1. LockBaseline \in 0 .. MaxHead
      BY ResolutionAssumption DEF Inv, TypeOK, LockBaseline, Lock
    <2>. QED
      BY <1>1, <2>1 DEF Inv, TypeOK, Lock
  <1>3. /\ verb = "lock" /\ EndRun("locked")
        \/ /\ verb = "build" /\ phase' = "emitting"
           /\ UNCHANGED <<verb, offline, work, result, end>>
    BY DEF WriteLock
  <1>4. TypeOK'
    BY <1>1, <1>2, <1>3 DEF Inv, TypeOK, WriteLock, EndRun, AllPending, NoPins, scriptVars,
       worldVars
  <1>5. UNCHANGED <<scriptVars, emitted>>
    BY DEF WriteLock
  <1>6. IdleIsClean' /\ RunHasWork' /\ TornWhileLocking'
    BY <1>1, <1>3, <1>5 DEF Inv, IdleIsClean, RunHasWork, TornWhileLocking, Required, EndRun,
       scriptVars, AllPending, NoPins, Nothing
  <1>7. ResultsMatchWork'
    BY <1>1, <1>3, <1>5 DEF Inv, ResultsMatchWork, Required, EndRun, scriptVars, AllPending, NoPins
  <1>8. ResultsAdmissible' /\ EmittingWhatIsLocked'
    BY <1>1, <1>3, <1>5, Completed DEF ResultsAdmissible, EmittingWhatIsLocked, EndRun, Required,
       scriptVars
  <1>9. LockDescribesBuild'
    BY <1>1, <1>3, <1>5, Completed DEF Inv, RunHasWork, LockDescribesBuild, EndRun, Required,
       scriptVars
  <1>. QED
    BY <1>4, <1>6, <1>7, <1>8, <1>9 DEF Inv

LEMMA EmitInv == ASSUME Inv, Emit PROVE Inv'
  <1>1. phase = "emitting" /\ emitted' = Emission /\ EndRun("built")
        /\ UNCHANGED <<scriptVars, worldVars, fileVars>>
    BY DEF Emit
  <1>2. \A n \in Names : Emission[n] \in Fetch \cup {None}
    <2>1. SUFFICES ASSUME NEW n \in Names, result[n] # None, manager = "auto"
                   PROVE  Emission[n] \in Fetch
      BY DEF Emission
    <2>2. n \in Required /\ result[n] \in Pin /\ result[n].url # None /\ result[n].sha # None
      BY <1>1, <2>1 DEF Inv, TypeOK, EmittingWhatIsLocked, ResultsMatchWork
    <2>3. result[n].url \in Urls /\ result[n].sha \in Digests
      BY <2>2 DEF Pin
    <2>. QED
      BY <2>1, <2>3 DEF Inv, TypeOK, Emission, Fetch
  <1>3. TypeOK'
    <2>1. Emission \in [Names -> Fetch \cup {None}]
      BY <1>2 DEF Emission
    <2>. QED
      BY <1>1, <2>1 DEF Inv, TypeOK, EndRun, AllPending, NoPins, scriptVars, worldVars, fileVars
  <1>4. LockDescribesBuild'
    <2>1. SUFFICES ASSUME NEW n \in Names
                   PROVE  /\ lock.pins[n] # None <=> n \in Required
                          /\ n \in Required => lock.pins[n].version = decl[n].version
                          /\ manager = "auto" /\ n \in Required =>
                                Emission[n] # None /\ Emission[n].sha = lock.pins[n].sha
                          /\ manager # "auto" \/ n \notin Required => Emission[n] = None
      BY <1>1 DEF LockDescribesBuild, EndRun, Required, scriptVars, fileVars, Inv,
         TornWhileLocking
    <2>2. lock.pins[n] = result[n] /\ (result[n] # None <=> n \in Required)
          /\ (n \in Required => result[n].version = decl[n].version)
      BY <1>1 DEF Inv, EmittingWhatIsLocked, ResultsMatchWork
    <2>3. ASSUME n \in Required, manager = "auto"
          PROVE  Emission[n] # None /\ Emission[n].sha = result[n].sha
      <3>1. Emission[n] = [source |-> IF mirror[n] # None THEN mirror[n] ELSE result[n].url,
                           sha |-> result[n].sha]
        BY <2>2, <2>3 DEF Emission
      <3>2. Emission[n] \in Fetch \cup {None}
        BY <1>2
      <3>3. Emission[n] # None
        BY <1>1, <2>2, <2>3, <3>1, NoneFacts DEF Inv, TypeOK, EmittingWhatIsLocked, Pin, Fetch
      <3>. QED
        BY <3>1, <3>3
    <2>. QED
      BY <2>2, <2>3 DEF Emission
  <1>5. IdleIsClean' /\ RunHasWork' /\ TornWhileLocking' /\ ResultsMatchWork'
        /\ ResultsAdmissible' /\ EmittingWhatIsLocked'
    BY <1>1 DEF EndRun, IdleIsClean, RunHasWork, TornWhileLocking, ResultsMatchWork,
       ResultsAdmissible, EmittingWhatIsLocked, Required, AllPending, NoPins
  <1>. QED
    BY <1>3, <1>4, <1>5 DEF Inv

LEMMA StepInv == ASSUME Inv, [Next]_vars PROVE Inv'
  <1>1. CASE UserStep
    BY <1>1, UserInv
  <1>2. CASE WorldStep
    BY <1>2, WorldInv
  <1>3. CASE StartStep
    BY <1>3, StartInv
  <1>4. CASE RunStep
    <2>1. ASSUME NEW n \in Names, WorkerStep(n) PROVE Inv'
      BY <2>1, WorkerInv
    <2>2. ASSUME NEW n \in Names, Raise(n) PROVE Inv'
      BY <2>2, EndInv DEF Raise
    <2>. QED
      BY <1>4, <2>1, <2>2, OpenLockInv, WriteLockInv, EmitInv DEF RunStep
  <1>5. CASE Crash
    BY <1>5, EndInv DEF Crash
  <1>6. CASE UNCHANGED vars
    <2>. USE <1>6 DEF vars, scriptVars, worldVars, fileVars, runVars, lastVars
    <2>1. TypeOK'
      BY DEF Inv, TypeOK
    <2>2. ResultsAdmissible'
      <3>1. SUFFICES ASSUME NEW m \in Required, result[m] # None,
                            phase \in {"resolving", "locking"}
                     PROVE  Store!Admissible(m, result[m], force, offline)'
        BY DEF ResultsAdmissible, Required
      <3>2. Store!Admissible(m, result[m], force, offline)
        BY <3>1 DEF Inv, ResultsAdmissible
      <3>. QED
        BY <3>2 DEF Store!Admissible, Store!Reusable, Store!Known, Store!UrlOf, Store!Archive,
           force
    <2>. QED
      BY <2>1, <2>2 DEF Inv, IdleIsClean, RunHasWork, TornWhileLocking, ResultsMatchWork,
         EmittingWhatIsLocked, LockDescribesBuild, Required, AllPending, NoPins, Nothing
  <1>. QED
    BY <1>1, <1>2, <1>3, <1>4, <1>5, <1>6 DEF Next

LEMMA AlwaysInv == Spec => []Inv
  BY InitInv, StepInv, PTL DEF Spec

-----------------------------------------------------------------------------

\* Every state of the resolver is well formed; in particular a FetchContent
\* fallback is never generated without an archive and its hash.
THEOREM ResolutionTypeCorrect == Spec => []TypeOK
  <1>1. Inv => TypeOK
    BY DEF Inv
  <1>. QED
    BY <1>1, AlwaysInv, PTL

\* After a successful run the lockfile lists what the script requires and the
\* build verifies the recorded hashes.
THEOREM LockIsExact == Spec => []LockDescribesBuild
  <1>1. Inv => LockDescribesBuild
    BY DEF Inv
  <1>. QED
    BY <1>1, AlwaysInv, PTL

\* A step that writes the lockfile and does not end the run is WriteLock.
LEMMA OnlyWriteLock ==
    ASSUME Inv, [Next]_vars, phase = "locking", phase' = "emitting" \/ lock' # lock
    PROVE  WriteLock
  <1>1. ~UserStep
    BY DEF UserStep, Edit, ChooseManager, DeleteLock, ReplaceMirror, Between
  <1>2. ~StartStep
    BY DEF StartStep, StartEmpty, StartUnreadable, Start
  <1>3. ~WorldStep
    BY DEF WorldStep, MoveHead, Reroll, fileVars, runVars
  <1>4. ~Crash
    BY DEF Crash, EndRun, fileVars
  <1>5. ~UNCHANGED vars
    BY DEF vars, fileVars, runVars
  <1>6. ~(\E n \in Names : WorkerStep(n) \/ Raise(n)) /\ ~OpenLock /\ ~Emit
    BY DEF WorkerStep, Running, Raise, OpenLock, Emit
  <1>. QED
    BY <1>1, <1>2, <1>3, <1>4, <1>5, <1>6 DEF Next, RunStep

\* No build moves a pin at its locked version or the recorded vcpkg baseline.
THEOREM PinsNeverMove == Spec => PinsAreStable
  <1>1. ASSUME Inv, [Next]_vars, phase = "locking", phase' = "emitting"
        PROVE  /\ \A n \in Required :
                     manager = "auto" /\ CompletePin(n) /\ lock.pins[n].version = decl[n].version
                     => lock'.pins[n] = lock.pins[n]
               /\ manager = "vcpkg" /\ lock.baseline # 0 => lock'.baseline = lock.baseline
    <2>1. WriteLock /\ verb = "build" /\ lock' = [pins |-> result, baseline |-> LockBaseline]
      BY <1>1, OnlyWriteLock DEF WriteLock, EndRun, NewPins
    <2>2. ASSUME NEW n \in Required, manager = "auto", CompletePin(n),
                 lock.pins[n].version = decl[n].version
          PROVE  result[n] = lock.pins[n]
      <3>1. n \in Names /\ result[n] \in Pin /\ Store!Admissible(n, result[n], force, offline)
        BY <1>1, Completed DEF Required
      <3>2. Store!Reusable(n) /\ ~force
        BY <2>1, <2>2 DEF Store!Reusable, CompletePin, force
      <3>3. /\ result[n].version = lock.pins[n].version
            /\ result[n].backend = lock.pins[n].backend
            /\ result[n].url = lock.pins[n].url
            /\ result[n].sha = lock.pins[n].sha
        BY <2>2, <3>1, <3>2 DEF Store!Admissible, CompletePin
      <3>4. lock.pins[n] \in Pin
        BY <1>1, <2>2, <3>1, PinFacts DEF Inv, CompletePin
      <3>. QED
        BY <3>1, <3>3, <3>4 DEF Pin
    <2>. QED
      BY <2>1, <2>2 DEF LockBaseline, force
  <1>. QED
    BY <1>1, AlwaysInv, PTL DEF Spec, PinsAreStable

\* A completed --offline run pins nothing it was not told before.
THEOREM OfflineIsSound == Spec => OfflineTrustsNothingNew
  <1>1. ASSUME Inv, [Next]_vars, lock' # lock /\ phase = "locking" /\ offline
        PROVE  \A n \in Names :
                  lock'.pins[n] # None /\ lock'.pins[n].sha # None =>
                      \/ lock.pins[n] # None /\ lock'.pins[n].sha = lock.pins[n].sha
                      \/ KnownHash(n) /\ lock'.pins[n].sha = Archive(UrlOf(n), 1)
    <2>1. SUFFICES ASSUME NEW n \in Names, lock'.pins[n] # None, lock'.pins[n].sha # None
                   PROVE  \/ lock.pins[n] # None /\ lock'.pins[n].sha = lock.pins[n].sha
                          \/ KnownHash(n) /\ lock'.pins[n].sha = Archive(UrlOf(n), 1)
      OBVIOUS
    <2>2. WriteLock
      BY <1>1, OnlyWriteLock
    <2>3. lock'.pins[n] = result[n]
      BY <2>2 DEF WriteLock, NewPins
    <2>4. Store!Admissible(n, result[n], force, offline)
      BY <1>1, <2>1, <2>3, Completed
    <2>5. Archive(UrlOf(n), 1) = Store!Archive(Store!UrlOf(n), 1)
      BY DEF Archive, Store!Archive, UrlOf, Store!UrlOf
    <2>6. CASE manager = "auto"
      BY <1>1, <2>3, <2>4, <2>5, <2>6 DEF Store!Admissible, Store!Known, KnownHash,
         Store!Reusable
    <2>7. CASE manager # "auto"
      BY <2>1, <2>3, <2>4, <2>5, <2>7 DEF Store!Admissible, KnownHash
    <2>. QED
      BY <2>6, <2>7
  <1>. QED
    BY <1>1, AlwaysInv, PTL DEF Spec, OfflineTrustsNothingNew

\* Runs, workers and half-written files implement the table of PinStore.
THEOREM ResolutionImplementsPinStore == Spec => ImplementsPinStore
  <1>. DEFINE Lost == torn /\ phase # "locking"
  <1>1. Init => Store!Init
    BY DEF Init, Store!Init, EmptyLock, NoPins, Store!EmptyLock, Store!NoPins
  <1>2. ASSUME Inv, [Next]_vars PROVE [Store!Next]_(Store!pinVars)
    <2>0. ASSUME lock' = lock, Lost' = Lost PROVE Store!Next
      BY <2>0 DEF Store!Next, Store!Environment
    <2>1. CASE UserStep
      <3>1. ASSUME Between(TRUE), UNCHANGED <<lock, torn>> PROVE Store!Next
        BY <3>1, <2>0 DEF Between, runVars
      <3>2. CASE DeleteLock
        BY <3>2 DEF DeleteLock, scriptVars, Between, worldVars, Store!Next, Store!Delete,
           Store!scriptVars, EmptyLock, NoPins, Store!EmptyLock, Store!NoPins
      <3>. QED
        BY <2>1, <3>1, <3>2 DEF UserStep, Edit, ChooseManager, ReplaceMirror, Between, fileVars
    <2>2. CASE WorldStep
      BY <2>0, <2>2 DEF WorldStep, MoveHead, Reroll, fileVars, runVars
    <2>3. CASE StartStep
      BY <2>0, <2>3 DEF StartStep, StartEmpty, StartUnreadable, Start, fileVars, runVars
    <2>4. CASE \E n \in Names : WorkerStep(n)
      BY <2>0, <2>4 DEF WorkerStep, ResolveByManager, ResolveFromLock, ResolveKnown, Download,
         Fail, Succeed, Report, fileVars
    <2>5. CASE \E n \in Names : Raise(n)
      BY <2>0, <2>5 DEF Raise, EndRun, fileVars
    <2>6. CASE OpenLock
      BY <1>2, <2>0, <2>6 DEF OpenLock, Inv, TornWhileLocking
    <2>7. CASE WriteLock
      <3>1. /\ lock' = [pins |-> result, baseline |-> LockBaseline]
            /\ ~Lost /\ ~Lost'
            /\ UNCHANGED <<scriptVars, worldVars>>
            /\ phase = "locking"
        BY <2>7 DEF WriteLock, NewPins
      <3>2. Required # {} /\ Store!Required = Required
        BY <1>2, <3>1 DEF Inv, RunHasWork, Required, Store!Required
      <3>3. LockBaseline = Store!Baseline(force)
        BY DEF LockBaseline, Store!Baseline
      <3>4. \A n \in Names :
                IF n \in Required
                THEN result[n] # None /\ Store!Admissible(n, result[n], force, offline)
                ELSE result[n] = None
        BY <1>2, <3>1, Completed
      <3>5. Store!Rewrite(force, offline)
        BY <3>1, <3>2, <3>3, <3>4 DEF Store!Rewrite, Store!scriptVars, scriptVars, worldVars
      <3>6. force \in BOOLEAN /\ offline \in BOOLEAN
        BY <1>2 DEF Inv, TypeOK, force
      <3>. QED
        BY <3>5, <3>6 DEF Store!Next
    <2>8. CASE Emit
      BY <2>0, <2>8 DEF Emit, EndRun, fileVars
    <2>9. CASE Crash
      <3>1. CASE phase = "locking"
        BY <1>2, <2>9, <3>1 DEF Crash, EndRun, Inv, TornWhileLocking, scriptVars, worldVars,
           fileVars, Store!Next, Store!Tear, Store!scriptVars
      <3>2. CASE phase # "locking"
        BY <2>0, <2>9, <3>2 DEF Crash, EndRun, fileVars
      <3>. QED
        BY <3>1, <3>2
    <2>10. CASE UNCHANGED vars
      BY <2>10 DEF vars, scriptVars, worldVars, fileVars, runVars, Store!pinVars
    <2>. QED
      BY <1>2, <2>1, <2>2, <2>3, <2>4, <2>5, <2>6, <2>7, <2>8, <2>9, <2>10 DEF Next, RunStep
  <1>. QED
    BY <1>1, <1>2, AlwaysInv, PTL DEF Spec, ImplementsPinStore, Store!Spec

-----------------------------------------------------------------------------
(* Vendoring. Every archive that the run has stored is whole and verified   *)
(* until the map names it, because no two packages have a file in common;   *)
(* and what the map names is what a later build verifies, because a build   *)
(* emits what is in the lockfile.                                          *)

\* The url of a pin is one of its own package.
OwnUrls ==
    \A n \in Names :
        lock.pins[n] # None /\ lock.pins[n].url # None => lock.pins[n].url[1] = n

BuiltIsFetched == end = "built" => \A n \in Names : emitted[n] # None => n \in Fetched

\* A file is in place for n, and it is the archive that the lockfile has.
Stored(n, file) == store[file] \in Digests /\ lock.pins[n].sha \in {None, store[file]}

VendorWaits == vphase # "idle" => phase = "idle" /\ ~vendored

PayloadIsVerified ==
    vphase \in {"storing", "writing"} =>
        /\ payload \in Digests
        /\ \A n \in Names : IsNext(n) => lock.pins[n].sha \in {None, payload}

FilesSoFar ==
    vphase # "idle" =>
        \A n \in Names : vmap[n] # None => n \in Fetched /\ vmap[n] = File(n) /\ Stored(n, vmap[n])

MapIsReady == vphase = "mapping" => Remaining = {}

VendoredMap == vendored => \A n \in Fetched : mirror[n] # None /\ Stored(n, mirror[n])

VInv ==
    /\ Inv
    /\ VTypeOK
    /\ OwnUrls
    /\ BuiltIsFetched
    /\ VendorWaits
    /\ PayloadIsVerified
    /\ FilesSoFar
    /\ MapIsReady
    /\ VendoredMap
    /\ VendoredBuildIsLocal

\* What a resolution does to the things that vendoring relies on.
LEMMA ResolverFacts ==
    ASSUME Inv, OwnUrls, BuiltIsFetched, Next
    PROVE  /\ OwnUrls' /\ BuiltIsFetched'
           /\ \/ Emit
              \/ end' # "built"
              \/ emitted' = Nothing
              \/ UNCHANGED <<end, emitted, lock>>
  <1>1. CASE UserStep
    <2>1. end' = "none" /\ (lock' = lock \/ lock' = EmptyLock)
      BY <1>1 DEF UserStep, Edit, ChooseManager, DeleteLock, ReplaceMirror, Between, fileVars
    <2>. QED
      BY <2>1 DEF OwnUrls, BuiltIsFetched, EmptyLock, NoPins
  <1>2. CASE WorldStep
    BY <1>2 DEF WorldStep, MoveHead, Reroll, fileVars, lastVars, OwnUrls, BuiltIsFetched, Fetched
  <1>3. CASE StartStep
    <2>1. lock' = lock /\ emitted' = Nothing
      BY <1>3 DEF StartStep, StartEmpty, StartUnreadable, Start, fileVars
    <2>. QED
      BY <2>1 DEF OwnUrls, BuiltIsFetched, Nothing
  <1>4. CASE \E n \in Names : WorkerStep(n)
    BY <1>4 DEF WorkerStep, ResolveByManager, ResolveFromLock, ResolveKnown, Download, Fail,
       Succeed, Report, fileVars, lastVars, OwnUrls, BuiltIsFetched, Fetched
  <1>5. CASE (\E n \in Names : Raise(n)) \/ Crash
    BY <1>5 DEF Raise, Crash, EndRun, fileVars, OwnUrls, BuiltIsFetched
  <1>6. CASE OpenLock
    BY <1>6 DEF OpenLock, lastVars, OwnUrls, BuiltIsFetched, Fetched
  <1>7. CASE WriteLock
    <2>1. end' # "built"
      BY <1>7 DEF WriteLock, EndRun, Inv, RunHasWork
    <2>2. ASSUME NEW n \in Names, result[n] # None, result[n].url # None
          PROVE  result[n].url[1] = n
      <3>1. Store!Admissible(n, result[n], force, offline)
        BY <1>7, <2>2, Completed DEF WriteLock
      <3>. QED
        BY <2>2, <3>1 DEF Store!Admissible, Store!Reusable, Store!UrlOf, OwnUrls
    <2>. QED
      BY <1>7, <2>1, <2>2 DEF WriteLock, NewPins, OwnUrls, BuiltIsFetched
  <1>8. CASE Emit
    <2>1. UNCHANGED lock /\ emitted' = Emission /\ phase = "emitting"
      BY <1>8 DEF Emit, fileVars
    <2>2. ASSUME NEW n \in Names, Emission[n] # None
          PROVE  n \in Fetched
      <3>1. result[n] # None /\ manager = "auto"
        BY <2>2 DEF Emission
      <3>. QED
        BY <2>1, <3>1 DEF Inv, ResultsMatchWork, EmittingWhatIsLocked, Fetched
    <2>. QED
      BY <1>8, <2>1, <2>2 DEF OwnUrls, BuiltIsFetched, Fetched
  <1>. QED
    BY <1>1, <1>2, <1>3, <1>4, <1>5, <1>6, <1>7, <1>8 DEF Next, RunStep

LEMMA FileFacts ==
    ASSUME VInv, NEW n \in Fetched
    PROVE  /\ n \in Names /\ lock.pins[n] \in Pin /\ File(n) \in Locations
           /\ \A m \in Fetched : m # n => File(m) # File(n)
  <1>1. ASSUME NEW m \in Fetched
        PROVE  /\ m \in Names /\ lock.pins[m] \in Pin
               /\ lock.pins[m].url \in Urls /\ lock.pins[m].url[1] = m
    BY PinFacts DEF VInv, VTypeOK, Fetched, OwnUrls
  <1>. QED
    BY <1>1, VendoringAssumption DEF File

\* The names are numbers: at most one is next.
LEMMA OneIsNext ==
    ASSUME NEW m \in Names, NEW n \in Names, IsNext(m), IsNext(n)
    PROVE  m = n
  BY ResolutionAssumption DEF IsNext

LEMMA VInitInv == ASSUME VInit PROVE VInv
  <1>. USE DEF VInit
  <1>1. Inv
    BY InitInv
  <1>2. VTypeOK
    BY <1>1 DEF Inv, VTypeOK, NoMirror
  <1>3. OwnUrls /\ BuiltIsFetched /\ VendoredBuildIsLocal
    BY DEF Init, OwnUrls, BuiltIsFetched, VendoredBuildIsLocal, EmptyLock, NoPins
  <1>4. VendorWaits /\ PayloadIsVerified /\ FilesSoFar /\ MapIsReady /\ VendoredMap
    BY DEF VendorWaits, PayloadIsVerified, FilesSoFar, MapIsReady, VendoredMap
  <1>. QED
    BY <1>1, <1>2, <1>3, <1>4 DEF VInv

\* The steps of a vendor run that leave the resolver's files and variables alone.
LEMMA QuietInv ==
    ASSUME VInv, UNCHANGED vars
    PROVE  /\ Inv' /\ TypeOK' /\ OwnUrls' /\ BuiltIsFetched'
           /\ UNCHANGED <<lock, phase, mirror, end, emitted>>
           /\ Fetched' = Fetched
           /\ \A n : File(n)' = File(n)
  <1>1. Inv'
    BY StepInv DEF VInv
  <1>2. UNCHANGED <<lock, phase, mirror, end, emitted>>
    BY DEF vars, fileVars, runVars, lastVars
  <1>3. Fetched' = Fetched /\ \A n : File(n)' = File(n)
    BY <1>2 DEF Fetched, File
  <1>. QED
    BY <1>1, <1>2, <1>3 DEF VInv, Inv, OwnUrls, BuiltIsFetched

LEMMA VendorStartInv == ASSUME VInv, VendorStart PROVE VInv'
  <1>. USE DEF VendorStart
  <1>1. /\ Inv' /\ TypeOK' /\ OwnUrls' /\ BuiltIsFetched'
        /\ UNCHANGED <<lock, phase>>
    BY QuietInv
  <1>2. VTypeOK'
    BY <1>1 DEF VInv, VTypeOK, NoMirror
  <1>3. VendorWaits' /\ PayloadIsVerified' /\ FilesSoFar' /\ MapIsReady' /\ VendoredMap'
        /\ VendoredBuildIsLocal'
    BY <1>1 DEF VendorWaits, PayloadIsVerified, FilesSoFar, MapIsReady, VendoredMap,
       VendoredBuildIsLocal, NoMirror
  <1>. QED
    BY <1>1, <1>2, <1>3 DEF VInv

LEMMA FetchInv == ASSUME VInv, NEW n \in Names, FetchArchive(n) PROVE VInv'
  <1>. USE DEF FetchArchive
  <1>1. /\ Inv' /\ TypeOK' /\ OwnUrls' /\ BuiltIsFetched'
        /\ UNCHANGED <<lock, phase, mirror, end, emitted>>
        /\ Fetched' = Fetched /\ \A m : File(m)' = File(m)
    BY QuietInv
  <1>2. n \in Fetched /\ lock.pins[n].url \in Urls
    BY PinFacts DEF IsNext, Remaining, Fetched, VInv, VTypeOK
  <1>3. payload' \in Digests
    BY <1>2 DEF VInv, VTypeOK, TypeOK, Archive, Digests
  <1>4. VTypeOK'
    BY <1>1, <1>3 DEF VInv, VTypeOK
  <1>5. PayloadIsVerified'
    <2>1. ASSUME NEW m \in Names, IsNext(m)' PROVE lock'.pins[m].sha \in {None, payload'}
      <3>1. IsNext(m)
        BY <1>1, <2>1 DEF IsNext, Remaining
      <3>. QED
        BY <1>1, <3>1, OneIsNext
    <2>. QED
      BY <1>3, <2>1 DEF PayloadIsVerified
  <1>6. VendorWaits' /\ FilesSoFar' /\ MapIsReady' /\ VendoredMap' /\ VendoredBuildIsLocal'
    BY <1>1 DEF VInv, VendorWaits, FilesSoFar, Stored, MapIsReady, VendoredMap,
       VendoredBuildIsLocal
  <1>. QED
    BY <1>1, <1>4, <1>5, <1>6 DEF VInv

\* Truncating and writing the file of one package leaves those of the others.
LEMMA OpenFileInv == ASSUME VInv, NEW n \in Names, OpenFile(n) PROVE VInv'
  <1>. USE DEF OpenFile
  <1>1. /\ Inv' /\ TypeOK' /\ OwnUrls' /\ BuiltIsFetched'
        /\ UNCHANGED <<lock, phase, mirror, end, emitted>>
        /\ Fetched' = Fetched /\ \A m : File(m)' = File(m)
    BY QuietInv
  <1>2. n \in Fetched /\ vmap[n] = None
    BY DEF IsNext, Remaining
  <1>3. File(n) \in Locations /\ \A m \in Fetched : m # n => File(m) # File(n)
    BY <1>2, FileFacts
  <1>4. VTypeOK'
    BY <1>1, <1>3 DEF VInv, VTypeOK
  <1>5. FilesSoFar'
    <2>1. SUFFICES ASSUME NEW m \in Names, vmap[m] # None
                   PROVE  m \in Fetched /\ vmap[m] = File(m) /\ Stored(m, vmap[m])'
      BY <1>1 DEF FilesSoFar
    <2>2. m # n /\ m \in Fetched /\ vmap[m] = File(m) /\ Stored(m, vmap[m])
      BY <1>2, <2>1 DEF VInv, FilesSoFar
    <2>3. store'[vmap[m]] = store[vmap[m]]
      BY <1>3, <2>2, FileFacts DEF VInv, VTypeOK
    <2>. QED
      BY <1>1, <2>2, <2>3 DEF Stored
  <1>6. PayloadIsVerified'
    BY <1>1 DEF VInv, PayloadIsVerified, IsNext, Remaining
  <1>7. VendorWaits' /\ MapIsReady' /\ VendoredMap' /\ VendoredBuildIsLocal'
    BY <1>1 DEF VInv, VendorWaits, MapIsReady, VendoredMap, VendoredBuildIsLocal
  <1>. QED
    BY <1>1, <1>4, <1>5, <1>6, <1>7 DEF VInv

LEMMA WriteFileInv == ASSUME VInv, NEW n \in Names, WriteFile(n) PROVE VInv'
  <1>. USE DEF WriteFile
  <1>1. /\ Inv' /\ TypeOK' /\ OwnUrls' /\ BuiltIsFetched'
        /\ UNCHANGED <<lock, phase, mirror, end, emitted>>
        /\ Fetched' = Fetched /\ \A m : File(m)' = File(m)
    BY QuietInv
  <1>2. n \in Fetched /\ vmap[n] = None
    BY DEF IsNext, Remaining
  <1>3. File(n) \in Locations /\ \A m \in Fetched : m # n => File(m) # File(n)
    BY <1>2, FileFacts
  <1>4. payload \in Digests /\ lock.pins[n].sha \in {None, payload}
    BY DEF VInv, PayloadIsVerified
  <1>5. VTypeOK'
    BY <1>1, <1>3, <1>4 DEF VInv, VTypeOK
  <1>6. FilesSoFar'
    <2>1. SUFFICES ASSUME NEW m \in Names, vmap'[m] # None
                   PROVE  m \in Fetched /\ vmap'[m] = File(m) /\ Stored(m, vmap[m])'
      BY <1>1 DEF FilesSoFar
    <2>2. CASE m = n
      <3>1. vmap'[m] = File(m) /\ store'[File(m)] = payload
        BY <1>3, <2>2 DEF VInv, VTypeOK
      <3>. QED
        BY <1>1, <1>2, <1>4, <2>2, <3>1 DEF Stored
    <2>3. CASE m # n
      <3>1. vmap'[m] = vmap[m]
        BY <2>3 DEF VInv, VTypeOK
      <3>2. m \in Fetched /\ vmap[m] = File(m) /\ Stored(m, vmap[m])
        BY <2>1, <3>1 DEF VInv, FilesSoFar
      <3>3. store'[vmap[m]] = store[vmap[m]]
        BY <1>3, <2>3, <3>2, FileFacts DEF VInv, VTypeOK
      <3>. QED
        BY <1>1, <3>1, <3>2, <3>3 DEF Stored
    <2>. QED
      BY <2>2, <2>3
  <1>7. VendorWaits' /\ PayloadIsVerified' /\ MapIsReady' /\ VendoredMap' /\ VendoredBuildIsLocal'
    BY <1>1 DEF VInv, VendorWaits, PayloadIsVerified, MapIsReady, VendoredMap,
       VendoredBuildIsLocal
  <1>. QED
    BY <1>1, <1>5, <1>6, <1>7 DEF VInv

\* A run that stops, or that has nothing to map.
LEMMA VendorEndInv ==
    ASSUME VInv, vphase' = "idle", UNCHANGED <<vars, store>>,
           payload' \in {payload, None}, vmap' \in [Names -> Locations \cup {None}],
           vendored' \in BOOLEAN, vendored' => vendored \/ Fetched = {}
    PROVE  VInv'
  <1>1. /\ Inv' /\ TypeOK' /\ OwnUrls' /\ BuiltIsFetched'
        /\ UNCHANGED <<lock, phase, mirror, end, emitted>>
        /\ Fetched' = Fetched /\ \A m : File(m)' = File(m)
    BY QuietInv
  <1>2. VTypeOK'
    BY <1>1 DEF VInv, VTypeOK
  <1>3. VendoredMap' /\ VendoredBuildIsLocal'
    BY <1>1 DEF VInv, VendoredMap, Stored, VendoredBuildIsLocal, BuiltIsFetched
  <1>4. VendorWaits' /\ PayloadIsVerified' /\ FilesSoFar' /\ MapIsReady'
    BY DEF VendorWaits, PayloadIsVerified, FilesSoFar, MapIsReady
  <1>. QED
    BY <1>1, <1>2, <1>3, <1>4 DEF VInv

\* The two writes to the map, which are edits of it to a resolver.
LEMMA MapInv ==
    ASSUME VInv, NEW m \in [Names -> Locations \cup {None}], NEW t \in BOOLEAN,
           ReplaceMirror(m, t)
    PROVE  /\ Inv' /\ TypeOK' /\ OwnUrls' /\ BuiltIsFetched' /\ VendoredBuildIsLocal'
           /\ lock' = lock /\ mirror' = m /\ phase' = phase
           /\ Fetched' = Fetched /\ \A n : File(n)' = File(n)
  <1>1. Inv' /\ TypeOK'
    BY ReplaceMirrorInv DEF VInv, Inv
  <1>2. lock' = lock /\ mirror' = m /\ end' = "none" /\ phase' = phase
    BY DEF ReplaceMirror, Between, runVars
  <1>3. Fetched' = Fetched /\ \A n : File(n)' = File(n)
    BY <1>2 DEF Fetched, File
  <1>. QED
    BY <1>1, <1>2, <1>3 DEF VInv, OwnUrls, BuiltIsFetched, VendoredBuildIsLocal

LEMMA OpenMapInv == ASSUME VInv, OpenMap PROVE VInv'
  <1>. USE DEF OpenMap
  <1>1. /\ Inv' /\ TypeOK' /\ OwnUrls' /\ BuiltIsFetched' /\ VendoredBuildIsLocal'
        /\ lock' = lock /\ phase' = phase
        /\ Fetched' = Fetched /\ \A n : File(n)' = File(n)
    BY MapInv DEF VInv, VTypeOK, TypeOK
  <1>2. VTypeOK'
    BY <1>1 DEF VInv, VTypeOK
  <1>3. VendorWaits' /\ PayloadIsVerified' /\ FilesSoFar' /\ MapIsReady' /\ VendoredMap'
    BY <1>1 DEF VInv, VendorWaits, PayloadIsVerified, FilesSoFar, Stored, MapIsReady, VendoredMap,
       Remaining
  <1>. QED
    BY <1>1, <1>2, <1>3 DEF VInv

LEMMA WriteMapInv == ASSUME VInv, WriteMap PROVE VInv'
  <1>. USE DEF WriteMap, NewMap
  <1>1. /\ Inv' /\ TypeOK' /\ OwnUrls' /\ BuiltIsFetched' /\ VendoredBuildIsLocal'
        /\ lock' = lock /\ mirror' = vmap /\ Fetched' = Fetched
    BY MapInv DEF VInv, VTypeOK
  <1>2. VTypeOK'
    BY <1>1 DEF VInv, VTypeOK, NoMirror
  <1>3. VendoredMap'
    BY <1>1 DEF VInv, MapIsReady, FilesSoFar, VendoredMap, Stored, Remaining, Fetched
  <1>4. VendorWaits' /\ PayloadIsVerified' /\ FilesSoFar' /\ MapIsReady'
    BY DEF VendorWaits, PayloadIsVerified, FilesSoFar, MapIsReady
  <1>. QED
    BY <1>1, <1>2, <1>3, <1>4 DEF VInv

\* A build after a vendor run takes every archive from the file that the map
\* names, which is the archive whose hash the lockfile has.
LEMMA EmitsLocalFiles ==
    ASSUME VInv, vendored, Emit, NEW n \in Names, emitted'[n] # None
    PROVE  emitted'[n].source \in Locations /\ store[emitted'[n].source] = emitted'[n].sha
  <1>1. phase = "emitting" /\ emitted'[n] = Emission[n]
    BY DEF Emit
  <1>2. result[n] # None /\ manager = "auto"
    BY <1>1 DEF Emission
  <1>3. /\ emitted'[n].source = IF mirror[n] # None THEN mirror[n] ELSE result[n].url
        /\ emitted'[n].sha = result[n].sha
    BY <1>1, <1>2 DEF Emission
  <1>4. result[n].url # None /\ result[n].sha # None /\ lock.pins[n] = result[n]
    BY <1>1, <1>2 DEF VInv, Inv, ResultsMatchWork, EmittingWhatIsLocked
  <1>5. mirror[n] # None /\ Stored(n, mirror[n])
    BY <1>2, <1>4 DEF VInv, VendoredMap, Fetched
  <1>. QED
    BY <1>3, <1>4, <1>5 DEF VInv, VTypeOK, TypeOK, Stored

LEMMA OtherInv == ASSUME VInv, OtherStep PROVE VInv'
  <1>. USE DEF OtherStep
  <1>1. Next
    BY DEF Next
  <1>2. Inv' /\ TypeOK'
    BY <1>1, StepInv DEF VInv, Inv
  <1>3. /\ OwnUrls' /\ BuiltIsFetched'
        /\ \/ Emit
           \/ end' # "built"
           \/ emitted' = Nothing
           \/ UNCHANGED <<end, emitted, lock>>
    BY <1>1, ResolverFacts DEF VInv
  <1>4. VTypeOK'
    BY <1>2 DEF VInv, VTypeOK
  <1>5. VendorWaits' /\ PayloadIsVerified' /\ FilesSoFar' /\ MapIsReady'
    BY DEF VendorWaits, PayloadIsVerified, FilesSoFar, MapIsReady
  <1>6. VendoredMap'
    BY DEF VInv, VendoredMap, Stored, Fetched
  <1>7. VendoredBuildIsLocal'
    <2>1. SUFFICES ASSUME vendored, end' = "built", NEW n \in Names, emitted'[n] # None
                   PROVE  /\ emitted'[n].source \in Locations
                          /\ store[emitted'[n].source] = emitted'[n].sha
      BY DEF VendoredBuildIsLocal
    <2>2. CASE Emit
      BY <2>1, <2>2, EmitsLocalFiles
    <2>. QED
      BY <1>3, <2>1, <2>2 DEF VInv, VendoredBuildIsLocal, Nothing
  <1>. QED
    BY <1>2, <1>3, <1>4, <1>5, <1>6, <1>7 DEF VInv

LEMMA WorldVInv == ASSUME VInv, World PROVE VInv'
  <1>. USE DEF World, vendorVars
  <1>1. Inv' /\ TypeOK'
    BY WorldInv DEF VInv, Inv
  <1>2. UNCHANGED <<lock, mirror, phase, end, emitted>>
    BY DEF WorldStep, MoveHead, Reroll, fileVars, runVars, lastVars
  <1>3. VTypeOK'
    BY <1>1 DEF VInv, VTypeOK
  <1>4. OwnUrls' /\ BuiltIsFetched' /\ VendorWaits' /\ MapIsReady' /\ VendoredBuildIsLocal'
    BY <1>2 DEF VInv, OwnUrls, BuiltIsFetched, VendorWaits, MapIsReady, VendoredBuildIsLocal,
       Remaining, Fetched
  <1>5. PayloadIsVerified' /\ FilesSoFar' /\ VendoredMap'
    BY <1>2 DEF VInv, PayloadIsVerified, FilesSoFar, VendoredMap, Stored, IsNext, Remaining,
       Fetched, File
  <1>. QED
    BY <1>1, <1>3, <1>4, <1>5 DEF VInv

LEMMA VStepInv == ASSUME VInv, [VNext]_allVars PROVE VInv'
  <1>1. CASE VendorStep
    <2>1. CASE FetchFails
      BY <2>1, VendorEndInv DEF FetchFails, VInv, VTypeOK, NoMirror
    <2>2. CASE MapNothing
      <3>1. Fetched = {}
        BY <2>2 DEF MapNothing, Remaining, NoMirror, Fetched
      <3>. QED
        BY <2>2, <3>1, VendorEndInv DEF MapNothing, VInv, VTypeOK
    <2>. QED
      BY <1>1, <2>1, <2>2, FetchInv, OpenFileInv, WriteFileInv, OpenMapInv, WriteMapInv
      DEF VendorStep
  <1>2. CASE VendorCrash
    BY <1>2, VendorEndInv DEF VendorCrash, VInv, VTypeOK, NoMirror
  <1>3. CASE UNCHANGED allVars
    <2>1. /\ Inv' /\ TypeOK' /\ OwnUrls' /\ BuiltIsFetched'
          /\ UNCHANGED <<lock, phase, mirror, end, emitted>>
          /\ Fetched' = Fetched /\ \A m : File(m)' = File(m)
      BY <1>3, QuietInv DEF allVars
    <2>2. VTypeOK' /\ VendorWaits' /\ MapIsReady' /\ VendoredBuildIsLocal'
      BY <1>3, <2>1 DEF allVars, vendorVars, VInv, VTypeOK, VendorWaits, MapIsReady,
         VendoredBuildIsLocal, Remaining
    <2>3. PayloadIsVerified' /\ FilesSoFar' /\ VendoredMap'
      BY <1>3, <2>1 DEF allVars, vendorVars, VInv, PayloadIsVerified, FilesSoFar, VendoredMap,
         Stored, IsNext, Remaining
    <2>. QED
      BY <2>1, <2>2, <2>3 DEF VInv
  <1>. QED
    BY <1>1, <1>2, <1>3, VendorStartInv, OtherInv, WorldVInv DEF VNext

LEMMA AlwaysVInv == VSpec => []VInv
  BY VInitInv, VStepInv, PTL DEF VSpec

\* Vendored files, the map and the run that makes them are well formed.
THEOREM VendoringTypeCorrect == VSpec => []VTypeOK
  <1>1. VInv => VTypeOK
    BY DEF VInv
  <1>. QED
    BY <1>1, AlwaysVInv, PTL

\* As long as nobody refreshes the lockfile or edits the map, what a build after
\* a vendor run (_vendor_one, write_map) fetches are local files only, and they
\* are the archives that it verifies.
THEOREM VendoredBuildsAreLocal == VSpec => []VendoredBuildIsLocal
  <1>1. VInv => VendoredBuildIsLocal
    BY DEF VInv
  <1>. QED
    BY <1>1, AlwaysVInv, PTL

\* The mirror map is replaced only when every archive of the lockfile is stored,
\* whole, and has the hash that is recorded there.
THEOREM MapsNameVerifiedFiles == VSpec => MapsVerifiedFiles
  <1>1. ASSUME VInv, [VNext]_allVars,
               vphase = "mapping" /\ vphase' = "idle" /\ mirror' # mirror
        PROVE  \A n \in Names :
                  /\ mirror'[n] # None <=> n \in Fetched
                  /\ n \in Fetched =>
                        /\ store[mirror'[n]] \in Digests
                        /\ lock.pins[n].sha \in {None, store[mirror'[n]]}
    <2>1. mirror' = vmap
      <3>1. ~VendorStart /\ ~OtherStep
        BY <1>1 DEF VendorStart, OtherStep
      <3>2. ~World /\ ~UNCHANGED allVars
        BY <1>1 DEF World, vendorVars, allVars
      <3>3. ~VendorCrash
        BY <1>1 DEF VendorCrash, vars, fileVars
      <3>4. CASE VendorStep
        BY <1>1, <3>4
        DEF VendorStep, FetchArchive, OpenFile, WriteFile, FetchFails, MapNothing, OpenMap,
            WriteMap, NewMap, ReplaceMirror
      <3>. QED
        BY <1>1, <3>1, <3>2, <3>3, <3>4 DEF VNext
    <2>2. \A n \in Names : vmap[n] # None <=> n \in Fetched
      BY <1>1 DEF VInv, MapIsReady, FilesSoFar, Remaining, Fetched
    <2>3. \A n \in Names : n \in Fetched => Stored(n, vmap[n])
      BY <1>1, <2>2 DEF VInv, FilesSoFar
    <2>. QED
      BY <2>1, <2>2, <2>3 DEF Stored
  <1>. QED
    BY <1>1, AlwaysVInv, PTL DEF VSpec, MapsVerifiedFiles

-----------------------------------------------------------------------------
(* Beside vendor runs the resolver is the one of Resolution, in a world in  *)
(* which the map may be replaced by any other.                             *)

LEMMA SameTerms ==
    /\ Resolver!Nothing = Nothing /\ Resolver!NoPins = NoPins /\ Resolver!NoMirror = NoMirror
    /\ Resolver!AllPending = AllPending /\ Resolver!EmptyLock = EmptyLock
    /\ Resolver!Urls = Urls /\ Resolver!Managers = Managers
    /\ Resolver!Required = Required /\ Resolver!Emission = Emission
    /\ Resolver!LockBaseline = LockBaseline /\ Resolver!NewPins = NewPins
    /\ Resolver!force = force
    /\ Resolver!vars = vars /\ Resolver!vars' = vars'
  BY DEF Nothing, Resolver!Nothing, NoPins, Resolver!NoPins, NoMirror, Resolver!NoMirror,
     AllPending, Resolver!AllPending, EmptyLock, Resolver!EmptyLock, Urls, Resolver!Urls,
     Managers, Resolver!Managers, Required, Resolver!Required, Emission, Resolver!Emission,
     LockBaseline, Resolver!LockBaseline, NewPins, Resolver!NewPins, force, Resolver!force,
     vars, Resolver!vars, scriptVars, Resolver!scriptVars, worldVars, Resolver!worldVars,
     fileVars, Resolver!fileVars, runVars, Resolver!runVars, lastVars, Resolver!lastVars

LEMMA SameHelpers ==
    ASSUME NEW n
    PROVE  /\ Resolver!UrlOf(n) = UrlOf(n)
           /\ \A u, r : Resolver!Archive(u, r) = Archive(u, r)
           /\ \A u, s : Resolver!PinOf(n, u, s) = PinOf(n, u, s)
           /\ Resolver!LockedPin(n) <=> LockedPin(n)
           /\ Resolver!KnownHash(n) <=> KnownHash(n)
           /\ Resolver!HasUrl(n) <=> HasUrl(n)
           /\ Resolver!Running(n) <=> Running(n)
           /\ \A w : Resolver!Report(n, w) <=> Report(n, w)
           /\ \A e : Resolver!EndRun(e) <=> EndRun(e)
  BY DEF UrlOf, Resolver!UrlOf, Archive, Resolver!Archive, PinOf, Resolver!PinOf,
     LockedPin, Resolver!LockedPin, CompletePin, Resolver!CompletePin, force, Resolver!force,
     KnownHash, Resolver!KnownHash, HasUrl, Resolver!HasUrl, Running, Resolver!Running,
     Required, Resolver!Required, Report, Resolver!Report, EndRun, Resolver!EndRun,
     AllPending, Resolver!AllPending, NoPins, Resolver!NoPins,
     scriptVars, Resolver!scriptVars, worldVars, Resolver!worldVars,
     fileVars, Resolver!fileVars, lastVars, Resolver!lastVars

LEMMA SameRunStep == RunStep => Resolver!RunStep
  <1>. USE SameTerms
       DEF scriptVars, Resolver!scriptVars, worldVars, Resolver!worldVars,
           fileVars, Resolver!fileVars, lastVars, Resolver!lastVars
  <1>1. ASSUME NEW n \in Names, WorkerStep(n) PROVE Resolver!WorkerStep(n)
    BY <1>1, SameHelpers
    DEF WorkerStep, Resolver!WorkerStep, ResolveByManager, Resolver!ResolveByManager,
        ResolveFromLock, Resolver!ResolveFromLock, ResolveKnown, Resolver!ResolveKnown,
        Download, Resolver!Download, Fail, Resolver!Fail, Succeed, Resolver!Succeed
  <1>2. ASSUME NEW n \in Names, Raise(n) PROVE Resolver!Raise(n)
    BY <1>2, SameHelpers DEF Raise, Resolver!Raise
  <1>3. OpenLock => Resolver!OpenLock
    BY DEF OpenLock, Resolver!OpenLock
  <1>4. WriteLock => Resolver!WriteLock
    BY SameHelpers DEF WriteLock, Resolver!WriteLock
  <1>5. Emit => Resolver!Emit
    BY SameHelpers DEF Emit, Resolver!Emit
  <1>. QED
    BY <1>1, <1>2, <1>3, <1>4, <1>5 DEF RunStep, Resolver!RunStep

LEMMA SameUserStep == UserStep => Resolver!UserStep
  <1>. USE SameTerms
       DEF scriptVars, Resolver!scriptVars, worldVars, Resolver!worldVars,
           fileVars, Resolver!fileVars, runVars, Resolver!runVars, Between, Resolver!Between
  <1>1. ASSUME NEW n, NEW d, Edit(n, d) PROVE Resolver!Edit(n, d)
    BY <1>1 DEF Edit, Resolver!Edit
  <1>2. ASSUME NEW m, ChooseManager(m) PROVE Resolver!ChooseManager(m)
    BY <1>2 DEF ChooseManager, Resolver!ChooseManager
  <1>3. DeleteLock => Resolver!DeleteLock
    BY DEF DeleteLock, Resolver!DeleteLock
  <1>4. ASSUME NEW m, NEW t, ReplaceMirror(m, t) PROVE Resolver!ReplaceMirror(m, t)
    BY <1>4 DEF ReplaceMirror, Resolver!ReplaceMirror
  <1>5. Mirrors \subseteq [Names -> Locations \cup {None}]
    BY ResolutionAssumption
  <1>. QED
    BY <1>1, <1>2, <1>3, <1>4, <1>5 DEF UserStep, Resolver!UserStep

\* Writing the map is an edit of it.
LEMMA MapIsEdited ==
    ASSUME NEW m \in [Names -> Locations \cup {None}], NEW t \in BOOLEAN, ReplaceMirror(m, t)
    PROVE  Resolver!Next
  <1>1. Resolver!ReplaceMirror(m, t)
    BY SameTerms
    DEF ReplaceMirror, Resolver!ReplaceMirror, Between, Resolver!Between, scriptVars,
        Resolver!scriptVars, worldVars, Resolver!worldVars, runVars, Resolver!runVars
  <1>. QED
    BY <1>1 DEF Resolver!Next, Resolver!UserStep

LEMMA SameNext == Next => Resolver!Next
  <1>. USE SameTerms
       DEF scriptVars, Resolver!scriptVars, worldVars, Resolver!worldVars,
           fileVars, Resolver!fileVars, runVars, Resolver!runVars, lastVars, Resolver!lastVars
  <1>1. WorldStep => Resolver!WorldStep
    BY SameHelpers
    DEF WorldStep, Resolver!WorldStep, MoveHead, Resolver!MoveHead, Reroll, Resolver!Reroll
  <1>2. StartStep => Resolver!StartStep
    BY DEF StartStep, Resolver!StartStep, StartEmpty, Resolver!StartEmpty, StartUnreadable,
       Resolver!StartUnreadable, Start, Resolver!Start
  <1>3. Crash => Resolver!Crash
    BY SameHelpers DEF Crash, Resolver!Crash
  <1>. QED
    BY <1>1, <1>2, <1>3, SameUserStep, SameRunStep DEF Next, Resolver!Next

\* Every step beside and within vendor runs is a step of the resolver or none:
\* what is proved of Resolution holds of a project that is vendored as well.
THEOREM VendoringImplementsResolution == VSpec => ImplementsResolution
  <1>1. VInit => Resolver!Init
    BY SameTerms DEF VInit, Init, Resolver!Init
  <1>2. ASSUME VInv, [VNext]_allVars PROVE [Resolver!Next]_(Resolver!vars)
    <2>1. CASE OtherStep \/ World
      <3>1. Next
        BY <2>1 DEF OtherStep, World, Next
      <3>. QED
        BY <3>1, SameNext
    <2>2. CASE UNCHANGED vars
      BY <2>2, SameTerms
    <2>3. CASE OpenMap
      <3>1. ReplaceMirror(mirror, TRUE) /\ mirror \in [Names -> Locations \cup {None}]
        BY <1>2, <2>3 DEF OpenMap, VInv, VTypeOK, TypeOK
      <3>. QED
        BY <3>1, MapIsEdited
    <2>4. CASE WriteMap
      <3>1. ReplaceMirror(vmap, FALSE) /\ vmap \in [Names -> Locations \cup {None}]
        BY <1>2, <2>4 DEF WriteMap, NewMap, VInv, VTypeOK
      <3>. QED
        BY <3>1, MapIsEdited
    <2>5. CASE VendorStart \/ VendorCrash \/ UNCHANGED allVars
      BY <2>2, <2>5 DEF VendorStart, VendorCrash, allVars
    <2>6. CASE VendorStep
      BY <2>2, <2>3, <2>4, <2>6
      DEF VendorStep, FetchArchive, OpenFile, WriteFile, FetchFails, MapNothing
    <2>. QED
      BY <1>2, <2>1, <2>5, <2>6 DEF VNext
  <1>. QED
    BY <1>1, <1>2, AlwaysVInv, PTL DEF VSpec, ImplementsResolution, Resolver!Spec
=============================================================================
