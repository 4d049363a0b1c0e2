------------------------------- MODULE PinStore -------------------------------
(***************************************************************************)
(* What cmakeless.lock promises to the people who commit it. The file is a  *)
(* table of pins that changes as a whole: one completed resolution replaces *)
(* it, a crash can destroy it, its owner can delete it, and nothing else    *)
(* touches it. A resolution keeps the pins it may keep and takes the others *)
(* from somewhere it can name. Workers, downloads in flight, failed and     *)
(* interrupted runs do not exist at this level.                             *)
(***************************************************************************)
EXTENDS Naturals

CONSTANTS Names, Curated, None

VARIABLES
    decl,      \* what the build script requires
    manager,   \* project.package_manager
    roll,      \* how often upstream has replaced each archive
    head,      \* the commit of the vcpkg checkout
    lock,      \* the table
    torn       \* whether the table is lost until its owner deletes the file

pinVars == <<decl, manager, roll, head, lock, torn>>
scriptVars == <<decl, manager, roll, head>>

NoPins == [n \in Names |-> None]
EmptyLock == [pins |-> NoPins, baseline |-> 0]

Required == {n \in Names : decl[n] # None}

UrlOf(n) == <<n, IF decl[n].url = "custom" THEN "custom" ELSE decl[n].version>>
Archive(u, r) == [url |-> u, roll |-> r]

\* A locked pin that a resolution must reuse unless it was told to refresh.
Reusable(n) ==
    /\ lock.pins[n] # None
    /\ lock.pins[n].version = decl[n].version
    /\ lock.pins[n].backend = "auto"
    /\ lock.pins[n].url # None
    /\ lock.pins[n].sha # None

\* The digest is known without a download: the script or the curated table
\* names the archive that upstream published first.
Known(n) ==
    \/ decl[n].sha = "given"
    \/ decl[n].url = "registry" /\ <<n, decl[n].version>> \in Curated

\* Whether p is a pin that a completed resolution may write for n.
Admissible(n, p, force, offline) ==
    /\ p.version = decl[n].version
    /\ p.backend = manager
    /\ manager = "auto" =>
         \/ ~force /\ Reusable(n) /\ p.url = lock.pins[n].url /\ p.sha = lock.pins[n].sha
         \/ /\ force \/ ~Reusable(n)
            /\ p.url = UrlOf(n)
            /\ \/ Known(n) /\ p.sha = Archive(UrlOf(n), 1)
               \/ /\ ~Known(n) /\ ~offline
                  /\ \E r \in 1 .. roll[UrlOf(n)] : p.sha = Archive(UrlOf(n), r)
    /\ manager # "auto" =>
         /\ p.url = IF decl[n].url = "custom" THEN UrlOf(n) ELSE None
         /\ p.sha = IF decl[n].sha = "given" THEN Archive(UrlOf(n), 1) ELSE None

\* The vcpkg commit to record: the recorded one unless it is to be refreshed.
Baseline(force) ==
    IF manager # "vcpkg" THEN 0
    ELSE IF ~force /\ lock.baseline # 0 THEN lock.baseline ELSE head

Init ==
    /\ lock = EmptyLock
    /\ torn = FALSE

\* A completed resolution: every required package has an admissible pin, and
\* no other package has one.
Rewrite(force, offline) ==
    /\ ~torn
    /\ Required # {}
    /\ \A n \in Names :
          IF n \in Required
          THEN lock'.pins[n] # None /\ Admissible(n, lock'.pins[n], force, offline)
          ELSE lock'.pins[n] = None
    /\ lock' = [pins |-> lock'.pins, baseline |-> Baseline(force)]
    /\ UNCHANGED <<scriptVars, torn>>

\* The process died while it was writing.
Tear == ~torn /\ torn' /\ UNCHANGED <<scriptVars, lock>>

Delete == lock' = EmptyLock /\ ~torn' /\ UNCHANGED scriptVars

\* The script is edited, upstream replaces an archive, the checkout is updated.
Environment == UNCHANGED <<lock, torn>>

Next ==
    \/ \E force, offline \in BOOLEAN : Rewrite(force, offline)
    \/ Tear
    \/ Delete
    \/ Environment

Spec == Init /\ [][Next]_pinVars
=============================================================================
