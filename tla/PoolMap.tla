------------------------------- MODULE PoolMap -------------------------------
(***************************************************************************)
(* One call of a thread-pool map, the only form of concurrency cmakeless    *)
(* uses: `parallel_map` (src/cmakeless/_parallel.py) runs one               *)
(* configuration per preset with it and `_resolve_parallel`                 *)
(* (src/cmakeless/deps/resolver.py) resolves one dependency per task.       *)
(*                                                                         *)
(*     with ThreadPoolExecutor(max_workers=len(items)) as pool:             *)
(*         return list(pool.map(function, items))                           *)
(*                                                                         *)
(* The caller submits the items in order, collects the futures in order,    *)
(* and leaves the `with` block only when the workers have been joined. With *)
(* one worker per item a queued item waits for nothing but the scheduler,   *)
(* so the threads themselves carry no state worth keeping.                  *)
(***************************************************************************)
EXTENDS Naturals

CONSTANT N                  \* how many items the caller maps over

\* Both callers return early on an empty list, so the pool has an item.
ASSUME NAssumption == N \in Nat \ {0}

Tasks == 1 .. N

VARIABLES
    failing,      \* the items whose function call ends in an exception
    task,         \* what became of each item
    caller,       \* where the calling thread is
    submitted,    \* how many items have been handed to the pool
    cursor,       \* the item whose future the caller waits for next
    cause,        \* the item whose exception is re-raised, 0 for none
    interrupted   \* whether the calling thread got a KeyboardInterrupt

vars == <<failing, task, caller, submitted, cursor, cause, interrupted>>
callerVars == <<caller, submitted, cursor, cause, interrupted>>

TaskState == {"new", "queued", "running", "ok", "error", "cancelled"}
CallerState == {"submitting", "collecting", "closing", "done"}

TypeOK ==
    /\ failing \in SUBSET Tasks
    /\ task \in [Tasks -> TaskState]
    /\ caller \in CallerState
    /\ submitted \in 0 .. N
    /\ cursor \in 1 .. N + 1
    /\ cause \in 0 .. N
    /\ interrupted \in BOOLEAN

Fresh ==
    /\ task = [i \in Tasks |-> "new"]
    /\ caller = "submitting"
    /\ submitted = 0
    /\ cursor = 1
    /\ cause = 0
    /\ interrupted = FALSE

\* Which calls fail is settled by the items alone: the workers only read
\* frozen inputs. It is not settled by the schedule.
Init ==
    /\ failing \in SUBSET Tasks
    /\ Fresh

-----------------------------------------------------------------------------
(* The calling thread.                                                     *)

\* pool.map submits every item before it returns its iterator.
Submit ==
    /\ caller = "submitting"
    /\ submitted < N
    /\ submitted' = submitted + 1
    /\ task' = [task EXCEPT ![submitted + 1] = "queued"]
    /\ caller' = IF submitted + 1 = N THEN "collecting" ELSE "submitting"
    /\ UNCHANGED <<failing, cursor, cause, interrupted>>

\* Mutant: a failed future counts as collected.
CollectAnything ==
    /\ caller = "collecting"
    /\ cursor <= N
    /\ task[cursor] \in {"ok", "error"}
    /\ cursor' = cursor + 1
    /\ caller' = IF cursor = N THEN "closing" ELSE "collecting"
    /\ UNCHANGED <<failing, task, submitted, cause, interrupted>>

\* list() takes the next result, in submission order whatever the order of
\* completion.
Collect ==
    /\ caller = "collecting"
    /\ cursor <= N
    /\ task[cursor] = "ok"
    /\ cursor' = cursor + 1
    /\ caller' = IF cursor = N THEN "closing" ELSE "collecting"
    /\ UNCHANGED <<failing, task, submitted, cause, interrupted>>

\* Futures that no worker has started can still be cancelled.
Cancelled == [i \in Tasks |-> IF task[i] = "queued" THEN "cancelled" ELSE task[i]]

\* A failed future re-raises in the caller; the iterator's finally clause
\* cancels what is still queued.
CollectError ==
    /\ caller = "collecting"
    /\ cursor <= N
    /\ task[cursor] = "error"
    /\ cause' = cursor
    /\ task' = Cancelled
    /\ caller' = "closing"
    /\ UNCHANGED <<failing, submitted, cursor, interrupted>>

\* Mutant: the pool is shut down without waiting for its workers.
CloseAtOnce ==
    /\ caller = "closing"
    /\ caller' = "done"
    /\ UNCHANGED <<failing, task, submitted, cursor, cause, interrupted>>

\* Mutant: the pool waits for a value from every item, cancelled or not.
CloseWhenAllReturned ==
    /\ caller = "closing"
    /\ \A i \in Tasks : task[i] \in {"ok", "error"}
    /\ caller' = "done"
    /\ UNCHANGED <<failing, task, submitted, cursor, cause, interrupted>>

\* Leaving the `with` block joins the workers, which drain the queue first.
Close ==
    /\ caller = "closing"
    /\ \A i \in Tasks : task[i] \notin {"queued", "running"}
    /\ caller' = "done"
    /\ UNCHANGED <<failing, task, submitted, cursor, cause, interrupted>>

\* Ctrl-C reaches the calling thread only. While it submits there is no
\* iterator yet whose finally clause would cancel anything; while it joins,
\* the join is given up.
Interrupt ==
    /\ caller # "done"
    /\ interrupted' = TRUE
    /\ caller' = IF caller = "closing" THEN "done" ELSE "closing"
    /\ task' = IF caller = "collecting" THEN Cancelled ELSE task
    /\ UNCHANGED <<failing, submitted, cursor, cause>>

-----------------------------------------------------------------------------
(* The workers.                                                            *)

Start(i) ==
    /\ task[i] = "queued"
    /\ task' = [task EXCEPT ![i] = "running"]
    /\ UNCHANGED <<failing, callerVars>>

\* The function call ends, and its result or its exception is kept in the
\* future until the caller collects it.
Finish(i) ==
    /\ task[i] = "running"
    /\ task' = [task EXCEPT ![i] = IF i \in failing THEN "error" ELSE "ok"]
    /\ UNCHANGED <<failing, callerVars>>

-----------------------------------------------------------------------------

CallerStep == Submit \/ Collect \/ CollectError \/ Close

Next ==
    \/ CallerStep
    \/ Interrupt
    \/ \E i \in Tasks : Start(i) \/ Finish(i)

Spec == Init /\ [][Next]_vars

\* The operating system keeps scheduling every thread that can run, and each
\* function call ends (downloads time out, processes exit).
FairSpec ==
    /\ Spec
    /\ WF_vars(CallerStep)
    /\ \A i \in Tasks : WF_vars(Start(i) \/ Finish(i))

-----------------------------------------------------------------------------
(* Properties.                                                             *)

Uninterrupted == caller = "done" /\ ~interrupted

\* The exception the caller sees is that of the first failing item in
\* submission order, whichever worker failed first ("thread completion order
\* never leaks into the output", deps/resolver.py).
ErrorIsScheduleIndependent ==
    Uninterrupted =>
        IF failing = {} THEN cause = 0
        ELSE cause \in failing /\ \A i \in failing : cause <= i

\* When the call is over so are its workers: nothing a task does can interfere
\* with what the caller does next, which is to write the lockfile or to end.
QuietAfterReturn == [][Uninterrupted => UNCHANGED task]_vars

\* Every call ends: no schedule leaves the caller waiting for a future that
\* nobody will complete.
Terminates == <>(caller = "done")

-----------------------------------------------------------------------------
(* The call seen from outside: unfinished, cancelled and skipped items look *)
(* alike, and only the end of the call is visible.                          *)

Outcome ==
    IF caller # "done" THEN "pending"
    ELSE IF interrupted THEN "interrupted"
    ELSE IF cause # 0 THEN "raised" ELSE "returned"

Map == INSTANCE OrderedMap WITH
    work <- [i \in Tasks |-> IF task[i] \in {"ok", "error"} THEN task[i] ELSE "pending"],
    outcome <- Outcome,
    blamed <- IF Outcome = "raised" THEN cause ELSE 0

\* The pool implements the sequential map it replaces: whatever the schedule,
\* the caller gets all values, or the exception of the first failing item.
ImplementsOrderedMap == Map!AbsSpec
=============================================================================
