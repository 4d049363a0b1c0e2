------------------------------ MODULE OrderedMap ------------------------------
(***************************************************************************)
(* What a thread-pool map promises its caller ("Apply a function to every   *)
(* item concurrently, preserving input order", `parallel_map` in            *)
(* src/cmakeless/_parallel.py): as far as its value or its exception is     *)
(* concerned the call behaves like a sequential map. No queue, no futures,  *)
(* no cancellation.                                                         *)
(***************************************************************************)
EXTENDS Naturals

CONSTANT N

Items == 1 .. N

VARIABLES
    work,     \* which items have a value or an exception
    outcome,  \* how the call ended, "pending" before
    blamed    \* the item whose exception the caller gets, 0 for none

absVars == <<work, outcome, blamed>>

AbsInit ==
    /\ work = [i \in Items |-> "pending"]
    /\ outcome = "pending"
    /\ blamed = 0

AbsFinish(i) ==
    /\ work[i] = "pending"
    /\ \E w \in {"ok", "error"} : work' = [work EXCEPT ![i] = w]
    /\ UNCHANGED <<outcome, blamed>>

\* A value: every item has one.
AbsReturn ==
    /\ outcome = "pending"
    /\ \A i \in Items : work[i] = "ok"
    /\ outcome' = "returned"
    /\ UNCHANGED <<work, blamed>>

\* An exception: that of the first item a sequential map would fail on.
AbsRaise(i) ==
    /\ outcome = "pending"
    /\ work[i] = "error"
    /\ \A j \in Items : j < i => work[j] = "ok"
    /\ outcome' = "raised"
    /\ blamed' = i
    /\ UNCHANGED work

AbsInterrupt ==
    /\ outcome = "pending"
    /\ outcome' = "interrupted"
    /\ UNCHANGED <<work, blamed>>

AbsNext ==
    \/ \E i \in Items : AbsFinish(i) \/ AbsRaise(i)
    \/ AbsReturn
    \/ AbsInterrupt

AbsSpec == AbsInit /\ [][AbsNext]_absVars
=============================================================================
