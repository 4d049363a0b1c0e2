---------------------------- MODULE PoolMapProofs ----------------------------
(***************************************************************************)
(* Proofs about PoolMap, for every number of items, every set of failing    *)
(* items and every schedule. The inductive invariant ties what has happened *)
(* to the items to the position of the caller.                              *)
(***************************************************************************)
EXTENDS PoolMap, TLAPS

\* Where the caller is determines which items it has submitted and collected.
CallerInv ==
    /\ \A i \in Tasks : task[i] = "new" <=> i > submitted
    /\ caller = "submitting" => submitted < N /\ cursor = 1
    /\ caller = "collecting" => submitted = N /\ cursor <= N
    /\ caller \in {"submitting", "collecting"} => cause = 0 /\ ~interrupted
    /\ caller \in {"closing", "done"} /\ ~interrupted /\ cause = 0 => cursor = N + 1

\* What has been collected is a value, and what is re-raised is the first error.
ResultInv ==
    /\ \A i \in Tasks : i < cursor => task[i] = "ok"
    /\ \A i \in Tasks : task[i] = "ok" => i \notin failing
    /\ \A i \in Tasks : task[i] = "error" => i \in failing
    /\ cause # 0 => cause = cursor /\ task[cause] = "error"

\* The pool outlives its call only if the caller was interrupted.
JoinInv == Uninterrupted => \A i \in Tasks : task[i] \notin {"queued", "running"}

PoolInv == TypeOK /\ CallerInv /\ ResultInv /\ JoinInv

USE NAssumption DEF Tasks

LEMMA InitInv == Init => PoolInv
  <1> SUFFICES ASSUME Init PROVE PoolInv
    OBVIOUS
  <1> USE DEF Init, Fresh
  <1>1. TypeOK
    <2>1. task \in [Tasks -> TaskState]
      BY DEF TaskState
    <2>2. submitted \in 0 .. N /\ cursor \in 1 .. N + 1 /\ cause \in 0 .. N
      OBVIOUS
    <2>3. caller \in CallerState /\ interrupted \in BOOLEAN
      BY DEF CallerState
    <2>4. QED
      BY <2>1, <2>2, <2>3 DEF TypeOK
  <1>2. CallerInv
    BY DEF CallerInv
  <1>3. ResultInv
    BY DEF ResultInv
  <1>4. JoinInv
    BY DEF JoinInv, Uninterrupted
  <1>5. QED
    BY <1>1, <1>2, <1>3, <1>4 DEF PoolInv

LEMMA StepInv == PoolInv /\ [Next]_vars => PoolInv'
  <1> SUFFICES ASSUME PoolInv, [Next]_vars PROVE PoolInv'
    OBVIOUS
  <1> USE DEF PoolInv, TypeOK, CallerInv, ResultInv, JoinInv, Uninterrupted,
              TaskState, CallerState
  <1>1. CASE Submit
    BY <1>1 DEF Submit
  <1>2. CASE Collect
    BY <1>2 DEF Collect
  <1>3. CASE CollectError
    BY <1>3 DEF CollectError, Cancelled
  <1>4. CASE Close
    BY <1>4 DEF Close
  <1>5. CASE Interrupt
    BY <1>5 DEF Interrupt, Cancelled
  <1>6. ASSUME NEW i \in Tasks, Start(i) PROVE PoolInv'
    BY <1>6 DEF Start, callerVars
  <1>7. ASSUME NEW i \in Tasks, Finish(i) PROVE PoolInv'
    BY <1>7 DEF Finish, callerVars
  <1>8. CASE UNCHANGED vars
    BY <1>8 DEF vars
  <1>9. QED
    BY <1>1, <1>2, <1>3, <1>4, <1>5, <1>6, <1>7, <1>8 DEF Next, CallerStep

LEMMA AlwaysInv == Spec => []PoolInv
  BY InitInv, StepInv, PTL DEF Spec

\* The state of the call is well typed.
THEOREM PoolTypeCorrect == Spec => []TypeOK
  BY AlwaysInv, PTL DEF PoolInv

\* The exception that `parallel_map` lets through is decided by the items, not
\* by the order in which their workers finish.
THEOREM ErrorIsDeterministic == Spec => []ErrorIsScheduleIndependent
  <1>1. PoolInv => ErrorIsScheduleIndependent
    <2> SUFFICES ASSUME PoolInv, Uninterrupted
                 PROVE  IF failing = {} THEN cause = 0
                        ELSE cause \in failing /\ \A i \in failing : cause <= i
      BY DEF ErrorIsScheduleIndependent
    <2> USE DEF PoolInv, TypeOK, CallerInv, ResultInv, Uninterrupted
    <2>1. CASE cause = 0
      <3>1. \A i \in Tasks : task[i] = "ok"
        BY <2>1
      <3>2. failing = {}
        BY <3>1
      <3>3. QED
        BY <2>1, <3>2
    <2>2. CASE cause # 0
      <3>1. cause \in failing
        BY <2>2
      <3>2. \A i \in failing : ~(i < cause)
        BY <2>2
      <3>3. QED
        BY <3>1, <3>2
    <2>3. QED
      BY <2>1, <2>2
  <1>2. QED
    BY <1>1, AlwaysInv, PTL

\* Nothing a worker does can be observed after the call has returned or raised.
THEOREM NothingAfterReturn == Spec => QuietAfterReturn
  <1>1. PoolInv /\ [Next]_vars => [Uninterrupted => UNCHANGED task]_vars
    <2> SUFFICES ASSUME PoolInv, [Next]_vars, Uninterrupted
                 PROVE  UNCHANGED task
      OBVIOUS
    <2> USE DEF PoolInv, JoinInv, Uninterrupted
    <2>1. CASE CallerStep
      BY <2>1 DEF CallerStep, Submit, Collect, CollectError, Close
    <2>2. CASE Interrupt
      BY <2>2 DEF Interrupt
    <2>3. ASSUME NEW i \in Tasks, Start(i) \/ Finish(i) PROVE UNCHANGED task
      BY <2>3 DEF Start, Finish
    <2>4. CASE UNCHANGED vars
      BY <2>4 DEF vars
    <2>5. QED
      BY <2>1, <2>2, <2>3, <2>4 DEF Next
  <1>2. QED
    BY <1>1, AlwaysInv, PTL DEF Spec, QuietAfterReturn

-----------------------------------------------------------------------------
(* The refinement: every step of the pool is a step of OrderedMap or leaves *)
(* everything OrderedMap can see as it was.                                 *)


\* The pool implements the sequential map that its callers rely on.
THEOREM PoolImplementsOrderedMap == Spec => ImplementsOrderedMap
  <1>1. Init => Map!AbsInit
    BY DEF Init, Fresh, Map!AbsInit, Map!Items, Outcome
  <1>2. PoolInv /\ PoolInv' /\ [Next]_vars => [Map!AbsNext]_(Map!absVars)
    <2> SUFFICES ASSUME PoolInv, PoolInv', [Next]_vars
                 PROVE  [Map!AbsNext]_(Map!absVars)
      OBVIOUS
    <2> USE DEF PoolInv, TypeOK, CallerInv, ResultInv, TaskState, CallerState,
                Map!absVars, Outcome, Map!Items
    <2>1. CASE Submit
      BY <2>1 DEF Submit
    <2>2. CASE Collect
      BY <2>2 DEF Collect
    <2>3. CASE CollectError
      BY <2>3 DEF CollectError, Cancelled
    <2>4. CASE Close
      <3>1. CASE interrupted
        BY <2>4, <3>1 DEF Close, Map!AbsNext, Map!AbsInterrupt
      <3>2. CASE ~interrupted /\ cause # 0
        <4>1. Map!AbsRaise(cause)
          BY <2>4, <3>2 DEF Close, Map!AbsRaise
        <4>2. QED
          BY <4>1, <3>2 DEF Map!AbsNext
      <3>3. CASE ~interrupted /\ cause = 0
        BY <2>4, <3>3 DEF Close, Map!AbsNext, Map!AbsReturn
      <3>4. QED
        BY <3>1, <3>2, <3>3
    <2>5. CASE Interrupt
      <3>1. CASE caller = "closing"
        BY <2>5, <3>1 DEF Interrupt, Map!AbsNext, Map!AbsInterrupt
      <3>2. CASE caller # "closing"
        BY <2>5, <3>2 DEF Interrupt, Cancelled
      <3>3. QED
        BY <3>1, <3>2
    <2>6. ASSUME NEW i \in Tasks, Start(i) PROVE [Map!AbsNext]_(Map!absVars)
      BY <2>6 DEF Start, callerVars
    <2>7. ASSUME NEW i \in Tasks, Finish(i) PROVE [Map!AbsNext]_(Map!absVars)
      <3>1. Map!AbsFinish(i)
        BY <2>7 DEF Finish, callerVars, Map!AbsFinish
      <3>2. QED
        BY <3>1 DEF Map!AbsNext
    <2>8. CASE UNCHANGED vars
      BY <2>8 DEF vars
    <2>9. QED
      BY <2>1, <2>2, <2>3, <2>4, <2>5, <2>6, <2>7, <2>8 DEF Next, CallerStep
  <1>3. QED
    BY <1>1, <1>2, AlwaysInv, PTL DEF Spec, ImplementsOrderedMap, Map!AbsSpec

=============================================================================
