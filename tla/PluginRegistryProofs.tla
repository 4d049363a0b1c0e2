------------------------- MODULE PluginRegistryProofs -------------------------
(***************************************************************************)
(* Which entry a package name ends up with does not depend on how the       *)
(* threads that load plugins interleave, for every set of packages, plugins *)
(* and broken plugins. What each loading thread has behind it is the part   *)
(* of the invariant that makes this inductive.                              *)
(***************************************************************************)
EXTENDS PluginRegistry, TLAPS

\* What a thread has already been through in its loop is in the registry, from
\* whichever source, and did not raise.
LoadedSoFar ==
    \A n \in Names : pc[n] = "load" =>
        \A k \in 1 .. at[n] - 1 :
            /\ k \notin broken
            /\ \A m \in Provides[k] : registry[m] # Absent

\* No thread is in the loop yet before it has raised the flag itself.
NotStarted ==
    /\ phase # "resolving" => \A n \in Names : pc[n] = "idle"
    /\ \A n \in Names : pc[n] \in {"idle", "member", "flag", "set"} => at[n] = 1

RegistryInv == NotStarted /\ TypeOK /\ Precedence /\ LoadedSoFar

USE RegistryAssumption DEF EntryPoints

LEMMA EntriesDiffer ==
    /\ Absent # Curated /\ Absent # Explicit
    /\ \A k \in EntryPoints : Plugin(k) # Absent
  BY DEF Absent, Curated, Explicit, Plugin

LEMMA EntryTypes ==
    /\ Absent \in Entry /\ Curated \in Entry /\ Explicit \in Entry
    /\ \A k \in EntryPoints : Plugin(k) \in Entry
  BY DEF Absent, Curated, Explicit, Plugin, Entry

\* Loading in one go, as the script's thread does, keeps what is there and adds
\* only the entries of first providers.
LEMMA AllMergedFacts ==
    ASSUME registry \in [Names -> Entry]
    PROVE  /\ AllMerged \in [Names -> Entry]
           /\ \A n \in Names : registry[n] # Absent => AllMerged[n] = registry[n]
           /\ \A n \in Names : registry[n] = Absent =>
                  \/ AllMerged[n] = Absent
                  \/ \E k \in EntryPoints : FirstProvider(n, k) /\ AllMerged[n] = Plugin(k)
  <1>1. ASSUME NEW n \in Names, \E k \in EntryPoints : FirstProvider(n, k)
        PROVE  /\ (CHOOSE k \in EntryPoints : FirstProvider(n, k)) \in EntryPoints
               /\ FirstProvider(n, CHOOSE k \in EntryPoints : FirstProvider(n, k))
    BY <1>1
  <1>2. QED
    BY <1>1, EntryTypes DEF AllMerged

LEMMA RegistryInit == Init => RegistryInv
  <1> SUFFICES ASSUME Init PROVE RegistryInv
    OBVIOUS
  <1> USE DEF Init
  <1>1. TypeOK
    <2>1. registry \in [Names -> Entry]
      BY EntryTypes
    <2>2. at \in [Names -> 1 .. P + 1]
      OBVIOUS
    <2>3. pc \in [Names -> WorkerState]
      BY DEF WorkerState
    <2>4. QED
      BY <2>1, <2>2, <2>3 DEF TypeOK
  <1>2. Precedence
    BY DEF Precedence
  <1>3. LoadedSoFar
    BY DEF LoadedSoFar
  <1>4. NotStarted
    BY DEF NotStarted
  <1>5. QED
    BY <1>1, <1>2, <1>3, <1>4 DEF RegistryInv

LEMMA RegistryStep == RegistryInv /\ [Next]_vars => RegistryInv'
  <1> SUFFICES ASSUME RegistryInv, [Next]_vars PROVE RegistryInv'
    OBVIOUS
  <1> USE DEF RegistryInv
  <1>0. NotStarted'
    <2> USE DEF NotStarted, TypeOK
    <2>1. ASSUME NEW n \in Names, Register(n) \/ Depends(n) \/ DependsWithOverrides(n)
          PROVE  NotStarted'
      BY <2>1 DEF Register, Depends, DependsWithOverrides
    <2>2. CASE Resolve
      BY <2>2 DEF Resolve
    <2>3. ASSUME NEW n \in Names, WorkerStep(n) PROVE NotStarted'
      BY <2>3 DEF WorkerStep, Member, TestFlag, SetFlag, LoadPoint, LoadEnd, Get, scriptVars
    <2>4. CASE UNCHANGED vars
      BY <2>4 DEF vars
    <2>5. QED
      BY <2>1, <2>2, <2>3, <2>4 DEF Next, ScriptStep
  <1> USE <1>0
  <1>1. ASSUME NEW n \in Names, Register(n) PROVE RegistryInv'
    <2>1. TypeOK'
      BY <1>1, EntryTypes DEF Register, TypeOK
    <2>2. Precedence'
      BY <1>1 DEF Register, TypeOK, Precedence, FirstProvider
    <2>3. LoadedSoFar'
      BY <1>1, EntriesDiffer DEF Register, TypeOK, LoadedSoFar
    <2>4. QED
      BY <2>1, <2>2, <2>3
  <1>2. ASSUME NEW n \in Names, Depends(n) PROVE RegistryInv'
    <2>1. CASE registry[n] # Absent \/ loaded
      <3>1. TypeOK'
        BY <1>2, <2>1 DEF Depends, TypeOK
      <3>2. Precedence' /\ LoadedSoFar'
        BY <1>2, <2>1 DEF Depends, Precedence, LoadedSoFar, FirstProvider
      <3>3. QED
        BY <3>1, <3>2
    <2>2. CASE ~(registry[n] # Absent \/ loaded)
      <3>1. registry' = AllMerged /\ UNCHANGED <<broken, explicit, pc, at>>
        BY <1>2, <2>2 DEF Depends
      <3>2. TypeOK'
        BY <1>2, <2>2, <3>1, AllMergedFacts DEF Depends, TypeOK
      <3>3. Precedence'
        <4> SUFFICES ASSUME NEW m \in Names
                     PROVE  IF m \in explicit THEN AllMerged[m] = Explicit
                            ELSE IF m \in BuiltIn THEN AllMerged[m] = Curated
                            ELSE AllMerged[m] # Absent =>
                                     \E k \in EntryPoints :
                                         FirstProvider(m, k) /\ AllMerged[m] = Plugin(k)
          BY <3>1 DEF Precedence, FirstProvider
        <4>1. registry \in [Names -> Entry]
          BY DEF TypeOK
        <4>2. QED
          BY <4>1, AllMergedFacts, EntriesDiffer DEF Precedence
      <3>4. LoadedSoFar'
        BY <3>1, AllMergedFacts DEF LoadedSoFar, TypeOK
      <3>5. QED
        BY <3>2, <3>3, <3>4
    <2>3. QED
      BY <2>1, <2>2
  <1>3. ASSUME NEW n \in Names, DependsWithOverrides(n) PROVE RegistryInv'
    BY <1>3 DEF DependsWithOverrides, TypeOK, Precedence, LoadedSoFar, FirstProvider
  <1>4. CASE Resolve
    <2>1. TypeOK'
      BY <1>4 DEF Resolve, TypeOK, WorkerState
    <2>2. Precedence'
      BY <1>4 DEF Resolve, Precedence, FirstProvider
    <2>3. LoadedSoFar'
      BY <1>4 DEF Resolve, LoadedSoFar
    <2>4. QED
      BY <2>1, <2>2, <2>3
  <1>5. ASSUME NEW n \in Names, Member(n) \/ TestFlag(n) \/ LoadEnd(n) \/ Get(n)
        PROVE  RegistryInv'
    <2> USE <1>5 DEF Member, TestFlag, LoadEnd, Get, scriptVars
    <2>1. TypeOK'
      BY DEF TypeOK, WorkerState
    <2>2. Precedence'
      BY DEF Precedence, FirstProvider
    <2>3. LoadedSoFar'
      BY DEF LoadedSoFar, TypeOK
    <2>4. QED
      BY <2>1, <2>2, <2>3
  <1>6. ASSUME NEW n \in Names, SetFlag(n) PROVE RegistryInv'
    <2> USE <1>6 DEF SetFlag, scriptVars
    <2>1. TypeOK'
      BY DEF TypeOK, WorkerState
    <2>2. Precedence'
      BY DEF Precedence, FirstProvider
    <2>3. LoadedSoFar'
      BY DEF LoadedSoFar, NotStarted, TypeOK
    <2>4. QED
      BY <2>1, <2>2, <2>3
  <1>7. ASSUME NEW n \in Names, LoadPoint(n) PROVE RegistryInv'
    <2> DEFINE k == at[n]
    <2>1. k \in EntryPoints
      BY <1>7 DEF LoadPoint, TypeOK
    <2>2. CASE k \in broken
      BY <1>7, <2>2 DEF LoadPoint, scriptVars, TypeOK, WorkerState, Precedence, LoadedSoFar,
                        FirstProvider
    <2>3. CASE k \notin broken
      <3>1. /\ registry' = Merged(k)
            /\ at' = [at EXCEPT ![n] = k + 1]
            /\ UNCHANGED <<broken, explicit, pc>>
        BY <1>7, <2>3 DEF LoadPoint, scriptVars
      <3>2. TypeOK'
        BY <1>7, <2>1, <2>3, <3>1, EntryTypes DEF LoadPoint, scriptVars, TypeOK, Merged
      <3>3. ASSUME NEW m \in Names, registry[m] = Absent, m \in Provides[k]
            PROVE  FirstProvider(m, k)
        BY <1>7, <2>1, <2>3, <3>3 DEF LoadPoint, LoadedSoFar, FirstProvider, TypeOK
      <3>4. Precedence'
        BY <2>1, <3>1, <3>3, EntriesDiffer DEF Precedence, FirstProvider, Merged, TypeOK
      <3>5. LoadedSoFar'
        BY <1>7, <2>1, <2>3, <3>1, EntriesDiffer DEF LoadPoint, LoadedSoFar, Merged, TypeOK
      <3>6. QED
        BY <3>2, <3>4, <3>5
    <2>4. QED
      BY <2>2, <2>3
  <1>8. CASE UNCHANGED vars
    BY <1>8 DEF vars, TypeOK, Precedence, LoadedSoFar, FirstProvider
  <1>9. QED
    BY <1>1, <1>2, <1>3, <1>4, <1>5, <1>6, <1>7, <1>8 DEF Next, ScriptStep, WorkerStep

\* Explicit registrations win over everything, curated entries over plugins, and
\* of two plugins the one discovered first, whatever the threads do.
THEOREM PrecedenceHolds == Spec => [](TypeOK /\ Precedence)
  BY RegistryInit, RegistryStep, PTL DEF Spec, RegistryInv

-----------------------------------------------------------------------------
(* What a lookup finds.                                                    *)

\* Entries that loading would still bring are on their way: whoever has raised
\* the flag in a script that goes on is in the loop until they are there.
LoadingIsOpen ==
    phase # "failed" /\ loaded =>
        \A n \in Names : Known(n) /\ registry[n] = Absent =>
            \E m \in Names : pc[m] = "load"

\* A thread that has given up looking for plugins has seen the entry or the flag.
GetIsInformed ==
    \A n \in Names :
        /\ pc[n] = "load" => loaded
        /\ pc[n] = "get" => loaded \/ registry[n] # Absent

WarmIsComplete ==
    warm => \A n \in Names : Known(n) => registry[n] # Absent /\ pc[n] # "missing"

LookupInv == RegistryInv /\ LoadingIsOpen /\ GetIsInformed /\ WarmIsComplete

LEMMA LookupInit == Init => LookupInv
  <1> SUFFICES ASSUME Init PROVE LookupInv
    OBVIOUS
  <1>1. LoadingIsOpen /\ GetIsInformed /\ WarmIsComplete
    BY DEF Init, LoadingIsOpen, GetIsInformed, WarmIsComplete
  <1> QED
    BY <1>1, RegistryInit DEF LookupInv

\* Explicit and curated names are in the registry from the beginning; what
\* else is known comes from a first provider.
LEMMA KnownFacts ==
    ASSUME RegistryInv, NEW n \in Names, Known(n), registry[n] = Absent
    PROVE  \E k \in EntryPoints : FirstProvider(n, k)
  BY EntriesDiffer DEF RegistryInv, Precedence, Known

\* Nothing is missing after one thread alone has loaded the plugins.
LEMMA AllMergedKnowsAll ==
    ASSUME RegistryInv, NEW n \in Names, Known(n)
    PROVE  AllMerged[n] # Absent
  <1>1. CASE registry[n] # Absent
    BY <1>1, AllMergedFacts DEF RegistryInv, TypeOK
  <1>2. CASE registry[n] = Absent
    <2> DEFINE k == CHOOSE j \in EntryPoints : FirstProvider(n, j)
    <2>1. \E j \in EntryPoints : FirstProvider(n, j)
      BY <1>2, KnownFacts
    <2>2. k \in EntryPoints
      BY <2>1
    <2>3. AllMerged[n] = Plugin(k)
      BY <1>2, <2>1 DEF AllMerged
    <2> QED
      BY <2>2, <2>3, EntriesDiffer
  <1> QED
    BY <1>1, <1>2

\* A loader that has come to its end, or to a callable that raises, has brought
\* every name that is known.
LEMMA LoaderHasLoaded ==
    ASSUME RegistryInv, NEW m \in Names, pc[m] = "load", at[m] = P + 1 \/ at[m] \in broken,
           NEW n \in Names, Known(n)
    PROVE  registry[n] # Absent
  <1> SUFFICES ASSUME registry[n] = Absent PROVE FALSE
    OBVIOUS
  <1>1. PICK k \in EntryPoints : FirstProvider(n, k)
    BY KnownFacts
  <1>2. at[m] \in 1 .. P + 1
    BY DEF RegistryInv, TypeOK
  <1>3. k \notin 1 .. at[m] - 1
    BY <1>1 DEF RegistryInv, LoadedSoFar, FirstProvider
  <1>4. at[m] \in 1 .. k
    BY <1>2, <1>3
  <1> QED
    BY <1>1, <1>4 DEF FirstProvider

LEMMA LookupStep == LookupInv /\ [Next]_vars => LookupInv'
  <1> SUFFICES ASSUME LookupInv, [Next]_vars PROVE LookupInv'
    OBVIOUS
  <1>0. RegistryInv'
    BY RegistryStep DEF LookupInv
  <1>t. TypeOK /\ NotStarted
    BY DEF LookupInv, RegistryInv
  <1> SUFFICES LoadingIsOpen' /\ GetIsInformed' /\ WarmIsComplete'
    BY <1>0 DEF LookupInv
  <1>1. ASSUME NEW n \in Names, Register(n)
        PROVE  LoadingIsOpen' /\ GetIsInformed' /\ WarmIsComplete'
    <2> USE <1>1, <1>t, EntriesDiffer DEF Register, TypeOK, NotStarted
    <2>1. /\ registry'[n] = Explicit
          /\ \A m \in Names : m # n => registry'[m] = registry[m] /\ (Known(m)' <=> Known(m))
      BY DEF Known, FirstProvider
    <2>2. LoadingIsOpen'
      BY <2>1 DEF LookupInv, LoadingIsOpen
    <2>3. GetIsInformed' /\ WarmIsComplete'
      BY <2>1 DEF LookupInv, GetIsInformed, WarmIsComplete
    <2> QED
      BY <2>2, <2>3
  <1>2. ASSUME NEW n \in Names, Depends(n)
        PROVE  LoadingIsOpen' /\ GetIsInformed' /\ WarmIsComplete'
    <2>1. /\ phase = "script" /\ UNCHANGED <<broken, explicit, pc>>
          /\ \A m \in Names : pc[m] = "idle" /\ (Known(m)' <=> Known(m))
      BY <1>2, <1>t DEF Depends, NotStarted, Known, FirstProvider
    <2>2. CASE registry[n] # Absent \/ loaded
      BY <1>2, <2>1, <2>2
      DEF Depends, LookupInv, LoadingIsOpen, GetIsInformed, WarmIsComplete
    <2>3. CASE ~(registry[n] # Absent \/ loaded)
      <3>1. registry' = AllMerged
        BY <1>2, <2>3 DEF Depends
      <3>2. \A m \in Names : Known(m)' => registry'[m] # Absent
        BY <2>1, <3>1, AllMergedKnowsAll DEF LookupInv
      <3> QED
        BY <2>1, <3>2 DEF LoadingIsOpen, GetIsInformed, WarmIsComplete
    <2> QED
      BY <2>2, <2>3
  <1>3. ASSUME NEW n \in Names, DependsWithOverrides(n)
        PROVE  LoadingIsOpen' /\ GetIsInformed' /\ WarmIsComplete'
    BY <1>3 DEF DependsWithOverrides, LookupInv, LoadingIsOpen, GetIsInformed, WarmIsComplete,
       Known, FirstProvider
  <1>4. CASE Resolve
    BY <1>4, <1>t
    DEF Resolve, NotStarted, LookupInv, LoadingIsOpen, GetIsInformed, WarmIsComplete, Known,
        FirstProvider
  <1>5. ASSUME NEW n \in Names, WorkerStep(n)
        PROVE  LoadingIsOpen' /\ GetIsInformed' /\ WarmIsComplete'
    <2> USE <1>t DEF TypeOK
    <2>1. /\ UNCHANGED <<broken, explicit, phase, warm>>
          /\ \A m \in Names : m # n => pc'[m] = pc[m]
          /\ \A m \in Names : Known(m)' <=> Known(m)
          /\ loaded => loaded'
      BY <1>5 DEF WorkerStep, Member, TestFlag, SetFlag, LoadPoint, LoadEnd, Get, scriptVars,
         Known, FirstProvider
    <2>2. \A m \in Names : registry[m] # Absent => registry'[m] # Absent
      BY <1>5 DEF WorkerStep, Member, TestFlag, SetFlag, LoadPoint, LoadEnd, Get, Merged
    <2>3. GetIsInformed'
      <3>1. pc'[n] = "load" => loaded'
        BY <1>5 DEF WorkerStep, Member, TestFlag, SetFlag, LoadPoint, LoadEnd, Get, LookupInv,
           GetIsInformed
      <3>2. pc'[n] = "get" => loaded' \/ registry'[n] # Absent
        BY <1>5 DEF WorkerStep, Member, TestFlag, SetFlag, LoadPoint, LoadEnd, Get, LookupInv,
           GetIsInformed
      <3> QED
        BY <2>1, <2>2, <3>1, <3>2 DEF LookupInv, GetIsInformed
    <2>4. LoadingIsOpen'
      <3>1. CASE pc[n] # "load"
        <4>1. pc'[n] = "load" \/ loaded' = loaded
          BY <1>5, <3>1 DEF WorkerStep, Member, TestFlag, SetFlag, LoadPoint, LoadEnd, Get
        <4> QED
          BY <2>1, <2>2, <3>1, <4>1 DEF LookupInv, LoadingIsOpen
      <3>2. CASE pc[n] = "load" /\ pc'[n] = "load"
        BY <3>2 DEF LoadingIsOpen
      <3>3. CASE pc[n] = "load" /\ pc'[n] # "load"
        <4>1. at[n] = P + 1 \/ at[n] \in broken
          BY <1>5, <3>3 DEF WorkerStep, Member, TestFlag, SetFlag, LoadPoint, LoadEnd, Get
        <4>2. \A m \in Names : Known(m) => registry[m] # Absent
          BY <3>3, <4>1, LoaderHasLoaded DEF LookupInv
        <4> QED
          BY <2>1, <2>2, <4>2 DEF LoadingIsOpen
      <3> QED
        BY <3>1, <3>2, <3>3
    <2>5. WarmIsComplete'
      <3>1. pc'[n] = "missing" => pc[n] = "missing" \/ registry[n] = Absent
        BY <1>5 DEF WorkerStep, Member, TestFlag, SetFlag, LoadPoint, LoadEnd, Get
      <3> QED
        BY <2>1, <2>2, <3>1 DEF LookupInv, WarmIsComplete
    <2> QED
      BY <2>3, <2>4, <2>5
  <1>6. CASE UNCHANGED vars
    BY <1>6
    DEF vars, LookupInv, LoadingIsOpen, GetIsInformed, WarmIsComplete, Known, FirstProvider
  <1> QED
    BY <1>1, <1>2, <1>3, <1>4, <1>5, <1>6 DEF Next, ScriptStep

LEMMA LookupHolds == Spec => []LookupInv
  BY LookupInit, LookupStep, PTL DEF Spec

\* A script whose own thread has discovered the plugins (_load_plugins within a
\* depends() without overrides) has every known package found by the workers.
THEOREM WarmLookupsSucceed == Spec => []WarmRegistryNeverMisses
  <1>1. LookupInv => WarmRegistryNeverMisses
    BY DEF LookupInv, WarmIsComplete, WarmRegistryNeverMisses
  <1> QED
    BY <1>1, LookupHolds, PTL

\* The unprotected flag _plugins_loaded has one consequence only: a lookup of a
\* known package may miss while another worker is still in the loading loop.
THEOREM MissesNeedALoader == Spec => MissOnlyWhileLoading
  <1>1. ASSUME LookupInv, [Next]_vars,
               NEW n \in Names, pc[n] = "get", pc'[n] = "missing", Known(n)
        PROVE  \E m \in Names \ {n} : pc[m] = "load"
    <2>1. registry[n] = Absent
      <3>1. CASE ScriptStep
        BY <1>1, <3>1
        DEF ScriptStep, Register, Depends, DependsWithOverrides, Resolve, LookupInv, RegistryInv,
            NotStarted
      <3>2. ASSUME NEW m \in Names, WorkerStep(m) PROVE registry[n] = Absent
        BY <1>1, <3>2
        DEF WorkerStep, Member, TestFlag, SetFlag, LoadPoint, LoadEnd, Get, LookupInv, RegistryInv,
            TypeOK
      <3>3. CASE UNCHANGED vars
        BY <1>1, <3>3 DEF vars
      <3> QED
        BY <1>1, <3>1, <3>2, <3>3 DEF Next
    <2>2. loaded /\ phase # "failed"
      BY <1>1, <2>1 DEF LookupInv, GetIsInformed, RegistryInv, NotStarted
    <2>3. PICK m \in Names : pc[m] = "load"
      BY <1>1, <2>1, <2>2 DEF LookupInv, LoadingIsOpen
    <2> QED
      BY <1>1, <2>3
  <1>2. LookupInv /\ [Next]_vars =>
            [\A n \in Names : pc[n] = "get" /\ pc'[n] = "missing" /\ Known(n) =>
                \E m \in Names \ {n} : pc[m] = "load"]_vars
    BY <1>1
  <1> QED
    BY <1>2, LookupHolds, PTL DEF Spec, MissOnlyWhileLoading

=============================================================================
