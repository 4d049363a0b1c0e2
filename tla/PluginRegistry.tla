---------------------------- MODULE PluginRegistry ----------------------------
(***************************************************************************)
(* The process-wide package registry (src/cmakeless/deps/registry.py) and   *)
(* the two kinds of threads that read it: the build script, which registers *)
(* and declares packages one statement at a time, and then the resolver's   *)
(* workers, one per declared package, all at once.                          *)
(*                                                                         *)
(* Entries come from the curated list, from register() and from installed   *)
(* plugins. Plugins are discovered lazily, by the first lookup that misses, *)
(* behind a plain module-global flag that no lock protects.                 *)
(***************************************************************************)
EXTENDS Naturals

CONSTANTS
    Names,      \* package names
    BuiltIn,    \* the names of the curated list
    P,          \* how many "cmakeless.registry" entry points are installed
    Provides    \* the names that each entry point's callable produces

EntryPoints == 1 .. P

ASSUME RegistryAssumption ==
    /\ BuiltIn \subseteq Names
    /\ P \in Nat
    /\ Provides \in [EntryPoints -> SUBSET Names]

VARIABLES
    broken,     \* the entry points whose callable raises
    registry,   \* _REGISTRY: where the entry of each name comes from
    explicit,   \* the names the script has passed to register()
    loaded,     \* _plugins_loaded
    phase,      \* "script", "resolving", "failed": the script has raised
    declared,   \* the names passed to depends()
    warm,       \* whether every entry point was loaded before the pool started
    pc,         \* where the worker of each name is in registry_entry()
    at          \* the entry point that worker loads next

vars == <<broken, registry, explicit, loaded, phase, declared, warm, pc, at>>
scriptVars == <<explicit, phase, declared, warm>>

Entry == [from : {"nowhere", "builtin", "explicit", "plugin"}, point : 0 .. P]
Absent == [from |-> "nowhere", point |-> 0]
Curated == [from |-> "builtin", point |-> 0]
Explicit == [from |-> "explicit", point |-> 0]
Plugin(k) == [from |-> "plugin", point |-> k]

WorkerState == {"idle", "member", "flag", "set", "load", "get", "found", "missing", "crashed"}
Ended == {"found", "missing", "crashed"}

TypeOK ==
    /\ broken \in SUBSET EntryPoints
    /\ registry \in [Names -> Entry]
    /\ explicit \in SUBSET Names
    /\ loaded \in BOOLEAN
    /\ phase \in {"script", "resolving", "failed"}
    /\ declared \in SUBSET Names
    /\ warm \in BOOLEAN
    /\ pc \in [Names -> WorkerState]
    /\ at \in [Names -> 1 .. P + 1]

Init ==
    /\ broken \in SUBSET EntryPoints
    /\ registry = [n \in Names |-> IF n \in BuiltIn THEN Curated ELSE Absent]
    /\ explicit = {}
    /\ loaded = FALSE
    /\ phase = "script"
    /\ declared = {}
    /\ warm = FALSE
    /\ pc = [n \in Names |-> "idle"]
    /\ at = [n \in Names |-> 1]

-----------------------------------------------------------------------------
(* What loading does to the registry.                                      *)

\* Mutant: the produced entries are assigned instead of merged by setdefault.
Overwriting(k) ==
    [n \in Names |-> IF n \in Provides[k] THEN Plugin(k) ELSE registry[n]]

\* setdefault: an entry that is already there stays.
Merged(k) ==
    [n \in Names |-> IF registry[n] = Absent /\ n \in Provides[k] THEN Plugin(k) ELSE registry[n]]

\* The entry point whose entry a name gets when they are merged in order: the
\* first that produces it, unless loading breaks before or at that one.
FirstProvider(n, k) ==
    /\ n \in Provides[k]
    /\ \A j \in 1 .. k : j \notin broken
    /\ \A j \in 1 .. k - 1 : n \notin Provides[j]

\* The registry after one thread alone has run the loop to its end or to the
\* first callable that raises.
AllMerged ==
    [n \in Names |->
        IF registry[n] = Absent /\ \E k \in EntryPoints : FirstProvider(n, k)
        THEN Plugin(CHOOSE k \in EntryPoints : FirstProvider(n, k))
        ELSE registry[n]]

-----------------------------------------------------------------------------
(* The build script: one thread, one statement at a time.                  *)

\* register(): the last write wins.
Register(n) ==
    /\ phase = "script"
    /\ registry' = [registry EXCEPT ![n] = Explicit]
    /\ explicit' = explicit \cup {n}
    /\ UNCHANGED <<broken, loaded, phase, declared, warm, pc, at>>

\* Mutant: the flag is set but the entry points are only loaded by the workers.
DependsWithoutLoading(n) ==
    /\ phase = "script"
    /\ n \notin declared
    /\ declared' = declared \cup {n}
    /\ IF registry[n] # Absent \/ loaded
       THEN UNCHANGED <<registry, loaded, warm>>
       ELSE registry' = registry /\ loaded' = TRUE /\ warm' = (broken = {})
    /\ phase' = "script"
    /\ UNCHANGED <<broken, explicit, pc, at>>

\* depends() without overrides fills the metadata from the registry at once,
\* so the script's own thread runs the lookup, and loads the plugins on a miss.
\* An unknown name and a callable that raises both end the script.
Depends(n) ==
    /\ phase = "script"
    /\ n \notin declared
    /\ declared' = declared \cup {n}
    /\ IF registry[n] # Absent \/ loaded
       THEN /\ UNCHANGED <<registry, loaded, warm>>
            /\ phase' = IF registry[n] = Absent THEN "failed" ELSE "script"
       ELSE /\ registry' = AllMerged
            /\ loaded' = TRUE
            /\ warm' = (broken = {})
            /\ phase' = IF broken # {} \/ registry'[n] = Absent THEN "failed" ELSE "script"
    /\ UNCHANGED <<broken, explicit, pc, at>>

\* depends() with cmake_name= and targets= has nothing to look up.
DependsWithOverrides(n) ==
    /\ phase = "script"
    /\ n \notin declared
    /\ declared' = declared \cup {n}
    /\ UNCHANGED <<broken, registry, explicit, loaded, phase, warm, pc, at>>

\* project.build() hands every declared package to a worker of its own, which
\* looks the name up for its url template.
Resolve ==
    /\ phase = "script"
    /\ declared # {}
    /\ phase' = "resolving"
    /\ pc' = [n \in Names |-> IF n \in declared THEN "member" ELSE "idle"]
    /\ UNCHANGED <<broken, registry, explicit, loaded, declared, warm, at>>

-----------------------------------------------------------------------------
(* registry_entry(n) in the worker of n, one step per access to the shared  *)
(* dictionary or to the shared flag.                                        *)

\* if name not in _REGISTRY:
Member(n) ==
    /\ pc[n] = "member"
    /\ pc' = [pc EXCEPT ![n] = IF registry[n] = Absent THEN "flag" ELSE "get"]
    /\ UNCHANGED <<broken, registry, loaded, at, scriptVars>>

\* if _plugins_loaded: return
TestFlag(n) ==
    /\ pc[n] = "flag"
    /\ pc' = [pc EXCEPT ![n] = IF loaded THEN "get" ELSE "set"]
    /\ UNCHANGED <<broken, registry, loaded, at, scriptVars>>

\* Mutant: the thread that raises the flag leaves the loading to somebody else.
SetFlagOnly(n) ==
    /\ pc[n] = "set"
    /\ loaded' = TRUE
    /\ pc' = [pc EXCEPT ![n] = "get"]
    /\ UNCHANGED <<broken, registry, at, scriptVars>>

\* _plugins_loaded = True, before anything has been loaded.
SetFlag(n) ==
    /\ pc[n] = "set"
    /\ loaded' = TRUE
    /\ pc' = [pc EXCEPT ![n] = "load"]
    /\ UNCHANGED <<broken, registry, at, scriptVars>>

\* Mutant: the loop skips a callable that raises and never advances past it.
LoadStuck(n) ==
    /\ pc[n] = "load"
    /\ at[n] <= P
    /\ at[n] \notin broken
    /\ registry' = Merged(at[n])
    /\ at' = [at EXCEPT ![n] = @ + 1]
    /\ UNCHANGED <<broken, loaded, pc, scriptVars>>

\* One round of the loop: the callable is run and its entries are merged. An
\* exception leaves the loop, the flag and what was merged before it as it is.
LoadPoint(n) ==
    /\ pc[n] = "load"
    /\ at[n] <= P
    /\ IF at[n] \in broken
       THEN pc' = [pc EXCEPT ![n] = "crashed"] /\ UNCHANGED <<registry, at>>
       ELSE /\ registry' = Merged(at[n])
            /\ at' = [at EXCEPT ![n] = @ + 1]
            /\ UNCHANGED pc
    /\ UNCHANGED <<broken, loaded, scriptVars>>

LoadEnd(n) ==
    /\ pc[n] = "load"
    /\ at[n] = P + 1
    /\ pc' = [pc EXCEPT ![n] = "get"]
    /\ UNCHANGED <<broken, registry, loaded, at, scriptVars>>

\* return _REGISTRY.get(name); None becomes "cannot be fetched from source".
Get(n) ==
    /\ pc[n] = "get"
    /\ pc' = [pc EXCEPT ![n] = IF registry[n] = Absent THEN "missing" ELSE "found"]
    /\ UNCHANGED <<broken, registry, loaded, at, scriptVars>>

-----------------------------------------------------------------------------

ScriptStep ==
    \/ \E n \in Names : Register(n) \/ Depends(n) \/ DependsWithOverrides(n)
    \/ Resolve

WorkerStep(n) ==
    Member(n) \/ TestFlag(n) \/ SetFlag(n) \/ LoadPoint(n) \/ LoadEnd(n) \/ Get(n)

Next == ScriptStep \/ \E n \in Names : WorkerStep(n)

Spec == Init /\ [][Next]_vars

\* Every worker that can run is scheduled; the script may stop anywhere.
FairSpec == Spec /\ \A n \in Names : WF_vars(WorkerStep(n))

-----------------------------------------------------------------------------
(* Properties.                                                             *)

\* "Explicit registration always wins over auto-discovery" and a plugin never
\* replaces a curated entry; between two plugins the one discovered first wins,
\* even when several threads run the loading loop at once.
Precedence ==
    \A n \in Names :
        IF n \in explicit THEN registry[n] = Explicit
        ELSE IF n \in BuiltIn THEN registry[n] = Curated
        ELSE registry[n] # Absent =>
                 \E k \in EntryPoints : FirstProvider(n, k) /\ registry[n] = Plugin(k)

\* Names that are in the registry once loading has run undisturbed.
Known(n) == n \in explicit \cup BuiltIn \/ \E k \in EntryPoints : FirstProvider(n, k)

\* "or None for a package we do not know": with every callable working, a
\* lookup of a package that an installed plugin supplies finds it.
LookupFindsPlugins ==
    broken = {} => \A n \in Names : Known(n) => pc[n] # "missing"

\* The lookup of a known package misses in one situation only: another worker
\* has raised the flag and is still loading.
MissOnlyWhileLoading ==
    [][\A n \in Names :
          pc[n] = "get" /\ pc'[n] = "missing" /\ Known(n) =>
              \E m \in Names \ {n} : pc[m] = "load"]_vars

\* A script whose own thread has loaded the plugins, which any depends() of a
\* plugin's package without overrides does, is safe from that.
WarmRegistryNeverMisses ==
    warm => \A n \in Names : Known(n) => pc[n] # "missing"

\* Every lookup a worker begins comes to an end.
LookupsEnd == \A n \in Names : pc[n] = "member" ~> pc[n] \in Ended
=============================================================================
