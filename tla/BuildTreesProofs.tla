--------------------------- MODULE BuildTreesProofs ---------------------------
(***************************************************************************)
(* Proofs about BuildTrees, for any presets, build types, scripts and       *)
(* numbers of runs. What a run claims at its end about a tree is true from  *)
(* the moment in which CMake has configured it, and stays true because one  *)
(* thread works on each tree and because a run that builds has one tree.    *)
(***************************************************************************)
EXTENDS BuildTrees, TLAPS

WorkStates ==
    {"idle", "queued", "cmake", "publishing", "copying", "ok", "failed", "cancelled"}

Tree == [generator : Generators \cup {None}, cache : Settings, module : Module \cup {None}]

BuildTypeOK ==
    /\ script \in Scripts
    /\ tree \in [Trees -> Tree]
    /\ root \in [text : Export \cup {None}, rest : Export \cup {None}]
    /\ phase \in {"idle", "configuring", "closing", "building", "installing"}
    /\ verb \in {"configure", "presets", "build", "test"}
    /\ model \in ProjectModel \cup {None}
    /\ asked \in SUBSET Trees
    /\ work \in [Trees -> WorkStates]
    /\ end \in {"none", "configured", "tested", "built"}

Busy == phase # "idle"

\* A run has a frozen script, that of the script as it still is, and trees that
\* this script has. It has not succeeded yet.
RunKnowsScript ==
    Busy \/ Succeeded =>
        /\ \E b \in BOOLEAN : model = Frozen(b)
        /\ asked \subseteq Defined(model) \cup {Plain}

RunIsOpen == Busy => ~Succeeded

\* Only asked trees are worked on, and none between runs.
OnlyAskedWork ==
    /\ ~Busy => work = AllIdle
    /\ \A t \in Trees \ asked : work[t] = "idle"

\* A run that builds has one tree, which is configured by then.
OneTreeBuilds ==
    /\ Busy /\ verb \in {"build", "test"} => \E t \in Trees : asked = {t}
    /\ phase \in {"building", "installing"} =>
          verb \in {"build", "test"} /\ \A t \in asked : work[t] = "ok"
    /\ phase = "installing" => verb = "build"

\* CMake has configured t in this run, or in the one that has just succeeded.
HasRun(t) ==
    IF Busy THEN work[t] \in {"publishing", "copying", "ok"} ELSE Succeeded /\ t \in asked

CachesAsAsked ==
    \A t \in asked : HasRun(t) =>
        /\ t # Plain \/ model.conan => tree[t].cache.type = BuildType(t)
        /\ Requests(t) => tree[t].cache.sanitize

IsPublished(t) == IF Busy THEN work[t] = "ok" ELSE Succeeded

\* With one tree there is one writer of the file in the root, if any.
RootFollows ==
    \A t \in Trees : asked = {t} =>
        /\ Busy /\ work[t] = "copying" => root = NoFile
        /\ IsPublished(t) /\ HasExport(t) => root = Text(Exported(t))

ModulesAreFresh ==
    phase = "installing" \/ end \in {"built", "tested"} =>
        \A t \in asked : tree[t].module = Compiled(t)

Inv ==
    /\ BuildTypeOK
    /\ RunKnowsScript
    /\ RunIsOpen
    /\ OnlyAskedWork
    /\ OneTreeBuilds
    /\ CachesAsAsked
    /\ RootFollows
    /\ ModulesAreFresh
    /\ PresetModuleIsFresh
-----------------------------------------------------------------------------
(* Types.                                                                  *)

LEMMA BlankTrees == NoTrees \in [Trees -> Tree]
  BY DEF NoTrees, Blank, Settings, Tree

LEMMA FrozenType ==
    ASSUME BuildTypeOK, NEW b \in BOOLEAN
    PROVE  Frozen(b) \in ProjectModel
  <1>1. script \in Script
    BY BuildTreesAssumption DEF BuildTypeOK
  <1>2. SanitizePreset \in PresetModel
    BY BuildTreesAssumption DEF SanitizePreset, PresetModel
  <1>3. \A p \in Presets : script.presets[p] \in PresetModel \cup {None}
    BY <1>1 DEF Script
  <1> QED
    BY <1>1, <1>2, <1>3 DEF Frozen, ProjectModel, Script

\* What is known of a run's model and of the presets that it was asked for.
LEMMA ModelFacts ==
    ASSUME Inv, Busy \/ Succeeded
    PROVE  /\ model \in ProjectModel
           /\ model.conan = script.conan
           /\ \A t \in asked : t # Plain => t \in AllPresets /\ model.presets[t] \in PresetModel
           /\ \A t \in asked : t # Plain => BuildType(t) \in BuildTypes
           /\ BuildType(Plain) \in BuildTypes
  <1>1. PICK b \in BOOLEAN : model = Frozen(b)
    BY DEF Inv, RunKnowsScript
  <1>2. model \in ProjectModel
    BY <1>1, FrozenType DEF Inv
  <1>3. model.conan = script.conan
    BY <1>1 DEF Frozen
  <1>4. \A t \in asked : t # Plain => t \in AllPresets /\ model.presets[t] \in PresetModel
    BY <1>2 DEF Inv, RunKnowsScript, Defined, ProjectModel
  <1>5. \A t \in asked : t # Plain => BuildType(t) \in BuildTypes
    BY <1>4 DEF BuildType, PresetModel
  <1>6. BuildType(Plain) \in BuildTypes
    BY <1>2, BuildTreesAssumption DEF BuildType, ProjectModel
  <1> QED
    BY <1>2, <1>3, <1>4, <1>5, <1>6

LEMMA CacheTypes ==
    ASSUME Inv, NEW t \in Trees
    PROVE  /\ tree[t].cache \in Settings
           /\ Effective(t) \in Settings
           /\ Exported(t) \in Export
           /\ Compiled(t) \in Module
  <1>1. tree[t].cache \in Settings
    BY DEF Inv, BuildTypeOK, Tree
  <1>2. Effective(t) \in Settings
    BY <1>1, BuildTreesAssumption DEF Effective, Settings, SanitizerUnion
  <1>3. script.sources \in Sources
    BY BuildTreesAssumption DEF Inv, BuildTypeOK, Script
  <1> QED
    BY <1>1, <1>2, <1>3 DEF Exported, Export, Compiled, Module

LEMMA ConfiguredType ==
    ASSUME Inv, Busy, NEW t \in asked
    PROVE  /\ Configured(t) \in Settings
           /\ Generator(t) \in Generators
           /\ Reconfigured(t) \in [Trees -> Tree]
  <1>1. t \in Trees /\ tree[t].cache \in Settings
    BY CacheTypes DEF Inv, BuildTypeOK
  <1>2. BuildType(t) \in BuildTypes /\ model \in ProjectModel
    BY ModelFacts
  <1>3. Requests(t) \in BOOLEAN
    BY ModelFacts DEF Requests, PresetModel
  <1>4. Configured(t) \in Settings
    BY <1>1, <1>2, <1>3 DEF Configured, Settings, ProjectModel
  <1>5. Generator(t) \in Generators
    BY <1>1, <1>2, BuildTreesAssumption DEF Generator, ProjectModel, Inv, BuildTypeOK, Tree
  <1> QED
    BY <1>1, <1>4, <1>5 DEF Reconfigured, Inv, BuildTypeOK, Tree

-----------------------------------------------------------------------------
(* One lemma per kind of step.                                             *)

LEMMA InitInv == ASSUME Init PROVE Inv
  <1> USE DEF Init
  <1>1. BuildTypeOK
    BY BlankTrees DEF BuildTypeOK, NoFile, Text, AllIdle, WorkStates
  <1>2. RunKnowsScript /\ RunIsOpen /\ OnlyAskedWork /\ OneTreeBuilds
    BY DEF RunKnowsScript, RunIsOpen, OnlyAskedWork, OneTreeBuilds, Busy, Succeeded, AllIdle
  <1>3. CachesAsAsked /\ RootFollows /\ ModulesAreFresh /\ PresetModuleIsFresh
    BY DEF CachesAsAsked, RootFollows, ModulesAreFresh, PresetModuleIsFresh, Busy, Succeeded,
       IsPublished
  <1> QED
    BY <1>1, <1>2, <1>3 DEF Inv

\* A run that has ended without success says nothing.
LEMMA NothingToSay ==
    ASSUME BuildTypeOK', phase' = "idle", end' = "none", asked' = {}, work' = AllIdle
    PROVE  Inv'
  <1>1. RunKnowsScript' /\ RunIsOpen' /\ OnlyAskedWork' /\ OneTreeBuilds'
    BY DEF RunKnowsScript, RunIsOpen, OnlyAskedWork, OneTreeBuilds, Busy, Succeeded, AllIdle
  <1>2. CachesAsAsked' /\ RootFollows' /\ ModulesAreFresh' /\ PresetModuleIsFresh'
    BY DEF CachesAsAsked, RootFollows, ModulesAreFresh, PresetModuleIsFresh, Busy, Succeeded,
       IsPublished
  <1> QED
    BY <1>1, <1>2 DEF Inv

LEMMA UserInv == ASSUME Inv, UserStep PROVE Inv'
  <1>1. Forget /\ phase = "idle" /\ root' = root /\ script' \in Scripts
    BY DEF UserStep, Edit, Clean, fileVars, Inv, BuildTypeOK
  <1>2. tree' = tree \/ tree' = NoTrees
    BY DEF UserStep, Edit, Clean, fileVars
  <1>3. work' = AllIdle
    BY <1>1 DEF Forget, Inv, OnlyAskedWork, Busy
  <1>4. BuildTypeOK'
    BY <1>1, <1>2, BlankTrees DEF Inv, BuildTypeOK, Forget
  <1> QED
    BY <1>1, <1>3, <1>4, NothingToSay DEF Forget

LEMMA StopInv ==
    ASSUME Inv, EndRun("none"), UNCHANGED <<script, root>>,
           tree' \in [Trees -> Tree]
    PROVE  Inv'
  <1>1. BuildTypeOK'
    BY DEF Inv, BuildTypeOK, EndRun, AllIdle, WorkStates
  <1> QED
    BY <1>1, NothingToSay DEF EndRun

LEMMA BeginInv ==
    ASSUME Inv, NEW v \in {"configure", "presets", "build", "test"}, NEW b \in BOOLEAN,
           NEW ts \in SUBSET Trees, Begin(v, b, ts),
           ts \subseteq Defined(Frozen(b)) \cup {Plain},
           v # "presets" => \E t \in Trees : ts = {t}
    PROVE  Inv'
  <1>1. BuildTypeOK'
    BY FrozenType DEF Begin, Inv, BuildTypeOK, WorkStates, fileVars
  <1>2. RunKnowsScript'
    BY DEF Begin, RunKnowsScript, Frozen, Defined
  <1>3. RunIsOpen' /\ OnlyAskedWork' /\ OneTreeBuilds'
    BY DEF Begin, RunIsOpen, OnlyAskedWork, OneTreeBuilds, Busy, Succeeded
  <1>4. CachesAsAsked' /\ RootFollows' /\ ModulesAreFresh' /\ PresetModuleIsFresh'
    BY DEF Begin, CachesAsAsked, RootFollows, ModulesAreFresh, PresetModuleIsFresh, HasRun, Busy,
       Succeeded, IsPublished
  <1> QED
    BY <1>1, <1>2, <1>3, <1>4 DEF Inv

LEMMA StartInv == ASSUME Inv, StartStep PROVE Inv'
  <1>1. ASSUME NEW v \in {"configure", "build", "test"}, NEW t \in Trees, NEW b \in BOOLEAN,
               Start(v, t, b)
        PROVE  Inv'
    BY <1>1, BeginInv DEF Start
  <1>2. ASSUME NEW b \in BOOLEAN, StartPresets(b)
        PROVE  Inv'
    <2> DEFINE ps == Defined(Frozen(b))
               ts == IF ps = {} THEN {Plain} ELSE ps
    <2>1. ts \subseteq Trees /\ ts \subseteq ps \cup {Plain}
      BY DEF Defined, Trees
    <2>2. Begin("presets", b, ts)
      BY <1>2 DEF StartPresets
    <2> HIDE DEF ts
    <2> QED
      BY <2>1, <2>2, BeginInv
  <1> QED
    BY <1>1, <1>2 DEF StartStep

-----------------------------------------------------------------------------
(* Configuring: what a thread does to its own tree, and to the others.      *)

\* A thread that goes on works on an asked tree, and the run is not building.
LEMMA WorkFacts ==
    ASSUME Inv, NEW t \in Trees, NEW from \in WorkStates, NEW to \in WorkStates,
           from # "idle", from # "ok", Works(t, from, to),
           phase' = phase, end' = end, asked' = asked, verb' = verb
    PROVE  /\ t \in asked /\ Busy /\ Busy' /\ end = "none"
           /\ phase \notin {"building", "installing"}
           /\ work' \in [Trees -> WorkStates]
           /\ work'[t] = to
           /\ \A u \in Trees : u # t => work'[u] = work[u]
           /\ RunIsOpen' /\ OnlyAskedWork' /\ OneTreeBuilds'
           /\ PresetModuleIsFresh'
  <1>1. t \in asked /\ Busy /\ Busy' /\ end = "none" /\ phase \notin {"building", "installing"}
    BY DEF Works, Inv, OnlyAskedWork, Busy, RunIsOpen, Succeeded
  <1>2. /\ work' \in [Trees -> WorkStates]
        /\ work'[t] = to
        /\ \A u \in Trees : u # t => work'[u] = work[u]
    BY DEF Works, Inv, BuildTypeOK
  <1>3. RunIsOpen' /\ OnlyAskedWork' /\ OneTreeBuilds' /\ PresetModuleIsFresh'
    BY <1>1, <1>2 DEF Inv, RunIsOpen, OnlyAskedWork, OneTreeBuilds, PresetModuleIsFresh, Busy,
       Succeeded
  <1> QED
    BY <1>1, <1>2, <1>3

\* Steps in which a thread writes nothing.
LEMMA QuietWorkInv ==
    ASSUME Inv, NEW t \in Trees, NEW from \in {"queued", "cmake"}, NEW to \in {"cmake", "failed"},
           Works(t, from, to), UNCHANGED <<script, fileVars, runVars, end>>
    PROVE  Inv'
  <1> USE DEF fileVars, runVars
  <1>1. /\ t \in asked /\ Busy /\ Busy' /\ end = "none" /\ work' \in [Trees -> WorkStates]
        /\ phase \notin {"building", "installing"} /\ work'[t] = to
        /\ \A u \in Trees : u # t => work'[u] = work[u]
        /\ RunIsOpen' /\ OnlyAskedWork' /\ OneTreeBuilds' /\ PresetModuleIsFresh'
    BY WorkFacts DEF WorkStates
  <1>2. BuildTypeOK'
    BY <1>1 DEF Inv, BuildTypeOK
  <1>3. RunKnowsScript'
    BY <1>1 DEF Inv, RunKnowsScript, Busy, Succeeded, Frozen, Defined
  <1>4. CachesAsAsked'
    BY <1>1 DEF Inv, BuildTypeOK, CachesAsAsked, HasRun, BuildType, Requests
  <1>5. RootFollows'
    BY <1>1 DEF Inv, BuildTypeOK, RootFollows, IsPublished, Exported, HasExport, Effective, SanitizerUnion,
       Defined
  <1>6. ModulesAreFresh'
    BY <1>1 DEF ModulesAreFresh
  <1> QED
    BY <1>1, <1>2, <1>3, <1>4, <1>5, <1>6 DEF Inv

\* CMake sets the cache of one tree, whether it then succeeds or fails.
LEMMA CacheInv ==
    ASSUME Inv, NEW t \in Trees, NEW to \in {"publishing", "failed"}, Works(t, "cmake", to),
           tree' = Reconfigured(t),
           UNCHANGED <<script, root, runVars, end>>
    PROVE  Inv'
  <1> USE DEF runVars
  <1>1. /\ t \in asked /\ Busy /\ Busy' /\ end = "none" /\ work' \in [Trees -> WorkStates]
        /\ phase \notin {"building", "installing"} /\ work'[t] = to
        /\ \A u \in Trees : u # t => work'[u] = work[u]
        /\ RunIsOpen' /\ OnlyAskedWork' /\ OneTreeBuilds' /\ PresetModuleIsFresh'
    BY WorkFacts DEF WorkStates
  <1>2. /\ tree' \in [Trees -> Tree]
        /\ t # Plain \/ model.conan => Configured(t).type = BuildType(t)
        /\ Requests(t) => Configured(t).sanitize
    BY <1>1, ConfiguredType DEF Configured
  <1>3. /\ tree'[t].cache = Configured(t)
        /\ \A u \in Trees : u # t => tree'[u] = tree[u]
    BY DEF Inv, BuildTypeOK, Reconfigured
  <1>4. BuildTypeOK'
    BY <1>1, <1>2 DEF Inv, BuildTypeOK
  <1>5. RunKnowsScript'
    BY <1>1 DEF Inv, RunKnowsScript, Busy, Succeeded, Frozen, Defined
  <1>6. CachesAsAsked'
    <2> SUFFICES ASSUME NEW u \in asked, HasRun(u)'
                 PROVE  /\ u # Plain \/ model.conan => tree'[u].cache.type = BuildType(u)
                        /\ Requests(u) => tree'[u].cache.sanitize
      BY DEF CachesAsAsked, BuildType, Requests
    <2>1. u \in Trees
      BY DEF Inv, BuildTypeOK
    <2>2. CASE u = t
      BY <1>2, <1>3, <2>2
    <2>3. CASE u # t
      <3>1. HasRun(u)
        BY <1>1, <2>1, <2>3 DEF HasRun
      <3> QED
        BY <1>3, <2>1, <2>3, <3>1 DEF Inv, CachesAsAsked
    <2> QED
      BY <2>2, <2>3
  <1>7. RootFollows'
    <2> SUFFICES ASSUME NEW u \in Trees, asked = {u}
                 PROVE  ~(Busy /\ work[u] = "copying")' /\ ~IsPublished(u)'
      BY DEF RootFollows
    <2> QED
      BY <1>1 DEF IsPublished
  <1>8. ModulesAreFresh'
    BY <1>1 DEF ModulesAreFresh
  <1> QED
    BY <1>1, <1>4, <1>5, <1>6, <1>7, <1>8 DEF Inv

\* A tree without an export leaves the file in the root to whoever wrote it.
LEMMA PublishNothingInv == ASSUME Inv, NEW t \in Trees, PublishNothing(t) PROVE Inv'
  <1> USE DEF fileVars, runVars, PublishNothing
  <1>1. /\ t \in asked /\ Busy /\ Busy' /\ end = "none" /\ work' \in [Trees -> WorkStates]
        /\ phase \notin {"building", "installing"} /\ work'[t] = "ok"
        /\ \A u \in Trees : u # t => work'[u] = work[u]
        /\ RunIsOpen' /\ OnlyAskedWork' /\ OneTreeBuilds' /\ PresetModuleIsFresh'
    BY WorkFacts DEF WorkStates
  <1>2. BuildTypeOK'
    BY <1>1 DEF Inv, BuildTypeOK
  <1>3. RunKnowsScript'
    BY <1>1 DEF Inv, RunKnowsScript, Busy, Succeeded, Frozen, Defined
  <1>4. CachesAsAsked'
    BY <1>1 DEF Inv, BuildTypeOK, CachesAsAsked, HasRun, BuildType, Requests, Works
  <1>5. RootFollows'
    BY <1>1 DEF RootFollows, HasExport
  <1>6. ModulesAreFresh'
    BY <1>1 DEF ModulesAreFresh
  <1> QED
    BY <1>1, <1>2, <1>3, <1>4, <1>5, <1>6 DEF Inv

LEMMA TruncateInv == ASSUME Inv, NEW t \in Trees, Truncate(t) PROVE Inv'
  <1> USE DEF runVars, Truncate
  <1>1. /\ t \in asked /\ Busy /\ Busy' /\ end = "none" /\ work' \in [Trees -> WorkStates]
        /\ phase \notin {"building", "installing"} /\ work'[t] = "copying"
        /\ \A u \in Trees : u # t => work'[u] = work[u]
        /\ RunIsOpen' /\ OnlyAskedWork' /\ OneTreeBuilds' /\ PresetModuleIsFresh'
    BY WorkFacts DEF WorkStates
  <1>2. BuildTypeOK'
    BY <1>1 DEF Inv, BuildTypeOK, NoFile, Text
  <1>3. RunKnowsScript'
    BY <1>1 DEF Inv, RunKnowsScript, Busy, Succeeded, Frozen, Defined
  <1>4. CachesAsAsked'
    BY <1>1 DEF Inv, BuildTypeOK, CachesAsAsked, HasRun, BuildType, Requests, Works
  <1>5. RootFollows'
    BY <1>1 DEF RootFollows, IsPublished
  <1>6. ModulesAreFresh'
    BY <1>1 DEF ModulesAreFresh
  <1> QED
    BY <1>1, <1>2, <1>3, <1>4, <1>5, <1>6 DEF Inv

\* A run of one tree writes into the file that it has truncated.
LEMMA PublishInv == ASSUME Inv, NEW t \in Trees, Publish(t) PROVE Inv'
  <1> USE DEF runVars, Publish
  <1>1. /\ t \in asked /\ Busy /\ Busy' /\ end = "none" /\ work' \in [Trees -> WorkStates]
        /\ phase \notin {"building", "installing"} /\ work'[t] = "ok"
        /\ \A u \in Trees : u # t => work'[u] = work[u]
        /\ RunIsOpen' /\ OnlyAskedWork' /\ OneTreeBuilds' /\ PresetModuleIsFresh'
    BY WorkFacts DEF WorkStates
  <1>2. BuildTypeOK'
    BY <1>1, CacheTypes DEF Inv, BuildTypeOK
  <1>3. RunKnowsScript'
    BY <1>1 DEF Inv, RunKnowsScript, Busy, Succeeded, Frozen, Defined
  <1>4. CachesAsAsked'
    BY <1>1 DEF Inv, BuildTypeOK, CachesAsAsked, HasRun, BuildType, Requests, Works
  <1>5. RootFollows'
    <2> SUFFICES ASSUME asked = {t} PROVE root' = Text(Exported(t))
      BY <1>1 DEF RootFollows, Exported, HasExport, Effective, SanitizerUnion, Defined
    <2>1. root = NoFile
      BY <1>1 DEF Inv, RootFollows, Works
    <2>2. Length(root) <= Size[t]
      BY <2>1, BuildTreesAssumption DEF Length, NoFile, Text
    <2> QED
      BY <2>2 DEF Text
  <1>6. ModulesAreFresh'
    BY <1>1 DEF ModulesAreFresh
  <1> QED
    BY <1>1, <1>2, <1>3, <1>4, <1>5, <1>6 DEF Inv

LEMMA RaiseInv == ASSUME Inv, NEW t \in Trees, Raise(t) PROVE Inv'
  <1> USE DEF fileVars, Raise
  <1>1. Busy /\ Busy' /\ end = "none" /\ phase \notin {"building", "installing"}
    BY DEF Inv, Busy, RunIsOpen, Succeeded
  <1>2. BuildTypeOK'
    BY DEF Inv, BuildTypeOK, WorkStates
  <1>3. RunKnowsScript'
    BY <1>1 DEF Inv, RunKnowsScript, Busy, Succeeded, Frozen, Defined
  <1>4. RunIsOpen' /\ OnlyAskedWork' /\ OneTreeBuilds' /\ PresetModuleIsFresh' /\ ModulesAreFresh'
    BY <1>1 DEF Inv, RunIsOpen, OnlyAskedWork, OneTreeBuilds, PresetModuleIsFresh, ModulesAreFresh,
       Busy, Succeeded
  <1>5. CachesAsAsked'
    BY <1>1 DEF Inv, BuildTypeOK, CachesAsAsked, HasRun, BuildType, Requests
  <1>6. RootFollows'
    BY <1>1 DEF Inv, RootFollows, IsPublished, Exported, HasExport, Effective, SanitizerUnion, Defined
  <1> QED
    BY <1>2, <1>3, <1>4, <1>5, <1>6 DEF Inv

LEMMA FinishInv == ASSUME Inv, Finish PROVE Inv'
  <1> USE DEF fileVars, Finish
  <1>1. Busy /\ end = "none" /\ phase \notin {"building", "installing"}
    BY DEF Inv, Busy, RunIsOpen, Succeeded
  <1>2. CASE verb \in {"configure", "presets"}
    <2>1. EndRun("configured")
      BY <1>2
    <2>2. phase' = "idle" /\ work' = AllIdle /\ end' = "configured" /\ UNCHANGED <<model, asked>>
      BY <2>1 DEF EndRun
    <2>3. BuildTypeOK'
      BY <2>1, <2>2 DEF Inv, BuildTypeOK, AllIdle, WorkStates, EndRun
    <2>4. RunKnowsScript' /\ RunIsOpen' /\ OnlyAskedWork' /\ OneTreeBuilds'
      BY <1>1, <2>2 DEF Inv, RunKnowsScript, RunIsOpen, OnlyAskedWork, OneTreeBuilds, Busy,
         Succeeded, Frozen, Defined, AllIdle
    <2>5. CachesAsAsked'
      BY <1>1, <2>2 DEF Inv, CachesAsAsked, HasRun, BuildType, Requests, Busy
    <2>6. RootFollows'
      BY <1>1, <2>2 DEF Inv, RootFollows, IsPublished, Exported, HasExport, Effective, SanitizerUnion, Defined,
         Busy
    <2>7. ModulesAreFresh' /\ PresetModuleIsFresh'
      BY <2>2 DEF ModulesAreFresh, PresetModuleIsFresh
    <2> QED
      BY <2>3, <2>4, <2>5, <2>6, <2>7 DEF Inv
  <1>3. CASE verb \notin {"configure", "presets"}
    <2>1. BuildTypeOK'
      BY <1>3 DEF Inv, BuildTypeOK
    <2>2. RunKnowsScript' /\ RunIsOpen' /\ OnlyAskedWork' /\ OneTreeBuilds'
      BY <1>1, <1>3 DEF Inv, BuildTypeOK, RunKnowsScript, RunIsOpen, OnlyAskedWork, OneTreeBuilds,
         Busy, Succeeded, Frozen, Defined
    <2>3. CachesAsAsked'
      BY <1>1, <1>3 DEF Inv, CachesAsAsked, HasRun, BuildType, Requests, Busy
    <2>4. RootFollows'
      BY <1>1, <1>3 DEF Inv, RootFollows, IsPublished, Exported, HasExport, Effective, SanitizerUnion, Defined,
         Busy
    <2>5. ModulesAreFresh' /\ PresetModuleIsFresh'
      BY <1>1, <1>3 DEF ModulesAreFresh, PresetModuleIsFresh
    <2> QED
      BY <2>1, <2>2, <2>3, <2>4, <2>5 DEF Inv
  <1> QED
    BY <1>2, <1>3

LEMMA CMakeFailsInv == ASSUME Inv, NEW t \in Trees, CMakeFails(t) PROVE Inv'
  <1>1. CASE tree' = Reconfigured(t)
    BY <1>1, CacheInv DEF CMakeFails
  <1>2. CASE UNCHANGED tree
    BY <1>2, QuietWorkInv DEF CMakeFails, fileVars
  <1> QED
    BY <1>1, <1>2 DEF CMakeFails

LEMMA WorkerInv == ASSUME Inv, NEW t \in Trees, WorkerStep(t) PROVE Inv'
  <1>1. CASE Prepare(t)
    BY <1>1, QuietWorkInv DEF Prepare
  <1>2. CASE PrepareFails(t)
    BY <1>2, QuietWorkInv DEF PrepareFails
  <1>3. CASE CMake(t)
    BY <1>3, CacheInv DEF CMake
  <1> QED
    BY <1>1, <1>2, <1>3, CMakeFailsInv, PublishNothingInv, TruncateInv, PublishInv DEF WorkerStep

-----------------------------------------------------------------------------
(* Building.                                                               *)

\* The compiler runs in the one tree that was asked for, which is configured.
LEMMA BuildFacts ==
    ASSUME Inv, NEW t \in asked, phase \in {"building", "installing"}
    PROVE  /\ t \in Trees /\ asked = {t} /\ work[t] = "ok"
           /\ Busy /\ end = "none" /\ verb \in {"build", "test"}
           /\ HasRun(t) /\ IsPublished(t) /\ Compiled(t) \in Module
  <1>1. Busy /\ end = "none" /\ verb \in {"build", "test"} /\ work[t] = "ok" /\ t \in Trees
    BY DEF Inv, BuildTypeOK, Busy, RunIsOpen, Succeeded, OneTreeBuilds
  <1>2. asked = {t}
    BY <1>1 DEF Inv, OneTreeBuilds
  <1> QED
    BY <1>1, <1>2, CacheTypes DEF HasRun, IsPublished

\* The settings of a tree are those in its cache, which compiling leaves alone.
LEMMA ModuleTypes ==
    ASSUME Inv, NEW t \in asked, phase = "building",
           tree' = [tree EXCEPT ![t].module = Compiled(t)]
    PROVE  /\ tree' \in [Trees -> Tree]
           /\ tree'[t].cache = tree[t].cache /\ tree'[t].generator = tree[t].generator
           /\ tree'[t].module = Compiled(t)
  BY BuildFacts DEF Inv, BuildTypeOK, Tree

LEMMA BuildInv == ASSUME Inv, NEW t \in Trees, Build(t) PROVE Inv'
  <1> USE DEF Build
  <1>1. /\ asked = {t} /\ work[t] = "ok" /\ Busy /\ end = "none"
        /\ HasRun(t) /\ IsPublished(t)
    BY BuildFacts
  <1>2. /\ tree' \in [Trees -> Tree]
        /\ tree'[t].cache = tree[t].cache /\ tree'[t].generator = tree[t].generator
        /\ tree'[t].module = Compiled(t)
    BY ModuleTypes
  <1>3. CASE EndRun("none")
    BY <1>2, <1>3, StopInv
  <1>4. ASSUME asked' = asked, model' = model, HasRun(t)', IsPublished(t)', Busy' \/ Succeeded'
        PROVE  RunKnowsScript' /\ CachesAsAsked' /\ RootFollows'
    <2>1. RunKnowsScript'
      BY <1>1, <1>4 DEF Inv, RunKnowsScript, Frozen, Defined
    <2>2. CachesAsAsked'
      BY <1>1, <1>2, <1>4 DEF Inv, CachesAsAsked, BuildType, Requests
    <2>3. RootFollows'
      <3>1. HasExport(t)' => root' = Text(Exported(t)) /\ Exported(t)' = Exported(t)
        BY <1>1, <1>2, <1>4 DEF Inv, RootFollows, Exported, HasExport, Effective, SanitizerUnion, Defined
      <3>2. ~(Busy' /\ work'[t] = "copying")
        BY <1>4 DEF IsPublished, Busy
      <3> QED
        BY <1>1, <1>4, <3>1, <3>2 DEF RootFollows
    <2> QED
      BY <2>1, <2>2, <2>3
  <1>5. ASSUME asked' = asked, model' = model
        PROVE  ModulesAreFresh'
    BY <1>1, <1>2, <1>5
    DEF ModulesAreFresh, Compiled, Effective, SanitizerUnion, Defined
  <1>6. CASE verb = "build" /\ phase' = "installing" /\ UNCHANGED <<verb, model, asked, work, end>>
    <2>1. BuildTypeOK'
      BY <1>2, <1>6 DEF Inv, BuildTypeOK
    <2>2. RunIsOpen' /\ OnlyAskedWork' /\ OneTreeBuilds' /\ PresetModuleIsFresh'
      BY <1>1, <1>6 DEF Inv, RunIsOpen, OnlyAskedWork, OneTreeBuilds, PresetModuleIsFresh, Busy,
         Succeeded
    <2>3. HasRun(t)' /\ IsPublished(t)' /\ Busy'
      BY <1>1, <1>6 DEF HasRun, IsPublished, Busy
    <2> QED
      BY <1>4, <1>5, <1>6, <2>1, <2>2, <2>3 DEF Inv
  <1>7. CASE EndRun("tested")
    <2>1. phase' = "idle" /\ work' = AllIdle /\ end' = "tested" /\ UNCHANGED <<model, asked>>
      BY <1>7 DEF EndRun
    <2>2. BuildTypeOK'
      BY <1>2, <1>7, <2>1 DEF Inv, BuildTypeOK, EndRun, AllIdle, WorkStates
    <2>3. RunIsOpen' /\ OnlyAskedWork' /\ OneTreeBuilds' /\ PresetModuleIsFresh'
      BY <2>1 DEF RunIsOpen, OnlyAskedWork, OneTreeBuilds, PresetModuleIsFresh, Busy, Succeeded,
         AllIdle
    <2>4. HasRun(t)' /\ IsPublished(t)' /\ Succeeded'
      BY <1>1, <2>1 DEF HasRun, IsPublished, Busy, Succeeded
    <2> QED
      BY <1>4, <1>5, <2>1, <2>2, <2>3, <2>4 DEF Inv
  <1> QED
    BY <1>3, <1>6, <1>7

LEMMA BuildFailsInv == ASSUME Inv, NEW t \in Trees, BuildFails(t) PROVE Inv'
  <1> USE DEF BuildFails
  <1>1. tree' \in [Trees -> Tree]
    BY ModuleTypes DEF Inv, BuildTypeOK
  <1> QED
    BY <1>1, StopInv

\* Below the directory of a preset there is one module to be found.
LEMMA InstallInv == ASSUME Inv, NEW t \in Trees, Install(t) PROVE Inv'
  <1> USE DEF Install
  <1>1. /\ asked = {t} /\ Busy /\ end = "none" /\ HasRun(t) /\ IsPublished(t)
        /\ Compiled(t) \in Module
    BY BuildFacts
  <1>2. phase' = "idle" /\ work' = AllIdle /\ end' = "built" /\ UNCHANGED <<model, asked>>
    BY DEF EndRun
  <1>3. BuildTypeOK'
    BY <1>2 DEF Inv, BuildTypeOK, AllIdle, WorkStates, EndRun
  <1>4. RunKnowsScript' /\ RunIsOpen' /\ OnlyAskedWork' /\ OneTreeBuilds'
    BY <1>1, <1>2 DEF Inv, RunKnowsScript, RunIsOpen, OnlyAskedWork, OneTreeBuilds, Busy, Succeeded,
       Frozen, Defined, AllIdle
  <1>5. CachesAsAsked'
    BY <1>1, <1>2 DEF Inv, CachesAsAsked, HasRun, BuildType, Requests, Busy
  <1>6. RootFollows'
    BY <1>1, <1>2 DEF Inv, RootFollows, IsPublished, Exported, HasExport, Effective, SanitizerUnion, Defined,
       Busy
  <1>7. tree[t].module = Compiled(t)
    BY <1>1 DEF Inv, ModulesAreFresh
  <1>8. Compiled(t)' = Compiled(t)
    BY <1>2 DEF Compiled, Effective, SanitizerUnion, Defined
  <1>9. ModulesAreFresh'
    BY <1>1, <1>2, <1>7, <1>8 DEF ModulesAreFresh
  <1>10. PresetModuleIsFresh'
    <2> SUFFICES ASSUME t # Plain
                 PROVE  installed' = [tree |-> t, module |-> Compiled(t)]
      BY <1>1, <1>2, <1>8 DEF PresetModuleIsFresh
    <2>1. Compiled(t) # None
      BY <1>1, BuildTreesAssumption
    <2>2. Found(t) = t
      BY <1>7, <2>1, BuildTreesAssumption DEF Found, Within
    <2> QED
      BY <1>7, <2>2
  <1> QED
    BY <1>3, <1>4, <1>5, <1>6, <1>9, <1>10 DEF Inv

-----------------------------------------------------------------------------
LEMMA RunStepInv == ASSUME Inv, RunStep PROVE Inv'
  <1>1. ASSUME Close PROVE Inv'
    BY <1>1, StopInv DEF Close, Inv, BuildTypeOK, fileVars
  <1> QED
    BY <1>1, FinishInv, WorkerInv, RaiseInv, BuildInv, BuildFailsInv, InstallInv DEF RunStep

LEMMA StutterInv == ASSUME Inv, UNCHANGED vars PROVE Inv'
  BY DEF vars, fileVars, runVars, Inv, BuildTypeOK, RunKnowsScript, RunIsOpen, OnlyAskedWork,
     OneTreeBuilds, CachesAsAsked, RootFollows, ModulesAreFresh, PresetModuleIsFresh, HasRun,
     IsPublished, Busy, Succeeded, HasExport, Exported, Compiled, Effective, SanitizerUnion,
     Defined, Frozen, BuildType, Requests

\* The invariant holds in every state that any sequence of runs, failures, edits
\* and kills can reach.
LEMMA InvHolds == Spec => []Inv
  <1>1. ASSUME Inv, [Next]_vars PROVE Inv'
    <2>1. CASE Crash
      BY <1>1, <2>1, StopInv DEF Crash, Inv, BuildTypeOK
    <2> QED
      BY <1>1, <2>1, UserInv, StartInv, RunStepInv, StutterInv DEF Next
  <1> QED
    BY <1>1, InitInv, PTL DEF Spec

\* The caches, the module files and the exported compile commands are always of
\* their types: the model of a run is one that the emitters can have written.
THEOREM BuildTreesTypeCorrect == Spec => []BuildTypeOK
  <1>1. Inv => BuildTypeOK
    BY DEF Inv
  <1> QED
    BY <1>1, InvHolds, PTL

\* After a successful run of one tree in which CMake exports compile_commands.json
\* the file in the project root (_publish_compile_commands) is that of this tree,
\* complete, whatever earlier runs have left there. A tree without the file leaves
\* the root as it was.
THEOREM RootIsLastTree == Spec => []RootIsLastConfigured
  <1>1. Inv => RootIsLastConfigured
    BY DEF Inv, BuildTypeOK, RunIsOpen, RootFollows, IsPublished, RootIsLastConfigured
  <1> QED
    BY <1>1, InvHolds, PTL

\* A tree that was configured under a preset, or with Conan, and that has one
\* configuration is compiled with the build type that the script gives now
\* (_resolve_build_type), not with one that its cache had before.
THEOREM TypesFollowScripts == Spec => []TypeFollowsScript
  <1>1. ASSUME Inv PROVE TypeFollowsScript
    BY <1>1, ModelFacts
    DEF Inv, RunIsOpen, CachesAsAsked, HasRun, Succeeded, TypeFollowsScript, Effective
  <1> QED
    BY <1>1, InvHolds, PTL

\* The sanitizers of a preset are in the cache of its tree, CMakeLists.txt
\* reacts to them, and the module of a build or test has been compiled with them.
THEOREM SanitizersReachCompiler == Spec => []SanitizersAreApplied
  <1>1. ASSUME Inv, Succeeded, NEW t \in asked, Requests(t)
        PROVE  /\ Effective(t).sanitize
               /\ end \in {"built", "tested"} => tree[t].module.settings.sanitize
    <2>1. tree[t].cache.sanitize /\ tree[t].cache \in Settings
      BY <1>1, CacheTypes DEF Inv, BuildTypeOK, RunIsOpen, CachesAsAsked, HasRun
    <2>2. t \in Defined(model) /\ model.presets[t].sanitize
      BY <1>1 DEF Inv, RunKnowsScript, Requests
    <2>3. SanitizerUnion
      BY <2>2 DEF SanitizerUnion
    <2>4. Effective(t).sanitize
      BY <2>1, <2>3 DEF Effective, Settings
    <2>5. end \in {"built", "tested"} => tree[t].module = Compiled(t)
      BY <1>1 DEF Inv, ModulesAreFresh
    <2> QED
      BY <2>4, <2>5 DEF Compiled
  <1>2. Inv => SanitizersAreApplied
    BY <1>1 DEF SanitizersAreApplied
  <1> QED
    BY <1>2, InvHolds, PTL

\* A build under a preset copies the module that it has just compiled, from the
\* sources as they are (build in project.py: the module that rglob finds).
THEOREM PresetModulesAreFresh == Spec => []PresetModuleIsFresh
  <1>1. Inv => PresetModuleIsFresh
    BY DEF Inv
  <1> QED
    BY <1>1, InvHolds, PTL
=============================================================================
