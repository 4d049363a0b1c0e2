------------------------------ MODULE BuildTrees ------------------------------
(***************************************************************************)
(* The build trees of one project directory, from the first configure on    *)
(* (the configure, build and test verbs and configure_presets of            *)
(* src/cmakeless/api/project.py, driver/cmake_driver.py, and what the       *)
(* emitters put into CMakeLists.txt and CMakePresets.json for them).        *)
(*                                                                         *)
(* A run writes the generated files, configures the tree of the selected    *)
(* preset (build/<preset>, or build itself without one) and copies its      *)
(* compile_commands.json to the project root; a build then compiles and     *)
(* copies the Python module into the environment. configure_presets does    *)
(* the first part for every preset at once, one thread each.                *)
(*                                                                         *)
(* CMake is external. What matters of it: a tree keeps the value of a cache *)
(* variable until somebody sets it again, and its generator for good; some  *)
(* generators write no compile_commands.json (Visual Studio, Xcode), and    *)
(* those of several configurations compile Debug whatever the build type.   *)
(* Every script has something to compile.                                   *)
(***************************************************************************)
EXTENDS Naturals

CONSTANTS
    Presets,     \* the presets that a script may declare, in its order
    Implicit,    \* the preset that --sanitize adds
    Plain,       \* the tree without a preset
    BuildTypes,
    Sources,     \* versions of the C++ sources
    Scripts,     \* the build scripts that the user writes
    Generators,  \* the CMake generators
    Exporting,   \* those that write compile_commands.json
    MultiConfig, \* those that choose the configuration when they compile
    DefaultGenerator, \* CMake's choice for a new tree without -G
    Size,        \* how long the compile_commands.json of a tree is
    Place,       \* position of the module file of a tree in path order
    None

AllPresets == Presets \cup {Implicit}
Trees == AllPresets \cup {Plain}

PresetModel == [optimize : BuildTypes, sanitize : BOOLEAN]
Script == [optimize : BuildTypes \cup {None}, conan : BOOLEAN, sources : Sources,
           generator : Generators \cup {None}, presets : [Presets -> PresetModel \cup {None}]]
ProjectModel == [optimize : BuildTypes \cup {None}, conan : BOOLEAN,
                 generator : Generators \cup {None},
                 presets : [AllPresets -> PresetModel \cup {None}]]
Settings == [type : BuildTypes \cup {None}, sanitize : BOOLEAN]
Module == [settings : Settings, sources : Sources]
Export == [tree : Trees, settings : Settings]

ASSUME BuildTreesAssumption ==
    /\ Trees \subseteq Nat
    /\ Implicit \notin Presets /\ Plain \notin AllPresets
    /\ Scripts \subseteq Script /\ Scripts # {}
    /\ Size \in [Trees -> Nat]
    /\ Place \in [Trees -> Nat]
    /\ \A t, u \in Trees : Place[t] = Place[u] => t = u
    /\ "Debug" \in BuildTypes /\ "Release" \in BuildTypes
    /\ Exporting \subseteq Generators /\ MultiConfig \subseteq Generators
    /\ DefaultGenerator \in Generators
    /\ None \notin PresetModel \cup BuildTypes \cup Settings \cup Module \cup Export
                   \cup ProjectModel \cup Generators

VARIABLES
    script,      \* the build script, its command line, and the sources beside it
    tree,        \* the contents of every build tree
    root,        \* compile_commands.json in the project root
    installed,   \* the module that the run has copied to the environment, and its tree
    phase,       \* what the current run is doing
    verb,        \* its verb
    model,       \* the frozen script that it has written to the generated files
    asked,       \* the trees that it configures
    work,        \* how far the configuration of each tree has come
    end          \* how the last run succeeded; "none" if it did not, or is history

fileVars == <<tree, root>>
runVars == <<phase, verb, model, asked, installed>>
vars == <<script, fileVars, runVars, work, end>>

Blank == [generator |-> None, cache |-> [type |-> None, sanitize |-> FALSE], module |-> None]
NoTrees == [t \in Trees |-> Blank]
AllIdle == [t \in Trees |-> "idle"]

\* A file that holds one text, with what is left of a longer one behind it.
Text(e) == [text |-> e, rest |-> None]
NoFile == Text(None)

Init ==
    /\ script \in Scripts
    /\ tree = NoTrees
    /\ root = NoFile
    /\ installed = None
    /\ phase = "idle"
    /\ verb = "configure"
    /\ model = None
    /\ asked = {}
    /\ work = AllIdle
    /\ end = "none"

-----------------------------------------------------------------------------
(* Between runs.                                                           *)

Forget ==
    /\ model' = None
    /\ asked' = {}
    /\ installed' = None
    /\ end' = "none"
    /\ UNCHANGED <<phase, verb, work>>

Edit(s) ==
    /\ phase = "idle"
    /\ s # script
    /\ script' = s
    /\ Forget
    /\ UNCHANGED fileVars

\* The clean verb: build/ goes with all the trees in it.
Clean ==
    /\ phase = "idle"
    /\ tree' = NoTrees
    /\ Forget
    /\ UNCHANGED <<script, root>>

-----------------------------------------------------------------------------
(* What a run writes to CMakeLists.txt and CMakePresets.json: the frozen    *)
(* script, with the preset that --sanitize asks for.                        *)

\* optimize="none" is the build type Debug.
SanitizePreset == [optimize |-> "Debug", sanitize |-> TRUE]

Frozen(sanitize) ==
    [optimize |-> script.optimize, conan |-> script.conan, generator |-> script.generator,
     presets |-> [p \in AllPresets |-> IF p \in Presets THEN script.presets[p]
                                       ELSE IF sanitize THEN SanitizePreset ELSE None]]

Defined(m) == {p \in AllPresets : m.presets[p] # None}

\* _resolve_build_type, for Conan and, under a preset, for CMake.
BuildType(t) ==
    IF t # Plain THEN model.presets[t].optimize
    ELSE IF model.optimize # None THEN model.optimize ELSE "Release"

\* Mutant: the preset of --sanitize is not counted.
DeclaredUnion == \E p \in Defined(model) \ {Implicit} : model.presets[p].sanitize

\* CMakeLists.txt reacts to sanitizers that some preset of the script names.
SanitizerUnion == \E p \in Defined(model) : model.presets[p].sanitize

\* A preset sets CMAKELESS_SANITIZE when it has sanitizers, and leaves it
\* alone otherwise.
Requests(t) == t # Plain /\ model.presets[t].sanitize

-----------------------------------------------------------------------------

\* The files are rewritten by every run before anything reads them; a run that
\* is killed before has done nothing.
Begin(v, sanitize, ts) ==
    /\ phase = "idle"
    /\ phase' = "configuring"
    /\ verb' = v
    /\ model' = Frozen(sanitize)
    /\ asked' = ts
    /\ installed' = None
    /\ work' = [t \in Trees |-> IF t \in ts THEN "queued" ELSE "idle"]
    /\ end' = "none"
    /\ UNCHANGED <<script, fileVars>>

\* --preset wins over the preset of --sanitize.
Start(v, t, sanitize) ==
    /\ t \in Defined(Frozen(sanitize)) \cup {Plain}
    /\ t = Plain => ~sanitize
    /\ Begin(v, sanitize, {t})

\* Without presets configure_presets configures the plain tree.
StartPresets(sanitize) ==
    LET ps == Defined(Frozen(sanitize))
    IN  Begin("presets", sanitize, IF ps = {} THEN {Plain} ELSE ps)

EndRun(how) ==
    /\ phase' = "idle"
    /\ work' = AllIdle
    /\ verb' = "configure"
    /\ end' = how
    /\ IF how = "none" THEN model' = None /\ asked' = {}
       ELSE UNCHANGED <<model, asked>>

-----------------------------------------------------------------------------
(* Configuring one tree: CMakeDriver.configure, on a thread of its own under *)
(* configure_presets.                                                      *)

Works(t, from, to) ==
    /\ phase \in {"configuring", "closing"}
    /\ work[t] = from
    /\ work' = [work EXCEPT ![t] = to]

\* write_query and, with Conan, the installation of the packages.
Prepare(t) ==
    /\ Works(t, "queued", "cmake")
    /\ UNCHANGED <<script, fileVars, runVars, end>>

PrepareFails(t) ==
    /\ Works(t, "queued", "failed")
    /\ UNCHANGED <<script, fileVars, runVars, end>>

\* The driver passes -G for a generator that is named or found, else nothing;
\* CMake then takes the one of the tree.
Generator(t) ==
    IF tree[t].generator # None THEN tree[t].generator
    ELSE IF model.generator # None THEN model.generator ELSE DefaultGenerator

\* Mutant: a preset leaves the build type to the default of CMakeLists.txt.
CachedTypeWins(t) ==
    LET cache == tree[t].cache
    IN  [type |-> IF cache.type # None THEN cache.type
                  ELSE IF t # Plain THEN BuildType(t) ELSE model.optimize,
         sanitize |-> cache.sanitize \/ Requests(t)]

\* What is in the cache when CMake ends: a preset and Conan set the build type
\* each time, project.optimize is a default for an empty cache, and not for a
\* generator of several configurations.
Configured(t) ==
    LET cache == tree[t].cache
    IN  [type |-> IF t # Plain \/ model.conan THEN BuildType(t)
                  ELSE IF cache.type # None \/ Generator(t) \in MultiConfig THEN cache.type
                  ELSE model.optimize,
         sanitize |-> cache.sanitize \/ Requests(t)]

\* What the compiler is called with: "cmake --build" names no configuration.
Effective(t) ==
    [type |-> IF tree[t].generator \in MultiConfig THEN "Debug" ELSE tree[t].cache.type,
     sanitize |-> tree[t].cache.sanitize /\ SanitizerUnion]

Reconfigured(t) ==
    [tree EXCEPT ![t] = [generator |-> Generator(t), cache |-> Configured(t),
                         module |-> tree[t].module]]

\* CMake refuses a -G that is not the generator of the tree.
CMake(t) ==
    /\ Works(t, "cmake", "publishing")
    /\ model.generator \in {None, Generator(t)}
    /\ tree' = Reconfigured(t)
    /\ UNCHANGED <<script, root, runVars, end>>

\* A failed configure may have set the cache.
CMakeFails(t) ==
    /\ Works(t, "cmake", "failed")
    /\ \/ tree' = Reconfigured(t)
       \/ UNCHANGED tree
    /\ UNCHANGED <<script, root, runVars, end>>

\* The compile_commands.json that a successful CMake leaves in the tree, if its
\* generator writes one.
HasExport(t) == tree[t].generator \in Exporting
Exported(t) == [tree |-> t, settings |-> Effective(t)]

Length(file) ==
    IF file.rest # None THEN Size[file.rest.tree]
    ELSE IF file.text # None THEN Size[file.text.tree] ELSE 0

\* Without a file in the tree the one in the project root stays as it is.
PublishNothing(t) ==
    /\ Works(t, "publishing", "ok")
    /\ ~HasExport(t)
    /\ UNCHANGED <<script, fileVars, runVars, end>>

\* Mutant: the file is opened without truncating it.
OpenOnly(t) ==
    /\ Works(t, "publishing", "copying")
    /\ HasExport(t)
    /\ UNCHANGED <<script, fileVars, runVars, end>>

\* shutil.copyfile opens the file of the project root, which truncates it...
Truncate(t) ==
    /\ Works(t, "publishing", "copying")
    /\ HasExport(t)
    /\ root' = NoFile
    /\ UNCHANGED <<script, tree, runVars, end>>

\* ... and then writes from its beginning, over what another thread has
\* written meanwhile.
Publish(t) ==
    /\ Works(t, "copying", "ok")
    /\ root' = [text |-> Exported(t),
                rest |-> IF Length(root) <= Size[t] THEN None
                         ELSE IF root.rest # None THEN root.rest ELSE root.text]
    /\ UNCHANGED <<script, tree, runVars, end>>

\* parallel_map: the first failing preset ends the collection of results, and
\* the presets that no thread has begun are cancelled.
Raise(t) ==
    /\ phase = "configuring"
    /\ work[t] = "failed"
    /\ \A u \in asked : u < t => work[u] = "ok"
    /\ phase' = "closing"
    /\ work' = [u \in Trees |-> IF work[u] = "queued" THEN "cancelled" ELSE work[u]]
    /\ UNCHANGED <<script, fileVars, verb, model, asked, installed, end>>

\* Mutant: a cancelled preset counts as one that is still to come.
CloseWithoutCancelled ==
    /\ phase = "closing"
    /\ \A t \in asked : work[t] \in {"ok", "failed"}
    /\ EndRun("none")
    /\ UNCHANGED <<script, fileVars, installed>>

\* The threads that run are waited for before the error goes on.
Close ==
    /\ phase = "closing"
    /\ \A t \in asked : work[t] \in {"ok", "failed", "cancelled"}
    /\ EndRun("none")
    /\ UNCHANGED <<script, fileVars, installed>>

Finish ==
    /\ phase = "configuring"
    /\ \A t \in asked : work[t] = "ok"
    /\ IF verb \in {"configure", "presets"} THEN EndRun("configured")
       ELSE /\ phase' = "building"
            /\ UNCHANGED <<verb, model, asked, work, end>>
    /\ UNCHANGED <<script, fileVars, installed>>

-----------------------------------------------------------------------------
(* Building: the one tree that was configured.                             *)

Compiled(t) == [settings |-> Effective(t), sources |-> script.sources]

\* cmake --build, and then ctest for the test verb.
Build(t) ==
    /\ phase = "building"
    /\ t \in asked
    /\ tree' = [tree EXCEPT ![t].module = Compiled(t)]
    /\ \/ verb = "build" /\ phase' = "installing" /\ UNCHANGED <<verb, model, asked, work, end>>
       \/ verb = "test" /\ \E how \in {"tested", "none"} : EndRun(how)
    /\ UNCHANGED <<script, root, installed>>

\* The module is or is not among what was compiled before the error.
BuildFails(t) ==
    /\ phase = "building"
    /\ t \in asked
    /\ \/ tree' = [tree EXCEPT ![t].module = Compiled(t)]
       \/ UNCHANGED tree
    /\ EndRun("none")
    /\ UNCHANGED <<script, root, installed>>

\* build/<preset> lies inside build.
Within(t) == IF t = Plain THEN Trees ELSE {t}

\* Mutant: the search starts in build, whatever the preset.
FoundAnywhere(t) ==
    CHOOSE u \in Trees :
        /\ tree[u].module # None
        /\ \A w \in Trees : tree[w].module # None => Place[u] <= Place[w]

\* sorted(build_dir.rglob(...)): the first of all modules below the directory.
Found(t) ==
    CHOOSE u \in Within(t) :
        /\ tree[u].module # None
        /\ \A w \in Within(t) : tree[w].module # None => Place[u] <= Place[w]

Install(t) ==
    /\ phase = "installing"
    /\ t \in asked
    /\ installed' = [tree |-> Found(t), module |-> tree[Found(t)].module]
    /\ EndRun("built")
    /\ UNCHANGED <<script, tree, root>>

\* The process is killed; the files stay as they are.
Crash ==
    /\ phase # "idle"
    /\ EndRun("none")
    /\ UNCHANGED <<script, tree, root, installed>>

-----------------------------------------------------------------------------

UserStep ==
    \/ \E s \in Scripts : Edit(s)
    \/ Clean

StartStep ==
    \/ \E v \in {"configure", "build", "test"}, t \in Trees, b \in BOOLEAN : Start(v, t, b)
    \/ \E b \in BOOLEAN : StartPresets(b)

WorkerStep(t) ==
    \/ Prepare(t) \/ PrepareFails(t) \/ CMake(t) \/ CMakeFails(t)
    \/ PublishNothing(t) \/ Truncate(t) \/ Publish(t)

RunStep ==
    \/ \E t \in Trees : WorkerStep(t) \/ Raise(t) \/ Build(t) \/ BuildFails(t) \/ Install(t)
    \/ Close
    \/ Finish

Next == UserStep \/ StartStep \/ RunStep \/ Crash

Spec == Init /\ [][Next]_vars

\* Threads are scheduled, and CMake, the compiler and Conan end.
FairSpec == Spec /\ WF_vars(RunStep)

-----------------------------------------------------------------------------
(* Properties.                                                             *)

Succeeded == end # "none"

\* After any run that configured one tree, if CMake exports the compile commands
\* of this tree, the file in the root is that tree's, complete, whatever an
\* earlier run, failed or killed, has left there.
RootIsLastConfigured ==
    Succeeded =>
        \A t \in asked :
            asked = {t} /\ HasExport(t) => root = Text(Exported(t))

\* What a tree of one configuration compiles with is the build type that the
\* script has now, however often the script changed since the tree was made,
\* under every preset and with Conan, whose packages were installed for it.
TypeFollowsScript ==
    Succeeded =>
        \A t \in asked :
            (t # Plain \/ script.conan) /\ tree[t].generator \notin MultiConfig =>
                Effective(t).type = BuildType(t)

\* A sanitizer that a preset asks for reaches the compiler: "the half-applied-sanitizer bug is not reproducible" (docs/FEATURES.md).
SanitizersAreApplied ==
    Succeeded =>
        \A t \in asked :
            Requests(t) =>
                /\ Effective(t).sanitize
                /\ end \in {"built", "tested"} => tree[t].module.settings.sanitize

\* What a build installs under a preset has just been compiled, from the
\* sources as they are and with the settings of this preset.
PresetModuleIsFresh ==
    end = "built" =>
        \A t \in asked \ {Plain} :
            installed = [tree |-> t, module |-> Compiled(t)]

\* Every run comes to an end, also when presets fail while others are running.
RunsEnd == phase # "idle" ~> phase = "idle"

-----------------------------------------------------------------------------
(* What the documentation says and the code does not do.                   *)

\* "compile_commands.json is always exported and symlinked/copied to the
\* project root" (docs/FEATURES.md): after every successful run, if CMake exports
\* a file in every configured tree, the one in the root is that of one of them.
RootIsOneTrees ==
    Succeeded /\ (\A t \in asked : HasExport(t)) => \E t \in asked : root = Text(Exported(t))
=============================================================================
