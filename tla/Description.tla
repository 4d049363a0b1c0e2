---------------------------- MODULE Description ----------------------------
(***************************************************************************)
(* One project while its script describes it: the builder calls of Project  *)
(* and of the targets (src/cmakeless/api/project.py, targets.py,            *)
(* commands.py, options.py, presets.py, toolchains.py, modules.py and       *)
(* dependencies.py), what each call adds and when it raises, and the frozen *)
(* model that build() takes of it (src/cmakeless/model/nodes.py).           *)
(*                                                                         *)
(* Names and paths are opaque. Flags, texts, command lines and everything   *)
(* else that only reaches the compiler are left out. A module that a script *)
(* includes has some functions: Reflection says which.                      *)
(***************************************************************************)
EXTENDS Naturals, Sequences, FiniteSets

CONSTANTS
    Names,        \* names of targets, options, presets, toolchains, packages
    Words,        \* package managers and levels of optimization, as scripts spell them
    Paths,        \* files, directories and patterns that a script names
    Files, Dirs,  \* the paths that exist in the source tree
    Outside,      \* the paths that are absolute or contain ".."
    Matches,      \* the files that each glob pattern matches
    Foreign,      \* libraries of other projects that the script has at hand
    FrameworkPackage,  \* the package of every test framework but "none"
    BindingPackage,    \* the package of every binding library
    Topics        \* what scripts say: an opening, then calls from a menu

Kinds == {"static", "shared", "header_only", "executable", "test", "python"}
LibraryKinds == {"static", "shared", "header_only"}
OptionTypes == {"bool", "int", "string"}
Nobody == ""    \* None, where a name is optional

\* Of a package: its imported targets, the targets that its source tree would
\* add if it were fetched, and which of the imported ones that would export.
PackageModel ==
    [name : Names, version : STRING, gives : SUBSET STRING, inner : SUBSET Names,
     exports : SUBSET STRING]
LinkModel == [to : STRING, public : BOOLEAN, external : BOOLEAN]
Settings ==
    [sanitize : SUBSET STRING, std : Nat, pch : SUBSET Paths, unity : BOOLEAN, lint : BOOLEAN]
TargetModel ==
    [name : Names, kind : Kinds, sources : SUBSET Paths, modules : SUBSET Paths,
     headers : SUBSET Paths, generated : SUBSET Paths, dirs : SUBSET Paths,
     links : SUBSET LinkModel, settings : Settings, whens : SUBSET Names,
     backend : STRING, stubs : BOOLEAN]
CommandModel == [outputs : SUBSET Paths, depends : SUBSET Paths]
CustomTargetModel == [name : Names, depends : SUBSET Paths]
OptionModel == [name : Names, type : OptionTypes]
PresetModel ==
    [name : Names, optimize : STRING, sanitize : SUBSET STRING, toolchain : Names \cup {Nobody},
     options : SUBSET OptionModel, inherits : Names \cup {Nobody}]
ToolchainModel ==
    [name : Names, file : Paths \cup {Nobody}, compiler : BOOLEAN, variables : BOOLEAN]
InstallModel == [target : Names, headers : BOOLEAN]
ModuleModel ==
    [kind : {"file", "named"}, reference : Paths, path : Paths \cup {Nobody},
     functions : SUBSET STRING, calls : Seq(STRING)]

\* What a project object, or the model frozen from it, consists of.
ProjectModel ==
    [name : Names, std : Nat, manager : Words, optimize : Words,
     targets : Seq(TargetModel), packages : SUBSET PackageModel,
     commands : Seq(CommandModel), customs : Seq(CustomTargetModel),
     options : Seq(OptionModel), presets : Seq(PresetModel),
     toolchains : Seq(ToolchainModel), installs : Seq(InstallModel),
     formats : SUBSET STRING, raws : Seq(Paths), modules : Seq(ModuleModel),
     children : SUBSET Names]

\* A target as its constructor leaves it.
NewTarget(t) == t \in TargetModel /\ t.links = {}

\* The arguments of a call, as far as Python's types and the values that no
\* builder looks at go. An unknown kind of library or option is for it to find.
WellTyped(c) ==
    CASE c.op = "add_target" ->
            c.node.kind \in LibraryKinds \cup {"executable"} => NewTarget(c.node)
      [] c.op = "add_test" -> NewTarget(c.node) /\ c.node.kind = "test"
      [] c.op = "add_python_module" -> NewTarget(c.node) /\ c.node.kind = "python"
      [] c.op = "link" -> c.to \in STRING /\ c.public \in BOOLEAN
      [] c.op = "depends" -> c.package \in PackageModel /\ c.public \in BOOLEAN
      [] c.op = "add_paths" ->
            c.sources \subseteq Paths /\ c.modules \subseteq Paths /\ c.dirs \subseteq Paths
      [] c.op = "assign" -> c.settings \in Settings
      [] c.op = "when" -> c.options \subseteq Names
      [] c.op = "add_command" -> c.node \in CommandModel
      [] c.op = "add_custom_target" -> c.node \in CustomTargetModel
      [] c.op = "option" -> c.node.type \in OptionTypes => c.node \in OptionModel
      [] c.op = "add_preset" -> c.node \in PresetModel
      [] c.op = "add_toolchain" -> c.node \in ToolchainModel
      [] c.op = "install" -> c.node \in InstallModel
      [] c.op = "package" -> c.formats \subseteq STRING
      [] c.op = "raw_cmake_file" -> c.path \in Paths
      [] c.op = "include" -> c.node \in ModuleModel /\ c.node.calls = <<>>
      [] c.op = "call" -> c.function \in STRING
      [] c.op = "add_subproject" -> c.targets \subseteq Names
      [] c.op = "set_project" -> c.manager \in Words /\ c.optimize \in Words
      [] OTHER -> c.op = "add_generated"

\* All that the scripts about a topic ever call.
Script(t) == {t.opening[i] : i \in DOMAIN t.opening} \cup t.menu

ASSUME DescriptionAssumption ==
    /\ Nobody \notin Names
    /\ {"auto", Nobody} \subseteq Words
    /\ Files \cup Dirs \subseteq Paths
    /\ \A pattern \in DOMAIN Matches : Matches[pattern] \subseteq Paths
    /\ \A f \in DOMAIN FrameworkPackage : FrameworkPackage[f] \in PackageModel
    /\ \A b \in DOMAIN BindingPackage : BindingPackage[b] \in PackageModel
    /\ \A t \in Topics :
          /\ t.name \in Names /\ t.std \in Nat /\ t.most \in Nat
          /\ t.opening \in Seq(Script(t))
          /\ \A c \in Script(t) : WellTyped(c)

VARIABLES
    topic,    \* what this script is about
    said,     \* the number of calls it has made
    project,  \* the project object
    raised    \* a call has raised, and the script has ended with it

descriptionVars == <<topic, said, project, raised>>

\* Project(name, cpp_std=...): everything else is empty or at its default.
NewProject(name, std) ==
    [name |-> name, std |-> std, manager |-> "auto", optimize |-> Nobody,
     targets |-> <<>>, packages |-> {}, commands |-> <<>>, customs |-> <<>>,
     options |-> <<>>, presets |-> <<>>, toolchains |-> <<>>, installs |-> <<>>,
     formats |-> {}, raws |-> <<>>, modules |-> <<>>, children |-> {}]

DescriptionTypeOK ==
    /\ topic \in Topics
    /\ said \in 0 .. Len(topic.opening) + topic.most
    /\ project \in ProjectModel
    /\ raised \in BOOLEAN

DescriptionInit ==
    /\ topic \in Topics
    /\ said = 0
    /\ project = NewProject(topic.name, topic.std)
    /\ raised = FALSE

-----------------------------------------------------------------------------
(* The calls.                                                              *)

OpeningIsOver == said >= Len(topic.opening)

\* What the script may call next.
Calls ==
    CASE ~OpeningIsOver -> {topic.opening[said + 1]}
      [] OpeningIsOver /\ said < Len(topic.opening) + topic.most -> topic.menu
      [] OTHER -> {}

\* A call of the script, which either changes the project or raises.
Called(c, method) == ~raised /\ c.op = method
Does(new) == said' = said + 1 /\ project' = new /\ UNCHANGED <<topic, raised>>
Raises == said' = said + 1 /\ raised' = TRUE /\ UNCHANGED <<topic, project>>

Handles(name) == {h \in DOMAIN project.targets : project.targets[h].name = name}
IsLibrary(name) == \E h \in Handles(name) : project.targets[h].kind \in LibraryKinds

\* Dependencies.add for one package: a second, different description of it raises.
Conflicts(p) == \E known \in project.packages : known.name = p.name /\ known # p
Requiring(p) == [project EXCEPT !.packages = @ \cup {p}]

\* _resolve_kind: a library of an unknown kind is not created.
KnownKind(kind) == kind \in LibraryKinds \cup {"executable"}

\* add_library and add_executable.
AddTarget(c) ==
    /\ Called(c, "add_target")
    /\ IF KnownKind(c.node.kind)
       THEN Does([project EXCEPT !.targets = Append(@, c.node)])
       ELSE Raises

Linked(node, p) ==
    [node EXCEPT !.links = @ \cup {[to |-> t, public |-> FALSE, external |-> TRUE] : t \in p.gives}]

\* The framework's package is required before the test is there.
AddTest(c) ==
    /\ Called(c, "add_test")
    /\ LET framework == c.node.backend
           known     == framework \in DOMAIN FrameworkPackage
           package   == FrameworkPackage[framework]
       IN  \/ /\ framework = "none"
              /\ Does([project EXCEPT !.targets = Append(@, c.node)])
           \/ /\ known
              /\ ~Conflicts(package)
              /\ Does([Requiring(package) EXCEPT !.targets = Append(@, Linked(c.node, package))])
           \/ /\ framework # "none"
              /\ known => Conflicts(package)
              /\ Raises

\* An unknown binding stands for a malformed python_version too, which raises as
\* early. The binding's own command links the package: no link is recorded.
AddPythonModule(c) ==
    /\ Called(c, "add_python_module")
    /\ LET package == BindingPackage[c.node.backend]
       IN  IF c.node.backend \in DOMAIN BindingPackage /\ ~Conflicts(package)
           THEN Does([Requiring(package) EXCEPT !.targets = Append(@, c.node)])
           ELSE Raises

\* link() takes library objects, also those of another project, and freezes
\* their names. Only a library can link publicly.
Link(c) ==
    /\ Called(c, "link")
    /\ \E h \in Handles(c.target) :
          IF IsLibrary(c.to) \/ c.to \in Foreign
          THEN Does([project EXCEPT !.targets[h].links = @ \cup
                  {[to |-> c.to, external |-> FALSE,
                    public |-> c.public /\ project.targets[h].kind \in LibraryKinds]}])
          ELSE Raises

Depends(c) ==
    /\ Called(c, "depends")
    /\ \E h \in Handles(c.target) :
          IF Conflicts(c.package)
          THEN Raises
          ELSE Does([Requiring(c.package) EXCEPT !.targets[h].links = @ \cup
                  {[to |-> t, public |-> c.public, external |-> TRUE] : t \in c.package.gives}])

\* add_sources() with the outputs of a custom command, which are no patterns.
AddGenerated(c) ==
    /\ Called(c, "add_generated")
    /\ \E h \in Handles(c.target), k \in DOMAIN project.commands :
          LET outputs == project.commands[k].outputs
          IN  Does([project EXCEPT !.targets[h].sources = @ \cup outputs,
                                   !.targets[h].generated = @ \cup outputs])

\* add_sources() with paths, add_module_sources() and include_dirs().
AddPaths(c) ==
    /\ Called(c, "add_paths")
    /\ \E h \in Handles(c.target) :
          Does([project EXCEPT !.targets[h].sources = @ \cup c.sources,
                               !.targets[h].modules = @ \cup c.modules,
                               !.targets[h].dirs = @ \cup c.dirs])

\* target.sanitize = ..., cpp_std, pch, unity, and lint(): nothing is checked yet.
Assign(c) ==
    /\ Called(c, "assign")
    /\ \E h \in Handles(c.target) : Does([project EXCEPT !.targets[h].settings = c.settings])

\* The platforms, compilers and configurations of a condition are known ones.
KnownCondition(c) == c.known

\* define(), compile_options() and link_options() under a condition.
When(c) ==
    /\ Called(c, "when")
    /\ \E h \in Handles(c.target) :
          IF KnownCondition(c) THEN Does([project EXCEPT !.targets[h].whens = @ \cup c.options]) ELSE Raises

AddCommand(c) ==
    /\ Called(c, "add_command")
    /\ IF c.node.outputs = {}
       THEN Raises
       ELSE Does([project EXCEPT !.commands = Append(@, c.node)])

AddCustomTarget(c) ==
    /\ Called(c, "add_custom_target")
    /\ Does([project EXCEPT !.customs = Append(@, c.node)])

AddOption(c) ==
    /\ Called(c, "option")
    /\ IF c.node.type \in OptionTypes
       THEN Does([project EXCEPT !.options = Append(@, c.node)])
       ELSE Raises

AddPreset(c) ==
    /\ Called(c, "add_preset")
    /\ Does([project EXCEPT !.presets = Append(@, c.node)])

AddToolchain(c) ==
    /\ Called(c, "add_toolchain")
    /\ Does([project EXCEPT !.toolchains = Append(@, c.node)])

\* install() takes executables and libraries, also those of another project.
Install(c) ==
    /\ Called(c, "install")
    /\ IF \/ c.node.target \in Foreign
          \/ \E h \in Handles(c.node.target) :
                project.targets[h].kind \in LibraryKinds \cup {"executable"}
       THEN Does([project EXCEPT !.installs = Append(@, c.node)])
       ELSE Raises

Package(c) ==
    /\ Called(c, "package")
    /\ Does([project EXCEPT !.formats = c.formats])

RawCMakeFile(c) ==
    /\ Called(c, "raw_cmake_file")
    /\ Does([project EXCEPT !.raws = Append(@, c.path)])

\* check_file_reference and check_module_path: what a script may include.
MayInclude(x) ==
    \/ x.kind = "file" /\ x.reference \in Files \ Outside
    \/ x.kind = "named" /\ x.path \in (Dirs \ Outside) \cup {Nobody}

\* include() and include_module() look at the path before they run CMake on it.
Include(c) ==
    /\ Called(c, "include")
    /\ IF MayInclude(c.node)
       THEN Does([project EXCEPT !.modules = Append(@, c.node)])
       ELSE Raises

\* Only a function that the module is known to define can be called.
CallModule(c) ==
    /\ Called(c, "call")
    /\ \E k \in DOMAIN project.modules :
          IF c.function \in project.modules[k].functions
          THEN Does([project EXCEPT !.modules[k].calls = Append(@, c.function)])
          ELSE Raises

\* The subproject has been described (Mounting); its targets have these names.
AddSubproject(c) ==
    /\ Called(c, "add_subproject")
    /\ Does([project EXCEPT !.children = @ \cup c.targets])

\* project.package_manager = ..., project.optimize = ...
SetProject(c) ==
    /\ Called(c, "set_project")
    /\ Does([project EXCEPT !.manager = c.manager, !.optimize = c.optimize])

DescriptionNext ==
    \E c \in Calls :
        \/ AddTarget(c) \/ AddTest(c) \/ AddPythonModule(c)
        \/ Link(c) \/ Depends(c) \/ AddGenerated(c) \/ AddPaths(c) \/ Assign(c) \/ When(c)
        \/ AddCommand(c) \/ AddCustomTarget(c) \/ AddOption(c) \/ AddPreset(c) \/ AddToolchain(c)
        \/ Install(c) \/ Package(c) \/ RawCMakeFile(c) \/ Include(c) \/ CallModule(c)
        \/ AddSubproject(c) \/ SetProject(c)

-----------------------------------------------------------------------------
(* Freezing.                                                               *)

\* _expand: an entry is a generated file, a path, or a pattern.
IsPattern(t, entry) == entry \in DOMAIN Matches /\ entry \notin t.generated
Expand(t, entries) ==
    UNION {IF IsPattern(t, e) THEN Matches[e] ELSE {e} : e \in entries}

\* A pattern that matches nothing raises.
Freezes(p) ==
    \A h \in DOMAIN p.targets : \A e \in p.targets[h].sources \cup p.targets[h].modules :
        IsPattern(p.targets[h], e) => Matches[e] # {}

FrozenTarget(t) == [t EXCEPT !.sources = Expand(t, t.sources), !.modules = Expand(t, t.modules)]

Frozen(p) == [p EXCEPT !.targets = [h \in DOMAIN p.targets |-> FrozenTarget(p.targets[h])]]
=============================================================================
