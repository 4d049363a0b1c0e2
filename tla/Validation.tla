----------------------------- MODULE Validation -----------------------------
(***************************************************************************)
(* validate_project (src/cmakeless/model/validate.py) for one project: what *)
(* each of its checks asks of the frozen model and of the source tree, and  *)
(* the order in which they run. The search for link cycles is a module of   *)
(* its own (LinkGraph), and what the checks ask of a tree of projects is in *)
(* FrontEnd.                                                               *)
(***************************************************************************)
EXTENDS Description

CONSTANTS
    BadNames,     \* the names that CMake would have to quote
    Standards,    \* the C++ standards that CMake knows
    ModulesFrom,  \* the first one with modules
    Sanitizers,
    BuildType,    \* the CMake build type of every optimize level
    Managers,     \* package managers
    Formats       \* package formats

\* Every level of optimization has a build type with a name.
ASSUME ValidationAssumption == \A level \in DOMAIN BuildType : BuildType[level] # Nobody

Elements(seq) == {seq[i] : i \in DOMAIN seq}
NamesOf(seq) == {x.name : x \in Elements(seq)}
WellNamed(seq) ==
    /\ NamesOf(seq) \cap BadNames = {}
    /\ \A i, j \in DOMAIN seq : seq[i].name = seq[j].name => i = j

Generated(m) == UNION {c.outputs : c \in Elements(m.commands)}
HeaderOnly(t) == t.kind = "header_only"
Ours(m) == {t \in Elements(m.targets) : t.kind \in LibraryKinds}
Installable(m) == {t \in Elements(m.targets) : t.kind \in LibraryKinds \cup {"executable"}}
Provided(m) == UNION {p.gives : p \in m.packages}
StandardOf(m, t) == IF t.settings.std = 0 THEN m.std ELSE t.settings.std

\* One set of sanitizers, of a target or of a preset.
Combinable(sanitize) == sanitize \subseteq Sanitizers /\ ~({"address", "thread"} \subseteq sanitize)

-----------------------------------------------------------------------------
(* The checks, by what they accept.                                        *)

CheckCppStd(m) ==
    /\ m.std \in Standards
    /\ \A t \in Elements(m.targets) :
          t.settings.std # 0 => ~HeaderOnly(t) /\ t.settings.std \in Standards

CheckProjectSettings(m) ==
    /\ m.optimize \in DOMAIN BuildType \cup {Nobody}
    /\ m.manager \in Managers

\* Targets and custom targets share their names.
CheckTargetNames(m) ==
    /\ WellNamed(m.targets)
    /\ WellNamed(m.customs)
    /\ NamesOf(m.targets) \cap NamesOf(m.customs) = {}

\* A generated file need not exist.
CheckSources(m) ==
    \A t \in Elements(m.targets) :
        \/ HeaderOnly(t)
        \/ t.sources \cup t.modules # {} /\ t.sources \subseteq Files \cup Generated(m)

CheckCxxModules(m) ==
    \A t \in Elements(m.targets) : t.modules # {} =>
        /\ ~HeaderOnly(t)
        /\ StandardOf(m, t) >= ModulesFrom
        /\ t.modules \cap t.sources = {}
        /\ t.modules \subseteq Files \cup Generated(m)

CheckIncludeDirs(m) ==
    \A t \in Elements(m.targets) : t.dirs # {} => ~HeaderOnly(t) /\ t.dirs \subseteq Dirs

CheckPchAndUnity(m) ==
    \A t \in Elements(m.targets) :
        /\ t.settings.pch # {} \/ t.settings.unity => ~HeaderOnly(t)
        /\ t.settings.pch \subseteq Files

CheckLibraries(m) ==
    \A t \in Ours(m) :
        /\ HeaderOnly(t) => t.sources = {} /\ t.headers # {}
        /\ t.headers \subseteq Dirs

\* Builders have checked the same before.
CheckBackends(m) ==
    \A t \in Elements(m.targets) :
        /\ t.kind = "test" => t.backend \in DOMAIN FrameworkPackage \cup {"none"}
        /\ t.kind = "python" => t.backend \in DOMAIN BindingPackage

\* Mutant: what a header-only library asks for is let through.
CheckSanitizersOnly(m) ==
    \A t \in Elements(m.targets) : Combinable(t.settings.sanitize)

CheckSanitizers(m) ==
    \A t \in Elements(m.targets) :
        t.settings.sanitize # {} => ~HeaderOnly(t) /\ Combinable(t.settings.sanitize)

CheckDependencies(m) ==
    \A p \in m.packages : p.name \notin BadNames /\ p.version # "" /\ p.gives # {}

CheckLinks(m) ==
    \A t \in Elements(m.targets) : \A l \in t.links :
        l.to \in IF l.external THEN Provided(m) ELSE {t2.name : t2 \in Ours(m)}

CheckOptions(m) == WellNamed(m.options)

CheckWhens(m) == \A t \in Elements(m.targets) : t.whens \subseteq NamesOf(m.options)

\* Mutant: an input that nobody makes is left to the build.
CheckCommandPaths(m) ==
    \A c \in Elements(m.commands) : (c.outputs \cup c.depends) \cap Outside = {}

\* An input exists or some command makes it; which one is not asked.
CheckCommands(m) ==
    \A c \in Elements(m.commands) :
        /\ (c.outputs \cup c.depends) \cap Outside = {}
        /\ c.depends \subseteq Files \cup Generated(m)

CheckCustomTargets(m) == \A c \in Elements(m.customs) : c.depends \cap Outside = {}

CheckModules(m) ==
    \A x \in Elements(m.modules) :
        /\ x.kind = "file" => x.reference \in Files \ Outside
        /\ x.path \in (Dirs \ Outside) \cup {Nobody}

CheckToolchains(m) ==
    /\ WellNamed(m.toolchains)
    /\ \A x \in Elements(m.toolchains) : IF x.file = Nobody THEN x.compiler \/ x.variables ELSE x.file \in Files

\* _check_no_preset_inherit_cycle: the chain from some preset meets itself.
InheritsInCircle(m) ==
    LET Parent(name) == LET own == {x \in Elements(m.presets) : x.name = name}
                        IN  IF own = {} THEN Nobody ELSE (CHOOSE x \in own : TRUE).inherits
    IN  \E start \in NamesOf(m.presets) :
          LET chain[k \in 0 .. Len(m.presets)] ==
                  IF k = 0 THEN start ELSE IF chain[k - 1] = Nobody THEN Nobody
                  ELSE Parent(chain[k - 1])
          IN  \E k \in DOMAIN chain : chain[k] # Nobody /\ \E j \in 0 .. k - 1 : chain[j] = chain[k]

\* An option that a preset sets is declared, with the type of the value.
CheckPresets(m) ==
    /\ WellNamed(m.presets)
    /\ \A x \in Elements(m.presets) :
          /\ x.optimize \in DOMAIN BuildType
          /\ Combinable(x.sanitize)
          /\ x.toolchain \in NamesOf(m.toolchains) \cup {Nobody}
          /\ x.inherits \in NamesOf(m.presets) \cup {Nobody}
          /\ x.options \subseteq Elements(m.options)
    /\ ~InheritsInCircle(m)

CheckInstalls(m) ==
    /\ \A i, j \in DOMAIN m.installs : m.installs[i].target = m.installs[j].target => i = j
    /\ \A x \in Elements(m.installs) :
          \E t \in Installable(m) : t.name = x.target /\ t.modules = {}

CheckPackageFormats(m) == m.formats \subseteq Formats /\ (m.formats # {} => m.installs # <<>>)

CheckRawCMakeFiles(m) == Elements(m.raws) \subseteq Files \ Outside

-----------------------------------------------------------------------------
(* validate_project raises at the first check that fails.                  *)

Checks(m) ==
    << <<"name", m.name \notin BadNames>>, <<"cpp_std", CheckCppStd(m)>>,
       <<"project_settings", CheckProjectSettings(m)>>,
       <<"target_names", CheckTargetNames(m)>>, <<"sources", CheckSources(m)>>,
       <<"cxx_modules", CheckCxxModules(m)>>, <<"include_dirs", CheckIncludeDirs(m)>>,
       <<"pch_and_unity", CheckPchAndUnity(m)>>, <<"libraries", CheckLibraries(m)>>,
       <<"backends", CheckBackends(m)>>, <<"sanitizers", CheckSanitizers(m)>>,
       <<"dependencies", CheckDependencies(m)>>, <<"links", CheckLinks(m)>> >>

ChecksAfterCycles(m) ==
    << <<"options", CheckOptions(m)>>, <<"when", CheckWhens(m)>>,
       <<"commands", CheckCommands(m)>>, <<"custom_targets", CheckCustomTargets(m)>>,
       <<"modules", CheckModules(m)>>, <<"toolchains", CheckToolchains(m)>>,
       <<"presets", CheckPresets(m)>>, <<"installs", CheckInstalls(m)>>,
       <<"package_formats", CheckPackageFormats(m)>>, <<"raw_cmake_files", CheckRawCMakeFiles(m)>> >>

Passes(checks) == \A i \in DOMAIN checks : checks[i][2]

\* The check that raises, when one does.
Fault(checks) ==
    LET failing == {i \in DOMAIN checks : ~checks[i][2]}
    IN  checks[CHOOSE i \in failing : \A j \in failing : i <= j][1]
=============================================================================
