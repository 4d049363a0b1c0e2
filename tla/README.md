# cmakeless in TLA+

cmakeless is a Python front end for CMake. A build script describes a project
through the classes of `cmakeless.api`; the description is frozen into a model,
validated, its dependencies are resolved against `cmakeless.lock`, and
`CMakeLists.txt` and `CMakePresets.json` are written from it; then `cmake`,
`ctest` and the package managers run as subprocesses. This directory holds
TLA+ specifications of the parts of it whose behaviour depends on order, on
failure or on what earlier runs have left on disk, TLC configurations that check
them on small instances, and proofs, checked by TLAPS, of what holds for
instances of every size.

Paths below are relative to the repository; `cmakeless/` stands for
`src/cmakeless/`.

## The system

| component | state it keeps | operations | modelled in |
|---|---|---|---|
| bounded worker pool (`_parallel.py`) | futures, queue, the caller's position in the results | `parallel_map` | `PoolMap`, `OrderedMap` |
| package registry (`deps/registry.py`) | the table of entries, the flag that plugins were loaded | `register`, `registry_entry`, the lazy load of entry points | `PluginRegistry` |
| dependency resolution (`deps/resolver.py`, `provider.py`, `fetchcontent.py`, `vcpkg.py`, `lockfile.py`) | `cmakeless.lock` | resolve all packages in parallel, reuse or refresh pins, rewrite the file | `Resolution`, `PinStore` |
| vendoring (`deps/vendor.py`, `mirror.py`) | `vendor/`, `cmakeless.mirror.json` | download, verify, store, rewrite the map; the map redirects later builds | `Vendoring` |
| facade and CMake driver (`api/project.py`, `driver/`) | `build/`, `build/<preset>/`, the CMake caches in them, `compile_commands.json`, the module copied to the environment | configure, build, test, clean, `configure_presets`, `--sanitize` | `BuildTrees` |
| emitters (`emitter/`) | none: text from a model | the sections of a list file; the list files of a tree; what a preset sets, what is a default, what is fetched | `Emission`, `FrontEnd`, `BuildTrees`, `Resolution` |
| validation (`model/validate.py`) | none: checks of a frozen model | the checks of a project in their order; link cycles; mounts, managers and versions across a tree | `Validation`, `LinkGraph`, `FrontEnd` |
| context stacks (`api/_context.py`) | the scripts being loaded, the projects captured for each | `add_subproject`, `Project()`, `build()` in description mode | `Mounting` |
| description (`api/targets.py`, `presets.py`, `options.py`, `commands.py`, ...) | the project object and its targets | builder calls, freeze | `Description` |
| one build, from the script to the build tool | all of these | `build()` | `ProjectBuild` |
| CMake facts for a script (`driver/reflection.py`, `driver/globals.py`) | throwaway projects below `build/` | `include`, `include_module`; `cmake_globals` | `Reflection`; no |
| doctor, error translation, SBOM, CLI, observers | none that anything reads back | text in, text out | no |

The interactions: a script mounts other scripts, each run inside the call of the
one above it, and what they describe is frozen, validated and emitted as one
tree. A script also asks CMake, while it runs, what the files that it includes define.
The script's thread calls the facade. The facade calls the
resolver, which starts one worker per package; the workers read the registry,
the only state they share, and the lockfile, a snapshot. When all have ended the
facade rewrites the lockfile, applies the mirror map and writes the generated
files, then calls the driver, for `configure_presets` from one thread per preset.
The threads share the project root. All that connects one run to the next is
files: the lockfile, the map, the vendored archives, the build trees, the projects in which files were included.

What is hard in it:

* **concurrency** in the two places that `docs/ARCHITECTURE.md` names, the
  resolution of dependencies and the configuration of presets, and in the
  registry and the project root that those threads share;
* **nesting**: scripts run inside calls of scripts, may fail anywhere and may
  catch each other's failures, over module-level stacks; CMake then reads the
  generated files in the same nesting, with other rules of what is visible where;
* **failure** of one item of several, of a download, of CMake or Conan or the
  compiler, and of the process itself between any two writes: files are
  truncated first and written then;
* **staleness** of what is left by earlier runs: pins, the mirror map, the
  variables in a CMake cache, modules compiled under another preset, the cache
  and the replies of the projects that CMake was asked with;
* **the outside world**, which may serve other bytes under the same url.

`PROJECT.json` lists every hazard with its line and the properties that would
notice it.

## Modules

### PoolMap, OrderedMap: the worker pool

`OrderedMap` is the promise: a map that behaves like a sequential one, with all
values or the exception of the first failing item. `PoolMap` is the code: the
calling thread submits in order, collects in order, cancels what is queued when a
future raises (the `finally` clause of `Executor.map`) and leaves the `with`
block when every worker has ended. Ctrl-C may reach the calling thread at any
point. Which items fail is fixed in `Init`: the functions that are mapped read
frozen inputs.

One pool per call with as many workers as items is what both callers ask for, so
threads need no state. The executor is external, modelled from how it is used.

### PluginRegistry: the package registry

One action per access to the shared table or flag in `registry_entry` and
`_load_plugin_registrations` (`Member`, `TestFlag`, `SetFlag`, `LoadPoint`,
`LoadEnd`, `Get`), for one worker per declared package. Before them the script's
own thread registers and declares, alone; its lookups are one step. Entry points
may raise (`broken`). `Merged` is the `setdefault` loop for one entry point.

### PinStore, Resolution: pins

`PinStore` is what the lockfile promises its owner: a table that one completed
resolution replaces as a whole, that a crash can tear, and that is otherwise
touched by nobody but its owner, in which every pin is one that may be reused,
or one whose hash is known, or one that upstream served.

`Resolution` is the code. Between runs the user edits the script, switches the
package manager, deletes the lockfile or replaces the mirror map; the world may
replace an archive or move the vcpkg checkout at any time. A run reads the files
(`Start`, `StartUnreadable`, `StartEmpty`), resolves (`ResolveFromLock`,
`ResolveKnown`, `Download`, `ResolveByManager`, `Fail`, one of them per package
in any order), raises the first error in sorted order or goes on, truncates and
writes the lockfile (`OpenLock`, `WriteLock`) and emits (`Emit`). `Crash` is
possible between any two steps.

Data: a url is a package and a version or the custom one of the script; a
digest is a url and the number of the archive that was served there. `"auto"` is
the registry with the FetchContent fallback; `"vcpkg"` stands for the managers
that only fill in names, with the one baseline there is. A registered plugin's
templates are data here, their discovery is `PluginRegistry`'s.

The module uses the result of `PoolMap` (a pool's caller sees all results or
the first failing item's error), and models neither threads nor futures.

### Vendoring: the mirror map

`EXTENDS Resolution` with `cmakeless vendor`: packages in sorted order, for
each the download and its verification in one step, truncating and writing the
file; then the map, truncated and rewritten as a whole. To `Resolution` the whole
verb is an edit of the map, which the property `ImplementsResolution` checks by
refinement. `FileOf` gives the file name of an archive. It is assumed to keep
packages apart: the code names the file `<package>-<last part of the url>`, and
packages called `a` and `a-b` could meet in one file with archives called
`b-1.tgz` and `1.tgz`; no release of a real package does that.

### BuildTrees: configuring and building

Trees, one per preset and the plain one, each with its generator, the variables of
its CMake cache that matter (build type, sanitizers) and the Python module compiled
last.
A run freezes the script (`Begin`), configures each tree it was asked for
(`Prepare`, `CMake`, `Truncate` and `Publish` or `PublishNothing`, or a failure),
raises or goes on, and for the build verb compiles and copies the module (`Build`,
`Install`).
`configure_presets` is the same with several trees and so several threads. CMake
is external; what is modelled of it is that a cache variable keeps its value
until somebody sets it, and that a configure which fails may have set it. Its
generators differ in two ways that matter: whether they write a
`compile_commands.json` (`Exporting`), without which the copy in the root stays what
it was (`driver/cmake_driver.py:234`), and whether they choose the configuration when
they compile (`MultiConfig`), for which the build type is no default and `cmake
--build`, which names no configuration, compiles Debug. A tree keeps its generator,
and CMake refuses a `-G` that names another one. The generator that a script gets is
the one that it names or, without a name, the one that is found on the machine.

Simplifications: every run rewrites the generated files before anything reads
them, so they are the frozen script (`model`) and no state of their own; a
`compile_commands.json` is what the cache of a successful CMake gives; the file
`copyfile` writes is the text of one tree, possibly followed by the rest of a
longer one; compiling is one step, as only one process does it; `installed` is
what the current run has copied. `inherits`, options, `lto`, toolchains, the
environment of a preset, `install`, `package` and post-build commands are not
modelled.

### Description, Reflection, Validation, Emission, ProjectBuild: one project from script to build

`Description` has an action for each builder call of `Project`, of a target and
of an included module, with what the call adds and when it raises, and the
freeze with its patterns (`Frozen`, `Freezes`).

`Reflection` has what `include()` does before it returns: `Ask` after the check of
the path; script mode, then a project without languages, then one with C++
(`Find`, `Miss`) for functions and variables; the other project for targets, in two
ways (`FindTargets`, `MissTargets`, `NoTargets`). Each reference has its directory
below `build/` (`scratch`), of which the cache of the one project and the File API
reply of the other matter. CMake is external: what a file is (`File`) is the set of
ways in which it can be run on its own and what it defines, and a run that fails
may have put some of it into the cache. The call that appends the module to the
description is the step of `Description`, taken together with `Returned`.

`Validation` has an operator for
each check of `validate_project`, named as there, and the two sequences in which
they run before and after the search for link cycles. `Emission` has the sections
of the list file in the order of `_CMakeListsVisitor.emit`. A section is a set of
blocks; a block is what it needs from the sections before it, what it gives to
those after it and what it wants to find when CMake has read everything, as facts
(`<<"target", "app">>`, `<<"include", "GenerateExportHeader">>`, ...). The presets
are there as the entries of `CMakePresets.json` that matter.

`ProjectBuild` EXTENDS these and `LinkGraph` and runs one `build()`: the calls
(`Describe`), with CMake's answers between them (`Reflect`), the freeze (`Build`), the checks (`Check`, `CheckOn`) around the
search (`BeginSearch`, `Search`), the search for shared libraries behind each test
step by step (`StartScan`, `Scan`, `EndScan`), the written file (`Write`), CMake
reading it section by section (`ReadSection`) and generating (`Generate`), and a
build tool that runs commands and makes targets as soon as their inputs are there
(`Work`). With `RunAgain` the script is run once more, after it has ended or was
killed while describing, with files that may have been edited and with or without
what `build/` held. The link from a description to the search is `BeginSearch`: only
libraries of the project are searched from, since nothing else can be linked.

CMake and the build tool are external. What is modelled of CMake: a target and the
output of a command are added once, and all targets share one namespace, so that no
target can be added that a package has imported; a block finds only what has been
read; what is linked and what an exported library brings along is looked up at the
end. Which packages the machine does not have is open (`lacking`). One of those is
fetched, unless the target that its block asks for is there already
(`Source`), and then adds the targets of its source tree; one that is found
only imports. Whether two packages of one section collide depends on which comes
first, which is left open (`MayMeet`). A package that a package manager or the system
is asked for is taken to be installed. Included files are run again, inside
the real project, where they may fail although they ran while the script asked
(`Runnable`), a second time too if they are included twice, and leave their targets
behind (`FileBlocks`). Of the build tool: a path that exists as a source is that
source, and any other is the output of a command.

Left out: flags, definitions, visibility and every other text, the arguments of
module functions, raw snippets of a target (`raw_cmake`), headers of an install
rule, precompiled headers beyond their existence, subprojects beyond the names of
their targets (`Mounting` and `FrontEnd` have them).

### LinkGraph: the search for link cycles

`_find_cycle` is a recursive depth-first search over all libraries with one
shared set of finished ones. The recursion is a stack here, and the order of
roots and links is left open, which includes the code's (sorted roots, links as
declared). It runs as a part of `ProjectBuild`, which gives it the links of the
scripts; that they lead to libraries of the project or imported targets is what
`_check_links` has established before. An imported target with the name of a library
is that library to the search, as it is in the code.

### Mounting, FrontEnd: from scripts to what CMake reads

`Mounting` has Python's stack of running scripts (`frames`) beside the two stacks
of `_context.py` (`loading`, `capture`), the projects made so far and the mounts.
A script creates projects (`NewProject`), mounts a directory with any project it
has got hold of (`RunScript`, `RefuseMount`), ends (`EndScript`,
`EndScriptWrongly`) or fails (`ScriptFails`); an exception unwinds script by
script, and any script may catch it (`Unwind`, `Catch`). Two paths to one script
are one directory, as `resolve()` makes them.

`FrontEnd` EXTENDS it. `Describe` is a step of `Mounting`; `Build` is the call of
`build()` on top level, which freezes the tree; the contents of the projects are
chosen there, since nothing reads them earlier. `Validate` is one step, as
validation changes nothing: `Accepted` is the conjunction of what the checks
across projects require, and a check of one project alone is its field `faulty`.
`Collect` walks the tree as `collect_tree_dependencies` does, in any order, and
keeps the first declaration of each name. Then CMake reads the files, a section
at a time in the order of `_CMakeListsVisitor.emit`: `ReadDefaults`,
`ReadPackages`, `ReadSubproject` for each mount, `ReadTargets`. CMake is external:
a directory starts with a copy of its parent's variables and sees its parent's
imported targets, the cache and fetched packages belong to all, and a binary
directory cannot be used twice (`RefuseSubproject`).

How packages are resolved in between is `Resolution`'s; here every collected
package is. Left out: a project whose root is not the directory of its script,
targets and options by name, presets in subprojects, `lto`, and libraries of one
project that another one links.

Seen while modelling, and true of the models or the code without being a property:

* a package that the root or a sibling has fetched first was compiled without
  position-independent code, when only a later subproject links a shared object;
  the docstring of `_position_independent_code` (`emitter/cmake_emitter.py:461`)
  does not make that exception. `SharedLinksPIC` does, by speaking of what is
  fetched by the project with the shared object and those below it;
* declarations of one package that agree on the version and differ in components,
  targets or url are merged to the first, though "keeping the first occurrence of
  each name loses nothing" (`deps/provider.py:131`);
* a directory that is mounted from two projects passes validation, and CMake
  refuses it (`model/validate.py:1` says that every error which can be caught
  before CMake runs is);
* a subproject's `optimize` decides the build type of the tree if its root has
  none;
* a preset "inherits unset settings" (`api/presets.py:53`, `README.md:190`,
  `docs/FEATURES.md:262`), but its `optimize` is `"debug"` when it is not given and
  always written (`emitter/presets_emitter.py:92`), so a preset that inherits from a
  release one and says nothing is built as Debug. The model has presets of that
  kind, and `PresetsAreKept` makes no claim of their build type: it is about presets
  that say how to optimize, and those that inherit from none;
* `lint()` on a header-only library is dropped without a word
  (`emitter/cmake_emitter.py:1137`), the only exception in `NothingIsIgnored`;
* what `RefusedForKnownReasons` excepts is accepted by validation and refused by
  CMake: a target with a name that CMake, an included file, a subproject, a package
  (imported, or in its source tree) has, or with that of a Python module's stub; an
  included file that only works outside of the project, or only once; two commands
  with one output; an installed library that links one which nobody exports, a
  fetched package among them;
* two commands that need each other's outputs pass, and the build tool stops;
* the depends of a custom target, unlike those of a command, need not exist;
* `_consumed_paths` (`api/project.py:1436`) does not count C++ module sources, so a
  command that makes one is reported as not consumed;
* a file in the source tree with the name of a command's output is the one that is
  compiled, and the command does not run;
* a plain build searches `build/` for the Python module it has compiled, which also
  holds the trees of the presets (`api/project.py:1348`), and can copy the module of a
  preset, though "Each preset gets its own out-of-source build directory [...] so
  Debug and Release artifacts never collide" (`docs/tutorial.md:323`). That a build
  under a preset does not is `PresetModuleIsFresh`;
* CMake runs an included file at least twice while the script runs, once for its
  functions and variables and once for its targets, and again when it configures;
* a target's `sanitize` and a preset's are checked each by itself, so `"address"`
  and `"thread"` can meet in one build.

## What TLC checks

| run | instance | states | shows |
|---|---|---|---|
| `pool_map` | 4 items, every set of failing ones | 7 k | the sequential map is implemented on every schedule, nothing runs after the return, the call ends |
| `plugin_registry` | 3 names, 2 entry points, every subset raising | 5 k | precedence survives concurrent loading; a known package is missed only while another worker loads, and never after the script's thread has loaded |
| `resolution` | 2 packages, below | 730 k | the lockfile describes the build, builds move no pin, offline runs trust nothing new, `PinStore` is implemented, runs end |
| `vendoring` | the same 2 packages | 1,190 k | builds after a vendor run are local and can verify what they take; a map names verified files only; `Resolution` is implemented; vendor runs end |
| `build_trees` | 3 scripts, 3 trees, 2 generators | 1,135 k | after a run of one tree the root's file is that tree's, if its generator exports one; in trees of one configuration the build type follows the script; sanitizers that are asked for are applied; what a build under a preset installs is fresh; runs end |
| `front_end` | 3 directories below each other and one without a script, 3 projects, 1 package | 344 k | the stacks follow the scripts, however they end; no script runs in itself; mounts are a forest; what is resolved is what each project asked for; packages exist before what links them, in position-independent code when a project with a shared object or one below it has fetched them; the root's build type wins; `build()` ends |
| `project_build` | scripts of 9 topics, up to 5 free calls each, one of them run again and again | 243 k | reported link cycles are cycles and accepted projects have none; CMake refuses an accepted project only for the reasons named; the build stops only in a circle of commands; a test gets a copy of shared libraries exactly when it reaches one; no setting is lost; presets keep the build type they state; what `include()` reports is in the file as it is now; the call ends |

Every property of these runs has a mutant, an operator of the same module that
changes one definition the way a plausible bug would, under which TLC finds the
property violated.

Five runs show something that a sentence of the repository says and the code
does not do. They check one property each:

| run | property | what happens |
|---|---|---|
| `plugin_registry_race` | `LookupFindsPlugins` | the loaded flag is set before loading, without a lock, so a second worker is told that a plugin's package is unknown |
| `vendoring_stale` | `MirrorFollowsPins` | the mirror map is keyed by name only: after a version change an offline build takes the old archive and expects the new hash |
| `vendoring_offline` | `OfflineStaysLocal` | an offline build of a package with a known hash that was never vendored succeeds and leaves the download to CMake |
| `build_trees_copy_race` | `RootIsOneTrees` | two presets copy their `compile_commands.json` to the root at once; a shorter one written over a longer one leaves a mix |
| `reflection_variables` | `VariablesAreFound` | the project in which a file is included keeps its cache, so a variable that the file puts there is not new on a later run, or after an attempt that failed behind it, and `mod.variable()` refuses to read it |

### Bounds

* `pool_map`: three items let one fail while another runs and a third is
  cancelled; the fourth adds a failure that finishes before an earlier one. More
  items add no kind of state, and the proofs cover every number.
* `plugin_registry`: a curated name, a name that both plugins produce and one
  that only the second does, which also tries to redefine the curated one.
* `resolution`: package 1 moves between an uncurated and a curated version,
  package 2 is declared with a registry url it has no template for or with a url
  and hash of its own. Each archive is replaced once (`MaxRoll = 2`), the vcpkg
  checkout moves once (`MaxHead = 2`), and the map has one entry or none. That
  is every branch of `_locked_pin`, `_pin` and `lock_baseline`, and two packages
  are what it takes for one to fail while the other succeeds.
* `vendoring`: the map is written by vendor runs only, one archive is replaced
  once (`Rolling`), no vcpkg checkout.
* `build_trees`: a script without presets and two with one, between which the
  build type, the sanitizer, the manager and the sources change; `--sanitize`
  adds the second preset and thus the second thread. The module of one preset
  comes before that of the plain tree in path order, that of the other one
  after it, and one exported file is longer than the others. The script without
  presets names a generator of several configurations that exports nothing, the
  others name none: trees of both kinds arise, and each meets a script that would
  have the other one.
* `front_end`: three scripts and three projects (`MaxProjects`) are a root with two
  children, a chain, a script with two projects, and one that is mounted from two
  places; a cycle needs two scripts and the top-level one. Two versions, managers
  and build types are what it takes to disagree. A project differs from the plain
  one in what meets: version and shared object, manager and shared object, build
  type, or a fault (`MCContents`).
* `project_build`: a topic is a part of the interface: an opening, then every
  sequence of a few calls from a menu, repetitions included (`MCTopics`). Linking
  has every graph of up to five links between three libraries and a test, so self
  links, cycles, diamonds, and a shared library behind a private link. Shapes has
  the settings of a header-only library and of an executable; Naming every kind of
  name that can meet another one, imported ones among them; Generating commands that chain, loop, make the
  same file or shadow a source; Installing the link kinds that travel with an
  export and the things that cannot be installed; Presetting chains of three,
  circles of one to three, toolchains with and without a file; Requiring2 packages
  that conflict, frameworks, bindings and managers; Including raw files, modules
  and options, with files that run everywhere, once, or not in a project, and one
  whose targets have the names of an own target, a package's or a subproject's. Reflecting has a file that can be run in every way, in one project or
  both, only as a script or not at all, with other functions, variables and targets
  each time (`Drafts`), edited between any two runs of the script; the cache and the
  reply of one draft then meet each of the others. Runs are not counted: what one
  leaves behind is a subset of what the drafts define. Each check of `Validation` rejects some script, and each builder
  that can raise does.

Deadlock is checked in `build_trees`. Elsewhere the system may stop: a call
returns, a script or a build ends; in `resolution` and `vendoring`
the bounds are another reason.

### Fairness

Weak fairness on the steps of a run, of a worker or of a thread, and on nothing
else: the operating system schedules every thread that can run, downloads have a
timeout of 60 seconds, and the processes that are waited for are taken to end.
In `FrontEnd` it is on what `build()` and CMake do; a script may loop for ever. In
`ProjectBuild` it is on the steps after `build()` was called, which is what
`BuildCallEnds` is about; a script may stop calling, and nobody has to run it again.
Nobody has to start a run, edit, clean or delete anything, and nobody has to
crash. Where a run may both fail and go on, fairness is on the disjunction, so
that no outcome is forced.

## What is proved

The theorems hold for every value of the constants that meets the named
assumption of the module, not only for the instances above.

* `PoolMapProofs`, from `N \in Nat \ {0}`: type correctness,
  `ErrorIsScheduleIndependent`, `QuietAfterReturn`, and that the pool implements
  `OrderedMap`. The invariant `PoolInv` says how far the caller can be for what
  the tasks are (`CallerInv`), that a future holds what the item's function
  does (`ResultInv`), and that a call that is done without an interrupt has
  joined its workers (`JoinInv`). Collecting in order makes the first error seen
  the first in order: whatever is before the cursor is known to be `"ok"`.
* `PluginRegistryProofs`: `Precedence` with type correctness,
  `WarmRegistryNeverMisses` and `MissOnlyWhileLoading`. `Precedence` is not inductive
  alone; `LoadedSoFar` adds that when some worker is at entry point `k`, everything
  that the working entry points before `k` provide is there, so `setdefault` on a
  missing name is by its first provider. The other two are about the
  flag that is raised before loading: while a known name is missing although the
  flag is up, some thread is still in its loop (`LoadingIsOpen`), and a registry that
  was loaded before the workers began has every known name (`WarmIsComplete`).
* `ResolutionProofs`: type correctness, `LockDescribesBuild`, `PinsAreStable`,
  `OfflineTrustsNothingNew`, and that `Resolution` implements `PinStore`. The
  invariant relates a run to the files: results exist for the workers that are
  done and are admissible with respect to the lockfile that is still in place
  (`ResultsAdmissible`), the file is torn exactly while it is written or after a
  crash (`TornWhileLocking`), and what is about to be emitted is what was just
  locked (`EmittingWhatIsLocked`). Upstream moving on is why an admissible hash
  is one of those served so far, and not the one served now.
  The second part is about `Vendoring`, which stands on the same lockfile: type
  correctness, `VendoredBuildIsLocal`, `MapsVerifiedFiles`, and that every step of
  `Vendoring` is one of `Resolution` or a stutter (`ImplementsResolution`), so what
  is proved of pins holds with vendoring too. Every archive that the run has stored
  is whole and verified until the map names it (`FilesSoFar`), because no two packages
  have a file in common; and what the map names is what a later build verifies,
  because a build emits what is in the lockfile (`VendoredMap`, `BuiltIsFetched`).
* `BuildTreesProofs`, for any presets, build types, scripts and number of runs
  (`BuildTreesAssumption`): type correctness, `RootIsLastConfigured`,
  `TypeFollowsScript`, `SanitizersAreApplied` and `PresetModuleIsFresh`. What a run
  claims of a tree at its end is true from the moment in which CMake has configured
  the tree (`CachesAsAsked`), and stays true because only asked trees are worked on
  (`OnlyAskedWork`) and a run that goes on to build has exactly one, configured by
  then (`OneTreeBuilds`). With one tree there is one writer of the file in the root, or
  none if its generator exports nothing (`RootFollows`).
* `LinkGraphProofs`, for every set of libraries, finite or not, and every graph
  in which whatever is not a root links nothing (`RootsAreSearched`): type
  correctness (which says that the path never repeats), `ReportedCycleIsReal`
  and `AcceptedIsAcyclic`. Imported targets may have any names. The invariant has four
  parts. The path follows links;
  what has been followed from a target on the path is finished or is next on the
  path; finished targets link only finished ones; and no nonempty set of finished
  targets is one in which each links another of the set. The last is preserved
  because a target is finished after all that it links: in a set with the new
  target, either it is alone, or some other target of the set links none of the
  others, and cannot link the new one, since finished targets link only finished
  ones.
* `DescriptionProofs`: whatever the script calls, in whatever order, the project is
  well typed and what its targets link from outside are imported targets of
  packages (`SoundProject`); a test's framework and a binding's library are packages
  of the project from the call that adds the target on (`Backed`), and freezing keeps
  all of it. Its second part is about what CMake is asked while the script runs, for
  every set of files and drafts (`ReflectionAssumption`): whatever `scratch` holds, a
  report that is being made has no function or variable that is not in the file, none
  of its functions is missing once CMake has run the file, and the targets are from
  the configure that has just succeeded (`ReportIsTrue`); the file does not change
  while it is reported on. It has a lemma for each call and each step, and no listed
  theorem: `ProjectBuildProofs` states what follows.
* `ProjectBuildProofs`, for every set of topics, names, paths and libraries, from
  the assumptions `DescriptionAssumption` (scripts pass arguments of the types that
  Python would), `ValidationAssumption` (a level's build type is not the name of
  nobody), `EmissionAssumption` (a binding's package has the name of the binding, and
  names that differ still do so with `_stub` appended), `ProjectBuildAssumption` and
  those of `Reflection` and `LinkGraph`: `ProjectTypeOK`, `ReportedCycleIsReal`,
  `AcceptedIsAcyclic`, `CopiesAreNeeded`, `NothingIsIgnored`, `ReflectionIsCurrent`,
  `PresetsAreKept`, `StuckOnlyInCircles` and `RefusedForKnownReasons`.
  - A run starts as the first one did but for `scratch` (`Fresh`), which is all that
    the proofs need to hold across runs. The invariant `Progress` says, for each phase,
    what has been established: the checks that have passed, that the search's graph is
    that of the frozen model, with the invariant of `LinkGraphProofs` over it, and that
    an accepted model is acyclic.
  - `ScanInv` is about the search behind a test: the libraries it has seen and those on
    the stack are in every closed set that has the test's links, none that it has seen
    is shared, and what the seen ones link is seen or on the stack. So when the stack is
    empty without a shared library the seen ones are themselves a closed set without
    one.
  - `NothingIsIgnored` follows from the checks that have passed, by which an accepted
    header-only library says nothing that the emitter has no place for.
  - `PresetsAreKept` is a pigeonhole argument: a chain of `inherits` that is longer
    than there are presets meets itself, so a chain that is accepted as free of circles
    has ended by then; CMake then takes the type from the first preset of the
    chain that says one, which is the preset itself, as all that are emitted do. The
    property restricts this to presets for which it is what the documentation says.
  - `StuckOnlyInCircles`: what is wanted settles within as many levels as there are
    commands, all that is done was made from what was there (`OutputsAreMade`,
    `TargetsAreMade`), no circle of commands gets any of its outputs (`CirclesWait`), and
    links that are accepted have an end. So when nothing more can be made, the wanted
    commands that wait are a nonempty set in which each waits for another.
  - `RefusedForKnownReasons`: while CMake reads the list file, what it knows is what
    was there before and what the sections read so far give (`ReadSoFar`). Each need of
    each block is given by an earlier section (`NeedsMet`), for which every check that
    rejects a dangling reference discharges one kind of need; an included file's
    need to run is the exception, and a reason of its own (`IncludeFails`). A name is
    given twice only if a name is taken, two others meet, or two commands make one file
    (`TwiceHasReasons`, and `MayMeet` for the order that is open); and what is still
    awaited at the end is there unless an export is open (`EndsMeet`). These five are the
    reasons that the property lists. Own targets and imported ones are not assumed to
    differ.
* `MountingProofs`, for any directories and any number of projects: type
  correctness, `GuardsFollowCalls`, `NoScriptTwice`, `MountsFormForest`. That the
  stacks follow the scripts is inductive by itself and carries the second, since
  a script that runs is then on the stack that the guard searches. The forest
  needs what a captured project is until its script ends: younger than the project
  that mounts it, rooted in the script's directory, mounted by nobody
  (`CapturesAreNew`), and in one capture only (`CapturesDisjoint`).
  The second part is about `FrontEnd`, for any forest so mounted: type correctness,
  `EmittedAsDeclared`, `PackagesBeforeTargets`, `SharedLinksPIC` and `RootTypeWins`.
  Its invariant says of the packages chosen so far that projects of the tree need
  them, and that whoever's are not all chosen is below a project still to be visited
  (`CollectInv`); of the stack of list files that nothing but the root's defaults is
  read first (`RootFirst`); and that the switch for position-independent code is on
  wherever a project at or above has a shared object, up to the one section in which
  that project switches it on (`PICInv`). What is said of the whole tree below a project is an
  induction over project numbers (`TreeInduction`), as children are younger than their
  parents.

With these, every safety invariant, action property and refinement that a passing run
checks is also a theorem. Model-checked only is what is about liveness: `Terminates`,
`LookupsEnd`, `RunsEnd`, `VendorEnds`, `BuildEnds` and `BuildCallEnds`; liveness under
fairness is outside what the prover does, as is `ENABLED`. The induction theorems of the
library cannot be used, since they take an operator; where an argument is by induction
over numbers the proof takes a least counterexample instead (`WFMin`, and lemmas like
`LeastNatural` that rest on it). No module with a theorem has a recursive operator.

## Not modelled

* Text: the syntax of the generated files, SBOM documents, CMake's output and its
  translation, argument parsing, the messages of errors.
* `cmakeless doctor`, which reads what is on the machine, and `cmake_globals()`, which
  reports whatever is defined in a configure that has just succeeded. Its table of
  answers and its throwaway project go by the name of the toolchain alone
  (`api/project.py:703`), so two toolchains of one name share the first answer; what
  CMake itself keeps of a toolchain in a cache would have to be modelled to say more.
* Two cmakeless processes in one directory. Nothing is documented for that case
  and nothing in the code guards against it.
* The condition trees of `when` beyond the options that they name, the letters of
  names, versions and paths, and every flag that only reaches the compiler.
* The overrides of the command line and how a generator is found on the machine:
  each is made once, before anything else happens. What a generator changes is in
  `BuildTrees`.

## Plan

Done, in the order of importance that was followed: the pool, as both parallel
places rest on it; the registry that its workers share; resolution and the
lockfile; vendoring; build trees; the search for link cycles; mounting and the way
from a tree of projects to what CMake reads; one project from its builder calls to
the build tool, with all checks and all sections of the list file; what CMake is
asked while a script runs.

Proved since: all the safety properties of the above, in the order in which the parts
rest on each other.

Next, in this order:

1. In `FrontEnd`, one declaration per name and project, with components, so that what
   the first one drops is visible.
2. In `Resolution`, the round trip between package managers; in a composition of
   two `Resolution`s over one set of files, what two processes can do to each
   other.
