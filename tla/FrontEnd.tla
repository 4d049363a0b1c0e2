------------------------------ MODULE FrontEnd ------------------------------
(***************************************************************************)
(* From a described tree of projects to what CMake makes of it. The script  *)
(* on top level mounts subprojects (Mounting) and calls build(): the tree   *)
(* is frozen and validated (src/cmakeless/model/validate.py), its packages  *)
(* are collected into one set and resolved by the root's package manager    *)
(* (src/cmakeless/deps/resolver.py), one CMakeLists.txt per project is      *)
(* written (src/cmakeless/emitter/cmake_emitter.py), and CMake reads them,  *)
(* each in the order in which `emit` lists its sections, a subproject's     *)
(* where its parent says add_subdirectory().                                *)
(***************************************************************************)
EXTENDS Mounting, FiniteSets

CONSTANTS
    Packages,      \* package names
    Versions,      \* their versions, positive numbers
    Managers,      \* package managers, "auto" and others
    BuildTypes,    \* build types, positive numbers
    Contents,      \* what a project can say about itself
    Within         \* pairs of a directory and one that a path without ".." leads to

\* What the builder calls on one project leave: the packages it needs (0 for
\* one that it does not), whether it links a shared object, its package
\* manager, its optimize level (0 for none), and whether it has a fault that a
\* check of this project alone finds.
Content ==
    [needs : [Packages -> Versions \cup {0}], shared : BOOLEAN, manager : Managers,
     optimize : BuildTypes \cup {0}, faulty : BOOLEAN]

ASSUME FrontEndAssumption ==
    /\ Contents \subseteq Content
    /\ Within \subseteq Dirs \X Dirs
    /\ "auto" \in Managers
    /\ Versions \cup BuildTypes \subseteq Nat \ {0}

VARIABLES
    phase,       \* describing, frozen, resolving, reading, configured, rejected or refused
    root,        \* the project that is built, 0 before that
    content,     \* what the projects of its tree contain
    installed,   \* the packages that find_package() finds on this machine
    pending,     \* projects whose packages are still to be collected
    chosen,      \* the collected packages: a version, or 0
    reading,     \* the stack of list files that CMake is reading
    read,        \* the projects whose list files it has read
    fetched,     \* packages that were fetched: by which project, and whether with PIC
    buildType    \* CMAKE_BUILD_TYPE in the cache, 0 while unset

tools == <<installed, reading, read, fetched, buildType>>
frontVars == <<phase, root, content, pending, chosen, tools>>

NotFetched == [by |-> 0, pic |-> FALSE]

\* The projects of a project's tree, itself included. Children are younger
\* than their parents.
Tree(p) ==
    LET in[q \in Projects] ==
            q = p \/ \E m \in mounts : m.child = q /\ m.by < q /\ in[m.by]
    IN {q \in Projects : in[q]}

Kids(p) == {m \in mounts : m.by = p}
Needed(p) == {k \in Packages : content[p].needs[k] # 0}

Init ==
    /\ MountingInit
    /\ phase = "describing"
    /\ root = 0
    /\ content = <<>>
    /\ installed = {}
    /\ pending = {}
    /\ chosen = [k \in Packages |-> 0]
    /\ reading = <<>>
    /\ read = {}
    /\ fetched = [k \in Packages |-> NotFetched]
    /\ buildType = 0

-----------------------------------------------------------------------------
(* Describing, freezing, validating.                                       *)

Describe ==
    /\ phase = "describing"
    /\ MountingNext
    /\ UNCHANGED frontVars

\* build() on top level; in description mode it does nothing. What the scripts
\* have put into the projects matters from here on only.
Build(p) ==
    /\ phase = "describing"
    /\ ~raised
    /\ capture = <<>>
    /\ p \in Top.own
    /\ root' = p
    /\ content' \in [Tree(p) -> Contents]
    /\ installed' \in SUBSET Packages
    /\ phase' = "frozen"
    /\ UNCHANGED <<pending, chosen, reading, read, fetched, buildType, mountingVars>>

\* _check_subprojects for one parent.
MountsAreSound(p) ==
    /\ \A m \in Kids(p) : <<made[p].dir, m.dir>> \in Within
    /\ \A m, other \in Kids(p) : m.dir = other.dir => m = other

OneManager(p) == \A m \in Kids(p) : content[m.child].manager = content[p].manager

\* Mutant: each project is compared with its own children.
VersionsAgreeLocally(p) ==
    \A q \in Tree(p), m \in mounts, k \in Packages :
        m.by = q /\ k \in Needed(q) \cap Needed(m.child) =>
            content[q].needs[k] = content[m.child].needs[k]

VersionsAgree(p) ==
    \A q, r \in Tree(p), k \in Packages :
        k \in Needed(q) \cap Needed(r) => content[q].needs[k] = content[r].needs[k]

\* validate_project visits the whole tree and raises at the first fault.
Accepted ==
    /\ \A q \in Tree(root) : ~content[q].faulty /\ MountsAreSound(q) /\ OneManager(q)
    /\ VersionsAgree(root)

Validate ==
    /\ phase = "frozen"
    /\ phase' = IF Accepted THEN "resolving" ELSE "rejected"
    /\ pending' = IF Accepted THEN {root} ELSE {}
    /\ UNCHANGED <<root, content, chosen, tools, mountingVars>>

-----------------------------------------------------------------------------
(* Collecting the tree's packages, one per name.                           *)

\* The first project to be visited decides.
Merged(p) == [k \in Packages |-> IF chosen[k] = 0 THEN content[p].needs[k] ELSE chosen[k]]

\* Mutant: the visited project stays on the stack.
CollectTop(p) ==
    /\ phase = "resolving"
    /\ p \in pending
    /\ chosen' = Merged(p)
    /\ pending' = pending \cup {m.child : m \in Kids(p)}
    /\ UNCHANGED <<phase, root, content, tools, mountingVars>>

Collect(p) ==
    /\ phase = "resolving"
    /\ p \in pending
    /\ chosen' = Merged(p)
    /\ pending' = (pending \ {p}) \cup {m.child : m \in Kids(p)}
    /\ UNCHANGED <<phase, root, content, tools, mountingVars>>

\* The resolved tree is written, and CMake starts with the root's list file.
Emit ==
    /\ phase = "resolving"
    /\ pending = {}
    /\ phase' = "reading"
    /\ reading' = << [project |-> root, at |-> "defaults", pic |-> FALSE, found |-> {}] >>
    /\ UNCHANGED <<root, content, pending, chosen, installed, read, fetched, buildType,
                   mountingVars>>

-----------------------------------------------------------------------------
(* CMake reads the list files. A directory starts with its parent's normal   *)
(* variables and imported targets; fetched packages and the cache are        *)
(* shared by all.                                                            *)

File == reading[Len(reading)]
Reading(section) == phase = "reading" /\ File.at = section
readingUnchanged == UNCHANGED <<phase, root, content, pending, chosen, installed, mountingVars>>

\* Mutant: an optimize level is forced into the cache.
ForceDefaults ==
    /\ Reading("defaults")
    /\ buildType' = IF content[File.project].optimize = 0 THEN buildType
                    ELSE content[File.project].optimize
    /\ reading' = [reading EXCEPT ![Len(reading)] =
            [File EXCEPT !.at = "packages", !.pic = File.pic \/ content[File.project].shared]]
    /\ UNCHANGED <<read, fetched>>
    /\ readingUnchanged

\* _default_build_config: a build type unless there is one, and position-
\* independent code for all that is added from here on.
ReadDefaults ==
    /\ Reading("defaults")
    /\ buildType' = IF buildType = 0 THEN content[File.project].optimize ELSE buildType
    /\ reading' = [reading EXCEPT ![Len(reading)] =
            [File EXCEPT !.at = "packages", !.pic = File.pic \/ content[File.project].shared]]
    /\ UNCHANGED <<read, fetched>>
    /\ readingUnchanged

\* find_package() finds what is installed, and everything that another
\* manager than "auto" has to provide.
FoundHere ==
    IF content[File.project].manager = "auto" THEN Needed(File.project) \cap installed
    ELSE Needed(File.project)

ToFetch == {k \in Needed(File.project) \ FoundHere : fetched[k] = NotFetched}

\* Mutant: position-independent code is switched on after the packages.
ReadPackagesEarly ==
    /\ Reading("packages")
    /\ fetched' = [k \in Packages |->
            IF k \in ToFetch
            THEN [by |-> File.project,
                  pic |-> Len(reading) > 1 /\ reading[Len(reading) - 1].pic]
            ELSE fetched[k]]
    /\ reading' = [reading EXCEPT ![Len(reading)] =
            [File EXCEPT !.at = "subprojects", !.found = File.found \cup FoundHere]]
    /\ UNCHANGED <<read, buildType>>
    /\ readingUnchanged

\* Mutant: a package that any project has declared is not declared again.
ReadPackagesOnce ==
    /\ Reading("packages")
    /\ fetched' = [k \in Packages |->
            IF k \in ToFetch THEN [by |-> File.project, pic |-> File.pic] ELSE fetched[k]]
    /\ reading' = [reading EXCEPT ![Len(reading)] =
            [File EXCEPT !.at = "subprojects",
                         !.found = File.found \cup {k \in FoundHere : \A q \in read : k \notin Needed(q)}]]
    /\ UNCHANGED <<read, buildType>>
    /\ readingUnchanged

\* One block per package: find it, or fetch it unless its targets exist.
ReadPackages ==
    /\ Reading("packages")
    /\ fetched' = [k \in Packages |->
            IF k \in ToFetch THEN [by |-> File.project, pic |-> File.pic] ELSE fetched[k]]
    /\ reading' = [reading EXCEPT ![Len(reading)] =
            [File EXCEPT !.at = "subprojects", !.found = File.found \cup FoundHere]]
    /\ UNCHANGED <<read, buildType>>
    /\ readingUnchanged

\* The binary directory of a subproject follows from its own.
Used(d) ==
    \/ \E q \in read : made[q].dir = d
    \/ \E i \in 1 .. Len(reading) : made[reading[i].project].dir = d

\* add_subdirectory(), in the order of the directories' names.
ReadSubproject(m) ==
    /\ Reading("subprojects")
    /\ m \in Kids(File.project)
    /\ m.child \notin read
    /\ ~Used(m.dir)
    /\ reading' = Append(reading,
            [project |-> m.child, at |-> "defaults", pic |-> File.pic, found |-> File.found])
    /\ UNCHANGED <<read, fetched, buildType>>
    /\ readingUnchanged

\* CMake refuses a second subdirectory with the same binary directory.
RefuseSubproject(m) ==
    /\ Reading("subprojects")
    /\ m \in Kids(File.project)
    /\ m.child \notin read
    /\ Used(m.dir)
    /\ phase' = "refused"
    /\ UNCHANGED <<root, content, pending, chosen, tools, mountingVars>>

\* The targets, after which the file is done.
ReadTargets ==
    /\ Reading("subprojects")
    /\ \A m \in Kids(File.project) : m.child \in read
    /\ read' = read \cup {File.project}
    /\ reading' = Popped(reading)
    /\ phase' = IF Len(reading) = 1 THEN "configured" ELSE phase
    /\ UNCHANGED <<root, content, pending, chosen, installed, fetched, buildType, mountingVars>>

-----------------------------------------------------------------------------

BuildStep ==
    \/ Validate
    \/ \E p \in Projects : Collect(p)
    \/ Emit
    \/ ReadDefaults \/ ReadPackages
    \/ \E m \in mounts : ReadSubproject(m) \/ RefuseSubproject(m)
    \/ ReadTargets

Next == Describe \/ (\E p \in Projects : Build(p)) \/ BuildStep

vars == <<mountingVars, frontVars>>

Spec == Init /\ [][Next]_vars

\* A script may loop forever; what build() does is done by this program and
\* by CMake, which keep going.
FairSpec == Spec /\ WF_vars(BuildStep)

-----------------------------------------------------------------------------
(* Properties.                                                             *)

Emitted == phase \in {"reading", "configured", "refused"}

\* What is resolved once for the whole tree is what every project has asked
\* for: its version, and a url and a hash where its list file fetches, which
\* the emitter only asserts ("the auto strategy must pin a URL").
EmittedAsDeclared ==
    Emitted => \A p \in Tree(root) :
        /\ \A k \in Needed(p) : chosen[k] = content[p].needs[k]
        /\ content[p].manager = "auto" => content[root].manager = "auto"

TargetsOf(i) == reading[i].at = "subprojects"

\* When CMake comes to a project's targets, all they link exists there:
\* imported targets only do in the directory that has found them and below it.
PackagesBeforeTargets ==
    \A i \in 1 .. Len(reading) : TargetsOf(i) =>
        \A k \in Needed(reading[i].project) :
            k \in reading[i].found \/ fetched[k] # NotFetched

\* What a shared object links is position-independent code ("everything it
\* links into one, including dependencies built as subprojects"): all packages
\* that a project with one has fetched, and those that the projects below it
\* have, whether or not they link a shared object themselves.
SharedLinksPIC ==
    \A p \in Tree(root), k \in Packages :
        content[p].shared /\ fetched[k].by \in Tree(p) => fetched[k].pic

\* A subproject does not change the build type that the root asks for.
RootTypeWins ==
    phase = "configured" /\ content[root].optimize # 0 => buildType = content[root].optimize

\* Every build() has a result.
BuildEnds == (phase = "frozen") ~> (phase \in {"configured", "rejected", "refused"})
=============================================================================
