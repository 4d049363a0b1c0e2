----------------------------- MODULE ProjectBuild -----------------------------
(***************************************************************************)
(* One project from its script to its artifacts. The script describes it   *)
(* (Description), asks CMake about the files that it includes (Reflection) *)
(* and calls build(): the description is frozen and checked (Validation),  *)
(* with the search for link cycles between the checks (LinkGraph); the tests*)
(* that need a copy of shared libraries are found, CMakeLists.txt is written*)
(* (Emission), CMake reads it section by section, and a parallel build makes*)
(* the generated files and the targets in any order that their inputs allow.*)
(*                                                                         *)
(* Resolution stands between the checks and the emitter and has a module of *)
(* its own; here the machine decides which packages it lacks.               *)
(***************************************************************************)
EXTENDS LinkGraph, Emission

CONSTANT Reserved   \* target names that CMake keeps for itself

\* The libraries and imported targets of LinkGraph are those of the scripts.
ASSUME ProjectBuildAssumption ==
    \A t \in Topics : \A c \in Script(t) :
        /\ c.op = "add_target" /\ c.node.kind \in LibraryKinds => c.node.name \in Libraries
        /\ c.op = "depends" => c.package.gives \subseteq Imported

VARIABLES
    phase,      \* how far the build() call is
    model,      \* the frozen project; the new one before that
    fault,      \* the check that has raised
    scanning,   \* the test whose links are being searched
    scanned,    \* the tests whose links have been
    stack,      \* what is still to be looked at
    seen,       \* the libraries that have been
    copies,     \* the tests that get a copy of shared libraries
    lacking,    \* the packages that this machine does not have
    at,         \* how many sections CMake has read
    known,      \* the facts from those that it has read
    waiting,    \* what the blocks so far want to find in the end
    done        \* the generated files and the targets that are built

searchVars == <<links, roots, path, untried, finished, verdict, cycle>>
scanVars == <<scanning, scanned, stack, seen, copies>>
cmakeVars == <<lacking, at, known, waiting, done>>
buildVars == <<phase, model, fault, scanVars, cmakeVars>>
projectVars == <<descriptionVars, reflectionVars, searchVars, buildVars>>

Phases == {"describing", "checking", "searching", "checking on", "scanning", "reading",
           "building", "raised", "rejected", "refused", "built", "stuck"}

Ended == {"raised", "rejected", "refused", "built", "stuck"}

NoLinks == [t \in Targets |-> {}]

ProjectInit ==
    /\ DescriptionInit
    /\ ReflectionInit
    /\ links = NoLinks /\ untried = NoLinks
    /\ roots = {} /\ path = <<>> /\ finished = {}
    /\ verdict = "searching" /\ cycle = <<>>
    /\ phase = "describing"
    /\ model = project
    /\ fault = "none"
    /\ scanning = Nobody /\ scanned = {} /\ stack = {} /\ seen = {} /\ copies = {}
    /\ lacking = {} /\ at = 0 /\ known = {} /\ waiting = {} /\ done = {}

-----------------------------------------------------------------------------
(* The script, and build().                                                *)

\* A call, but for what include() does before it returns.
Describe ==
    /\ phase = "describing"
    /\ DescriptionNext
    /\ Returned
    /\ UNCHANGED <<searchVars, buildVars>>

Reflect ==
    /\ phase = "describing"
    /\ ReflectionNext
    /\ UNCHANGED <<descriptionVars, searchVars, buildVars>>

\* The script ends with the exception of a call.
Die ==
    /\ phase = "describing"
    /\ raised \/ stage = "failed"
    /\ phase' = "raised"
    /\ UNCHANGED <<descriptionVars, reflectionVars, searchVars, model, fault, scanVars, cmakeVars>>

Build ==
    /\ phase = "describing"
    /\ ~raised
    /\ stage = "idle"
    /\ OpeningIsOver
    /\ IF Freezes(project)
       THEN phase' = "checking" /\ model' = Frozen(project)
       ELSE phase' = "raised" /\ UNCHANGED model
    /\ UNCHANGED <<descriptionVars, reflectionVars, searchVars, fault, scanVars, cmakeVars>>

RejectAt(check) ==
    /\ phase' = "rejected"
    /\ fault' = check
    /\ UNCHANGED <<descriptionVars, reflectionVars, searchVars, model, scanVars, cmakeVars>>

Check ==
    /\ phase = "checking"
    /\ ~Passes(Checks(model))
    /\ RejectAt(Fault(Checks(model)))

\* The libraries and their links are handed to the search for cycles.
BeginSearch ==
    /\ phase = "checking"
    /\ Passes(Checks(model))
    /\ phase' = "searching"
    /\ links' = [n \in Targets |->
                    UNION {{l.to : l \in t.links} : t \in {t \in Ours(model) : t.name = n}}]
    /\ untried' = links'
    /\ roots' = {t.name : t \in Ours(model)}
    /\ UNCHANGED <<descriptionVars, reflectionVars, path, finished, verdict, cycle,
                   model, fault, scanVars, cmakeVars>>

\* A step of LinkGraph.
Search ==
    /\ phase = "searching"
    /\ Next
    /\ phase' = CASE verdict' = "searching" -> "searching"
                  [] verdict' = "acyclic"   -> "checking on"
                  [] verdict' = "cyclic"    -> "rejected"
    /\ UNCHANGED <<descriptionVars, reflectionVars, model, fault, scanVars, cmakeVars>>

CheckOn ==
    /\ phase = "checking on"
    /\ ~Passes(ChecksAfterCycles(model))
    /\ RejectAt(Fault(ChecksAfterCycles(model)))

AcceptProject ==
    /\ phase = "checking on"
    /\ Passes(ChecksAfterCycles(model))
    /\ phase' = "scanning"
    /\ UNCHANGED <<descriptionVars, reflectionVars, searchVars, model, fault, scanVars, cmakeVars>>

-----------------------------------------------------------------------------
(* _links_shared_library: what a test links, directly or through others.    *)

Internal(t) == {l.to : l \in {l \in t.links : ~l.external}}

StartScan ==
    /\ phase = "scanning"
    /\ scanning = Nobody
    /\ \E t \in Of(model, {"test"}) :
          /\ t.name \notin scanned
          /\ scanning' = t.name
          /\ stack' = Internal(t)
    /\ seen' = {}
    /\ UNCHANGED <<descriptionVars, reflectionVars, searchVars, phase, model, fault,
                   scanned, copies, cmakeVars>>

\* Mutant: only what a library links publicly is followed.
VisitPublic(t) ==
    /\ t.name \in stack \ seen
    /\ IF t.kind = "shared"
       THEN copies' = copies \cup {scanning} /\ stack' = {} /\ seen' = seen
       ELSE /\ seen' = seen \cup {t.name}
            /\ stack' = (stack \ {t.name}) \cup {l.to : l \in {l \in t.links : l.public}}
            /\ copies' = copies

\* The next library from the stack: the search ends with the first shared one.
Visit(t) ==
    /\ t.name \in stack \ seen
    /\ IF t.kind = "shared"
       THEN copies' = copies \cup {scanning} /\ stack' = {} /\ seen' = seen
       ELSE /\ seen' = seen \cup {t.name}
            /\ stack' = (stack \ {t.name}) \cup Internal(t)
            /\ copies' = copies

SkipSeen(n) ==
    /\ n \in stack \cap seen
    /\ stack' = stack \ {n}
    /\ UNCHANGED <<seen, copies>>

Scan ==
    /\ scanning # Nobody
    /\ \/ \E t \in Ours(model) : Visit(t)
       \/ \E n \in stack : SkipSeen(n)
    /\ UNCHANGED <<descriptionVars, reflectionVars, searchVars, phase, model, fault,
                   scanning, scanned, cmakeVars>>

EndScan ==
    /\ scanning # Nobody
    /\ stack = {}
    /\ scanned' = scanned \cup {scanning}
    /\ scanning' = Nobody
    /\ UNCHANGED <<descriptionVars, reflectionVars, searchVars, phase, model, fault,
                   stack, seen, copies, cmakeVars>>

-----------------------------------------------------------------------------
(* CMake reads what has been written.                                      *)

\* The files are written; which packages find_package() will find is open.
Write ==
    /\ phase = "scanning"
    /\ scanning = Nobody
    /\ scanned = {t.name : t \in Of(model, {"test"})}
    /\ phase' = "reading"
    /\ lacking' \in SUBSET (IF model.manager = "auto" THEN model.packages ELSE {})
    /\ at' = 0
    /\ known' = {<<"file", f>> : f \in Files} \cup {<<"target", n>> : n \in Reserved} \cup Runnable
    /\ waiting' = {}
    /\ UNCHANGED <<descriptionVars, reflectionVars, searchVars, model, fault, scanVars, done>>

\* A target and the output of a command can be added once only. Imported targets
\* have their names in common with all others: none can be added that has been
\* imported, while packages leave alone what they find there.
Once == {"target", "output"}
Twice(section) ==
    \E b \in section : \E f \in b.gives :
        /\ f[1] \in Once
        /\ \/ f \in known
           \/ f[1] = "target" /\ <<"imported", f[2]>> \in known
           \/ \E other \in section \ {b} : f \in other.gives

\* Which of two packages comes first is open.
MayMeet(section) ==
    \E b \in section : \E f \in b.gives :
        /\ f[1] = "target"
        /\ \E other \in section \ {b} : <<"imported", f[2]>> \in other.gives

\* Targets and their settings see the blocks of their own section.
ReadSection ==
    /\ phase = "reading"
    /\ at < Len(Sections(model, lacking))
    /\ LET section == Sections(model, lacking)[at + 1]
           met     == UNION {b.needs : b \in section} \subseteq known
       IN  \/ /\ Twice(section) \/ MayMeet(section) \/ ~met
              /\ phase' = "refused"
              /\ UNCHANGED <<at, known, waiting>>
           \/ /\ ~Twice(section) /\ met
              /\ known' = known \cup UNION {b.gives : b \in section}
              /\ waiting' = waiting \cup UNION {b.later : b \in section}
              /\ at' = at + 1
              /\ UNCHANGED phase
    /\ UNCHANGED <<descriptionVars, reflectionVars, searchVars, model, fault, scanVars,
                   lacking, done>>

Generate ==
    /\ phase = "reading"
    /\ at = Len(Sections(model, lacking))
    /\ phase' = IF waiting \subseteq known THEN "building" ELSE "refused"
    /\ UNCHANGED <<descriptionVars, reflectionVars, searchVars, model, fault, scanVars, cmakeVars>>

-----------------------------------------------------------------------------
(* The build. A path is the source file of that name when there is one, and *)
(* the output of a command otherwise.                                      *)

Missing(paths) == {p \in paths \ Files : <<"output", p>> \notin done}
Goals == {<<"target", t.name>> : t \in Elements(model.targets)}

\* The commands that the targets of a model need, directly or for other commands.
Wanted(m) ==
    LET inputs[n \in 0 .. Len(m.commands)] ==
            IF n = 0
            THEN UNION {t.sources \cup t.modules : t \in Elements(m.targets)}
            ELSE UNION {c.depends : c \in {c \in Elements(m.commands) :
                                             c.outputs \cap (inputs[n - 1] \ Files) # {}}}
    IN  {c \in Elements(m.commands) :
            \E n \in DOMAIN inputs : c.outputs \cap (inputs[n] \ Files) # {}}

Undone(c) == {<<"output", o>> : o \in c.outputs} \ done # {}
CanRun(c) == Undone(c) /\ Missing(c.depends) = {}

RunCommand(c) ==
    /\ CanRun(c)
    /\ done' = done \cup {<<"output", o>> : o \in c.outputs}

CanMake(t) ==
    /\ <<"target", t.name>> \notin done
    /\ Missing(t.sources \cup t.modules) = {}
    /\ \A n \in Internal(t) : <<"target", n>> \in done

MakeTarget(t) ==
    /\ CanMake(t)
    /\ done' = done \cup {<<"target", t.name>>}

Work ==
    /\ phase = "building"
    /\ \/ \E c \in Wanted(model) : RunCommand(c)
       \/ \E t \in Elements(model.targets) : MakeTarget(t)
    /\ UNCHANGED <<descriptionVars, reflectionVars, searchVars, phase, model, fault, scanVars,
                   lacking, at, known, waiting>>

\* The build is complete, or no job that is left can ever start.
EndBuild ==
    /\ phase = "building"
    /\ \/ Goals \subseteq done /\ phase' = "built"
       \/ /\ ~(Goals \subseteq done)
          /\ ~\E c \in Wanted(model) : CanRun(c)
          /\ ~\E t \in Elements(model.targets) : CanMake(t)
          /\ phase' = "stuck"
    /\ UNCHANGED <<descriptionVars, reflectionVars, searchVars, model, fault, scanVars, cmakeVars>>

\* The script is run again when the last run has ended or was killed while it
\* was describing. The files may have been edited, and build/ removed by clean().
RunAgain ==
    /\ topic.again
    /\ phase \in Ended \cup {"describing"}
    /\ said' = 0 /\ project' = NewProject(topic.name, topic.std) /\ raised' = FALSE
    /\ content' \in topic.drafts
    /\ scratch' \in {scratch, NoScratch}
    /\ stage' = "idle" /\ asked' = Nobody /\ report' = NoReport
    /\ links' = NoLinks /\ untried' = NoLinks
    /\ roots' = {} /\ path' = <<>> /\ finished' = {}
    /\ verdict' = "searching" /\ cycle' = <<>>
    /\ phase' = "describing"
    /\ model' = project'
    /\ fault' = "none"
    /\ scanning' = Nobody /\ scanned' = {} /\ stack' = {} /\ seen' = {} /\ copies' = {}
    /\ lacking' = {} /\ at' = 0 /\ known' = {} /\ waiting' = {} /\ done' = {}
    /\ UNCHANGED topic

ProjectNext ==
    \/ RunAgain \/ Describe \/ Reflect \/ Die \/ Build
    \/ Check \/ BeginSearch \/ Search \/ CheckOn \/ AcceptProject
    \/ StartScan \/ Scan \/ EndScan \/ Write \/ ReadSection \/ Generate \/ Work \/ EndBuild

ProjectSpec == ProjectInit /\ [][ProjectNext]_projectVars

\* The script may stop calling and nobody has to run it again, but what build()
\* has begun is not put off for ever.
FairProjectSpec ==
    ProjectSpec /\ WF_projectVars(phase \notin Ended \cup {"describing"} /\ ProjectNext)

-----------------------------------------------------------------------------
(* Properties.                                                             *)

Accepted == phase \in {"scanning", "reading", "building", "refused", "built", "stuck"}

ProjectTypeOK ==
    /\ DescriptionTypeOK
    /\ ReflectionTypeOK
    /\ TypeOK
    /\ phase \in Phases
    /\ model \in ProjectModel
    /\ scanned \cup copies \subseteq Names
    /\ stack \cup seen \subseteq Libraries

\* Names that are taken when CMake comes to the targets: its own, those that
\* included files have added, "test" since enable_testing(), those of the source
\* trees that it fetches, imported ones and those of subprojects.
TestName == IF Of(model, {"test"}) = {} THEN {} ELSE {"test"}
Inner == UNION {p.inner : p \in lacking}
Taken ==
    Reserved \cup AddedByFiles(model) \cup TestName \cup Inner \cup Provided(model)
    \cup model.children

Own == NamesOf(model.targets) \cup NamesOf(model.customs)
Stubs == UNION {Stub(t) : t \in Elements(model.targets)}

NameIsTaken == (Own \cup Stubs) \cap Taken # {} \/ Own \cap Stubs # {}

\* Some of them can meet without the project.
OthersMeet ==
    \/ Reserved \cap (AddedByFiles(model) \cup TestName \cup Inner \cup model.children) # {}
    \/ AddedByFiles(model) \cap (TestName \cup Inner \cup Provided(model) \cup model.children) # {}
    \/ TestName \cap (Inner \cup model.children) # {}
    \/ model.children \cap (Inner \cup Provided(model)) # {}
    \/ \E p \in lacking, q \in model.packages :
          p # q /\ p.inner \cap (q.gives \cup IF q \in lacking THEN q.inner ELSE {}) # {}
    \/ \E f, g \in Included(model) : f # g /\ FileTargets(f) \cap FileTargets(g) # {}

\* An included file fails in the project, whether include() could run it or not.
IncludeFails == \E f \in Included(model) : ~(RunNeeds(model, f) \subseteq Runnable)

TwoMakeOneFile ==
    \E i, j \in DOMAIN model.commands :
        i # j /\ model.commands[i].outputs \cap model.commands[j].outputs # {}

Exported ==
    {x.target : x \in Elements(model.installs)}
    \cup UNION {ExportedBy(model, p, lacking) : p \in model.packages}

ExportIsOpen ==
    \E x \in Elements(model.installs), t \in Ours(model) :
        t.name = x.target /\ ~(Travels(model, t) \subseteq Exported)

\* A project that passes the checks is one that CMake accepts, but for names
\* that something outside the project has taken, included files that fail, two
\* commands that make one file, and installed libraries that link one that is not
\* installed.
RefusedForKnownReasons ==
    phase = "refused" =>
        NameIsTaken \/ OthersMeet \/ IncludeFails \/ TwoMakeOneFile \/ ExportIsOpen

\* The build of a configured project stops short only when the commands that it
\* needs wait for each other in a circle, and then it always does.
StuckOnlyInCircles ==
    LET circle == \E s \in SUBSET Wanted(model) :
            s # {} /\ \A c \in s : c.depends \cap ((UNION {d.outputs : d \in s}) \ Files) # {}
    IN  /\ phase = "stuck" => circle
        /\ phase = "built" => ~circle

\* A set of libraries with all that a target in it links.
Closed(S) == \A x \in Ours(model) : x.name \in S => Internal(x) \subseteq S

\* What a target links, directly or through others: it is in every set that has
\* the target's own links and is closed.
Reaches(t, x) ==
    \A S \in SUBSET Libraries : Internal(t) \subseteq S /\ Closed(S) => x.name \in S

\* A test gets a copy of shared libraries exactly when it reaches one, whatever
\* the links on the way are.
CopiesAreNeeded ==
    \A t \in Of(model, {"test"}) : t.name \in scanned =>
        (t.name \in copies <=> \E x \in Ours(model) : x.kind = "shared" /\ Reaches(t, x))

\* What a script says of a target reaches the list file, or the script is
\* rejected: only lint() on a header-only library is ignored.
NothingIsIgnored ==
    Accepted => \A t \in Elements(model.targets) :
        LET Said(part, condition) == condition => part \in Parts(t)
        IN  /\ Said("sources", t.sources # {})
            /\ Said("modules", t.modules # {})
            /\ Said("dirs", t.dirs # {})
            /\ Said("sanitize", t.settings.sanitize # {})
            /\ Said("lint", t.settings.lint /\ ~HeaderOnly(t))

\* A preset that says how to optimize is built with that type, the one that Conan
\* is told, whatever the preset that it inherits from says, and every preset has a
\* toolchain file that exists or has been written. "debug" is also what a preset
\* has that says nothing. When it inherits it should have the type of the other
\* one (docs/FEATURES.md, "inherits unset settings" in api/presets.py), which it has
\* not: no claim is made of it.
PresetsAreKept ==
    Accepted => \A x \in Elements(model.presets) :
        /\ x.optimize # "debug" \/ x.inherits = Nobody =>
              CMakeType(PresetEntries(model), x.name) = BuildType[x.optimize]
        /\ x.toolchain # Nobody =>
              PresetEntry(model, x).toolchain \in {<<f>> : f \in Files} \cup WrittenToolchains(model)

\* A call of build() ends.
BuildCallEnds == phase # "describing" ~> phase \in Ended
=============================================================================
