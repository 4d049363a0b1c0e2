-------------------------- MODULE ProjectBuildProofs --------------------------
(***************************************************************************)
(* What holds of a build() call for every script. What the checks accept    *)
(* stays accepted, because the model is frozen: from the checks follow that *)
(* the search for cycles starts from a graph of known targets, that nothing *)
(* a script says of a target is lost, and that the search for shared        *)
(* libraries below a test only meets libraries. The latter is a reachability*)
(* argument: what has been seen, or still is on the stack, is all reachable *)
(* and is closed under links but for the stack. That presets inherit no type*)
(* is a pigeonhole argument: a chain that is longer than there are presets  *)
(* meets itself, so a chain without a circle has ended by then. That only   *)
(* circles of commands stop the build rests on the same counting, since     *)
(* what is wanted settles within as many levels as there are commands, and  *)
(* on what is done having been made from what was there. That CMake accepts *)
(* what passes the checks, but for the reasons known, goes section by       *)
(* section: those before give what each one needs.                          *)
(***************************************************************************)
EXTENDS DescriptionProofs, LinkGraphProofs, FiniteSetTheorems, WellFoundedInduction

Quiet == path = <<>> /\ finished = {} /\ verdict = "searching" /\ cycle = <<>>

Checked == Passes(Checks(model))

ReachesShared(t) == \E x \in Ours(model) : x.kind = "shared" /\ Reaches(t, x)

\* What the search below a test knows so far, unless it has found what it wants.
Explored(t) ==
    /\ Internal(t) \subseteq seen \cup stack
    /\ \A x \in Ours(model) : x.name \in seen =>
          x.kind # "shared" /\ Internal(x) \subseteq seen \cup stack
    /\ \A n \in seen \cup stack : \A S \in SUBSET Libraries :
          Internal(t) \subseteq S /\ Closed(S) => n \in S

ScanOf(t) ==
    /\ t.name = scanning
    /\ scanning \in copies => stack = {} /\ ReachesShared(t)
    /\ scanning \notin copies => Explored(t)

ScanTyped ==
    /\ scanning \in Names \cup {Nobody}
    /\ scanned \cup copies \subseteq Names
    /\ stack \cup seen \subseteq Libraries

ScanInv ==
    /\ ~Accepted => scanning = Nobody /\ scanned = {}
    /\ copies \subseteq scanned \cup {scanning}
    /\ scanning # Nobody =>
          /\ phase = "scanning"
          /\ scanning \notin scanned
          /\ \E t \in Of(model, {"test"}) : ScanOf(t)
    /\ CopiesAreNeeded

Progress ==
    /\ phase \in Phases
    /\ SoundProject(model)
    /\ phase \in {"describing", "checking"} => Quiet
    /\ phase \in {"searching", "checking on"} \/ Accepted => Checked

ProjectInv == DescriptionInv /\ Inv /\ Progress /\ ScanTyped /\ ScanInv

-----------------------------------------------------------------------------
(* What the checks say.                                                    *)

LEMMA FirstChecks ==
    ASSUME NEW m, Passes(Checks(m))
    PROVE  /\ CheckTargetNames(m) /\ CheckSources(m) /\ CheckCxxModules(m)
           /\ CheckIncludeDirs(m) /\ CheckLibraries(m) /\ CheckSanitizers(m)
           /\ CheckDependencies(m) /\ CheckLinks(m)
  <1> DEFINE checks == Checks(m)
  <1>1. DOMAIN checks = 1 .. 13
    BY DEF Checks
  <1>2. checks[4][2] /\ checks[5][2] /\ checks[6][2] /\ checks[7][2] /\ checks[9][2]
        /\ checks[11][2] /\ checks[12][2] /\ checks[13][2]
    BY <1>1 DEF Passes
  <1>3. /\ checks[4][2] = CheckTargetNames(m) /\ checks[5][2] = CheckSources(m)
        /\ checks[6][2] = CheckCxxModules(m) /\ checks[7][2] = CheckIncludeDirs(m)
        /\ checks[9][2] = CheckLibraries(m) /\ checks[11][2] = CheckSanitizers(m)
        /\ checks[12][2] = CheckDependencies(m) /\ checks[13][2] = CheckLinks(m)
    BY DEF Checks
  <1> QED
    BY <1>2, <1>3

LEMMA NamesAreUnique ==
    ASSUME Checked, NEW t \in Elements(model.targets), NEW u \in Elements(model.targets),
           t.name = u.name
    PROVE  t = u
  BY FirstChecks DEF Checked, CheckTargetNames, WellNamed, Elements

\* The libraries of the model, and what their links lead to.
LEMMA LinksLeadToTargets ==
    ASSUME SoundProject(model), Checked
    PROVE  /\ \A t \in Ours(model) : t.name \in Libraries
           /\ \A t \in Elements(model.targets) : Internal(t) \subseteq {x.name : x \in Ours(model)}
           /\ \A t \in Elements(model.targets) : Internal(t) \subseteq Libraries
           /\ \A t \in Ours(model) : {l.to : l \in t.links} \subseteq Targets
  <1>1. ASSUME NEW t \in Elements(model.targets)
        PROVE  Sound(t)
    BY DEF SoundProject, Elements
  <1>2. ASSUME NEW t \in Ours(model)
        PROVE  t.name \in Libraries /\ \A l \in t.links : l.external => l.to \in Imported
    BY <1>1 DEF Ours, Sound
  <1>3. ASSUME NEW t \in Elements(model.targets), NEW l \in t.links, ~l.external
        PROVE  l.to \in {x.name : x \in Ours(model)}
    BY <1>3, FirstChecks DEF Checked, CheckLinks
  <1>4. ASSUME NEW t \in Elements(model.targets)
        PROVE  /\ Internal(t) \subseteq {x.name : x \in Ours(model)}
               /\ Internal(t) \subseteq Libraries
    BY <1>2, <1>3 DEF Internal
  <1>5. ASSUME NEW t \in Ours(model)
        PROVE  {l.to : l \in t.links} \subseteq Targets
    BY <1>2, <1>3 DEF Targets, Ours
  <1> QED
    BY <1>2, <1>4, <1>5

-----------------------------------------------------------------------------
(* The search for link cycles.                                             *)

\* A search that has not begun.
Ready ==
    /\ links \in [Targets -> SUBSET Targets]
    /\ \A t \in Imported \ Libraries : links[t] = {}
    /\ untried = links
    /\ roots \in SUBSET Libraries
    /\ \A r \in Libraries \ roots : links[r] = {}
    /\ Quiet

LEMMA ReadyInv == Ready => Inv
  <1> SUFFICES ASSUME Ready PROVE Inv
    OBVIOUS
  <1> USE DEF Ready, Quiet
  <1>1. path \in Seq(Targets) /\ cycle \in Seq(Targets) /\ Len(path) = 0
    OBVIOUS
  <1>2. TypeOK
    BY <1>1 DEF TypeOK
  <1>3. FinishedAreFree
    BY DEF FinishedAreFree
  <1>4. PathFollowsLinks /\ TriedAreFinished
    BY <1>1 DEF PathFollowsLinks, TriedAreFinished
  <1>5. UnvisitedAreUntried /\ FinishedAreClosed /\ RootsAreSearched
    BY DEF UnvisitedAreUntried, FinishedAreClosed, RootsAreSearched
  <1> QED
    BY <1>2, <1>3, <1>4, <1>5 DEF Inv, Searching, LinksKnown, ReportedCycleIsReal

\* A run of the script starts, the first one or a later one.
Fresh ==
    /\ DescriptionInit
    /\ links = NoLinks /\ untried = NoLinks /\ roots = {} /\ Quiet
    /\ phase = "describing" /\ model = project
    /\ scanning = Nobody /\ scanned = {} /\ stack = {} /\ seen = {} /\ copies = {}

LEMMA FreshInv == Fresh => ProjectInv
  <1> SUFFICES ASSUME Fresh PROVE ProjectInv
    OBVIOUS
  <1>1. DescriptionInv
    BY DescriptionStarts DEF Fresh
  <1>2. Inv
    <2>1. links \in [Targets -> SUBSET Targets] /\ \A t \in Targets : links[t] = {}
      BY DEF Fresh, NoLinks
    <2>2. untried = links /\ roots = {} /\ Quiet
      BY DEF Fresh
    <2> QED
      BY <2>1, <2>2, ReadyInv DEF Ready, Targets
  <1>3. Progress
    BY <1>1 DEF Fresh, Progress, Phases, Quiet, DescriptionInv, Accepted
  <1>4. ScanTyped /\ ScanInv
    BY DEF Fresh, ScanTyped, ScanInv, Accepted, CopiesAreNeeded
  <1> QED
    BY <1>1, <1>2, <1>3, <1>4 DEF ProjectInv

LEMMA ProjectStarts == ProjectInit => ProjectInv /\ ReflectionInv
  <1> SUFFICES ASSUME ProjectInit PROVE ProjectInv /\ ReflectionInv
    OBVIOUS
  <1>1. Fresh
    BY DEF ProjectInit, Fresh, Quiet
  <1> QED
    BY <1>1, FreshInv, ReflectionStarts DEF ProjectInit

LEMMA RunAgainInv ==
    ASSUME ProjectInv, RunAgain
    PROVE  ProjectInv'
  <1>1. topic' \in Topics
    BY DEF RunAgain, ProjectInv, DescriptionInv, DescriptionTypeOK
  <1>2. Fresh'
    BY <1>1 DEF RunAgain, Fresh, DescriptionInit, Quiet, NoLinks, Targets
  <1>3. Fresh' => ProjectInv'
    BY FreshInv, PTL
  <1> QED
    BY <1>2, <1>3

-----------------------------------------------------------------------------
(* What steps leave alone.                                                 *)

LEMMA DescriptionKept ==
    ASSUME DescriptionInv, UNCHANGED descriptionVars
    PROVE  DescriptionInv'
  BY DEF DescriptionInv, DescriptionTypeOK, SoundProject, Sound, descriptionVars

LEMMA SearchKept ==
    ASSUME Inv, UNCHANGED searchVars
    PROVE  Inv'
  BY StepInv DEF searchVars, vars

\* Before the checks are over no test has been looked at.
LEMMA NotScanning ==
    ASSUME ScanTyped, ScanInv, ~Accepted, UNCHANGED scanVars
    PROVE  ScanTyped' /\ ScanInv'
  <1>1. scanned' = {} /\ scanning' = Nobody
    BY DEF ScanInv, scanVars
  <1>2. CopiesAreNeeded'
    BY <1>1 DEF CopiesAreNeeded
  <1> QED
    BY <1>1, <1>2 DEF ScanTyped, ScanInv, scanVars

\* Nor is any between two searches.
LEMMA BetweenScans ==
    ASSUME ScanTyped, ScanInv, Accepted', scanning = Nobody, UNCHANGED <<scanVars, model>>
    PROVE  ScanTyped' /\ ScanInv'
  <1>1. CopiesAreNeeded'
    BY DEF ScanInv, CopiesAreNeeded, scanVars, Reaches, Closed
  <1> QED
    BY <1>1 DEF ScanTyped, ScanInv, scanVars

-----------------------------------------------------------------------------
(* The steps before the project is accepted.                               *)

LEMMA BeginSearchInv ==
    ASSUME ProjectInv, BeginSearch
    PROVE  ProjectInv'
  <1> USE DEF BeginSearch
  <1> DEFINE named(n) == {t \in Ours(model) : t.name = n}
  <1>1. Checked /\ SoundProject(model) /\ Quiet /\ Quiet'
    BY DEF ProjectInv, Progress, Checked, Quiet
  <1>2. \A n \in Targets : \A t \in named(n) : {l.to : l \in t.links} \subseteq Targets
    BY <1>1, LinksLeadToTargets
  <1>3. links' \in [Targets -> SUBSET Targets]
    BY <1>2
  <1>4. \A n \in Targets : named(n) = {} => links'[n] = {}
    OBVIOUS
  <1>5. \A t \in Imported \ Libraries : links'[t] = {}
    BY <1>1, <1>4, LinksLeadToTargets DEF Targets
  <1>6. roots' \in SUBSET Libraries
    BY <1>1, LinksLeadToTargets
  <1>7. \A r \in Libraries \ roots' : links'[r] = {}
    BY <1>4 DEF Targets
  <1>8. Inv'
    <2>1. Ready'
      BY <1>1, <1>3, <1>5, <1>6, <1>7 DEF Ready
    <2>2. Ready' => Inv'
      BY ReadyInv, PTL
    <2> QED
      BY <2>1, <2>2
  <1>9. DescriptionInv'
    BY DescriptionKept DEF ProjectInv
  <1>10. Progress'
    BY <1>1 DEF Progress, Phases, Accepted, Checked, SoundProject, Sound
  <1>11. ScanTyped' /\ ScanInv'
    BY NotScanning DEF ProjectInv, Accepted
  <1> QED
    BY <1>8, <1>9, <1>10, <1>11 DEF ProjectInv

LEMMA SearchStepInv ==
    ASSUME ProjectInv, Search
    PROVE  ProjectInv'
  <1> USE DEF Search
  <1>1. DescriptionInv'
    BY DescriptionKept DEF ProjectInv
  <1>2. Inv'
    BY StepInv DEF ProjectInv
  <1>3. verdict' \in {"searching", "acyclic", "cyclic"}
    BY <1>2 DEF Inv, TypeOK
  <1>4. Progress'
    BY <1>3 DEF ProjectInv, Progress, Phases, Accepted, Checked, SoundProject, Sound
  <1>5. ScanTyped' /\ ScanInv'
    BY NotScanning DEF ProjectInv, Accepted
  <1> QED
    BY <1>1, <1>2, <1>4, <1>5 DEF ProjectInv

\* The calls of the script, build(), and the checks on both sides of the search.
LEMMA EarlyStepInv ==
    ASSUME ProjectInv,
           Describe \/ Reflect \/ Die \/ Build \/ Check \/ CheckOn \/ AcceptProject
    PROVE  ProjectInv'
  <1>1. UNCHANGED searchVars /\ UNCHANGED scanVars /\ ~Accepted
    BY DEF Describe, Reflect, Die, Build, Check, CheckOn, AcceptProject, RejectAt, buildVars, Accepted
  <1>2. Inv' /\ ScanTyped' /\ ScanInv'
    BY <1>1, SearchKept, NotScanning DEF ProjectInv
  <1>3. DescriptionInv'
    <2>1. CASE Describe
      BY <2>1, DescriptionStepInv DEF Describe, ProjectInv
    <2>2. CASE UNCHANGED descriptionVars
      BY <2>2, DescriptionKept DEF ProjectInv
    <2> QED
      BY <2>1, <2>2 DEF Reflect, Die, Build, Check, CheckOn, AcceptProject, RejectAt
  <1>4. Progress'
    <2>1. CASE Describe
      BY <2>1 DEF Describe, ProjectInv, Progress, SoundProject, Sound, Phases, Quiet, Checked,
         Accepted, searchVars, buildVars
    <2>2. CASE Build
      <3>1. SoundProject(model')
        BY <2>2, FrozenIsSound DEF Build, ProjectInv, Progress, DescriptionInv
      <3> QED
        BY <2>2, <3>1 DEF Build, ProjectInv, Progress, SoundProject, Sound, Phases, Quiet, Checked, Accepted,
           searchVars
    <2>3. CASE Reflect \/ Die \/ Check \/ CheckOn \/ AcceptProject
      BY <2>3 DEF Reflect, buildVars, Die, Check, CheckOn, AcceptProject, RejectAt, ProjectInv, Progress, SoundProject,
         Sound, Phases, Quiet, Checked, Accepted, searchVars
    <2> QED
      BY <2>1, <2>2, <2>3
  <1> QED
    BY <1>2, <1>3, <1>4 DEF ProjectInv

-----------------------------------------------------------------------------
(* The search for shared libraries below a test.                           *)

\* Everything but the scan stays as it is.
LEMMA ScanFrame ==
    ASSUME ProjectInv, StartScan \/ Scan \/ EndScan
    PROVE  /\ DescriptionInv' /\ Inv' /\ Progress'
           /\ phase = "scanning" /\ phase' = "scanning" /\ model' = model
           /\ Checked /\ SoundProject(model)
  <1>1. phase = "scanning" /\ phase' = "scanning" /\ model' = model
        /\ UNCHANGED descriptionVars /\ UNCHANGED searchVars
    BY DEF StartScan, Scan, EndScan, ProjectInv, ScanInv
  <1>2. DescriptionInv' /\ Inv'
    BY <1>1, DescriptionKept, SearchKept DEF ProjectInv
  <1>3. Checked /\ SoundProject(model)
    BY <1>1 DEF ProjectInv, Progress, Accepted
  <1>4. Progress'
    BY <1>1, <1>3 DEF Progress, Phases, SoundProject, Sound, Quiet, Accepted, Checked
  <1> QED
    BY <1>1, <1>2, <1>3, <1>4

LEMMA TestsAreNamed ==
    ASSUME SoundProject(model), NEW t \in Of(model, {"test"})
    PROVE  t \in Elements(model.targets) /\ t.name \in Names /\ t.name # Nobody
  <1>1. t \in Elements(model.targets)
    BY DEF Of
  <1>2. t \in TargetModel
    BY <1>1 DEF Elements, SoundProject, Sound
  <1> QED
    BY <1>1, <1>2, DescriptionAssumption DEF TargetModel

LEMMA StartScanInv ==
    ASSUME ProjectInv, StartScan
    PROVE  ProjectInv'
  <1>1. PICK t \in Of(model, {"test"}) :
            t.name \notin scanned /\ scanning' = t.name /\ stack' = Internal(t)
    BY DEF StartScan
  <1>2. /\ seen' = {} /\ scanned' = scanned /\ copies' = copies /\ model' = model
        /\ scanning = Nobody /\ phase' = "scanning"
    BY ScanFrame DEF StartScan
  <1>3. t \in Elements(model.targets) /\ t.name \in Names /\ t.name # Nobody
        /\ Internal(t) \subseteq Libraries
    BY ScanFrame, TestsAreNamed, LinksLeadToTargets
  <1>4. scanning' \notin copies'
    BY <1>1, <1>2, <1>3 DEF ProjectInv, ScanInv
  <1>5. Explored(t)'
    BY <1>1, <1>2 DEF Explored, Closed
  <1>6. CopiesAreNeeded'
    BY <1>2 DEF ProjectInv, ScanInv, CopiesAreNeeded, Reaches, Closed
  <1>7. ScanTyped'
    BY <1>1, <1>2, <1>3 DEF ProjectInv, ScanTyped
  <1>8. ScanOf(t)'
    BY <1>1, <1>4, <1>5 DEF ScanOf
  <1>9. t \in Of(model, {"test"})'
    BY <1>2
  <1>10. copies' \subseteq scanned' \cup {scanning'}
    BY <1>2, DescriptionAssumption DEF ProjectInv, ScanInv, ScanTyped
  <1>11. ScanInv'
    BY <1>1, <1>2, <1>6, <1>8, <1>9, <1>10 DEF ScanInv, Accepted
  <1> QED
    BY <1>7, <1>11, ScanFrame DEF ProjectInv

\* What a reachable library links is reachable.
LEMMA ReachedFurther ==
    ASSUME NEW t, NEW x \in Ours(model),
           \A S \in SUBSET Libraries : Internal(t) \subseteq S /\ Closed(S) => x.name \in S,
           NEW n \in Internal(x)
    PROVE  \A S \in SUBSET Libraries : Internal(t) \subseteq S /\ Closed(S) => n \in S
  BY DEF Closed

LEMMA VisitInv ==
    ASSUME ProjectInv, Scan, scanning \notin copies,
           NEW t \in Of(model, {"test"}), t.name = scanning, Explored(t),
           NEW x \in Ours(model), Visit(x)
    PROVE  ScanOf(t)' /\ ScanTyped' /\ copies' \subseteq copies \cup {scanning}
  <1>1. scanning' = scanning /\ scanned' = scanned /\ model' = model
    BY DEF Scan
  <1>2. Internal(x) \subseteq Libraries /\ x.name \in Libraries
        /\ \A y \in Ours(model) : y.name = x.name => y = x
    BY ScanFrame, LinksLeadToTargets, NamesAreUnique DEF Ours
  <1>3. CASE x.kind = "shared"
    <2>1. copies' = copies \cup {scanning} /\ stack' = {} /\ seen' = seen
      BY <1>3 DEF Visit
    <2>2. Reaches(t, x)
      BY DEF Visit, Explored, Reaches
    <2>3. ReachesShared(t)'
      BY <1>1, <1>3, <2>2 DEF ReachesShared, Reaches, Closed
    <2>4. scanning \in Names
      BY ScanFrame, TestsAreNamed
    <2> QED
      BY <1>1, <2>1, <2>3, <2>4 DEF ScanOf, ScanTyped, ProjectInv
  <1>4. CASE x.kind # "shared"
    <2>1. /\ copies' = copies /\ seen' = seen \cup {x.name} /\ x.name \in stack
          /\ stack' = (stack \ {x.name}) \cup Internal(x)
      BY <1>4 DEF Visit
    <2>2. seen \cup stack \subseteq seen' \cup stack' /\ Internal(x) \subseteq seen' \cup stack'
      BY <2>1
    <2>3. Internal(t) \subseteq seen' \cup stack'
      BY <2>2 DEF Explored
    <2>4. ASSUME NEW y \in Ours(model), y.name \in seen'
          PROVE  y.kind # "shared" /\ Internal(y) \subseteq seen' \cup stack'
      BY <1>2, <1>4, <2>1, <2>2, <2>4 DEF Explored
    <2>5. ASSUME NEW n \in seen' \cup stack', NEW S \in SUBSET Libraries,
                 Internal(t) \subseteq S, Closed(S)
          PROVE  n \in S
      <3>1. x.name \in S
        BY <2>1, <2>5 DEF Explored
      <3>2. Internal(x) \subseteq S
        BY <2>5, <3>1 DEF Closed
      <3> QED
        BY <2>1, <2>5, <3>2 DEF Explored
    <2>6. Explored(t)'
      BY <1>1, <2>3, <2>4, <2>5 DEF Explored, Closed
    <2> QED
      BY <1>1, <1>2, <2>1, <2>6 DEF ScanOf, ScanTyped, ProjectInv
  <1> QED
    BY <1>3, <1>4

LEMMA SkipSeenInv ==
    ASSUME ProjectInv, Scan, scanning \notin copies,
           NEW t \in Of(model, {"test"}), t.name = scanning, Explored(t),
           NEW n, SkipSeen(n)
    PROVE  ScanOf(t)' /\ ScanTyped' /\ copies' = copies
  <1>1. scanning' = scanning /\ scanned' = scanned /\ model' = model
        /\ seen' = seen /\ copies' = copies /\ seen' \cup stack' = seen \cup stack
    BY DEF Scan, SkipSeen
  <1>2. Explored(t)'
    BY <1>1 DEF Explored, Closed
  <1> QED
    BY <1>1, <1>2 DEF ScanOf, ScanTyped, ProjectInv

LEMMA ScanStepInv ==
    ASSUME ProjectInv, Scan
    PROVE  ProjectInv'
  <1>1. PICK t \in Of(model, {"test"}) : ScanOf(t)
    BY DEF Scan, ProjectInv, ScanInv
  <1>2. scanning \notin copies /\ t.name = scanning /\ Explored(t)
    BY <1>1 DEF Scan, ScanOf, Visit, SkipSeen
  <1>3. ScanOf(t)' /\ ScanTyped' /\ copies' \subseteq copies \cup {scanning} /\ copies \subseteq copies'
    BY <1>2, VisitInv, SkipSeenInv DEF Scan, Visit, SkipSeen
  <1>4. /\ scanning' = scanning /\ scanned' = scanned /\ model' = model
        /\ scanning # Nobody /\ phase' = "scanning" /\ scanning \notin scanned
    BY ScanFrame DEF Scan, ProjectInv, ScanInv
  <1>5. CopiesAreNeeded'
    BY <1>3, <1>4 DEF ProjectInv, ScanInv, CopiesAreNeeded, Reaches, Closed
  <1>6. ScanInv'
    BY <1>3, <1>4, <1>5 DEF ProjectInv, ScanInv, Accepted
  <1> QED
    BY <1>3, <1>6, ScanFrame DEF ProjectInv

\* With nothing left on the stack, what has been seen is all that is reachable.
LEMMA ExploredIsReached ==
    ASSUME SoundProject(model), Checked, ScanTyped, NEW t \in Of(model, {"test"}),
           Explored(t), stack = {}
    PROVE  ~ReachesShared(t)
  <1>1. seen \in SUBSET Libraries /\ Internal(t) \subseteq seen /\ Closed(seen)
    BY DEF Explored, Closed, ScanTyped
  <1>2. \A x \in Ours(model) : Reaches(t, x) => x.name \in seen
    BY <1>1 DEF Reaches
  <1> QED
    BY <1>2 DEF ReachesShared, Explored

LEMMA EndScanInv ==
    ASSUME ProjectInv, EndScan
    PROVE  ProjectInv'
  <1>1. PICK t \in Of(model, {"test"}) : ScanOf(t)
    BY DEF EndScan, ProjectInv, ScanInv
  <1>2. /\ scanned' = scanned \cup {scanning} /\ scanning' = Nobody /\ stack = {}
        /\ UNCHANGED <<stack, seen, copies>> /\ model' = model /\ phase' = "scanning"
        /\ scanning # Nobody
    BY ScanFrame DEF EndScan
  <1>3. scanning \in copies <=> ReachesShared(t)
    BY <1>1, <1>2, ScanFrame, ExploredIsReached DEF ScanOf, ProjectInv
  <1>4. CopiesAreNeeded'
    <2> SUFFICES ASSUME NEW u \in Of(model, {"test"}), u.name \in scanned'
                 PROVE  u.name \in copies <=> ReachesShared(u)
      BY <1>2 DEF CopiesAreNeeded, ReachesShared, Reaches, Closed
    <2>1. CASE u.name = scanning
      <3>1. u = t
        BY <1>1, <2>1, ScanFrame, NamesAreUnique DEF ScanOf, Of
      <3> QED
        BY <1>3, <2>1, <3>1
    <2>2. CASE u.name # scanning
      BY <1>2, <2>2 DEF ProjectInv, ScanInv, CopiesAreNeeded, ReachesShared
    <2> QED
      BY <2>1, <2>2
  <1>5. ScanTyped'
    BY <1>2 DEF ProjectInv, ScanTyped
  <1>6. ScanInv'
    BY <1>2, <1>4 DEF ProjectInv, ScanInv, Accepted
  <1> QED
    BY <1>5, <1>6, ScanFrame DEF ProjectInv

-----------------------------------------------------------------------------
(* What is left, and the theorems.                                         *)

LEMMA LateStepInv ==
    ASSUME ProjectInv, Write \/ ReadSection \/ Generate \/ Work \/ EndBuild
    PROVE  ProjectInv'
  <1>1. /\ UNCHANGED descriptionVars /\ UNCHANGED searchVars /\ UNCHANGED scanVars
        /\ UNCHANGED model /\ scanning = Nobody /\ Accepted /\ Accepted'
        /\ phase' \in Phases \ {"describing", "checking"}
    BY DEF Write, ReadSection, Generate, Work, EndBuild, Accepted, Phases, ProjectInv, ScanInv
  <1>2. DescriptionInv' /\ Inv' /\ ScanTyped' /\ ScanInv'
    BY <1>1, DescriptionKept, SearchKept, BetweenScans DEF ProjectInv
  <1>3. Progress'
    BY <1>1 DEF ProjectInv, Progress, SoundProject, Sound, Checked
  <1> QED
    BY <1>2, <1>3 DEF ProjectInv

LEMMA ProjectStepInv == ProjectInv /\ [ProjectNext]_projectVars => ProjectInv'
  <1> SUFFICES ASSUME ProjectInv, [ProjectNext]_projectVars PROVE ProjectInv'
    OBVIOUS
  <1>1. CASE UNCHANGED projectVars
    <2>1. UNCHANGED descriptionVars /\ UNCHANGED searchVars /\ UNCHANGED scanVars
          /\ UNCHANGED <<model, phase>>
      BY <1>1 DEF projectVars, buildVars
    <2>2. DescriptionInv' /\ Inv'
      BY <2>1, DescriptionKept, SearchKept DEF ProjectInv
    <2>3. Progress'
      BY <2>1 DEF ProjectInv, Progress, SoundProject, Sound, Checked, Quiet, Accepted, searchVars
    <2>4. ScanTyped' /\ ScanInv'
      BY <2>1 DEF ProjectInv, ScanTyped, ScanInv, ScanOf, Explored, ReachesShared, CopiesAreNeeded,
         Reaches, Closed, Accepted, scanVars
    <2> QED
      BY <2>2, <2>3, <2>4 DEF ProjectInv
  <1>2. CASE ProjectNext
    BY <1>2, RunAgainInv, EarlyStepInv, BeginSearchInv, SearchStepInv, StartScanInv, ScanStepInv,
       EndScanInv, LateStepInv DEF ProjectNext
  <1> QED
    BY <1>1, <1>2

LEMMA ProjectReflectionInv ==
    ProjectInv /\ ReflectionInv /\ [ProjectNext]_projectVars => ReflectionInv'
  <1> SUFFICES ASSUME ProjectInv, ReflectionInv, [ProjectNext]_projectVars PROVE ReflectionInv'
    OBVIOUS
  <1>1. DescriptionInv /\ DescriptionInv'
    BY ProjectStepInv DEF ProjectInv
  <1>2. CASE UNCHANGED <<descriptionVars, reflectionVars>>
    BY <1>2, ReflectionKept
  <1>3. CASE Describe
    <2>1. topic' = topic
      BY <1>3 DEF Describe, DescriptionNext, AddTarget, AddTest, AddPythonModule, Link, Depends,
         AddGenerated, AddPaths, Assign, When, AddCommand, AddCustomTarget, AddOption, AddPreset,
         AddToolchain, Install, Package, RawCMakeFile, Include, CallModule, AddSubproject,
         SetProject, Does, Raises
    <2> QED
      BY <1>1, <1>3, <2>1, ReturnedInv DEF Describe
  <1>4. CASE Reflect
    BY <1>1, <1>4, ReflectionStepInv DEF Reflect
  <1>5. CASE RunAgain
    <2>1. project'.modules = <<>> /\ content' \in topic'.drafts
      BY <1>5 DEF RunAgain, NewProject
    <2>2. scratch' \in [Paths -> [cache : SUBSET STRING, reply : SUBSET STRING]]
      BY <1>5 DEF RunAgain, NoScratch, ReflectionInv, ReflectionTypeOK
    <2> QED
      BY <1>1, <1>5, <2>1, <2>2, FreshReflection DEF RunAgain
  <1> QED
    BY <1>2, <1>3, <1>4, <1>5 DEF ProjectNext, Die, Build, Check, RejectAt, BeginSearch, Search, CheckOn,
       AcceptProject, StartScan, Scan, EndScan, Write, ReadSection, Generate, Work, EndBuild, projectVars

LEMMA AlwaysProjectInv == ProjectSpec => [](ProjectInv /\ ReflectionInv)
  BY ProjectStarts, ProjectStepInv, ProjectReflectionInv, PTL DEF ProjectSpec

\* Every builder call keeps the description well typed, freezing does, and what
\* the searches walk over are names of the project (Project, TargetBuilder).
THEOREM ProjectTypeCorrect == ProjectSpec => []ProjectTypeOK
  <1>1. ProjectInv /\ ReflectionInv => ProjectTypeOK
    BY DEF ReflectionInv, ProjectInv, ProjectTypeOK, DescriptionInv, Inv, Progress, SoundProject, ScanTyped
  <1> QED
    BY <1>1, AlwaysProjectInv, PTL

\* What include() reports is in the file now, for every content of it and all
\* that earlier runs have left, and only functions that a file defines are called
\* (reflect, CMakeModule.call).
THEOREM ReportsAreCurrent == ProjectSpec => []ReflectionIsCurrent
  BY AlwaysProjectInv, TrueIsCurrent, PTL

\* For every script, the cycle that build() complains about is one
\* (_check_link_cycles).
THEOREM ProjectCyclesAreReal == ProjectSpec => []ReportedCycleIsReal
  <1>1. ProjectInv => ReportedCycleIsReal
    BY DEF ProjectInv, Inv
  <1> QED
    BY <1>1, AlwaysProjectInv, PTL

\* For every script, what passes the search has no cycle (_check_link_cycles).
THEOREM ProjectIsAcyclic == ProjectSpec => []AcceptedIsAcyclic
  <1>1. ProjectInv => AcceptedIsAcyclic
    BY InvAccepts DEF ProjectInv
  <1> QED
    BY <1>1, AlwaysProjectInv, PTL

\* The tests that get a copy of shared libraries are those that reach one, for
\* every graph of libraries (_links_shared_library).
THEOREM CopiesFollowLinks == ProjectSpec => []CopiesAreNeeded
  <1>1. ProjectInv => CopiesAreNeeded
    BY DEF ProjectInv, ScanInv
  <1> QED
    BY <1>1, AlwaysProjectInv, PTL

\* Whatever a script says of a target is written into the list file or makes
\* validate_project raise, but for lint() on a header-only library.
THEOREM SayingsAreKept == ProjectSpec => []NothingIsIgnored
  <1>1. ProjectInv => NothingIsIgnored
    <2> SUFFICES ASSUME ProjectInv, Accepted, NEW t \in Elements(model.targets)
                 PROVE  /\ t.sources # {} => "sources" \in Parts(t)
                        /\ t.modules # {} => "modules" \in Parts(t)
                        /\ t.dirs # {} => "dirs" \in Parts(t)
                        /\ t.settings.sanitize # {} => "sanitize" \in Parts(t)
                        /\ t.settings.lint /\ ~HeaderOnly(t) => "lint" \in Parts(t)
      BY DEF NothingIsIgnored
    <2>1. Checked
      BY DEF ProjectInv, Progress
    <2>2. CASE ~HeaderOnly(t)
      BY <2>2 DEF Parts, InputParts, Has
    <2>3. CASE HeaderOnly(t)
      <3>1. t \in Ours(model)
        BY <2>3 DEF HeaderOnly, Ours, LibraryKinds
      <3>2. t.sources = {} /\ t.modules = {} /\ t.dirs = {} /\ t.settings.sanitize = {}
        BY <2>1, <2>3, <3>1, FirstChecks DEF Checked, CheckLibraries, CheckCxxModules,
           CheckIncludeDirs, CheckSanitizers
      <3> QED
        BY <2>3, <3>2
    <2> QED
      BY <2>2, <2>3
  <1> QED
    BY <1>1, AlwaysProjectInv, PTL

-----------------------------------------------------------------------------
(* Walks: functions on 0 .. N that apply another function again and again.  *)

LEMMA LeastNatural ==
    ASSUME NEW T \in SUBSET Nat, T # {}
    PROVE  \E n \in T : \A m \in T : n <= m
  <1> DEFINE R == {ss \in Nat \X Nat : ss[1] < ss[2]}
  <1>1. IsWellFoundedOn(R, Nat)
    BY NatLessThanWellFounded DEF OpToRel
  <1> HIDE DEF R
  <1>2. PICK n \in T : \A m \in T : <<m, n>> \notin R
    BY <1>1, WFMin
  <1>3. ASSUME NEW m \in T PROVE n <= m
    <2>1. m \in Nat /\ n \in Nat /\ <<m, n>> \in Nat \X Nat
      OBVIOUS
    <2>2. ~(m < n)
      BY <1>2, <2>1 DEF R
    <2> QED
      BY <2>1, <2>2
  <1> QED
    BY <1>3

Walk(f, N, g, a) ==
    /\ f = [k \in 0 .. N |-> f[k]]
    /\ f[0] = a
    /\ \A k \in 1 .. N : f[k] = g[f[k - 1]]

LEMMA WalkExists ==
    ASSUME NEW D, NEW g \in [D -> D], NEW a \in D, NEW N \in Nat
    PROVE  \E f : Walk(f, N, g, a) /\ f \in [0 .. N -> D]
  <1> DEFINE Good(n) == \E f : Walk(f, n, g, a) /\ f \in [0 .. n -> D]
             Bad == {n \in Nat : ~Good(n)}
  <1> SUFFICES ASSUME Bad # {} PROVE FALSE
    OBVIOUS
  <1>1. PICK n \in Bad : \A m \in Bad : n <= m
    <2>1. Bad \in SUBSET Nat
      OBVIOUS
    <2> HIDE DEF Bad
    <2> QED
      BY <2>1, LeastNatural
  <1>2. n # 0
    <2> DEFINE f == [k \in 0 .. 0 |-> a]
    <2>1. Walk(f, 0, g, a) /\ f \in [0 .. 0 -> D]
      BY DEF Walk
    <2> QED
      BY <2>1
  <1>3. n \in Nat /\ n - 1 \in Nat /\ n - 1 \notin Bad
    BY <1>1, <1>2
  <1>4. PICK f : Walk(f, n - 1, g, a) /\ f \in [0 .. n - 1 -> D]
    BY <1>3
  <1> DEFINE h == [k \in 0 .. n |-> IF k = n THEN g[f[n - 1]] ELSE f[k]]
  <1>5. \A k \in 0 .. n - 1 : h[k] = f[k]
    BY <1>3
  <1>6. h[n] = g[f[n - 1]] /\ f[n - 1] \in D
    BY <1>3, <1>4
  <1>7. h \in [0 .. n -> D]
    BY <1>3, <1>4, <1>6
  <1>8. h = [k \in 0 .. n |-> h[k]]
    OBVIOUS
  <1> HIDE DEF h
  <1>9. ASSUME NEW k \in 1 .. n PROVE h[k] = g[h[k - 1]]
    <2>1. k - 1 \in 0 .. n - 1 /\ h[k - 1] = f[k - 1]
      BY <1>3, <1>5
    <2>2. CASE k = n
      BY <2>1, <2>2, <1>6
    <2>3. CASE k # n
      <3>1. k \in 1 .. n - 1 /\ k \in 0 .. n - 1
        BY <1>3, <2>3
      <3>2. f[k] = g[f[k - 1]]
        BY <3>1, <1>4 DEF Walk
      <3> QED
        BY <2>1, <3>1, <3>2, <1>5
    <2> QED
      BY <2>2, <2>3
  <1>10. h[0] = a
    BY <1>3, <1>4, <1>5 DEF Walk
  <1> QED
    BY <1>1, <1>7, <1>8, <1>9, <1>10 DEF Walk

\* Two functions that take the same steps from the same start.
StepsAgree(h, f, N) ==
    /\ h[0] = f[0]
    /\ \A k \in 1 .. N : h[k - 1] = f[k - 1] => h[k] = f[k]

LEMMA SameSteps ==
    ASSUME NEW f, NEW h, NEW N \in Nat, StepsAgree(h, f, N)
    PROVE  \A k \in 0 .. N : h[k] = f[k]
  <1> USE DEF StepsAgree
  <1> DEFINE Bad == {k \in 0 .. N : h[k] # f[k]}
  <1> SUFFICES ASSUME Bad # {} PROVE FALSE
    OBVIOUS
  <1>1. PICK k \in Bad : \A j \in Bad : k <= j
    <2>1. Bad \in SUBSET Nat
      OBVIOUS
    <2> HIDE DEF Bad
    <2> QED
      BY <2>1, LeastNatural
  <1>2. k # 0
    OBVIOUS
  <1>3. k \in 1 .. N /\ k - 1 \in 0 .. N /\ k - 1 < k
    BY <1>2
  <1>4. k - 1 \notin Bad
    <2> HIDE DEF Bad
    <2> QED
      BY <1>1, <1>3
  <1> QED
    BY <1>3, <1>4

\* A walk that is longer than the set is large meets itself.
LEMMA WalkMeetsItself ==
    ASSUME NEW S, IsFiniteSet(S), NEW f \in [0 .. Cardinality(S) -> S]
    PROVE  \E j, k \in 0 .. Cardinality(S) : j < k /\ f[j] = f[k]
  <1> DEFINE N == Cardinality(S)
  <1>1. N \in Nat
    BY FS_CardinalityType
  <1>2. IsFiniteSet(0 .. N) /\ Cardinality(0 .. N) = N + 1
    BY <1>1, FS_Interval
  <1>3. PICK j, k \in 0 .. N : j # k /\ f[j] = f[k]
    BY <1>1, <1>2, FS_PigeonHole
  <1>4. j < k \/ k < j
    BY <1>1, <1>3
  <1> QED
    BY <1>3, <1>4

-----------------------------------------------------------------------------
(* Presets.                                                                *)

\* Presets and their names are as many as the sequence is long.
LEMMA PresetFacts ==
    ASSUME NEW m \in ProjectModel, CheckPresets(m)
    PROVE  LET names == NamesOf(m.presets) L == Len(m.presets)
           IN  /\ L \in Nat
               /\ names \subseteq Names
               /\ IsFiniteSet(names) /\ Cardinality(names) = L
               /\ Cardinality(PresetEntries(m)) = L
               /\ \A x, y \in Elements(m.presets) : x.name = y.name => x = y
               /\ \A x \in Elements(m.presets) : x \in PresetModel /\ x.inherits \in names \cup {Nobody}
  <1> DEFINE names == NamesOf(m.presets)
             L == Len(m.presets)
             first == [i \in 1 .. L |-> m.presets[i].name]
             second == [i \in 1 .. L |-> PresetEntry(m, m.presets[i])]
  <1>1. m.presets \in Seq(PresetModel)
    BY DEF ProjectModel
  <1>2. L \in Nat /\ DOMAIN m.presets = 1 .. L /\ \A i \in 1 .. L : m.presets[i] \in PresetModel
    BY <1>1
  <1>3. \A i, j \in 1 .. L : m.presets[i].name = m.presets[j].name => i = j
    BY <1>2 DEF CheckPresets, WellNamed
  <1>4. IsFiniteSet(1 .. L) /\ Cardinality(1 .. L) = L
    <2> HIDE DEF L
    <2>1. IsFiniteSet(1 .. L) /\ Cardinality(1 .. L) = IF 1 > L THEN 0 ELSE L - 1 + 1
      BY <1>2, FS_Interval
    <2> QED
      BY <1>2, <2>1
  <1>5. first \in Bijection(1 .. L, names)
    <2>1. \A i \in 1 .. L : first[i] \in names
      BY <1>2 DEF NamesOf, Elements
    <2>2. \A n \in names : \E i \in 1 .. L : first[i] = n
      BY <1>2 DEF NamesOf, Elements
    <2>3. \A i, j \in 1 .. L : first[i] = first[j] => i = j
      BY <1>3
    <2>4. first = [i \in 1 .. L |-> first[i]]
      OBVIOUS
    <2> HIDE DEF first, names
    <2> QED
      BY <2>1, <2>2, <2>3, <2>4 DEF Bijection, Injection, Surjection, IsInjective
  <1>6. IsFiniteSet(names) /\ Cardinality(names) = L
    <2> HIDE DEF first, names
    <2>1. ExistsBijection(1 .. L, names)
      BY <1>5 DEF ExistsBijection
    <2> QED
      BY <1>4, <2>1, FS_Bijection
  <1>7. second \in Bijection(1 .. L, PresetEntries(m))
    <2>1. \A i \in 1 .. L : second[i].name = m.presets[i].name
      BY DEF PresetEntry
    <2>2. \A i \in 1 .. L : second[i] \in PresetEntries(m)
      BY <1>2 DEF PresetEntries, Elements
    <2>3. \A e \in PresetEntries(m) : \E i \in 1 .. L : second[i] = e
      BY <1>2 DEF PresetEntries, Elements
    <2>4. second = [i \in 1 .. L |-> second[i]]
      OBVIOUS
    <2> HIDE DEF second
    <2>5. \A i, j \in 1 .. L : second[i] = second[j] => i = j
      BY <2>1, <1>3
    <2> QED
      BY <2>2, <2>3, <2>4, <2>5 DEF Bijection, Injection, Surjection, IsInjective
  <1>8. Cardinality(PresetEntries(m)) = L
    <2> HIDE DEF second
    <2>1. ExistsBijection(1 .. L, PresetEntries(m))
      BY <1>7 DEF ExistsBijection
    <2> QED
      BY <1>4, <2>1, FS_Bijection
  <1>9. names \subseteq Names
    BY <1>2 DEF NamesOf, Elements, PresetModel
  <1>10. \A x, y \in Elements(m.presets) : x.name = y.name => x = y
    BY <1>2, <1>3 DEF Elements
  <1>11. \A x \in Elements(m.presets) : x \in PresetModel /\ x.inherits \in names \cup {Nobody}
    BY <1>2 DEF Elements, CheckPresets
  <1> QED
    BY <1>2, <1>6, <1>8, <1>9, <1>10, <1>11

\* A walk from preset to preset has ended when it is as long as there are presets.
LEMMA InheritanceEnds ==
    ASSUME NEW m \in ProjectModel, CheckPresets(m), NEW start \in NamesOf(m.presets),
           NEW parent \in [NamesOf(m.presets) \cup {Nobody} -> NamesOf(m.presets) \cup {Nobody}],
           parent[Nobody] = Nobody,
           \A x \in Elements(m.presets) : parent[x.name] = x.inherits,
           NEW f \in [0 .. Len(m.presets) -> NamesOf(m.presets) \cup {Nobody}],
           Walk(f, Len(m.presets), parent, start)
    PROVE  f[Len(m.presets)] = Nobody
  <1> DEFINE names == NamesOf(m.presets)
             L == Len(m.presets)
             Parent(name) == LET own == {x \in Elements(m.presets) : x.name = name}
                             IN  IF own = {} THEN Nobody ELSE (CHOOSE x \in own : TRUE).inherits
             Eqn(c) == c = [k \in 0 .. L |-> IF k = 0 THEN start
                                             ELSE IF c[k - 1] = Nobody THEN Nobody
                                             ELSE Parent(c[k - 1])]
             chain == CHOOSE c : Eqn(c)
  <1>1. /\ L \in Nat /\ names \subseteq Names /\ Nobody \notin names
        /\ IsFiniteSet(names) /\ Cardinality(names) = L
        /\ \A x, y \in Elements(m.presets) : x.name = y.name => x = y
    BY PresetFacts, DescriptionAssumption
  <1>2. \A k \in DOMAIN chain : chain[k] # Nobody => \A j \in 0 .. k - 1 : chain[j] # chain[k]
    BY DEF CheckPresets, InheritsInCircle
  <1>3. \A n \in names : Parent(n) = parent[n]
    <2>1. ASSUME NEW n \in names PROVE Parent(n) = parent[n]
      <3>1. PICK x \in Elements(m.presets) : x.name = n
        BY DEF NamesOf
      <3>2. {y \in Elements(m.presets) : y.name = n} = {x}
        BY <3>1, <1>1
      <3>3. (CHOOSE y \in {x} : TRUE) = x
        OBVIOUS
      <3> QED
        BY <3>1, <3>2, <3>3
    <2> QED
      BY <2>1
  <1> HIDE DEF Parent
  <1>4. Eqn(f)
    <2> DEFINE body == [k \in 0 .. L |-> IF k = 0 THEN start
                                         ELSE IF f[k - 1] = Nobody THEN Nobody
                                         ELSE Parent(f[k - 1])]
    <2>1. ASSUME NEW k \in 0 .. L PROVE f[k] = body[k]
      <3>1. CASE k = 0
        BY <3>1, <1>1 DEF Walk
      <3>2. CASE k # 0
        <4>1. k \in 1 .. L /\ k - 1 \in 0 .. L
          BY <3>2, <1>1
        <4>2. f[k] = parent[f[k - 1]] /\ f[k - 1] \in names \cup {Nobody}
          BY <4>1 DEF Walk
        <4> QED
          BY <3>2, <4>2, <1>3
      <3> QED
        BY <3>1, <3>2
    <2>2. f = [k \in 0 .. L |-> f[k]] /\ body = [k \in 0 .. L |-> body[k]]
      BY DEF Walk
    <2> HIDE DEF body
    <2>3. f = body
      BY <2>1, <2>2
    <2> QED
      BY <2>3 DEF body
  <1>5. Eqn(chain)
    BY <1>4
  <1> HIDE DEF chain
  <1>6. \A k \in 0 .. L : chain[k] = f[k]
    <2>1. ASSUME NEW k \in 1 .. L, chain[k - 1] = f[k - 1] PROVE chain[k] = f[k]
      <3>1. k \in 0 .. L /\ k # 0
        BY <1>1
      <3>2. /\ chain[k] = IF chain[k - 1] = Nobody THEN Nobody ELSE Parent(chain[k - 1])
            /\ f[k] = IF f[k - 1] = Nobody THEN Nobody ELSE Parent(f[k - 1])
        BY <1>4, <1>5, <3>1
      <3> QED
        BY <2>1, <3>2
    <2>2. chain[0] = f[0]
      BY <1>1, <1>4, <1>5
    <2>3. L \in Nat
      BY <1>1
    <2>4. StepsAgree(chain, f, L)
      BY <2>1, <2>2 DEF StepsAgree
    <2> HIDE DEF L
    <2> QED
      BY <2>3, <2>4, SameSteps
  <1>7. \A k \in 0 .. L : f[k] # Nobody => \A j \in 0 .. k - 1 : f[j] # f[k]
    <2>1. DOMAIN chain = 0 .. L
      BY <1>5
    <2>2. \A k \in 0 .. L : \A j \in 0 .. k - 1 : j \in 0 .. L
      BY <1>1
    <2> QED
      BY <1>2, <1>6, <2>1, <2>2
  <1> SUFFICES ASSUME f[L] # Nobody PROVE FALSE
    OBVIOUS
  <1>8. \A k \in 0 .. L : f[k] # Nobody
    <2> DEFINE Bad == {n \in 0 .. L : f[L - n] = Nobody}
    <2>1. Bad = {}
      <3> SUFFICES ASSUME Bad # {} PROVE FALSE
        OBVIOUS
      <3>1. PICK n \in Bad : \A j \in Bad : n <= j
        <4>1. Bad \in SUBSET Nat
          BY <1>1
        <4> HIDE DEF Bad
        <4> QED
          BY <4>1, LeastNatural
      <3>2. n # 0
        BY <1>1
      <3>3. n \in 1 .. L /\ n - 1 \in 0 .. L /\ L - (n - 1) \in 1 .. L
            /\ (L - (n - 1)) - 1 = L - n /\ n - 1 < n
        BY <3>2, <1>1
      <3>5. n - 1 \notin Bad
        <4> HIDE DEF Bad
        <4> QED
          BY <3>1, <3>3, <1>1
      <3>4. f[L - (n - 1)] = parent[f[L - n]]
        BY <3>3 DEF Walk
      <3> QED
        BY <3>1, <3>3, <3>4, <3>5
    <2>2. ASSUME NEW k \in 0 .. L PROVE f[k] # Nobody
      <3>1. L - k \in 0 .. L /\ L - (L - k) = k
        BY <1>1
      <3> QED
        BY <2>1, <3>1
    <2> QED
      BY <2>2
  <1>9. f \in [0 .. Cardinality(names) -> names]
    BY <1>1, <1>8
  <1>10. PICK j, k \in 0 .. L : j < k /\ f[j] = f[k]
    BY <1>1, <1>9, WalkMeetsItself
  <1>11. j \in 0 .. k - 1
    BY <1>1, <1>10
  <1> QED
    BY <1>7, <1>8, <1>10, <1>11

\* CMake takes the build type of a preset from its own entry.
LEMMA TypeIsStated ==
    ASSUME NEW m \in ProjectModel, CheckPresets(m), NEW x \in Elements(m.presets)
    PROVE  CMakeType(PresetEntries(m), x.name) = BuildType[x.optimize]
  <1> DEFINE names == NamesOf(m.presets)
             D == names \cup {Nobody}
             L == Len(m.presets)
             entries == PresetEntries(m)
             Entry(n) == CHOOSE e \in entries : e.name = n
             Eqn(c) == c = [k \in 0 .. Cardinality(entries) |->
                               IF k = 0 THEN x.name
                               ELSE IF c[k - 1] = Nobody THEN Nobody ELSE Entry(c[k - 1]).inherits]
             from == CHOOSE c : Eqn(c)
             stating == {k \in DOMAIN from : from[k] # Nobody /\ Entry(from[k]).type # Nobody}
             least == CHOOSE k \in stating : \A j \in stating : k <= j
             parent == [n \in D |-> IF n = Nobody THEN Nobody ELSE Entry(n).inherits]
  <1>1. /\ L \in Nat /\ names \subseteq Names /\ Nobody \notin names
        /\ Cardinality(entries) = L
        /\ \A y, z \in Elements(m.presets) : y.name = z.name => y = z
        /\ \A y \in Elements(m.presets) : y.inherits \in D
    BY PresetFacts, DescriptionAssumption
  <1>2. ASSUME NEW y \in Elements(m.presets)
        PROVE  /\ y.name \in names
               /\ Entry(y.name).inherits = y.inherits /\ Entry(y.name).type = BuildType[y.optimize]
    <2>1. PresetEntry(m, y) \in entries /\ PresetEntry(m, y).name = y.name
      BY DEF PresetEntries, PresetEntry
    <2>2. ASSUME NEW e \in entries, e.name = y.name PROVE e = PresetEntry(m, y)
      <3>1. PICK z \in Elements(m.presets) : e = PresetEntry(m, z)
        BY DEF PresetEntries
      <3>2. z.name = y.name
        BY <2>2, <3>1 DEF PresetEntry
      <3> QED
        BY <3>1, <3>2, <1>1
    <2> HIDE DEF entries
    <2>3. Entry(y.name) = PresetEntry(m, y)
      BY <2>1, <2>2
    <2> HIDE DEF Entry
    <2> QED
      BY <2>3 DEF PresetEntry, StatedType, NamesOf
  <1>3. CMakeType(entries, x.name) =
            IF stating = {} \/ from[Cardinality(entries)] # Nobody THEN Nobody
            ELSE Entry(from[least]).type
    BY DEF CMakeType
  <1>4. /\ parent \in [D -> D] /\ parent[Nobody] = Nobody
        /\ \A y \in Elements(m.presets) : parent[y.name] = y.inherits
    <2>1. ASSUME NEW n \in D PROVE parent[n] \in D
      <3>1. CASE n = Nobody
        BY <3>1
      <3>2. CASE n # Nobody
        <4>1. PICK y \in Elements(m.presets) : y.name = n
          BY <3>2 DEF NamesOf
        <4> QED
          BY <3>2, <4>1, <1>1, <1>2
      <3> QED
        BY <3>1, <3>2
    <2>2. ASSUME NEW y \in Elements(m.presets) PROVE parent[y.name] = y.inherits
      BY <1>1, <1>2
    <2> QED
      BY <2>1, <2>2
  <1>5. x.name \in D /\ x.name # Nobody
    BY <1>1, <1>2
  <1> HIDE DEF parent, entries, Entry
  <1>6. PICK f : Walk(f, L, parent, x.name) /\ f \in [0 .. L -> D]
    <2> HIDE DEF D, L
    <2> QED
      BY <1>1, <1>4, <1>5, WalkExists
  <1>7. f[L] = Nobody
    BY <1>2, <1>4, <1>6, InheritanceEnds
  <1>8. ASSUME NEW k \in 1 .. L
        PROVE  f[k] = IF f[k - 1] = Nobody THEN Nobody ELSE Entry(f[k - 1]).inherits
    <2>1. k - 1 \in 0 .. L
      BY <1>1
    <2>2. f[k] = parent[f[k - 1]] /\ f[k - 1] \in D
      BY <2>1, <1>6 DEF Walk
    <2> QED
      BY <2>2 DEF parent
  <1>9. Eqn(f)
    <2> DEFINE body == [k \in 0 .. L |-> IF k = 0 THEN x.name
                                         ELSE IF f[k - 1] = Nobody THEN Nobody
                                         ELSE Entry(f[k - 1]).inherits]
    <2>1. ASSUME NEW k \in 0 .. L PROVE f[k] = body[k]
      <3>1. CASE k = 0
        BY <3>1, <1>1, <1>6 DEF Walk
      <3>2. CASE k # 0
        <4>1. k \in 1 .. L
          BY <3>2, <1>1
        <4> QED
          BY <3>2, <4>1, <1>8
      <3> QED
        BY <3>1, <3>2
    <2>2. f = [k \in 0 .. L |-> f[k]] /\ body = [k \in 0 .. L |-> body[k]]
      BY <1>6 DEF Walk
    <2> HIDE DEF body
    <2>3. f = body
      BY <2>1, <2>2
    <2> QED
      BY <2>3, <1>1 DEF body
  <1>10. Eqn(from)
    <2> HIDE DEF Eqn
    <2> QED
      BY <1>9
  <1> HIDE DEF from
  <1>11. DOMAIN from = 0 .. L /\ from[0] = x.name
    BY <1>10, <1>1
  <1>12. from[L] = Nobody
    <2>1. ASSUME NEW k \in 1 .. L, from[k - 1] = f[k - 1] PROVE from[k] = f[k]
      <3>1. k \in 0 .. L /\ k # 0
        BY <1>1
      <3>2. from[k] = IF from[k - 1] = Nobody THEN Nobody ELSE Entry(from[k - 1]).inherits
        BY <1>10, <1>1, <3>1
      <3> QED
        BY <2>1, <3>2, <1>8
    <2>2. from[0] = f[0]
      BY <1>11, <1>6 DEF Walk
    <2>3. \A k \in 0 .. L : from[k] = f[k]
      <3>1. StepsAgree(from, f, L)
        BY <2>1, <2>2 DEF StepsAgree
      <3> HIDE DEF L
      <3> QED
        BY <1>1, <3>1, SameSteps
    <2> QED
      BY <2>3, <1>1, <1>7
  <1>13. BuildType[x.optimize] # Nobody
    BY ValidationAssumption DEF CheckPresets
  <1>14. 0 \in stating
    BY <1>1, <1>2, <1>5, <1>11, <1>13
  <1>15. stating \subseteq 0 .. L
    BY <1>11
  <1> HIDE DEF stating
  <1>16. least = 0
    <2>1. \A j \in stating : 0 <= j
      BY <1>1, <1>15
    <2>2. ASSUME NEW k \in stating, \A j \in stating : k <= j PROVE k = 0
      BY <1>1, <1>14, <1>15, <2>2
    <2> QED
      BY <1>14, <2>1, <2>2
  <1> HIDE DEF least, L
  <1>17. CMakeType(entries, x.name) = Entry(x.name).type
    BY <1>1, <1>3, <1>11, <1>12, <1>14, <1>16
  <1> QED
    BY <1>2, <1>17 DEF entries

\* The checks after the search for cycles.
LEMMA SecondChecks ==
    ASSUME NEW m, Passes(ChecksAfterCycles(m))
    PROVE  /\ CheckWhens(m) /\ CheckCommands(m) /\ CheckModules(m) /\ CheckToolchains(m)
           /\ CheckPresets(m) /\ CheckInstalls(m) /\ CheckRawCMakeFiles(m)
  <1> DEFINE checks == ChecksAfterCycles(m)
  <1>1. DOMAIN checks = 1 .. 10
    BY DEF ChecksAfterCycles
  <1>2. checks[2][2] /\ checks[3][2] /\ checks[5][2] /\ checks[6][2] /\ checks[7][2]
        /\ checks[8][2] /\ checks[10][2]
    BY <1>1 DEF Passes
  <1>3. /\ checks[2][2] = CheckWhens(m) /\ checks[3][2] = CheckCommands(m)
        /\ checks[5][2] = CheckModules(m) /\ checks[6][2] = CheckToolchains(m)
        /\ checks[7][2] = CheckPresets(m) /\ checks[8][2] = CheckInstalls(m)
        /\ checks[10][2] = CheckRawCMakeFiles(m)
    BY DEF ChecksAfterCycles
  <1> QED
    BY <1>2, <1>3

\* A preset names a toolchain whose file exists, or is written.
LEMMA ToolchainIsThere ==
    ASSUME NEW m, CheckToolchains(m), CheckPresets(m), NEW x \in Elements(m.presets),
           x.toolchain # Nobody
    PROVE  PresetEntry(m, x).toolchain \in {<<f>> : f \in Files} \cup WrittenToolchains(m)
  <1> DEFINE used == {y \in Elements(m.toolchains) : y.name = x.toolchain}
             y == CHOOSE y \in used : TRUE
  <1>1. used # {}
    BY DEF CheckPresets, NamesOf
  <1>2. y \in used
    BY <1>1
  <1>3. PresetEntry(m, x).toolchain = IF WrapsFile(y) THEN <<y.file>> ELSE <<"cmake/toolchains", x.toolchain>>
    BY <1>1 DEF PresetEntry, ToolchainFile
  <1> HIDE DEF y
  <1>4. CASE WrapsFile(y)
    <2>1. y.file \in Files
      BY <1>2, <1>4 DEF CheckToolchains, WrapsFile
    <2> QED
      BY <1>3, <1>4, <2>1
  <1>5. CASE ~WrapsFile(y)
    BY <1>2, <1>3, <1>5 DEF WrittenToolchains
  <1> QED
    BY <1>4, <1>5

\* How far the search brings the call.
LEMMA SearchSteps ==
    ASSUME ProjectInv', Search
    PROVE  \/ phase' \in {"searching", "rejected"}
           \/ phase' = "checking on" /\ verdict' = "acyclic"
  <1>1. verdict' \in {"searching", "acyclic", "cyclic"}
    BY DEF ProjectInv, Inv, TypeOK
  <1>2. phase' = CASE verdict' = "searching" -> "searching"
                   [] verdict' = "acyclic"   -> "checking on"
                   [] verdict' = "cyclic"    -> "rejected"
    BY Zenon DEF Search
  <1>3. CASE verdict' = "searching"
    BY <1>2, <1>3, Zenon
  <1>4. CASE verdict' = "acyclic"
    BY <1>2, <1>4, Zenon
  <1>5. CASE verdict' = "cyclic"
    BY <1>2, <1>5, Zenon
  <1> QED
    BY <1>1, <1>3, <1>4, <1>5, Zenon

\* What has been accepted has passed both halves of the checks.
CheckedOn == Passes(ChecksAfterCycles(model))
AllChecked == Accepted => CheckedOn

LEMMA ChecksLast ==
    ASSUME ProjectInv', AllChecked, [ProjectNext]_projectVars
    PROVE  AllChecked'
  <1>1. ASSUME CheckedOn, model' = model PROVE CheckedOn'
    BY <1>1, Zenon DEF CheckedOn
  <1>2. CASE Accepted /\ UNCHANGED model
    BY <1>1, <1>2 DEF AllChecked
  <1>3. CASE ~Accepted'
    BY <1>3 DEF AllChecked
  <1>4. CASE RunAgain
    BY <1>3, <1>4 DEF RunAgain, Accepted
  <1>5. CASE Describe
    BY <1>3, <1>5 DEF Describe, buildVars, Accepted
  <1>6. CASE Reflect
    BY <1>3, <1>6 DEF Reflect, buildVars, Accepted
  <1>7. CASE Die
    BY <1>3, <1>7 DEF Die, Accepted
  <1>8. CASE Build
    BY <1>3, <1>8 DEF Build, Accepted
  <1>9. CASE Check
    BY <1>3, <1>9 DEF Check, RejectAt, Accepted
  <1>10. CASE BeginSearch
    BY <1>3, <1>10 DEF BeginSearch, Accepted
  <1>11. CASE Search
    BY <1>3, <1>11, SearchSteps, Zenon DEF Accepted
  <1>12. CASE CheckOn
    <2>1. phase' = "rejected"
      BY <1>12, Zenon DEF CheckOn, RejectAt
    <2> QED
      BY <1>3, <2>1 DEF Accepted
  <1>13. CASE AcceptProject
    <2>1. CheckedOn
      BY <1>13, Zenon DEF AcceptProject, CheckedOn
    <2>2. model' = model
      BY <1>13, Zenon DEF AcceptProject
    <2> QED
      BY <1>1, <2>1, <2>2 DEF AllChecked
  <1>14. CASE StartScan
    BY <1>2, <1>14 DEF StartScan, Accepted
  <1>15. CASE Write \/ ReadSection \/ Generate \/ Work \/ EndBuild
    BY <1>2, <1>15 DEF Write, ReadSection, Generate, Work, EndBuild, Accepted
  <1>16. CASE Scan \/ EndScan \/ UNCHANGED projectVars
    <2>1. UNCHANGED <<phase, model>>
      BY <1>16 DEF Scan, EndScan, projectVars, buildVars
    <2> QED
      BY <1>2, <1>3, <2>1 DEF Accepted
  <1> QED
    BY <1>4, <1>5, <1>6, <1>7, <1>8, <1>9, <1>10, <1>11, <1>12, <1>13, <1>14, <1>15, <1>16
       DEF ProjectNext

LEMMA AlwaysAllChecked == ProjectSpec => []AllChecked
  <1>1. ProjectInit => AllChecked
    BY DEF ProjectInit, AllChecked, Accepted
  <1> QED
    BY <1>1, ChecksLast, AlwaysProjectInv, PTL DEF ProjectSpec

\* For every script, each preset that says how to optimize is built with that type,
\* whatever it inherits, and every one with a toolchain file that exists or is
\* written (presets_emitter, toolchain_emitter).
THEOREM PresetTypesAreKept == ProjectSpec => []PresetsAreKept
  <1>1. ProjectInv /\ AllChecked => PresetsAreKept
    <2> SUFFICES ASSUME ProjectInv, AllChecked, Accepted, NEW x \in Elements(model.presets)
                 PROVE  /\ x.optimize # "debug" \/ x.inherits = Nobody =>
                              CMakeType(PresetEntries(model), x.name) = BuildType[x.optimize]
                        /\ x.toolchain # Nobody =>
                              PresetEntry(model, x).toolchain
                                  \in {<<f>> : f \in Files} \cup WrittenToolchains(model)
      BY DEF PresetsAreKept
    <2>1. CheckToolchains(model) /\ CheckPresets(model)
      BY SecondChecks DEF AllChecked, CheckedOn
    <2>2. model \in ProjectModel
      BY DEF ProjectInv, Progress, SoundProject
    <2> QED
      BY <2>1, <2>2, TypeIsStated, ToolchainIsThere
  <1> QED
    BY <1>1, AlwaysProjectInv, AlwaysAllChecked, PTL

-----------------------------------------------------------------------------
(* The commands that a build wants.                                        *)

Commands(m) == Elements(m.commands)

\* What commands of the model make of what some paths ask for, and what those need.
MakersOf(m, paths) == {c \in Commands(m) : c.outputs \cap (paths \ Files) # {}}
AskedBy(m, paths) == UNION {c.depends : c \in MakersOf(m, paths)}
TargetInputs(m) == UNION {t.sources \cup t.modules : t \in Elements(m.targets)}

\* The commands wanted are those on some level below the targets; the level below
\* that many levels has nothing new, since there are no more commands.
LEMMA WantedLevels ==
    ASSUME NEW m \in ProjectModel
    PROVE  \E f \in [0 .. Len(m.commands) -> SUBSET Paths] :
              /\ f[0] = TargetInputs(m)
              /\ \A n \in 1 .. Len(m.commands) : f[n] = AskedBy(m, f[n - 1])
              /\ Wanted(m) = UNION {MakersOf(m, f[n]) : n \in 0 .. Len(m.commands)}
  <1> DEFINE L == Len(m.commands)
             Asked(c) == {d \in Elements(m.commands) : d.outputs \cap (c \ Files) # {}}
             Eqn(h) == h = [n \in 0 .. L |->
                              IF n = 0
                              THEN UNION {t.sources \cup t.modules : t \in Elements(m.targets)}
                              ELSE UNION {c.depends : c \in Asked(h[n - 1])}]
             inputs == CHOOSE h : Eqn(h)
             g == [S \in SUBSET Paths |-> AskedBy(m, S)]
  <1>1. L \in Nat /\ \A c \in Commands(m) : c \in CommandModel
    <2>1. m.commands \in Seq(CommandModel)
      BY DEF ProjectModel
    <2> QED
      BY <2>1 DEF Commands, Elements
  <1>2. TargetInputs(m) \in SUBSET Paths
    <2>1. m.targets \in Seq(TargetModel)
      BY DEF ProjectModel
    <2>2. \A t \in Elements(m.targets) : t \in TargetModel
      BY <2>1 DEF Elements
    <2>3. \A t \in TargetModel : t.sources \in SUBSET Paths /\ t.modules \in SUBSET Paths
      BY DEF TargetModel
    <2> QED
      BY <2>2, <2>3 DEF TargetInputs
  <1>3. g \in [SUBSET Paths -> SUBSET Paths]
    BY <1>1 DEF AskedBy, MakersOf, CommandModel
  <1>4. PICK f : Walk(f, L, g, TargetInputs(m)) /\ f \in [0 .. L -> SUBSET Paths]
    <2> HIDE DEF L, g
    <2> QED
      BY <1>1, <1>2, <1>3, WalkExists
  <1>5. f[0] = TargetInputs(m)
    BY <1>4 DEF Walk
  <1>6. ASSUME NEW n \in 1 .. L PROVE f[n] = AskedBy(m, f[n - 1])
    <2>1. n - 1 \in 0 .. L
      BY <1>1
    <2>2. f[n] = g[f[n - 1]] /\ f[n - 1] \in SUBSET Paths
      BY <1>4, <2>1 DEF Walk
    <2> QED
      BY <2>2
  <1> HIDE DEF g
  <1>7. \A S : Asked(S) = MakersOf(m, S)
    BY DEF MakersOf, Commands
  <1>8. Eqn(f)
    <2> DEFINE body == [n \in 0 .. L |->
                          IF n = 0
                          THEN UNION {t.sources \cup t.modules : t \in Elements(m.targets)}
                          ELSE UNION {c.depends : c \in Asked(f[n - 1])}]
    <2>1. ASSUME NEW n \in 0 .. L PROVE f[n] = body[n]
      <3>1. CASE n = 0
        BY <3>1, <1>1, <1>5 DEF TargetInputs
      <3>2. CASE n # 0
        <4>1. n \in 1 .. L
          BY <3>2, <1>1
        <4>2. f[n] = UNION {c.depends : c \in Asked(f[n - 1])}
          BY <4>1, <1>6 DEF AskedBy, MakersOf, Commands
        <4> HIDE DEF Asked
        <4> QED
          BY <3>2, <4>2
      <3> QED
        BY <3>1, <3>2
    <2>2. f = [n \in 0 .. L |-> f[n]] /\ body = [n \in 0 .. L |-> body[n]]
      BY <1>4 DEF Walk
    <2> HIDE DEF body
    <2>3. f = body
      BY <2>1, <2>2
    <2> QED
      BY <2>3 DEF body
  <1>9. Eqn(inputs)
    <2> HIDE DEF Eqn
    <2> QED
      BY <1>8
  <1>10. Wanted(m) = {c \in Elements(m.commands) :
                        \E n \in DOMAIN inputs : c.outputs \cap (inputs[n] \ Files) # {}}
    BY DEF Wanted
  <1> HIDE DEF inputs, Asked
  <1>11. DOMAIN inputs = 0 .. L /\ inputs[0] = TargetInputs(m)
    BY <1>9, <1>1 DEF TargetInputs
  <1>12. ASSUME NEW n \in 1 .. L PROVE inputs[n] = AskedBy(m, inputs[n - 1])
    <2>1. n \in 0 .. L /\ n # 0
      BY <1>1
    <2>2. inputs[n] = UNION {c.depends : c \in Asked(inputs[n - 1])}
      BY <1>9, <2>1
    <2> QED
      BY <2>2, <1>7 DEF AskedBy
  <1>13. \A n \in 0 .. L : inputs[n] = f[n]
    <2>1. StepsAgree(inputs, f, L)
      BY <1>5, <1>6, <1>11, <1>12 DEF StepsAgree
    <2> HIDE DEF L
    <2> QED
      BY <1>1, <2>1, SameSteps
  <1>14. Wanted(m) = UNION {MakersOf(m, f[n]) : n \in 0 .. L}
    BY <1>10, <1>11, <1>13 DEF MakersOf, Commands
  <1> QED
    BY <1>4, <1>5, <1>6, <1>14

LeadOn(W, next, N) == \A n \in 1 .. N : W[n] = UNION {next[c] : c \in W[n - 1]}
AllLevels(W, N) == UNION {W[k] : k \in 0 .. N}

\* The levels of a search through a finite set: when there are as many as elements,
\* what the elements of all levels lead to is on some level.
LEMMA LevelsSettle ==
    ASSUME NEW C, IsFiniteSet(C), NEW N \in Nat, Cardinality(C) <= N,
           NEW W \in [0 .. N -> SUBSET C], NEW next \in [C -> SUBSET C],
           LeadOn(W, next, N)
    PROVE  \A n \in 0 .. N : \A c \in W[n] : next[c] \subseteq AllLevels(W, N)
  <1> DEFINE U == [n \in 0 .. N |-> UNION {W[k] : k \in 0 .. n}]
             Settled(n) == \A c \in U[n] : next[c] \subseteq U[n]
             Good(n) == Settled(n) \/ Cardinality(U[n]) >= n + 1
             Bad == {n \in 0 .. N : ~Good(n)}
  <1>1. \A n \in 0 .. N : U[n] \subseteq C /\ IsFiniteSet(U[n]) /\ Cardinality(U[n]) \in Nat
    <2>1. \A n \in 0 .. N : U[n] \subseteq C
      <3>1. \A n \in 0 .. N : \A k \in 0 .. n : k \in 0 .. N
        OBVIOUS
      <3> QED
        BY <3>1
    <2> HIDE DEF U
    <2> QED
      BY <2>1, FS_Subset, FS_CardinalityType
  <1>2. U[0] = W[0]
    OBVIOUS
  <1>3. ASSUME NEW n \in 1 .. N
        PROVE  /\ n - 1 \in 0 .. N /\ n \in 0 .. N
               /\ U[n] = U[n - 1] \cup W[n]
               /\ \A k \in 0 .. n : W[k] \subseteq U[n]
               /\ \A c \in U[n - 1] : \E k \in 0 .. n - 1 : c \in W[k]
    <2>1. n - 1 \in 0 .. N /\ n \in 0 .. N /\ 0 .. n = (0 .. n - 1) \cup {n}
      OBVIOUS
    <2> QED
      BY <2>1
  <1> HIDE DEF U
  <1>4. Bad = {}
    <2> SUFFICES ASSUME Bad # {} PROVE FALSE
      OBVIOUS
    <2>1. PICK n \in Bad : \A j \in Bad : n <= j
      <3>1. Bad \in SUBSET Nat
        OBVIOUS
      <3> HIDE DEF Bad
      <3> QED
        BY <3>1, LeastNatural
    <2>2. n \in 0 .. N /\ ~Good(n)
      OBVIOUS
    <2>3. n # 0
      <3> SUFFICES ASSUME n = 0 PROVE FALSE
        OBVIOUS
      <3>1. U[0] = {} \/ Cardinality(U[0]) # 0
        BY <1>1, FS_EmptySet
      <3>2. U[0] = {} \/ Cardinality(U[0]) >= 1
        BY <3>1, <1>1
      <3> QED
        BY <2>2, <3>2
    <2>4. n \in 1 .. N /\ n - 1 < n
      BY <2>2, <2>3
    <2>5. Good(n - 1)
      <3>1. n - 1 \notin Bad
        <4> HIDE DEF Bad
        <4> QED
          BY <2>1, <2>4
      <3> HIDE DEF Good
      <3> QED
        BY <3>1, <2>4, <1>3
    <2>6. W[n] = UNION {next[c] : c \in W[n - 1]} /\ W[n - 1] \subseteq U[n - 1]
      BY <2>4, <1>2, <1>3 DEF LeadOn
    <2>7. CASE Settled(n - 1)
      <3>1. W[n] \subseteq U[n - 1]
        BY <2>6, <2>7
      <3>2. U[n] = U[n - 1] \cup W[n]
        BY <2>4, <1>3
      <3>3. U[n] = U[n - 1]
        BY <3>1, <3>2
      <3> QED
        BY <3>3, <2>2, <2>7
    <2>8. CASE U[n] = U[n - 1]
      <3>1. ASSUME NEW c \in U[n] PROVE next[c] \subseteq U[n]
        <4>1. PICK k \in 0 .. n - 1 : c \in W[k]
          BY <2>4, <2>8, <1>3
        <4>2. k + 1 \in 1 .. N /\ k + 1 \in 0 .. n /\ (k + 1) - 1 = k
          BY <2>4
        <4>3. W[k + 1] = UNION {next[d] : d \in W[k]}
          BY <4>2 DEF LeadOn
        <4>4. W[k + 1] \subseteq U[n]
          BY <4>2, <2>4, <1>3
        <4> QED
          BY <4>1, <4>3, <4>4
      <3> QED
        BY <3>1, <2>2
    <2>9. CASE ~Settled(n - 1) /\ U[n] # U[n - 1]
      <3>1. Cardinality(U[n - 1]) >= (n - 1) + 1
        BY <2>5, <2>9
      <3>2. U[n - 1] \in SUBSET U[n]
        BY <2>4, <1>3
      <3>3. Cardinality(U[n - 1]) <= Cardinality(U[n]) /\ Cardinality(U[n]) # Cardinality(U[n - 1])
        BY <3>2, <2>2, <2>9, <1>1, FS_Subset
      <3>4. Cardinality(U[n]) >= n + 1
        BY <3>1, <3>3, <2>2, <2>4, <1>1, <1>3
      <3> QED
        BY <3>4, <2>2
    <2> QED
      BY <2>7, <2>8, <2>9
  <1>5. Settled(N)
    <2>1. Good(N)
      BY <1>4
    <2>2. Cardinality(U[N]) <= Cardinality(C) /\ Cardinality(C) \in Nat
      BY <1>1, FS_Subset, FS_CardinalityType
    <2> QED
      BY <2>1, <2>2, <1>1
  <1>6. U[N] = AllLevels(W, N)
    BY DEF U, AllLevels
  <1>7. \A n \in 0 .. N : W[n] \subseteq U[N]
    BY <1>6 DEF AllLevels
  <1> QED
    BY <1>5, <1>6, <1>7

\* What a wanted command or a target reads is made by wanted commands.
LEMMA WantedIsClosed ==
    ASSUME NEW m \in ProjectModel
    PROVE  /\ Wanted(m) \subseteq Commands(m)
           /\ MakersOf(m, TargetInputs(m)) \subseteq Wanted(m)
           /\ \A c \in Wanted(m) : MakersOf(m, c.depends) \subseteq Wanted(m)
  <1> DEFINE N == Len(m.commands)
             C == Commands(m)
  <1>1. PICK f \in [0 .. N -> SUBSET Paths] :
              /\ f[0] = TargetInputs(m)
              /\ \A n \in 1 .. N : f[n] = AskedBy(m, f[n - 1])
              /\ Wanted(m) = UNION {MakersOf(m, f[n]) : n \in 0 .. N}
    BY WantedLevels
  <1>2. m.commands \in Seq(CommandModel)
    BY DEF ProjectModel
  <1>3. N \in Nat /\ IsFiniteSet(C) /\ Cardinality(C) <= N
    <2>1. N \in Nat /\ DOMAIN m.commands = 1 .. N
      BY <1>2
    <2>2. m.commands \in Surjection(1 .. N, C)
      <3>1. m.commands \in [1 .. N -> C] /\ \A c \in C : \E i \in 1 .. N : m.commands[i] = c
        BY <1>2, <2>1 DEF Commands, Elements
      <3> HIDE DEF C, N
      <3> QED
        BY <3>1 DEF Surjection
    <2>3. IsFiniteSet(1 .. N) /\ Cardinality(1 .. N) = N
      <3> HIDE DEF N
      <3>1. IsFiniteSet(1 .. N) /\ Cardinality(1 .. N) = IF 1 > N THEN 0 ELSE N - 1 + 1
        BY <2>1, FS_Interval
      <3> QED
        BY <2>1, <3>1
    <2> HIDE DEF N, C
    <2>4. IsFiniteSet(C) /\ Cardinality(C) <= Cardinality(1 .. N)
      BY <2>2, <2>3, FS_Surjection
    <2> QED
      BY <2>1, <2>3, <2>4
  <1> DEFINE W == [n \in 0 .. N |-> MakersOf(m, f[n])]
             next == [c \in C |-> MakersOf(m, c.depends)]
  <1>4. W \in [0 .. N -> SUBSET C] /\ next \in [C -> SUBSET C]
    BY DEF MakersOf
  <1>5. ASSUME NEW n \in 1 .. N PROVE W[n] = UNION {next[c] : c \in W[n - 1]}
    <2>1. n \in 0 .. N /\ n - 1 \in 0 .. N
      BY <1>3
    <2>2. W[n] = MakersOf(m, AskedBy(m, f[n - 1])) /\ W[n - 1] = MakersOf(m, f[n - 1])
      BY <2>1, <1>1
    <2>3. MakersOf(m, f[n - 1]) \subseteq C
      BY DEF MakersOf
    <2>4. \A c \in MakersOf(m, f[n - 1]) : next[c] = MakersOf(m, c.depends)
      BY <2>3
    <2> HIDE DEF W, next
    <2>5. ASSUME NEW d PROVE d \in W[n] <=> \E c \in W[n - 1] : d \in next[c]
      BY <2>2, <2>4 DEF AskedBy, MakersOf
    <2> QED
      BY <2>5
  <1>6. Wanted(m) = AllLevels(W, N)
    BY <1>1 DEF AllLevels
  <1>7. \A n \in 0 .. N : \A c \in W[n] : next[c] \subseteq AllLevels(W, N)
    <2>1. LeadOn(W, next, N)
      BY <1>5 DEF LeadOn
    <2> HIDE DEF W, next, N, C
    <2> QED
      BY <1>3, <1>4, <2>1, LevelsSettle
  <1>8. W[0] = MakersOf(m, TargetInputs(m))
    BY <1>1, <1>3
  <1>9. \A n \in 0 .. N : \A c \in W[n] : c \in C /\ next[c] = MakersOf(m, c.depends)
    BY <1>4
  <1> HIDE DEF W, next
  <1> QED
    BY <1>3, <1>4, <1>6, <1>7, <1>8, <1>9 DEF AllLevels

-----------------------------------------------------------------------------
(* The search of an accepted project was about its own links, and has found *)
(* no cycle.                                                               *)

GraphOf(m) ==
    [n \in Targets |-> UNION {{l.to : l \in t.links} : t \in {t \in Ours(m) : t.name = n}}]

AfterSearch == phase = "checking on" \/ Accepted
AfterChecks == phase = "searching" \/ AfterSearch

SearchedModel ==
    /\ AfterChecks => links = GraphOf(model)
    /\ AfterSearch => verdict = "acyclic"

LEMMA LinksStay == Next => links' = links
  BY DEF Next, StartSearch, Skip, Report, Descend, Return, Accept

LEMMA SearchedModelKept ==
    ASSUME ProjectInv, ProjectInv', SearchedModel, [ProjectNext]_projectVars
    PROVE  SearchedModel'
  <1>1. CASE ~AfterChecks'
    BY <1>1 DEF SearchedModel, AfterChecks
  <1>2. CASE AfterSearch /\ UNCHANGED searchVars /\ UNCHANGED model
    BY <1>2 DEF SearchedModel, AfterChecks, GraphOf, Targets, Ours, searchVars
  <1>3. CASE phase' \in {"describing", "raised", "checking", "rejected"}
    BY <1>1, <1>3, Zenon DEF AfterChecks, AfterSearch, Accepted
  <1>4. CASE RunAgain \/ Describe \/ Reflect \/ Die \/ Build \/ Check \/ CheckOn
    BY <1>3, <1>4, Zenon DEF RunAgain, Describe, Reflect, Die, Build, Check, CheckOn, RejectAt, buildVars
  <1>5. CASE BeginSearch
    <2>1. phase' = "searching" /\ model' = model /\ links' = GraphOf(model)
      BY <1>5 DEF BeginSearch, GraphOf
    <2>2. ~AfterSearch'
      BY <2>1, Zenon DEF AfterSearch, Accepted
    <2> QED
      BY <2>1, <2>2 DEF SearchedModel, GraphOf, Targets, Ours
  <1>6. CASE Search
    <2>1. links' = links /\ model' = model /\ links = GraphOf(model)
      BY <1>6, LinksStay, Zenon DEF Search, SearchedModel, AfterChecks
    <2>2. links' = GraphOf(model')
      BY <2>1
    <2>3. verdict' = "acyclic" \/ ~AfterSearch'
      BY <1>6, SearchSteps, Zenon DEF AfterSearch, Accepted
    <2> QED
      BY <2>2, <2>3 DEF SearchedModel, GraphOf
  <1>7. CASE AcceptProject
    <2>1. AfterSearch /\ UNCHANGED searchVars /\ UNCHANGED model
      BY <1>7, Zenon DEF AcceptProject, AfterSearch
    <2> QED
      BY <1>2, <2>1
  <1>8. CASE StartScan \/ Scan \/ EndScan
    <2>1. phase = "scanning" /\ UNCHANGED searchVars /\ UNCHANGED model
      BY <1>8 DEF StartScan, Scan, EndScan, ProjectInv, ScanInv
    <2> QED
      BY <1>2, <2>1, Zenon DEF AfterSearch, Accepted
  <1>9. CASE Write \/ ReadSection \/ Generate \/ Work \/ EndBuild
    <2>1. phase \in {"scanning", "reading", "building"} /\ UNCHANGED searchVars /\ UNCHANGED model
      BY <1>9 DEF Write, ReadSection, Generate, Work, EndBuild
    <2> QED
      BY <1>2, <2>1, Zenon DEF AfterSearch, Accepted
  <1>10. CASE UNCHANGED projectVars
    <2>1. UNCHANGED <<links, verdict, model, phase>>
      BY <1>10 DEF projectVars, searchVars, buildVars
    <2> QED
      BY <2>1, Zenon DEF SearchedModel, AfterChecks, AfterSearch, Accepted, GraphOf, Targets, Ours
  <1> QED
    BY <1>4, <1>5, <1>6, <1>7, <1>8, <1>9, <1>10 DEF ProjectNext

LEMMA AlwaysSearched == ProjectSpec => []SearchedModel
  <1>1. ProjectInit => SearchedModel
    BY Zenon DEF ProjectInit, SearchedModel, AfterChecks, AfterSearch, Accepted
  <1> QED
    BY <1>1, SearchedModelKept, AlwaysProjectInv, PTL DEF ProjectSpec

\* The libraries of an accepted project do not link each other in circles.
LEMMA LinksEnd ==
    ASSUME ProjectInv, SearchedModel, Accepted,
           NEW R \in SUBSET Ours(model), R # {}
    PROVE  \E t \in R : Internal(t) \cap {x.name : x \in R} = {}
  <1> DEFINE S == {x.name : x \in R}
  <1> SUFFICES ASSUME \A t \in R : Internal(t) \cap S # {}
               PROVE  FALSE
    OBVIOUS
  <1>1. SoundProject(model) /\ Checked
    BY DEF ProjectInv, Progress
  <1>2. links = GraphOf(model) /\ verdict = "acyclic"
    BY DEF SearchedModel, AfterChecks, AfterSearch
  <1>3. S \in SUBSET Targets /\ S # {}
    BY <1>1, LinksLeadToTargets DEF Targets
  <1>4. ASSUME NEW n \in S PROVE links[n] \cap S # {}
    <2>1. PICK t \in R : t.name = n
      OBVIOUS
    <2>2. PICK k \in Internal(t) : k \in S
      OBVIOUS
    <2>3. PICK l \in t.links : l.to = k
      BY <2>2 DEF Internal
    <2>4. links[n] = UNION {{j.to : j \in u.links} : u \in {u \in Ours(model) : u.name = n}}
      BY <1>2, <1>3 DEF GraphOf
    <2>5. k \in links[n]
      BY <2>1, <2>3, <2>4
    <2> QED
      BY <2>2, <2>5
  <1>5. Trapped(S)
    BY <1>4 DEF Trapped
  <1>6. Acyclic
    BY <1>2, InvAccepts DEF ProjectInv, AcceptedIsAcyclic
  <1> QED
    BY <1>3, <1>5, <1>6 DEF Acyclic

-----------------------------------------------------------------------------
(* The build.                                                              *)

Apart(m) == \A c, d \in Commands(m) : c # d => c.outputs \cap d.outputs = {}

\* What is done was made from what was there.
OutputsAreMade ==
    \A c \in Commands(model) : \A o \in c.outputs : <<"output", o>> \in done =>
        \E d \in Commands(model) : o \in d.outputs /\ Missing(d.depends) = {}
TargetsAreMade ==
    \A t \in Elements(model.targets) :
        <<"target", t.name>> \in done => Missing(t.sources \cup t.modules) = {}

\* Commands that wait for each other in a circle, which none of them leaves.
MadeBy(s) == UNION {d.outputs : d \in s}
InCircle(s) == \A c \in s : c.depends \cap (MadeBy(s) \ Files) # {}
CirclesWait ==
    \A s \in SUBSET Commands(model) : InCircle(s) =>
        \A c \in s : \A o \in c.outputs : <<"output", o>> \notin done

Stopped ==
    /\ ~(Goals \subseteq done)
    /\ \A c \in Wanted(model) : ~CanRun(c)
    /\ \A t \in Elements(model.targets) : ~CanMake(t)

Made == {"building", "built", "stuck"}
DoneInv == OutputsAreMade /\ TargetsAreMade /\ CirclesWait

MakingInv ==
    /\ at \in Nat
    /\ phase \notin Made => done = {}
    /\ phase = "reading" /\ at >= 11 => Apart(model)
    /\ phase \in Made => Apart(model) /\ DoneInv
    /\ phase = "built" => Goals \subseteq done
    /\ phase = "stuck" => Stopped

\* CMake reads the commands only if no two of them make one file.
LEMMA CommandsAreApart ==
    ASSUME ~Twice(CommandBlocks(model))
    PROVE  Apart(model)
  <1> SUFFICES ASSUME NEW c \in Commands(model), NEW d \in Commands(model), c # d,
                      NEW o \in c.outputs, o \in d.outputs
               PROVE  FALSE
    BY DEF Apart
  <1> DEFINE gives(i) == {<<"output", p>> : p \in model.commands[i].outputs} \cup {<<"command", i>>}
             block(i) == Giving(gives(i))
             f == <<"output", o>>
  <1>1. PICK i \in DOMAIN model.commands : model.commands[i] = c
    BY DEF Commands, Elements
  <1>2. PICK j \in DOMAIN model.commands : model.commands[j] = d
    BY DEF Commands, Elements
  <1>3. \A k : block(k).gives = gives(k)
    BY DEF Giving, Block
  <1>4. block(i) \in CommandBlocks(model) /\ block(j) \in CommandBlocks(model)
    BY DEF CommandBlocks
  <1>5. f \in gives(i) /\ f \in gives(j)
    BY <1>1, <1>2
  <1>6. <<"command", i>> \in gives(i) /\ <<"command", i>> \notin gives(j)
    BY <1>1, <1>2
  <1> HIDE DEF gives
  <1>7. block(i) # block(j)
    BY <1>3, <1>6
  <1>8. f[1] = "output" /\ "output" \in Once
    BY DEF Once
  <1> HIDE DEF block, f
  <1> QED
    BY <1>3, <1>4, <1>5, <1>7, <1>8 DEF Twice

LEMMA SectionList ==
    ASSUME NEW m, NEW p
    PROVE  Len(Sections(m, p)) = 18 /\ Sections(m, p)[11] = CommandBlocks(m)
  BY DEF Sections

\* Nothing that was there goes missing.
LEMMA RunCommandInv ==
    ASSUME Apart(model), DoneInv, NEW c \in Commands(model), RunCommand(c), model' = model
    PROVE  DoneInv'
  <1>1. done' = done \cup {<<"output", o>> : o \in c.outputs} /\ Missing(c.depends) = {}
    BY DEF RunCommand, CanRun
  <1>2. \A S : Missing(S)' \subseteq Missing(S)
    BY <1>1 DEF Missing
  <1>3. \A p : <<"output", p>> \in done' => <<"output", p>> \in done \/ p \in c.outputs
    BY <1>1
  <1>4. OutputsAreMade'
    <2> SUFFICES ASSUME NEW e \in Commands(model), NEW o \in e.outputs, <<"output", o>> \in done'
                 PROVE  \E d \in Commands(model) : o \in d.outputs /\ Missing(d.depends)' = {}
      BY DEF OutputsAreMade
    <2>1. CASE o \in c.outputs
      BY <1>1, <1>2, <2>1
    <2>2. CASE <<"output", o>> \in done
      BY <1>2, <2>2 DEF DoneInv, OutputsAreMade
    <2> QED
      BY <1>3, <2>1, <2>2
  <1>5. TargetsAreMade'
    <2> SUFFICES ASSUME NEW t \in Elements(model.targets), <<"target", t.name>> \in done'
                 PROVE  Missing(t.sources \cup t.modules)' = {}
      BY DEF TargetsAreMade
    <2>1. <<"target", t.name>> \in done
      BY <1>1
    <2> QED
      BY <1>2, <2>1 DEF DoneInv, TargetsAreMade
  <1>6. CirclesWait'
    <2> SUFFICES ASSUME NEW s \in SUBSET Commands(model), InCircle(s), NEW d \in s,
                        NEW o \in d.outputs, <<"output", o>> \in done'
                 PROVE  FALSE
      <3>1. Commands(model)' = Commands(model)
        OBVIOUS
      <3> QED
        BY <3>1, Zenon DEF CirclesWait
    <2>1. <<"output", o>> \notin done
      BY DEF DoneInv, CirclesWait
    <2>2. o \in c.outputs
      BY <1>3, <2>1
    <2>3. c = d
      BY <2>2 DEF Apart
    <2>4. PICK q \in c.depends : q \notin Files /\ q \in MadeBy(s)
      BY <2>3 DEF InCircle
    <2>5. <<"output", q>> \in done
      BY <1>1, <2>4 DEF Missing
    <2>6. PICK e \in s : q \in e.outputs
      BY <2>4 DEF MadeBy
    <2> QED
      BY <2>5, <2>6 DEF DoneInv, CirclesWait
  <1> QED
    BY <1>4, <1>5, <1>6 DEF DoneInv

LEMMA MakeTargetInv ==
    ASSUME Checked, DoneInv, NEW t \in Elements(model.targets), MakeTarget(t), model' = model
    PROVE  DoneInv'
  <1>1. done' = done \cup {<<"target", t.name>>} /\ Missing(t.sources \cup t.modules) = {}
    BY DEF MakeTarget, CanMake
  <1>2. \A p : <<"output", p>> \in done' <=> <<"output", p>> \in done
    BY <1>1
  <1>3. \A S : Missing(S)' = Missing(S)
    BY <1>2 DEF Missing
  <1>4. OutputsAreMade'
    BY <1>2, <1>3 DEF DoneInv, OutputsAreMade
  <1>5. TargetsAreMade'
    <2> SUFFICES ASSUME NEW u \in Elements(model.targets), <<"target", u.name>> \in done'
                 PROVE  Missing(u.sources \cup u.modules)' = {}
      BY DEF TargetsAreMade
    <2>1. CASE u.name = t.name
      BY <1>1, <1>3, <2>1, NamesAreUnique
    <2>2. CASE u.name # t.name
      BY <1>1, <1>3, <2>2 DEF DoneInv, TargetsAreMade
    <2> QED
      BY <2>1, <2>2
  <1>6. CirclesWait'
    <2>1. Commands(model)' = Commands(model)
      OBVIOUS
    <2> QED
      BY <1>2, <2>1, Zenon DEF DoneInv, CirclesWait
  <1> QED
    BY <1>4, <1>5, <1>6 DEF DoneInv

LEMMA MakingStarts ==
    ASSUME at = 0, done = {}, phase = "describing"
    PROVE  MakingInv
  BY DEF MakingInv, Made

LEMMA MakingKept ==
    ASSUME ProjectInv, MakingInv, [ProjectNext]_projectVars
    PROVE  MakingInv'
  <1>1. CASE RunAgain
    BY <1>1 DEF RunAgain, MakingInv, Made
  <1>2. ASSUME phase \notin Made, phase' \notin Made, phase' # "reading", UNCHANGED <<at, done>>
        PROVE  MakingInv'
    BY <1>2 DEF MakingInv, Made
  <1>3. CASE Describe \/ Reflect
    <2>1. phase = "describing" /\ UNCHANGED <<phase, at, done>>
      BY <1>3 DEF Describe, Reflect, buildVars, cmakeVars
    <2> QED
      BY <1>2, <2>1 DEF Made
  <1>4. CASE Die \/ Build
    <2>1. phase = "describing" /\ phase' \in {"raised", "checking"} /\ UNCHANGED <<at, done>>
      BY <1>4 DEF Die, Build, cmakeVars
    <2> QED
      BY <1>2, <2>1 DEF Made
  <1>5. CASE Check \/ CheckOn
    <2>1. phase \notin Made /\ phase' = "rejected" /\ UNCHANGED <<at, done>>
      BY <1>5, Zenon DEF Check, CheckOn, RejectAt, cmakeVars, Made
    <2> QED
      BY <1>2, <2>1 DEF Made
  <1>6. CASE BeginSearch
    <2>1. phase = "checking" /\ phase' = "searching" /\ UNCHANGED <<at, done>>
      BY <1>6 DEF BeginSearch, cmakeVars
    <2> QED
      BY <1>2, <2>1 DEF Made
  <1>7. CASE AcceptProject
    <2>1. phase \notin Made /\ phase' = "scanning" /\ UNCHANGED <<at, done>>
      BY <1>7, Zenon DEF AcceptProject, cmakeVars, Made
    <2> QED
      BY <1>2, <2>1 DEF Made
  <1>8. CASE StartScan \/ Scan \/ EndScan
    <2>1. phase = "scanning" /\ phase' = "scanning" /\ UNCHANGED <<at, done>>
      BY <1>8, ScanFrame DEF StartScan, Scan, EndScan, cmakeVars
    <2> QED
      BY <1>2, <2>1 DEF Made
  <1>9. CASE Write
    BY <1>9 DEF Write, MakingInv, Made
  <1>10. CASE ReadSection
    <2>1. /\ phase = "reading" /\ phase' \in {"reading", "refused"} /\ model' = model /\ done' = done
          /\ \/ phase' = "refused" /\ at' = at
             \/ at' = at + 1 /\ ~Twice(Sections(model, lacking)[at + 1])
      BY <1>10 DEF ReadSection
    <2>2. ASSUME phase' = "reading", at' >= 11 PROVE Apart(model)
      <3>1. at \in Nat /\ at' = at + 1
        BY <2>1, <2>2 DEF MakingInv
      <3>2. CASE at >= 11
        BY <2>1, <3>2 DEF MakingInv
      <3>3. CASE at = 10
        BY <2>1, <2>2, <3>3, SectionList, CommandsAreApart
      <3> QED
        BY <2>2, <3>1, <3>2, <3>3
    <2> QED
      BY <2>1, <2>2 DEF MakingInv, Made, Apart, Commands
  <1>11. CASE Generate
    <2>1. /\ phase = "reading" /\ phase' \in {"building", "refused"} /\ model' = model
          /\ at = 18 /\ UNCHANGED <<at, done>> /\ done = {}
      BY <1>11, SectionList DEF Generate, cmakeVars, MakingInv, Made
    <2>2. Apart(model)
      BY <2>1 DEF MakingInv
    <2>3. DoneInv'
      BY <2>1 DEF DoneInv, OutputsAreMade, TargetsAreMade, CirclesWait
    <2> QED
      BY <2>1, <2>2, <2>3 DEF MakingInv, Made, Apart, Commands
  <1>12. CASE Work
    <2>1. phase = "building" /\ phase' = "building" /\ model' = model /\ at' = at
      BY <1>12 DEF Work
    <2>2. Apart(model) /\ DoneInv /\ Checked /\ model \in ProjectModel
      BY <2>1 DEF MakingInv, Made, ProjectInv, Progress, Accepted, SoundProject
    <2>3. DoneInv'
      BY <1>12, <2>1, <2>2, RunCommandInv, MakeTargetInv, WantedIsClosed DEF Work
    <2> QED
      BY <2>1, <2>2, <2>3 DEF MakingInv, Made, Apart, Commands
  <1>13. CASE EndBuild
    <2>1. /\ phase = "building" /\ model' = model /\ UNCHANGED <<at, done>>
          /\ \/ Goals \subseteq done /\ phase' = "built"
             \/ Stopped /\ phase' = "stuck"
      BY <1>13 DEF EndBuild, cmakeVars, Stopped
    <2>2. Apart(model) /\ DoneInv
      BY <2>1 DEF MakingInv, Made
    <2> QED
      BY <2>1, <2>2 DEF MakingInv, Made, Apart, Commands, DoneInv, OutputsAreMade, TargetsAreMade,
         CirclesWait, Missing, Stopped, Goals, CanRun, CanMake, Undone, Internal
  <1>14. CASE Search
    <2>1. phase = "searching" /\ UNCHANGED <<at, done>>
      BY <1>14, Zenon DEF Search, cmakeVars
    <2>2. ProjectInv'
      BY ProjectStepInv
    <2>3. phase' \notin Made /\ phase' # "reading"
      BY <1>14, <2>2, SearchSteps, Zenon DEF Made
    <2> QED
      BY <1>2, <2>1, <2>3 DEF Made
  <1>15. CASE UNCHANGED projectVars
    <2>1. UNCHANGED <<phase, model, at, done>>
      BY <1>15 DEF projectVars, buildVars, cmakeVars
    <2> QED
      BY <2>1 DEF MakingInv, Made, Apart, Commands, DoneInv, OutputsAreMade, TargetsAreMade,
         CirclesWait, Missing, Stopped, Goals, CanRun, CanMake, Undone, Internal
  <1> QED
    BY <1>1, <1>3, <1>4, <1>5, <1>6, <1>7, <1>8, <1>9, <1>10, <1>11, <1>12, <1>13, <1>14, <1>15
       DEF ProjectNext

\* All that targets and wanted commands read is there or is made by a command.
LEMMA InputsHaveMakers ==
    ASSUME ProjectInv, AllChecked, Accepted
    PROVE  /\ model \in ProjectModel /\ SoundProject(model) /\ Checked
           /\ \A t \in Elements(model.targets) : t.sources \cup t.modules \subseteq Files \cup Generated(model)
           /\ \A c \in Commands(model) : c.depends \subseteq Files \cup Generated(model)
  <1>1. SoundProject(model) /\ Checked /\ model \in ProjectModel
    BY DEF ProjectInv, Progress, SoundProject
  <1>2. CheckSources(model) /\ CheckCxxModules(model) /\ CheckLibraries(model)
    BY <1>1, FirstChecks DEF Checked
  <1>3. CheckCommands(model)
    BY SecondChecks DEF AllChecked, CheckedOn
  <1>4. ASSUME NEW t \in Elements(model.targets)
        PROVE  t.sources \cup t.modules \subseteq Files \cup Generated(model)
    <2>1. t.modules \subseteq Files \cup Generated(model)
      BY <1>2 DEF CheckCxxModules
    <2>2. CASE HeaderOnly(t)
      <3>1. t \in Ours(model)
        BY <2>2 DEF HeaderOnly, Ours, LibraryKinds
      <3>2. t.sources = {}
        BY <2>2, <3>1, <1>2 DEF CheckLibraries
      <3> QED
        BY <2>1, <3>2
    <2>3. CASE ~HeaderOnly(t)
      BY <2>1, <2>3, <1>2 DEF CheckSources
    <2> QED
      BY <2>2, <2>3
  <1>5. \A c \in Commands(model) : c.depends \subseteq Files \cup Generated(model)
    BY <1>3 DEF CheckCommands, Commands
  <1> QED
    BY <1>1, <1>4, <1>5

\* Of a build that has stopped short, the wanted commands that have not run are a circle.
LEMMA StuckInCircle ==
    ASSUME ProjectInv, AllChecked, SearchedModel, MakingInv, phase = "stuck"
    PROVE  \E s \in SUBSET Wanted(model) : s # {} /\ InCircle(s)
  <1> DEFINE S == {c \in Wanted(model) : Undone(c)}
             R == {x \in Ours(model) : <<"target", x.name>> \notin done}
  <1>1. Accepted /\ Stopped
    BY DEF Accepted, MakingInv
  <1>2. /\ model \in ProjectModel /\ SoundProject(model) /\ Checked
        /\ \A t \in Elements(model.targets) : t.sources \cup t.modules \subseteq Files \cup Generated(model)
        /\ \A c \in Commands(model) : c.depends \subseteq Files \cup Generated(model)
    BY <1>1, InputsHaveMakers
  <1>3. ASSUME NEW p \in Generated(model), <<"output", p>> \notin done, p \notin Files
        PROVE  \E d \in Commands(model) : p \in d.outputs /\ Undone(d)
    <2>1. PICK d \in Commands(model) : p \in d.outputs
      BY DEF Generated, Commands
    <2>2. <<"output", p>> \in {<<"output", o>> : o \in d.outputs}
      BY <2>1
    <2> QED
      BY <1>3, <2>1, <2>2 DEF Undone
  <1>4. ASSUME NEW c \in S PROVE c.depends \cap (MadeBy(S) \ Files) # {}
    <2>1. Missing(c.depends) # {} /\ c \in Commands(model)
      BY <1>1, <1>2, WantedIsClosed DEF Stopped, CanRun
    <2>2. PICK p \in c.depends : p \notin Files /\ <<"output", p>> \notin done
      BY <2>1 DEF Missing
    <2>3. PICK d \in Commands(model) : p \in d.outputs /\ Undone(d)
      BY <1>2, <1>3, <2>1, <2>2
    <2>4. d \in MakersOf(model, c.depends)
      BY <2>2, <2>3 DEF MakersOf
    <2>5. d \in S
      BY <1>2, <2>3, <2>4, WantedIsClosed
    <2> HIDE DEF S
    <2>6. p \in MadeBy(S)
      BY <2>3, <2>5 DEF MadeBy
    <2> QED
      BY <2>2, <2>6
  <1>5. S # {}
    <2> SUFFICES ASSUME S = {} PROVE FALSE
      OBVIOUS
    <2>1. ASSUME NEW t \in Elements(model.targets) PROVE Missing(t.sources \cup t.modules) = {}
      <3> SUFFICES ASSUME NEW p \in t.sources \cup t.modules, p \notin Files, <<"output", p>> \notin done
                   PROVE  FALSE
        BY DEF Missing
      <3>1. PICK d \in Commands(model) : p \in d.outputs /\ Undone(d)
        BY <1>2, <1>3
      <3>2. d \in MakersOf(model, TargetInputs(model))
        BY <3>1 DEF MakersOf, TargetInputs
      <3> QED
        BY <1>2, <3>1, <3>2, WantedIsClosed
    <2>2. ASSUME NEW t \in Elements(model.targets), <<"target", t.name>> \notin done
          PROVE  \E x \in R : x.name \in Internal(t)
      <3>1. PICK n \in Internal(t) : <<"target", n>> \notin done
        BY <1>1, <2>1, <2>2 DEF Stopped, CanMake
      <3>2. PICK x \in Ours(model) : x.name = n
        BY <1>2, <3>1, LinksLeadToTargets
      <3> QED
        BY <3>1, <3>2
    <2>3. PICK t \in Elements(model.targets) : <<"target", t.name>> \notin done
      BY <1>1 DEF Stopped, Goals
    <2>4. R # {} /\ R \in SUBSET Ours(model)
      BY <2>2, <2>3
    <2>5. ASSUME NEW u \in R PROVE Internal(u) \cap {x.name : x \in R} # {}
      <3>1. u \in Elements(model.targets) /\ <<"target", u.name>> \notin done
        BY DEF Ours
      <3>2. PICK x \in R : x.name \in Internal(u)
        BY <2>2, <3>1
      <3> QED
        BY <3>2
    <2> HIDE DEF R
    <2> QED
      BY <1>1, <2>4, <2>5, LinksEnd
  <1> QED
    BY <1>4, <1>5 DEF InCircle

\* When all targets are made, so is whatever was wanted for them.
LEMMA BuiltOutsideCircles ==
    ASSUME ProjectInv, MakingInv, phase = "built",
           NEW s \in SUBSET Wanted(model), s # {}, InCircle(s)
    PROVE  FALSE
  <1> DEFINE L == Len(model.commands)
  <1>1. model \in ProjectModel /\ Apart(model) /\ DoneInv /\ Goals \subseteq done
    BY DEF ProjectInv, Progress, SoundProject, MakingInv, Made
  <1>2. PICK f \in [0 .. L -> SUBSET Paths] :
              /\ f[0] = TargetInputs(model)
              /\ \A n \in 1 .. L : f[n] = AskedBy(model, f[n - 1])
              /\ Wanted(model) = UNION {MakersOf(model, f[n]) : n \in 0 .. L}
    BY <1>1, WantedLevels
  <1>3. L \in Nat
    <2>1. model.commands \in Seq(CommandModel)
      BY <1>1 DEF ProjectModel
    <2> QED
      BY <2>1
  <1> HIDE DEF L
  <1> DEFINE There(n) == \A p \in f[n] \ Files : <<"output", p>> \in done
             Bad == {n \in 0 .. L : ~There(n)}
  <1>4. Bad = {}
    <2> SUFFICES ASSUME Bad # {} PROVE FALSE
      OBVIOUS
    <2>1. PICK n \in Bad : \A j \in Bad : n <= j
      <3>1. Bad \in SUBSET Nat
        BY <1>3
      <3> HIDE DEF Bad
      <3> QED
        BY <3>1, LeastNatural
    <2>2. PICK p \in f[n] \ Files : <<"output", p>> \notin done
      OBVIOUS
    <2>3. CASE n = 0
      <3>1. PICK t \in Elements(model.targets) : p \in t.sources \cup t.modules
        BY <1>2, <2>2, <2>3 DEF TargetInputs
      <3>2. <<"target", t.name>> \in done
        BY <1>1 DEF Goals
      <3>3. Missing(t.sources \cup t.modules) = {}
        BY <1>1, <3>2 DEF DoneInv, TargetsAreMade
      <3> QED
        BY <2>2, <3>1, <3>3 DEF Missing
    <2>4. CASE n # 0
      <3>1. n \in 1 .. L /\ n - 1 \in 0 .. L /\ n - 1 < n
        BY <1>3, <2>4
      <3>2. n - 1 \notin Bad
        <4> HIDE DEF Bad
        <4> QED
          BY <2>1, <3>1, <1>3
      <3>3. There(n - 1)
        <4>1. n - 1 \in 0 .. L
          BY <3>1
        <4> HIDE DEF There
        <4> QED
          BY <3>2, <4>1
      <3>4. PICK c \in MakersOf(model, f[n - 1]) : p \in c.depends
        BY <1>2, <2>2, <3>1 DEF AskedBy
      <3>5. PICK o \in c.outputs : o \in f[n - 1] \ Files
        BY <3>4 DEF MakersOf
      <3>6. PICK d \in Commands(model) : o \in d.outputs /\ Missing(d.depends) = {}
        BY <1>1, <3>3, <3>4, <3>5 DEF DoneInv, OutputsAreMade, MakersOf
      <3>7. c \in Commands(model) /\ d = c
        BY <1>1, <3>4, <3>5, <3>6 DEF Apart, MakersOf
      <3> QED
        BY <2>2, <3>4, <3>6, <3>7 DEF Missing
    <2> QED
      BY <2>3, <2>4
  <1>5. PICK c \in s : c \in Wanted(model)
    OBVIOUS
  <1>6. PICK n \in 0 .. L : c \in MakersOf(model, f[n])
    BY <1>2, <1>5
  <1>7. PICK o \in c.outputs : o \in f[n] \ Files
    BY <1>6 DEF MakersOf
  <1>8. <<"output", o>> \in done
    BY <1>4, <1>6, <1>7
  <1>9. s \in SUBSET Commands(model)
    BY <1>1, WantedIsClosed
  <1> QED
    BY <1>1, <1>5, <1>7, <1>8, <1>9 DEF DoneInv, CirclesWait

\* For every script, the build of what CMake has accepted stops short exactly when
\* wanted commands wait for each other in a circle (CheckCommands asks for makers
\* only: _check_commands).
THEOREM OnlyCirclesStop == ProjectSpec => []StuckOnlyInCircles
  <1>1. ProjectInit => MakingInv
    BY MakingStarts DEF ProjectInit
  <1>2. ProjectSpec => []MakingInv
    BY <1>1, MakingKept, AlwaysProjectInv, PTL DEF ProjectSpec
  <1>3. ASSUME ProjectInv, AllChecked, SearchedModel, MakingInv PROVE StuckOnlyInCircles
    <2> DEFINE circle == \E s \in SUBSET Wanted(model) : s # {} /\ InCircle(s)
    <2>1. (phase = "stuck" => circle) /\ (phase = "built" => ~circle)
      BY <1>3, StuckInCircle, BuiltOutsideCircles
    <2>2. \A s : InCircle(s)
                 <=> \A c \in s : c.depends \cap ((UNION {d.outputs : d \in s}) \ Files) # {}
      <3> TAKE s
      <3>1. MadeBy(s) = UNION {d.outputs : d \in s}
        BY DEF MadeBy
      <3> QED
        BY <3>1 DEF InCircle
    <2>3. circle <=> \E s \in SUBSET Wanted(model) :
             s # {} /\ \A c \in s : c.depends \cap ((UNION {d.outputs : d \in s}) \ Files) # {}
      BY <2>2, Zenon
    <2> HIDE DEF circle
    <2> QED
      BY <2>1, <2>3, Zenon DEF StuckOnlyInCircles
  <1> QED
    BY <1>2, <1>3, AlwaysProjectInv, AlwaysAllChecked, AlwaysSearched, PTL


-----------------------------------------------------------------------------
(* What the frozen model inherits from the description.                    *)

ModelIsFit ==
    /\ Backed(project)
    /\ Backed(model)
    /\ \A k \in DOMAIN model.modules : TrueModule(model.modules[k])

LEMMA NewProjectIsFit ==
    ASSUME project.targets = <<>>, project.modules = <<>>, model = project
    PROVE  ModelIsFit
  BY DEF ModelIsFit, Backed

LEMMA ModelStaysFit ==
    ASSUME ProjectInv, ReflectionInv, ModelIsFit, [ProjectNext]_projectVars
    PROVE  ModelIsFit'
  <1>1. ASSUME content' = content, Backed(project'), model' = model
        PROVE  ModelIsFit'
    BY <1>1 DEF ModelIsFit, Backed, BackedTarget, TrueModule
  <1>2. CASE UNCHANGED <<descriptionVars, reflectionVars, model>>
    BY <1>1, <1>2 DEF descriptionVars, reflectionVars, ModelIsFit
  <1>3. CASE RunAgain
    <2>1. (project.targets = <<>> /\ project.modules = <<>> /\ model = project)'
      BY <1>3 DEF RunAgain, NewProject
    <2>2. (project.targets = <<>> /\ project.modules = <<>> /\ model = project)' => ModelIsFit'
      BY NewProjectIsFit, PTL
    <2> QED
      BY <2>1, <2>2
  <1>4. CASE Describe
    <2>1. content' = content /\ model' = model /\ Backed(project')
      BY <1>4, BackingStays DEF Describe, Returned, buildVars, ProjectInv, ModelIsFit
    <2> QED
      BY <1>1, <2>1
  <1>5. CASE Reflect
    <2>1. content' = content
      BY <1>5, Zenon DEF Reflect, ReflectionNext, Ask, Find, Miss, FindTargets, MissTargets, NoTargets
    <2>2. model' = model /\ project' = project
      BY <1>5 DEF Reflect, buildVars, descriptionVars
    <2> QED
      BY <1>1, <2>1, <2>2 DEF ModelIsFit
  <1>6. CASE Build
    <2>1. CASE UNCHANGED model
      BY <1>2, <1>6, <2>1 DEF Build
    <2>2. CASE model' = Frozen(project)
      <3>1. Backed(Frozen(project)) /\ Frozen(project).modules = project.modules
        BY FrozenIsBacked DEF ProjectInv, DescriptionInv, ModelIsFit
      <3>2. UNCHANGED <<project, content>>
        BY <1>6 DEF Build, descriptionVars, reflectionVars
      <3>3. \A k \in DOMAIN project.modules : TrueModule(project.modules[k])
        BY DEF ReflectionInv, ModulesAreTrue
      <3> QED
        BY <2>2, <3>1, <3>2, <3>3 DEF ModelIsFit, Backed, BackedTarget, TrueModule
    <2> QED
      BY <1>6, <2>1, <2>2 DEF Build
  <1>7. CASE \/ Die \/ Check \/ BeginSearch \/ Search \/ CheckOn \/ AcceptProject
             \/ StartScan \/ Scan \/ EndScan \/ Write \/ ReadSection \/ Generate \/ Work \/ EndBuild
             \/ UNCHANGED projectVars
    BY <1>2, <1>7, Zenon DEF Die, Check, RejectAt, BeginSearch, Search, CheckOn, AcceptProject, StartScan,
       Scan, EndScan, Write, ReadSection, Generate, Work, EndBuild, projectVars, buildVars
  <1> QED
    BY <1>3, <1>4, <1>5, <1>6, <1>7 DEF ProjectNext

LEMMA AlwaysFit == ProjectSpec => []ModelIsFit
  <1>1. ProjectInit => ModelIsFit
    <2>1. ProjectInit => project.targets = <<>> /\ project.modules = <<>> /\ model = project
      BY DEF ProjectInit, DescriptionInit, NewProject
    <2> QED
      BY <2>1, NewProjectIsFit
  <1> QED
    BY <1>1, ModelStaysFit, AlwaysProjectInv, PTL DEF ProjectSpec

-----------------------------------------------------------------------------
(* CMake reads the list file.                                              *)

Gives(section, f) == \E b \in section : f \in b.gives
Asks(section, f) == \E b \in section : f \in b.later
Section(k) == Sections(model, lacking)[k]

AtFirst(f) ==
    \/ \E x \in Files : f = <<"file", x>>
    \/ \E n \in Reserved : f = <<"target", n>>
    \/ f \in Runnable

\* What is known comes from what has been read, and all of that is known.
ReadSoFar ==
    /\ at \in 0 .. 18
    /\ \A f : AtFirst(f) => f \in known
    /\ \A k \in 1 .. at : \A f : Gives(Section(k), f) => f \in known
    /\ \A f \in known : AtFirst(f) \/ \E k \in 1 .. at : Gives(Section(k), f)
    /\ \A f \in waiting : \E k \in 1 .. at : Asks(Section(k), f)

Reasons == NameIsTaken \/ OthersMeet \/ IncludeFails \/ TwoMakeOneFile \/ ExportIsOpen

LEMMA AllSections ==
    ASSUME NEW m, NEW p
    PROVE  /\ Len(Sections(m, p)) = 18
           /\ Sections(m, p)[1] = Preamble(m)
           /\ Sections(m, p)[2] = OptionBlocks(m)
           /\ Sections(m, p)[3] = RawIncludes(m)
           /\ Sections(m, p)[4] = ModuleBlocks(m)
           /\ Sections(m, p)[5] = ModuleIncludes(m)
           /\ Sections(m, p)[6] = Testing(m)
           /\ Sections(m, p)[7] = PythonPreamble(m)
           /\ Sections(m, p)[8] = SanitizePreamble(m)
           /\ Sections(m, p)[9] = PackageBlocks(m, p)
           /\ Sections(m, p)[10] = Subdirectories(m)
           /\ Sections(m, p)[11] = CommandBlocks(m)
           /\ Sections(m, p)[12] = TargetBlocks(m, LibraryKinds)
           /\ Sections(m, p)[13] = TargetBlocks(m, {"executable"})
           /\ Sections(m, p)[14] = TargetBlocks(m, {"python"})
           /\ Sections(m, p)[15] = FrameworkIncludes(m)
           /\ Sections(m, p)[16] = TargetBlocks(m, {"test"})
           /\ Sections(m, p)[17] = CustomTargetBlocks(m)
           /\ Sections(m, p)[18] = InstallBlocks(m)
  BY DEF Sections

\* Of what may be given once only, the blocks of a section give nothing or names.
Nameless(section) == \A b \in section : \A f \in b.gives : f[1] \notin Once
Naming(section, N) ==
    \A b \in section : \A f \in b.gives : f[1] \in Once => \E n \in N : f = <<"target", n>>

\* What the blocks of the test frameworks look like.
LEMMA FrameworkBlocks ==
    \A b \in FrameworkIncludes(model) : \E x \in Frameworks(model) :
        /\ b.needs \subseteq {<<"package", FrameworkPackage[x].name>>}
        /\ b.gives = {<<"discovery", x>>}
        /\ b.later = {}
  <1> SUFFICES ASSUME NEW x \in Frameworks(model),
                      NEW b, b = Block(Has(<<"package", FrameworkPackage[x].name>>, x # "gtest"),
                                       {<<"discovery", x>>}, {})
               PROVE  /\ b.needs \subseteq {<<"package", FrameworkPackage[x].name>>}
                      /\ b.gives = {<<"discovery", x>>}
                      /\ b.later = {}
    BY Zenon DEF FrameworkIncludes
  <1>1. Has(<<"package", FrameworkPackage[x].name>>, x # "gtest") \subseteq {<<"package", FrameworkPackage[x].name>>}
    BY Zenon DEF Has
  <1> QED
    BY <1>1 DEF Block

LEMMA NamelessSections ==
    /\ Nameless(Preamble(model)) /\ Nameless(OptionBlocks(model)) /\ Nameless(ModuleIncludes(model))
    /\ Nameless(PythonPreamble(model)) /\ Nameless(SanitizePreamble(model))
    /\ Nameless(FrameworkIncludes(model)) /\ Nameless(InstallBlocks(model))
  <1> USE DEF Nameless, Once, Giving, Block
  <1>1. Nameless(Preamble(model)) /\ Nameless(OptionBlocks(model))
    BY DEF Preamble, OptionBlocks
  <1>3. Nameless(ModuleIncludes(model))
    BY DEF ModuleIncludes
  <1>4. Nameless(PythonPreamble(model)) /\ Nameless(SanitizePreamble(model))
    BY DEF PythonPreamble, SanitizePreamble
  <1>5. Nameless(FrameworkIncludes(model))
    BY FrameworkBlocks
  <1>6. Nameless(InstallBlocks(model))
    BY DEF InstallBlocks
  <1> QED
    BY <1>1, <1>3, <1>4, <1>5, <1>6

\* The files that section 4 runs are those that section 3 has not run.
RawFiles == Elements(model.raws)
ModuleFiles == {x.reference : x \in Elements(model.modules)} \ RawFiles
TargetsOf(files) == UNION {FileTargets(f) : f \in files}

LEMMA FilesAreIncluded ==
    /\ RawFiles \subseteq Included(model) /\ ModuleFiles \subseteq Included(model)
    /\ RawFiles \cap ModuleFiles = {}
    /\ TargetsOf(RawFiles) \subseteq AddedByFiles(model)
    /\ TargetsOf(ModuleFiles) \subseteq AddedByFiles(model)
  BY DEF RawFiles, ModuleFiles, Included, TargetsOf, AddedByFiles

\* What a package gives, by the kind of the fact.
LEMMA PackageFacts ==
    ASSUME NEW p, NEW n
    PROVE  /\ <<"target", n>> \in PackageGives(model, p, lacking) => p \in lacking /\ n \in p.inner
           /\ <<"imported", n>> \in PackageGives(model, p, lacking) => n \in p.gives
           /\ \A f \in PackageGives(model, p, lacking) : f[1] \in Once => \E x : f = <<"target", x>>
  <1>1. /\ n \in InnerOf(model, p, lacking) => p \in lacking /\ n \in p.inner
        /\ n \in ImportedBy(model, p, lacking) => n \in p.gives
    BY DEF InnerOf, ImportedBy, Source
  <1> QED
    BY <1>1 DEF PackageGives, Has, Once

OwnNames(kinds) == UNION {{t.name} \cup Stub(t) : t \in Of(model, kinds)}

LEMMA NamingSections ==
    /\ Naming(RawIncludes(model), TargetsOf(RawFiles))
    /\ Naming(ModuleBlocks(model), TargetsOf(ModuleFiles))
    /\ Naming(Testing(model), TestName)
    /\ Naming(PackageBlocks(model, lacking), Inner)
    /\ Naming(Subdirectories(model), model.children)
    /\ \A kinds : Naming(TargetBlocks(model, kinds), OwnNames(kinds))
    /\ Naming(CustomTargetBlocks(model), NamesOf(model.customs))
  <1> USE DEF Naming, Once, Giving, Block
  <1>1. Naming(Testing(model), TestName)
    BY DEF Testing, TestName
  <1>2. Naming(PackageBlocks(model, lacking), Inner)
    <2> SUFFICES ASSUME NEW p \in model.packages, NEW f \in PackageGives(model, p, lacking), f[1] \in Once
                 PROVE  \E n \in Inner : f = <<"target", n>>
      BY DEF PackageBlocks
    <2>1. PICK n : f = <<"target", n>>
      BY PackageFacts
    <2>2. p \in lacking /\ n \in p.inner
      BY <2>1, PackageFacts
    <2> QED
      BY <2>1, <2>2 DEF Inner
  <1>3. Naming(Subdirectories(model), model.children)
    BY DEF Subdirectories
  <1>4. ASSUME NEW kinds
        PROVE  Naming(TargetBlocks(model, kinds), OwnNames(kinds))
    BY DEF TargetBlocks, TargetBlock, OwnNames
  <1>5. Naming(CustomTargetBlocks(model), NamesOf(model.customs))
    BY DEF CustomTargetBlocks, NamesOf
  <1>6. ASSUME NEW files
        PROVE  Naming(FileBlocks(model, files), TargetsOf(files))
    BY DEF FileBlocks, TargetsOf
  <1>7. Naming(RawIncludes(model), TargetsOf(RawFiles))
    BY <1>6 DEF RawIncludes, RawFiles
  <1>8. Naming(ModuleBlocks(model), TargetsOf(ModuleFiles))
    <2> SUFFICES ASSUME NEW b \in ModuleBlocks(model), NEW f \in b.gives, f[1] \in Once
                 PROVE  \E n \in TargetsOf(ModuleFiles) : f = <<"target", n>>
      OBVIOUS
    <2>1. CASE b \in FileBlocks(model, ModuleFiles)
      BY <1>6, <2>1
    <2>2. CASE b \notin FileBlocks(model, ModuleFiles)
      <3>1. PICK x : b.gives = {<<"function", y>> : y \in content[x.reference].functions}
        BY <2>2 DEF ModuleBlocks, ModuleFiles, RawFiles
      <3> QED
        BY <3>1
    <2> QED
      BY <2>1, <2>2
  <1> QED
    BY <1>1, <1>2, <1>3, <1>4, <1>5, <1>7, <1>8

\* The sections that give names away, first to others and then to the project.
Others(k, n) ==
    \/ k = 3 /\ n \in TargetsOf(RawFiles)
    \/ k = 4 /\ n \in TargetsOf(ModuleFiles)
    \/ k = 6 /\ n \in TestName
    \/ k = 9 /\ n \in Inner
    \/ k = 10 /\ n \in model.children
OfOurs(k, t) ==
    \/ k = 12 /\ t.kind \in LibraryKinds
    \/ k = 13 /\ t.kind = "executable"
    \/ k = 14 /\ t.kind = "python"
    \/ k = 16 /\ t.kind = "test"
ByProject(k, n) ==
    \/ k = 17 /\ n \in NamesOf(model.customs)
    \/ \E t \in Elements(model.targets) : OfOurs(k, t) /\ n \in {t.name} \cup Stub(t)

LEMMA OnceGiven ==
    ASSUME NEW k \in 1 .. 18, NEW f, Gives(Section(k), f), f[1] \in Once
    PROVE  \/ k = 11
           \/ \E n : f = <<"target", n>> /\ (Others(k, n) \/ ByProject(k, n))
  <1>1. PICK b \in Section(k) : f \in b.gives
    BY DEF Gives
  <1>2. CASE k \in {1, 2, 5, 7, 8, 15, 18}
    <2>1. Nameless(Section(k))
      BY <1>2, AllSections, NamelessSections DEF Section
    <2> QED
      BY <1>1, <2>1 DEF Nameless
  <1>3. ASSUME NEW N, Naming(Section(k), N)
        PROVE  \E n \in N : f = <<"target", n>>
    BY <1>1, <1>3 DEF Naming
  <1>4. CASE k \in {3, 4, 6, 9, 10}
    <2>4. CASE k = 3
      BY <1>3, <2>4, AllSections, NamingSections DEF Section, Others
    <2>5. CASE k = 4
      BY <1>3, <2>5, AllSections, NamingSections DEF Section, Others
    <2>1. CASE k = 6
      BY <1>3, <2>1, AllSections, NamingSections DEF Section, Others
    <2>2. CASE k = 9
      BY <1>3, <2>2, AllSections, NamingSections DEF Section, Others
    <2>3. CASE k = 10
      BY <1>3, <2>3, AllSections, NamingSections DEF Section, Others
    <2> QED
      BY <1>4, <2>1, <2>2, <2>3, <2>4, <2>5
  <1>5. CASE k \in {12, 13, 14, 16}
    <2>1. PICK kinds : /\ Section(k) = TargetBlocks(model, kinds)
                       /\ \A t : t.kind \in kinds => OfOurs(k, t)
      <3>1. CASE k = 12
        BY <3>1, AllSections DEF Section, OfOurs
      <3>2. CASE k = 13
        BY <3>2, AllSections DEF Section, OfOurs
      <3>3. CASE k = 14
        BY <3>3, AllSections DEF Section, OfOurs
      <3>4. CASE k = 16
        BY <3>4, AllSections DEF Section, OfOurs
      <3> QED
        BY <1>5, <3>1, <3>2, <3>3, <3>4
    <2>2. PICK n \in OwnNames(kinds) : f = <<"target", n>>
      BY <1>3, <2>1, NamingSections
    <2>3. ByProject(k, n)
      BY <2>1, <2>2 DEF OwnNames, ByProject, Of
    <2> QED
      BY <2>2, <2>3
  <1>6. CASE k = 17
    BY <1>3, <1>6, AllSections, NamingSections DEF Section, ByProject
  <1>7. k \in {1, 2, 5, 7, 8, 15, 18} \cup {3, 4, 6, 9, 10} \cup {12, 13, 14, 16} \cup {11, 17}
    OBVIOUS
  <1> QED
    BY <1>2, <1>4, <1>5, <1>6, <1>7

\* A name of the project that is taken, and one that the project gives twice.
LEMMA TakenName ==
    ASSUME NEW k, NEW n, ByProject(k, n), n \in Taken
    PROVE  NameIsTaken
  <1>1. n \in Own \cup Stubs
    BY DEF ByProject, Own, Stubs, NamesOf
  <1> QED
    BY <1>1 DEF NameIsTaken

LEMMA StubMeetsName ==
    ASSUME NEW t \in Elements(model.targets), NEW n \in Stub(t), n \in Own
    PROVE  NameIsTaken
  BY DEF NameIsTaken, Stubs

LEMMA OwnMeet ==
    ASSUME Checked, NEW j, NEW k, NEW n, ByProject(j, n), ByProject(k, n), j # k
    PROVE  NameIsTaken
  <1>1. CheckTargetNames(model)
    BY FirstChecks DEF Checked
  <1>2. ASSUME NEW i, NEW t \in Elements(model.targets), OfOurs(i, t), n \in {t.name} \cup Stub(t),
               n \in NamesOf(model.customs)
        PROVE  NameIsTaken
    <2>1. n \in Own /\ n # t.name
      BY <1>1, <1>2 DEF CheckTargetNames, Own, NamesOf
    <2> QED
      BY <1>2, <2>1, StubMeetsName
  <1>3. ASSUME NEW t \in Elements(model.targets), NEW u \in Elements(model.targets),
               OfOurs(j, t), OfOurs(k, u), n \in {t.name} \cup Stub(t), n \in {u.name} \cup Stub(u)
        PROVE  NameIsTaken
    <2>1. t # u
      BY <1>3 DEF OfOurs, LibraryKinds
    <2>2. t.name # u.name
      BY <2>1, NamesAreUnique
    <2>3. {t.name, u.name} \subseteq Own
      BY DEF Own, NamesOf
    <2>4. CASE n \in Stub(t) /\ n = u.name
      BY <2>3, <2>4, StubMeetsName
    <2>5. CASE n \in Stub(u) /\ n = t.name
      BY <2>3, <2>5, StubMeetsName
    <2>6. CASE n \in Stub(t) /\ n \in Stub(u)
      BY <1>3, <2>6 DEF Stub, OfOurs, LibraryKinds
    <2> QED
      BY <1>3, <2>2, <2>4, <2>5, <2>6
  <1> QED
    BY <1>2, <1>3 DEF ByProject

\* A name that an earlier section has given, or CMake itself.
LEMMA NamesMeet ==
    ASSUME Checked, NEW j \in 1 .. 18, NEW k \in 1 .. 18, j < k, NEW n,
           Others(j, n) \/ ByProject(j, n), Others(k, n) \/ ByProject(k, n)
    PROVE  Reasons
  <1>1. CASE Others(j, n) /\ Others(k, n)
    <2>1. CASE j = 3 /\ k = 4
      <3>1. PICK f \in RawFiles : n \in FileTargets(f)
        BY <1>1, <2>1 DEF Others, TargetsOf
      <3>2. PICK g \in ModuleFiles : n \in FileTargets(g)
        BY <1>1, <2>1 DEF Others, TargetsOf
      <3>3. f \in Included(model) /\ g \in Included(model) /\ f # g
        BY FilesAreIncluded
      <3> QED
        BY <3>1, <3>2, <3>3 DEF OthersMeet, Reasons
    <2>2. CASE j \in {3, 4} /\ k \notin {3, 4}
      <3>1. n \in AddedByFiles(model)
        BY <1>1, <2>2, FilesAreIncluded DEF Others
      <3> QED
        BY <1>1, <2>2, <3>1 DEF Others, OthersMeet, Reasons
    <2>3. CASE j \notin {3, 4}
      BY <1>1, <2>3 DEF Others, OthersMeet, Reasons
    <2> QED
      BY <1>1, <2>1, <2>2, <2>3
  <1>2. CASE Others(j, n) /\ ByProject(k, n)
    BY <1>2, TakenName, FilesAreIncluded DEF Others, Taken, Reasons
  <1>3. CASE ByProject(j, n) /\ Others(k, n)
    BY <1>3 DEF ByProject, OfOurs, Others
  <1>4. CASE ByProject(j, n) /\ ByProject(k, n)
    BY <1>4, OwnMeet DEF Reasons
  <1> QED
    BY <1>1, <1>2, <1>3, <1>4

LEMMA CMakeHasTheName ==
    ASSUME NEW k, NEW n \in Reserved, Others(k, n) \/ ByProject(k, n)
    PROVE  Reasons
  <1>1. CASE Others(k, n)
    BY <1>1, FilesAreIncluded DEF Others, OthersMeet, Reasons
  <1>2. CASE ByProject(k, n)
    BY <1>2, TakenName DEF Taken, Reasons
  <1> QED
    BY <1>1, <1>2

\* Only packages import, and only what they are said to give.
LEMMA OnlyPackagesImport ==
    ASSUME NEW k \in 1 .. 18, NEW n, Gives(Section(k), <<"imported", n>>)
    PROVE  k = 9 /\ n \in Provided(model)
  <1>1. PICK b \in Section(k) : <<"imported", n>> \in b.gives
    BY DEF Gives
  <1>2. CASE k \in {1, 2, 3, 4}
    BY <1>1, <1>2, AllSections DEF Section, Preamble, OptionBlocks, RawIncludes, ModuleBlocks, FileBlocks,
       Giving, Block
  <1>3. CASE k \in {5, 6, 7, 8}
    BY <1>1, <1>3, AllSections DEF Section, ModuleIncludes, Testing, PythonPreamble, SanitizePreamble,
       Giving, Block
  <1>4. CASE k \in {10, 11, 17}
    BY <1>1, <1>4, AllSections DEF Section, Subdirectories, CommandBlocks, CustomTargetBlocks, Giving, Block
  <1>5. CASE k \in {12, 13, 14, 16}
    <2>1. PICK kinds : Section(k) = TargetBlocks(model, kinds)
      BY <1>5, AllSections DEF Section
    <2> QED
      BY <1>1, <2>1 DEF TargetBlocks, TargetBlock, Block
  <1>6. CASE k \in {15, 18}
    BY <1>1, <1>6, AllSections, FrameworkBlocks DEF Section, InstallBlocks, Block
  <1>7. CASE k = 9
    <2>1. PICK p \in model.packages : b = Block(PackageNeeds(model, p), PackageGives(model, p, lacking), {})
      BY <1>1, <1>7, AllSections DEF Section, PackageBlocks
    <2>2. n \in p.gives
      BY <1>1, <2>1, PackageFacts DEF Block
    <2> QED
      BY <1>7, <2>2 DEF Provided
  <1>8. k \in {1, 2, 3, 4} \cup {5, 6, 7, 8} \cup {9, 10, 11, 15, 17, 18} \cup {12, 13, 14, 16}
    OBVIOUS
  <1> QED
    BY <1>2, <1>3, <1>4, <1>5, <1>6, <1>7, <1>8

\* A name that has been imported.
LEMMA ImportedMeets ==
    ASSUME NEW k \in 1 .. 18, 9 < k, NEW n \in Provided(model), Others(k, n) \/ ByProject(k, n)
    PROVE  Reasons
  <1>1. CASE Others(k, n)
    BY <1>1 DEF Others, OthersMeet, Reasons
  <1>2. CASE ByProject(k, n)
    BY <1>2, TakenName DEF Taken, Reasons
  <1> QED
    BY <1>1, <1>2

\* Blocks of two packages that give a target, one of them perhaps by importing it.
LEMMA PackagesMeet ==
    ASSUME NEW b \in Section(9), NEW d \in Section(9), b # d, NEW n,
           <<"target", n>> \in b.gives, <<"target", n>> \in d.gives \/ <<"imported", n>> \in d.gives
    PROVE  OthersMeet
  <1> DEFINE block(p) == Block(PackageNeeds(model, p), PackageGives(model, p, lacking), {})
  <1>1. Section(9) = {block(p) : p \in model.packages}
    BY AllSections DEF Section, PackageBlocks
  <1>2. \A p : block(p).gives = PackageGives(model, p, lacking)
    BY DEF Block
  <1> HIDE DEF block
  <1>3. PICK p \in model.packages : b = block(p)
    BY <1>1
  <1>4. PICK q \in model.packages : d = block(q)
    BY <1>1
  <1>5. p # q /\ p \in lacking /\ n \in p.inner
    BY <1>2, <1>3, <1>4, PackageFacts
  <1>6. n \in q.gives \/ (q \in lacking /\ n \in q.inner)
    BY <1>2, <1>4, PackageFacts
  <1>7. n \in p.inner \cap (q.gives \cup IF q \in lacking THEN q.inner ELSE {})
    BY <1>5, <1>6
  <1> QED
    BY <1>5, <1>7 DEF OthersMeet

LEMMA FilesMeet ==
    ASSUME NEW files \in SUBSET Included(model), NEW b \in FileBlocks(model, files),
           NEW d \in FileBlocks(model, files), b # d,
           NEW n, <<"target", n>> \in b.gives, <<"target", n>> \in d.gives
    PROVE  OthersMeet
  <1> DEFINE block(f) == Block(RunNeeds(model, f), {<<"target", t>> : t \in FileTargets(f)}, {})
  <1>1. \A f : block(f).gives = {<<"target", t>> : t \in FileTargets(f)}
    BY DEF Block
  <1>2. FileBlocks(model, files) = {block(f) : f \in files}
    BY Zenon DEF FileBlocks
  <1> HIDE DEF block
  <1>3. PICK f \in files : b = block(f)
    BY <1>2
  <1>4. PICK g \in files : d = block(g)
    BY <1>2
  <1>5. n \in FileTargets(f) /\ n \in FileTargets(g) /\ f # g
    BY <1>1, <1>3, <1>4
  <1> QED
    BY <1>5 DEF OthersMeet

LEMMA OneBlock ==
    ASSUME NEW b \in Subdirectories(model), NEW d \in Subdirectories(model)
    PROVE  b = d
  BY DEF Subdirectories

\* Two blocks of one section that give the same away.
LEMMA BlocksMeet ==
    ASSUME Checked, SoundProject(model), NEW k \in 1 .. 18,
           NEW b \in Section(k), NEW d \in Section(k), b # d,
           NEW n, <<"target", n>> \in b.gives, <<"target", n>> \in d.gives
    PROVE  Reasons
  <1> DEFINE f == <<"target", n>>
  <1>1. f[1] \in Once /\ Gives(Section(k), f)
    BY DEF Once, Gives
  <1>2. PICK x : f = <<"target", x>> /\ (k = 11 \/ Others(k, x) \/ ByProject(k, x))
    BY <1>1, OnceGiven
  <1>3. CASE k = 6
    BY <1>3, AllSections DEF Section, Testing
  <1>4. CASE k = 9
    BY <1>4, PackagesMeet DEF Reasons
  <1>9. CASE k \in {3, 4}
    <2>1. PICK files \in SUBSET Included(model) :
              \A e \in Section(k) : <<"target", n>> \in e.gives => e \in FileBlocks(model, files)
      <3>1. CASE k = 3
        <4>1. \A e \in Section(k) : <<"target", n>> \in e.gives => e \in FileBlocks(model, RawFiles)
          BY <3>1, AllSections DEF Section, RawIncludes, RawFiles, Block
        <4> QED
          BY <4>1, FilesAreIncluded
      <3>2. CASE k = 4
        <4>1. \A e \in Section(k) : <<"target", n>> \in e.gives => e \in FileBlocks(model, ModuleFiles)
          BY <3>2, AllSections DEF Section, ModuleBlocks, ModuleFiles, RawFiles, Block
        <4> QED
          BY <4>1, FilesAreIncluded
      <3> QED
        BY <1>9, <3>1, <3>2
    <2>2. b \in FileBlocks(model, files) /\ d \in FileBlocks(model, files)
      BY <2>1
    <2> QED
      BY <2>2, FilesMeet DEF Reasons
  <1>5. CASE k = 10
    BY <1>5, AllSections, OneBlock DEF Section
  <1>6. CASE k = 11
    BY <1>6, AllSections DEF Section, CommandBlocks, Giving, Block
  <1>7. CASE k = 17
    <2>1. Section(k) = {Giving({<<"target", c.name>>}) : c \in Elements(model.customs)}
      BY <1>7, AllSections DEF Section, CustomTargetBlocks
    <2>2. \A y : <<"target", n>> \in Giving({<<"target", y>>}).gives => y = n
      BY DEF Giving, Block
    <2>3. b = Giving({<<"target", n>>}) /\ d = Giving({<<"target", n>>})
      BY <2>1, <2>2
    <2> QED
      BY <2>3
  <1>8. CASE k \in {12, 13, 14, 16}
    <2>1. PICK kinds : Section(k) = TargetBlocks(model, kinds)
      BY <1>8, AllSections DEF Section
    <2>2. PICK t \in Elements(model.targets) : b = TargetBlock(model, t)
      BY <2>1 DEF TargetBlocks, Of
    <2>3. PICK u \in Elements(model.targets) : d = TargetBlock(model, u)
      BY <2>1 DEF TargetBlocks, Of
    <2>4. n \in {t.name} \cup Stub(t) /\ n \in {u.name} \cup Stub(u)
      BY <2>2, <2>3 DEF TargetBlock, Block
    <2>5. t.name # u.name
      BY <2>2, <2>3, NamesAreUnique
    <2>6. t.name \in Own /\ u.name \in Own
      BY DEF Own, NamesOf
    <2>7. t.name \in Names /\ u.name \in Names
      BY DEF SoundProject, Sound, Elements, TargetModel
    <2>8. ~(n \in Stub(t) /\ n \in Stub(u))
      <3>1. n \in Stub(t) => n = t.name \o "_stub"
        BY DEF Stub
      <3>2. n \in Stub(u) => n = u.name \o "_stub"
        BY DEF Stub
      <3> QED
        BY <2>5, <2>7, <3>1, <3>2, EmissionAssumption
    <2>9. NameIsTaken
      BY <2>4, <2>5, <2>6, <2>8, StubMeetsName
    <2> QED
      BY <2>9 DEF Reasons
  <1> QED
    BY <1>2, <1>3, <1>4, <1>5, <1>6, <1>7, <1>8, <1>9 DEF Others, ByProject, OfOurs

\* Two commands that make one file.
LEMMA CommandsMeet ==
    ASSUME NEW b \in CommandBlocks(model), NEW d \in CommandBlocks(model), b # d,
           NEW f, f \in b.gives, f \in d.gives, f[1] \in Once
    PROVE  TwoMakeOneFile
  <1> DEFINE gives(i) == {<<"output", o>> : o \in model.commands[i].outputs} \cup {<<"command", i>>}
             block(i) == Giving(gives(i))
  <1>1. CommandBlocks(model) = {block(i) : i \in DOMAIN model.commands}
    BY DEF CommandBlocks
  <1>2. \A i : block(i).gives = gives(i)
    BY DEF Giving, Block
  <1> HIDE DEF block
  <1>3. PICK i \in DOMAIN model.commands : b = block(i)
    BY <1>1
  <1>4. PICK j \in DOMAIN model.commands : d = block(j)
    BY <1>1
  <1>5. i # j /\ f \in gives(i) /\ f \in gives(j)
    BY <1>2, <1>3, <1>4
  <1>6. PICK o \in model.commands[i].outputs : f = <<"output", o>>
    BY <1>5 DEF Once
  <1>7. o \in model.commands[j].outputs
    BY <1>5, <1>6
  <1> QED
    BY <1>5, <1>6, <1>7 DEF TwoMakeOneFile

LEMMA TwiceHasReasons ==
    ASSUME Checked, SoundProject(model), ReadSoFar, at < 18, Twice(Section(at + 1))
    PROVE  Reasons
  <1> DEFINE k == at + 1
  <1>1. k \in 1 .. 18 /\ at \in 0 .. 18 /\ \A j \in 1 .. at : j \in 1 .. 18 /\ j < k
    BY DEF ReadSoFar
  <1> HIDE DEF k
  <1>2. PICK b \in Section(k) : \E f \in b.gives :
            /\ f[1] \in Once
            /\ \/ f \in known
               \/ f[1] = "target" /\ <<"imported", f[2]>> \in known
               \/ \E other \in Section(k) \ {b} : f \in other.gives
    BY DEF Twice, k
  <1>3. PICK f \in b.gives :
            /\ f[1] \in Once
            /\ \/ f \in known
               \/ f[1] = "target" /\ <<"imported", f[2]>> \in known
               \/ \E other \in Section(k) \ {b} : f \in other.gives
    BY <1>2
  <1>4. Gives(Section(k), f)
    BY <1>3 DEF Gives
  <1>5. CASE k = 11
    <2>1. Section(k) = CommandBlocks(model)
      BY <1>5, AllSections DEF Section
    <2>2. f[1] = "output"
      BY <1>2, <1>3, <2>1 DEF CommandBlocks, Giving, Block, Once
    <2>3. f \notin known
      <3>1. ~AtFirst(f)
        <4>1. \A x : <<"file", x>>[1] # f[1] /\ <<"target", x>>[1] # f[1]
          BY <2>2
        <4>2. \A x : <<"run", x>>[1] # f[1] /\ <<"run again", x>>[1] # f[1]
          BY <2>2
        <4> QED
          BY <4>1, <4>2, Zenon DEF AtFirst, Runnable
      <3>2. ASSUME NEW j \in 1 .. at, Gives(Section(j), f) PROVE FALSE
        <4>1. j \in 1 .. 18 /\ j # 11
          BY <1>1, <1>5
        <4>2. PICK n : f = <<"target", n>>
          BY <1>3, <3>2, <4>1, OnceGiven
        <4> QED
          BY <2>2, <4>2
      <3> QED
        BY <3>1, <3>2 DEF ReadSoFar
    <2> QED
      BY <1>2, <1>3, <2>1, <2>2, <2>3, CommandsMeet DEF Reasons
  <1>6. CASE k # 11
    <2>1. PICK n : f = <<"target", n>> /\ (Others(k, n) \/ ByProject(k, n))
      BY <1>1, <1>3, <1>4, <1>6, OnceGiven
    <2>2. CASE f \in known
      <3>1. CASE AtFirst(f)
        <4>1. n \in Reserved
          BY <2>1, <3>1 DEF AtFirst, Runnable
        <4> QED
          BY <2>1, <4>1, CMakeHasTheName
      <3>2. CASE \E j \in 1 .. at : Gives(Section(j), f)
        <4>1. PICK j \in 1 .. at : Gives(Section(j), f)
          BY <3>2
        <4>2. j \in 1 .. 18 /\ j < k
          BY <1>1
        <4>3. CASE j = 11
          <5>1. Section(j) = CommandBlocks(model)
            BY <4>3, AllSections DEF Section
          <5> QED
            BY <2>1, <4>1, <5>1 DEF Gives, CommandBlocks, Giving, Block
        <4>4. CASE j # 11
          <5>1. PICK m : f = <<"target", m>> /\ (Others(j, m) \/ ByProject(j, m))
            BY <1>3, <4>1, <4>2, <4>4, OnceGiven
          <5>2. m = n
            BY <2>1, <5>1
          <5> QED
            BY <1>1, <2>1, <4>2, <5>1, <5>2, NamesMeet
        <4> QED
          BY <4>3, <4>4
      <3> QED
        BY <2>2, <3>1, <3>2 DEF ReadSoFar
    <2>3. CASE <<"imported", n>> \in known
      <3>1. ~AtFirst(<<"imported", n>>)
        BY DEF AtFirst, Runnable
      <3>2. PICK j \in 1 .. at : Gives(Section(j), <<"imported", n>>)
        BY <2>3, <3>1 DEF ReadSoFar
      <3>3. j \in 1 .. 18 /\ j < k
        BY <1>1
      <3>4. j = 9 /\ n \in Provided(model)
        BY <3>2, <3>3, OnlyPackagesImport
      <3> QED
        BY <1>1, <2>1, <3>3, <3>4, ImportedMeets
    <2>4. CASE \E other \in Section(k) \ {b} : f \in other.gives
      BY <1>1, <1>2, <1>3, <2>1, <2>4, BlocksMeet
    <2>5. f[2] = n
      BY <2>1
    <2> QED
      BY <1>3, <2>2, <2>3, <2>4, <2>5
  <1> QED
    BY <1>5, <1>6

LEMMA MayMeetHasReasons ==
    ASSUME NEW k \in 1 .. 18, MayMeet(Section(k))
    PROVE  Reasons
  <1>1. PICK b \in Section(k) : \E f \in b.gives :
            f[1] = "target" /\ \E other \in Section(k) \ {b} : <<"imported", f[2]>> \in other.gives
    BY DEF MayMeet
  <1>2. PICK f \in b.gives :
            f[1] = "target" /\ \E other \in Section(k) \ {b} : <<"imported", f[2]>> \in other.gives
    BY <1>1
  <1>3. PICK d \in Section(k) \ {b} : <<"imported", f[2]>> \in d.gives
    BY <1>2
  <1>4. k = 9
    BY <1>3, OnlyPackagesImport DEF Gives
  <1>5. f[1] \in Once /\ Gives(Section(k), f)
    BY <1>2 DEF Once, Gives
  <1>6. PICK n : f = <<"target", n>>
    BY <1>4, <1>5, OnceGiven
  <1> QED
    BY <1>2, <1>3, <1>4, <1>6, PackagesMeet DEF Reasons

-----------------------------------------------------------------------------
(* What the sections need has been given before.                           *)

LEMMA GivenFacts ==
    /\ \A o \in NamesOf(model.options) : Gives(OptionBlocks(model), <<"option", o>>)
    /\ Of(model, {"shared"}) # {} => Gives(ModuleIncludes(model), <<"include", "GenerateExportHeader">>)
    /\ model.packages # {} /\ model.manager = "auto" =>
          Gives(ModuleIncludes(model), <<"include", "FetchContent">>)
    /\ model.installs # <<>> => Gives(ModuleIncludes(model), <<"include", "GNUInstallDirs">>)
    /\ Of(model, {"test"}) # {} => Gives(Testing(model), <<"include", "testing">>)
    /\ Of(model, {"python"}) # {} => Gives(PythonPreamble(model), <<"include", "Python">>)
    /\ SanitizerUnion(model) # {} => Gives(SanitizePreamble(model), <<"include", "CMAKELESS_SANITIZE">>)
    /\ \A p \in model.packages :
          /\ Source(model, p, lacking) # "there" =>
                Gives(PackageBlocks(model, lacking), <<"package", p.name>>)
          /\ \A t \in ImportedBy(model, p, lacking) :
                Gives(PackageBlocks(model, lacking), <<"imported", t>>)
          /\ \A t \in ExportedBy(model, p, lacking) :
                Gives(PackageBlocks(model, lacking), <<"exported", t>>)
    /\ \A x \in Frameworks(model) : Gives(FrameworkIncludes(model), <<"discovery", x>>)
    /\ \A kinds : \A t \in Of(model, kinds) : Gives(TargetBlocks(model, kinds), <<"target", t.name>>)
    /\ \A x \in Elements(model.installs) : Gives(InstallBlocks(model), <<"exported", x.target>>)
  <1> USE DEF Gives, Giving, Block
  <1>1. \A o \in NamesOf(model.options) : Gives(OptionBlocks(model), <<"option", o>>)
    <2> SUFFICES ASSUME NEW x \in Elements(model.options)
                 PROVE  Gives(OptionBlocks(model), <<"option", x.name>>)
      BY DEF NamesOf
    <2>1. Giving({<<"option", x.name>>}) \in OptionBlocks(model)
      BY Zenon DEF OptionBlocks
    <2> QED
      BY <2>1
  <1>2. ASSUME NEW x \in (IF Of(model, {"shared"}) = {} THEN {} ELSE {"GenerateExportHeader"})
                      \cup (IF model.packages = {} \/ model.manager # "auto" THEN {} ELSE {"FetchContent"})
                      \cup (IF model.installs = <<>> THEN {} ELSE {"GNUInstallDirs"})
        PROVE  Gives(ModuleIncludes(model), <<"include", x>>)
    <2>1. Giving({<<"include", x>>}) \in ModuleIncludes(model)
      BY Zenon DEF ModuleIncludes
    <2> QED
      BY <2>1
  <1>3. Of(model, {"test"}) # {} => Gives(Testing(model), <<"include", "testing">>)
    BY DEF Testing
  <1>4. Of(model, {"python"}) # {} => Gives(PythonPreamble(model), <<"include", "Python">>)
    BY DEF PythonPreamble
  <1>5. SanitizerUnion(model) # {} => Gives(SanitizePreamble(model), <<"include", "CMAKELESS_SANITIZE">>)
    BY DEF SanitizePreamble
  <1>6. ASSUME NEW p \in model.packages
        PROVE  /\ Source(model, p, lacking) # "there" =>
                     Gives(PackageBlocks(model, lacking), <<"package", p.name>>)
               /\ \A t \in ImportedBy(model, p, lacking) :
                     Gives(PackageBlocks(model, lacking), <<"imported", t>>)
               /\ \A t \in ExportedBy(model, p, lacking) :
                     Gives(PackageBlocks(model, lacking), <<"exported", t>>)
    <2> DEFINE needs == PackageNeeds(model, p)
               gives == PackageGives(model, p, lacking)
    <2>1. Block(needs, gives, {}) \in PackageBlocks(model, lacking)
      BY Zenon DEF PackageBlocks
    <2>2. Block(needs, gives, {}).gives = gives
      OBVIOUS
    <2>3. /\ Source(model, p, lacking) # "there" => <<"package", p.name>> \in gives
          /\ \A t \in ImportedBy(model, p, lacking) : <<"imported", t>> \in gives
          /\ \A t \in ExportedBy(model, p, lacking) : <<"exported", t>> \in gives
      BY DEF PackageGives, Has
    <2> HIDE DEF needs, gives
    <2> QED
      BY <2>1, <2>2, <2>3 DEF Gives
  <1>7. ASSUME NEW x \in Frameworks(model)
        PROVE  Gives(FrameworkIncludes(model), <<"discovery", x>>)
    <2>1. Block(Has(<<"package", FrameworkPackage[x].name>>, x # "gtest"), {<<"discovery", x>>}, {})
          \in FrameworkIncludes(model)
      BY Zenon DEF FrameworkIncludes
    <2> QED
      BY <2>1
  <1>8. ASSUME NEW kinds, NEW t \in Of(model, kinds)
        PROVE  Gives(TargetBlocks(model, kinds), <<"target", t.name>>)
    <2>1. TargetBlock(model, t) \in TargetBlocks(model, kinds)
      BY Zenon DEF TargetBlocks
    <2>2. <<"target", t.name>> \in TargetBlock(model, t).gives
      BY DEF TargetBlock
    <2> QED
      BY <2>1, <2>2 DEF Gives
  <1>9. ASSUME NEW x \in Elements(model.installs)
        PROVE  Gives(InstallBlocks(model), <<"exported", x.target>>)
    <2> DEFINE needs == {<<"include", "GNUInstallDirs">>, <<"target", x.target>>}
               later == UNION {{<<"exported", n>> : n \in Travels(model, t)} :
                                  t \in {t \in Installable(model) : t.name = x.target}}
    <2>1. Block(needs, {<<"exported", x.target>>}, later) \in InstallBlocks(model)
      BY Zenon DEF InstallBlocks
    <2> HIDE DEF needs, later
    <2> QED
      BY <2>1
  <1> QED
    BY <1>1, <1>2, <1>3, <1>4, <1>5, <1>6, <1>7, <1>8, <1>9

\* What is known of a model that CMake reads.
Accepting == ModelIsFit /\ SoundProject(model) /\ Checked /\ CheckedOn

\* No included file has added what a package gives: packages are found or fetched.
LEMMA PackagesBring ==
    ASSUME Accepting, ~OthersMeet, NEW p \in model.packages
    PROVE  Source(model, p, lacking) # "there" /\ ImportedBy(model, p, lacking) = p.gives
  <1>1. CheckDependencies(model)
    BY FirstChecks DEF Accepting, Checked
  <1>2. (CHOOSE t \in p.gives : TRUE) \in p.gives
    BY <1>1 DEF CheckDependencies
  <1>3. p.gives \subseteq Provided(model)
    BY DEF Provided
  <1>4. ~IsThere(model, p)
    BY <1>2, <1>3 DEF IsThere, OthersMeet
  <1>5. Source(model, p, lacking) # "there"
    BY <1>4 DEF Source
  <1> QED
    BY <1>5 DEF ImportedBy

LEMMA TargetNeedsMet ==
    ASSUME Accepting, ~OthersMeet, ReadSoFar, at >= 11, NEW kinds, NEW t \in Of(model, kinds),
           "test" \in kinds => kinds = {"test"} /\ at >= 15,
           NEW f \in TargetNeeds(model, t)
    PROVE  f \in known
  <1> USE DEF ReadSoFar
  <1>1. t \in Elements(model.targets)
    BY DEF Of
  <1>2. ASSUME NEW k \in 1 .. 11, Gives(Section(k), f) PROVE f \in known
    BY <1>2
  <1>3. CASE f = <<"include", "GenerateExportHeader">> /\ t.kind = "shared"
    <2>1. Of(model, {"shared"}) # {}
      BY <1>1, <1>3 DEF Of
    <2> QED
      BY <1>2, <1>3, <2>1, GivenFacts, AllSections DEF Section
  <1>4. CASE f = <<"package", t.backend>> /\ t.kind = "python"
    <2>1. BackedTarget(t, model.packages)
      BY <1>1 DEF Accepting, ModelIsFit, Backed, Elements
    <2>2. PICK p \in model.packages : p.name = t.backend
      BY <1>4, <2>1, EmissionAssumption DEF BackedTarget
    <2>3. Source(model, p, lacking) # "there"
      BY PackagesBring
    <2> QED
      BY <1>2, <1>4, <2>2, <2>3, GivenFacts, AllSections DEF Section
  <1>5. CASE f = <<"include", "testing">> /\ t.kind = "test"
    <2>1. Of(model, {"test"}) # {}
      BY <1>1, <1>5 DEF Of
    <2> QED
      BY <1>2, <1>5, <2>1, GivenFacts, AllSections DEF Section
  <1>6. CASE f = <<"discovery", t.backend>> /\ t.kind = "test" /\ t.backend # "none"
    <2>1. t.backend \in Frameworks(model) /\ "test" \in kinds
      BY <1>1, <1>6 DEF Of, Frameworks
    <2>2. Gives(Section(15), f)
      BY <1>6, <2>1, GivenFacts, AllSections DEF Section
    <2>3. 15 \in 1 .. at
      BY <2>1
    <2> QED
      BY <2>2, <2>3
  <1>7. CASE f = <<"include", "CMAKELESS_SANITIZE">> /\ SanitizerUnion(model) # {}
    BY <1>2, <1>7, GivenFacts, AllSections DEF Section
  <1>8. CASE f \in OptionNeeds(t)
    <2>1. PICK o \in t.whens : f = <<"option", o>>
      BY <1>8 DEF OptionNeeds
    <2>2. CheckWhens(model)
      BY SecondChecks DEF Accepting, CheckedOn
    <2>3. o \in NamesOf(model.options)
      BY <1>1, <2>1, <2>2 DEF CheckWhens
    <2> QED
      BY <1>2, <2>1, <2>3, GivenFacts, AllSections DEF Section
  <1> QED
    BY <1>3, <1>4, <1>5, <1>6, <1>7, <1>8 DEF TargetNeeds

LEMMA NeedsMet ==
    ASSUME Accepting, ~OthersMeet, ~IncludeFails, ReadSoFar, at < 18,
           NEW b \in Section(at + 1), NEW f \in b.needs
    PROVE  f \in known
  <1> DEFINE k == at + 1
  <1>1. k \in 1 .. 18 /\ at = k - 1 /\ at \in Nat
    BY DEF ReadSoFar
  <1>2. /\ CheckModules(model) /\ CheckInstalls(model) /\ CheckRawCMakeFiles(model)
    BY SecondChecks DEF Accepting, CheckedOn
  <1>3. ASSUME NEW j \in 1 .. at, Gives(Section(j), f) PROVE f \in known
    BY <1>3 DEF ReadSoFar
  <1>4. \A x \in Files : <<"file", x>> \in known
    BY DEF ReadSoFar, AtFirst
  <1>14. \A x \in Included(model) : RunNeeds(model, x) \subseteq known
    BY DEF ReadSoFar, AtFirst, IncludeFails
  <1>5. b \in Section(k)
    OBVIOUS
  <1> HIDE DEF k
  <1>6. CASE k \in {1, 2, 5, 6, 7, 8, 10, 11, 17}
    <2>1. CASE k = 1 \/ k = 2
      BY <1>5, <2>1, AllSections DEF Section, Preamble, OptionBlocks, Giving, Block
    <2>2. CASE k = 5
      BY <1>5, <2>2, AllSections DEF Section, ModuleIncludes, Giving, Block
    <2>3. CASE k \in {6, 7, 8}
      BY <1>5, <2>3, AllSections DEF Section, Testing, PythonPreamble, SanitizePreamble, Giving, Block
    <2>4. CASE k = 10
      BY <1>5, <2>4, AllSections DEF Section, Subdirectories, Giving, Block
    <2>5. CASE k = 11
      BY <1>5, <2>5, AllSections DEF Section, CommandBlocks, Giving, Block
    <2>6. CASE k = 17
      BY <1>5, <2>6, AllSections DEF Section, CustomTargetBlocks, Giving, Block
    <2> QED
      BY <1>6, <2>1, <2>2, <2>3, <2>4, <2>5, <2>6
  <1>7. CASE k = 3
    <2>1. \E x \in RawFiles : f = <<"file", x>> \/ f \in RunNeeds(model, x)
      BY <1>5, <1>7, AllSections DEF Section, RawIncludes, FileBlocks, RawFiles, Block
    <2> QED
      BY <1>2, <1>4, <1>14, <2>1, FilesAreIncluded DEF CheckRawCMakeFiles, RawFiles
  <1>8. CASE k = 4
    <2>1. \/ \E x \in Elements(model.modules) : x.kind = "file" /\ f = <<"file", x.reference>>
          \/ \E x \in ModuleFiles : f \in RunNeeds(model, x)
      BY <1>5, <1>8, AllSections DEF Section, ModuleBlocks, FileBlocks, ModuleFiles, RawFiles, Block
    <2> QED
      BY <1>2, <1>4, <1>14, <2>1, FilesAreIncluded DEF CheckModules
  <1>9. CASE k = 9
    <2>1. PICK p \in model.packages :
              \/ f = <<"include", "FetchContent">> /\ model.manager = "auto"
              \/ f = <<"include", "Python">> /\ p.name \in {t.backend : t \in Of(model, {"python"})}
      BY <1>5, <1>9, AllSections DEF Section, PackageBlocks, PackageNeeds, Has, Block
    <2>2. 5 \in 1 .. at /\ 7 \in 1 .. at
      BY <1>1, <1>9
    <2>3. Gives(Section(5), f) \/ Gives(Section(7), f)
      BY <2>1, GivenFacts, AllSections DEF Section
    <2> QED
      BY <1>3, <2>2, <2>3
  <1>10. CASE k \in {12, 13, 14, 16}
    <2>1. PICK kinds : /\ Section(k) = TargetBlocks(model, kinds)
                       /\ "test" \in kinds => kinds = {"test"} /\ k = 16
      <3>1. CASE k = 12
        BY <3>1, AllSections DEF Section, LibraryKinds
      <3>2. CASE k = 13
        BY <3>2, AllSections DEF Section
      <3>3. CASE k = 14
        BY <3>3, AllSections DEF Section
      <3>4. CASE k = 16
        BY <3>4, AllSections DEF Section
      <3> QED
        BY <1>10, <3>1, <3>2, <3>3, <3>4
    <2>2. PICK t \in Of(model, kinds) : f \in TargetNeeds(model, t)
      BY <1>5, <2>1 DEF TargetBlocks, TargetBlock, Block
    <2>3. at >= 11 /\ (k = 16 => at >= 15)
      BY <1>1, <1>10
    <2> QED
      BY <2>1, <2>2, <2>3, TargetNeedsMet
  <1>11. CASE k = 15
    <2>1. PICK x \in Frameworks(model) : f = <<"package", FrameworkPackage[x].name>>
      BY <1>5, <1>11, AllSections DEF Section, FrameworkIncludes, Has, Block
    <2>2. PICK t \in Of(model, {"test"}) : t.backend = x /\ x # "none"
      BY <2>1 DEF Frameworks
    <2>3. FrameworkPackage[x] \in model.packages
      BY <2>2 DEF Of, Elements, Accepting, ModelIsFit, Backed, BackedTarget
    <2>6. Source(model, FrameworkPackage[x], lacking) # "there"
      BY <2>3, PackagesBring
    <2>4. Gives(Section(9), f)
      BY <2>1, <2>3, <2>6, GivenFacts, AllSections DEF Section
    <2>5. 9 \in 1 .. at
      BY <1>1, <1>11
    <2> QED
      BY <1>3, <2>4, <2>5
  <1>12. CASE k = 18
    <2>1. PICK x \in Elements(model.installs) :
              f \in {<<"include", "GNUInstallDirs">>, <<"target", x.target>>}
      BY <1>5, <1>12, AllSections DEF Section, InstallBlocks, Block
    <2>2. model.installs # <<>>
      BY <2>1 DEF Elements
    <2>3. PICK t \in Installable(model) : t.name = x.target
      BY <1>2, <2>1 DEF CheckInstalls
    <2>4. t \in Of(model, LibraryKinds) \/ t \in Of(model, {"executable"})
      BY <2>3 DEF Installable, Of
    <2>5. Gives(Section(5), f) \/ Gives(Section(12), f) \/ Gives(Section(13), f)
      <3>1. CASE f = <<"include", "GNUInstallDirs">>
        BY <3>1, <2>2, GivenFacts, AllSections DEF Section
      <3>2. CASE f = <<"target", t.name>> /\ t \in Of(model, LibraryKinds)
        BY <3>2, GivenFacts, AllSections DEF Section
      <3>3. CASE f = <<"target", t.name>> /\ t \in Of(model, {"executable"})
        BY <3>3, GivenFacts, AllSections DEF Section
      <3> QED
        BY <2>1, <2>3, <2>4, <3>1, <3>2, <3>3
    <2>6. {5, 12, 13} \subseteq 1 .. at
      BY <1>1, <1>12
    <2> QED
      BY <1>3, <2>5, <2>6
  <1>13. k \in {1, 2, 5, 6, 7, 8, 10, 11, 17} \cup {3, 4, 9, 15, 18} \cup {12, 13, 14, 16}
    BY <1>1
  <1> QED
    BY <1>6, <1>7, <1>8, <1>9, <1>10, <1>11, <1>12, <1>13

-----------------------------------------------------------------------------
(* What is waited for has been given when the file ends.                   *)

LEMMA AskedFacts ==
    ASSUME Accepting, NEW k \in 1 .. 18, NEW f, Asks(Section(k), f)
    PROVE  \/ k = 4 /\ \E x \in Elements(model.modules) :
                  \E c \in Elements(x.calls) : f = <<"function", c>>
           \/ \E t \in Elements(model.targets) :
                 \/ f \in LinksLater(t)
                 \/ t.modules # {} /\ f = <<"minimum", "modules">>
           \/ k = 18 /\ \E x \in Elements(model.installs), t \in Installable(model) :
                  t.name = x.target /\ \E n \in Travels(model, t) : f = <<"exported", n>>
  <1>1. PICK b \in Section(k) : f \in b.later
    BY DEF Asks
  <1>2. CASE k \in {1, 2, 3}
    BY <1>1, <1>2, AllSections DEF Section, Preamble, OptionBlocks, RawIncludes, FileBlocks, Giving, Block
  <1>3. CASE k = 4
    BY <1>1, <1>3, AllSections DEF Section, ModuleBlocks, FileBlocks, Block
  <1>4. CASE k \in {5, 6}
    BY <1>1, <1>4, AllSections DEF Section, ModuleIncludes, Testing, Giving, Block
  <1>5. CASE k \in {7, 8}
    BY <1>1, <1>5, AllSections DEF Section, PythonPreamble, SanitizePreamble, Giving, Block
  <1>6. CASE k = 9
    BY <1>1, <1>6, AllSections DEF Section, PackageBlocks, Block
  <1>7. CASE k \in {10, 17}
    BY <1>1, <1>7, AllSections DEF Section, Subdirectories, CustomTargetBlocks, Giving, Block
  <1>8. CASE k = 11
    BY <1>1, <1>8, AllSections DEF Section, CommandBlocks, Giving, Block
  <1>9. CASE k \in {12, 13, 14, 16}
    <2>1. PICK kinds : Section(k) = TargetBlocks(model, kinds)
      BY <1>9, AllSections DEF Section
    <2>2. PICK t \in Elements(model.targets) : b = TargetBlock(model, t)
      BY <1>1, <2>1 DEF TargetBlocks, Of
    <2> QED
      BY <1>1, <2>2 DEF TargetBlock, Block
  <1>10. CASE k = 15
    BY <1>1, <1>10, AllSections, FrameworkBlocks DEF Section
  <1>11. CASE k = 18
    BY <1>1, <1>11, AllSections DEF Section, InstallBlocks, Block
  <1>12. k \in {1, 2, 3} \cup {4, 9, 11, 15, 18} \cup {5, 6, 7, 8, 10, 17} \cup {12, 13, 14, 16}
    OBVIOUS
  <1> QED
    BY <1>2, <1>3, <1>4, <1>5, <1>6, <1>7, <1>8, <1>9, <1>10, <1>11, <1>12

LEMMA EndsMeet ==
    ASSUME Accepting, ~OthersMeet, ReadSoFar, at = 18, NEW f \in waiting, f \notin known
    PROVE  ExportIsOpen
  <1>1. PICK k \in 1 .. 18 : Asks(Section(k), f)
    BY DEF ReadSoFar
  <1>2. \A j \in 1 .. 18 : ~Gives(Section(j), f)
    BY DEF ReadSoFar
  <1>3. CASE \E x \in Elements(model.modules) : \E c \in Elements(x.calls) : f = <<"function", c>>
    <2>1. PICK x \in Elements(model.modules) : \E c \in Elements(x.calls) : f = <<"function", c>>
      BY <1>3
    <2>2. PICK c \in Elements(x.calls) : f = <<"function", c>>
      BY <2>1
    <2>3. c \in content[x.reference].functions
      <3>1. TrueModule(x)
        BY DEF Accepting, ModelIsFit, Elements
      <3> QED
        BY <3>1 DEF TrueModule, Elements
    <2>4. Gives(ModuleBlocks(model), f)
      <3> DEFINE needs == IF x.kind = "file" THEN {<<"file", x.reference>>} ELSE {}
                 gives == {<<"function", f2>> : f2 \in content[x.reference].functions}
                 later == {<<"function", f2>> : f2 \in Elements(x.calls)}
      <3>1. Block(needs, gives, later) \in ModuleBlocks(model)
        BY Zenon DEF ModuleBlocks
      <3>2. Block(needs, gives, later).gives = gives
        BY DEF Block
      <3>3. f \in gives
        BY <2>2, <2>3
      <3> HIDE DEF needs, gives, later
      <3> QED
        BY <3>1, <3>2, <3>3 DEF Gives
    <2> QED
      BY <1>2, <2>4, AllSections DEF Section
  <1>4. CASE \E t \in Elements(model.targets) : f \in LinksLater(t)
    <2>1. PICK t \in Elements(model.targets) : \E l \in t.links :
              f = <<IF l.external THEN "imported" ELSE "target", l.to>>
      BY <1>4 DEF LinksLater
    <2>2. PICK l \in t.links : f = <<IF l.external THEN "imported" ELSE "target", l.to>>
      BY <2>1
    <2>3. l.to \in IF l.external THEN Provided(model) ELSE {u.name : u \in Ours(model)}
      BY FirstChecks DEF Accepting, Checked, CheckLinks
    <2>4. CASE l.external
      <3>1. PICK p \in model.packages : l.to \in p.gives
        BY <2>3, <2>4 DEF Provided
      <3>2. Gives(PackageBlocks(model, lacking), f)
        BY <2>2, <2>4, <3>1, GivenFacts, PackagesBring
      <3> QED
        BY <1>2, <3>2, AllSections DEF Section
    <2>5. CASE ~l.external
      <3>1. PICK u \in Of(model, LibraryKinds) : l.to = u.name
        BY <2>3, <2>5 DEF Ours, Of
      <3>2. Gives(TargetBlocks(model, LibraryKinds), f)
        BY <2>2, <2>5, <3>1, GivenFacts
      <3> QED
        BY <1>2, <3>2, AllSections DEF Section
    <2> QED
      BY <2>4, <2>5
  <1>5. CASE \E t \in Elements(model.targets) : t.modules # {} /\ f = <<"minimum", "modules">>
    <2>1. PICK t \in Elements(model.targets) : t.modules # {} /\ f = <<"minimum", "modules">>
      BY <1>5
    <2>2. Giving({f}) \in Preamble(model)
      BY <2>1 DEF Preamble
    <2>3. Gives(Preamble(model), f)
      BY <2>2 DEF Gives, Giving, Block
    <2> QED
      BY <1>2, <2>3, AllSections DEF Section
  <1>6. CASE \E x \in Elements(model.installs), t \in Installable(model) :
                t.name = x.target /\ \E n \in Travels(model, t) : f = <<"exported", n>>
    <2>1. PICK x \in Elements(model.installs), t \in Installable(model) :
              t.name = x.target /\ \E n \in Travels(model, t) : f = <<"exported", n>>
      BY <1>6
    <2>2. PICK n \in Travels(model, t) : f = <<"exported", n>>
      BY <2>1
    <2>3. t \in Ours(model)
      BY <2>2 DEF Travels, Installable, Ours, LibraryKinds
    <2>4. n \notin Exported
      <3>1. CASE \E y \in Elements(model.installs) : n = y.target
        <4>1. PICK y \in Elements(model.installs) : n = y.target
          BY <3>1
        <4>2. Gives(InstallBlocks(model), f)
          BY <2>2, <4>1, GivenFacts
        <4> QED
          BY <1>2, <4>2, AllSections DEF Section
      <3>2. CASE \E q \in model.packages : n \in ExportedBy(model, q, lacking)
        <4>1. PICK q \in model.packages : n \in ExportedBy(model, q, lacking)
          BY <3>2
        <4>2. Gives(PackageBlocks(model, lacking), f)
          BY <2>2, <4>1, GivenFacts
        <4> QED
          BY <1>2, <4>2, AllSections DEF Section
      <3> QED
        BY <3>1, <3>2 DEF Exported
    <2> QED
      BY <2>1, <2>2, <2>3, <2>4 DEF ExportIsOpen
  <1> QED
    BY <1>1, <1>3, <1>4, <1>5, <1>6, AskedFacts

-----------------------------------------------------------------------------
(* The reading, step by step.                                              *)

ReadingInv ==
    /\ phase = "reading" => ReadSoFar
    /\ RefusedForKnownReasons

LEMMA SectionsStay ==
    ASSUME UNCHANGED <<model, lacking, content>>
    PROVE  /\ \A k : Section(k)' = Section(k)
           /\ \A k, f : Gives(Section(k), f)' <=> Gives(Section(k), f)
           /\ \A k, f : Asks(Section(k), f)' <=> Asks(Section(k), f)
  <1>1. \A k : Section(k)' = Section(k)
    <2>1. /\ \A f : FileTargets(f)' = FileTargets(f)
          /\ AddedByFiles(model)' = AddedByFiles(model)
      BY DEF FileTargets, AddedByFiles
    <2>2. \A files : FileBlocks(model, files)' = FileBlocks(model, files)
      BY <2>1 DEF FileBlocks
    <2>3. RawIncludes(model)' = RawIncludes(model) /\ ModuleBlocks(model)' = ModuleBlocks(model)
      BY <2>2 DEF RawIncludes, ModuleBlocks
    <2>4. \A p : PackageGives(model, p, lacking)' = PackageGives(model, p, lacking)
      BY <2>1 DEF PackageGives, ImportedBy, ExportedBy, InnerOf, Source, IsThere
    <2>5. PackageBlocks(model, lacking)' = PackageBlocks(model, lacking)
      BY <2>4 DEF PackageBlocks
    <2> QED
      BY <2>3, <2>5 DEF Section, Sections
  <1> QED
    BY <1>1 DEF Gives, Asks

LEMMA ReasonsStay ==
    ASSUME Reasons, UNCHANGED <<model, lacking, content>>
    PROVE  Reasons'
  <1>1. \A f : FileTargets(f)' = FileTargets(f)
    BY DEF FileTargets
  <1>2. AddedByFiles(model)' = AddedByFiles(model) /\ Runnable' = Runnable
    BY <1>1 DEF AddedByFiles, Runnable
  <1>3. \A p : ExportedBy(model, p, lacking)' = ExportedBy(model, p, lacking)
    BY <1>2 DEF ExportedBy, Source, IsThere
  <1>4. Exported' = Exported
    BY <1>3 DEF Exported
  <1>5. NameIsTaken => NameIsTaken'
    BY <1>2 DEF NameIsTaken, Taken, TestName, Inner, Own, Stubs
  <1>6. OthersMeet => OthersMeet'
    BY <1>1, <1>2 DEF OthersMeet, TestName, Inner
  <1>7. IncludeFails => IncludeFails'
    BY <1>2 DEF IncludeFails
  <1>8. ExportIsOpen => ExportIsOpen'
    BY <1>4 DEF ExportIsOpen
  <1> QED
    BY <1>5, <1>6, <1>7, <1>8 DEF Reasons, TwoMakeOneFile

LEMMA WriteStarts ==
    ASSUME Write
    PROVE  ReadSoFar' /\ phase' = "reading"
  <1>1. /\ phase' = "reading" /\ at' = 0 /\ waiting' = {}
        /\ known' = {<<"file", f>> : f \in Files} \cup {<<"target", n>> : n \in Reserved} \cup Runnable
        /\ content' = content
    BY DEF Write, reflectionVars
  <1>4. Runnable' = Runnable
    BY <1>1 DEF Runnable
  <1>2. 1 .. at' = {}
    BY <1>1
  <1>3. \A f : AtFirst(f)' <=> f \in known'
    BY <1>1, <1>4 DEF AtFirst
  <1> QED
    BY <1>1, <1>2, <1>3 DEF ReadSoFar

LEMMA SectionIsRead ==
    ASSUME Accepting, ReadSoFar, ReadSection
    PROVE  \/ phase' = "reading" /\ ReadSoFar'
           \/ phase' = "refused" /\ Reasons
  <1> DEFINE section == Section(at + 1)
             gives == UNION {b.gives : b \in section}
             later == UNION {b.later : b \in section}
  <1>1. /\ phase = "reading" /\ at < 18 /\ at \in 0 .. 18
        /\ UNCHANGED <<model, lacking, content>>
    BY AllSections DEF ReadSection, ReadSoFar, reflectionVars
  <1>2. \/ /\ phase' = "refused"
           /\ \/ Twice(section) \/ MayMeet(section)
              \/ ~(UNION {b.needs : b \in section} \subseteq known)
        \/ /\ phase' = "reading" /\ at' = at + 1
           /\ known' = known \cup gives /\ waiting' = waiting \cup later
    BY DEF ReadSection, Section
  <1>3. Twice(section) => Reasons
    BY <1>1, TwiceHasReasons DEF Accepting
  <1>6. MayMeet(section) => Reasons
    BY <1>1, MayMeetHasReasons
  <1>4. OthersMeet \/ IncludeFails \/ UNION {b.needs : b \in section} \subseteq known
    BY <1>1, NeedsMet
  <1>5. CASE /\ phase' = "reading" /\ at' = at + 1
             /\ known' = known \cup gives /\ waiting' = waiting \cup later
    <2>1. \A f : f \in gives <=> Gives(Section(at + 1), f)
      BY DEF Gives
    <2>2. \A f : f \in later <=> Asks(Section(at + 1), f)
      BY DEF Asks
    <2> HIDE DEF gives, later
    <2>3. at' \in 0 .. 18
      BY <1>1, <1>5
    <2>4. \A f : AtFirst(f) => f \in known'
      BY <1>5 DEF ReadSoFar
    <2>5. ASSUME NEW k \in 1 .. at + 1, NEW f, Gives(Section(k), f)
          PROVE  f \in known'
      <3>1. CASE k = at + 1
        BY <1>5, <2>1, <2>5, <3>1
      <3>2. CASE k # at + 1
        <4>1. k \in 1 .. at
          BY <1>1, <3>2
        <4> QED
          BY <1>5, <2>5, <4>1 DEF ReadSoFar
      <3> QED
        BY <3>1, <3>2
    <2>6. at + 1 \in 1 .. at + 1 /\ 1 .. at \subseteq 1 .. at + 1
      BY <1>1
    <2>7. \A f \in known' : AtFirst(f) \/ \E k \in 1 .. at + 1 : Gives(Section(k), f)
      BY <1>5, <2>1, <2>6 DEF ReadSoFar
    <2>8. \A f \in waiting' : \E k \in 1 .. at + 1 : Asks(Section(k), f)
      BY <1>5, <2>2, <2>6 DEF ReadSoFar
    <2>10. \A f : AtFirst(f)' <=> AtFirst(f)
      BY <1>1 DEF AtFirst, Runnable
    <2>9. ReadSoFar'
      BY <1>1, <1>5, <2>3, <2>4, <2>5, <2>7, <2>8, <2>10, SectionsStay DEF ReadSoFar
    <2> QED
      BY <1>5, <2>9
  <1> QED
    BY <1>2, <1>3, <1>4, <1>5, <1>6 DEF Reasons

LEMMA ReadingKept ==
    ASSUME ProjectInv, ProjectInv', AllChecked, ModelIsFit, ReadingInv, [ProjectNext]_projectVars
    PROVE  ReadingInv'
  <1>1. ASSUME phase' \notin {"reading", "refused"} PROVE ReadingInv'
    BY <1>1 DEF ReadingInv, RefusedForKnownReasons
  <1>2. CASE RunAgain \/ Describe \/ Reflect \/ Die \/ Build
    BY <1>1, <1>2 DEF RunAgain, Describe, Reflect, Die, Build, buildVars
  <1>3. CASE Check \/ CheckOn
    <2>1. phase' = "rejected"
      BY <1>3, Zenon DEF Check, CheckOn, RejectAt
    <2> QED
      BY <1>1, <2>1
  <1>4. CASE BeginSearch
    BY <1>1, <1>4 DEF BeginSearch
  <1>5. CASE Search
    <2>1. phase' = "searching" \/ phase' = "rejected" \/ phase' = "checking on"
      BY <1>5, SearchSteps, Zenon
    <2>2. phase' # "reading" /\ phase' # "refused"
      BY <2>1, Zenon
    <2> QED
      BY <1>1, <2>2
  <1>6. CASE AcceptProject
    <2>1. phase' = "scanning"
      BY <1>6, Zenon DEF AcceptProject
    <2> QED
      BY <1>1, <2>1
  <1>7. CASE StartScan \/ Scan \/ EndScan
    BY <1>1, <1>7, ScanFrame
  <1>8. CASE Write
    BY <1>8, WriteStarts DEF ReadingInv, RefusedForKnownReasons
  <1>9. ASSUME phase = "reading" PROVE Accepting
    <2>1. Accepted
      BY <1>9 DEF Accepted
    <2>2. Checked /\ SoundProject(model)
      BY <2>1, Zenon DEF ProjectInv, Progress
    <2>3. CheckedOn
      BY <2>1 DEF AllChecked
    <2> QED
      BY <2>2, <2>3 DEF Accepting
  <1>10. CASE ReadSection
    <2>1. phase = "reading" /\ UNCHANGED <<model, lacking, content>>
      BY <1>10 DEF ReadSection, reflectionVars
    <2>2. \/ phase' = "reading" /\ ReadSoFar'
          \/ phase' = "refused" /\ Reasons
      BY <1>9, <1>10, <2>1, SectionIsRead DEF ReadingInv
    <2> QED
      BY <2>1, <2>2, ReasonsStay DEF ReadingInv, RefusedForKnownReasons, Reasons
  <1>11. CASE Generate
    <2>1. /\ phase = "reading" /\ at = 18 /\ UNCHANGED <<model, lacking, content>>
          /\ phase' = IF waiting \subseteq known THEN "building" ELSE "refused"
      BY <1>11, AllSections DEF Generate, cmakeVars, reflectionVars
    <2>2. CASE waiting \subseteq known
      BY <1>1, <2>1, <2>2
    <2>3. CASE ~(waiting \subseteq known)
      <3>1. OthersMeet \/ ExportIsOpen
        BY <1>9, <2>1, <2>3, EndsMeet DEF ReadingInv
      <3>2. Reasons'
        BY <2>1, <3>1, ReasonsStay DEF Reasons
      <3> QED
        BY <2>1, <2>3, <3>2 DEF ReadingInv, RefusedForKnownReasons, Reasons
    <2> QED
      BY <2>2, <2>3
  <1>12. CASE Work \/ EndBuild
    BY <1>1, <1>12 DEF Work, EndBuild
  <1>13. CASE UNCHANGED projectVars
    <2>1. UNCHANGED <<phase, model, lacking, at, known, waiting, content>>
      BY <1>13 DEF projectVars, buildVars, cmakeVars, reflectionVars
    <2>3. \A f : AtFirst(f)' <=> AtFirst(f)
      BY <2>1 DEF AtFirst, Runnable
    <2>2. ReadSoFar => ReadSoFar'
      BY <2>1, <2>3, SectionsStay DEF ReadSoFar
    <2> QED
      BY <2>1, <2>2, ReasonsStay DEF ReadingInv, RefusedForKnownReasons, Reasons
  <1> QED
    BY <1>2, <1>3, <1>4, <1>5, <1>6, <1>7, <1>8, <1>10, <1>11, <1>12, <1>13 DEF ProjectNext

\* For every script and whatever packages the machine lacks, CMake accepts what
\* validate_project has accepted, unless a name is taken, also by an imported target
\* or an included file, such a file fails, two commands make one file or an installed
\* library links one that is not exported (emit_cmakelists).
THEOREM RefusalsAreKnown == ProjectSpec => []RefusedForKnownReasons
  <1>1. ProjectInit => ReadingInv
    BY DEF ProjectInit, ReadingInv, RefusedForKnownReasons
  <1>2. ProjectSpec => []ReadingInv
    BY <1>1, ReadingKept, AlwaysProjectInv, AlwaysAllChecked, AlwaysFit, PTL DEF ProjectSpec
  <1>3. ReadingInv => RefusedForKnownReasons
    BY DEF ReadingInv
  <1> QED
    BY <1>2, <1>3, PTL
=============================================================================
