-------------------------- MODULE DescriptionProofs --------------------------
(***************************************************************************)
(* What every builder call keeps: the project object stays well typed, the  *)
(* libraries in it are libraries of the project, and what its targets link  *)
(* from outside are imported targets of packages. The search for link       *)
(* cycles relies on both. The last part is about the CMake files that a     *)
(* script includes (Reflection).                                           *)
(***************************************************************************)
EXTENDS ProjectBuild, SequenceTheorems, TLAPS

\* A target that the search for cycles knows.
Sound(t) ==
    /\ t \in TargetModel
    /\ t.kind \in LibraryKinds => t.name \in Libraries
    /\ t.kind \in LibraryKinds => \A l \in t.links : l.external => l.to \in Imported

SoundProject(p) ==
    /\ p \in ProjectModel
    /\ \A h \in DOMAIN p.targets : Sound(p.targets[h])

DescriptionInv ==
    /\ DescriptionTypeOK
    /\ SoundProject(project)

-----------------------------------------------------------------------------
(* The calls of a script, and what one may change of a target.              *)

LEMMA CallsAreKnown ==
    ASSUME DescriptionTypeOK, NEW c \in Calls
    PROVE  /\ WellTyped(c)
           /\ c.op = "add_target" /\ c.node.kind \in LibraryKinds => c.node.name \in Libraries
           /\ c.op = "depends" => c.package.gives \subseteq Imported
           /\ said + 1 \in 0 .. Len(topic.opening) + topic.most
  <1>1. /\ topic \in Topics /\ topic.most \in Nat /\ topic.opening \in Seq(Script(topic))
        /\ said \in 0 .. Len(topic.opening) + topic.most
    BY DescriptionAssumption DEF DescriptionTypeOK
  <1>2. CASE ~OpeningIsOver
    <2>1. Calls = {topic.opening[said + 1]} /\ said + 1 \in 1 .. Len(topic.opening)
      BY <1>1, <1>2 DEF Calls, OpeningIsOver
    <2>2. c \in Script(topic)
      BY <1>1, <2>1 DEF Script
    <2> QED
      BY <1>1, <2>1, <2>2, DescriptionAssumption, ProjectBuildAssumption
  <1>3. CASE OpeningIsOver
    <2>1. c \in topic.menu /\ said < Len(topic.opening) + topic.most
      BY <1>1, <1>3 DEF Calls, OpeningIsOver
    <2>2. c \in Script(topic)
      BY <2>1 DEF Script
    <2> QED
      BY <1>1, <2>1, <2>2, DescriptionAssumption, ProjectBuildAssumption
  <1> QED
    BY <1>2, <1>3

\* A step that leaves topic and project as they are, and one that only changes
\* the project.
LEMMA RaisesInv ==
    ASSUME DescriptionInv, NEW c \in Calls, Raises
    PROVE  DescriptionInv'
  BY CallsAreKnown DEF Raises, DescriptionInv, DescriptionTypeOK, SoundProject, Sound

LEMMA DoesInv ==
    ASSUME DescriptionInv, NEW c \in Calls, NEW new, SoundProject(new), Does(new)
    PROVE  DescriptionInv'
  BY CallsAreKnown DEF Does, DescriptionInv, DescriptionTypeOK, SoundProject, Sound

LEMMA NewTargetIsSound ==
    ASSUME NEW p, SoundProject(p), NEW t, Sound(t)
    PROVE  SoundProject([p EXCEPT !.targets = Append(@, t)])
  <1>1. p.targets \in Seq(TargetModel) /\ Append(p.targets, t) \in Seq(TargetModel)
    BY DEF SoundProject, ProjectModel, Sound
  <1>2. [p EXCEPT !.targets = Append(@, t)] \in ProjectModel
    BY <1>1 DEF SoundProject, ProjectModel
  <1>3. [p EXCEPT !.targets = Append(@, t)].targets = Append(p.targets, t)
    BY DEF SoundProject, ProjectModel
  <1>4. \A h \in DOMAIN Append(p.targets, t) : Sound(Append(p.targets, t)[h])
    BY <1>1 DEF SoundProject
  <1> QED
    BY <1>2, <1>3, <1>4 DEF SoundProject

LEMMA ChangedTargetIsSound ==
    ASSUME NEW p, SoundProject(p), NEW h \in DOMAIN p.targets, NEW t, Sound(t)
    PROVE  SoundProject([p EXCEPT !.targets[h] = t])
  <1>1. p.targets \in Seq(TargetModel) /\ [p.targets EXCEPT ![h] = t] \in Seq(TargetModel)
    BY DEF SoundProject, ProjectModel, Sound
  <1>2. [p EXCEPT !.targets[h] = t] \in ProjectModel
    BY <1>1 DEF SoundProject, ProjectModel
  <1>3. [p EXCEPT !.targets[h] = t].targets = [p.targets EXCEPT ![h] = t]
    BY DEF SoundProject, ProjectModel
  <1>4. \A i \in DOMAIN [p.targets EXCEPT ![h] = t] : Sound([p.targets EXCEPT ![h] = t][i])
    BY <1>1 DEF SoundProject
  <1> QED
    BY <1>2, <1>3, <1>4 DEF SoundProject

\* Everything of a project but its targets.
LEMMA OtherPartsAreSound ==
    ASSUME NEW p, SoundProject(p), NEW q \in ProjectModel, q.targets = p.targets
    PROVE  SoundProject(q)
  BY DEF SoundProject

LEMMA RequiringIsSound ==
    ASSUME SoundProject(project), NEW k \in PackageModel
    PROVE  SoundProject(Requiring(k))
  <1>1. Requiring(k) \in ProjectModel /\ Requiring(k).targets = project.targets
    BY DEF Requiring, SoundProject, ProjectModel
  <1> QED
    BY <1>1, OtherPartsAreSound

LEMMA LinksAreSound ==
    ASSUME NEW t, Sound(t), NEW S \in SUBSET LinkModel,
           t.kind \in LibraryKinds => \A l \in S : l.external => l.to \in Imported
    PROVE  Sound([t EXCEPT !.links = @ \cup S])
  <1>1. [t EXCEPT !.links = @ \cup S] \in TargetModel
    BY DEF Sound, TargetModel
  <1>2. /\ [t EXCEPT !.links = @ \cup S].kind = t.kind
        /\ [t EXCEPT !.links = @ \cup S].name = t.name
        /\ [t EXCEPT !.links = @ \cup S].links = t.links \cup S
    BY DEF Sound, TargetModel
  <1> QED
    BY <1>1, <1>2 DEF Sound

\* The links that the imported targets of a package give.
LEMMA PackageLinks ==
    ASSUME NEW k \in PackageModel, NEW b \in BOOLEAN
    PROVE  LET new == {[to |-> t, public |-> b, external |-> TRUE] : t \in k.gives}
           IN  new \in SUBSET LinkModel /\ \A l \in new : l.to \in k.gives
  <1> DEFINE Linking(t) == [to |-> t, public |-> b, external |-> TRUE]
             new == {Linking(t) : t \in k.gives}
  <1>1. k.gives \in SUBSET STRING
    BY DEF PackageModel
  <1>2. ASSUME NEW t \in k.gives
        PROVE  Linking(t) \in LinkModel /\ Linking(t).to = t
    <2>1. t \in STRING
      BY <1>1
    <2> QED
      BY <2>1 DEF LinkModel
  <1> HIDE DEF Linking
  <1>3. new \in SUBSET LinkModel /\ \A l \in new : l.to \in k.gives
    BY <1>2
  <1> QED
    BY <1>3 DEF Linking

-----------------------------------------------------------------------------
(* The calls that change targets.                                          *)

LEMMA AddTargetInv ==
    ASSUME DescriptionInv, NEW c \in Calls, AddTarget(c)
    PROVE  DescriptionInv'
  <1>1. CASE ~KnownKind(c.node.kind)
    BY <1>1, RaisesInv DEF AddTarget
  <1>2. CASE KnownKind(c.node.kind)
    <2>1. c.op = "add_target" /\ WellTyped(c)
      BY CallsAreKnown DEF AddTarget, Called, DescriptionInv
    <2>2. c.node \in TargetModel /\ c.node.links = {}
      BY <1>2, <2>1 DEF WellTyped, NewTarget, KnownKind
    <2>3. Sound(c.node)
      BY <2>1, <2>2, CallsAreKnown DEF Sound, DescriptionInv
    <2> QED
      BY <1>2, <2>3, NewTargetIsSound, DoesInv DEF AddTarget, DescriptionInv
  <1> QED
    BY <1>1, <1>2

\* A test or a Python module is no library, whatever it links.
LEMMA OtherTargetIsSound ==
    ASSUME NEW t \in TargetModel, t.kind \in {"test", "python"}
    PROVE  Sound(t)
  BY DEF Sound, LibraryKinds

LEMMA AddTestInv ==
    ASSUME DescriptionInv, NEW c \in Calls, AddTest(c)
    PROVE  DescriptionInv'
  <1> DEFINE framework == c.node.backend
             package == FrameworkPackage[framework]
  <1>1. NewTarget(c.node) /\ c.node.kind = "test"
    BY CallsAreKnown DEF AddTest, Called, DescriptionInv, WellTyped
  <1>2. CASE Raises
    BY <1>2, RaisesInv
  <1>3. CASE Does([project EXCEPT !.targets = Append(@, c.node)])
    <2>1. Sound(c.node)
      BY <1>1, OtherTargetIsSound DEF NewTarget
    <2> QED
      BY <1>3, <2>1, NewTargetIsSound, DoesInv DEF DescriptionInv
  <1>4. CASE /\ framework \in DOMAIN FrameworkPackage
             /\ Does([Requiring(package) EXCEPT !.targets = Append(@, Linked(c.node, package))])
    <2>1. package \in PackageModel
      BY <1>4, DescriptionAssumption
    <2>2. {[to |-> t, public |-> FALSE, external |-> TRUE] : t \in package.gives} \subseteq LinkModel
      BY <2>1, PackageLinks
    <2>3. Linked(c.node, package) \in TargetModel /\ Linked(c.node, package).kind = "test"
      BY <1>1, <2>2 DEF Linked, NewTarget, TargetModel
    <2>4. SoundProject(Requiring(package))
      BY <2>1, RequiringIsSound DEF DescriptionInv
    <2>5. Sound(Linked(c.node, package))
      BY <2>3, OtherTargetIsSound
    <2> QED
      BY <1>4, <2>4, <2>5, NewTargetIsSound, DoesInv
  <1> QED
    BY <1>2, <1>3, <1>4 DEF AddTest

LEMMA AddPythonModuleInv ==
    ASSUME DescriptionInv, NEW c \in Calls, AddPythonModule(c)
    PROVE  DescriptionInv'
  <1> DEFINE package == BindingPackage[c.node.backend]
  <1>1. NewTarget(c.node) /\ c.node.kind = "python"
    BY CallsAreKnown DEF AddPythonModule, Called, DescriptionInv, WellTyped
  <1>2. CASE Raises
    BY <1>2, RaisesInv
  <1>3. CASE /\ c.node.backend \in DOMAIN BindingPackage
             /\ Does([Requiring(package) EXCEPT !.targets = Append(@, c.node)])
    <2>1. package \in PackageModel
      BY <1>3, DescriptionAssumption
    <2>2. SoundProject(Requiring(package))
      BY <2>1, RequiringIsSound DEF DescriptionInv
    <2>3. Sound(c.node)
      BY <1>1, OtherTargetIsSound DEF NewTarget
    <2> QED
      BY <1>3, <2>2, <2>3, NewTargetIsSound, DoesInv
  <1> QED
    BY <1>2, <1>3 DEF AddPythonModule

\* A call that replaces one target by a sound one.
LEMMA ChangeInv ==
    ASSUME DescriptionInv, NEW c \in Calls, NEW h \in DOMAIN project.targets, NEW t, Sound(t),
           Does([project EXCEPT !.targets[h] = t])
    PROVE  DescriptionInv'
  BY ChangedTargetIsSound, DoesInv DEF DescriptionInv

LEMMA LinkInv ==
    ASSUME DescriptionInv, NEW c \in Calls, Link(c)
    PROVE  DescriptionInv'
  <1>1. c.to \in STRING /\ c.public \in BOOLEAN
    BY CallsAreKnown DEF Link, Called, DescriptionInv, WellTyped
  <1>2. PICK h \in Handles(c.target) :
            \/ Raises
            \/ Does([project EXCEPT !.targets[h].links = @ \cup
                  {[to |-> c.to, external |-> FALSE,
                    public |-> c.public /\ project.targets[h].kind \in LibraryKinds]}])
    BY DEF Link
  <1>3. h \in DOMAIN project.targets /\ Sound(project.targets[h])
    BY DEF Handles, DescriptionInv, SoundProject
  <1> DEFINE new == {[to |-> c.to, external |-> FALSE,
                      public |-> c.public /\ project.targets[h].kind \in LibraryKinds]}
  <1>4. new \in SUBSET LinkModel /\ \A l \in new : ~l.external
    BY <1>1 DEF LinkModel
  <1>5. Sound([project.targets[h] EXCEPT !.links = @ \cup new])
    BY <1>3, <1>4, LinksAreSound
  <1>6. CASE Raises
    BY <1>6, RaisesInv
  <1>7. CASE Does([project EXCEPT !.targets[h].links = @ \cup new])
    <2>1. Does([project EXCEPT !.targets[h] = [project.targets[h] EXCEPT !.links = @ \cup new]])
      BY <1>7
    <2> QED
      BY <1>3, <1>5, <2>1, ChangeInv
  <1> QED
    BY <1>2, <1>6, <1>7

LEMMA DependsInv ==
    ASSUME DescriptionInv, NEW c \in Calls, Depends(c)
    PROVE  DescriptionInv'
  <1>1. c.package \in PackageModel /\ c.public \in BOOLEAN /\ c.package.gives \subseteq Imported
    BY CallsAreKnown DEF Depends, Called, DescriptionInv, WellTyped
  <1> DEFINE new == {[to |-> t, public |-> c.public, external |-> TRUE] : t \in c.package.gives}
  <1>2. PICK h \in Handles(c.target) :
            \/ Raises
            \/ Does([Requiring(c.package) EXCEPT !.targets[h].links = @ \cup new])
    BY DEF Depends
  <1>3. h \in DOMAIN project.targets /\ Sound(project.targets[h])
    BY DEF Handles, DescriptionInv, SoundProject
  <1>4. new \in SUBSET LinkModel /\ \A l \in new : l.to \in Imported
    BY <1>1, PackageLinks
  <1> HIDE DEF new
  <1>5. Sound([project.targets[h] EXCEPT !.links = @ \cup new])
    BY <1>3, <1>4, LinksAreSound
  <1>6. CASE Raises
    BY <1>6, RaisesInv
  <1>7. CASE Does([Requiring(c.package) EXCEPT !.targets[h].links = @ \cup new])
    <2>1. Requiring(c.package).targets = project.targets
      BY DEF Requiring, DescriptionInv, SoundProject, ProjectModel
    <2>2. [Requiring(c.package) EXCEPT !.targets[h].links = @ \cup new]
          = [Requiring(c.package) EXCEPT !.targets[h] =
                [project.targets[h] EXCEPT !.links = @ \cup new]]
      BY <2>1
    <2>3. SoundProject(Requiring(c.package))
      BY <1>1, RequiringIsSound DEF DescriptionInv
    <2>4. SoundProject([Requiring(c.package) EXCEPT !.targets[h].links = @ \cup new])
      BY <1>3, <1>5, <2>1, <2>2, <2>3, ChangedTargetIsSound
    <2> QED
      BY <1>7, <2>4, DoesInv
  <1> QED
    BY <1>2, <1>6, <1>7

\* The calls that change what a target compiles and how: it stays the library
\* that it is and links what it links.
LEMMA SettingsAreSound ==
    ASSUME NEW t, Sound(t), NEW u \in TargetModel,
           u.name = t.name, u.kind = t.kind, u.links = t.links
    PROVE  Sound(u)
  BY DEF Sound

LEMMA AddGeneratedInv ==
    ASSUME DescriptionInv, NEW c \in Calls, AddGenerated(c)
    PROVE  DescriptionInv'
  <1>1. PICK h \in Handles(c.target), k \in DOMAIN project.commands :
            Does([project EXCEPT !.targets[h].sources = @ \cup project.commands[k].outputs,
                                 !.targets[h].generated = @ \cup project.commands[k].outputs])
    BY DEF AddGenerated
  <1> DEFINE outputs == project.commands[k].outputs
             t == project.targets[h]
             u == [t EXCEPT !.sources = @ \cup outputs, !.generated = @ \cup outputs]
  <1>2. h \in DOMAIN project.targets /\ Sound(t)
    BY DEF Handles, DescriptionInv, SoundProject
  <1>3. outputs \in SUBSET Paths
    <2>1. project.commands \in Seq(CommandModel)
      BY DEF DescriptionInv, SoundProject, ProjectModel
    <2>2. project.commands[k] \in CommandModel
      BY <2>1
    <2> QED
      BY <2>2 DEF CommandModel
  <1>4. u \in TargetModel /\ u.name = t.name /\ u.kind = t.kind /\ u.links = t.links
    BY <1>2, <1>3 DEF Sound, TargetModel
  <1>5. [project EXCEPT !.targets[h].sources = @ \cup outputs,
                        !.targets[h].generated = @ \cup outputs]
        = [project EXCEPT !.targets[h] = u]
    BY <1>2 DEF DescriptionInv, SoundProject, ProjectModel
  <1> HIDE DEF u
  <1> QED
    BY <1>1, <1>2, <1>4, <1>5, SettingsAreSound, ChangeInv

LEMMA AddPathsInv ==
    ASSUME DescriptionInv, NEW c \in Calls, AddPaths(c)
    PROVE  DescriptionInv'
  <1>1. PICK h \in Handles(c.target) :
            Does([project EXCEPT !.targets[h].sources = @ \cup c.sources,
                                 !.targets[h].modules = @ \cup c.modules,
                                 !.targets[h].dirs = @ \cup c.dirs])
    BY DEF AddPaths
  <1> DEFINE t == project.targets[h]
             u == [t EXCEPT !.sources = @ \cup c.sources, !.modules = @ \cup c.modules,
                            !.dirs = @ \cup c.dirs]
  <1>2. h \in DOMAIN project.targets /\ Sound(t)
    BY DEF Handles, DescriptionInv, SoundProject
  <1>3. c.sources \subseteq Paths /\ c.modules \subseteq Paths /\ c.dirs \subseteq Paths
    BY CallsAreKnown DEF AddPaths, Called, DescriptionInv, WellTyped
  <1>4. u \in TargetModel /\ u.name = t.name /\ u.kind = t.kind /\ u.links = t.links
    BY <1>2, <1>3 DEF Sound, TargetModel
  <1>5. [project EXCEPT !.targets[h].sources = @ \cup c.sources,
                        !.targets[h].modules = @ \cup c.modules,
                        !.targets[h].dirs = @ \cup c.dirs]
        = [project EXCEPT !.targets[h] = u]
    BY <1>2 DEF DescriptionInv, SoundProject, ProjectModel
  <1> HIDE DEF u
  <1> QED
    BY <1>1, <1>2, <1>4, <1>5, SettingsAreSound, ChangeInv

LEMMA AssignInv ==
    ASSUME DescriptionInv, NEW c \in Calls, Assign(c)
    PROVE  DescriptionInv'
  <1>1. PICK h \in Handles(c.target) : Does([project EXCEPT !.targets[h].settings = c.settings])
    BY DEF Assign
  <1> DEFINE t == project.targets[h]
             u == [t EXCEPT !.settings = c.settings]
  <1>2. h \in DOMAIN project.targets /\ Sound(t)
    BY DEF Handles, DescriptionInv, SoundProject
  <1>3. c.settings \in Settings
    BY CallsAreKnown DEF Assign, Called, DescriptionInv, WellTyped
  <1>4. u \in TargetModel /\ u.name = t.name /\ u.kind = t.kind /\ u.links = t.links
    BY <1>2, <1>3 DEF Sound, TargetModel
  <1>5. [project EXCEPT !.targets[h].settings = c.settings] = [project EXCEPT !.targets[h] = u]
    OBVIOUS
  <1> HIDE DEF u
  <1> QED
    BY <1>1, <1>2, <1>4, <1>5, SettingsAreSound, ChangeInv

LEMMA WhenInv ==
    ASSUME DescriptionInv, NEW c \in Calls, When(c)
    PROVE  DescriptionInv'
  <1>1. PICK h \in Handles(c.target) :
            Raises \/ Does([project EXCEPT !.targets[h].whens = @ \cup c.options])
    BY DEF When
  <1> DEFINE t == project.targets[h]
             u == [t EXCEPT !.whens = @ \cup c.options]
  <1>2. h \in DOMAIN project.targets /\ Sound(t)
    BY DEF Handles, DescriptionInv, SoundProject
  <1>3. c.options \subseteq Names
    BY CallsAreKnown DEF When, Called, DescriptionInv, WellTyped
  <1>4. u \in TargetModel /\ u.name = t.name /\ u.kind = t.kind /\ u.links = t.links
    BY <1>2, <1>3 DEF Sound, TargetModel
  <1>5. [project EXCEPT !.targets[h].whens = @ \cup c.options] = [project EXCEPT !.targets[h] = u]
    OBVIOUS
  <1> HIDE DEF u
  <1> QED
    BY <1>1, <1>2, <1>4, <1>5, SettingsAreSound, ChangeInv, RaisesInv

-----------------------------------------------------------------------------
(* The calls that leave targets alone.                                     *)

LEMMA OtherCallInv ==
    ASSUME DescriptionInv, NEW c \in Calls, NEW q \in ProjectModel, q.targets = project.targets,
           Does(q)
    PROVE  DescriptionInv'
  BY OtherPartsAreSound, DoesInv DEF DescriptionInv

\* One more element of one of the lists.
LEMMA AppendInv ==
    ASSUME DescriptionInv, NEW c \in Calls,
           \/ AddCommand(c) \/ AddCustomTarget(c) \/ AddOption(c) \/ AddPreset(c)
           \/ AddToolchain(c) \/ Install(c)
    PROVE  DescriptionInv'
  <1> USE OtherCallInv, RaisesInv
  <1>0. project \in ProjectModel /\ WellTyped(c)
    BY CallsAreKnown DEF DescriptionInv, SoundProject
  <1>1. CASE AddCommand(c)
    <2>1. c.node \in CommandModel /\ project.commands \in Seq(CommandModel)
      BY <1>0, <1>1 DEF AddCommand, Called, WellTyped, ProjectModel
    <2>2. Append(project.commands, c.node) \in Seq(CommandModel)
      BY <2>1
    <2>3. [project EXCEPT !.commands = Append(@, c.node)] \in ProjectModel
      BY <1>0, <2>2 DEF ProjectModel
    <2> QED
      BY <1>0, <1>1, <2>3 DEF AddCommand, ProjectModel
  <1>2. CASE AddCustomTarget(c)
    <2>1. c.node \in CustomTargetModel /\ project.customs \in Seq(CustomTargetModel)
      BY <1>0, <1>2 DEF AddCustomTarget, Called, WellTyped, ProjectModel
    <2>2. Append(project.customs, c.node) \in Seq(CustomTargetModel)
      BY <2>1
    <2>3. [project EXCEPT !.customs = Append(@, c.node)] \in ProjectModel
      BY <1>0, <2>2 DEF ProjectModel
    <2> QED
      BY <1>0, <1>2, <2>3 DEF AddCustomTarget, ProjectModel
  <1>3. CASE AddOption(c)
    <2>1. CASE c.node.type \in OptionTypes
      <3>1. c.node \in OptionModel /\ project.options \in Seq(OptionModel)
        BY <1>0, <1>3, <2>1 DEF AddOption, Called, WellTyped, ProjectModel
      <3>2. Append(project.options, c.node) \in Seq(OptionModel)
        BY <3>1
      <3>3. [project EXCEPT !.options = Append(@, c.node)] \in ProjectModel
        BY <1>0, <3>2 DEF ProjectModel
      <3> QED
        BY <1>0, <1>3, <2>1, <3>3 DEF AddOption, ProjectModel
    <2> QED
      BY <1>3, <2>1 DEF AddOption
  <1>4. CASE AddPreset(c)
    <2>1. c.node \in PresetModel /\ project.presets \in Seq(PresetModel)
      BY <1>0, <1>4 DEF AddPreset, Called, WellTyped, ProjectModel
    <2>2. Append(project.presets, c.node) \in Seq(PresetModel)
      BY <2>1
    <2>3. [project EXCEPT !.presets = Append(@, c.node)] \in ProjectModel
      BY <1>0, <2>2 DEF ProjectModel
    <2> QED
      BY <1>0, <1>4, <2>3 DEF AddPreset, ProjectModel
  <1>5. CASE AddToolchain(c)
    <2>1. c.node \in ToolchainModel /\ project.toolchains \in Seq(ToolchainModel)
      BY <1>0, <1>5 DEF AddToolchain, Called, WellTyped, ProjectModel
    <2>2. Append(project.toolchains, c.node) \in Seq(ToolchainModel)
      BY <2>1
    <2>3. [project EXCEPT !.toolchains = Append(@, c.node)] \in ProjectModel
      BY <1>0, <2>2 DEF ProjectModel
    <2> QED
      BY <1>0, <1>5, <2>3 DEF AddToolchain, ProjectModel
  <1>6. CASE Install(c)
    <2>1. c.node \in InstallModel /\ project.installs \in Seq(InstallModel)
      BY <1>0, <1>6 DEF Install, Called, WellTyped, ProjectModel
    <2>2. Append(project.installs, c.node) \in Seq(InstallModel)
      BY <2>1
    <2>3. [project EXCEPT !.installs = Append(@, c.node)] \in ProjectModel
      BY <1>0, <2>2 DEF ProjectModel
    <2> QED
      BY <1>0, <1>6, <2>3 DEF Install, ProjectModel
  <1> QED
    BY <1>1, <1>2, <1>3, <1>4, <1>5, <1>6

\* The settings of the project, and the modules that it includes.
LEMMA ProjectCallInv ==
    ASSUME DescriptionInv, NEW c \in Calls,
           \/ Package(c) \/ RawCMakeFile(c) \/ Include(c) \/ CallModule(c)
           \/ AddSubproject(c) \/ SetProject(c)
    PROVE  DescriptionInv'
  <1> USE OtherCallInv, RaisesInv
  <1>0. project \in ProjectModel /\ WellTyped(c)
    BY CallsAreKnown DEF DescriptionInv, SoundProject
  <1>1. CASE Package(c)
    <2>1. [project EXCEPT !.formats = c.formats] \in ProjectModel
      BY <1>0, <1>1 DEF Package, Called, WellTyped, ProjectModel
    <2> QED
      BY <1>0, <1>1, <2>1 DEF Package, ProjectModel
  <1>2. CASE RawCMakeFile(c)
    <2>1. c.path \in Paths /\ project.raws \in Seq(Paths)
      BY <1>0, <1>2 DEF RawCMakeFile, Called, WellTyped, ProjectModel
    <2>2. Append(project.raws, c.path) \in Seq(Paths)
      BY <2>1
    <2>3. [project EXCEPT !.raws = Append(@, c.path)] \in ProjectModel
      BY <1>0, <2>2 DEF ProjectModel
    <2> QED
      BY <1>0, <1>2, <2>3 DEF RawCMakeFile, ProjectModel
  <1>3. CASE Include(c)
    <2>1. c.node \in ModuleModel /\ project.modules \in Seq(ModuleModel)
      BY <1>0, <1>3 DEF Include, Called, WellTyped, ProjectModel
    <2>2. Append(project.modules, c.node) \in Seq(ModuleModel)
      BY <2>1
    <2>3. [project EXCEPT !.modules = Append(@, c.node)] \in ProjectModel
      BY <1>0, <2>2 DEF ProjectModel
    <2> QED
      BY <1>0, <1>3, <2>3 DEF Include, ProjectModel
  <1>4. CASE CallModule(c)
    <2>1. PICK k \in DOMAIN project.modules :
              Raises \/ Does([project EXCEPT !.modules[k].calls = Append(@, c.function)])
      BY <1>4 DEF CallModule
    <2>2. project.modules \in Seq(ModuleModel) /\ c.function \in STRING
      BY <1>0, <1>4 DEF CallModule, Called, WellTyped, ProjectModel
    <2>3. [project.modules[k] EXCEPT !.calls = Append(@, c.function)] \in ModuleModel
      <3>1. project.modules[k] \in ModuleModel
        BY <2>2
      <3>2. Append(project.modules[k].calls, c.function) \in Seq(STRING)
        BY <2>2, <3>1 DEF ModuleModel
      <3> QED
        BY <3>1, <3>2 DEF ModuleModel
    <2>4. [project.modules EXCEPT ![k].calls = Append(@, c.function)] \in Seq(ModuleModel)
      BY <2>2, <2>3
    <2>5. [project EXCEPT !.modules[k].calls = Append(@, c.function)] \in ProjectModel
      BY <1>0, <2>4 DEF ProjectModel
    <2> QED
      BY <1>0, <2>1, <2>5 DEF ProjectModel
  <1>5. CASE AddSubproject(c)
    <2>1. [project EXCEPT !.children = @ \cup c.targets] \in ProjectModel
      BY <1>0, <1>5 DEF AddSubproject, Called, WellTyped, ProjectModel
    <2> QED
      BY <1>0, <1>5, <2>1 DEF AddSubproject, ProjectModel
  <1>6. CASE SetProject(c)
    <2>1. [project EXCEPT !.manager = c.manager, !.optimize = c.optimize] \in ProjectModel
      BY <1>0, <1>6 DEF SetProject, Called, WellTyped, ProjectModel
    <2> QED
      BY <1>0, <1>6, <2>1 DEF SetProject, ProjectModel
  <1> QED
    BY <1>1, <1>2, <1>3, <1>4, <1>5, <1>6

LEMMA DescriptionStepInv ==
    ASSUME DescriptionInv, DescriptionNext
    PROVE  DescriptionInv'
  BY AddTargetInv, AddTestInv, AddPythonModuleInv, LinkInv, DependsInv, AddGeneratedInv,
     AddPathsInv, AssignInv, WhenInv, AppendInv, ProjectCallInv DEF DescriptionNext

LEMMA DescriptionStarts == DescriptionInit => DescriptionInv
  <1> SUFFICES ASSUME DescriptionInit PROVE DescriptionInv
    OBVIOUS
  <1>1. topic \in Topics /\ topic.name \in Names /\ topic.std \in Nat /\ topic.most \in Nat
        /\ topic.opening \in Seq(Script(topic))
    BY DescriptionAssumption DEF DescriptionInit
  <1>2. project \in ProjectModel
    <2>1. project = NewProject(topic.name, topic.std)
      BY DEF DescriptionInit
    <2>2. /\ <<>> \in Seq(TargetModel) /\ <<>> \in Seq(CommandModel)
          /\ <<>> \in Seq(CustomTargetModel) /\ <<>> \in Seq(OptionModel)
          /\ <<>> \in Seq(PresetModel) /\ <<>> \in Seq(ToolchainModel)
          /\ <<>> \in Seq(InstallModel) /\ <<>> \in Seq(ModuleModel)
      OBVIOUS
    <2>3. Nobody \in Words /\ "auto" \in Words
      BY DescriptionAssumption
    <2> QED
      BY <1>1, <2>1, <2>2, <2>3 DEF NewProject, ProjectModel
  <1>3. DOMAIN project.targets = {}
    <2>1. project.targets = <<>>
      BY DEF DescriptionInit, NewProject
    <2> QED
      BY <2>1
  <1>4. said \in 0 .. Len(topic.opening) + topic.most
    <2>1. Len(topic.opening) \in Nat /\ said = 0
      BY <1>1 DEF DescriptionInit
    <2> QED
      BY <1>1, <2>1
  <1>5. raised \in BOOLEAN
    BY DEF DescriptionInit
  <1> QED
    BY <1>1, <1>2, <1>3, <1>4, <1>5 DEF DescriptionInv, DescriptionTypeOK, SoundProject

-----------------------------------------------------------------------------
(* Freezing.                                                               *)

LEMMA FrozenTargetIsSound ==
    ASSUME NEW t, Sound(t)
    PROVE  Sound(FrozenTarget(t))
  <1>1. ASSUME NEW S \in SUBSET Paths
        PROVE  Expand(t, S) \in SUBSET Paths
    BY DescriptionAssumption DEF Expand, IsPattern
  <1>2. t \in TargetModel /\ t.sources \in SUBSET Paths /\ t.modules \in SUBSET Paths
    BY DEF Sound, TargetModel
  <1>3. FrozenTarget(t) \in TargetModel
    BY <1>1, <1>2 DEF FrozenTarget, TargetModel
  <1> QED
    BY <1>2, <1>3, SettingsAreSound DEF FrozenTarget, TargetModel

LEMMA FrozenIsSound ==
    ASSUME NEW p, SoundProject(p)
    PROVE  SoundProject(Frozen(p))
  <1> DEFINE targets == [h \in DOMAIN p.targets |-> FrozenTarget(p.targets[h])]
  <1>1. p \in ProjectModel /\ p.targets \in Seq(TargetModel)
    BY DEF SoundProject, ProjectModel
  <1>2. \A h \in DOMAIN p.targets : Sound(targets[h]) /\ targets[h] \in TargetModel
    BY FrozenTargetIsSound DEF SoundProject, Sound
  <1>3. targets \in Seq(TargetModel)
    BY <1>1, <1>2
  <1>4. Frozen(p) = [p EXCEPT !.targets = targets]
    BY DEF Frozen
  <1> HIDE DEF targets
  <1>5. Frozen(p) \in ProjectModel /\ Frozen(p).targets = targets
    BY <1>1, <1>3, <1>4 DEF ProjectModel
  <1>6. DOMAIN targets = DOMAIN p.targets
    BY DEF targets
  <1> QED
    BY <1>2, <1>5, <1>6 DEF SoundProject

-----------------------------------------------------------------------------
(* Included CMake files: what include() reports is true of the files as     *)
(* they are, for every content and whatever is left from earlier runs. The  *)
(* functions of a report are those of the file that CMake has just run, and *)
(* a module in the project has the functions of such a report.              *)

\* CMake has run the file.
HasRun == stage \in {"targets none", "targets cxx", "found"}

ReportIsTrue ==
    HasRun =>
        /\ asked \in DOMAIN content
        /\ report.functions = content[asked].functions
        /\ report.variables \subseteq Defined
        /\ report.targets \in {{}, content[asked].targets}

\* Modules have the functions of their files, and are called by no others.
TrueModule(x) ==
    /\ x.functions = content[x.reference].functions
    /\ {x.calls[i] : i \in DOMAIN x.calls} \subseteq x.functions

ModulesAreTrue == \A k \in DOMAIN project.modules : TrueModule(project.modules[k])

ReflectionInv == ReflectionTypeOK /\ ReportIsTrue /\ ModulesAreTrue

-----------------------------------------------------------------------------
(* What a call may do to the modules of a project.                         *)

LEMMA ModulesStep ==
    ASSUME DescriptionInv, DescriptionNext
    PROVE  \/ project'.modules = project.modules
           \/ \E x \in ModuleModel :
                 x.calls = <<>> /\ project'.modules = Append(project.modules, x)
           \/ \E k \in DOMAIN project.modules : \E f \in project.modules[k].functions :
                 project'.modules = [project.modules EXCEPT ![k].calls = Append(@, f)]
  <1>0. project \in ProjectModel
    BY DEF DescriptionInv, SoundProject
  <1> PICK c \in Calls :
        \/ AddTarget(c) \/ AddTest(c) \/ AddPythonModule(c)
        \/ Link(c) \/ Depends(c) \/ AddGenerated(c) \/ AddPaths(c) \/ Assign(c) \/ When(c)
        \/ AddCommand(c) \/ AddCustomTarget(c) \/ AddOption(c) \/ AddPreset(c) \/ AddToolchain(c)
        \/ Install(c) \/ Package(c) \/ RawCMakeFile(c) \/ Include(c) \/ CallModule(c)
        \/ AddSubproject(c) \/ SetProject(c)
    BY DEF DescriptionNext
  <1>1. CASE AddTarget(c) \/ AddTest(c) \/ AddPythonModule(c)
    BY <1>0, <1>1 DEF AddTarget, AddTest, AddPythonModule, Does, Raises, ProjectModel, Requiring
  <1>2. CASE Link(c) \/ Depends(c) \/ AddGenerated(c) \/ AddPaths(c) \/ Assign(c) \/ When(c)
    BY <1>0, <1>2 DEF Link, Depends, AddGenerated, AddPaths, Assign, When, Does, Raises, ProjectModel, Requiring
  <1>3. CASE \/ AddCommand(c) \/ AddCustomTarget(c) \/ AddOption(c) \/ AddPreset(c) \/ AddToolchain(c)
             \/ Install(c) \/ Package(c) \/ RawCMakeFile(c) \/ AddSubproject(c) \/ SetProject(c)
    BY <1>0, <1>3 DEF AddCommand, AddCustomTarget, AddOption, AddPreset, AddToolchain, Install, Package,
       RawCMakeFile, AddSubproject, SetProject, Does, Raises, ProjectModel
  <1>4. CASE Include(c)
    <2>1. c.node \in ModuleModel /\ c.node.calls = <<>>
      BY <1>4, CallsAreKnown DEF Include, Called, WellTyped, DescriptionInv
    <2> QED
      BY <1>0, <1>4, <2>1 DEF Include, Does, Raises, ProjectModel
  <1>5. CASE CallModule(c)
    BY <1>0, <1>5 DEF CallModule, Does, Raises, ProjectModel
  <1> QED
    BY <1>1, <1>2, <1>3, <1>4, <1>5

\* A module that include() has returned is a true one, and stays so when one of
\* its functions is called.
LEMMA ModulesStayTrue ==
    ASSUME DescriptionInv, ReflectionInv, DescriptionNext, Returned
    PROVE  ModulesAreTrue'
  <1> DEFINE old == project.modules
             new == project'.modules
  <1>1. old \in Seq(ModuleModel) /\ content' = content
    BY DEF DescriptionInv, SoundProject, ProjectModel, Returned
  <1>2. \A x : TrueModule(x)' <=> TrueModule(x)
    BY <1>1 DEF TrueModule
  <1>3. CASE new = old
    BY <1>2, <1>3 DEF ModulesAreTrue, ReflectionInv
  <1>4. ASSUME NEW x \in ModuleModel, x.calls = <<>>, new = Append(old, x)
        PROVE  ModulesAreTrue'
    <2>1. Len(old) \in Nat /\ Len(new) = Len(old) + 1 /\ new[Len(old) + 1] = x
          /\ DOMAIN new = 1 .. Len(old) + 1
          /\ \A k \in 1 .. Len(old) : k \in DOMAIN old /\ new[k] = old[k]
      BY <1>1, <1>4
    <2> HIDE DEF old, new
    <2>2. <<new[Len(old) + 1].reference, new[Len(old) + 1].functions>>
          \in IF stage = "found" THEN {<<asked, report.functions>>} ELSE {}
      BY <2>1 DEF Returned, Reflected, old, new
    <2>3. stage = "found" /\ x.reference = asked /\ x.functions = report.functions
      BY <2>1, <2>2
    <2>4. TrueModule(x)
      BY <1>4, <2>3 DEF TrueModule, ReflectionInv, ReportIsTrue, HasRun
    <2>5. \A k \in DOMAIN new : k \in 1 .. Len(old) \/ k = Len(old) + 1
      BY <2>1
    <2>6. \A k \in DOMAIN new : TrueModule(new[k])
      BY <2>1, <2>4, <2>5 DEF ModulesAreTrue, ReflectionInv, old
    <2> QED
      BY <1>2, <2>6 DEF ModulesAreTrue, new
  <1>5. ASSUME NEW k \in DOMAIN old, NEW f \in old[k].functions,
               new = [old EXCEPT ![k].calls = Append(@, f)]
        PROVE  ModulesAreTrue'
    <2>1. old[k] \in ModuleModel /\ TrueModule(old[k])
      BY <1>1 DEF ModulesAreTrue, ReflectionInv
    <2>2. /\ DOMAIN new = DOMAIN old
          /\ \A i \in DOMAIN old : i # k => new[i] = old[i]
          /\ new[k] = [old[k] EXCEPT !.calls = Append(@, f)]
      BY <1>1, <1>5
    <2> HIDE DEF old, new
    <2>3. /\ new[k].functions = old[k].functions /\ new[k].reference = old[k].reference
          /\ new[k].calls = Append(old[k].calls, f) /\ old[k].calls \in Seq(STRING)
      BY <2>1, <2>2 DEF ModuleModel
    <2>4. {new[k].calls[i] : i \in DOMAIN new[k].calls}
          \subseteq {old[k].calls[i] : i \in DOMAIN old[k].calls} \cup {f}
      BY <2>3
    <2>5. TrueModule(new[k])
      BY <1>5, <2>1, <2>3, <2>4 DEF TrueModule
    <2>6. \A i \in DOMAIN new : TrueModule(new[i])
      BY <2>2, <2>5 DEF ModulesAreTrue, ReflectionInv, old
    <2> QED
      BY <1>2, <2>6 DEF ModulesAreTrue, new
  <1> QED
    BY <1>3, <1>4, <1>5, ModulesStep

-----------------------------------------------------------------------------
(* The steps.                                                              *)

LEMMA ReturnedInv ==
    ASSUME DescriptionInv, ReflectionInv, DescriptionNext, Returned, topic' = topic
    PROVE  ReflectionInv'
  <1>1. ReflectionTypeOK'
    BY DEF ReflectionInv, ReflectionTypeOK, Returned, Stages, NoReport
  <1>2. ReportIsTrue'
    BY DEF Returned, ReportIsTrue, HasRun
  <1> QED
    BY <1>1, <1>2, ModulesStayTrue DEF ReflectionInv

\* What is known of the file that include() has been called with.
LEMMA FileIsTyped ==
    ASSUME DescriptionInv, ReflectionTypeOK
    PROVE  /\ Cached \in SUBSET STRING /\ Defined \in SUBSET STRING
           /\ asked \in DOMAIN content => content[asked] \in File /\ asked \in Paths
  <1>1. topic \in Topics
    BY DEF DescriptionInv, DescriptionTypeOK
  <1>2. asked \in DOMAIN content => content[asked] \in File /\ asked \in Paths
    BY <1>1, ReflectionAssumption DEF ReflectionTypeOK
  <1> QED
    BY <1>2 DEF File, Cached, Defined

LEMMA AskInv ==
    ASSUME DescriptionInv, ReflectionInv, Ask, UNCHANGED descriptionVars
    PROVE  ReflectionInv'
  <1>1. asked' \in Paths
    BY CallsAreKnown DEF Ask, DescriptionInv, WellTyped, ModuleModel
  <1>2. ReflectionTypeOK'
    BY <1>1 DEF Ask, ReflectionInv, ReflectionTypeOK, Stages, descriptionVars
  <1>3. ReportIsTrue' /\ ModulesAreTrue'
    BY DEF Ask, ReflectionInv, ReportIsTrue, HasRun, ModulesAreTrue, TrueModule, descriptionVars
  <1> QED
    BY <1>2, <1>3 DEF ReflectionInv

LEMMA FindInv ==
    ASSUME DescriptionInv, ReflectionInv, NEW mode \in Modes, Find(mode),
           UNCHANGED descriptionVars
    PROVE  ReflectionInv'
  <1>1. asked \in DOMAIN content /\ content[asked] \in File /\ asked \in Paths
        /\ Cached \in SUBSET STRING /\ Defined \in SUBSET STRING
    BY FileIsTyped DEF Find, Runs, ReflectionInv
  <1>2. report' \in [functions : SUBSET STRING, variables : SUBSET STRING, targets : SUBSET STRING]
        /\ report'.functions = content[asked].functions /\ report'.variables \subseteq Defined
        /\ report'.targets = {}
    BY <1>1 DEF Find, File
  <1>3. scratch' \in [Paths -> [cache : SUBSET STRING, reply : SUBSET STRING]]
    BY <1>1 DEF Find, ReflectionInv, ReflectionTypeOK
  <1>4. Defined' = Defined
    BY DEF Find, Defined
  <1>5. ReflectionTypeOK'
    BY <1>2, <1>3 DEF Find, ReflectionInv, ReflectionTypeOK, Stages, descriptionVars
  <1>6. ReportIsTrue'
    BY <1>1, <1>2, <1>4 DEF Find, ReportIsTrue
  <1>7. ModulesAreTrue'
    BY DEF Find, ReflectionInv, ModulesAreTrue, TrueModule, descriptionVars
  <1> QED
    BY <1>5, <1>6, <1>7 DEF ReflectionInv

LEMMA MissInv ==
    ASSUME DescriptionInv, ReflectionInv, NEW mode \in Modes, NEW next \in {"none", "cxx", "failed"},
           Miss(mode, next), UNCHANGED descriptionVars
    PROVE  ReflectionInv'
  <1>1. PICK kept \in SUBSET (IF mode = "script" THEN {} ELSE Cached) :
            scratch' = [scratch EXCEPT ![asked].cache = @ \cup kept]
    BY DEF Miss
  <1>2. kept \in SUBSET STRING
    BY <1>1, FileIsTyped DEF ReflectionInv
  <1>3. scratch' \in [Paths -> [cache : SUBSET STRING, reply : SUBSET STRING]]
    BY <1>1, <1>2 DEF ReflectionInv, ReflectionTypeOK
  <1>4. ReflectionTypeOK'
    BY <1>3 DEF Miss, ReflectionInv, ReflectionTypeOK, Stages, descriptionVars
  <1>5. ReportIsTrue' /\ ModulesAreTrue'
    BY DEF Miss, ReflectionInv, ReportIsTrue, HasRun, ModulesAreTrue, TrueModule, descriptionVars
  <1> QED
    BY <1>4, <1>5 DEF ReflectionInv

LEMMA TargetsInv ==
    ASSUME DescriptionInv, ReflectionInv,
           \/ FindTargets("none", "targets none") \/ FindTargets("cxx", "targets cxx")
           \/ MissTargets \/ NoTargets,
           UNCHANGED descriptionVars
    PROVE  ReflectionInv'
  <1> USE DEF FindTargets, MissTargets, NoTargets
  <1>1. HasRun /\ HasRun' /\ UNCHANGED <<content, asked>> /\ Defined' = Defined /\ stage' \in Stages
    BY DEF HasRun, Defined, Stages
  <1>2. asked \in DOMAIN content /\ content[asked] \in File /\ asked \in Paths
    BY <1>1, FileIsTyped DEF ReflectionInv, ReportIsTrue
  <1>3. report' \in [functions : SUBSET STRING, variables : SUBSET STRING, targets : SUBSET STRING]
        /\ report'.functions = report.functions /\ report'.variables = report.variables
        /\ report'.targets \in {report.targets, content[asked].targets}
    <2>1. report \in [functions : SUBSET STRING, variables : SUBSET STRING, targets : SUBSET STRING]
          /\ content[asked].targets \in SUBSET STRING
      BY <1>2 DEF ReflectionInv, ReflectionTypeOK, File
    <2>2. CASE report' = [report EXCEPT !.targets = content[asked].targets]
      BY <2>1, <2>2
    <2>3. CASE report' = report
      BY <2>1, <2>3
    <2> QED
      BY <2>2, <2>3
  <1>4. scratch' \in [Paths -> [cache : SUBSET STRING, reply : SUBSET STRING]]
    <2>1. scratch \in [Paths -> [cache : SUBSET STRING, reply : SUBSET STRING]]
          /\ content[asked].targets \in SUBSET STRING
      BY <1>2 DEF ReflectionInv, ReflectionTypeOK, File
    <2>2. CASE scratch' = [scratch EXCEPT ![asked].reply = content[asked].targets]
      BY <1>2, <2>1, <2>2
    <2>3. CASE scratch' = scratch
      BY <2>1, <2>3
    <2> QED
      BY <2>2, <2>3
  <1>5. ReflectionTypeOK'
    BY <1>1, <1>3, <1>4 DEF ReflectionInv, ReflectionTypeOK, descriptionVars
  <1>6. ReportIsTrue'
    BY <1>1, <1>3 DEF ReflectionInv, ReportIsTrue
  <1>7. ModulesAreTrue'
    BY <1>1 DEF ReflectionInv, ModulesAreTrue, TrueModule, descriptionVars
  <1> QED
    BY <1>5, <1>6, <1>7 DEF ReflectionInv

LEMMA ReflectionStepInv ==
    ASSUME DescriptionInv, ReflectionInv, ReflectionNext, UNCHANGED descriptionVars
    PROVE  ReflectionInv'
  <1>1. \/ Ask
        \/ \E mode \in Modes : Find(mode)
        \/ \E mode \in Modes, next \in {"none", "cxx", "failed"} : Miss(mode, next)
        \/ FindTargets("none", "targets none") \/ FindTargets("cxx", "targets cxx")
        \/ MissTargets \/ NoTargets
    BY DEF ReflectionNext, Modes
  <1> QED
    BY <1>1, AskInv, FindInv, MissInv, TargetsInv

LEMMA ReflectionKept ==
    ASSUME ReflectionInv, UNCHANGED <<descriptionVars, reflectionVars>>
    PROVE  ReflectionInv'
  <1> USE DEF descriptionVars, reflectionVars
  <1>1. ReflectionTypeOK'
    BY DEF ReflectionInv, ReflectionTypeOK
  <1>2. ReportIsTrue'
    BY DEF ReflectionInv, ReportIsTrue, HasRun, Defined
  <1>3. ModulesAreTrue'
    BY DEF ReflectionInv, ModulesAreTrue, TrueModule
  <1> QED
    BY <1>1, <1>2, <1>3 DEF ReflectionInv

\* A run of the script starts with what is there.
LEMMA FreshReflection ==
    ASSUME DescriptionInv', project'.modules = <<>>, content' \in topic'.drafts,
           stage' = "idle", asked' = Nobody, report' = NoReport,
           scratch' \in [Paths -> [cache : SUBSET STRING, reply : SUBSET STRING]]
    PROVE  ReflectionInv'
  BY DEF ReflectionInv, ReflectionTypeOK, Stages, NoReport, ReportIsTrue, HasRun, ModulesAreTrue

LEMMA ReflectionStarts == DescriptionInit /\ ReflectionInit => ReflectionInv
  <1> SUFFICES ASSUME DescriptionInit, ReflectionInit PROVE ReflectionInv
    OBVIOUS
  <1>1. project.modules = <<>>
    BY DEF DescriptionInit, NewProject
  <1> QED
    BY <1>1 DEF ReflectionInit, NoScratch, ReflectionInv, ReflectionTypeOK, Stages, NoReport, ReportIsTrue,
       HasRun, ModulesAreTrue

LEMMA TrueIsCurrent == ReflectionInv => ReflectionIsCurrent
  BY DEF ReflectionInv, ReportIsTrue, HasRun, ModulesAreTrue, TrueModule, ReflectionIsCurrent

-----------------------------------------------------------------------------
(* What a test or a Python module runs on is among the packages, whatever   *)
(* the script calls after it has added one: no call takes a package away or *)
(* a framework from its test.                                              *)

BackedTarget(t, packages) ==
    /\ t.kind = "test" /\ t.backend # "none" =>
          t.backend \in DOMAIN FrameworkPackage /\ FrameworkPackage[t.backend] \in packages
    /\ t.kind = "python" =>
          t.backend \in DOMAIN BindingPackage /\ BindingPackage[t.backend] \in packages
Backed(p) == \A h \in DOMAIN p.targets : BackedTarget(p.targets[h], p.packages)

LEMMA AddedIsBacked ==
    ASSUME SoundProject(project), Backed(project), NEW q, NEW t,
           project.packages \subseteq q.packages,
           q.targets = Append(project.targets, t), BackedTarget(t, q.packages)
    PROVE  Backed(q)
  <1>1. project.targets \in Seq(TargetModel) /\ Len(project.targets) \in Nat
    BY DEF SoundProject, ProjectModel
  <1>2. ASSUME NEW h \in DOMAIN q.targets
        PROVE  BackedTarget(q.targets[h], q.packages)
    <2>1. CASE h \in DOMAIN project.targets
      <3>1. q.targets[h] = project.targets[h]
        BY <1>1, <2>1
      <3>2. BackedTarget(project.targets[h], project.packages)
        BY <2>1 DEF Backed
      <3> QED
        BY <3>1, <3>2 DEF BackedTarget
    <2>2. CASE h \notin DOMAIN project.targets
      <3>1. q.targets[h] = t
        BY <1>1, <1>2, <2>2
      <3> QED
        BY <3>1
    <2> QED
      BY <2>1, <2>2
  <1> QED
    BY <1>2 DEF Backed

LEMMA ChangedIsBacked ==
    ASSUME Backed(project), NEW q,
           project.packages \subseteq q.packages,
           DOMAIN q.targets = DOMAIN project.targets,
           \A h \in DOMAIN project.targets :
              /\ q.targets[h].kind = project.targets[h].kind
              /\ q.targets[h].backend = project.targets[h].backend
    PROVE  Backed(q)
  BY DEF Backed, BackedTarget

LEMMA BackingStays ==
    ASSUME DescriptionInv, DescriptionNext, Backed(project)
    PROVE  Backed(project')
  <1>0. SoundProject(project) /\ project \in ProjectModel
    BY DEF DescriptionInv, SoundProject
  <1> PICK c \in Calls :
        \/ AddTarget(c) \/ AddTest(c) \/ AddPythonModule(c)
        \/ Link(c) \/ Depends(c) \/ AddGenerated(c) \/ AddPaths(c) \/ Assign(c) \/ When(c)
        \/ AddCommand(c) \/ AddCustomTarget(c) \/ AddOption(c) \/ AddPreset(c) \/ AddToolchain(c)
        \/ Install(c) \/ Package(c) \/ RawCMakeFile(c) \/ Include(c) \/ CallModule(c)
        \/ AddSubproject(c) \/ SetProject(c)
    BY DEF DescriptionNext
  <1>1. WellTyped(c)
    BY CallsAreKnown DEF DescriptionInv
  <1>2. CASE project' = project
    BY <1>2
  <1>3. ASSUME project'.packages = project.packages, project'.targets = project.targets
        PROVE  Backed(project')
    BY <1>3 DEF Backed
  <1>4. CASE AddTarget(c)
    <2>1. CASE KnownKind(c.node.kind)
      <3>1. project' = [project EXCEPT !.targets = Append(@, c.node)]
        BY <1>4, <2>1 DEF AddTarget, Does
      <3>2. BackedTarget(c.node, project.packages)
        BY <2>1 DEF KnownKind, LibraryKinds, BackedTarget
      <3>3. project'.packages = project.packages /\ project'.targets = Append(project.targets, c.node)
        BY <1>0, <3>1 DEF ProjectModel
      <3> QED
        BY <1>0, <3>2, <3>3, AddedIsBacked
    <2> QED
      BY <1>2, <1>4, <2>1 DEF AddTarget, Raises
  <1>5. CASE AddTest(c)
    <2> DEFINE package == FrameworkPackage[c.node.backend]
    <2>1. c.node \in TargetModel /\ c.node.kind = "test"
      BY <1>1, <1>5 DEF AddTest, Called, WellTyped, NewTarget
    <2>2. CASE c.node.backend = "none" /\ Does([project EXCEPT !.targets = Append(@, c.node)])
      <3>1. project'.packages = project.packages /\ project'.targets = Append(project.targets, c.node)
        BY <1>0, <2>2 DEF Does, ProjectModel
      <3>2. BackedTarget(c.node, project.packages)
        BY <2>1, <2>2 DEF BackedTarget
      <3> QED
        BY <1>0, <3>1, <3>2, AddedIsBacked
    <2>3. CASE /\ c.node.backend \in DOMAIN FrameworkPackage
               /\ Does([Requiring(package) EXCEPT !.targets = Append(@, Linked(c.node, package))])
      <3>1. /\ project'.packages = project.packages \cup {package}
            /\ project'.targets = Append(project.targets, Linked(c.node, package))
        BY <1>0, <2>3 DEF Does, Requiring, ProjectModel
      <3>2. Linked(c.node, package).kind = c.node.kind /\ Linked(c.node, package).backend = c.node.backend
        BY <2>1 DEF Linked, TargetModel
      <3>3. BackedTarget(Linked(c.node, package), project'.packages)
        BY <2>1, <2>3, <3>1, <3>2 DEF BackedTarget
      <3> QED
        BY <1>0, <3>1, <3>3, AddedIsBacked
    <2>4. CASE Raises
      BY <1>2, <2>4 DEF Raises
    <2> QED
      BY <1>5, <2>2, <2>3, <2>4 DEF AddTest
  <1>6. CASE AddPythonModule(c)
    <2> DEFINE package == BindingPackage[c.node.backend]
    <2>1. c.node \in TargetModel /\ c.node.kind = "python"
      BY <1>1, <1>6 DEF AddPythonModule, Called, WellTyped, NewTarget
    <2>2. CASE /\ c.node.backend \in DOMAIN BindingPackage
               /\ Does([Requiring(package) EXCEPT !.targets = Append(@, c.node)])
      <3>1. /\ project'.packages = project.packages \cup {package}
            /\ project'.targets = Append(project.targets, c.node)
        BY <1>0, <2>2 DEF Does, Requiring, ProjectModel
      <3>2. BackedTarget(c.node, project'.packages)
        BY <2>1, <2>2, <3>1 DEF BackedTarget
      <3> QED
        BY <1>0, <3>1, <3>2, AddedIsBacked
    <2>3. CASE Raises
      BY <1>2, <2>3 DEF Raises
    <2> QED
      BY <1>6, <2>2, <2>3 DEF AddPythonModule
  <1>7. ASSUME project.packages \subseteq project'.packages,
               NEW h \in DOMAIN project.targets, NEW u,
               project'.targets = [project.targets EXCEPT ![h] = u],
               u.kind = project.targets[h].kind, u.backend = project.targets[h].backend
        PROVE  Backed(project')
    <2>1. DOMAIN project'.targets = DOMAIN project.targets
      BY <1>7
    <2>2. \A i \in DOMAIN project.targets :
              /\ project'.targets[i].kind = project.targets[i].kind
              /\ project'.targets[i].backend = project.targets[i].backend
      <3>1. project.targets \in Seq(TargetModel)
        BY <1>0 DEF ProjectModel
      <3> QED
        BY <1>7, <3>1
    <2> QED
      BY <1>7, <2>1, <2>2, ChangedIsBacked
  <1>8. \A h \in DOMAIN project.targets : project.targets[h] \in TargetModel
    BY <1>0 DEF SoundProject, Sound
  <1>9. CASE Link(c)
    <2>1. CASE Raises
      BY <1>2, <2>1 DEF Raises
    <2>2. CASE ~Raises
      <3>1. PICK h, S :
                /\ h \in DOMAIN project.targets
                /\ project' = [project EXCEPT !.targets[h].links = @ \cup S]
        BY <1>9, <2>2 DEF Link, Does, Handles
      <3>2. /\ h \in DOMAIN project.targets
            /\ project'.packages = project.packages
            /\ project'.targets = [project.targets EXCEPT ![h] = [project.targets[h] EXCEPT !.links = @ \cup S]]
        BY <1>0, <3>1 DEF ProjectModel
      <3> QED
        BY <1>7, <1>8, <3>2 DEF TargetModel
    <2> QED
      BY <2>1, <2>2
  <1>10. CASE Depends(c)
    <2>1. CASE Raises
      BY <1>2, <2>1 DEF Raises
    <2>2. CASE ~Raises
      <3>1. PICK h, S :
                /\ h \in DOMAIN project.targets
                /\ project' = [Requiring(c.package) EXCEPT !.targets[h].links = @ \cup S]
        BY <1>10, <2>2 DEF Depends, Does, Handles
      <3>2. /\ h \in DOMAIN project.targets
            /\ project'.packages = project.packages \cup {c.package}
            /\ project'.targets = [project.targets EXCEPT ![h] = [project.targets[h] EXCEPT !.links = @ \cup S]]
        BY <1>0, <3>1 DEF ProjectModel, Requiring
      <3> QED
        BY <1>7, <1>8, <3>2 DEF TargetModel
    <2> QED
      BY <2>1, <2>2
  <1>11. CASE AddGenerated(c)
    <2>1. PICK h \in Handles(c.target), k \in DOMAIN project.commands :
            Does([project EXCEPT !.targets[h].sources = @ \cup project.commands[k].outputs,
                                 !.targets[h].generated = @ \cup project.commands[k].outputs])
      BY <1>11, Zenon DEF AddGenerated
    <2> DEFINE S == project.commands[k].outputs
    <2>2. /\ h \in DOMAIN project.targets /\ project'.packages = project.packages
          /\ project'.targets = [project.targets EXCEPT ![h] =
                [project.targets[h] EXCEPT !.sources = @ \cup S, !.generated = @ \cup S]]
      BY <1>0, <2>1 DEF ProjectModel, Does, Handles
    <2> QED
      BY <1>7, <1>8, <2>2 DEF TargetModel
  <1>12. CASE AddPaths(c)
    <2>1. PICK h \in Handles(c.target) :
              Does([project EXCEPT !.targets[h].sources = @ \cup c.sources,
                                   !.targets[h].modules = @ \cup c.modules,
                                   !.targets[h].dirs = @ \cup c.dirs])
      BY <1>12, Zenon DEF AddPaths
    <2>2. /\ h \in DOMAIN project.targets /\ project'.packages = project.packages
          /\ project'.targets = [project.targets EXCEPT ![h] =
                [project.targets[h] EXCEPT !.sources = @ \cup c.sources, !.modules = @ \cup c.modules,
                                           !.dirs = @ \cup c.dirs]]
      BY <1>0, <2>1 DEF ProjectModel, Does, Handles
    <2> QED
      BY <1>7, <1>8, <2>2 DEF TargetModel
  <1>13. CASE Assign(c)
    <2>1. PICK h \in DOMAIN project.targets :
              project' = [project EXCEPT !.targets[h].settings = c.settings]
      BY <1>13 DEF Assign, Does, Handles
    <2>2. /\ project'.packages = project.packages
          /\ project'.targets = [project.targets EXCEPT ![h] =
                [project.targets[h] EXCEPT !.settings = c.settings]]
      BY <1>0, <2>1 DEF ProjectModel
    <2> QED
      BY <1>7, <1>8, <2>2 DEF TargetModel
  <1>14. CASE When(c)
    <2>1. CASE Raises
      BY <1>2, <2>1 DEF Raises
    <2>2. CASE ~Raises
      <3>1. PICK h \in DOMAIN project.targets :
                project' = [project EXCEPT !.targets[h].whens = @ \cup c.options]
        BY <1>14, <2>2 DEF When, Does, Handles
      <3>2. /\ project'.packages = project.packages
            /\ project'.targets = [project.targets EXCEPT ![h] =
                  [project.targets[h] EXCEPT !.whens = @ \cup c.options]]
        BY <1>0, <3>1 DEF ProjectModel
      <3> QED
        BY <1>7, <1>8, <3>2 DEF TargetModel
    <2> QED
      BY <2>1, <2>2
  <1>15. CASE \/ AddCommand(c) \/ AddCustomTarget(c) \/ AddOption(c) \/ AddPreset(c) \/ AddToolchain(c)
              \/ Install(c) \/ Package(c) \/ RawCMakeFile(c) \/ AddSubproject(c) \/ SetProject(c)
    BY <1>0, <1>3, <1>15 DEF AddCommand, AddCustomTarget, AddOption, AddPreset, AddToolchain, Install,
       Package, RawCMakeFile, AddSubproject, SetProject, Does, Raises, ProjectModel
  <1>16. CASE Include(c) \/ CallModule(c)
    BY <1>0, <1>3, <1>16 DEF Include, CallModule, Does, Raises, ProjectModel
  <1> QED
    BY <1>4, <1>5, <1>6, <1>9, <1>10, <1>11, <1>12, <1>13, <1>14, <1>15, <1>16

LEMMA FrozenIsBacked ==
    ASSUME NEW p, SoundProject(p), Backed(p)
    PROVE  Backed(Frozen(p)) /\ Frozen(p).modules = p.modules
  <1> DEFINE targets == [h \in DOMAIN p.targets |-> FrozenTarget(p.targets[h])]
  <1>1. p \in ProjectModel /\ \A h \in DOMAIN p.targets : p.targets[h] \in TargetModel
    BY DEF SoundProject, Sound
  <1>2. /\ Frozen(p).targets = targets /\ Frozen(p).packages = p.packages
        /\ Frozen(p).modules = p.modules
    BY <1>1 DEF Frozen, ProjectModel
  <1>3. ASSUME NEW h \in DOMAIN p.targets
        PROVE  FrozenTarget(p.targets[h]).kind = p.targets[h].kind
               /\ FrozenTarget(p.targets[h]).backend = p.targets[h].backend
    BY <1>1 DEF FrozenTarget, TargetModel
  <1>4. DOMAIN targets = DOMAIN p.targets
        /\ \A h \in DOMAIN targets : targets[h] = FrozenTarget(p.targets[h])
    OBVIOUS
  <1> HIDE DEF targets
  <1>5. Backed(Frozen(p))
    BY <1>2, <1>3, <1>4 DEF Backed, BackedTarget
  <1> QED
    BY <1>2, <1>5
=============================================================================
