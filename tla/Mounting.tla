------------------------------ MODULE Mounting ------------------------------
(***************************************************************************)
(* How build scripts mount each other. `Project.add_subproject`             *)
(* (src/cmakeless/api/project.py) executes the child's cmakelessfile.py     *)
(* inside two context managers of src/cmakeless/api/_context.py:            *)
(* `loading_script` refuses a script that is being loaded already, and      *)
(* `capturing_projects` collects the Project objects that are created       *)
(* meanwhile. Both keep a stack in a module-level list, beside Python's own *)
(* stack of running scripts (`frames` here), and both have to be unwound    *)
(* when a script ends in an exception that a script above it may catch.     *)
(***************************************************************************)
EXTENDS Naturals, Sequences

CONSTANTS
    Dirs,          \* the directories that paths lead to
    Root,          \* the directory of the script that is run
    HasScript,     \* those with a cmakelessfile.py
    MaxProjects    \* bound: how many Project objects the scripts create

ASSUME MountingAssumption ==
    /\ HasScript \subseteq Dirs
    /\ Root \in HasScript
    /\ MaxProjects \in Nat

VARIABLES
    frames,    \* Python's stack: the scripts that are running, the first on top level
    loading,   \* _loading_scripts
    capture,   \* _capture_stack
    made,      \* the projects, in order of creation
    mounts,    \* the entries of all _subprojects lists
    raised     \* whether an exception is on its way to the first frame

mountingVars == <<frames, loading, capture, made, mounts, raised>>

Projects == 1 .. Len(made)

\* A running script, the project whose add_subproject() runs it, and the
\* projects it has got hold of. A project, the directory it is rooted in and
\* whether it was created in description mode. An entry of _subprojects.
Frame == [dir : Dirs, by : 0 .. MaxProjects, own : SUBSET (1 .. MaxProjects)]
Made == [dir : Dirs, nested : BOOLEAN]
Mount == [by : 1 .. MaxProjects, dir : Dirs, child : 1 .. MaxProjects]

MountingTypeOK ==
    /\ frames \in Seq(Frame) /\ frames # <<>>
    /\ loading \in Seq(Dirs)
    /\ capture \in Seq(SUBSET (1 .. MaxProjects))
    /\ made \in Seq(Made) /\ Len(made) <= MaxProjects
    /\ mounts \in SUBSET Mount
    /\ raised \in BOOLEAN

Popped(stack) == SubSeq(stack, 1, Len(stack) - 1)
Top == frames[Len(frames)]
Captured == capture[Len(capture)]
Nested == Len(frames) > 1

MountingInit ==
    /\ frames = << [dir |-> Root, by |-> 0, own |-> {}] >>
    /\ loading = <<>>
    /\ capture = <<>>
    /\ made = <<>>
    /\ mounts = {}
    /\ raised = FALSE

-----------------------------------------------------------------------------
(* What a running script does.                                             *)

\* Project(...), rooted in the directory of the script that creates it and
\* registered with the innermost capture.
NewProject ==
    LET p == Len(made) + 1 IN
    /\ ~raised
    /\ p <= MaxProjects
    /\ made' = Append(made, [dir |-> Top.dir, nested |-> capture # <<>>])
    /\ frames' = [frames EXCEPT ![Len(frames)].own = @ \cup {p}]
    /\ capture' = IF capture = <<>> THEN capture
                  ELSE [capture EXCEPT ![Len(capture)] = @ \cup {p}]
    /\ UNCHANGED <<loading, mounts, raised>>

\* A path may lead anywhere, to a parent directory too.
Calls(p, d) == ~raised /\ p \in Top.own /\ d \in Dirs

\* Mutant: only the script that makes the call is looked at.
LoadingLast(d) == loading # <<>> /\ loading[Len(loading)] = d

IsLoading(d) == \E i \in 1 .. Len(loading) : loading[i] = d

\* add_subproject() of a directory without a script, or of one whose script is
\* being loaded higher up.
RefuseMount(p, d) ==
    /\ Calls(p, d)
    /\ d \notin HasScript \/ IsLoading(d)
    /\ raised' = TRUE
    /\ UNCHANGED <<frames, loading, capture, made, mounts>>

\* add_subproject() enters both context managers and runs the script.
RunScript(p, d) ==
    /\ Calls(p, d)
    /\ d \in HasScript
    /\ ~IsLoading(d)
    /\ frames' = Append(frames, [dir |-> d, by |-> p, own |-> {}])
    /\ loading' = Append(loading, d)
    /\ capture' = Append(capture, {})
    /\ UNCHANGED <<made, mounts, raised>>

\* Leaving the context managers, which all ways out of a nested script do.
Leave ==
    /\ Nested
    /\ loading' = Popped(loading)
    /\ capture' = Popped(capture)
    /\ UNCHANGED made

\* Mutant: whatever project was created last is taken for the child.
EndScriptLatest ==
    /\ ~raised
    /\ Leave
    /\ Captured # {}
    /\ mounts' = mounts \cup {[by |-> Top.by, dir |-> Top.dir, child |-> Len(made)]}
    /\ frames' = [Popped(frames) EXCEPT ![Len(frames) - 1].own = @ \cup {Len(made)}]
    /\ UNCHANGED raised

\* The script has described one project, which its caller mounts and gets.
EndScript ==
    /\ ~raised
    /\ Leave
    /\ \E child \in Captured :
        /\ Captured = {child}
        /\ mounts' = mounts \cup {[by |-> Top.by, dir |-> Top.dir, child |-> child]}
        /\ frames' = [Popped(frames) EXCEPT ![Len(frames) - 1].own = @ \cup {child}]
    /\ UNCHANGED raised

\* The script has described no project or more than one.
EndScriptWrongly ==
    /\ ~raised
    /\ Leave
    /\ \A child \in Captured : Captured # {child}
    /\ frames' = Popped(frames)
    /\ raised' = TRUE
    /\ UNCHANGED mounts

\* A statement of the script fails: a builder call with a bad argument, or
\* the script's own Python.
ScriptFails ==
    /\ ~raised
    /\ raised' = TRUE
    /\ UNCHANGED <<frames, loading, capture, made, mounts>>

\* Mutant: the stacks are popped after the script and not in a finally clause.
UnwindFrameOnly ==
    /\ raised
    /\ Nested
    /\ frames' = Popped(frames)
    /\ UNCHANGED <<loading, capture, made, mounts, raised>>

\* The exception leaves a nested script and the add_subproject() call.
Unwind ==
    /\ raised
    /\ Leave
    /\ frames' = Popped(frames)
    /\ UNCHANGED <<mounts, raised>>

\* The script that is running has a handler for it.
Catch ==
    /\ raised
    /\ raised' = FALSE
    /\ UNCHANGED <<frames, loading, capture, made, mounts>>

MountingNext ==
    \/ NewProject
    \/ \E p \in Projects, d \in Dirs : RefuseMount(p, d) \/ RunScript(p, d)
    \/ EndScript \/ EndScriptWrongly
    \/ ScriptFails \/ Unwind \/ Catch

MountingSpec == MountingInit /\ [][MountingNext]_mountingVars

-----------------------------------------------------------------------------
(* Properties.                                                             *)

\* The module's stacks follow Python's, however nested scripts end: a script
\* that is not running is not taken for a cycle, and a build() on top level is
\* not taken for one in description mode (`in_description_mode`).
GuardsFollowCalls ==
    /\ Len(loading) = Len(frames) - 1
    /\ \A i \in 1 .. Len(loading) : loading[i] = frames[i + 1].dir
    /\ Len(capture) = Len(frames) - 1

\* No script runs inside itself, except that the one on top level, which
\* nobody loads, may run once more: the depth of the recursion is bounded by
\* the number of scripts.
NoScriptTwice ==
    \A i, j \in 2 .. Len(frames) : frames[i].dir = frames[j].dir => i = j

\* The mounts form a forest: a project has one parent at most, is rooted where
\* its parent expects it and younger than that parent, and a project of the
\* top-level script has none.
MountsFormForest ==
    /\ \A m \in mounts :
        /\ m.by < m.child
        /\ m.child <= Len(made)
        /\ made[m.child] = [dir |-> m.dir, nested |-> TRUE]
    /\ \A m, other \in mounts : m.child = other.child => m = other
=============================================================================
