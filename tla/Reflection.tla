------------------------------ MODULE Reflection ------------------------------
(***************************************************************************)
(* What include() and include_module() find out about a CMake file before   *)
(* they return (src/cmakeless/driver/reflection.py): they run CMake on it,  *)
(* as a script or else in a throwaway project without languages or with     *)
(* C++, for the functions and variables that it defines, and configure      *)
(* another throwaway project for its targets. Both projects lie in a        *)
(* directory of the reference below build/, and stay there for later runs   *)
(* of the script.                                                          *)
(*                                                                         *)
(* CMake is external. What matters of it: a script starts with an empty     *)
(* cache, a project keeps its cache, also when it could not be configured,  *)
(* VARIABLES lists what is in the cache, and the last reply of the File API *)
(* stays until the project is configured again.                            *)
(***************************************************************************)
EXTENDS Description

\* Ways to run CMake: script mode, LANGUAGES NONE, LANGUAGES CXX.
Modes == {"script", "none", "cxx"}
Stages ==
    {"idle", "script", "none", "cxx", "targets none", "targets cxx", "found", "failed"}

\* A file to include: the ways in which it can be run on its own, whether it can
\* be run in the project itself, with the calls that the script makes, and once
\* more when it is included again, and what it defines, variables in the cache
\* among it.
File ==
    [works : SUBSET (Modes \cup {"project", "again"}), functions : SUBSET STRING, plain : SUBSET STRING,
     cached : SUBSET STRING, targets : SUBSET STRING]

\* A topic also says what the files that its scripts include may contain, and
\* whether scripts are run again, with files that have been edited meanwhile.
ASSUME ReflectionAssumption ==
    \A t \in Topics :
        /\ t.again \in BOOLEAN
        /\ \A files \in t.drafts :
              /\ DOMAIN files \subseteq Paths
              /\ \A f \in DOMAIN files : files[f] \in File

VARIABLES
    content,  \* what the files that can be included contain
    stage,    \* how far include() has come
    asked,    \* the reference that it has been called with
    report,   \* the ModuleReflection that it is making
    scratch   \* the directory of each reference

reflectionVars == <<content, stage, asked, report, scratch>>

NoReport == [functions |-> {}, variables |-> {}, targets |-> {}]

\* Of a directory: the cache of the project in which functions and variables are
\* looked for, and the targets in the reply of the other project.
NoScratch == [f \in Paths |-> [cache |-> {}, reply |-> {}]]

ReflectionInit ==
    /\ content \in topic.drafts
    /\ stage = "idle" /\ asked = Nobody /\ report = NoReport
    /\ scratch = NoScratch

-----------------------------------------------------------------------------

Runs(mode) == asked \in DOMAIN content /\ mode \in content[asked].works
Defined == IF asked \in DOMAIN content THEN content[asked].plain \cup content[asked].cached ELSE {}
Cached == IF asked \in DOMAIN content THEN content[asked].cached ELSE {}

\* include() after the check of the path; CMake may be missing.
Ask ==
    /\ stage = "idle"
    /\ ~raised
    /\ \E c \in Calls :
          /\ c.op = "include"
          /\ MayInclude(c.node)
          /\ asked' = c.node.reference
    /\ stage' \in {"script", "failed"}
    /\ UNCHANGED <<content, report, scratch>>

\* The report is written and read when CMake has run the file: what is new is
\* what was not there before.
Find(mode) ==
    /\ stage = mode
    /\ Runs(mode)
    /\ LET before == IF mode = "script" THEN {} ELSE scratch[asked].cache
       IN  report' = [functions |-> content[asked].functions, variables |-> Defined \ before,
                      targets |-> {}]
    /\ scratch' = IF mode = "script" THEN scratch
                  ELSE [scratch EXCEPT ![asked].cache = @ \cup Cached]
    /\ stage' = "targets none"
    /\ UNCHANGED <<content, asked>>

\* _attempt_reflection: the next way when one has failed. What the file has put
\* into the cache before it failed remains.
Miss(mode, next) ==
    /\ stage = mode
    /\ ~Runs(mode)
    /\ \E kept \in SUBSET (IF mode = "script" THEN {} ELSE Cached) :
          scratch' = [scratch EXCEPT ![asked].cache = @ \cup kept]
    /\ stage' = next
    /\ UNCHANGED <<content, asked, report>>

\* _reflect_targets: what CMake has just replied.
FindTargets(mode, from) ==
    /\ stage = from
    /\ Runs(mode)
    /\ scratch' = [scratch EXCEPT ![asked].reply = content[asked].targets]
    /\ report' = [report EXCEPT !.targets = content[asked].targets]
    /\ stage' = "found"
    /\ UNCHANGED <<content, asked>>

MissTargets ==
    /\ stage = "targets none"
    /\ ~Runs("none")
    /\ stage' = "targets cxx"
    /\ UNCHANGED <<content, asked, report, scratch>>

\* Mutant: the reply is read whether CMake has succeeded or not.
ReadAnyReply ==
    /\ stage \in {"targets none", "targets cxx"}
    /\ report' = [report EXCEPT !.targets = scratch[asked].reply]
    /\ stage' = "found"
    /\ UNCHANGED <<content, asked, scratch>>

\* The targets remain unknown: CMake has failed again or a file could not be
\* written, which may happen at once.
NoTargets ==
    /\ stage \in {"targets none", "targets cxx"}
    /\ stage' = "found"
    /\ UNCHANGED <<content, asked, report, scratch>>

ReflectionNext ==
    \/ Ask
    \/ \E mode \in Modes : Find(mode)
    \/ Miss("script", "none") \/ Miss("none", "cxx") \/ Miss("cxx", "failed")
    \/ FindTargets("none", "targets none") \/ FindTargets("cxx", "targets cxx")
    \/ MissTargets \/ NoTargets

\* include() has returned: the module that the script gets has the functions
\* that were found.
Reflected ==
    LET new == (Len(project.modules) + 1) .. Len(project'.modules)
    IN  {<<project'.modules[k].reference, project'.modules[k].functions>> : k \in new}
        = IF stage = "found" THEN {<<asked, report.functions>>} ELSE {}

Returned ==
    /\ stage \in {"idle", "found"}
    /\ Reflected
    /\ stage' = "idle" /\ asked' = Nobody /\ report' = NoReport
    /\ UNCHANGED <<content, scratch>>

-----------------------------------------------------------------------------
(* Properties.                                                             *)

ReflectionTypeOK ==
    /\ content \in topic.drafts
    /\ stage \in Stages
    /\ asked \in Paths \cup {Nobody}
    /\ report \in [functions : SUBSET STRING, variables : SUBSET STRING, targets : SUBSET STRING]
    /\ scratch \in [Paths -> [cache : SUBSET STRING, reply : SUBSET STRING]]

\* Whatever earlier runs, also those that failed or were killed, have left below
\* build/: what include() finds is in the file now, no function is missed, and the
\* targets are all or none. So every call that the script could make is one of a
\* function that CMake will know.
ReflectionIsCurrent ==
    /\ stage = "found" =>
          /\ report.functions = content[asked].functions
          /\ report.variables \subseteq Defined
          /\ report.targets \in {{}, content[asked].targets}
    /\ \A k \in DOMAIN project.modules :
          LET x == project.modules[k]
          IN  {x.calls[i] : i \in DOMAIN x.calls} \subseteq content[x.reference].functions

\* What the documentation says and the code does not do: "read a value it
\* defines back into Python" (docs/FEATURES.md, on mod.variable()).
VariablesAreFound == stage = "found" => report.variables = Defined
=============================================================================
