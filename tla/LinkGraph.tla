------------------------------ MODULE LinkGraph ------------------------------
(***************************************************************************)
(* The search for link cycles (_check_link_cycles and _find_cycle in        *)
(* src/cmakeless/model/validate.py), which a script has to pass before      *)
(* anything is resolved, written or built.                                  *)
(*                                                                         *)
(* The code is recursive and threads one set of finished libraries through  *)
(* all of its searches. Here the recursion is a stack, the current path,    *)
(* and every library on it remembers which of its links it has still to     *)
(* follow. The code follows links in declaration order and starts from the  *)
(* libraries in sorted order; nothing that is claimed here depends on that, *)
(* so both orders are left open.                                           *)
(***************************************************************************)
EXTENDS Naturals, Sequences

CONSTANTS
    Libraries,   \* the libraries of the project
    Imported     \* imported targets of its dependencies: one that has the name of
                 \* a library is that library for the search, any other links nothing

Targets == Libraries \cup Imported

VARIABLES
    links,      \* link() edges of every target
    roots,      \* libraries that no search has been started from
    path,       \* the libraries of the current search, root first
    untried,    \* links that are still to be followed from each of them
    finished,   \* libraries already proven cycle-free
    verdict,    \* what has been found so far
    cycle       \* the cycle that is reported

vars == <<links, roots, path, untried, finished, verdict, cycle>>

TypeOK ==
    /\ links \in [Targets -> SUBSET Targets]
    /\ roots \in SUBSET Libraries
    /\ path \in Seq(Targets)
    /\ \A i, j \in 1 .. Len(path) : path[i] = path[j] => i = j
    /\ \A i \in 1 .. Len(path) : path[i] \notin finished
    /\ untried \in [Targets -> SUBSET Targets]
    /\ finished \in SUBSET Targets
    /\ verdict \in {"searching", "acyclic", "cyclic"}
    /\ cycle \in Seq(Targets)

\* _check_links has passed: every link leads to a library or an imported target.
Init ==
    /\ links \in [Targets -> SUBSET Targets]
    /\ \A t \in Imported \ Libraries : links[t] = {}
    /\ roots = Libraries
    /\ path = <<>>
    /\ untried = links
    /\ finished = {}
    /\ verdict = "searching"
    /\ cycle = <<>>

Top == path[Len(path)]
OnPath(t) == \E i \in 1 .. Len(path) : path[i] = t

-----------------------------------------------------------------------------

\* for library_name in sorted(edges_by_name): an unfinished one is searched.
StartSearch(r) ==
    /\ verdict = "searching"
    /\ path = <<>>
    /\ r \in roots
    /\ roots' = roots \ {r}
    /\ path' = IF r \in finished THEN <<>> ELSE <<r>>
    /\ UNCHANGED <<links, untried, finished, verdict, cycle>>

Follow(t) ==
    /\ verdict = "searching"
    /\ path # <<>>
    /\ t \in untried[Top]
    /\ untried' = [untried EXCEPT ![Top] = @ \ {t}]

\* Mutant: the loop stays at the link it has just followed.
SkipNothing(t) ==
    /\ verdict = "searching"
    /\ path # <<>>
    /\ t \in untried[Top]
    /\ t \in finished
    /\ UNCHANGED vars

\* if name in finished: return None
Skip(t) ==
    /\ Follow(t)
    /\ t \in finished
    /\ UNCHANGED <<links, roots, path, finished, verdict, cycle>>

\* Mutant: the whole path is reported, with what leads to the cycle.
ReportPath(t) ==
    /\ Follow(t)
    /\ t \notin finished
    /\ OnPath(t)
    /\ cycle' = Append(path, t)
    /\ verdict' = "cyclic"
    /\ UNCHANGED <<links, roots, path, finished>>

\* return (*path[path.index(name) :], name)
Report(t) ==
    /\ Follow(t)
    /\ t \notin finished
    /\ \E i \in 1 .. Len(path) :
          /\ path[i] = t
          /\ cycle' = Append(SubSeq(path, i, Len(path)), t)
    /\ verdict' = "cyclic"
    /\ UNCHANGED <<links, roots, path, finished>>

\* Mutant: the path is not looked at.
DescendAgain(t) ==
    /\ Follow(t)
    /\ t \notin finished
    /\ path' = Append(path, t)
    /\ UNCHANGED <<links, roots, finished, verdict, cycle>>

\* The recursive call, with the target at the end of the path.
Descend(t) ==
    /\ Follow(t)
    /\ t \notin finished
    /\ ~OnPath(t)
    /\ path' = Append(path, t)
    /\ UNCHANGED <<links, roots, finished, verdict, cycle>>

\* Mutant: a target is finished as soon as one of its links is.
ReturnEarly ==
    /\ verdict = "searching"
    /\ path # <<>>
    /\ untried[Top] = {} \/ links[Top] \cap finished # {}
    /\ finished' = finished \cup {Top}
    /\ path' = SubSeq(path, 1, Len(path) - 1)
    /\ UNCHANGED <<links, roots, untried, verdict, cycle>>

\* finished.add(name); return None
Return ==
    /\ verdict = "searching"
    /\ path # <<>>
    /\ untried[Top] = {}
    /\ finished' = finished \cup {Top}
    /\ path' = SubSeq(path, 1, Len(path) - 1)
    /\ UNCHANGED <<links, roots, untried, verdict, cycle>>

Accept ==
    /\ verdict = "searching"
    /\ path = <<>>
    /\ roots = {}
    /\ verdict' = "acyclic"
    /\ UNCHANGED <<links, roots, path, untried, finished, cycle>>

Next ==
    \/ \E t \in Targets : StartSearch(t) \/ Skip(t) \/ Report(t) \/ Descend(t)
    \/ Return
    \/ Accept

Spec == Init /\ [][Next]_vars

-----------------------------------------------------------------------------
(* Properties.                                                             *)

\* A set of targets in which everybody links somebody of the set contains a
\* cycle, and a graph with a cycle has such a set.
Trapped(S) == \A t \in S : links[t] \cap S # {}
Acyclic == \A S \in SUBSET Targets : S # {} => ~Trapped(S)

\* What is reported as a cycle is one: it follows links and ends where it began.
ReportedCycleIsReal ==
    verdict = "cyclic" =>
        /\ Len(cycle) >= 2
        /\ cycle[1] = cycle[Len(cycle)]
        /\ \A i \in 1 .. Len(cycle) - 1 : cycle[i + 1] \in links[cycle[i]]

\* A project that passes has no cycle, although each search trusts what the
\* searches before it have found.
AcceptedIsAcyclic == verdict = "acyclic" => Acyclic
=============================================================================
