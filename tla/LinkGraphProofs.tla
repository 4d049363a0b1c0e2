--------------------------- MODULE LinkGraphProofs ---------------------------
(***************************************************************************)
(* Why the search for link cycles is right, for every graph. A target is    *)
(* finished only after everything it links, so what is finished is closed   *)
(* under links, and the target that was finished first in any set of them   *)
(* links none of the others: there is no cycle among finished targets. The  *)
(* path itself follows links, so meeting it again is a cycle.               *)
(***************************************************************************)
EXTENDS LinkGraph, SequenceTheorems, TLAPS

LinksKnown ==
    /\ \A t \in Imported \ Libraries : links[t] = {}
    /\ \A t \in Targets : untried[t] \subseteq links[t]

PathFollowsLinks == \A i \in 1 .. Len(path) - 1 : path[i + 1] \in links[path[i]]

\* What the links that were followed from a target on the path have led to.
TriedAreFinished ==
    \A i \in 1 .. Len(path) : \A t \in links[path[i]] \ untried[path[i]] :
        t \in finished \/ (i < Len(path) /\ t = path[i + 1])

UnvisitedAreUntried ==
    \A t \in Targets \ finished : ~OnPath(t) => untried[t] = links[t]

FinishedAreClosed == \A t \in finished : links[t] \subseteq finished
FinishedAreFree == \A S \in SUBSET finished : S # {} => ~Trapped(S)

\* Nobody else has to be searched than what links something.
RootsAreSearched ==
    \A r \in Libraries \ roots : r \in finished \/ OnPath(r) \/ links[r] = {}

Searching ==
    /\ PathFollowsLinks
    /\ TriedAreFinished
    /\ UnvisitedAreUntried
    /\ FinishedAreClosed
    /\ FinishedAreFree
    /\ RootsAreSearched

Inv ==
    /\ TypeOK
    /\ LinksKnown
    /\ verdict # "cyclic" => Searching
    /\ verdict = "acyclic" => path = <<>> /\ roots = {}
    /\ ReportedCycleIsReal

-----------------------------------------------------------------------------

LEMMA InitInv == Init => Inv
  <1> SUFFICES ASSUME Init PROVE Inv
    OBVIOUS
  <1>1. TypeOK
    BY DEF Init, TypeOK
  <1>2. FinishedAreFree
    BY DEF Init, FinishedAreFree
  <1> QED
    BY <1>1, <1>2 DEF Init, Inv, LinksKnown, Searching, PathFollowsLinks, TriedAreFinished,
       UnvisitedAreUntried, FinishedAreClosed, RootsAreSearched, OnPath, ReportedCycleIsReal

\* The last target of a path that is not empty.
LEMMA TopOfPath ==
    ASSUME TypeOK, path # <<>>
    PROVE  /\ Len(path) \in Nat \ {0}
           /\ Top \in Targets
           /\ Top \notin finished
           /\ \A i \in 1 .. Len(path) : path[i] \in Targets
  BY DEF TypeOK, Top

LEMMA StartInv ==
    ASSUME Inv, NEW r \in Targets, StartSearch(r)
    PROVE  Inv'
  <1> USE DEF StartSearch
  <1>1. CASE r \in finished
    <2>1. path' = path
      BY <1>1
    <2>2. TypeOK'
      BY <2>1 DEF Inv, TypeOK
    <2>3. RootsAreSearched'
      BY <1>1, <2>1 DEF Inv, Searching, RootsAreSearched, OnPath
    <2> QED
      BY <2>1, <2>2, <2>3 DEF Inv, LinksKnown, Searching, PathFollowsLinks, TriedAreFinished,
         UnvisitedAreUntried, FinishedAreClosed, FinishedAreFree, Trapped, OnPath,
         ReportedCycleIsReal
  <1>2. CASE r \notin finished
    <2>1. path' = <<r>> /\ Len(path') = 1 /\ path'[1] = r /\ r \in Libraries
      BY <1>2 DEF Inv, TypeOK
    <2>2. untried[r] = links[r]
      BY <1>2 DEF Inv, Searching, UnvisitedAreUntried, OnPath
    <2>3. TypeOK'
      BY <1>2, <2>1 DEF Inv, TypeOK
    <2>4. RootsAreSearched'
      BY <2>1 DEF Inv, Searching, RootsAreSearched, OnPath
    <2>5. TriedAreFinished' /\ PathFollowsLinks'
      BY <2>1, <2>2 DEF TriedAreFinished, PathFollowsLinks
    <2>6. UnvisitedAreUntried'
      BY DEF Inv, Searching, UnvisitedAreUntried, OnPath
    <2> QED
      BY <2>3, <2>4, <2>5, <2>6 DEF Inv, LinksKnown, Searching, FinishedAreClosed,
         FinishedAreFree, Trapped, ReportedCycleIsReal
  <1> QED
    BY <1>1, <1>2

\* Crossing off a link keeps everything but what the top of the path has tried.
LEMMA Followed ==
    ASSUME Inv, NEW t \in Targets, Follow(t)
    PROVE  /\ Len(path) \in Nat \ {0} /\ Top \in Targets /\ Top \notin finished
           /\ t \in links[Top]
           /\ untried' \in [Targets -> SUBSET Targets]
           /\ \A u \in Targets : untried'[u] \subseteq untried[u]
           /\ \A u \in Targets : u # Top => untried'[u] = untried[u]
           /\ untried'[Top] = untried[Top] \ {t}
  BY TopOfPath DEF Inv, TypeOK, Follow, LinksKnown

LEMMA SkipInv ==
    ASSUME Inv, NEW t \in Targets, Skip(t)
    PROVE  Inv'
  <1> USE DEF Skip
  <1>1. Searching /\ verdict = "searching"
    BY DEF Inv, Follow
  <1>2. TypeOK'
    BY Followed DEF Inv, TypeOK
  <1>3. TriedAreFinished'
    <2> SUFFICES ASSUME NEW i \in 1 .. Len(path), NEW u \in links[path[i]] \ untried'[path[i]]
                 PROVE  u \in finished \/ (i < Len(path) /\ u = path[i + 1])
      BY DEF TriedAreFinished
    <2>1. path[i] \in Targets
      BY TopOfPath, Followed DEF Inv, TypeOK
    <2>2. CASE u \in untried[path[i]]
      <3>1. untried'[path[i]] # untried[path[i]]
        BY <2>2
      <3>2. path[i] = Top
        BY <2>1, <3>1, Followed
      <3>3. u = t
        BY <2>2, <3>2, Followed
      <3> QED
        BY <3>3
    <2>3. CASE u \notin untried[path[i]]
      BY <2>3, <1>1 DEF Searching, TriedAreFinished
    <2> QED
      BY <2>2, <2>3
  <1>4. UnvisitedAreUntried'
    <2>1. OnPath(Top)
      BY Followed DEF OnPath, Top
    <2> QED
      BY <1>1, <2>1, Followed DEF Searching, UnvisitedAreUntried, OnPath
  <1>5. LinksKnown'
    BY Followed DEF Inv, LinksKnown
  <1> QED
    BY <1>1, <1>2, <1>3, <1>4, <1>5 DEF Inv, Searching, PathFollowsLinks, FinishedAreClosed,
       FinishedAreFree, Trapped, RootsAreSearched, OnPath, ReportedCycleIsReal

LEMMA ReportInv ==
    ASSUME Inv, NEW t \in Targets, Report(t)
    PROVE  Inv'
  <1> USE DEF Report
  <1>1. PICK i \in 1 .. Len(path) :
            path[i] = t /\ cycle' = Append(SubSeq(path, i, Len(path)), t)
    OBVIOUS
  <1>2. PathFollowsLinks /\ verdict = "searching"
    BY DEF Inv, Searching, Follow
  <1> DEFINE tail == SubSeq(path, i, Len(path))
             n == Len(path) - i + 1
  <1>3. path \in Seq(Targets) /\ Len(path) \in Nat \ {0} /\ i \in 1 .. Len(path)
    BY Followed DEF Inv, TypeOK
  <1>4. tail \in Seq(Targets) /\ Len(tail) = n /\ n \in Nat \ {0}
        /\ \A k \in 1 .. n : tail[k] = path[i + k - 1]
    <2>1. \A k \in i .. Len(path) : path[k] \in Targets
      BY <1>3
    <2>2. Len(path) \in Int /\ i \in Int /\ i <= Len(path) /\ Len(path) - i + 1 \in Nat \ {0}
      BY <1>3
    <2>3. /\ SubSeq(path, i, Len(path)) \in Seq(Targets)
          /\ Len(SubSeq(path, i, Len(path))) = n
          /\ \A k \in 1 .. n : SubSeq(path, i, Len(path))[k] = path[i + k - 1]
      BY <2>1, <2>2, SubSeqProperties
    <2> QED
      BY <2>2, <2>3
  <1>5. cycle' \in Seq(Targets) /\ Len(cycle') = n + 1 /\ cycle'[n + 1] = t
        /\ \A k \in 1 .. n : cycle'[k] = tail[k]
    <2>1. cycle' = Append(tail, t)
      BY <1>1
    <2> HIDE DEF tail, n
    <2> QED
      BY <2>1, <1>4, AppendProperties
  <1>6. cycle'[1] = t
    <2>1. i + 1 - 1 = i
      BY <1>3
    <2> HIDE DEF tail, n
    <2> QED
      BY <2>1, <1>1, <1>4, <1>5
  <1>7. i + n - 1 = Len(path) /\ \A k \in 1 .. n : i + k - 1 \in 1 .. Len(path)
    BY <1>3
  <1> HIDE DEF tail, n
  <1>8. \A k \in 1 .. n : cycle'[k + 1] \in links[cycle'[k]]
    <2> SUFFICES ASSUME NEW k \in 1 .. n
                 PROVE  cycle'[k + 1] \in links[cycle'[k]]
      OBVIOUS
    <2>1. CASE k = n
      <3>1. cycle'[n] = path[Len(path)] /\ t \in links[path[Len(path)]]
        BY <1>4, <1>5, <1>7, Followed DEF Top
      <3> QED
        BY <2>1, <3>1, <1>5
    <2>2. CASE k # n
      <3>1. k \in 1 .. n - 1 /\ k + 1 \in 1 .. n
        BY <2>2, <1>4
      <3>2. cycle'[k] = path[i + k - 1] /\ cycle'[k + 1] = path[i + (k + 1) - 1]
        BY <3>1, <1>4, <1>5
      <3>3. i + (k + 1) - 1 = (i + k - 1) + 1 /\ i + k - 1 \in 1 .. Len(path) - 1
        BY <3>1, <1>3, <1>4, <1>7
      <3> QED
        BY <3>2, <3>3, <1>2 DEF PathFollowsLinks
    <2> QED
      BY <2>1, <2>2
  <1>9. TypeOK'
    BY <1>5, Followed DEF Inv, TypeOK
  <1>10. ReportedCycleIsReal'
    <2>1. Len(cycle') >= 2 /\ cycle'[1] = cycle'[Len(cycle')]
      BY <1>4, <1>5, <1>6
    <2>2. \A k \in 1 .. Len(cycle') - 1 : k \in 1 .. n
      BY <1>4, <1>5
    <2> QED
      BY <2>1, <2>2, <1>8 DEF ReportedCycleIsReal
  <1> QED
    BY <1>9, <1>10, Followed DEF Inv, LinksKnown

LEMMA DescendInv ==
    ASSUME Inv, NEW t \in Targets, Descend(t)
    PROVE  Inv'
  <1> USE DEF Descend
  <1> DEFINE n == Len(path)
  <1>1. Searching /\ verdict = "searching"
    BY DEF Inv, Follow
  <1>2. /\ path \in Seq(Targets) /\ n \in Nat \ {0}
        /\ path' \in Seq(Targets) /\ Len(path') = n + 1 /\ path'[n + 1] = t
        /\ \A i \in 1 .. n : path'[i] = path[i] /\ path[i] \in Targets
    BY Followed DEF Inv, TypeOK
  <1>3. TypeOK'
    <2>1. \A i, j \in 1 .. n + 1 : path'[i] = path'[j] => i = j
      BY <1>2 DEF Inv, TypeOK, OnPath
    <2>2. \A i \in 1 .. n + 1 : path'[i] \notin finished
      BY <1>2 DEF Inv, TypeOK
    <2> QED
      BY <1>2, <2>1, <2>2, Followed DEF Inv, TypeOK
  <1>4. LinksKnown'
    BY Followed DEF Inv, LinksKnown
  <1>5. PathFollowsLinks'
    BY <1>1, <1>2, Followed DEF Searching, PathFollowsLinks, Top
  <1>6. untried[t] = links[t] /\ t # Top /\ untried'[t] = links[t]
    BY <1>1, <1>2, Followed DEF Searching, UnvisitedAreUntried, OnPath, Top
  <1>7. TriedAreFinished'
    <2> SUFFICES ASSUME NEW i \in 1 .. n + 1, NEW u \in links[path'[i]] \ untried'[path'[i]]
                 PROVE  u \in finished \/ (i < n + 1 /\ u = path'[i + 1])
      BY <1>2 DEF TriedAreFinished
    <2>1. CASE i = n + 1
      BY <2>1, <1>2, <1>6
    <2>2. CASE i = n /\ u = t
      BY <2>2, <1>2
    <2>3. CASE i \in 1 .. n /\ ~(i = n /\ u = t)
      <3>1. path'[i] = path[i] /\ path[i] \in Targets
        BY <2>3, <1>2
      <3>2. path[i] = Top => i = n
        BY <2>3, <1>2 DEF Inv, TypeOK, Top
      <3>3. u \notin untried[path[i]]
        BY <2>3, <3>1, <3>2, Followed
      <3>4. u \in finished \/ (i < n /\ u = path[i + 1])
        BY <2>3, <3>1, <3>3, <1>1 DEF Searching, TriedAreFinished
      <3> QED
        BY <3>4, <1>2
    <2> QED
      BY <2>1, <2>2, <2>3, <1>2
  <1>8. UnvisitedAreUntried'
    <2> SUFFICES ASSUME NEW u \in Targets \ finished, ~OnPath(u)'
                 PROVE  untried'[u] = links[u]
      BY DEF UnvisitedAreUntried
    <2>1. ~OnPath(u)
      BY <1>2 DEF OnPath
    <2>2. u # Top
      BY <2>1, <1>2 DEF OnPath, Top
    <2> QED
      BY <2>1, <2>2, <1>1, Followed DEF Searching, UnvisitedAreUntried
  <1>9. RootsAreSearched'
    BY <1>1, <1>2 DEF Searching, RootsAreSearched, OnPath
  <1> QED
    BY <1>1, <1>3, <1>4, <1>5, <1>7, <1>8, <1>9 DEF Inv, Searching, FinishedAreClosed,
       FinishedAreFree, Trapped, ReportedCycleIsReal

\* The heart of the argument: a target joins the finished ones when all that it
\* links is among them, and so starts no cycle and closes none.
LEMMA FinishFree ==
    ASSUME Inv, NEW t \in Targets, t \notin finished, links[t] \subseteq finished,
           FinishedAreFree, FinishedAreClosed,
           NEW S \in SUBSET (finished \cup {t}), S # {}
    PROVE  ~Trapped(S)
  <1>1. CASE S = {t}
    BY <1>1 DEF Trapped
  <1>2. CASE S # {t}
    <2>1. S \ {t} \in SUBSET finished /\ S \ {t} # {}
      BY <1>2
    <2>2. PICK u \in S \ {t} : links[u] \cap (S \ {t}) = {}
      BY <2>1 DEF FinishedAreFree, Trapped
    <2>3. t \notin links[u]
      BY <2>1, <2>2 DEF FinishedAreClosed
    <2> QED
      BY <2>2, <2>3 DEF Trapped
  <1> QED
    BY <1>1, <1>2

LEMMA ReturnInv ==
    ASSUME Inv, Return
    PROVE  Inv'
  <1> USE DEF Return
  <1> DEFINE n == Len(path)
  <1>1. Searching
    BY DEF Inv
  <1>2. /\ path \in Seq(Targets) /\ n \in Nat \ {0} /\ Top = path[n]
        /\ Top \in Targets /\ Top \notin finished
        /\ \A i \in 1 .. n : path[i] \in Targets
    BY TopOfPath DEF Inv, TypeOK, Top
  <1>3. /\ path' \in Seq(Targets) /\ Len(path') = n - 1
        /\ \A i \in 1 .. n - 1 : path'[i] = path[i]
    <2>1. n - 1 \in Int /\ 1 \in Int /\ \A i \in 1 .. n - 1 : path[i] \in Targets
      BY <1>2
    <2> DEFINE rest == SubSeq(path, 1, n - 1)
    <2>2. /\ rest \in Seq(Targets)
          /\ Len(rest) = IF 1 <= n - 1 THEN n - 1 - 1 + 1 ELSE 0
          /\ \A i \in 1 .. n - 1 - 1 + 1 : rest[i] = path[1 + i - 1]
      BY <2>1, SubSeqProperties
    <2>3. path' = rest
      OBVIOUS
    <2> HIDE DEF rest
    <2>4. Len(rest) = n - 1
      <3>1. n \in Nat \ {0}
        BY <1>2
      <3> HIDE DEF n
      <3> QED
        BY <2>2, <3>1
    <2>5. \A i \in 1 .. n - 1 : rest[i] = path[i]
      <3> SUFFICES ASSUME NEW i \in 1 .. n - 1 PROVE rest[i] = path[i]
        OBVIOUS
      <3>1. n - 1 - 1 + 1 = n - 1 /\ 1 + i - 1 = i
        BY <1>2
      <3> HIDE DEF n
      <3> QED
        BY <2>2, <3>1
    <2> HIDE DEF n
    <2> QED
      BY <2>2, <2>3, <2>4, <2>5
  <1>4. \A i \in 1 .. n - 1 : path[i] # Top
    BY <1>2 DEF Inv, TypeOK
  <1>5. links[Top] \subseteq finished
    BY <1>1, <1>2 DEF Searching, TriedAreFinished
  <1>6. TypeOK'
    BY <1>2, <1>3, <1>4 DEF Inv, TypeOK
  <1>7. FinishedAreClosed'
    BY <1>1, <1>5 DEF Searching, FinishedAreClosed
  <1>8. FinishedAreFree'
    BY <1>1, <1>2, <1>5, FinishFree DEF Searching, FinishedAreFree, Trapped
  <1>9. PathFollowsLinks'
    BY <1>1, <1>2, <1>3 DEF Searching, PathFollowsLinks
  <1>10. TriedAreFinished'
    <2> SUFFICES ASSUME NEW i \in 1 .. n - 1, NEW u \in links[path[i]] \ untried[path[i]]
                 PROVE  u \in finished' \/ (i < n - 1 /\ u = path'[i + 1])
      BY <1>2, <1>3 DEF TriedAreFinished
    <2>1. u \in finished \/ u = path[i + 1]
      BY <1>1, <1>2 DEF Searching, TriedAreFinished
    <2> QED
      BY <2>1, <1>2, <1>3
  <1>11. UnvisitedAreUntried'
    <2> SUFFICES ASSUME NEW u \in Targets \ finished', ~OnPath(u)'
                 PROVE  untried[u] = links[u]
      BY DEF UnvisitedAreUntried
    <2>1. ~OnPath(u)
      BY <1>2, <1>3 DEF OnPath
    <2> QED
      BY <2>1, <1>1 DEF Searching, UnvisitedAreUntried
  <1>12. RootsAreSearched'
    <2> SUFFICES ASSUME NEW r \in Libraries \ roots
                 PROVE  r \in finished' \/ OnPath(r)' \/ links[r] = {}
      BY DEF RootsAreSearched
    <2>1. r \in finished \/ OnPath(r) \/ links[r] = {}
      BY <1>1 DEF Searching, RootsAreSearched
    <2> QED
      BY <2>1, <1>2, <1>3 DEF OnPath
  <1> QED
    BY <1>6, <1>7, <1>8, <1>9, <1>10, <1>11, <1>12 DEF Inv, LinksKnown, Searching,
       ReportedCycleIsReal

LEMMA StepInv == Inv /\ [Next]_vars => Inv'
  <1> SUFFICES ASSUME Inv, [Next]_vars PROVE Inv'
    OBVIOUS
  <1>1. CASE \E t \in Targets : StartSearch(t) \/ Skip(t) \/ Report(t) \/ Descend(t)
    BY <1>1, StartInv, SkipInv, ReportInv, DescendInv
  <1>2. CASE Return
    BY <1>2, ReturnInv
  <1>3. CASE Accept
    BY <1>3 DEF Accept, Inv, TypeOK, LinksKnown, Searching, PathFollowsLinks, TriedAreFinished,
       UnvisitedAreUntried, FinishedAreClosed, FinishedAreFree, Trapped, RootsAreSearched,
       OnPath, ReportedCycleIsReal
  <1>4. CASE UNCHANGED vars
    BY <1>4 DEF vars, Inv, TypeOK, LinksKnown, Searching, PathFollowsLinks, TriedAreFinished,
       UnvisitedAreUntried, FinishedAreClosed, FinishedAreFree, Trapped, RootsAreSearched,
       OnPath, ReportedCycleIsReal
  <1> QED
    BY <1>1, <1>2, <1>3, <1>4 DEF Next

\* A set of targets in a cycle has no imported target in it, so all of them are
\* finished when the search is over.
LEMMA InvAccepts == Inv => AcceptedIsAcyclic
  <1> SUFFICES ASSUME Inv, verdict = "acyclic", NEW S \in SUBSET Targets, S # {}, Trapped(S)
               PROVE  FALSE
    BY DEF AcceptedIsAcyclic, Acyclic
  <1>1. path = <<>> /\ roots = {} /\ Searching
    BY DEF Inv
  <1>2. \A r \in Libraries : r \in finished \/ links[r] = {}
    <2>1. \A r \in Libraries : ~OnPath(r)
      BY <1>1 DEF OnPath
    <2> QED
      BY <1>1, <2>1 DEF Searching, RootsAreSearched
  <1>3. \A t \in S : t \in Libraries /\ links[t] # {}
    BY DEF Trapped, Inv, LinksKnown, Targets
  <1>4. S \in SUBSET finished
    BY <1>2, <1>3
  <1> QED
    BY <1>1, <1>4 DEF Searching, FinishedAreFree

LEMMA AlwaysInv == Spec => []Inv
  BY InitInv, StepInv, PTL DEF Spec

-----------------------------------------------------------------------------

\* The path of the recursion never holds a target twice, nor a finished one, so
\* it is never longer than the project has targets (_find_cycle).
THEOREM SearchTypeCorrect == Spec => []TypeOK
  <1>1. Inv => TypeOK
    BY DEF Inv
  <1> QED
    BY <1>1, AlwaysInv, PTL

\* The error message of _check_link_cycles names a real cycle.
THEOREM CyclesAreReal == Spec => []ReportedCycleIsReal
  <1>1. Inv => ReportedCycleIsReal
    BY DEF Inv
  <1> QED
    BY <1>1, AlwaysInv, PTL

\* Whatever passes _check_link_cycles has no cycle.
THEOREM AcceptanceIsSound == Spec => []AcceptedIsAcyclic
  BY InvAccepts, AlwaysInv, PTL
=============================================================================
