--------------------------- MODULE MountingProofs ---------------------------
(***************************************************************************)
(* Proofs about Mounting, for any number of directories and projects: the   *)
(* context stacks follow the running scripts, no script is nested twice,    *)
(* and the mounts form a forest.                                            *)
(***************************************************************************)
EXTENDS FrontEnd, SequenceTheorems, WellFoundedInduction, TLAPS

LEMMA PoppedFacts ==
    ASSUME NEW S, NEW s \in Seq(S), Len(s) >= 1
    PROVE  /\ Popped(s) \in Seq(S)
           /\ Len(Popped(s)) = Len(s) - 1
           /\ \A i \in 1 .. Len(s) - 1 : Popped(s)[i] = s[i]
  <1>1. Len(s) \in Nat /\ \A i \in 1 .. Len(s) : s[i] \in S
    BY ElementOfSeq, LenProperties
  <1> DEFINE n == Len(s) - 1
  <1>2. n \in Int /\ n >= 0 /\ \A i \in 1 .. n : s[i] \in S
    BY <1>1
  <1> HIDE DEF n
  <1>3. /\ SubSeq(s, 1, n) \in Seq(S)
        /\ Len(SubSeq(s, 1, n)) = IF 1 <= n THEN n - 1 + 1 ELSE 0
        /\ \A i \in 1 .. n - 1 + 1 : SubSeq(s, 1, n)[i] = s[1 + i - 1]
    BY <1>2, SubSeqProperties
  <1>4. /\ SubSeq(s, 1, n) \in Seq(S)
        /\ Len(SubSeq(s, 1, n)) = n
        /\ \A i \in 1 .. n : SubSeq(s, 1, n)[i] = s[i]
    BY <1>2, <1>3
  <1> QED
    BY <1>4 DEF Popped, n

LEMMA SingletonFacts ==
    ASSUME NEW S, NEW e \in S
    PROVE  <<e>> \in Seq(S) /\ Len(<<e>>) = 1 /\ <<e>>[1] = e /\ <<e>> # <<>>
  <1>1. Len(<<e>>) = 1 /\ <<e>>[1] = e /\ <<e>> \in Seq(S)
    OBVIOUS
  <1> QED
    BY <1>1, EmptySeq

\* What a script can reach exists.
ReachInv ==
    /\ \A i \in 1 .. Len(frames) : \A p \in frames[i].own : p <= Len(made)
    /\ \A i \in 2 .. Len(frames) : frames[i].by \in Projects

\* What a nested script has created is younger than the project it is for,
\* rooted in its directory, and nobody's child yet.
CapturesAreNew ==
    \A i \in 1 .. Len(capture) : \A c \in capture[i] :
        /\ frames[i + 1].by < c
        /\ c <= Len(made)
        /\ made[c] = [dir |-> frames[i + 1].dir, nested |-> TRUE]
        /\ \A m \in mounts : m.child # c

\* A project is captured once.
CapturesDisjoint ==
    \A i, j \in 1 .. Len(capture) : \A c \in capture[i] : c \in capture[j] => i = j

MountingInv ==
    /\ MountingTypeOK
    /\ GuardsFollowCalls
    /\ NoScriptTwice
    /\ ReachInv
    /\ CapturesAreNew
    /\ CapturesDisjoint
    /\ MountsFormForest

LEMMA MountingInitInv == MountingInit => MountingInv
  <1> SUFFICES ASSUME MountingInit PROVE MountingInv
    OBVIOUS
  <1>1. [dir |-> Root, by |-> 0, own |-> {}] \in Frame
    BY MountingAssumption DEF Frame
  <1>2. /\ frames \in Seq(Frame) /\ Len(frames) = 1 /\ frames # <<>>
        /\ frames[1] = [dir |-> Root, by |-> 0, own |-> {}]
    BY <1>1, SingletonFacts DEF MountingInit
  <1>3. /\ loading \in Seq(Dirs) /\ Len(loading) = 0
        /\ capture \in Seq(SUBSET (1 .. MaxProjects)) /\ Len(capture) = 0
        /\ made \in Seq(Made) /\ Len(made) = 0
    BY EmptySeq DEF MountingInit
  <1>4. mounts = {} /\ raised = FALSE
    BY DEF MountingInit
  <1>5. MountingTypeOK
    <2>1. Len(made) <= MaxProjects
      BY <1>3, MountingAssumption
    <2> QED
      BY <1>2, <1>3, <1>4, <2>1 DEF MountingTypeOK
  <1>6. GuardsFollowCalls
    BY <1>2, <1>3 DEF GuardsFollowCalls
  <1>7. NoScriptTwice
    BY <1>2 DEF NoScriptTwice
  <1>8. ReachInv
    BY <1>2, <1>3 DEF ReachInv
  <1>9. CapturesAreNew /\ CapturesDisjoint
    BY <1>3 DEF CapturesAreNew, CapturesDisjoint
  <1>10. MountsFormForest
    BY <1>4 DEF MountsFormForest
  <1> QED
    BY <1>5, <1>6, <1>7, <1>8, <1>9, <1>10 DEF MountingInv

-----------------------------------------------------------------------------
(* The steps.                                                              *)

\* The facts of the type invariant that the arithmetic of the stacks needs.
LEMMA StackFacts ==
    ASSUME MountingTypeOK
    PROVE  /\ Len(frames) \in Nat /\ Len(frames) >= 1
           /\ Len(loading) \in Nat /\ Len(capture) \in Nat /\ Len(made) \in Nat
           /\ \A i \in 1 .. Len(frames) : frames[i] \in Frame
           /\ \A i \in 1 .. Len(capture) : capture[i] \in SUBSET (1 .. MaxProjects)
           /\ Top \in Frame
  <1>1. Len(frames) \in Nat \ {0}
    BY EmptySeq DEF MountingTypeOK
  <1>2. Len(loading) \in Nat /\ Len(capture) \in Nat /\ Len(made) \in Nat
    BY LenProperties DEF MountingTypeOK
  <1>3. \A i \in 1 .. Len(frames) : frames[i] \in Frame
    BY ElementOfSeq DEF MountingTypeOK
  <1>4. \A i \in 1 .. Len(capture) : capture[i] \in SUBSET (1 .. MaxProjects)
    BY ElementOfSeq DEF MountingTypeOK
  <1>5. Top \in Frame
    BY <1>1, <1>3 DEF Top
  <1> QED
    BY <1>1, <1>2, <1>3, <1>4, <1>5

\* What was captured and what was mounted has been made.
LEMMA MadeFacts ==
    ASSUME MountingInv
    PROVE  /\ \A i \in 1 .. Len(capture) : \A c \in capture[i] :
                /\ c \in 1 .. Len(made)
                /\ frames[i + 1].by < c
                /\ made[c] = [dir |-> frames[i + 1].dir, nested |-> TRUE]
                /\ \A m \in mounts : m.child # c
           /\ \A m \in mounts :
                /\ m.by < m.child
                /\ m.child \in 1 .. Len(made)
                /\ made[m.child] = [dir |-> m.dir, nested |-> TRUE]
  <1>1. Len(made) \in Nat /\ \A i \in 1 .. Len(capture) : capture[i] \in SUBSET (1 .. MaxProjects)
    BY StackFacts DEF MountingInv
  <1>2. ASSUME NEW i \in 1 .. Len(capture), NEW c \in capture[i]
        PROVE  /\ c \in 1 .. Len(made)
               /\ frames[i + 1].by < c
               /\ made[c] = [dir |-> frames[i + 1].dir, nested |-> TRUE]
               /\ \A m \in mounts : m.child # c
    <2>1. c \in 1 .. MaxProjects
      BY <1>1
    <2>2. /\ frames[i + 1].by < c
          /\ c <= Len(made)
          /\ made[c] = [dir |-> frames[i + 1].dir, nested |-> TRUE]
          /\ \A m \in mounts : m.child # c
      BY DEF MountingInv, CapturesAreNew
    <2> QED
      BY <2>1, <2>2, <1>1
  <1>3. ASSUME NEW m \in mounts
        PROVE  /\ m.by < m.child
               /\ m.child \in 1 .. Len(made)
               /\ made[m.child] = [dir |-> m.dir, nested |-> TRUE]
    <2>1. m \in Mount
      BY DEF MountingInv, MountingTypeOK
    <2>2. m.child \in 1 .. MaxProjects
      BY <2>1 DEF Mount
    <2>3. /\ m.by < m.child
          /\ m.child <= Len(made)
          /\ made[m.child] = [dir |-> m.dir, nested |-> TRUE]
      BY DEF MountingInv, MountsFormForest
    <2> QED
      BY <2>2, <2>3, <1>1
  <1> QED
    BY <1>2, <1>3

LEMMA NewProjectInv == MountingInv /\ NewProject => MountingInv'
  <1> SUFFICES ASSUME MountingInv, NewProject PROVE MountingInv'
    OBVIOUS
  <1> DEFINE p == Len(made) + 1
             L == Len(frames)
             C == Len(capture)
             new == [dir |-> Top.dir, nested |-> capture # <<>>]
  <1>1. MountingTypeOK /\ GuardsFollowCalls /\ NoScriptTwice /\ ReachInv
        /\ CapturesAreNew /\ CapturesDisjoint /\ MountsFormForest
    BY DEF MountingInv
  <1>2. /\ L \in Nat /\ L >= 1 /\ C = L - 1 /\ C \in Nat /\ Len(made) \in Nat
        /\ \A i \in 1 .. L : frames[i] \in Frame
        /\ Top = frames[L]
    BY <1>1, StackFacts DEF GuardsFollowCalls, Top
  <1>3. p \in 1 .. MaxProjects /\ p = Len(made) + 1
    BY <1>2, MountingAssumption DEF NewProject
  <1>4. /\ \A i \in 1 .. C : \A c \in capture[i] : c # p
        /\ \A m \in mounts : m.child # p
    <2>1. /\ \A i \in 1 .. C : \A c \in capture[i] : c \in 1 .. Len(made)
          /\ \A m \in mounts : m.child \in 1 .. Len(made)
      BY MadeFacts
    <2>2. p \notin 1 .. Len(made)
      BY <1>2
    <2> HIDE DEF p
    <2> QED
      BY <2>1, <2>2
  <1>5. /\ made' \in Seq(Made) /\ Len(made') = p
        /\ \A i \in 1 .. Len(made) : made'[i] = made[i]
        /\ made'[p] = new
    <2>1. new \in Made
      BY <1>2 DEF Made, Frame
    <2>2. made' = Append(made, new) /\ made \in Seq(Made)
      BY <1>1 DEF NewProject, MountingTypeOK
    <2> HIDE DEF new
    <2> QED
      BY <2>1, <2>2, AppendProperties
  <1>6. /\ frames' \in Seq(Frame) /\ Len(frames') = L /\ frames' # <<>>
        /\ \A i \in 1 .. L : /\ frames'[i].dir = frames[i].dir
                             /\ frames'[i].by = frames[i].by
                             /\ i # L => frames'[i] = frames[i]
        /\ frames'[L].own = frames[L].own \cup {p}
    <2> DEFINE f == [frames[L] EXCEPT !.own = @ \cup {p}]
    <2>1. f \in Frame /\ f.dir = frames[L].dir /\ f.by = frames[L].by
          /\ f.own = frames[L].own \cup {p}
      BY <1>2, <1>3 DEF Frame
    <2>2. frames \in Seq(Frame) /\ L \in 1 .. Len(frames)
      BY <1>1, <1>2 DEF MountingTypeOK
    <2>3. frames' = [frames EXCEPT ![L] = f]
      BY DEF NewProject
    <2> HIDE DEF f
    <2>4. /\ frames' \in Seq(Frame) /\ Len(frames') = L
          /\ \A i \in 1 .. L : frames'[i] = IF i = L THEN f ELSE frames[i]
      BY <2>1, <2>2, <2>3, ExceptSeq
    <2>5. frames' # <<>>
      BY <2>4, <1>2, EmptySeq
    <2> QED
      BY <1>2, <2>1, <2>4, <2>5
  <1>7. /\ capture' \in Seq(SUBSET (1 .. MaxProjects)) /\ Len(capture') = C
        /\ \A i \in 1 .. C : capture'[i] = IF i = C THEN capture[i] \cup {p} ELSE capture[i]
        /\ (C > 0) => (capture # <<>>)
    <2> DEFINE S == SUBSET (1 .. MaxProjects)
    <2>1. capture \in Seq(S)
      BY <1>1 DEF MountingTypeOK
    <2>2. CASE capture = <<>>
      <3>1. C = 0 /\ capture' = capture
        BY <2>2, <1>2, EmptySeq DEF NewProject
      <3> QED
        BY <3>1, <2>1, <1>2
    <2>3. CASE capture # <<>>
      <3>1. C \in 1 .. Len(capture)
        BY <2>1, <2>3, EmptySeq
      <3> DEFINE e == capture[C] \cup {p}
      <3>2. e \in S
        BY <3>1, <2>1, <1>3, ElementOfSeq
      <3>3. capture' = [capture EXCEPT ![C] = e]
        BY <2>3 DEF NewProject
      <3> HIDE DEF e, S
      <3>4. /\ capture' \in Seq(S) /\ Len(capture') = C
            /\ \A i \in 1 .. C : capture'[i] = IF i = C THEN e ELSE capture[i]
        BY <2>1, <3>1, <3>2, <3>3, ExceptSeq
      <3> QED
        BY <3>4, <2>3 DEF e, S
    <2> QED
      BY <2>2, <2>3
  <1>8. loading' = loading /\ mounts' = mounts /\ raised' = raised
    BY DEF NewProject
  <1> HIDE DEF p, L, C, new
  <1>9. MountingTypeOK'
    BY <1>1, <1>3, <1>5, <1>6, <1>7, <1>8 DEF MountingTypeOK
  <1>10. GuardsFollowCalls'
    BY <1>1, <1>2, <1>6, <1>7, <1>8 DEF GuardsFollowCalls, L, C
  <1>11. NoScriptTwice'
    BY <1>1, <1>2, <1>6 DEF NoScriptTwice, L
  <1>12. ReachInv'
    <2>1. ASSUME NEW i \in 1 .. L, NEW q \in frames'[i].own PROVE q <= p
      <3>1. frames[i].own \in SUBSET (1 .. MaxProjects)
        BY <1>2 DEF Frame
      <3>2. q \in frames[i].own \/ q = p
        BY <1>2, <1>6
      <3>3. q \in frames[i].own => q <= Len(made) /\ q \in Nat
        BY <1>1, <3>1 DEF ReachInv, L
      <3> QED
        BY <3>2, <3>3, <1>2, <1>3
    <2>2. ASSUME NEW i \in 2 .. L PROVE frames'[i].by \in 1 .. p
      BY <1>1, <1>2, <1>3, <1>6 DEF ReachInv, Projects, L
    <2> QED
      BY <2>1, <2>2, <1>5, <1>6 DEF ReachInv, Projects
  <1>13. CapturesAreNew'
    <2> SUFFICES ASSUME NEW i \in 1 .. C, NEW c \in capture'[i]
                 PROVE  /\ frames'[i + 1].by < c
                        /\ c <= p
                        /\ made'[c] = [dir |-> frames'[i + 1].dir, nested |-> TRUE]
                        /\ \A m \in mounts : m.child # c
      BY <1>5, <1>7, <1>8 DEF CapturesAreNew
    <2>1. i + 1 \in 2 .. L /\ frames'[i + 1].dir = frames[i + 1].dir
          /\ frames'[i + 1].by = frames[i + 1].by
      BY <1>2, <1>6
    <2>2. CASE c \in capture[i]
      <3>1. /\ c \in 1 .. Len(made)
            /\ frames[i + 1].by < c
            /\ made[c] = [dir |-> frames[i + 1].dir, nested |-> TRUE]
            /\ \A m \in mounts : m.child # c
        BY <2>2, MadeFacts DEF C
      <3>2. made'[c] = made[c] /\ c <= p
        BY <3>1, <1>2, <1>3, <1>5
      <3> QED
        BY <2>1, <3>1, <3>2
    <2>3. CASE c = p /\ i = C
      <3>1. frames[L].by \in 1 .. Len(made) /\ i + 1 = L /\ capture # <<>>
        BY <2>1, <2>3, <1>1, <1>2, <1>7 DEF ReachInv, Projects, L
      <3>2. \A m \in mounts : m.child # p
        BY <1>4
      <3> QED
        <4>1. made'[c] = [dir |-> frames'[i + 1].dir, nested |-> TRUE]
          BY <2>1, <2>3, <3>1, <1>2, <1>5 DEF new
        <4> QED
          <5>1. frames'[i + 1].by < c /\ c <= p
            BY <2>1, <2>3, <3>1, <1>2, <1>3
          <5> QED
            BY <2>3, <3>2, <4>1, <5>1
    <2> QED
      BY <2>2, <2>3, <1>7
  <1>14. CapturesDisjoint'
    <2>1. \A i \in 1 .. C : p \notin capture[i]
      BY <1>4
    <2>2. \A i, j \in 1 .. C : \A c \in capture[i] : c \in capture[j] => i = j
      BY <1>1 DEF CapturesDisjoint, C
    <2>3. ASSUME NEW i \in 1 .. C, NEW j \in 1 .. C, NEW c \in capture'[i], c \in capture'[j]
          PROVE  i = j
      <3>1. CASE c = p
        BY <3>1, <2>1, <2>3, <1>7
      <3>2. CASE c # p
        BY <3>2, <2>2, <2>3, <1>7
      <3> QED
        BY <3>1, <3>2
    <2> QED
      BY <2>3, <1>7 DEF CapturesDisjoint
  <1>15. MountsFormForest'
    <2>1. ASSUME NEW m \in mounts
          PROVE  m.by < m.child /\ m.child \in 1 .. Len(made)
                 /\ made[m.child] = [dir |-> m.dir, nested |-> TRUE]
      BY MadeFacts
    <2>2. ASSUME NEW m \in mounts
          PROVE  m.by < m.child /\ m.child <= p
                 /\ made'[m.child] = [dir |-> m.dir, nested |-> TRUE]
      BY <2>1, <1>2, <1>3, <1>5
    <2> QED
      BY <2>2, <1>1, <1>5, <1>8 DEF MountsFormForest
  <1> QED
    BY <1>9, <1>10, <1>11, <1>12, <1>13, <1>14, <1>15 DEF MountingInv

LEMMA RunScriptInv ==
    ASSUME MountingInv, NEW p \in Projects, NEW d \in Dirs, RunScript(p, d)
    PROVE  MountingInv'
  <1> DEFINE L == Len(frames)
             C == Len(capture)
             new == [dir |-> d, by |-> p, own |-> {}]
  <1>1. MountingTypeOK /\ GuardsFollowCalls /\ NoScriptTwice /\ ReachInv
        /\ CapturesAreNew /\ CapturesDisjoint /\ MountsFormForest
    BY DEF MountingInv
  <1>2. /\ L \in Nat /\ L >= 1 /\ C = L - 1 /\ C \in Nat /\ Len(loading) = C
        /\ Len(made) \in Nat /\ Len(made) <= MaxProjects
    BY <1>1, StackFacts DEF GuardsFollowCalls, MountingTypeOK
  <1>3. /\ frames' = Append(frames, new) /\ loading' = Append(loading, d)
        /\ capture' = Append(capture, {}) /\ ~IsLoading(d)
        /\ made' = made /\ mounts' = mounts /\ raised' = raised
    BY DEF RunScript
  <1>4. new \in Frame
    BY <1>2, MountingAssumption DEF Frame, Projects
  <1>5. /\ frames' \in Seq(Frame) /\ frames' # <<>> /\ Len(frames') = L + 1
        /\ \A i \in 1 .. L : frames'[i] = frames[i]
        /\ frames'[L + 1] = new
    <2> HIDE DEF new
    <2> QED
      BY <1>1, <1>3, <1>4, AppendProperties DEF MountingTypeOK
  <1>6. /\ loading' \in Seq(Dirs) /\ Len(loading') = C + 1
        /\ \A i \in 1 .. C : loading'[i] = loading[i]
        /\ loading'[C + 1] = d
    BY <1>1, <1>2, <1>3, AppendProperties DEF MountingTypeOK
  <1>7. /\ capture' \in Seq(SUBSET (1 .. MaxProjects)) /\ Len(capture') = C + 1
        /\ \A i \in 1 .. C : capture'[i] = capture[i]
        /\ capture'[C + 1] = {}
    <2>1. capture \in Seq(SUBSET (1 .. MaxProjects)) /\ {} \in SUBSET (1 .. MaxProjects)
      BY <1>1 DEF MountingTypeOK
    <2> QED
      BY <2>1, <1>3, AppendProperties
  <1>8. new.dir = d /\ new.by = p /\ new.own = {} /\ p \in 1 .. Len(made)
    BY DEF Projects
  <1> HIDE DEF L, C, new
  <1>9. MountingTypeOK'
    BY <1>1, <1>3, <1>5, <1>6, <1>7 DEF MountingTypeOK
  <1>10. GuardsFollowCalls'
    <2>1. ASSUME NEW i \in 1 .. C + 1 PROVE loading'[i] = frames'[i + 1].dir
      <3>1. CASE i = C + 1
        BY <3>1, <1>2, <1>5, <1>6, <1>8
      <3>2. CASE i \in 1 .. C
        BY <3>2, <1>1, <1>2, <1>5, <1>6 DEF GuardsFollowCalls, C
      <3> QED
        BY <3>1, <3>2, <1>2
    <2> QED
      BY <2>1, <1>2, <1>5, <1>6, <1>7 DEF GuardsFollowCalls
  <1>11. NoScriptTwice'
    <2>1. \A i \in 2 .. L : frames[i].dir # d
      <3>1. ASSUME NEW i \in 2 .. L PROVE frames[i].dir # d
        <4>1. i - 1 \in 1 .. Len(loading) /\ (i - 1) + 1 = i
          BY <1>2
        <4>2. loading[i - 1] = frames[i].dir
          BY <4>1, <1>1 DEF GuardsFollowCalls
        <4> QED
          BY <4>1, <4>2, <1>3 DEF IsLoading
      <3> QED
        BY <3>1
    <2>2. ASSUME NEW i \in 2 .. L + 1, NEW j \in 2 .. L + 1, frames'[i].dir = frames'[j].dir
          PROVE  i = j
      <3>1. CASE i \in 2 .. L /\ j \in 2 .. L
        BY <2>2, <3>1, <1>1, <1>2, <1>5 DEF NoScriptTwice, L
      <3>2. CASE i = L + 1 \/ j = L + 1
        BY <2>1, <2>2, <3>2, <1>2, <1>5, <1>8
      <3> QED
        BY <3>1, <3>2, <1>2
    <2> QED
      BY <2>2, <1>5 DEF NoScriptTwice
  <1>12. ReachInv'
    <2>1. ASSUME NEW i \in 1 .. L + 1, NEW q \in frames'[i].own PROVE q <= Len(made)
      BY <2>1, <1>1, <1>2, <1>5, <1>8 DEF ReachInv, L
    <2>2. ASSUME NEW i \in 2 .. L + 1 PROVE frames'[i].by \in 1 .. Len(made)
      BY <1>1, <1>2, <1>5, <1>8 DEF ReachInv, Projects, L
    <2> QED
      BY <2>1, <2>2, <1>3, <1>5 DEF ReachInv, Projects
  <1>13. CapturesAreNew'
    <2>1. ASSUME NEW i \in 1 .. C + 1, NEW c \in capture'[i]
          PROVE  /\ frames'[i + 1].by < c
                 /\ c <= Len(made)
                 /\ made[c] = [dir |-> frames'[i + 1].dir, nested |-> TRUE]
                 /\ \A m \in mounts : m.child # c
      <3>1. i \in 1 .. C /\ c \in capture[i] /\ frames'[i + 1] = frames[i + 1]
        BY <1>2, <1>5, <1>7
      <3> QED
        BY <3>1, <1>1 DEF CapturesAreNew, C
    <2> QED
      BY <2>1, <1>3, <1>7 DEF CapturesAreNew
  <1>14. CapturesDisjoint'
    <2>1. ASSUME NEW i \in 1 .. C + 1, NEW j \in 1 .. C + 1,
                 NEW c \in capture'[i], c \in capture'[j]
          PROVE  i = j
      BY <2>1, <1>1, <1>2, <1>7 DEF CapturesDisjoint, C
    <2> QED
      BY <2>1, <1>7 DEF CapturesDisjoint
  <1>15. MountsFormForest'
    BY <1>1, <1>3 DEF MountsFormForest
  <1> QED
    BY <1>9, <1>10, <1>11, <1>12, <1>13, <1>14, <1>15 DEF MountingInv

\* What all ways out of a nested script have in common: the frame above it
\* keeps its script and its parent, and what it can reach is still made.
LEMMA LeaveInv ==
    ASSUME MountingInv, Leave,
           frames' \in Seq(Frame), Len(frames') = Len(frames) - 1,
           \A i \in 1 .. Len(frames) - 1 : /\ frames'[i].dir = frames[i].dir
                                           /\ frames'[i].by = frames[i].by
                                           /\ \A q \in frames'[i].own : q <= Len(made),
           mounts' \in SUBSET Mount, raised' \in BOOLEAN, MountsFormForest',
           \A i \in 1 .. Len(capture) - 1 : \A c \in capture[i] :
                \A m \in mounts' : m.child # c
    PROVE  MountingInv'
  <1> DEFINE L == Len(frames)
             C == Len(capture)
  <1>1. MountingTypeOK /\ GuardsFollowCalls /\ NoScriptTwice /\ ReachInv
        /\ CapturesAreNew /\ CapturesDisjoint
    BY DEF MountingInv
  <1>2. /\ L \in Nat /\ L >= 2 /\ C = L - 1 /\ C \in Nat /\ Len(loading) = C
        /\ Len(made) \in Nat /\ Len(made) <= MaxProjects
    BY <1>1, StackFacts DEF GuardsFollowCalls, MountingTypeOK, Leave, Nested
  <1>3. /\ loading' \in Seq(Dirs) /\ Len(loading') = C - 1
        /\ \A i \in 1 .. C - 1 : loading'[i] = loading[i]
    <2>1. loading' = Popped(loading) /\ loading \in Seq(Dirs) /\ Len(loading) >= 1
      BY <1>1, <1>2 DEF MountingTypeOK, Leave
    <2> QED
      BY <2>1, <1>2, PoppedFacts
  <1>4. /\ capture' \in Seq(SUBSET (1 .. MaxProjects)) /\ Len(capture') = C - 1
        /\ \A i \in 1 .. C - 1 : capture'[i] = capture[i]
    <2> DEFINE S == SUBSET (1 .. MaxProjects)
    <2>1. capture' = Popped(capture) /\ capture \in Seq(S) /\ Len(capture) >= 1
      BY <1>1, <1>2 DEF MountingTypeOK, Leave
    <2> HIDE DEF S
    <2>2. /\ capture' \in Seq(S) /\ Len(capture') = Len(capture) - 1
          /\ \A i \in 1 .. Len(capture) - 1 : capture'[i] = capture[i]
      BY <2>1, PoppedFacts
    <2> QED
      BY <2>2 DEF S
  <1>5. made' = made
    BY DEF Leave
  <1>6. /\ frames' # <<>>
        /\ Len(frames') = L - 1
        /\ \A i \in 1 .. L - 1 : /\ frames'[i].dir = frames[i].dir
                                 /\ frames'[i].by = frames[i].by
                                 /\ \A q \in frames'[i].own : q <= Len(made)
    BY <1>2, EmptySeq
  <1> HIDE DEF L, C
  <1>7. MountingTypeOK'
    BY <1>1, <1>3, <1>4, <1>5, <1>6 DEF MountingTypeOK
  <1>8. GuardsFollowCalls'
    BY <1>1, <1>2, <1>3, <1>4, <1>6 DEF GuardsFollowCalls, C
  <1>9. NoScriptTwice'
    BY <1>1, <1>2, <1>6 DEF NoScriptTwice, L
  <1>10. ReachInv'
    BY <1>1, <1>2, <1>5, <1>6 DEF ReachInv, Projects, L
  <1>11. CapturesAreNew'
    <2>1. ASSUME NEW i \in 1 .. C - 1, NEW c \in capture'[i]
          PROVE  /\ frames'[i + 1].by < c
                 /\ c <= Len(made)
                 /\ made[c] = [dir |-> frames'[i + 1].dir, nested |-> TRUE]
                 /\ \A m \in mounts' : m.child # c
      <3>1. /\ i \in 1 .. C /\ c \in capture[i]
            /\ frames'[i + 1].by = frames[i + 1].by
            /\ frames'[i + 1].dir = frames[i + 1].dir
        BY <1>2, <1>4, <1>6
      <3>2. \A m \in mounts' : m.child # c
        BY <3>1 DEF C
      <3> QED
        BY <3>1, <3>2, <1>1 DEF CapturesAreNew, C
    <2> QED
      BY <2>1, <1>4, <1>5 DEF CapturesAreNew
  <1>12. CapturesDisjoint'
    <2>1. ASSUME NEW i \in 1 .. C - 1, NEW j \in 1 .. C - 1, NEW c \in capture'[i],
                 c \in capture'[j]
          PROVE  i = j
      <3>1. i \in 1 .. C /\ j \in 1 .. C /\ c \in capture[i] /\ c \in capture[j]
        BY <1>2, <1>4, <2>1
      <3> QED
        BY <3>1, <1>1 DEF CapturesDisjoint, C
    <2> QED
      BY <2>1, <1>4 DEF CapturesDisjoint
  <1> QED
    BY <1>7, <1>8, <1>9, <1>10, <1>11, <1>12 DEF MountingInv

\* An exception leaves the script, or it ends without exactly one project.
LEMMA PopInv ==
    ASSUME MountingInv, Leave, frames' = Popped(frames), mounts' = mounts, raised' \in BOOLEAN
    PROVE  MountingInv'
  <1>1. frames \in Seq(Frame) /\ Len(frames) >= 1 /\ Len(frames) \in Nat
    BY StackFacts DEF MountingInv, MountingTypeOK
  <1>2. /\ frames' \in Seq(Frame) /\ Len(frames') = Len(frames) - 1
        /\ \A i \in 1 .. Len(frames) - 1 : frames'[i] = frames[i]
    BY <1>1, PoppedFacts
  <1>3. \A i \in 1 .. Len(frames) - 1 : \A q \in frames'[i].own : q <= Len(made)
    BY <1>1, <1>2 DEF MountingInv, ReachInv
  <1>4. MountsFormForest' /\ mounts' \in SUBSET Mount
    BY DEF MountingInv, MountsFormForest, MountingTypeOK, Leave
  <1>5. \A i \in 1 .. Len(capture) - 1 : \A c \in capture[i] : \A m \in mounts' : m.child # c
    <2>1. Len(capture) \in Nat
      BY StackFacts DEF MountingInv
    <2>2. \A i \in 1 .. Len(capture) : \A c \in capture[i] : \A m \in mounts : m.child # c
      BY MadeFacts
    <2> QED
      BY <2>1, <2>2
  <1> QED
    BY <1>2, <1>3, <1>4, <1>5, LeaveInv

LEMMA EndScriptInv == MountingInv /\ EndScript => MountingInv'
  <1> SUFFICES ASSUME MountingInv, EndScript PROVE MountingInv'
    OBVIOUS
  <1> DEFINE L == Len(frames)
             C == Len(capture)
  <1>1. PICK child \in Captured :
            /\ mounts' = mounts \cup {[by |-> Top.by, dir |-> Top.dir, child |-> child]}
            /\ frames' = [Popped(frames) EXCEPT ![Len(frames) - 1].own = @ \cup {child}]
    BY DEF EndScript
  <1>2. Leave /\ raised' = raised /\ made' = made
    BY DEF EndScript, Leave
  <1>3. /\ L \in Nat /\ L >= 2 /\ C = L - 1 /\ C \in Nat /\ Len(made) \in Nat
        /\ Top = frames[C + 1] /\ Top \in Frame /\ frames \in Seq(Frame)
        /\ Captured = capture[C] /\ C \in 1 .. Len(capture)
    BY <1>2, StackFacts
    DEF MountingInv, GuardsFollowCalls, MountingTypeOK, Leave, Nested, Top, Captured
  <1>4. /\ child \in 1 .. Len(made)
        /\ Top.by < child
        /\ made[child] = [dir |-> Top.dir, nested |-> TRUE]
        /\ \A m \in mounts : m.child # child
    BY <1>1, <1>3, MadeFacts
  <1>5. child \in 1 .. MaxProjects
    BY <1>4, <1>3 DEF MountingInv, MountingTypeOK
  <1>6. /\ frames' \in Seq(Frame) /\ Len(frames') = L - 1
        /\ \A i \in 1 .. L - 1 : /\ frames'[i].dir = frames[i].dir
                                 /\ frames'[i].by = frames[i].by
                                 /\ \A q \in frames'[i].own : q <= Len(made)
    <2> DEFINE P == Popped(frames)
               f == [P[C] EXCEPT !.own = @ \cup {child}]
    <2>1. /\ P \in Seq(Frame) /\ Len(P) = C
          /\ \A i \in 1 .. C : P[i] = frames[i]
      BY <1>3, PoppedFacts
    <2>2. frames' = [P EXCEPT ![C] = f]
      BY <1>1, <1>3
    <2> HIDE DEF P
    <2>3. P[C] = frames[C] /\ frames[C] \in Frame
      BY <1>3, <2>1, ElementOfSeq
    <2>4. f \in Frame /\ f.dir = frames[C].dir /\ f.by = frames[C].by
          /\ f.own = frames[C].own \cup {child}
      BY <2>3, <1>5 DEF Frame
    <2> HIDE DEF f
    <2>5. C \in 1 .. Len(P)
      BY <1>3, <2>1
    <2>6. /\ frames' \in Seq(Frame) /\ Len(frames') = Len(P)
          /\ \A j \in 1 .. Len(P) : frames'[j] = IF j = C THEN f ELSE P[j]
      BY <2>1, <2>2, <2>4, <2>5, ExceptSeq
    <2>7. \A i \in 1 .. L : \A q \in frames[i].own : q <= Len(made)
      BY DEF MountingInv, ReachInv
    <2>8. child <= Len(made)
      BY <1>3, <1>4
    <2>9. ASSUME NEW i \in 1 .. C
          PROVE  /\ frames'[i].dir = frames[i].dir
                 /\ frames'[i].by = frames[i].by
                 /\ \A q \in frames'[i].own : q <= Len(made)
      <3>1. CASE i = C
        BY <3>1, <1>3, <2>1, <2>4, <2>6, <2>7, <2>8
      <3>2. CASE i # C
        <4>1. i \in 1 .. Len(P) /\ i \in 1 .. L
          BY <1>3, <2>1
        <4>2. frames'[i] = frames[i]
          BY <3>2, <4>1, <2>1, <2>6
        <4> QED
          BY <4>1, <4>2, <2>7
      <3> QED
        BY <3>1, <3>2
    <2> QED
      BY <1>3, <2>1, <2>6, <2>9
  <1> DEFINE e == [by |-> Top.by, dir |-> Top.dir, child |-> child]
  <1>7. Top.by \in 1 .. MaxProjects
    <2>1. Top.by \in Projects
      BY <1>3 DEF MountingInv, ReachInv
    <2>2. Len(made) <= MaxProjects /\ MaxProjects \in Nat
      BY MountingAssumption DEF MountingInv, MountingTypeOK
    <2> QED
      BY <2>1, <2>2, <1>3 DEF Projects
  <1>8. e \in Mount /\ e.by = Top.by /\ e.dir = Top.dir /\ e.child = child
    BY <1>3, <1>5, <1>7 DEF Mount, Frame
  <1>9. mounts' = mounts \cup {e}
    BY <1>1
  <1> HIDE DEF e
  <1>10. mounts' \in SUBSET Mount /\ raised' \in BOOLEAN
    BY <1>2, <1>8, <1>9 DEF MountingInv, MountingTypeOK
  <1>11. MountsFormForest'
    <2>1. ASSUME NEW m \in mounts'
          PROVE  m.by < m.child /\ m.child <= Len(made)
                 /\ made[m.child] = [dir |-> m.dir, nested |-> TRUE]
      <3>1. CASE m \in mounts
        BY <3>1 DEF MountingInv, MountsFormForest
      <3>2. CASE m = e
        BY <3>2, <1>3, <1>4, <1>8
      <3> QED
        BY <3>1, <3>2, <1>9
    <2>2. ASSUME NEW m \in mounts', NEW other \in mounts', m.child = other.child
          PROVE  m = other
      <3>1. CASE m \in mounts /\ other \in mounts
        BY <2>2, <3>1 DEF MountingInv, MountsFormForest
      <3>2. CASE m = e \/ other = e
        BY <2>2, <3>2, <1>4, <1>8, <1>9
      <3> QED
        BY <3>1, <3>2, <1>9
    <2> QED
      BY <2>1, <2>2, <1>2 DEF MountsFormForest
  <1>12. \A i \in 1 .. C - 1 : \A c \in capture[i] : \A m \in mounts' : m.child # c
    <2>1. ASSUME NEW i \in 1 .. C - 1, NEW c \in capture[i], NEW m \in mounts'
          PROVE  m.child # c
      <3>1. i \in 1 .. Len(capture) /\ i # C
        BY <1>3
      <3>2. CASE m \in mounts
        BY <3>1, <3>2 DEF MountingInv, CapturesAreNew
      <3>3. CASE m = e
        \* the child is in the innermost capture only
        BY <3>1, <3>3, <1>1, <1>3, <1>8 DEF MountingInv, CapturesDisjoint
      <3> QED
        BY <3>2, <3>3, <1>9
    <2> QED
      BY <2>1
  <1> HIDE DEF L, C
  <1> QED
    BY <1>2, <1>6, <1>10, <1>11, <1>12, LeaveInv DEF L, C

LEMMA MountingStepInv == MountingInv /\ [MountingNext]_mountingVars => MountingInv'
  <1> SUFFICES ASSUME MountingInv, [MountingNext]_mountingVars PROVE MountingInv'
    OBVIOUS
  <1>1. CASE NewProject
    BY <1>1, NewProjectInv
  <1>2. ASSUME UNCHANGED <<frames, loading, capture, made, mounts>>, raised' \in BOOLEAN
        PROVE  MountingInv'
    BY <1>2 DEF MountingInv, MountingTypeOK, GuardsFollowCalls, NoScriptTwice, ReachInv,
        Projects, CapturesAreNew, CapturesDisjoint, MountsFormForest
  <1>3. ASSUME NEW p \in Projects, NEW d \in Dirs, RefuseMount(p, d) PROVE MountingInv'
    BY <1>2, <1>3 DEF RefuseMount
  <1>4. ASSUME NEW p \in Projects, NEW d \in Dirs, RunScript(p, d) PROVE MountingInv'
    BY <1>4, RunScriptInv
  <1>5. CASE EndScript
    BY <1>5, EndScriptInv
  <1>6. CASE EndScriptWrongly
    BY <1>6, PopInv DEF EndScriptWrongly
  <1>7. CASE ScriptFails
    BY <1>2, <1>7 DEF ScriptFails
  <1>8. CASE Unwind
    <2>1. raised' \in BOOLEAN
      BY <1>8 DEF Unwind, MountingInv, MountingTypeOK
    <2> QED
      BY <2>1, <1>8, PopInv DEF Unwind
  <1>9. CASE Catch
    BY <1>2, <1>9 DEF Catch
  <1>10. CASE UNCHANGED mountingVars
    <2>1. raised' \in BOOLEAN
      BY <1>10 DEF mountingVars, MountingInv, MountingTypeOK
    <2> QED
      BY <2>1, <1>2, <1>10 DEF mountingVars
  <1> QED
    BY <1>1, <1>3, <1>4, <1>5, <1>6, <1>7, <1>8, <1>9, <1>10 DEF MountingNext

-----------------------------------------------------------------------------
(* The theorems.                                                           *)

LEMMA MountingInvariant == MountingSpec => []MountingInv
  BY MountingInitInv, MountingStepInv, PTL DEF MountingSpec

\* The stacks hold what they are declared to hold, and the module never makes
\* more projects than the bound.
THEOREM MountingTyped == MountingSpec => []MountingTypeOK
  <1>1. MountingInv => MountingTypeOK
    BY DEF MountingInv
  <1> QED
    BY <1>1, MountingInvariant, PTL

\* However build scripts nest, fail, and catch the failures of those they
\* mount, the two stacks of _context.py hold what Python's own stack holds.
THEOREM StacksFollowCalls == MountingSpec => []GuardsFollowCalls
  <1>1. MountingInv => GuardsFollowCalls
    BY DEF MountingInv
  <1> QED
    BY <1>1, MountingInvariant, PTL

\* add_subproject() never runs a script that runs already, so the recursion of
\* the scripts ends on any graph of directories that mount each other.
THEOREM ScriptsDoNotRecurse == MountingSpec => []NoScriptTwice
  <1>1. MountingInv => NoScriptTwice
    BY DEF MountingInv
  <1> QED
    BY <1>1, MountingInvariant, PTL

\* The projects that mount each other form a forest, so that what freeze() and
\* the emitter recurse over is finite and no project is emitted for two parents.
THEOREM MountsAreForest == MountingSpec => []MountsFormForest
  <1>1. MountingInv => MountsFormForest
    BY DEF MountingInv
  <1> QED
    BY <1>1, MountingInvariant, PTL

-----------------------------------------------------------------------------
(* The tree of a project, by induction from the older projects to the       *)
(* younger ones.                                                           *)

LEMMA LeastNatural ==
    ASSUME NEW T \in SUBSET Nat, T # {}
    PROVE  \E n \in T : \A m \in T : n <= m
  <1> DEFINE R == {ss \in Nat \X Nat : ss[1] < ss[2]}
  <1>1. IsWellFoundedOn(R, Nat)
    BY NatLessThanWellFounded DEF OpToRel
  <1> HIDE DEF R
  <1>2. PICK n \in T : \A m \in T : <<m, n>> \notin R
    BY <1>1, WFMin
  <1>3. ASSUME NEW m \in T PROVE n <= m
    <2>1. m \in Nat /\ n \in Nat /\ <<m, n>> \in Nat \X Nat
      OBVIOUS
    <2>2. ~(m < n)
      BY <1>2, <2>1 DEF R
    <2> QED
      BY <2>1, <2>2
  <1> QED
    BY <1>3

LEMMA MountFacts ==
    ASSUME MountingInv, NEW m \in mounts
    PROVE  m.by \in Projects /\ m.child \in Projects /\ m.by < m.child /\ Projects \subseteq Nat
  <1>1. Len(made) \in Nat /\ m \in Mount
    BY StackFacts DEF MountingInv, MountingTypeOK
  <1>2. m.by < m.child /\ m.child \in 1 .. Len(made)
    BY MadeFacts
  <1>3. m.by \in Nat /\ m.by >= 1
    <2>1. MaxProjects \in Nat /\ m.by \in 1 .. MaxProjects
      BY <1>1, MountingAssumption DEF Mount
    <2> QED
      BY <2>1
  <1> QED
    BY <1>1, <1>2, <1>3 DEF Projects

\* The recursive definition in Tree has a solution: the projects that are in
\* every set with p and the children of its members.
LEMMA TreeIsDefined ==
    ASSUME MountingInv, NEW p \in Projects
    PROVE  \E f : f = [q \in Projects |->
                          q = p \/ \E m \in mounts : m.child = q /\ m.by < q /\ f[m.by]]
  <1> DEFINE Closed(S) == p \in S /\ \A m \in mounts : m.by \in S => m.child \in S
             R == {q \in Projects : \A S \in SUBSET Projects : Closed(S) => q \in S}
             Step == {q \in Projects : q = p \/ \E m \in mounts : m.child = q /\ m.by \in R}
             f == [q \in Projects |-> q \in R]
  <1>1. Step \subseteq R
    OBVIOUS
  <1>2. Closed(Step)
    BY <1>1, MountFacts
  <1>3. R = Step
    <2>1. Step \in SUBSET Projects
      OBVIOUS
    <2> HIDE DEF Step
    <2> QED
      BY <1>1, <1>2, <2>1
  <1>4. \A q \in Projects :
            q \in R <=> q = p \/ \E m \in mounts : m.child = q /\ m.by < q /\ f[m.by]
    <2>1. \A m \in mounts : f[m.by] <=> m.by \in R
      BY MountFacts
    <2>2. \A q \in Projects : q \in Step <=> q = p \/ \E m \in mounts : m.child = q /\ m.by \in R
      OBVIOUS
    <2> HIDE DEF R, Step, f
    <2> QED
      BY <1>3, <2>1, <2>2, MountFacts
  <1>5. f = [q \in Projects |->
                q = p \/ \E m \in mounts : m.child = q /\ m.by < q /\ f[m.by]]
    <2> DEFINE g == [q \in Projects |->
                       q = p \/ \E m \in mounts : m.child = q /\ m.by < q /\ f[m.by]]
    <2>1. ASSUME NEW q \in Projects PROVE f[q] = g[q]
      <3>1. f[q] = (q \in R)
        BY DEF f
      <3>2. g[q] = (q = p \/ \E m \in mounts : m.child = q /\ m.by < q /\ f[m.by])
        OBVIOUS
      <3> HIDE DEF R, f, g
      <3> QED
        BY <3>1, <3>2, <1>4
    <2>2. f = [q \in Projects |-> f[q]] /\ g = [q \in Projects |-> g[q]]
      OBVIOUS
    <2> HIDE DEF f, g
    <2>3. f = g
      BY <2>1, <2>2
    <2> QED
      BY <2>3 DEF g
  <1> QED
    BY <1>5

LEMMA TreeFacts ==
    ASSUME MountingInv, NEW p \in Projects
    PROVE  /\ Tree(p) \subseteq Projects
           /\ p \in Tree(p)
           /\ \A m \in mounts : m.by \in Tree(p) => m.child \in Tree(p)
           /\ \A q \in Tree(p) : q = p \/ \E m \in mounts : m.child = q /\ m.by \in Tree(p)
  <1> DEFINE Eqn(f) == f = [q \in Projects |->
                              q = p \/ \E m \in mounts : m.child = q /\ m.by < q /\ f[m.by]]
  <1>1. \E f : Eqn(f)
    BY TreeIsDefined
  <1>2. Tree(p) = {q \in Projects : (CHOOSE f : Eqn(f))[q]}
    BY DEF Tree
  <1>3. PICK f : Eqn(f) /\ Tree(p) = {q \in Projects : f[q]}
    BY <1>1, <1>2
  <1>4. \A q \in Projects :
            q \in Tree(p) <=> q = p \/ \E m \in mounts : m.child = q /\ m.by < q /\ f[m.by]
    BY <1>3
  <1> QED
    BY <1>3, <1>4, MountFacts

LEMMA TreeInduction ==
    ASSUME MountingInv, NEW p \in Projects, NEW S, p \in S,
           \A m \in mounts : m.by \in Tree(p) /\ m.by \in S => m.child \in S
    PROVE  Tree(p) \subseteq S
  <1> DEFINE T == {q \in Tree(p) : q \notin S}
  <1> SUFFICES ASSUME T # {} PROVE FALSE
    OBVIOUS
  <1>1. Tree(p) \subseteq Nat
    BY TreeFacts, StackFacts DEF MountingInv, Projects
  <1>2. PICK n \in T : \A q \in T : n <= q
    <2>1. T \in SUBSET Nat
      BY <1>1
    <2> QED
      BY <2>1, LeastNatural
  <1>3. PICK m \in mounts : m.child = n /\ m.by \in Tree(p)
    BY TreeFacts
  <1>4. m.by < n /\ m.by \in Nat /\ n \in Nat
    BY <1>1, <1>3, MountFacts
  <1>5. m.by \notin T
    BY <1>2, <1>4
  <1> QED
    BY <1>3, <1>5

LEMMA TreesNest ==
    ASSUME MountingInv, NEW p \in Projects, NEW q \in Tree(p)
    PROVE  p <= q /\ q \in Projects /\ Tree(q) \subseteq Tree(p)
  <1>1. Projects \subseteq Nat /\ Tree(p) \subseteq Projects
    BY TreeFacts, StackFacts DEF MountingInv, Projects
  <1>2. Tree(p) \subseteq {r \in Nat : p <= r}
    <2>1. p \in {r \in Nat : p <= r}
      BY <1>1
    <2>2. ASSUME NEW m \in mounts, m.by \in {r \in Nat : p <= r}
          PROVE  m.child \in {r \in Nat : p <= r}
      <3>1. m.by < m.child /\ m.by \in Nat /\ m.child \in Nat /\ p \in Nat
        BY <1>1, MountFacts
      <3> QED
        BY <2>2, <3>1
    <2> QED
      BY <2>1, <2>2, TreeInduction
  <1>3. Tree(q) \subseteq Tree(p)
    BY <1>1, TreeFacts, TreeInduction
  <1> QED
    BY <1>1, <1>2, <1>3

\* A tree is its root and the trees of its root's children.
LEMMA TreeFromKids ==
    ASSUME MountingInv, NEW p \in Projects, NEW q \in Tree(p), q # p
    PROVE  \E m \in Kids(p) : q \in Tree(m.child)
  <1> DEFINE S == {p} \cup {r \in Projects : \E m \in Kids(p) : r \in Tree(m.child)}
  <1>1. ASSUME NEW m \in mounts, m.by \in S PROVE m.child \in S
    <2>1. m.by \in Projects /\ m.child \in Projects
      BY MountFacts
    <2>2. CASE m.by = p
      BY <2>1, <2>2, TreeFacts DEF Kids
    <2>3. CASE m.by # p
      <3>1. PICK k \in Kids(p) : m.by \in Tree(k.child)
        BY <1>1, <2>3
      <3>2. k.child \in Projects
        BY MountFacts DEF Kids
      <3> QED
        BY <2>1, <3>1, <3>2, TreeFacts
    <2> QED
      BY <2>2, <2>3
  <1>2. Tree(p) \subseteq S
    BY <1>1, TreeInduction
  <1> QED
    BY <1>2

LEMMA TreesAreKept ==
    ASSUME UNCHANGED <<made, mounts>>
    PROVE  Projects' = Projects /\ \A p : Tree(p)' = Tree(p) /\ Kids(p)' = Kids(p)
  BY DEF Projects, Tree, Kids

-----------------------------------------------------------------------------
(* The invariant of a build: what collecting the packages and reading the   *)
(* list files keeps true of the tree of projects.                          *)

Phases == {"describing", "frozen", "resolving", "reading", "configured", "rejected", "refused"}

ListFile ==
    [project : Nat, at : {"defaults", "packages", "subprojects"}, pic : BOOLEAN,
     found : SUBSET Packages]

\* There is a project to build, with its contents, once build() was called.
FrontTypeOK ==
    /\ phase \in Phases
    /\ phase # "describing" => root \in Projects /\ content \in [Tree(root) -> Contents]
    /\ installed \in SUBSET Packages
    /\ phase # "describing" => pending \subseteq Tree(root)
    /\ chosen \in [Packages -> Versions \cup {0}]
    /\ reading \in Seq(ListFile)
    /\ fetched \in [Packages -> [by : Nat, pic : BOOLEAN]]
    /\ buildType \in BuildTypes \cup {0}

\* Nothing is read before the lists are written.
OrderInv ==
    /\ phase \in {"describing", "frozen"} =>
            pending = {} /\ chosen = [k \in Packages |-> 0]
    /\ ~Emitted => reading = <<>> /\ buildType = 0 /\ fetched = [k \in Packages |-> NotFetched]
    /\ Emitted => pending = {}
    /\ phase = "reading" => reading # <<>>
    /\ \A i \in 1 .. Len(reading) : reading[i].project \in Tree(root)

\* What is chosen is what a project needs, and whoever's packages are not
\* chosen yet will be visited.
CollectInv ==
    phase = "resolving" \/ Emitted =>
        /\ Accepted
        /\ \A k \in Packages :
                chosen[k] # 0 => \E q \in Tree(root) : content[q].needs[k] = chosen[k]
        /\ \A q \in Tree(root) :
                (\A k \in Needed(q) : chosen[k] # 0) \/ \E p \in pending : q \in Tree(p)

\* Position-independent code is on in every directory at or below a project
\* with a shared object, up to the section that switches it on, and on for
\* all that was fetched there.
PICInv ==
    /\ \A i \in 1 .. Len(reading), p \in Tree(root) :
            content[p].shared /\ reading[i].project \in Tree(p) =>
                reading[i].pic \/ (reading[i].at = "defaults" /\ reading[i].project = p)
    /\ \A k \in Packages, p \in Tree(root) :
            content[p].shared /\ fetched[k].by \in Tree(p) => fetched[k].pic

\* The root's defaults are read before any other list file.
RootFirst ==
    /\ reading # <<>> => reading[1].project = root
    /\ reading # <<>> /\ reading[1].at = "defaults" => Len(reading) = 1 /\ buildType = 0
    /\ (reading # <<>> /\ reading[1].at # "defaults") \/ phase = "configured" =>
            content[root].optimize \in {0, buildType}

FrontInv ==
    /\ MountingInv
    /\ FrontTypeOK
    /\ OrderInv
    /\ CollectInv
    /\ PackagesBeforeTargets
    /\ PICInv
    /\ RootFirst

LEMMA BuildIsKept ==
    ASSUME FrontInv, UNCHANGED <<root, content, mountingVars>>
    PROVE  /\ MountingInv'
           /\ Tree(root)' = Tree(root) /\ Projects' = Projects /\ (Accepted <=> Accepted')
           /\ \A p : Tree(p)' = Tree(p) /\ Kids(p)' = Kids(p) /\ Needed(p)' = Needed(p)
  <1>1. MountingInv'
    <2>1. MountingInv /\ [MountingNext]_mountingVars
      BY DEF FrontInv
    <2> QED
      BY <2>1, MountingStepInv
  <1>2. Tree(root)' = Tree(root) /\ Projects' = Projects
    BY DEF Tree, Projects, mountingVars
  <1>3. \A p : Tree(p)' = Tree(p) /\ Kids(p)' = Kids(p) /\ Needed(p)' = Needed(p)
    BY DEF Tree, Projects, Kids, Needed, mountingVars
  <1>4. Accepted' <=> Accepted
    BY DEF Accepted, MountsAreSound, OneManager, VersionsAgree, Tree, Kids, Needed, Projects,
        mountingVars
  <1> QED
    BY <1>1, <1>2, <1>3, <1>4

LEMMA ContentFacts ==
    ASSUME FrontInv, phase # "describing"
    PROVE  /\ root \in Projects /\ root \in Tree(root) /\ Tree(root) \subseteq Projects
           /\ Projects \subseteq Nat \ {0}
           /\ \A q \in Tree(root) : content[q] \in Content
           /\ \A q \in Tree(root), k \in Packages : content[q].needs[k] \in Versions \cup {0}
           /\ \A q \in Tree(root) : /\ content[q].optimize \in BuildTypes \cup {0}
                                    /\ content[q].shared \in BOOLEAN
  <1>1. root \in Projects /\ content \in [Tree(root) -> Contents] /\ MountingInv
    BY DEF FrontInv, FrontTypeOK
  <1>2. root \in Tree(root) /\ Tree(root) \subseteq Projects
    BY <1>1, TreeFacts
  <1>3. Projects \subseteq Nat \ {0}
    BY <1>1, StackFacts DEF MountingInv, Projects
  <1>4. \A q \in Tree(root) : content[q] \in Content
    BY <1>1, FrontEndAssumption
  <1> QED
    BY <1>1, <1>2, <1>3, <1>4 DEF Content

LEMMA FileFacts ==
    ASSUME FrontInv, phase = "reading"
    PROVE  /\ Len(reading) \in Nat /\ Len(reading) >= 1
           /\ \A i \in 1 .. Len(reading) : reading[i] \in ListFile
           /\ File \in ListFile /\ File = reading[Len(reading)]
           /\ File.project \in Tree(root)
           /\ reading \in Seq(ListFile) /\ reading # <<>>
  <1>1. reading \in Seq(ListFile) /\ reading # <<>>
    BY DEF FrontInv, FrontTypeOK, OrderInv
  <1>2. Len(reading) \in Nat /\ Len(reading) >= 1
    BY <1>1, EmptySeq
  <1>3. \A i \in 1 .. Len(reading) : reading[i] \in ListFile
    BY <1>1, ElementOfSeq
  <1>4. Len(reading) \in 1 .. Len(reading)
    BY <1>2
  <1> QED
    BY <1>1, <1>2, <1>3, <1>4 DEF File, FrontInv, OrderInv

\* What every step of CMake keeps, whatever it reads.
LEMMA ReadingStepInv ==
    ASSUME FrontInv, phase = "reading",
           UNCHANGED <<root, content, pending, chosen, installed, mountingVars>>,
           reading' \in Seq(ListFile),
           \A i \in 1 .. Len(reading') : reading'[i].project \in Tree(root),
           phase' \in {"reading", "configured", "refused"},
           phase' = "reading" => reading' # <<>>,
           fetched' \in [Packages -> [by : Nat, pic : BOOLEAN]],
           buildType' \in BuildTypes \cup {0}
    PROVE  MountingInv' /\ FrontTypeOK' /\ OrderInv' /\ CollectInv'
  <1>1. /\ MountingInv'
        /\ Tree(root)' = Tree(root) /\ Projects' = Projects /\ (Accepted <=> Accepted')
        /\ \A p : Tree(p)' = Tree(p) /\ Kids(p)' = Kids(p) /\ Needed(p)' = Needed(p)
    BY BuildIsKept
  <1>2. Emitted /\ Emitted'
    BY DEF Emitted
  <1>3. FrontTypeOK'
    BY <1>1 DEF FrontInv, FrontTypeOK, Phases
  <1>4. OrderInv'
    BY <1>1, <1>2 DEF FrontInv, OrderInv
  <1>5. CollectInv'
    BY <1>1, <1>2 DEF FrontInv, CollectInv
  <1> QED
    BY <1>1, <1>3, <1>4, <1>5

LEMMA FrontInitInv == Init => FrontInv
  <1> SUFFICES ASSUME Init PROVE FrontInv
    OBVIOUS
  <1>1. MountingInv
    BY MountingInitInv DEF Init
  <1>2. NotFetched \in [by : Nat, pic : BOOLEAN] /\ NotFetched.by = 0
    BY DEF NotFetched
  <1>3. FrontTypeOK
    BY <1>2, EmptySeq DEF Init, FrontTypeOK, Phases
  <1>4. Len(reading) = 0 /\ ~Emitted
    BY DEF Init, Emitted
  <1>5. OrderInv /\ PackagesBeforeTargets /\ RootFirst /\ CollectInv
    BY <1>4 DEF Init, OrderInv, PackagesBeforeTargets, RootFirst, CollectInv
  <1>6. PICInv
    <2>1. Projects = {}
      BY <1>1, StackFacts DEF Init, MountingInit, Projects
    <2>2. Tree(root) = {}
      BY <2>1 DEF Tree
    <2> QED
      BY <1>4, <2>2 DEF PICInv
  <1> QED
    BY <1>1, <1>3, <1>5, <1>6 DEF FrontInv

\* While nothing is read, PICInv says nothing: what is not fetched was fetched
\* by none of the projects, which count from 1.
LEMMA NothingRead ==
    ASSUME MountingInv, reading = <<>>, fetched = [k \in Packages |-> NotFetched]
    PROVE  PackagesBeforeTargets /\ PICInv
  <1>1. Len(reading) = 0
    OBVIOUS
  <1>2. ASSUME NEW k \in Packages, NEW p PROVE fetched[k].by \notin Tree(p)
    <2>1. fetched[k].by = 0
      BY DEF NotFetched
    <2>2. Tree(p) \subseteq Projects
      BY DEF Tree
    <2>3. 0 \notin Projects
      BY StackFacts DEF MountingInv, Projects
    <2> QED
      BY <2>1, <2>2, <2>3
  <1> QED
    BY <1>1, <1>2 DEF PackagesBeforeTargets, PICInv

LEMMA NothingReadNext ==
    (MountingInv /\ reading = <<>> /\ fetched = [k \in Packages |-> NotFetched])' =>
        (PackagesBeforeTargets /\ PICInv)'
  <1>1. MountingInv /\ reading = <<>> /\ fetched = [k \in Packages |-> NotFetched] =>
            PackagesBeforeTargets /\ PICInv
    BY NothingRead
  <1> QED
    BY <1>1, PTL

LEMMA DescribeInv == FrontInv /\ Describe => FrontInv'
  <1> SUFFICES ASSUME FrontInv, Describe PROVE FrontInv'
    OBVIOUS
  <1>1. MountingInv'
    <2>1. MountingInv /\ [MountingNext]_mountingVars
      BY DEF FrontInv, Describe
    <2> QED
      BY <2>1, MountingStepInv
  <1>2. /\ phase = "describing" /\ phase' = phase /\ reading' = reading /\ fetched' = fetched
        /\ buildType' = buildType /\ chosen' = chosen /\ pending' = pending
        /\ installed' = installed
    BY DEF Describe, frontVars, tools
  <1>3. ~Emitted /\ ~Emitted'
    BY <1>2 DEF Emitted
  <1>4. FrontTypeOK'
    BY <1>2 DEF FrontInv, FrontTypeOK
  <1>5. /\ reading' = <<>> /\ fetched' = [k \in Packages |-> NotFetched]
        /\ OrderInv' /\ CollectInv' /\ RootFirst'
    <2>1. reading' = <<>> /\ Len(reading') = 0 /\ buildType' = 0
          /\ fetched' = [k \in Packages |-> NotFetched]
      BY <1>2, <1>3 DEF FrontInv, OrderInv
    <2>2. pending' = {} /\ chosen' = [k \in Packages |-> 0]
      BY <1>2 DEF FrontInv, OrderInv
    <2> QED
      BY <1>2, <1>3, <2>1, <2>2 DEF OrderInv, CollectInv, RootFirst
  <1>6. PackagesBeforeTargets' /\ PICInv'
    BY <1>1, <1>5, NothingReadNext
  <1> QED
    BY <1>1, <1>4, <1>5, <1>6 DEF FrontInv

LEMMA BuildInv == ASSUME FrontInv, NEW p \in Projects, Build(p) PROVE FrontInv'
  <1>1. MountingInv'
    <2>1. MountingInv /\ [MountingNext]_mountingVars
      BY DEF FrontInv, Build
    <2> QED
      BY <2>1, MountingStepInv
  <1>2. /\ phase = "describing" /\ phase' = "frozen" /\ reading' = reading /\ fetched' = fetched
        /\ buildType' = buildType /\ chosen' = chosen /\ pending' = pending
        /\ installed' \in SUBSET Packages /\ root' = p /\ content' \in [Tree(p) -> Contents]
    BY DEF Build
  <1>3. ~Emitted /\ ~Emitted'
    BY <1>2 DEF Emitted
  <1>4. /\ reading' = <<>> /\ Len(reading') = 0 /\ buildType' = 0
        /\ fetched' = [k \in Packages |-> NotFetched]
        /\ pending' = {} /\ chosen' = [k \in Packages |-> 0]
    BY <1>2, <1>3 DEF FrontInv, OrderInv
  <1>5. FrontTypeOK'
    <2>1. Projects' = Projects /\ Tree(p)' = Tree(p) /\ Tree(root)' = Tree(p)'
      BY <1>2 DEF Build, mountingVars, Projects, Tree
    <2> QED
      BY <1>2, <1>4, <2>1 DEF FrontInv, FrontTypeOK, Phases
  <1>6. OrderInv' /\ CollectInv' /\ RootFirst'
    BY <1>2, <1>3, <1>4 DEF OrderInv, CollectInv, RootFirst
  <1>7. PackagesBeforeTargets' /\ PICInv'
    BY <1>1, <1>4, NothingReadNext
  <1> QED
    BY <1>1, <1>5, <1>6, <1>7 DEF FrontInv

LEMMA ValidateInv == FrontInv /\ Validate => FrontInv'
  <1> SUFFICES ASSUME FrontInv, Validate PROVE FrontInv'
    OBVIOUS
  <1>1. /\ phase = "frozen" /\ phase' = IF Accepted THEN "resolving" ELSE "rejected"
        /\ pending' = IF Accepted THEN {root} ELSE {}
        /\ UNCHANGED <<root, content, chosen, installed, reading, fetched, buildType, mountingVars>>
    BY DEF Validate, tools
  <1>2. /\ MountingInv'
        /\ Tree(root)' = Tree(root) /\ Projects' = Projects /\ (Accepted <=> Accepted')
        /\ \A p : Tree(p)' = Tree(p) /\ Kids(p)' = Kids(p) /\ Needed(p)' = Needed(p)
    BY <1>1, BuildIsKept
  <1>3. ~Emitted /\ ~Emitted'
    BY <1>1 DEF Emitted
  <1>4. root \in Tree(root) /\ root \in Projects
    BY <1>1, ContentFacts
  <1>5. FrontTypeOK'
    BY <1>1, <1>2, <1>4 DEF FrontInv, FrontTypeOK, Phases
  <1>6. /\ reading' = <<>> /\ Len(reading') = 0 /\ buildType' = 0
        /\ fetched' = [k \in Packages |-> NotFetched] /\ chosen' = [k \in Packages |-> 0]
    BY <1>1, <1>3 DEF FrontInv, OrderInv
  <1>7. OrderInv' /\ RootFirst'
    BY <1>1, <1>3, <1>6 DEF OrderInv, RootFirst
  <1>8. CollectInv'
    BY <1>1, <1>2, <1>3, <1>6 DEF CollectInv
  <1>9. PackagesBeforeTargets' /\ PICInv'
    BY <1>2, <1>6, NothingReadNext
  <1> QED
    BY <1>2, <1>5, <1>7, <1>8, <1>9 DEF FrontInv

\* A visited project leaves its children in its place, whose trees cover its
\* own.
LEMMA CollectStepInv == ASSUME FrontInv, NEW p \in Projects, Collect(p) PROVE FrontInv'
  <1>1. /\ phase = "resolving" /\ phase' = phase /\ p \in pending
        /\ chosen' = Merged(p) /\ pending' = (pending \ {p}) \cup {m.child : m \in Kids(p)}
        /\ UNCHANGED <<root, content, installed, reading, fetched, buildType, mountingVars>>
    BY DEF Collect, tools
  <1>2. /\ MountingInv'
        /\ Tree(root)' = Tree(root) /\ Projects' = Projects /\ (Accepted <=> Accepted')
        /\ \A q : Tree(q)' = Tree(q) /\ Kids(q)' = Kids(q) /\ Needed(q)' = Needed(q)
    BY <1>1, BuildIsKept
  <1>3. ~Emitted /\ ~Emitted'
    BY <1>1 DEF Emitted
  <1>4. MountingInv /\ root \in Projects /\ p \in Tree(root) /\ pending \subseteq Tree(root)
    BY <1>1 DEF FrontInv, FrontTypeOK
  <1>5. /\ chosen \in [Packages -> Versions \cup {0}]
        /\ \A k \in Packages : content[p].needs[k] \in Versions \cup {0}
    BY <1>1, <1>4, ContentFacts DEF FrontInv, FrontTypeOK
  <1>6. /\ chosen' \in [Packages -> Versions \cup {0}]
        /\ \A k \in Packages :
                chosen'[k] = IF chosen[k] = 0 THEN content[p].needs[k] ELSE chosen[k]
    BY <1>1, <1>5 DEF Merged
  <1>7. pending' \subseteq Tree(root)
    BY <1>1, <1>4, TreeFacts DEF Kids
  <1>8. FrontTypeOK'
    BY <1>1, <1>2, <1>6, <1>7 DEF FrontInv, FrontTypeOK
  <1>9. /\ reading' = <<>> /\ Len(reading') = 0 /\ buildType' = 0
        /\ fetched' = [k \in Packages |-> NotFetched]
    BY <1>1, <1>3 DEF FrontInv, OrderInv
  <1>10. OrderInv' /\ RootFirst'
    BY <1>1, <1>3, <1>9 DEF OrderInv, RootFirst
  <1>11. CollectInv'
    <2>1. /\ Accepted
          /\ \A k \in Packages :
                chosen[k] # 0 => \E q \in Tree(root) : content[q].needs[k] = chosen[k]
          /\ \A q \in Tree(root) :
                (\A k \in Needed(q) : chosen[k] # 0) \/ \E r \in pending : q \in Tree(r)
      BY <1>1 DEF FrontInv, CollectInv
    <2>2. \A k \in Packages :
              chosen'[k] # 0 => \E q \in Tree(root) : content[q].needs[k] = chosen'[k]
      BY <1>4, <1>6, <2>1
    <2>3. ASSUME NEW q \in Tree(root)
          PROVE  (\A k \in Needed(q) : chosen'[k] # 0) \/ \E r \in pending' : q \in Tree(r)
      <3>1. CASE \A k \in Needed(q) : chosen[k] # 0
        BY <3>1, <1>6 DEF Needed
      <3>2. CASE q = p
        BY <3>2, <1>6 DEF Needed
      <3>3. CASE q # p /\ q \in Tree(p)
        <4>1. PICK m \in Kids(p) : q \in Tree(m.child)
          BY <3>3, <1>4, TreeFromKids
        <4> QED
          BY <4>1, <1>1
      <3>4. CASE \E r \in pending : r # p /\ q \in Tree(r)
        BY <3>4, <1>1
      <3> QED
        BY <3>1, <3>2, <3>3, <3>4, <2>1
    <2> QED
      BY <1>1, <1>2, <2>1, <2>2, <2>3 DEF CollectInv
  <1>12. PackagesBeforeTargets' /\ PICInv'
    BY <1>2, <1>9, NothingReadNext
  <1> QED
    BY <1>2, <1>8, <1>10, <1>11, <1>12 DEF FrontInv

LEMMA EmitInv == FrontInv /\ Emit => FrontInv'
  <1> SUFFICES ASSUME FrontInv, Emit PROVE FrontInv'
    OBVIOUS
  <1> DEFINE e == [project |-> root, at |-> "defaults", pic |-> FALSE, found |-> {}]
  <1>1. /\ phase = "resolving" /\ phase' = "reading" /\ pending = {} /\ pending' = {}
        /\ reading' = <<e>>
        /\ UNCHANGED <<root, content, chosen, installed, fetched, buildType, mountingVars>>
    BY DEF Emit
  <1>2. /\ MountingInv'
        /\ Tree(root)' = Tree(root) /\ Projects' = Projects /\ (Accepted <=> Accepted')
        /\ \A p : Tree(p)' = Tree(p) /\ Kids(p)' = Kids(p) /\ Needed(p)' = Needed(p)
    BY <1>1, BuildIsKept
  <1>3. /\ root \in Projects /\ root \in Tree(root) /\ Tree(root) \subseteq Projects
        /\ Projects \subseteq Nat \ {0} /\ MountingInv
    BY <1>1, ContentFacts DEF FrontInv
  <1>4. e \in ListFile /\ e.project = root /\ e.at = "defaults"
    BY <1>3 DEF ListFile
  <1> HIDE DEF e
  <1>5. /\ reading' \in Seq(ListFile) /\ Len(reading') = 1 /\ reading'[1] = e
        /\ reading' # <<>> /\ \A i \in 1 .. Len(reading') : i = 1
    BY <1>1, <1>4, SingletonFacts
  <1>6. ~Emitted /\ Emitted'
    BY <1>1 DEF Emitted
  <1>7. FrontTypeOK'
    BY <1>1, <1>2, <1>5 DEF FrontInv, FrontTypeOK, Phases
  <1>8. buildType' = 0 /\ fetched' = [k \in Packages |-> NotFetched]
    BY <1>1, <1>6 DEF FrontInv, OrderInv
  <1>9. OrderInv' /\ RootFirst' /\ PackagesBeforeTargets'
    BY <1>1, <1>2, <1>3, <1>4, <1>5, <1>6, <1>8
    DEF OrderInv, RootFirst, PackagesBeforeTargets, TargetsOf
  <1>10. CollectInv'
    BY <1>1, <1>2 DEF FrontInv, CollectInv
  <1>11. PICInv'
    <2>1. ASSUME NEW p \in Tree(root), root \in Tree(p) PROVE p = root
      <3>1. root <= p /\ p <= root /\ p \in Nat /\ root \in Nat
        BY <1>3, <2>1, TreesNest
      <3> QED
        BY <3>1
    <2>2. ASSUME NEW k \in Packages, NEW p \in Tree(root) PROVE fetched'[k].by \notin Tree(p)
      <3>1. fetched'[k].by = 0
        BY <1>8 DEF NotFetched
      <3>2. Tree(p) \subseteq Projects
        BY DEF Tree
      <3> QED
        BY <3>1, <3>2, <1>3
    <2> QED
      BY <1>2, <1>4, <1>5, <2>1, <2>2 DEF PICInv
  <1> QED
    BY <1>2, <1>7, <1>9, <1>10, <1>11 DEF FrontInv

LEMMA ReadDefaultsInv == FrontInv /\ ReadDefaults => FrontInv'
  <1> SUFFICES ASSUME FrontInv, ReadDefaults PROVE FrontInv'
    OBVIOUS
  <1> DEFINE L == Len(reading)
             e == [File EXCEPT !.at = "packages", !.pic = File.pic \/ content[File.project].shared]
  <1>1. /\ phase = "reading" /\ phase' = phase /\ File.at = "defaults" /\ fetched' = fetched
        /\ UNCHANGED <<root, content, pending, chosen, installed, mountingVars>>
        /\ buildType' = IF buildType = 0 THEN content[File.project].optimize ELSE buildType
        /\ reading' = [reading EXCEPT ![L] = e]
    BY DEF ReadDefaults, Reading, readingUnchanged, File
  <1>2. /\ L \in Nat /\ L >= 1 /\ File \in ListFile /\ File = reading[L]
        /\ File.project \in Tree(root) /\ reading \in Seq(ListFile)
    BY <1>1, FileFacts
  <1>3. /\ content[File.project].shared \in BOOLEAN
        /\ content[File.project].optimize \in BuildTypes \cup {0}
        /\ content[root].optimize \in BuildTypes \cup {0}
    BY <1>1, <1>2, ContentFacts
  <1>4. /\ e \in ListFile /\ e.project = File.project /\ e.at = "packages"
        /\ e.pic <=> File.pic \/ content[File.project].shared
    BY <1>2, <1>3 DEF ListFile
  <1> HIDE DEF e
  <1>5. /\ reading' \in Seq(ListFile) /\ Len(reading') = L
        /\ \A i \in 1 .. L : reading'[i] = IF i = L THEN e ELSE reading[i]
    BY <1>1, <1>2, <1>4, ExceptSeq
  <1>6. \A i \in 1 .. L : reading'[i].project = reading[i].project
    BY <1>2, <1>4, <1>5
  <1>7. \A i \in 1 .. L : reading[i].project \in Tree(root)
    BY DEF FrontInv, OrderInv
  <1>8. /\ fetched' \in [Packages -> [by : Nat, pic : BOOLEAN]]
        /\ buildType' \in BuildTypes \cup {0} /\ reading' # <<>>
    BY <1>1, <1>2, <1>3, <1>5 DEF FrontInv, FrontTypeOK
  <1>9. MountingInv' /\ FrontTypeOK' /\ OrderInv' /\ CollectInv'
    BY <1>1, <1>5, <1>6, <1>7, <1>8, ReadingStepInv
  <1>10. /\ Tree(root)' = Tree(root)
         /\ \A p : Tree(p)' = Tree(p) /\ Needed(p)' = Needed(p)
    BY <1>1, BuildIsKept
  <1>11. PackagesBeforeTargets'
    BY <1>1, <1>2, <1>4, <1>5, <1>10 DEF FrontInv, PackagesBeforeTargets, TargetsOf
  <1>12. PICInv'
    <2>1. ASSUME NEW p \in Tree(root), content[p].shared, File.project \in Tree(p) PROVE e.pic
      BY <1>1, <1>2, <1>4, <2>1 DEF FrontInv, PICInv
    <2>2. ASSUME NEW i \in 1 .. L, NEW p \in Tree(root), content[p].shared,
                 reading'[i].project \in Tree(p)
          PROVE  reading'[i].pic \/ (reading'[i].at = "defaults" /\ reading'[i].project = p)
      <3>1. CASE i = L
        BY <3>1, <2>1, <2>2, <1>4, <1>5
      <3>2. CASE i # L
        BY <3>2, <2>2, <1>5 DEF FrontInv, PICInv
      <3> QED
        BY <3>1, <3>2
    <2>3. \A k \in Packages, p \in Tree(root) :
              content'[p].shared /\ fetched'[k].by \in Tree(p) => fetched'[k].pic
      BY <1>1 DEF FrontInv, PICInv
    <2>4. \A i \in 1 .. Len(reading'), p \in Tree(root)' :
              content'[p].shared /\ reading'[i].project \in Tree(p)' =>
                reading'[i].pic \/ (reading'[i].at = "defaults" /\ reading'[i].project = p)
      BY <1>1, <1>5, <1>10, <2>2
    <2>5. \A k \in Packages, p \in Tree(root)' :
              content'[p].shared /\ fetched'[k].by \in Tree(p)' => fetched'[k].pic
      BY <1>1, <1>10, <2>3
    <2> QED
      BY <2>4, <2>5 DEF PICInv
  <1>13. RootFirst'
    <2>1. reading[1].project = root /\ reading # <<>> /\ 1 \in 1 .. L
      BY <1>1, <1>2, FileFacts DEF FrontInv, RootFirst
    <2>2. CASE L = 1
      <3>1. buildType = 0 /\ buildType' = content[root].optimize
        BY <1>1, <1>2, <2>1, <2>2 DEF FrontInv, RootFirst
      <3>2. reading'[1] = e /\ e.project = root /\ e.at # "defaults"
        BY <1>2, <1>4, <1>5, <2>1, <2>2
      <3> QED
        BY <1>1, <3>1, <3>2 DEF RootFirst
    <2>3. CASE L # 1
      <3>1. reading'[1] = reading[1]
        BY <1>5, <2>1, <2>3
      <3>2. reading[1].at # "defaults" /\ content[root].optimize \in {0, buildType}
        BY <2>1, <2>3 DEF FrontInv, RootFirst
      <3>3. content[root].optimize \in {0, buildType'}
        BY <1>1, <3>2
      <3> QED
        BY <1>1, <2>1, <3>1, <3>2, <3>3 DEF RootFirst
    <2> QED
      BY <2>2, <2>3
  <1> QED
    BY <1>9, <1>11, <1>12, <1>13 DEF FrontInv

LEMMA ReadPackagesInv == FrontInv /\ ReadPackages => FrontInv'
  <1> SUFFICES ASSUME FrontInv, ReadPackages PROVE FrontInv'
    OBVIOUS
  <1> DEFINE L == Len(reading)
             e == [File EXCEPT !.at = "subprojects", !.found = File.found \cup FoundHere]
             new == [by |-> File.project, pic |-> File.pic]
  <1>1. /\ phase = "reading" /\ phase' = phase /\ File.at = "packages" /\ buildType' = buildType
        /\ UNCHANGED <<root, content, pending, chosen, installed, mountingVars>>
        /\ fetched' = [k \in Packages |-> IF k \in ToFetch THEN new ELSE fetched[k]]
        /\ reading' = [reading EXCEPT ![L] = e]
    BY DEF ReadPackages, Reading, readingUnchanged, File
  <1>2. /\ L \in Nat /\ L >= 1 /\ File \in ListFile /\ File = reading[L] /\ L \in 1 .. L
        /\ File.project \in Tree(root) /\ reading \in Seq(ListFile)
    BY <1>1, FileFacts
  <1>3. FoundHere \in SUBSET Packages
    BY DEF FoundHere, Needed
  <1>4. /\ e \in ListFile /\ e.project = File.project /\ e.at = "subprojects"
        /\ e.pic = File.pic /\ e.found = File.found \cup FoundHere
    BY <1>2, <1>3 DEF ListFile
  <1>5. /\ new \in [by : Nat, pic : BOOLEAN] /\ new.by = File.project /\ new.pic = File.pic
        /\ new # NotFetched
    <2>1. /\ new.by = File.project /\ new.pic = File.pic /\ File.project \in Nat
          /\ File.pic \in BOOLEAN
      BY <1>2 DEF ListFile
    <2>2. new.by # 0
      BY <2>1, <1>1, <1>2, ContentFacts
    <2> QED
      BY <2>1, <2>2 DEF NotFetched
  <1> HIDE DEF e, new
  <1>6. /\ reading' \in Seq(ListFile) /\ Len(reading') = L
        /\ \A i \in 1 .. L : reading'[i] = IF i = L THEN e ELSE reading[i]
    BY <1>1, <1>2, <1>4, ExceptSeq
  <1>7. \A i \in 1 .. L : reading'[i].project = reading[i].project
    BY <1>2, <1>4, <1>6
  <1>8. \A i \in 1 .. L : reading[i].project \in Tree(root)
    BY DEF FrontInv, OrderInv
  <1>9. /\ fetched' \in [Packages -> [by : Nat, pic : BOOLEAN]]
        /\ buildType' \in BuildTypes \cup {0} /\ reading' # <<>>
    BY <1>1, <1>2, <1>5, <1>6 DEF FrontInv, FrontTypeOK
  <1>10. MountingInv' /\ FrontTypeOK' /\ OrderInv' /\ CollectInv'
    BY <1>1, <1>6, <1>7, <1>8, <1>9, ReadingStepInv
  <1>11. /\ Tree(root)' = Tree(root)
         /\ \A p : Tree(p)' = Tree(p) /\ Needed(p)' = Needed(p)
    BY <1>1, BuildIsKept
  <1>12. \A k \in Packages : fetched[k] # NotFetched => fetched'[k] # NotFetched
    BY <1>1, <1>5
  <1>13. PackagesBeforeTargets'
    <2>1. ASSUME NEW i \in 1 .. L, reading'[i].at = "subprojects",
                 NEW k \in Needed(reading'[i].project)
          PROVE  k \in reading'[i].found \/ fetched'[k] # NotFetched
      <3>1. k \in Packages
        BY DEF Needed
      <3>2. CASE i = L
        <4>1. k \in Needed(File.project) /\ reading'[i] = e
          BY <2>1, <3>2, <1>4, <1>6
        <4>2. k \in FoundHere \/ k \in ToFetch \/ fetched[k] # NotFetched
          BY <4>1 DEF ToFetch
        <4>3. k \in ToFetch => fetched'[k] = new
          BY <3>1, <1>1
        <4> QED
          BY <4>1, <4>2, <4>3, <3>1, <1>4, <1>5, <1>12
      <3>3. CASE i # L
        BY <2>1, <3>1, <3>3, <1>6, <1>12 DEF FrontInv, PackagesBeforeTargets, TargetsOf
      <3> QED
        BY <3>2, <3>3
    <2> QED
      BY <2>1, <1>6, <1>11 DEF PackagesBeforeTargets, TargetsOf
  <1>14. PICInv'
    <2>1. ASSUME NEW p \in Tree(root), content[p].shared, File.project \in Tree(p) PROVE File.pic
      BY <1>1, <1>2, <2>1 DEF FrontInv, PICInv
    <2>2. ASSUME NEW i \in 1 .. L, NEW p \in Tree(root), content[p].shared,
                 reading'[i].project \in Tree(p)
          PROVE  reading'[i].pic \/ (reading'[i].at = "defaults" /\ reading'[i].project = p)
      <3>1. CASE i = L
        BY <3>1, <2>1, <2>2, <1>4, <1>6
      <3>2. CASE i # L
        BY <3>2, <2>2, <1>6 DEF FrontInv, PICInv
      <3> QED
        BY <3>1, <3>2
    <2>3. ASSUME NEW k \in Packages, NEW p \in Tree(root), content[p].shared,
                 fetched'[k].by \in Tree(p)
          PROVE  fetched'[k].pic
      <3>1. CASE k \in ToFetch
        BY <3>1, <2>1, <2>3, <1>1, <1>5
      <3>2. CASE k \notin ToFetch
        BY <3>2, <2>3, <1>1 DEF FrontInv, PICInv
      <3> QED
        BY <3>1, <3>2
    <2>4. \A i \in 1 .. Len(reading'), p \in Tree(root)' :
              content'[p].shared /\ reading'[i].project \in Tree(p)' =>
                reading'[i].pic \/ (reading'[i].at = "defaults" /\ reading'[i].project = p)
      BY <1>1, <1>6, <1>11, <2>2
    <2>5. \A k \in Packages, p \in Tree(root)' :
              content'[p].shared /\ fetched'[k].by \in Tree(p)' => fetched'[k].pic
      BY <1>1, <1>11, <2>3
    <2> QED
      BY <2>4, <2>5 DEF PICInv
  <1>15. RootFirst'
    <2>1. reading[1].project = root /\ reading # <<>> /\ 1 \in 1 .. L
      BY <1>1, <1>2, FileFacts DEF FrontInv, RootFirst
    <2>2. reading[1].at # "defaults"
      BY <1>1, <1>2 DEF FrontInv, RootFirst
    <2>3. reading'[1].at # "defaults" /\ reading'[1].project = root
      BY <1>4, <1>6, <1>7, <2>1, <2>2
    <2>4. content[root].optimize \in {0, buildType}
      BY <2>1, <2>2 DEF FrontInv, RootFirst
    <2> QED
      BY <1>1, <2>3, <2>4 DEF RootFirst
  <1> QED
    BY <1>10, <1>13, <1>14, <1>15 DEF FrontInv

\* A child's only parent is the project whose list file adds its directory, so
\* every project that the child is below is one that the parent is below.
LEMMA ReadSubprojectInv == ASSUME FrontInv, NEW m \in mounts, ReadSubproject(m) PROVE FrontInv'
  <1> DEFINE L == Len(reading)
             e == [project |-> m.child, at |-> "defaults", pic |-> File.pic, found |-> File.found]
  <1>1. /\ phase = "reading" /\ phase' = phase /\ File.at = "subprojects" /\ m.by = File.project
        /\ UNCHANGED <<root, content, pending, chosen, installed, fetched, buildType, mountingVars>>
        /\ reading' = Append(reading, e)
    BY DEF ReadSubproject, Reading, readingUnchanged, Kids
  <1>2. /\ L \in Nat /\ L >= 1 /\ File \in ListFile /\ File = reading[L] /\ L \in 1 .. L
        /\ File.project \in Tree(root) /\ reading \in Seq(ListFile) /\ reading # <<>>
    BY <1>1, FileFacts
  <1>3. /\ root \in Projects /\ Tree(root) \subseteq Projects /\ MountingInv
        /\ m.child \in Tree(root) /\ m.child \in Nat
    <2>1. root \in Projects /\ Tree(root) \subseteq Projects /\ Projects \subseteq Nat \ {0}
      BY <1>1, ContentFacts
    <2>2. MountingInv
      BY DEF FrontInv
    <2>3. m.child \in Tree(root)
      BY <1>1, <1>2, <2>1, <2>2, TreeFacts
    <2> QED
      BY <2>1, <2>2, <2>3
  <1>4. /\ e \in ListFile /\ e.project = m.child /\ e.at = "defaults" /\ e.pic = File.pic
    BY <1>2, <1>3 DEF ListFile
  <1> HIDE DEF e
  <1>5. /\ reading' \in Seq(ListFile) /\ Len(reading') = L + 1 /\ reading' # <<>>
        /\ \A i \in 1 .. L : reading'[i] = reading[i]
        /\ reading'[L + 1] = e
    BY <1>1, <1>2, <1>4, AppendProperties
  <1>6. \A i \in 1 .. L + 1 : i = L + 1 \/ i \in 1 .. L
    BY <1>2
  <1>7. \A i \in 1 .. Len(reading') : reading'[i].project \in Tree(root)
    BY <1>3, <1>4, <1>5, <1>6 DEF FrontInv, OrderInv
  <1>8. MountingInv' /\ FrontTypeOK' /\ OrderInv' /\ CollectInv'
    <2>1. /\ fetched' \in [Packages -> [by : Nat, pic : BOOLEAN]]
          /\ buildType' \in BuildTypes \cup {0}
      BY <1>1 DEF FrontInv, FrontTypeOK
    <2> QED
      BY <1>1, <1>5, <1>7, <2>1, ReadingStepInv
  <1>9. /\ Tree(root)' = Tree(root)
        /\ \A p : Tree(p)' = Tree(p) /\ Needed(p)' = Needed(p)
    BY <1>1, BuildIsKept
  <1>10. PackagesBeforeTargets'
    BY <1>1, <1>4, <1>5, <1>6, <1>9 DEF FrontInv, PackagesBeforeTargets, TargetsOf
  <1>11. PICInv'
    <2>1. ASSUME NEW p \in Tree(root), content[p].shared, m.child \in Tree(p), m.child # p
          PROVE  e.pic
      <3>1. PICK other \in mounts : other.child = m.child /\ other.by \in Tree(p)
        BY <1>3, <2>1, TreeFacts
      <3>2. other = m
        BY <1>3, <3>1 DEF MountingInv, MountsFormForest
      <3>3. File.project \in Tree(p)
        BY <1>1, <3>1, <3>2
      <3> QED
        BY <1>1, <1>2, <1>4, <2>1, <3>3 DEF FrontInv, PICInv
    <2>2. ASSUME NEW i \in 1 .. L + 1, NEW p \in Tree(root), content[p].shared,
                 reading'[i].project \in Tree(p)
          PROVE  reading'[i].pic \/ (reading'[i].at = "defaults" /\ reading'[i].project = p)
      <3>1. CASE i = L + 1
        BY <3>1, <2>1, <2>2, <1>4, <1>5
      <3>2. CASE i \in 1 .. L
        BY <3>2, <2>2, <1>5 DEF FrontInv, PICInv
      <3> QED
        BY <3>1, <3>2, <1>6
    <2>3. \A i \in 1 .. Len(reading'), p \in Tree(root)' :
              content'[p].shared /\ reading'[i].project \in Tree(p)' =>
                reading'[i].pic \/ (reading'[i].at = "defaults" /\ reading'[i].project = p)
      BY <1>1, <1>5, <1>9, <2>2
    <2>4. \A k \in Packages, p \in Tree(root)' :
              content'[p].shared /\ fetched'[k].by \in Tree(p)' => fetched'[k].pic
      BY <1>1, <1>9 DEF FrontInv, PICInv
    <2> QED
      BY <2>3, <2>4 DEF PICInv
  <1>12. RootFirst'
    <2>1. reading[1].project = root /\ 1 \in 1 .. L
      BY <1>2 DEF FrontInv, RootFirst
    <2>2. reading[1].at # "defaults"
      BY <1>1, <1>2 DEF FrontInv, RootFirst
    <2>3. reading'[1] = reading[1]
      BY <1>5, <2>1
    <2>4. content[root].optimize \in {0, buildType}
      BY <1>2, <2>2 DEF FrontInv, RootFirst
    <2> QED
      BY <1>1, <2>1, <2>2, <2>3, <2>4 DEF RootFirst
  <1> QED
    BY <1>8, <1>10, <1>11, <1>12 DEF FrontInv

LEMMA RefuseSubprojectInv ==
    ASSUME FrontInv, NEW m \in mounts, RefuseSubproject(m) PROVE FrontInv'
  <1>1. /\ phase = "reading" /\ phase' = "refused"
        /\ UNCHANGED <<root, content, pending, chosen, installed, reading, fetched, buildType,
                       mountingVars>>
    BY DEF RefuseSubproject, Reading, tools
  <1>2. MountingInv' /\ FrontTypeOK' /\ OrderInv' /\ CollectInv'
    <2>1. /\ reading' \in Seq(ListFile) /\ fetched' \in [Packages -> [by : Nat, pic : BOOLEAN]]
          /\ buildType' \in BuildTypes \cup {0}
      BY <1>1 DEF FrontInv, FrontTypeOK
    <2>2. \A i \in 1 .. Len(reading') : reading'[i].project \in Tree(root)
      BY <1>1 DEF FrontInv, OrderInv
    <2> QED
      BY <1>1, <2>1, <2>2, ReadingStepInv
  <1>3. /\ Tree(root)' = Tree(root)
        /\ \A p : Tree(p)' = Tree(p) /\ Needed(p)' = Needed(p)
    BY <1>1, BuildIsKept
  <1>4. PackagesBeforeTargets' /\ PICInv'
    BY <1>1, <1>3 DEF FrontInv, PackagesBeforeTargets, TargetsOf, PICInv
  <1>5. RootFirst'
    BY <1>1 DEF FrontInv, RootFirst
  <1> QED
    BY <1>2, <1>4, <1>5 DEF FrontInv

LEMMA ReadTargetsInv == FrontInv /\ ReadTargets => FrontInv'
  <1> SUFFICES ASSUME FrontInv, ReadTargets PROVE FrontInv'
    OBVIOUS
  <1> DEFINE L == Len(reading)
  <1>1. /\ phase = "reading" /\ phase' = IF L = 1 THEN "configured" ELSE phase
        /\ File.at = "subprojects"
        /\ UNCHANGED <<root, content, pending, chosen, installed, fetched, buildType, mountingVars>>
        /\ reading' = Popped(reading)
    BY DEF ReadTargets, Reading
  <1>2. /\ L \in Nat /\ L >= 1 /\ File = reading[L]
        /\ reading \in Seq(ListFile) /\ reading # <<>>
    BY <1>1, FileFacts
  <1>3. /\ reading' \in Seq(ListFile) /\ Len(reading') = L - 1
        /\ \A i \in 1 .. L - 1 : reading'[i] = reading[i]
    BY <1>1, <1>2, PoppedFacts
  <1>4. \A i \in 1 .. L - 1 : i \in 1 .. L
    BY <1>2
  <1>5. MountingInv' /\ FrontTypeOK' /\ OrderInv' /\ CollectInv'
    <2>1. /\ fetched' \in [Packages -> [by : Nat, pic : BOOLEAN]]
          /\ buildType' \in BuildTypes \cup {0}
      BY <1>1 DEF FrontInv, FrontTypeOK
    <2>2. \A i \in 1 .. Len(reading') : reading'[i].project \in Tree(root)
      BY <1>3, <1>4 DEF FrontInv, OrderInv
    <2>3. phase' = "reading" => reading' # <<>>
      BY <1>1, <1>2, <1>3
    <2> QED
      BY <1>1, <1>3, <2>1, <2>2, <2>3, ReadingStepInv
  <1>6. /\ Tree(root)' = Tree(root)
        /\ \A p : Tree(p)' = Tree(p) /\ Needed(p)' = Needed(p)
    BY <1>1, BuildIsKept
  <1>7. PackagesBeforeTargets'
    BY <1>1, <1>3, <1>4, <1>6 DEF FrontInv, PackagesBeforeTargets, TargetsOf
  <1>8. PICInv'
    <2>1. \A i \in 1 .. Len(reading'), p \in Tree(root)' :
              content'[p].shared /\ reading'[i].project \in Tree(p)' =>
                reading'[i].pic \/ (reading'[i].at = "defaults" /\ reading'[i].project = p)
      BY <1>1, <1>3, <1>4, <1>6 DEF FrontInv, PICInv
    <2>2. \A k \in Packages, p \in Tree(root)' :
              content'[p].shared /\ fetched'[k].by \in Tree(p)' => fetched'[k].pic
      BY <1>1, <1>6 DEF FrontInv, PICInv
    <2> QED
      BY <2>1, <2>2 DEF PICInv
  <1>9. RootFirst'
    <2>1. reading[1].project = root /\ 1 \in 1 .. L
      BY <1>2 DEF FrontInv, RootFirst
    <2>2. reading[1].at # "defaults"
      BY <1>1, <1>2 DEF FrontInv, RootFirst
    <2>3. content[root].optimize \in {0, buildType}
      BY <1>2, <2>2 DEF FrontInv, RootFirst
    <2>4. CASE L = 1
      <3>1. reading' = <<>>
        BY <2>4, <1>3, EmptySeq
      <3> QED
        BY <1>1, <2>3, <3>1 DEF RootFirst
    <2>5. CASE L # 1
      <3>1. reading'[1] = reading[1]
        BY <1>2, <1>3, <2>5
      <3> QED
        BY <1>1, <2>1, <2>2, <2>3, <2>5, <3>1 DEF RootFirst
    <2> QED
      BY <2>4, <2>5
  <1> QED
    BY <1>5, <1>7, <1>8, <1>9 DEF FrontInv

LEMMA FrontStepInv == FrontInv /\ [Next]_vars => FrontInv'
  <1> SUFFICES ASSUME FrontInv, [Next]_vars PROVE FrontInv'
    OBVIOUS
  <1>1. CASE Describe
    BY <1>1, DescribeInv
  <1>2. ASSUME NEW p \in Projects, Build(p) PROVE FrontInv'
    BY <1>2, BuildInv
  <1>3. CASE Validate
    BY <1>3, ValidateInv
  <1>4. ASSUME NEW p \in Projects, Collect(p) PROVE FrontInv'
    BY <1>4, CollectStepInv
  <1>5. CASE Emit
    BY <1>5, EmitInv
  <1>6. CASE ReadDefaults
    BY <1>6, ReadDefaultsInv
  <1>7. CASE ReadPackages
    BY <1>7, ReadPackagesInv
  <1>8. ASSUME NEW m \in mounts, ReadSubproject(m) PROVE FrontInv'
    BY <1>8, ReadSubprojectInv
  <1>9. ASSUME NEW m \in mounts, RefuseSubproject(m) PROVE FrontInv'
    BY <1>9, RefuseSubprojectInv
  <1>10. CASE ReadTargets
    BY <1>10, ReadTargetsInv
  <1>11. CASE UNCHANGED vars
    <2>1. UNCHANGED <<phase, root, content, installed, pending, chosen, reading, fetched,
                      buildType, mountingVars>>
      BY <1>11 DEF vars, frontVars, tools
    <2>2. /\ MountingInv'
          /\ Tree(root)' = Tree(root) /\ Projects' = Projects /\ (Accepted <=> Accepted')
          /\ \A p : Tree(p)' = Tree(p) /\ Kids(p)' = Kids(p) /\ Needed(p)' = Needed(p)
      BY <2>1, BuildIsKept
    <2>3. Emitted' <=> Emitted
      BY <2>1 DEF Emitted
    <2>4. FrontTypeOK' /\ OrderInv'
      BY <2>1, <2>2, <2>3 DEF FrontInv, FrontTypeOK, OrderInv
    <2>5. CollectInv'
      BY <2>1, <2>2, <2>3 DEF FrontInv, CollectInv
    <2>6. PackagesBeforeTargets' /\ PICInv' /\ RootFirst'
      BY <2>1, <2>2 DEF FrontInv, PackagesBeforeTargets, TargetsOf, PICInv, RootFirst
    <2> QED
      BY <2>2, <2>4, <2>5, <2>6 DEF FrontInv
  <1> QED
    BY <1>1, <1>2, <1>3, <1>4, <1>5, <1>6, <1>7, <1>8, <1>9, <1>10, <1>11
    DEF Next, BuildStep

LEMMA FrontInvariant == Spec => []FrontInv
  BY FrontInitInv, FrontStepInv, PTL DEF Spec

\* A tree of projects is what build() works on, from the first check to the
\* last list file: the root it was called for, and contents for all of it.
THEOREM FrontEndTypeCorrect == Spec => []FrontTypeOK
  <1>1. FrontInv => FrontTypeOK
    BY DEF FrontInv
  <1> QED
    BY <1>1, FrontInvariant, PTL

\* resolve_project() resolves one set of packages for a tree, and no list file
\* differs from what its project has declared: the walk visits every project
\* (deps/provider.py), and validation has made the declarations agree.
THEOREM ResolvedAsDeclared == Spec => []EmittedAsDeclared
  <1>1. FrontInv => EmittedAsDeclared
    <2> SUFFICES ASSUME FrontInv, Emitted, NEW p \in Tree(root)
                 PROVE  /\ \A k \in Needed(p) : chosen[k] = content[p].needs[k]
                        /\ content[p].manager = "auto" => content[root].manager = "auto"
      BY DEF EmittedAsDeclared
    <2>1. Accepted /\ pending = {} /\ phase # "describing" /\ MountingInv
      BY DEF FrontInv, CollectInv, OrderInv, Emitted
    <2>2. ASSUME NEW k \in Needed(p) PROVE chosen[k] = content[p].needs[k]
      <3>1. k \in Packages /\ chosen[k] # 0
        BY <2>1 DEF FrontInv, CollectInv, Needed
      <3>2. PICK q \in Tree(root) : content[q].needs[k] = chosen[k]
        BY <3>1 DEF FrontInv, CollectInv
      <3>3. k \in Needed(q)
        BY <3>1, <3>2 DEF Needed
      <3> QED
        BY <2>1, <3>1, <3>2, <3>3 DEF Accepted, VersionsAgree
    <2>3. content[p].manager = content[root].manager
      <3> DEFINE S == {q \in Tree(root) : content[q].manager = content[root].manager}
      <3>1. root \in Projects /\ root \in S
        BY <2>1, ContentFacts
      <3>2. ASSUME NEW m \in mounts, m.by \in Tree(root), m.by \in S PROVE m.child \in S
        <4>1. m \in Kids(m.by) /\ OneManager(m.by)
          BY <2>1, <3>2 DEF Kids, Accepted
        <4>2. m.child \in Tree(root)
          BY <2>1, <3>1, <3>2, TreeFacts
        <4> QED
          BY <3>2, <4>1, <4>2 DEF OneManager
      <3> HIDE DEF S
      <3>3. Tree(root) \subseteq S
        BY <2>1, <3>1, <3>2, TreeInduction
      <3> QED
        BY <3>3 DEF S
    <2> QED
      BY <2>2, <2>3
  <1> QED
    BY <1>1, FrontInvariant, PTL

\* Where CMake comes to the targets of a project, every package that the
\* project needs was found in scope or fetched: the emitter puts the packages
\* before the subprojects and these before the targets.
THEOREM PackagesComeFirst == Spec => []PackagesBeforeTargets
  <1>1. FrontInv => PackagesBeforeTargets
    BY DEF FrontInv
  <1> QED
    BY <1>1, FrontInvariant, PTL

\* A package that a project with a shared object has fetched, or a project at
\* any depth below it, is compiled position-independent: the emitter switches it
\* on (_position_independent_code) before the packages and the subdirectories,
\* which start with the variables of their parent.
THEOREM SharedObjectsLinkPIC == Spec => []SharedLinksPIC
  <1>1. FrontInv => SharedLinksPIC
    BY DEF FrontInv, PICInv, SharedLinksPIC
  <1> QED
    BY <1>1, FrontInvariant, PTL

\* The root's optimize level decides CMAKE_BUILD_TYPE for the whole tree: its
\* default is set first, and the others only if there is none.
THEOREM RootBuildTypeWins == Spec => []RootTypeWins
  <1>1. FrontInv => RootTypeWins
    BY DEF FrontInv, RootFirst, RootTypeWins
  <1> QED
    BY <1>1, FrontInvariant, PTL
=============================================================================
