----------------------------- MODULE ClosureProofs -----------------------------
(***************************************************************************)
(* The walk of make_goal collects exactly what its roots reach, for every  *)
(* graph and every choice of roots.                                        *)
(***************************************************************************)
EXTENDS GoalClosure, SequenceTheorems, TLAPS

\* The members of the goal under construction.
Start == roots[Len(closures) + 1]

\* Each selection kept is a root or reached from one: no proper subset holds the
\* roots and all that its edges lead to within what is kept.
NothingBut(kept, start) ==
  \A C \in SUBSET kept :
    /\ start \subseteq C
    /\ \A e \in edges : e.issuer \in C /\ e.required \in kept => e.required \in C
    => C = kept

\* What has left the queue has had all its edges followed and recorded.
Walked ==
  walking =>
    /\ Start \subseteq selected
    /\ queue \subseteq selected
    /\ reached = {e \in edges : e.issuer \in selected \ queue}
    /\ \A e \in reached : e.required \in selected
    /\ NothingBut(selected, Start)

ClosuresList == closures \in Seq({closures[i] : i \in 1..Len(closures)})

WalkInv == ClosuresList /\ Walked /\ ClosuresExact

-----------------------------------------------------------------------------
\* Closed goals are not touched again.
LEMMA ClosedKept ==
  ASSUME WalkInv, UNCHANGED <<edges, roots, closures>>
  PROVE  ClosuresList' /\ ClosuresExact'
<1>1. ClosuresList'
  BY DEF WalkInv, ClosuresList
<1>2. \A C : ClosedUnderEdges(C)' <=> ClosedUnderEdges(C)
  BY DEF ClosedUnderEdges
<1>3. ClosuresExact'
  <2> SUFFICES ASSUME NEW i \in 1..Len(closures)
      PROVE  LET kept == closures[i].selections
             IN /\ roots[i] \subseteq kept
                /\ ClosedUnderEdges(kept)'
                /\ \A C \in SUBSET kept :
                     roots[i] \subseteq C /\ ClosedUnderEdges(C)' => C = kept
                /\ closures[i].edges = {e \in edges : e.issuer \in kept}
    BY DEF ClosuresExact
  <2>. QED
    BY <1>2 DEF WalkInv, ClosuresExact
<1>. QED
  BY <1>1, <1>3

\* Opening a goal: its members are kept and none is visited.
LEMMA OpenGoalWalks ==
  ASSUME WalkInv, OpenGoal
  PROVE  WalkInv'
<1>1. /\ queue' = Start /\ selected' = Start /\ reached' = {}
      /\ UNCHANGED <<edges, roots, closures>>
  BY DEF OpenGoal, Start
<1>2. Walked'
  BY <1>1 DEF Walked, Start, NothingBut
<1>3. ClosuresList' /\ ClosuresExact'
  BY <1>1, ClosedKept
<1>. QED
  BY <1>2, <1>3 DEF WalkInv

\* A visit keeps what the edges of one selection lead to.
LEMMA VisitWalks ==
  ASSUME WalkInv, VisitSelection
  PROVE  WalkInv'
<1>1. PICK n \in queue :
        /\ reached' = reached \cup Issued(n)
        /\ selected' = selected \cup ({e.required : e \in Issued(n)} \ selected)
        /\ queue' = (queue \ {n}) \cup ({e.required : e \in Issued(n)} \ selected)
  BY DEF VisitSelection
<1>2. walking /\ UNCHANGED <<edges, roots, walking, closures>>
  BY DEF VisitSelection
<1> DEFINE found == {e.required : e \in Issued(n)} \ selected
<1>3. /\ Start \subseteq selected /\ queue \subseteq selected
      /\ reached = {e \in edges : e.issuer \in selected \ queue}
      /\ \A e \in reached : e.required \in selected
      /\ NothingBut(selected, Start)
  BY <1>2 DEF WalkInv, Walked
<1>4. \A e \in Issued(n) : e.required \in selected'
  BY <1>1
<1>5. selected' \ queue' = (selected \ queue) \cup {n}
  BY <1>1, <1>3
<1>6. reached' = {e \in edges : e.issuer \in selected' \ queue'}
  BY <1>1, <1>3, <1>5 DEF Issued
<1>7. \A e \in reached' : e.required \in selected'
  BY <1>1, <1>3, <1>4
<1>8. NothingBut(selected', Start)
  <2> SUFFICES ASSUME NEW C \in SUBSET selected', Start \subseteq C,
                      \A e \in edges : e.issuer \in C /\ e.required \in selected'
                                         => e.required \in C
      PROVE  C = selected'
    BY DEF NothingBut
  <2>1. C \cap selected = selected
    <3>1. selected \subseteq selected'
      BY <1>1
    <3>2. ASSUME NEW e \in edges, e.issuer \in C \cap selected, e.required \in selected
          PROVE  e.required \in C \cap selected
      BY <3>1, <3>2
    <3>. QED
      BY <1>3, <3>2 DEF NothingBut
  <2>2. found \subseteq C
    BY <1>1, <1>3, <1>4, <2>1 DEF Issued
  <2>. QED
    BY <1>1, <2>1, <2>2
<1>9. Walked'
  BY <1>1, <1>2, <1>3, <1>6, <1>7, <1>8 DEF Walked, Start, NothingBut
<1>10. ClosuresList' /\ ClosuresExact'
  BY <1>2, ClosedKept
<1>. QED
  BY <1>9, <1>10 DEF WalkInv

\* Closing a goal: nothing waits, so that every edge of what is kept was followed.
LEMMA CloseGoalWalks ==
  ASSUME WalkInv, CloseGoal
  PROVE  WalkInv'
<1> DEFINE c == [selections |-> selected, edges |-> reached]
           n == Len(closures)
<1>1. /\ walking /\ queue = {} /\ walking' = FALSE
      /\ closures' = Append(closures, c)
      /\ UNCHANGED <<edges, roots>>
  BY DEF CloseGoal
<1>2. /\ Start \subseteq selected
      /\ reached = {e \in edges : e.issuer \in selected}
      /\ ClosedUnderEdges(selected)
      /\ NothingBut(selected, Start)
  BY <1>1 DEF WalkInv, Walked, ClosedUnderEdges
<1>3. /\ n \in Nat /\ Len(closures') = n + 1
      /\ \A i \in 1..n : closures'[i] = closures[i]
      /\ closures'[n + 1] = c
      /\ closures' \in Seq({closures[i] : i \in 1..n} \cup {c})
  <2>1. closures \in Seq({closures[i] : i \in 1..n} \cup {c})
    BY DEF WalkInv, ClosuresList
  <2> HIDE DEF c
  <2>. QED
    BY <1>1, <2>1, AppendProperties, LenProperties
<1>4. \A i \in 1..(n + 1) : i \in 1..n \/ i = n + 1
  BY <1>3
<1>5. ClosuresList'
  <2>1. {closures[i] : i \in 1..n} \cup {c} \subseteq {closures'[i] : i \in 1..Len(closures')}
    BY <1>3
  <2>2. \A S, T : S \subseteq T => Seq(S) \subseteq Seq(T)
    OBVIOUS
  <2>. QED
    BY <1>3, <2>1, <2>2 DEF ClosuresList
<1>6. ClosuresExact'
  <2> SUFFICES ASSUME NEW i \in 1..(n + 1)
      PROVE  LET kept == closures'[i].selections
             IN /\ roots[i] \subseteq kept
                /\ ClosedUnderEdges(kept)
                /\ \A C \in SUBSET kept :
                     roots[i] \subseteq C /\ ClosedUnderEdges(C) => C = kept
                /\ closures'[i].edges = {e \in edges : e.issuer \in kept}
    BY <1>1, <1>3 DEF ClosuresExact, ClosedUnderEdges
  <2>1. CASE i \in 1..n
    BY <1>3, <2>1 DEF WalkInv, ClosuresExact
  <2>2. CASE i = n + 1
    <3>1. /\ closures'[i].selections = selected /\ closures'[i].edges = reached
          /\ roots[i] = Start
      BY <1>3, <2>2 DEF Start
    <3>2. \A C \in SUBSET selected : Start \subseteq C /\ ClosedUnderEdges(C) => C = selected
      BY <1>2 DEF NothingBut, ClosedUnderEdges
    <3>. QED
      BY <1>2, <3>1, <3>2
  <2>. QED
    BY <1>4, <2>1, <2>2
<1>7. Walked'
  BY <1>1 DEF Walked
<1>. QED
  BY <1>5, <1>6, <1>7 DEF WalkInv

\* A step that touches nothing.
LEMMA StutterWalks ==
  ASSUME WalkInv, UNCHANGED all_vars
  PROVE  WalkInv'
<1>1. Walked'
  BY DEF all_vars, WalkInv, Walked, Start, NothingBut
<1>2. ClosuresList' /\ ClosuresExact'
  BY ClosedKept DEF all_vars
<1>. QED
  BY <1>1, <1>2 DEF WalkInv

\* Before the first goal nothing is walked or closed.
LEMMA WalkInit == NothingClosed => WalkInv
BY EmptySeq DEF NothingClosed, WalkInv, ClosuresList, Walked, ClosuresExact

\* Each closed goal holds what its members reach, nothing else, and every edge of it,
\* in whatever order the queue is visited.
THEOREM ClosesExactly == Spec => []ClosuresExact
<1>1. Init => WalkInv
  BY WalkInit DEF Init
<1>2. WalkInv /\ [Next]_all_vars => WalkInv'
  BY OpenGoalWalks, VisitWalks, CloseGoalWalks, StutterWalks DEF Next
<1>3. WalkInv => ClosuresExact
  BY DEF WalkInv
<1>. QED
  BY <1>1, <1>2, <1>3, PTL DEF Spec
=============================================================================
