----------------------------- MODULE ResultProofs -----------------------------
(***************************************************************************)
(* The result is the graph that the expanded keys declare: what is         *)
(* recorded was declared, and what is declared was recorded or lies ahead  *)
(* of a running activation.  Hence why the engine fails, and that it       *)
(* implements the contract.                                                *)
(*                                                                         *)
(* Then where the parts of a result come from: which authority and         *)
(* environment a selection has, which key issued an edge, and that the     *)
(* reasons lead from the goals to every selection.                         *)
(***************************************************************************)
EXTENDS ResolverProofs

\* What is recorded is declared by a goal or by an expanded key.
RecordSound ==
  /\ selections \subseteq DeclaredSelections(request, expanded)
  /\ edges \subseteq DeclaredEdges(request, expanded)
  /\ reasons \subseteq DeclaredReasons(request, expanded)

\* An edge is recorded with what it requires and with its reason.
EdgesExplained ==
  \A e \in edges : e.required \in selections /\ EdgeReason(e) \in reasons

\* The roots behind the cursor over goals and paths are recorded ...
RootsRecorded ==
  \A g \in 1..Len(request.goals) : KnownGoal(request, request.goals[g]) =>
    \A j \in 1..Len(GoalPackages(request, request.goals[g])) :
      g < goal \/ (g = goal /\ j < path) =>
        /\ Select(request, RootDemand(request, request.goals[g], j)) \in selections
        /\ RootReason(request, request.goals[g], j) \in reasons

\* ... and so are the edges of each expanded key, up to the cursor of the
\* activation that serves it.
KeysRecorded ==
  \A k \in expanded : \A j \in 1..Len(Requirements(request, k)) :
    Awaits(k, j) \/ EdgeFor(request, k, j) \in edges

Recorded == RecordSound /\ EdgesExplained /\ RootsRecorded /\ KeysRecorded

-----------------------------------------------------------------------------
(***************************************************************************)
(* What is declared grows with the memo, and each step records part of it. *)
(***************************************************************************)
LEMMA DeclaredMonotone ==
  ASSUME NEW r, NEW K, NEW L, K \subseteq L
  PROVE  /\ DeclaredSelections(r, K) \subseteq DeclaredSelections(r, L)
         /\ DeclaredEdges(r, K) \subseteq DeclaredEdges(r, L)
         /\ DeclaredReasons(r, K) \subseteq DeclaredReasons(r, L)
<1>1. DeclaredEdges(r, K) \subseteq DeclaredEdges(r, L)
  BY DEF DeclaredEdges
<1>2. Demands(r, K) \subseteq Demands(r, L)
  BY DEF Demands
<1>. QED
  BY <1>1, <1>2 DEF DeclaredSelections, DeclaredReasons

\* What a requirement of an expanded key records is declared.
LEMMA EdgeDeclared ==
  ASSUME NEW r, NEW K, NEW k \in K, NEW j \in 1..Len(Requirements(r, k))
  PROVE  /\ EdgeFor(r, k, j) \in DeclaredEdges(r, K)
         /\ EdgeReason(EdgeFor(r, k, j)) \in DeclaredReasons(r, K)
         /\ Select(r, RequirementDemand(r, k, j)) \in DeclaredSelections(r, K)
<1>1. EdgeFor(r, k, j) \in DeclaredEdges(r, K)
  BY DEF DeclaredEdges
<1>2. RequirementDemand(r, k, j) \in Demands(r, K)
  BY DEF Demands, KeyDemands
<1>. QED
  BY <1>1, <1>2 DEF DeclaredReasons, DeclaredSelections

\* What a path of a goal records is declared.
LEMMA RootDeclared ==
  ASSUME NEW r, NEW K, NEW g \in 1..Len(r.goals), KnownGoal(r, r.goals[g]),
         NEW j \in 1..Len(GoalPackages(r, r.goals[g]))
  PROVE  /\ Select(r, RootDemand(r, r.goals[g], j)) \in DeclaredSelections(r, K)
         /\ RootReason(r, r.goals[g], j) \in DeclaredReasons(r, K)
<1>1. RootDemand(r, r.goals[g], j) \in Demands(r, K)
  BY DEF Demands, RootDemands
<1>2. RootReason(r, r.goals[g], j) \in RootReasons(r)
  BY DEF RootReasons
<1>. QED
  BY <1>1, <1>2 DEF DeclaredReasons, DeclaredSelections

-----------------------------------------------------------------------------
(***************************************************************************)
(* What is awaited stays so until the turn of the loop that serves it.     *)
(***************************************************************************)

\* Only the innermost activation can stop awaiting a requirement.
LEMMA AwaitedBelow ==
  ASSUME IInv, stack # <<>>, NEW k, NEW j, Awaits(k, j),
         Len(stack) - 1 <= Len(stack'), Len(stack') \in Nat,
         \A i \in 1..(Len(stack) - 1) : stack'[i] = stack[i]
  PROVE  Awaits(k, j)' \/ (Top.key = k /\ Top.next > 0 /\ Top.next <= j)
<1>1. Len(stack) \in Nat \ {0}
  BY TopType
<1>2. PICK i \in 1..Len(stack) : stack[i].key = k /\ stack[i].next > 0 /\ stack[i].next <= j
  BY DEF Awaits
<1>3. CASE i = Len(stack)
  BY <1>2, <1>3 DEF Top
<1>4. CASE i # Len(stack)
  <2>1. i \in 1..(Len(stack) - 1) /\ i \in 1..Len(stack')
    BY <1>1, <1>4
  <2>. QED
    BY <1>2, <2>1 DEF Awaits
<1>. QED
  BY <1>3, <1>4

\* A step that records nothing and expands nothing, and on whose stack all that
\* was awaited still is.
LEMMA RecordKept ==
  ASSUME Recorded, UNCHANGED <<request, expanded, goal, path>>, UNCHANGED result,
         \A k \in expanded : \A j \in 1..Len(Requirements(request, k)) :
           Awaits(k, j) => Awaits(k, j)'
  PROVE  Recorded'
<1>1. UNCHANGED <<request, expanded, goal, path, selections, edges, reasons>>
  BY DEF result
<1>2. RecordSound' /\ EdgesExplained' /\ RootsRecorded'
  BY <1>1 DEF Recorded, RecordSound, EdgesExplained, RootsRecorded
<1>3. KeysRecorded'
  BY <1>1 DEF Recorded, KeysRecorded
<1>. QED
  BY <1>2, <1>3 DEF Recorded

\* A throw.
LEMMA FailRecorded ==
  ASSUME Recorded, NEW code, Fail(code), expanded' = expanded
  PROVE  Recorded'
<1>1. UNCHANGED <<request, expanded, goal, path, stack>> /\ UNCHANGED result
  BY DEF Fail, roots
<1>. QED
  BY <1>1, RecordKept DEF Awaits

\* The end of an activation: it awaits no requirement any more.
LEMMA PopRecorded ==
  ASSUME IInv, Recorded, stack # <<>>, stack' = Popped(stack),
         UNCHANGED <<request, roots, expanded, result>>,
         Top.next = 0 \/ Top.next > Len(ReqsOf(Top))
  PROVE  Recorded'
<1>1. /\ stack' \in Seq(Frame)
      /\ Len(stack') = Len(stack) - 1
      /\ \A i \in 1..Len(stack') : stack'[i] = stack[i]
  BY PopStack, TopType
<1>2. Len(stack) \in Nat \ {0} /\ Top \in Frame
  BY TopType
<1>3. ASSUME NEW k \in expanded, NEW j \in 1..Len(Requirements(request, k)), Awaits(k, j)
      PROVE  Awaits(k, j)'
  <2>1. Len(stack') \in Nat /\ Len(stack) - 1 <= Len(stack')
        /\ \A i \in 1..(Len(stack) - 1) : stack'[i] = stack[i]
    BY <1>1, <1>2
  <2>2. Awaits(k, j)' \/ (Top.key = k /\ Top.next > 0 /\ Top.next <= j)
    BY <1>3, <2>1, AwaitedBelow
  <2>3. ~ (Top.key = k /\ Top.next > 0 /\ Top.next <= j)
    <3>1. Top.next \in Nat /\ Len(ReqsOf(Top)) \in Nat
      BY <1>2, TopType DEF Frame
    <3>. QED
      BY <3>1 DEF ReqsOf
  <2>. QED
    BY <2>2, <2>3
<1>4. UNCHANGED <<request, expanded, goal, path>> /\ UNCHANGED result
  BY DEF roots
<1>. QED
  BY <1>3, <1>4, RecordKept

\* Entering an activation: all requirements of its key are awaited.
LEMMA EnterRecorded ==
  ASSUME IInv, Recorded, Enter
  PROVE  Recorded'
<1>1. status = "resolving" /\ stack # <<>> /\ Top.next = 0
  BY DEF Enter, Called
<1>2. Supplies(Top.key.selection, Top.key.scope)
  BY <1>1, TopType DEF BackedKey
<1>3. /\ stack' = Advanced(stack)
      /\ expanded' = expanded \cup {Top.key}
      /\ UNCHANGED <<request, status, error, roots, result>>
  BY <1>2 DEF Enter
<1>4. UNCHANGED <<request, goal, path, selections, edges, reasons>>
  BY <1>3 DEF roots, result
<1>5. /\ stack' \in Seq(Frame)
      /\ Len(stack') = Len(stack)
      /\ \A i \in 1..Len(stack) : stack'[i].key = stack[i].key
      /\ \A i \in 1..(Len(stack) - 1) : stack'[i] = stack[i]
      /\ stack'[Len(stack)].next = 1
      /\ Len(stack) \in Nat \ {0}
  BY <1>1, <1>3, TopType, AdvanceStack DEF Top
<1>6. RecordSound'
  BY <1>3, <1>4, DeclaredMonotone DEF Recorded, RecordSound
<1>7. EdgesExplained' /\ RootsRecorded'
  BY <1>4 DEF Recorded, EdgesExplained, RootsRecorded
<1>8. KeysRecorded'
  <2> SUFFICES ASSUME NEW k \in expanded', NEW j \in 1..Len(Requirements(request, k))
      PROVE  Awaits(k, j)' \/ EdgeFor(request, k, j) \in edges
    BY <1>4 DEF KeysRecorded, Awaits
  <2>1. CASE k = Top.key
    <3>1. stack'[Len(stack)].key = k /\ stack'[Len(stack)].next = 1 /\ 1 <= j
          /\ Len(stack) \in 1..Len(stack')
      BY <1>5, <2>1 DEF Top
    <3>. QED
      BY <3>1 DEF Awaits
  <2>2. CASE k \in expanded /\ Awaits(k, j)
    <3>1. Len(stack') \in Nat /\ Len(stack) - 1 <= Len(stack')
      BY <1>5
    <3>. QED
      BY <1>1, <1>5, <2>2, <3>1, AwaitedBelow
  <2>. QED
    BY <1>3, <2>1, <2>2 DEF Recorded, KeysRecorded
<1>. QED
  BY <1>6, <1>7, <1>8 DEF Recorded

\* A turn of the loop records the edge of the requirement it serves.
LEMMA DemandRecorded ==
  ASSUME IInv, Recorded, DemandNext
  PROVE  Recorded'
<1> DEFINE n == Len(stack)
           e == EdgeFor(request, Top.key, Top.next)
           s == Select(request, RequirementDemand(request, Top.key, Top.next))
<1>1. /\ stack # <<>> /\ Top.next > 0 /\ Top.next <= Len(ReqsOf(Top))
      /\ UNCHANGED <<request, goal, path, expanded>>
      /\ selections' = selections \cup {s}
      /\ edges' = edges \cup {e}
      /\ reasons' = reasons \cup {EdgeReason(e)}
      /\ stack' = Advanced(stack) \o Calls(s, "run")
      /\ e.required = s
  BY DEF DemandNext, Serving, AddEdge, FollowUp, EdgeFor, roots
<1>2. /\ n \in Nat \ {0} /\ stack \in Seq(Frame) /\ Top \in Frame
      /\ BackedKey(request, Top.key) /\ Top.key \in expanded /\ IsRequest(request)
  BY <1>1, TopType DEF IInv, TypeOK, RunningExpanded, Top
<1>3. Top.next \in 1..Len(Requirements(request, Top.key))
  BY <1>1, <1>2, TopType DEF ReqsOf, Frame
<1>4. s \in Selection
  BY <1>2, <1>3, RequirementDemandType, SelectType
<1>5. /\ Len(stack') \in Nat /\ n <= Len(stack')
      /\ \A i \in 1..(n - 1) : stack'[i] = stack[i]
      /\ stack'[n].key = Top.key /\ stack'[n].next = Top.next + 1
  BY <1>1, <1>2, <1>4, DemandStack DEF Top
<1>6. RecordSound'
  <2>1. /\ e \in DeclaredEdges(request, expanded)
        /\ EdgeReason(e) \in DeclaredReasons(request, expanded)
        /\ s \in DeclaredSelections(request, expanded)
    BY <1>2, <1>3, EdgeDeclared
  <2> HIDE DEF e, s
  <2>. QED
    BY <1>1, <2>1 DEF Recorded, RecordSound
<1>7. EdgesExplained'
  <2> HIDE DEF e, s
  <2>. QED
    BY <1>1 DEF Recorded, EdgesExplained
<1>8. RootsRecorded'
  <2> HIDE DEF e, s
  <2>. QED
    BY <1>1 DEF Recorded, RootsRecorded
<1>9. KeysRecorded'
  <2> SUFFICES ASSUME NEW k \in expanded, NEW j \in 1..Len(Requirements(request, k)),
                      Awaits(k, j)
      PROVE  Awaits(k, j)' \/ EdgeFor(request, k, j) \in edges'
    BY <1>1 DEF Recorded, KeysRecorded
  <2>1. Len(stack) - 1 <= Len(stack')
    BY <1>2, <1>5
  <2>2. Awaits(k, j)' \/ (Top.key = k /\ Top.next <= j)
    BY <1>1, <1>5, <2>1, AwaitedBelow
  <2>3. CASE Top.key = k /\ Top.next = j
    BY <1>1, <2>3
  <2>4. CASE Top.key = k /\ Top.next <= j /\ Top.next # j
    <3>1. n \in 1..Len(stack')
      BY <1>2, <1>5
    <3>2. stack'[n].key = k /\ stack'[n].next > 0 /\ stack'[n].next <= j
      BY <1>3, <1>5, <2>4
    <3>. QED
      BY <3>1, <3>2 DEF Awaits
  <2>. QED
    BY <2>2, <2>3, <2>4
<1>. QED
  BY <1>6, <1>7, <1>8, <1>9 DEF Recorded

-----------------------------------------------------------------------------
(***************************************************************************)
(* The steps of resolve_goal: nothing is awaited while they are taken.     *)
(***************************************************************************)

\* One path of a goal records its selection and its reason.
LEMMA RootRecorded ==
  ASSUME IInv, Recorded, SelectRoot
  PROVE  Recorded'
<1> DEFINE s == Select(request, RootDemand(request, Goal, path))
           x == RootReason(request, Goal, path)
<1>1. /\ stack = <<>> /\ goal <= Len(request.goals) /\ Goal = request.goals[goal]
      /\ KnownGoal(request, Goal) /\ path <= Len(GoalPackages(request, Goal))
      /\ selections' = selections \cup {s}
      /\ reasons' = reasons \cup {x}
      /\ path' = path + 1
      /\ UNCHANGED <<request, goal, expanded, edges>>
  BY DEF SelectRoot, AtRoot, Goal
<1>2. /\ IsRequest(request) /\ goal \in 1..Len(request.goals) /\ path \in Nat \ {0}
      /\ Len(request.goals) \in Nat
  BY <1>1, LenProperties DEF IInv, TypeOK, IsRequest
<1>3. path \in 1..Len(GoalPackages(request, Goal))
  <2>1. Len(GoalPackages(request, Goal)) \in Nat
    BY <1>1, <1>2, GoalType, LenProperties
  <2>. QED
    BY <1>1, <1>2, <2>1
<1>4. s \in DeclaredSelections(request, expanded) /\ x \in DeclaredReasons(request, expanded)
  BY <1>1, <1>2, <1>3, RootDeclared
<1>5. \A k, j : ~ Awaits(k, j)
  BY <1>1, EmptySeq DEF Awaits
<1>6. RecordSound' /\ EdgesExplained'
  <2> HIDE DEF s, x
  <2>. QED
    BY <1>1, <1>4 DEF Recorded, RecordSound, EdgesExplained
<1>7. KeysRecorded'
  BY <1>1, <1>5 DEF Recorded, KeysRecorded
<1>8. RootsRecorded'
  <2> SUFFICES ASSUME NEW g \in 1..Len(request.goals),
                      KnownGoal(request, request.goals[g]),
                      NEW j \in 1..Len(GoalPackages(request, request.goals[g])),
                      g < goal \/ (g = goal /\ j < path')
      PROVE  /\ Select(request, RootDemand(request, request.goals[g], j)) \in selections'
             /\ RootReason(request, request.goals[g], j) \in reasons'
    BY <1>1 DEF RootsRecorded
  <2>1. CASE g < goal \/ (g = goal /\ j < path)
    BY <1>1, <2>1 DEF Recorded, RootsRecorded
  <2>2. CASE g = goal /\ j = path
    BY <1>1, <2>2
  <2>3. j \in Nat /\ (j < path' => j < path \/ j = path)
    BY <1>1, <1>2, GoalType, LenProperties
  <2>. QED
    BY <2>1, <2>2, <2>3
<1>. QED
  BY <1>6, <1>7, <1>8 DEF Recorded

\* The next goal begins when all paths of the last one are recorded.
LEMMA NextGoalRecorded ==
  ASSUME IInv, Recorded, NextGoal
  PROVE  Recorded'
<1>1. /\ stack = <<>> /\ goal <= Len(request.goals) /\ Goal = request.goals[goal]
      /\ KnownGoal(request, Goal) /\ path > Len(GoalPackages(request, Goal))
      /\ goal' = goal + 1 /\ path' = 1
      /\ UNCHANGED <<request, expanded, stack, selections, edges, reasons>>
  BY DEF NextGoal, AtRoot, Goal, result
<1>2. IsRequest(request) /\ goal \in Nat /\ path \in Nat
  BY LenProperties DEF IInv, TypeOK, IsRequest
<1>3. RecordSound' /\ EdgesExplained' /\ KeysRecorded'
  BY <1>1 DEF Recorded, RecordSound, EdgesExplained, KeysRecorded, Awaits
<1>4. RootsRecorded'
  <2> SUFFICES ASSUME NEW g \in 1..Len(request.goals),
                      KnownGoal(request, request.goals[g]),
                      NEW j \in 1..Len(GoalPackages(request, request.goals[g])),
                      g < goal + 1 \/ (g = goal + 1 /\ j < 1)
      PROVE  /\ Select(request, RootDemand(request, request.goals[g], j)) \in selections
             /\ RootReason(request, request.goals[g], j) \in reasons
    BY <1>1 DEF RootsRecorded
  <2>1. Len(GoalPackages(request, request.goals[g])) \in Nat
    BY <1>2, GoalType, LenProperties
  <2>2. g < goal \/ (g = goal /\ j < path)
    BY <1>1, <1>2, <2>1
  <2>. QED
    BY <2>2 DEF Recorded, RootsRecorded
<1>. QED
  BY <1>3, <1>4 DEF Recorded

-----------------------------------------------------------------------------
\* At the end nothing is awaited and every root is behind the cursor.
LEMMA ExactWhenResolved == IInv /\ Recorded => ResultExact
<1> SUFFICES ASSUME IInv, Recorded, status = "resolved" PROVE ResultExact
  BY DEF ResultExact
<1>1. stack = <<>> /\ goal = Len(request.goals) + 1
  BY DEF IInv, Finished
<1>2. Len(request.goals) \in Nat /\ Len(stack) = 0
  BY <1>1, LenProperties, EmptySeq DEF IInv, TypeOK, IsRequest
<1>3. ASSUME NEW k \in expanded, NEW j \in 1..Len(Requirements(request, k))
      PROVE  EdgeFor(request, k, j) \in edges
  <2>1. ~ Awaits(k, j)
    BY <1>2 DEF Awaits
  <2>. QED
    BY <2>1 DEF Recorded, KeysRecorded
<1>4. ASSUME NEW g \in 1..Len(request.goals), KnownGoal(request, request.goals[g]),
             NEW j \in 1..Len(GoalPackages(request, request.goals[g]))
      PROVE  /\ Select(request, RootDemand(request, request.goals[g], j)) \in selections
             /\ RootReason(request, request.goals[g], j) \in reasons
  <2>1. g < goal
    BY <1>1, <1>2
  <2>. QED
    BY <1>4, <2>1 DEF Recorded, RootsRecorded
<1>5. DeclaredEdges(request, expanded) \subseteq edges
  BY <1>3 DEF DeclaredEdges
<1>6. DeclaredReasons(request, expanded) \subseteq reasons
  <2>1. RootReasons(request) \subseteq reasons
    BY <1>4 DEF RootReasons
  <2>. QED
    BY <1>5, <2>1 DEF DeclaredReasons, Recorded, EdgesExplained
<1>7. DeclaredSelections(request, expanded) \subseteq selections
  <2>1. \A d \in RootDemands(request) : Select(request, d) \in selections
    BY <1>4 DEF RootDemands
  <2>2. ASSUME NEW k \in expanded, NEW j \in 1..Len(Requirements(request, k))
        PROVE  Select(request, RequirementDemand(request, k, j)) \in selections
    <3>1. EdgeFor(request, k, j).required \in selections
      BY <1>3 DEF Recorded, EdgesExplained
    <3>. QED
      BY <3>1 DEF EdgeFor
  <2>. QED
    BY <2>1, <2>2 DEF DeclaredSelections, Demands, KeyDemands
<1>. QED
  BY <1>5, <1>6, <1>7 DEF ResultExact, Recorded, RecordSound

\* Before anything is recorded the cursors have nothing behind them.
LEMMA RecordedInit == Init => Recorded
<1> SUFFICES ASSUME Init PROVE Recorded
  OBVIOUS
<1>1. /\ expanded = {} /\ selections = {} /\ edges = {} /\ reasons = {}
      /\ goal = 1 /\ path = 1
  BY DEF Init
<1>2. RootsRecorded
  BY <1>1 DEF RootsRecorded
<1>. QED
  BY <1>1, <1>2 DEF Recorded, RecordSound, EdgesExplained, KeysRecorded

\* Each step records what it declares.
LEMMA RecordedStep == IInv /\ Recorded /\ [Next]_vars => Recorded'
<1> SUFFICES ASSUME IInv, Recorded, [Next]_vars PROVE Recorded'
  OBVIOUS
<1>1. CASE SelectRoot
  BY <1>1, RootRecorded
<1>2. CASE RefuseRoot
  BY <1>2, FailRecorded DEF RefuseRoot
<1>3. CASE NextGoal
  BY <1>3, NextGoalRecorded
<1>4. CASE FinishRoots
  BY <1>4, RecordKept DEF FinishRoots, roots, Awaits
<1>5. CASE Enter
  BY <1>5, EnterRecorded
<1>6. CASE Skip
  BY <1>6, PopRecorded DEF Skip, Called
<1>7. CASE DemandNext
  BY <1>7, DemandRecorded
<1>8. CASE RefuseDemand
  BY <1>8, FailRecorded DEF RefuseDemand
<1>9. CASE Return
  BY <1>9, PopRecorded DEF Return, Serving
<1>10. CASE UNCHANGED vars
  BY <1>10, RecordKept DEF vars, result, Awaits
<1>. QED
  BY <1>1, <1>2, <1>3, <1>4, <1>5, <1>6, <1>7, <1>8, <1>9, <1>10 DEF Next

\* The result of a successful resolution has every edge, reason and selection the
\* expanded keys declare, and no other, whatever the memo suppressed.
THEOREM ResolvesExactly == Spec => []ResultExact
BY RecordedInit, RecordedStep, ExactWhenResolved, Inductive, PTL DEF Spec

-----------------------------------------------------------------------------
(***************************************************************************)
(* Why the engine fails: a failure names a demand that was refused, success*)
(* means that none was, and the throw that guards expand() against         *)
(* construction from installed state is never reached.                     *)
(***************************************************************************)

\* A thrown code is that of a refusal among the demands known when it is thrown.
Blamed == status = "failed" => error \in Refusals(request, expanded)

-----------------------------------------------------------------------------
\* The code of a demand refused is a refusal.
LEMMA DemandRefusal ==
  ASSUME NEW r, NEW K, NEW d \in Demands(r, K), Refused(r, d)
  PROVE  RefusalCode(r, d) \in Refusals(r, K)
BY DEF Refusals

\* A goal that throws is refused on its profile or on the path it is at.
LEMMA RefuseRootBlamed ==
  ASSUME IInv, RefuseRoot
  PROVE  Blamed'
<1>1. UNCHANGED <<request, expanded>>
  BY DEF RefuseRoot, Fail
<1>2. goal \in 1..Len(request.goals) /\ Goal = request.goals[goal]
  BY LenProperties DEF IInv, TypeOK, IsRequest, RefuseRoot, AtRoot, Goal
<1>3. CASE ~ KnownGoal(request, Goal) /\ Fail("unknown_profile")
  <2>1. "unknown_profile" \in Refusals(request, expanded)
    BY <1>2, <1>3 DEF Refusals
  <2>. QED
    BY <1>1, <1>3, <2>1 DEF Blamed, Fail
<1>4. CASE /\ KnownGoal(request, Goal)
           /\ path <= Len(GoalPackages(request, Goal))
           /\ Refused(request, RootDemand(request, Goal, path))
           /\ Fail(RefusalCode(request, RootDemand(request, Goal, path)))
  <2>1. path \in 1..Len(GoalPackages(request, Goal))
    <3>1. path \in Nat \ {0}
      BY DEF IInv, TypeOK
    <3>2. Len(GoalPackages(request, Goal)) \in Nat
      BY <1>2, <1>4, GoalType, LenProperties DEF IInv, TypeOK
    <3>. QED
      BY <1>4, <3>1, <3>2
  <2>2. RootDemand(request, Goal, path) \in Demands(request, expanded)
    BY <1>2, <1>4, <2>1 DEF Demands, RootDemands
  <2>3. RefusalCode(request, RootDemand(request, Goal, path))
          \in Refusals(request, expanded)
    BY <1>4, <2>2, DemandRefusal
  <2>. QED
    BY <1>1, <1>4, <2>3 DEF Blamed, Fail
<1>. QED
  BY <1>3, <1>4 DEF RefuseRoot

\* A requirement that throws belongs to an expanded key.
LEMMA RefuseDemandBlamed ==
  ASSUME IInv, RefuseDemand
  PROVE  Blamed'
<1>1. UNCHANGED <<request, expanded>>
  BY DEF RefuseDemand, Fail
<1>2. stack # <<>> /\ Top.next > 0
  BY DEF RefuseDemand, Serving
<1>3. Top.key \in expanded
  BY <1>2, TopType DEF IInv, RunningExpanded, Top
<1>4. Top.next \in 1..Len(Requirements(request, Top.key))
  <2>1. Top.next \in Nat /\ Len(ReqsOf(Top)) \in Nat
    BY <1>2, TopType DEF Frame
  <2>. QED
    BY <1>2, <2>1 DEF RefuseDemand, ReqsOf
<1>5. RequirementDemand(request, Top.key, Top.next) \in Demands(request, expanded)
  BY <1>3, <1>4 DEF Demands, KeyDemands
<1>6. RefusalCode(request, RequirementDemand(request, Top.key, Top.next))
        \in Refusals(request, expanded)
  BY <1>5, DemandRefusal DEF RefuseDemand
<1>. QED
  BY <1>1, <1>6 DEF Blamed, RefuseDemand, Fail

\* Every key that is entered can supply its scope, so that Enter does not throw.
LEMMA EnterSupplied ==
  ASSUME IInv, Enter
  PROVE  status' = "resolving"
<1>1. stack # <<>> /\ status = "resolving"
  BY DEF Enter, Called
<1>2. Supplies(Top.key.selection, Top.key.scope)
  BY <1>1, TopType DEF BackedKey
<1>. QED
  BY <1>1, <1>2 DEF Enter

\* Nothing is left to refuse once the engine has resolved every goal.
LEMMA NothingRefused ==
  ASSUME IInv, status = "resolved"
  PROVE  Refusals(request, expanded) = {}
<1>1. stack = <<>> /\ goal = Len(request.goals) + 1
  BY DEF IInv, Finished
<1>2. Len(request.goals) \in Nat /\ Len(stack) = 0
  BY <1>1, LenProperties, EmptySeq DEF IInv, TypeOK, IsRequest
<1>3. ASSUME NEW i \in 1..Len(request.goals)
      PROVE  /\ KnownGoal(request, request.goals[i])
             /\ \A j \in 1..Len(GoalPackages(request, request.goals[i])) :
                  ~ Refused(request, RootDemand(request, request.goals[i], j))
  <2>1. i < goal
    BY <1>1, <1>2
  <2>. QED
    BY <2>1 DEF IInv, RootsCovered, Covers
<1>4. ASSUME NEW k \in expanded, NEW j \in 1..Len(Requirements(request, k))
      PROVE  ~ Refused(request, RequirementDemand(request, k, j))
  <2>1. ~ Awaits(k, j)
    BY <1>2 DEF Awaits
  <2>. QED
    BY <2>1 DEF IInv, KeysCovered, Covers
<1>5. \A d \in Demands(request, expanded) : ~ Refused(request, d)
  BY <1>3, <1>4 DEF Demands, RootDemands, KeyDemands
<1>. QED
  BY <1>3, <1>5 DEF Refusals

-----------------------------------------------------------------------------
\* Each step that throws blames the demand it refused.
LEMMA BlamedStep == IInv /\ Blamed /\ [Next]_vars => Blamed'
<1> SUFFICES ASSUME IInv, Blamed, [Next]_vars PROVE Blamed'
  OBVIOUS
<1>1. CASE SelectRoot \/ NextGoal \/ FinishRoots
  BY <1>1 DEF SelectRoot, NextGoal, FinishRoots, AtRoot, Blamed
<1>2. CASE RefuseRoot
  BY <1>2, RefuseRootBlamed
<1>3. CASE Enter
  BY <1>3, EnterSupplied DEF Blamed
<1>4. CASE Skip \/ DemandNext \/ Return
  BY <1>4 DEF Skip, DemandNext, Return, Called, Serving, Blamed
<1>5. CASE RefuseDemand
  BY <1>5, RefuseDemandBlamed
<1>6. CASE UNCHANGED vars
  BY <1>6 DEF vars, Blamed
<1>. QED
  BY <1>1, <1>2, <1>3, <1>4, <1>5, <1>6 DEF Next

\* Each failure is about a refused demand of the request, each success about none.
THEOREM FailsForCause == Spec => []FailureJustified
<1>1. Init => Blamed
  BY DEF Init, Blamed
<1>2. IInv /\ Blamed => FailureJustified
  BY NothingRefused DEF Blamed, FailureJustified
<1>. QED
  BY <1>1, <1>2, BlamedStep, Inductive, PTL DEF Spec

\* A demand refused although an authority admits it is that of a requirement without
\* origins, or selects an installed package with a foreign release identity.
LEMMA ForeignRelease ==
  ASSUME NEW r, IsRequest(r), NEW d, Refused(r, d),
         RefusalCode(r, d) = "inconsistent_authority", d.traced
  PROVE  /\ d.package \in DOMAIN r.installed
         /\ ~ r.installed[d.package].release_matches
<1>1. Admitted(r, d)
  BY DEF RefusalCode
<1>2. Choice(r, d) = "installed" /\ ~ r.installed[d.package].release_matches
  BY <1>1 DEF Refused, Selects
<1>3. Preferred(r) \in Authority
  BY DEF IsRequest, Preferred, Authority
<1>4. Admits(r, d, "installed")
  BY <1>1, <1>2, <1>3 DEF Admitted, Choice, Other, Authority
<1>5. d.package \in DOMAIN r.installed
  BY <1>4 DEF Admits, InstalledOk
<1>. QED
  BY <1>2, <1>5

\* Installed state never supplies construction, for any goals, needs and policy, and
\* what is reported as inconsistent is a release or a requirement of the inputs.
THEOREM ConstructsFromCatalog == Spec => []ConstructionFromCatalog
<1>1. IInv /\ FailureJustified => ConstructionFromCatalog
  <2> SUFFICES ASSUME IInv, FailureJustified PROVE ConstructionFromCatalog
    OBVIOUS
  <2>1. \A i \in 1..Len(stack) : Supplies(stack[i].key.selection, stack[i].key.scope)
    BY DEF IInv, KeysBacked, KeysOf, BackedKey
  <2>2. \A k \in expanded : Supplies(k.selection, k.scope)
    BY DEF IInv, KeysBacked, BackedKey
  <2>3. ASSUME error = "inconsistent_authority"
        PROVE  \E d \in Demands(request, expanded) :
                 \/ ~ d.traced
                 \/ /\ d.package \in DOMAIN request.installed
                    /\ ~ request.installed[d.package].release_matches
    <3>1. error \in Refusals(request, expanded)
      BY <2>3 DEF IInv, TypeOK, FailureJustified
    <3>2. PICK d \in Demands(request, expanded) :
            Refused(request, d) /\ RefusalCode(request, d) = "inconsistent_authority"
      BY <2>3, <3>1 DEF Refusals
    <3>. QED
      BY <3>2, ForeignRelease DEF IInv, TypeOK
  <2>. QED
    BY <2>1, <2>2, <2>3 DEF ConstructionFromCatalog
<1>. QED
  BY <1>1, FailsForCause, Inductive, PTL

-----------------------------------------------------------------------------
(***************************************************************************)
(* The refinement of ResolutionContract.  The contract is an instance with *)
(* a copy of the selection rules, which is first shown to be the same.     *)
(***************************************************************************)

\* The contract's copy of the selection rules decides as the engine's.
LEMMA ContractSelects ==
  ASSUME NEW r, NEW d
  PROVE  /\ Contract!Refused(r, d) <=> Refused(r, d)
         /\ Contract!RefusalCode(r, d) = RefusalCode(r, d)
         /\ Contract!Select(r, d) = Select(r, d)
<1>1. \A a : Contract!Admits(r, d, a) <=> Admits(r, d, a)
  BY DEF Admits, Contract!Admits, CandidateOk, Contract!CandidateOk, InstalledOk,
    Contract!InstalledOk, Allows, Contract!Allows, SelectedTarget,
    Contract!SelectedTarget, FindCandidate, Contract!FindCandidate, Candidates,
    Contract!Candidates
<1>2. Contract!Choice(r, d) = Choice(r, d) /\ (Contract!Admitted(r, d) <=> Admitted(r, d))
  BY <1>1 DEF Choice, Contract!Choice, Preferred, Contract!Preferred, Other,
    Contract!Other, Admitted, Contract!Admitted, Authority, Contract!Authority
<1>. QED
  BY <1>2 DEF Refused, Contract!Refused, Selects, Contract!Selects, RefusalCode, Contract!RefusalCode, Select,
    Contract!Select, Candidates, Contract!Candidates

\* It derives the same demands from the goals and the expanded keys ...
LEMMA ContractDemands ==
  ASSUME NEW r, NEW g, NEW k, NEW i, NEW K
  PROVE  /\ Contract!KnownGoal(r, g) <=> KnownGoal(r, g)
         /\ Contract!GoalPackages(r, g) = GoalPackages(r, g)
         /\ Contract!Requirements(r, k) = Requirements(r, k)
         /\ Contract!RootDemand(r, g, i) = RootDemand(r, g, i)
         /\ Contract!RequirementDemand(r, k, i) = RequirementDemand(r, k, i)
         /\ Contract!Demands(r, K) = Demands(r, K)
BY DEF KnownGoal, Contract!KnownGoal, GoalPackages, Contract!GoalPackages,
    Requirements, Contract!Requirements, FindCandidate, Contract!FindCandidate,
    Candidates, Contract!Candidates, Supplies, Contract!Supplies, RootDemand,
    Contract!RootDemand, RootRequirement, Contract!RootRequirement, DemandFor,
    Contract!DemandFor, RequirementDemand, Contract!RequirementDemand,
    DependencyEnvironment, Contract!DependencyEnvironment, Demands,
    Contract!Demands, RootDemands, Contract!RootDemands, KeyDemands,
    Contract!KeyDemands

\* ... and from these the same successors, refusals and graph.
LEMMA ContractGraph ==
  ASSUME NEW r, NEW K
  PROVE  /\ Contract!Successors(r, K) = Successors(r, K)
         /\ Contract!Refusals(r, K) = Refusals(r, K)
         /\ Contract!DeclaredSelections(r, K) = DeclaredSelections(r, K)
         /\ Contract!DeclaredEdges(r, K) = DeclaredEdges(r, K)
         /\ Contract!DeclaredReasons(r, K) = DeclaredReasons(r, K)
<1>1. ASSUME NEW k PROVE Contract!Children(r, k) = Children(r, k)
  <2>1. /\ Contract!Requirements(r, k) = Requirements(r, k)
        /\ \A i : Contract!RequirementDemand(r, k, i) = RequirementDemand(r, k, i)
    BY ContractDemands
  <2>2. /\ \A d : Contract!Refused(r, d) <=> Refused(r, d)
        /\ \A d : Contract!Select(r, d) = Select(r, d)
    BY ContractSelects
  <2>3. \A s : Contract!Expansions(s, "run") = Expansions(s, "run")
    BY DEF Expansions, Contract!Expansions
  <2>. QED
    BY <2>1, <2>2, <2>3 DEF Children, Contract!Children
<1>2. ASSUME NEW g PROVE Contract!GoalKeys(r, g) = GoalKeys(r, g)
  <2>1. /\ Contract!GoalPackages(r, g) = GoalPackages(r, g)
        /\ \A i : Contract!RootDemand(r, g, i) = RootDemand(r, g, i)
    BY ContractDemands
  <2>2. /\ \A d : Contract!Refused(r, d) <=> Refused(r, d)
        /\ \A d : Contract!Select(r, d) = Select(r, d)
    BY ContractSelects
  <2>3. \A s, scope : Contract!Expansions(s, scope) = Expansions(s, scope)
    BY DEF Expansions, Contract!Expansions
  <2>. QED
    BY <2>1, <2>2, <2>3 DEF GoalKeys, Contract!GoalKeys
<1>3. Contract!Successors(r, K) = Successors(r, K)
  BY <1>1, <1>2, ContractDemands
  DEF Successors, Contract!Successors, RootKeys, Contract!RootKeys
<1>4. Contract!Refusals(r, K) = Refusals(r, K)
  <2>1. /\ \A d : Contract!Refused(r, d) <=> Refused(r, d)
        /\ \A d : Contract!RefusalCode(r, d) = RefusalCode(r, d)
    BY ContractSelects
  <2>2. /\ \A g : Contract!KnownGoal(r, g) <=> KnownGoal(r, g)
        /\ Contract!Demands(r, K) = Demands(r, K)
    BY ContractDemands
  <2>. QED
    BY <2>1, <2>2 DEF Refusals, Contract!Refusals
<1>5. Contract!DeclaredSelections(r, K) = DeclaredSelections(r, K)
  BY ContractSelects, ContractDemands DEF DeclaredSelections, Contract!DeclaredSelections
<1>6. Contract!DeclaredEdges(r, K) = DeclaredEdges(r, K)
  <2>1. \A k, i : Contract!EdgeFor(r, k, i) = EdgeFor(r, k, i)
    BY ContractSelects, ContractDemands DEF EdgeFor, Contract!EdgeFor
  <2>2. \A k : Contract!Requirements(r, k) = Requirements(r, k)
    BY ContractDemands
  <2>. QED
    BY <2>1, <2>2 DEF DeclaredEdges, Contract!DeclaredEdges
<1>7. Contract!RootReasons(r) = RootReasons(r)
  <2>1. \A g, i : Contract!RootReason(r, g, i) = RootReason(r, g, i)
    BY ContractSelects, ContractDemands DEF RootReason, Contract!RootReason
  <2>2. /\ \A g : Contract!KnownGoal(r, g) <=> KnownGoal(r, g)
        /\ \A g : Contract!GoalPackages(r, g) = GoalPackages(r, g)
    BY ContractDemands
  <2>. QED
    BY <2>1, <2>2 DEF RootReasons, Contract!RootReasons
<1>8. Contract!DeclaredReasons(r, K) = DeclaredReasons(r, K)
  <2>1. \A e : Contract!EdgeReason(e) = EdgeReason(e)
    BY DEF EdgeReason, Contract!EdgeReason, ReasonForScope, Contract!ReasonForScope
  <2>. QED
    BY <1>6, <1>7, <2>1 DEF DeclaredReasons, Contract!DeclaredReasons
<1>. QED
  BY <1>3, <1>4, <1>5, <1>6, <1>8

\* What the contract asks of a success.
Settled ==
  status = "resolved" =>
    /\ Closed(request, expanded)
    /\ Refusals(request, expanded) = {}
    /\ ResultExact

\* At the end the memo is closed, nothing was refused and the record is exact.
LEMMA SettledWhenResolved == IInv /\ Recorded => Settled
BY LeastClosureWhenResolved, NothingRefused, ExactWhenResolved DEF Settled, LeastClosure

\* Entering a key is the growth of the contract's set: the key was called for.
LEMMA EnterGrows ==
  ASSUME IInv, Enter
  PROVE  Contract!Grow
<1>1. stack # <<>> /\ status = "resolving" /\ Top.key \notin expanded
      /\ expanded' = expanded \cup {Top.key} /\ request' = request
  BY DEF Enter, Called, Fail
<1>2. status' = "resolving"
  BY EnterSupplied
<1>3. Top.key \in KeysOf(stack)
  BY <1>1, TopType DEF KeysOf, Top
<1>4. Top.key \in Contract!Successors(request, expanded) \ expanded
  BY <1>1, <1>3, ContractGraph DEF IInv, CallsSound
<1>5. Outcome = Contract!Open /\ Outcome' = Outcome
  BY <1>1, <1>2 DEF Outcome, Contract!Open
<1>. QED
  BY <1>1, <1>4, <1>5 DEF Contract!Grow

\* A throw is a refusal of the contract.
LEMMA ThrowRefuses ==
  ASSUME status = "resolving", status' = "failed", Blamed',
         UNCHANGED <<request, expanded>>
  PROVE  Contract!Refuse
<1>1. error' \in Contract!Refusals(request, expanded)
  BY ContractGraph DEF Blamed
<1>2. Outcome = Contract!Open /\ Outcome' = Contract!Refusal(error')
  BY DEF Outcome, Contract!Open, Contract!Refusal
<1>. QED
  BY <1>1, <1>2 DEF Contract!Refuse

\* The end of the last goal is the contract's success.
LEMMA FinishSatisfies ==
  ASSUME Settled', FinishRoots
  PROVE  Contract!Satisfy
<1>1. /\ status = "resolving" /\ status' = "resolved"
      /\ UNCHANGED <<request, expanded, selections, edges, reasons>>
  BY DEF FinishRoots, result
<1>2. /\ Closed(request, expanded)
      /\ Refusals(request, expanded) = {}
      /\ selections = DeclaredSelections(request, expanded)
      /\ edges = DeclaredEdges(request, expanded)
      /\ reasons = DeclaredReasons(request, expanded)
  BY <1>1 DEF Settled, ResultExact
<1>3. Contract!Closed(request, expanded) /\ Contract!Refusals(request, expanded) = {}
  BY <1>2, ContractGraph DEF Closed, Contract!Closed
<1>4. Outcome = Contract!Open /\ Outcome' = Contract!Result(request, expanded)
  BY <1>1, <1>2, ContractGraph DEF Outcome, Contract!Open, Contract!Result
<1>. QED
  BY <1>1, <1>3, <1>4 DEF Contract!Satisfy

\* Each step of the engine is one of the contract, or one it does not see.
LEMMA ContractStep ==
  IInv /\ Blamed' /\ Settled' /\ [Next]_vars => [Contract!Next]_(Contract!contract_vars)
<1> SUFFICES ASSUME IInv, Blamed', Settled', [Next]_vars
    PROVE  [Contract!Next]_(Contract!contract_vars)
  OBVIOUS
<1>1. ASSUME UNCHANGED <<request, expanded, status>>,
             status = "resolving" \/ UNCHANGED <<error, selections, edges, reasons>>
      PROVE  UNCHANGED Contract!contract_vars
  BY <1>1 DEF Contract!contract_vars, Outcome
<1>2. CASE SelectRoot \/ NextGoal \/ Skip \/ DemandNext \/ Return
  BY <1>1, <1>2
  DEF SelectRoot, NextGoal, AtRoot, Skip, Called, DemandNext, Return, Serving
<1>3. CASE Enter
  BY <1>3, EnterGrows DEF Contract!Next
<1>4. CASE RefuseRoot \/ RefuseDemand
  <2>1. /\ status = "resolving" /\ status' = "failed"
        /\ UNCHANGED <<request, expanded>>
    BY <1>4 DEF RefuseRoot, AtRoot, RefuseDemand, Serving, Fail
  <2>. QED
    BY <2>1, ThrowRefuses DEF Contract!Next
<1>5. CASE FinishRoots
  BY <1>5, FinishSatisfies DEF Contract!Next
<1>6. CASE UNCHANGED vars
  BY <1>1, <1>6 DEF vars
<1>. QED
  BY <1>2, <1>3, <1>4, <1>5, <1>6 DEF Next

\* The engine implements the contract, for any requests: whatever order the goals,
\* the recursion and the memo impose, a result is the graph of the least closure of
\* an unrefused request, and a failure is one of its refusals.
THEOREM ImplementsContractSafety ==
  Spec => Contract!Init /\ [][Contract!Next]_(Contract!contract_vars)
<1>1. Init => Contract!Init
  BY DEF Init, Contract!Init, Contract!Open, Outcome
<1>2. Init => Blamed
  BY DEF Init, Blamed
<1>. QED
  BY <1>1, <1>2, InitInv, InductiveStep, RecordedInit, RecordedStep, BlamedStep,
     SettledWhenResolved, ContractStep, PTL DEF Spec

-----------------------------------------------------------------------------
(***************************************************************************)
(* Where selections and edges come from.                                   *)
(***************************************************************************)

\* The selections a goal has collected.
MembersOf(i) == {m.selection : m \in members[i]}

\* Nothing is expanded, outstanding, collected or explained but what was selected.
KeysSelected ==
  \A k \in expanded \cup KeysOf(stack) : k.selection \in selections

MembersSelected ==
  \A i \in 1..Len(request.goals) : MembersOf(i) \subseteq selections

ReasonsSelected ==
  \A x \in reasons : x.selection \in selections

\* A check or lifecycle scope is only ever that of a goal and of its own members.
KeysScoped ==
  \A k \in expanded \cup KeysOf(stack) : k.scope \notin {"run", "build"} =>
    \E i \in 1..Len(request.goals) :
      request.goals[i].scope = k.scope /\ k.selection \in MembersOf(i)

\* The roots behind the cursor over goals and paths are members of their goals.
RootsCollected ==
  \A g \in 1..Len(request.goals) : KnownGoal(request, request.goals[g]) =>
    \A j \in 1..Len(GoalPackages(request, request.goals[g])) :
      g < goal \/ (g = goal /\ j < path) =>
        Select(request, RootDemand(request, request.goals[g], j)) \in MembersOf(g)

Placed ==
  /\ KeysSelected
  /\ MembersSelected
  /\ ReasonsSelected
  /\ KeysScoped
  /\ RootsCollected
  /\ AuthorityByPolicy
  /\ EnvironmentSeparation
  /\ RootScopedEdges
  /\ Explained

-----------------------------------------------------------------------------
(***************************************************************************)
(* Steps that select nothing.                                              *)
(***************************************************************************)

\* The keys expanded or outstanding are those there were, and the record is kept.
Quiet ==
  /\ UNCHANGED <<request, members, selections, edges, reasons>>
  /\ expanded' \cup KeysOf(stack') \subseteq expanded \cup KeysOf(stack)

\* All but the selection of a root and the service of a demand are such steps.
LEMMA QuietSteps ==
  ASSUME IInv,
         \/ RefuseRoot \/ NextGoal \/ FinishRoots \/ Enter \/ Skip
         \/ RefuseDemand \/ Return \/ UNCHANGED vars
  PROVE  Quiet
<1>1. ASSUME UNCHANGED <<request, members, selections, edges, reasons, expanded>>,
             stack' = stack \/ (stack # <<>> /\ stack' = Popped(stack))
      PROVE  Quiet
  <2>1. KeysOf(stack') \subseteq KeysOf(stack)
    BY <1>1, PopStack DEF IInv, TypeOK
  <2>. QED
    BY <1>1, <2>1 DEF Quiet
<1>2. CASE RefuseRoot \/ RefuseDemand \/ NextGoal \/ FinishRoots \/ UNCHANGED vars
  BY <1>1, <1>2
  DEF RefuseRoot, RefuseDemand, NextGoal, FinishRoots, Fail, roots, result, vars
<1>3. CASE Skip \/ Return
  BY <1>1, <1>3 DEF Skip, Called, Return, Serving, roots, result
<1>4. CASE Enter
  <2>1. /\ stack # <<>> /\ stack \in Seq(Frame)
        /\ expanded' = expanded \cup {Top.key}
        /\ stack' = Advanced(stack)
        /\ UNCHANGED <<request, members, selections, edges, reasons>>
    BY <1>4, TopType DEF Enter, Called, roots, result, IInv, TypeOK, BackedKey
  <2>2. KeysOf(stack') = KeysOf(stack) /\ Top.key \in KeysOf(stack)
    BY <2>1, AdvanceStack, TopType DEF KeysOf, Top
  <2>. QED
    BY <2>1, <2>2 DEF Quiet
<1>. QED
  BY <1>2, <1>3, <1>4

\* What is placed stays placed.
LEMMA QuietPlaced ==
  ASSUME Placed, Quiet
  PROVE  /\ KeysSelected' /\ MembersSelected' /\ ReasonsSelected' /\ KeysScoped'
         /\ AuthorityByPolicy' /\ EnvironmentSeparation' /\ RootScopedEdges' /\ Explained'
<1>1. KeysSelected' /\ KeysScoped'
  BY DEF Placed, Quiet, KeysSelected, KeysScoped, MembersOf
<1>2. MembersSelected' /\ ReasonsSelected'
  BY DEF Placed, Quiet, MembersSelected, ReasonsSelected, MembersOf
<1>3. AuthorityByPolicy' /\ EnvironmentSeparation' /\ RootScopedEdges'
  BY DEF Placed, Quiet, AuthorityByPolicy, EnvironmentSeparation, RootScopedEdges
<1>4. Explained'
  BY DEF Placed, Quiet, Explained
<1>. QED
  BY <1>1, <1>2, <1>3, <1>4

\* Moving to the next goal leaves all paths of the last one behind the cursor.
LEMMA QuietCollected ==
  ASSUME IInv, Placed,
         \/ RefuseRoot \/ NextGoal \/ FinishRoots \/ Enter \/ Skip
         \/ RefuseDemand \/ Return \/ UNCHANGED vars
  PROVE  RootsCollected'
<1>1. UNCHANGED <<request, members>>
  BY QuietSteps DEF Quiet
<1>2. CASE UNCHANGED <<goal, path>>
  BY <1>1, <1>2 DEF Placed, RootsCollected, MembersOf
<1>3. CASE NextGoal
  <2>1. /\ goal \in Nat /\ path \in Nat /\ IsRequest(request)
        /\ goal' = goal + 1 /\ path' = 1
        /\ path > Len(GoalPackages(request, request.goals[goal]))
    BY <1>3 DEF NextGoal, Goal, IInv, TypeOK
  <2> SUFFICES ASSUME NEW g \in 1..Len(request.goals),
                      KnownGoal(request, request.goals[g]),
                      NEW j \in 1..Len(GoalPackages(request, request.goals[g])),
                      g < goal + 1 \/ (g = goal + 1 /\ j < 1)
      PROVE  Select(request, RootDemand(request, request.goals[g], j)) \in MembersOf(g)
    BY <1>1, <2>1 DEF RootsCollected, MembersOf
  <2>2. Len(GoalPackages(request, request.goals[g])) \in Nat
    BY <2>1, GoalType, LenProperties
  <2>3. g < goal \/ (g = goal /\ j < path)
    BY <2>1, <2>2
  <2>. QED
    BY <2>3 DEF Placed, RootsCollected
<1>. QED
  BY <1>2, <1>3
  DEF RefuseRoot, FinishRoots, Enter, Skip, RefuseDemand, Return, Fail, roots, vars

-----------------------------------------------------------------------------
(***************************************************************************)
(* Steps that select.                                                      *)
(***************************************************************************)

\* A selection recorded with a reason whose issuer is selected is explained: the
\* reasons lead to the issuer, if there is one, and then to it.
LEMMA ExplainedGrows ==
  ASSUME Explained, ReasonsSelected, NEW x,
         selections' = selections \cup {x.selection},
         reasons' = reasons \cup {x},
         x.issuer \subseteq selections
  PROVE  Explained'
<1> DEFINE Rooted(R) == {y.selection : y \in {z \in R : z.issuer = {}}}
           ClosedUnder(R, C) ==
             /\ Rooted(R) \subseteq C
             /\ \A y \in {z \in R : z.issuer # {}} : y.issuer \subseteq C => y.selection \in C
<1>1. Rooted(reasons') \subseteq selections'
  BY DEF ReasonsSelected
<1>2. ASSUME NEW C \in SUBSET selections', ClosedUnder(reasons', C)
      PROVE  C = selections'
  <2>1. ClosedUnder(reasons, C)
    BY <1>2
  <2>2. ClosedUnder(reasons, C \cap selections)
    BY <2>1 DEF ReasonsSelected
  <2>3. C \cap selections = selections
    <3>1. \A D \in SUBSET selections : ClosedUnder(reasons, D) => D = selections
      BY DEF Explained
    <3> HIDE DEF ClosedUnder
    <3>. QED
      BY <2>2, <3>1
  <2>4. x.selection \in C
    BY <1>2, <2>3
  <2>. QED
    BY <2>3, <2>4
<1>. QED
  BY <1>1, <1>2 DEF Explained

\* One path of a goal: the selection is a member of the goal and a root.
LEMMA SelectRootPlaced ==
  ASSUME IInv, Placed, SelectRoot
  PROVE  Placed'
<1> DEFINE d == RootDemand(request, Goal, path)
           s == Select(request, d)
           x == RootReason(request, Goal, path)
<1>1. /\ IsRequest(request) /\ stack = <<>> /\ goal \in 1..Len(request.goals)
      /\ Goal = request.goals[goal] /\ KnownGoal(request, Goal)
      /\ path \in Nat /\ path \in 1..Len(GoalPackages(request, Goal))
  <2>1. /\ stack = <<>> /\ goal <= Len(request.goals) /\ Goal = request.goals[goal]
        /\ KnownGoal(request, Goal) /\ path <= Len(GoalPackages(request, Goal))
    BY DEF SelectRoot, AtRoot, Goal
  <2>2. /\ IsRequest(request) /\ goal \in 1..Len(request.goals)
        /\ path \in Nat \ {0}
    BY <2>1, LenProperties DEF IInv, TypeOK, IsRequest
  <2>3. Len(GoalPackages(request, Goal)) \in Nat
    BY <2>1, <2>2, GoalType, LenProperties
  <2>. QED
    BY <2>1, <2>2, <2>3
<1>2. /\ selections' = selections \cup {s}
      /\ members' = [members EXCEPT ![goal] = @ \cup
           {[selection |-> s, path |-> IF Goal.kind = "package" THEN 0 ELSE path]}]
      /\ reasons' = reasons \cup {x}
      /\ stack' = Calls(s, Goal.scope)
      /\ path' = path + 1
      /\ UNCHANGED <<request, goal, expanded, edges>>
  BY DEF SelectRoot
<1>3. s \in Selection /\ Goal.scope \in Scope
  BY <1>1, GoalType, RootDemandType, SelectType
<1>4. KeysOf(stack') = Expansions(s, Goal.scope)
  BY <1>2, <1>3, CallsStack
<1>5. /\ s.package = d.package /\ s.environment = "target"
      /\ s.authority = Choice(request, d)
      /\ d = DemandFor(s.package, "target", RootRequirement(Goal.scope))
  BY DEF Select, RootDemand, DemandFor
<1>6. x.selection = s /\ x.issuer = {}
  BY DEF RootReason
<1>7. /\ \A i \in 1..Len(request.goals) : i = goal => s \in MembersOf(i)'
      /\ \A i \in 1..Len(request.goals) : MembersOf(i) \subseteq MembersOf(i)'
      /\ \A i \in 1..Len(request.goals) : MembersOf(i)' \subseteq MembersOf(i) \cup {s}
  <2> HIDE DEF s
  <2>1. members \in [1..Len(request.goals) -> SUBSET Member]
    BY DEF IInv, TypeOK
  <2> DEFINE m == [selection |-> s, path |-> IF Goal.kind = "package" THEN 0 ELSE path]
  <2>2. m.selection = s
    OBVIOUS
  <2> HIDE DEF m
  <2>3. \A i \in 1..Len(request.goals) :
          members'[i] = IF i = goal THEN members[i] \cup {m} ELSE members[i]
    BY <1>1, <1>2, <2>1 DEF m
  <2>. QED
    BY <1>1, <2>2, <2>3 DEF MembersOf
<1> HIDE DEF s, x, d
<1>8. \A e \in Expansions(s, Goal.scope) :
        e.selection = s /\ e.scope \in {"build", Goal.scope}
  BY DEF Expansions
<1>9. KeysSelected' /\ MembersSelected' /\ ReasonsSelected'
  BY <1>2, <1>4, <1>6, <1>7, <1>8
  DEF Placed, KeysSelected, MembersSelected, ReasonsSelected
<1>10. KeysScoped'
  <2> SUFFICES ASSUME NEW k \in expanded \cup KeysOf(stack'), k.scope \notin {"run", "build"}
      PROVE  \E i \in 1..Len(request.goals) :
               request.goals[i].scope = k.scope /\ k.selection \in MembersOf(i)'
    BY <1>2 DEF KeysScoped
  <2>1. CASE k \in expanded
    BY <1>7, <2>1 DEF Placed, KeysScoped
  <2>2. CASE k \in KeysOf(stack')
    <3>1. k.selection = s /\ k.scope = Goal.scope
      BY <1>4, <1>8, <2>2
    <3>. QED
      BY <1>1, <1>7, <3>1
  <2>. QED
    BY <2>1, <2>2
<1>11. RootsCollected'
  <2> SUFFICES ASSUME NEW g \in 1..Len(request.goals),
                      KnownGoal(request, request.goals[g]),
                      NEW j \in 1..Len(GoalPackages(request, request.goals[g])),
                      g < goal \/ (g = goal /\ j < path + 1)
      PROVE  Select(request, RootDemand(request, request.goals[g], j)) \in MembersOf(g)'
    BY <1>2 DEF RootsCollected
  <2>1. CASE g < goal \/ (g = goal /\ j < path)
    BY <1>7, <2>1 DEF Placed, RootsCollected
  <2>2. CASE g = goal /\ j = path
    BY <1>1, <1>7, <2>2 DEF s, d
  <2>3. j \in Nat /\ (j < path + 1 => j < path \/ j = path)
    BY <1>1, GoalType, LenProperties
  <2>. QED
    BY <2>1, <2>2, <2>3
<1>12. AuthorityByPolicy'
  <2>1. CASE RootRequirement(Goal.scope) = "flexible"
    BY <1>2, <1>5, <1>7, <2>1 DEF Placed, AuthorityByPolicy, MembersOf
  <2>2. CASE RootRequirement(Goal.scope) # "flexible"
    BY <1>1, <1>2, <1>5, <1>7, <2>2 DEF Placed, AuthorityByPolicy, MembersOf
  <2>. QED
    BY <2>1, <2>2
<1>13. EnvironmentSeparation' /\ RootScopedEdges'
  <2>1. EnvironmentSeparation'
    BY <1>1, <1>2, <1>7 DEF Placed, EnvironmentSeparation, MembersOf
  <2>2. RootScopedEdges'
    BY <1>1, <1>2, <1>7 DEF Placed, RootScopedEdges, MembersOf
  <2>. QED
    BY <2>1, <2>2
<1>14. Explained'
  BY <1>2, <1>6, ExplainedGrows DEF Placed
<1>. QED
  BY <1>9, <1>10, <1>11, <1>12, <1>13, <1>14 DEF Placed

\* One requirement: it is selected by policy, in the environment its scope calls
\* for, on behalf of a selection that is there already.
LEMMA DemandPlaced ==
  ASSUME IInv, Placed, DemandNext
  PROVE  Placed'
<1> DEFINE d == RequirementDemand(request, Top.key, Top.next)
           s == Select(request, d)
           e == EdgeFor(request, Top.key, Top.next)
<1>1. /\ stack # <<>> /\ Top.next > 0 /\ Top.next <= Len(ReqsOf(Top))
      /\ selections' = selections \cup {s}
      /\ edges' = edges \cup {e}
      /\ reasons' = reasons \cup {EdgeReason(e)}
      /\ stack' = Advanced(stack) \o Calls(s, "run")
      /\ UNCHANGED <<request, goal, path, members, expanded>>
  BY DEF DemandNext, Serving, AddEdge, FollowUp, EdgeFor, roots
<1>2. /\ stack \in Seq(Frame) /\ Top \in Frame /\ IsRequest(request)
      /\ BackedKey(request, Top.key) /\ Top.key \in KeysOf(stack)
  BY <1>1, TopType DEF IInv, TypeOK, KeysOf, Top
<1>3. Top.next \in 1..Len(Requirements(request, Top.key))
  BY <1>1, <1>2, TopType DEF ReqsOf, Frame
<1>4. s \in Selection
  BY <1>2, <1>3, RequirementDemandType, SelectType
<1>5. KeysOf(stack') = KeysOf(stack) \cup Expansions(s, "run")
  BY <1>1, <1>2, <1>4, DemandStack
<1>6. /\ d.environment = DependencyEnvironment(Top.key.selection.environment, Top.key.scope)
      /\ Choice(request, d)
           = Choice(request, DemandFor(s.package, s.environment, "flexible"))
      /\ s.authority = Choice(request, d) /\ s.environment = d.environment
  <2>1. \A a : Admits(request, d, a)
               <=> Admits(request, DemandFor(s.package, s.environment, "flexible"), a)
    BY DEF Admits, Select, RequirementDemand, DemandFor
  <2>. QED
    BY <2>1 DEF Choice, Select, RequirementDemand
<1>7. /\ e.issuer = Top.key.selection /\ e.required = s /\ e.scope = Top.key.scope
      /\ e.environment = d.environment
  BY DEF EdgeFor
<1>8. EdgeReason(e).selection = s /\ EdgeReason(e).issuer = {Top.key.selection}
  BY <1>7 DEF EdgeReason
<1> HIDE DEF s, e, d
<1>9. Top.key.selection \in selections
  BY <1>2 DEF Placed, KeysSelected
<1>10. \A k \in Expansions(s, "run") : k.selection = s /\ k.scope \in {"run", "build"}
  BY DEF Expansions
<1>11. KeysSelected' /\ MembersSelected' /\ ReasonsSelected'
  BY <1>1, <1>5, <1>8, <1>10
  DEF Placed, KeysSelected, MembersSelected, ReasonsSelected, MembersOf
<1>12. KeysScoped'
  BY <1>1, <1>5, <1>10 DEF Placed, KeysScoped, MembersOf
<1>13. RootsCollected'
  BY <1>1 DEF Placed, RootsCollected, MembersOf
<1>14. AuthorityByPolicy'
  <2>1. s.authority = Choice(request, DemandFor(s.package, s.environment, "flexible"))
    BY <1>6
  <2>2. AuthorityByPolicy /\ selections' = selections \cup {s} /\ UNCHANGED <<request, members>>
    BY <1>1 DEF Placed
  <2>. QED
    BY <2>1, <2>2 DEF AuthorityByPolicy
<1>15. EnvironmentSeparation'
  <2>1. /\ e.environment = e.required.environment
        /\ e.issuer.environment = "build" \/ e.scope \in {"build", "check"}
             => e.required.environment = "build"
        /\ s.environment = "target" => e.required = s /\ e.issuer.environment = "target"
    <3>1. e.environment = s.environment /\ e.required = s
      BY <1>6, <1>7
    <3>2. s.environment =
            IF e.scope \in {"build", "check"} THEN "build" ELSE e.issuer.environment
      BY <1>6, <1>7 DEF DependencyEnvironment
    <3>. QED
      BY <3>1, <3>2
  <2>2. /\ EnvironmentSeparation /\ UNCHANGED <<request, members>>
        /\ selections' = selections \cup {s} /\ edges' = edges \cup {e}
    BY <1>1 DEF Placed
  <2>. QED
    BY <2>1, <2>2 DEF EnvironmentSeparation
<1>16. RootScopedEdges'
  <2>1. RootScopedEdges /\ edges' = edges \cup {e} /\ UNCHANGED <<request, members>>
    BY <1>1 DEF Placed
  <2>2. e.scope \notin {"run", "build"} =>
          \E i \in 1..Len(request.goals) :
            request.goals[i].scope = e.scope /\ e.issuer \in {m.selection : m \in members[i]}
    BY <1>2, <1>7 DEF Placed, KeysScoped, MembersOf
  <2>. QED
    BY <2>1, <2>2 DEF RootScopedEdges
<1>17. Explained'
  BY <1>1, <1>8, <1>9, ExplainedGrows DEF Placed
<1>. QED
  BY <1>11, <1>12, <1>13, <1>14, <1>15, <1>16, <1>17 DEF Placed

-----------------------------------------------------------------------------
\* Before anything is selected there is nothing to place.
LEMMA PlacedInit == Init => Placed
<1> SUFFICES ASSUME Init PROVE Placed
  OBVIOUS
<1>1. /\ expanded = {} /\ selections = {} /\ edges = {} /\ reasons = {}
      /\ stack = <<>> /\ goal = 1 /\ path = 1
      /\ members = [i \in 1..Len(request.goals) |-> {}]
  BY DEF Init
<1>2. KeysOf(stack) = {}
  BY <1>1, EmptySeq DEF KeysOf
<1>3. KeysSelected /\ MembersSelected /\ ReasonsSelected /\ KeysScoped
  BY <1>1, <1>2 DEF KeysSelected, MembersSelected, ReasonsSelected, KeysScoped, MembersOf
<1>4. RootsCollected
  <2>1. IsRequest(request)
    BY RequestsAssumption DEF Init
  <2>2. \A g \in 1..Len(request.goals) : KnownGoal(request, request.goals[g]) =>
          Len(GoalPackages(request, request.goals[g])) \in Nat
    BY <2>1, GoalType, LenProperties
  <2>. QED
    BY <1>1, <2>2 DEF RootsCollected
<1>5. AuthorityByPolicy /\ EnvironmentSeparation /\ RootScopedEdges /\ Explained
  BY <1>1 DEF AuthorityByPolicy, EnvironmentSeparation, RootScopedEdges, Explained
<1>. QED
  BY <1>3, <1>4, <1>5 DEF Placed

\* Each step places what it selects.
LEMMA PlacedStep == IInv /\ Placed /\ [Next]_vars => Placed'
<1> SUFFICES ASSUME IInv, Placed, [Next]_vars PROVE Placed'
  OBVIOUS
<1>1. CASE SelectRoot
  BY <1>1, SelectRootPlaced
<1>2. CASE DemandNext
  BY <1>2, DemandPlaced
<1>3. CASE \/ RefuseRoot \/ NextGoal \/ FinishRoots \/ Enter \/ Skip
           \/ RefuseDemand \/ Return \/ UNCHANGED vars
  BY <1>3, QuietSteps, QuietPlaced, QuietCollected DEF Placed
<1>. QED
  BY <1>1, <1>2, <1>3 DEF Next

\* It holds of every state of the engine.
LEMMA AlwaysPlaced == Spec => []Placed
BY PlacedInit, PlacedStep, Inductive, PTL DEF Spec

-----------------------------------------------------------------------------
(***************************************************************************)
(* The results.                                                            *)
(***************************************************************************)

\* Policy decides every selection but the target selections that a goal of another
\* scope than run demands from one authority, for any catalog and installed state.
THEOREM PolicyDecides == Spec => []AuthorityByPolicy
<1>1. Placed => AuthorityByPolicy
  BY DEF Placed
<1>. QED
  BY <1>1, AlwaysPlaced, PTL

\* Construction never leaves the build environment, and nothing enters the target
\* but a goal's root and what target selections require to run.
THEOREM EnvironmentsSeparate == Spec => []EnvironmentSeparation
<1>1. Placed => EnvironmentSeparation
  BY DEF Placed
<1>. QED
  BY <1>1, AlwaysPlaced, PTL

\* Check and lifecycle edges are issued by the members of a goal of that scope only.
THEOREM ScopesStayAtRoots == Spec => []RootScopedEdges
<1>1. Placed => RootScopedEdges
  BY DEF Placed
<1>. QED
  BY <1>1, AlwaysPlaced, PTL

\* At every moment the recorded reasons lead from the goals to every selection,
\* whatever cycles the requirements have.
THEOREM SelectionsExplained == Spec => []Explained
<1>1. Placed => Explained
  BY DEF Placed
<1>. QED
  BY <1>1, AlwaysPlaced, PTL
=============================================================================
