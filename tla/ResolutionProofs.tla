---------------------------- MODULE ResolutionProofs ----------------------------
(***************************************************************************)
(* The delivered result as a whole: the engine's record, the closures of   *)
(* the goals walked over it, and the vector of edges; and the answers of a *)
(* program that resolves one request after another.                        *)
(***************************************************************************)
EXTENDS Calls, ResultProofs, VectorProofs

\* What is proved of make_goal for any graph, here for the graph of the engine.
Walk == INSTANCE ClosureProofs
          WITH Graphs <- {}, Roots <- {}, roots <- MemberSelections

resolution_vars == <<vars, closure_vars>>

\* No goal is closed before all are resolved.
ClosedLast == walking \/ closures # <<>> => status = "resolved"

ResolutionInv == IInv /\ Recorded /\ Placed /\ Walk!WalkInv /\ ClosedLast

-----------------------------------------------------------------------------
(***************************************************************************)
(* The invariant is inductive.                                             *)
(***************************************************************************)

\* The engine moves while it resolves, and then nothing is closed.
LEMMA EngineMoves ==
  ASSUME Next
  PROVE  status = "resolving"
BY DEF Next, SelectRoot, RefuseRoot, NextGoal, FinishRoots, Enter, Skip, DemandNext,
   RefuseDemand, Return, AtRoot, Called, Serving

\* A step of the engine, while no goal is closed.
LEMMA ResolveKeeps ==
  ASSUME ResolutionInv, Resolve
  PROVE  ResolutionInv'
<1>1. Next /\ UNCHANGED <<walking, queue, selected, reached, closures>>
  BY DEF Resolve, closure_vars
<1>2. ~ walking /\ closures = <<>>
  BY <1>1, EngineMoves DEF ResolutionInv, ClosedLast
<1>3. IInv' /\ Recorded' /\ Placed'
  BY <1>1, InductiveStep, RecordedStep, PlacedStep DEF ResolutionInv
<1>4. Walk!WalkInv' /\ ClosedLast'
  BY <1>1, <1>2, EmptySeq
  DEF ClosedLast, Walk!WalkInv, Walk!ClosuresList, Walk!Walked, Walk!ClosuresExact
<1>. QED
  BY <1>3, <1>4 DEF ResolutionInv

\* While goals are closed the engine rests.
LEMMA ClosingKeeps ==
  ASSUME ResolutionInv, OpenGoal \/ VisitSelection \/ CloseGoal
  PROVE  ResolutionInv'
<1>1. UNCHANGED vars /\ status = "resolved"
  BY DEF OpenGoal, VisitSelection, CloseGoal, Closing!VisitSelection, Closing!CloseGoal,
     ResolutionInv, ClosedLast
<1>2. IInv' /\ Recorded' /\ Placed'
  BY <1>1, InductiveStep, RecordedStep, PlacedStep DEF ResolutionInv
<1>3. Walk!OpenGoal \/ Walk!VisitSelection \/ Walk!CloseGoal
  BY DEF OpenGoal, Closing!OpenGoal, Walk!OpenGoal,
     VisitSelection, Closing!VisitSelection, Walk!VisitSelection, Closing!Issued, Walk!Issued,
     CloseGoal, Closing!CloseGoal, Walk!CloseGoal
<1>4. Walk!WalkInv'
  BY <1>3, Walk!OpenGoalWalks, Walk!VisitWalks, Walk!CloseGoalWalks DEF ResolutionInv
<1>5. ClosedLast'
  BY <1>1 DEF vars, ClosedLast
<1>. QED
  BY <1>2, <1>4, <1>5 DEF ResolutionInv

\* The invariant holds at first.
LEMMA ResolutionInitInv == ResolutionInit => ResolutionInv
<1> SUFFICES ASSUME ResolutionInit PROVE ResolutionInv
  OBVIOUS
<1>1. Init /\ ~ walking /\ closures = <<>> /\ Walk!NothingClosed
  BY DEF ResolutionInit, Closing!NothingClosed, Walk!NothingClosed
<1>. QED
  BY <1>1, InitInv, RecordedInit, PlacedInit, Walk!WalkInit
  DEF ResolutionInv, ClosedLast

\* The invariant is inductive.
LEMMA ResolutionStep == ResolutionInv /\ [ResolutionNext]_resolution_vars => ResolutionInv'
<1> SUFFICES ASSUME ResolutionInv, [ResolutionNext]_resolution_vars PROVE ResolutionInv'
  OBVIOUS
<1>1. CASE UNCHANGED resolution_vars
  <2>1. /\ UNCHANGED vars
        /\ UNCHANGED <<walking, queue, selected, reached, closures>>
    BY <1>1 DEF resolution_vars, closure_vars
  <2>2. IInv' /\ Recorded' /\ Placed'
    BY <2>1, InductiveStep, RecordedStep, PlacedStep DEF ResolutionInv
  <2>3. Walk!WalkInv'
    <3>1. UNCHANGED Walk!all_vars
      BY <2>1 DEF vars, Walk!all_vars, MemberSelections
    <3>. QED
      BY <3>1, Walk!StutterWalks DEF ResolutionInv
  <2>. QED
    BY <2>1, <2>2, <2>3 DEF ResolutionInv, ClosedLast, vars
<1>. QED
  BY <1>1, ResolveKeeps, ClosingKeeps DEF ResolutionNext

-----------------------------------------------------------------------------
(***************************************************************************)
(* What a delivered closure holds.                                         *)
(***************************************************************************)

\* Closing!ClosuresExact, stated of the engine's members.
LEMMA ClosuresHold ==
  ASSUME ResolutionInv, NEW i \in 1..Len(closures)
  PROVE  LET kept == closures[i].selections
         IN /\ MemberSelections[i] \subseteq kept
            /\ \A e \in edges : e.issuer \in kept => e.required \in kept
            /\ \A C \in SUBSET kept :
                 /\ MemberSelections[i] \subseteq C
                 /\ \A e \in edges : e.issuer \in C => e.required \in C
                 => C = kept
            /\ closures[i].edges = {e \in edges : e.issuer \in kept}
BY DEF ResolutionInv, Walk!WalkInv, Walk!ClosuresExact, Walk!ClosedUnderEdges

\* When a result is delivered the engine has resolved every goal.
LEMMA DeliveredFacts ==
  ASSUME ResolutionInv, Delivered
  PROVE  /\ status = "resolved" /\ IsRequest(request)
         /\ Len(closures) = Len(request.goals) /\ Len(request.goals) \in Nat
         /\ edges = DeclaredEdges(request, expanded)
         /\ selections = DeclaredSelections(request, expanded)
         /\ reasons = DeclaredReasons(request, expanded)
         /\ Closed(request, expanded)
         /\ \A i \in 1..Len(request.goals) :
              /\ MemberSelections[i] = MembersOf(i)
              /\ KnownGoal(request, request.goals[i])
              /\ \A j \in 1..Len(GoalPackages(request, request.goals[i])) :
                   Select(request, RootDemand(request, request.goals[i], j)) \in MembersOf(i)
<1>1. /\ status = "resolved" /\ Len(closures) = Len(request.goals)
      /\ IInv /\ Recorded /\ Placed
  BY DEF Delivered, ResolutionInv
<1>2. IsRequest(request) /\ Len(request.goals) \in Nat /\ goal = Len(request.goals) + 1
  BY <1>1, LenProperties DEF IInv, TypeOK, IsRequest, Finished
<1>3. Settled
  BY <1>1, SettledWhenResolved
<1>4. ASSUME NEW i \in 1..Len(request.goals)
      PROVE  /\ MemberSelections[i] = MembersOf(i)
             /\ KnownGoal(request, request.goals[i])
             /\ \A j \in 1..Len(GoalPackages(request, request.goals[i])) :
                  Select(request, RootDemand(request, request.goals[i], j)) \in MembersOf(i)
  <2>1. i < goal
    BY <1>2
  <2>2. KnownGoal(request, request.goals[i])
    BY <1>1, <2>1 DEF IInv, RootsCovered
  <2>3. MemberSelections[i] = MembersOf(i)
    BY <1>1 DEF IInv, TypeOK, MemberSelections, MembersOf
  <2>. QED
    BY <1>1, <2>1, <2>2, <2>3 DEF Placed, RootsCollected
<1>. QED
  BY <1>1, <1>2, <1>3, <1>4 DEF Settled, ResultExact

\* A closure that holds the selection of an expanded key holds what the key requires.
LEMMA ClosureFollows ==
  ASSUME ResolutionInv, Delivered, NEW i \in 1..Len(closures),
         NEW k \in expanded, k.selection \in closures[i].selections,
         NEW j \in 1..Len(Requirements(request, k))
  PROVE  /\ Select(request, RequirementDemand(request, k, j)) \in closures[i].selections
         /\ EdgeFor(request, k, j) \in closures[i].edges
<1> DEFINE e == EdgeFor(request, k, j)
<1>1. e \in edges
  BY DeliveredFacts, EdgeDeclared
<1>2. /\ e.issuer = k.selection
      /\ e.required = Select(request, RequirementDemand(request, k, j))
  BY DEF EdgeFor
<1> HIDE DEF e
<1>3. e.required \in closures[i].selections /\ e \in closures[i].edges
  BY <1>1, <1>2, ClosuresHold
<1>. QED
  BY <1>2, <1>3 DEF e

\* The expanded keys whose selections a closure holds are closed under what they
\* call for, and hold the keys of the closure's goal.
LEMMA ClosureKeysClosed ==
  ASSUME ResolutionInv, Delivered, NEW i \in 1..Len(closures)
  PROVE  LET X == {k \in expanded : k.selection \in closures[i].selections}
         IN /\ GoalKeys(request, request.goals[i]) \subseteq X
            /\ \A k \in X : Children(request, k) \subseteq X
<1> DEFINE X == {k \in expanded : k.selection \in closures[i].selections}
           g == request.goals[i]
<1>1. /\ i \in 1..Len(request.goals) /\ KnownGoal(request, g)
      /\ Successors(request, expanded) \subseteq expanded
      /\ MembersOf(i) \subseteq closures[i].selections
  BY DeliveredFacts, ClosuresHold DEF Closed
<1>2. ASSUME NEW j \in 1..Len(GoalPackages(request, g)),
             ~ Refused(request, RootDemand(request, g, j)),
             NEW c \in Expansions(Select(request, RootDemand(request, g, j)), g.scope)
      PROVE  c \in X
  <2>1. c \in GoalKeys(request, g)
    BY <1>2 DEF GoalKeys
  <2>2. c \in expanded
    BY <1>1, <2>1 DEF Successors, RootKeys
  <2>3. c.selection = Select(request, RootDemand(request, g, j))
    BY DEF Expansions
  <2>. QED
    BY <1>1, <2>2, <2>3, DeliveredFacts
<1>3. ASSUME NEW k \in X, NEW j \in 1..Len(Requirements(request, k)),
             ~ Refused(request, RequirementDemand(request, k, j)),
             NEW c \in Expansions(Select(request, RequirementDemand(request, k, j)), "run")
      PROVE  c \in X
  <2>1. c \in Children(request, k)
    BY <1>3 DEF Children
  <2>2. c \in expanded
    BY <1>1, <2>1 DEF Successors
  <2>3. c.selection = Select(request, RequirementDemand(request, k, j))
    BY DEF Expansions
  <2>. QED
    BY <2>2, <2>3, ClosureFollows
<1> HIDE DEF X, g
<1>4. GoalKeys(request, g) \subseteq X
  BY <1>2 DEF GoalKeys
<1>5. \A k \in X : Children(request, k) \subseteq X
  BY <1>3 DEF Children
<1>. QED
  BY <1>4, <1>5 DEF X, g

-----------------------------------------------------------------------------
(***************************************************************************)
(* The three properties of a delivered result.                             *)
(***************************************************************************)

\* No dangling reference.
LEMMA ClosedResult == ResolutionInv => ResultClosed
<1> SUFFICES ASSUME ResolutionInv, Delivered PROVE ResultClosed
  BY DEF ResultClosed
<1>1. \A k \in expanded : k.selection \in selections
  BY DEF ResolutionInv, Placed, KeysSelected
<1>2. \A e \in edges : e.issuer \in selections /\ e.required \in selections
  <2>1. \A e \in edges : \E k \in expanded : e.issuer = k.selection
    BY DeliveredFacts DEF DeclaredEdges, EdgeFor
  <2>. QED
    BY <1>1, <2>1 DEF ResolutionInv, Recorded, EdgesExplained
<1>3. \A x \in reasons : x.selection \in selections /\ x.issuer \subseteq selections
  <2> SUFFICES ASSUME NEW x \in reasons PROVE x.issuer \subseteq selections
    BY DEF ResolutionInv, Placed, ReasonsSelected
  <2>1. x \in RootReasons(request) \/ \E e \in edges : x = EdgeReason(e)
    BY DeliveredFacts DEF DeclaredReasons
  <2>2. CASE x \in RootReasons(request)
    BY <2>2 DEF RootReasons, RootReason
  <2>3. CASE \E e \in edges : x = EdgeReason(e)
    BY <1>2, <2>3 DEF EdgeReason
  <2>. QED
    BY <2>1, <2>2, <2>3
<1>4. ASSUME NEW i \in 1..Len(closures)
      PROVE  /\ closures[i].selections \subseteq selections
             /\ closures[i].edges \subseteq edges
             /\ MemberSelections[i] \subseteq closures[i].selections
             /\ \A e \in closures[i].edges :
                  {e.issuer, e.required} \subseteq closures[i].selections
  <2>1. closures[i].selections \cap selections = closures[i].selections
    <3>1. MemberSelections[i] \subseteq selections
      BY DeliveredFacts DEF ResolutionInv, Placed, MembersSelected
    <3> DEFINE kept == closures[i].selections
    <3>2. /\ MemberSelections[i] \subseteq kept
          /\ \A e \in edges : e.issuer \in kept => e.required \in kept
          /\ \A C \in SUBSET kept :
               /\ MemberSelections[i] \subseteq C
               /\ \A e \in edges : e.issuer \in C => e.required \in C
               => C = kept
      BY ClosuresHold
    <3> HIDE DEF kept
    <3> DEFINE C == kept \cap selections
    <3>3. /\ C \in SUBSET kept /\ MemberSelections[i] \subseteq C
          /\ \A e \in edges : e.issuer \in C => e.required \in C
      BY <1>2, <3>1, <3>2
    <3>4. C = kept
      <4> HIDE DEF C
      <4>. QED
        BY <3>2, <3>3
    <3>. QED
      BY <3>4 DEF kept
  <2>. QED
    BY <2>1, ClosuresHold
<1>. QED
  BY <1>2, <1>3, <1>4 DEF ResultClosed

\* No orphan: the keys whose selections some closure holds are all the expanded keys,
\* since the memo is the least closed set.
LEMMA OwnedResult == ResolutionInv => EveryPartOwned
<1> SUFFICES ASSUME ResolutionInv, Delivered PROVE EveryPartOwned
  BY DEF EveryPartOwned
<1> DEFINE n == Len(closures)
           Y == {k \in expanded : \E i \in 1..n : k.selection \in closures[i].selections}
<1>1. n = Len(request.goals)
  BY DeliveredFacts
<1>2. RootKeys(request) \subseteq Y
  <2>1. \A i \in 1..n : GoalKeys(request, request.goals[i]) \subseteq Y
    BY ClosureKeysClosed
  <2> HIDE DEF Y
  <2>. QED
    BY <1>1, <2>1 DEF RootKeys
<1>3. \A k \in Y : Children(request, k) \subseteq Y
  <2> SUFFICES ASSUME NEW k \in expanded, NEW i \in 1..n,
                      k.selection \in closures[i].selections
      PROVE  Children(request, k) \subseteq Y
    OBVIOUS
  <2>. QED
    BY ClosureKeysClosed
<1>4. Y = expanded
  <2>1. Successors(request, Y) \subseteq Y
    BY <1>2, <1>3 DEF Successors
  <2>2. Y \in SUBSET expanded
    OBVIOUS
  <2> HIDE DEF Y
  <2>. QED
    BY <2>1, <2>2 DEF ResolutionInv, IInv, ExpandedSound
<1>5. edges = UNION {closures[i].edges : i \in 1..n}
  <2>1. \A i \in 1..n : closures[i].edges \subseteq edges
    BY ClosuresHold
  <2>2. ASSUME NEW k \in expanded, NEW j \in 1..Len(Requirements(request, k))
        PROVE  \E i \in 1..n : EdgeFor(request, k, j) \in closures[i].edges
    <3>1. PICK i \in 1..n : k.selection \in closures[i].selections
      BY <1>4
    <3>. QED
      BY <3>1, ClosureFollows
  <2>3. edges = DeclaredEdges(request, expanded)
    BY DeliveredFacts
  <2>. QED
    BY <2>1, <2>2, <2>3 DEF DeclaredEdges
<1>6. selections = UNION {closures[i].selections : i \in 1..n}
  <2>1. \A i \in 1..n : closures[i].selections \subseteq selections
    BY ClosedResult DEF ResultClosed
  <2>2. \A d \in RootDemands(request) : \E i \in 1..n :
          Select(request, d) \in closures[i].selections
    BY <1>1, DeliveredFacts, ClosuresHold DEF RootDemands
  <2>3. ASSUME NEW k \in expanded, NEW j \in 1..Len(Requirements(request, k))
        PROVE  \E i \in 1..n :
                 Select(request, RequirementDemand(request, k, j)) \in closures[i].selections
    <3>1. PICK i \in 1..n : k.selection \in closures[i].selections
      BY <1>4
    <3>. QED
      BY <3>1, ClosureFollows
  <2>4. selections = DeclaredSelections(request, expanded)
    BY DeliveredFacts
  <2>. QED
    BY <2>1, <2>2, <2>3, <2>4 DEF DeclaredSelections, Demands, KeyDemands
<1>. QED
  BY <1>5, <1>6 DEF EveryPartOwned

\* What a goal would expand alone is among the keys whose selections its closure holds.
LEMMA CompleteGoals == ResolutionInv => GoalComplete
<1> SUFFICES ASSUME ResolutionInv, Delivered, NEW i \in 1..Len(closures)
    PROVE  LET alone == Alone(request.goals[i])
           IN /\ GoalKeys(request, request.goals[i]) \subseteq alone
              /\ {k.selection : k \in alone} \subseteq closures[i].selections
              /\ DeclaredEdges(request, alone) \subseteq closures[i].edges
  BY DEF GoalComplete
<1> DEFINE own == GoalKeys(request, request.goals[i])
           after == [k \in expanded |-> Children(request, k)]
           closed == {C \in SUBSET expanded : own \subseteq C /\ \A k \in C : after[k] \subseteq C}
           X == {k \in expanded : k.selection \in closures[i].selections}
<1>1. Alone(request.goals[i]) = {k \in expanded : \A C \in closed : k \in C}
  BY DEF Alone
<1>2. own \subseteq X /\ \A k \in X : Children(request, k) \subseteq X
  BY ClosureKeysClosed
<1>3. X \in closed
  BY <1>2
<1>4. own \subseteq Alone(request.goals[i])
  BY <1>1, <1>2
<1>5. Alone(request.goals[i]) \subseteq X
  BY <1>1, <1>3
<1>6. DeclaredEdges(request, Alone(request.goals[i])) \subseteq closures[i].edges
  BY <1>5, ClosureFollows DEF DeclaredEdges
<1>. QED
  BY <1>4, <1>5, <1>6

\* The invariant of run().
LEMMA AlwaysResolution == ResolutionSpec => []ResolutionInv
BY ResolutionInitInv, ResolutionStep, PTL DEF ResolutionSpec, resolution_vars

\* A delivered result has no dangling reference, whatever was requested.
THEOREM DeliversClosedResult == ResolutionSpec => []ResultClosed
BY AlwaysResolution, ClosedResult, PTL

\* Nothing in a delivered result is an orphan: each selection and each edge belongs
\* to the closure of a goal.
THEOREM DeliversOwnedParts == ResolutionSpec => []EveryPartOwned
BY AlwaysResolution, OwnedResult, PTL

\* Each goal's closure holds all it would require alone, although the expansions that
\* an earlier goal performed are not repeated for it.
THEOREM DeliversCompleteGoals == ResolutionSpec => []GoalComplete
BY AlwaysResolution, CompleteGoals, PTL

-----------------------------------------------------------------------------
(***************************************************************************)
(* The vector of edges.  An entry is written in the turn of the loop that  *)
(* stops awaiting its requirement, and no requirement is awaited again.    *)
(***************************************************************************)

\* A turn of the loop: its requirement alone is no longer awaited.
LEMMA TurnServes ==
  ASSUME IInv, DemandNext, NEW k \in expanded, NEW j \in Nat,
         ~ Awaits(k, j) \/ (k = Top.key /\ j = Top.next)
  PROVE  ~ Awaits(k, j)'
<1> DEFINE n == Len(stack)
           s == Select(request, RequirementDemand(request, Top.key, Top.next))
<1>1. /\ stack # <<>> /\ Top.next > 0 /\ Top.next <= Len(ReqsOf(Top))
      /\ stack' = Advanced(stack) \o Calls(s, "run")
  BY DEF DemandNext, Serving, FollowUp, EdgeFor
<1>2. /\ n \in Nat \ {0} /\ stack \in Seq(Frame) /\ Top \in Frame
      /\ BackedKey(request, Top.key) /\ IsRequest(request)
  BY <1>1, TopType DEF IInv, TypeOK
<1>3. Top.next \in 1..Len(Requirements(request, Top.key))
  BY <1>1, <1>2, TopType DEF ReqsOf, Frame
<1>4. s \in Selection
  BY <1>2, <1>3, RequirementDemandType, SelectType
<1>5. /\ Len(stack') \in Nat /\ n <= Len(stack')
      /\ \A i \in 1..(n - 1) : stack'[i] = stack[i]
      /\ stack'[n].key = Top.key /\ stack'[n].next = Top.next + 1
      /\ \A i \in (n + 1)..Len(stack') : stack'[i].next = 0
  BY <1>1, <1>2, <1>4, DemandStack DEF Top
<1> SUFFICES ASSUME NEW i \in 1..Len(stack'),
                    stack'[i].key = k, stack'[i].next > 0, stack'[i].next <= j
    PROVE  FALSE
  BY DEF Awaits
<1>6. CASE i \in 1..(n - 1)
  <2>1. i \in 1..n /\ i # n /\ stack[i].key = k /\ stack[i].next > 0 /\ stack[i].next <= j
    BY <1>2, <1>5, <1>6
  <2>2. Awaits(k, j)
    BY <2>1, Zenon DEF Awaits
  <2>3. stack[n] = Top /\ n \in 1..n
    BY <1>2 DEF Top
  <2>4. Top.key # stack[i].key
    <3>1. NoReentry
      BY DEF IInv
    <3>. QED
      BY <1>1, <2>1, <2>3, <3>1, Zenon DEF NoReentry
  <2>. QED
    BY <2>1, <2>2, <2>4
<1>7. CASE i = n
  <2>1. k = Top.key /\ Top.next <= j /\ j # Top.next /\ Top.next \in Nat
    BY <1>3, <1>5, <1>7
  <2>2. n \in 1..n /\ stack[n] = Top
    BY <1>2 DEF Top
  <2>3. stack[n].key = k /\ stack[n].next > 0 /\ stack[n].next <= j
    BY <1>1, <2>1, <2>2
  <2>4. Awaits(k, j)
    BY <2>2, <2>3, Zenon DEF Awaits
  <2>. QED
    BY <2>1, <2>4
<1>8. CASE i \in (n + 1)..Len(stack')
  BY <1>5, <1>8
<1>. QED
  BY <1>2, <1>5, <1>6, <1>7, <1>8

\* No other step makes an expanded key await a requirement.
LEMMA ServedStays ==
  ASSUME IInv, [Next]_vars, NEW k \in expanded, NEW j \in Nat, ~ Awaits(k, j)
  PROVE  ~ Awaits(k, j)'
<1>1. CASE stack' = stack
  BY <1>1 DEF Awaits
<1>2. CASE stack # <<>> /\ stack' = Popped(stack)
  <2>1. /\ Len(stack') = Len(stack) - 1 /\ Len(stack) \in Nat
        /\ \A i \in 1..Len(stack') : stack'[i] = stack[i]
    BY <1>2, PopStack, TopType DEF IInv, TypeOK
  <2>2. \A i \in 1..Len(stack') : i \in 1..Len(stack)
    BY <2>1
  <2>. QED
    BY <2>1, <2>2, Zenon DEF Awaits
<1>3. CASE SelectRoot
  <2>1. \A i \in 1..Len(stack') : stack'[i].next = 0
    <3>1. /\ stack' = Calls(Select(request, RootDemand(request, Goal, path)), Goal.scope)
          /\ goal \in 1..Len(request.goals) /\ Goal = request.goals[goal]
          /\ KnownGoal(request, Goal) /\ IsRequest(request)
          /\ path \in Nat \ {0} /\ path <= Len(GoalPackages(request, Goal))
      <4>1. /\ stack' = Calls(Select(request, RootDemand(request, Goal, path)), Goal.scope)
            /\ goal <= Len(request.goals) /\ KnownGoal(request, Goal)
            /\ path <= Len(GoalPackages(request, Goal))
        BY <1>3 DEF SelectRoot, AtRoot
      <4>2. /\ IsRequest(request) /\ goal \in 1..(Len(request.goals) + 1)
            /\ path \in Nat \ {0}
        BY DEF IInv, TypeOK
      <4>3. goal \in 1..Len(request.goals)
        BY <4>1, <4>2, LenProperties DEF IsRequest
      <4>. QED
        BY <4>1, <4>2, <4>3 DEF Goal
    <3>2. path \in 1..Len(GoalPackages(request, Goal))
      BY <3>1, GoalType, LenProperties
    <3>3. /\ Select(request, RootDemand(request, Goal, path)) \in Selection
          /\ Goal.scope \in Scope
      BY <3>1, <3>2, RootDemandType, SelectType, GoalType
    <3>. QED
      BY <3>1, <3>3, CallsStack
  <2>. QED
    BY <2>1 DEF Awaits
<1>4. CASE Enter
  <2>1. /\ stack # <<>> /\ Top.key \notin expanded /\ stack' = Advanced(stack)
        /\ stack \in Seq(Frame)
    BY <1>4, TopType DEF Enter, Called, IInv, TypeOK, BackedKey
  <2>2. /\ Len(stack') = Len(stack) /\ Len(stack) \in Nat
        /\ \A i \in 1..(Len(stack) - 1) : stack'[i] = stack[i]
        /\ stack'[Len(stack)].key = Top.key
    BY <2>1, AdvanceStack, TopType DEF Top
  <2>3. \A i \in 1..Len(stack) : i \in 1..(Len(stack) - 1) \/ i = Len(stack)
    BY <2>2
  <2>. QED
    BY <2>1, <2>2, <2>3 DEF Awaits
<1>5. CASE DemandNext
  BY <1>5, TurnServes
<1>. QED
  BY <1>1, <1>2, <1>3, <1>4, <1>5
  DEF Next, RefuseRoot, NextGoal, FinishRoots, Skip, Called, RefuseDemand, Return,
      Serving, Fail, vars

\* Each entry is the edge of a requirement that was served.
LogServed ==
  \A i \in 1..Len(edge_log) :
    \E k \in expanded : \E j \in 1..Len(Requirements(request, k)) :
      edge_log[i] = EdgeFor(request, k, j) /\ ~ Awaits(k, j)

LogInv == edge_log \in Seq(edges) /\ LogServed /\ EdgesRecordedOnce

\* The requirements of an expanded key are counted by naturals.
LEMMA RequirementIndex ==
  ASSUME IInv, NEW k \in expanded, NEW j \in 1..Len(Requirements(request, k))
  PROVE  j \in Nat
BY RequirementsType, LenProperties DEF IInv, TypeOK, KeysBacked

\* The engine forgets neither edges nor keys.
LEMMA EngineKeeps ==
  ASSUME [Next]_vars
  PROVE  request' = request /\ edges \subseteq edges' /\ expanded \subseteq expanded'
BY DEF Next, SelectRoot, RefuseRoot, NextGoal, FinishRoots, Enter, Skip, DemandNext,
   AddEdge, RefuseDemand, Return, Fail, result, vars

\* A step that records no edge.
LEMMA LogKept ==
  ASSUME IInv, LogInv, [Next]_vars, edge_log' = edge_log
  PROVE  LogInv'
<1>1. edge_log' \in Seq(edges')
  <2>1. \A S, T : S \subseteq T => Seq(S) \subseteq Seq(T)
    OBVIOUS
  <2>. QED
    BY <2>1, EngineKeeps DEF LogInv
<1>2. LogServed'
  <2> SUFFICES ASSUME NEW i \in 1..Len(edge_log)
      PROVE  \E k \in expanded' : \E j \in 1..Len(Requirements(request, k)) :
               edge_log[i] = EdgeFor(request, k, j) /\ ~ Awaits(k, j)'
    BY EngineKeeps DEF LogServed, Awaits
  <2>1. PICK k \in expanded, j \in Nat :
          /\ j \in 1..Len(Requirements(request, k))
          /\ edge_log[i] = EdgeFor(request, k, j) /\ ~ Awaits(k, j)
    BY RequirementIndex DEF LogInv, LogServed
  <2>2. ~ Awaits(k, j)'
    BY <2>1, RequirementIndex, ServedStays
  <2>. QED
    BY <2>1, <2>2, EngineKeeps
<1>3. EdgesRecordedOnce'
  BY EngineKeeps DEF LogInv, EdgesRecordedOnce
<1>. QED
  BY <1>1, <1>2, <1>3 DEF LogInv

\* The edge a turn records differs from all before: that of the same key and the same
\* package would be of the same requirement, which was awaited until now.
LEMMA RecordEdgeLogs ==
  ASSUME IInv, LogInv, RecordEdge
  PROVE  LogInv'
<1>1. /\ DemandNext /\ edge_log' = Append(edge_log, EdgeFor(request, Top.key, Top.next))
      /\ stack # <<>> /\ Top.next > 0 /\ Top.next <= Len(ReqsOf(Top))
      /\ UNCHANGED <<request, expanded>>
      /\ edges' = edges \cup {EdgeFor(request, Top.key, Top.next)}
  BY DEF RecordEdge, DemandNext, Serving, AddEdge
<1>2. PICK t \in expanded, m \in Nat :
        t = Top.key /\ m = Top.next /\ m \in 1..Len(Requirements(request, t))
  BY <1>1, TopType DEF IInv, RunningExpanded, Top, ReqsOf, Frame
<1> DEFINE e == EdgeFor(request, t, m)
           n == Len(edge_log)
<1>3. Awaits(t, m)
  BY <1>1, <1>2, TopType DEF Awaits, Top
<1>4. /\ n \in Nat /\ Len(edge_log') = n + 1
      /\ \A i \in 1..n : edge_log'[i] = edge_log[i]
      /\ edge_log'[n + 1] = e
      /\ edge_log' \in Seq(edges')
  <2>1. edge_log \in Seq(edges')
    <3>1. \A S, T : S \subseteq T => Seq(S) \subseteq Seq(T)
      OBVIOUS
    <3>. QED
      BY <1>1, <3>1 DEF LogInv
  <2>2. e \in edges'
    BY <1>1, <1>2
  <2>3. edge_log' = Append(edge_log, e)
    BY <1>1, <1>2
  <2> HIDE DEF e
  <2>. QED
    BY <2>1, <2>2, <2>3, AppendProperties, LenProperties
<1>5. \A i \in 1..(n + 1) : i \in 1..n \/ i = n + 1
  BY <1>4
<1>6. LogServed'
  <2> SUFFICES ASSUME NEW i \in 1..(n + 1)
      PROVE  \E k \in expanded : \E j \in 1..Len(Requirements(request, k)) :
               edge_log'[i] = EdgeFor(request, k, j) /\ ~ Awaits(k, j)'
    BY <1>1, <1>4 DEF LogServed, Awaits
  <2>1. CASE i \in 1..n
    <3>1. PICK k \in expanded, j \in Nat :
            /\ j \in 1..Len(Requirements(request, k))
            /\ edge_log[i] = EdgeFor(request, k, j) /\ ~ Awaits(k, j)
      BY <2>1, RequirementIndex DEF LogInv, LogServed
    <3>2. ~ Awaits(k, j)'
      BY <1>1, <3>1, RequirementIndex, TurnServes
    <3>. QED
      BY <1>4, <2>1, <3>1, <3>2
  <2>2. CASE i = n + 1
    <3>1. ~ Awaits(t, m)'
      BY <1>1, <1>2, TurnServes
    <3>. QED
      BY <1>2, <1>4, <2>2, <3>1
  <2>. QED
    BY <1>5, <2>1, <2>2
<1>7. EdgesRecordedOnce'
  <2> SUFFICES ASSUME \A k \in expanded : \A i, j \in 1..Len(Requirements(request, k)) :
                        Requirements(request, k)[i].package
                          = Requirements(request, k)[j].package => i = j
      PROVE  \A i, j \in 1..(n + 1) : edge_log'[i] = edge_log'[j] => i = j
    BY <1>1, <1>4 DEF EdgesRecordedOnce
  <2>1. \A i, j \in 1..n : edge_log[i] = edge_log[j] => i = j
    BY DEF LogInv, EdgesRecordedOnce
  <2>2. ASSUME NEW i \in 1..n PROVE edge_log[i] # e
    <3> SUFFICES ASSUME edge_log[i] = e PROVE FALSE
      OBVIOUS
    <3>1. PICK k \in expanded, j \in Nat :
            /\ j \in 1..Len(Requirements(request, k))
            /\ edge_log[i] = EdgeFor(request, k, j) /\ ~ Awaits(k, j)
      BY RequirementIndex DEF LogInv, LogServed
    <3>2. k.selection = t.selection /\ k.scope = t.scope
      BY <3>1 DEF EdgeFor
    <3>3. k = t
      <4>1. k \in Key /\ t \in Key
        BY DEF IInv, TypeOK
      <4>. QED
        BY <3>2, <4>1 DEF Key
    <3>4. Select(request, RequirementDemand(request, t, j))
            = Select(request, RequirementDemand(request, t, m))
      BY <3>1, <3>3 DEF EdgeFor
    <3>5. Requirements(request, t)[j].package = Requirements(request, t)[m].package
      BY <3>4 DEF Select, RequirementDemand
    <3>6. j = m
      BY <1>2, <3>1, <3>3, <3>5
    <3>. QED
      BY <1>3, <3>1, <3>3, <3>6
  <2> HIDE DEF e
  <2>. QED
    BY <1>4, <1>5, <2>1, <2>2
<1>. QED
  BY <1>4, <1>6, <1>7 DEF LogInv

\* What run() does to the vectors is bound to a step of the engine or of make_goal.
LEMMA AssemblyResolves ==
  AssemblyNext \/ UNCHANGED assembly_vars => [ResolutionNext]_resolution_vars
BY DEF AssemblyNext, RecordRoot, RecordEdge, RecordNothing, Refuse, FailIdentity, Assemble,
   ResolutionNext, Resolve, Next, resolution_vars, assembly_vars

\* A step of run() is one of the engine, or one the engine does not see.
LEMMA AssemblyEngine == [ResolutionNext]_resolution_vars => [Next]_vars
BY DEF ResolutionNext, Resolve, OpenGoal, VisitSelection, CloseGoal, resolution_vars

-----------------------------------------------------------------------------
(***************************************************************************)
(* The orders of the vectors tell any two elements apart.                  *)
(***************************************************************************)
SelectionKeys == [s \in Selection |-> SelectionDigest(s)]
EdgeKeys      == [e \in Edge |-> EdgeDigest(e)]

\* Digests have one length, and no two are alike.
LEMMA SelectionsKeyed == Keyed(Selection, SelectionKeys)
<1>1. \A s \in Selection : SelectionKeys[s] = SelectionDigest(s)
  BY DEF SelectionKeys
<1>2. SelectionKeys \in [Selection -> Seq(Nat)]
  BY OrdersAssumption DEF SelectionKeys
<1>3. \A s, t \in Selection : Len(SelectionKeys[s]) = Len(SelectionKeys[t])
  BY <1>1, OrdersAssumption, Zenon
<1>4. \A s, t \in Selection : Comparable(SelectionKeys[s], SelectionKeys[t])
  BY <1>2, <1>3, SameLength
<1>5. \A s, t \in Selection : SelectionKeys[s] = SelectionKeys[t] => s = t
  BY <1>1, OrdersAssumption, Zenon
<1>. QED
  BY <1>2, <1>4, <1>5 DEF Keyed

LEMMA EdgesKeyed == Keyed(Edge, EdgeKeys)
<1>1. \A e \in Edge : EdgeKeys[e] = EdgeDigest(e)
  BY DEF EdgeKeys
<1>2. EdgeKeys \in [Edge -> Seq(Nat)]
  BY OrdersAssumption DEF EdgeKeys
<1>3. \A d, e \in Edge : Len(EdgeKeys[d]) = Len(EdgeKeys[e])
  BY <1>1, OrdersAssumption, Zenon
<1>4. \A d, e \in Edge : Comparable(EdgeKeys[d], EdgeKeys[e])
  BY <1>2, <1>3, SameLength
<1>5. \A d, e \in Edge : EdgeKeys[d] = EdgeKeys[e] => d = e
  BY <1>1, OrdersAssumption, Zenon
<1>. QED
  BY <1>2, <1>4, <1>5 DEF Keyed

\* The reasons there are: an issuer and a profile are optional.
AtMostOne(T) == T = {} \/ \E t \in T : T = {t}

StatedReason == {x \in Reason : AtMostOne(x.issuer) /\ AtMostOne(x.profile)}

ReasonKeys == [x \in StatedReason |-> ReasonKey(x)]

\* An absent optional comes before a present one, which is compared by its value.
LEMMA OptionalField ==
  ASSUME NEW s \in Seq(Nat), NEW t \in Seq(Nat), Comparable(s, t)
  PROVE  /\ Before(<<0>>, <<1>> \o s)
         /\ Comparable(<<1>> \o s, <<1>> \o t)
         /\ <<1>> \o s = <<1>> \o t => s = t
<1>1. <<0>> \in Seq(Nat) /\ <<1>> \in Seq(Nat)
  OBVIOUS
<1>2. Before(<<0>>, <<1>> \o s)
  <2>1. /\ Len(<<0>>) = 1 /\ <<0>>[1] = 0
        /\ Len(<<1>> \o s) = 1 + Len(s) /\ (<<1>> \o s)[1] = 1 /\ Len(s) \in Nat
    OBVIOUS
  <2>2. 1 \in 1..Len(<<0>>) /\ 1 <= Len(<<1>> \o s) /\ <<0>>[1] < (<<1>> \o s)[1]
    BY <2>1
  <2>3. \A j \in 1..(1 - 1) : <<0>>[j] = (<<1>> \o s)[j]
    OBVIOUS
  <2>. QED
    BY <2>2, <2>3 DEF Before
<1>3. Comparable(<<1>>, <<1>>)
  BY DEF Comparable
<1>4. Comparable(<<1>> \o s, <<1>> \o t) /\ (<<1>> \o s = <<1>> \o t => s = t)
  BY <1>1, <1>3, FieldAdded
<1>. QED
  BY <1>2, <1>4

\* A field of a reason: two are comparable, and alike only if they are equal.
IssuerKey(x) ==
  IF x.issuer = {} THEN <<0>> ELSE <<1>> \o SelectionDigest(CHOOSE s \in x.issuer : TRUE)

LEMMA IssuersCompared ==
  ASSUME NEW x \in StatedReason, NEW y \in StatedReason
  PROVE  /\ IssuerKey(x) \in Seq(Nat) /\ IssuerKey(y) \in Seq(Nat)
         /\ Comparable(IssuerKey(x), IssuerKey(y))
         /\ IssuerKey(x) = IssuerKey(y) => x.issuer = y.issuer
<1>1. \A z \in StatedReason : z.issuer # {} =>
        \E s \in Selection : z.issuer = {s} /\ IssuerKey(z) = <<1>> \o SelectionKeys[s]
  <2> SUFFICES ASSUME NEW z \in StatedReason, z.issuer # {}
      PROVE  \E s \in Selection : z.issuer = {s} /\ IssuerKey(z) = <<1>> \o SelectionKeys[s]
    OBVIOUS
  <2>1. PICK s \in z.issuer : z.issuer = {s}
    BY DEF StatedReason, AtMostOne
  <2>2. s \in Selection
    BY DEF StatedReason, Reason
  <2>3. (CHOOSE u \in {s} : TRUE) = s
    OBVIOUS
  <2>4. SelectionKeys[s] = SelectionDigest(s)
    BY <2>2 DEF SelectionKeys
  <2>. QED
    BY <2>1, <2>2, <2>3, <2>4 DEF IssuerKey
<1>2. \A z \in StatedReason : z.issuer = {} => IssuerKey(z) = <<0>>
  BY DEF IssuerKey
<1>3. \A s, t \in Selection :
        /\ SelectionKeys[s] \in Seq(Nat)
        /\ Comparable(SelectionKeys[s], SelectionKeys[t])
        /\ SelectionKeys[s] = SelectionKeys[t] => s = t
  BY SelectionsKeyed DEF Keyed
<1>4. <<0>> \in Seq(Nat)
  OBVIOUS
<1>5. \A s \in Selection : <<1>> \o SelectionKeys[s] \in Seq(Nat)
  BY <1>3, ConcatProperties
<1>6. CASE x.issuer = {} /\ y.issuer = {}
  BY <1>2, <1>4, <1>6 DEF Comparable
<1>7. \A u, w \in StatedReason : u.issuer = {} /\ w.issuer # {} =>
        Before(IssuerKey(u), IssuerKey(w)) /\ IssuerKey(w) \in Seq(Nat)
  <2> SUFFICES ASSUME NEW z \in StatedReason, z.issuer # {}
      PROVE  Before(<<0>>, IssuerKey(z)) /\ IssuerKey(z) \in Seq(Nat)
    BY <1>2
  <2>1. PICK s \in Selection : IssuerKey(z) = <<1>> \o SelectionKeys[s]
    BY <1>1
  <2>2. Before(<<0>>, <<1>> \o SelectionKeys[s])
    BY <1>3, OptionalField
  <2>. QED
    BY <1>5, <2>1, <2>2
<1>8. CASE x.issuer = {} /\ y.issuer # {}
  BY <1>2, <1>4, <1>7, <1>8, NeverBeforeItself DEF Comparable
<1>9. CASE x.issuer # {} /\ y.issuer = {}
  BY <1>2, <1>4, <1>7, <1>9, NeverBeforeItself DEF Comparable
<1>10. CASE x.issuer # {} /\ y.issuer # {}
  <2>1. PICK s \in Selection : x.issuer = {s} /\ IssuerKey(x) = <<1>> \o SelectionKeys[s]
    BY <1>1, <1>10
  <2>2. PICK t \in Selection : y.issuer = {t} /\ IssuerKey(y) = <<1>> \o SelectionKeys[t]
    BY <1>1, <1>10
  <2>3. /\ Comparable(<<1>> \o SelectionKeys[s], <<1>> \o SelectionKeys[t])
        /\ <<1>> \o SelectionKeys[s] = <<1>> \o SelectionKeys[t]
             => SelectionKeys[s] = SelectionKeys[t]
    BY <1>3, OptionalField
  <2>4. SelectionKeys[s] = SelectionKeys[t] => s = t
    BY <1>3
  <2>5. Comparable(IssuerKey(x), IssuerKey(y))
    BY <2>1, <2>2, <2>3, Zenon
  <2>6. ASSUME IssuerKey(x) = IssuerKey(y) PROVE x.issuer = y.issuer
    <3>1. <<1>> \o SelectionKeys[s] = <<1>> \o SelectionKeys[t]
      BY <2>1, <2>2, <2>6, Zenon
    <3>2. s = t
      BY <2>3, <2>4, <3>1, Zenon
    <3>. QED
      BY <2>1, <2>2, <3>2, Zenon
  <2>7. IssuerKey(x) \in Seq(Nat) /\ IssuerKey(y) \in Seq(Nat)
    BY <1>5, <2>1, <2>2
  <2>. QED
    BY <2>5, <2>6, <2>7, Zenon
<1>. QED
  BY <1>6, <1>8, <1>9, <1>10

ProfileKey(x) ==
  IF x.profile = {} THEN <<0>> ELSE <<1, ProfileOrder(CHOOSE q \in x.profile : TRUE)>>

LEMMA ProfilesCompared ==
  ASSUME NEW x \in StatedReason, NEW y \in StatedReason
  PROVE  /\ ProfileKey(x) \in Seq(Nat) /\ ProfileKey(y) \in Seq(Nat)
         /\ Comparable(ProfileKey(x), ProfileKey(y))
         /\ ProfileKey(x) = ProfileKey(y) => x.profile = y.profile
<1>1. \A z \in StatedReason : z.profile # {} =>
        \E q \in Profile : z.profile = {q} /\ ProfileKey(z) = <<1, ProfileOrder(q)>>
  <2> SUFFICES ASSUME NEW z \in StatedReason, z.profile # {}
      PROVE  \E q \in Profile : z.profile = {q} /\ ProfileKey(z) = <<1, ProfileOrder(q)>>
    OBVIOUS
  <2>1. PICK q \in z.profile : z.profile = {q}
    BY DEF StatedReason, AtMostOne
  <2>2. q \in Profile
    BY DEF StatedReason, Reason
  <2>3. (CHOOSE u \in {q} : TRUE) = q
    OBVIOUS
  <2>. QED
    BY <2>1, <2>2, <2>3 DEF ProfileKey
<1>2. \A z \in StatedReason : z.profile = {} => ProfileKey(z) = <<0>>
  BY DEF ProfileKey
<1>3. \A p, q \in Profile :
        /\ <<1, ProfileOrder(q)>> \in Seq(Nat)
        /\ Before(<<0>>, <<1, ProfileOrder(q)>>)
        /\ Comparable(<<1, ProfileOrder(p)>>, <<1, ProfileOrder(q)>>)
        /\ <<1, ProfileOrder(p)>> = <<1, ProfileOrder(q)>> => p = q
  <2> SUFFICES ASSUME NEW p \in Profile, NEW q \in Profile
      PROVE  /\ <<1, ProfileOrder(q)>> \in Seq(Nat)
             /\ Before(<<0>>, <<1, ProfileOrder(q)>>)
             /\ Comparable(<<1, ProfileOrder(p)>>, <<1, ProfileOrder(q)>>)
             /\ <<1, ProfileOrder(p)>> = <<1, ProfileOrder(q)>> => p = q
    OBVIOUS
  <2>1. /\ ProfileOrder(p) \in Nat /\ ProfileOrder(q) \in Nat
        /\ ProfileOrder(p) = ProfileOrder(q) => p = q
    BY OrdersAssumption, Zenon
  <2>2. /\ <<1, ProfileOrder(p)>> \in Seq(Nat) /\ <<1, ProfileOrder(q)>> \in Seq(Nat)
        /\ Len(<<1, ProfileOrder(p)>>) = 2 /\ Len(<<1, ProfileOrder(q)>>) = 2
    BY <2>1
  <2>3. Before(<<0>>, <<1, ProfileOrder(q)>>)
    <3>1. /\ Len(<<0>>) = 1 /\ <<0>>[1] = 0 /\ <<1, ProfileOrder(q)>>[1] = 1
          /\ \A j \in 1..(1 - 1) : <<0>>[j] = <<1, ProfileOrder(q)>>[j]
      OBVIOUS
    <3>2. 1 \in 1..Len(<<0>>) /\ 1 <= Len(<<1, ProfileOrder(q)>>)
      BY <2>2, <3>1
    <3>. QED
      BY <3>1, <3>2 DEF Before
  <2>4. Comparable(<<1, ProfileOrder(p)>>, <<1, ProfileOrder(q)>>)
    BY <2>2, SameLength
  <2>. QED
    BY <2>1, <2>2, <2>3, <2>4
<1>4. <<0>> \in Seq(Nat)
  OBVIOUS
<1>5. CASE x.profile = {} /\ y.profile = {}
  BY <1>2, <1>4, <1>5 DEF Comparable
<1>6. \A u, w \in StatedReason : u.profile = {} /\ w.profile # {} =>
        Before(ProfileKey(u), ProfileKey(w)) /\ ProfileKey(w) \in Seq(Nat)
  BY <1>1, <1>2, <1>3
<1>7. CASE x.profile = {} /\ y.profile # {}
  BY <1>2, <1>4, <1>6, <1>7, NeverBeforeItself DEF Comparable
<1>8. CASE x.profile # {} /\ y.profile = {}
  BY <1>2, <1>4, <1>6, <1>8, NeverBeforeItself DEF Comparable
<1>9. CASE x.profile # {} /\ y.profile # {}
  <2>1. PICK p \in Profile : x.profile = {p} /\ ProfileKey(x) = <<1, ProfileOrder(p)>>
    BY <1>1, <1>9
  <2>2. PICK q \in Profile : y.profile = {q} /\ ProfileKey(y) = <<1, ProfileOrder(q)>>
    BY <1>1, <1>9
  <2>. QED
    BY <1>3, <2>1, <2>2
<1>. QED
  BY <1>5, <1>7, <1>8, <1>9

KindKey(x) == <<KindOrder[x.kind], ScopeOrder(x.scope)>>

LEMMA KindsCompared ==
  ASSUME NEW x \in StatedReason, NEW y \in StatedReason
  PROVE  /\ KindKey(x) \in Seq(Nat) /\ KindKey(y) \in Seq(Nat)
         /\ Comparable(KindKey(x), KindKey(y))
         /\ KindKey(x) = KindKey(y) => x.kind = y.kind /\ x.scope = y.scope
<1>1. /\ x.kind \in ReasonKind /\ y.kind \in ReasonKind
      /\ x.scope \in Scope /\ y.scope \in Scope
  BY DEF StatedReason, Reason
<1>2. /\ KindOrder[x.kind] \in Nat /\ KindOrder[y.kind] \in Nat
      /\ KindOrder[x.kind] = KindOrder[y.kind] => x.kind = y.kind
  BY <1>1 DEF KindOrder, ReasonKind
<1>3. /\ ScopeOrder(x.scope) \in Nat /\ ScopeOrder(y.scope) \in Nat
      /\ ScopeOrder(x.scope) = ScopeOrder(y.scope) => x.scope = y.scope
  BY <1>1, OrdersAssumption, Zenon
<1>4. /\ KindKey(x) \in Seq(Nat) /\ KindKey(y) \in Seq(Nat)
      /\ Len(KindKey(x)) = Len(KindKey(y))
  BY <1>2, <1>3 DEF KindKey
<1>5. Comparable(KindKey(x), KindKey(y))
  BY <1>4, SameLength
<1>. QED
  BY <1>2, <1>3, <1>4, <1>5 DEF KindKey

\* operator< of selection_reason orders the reasons totally, although the identity of
\* the profile is left out.
LEMMA ReasonsKeyed == Keyed(StatedReason, ReasonKeys)
<1>1. ASSUME NEW x \in StatedReason, NEW y \in StatedReason
      PROVE  /\ ReasonKey(x) \in Seq(Nat)
             /\ Comparable(ReasonKey(x), ReasonKey(y))
             /\ ReasonKey(x) = ReasonKey(y) => x = y
  <2> DEFINE A(z) == SelectionDigest(z.selection)
             B(z) == A(z) \o KindKey(z)
             C(z) == B(z) \o IssuerKey(z)
             D(z) == C(z) \o ProfileKey(z)
  <2>1. ReasonKey(x) = D(x) /\ ReasonKey(y) = D(y)
    BY DEF ReasonKey, KindKey, IssuerKey, ProfileKey
  <2>2. /\ A(x) \in Seq(Nat) /\ A(y) \in Seq(Nat)
        /\ Comparable(A(x), A(y))
        /\ A(x) = A(y) => x.selection = y.selection
    <3>1. x.selection \in Selection /\ y.selection \in Selection
      BY DEF StatedReason, Reason
    <3>2. A(x) = SelectionKeys[x.selection] /\ A(y) = SelectionKeys[y.selection]
      BY <3>1 DEF SelectionKeys
    <3>. QED
      BY <3>1, <3>2, SelectionsKeyed DEF Keyed
  <2> HIDE DEF A
  <2>3. /\ B(x) \in Seq(Nat) /\ B(y) \in Seq(Nat) /\ Comparable(B(x), B(y))
        /\ B(x) = B(y) => A(x) = A(y) /\ KindKey(x) = KindKey(y)
    <3>1. KindKey(x) \in Seq(Nat) /\ KindKey(y) \in Seq(Nat) /\ Comparable(KindKey(x), KindKey(y))
      BY KindsCompared
    <3>. QED
      BY <2>2, <3>1, FieldAdded
  <2> HIDE DEF B
  <2>4. /\ C(x) \in Seq(Nat) /\ C(y) \in Seq(Nat) /\ Comparable(C(x), C(y))
        /\ C(x) = C(y) => B(x) = B(y) /\ IssuerKey(x) = IssuerKey(y)
    <3>1. /\ IssuerKey(x) \in Seq(Nat) /\ IssuerKey(y) \in Seq(Nat)
          /\ Comparable(IssuerKey(x), IssuerKey(y))
      BY IssuersCompared
    <3>. QED
      BY <2>3, <3>1, FieldAdded
  <2> HIDE DEF C
  <2>5. /\ D(x) \in Seq(Nat) /\ D(y) \in Seq(Nat) /\ Comparable(D(x), D(y))
        /\ D(x) = D(y) => C(x) = C(y) /\ ProfileKey(x) = ProfileKey(y)
    <3>1. /\ ProfileKey(x) \in Seq(Nat) /\ ProfileKey(y) \in Seq(Nat)
          /\ Comparable(ProfileKey(x), ProfileKey(y))
      BY ProfilesCompared
    <3>. QED
      BY <2>4, <3>1, FieldAdded
  <2> HIDE DEF D
  <2>6. D(x) = D(y) => x = y
    <3> SUFFICES ASSUME D(x) = D(y) PROVE x = y
      OBVIOUS
    <3>1. /\ x.selection = y.selection /\ x.kind = y.kind /\ x.scope = y.scope
          /\ x.issuer = y.issuer /\ x.profile = y.profile
      BY <2>2, <2>3, <2>4, <2>5, KindsCompared, IssuersCompared, ProfilesCompared
    <3>2. x \in Reason /\ y \in Reason
      BY DEF StatedReason
    <3>. QED
      BY <3>1, <3>2 DEF Reason
  <2>. QED
    BY <2>1, <2>5, <2>6
<1>2. \A x \in StatedReason : ReasonKeys[x] = ReasonKey(x)
  BY DEF ReasonKeys
<1>3. ReasonKeys \in [StatedReason -> Seq(Nat)]
  BY <1>1 DEF ReasonKeys
<1>. QED
  BY <1>1, <1>2, <1>3 DEF Keyed

-----------------------------------------------------------------------------
(***************************************************************************)
(* What run() assembles.                                                   *)
(***************************************************************************)

\* The keys of a map, in some order.
LEMMA SetListed ==
  ASSUME NEW S, IsFiniteSet(S)
  PROVE  LET v == SetToSeq(S)
         IN /\ v \in Seq(S) /\ Elements(v) = S
            /\ \A i, j \in 1..Len(v) : v[i] = v[j] => i = j
<1> DEFINE n == Cardinality(S)
           v == SetToSeq(S)
<1>1. n \in Nat /\ ExistsBijection(1..n, S)
  BY FS_CardinalityType
<1>2. IsFiniteSet(1..n) /\ Cardinality(1..n) = n
  BY <1>1, PlacesCounted
<1>3. \E f \in [1..n -> S] : IsInjective(f)
  BY <1>1 DEF ExistsBijection, Bijection, Injection
<1>4. v \in [1..n -> S] /\ IsInjective(v)
  BY <1>3 DEF SetToSeq
<1> HIDE DEF v
<1>5. v \in Injection(1..n, S)
  BY <1>4 DEF Injection
<1>6. v \in Surjection(1..n, S)
  BY <1>2, <1>5, FS_Injection
<1> HIDE DEF n
<1>7. v \in Seq(S) /\ Len(v) = n
  BY <1>1, <1>4
<1>8. {v[i] : i \in 1..n} = S
  BY <1>4, <1>6 DEF Surjection
<1>. QED
  BY <1>4, <1>7, <1>8 DEF Elements, IsInjective, v

\* The vectors of a result, given what was collected.
CanonicalVectors(o, S, E, R) ==
  /\ o.selections \in Seq(Selection) /\ AscendsBy(o.selections, SelectionKeys)
  /\ o.edges \in Seq(Edge) /\ AscendsBy(o.edges, EdgeKeys)
  /\ o.reasons \in Seq(StatedReason) /\ AscendsBy(o.reasons, ReasonKeys)
  /\ Elements(o.selections) = S /\ Elements(o.edges) = E /\ Elements(o.reasons) = R

LEMMA AssembledVectors ==
  ASSUME NEW S \in SUBSET Selection, IsFiniteSet(S),
         NEW d \in Seq(Edge), NEW x \in Seq(StatedReason), NEW goals
  PROVE  CanonicalVectors(
           ResolutionResult(Sorted(SetToSeq(S), SelectionDigest), Unique(Sorted(d, EdgeDigest)),
                            goals, Unique(Sorted(x, ReasonKey))),
           S, Elements(d), Elements(x))
<1> DEFINE u == Sorted(SetToSeq(S), SelectionDigest)
           v == Unique(Sorted(d, EdgeDigest))
           w == Unique(Sorted(x, ReasonKey))
<1>1. u \in Seq(Selection) /\ Elements(u) = S /\ AscendsBy(u, SelectionKeys)
  <2> DEFINE s == SetToSeq(S)
  <2>1. s \in Seq(S) /\ Elements(s) = S /\ \A i, j \in 1..Len(s) : s[i] = s[j] => i = j
    BY SetListed
  <2> HIDE DEF s
  <2>2. s \in Seq(Selection)
    BY <2>1
  <2>3. KeysIn(s, SelectionKeys) = [i \in 1..Len(s) |-> SelectionDigest(s[i])]
    <3>1. \A i \in 1..Len(s) : SelectionKeys[s[i]] = SelectionDigest(s[i])
      BY <2>2 DEF SelectionKeys
    <3>. QED
      BY <3>1 DEF KeysIn
  <2>4. u = SortedBy(s, SelectionKeys)
    BY <2>3 DEF SortedBy, Sorted, s
  <2>. QED
    BY <2>1, <2>2, <2>4, SelectionsKeyed, SortsDifferent
<1>2. v \in Seq(Edge) /\ Elements(v) = Elements(d) /\ AscendsBy(v, EdgeKeys)
  <2>1. KeysIn(d, EdgeKeys) = [i \in 1..Len(d) |-> EdgeDigest(d[i])]
    <3>1. \A i \in 1..Len(d) : EdgeKeys[d[i]] = EdgeDigest(d[i])
      BY DEF EdgeKeys
    <3>. QED
      BY <3>1 DEF KeysIn
  <2>2. v = Unique(SortedBy(d, EdgeKeys))
    BY <2>1 DEF SortedBy, Sorted
  <2>. QED
    BY <2>2, EdgesKeyed, SortsAndDeduplicates
<1>3. w \in Seq(StatedReason) /\ Elements(w) = Elements(x) /\ AscendsBy(w, ReasonKeys)
  <2>1. KeysIn(x, ReasonKeys) = [i \in 1..Len(x) |-> ReasonKey(x[i])]
    <3>1. \A i \in 1..Len(x) : ReasonKeys[x[i]] = ReasonKey(x[i])
      BY DEF ReasonKeys
    <3>. QED
      BY <3>1 DEF KeysIn
  <2>2. w = Unique(SortedBy(x, ReasonKeys))
    BY <2>1 DEF SortedBy, Sorted
  <2>. QED
    BY <2>2, ReasonsKeyed, SortsAndDeduplicates
<1> HIDE DEF u, v, w
<1>4. CanonicalVectors(ResolutionResult(u, v, goals, w), S, Elements(d), Elements(x))
  BY <1>1, <1>2, <1>3 DEF CanonicalVectors, ResolutionResult
<1>. QED
  BY <1>4 DEF u, v, w

\* The vectors hold what the engine recorded, and a result that was returned stays.
Logged ==
  /\ Elements(edge_log) = edges
  /\ reason_log \in Seq(reasons) /\ Elements(reason_log) = reasons
  /\ IsFiniteSet(selections)

ReturnedWhole == Returned => Delivered /\ CanonicalVectors(outcome, selections, edges, reasons)

AssemblyInv == ResolutionInv /\ LogInv /\ Logged /\ ReturnedWhole

\* A vector stays one of more elements.
LEMMA MoreElements ==
  ASSUME NEW S, NEW T, S \subseteq T
  PROVE  Seq(S) \subseteq Seq(T)
OBVIOUS

\* One element more is still finitely many.
LEMMA OneMore ==
  ASSUME NEW S, IsFiniteSet(S), NEW x
  PROVE  IsFiniteSet(S \cup {x})
BY FS_AddElement

\* Recording a root, with its reason.
LEMMA RootLogged ==
  ASSUME Logged, RecordRoot
  PROVE  Logged'
<1> DEFINE x == RootReason(request, Goal, path)
           s == Select(request, RootDemand(request, Goal, path))
<1>1. /\ reason_log' = Append(reason_log, x) /\ reasons' = reasons \cup {x}
      /\ selections' = selections \cup {s}
      /\ UNCHANGED <<edges, edge_log>>
  BY DEF RecordRoot, SelectRoot
<1> HIDE DEF x, s
<1>2. reason_log \in Seq(reasons') /\ x \in reasons'
  BY <1>1, MoreElements DEF Logged
<1>3. reason_log' \in Seq(reasons') /\ Elements(reason_log') = reasons'
  BY <1>1, <1>2, ElementsAppended DEF Logged
<1>4. IsFiniteSet(selections')
  BY <1>1, OneMore DEF Logged
<1>. QED
  BY <1>1, <1>3, <1>4 DEF Logged

\* Recording an edge, with its reason.
LEMMA EdgeLogged ==
  ASSUME LogInv, Logged, RecordEdge
  PROVE  Logged'
<1> DEFINE e == EdgeFor(request, Top.key, Top.next)
           x == EdgeReason(e)
<1>1. /\ edge_log' = Append(edge_log, e) /\ edges' = edges \cup {e}
      /\ reason_log' = Append(reason_log, x) /\ reasons' = reasons \cup {x}
      /\ selections' = selections \cup {e.required}
  BY DEF RecordEdge, DemandNext, AddEdge
<1> HIDE DEF x, e
<1>2. /\ reason_log \in Seq(reasons') /\ x \in reasons'
      /\ edge_log \in Seq(edges') /\ e \in edges'
  BY <1>1, MoreElements DEF LogInv, Logged
<1>3. reason_log' \in Seq(reasons') /\ Elements(reason_log') = reasons'
  BY <1>1, <1>2, ElementsAppended DEF Logged
<1>4. Elements(edge_log') = edges'
  BY <1>1, <1>2, ElementsAppended DEF Logged
<1>5. IsFiniteSet(selections')
  BY <1>1, OneMore DEF Logged
<1>. QED
  BY <1>3, <1>4, <1>5 DEF Logged

\* Each reason names at most one issuer and at most one profile.
LEMMA ReasonsStated ==
  ASSUME ResolutionInv
  PROVE  reasons \subseteq StatedReason
<1>1. reasons \subseteq Reason /\ reasons \subseteq DeclaredReasons(request, expanded)
  BY DEF ResolutionInv, IInv, TypeOK, Recorded, RecordSound
<1>2. ASSUME NEW x \in DeclaredReasons(request, expanded)
      PROVE  AtMostOne(x.issuer) /\ AtMostOne(x.profile)
  <2>1. CASE x \in RootReasons(request)
    BY <2>1 DEF RootReasons, RootReason, AtMostOne
  <2>2. CASE \E e \in DeclaredEdges(request, expanded) : x = EdgeReason(e)
    BY <2>2 DEF EdgeReason, AtMostOne
  <2>. QED
    BY <2>1, <2>2 DEF DeclaredReasons
<1>. QED
  BY <1>1, <1>2 DEF StatedReason

\* The result is assembled of the vectors as they are.
LEMMA AssembleReturns ==
  ASSUME AssemblyInv, Assemble
  PROVE  ReturnedWhole'
<1>1. /\ Delivered
      /\ outcome' = ResolutionResult(Sorted(SetToSeq(selections), SelectionDigest),
                                     Unique(Sorted(edge_log, EdgeDigest)), closures,
                                     Unique(Sorted(reason_log, ReasonKey)))
      /\ UNCHANGED <<selections, edges, reasons, status, closures, request>>
  BY DEF Assemble, vars, result, closure_vars
<1>2. /\ selections \in SUBSET Selection /\ edges \subseteq Edge
      /\ reasons \subseteq StatedReason
  BY ReasonsStated DEF AssemblyInv, ResolutionInv, IInv, TypeOK
<1>3. /\ IsFiniteSet(selections) /\ edge_log \in Seq(Edge) /\ reason_log \in Seq(StatedReason)
      /\ Elements(edge_log) = edges /\ Elements(reason_log) = reasons
  BY <1>2, MoreElements DEF AssemblyInv, Logged, LogInv
<1>4. CanonicalVectors(outcome', selections, edges, reasons)
  BY <1>1, <1>2, <1>3, AssembledVectors
<1>. QED
  BY <1>1, <1>4 DEF ReturnedWhole, Delivered

\* The invariant is inductive.
LEMMA AssemblyStep ==
  ASSUME AssemblyInv, [AssemblyNext]_assembly_vars
  PROVE  AssemblyInv'
<1>1. ResolutionInv' /\ [Next]_vars
  BY AssemblyResolves, AssemblyEngine, ResolutionStep DEF AssemblyInv
<1>2. IInv
  BY DEF AssemblyInv, ResolutionInv
<1>3. LogInv'
  <2>1. CASE RecordEdge
    BY <1>2, <2>1, RecordEdgeLogs DEF AssemblyInv
  <2>2. CASE edge_log' = edge_log
    BY <1>1, <1>2, <2>2, LogKept DEF AssemblyInv
  <2>. QED
    BY <2>1, <2>2
    DEF AssemblyNext, RecordRoot, RecordNothing, Refuse, FailIdentity, Assemble, assembly_vars
<1>4. Logged'
  <2>1. CASE UNCHANGED <<edge_log, reason_log, selections, edges, reasons>>
    BY <2>1 DEF AssemblyInv, Logged
  <2>2. CASE RecordRoot
    BY <2>2, RootLogged DEF AssemblyInv
  <2>3. CASE RecordEdge
    BY <2>3, EdgeLogged DEF AssemblyInv
  <2>4. CASE RecordNothing
    BY <2>1, <2>4
    DEF RecordNothing, NextGoal, FinishRoots, Enter, Skip, Return, Fail, result, vars,
        OpenGoal, VisitSelection, CloseGoal
  <2>5. CASE Refuse
    BY <2>1, <2>5 DEF Refuse, RefuseRoot, RefuseDemand, Fail, result
  <2>6. CASE FailIdentity \/ Assemble \/ UNCHANGED assembly_vars
    BY <2>1, <2>6 DEF FailIdentity, Assemble, assembly_vars, vars, result
  <2>. QED
    BY <2>2, <2>3, <2>4, <2>5, <2>6 DEF AssemblyNext
<1>5. ReturnedWhole'
  <2>1. CASE Assemble
    BY <2>1, AssembleReturns
  <2>2. CASE outcome = None /\ outcome' = None
    BY <2>2 DEF ReturnedWhole, Returned, None
  <2>3. CASE Refuse \/ FailIdentity
    BY <2>3 DEF Refuse, FailIdentity, Throw, ReturnedWhole, Returned
  <2>4. CASE UNCHANGED assembly_vars
    BY <2>4
    DEF assembly_vars, vars, result, closure_vars, AssemblyInv, ReturnedWhole, Returned, Delivered
  <2>. QED
    BY <2>1, <2>2, <2>3, <2>4 DEF AssemblyNext, RecordRoot, RecordEdge, RecordNothing
<1>. QED
  BY <1>1, <1>3, <1>4, <1>5 DEF AssemblyInv

\* Before anything is resolved there is nothing to assemble.
LEMMA AssemblyInitInv == AssemblyInit => AssemblyInv
<1> SUFFICES ASSUME AssemblyInit PROVE AssemblyInv
  OBVIOUS
<1>1. /\ ResolutionInit /\ Init /\ edge_log = <<>> /\ reason_log = <<>> /\ outcome = None
      /\ edges = {} /\ reasons = {} /\ selections = {}
  BY DEF AssemblyInit, ResolutionInit, Init
<1>2. LogInv
  BY <1>1, EmptySeq DEF LogInv, LogServed, EdgesRecordedOnce
<1>3. Logged
  BY <1>1, EmptySeq, FS_EmptySet DEF Logged, Elements
<1>4. ReturnedWhole
  BY <1>1 DEF ReturnedWhole, Returned, None
<1>. QED
  BY <1>1, <1>2, <1>3, <1>4, ResolutionInitInv DEF AssemblyInv

LEMMA AlwaysAssembly == AssemblySpec => []AssemblyInv
<1>1. AssemblyInv /\ [AssemblyNext]_assembly_vars => AssemblyInv'
  BY AssemblyStep
<1>. QED
  BY <1>1, AssemblyInitInv, PTL DEF AssemblySpec

\* No edge is recorded twice unless a list of requirements names a package twice.
THEOREM RecordsEdgesOnce == AssemblySpec => []EdgesRecordedOnce
<1>1. AssemblyInv => EdgesRecordedOnce
  BY DEF AssemblyInv, LogInv
<1>. QED
  BY <1>1, AlwaysAssembly, PTL

\* The vectors of a result ascend strictly and hold what the engine collected, however
\* often a reason was met, for any order of the digests.
THEOREM ReturnsCanonicalResult == AssemblySpec => []ResultCanonical
<1>1. AssemblyInv => ResultCanonical
  <2> SUFFICES ASSUME AssemblyInv, Returned PROVE ResultCanonical
    BY DEF ResultCanonical
  <2>1. CanonicalVectors(outcome, selections, edges, reasons)
    BY DEF AssemblyInv, ReturnedWhole
  <2>2. Ascends(outcome.selections, SelectionDigest)
    <3>1. \A i \in 1..Len(outcome.selections) :
            SelectionKeys[outcome.selections[i]] = SelectionDigest(outcome.selections[i])
      BY <2>1 DEF CanonicalVectors, SelectionKeys
    <3>. QED
      BY <2>1, <3>1 DEF CanonicalVectors, AscendsBy, Ascends
  <2>3. Ascends(outcome.edges, EdgeDigest)
    <3>1. \A i \in 1..Len(outcome.edges) :
            EdgeKeys[outcome.edges[i]] = EdgeDigest(outcome.edges[i])
      BY <2>1 DEF CanonicalVectors, EdgeKeys
    <3>. QED
      BY <2>1, <3>1 DEF CanonicalVectors, AscendsBy, Ascends
  <2>4. Ascends(outcome.reasons, ReasonKey)
    <3>1. \A i \in 1..Len(outcome.reasons) :
            ReasonKeys[outcome.reasons[i]] = ReasonKey(outcome.reasons[i])
      BY <2>1 DEF CanonicalVectors, ReasonKeys
    <3>. QED
      BY <2>1, <3>1 DEF CanonicalVectors, AscendsBy, Ascends
  <2>. QED
    BY <2>1, <2>2, <2>3, <2>4 DEF CanonicalVectors, ResultCanonical
<1>. QED
  BY <1>1, AlwaysAssembly, PTL

-----------------------------------------------------------------------------
(***************************************************************************)
(* The queries on a result.                                                *)
(***************************************************************************)

\* What is known of a result that was returned.
LEMMA ReturnedFacts ==
  ASSUME AssemblyInv, Returned
  PROVE  /\ CanonicalVectors(outcome, selections, edges, reasons)
         /\ IsFiniteSet(edges)
         /\ edges \subseteq Edge /\ edges = DeclaredEdges(request, expanded)
         /\ reasons = DeclaredReasons(request, expanded)
         /\ EnvironmentSeparation /\ Explained /\ ReasonsSelected
<1>1. ResolutionInv /\ Delivered /\ CanonicalVectors(outcome, selections, edges, reasons)
  BY DEF AssemblyInv, ReturnedWhole
<1>2. /\ edges = DeclaredEdges(request, expanded)
      /\ reasons = DeclaredReasons(request, expanded)
  BY <1>1, DeliveredFacts
<1>3. EnvironmentSeparation /\ Explained /\ ReasonsSelected /\ edges \subseteq Edge
  BY <1>1 DEF ResolutionInv, IInv, TypeOK, Placed
<1>4. IsFiniteSet(edges)
  <2> DEFINE v == outcome.edges
             n == Len(v)
  <2>1. v \in Seq(Edge) /\ AscendsBy(v, EdgeKeys) /\ Elements(v) = edges /\ n \in 0..n
    BY <1>1 DEF CanonicalVectors
  <2>2. IsFiniteSet(ElementsAt(v, 1..n))
    BY <2>1, EdgesKeyed, FirstElements
  <2>. QED
    BY <2>1, <2>2 DEF Elements, ElementsAt
<1>. QED
  BY <1>1, <1>2, <1>3, <1>4

\* A selection is found by its package, environment and authority.
LEMMA FindsSelection ==
  ASSUME CanonicalVectors(outcome, selections, edges, reasons), NEW s \in selections
  PROVE  Find(s.package, s.environment, s.authority) = {s}
<1> DEFINE v == outcome.selections
           hits == {i \in 1..Len(v) : /\ v[i].package = s.package
                                      /\ v[i].environment = s.environment
                                      /\ v[i].authority = s.authority}
<1>1. v \in Seq(Selection) /\ AscendsBy(v, SelectionKeys) /\ Elements(v) = selections
  BY DEF CanonicalVectors
<1>2. PICK n \in 1..Len(v) : v[n] = s
  BY <1>1 DEF Elements
<1>3. \A i \in 1..Len(v) : v[i] \in Selection
  BY <1>1, ElementOfSeq
<1>4. hits = {i \in 1..Len(v) : v[i] = s}
  BY <1>2, <1>3 DEF Selection
<1>5. ASSUME NEW i \in 1..Len(v), v[i] = s PROVE i = n
  <2>1. SelectionKeys[s] \in Seq(Nat)
    BY <1>2, <1>3, SelectionsKeyed DEF Keyed
  <2>2. ~ Before(SelectionKeys[v[i]], SelectionKeys[v[n]])
        /\ ~ Before(SelectionKeys[v[n]], SelectionKeys[v[i]])
    BY <1>2, <1>5, <2>1, NeverBeforeItself
  <2>3. ~ (i < n) /\ ~ (n < i)
    BY <1>1, <2>2 DEF AscendsBy
  <2>4. i \in Nat /\ n \in Nat
    BY <1>1, LenProperties
  <2>. QED
    BY <2>3, <2>4
<1>6. hits = {n}
  BY <1>2, <1>4, <1>5
<1>7. Find(s.package, s.environment, s.authority)
        = {v[i] : i \in {j \in hits : \A k \in hits : j <= k}}
  BY DEF Find
<1> HIDE DEF hits
<1>8. n <= n
  BY <1>1, LenProperties
<1>9. {j \in hits : \A k \in hits : j <= k} = {n}
  BY <1>6, <1>8
<1>. QED
  BY <1>2, <1>7, <1>9

\* reasons_for() holds the reasons of a selection, edges_for_scope() the edges of a scope.
LEMMA QueriedElements ==
  ASSUME CanonicalVectors(outcome, selections, edges, reasons)
  PROVE  /\ \A s : Elements(ReasonsFor(s)) = {x \in reasons : x.selection = s}
         /\ \A c : Elements(EdgesForScope(c)) = {e \in edges : e.scope = c}
<1>1. ASSUME NEW s PROVE Elements(ReasonsFor(s)) = {x \in reasons : x.selection = s}
  <2> DEFINE v == outcome.reasons
             places == {i \in 1..Len(v) : v[i].selection = s}
  <2>1. v \in Seq(StatedReason) /\ Elements(v) = reasons
    BY DEF CanonicalVectors
  <2>2. places \in SUBSET (1..Len(v)) /\ ReasonsFor(s) = Kept(v, places)
    BY DEF ReasonsFor
  <2>3. Elements(Kept(v, places)) = ElementsAt(v, places)
    BY <2>1, <2>2, KeptElements
  <2>. QED
    BY <2>1, <2>2, <2>3 DEF Elements, ElementsAt
<1>2. ASSUME NEW c PROVE Elements(EdgesForScope(c)) = {e \in edges : e.scope = c}
  <2> DEFINE v == outcome.edges
             places == {i \in 1..Len(v) : v[i].scope = c}
  <2>1. v \in Seq(Edge) /\ Elements(v) = edges
    BY DEF CanonicalVectors
  <2>2. places \in SUBSET (1..Len(v)) /\ EdgesForScope(c) = Kept(v, places)
    BY DEF EdgesForScope
  <2>3. Elements(Kept(v, places)) = ElementsAt(v, places)
    BY <2>1, <2>2, KeptElements
  <2>. QED
    BY <2>1, <2>2, <2>3 DEF Elements, ElementsAt
<1>. QED
  BY <1>1, <1>2

\* A selection without a reason could be left out of what the reasons lead to.
LEMMA SomeReason ==
  ASSUME Explained, ReasonsSelected, NEW s \in selections
  PROVE  \E x \in reasons : x.selection = s
<1> SUFFICES ASSUME \A x \in reasons : x.selection # s PROVE FALSE
  OBVIOUS
<1> DEFINE C == selections \ {s}
<1>1. C \in SUBSET selections /\ C # selections
  OBVIOUS
<1>2. \A x \in reasons : x.selection \in C
  BY DEF ReasonsSelected
<1> HIDE DEF C
<1>. QED
  BY <1>1, <1>2 DEF Explained

\* What an edge adds beyond its reason follows from its ends.
LEMMA ReasonTellsEdge ==
  ASSUME EnvironmentSeparation, edges \subseteq Edge, edges = DeclaredEdges(request, expanded),
         NEW d \in edges, NEW e \in edges, EdgeReason(d) = EdgeReason(e)
  PROVE  d = e
<1>1. d.required = e.required /\ d.scope = e.scope /\ {d.issuer} = {e.issuer}
  BY DEF EdgeReason
<1>2. d.issuer = e.issuer
  BY <1>1
<1>3. d.environment = e.environment
  BY <1>1 DEF EnvironmentSeparation
<1>4. \A f \in edges : f.witness = f.issuer.authority
  BY DEF DeclaredEdges, EdgeFor
<1>5. d.witness = e.witness
  BY <1>2, <1>4
<1>6. d \in Edge /\ e \in Edge
  OBVIOUS
<1>. QED
  BY <1>1, <1>2, <1>3, <1>5, <1>6 DEF Edge

\* The reasons of a selection other than goals are, one for one, the edges into it.
IssuedReasons(s) == {x \in reasons : x.selection = s /\ x.issuer # {}}
EdgesInto(s)     == {e \in edges : e.required = s}

LEMMA ReasonsAreEdges ==
  ASSUME EnvironmentSeparation, edges \subseteq Edge, IsFiniteSet(edges),
         edges = DeclaredEdges(request, expanded),
         reasons = DeclaredReasons(request, expanded), NEW s
  PROVE  /\ Cardinality(IssuedReasons(s)) = Cardinality(EdgesInto(s))
         /\ \A x \in IssuedReasons(s) : \E e \in EdgesInto(s) : x = EdgeReason(e)
<1> DEFINE issued == IssuedReasons(s)
           into == EdgesInto(s)
           f == [e \in into |-> EdgeReason(e)]
<1>0. /\ issued = {x \in reasons : x.selection = s /\ x.issuer # {}}
      /\ into = {e \in edges : e.required = s}
  BY DEF IssuedReasons, EdgesInto
<1> HIDE DEF issued, into
<1>1. ASSUME NEW x \in issued PROVE \E e \in into : x = EdgeReason(e)
  <2>1. x \notin RootReasons(request)
    BY <1>0, <1>1 DEF RootReasons, RootReason
  <2>2. PICK e \in edges : x = EdgeReason(e)
    BY <1>0, <1>1, <2>1 DEF DeclaredReasons
  <2>3. e.required = s
    BY <1>0, <1>1, <2>2 DEF EdgeReason
  <2>. QED
    BY <1>0, <2>2, <2>3
<1>2. ASSUME NEW e \in into PROVE EdgeReason(e) \in issued
  <2>1. EdgeReason(e) \in reasons
    BY <1>0, <1>2 DEF DeclaredReasons
  <2>. QED
    BY <1>0, <1>2, <2>1 DEF EdgeReason
<1>3. \A d, e \in into : EdgeReason(d) = EdgeReason(e) => d = e
  BY <1>0, ReasonTellsEdge
<1>4. IsFiniteSet(into)
  BY <1>0, FS_Subset
<1>5. f \in [into -> issued]
  BY <1>2
<1>6. \A d, e \in into : f[d] = f[e] => d = e
  BY <1>3
<1>7. \A x \in issued : \E e \in into : f[e] = x
  BY <1>1
<1> HIDE DEF f
<1>8. f \in Bijection(into, issued)
  BY <1>5, <1>6, <1>7 DEF Bijection, Injection, Surjection, IsInjective
<1>9. Cardinality(issued) = Cardinality(into)
  BY <1>4, <1>8, FS_Bijection DEF ExistsBijection
<1>. QED
  BY <1>1, <1>9 DEF issued, into

\* find(), reasons_for() and edges_for_scope() agree on every result: each selection is
\* found and explained, and what requires it is told alike by reasons and by edges.
THEOREM QueriesTellOneStory == AssemblySpec => []QueriesAgree
<1>1. ASSUME AssemblyInv, Returned, NEW s \in Elements(outcome.selections)
      PROVE  LET why    == ReasonsFor(s)
                 issued == {x \in Elements(why) : x.issuer # {}}
                 into   == {e \in Elements(outcome.edges) : e.required = s}
             IN /\ Find(s.package, s.environment, s.authority) = {s}
                /\ why # <<>>
                /\ Cardinality(issued) = Cardinality(into)
                /\ \A x \in issued : \E e \in Elements(EdgesForScope(x.scope)) :
                     e.required = s /\ {e.issuer} = x.issuer
  <2> DEFINE issued == {x \in Elements(ReasonsFor(s)) : x.issuer # {}}
             into == {e \in Elements(outcome.edges) : e.required = s}
  <2>1. /\ CanonicalVectors(outcome, selections, edges, reasons)
        /\ s \in selections /\ Elements(outcome.edges) = edges
    BY <1>1, ReturnedFacts DEF CanonicalVectors
  <2>2. /\ Elements(ReasonsFor(s)) = {x \in reasons : x.selection = s}
        /\ \A c : Elements(EdgesForScope(c)) = {e \in edges : e.scope = c}
    BY <2>1, QueriedElements
  <2>3. Find(s.package, s.environment, s.authority) = {s}
    BY <2>1, FindsSelection
  <2>4. ReasonsFor(s) # <<>>
    <3>1. \E x \in reasons : x.selection = s
      BY <1>1, <2>1, ReturnedFacts, SomeReason
    <3>2. Elements(ReasonsFor(s)) # {}
      BY <2>2, <3>1
    <3>3. Elements(<<>>) = {}
      BY DEF Elements
    <3>. QED
      BY <3>2, <3>3
  <2>5. issued = IssuedReasons(s)
    BY <2>2 DEF IssuedReasons
  <2>6. into = EdgesInto(s)
    BY <2>1 DEF EdgesInto
  <2> HIDE DEF issued, into
  <2>7. /\ Cardinality(issued) = Cardinality(into)
        /\ \A x \in issued : \E e \in into : x = EdgeReason(e)
    <3>1. /\ EnvironmentSeparation /\ IsFiniteSet(edges)
          /\ edges \subseteq Edge /\ edges = DeclaredEdges(request, expanded)
          /\ reasons = DeclaredReasons(request, expanded)
      BY <1>1, ReturnedFacts
    <3>. QED
      BY <2>5, <2>6, <3>1, ReasonsAreEdges
  <2>8. ASSUME NEW x \in issued
        PROVE  \E e \in Elements(EdgesForScope(x.scope)) : e.required = s /\ {e.issuer} = x.issuer
    <3>1. PICK e \in into : x = EdgeReason(e)
      BY <2>7
    <3>2. e \in edges /\ e.required = s /\ {e.issuer} = x.issuer /\ e.scope = x.scope
      BY <2>6, <3>1 DEF EdgeReason, EdgesInto
    <3>3. e \in Elements(EdgesForScope(x.scope))
      BY <2>2, <3>2
    <3>. QED
      BY <3>2, <3>3
  <2>. QED
    BY <2>3, <2>4, <2>7, <2>8 DEF issued, into
<1>2. AssemblyInv => QueriesAgree
  BY <1>1 DEF QueriesAgree
<1>. QED
  BY <1>2, AlwaysAssembly, PTL

-----------------------------------------------------------------------------
(***************************************************************************)
(* What depends on the goals of a request, and what does not.              *)
(***************************************************************************)

\* Two requests that differ in their goals at most.
SameContext(r, s) ==
  /\ r.catalog = s.catalog /\ r.installed = s.installed /\ r.profiles = s.profiles
  /\ r.build = s.build /\ r.target = s.target /\ r.preference = s.preference

\* Selection ignores the goals ...
LEMMA SameChoices ==
  ASSUME NEW r, NEW s, SameContext(r, s), NEW d
  PROVE  /\ Refused(r, d) <=> Refused(s, d)
         /\ Select(r, d) = Select(s, d)
         /\ RefusalCode(r, d) = RefusalCode(s, d)
<1>1. \A p : Candidates(r, p) = Candidates(s, p) /\ FindCandidate(r, p) = FindCandidate(s, p)
  BY Zenon DEF SameContext, Candidates, FindCandidate
<1>2. \A e : SelectedTarget(r, e) = SelectedTarget(s, e)
  BY Zenon DEF SameContext, SelectedTarget
<1>3. \A p, e : /\ CandidateOk(r, p, e) <=> CandidateOk(s, p, e)
                /\ InstalledOk(r, p, e) <=> InstalledOk(s, p, e)
  BY <1>1, <1>2, Zenon DEF SameContext, CandidateOk, InstalledOk
<1>4. \A a : Admits(r, d, a) <=> Admits(s, d, a)
  BY <1>3, Zenon DEF Admits
<1>5. Preferred(r) = Preferred(s)
  BY Zenon DEF SameContext, Preferred
<1>6. Choice(r, d) = Choice(s, d)
  BY <1>4, <1>5, Zenon DEF Choice
<1>7. Admitted(r, d) <=> Admitted(s, d)
  BY <1>4, Zenon DEF Admitted
<1>8. Refused(r, d) <=> Refused(s, d)
  BY <1>6, <1>7, Zenon DEF Refused, Selects, SameContext
<1>9. Select(r, d) = Select(s, d)
  BY <1>6, Zenon DEF Select
<1>10. RefusalCode(r, d) = RefusalCode(s, d)
  BY <1>1, <1>7 DEF RefusalCode, SameContext
<1>. QED
  BY <1>8, <1>9, <1>10

\* ... and so do the requirements of a key, and all that follows from one.
LEMMA SameRequirements ==
  ASSUME NEW r, NEW s, SameContext(r, s), NEW k
  PROVE  /\ Requirements(r, k) = Requirements(s, k)
         /\ \A i : /\ RequirementDemand(r, k, i) = RequirementDemand(s, k, i)
                   /\ EdgeFor(r, k, i) = EdgeFor(s, k, i)
         /\ Children(r, k) = Children(s, k)
<1>0. \A d : (Refused(r, d) <=> Refused(s, d)) /\ Select(r, d) = Select(s, d)
  BY SameChoices
<1>1. \A p : FindCandidate(r, p) = FindCandidate(s, p)
  BY Zenon DEF SameContext, Candidates, FindCandidate
<1>2. Requirements(r, k) = Requirements(s, k)
  BY <1>1, Zenon DEF SameContext, Requirements
<1>3. \A i : RequirementDemand(r, k, i) = RequirementDemand(s, k, i)
  BY <1>2, Zenon DEF RequirementDemand
<1>4. \A i : EdgeFor(r, k, i) = EdgeFor(s, k, i)
  BY <1>3, <1>0, Zenon DEF EdgeFor
<1>5. Children(r, k) = Children(s, k)
  <2>1. {j \in 1..Len(Requirements(r, k)) : ~ Refused(r, RequirementDemand(r, k, j))}
          = {j \in 1..Len(Requirements(s, k)) : ~ Refused(s, RequirementDemand(s, k, j))}
    BY <1>2, <1>3, <1>0
  <2>2. \A j : Expansions(Select(r, RequirementDemand(r, k, j)), "run")
                 = Expansions(Select(s, RequirementDemand(s, k, j)), "run")
    BY <1>3, <1>0, Zenon
  <2>. QED
    BY <2>1, <2>2 DEF Children
<1>. QED
  BY <1>2, <1>3, <1>4, <1>5

\* What a goal asks for does not depend on the other goals.
LEMMA SameGoalDemands ==
  ASSUME NEW r, NEW s, SameContext(r, s), NEW g
  PROVE  /\ KnownGoal(r, g) <=> KnownGoal(s, g)
         /\ GoalPackages(r, g) = GoalPackages(s, g)
         /\ \A j : /\ RootDemand(r, g, j) = RootDemand(s, g, j)
                   /\ RootReason(r, g, j) = RootReason(s, g, j)
         /\ GoalKeys(r, g) = GoalKeys(s, g)
<1>0. \A d : (Refused(r, d) <=> Refused(s, d)) /\ Select(r, d) = Select(s, d)
  BY SameChoices
<1>1. KnownGoal(r, g) <=> KnownGoal(s, g)
  BY Zenon DEF SameContext, KnownGoal
<1>2. GoalPackages(r, g) = GoalPackages(s, g)
  BY Zenon DEF SameContext, GoalPackages
<1>3. \A j : RootDemand(r, g, j) = RootDemand(s, g, j)
  BY <1>2, Zenon DEF RootDemand
<1>4. \A j : RootReason(r, g, j) = RootReason(s, g, j)
  BY <1>3, <1>0, Zenon DEF RootReason
<1>5. GoalKeys(r, g) = GoalKeys(s, g)
  <2>1. {j \in 1..Len(GoalPackages(r, g)) : ~ Refused(r, RootDemand(r, g, j))}
          = {j \in 1..Len(GoalPackages(s, g)) : ~ Refused(s, RootDemand(s, g, j))}
    BY <1>2, <1>3, <1>0
  <2>2. \A j : Expansions(Select(r, RootDemand(r, g, j)), g.scope)
                 = Expansions(Select(s, RootDemand(s, g, j)), g.scope)
    BY <1>3, <1>0, Zenon
  <2>. QED
    BY <2>1, <2>2 DEF GoalKeys
<1>. QED
  BY <1>1, <1>2, <1>3, <1>4, <1>5

\* Each goal of the first request is one of the second.
LEMMA GoalFound ==
  ASSUME NEW r, NEW s, AsksWithin(r, s), NEW i \in 1..Len(r.goals)
  PROVE  \E j \in 1..Len(s.goals) : s.goals[j] = r.goals[i]
BY Zenon DEF AsksWithin

\* With more goals there are more keys, demands and refusals.
LEMMA GoalsAddKeys ==
  ASSUME NEW r, NEW s, AsksWithin(r, s), NEW K
  PROVE  /\ Closed(s, K) => Closed(r, K)
         /\ Demands(r, K) \subseteq Demands(s, K)
         /\ Refusals(r, K) \subseteq Refusals(s, K)
<1>0. SameContext(r, s)
  BY Zenon DEF AsksWithin, SameContext
<1>1. \A k : /\ Requirements(r, k) = Requirements(s, k)
             /\ \A i : RequirementDemand(r, k, i) = RequirementDemand(s, k, i)
             /\ Children(r, k) = Children(s, k)
  BY <1>0, SameRequirements
<1>2. \A g : /\ KnownGoal(r, g) <=> KnownGoal(s, g)
             /\ GoalPackages(r, g) = GoalPackages(s, g)
             /\ \A j : RootDemand(r, g, j) = RootDemand(s, g, j)
             /\ GoalKeys(r, g) = GoalKeys(s, g)
  BY <1>0, SameGoalDemands
<1>3. \A d : (Refused(r, d) <=> Refused(s, d)) /\ RefusalCode(r, d) = RefusalCode(s, d)
  BY <1>0, SameChoices
<1>4. RootKeys(r) \subseteq RootKeys(s)
  <2> SUFFICES ASSUME NEW i \in 1..Len(r.goals), KnownGoal(r, r.goals[i]),
                      NEW k \in GoalKeys(r, r.goals[i])
               PROVE  k \in RootKeys(s)
    BY DEF RootKeys
  <2>1. PICK j \in 1..Len(s.goals) : s.goals[j] = r.goals[i]
    BY GoalFound
  <2>2. KnownGoal(s, s.goals[j]) /\ k \in GoalKeys(s, s.goals[j])
    BY <1>2, <2>1
  <2>. QED
    BY <2>2 DEF RootKeys
<1>5. Closed(s, K) => Closed(r, K)
  <2>1. UNION {Children(r, k) : k \in K} = UNION {Children(s, k) : k \in K}
    BY <1>1
  <2>. QED
    BY <1>4, <2>1 DEF Closed, Successors
<1>6. RootDemands(r) \subseteq RootDemands(s)
  <2> SUFFICES ASSUME NEW i \in 1..Len(r.goals), KnownGoal(r, r.goals[i]),
                      NEW j \in 1..Len(GoalPackages(r, r.goals[i]))
               PROVE  RootDemand(r, r.goals[i], j) \in RootDemands(s)
    BY DEF RootDemands
  <2>1. PICK m \in 1..Len(s.goals) : s.goals[m] = r.goals[i]
    BY GoalFound
  <2>2. /\ KnownGoal(s, s.goals[m]) /\ j \in 1..Len(GoalPackages(s, s.goals[m]))
        /\ RootDemand(r, r.goals[i], j) = RootDemand(s, s.goals[m], j)
    BY <1>2, <2>1
  <2>. QED
    BY <2>2 DEF RootDemands
<1>7. Demands(r, K) \subseteq Demands(s, K)
  <2>1. \A k : KeyDemands(r, k) = KeyDemands(s, k)
    BY <1>1 DEF KeyDemands
  <2>. QED
    BY <1>6, <2>1 DEF Demands
<1>8. ASSUME NEW c \in Refusals(r, K)
      PROVE  c \in Refusals(s, K)
  <2>1. CASE \E d \in Demands(r, K) : Refused(r, d) /\ c = RefusalCode(r, d)
    <3>1. PICK d \in Demands(r, K) : Refused(r, d) /\ c = RefusalCode(r, d)
      BY <2>1
    <3>2. d \in Demands(s, K) /\ Refused(s, d) /\ c = RefusalCode(s, d)
      BY <1>3, <1>7, <3>1
    <3>. QED
      BY <3>2, DemandRefusal
  <2>2. CASE c = "unknown_profile" /\ \E i \in 1..Len(r.goals) : ~ KnownGoal(r, r.goals[i])
    <3>1. PICK i \in 1..Len(r.goals) : ~ KnownGoal(r, r.goals[i])
      BY <2>2
    <3>2. PICK j \in 1..Len(s.goals) : s.goals[j] = r.goals[i]
      BY GoalFound
    <3>3. ~ KnownGoal(s, s.goals[j])
      BY <1>2, <3>1, <3>2
    <3>. QED
      BY <2>2, <3>3 DEF Refusals
  <2>. QED
    BY <2>1, <2>2 DEF Refusals
<1>. QED
  BY <1>5, <1>7, <1>8

\* ... and a larger graph.
LEMMA GoalsAddParts ==
  ASSUME NEW r, NEW s, AsksWithin(r, s), NEW K
  PROVE  /\ DeclaredSelections(r, K) \subseteq DeclaredSelections(s, K)
         /\ DeclaredEdges(r, K) = DeclaredEdges(s, K)
         /\ DeclaredReasons(r, K) \subseteq DeclaredReasons(s, K)
<1>0. SameContext(r, s)
  BY Zenon DEF AsksWithin, SameContext
<1>1. DeclaredSelections(r, K) \subseteq DeclaredSelections(s, K)
  <2>1. \A d : Select(r, d) = Select(s, d)
    BY <1>0, SameChoices
  <2>2. Demands(r, K) \subseteq Demands(s, K)
    BY GoalsAddKeys
  <2>. QED
    BY <2>1, <2>2 DEF DeclaredSelections
<1>2. DeclaredEdges(r, K) = DeclaredEdges(s, K)
  <2>1. \A k : /\ Requirements(r, k) = Requirements(s, k)
               /\ \A i : EdgeFor(r, k, i) = EdgeFor(s, k, i)
    BY <1>0, SameRequirements
  <2>. QED
    BY <2>1 DEF DeclaredEdges
<1>3. RootReasons(r) \subseteq RootReasons(s)
  <2>1. \A g : /\ KnownGoal(r, g) <=> KnownGoal(s, g)
               /\ GoalPackages(r, g) = GoalPackages(s, g)
               /\ \A j : RootReason(r, g, j) = RootReason(s, g, j)
    BY <1>0, SameGoalDemands
  <2> SUFFICES ASSUME NEW i \in 1..Len(r.goals), KnownGoal(r, r.goals[i]),
                      NEW j \in 1..Len(GoalPackages(r, r.goals[i]))
               PROVE  RootReason(r, r.goals[i], j) \in RootReasons(s)
    BY DEF RootReasons
  <2>2. PICK m \in 1..Len(s.goals) : s.goals[m] = r.goals[i]
    BY GoalFound
  <2>3. /\ KnownGoal(s, s.goals[m]) /\ j \in 1..Len(GoalPackages(s, s.goals[m]))
        /\ RootReason(r, r.goals[i], j) = RootReason(s, s.goals[m], j)
    BY <2>1, <2>2
  <2>. QED
    BY <2>3 DEF RootReasons
<1>. QED
  BY <1>1, <1>2, <1>3 DEF DeclaredReasons

-----------------------------------------------------------------------------
(***************************************************************************)
(* The answer a request must get, stated of the request alone.             *)
(***************************************************************************)

\* Every closed set of keys holds these.
Needed(r, K) == \A C : Closed(r, C) => K \subseteq C

GoalMembers(r, g) == {Select(r, RootDemand(r, g, j)) : j \in 1..Len(GoalPackages(r, g))}

\* The members of a goal do not depend on the other goals.
LEMMA SameMembers ==
  ASSUME NEW r, NEW s, SameContext(r, s), NEW g
  PROVE  GoalMembers(r, g) = GoalMembers(s, g)
<1>1. /\ GoalPackages(r, g) = GoalPackages(s, g)
      /\ \A j : RootDemand(r, g, j) = RootDemand(s, g, j)
  BY SameGoalDemands
<1>2. \A d : Select(r, d) = Select(s, d)
  BY SameChoices
<1>3. \A j : Select(r, RootDemand(r, g, j)) = Select(s, RootDemand(s, g, j))
  BY <1>1, <1>2, Zenon
<1>. QED
  BY <1>1, <1>3 DEF GoalMembers

\* A closure of the roots R in the edges E.
ExactClosure(c, E, R) ==
  /\ c = [selections |-> c.selections, edges |-> c.edges]
  /\ R \subseteq c.selections
  /\ \A C \in SUBSET c.selections :
       R \subseteq C /\ (\A e \in E : e.issuer \in C => e.required \in C) => C = c.selections
  /\ \A e \in E : e.issuer \in c.selections => e.required \in c.selections
  /\ c.edges = {e \in E : e.issuer \in c.selections}

\* The result is the graph which the keys K declare, and the closures of the goals in it.
ResultOf(r, K, o) ==
  /\ Closed(r, K) /\ Needed(r, K) /\ Refusals(r, K) = {}
  /\ o = ResolutionResult(o.selections, o.edges, o.goals, o.reasons)
  /\ CanonicalVectors(o, DeclaredSelections(r, K), DeclaredEdges(r, K), DeclaredReasons(r, K))
  /\ o.goals \in Seq({o.goals[i] : i \in 1..Len(o.goals)}) /\ Len(o.goals) = Len(r.goals)
  /\ \A i \in 1..Len(r.goals) :
       ExactClosure(o.goals[i], DeclaredEdges(r, K), GoalMembers(r, r.goals[i]))

\* The code refuses a demand that cannot be avoided.
RefusalOf(r, K, o) ==
  /\ Needed(r, K)
  /\ o.kind = "error"
  /\ o.code \in Refusals(r, K)

RightAnswer(r, o) ==
  \/ o = Unidentified
  \/ \E K : RefusalOf(r, K, o)
  \/ \E K : ResultOf(r, K, o)

\* A closure in more edges holds more.
LEMMA ClosureGrows ==
  ASSUME NEW c, NEW d, NEW D, NEW E, D \subseteq E, NEW R,
         ExactClosure(c, D, R), ExactClosure(d, E, R)
  PROVE  c.selections \subseteq d.selections /\ c.edges \subseteq d.edges
<1> DEFINE C == c.selections \cap d.selections
<1>1. C \in SUBSET c.selections /\ R \subseteq C
  BY DEF ExactClosure
<1>2. \A e \in D : e.issuer \in C => e.required \in C
  BY DEF ExactClosure
<1>0. \A B \in SUBSET c.selections :
        R \subseteq B /\ (\A e \in D : e.issuer \in B => e.required \in B) => B = c.selections
  BY Zenon DEF ExactClosure
<1> HIDE DEF C
<1>3. C = c.selections
  BY <1>0, <1>1, <1>2, Zenon
<1>4. c.selections \subseteq d.selections
  BY <1>3 DEF C
<1>. QED
  BY <1>4 DEF ExactClosure

\* If a request is resolved, one that asks for less is not refused.
LEMMA LessNotRefused ==
  ASSUME NEW r, NEW s, AsksWithin(r, s), NEW K, NEW L, NEW o, NEW p,
         RefusalOf(r, K, o), ResultOf(s, L, p)
  PROVE  FALSE
<1>1. Closed(r, L) /\ Refusals(r, L) \subseteq Refusals(s, L) /\ Refusals(s, L) = {}
  BY GoalsAddKeys DEF ResultOf
<1>2. K \subseteq L
  BY <1>1 DEF RefusalOf, Needed
<1>3. Refusals(r, K) \subseteq Refusals(r, L)
  BY <1>2 DEF Refusals, Demands
<1>. QED
  BY <1>1, <1>3 DEF RefusalOf

\* What two requests declare, one of which asks for less.
LEMMA LessDeclared ==
  ASSUME NEW r, NEW s, AsksWithin(r, s), NEW K, NEW L, NEW o, NEW p,
         ResultOf(r, K, o), ResultOf(s, L, p)
  PROVE  /\ DeclaredSelections(r, K) \subseteq DeclaredSelections(s, L)
         /\ DeclaredEdges(r, K) \subseteq DeclaredEdges(s, L)
         /\ DeclaredReasons(r, K) \subseteq DeclaredReasons(s, L)
<1>1. Closed(r, L)
  BY GoalsAddKeys DEF ResultOf
<1>2. K \subseteq L
  BY <1>1 DEF ResultOf, Needed
<1>3. /\ DeclaredSelections(r, K) \subseteq DeclaredSelections(r, L)
      /\ DeclaredEdges(r, K) \subseteq DeclaredEdges(r, L)
      /\ DeclaredReasons(r, K) \subseteq DeclaredReasons(r, L)
  BY <1>2, DeclaredMonotone
<1>4. /\ DeclaredSelections(r, L) \subseteq DeclaredSelections(s, L)
      /\ DeclaredEdges(r, L) = DeclaredEdges(s, L)
      /\ DeclaredReasons(r, L) \subseteq DeclaredReasons(s, L)
  BY GoalsAddParts
<1>. QED
  BY <1>3, <1>4

\* The results of two requests, one of which asks for less.
LEMMA LessParts ==
  ASSUME NEW r, NEW s, AsksWithin(r, s), NEW K, NEW L, NEW o, NEW p,
         ResultOf(r, K, o), ResultOf(s, L, p)
  PROVE  /\ Elements(o.selections) \subseteq Elements(p.selections)
         /\ Elements(o.edges) \subseteq Elements(p.edges)
         /\ Elements(o.reasons) \subseteq Elements(p.reasons)
<1>1. /\ DeclaredSelections(r, K) \subseteq DeclaredSelections(s, L)
      /\ DeclaredEdges(r, K) \subseteq DeclaredEdges(s, L)
      /\ DeclaredReasons(r, K) \subseteq DeclaredReasons(s, L)
  BY LessDeclared
<1>2. /\ Elements(o.selections) = DeclaredSelections(r, K)
      /\ Elements(o.edges) = DeclaredEdges(r, K)
      /\ Elements(o.reasons) = DeclaredReasons(r, K)
      /\ Elements(p.selections) = DeclaredSelections(s, L)
      /\ Elements(p.edges) = DeclaredEdges(s, L)
      /\ Elements(p.reasons) = DeclaredReasons(s, L)
  BY Zenon DEF ResultOf, CanonicalVectors
<1>. QED
  BY <1>1, <1>2, Zenon

\* The closures of a goal that both name.
LEMMA LessClosure ==
  ASSUME NEW r, NEW s, AsksWithin(r, s), NEW K, NEW L, NEW o, NEW p,
         ResultOf(r, K, o), ResultOf(s, L, p),
         NEW i \in 1..Len(r.goals), NEW j \in 1..Len(s.goals), r.goals[i] = s.goals[j]
  PROVE  /\ o.goals[i].selections \subseteq p.goals[j].selections
         /\ o.goals[i].edges \subseteq p.goals[j].edges
<1>1. DeclaredEdges(r, K) \subseteq DeclaredEdges(s, L)
  BY LessDeclared
<1>2. GoalMembers(r, r.goals[i]) = GoalMembers(s, s.goals[j])
  <2>1. SameContext(r, s)
    BY Zenon DEF AsksWithin, SameContext
  <2>2. \A g : GoalMembers(r, g) = GoalMembers(s, g)
    BY <2>1, SameMembers
  <2>. QED
    BY <2>2, Zenon
<1>3. /\ ExactClosure(o.goals[i], DeclaredEdges(r, K), GoalMembers(r, r.goals[i]))
      /\ ExactClosure(p.goals[j], DeclaredEdges(s, L), GoalMembers(s, s.goals[j]))
  BY Zenon DEF ResultOf
<1> DEFINE c == o.goals[i]
           d == p.goals[j]
           D == DeclaredEdges(r, K)
           E == DeclaredEdges(s, L)
           R == GoalMembers(r, r.goals[i])
<1>4. D \subseteq E /\ ExactClosure(c, D, R) /\ ExactClosure(d, E, R)
  BY <1>1, <1>2, <1>3, Zenon
<1> HIDE DEF c, d, D, E, R
<1>5. c.selections \subseteq d.selections /\ c.edges \subseteq d.edges
  BY <1>4, ClosureGrows
<1>. QED
  BY <1>5 DEF c, d

\* A request has one result.
LEMMA OneResult ==
  ASSUME NEW r, NEW K, NEW L, NEW o, NEW p, ResultOf(r, K, o), ResultOf(r, L, p)
  PROVE  o = p
<1>1. AsksWithin(r, r)
  BY Zenon DEF AsksWithin
<1>2. /\ Elements(o.selections) = Elements(p.selections)
      /\ Elements(o.edges) = Elements(p.edges)
      /\ Elements(o.reasons) = Elements(p.reasons)
  <2>1. /\ Elements(o.selections) \subseteq Elements(p.selections)
        /\ Elements(o.edges) \subseteq Elements(p.edges)
        /\ Elements(o.reasons) \subseteq Elements(p.reasons)
    BY <1>1, LessParts
  <2>2. /\ Elements(p.selections) \subseteq Elements(o.selections)
        /\ Elements(p.edges) \subseteq Elements(o.edges)
        /\ Elements(p.reasons) \subseteq Elements(o.reasons)
    BY <1>1, LessParts
  <2>. QED
    BY <2>1, <2>2
<1>3. ASSUME NEW i \in 1..Len(r.goals)
      PROVE  o.goals[i].selections = p.goals[i].selections /\ o.goals[i].edges = p.goals[i].edges
  <2>1. /\ o.goals[i].selections \subseteq p.goals[i].selections
        /\ o.goals[i].edges \subseteq p.goals[i].edges
    BY <1>1, LessClosure
  <2>2. /\ p.goals[i].selections \subseteq o.goals[i].selections
        /\ p.goals[i].edges \subseteq o.goals[i].edges
    BY <1>1, LessClosure
  <2>. QED
    BY <2>1, <2>2
<1>4. o.selections = p.selections
  <2>1. /\ o.selections \in Seq(Selection) /\ AscendsBy(o.selections, SelectionKeys)
        /\ p.selections \in Seq(Selection) /\ AscendsBy(p.selections, SelectionKeys)
    BY Zenon DEF ResultOf, CanonicalVectors
  <2>. QED
    BY <1>2, <2>1, SelectionsKeyed, SameVector
<1>5. o.edges = p.edges
  <2>1. /\ o.edges \in Seq(Edge) /\ AscendsBy(o.edges, EdgeKeys)
        /\ p.edges \in Seq(Edge) /\ AscendsBy(p.edges, EdgeKeys)
    BY Zenon DEF ResultOf, CanonicalVectors
  <2>. QED
    BY <1>2, <2>1, EdgesKeyed, SameVector
<1>6. o.reasons = p.reasons
  <2>1. /\ o.reasons \in Seq(StatedReason) /\ AscendsBy(o.reasons, ReasonKeys)
        /\ p.reasons \in Seq(StatedReason) /\ AscendsBy(p.reasons, ReasonKeys)
    BY Zenon DEF ResultOf, CanonicalVectors
  <2>. QED
    BY <1>2, <2>1, ReasonsKeyed, SameVector
<1>7. o.goals = p.goals
  <2>1. \A i \in 1..Len(r.goals) : o.goals[i] = p.goals[i]
    <3> SUFFICES ASSUME NEW i \in 1..Len(r.goals) PROVE o.goals[i] = p.goals[i]
      OBVIOUS
    <3>1. /\ o.goals[i] = [selections |-> o.goals[i].selections, edges |-> o.goals[i].edges]
          /\ p.goals[i] = [selections |-> p.goals[i].selections, edges |-> p.goals[i].edges]
      BY Zenon DEF ResultOf, ExactClosure
    <3>. QED
      BY <1>3, <3>1
  <2>2. /\ o.goals \in Seq({o.goals[i] : i \in 1..Len(o.goals)}) /\ Len(o.goals) = Len(r.goals)
        /\ p.goals \in Seq({p.goals[i] : i \in 1..Len(p.goals)}) /\ Len(p.goals) = Len(r.goals)
    BY Zenon DEF ResultOf
  <2> DEFINE S == {o.goals[i] : i \in 1..Len(o.goals)}
             T == {p.goals[i] : i \in 1..Len(p.goals)}
  <2>3. o.goals \in Seq(S \cup T) /\ p.goals \in Seq(S \cup T)
    <3>1. Seq(S) \subseteq Seq(S \cup T) /\ Seq(T) \subseteq Seq(S \cup T)
      BY MoreElements
    <3>. QED
      BY <2>2, <3>1
  <2> HIDE DEF S, T
  <2>4. Len(o.goals) = Len(p.goals) /\ \A i \in 1..Len(o.goals) : o.goals[i] = p.goals[i]
    BY <2>1, <2>2
  <2>. QED
    BY <2>3, <2>4, SeqEqual
<1>8. /\ o = ResolutionResult(o.selections, o.edges, o.goals, o.reasons)
      /\ p = ResolutionResult(p.selections, p.edges, p.goals, p.reasons)
  BY Zenon DEF ResultOf
<1>. QED
  BY <1>4, <1>5, <1>6, <1>7, <1>8, Zenon

-----------------------------------------------------------------------------
(***************************************************************************)
(* Every call gets the answer of its request.                              *)
(***************************************************************************)

\* A goal collects its own roots and nothing else.
MembersRooted ==
  \A i \in 1..Len(request.goals) : MembersOf(i) \subseteq GoalMembers(request, request.goals[i])

LEMMA MembersStep ==
  ASSUME IInv, MembersRooted, [Next]_vars
  PROVE  MembersRooted'
<1>1. CASE UNCHANGED <<request, members>>
  <2>1. \A i : MembersOf(i)' = MembersOf(i)
    BY <1>1 DEF MembersOf
  <2>2. \A i : GoalMembers(request, request.goals[i])' = GoalMembers(request, request.goals[i])
    BY <1>1 DEF GoalMembers
  <2>. QED
    BY <1>1, <2>1, <2>2, Zenon DEF MembersRooted
<1>2. CASE SelectRoot
  <2> DEFINE m == [selection |-> Select(request, RootDemand(request, Goal, path)),
                   path |-> IF Goal.kind = "package" THEN 0 ELSE path]
  <2>1. /\ members' = [members EXCEPT ![goal] = @ \cup {m}] /\ request' = request
        /\ members \in [1..Len(request.goals) -> SUBSET Member]
        /\ goal \in 1..Len(request.goals) /\ Goal = request.goals[goal]
    BY <1>2, LenProperties DEF SelectRoot, AtRoot, IInv, TypeOK, IsRequest, Goal
  <2>2. path \in 1..Len(GoalPackages(request, request.goals[goal]))
    <3>1. path \in Nat \ {0} /\ IsRequest(request)
      BY DEF IInv, TypeOK
    <3>2. path <= Len(GoalPackages(request, Goal)) /\ KnownGoal(request, Goal)
      BY <1>2 DEF SelectRoot
    <3>3. Len(GoalPackages(request, Goal)) \in Nat
      BY <2>1, <3>1, <3>2, GoalType, LenProperties
    <3>. QED
      BY <2>1, <3>1, <3>2, <3>3
  <2>3. m.selection \in GoalMembers(request, request.goals[goal])
    BY <2>1, <2>2 DEF GoalMembers
  <2> HIDE DEF m
  <2> SUFFICES ASSUME NEW i \in 1..Len(request.goals)
               PROVE  MembersOf(i)' \subseteq GoalMembers(request, request.goals[i])
    BY <2>1 DEF MembersRooted, GoalMembers
  <2>4. CASE i = goal
    <3>1. members'[i] = members[i] \cup {m}
      BY <2>1, <2>4
    <3>2. MembersOf(i)' = MembersOf(i) \cup {m.selection}
      BY <3>1 DEF MembersOf
    <3>. QED
      BY <2>3, <2>4, <3>2 DEF MembersRooted
  <2>5. CASE i # goal
    <3>1. members'[i] = members[i]
      BY <2>1, <2>5
    <3>. QED
      BY <3>1 DEF MembersRooted, MembersOf
  <2>. QED
    BY <2>4, <2>5
<1>. QED
  BY <1>1, <1>2
  DEF Next, RefuseRoot, NextGoal, FinishRoots, Enter, Skip, DemandNext, RefuseDemand, Return,
      Fail, roots, vars

\* A closure is its selections and its edges.
ClosuresFormed ==
  \A i \in 1..Len(closures) :
    closures[i] = [selections |-> closures[i].selections, edges |-> closures[i].edges]

LEMMA FormedStep ==
  ASSUME ResolutionInv, ClosuresFormed, [ResolutionNext]_resolution_vars
  PROVE  ClosuresFormed'
<1>1. CASE UNCHANGED closures
  BY <1>1 DEF ClosuresFormed
<1>2. CASE CloseGoal
  <2> DEFINE c == [selections |-> selected, edges |-> reached]
  <2>1. closures' = Append(closures, c)
    BY <1>2 DEF CloseGoal, Closing!CloseGoal
  <2>2. closures \in Seq({closures[i] : i \in 1..Len(closures)})
    BY DEF ResolutionInv, Walk!WalkInv, Walk!ClosuresList
  <2>3. c = [selections |-> c.selections, edges |-> c.edges]
    OBVIOUS
  <2> HIDE DEF c
  <2>4. /\ Len(closures') = Len(closures) + 1 /\ Len(closures) \in Nat
        /\ \A i \in 1..Len(closures) : closures'[i] = closures[i]
        /\ closures'[Len(closures) + 1] = c
    BY <2>1, <2>2
  <2> SUFFICES ASSUME NEW i \in 1..(Len(closures) + 1)
               PROVE  closures'[i] = [selections |-> closures'[i].selections,
                                      edges |-> closures'[i].edges]
    BY <2>4 DEF ClosuresFormed
  <2>5. CASE i \in 1..Len(closures)
    BY <2>4, <2>5, Zenon DEF ClosuresFormed
  <2>6. CASE i = Len(closures) + 1
    BY <2>3, <2>4, <2>6, Zenon
  <2>. QED
    BY <2>4, <2>5, <2>6
<1>. QED
  BY <1>1, <1>2
  DEF ResolutionNext, Resolve, OpenGoal, VisitSelection, Closing!OpenGoal,
      Closing!VisitSelection, closure_vars, resolution_vars

\* What a call came to is a result with the closures built, the code of the engine, or
\* an identity that could not be taken.
OutcomeFormed ==
  \/ outcome = None
  \/ outcome = Unidentified
  \/ outcome = [kind |-> "error", code |-> error] /\ status = "failed"
  \/ outcome = ResolutionResult(outcome.selections, outcome.edges, closures, outcome.reasons)

LEMMA OutcomeStep ==
  ASSUME OutcomeFormed, [AssemblyNext]_assembly_vars
  PROVE  OutcomeFormed'
<1>1. CASE RecordRoot \/ RecordEdge \/ RecordNothing
  BY <1>1 DEF RecordRoot, RecordEdge, RecordNothing, OutcomeFormed
<1>2. CASE Refuse
  BY <1>2 DEF Refuse, Throw, RefuseRoot, RefuseDemand, Fail, OutcomeFormed
<1>3. CASE FailIdentity
  BY <1>3 DEF FailIdentity, Throw, OutcomeFormed, Unidentified
<1>4. CASE Assemble
  <2>1. /\ closures' = closures
        /\ outcome' = ResolutionResult(outcome'.selections, outcome'.edges, closures,
                                       outcome'.reasons)
    BY <1>4 DEF Assemble, closure_vars, ResolutionResult
  <2>. QED
    BY <2>1 DEF OutcomeFormed
<1>5. CASE UNCHANGED assembly_vars
  BY <1>5 DEF assembly_vars, vars, closure_vars, OutcomeFormed, ResolutionResult
<1>. QED
  BY <1>1, <1>2, <1>3, <1>4, <1>5 DEF AssemblyNext

\* The memo holds nothing that could be done without.
LEMMA MemoNeeded ==
  ASSUME IInv
  PROVE  Needed(request, expanded)
<1> SUFFICES ASSUME NEW C, Closed(request, C) PROVE expanded \subseteq C
  BY DEF Needed
<1> DEFINE B == C \cap expanded
<1>1. B \in SUBSET expanded /\ B \subseteq C
  OBVIOUS
<1>2. Successors(request, B) \subseteq C
  BY <1>1, SuccessorsMonotone DEF Closed
<1>3. Successors(request, B) \cap expanded \subseteq B
  BY <1>2
<1> HIDE DEF B
<1>4. B = expanded
  BY <1>1, <1>3, Zenon DEF IInv, ExpandedSound
<1>. QED
  BY <1>1, <1>4

CallInv == AssemblyInv /\ Blamed /\ MembersRooted /\ ClosuresFormed /\ OutcomeFormed

CallsInv == CallInv /\ \A a \in answers : RightAnswer(a.request, a.outcome)

\* The closures of a result are those of its goals.
LEMMA ReturnedClosures ==
  ASSUME CallInv, Delivered, NEW i \in 1..Len(request.goals)
  PROVE  ExactClosure(closures[i], edges, GoalMembers(request, request.goals[i]))
<1>1. ResolutionInv /\ i \in 1..Len(closures)
  BY DEF CallInv, AssemblyInv, Delivered
<1>2. MemberSelections[i] = GoalMembers(request, request.goals[i])
  <2>1. /\ MemberSelections[i] = MembersOf(i)
        /\ \A j \in 1..Len(GoalPackages(request, request.goals[i])) :
             Select(request, RootDemand(request, request.goals[i], j)) \in MembersOf(i)
    BY <1>1, DeliveredFacts
  <2>2. GoalMembers(request, request.goals[i]) \subseteq MembersOf(i)
    BY <2>1 DEF GoalMembers
  <2>3. MembersOf(i) \subseteq GoalMembers(request, request.goals[i])
    BY Zenon DEF CallInv, MembersRooted
  <2>. QED
    BY <2>1, <2>2, <2>3
<1>3. closures[i] = [selections |-> closures[i].selections, edges |-> closures[i].edges]
  BY <1>1, Zenon DEF CallInv, ClosuresFormed
<1> DEFINE kept == closures[i].selections
<1>4. /\ MemberSelections[i] \subseteq kept
      /\ \A e \in edges : e.issuer \in kept => e.required \in kept
      /\ \A C \in SUBSET kept :
           /\ MemberSelections[i] \subseteq C
           /\ \A e \in edges : e.issuer \in C => e.required \in C
           => C = kept
      /\ closures[i].edges = {e \in edges : e.issuer \in kept}
  BY <1>1, ClosuresHold, Zenon
<1> DEFINE R == GoalMembers(request, request.goals[i])
<1>5. MemberSelections[i] = R
  BY <1>2
<1> HIDE DEF R, kept
<1>6. ExactClosure(closures[i], edges, R)
  <2>1. /\ R \subseteq kept
        /\ \A e \in edges : e.issuer \in kept => e.required \in kept
        /\ closures[i].edges = {e \in edges : e.issuer \in kept}
    BY <1>4, <1>5, Zenon
  <2>2. ASSUME NEW C \in SUBSET kept, R \subseteq C,
               \A e \in edges : e.issuer \in C => e.required \in C
        PROVE  C = kept
    BY <1>4, <1>5, <2>2, Zenon
  <2>. QED
    BY <1>3, <2>1, <2>2 DEF ExactClosure, kept
<1>. QED
  BY <1>6 DEF R

\* A call that has ended got the answer of its request.
LEMMA CallAnswersRightly ==
  ASSUME CallInv, outcome # None
  PROVE  RightAnswer(request, outcome)
<1>0. IInv /\ ResolutionInv
  BY DEF CallInv, AssemblyInv, ResolutionInv
<1>1. CASE outcome = [kind |-> "error", code |-> error] /\ status = "failed"
  <2>1. error \in Refusals(request, expanded)
    BY <1>1 DEF CallInv, Blamed
  <2>2. RefusalOf(request, expanded, outcome)
    BY <1>0, <1>1, <2>1, MemoNeeded DEF RefusalOf
  <2>. QED
    BY <2>2 DEF RightAnswer
<1>2. CASE outcome = ResolutionResult(outcome.selections, outcome.edges, closures,
                                      outcome.reasons)
  <2>1. Returned /\ outcome.goals = closures
    BY <1>2 DEF ResolutionResult, Returned
  <2>2. Delivered /\ CanonicalVectors(outcome, selections, edges, reasons)
    BY <2>1 DEF CallInv, AssemblyInv, ReturnedWhole
  <2>3. /\ status = "resolved" /\ Len(closures) = Len(request.goals)
        /\ edges = DeclaredEdges(request, expanded)
        /\ selections = DeclaredSelections(request, expanded)
        /\ reasons = DeclaredReasons(request, expanded)
        /\ Closed(request, expanded)
    BY <1>0, <2>2, DeliveredFacts
  <2>4. Needed(request, expanded) /\ Refusals(request, expanded) = {}
    BY <1>0, <2>3, MemoNeeded, NothingRefused
  <2>5. closures \in Seq({closures[i] : i \in 1..Len(closures)})
    BY <1>0 DEF ResolutionInv, Walk!WalkInv, Walk!ClosuresList
  <2>6. \A i \in 1..Len(request.goals) :
          ExactClosure(closures[i], edges, GoalMembers(request, request.goals[i]))
    BY <2>2, ReturnedClosures
  <2>7. outcome = ResolutionResult(outcome.selections, outcome.edges, outcome.goals,
                                   outcome.reasons)
    BY <1>2, <2>1, Zenon
  <2>8. ResultOf(request, expanded, outcome)
    BY <2>1, <2>2, <2>3, <2>4, <2>5, <2>6, <2>7, Zenon DEF ResultOf
  <2>. QED
    BY <2>8 DEF RightAnswer
<1>. QED
  BY <1>1, <1>2 DEF CallInv, OutcomeFormed, RightAnswer

LEMMA CallStep ==
  ASSUME CallInv, [AssemblyNext]_assembly_vars
  PROVE  CallInv'
<1>1. AssemblyInv' /\ OutcomeFormed'
  BY AssemblyStep, OutcomeStep DEF CallInv
<1>2. [ResolutionNext]_resolution_vars /\ [Next]_vars
  BY AssemblyResolves, AssemblyEngine
<1>3. Blamed' /\ MembersRooted' /\ ClosuresFormed'
  BY <1>2, BlamedStep, MembersStep, FormedStep DEF CallInv, AssemblyInv, ResolutionInv
<1>. QED
  BY <1>1, <1>3 DEF CallInv

\* An engine that was just built.
LEMMA CallInit == AssemblyInit => CallInv
<1> SUFFICES ASSUME AssemblyInit PROVE CallInv
  OBVIOUS
<1>1. /\ Init /\ closures = <<>> /\ outcome = None /\ status = "resolving"
      /\ members = [i \in 1..Len(request.goals) |-> {}]
  BY DEF AssemblyInit, ResolutionInit, Init, Closing!NothingClosed
<1>2. AssemblyInv
  BY AssemblyInitInv
<1>3. Blamed /\ MembersRooted /\ ClosuresFormed /\ OutcomeFormed
  BY <1>1, EmptySeq DEF Blamed, MembersRooted, MembersOf, ClosuresFormed, OutcomeFormed
<1>. QED
  BY <1>2, <1>3 DEF CallInv

\* A call begins as the first one did.
LEMMA StartsAfresh == StartEngine({}) => AssemblyInit'
BY DEF StartEngine, AssemblyInit, ResolutionInit, Init, Closing!NothingClosed

LEMMA NextCallInit == NextCall => CallInv'
<1>1. NextCall => AssemblyInit'
  BY StartsAfresh DEF NextCall, NextCallWith
<1>. QED
  BY <1>1, CallInit, PTL

LEMMA CallingStep == CallsInv /\ [CallsNext]_calls_vars => CallsInv'
<1> SUFFICES ASSUME CallsInv, [CallsNext]_calls_vars PROVE CallsInv'
  OBVIOUS
<1>1. CASE NextCall
  <2>1. CallInv'
    BY <1>1, NextCallInit
  <2>2. /\ outcome # None
        /\ answers' = answers \cup {Answer(request, outcome)}
    BY <1>1 DEF NextCall, NextCallWith
  <2>3. RightAnswer(request, outcome)
    BY <2>2, CallAnswersRightly DEF CallsInv
  <2> DEFINE b == Answer(request, outcome)
  <2>4. b.request = request /\ b.outcome = outcome
    BY DEF Answer
  <2>. HIDE DEF b
  <2>5. \A a \in answers' : a \in answers \/ a = b
    BY <2>2 DEF b
  <2>6. \A a \in answers' : RightAnswer(a.request, a.outcome)
    BY <2>3, <2>4, <2>5, Zenon DEF CallsInv
  <2>7. (\A a \in answers : RightAnswer(a.request, a.outcome))'
    BY <2>6 DEF RightAnswer, RefusalOf, ResultOf
  <2>. QED
    BY <2>1, <2>7 DEF CallsInv
<1>2. CASE InCall \/ UNCHANGED calls_vars
  <2>1. [AssemblyNext]_assembly_vars /\ answers' = answers
    BY <1>2 DEF InCall, calls_vars
  <2>. QED
    BY <2>1, CallStep DEF CallsInv
<1>. QED
  BY <1>1, <1>2 DEF CallsNext

LEMMA AlwaysCalls == CallsSpec => []CallsInv
<1>1. CallsInit => CallsInv
  BY CallInit DEF CallsInit, CallsInv
<1>. QED
  BY <1>1, CallingStep, PTL DEF CallsSpec

\* All answers known are right.
LEMMA AnsweredRightly ==
  ASSUME CallsInv, NEW a \in Answered
  PROVE  RightAnswer(a.request, a.outcome)
<1>1. CASE a \in answers
  BY <1>1, Zenon DEF CallsInv
<1>2. CASE outcome # None /\ a = Answer(request, outcome)
  <2>1. a.request = request /\ a.outcome = outcome
    BY <1>2 DEF Answer
  <2>2. RightAnswer(request, outcome)
    BY <1>2, CallAnswersRightly DEF CallsInv
  <2>. QED
    BY <2>1, <2>2, Zenon
<1>. QED
  BY <1>1, <1>2 DEF Answered

\* Whatever was called before, a request resolved once has the same result ever after,
\* unless an identity cannot be taken.
THEOREM CallsRepeat == CallsSpec => []AnswersRepeat
<1>1. ASSUME CallsInv, NEW a \in Answered, NEW b \in Answered,
             a.request = b.request, Resolves(a)
      PROVE  b.outcome \in {a.outcome, Unidentified}
  <2>1. RightAnswer(a.request, a.outcome) /\ RightAnswer(b.request, b.outcome)
    BY <1>1, AnsweredRightly
  <2>2. AsksWithin(b.request, a.request)
    BY <1>1, Zenon DEF AsksWithin
  <2>3. PICK K : ResultOf(a.request, K, a.outcome)
    BY <1>1, <2>1 DEF RightAnswer, RefusalOf, Resolves, Unidentified
  <2>4. CASE \E L : RefusalOf(b.request, L, b.outcome)
    BY <2>2, <2>3, <2>4, LessNotRefused
  <2>5. CASE \E L : ResultOf(b.request, L, b.outcome)
    <3>1. PICK L : ResultOf(a.request, L, b.outcome)
      BY <1>1, <2>5, Zenon
    <3>. QED
      BY <2>3, <3>1, OneResult
  <2>. QED
    BY <2>1, <2>4, <2>5 DEF RightAnswer
<1>2. CallsInv => AnswersRepeat
  BY <1>1, Zenon DEF AnswersRepeat
<1>. QED
  BY <1>2, AlwaysCalls, PTL

\* With further goals a request can only get a larger result.
THEOREM CallsGrow == CallsSpec => []GoalsOnlyAdd
<1>1. ASSUME CallsInv, NEW a \in Answered, NEW b \in Answered,
             AsksWithin(a.request, b.request), Resolves(b), a.outcome # Unidentified
      PROVE  \E K, L : ResultOf(a.request, K, a.outcome) /\ ResultOf(b.request, L, b.outcome)
  <2>1. RightAnswer(a.request, a.outcome) /\ RightAnswer(b.request, b.outcome)
    BY <1>1, AnsweredRightly
  <2>2. PICK L : ResultOf(b.request, L, b.outcome)
    BY <1>1, <2>1 DEF RightAnswer, RefusalOf, Resolves, Unidentified
  <2>3. ~ \E K : RefusalOf(a.request, K, a.outcome)
    BY <1>1, <2>2, LessNotRefused
  <2>. QED
    BY <1>1, <2>1, <2>2, <2>3, Zenon DEF RightAnswer
<1>2. CallsInv => GoalsOnlyAdd
  <2> SUFFICES ASSUME CallsInv, NEW a \in Answered, NEW b \in Answered,
                      AsksWithin(a.request, b.request), Resolves(b), a.outcome # Unidentified
               PROVE  /\ Resolves(a)
                      /\ Elements(a.outcome.selections) \subseteq Elements(b.outcome.selections)
                      /\ Elements(a.outcome.edges) \subseteq Elements(b.outcome.edges)
                      /\ Elements(a.outcome.reasons) \subseteq Elements(b.outcome.reasons)
                      /\ \A i \in 1..Len(a.request.goals), j \in 1..Len(b.request.goals) :
                           a.request.goals[i] = b.request.goals[j] =>
                             /\ a.outcome.goals[i].selections
                                  \subseteq b.outcome.goals[j].selections
                             /\ a.outcome.goals[i].edges \subseteq b.outcome.goals[j].edges
    BY Zenon DEF GoalsOnlyAdd
  <2>1. PICK K, L : ResultOf(a.request, K, a.outcome) /\ ResultOf(b.request, L, b.outcome)
    BY <1>1
  <2>2. Resolves(a)
    BY <2>1 DEF ResultOf, ResolutionResult, Resolves
  <2>3. /\ Elements(a.outcome.selections) \subseteq Elements(b.outcome.selections)
        /\ Elements(a.outcome.edges) \subseteq Elements(b.outcome.edges)
        /\ Elements(a.outcome.reasons) \subseteq Elements(b.outcome.reasons)
    BY <2>1, LessParts
  <2>4. ASSUME NEW i \in 1..Len(a.request.goals), NEW j \in 1..Len(b.request.goals),
               a.request.goals[i] = b.request.goals[j]
        PROVE  /\ a.outcome.goals[i].selections \subseteq b.outcome.goals[j].selections
               /\ a.outcome.goals[i].edges \subseteq b.outcome.goals[j].edges
    <3> DEFINE r == a.request
               s == b.request
               o == a.outcome
               p == b.outcome
    <3>1. /\ AsksWithin(r, s) /\ ResultOf(r, K, o) /\ ResultOf(s, L, p)
          /\ i \in 1..Len(r.goals) /\ j \in 1..Len(s.goals) /\ r.goals[i] = s.goals[j]
      BY <2>1, <2>4
    <3> HIDE DEF r, s, o, p
    <3>2. /\ o.goals[i].selections \subseteq p.goals[j].selections
          /\ o.goals[i].edges \subseteq p.goals[j].edges
      BY <3>1, LessClosure
    <3>. QED
      BY <3>2 DEF o, p
  <2>. QED
    BY <2>2, <2>3, <2>4, Zenon
<1>. QED
  BY <1>2, AlwaysCalls, PTL
=============================================================================
