------------------------------ MODULE Resolution ------------------------------
(***************************************************************************)
(* run() of src/resolver.cpp: the engine resolves every goal, then every   *)
(* goal is closed over the edges of the complete result.  The result is    *)
(* visible once the last closure is built, so a failure leaves none.       *)
(***************************************************************************)
EXTENDS Resolver

VARIABLES walking, queue, selected, reached, closures

closure_vars == <<walking, queue, selected, reached, closures>>

MemberSelections == [i \in DOMAIN members |-> {m.selection : m \in members[i]}]

\* The graph and the roots are the engine's; the initial ones are not used.
Closing == INSTANCE GoalClosure WITH Graphs <- {}, Roots <- {}, roots <- MemberSelections

ResolutionInit == Init /\ Closing!NothingClosed

Resolve == Next /\ UNCHANGED closure_vars

OpenGoal       == status = "resolved" /\ UNCHANGED vars /\ Closing!OpenGoal
VisitSelection == UNCHANGED vars /\ Closing!VisitSelection
CloseGoal      == UNCHANGED vars /\ Closing!CloseGoal

ResolutionNext == Resolve \/ OpenGoal \/ VisitSelection \/ CloseGoal

\* One thread runs resolve() to its end.
ResolutionSpec ==
  /\ ResolutionInit
  /\ [][ResolutionNext]_<<vars, closure_vars>>
  /\ WF_<<vars, closure_vars>>(ResolutionNext)

Delivered == status = "resolved" /\ Len(closures) = Len(request.goals)

-----------------------------------------------------------------------------
(***************************************************************************)
(* A delivered result has no dangling reference: edges, reasons, members   *)
(* and closures name selections and edges of the result, and a closure     *)
(* holds both ends of each of its edges and all of its goal's members.     *)
(***************************************************************************)
ResultClosed ==
  Delivered =>
    /\ \A e \in edges : {e.issuer, e.required} \subseteq selections
    /\ \A x \in reasons : {x.selection} \cup x.issuer \subseteq selections
    /\ \A i \in 1..Len(closures) :
         /\ closures[i].selections \subseteq selections
         /\ closures[i].edges \subseteq edges
         /\ MemberSelections[i] \subseteq closures[i].selections
         /\ \A e \in closures[i].edges :
              {e.issuer, e.required} \subseteq closures[i].selections

(***************************************************************************)
(* Nothing in a delivered result is an orphan: each selection and each     *)
(* edge belongs to the closure of some goal.                               *)
(***************************************************************************)
EveryPartOwned ==
  Delivered =>
    /\ selections = UNION {closures[i].selections : i \in 1..Len(closures)}
    /\ edges = UNION {closures[i].edges : i \in 1..Len(closures)}

(***************************************************************************)
(* The closure of a goal holds all that the goal would require if it were  *)
(* resolved alone, although expansions an earlier goal performed are not   *)
(* repeated for it: their edges are found in the shared result.            *)
(***************************************************************************)
Alone(g) ==
  LET after  == [k \in expanded |-> Children(request, k)]
      own    == GoalKeys(request, g)
      closed == {C \in SUBSET expanded : own \subseteq C /\ \A k \in C : after[k] \subseteq C}
  IN {k \in expanded : \A C \in closed : k \in C}

GoalComplete ==
  Delivered =>
    \A i \in 1..Len(closures) :
      LET alone == Alone(request.goals[i])
      IN /\ GoalKeys(request, request.goals[i]) \subseteq alone
         /\ {k.selection : k \in alone} \subseteq closures[i].selections
         /\ DeclaredEdges(request, alone) \subseteq closures[i].edges

(***************************************************************************)
(* "A lifecycle goal follows requirements bound to exactly one lifecycle   *)
(* action and then their runtime closures" and construction (DESIGN.md):   *)
(* beside run and build edges, the closure of a lifecycle goal has edges   *)
(* of the goal's own action only.                                          *)
(***************************************************************************)
LifecycleGoalBoundToAction ==
  Delivered =>
    \A i \in {j \in 1..Len(closures) : request.goals[j].scope \in LifecycleAction} :
      \A e \in closures[i].edges : e.scope \in {"run", "build", request.goals[i].scope}

\* resolve() delivers a result or fails.
ResolutionEnds == <>(Delivered \/ status = "failed")
=============================================================================
