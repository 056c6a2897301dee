------------------------------- MODULE Resolver -------------------------------
(***************************************************************************)
(* The expansion engine of src/resolver.cpp: the depth-first, memoised     *)
(* resolution of every goal of a sealed request into selections, edges and *)
(* reasons, up to the point where the goal closures are built.             *)
(*                                                                         *)
(* The C++ call stack is explicit.  A frame is an activation of expand():  *)
(* next = 0 while the call is outstanding, otherwise the index of the      *)
(* requirement its loop is about to serve.  The end of the sequence is the *)
(* innermost activation.  Vectors that run() sorts and deduplicates before *)
(* they are visible (edges_, reasons_, the members of a goal) are sets.    *)
(***************************************************************************)
EXTENDS Authorities

VARIABLES
  request,     \* request_: chosen once, never changed
  status,      \* "resolving", "resolved" (every goal expanded) or "failed"
  error,       \* the code thrown, "none" unless failed
  goal,        \* index of the goal resolve_goal is working on
  path,        \* index of the profile path (1 for a package goal)
  stack,       \* the outstanding activations of expand
  expanded,    \* expanded_: the memo of (selection, scope)
  selections,  \* the keys of selections_
  edges,       \* edges_
  reasons,     \* reasons_
  members      \* per goal, the members resolve_goal has collected

roots  == <<goal, path, members>>
result == <<selections, edges, reasons>>
vars   == <<request, status, error, goal, path, stack, expanded, selections,
            edges, reasons, members>>

Frame  == [key : Key, next : Nat]

\* A member records the path of the profile it came from, 0 for a package goal.
Member == [selection : Selection, path : Nat]

-----------------------------------------------------------------------------
Call(selection, scope) ==
  [key |-> [selection |-> selection, scope |-> scope], next |-> 0]

\* Variant for the mutation runs: construction is asked of any authority.
CallsForEveryAuthority(selection, scope) ==
  <<Call(selection, scope), Call(selection, "build")>>

\* expand_construction(selection); expand(selection, scope): the last one runs first.
Calls(selection, scope) ==
  IF selection.authority = "candidate"
  THEN <<Call(selection, scope), Call(selection, "build")>>
  ELSE <<Call(selection, scope)>>

Popped(s)   == SubSeq(s, 1, Len(s) - 1)
Advanced(s) == [s EXCEPT ![Len(s)].next = @ + 1]

Goal      == request.goals[goal]
Top       == stack[Len(stack)]
Serving   == status = "resolving" /\ stack # <<>> /\ Top.next > 0
ReqsOf(f) == Requirements(request, f.key)

\* The throw ends the engine: what the failing step had put into selections_ before
\* it is lost with all the rest.
Fail(code) ==
  /\ status' = "failed"
  /\ error' = code
  /\ UNCHANGED <<request, roots, stack, result>>

Init ==
  /\ request \in Requests
  /\ status = "resolving"
  /\ error = "none"
  /\ goal = 1
  /\ path = 1
  /\ stack = <<>>
  /\ expanded = {}
  /\ selections = {}
  /\ edges = {}
  /\ reasons = {}
  /\ members = [i \in 1..Len(request.goals) |-> {}]

-----------------------------------------------------------------------------
(***************************************************************************)
(* resolve_goal: one step per package path of the goal.                    *)
(***************************************************************************)
AtRoot == status = "resolving" /\ stack = <<>> /\ goal <= Len(request.goals)

SelectRoot ==
  /\ AtRoot
  /\ KnownGoal(request, Goal)
  /\ path <= Len(GoalPackages(request, Goal))
  /\ LET demand    == RootDemand(request, Goal, path)
         selection == Select(request, demand)
     IN /\ ~ Refused(request, demand)
        /\ selections' = selections \cup {selection}
        /\ members' = [members EXCEPT ![goal] = @ \cup
             {[selection |-> selection,
               path |-> IF Goal.kind = "package" THEN 0 ELSE path]}]
        /\ reasons' = reasons \cup {RootReason(request, Goal, path)}
        /\ stack' = Calls(selection, Goal.scope)
  /\ path' = path + 1
  /\ UNCHANGED <<request, status, error, goal, expanded, edges>>

RefuseRoot ==
  /\ AtRoot
  /\ \/ /\ ~ KnownGoal(request, Goal)
        /\ Fail("unknown_profile")
     \/ /\ KnownGoal(request, Goal)
        /\ path <= Len(GoalPackages(request, Goal))
        /\ Refused(request, RootDemand(request, Goal, path))
        /\ Fail(RefusalCode(request, RootDemand(request, Goal, path)))
  /\ UNCHANGED expanded

\* Variant for the mutation runs: the path cursor keeps its value.
NextGoalKeepingPath ==
  /\ AtRoot
  /\ KnownGoal(request, Goal)
  /\ path > Len(GoalPackages(request, Goal))
  /\ goal' = goal + 1
  /\ UNCHANGED <<request, status, error, path, stack, expanded, result, members>>

NextGoal ==
  /\ AtRoot
  /\ KnownGoal(request, Goal)
  /\ path > Len(GoalPackages(request, Goal))
  /\ goal' = goal + 1
  /\ path' = 1
  /\ UNCHANGED <<request, status, error, stack, expanded, result, members>>

FinishRoots ==
  /\ status = "resolving"
  /\ stack = <<>>
  /\ goal > Len(request.goals)
  /\ status' = "resolved"
  /\ UNCHANGED <<request, error, roots, stack, expanded, result>>

-----------------------------------------------------------------------------
(***************************************************************************)
(* expand: the memo is consulted before anything else, then the loop over  *)
(* the requirements runs, each turn expanding what it selected in full.    *)
(***************************************************************************)
Called == status = "resolving" /\ stack # <<>> /\ Top.next = 0

\* Variant for the mutation runs: the memo is written but not consulted.
EnterUnconditionally ==
  /\ Called
  /\ expanded' = expanded \cup {Top.key}
  /\ stack' = Advanced(stack)
  /\ UNCHANGED <<request, status, error, roots, result>>

Enter ==
  /\ Called
  /\ Top.key \notin expanded
  /\ expanded' = expanded \cup {Top.key}
  /\ IF Supplies(Top.key.selection, Top.key.scope)
     THEN stack' = Advanced(stack) /\ UNCHANGED <<request, status, error, roots, result>>
     ELSE Fail("inconsistent_authority")

\* Variant for the mutation runs: a memo hit does not return.
SkipWithoutReturn ==
  /\ Called
  /\ Top.key \in expanded
  /\ UNCHANGED <<request, status, error, roots, stack, expanded, result>>

Skip ==
  /\ Called
  /\ Top.key \in expanded
  /\ stack' = Popped(stack)
  /\ UNCHANGED <<request, status, error, roots, expanded, result>>

\* Variant for the mutation runs: only a new selection gets an edge.
AddEdgeToNew(edge) ==
  /\ edges' = IF edge.required \in selections THEN edges ELSE edges \cup {edge}
  /\ reasons' = reasons \cup {EdgeReason(edge)}

AddEdge(edge) ==
  /\ edges' = edges \cup {edge}
  /\ reasons' = reasons \cup {EdgeReason(edge)}

\* Variants for the mutation runs: the scope of the issuer is passed on; what is
\* selected already is not expanded.
FollowUpInScope(selection) == Calls(selection, Top.key.scope)

FollowUpOnce(selection) ==
  IF selection \in selections THEN <<>> ELSE Calls(selection, "run")

FollowUp(selection) == Calls(selection, "run")

DemandNext ==
  /\ Serving
  /\ Top.next <= Len(ReqsOf(Top))
  /\ ~ Refused(request, RequirementDemand(request, Top.key, Top.next))
  /\ LET edge == EdgeFor(request, Top.key, Top.next)
     IN /\ selections' = selections \cup {edge.required}
        /\ AddEdge(edge)
        /\ stack' = Advanced(stack) \o FollowUp(edge.required)
  /\ UNCHANGED <<request, status, error, roots, expanded>>

\* Variant for the mutation runs: a refused requirement is passed over.
RefuseDemandTolerated ==
  /\ Serving
  /\ Top.next <= Len(ReqsOf(Top))
  /\ Refused(request, RequirementDemand(request, Top.key, Top.next))
  /\ stack' = Advanced(stack)
  /\ UNCHANGED <<request, status, error, roots, expanded, result>>

RefuseDemand ==
  /\ Serving
  /\ Top.next <= Len(ReqsOf(Top))
  /\ Refused(request, RequirementDemand(request, Top.key, Top.next))
  /\ Fail(RefusalCode(request, RequirementDemand(request, Top.key, Top.next)))
  /\ UNCHANGED expanded

\* Variant for the mutation runs: the loop stops one requirement early.
ReturnEarly ==
  /\ Serving
  /\ Top.next >= Len(ReqsOf(Top))
  /\ stack' = Popped(stack)
  /\ UNCHANGED <<request, status, error, roots, expanded, result>>

Return ==
  /\ Serving
  /\ Top.next > Len(ReqsOf(Top))
  /\ stack' = Popped(stack)
  /\ UNCHANGED <<request, status, error, roots, expanded, result>>

Next == \/ SelectRoot \/ RefuseRoot \/ NextGoal \/ FinishRoots
        \/ Enter \/ Skip \/ DemandNext \/ RefuseDemand \/ Return

\* resolve() runs to completion on the caller's thread and never blocks.
Spec == Init /\ [][Next]_vars /\ WF_vars(Next)

-----------------------------------------------------------------------------
(***************************************************************************)
(* Types: the cursor over goals and paths stays within the request, and an *)
(* activation never runs past the end of the requirements it serves.       *)
(***************************************************************************)
TypeOK ==
  /\ IsRequest(request)
  /\ status \in {"resolving", "resolved", "failed"}
  /\ error \in ErrorCode \cup {"none"}
  /\ error # "none" <=> status = "failed"
  /\ goal \in 1..(Len(request.goals) + 1)
  /\ path \in Nat \ {0}
  /\ goal <= Len(request.goals) /\ KnownGoal(request, Goal)
       => path <= Len(GoalPackages(request, Goal)) + 1
  /\ goal > Len(request.goals) => path = 1
  /\ stack \in Seq(Frame)
  /\ \A i \in 1..Len(stack) : stack[i].next <= Len(ReqsOf(stack[i])) + 1
  /\ expanded \subseteq Key
  /\ selections \subseteq Selection
  /\ edges \subseteq Edge
  /\ reasons \subseteq Reason
  /\ members \in [1..Len(request.goals) -> SUBSET Member]

(***************************************************************************)
(* The engine expands exactly what the goals require, transitively: when   *)
(* it finishes, the memo of expand() is the least set of keys closed under *)
(* construction and runtime expansion, whatever the cycles, the shared     *)
(* requirements and the goals that found their keys already in the memo.   *)
(***************************************************************************)
LeastClosure ==
  status = "resolved" =>
    LET after == [k \in expanded |-> Children(request, k)]
    IN /\ Closed(request, expanded)
       /\ \A C \in SUBSET expanded :
            RootKeys(request) \subseteq C /\ (\A k \in C : after[k] \subseteq C)
              => C = expanded

(***************************************************************************)
(* The result holds one edge for each requirement of each expanded key,    *)
(* one reason for each edge and each goal root, and the selections they    *)
(* name: a key met again through the memo loses neither edge nor reason,   *)
(* and a requirement served while an outer loop is suspended is not lost.  *)
(***************************************************************************)
ResultExact ==
  status = "resolved" =>
    /\ selections = DeclaredSelections(request, expanded)
    /\ edges = DeclaredEdges(request, expanded)
    /\ reasons = DeclaredReasons(request, expanded)

(***************************************************************************)
(* The memo is written before the recursion: no two running activations of *)
(* expand() serve the same key, so that a requirement cycle ends and the   *)
(* recursion is never deeper than the memo.                                *)
(***************************************************************************)
NoReentry ==
  \A i, j \in 1..Len(stack) :
    stack[i].next > 0 /\ stack[j].next > 0 /\ stack[i].key = stack[j].key => i = j

(***************************************************************************)
(* Policy decides every selection, save the target selection a goal itself *)
(* demanded from one authority (construction and installation from the     *)
(* catalog, removal from installed state).  One package therefore appears  *)
(* under both authorities only in the target environment and only where a  *)
(* goal names it.                                                          *)
(***************************************************************************)
AuthorityByPolicy ==
  \A s \in selections :
    \/ s.authority = Choice(request, DemandFor(s.package, s.environment, "flexible"))
    \/ /\ s.environment = "target"
       /\ \E i \in 1..Len(request.goals) :
            /\ RootRequirement(request.goals[i].scope) # "flexible"
            /\ s \in {m.selection : m \in members[i]}

(***************************************************************************)
(* Installed state is never asked for construction or check inputs: the    *)
(* throw that guards it in expand() cannot be reached.  The code           *)
(* inconsistent_authority reports only what the sealed inputs themselves   *)
(* hold: a demand met so far whose package is installed under a release    *)
(* identity the source domain does not reproduce, or a requirement that    *)
(* names no origin.                                                        *)
(***************************************************************************)
ConstructionFromCatalog ==
  /\ \A i \in 1..Len(stack) : Supplies(stack[i].key.selection, stack[i].key.scope)
  /\ \A k \in expanded : Supplies(k.selection, k.scope)
  /\ error = "inconsistent_authority" =>
       \E d \in Demands(request, expanded) :
         \/ ~ d.traced
         \/ /\ d.package \in DOMAIN request.installed
            /\ ~ request.installed[d.package].release_matches

(***************************************************************************)
(* Construction stays in the build environment: build and check inputs are *)
(* selected there, nothing selected there requires a target selection, and *)
(* each target selection is a goal root or the runtime or lifecycle        *)
(* requirement of a target selection.                                      *)
(***************************************************************************)
EnvironmentSeparation ==
  /\ \A e \in edges :
       /\ e.environment = e.required.environment
       /\ e.issuer.environment = "build" \/ e.scope \in {"build", "check"}
            => e.required.environment = "build"
  /\ \A s \in selections : s.environment = "target" =>
       \/ \E i \in 1..Len(request.goals) : s \in {m.selection : m \in members[i]}
       \/ \E e \in edges : e.required = s /\ e.issuer.environment = "target"

(***************************************************************************)
(* Check and lifecycle requirements are followed one level deep: only a    *)
(* root of a goal with that very scope issues such an edge, and what it    *)
(* requires goes on with construction and runtime closure alone.           *)
(***************************************************************************)
RootScopedEdges ==
  \A e \in edges : e.scope \notin {"run", "build"} =>
    \E i \in 1..Len(request.goals) :
      /\ request.goals[i].scope = e.scope
      /\ e.issuer \in {m.selection : m \in members[i]}

(***************************************************************************)
(* At every moment each selection is explained: following the recorded     *)
(* reasons from the goals' own selections reaches all of them.             *)
(***************************************************************************)
Explained ==
  LET rooted    == {x.selection : x \in {y \in reasons : y.issuer = {}}}
      issued    == {x \in reasons : x.issuer # {}}
      closed(C) == /\ rooted \subseteq C
                   /\ \A x \in issued : x.issuer \subseteq C => x.selection \in C
  IN /\ rooted \subseteq selections
     /\ \A C \in SUBSET selections : closed(C) => C = selections

(***************************************************************************)
(* A failure is about a demand of the request: its code is that of a       *)
(* refused demand among those of the goals and of the keys already         *)
(* expanded.  Success means that no demand was refused.                    *)
(***************************************************************************)
FailureJustified ==
  /\ status = "failed" => error \in Refusals(request, expanded)
  /\ status = "resolved" => Refusals(request, expanded) = {}

\* resolve() always returns or throws.
Termination == <>(status # "resolving")

(***************************************************************************)
(* The engine implements the order-free contract of ResolutionContract.    *)
(***************************************************************************)
Outcome ==
  CASE status = "resolving" -> [kind |-> "open"]
    [] status = "failed"    -> [kind |-> "refused", code |-> error]
    [] status = "resolved"  -> [kind |-> "resolved", selections |-> selections,
                                edges |-> edges, reasons |-> reasons]

Contract == INSTANCE ResolutionContract WITH outcome <- Outcome

\* Every behaviour of the engine is one of the contract.
ImplementsContract == Contract!Spec
=============================================================================
