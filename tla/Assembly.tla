------------------------------- MODULE Assembly -------------------------------
(***************************************************************************)
(* How run() of src/resolver.cpp turns what the engine recorded into a     *)
(* resolution result, and the queries of src/result.cpp on it.             *)
(*                                                                         *)
(* Resolver keeps edges_ and reasons_ as sets.  Here they are also the     *)
(* vectors of the code, appended to while goals are resolved and sorted    *)
(* and deduplicated at the end.  The order of selections and edges is that *)
(* of their digests, which no one can foresee: any numbering stands for it.*)
(*                                                                         *)
(* Taking an identity may fail; resolve() then throws and delivers nothing.*)
(***************************************************************************)
EXTENDS Resolution, Vectors, SequencesExt

CONSTANTS
  SelectionDigest(_),  \* the order of selection identities: a tuple, injective
  EdgeDigest(_),       \* the order of edge identities: a tuple, injective
  ScopeOrder(_),       \* the order of libpkgsource on scopes: a number, injective
  ProfileOrder(_)      \* the order of profile names: a number, injective

ASSUME OrdersAssumption ==
  /\ \A s, t \in Selection :
       /\ SelectionDigest(s) \in Seq(Nat)
       /\ Len(SelectionDigest(s)) = Len(SelectionDigest(t))
       /\ SelectionDigest(s) = SelectionDigest(t) => s = t
  /\ \A d, e \in Edge :
       /\ EdgeDigest(e) \in Seq(Nat)
       /\ Len(EdgeDigest(d)) = Len(EdgeDigest(e))
       /\ EdgeDigest(d) = EdgeDigest(e) => d = e
  /\ \A s, t \in Scope : ScopeOrder(s) \in Nat /\ (ScopeOrder(s) = ScopeOrder(t) => s = t)
  /\ \A p, q \in Profile :
       ProfileOrder(p) \in Nat /\ (ProfileOrder(p) = ProfileOrder(q) => p = q)

VARIABLES
  edge_log,    \* edges_
  reason_log,  \* reasons_
  outcome      \* what resolve() returned or threw, "none" while it runs

assembly_vars == <<vars, closure_vars, edge_log, reason_log, outcome>>

None == [kind |-> "none"]

\* The order of the enumeration.
KindOrder ==
  [direct_goal |-> 0, profile_goal |-> 1, runtime_requirement |-> 2,
   build_requirement |-> 3, check_requirement |-> 4, lifecycle_requirement |-> 5]

\* operator< of selection_reason; an absent optional comes first.  The identity of
\* a profile, compared last, goes with its name.
ReasonKey(x) ==
  SelectionDigest(x.selection) \o <<KindOrder[x.kind], ScopeOrder(x.scope)>>
    \o (IF x.issuer = {} THEN <<0>>
                         ELSE <<1>> \o SelectionDigest(CHOOSE s \in x.issuer : TRUE))
    \o IF x.profile = {} THEN <<0>>
                         ELSE <<1, ProfileOrder(CHOOSE q \in x.profile : TRUE)>>

-----------------------------------------------------------------------------
AssemblyInit ==
  /\ ResolutionInit
  /\ edge_log = <<>>
  /\ reason_log = <<>>
  /\ outcome = None

(***************************************************************************)
(* reasons_.emplace_back and edges_.emplace_back along the engine's steps. *)
(***************************************************************************)
RecordRoot ==
  /\ outcome = None
  /\ SelectRoot
  /\ reason_log' = Append(reason_log, RootReason(request, Goal, path))
  /\ UNCHANGED <<closure_vars, edge_log, outcome>>

RecordEdge ==
  /\ outcome = None
  /\ DemandNext
  /\ LET edge == EdgeFor(request, Top.key, Top.next)
     IN /\ edge_log' = Append(edge_log, edge)
        /\ reason_log' = Append(reason_log, EdgeReason(edge))
  /\ UNCHANGED <<closure_vars, outcome>>

RecordNothing ==
  /\ outcome = None
  /\ \/ /\ NextGoal \/ FinishRoots \/ Enter \/ Skip \/ Return
        /\ UNCHANGED closure_vars
     \/ OpenGoal \/ VisitSelection \/ CloseGoal
  /\ UNCHANGED <<edge_log, reason_log, outcome>>

Throw(code) ==
  /\ outcome = None
  /\ outcome' = [kind |-> "error", code |-> code]

Refuse ==
  /\ RefuseRoot \/ RefuseDemand
  /\ Throw(error')
  /\ UNCHANGED <<closure_vars, edge_log, reason_log>>

(***************************************************************************)
(* OpenSSL fails under the identity of a new selection, an edge, a closure *)
(* or the result.                                                          *)
(***************************************************************************)
TakesIdentity ==
  \/ /\ AtRoot /\ KnownGoal(request, Goal)
     /\ path <= Len(GoalPackages(request, Goal))
     /\ LET demand == RootDemand(request, Goal, path)
        IN ~ Refused(request, demand) /\ Select(request, demand) \notin selections
  \/ /\ Serving /\ Top.next <= Len(ReqsOf(Top))
     /\ LET demand == RequirementDemand(request, Top.key, Top.next)
        IN /\ Selects(request, demand)
           /\ demand.traced \/ Select(request, demand) \notin selections
  \/ walking /\ queue = {}
  \/ Delivered

FailIdentity ==
  /\ TakesIdentity
  /\ Throw("identity_failed")
  /\ UNCHANGED <<vars, closure_vars, edge_log, reason_log>>

-----------------------------------------------------------------------------
ResolutionResult(selected_packages, requirement_edges, goals, why) ==
  [kind |-> "result", selections |-> selected_packages, edges |-> requirement_edges,
   goals |-> goals, reasons |-> why]

(***************************************************************************)
(* selections_ is a map, whose values are sorted; the vectors are sorted   *)
(* and deduplicated; the goals keep the order of the request.              *)
(***************************************************************************)
Assemble ==
  /\ Delivered
  /\ outcome = None
  /\ outcome' = ResolutionResult(Sorted(SetToSeq(selections), SelectionDigest),
                                 Unique(Sorted(edge_log, EdgeDigest)),
                                 closures,
                                 Unique(Sorted(reason_log, ReasonKey)))
  /\ UNCHANGED <<vars, closure_vars, edge_log, reason_log>>

AssemblyNext ==
  RecordRoot \/ RecordEdge \/ RecordNothing \/ Refuse \/ FailIdentity \/ Assemble

AssemblySpec == AssemblyInit /\ [][AssemblyNext]_assembly_vars

-----------------------------------------------------------------------------
(***************************************************************************)
(* The queries.  find() returns a pointer: here a set of at most one.      *)
(***************************************************************************)
Find(package, environment, authority) ==
  LET hits == {i \in 1..Len(outcome.selections) :
                 /\ outcome.selections[i].package = package
                 /\ outcome.selections[i].environment = environment
                 /\ outcome.selections[i].authority = authority}
  IN {outcome.selections[i] : i \in {j \in hits : \A k \in hits : j <= k}}

ReasonsFor(selection) ==
  Kept(outcome.reasons,
       {i \in 1..Len(outcome.reasons) : outcome.reasons[i].selection = selection})

EdgesForScope(scope) ==
  Kept(outcome.edges, {i \in 1..Len(outcome.edges) : outcome.edges[i].scope = scope})

Returned == outcome.kind = "result"

-----------------------------------------------------------------------------
(***************************************************************************)
(* No edge is recorded twice: the memo of expand() and requirement lists   *)
(* that name no package twice leave nothing for the deduplication of       *)
(* edges_ to remove; no requirement is served twice, along whatever path   *)
(* of cycles, shared packages and goals it is met again.                   *)
(***************************************************************************)
EdgesRecordedOnce ==
  (\A k \in expanded : \A i, j \in 1..Len(Requirements(request, k)) :
     Requirements(request, k)[i].package = Requirements(request, k)[j].package
       => i = j)
  => \A i, j \in 1..Len(edge_log) : edge_log[i] = edge_log[j] => i = j

(***************************************************************************)
(* The vectors of a result ascend strictly, hence hold nothing twice, and  *)
(* hold what the engine collected: reasons met again along another path of *)
(* a profile or through another goal collapse, none vanishes.              *)
(***************************************************************************)
ResultCanonical ==
  Returned =>
    /\ Ascends(outcome.selections, SelectionDigest)
    /\ Ascends(outcome.edges, EdgeDigest)
    /\ Ascends(outcome.reasons, ReasonKey)
    /\ Elements(outcome.selections) = selections
    /\ Elements(outcome.edges) = edges
    /\ Elements(outcome.reasons) = reasons

(***************************************************************************)
(* The queries tell one story: each selection is found under its package,  *)
(* environment and authority, reasons_for() explains it, and the reasons   *)
(* it gives other than a goal are, one for one, the edges that lead to it, *)
(* found by edges_for_scope() under the scope the reason states.           *)
(***************************************************************************)
QueriesAgree ==
  Returned =>
    \A s \in Elements(outcome.selections) :
      LET why    == ReasonsFor(s)
          issued == {x \in Elements(why) : x.issuer # {}}
          into   == {e \in Elements(outcome.edges) : e.required = s}
      IN /\ Find(s.package, s.environment, s.authority) = {s}
         /\ why # <<>>
         /\ Cardinality(issued) = Cardinality(into)
         /\ \A x \in issued : \E e \in Elements(EdgesForScope(x.scope)) :
              e.required = s /\ {e.issuer} = x.issuer
=============================================================================
