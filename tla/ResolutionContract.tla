-------------------------- MODULE ResolutionContract --------------------------
(***************************************************************************)
(* What resolve() promises, without recursion, memo or order: the sealed   *)
(* request alone determines the result.  Keys that the goals or an         *)
(* expanded key call for are expanded in any order.  Once none is left and *)
(* no demand is refused, the result is the graph those keys declare; at    *)
(* any moment before, a refused demand may end the resolution with its     *)
(* code and no result.                                                     *)
(***************************************************************************)
EXTENDS Authorities

VARIABLES request, expanded, outcome

contract_vars == <<request, expanded, outcome>>

Open == [kind |-> "open"]

Refusal(code) == [kind |-> "refused", code |-> code]

Result(r, K) ==
  [kind |-> "resolved", selections |-> DeclaredSelections(r, K),
   edges |-> DeclaredEdges(r, K), reasons |-> DeclaredReasons(r, K)]

Init ==
  /\ request \in Requests
  /\ expanded = {}
  /\ outcome = Open

Grow ==
  /\ outcome = Open
  /\ \E k \in Successors(request, expanded) \ expanded : expanded' = expanded \cup {k}
  /\ UNCHANGED <<request, outcome>>

Refuse ==
  /\ outcome = Open
  /\ \E code \in Refusals(request, expanded) : outcome' = Refusal(code)
  /\ UNCHANGED <<request, expanded>>

Satisfy ==
  /\ outcome = Open
  /\ Closed(request, expanded)
  /\ Refusals(request, expanded) = {}
  /\ outcome' = Result(request, expanded)
  /\ UNCHANGED <<request, expanded>>

Next == Grow \/ Refuse \/ Satisfy

Spec == Init /\ [][Next]_contract_vars /\ WF_contract_vars(Next)
=============================================================================
