-------------------------------- MODULE Request --------------------------------
(***************************************************************************)
(* A caller puts goals and a policy together and seals resolution requests *)
(* (src/request.cpp, and the constructors of src/model.cpp it relies on).  *)
(*                                                                         *)
(* A goal is what it means, a scope and a subject, and a diagnostic        *)
(* origin.  Equality, order and identity of goals see the meaning only, so *)
(* that std::sort may leave goals of one meaning in any order.             *)
(***************************************************************************)
EXTENDS Streams

CONSTANTS
  Contexts,     \* catalog, installed state and architectures: sealed elsewhere
  Scopes,       \* requirement scopes, [kind, action]
  Subjects,     \* packages and profiles, [kind, text]
  Origins,      \* diagnostic origins, "" among them
  ScopeRank,    \* the order of libpkgsource on scopes
  SubjectRank,  \* its order on subjects
  MaxGoals,     \* bound on the goals given to one call of seal
  MaxSeals      \* bound on the requests sealed

ASSUME RanksAssumption ==
  /\ ScopeRank \in [Scopes -> Nat]
  /\ \A s, t \in Scopes : ScopeRank[s] = ScopeRank[t] => s = t
  /\ SubjectRank \in [Subjects -> Nat]
  /\ \A s, t \in Subjects : SubjectRank[s] = SubjectRank[t] => s = t

\* What the constructors of the other libraries let through.
ASSUME ContentsAssumption ==
  /\ Contexts \subseteq [catalog : TextValue, installed : TextValue,
                         build : TextValue, target : TextValue]
  /\ Scopes \subseteq ScopeValue
  /\ Subjects \subseteq [kind : {"package", "profile"}, text : TextValue]
  /\ MaxGoals \in NumberValue

VARIABLES
  draft,   \* the goals the caller will pass
  policy,  \* the preference of the policy the caller will pass
  sealed,  \* the requests sealed so far
  last     \* the last call: what was called, with which goals, the answer

request_vars == <<draft, policy, sealed, last>>

Preferences == {"retain_compatible", "prefer_catalog"}
Goal        == [scope : Scopes, subject : Subjects, origin : Origins \ {""}]

NoCall == [call |-> "none", goals |-> <<>>, answer |-> "none"]

-----------------------------------------------------------------------------
(***************************************************************************)
(* operator== and operator< of resolution_goal.                            *)
(***************************************************************************)
SameGoal(g, h) == g.scope = h.scope /\ g.subject = h.subject

\* Variant for the mutation runs: only the subjects are compared.
BeforeBySubject(g, h) == SubjectRank[g.subject] < SubjectRank[h.subject]

Before(g, h) ==
  \/ ScopeRank[g.scope] < ScopeRank[h.scope]
  \/ ScopeRank[g.scope] = ScopeRank[h.scope]
       /\ SubjectRank[g.subject] < SubjectRank[h.subject]

Permuted(v, p) == [i \in 1..Len(v) |-> v[p[i]]]

\* Variant for the mutation runs: the goals are left as they were passed.
Unsorted(v) == {v}

\* What std::sort may make of v: it is not stable.
Sortings(v) ==
  {w \in {Permuted(v, p) : p \in Bijection(1..Len(v), 1..Len(v))} :
     \A i, j \in 1..Len(v) : i < j => ~ Before(w[j], w[i])}

Repeats(w) == \E i \in 2..Len(w) : SameGoal(w[i - 1], w[i])

-----------------------------------------------------------------------------
(***************************************************************************)
(* make_identity: the stream that is hashed, from Streams.                 *)
(***************************************************************************)
\* Variant for the mutation runs: diagnostic origins are hashed.
IdentityWithOrigins(context, preference, goals) ==
  RequestStream(
    [domain |-> "request", catalog |-> context.catalog,
     installed |-> context.installed, build |-> context.build, target |-> context.target,
     preference |-> preference,
     goals |-> [i \in 1..Len(goals) |->
                  [scope |-> goals[i].scope, kind |-> goals[i].subject.kind,
                   text |-> goals[i].subject.text \o <<goals[i].origin>>]]])

Identity(context, preference, goals) ==
  RequestStream(
    [domain |-> "request", catalog |-> context.catalog,
     installed |-> context.installed, build |-> context.build, target |-> context.target,
     preference |-> preference,
     goals |-> [i \in 1..Len(goals) |->
                  [scope |-> goals[i].scope, kind |-> goals[i].subject.kind,
                   text |-> goals[i].subject.text]]])

\* What a sealed request exposes.
ResolutionRequest(context, preference, goals) ==
  [context |-> context, preference |-> preference, goals |-> goals,
   identity |-> Identity(context, preference, goals)]

-----------------------------------------------------------------------------
RequestInit ==
  /\ draft = <<>>
  /\ policy = "retain_compatible"
  /\ sealed = <<>>
  /\ last = NoCall

\* Variant for the mutation runs: a goal may have no origin.
MakeAnyGoal(scope, subject, origin) ==
  /\ last' = NoCall
  /\ draft' = Append(draft, [scope |-> scope, subject |-> subject, origin |-> origin])

\* The constructor of resolution_goal.
MakeGoal(scope, subject, origin) ==
  IF origin = ""
  THEN /\ last' = [call |-> "goal", goals |-> <<>>, answer |-> "invalid_request"]
       /\ draft' = draft
  ELSE /\ last' = NoCall
       /\ draft' = Append(draft, [scope |-> scope, subject |-> subject, origin |-> origin])

AddGoal ==
  /\ Len(sealed) < MaxSeals /\ Len(draft) < MaxGoals
  /\ \E scope \in Scopes, subject \in Subjects, origin \in Origins :
       MakeGoal(scope, subject, origin)
  /\ UNCHANGED <<policy, sealed>>

\* The constructor of resolution_policy; the value may come from a cast.
SetPolicy ==
  /\ Len(sealed) < MaxSeals
  /\ \E preference \in Preferences \cup {"unsupported"} :
       IF preference \in Preferences
       THEN policy' = preference /\ last' = NoCall
       ELSE /\ policy' = policy
            /\ last' = [call |-> "policy", goals |-> <<>>, answer |-> "invalid_request"]
  /\ UNCHANGED <<draft, sealed>>

Answered(code) == last' = [call |-> "seal", goals |-> draft, answer |-> code]

(***************************************************************************)
(* seal takes the goals by value: the caller's vector is gone either way.  *)
(***************************************************************************)
RefuseEmpty ==
  /\ Len(sealed) < MaxSeals
  /\ draft = <<>>
  /\ Answered("invalid_request")
  /\ UNCHANGED <<draft, policy, sealed>>

RefuseDuplicate ==
  /\ Len(sealed) < MaxSeals
  /\ draft # <<>>
  /\ \E goals \in Sortings(draft) : Repeats(goals)
  /\ Answered("duplicate_goal")
  /\ draft' = <<>>
  /\ UNCHANGED <<policy, sealed>>

Seal ==
  /\ Len(sealed) < MaxSeals
  /\ draft # <<>>
  /\ \E goals \in Sortings(draft), context \in Contexts :
       /\ ~ Repeats(goals)
       /\ sealed' = Append(sealed, ResolutionRequest(context, policy, goals))
  /\ Answered("sealed")
  /\ draft' = <<>>
  /\ UNCHANGED policy

\* OpenSSL fails in make_identity, after the goals were found in order.
FailIdentity ==
  /\ Len(sealed) < MaxSeals
  /\ draft # <<>>
  /\ \E goals \in Sortings(draft) : ~ Repeats(goals)
  /\ Answered("identity_failed")
  /\ draft' = <<>>
  /\ UNCHANGED <<policy, sealed>>

RequestNext ==
  AddGoal \/ SetPolicy \/ RefuseEmpty \/ RefuseDuplicate \/ Seal \/ FailIdentity

RequestSpec == RequestInit /\ [][RequestNext]_request_vars

-----------------------------------------------------------------------------
(***************************************************************************)
(* Types: no goal without an origin and no unsupported policy survives a   *)
(* constructor, in a draft or in a sealed request.                         *)
(***************************************************************************)
RequestTypeOK ==
  /\ draft \in Seq(Goal)
  /\ policy \in Preferences
  /\ \A i \in 1..Len(sealed) :
       /\ sealed[i].context \in Contexts
       /\ sealed[i].preference \in Preferences
       /\ sealed[i].goals \in Seq(Goal)
  /\ last.goals \in Seq(Goal)

(***************************************************************************)
(* seal() accepts a set of goals if and only if it holds a goal and no two *)
(* mean the same: comparing neighbours finds every duplicate, wherever the *)
(* two were in the caller's vector, whatever their origins, however the    *)
(* unstable sort placed them; and the code tells the refusals apart.  Only *)
(* what would be sealed is hashed, and may fail there.                     *)
(***************************************************************************)
SealDecides ==
  last.call = "seal" =>
    LET duplicated == \E i, j \in 1..Len(last.goals) :
                        i # j /\ SameGoal(last.goals[i], last.goals[j])
    IN /\ last.answer = "invalid_request" <=> last.goals = <<>>
       /\ last.answer = "duplicate_goal" <=> duplicated
       /\ last.answer \in {"sealed", "identity_failed"}
            <=> last.goals # <<>> /\ ~ duplicated

(***************************************************************************)
(* A sealed request has goals, in strictly ascending order, and they are   *)
(* the caller's, each with the origin the caller gave it.                  *)
(***************************************************************************)
SealKeepsGoals ==
  /\ \A n \in 1..Len(sealed) :
       /\ sealed[n].goals # <<>>
       /\ \A i, j \in 1..Len(sealed[n].goals) :
            i < j => Before(sealed[n].goals[i], sealed[n].goals[j])
  /\ last.answer = "sealed" =>
       /\ sealed # <<>>
       /\ Len(sealed[Len(sealed)].goals) = Len(last.goals)
       /\ Range(sealed[Len(sealed)].goals) = Range(last.goals)

(***************************************************************************)
(* "Reordered goals produce the same request identity", and origins do not *)
(* enter it (DESIGN.md): two requests have one identity if and only if     *)
(* they agree in context, policy and the set of goals they mean.           *)
(***************************************************************************)
Meaning(r) ==
  [context |-> r.context, preference |-> r.preference,
   goals |-> {<<g.scope, g.subject>> : g \in Range(r.goals)}]

IdentityIsMeaning ==
  \A m, n \in 1..Len(sealed) :
    sealed[m].identity = sealed[n].identity <=> Meaning(sealed[m]) = Meaning(sealed[n])
=============================================================================
