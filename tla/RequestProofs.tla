----------------------------- MODULE RequestProofs -----------------------------
(***************************************************************************)
(* What seal() accepts and what it makes of the goals, for any scopes,     *)
(* subjects and origins and any number of goals: the comparison of         *)
(* neighbours after an unstable sort finds exactly the duplicates.         *)
(***************************************************************************)
EXTENDS Request, StreamProofs

Duplicated(v) == \E i, j \in 1..Len(v) : i # j /\ SameGoal(v[i], v[j])

-----------------------------------------------------------------------------
Arranges(p, v, w) ==
  /\ p \in [1..Len(v) -> 1..Len(v)]
  /\ \A i \in 1..Len(v) : w[i] = v[p[i]]
  /\ \A i, j \in 1..Len(v) : p[i] = p[j] => i = j
  /\ \A i \in 1..Len(v) : \E j \in 1..Len(v) : p[j] = i

\* What std::sort may make of a vector: a sorted permutation of it.
LEMMA Arrangement ==
  ASSUME NEW v \in Seq(Goal), NEW w \in Sortings(v)
  PROVE  /\ w \in Seq(Goal)
         /\ Len(w) = Len(v)
         /\ \A i, j \in 1..Len(w) : i < j => ~ Before(w[j], w[i])
         /\ \E p : Arranges(p, v, w)
<1>1. PICK p \in Bijection(1..Len(v), 1..Len(v)) : w = Permuted(v, p)
  BY DEF Sortings
<1>2. /\ p \in [1..Len(v) -> 1..Len(v)]
      /\ \A i, j \in 1..Len(v) : p[i] = p[j] => i = j
      /\ \A i \in 1..Len(v) : \E j \in 1..Len(v) : p[j] = i
  BY DEF Bijection, Injection, IsInjective, Surjection
<1>3. Len(v) \in Nat /\ \A i \in 1..Len(v) : v[i] \in Goal
  OBVIOUS
<1>4. /\ w = [i \in 1..Len(v) |-> v[p[i]]]
      /\ \A i \in 1..Len(v) : v[p[i]] \in Goal
  BY <1>1, <1>2, <1>3 DEF Permuted
<1>5. w \in Seq(Goal) /\ Len(w) = Len(v)
  BY <1>3, <1>4
<1>6. \A i, j \in 1..Len(v) : i < j => ~ Before(w[j], w[i])
  BY DEF Sortings
<1>7. Arranges(p, v, w)
  BY <1>2, <1>4 DEF Arranges
<1> QED BY <1>5, <1>6, <1>7

(***************************************************************************)
(* Between two goals of one meaning a sorted vector holds goals of that    *)
(* meaning only.                                                           *)
(***************************************************************************)
LEMMA Between ==
  ASSUME NEW g \in Goal, NEW h \in Goal, NEW k \in Goal,
         SameGoal(g, k), ~ Before(h, g), ~ Before(k, h)
  PROVE  SameGoal(g, h)
<1>1. /\ ScopeRank[g.scope] \in Nat /\ ScopeRank[h.scope] \in Nat
      /\ SubjectRank[g.subject] \in Nat /\ SubjectRank[h.subject] \in Nat
      /\ g.scope \in Scopes /\ h.scope \in Scopes
      /\ g.subject \in Subjects /\ h.subject \in Subjects
  BY RanksAssumption DEF Goal
<1>2. g.scope = k.scope /\ g.subject = k.subject
  BY DEF SameGoal
<1>3. /\ ~ ScopeRank[h.scope] < ScopeRank[g.scope]
      /\ ~ ScopeRank[g.scope] < ScopeRank[h.scope]
  BY <1>2 DEF Before
<1>4. ScopeRank[h.scope] = ScopeRank[g.scope]
  BY <1>1, <1>3
<1>5. /\ ~ SubjectRank[h.subject] < SubjectRank[g.subject]
      /\ ~ SubjectRank[g.subject] < SubjectRank[h.subject]
  BY <1>2, <1>4 DEF Before
<1>6. SubjectRank[h.subject] = SubjectRank[g.subject]
  BY <1>1, <1>5
<1> QED BY <1>1, <1>4, <1>6, RanksAssumption DEF SameGoal

\* Two goals of different meaning are in one order or the other.
LEMMA Ordered ==
  ASSUME NEW g \in Goal, NEW h \in Goal, ~ SameGoal(g, h), ~ Before(h, g)
  PROVE  Before(g, h)
<1>1. /\ ScopeRank[g.scope] \in Nat /\ ScopeRank[h.scope] \in Nat
      /\ SubjectRank[g.subject] \in Nat /\ SubjectRank[h.subject] \in Nat
      /\ g.scope \in Scopes /\ h.scope \in Scopes
      /\ g.subject \in Subjects /\ h.subject \in Subjects
  BY RanksAssumption DEF Goal
<1>2. /\ ScopeRank[g.scope] = ScopeRank[h.scope] => g.scope = h.scope
      /\ SubjectRank[g.subject] = SubjectRank[h.subject] => g.subject = h.subject
  BY <1>1, RanksAssumption
<1> QED BY <1>1, <1>2 DEF SameGoal, Before

(***************************************************************************)
(* The comparison of neighbours in seal() finds a duplicate if and only if *)
(* there is one, wherever it was in the vector of the caller.              *)
(***************************************************************************)
THEOREM NeighboursSuffice ==
  ASSUME NEW v \in Seq(Goal), NEW w \in Sortings(v)
  PROVE  Repeats(w) <=> Duplicated(v)
<1>0. PICK p : Arranges(p, v, w)
  BY Arrangement
<1>1. /\ p \in [1..Len(v) -> 1..Len(v)]
      /\ \A i \in 1..Len(v) : w[i] = v[p[i]]
      /\ \A i, j \in 1..Len(v) : p[i] = p[j] => i = j
      /\ \A i \in 1..Len(v) : \E j \in 1..Len(v) : p[j] = i
  BY <1>0 DEF Arranges
<1>2. w \in Seq(Goal) /\ Len(w) = Len(v) /\ Len(v) \in Nat
  BY Arrangement
<1>3. ASSUME Repeats(w) PROVE Duplicated(v)
  <2>1. PICK i \in 2..Len(w) : SameGoal(w[i - 1], w[i])
    BY <1>3 DEF Repeats
  <2>2. i \in 1..Len(v) /\ i - 1 \in 1..Len(v) /\ i - 1 # i
    BY <1>2, <2>1
  <2>3. w[i - 1] = v[p[i - 1]] /\ w[i] = v[p[i]] /\ p[i - 1] # p[i]
    BY <1>1, <2>2
  <2>4. p[i - 1] \in 1..Len(v) /\ p[i] \in 1..Len(v)
    BY <1>1, <2>2
  <2> QED BY <2>1, <2>3, <2>4 DEF Duplicated
<1>4. ASSUME Duplicated(v) PROVE Repeats(w)
  <2>1. PICK i \in 1..Len(v), j \in 1..Len(v) : i # j /\ SameGoal(v[i], v[j])
    BY <1>4 DEF Duplicated
  <2>2. PICK a \in 1..Len(v) : p[a] = i
    BY <1>1
  <2>3. PICK b \in 1..Len(v) : p[b] = j
    BY <1>1
  <2>4. a # b /\ SameGoal(w[a], w[b]) /\ SameGoal(w[b], w[a])
    BY <1>1, <2>1, <2>2, <2>3 DEF SameGoal
  <2>5. PICK c \in 1..Len(v), d \in 1..Len(v) : c < d /\ SameGoal(w[c], w[d])
    BY <1>2, <2>4
  <2>6. c + 1 \in 2..Len(w) /\ (c + 1) - 1 = c /\ c + 1 \in 1..Len(w)
        /\ d \in 1..Len(w) /\ c \in 1..Len(w)
    BY <1>2, <2>5
  <2>7. SameGoal(w[c], w[c + 1])
    <3>1. CASE c + 1 = d
      BY <2>5, <3>1
    <3>2. CASE c + 1 # d
      <4>1. c < c + 1 /\ c + 1 < d
        BY <2>5, <2>6, <3>2
      <4>2. ~ Before(w[c + 1], w[c]) /\ ~ Before(w[d], w[c + 1])
        BY <2>6, <4>1, Arrangement
      <4>3. w[c] \in Goal /\ w[c + 1] \in Goal /\ w[d] \in Goal
        BY <1>2, <2>6
      <4> QED BY <2>5, <4>2, <4>3, Between
    <3> QED BY <3>1, <3>2
  <2> QED BY <2>6, <2>7 DEF Repeats
<1> QED BY <1>3, <1>4

-----------------------------------------------------------------------------
(***************************************************************************)
(* What sealing leaves: the goals of the caller, strictly ascending.       *)
(***************************************************************************)
LEMMA SealedGoals ==
  ASSUME NEW v \in Seq(Goal), NEW w \in Sortings(v), ~ Repeats(w)
  PROVE  /\ \A i, j \in 1..Len(w) : i < j => Before(w[i], w[j])
         /\ Len(w) = Len(v)
         /\ Range(w) = Range(v)
<1>0. PICK p : Arranges(p, v, w)
  BY Arrangement
<1>1. /\ p \in [1..Len(v) -> 1..Len(v)]
      /\ \A i \in 1..Len(v) : w[i] = v[p[i]]
      /\ \A i, j \in 1..Len(v) : p[i] = p[j] => i = j
      /\ \A i \in 1..Len(v) : \E j \in 1..Len(v) : p[j] = i
  BY <1>0 DEF Arranges
<1>2. w \in Seq(Goal) /\ Len(w) = Len(v) /\ Len(v) \in Nat
  BY Arrangement
<1>3. ASSUME NEW i \in 1..Len(w), NEW j \in 1..Len(w), i < j
      PROVE  Before(w[i], w[j])
  <2>1. w[i] \in Goal /\ w[j] \in Goal
    BY <1>2
  <2>2. ~ Before(w[j], w[i])
    BY <1>3, Arrangement
  <2>3. i \in 1..Len(v) /\ j \in 1..Len(v) /\ i # j
    BY <1>2, <1>3
  <2>4. p[i] \in 1..Len(v) /\ p[j] \in 1..Len(v) /\ p[i] # p[j]
        /\ w[i] = v[p[i]] /\ w[j] = v[p[j]]
    BY <1>1, <2>3
  <2>5. ~ SameGoal(w[i], w[j])
    BY <2>4, NeighboursSuffice DEF Duplicated
  <2> QED BY <2>1, <2>2, <2>5, Ordered
<1>4. DOMAIN w = 1..Len(v) /\ DOMAIN v = 1..Len(v)
  BY <1>2
<1>5. \A i \in 1..Len(v) : p[i] \in 1..Len(v)
  BY <1>1
<1>6. Range(w) \subseteq Range(v)
  BY <1>1, <1>4, <1>5 DEF Range
<1>7. Range(v) \subseteq Range(w)
  BY <1>1, <1>4 DEF Range
<1> QED BY <1>2, <1>3, <1>6, <1>7

-----------------------------------------------------------------------------
(***************************************************************************)
(* The invariant: the properties, and that the requests form a sequence.   *)
(***************************************************************************)
RequestInv ==
  /\ RequestTypeOK
  /\ \E R : sealed \in Seq(R)
  /\ SealDecides
  /\ SealKeepsGoals

\* A step that seals nothing.
LEMMA NothingSealed ==
  ASSUME RequestInv, UNCHANGED sealed, draft' \in Seq(Goal), policy' \in Preferences,
         last'.goals \in Seq(Goal), last'.answer # "sealed", SealDecides'
  PROVE  RequestInv'
<1>1. RequestTypeOK'
  BY DEF RequestInv, RequestTypeOK
<1>2. SealKeepsGoals'
  BY DEF RequestInv, SealKeepsGoals
<1> QED BY <1>1, <1>2 DEF RequestInv

\* A goal is built, or refused for want of an origin.
LEMMA AddGoalKeeps == ASSUME RequestInv, AddGoal PROVE RequestInv'
<1>1. PICK scope \in Scopes, subject \in Subjects, origin \in Origins :
        MakeGoal(scope, subject, origin)
  BY DEF AddGoal
<1>2. draft \in Seq(Goal)
  BY DEF RequestInv, RequestTypeOK
<1>3. sealed' = sealed /\ policy' = policy /\ policy \in Preferences
  BY DEF AddGoal, RequestInv, RequestTypeOK
<1>4. CASE origin = ""
  <2>1. /\ last' = [call |-> "goal", goals |-> <<>>, answer |-> "invalid_request"]
        /\ draft' = draft
    BY <1>1, <1>4 DEF MakeGoal
  <2>2. last'.goals = <<>> /\ last'.answer # "sealed" /\ SealDecides'
    BY <2>1 DEF SealDecides
  <2> QED BY <1>2, <1>3, <2>1, <2>2, NothingSealed
<1>5. CASE origin # ""
  <2> DEFINE g == [scope |-> scope, subject |-> subject, origin |-> origin]
  <2>1. g \in Goal
    BY <1>5 DEF Goal
  <2>2. last' = NoCall /\ draft' = Append(draft, g)
    BY <1>1, <1>5 DEF MakeGoal
  <2> HIDE DEF g
  <2>3. draft' \in Seq(Goal)
    BY <1>2, <2>1, <2>2
  <2>4. last'.goals = <<>> /\ last'.answer # "sealed" /\ SealDecides'
    BY <2>2 DEF SealDecides, NoCall
  <2> QED BY <1>3, <2>3, <2>4, NothingSealed
<1> QED BY <1>4, <1>5

\* A policy is built, or refused.
LEMMA SetPolicyKeeps == ASSUME RequestInv, SetPolicy PROVE RequestInv'
<1>1. draft' = draft /\ sealed' = sealed /\ draft \in Seq(Goal) /\ policy \in Preferences
  BY DEF SetPolicy, RequestInv, RequestTypeOK
<1>2. policy' \in Preferences
  BY <1>1 DEF SetPolicy
<1>3. last'.goals = <<>> /\ last'.answer # "sealed" /\ last'.call # "seal"
  BY DEF SetPolicy, NoCall
<1>4. SealDecides'
  BY <1>3 DEF SealDecides
<1> QED BY <1>1, <1>2, <1>3, <1>4, NothingSealed

\* What makes the answer of seal() right.
LEMMA RightAnswer ==
  ASSUME NEW code, Answered(code),
         code = "invalid_request" <=> draft = <<>>,
         code = "duplicate_goal" <=> Duplicated(draft),
         code \in {"sealed", "identity_failed"} <=> draft # <<>> /\ ~ Duplicated(draft)
  PROVE  SealDecides'
<1>1. last'.answer = code /\ last'.goals = draft
  BY DEF Answered
<1> QED BY <1>1 DEF SealDecides, Duplicated, SameGoal

\* seal() is given no goals.
LEMMA RefuseEmptyKeeps == ASSUME RequestInv, RefuseEmpty PROVE RequestInv'
<1>1. /\ draft = <<>> /\ draft' = draft /\ sealed' = sealed /\ policy' = policy
      /\ policy \in Preferences /\ draft \in Seq(Goal) /\ Answered("invalid_request")
  BY DEF RefuseEmpty, RequestInv, RequestTypeOK
<1>2. ~ Duplicated(draft)
  BY <1>1 DEF Duplicated
<1>3. SealDecides'
  BY <1>1, <1>2, RightAnswer
<1>4. last'.goals \in Seq(Goal) /\ last'.answer # "sealed"
  BY <1>1 DEF Answered
<1> QED BY <1>1, <1>3, <1>4, NothingSealed

\* seal() finds two neighbours of one meaning.
LEMMA RefuseDuplicateKeeps == ASSUME RequestInv, RefuseDuplicate PROVE RequestInv'
<1>1. /\ draft # <<>> /\ draft' = <<>> /\ sealed' = sealed /\ policy' = policy
      /\ policy \in Preferences /\ draft \in Seq(Goal) /\ Answered("duplicate_goal")
  BY DEF RefuseDuplicate, RequestInv, RequestTypeOK
<1>2. PICK goals \in Sortings(draft) : Repeats(goals)
  BY DEF RefuseDuplicate
<1>3. Duplicated(draft)
  BY <1>1, <1>2, NeighboursSuffice
<1>4. SealDecides'
  BY <1>1, <1>3, RightAnswer
<1>5. last'.goals \in Seq(Goal) /\ last'.answer # "sealed"
  BY <1>1 DEF Answered
<1> QED BY <1>1, <1>4, <1>5, NothingSealed

\* OpenSSL fails.
LEMMA FailIdentityKeeps == ASSUME RequestInv, FailIdentity PROVE RequestInv'
<1>1. /\ draft # <<>> /\ draft' = <<>> /\ sealed' = sealed /\ policy' = policy
      /\ policy \in Preferences /\ draft \in Seq(Goal) /\ Answered("identity_failed")
  BY DEF FailIdentity, RequestInv, RequestTypeOK
<1>2. PICK goals \in Sortings(draft) : ~ Repeats(goals)
  BY DEF FailIdentity
<1>3. ~ Duplicated(draft)
  BY <1>1, <1>2, NeighboursSuffice
<1>4. SealDecides'
  BY <1>1, <1>3, RightAnswer
<1>5. last'.goals \in Seq(Goal) /\ last'.answer # "sealed"
  BY <1>1 DEF Answered
<1> QED BY <1>1, <1>4, <1>5, NothingSealed

\* seal() succeeds.
LEMMA SealKeeps == ASSUME RequestInv, Seal PROVE RequestInv'
<1>1. /\ draft # <<>> /\ draft' = <<>> /\ policy' = policy
      /\ policy \in Preferences /\ draft \in Seq(Goal) /\ Answered("sealed")
  BY DEF Seal, RequestInv, RequestTypeOK
<1>2. PICK goals \in Sortings(draft), context \in Contexts :
        /\ ~ Repeats(goals)
        /\ sealed' = Append(sealed, ResolutionRequest(context, policy, goals))
  BY DEF Seal
<1> DEFINE r == ResolutionRequest(context, policy, goals)
<1>3. r.context \in Contexts /\ r.preference \in Preferences /\ r.goals = goals
  BY <1>1 DEF ResolutionRequest
<1>4. goals \in Seq(Goal)
  BY <1>1, Arrangement
<1>5. PICK R : sealed \in Seq(R)
  BY DEF RequestInv
<1>6. sealed' = Append(sealed, r)
  BY <1>2
<1> HIDE DEF r
<1>7. /\ sealed' \in Seq(R \cup {r}) /\ Len(sealed) \in Nat
      /\ Len(sealed') = Len(sealed) + 1
      /\ sealed'[Len(sealed')] = r
      /\ \A n \in 1..Len(sealed') : sealed'[n] = r \/ (n \in 1..Len(sealed) /\ sealed'[n] = sealed[n])
  BY <1>5, <1>6
<1>8. RequestTypeOK'
  <2>1. ASSUME NEW n \in 1..Len(sealed')
        PROVE  /\ sealed'[n].context \in Contexts
               /\ sealed'[n].preference \in Preferences
               /\ sealed'[n].goals \in Seq(Goal)
    <3>1. CASE sealed'[n] = r
      BY <1>3, <1>4, <3>1
    <3>2. CASE n \in 1..Len(sealed) /\ sealed'[n] = sealed[n]
      BY <3>2 DEF RequestInv, RequestTypeOK
    <3> QED BY <1>7, <3>1, <3>2
  <2>2. draft' \in Seq(Goal) /\ policy' \in Preferences /\ last'.goals \in Seq(Goal)
    BY <1>1 DEF Answered
  <2> QED BY <2>1, <2>2 DEF RequestTypeOK
<1>9. SealDecides'
  BY <1>1, <1>2, NeighboursSuffice, RightAnswer
<1>10. SealKeepsGoals'
  <2>1. /\ \A i, j \in 1..Len(goals) : i < j => Before(goals[i], goals[j])
        /\ Len(goals) = Len(draft)
        /\ Range(goals) = Range(draft)
    BY <1>1, <1>2, SealedGoals
  <2>2. ASSUME NEW n \in 1..Len(sealed')
        PROVE  /\ sealed'[n].goals # <<>>
               /\ \A i, j \in 1..Len(sealed'[n].goals) :
                    i < j => Before(sealed'[n].goals[i], sealed'[n].goals[j])
    <3>1. CASE sealed'[n] = r
      <4>1. goals # <<>>
        BY <1>1, <1>4, <2>1
      <4> QED BY <1>3, <2>1, <3>1, <4>1
    <3>2. CASE n \in 1..Len(sealed) /\ sealed'[n] = sealed[n]
      BY <3>2 DEF RequestInv, SealKeepsGoals
    <3> QED BY <1>7, <3>1, <3>2
  <2>3. last'.goals = draft
    BY <1>1 DEF Answered
  <2>4. sealed' # <<>>
    BY <1>7
  <2>5. Len(sealed'[Len(sealed')].goals) = Len(last'.goals)
        /\ Range(sealed'[Len(sealed')].goals) = Range(last'.goals)
    BY <1>3, <1>7, <2>1, <2>3
  <2> QED BY <2>2, <2>4, <2>5 DEF SealKeepsGoals, Before
<1> QED BY <1>7, <1>8, <1>9, <1>10 DEF RequestInv

(***************************************************************************)
(* RequestInv holds throughout.                                            *)
(***************************************************************************)
LEMMA RequestInductive == RequestSpec => []RequestInv
<1>1. RequestInit => RequestInv
  <2> SUFFICES ASSUME RequestInit PROVE RequestInv
    OBVIOUS
  <2>1. sealed = <<>> /\ sealed \in Seq({}) /\ last.call # "seal" /\ last.answer # "sealed"
    BY DEF RequestInit, NoCall
  <2>2. RequestTypeOK
    BY <2>1 DEF RequestInit, RequestTypeOK, NoCall, Preferences
  <2> QED BY <2>1, <2>2 DEF RequestInv, SealDecides, SealKeepsGoals
<1>2. RequestInv /\ [RequestNext]_request_vars => RequestInv'
  <2> SUFFICES ASSUME RequestInv, [RequestNext]_request_vars PROVE RequestInv'
    OBVIOUS
  <2>1. CASE UNCHANGED request_vars
    <3>1. UNCHANGED <<draft, policy, sealed, last>>
      BY <2>1 DEF request_vars
    <3>2. RequestTypeOK'
      BY <3>1 DEF RequestInv, RequestTypeOK
    <3>3. SealDecides'
      BY <3>1 DEF RequestInv, SealDecides, SameGoal
    <3>4. SealKeepsGoals'
      BY <3>1 DEF RequestInv, SealKeepsGoals, Before
    <3> QED BY <3>1, <3>2, <3>3, <3>4 DEF RequestInv
  <2> QED BY <2>1, AddGoalKeeps, SetPolicyKeeps, RefuseEmptyKeeps, RefuseDuplicateKeeps,
             SealKeeps, FailIdentityKeeps DEF RequestNext
<1> QED BY <1>1, <1>2, PTL DEF RequestSpec

(***************************************************************************)
(* No goal without an origin and no unsupported policy is ever sealed.     *)
(***************************************************************************)
THEOREM RequestTypeCorrect == RequestSpec => []RequestTypeOK
<1>1. RequestInv => RequestTypeOK
  BY DEF RequestInv
<1> QED BY <1>1, RequestInductive, PTL

(***************************************************************************)
(* seal() refuses the empty and the duplicate goals, and nothing else.     *)
(***************************************************************************)
THEOREM SealDecidesRightly == RequestSpec => []SealDecides
<1>1. RequestInv => SealDecides
  BY DEF RequestInv
<1> QED BY <1>1, RequestInductive, PTL

(***************************************************************************)
(* A sealed request holds the goals of the caller in strict order.         *)
(***************************************************************************)
THEOREM SealKeepsTheGoals == RequestSpec => []SealKeepsGoals
<1>1. RequestInv => SealKeepsGoals
  BY DEF RequestInv
<1> QED BY <1>1, RequestInductive, PTL

(***************************************************************************)
(* A sealed request is what the engine takes for granted of its goals (the *)
(* clauses of IsRequest in Authorities): there is one at least, and no two *)
(* mean the same, so that no closure is built twice.                       *)
(***************************************************************************)
THEOREM SealedForResolution ==
  RequestSpec => [](\A n \in 1..Len(sealed) :
                      /\ sealed[n].goals # <<>>
                      /\ \A i, j \in 1..Len(sealed[n].goals) :
                           SameGoal(sealed[n].goals[i], sealed[n].goals[j]) => i = j)
<1>1. ASSUME RequestInv, NEW n \in 1..Len(sealed),
             NEW i \in 1..Len(sealed[n].goals), NEW j \in 1..Len(sealed[n].goals),
             SameGoal(sealed[n].goals[i], sealed[n].goals[j])
      PROVE  i = j
  <2>1. sealed[n].goals \in Seq(Goal)
    BY <1>1 DEF RequestInv, RequestTypeOK
  <2>2. sealed[n].goals[i] \in Goal /\ sealed[n].goals[j] \in Goal
    BY <2>1
  <2> DEFINE g == sealed[n].goals[i]
             h == sealed[n].goals[j]
  <2>3. /\ ScopeRank[g.scope] \in Nat /\ SubjectRank[g.subject] \in Nat
        /\ g.scope = h.scope /\ g.subject = h.subject
    BY <1>1, <2>2, RanksAssumption DEF SameGoal, Goal
  <2>4. ~ Before(g, h) /\ ~ Before(h, g)
    BY <2>3 DEF Before
  <2>5. (i < j => Before(g, h)) /\ (j < i => Before(h, g))
    BY <1>1 DEF RequestInv, SealKeepsGoals
  <2>6. i \in Nat /\ j \in Nat
    BY <2>1
  <2> QED BY <2>4, <2>5, <2>6
<1>2. RequestInv =>
        \A n \in 1..Len(sealed) :
          /\ sealed[n].goals # <<>>
          /\ \A i, j \in 1..Len(sealed[n].goals) :
               SameGoal(sealed[n].goals[i], sealed[n].goals[j]) => i = j
  BY <1>1 DEF RequestInv, SealKeepsGoals
<1> QED BY <1>2, RequestInductive, PTL

-----------------------------------------------------------------------------
(***************************************************************************)
(* Two vectors of goals, each in strict order, that mean the same goals    *)
(* mean them in the same places.                                           *)
(***************************************************************************)
Ascending(g) == \A i, j \in 1..Len(g) : i < j => Before(g[i], g[j])

Covered(g, h) == \A i \in 1..Len(g) : \E j \in 1..Len(h) : SameGoal(g[i], h[j])

SameGoals(g, h) == Len(g) = Len(h) /\ \A i \in 1..Len(g) : SameGoal(g[i], h[i])

\* The order sees meanings only, and is strict.
LEMMA BeforeIsStrict ==
  ASSUME NEW a \in Goal, NEW b \in Goal, Before(a, b)
  PROVE  ~ SameGoal(a, b) /\ ~ Before(b, a)
<1>1. /\ ScopeRank[a.scope] \in Nat /\ ScopeRank[b.scope] \in Nat
      /\ SubjectRank[a.subject] \in Nat /\ SubjectRank[b.subject] \in Nat
  BY RanksAssumption DEF Goal
<1> QED BY <1>1 DEF Before, SameGoal

\* Goals may be exchanged for goals of the same meaning.
LEMMA BeforeOfMeanings ==
  ASSUME NEW a, NEW b, NEW c, NEW d, SameGoal(a, c), SameGoal(b, d), Before(a, b)
  PROVE  Before(c, d)
  BY DEF Before, SameGoal

\* Wherever g has a goal, h has one of the same meaning: at the least place
\* where it had not, one of the two would hold a goal the other lacks.
LEMMA SamePlace ==
  ASSUME NEW g \in Seq(Goal), NEW h \in Seq(Goal), Ascending(g), Ascending(h),
         Covered(g, h), Covered(h, g), NEW n \in 1..Len(g)
  PROVE  n \in 1..Len(h) /\ SameGoal(g[n], h[n])
<1> DEFINE T == {k \in 1..Len(g) : ~ (k \in 1..Len(h) /\ SameGoal(g[k], h[k]))}
<1>1. SUFFICES ASSUME T # {} PROVE FALSE
  OBVIOUS
<1>2. Len(g) \in Nat /\ Len(h) \in Nat /\ T \in SUBSET Nat
  OBVIOUS
<1>3. PICK k \in T : \A m \in T : k <= m
  BY <1>1, <1>2, LeastNumber
<1>4. /\ k \in 1..Len(g) /\ ~ (k \in 1..Len(h) /\ SameGoal(g[k], h[k]))
      /\ \A i \in 1..Len(g) : i < k => i \in 1..Len(h) /\ SameGoal(g[i], h[i])
  BY <1>2, <1>3
<1> HIDE DEF T
<1>5. /\ \A i \in 1..Len(g) : g[i] \in Goal
      /\ \A i \in 1..Len(h) : h[i] \in Goal
  OBVIOUS
<1>6. PICK j \in 1..Len(h) : SameGoal(g[k], h[j])
  BY <1>4 DEF Covered
<1>7. ~ j < k
  <2> SUFFICES ASSUME j < k PROVE FALSE
    OBVIOUS
  <2>1. j \in 1..Len(g)
    BY <1>2, <1>4
  <2>2. SameGoal(g[j], g[k])
    BY <1>4, <1>6, <2>1 DEF SameGoal
  <2>3. Before(g[j], g[k])
    BY <1>4, <2>1 DEF Ascending
  <2> QED BY <1>4, <1>5, <2>1, <2>2, <2>3, BeforeIsStrict
<1>8. k \in 1..Len(h) /\ ~ SameGoal(g[k], h[k]) /\ k < j
  <2>1. k \in 1..Len(h)
    BY <1>2, <1>4, <1>7
  <2>2. ~ SameGoal(g[k], h[k])
    BY <1>4, <2>1, Zenon
  <2>3. j # k
    BY <1>6, <2>2, Zenon
  <2> QED BY <1>7, <2>1, <2>2, <2>3
<1>9. Before(h[k], h[j])
  BY <1>8 DEF Ascending
<1>10. PICK l \in 1..Len(g) : SameGoal(h[k], g[l])
  BY <1>8 DEF Covered
<1>11. ~ l < k
  <2> SUFFICES ASSUME l < k PROVE FALSE
    OBVIOUS
  <2>1. l \in 1..Len(h) /\ SameGoal(h[l], h[k])
    BY <1>4, <1>10 DEF SameGoal
  <2>2. Before(h[l], h[k])
    BY <1>8, <2>1 DEF Ascending
  <2> QED BY <1>5, <1>8, <2>1, <2>2, BeforeIsStrict
<1>12. k < l
  <2>1. l # k
    BY <1>8, <1>10 DEF SameGoal
  <2> QED BY <1>4, <1>11, <2>1
<1>13. Before(g[k], g[l])
  BY <1>4, <1>12 DEF Ascending
<1>14. Before(h[j], h[k])
  <2>1. SameGoal(g[l], h[k])
    BY <1>10 DEF SameGoal
  <2> QED BY <1>6, <1>13, <2>1, BeforeOfMeanings, Zenon
<1> QED BY <1>5, <1>8, <1>9, <1>14, BeforeIsStrict, Zenon

\* So the vectors are equally long.
LEMMA SamePlaces ==
  ASSUME NEW g \in Seq(Goal), NEW h \in Seq(Goal), Ascending(g), Ascending(h),
         Covered(g, h), Covered(h, g)
  PROVE  SameGoals(g, h)
<1>1. \A n \in 1..Len(g) : n \in 1..Len(h) /\ SameGoal(g[n], h[n])
  BY SamePlace
<1>2. \A n \in 1..Len(h) : n \in 1..Len(g)
  BY SamePlace
<1>3. Len(g) \in Nat /\ Len(h) \in Nat
  OBVIOUS
<1>4. Len(g) = Len(h)
  BY <1>1, <1>2, <1>3
<1> QED BY <1>1, <1>4 DEF SameGoals

-----------------------------------------------------------------------------
(***************************************************************************)
(* What is hashed of a request.                                            *)
(***************************************************************************)
GoalContents(goals) ==
  [i \in 1..Len(goals) |-> [scope |-> goals[i].scope, kind |-> goals[i].subject.kind,
                            text |-> goals[i].subject.text]]

Content(context, preference, goals) ==
  [domain |-> "request", catalog |-> context.catalog,
   installed |-> context.installed, build |-> context.build, target |-> context.target,
   preference |-> preference, goals |-> GoalContents(goals)]

\* It is a value that Streams identifies.
LEMMA ContentType ==
  ASSUME NEW context \in Contexts, NEW preference \in Preferences,
         NEW goals \in Seq(Goal), Len(goals) <= MaxGoals
  PROVE  Content(context, preference, goals) \in RequestValue
<1>1. Len(goals) \in NumberValue /\ Len(goals) \in Nat
  BY ContentsAssumption, NumbersBelow
<1>2. ASSUME NEW i \in 1..Len(goals)
      PROVE  [scope |-> goals[i].scope, kind |-> goals[i].subject.kind,
              text |-> goals[i].subject.text] \in GoalValue
  <2>0. goals[i] \in Goal
    OBVIOUS
  <2>1. goals[i].scope \in Scopes /\ goals[i].subject \in Subjects
    BY <2>0 DEF Goal
  <2>2. /\ goals[i].scope \in ScopeValue
        /\ goals[i].subject \in [kind : {"package", "profile"}, text : TextValue]
    BY <2>1, ContentsAssumption, Zenon
  <2> QED BY <2>2 DEF GoalValue
<1>3. GoalContents(goals) \in [1..Len(goals) -> GoalValue]
  BY <1>2 DEF GoalContents
<1>4. GoalContents(goals) \in Seq(GoalValue) /\ Len(GoalContents(goals)) = Len(goals)
  BY <1>1, <1>3, FunctionIsList, Zenon
<1>5. GoalContents(goals) \in List(GoalValue)
  BY <1>1, <1>4 DEF List, NumberValue
<1>6. /\ context.catalog \in TextValue /\ context.installed \in TextValue
      /\ context.build \in TextValue /\ context.target \in TextValue
  BY ContentsAssumption
<1> QED BY <1>5, <1>6 DEF Content, RequestValue, Preferences

(***************************************************************************)
(* Two requests hash one stream if and only if they agree in context and   *)
(* preference and their goals mean the same in every place.                *)
(***************************************************************************)
LEMMA IdentityReadable ==
  ASSUME NEW c \in Contexts, NEW d \in Contexts, NEW p \in Preferences, NEW q \in Preferences,
         NEW g \in Seq(Goal), NEW h \in Seq(Goal), Len(g) <= MaxGoals, Len(h) <= MaxGoals
  PROVE  Identity(c, p, g) = Identity(d, q, h) <=> c = d /\ p = q /\ SameGoals(g, h)
<1>1. /\ Identity(c, p, g) = RequestStream(Content(c, p, g))
      /\ Identity(d, q, h) = RequestStream(Content(d, q, h))
  BY Zenon DEF Identity, Content, GoalContents
<1>2. Content(c, p, g) \in RequestValue /\ Content(d, q, h) \in RequestValue
  BY ContentType
<1>3. Identity(c, p, g) = Identity(d, q, h) <=> Content(c, p, g) = Content(d, q, h)
  BY <1>1, <1>2, TellsRequest, Zenon DEF Tells
<1>4. c = d <=> /\ c.catalog = d.catalog /\ c.installed = d.installed
                /\ c.build = d.build /\ c.target = d.target
  BY ContentsAssumption
<1>5. Content(c, p, g) = Content(d, q, h)
        <=> c = d /\ p = q /\ GoalContents(g) = GoalContents(h)
  BY <1>4 DEF Content
<1>6. GoalContents(g) = GoalContents(h) <=> SameGoals(g, h)
  <2>1. Len(g) \in Nat /\ Len(h) \in Nat
    OBVIOUS
  <2>2. ASSUME NEW i \in 1..Len(g), NEW j \in 1..Len(h)
        PROVE  SameGoal(g[i], h[j]) <=> /\ g[i].scope = h[j].scope
                                        /\ g[i].subject.kind = h[j].subject.kind
                                        /\ g[i].subject.text = h[j].subject.text
    <3>0. g[i] \in Goal /\ h[j] \in Goal
      OBVIOUS
    <3>1. g[i].subject \in Subjects /\ h[j].subject \in Subjects
      BY <3>0 DEF Goal
    <3>2. \A a, b \in Subjects : a = b <=> a.kind = b.kind /\ a.text = b.text
      <4>1. \A a, b \in [kind : {"package", "profile"}, text : TextValue] :
              a = b <=> a.kind = b.kind /\ a.text = b.text
        OBVIOUS
      <4> QED BY <4>1, ContentsAssumption, Zenon
    <3> QED BY <3>1, <3>2, Zenon DEF SameGoal
  <2>3. ASSUME SameGoals(g, h) PROVE GoalContents(g) = GoalContents(h)
    BY <2>2, <2>3 DEF SameGoals, GoalContents
  <2>4. ASSUME GoalContents(g) = GoalContents(h) PROVE SameGoals(g, h)
    <3>1. DOMAIN GoalContents(g) = 1..Len(g) /\ DOMAIN GoalContents(h) = 1..Len(h)
      BY DEF GoalContents
    <3>2. Len(g) = Len(h)
      BY <2>1, <2>4, <3>1
    <3>3. ASSUME NEW i \in 1..Len(g) PROVE SameGoal(g[i], h[i])
      <4>1. i \in 1..Len(h) /\ GoalContents(g)[i] = GoalContents(h)[i]
        BY <2>4, <3>2
      <4> QED BY <2>2, <4>1 DEF GoalContents
    <3> QED BY <3>2, <3>3 DEF SameGoals
  <2> QED BY <2>3, <2>4
<1> QED BY <1>3, <1>5, <1>6

-----------------------------------------------------------------------------
(***************************************************************************)
(* Every request sealed carries the identity of its own content.           *)
(***************************************************************************)
IdentityInv ==
  /\ Len(draft) <= MaxGoals
  /\ \A n \in 1..Len(sealed) :
       /\ Len(sealed[n].goals) <= MaxGoals
       /\ sealed[n].identity
            = Identity(sealed[n].context, sealed[n].preference, sealed[n].goals)

\* Every call keeps that.
LEMMA IdentityKept ==
  ASSUME RequestInv, IdentityInv, [RequestNext]_request_vars
  PROVE  IdentityInv'
<1>1. draft \in Seq(Goal) /\ MaxGoals \in Nat
  BY ContentsAssumption DEF RequestInv, RequestTypeOK, NumberValue
<1>2. ASSUME sealed' = sealed, Len(draft') <= MaxGoals PROVE IdentityInv'
  BY <1>2 DEF IdentityInv, Identity
<1>3. Len(<<>>) <= MaxGoals
  BY <1>1
<1>4. CASE AddGoal
  <2>1. sealed' = sealed /\ Len(draft) < MaxGoals
    BY <1>4 DEF AddGoal
  <2>2. draft' = draft \/ \E g : draft' = Append(draft, g)
    BY <1>4 DEF AddGoal, MakeGoal
  <2>3. Len(draft') <= MaxGoals
    BY <1>1, <2>1, <2>2
  <2> QED BY <1>2, <2>1, <2>3
<1>5. CASE Seal
  <2>1. PICK goals \in Sortings(draft), context \in Contexts :
          sealed' = Append(sealed, ResolutionRequest(context, policy, goals))
    BY <1>5 DEF Seal
  <2>2. Len(goals) <= MaxGoals
    <3>1. Len(goals) = Len(draft)
      BY <1>1, Arrangement
    <3> QED BY <3>1 DEF IdentityInv
  <2> DEFINE r == ResolutionRequest(context, policy, goals)
  <2>3. r.goals = goals /\ r.identity = Identity(r.context, r.preference, r.goals)
    BY Zenon DEF ResolutionRequest
  <2>4. sealed' = Append(sealed, r)
    BY <2>1
  <2> HIDE DEF r
  <2>5. PICK R : sealed \in Seq(R)
    BY DEF RequestInv
  <2>6. \A n \in 1..Len(sealed') :
          sealed'[n] = r \/ (n \in 1..Len(sealed) /\ sealed'[n] = sealed[n])
    BY <2>4, <2>5
  <2>7. ASSUME NEW n \in 1..Len(sealed')
        PROVE  /\ Len(sealed'[n].goals) <= MaxGoals
               /\ sealed'[n].identity
                    = Identity(sealed'[n].context, sealed'[n].preference, sealed'[n].goals)
    <3>1. CASE sealed'[n] = r
      BY <2>2, <2>3, <3>1
    <3>2. CASE n \in 1..Len(sealed) /\ sealed'[n] = sealed[n]
      BY <3>2 DEF IdentityInv
    <3> QED BY <2>6, <3>1, <3>2
  <2>8. draft' = <<>>
    BY <1>5 DEF Seal
  <2> QED BY <1>3, <2>7, <2>8 DEF IdentityInv, Identity
<1>6. CASE SetPolicy
  BY <1>2, <1>6 DEF SetPolicy, IdentityInv
<1>7. CASE RefuseEmpty
  BY <1>2, <1>7 DEF RefuseEmpty, IdentityInv
<1>8. CASE RefuseDuplicate
  BY <1>2, <1>3, <1>8 DEF RefuseDuplicate
<1>9. CASE FailIdentity
  BY <1>2, <1>3, <1>9 DEF FailIdentity
<1>10. CASE UNCHANGED request_vars
  BY <1>2, <1>10 DEF request_vars, IdentityInv
<1> QED BY <1>4, <1>5, <1>6, <1>7, <1>8, <1>9, <1>10 DEF RequestNext

(* What the goals of a list ask for, whatever their order and origins. *)
Meanings(g) == {<<x.scope, x.subject>> : x \in Range(g)}

(* A list asks for exactly what stands at one of its places. *)
LEMMA MeaningAt ==
  ASSUME NEW k \in Seq(Goal), NEW y
  PROVE  y \in Meanings(k) <=> \E i \in 1..Len(k) : y = <<k[i].scope, k[i].subject>>
<1>1. y \in Meanings(k) <=> \E x \in Range(k) : y = <<x.scope, x.subject>>
  BY DEF Meanings
<1>2. DOMAIN k = 1..Len(k)
  OBVIOUS
<1> QED BY <1>1, <1>2, Zenon DEF Range

(***************************************************************************)
(* Two sealed requests have one identity if and only if they mean the same *)
(* thing: the order of the goals the caller passed and their origins are   *)
(* not in it, the meaning of every goal is.                                *)
(***************************************************************************)
THEOREM IdentifiesMeaning == RequestSpec => []IdentityIsMeaning
<1>1. ASSUME RequestInv, IdentityInv, NEW m \in 1..Len(sealed), NEW n \in 1..Len(sealed)
      PROVE  sealed[m].identity = sealed[n].identity
               <=> Meaning(sealed[m]) = Meaning(sealed[n])
  <2> DEFINE r == sealed[m]  s == sealed[n]
  <2>1. /\ r.context \in Contexts /\ r.preference \in Preferences /\ r.goals \in Seq(Goal)
        /\ s.context \in Contexts /\ s.preference \in Preferences /\ s.goals \in Seq(Goal)
    BY <1>1 DEF RequestInv, RequestTypeOK
  <2>2. /\ Len(r.goals) <= MaxGoals /\ Len(s.goals) <= MaxGoals
        /\ r.identity = Identity(r.context, r.preference, r.goals)
        /\ s.identity = Identity(s.context, s.preference, s.goals)
    BY <1>1 DEF IdentityInv
  <2>3. Ascending(r.goals) /\ Ascending(s.goals)
    BY <1>1 DEF RequestInv, SealKeepsGoals, Ascending
  <2> HIDE DEF r, s
  <2>4. r.identity = s.identity
          <=> r.context = s.context /\ r.preference = s.preference /\ SameGoals(r.goals, s.goals)
    BY <2>1, <2>2, IdentityReadable
  <2>5. ASSUME NEW g \in Seq(Goal), NEW h \in Seq(Goal)
        PROVE  Meanings(g) \subseteq Meanings(h) <=> Covered(g, h)
    <3>2. /\ \A y : y \in Meanings(g) <=> \E i \in 1..Len(g) : y = <<g[i].scope, g[i].subject>>
          /\ \A y : y \in Meanings(h) <=> \E i \in 1..Len(h) : y = <<h[i].scope, h[i].subject>>
      BY MeaningAt, Zenon
    <3>3. \A i \in 1..Len(g), j \in 1..Len(h) :
            SameGoal(g[i], h[j])
              <=> <<g[i].scope, g[i].subject>> = <<h[j].scope, h[j].subject>>
      BY DEF SameGoal
    <3>4. ASSUME Meanings(g) \subseteq Meanings(h) PROVE Covered(g, h)
      <4> SUFFICES ASSUME NEW i \in 1..Len(g)
                   PROVE  \E j \in 1..Len(h) : SameGoal(g[i], h[j])
        BY Zenon DEF Covered
      <4>1. <<g[i].scope, g[i].subject>> \in Meanings(h)
        BY <3>2, <3>4, Zenon
      <4> QED BY <3>2, <3>3, <4>1, Zenon
    <3>5. ASSUME Covered(g, h) PROVE Meanings(g) \subseteq Meanings(h)
      <4> SUFFICES ASSUME NEW y \in Meanings(g) PROVE y \in Meanings(h)
        OBVIOUS
      <4>1. PICK i \in 1..Len(g) : y = <<g[i].scope, g[i].subject>>
        BY <3>2, Zenon
      <4>2. PICK j \in 1..Len(h) : SameGoal(g[i], h[j])
        BY <3>5, Zenon DEF Covered
      <4> QED BY <3>2, <3>3, <4>1, <4>2, Zenon
    <3> QED BY <3>4, <3>5, Zenon
  <2>6. Meanings(r.goals) = Meanings(s.goals) <=> SameGoals(r.goals, s.goals)
    <3>1. Meanings(r.goals) = Meanings(s.goals) <=> Meanings(r.goals) \subseteq Meanings(s.goals) /\ Meanings(s.goals) \subseteq Meanings(r.goals)
      OBVIOUS
    <3>2. Meanings(r.goals) = Meanings(s.goals) <=> Covered(r.goals, s.goals) /\ Covered(s.goals, r.goals)
      BY <2>1, <2>5, <3>1, Zenon
    <3>3. Covered(r.goals, s.goals) /\ Covered(s.goals, r.goals) => SameGoals(r.goals, s.goals)
      BY <2>1, <2>3, SamePlaces, Zenon
    <3>4. SameGoals(r.goals, s.goals) => Covered(r.goals, s.goals) /\ Covered(s.goals, r.goals)
      BY DEF SameGoals, Covered, SameGoal
    <3> QED BY <3>2, <3>3, <3>4, Zenon
  <2>7. Meaning(r) = Meaning(s)
          <=> /\ r.context = s.context /\ r.preference = s.preference
              /\ Meanings(r.goals) = Meanings(s.goals)
    <3>1. /\ Meaning(r) = [context |-> r.context, preference |-> r.preference,
                           goals |-> Meanings(r.goals)]
          /\ Meaning(s) = [context |-> s.context, preference |-> s.preference,
                           goals |-> Meanings(s.goals)]
      BY Zenon DEF Meaning, Meanings
    <3> QED BY <3>1
  <2>8. r.identity = s.identity <=> Meaning(r) = Meaning(s)
    BY <2>4, <2>6, <2>7, Zenon
  <2> QED BY <2>8 DEF r, s
<1>2. RequestInv /\ IdentityInv => IdentityIsMeaning
  BY <1>1, Zenon DEF IdentityIsMeaning
<1>3. RequestInit => IdentityInv
  BY ContentsAssumption DEF RequestInit, IdentityInv, NumberValue
<1>4. RequestInv /\ IdentityInv /\ [RequestNext]_request_vars => IdentityInv'
  BY IdentityKept
<1>5. RequestSpec => RequestInit /\ [][RequestNext]_request_vars
  BY DEF RequestSpec
<1> QED BY <1>2, <1>3, <1>4, <1>5, RequestInductive, PTL
=============================================================================
