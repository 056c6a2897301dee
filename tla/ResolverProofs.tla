---------------------------- MODULE ResolverProofs ----------------------------
(***************************************************************************)
(* Safety of the engine, for every set of requests: its types, no re-entry *)
(* and the least closure; first what the selection rules return.           *)
(***************************************************************************)
EXTENDS Resolver, SequenceTheorems, TLAPS

-----------------------------------------------------------------------------
\* What the selection rules return, for every sealed request.

(***************************************************************************)
(* A selection is backed when the request holds the authority it names,    *)
(* and a key when its selection is and can supply the scope.               *)
(***************************************************************************)
Backed(r, s) ==
  /\ s.authority = "candidate" => Candidates(r, s.package) # {}
  /\ s.authority = "installed" => s.package \in DOMAIN r.installed

BackedKey(r, k) ==
  k \in Key /\ Backed(r, k.selection) /\ Supplies(k.selection, k.scope)

\* A choice is always one of the two authorities of select().
LEMMA ChoiceType ==
  ASSUME NEW r, NEW d
  PROVE  Choice(r, d) \in Authority
BY DEF Choice, Preferred, Other, Authority

\* What select() returns is a selection in the environment asked for.
LEMMA SelectType ==
  ASSUME NEW r, NEW d \in Demand
  PROVE  Select(r, d) \in Selection
BY ChoiceType DEF Select, Selection, Demand

\* An accepted demand selects an authority that admits it.
LEMMA SelectAdmitted ==
  ASSUME NEW r, IsRequest(r), NEW d \in Demand, ~ Refused(r, d)
  PROVE  Admits(r, d, Choice(r, d))
<1>1. Admitted(r, d)
  BY DEF Refused, Selects
<1>2. PICK a \in Authority : Admits(r, d, a)
  BY <1>1 DEF Admitted
<1>3. r.preference \in Preference
  BY DEF IsRequest
<1>4. Preferred(r) \in Authority
  BY <1>3 DEF Preferred, Authority
<1>. QED
  BY <1>2, <1>4 DEF Choice, Other, Authority

\* What select() returns is backed by the request.
LEMMA SelectBacked ==
  ASSUME NEW r, IsRequest(r), NEW d \in Demand, ~ Refused(r, d)
  PROVE  /\ Select(r, d) \in Selection
         /\ Backed(r, Select(r, d))
         /\ d.need = "candidate_required" => Select(r, d).authority = "candidate"
<1>1. Admits(r, d, Choice(r, d))
  BY SelectAdmitted
<1>2. Select(r, d).authority = Choice(r, d) /\ Select(r, d).package = d.package
  BY DEF Select
<1>. QED
  BY <1>1, <1>2, SelectType, ChoiceType
  DEF Backed, Admits, CandidateOk, InstalledOk, Authority

\* The candidate find_candidate returns belongs to the catalog.
LEMMA FoundCandidate ==
  ASSUME NEW r, IsRequest(r), NEW p, Candidates(r, p) # {}
  PROVE  FindCandidate(r, p) \in CatalogCandidate
<1>1. FindCandidate(r, p) \in Candidates(r, p)
  BY DEF FindCandidate
<1>2. r.catalog \subseteq CatalogCandidate
  BY DEF IsRequest
<1>. QED
  BY <1>1, <1>2 DEF Candidates

\* The requirements of a backed key are a sequence of requirements.
LEMMA RequirementsType ==
  ASSUME NEW r, IsRequest(r), NEW k, BackedKey(r, k)
  PROVE  Requirements(r, k) \in Seq(Requirement)
<1>0. /\ k.selection.authority \in Authority
      /\ k.scope \in Scope
      /\ Supplies(k.selection, k.scope)
      /\ Backed(r, k.selection)
  BY DEF BackedKey, Key, Selection
<1>1. CASE k.selection.authority = "candidate"
  <2>1. FindCandidate(r, k.selection.package) \in CatalogCandidate
    BY <1>0, <1>1, FoundCandidate DEF Backed
  <2>2. FindCandidate(r, k.selection.package).requires \in [Scope -> Seq(Requirement)]
    BY <2>1 DEF CatalogCandidate
  <2>. QED
    BY <1>0, <1>1, <2>2 DEF Requirements
<1>2. CASE k.selection.authority = "installed"
  <2>1. r.installed[k.selection.package] \in InstalledPackage
    BY <1>0, <1>2 DEF Backed, IsRequest
  <2>2. r.installed[k.selection.package].requires
          \in [{"run"} \cup LifecycleAction -> Seq(Requirement)]
    BY <2>1 DEF InstalledPackage
  <2>3. k.scope \in {"run"} \cup LifecycleAction
    BY <1>0, <1>2 DEF Supplies, Scope
  <2>. QED
    BY <1>0, <1>2, <2>2, <2>3 DEF Requirements
<1>. QED
  BY <1>0, <1>1, <1>2 DEF Authority

\* A requirement is demanded of either authority, in some environment.
LEMMA RequirementDemandType ==
  ASSUME NEW r, IsRequest(r), NEW k, BackedKey(r, k),
         NEW i \in 1..Len(Requirements(r, k))
  PROVE  RequirementDemand(r, k, i) \in Demand
<1>1. Requirements(r, k)[i] \in Requirement
  BY RequirementsType, ElementOfSeq
<1>2. k.selection.environment \in Environment
  BY DEF BackedKey, Key, Selection
<1>. QED
  BY <1>1, <1>2
  DEF RequirementDemand, Requirement, Demand, DependencyEnvironment, Environment, Need

\* A goal names a sequence of packages.
LEMMA GoalType ==
  ASSUME NEW r, IsRequest(r), NEW i \in 1..Len(r.goals)
  PROVE  /\ r.goals[i] \in ResolutionGoal
         /\ r.goals[i].scope \in Scope
         /\ r.goals[i].kind \in {"package", "profile"}
         /\ KnownGoal(r, r.goals[i]) => GoalPackages(r, r.goals[i]) \in Seq(Package)
<1>1. r.goals[i] \in ResolutionGoal
  BY ElementOfSeq DEF IsRequest
<1>2. CASE r.goals[i].kind = "package"
  <2>1. r.goals[i].name \in Package
    BY <1>1, <1>2 DEF ResolutionGoal
  <2>2. <<r.goals[i].name>> \in Seq(Package)
    BY <2>1
  <2>. QED
    BY <1>1, <1>2, <2>2 DEF GoalPackages, ResolutionGoal
<1>3. CASE r.goals[i].kind = "profile"
  BY <1>1, <1>3 DEF GoalPackages, ResolutionGoal, KnownGoal, IsRequest
<1>. QED
  BY <1>1, <1>2, <1>3 DEF ResolutionGoal

\* A goal root is demanded in the target environment.
LEMMA RootDemandType ==
  ASSUME NEW r, IsRequest(r), NEW g \in 1..Len(r.goals), KnownGoal(r, r.goals[g]),
         NEW i \in 1..Len(GoalPackages(r, r.goals[g]))
  PROVE  RootDemand(r, r.goals[g], i) \in Demand
<1>1. GoalPackages(r, r.goals[g])[i] \in Package
  BY GoalType, ElementOfSeq
<1>2. r.goals[g].scope \in Scope
  BY GoalType
<1>3. RootRequirement(r.goals[g].scope) \in Need
  BY <1>2 DEF RootRequirement, Scope, LifecycleAction, Need
<1>. QED
  BY <1>1, <1>3 DEF RootDemand, DemandFor, Demand, Environment

\* Every refusal throws one of the codes of error.h.
LEMMA RefusalCodeType ==
  ASSUME NEW r, NEW d
  PROVE  RefusalCode(r, d) \in ErrorCode
BY DEF RefusalCode, ErrorCode

\* What follows a requirement can supply the scopes it is expanded under.
LEMMA RequirementExpansions ==
  ASSUME NEW r, IsRequest(r), NEW k, BackedKey(r, k),
         NEW i \in 1..Len(Requirements(r, k)),
         ~ Refused(r, RequirementDemand(r, k, i)),
         NEW e \in Expansions(Select(r, RequirementDemand(r, k, i)), "run")
  PROVE  BackedKey(r, e) /\ e \in Children(r, k)
<1>1. RequirementDemand(r, k, i) \in Demand
  BY RequirementDemandType
<1>2. /\ Select(r, RequirementDemand(r, k, i)) \in Selection
      /\ Backed(r, Select(r, RequirementDemand(r, k, i)))
  BY <1>1, SelectBacked
<1>3. BackedKey(r, e)
  BY <1>2 DEF BackedKey, Key, Expansions, Supplies, Scope
<1>. QED
  BY <1>3 DEF Children

\* What follows a goal root can supply the scopes it is expanded under: a goal
\* of build or check scope never selects an installed package.
LEMMA RootExpansions ==
  ASSUME NEW r, IsRequest(r), NEW g \in 1..Len(r.goals), KnownGoal(r, r.goals[g]),
         NEW i \in 1..Len(GoalPackages(r, r.goals[g])),
         ~ Refused(r, RootDemand(r, r.goals[g], i)),
         NEW e \in Expansions(Select(r, RootDemand(r, r.goals[g], i)), r.goals[g].scope)
  PROVE  BackedKey(r, e) /\ e \in RootKeys(r)
<1> DEFINE d == RootDemand(r, r.goals[g], i)
           s == Select(r, d)
<1>1. d \in Demand
  BY RootDemandType
<1>2. s \in Selection /\ Backed(r, s)
  BY <1>1, SelectBacked
<1>3. r.goals[g].scope \in {"build", "check"} => s.authority = "candidate"
  <2>1. d.need = RootRequirement(r.goals[g].scope)
    BY DEF RootDemand, DemandFor
  <2>2. r.goals[g].scope \in {"build", "check"} => d.need = "candidate_required"
    BY <2>1 DEF RootRequirement
  <2>. QED
    BY <1>1, <2>2, SelectBacked
<1>4. e.selection = s /\ e.scope \in {"build", r.goals[g].scope} /\ e \in Key
      /\ (e.scope = "build" => s.authority = "candidate" \/ r.goals[g].scope = "build")
  BY <1>2, GoalType DEF Expansions, Key, Scope
<1>5. BackedKey(r, e)
  BY <1>2, <1>3, <1>4 DEF BackedKey, Supplies
<1>6. e \in GoalKeys(r, r.goals[g])
  BY DEF GoalKeys
<1>. QED
  BY <1>5, <1>6 DEF RootKeys

\* Successors only grow with the keys expanded.
LEMMA SuccessorsMonotone ==
  ASSUME NEW r, NEW K, NEW L, K \subseteq L
  PROVE  Successors(r, K) \subseteq Successors(r, L)
BY DEF Successors

-----------------------------------------------------------------------------
(***************************************************************************)
(* The call stack.  KeysOf collects what its frames are about.             *)
(***************************************************************************)
KeysOf(s) == {s[i].key : i \in 1..Len(s)}

\* Returning from expand() removes the innermost activation only.
LEMMA PopStack ==
  ASSUME NEW s \in Seq(Frame), s # <<>>
  PROVE  LET t == Popped(s)
         IN /\ t \in Seq(Frame)
            /\ Len(t) = Len(s) - 1
            /\ \A i \in 1..Len(t) : t[i] = s[i]
            /\ KeysOf(s) = KeysOf(t) \cup {s[Len(s)].key}
<1> DEFINE t == SubSeq(s, 1, Len(s) - 1)
<1>0. Popped(s) = t
  BY DEF Popped
<1>1. Len(s) \in Nat \ {0} /\ \A i \in 1..(Len(s) - 1) : s[i] \in Frame
  BY EmptySeq, ElementOfSeq
<1>2. /\ t \in Seq(Frame)
      /\ Len(t) = Len(s) - 1
      /\ \A i \in 1..(Len(s) - 1) : t[i] = s[i]
  <2>1. 1 \in Int /\ Len(s) - 1 \in Int /\ Len(s) - 1 - 1 + 1 = Len(s) - 1
    BY <1>1
  <2>2. /\ SubSeq(s, 1, Len(s) - 1) \in Seq(Frame)
        /\ Len(t) = IF 1 <= Len(s) - 1 THEN Len(s) - 1 - 1 + 1 ELSE 0
        /\ \A i \in 1..(Len(s) - 1 - 1 + 1) : t[i] = s[1 + i - 1]
    BY <1>1, <2>1, SubSeqProperties
  <2>. QED
    BY <1>1, <2>1, <2>2
<1>3. KeysOf(s) = KeysOf(t) \cup {s[Len(s)].key}
  <2> HIDE DEF t
  <2>1. \A i \in 1..Len(s) : i \in 1..Len(t) \/ i = Len(s)
    BY <1>1, <1>2
  <2>2. Len(s) \in 1..Len(s) /\ \A i \in 1..Len(t) : i \in 1..Len(s) /\ t[i] = s[i]
    BY <1>1, <1>2
  <2>3. KeysOf(s) \subseteq KeysOf(t) \cup {s[Len(s)].key}
    BY <2>1, <2>2 DEF KeysOf
  <2>4. KeysOf(t) \cup {s[Len(s)].key} \subseteq KeysOf(s)
    BY <2>2 DEF KeysOf
  <2>. QED
    BY <2>3, <2>4
<1>. QED
  BY <1>0, <1>2, <1>3

\* A turn of the loop, or the entry into it, moves the innermost cursor only.
LEMMA AdvanceStack ==
  ASSUME NEW s \in Seq(Frame), s # <<>>
  PROVE  LET t == Advanced(s)
         IN /\ t \in Seq(Frame)
            /\ Len(t) = Len(s)
            /\ \A i \in 1..Len(s) : t[i].key = s[i].key
            /\ \A i \in 1..(Len(s) - 1) : t[i] = s[i]
            /\ t[Len(s)].next = s[Len(s)].next + 1
            /\ KeysOf(t) = KeysOf(s)
<1> DEFINE e == [s[Len(s)] EXCEPT !.next = @ + 1]
           t == [s EXCEPT ![Len(s)] = e]
<1>0. Advanced(s) = t
  BY DEF Advanced
<1>1. Len(s) \in 1..Len(s) /\ s[Len(s)] \in Frame
  BY EmptySeq, ElementOfSeq
<1>2. e \in Frame /\ e.key = s[Len(s)].key /\ e.next = s[Len(s)].next + 1
  BY <1>1 DEF Frame
<1>3. /\ t \in Seq(Frame)
      /\ Len(t) = Len(s)
      /\ \A i \in 1..Len(s) : t[i] = IF i = Len(s) THEN e ELSE s[i]
  BY <1>1, <1>2, ExceptSeq
<1>4. \A i \in 1..Len(s) : t[i].key = s[i].key
  BY <1>2, <1>3
<1>5. \A i \in 1..(Len(s) - 1) : t[i] = s[i]
  BY <1>1, <1>3
<1>6. KeysOf(t) = KeysOf(s)
  BY <1>3, <1>4 DEF KeysOf
<1>. QED
  BY <1>0, <1>1, <1>2, <1>3, <1>4, <1>5, <1>6

\* Calling pushes outstanding activations for exactly the expansions that
\* follow a selection.
LEMMA CallsStack ==
  ASSUME NEW selection \in Selection, NEW scope \in Scope
  PROVE  LET c == Calls(selection, scope)
         IN /\ c \in Seq(Frame)
            /\ \A i \in 1..Len(c) : c[i].next = 0
            /\ KeysOf(c) = Expansions(selection, scope)
<1> DEFINE c == Calls(selection, scope)
           u == Call(selection, scope)
           v == Call(selection, "build")
<1>1. /\ u \in Frame /\ u.next = 0 /\ u.key = [selection |-> selection, scope |-> scope]
      /\ v \in Frame /\ v.next = 0 /\ v.key = [selection |-> selection, scope |-> "build"]
  BY DEF Call, Frame, Key, Scope
<1>2. CASE selection.authority = "candidate"
  <2>1. c = <<u, v>>
    BY <1>2 DEF Calls
  <2>2. Expansions(selection, scope) = {u.key, v.key}
    BY <1>1, <1>2 DEF Expansions
  <2>3. c \in Seq(Frame) /\ Len(c) = 2 /\ c[1] = u /\ c[2] = v
    BY <1>1, <2>1
  <2>4. 1..2 = {1, 2}
    OBVIOUS
  <2>5. KeysOf(c) = {u.key, v.key}
    BY <2>3, <2>4 DEF KeysOf
  <2>. QED
    BY <1>1, <2>2, <2>3, <2>4, <2>5
<1>3. CASE selection.authority # "candidate"
  <2>1. c = <<u>>
    BY <1>3 DEF Calls
  <2>2. Expansions(selection, scope) = {u.key}
    <3>1. Expansions(selection, scope) =
            {[selection |-> selection, scope |-> s] : s \in {scope}}
      BY <1>3 DEF Expansions
    <3>. QED
      BY <1>1, <3>1
  <2>3. c \in Seq(Frame) /\ Len(c) = 1 /\ c[1] = u
    BY <1>1, <2>1
  <2>4. 1..1 = {1}
    OBVIOUS
  <2>5. KeysOf(c) = {u.key}
    BY <2>3, <2>4 DEF KeysOf
  <2>. QED
    BY <1>1, <2>2, <2>3, <2>4, <2>5
<1>. QED
  BY <1>2, <1>3

\* What is called lies above what was there.
LEMMA PushStack ==
  ASSUME NEW s \in Seq(Frame), NEW c \in Seq(Frame)
  PROVE  LET t == s \o c
         IN /\ t \in Seq(Frame)
            /\ Len(t) = Len(s) + Len(c)
            /\ \A i \in 1..Len(s) : t[i] = s[i]
            /\ \A i \in (Len(s) + 1)..Len(t) : i - Len(s) \in 1..Len(c) /\ t[i] = c[i - Len(s)]
            /\ KeysOf(t) = KeysOf(s) \cup KeysOf(c)
<1> DEFINE t == s \o c
<1>1. Len(s) \in Nat /\ Len(c) \in Nat
  BY LenProperties
<1>2. /\ t \in Seq(Frame)
      /\ Len(t) = Len(s) + Len(c)
      /\ \A i \in 1..(Len(s) + Len(c)) : t[i] = IF i <= Len(s) THEN s[i] ELSE c[i - Len(s)]
  BY ConcatProperties
<1>3. \A i \in 1..Len(s) : i \in 1..Len(t) /\ t[i] = s[i]
  BY <1>1, <1>2
<1>4. \A i \in (Len(s) + 1)..Len(t) : i - Len(s) \in 1..Len(c) /\ t[i] = c[i - Len(s)]
  BY <1>1, <1>2
<1>5. \A j \in 1..Len(c) : Len(s) + j \in 1..Len(t) /\ t[Len(s) + j] = c[j]
  BY <1>1, <1>2
<1>6. \A i \in 1..Len(t) : i \in 1..Len(s) \/ i \in (Len(s) + 1)..Len(t)
  BY <1>1, <1>2
<1>7. KeysOf(t) = KeysOf(s) \cup KeysOf(c)
  <2>1. KeysOf(t) \subseteq KeysOf(s) \cup KeysOf(c)
    BY <1>3, <1>4, <1>6 DEF KeysOf
  <2>2. KeysOf(s) \subseteq KeysOf(t)
    BY <1>3 DEF KeysOf
  <2>3. KeysOf(c) \subseteq KeysOf(t)
    BY <1>5 DEF KeysOf
  <2>. QED
    BY <2>1, <2>2, <2>3
<1>. QED
  BY <1>2, <1>3, <1>4, <1>7

\* A cursor at its start is not in the loop.
LEMMA NotRunning == ~ (0 > 0)
  OBVIOUS

\* A turn of the loop: the innermost cursor moves and the calls lie above it.
LEMMA DemandStack ==
  ASSUME NEW s \in Seq(Frame), s # <<>>, NEW selection \in Selection
  PROVE  LET t == Advanced(s) \o Calls(selection, "run")
             n == Len(s)
         IN /\ t \in Seq(Frame)
            /\ Len(t) \in Nat /\ n <= Len(t)
            /\ \A i \in 1..(n - 1) : t[i] = s[i]
            /\ t[n].key = s[n].key /\ t[n].next = s[n].next + 1
            /\ \A i \in (n + 1)..Len(t) : t[i].next = 0
            /\ KeysOf(t) = KeysOf(s) \cup Expansions(selection, "run")
<1> DEFINE n == Len(s)
           u == Advanced(s)
           c == Calls(selection, "run")
           t == u \o c
<1>1. n \in Nat \ {0}
  BY EmptySeq
<1>2. /\ u \in Seq(Frame)
      /\ Len(u) = n
      /\ \A i \in 1..n : u[i].key = s[i].key
      /\ \A i \in 1..(n - 1) : u[i] = s[i]
      /\ u[n].next = s[n].next + 1
      /\ KeysOf(u) = KeysOf(s)
  BY AdvanceStack
<1>3. /\ c \in Seq(Frame)
      /\ \A i \in 1..Len(c) : c[i].next = 0
      /\ KeysOf(c) = Expansions(selection, "run")
  BY CallsStack DEF Scope
<1> HIDE DEF u, c
<1>4. /\ t \in Seq(Frame)
      /\ Len(t) = Len(u) + Len(c)
      /\ \A i \in 1..Len(u) : t[i] = u[i]
      /\ \A i \in (Len(u) + 1)..Len(t) : i - Len(u) \in 1..Len(c) /\ t[i] = c[i - Len(u)]
      /\ KeysOf(t) = KeysOf(u) \cup KeysOf(c)
  BY <1>2, <1>3, PushStack
<1>5. Len(c) \in Nat
  BY <1>3, LenProperties
<1> HIDE DEF t, n
<1>6. n <= Len(t) /\ Len(t) \in Nat
  BY <1>1, <1>2, <1>4, <1>5
<1>7. \A i \in 1..(n - 1) : t[i] = s[i]
  BY <1>1, <1>2, <1>4
<1>8. t[n].key = s[n].key /\ t[n].next = s[n].next + 1
  <2>1. n \in 1..n
    BY <1>1
  <2>. QED
    BY <1>2, <1>4, <2>1
<1>9. \A i \in (n + 1)..Len(t) : t[i].next = 0
  <2>1. \A i \in (n + 1)..Len(t) : i - n \in 1..Len(c) /\ t[i] = c[i - n]
    BY <1>2, <1>4
  <2>. QED
    BY <1>3, <2>1
<1>10. KeysOf(t) = KeysOf(s) \cup Expansions(selection, "run")
  BY <1>2, <1>3, <1>4
<1>11. t \in Seq(Frame)
  BY <1>4
<1>. QED
  BY <1>6, <1>7, <1>8, <1>9, <1>10, <1>11, Zenon DEF t, u, c, n

-----------------------------------------------------------------------------
(***************************************************************************)
(* The inductive invariant.                                                *)
(***************************************************************************)

\* Expanded and outstanding keys name what the request holds and can supply.
KeysBacked == \A k \in expanded \cup KeysOf(stack) : BackedKey(request, k)

\* An activation that runs has written its key into the memo.
RunningExpanded ==
  \A i \in 1..Len(stack) : stack[i].next > 0 => stack[i].key \in expanded

\* Nothing is called but what a goal or an expanded key calls for ...
CallsSound == KeysOf(stack) \subseteq Successors(request, expanded)

\* ... so that each expanded key is reached from the goals: no proper subset of
\* the memo holds all the successors it has within the memo.
ExpandedSound ==
  \A C \in SUBSET expanded :
    Successors(request, C) \cap expanded \subseteq C => C = expanded

\* A demand is covered when it was accepted and what follows it is expanded or
\* still outstanding.
Covers(d, scope) ==
  /\ ~ Refused(request, d)
  /\ Expansions(Select(request, d), scope) \subseteq expanded \cup KeysOf(stack)

\* The demands behind the cursor over goals and paths are covered ...
RootsCovered ==
  \A g \in 1..Len(request.goals) :
    /\ g < goal => KnownGoal(request, request.goals[g])
    /\ KnownGoal(request, request.goals[g]) =>
         \A j \in 1..Len(GoalPackages(request, request.goals[g])) :
           g < goal \/ (g = goal /\ j < path) =>
             Covers(RootDemand(request, request.goals[g], j), request.goals[g].scope)

\* ... and so are those of each expanded key, up to the cursor of the activation
\* that serves it.
Awaits(k, j) ==
  \E i \in 1..Len(stack) :
    stack[i].key = k /\ stack[i].next > 0 /\ stack[i].next <= j

KeysCovered ==
  \A k \in expanded : \A j \in 1..Len(Requirements(request, k)) :
    Awaits(k, j) \/ Covers(RequirementDemand(request, k, j), "run")

Finished ==
  status = "resolved" => stack = <<>> /\ goal = Len(request.goals) + 1

IInv ==
  /\ TypeOK
  /\ KeysBacked
  /\ RunningExpanded
  /\ NoReentry
  /\ CallsSound
  /\ ExpandedSound
  /\ RootsCovered
  /\ KeysCovered
  /\ Finished

-----------------------------------------------------------------------------
(***************************************************************************)
(* Preservation.                                                           *)
(***************************************************************************)

\* Before anything is resolved there is nothing to justify.
LEMMA InitInv == Init => IInv
<1> SUFFICES ASSUME Init PROVE IInv
  OBVIOUS
<1>1. IsRequest(request)
  BY RequestsAssumption DEF Init
<1>2. Len(request.goals) \in Nat /\ Len(request.goals) >= 1
  BY <1>1, EmptySeq DEF IsRequest
<1>3. stack \in Seq(Frame) /\ Len(stack) = 0
  BY EmptySeq DEF Init
<1>4. KeysOf(stack) = {}
  BY <1>3 DEF KeysOf
<1>5. TypeOK
  <2>1. KnownGoal(request, request.goals[1]) =>
          Len(GoalPackages(request, request.goals[1])) \in Nat
    BY <1>1, <1>2, GoalType, LenProperties
  <2>2. members \in [1..Len(request.goals) -> SUBSET Member]
    BY DEF Init
  <2>. QED
    BY <1>1, <1>2, <1>3, <2>1, <2>2 DEF TypeOK, Init, Goal
<1>6. KeysBacked /\ CallsSound /\ ExpandedSound /\ KeysCovered
  BY <1>4 DEF Init, KeysBacked, CallsSound, ExpandedSound, KeysCovered
<1>7. RunningExpanded /\ NoReentry /\ Finished
  BY <1>3 DEF Init, RunningExpanded, NoReentry, Finished
<1>8. RootsCovered
  <2>1. \A g \in 1..Len(request.goals) : ~ (g < goal)
    BY <1>2 DEF Init
  <2>2. \A g \in 1..Len(request.goals) :
          KnownGoal(request, request.goals[g]) =>
            \A j \in 1..Len(GoalPackages(request, request.goals[g])) : ~ (j < path)
    BY <1>1, GoalType, LenProperties DEF Init
  <2>. QED
    BY <2>1, <2>2 DEF RootsCovered
<1>. QED
  BY <1>5, <1>6, <1>7, <1>8 DEF IInv

\* What is covered stays covered while no key is dropped before it is expanded.
LEMMA CoversKept ==
  ASSUME NEW d, NEW scope, Covers(d, scope), request' = request,
         expanded \cup KeysOf(stack) \subseteq expanded' \cup KeysOf(stack')
  PROVE  Covers(d, scope)'
BY DEF Covers

\* Conjuncts that look only at the request, the memo and the stack.
LEMMA SameStack ==
  ASSUME IInv, request' = request, stack' = stack, expanded' = expanded
  PROVE  /\ KeysBacked' /\ RunningExpanded' /\ NoReentry' /\ CallsSound'
         /\ ExpandedSound' /\ KeysCovered'
         /\ \A i \in 1..Len(stack') : stack'[i].next <= Len(ReqsOf(stack[i])') + 1
<1>1. KeysBacked' /\ RunningExpanded' /\ NoReentry' /\ CallsSound' /\ ExpandedSound'
  BY DEF IInv, KeysBacked, RunningExpanded, NoReentry, CallsSound, ExpandedSound
<1>2. KeysCovered'
  BY DEF IInv, KeysCovered, Awaits, Covers
<1>3. \A i \in 1..Len(stack') : stack'[i].next <= Len(ReqsOf(stack[i])') + 1
  BY DEF IInv, TypeOK, ReqsOf
<1>. QED
  BY <1>1, <1>2, <1>3

\* A throw leaves what was resolved as it is.
LEMMA FailInv ==
  ASSUME IInv, NEW code \in ErrorCode, Fail(code), expanded' = expanded
  PROVE  IInv'
<1>1. UNCHANGED <<request, goal, path, members, stack, selections, edges, reasons>>
  BY DEF Fail, roots, result
<1>2. status' = "failed" /\ error' = code /\ error' # "none"
  BY DEF Fail, ErrorCode
<1>3. TypeOK'
  BY <1>1, <1>2, SameStack DEF IInv, TypeOK, Goal, ReqsOf
<1>4. RootsCovered' /\ Finished'
  BY <1>1, <1>2 DEF IInv, RootsCovered, Covers, Finished
<1>. QED
  BY <1>1, <1>3, <1>4, SameStack DEF IInv

\* A goal is refused.
LEMMA RefuseRootInv ==
  ASSUME IInv, RefuseRoot
  PROVE  IInv'
BY FailInv, RefusalCodeType DEF RefuseRoot, ErrorCode

\* A requirement is refused.
LEMMA RefuseDemandInv ==
  ASSUME IInv, RefuseDemand
  PROVE  IInv'
BY FailInv, RefusalCodeType DEF RefuseDemand

\* Moving on leaves the goal behind the cursor covered: its paths are exhausted.
LEMMA NextGoalInv ==
  ASSUME IInv, NextGoal
  PROVE  IInv'
<1>1. /\ UNCHANGED <<request, status, error, stack, expanded, selections, edges,
                     reasons, members>>
      /\ goal' = goal + 1 /\ path' = 1
      /\ stack = <<>> /\ status = "resolving"
      /\ goal \in 1..Len(request.goals)
      /\ KnownGoal(request, request.goals[goal])
      /\ path > Len(GoalPackages(request, request.goals[goal]))
      /\ IsRequest(request)
  BY DEF NextGoal, AtRoot, Goal, result, IInv, TypeOK
<1>2. Len(request.goals) \in Nat
  BY <1>1, LenProperties DEF IsRequest
<1>3. \A g \in 1..Len(request.goals) : KnownGoal(request, request.goals[g]) =>
        Len(GoalPackages(request, request.goals[g])) \in Nat
  BY <1>1, GoalType, LenProperties
<1>4. TypeOK'
  <2>1. goal' \in 1..(Len(request'.goals) + 1)
    BY <1>1, <1>2
  <2>2. goal' <= Len(request'.goals) /\ KnownGoal(request, request.goals[goal'])
          => path' <= Len(GoalPackages(request, request.goals[goal'])) + 1
    BY <1>1, <1>2, <1>3, <2>1
  <2>. QED
    BY <1>1, <2>1, <2>2, SameStack DEF IInv, TypeOK, Goal, ReqsOf
<1>5. RootsCovered'
  <2> SUFFICES ASSUME NEW g \in 1..Len(request.goals)
      PROVE /\ g < goal' => KnownGoal(request, request.goals[g])
            /\ KnownGoal(request, request.goals[g]) =>
                 \A j \in 1..Len(GoalPackages(request, request.goals[g])) :
                   g < goal' \/ (g = goal' /\ j < path') =>
                     Covers(RootDemand(request, request.goals[g], j),
                            request.goals[g].scope)
    BY <1>1 DEF RootsCovered, Covers
  <2>1. g < goal' => g < goal \/ g = goal
    BY <1>1
  <2>2. g < goal' => KnownGoal(request, request.goals[g])
    BY <1>1, <2>1 DEF IInv, RootsCovered
  <2>3. ASSUME KnownGoal(request, request.goals[g]),
               NEW j \in 1..Len(GoalPackages(request, request.goals[g])),
               g < goal' \/ (g = goal' /\ j < path')
        PROVE  g < goal \/ (g = goal /\ j < path)
    BY <1>1, <1>3, <2>1, <2>3 DEF IInv, TypeOK
  <2>. QED
    BY <2>2, <2>3 DEF IInv, RootsCovered
<1>6. Finished'
  BY <1>1 DEF Finished
<1>. QED
  BY <1>1, <1>4, <1>5, <1>6, SameStack DEF IInv

\* The last goal was expanded.
LEMMA FinishRootsInv ==
  ASSUME IInv, FinishRoots
  PROVE  IInv'
<1>1. /\ UNCHANGED <<request, error, goal, path, stack, expanded, selections, edges,
                     reasons, members>>
      /\ status = "resolving" /\ status' = "resolved" /\ stack = <<>>
      /\ goal > Len(request.goals)
  BY DEF FinishRoots, roots, result
<1>2. IsRequest(request) /\ Len(request.goals) \in Nat
      /\ goal \in 1..(Len(request.goals) + 1)
  BY LenProperties DEF IInv, TypeOK, IsRequest
<1>3. TypeOK'
  BY <1>1, SameStack DEF IInv, TypeOK, Goal, ReqsOf
<1>4. RootsCovered'
  BY <1>1 DEF IInv, RootsCovered, Covers
<1>5. Finished'
  BY <1>1, <1>2 DEF Finished
<1>. QED
  BY <1>1, <1>3, <1>4, <1>5, SameStack DEF IInv

\* The innermost activation and its key.
LEMMA TopType ==
  ASSUME IInv, stack # <<>>
  PROVE  /\ stack \in Seq(Frame)
         /\ Len(stack) \in Nat \ {0}
         /\ Len(stack) \in 1..Len(stack)
         /\ Top \in Frame
         /\ Top.key \in KeysOf(stack)
         /\ BackedKey(request, Top.key)
         /\ Top.key \in Successors(request, expanded)
         /\ Requirements(request, Top.key) \in Seq(Requirement)
         /\ Len(ReqsOf(Top)) \in Nat
<1>1. stack \in Seq(Frame) /\ IsRequest(request)
  BY DEF IInv, TypeOK
<1>2. Len(stack) \in Nat \ {0} /\ Len(stack) \in 1..Len(stack)
  BY <1>1, EmptySeq
<1>3. Top \in Frame
  BY <1>1, <1>2, ElementOfSeq DEF Top
<1>4. Top.key \in KeysOf(stack)
  BY <1>2 DEF KeysOf, Top
<1>5. BackedKey(request, Top.key) /\ Top.key \in Successors(request, expanded)
  BY <1>4 DEF IInv, KeysBacked, CallsSound
<1>6. Requirements(request, Top.key) \in Seq(Requirement)
  BY <1>1, <1>5, RequirementsType
<1>. QED
  BY <1>1, <1>2, <1>3, <1>4, <1>5, <1>6, LenProperties DEF ReqsOf

\* The conjuncts about the cursor over goals, while that cursor rests.
LEMMA RestingCursor ==
  ASSUME IInv, UNCHANGED <<request, status, error, roots>>,
         expanded \cup KeysOf(stack) \subseteq expanded' \cup KeysOf(stack'),
         status = "resolving"
  PROVE  RootsCovered' /\ Finished'
<1>1. UNCHANGED <<request, status, error, goal, path, members>>
  BY DEF roots
<1>2. ASSUME NEW g \in 1..Len(request.goals),
             NEW j \in 1..Len(GoalPackages(request, request.goals[g])),
             Covers(RootDemand(request, request.goals[g], j), request.goals[g].scope)
      PROVE  Covers(RootDemand(request, request.goals[g], j), request.goals[g].scope)'
  BY <1>1, <1>2, CoversKept
<1>3. RootsCovered'
  BY <1>1, <1>2 DEF IInv, RootsCovered, Covers
<1>. QED
  BY <1>1, <1>3 DEF Finished

\* Leaving an activation of expand(), for a memo hit or at the end of its loop.
LEMMA PopInv ==
  ASSUME IInv, status = "resolving", stack # <<>>, stack' = Popped(stack),
         UNCHANGED <<request, status, error, roots, expanded, result>>,
         Top.key \in expanded,
         Top.next = 0 \/ Top.next > Len(ReqsOf(Top))
  PROVE  IInv'
<1>1. /\ stack' \in Seq(Frame)
      /\ Len(stack') = Len(stack) - 1
      /\ \A i \in 1..Len(stack') : stack'[i] = stack[i]
      /\ KeysOf(stack) = KeysOf(stack') \cup {Top.key}
  BY PopStack, TopType DEF Top
<1>2. UNCHANGED <<request, status, error, goal, path, members, expanded, selections,
                  edges, reasons>>
  BY DEF roots, result
<1>3. Len(stack) \in Nat \ {0}
  BY TopType
<1>4. \A i \in 1..Len(stack') : i \in 1..Len(stack)
  BY <1>1, <1>3
<1>5. KeysOf(stack') \subseteq KeysOf(stack)
      /\ expanded \cup KeysOf(stack) \subseteq expanded' \cup KeysOf(stack')
  BY <1>1, <1>2
<1>6. TypeOK'
  BY <1>1, <1>2, <1>4 DEF IInv, TypeOK, Goal, ReqsOf
<1>7. KeysBacked' /\ CallsSound' /\ ExpandedSound'
  BY <1>2, <1>5 DEF IInv, KeysBacked, CallsSound, ExpandedSound
<1>8. RunningExpanded' /\ NoReentry'
  BY <1>1, <1>2, <1>4 DEF IInv, RunningExpanded, NoReentry
<1>9. KeysCovered'
  <2> SUFFICES ASSUME NEW k \in expanded, NEW j \in 1..Len(Requirements(request, k))
      PROVE  Awaits(k, j)' \/ Covers(RequirementDemand(request, k, j), "run")'
    BY <1>2 DEF KeysCovered, Awaits, Covers
  <2>1. CASE Covers(RequirementDemand(request, k, j), "run")
    BY <1>2, <1>5, <2>1, CoversKept
  <2>2. CASE Awaits(k, j)
    <3>1. PICK i \in 1..Len(stack) :
            stack[i].key = k /\ stack[i].next > 0 /\ stack[i].next <= j
      BY <2>2 DEF Awaits
    <3>2. CASE i = Len(stack)
      <4>1. Top.key = k /\ Top.next > 0 /\ Top.next <= j
        BY <3>1, <3>2 DEF Top
      <4>2. j <= Len(ReqsOf(Top)) /\ Top.next \in Nat /\ Len(ReqsOf(Top)) \in Nat
        BY <4>1, TopType DEF ReqsOf, Frame
      <4>. QED
        BY <4>1, <4>2
    <3>3. CASE i # Len(stack)
      <4>1. i \in 1..Len(stack') /\ stack'[i] = stack[i]
        BY <1>1, <1>3, <3>3
      <4>. QED
        BY <3>1, <4>1 DEF Awaits
    <3>. QED
      BY <3>2, <3>3
  <2>. QED
    BY <2>1, <2>2 DEF IInv, KeysCovered
<1>. QED
  BY <1>5, <1>6, <1>7, <1>8, <1>9, RestingCursor DEF IInv

\* A key met again returns at once.
LEMMA SkipInv ==
  ASSUME IInv, Skip
  PROVE  IInv'
BY PopInv DEF Skip, Called

\* All requirements of the key were followed.
LEMMA ReturnInv ==
  ASSUME IInv, Return
  PROVE  IInv'
<1>1. /\ status = "resolving" /\ stack # <<>> /\ Top.next > 0
      /\ Top.next > Len(ReqsOf(Top)) /\ stack' = Popped(stack)
      /\ UNCHANGED <<request, status, error, roots, expanded, result>>
  BY DEF Return, Serving
<1>2. Top.key \in expanded
  BY <1>1, TopType DEF IInv, RunningExpanded, Top
<1>. QED
  BY <1>1, <1>2, PopInv

\* A throw would be reached only by a key that cannot supply its scope.
LEMMA EnterInv ==
  ASSUME IInv, Enter
  PROVE  IInv'
<1>1. status = "resolving" /\ stack # <<>> /\ Top.next = 0 /\ Top.key \notin expanded
  BY DEF Enter, Called
<1>2. Supplies(Top.key.selection, Top.key.scope)
  BY <1>1, TopType DEF BackedKey
<1>3. /\ stack' = Advanced(stack)
      /\ expanded' = expanded \cup {Top.key}
      /\ UNCHANGED <<request, status, error, roots, result>>
  BY <1>2 DEF Enter
<1>4. UNCHANGED <<request, status, error, goal, path, members, selections, edges, reasons>>
  BY <1>3 DEF roots, result
<1>5. Top.key \in Key /\ Len(stack) \in Nat \ {0} /\ stack \in Seq(Frame)
  BY <1>1, TopType DEF BackedKey
<1>6. /\ stack' \in Seq(Frame)
      /\ Len(stack') = Len(stack)
      /\ \A i \in 1..Len(stack) : stack'[i].key = stack[i].key
      /\ \A i \in 1..(Len(stack) - 1) : stack'[i] = stack[i]
      /\ stack'[Len(stack)].next = 1
      /\ KeysOf(stack') = KeysOf(stack)
  BY <1>1, <1>3, <1>5, AdvanceStack DEF Top
<1>7. \A i \in 1..Len(stack) : i = Len(stack) \/ i \in 1..(Len(stack) - 1)
  BY <1>5
<1>8. expanded \cup KeysOf(stack) \subseteq expanded' \cup KeysOf(stack')
  BY <1>3, <1>6
<1>9. TypeOK'
  <2>1. ASSUME NEW i \in 1..Len(stack)
        PROVE  stack'[i].next <= Len(Requirements(request, stack'[i].key)) + 1
    <3>1. CASE i = Len(stack)
      BY <1>1, <1>6, <3>1, TopType DEF ReqsOf, Top
    <3>2. CASE i \in 1..(Len(stack) - 1)
      BY <1>6, <3>2 DEF IInv, TypeOK, ReqsOf
    <3>. QED
      BY <1>7, <3>1, <3>2
  <2>. QED
    BY <1>3, <1>4, <1>5, <1>6, <2>1 DEF IInv, TypeOK, Goal, ReqsOf
<1>10. KeysBacked'
  BY <1>1, <1>3, <1>4, <1>6, TopType DEF IInv, KeysBacked
<1>11. RunningExpanded'
  BY <1>3, <1>6, <1>7 DEF IInv, RunningExpanded, Top
<1>12. NoReentry'
  <2>1. \A i \in 1..(Len(stack) - 1) : stack'[i].next > 0 =>
          stack'[i].key # stack'[Len(stack)].key
    BY <1>1, <1>5, <1>6 DEF IInv, RunningExpanded, Top
  <2>2. \A i, j \in 1..(Len(stack) - 1) :
          stack'[i].next > 0 /\ stack'[j].next > 0 /\ stack'[i].key = stack'[j].key
            => i = j
    BY <1>5, <1>6 DEF IInv, NoReentry
  <2>. QED
    BY <1>5, <1>6, <1>7, <2>1, <2>2 DEF NoReentry
<1>13. CallsSound'
  BY <1>3, <1>4, <1>6, SuccessorsMonotone DEF IInv, CallsSound
<1>14. ExpandedSound'
  <2> SUFFICES ASSUME NEW C \in SUBSET expanded',
                      Successors(request, C) \cap expanded' \subseteq C
      PROVE  C = expanded'
    BY <1>4 DEF ExpandedSound
  <2> DEFINE D == C \cap expanded
  <2>1. Successors(request, D) \subseteq Successors(request, C)
    BY SuccessorsMonotone
  <2>2. Successors(request, D) \cap expanded \subseteq D
    BY <1>3, <2>1
  <2>3. D = expanded
    BY <2>2 DEF IInv, ExpandedSound
  <2>4. Top.key \in Successors(request, C)
    BY <1>1, <2>1, <2>3, TopType
  <2>. QED
    BY <1>3, <2>3, <2>4
<1>15. KeysCovered'
  <2> SUFFICES ASSUME NEW k \in expanded', NEW j \in 1..Len(Requirements(request, k))
      PROVE  Awaits(k, j)' \/ Covers(RequirementDemand(request, k, j), "run")'
    BY <1>4 DEF KeysCovered, Awaits, Covers
  <2>1. CASE k = Top.key
    <3>1. stack'[Len(stack)].key = k /\ stack'[Len(stack)].next = 1 /\ 1 <= j
          /\ Len(stack) \in 1..Len(stack')
      BY <1>5, <1>6, <2>1 DEF Top
    <3>. QED
      BY <3>1 DEF Awaits
  <2>2. CASE k \in expanded /\ Covers(RequirementDemand(request, k, j), "run")
    BY <1>4, <1>8, <2>2, CoversKept
  <2>3. CASE k \in expanded /\ Awaits(k, j)
    <3>1. PICK i \in 1..Len(stack) :
            stack[i].key = k /\ stack[i].next > 0 /\ stack[i].next <= j
      BY <2>3 DEF Awaits
    <3>2. i \in 1..(Len(stack) - 1)
      BY <1>1, <1>7, <3>1 DEF Top
    <3>. QED
      BY <1>6, <3>1, <3>2 DEF Awaits
  <2>. QED
    BY <1>3, <2>1, <2>2, <2>3 DEF IInv, KeysCovered
<1>. QED
  BY <1>1, <1>3, <1>8, <1>9, <1>10, <1>11, <1>12, <1>13, <1>14, <1>15, RestingCursor
  DEF IInv

\* One turn of the loop: the requirement behind the new cursor is covered by the
\* calls it makes, and nothing else changes its place.
LEMMA DemandNextInv ==
  ASSUME IInv, DemandNext
  PROVE  IInv'
<1> DEFINE n == Len(stack)
           d == RequirementDemand(request, Top.key, Top.next)
           s == Select(request, d)
<1>1. /\ status = "resolving" /\ stack # <<>> /\ Top.next > 0
      /\ Top.next <= Len(ReqsOf(Top))
      /\ ~ Refused(request, d)
      /\ UNCHANGED <<request, status, error, roots, expanded>>
  BY DEF DemandNext, Serving
<1>2. UNCHANGED <<request, status, error, goal, path, members, expanded>>
  BY <1>1 DEF roots
<1>3. /\ selections' = selections \cup {s}
      /\ edges' = edges \cup {EdgeFor(request, Top.key, Top.next)}
      /\ reasons' = reasons \cup {EdgeReason(EdgeFor(request, Top.key, Top.next))}
      /\ stack' = Advanced(stack) \o Calls(s, "run")
  BY DEF DemandNext, AddEdge, FollowUp, EdgeFor
<1>4. n \in Nat \ {0} /\ n \in 1..n /\ stack \in Seq(Frame) /\ IsRequest(request)
      /\ Top \in Frame /\ BackedKey(request, Top.key) /\ Top.key \in Key
      /\ Top.key \in expanded
  BY <1>1, TopType DEF IInv, TypeOK, RunningExpanded, Top, BackedKey
<1>5. Top.next \in 1..Len(Requirements(request, Top.key))
  BY <1>1, <1>4, TopType DEF ReqsOf, Frame
<1>6. d \in Demand
  BY <1>4, <1>5, RequirementDemandType
<1>7. s \in Selection
  BY <1>6, SelectType
<1>8. \A e \in Expansions(s, "run") :
        BackedKey(request, e) /\ e \in Successors(request, expanded)
  BY <1>1, <1>4, <1>5, RequirementExpansions DEF Successors
<1>11. /\ stack' \in Seq(Frame)
       /\ Len(stack') \in Nat /\ n <= Len(stack')
       /\ KeysOf(stack') = KeysOf(stack) \cup Expansions(s, "run")
       /\ \A i \in 1..(n - 1) : stack'[i] = stack[i]
       /\ stack'[n].key = Top.key /\ stack'[n].next = Top.next + 1
       /\ \A i \in (n + 1)..Len(stack') : stack'[i].next = 0
  <2> HIDE DEF s, d
  <2>1. stack[n] = Top
    BY DEF Top
  <2>. QED
    BY <1>1, <1>3, <1>4, <1>7, <2>1, DemandStack
<1>12. /\ \A i \in 1..Len(stack') :
            i \in 1..(n - 1) \/ i = n \/ i \in (n + 1)..Len(stack')
       /\ n \in 1..Len(stack') /\ \A i \in 1..(n - 1) : i \in 1..n /\ i \in 1..Len(stack')
  BY <1>4, <1>11
<1>13. expanded \cup KeysOf(stack) \subseteq expanded' \cup KeysOf(stack')
  BY <1>2, <1>11
<1>14. KeysBacked'
  BY <1>2, <1>8, <1>11 DEF IInv, KeysBacked
<1>15. TypeOK'
  <2>1. ASSUME NEW i \in 1..Len(stack')
        PROVE  stack'[i].next <= Len(Requirements(request, stack'[i].key)) + 1
    <3>1. CASE i \in 1..(n - 1)
      <4>1. i \in 1..n /\ stack'[i] = stack[i]
        BY <1>11, <1>12, <3>1
      <4>2. \A m \in 1..n : stack[m].next <= Len(Requirements(request, stack[m].key)) + 1
        BY DEF IInv, TypeOK, ReqsOf
      <4>. QED
        BY <4>1, <4>2, Zenon
    <3>2. CASE i = n
      BY <1>1, <1>4, <1>5, <1>11, <3>2, TopType DEF ReqsOf, Frame
    <3>3. CASE i \in (n + 1)..Len(stack')
      <4>1. stack'[i] \in Frame /\ stack'[i].key \in KeysOf(stack')
        BY <1>11, ElementOfSeq DEF KeysOf
      <4>2. BackedKey(request, stack'[i].key)
        BY <1>2, <1>14, <4>1 DEF KeysBacked
      <4>3. Len(Requirements(request, stack'[i].key)) \in Nat
        BY <1>4, <4>2, RequirementsType, LenProperties
      <4>. QED
        BY <1>11, <3>3, <4>3
    <3>. QED
      BY <1>12, <3>1, <3>2, <3>3
  <2>2. EdgeFor(request, Top.key, Top.next) \in Edge
    BY <1>4, <1>6, <1>7 DEF EdgeFor, Edge, Key, Demand, Selection
  <2>3. EdgeReason(EdgeFor(request, Top.key, Top.next)) \in Reason
    <3>1. ReasonForScope(Top.key.scope) \in ReasonKind
      BY DEF ReasonForScope, ReasonKind
    <3>. QED
      BY <1>4, <1>7, <3>1 DEF EdgeReason, EdgeFor, Reason, Key
  <2>4. stack' \in Seq(Frame)
    BY <1>11
  <2>. QED
    BY <1>2, <1>3, <1>7, <2>1, <2>2, <2>3, <2>4 DEF IInv, TypeOK, Goal, ReqsOf
<1>16. RunningExpanded'
  <2> SUFFICES ASSUME NEW i \in 1..Len(stack'), stack'[i].next > 0
      PROVE  stack'[i].key \in expanded
    BY <1>2 DEF RunningExpanded
  <2>1. CASE i \in 1..(n - 1)
    BY <1>11, <1>12, <2>1 DEF IInv, RunningExpanded
  <2>2. CASE i = n
    BY <1>4, <1>11, <2>2
  <2>3. CASE i \in (n + 1)..Len(stack')
    BY <1>11, <2>3
  <2>. QED
    BY <1>12, <2>1, <2>2, <2>3
<1>17. NoReentry'
  <2> SUFFICES ASSUME NEW i \in 1..Len(stack'), NEW j \in 1..Len(stack'),
                      stack'[i].next > 0, stack'[j].next > 0,
                      stack'[i].key = stack'[j].key
      PROVE  i = j
    BY DEF NoReentry
  <2>0. \A m \in 1..Len(stack') : stack'[m].next > 0 => ~ (m \in (n + 1)..Len(stack'))
    BY <1>11, NotRunning, Zenon
  <2>1. i \in 1..n /\ j \in 1..n
    BY <1>4, <1>12, <2>0
  <2>2. \A m \in 1..n : stack'[m].next > 0 =>
          stack[m].next > 0 /\ stack[m].key = stack'[m].key
    <3> SUFFICES ASSUME NEW m \in 1..n
        PROVE  stack'[m].next > 0 => stack[m].next > 0 /\ stack[m].key = stack'[m].key
      OBVIOUS
    <3>1. CASE m = n
      <4>1. stack[n] = Top /\ stack'[n].key = Top.key /\ Top.next > 0
        BY <1>1, <1>11 DEF Top
      <4>. QED
        BY <3>1, <4>1
    <3>2. CASE m # n
      <4>1. m \in 1..(n - 1)
        BY <1>4, <3>2
      <4>. QED
        BY <1>11, <4>1
    <3>. QED
      BY <3>1, <3>2
  <2>. QED
    BY <2>1, <2>2 DEF IInv, NoReentry
<1>18. CallsSound' /\ ExpandedSound'
  BY <1>2, <1>8, <1>11 DEF IInv, CallsSound, ExpandedSound
<1>19. KeysCovered'
  <2> SUFFICES ASSUME NEW k \in expanded, NEW j \in 1..Len(Requirements(request, k))
      PROVE  Awaits(k, j)' \/ Covers(RequirementDemand(request, k, j), "run")'
    BY <1>2 DEF KeysCovered, Awaits, Covers
  <2>1. CASE Covers(RequirementDemand(request, k, j), "run")
    BY <1>2, <1>13, <2>1, CoversKept
  <2>2. CASE Awaits(k, j)
    <3>1. PICK i \in 1..n : stack[i].key = k /\ stack[i].next > 0 /\ stack[i].next <= j
      BY <2>2 DEF Awaits
    <3>2. CASE i # n
      <4>1. i \in 1..(n - 1)
        BY <1>4, <3>2
      <4>. QED
        BY <1>11, <1>12, <3>1, <4>1 DEF Awaits
    <3>3. CASE i = n /\ j = Top.next
      <4>1. Top.key = k
        BY <3>1, <3>3 DEF Top
      <4>2. /\ ~ Refused(request, RequirementDemand(request, k, j))
            /\ Expansions(Select(request, RequirementDemand(request, k, j)), "run")
                 \subseteq KeysOf(stack')
        BY <1>1, <1>11, <3>3, <4>1
      <4>. QED
        BY <1>2, <4>2 DEF Covers
    <3>4. CASE i = n /\ j # Top.next
      <4>1. Top.key = k /\ Top.next <= j /\ Top.next + 1 <= j
        BY <1>5, <3>1, <3>4 DEF Top
      <4>. QED
        BY <1>1, <1>5, <1>11, <1>12, <4>1 DEF Awaits
    <3>. QED
      BY <3>2, <3>3, <3>4
  <2>. QED
    BY <2>1, <2>2 DEF IInv, KeysCovered
<1>. QED
  BY <1>1, <1>13, <1>14, <1>15, <1>16, <1>17, <1>18, <1>19, RestingCursor DEF IInv

\* One path of a goal: the demand behind the new cursor is covered by its calls.
LEMMA SelectRootInv ==
  ASSUME IInv, SelectRoot
  PROVE  IInv'
<1> DEFINE d == RootDemand(request, Goal, path)
           s == Select(request, d)
<1>1. /\ status = "resolving" /\ stack = <<>>
      /\ goal \in 1..Len(request.goals) /\ IsRequest(request)
      /\ KnownGoal(request, Goal)
      /\ path \in 1..Len(GoalPackages(request, Goal))
      /\ Goal = request.goals[goal]
  <2>1. /\ status = "resolving" /\ stack = <<>> /\ goal <= Len(request.goals)
        /\ KnownGoal(request, Goal) /\ path <= Len(GoalPackages(request, Goal))
    BY DEF SelectRoot, AtRoot
  <2>2. IsRequest(request) /\ goal \in 1..(Len(request.goals) + 1) /\ path \in Nat \ {0}
    BY DEF IInv, TypeOK
  <2>3. Len(request.goals) \in Nat
    BY <2>2, LenProperties DEF IsRequest
  <2>4. goal \in 1..Len(request.goals) /\ Goal = request.goals[goal]
    BY <2>1, <2>2, <2>3 DEF Goal
  <2>5. Len(GoalPackages(request, Goal)) \in Nat
    BY <2>1, <2>2, <2>4, GoalType, LenProperties
  <2>. QED
    BY <2>1, <2>2, <2>4, <2>5
<1>2. /\ ~ Refused(request, d)
      /\ selections' = selections \cup {s}
      /\ members' = [members EXCEPT ![goal] = @ \cup
           {[selection |-> s, path |-> IF Goal.kind = "package" THEN 0 ELSE path]}]
      /\ reasons' = reasons \cup {RootReason(request, Goal, path)}
      /\ stack' = Calls(s, Goal.scope)
      /\ path' = path + 1
      /\ UNCHANGED <<request, status, error, goal, expanded, edges>>
  BY DEF SelectRoot
<1>3. Goal \in ResolutionGoal /\ Goal.scope \in Scope /\ Goal.kind \in {"package", "profile"}
      /\ Len(GoalPackages(request, Goal)) \in Nat
  BY <1>1, GoalType, LenProperties
<1>4. s \in Selection
  BY <1>1, RootDemandType, SelectType
<1>5. \A e \in Expansions(s, Goal.scope) :
        BackedKey(request, e) /\ e \in Successors(request, expanded)
  BY <1>1, <1>2, RootExpansions DEF Successors
<1>6. /\ stack' \in Seq(Frame)
      /\ \A i \in 1..Len(stack') : stack'[i].next = 0
      /\ KeysOf(stack') = Expansions(s, Goal.scope)
  BY <1>2, <1>3, <1>4, CallsStack
<1>7. KeysOf(stack) = {} /\ Len(stack) = 0
  BY <1>1, EmptySeq DEF KeysOf
<1>8. expanded \cup KeysOf(stack) \subseteq expanded' \cup KeysOf(stack')
  BY <1>2, <1>7
<1>9. KeysBacked' /\ CallsSound' /\ ExpandedSound'
  <2> HIDE DEF s
  <2>1. KeysBacked'
    <3>1. KeysBacked
      BY DEF IInv
    <3>. QED
      BY <1>2, <1>5, <1>6, <3>1 DEF KeysBacked
  <2>2. CallsSound'
    BY <1>2, <1>5, <1>6 DEF CallsSound
  <2>3. ExpandedSound'
    BY <1>2 DEF IInv, ExpandedSound
  <2>. QED
    BY <2>1, <2>2, <2>3
<1>10. RunningExpanded' /\ NoReentry'
  <2>. QED
    BY <1>6, NotRunning, Zenon DEF RunningExpanded, NoReentry
<1>11. TypeOK'
  <2>1. ASSUME NEW i \in 1..Len(stack')
        PROVE  stack'[i].next <= Len(Requirements(request, stack'[i].key)) + 1
    <3>1. BackedKey(request, stack'[i].key)
      BY <1>5, <1>6 DEF KeysOf
    <3>2. Len(Requirements(request, stack'[i].key)) \in Nat
      BY <1>1, <3>1, RequirementsType, LenProperties
    <3>. QED
      BY <1>6, <3>2
  <2>2. members' \in [1..Len(request.goals) -> SUBSET Member]
    <3>1. [selection |-> s, path |-> IF Goal.kind = "package" THEN 0 ELSE path] \in Member
      BY <1>1, <1>3, <1>4 DEF Member
    <3>2. members \in [1..Len(request.goals) -> SUBSET Member]
      BY <1>1 DEF IInv, TypeOK
    <3>3. members[goal] \cup
            {[selection |-> s, path |-> IF Goal.kind = "package" THEN 0 ELSE path]}
              \in SUBSET Member
      BY <1>1, <3>1, <3>2
    <3>. QED
      BY <1>1, <1>2, <3>2, <3>3
  <2>3. RootReason(request, Goal, path) \in Reason
    BY <1>3, <1>4 DEF RootReason, Reason, ReasonKind, ResolutionGoal
  <2>4. path' \in Nat \ {0} /\ path' <= Len(GoalPackages(request, Goal)) + 1
    BY <1>1, <1>2, <1>3
  <2>. QED
    BY <1>1, <1>2, <1>4, <1>6, <2>1, <2>2, <2>3, <2>4 DEF IInv, TypeOK, Goal, ReqsOf
<1>12. KeysCovered'
  <2> SUFFICES ASSUME NEW k \in expanded, NEW j \in 1..Len(Requirements(request, k))
      PROVE  Covers(RequirementDemand(request, k, j), "run")'
    BY <1>2 DEF KeysCovered, Awaits, Covers
  <2>1. ~ Awaits(k, j)
    BY <1>7 DEF Awaits
  <2>. QED
    BY <1>2, <1>8, <2>1, CoversKept DEF IInv, KeysCovered
<1>13. RootsCovered'
  <2> SUFFICES ASSUME NEW g \in 1..Len(request.goals)
      PROVE /\ g < goal => KnownGoal(request, request.goals[g])
            /\ KnownGoal(request, request.goals[g]) =>
                 \A j \in 1..Len(GoalPackages(request, request.goals[g])) :
                   g < goal \/ (g = goal /\ j < path') =>
                     Covers(RootDemand(request, request.goals[g], j),
                            request.goals[g].scope)'
    BY <1>2 DEF RootsCovered, Covers
  <2>1. g < goal => KnownGoal(request, request.goals[g])
    BY DEF IInv, RootsCovered
  <2>2. ASSUME KnownGoal(request, request.goals[g]),
               NEW j \in 1..Len(GoalPackages(request, request.goals[g])),
               g < goal \/ (g = goal /\ j < path')
        PROVE  Covers(RootDemand(request, request.goals[g], j), request.goals[g].scope)'
    <3>1. CASE g < goal \/ (g = goal /\ j < path)
      <4>1. Covers(RootDemand(request, request.goals[g], j), request.goals[g].scope)
        BY <2>2, <3>1 DEF IInv, RootsCovered
      <4>. QED
        BY <1>2, <1>8, <4>1, CoversKept
    <3>2. CASE g = goal /\ j = path
      <4>1. /\ ~ Refused(request, RootDemand(request, request.goals[g], j))
            /\ Expansions(Select(request, RootDemand(request, request.goals[g], j)),
                          request.goals[g].scope) \subseteq KeysOf(stack')
        BY <1>1, <1>2, <1>6, <3>2
      <4>. QED
        BY <1>2, <4>1 DEF Covers
    <3>3. j \in Nat /\ path \in Nat /\ path' = path + 1 /\ (j < path' => j < path \/ j = path)
      BY <1>1, <1>2, <2>2, GoalType, LenProperties
    <3>. QED
      BY <2>2, <3>1, <3>2, <3>3
  <2>. QED
    BY <2>1, <2>2
<1>14. Finished'
  BY <1>1, <1>2 DEF Finished
<1>. QED
  BY <1>9, <1>10, <1>11, <1>12, <1>13, <1>14 DEF IInv

\* Nothing changes.
LEMMA StutterInv ==
  ASSUME IInv, UNCHANGED vars
  PROVE  IInv'
<1>1. UNCHANGED <<request, status, error, goal, path, stack, expanded, selections,
                  edges, reasons, members>>
  BY DEF vars
<1>2. TypeOK'
  BY <1>1, SameStack DEF IInv, TypeOK, Goal, ReqsOf
<1>3. RootsCovered' /\ Finished'
  BY <1>1 DEF IInv, RootsCovered, Covers, Finished
<1>. QED
  BY <1>1, <1>2, <1>3, SameStack DEF IInv

\* The invariant is inductive.
LEMMA InductiveStep == IInv /\ [Next]_vars => IInv'
BY SelectRootInv, RefuseRootInv, NextGoalInv, FinishRootsInv, EnterInv, SkipInv,
   DemandNextInv, RefuseDemandInv, ReturnInv, StutterInv DEF Next

\* It holds of every state of the engine.
THEOREM Inductive == Spec => []IInv
BY InitInv, InductiveStep, PTL DEF Spec

-----------------------------------------------------------------------------
(***************************************************************************)
(* The results.                                                            *)
(***************************************************************************)

\* The engine keeps its types: in particular the cursors never leave the request.
THEOREM TypeCorrect == Spec => []TypeOK
<1>1. IInv => TypeOK
  BY DEF IInv
<1>. QED
  BY <1>1, Inductive, PTL

\* No two running activations of expand() serve the same key, for any request:
\* a requirement cycle ends, and the recursion is no deeper than the memo.
THEOREM NeverReentered == Spec => []NoReentry
<1>1. IInv => NoReentry
  BY DEF IInv
<1>. QED
  BY <1>1, Inductive, PTL

\* A resolution that succeeds has expanded the least closed set of keys, whatever
\* the requirement graph, the authorities, the policy and the goals.
LEMMA LeastClosureWhenResolved == IInv => LeastClosure
<1> SUFFICES ASSUME IInv, status = "resolved" PROVE LeastClosure
  BY DEF LeastClosure
<1>1. stack = <<>> /\ goal = Len(request.goals) + 1
  BY DEF IInv, Finished
<1>2. IsRequest(request) /\ Len(request.goals) \in Nat
  BY LenProperties DEF IInv, TypeOK, IsRequest
<1>3. Len(stack) = 0 /\ KeysOf(stack) = {}
  BY <1>1, EmptySeq DEF KeysOf
<1>4. RootKeys(request) \subseteq expanded
  <2> SUFFICES ASSUME NEW i \in 1..Len(request.goals),
                      KnownGoal(request, request.goals[i]),
                      NEW j \in 1..Len(GoalPackages(request, request.goals[i]))
      PROVE  Expansions(Select(request, RootDemand(request, request.goals[i], j)),
                        request.goals[i].scope) \subseteq expanded
    BY DEF RootKeys, GoalKeys
  <2>1. i < goal
    BY <1>1, <1>2
  <2>2. Covers(RootDemand(request, request.goals[i], j), request.goals[i].scope)
    BY <2>1 DEF IInv, RootsCovered
  <2>. QED
    BY <1>3, <2>2 DEF Covers
<1>5. \A k \in expanded : Children(request, k) \subseteq expanded
  <2> SUFFICES ASSUME NEW k \in expanded, NEW j \in 1..Len(Requirements(request, k))
      PROVE  Expansions(Select(request, RequirementDemand(request, k, j)), "run")
               \subseteq expanded
    BY DEF Children
  <2>1. ~ Awaits(k, j)
    BY <1>3 DEF Awaits
  <2>2. Covers(RequirementDemand(request, k, j), "run")
    BY <2>1 DEF IInv, KeysCovered
  <2>. QED
    BY <1>3, <2>2 DEF Covers
<1>6. Closed(request, expanded)
  BY <1>4, <1>5 DEF Closed, Successors
<1>7. ASSUME NEW C \in SUBSET expanded, RootKeys(request) \subseteq C,
             \A k \in C : Children(request, k) \subseteq C
      PROVE  C = expanded
  <2>1. Successors(request, C) \subseteq C
    BY <1>7 DEF Successors
  <2>. QED
    BY <2>1 DEF IInv, ExpandedSound
<1>. QED
  BY <1>6, <1>7 DEF LeastClosure

(***************************************************************************)
(* What a finished resolution expanded is the least set of keys that holds *)
(* the keys of the goals and, with a key, those of its requirements.       *)
(***************************************************************************)
THEOREM ResolvesLeastClosure == Spec => []LeastClosure
BY Inductive, LeastClosureWhenResolved, PTL
=============================================================================
