-------------------------------- MODULE Calls --------------------------------
(***************************************************************************)
(* A program that calls resolve() of src/resolver.cpp repeatedly, each     *)
(* time with any sealed request, and keeps what it returned or threw.      *)
(*                                                                         *)
(* Every call has an engine of its own.  The digests that order a result   *)
(* depend on the request too: only the vectors of one request may be       *)
(* compared as vectors, those of different requests as sets.               *)
(***************************************************************************)
EXTENDS Assembly

CONSTANT MaxCalls   \* bound on the calls remembered

VARIABLE answers    \* what finished calls were asked and what each came to

calls_vars == <<assembly_vars, answers>>

Answer(r, o) == [request |-> r, outcome |-> o]

CallsInit == AssemblyInit /\ answers = {}

InCall == AssemblyNext /\ UNCHANGED answers

\* engine(request): everything but the memo starts empty.
StartEngine(memo) ==
  /\ request' \in Requests
  /\ status' = "resolving"
  /\ error' = "none"
  /\ goal' = 1
  /\ path' = 1
  /\ stack' = <<>>
  /\ expanded' = memo
  /\ selections' = {}
  /\ edges' = {}
  /\ reasons' = {}
  /\ members' = [i \in 1..Len(request'.goals) |-> {}]
  /\ walking' = FALSE
  /\ queue' = {}
  /\ selected' = {}
  /\ reached' = {}
  /\ closures' = <<>>
  /\ edge_log' = <<>>
  /\ reason_log' = <<>>
  /\ outcome' = None

NextCallWith(memo) ==
  /\ outcome # None
  /\ Cardinality(answers) < MaxCalls
  /\ answers' = answers \cup {Answer(request, outcome)}
  /\ StartEngine(memo)

\* Variant for the mutation runs: the memo outlives the call.
NextCallKeepingMemo == NextCallWith(expanded)

NextCall == NextCallWith({})

CallsNext == InCall \/ NextCall

CallsSpec == CallsInit /\ [][CallsNext]_calls_vars

-----------------------------------------------------------------------------
\* The answers known so far, that of the call at hand included.
Answered == answers \cup IF outcome = None THEN {} ELSE {Answer(request, outcome)}

Resolves(a) == a.outcome.kind = "result"

Unidentified == [kind |-> "error", code |-> "identity_failed"]

(***************************************************************************)
(* resolve() is deterministic (README.md): the orders that are free, that  *)
(* in which a closure is walked above all, do not show in the result.  As  *)
(* each call has an engine of its own, none leaves a trace in a later one. *)
(* A request that was resolved once gets the same result ever after,       *)
(* unless an identity cannot be taken.                                     *)
(***************************************************************************)
AnswersRepeat ==
  \A a, b \in Answered :
    a.request = b.request /\ Resolves(a) => b.outcome \in {a.outcome, Unidentified}

\* Two requests that differ in their goals at most, the second with all of the first.
AsksWithin(r, s) ==
  /\ r.catalog = s.catalog /\ r.installed = s.installed /\ r.profiles = s.profiles
  /\ r.build = s.build /\ r.target = s.target /\ r.preference = s.preference
  /\ \A i \in 1..Len(r.goals) : \E j \in 1..Len(s.goals) : r.goals[i] = s.goals[j]

(***************************************************************************)
(* Goals do not disturb each other, although they share the memo, the      *)
(* selections and the edges: with further goals a request can only get a   *)
(* larger result.  If it is resolved with them it is without them, and all *)
(* that was selected, required, given as reason or held by the closure of  *)
(* a goal still is.                                                        *)
(***************************************************************************)
GoalsOnlyAdd ==
  \A a, b \in Answered :
    AsksWithin(a.request, b.request) /\ Resolves(b) /\ a.outcome # Unidentified =>
      /\ Resolves(a)
      /\ Elements(a.outcome.selections) \subseteq Elements(b.outcome.selections)
      /\ Elements(a.outcome.edges) \subseteq Elements(b.outcome.edges)
      /\ Elements(a.outcome.reasons) \subseteq Elements(b.outcome.reasons)
      /\ \A i \in 1..Len(a.request.goals), j \in 1..Len(b.request.goals) :
           a.request.goals[i] = b.request.goals[j] =>
             /\ a.outcome.goals[i].selections \subseteq b.outcome.goals[j].selections
             /\ a.outcome.goals[i].edges \subseteq b.outcome.goals[j].edges
=============================================================================
