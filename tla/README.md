# TLA+ verification of libpkgresolve

libpkgresolve turns a sealed request (a source catalog, installed state,
goals, an architecture context and a policy) into a sealed result: the
selected packages, the requirement edges between them, the reasons each was
selected, and one closure per goal. It is one deterministic, single-threaded
computation without I/O or persistent state. What is hard in it is not
concurrency but a mutually recursive, memoised depth-first expansion of a
cyclic graph. Several goals share one memo and one edge list, refusals may come
in the middle of it, and the authority and the environment of each package
depend on the path by which it is demanded.

Paths below are relative to the repository.

## 1. Inventory

| Component | Code | State | Operations | Interacts with |
|---|---|---|---|---|
| Selection rules | `src/resolver.cpp` 21-283, 353-446; `src/model.cpp` 64-73 | none (reads the request; `selections_` caches) | `select`, `candidate_compatible`, `installed_compatible`, `find_candidate`, `convert_release`, `dependency_environment`, `root_requirement`, `fail_unavailable` | catalog, installed state, policy |
| Expansion engine | `src/resolver.cpp` 287-298, 448-580 | `selections_`, `expanded_`, `edges_`, `reasons_`, the C++ call stack | `resolve_goal`, `expand_construction`, `expand`, `add_edge` | selection rules; its edges feed goal closure |
| Goal closure | `src/resolver.cpp` 582-629 | local `queue`, `selected_ids`, `edge_ids` | `make_goal`, once per goal after all goals are resolved | reads `edges_` of the whole resolution |
| Result assembly and queries | `src/resolver.cpp` 300-349; `src/result.cpp` | the vectors `edges_`, `reasons_`; the result is immutable | witness constructors; sort, deduplicate, hash; `find`, `reasons_for`, `edges_for_scope` | identities |
| Request sealing | `src/request.cpp` | the caller's goals and policy; the request is immutable | `resolution_request::seal` | identities, catalog, installed state |
| Model values | `src/model.cpp` | immutable | constructors that refuse unsupported values; comparisons | all |
| Identities | `src/identity.cpp`, `src/identity_support.cpp`; the preimages in `src/request.cpp` and `src/resolver.cpp` | writer: a digest context owned by hand | `text`, `number`, `boolean`, `finish`, destruction, `from_sha256` | OpenSSL |
| Errors | `src/error.cpp` | immutable | codes thrown by the above | caller |
| Source, catalog, state libraries | not in the repository | sealed values | queries | request, engine |
| Build files, contract scripts, manuals | `meson.build`, `tests/`, `man/` | none | none | none |

Behaviours that are hard, and what makes each component correct:

* **Selection**: a need (flexible, candidate required, installed required)
  belongs to the root only; compatibility filters before policy orders; a
  foreign installed release is an error, never a fallback, and so is a requirement
  that names no origin, of which no witness can be made. Correct when every
  selection is explained by policy or by a root
  (`AuthorityByPolicy`), construction never crosses into the target
  environment (`EnvironmentSeparation`), and the throw for construction from
  installed state is unreachable, so that `inconsistent_authority` always reports what
  a sealed input itself holds (`ConstructionFromCatalog`).
* **Expansion**: the memo is written *before* the requirements are walked, and a
  hit contributes nothing, so a cycle, a package required twice and a goal
  resolved after another all depend on what somebody else records. Correct when
  it terminates, computes the least closure and loses neither edge nor
  reason (`Termination`, `NoReentry`, `LeastClosure`, `ResultExact`,
  `Explained`), when a failure is due to a demand really refused
  (`FailureJustified`), and when the outcome is one an order-free description
  permits (`ImplementsContract`).
* **Goal closure**: the queue grows while it is iterated, and the walk sees the
  edges of all goals. Correct when it is exact for the graph it is given
  (`ClosuresExact`, `AllClosed`) and complete for the goal although the memo
  suppressed part of its expansion (`GoalComplete`).
* **Result**: no dangling reference and no orphan (`ResultClosed`,
  `EveryPartOwned`). Reasons are recorded once per path, edges once per
  requirement, both are deduplicated apart and a caller queries them apart. Correct
  when the vectors are canonical and lose nothing (`ResultCanonical`) and the three
  queries tell one story (`QueriesAgree`). Edges need no deduplication
  (`EdgesRecordedOnce`); a repeated one would do a closure no harm, which collects
  identities in a set.
* **Repeated calls**: `README.md:7` promises deterministic results. Every call has an engine
  of its own, but the goals of a request share a memo, a map of selections and a list of
  edges. Correct when one request has one result, whatever the order in which closures are
  walked and identities are sorted (`AnswersRepeat`), and a goal neither loses
  anything nor is refused because of the goals resolved with it (`GoalsOnlyAdd`).
* **Witnesses**: built from a vector of origins in any order, then hashed.
  Correct when the edge identity depends on the places only (`WitnessCanonical`).
* **Request**: a duplicate is sought among *neighbours* after an *unstable* sort
  under an equality that ignores the origin. Correct when every duplicate is
  found and nothing else is refused (`SealDecides`), goals survive with their
  origins, in strict order (`SealKeepsGoals`), and the identity is that of the
  meaning (`IdentityIsMeaning`).
* **Identities**: a flat stream without field tags; a text is two updates, the
  second of which may fail; the OpenSSL context is freed by constructor,
  `finish()` or destructor. Correct when distinct values have distinct streams
  (`IdentitiesSeparate`), only whole streams get an identity (`WholeStream`), no
  number or length loses a byte when it is cut into eight (`ReadsBack`), the
  context is freed once (`ContextOwned`), and the library accepts what it
  produces (`FinishedIsIdentity`).

`PROJECT.json` lists the hazards, each with its line and its properties.

## 2. Modules

| Module | What it is | Code |
|---|---|---|
| `Authorities` | constants, the shape of a sealed request, and the pure rules: selection, refusal code, environment, need, requirements of a key, the edge and reason of a requirement | `src/resolver.cpp` 21-283, 353-446, `seal()` as the predicate `IsRequest` |
| `Resolver` | the engine as a state machine with an explicit call stack; properties | `src/resolver.cpp` 287-298, 448-580 |
| `ResolutionContract` | what `resolve()` promises with no stack, memo or order | abstract |
| `GoalClosure` | `make_goal` for each goal in turn, over any graph | `src/resolver.cpp` 582-629 |
| `Resolution` | `Resolver` composed with an instance of `GoalClosure` over the engine's own edges and members: the whole of `run()` | `src/resolver.cpp` 289-349 |
| `Vectors` | sort a vector by a key, erase equal neighbours, keep the elements at some places, each defined by how many places are ahead of a place | the idiom of `src/result.cpp` 96-97, 109-110, 274-291 and `src/resolver.cpp` 300-319 |
| `Assembly` | extends `Resolution` with the vectors behind its sets, identities that cannot be taken, what `resolve()` returns or throws, and the queries | `src/resolver.cpp` 287-349, `src/result.cpp` 197-291 |
| `Calls` | extends `Assembly` to a program that calls `resolve()` with one request after another and keeps the answers | `src/resolver.cpp` 287, 632-644 |
| `Witness` | the two witness constructors; extends `Streams` for the share of a witness in the edge identity | `src/result.cpp` 79-114, `src/resolver.cpp` 204-236 |
| `Encoding` | what the writer hashes byte for byte, and the hexadecimal texts | `src/identity_support.cpp` 42-84, `src/resolver.cpp` 97-107 |
| `IdentityWriter` | one `identity_writer` from constructor to destructor, OpenSSL failing at any call | `src/identity_support.cpp` 19-73 |
| `Streams` | the values of the five identity domains and the streams hashed for them | `src/request.cpp` 14-43; `src/resolver.cpp` 46-94, 182-236, 321-346, 608-629; the accessors in `model.h`, `request.h`, `result.h` |
| `Preimages` | a program that identifies any values of these domains | `src/identity.cpp` 10-23 |
| `Request` | a caller assembling goals and a policy and sealing requests; extends `Streams` | `src/request.cpp` 14-76; constructors and comparisons of `src/model.cpp` |
| `MCResolver`, `MCGoalClosure`, `MCResolution`, `MCAssembly`, `MCCalls`, `MCWitness`, `MCIdentityWriter`, `MCPreimages`, `MCRequest` | instances for TLC | |
| `ResolverProofs` | lemmas on the rules and on stacks; the engine's inductive invariant and its theorems | |
| `ResultProofs` | exact results, justified failures, the steps of the contract, and what every selection is due to: policy, environment, scope, reasons | |
| `ClosureProofs` | the walk of `make_goal` over any graph | |
| `VectorProofs` | sorting, deduplicating and filtering vectors of any length; orders by several fields | |
| `ResolutionProofs` | whole results; the vectors and the queries of `Assembly`; the answers of `Calls` | |
| `StreamProofs` | streams of lists, options and records can be read back | |
| `RequestProofs` | neighbours suffice after any sort; the properties of `Request` | |
| `IdentityProofs` | no two values meet; the witnesses; the hexadecimal form; the properties of the writer | |

### How the models correspond to the code

*Keys.* A selection is `[package, environment, authority]`, the `selection_key`
of the code. For one request these determine every field of the hashed
selection identity, so the memo's `(identity, scope)` is the model's
`[selection, scope]`. Lifecycle scopes are named by their action.

*Stack.* A frame of `stack` is one activation of `expand()`; `next = 0` means
called, not yet entered; otherwise `next` is the loop index. `Calls(s, scope)` pushes
`expand(s, scope)` below `expand_construction(s)`, so that construction runs
first, as in the code. Each action is what happens between two calls:

| Action | Code |
|---|---|
| `SelectRoot`, `RefuseRoot` | one path of `resolve_goal`: select, record member and reason, call the two expansions; or throw |
| `NextGoal`, `FinishRoots` | end of a goal; end of the first loop of `run()` |
| `Enter`, `Skip` | `expanded_.insert(key).second` true or false; `Enter` includes the throw for construction from installed state |
| `DemandNext`, `RefuseDemand` | one turn of the loop: select, witness, `add_edge` (edge and reason), the two calls; or the throw of `select` or of the witness constructor |
| `Return` | end of the loop |
| `OpenGoal`, `VisitSelection`, `CloseGoal` | start, one queue entry, end of `make_goal` |
| `RecordRoot`, `RecordEdge`, `RecordNothing`, `Refuse` | the same steps in `Assembly`, with the `emplace_back` on `reasons_` and `edges_` they perform |
| `FailIdentity` | OpenSSL fails under a selection, edge, closure or result identity: `resolve()` throws `identity_failed` |
| `Assemble` | end of `run()`: sort, deduplicate, construct the result |
| `NextCall` | `resolve()` called anew, after it returned or threw, with any request: a new `engine`, whose members start empty |
| `AddGoal`, `SetPolicy` | the caller constructs a `resolution_goal`, a `resolution_policy`; either may be refused |
| `RefuseEmpty`, `RefuseDuplicate`, `FailIdentity`, `Seal` | the four ends of `seal()` |
| `Catalog`, `Installed` | the two ways to make a `requirement_witness` |
| `Allocate`, `Initialize` | the two OpenSSL calls of the writer's constructor, each of which may fail |
| `WriteNumber`, `WriteBoolean`; `WriteLength`, `WriteBytes` | `number`, `boolean`; the two updates of `text` |
| `FailUpdate`, `Finish`, `RefuseFinish`, `Destroy` | a failing update; `finish()`; its refusals; the destructor |

*Order.* An order is that of a key, a tuple of numbers compared field by field as
`std::tie` does. The order of digests is unforeseeable, so `Assembly` takes any key
that is injective and, like a digest, of one length for all; it puts the key of a reason together
from these, an absent optional before any that is set. `Witness` takes any key that is total on the
origins. Elements with one key are equal, so that `std::sort`, unstable as it is, has
one outcome there. `Request` takes any injective rank for the external
orders of scopes and subjects, and any permutation that is sorted as the outcome
of `std::sort`. `find()` returns a pointer, here a set of at most one.

*Streams.* A name, a path and an earlier identity are sequences of bytes, framed
as the code frames them. The texts of enumerations and the domains are shortened to
one byte, distinct per text: what matters of them is that they differ. An
identity is its stream, SHA-256 being taken to separate streams.

*Abstractions of the engine.* Vectors that are sorted and deduplicated before anyone sees
them (`edges_`, `reasons_`, members) are sets. A requirement is the package it
names and whether it names any origin (`traced`); its scope is the one under which the
recipe or the installed state lists it. Beyond that, origins and provenance are dropped,
and a witness is the kind of its authority. Making a witness of no origin throws
(`src/result.cpp:93`, `:106`), after `select` and before `add_edge`: such a demand is
`Refused` even where it `Selects`. Reason and member carry the profile's name or path
index instead of its identity. A release is reduced to whether the identity of the
converted release matches. The queue of `make_goal` is a set, any element of which may
be visited next: more orders than the code has, the same closure.

## 3. Runs

| Run | Instance | What it shows |
|---|---|---|
| `graphs` | two packages, every runtime and build graph over them (self-loops, cycles, two-element requirement lists), check and pre-install requirements on both; five goal lists, one of them a profile that reaches a package twice | termination, least closure, exact edges and reasons, no re-entry, one-level check and lifecycle scopes, every selection explained |
| `authorities` | root and peer each absent, shadowed, effective, restricted in build or target architecture; absent, installed natively, for the cross target, or with a foreign release; a runtime requirement of either authority that names no origin; native and cross; both policies; goals of every need | policy, environment separation, unreachable throw, failures justified and `inconsistent_authority` for the two causes only |
| `contract` | profiles that are empty, unknown or reach a package twice; cyclic graphs with two-turn loops; missing and foreign authorities; requirements without origins | every behaviour of the engine, under its fairness, is one of the contract |
| `closures` | three selections, all 512 graphs, each with and without a parallel edge; two goals | a closure is exactly what its members reach |
| `shared_goals` | two and three goals sharing roots and requirements, profile and installed roots | whole results: nothing dangling, no orphan, each goal complete |
| `scoped_goals` | two goals on one root | **expected violation**, see section 6 |
| `assembly` | cyclic and refused graphs under both authorities and policies, a profile that reaches a package twice, goals that share roots; requirements without origins; a failing identity at every place | no edge is recorded twice, the result is canonical and complete, the queries agree |
| `calls` | pairs of calls with 60 requests: two packages that may require each other, one of them possibly missing or installed, five goal lists of which some extend others; a failing identity at every place | one request gets one result, however closures are walked and whatever was resolved before; further goals only add to a result, each goal's closure included |
| `sealing` | every draft of up to three goals over two scopes, two subjects and two origins, twice in a row, with empty origins and unsupported policies | duplicates are found wherever they are; two requests have one identity exactly when they mean the same |
| `witnesses` | two witnesses from any vectors of up to three origins | order and repetition of origins do not reach the edge identity; authority and places do |
| `writer` | up to three values, numbers at the boundaries of bytes and a text longer than 255 bytes among them, every OpenSSL call failing or not | context freed once, no identity of a cut stream, every value readable in the stream of a finished identity, every identity well formed |
| `preimages` | every pair of about 680 values over the five domains | no two distinct values share a stream |

**Bounds.** In the engine, the closures and the assembly no state variable is
capped: the state space is finite because a request is. Bounds are on requests
alone (the `MC` modules name them). Two
packages suffice for a cycle, a self-loop, a diamond (construction and runtime
path to one key), a memo hit on a suspended activation and one on a finished
activation, and for a second goal that finds its keys done; in two
environments, two authorities and four scopes they make up to a dozen keys. Two
architectures give native and cross. Goal closure needs a third node for a path
that leaves and re-enters a goal's members.

The other models name their bounds as constants or guards. `MaxGoals = 3`: a
duplicate separated from its twin by another goal, in the caller's order, takes
three. `MaxCalls = 1`: one earlier answer is remembered beside that of the call at
hand, since both properties compare two. `MaxSeals = 2`, `MaxWitnesses = 2` and two values in `Preimages`: comparing
identities takes two. `MaxOrigins = 3`: a repetition with another origin in between.
`MaxWrites = 3`: a failure with something written before and after. `MCRequest` has
one context (catalog, installed state and architectures), so that in the run
`IdentityIsMeaning` varies policy and goals only; the theorem takes any. Preimage values
differ in one field, in where a name or list ends, in what an option holds, or
in a number at the boundary of a byte: the places where framing can go wrong.
`EdgesRecordedOnce` supposes requirement lists that name no package twice: the external
libraries are expected to merge the origins of a repeated requirement, which
carries a vector of them for that. No other property supposes it.

**Fairness.** `WF(Next)` alone: `resolve()` runs on the caller's thread, waits
for nothing and either returns or throws. In the composed model the same holds of all of
`run()`. No fairness singles out an action.

**Deadlock** checking is off in every run because the computation ends, or in
the bounded models because the bound is reached. `Termination`, `AllClosed` and `ResolutionEnds` would show a computation stuck early.

**Variants.** A definition commented as a variant for the mutation runs is a
plausible bug. No specification uses it; `PROJECT.json` pairs each with the
property that rejects it.

## 4. Proofs

| Theorem | Property | Module |
|---|---|---|
| `TypeCorrect`, `NeverReentered`, `ResolvesLeastClosure` | `TypeOK`, `NoReentry`, `LeastClosure` | `ResolverProofs` |
| `ResolvesExactly`, `FailsForCause`, `ConstructsFromCatalog` | `ResultExact`, `FailureJustified`, `ConstructionFromCatalog` | `ResultProofs` |
| `ImplementsContractSafety` | the safety part of `ImplementsContract` | `ResultProofs` |
| `PolicyDecides`, `EnvironmentsSeparate`, `ScopesStayAtRoots`, `SelectionsExplained` | `AuthorityByPolicy`, `EnvironmentSeparation`, `RootScopedEdges`, `Explained` | `ResultProofs` |
| `ClosesExactly` | `ClosuresExact` | `ClosureProofs` |
| `DeliversClosedResult`, `DeliversOwnedParts`, `DeliversCompleteGoals` | `ResultClosed`, `EveryPartOwned`, `GoalComplete` | `ResolutionProofs` |
| `RecordsEdgesOnce`, `ReturnsCanonicalResult`, `QueriesTellOneStory` | `EdgesRecordedOnce`, `ResultCanonical`, `QueriesAgree` | `ResolutionProofs` |
| `CallsRepeat`, `CallsGrow` | `AnswersRepeat`, `GoalsOnlyAdd` | `ResolutionProofs` |
| `RequestTypeCorrect`, `SealDecidesRightly`, `SealKeepsTheGoals`, `IdentifiesMeaning` | `RequestTypeOK`, `SealDecides`, `SealKeepsGoals`, `IdentityIsMeaning` | `RequestProofs` |
| `IdentitiesNeverMeet` | `IdentitiesSeparate` | `IdentityProofs` |
| `WitnessesWellFormed`, `WitnessesIdentify` | `WitnessTypeOK`, `WitnessCanonical` | `IdentityProofs` |
| `HashesWholeStream`, `ReadsBackWhatWasWritten`, `FreesContextOnce`, `FinishesWithIdentity` | `WholeStream`, `ReadsBack`, `ContextOwned`, `FinishedIsIdentity` | `IdentityProofs` |

Every invariant and every action property of a passing run is thus a theorem. Beside
these, `SortsAndDeduplicates` and `SameVector` (`VectorProofs`), `NeighboursSuffice` and `SealedForResolution` (`RequestProofs`),
`NumberReadable`, `TextReadable`, `SelectionsSeparate` and `StreamsSeparate`
(`StreamProofs`), `HexReadable` and `ReleaseTextsDecide` (`IdentityProofs`) state
facts about the operators.

**Assumptions.** The engine proofs hold for all finite or infinite sets of packages,
profiles and architectures, and all sets of requests, under
`RequestsAssumption`: each request is sealed in the sense of `IsRequest`
(effective candidates unique per package, goals nonempty and without
repetition, and types). `SealedForResolution` shows that `seal()` delivers the
part about goals. The walk of `make_goal` needs no assumption: it is exact for any
graph and any roots. The other proofs assume that the external orders are
injective (`RanksAssumption`), or as described under *Order* above
(`OrdersAssumption`, `OriginsAssumption`), that texts are bytes, their sizes and the numbers fit 64
bits and a digest has 32 bytes (`WriterAssumption`), and that the values to identify, and what a
request is sealed from, are values a program can hold: texts and vectors whose size fits 64 bits,
numbers that do, optionals of at most one
value (`ValuesAssumption`, `ContentsAssumption`). TLC evaluates each of them in a run.

**Expansion.** `LeastClosure` is about the final state only and says
nothing of what is pending while the stack is deep. The inductive invariant `IInv`
adds:

| Conjunct | Says | Needed for |
|---|---|---|
| `TypeOK`, `KeysBacked` | types; each expanded or called key has an authority that is really offered | `Requirements` and what follows from it is typed |
| `RunningExpanded`, `NoReentry` | the key of a running activation is in the memo; no two run for one key | `Enter` on a key outside the memo cannot re-enter a running one |
| `CallsSound` | what is called is a root key or a child of an expanded key | what `Enter` adds to the memo has a predecessor in it |
| `ExpandedSound` | no proper subset of the memo holds all successors that it has within the memo | *least* |
| `RootsCovered` | each root demand behind the cursor was accepted, and what follows it is expanded or called | *closed*, roots |
| `KeysCovered` | each requirement of each expanded key is covered in the same sense, or is still ahead of a running activation of the key | *closed*, children: with an empty stack only the memo is left |
| `Finished` | a resolved state has an empty stack and no goal left | final step |

Each is preserved action by action. The stack lemmas (`PopStack`,
`AdvanceStack`, `PushStack`, `CallsStack`, `DemandStack`) describe what each
stack operation does to every index, so that steps never reason about `SubSeq`.

`ResolvesExactly` carries a second invariant, `Recorded`, beside `IInv`: what is
recorded is declared by the memo (`RecordSound`), an edge never lacks its
reason or its selection (`EdgesExplained`), and what is declared but not yet
recorded lies ahead of the goal cursor (`RootsRecorded`) or of a running
activation (`KeysRecorded`). `AwaitedBelow` is the step common to all: only the
innermost activation can cease to await a requirement. `FailsForCause` needs of
`IInv` that a running key is in the memo, so that the demand that throws is one of
those blamed, and that with an empty stack every demand was covered.
`ConstructsFromCatalog` follows from `KeysBacked`, which keeps the throw out of reach, from
`FailureJustified`, which names the demand that was refused, and from `ForeignRelease`: a
demand refused under this code is untraced or names a package installed under a foreign release.

**Refinement.** The contract knows neither stack nor cursor. `ContractStep` takes each
action of the engine in turn: `Enter` grows the memo by a successor of it
(`CallsSound`), the refusals refuse a demand of the memo or of a goal (`Blamed`),
`FinishRoots` satisfies the contract because the memo is then closed, nothing was
refused and the record is exact (`Settled`); everything else
stutters.

**Explanation.** A property of edges says nothing about the keys that are only
called, from which the next edges come. `Placed` therefore places every
outstanding key: it is of a recorded selection (`KeysSelected`); with
a check or lifecycle scope it belongs to a goal of that scope and one of that
goal's own members (`KeysScoped`), which the members behind the cursor make
available (`RootsCollected`). The four properties are conjuncts of it, since they are then
preserved together. Steps that select nothing are disposed of once
(`QuietSteps`, `QuietPlaced`); only `SelectRoot` and `DemandNext` remain.
`Explained` quantifies over all closed subsets, and a new selection extends it
because its reason has an issuer that was already explained (`ExplainedGrows`).

**Closures and whole results.** In `WalkInv` the edges kept are those issued by what has left
the queue, both their ends have been met, and nothing but what the roots lead to has
been (`NothingBut`): an order-free account of a walk that grows its own queue. `ClosureProofs` is
instantiated in `ResolutionProofs` for the engine's edges and
members. `ResolutionInv` conjoins `IInv`, `Recorded`, `Placed`, `WalkInv` and the fact
that closing starts after resolving. `GoalComplete` is the theorem
that answers the doubt about the memo: what a goal would need alone is a
closed set of keys (`ClosureKeysClosed`), whose edges are all recorded,
whoever expanded them, so the walk from the goal's members meets them.

**Vectors.** `Sorted` and `Kept` put each element at the place told by the number of those
ahead of it, which needs no recursion: what is ahead of one place is a proper subset
of what is ahead of the next, so the counts are distinct and below the length,
and every place is taken (`PlaceTaken`, `ArrangedInOrder`). With keys that `Before` orders totally
(`Keyed`), sorting keeps the elements and orders them (`SortedElements`), and erasing equal
neighbours leaves each once (`Deduplicated`): `SortsAndDeduplicates`. In a strictly
ascending vector the elements before a place are those with a smaller
key, so that the set of elements determines the vector (`SameVector`).

**Assembly and queries.** The orders of selections, edges and reasons are shown to be total, that of
reasons field by field (`ReasonsKeyed`), two optional fields included: an
absent issuer makes a shorter key, which must not be mistaken for the start of a longer
one. `AssemblyInv` conjoins `ResolutionInv`, that the logs hold what the engine's sets hold
(`Logged`), and that what was returned was sorted and deduplicated from them
(`ReturnedWhole`): `ReturnsCanonicalResult` follows. For `QueriesTellOneStory`, if a selection had no
reason, all the others would be closed under the recorded reasons, against `Explained`
(`SomeReason`); and `EdgeReason` is a bijection from the edges into a selection
to its reasons that have an issuer (`ReasonsAreEdges`), because the scope
and the ends of an edge tell its environment, and the issuer its witness (`ReasonTellsEdge`). `RecordsEdgesOnce`
rests on a conjunct of `AssemblyInv` that says that every logged edge belongs to a requirement which no activation has ahead of it
(`LogServed`); the requirement that `DemandNext` serves is ahead, hence not on the log.

**Repeated calls.** `AnswersRepeat` and `GoalsOnlyAdd` relate the ends of two calls, between
which nothing is shared. The proof therefore first says what a result is in terms of
the request alone. `ResultOf(r, K, o)`: `K` is a set of keys that is closed,
needed (a part of every closed set, which `ExpandedSound` gives for the memo by
`MemoNeeded`) and refuses nothing; the vectors of `o` are canonical for what `K`
declares, and its goals are the exact closures. `RefusalOf` says in the same way that a
needed set of keys refuses something. `CallInv` conjoins `AssemblyInv`, `Blamed`, that
members come from roots (`MembersRooted`), that closures are records of two sets
(`ClosuresFormed`) and that there is no other outcome (`OutcomeFormed`); from it follows
that an answer, when it is given, is right for its request
(`RightAnswer`), and `CallsInv` says so of every remembered one. Selection, requirements and root demands of a goal do not depend on the
other goals (`SameChoices`, `SameRequirements`, `SameGoalDemands`), so that a closed set for
more goals is closed for fewer and the smaller needed set is a part of the larger
(`LessDeclared`); a refusal of the smaller would be one of the larger (`LessNotRefused`); and a closure grows
with its edges (`ClosureGrows`). Requests that agree have one needed closed set, hence
one set of parts, and by `SameVector` one vector of each (`OneResult`). Of two
calls that both fail only the failure is compared, not the code: which of several refused
demands is met first is a matter of the order of the walk, which this account abstracts from. The
digests that order a vector take in the identity of the request, so the parts of
two requests are compared as sets.

**Sealing.** A sorted arrangement is a bijection (`Arrangement`) in which what lies
between two goals of one meaning has that meaning too (`Between`, `Ordered`), so
that a duplicate anywhere in the caller's vector makes two neighbours equal
(`NeighboursSuffice`). `RequestInv` conjoins the three properties and is
inductive: each answer of `seal()` is right by that theorem. For the identity,
equal streams give equal goals at each place (`IdentityReadable`, from
`StreamsSeparate`); conversely two strictly ascending vectors with the same meanings agree
place by place (`SamePlace`: at the least place where they did not, one would hold a
goal the other has nowhere).

**Identities.** `Delimits(p, q)` says that whatever follows `p` and `q`, equal streams
have equal heads; `Tells(p, q, x, y)`, that moreover equal heads come from equal values. Numbers
and texts have the property (`NumberReadable`, `TextReadable`), it
is kept by putting one field behind another (`TellsBehind`), by a
counted list of fields of any length (`TellsCounted`) and by an optional
one (`TellsOptional`). The lemmas after these climb from a provenance to a whole
result, one for each `Write` operator. The five domains differ in their first text (`OneDomain`), hence
`StreamsSeparate`. An edge's witness chooses its form by its kind, which is written before it.

The induction over lists that this takes is done without the library's
induction theorems: a counterexample of least length (`LeastNumber`, from the
well-foundedness of the naturals) has a shorter one in its front. `FlattenSeq` is a recursive
function chosen by its equation, which exists and is the only one (`FlatExists`,
`OnlyFlattening`), so that it can be unrolled from the end
(`FlattenAppend`).

**Witnesses.** `WitnessInv` says that each witness was made from the origins given
with it. The origins it holds are these, ascending, and no more than were given
(`NormalisedOrigins`, `NoLonger`), so that an edge with this witness is a value which
`StreamsSeparate` covers: one identity comes from one witness, and witnesses with the
same places hold the same vector by `SameVector`.

**Hexadecimal form and writer.** Each hexadecimal digit is one of sixteen that
differ, so two renderings agree only for one digest (`HexReadable`); the loop
with which the resolver renders an installed release agrees with the one in
`finish()` (`ReleaseTextsDecide`), hence `convert_release` compares digests.
`WriterInv` ties the ownership of the context to the state of the object, and
accounts for the stream (`Accounted`): it is the values written, or these and the length of the one text
whose bytes are owed, in which state no identity can be taken; and the marks, which
remember where each value begins and what it was, divide it without a gap and
are read back from it: the eight bytes of a number recombine to it (`NumberReads`), and what is
appended leaves the marks before it readable (`ReadsOneMore`), hence
`ReadsBackWhatWasWritten`.

**Model-checked only.** Liveness (`Termination`, `AllClosed`, `ResolutionEnds`)
and the fairness part of `ImplementsContract` are beyond the prover and stay with TLC.

## 5. Not modelled

* SHA-256 itself: that distinct streams have distinct digests is assumed.
* The external source, catalog and state libraries. Their sealed values are
  inputs; their orders and texts are constants.
* Writes after `finish()`: the class does not guard against them and no caller
  makes them.
* The constructors' refusals of values outside an enumeration in
  `src/result.cpp`: the engine passes enumerators only. Comparisons of
  `architecture_context` and of `resolution_policy`, which nothing in the library calls; accessors.
* The throw of `selected_target` for an environment that is neither of the two
  (`src/model.cpp:71`): the engine passes enumerators only.
* `state_action`, a renaming of lifecycle actions: requirements of an installed
  package are indexed by the renamed scope.
* Allocation failure, and a native stack overflow on a very long requirement chain:
  `NoReentry` bounds the depth by the number of keys.
* References into `selections_` held across insertions: `std::map` keeps them
  valid, and the model holds selections by value.
* Error messages, build files, export manifests, contract scripts, manuals.

## 6. Finding

`make_goal` follows every edge whose issuer it has reached, whatever the edge's
scope (`src/resolver.cpp:593`). `DESIGN.md:74` says "A lifecycle goal follows
requirements bound to exactly one lifecycle action and then their runtime
closures". In the run `scoped_goals` a post-install goal shares its root with a
check or pre-install goal, and its closure contains the edge and the selection
which only the other goal requires. `GoalComplete` shows the opposite direction
holds: nothing a goal needs is missing.

## 7. Plan

Done: all modules of section 2, their runs, and the theorems of section 4. No
operation of the library that changes state is left to model, and no safety property
of a run is left to prove. What could still be added: that two calls with one
request fail with one code, which needs the order of the walk in the invariant.
