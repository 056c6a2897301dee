----------------------------- MODULE Authorities -----------------------------
(***************************************************************************)
(* The sealed inputs of one resolution and the pure rules the engine       *)
(* applies to them: which authority a demand selects, in which environment *)
(* a requirement is satisfied, what a selection requires, and what an      *)
(* expansion asks to be expanded next.                                     *)
(*                                                                         *)
(* A selection is identified by package, environment and authority: for a  *)
(* fixed request these three determine every field that is hashed into the *)
(* package selection identity of src/resolver.cpp.  A lifecycle scope is   *)
(* named by its action.  Releases, snapshots, origins and provenance are   *)
(* payload that no rule below looks at, except whether the release of an   *)
(* installed package has the identity the source domain computes for it,   *)
(* and whether a requirement names any origin at all.                      *)
(***************************************************************************)
EXTENDS Naturals, Sequences

CONSTANTS
  Package,   \* package names
  Profile,   \* profile names
  Arch,      \* architecture names
  Requests   \* the sealed resolution requests under consideration

Environment     == {"build", "target"}
Authority       == {"candidate", "installed"}
LifecycleAction == {"pre_install", "post_install", "pre_remove", "post_remove"}
Scope           == {"run", "build", "check"} \cup LifecycleAction
Need            == {"flexible", "candidate_required", "installed_required"}
Preference      == {"retain_compatible", "prefer_catalog"}
ReasonKind      == {"direct_goal", "profile_goal", "runtime_requirement",
                    "build_requirement", "check_requirement",
                    "lifecycle_requirement"}
ErrorCode       == {"unknown_package", "unknown_profile", "missing_candidate",
                    "missing_installed_package", "architecture_mismatch",
                    "inconsistent_authority"}

ResolutionGoal == [scope : Scope, kind : {"package"}, name : Package]
                    \cup [scope : Scope, kind : {"profile"}, name : Profile]

Selection == [package : Package, environment : Environment, authority : Authority]

Key == [selection : Selection, scope : Scope]

\* A requirement names a package, and is traced when it names an origin.
Requirement == [package : Package, traced : BOOLEAN]

(***************************************************************************)
(* A catalog candidate declares the architectures it admits, an empty set  *)
(* admitting all, and its requirements per scope.  Installed state retains *)
(* one selected pair of architectures and only runtime and lifecycle       *)
(* requirements.                                                           *)
(***************************************************************************)
CatalogCandidate ==
  [package : Package, status : {"effective", "shadowed"},
   build : SUBSET Arch, target : SUBSET Arch,
   requires : [Scope -> Seq(Requirement)]]

InstalledPackage ==
  [build : Arch, target : Arch, release_matches : BOOLEAN,
   requires : [{"run"} \cup LifecycleAction -> Seq(Requirement)]]

IsRequest(r) ==
  /\ r.catalog \subseteq CatalogCandidate
  /\ \A c, d \in r.catalog :
       c.status = "effective" /\ d.status = "effective" /\ c.package = d.package
         => c = d
  /\ DOMAIN r.installed \subseteq Package
  /\ \A p \in DOMAIN r.installed : r.installed[p] \in InstalledPackage
  /\ DOMAIN r.profiles \subseteq Profile
  /\ \A q \in DOMAIN r.profiles : r.profiles[q] \in Seq(Package)
  /\ r.goals \in Seq(ResolutionGoal)
  /\ r.goals # <<>>
  /\ \A i, j \in 1..Len(r.goals) : r.goals[i] = r.goals[j] => i = j
  /\ r.build \in Arch
  /\ r.target \in Arch
  /\ r.preference \in Preference

ASSUME RequestsAssumption == \A r \in Requests : IsRequest(r)

-----------------------------------------------------------------------------
(***************************************************************************)
(* Compatibility of the two authorities with an environment.               *)
(***************************************************************************)
Allows(declared, selected) == declared = {} \/ selected \in declared

\* The throw for an environment that is neither of the two cannot be reached.
SelectedTarget(r, env) == IF env = "build" THEN r.build ELSE r.target

Candidates(r, p) == {c \in r.catalog : c.status = "effective" /\ c.package = p}

FindCandidate(r, p) == CHOOSE c \in Candidates(r, p) : TRUE

CandidateOk(r, p, env) ==
  /\ Candidates(r, p) # {}
  /\ Allows(FindCandidate(r, p).build, r.build)
  /\ Allows(FindCandidate(r, p).target, SelectedTarget(r, env))

InstalledOk(r, p, env) ==
  /\ p \in DOMAIN r.installed
  /\ r.installed[p].build = r.build
  /\ r.installed[p].target = SelectedTarget(r, env)

-----------------------------------------------------------------------------
(***************************************************************************)
(* Selection.  A demand asks for a package in an environment; it admits    *)
(* the compatible authorities its need allows, and policy orders them.     *)
(* select() fails when it admits none, or when the installed package it    *)
(* would select has a release identity the source domain does not          *)
(* reproduce: there is no fallback to the candidate in that case.  A       *)
(* demand is refused when select() fails, or when it is that of a          *)
(* requirement without origins, of which no witness can be made.           *)
(***************************************************************************)
Demand == [package : Package, environment : Environment, need : Need,
           traced : BOOLEAN]

\* What a goal demands stands for itself: a witness is made of requirements only.
DemandFor(p, env, need) ==
  [package |-> p, environment |-> env, need |-> need, traced |-> TRUE]

Admits(r, d, authority) ==
  \/ /\ authority = "candidate"
     /\ d.need # "installed_required"
     /\ CandidateOk(r, d.package, d.environment)
  \/ /\ authority = "installed"
     /\ d.need # "candidate_required"
     /\ InstalledOk(r, d.package, d.environment)

Preferred(r) ==
  IF r.preference = "retain_compatible" THEN "installed" ELSE "candidate"

Other(authority) == IF authority = "candidate" THEN "installed" ELSE "candidate"

Choice(r, d) ==
  IF Admits(r, d, Preferred(r)) THEN Preferred(r) ELSE Other(Preferred(r))

Admitted(r, d) == \E a \in Authority : Admits(r, d, a)

Selects(r, d) ==
  /\ Admitted(r, d)
  /\ Choice(r, d) = "installed" => r.installed[d.package].release_matches

Refused(r, d) == ~ Selects(r, d) \/ ~ d.traced

\* select() comes before the witness: what it cannot select is reported first.
RefusalCode(r, d) ==
  CASE Admitted(r, d) -> "inconsistent_authority"
    [] ~ Admitted(r, d) /\ d.need = "candidate_required"
         /\ Candidates(r, d.package) = {} -> "missing_candidate"
    [] ~ Admitted(r, d) /\ d.need = "installed_required"
         /\ d.package \notin DOMAIN r.installed -> "missing_installed_package"
    [] ~ Admitted(r, d) /\ d.need = "flexible" /\ Candidates(r, d.package) = {}
         /\ d.package \notin DOMAIN r.installed -> "unknown_package"
    [] OTHER -> "architecture_mismatch"

Select(r, d) ==
  [package |-> d.package, environment |-> d.environment, authority |-> Choice(r, d)]

-----------------------------------------------------------------------------
(***************************************************************************)
(* Scopes and goals.                                                       *)
(***************************************************************************)
ReasonForScope(scope) ==
  CASE scope = "run"   -> "runtime_requirement"
    [] scope = "build" -> "build_requirement"
    [] scope = "check" -> "check_requirement"
    [] OTHER           -> "lifecycle_requirement"

\* Variant for the mutation runs: check inputs stay in the issuer environment.
CheckStaysWithIssuer(issuer, scope) == IF scope = "build" THEN "build" ELSE issuer

DependencyEnvironment(issuer, scope) ==
  IF scope \in {"build", "check"} THEN "build" ELSE issuer

RootRequirement(scope) ==
  CASE scope = "run" -> "flexible"
    [] scope \in {"build", "check", "pre_install", "post_install"} ->
         "candidate_required"
    [] scope \in {"pre_remove", "post_remove"} -> "installed_required"

KnownGoal(r, g) == g.kind = "profile" => g.name \in DOMAIN r.profiles

GoalPackages(r, g) ==
  IF g.kind = "package" THEN <<g.name>> ELSE r.profiles[g.name]

RootDemand(r, g, i) ==
  DemandFor(GoalPackages(r, g)[i], "target", RootRequirement(g.scope))

-----------------------------------------------------------------------------
(***************************************************************************)
(* What an expanded key requires, and what each requirement selects.       *)
(***************************************************************************)
Supplies(selection, scope) ==
  selection.authority = "installed" => scope \notin {"build", "check"}

Requirements(r, k) ==
  IF k.selection.authority = "candidate"
  THEN FindCandidate(r, k.selection.package).requires[k.scope]
  ELSE IF Supplies(k.selection, k.scope)
       THEN r.installed[k.selection.package].requires[k.scope]
       ELSE <<>>

\* Variant for the mutation runs: a nested demand inherits the need of a root.
RootNeedDemand(r, k, i) ==
  [package     |-> Requirements(r, k)[i].package,
   environment |-> DependencyEnvironment(k.selection.environment, k.scope),
   need        |-> RootRequirement(k.scope),
   traced      |-> Requirements(r, k)[i].traced]

RequirementDemand(r, k, i) ==
  [package     |-> Requirements(r, k)[i].package,
   environment |-> DependencyEnvironment(k.selection.environment, k.scope),
   need        |-> "flexible",
   traced      |-> Requirements(r, k)[i].traced]

(***************************************************************************)
(* Every selection is followed by expand_construction and then by expand   *)
(* under the scope in which it was demanded.                               *)
(***************************************************************************)
Expansions(selection, scope) ==
  {[selection |-> selection, scope |-> s] :
     s \in IF selection.authority = "candidate" THEN {"build", scope} ELSE {scope}}

Children(r, k) ==
  UNION {Expansions(Select(r, RequirementDemand(r, k, i)), "run") :
           i \in {j \in 1..Len(Requirements(r, k)) :
                    ~ Refused(r, RequirementDemand(r, k, j))}}

GoalKeys(r, g) ==
  UNION {Expansions(Select(r, RootDemand(r, g, i)), g.scope) :
           i \in {j \in 1..Len(GoalPackages(r, g)) : ~ Refused(r, RootDemand(r, g, j))}}

RootKeys(r) ==
  UNION {GoalKeys(r, r.goals[i]) :
           i \in {j \in 1..Len(r.goals) : KnownGoal(r, r.goals[j])}}

Successors(r, K) == RootKeys(r) \cup UNION {Children(r, k) : k \in K}

Closed(r, K) == Successors(r, K) \subseteq K

(***************************************************************************)
(* What one requirement adds to the result: an edge bound to the scope of  *)
(* the key, witnessed by the issuing authority, and the matching reason.   *)
(* A witness is abstracted to the kind of its authority: its origins are   *)
(* those of the requirement, and making one of none throws, see Refused.   *)
(* An absent issuer or profile is the empty set.                           *)
(***************************************************************************)
Edge == [issuer : Selection, required : Selection, scope : Scope,
         environment : Environment, witness : Authority]

Reason == [selection : Selection, kind : ReasonKind, scope : Scope,
           issuer : SUBSET Selection, profile : SUBSET Profile]

EdgeFor(r, k, i) ==
  [issuer |-> k.selection, required |-> Select(r, RequirementDemand(r, k, i)),
   scope |-> k.scope, environment |-> RequirementDemand(r, k, i).environment,
   witness |-> k.selection.authority]

\* Variant for the mutation runs: issuer and required change places.
SwappedReason(e) ==
  [selection |-> e.issuer, kind |-> ReasonForScope(e.scope), scope |-> e.scope,
   issuer |-> {e.required}, profile |-> {}]

EdgeReason(e) ==
  [selection |-> e.required, kind |-> ReasonForScope(e.scope), scope |-> e.scope,
   issuer |-> {e.issuer}, profile |-> {}]

RootReason(r, g, i) ==
  [selection |-> Select(r, RootDemand(r, g, i)),
   kind      |-> IF g.kind = "package" THEN "direct_goal" ELSE "profile_goal",
   scope     |-> g.scope,
   issuer    |-> {},
   profile   |-> IF g.kind = "profile" THEN {g.name} ELSE {}]

(***************************************************************************)
(* The demands a set of expanded keys gives rise to, and those of the      *)
(* goals themselves; a request is satisfiable when none is refused.        *)
(***************************************************************************)
RootDemands(r) ==
  UNION {{RootDemand(r, r.goals[i], j) : j \in 1..Len(GoalPackages(r, r.goals[i]))} :
           i \in {j \in 1..Len(r.goals) : KnownGoal(r, r.goals[j])}}

KeyDemands(r, k) ==
  {RequirementDemand(r, k, i) : i \in 1..Len(Requirements(r, k))}

Demands(r, K) == RootDemands(r) \cup UNION {KeyDemands(r, k) : k \in K}

Refusals(r, K) ==
  {RefusalCode(r, d) : d \in {x \in Demands(r, K) : Refused(r, x)}}
    \cup {"unknown_profile" : i \in {j \in 1..Len(r.goals) : ~ KnownGoal(r, r.goals[j])}}

(***************************************************************************)
(* The graph a set of expanded keys declares.                              *)
(***************************************************************************)
DeclaredSelections(r, K) == {Select(r, d) : d \in Demands(r, K)}

DeclaredEdges(r, K) ==
  UNION {{EdgeFor(r, k, i) : i \in 1..Len(Requirements(r, k))} : k \in K}

RootReasons(r) ==
  UNION {{RootReason(r, r.goals[i], j) : j \in 1..Len(GoalPackages(r, r.goals[i]))} :
           i \in {j \in 1..Len(r.goals) : KnownGoal(r, r.goals[j])}}

DeclaredReasons(r, K) ==
  RootReasons(r) \cup {EdgeReason(e) : e \in DeclaredEdges(r, K)}
=============================================================================
