------------------------------ MODULE MCResolver ------------------------------
(***************************************************************************)
(* Instances of the engine for TLC: every request of three small worlds.   *)
(***************************************************************************)
EXTENDS Resolver

CONSTANTS a, b,          \* packages
          full, hollow, absent,   \* profiles
          x, y           \* architectures

MCPackage == {a, b}
MCProfile == {full, hollow, absent}
MCArch    == {x, y}

NoRequirements == [s \in Scope |-> <<>>]

\* A requirement with an origin, and one that names none.
On(p)       == [package |-> p, traced |-> TRUE]
Untraced(p) == [package |-> p, traced |-> FALSE]

Source(p, build, target, requires) ==
  [package |-> p, status |-> "effective", build |-> build, target |-> target,
   requires |-> requires]

Retained(build, target, matches, runs) ==
  [build |-> build, target |-> target, release_matches |-> matches,
   requires |-> [s \in {"run"} \cup LifecycleAction |-> IF s = "run" THEN runs ELSE <<>>]]

GoalOn(p, scope) == [scope |-> scope, kind |-> "package", name |-> p]

ProfileGoal(q) == [scope |-> "run", kind |-> "profile", name |-> q]

EmptyFunction == [p \in {} |-> {}]

-----------------------------------------------------------------------------
(***************************************************************************)
(* Graphs: every runtime and build graph over two packages, self-loops and *)
(* cycles included, and on each package no or one check and pre-install    *)
(* requirement; one and two goals, and a profile that reaches one package  *)
(* along two paths.  Catalog only, one architecture.                       *)
(***************************************************************************)
Lists == {<<>>, <<On(a)>>, <<On(b)>>, <<On(a), On(b)>>}

GraphGoals ==
  {<<GoalOn(a, "run")>>, <<GoalOn(a, "build"), GoalOn(b, "run")>>,
   <<GoalOn(a, "check"), GoalOn(a, "run")>>,
   <<GoalOn(a, "pre_install"), GoalOn(b, "check")>>, <<ProfileGoal(full)>>}

GraphRequest(run, build, once, goals) ==
  [catalog |-> {Source(p, {}, {}, [NoRequirements EXCEPT
                   !["run"] = run[p], !["build"] = build[p],
                   !["check"] = once, !["pre_install"] = once]) : p \in MCPackage},
   installed |-> EmptyFunction, profiles |-> [q \in {full} |-> <<a, b, a>>],
   goals |-> goals, build |-> x, target |-> x, preference |-> "prefer_catalog"]

GraphRequests ==
  {GraphRequest(run, build, once, goals) :
     run \in [MCPackage -> Lists], build \in [MCPackage -> Lists],
     once \in {<<>>, <<On(b)>>}, goals \in GraphGoals}

-----------------------------------------------------------------------------
(***************************************************************************)
(* Authorities: the root absent, shadowed or effective with every          *)
(* architecture restriction that matters, and absent or installed for the  *)
(* native or the cross target, or with a foreign release identity; its     *)
(* peer with the variants a nested demand tells apart.  Both policies,     *)
(* native and cross requests, and every need a goal scope has.  The two    *)
(* packages require each other at run time, to be built and to be checked; *)
(* a requirement of either authority may name no origin.                   *)
(***************************************************************************)
Peer(p) == IF p = a THEN b ELSE a

Sourced(p) ==
  LET needs == [NoRequirements EXCEPT !["run"] = <<On(Peer(p))>>,
                  !["build"] = <<On(Peer(p))>>, !["check"] = <<On(Peer(p))>>]
  IN {{}, {[Source(p, {}, {}, needs) EXCEPT !.status = "shadowed"]},
      {Source(p, {}, {}, [needs EXCEPT !["run"] = <<Untraced(Peer(p))>>])},
      {Source(p, {}, {}, needs)}, {Source(p, {y}, {}, needs)},
      {Source(p, {}, {x}, needs)}, {Source(p, {x}, {y}, needs)}}

PeerSourced ==
  {cs \in Sourced(b) : \A c \in cs : c.status = "effective" /\ c.build = {}}

Installations(p) ==
  {{}, {Retained(x, x, TRUE, <<On(Peer(p))>>)}, {Retained(x, x, FALSE, <<On(Peer(p))>>)},
   {Retained(x, y, TRUE, <<On(Peer(p))>>)}, {Retained(x, x, TRUE, <<Untraced(Peer(p))>>)}}

AuthorityGoals ==
  {<<GoalOn(a, s)>> : s \in {"run", "check", "pre_remove"}}
    \cup {<<GoalOn(a, "build"), GoalOn(b, "run")>>,
          <<GoalOn(a, "post_install"), GoalOn(b, "post_remove")>>}

AuthorityRequest(candidates, installed, goals, target, preference) ==
  [catalog |-> UNION {candidates[p] : p \in MCPackage},
   installed |-> [p \in {q \in MCPackage : installed[q] # {}} |->
                    CHOOSE i \in installed[p] : TRUE],
   profiles |-> EmptyFunction, goals |-> goals, build |-> x, target |-> target,
   preference |-> preference]

AuthorityRequests ==
  {AuthorityRequest([p \in MCPackage |-> IF p = a THEN ca ELSE cb],
                    [p \in MCPackage |-> IF p = a THEN ia ELSE ib], goals, t, pref) :
     ca \in Sourced(a), cb \in PeerSourced, ia \in Installations(a),
     ib \in Installations(b), goals \in AuthorityGoals, t \in MCArch,
     pref \in Preference}

-----------------------------------------------------------------------------
(***************************************************************************)
(* Profiles: a profile that reaches one package along two paths, one with  *)
(* no package, one the catalog does not know, alone and beside a package   *)
(* goal; the second package may be missing.                                *)
(***************************************************************************)
ProfileGoals ==
  {<<ProfileGoal(full)>>, <<ProfileGoal(hollow)>>, <<ProfileGoal(absent)>>,
   <<ProfileGoal(full), GoalOn(a, "check")>>, <<GoalOn(b, "build"), ProfileGoal(full)>>,
   <<GoalOn(a, "run"), ProfileGoal(hollow), ProfileGoal(absent)>>}

ProfileRequests ==
  {[catalog |-> {Source(a, {}, {}, [NoRequirements EXCEPT !["run"] = ra, !["check"] = ra])}
                  \cup (IF stocked THEN {Source(b, {}, {}, NoRequirements)} ELSE {}),
    installed |-> EmptyFunction,
    profiles |-> [q \in {full, hollow} |-> IF q = full THEN <<a, b, a>> ELSE <<>>],
    goals |-> goals, build |-> x, target |-> y, preference |-> "retain_compatible"] :
     ra \in {<<>>, <<On(b)>>}, stocked \in BOOLEAN, goals \in ProfileGoals}

-----------------------------------------------------------------------------
(***************************************************************************)
(* For the comparison with the contract: the profiles, cyclic graphs whose *)
(* loops have two turns, and goals with a missing or foreign authority or  *)
(* a requirement that names no origin.                                     *)
(***************************************************************************)
ContractRequests ==
  ProfileRequests
    \cup {GraphRequest(run, build, <<On(b)>>, goals) :
            run \in [MCPackage -> {<<>>, <<On(a)>>, <<On(a), On(b)>>}],
            build \in [MCPackage -> {<<>>, <<On(a), On(b)>>}], goals \in GraphGoals}
    \cup {AuthorityRequest([p \in MCPackage |-> IF p = a THEN ca ELSE {}],
                          [p \in MCPackage |-> IF p = a THEN {} ELSE ib],
                          goals, x, "prefer_catalog") :
            ca \in Sourced(a), ib \in Installations(b), goals \in AuthorityGoals}
=============================================================================
