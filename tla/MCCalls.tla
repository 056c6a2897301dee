------------------------------- MODULE MCCalls -------------------------------
(***************************************************************************)
(* Pairs of calls: requests of a few contexts, alone and in company.       *)
(* Packages that require each other are reached by goals of several        *)
(* scopes, in either order; one of them may be missing or installed.       *)
(***************************************************************************)
EXTENDS Calls

CONSTANTS a, b, full, x

MCPackage == {a, b}

Goal4(p, s) == [scope |-> s, kind |-> "package", name |-> p]
Full        == [scope |-> "run", kind |-> "profile", name |-> full]

On(p) == [package |-> p, traced |-> TRUE]

MCGoals ==
  {<<Goal4(a, "run")>>, <<Goal4(b, "check")>>, <<Goal4(b, "check"), Goal4(a, "run")>>,
   <<Goal4(b, "run"), Goal4(a, "run")>>, <<Goal4(a, "run"), Full, Goal4(b, "check")>>}

MCRequests ==
  {[catalog |->
      {[package |-> p, status |-> "effective", build |-> {}, target |-> {},
        requires |-> [s \in Scope |->
          CASE s = "run" -> run[p] [] s = "build" -> <<>> [] OTHER -> <<On(a)>>]] :
         p \in stocked},
    installed |-> [p \in kept |->
      [build |-> x, target |-> x, release_matches |-> TRUE,
       requires |-> [s \in {"run"} \cup LifecycleAction |-> <<On(b)>>]]],
    profiles |-> [q \in {full} |-> <<b, a>>], goals |-> goals,
    build |-> x, target |-> x, preference |-> "retain_compatible"] :
     run \in [MCPackage -> {<<>>, <<On(a), On(b)>>}], stocked \in {{b}, {a, b}},
     kept \in {{}, {a}}, goals \in MCGoals}

\* One order of digests: no order of the fields.
MCSelectionDigest(s) ==
  <<IF s.authority = "installed" THEN 1 ELSE 2, IF s.package = a THEN 9 ELSE 4,
    IF s.environment = "target" THEN 3 ELSE 7>>

MCScopeOrder(s) ==
  CASE s = "run" -> 0 [] s = "build" -> 1 [] s = "check" -> 2 [] s = "pre_install" -> 3
    [] s = "post_install" -> 4 [] s = "pre_remove" -> 5 [] s = "post_remove" -> 6

MCProfileOrder(q) == 0

MCEdgeDigest(e) ==
  <<MCScopeOrder(e.scope)>> \o MCSelectionDigest(e.required) \o MCSelectionDigest(e.issuer)
    \o <<IF e.environment = "target" THEN 0 ELSE 1, IF e.witness = "installed" THEN 0 ELSE 1>>
=============================================================================
