------------------------------ MODULE MCAssembly ------------------------------
(***************************************************************************)
(* Requests whose goals share roots, whose profile reaches a package twice *)
(* and whose requirements are cyclic or refused, under both authorities;   *)
(* the check and lifecycle requirements may name no origin.                *)
(***************************************************************************)
EXTENDS Assembly

CONSTANTS a, b, full, half, x

MCPackage == {a, b}

Goal3(p, s) == [scope |-> s, kind |-> "package", name |-> p]
Full(s)     == [scope |-> s, kind |-> "profile", name |-> full]
Half(s)     == [scope |-> s, kind |-> "profile", name |-> half]

MCGoals ==
  {<<Goal3(a, "run"), Full("run"), Half("run")>>,
   <<Goal3(a, "check"), Goal3(a, "run")>>,
   <<Full("build"), Goal3(b, "pre_install")>>,
   <<Goal3(a, "pre_remove"), Goal3(a, "run")>>}

On(p) == [package |-> p, traced |-> TRUE]

Lists == {<<>>, <<On(a)>>, <<On(b)>>, <<On(a), On(b)>>}

MCRequests ==
  {[catalog |->
      {[package |-> p, status |-> "effective", build |-> {}, target |-> {},
        requires |-> [s \in Scope |->
          CASE s = "run" -> run[p]
            [] s = "build" -> build[p]
            [] OTHER -> <<[On(b) EXCEPT !.traced = traced]>>]] :
         p \in MCPackage},
    installed |-> [p \in {a} |->
      [build |-> x, target |-> x, release_matches |-> matches,
       requires |-> [s \in {"run"} \cup LifecycleAction |-> run[a]]]],
    profiles |-> [q \in {full, half} |-> IF q = full THEN <<a, b, a>> ELSE <<b>>], goals |-> goals,
    build |-> x, target |-> x, preference |-> preference] :
     run \in [MCPackage -> Lists], build \in [MCPackage -> {<<>>, <<On(b)>>}],
     <<matches, traced>> \in {<<TRUE, TRUE>>, <<FALSE, TRUE>>, <<TRUE, FALSE>>},
     goals \in MCGoals, preference \in Preference}

\* One order of digests: no order of the fields.
MCSelectionDigest(s) ==
  <<IF s.authority = "installed" THEN 1 ELSE 2, IF s.package = a THEN 9 ELSE 4,
    IF s.environment = "target" THEN 3 ELSE 7>>

MCScopeOrder(s) ==
  CASE s = "run" -> 0 [] s = "build" -> 1 [] s = "check" -> 2 [] s = "pre_install" -> 3
    [] s = "post_install" -> 4 [] s = "pre_remove" -> 5 [] s = "post_remove" -> 6

MCProfileOrder(q) == IF q = full THEN 0 ELSE 1

MCEdgeDigest(e) ==
  <<MCScopeOrder(e.scope)>> \o MCSelectionDigest(e.required) \o MCSelectionDigest(e.issuer)
    \o <<IF e.environment = "target" THEN 0 ELSE 1, IF e.witness = "installed" THEN 0 ELSE 1>>
=============================================================================
