----------------------------- MODULE MCResolution -----------------------------
(***************************************************************************)
(* Requests with several goals that share roots and requirements, under    *)
(* both authorities, for the whole of run().                               *)
(***************************************************************************)
EXTENDS Resolution

CONSTANTS a, b, full, x

MCPackage == {a, b}

Empty == [p \in {} |-> {}]

Goal2(p, s) == [scope |-> s, kind |-> "package", name |-> p]

SharedGoals ==
  {<<Goal2(a, "run"), Goal2(b, "run")>>,
   <<Goal2(a, "check"), Goal2(a, "run")>>,
   <<Goal2(a, "build"), Goal2(b, "check"), Goal2(b, "run")>>,
   <<Goal2(a, "pre_install"), Goal2(a, "post_install")>>,
   <<Goal2(b, "run"), [scope |-> "run", kind |-> "profile", name |-> full]>>,
   <<Goal2(a, "pre_remove"), Goal2(a, "build"), Goal2(a, "run")>>}

On(p) == [package |-> p, traced |-> TRUE]

Lists == {<<>>, <<On(a)>>, <<On(b)>>}

Sources(run, build, bound) ==
  {[package |-> p, status |-> "effective", build |-> {}, target |-> {},
    requires |-> [s \in Scope |->
      CASE s = "run" -> run[p] [] s = "build" -> build[p] [] OTHER -> bound]] :
     p \in MCPackage}

SharedRequests ==
  {[catalog |-> Sources(run, build, bound),
    installed |-> IF kept
                  THEN [p \in {a} |-> [build |-> x, target |-> x, release_matches |-> TRUE,
                          requires |-> [z \in {"run"} \cup LifecycleAction |-> run[a]]]]
                  ELSE Empty,
    profiles |-> [q \in {full} |-> <<a, b, a>>], goals |-> goals,
    build |-> x, target |-> x, preference |-> preference] :
     run \in [MCPackage -> Lists], build \in [MCPackage -> {<<>>, <<On(b)>>}],
     bound \in {<<>>, <<On(b)>>}, kept \in BOOLEAN, goals \in SharedGoals,
     preference \in Preference}

\* A lifecycle goal and a goal of another scope on one root, which declares a
\* requirement for one of the two scopes or for neither.
TwoScopes ==
  {[catalog |-> {[package |-> a, status |-> "effective", build |-> {}, target |-> {},
                  requires |-> [z \in Scope |-> IF z = bound THEN <<On(b)>> ELSE <<>>]],
                 [package |-> b, status |-> "effective", build |-> {}, target |-> {},
                  requires |-> [z \in Scope |-> <<>>]]},
    installed |-> Empty, profiles |-> Empty, goals |-> <<Goal2(a, s), Goal2(a, t)>>,
    build |-> x, target |-> x, preference |-> "prefer_catalog"] :
     bound \in {"check", "pre_install", "post_install"},
     s \in {"run", "build", "check", "pre_install"}, t \in {"post_install"}}
=============================================================================
