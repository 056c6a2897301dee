----------------------------- MODULE MCPreimages -----------------------------
(***************************************************************************)
(* Values that differ in one field, in where a name or a list ends, in     *)
(* what an option holds, or in a number at the boundary of a byte.         *)
(***************************************************************************)
EXTENDS Preimages

Hash == {<<1>>, <<2>>}

MCName == {<<1>>, <<1, 1>>}

UpToTwo(S) == {<<>>} \cup {<<x>> : x \in S} \cup {<<x, y>> : x, y \in S}

Run        == [kind |-> "run", action |-> <<>>]
PreInstall == [kind |-> "lifecycle", action |-> <<"pre_install">>]
PreRemove  == [kind |-> "lifecycle", action |-> <<"pre_remove">>]

GoalValues ==
  {[scope |-> s, kind |-> k, text |-> t] :
     s \in {Run, PreInstall}, k \in {"package", "profile"}, t \in MCName}

RequestValues ==
  {[domain |-> "request", catalog |-> <<1>>, installed |-> <<1>>, build |-> b, target |-> t,
    preference |-> p, goals |-> g] :
     b \in MCName, t \in MCName, p \in {"retain_compatible", "prefer_catalog"},
     g \in {<<x>> : x \in GoalValues} \cup {<<x, y>> : x, y \in {z \in GoalValues : z.text = <<1>>}}}

SelectionValues ==
  {[domain |-> "selection", request |-> <<9>>, environment |-> e, kind |-> k, release |-> r,
    source |-> <<1>>, build |-> b, target |-> t, authority |-> <<1>>] :
     e \in {"build", "target"}, k \in {"candidate", "installed"}, r \in Hash,
     b \in MCName, t \in MCName}

ProvenanceValues ==
  {[document |-> d, path |-> p, line |-> l, column |-> 2] :
     d \in MCName, p \in MCName, l \in {1, 257}}

Steps ==
  {[profile |-> <<1>>, kind |-> k, member |-> m,
    provenance |-> [document |-> <<1>>, path |-> <<1>>, line |-> 1, column |-> c]] :
     k \in {"package", "profile"}, m \in MCName, c \in {1, 256}}

OneStep == {<<>>} \cup {<<s>> : s \in Steps}

Origins ==
  {[declaration |-> p, expansion |-> <<>>] : p \in ProvenanceValues}
  \cup {[declaration |-> [document |-> <<1>>, path |-> <<1>>, line |-> 1, column |-> 2],
         expansion |-> s] : s \in OneStep}

Witnesses ==
  {[kind |-> k, authority |-> a, origins |-> <<o>>] :
     k \in {"catalog_source", "installed_state"}, a \in Hash, o \in Origins}
  \cup {[kind |-> "catalog_source", authority |-> <<1>>, origins |-> <<o, o2>>] :
         o, o2 \in {x \in Origins : x.declaration.document = <<1>>
                                    /\ x.declaration.path = <<1>>
                                    /\ x.declaration.line = 1}}

AnyWitness == [kind |-> "installed_state", authority |-> <<1>>,
               origins |-> <<CHOOSE o \in Origins : o.expansion = <<>> >>]

EdgeValues ==
  {[domain |-> "edge", request |-> <<9>>, issuer |-> <<1>>, required |-> <<2>>,
    scope |-> Run, environment |-> "target", witness |-> w] : w \in Witnesses}
  \cup
  {[domain |-> "edge", request |-> <<9>>, issuer |-> i, required |-> r,
    scope |-> s, environment |-> e, witness |-> AnyWitness] :
     i \in Hash, r \in Hash, s \in {Run, PreInstall, PreRemove}, e \in {"build", "target"}}

Members ==
  {[package |-> <<1>>, selection |-> <<1>>, profile |-> <<>>, expansion |-> <<>>]}
  \cup {[package |-> <<1>>, selection |-> h, profile |-> <<<<1>>>>, expansion |-> s] :
         h \in Hash, s \in {<<x>> : x \in Steps}}

ClosureValues ==
  {[domain |-> "closure", request |-> <<9>>, goal |-> g, members |-> m,
    selections |-> s, edges |-> e] :
     g \in {[scope |-> Run, kind |-> "package", text |-> <<1>>]},
     m \in {<<x>> : x \in Members}, s \in UpToTwo(Hash), e \in {<<>>, <<<<1>>>>}}

ReasonValues ==
  {[selection |-> <<1>>, kind |-> "direct_goal", scope |-> s, issuer |-> <<>>,
    profile |-> <<>>, profile_identity |-> <<>>] : s \in {Run, PreInstall}}
  \cup {[selection |-> <<1>>, kind |-> "runtime_requirement", scope |-> Run,
         issuer |-> <<h>>, profile |-> <<>>, profile_identity |-> <<>>] : h \in Hash}
  \cup {[selection |-> <<1>>, kind |-> "profile_goal", scope |-> Run, issuer |-> <<>>,
         profile |-> <<n>>, profile_identity |-> <<h>>] : n \in MCName, h \in Hash}

ResultValues ==
  {[domain |-> "result", request |-> <<9>>, selections |-> s, edges |-> e, goals |-> g,
    reasons |-> x] :
     s \in {<<>>, <<<<1>>>>, <<<<1>>, <<1>>>>}, e \in {<<>>, <<<<1>>>>}, g \in {<<<<1>>>>},
     x \in {<<>>} \cup {<<r>> : r \in ReasonValues}}

MCValues == RequestValues \cup SelectionValues \cup EdgeValues \cup ClosureValues \cup ResultValues
=============================================================================
