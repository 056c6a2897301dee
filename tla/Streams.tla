-------------------------------- MODULE Streams --------------------------------
(***************************************************************************)
(* The streams whose SHA-256 identify a request, a selection, an edge, the *)
(* closure of a goal and a result (src/request.cpp, src/resolver.cpp).     *)
(*                                                                         *)
(* An identity of another library, an earlier identity of this one, a name *)
(* and a path are texts, sequences of bytes.  The texts of enumerations    *)
(* and the domains are shortened to one byte each.                         *)
(***************************************************************************)
EXTENDS Encoding, SequencesExt, FiniteSets

-----------------------------------------------------------------------------
(***************************************************************************)
(* What the accessors of the identified values return: std::string and     *)
(* std::vector have a 64-bit size, an optional holds at most one value.    *)
(***************************************************************************)
TextValue   == {s \in Seq(Byte) : Uint64(Len(s))}
NumberValue == {n \in Nat : Uint64(n)}
List(S)     == {l \in Seq(S) : Uint64(Len(l))}
Option(S)   == {l \in Seq(S) : Len(l) <= 1}

Action == {"pre_install", "post_install", "pre_remove", "post_remove"}

ScopeValue ==
  [kind : {"run", "build", "check", "lifecycle"}, action : Option(Action)]

ProvenanceValue ==
  [document : TextValue, path : TextValue, line : NumberValue, column : NumberValue]

StepValue ==
  [profile : TextValue, kind : {"package", "profile"}, member : TextValue,
   provenance : ProvenanceValue]

OriginValue == [declaration : ProvenanceValue, expansion : List(StepValue)]

GoalValue == [scope : ScopeValue, kind : {"package", "profile"}, text : TextValue]

WitnessValue ==
  [kind : {"catalog_source", "installed_state"}, authority : TextValue,
   origins : List(OriginValue)]

MemberValue ==
  [package : TextValue, selection : TextValue, profile : Option(TextValue),
   expansion : List(StepValue)]

ReasonKind ==
  {"direct_goal", "profile_goal", "runtime_requirement", "build_requirement",
   "check_requirement", "lifecycle_requirement"}

ReasonValue ==
  [selection : TextValue, kind : ReasonKind, scope : ScopeValue,
   issuer : Option(TextValue), profile : Option(TextValue),
   profile_identity : Option(TextValue)]

RequestValue ==
  [domain : {"request"}, catalog : TextValue, installed : TextValue, build : TextValue,
   target : TextValue, preference : {"retain_compatible", "prefer_catalog"},
   goals : List(GoalValue)]

SelectionValue ==
  [domain : {"selection"}, request : TextValue, environment : {"build", "target"},
   kind : {"candidate", "installed"}, release : TextValue, source : TextValue,
   build : TextValue, target : TextValue, authority : TextValue]

EdgeValue ==
  [domain : {"edge"}, request : TextValue, issuer : TextValue, required : TextValue,
   scope : ScopeValue, environment : {"build", "target"}, witness : WitnessValue]

ClosureValue ==
  [domain : {"closure"}, request : TextValue, goal : GoalValue, members : List(MemberValue),
   selections : List(TextValue), edges : List(TextValue)]

ResultValue ==
  [domain : {"result"}, request : TextValue, selections : List(TextValue),
   edges : List(TextValue), goals : List(TextValue), reasons : List(ReasonValue)]

Identifiable ==
  RequestValue \cup SelectionValue \cup EdgeValue \cup ClosureValue \cup ResultValue

-----------------------------------------------------------------------------
DomainText ==
  [request |-> <<1>>, selection |-> <<2>>, edge |-> <<3>>, closure |-> <<4>>, result |-> <<5>>]

\* to_string of src/model.cpp.
EnumText ==
  [build |-> <<10>>, target |-> <<11>>,
   retain_compatible |-> <<20>>, prefer_catalog |-> <<21>>,
   candidate |-> <<30>>, installed |-> <<31>>,
   catalog_source |-> <<40>>, installed_state |-> <<41>>,
   direct_goal |-> <<50>>, profile_goal |-> <<51>>, runtime_requirement |-> <<52>>,
   build_requirement |-> <<53>>, check_requirement |-> <<54>>,
   lifecycle_requirement |-> <<55>>]

\* to_string of libpkgsource, for scope kinds, lifecycle actions and subject kinds.
SourceText ==
  [run |-> <<60>>, build |-> <<61>>, check |-> <<62>>, lifecycle |-> <<63>>,
   pre_install |-> <<70>>, post_install |-> <<71>>, pre_remove |-> <<72>>,
   post_remove |-> <<73>>, package |-> <<80>>, profile |-> <<81>>]

\* The kinds of a profile member in libpkgstate are written as numbers.
StateMemberKind == [package |-> 0, profile |-> 1]

-----------------------------------------------------------------------------
Each(items, Write(_)) == FlattenSeq([i \in 1..Len(items) |-> Write(items[i])])

Counted(items, Write(_)) == Number(Len(items)) \o Each(items, Write)

\* An optional value is a sequence of at most one.
Optional(items, Write(_)) == Boolean(items # <<>>) \o Each(items, Write)

WriteTexts(texts)       == Counted(texts, Text)
WriteOptionalText(text) == Optional(text, Text)
WriteAction(action)     == Optional(action, LAMBDA a : Text(SourceText[a]))

WriteScope(scope) == Text(SourceText[scope.kind]) \o WriteAction(scope.action)

WriteProvenance(p) ==
  Text(p.document) \o Text(p.path) \o Number(p.line) \o Number(p.column)

WriteSourceStep(s) ==
  Text(s.profile) \o Text(SourceText[s.kind]) \o Text(s.member) \o WriteProvenance(s.provenance)

WriteStateStep(s) ==
  Text(s.profile) \o Number(StateMemberKind[s.kind]) \o Text(s.member)
    \o WriteProvenance(s.provenance)

WriteSourceSteps(steps) == Counted(steps, WriteSourceStep)
WriteStateSteps(steps)  == Counted(steps, WriteStateStep)

WriteSourceOrigin(o) == WriteProvenance(o.declaration) \o WriteSourceSteps(o.expansion)
WriteStateOrigin(o)  == WriteProvenance(o.declaration) \o WriteStateSteps(o.expansion)

WriteSourceOrigins(origins) == Counted(origins, WriteSourceOrigin)
WriteStateOrigins(origins)  == Counted(origins, WriteStateOrigin)

-----------------------------------------------------------------------------
WriteGoal(g)      == WriteScope(g.scope) \o Text(SourceText[g.kind]) \o Text(g.text)
WriteGoals(goals) == Counted(goals, WriteGoal)

RequestStream(r) ==
  Text(DomainText.request) \o Text(r.catalog) \o Text(r.installed) \o Text(r.build)
    \o Text(r.target) \o Text(EnumText[r.preference]) \o WriteGoals(r.goals)

SelectionStream(s) ==
  Text(DomainText.selection) \o Text(s.request) \o Text(EnumText[s.environment])
    \o Text(EnumText[s.kind]) \o Text(s.release) \o Text(s.source) \o Text(s.build)
    \o Text(s.target) \o Text(s.authority)

\* The witness of an edge: who declared the requirement, and where.
WriteWitness(w) ==
  Text(EnumText[w.kind]) \o Text(w.authority)
    \o IF w.kind = "catalog_source" THEN WriteSourceOrigins(w.origins)
                                    ELSE WriteStateOrigins(w.origins)

EdgeStream(e) ==
  Text(DomainText.edge) \o Text(e.request) \o Text(e.issuer) \o Text(e.required)
    \o WriteScope(e.scope) \o Text(EnumText[e.environment]) \o WriteWitness(e.witness)

WriteMember(m) ==
  Text(m.package) \o Text(m.selection) \o WriteOptionalText(m.profile)
    \o WriteSourceSteps(m.expansion)

WriteMembers(members) == Counted(members, WriteMember)

ClosureStream(c) ==
  Text(DomainText.closure) \o Text(c.request) \o WriteGoal(c.goal)
    \o WriteMembers(c.members) \o WriteTexts(c.selections) \o WriteTexts(c.edges)

WriteReason(x) ==
  Text(x.selection) \o Text(EnumText[x.kind]) \o WriteScope(x.scope)
    \o WriteOptionalText(x.issuer) \o WriteOptionalText(x.profile)
    \o WriteOptionalText(x.profile_identity)

WriteReasons(reasons) == Counted(reasons, WriteReason)

ResultStream(r) ==
  Text(DomainText.result) \o Text(r.request) \o WriteTexts(r.selections)
    \o WriteTexts(r.edges) \o WriteTexts(r.goals) \o WriteReasons(r.reasons)

Stream(v) ==
  CASE v.domain = "request"   -> RequestStream(v)
    [] v.domain = "selection" -> SelectionStream(v)
    [] v.domain = "edge"      -> EdgeStream(v)
    [] v.domain = "closure"   -> ClosureStream(v)
    [] v.domain = "result"    -> ResultStream(v)
=============================================================================
