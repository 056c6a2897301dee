------------------------------- MODULE MCRequest -------------------------------
(***************************************************************************)
(* Two scopes, one of a lifecycle action, and two subjects, one name being *)
(* a prefix of the other.  Two origins may meet in one meaning.            *)
(***************************************************************************)
EXTENDS Request

Run        == [kind |-> "run", action |-> <<>>]
PreInstall == [kind |-> "lifecycle", action |-> <<"pre_install">>]

Named(kind, text) == [kind |-> kind, text |-> text]

MCScopes   == {Run, PreInstall}
MCSubjects == {Named("package", <<1>>), Named("profile", <<1, 1>>)}
MCOrigins  == {"", "o", "p"}

MCContexts ==
  {[catalog |-> <<7>>, installed |-> <<8>>, build |-> <<9>>, target |-> <<9>>]}

MCScopeRank   == [s \in MCScopes |-> IF s = Run THEN 0 ELSE 3]
MCSubjectRank == [s \in MCSubjects |-> Len(s.text)]
=============================================================================
