------------------------------- MODULE MCWitness -------------------------------
(***************************************************************************)
(* Origins that differ in path or line, or in the profile step they came   *)
(* through; one digest names both a source and an installed package.       *)
(***************************************************************************)
EXTENDS Witness

Provenance(path, line) == [document |-> <<1>>, path |-> path, line |-> line, column |-> 2]

Step == [profile |-> <<5>>, kind |-> "package", member |-> <<6>>,
         provenance |-> Provenance(<<1>>, 9)]

MCSources  == {<<1>>, <<2>>}
MCPackages == {<<1>>}

MCOrigins ==
  {[declaration |-> Provenance(<<1>>, 4), expansion |-> <<>>],
   [declaration |-> Provenance(<<1>>, 4), expansion |-> <<Step>>],
   [declaration |-> Provenance(<<1, 1>>, 5), expansion |-> <<>>]}

MCOriginKey(o) ==
  <<Len(o.declaration.path), o.declaration.line, Len(o.expansion)>>
=============================================================================
