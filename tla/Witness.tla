-------------------------------- MODULE Witness --------------------------------
(***************************************************************************)
(* The witnesses of requirement edges (src/result.cpp) and their share in  *)
(* the edge identity (src/resolver.cpp).  A witness names the authority    *)
(* that declared a requirement and the places where it did; it is built    *)
(* from a vector of origins in any order, repetitions included.            *)
(***************************************************************************)
EXTENDS Vectors, Streams

CONSTANTS
  Sources,        \* identities of source snapshots
  Packages,       \* identities of installed packages
  Origins,        \* [declaration, expansion], of either library
  OriginKey(_),   \* the order of origins: a tuple of numbers
  MaxOrigins,     \* bound on the origins of one witness
  MaxWitnesses    \* bound on the witnesses built

\* What the other libraries let through; the key orders origins totally.
ASSUME OriginsAssumption ==
  /\ Sources \subseteq TextValue /\ Packages \subseteq TextValue
  /\ Origins \subseteq OriginValue
  /\ MaxOrigins \in NumberValue
  /\ \A o, p \in Origins :
       /\ OriginKey(o) \in Seq(Nat)
       /\ o = p \/ Before(OriginKey(o), OriginKey(p)) \/ Before(OriginKey(p), OriginKey(o))

VARIABLES
  witnesses,  \* the witnesses built so far
  given,      \* the origins each was built from
  code        \* the error of the last call, "none" if it had none

witness_vars == <<witnesses, given, code>>

Kind == {"catalog_source", "installed_state"}

RequirementWitness ==
  [kind : Kind, catalog_source : SUBSET Sources, installed_package : SUBSET Packages,
   catalog_origins : Seq(Origins), installed_origins : Seq(Origins)]

Vector == UNION {[1..n -> Origins] : n \in 0..MaxOrigins}

\* Variant for the mutation runs: the origins stay in the order given.
Neighbours(origins) == Unique(origins)

Normalised(origins) == Unique(Sorted(origins, OriginKey))

-----------------------------------------------------------------------------
WitnessInit == witnesses = <<>> /\ given = <<>> /\ code = "none"

Built(witness, origins) ==
  /\ witnesses' = Append(witnesses, witness)
  /\ given' = Append(given, origins)
  /\ code' = "none"

NoOrigins == code' = "inconsistent_authority" /\ UNCHANGED <<witnesses, given>>

\* Variant for the mutation runs: a witness may have no origin.
CatalogAny(source, origins) ==
  Built([kind |-> "catalog_source", catalog_source |-> {source}, installed_package |-> {},
         catalog_origins |-> Normalised(origins), installed_origins |-> <<>>], origins)

Catalog(source, origins) ==
  IF origins = <<>>
  THEN NoOrigins
  ELSE Built([kind |-> "catalog_source", catalog_source |-> {source},
              installed_package |-> {}, catalog_origins |-> Normalised(origins),
              installed_origins |-> <<>>], origins)

Installed(package, origins) ==
  IF origins = <<>>
  THEN NoOrigins
  ELSE Built([kind |-> "installed_state", catalog_source |-> {},
              installed_package |-> {package}, catalog_origins |-> <<>>,
              installed_origins |-> Normalised(origins)], origins)

WitnessNext ==
  /\ Len(witnesses) < MaxWitnesses
  /\ \E origins \in Vector :
       \/ \E source \in Sources : Catalog(source, origins)
       \/ \E package \in Packages : Installed(package, origins)

WitnessSpec == WitnessInit /\ [][WitnessNext]_witness_vars

-----------------------------------------------------------------------------
(***************************************************************************)
(* edge_identity, for edges that differ in their witness alone.            *)
(***************************************************************************)
EdgeIdentity(w) ==
  EdgeStream(
    [domain |-> "edge", request |-> <<1>>, issuer |-> <<2>>, required |-> <<3>>,
     scope |-> [kind |-> "run", action |-> <<>>], environment |-> "target",
     witness |->
       [kind |-> w.kind,
        authority |-> CHOOSE a \in w.catalog_source \cup w.installed_package : TRUE,
        origins |-> IF w.kind = "catalog_source" THEN w.catalog_origins
                                                 ELSE w.installed_origins]])

(***************************************************************************)
(* A witness is well formed: the optional that edge_identity dereferences  *)
(* for its kind is set, the other is not, and it has an origin.            *)
(***************************************************************************)
WitnessTypeOK ==
  \A n \in 1..Len(witnesses) :
    LET w == witnesses[n]
    IN /\ w \in RequirementWitness
       /\ IF w.kind = "catalog_source"
          THEN w.catalog_source # {} /\ w.catalog_origins # <<>>
                 /\ w.installed_package = {} /\ w.installed_origins = <<>>
          ELSE w.installed_package # {} /\ w.installed_origins # <<>>
                 /\ w.catalog_source = {} /\ w.catalog_origins = <<>>

(***************************************************************************)
(* A requirement has one edge: two witnesses give an edge one identity if  *)
(* and only if they name one authority and the same places, in whichever   *)
(* order and however often these were passed.                              *)
(***************************************************************************)
Places(n) == Elements(given[n])

WitnessCanonical ==
  \A m, n \in 1..Len(witnesses) :
    EdgeIdentity(witnesses[m]) = EdgeIdentity(witnesses[n])
      <=> /\ witnesses[m].kind = witnesses[n].kind
          /\ witnesses[m].catalog_source = witnesses[n].catalog_source
          /\ witnesses[m].installed_package = witnesses[n].installed_package
          /\ Places(m) = Places(n)
=============================================================================
