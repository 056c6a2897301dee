---------------------------- MODULE IdentityProofs ----------------------------
(***************************************************************************)
(* Proofs about identities: no two values share one, the one of an edge is *)
(* that of its witness, and the writer hashes what was written, returns a  *)
(* digest and frees its context.                                           *)
(***************************************************************************)
EXTENDS IdentityWriter, Preimages, Witness, StreamProofs, VectorProofs

(***************************************************************************)
(* Whatever is identified, no two values get one identity: only values are *)
(* identified, and two of them never share a stream.                       *)
(***************************************************************************)
THEOREM IdentitiesNeverMeet == PreimagesSpec => []IdentitiesSeparate
<1> DEFINE Inv == identified \subseteq Values
<1>1. PreimagesInit => Inv
  BY DEF PreimagesInit
<1>2. Inv /\ [Identify]_identified => Inv'
  BY DEF Identify
<1>3. Inv => IdentitiesSeparate
  BY StreamsSeparate, ValuesAssumption, Zenon DEF IdentitiesSeparate
<1> QED BY <1>1, <1>2, <1>3, PTL DEF PreimagesSpec

-----------------------------------------------------------------------------
(***************************************************************************)
(* Witnesses.                                                              *)
(***************************************************************************)
OriginKeys == [o \in Origins |-> OriginKey(o)]

LEMMA OriginsKeyed == Keyed(Origins, OriginKeys)
<1>1. OriginKeys \in [Origins -> Seq(Nat)]
  BY OriginsAssumption DEF OriginKeys
<1>2. ASSUME NEW o \in Origins, NEW p \in Origins
      PROVE  /\ Comparable(OriginKeys[o], OriginKeys[p])
             /\ OriginKeys[o] = OriginKeys[p] => o = p
  <2>1. OriginKeys[o] = OriginKey(o) /\ OriginKeys[p] = OriginKey(p)
    BY DEF OriginKeys
  <2>2. o = p \/ Before(OriginKeys[o], OriginKeys[p]) \/ Before(OriginKeys[p], OriginKeys[o])
    BY <2>1, OriginsAssumption
  <2>3. ~ Before(OriginKeys[o], OriginKeys[o])
    BY <1>1, NeverBeforeItself
  <2> QED BY <2>2, <2>3 DEF Comparable
<1> QED BY <1>1, <1>2 DEF Keyed

\* What a constructor makes of the origins passed.
LEMMA NormalisedOrigins ==
  ASSUME NEW origins \in Vector, origins # <<>>
  PROVE  LET w == Normalised(origins)
         IN /\ w \in Seq(Origins) /\ w # <<>> /\ w \in List(OriginValue)
            /\ Elements(w) = Elements(origins)
            /\ AscendsBy(w, OriginKeys)
<1> DEFINE w == Normalised(origins)
<1>1. PICK n \in 0..MaxOrigins : origins \in [1..n -> Origins]
  BY DEF Vector
<1>2. n \in Nat /\ n <= MaxOrigins /\ MaxOrigins \in Nat /\ Uint64(MaxOrigins)
  BY OriginsAssumption DEF NumberValue
<1>3. origins \in Seq(Origins) /\ Len(origins) = n
  BY <1>1, <1>2
<1>4. SortedBy(origins, OriginKeys) = Sorted(origins, OriginKey)
  <2>1. \A i \in 1..Len(origins) : OriginKeys[origins[i]] = OriginKey(origins[i])
    BY <1>3 DEF OriginKeys
  <2>2. KeysIn(origins, OriginKeys) = [i \in 1..Len(origins) |-> OriginKey(origins[i])]
    BY <2>1 DEF KeysIn
  <2> QED BY <2>2 DEF SortedBy, Sorted
<1>5. w = Unique(SortedBy(origins, OriginKeys))
  BY <1>4 DEF Normalised
<1> HIDE DEF w
<1>6. w \in Seq(Origins) /\ Elements(w) = Elements(origins) /\ AscendsBy(w, OriginKeys)
  BY <1>3, <1>5, OriginsKeyed, SortsAndDeduplicates
<1>7. w # <<>>
  <2>1. n # 0
    BY <1>3
  <2>2. 1 \in 1..Len(origins)
    BY <1>2, <1>3, <2>1
  <2>3. origins[1] \in Elements(w)
    BY <1>6, <2>2 DEF Elements
  <2> QED BY <2>3 DEF Elements
<1>8. Len(w) <= n /\ Len(w) \in Nat
  BY <1>3, <1>6, OriginsKeyed, NoLonger
<1>9. w \in List(OriginValue)
  <2>1. Uint64(Len(w))
    <3>1. Len(w) <= MaxOrigins
      BY <1>2, <1>8
    <3> QED BY <1>8, <3>1, OriginsAssumption, NumbersBelow DEF NumberValue
  <2>2. w \in Seq(OriginValue)
    BY <1>6, OriginsAssumption
  <2> QED BY <2>1, <2>2 DEF List
<1> QED BY <1>6, <1>7, <1>9 DEF w

\* A witness as its constructor leaves it.
MadeBySource(w, source, origins) ==
  w = [kind |-> "catalog_source", catalog_source |-> {source}, installed_package |-> {},
       catalog_origins |-> Normalised(origins), installed_origins |-> <<>>]

MadeByPackage(w, package, origins) ==
  w = [kind |-> "installed_state", catalog_source |-> {}, installed_package |-> {package},
       catalog_origins |-> <<>>, installed_origins |-> Normalised(origins)]

Made(w, origins) ==
  \/ \E source \in Sources : MadeBySource(w, source, origins)
  \/ \E package \in Packages : MadeByPackage(w, package, origins)

\* A witness with the authority and the origins of its kind, and no other.
WellFormed(w) ==
  /\ w \in RequirementWitness
  /\ IF w.kind = "catalog_source"
     THEN w.catalog_source # {} /\ w.catalog_origins # <<>>
            /\ w.installed_package = {} /\ w.installed_origins = <<>>
     ELSE w.installed_package # {} /\ w.installed_origins # <<>>
            /\ w.catalog_source = {} /\ w.catalog_origins = <<>>

LEMMA MadeWellFormed ==
  ASSUME NEW origins \in Vector, origins # <<>>, NEW w, Made(w, origins)
  PROVE  WellFormed(w)
<1>1. Normalised(origins) \in Seq(Origins) /\ Normalised(origins) # <<>>
  BY NormalisedOrigins
<1>2. <<>> \in Seq(Origins)
  OBVIOUS
<1>3. ASSUME NEW source \in Sources, MadeBySource(w, source, origins) PROVE WellFormed(w)
  <2>1. {source} \in SUBSET Sources /\ {source} # {} /\ {} \in SUBSET Packages
    OBVIOUS
  <2> QED BY <1>1, <1>2, <1>3, <2>1 DEF MadeBySource, WellFormed, RequirementWitness, Kind
<1>4. ASSUME NEW package \in Packages, MadeByPackage(w, package, origins) PROVE WellFormed(w)
  <2>1. {package} \in SUBSET Packages /\ {package} # {} /\ {} \in SUBSET Sources
    OBVIOUS
  <2>2. "installed_state" # "catalog_source"
    OBVIOUS
  <2> QED BY <1>1, <1>2, <1>4, <2>1, <2>2
          DEF MadeByPackage, WellFormed, RequirementWitness, Kind
<1> QED BY <1>3, <1>4 DEF Made

\* Each witness is one of these, of the origins that were passed.
WitnessInv ==
  /\ witnesses \in Seq(RequirementWitness)
  /\ given \in Seq(Vector)
  /\ Len(given) = Len(witnesses)
  /\ \A n \in 1..Len(witnesses) : given[n] # <<>> /\ Made(witnesses[n], given[n])

LEMMA BuiltWitness ==
  ASSUME WitnessInv, NEW origins \in Vector, origins # <<>>, NEW w, Made(w, origins),
         Built(w, origins)
  PROVE  WitnessInv'
<1> DEFINE n == Len(witnesses)
<1>1. /\ witnesses \in Seq(RequirementWitness) /\ n \in Nat
      /\ given \in Seq(Vector) /\ Len(given) = n
  BY DEF WitnessInv
<1>2. witnesses' = Append(witnesses, w) /\ given' = Append(given, origins)
  BY DEF Built
<1>3. w \in RequirementWitness
  BY MadeWellFormed DEF WellFormed
<1>4. /\ Len(witnesses') = n + 1 /\ Len(given') = n + 1
      /\ witnesses'[n + 1] = w /\ given'[n + 1] = origins
      /\ \A i \in 1..n : witnesses'[i] = witnesses[i] /\ given'[i] = given[i]
      /\ witnesses' \in Seq(RequirementWitness) /\ given' \in Seq(Vector)
  BY <1>1, <1>2, <1>3
<1>5. ASSUME NEW i \in 1..Len(witnesses')
      PROVE  given'[i] # <<>> /\ Made(witnesses'[i], given'[i])
  <2>1. CASE i \in 1..n
    BY <1>4, <2>1 DEF WitnessInv
  <2>2. CASE i = n + 1
    BY <1>4, <2>2
  <2> QED BY <1>1, <1>4, <2>1, <2>2
<1>6. \A i \in 1..Len(witnesses') : given'[i] # <<>> /\ Made(witnesses'[i], given'[i])
  BY <1>5
<1> QED BY <1>4, <1>6 DEF WitnessInv, Made, MadeBySource, MadeByPackage

LEMMA WitnessInductive == WitnessSpec => []WitnessInv
<1>1. WitnessInit => WitnessInv
  BY DEF WitnessInit, WitnessInv
<1>2. WitnessInv /\ [WitnessNext]_witness_vars => WitnessInv'
  <2> SUFFICES ASSUME WitnessInv, [WitnessNext]_witness_vars PROVE WitnessInv'
    OBVIOUS
  <2>1. ASSUME UNCHANGED <<witnesses, given>> PROVE WitnessInv'
    BY <2>1 DEF WitnessInv
  <2>2. ASSUME NEW origins \in Vector, NEW source \in Sources, Catalog(source, origins)
        PROVE  WitnessInv'
    <3>1. CASE origins = <<>>
      BY <2>1, <2>2, <3>1 DEF Catalog, NoOrigins
    <3>2. CASE origins # <<>>
      BY <2>2, <3>2, BuiltWitness DEF Catalog, Made, MadeBySource
    <3> QED BY <3>1, <3>2
  <2>3. ASSUME NEW origins \in Vector, NEW package \in Packages, Installed(package, origins)
        PROVE  WitnessInv'
    <3>1. CASE origins = <<>>
      BY <2>1, <2>3, <3>1 DEF Installed, NoOrigins
    <3>2. CASE origins # <<>>
      BY <2>3, <3>2, BuiltWitness DEF Installed, Made, MadeByPackage
    <3> QED BY <3>1, <3>2
  <2>4. CASE UNCHANGED witness_vars
    BY <2>1, <2>4 DEF witness_vars
  <2> QED BY <2>2, <2>3, <2>4 DEF WitnessNext
<1> QED BY <1>1, <1>2, PTL DEF WitnessSpec

(***************************************************************************)
(* A witness is well formed, whichever constructor made it: the optional   *)
(* that edge_identity() dereferences is set, and origins are never empty.  *)
(***************************************************************************)
THEOREM WitnessesWellFormed == WitnessSpec => []WitnessTypeOK
<1>1. WitnessInv => WitnessTypeOK
  <2>1. ASSUME WitnessInv, NEW n \in 1..Len(witnesses) PROVE WellFormed(witnesses[n])
    <3>1. given[n] \in Vector /\ given[n] # <<>> /\ Made(witnesses[n], given[n])
      BY <2>1 DEF WitnessInv
    <3> QED BY <3>1, MadeWellFormed
  <2> QED BY <2>1 DEF WitnessTypeOK, WellFormed
<1> QED BY <1>1, WitnessInductive, PTL

\* What edge_identity hashes for a witness.
WitnessContent(w) ==
  [kind |-> w.kind,
   authority |-> CHOOSE a \in w.catalog_source \cup w.installed_package : TRUE,
   origins |-> IF w.kind = "catalog_source" THEN w.catalog_origins ELSE w.installed_origins]

EdgeContent(w) ==
  [domain |-> "edge", request |-> <<1>>, issuer |-> <<2>>, required |-> <<3>>,
   scope |-> [kind |-> "run", action |-> <<>>], environment |-> "target",
   witness |-> WitnessContent(w)]

\* Of each kind of witness, it is the kind, the authority and the origins.
LEMMA ContentOfMade ==
  ASSUME NEW w, NEW origins
  PROVE  /\ \A source \in Sources : MadeBySource(w, source, origins) =>
              WitnessContent(w) = [kind |-> "catalog_source", authority |-> source,
                                   origins |-> Normalised(origins)]
         /\ \A package \in Packages : MadeByPackage(w, package, origins) =>
              WitnessContent(w) = [kind |-> "installed_state", authority |-> package,
                                   origins |-> Normalised(origins)]
<1>1. ASSUME NEW source \in Sources, MadeBySource(w, source, origins)
      PROVE  WitnessContent(w) = [kind |-> "catalog_source", authority |-> source,
                                  origins |-> Normalised(origins)]
  <2>1. /\ w.kind = "catalog_source" /\ w.catalog_origins = Normalised(origins)
        /\ w.catalog_source \cup w.installed_package = {source}
    BY <1>1 DEF MadeBySource
  <2>2. (CHOOSE a \in {source} : TRUE) = source
    OBVIOUS
  <2> QED BY <2>1, <2>2 DEF WitnessContent
<1>2. ASSUME NEW package \in Packages, MadeByPackage(w, package, origins)
      PROVE  WitnessContent(w) = [kind |-> "installed_state", authority |-> package,
                                  origins |-> Normalised(origins)]
  <2>1. /\ w.kind = "installed_state" /\ w.installed_origins = Normalised(origins)
        /\ w.catalog_source \cup w.installed_package = {package}
        /\ w.kind # "catalog_source"
    BY <1>2 DEF MadeByPackage
  <2>2. (CHOOSE a \in {package} : TRUE) = package
    OBVIOUS
  <2> QED BY <2>1, <2>2 DEF WitnessContent
<1> QED BY <1>1, <1>2

\* It is a value that Streams identifies.
LEMMA EdgeContentType ==
  ASSUME NEW origins \in Vector, origins # <<>>, NEW w, Made(w, origins)
  PROVE  EdgeContent(w) \in EdgeValue
<1>1. Normalised(origins) \in List(OriginValue)
  BY NormalisedOrigins
<1>2. WitnessContent(w) \in WitnessValue
  BY <1>1, ContentOfMade, OriginsAssumption DEF Made, WitnessValue
<1>3. <<1>> \in TextValue /\ <<2>> \in TextValue /\ <<3>> \in TextValue
  BY ShortText DEF Byte
<1>4. [kind |-> "run", action |-> <<>>] \in ScopeValue
  BY DEF ScopeValue, Option
<1> QED BY <1>2, <1>3, <1>4 DEF EdgeContent, EdgeValue

\* What is hashed says who declared the requirement, and where.
LEMMA ContentTells ==
  ASSUME NEW a \in Vector, a # <<>>, NEW v, Made(v, a),
         NEW b \in Vector, b # <<>>, NEW w, Made(w, b)
  PROVE  WitnessContent(v) = WitnessContent(w)
           <=> /\ v.kind = w.kind /\ v.catalog_source = w.catalog_source
               /\ v.installed_package = w.installed_package
               /\ Elements(a) = Elements(b)
<1>1. Normalised(a) = Normalised(b) <=> Elements(a) = Elements(b)
  <2>1. /\ Normalised(a) \in Seq(Origins) /\ Elements(Normalised(a)) = Elements(a)
        /\ AscendsBy(Normalised(a), OriginKeys)
    BY NormalisedOrigins
  <2>2. /\ Normalised(b) \in Seq(Origins) /\ Elements(Normalised(b)) = Elements(b)
        /\ AscendsBy(Normalised(b), OriginKeys)
    BY NormalisedOrigins
  <2>3. Elements(a) = Elements(b) => Normalised(a) = Normalised(b)
    BY <2>1, <2>2, OriginsKeyed, SameVector
  <2> QED BY <2>1, <2>2, <2>3
<1>2. "catalog_source" # "installed_state"
  OBVIOUS
<1>3. CASE \E s \in Sources : MadeBySource(v, s, a)
  <2>1. PICK s \in Sources : MadeBySource(v, s, a)
    BY <1>3
  <2>2. WitnessContent(v) = [kind |-> "catalog_source", authority |-> s,
                             origins |-> Normalised(a)]
    BY <2>1, ContentOfMade
  <2>3. ASSUME NEW t \in Sources, MadeBySource(w, t, b)
        PROVE  WitnessContent(v) = WitnessContent(w)
                 <=> /\ v.kind = w.kind /\ v.catalog_source = w.catalog_source
                     /\ v.installed_package = w.installed_package
                     /\ Elements(a) = Elements(b)
    <3>1. WitnessContent(w) = [kind |-> "catalog_source", authority |-> t,
                               origins |-> Normalised(b)]
      BY <2>3, ContentOfMade
    <3>2. {s} = {t} <=> s = t
      OBVIOUS
    <3> QED BY <1>1, <2>1, <2>2, <2>3, <3>1, <3>2 DEF MadeBySource
  <2>4. ASSUME NEW t \in Packages, MadeByPackage(w, t, b)
        PROVE  WitnessContent(v) # WitnessContent(w) /\ v.kind # w.kind
    <3>1. WitnessContent(w) = [kind |-> "installed_state", authority |-> t,
                               origins |-> Normalised(b)]
      BY <2>4, ContentOfMade
    <3> QED BY <1>2, <2>1, <2>2, <2>4, <3>1 DEF MadeBySource, MadeByPackage
  <2> QED BY <2>3, <2>4 DEF Made
<1>4. CASE \E s \in Packages : MadeByPackage(v, s, a)
  <2>1. PICK s \in Packages : MadeByPackage(v, s, a)
    BY <1>4
  <2>2. WitnessContent(v) = [kind |-> "installed_state", authority |-> s,
                             origins |-> Normalised(a)]
    BY <2>1, ContentOfMade
  <2>3. ASSUME NEW t \in Packages, MadeByPackage(w, t, b)
        PROVE  WitnessContent(v) = WitnessContent(w)
                 <=> /\ v.kind = w.kind /\ v.catalog_source = w.catalog_source
                     /\ v.installed_package = w.installed_package
                     /\ Elements(a) = Elements(b)
    <3>1. WitnessContent(w) = [kind |-> "installed_state", authority |-> t,
                               origins |-> Normalised(b)]
      BY <2>3, ContentOfMade
    <3>2. {s} = {t} <=> s = t
      OBVIOUS
    <3> QED BY <1>1, <2>1, <2>2, <2>3, <3>1, <3>2 DEF MadeByPackage
  <2>4. ASSUME NEW t \in Sources, MadeBySource(w, t, b)
        PROVE  WitnessContent(v) # WitnessContent(w) /\ v.kind # w.kind
    <3>1. WitnessContent(w) = [kind |-> "catalog_source", authority |-> t,
                               origins |-> Normalised(b)]
      BY <2>4, ContentOfMade
    <3> QED BY <1>2, <2>1, <2>2, <2>4, <3>1 DEF MadeBySource, MadeByPackage
  <2> QED BY <2>3, <2>4 DEF Made
<1> QED BY <1>3, <1>4 DEF Made

(***************************************************************************)
(* However the origins of a requirement are ordered and however often they *)
(* are repeated, the edge has one identity, and it has another as soon as  *)
(* the authority or one of the places differs.                             *)
(***************************************************************************)
THEOREM WitnessesIdentify == WitnessSpec => []WitnessCanonical
<1>1. ASSUME WitnessInv, NEW m \in 1..Len(witnesses), NEW n \in 1..Len(witnesses)
      PROVE  EdgeIdentity(witnesses[m]) = EdgeIdentity(witnesses[n])
               <=> /\ witnesses[m].kind = witnesses[n].kind
                   /\ witnesses[m].catalog_source = witnesses[n].catalog_source
                   /\ witnesses[m].installed_package = witnesses[n].installed_package
                   /\ Places(m) = Places(n)
  <2> DEFINE v == witnesses[m]
             w == witnesses[n]
  <2>1. /\ given[m] \in Vector /\ given[m] # <<>> /\ Made(v, given[m])
        /\ given[n] \in Vector /\ given[n] # <<>> /\ Made(w, given[n])
    BY <1>1 DEF WitnessInv
  <2> HIDE DEF v, w
  <2>2. EdgeIdentity(v) = EdgeStream(EdgeContent(v)) /\ EdgeIdentity(w) = EdgeStream(EdgeContent(w))
    BY DEF EdgeIdentity, EdgeContent, WitnessContent
  <2>3. EdgeContent(v) \in EdgeValue /\ EdgeContent(w) \in EdgeValue
    BY <2>1, EdgeContentType
  <2>4. EdgeStream(EdgeContent(v)) = EdgeStream(EdgeContent(w)) => EdgeContent(v) = EdgeContent(w)
    BY <2>3, TellsEdge DEF Tells
  <2>5. EdgeContent(v) = EdgeContent(w) <=> WitnessContent(v) = WitnessContent(w)
    BY DEF EdgeContent
  <2>6. WitnessContent(v) = WitnessContent(w)
          <=> /\ v.kind = w.kind /\ v.catalog_source = w.catalog_source
              /\ v.installed_package = w.installed_package
              /\ Elements(given[m]) = Elements(given[n])
    BY <2>1, ContentTells
  <2>7. EdgeIdentity(v) = EdgeIdentity(w) <=> WitnessContent(v) = WitnessContent(w)
    BY <2>2, <2>4, <2>5, Zenon
  <2> QED BY <2>6, <2>7 DEF v, w, Places
<1>2. WitnessInv => WitnessCanonical
  BY <1>1 DEF WitnessCanonical
<1> QED BY <1>2, WitnessInductive, PTL

-----------------------------------------------------------------------------
\* The sixteen digits are distinct.
LEMMA DigitsDiffer ==
  ASSUME NEW i \in 1..16, NEW j \in 1..16, HexDigit[i] = HexDigit[j]
  PROVE  i = j
  BY DEF HexDigit

\* A byte is two digits.
LEMMA Halves ==
  ASSUME NEW b \in Byte
  PROVE  /\ b \div 16 \in 0..15 /\ b % 16 \in 0..15
         /\ b = (16 * (b \div 16)) + (b % 16)
  BY DEF Byte

\* Every digit of a text belongs to a byte.
LEMMA EvenAndOdd ==
  ASSUME NEW n \in Nat, NEW i \in 1..(2 * n)
  PROVE  /\ i % 2 = 1 => (i + 1) \div 2 \in 1..n
         /\ i % 2 # 1 => i \div 2 \in 1..n
  OBVIOUS

\* Digits written alike are equal.
LEMMA SameDigit ==
  ASSUME NEW x \in 0..15, NEW y \in 0..15, HexDigit[1 + x] = HexDigit[1 + y]
  PROVE  x = y
<1>1. PICK i \in 1..16 : i = 1 + x
  OBVIOUS
<1>2. PICK j \in 1..16 : j = 1 + y
  OBVIOUS
<1>3. HexDigit[i] = HexDigit[j]
  BY <1>1, <1>2, Zenon
<1>4. i = j
  BY <1>3, DigitsDiffer, Zenon
<1> QED BY <1>1, <1>2, <1>4

LEMMA SixteenDigits == \A d \in 0..15 : 1 + d \in 1..16
  OBVIOUS

\* What is written is a digit.
LEMMA DigitInRange ==
  ASSUME NEW bytes \in Seq(Byte), NEW i \in 1..(2 * Len(bytes))
  PROVE  \E d \in 1..16 : DigitAt(bytes, i) = HexDigit[d]
<1>1. CASE i % 2 = 1
  <2> DEFINE h == (i + 1) \div 2
  <2>0. h \in 1..Len(bytes)
    <3> DEFINE n == Len(bytes)
    <3>1. n \in Nat /\ i \in 1..(2 * n)
      BY LenProperties
    <3> HIDE DEF n
    <3>2. h \in 1..n
      BY <1>1, <3>1, EvenAndOdd
    <3> QED BY <3>2 DEF n
  <2> HIDE DEF h
  <2>1. bytes[h] \in Byte
    BY <2>0, ElementOfSeq
  <2>2. bytes[h] \div 16 \in 0..15
    BY <2>1, Halves
  <2>3. 1 + (bytes[h] \div 16) \in 1..16
    BY <2>2, SixteenDigits, Zenon
  <2> QED BY <1>1, <2>3 DEF DigitAt, h
<1>2. CASE i % 2 # 1
  <2> DEFINE h == i \div 2
  <2>0. h \in 1..Len(bytes)
    <3> DEFINE n == Len(bytes)
    <3>1. n \in Nat /\ i \in 1..(2 * n)
      BY LenProperties
    <3> HIDE DEF n
    <3>2. h \in 1..n
      BY <1>2, <3>1, EvenAndOdd
    <3> QED BY <3>2 DEF n
  <2> HIDE DEF h
  <2>1. bytes[h] \in Byte
    BY <2>0, ElementOfSeq
  <2>2. bytes[h] % 16 \in 0..15
    BY <2>1, Halves
  <2>3. 1 + (bytes[h] % 16) \in 1..16
    BY <2>2, SixteenDigits, Zenon
  <2> QED BY <1>2, <2>3 DEF DigitAt, h
<1> QED BY <1>1, <1>2

(***************************************************************************)
(* Every digest, rendered in hexadecimal, is what from_sha256 accepts.     *)
(***************************************************************************)
THEOREM HexAccepted ==
  ASSUME NEW bytes \in Seq(Byte), Len(bytes) = DigestSize
  PROVE  Sha256Hex(Hex(bytes))
<1>1. Len(Hex(bytes)) = 2 * DigestSize
  BY DEF Hex, DigestSize
<1>2. ASSUME NEW i \in 1..Len(Hex(bytes))
      PROVE  \E d \in 1..16 : Hex(bytes)[i] = HexDigit[d]
  <2>1. i \in 1..(2 * Len(bytes))
    BY <1>1
  <2>2. Hex(bytes)[i] = DigitAt(bytes, i)
    BY <2>1 DEF Hex
  <2> QED BY <2>1, <2>2, DigitInRange
<1> QED BY <1>1, <1>2 DEF Sha256Hex

(***************************************************************************)
(* Two digests that are rendered alike are equal, so that comparing the    *)
(* hexadecimal texts compares the digests.                                 *)
(***************************************************************************)
THEOREM HexReadable ==
  ASSUME NEW a \in Seq(Byte), NEW b \in Seq(Byte), Len(a) = Len(b), Hex(a) = Hex(b)
  PROVE  a = b
<1>1. ASSUME NEW k \in 1..Len(a) PROVE a[k] = b[k]
  <2>1. /\ 2 * k - 1 \in 1..(2 * Len(a)) /\ 2 * k \in 1..(2 * Len(a))
        /\ (2 * k - 1) % 2 = 1 /\ ((2 * k - 1) + 1) \div 2 = k
        /\ (2 * k) % 2 # 1 /\ (2 * k) \div 2 = k
    OBVIOUS
  <2>2. DigitAt(a, 2 * k - 1) = DigitAt(b, 2 * k - 1) /\ DigitAt(a, 2 * k) = DigitAt(b, 2 * k)
    BY <2>1 DEF Hex
  <2>3. a[k] \in Byte /\ b[k] \in Byte
    OBVIOUS
  <2>4. HexDigit[1 + (a[k] \div 16)] = HexDigit[1 + (b[k] \div 16)]
    BY <2>1, <2>2 DEF DigitAt
  <2>5. HexDigit[1 + (a[k] % 16)] = HexDigit[1 + (b[k] % 16)]
    BY <2>1, <2>2 DEF DigitAt
  <2>6. /\ a[k] \div 16 \in 0..15 /\ b[k] \div 16 \in 0..15
        /\ a[k] % 16 \in 0..15 /\ b[k] % 16 \in 0..15
        /\ a[k] = (16 * (a[k] \div 16)) + (a[k] % 16)
        /\ b[k] = (16 * (b[k] \div 16)) + (b[k] % 16)
    BY <2>3, Halves
  <2>7. a[k] \div 16 = b[k] \div 16
    BY <2>4, <2>6, SameDigit, Zenon
  <2>8. a[k] % 16 = b[k] % 16
    BY <2>5, <2>6, SameDigit, Zenon
  <2> QED BY <2>6, <2>7, <2>8
<1> QED BY <1>1, SeqEqual

(***************************************************************************)
(* convert_release compares the texts of two digests, each rendered by a   *)
(* loop of its own, to decide whether an installed release is the one the  *)
(* source domain knows: the texts agree if and only if the digests do.     *)
(***************************************************************************)
THEOREM ReleaseTextsDecide ==
  ASSUME NEW a \in Seq(Byte), NEW b \in Seq(Byte), Len(a) = Len(b)
  PROVE  StateDigestHex(a) = Hex(b) <=> a = b
<1>1. ASSUME NEW i \in 1..(2 * Len(a)) PROVE StateDigestHex(a)[i] = Hex(a)[i]
  <2>1. StateDigestHex(a)[i] =
          HexDigit[1 + IF i % 2 = 1 THEN (a[(i + 1) \div 2] \div 16) % 16
                                    ELSE a[(i + 1) \div 2] % 16]
    BY DEF StateDigestHex
  <2>2. Hex(a)[i] = DigitAt(a, i)
    BY DEF Hex
  <2>3. CASE i % 2 = 1
    <3>1. a[(i + 1) \div 2] \in Byte
      BY <2>3, EvenAndOdd
    <3>2. a[(i + 1) \div 2] \div 16 \in 0..15
      BY <3>1, Halves, Zenon
    <3>3. \A h \in 0..15 : h % 16 = h
      OBVIOUS
    <3>4. (a[(i + 1) \div 2] \div 16) % 16 = a[(i + 1) \div 2] \div 16
      BY <3>2, <3>3, Zenon
    <3> QED BY <2>1, <2>2, <2>3, <3>4 DEF DigitAt
  <2>4. CASE i % 2 # 1
    <3>1. (i + 1) \div 2 = i \div 2
      BY <2>4
    <3> QED BY <2>1, <2>2, <2>4, <3>1 DEF DigitAt
  <2> QED BY <2>3, <2>4
<1>2. StateDigestHex(a) = Hex(a)
  BY <1>1 DEF StateDigestHex, Hex
<1> QED BY <1>2, HexReadable

-----------------------------------------------------------------------------
(***************************************************************************)
(* The writer.  Its context is live from the allocation to the end of      *)
(* finish() or of the object; what finish() returned renders a digest; and *)
(* every byte hashed is accounted for by the values written, which can be  *)
(* read back, but for the length of a text whose bytes are still to come.  *)
(***************************************************************************)
Marks == Seq([start : Nat, number : Nat, text : Seq(Byte)])

Accounted ==
  /\ written \in Seq(Seq(Byte))
  /\ marks \in Marks
  /\ ReadIn(FlattenSeq(written), marks)
  /\ \/ owed = <<>> /\ stream = FlattenSeq(written)
     \/ \E s \in Texts : owed = <<s>> /\ stream = FlattenSeq(written) \o Number(Len(s))

WriterInv ==
  /\ object \in {"absent", "constructing", "alive", "unwinding", "gone"}
  /\ context \in {"null", "live"}
  /\ object = "absent" => context = "null"
  /\ object = "constructing" => context = "live" /\ hex = <<>>
  /\ object = "absent" => hex = <<>>
  /\ hex # <<>> => context = "null" /\ owed = <<>>
  /\ hex = <<>> \/ \E d \in Digests : hex = Hex(d)
  /\ ContextOwned
  /\ Accounted

\* Quotient and remainder make the number.
LEMMA Recombined ==
  ASSUME NEW v \in Nat
  PROVE  Then(v \div 256, v % 256) = v
<1>1. v = (256 * (v \div 256)) + (v % 256) /\ v \div 256 \in Nat /\ v % 256 \in Nat
  BY Division
<1> QED BY <1>1 DEF Then

\* The eight bytes of a number are the number, read from the high end down.
LEMMA NumberReads ==
  ASSUME NEW v, Uint64(v)
  PROVE  BigEndianAt(Number(v), 0) = v
<1> DEFINE v1 == v \div 256   v2 == v1 \div 256  v3 == v2 \div 256  v4 == v3 \div 256
           v5 == v4 \div 256  v6 == v5 \div 256  v7 == v6 \div 256
           s  == Number(v)
<1>1. /\ v \in Nat /\ v1 \in Nat /\ v2 \in Nat /\ v3 \in Nat
      /\ v4 \in Nat /\ v5 \in Nat /\ v6 \in Nat /\ v7 \in Nat
  BY Division DEF Uint64
<1>2. v7 < 256
  BY DEF Uint64
<1>3. /\ s[0 + 1] = v7 % 256 /\ s[0 + 2] = v6 % 256
      /\ s[0 + 3] = v5 % 256 /\ s[0 + 4] = v4 % 256
      /\ s[0 + 5] = v3 % 256 /\ s[0 + 6] = v2 % 256
      /\ s[0 + 7] = v1 % 256 /\ s[0 + 8] = v % 256
  BY DEF Number
<1>4. v7 % 256 = v7
  BY <1>1, <1>2
<1> HIDE DEF s, v1, v2, v3, v4, v5, v6, v7
<1>5. Then(v7, v6 % 256) = v6 /\ Then(v6, v5 % 256) = v5
  BY <1>1, Recombined DEF v7, v6
<1>6. Then(v5, v4 % 256) = v4 /\ Then(v4, v3 % 256) = v3
  BY <1>1, Recombined DEF v5, v4
<1>7. Then(v3, v2 % 256) = v2 /\ Then(v2, v1 % 256) = v1
  BY <1>1, Recombined DEF v3, v2
<1>8. Then(v1, v % 256) = v
  BY <1>1, Recombined DEF v1
<1>9. /\ s[0 + 1] = v7 /\ Then(v7, s[0 + 2]) = v6 /\ Then(v6, s[0 + 3]) = v5
      /\ Then(v5, s[0 + 4]) = v4 /\ Then(v4, s[0 + 5]) = v3 /\ Then(v3, s[0 + 6]) = v2
      /\ Then(v2, s[0 + 7]) = v1 /\ Then(v1, s[0 + 8]) = v
  BY <1>3, <1>4, <1>5, <1>6, <1>7, <1>8
<1>10. BigEndianAt(s, 0) = v
  BY <1>9 DEF BigEndianAt
<1> QED BY <1>10 DEF s

\* The elements of a concatenation.
LEMMA Concatenated ==
  ASSUME NEW a \in Seq(Byte), NEW b \in Seq(Byte)
  PROVE  /\ a \o b \in Seq(Byte)
         /\ Len(a \o b) = Len(a) + Len(b)
         /\ \A i \in 1..Len(a) : (a \o b)[i] = a[i]
         /\ \A i \in 1..Len(b) : (a \o b)[Len(a) + i] = b[i]
<1>1. \A i \in 1..Len(b) : (a \o b)[Len(a) + i] = b[i]
  OBVIOUS
<1>2. \A i \in 1..Len(a) : (a \o b)[i] = a[i]
  OBVIOUS
<1> QED BY <1>1, <1>2, ConcatProperties

\* What ends within a stream lies within it.
LEMMA Within ==
  \A a, b, c \in Nat : a + 8 + b <= c => \A j \in 1..(8 + b) : a + j \in 1..c
OBVIOUS

LEMMA OneBefore == \A n \in Nat : \A i \in 1..n : i # 1 => i - 1 \in 1..n
OBVIOUS

LEMMA OneMore == \A n \in Nat : \A i \in 1..(n + 1) : i \in 1..n \/ i = n + 1
OBVIOUS

LEMMA Behind ==
  \A a, b \in Nat : \A j \in 1..b : 8 + j \in 1..(8 + b) /\ a + (8 + j) = a + 8 + j
OBVIOUS

LEMMA FirstEight == \A b \in Nat : \A i \in 1..8 : i \in 1..(8 + b)
OBVIOUS

\* One more value at the end of a stream is read there, the others where they were.
LEMMA ReadsOneMore ==
  ASSUME NEW T \in Seq(Byte), NEW ms \in Marks, ReadIn(T, ms),
         NEW v, Uint64(v), NEW s \in Seq(Byte)
  PROVE  /\ Append(ms, Mark(Len(T), v, s)) \in Marks
         /\ ReadIn(T \o (Number(v) \o s), Append(ms, Mark(Len(T), v, s)))
<1> DEFINE p  == Number(v) \o s
           m  == Mark(Len(T), v, s)
           U  == T \o p
           ns == Append(ms, m)
<1>1. /\ v \in Nat /\ Number(v) \in Seq(Byte) /\ Len(Number(v)) = 8
      /\ Len(T) \in Nat /\ Len(s) \in Nat /\ Len(ms) \in Nat
  BY NumberBytes DEF Uint64, Marks
<1>2. /\ p \in Seq(Byte) /\ Len(p) = 8 + Len(s)
      /\ \A i \in 1..8 : p[i] = Number(v)[i]
      /\ \A j \in 1..Len(s) : p[8 + j] = s[j]
  <2>1. /\ p \in Seq(Byte) /\ Len(p) = Len(Number(v)) + Len(s)
        /\ \A i \in 1..Len(Number(v)) : p[i] = Number(v)[i]
        /\ \A j \in 1..Len(s) : p[Len(Number(v)) + j] = s[j]
    BY <1>1, Concatenated, Zenon
  <2>2. Len(Number(v)) = 8
    BY <1>1
  <2> QED BY <2>1, <2>2, Zenon
<1> HIDE DEF p
<1>3. Len(U) = Len(T) + 8 + Len(s)
  <2>1. Len(U) = Len(T) + Len(p)
    BY <1>2, Concatenated
  <2>2. Len(p) = 8 + Len(s) /\ Len(T) \in Nat /\ Len(s) \in Nat
    BY <1>1, <1>2, Zenon
  <2> QED BY <2>1, <2>2
<1>4. /\ \A i \in 1..Len(T) : U[i] = T[i]
      /\ \A i \in 1..Len(p) : U[Len(T) + i] = p[i]
  BY <1>2, Concatenated, Zenon
<1>5. m.start = Len(T) /\ m.number = v /\ m.text = s /\ MarkEnd(m) = Len(U)
  BY <1>1, <1>3 DEF Mark, MarkEnd
<1>6. m \in [start : Nat, number : Nat, text : Seq(Byte)]
  BY <1>1 DEF Mark
<1> HIDE DEF U, m
<1>7. /\ ns \in Marks /\ ns # <<>> /\ Len(ns) = Len(ms) + 1 /\ ns[Len(ms) + 1] = m
      /\ \A i \in 1..Len(ms) : ns[i] = ms[i] /\ ms[i].start \in Nat /\ ms[i].text \in Seq(Byte)
  <2> DEFINE M == [start : Nat, number : Nat, text : Seq(Byte)]
  <2>1. ms \in Seq(M) /\ m \in M
    BY <1>6 DEF Marks
  <2>2. \A x \in M : x.start \in Nat /\ x.text \in Seq(Byte)
    OBVIOUS
  <2>3. Seq(M) = Marks
    BY DEF Marks
  <2> HIDE DEF M
  <2>4. /\ ns \in Seq(M) /\ ns # <<>> /\ Len(ns) = Len(ms) + 1 /\ ns[Len(ms) + 1] = m
        /\ \A i \in 1..Len(ms) : ns[i] = ms[i]
    BY <2>1, AppendProperties
  <2>5. \A i \in 1..Len(ms) : ms[i] \in M
    BY <2>1
  <2>6. \A i \in 1..Len(ms) : ms[i].start \in Nat /\ ms[i].text \in Seq(Byte)
    BY <2>2, <2>5, Zenon
  <2>7. ns \in Marks
    BY <2>3, <2>4, Zenon
  <2> QED BY <2>4, <2>6, <2>7, Zenon
<1> HIDE DEF ns
<1>8. Len(U) = MarkEnd(ns[Len(ns)])
  BY <1>5, <1>7
<1>9. \A i \in 1..Len(ns) : ns[i].start = IF i = 1 THEN 0 ELSE MarkEnd(ns[i - 1])
  <2>1. \A i \in 1..Len(ms) : ms[i].start = IF i = 1 THEN 0 ELSE MarkEnd(ms[i - 1])
    BY DEF ReadIn
  <2>2. \A i \in 1..Len(ms) : i # 1 => ns[i - 1] = ms[i - 1]
    BY <1>1, <1>7, OneBefore, Zenon
  <2>3. ASSUME NEW i \in 1..Len(ms)
        PROVE  ns[i].start = IF i = 1 THEN 0 ELSE MarkEnd(ns[i - 1])
    BY <1>7, <2>1, <2>2
  <2>4. m.start = IF Len(ns) = 1 THEN 0 ELSE MarkEnd(ns[Len(ns) - 1])
    <3>1. Len(T) = IF ms = <<>> THEN 0 ELSE MarkEnd(ms[Len(ms)])
      BY DEF ReadIn
    <3>2. Len(ms) = 0 <=> ms = <<>>
      BY DEF Marks
    <3>3. Len(ns) - 1 = Len(ms) /\ (Len(ns) = 1 <=> Len(ms) = 0)
      BY <1>1, <1>7
    <3>4. ms # <<>> => Len(ms) \in 1..Len(ms)
      BY <1>1, <3>2
    <3> QED BY <1>5, <1>7, <3>1, <3>2, <3>3, <3>4
  <2>5. \A i \in 1..Len(ns) : i \in 1..Len(ms) \/ (i = Len(ns) /\ ns[i] = m)
    BY <1>1, <1>7, OneMore, Zenon
  <2> QED BY <2>3, <2>4, <2>5, Zenon
<1>10. ASSUME NEW i \in 1..Len(ms)
       PROVE  /\ MarkEnd(ns[i]) <= Len(U)
              /\ BigEndianAt(U, ns[i].start) = ns[i].number
              /\ \A j \in 1..Len(ns[i].text) : U[ns[i].start + 8 + j] = ns[i].text[j]
  <2> DEFINE n == ms[i]
  <2>1. /\ ns[i] = n /\ n.start \in Nat /\ n.text \in Seq(Byte) /\ Len(n.text) \in Nat
    BY <1>7
  <2>2. /\ MarkEnd(n) <= Len(T)
        /\ BigEndianAt(T, n.start) = n.number
        /\ \A j \in 1..Len(n.text) : T[n.start + 8 + j] = n.text[j]
    BY DEF ReadIn
  <2> HIDE DEF n
  <2>3. n.start + 8 + Len(n.text) <= Len(T)
    BY <2>2 DEF MarkEnd
  <2>4. \A j \in 1..(8 + Len(n.text)) : U[n.start + j] = T[n.start + j]
    <3> SUFFICES ASSUME NEW j \in 1..(8 + Len(n.text)) PROVE U[n.start + j] = T[n.start + j]
      OBVIOUS
    <3>1. Len(T) \in Nat /\ n.start \in Nat /\ Len(n.text) \in Nat
      BY <1>1, <2>1, Zenon
    <3>2. n.start + j \in 1..Len(T)
      BY <2>3, <3>1, Within, Zenon
    <3> QED BY <1>4, <3>2, Zenon
  <2>5. /\ U[n.start + 1] = T[n.start + 1] /\ U[n.start + 2] = T[n.start + 2]
        /\ U[n.start + 3] = T[n.start + 3] /\ U[n.start + 4] = T[n.start + 4]
        /\ U[n.start + 5] = T[n.start + 5] /\ U[n.start + 6] = T[n.start + 6]
        /\ U[n.start + 7] = T[n.start + 7] /\ U[n.start + 8] = T[n.start + 8]
    <3>1. \A j \in 1..8 : U[n.start + j] = T[n.start + j]
      BY <2>1, <2>4, FirstEight, Zenon
    <3> QED BY <3>1
  <2>6. BigEndianAt(U, n.start) = BigEndianAt(T, n.start)
    BY <2>5 DEF BigEndianAt
  <2>7. \A j \in 1..Len(n.text) : U[n.start + 8 + j] = n.text[j]
    <3> SUFFICES ASSUME NEW j \in 1..Len(n.text) PROVE U[n.start + 8 + j] = n.text[j]
      OBVIOUS
    <3>1. 8 + j \in 1..(8 + Len(n.text)) /\ n.start + (8 + j) = n.start + 8 + j
      BY <2>1, Behind, Zenon
    <3> QED BY <2>2, <2>4, <3>1
  <2>8. MarkEnd(n) <= Len(U)
    <3>1. /\ n.start \in Nat /\ Len(n.text) \in Nat
          /\ Len(T) \in Nat /\ Len(s) \in Nat
      BY <1>1, <2>1, Zenon
    <3> QED BY <1>3, <2>3, <3>1 DEF MarkEnd
  <2> QED BY <2>1, <2>2, <2>6, <2>7, <2>8
<1>11. /\ BigEndianAt(U, m.start) = m.number
       /\ \A j \in 1..Len(m.text) : U[m.start + 8 + j] = m.text[j]
  <2>1. \A i \in 1..8 : U[Len(T) + i] = Number(v)[i]
    BY <1>1, <1>2, <1>4, FirstEight, Zenon
  <2>2. /\ U[Len(T) + 1] = Number(v)[0 + 1] /\ U[Len(T) + 2] = Number(v)[0 + 2]
        /\ U[Len(T) + 3] = Number(v)[0 + 3] /\ U[Len(T) + 4] = Number(v)[0 + 4]
        /\ U[Len(T) + 5] = Number(v)[0 + 5] /\ U[Len(T) + 6] = Number(v)[0 + 6]
        /\ U[Len(T) + 7] = Number(v)[0 + 7] /\ U[Len(T) + 8] = Number(v)[0 + 8]
    BY <2>1
  <2>3. BigEndianAt(U, Len(T)) = BigEndianAt(Number(v), 0)
    BY <2>2 DEF BigEndianAt
  <2>4. \A j \in 1..Len(s) : U[Len(T) + 8 + j] = s[j]
    <3> SUFFICES ASSUME NEW j \in 1..Len(s) PROVE U[Len(T) + 8 + j] = s[j]
      OBVIOUS
    <3>1. 8 + j \in 1..Len(p) /\ Len(T) + (8 + j) = Len(T) + 8 + j
      BY <1>1, <1>2, Behind, Zenon
    <3> QED BY <1>2, <1>4, <3>1
  <2> QED BY <1>5, <2>3, <2>4, NumberReads
<1>12. ReadIn(U, ns)
  <2>1. \A i \in 1..Len(ns) : i \in 1..Len(ms) \/ (i = Len(ms) + 1 /\ ns[i] = m)
    BY <1>1, <1>7, OneMore, Zenon
  <2>2. MarkEnd(m) <= Len(U)
    BY <1>1, <1>3, <1>5
  <2>3. \A i \in 1..Len(ns) :
          /\ MarkEnd(ns[i]) <= Len(U)
          /\ BigEndianAt(U, ns[i].start) = ns[i].number
          /\ \A j \in 1..Len(ns[i].text) : U[ns[i].start + 8 + j] = ns[i].text[j]
    BY <1>10, <1>11, <2>1, <2>2, Zenon
  <2> QED BY <1>7, <1>8, <1>9, <2>3, Zenon DEF ReadIn
<1> QED BY <1>7, <1>12, Zenon DEF U, m, ns, p

\* A value is hashed and recorded.
LEMMA WrittenWhole ==
  ASSUME Accounted, owed = <<>>, NEW v, Uint64(v),
         stream' = stream \o Number(v), written' = Append(written, Number(v)),
         marks' = Append(marks, Mark(Len(stream), v, <<>>)), owed' = owed
  PROVE  Accounted'
<1>1. written \in Seq(Seq(Byte)) /\ stream = FlattenSeq(written)
  BY DEF Accounted
<1>2. Number(v) \in Seq(Byte) /\ Number(v) \o <<>> = Number(v)
  BY NumberBytes DEF Uint64
<1>3. Append(written, Number(v)) \in Seq(Seq(Byte))
  BY <1>1, <1>2, AppendProperties
<1>4. FlattenSeq(Append(written, Number(v))) = FlattenSeq(written) \o Number(v)
  BY <1>1, <1>2, FlattenAppend, Zenon
<1>5. stream \in Seq(Byte) /\ <<>> \in Seq(Byte)
  BY <1>1, FlattenType
<1>6. /\ marks' \in Marks
      /\ ReadIn(stream \o (Number(v) \o <<>>), marks')
  BY <1>1, <1>5, ReadsOneMore DEF Accounted
<1> QED BY <1>1, <1>2, <1>3, <1>4, <1>6, Zenon DEF Accounted

\* The length of a text is hashed; its bytes are owed.
LEMMA LengthOwed ==
  ASSUME Accounted, owed = <<>>, NEW s \in Texts,
         stream' = stream \o Number(Len(s)), owed' = <<s>>, written' = written,
         marks' = marks
  PROVE  Accounted'
<1>1. stream = FlattenSeq(written)
  BY DEF Accounted
<1> QED BY <1>1, Zenon DEF Accounted

\* The bytes complete the text.
LEMMA BytesFollow ==
  ASSUME Accounted, owed # <<>>, stream' = stream \o owed[1],
         written' = Append(written, Text(owed[1])), owed' = <<>>,
         marks' = Append(marks, Mark(Len(stream) - 8, Len(owed[1]), owed[1]))
  PROVE  Accounted'
<1>1. PICK s \in Texts : owed = <<s>> /\ stream = FlattenSeq(written) \o Number(Len(s))
  BY Zenon DEF Accounted
<1>2. written \in Seq(Seq(Byte))
  BY DEF Accounted
<1>3. owed[1] = s
  BY <1>1
<1>4. s \in Seq(Byte) /\ Len(s) \in Nat /\ Uint64(Len(s))
  BY WriterAssumption
<1>5. Number(Len(s)) \in Seq(Byte) /\ Text(s) \in Seq(Byte)
  BY <1>4, NumberBytes, TextBytes
<1>6. FlattenSeq(written) \in Seq(Byte)
  BY <1>2, FlattenType, Zenon
<1>7. (FlattenSeq(written) \o Number(Len(s))) \o s = FlattenSeq(written) \o Text(s)
  BY <1>4, <1>5, <1>6, Reassociate, Zenon DEF Text
<1>8. FlattenSeq(Append(written, Text(s))) = FlattenSeq(written) \o Text(s)
  BY <1>2, <1>5, FlattenAppend, Zenon
<1>9. Append(written, Text(s)) \in Seq(Seq(Byte))
  BY <1>2, <1>5, AppendProperties
<1>10. stream' = FlattenSeq(written')
  BY <1>1, <1>3, <1>7, <1>8, Zenon
<1>11. Len(stream) - 8 = Len(FlattenSeq(written))
  <2>1. Len(stream) = Len(FlattenSeq(written)) + Len(Number(Len(s)))
    BY <1>1, <1>5, <1>6, Concatenated, Zenon
  <2>2. Len(Number(Len(s))) = 8 /\ Len(FlattenSeq(written)) \in Nat
    BY <1>4, <1>6, NumberBytes
  <2> QED BY <2>1, <2>2
<1>12. /\ marks' \in Marks
       /\ ReadIn(FlattenSeq(written) \o (Number(Len(s)) \o s), marks')
  BY <1>3, <1>4, <1>6, <1>11, ReadsOneMore DEF Accounted
<1>13. ReadIn(FlattenSeq(written'), marks')
  BY <1>3, <1>8, <1>12 DEF Text
<1> QED BY <1>3, <1>9, <1>10, <1>12, <1>13, Zenon DEF Accounted

\* WriterInv holds at first and is kept by every step.
LEMMA WriterInductive == WriterInit /\ [][WriterNext]_writer_vars => []WriterInv
<1>1. WriterInit => WriterInv
  <2> SUFFICES ASSUME WriterInit PROVE WriterInv
    OBVIOUS
  <2>1. FlattenSeq(<<>>) = <<>> /\ <<>> \in Seq(Seq(Byte))
    BY DEF FlattenSeq
  <2>2. <<>> \in Marks /\ ReadIn(<<>>, <<>>)
    BY DEF Marks, ReadIn
  <2>3. Accounted
    BY <2>1, <2>2, Zenon DEF WriterInit, Accounted
  <2> QED BY <2>3 DEF WriterInit, WriterInv, ContextOwned
<1>2. WriterInv /\ [WriterNext]_writer_vars => WriterInv'
  <2> SUFFICES ASSUME WriterInv, [WriterNext]_writer_vars PROVE WriterInv'
    OBVIOUS
  <2>0. ASSUME UNCHANGED <<stream, owed, written, marks>> PROVE Accounted'
    BY <2>0 DEF WriterInv, Accounted
  <2>1. CASE Allocate
    BY <2>0, <2>1 DEF WriterInv, ContextOwned, Allocate, content
  <2>2. CASE Initialize
    BY <2>0, <2>2 DEF WriterInv, ContextOwned, Initialize, content
  <2>3. CASE WriteNumber
    <3>1. PICK v \in Numbers : /\ stream' = stream \o Number(v)
                               /\ written' = Append(written, Number(v))
                               /\ marks' = Append(marks, Mark(Len(stream), v, <<>>))
      BY <2>3 DEF WriteNumber
    <3>2. Uint64(v)
      BY WriterAssumption
    <3>3. Accounted'
      BY <2>3, <3>1, <3>2, WrittenWhole DEF WriterInv, WriteNumber, Ready
    <3> QED BY <2>3, <3>3 DEF WriterInv, ContextOwned, WriteNumber, Ready
  <2>4. CASE WriteBoolean
    <3>1. PICK v \in {0, 1} : /\ stream' = stream \o Number(v)
                              /\ written' = Append(written, Number(v))
                              /\ marks' = Append(marks, Mark(Len(stream), v, <<>>))
      BY <2>4 DEF WriteBoolean, Boolean
    <3>2. Uint64(v)
      BY DEF Uint64
    <3>3. Accounted'
      BY <2>4, <3>1, <3>2, WrittenWhole DEF WriterInv, WriteBoolean, Ready
    <3> QED BY <2>4, <3>3 DEF WriterInv, ContextOwned, WriteBoolean, Ready
  <2>5. CASE WriteLength
    <3>1. Accounted'
      BY <2>5, LengthOwed DEF WriterInv, WriteLength, Ready
    <3> QED BY <2>5, <3>1 DEF WriterInv, ContextOwned, WriteLength, Ready
  <2>6. CASE WriteBytes
    <3>1. Accounted'
      BY <2>6, BytesFollow DEF WriterInv, WriteBytes
    <3> QED BY <2>6, <3>1 DEF WriterInv, ContextOwned, WriteBytes
  <2>7. CASE FailUpdate
    BY <2>0, <2>7 DEF WriterInv, ContextOwned, FailUpdate, content
  <2>8. CASE Finish
    BY <2>0, <2>8 DEF WriterInv, ContextOwned, Finish, Ready
  <2>9. CASE RefuseFinish
    BY <2>0, <2>9 DEF WriterInv, ContextOwned, RefuseFinish, content
  <2>10. CASE Destroy
    BY <2>0, <2>10 DEF WriterInv, ContextOwned, Destroy, content
  <2>11. CASE UNCHANGED writer_vars
    BY <2>0, <2>11 DEF WriterInv, ContextOwned, writer_vars
  <2> QED BY <2>1, <2>2, <2>3, <2>4, <2>5, <2>6, <2>7, <2>8, <2>9, <2>10, <2>11 DEF WriterNext
<1> QED BY <1>1, <1>2, PTL

(***************************************************************************)
(* The OpenSSL context is freed exactly once, whichever of the calls to    *)
(* OpenSSL fails and however many texts are written.                       *)
(***************************************************************************)
THEOREM FreesContextOnce == WriterSpec => []ContextOwned
<1>1. WriterInv => ContextOwned
  BY DEF WriterInv
<1> QED BY <1>1, WriterInductive, PTL DEF WriterSpec

(***************************************************************************)
(* An identity is taken of the whole stream or not at all: no failure      *)
(* between the two updates of a text, or anywhere else, leaves a stream    *)
(* that is cut short and still hashed.                                     *)
(***************************************************************************)
THEOREM HashesWholeStream == WriterSpec => []WholeStream
<1>1. WriterInv => WholeStream
  <2> SUFFICES ASSUME WriterInv, hex # <<>> PROVE owed = <<>> /\ stream = FlattenSeq(written)
    BY Zenon DEF WholeStream
  <2>1. owed = <<>>
    BY DEF WriterInv
  <2> QED BY <2>1 DEF WriterInv, Accounted
<1> QED BY <1>1, WriterInductive, PTL DEF WriterSpec

(***************************************************************************)
(* No 64-bit number and no length of a text loses a byte on its way into   *)
(* the stream: each value is read back from the stream of an identity.     *)
(***************************************************************************)
THEOREM ReadsBackWhatWasWritten == WriterSpec => []ReadsBack
<1>1. WriterInv => ReadsBack
  <2> SUFFICES ASSUME WriterInv, hex # <<>> PROVE ReadIn(stream, marks)
    BY Zenon DEF ReadsBack
  <2>1. owed = <<>>
    BY DEF WriterInv
  <2> QED BY <2>1 DEF WriterInv, Accounted
<1> QED BY <1>1, WriterInductive, PTL DEF WriterSpec

(***************************************************************************)
(* For every digest SHA-256 may produce, what finish() returns is accepted *)
(* by from_sha256.                                                         *)
(***************************************************************************)
THEOREM FinishesWithIdentity == WriterSpec => []FinishedIsIdentity
<1>1. WriterInv => FinishedIsIdentity
  <2> SUFFICES ASSUME WriterInv, hex # <<>> PROVE Sha256Hex(hex)
    BY DEF FinishedIsIdentity
  <2>1. PICK d \in Digests : hex = Hex(d)
    BY DEF WriterInv
  <2>2. d \in Seq(Byte) /\ Len(d) = DigestSize
    BY WriterAssumption
  <2> QED BY <2>1, <2>2, HexAccepted
<1> QED BY <1>1, WriterInductive, PTL DEF WriterSpec
=============================================================================
