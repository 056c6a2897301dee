------------------------------ MODULE VectorProofs ------------------------------
(***************************************************************************)
(* What sorting and deduplicating a vector leaves of it.                   *)
(*                                                                         *)
(* Keys are given as a function here: a lemma cannot be applied to an      *)
(* operator.                                                               *)
(***************************************************************************)
EXTENDS Vectors, Integers, FiniteSetTheorems, SequenceTheorems, TLAPS

-----------------------------------------------------------------------------
(***************************************************************************)
(* Elements that are ordered totally have places that are all different.   *)
(***************************************************************************)

\* A set ordered by what is ahead of each of its elements.
Ordered(I, ahead) ==
  /\ ahead \in [I -> SUBSET I]
  /\ \A i \in I : i \notin ahead[i]
  /\ \A i, j \in I : i = j \/ i \in ahead[j] \/ j \in ahead[i]
  /\ \A i, j \in I : i \in ahead[j] => ahead[i] \subseteq ahead[j]

\* The places 1, 2, ... go to the elements in their order, none is left out.
Enumerates(p, I, ahead) ==
  /\ p \in [1..Cardinality(I) -> I]
  /\ \A m, n \in 1..Cardinality(I) : m < n => p[m] \in ahead[p[n]]
  /\ \A i \in I : \E n \in 1..Cardinality(I) : p[n] = i

\* What is ahead of an element has fewer elements ahead of it.
LEMMA FewerAhead ==
  ASSUME NEW I, IsFiniteSet(I), NEW ahead, Ordered(I, ahead),
         NEW i \in I, NEW j \in I, i \in ahead[j]
  PROVE  Cardinality(ahead[i]) < Cardinality(ahead[j])
<1>1. ahead[i] \subseteq ahead[j] /\ i \notin ahead[i] /\ ahead[j] \in SUBSET I
  BY DEF Ordered
<1>2. IsFiniteSet(ahead[j])
  BY <1>1, FS_Subset
<1>3. /\ IsFiniteSet(ahead[i]) /\ Cardinality(ahead[i]) <= Cardinality(ahead[j])
      /\ Cardinality(ahead[j]) = Cardinality(ahead[i]) => ahead[j] = ahead[i]
  BY <1>1, <1>2, FS_Subset
<1>4. Cardinality(ahead[i]) \in Nat /\ Cardinality(ahead[j]) \in Nat
  BY <1>2, <1>3, FS_CardinalityType
<1>5. Cardinality(ahead[j]) # Cardinality(ahead[i])
  BY <1>1, <1>3
<1> QED BY <1>3, <1>4, <1>5

\* Some element has any given number of elements ahead, up to the last one.
LEMMA PlaceTaken ==
  ASSUME NEW I, IsFiniteSet(I), NEW ahead, Ordered(I, ahead)
  PROVE  /\ Cardinality(I) \in Nat
         /\ \A i \in I : Cardinality(ahead[i]) + 1 \in 1..Cardinality(I)
         /\ \A n \in 1..Cardinality(I) : \E i \in I : Cardinality(ahead[i]) = n - 1
<1>1. Cardinality(I) \in Nat
  BY FS_CardinalityType
<1>2. ASSUME NEW i \in I PROVE Cardinality(ahead[i]) + 1 \in 1..Cardinality(I)
  <2>1. ahead[i] \in SUBSET (I \ {i})
    BY DEF Ordered
  <2>2. IsFiniteSet(I \ {i}) /\ Cardinality(I \ {i}) = Cardinality(I) - 1
    BY FS_RemoveElement
  <2>3. IsFiniteSet(ahead[i]) /\ Cardinality(ahead[i]) <= Cardinality(I) - 1
    BY <2>1, <2>2, FS_Subset
  <2>4. Cardinality(ahead[i]) \in Nat
    BY <2>3, FS_CardinalityType
  <2> QED BY <1>1, <2>3, <2>4
<1> DEFINE rank == [i \in I |-> Cardinality(ahead[i]) + 1]
<1>3. rank \in [I -> 1..Cardinality(I)]
  BY <1>2
<1>4. ASSUME NEW i \in I, NEW j \in I, rank[i] = rank[j] PROVE i = j
  <2>1. Cardinality(ahead[i]) \in Int /\ Cardinality(ahead[j]) \in Int
    <3>1. ahead[i] \in SUBSET I /\ ahead[j] \in SUBSET I
      BY DEF Ordered
    <3> QED BY <3>1, FS_Subset, FS_CardinalityType
  <2>2. ~ (Cardinality(ahead[i]) < Cardinality(ahead[j]))
        /\ ~ (Cardinality(ahead[j]) < Cardinality(ahead[i]))
    BY <1>4, <2>1
  <2>3. i \notin ahead[j] /\ j \notin ahead[i]
    BY <2>2, FewerAhead
  <2> QED BY <2>3 DEF Ordered
<1>5. rank \in Injection(I, 1..Cardinality(I))
  BY <1>3, <1>4, Zenon DEF Injection, IsInjective
<1>6. IsFiniteSet(1..Cardinality(I)) /\ Cardinality(1..Cardinality(I)) = Cardinality(I)
  BY <1>1, FS_Interval
<1>7. rank \in Surjection(I, 1..Cardinality(I))
  BY <1>5, <1>6, FS_Injection
<1>8. ASSUME NEW n \in 1..Cardinality(I) PROVE \E i \in I : Cardinality(ahead[i]) = n - 1
  <2>1. PICK i \in I : rank[i] = n
    BY <1>7 DEF Surjection
  <2>2. Cardinality(ahead[i]) + 1 = n /\ Cardinality(ahead[i]) \in Int
    <3>1. ahead[i] \in SUBSET I
      BY DEF Ordered
    <3> QED BY <2>1, <3>1, FS_Subset, FS_CardinalityType
  <2> QED BY <2>2
<1> QED BY <1>1, <1>2, <1>8

\* Arranged goes through all elements in their order.
LEMMA ArrangedInOrder ==
  ASSUME NEW v, NEW I, IsFiniteSet(I), NEW ahead, Ordered(I, ahead)
  PROVE  \E p : /\ Enumerates(p, I, ahead)
                /\ Arranged(v, ahead) = [n \in 1..Cardinality(I) |-> v[p[n]]]
<1> DEFINE p == [n \in 1..Cardinality(I) |-> CHOOSE i \in I : Cardinality(ahead[i]) = n - 1]
<1>1. DOMAIN ahead = I
  BY DEF Ordered
<1>2. /\ Cardinality(I) \in Nat
      /\ \A i \in I : Cardinality(ahead[i]) + 1 \in 1..Cardinality(I)
      /\ \A n \in 1..Cardinality(I) : \E i \in I : Cardinality(ahead[i]) = n - 1
  BY PlaceTaken
<1>3. ASSUME NEW n \in 1..Cardinality(I)
      PROVE  p[n] \in I /\ Cardinality(ahead[p[n]]) = n - 1
  BY <1>2, Zenon
<1>4. ASSUME NEW m \in 1..Cardinality(I), NEW n \in 1..Cardinality(I), m < n
      PROVE  p[m] \in ahead[p[n]]
  <2>1. m - 1 # n - 1 /\ ~ (n - 1 < m - 1)
    BY <1>2, <1>4
  <2>2. p[m] # p[n]
    BY <1>3, <2>1
  <2>3. p[n] \notin ahead[p[m]]
    <3>1. p[m] \in I /\ p[n] \in I
      BY <1>3
    <3>2. Cardinality(ahead[p[n]]) = n - 1 /\ Cardinality(ahead[p[m]]) = m - 1
      BY <1>3
    <3> HIDE DEF p
    <3> QED BY <3>1, <3>2, <2>1, FewerAhead
  <2> QED BY <1>3, <2>2, <2>3 DEF Ordered
<1>5. ASSUME NEW i \in I PROVE \E n \in 1..Cardinality(I) : p[n] = i
  <2> DEFINE n == Cardinality(ahead[i]) + 1
  <2>1. n \in 1..Cardinality(I)
    BY <1>2
  <2>2. Cardinality(ahead[i]) = n - 1
    <3>1. ahead[i] \in SUBSET I
      BY DEF Ordered
    <3>2. Cardinality(ahead[i]) \in Int
      BY <3>1, FS_Subset, FS_CardinalityType
    <3> QED BY <3>2
  <2>3. p[n] \in I /\ Cardinality(ahead[p[n]]) = Cardinality(ahead[i])
    BY <1>3, <2>1, <2>2
  <2>4. Cardinality(ahead[i]) \in Int
    <3>1. ahead[i] \in SUBSET I
      BY DEF Ordered
    <3> QED BY <3>1, FS_Subset, FS_CardinalityType
  <2>5. p[n] = i
    <3> HIDE DEF p, n
    <3>1. p[n] \notin ahead[i] /\ i \notin ahead[p[n]]
      BY <2>3, <2>4, FewerAhead
    <3> QED BY <2>3, <3>1 DEF Ordered
  <2> QED BY <2>1, <2>5
<1>6. Enumerates(p, I, ahead)
  <2>1. p \in [1..Cardinality(I) -> I]
    BY <1>3
  <2> HIDE DEF p
  <2> QED BY <1>4, <1>5, <2>1 DEF Enumerates
<1>7. Arranged(v, ahead) = [n \in 1..Cardinality(I) |-> v[p[n]]]
  BY <1>1 DEF Arranged
<1> QED BY <1>6, <1>7

-----------------------------------------------------------------------------
(***************************************************************************)
(* Keys of numbers are ordered as std::tie orders them.                    *)
(***************************************************************************)

Comparable(s, t) == s = t \/ Before(s, t) \/ Before(t, s)

\* A set of elements, the key of each, and keys that tell any two apart and order them.
Keyed(S, key) ==
  /\ key \in [S -> Seq(Nat)]
  /\ \A x, y \in S : Comparable(key[x], key[y])
  /\ \A x, y \in S : key[x] = key[y] => x = y

LEMMA NeverBeforeItself ==
  ASSUME NEW s \in Seq(Nat)
  PROVE  ~ Before(s, s)
<1>1. ASSUME NEW i \in 1..Len(s) PROVE ~ (s[i] < s[i])
  <2>1. s[i] \in Nat
    OBVIOUS
  <2> QED BY <2>1
<1> QED BY <1>1 DEF Before

\* The first place where two keys differ.
FirstDifference(s, t, i) ==
  /\ i \in Nat /\ i \in 1..Len(s) /\ i \in 1..Len(t)
  /\ s[i] \in Nat /\ t[i] \in Nat /\ s[i] < t[i]
  /\ \A k \in 1..(i - 1) : s[k] = t[k]

LEMMA Differ ==
  ASSUME NEW s \in Seq(Nat), NEW t \in Seq(Nat)
  PROVE  Before(s, t) <=> \E i \in Nat : FirstDifference(s, t, i)
<1>1. ASSUME NEW i \in 1..Len(s), i <= Len(t)
      PROVE  i \in Nat /\ i \in 1..Len(t) /\ s[i] \in Nat /\ t[i] \in Nat
  BY <1>1
<1>2. ASSUME NEW i \in 1..Len(t) PROVE i <= Len(t)
  OBVIOUS
<1> QED BY <1>1, <1>2, Zenon DEF Before, FirstDifference

LEMMA BeforeTransitive ==
  ASSUME NEW s \in Seq(Nat), NEW t \in Seq(Nat), NEW u \in Seq(Nat),
         Before(s, t), Before(t, u)
  PROVE  Before(s, u)
<1>1. /\ \A a, b, c \in Nat : a < b /\ b < c => a < c
      /\ \A i, j \in Nat : i < j \/ j < i \/ i = j
      /\ \A i, j \in Nat : i < j => \A k \in 1..(i - 1) : k \in 1..(j - 1)
      /\ \A i, j, m \in Nat :
           i < j /\ i \in 1..m => i \in 1..(j - 1) /\ \A n \in Nat : j \in 1..n => i \in 1..n
      /\ Len(s) \in Nat /\ Len(t) \in Nat /\ Len(u) \in Nat
  OBVIOUS
<1>2. PICK i \in Nat : FirstDifference(s, t, i)
  BY Differ
<1>3. PICK j \in Nat : FirstDifference(t, u, j)
  BY Differ
<1>4. /\ i \in 1..Len(s) /\ i \in 1..Len(t) /\ s[i] \in Nat /\ t[i] \in Nat /\ s[i] < t[i]
      /\ \A k \in 1..(i - 1) : s[k] = t[k]
  BY <1>2, Zenon DEF FirstDifference
<1>5. /\ j \in 1..Len(t) /\ j \in 1..Len(u) /\ t[j] \in Nat /\ u[j] \in Nat /\ t[j] < u[j]
      /\ \A k \in 1..(j - 1) : t[k] = u[k]
  BY <1>3, Zenon DEF FirstDifference
<1>6. CASE i < j
  <2>1. i \in 1..(j - 1) /\ i \in 1..Len(u)
    BY <1>1, <1>4, <1>5, <1>6, Zenon
  <2>2. t[i] = u[i]
    BY <1>5, <2>1, Zenon
  <2>3. \A k \in 1..(i - 1) : s[k] = u[k]
    BY <1>1, <1>4, <1>5, <1>6, Zenon
  <2>4. FirstDifference(s, u, i)
    BY <1>4, <2>1, <2>2, <2>3, Zenon DEF FirstDifference
  <2> QED BY <2>4, Differ
<1>7. CASE j < i
  <2>1. j \in 1..(i - 1) /\ j \in 1..Len(s)
    BY <1>1, <1>4, <1>5, <1>7, Zenon
  <2>2. s[j] = t[j]
    BY <1>4, <2>1, Zenon
  <2>3. \A k \in 1..(j - 1) : s[k] = u[k]
    BY <1>1, <1>4, <1>5, <1>7, Zenon
  <2>4. FirstDifference(s, u, j)
    BY <1>5, <2>1, <2>2, <2>3, Zenon DEF FirstDifference
  <2> QED BY <2>4, Differ
<1>8. CASE i = j
  <2>0. t[i] < u[i] /\ u[i] \in Nat /\ i \in 1..Len(u)
    BY <1>5, <1>8, Zenon
  <2>1. s[i] < u[i]
    BY <1>1, <1>4, <2>0, Zenon
  <2>2. \A k \in 1..(i - 1) : s[k] = u[k]
    BY <1>4, <1>5, <1>8, Zenon
  <2>3. FirstDifference(s, u, i)
    BY <1>4, <2>0, <2>1, <2>2, Zenon DEF FirstDifference
  <2> QED BY <2>3, Differ
<1> QED BY <1>1, <1>6, <1>7, <1>8, Zenon

\* What decides between the heads of two keys decides between the keys.
LEMMA BeforeByHead ==
  ASSUME NEW s \in Seq(Nat), NEW t \in Seq(Nat), NEW u \in Seq(Nat), NEW w \in Seq(Nat),
         Before(s, t)
  PROVE  Before(s \o u, t \o w)
<1>1. PICK i \in 1..Len(s) : i <= Len(t) /\ s[i] < t[i] /\ \A k \in 1..(i - 1) : s[k] = t[k]
  BY DEF Before
<1>2. \A k \in 1..i : (s \o u)[k] = s[k] /\ (t \o w)[k] = t[k]
  BY <1>1
<1>3. i \in 1..Len(s \o u) /\ i <= Len(t \o w)
  BY <1>1
<1>4. (s \o u)[i] < (t \o w)[i]
  BY <1>1, <1>2
<1>5. \A k \in 1..(i - 1) : (s \o u)[k] = (t \o w)[k]
  BY <1>1, <1>2
<1>6. \E n \in 1..Len(s \o u) :
        /\ n <= Len(t \o w) /\ (s \o u)[n] < (t \o w)[n]
        /\ \A k \in 1..(n - 1) : (s \o u)[k] = (t \o w)[k]
  BY <1>3, <1>4, <1>5, Zenon
<1> QED BY <1>6, Zenon DEF Before

\* Behind equal heads the rest decides.
LEMMA BeforeByRest ==
  ASSUME NEW s \in Seq(Nat), NEW u \in Seq(Nat), NEW w \in Seq(Nat), Before(u, w)
  PROVE  Before(s \o u, s \o w)
<1>1. PICK i \in 1..Len(u) : i <= Len(w) /\ u[i] < w[i] /\ \A k \in 1..(i - 1) : u[k] = w[k]
  BY DEF Before
<1> DEFINE n == Len(s) + i
<1>2. n \in 1..Len(s \o u) /\ n <= Len(s \o w)
  BY <1>1
<1>3. (s \o u)[n] = u[i] /\ (s \o w)[n] = w[i]
  BY <1>1
<1>4. ASSUME NEW k \in 1..(n - 1) PROVE (s \o u)[k] = (s \o w)[k]
  <2>1. CASE k <= Len(s)
    <3>1. k \in 1..Len(s)
      BY <2>1
    <3> QED BY <3>1, ConcatProperties
  <2>2. CASE k > Len(s)
    <3>0. Len(s) \in Nat /\ Len(u) \in Nat /\ Len(w) \in Nat /\ i \in 1..Len(u) /\ i <= Len(w)
      BY <1>1, LenProperties
    <3>1. k - Len(s) \in 1..(i - 1) /\ k \in 1..(Len(s) + Len(u)) /\ k <= Len(s) + Len(w)
      BY <2>2, <3>0
    <3>2. (s \o u)[k] = u[k - Len(s)] /\ (s \o w)[k] = w[k - Len(s)]
      BY <2>2, <3>1
    <3> QED BY <1>1, <3>1, <3>2
  <2>3. k <= Len(s) \/ k > Len(s)
    OBVIOUS
  <2> QED BY <2>1, <2>2, <2>3, Zenon
<1>5. (s \o u)[n] < (s \o w)[n]
  BY <1>1, <1>3
<1>6. \E m \in 1..Len(s \o u) :
        /\ m <= Len(s \o w) /\ (s \o u)[m] < (s \o w)[m]
        /\ \A k \in 1..(m - 1) : (s \o u)[k] = (s \o w)[k]
  BY <1>2, <1>4, <1>5, Zenon
<1> QED BY <1>6, Zenon DEF Before

\* Keys are compared field by field.
LEMMA ComparedByFields ==
  ASSUME NEW s \in Seq(Nat), NEW t \in Seq(Nat), NEW u \in Seq(Nat), NEW w \in Seq(Nat),
         Comparable(s, t), s = t => Comparable(u, w)
  PROVE  Comparable(s \o u, t \o w)
<1>1. CASE s = t
  BY <1>1, BeforeByRest DEF Comparable
<1>2. CASE s # t
  BY <1>2, BeforeByHead DEF Comparable
<1> QED BY <1>1, <1>2

\* Compared fields that make one key are equal.
LEMMA FieldsTold ==
  ASSUME NEW s \in Seq(Nat), NEW t \in Seq(Nat), NEW u \in Seq(Nat), NEW w \in Seq(Nat),
         Comparable(s, t), s = t => Comparable(u, w), s \o u = t \o w
  PROVE  s = t /\ u = w
<1>1. s \o u \in Seq(Nat) /\ t \o w \in Seq(Nat)
  BY ConcatProperties
<1>2. ~ Before(s \o u, t \o w) /\ ~ Before(t \o w, s \o u)
  BY <1>1, NeverBeforeItself
<1>3. s = t
  BY <1>2, BeforeByHead DEF Comparable
<1>4. u = w
  BY <1>2, <1>3, BeforeByRest DEF Comparable
<1> QED BY <1>3, <1>4

\* A key gains a field, whatever those before it are.
LEMMA FieldAdded ==
  ASSUME NEW s \in Seq(Nat), NEW t \in Seq(Nat), NEW u \in Seq(Nat), NEW w \in Seq(Nat),
         Comparable(s, t), Comparable(u, w)
  PROVE  /\ s \o u \in Seq(Nat) /\ t \o w \in Seq(Nat)
         /\ Comparable(s \o u, t \o w)
         /\ s \o u = t \o w => s = t /\ u = w
<1>1. s \o u \in Seq(Nat) /\ t \o w \in Seq(Nat)
  BY ConcatProperties
<1>2. Comparable(s \o u, t \o w)
  BY ComparedByFields
<1>3. s \o u = t \o w => s = t /\ u = w
  BY FieldsTold
<1> QED BY <1>1, <1>2, <1>3

\* The first place with a property.
LEMMA FirstPlace ==
  ASSUME NEW T \in SUBSET Nat, T # {}
  PROVE  \E n \in T : \A m \in T : n <= m
<1> DEFINE R == {p \in Nat \X Nat : p[1] < p[2]}
<1>1. R = OpToRel(<, Nat)
  BY Zenon DEF OpToRel
<1>2. \A x, y \in Nat : x < y => <<x, y>> \in R
  OBVIOUS
<1> HIDE DEF R
<1>3. IsWellFoundedOn(R, Nat)
  BY <1>1, NatLessThanWellFounded, Zenon
<1>4. T \subseteq Nat
  OBVIOUS
<1>5. PICK n \in T : \A m \in T : ~(<<m, n>> \in R)
  BY <1>3, <1>4, WFMin, Zenon
<1>6. ASSUME NEW m \in T PROVE n <= m
  <2>1. ~(m < n)
    BY <1>2, <1>4, <1>5, Zenon
  <2> QED BY <1>4, <2>1
<1> QED BY <1>6

\* Keys of one length are told apart where they first differ.
LEMMA SameLength ==
  ASSUME NEW s \in Seq(Nat), NEW t \in Seq(Nat), Len(s) = Len(t)
  PROVE  Comparable(s, t)
<1> DEFINE T == {i \in 1..Len(s) : s[i] # t[i]}
<1>1. CASE T = {}
  BY <1>1, SeqEqual DEF Comparable
<1>2. CASE T # {}
  <2>1. T \in SUBSET Nat
    BY LenProperties
  <2>2. PICK i \in T : \A j \in T : i <= j
    BY <1>2, <2>1, FirstPlace
  <2>3. /\ i \in 1..Len(s) /\ i \in 1..Len(t) /\ s[i] # t[i] /\ Len(s) \in Nat
        /\ s[i] \in Nat /\ t[i] \in Nat /\ i <= Len(s) /\ i <= Len(t)
    BY LenProperties, ElementOfSeq
  <2>4. \A j \in 1..(i - 1) : s[j] = t[j]
    <3> SUFFICES ASSUME NEW j \in 1..(i - 1), s[j] # t[j] PROVE FALSE
      OBVIOUS
    <3>1. j \in 1..Len(s) /\ ~ (i <= j)
      BY <2>3
    <3>. QED
      BY <2>2, <3>1
  <2>5. s[i] < t[i] \/ t[i] < s[i]
    BY <2>3
  <2>6. \A j \in 1..(i - 1) : t[j] = s[j]
    BY <2>4
  <2> HIDE DEF T
  <2> QED BY <2>3, <2>4, <2>5, <2>6 DEF Comparable, Before
<1> QED BY <1>1, <1>2

-----------------------------------------------------------------------------
(***************************************************************************)
(* Sorting.                                                                *)
(***************************************************************************)

\* The keys of a vector, in its order.
KeysIn(v, key) == [i \in 1..Len(v) |-> key[v[i]]]

SortedBy(v, key) == Arranged(v, Ordering(KeysIn(v, key)))

\* The places of comparable keys are ordered.
LEMMA KeysOrdered ==
  ASSUME NEW keys \in Seq(Seq(Nat)),
         \A i, j \in 1..Len(keys) : Comparable(keys[i], keys[j])
  PROVE  Ordered(1..Len(keys), Ordering(keys))
<1> DEFINE I == 1..Len(keys)
           ahead == Ordering(keys)
<1>1. DOMAIN keys = I /\ \A i \in I : keys[i] \in Seq(Nat) /\ i \in Nat
  OBVIOUS
<1>2. ahead \in [I -> SUBSET I]
  BY <1>1 DEF Ordering
<1>3. \A i, j \in I : j \in ahead[i] <=> Before(keys[j], keys[i]) \/ (keys[j] = keys[i] /\ j < i)
  BY <1>1 DEF Ordering
<1> HIDE DEF I, ahead
<1>4. ASSUME NEW i \in I PROVE i \notin ahead[i]
  <2>1. ~ Before(keys[i], keys[i]) /\ ~ (i < i)
    BY <1>1, NeverBeforeItself
  <2> QED BY <1>3, <2>1
<1>5. ASSUME NEW i \in I, NEW j \in I PROVE i = j \/ i \in ahead[j] \/ j \in ahead[i]
  <2>1. i = j \/ i < j \/ j < i
    BY <1>1
  <2>2. keys[i] = keys[j] \/ Before(keys[i], keys[j]) \/ Before(keys[j], keys[i])
    BY DEF Comparable, I
  <2> QED BY <1>3, <2>1, <2>2
<1>6. ASSUME NEW i \in I, NEW j \in I, i \in ahead[j], NEW k \in ahead[i]
      PROVE  k \in ahead[j]
  <2>1. k \in I
    BY <1>2, <1>6
  <2>2. k \in Nat /\ i \in Nat /\ j \in Nat
    BY <1>1, <2>1
  <2>3. /\ Before(keys[k], keys[i]) \/ (keys[k] = keys[i] /\ k < i)
        /\ Before(keys[i], keys[j]) \/ (keys[i] = keys[j] /\ i < j)
    BY <1>3, <1>6, <2>1
  <2>4. keys[k] = keys[i] /\ keys[i] = keys[j] /\ k < i /\ i < j => k < j
    BY <2>2
  <2>5. Before(keys[k], keys[i]) /\ Before(keys[i], keys[j]) => Before(keys[k], keys[j])
    BY <1>1, <2>1, BeforeTransitive
  <2>6. Before(keys[k], keys[j]) \/ (keys[k] = keys[j] /\ k < j)
    BY <2>3, <2>4, <2>5, Zenon
  <2> QED BY <1>3, <2>1, <2>6
<1>7. Ordered(I, ahead)
  BY <1>2, <1>4, <1>5, <1>6 DEF Ordered
<1> QED BY <1>7 DEF I, ahead

\* The places of a vector, and any of them, can be counted.
LEMMA PlacesCounted ==
  ASSUME NEW n \in Nat
  PROVE  IsFiniteSet(1..n) /\ Cardinality(1..n) = n
BY FS_Interval

\* A vector in an order holds the elements it was made from, at as many places.
ArrangedFrom(w, v) ==
  /\ Len(w) = Len(v)
  /\ Elements(w) = Elements(v)

LEMMA SortedElements ==
  ASSUME NEW S, NEW v \in Seq(S), NEW key, Keyed(S, key)
  PROVE  LET w == SortedBy(v, key)
         IN /\ w \in Seq(S)
            /\ ArrangedFrom(w, v)
            /\ \A m, n \in 1..Len(w) : m < n => w[m] = w[n] \/ Before(key[w[m]], key[w[n]])
            /\ (\A i, j \in 1..Len(v) : v[i] = v[j] => i = j)
               => \A m, n \in 1..Len(w) : w[m] = w[n] => m = n
<1> DEFINE w == SortedBy(v, key)
           N == Len(v)
           keys == KeysIn(v, key)
           ahead == Ordering(keys)
<1>1. N \in Nat /\ \A i \in 1..N : v[i] \in S
  OBVIOUS
<1>2. /\ keys \in Seq(Seq(Nat)) /\ Len(keys) = N
      /\ \A i \in 1..N : keys[i] = key[v[i]]
  BY <1>1 DEF KeysIn, Keyed
<1>3. \A i, j \in 1..Len(keys) : Comparable(keys[i], keys[j])
  BY <1>1, <1>2 DEF Keyed
<1>4. Ordered(1..N, ahead)
  BY <1>2, <1>3, KeysOrdered
<1>5. IsFiniteSet(1..N) /\ Cardinality(1..N) = N
  BY <1>1, PlacesCounted
<1>6. DOMAIN keys = 1..N
  BY <1>2
<1>7. ASSUME NEW i \in 1..N, NEW j \in 1..N, i \in ahead[j]
      PROVE  v[i] = v[j] \/ Before(key[v[i]], key[v[j]])
  <2>1. Before(keys[i], keys[j]) \/ keys[i] = keys[j]
    BY <1>6, <1>7 DEF Ordering
  <2> QED BY <1>1, <1>2, <2>1 DEF Keyed
<1> HIDE DEF keys, ahead
<1>8. PICK p : Enumerates(p, 1..N, ahead) /\ Arranged(v, ahead) = [n \in 1..N |-> v[p[n]]]
  BY <1>4, <1>5, ArrangedInOrder
<1>9. w = [n \in 1..N |-> v[p[n]]]
  BY <1>8 DEF SortedBy, keys, ahead
<1> HIDE DEF w
<1>10. /\ p \in [1..N -> 1..N]
       /\ \A m, n \in 1..N : m < n => p[m] \in ahead[p[n]]
       /\ \A i \in 1..N : \E n \in 1..N : p[n] = i
  BY <1>5, <1>8 DEF Enumerates
<1>11. w \in Seq(S) /\ Len(w) = N
  <2>1. \A n \in 1..N : v[p[n]] \in S
    BY <1>1, <1>10
  <2>2. w \in [1..N -> S]
    BY <1>9, <2>1
  <2> QED BY <1>1, <2>2
<1>12. {w[n] : n \in 1..N} = {v[i] : i \in 1..N}
  BY <1>9, <1>10
<1>13. ASSUME NEW m \in 1..N, NEW n \in 1..N, m < n
       PROVE  w[m] = w[n] \/ Before(key[w[m]], key[w[n]])
  <2>1. p[m] \in 1..N /\ p[n] \in 1..N /\ p[m] \in ahead[p[n]]
    BY <1>10, <1>13, Zenon
  <2>2. w[m] = v[p[m]] /\ w[n] = v[p[n]]
    BY <1>9, Zenon
  <2> QED BY <1>7, <2>1, <2>2, Zenon
<1>14. ASSUME \A i, j \in 1..N : v[i] = v[j] => i = j,
              NEW m \in 1..N, NEW n \in 1..N, w[m] = w[n]
       PROVE  m = n
  <2>1. p[m] \in 1..N /\ p[n] \in 1..N /\ v[p[m]] = v[p[n]]
    BY <1>9, <1>10, <1>14
  <2>2. p[m] = p[n]
    BY <1>14, <2>1
  <2>3. p[m] \notin ahead[p[n]] /\ p[n] \notin ahead[p[m]]
    BY <1>4, <2>1, <2>2 DEF Ordered
  <2>4. ~ (m < n) /\ ~ (n < m)
    BY <1>10, <2>3
  <2> QED BY <2>4
<1> QED BY <1>11, <1>12, <1>13, <1>14 DEF ArrangedFrom, Elements, w

\* Each element is strictly before the next ones.
AscendsBy(v, key) ==
  \A i, j \in 1..Len(v) : i < j => Before(key[v[i]], key[v[j]])

\* A vector of different elements ascends once it is sorted.
LEMMA SortsDifferent ==
  ASSUME NEW S, NEW v \in Seq(S), NEW key, Keyed(S, key),
         \A i, j \in 1..Len(v) : v[i] = v[j] => i = j
  PROVE  LET w == SortedBy(v, key)
         IN w \in Seq(S) /\ Elements(w) = Elements(v) /\ AscendsBy(w, key)
<1> DEFINE w == SortedBy(v, key)
<1>1. /\ w \in Seq(S) /\ ArrangedFrom(w, v)
      /\ \A m, n \in 1..Len(w) : m < n => w[m] = w[n] \/ Before(key[w[m]], key[w[n]])
      /\ \A m, n \in 1..Len(w) : w[m] = w[n] => m = n
  BY SortedElements
<1>2. ASSUME NEW i \in 1..Len(w), NEW j \in 1..Len(w), i < j
      PROVE  Before(key[w[i]], key[w[j]])
  <2>1. i # j
    BY <1>1, <1>2
  <2> QED BY <1>1, <1>2, <2>1
<1> HIDE DEF w
<1>3. w \in Seq(S) /\ Elements(w) = Elements(v)
  BY <1>1 DEF ArrangedFrom
<1> QED BY <1>2, <1>3 DEF AscendsBy, w

\* What is appended is one more element.
LEMMA ElementsAppended ==
  ASSUME NEW S, NEW v \in Seq(S), NEW x \in S
  PROVE  Append(v, x) \in Seq(S) /\ Elements(Append(v, x)) = Elements(v) \cup {x}
<1> DEFINE n == Len(v)
           w == Append(v, x)
<1>1. /\ n \in Nat /\ w \in Seq(S) /\ Len(w) = n + 1
      /\ \A i \in 1..n : w[i] = v[i]
      /\ w[n + 1] = x
  BY AppendProperties, LenProperties
<1>2. 1..(n + 1) = 1..n \cup {n + 1}
  BY <1>1
<1> HIDE DEF w
<1>3. {w[i] : i \in 1..(n + 1)} = {v[i] : i \in 1..n} \cup {x}
  BY <1>1, <1>2
<1> QED BY <1>1, <1>3 DEF Elements, w

-----------------------------------------------------------------------------
(***************************************************************************)
(* Keeping some elements, and erasing equal neighbours.                    *)
(***************************************************************************)

\* What is kept stands in the order of its places.
LEMMA KeptInOrder ==
  ASSUME NEW S, NEW v \in Seq(S), NEW places \in SUBSET (1..Len(v))
  PROVE  /\ Cardinality(places) \in Nat
         /\ \E p \in [1..Cardinality(places) -> places] :
              /\ \A m, n \in 1..Cardinality(places) : m < n => p[m] < p[n]
              /\ \A i \in places : \E n \in 1..Cardinality(places) : p[n] = i
              /\ Kept(v, places) = [n \in 1..Cardinality(places) |-> v[p[n]]]
<1> DEFINE ahead == [i \in places |-> {j \in places : j < i}]
<1>1. IsFiniteSet(places) /\ Cardinality(places) \in Nat
  <2>1. Len(v) \in Nat
    OBVIOUS
  <2>2. IsFiniteSet(1..Len(v))
    BY <2>1, PlacesCounted
  <2> QED BY <2>2, FS_Subset, FS_CardinalityType
<1>2. \A i \in places : i \in Nat
  OBVIOUS
<1>3. Ordered(places, ahead)
  <2>1. \A i, j \in places : j \in ahead[i] <=> j < i
    OBVIOUS
  <2>2. ahead \in [places -> SUBSET places]
    OBVIOUS
  <2> HIDE DEF ahead
  <2>3. \A i \in places : i \notin ahead[i]
    BY <1>2, <2>1
  <2>4. \A i, j \in places : i = j \/ i \in ahead[j] \/ j \in ahead[i]
    BY <1>2, <2>1
  <2>5. \A i, j \in places : i \in ahead[j] => ahead[i] \subseteq ahead[j]
    BY <1>2, <2>1, <2>2
  <2> QED BY <2>2, <2>3, <2>4, <2>5 DEF Ordered
<1> HIDE DEF ahead
<1>4. PICK p : /\ Enumerates(p, places, ahead)
               /\ Arranged(v, ahead) = [n \in 1..Cardinality(places) |-> v[p[n]]]
  BY <1>1, <1>3, ArrangedInOrder
<1>5. /\ p \in [1..Cardinality(places) -> places]
      /\ \A m, n \in 1..Cardinality(places) : m < n => p[m] \in ahead[p[n]]
      /\ \A i \in places : \E n \in 1..Cardinality(places) : p[n] = i
  BY <1>4 DEF Enumerates
<1>6. \A m, n \in 1..Cardinality(places) : m < n => p[m] < p[n]
  BY <1>5 DEF ahead
<1>7. Kept(v, places) = [n \in 1..Cardinality(places) |-> v[p[n]]]
  BY <1>4 DEF Kept, ahead
<1> QED BY <1>1, <1>5, <1>6, <1>7

ElementsAt(v, places) == {v[i] : i \in places}

\* What is kept is what stands at the places kept.
LEMMA KeptElements ==
  ASSUME NEW S, NEW v \in Seq(S), NEW places \in SUBSET (1..Len(v))
  PROVE  LET w == Kept(v, places)
         IN w \in Seq(S) /\ Elements(w) = ElementsAt(v, places)
<1> DEFINE N == Cardinality(places)
           w == Kept(v, places)
<1>1. PICK p \in [1..N -> places] :
        /\ \A m, n \in 1..N : m < n => p[m] < p[n]
        /\ \A i \in places : \E n \in 1..N : p[n] = i
        /\ w = [n \in 1..N |-> v[p[n]]]
  BY KeptInOrder
<1>2. N \in Nat
  BY KeptInOrder
<1> HIDE DEF N, w
<1>3. \A i \in places : v[i] \in S
  OBVIOUS
<1>4. w \in Seq(S) /\ Len(w) = N
  <2>1. \A n \in 1..N : v[p[n]] \in S
    BY <1>1, <1>3
  <2>2. w \in [1..N -> S]
    BY <1>1, <2>1
  <2> QED BY <1>2, <2>2
<1>5. {w[n] : n \in 1..N} = {v[i] : i \in places}
  BY <1>1
<1> QED BY <1>4, <1>5 DEF Elements, ElementsAt, w

\* In a sorted vector, equal elements are neighbours: one of each is left.
LEMMA Deduplicated ==
  ASSUME NEW S, NEW v \in Seq(S), NEW key, Keyed(S, key),
         \A m, n \in 1..Len(v) : m < n => v[m] = v[n] \/ Before(key[v[m]], key[v[n]])
  PROVE  LET w == Unique(v)
         IN /\ w \in Seq(S)
            /\ Elements(w) = Elements(v)
            /\ AscendsBy(w, key)
<1> DEFINE places == {i \in 1..Len(v) : i = 1 \/ v[i] # v[i - 1]}
           N == Cardinality(places)
           w == Unique(v)
<1>1. /\ places \in SUBSET (1..Len(v)) /\ w = Kept(v, places)
      /\ \A i \in 1..Len(v) : i \notin places => i # 1 /\ v[i] = v[i - 1]
      /\ \A i \in places : i = 1 \/ v[i] # v[i - 1]
      /\ \A i \in 1..Len(v) : i \in Nat /\ i > 0 /\ v[i] \in S
      /\ Len(v) \in Nat
  BY DEF Unique
<1> HIDE DEF places, w
<1>2. w \in Seq(S) /\ Elements(w) = ElementsAt(v, places)
  BY <1>1, KeptElements
<1>3. ASSUME NEW i \in 1..Len(v) PROVE \E k \in places : v[k] = v[i]
  <2> DEFINE T == {k \in 1..Len(v) : v[k] = v[i]}
  <2>1. T \in SUBSET Nat /\ T # {}
    BY <1>1
  <2>2. PICK k \in T : \A m \in T : k <= m
    BY <2>1, FirstPlace
  <2>3. k \in places
    <3>1. SUFFICES ASSUME k \notin places PROVE FALSE
      OBVIOUS
    <3>2. k # 1 /\ v[k] = v[k - 1] /\ k \in 1..Len(v) /\ k \in Nat
      BY <1>1, <3>1
    <3>3. k - 1 \in 1..Len(v) /\ ~ (k <= k - 1)
      BY <3>2
    <3>4. k - 1 \in T
      BY <3>2, <3>3
    <3> QED BY <2>2, <3>3, <3>4
  <2> QED BY <2>3
<1>4. ElementsAt(v, places) = Elements(v)
  <2>1. ASSUME NEW x \in Elements(v) PROVE x \in ElementsAt(v, places)
    <3>1. PICK i \in 1..Len(v) : x = v[i]
      BY <2>1 DEF Elements
    <3>2. PICK k \in places : v[k] = v[i]
      BY <1>3
    <3> QED BY <3>1, <3>2 DEF ElementsAt
  <2>2. ElementsAt(v, places) \subseteq Elements(v)
    <3>1. \A k \in places : k \in 1..Len(v)
      BY <1>1
    <3> QED BY <3>1, Zenon DEF Elements, ElementsAt
  <2> QED BY <2>1, <2>2
<1>5. PICK p \in [1..N -> places] :
        /\ \A m, n \in 1..N : m < n => p[m] < p[n]
        /\ w = [n \in 1..N |-> v[p[n]]]
  <2>1. \E p \in [1..Cardinality(places) -> places] :
          /\ \A m, n \in 1..Cardinality(places) : m < n => p[m] < p[n]
          /\ Kept(v, places) = [n \in 1..Cardinality(places) |-> v[p[n]]]
    BY <1>1, KeptInOrder
  <2> QED BY <1>1, <2>1, Zenon
<1>6. ASSUME NEW m \in 1..Len(w), NEW n \in 1..Len(w), m < n
      PROVE  Before(key[w[m]], key[w[n]])
  <2>1. N \in Nat /\ Len(w) = N
    BY <1>1, <1>2, <1>5, KeptInOrder
  <2> DEFINE i == p[m]
             j == p[n]
  <2>2. i \in places /\ j \in places /\ i < j /\ w[m] = v[i] /\ w[n] = v[j]
    BY <1>5, <1>6, <2>1
  <2> HIDE DEF i, j
  <2>3. i \in 1..Len(v) /\ j \in 1..Len(v) /\ i \in Nat /\ j \in Nat /\ i > 0
    BY <1>1, <2>2
  <2>4. j - 1 \in 1..Len(v) /\ j - 1 < j /\ j # 1 /\ (i = j - 1 \/ i < j - 1)
    BY <2>2, <2>3
  <2>5. v[j] # v[j - 1]
    BY <1>1, <2>2, <2>4
  <2>6. Before(key[v[j - 1]], key[v[j]])
    BY <2>3, <2>4, <2>5
  <2>7. v[i] = v[j - 1] \/ Before(key[v[i]], key[v[j - 1]])
    BY <2>3, <2>4
  <2>8. v[i] \in S /\ v[j] \in S /\ v[j - 1] \in S
    BY <1>1, <2>3, <2>4
  <2>9. key[v[i]] \in Seq(Nat) /\ key[v[j]] \in Seq(Nat) /\ key[v[j - 1]] \in Seq(Nat)
    BY <2>8 DEF Keyed
  <2>10. Before(key[v[i]], key[v[j]])
    BY <2>6, <2>7, <2>9, BeforeTransitive
  <2> QED BY <2>2, <2>10
<1> QED BY <1>2, <1>4, <1>6 DEF AscendsBy, w

(***************************************************************************)
(* Sorted and deduplicated, a vector ascends strictly and holds what it    *)
(* held, whatever its order and its repetitions were (src/result.cpp).     *)
(***************************************************************************)
THEOREM SortsAndDeduplicates ==
  ASSUME NEW S, NEW v \in Seq(S), NEW key, Keyed(S, key)
  PROVE  LET w == Unique(SortedBy(v, key))
         IN /\ w \in Seq(S)
            /\ Elements(w) = Elements(v)
            /\ AscendsBy(w, key)
<1> DEFINE u == SortedBy(v, key)
<1>1. /\ u \in Seq(S) /\ Elements(u) = Elements(v)
      /\ \A m, n \in 1..Len(u) : m < n => u[m] = u[n] \/ Before(key[u[m]], key[u[n]])
  BY SortedElements DEF ArrangedFrom
<1> HIDE DEF u
<1>2. /\ Unique(u) \in Seq(S) /\ AscendsBy(Unique(u), key)
      /\ Elements(Unique(u)) = Elements(u)
  BY <1>1, Deduplicated
<1> QED BY <1>1, <1>2 DEF u

-----------------------------------------------------------------------------
(***************************************************************************)
(* What ascends is determined by what it holds.                            *)
(***************************************************************************)

\* The first elements of an ascending vector are so many.
LEMMA FirstElements ==
  ASSUME NEW S, NEW v \in Seq(S), NEW key, Keyed(S, key), AscendsBy(v, key),
         NEW n \in 0..Len(v)
  PROVE  LET E == ElementsAt(v, 1..n)
         IN IsFiniteSet(E) /\ Cardinality(E) = n
<1> DEFINE E == {v[i] : i \in 1..n}
           f == [i \in 1..n |-> v[i]]
<1>1. n \in Nat /\ 1..n \subseteq 1..Len(v) /\ \A i \in 1..Len(v) : v[i] \in S
  OBVIOUS
<1>2. ASSUME NEW i \in 1..n, NEW j \in 1..n, v[i] = v[j] PROVE i = j
  <2>1. key[v[i]] \in Seq(Nat) /\ key[v[i]] = key[v[j]]
    BY <1>1, <1>2 DEF Keyed
  <2>2. ~ Before(key[v[i]], key[v[j]]) /\ ~ Before(key[v[j]], key[v[i]])
    BY <2>1, NeverBeforeItself
  <2>3. ~ (i < j) /\ ~ (j < i)
    BY <1>1, <2>2 DEF AscendsBy
  <2> QED BY <2>3
<1>3. f \in [1..n -> E] /\ \A i \in 1..n : f[i] = v[i]
  OBVIOUS
<1>4. f \in Injection(1..n, E)
  <2>1. \A i, j \in 1..n : f[i] = f[j] => i = j
    BY <1>2
  <2> HIDE DEF f, E
  <2> QED BY <1>3, <2>1, Zenon DEF Injection, IsInjective
<1>5. f \in Surjection(1..n, E)
  BY <1>3 DEF Surjection
<1>6. ExistsBijection(1..n, E)
  <2> HIDE DEF f, E
  <2> QED BY <1>4, <1>5 DEF ExistsBijection, Bijection
<1>7. IsFiniteSet(1..n) /\ Cardinality(1..n) = n
  BY <1>1, PlacesCounted
<1> HIDE DEF E
<1>8. IsFiniteSet(E) /\ Cardinality(E) = n
  BY <1>6, <1>7, FS_Bijection
<1> QED BY <1>8 DEF ElementsAt, E

Preceding(E, key, x) == {y \in E : Before(key[y], key[x])}

\* Each element of an ascending vector is preceded by those before it alone.
LEMMA ElementsBefore ==
  ASSUME NEW S, NEW v \in Seq(S), NEW key, Keyed(S, key), AscendsBy(v, key),
         NEW n \in 1..Len(v)
  PROVE  LET B == Preceding(Elements(v), key, v[n])
         IN IsFiniteSet(B) /\ Cardinality(B) = n - 1
<1> DEFINE B == Preceding(Elements(v), key, v[n])
           E == ElementsAt(v, 1..(n - 1))
<1>1. n - 1 \in 0..Len(v) /\ \A i \in 1..Len(v) : v[i] \in S
  OBVIOUS
<1>2. ASSUME NEW i \in 1..Len(v) PROVE Before(key[v[i]], key[v[n]]) <=> i < n
  <2>1. CASE i < n
    BY <2>1 DEF AscendsBy
  <2>2. CASE ~ (i < n)
    <3>1. key[v[i]] \in Seq(Nat) /\ key[v[n]] \in Seq(Nat)
      BY <1>1 DEF Keyed
    <3>2. n = i \/ n < i
      BY <2>2
    <3>3. v[i] = v[n] \/ Before(key[v[n]], key[v[i]])
      BY <3>2 DEF AscendsBy
    <3> QED BY <2>2, <3>1, <3>3, NeverBeforeItself, BeforeTransitive
  <2> QED BY <2>1, <2>2, Zenon
<1>3. B = E
  <2>1. \A i \in 1..Len(v) : i < n <=> i \in 1..(n - 1)
    OBVIOUS
  <2>2. 1..(n - 1) \subseteq 1..Len(v)
    BY <1>1
  <2> QED BY <1>2, <2>1, <2>2 DEF Preceding, Elements, ElementsAt
<1>4. IsFiniteSet(E) /\ Cardinality(E) = n - 1
  BY <1>1, FirstElements
<1> HIDE DEF B, E
<1>5. IsFiniteSet(B) /\ Cardinality(B) = n - 1
  BY <1>3, <1>4
<1> QED BY <1>5 DEF B

\* At no place does one of two such vectors run ahead of the other.
LEMMA NeitherAhead ==
  ASSUME NEW S, NEW key, Keyed(S, key),
         NEW v \in Seq(S), AscendsBy(v, key), NEW w \in Seq(S), AscendsBy(w, key),
         Elements(v) = Elements(w),
         NEW n \in 1..Len(v), n \in 1..Len(w)
  PROVE  ~ Before(key[v[n]], key[w[n]])
<1> DEFINE E == Elements(v)
           B == Preceding(E, key, v[n])
           C == Preceding(E, key, w[n])
<1>1. E \subseteq S /\ v[n] \in E /\ w[n] \in S
  BY DEF Elements
<1>2. IsFiniteSet(B) /\ Cardinality(B) = n - 1
  BY ElementsBefore
<1>3. IsFiniteSet(C) /\ Cardinality(C) = n - 1
  BY ElementsBefore
<1> SUFFICES ASSUME Before(key[v[n]], key[w[n]]) PROVE FALSE
  OBVIOUS
<1>4. v[n] \in C
  BY <1>1 DEF Preceding
<1>5. B \subseteq C
  <2> SUFFICES ASSUME NEW y \in B PROVE y \in C
    OBVIOUS
  <2>1. y \in E /\ Before(key[y], key[v[n]])
    BY DEF Preceding
  <2>2. key[y] \in Seq(Nat) /\ key[v[n]] \in Seq(Nat) /\ key[w[n]] \in Seq(Nat)
    BY <1>1, <2>1 DEF Keyed
  <2>3. Before(key[y], key[w[n]])
    BY <2>1, <2>2, BeforeTransitive
  <2> QED BY <2>1, <2>3 DEF Preceding
<1>6. v[n] \notin B
  <2>1. key[v[n]] \in Seq(Nat)
    BY <1>1 DEF Keyed
  <2> QED BY <2>1, NeverBeforeItself DEF Preceding
<1> HIDE DEF B, C
<1>7. B \in SUBSET C /\ (Cardinality(C) = Cardinality(B) => C = B)
  BY <1>3, <1>5, FS_Subset
<1> QED BY <1>2, <1>3, <1>4, <1>6, <1>7

(***************************************************************************)
(* Two ascending vectors of the same elements are one: what an identity is *)
(* hashed over does not depend on the order in which it was collected.     *)
(***************************************************************************)
THEOREM SameVector ==
  ASSUME NEW S, NEW key, Keyed(S, key),
         NEW v \in Seq(S), AscendsBy(v, key), NEW w \in Seq(S), AscendsBy(w, key),
         Elements(v) = Elements(w)
  PROVE  v = w
<1>1. Len(v) = Len(w)
  <2>1. Len(v) \in 0..Len(v) /\ Len(w) \in 0..Len(w)
    OBVIOUS
  <2>2. Elements(v) = ElementsAt(v, 1..Len(v)) /\ Elements(w) = ElementsAt(w, 1..Len(w))
    BY DEF Elements, ElementsAt
  <2>3. Cardinality(ElementsAt(v, 1..Len(v))) = Len(v)
    BY <2>1, FirstElements
  <2>4. Cardinality(ElementsAt(w, 1..Len(w))) = Len(w)
    BY <2>1, FirstElements
  <2> QED BY <2>2, <2>3, <2>4
<1>2. ASSUME NEW n \in 1..Len(v) PROVE v[n] = w[n]
  <2>1. ~ Before(key[v[n]], key[w[n]])
    BY <1>1, NeitherAhead
  <2>2. ~ Before(key[w[n]], key[v[n]])
    BY <1>1, NeitherAhead
  <2>3. v[n] \in S /\ w[n] \in S
    BY <1>1
  <2> QED BY <2>1, <2>2, <2>3 DEF Keyed, Comparable
<1> QED BY <1>1, <1>2, SeqEqual

\* Nothing is gained by sorting and deduplicating.
LEMMA NoLonger ==
  ASSUME NEW S, NEW key, Keyed(S, key), NEW v \in Seq(S),
         NEW w \in Seq(S), AscendsBy(w, key), Elements(w) = Elements(v)
  PROVE  Len(w) <= Len(v) /\ Len(w) \in Nat
<1>1. Len(v) \in Nat /\ Len(w) \in Nat /\ Len(w) \in 0..Len(w)
  OBVIOUS
<1>2. Elements(w) = ElementsAt(w, 1..Len(w))
  BY DEF Elements, ElementsAt
<1>3. Cardinality(Elements(w)) = Len(w)
  BY <1>1, <1>2, FirstElements
<1> DEFINE f == [i \in 1..Len(v) |-> v[i]]
<1>4. f \in Surjection(1..Len(v), Elements(v))
  BY DEF Surjection, Elements
<1>5. IsFiniteSet(1..Len(v)) /\ Cardinality(1..Len(v)) = Len(v)
  BY <1>1, PlacesCounted
<1> HIDE DEF f
<1>6. Cardinality(Elements(v)) <= Len(v)
  BY <1>4, <1>5, FS_Surjection
<1> QED BY <1>1, <1>3, <1>6
=============================================================================
