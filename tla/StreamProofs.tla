------------------------------ MODULE StreamProofs ------------------------------
(***************************************************************************)
(* Proofs about the streams that are hashed into identities: what is       *)
(* written can be read back in one way only, so that equal streams come    *)
(* from equal values.                                                      *)
(*                                                                         *)
(* Streams hold lists of any length.  The induction over a list is made    *)
(* with a set of numbers that has no least element (WFMin of the library): *)
(* it needs no theorem with an operator for a parameter.                   *)
(***************************************************************************)
EXTENDS Streams, Integers, SequenceTheorems, WellFoundedInduction, TLAPS

-----------------------------------------------------------------------------
\* A set of numbers has a least element.
LEMMA LeastNumber ==
  ASSUME NEW T \in SUBSET Nat, T # {}
  PROVE  \E n \in T : \A m \in T : n <= m
<1> DEFINE R == {p \in Nat \X Nat : p[1] < p[2]}
<1>1. IsWellFoundedOn(R, Nat)
  <2>1. R = OpToRel(<, Nat)
    BY Zenon DEF OpToRel
  <2> HIDE DEF R
  <2> QED BY <2>1, NatLessThanWellFounded, Zenon
<1>2. \A x, y \in Nat : x < y => <<x, y>> \in R
  OBVIOUS
<1> HIDE DEF R
<1>3. PICK n \in T : \A m \in T : ~(<<m, n>> \in R)
  <2>1. T \subseteq Nat
    OBVIOUS
  <2> QED BY <2>1, <1>1, WFMin, Zenon
<1>4. ASSUME NEW m \in T PROVE n <= m
  <2>1. m \in Nat /\ n \in Nat
    OBVIOUS
  <2>2. ~(m < n)
    BY <2>1, <1>2, <1>3, Zenon
  <2> QED BY <2>1, <2>2
<1> QED BY <1>4, Zenon

\* Induction: a set that holds 0 and every successor holds every number.
LEMMA HoldsAllNumbers ==
  ASSUME NEW S \in SUBSET Nat, 0 \in S, \A n \in Nat : n \in S => n + 1 \in S
  PROVE  S = Nat
<1> SUFFICES ASSUME Nat \ S # {} PROVE FALSE
  OBVIOUS
<1>1. PICK n \in Nat \ S : \A m \in Nat \ S : n <= m
  BY LeastNumber
<1>2. n # 0 /\ n - 1 \in Nat
  OBVIOUS
<1>3. n - 1 \in S
  BY <1>1, <1>2
<1> QED BY <1>2, <1>3

(***************************************************************************)
(* FlattenSeq: the function it is defined by exists and is unique, the     *)
(* result is a sequence, and appending to the list appends to the result.  *)
(***************************************************************************)
Flattens(f, s) == f = [i \in 1..Len(s) |-> IF i = 1 THEN s[i] ELSE f[i-1] \o s[i]]

\* By induction on the part of the list flattened so far.
LEMMA FlatExists ==
  ASSUME NEW S, NEW s \in Seq(Seq(S)), s # <<>>
  PROVE  \E f \in [1..Len(s) -> Seq(S)] : Flattens(f, s)
<1> DEFINE Next(f, i) == IF i = 1 THEN s[i] ELSE f[i-1] \o s[i]
           Reaches(n, f) == f = [i \in 1..n |-> Next(f, i)]
           Good(n) == n <= Len(s) => \E f \in [1..n -> Seq(S)] : Reaches(n, f)
<1>1. Good(0)
  <2> DEFINE e == [i \in 1..0 |-> <<>>]
  <2>1. e \in [1..0 -> Seq(S)]
    OBVIOUS
  <2>2. Reaches(0, e)
    OBVIOUS
  <2> QED BY <2>1, <2>2
<1>2. ASSUME NEW n \in Nat, Good(n) PROVE Good(n + 1)
  <2> SUFFICES ASSUME n + 1 <= Len(s) PROVE \E f \in [1..(n+1) -> Seq(S)] : Reaches(n+1, f)
    BY Zenon
  <2>0. n <= Len(s) /\ n + 1 \in 1..Len(s) /\ n + 1 - 1 = n
    OBVIOUS
  <2>1. PICK f \in [1..n -> Seq(S)] : Reaches(n, f)
    BY <2>0, <1>2, Zenon
  <2> DEFINE g == [i \in 1..(n+1) |-> IF i = n + 1 THEN Next(f, i) ELSE f[i]]
  <2>3. s[n+1] \in Seq(S)
    BY <2>0
  <2>4. n # 0 => f[n] \in Seq(S)
    OBVIOUS
  <2>5. Next(f, n+1) \in Seq(S)
    <3>1. CASE n = 0 BY <3>1, <2>3
    <3>2. CASE n # 0 BY <3>2, <2>0, <2>3, <2>4, ConcatProperties
    <3> QED BY <3>1, <3>2
  <2>6. ASSUME NEW i \in 1..(n+1) PROVE /\ g[i] = Next(g, i) /\ g[i] \in Seq(S)
    <3>1. CASE i = n+1 
      <4>1. i # 1 => i - 1 \in 1..(n+1) /\ i - 1 # n + 1
        BY <3>1
      <4>2. i # 1 => g[i - 1] = f[i - 1]
        BY <4>1, Zenon
      <4>3. g[i] = Next(f, i)
        BY <3>1, Zenon
      <4> QED BY <4>2, <4>3, <2>5, <3>1, Zenon
    <3>2. CASE i # n+1 
      <4>1. i \in 1..n /\ (i # 1 => i - 1 \in 1..(n+1) /\ i - 1 # n + 1)
         BY <3>2
      <4>2. g[i] = f[i] /\ (i # 1 => g[i-1] = f[i-1])
         BY <4>1, <3>2, Zenon
      <4>3. f[i] = Next(f, i)
         BY <4>1, <2>1, Zenon
      <4>4. f[i] \in Seq(S)
         BY <4>1
      <4> QED BY <4>2, <4>3, <4>4, Zenon
    <3> QED BY <3>1, <3>2
  <2>7. g = [i \in 1..(n+1) |-> g[i]]
    BY Zenon
  <2> HIDE DEF g, Next
  <2>8. g \in [1..(n+1) -> Seq(S)] /\ Reaches(n+1, g)
    BY <2>6, <2>7, Zenon
  <2> QED BY <2>8, Zenon
<1> HIDE DEF Good
<1>3. \A n \in Nat : Good(n)
  <2> DEFINE T == {n \in Nat : Good(n)}
  <2>1. T \in SUBSET Nat /\ 0 \in T /\ \A n \in Nat : n \in T => n + 1 \in T
    BY <1>1, <1>2
  <2> HIDE DEF T
  <2>2. T = Nat
    BY <2>1, HoldsAllNumbers, Zenon
  <2> QED BY <2>2 DEF T
<1>4. Good(Len(s))
  BY <1>3
<1>5. \E f \in [1..Len(s) -> Seq(S)] : Reaches(Len(s), f)
  <2>1. Len(s) <= Len(s)
    OBVIOUS
  <2> QED BY <2>1, <1>4, Zenon DEF Good
<1> QED BY <1>5, Zenon DEF Flattens


\* FlattenSeq is the last value of that function.
LEMMA Flattened ==
  ASSUME NEW S, NEW s \in Seq(Seq(S)), s # <<>>
  PROVE  \E f : Flattens(f, s) /\ FlattenSeq(s) = f[Len(s)]
<1> DEFINE fl == CHOOSE f : Flattens(f, s)
<1>1. Flattens(fl, s)
  <2>1. \E f : Flattens(f, s)
    BY FlatExists, Zenon
  <2> QED BY <2>1, Zenon
<1>2. FlattenSeq(s) = fl[Len(s)]
  <2>1. Len(s) # 0
    OBVIOUS
  <2> QED BY <2>1, Zenon DEF FlattenSeq, Flattens
<1> QED BY <1>1, <1>2, Zenon

\* t begins with the elements of s.
Begins(t, s) ==
  /\ Len(s) \in Nat /\ Len(t) \in Nat /\ Len(s) <= Len(t)
  /\ \A i \in 1..Len(s) : s[i] = t[i]

\* Lists that begin alike are flattened alike, as far as they do.
LEMMA OnlyFlattening ==
  ASSUME NEW s, NEW t, NEW f, NEW g, Flattens(f, s), Flattens(g, t), Begins(t, s)
  PROVE  \A i \in 1..Len(s) : f[i] = g[i]
<1> USE DEF Begins
<1> DEFINE n == Len(s)
<1> DEFINE T == {k \in Nat : k \in 1..n => f[k] = g[k]}
<1>1. 0 \in T
  OBVIOUS
<1>2. ASSUME NEW k \in Nat, k \in T PROVE k + 1 \in T
  <2> SUFFICES ASSUME k + 1 \in 1..n PROVE f[k+1] = g[k+1]
    OBVIOUS
  <2> DEFINE j == k + 1
  <2>1. j \in 1..Len(s) /\ j \in 1..Len(t) /\ j - 1 = k /\ s[j] = t[j] /\ (j # 1 => k \in 1..n)
    OBVIOUS
  <2>2. j # 1 => f[k] = g[k]
    BY <2>1, <1>2
  <2> HIDE DEF j, T
  <2>3. f[j] = (IF j = 1 THEN s[j] ELSE f[k] \o s[j])
    BY <2>1, Zenon DEF Flattens
  <2>4. g[j] = (IF j = 1 THEN t[j] ELSE g[k] \o t[j])
    BY <2>1, Zenon DEF Flattens
  <2>5. f[j] = g[j]
    BY <2>1, <2>2, <2>3, <2>4, Zenon
  <2> QED BY <2>5 DEF j
<1>3. T = Nat
  <2>1. T \in SUBSET Nat
    OBVIOUS
  <2> HIDE DEF T
  <2> QED BY <2>1, <1>1, <1>2, HoldsAllNumbers, Zenon
<1> QED BY <1>3

\* One more element at the end.
LEMMA FlattenAppend ==
  ASSUME NEW S, NEW s \in Seq(Seq(S)), NEW x \in Seq(S)
  PROVE  FlattenSeq(Append(s, x)) = FlattenSeq(s) \o x
<1> DEFINE t == Append(s, x)
<1>1. /\ t \in Seq(Seq(S)) /\ t # <<>> /\ Len(t) = Len(s) + 1
      /\ Len(t) \in Nat /\ Len(s) \in Nat
      /\ t[Len(t)] = x /\ \A i \in 1..Len(s) : s[i] = t[i]
  <2>1. x \in Seq(S) /\ s \in Seq(Seq(S)) /\ Len(s) \in Nat
    OBVIOUS
  <2>2. /\ t \in Seq(Seq(S)) /\ t # <<>> /\ Len(t) = Len(s) + 1 
        /\ t[Len(t)] = x /\ \A i \in 1..Len(s) : t[i] = s[i]
    BY <2>1, AppendProperties
  <2> QED BY <2>1, <2>2
<1> HIDE DEF t
<1>2. PICK g : Flattens(g, t) /\ FlattenSeq(t) = g[Len(t)]
  BY <1>1, Flattened, Zenon
<1>3. CASE s = <<>>
  <2>1. Len(t) = 1 /\ Len(s) = 0 /\ 1 \in 1..Len(t)
    BY <1>1, <1>3
  <2>2. FlattenSeq(t) = x
    BY <1>1, <1>2, <2>1, Zenon DEF Flattens
  <2>3. FlattenSeq(s) = <<>>
    BY <1>3, <2>1, Zenon DEF FlattenSeq
  <2>4. <<>> \o x = x
    OBVIOUS
  <2> QED BY <2>2, <2>3, <2>4, Zenon DEF t
<1>4. CASE s # <<>>
  <2>1. PICK f : Flattens(f, s) /\ FlattenSeq(s) = f[Len(s)]
    BY <1>4, Flattened, Zenon
  <2>2. /\ Len(s) \in 1..Len(s) /\ Len(t) \in 1..Len(t) /\ Len(t) # 1 /\ Len(t) - 1 = Len(s)
        /\ Len(s) <= Len(s) /\ Len(s) <= Len(t)
    BY <1>1, <1>4
  <2>3. \A i \in 1..Len(s) : f[i] = g[i]
    <3>1. \A i \in 1..Len(s) : s[i] = t[i]
      BY <1>1
    <3>2. Len(s) \in Nat /\ Len(t) \in Nat /\ Len(s) <= Len(t)
      BY <1>1, <2>2
    <3>3. Flattens(f, s) /\ Flattens(g, t)
      BY <1>2, <2>1
    <3>4. Begins(t, s)
      BY <3>1, <3>2 DEF Begins
    <3> QED BY <3>3, <3>4, OnlyFlattening
  <2>4. g[Len(t)] = g[Len(s)] \o x
    BY <1>1, <1>2, <2>2, Zenon DEF Flattens
  <2> QED BY <1>2, <2>1, <2>2, <2>3, <2>4, Zenon DEF t
<1> QED BY <1>3, <1>4

\* What is flattened is a sequence of elements.
LEMMA FlattenType ==
  ASSUME NEW S, NEW s \in Seq(Seq(S))
  PROVE  FlattenSeq(s) \in Seq(S)
<1>1. CASE s = <<>>
  BY <1>1 DEF FlattenSeq
<1>2. CASE s # <<>>
  <2>1. PICK f \in [1..Len(s) -> Seq(S)] : Flattens(f, s)
    BY <1>2, FlatExists, Zenon
  <2>2. PICK g : Flattens(g, s) /\ FlattenSeq(s) = g[Len(s)]
    BY <1>2, Flattened, Zenon
  <2>3. Len(s) \in Nat /\ Len(s) <= Len(s) /\ Len(s) \in 1..Len(s)
    BY <1>2
  <2>4. \A i \in 1..Len(s) : f[i] = g[i]
    <3>1. Begins(s, s)
      BY <2>3 DEF Begins
    <3> QED BY <3>1, <2>1, <2>2, OnlyFlattening
  <2> QED BY <2>1, <2>2, <2>3, <2>4, Zenon
<1> QED BY <1>1, <1>2

-----------------------------------------------------------------------------
(***************************************************************************)
(* Euclidean division by 256, in the two forms used below.                 *)
(***************************************************************************)
LEMMA Division ==
  ASSUME NEW v \in Nat
  PROVE  /\ v \div 256 \in Nat
         /\ v % 256 \in Byte
         /\ v = (256 * (v \div 256)) + (v % 256)
  BY DEF Byte

\* Quotient and remainder determine a number.
LEMMA SameQuotient ==
  ASSUME NEW v \in Nat, NEW w \in Nat, v \div 256 = w \div 256, v % 256 = w % 256
  PROVE  v = w
  BY Division

\* number() writes eight bytes.
LEMMA NumberBytes ==
  ASSUME NEW v \in Nat
  PROVE  Number(v) \in Seq(Byte) /\ Len(Number(v)) = 8
  BY Division DEF Number

(***************************************************************************)
(* Two 64-bit numbers written alike are equal: from the high end down, the *)
(* quotients agree because their bytes do.                                 *)
(***************************************************************************)
THEOREM NumberReadable ==
  ASSUME NEW v, NEW w, Uint64(v), Uint64(w), Number(v) = Number(w)
  PROVE  v = w
<1> DEFINE v1 == v \div 256   w1 == w \div 256
           v2 == v1 \div 256  w2 == w1 \div 256
           v3 == v2 \div 256  w3 == w2 \div 256
           v4 == v3 \div 256  w4 == w3 \div 256
           v5 == v4 \div 256  w5 == w4 \div 256
           v6 == v5 \div 256  w6 == w5 \div 256
           v7 == v6 \div 256  w7 == w6 \div 256
<1>1. /\ v \in Nat /\ v1 \in Nat /\ v2 \in Nat /\ v3 \in Nat
      /\ v4 \in Nat /\ v5 \in Nat /\ v6 \in Nat /\ v7 \in Nat
  BY Division DEF Uint64
<1>2. /\ w \in Nat /\ w1 \in Nat /\ w2 \in Nat /\ w3 \in Nat
      /\ w4 \in Nat /\ w5 \in Nat /\ w6 \in Nat /\ w7 \in Nat
  BY Division DEF Uint64
<1>3. v7 < 256 /\ w7 < 256
  BY DEF Uint64
<1>4. /\ v7 % 256 = w7 % 256 /\ v6 % 256 = w6 % 256 /\ v5 % 256 = w5 % 256
      /\ v4 % 256 = w4 % 256 /\ v3 % 256 = w3 % 256 /\ v2 % 256 = w2 % 256
      /\ v1 % 256 = w1 % 256 /\ v % 256 = w % 256
  BY DEF Number
<1> HIDE DEF v1, v2, v3, v4, v5, v6, v7, w1, w2, w3, w4, w5, w6, w7
<1>5. v7 = w7
  BY <1>1, <1>2, <1>3, <1>4
<1>6. v6 = w6
  BY <1>1, <1>2, <1>4, <1>5, SameQuotient DEF v7, w7
<1>7. v5 = w5
  BY <1>1, <1>2, <1>4, <1>6, SameQuotient DEF v6, w6
<1>8. v4 = w4
  BY <1>1, <1>2, <1>4, <1>7, SameQuotient DEF v5, w5
<1>9. v3 = w3
  BY <1>1, <1>2, <1>4, <1>8, SameQuotient DEF v4, w4
<1>10. v2 = w2
  BY <1>1, <1>2, <1>4, <1>9, SameQuotient DEF v3, w3
<1>11. v1 = w1
  BY <1>1, <1>2, <1>4, <1>10, SameQuotient DEF v2, w2
<1> QED
  BY <1>1, <1>2, <1>4, <1>11, SameQuotient DEF v1, w1

(***************************************************************************)
(* Two concatenations that agree and whose first parts are of one length   *)
(* agree part by part.                                                     *)
(***************************************************************************)
LEMMA SplitAtLength ==
  ASSUME NEW a \in Seq(Byte), NEW b \in Seq(Byte), NEW x \in Seq(Byte), NEW y \in Seq(Byte),
         Len(a) = Len(b), a \o x = b \o y
  PROVE  a = b /\ x = y
<1>1. Len(x) = Len(y)
  <2>1. Len(a \o x) = Len(a) + Len(x)
    BY ConcatProperties
  <2>2. Len(b \o y) = Len(b) + Len(y)
    BY ConcatProperties
  <2> QED BY <2>1, <2>2
<1>2. ASSUME NEW i \in 1..Len(a) PROVE a[i] = b[i]
  BY (a \o x)[i] = a[i], (b \o y)[i] = b[i]
<1>3. ASSUME NEW i \in 1..Len(x) PROVE x[i] = y[i]
  <2>1. (a \o x)[Len(a) + i] = x[i]
    OBVIOUS
  <2>2. (b \o y)[Len(b) + i] = y[i]
    BY <1>1
  <2> QED BY <2>1, <2>2
<1> QED BY <1>1, <1>2, <1>3, SeqEqual

\* Three parts are put together either way.
LEMMA Reassociate ==
  ASSUME NEW a \in Seq(Byte), NEW b \in Seq(Byte), NEW c \in Seq(Byte)
  PROVE  (a \o b) \o c = a \o (b \o c)
  BY ConcatAssociative

Splits(a, b, x, y) == Len(a) = Len(b) /\ a \o x = b \o y => a = b /\ x = y

LEMMA Splitting ==
  \A a, b, x, y \in Seq(Byte) : Splits(a, b, x, y)
  BY SplitAtLength DEF Splits

Reassociates(a, b, c) == (a \o b) \o c = a \o (b \o c)

\* The same, for steps that are about many parts.
LEMMA Reassociation ==
  \A a, b, c \in Seq(Byte) : Reassociates(a, b, c)
  BY Reassociate, Zenon DEF Reassociates

(***************************************************************************)
(* A text is read back in one way only, whatever follows it: its length is *)
(* in front, so that a longer name cannot take bytes of the next field.    *)
(***************************************************************************)
THEOREM TextReadable ==
  ASSUME NEW s \in Seq(Byte), NEW t \in Seq(Byte), NEW x \in Seq(Byte), NEW y \in Seq(Byte),
         Uint64(Len(s)), Uint64(Len(t)), Text(s) \o x = Text(t) \o y
  PROVE  s = t /\ x = y
<1>1. PICK m \in Seq(Byte) : m = Number(Len(s))
  BY NumberBytes
<1>2. PICK n \in Seq(Byte) : n = Number(Len(t))
  BY NumberBytes
<1>3. Len(m) = Len(n)
  BY <1>1, <1>2, NumberBytes
<1>4. s \o x \in Seq(Byte) /\ t \o y \in Seq(Byte)
  OBVIOUS
<1>5. Reassociates(m, s, x)
  BY Reassociation, Zenon
<1>6. Reassociates(n, t, y)
  BY Reassociation, Zenon
<1>7. m \o (s \o x) = n \o (t \o y)
  BY <1>1, <1>2, <1>5, <1>6, Zenon DEF Text, Reassociates
<1>8. m = n /\ s \o x = t \o y
  <2>1. Splits(m, n, s \o x, t \o y)
    BY <1>4, Splitting
  <2> QED BY <1>3, <1>7, <2>1, Zenon DEF Splits
<1>9. Len(s) = Len(t)
  BY <1>1, <1>2, <1>8, NumberReadable
<1> QED BY <1>8, <1>9, SplitAtLength

\* What a text adds to a stream.
LEMMA TextBytes ==
  ASSUME NEW s \in Seq(Byte)
  PROVE  Text(s) \in Seq(Byte)
  BY NumberBytes DEF Text

-----------------------------------------------------------------------------
(***************************************************************************)
(* p and q tell x from y: whatever follows each, the streams agree only if *)
(* the parts and what follows agree, and the parts only if x and y do.     *)
(* Texts and numbers tell themselves apart, and so do pairs, lists and     *)
(* options of what is told apart: streams are put together of these.       *)
(***************************************************************************)
Delimits(p, q) ==
  \A u, v \in Seq(Byte) : p \o u = q \o v => p = q /\ u = v

Tells(p, q, x, y) ==
  /\ p \in Seq(Byte) /\ q \in Seq(Byte)
  /\ Delimits(p, q)
  /\ p = q => x = y

\* The texts a program can hold tell themselves apart.
LEMMA TellsText ==
  ASSUME NEW s \in TextValue, NEW t \in TextValue
  PROVE  Tells(Text(s), Text(t), s, t)
<1>1. s \in Seq(Byte) /\ t \in Seq(Byte) /\ Uint64(Len(s)) /\ Uint64(Len(t))
  BY DEF TextValue
<1>2. \A u, v \in Seq(Byte) : Text(s) \o u = Text(t) \o v => s = t /\ u = v
  BY <1>1, TextReadable
<1>3. Text(s) \in Seq(Byte) /\ Text(t) \in Seq(Byte)
  BY <1>1, TextBytes
<1>4. Text(s) = Text(t) => s = t
  <2>1. <<>> \in Seq(Byte)
    OBVIOUS
  <2> QED BY <1>2, <2>1
<1> QED BY <1>2, <1>3, <1>4, Zenon DEF Tells, Delimits

\* So do numbers, which are all eight bytes long.
LEMMA TellsNumber ==
  ASSUME NEW v \in NumberValue, NEW w \in NumberValue
  PROVE  Tells(Number(v), Number(w), v, w)
<1>1. v \in Nat /\ w \in Nat /\ Uint64(v) /\ Uint64(w)
  BY DEF NumberValue
<1>2. /\ Number(v) \in Seq(Byte) /\ Number(w) \in Seq(Byte)
      /\ Len(Number(v)) = Len(Number(w))
  BY <1>1, NumberBytes
<1>3. Number(v) = Number(w) => v = w
  BY <1>1, NumberReadable, Zenon
<1>4. Delimits(Number(v), Number(w))
  BY <1>2, SplitAtLength, Zenon DEF Delimits
<1> QED BY <1>2, <1>3, <1>4, Zenon DEF Tells

(***************************************************************************)
(* One part after another; the second may have to be told apart only when  *)
(* the first is the same.                                                  *)
(***************************************************************************)
LEMMA DelimitsBehind ==
  ASSUME NEW p \in Seq(Byte), NEW q \in Seq(Byte), Delimits(p, q),
         NEW a \in Seq(Byte), NEW b \in Seq(Byte), p = q => Delimits(a, b)
  PROVE  Delimits(p \o a, q \o b)
<1> SUFFICES ASSUME NEW u \in Seq(Byte), NEW v \in Seq(Byte), (p \o a) \o u = (q \o b) \o v
             PROVE  p \o a = q \o b /\ u = v
  BY Zenon DEF Delimits
<1>1. p \o (a \o u) = q \o (b \o v)
  <2>1. Reassociates(p, a, u) /\ Reassociates(q, b, v)
    BY Reassociation
  <2> QED BY <2>1, Zenon DEF Reassociates
<1>2. a \o u \in Seq(Byte) /\ b \o v \in Seq(Byte)
  BY ConcatProperties, Zenon
<1>3. p = q /\ a \o u = b \o v
  BY <1>1, <1>2, Zenon DEF Delimits
<1>4. a = b /\ u = v
  BY <1>3, Zenon DEF Delimits
<1> QED BY <1>3, <1>4, Zenon

\* Then what is written of the two tells the pairs apart.
LEMMA TellsBehind ==
  ASSUME NEW p, NEW q, NEW x, NEW y, Tells(p, q, x, y),
         NEW a \in Seq(Byte), NEW b \in Seq(Byte), NEW z, NEW w, x = y => Tells(a, b, z, w)
  PROVE  Tells(p \o a, q \o b, <<x, z>>, <<y, w>>)
<1>1. p \in Seq(Byte) /\ q \in Seq(Byte) /\ Delimits(p, q) /\ (p = q => x = y)
  BY Zenon DEF Tells
<1>2. p = q => Delimits(a, b)
  BY <1>1, Zenon DEF Tells
<1>3. Delimits(p \o a, q \o b)
  BY <1>1, <1>2, DelimitsBehind, Zenon
<1>4. p \o a \in Seq(Byte) /\ q \o b \in Seq(Byte)
  BY <1>1, ConcatProperties, Zenon
<1>5. ASSUME p \o a = q \o b PROVE x = y /\ z = w
  <2>1. p = q /\ a = b
    BY <1>1, <1>5, Zenon DEF Delimits
  <2> QED BY <1>1, <2>1, Zenon DEF Tells
<1>6. p \o a = q \o b => <<x, z>> = <<y, w>>
  BY <1>5, Zenon
<1> QED BY <1>3, <1>4, <1>6, Zenon DEF Tells

\* Two parts that are told apart whatever the other is.
LEMMA TellsPair ==
  ASSUME NEW p, NEW q, NEW a, NEW b, NEW x, NEW y, NEW z, NEW w,
         Tells(p, q, x, y), Tells(a, b, z, w)
  PROVE  Tells(p \o a, q \o b, <<x, z>>, <<y, w>>)
<1>1. a \in Seq(Byte) /\ b \in Seq(Byte)
  BY Zenon DEF Tells
<1> QED BY <1>1, TellsBehind, Zenon

-----------------------------------------------------------------------------
(***************************************************************************)
(* Lists.  Two lists of one length whose elements delimit each other are   *)
(* delimited as a whole, and equal if their streams are: by induction on   *)
(* the length, taking the last elements off.                               *)
(***************************************************************************)
Matched(s, t, n) ==
  /\ s \in Seq(Seq(Byte)) /\ t \in Seq(Seq(Byte))
  /\ Len(s) = n /\ Len(t) = n
  /\ \A i \in 1..n : Delimits(s[i], t[i])

\* r is the list s of n + 1 elements without the last.
LastOf(s, r, n) ==
  /\ Len(r) = n /\ \A i \in 1..n : r[i] = s[i]
  /\ s = Append(r, s[n + 1])
  /\ s[n + 1] \in Seq(Byte)
  /\ FlattenSeq(s) = FlattenSeq(r) \o s[n + 1]
  /\ FlattenSeq(r) \in Seq(Byte)

\* Every list that is not empty has a last element to take off.
LEMMA LastOff ==
  ASSUME NEW n \in Nat, NEW s \in Seq(Seq(Byte)), Len(s) = n + 1
  PROVE  \E r \in Seq(Seq(Byte)) : LastOf(s, r, n)
<1> DEFINE r == [i \in 1..n |-> s[i]]
<1>1. r \in Seq(Seq(Byte)) /\ Len(r) = n /\ \A i \in 1..n : r[i] = s[i]
  OBVIOUS
<1>2. s[n + 1] \in Seq(Byte)
  OBVIOUS
<1> HIDE DEF r
<1>3. s = Append(r, s[n + 1])
  <2> DEFINE a == Append(r, s[n + 1])
  <2>1. /\ a \in Seq(Seq(Byte)) /\ Len(a) = n + 1 /\ a[n + 1] = s[n + 1]
        /\ \A i \in 1..n : a[i] = r[i]
    BY <1>1, <1>2, AppendProperties
  <2> HIDE DEF a
  <2>2. \A i \in 1..Len(s) : s[i] = a[i]
    BY <1>1, <2>1
  <2>3. s = a
    BY <2>1, <2>2, SeqEqual
  <2> QED BY <2>3 DEF a
<1>4. FlattenSeq(s) = FlattenSeq(r) \o s[n + 1]
  <2>1. FlattenSeq(Append(r, s[n + 1])) = FlattenSeq(r) \o s[n + 1]
    BY <1>1, <1>2, FlattenAppend, Zenon
  <2> QED BY <1>3, <2>1, Zenon
<1>5. FlattenSeq(r) \in Seq(Byte)
  BY <1>1, FlattenType, Zenon
<1> QED BY <1>1, <1>2, <1>3, <1>4, <1>5, Zenon DEF LastOf

\* By induction on the length n.
LEMMA ListsDelimit ==
  ASSUME NEW n \in Nat, NEW s, NEW t, Matched(s, t, n)
  PROVE  /\ Delimits(FlattenSeq(s), FlattenSeq(t))
         /\ FlattenSeq(s) = FlattenSeq(t) => s = t
<1> DEFINE Apart(a, b) == /\ Delimits(FlattenSeq(a), FlattenSeq(b))
                          /\ FlattenSeq(a) = FlattenSeq(b) => a = b
           Good(k) == \A a, b : Matched(a, b, k) => Apart(a, b)
<1>1. Good(0)
  <2> SUFFICES ASSUME NEW a, NEW b, Matched(a, b, 0) PROVE Apart(a, b)
    BY Zenon
  <2>1. a = <<>> /\ b = <<>>
    BY DEF Matched
  <2>2. FlattenSeq(a) = <<>> /\ FlattenSeq(b) = <<>>
    BY <2>1 DEF FlattenSeq
  <2>3. \A u \in Seq(Byte) : <<>> \o u = u
    OBVIOUS
  <2> QED BY <2>1, <2>2, <2>3, Zenon DEF Delimits
<1>2. ASSUME NEW k \in Nat, Good(k) PROVE Good(k + 1)
  <2> SUFFICES ASSUME NEW a, NEW b, Matched(a, b, k + 1) PROVE Apart(a, b)
    BY Zenon
  <2>1. /\ a \in Seq(Seq(Byte)) /\ b \in Seq(Seq(Byte))
        /\ Len(a) = k + 1 /\ Len(b) = k + 1
        /\ \A i \in 1..(k + 1) : Delimits(a[i], b[i])
    BY DEF Matched
  <2>2. PICK c \in Seq(Seq(Byte)) : LastOf(a, c, k)
    BY <2>1, LastOff, Zenon
  <2>3. PICK d \in Seq(Seq(Byte)) : LastOf(b, d, k)
    BY <2>1, LastOff, Zenon
  <2>4. Matched(c, d, k)
    BY <2>1, <2>2, <2>3 DEF Matched, LastOf
  <2>5. Tells(FlattenSeq(c), FlattenSeq(d), c, d)
    BY <1>2, <2>2, <2>3, <2>4, Zenon DEF Tells, LastOf
  <2>6. Delimits(a[k + 1], b[k + 1])
    BY <2>1
  <2>7. Tells(a[k + 1], b[k + 1], a[k + 1], b[k + 1])
    BY <2>2, <2>3, <2>6, Zenon DEF Tells, LastOf
  <2>8. Tells(FlattenSeq(a), FlattenSeq(b), <<c, a[k + 1]>>, <<d, b[k + 1]>>)
    <3>1. Tells(FlattenSeq(c) \o a[k + 1], FlattenSeq(d) \o b[k + 1],
                <<c, a[k + 1]>>, <<d, b[k + 1]>>)
      BY <2>5, <2>7, TellsPair, Zenon
    <3> QED BY <2>2, <2>3, <3>1, Zenon DEF LastOf
  <2>9. <<c, a[k + 1]>> = <<d, b[k + 1]>> => c = d /\ a[k + 1] = b[k + 1]
    BY Zenon
  <2> QED BY <2>2, <2>3, <2>8, <2>9, Zenon DEF Tells, LastOf
<1> HIDE DEF Good
<1>3. \A k \in Nat : Good(k)
  <2> DEFINE T == {k \in Nat : Good(k)}
  <2>1. T \in SUBSET Nat /\ 0 \in T /\ \A k \in Nat : k \in T => k + 1 \in T
    BY <1>1, <1>2
  <2> HIDE DEF T
  <2>2. T = Nat
    BY <2>1, HoldsAllNumbers, Zenon
  <2> QED BY <2>2 DEF T
<1> QED BY <1>3, Zenon DEF Good

(***************************************************************************)
(* A list behind a head that tells its length: what Counted and Optional   *)
(* write.                                                                  *)
(***************************************************************************)
LEMMA TellsHeaded ==
  ASSUME NEW S, NEW v \in Seq(S), NEW w \in Seq(S),
         NEW s \in Seq(Seq(Byte)), NEW t \in Seq(Seq(Byte)), Len(s) = Len(v), Len(t) = Len(w),
         \A i \in 1..Len(v), j \in 1..Len(w) : Tells(s[i], t[j], v[i], w[j]),
         NEW h, NEW k, Tells(h, k, Len(v), Len(w))
  PROVE  Tells(h \o FlattenSeq(s), k \o FlattenSeq(t), v, w)
<1> DEFINE f == FlattenSeq(s)  g == FlattenSeq(t)
<1>1. f \in Seq(Byte) /\ g \in Seq(Byte)
  BY FlattenType
<1>2. ASSUME Len(v) = Len(w) PROVE Tells(f, g, v, w)
  <2>1. /\ Len(v) \in Nat
        /\ \A i \in 1..Len(v) : Tells(s[i], t[i], v[i], w[i])
    BY <1>2
  <2>2. \A i \in 1..Len(v) : Delimits(s[i], t[i])
    BY <2>1, Zenon DEF Tells
  <2>3. Matched(s, t, Len(v))
    BY <1>2, <2>2 DEF Matched
  <2>4. Delimits(f, g) /\ (f = g => s = t)
    BY <2>1, <2>3, ListsDelimit, Zenon
  <2>5. ASSUME s = t PROVE v = w
    <3>1. \A i \in 1..Len(v) : v[i] = w[i]
      BY <2>1, <2>5, Zenon DEF Tells
    <3> QED BY <1>2, <3>1, SeqEqual
  <2> QED BY <1>1, <2>4, <2>5, Zenon DEF Tells
<1> HIDE DEF f, g
<1>3. Tells(h \o f, k \o g, <<Len(v), v>>, <<Len(w), w>>)
  BY <1>1, <1>2, TellsBehind, Zenon
<1>4. <<Len(v), v>> = <<Len(w), w>> => v = w
  BY Zenon
<1> QED BY <1>3, <1>4, Zenon DEF Tells, f, g

\* A function on the first numbers is a list.
LEMMA FunctionIsList ==
  ASSUME NEW S, NEW n \in Nat, NEW s \in [1..n -> S]
  PROVE  s \in Seq(S) /\ Len(s) = n
  OBVIOUS

\* A counted list.
LEMMA TellsCounted ==
  ASSUME NEW S, NEW v \in List(S), NEW w \in List(S),
         NEW s \in [1..Len(v) -> Seq(Byte)], NEW t \in [1..Len(w) -> Seq(Byte)],
         \A i \in 1..Len(v), j \in 1..Len(w) : Tells(s[i], t[j], v[i], w[j])
  PROVE  Tells(Number(Len(v)) \o FlattenSeq(s), Number(Len(w)) \o FlattenSeq(t), v, w)
<1>1. v \in Seq(S) /\ w \in Seq(S) /\ Len(v) \in NumberValue /\ Len(w) \in NumberValue
  BY DEF List, NumberValue
<1>2. /\ s \in Seq(Seq(Byte)) /\ t \in Seq(Seq(Byte))
      /\ Len(s) = Len(v) /\ Len(t) = Len(w)
  <2>1. Len(v) \in Nat /\ Len(w) \in Nat
    BY <1>1, LenProperties
  <2> QED BY <2>1, FunctionIsList
<1>3. Tells(Number(Len(v)), Number(Len(w)), Len(v), Len(w))
  BY <1>1, TellsNumber, Zenon
<1> QED BY <1>1, <1>2, <1>3, TellsHeaded, Zenon

\* Division keeps the order of numbers.
LEMMA QuotientsOrdered ==
  ASSUME NEW x \in Nat, NEW y \in Nat, x <= y
  PROVE  x \div 256 \in Nat /\ y \div 256 \in Nat /\ x \div 256 <= y \div 256
  OBVIOUS

\* Less than a 64-bit number is a 64-bit number.
LEMMA NumbersBelow ==
  ASSUME NEW m \in NumberValue, NEW n \in Nat, n <= m
  PROVE  n \in NumberValue
<1> DEFINE m1 == m \div 256   n1 == n \div 256
           m2 == m1 \div 256  n2 == n1 \div 256
           m3 == m2 \div 256  n3 == n2 \div 256
           m4 == m3 \div 256  n4 == n3 \div 256
           m5 == m4 \div 256  n5 == n4 \div 256
           m6 == m5 \div 256  n6 == n5 \div 256
           m7 == m6 \div 256  n7 == n6 \div 256
<1>1. m \in Nat /\ m7 < 256
  BY DEF NumberValue, Uint64
<1>2. Uint64(n) <=> n7 < 256
  BY DEF Uint64
<1> HIDE DEF m1, m2, m3, m4, m5, m6, m7, n1, n2, n3, n4, n5, n6, n7
<1>3. m1 \in Nat /\ n1 \in Nat /\ n1 <= m1
  BY <1>1, QuotientsOrdered DEF m1, n1
<1>4. m2 \in Nat /\ n2 \in Nat /\ n2 <= m2
  BY <1>3, QuotientsOrdered DEF m2, n2
<1>5. m3 \in Nat /\ n3 \in Nat /\ n3 <= m3
  BY <1>4, QuotientsOrdered DEF m3, n3
<1>6. m4 \in Nat /\ n4 \in Nat /\ n4 <= m4
  BY <1>5, QuotientsOrdered DEF m4, n4
<1>7. m5 \in Nat /\ n5 \in Nat /\ n5 <= m5
  BY <1>6, QuotientsOrdered DEF m5, n5
<1>8. m6 \in Nat /\ n6 \in Nat /\ n6 <= m6
  BY <1>7, QuotientsOrdered DEF m6, n6
<1>9. m7 \in Nat /\ n7 \in Nat /\ n7 <= m7
  BY <1>8, QuotientsOrdered DEF m7, n7
<1>10. n7 < 256
  BY <1>1, <1>9
<1> QED BY <1>2, <1>10 DEF NumberValue

\* The length of an option is a number.
LEMMA ShortNumber == \A n \in {0, 1} : n \in NumberValue
  BY DEF NumberValue, Uint64

\* An option: whether it is there, then what it is.
LEMMA TellsOptional ==
  ASSUME NEW S, NEW v \in Option(S), NEW w \in Option(S),
         NEW s \in [1..Len(v) -> Seq(Byte)], NEW t \in [1..Len(w) -> Seq(Byte)],
         \A i \in 1..Len(v), j \in 1..Len(w) : Tells(s[i], t[j], v[i], w[j])
  PROVE  Tells(Boolean(v # <<>>) \o FlattenSeq(s), Boolean(w # <<>>) \o FlattenSeq(t), v,
               w)
<1>1. /\ v \in Seq(S) /\ w \in Seq(S)
      /\ Len(v) \in {0, 1} /\ Len(w) \in {0, 1}
      /\ (v # <<>> <=> Len(v) = 1) /\ (w # <<>> <=> Len(w) = 1)
  <2>1. v \in Seq(S) /\ w \in Seq(S) /\ Len(v) <= 1 /\ Len(w) <= 1
    BY DEF Option
  <2>2. /\ Len(v) \in Nat /\ Len(w) \in Nat
        /\ (v # <<>> <=> Len(v) # 0) /\ (w # <<>> <=> Len(w) # 0)
    BY <2>1, LenProperties, EmptySeq
  <2>3. \A n \in Nat : n <= 1 => n \in {0, 1} /\ (n # 0 <=> n = 1)
    OBVIOUS
  <2> QED BY <2>1, <2>2, <2>3, Zenon
<1>2. /\ s \in Seq(Seq(Byte)) /\ t \in Seq(Seq(Byte))
      /\ Len(s) = Len(v) /\ Len(t) = Len(w)
  <2>1. Len(v) \in Nat /\ Len(w) \in Nat
    BY <1>1, LenProperties
  <2> QED BY <2>1, FunctionIsList
<1>3. Len(v) \in NumberValue /\ Len(w) \in NumberValue
  BY <1>1, ShortNumber, Zenon
<1>4. Boolean(v # <<>>) = Number(Len(v)) /\ Boolean(w # <<>>) = Number(Len(w))
  BY <1>1, Zenon DEF Boolean
<1>5. Tells(Number(Len(v)), Number(Len(w)), Len(v), Len(w))
  BY <1>3, TellsNumber, Zenon
<1>6. Tells(Boolean(v # <<>>), Boolean(w # <<>>), Len(v), Len(w))
  BY <1>4, <1>5, Zenon
<1> QED BY <1>1, <1>2, <1>6, TellsHeaded, Zenon

-----------------------------------------------------------------------------
(***************************************************************************)
(* The texts of enumerations.                                              *)
(***************************************************************************)
\* One byte is a text.
LEMMA ShortText ==
  ASSUME NEW b \in Byte
  PROVE  <<b>> \in TextValue
<1>1. <<b>> \in Seq(Byte) /\ Len(<<b>>) = 1
  OBVIOUS
<1>2. Uint64(1)
  BY DEF Uint64
<1> QED BY <1>1, <1>2 DEF TextValue

Enumerated ==
  {"build", "target"} \cup {"retain_compatible", "prefer_catalog"}
    \cup {"candidate", "installed"} \cup {"catalog_source",
    "installed_state"} \cup ReasonKind

\* No two enumerators of model.h are written alike.
LEMMA TellsEnum ==
  ASSUME NEW x \in Enumerated, NEW y \in Enumerated
  PROVE  Tells(Text(EnumText[x]), Text(EnumText[y]), x, y)
<1>1. EnumText[x] = EnumText[y] => x = y
  BY DEF Enumerated, EnumText, ReasonKind
<1>2. /\ 10 \in Byte /\ 11 \in Byte /\ 20 \in Byte /\ 21 \in Byte
      /\ 30 \in Byte /\ 31 \in Byte /\ 40 \in Byte /\ 41 \in Byte
      /\ 50 \in Byte /\ 51 \in Byte /\ 52 \in Byte /\ 53 \in Byte
      /\ 54 \in Byte /\ 55 \in Byte
  BY DEF Byte
<1>3. /\ <<10>> \in TextValue /\ <<11>> \in TextValue /\ <<20>> \in TextValue
      /\ <<21>> \in TextValue /\ <<30>> \in TextValue /\ <<31>> \in TextValue
      /\ <<40>> \in TextValue /\ <<41>> \in TextValue /\ <<50>> \in TextValue
      /\ <<51>> \in TextValue /\ <<52>> \in TextValue /\ <<53>> \in TextValue
      /\ <<54>> \in TextValue /\ <<55>> \in TextValue
  BY <1>2, ShortText, Zenon
<1>4. EnumText[x] \in TextValue /\ EnumText[y] \in TextValue
  BY <1>3 DEF Enumerated, EnumText, ReasonKind
<1>5. Tells(Text(EnumText[x]), Text(EnumText[y]), EnumText[x], EnumText[y])
  BY <1>4, TellsText, Zenon
<1> QED BY <1>1, <1>5, Zenon DEF Tells

SourceEnumerated ==
  {"run", "build", "check", "lifecycle"} \cup Action \cup {"package", "profile"}

\* Nor two of the enumerators of libpkgsource that are written.
LEMMA TellsSourceEnum ==
  ASSUME NEW x \in SourceEnumerated, NEW y \in SourceEnumerated
  PROVE  Tells(Text(SourceText[x]), Text(SourceText[y]), x, y)
<1>1. SourceText[x] = SourceText[y] => x = y
  BY DEF SourceEnumerated, SourceText, Action
<1>2. /\ 60 \in Byte /\ 61 \in Byte /\ 62 \in Byte /\ 63 \in Byte
      /\ 70 \in Byte /\ 71 \in Byte /\ 72 \in Byte /\ 73 \in Byte
      /\ 80 \in Byte /\ 81 \in Byte
  BY DEF Byte
<1>3. /\ <<60>> \in TextValue /\ <<61>> \in TextValue /\ <<62>> \in TextValue
      /\ <<63>> \in TextValue /\ <<70>> \in TextValue /\ <<71>> \in TextValue
      /\ <<72>> \in TextValue /\ <<73>> \in TextValue /\ <<80>> \in TextValue
      /\ <<81>> \in TextValue
  BY <1>2, ShortText, Zenon
<1>4. SourceText[x] \in TextValue /\ SourceText[y] \in TextValue
  BY <1>3 DEF SourceEnumerated, SourceText, Action
<1>5. Tells(Text(SourceText[x]), Text(SourceText[y]), SourceText[x], SourceText[y])
  BY <1>4, TellsText, Zenon
<1> QED BY <1>1, <1>5, Zenon DEF Tells

\* The two kinds of profile member, written as numbers.
LEMMA TellsStateKind ==
  ASSUME NEW x \in {"package", "profile"}, NEW y \in {"package", "profile"}
  PROVE  Tells(Number(StateMemberKind[x]), Number(StateMemberKind[y]), x, y)
<1>1. StateMemberKind[x] = StateMemberKind[y] => x = y
  BY DEF StateMemberKind
<1>2. StateMemberKind[x] \in NumberValue /\ StateMemberKind[y] \in NumberValue
  BY DEF StateMemberKind, NumberValue, Uint64
<1>3. Tells(Number(StateMemberKind[x]), Number(StateMemberKind[y]),
            StateMemberKind[x], StateMemberKind[y])
  BY <1>2, TellsNumber, Zenon
<1> QED BY <1>1, <1>3, Zenon DEF Tells

-----------------------------------------------------------------------------
(***************************************************************************)
(* The parts of the streams, from the inside out.                          *)
(***************************************************************************)

\* Where something was declared.
LEMMA TellsProvenance ==
  ASSUME NEW v \in ProvenanceValue, NEW w \in ProvenanceValue
  PROVE  Tells(WriteProvenance(v), WriteProvenance(w), v, w)
<1>1. /\ Tells(Text(v.document), Text(w.document), v.document, w.document)
      /\ Tells(Text(v.path), Text(w.path), v.path, w.path)
      /\ Tells(Number(v.line), Number(w.line), v.line, w.line)
      /\ Tells(Number(v.column), Number(w.column), v.column, w.column)
  BY TellsText, TellsNumber DEF ProvenanceValue
<1> DEFINE Fields(x) ==
             <<<<<<x.document, x.path>>, x.line>>, x.column>>
<1>2. Tells(WriteProvenance(v), WriteProvenance(w), Fields(v), Fields(w))
  BY <1>1, TellsPair, SMTT(30) DEF WriteProvenance
<1>3. Fields(v) = Fields(w) => v = w
  BY DEF ProvenanceValue
<1> HIDE DEF Fields
<1> QED BY <1>2, <1>3, Zenon DEF Tells

\* The action of a scope, if it has one.
LEMMA TellsAction ==
  ASSUME NEW v \in Option(Action), NEW w \in Option(Action)
  PROVE  Tells(WriteAction(v), WriteAction(w), v, w)
<1> DEFINE s == [i \in 1..Len(v) |-> Text(SourceText[v[i]])]
           t == [i \in 1..Len(w) |-> Text(SourceText[w[i]])]
<1>1. \A x, y \in Action : Tells(Text(SourceText[x]), Text(SourceText[y]), x, y)
  BY TellsSourceEnum DEF SourceEnumerated
<1>2. /\ \A i \in 1..Len(v) : v[i] \in Action
      /\ \A i \in 1..Len(w) : w[i] \in Action
  BY DEF Option
<1>3. /\ s \in [1..Len(v) -> Seq(Byte)] /\ t \in [1..Len(w) -> Seq(Byte)]
      /\ \A i \in 1..Len(v), j \in 1..Len(w) : Tells(s[i], t[j], v[i], w[j])
  BY <1>1, <1>2, Zenon DEF Tells
<1> HIDE DEF s, t
<1>4. Tells(Boolean(v # <<>>) \o FlattenSeq(s), Boolean(w # <<>>) \o FlattenSeq(t), v, w)
  BY <1>3, TellsOptional, Zenon
<1> QED BY <1>4 DEF WriteAction, Optional, Each, s, t

\* A scope.
LEMMA TellsScope ==
  ASSUME NEW v \in ScopeValue, NEW w \in ScopeValue
  PROVE  Tells(WriteScope(v), WriteScope(w), v, w)
<1>1. /\ Tells(Text(SourceText[v.kind]), Text(SourceText[w.kind]), v.kind, w.kind)
      /\ Tells(WriteAction(v.action), WriteAction(w.action), v.action, w.action)
  BY TellsAction, TellsSourceEnum DEF ScopeValue, SourceEnumerated
<1> DEFINE Fields(x) ==
             <<x.kind, x.action>>
<1>2. Tells(WriteScope(v), WriteScope(w), Fields(v), Fields(w))
  BY <1>1, TellsPair, SMTT(30) DEF WriteScope
<1>3. Fields(v) = Fields(w) => v = w
  BY DEF ScopeValue
<1> HIDE DEF Fields
<1> QED BY <1>2, <1>3, Zenon DEF Tells

\* A step of a profile, in a catalog.
LEMMA TellsSourceStep ==
  ASSUME NEW v \in StepValue, NEW w \in StepValue
  PROVE  Tells(WriteSourceStep(v), WriteSourceStep(w), v, w)
<1>1. /\ Tells(Text(v.profile), Text(w.profile), v.profile, w.profile)
      /\ Tells(Text(SourceText[v.kind]), Text(SourceText[w.kind]), v.kind, w.kind)
      /\ Tells(Text(v.member), Text(w.member), v.member, w.member)
      /\ Tells(WriteProvenance(v.provenance), WriteProvenance(w.provenance),
               v.provenance, w.provenance)
  BY TellsText, TellsSourceEnum, TellsProvenance DEF StepValue, SourceEnumerated
<1> DEFINE Fields(x) ==
             <<<<<<x.profile, x.kind>>, x.member>>, x.provenance>>
<1>2. Tells(WriteSourceStep(v), WriteSourceStep(w), Fields(v), Fields(w))
  BY <1>1, TellsPair, SMTT(30) DEF WriteSourceStep
<1>3. Fields(v) = Fields(w) => v = w
  BY DEF StepValue
<1> HIDE DEF Fields
<1> QED BY <1>2, <1>3, Zenon DEF Tells

\* A step of a profile, in installed state.
LEMMA TellsStateStep ==
  ASSUME NEW v \in StepValue, NEW w \in StepValue
  PROVE  Tells(WriteStateStep(v), WriteStateStep(w), v, w)
<1>1. /\ Tells(Text(v.profile), Text(w.profile), v.profile, w.profile)
      /\ Tells(Number(StateMemberKind[v.kind]), Number(StateMemberKind[w.kind]), v.kind,
               w.kind)
      /\ Tells(Text(v.member), Text(w.member), v.member, w.member)
      /\ Tells(WriteProvenance(v.provenance), WriteProvenance(w.provenance),
               v.provenance, w.provenance)
  BY TellsText, TellsStateKind, TellsProvenance DEF StepValue
<1> DEFINE Fields(x) ==
             <<<<<<x.profile, x.kind>>, x.member>>, x.provenance>>
<1>2. Tells(WriteStateStep(v), WriteStateStep(w), Fields(v), Fields(w))
  BY <1>1, TellsPair, SMTT(30) DEF WriteStateStep
<1>3. Fields(v) = Fields(w) => v = w
  BY DEF StepValue
<1> HIDE DEF Fields
<1> QED BY <1>2, <1>3, Zenon DEF Tells

\* The steps of an expansion.
LEMMA TellsSourceSteps ==
  ASSUME NEW v \in List(StepValue), NEW w \in List(StepValue)
  PROVE  Tells(WriteSourceSteps(v), WriteSourceSteps(w), v, w)
<1> DEFINE s == [i \in 1..Len(v) |-> WriteSourceStep(v[i])]
           t == [i \in 1..Len(w) |-> WriteSourceStep(w[i])]
<1>1. \A x, y \in StepValue : Tells(WriteSourceStep(x), WriteSourceStep(y), x, y)
  BY TellsSourceStep
<1>2. /\ \A i \in 1..Len(v) : v[i] \in StepValue
      /\ \A i \in 1..Len(w) : w[i] \in StepValue
  BY DEF List
<1>3. /\ s \in [1..Len(v) -> Seq(Byte)] /\ t \in [1..Len(w) -> Seq(Byte)]
      /\ \A i \in 1..Len(v), j \in 1..Len(w) : Tells(s[i], t[j], v[i], w[j])
  BY <1>1, <1>2, Zenon DEF Tells
<1> HIDE DEF s, t
<1>4. Tells(Number(Len(v)) \o FlattenSeq(s), Number(Len(w)) \o FlattenSeq(t), v, w)
  BY <1>3, TellsCounted, Zenon
<1> QED BY <1>4 DEF WriteSourceSteps, Counted, Each, s, t

\* An origin: a declaration and its expansion.
LEMMA TellsSourceOrigin ==
  ASSUME NEW v \in OriginValue, NEW w \in OriginValue
  PROVE  Tells(WriteSourceOrigin(v), WriteSourceOrigin(w), v, w)
<1>1. /\ Tells(WriteProvenance(v.declaration), WriteProvenance(w.declaration),
               v.declaration, w.declaration)
      /\ Tells(WriteSourceSteps(v.expansion), WriteSourceSteps(w.expansion), v.expansion,
               w.expansion)
  BY TellsProvenance, TellsSourceSteps DEF OriginValue
<1> DEFINE Fields(x) ==
             <<x.declaration, x.expansion>>
<1>2. Tells(WriteSourceOrigin(v), WriteSourceOrigin(w), Fields(v), Fields(w))
  BY <1>1, TellsPair, SMTT(30) DEF WriteSourceOrigin
<1>3. Fields(v) = Fields(w) => v = w
  BY DEF OriginValue
<1> HIDE DEF Fields
<1> QED BY <1>2, <1>3, Zenon DEF Tells

\* The origins of a requirement.
LEMMA TellsSourceOrigins ==
  ASSUME NEW v \in List(OriginValue), NEW w \in List(OriginValue)
  PROVE  Tells(WriteSourceOrigins(v), WriteSourceOrigins(w), v, w)
<1> DEFINE s == [i \in 1..Len(v) |-> WriteSourceOrigin(v[i])]
           t == [i \in 1..Len(w) |-> WriteSourceOrigin(w[i])]
<1>1. \A x, y \in OriginValue : Tells(WriteSourceOrigin(x), WriteSourceOrigin(y), x, y)
  BY TellsSourceOrigin
<1>2. /\ \A i \in 1..Len(v) : v[i] \in OriginValue
      /\ \A i \in 1..Len(w) : w[i] \in OriginValue
  BY DEF List
<1>3. /\ s \in [1..Len(v) -> Seq(Byte)] /\ t \in [1..Len(w) -> Seq(Byte)]
      /\ \A i \in 1..Len(v), j \in 1..Len(w) : Tells(s[i], t[j], v[i], w[j])
  BY <1>1, <1>2, Zenon DEF Tells
<1> HIDE DEF s, t
<1>4. Tells(Number(Len(v)) \o FlattenSeq(s), Number(Len(w)) \o FlattenSeq(t), v, w)
  BY <1>3, TellsCounted, Zenon
<1> QED BY <1>4 DEF WriteSourceOrigins, Counted, Each, s, t

\* The steps of an expansion.
LEMMA TellsStateSteps ==
  ASSUME NEW v \in List(StepValue), NEW w \in List(StepValue)
  PROVE  Tells(WriteStateSteps(v), WriteStateSteps(w), v, w)
<1> DEFINE s == [i \in 1..Len(v) |-> WriteStateStep(v[i])]
           t == [i \in 1..Len(w) |-> WriteStateStep(w[i])]
<1>1. \A x, y \in StepValue : Tells(WriteStateStep(x), WriteStateStep(y), x, y)
  BY TellsStateStep
<1>2. /\ \A i \in 1..Len(v) : v[i] \in StepValue
      /\ \A i \in 1..Len(w) : w[i] \in StepValue
  BY DEF List
<1>3. /\ s \in [1..Len(v) -> Seq(Byte)] /\ t \in [1..Len(w) -> Seq(Byte)]
      /\ \A i \in 1..Len(v), j \in 1..Len(w) : Tells(s[i], t[j], v[i], w[j])
  BY <1>1, <1>2, Zenon DEF Tells
<1> HIDE DEF s, t
<1>4. Tells(Number(Len(v)) \o FlattenSeq(s), Number(Len(w)) \o FlattenSeq(t), v, w)
  BY <1>3, TellsCounted, Zenon
<1> QED BY <1>4 DEF WriteStateSteps, Counted, Each, s, t

\* An origin: a declaration and its expansion.
LEMMA TellsStateOrigin ==
  ASSUME NEW v \in OriginValue, NEW w \in OriginValue
  PROVE  Tells(WriteStateOrigin(v), WriteStateOrigin(w), v, w)
<1>1. /\ Tells(WriteProvenance(v.declaration), WriteProvenance(w.declaration),
               v.declaration, w.declaration)
      /\ Tells(WriteStateSteps(v.expansion), WriteStateSteps(w.expansion), v.expansion,
               w.expansion)
  BY TellsProvenance, TellsStateSteps DEF OriginValue
<1> DEFINE Fields(x) ==
             <<x.declaration, x.expansion>>
<1>2. Tells(WriteStateOrigin(v), WriteStateOrigin(w), Fields(v), Fields(w))
  BY <1>1, TellsPair, SMTT(30) DEF WriteStateOrigin
<1>3. Fields(v) = Fields(w) => v = w
  BY DEF OriginValue
<1> HIDE DEF Fields
<1> QED BY <1>2, <1>3, Zenon DEF Tells

\* The origins of a requirement.
LEMMA TellsStateOrigins ==
  ASSUME NEW v \in List(OriginValue), NEW w \in List(OriginValue)
  PROVE  Tells(WriteStateOrigins(v), WriteStateOrigins(w), v, w)
<1> DEFINE s == [i \in 1..Len(v) |-> WriteStateOrigin(v[i])]
           t == [i \in 1..Len(w) |-> WriteStateOrigin(w[i])]
<1>1. \A x, y \in OriginValue : Tells(WriteStateOrigin(x), WriteStateOrigin(y), x, y)
  BY TellsStateOrigin
<1>2. /\ \A i \in 1..Len(v) : v[i] \in OriginValue
      /\ \A i \in 1..Len(w) : w[i] \in OriginValue
  BY DEF List
<1>3. /\ s \in [1..Len(v) -> Seq(Byte)] /\ t \in [1..Len(w) -> Seq(Byte)]
      /\ \A i \in 1..Len(v), j \in 1..Len(w) : Tells(s[i], t[j], v[i], w[j])
  BY <1>1, <1>2, Zenon DEF Tells
<1> HIDE DEF s, t
<1>4. Tells(Number(Len(v)) \o FlattenSeq(s), Number(Len(w)) \o FlattenSeq(t), v, w)
  BY <1>3, TellsCounted, Zenon
<1> QED BY <1>4 DEF WriteStateOrigins, Counted, Each, s, t

(***************************************************************************)
(* A witness: how its origins are written depends on its kind, which is    *)
(* written before them.                                                    *)
(***************************************************************************)
LEMMA TellsWitness ==
  ASSUME NEW v \in WitnessValue, NEW w \in WitnessValue
  PROVE  Tells(WriteWitness(v), WriteWitness(w), v, w)
<1> DEFINE Origins(x) == IF x.kind = "catalog_source" THEN WriteSourceOrigins(x.origins)
                                                      ELSE WriteStateOrigins(x.origins)
<1>1. /\ Tells(Text(EnumText[v.kind]), Text(EnumText[w.kind]), v.kind, w.kind)
      /\ Tells(Text(v.authority), Text(w.authority), v.authority, w.authority)
  BY TellsText, TellsEnum DEF WitnessValue, Enumerated
<1>2. Tells(Text(EnumText[v.kind]) \o Text(v.authority),
            Text(EnumText[w.kind]) \o Text(w.authority),
            <<v.kind, v.authority>>, <<w.kind, w.authority>>)
  BY <1>1, TellsPair, SMTT(30)
<1>3. v.origins \in List(OriginValue) /\ w.origins \in List(OriginValue)
  BY DEF WitnessValue
<1>4. /\ WriteSourceOrigins(v.origins) \in Seq(Byte)
      /\ WriteStateOrigins(v.origins) \in Seq(Byte)
      /\ WriteSourceOrigins(w.origins) \in Seq(Byte)
      /\ WriteStateOrigins(w.origins) \in Seq(Byte)
  BY <1>3, TellsSourceOrigins, TellsStateOrigins, Zenon DEF Tells
<1>5. Origins(v) \in Seq(Byte) /\ Origins(w) \in Seq(Byte)
  BY <1>4, Zenon
<1>6. ASSUME <<v.kind, v.authority>> = <<w.kind, w.authority>>
      PROVE  Tells(Origins(v), Origins(w), v.origins, w.origins)
  <2>1. v.kind = w.kind
    BY <1>6
  <2> QED BY <1>3, <2>1, TellsSourceOrigins, TellsStateOrigins, Zenon
<1> HIDE DEF Origins
<1>7. Tells(Text(EnumText[v.kind]) \o Text(v.authority) \o Origins(v),
            Text(EnumText[w.kind]) \o Text(w.authority) \o Origins(w),
            <<<<v.kind, v.authority>>, v.origins>>, <<<<w.kind, w.authority>>,
            w.origins>>)
  BY <1>2, <1>5, <1>6, TellsBehind, Zenon
<1>8. <<<<v.kind, v.authority>>, v.origins>> = <<<<w.kind, w.authority>>,
w.origins>> => v = w
  BY DEF WitnessValue
<1> QED BY <1>7, <1>8, Zenon DEF Tells, WriteWitness, Origins

\* A goal.
LEMMA TellsGoal ==
  ASSUME NEW v \in GoalValue, NEW w \in GoalValue
  PROVE  Tells(WriteGoal(v), WriteGoal(w), v, w)
<1>1. /\ Tells(WriteScope(v.scope), WriteScope(w.scope), v.scope, w.scope)
      /\ Tells(Text(SourceText[v.kind]), Text(SourceText[w.kind]), v.kind, w.kind)
      /\ Tells(Text(v.text), Text(w.text), v.text, w.text)
  BY TellsScope, TellsText, TellsSourceEnum DEF GoalValue, SourceEnumerated
<1> DEFINE Fields(x) ==
             <<<<x.scope, x.kind>>, x.text>>
<1>2. Tells(WriteGoal(v), WriteGoal(w), Fields(v), Fields(w))
  BY <1>1, TellsPair, SMTT(30) DEF WriteGoal
<1>3. Fields(v) = Fields(w) => v = w
  BY DEF GoalValue
<1> HIDE DEF Fields
<1> QED BY <1>2, <1>3, Zenon DEF Tells

\* The goals of a request.
LEMMA TellsGoals ==
  ASSUME NEW v \in List(GoalValue), NEW w \in List(GoalValue)
  PROVE  Tells(WriteGoals(v), WriteGoals(w), v, w)
<1> DEFINE s == [i \in 1..Len(v) |-> WriteGoal(v[i])]
           t == [i \in 1..Len(w) |-> WriteGoal(w[i])]
<1>1. \A x, y \in GoalValue : Tells(WriteGoal(x), WriteGoal(y), x, y)
  BY TellsGoal
<1>2. /\ \A i \in 1..Len(v) : v[i] \in GoalValue
      /\ \A i \in 1..Len(w) : w[i] \in GoalValue
  BY DEF List
<1>3. /\ s \in [1..Len(v) -> Seq(Byte)] /\ t \in [1..Len(w) -> Seq(Byte)]
      /\ \A i \in 1..Len(v), j \in 1..Len(w) : Tells(s[i], t[j], v[i], w[j])
  BY <1>1, <1>2, Zenon DEF Tells
<1> HIDE DEF s, t
<1>4. Tells(Number(Len(v)) \o FlattenSeq(s), Number(Len(w)) \o FlattenSeq(t), v, w)
  BY <1>3, TellsCounted, Zenon
<1> QED BY <1>4 DEF WriteGoals, Counted, Each, s, t

\* A list of texts.
LEMMA TellsTexts ==
  ASSUME NEW v \in List(TextValue), NEW w \in List(TextValue)
  PROVE  Tells(WriteTexts(v), WriteTexts(w), v, w)
<1> DEFINE s == [i \in 1..Len(v) |-> Text(v[i])]
           t == [i \in 1..Len(w) |-> Text(w[i])]
<1>1. \A x, y \in TextValue : Tells(Text(x), Text(y), x, y)
  BY TellsText
<1>2. /\ \A i \in 1..Len(v) : v[i] \in TextValue
      /\ \A i \in 1..Len(w) : w[i] \in TextValue
  BY DEF List
<1>3. /\ s \in [1..Len(v) -> Seq(Byte)] /\ t \in [1..Len(w) -> Seq(Byte)]
      /\ \A i \in 1..Len(v), j \in 1..Len(w) : Tells(s[i], t[j], v[i], w[j])
  BY <1>1, <1>2, Zenon DEF Tells
<1> HIDE DEF s, t
<1>4. Tells(Number(Len(v)) \o FlattenSeq(s), Number(Len(w)) \o FlattenSeq(t), v, w)
  BY <1>3, TellsCounted, Zenon
<1> QED BY <1>4 DEF WriteTexts, Counted, Each, s, t

\* An optional text.
LEMMA TellsOptionalText ==
  ASSUME NEW v \in Option(TextValue), NEW w \in Option(TextValue)
  PROVE  Tells(WriteOptionalText(v), WriteOptionalText(w), v, w)
<1> DEFINE s == [i \in 1..Len(v) |-> Text(v[i])]
           t == [i \in 1..Len(w) |-> Text(w[i])]
<1>1. \A x, y \in TextValue : Tells(Text(x), Text(y), x, y)
  BY TellsText
<1>2. /\ \A i \in 1..Len(v) : v[i] \in TextValue
      /\ \A i \in 1..Len(w) : w[i] \in TextValue
  BY DEF Option
<1>3. /\ s \in [1..Len(v) -> Seq(Byte)] /\ t \in [1..Len(w) -> Seq(Byte)]
      /\ \A i \in 1..Len(v), j \in 1..Len(w) : Tells(s[i], t[j], v[i], w[j])
  BY <1>1, <1>2, Zenon DEF Tells
<1> HIDE DEF s, t
<1>4. Tells(Boolean(v # <<>>) \o FlattenSeq(s), Boolean(w # <<>>) \o FlattenSeq(t), v, w)
  BY <1>3, TellsOptional, Zenon
<1> QED BY <1>4 DEF WriteOptionalText, Optional, Each, s, t

\* A member of a goal.
LEMMA TellsMember ==
  ASSUME NEW v \in MemberValue, NEW w \in MemberValue
  PROVE  Tells(WriteMember(v), WriteMember(w), v, w)
<1>1. /\ Tells(Text(v.package), Text(w.package), v.package, w.package)
      /\ Tells(Text(v.selection), Text(w.selection), v.selection, w.selection)
      /\ Tells(WriteOptionalText(v.profile), WriteOptionalText(w.profile), v.profile,
               w.profile)
      /\ Tells(WriteSourceSteps(v.expansion), WriteSourceSteps(w.expansion), v.expansion,
               w.expansion)
  BY TellsText, TellsOptionalText, TellsSourceSteps DEF MemberValue
<1> DEFINE Fields(x) ==
             <<<<<<x.package, x.selection>>, x.profile>>, x.expansion>>
<1>2. Tells(WriteMember(v), WriteMember(w), Fields(v), Fields(w))
  BY <1>1, TellsPair, SMTT(30) DEF WriteMember
<1>3. Fields(v) = Fields(w) => v = w
  BY DEF MemberValue
<1> HIDE DEF Fields
<1> QED BY <1>2, <1>3, Zenon DEF Tells

\* The members of a goal.
LEMMA TellsMembers ==
  ASSUME NEW v \in List(MemberValue), NEW w \in List(MemberValue)
  PROVE  Tells(WriteMembers(v), WriteMembers(w), v, w)
<1> DEFINE s == [i \in 1..Len(v) |-> WriteMember(v[i])]
           t == [i \in 1..Len(w) |-> WriteMember(w[i])]
<1>1. \A x, y \in MemberValue : Tells(WriteMember(x), WriteMember(y), x, y)
  BY TellsMember
<1>2. /\ \A i \in 1..Len(v) : v[i] \in MemberValue
      /\ \A i \in 1..Len(w) : w[i] \in MemberValue
  BY DEF List
<1>3. /\ s \in [1..Len(v) -> Seq(Byte)] /\ t \in [1..Len(w) -> Seq(Byte)]
      /\ \A i \in 1..Len(v), j \in 1..Len(w) : Tells(s[i], t[j], v[i], w[j])
  BY <1>1, <1>2, Zenon DEF Tells
<1> HIDE DEF s, t
<1>4. Tells(Number(Len(v)) \o FlattenSeq(s), Number(Len(w)) \o FlattenSeq(t), v, w)
  BY <1>3, TellsCounted, Zenon
<1> QED BY <1>4 DEF WriteMembers, Counted, Each, s, t

\* A reason.
LEMMA TellsReason ==
  ASSUME NEW v \in ReasonValue, NEW w \in ReasonValue
  PROVE  Tells(WriteReason(v), WriteReason(w), v, w)
<1>1. /\ Tells(Text(v.selection), Text(w.selection), v.selection, w.selection)
      /\ Tells(Text(EnumText[v.kind]), Text(EnumText[w.kind]), v.kind, w.kind)
      /\ Tells(WriteScope(v.scope), WriteScope(w.scope), v.scope, w.scope)
      /\ Tells(WriteOptionalText(v.issuer), WriteOptionalText(w.issuer), v.issuer,
               w.issuer)
      /\ Tells(WriteOptionalText(v.profile), WriteOptionalText(w.profile), v.profile,
               w.profile)
      /\ Tells(WriteOptionalText(v.profile_identity),
               WriteOptionalText(w.profile_identity), v.profile_identity,
               w.profile_identity)
  BY TellsText, TellsEnum, TellsScope, TellsOptionalText DEF ReasonValue, Enumerated
<1> DEFINE Fields(x) ==
             <<<<<<<<<<x.selection, x.kind>>, x.scope>>, x.issuer>>, x.profile>>,
             x.profile_identity>>
<1>2. Tells(WriteReason(v), WriteReason(w), Fields(v), Fields(w))
  BY <1>1, TellsPair, SMTT(30) DEF WriteReason
<1>3. Fields(v) = Fields(w) => v = w
  BY DEF ReasonValue
<1> HIDE DEF Fields
<1> QED BY <1>2, <1>3, Zenon DEF Tells

\* The reasons of a result.
LEMMA TellsReasons ==
  ASSUME NEW v \in List(ReasonValue), NEW w \in List(ReasonValue)
  PROVE  Tells(WriteReasons(v), WriteReasons(w), v, w)
<1> DEFINE s == [i \in 1..Len(v) |-> WriteReason(v[i])]
           t == [i \in 1..Len(w) |-> WriteReason(w[i])]
<1>1. \A x, y \in ReasonValue : Tells(WriteReason(x), WriteReason(y), x, y)
  BY TellsReason
<1>2. /\ \A i \in 1..Len(v) : v[i] \in ReasonValue
      /\ \A i \in 1..Len(w) : w[i] \in ReasonValue
  BY DEF List
<1>3. /\ s \in [1..Len(v) -> Seq(Byte)] /\ t \in [1..Len(w) -> Seq(Byte)]
      /\ \A i \in 1..Len(v), j \in 1..Len(w) : Tells(s[i], t[j], v[i], w[j])
  BY <1>1, <1>2, Zenon DEF Tells
<1> HIDE DEF s, t
<1>4. Tells(Number(Len(v)) \o FlattenSeq(s), Number(Len(w)) \o FlattenSeq(t), v, w)
  BY <1>3, TellsCounted, Zenon
<1> QED BY <1>4 DEF WriteReasons, Counted, Each, s, t

-----------------------------------------------------------------------------
(***************************************************************************)
(* The streams.  Each opens with its domain, a text like any other: values *)
(* of two domains never share a stream, and two values of one domain only  *)
(* if all their fields agree.                                              *)
(***************************************************************************)
Domains == {"request", "selection", "edge", "closure", "result"}

\* The domains are different texts.
LEMMA TellsDomain ==
  ASSUME NEW x \in Domains, NEW y \in Domains
  PROVE  Tells(Text(DomainText[x]), Text(DomainText[y]), x, y)
<1>1. DomainText[x] = DomainText[y] => x = y
  BY DEF Domains, DomainText
<1>2. 1 \in Byte /\ 2 \in Byte /\ 3 \in Byte /\ 4 \in Byte /\ 5 \in Byte
  BY DEF Byte
<1>3. /\ <<1>> \in TextValue /\ <<2>> \in TextValue /\ <<3>> \in TextValue
      /\ <<4>> \in TextValue /\ <<5>> \in TextValue
  BY <1>2, ShortText, Zenon
<1>4. DomainText[x] \in TextValue /\ DomainText[y] \in TextValue
  BY <1>3 DEF Domains, DomainText
<1>5. Tells(Text(DomainText[x]), Text(DomainText[y]), DomainText[x], DomainText[y])
  BY <1>4, TellsText, Zenon
<1> QED BY <1>1, <1>5, Zenon DEF Tells

\* p is the text of domain d and something behind it.
Opens(p, d) == \E u \in Seq(Byte) : p = Text(DomainText[d]) \o u

\* A domain opens itself.
LEMMA OpensItself ==
  ASSUME NEW d \in Domains
  PROVE  Opens(Text(DomainText[d]), d)
<1>1. Text(DomainText[d]) \in Seq(Byte)
  BY TellsDomain, Zenon DEF Tells
<1>2. Text(DomainText[d]) = Text(DomainText[d]) \o <<>> /\ <<>> \in Seq(Byte)
  BY <1>1, ConcatEmptySeq
<1> QED BY <1>2, Zenon DEF Opens

\* What is written behind changes nothing about that.
LEMMA OpensMore ==
  ASSUME NEW p, NEW d \in Domains, NEW a \in Seq(Byte), Opens(p, d)
  PROVE  Opens(p \o a, d)
<1>1. PICK u \in Seq(Byte) : p = Text(DomainText[d]) \o u
  BY Zenon DEF Opens
<1>2. Text(DomainText[d]) \in Seq(Byte)
  BY TellsDomain, Zenon DEF Tells
<1>3. p \o a = Text(DomainText[d]) \o (u \o a)
  BY <1>1, <1>2, Reassociate, Zenon
<1>4. u \o a \in Seq(Byte)
  BY ConcatProperties
<1> QED BY <1>3, <1>4, Zenon DEF Opens

\* A stream has one domain.
LEMMA OneDomain ==
  ASSUME NEW c \in Domains, NEW d \in Domains, NEW p, Opens(p, c), Opens(p, d)
  PROVE  c = d
<1>1. PICK u \in Seq(Byte) : p = Text(DomainText[c]) \o u
  BY Zenon DEF Opens
<1>2. PICK v \in Seq(Byte) : p = Text(DomainText[d]) \o v
  BY Zenon DEF Opens
<1>3. Tells(Text(DomainText[c]), Text(DomainText[d]), c, d)
  BY TellsDomain, Zenon
<1> QED BY <1>1, <1>2, <1>3, Zenon DEF Tells, Delimits

\* The stream of a request.
LEMMA TellsRequest ==
  ASSUME NEW v \in RequestValue, NEW w \in RequestValue
  PROVE  Tells(RequestStream(v), RequestStream(w), v, w)
<1>1. /\ Tells(Text(DomainText.request), Text(DomainText.request), v.domain, w.domain)
      /\ Tells(Text(v.catalog), Text(w.catalog), v.catalog, w.catalog)
      /\ Tells(Text(v.installed), Text(w.installed), v.installed, w.installed)
      /\ Tells(Text(v.build), Text(w.build), v.build, w.build)
      /\ Tells(Text(v.target), Text(w.target), v.target, w.target)
      /\ Tells(Text(EnumText[v.preference]), Text(EnumText[w.preference]), v.preference,
               w.preference)
      /\ Tells(WriteGoals(v.goals), WriteGoals(w.goals), v.goals, w.goals)
  BY TellsDomain, TellsText, TellsEnum, TellsGoals DEF RequestValue, Domains, Enumerated
<1> DEFINE Fields(x) ==
             <<<<<<<<<<<<x.domain, x.catalog>>, x.installed>>, x.build>>, x.target>>,
             x.preference>>, x.goals>>
<1>2. Tells(RequestStream(v), RequestStream(w), Fields(v), Fields(w))
  BY <1>1, TellsPair, SMTT(30) DEF RequestStream
<1>3. Fields(v) = Fields(w) => v = w
  BY DEF RequestValue
<1> HIDE DEF Fields
<1> QED BY <1>2, <1>3, Zenon DEF Tells

\* It opens with its domain.
LEMMA RequestOpens ==
  ASSUME NEW v \in RequestValue
  PROVE  Opens(RequestStream(v), "request")
<1>1. /\ Text(v.catalog) \in Seq(Byte)
      /\ Text(v.installed) \in Seq(Byte)
      /\ Text(v.build) \in Seq(Byte)
      /\ Text(v.target) \in Seq(Byte)
      /\ Text(EnumText[v.preference]) \in Seq(Byte)
      /\ WriteGoals(v.goals) \in Seq(Byte)
  <2>1. /\ Tells(Text(v.catalog), Text(v.catalog), v.catalog, v.catalog)
        /\ Tells(Text(v.installed), Text(v.installed), v.installed, v.installed)
        /\ Tells(Text(v.build), Text(v.build), v.build, v.build)
        /\ Tells(Text(v.target), Text(v.target), v.target, v.target)
        /\ Tells(Text(EnumText[v.preference]), Text(EnumText[v.preference]),
                 v.preference, v.preference)
        /\ Tells(WriteGoals(v.goals), WriteGoals(v.goals), v.goals, v.goals)
    BY TellsText, TellsEnum, TellsGoals DEF RequestValue, Enumerated
  <2> QED BY <2>1, Zenon DEF Tells
<1>2. "request" \in Domains
  BY DEF Domains
<1>3. Opens(Text(DomainText.request), "request")
  BY <1>2, OpensItself
<1>4. Opens(Text(DomainText.request) \o Text(v.catalog) \o Text(v.installed)
              \o Text(v.build) \o Text(v.target), "request")
  BY <1>1, <1>2, <1>3, OpensMore, SMTT(30)
<1> QED BY <1>1, <1>2, <1>4, OpensMore, SMTT(30) DEF RequestStream

\* The stream of a selection.
LEMMA TellsSelection ==
  ASSUME NEW v \in SelectionValue, NEW w \in SelectionValue
  PROVE  Tells(SelectionStream(v), SelectionStream(w), v, w)
<1>1. /\ Tells(Text(DomainText.selection), Text(DomainText.selection), v.domain, w.domain)
      /\ Tells(Text(v.request), Text(w.request), v.request, w.request)
      /\ Tells(Text(EnumText[v.environment]), Text(EnumText[w.environment]),
               v.environment, w.environment)
      /\ Tells(Text(EnumText[v.kind]), Text(EnumText[w.kind]), v.kind, w.kind)
      /\ Tells(Text(v.release), Text(w.release), v.release, w.release)
      /\ Tells(Text(v.source), Text(w.source), v.source, w.source)
      /\ Tells(Text(v.build), Text(w.build), v.build, w.build)
      /\ Tells(Text(v.target), Text(w.target), v.target, w.target)
      /\ Tells(Text(v.authority), Text(w.authority), v.authority, w.authority)
  BY TellsDomain, TellsText, TellsEnum DEF SelectionValue, Domains, Enumerated
<1> DEFINE Fields(x) ==
             <<<<<<<<<<<<<<<<x.domain, x.request>>, x.environment>>, x.kind>>,
             x.release>>, x.source>>, x.build>>, x.target>>, x.authority>>
<1>2. Tells(SelectionStream(v), SelectionStream(w), Fields(v), Fields(w))
  BY <1>1, TellsPair, SMTT(30) DEF SelectionStream
<1>3. Fields(v) = Fields(w) => v = w
  BY DEF SelectionValue
<1> HIDE DEF Fields
<1> QED BY <1>2, <1>3, Zenon DEF Tells

\* It opens with its domain.
LEMMA SelectionOpens ==
  ASSUME NEW v \in SelectionValue
  PROVE  Opens(SelectionStream(v), "selection")
<1>1. /\ Text(v.request) \in Seq(Byte)
      /\ Text(EnumText[v.environment]) \in Seq(Byte)
      /\ Text(EnumText[v.kind]) \in Seq(Byte)
      /\ Text(v.release) \in Seq(Byte)
      /\ Text(v.source) \in Seq(Byte)
      /\ Text(v.build) \in Seq(Byte)
      /\ Text(v.target) \in Seq(Byte)
      /\ Text(v.authority) \in Seq(Byte)
  <2>1. /\ Tells(Text(v.request), Text(v.request), v.request, v.request)
        /\ Tells(Text(EnumText[v.environment]), Text(EnumText[v.environment]),
                 v.environment, v.environment)
        /\ Tells(Text(EnumText[v.kind]), Text(EnumText[v.kind]), v.kind, v.kind)
        /\ Tells(Text(v.release), Text(v.release), v.release, v.release)
        /\ Tells(Text(v.source), Text(v.source), v.source, v.source)
        /\ Tells(Text(v.build), Text(v.build), v.build, v.build)
        /\ Tells(Text(v.target), Text(v.target), v.target, v.target)
        /\ Tells(Text(v.authority), Text(v.authority), v.authority, v.authority)
    BY TellsText, TellsEnum DEF SelectionValue, Enumerated
  <2> QED BY <2>1, Zenon DEF Tells
<1>2. "selection" \in Domains
  BY DEF Domains
<1>3. Opens(Text(DomainText.selection), "selection")
  BY <1>2, OpensItself
<1>4. Opens(Text(DomainText.selection) \o Text(v.request) \o Text(EnumText[v.environment])
              \o Text(EnumText[v.kind]) \o Text(v.release), "selection")
  BY <1>1, <1>2, <1>3, OpensMore, SMTT(30)
<1> QED BY <1>1, <1>2, <1>4, OpensMore, SMTT(30) DEF SelectionStream

\* The stream of a requirement edge.
LEMMA TellsEdge ==
  ASSUME NEW v \in EdgeValue, NEW w \in EdgeValue
  PROVE  Tells(EdgeStream(v), EdgeStream(w), v, w)
<1>1. /\ Tells(Text(DomainText.edge), Text(DomainText.edge), v.domain, w.domain)
      /\ Tells(Text(v.request), Text(w.request), v.request, w.request)
      /\ Tells(Text(v.issuer), Text(w.issuer), v.issuer, w.issuer)
      /\ Tells(Text(v.required), Text(w.required), v.required, w.required)
      /\ Tells(WriteScope(v.scope), WriteScope(w.scope), v.scope, w.scope)
      /\ Tells(Text(EnumText[v.environment]), Text(EnumText[w.environment]),
               v.environment, w.environment)
      /\ Tells(WriteWitness(v.witness), WriteWitness(w.witness), v.witness, w.witness)
  BY TellsDomain, TellsText, TellsEnum, TellsScope, TellsWitness DEF EdgeValue, Domains,
     Enumerated
<1> DEFINE Fields(x) ==
             <<<<<<<<<<<<x.domain, x.request>>, x.issuer>>, x.required>>, x.scope>>,
             x.environment>>, x.witness>>
<1>2. Tells(EdgeStream(v), EdgeStream(w), Fields(v), Fields(w))
  BY <1>1, TellsPair, SMTT(30) DEF EdgeStream
<1>3. Fields(v) = Fields(w) => v = w
  BY DEF EdgeValue
<1> HIDE DEF Fields
<1> QED BY <1>2, <1>3, Zenon DEF Tells

\* It opens with its domain.
LEMMA EdgeOpens ==
  ASSUME NEW v \in EdgeValue
  PROVE  Opens(EdgeStream(v), "edge")
<1>1. /\ Text(v.request) \in Seq(Byte)
      /\ Text(v.issuer) \in Seq(Byte)
      /\ Text(v.required) \in Seq(Byte)
      /\ WriteScope(v.scope) \in Seq(Byte)
      /\ Text(EnumText[v.environment]) \in Seq(Byte)
      /\ WriteWitness(v.witness) \in Seq(Byte)
  <2>1. /\ Tells(Text(v.request), Text(v.request), v.request, v.request)
        /\ Tells(Text(v.issuer), Text(v.issuer), v.issuer, v.issuer)
        /\ Tells(Text(v.required), Text(v.required), v.required, v.required)
        /\ Tells(WriteScope(v.scope), WriteScope(v.scope), v.scope, v.scope)
        /\ Tells(Text(EnumText[v.environment]), Text(EnumText[v.environment]),
                 v.environment, v.environment)
        /\ Tells(WriteWitness(v.witness), WriteWitness(v.witness), v.witness, v.witness)
    BY TellsText, TellsEnum, TellsScope, TellsWitness DEF EdgeValue, Enumerated
  <2> QED BY <2>1, Zenon DEF Tells
<1>2. "edge" \in Domains
  BY DEF Domains
<1>3. Opens(Text(DomainText.edge), "edge")
  BY <1>2, OpensItself
<1>4. Opens(Text(DomainText.edge) \o Text(v.request) \o Text(v.issuer)
              \o Text(v.required) \o WriteScope(v.scope), "edge")
  BY <1>1, <1>2, <1>3, OpensMore, SMTT(30)
<1> QED BY <1>1, <1>2, <1>4, OpensMore, SMTT(30) DEF EdgeStream

\* The stream of the closure of a goal.
LEMMA TellsClosure ==
  ASSUME NEW v \in ClosureValue, NEW w \in ClosureValue
  PROVE  Tells(ClosureStream(v), ClosureStream(w), v, w)
<1>1. /\ Tells(Text(DomainText.closure), Text(DomainText.closure), v.domain, w.domain)
      /\ Tells(Text(v.request), Text(w.request), v.request, w.request)
      /\ Tells(WriteGoal(v.goal), WriteGoal(w.goal), v.goal, w.goal)
      /\ Tells(WriteMembers(v.members), WriteMembers(w.members), v.members, w.members)
      /\ Tells(WriteTexts(v.selections), WriteTexts(w.selections), v.selections,
               w.selections)
      /\ Tells(WriteTexts(v.edges), WriteTexts(w.edges), v.edges, w.edges)
  BY TellsDomain, TellsText, TellsGoal, TellsMembers, TellsTexts DEF ClosureValue, Domains
<1> DEFINE Fields(x) ==
             <<<<<<<<<<x.domain, x.request>>, x.goal>>, x.members>>, x.selections>>,
             x.edges>>
<1>2. Tells(ClosureStream(v), ClosureStream(w), Fields(v), Fields(w))
  BY <1>1, TellsPair, SMTT(30) DEF ClosureStream
<1>3. Fields(v) = Fields(w) => v = w
  BY DEF ClosureValue
<1> HIDE DEF Fields
<1> QED BY <1>2, <1>3, Zenon DEF Tells

\* It opens with its domain.
LEMMA ClosureOpens ==
  ASSUME NEW v \in ClosureValue
  PROVE  Opens(ClosureStream(v), "closure")
<1>1. /\ Text(v.request) \in Seq(Byte)
      /\ WriteGoal(v.goal) \in Seq(Byte)
      /\ WriteMembers(v.members) \in Seq(Byte)
      /\ WriteTexts(v.selections) \in Seq(Byte)
      /\ WriteTexts(v.edges) \in Seq(Byte)
  <2>1. /\ Tells(Text(v.request), Text(v.request), v.request, v.request)
        /\ Tells(WriteGoal(v.goal), WriteGoal(v.goal), v.goal, v.goal)
        /\ Tells(WriteMembers(v.members), WriteMembers(v.members), v.members, v.members)
        /\ Tells(WriteTexts(v.selections), WriteTexts(v.selections), v.selections,
                 v.selections)
        /\ Tells(WriteTexts(v.edges), WriteTexts(v.edges), v.edges, v.edges)
    BY TellsText, TellsGoal, TellsMembers, TellsTexts DEF ClosureValue
  <2> QED BY <2>1, Zenon DEF Tells
<1>2. "closure" \in Domains
  BY DEF Domains
<1>3. Opens(Text(DomainText.closure), "closure")
  BY <1>2, OpensItself
<1> QED BY <1>1, <1>2, <1>3, OpensMore, SMTT(30) DEF ClosureStream

\* The stream of a result.
LEMMA TellsResult ==
  ASSUME NEW v \in ResultValue, NEW w \in ResultValue
  PROVE  Tells(ResultStream(v), ResultStream(w), v, w)
<1>1. /\ Tells(Text(DomainText.result), Text(DomainText.result), v.domain, w.domain)
      /\ Tells(Text(v.request), Text(w.request), v.request, w.request)
      /\ Tells(WriteTexts(v.selections), WriteTexts(w.selections), v.selections,
               w.selections)
      /\ Tells(WriteTexts(v.edges), WriteTexts(w.edges), v.edges, w.edges)
      /\ Tells(WriteTexts(v.goals), WriteTexts(w.goals), v.goals, w.goals)
      /\ Tells(WriteReasons(v.reasons), WriteReasons(w.reasons), v.reasons, w.reasons)
  BY TellsDomain, TellsText, TellsTexts, TellsReasons DEF ResultValue, Domains
<1> DEFINE Fields(x) ==
             <<<<<<<<<<x.domain, x.request>>, x.selections>>, x.edges>>, x.goals>>,
             x.reasons>>
<1>2. Tells(ResultStream(v), ResultStream(w), Fields(v), Fields(w))
  BY <1>1, TellsPair, SMTT(30) DEF ResultStream
<1>3. Fields(v) = Fields(w) => v = w
  BY DEF ResultValue
<1> HIDE DEF Fields
<1> QED BY <1>2, <1>3, Zenon DEF Tells

\* It opens with its domain.
LEMMA ResultOpens ==
  ASSUME NEW v \in ResultValue
  PROVE  Opens(ResultStream(v), "result")
<1>1. /\ Text(v.request) \in Seq(Byte)
      /\ WriteTexts(v.selections) \in Seq(Byte)
      /\ WriteTexts(v.edges) \in Seq(Byte)
      /\ WriteTexts(v.goals) \in Seq(Byte)
      /\ WriteReasons(v.reasons) \in Seq(Byte)
  <2>1. /\ Tells(Text(v.request), Text(v.request), v.request, v.request)
        /\ Tells(WriteTexts(v.selections), WriteTexts(v.selections), v.selections,
                 v.selections)
        /\ Tells(WriteTexts(v.edges), WriteTexts(v.edges), v.edges, v.edges)
        /\ Tells(WriteTexts(v.goals), WriteTexts(v.goals), v.goals, v.goals)
        /\ Tells(WriteReasons(v.reasons), WriteReasons(v.reasons), v.reasons, v.reasons)
    BY TellsText, TellsTexts, TellsReasons DEF ResultValue
  <2> QED BY <2>1, Zenon DEF Tells
<1>2. "result" \in Domains
  BY DEF Domains
<1>3. Opens(Text(DomainText.result), "result")
  BY <1>2, OpensItself
<1> QED BY <1>1, <1>2, <1>3, OpensMore, SMTT(30) DEF ResultStream

-----------------------------------------------------------------------------
(***************************************************************************)
(* Two identifiable values with one stream are one value: the streams keep *)
(* apart the domains, texts of any length, absent options, lists of any    *)
(* length and the two kinds of witness.                                    *)
(***************************************************************************)
THEOREM StreamsSeparate ==
  ASSUME NEW v \in Identifiable, NEW w \in Identifiable, Stream(v) = Stream(w)
  PROVE  v = w
<1>1. \A x \in RequestValue : /\ x.domain = "request" /\ Stream(x) = RequestStream(x)
                              /\ Opens(Stream(x), x.domain)
  <2> SUFFICES ASSUME NEW x \in RequestValue
               PROVE  /\ x.domain = "request" /\ Stream(x) = RequestStream(x)
                      /\ Opens(Stream(x), x.domain)
    BY Zenon
  <2>1. x.domain = "request"
    BY DEF RequestValue
  <2>2. Stream(x) = RequestStream(x)
    BY <2>1 DEF Stream
  <2>3. Opens(RequestStream(x), "request")
    BY RequestOpens, Zenon
  <2> QED BY <2>1, <2>2, <2>3, Zenon
<1>2. \A x \in SelectionValue : /\ x.domain = "selection" /\ Stream(x) = SelectionStream(x)
                                /\ Opens(Stream(x), x.domain)
  <2> SUFFICES ASSUME NEW x \in SelectionValue
               PROVE  /\ x.domain = "selection" /\ Stream(x) = SelectionStream(x)
                      /\ Opens(Stream(x), x.domain)
    BY Zenon
  <2>1. x.domain = "selection"
    BY DEF SelectionValue
  <2>2. Stream(x) = SelectionStream(x)
    BY <2>1 DEF Stream
  <2>3. Opens(SelectionStream(x), "selection")
    BY SelectionOpens, Zenon
  <2> QED BY <2>1, <2>2, <2>3, Zenon
<1>3. \A x \in EdgeValue : /\ x.domain = "edge" /\ Stream(x) = EdgeStream(x)
                           /\ Opens(Stream(x), x.domain)
  <2> SUFFICES ASSUME NEW x \in EdgeValue
               PROVE  /\ x.domain = "edge" /\ Stream(x) = EdgeStream(x)
                      /\ Opens(Stream(x), x.domain)
    BY Zenon
  <2>1. x.domain = "edge"
    BY DEF EdgeValue
  <2>2. Stream(x) = EdgeStream(x)
    BY <2>1 DEF Stream
  <2>3. Opens(EdgeStream(x), "edge")
    BY EdgeOpens, Zenon
  <2> QED BY <2>1, <2>2, <2>3, Zenon
<1>4. \A x \in ClosureValue : /\ x.domain = "closure" /\ Stream(x) = ClosureStream(x)
                              /\ Opens(Stream(x), x.domain)
  <2> SUFFICES ASSUME NEW x \in ClosureValue
               PROVE  /\ x.domain = "closure" /\ Stream(x) = ClosureStream(x)
                      /\ Opens(Stream(x), x.domain)
    BY Zenon
  <2>1. x.domain = "closure"
    BY DEF ClosureValue
  <2>2. Stream(x) = ClosureStream(x)
    BY <2>1 DEF Stream
  <2>3. Opens(ClosureStream(x), "closure")
    BY ClosureOpens, Zenon
  <2> QED BY <2>1, <2>2, <2>3, Zenon
<1>5. \A x \in ResultValue : /\ x.domain = "result" /\ Stream(x) = ResultStream(x)
                             /\ Opens(Stream(x), x.domain)
  <2> SUFFICES ASSUME NEW x \in ResultValue
               PROVE  /\ x.domain = "result" /\ Stream(x) = ResultStream(x)
                      /\ Opens(Stream(x), x.domain)
    BY Zenon
  <2>1. x.domain = "result"
    BY DEF ResultValue
  <2>2. Stream(x) = ResultStream(x)
    BY <2>1 DEF Stream
  <2>3. Opens(ResultStream(x), "result")
    BY ResultOpens, Zenon
  <2> QED BY <2>1, <2>2, <2>3, Zenon
<1>6. v.domain \in Domains /\ w.domain \in Domains
  BY <1>1, <1>2, <1>3, <1>4, <1>5 DEF Identifiable, Domains
<1>7. Opens(Stream(v), v.domain) /\ Opens(Stream(w), w.domain)
  BY <1>1, <1>2, <1>3, <1>4, <1>5, Zenon DEF Identifiable
<1>8. v.domain = w.domain
  BY <1>6, <1>7, OneDomain, Zenon
<1>9. CASE v \in RequestValue
  <2>1. w \in RequestValue
    BY <1>1, <1>2, <1>3, <1>4, <1>5, <1>8, <1>9 DEF Identifiable
  <2> QED BY <1>1, <1>9, <2>1, TellsRequest, Zenon DEF Tells
<1>10. CASE v \in SelectionValue
  <2>1. w \in SelectionValue
    BY <1>1, <1>2, <1>3, <1>4, <1>5, <1>8, <1>10 DEF Identifiable
  <2> QED BY <1>2, <1>10, <2>1, TellsSelection, Zenon DEF Tells
<1>11. CASE v \in EdgeValue
  <2>1. w \in EdgeValue
    BY <1>1, <1>2, <1>3, <1>4, <1>5, <1>8, <1>11 DEF Identifiable
  <2> QED BY <1>3, <1>11, <2>1, TellsEdge, Zenon DEF Tells
<1>12. CASE v \in ClosureValue
  <2>1. w \in ClosureValue
    BY <1>1, <1>2, <1>3, <1>4, <1>5, <1>8, <1>12 DEF Identifiable
  <2> QED BY <1>4, <1>12, <2>1, TellsClosure, Zenon DEF Tells
<1>13. CASE v \in ResultValue
  <2>1. w \in ResultValue
    BY <1>1, <1>2, <1>3, <1>4, <1>5, <1>8, <1>13 DEF Identifiable
  <2> QED BY <1>5, <1>13, <2>1, TellsResult, Zenon DEF Tells
<1> QED BY <1>9, <1>10, <1>11, <1>12, <1>13, Zenon DEF Identifiable

(***************************************************************************)
(* Two package selections whose identities are taken of the same stream    *)
(* agree in every field: the request, the environment, the kind of         *)
(* authority, the release, the source, the architectures and the authority *)
(* itself.                                                                 *)
(***************************************************************************)
THEOREM SelectionsSeparate ==
  ASSUME NEW s \in SelectionValue, NEW t \in SelectionValue,
         SelectionStream(s) = SelectionStream(t)
  PROVE  s = t
  BY TellsSelection, Zenon DEF Tells
=============================================================================
