-------------------------------- MODULE Vectors --------------------------------
(***************************************************************************)
(* The idiom with which libpkgresolve canonicalises what it returns: sort  *)
(* a vector, then erase neighbours that are equal.  The order is given by  *)
(* a key, a tuple of numbers compared as std::tie compares; elements with  *)
(* one key are equal, so that an unstable sort has one outcome.            *)
(***************************************************************************)
EXTENDS Naturals, Sequences, FiniteSets

Before(s, t) ==
  \E i \in 1..Len(s) : i <= Len(t) /\ s[i] < t[i] /\ \A j \in 1..(i - 1) : s[j] = t[j]

\* Some elements of v, each behind as many of them as are ahead of it.
Arranged(v, ahead) ==
  [n \in 1..Cardinality(DOMAIN ahead) |->
     v[CHOOSE i \in DOMAIN ahead : Cardinality(ahead[i]) = n - 1]]

\* The elements of v at some places, in their order.
Kept(v, places) == Arranged(v, [i \in places |-> {j \in places : j < i}])

\* Ahead of an element: those before it, and of its equals the earlier ones.
Ordering(keys) ==
  [i \in DOMAIN keys |->
     {j \in DOMAIN keys : Before(keys[j], keys[i]) \/ (keys[j] = keys[i] /\ j < i)}]

Sorted(v, Key(_)) == Arranged(v, Ordering([i \in 1..Len(v) |-> Key(v[i])]))

\* Variant for the mutation runs: equal neighbours stay.
Repeating(v) == v

Unique(v) == Kept(v, {i \in 1..Len(v) : i = 1 \/ v[i] # v[i - 1]})

Elements(v) == {v[i] : i \in 1..Len(v)}

\* Every element is strictly before the next ones.
Ascends(v, Key(_)) ==
  \A i, j \in 1..Len(v) : i < j => Before(Key(v[i]), Key(v[j]))
=============================================================================
