------------------------------- MODULE Preimages -------------------------------
(***************************************************************************)
(* Values are identified, two of any domain at a time.  SHA-256 is         *)
(* external and taken to separate streams, so an identity is its stream.   *)
(***************************************************************************)
EXTENDS Streams

CONSTANT Values \* the values to identify: records, tagged with their domain

ASSUME ValuesAssumption == Values \subseteq Identifiable

VARIABLE identified \* the values whose identities were taken

PreimagesInit == identified = {}

\* Bound: two values at a time, which is what a collision takes.
Identify ==
  /\ Cardinality(identified) < 2
  /\ \E v \in Values : identified' = identified \cup {v}

PreimagesSpec == PreimagesInit /\ [][Identify]_identified

(***************************************************************************)
(* Two values never share a stream, in whichever domains: names of other   *)
(* lengths, lists split elsewhere, absent options and the two kinds of     *)
(* witness cannot be mistaken for each other once hashed.                  *)
(***************************************************************************)
IdentitiesSeparate ==
  \A v, w \in identified : Stream(v) = Stream(w) => v = w
=============================================================================
