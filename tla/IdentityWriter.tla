---------------------------- MODULE IdentityWriter ----------------------------
(***************************************************************************)
(* One identity_writer of src/identity_support.cpp, from its constructor   *)
(* to its destructor, with OpenSSL failing at any call.  SHA-256 itself is *)
(* external: EVP_DigestFinal_ex produces one of Digests.                   *)
(*                                                                         *)
(* A caller writes values, then calls finish(), perhaps twice; none writes *)
(* after finish(), which the class does not guard against.                 *)
(***************************************************************************)
EXTENDS Encoding, Integers, SequencesExt

CONSTANTS
  Texts,     \* the texts a caller may write
  Numbers,   \* the numbers a caller may write
  Digests,   \* what EVP_DigestFinal_ex may deliver
  MaxWrites  \* bound: the values written before finish()

ASSUME WriterAssumption ==
  /\ Texts \subseteq Seq(Byte)
  /\ \A s \in Texts : Uint64(Len(s))
  /\ \A v \in Numbers : Uint64(v)
  /\ Digests \subseteq {d \in Seq(Byte) : Len(d) = DigestSize}

VARIABLES
  object,    \* "absent", "constructing", "alive", "unwinding" or "gone"
  context,   \* context_: "null" or "live"
  live,      \* contexts allocated and not freed
  stream,    \* the bytes hashed so far
  owed,      \* the text whose length is hashed and whose bytes are not, if any
  written,   \* the encodings of the values hashed in full
  marks,     \* history: where each of these values begins, and what it was
  hex        \* what finish() returned, empty before

writer_vars == <<object, context, live, stream, owed, written, marks, hex>>
content     == <<stream, owed, written, marks, hex>>

\* A number stands for itself, and before the bytes of a text for their count.
Mark(start, v, s) == [start |-> start, number |-> v, text |-> s]

WriterInit ==
  /\ object = "absent" /\ context = "null" /\ live = 0
  /\ stream = <<>> /\ owed = <<>> /\ written = <<>> /\ marks = <<>> /\ hex = <<>>

-----------------------------------------------------------------------------
\* EVP_MD_CTX_new: a null context makes the constructor throw.
Allocate ==
  /\ object = "absent"
  /\ \/ object' = "constructing" /\ context' = "live" /\ live' = live + 1
     \/ object' = "gone" /\ UNCHANGED <<context, live>>
  /\ UNCHANGED content

\* EVP_DigestInit_ex.  A constructor that throws runs no destructor.
Initialize ==
  /\ object = "constructing"
  /\ \/ object' = "alive" /\ UNCHANGED <<context, live>>
     \/ object' = "gone" /\ context' = "null" /\ live' = live - 1
  /\ UNCHANGED content

Ready == object = "alive" /\ context = "live" /\ owed = <<>>

WriteNumber ==
  /\ Ready /\ Len(written) < MaxWrites
  /\ \E v \in Numbers :
       /\ stream' = stream \o Number(v)
       /\ written' = Append(written, Number(v))
       /\ marks' = Append(marks, Mark(Len(stream), v, <<>>))
  /\ UNCHANGED <<object, context, live, owed, hex>>

WriteBoolean ==
  /\ Ready /\ Len(written) < MaxWrites
  /\ \E b \in BOOLEAN :
       /\ stream' = stream \o Boolean(b)
       /\ written' = Append(written, Boolean(b))
       /\ marks' = Append(marks, Mark(Len(stream), IF b THEN 1 ELSE 0, <<>>))
  /\ UNCHANGED <<object, context, live, owed, hex>>

\* text() updates twice: its length, then its bytes.
WriteLength ==
  /\ Ready /\ Len(written) < MaxWrites
  /\ \E s \in Texts : stream' = stream \o Number(Len(s)) /\ owed' = <<s>>
  /\ UNCHANGED <<object, context, live, written, marks, hex>>

\* Variant for the mutation runs: a failing update goes unnoticed.
IgnoreFailedUpdate ==
  /\ object = "alive" /\ owed # <<>>
  /\ written' = Append(written, Text(owed[1]))
  /\ owed' = <<>>
  /\ UNCHANGED <<object, context, live, stream, marks, hex>>

WriteBytes ==
  /\ object = "alive" /\ owed # <<>>
  /\ stream' = stream \o owed[1]
  /\ written' = Append(written, Text(owed[1]))
  /\ marks' = Append(marks, Mark(Len(stream) - 8, Len(owed[1]), owed[1]))
  /\ owed' = <<>>
  /\ UNCHANGED <<object, context, live, hex>>

\* EVP_DigestUpdate fails in any of the writes: the exception leaves the writer.
FailUpdate ==
  /\ object = "alive" /\ context = "live"
  /\ object' = "unwinding"
  /\ UNCHANGED <<context, live, content>>

\* Variant for the mutation runs: the freed context is still pointed to.
FinishKeepingContext ==
  /\ Ready
  /\ \E d \in Digests : hex' = Hex(d)
  /\ live' = live - 1
  /\ UNCHANGED <<object, context, stream, owed, written, marks>>

Finish ==
  /\ Ready
  /\ \E d \in Digests : hex' = Hex(d)
  /\ context' = "null"
  /\ live' = live - 1
  /\ UNCHANGED <<object, stream, owed, written, marks>>

\* A finalized writer, or a final call that fails or yields another size.
RefuseFinish ==
  /\ object = "alive" /\ owed = <<>>
  /\ object' = "unwinding"
  /\ UNCHANGED <<context, live, content>>

Destroy ==
  /\ object = "unwinding" \/ (object = "alive" /\ context = "null")
  /\ object' = "gone"
  /\ live' = IF context = "live" THEN live - 1 ELSE live
  /\ UNCHANGED <<context, content>>

WriterNext ==
  \/ Allocate \/ Initialize
  \/ WriteNumber \/ WriteBoolean \/ WriteLength \/ WriteBytes \/ FailUpdate
  \/ Finish \/ RefuseFinish \/ Destroy

WriterSpec == WriterInit /\ [][WriterNext]_writer_vars

-----------------------------------------------------------------------------
(***************************************************************************)
(* Whatever call of OpenSSL fails, the context is freed exactly once: by   *)
(* the constructor that could not initialise it, by finish(), or by the    *)
(* destructor when neither did.                                            *)
(***************************************************************************)
ContextOwned ==
  live = IF object \in {"constructing", "alive", "unwinding"} /\ context = "live"
         THEN 1 ELSE 0

(***************************************************************************)
(* An identity is only ever taken of a whole stream: the encodings of the  *)
(* values written, in order, none cut short by a failure.                  *)
(***************************************************************************)
WholeStream == hex # <<>> => owed = <<>> /\ stream = FlattenSeq(written)

\* The eight bytes of s behind an offset, read as a big-endian number.
Then(high, byte) == (high * 256) + byte

BigEndianAt(s, o) ==
  Then(Then(Then(Then(Then(Then(Then(s[o + 1],
    s[o + 2]), s[o + 3]), s[o + 4]), s[o + 5]), s[o + 6]), s[o + 7]), s[o + 8])

MarkEnd(m) == m.start + 8 + Len(m.text)

\* Marks divide s without a gap, and each value can be read where it begins.
ReadIn(s, ms) ==
  /\ Len(s) = IF ms = <<>> THEN 0 ELSE MarkEnd(ms[Len(ms)])
  /\ \A i \in 1..Len(ms) :
       LET m == ms[i]
       IN /\ m.start = IF i = 1 THEN 0 ELSE MarkEnd(ms[i - 1])
          /\ MarkEnd(m) <= Len(s)
          /\ BigEndianAt(s, m.start) = m.number
          /\ \A j \in 1..Len(m.text) : s[m.start + 8 + j] = m.text[j]

(***************************************************************************)
(* What number() shifts and casts into eight bytes is not lost: a reader   *)
(* that knows the kinds of the values finds in the stream behind every     *)
(* finished identity each number, each boolean and each text, at its       *)
(* place, and nothing between them.                                        *)
(***************************************************************************)
ReadsBack == hex # <<>> => ReadIn(stream, marks)

(***************************************************************************)
(* What finish() returns passes the check of from_sha256: the identities   *)
(* of the program never throw invalid_identity.                            *)
(***************************************************************************)
FinishedIsIdentity == hex # <<>> => Sha256Hex(hex)
=============================================================================
