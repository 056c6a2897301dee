--------------------------- MODULE MCIdentityWriter ---------------------------
(***************************************************************************)
(* Texts that are empty, begin like a number or are longer than a byte can *)
(* count, numbers at the boundaries of a byte, and digests with leading    *)
(* zero digits.                                                            *)
(***************************************************************************)
EXTENDS IdentityWriter

MCTexts == {<<>>, <<97>>, <<0, 0, 0, 0, 0, 0, 0, 1>>, [i \in 1..257 |-> 97]}

MCNumbers == {1, 256, 65535}

MCDigests == {[i \in 1..DigestSize |-> b] : b \in {0, 10, 171}}
=============================================================================
