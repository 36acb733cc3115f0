------------------------------ MODULE Strings ------------------------------
(***************************************************************************)
(* Texts as sequences of tokens, and what Python does with them.           *)
(***************************************************************************)
EXTENDS Integers, Sequences

\* The texts of a sequence, one after the other.
Concat(parts) ==
  LET J[c \in 0..Len(parts)] == IF c = 0 THEN <<>> ELSE J[c - 1] \o parts[c]
  IN  J[Len(parts)]

\* str.replace
Replace(text, marker, new) ==
  Concat([k \in 1..Len(text) |-> IF text[k] = marker THEN new ELSE <<text[k]>>])

=============================================================================
