----------------------------- MODULE MCWALFile -----------------------------
(* Instances of WALFile for TLC. *)
EXTENDS WALFile

CONSTANTS w1, w2

(* The empty value, and one of two words. *)
Values == {<<>>, <<w1, Space, w2>>}
=============================================================================
