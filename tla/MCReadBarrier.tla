--------------------------- MODULE MCReadBarrier ---------------------------
(* Small instances of ReadBarrier for TLC. *)
EXTENDS ReadBarrier

CONSTANTS r1, r2, r3, k1, k2, k3

\* Every read has a request context of its own.
KeyDistinct == [r \in Readers |-> IF r = r1 THEN k1 ELSE IF r = r2 THEN k2 ELSE k3]

\* Two reads of one key, and one of another.
KeyShared == [r \in Readers |-> IF r = r3 THEN k2 ELSE k1]
=============================================================================
