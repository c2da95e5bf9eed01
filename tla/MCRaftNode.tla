----------------------------- MODULE MCRaftNode -----------------------------
(* Small instances of RaftNode for TLC. *)
EXTENDS RaftNode

CONSTANTS a, b

\* Entry 1 writes both keys, then the keys are written alternately, so that
\* an older write can hide a newer one and a key can be missed.
TouchAlternately ==
  [i \in 1 .. MaxIndex |-> IF i = 1 THEN {a, b} ELSE IF i % 2 = 0 THEN {a} ELSE {b}]
=============================================================================
