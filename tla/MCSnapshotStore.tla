-------------------------- MODULE MCSnapshotStore --------------------------
(* Small instances of SnapshotStore for TLC. *)
EXTENDS SnapshotStore

CONSTANTS s1, s2

\* Two transfers of the same snapshot, newer than some local ones and older
\* than others.
SameSnapshot == [s \in Streams |-> 2]
=============================================================================
