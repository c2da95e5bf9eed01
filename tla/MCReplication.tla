--------------------------- MODULE MCReplication ---------------------------
(* Small instances of Replication for TLC. *)
EXTENDS Replication

CONSTANTS n1, n2, i1, i2
=============================================================================
