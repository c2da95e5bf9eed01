-------------------------- MODULE MCRegistryLease --------------------------
(* Small instances of RegistryLease for TLC. *)
EXTENDS RegistryLease

CONSTANTS r1, r2

\* One request names a ttl, the other leaves it to the server.
OneTTL == [r \in Requests |-> IF r = r1 THEN 2 ELSE 0]
=============================================================================
