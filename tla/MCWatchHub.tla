----------------------------- MODULE MCWatchHub -----------------------------
(* Small instances of WatchHub for TLC. *)
EXTENDS WatchHub

CONSTANTS c1, c2
=============================================================================
