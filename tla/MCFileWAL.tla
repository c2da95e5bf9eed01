----------------------------- MODULE MCFileWAL -----------------------------
(* Small instances of FileWAL for TLC. *)
EXTENDS FileWAL
=============================================================================
