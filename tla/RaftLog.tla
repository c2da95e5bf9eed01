------------------------------ MODULE RaftLog ------------------------------
(***************************************************************************)
(* What a Raft node asks of its write-ahead log (internal/wal, interface   *)
(* WAL): "persist in order and be recoverable after a crash".  The log is  *)
(* the sequence of entries a restart would recover, the hard state is the  *)
(* one a restart would recover.  A crash is a stuttering step: nothing     *)
(* that was recoverable before it may be gone after it.                    *)
(*                                                                         *)
(* FileWAL implements this specification (FileWAL!Durable).                *)
(***************************************************************************)
EXTENDS Integers, Sequences

VARIABLES
  hard,      \* the hard state that a restart recovers
  log,       \* the entries that a restart recovers, in the order it reads them
  floor,     \* every entry below it has been released by TruncatePrefix
  conflict   \* the first index of the conflicting batch being written, or 0

vars == <<hard, log, floor, conflict>>

\* Consecutive entries have consecutive indexes.
Contiguous ==
  \A i \in 1 .. Len(log) - 1 : log[i + 1].index = log[i].index + 1

Init ==
  /\ hard = 0
  /\ log = << >>
  /\ floor = 0
  /\ conflict = 0

\* A new hard state replaces the old one in a single step.
SaveHardState ==
  /\ hard' \in Nat
  /\ UNCHANGED <<log, floor, conflict>>

\* One entry joins the tail; only an empty log may start anywhere.
AppendEntry ==
  /\ Len(log') = Len(log) + 1
  /\ SubSeq(log', 1, Len(log)) = log
  /\ log # << >> => log'[Len(log')].index = log[Len(log)].index + 1
  /\ conflict' \in {conflict, 0}
  /\ UNCHANGED <<hard, floor>>

\* A batch that overlaps the log takes the place of the tail from its first
\* index on, and of nothing below it.
BeginOverwrite ==
  /\ conflict = 0 /\ conflict' \in Nat \ {0}
  /\ \E k \in 1 .. Len(log) :
       /\ log[k].index = conflict'
       /\ log' = SubSeq(log, 1, k - 1)
  /\ hard' \in Nat
  /\ UNCHANGED floor

\* The batch is given up halfway: what is in the log stays, and the old tail
\* may show again behind it.
AbandonOverwrite ==
  /\ conflict # 0 /\ conflict' = 0
  /\ Len(log') >= Len(log)
  /\ SubSeq(log', 1, Len(log)) = log
  /\ Contiguous'
  /\ UNCHANGED <<hard, floor>>

\* The caller releases the entries below an index.
Release ==
  /\ floor' \in Nat /\ floor' >= floor
  /\ UNCHANGED <<hard, log, conflict>>

\* Released entries leave from the front, in as many steps as it takes.
DropPrefix ==
  /\ \E k \in 1 .. Len(log) :
       /\ \A i \in 1 .. k : log[i].index < floor
       /\ log' = SubSeq(log, k + 1, Len(log))
  /\ UNCHANGED <<hard, floor, conflict>>

\* Entries that were released may come back, in their place before the log: a
\* failed release leaves them known, a later one up to a smaller index keeps them.
ReturnReleased ==
  /\ Len(log') > Len(log)
  /\ SubSeq(log', Len(log') - Len(log) + 1, Len(log')) = log
  /\ \A i \in 1 .. Len(log') - Len(log) : log'[i].index < floor
  /\ Contiguous'
  /\ UNCHANGED <<hard, floor, conflict>>

Next ==
  \/ SaveHardState \/ AppendEntry \/ BeginOverwrite \/ AbandonOverwrite
  \/ Release \/ DropPrefix \/ ReturnReleased

Spec == Init /\ [][Next]_vars
=============================================================================
