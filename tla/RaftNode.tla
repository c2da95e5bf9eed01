------------------------------ MODULE RaftNode ------------------------------
(***************************************************************************)
(* One StellMap node, internal/raftnode/node.go: how handleReady takes a   *)
(* batch of the raft library through the WAL, the state machine, the       *)
(* snapshot store and log compaction, and how bootstrapStorage brings the  *)
(* same state back after a crash at any point of it.                       *)
(*                                                                         *)
(* One action per durable step of handleReady and of bootstrapStorage.     *)
(* The raft library is the environment: it chooses the entries, the commit *)
(* index and the committed entries of the next Ready (ReadyEmit).          *)
(*                                                                         *)
(* Abstractions.  A log entry is its index: raft commits one entry per     *)
(* index, and only committed entries are applied.  The command of entry i  *)
(* writes or deletes the keys Touch[i] (put, delete and delete_prefix all  *)
(* overwrite blindly), so a key's value is the index of the entry that     *)
(* wrote it last, 0 if none did.  The WAL is the interval walFirst ..      *)
(* walLast (FileWAL models its files).  Creating a snapshot is atomic.     *)
(* Installing a snapshot sent by a peer is not in this module.             *)
(***************************************************************************)
EXTENDS Integers

CONSTANTS
  Keys,             \* the keys of the state machine
  MaxIndex,         \* bound: the largest log index
  Touch,            \* the keys that the command of each entry overwrites
  SnapshotEntries,  \* cfg.SnapshotEntries
  Retain,           \* cfg.CompactRetainEntries
  CrashAt,          \* the stages in which the process may die
  MaxCrashes        \* bound: how often it does

Stages == {"down", "boot", "replay", "start", "idle", "hardstate", "entries",
           "apply", "snapshot", "compact", "advance"}

ASSUME RaftNodeAssumption ==
  /\ MaxIndex \in Nat
  /\ Touch \in [1 .. MaxIndex -> SUBSET Keys]
  /\ SnapshotEntries \in Nat \ {0}
  /\ Retain \in Nat
  /\ CrashAt \subseteq Stages \ {"down"}
  /\ MaxCrashes \in Nat

VARIABLES
  walFirst, walLast,  \* WAL: the entries on disk, none if walFirst > walLast
  hsCommit,           \* WAL: Commit of the hard state on disk
  snap, snapData,     \* snapshot store: index and contents of the latest one
  kvApplied, data,    \* Pebble: the applied index and the business keys
  pc,                 \* the stage the node is in
  rd,                 \* the Ready being handled
  cursor,             \* the last entry applied in the loop at hand
  applied,            \* raft library: the index up to which it has advanced
  last,               \* raft.MemoryStorage: index of the last entry
  msFirst, msSnap,    \* raft.MemoryStorage: first index, snapshot index
  statusApplied,      \* n.status.AppliedIndex, what reads wait for
  resumed,            \* history: the commit index that bootstrapStorage found
  crashes             \* history: how often the process has died

wal   == <<walFirst, walLast, hsCommit>>
store == <<snap, snapData>>
kv    == <<kvApplied, data>>
raft  == <<applied, last, msFirst, msSnap>>
vars  == <<wal, store, kv, pc, rd, cursor, raft, statusApplied, resumed, crashes>>

Index  == 0 .. MaxIndex
Values == [Keys -> Index]
Blank  == [k \in Keys |-> 0]
Ready  == [lo : 1 .. MaxIndex + 1, hi : Index, commit : Index, to : Index]
NoReady == [lo |-> 1, hi |-> 0, commit |-> 0, to |-> 0]

\* d holds, for every key, a write at least as recent as the last one among
\* the entries up to i: nothing of them is missing.
Fresh(d, i) == \A k \in Keys, j \in 1 .. i : k \in Touch[j] => d[k] >= j

\* Every value of d was written by some entry up to c.
Bounded(d, c) ==
  \A k \in Keys : d[k] <= c /\ (d[k] # 0 => k \in Touch[d[k]])

\* d is the result of applying the entries up to c in order.
Exact(d, c) == Fresh(d, c) /\ Bounded(d, c)

\* kvStore.Apply of the command of entry i.
Apply(d, i) == [k \in Keys |-> IF k \in Touch[i] THEN i ELSE d[k]]

-----------------------------------------------------------------------------
Init ==
  /\ walFirst = 1 /\ walLast = 0 /\ hsCommit = 0
  /\ snap = 0 /\ snapData = Blank
  /\ kvApplied = 0 /\ data = Blank
  /\ pc = "down" /\ rd = NoReady /\ cursor = 0
  /\ applied = 0 /\ last = 0 /\ msFirst = 1 /\ msSnap = 0
  /\ statusApplied = 0 /\ resumed = 0
  /\ crashes = 0

\* Faulty variant of RestoreSnapshot: the first index is that of the snapshot.
RestoreSnapshotOffByOne ==
  /\ pc = "down" /\ pc' = "boot"
  /\ IF snap > 0 THEN data' = snapData /\ kvApplied' = snap ELSE UNCHANGED kv
  /\ msSnap' = snap /\ msFirst' = snap
  /\ UNCHANGED <<wal, store, rd, cursor, applied, last, statusApplied, resumed, crashes>>

\* bootstrapStorage, first part: the state machine is put back to the latest
\* snapshot, if there is one.
RestoreSnapshot ==
  /\ pc = "down" /\ pc' = "boot"
  /\ IF snap > 0 THEN data' = snapData /\ kvApplied' = snap ELSE UNCHANGED kv
  /\ msSnap' = snap /\ msFirst' = snap + 1
  /\ UNCHANGED <<wal, store, rd, cursor, applied, last, statusApplied, resumed, crashes>>

\* The hard state and the entries go to the memory storage.  Append panics
\* on entries that do not join the snapshot.
LoadWAL ==
  /\ pc = "boot" /\ pc' = "replay"
  /\ walFirst <= walLast => walFirst <= snap + 1
  /\ last' = IF walFirst <= walLast /\ walLast > snap THEN walLast ELSE snap
  /\ cursor' = snap
  /\ UNCHANGED <<wal, store, kv, rd, applied, msFirst, msSnap, statusApplied, resumed, crashes>>

\* Faulty variants of replaying: the last committed entry is left out; entries
\* are replayed whether committed or not.
replayingShort == cursor + 1 < hsCommit /\ cursor < walLast
replayingAll == cursor < walLast

\* Another committed entry is in the WAL.
replaying == cursor < hsCommit /\ cursor < walLast

\* The committed entries that the WAL still has are applied again.
ReplayEntry ==
  /\ pc = "replay" /\ replaying
  /\ cursor' = cursor + 1
  /\ data' = Apply(data, cursor + 1)
  /\ kvApplied' = cursor + 1
  /\ UNCHANGED <<wal, store, pc, rd, raft, statusApplied, resumed, crashes>>

\* The end of bootstrapStorage.
ReplayDone ==
  /\ pc = "replay" /\ ~replaying /\ pc' = "start"
  /\ statusApplied' = hsCommit /\ resumed' = hsCommit
  /\ UNCHANGED <<wal, store, kv, rd, cursor, raft, crashes>>

\* Faulty variant of StartRaft: the library starts from the first entry that
\* the WAL still has.
StartRaftFromWAL ==
  /\ pc = "start" /\ pc' = "idle"
  /\ snap <= hsCommit /\ hsCommit <= last
  /\ applied' = IF walFirst <= walLast THEN walFirst - 1 ELSE snap
  /\ UNCHANGED <<wal, store, kv, rd, cursor, last, msFirst, msSnap, statusApplied, resumed, crashes>>

\* RestartNode: buildRaftConfig leaves raft.Config.Applied at zero, so the
\* library starts from the snapshot.  It panics on a commit index outside
\* the log it finds.
StartRaft ==
  /\ pc = "start" /\ pc' = "idle"
  /\ snap <= hsCommit /\ hsCommit <= last
  /\ applied' = snap
  /\ UNCHANGED <<wal, store, kv, rd, cursor, last, msFirst, msSnap, statusApplied, resumed, crashes>>

-----------------------------------------------------------------------------
\* The raft library hands over new entries lo .. hi (none if hi < lo), which
\* may replace an uncommitted tail, a commit index, and the next committed
\* entries: all of them or, as MaxSizePerMsg limits a batch, some.
ReadyEmit ==
  /\ pc = "idle" /\ pc' = "hardstate"
  /\ \E lo \in hsCommit + 1 .. last + 1, hi \in hsCommit .. MaxIndex :
       LET newLast == IF hi < lo THEN last ELSE hi
       IN  \E commit \in hsCommit .. newLast :
             \E to \in applied .. commit :
               /\ to = applied => commit = applied
               /\ hi < lo => lo = last + 1 /\ hi = hsCommit
               /\ rd' = [lo |-> lo, hi |-> hi, commit |-> commit, to |-> to]
  /\ UNCHANGED <<wal, store, kv, cursor, raft, statusApplied, resumed, crashes>>

\* walStore.Append, first half: hardstate.bin.
PersistHardState ==
  /\ pc = "hardstate" /\ pc' = "entries"
  /\ hsCommit' = rd.commit
  /\ UNCHANGED <<walFirst, walLast, store, kv, rd, cursor, raft, statusApplied, resumed, crashes>>

\* walStore.Append, second half: the segments; then storage.Append.  A batch
\* behind a gap is refused by the WAL, and handleReady ignores the error.
PersistEntries ==
  /\ pc = "entries" /\ pc' = "apply"
  /\ IF rd.hi < rd.lo THEN UNCHANGED <<walFirst, walLast, last>>
     ELSE /\ last' = rd.hi
          /\ walFirst' = IF walFirst > walLast \/ rd.lo < walFirst THEN rd.lo ELSE walFirst
          /\ walLast' = IF walFirst <= walLast /\ rd.lo > walLast + 1 THEN walLast ELSE rd.hi
  /\ cursor' = applied
  /\ UNCHANGED <<hsCommit, store, kv, rd, applied, msFirst, msSnap, statusApplied, resumed, crashes>>

\* applyCommittedEntries: one entry.
ApplyEntry ==
  /\ pc = "apply" /\ cursor < rd.to
  /\ cursor' = cursor + 1
  /\ data' = Apply(data, cursor + 1)
  /\ UNCHANGED <<wal, store, kvApplied, pc, rd, raft, statusApplied, resumed, crashes>>

\* Faulty variant of ApplyDone: the status takes the commit index.
ApplyDoneReportsCommit ==
  /\ pc = "apply" /\ cursor = rd.to /\ pc' = "snapshot"
  /\ IF rd.to > applied
       THEN kvApplied' = rd.to /\ statusApplied' = rd.commit
       ELSE UNCHANGED <<kvApplied, statusApplied>>
  /\ UNCHANGED <<wal, store, data, rd, cursor, raft, resumed, crashes>>

\* Its end: the applied index of the last entry, in Pebble and in the status.
ApplyDone ==
  /\ pc = "apply" /\ cursor = rd.to /\ pc' = "snapshot"
  /\ IF rd.to > applied
       THEN kvApplied' = rd.to /\ statusApplied' = rd.to
       ELSE UNCHANGED <<kvApplied, statusApplied>>
  /\ UNCHANGED <<wal, store, data, rd, cursor, raft, resumed, crashes>>

SnapshotDue == kvApplied # 0 /\ kvApplied - msSnap >= SnapshotEntries

SkipSnapshot ==
  /\ pc = "snapshot" /\ ~SnapshotDue /\ pc' = "advance"
  /\ UNCHANGED <<wal, store, kv, rd, cursor, raft, statusApplied, resumed, crashes>>

\* Faulty variant of CreateSnapshot: the snapshot is labelled with the commit
\* index.
CreateSnapshotAtCommit ==
  /\ pc = "snapshot" /\ SnapshotDue /\ pc' = "compact"
  /\ msSnap' = kvApplied
  /\ snap' = hsCommit /\ snapData' = data
  /\ UNCHANGED <<wal, kv, rd, cursor, applied, last, msFirst, statusApplied, resumed, crashes>>

\* maybeTriggerSnapshot: the state machine is exported, the memory storage
\* notes the snapshot, the store writes it.
CreateSnapshot ==
  /\ pc = "snapshot" /\ SnapshotDue /\ pc' = "compact"
  /\ msSnap' = kvApplied
  /\ snap' = kvApplied /\ snapData' = data
  /\ UNCHANGED <<wal, kv, rd, cursor, applied, last, msFirst, statusApplied, resumed, crashes>>

\* Faulty variant of CreateSnapshotFails: the error is ignored.
CreateSnapshotFailureIgnored ==
  /\ pc = "snapshot" /\ SnapshotDue /\ pc' = "compact"
  /\ msSnap' = kvApplied
  /\ UNCHANGED <<wal, store, kv, rd, cursor, applied, last, msFirst, statusApplied, resumed, crashes>>

\* snapStore.Create returns an error: the memory storage keeps its snapshot,
\* nothing is compacted.
CreateSnapshotFails ==
  /\ pc = "snapshot" /\ SnapshotDue /\ pc' = "advance"
  /\ msSnap' = kvApplied
  /\ UNCHANGED <<wal, store, kv, rd, cursor, applied, last, msFirst, statusApplied, resumed, crashes>>

\* Faulty variant of compactIndex: nothing is retained.
compactIndexAtApplied == kvApplied

\* The index up to which the log is compacted.
compactIndex ==
  IF Retain > 0 /\ kvApplied > Retain THEN kvApplied - Retain ELSE kvApplied

\* storage.Compact and walStore.TruncatePrefix, which keeps compactIndex.
Compact ==
  /\ pc = "compact" /\ pc' = "advance"
  /\ IF compactIndex >= msFirst
       THEN /\ msFirst' = compactIndex + 1
            /\ walFirst' = IF compactIndex > walFirst THEN compactIndex ELSE walFirst
       ELSE UNCHANGED <<msFirst, walFirst>>
  /\ UNCHANGED <<walLast, hsCommit, store, kv, rd, cursor, applied, last, msSnap,
                 statusApplied, resumed, crashes>>

\* Faulty variant of Advance: all committed entries count as applied.
AdvanceToCommit ==
  /\ pc = "advance" /\ pc' = "idle"
  /\ applied' = rd.commit
  /\ rd' = NoReady
  /\ UNCHANGED <<wal, store, kv, cursor, last, msFirst, msSnap, statusApplied, resumed, crashes>>

\* Advance: the library takes the committed entries of this Ready as applied.
Advance ==
  /\ pc = "advance" /\ pc' = "idle"
  /\ applied' = rd.to
  /\ rd' = NoReady
  /\ UNCHANGED <<wal, store, kv, cursor, last, msFirst, msSnap, statusApplied, resumed, crashes>>

\* The process dies, or is stopped between two Readys, and loses its memory.
Crash ==
  /\ pc \in CrashAt /\ crashes < MaxCrashes
  /\ crashes' = crashes + 1
  /\ pc' = "down" /\ rd' = NoReady /\ cursor' = 0
  /\ applied' = 0 /\ last' = 0 /\ msFirst' = 1 /\ msSnap' = 0
  /\ statusApplied' = 0 /\ resumed' = 0
  /\ UNCHANGED <<wal, store, kv>>

Bootstrap == RestoreSnapshot \/ LoadWAL \/ ReplayEntry \/ ReplayDone \/ StartRaft

HandleReady ==
  \/ PersistHardState \/ PersistEntries \/ ApplyEntry \/ ApplyDone
  \/ SkipSnapshot \/ CreateSnapshot \/ CreateSnapshotFails \/ Compact \/ Advance

Next == Bootstrap \/ ReadyEmit \/ HandleReady \/ Crash

Spec == Init /\ [][Next]_vars

\* A dead process is started again, the run loop finishes the Ready it took,
\* and raft's node goroutine offers a Ready while committed entries wait.
Fairness ==
  /\ WF_vars(Bootstrap)
  /\ WF_vars(HandleReady)
  /\ WF_vars(ReadyEmit /\ applied < hsCommit)

FairSpec == Spec /\ Fairness

-----------------------------------------------------------------------------
(* Properties. *)

\* The types of the variables.
TypeOK ==
  /\ walFirst \in 1 .. MaxIndex + 1 /\ walLast \in Index /\ hsCommit \in Index
  /\ snap \in Index /\ snapData \in Values
  /\ kvApplied \in Index /\ data \in Values
  /\ pc \in Stages /\ rd \in Ready /\ cursor \in Index
  /\ applied \in Index /\ last \in Index
  /\ msFirst \in 1 .. MaxIndex + 1 /\ msSnap \in Index
  /\ statusApplied \in Index /\ resumed \in Index
  /\ crashes \in 0 .. MaxCrashes

\* The disk holds the whole committed log: the snapshot, every committed entry
\* after it, and a commit index that RestartNode accepts.
LogComplete ==
  /\ snap <= hsCommit
  /\ hsCommit > snap => walFirst <= snap + 1 /\ hsCommit <= walLast

\* Whatever the crash interrupted, but for the middle of WAL.Append, where the hard
\* state is on disk before its entries, bootstrapStorage finds the snapshot and
\* the WAL covering the commit index that it reads from the hard state.
Recoverable == pc = "down" => LogComplete

\* When bootstrapStorage returns, the state machine is the result of applying
\* the committed entries in order, wherever the crash was and whatever state
\* it left in Pebble.
RecoveredExact == pc = "start" => Exact(data, hsCommit)

\* A snapshot holds every write up to its index and nothing uncommitted, even
\* one taken while entries are applied for the second time after a restart.
SnapshotCut == Fresh(snapData, snap) /\ Bounded(snapData, hsCommit)

\* The state machine never runs ahead of the commit index on disk.
AppliedWithinCommit == kvApplied <= hsCommit /\ Bounded(data, hsCommit)

\* maybeTriggerSnapshot subtracts unsigned indexes: the snapshot of the
\* memory storage is never ahead of the applied index.
NoUnderflow == pc = "snapshot" => msSnap <= kvApplied

\* Compaction leaves the snapshot's own entry and the Retain entries before it
\* in the WAL (TruncatePrefix keeps the entry at the compaction index).
RetainHonoured == walFirst <= snap - Retain \/ walFirst = 1

\* Reads wait for status.AppliedIndex: the state machine then holds everything
\* up to it.  The exception is a restarted node that applies, for the second
\* time, the entries that bootstrapStorage had already applied: the status is
\* at the commit index while keys go back to older values.
StatusHonestOnceResumed ==
  pc \notin {"down", "boot", "replay"} /\ cursor >= resumed
    => Fresh(data, statusApplied)

\* However often the node crashes, in the end the state machine, the applied
\* index and the status agree with the commit index, and stay so.
CatchesUp ==
  <>[](kvApplied = hsCommit /\ statusApplied = hsCommit /\ Exact(data, hsCommit))
=============================================================================
