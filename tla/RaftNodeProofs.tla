--------------------------- MODULE RaftNodeProofs ---------------------------
(***************************************************************************)
(* Crash recovery of RaftNode for any number of keys, entries and crashes. *)
(*                                                                         *)
(* The inductive invariant has four parts: where the WAL stands relative   *)
(* to the snapshot and the commit index (LogInv), what the Ready in flight *)
(* may ask for (ReadyInv), how the apply loop, the raft library and the    *)
(* snapshots follow each other (OrderInv), and that the state machine is   *)
(* never behind the entry last applied to it (DataInv).  It allows a crash *)
(* between the two halves of walStore.Append, after which the WAL ends     *)
(* before the commit index and RestartNode refuses to start.  What such a  *)
(* crash does break is AppendInv, which needs AppendAtomic.                *)
(***************************************************************************)
EXTENDS RaftNode, TLAPS

\* A hard state and the entries it commits reach the disk together: no crash
\* falls between the two halves of walStore.Append.
AppendAtomic == "entries" \notin CrashAt

Booting == {"down", "boot"}
Looping == {"idle", "hardstate", "entries", "apply", "snapshot", "compact", "advance"}

LogInv ==
  /\ snap <= hsCommit /\ snap <= walLast
  /\ walFirst <= snap + 1
  /\ walFirst <= walLast + 1
  /\ pc \in Looping \ {"entries"} => hsCommit <= walLast
  /\ pc \notin Booting => last = walLast
  /\ kvApplied <= hsCommit

ReadyInv ==
  /\ pc = "hardstate" =>
       /\ hsCommit <= rd.commit
       /\ rd.lo <= last + 1
       /\ rd.commit <= IF rd.hi < rd.lo THEN last ELSE rd.hi
       /\ hsCommit < rd.lo
  /\ pc = "entries" =>
       /\ rd.lo <= last + 1
       /\ hsCommit <= IF rd.hi < rd.lo THEN last ELSE rd.hi
  /\ pc \in {"entries", "apply", "snapshot", "compact", "advance"} => hsCommit = rd.commit
  /\ pc \in Looping \ {"idle"} =>
       /\ applied <= rd.to /\ rd.to <= rd.commit
       /\ rd.to = applied => rd.commit = applied

OrderInv ==
  /\ pc \in {"boot", "replay", "start"} => msSnap = snap /\ msSnap <= kvApplied
  /\ pc = "replay" => snap <= cursor
  /\ pc = "start" => cursor <= hsCommit /\ (hsCommit <= walLast => cursor = hsCommit)
  /\ pc \in Looping => snap <= msSnap /\ msSnap <= kvApplied
  /\ pc \in Looping \ {"compact", "advance"} => msSnap <= applied
  /\ pc \in {"compact", "advance"} => msSnap <= rd.to
  /\ pc \in {"idle", "hardstate", "entries", "apply"} => applied <= cursor
  /\ pc = "apply" => cursor <= rd.to
  /\ pc \in {"snapshot", "compact", "advance"} => cursor = rd.to
  /\ pc = "snapshot" => kvApplied <= rd.to
  /\ pc = "compact" => snap = kvApplied /\ SnapshotEntries <= kvApplied
  /\ pc = "replay" => cursor <= hsCommit
  /\ pc = "start" => statusApplied <= resumed
  /\ pc \in {"idle", "hardstate", "entries", "apply"} =>
       statusApplied <= resumed \/ statusApplied <= applied
  /\ pc \in {"snapshot", "compact", "advance"} =>
       statusApplied <= resumed \/ statusApplied <= cursor

DataInv ==
  /\ Fresh(snapData, snap)
  /\ Bounded(snapData, hsCommit)
  /\ Bounded(data, hsCommit)
  /\ pc = "boot" => Fresh(data, snap)
  /\ pc \notin Booting => Fresh(data, cursor)

IInv == TypeOK /\ LogInv /\ ReadyInv /\ OrderInv /\ DataInv

\* Outside walStore.Append the WAL holds every entry that the hard state
\* commits.
AppendInv == pc # "entries" => hsCommit <= walLast

-----------------------------------------------------------------------------
(* The state machine. *)

\* Applying entry i to a state that misses nothing below i gives one that
\* misses nothing up to i, whatever later writes the state already held.
LEMMA ApplyFresh ==
  ASSUME NEW d \in Values, NEW i \in 1 .. MaxIndex, Fresh(d, i - 1)
  PROVE  Fresh(Apply(d, i), i)
<1> SUFFICES ASSUME NEW k \in Keys, NEW j \in 1 .. i, k \in Touch[j]
             PROVE  Apply(d, i)[k] >= j
  BY DEF Fresh
<1>1. CASE j = i
  BY <1>1, RaftNodeAssumption DEF Apply
<1>2. CASE j # i
  <2>1. j \in 1 .. i - 1
    BY <1>2, RaftNodeAssumption
  <2>2. d[k] >= j
    BY <2>1 DEF Fresh
  <2> QED
    BY <2>2, RaftNodeAssumption DEF Apply, Values, Index
<1> QED
  BY <1>1, <1>2

\* Applying entry i writes nothing later than i and keeps the rest.
LEMMA ApplyBounded ==
  ASSUME NEW d \in Values, NEW c \in Index, NEW i \in 1 .. c, Bounded(d, c)
  PROVE  Apply(d, i) \in Values /\ Bounded(Apply(d, i), c)
BY RaftNodeAssumption DEF Apply, Bounded, Values, Index

\* A state that misses nothing up to j misses nothing up to any earlier i.
LEMMA FreshBelow ==
  ASSUME NEW d \in Values, NEW i \in Index, NEW j \in Index, i <= j, Fresh(d, j)
  PROVE  Fresh(d, i)
BY RaftNodeAssumption DEF Fresh, Index

\* A bound stays one when the commit index grows.
LEMMA BoundedAbove ==
  ASSUME NEW d \in Values, NEW c \in Index, NEW e \in Index, c <= e, Bounded(d, c)
  PROVE  Bounded(d, e)
<1> SUFFICES ASSUME NEW k \in Keys
             PROVE  d[k] <= e /\ (d[k] # 0 => k \in Touch[d[k]])
  BY DEF Bounded
<1>1. d[k] \in Index
  BY DEF Values
<1>2. d[k] <= c /\ (d[k] # 0 => k \in Touch[d[k]])
  BY DEF Bounded
<1> QED
  BY <1>1, <1>2, RaftNodeAssumption DEF Index

\* Nothing is asked of a state before the first entry.
LEMMA FreshNothing == ASSUME NEW d PROVE Fresh(d, 0)
BY DEF Fresh

\* The empty state machine holds nothing from beyond entry 0.
LEMMA BlankBounded == Blank \in Values /\ Bounded(Blank, 0)
BY RaftNodeAssumption DEF Blank, Bounded, Values, Index

-----------------------------------------------------------------------------
(* The inductive invariant. *)

\* An empty node satisfies the invariant.
LEMMA InitInv == Init => IInv
<1> SUFFICES ASSUME Init PROVE IInv
  OBVIOUS
<1>1. TypeOK
  BY RaftNodeAssumption, BlankBounded
     DEF Init, TypeOK, Index, Stages, Ready, NoReady
<1>2. LogInv /\ ReadyInv /\ OrderInv
  BY RaftNodeAssumption
     DEF Init, LogInv, ReadyInv, OrderInv, Booting, Looping
<1>3. DataInv
  BY BlankBounded, FreshNothing DEF Init, DataInv, Booting
<1> QED
  BY <1>1, <1>2, <1>3 DEF IInv

\* Every step of the node, a crash in the middle of walStore.Append included,
\* preserves the invariant.  The three arithmetic parts follow from the action;
\* the state machine needs the lemmas above wherever data, the snapshot, a
\* bound or the cursor changes.
LEMMA NextInv ==
  ASSUME IInv, [Next]_vars
  PROVE  IInv'
<1> USE RaftNodeAssumption
<1> DEFINE Arith == TypeOK /\ LogInv /\ ReadyInv /\ OrderInv
<1>0. Arith /\ DataInv
  BY DEF IInv
<1>a. /\ data \in Values /\ snapData \in Values
      /\ hsCommit \in Index /\ snap \in Index /\ cursor \in Index /\ applied \in Index
  BY <1>0 DEF TypeOK
<1>1. CASE RestoreSnapshot
  <2>1. Arith'
    BY <1>0, <1>1 DEF TypeOK, LogInv, ReadyInv, OrderInv, RestoreSnapshot, Booting, Looping,
       Index, Stages, wal, store, kv
  <2>2. DataInv'
    <3>1. CASE snap > 0
      BY <1>0, <1>1, <3>1 DEF DataInv, RestoreSnapshot, Booting, wal, store, kv
    <3>2. CASE snap = 0
      BY <1>0, <1>1, <3>2, FreshNothing DEF DataInv, RestoreSnapshot, Booting, wal, store, kv
    <3> QED
      BY <3>1, <3>2, <1>a DEF Index
  <2> QED
    BY <2>1, <2>2 DEF IInv
<1>2. CASE LoadWAL
  <2>1. Arith'
    BY <1>0, <1>2 DEF TypeOK, LogInv, ReadyInv, OrderInv, LoadWAL, Booting, Looping,
       Index, Stages, wal, store, kv, raft
  <2>2. DataInv'
    BY <1>0, <1>2 DEF DataInv, LoadWAL, Booting, wal, store, kv, raft
  <2> QED
    BY <2>1, <2>2 DEF IInv
<1>3. CASE ReplayEntry
  <2>0. cursor + 1 \in 1 .. hsCommit /\ cursor + 1 \in 1 .. MaxIndex
    BY <1>0, <1>3 DEF TypeOK, LogInv, ReadyInv, OrderInv, ReplayEntry, replaying, Looping, Index
  <2>a. Fresh(data, cursor) /\ Bounded(data, hsCommit)
    BY <1>0, <1>3 DEF DataInv, ReplayEntry, Booting
  <2>b. data' \in Values /\ Bounded(data', hsCommit)
    BY <2>0, <2>a, <1>a, <1>3, ApplyBounded DEF ReplayEntry
  <2>1. Arith'
    BY <1>0, <1>3, <2>0, <2>b DEF TypeOK, LogInv, ReadyInv, OrderInv, ReplayEntry, Booting, Looping,
       Index, Stages, wal, store, kv, raft
  <2>2. Fresh(data', cursor')
    <3>1. (cursor + 1) - 1 = cursor
      BY <1>a DEF Index
    <3> QED
      BY <2>0, <2>a, <3>1, <1>a, <1>3, ApplyFresh DEF ReplayEntry
  <2>3. DataInv'
    BY <1>0, <1>3, <2>b, <2>2 DEF DataInv, ReplayEntry, Booting, wal, store, kv, raft
  <2> QED
    BY <2>1, <2>3 DEF IInv
<1>4. CASE ReplayDone
  <2>1. Arith'
    BY <1>0, <1>4 DEF TypeOK, LogInv, ReadyInv, OrderInv, ReplayDone, Booting, Looping,
       Index, Stages, wal, store, kv, raft, replaying
  <2>2. DataInv'
    BY <1>0, <1>4 DEF DataInv, ReplayDone, Booting, wal, store, kv, raft
  <2> QED
    BY <2>1, <2>2 DEF IInv
<1>5. CASE StartRaft
  <2>1. Arith'
    BY <1>0, <1>5 DEF TypeOK, LogInv, ReadyInv, OrderInv, StartRaft, Booting, Looping,
       Index, Stages, wal, store, kv, raft
  <2>2. DataInv'
    BY <1>0, <1>5 DEF DataInv, StartRaft, Booting, wal, store, kv, raft
  <2> QED
    BY <2>1, <2>2 DEF IInv
<1>6. CASE ReadyEmit
  <2>1. Arith'
    BY <1>0, <1>6 DEF TypeOK, LogInv, ReadyInv, OrderInv, ReadyEmit, Booting, Looping,
       Index, Stages, wal, store, kv, raft, Ready
  <2>2. DataInv'
    BY <1>0, <1>6 DEF DataInv, ReadyEmit, Booting, wal, store, kv, raft
  <2> QED
    BY <2>1, <2>2 DEF IInv
<1>7. CASE PersistHardState
  <2>1. Arith'
    BY <1>0, <1>7 DEF TypeOK, LogInv, ReadyInv, OrderInv, PersistHardState, Booting, Looping,
       Index, Stages, wal, store, kv, raft, Ready
  <2>2. DataInv'
    <3>1. hsCommit' \in Index /\ hsCommit <= hsCommit'
      BY <1>0, <1>7 DEF TypeOK, Ready, ReadyInv, PersistHardState
    <3>2. Bounded(data, hsCommit') /\ Bounded(snapData, hsCommit')
      BY <1>0, <1>a, <3>1, BoundedAbove DEF DataInv
    <3> QED
      BY <1>0, <1>7, <3>2 DEF DataInv, PersistHardState, Booting, wal, store, kv, raft
  <2> QED
    BY <2>1, <2>2 DEF IInv
<1>8. CASE PersistEntries
  <2>1. Arith'
    <3>1. TypeOK' /\ ReadyInv'
      BY <1>0, <1>8 DEF TypeOK, LogInv, ReadyInv, PersistEntries, Booting, Looping,
         Index, Stages, wal, store, kv, raft, Ready
    <3>2. LogInv'
      BY <1>0, <1>8 DEF TypeOK, LogInv, ReadyInv, OrderInv, PersistEntries, Booting, Looping,
         Index, wal, store, kv, raft, Ready
    <3>3. OrderInv'
      BY <1>0, <1>8 DEF TypeOK, LogInv, ReadyInv, OrderInv, PersistEntries, Booting, Looping,
         Index, wal, store, kv, raft, Ready
    <3> QED
      BY <3>1, <3>2, <3>3
  <2>2. DataInv'
    <3>1. Fresh(data, applied)
      BY <1>0, <1>8, <1>a, FreshBelow DEF DataInv, OrderInv, PersistEntries, Booting
    <3> QED
      BY <1>0, <1>8, <3>1 DEF DataInv, PersistEntries, Booting, wal, store, kv, raft
  <2> QED
    BY <2>1, <2>2 DEF IInv
<1>9. CASE ApplyEntry
  <2>0. cursor + 1 \in 1 .. hsCommit /\ cursor + 1 \in 1 .. MaxIndex
    BY <1>0, <1>9 DEF TypeOK, LogInv, ReadyInv, OrderInv, ApplyEntry, Ready, Looping, Index
  <2>a. Fresh(data, cursor) /\ Bounded(data, hsCommit)
    BY <1>0, <1>9 DEF DataInv, ApplyEntry, Booting
  <2>b. data' \in Values /\ Bounded(data', hsCommit)
    BY <2>0, <2>a, <1>a, <1>9, ApplyBounded DEF ApplyEntry
  <2>1. Arith'
    BY <1>0, <1>9, <2>0, <2>b DEF TypeOK, LogInv, ReadyInv, OrderInv, ApplyEntry, Booting, Looping,
       Ready, Index, Stages, wal, store, kv, raft
  <2>2. Fresh(data', cursor')
    <3>1. (cursor + 1) - 1 = cursor
      BY <1>a DEF Index
    <3> QED
      BY <2>0, <2>a, <3>1, <1>a, <1>9, ApplyFresh DEF ApplyEntry
  <2>3. DataInv'
    BY <1>0, <1>9, <2>b, <2>2 DEF DataInv, ApplyEntry, Booting, wal, store, kv, raft
  <2> QED
    BY <2>1, <2>3 DEF IInv
<1>10. CASE ApplyDone
  <2>1. Arith'
    BY <1>0, <1>10 DEF TypeOK, LogInv, ReadyInv, OrderInv, ApplyDone, Booting, Looping,
       Index, Stages, wal, store, kv, raft, Ready
  <2>2. DataInv'
    BY <1>0, <1>10 DEF DataInv, ApplyDone, Booting, wal, store, kv, raft
  <2> QED
    BY <2>1, <2>2 DEF IInv
<1>11. CASE SkipSnapshot
  <2>1. Arith'
    BY <1>0, <1>11 DEF TypeOK, LogInv, ReadyInv, OrderInv, SkipSnapshot, Booting, Looping,
       Index, Stages, wal, store, kv, raft
  <2>2. DataInv'
    BY <1>0, <1>11 DEF DataInv, SkipSnapshot, Booting, wal, store, kv, raft
  <2> QED
    BY <2>1, <2>2 DEF IInv
<1>12. CASE CreateSnapshot
  <2>1. Arith'
    BY <1>0, <1>12 DEF TypeOK, LogInv, ReadyInv, OrderInv, CreateSnapshot, Booting, Looping,
       Index, Stages, wal, store, kv, raft, SnapshotDue
  <2>2. DataInv'
    <3>1. Fresh(data, kvApplied)
      BY <1>0, <1>12, <1>a, FreshBelow DEF TypeOK, DataInv, OrderInv, CreateSnapshot, Booting
    <3> QED
      BY <1>0, <1>12, <3>1 DEF DataInv, CreateSnapshot, Booting, wal, store, kv, raft
  <2> QED
    BY <2>1, <2>2 DEF IInv
<1>13. CASE CreateSnapshotFails
  <2>1. Arith'
    BY <1>0, <1>13 DEF TypeOK, LogInv, ReadyInv, OrderInv, CreateSnapshotFails, Booting, Looping,
       Index, Stages, wal, store, kv, raft, SnapshotDue
  <2>2. DataInv'
    BY <1>0, <1>13 DEF DataInv, CreateSnapshotFails, Booting, wal, store, kv, raft
  <2> QED
    BY <2>1, <2>2 DEF IInv
<1>14. CASE Compact
  <2>1. Arith'
    BY <1>0, <1>14 DEF TypeOK, LogInv, ReadyInv, OrderInv, Compact, Booting, Looping,
       Index, Stages, wal, store, kv, raft, compactIndex
  <2>2. DataInv'
    BY <1>0, <1>14 DEF DataInv, Compact, Booting, wal, store, kv, raft
  <2> QED
    BY <2>1, <2>2 DEF IInv
<1>15. CASE Advance
  <2>1. Arith'
    BY <1>0, <1>15 DEF TypeOK, LogInv, ReadyInv, OrderInv, Advance, Booting, Looping,
       Index, Stages, wal, store, kv, raft, Ready, NoReady
  <2>2. DataInv'
    BY <1>0, <1>15 DEF DataInv, Advance, Booting, wal, store, kv, raft
  <2> QED
    BY <2>1, <2>2 DEF IInv
<1>16. CASE Crash
  <2>1. Arith'
    BY <1>0, <1>16 DEF TypeOK, LogInv, ReadyInv, OrderInv, Crash, Booting, Looping,
       Index, Stages, wal, store, kv, raft, Ready, NoReady
  <2>2. DataInv'
    BY <1>0, <1>16 DEF DataInv, Crash, Booting, wal, store, kv, raft
  <2> QED
    BY <2>1, <2>2 DEF IInv
<1>17. CASE UNCHANGED vars
  <2>1. Arith'
    BY <1>0, <1>17 DEF TypeOK, LogInv, ReadyInv, OrderInv, vars, wal, store, kv, raft
  <2>2. DataInv'
    BY <1>0, <1>17 DEF DataInv, vars, wal, store, kv, raft
  <2> QED
    BY <2>1, <2>2 DEF IInv
<1> QED
  BY <1>1, <1>2, <1>3, <1>4, <1>5, <1>6, <1>7, <1>8, <1>9, <1>10, <1>11, <1>12, <1>13,
     <1>14, <1>15, <1>16, <1>17 DEF Next, Bootstrap, HandleReady
-----------------------------------------------------------------------------
(* Theorems. *)

\* The invariant holds in every reachable state.
LEMMA Invariance == Spec => []IInv
<1>1. IInv /\ [Next]_vars => IInv'
  BY NextInv
<1> QED
  BY InitInv, <1>1, PTL DEF Spec

\* An atomic Append never leaves a commit index beyond the WAL.  Only
\* PersistHardState raises it, PersistEntries catches up before anything else,
\* and what replaces a tail replaces uncommitted entries.
LEMMA AppendInvariance == ASSUME AppendAtomic PROVE Spec => [](IInv /\ AppendInv)
<1>1. Init => AppendInv
  BY DEF Init, AppendInv
<1>2. ASSUME IInv, AppendInv, [Next]_vars PROVE AppendInv'
  <2> USE <1>2, RaftNodeAssumption
  <2>1. IInv'
    BY NextInv
  <2>2. CASE pc' \in Looping
    BY <2>1, <2>2 DEF IInv, LogInv, AppendInv
  <2>3. CASE pc' \notin Looping
    <3>1. UNCHANGED <<hsCommit, walLast>> /\ pc # "entries"
      BY <2>3 DEF Next, Bootstrap, HandleReady, vars, wal, store, kv, raft, Looping, AppendAtomic,
         RestoreSnapshot, LoadWAL, ReplayEntry, ReplayDone, StartRaft, ReadyEmit, PersistHardState,
         PersistEntries, ApplyEntry, ApplyDone, SkipSnapshot, CreateSnapshot, CreateSnapshotFails,
         Compact, Advance, Crash
    <3> QED
      BY <3>1 DEF AppendInv
  <2> QED
    BY <2>2, <2>3
<1> QED
  BY Invariance, <1>1, <1>2, PTL DEF Spec

\* Every variable keeps its type.  Two bounds need the rest of the invariant:
\* the apply loop stays within the log, compaction within the applied index.
THEOREM TypeCorrect == Spec => []TypeOK
<1>1. IInv => TypeOK
  BY DEF IInv
<1> QED
  BY Invariance, <1>1, PTL

\* A node whose WAL writes a hard state together with the entries it commits
\* is recoverable after any crash: the snapshot and the WAL cover the commit
\* index, whatever compaction and failed snapshots did before.
THEOREM RecoverableTheorem == ASSUME AppendAtomic PROVE Spec => []Recoverable
<1>1. IInv /\ AppendInv => Recoverable
  BY DEF IInv, LogInv, AppendInv, Recoverable, LogComplete
<1> QED
  BY AppendInvariance, <1>1, PTL

\* bootstrapStorage always ends with the result of applying the committed
\* entries in order, although Pebble kept the writes of the interrupted run
\* and the snapshot may hold later writes than its index says.
THEOREM RecoveredExactTheorem == ASSUME AppendAtomic PROVE Spec => []RecoveredExact
<1>1. IInv /\ AppendInv => RecoveredExact
  BY DEF IInv, OrderInv, DataInv, AppendInv, RecoveredExact, Exact, Booting
<1> QED
  BY AppendInvariance, <1>1, PTL

\* Every snapshot that compaction relies on misses nothing up to its index and
\* holds nothing uncommitted.
THEOREM SnapshotCutTheorem == Spec => []SnapshotCut
<1>1. IInv => SnapshotCut
  BY DEF IInv, DataInv, SnapshotCut
<1> QED
  BY Invariance, <1>1, PTL

\* Neither the applied index nor any value in Pebble is ever ahead of the
\* commit index on disk.
THEOREM AppliedWithinCommitTheorem == Spec => []AppliedWithinCommit
<1>1. IInv => AppliedWithinCommit
  BY DEF IInv, LogInv, DataInv, AppliedWithinCommit
<1> QED
  BY Invariance, <1>1, PTL

\* The unsigned subtraction that decides whether a snapshot is due never wraps.
THEOREM NoUnderflowTheorem == Spec => []NoUnderflow
<1>1. IInv => NoUnderflow
  BY DEF IInv, OrderInv, NoUnderflow, Looping
<1> QED
  BY Invariance, <1>1, PTL

\* What a read waits for is in the state machine, except while a restarted
\* node is going through the entries it had already applied.
THEOREM StatusHonestTheorem == Spec => []StatusHonestOnceResumed
<1>1. IInv => StatusHonestOnceResumed
  <2> SUFFICES ASSUME IInv, pc \notin {"down", "boot", "replay"}, cursor >= resumed
               PROVE  Fresh(data, statusApplied)
    BY DEF StatusHonestOnceResumed
  <2>1. statusApplied <= cursor
    BY RaftNodeAssumption DEF IInv, TypeOK, OrderInv, Looping, Stages, Index
  <2>2. Fresh(data, cursor)
    BY DEF IInv, DataInv, Booting
  <2> QED
    BY <2>1, <2>2, FreshBelow DEF IInv, TypeOK
<1> QED
  BY Invariance, <1>1, PTL

\* With fewer entries to retain than a snapshot needs, compaction keeps them.
THEOREM RetainHonouredTheorem ==
  ASSUME Retain < SnapshotEntries PROVE Spec => []RetainHonoured
<1> DEFINE J == IInv /\ RetainHonoured
<1>1. Init => J
  BY InitInv DEF Init, RetainHonoured
<1>2. ASSUME J, [Next]_vars PROVE J'
  <2> USE <1>2, RaftNodeAssumption
  <2>1. IInv'
    BY NextInv
  <2>2. UNCHANGED <<walFirst, snap>> => RetainHonoured'
    BY DEF RetainHonoured
  <2>3. PersistEntries => RetainHonoured'
    BY DEF PersistEntries, RetainHonoured, IInv, TypeOK, LogInv, ReadyInv, Booting,
       Looping, Ready, Index, store
  <2>4. CreateSnapshot => RetainHonoured'
    BY DEF CreateSnapshot, RetainHonoured, IInv, TypeOK, OrderInv, Looping, Index, wal
  <2>5. Compact => RetainHonoured'
    <3> SUFFICES ASSUME Compact PROVE RetainHonoured'
      OBVIOUS
    <3>1. /\ walFirst \in Nat /\ snap \in Nat /\ kvApplied \in Nat
          /\ snap = kvApplied /\ SnapshotEntries <= kvApplied
      BY DEF Compact, IInv, TypeOK, OrderInv, Index
    <3>2. compactIndex = snap - Retain
      BY <3>1 DEF compactIndex
    <3>3. walFirst' \in {walFirst, compactIndex} /\ snap' = snap
      BY DEF Compact, store
    <3> QED
      BY <3>1, <3>2, <3>3 DEF RetainHonoured
  <2>6. \/ UNCHANGED <<walFirst, snap>>
        \/ PersistEntries \/ CreateSnapshot \/ Compact
    BY DEF Next, Bootstrap, HandleReady, vars, wal, store, kv, raft,
       RestoreSnapshot, LoadWAL, ReplayEntry, ReplayDone, StartRaft, ReadyEmit,
       PersistHardState, ApplyEntry, ApplyDone, SkipSnapshot, CreateSnapshotFails, Advance, Crash
  <2> QED
    BY <2>1, <2>2, <2>3, <2>4, <2>5, <2>6
<1> QED
  BY <1>1, <1>2, PTL DEF Spec
=============================================================================
