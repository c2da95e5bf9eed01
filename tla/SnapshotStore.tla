--------------------------- MODULE SnapshotStore ---------------------------
(***************************************************************************)
(* The snapshot directory, internal/snapshot/snapshot.go, and the transfer *)
(* sessions of internal/runtime/transport_service.go that feed it.         *)
(*                                                                         *)
(* The run loop creates snapshots (maybeTriggerSnapshot) while gRPC        *)
(* streams install the ones other nodes send.  Both go through Create,     *)
(* one action per system call, and the store's mutex is never locked, so   *)
(* they interleave freely.  bootstrapStorage takes the newest .meta file   *)
(* for the latest snapshot.                                                *)
(*                                                                         *)
(* Abstractions.  A snapshot is its index, which decides its term; its     *)
(* data are Chunks pieces.  A .snap file is missing, partly written or     *)
(* whole.  A .meta file is there or not: it is written aside and renamed.  *)
(* A crash loses the process, not the page cache.                          *)
(***************************************************************************)
EXTENDS Integers, Sequences, FiniteSets, FiniteSetsExt

CONSTANTS
  Streams,     \* the transfers, each on a gRPC stream of its own
  SnapOf,      \* the snapshot that each of them carries
  Local,       \* the run loop
  Chunks,      \* chunks per snapshot
  Keep,        \* defaultKeepSnapshots, which is also cfg.KeepSnapshots
  Exclusive,   \* whether Creates of one snapshot never overlap
  MaxIndex,    \* bound: the largest snapshot index
  MaxFaults    \* bound: crashes and I/O errors

Index   == 1 .. MaxIndex
Writers == Streams \cup {Local}

ASSUME SnapshotStoreAssumption ==
  /\ Local \notin Streams
  /\ SnapOf \in [Streams -> Index]
  /\ Chunks \in Nat \ {0} /\ Keep \in Nat \ {0}
  /\ Exclusive \in BOOLEAN
  /\ MaxIndex \in Nat /\ MaxFaults \in Nat

VARIABLES
  tmp,        \* snapshot-*.snap.tmp, per index
  snaps,      \* snapshot-*.snap, per index
  metas,      \* the indexes that have a .meta file
  session,    \* s.install: the chunks received, by the stream they came from
  stream,     \* each stream: "new", "open" or "closed"
  offset,     \* ... and the chunk it sends next
  data,       \* ... and the data it has handed to InstallSnapshot
  step,       \* each Create: what it does next
  target,     \* ... the index it writes, 0 once it has returned
  names,      \* ... the .meta files that its Cleanup has found,
  doomed,     \* ... the files that its Cleanup has yet to remove
  latest,     \* the index of the memory storage's snapshot
  faults

files    == <<tmp, snaps, metas>>
transfer == <<session, stream, offset, data>>
create   == <<step, target, names, doomed>>
vars     == <<files, transfer, create, latest, faults>>

File  == {"missing", "partial", "whole"}
Steps == {"idle", "open", "write", "rename", "meta", "glob", "list", "remove"}

Init ==
  /\ tmp = [i \in Index |-> "missing"] /\ snaps = [i \in Index |-> "missing"] /\ metas = {}
  /\ session = [i \in Index |-> << >>]
  /\ stream = [s \in Streams |-> "new"] /\ offset = [s \in Streams |-> 0]
  /\ data = [s \in Streams |-> << >>]
  /\ step = [w \in Writers |-> "idle"] /\ target = [w \in Writers |-> 0]
  /\ names = [w \in Writers |-> {}] /\ doomed = [w \in Writers |-> {}]
  /\ latest = 0 /\ faults = 0

-----------------------------------------------------------------------------
(* Create, step by step. *)

begin(w, i) ==
  /\ step' = [step EXCEPT ![w] = "open"]
  /\ target' = [target EXCEPT ![w] = i]
  /\ UNCHANGED <<names, doomed>>

\* maybeTriggerSnapshot: the memory storage refuses an index that is not newer.
LocalCreate(i) ==
  /\ step[Local] = "idle" /\ i > latest
  /\ latest' = i
  /\ begin(Local, i)
  /\ UNCHANGED <<files, transfer, faults>>

goto(w, next) == step' = [step EXCEPT ![w] = next]

\* os.OpenFile truncates whatever is at the name.
OpenTmp(w) ==
  /\ step[w] = "open"
  /\ Exclusive => \A v \in Writers : target[v] = target[w] => step[v] \in {"idle", "open"}
  /\ tmp' = [tmp EXCEPT ![target[w]] = "partial"]
  /\ goto(w, "write")
  /\ UNCHANGED <<snaps, metas, transfer, target, names, doomed, latest, faults>>

\* The exporter and file.Sync.  If the file has been renamed in the meantime,
\* it is the renamed one that is written.
WriteTmp(w) ==
  /\ step[w] = "write"
  /\ IF tmp[target[w]] # "missing"
       THEN tmp' = [tmp EXCEPT ![target[w]] = "whole"] /\ UNCHANGED snaps
       ELSE snaps' = [snaps EXCEPT ![target[w]] = "whole"] /\ UNCHANGED tmp
  /\ goto(w, "rename")
  /\ UNCHANGED <<metas, transfer, target, names, doomed, latest, faults>>

\* os.Stat and os.Rename: an error if somebody else has renamed the file.
Rename(w) ==
  /\ step[w] = "rename"
  /\ IF tmp[target[w]] # "missing"
       THEN /\ snaps' = [snaps EXCEPT ![target[w]] = tmp[target[w]]]
            /\ tmp' = [tmp EXCEPT ![target[w]] = "missing"]
            /\ goto(w, "meta")
            /\ UNCHANGED target
       ELSE /\ goto(w, "idle")
            /\ target' = [target EXCEPT ![w] = 0]
            /\ UNCHANGED <<tmp, snaps>>
  /\ UNCHANGED <<metas, transfer, names, doomed, latest, faults>>

\* persistMetadata: from here on the snapshot counts.
PersistMetadata(w) ==
  /\ step[w] = "meta"
  /\ metas' = metas \cup {target[w]}
  /\ goto(w, "glob")
  /\ UNCHANGED <<tmp, snaps, transfer, target, names, doomed, latest, faults>>

\* Faulty variant of surplus: the oldest come first.
surplusOldestFirst(w) == {i \in names[w] : Cardinality({j \in names[w] : j < i}) >= Keep}

\* Faulty variant of surplus: one snapshot too many.
surplusOffByOne(w) == {i \in names[w] : Cardinality({j \in names[w] : j > i}) >= Keep - 1}

\* listMetadata sorts the newest first; the first Keep stay.
surplus(w) == {i \in names[w] : Cardinality({j \in names[w] : j > i}) >= Keep}

\* Cleanup: filepath.Glob reads the directory,
GlobMetadata(w) ==
  /\ step[w] = "glob"
  /\ names' = [names EXCEPT ![w] = metas]
  /\ goto(w, "list")
  /\ UNCHANGED <<files, transfer, target, doomed, latest, faults>>

\* ... os.ReadFile reads the files found,
ListMetadata(w) ==
  /\ step[w] = "list" /\ names[w] \subseteq metas
  /\ doomed' = [doomed EXCEPT ![w] = {"snap", "meta"} \X surplus(w)]
  /\ names' = [names EXCEPT ![w] = {}]
  /\ goto(w, "remove")
  /\ UNCHANGED <<files, transfer, target, latest, faults>>

\* ... or fails, if one of them is gone.  Create ignores the error.
ListMetadataFails(w) ==
  /\ step[w] = "list" /\ ~ (names[w] \subseteq metas)
  /\ names' = [names EXCEPT ![w] = {}]
  /\ goto(w, "remove")
  /\ UNCHANGED <<files, transfer, target, doomed, latest, faults>>

\* The file that is removed next: newest first, the .snap before its .meta.
nextFile(w) ==
  LET i == Max({f[2] : f \in doomed[w]})
  IN  IF <<"snap", i>> \in doomed[w] THEN <<"snap", i>> ELSE <<"meta", i>>

\* ... and removes a file.
RemoveFile(w) ==
  LET f == nextFile(w)
  IN  /\ step[w] = "remove" /\ doomed[w] # {}
      /\ IF f[1] = "snap" THEN snaps' = [snaps EXCEPT ![f[2]] = "missing"] /\ UNCHANGED metas
         ELSE metas' = metas \ {f[2]} /\ UNCHANGED snaps
      /\ doomed' = [doomed EXCEPT ![w] = @ \ {f}]
      /\ UNCHANGED <<tmp, transfer, step, target, names, latest, faults>>

\* Create returns.  InstallSnapshot gives the snapshot to the memory storage, which
\* keeps the newer one; the run loop calls Cleanup once more.
Return(w) ==
  /\ step[w] = "remove" /\ doomed[w] = {}
  /\ goto(w, IF w = Local /\ target[w] # 0 THEN "glob" ELSE "idle")
  /\ target' = [target EXCEPT ![w] = 0]
  /\ latest' = Max({latest, target[w]})
  /\ UNCHANGED <<files, transfer, names, doomed, faults>>

\* A system call of Create fails, or the compaction before the second Cleanup:
\* the error is returned and nothing is cleaned up.
Fail(w) ==
  /\ step[w] \in {"open", "write", "rename", "meta"} \/ (step[w] = "glob" /\ target[w] = 0)
  /\ faults < MaxFaults /\ faults' = faults + 1
  /\ goto(w, "idle")
  /\ target' = [target EXCEPT ![w] = 0]
  /\ UNCHANGED <<files, transfer, names, doomed, latest>>

-----------------------------------------------------------------------------
(* The transfers. *)

\* sendSnapshot opens a stream and sends the chunks in order.
OpenStream(s) ==
  /\ stream[s] = "new"
  /\ stream' = [stream EXCEPT ![s] = "open"]
  /\ UNCHANGED <<files, session, offset, data, create, latest, faults>>

\* Faulty variant of continues: a chunk sent again is taken again.
continuesAgain(s) == offset[s] <= Len(session[SnapOf[s]])

\* InstallSnapshotChunk compares the chunk's offset with what the session holds.
continues(s) == offset[s] = Len(session[SnapOf[s]])

\* A chunk that continues the session,
ReceiveChunk(s) ==
  LET i == SnapOf[s]
  IN  /\ stream[s] = "open" /\ offset[s] + 1 < Chunks
      /\ continues(s)
      /\ session' = [session EXCEPT ![i] = Append(@, s)]
      /\ offset' = [offset EXCEPT ![s] = @ + 1]
      /\ UNCHANGED <<files, stream, data, create, latest, faults>>

\* Faulty variant of ReceiveLast: the session is not deleted.
ReceiveLastKeepsSession(s) ==
  LET i == SnapOf[s]
  IN  /\ stream[s] = "open" /\ offset[s] + 1 = Chunks
      /\ continues(s)
      /\ session' = [session EXCEPT ![i] = Append(@, s)]
      /\ data' = [data EXCEPT ![s] = Append(session[i], s)]
      /\ stream' = [stream EXCEPT ![s] = "closed"]
      /\ begin(s, i)
      /\ UNCHANGED <<files, offset, latest, faults>>

\* ... the last one: the session is deleted and InstallSnapshot begins.
ReceiveLast(s) ==
  LET i == SnapOf[s]
  IN  /\ stream[s] = "open" /\ offset[s] + 1 = Chunks
      /\ continues(s)
      /\ session' = [session EXCEPT ![i] = << >>]
      /\ data' = [data EXCEPT ![s] = Append(session[i], s)]
      /\ stream' = [stream EXCEPT ![s] = "closed"]
      /\ begin(s, i)
      /\ UNCHANGED <<files, offset, latest, faults>>

\* ... one that does not continue the session: an error, the stream is over.
RefuseChunk(s) ==
  /\ stream[s] = "open" /\ ~ continues(s)
  /\ stream' = [stream EXCEPT ![s] = "closed"]
  /\ UNCHANGED <<files, session, offset, data, create, latest, faults>>

\* The connection breaks.  The session stays.
BreakStream(s) ==
  /\ stream[s] = "open"
  /\ stream' = [stream EXCEPT ![s] = "closed"]
  /\ UNCHANGED <<files, session, offset, data, create, latest, faults>>

\* The receiving process dies.
Crash ==
  /\ faults < MaxFaults /\ faults' = faults + 1
  /\ session' = [i \in Index |-> << >>]
  /\ stream' = [s \in Streams |-> IF stream[s] = "open" THEN "closed" ELSE stream[s]]
  /\ step' = [w \in Writers |-> "idle"] /\ target' = [w \in Writers |-> 0]
  /\ names' = [w \in Writers |-> {}] /\ doomed' = [w \in Writers |-> {}]
  /\ latest' = IF metas = {} THEN 0 ELSE Max(metas)
  /\ UNCHANGED <<files, offset, data>>

-----------------------------------------------------------------------------
Create(w) ==
  \/ OpenTmp(w) \/ WriteTmp(w) \/ Rename(w) \/ PersistMetadata(w)
  \/ GlobMetadata(w) \/ ListMetadata(w) \/ ListMetadataFails(w)
  \/ RemoveFile(w) \/ Return(w)

Transfer(s) ==
  OpenStream(s) \/ ReceiveChunk(s) \/ ReceiveLast(s) \/ RefuseChunk(s) \/ BreakStream(s)

Next ==
  \/ \E i \in Index : LocalCreate(i)
  \/ \E w \in Writers : Create(w) \/ Fail(w)
  \/ \E s \in Streams : Transfer(s)
  \/ Crash

Spec == Init /\ [][Next]_vars

-----------------------------------------------------------------------------
(* Properties. *)

\* The types of the variables: the directory, the transfers, the Creates.
FilesT == tmp \in [Index -> File] /\ snaps \in [Index -> File] /\ metas \subseteq Index

TransferT ==
  /\ session \in [Index -> Seq(Streams)] /\ \A i \in Index : Len(session[i]) < Chunks
  /\ stream \in [Streams -> {"new", "open", "closed"}] /\ offset \in [Streams -> 0 .. Chunks - 1]
  /\ data \in [Streams -> Seq(Streams)]

CreateT ==
  /\ step \in [Writers -> Steps] /\ target \in [Writers -> Index \cup {0}]
  /\ names \in [Writers -> SUBSET Index]
  /\ doomed \in [Writers -> SUBSET ({"snap", "meta"} \X Index)]

\* No session ever holds all the chunks: the last one ends it.
TypeOK == FilesT /\ TransferT /\ CreateT /\ latest \in Index \cup {0} /\ faults \in 0 .. MaxFaults

\* Whatever Creates of different snapshots, Cleanups, I/O errors and crashes
\* overlap, the snapshots that Cleanup means to keep, the newest Keep, have all
\* their data: among them the one that bootstrapStorage takes for the latest.
RetainedWhole ==
  \A i \in metas : Cardinality({j \in metas : j > i}) < Keep => snaps[i] = "whole"

\* The snapshot directory never goes back to an older latest snapshot: until a
\* new .meta is in place the old one is authoritative, and no Cleanup removes it.
LatestNeverBack ==
  [][metas # {} => metas' # {} /\ Max(metas') >= Max(metas)]_vars

\* What is handed to InstallSnapshot are all chunks of one transfer, in order,
\* however many transfers of the same snapshot compete for the session.
AssembledWhole ==
  \A s \in Streams : data[s] = << >> \/ data[s] = [k \in 1 .. Chunks |-> s]
=============================================================================
