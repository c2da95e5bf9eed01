------------------------------ MODULE FileWAL ------------------------------
(***************************************************************************)
(* The file write-ahead log, internal/wal/wal.go: hardstate.bin plus a     *)
(* directory of numbered segment files, mirrored in memory.                *)
(*                                                                         *)
(* One action per system call that changes the disk, so that a crash or an *)
(* I/O error can fall between any two of them.  The mutex w.mu serialises  *)
(* the exported operations: at most one call is in progress.               *)
(*                                                                         *)
(* Abstractions.  An entry is its index and term (the payload is carried   *)
(* along unread).  A hard state is a number, 0 being the empty one.  A     *)
(* file is the sequence of its records; Torn is a record of which only the *)
(* length prefix was written.  A segment holds SegmentCap records (the     *)
(* code compares bytes with maxSegmentSize).  Write-then-rename replaces a *)
(* file atomically; a leftover *.tmp is never read.  A crash loses the     *)
(* process, not the page cache (kill -9, not a power failure).             *)
(***************************************************************************)
EXTENDS Integers, Sequences, FiniteSets, SequencesExt

CONSTANTS
  MaxIndex,     \* bound: the largest log index ever appended
  MaxTerm,      \* bound: the largest term, and the largest hard state
  MaxBatch,     \* bound: entries per Append
  SegmentCap,   \* records per segment file (maxSegmentSize)
  CrashIn,      \* phases of a call in which the process may crash
  FailIn        \* phases of a call in which a system call may fail

Phases == {"idle", "append", "record", "rewrite", "truncate"}

ASSUME FileWALAssumption ==
  /\ MaxIndex \in Nat \ {0} /\ MaxTerm \in Nat \ {0} /\ MaxBatch \in Nat \ {0}
  /\ SegmentCap \in Nat \ {0}
  /\ CrashIn \subseteq Phases
  /\ FailIn \subseteq Phases \ {"idle"}

VARIABLES
  opened, state, entries, segments,   \* the fields of FileWAL
  stateFile, files,                   \* hardstate.bin and the *.wal files
  call,                               \* the call that holds w.mu
  floor,                              \* history: largest index given to TruncatePrefix
  erred                               \* history: a system call has failed since Open

mem  == <<opened, state, entries, segments>>
disk == <<stateFile, files>>
vars == <<mem, disk, call, floor, erred>>

Entry   == [index : 1 .. MaxIndex, term : 1 .. MaxTerm]
Torn    == [index |-> 0, term |-> 0]
Segment == [id : Nat \ {0}, first : Nat, last : Nat]

(***************************************************************************)
(* The call in progress: files still to remove (doomed), entries still to  *)
(* write (todo), the local copy of the segment list (segs), whether its    *)
(* last element may be written to (hasLast), the id of the next segment,   *)
(* the entries that w.entries will hold on success (keep), whether only    *)
(* the length prefix of Head(todo) is on disk (mid) and, for rewriteTail,  *)
(* the first index of the conflicting batch (from) with the entries below  *)
(* it, which the batch must not cost (base, history).                      *)
(***************************************************************************)
Idle == [op |-> "idle", doomed |-> << >>, todo |-> << >>, segs |-> << >>,
         hasLast |-> FALSE, nextID |-> 0, keep |-> << >>, mid |-> FALSE,
         from |-> 0, base |-> << >>]

Phase == IF call.op = "append" /\ call.mid THEN "record" ELSE call.op

-----------------------------------------------------------------------------
(* Reading the directory. *)

\* parseSegmentID of the sorted glob: zero-padded names sort like numbers.
segmentIDs(fs) == SetToSortSeq(DOMAIN fs, <)

\* readSegment fails on a length prefix whose payload is missing.
readable(fs) == \A id \in DOMAIN fs : ~Contains(fs[id], Torn)

\* The entries of all segments, in file order.
loadedEntries(fs) ==
  LET ids == segmentIDs(fs)
  IN  FlattenSeq([i \in 1 .. Len(ids) |-> fs[ids[i]]])

\* The metadata of the segments that hold at least one entry.
loadedSegments(fs) ==
  LET ids == segmentIDs([id \in {x \in DOMAIN fs : fs[x] # << >>} |-> fs[id]])
  IN  [i \in 1 .. Len(ids) |->
         [id    |-> ids[i],
          first |-> Head(fs[ids[i]]).index,
          last  |-> Last(fs[ids[i]]).index]]

\* Faulty variants of nextSegmentID: numbering starts at zero; the id of the
\* last segment is used again.
nextSegmentIDFromZero(segs) == IF segs = << >> THEN 0 ELSE Last(segs).id + 1
nextSegmentIDReused(segs) == IF segs = << >> THEN 1 ELSE Last(segs).id

nextSegmentID(segs) == IF segs = << >> THEN 1 ELSE Last(segs).id + 1

\* sort.Search: the position of the first segment that reaches index i.
firstSegmentReaching(i) ==
  CHOOSE k \in 1 .. Len(segments) :
    /\ segments[k].last >= i
    /\ \A j \in 1 .. k - 1 : segments[j].last < i

\* The tail of existing from the first incoming index on is replaced.
mergeEntries(existing, incoming) ==
  SelectSeq(existing, LAMBDA e : e.index < incoming[1].index) \o incoming

-----------------------------------------------------------------------------
Init ==
  /\ opened = FALSE /\ state = 0 /\ entries = << >> /\ segments = << >>
  /\ stateFile = 0 /\ files = << >>
  /\ call = Idle
  /\ floor = 0 /\ erred = FALSE

\* Open: an unreadable segment makes it return an error and change nothing.
Open ==
  /\ ~opened
  /\ readable(files)
  /\ opened' = TRUE
  /\ state' = stateFile
  /\ entries' = loadedEntries(files)
  /\ segments' = loadedSegments(files)
  /\ erred' = FALSE
  /\ UNCHANGED <<disk, call, floor>>

\* The guard of every exported operation, and its first effect: the hard
\* state, unless empty, is taken over and hardstate.bin is replaced.
persistState(hs) ==
  /\ opened /\ call = Idle
  /\ state' = IF hs = 0 THEN state ELSE hs
  /\ stateFile' = state'

\* Append without entries, Sync (hs = 0), and Append that finds a gap and
\* returns an error: the hard state is on disk, the entries are not.
AppendState(hs) ==
  /\ persistState(hs)
  /\ UNCHANGED <<opened, entries, segments, files, call, floor, erred>>

AppendGap(hs, es) ==
  /\ entries # << >>
  /\ es[1].index > Last(entries).index + 1
  /\ AppendState(hs)

\* Append of a batch that continues the log (appendEntriesIncremental).
AppendTail(hs, es) ==
  /\ entries # << >> => es[1].index = Last(entries).index + 1
  /\ persistState(hs)
  /\ call' = [Idle EXCEPT
                !.op = "append", !.todo = es, !.keep = entries,
                !.segs = segments, !.hasLast = segments # << >>,
                !.nextID = nextSegmentID(segments)]
  /\ UNCHANGED <<opened, entries, segments, files, floor, erred>>

\* Append of a batch that overlaps the log (rewriteTail): every segment from
\* the first affected one on is removed, then written anew from memory.
AppendOverlap(hs, es) ==
  /\ entries # << >>
  /\ es[1].index <= Last(entries).index
  /\ persistState(hs)
  /\ LET k     == firstSegmentReaching(es[1].index)
         start == segments[k].first
     IN  call' = [Idle EXCEPT
                    !.op = "rewrite",
                    !.doomed = [i \in 1 .. Len(segments) - k + 1 |-> segments[k + i - 1].id],
                    !.todo = SelectSeq(mergeEntries(entries, es), LAMBDA e : e.index >= start),
                    !.segs = SubSeq(segments, 1, k - 1),
                    !.nextID = segments[k].id,
                    !.keep = SelectSeq(entries, LAMBDA e : e.index < start),
                    !.from = es[1].index,
                    !.base = SelectSeq(loadedEntries(files), LAMBDA e : e.index < es[1].index)]
  /\ UNCHANGED <<opened, entries, segments, files, floor, erred>>

\* TruncatePrefix with nothing below the index.
TruncateNothing(index) ==
  /\ entries # << >> => index <= entries[1].index
  /\ persistState(0)
  /\ floor' = IF index > floor THEN index ELSE floor
  /\ UNCHANGED <<opened, entries, segments, files, call, erred>>

\* TruncatePrefix: segments below the index go, the boundary segment is
\* rewritten to the entries that stay, later segments are left alone.
TruncatePrefix(index) ==
  /\ opened /\ call = Idle
  /\ entries # << >> /\ index > entries[1].index
  /\ LET filtered == SelectSeq(entries, LAMBDA e : e.index >= index)
         k == IF filtered = << >> THEN Len(segments) + 1 ELSE firstSegmentReaching(index)
         kept == SubSeq(segments, k, Len(segments))
         cut  == kept # << >> /\ kept[1].first < index
     IN  call' = [Idle EXCEPT
                    !.op = "truncate",
                    !.doomed = [i \in 1 .. k - 1 |-> segments[i].id],
                    !.todo = IF cut THEN SelectSeq(filtered, LAMBDA e : e.index <= kept[1].last)
                                    ELSE << >>,
                    !.segs = IF cut THEN [kept EXCEPT ![1].first = index] ELSE kept,
                    !.keep = filtered]
  /\ floor' = IF index > floor THEN index ELSE floor
  /\ UNCHANGED <<mem, disk, erred>>

-----------------------------------------------------------------------------
(* The system calls of a call in progress. *)

\* Faulty variant of removeSegment: the newest doomed segment goes first.
removeSegmentNewestFirst ==
  /\ call.doomed # << >>
  /\ files' = [id \in DOMAIN files \ {Last(call.doomed)} |-> files[id]]
  /\ call' = [call EXCEPT !.doomed = Front(@)]
  /\ IF call.op = "rewrite" /\ Front(call.doomed) = << >>
       THEN entries' = call.keep /\ segments' = call.segs
       ELSE UNCHANGED <<entries, segments>>
  /\ UNCHANGED <<opened, state, stateFile, floor, erred>>

\* os.Remove of the next doomed segment.  Once rewriteTail has removed them
\* all, it forgets them in memory too.
removeSegment ==
  /\ call.doomed # << >>
  /\ files' = [id \in DOMAIN files \ {Head(call.doomed)} |-> files[id]]
  /\ call' = [call EXCEPT !.doomed = Tail(@)]
  /\ IF call.op = "rewrite" /\ Tail(call.doomed) = << >>
       THEN entries' = call.keep /\ segments' = call.segs
       ELSE UNCHANGED <<entries, segments>>
  /\ UNCHANGED <<opened, state, stateFile, floor, erred>>

\* rewriteSegmentFile: the new content, written to a file aside, is renamed into
\* place.
rewriteSegmentFile(id, es) ==
  [i \in DOMAIN files \cup {id} |-> IF i = id THEN es ELSE files[i]]

\* Faulty variant of finishTruncate: the segment list is not replaced.
finishTruncateStaleSegments ==
  /\ call.op = "truncate" /\ call.doomed = << >>
  /\ files' = IF call.todo = << >> THEN files
              ELSE rewriteSegmentFile(call.segs[1].id, call.todo)
  /\ entries' = call.keep
  /\ call' = Idle
  /\ stateFile' = state
  /\ UNCHANGED <<opened, state, segments, floor, erred>>

\* The end of TruncatePrefix: the boundary segment is shortened, then the memory
\* follows.
finishTruncate ==
  /\ call.op = "truncate" /\ call.doomed = << >>
  /\ files' = IF call.todo = << >> THEN files
              ELSE rewriteSegmentFile(call.segs[1].id, call.todo)
  /\ entries' = call.keep
  /\ segments' = call.segs
  /\ call' = Idle
  /\ stateFile' = state
  /\ UNCHANGED <<opened, state, floor, erred>>

writing == call.op \in {"append", "rewrite"} /\ call.doomed = << >>

\* There is no last segment to write to, or it is full.
needsSegment ==
  call.hasLast =>
    /\ Last(call.segs).id \in DOMAIN files
    /\ Len(files[Last(call.segs).id]) + 1 > SegmentCap

\* fileSize cannot find the last segment: the append returns an error.
statFails ==
  /\ writing /\ ~call.mid
  /\ call.hasLast /\ Last(call.segs).id \notin DOMAIN files
  /\ call' = Idle
  /\ UNCHANGED <<mem, disk, floor, erred>>

createSegment ==
  /\ writing /\ ~call.mid /\ needsSegment
  /\ files' = [id \in DOMAIN files \cup {call.nextID} |->
                 IF id = call.nextID THEN << >> ELSE files[id]]
  /\ call' = [call EXCEPT
                !.segs = Append(@, [id    |-> call.nextID,
                                    first |-> Head(call.todo).index,
                                    last  |-> Head(call.todo).index - 1]),
                !.nextID = @ + 1,
                !.hasLast = TRUE]
  /\ UNCHANGED <<mem, stateFile, floor, erred>>

\* appendRecord, first write: the length prefix.
writeLength ==
  /\ writing /\ ~call.mid /\ ~needsSegment
  /\ Last(call.segs).id \in DOMAIN files
  /\ files' = [files EXCEPT ![Last(call.segs).id] = Append(@, Torn)]
  /\ call' = [call EXCEPT !.mid = TRUE]
  /\ UNCHANGED <<mem, stateFile, floor, erred>>

\* appendRecord, second write and fsync: the payload.  After the last record
\* the local segment list and the entries become those of the WAL.
writePayload ==
  /\ writing /\ call.mid
  /\ LET e    == Head(call.todo)
         n    == Len(call.segs)
         segs == [call.segs EXCEPT ![n].last = e.index]
         keep == Append(call.keep, e)
     IN  /\ files' = [files EXCEPT ![segs[n].id] = Append(Front(@), e)]
         /\ IF Tail(call.todo) = << >>
              THEN /\ segments' = segs /\ entries' = keep
                   /\ call' = Idle
              ELSE /\ call' = [call EXCEPT !.segs = segs, !.keep = keep, !.mid = FALSE,
                                           !.todo = Tail(@)]
                   /\ UNCHANGED <<entries, segments>>
  /\ UNCHANGED <<opened, state, stateFile, floor, erred>>

\* A system call fails: the call returns the error and undoes nothing.
IOError ==
  /\ Phase \in FailIn
  /\ call' = Idle
  /\ erred' = TRUE
  /\ UNCHANGED <<mem, disk, floor>>

Close ==
  /\ opened /\ call = Idle
  /\ opened' = FALSE
  /\ UNCHANGED <<state, entries, segments, disk, call, floor, erred>>

Crash ==
  /\ opened /\ Phase \in CrashIn
  /\ opened' = FALSE /\ state' = 0 /\ entries' = << >> /\ segments' = << >>
  /\ call' = Idle
  /\ UNCHANGED <<disk, floor, erred>>

-----------------------------------------------------------------------------
\* The batches raft may hand over: consecutive indexes, none below what has been
\* released (a released entry is covered by a snapshot, hence committed, and raft
\* never overwrites a committed entry).
Batches ==
  { [i \in 1 .. n |-> [index |-> a + i - 1, term |-> t]] :
      n \in 1 .. MaxBatch, a \in 1 .. MaxIndex, t \in 1 .. MaxTerm }

Admissible(es) ==
  /\ Last(es).index <= MaxIndex
  /\ es[1].index >= floor
  /\ entries # << >> => es[1].index >= entries[1].index

AppendAny ==
  \E hs \in 0 .. MaxTerm :
    \/ AppendState(hs)
    \/ \E es \in Batches :
         /\ Admissible(es)
         /\ AppendGap(hs, es) \/ AppendTail(hs, es) \/ AppendOverlap(hs, es)

TruncateAny ==
  \E i \in 1 .. MaxIndex + 1 : TruncateNothing(i) \/ TruncatePrefix(i)

Step ==
  \/ removeSegment \/ finishTruncate
  \/ createSegment \/ statFails \/ writeLength \/ writePayload

Next == Open \/ AppendAny \/ TruncateAny \/ Step \/ IOError \/ Close \/ Crash

Spec == Init /\ [][Next]_vars

-----------------------------------------------------------------------------
(* Properties. *)

\* The types of the variables.
TypeOK ==
  /\ opened \in BOOLEAN /\ erred \in BOOLEAN
  /\ state \in 0 .. MaxTerm /\ stateFile \in 0 .. MaxTerm
  /\ \A i \in DOMAIN entries : entries[i] \in Entry
  /\ \A i \in DOMAIN segments : segments[i] \in Segment
  /\ \A id \in DOMAIN files : ToSet(files[id]) \subseteq Entry \cup {Torn}
  /\ Phase \in Phases
  /\ floor \in 0 .. MaxIndex + 1

\* Between calls, unless one has failed, the memory is exactly what Open would
\* read back from the directory: entries, segment boundaries and hard state.
\* rewriteTail and TruncatePrefix pick the files they delete by this mirror.
MirrorMatchesDisk ==
  opened /\ call = Idle /\ ~erred =>
    /\ state = stateFile
    /\ entries = loadedEntries(files)
    /\ segments = loadedSegments(files)

\* Between calls, every entry the WAL reports and nobody released is on disk,
\* whatever system call of TruncatePrefix failed before.
ReportedOnDisk ==
  opened /\ call = Idle =>
    \A i \in DOMAIN entries :
      entries[i].index >= floor => Contains(loadedEntries(files), entries[i])

\* The log a restart would recover.  While rewriteTail is at work it is the
\* part of the old log below the conflicting batch, and the entries of the
\* batch written so far.
RecoverableLog ==
  IF call.op = "rewrite"
  THEN call.base \o SelectSeq(call.keep, LAMBDA e : e.index >= call.from)
  ELSE SelectSeq(loadedEntries(files), LAMBDA e : e # Torn)

\* FileWAL implements the abstract log: entries reach it one by one in index
\* order, a conflicting batch costs nothing below its first index, only
\* released entries leave at the front, and a crash takes nothing away.
Durable == INSTANCE RaftLog WITH
  hard <- stateFile, log <- RecoverableLog, conflict <- call.from
DurableLog == Durable!Spec
=============================================================================
