------------------------ MODULE SnapshotStoreProofs ------------------------
(***************************************************************************)
(* Type correctness of SnapshotStore, that transfers are assembled whole   *)
(* and that the directory never goes back to an older snapshot, for any    *)
(* number of transfers, chunks, snapshots and faults, and, as long as no   *)
(* two Creates of one snapshot overlap, that the snapshots which Cleanup   *)
(* keeps have all their data.                                              *)
(***************************************************************************)
EXTENDS SnapshotStore, SharedLemmas

\* The snapshots newer than i.
newer(i) == {j \in metas : j > i}

\* Cleanup may do away with i: Keep newer ones are there.
Old(i) == Cardinality(newer(i)) >= Keep

\* What a Cleanup is going to remove is old, also when another one or a new
\* snapshot has come in between.
DoomInv == \A w \in Writers : \A f \in doomed[w] : Old(f[2])

\* A Create that has not written its .meta has a target.
TargetInv ==
  \A w \in Writers : step[w] \in {"open", "write", "rename", "meta"} => target[w] # 0

\* A stream that has got a chunk accepted owns the session.
SessionInv ==
  \A s \in Streams :
    /\ stream[s] = "new" => offset[s] = 0
    /\ stream[s] = "open" /\ offset[s] > 0 =>
         session[SnapOf[s]] = [k \in 1 .. offset[s] |-> s]

Writing == {"write", "rename", "meta", "glob", "list", "remove"}

\* One Create at most is past opening the file of a snapshot.
ExclusiveInv ==
  \A v, w \in Writers :
    target[v] = target[w] /\ target[v] # 0 /\ step[v] \in Writing /\ step[w] \in Writing => v = w

\* The file of a Create that has not written its .meta is what its step says.
FileInv ==
  \A w \in Writers :
    /\ step[w] = "write" => tmp[target[w]] # "missing"
    /\ step[w] = "rename" => tmp[target[w]] = "whole"
    /\ step[w] = "meta" => snaps[target[w]] = "whole" \/ Old(target[w])

\* The inductive invariants: without and with the assumption on Creates.
IInv == TypeOK /\ TargetInv /\ DoomInv /\ SessionInv /\ AssembledWhole
XInv == ExclusiveInv /\ FileInv /\ RetainedWhole

-----------------------------------------------------------------------------
(* The directory. *)

\* The constants, one by one.
LEMMA Constants ==
  /\ Chunks \in Nat \ {0} /\ Keep \in Nat \ {0} /\ MaxIndex \in Nat /\ MaxFaults \in Nat
  /\ Local \notin Streams /\ SnapOf \in [Streams -> Index]
BY SnapshotStoreAssumption

\* Snapshot indexes are natural numbers up to MaxIndex, and sets of them finite.
LEMMA Indexes ==
  ASSUME NEW S \in SUBSET Index
  PROVE  /\ S \in SUBSET Nat /\ \A i \in S : i >= 1 /\ i <= MaxIndex
         /\ IsFiniteSet(S) /\ Cardinality(S) \in Nat
<1>1. S \in SUBSET Nat /\ \A i \in S : i >= 1 /\ i <= MaxIndex
  BY Constants DEF Index
<1>2. IsFiniteSet(S)
  BY <1>1, Constants, FS_BoundedSetOfNaturals
<1> QED
  BY <1>1, <1>2, FS_CardinalityType

\* A larger set of snapshots has no fewer elements.
LEMMA MoreSnapshots ==
  ASSUME NEW T \in SUBSET Index, NEW S \in SUBSET T
  PROVE  Cardinality(S) <= Cardinality(T)
<1>1. IsFiniteSet(T)
  BY Indexes
<1> QED
  BY <1>1, FS_Subset

\* Where enough snapshots are newer than i, i is old.
LEMMA OldIfMany ==
  ASSUME NEW i, metas \subseteq Index, NEW S \in SUBSET newer(i), Cardinality(S) >= Keep
  PROVE  Old(i)
<1>1. newer(i) \in SUBSET Index /\ S \in SUBSET Index
  BY DEF newer
<1>2. Cardinality(S) <= Cardinality(newer(i)) /\ Cardinality(S) \in Nat /\ Cardinality(newer(i)) \in Nat
  BY <1>1, MoreSnapshots, Indexes
<1> QED
  BY <1>2, Constants DEF Old

\* An old snapshot is not the newest one.
LEMMA OldHasNewer ==
  ASSUME NEW i, metas \subseteq Index, Old(i)
  PROVE  \E j \in metas : j > i
<1>1. newer(i) # {}
  BY FS_EmptySet, Constants DEF Old
<1> QED
  BY <1>1 DEF newer

\* What was old stays old when a .meta is added, and when an old one goes.
LEMMA OldStays ==
  ASSUME metas \subseteq Index, metas' \subseteq Index, NEW i \in Index, Old(i),
         metas \subseteq metas' \/ \E k \in Index : Old(k) /\ metas' = metas \ {k}
  PROVE  Old(i)'
<1> SUFFICES ASSUME NEW S, S \in SUBSET newer(i)', Cardinality(S) >= Keep PROVE Old(i)'
  <2>1. CASE metas \subseteq metas'
    BY <2>1 DEF newer, Old
  <2>2. ASSUME NEW k \in Index, Old(k), metas' = metas \ {k}
        PROVE  \E S \in SUBSET newer(i)' : Cardinality(S) >= Keep
    <3>1. i \in Nat /\ k \in Nat /\ \A j \in metas : j \in Nat
      BY Indexes
    <3>2. CASE k > i
      <4>1. ASSUME NEW j \in newer(k) PROVE j \in newer(i)'
        <5>1. j \in metas /\ j > k /\ j \in Nat
          BY <3>1 DEF newer
        <5> QED
          BY <2>2, <3>1, <3>2, <5>1 DEF newer
      <4> QED
        BY <2>2, <4>1 DEF Old
    <3>3. CASE ~ (k > i)
      <4>1. newer(i) \in SUBSET newer(i)'
        BY <2>2, <3>1, <3>3 DEF newer
      <4> QED
        BY <4>1 DEF Old
    <3> QED
      BY <3>2, <3>3
  <2> QED
    BY <2>1, <2>2
<1>1. newer(i)' \in SUBSET Index /\ S \in SUBSET Index
  BY DEF newer
<1>2. Cardinality(S) <= Cardinality(newer(i)') /\ Cardinality(S) \in Nat /\ Cardinality(newer(i)') \in Nat
  BY <1>1, MoreSnapshots, Indexes
<1> QED
  BY <1>2, Constants DEF Old

\* Cleanup removes one of the files it has found to be surplus.
LEMMA NextFileDoomed ==
  ASSUME CreateT, NEW w \in Writers, doomed[w] # {}
  PROVE  nextFile(w) \in doomed[w] /\ nextFile(w) \in {"snap", "meta"} \X Index
<1> DEFINE S == {f[2] : f \in doomed[w]}
           i == Max(S)
<1>1. doomed[w] \in SUBSET ({"snap", "meta"} \X Index)
  BY DEF CreateT
<1>2. S \in SUBSET Index /\ S # {}
  BY <1>1
<1>3. i \in S
  BY <1>2, Indexes, Constants, MaxProperties
<1>4. PICK f \in doomed[w] : f[2] = i
  BY <1>3
<1>5. f = <<"snap", i>> \/ f = <<"meta", i>>
  BY <1>1, <1>4
<1>6. nextFile(w) = IF <<"snap", i>> \in doomed[w] THEN <<"snap", i>> ELSE <<"meta", i>>
  BY DEF nextFile
<1> HIDE DEF i
<1> QED
  BY <1>1, <1>4, <1>5, <1>6

\* Every step leaves the directory as it is, adds a .meta or removes an old one.
LEMMA DirectoryStep ==
  ASSUME FilesT, CreateT, TargetInv, DoomInv, [Next]_vars
  PROVE  /\ metas' \subseteq Index
         /\ metas \subseteq metas' \/ \E k \in Index : Old(k) /\ metas' = metas \ {k}
<1>1. metas \subseteq Index
  BY DEF FilesT
<1>2. ASSUME NEW w \in Writers, PersistMetadata(w) PROVE metas' \subseteq Index /\ metas \subseteq metas'
  <2>1. step[w] = "meta" /\ metas' = metas \cup {target[w]}
    BY <1>2 DEF PersistMetadata
  <2>2. target[w] \in Index
    BY <2>1 DEF CreateT, TargetInv
  <2> QED
    BY <1>1, <2>1, <2>2
<1>3. ASSUME NEW w \in Writers, RemoveFile(w)
      PROVE  metas' = metas \/ \E k \in Index : Old(k) /\ metas' = metas \ {k}
  <2>1. nextFile(w) \in doomed[w] /\ nextFile(w)[2] \in Index
    BY <1>3, NextFileDoomed DEF RemoveFile
  <2>2. Old(nextFile(w)[2])
    BY <2>1 DEF DoomInv
  <2>3. metas' = metas \/ metas' = metas \ {nextFile(w)[2]}
    BY <1>3 DEF RemoveFile
  <2> QED
    BY <2>1, <2>2, <2>3
<1>4. \/ \E w \in Writers : PersistMetadata(w) \/ RemoveFile(w)
      \/ metas' = metas
  BY DEF Next, Create, Transfer, LocalCreate, OpenTmp, WriteTmp, Rename, GlobMetadata, ListMetadata,
         ListMetadataFails, Return, Fail, OpenStream, ReceiveChunk, ReceiveLast, RefuseChunk,
         BreakStream, Crash, vars, files
<1> QED
  BY <1>1, <1>2, <1>3, <1>4

\* No step makes a snapshot count again that Cleanup may do away with.
LEMMA OldForever ==
  ASSUME FilesT, CreateT, TargetInv, DoomInv, [Next]_vars, NEW i \in Index, Old(i)
  PROVE  Old(i)'
<1>1. metas \subseteq Index
  BY DEF FilesT
<1> QED
  BY <1>1, DirectoryStep, OldStays

-----------------------------------------------------------------------------
(* Types. *)

\* The directory keeps its type.
LEMMA FilesPreserved ==
  ASSUME FilesT, CreateT, TargetInv, DoomInv, [Next]_vars
  PROVE  FilesT'
<1>1. metas' \subseteq Index
  BY DirectoryStep
<1>2. ASSUME NEW w \in Writers, OpenTmp(w) \/ WriteTmp(w) \/ Rename(w)
      PROVE  tmp' \in [Index -> File] /\ snaps' \in [Index -> File]
  <2>1. CASE OpenTmp(w)
    BY <2>1 DEF FilesT, File, OpenTmp
  <2>2. CASE WriteTmp(w)
    BY <2>2 DEF FilesT, File, WriteTmp
  <2>3. CASE Rename(w)
    <3>1. target[w] \in Index
      BY <2>3 DEF Rename, CreateT, TargetInv
    <3> QED
      BY <2>3, <3>1 DEF FilesT, File, Rename
  <2> QED
    BY <1>2, <2>1, <2>2, <2>3
<1>3. ASSUME NEW w \in Writers, RemoveFile(w) PROVE tmp' = tmp /\ snaps' \in [Index -> File]
  BY <1>3 DEF FilesT, File, RemoveFile
<1>4. \/ \E w \in Writers : OpenTmp(w) \/ WriteTmp(w) \/ Rename(w) \/ RemoveFile(w)
      \/ tmp' = tmp /\ snaps' = snaps
  BY DEF Next, Create, Transfer, LocalCreate, PersistMetadata, GlobMetadata, ListMetadata,
         ListMetadataFails, Return, Fail, OpenStream, ReceiveChunk, ReceiveLast, RefuseChunk,
         BreakStream, Crash, vars, files
<1> QED
  BY <1>1, <1>2, <1>3, <1>4 DEF FilesT

\* The transfers keep their type: the session of a transfer never gets longer
\* than the snapshot.
LEMMA TransfersPreserved ==
  ASSUME TransferT, [Next]_vars
  PROVE  TransferT'
<1>1. ASSUME NEW s \in Streams, ReceiveChunk(s) PROVE TransferT'
  <2> DEFINE i == SnapOf[s]
  <2>1. i \in Index /\ session[i] \in Seq(Streams)
    BY Constants DEF TransferT
  <2>2. /\ offset[s] + 1 < Chunks /\ offset[s] = Len(session[i])
        /\ session' = [session EXCEPT ![i] = Append(@, s)] /\ offset' = [offset EXCEPT ![s] = @ + 1]
        /\ UNCHANGED <<stream, data>>
    BY <1>1 DEF ReceiveChunk, continues
  <2> HIDE DEF i
  <2>3. Append(session[i], s) \in Seq(Streams) /\ Len(Append(session[i], s)) = offset[s] + 1
    BY <2>1, <2>2
  <2>4. session' \in [Index -> Seq(Streams)] /\ \A j \in Index : Len(session'[j]) < Chunks
    BY <2>1, <2>2, <2>3 DEF TransferT
  <2>5. offset' \in [Streams -> 0 .. Chunks - 1]
    BY <2>2, Constants DEF TransferT
  <2> QED
    BY <2>2, <2>4, <2>5 DEF TransferT
<1>2. ASSUME NEW s \in Streams, ReceiveLast(s) PROVE TransferT'
  <2> DEFINE i == SnapOf[s]
  <2>1. i \in Index /\ session[i] \in Seq(Streams)
    BY Constants DEF TransferT
  <2>2. /\ session' = [session EXCEPT ![i] = << >>] /\ data' = [data EXCEPT ![s] = Append(session[i], s)]
        /\ stream' = [stream EXCEPT ![s] = "closed"] /\ offset' = offset
    BY <1>2 DEF ReceiveLast
  <2> HIDE DEF i
  <2>3. session' \in [Index -> Seq(Streams)] /\ \A j \in Index : Len(session'[j]) < Chunks
    BY <2>1, <2>2, Constants DEF TransferT
  <2>4. data' \in [Streams -> Seq(Streams)]
    BY <2>1, <2>2 DEF TransferT
  <2>5. stream' \in [Streams -> {"new", "open", "closed"}]
    BY <2>2 DEF TransferT
  <2> QED
    BY <2>2, <2>3, <2>4, <2>5 DEF TransferT
<1>3. ASSUME NEW s \in Streams, OpenStream(s) \/ RefuseChunk(s) \/ BreakStream(s) PROVE TransferT'
  BY <1>3 DEF TransferT, OpenStream, RefuseChunk, BreakStream
<1>4. CASE Crash
  <2>1. session' = [i \in Index |-> << >>] /\ UNCHANGED <<offset, data>>
    BY <1>4 DEF Crash
  <2>2. stream' \in [Streams -> {"new", "open", "closed"}]
    BY <1>4 DEF TransferT, Crash
  <2>3. session' \in [Index -> Seq(Streams)] /\ \A j \in Index : Len(session'[j]) < Chunks
    BY <2>1, Constants
  <2> QED
    BY <2>1, <2>2, <2>3 DEF TransferT
<1>5. \/ \E s \in Streams : OpenStream(s) \/ ReceiveChunk(s) \/ ReceiveLast(s) \/ RefuseChunk(s) \/ BreakStream(s)
      \/ Crash
      \/ UNCHANGED transfer
  BY DEF Next, Create, Transfer, LocalCreate, OpenTmp, WriteTmp, Rename, PersistMetadata, GlobMetadata,
         ListMetadata, ListMetadataFails, RemoveFile, Return, Fail, vars
<1>6. CASE UNCHANGED transfer
  BY <1>6 DEF TransferT, transfer
<1> QED
  BY <1>1, <1>2, <1>3, <1>4, <1>5, <1>6

\* The Creates keep their type and their target.
LEMMA CreatesPreserved ==
  ASSUME FilesT, CreateT, TargetInv, [Next]_vars
  PROVE  CreateT' /\ TargetInv'
<1>1. ASSUME NEW w \in Writers, NEW i \in Index, begin(w, i) PROVE CreateT' /\ TargetInv'
  <2>1. i # 0 /\ "open" \in Steps
    BY Indexes DEF Steps
  <2> QED
    BY <1>1, <2>1 DEF CreateT, TargetInv, begin
<1>2. ASSUME NEW w \in Writers, NEW next \in Steps, goto(w, next), UNCHANGED <<target, names, doomed>>,
             next \in {"write", "rename", "meta"} => step[w] \in {"open", "write", "rename", "meta"},
             next # "open"
      PROVE  CreateT' /\ TargetInv'
  BY <1>2 DEF CreateT, TargetInv, goto
<1>3. ASSUME NEW w \in Writers, NEW next \in {"idle", "glob"}, goto(w, next),
             target' = [target EXCEPT ![w] = 0], UNCHANGED <<names, doomed>>
      PROVE  CreateT' /\ TargetInv'
  BY <1>3 DEF CreateT, TargetInv, goto, Steps
<1>4. ASSUME NEW i \in Index, LocalCreate(i) PROVE CreateT' /\ TargetInv'
  BY <1>1, <1>4 DEF LocalCreate, Writers
<1>5. ASSUME NEW s \in Streams, ReceiveLast(s) PROVE CreateT' /\ TargetInv'
  BY <1>1, <1>5, Constants DEF ReceiveLast, Writers
<1>6. ASSUME NEW w \in Writers, OpenTmp(w) PROVE CreateT' /\ TargetInv'
  BY <1>2, <1>6 DEF OpenTmp, Steps
<1>7. ASSUME NEW w \in Writers, WriteTmp(w) PROVE CreateT' /\ TargetInv'
  BY <1>2, <1>7 DEF WriteTmp, Steps
<1>8. ASSUME NEW w \in Writers, Rename(w) PROVE CreateT' /\ TargetInv'
  BY <1>2, <1>3, <1>8 DEF Rename, Steps
<1>9. ASSUME NEW w \in Writers, PersistMetadata(w) PROVE CreateT' /\ TargetInv'
  BY <1>2, <1>9 DEF PersistMetadata, Steps
<1>10. ASSUME NEW w \in Writers, GlobMetadata(w) PROVE CreateT' /\ TargetInv'
  BY <1>10 DEF GlobMetadata, goto, CreateT, TargetInv, FilesT, Steps
<1>11. ASSUME NEW w \in Writers, ListMetadata(w) PROVE CreateT' /\ TargetInv'
  <2>1. surplus(w) \subseteq Index
    BY DEF surplus, CreateT
  <2>2. /\ step' = [step EXCEPT ![w] = "remove"] /\ names' = [names EXCEPT ![w] = {}] /\ target' = target
        /\ doomed' = [doomed EXCEPT ![w] = {"snap", "meta"} \X surplus(w)]
    BY <1>11 DEF ListMetadata, goto
  <2>3. {"snap", "meta"} \X surplus(w) \in SUBSET ({"snap", "meta"} \X Index)
    BY <2>1
  <2>4. doomed' \in [Writers -> SUBSET ({"snap", "meta"} \X Index)]
    BY <2>2, <2>3 DEF CreateT
  <2> QED
    BY <2>2, <2>4 DEF CreateT, TargetInv, Steps
<1>12. ASSUME NEW w \in Writers, ListMetadataFails(w) PROVE CreateT' /\ TargetInv'
  BY <1>12 DEF ListMetadataFails, goto, CreateT, TargetInv, Steps
<1>13. ASSUME NEW w \in Writers, RemoveFile(w) PROVE CreateT' /\ TargetInv'
  <2>1. doomed' = [doomed EXCEPT ![w] = @ \ {nextFile(w)}] /\ UNCHANGED <<step, target, names>>
    BY <1>13 DEF RemoveFile
  <2> QED
    BY <2>1 DEF CreateT, TargetInv
<1>14. ASSUME NEW w \in Writers, Return(w) \/ Fail(w) PROVE CreateT' /\ TargetInv'
  BY <1>3, <1>14 DEF Return, Fail
<1>15. CASE Crash
  BY <1>15 DEF Crash, CreateT, TargetInv, Steps
<1>16. CASE UNCHANGED create
  BY <1>16 DEF create, CreateT, TargetInv
<1>17. ASSUME NEW s \in Streams, OpenStream(s) \/ ReceiveChunk(s) \/ RefuseChunk(s) \/ BreakStream(s)
       PROVE  UNCHANGED create
  BY <1>17 DEF OpenStream, ReceiveChunk, RefuseChunk, BreakStream
<1> QED
  BY <1>4, <1>5, <1>6, <1>7, <1>8, <1>9, <1>10, <1>11, <1>12, <1>13, <1>14, <1>15, <1>16, <1>17
  DEF Next, Create, Transfer, vars

\* The index of the memory storage and the count of faults keep their type.
LEMMA ScalarsPreserved ==
  ASSUME TypeOK, [Next]_vars
  PROVE  latest' \in Index \cup {0} /\ faults' \in 0 .. MaxFaults
<1>1. ASSUME NEW w \in Writers, Return(w) PROVE latest' \in Index \cup {0} /\ faults' = faults
  <2>1. latest' = Max({latest, target[w]}) /\ faults' = faults
    BY <1>1 DEF Return
  <2> DEFINE S == {latest, target[w]}
  <2>2. S \in SUBSET (Index \cup {0}) /\ S # {}
    BY DEF TypeOK, CreateT
  <2>3. S \in SUBSET Nat /\ \A i \in S : i <= MaxIndex
    BY <2>2, Constants DEF Index
  <2>4. Max(S) \in S
    BY <2>2, <2>3, Constants, MaxProperties
  <2> QED
    BY <2>1, <2>2, <2>4
<1>2. CASE Crash
  <2>1. latest' = (IF metas = {} THEN 0 ELSE Max(metas)) /\ faults' = faults + 1 /\ faults < MaxFaults
    BY <1>2 DEF Crash
  <2>2. metas # {} => Max(metas) \in metas
    BY Indexes, Constants, MaxProperties DEF TypeOK, FilesT
  <2>3. latest' \in Index \cup {0}
    BY <2>1, <2>2 DEF TypeOK, FilesT
  <2> QED
    BY <2>1, <2>3, Constants DEF TypeOK
<1>3. ASSUME NEW w \in Writers, Fail(w) PROVE latest' = latest /\ faults' \in 0 .. MaxFaults
  BY <1>3, Constants DEF Fail, TypeOK
<1>4. ASSUME NEW i \in Index, LocalCreate(i) PROVE latest' = i /\ faults' = faults
  BY <1>4 DEF LocalCreate
<1>5. \/ \E w \in Writers : Return(w) \/ Fail(w)
      \/ \E i \in Index : LocalCreate(i)
      \/ Crash
      \/ UNCHANGED <<latest, faults>>
  BY DEF Next, Create, Transfer, OpenTmp, WriteTmp, Rename, PersistMetadata, GlobMetadata, ListMetadata,
         ListMetadataFails, RemoveFile, OpenStream, ReceiveChunk, ReceiveLast, RefuseChunk, BreakStream,
         vars
<1> QED
  BY <1>1, <1>2, <1>3, <1>4, <1>5 DEF TypeOK

-----------------------------------------------------------------------------
(* Cleanup. *)

\* Only old snapshots are doomed.
LEMMA DoomPreserved ==
  ASSUME FilesT, CreateT, TargetInv, DoomInv, [Next]_vars
  PROVE  DoomInv'
<1>1. ASSUME NEW w \in Writers, ListMetadata(w), NEW i \in surplus(w) PROVE i \in Index /\ Old(i)
  <2> DEFINE S == {j \in names[w] : j > i}
  <2>1. names[w] \subseteq metas /\ metas \subseteq Index
    BY <1>1 DEF ListMetadata, FilesT
  <2>2. i \in names[w] /\ Cardinality(S) >= Keep
    BY <1>1 DEF surplus
  <2>3. S \in SUBSET newer(i)
    BY <2>1 DEF newer
  <2> HIDE DEF S
  <2> QED
    BY <2>1, <2>2, <2>3, OldIfMany
<1>2. ASSUME NEW w \in Writers, ListMetadata(w), NEW v \in Writers, NEW f \in doomed'[v]
      PROVE  Old(f[2]) /\ f[2] \in Index
  <2>1. CASE v = w
    <3>1. f \in {"snap", "meta"} \X surplus(w)
      BY <1>2, <2>1 DEF ListMetadata, CreateT
    <3>2. f[2] \in surplus(w)
      BY <3>1
    <3> QED
      BY <1>1, <1>2, <3>2
  <2>2. CASE v # w
    <3>1. f \in doomed[v]
      BY <1>2, <2>2 DEF ListMetadata, CreateT
    <3>2. f \in {"snap", "meta"} \X Index
      BY <3>1 DEF CreateT
    <3> QED
      BY <3>1, <3>2 DEF DoomInv
  <2> QED
    BY <2>1, <2>2
<1>3. ASSUME \A v \in Writers : doomed'[v] \subseteq doomed[v], NEW v \in Writers, NEW f \in doomed'[v]
      PROVE  Old(f[2]) /\ f[2] \in Index
  <2>1. f \in doomed[v]
    BY <1>3
  <2>2. f \in {"snap", "meta"} \X Index
    BY <2>1 DEF CreateT
  <2> QED
    BY <2>1, <2>2 DEF DoomInv
<1>4. ASSUME NEW w \in Writers, RemoveFile(w) PROVE \A v \in Writers : doomed'[v] \subseteq doomed[v]
  <2>1. doomed' = [doomed EXCEPT ![w] = @ \ {nextFile(w)}]
    BY <1>4 DEF RemoveFile
  <2> QED
    BY <2>1 DEF CreateT
<1>5. CASE Crash
  BY <1>5 DEF Crash, DoomInv
<1>6. \/ \E w \in Writers : ListMetadata(w) \/ RemoveFile(w)
      \/ Crash
      \/ doomed' = doomed
  BY DEF Next, Create, Transfer, LocalCreate, begin, OpenTmp, WriteTmp, Rename, PersistMetadata,
         GlobMetadata, ListMetadataFails, Return, Fail, OpenStream, ReceiveChunk, ReceiveLast,
         RefuseChunk, BreakStream, vars, create
<1>7. CASE ~ Crash
  <2> SUFFICES ASSUME NEW v \in Writers, NEW f \in doomed'[v] PROVE Old(f[2])'
    BY DEF DoomInv
  <2>1. Old(f[2]) /\ f[2] \in Index
    BY <1>2, <1>3, <1>4, <1>6, <1>7
  <2> QED
    BY <2>1, OldForever
<1> QED
  BY <1>5, <1>7

\* The newest .meta stays, whatever a step does.
LEMMA LatestStep ==
  ASSUME FilesT, CreateT, TargetInv, DoomInv, [Next]_vars, metas # {}
  PROVE  metas' # {} /\ Max(metas') >= Max(metas)
<1>1. metas \in SUBSET Index /\ metas' \in SUBSET Index
  BY DirectoryStep DEF FilesT
<1>2. Max(metas) \in metas /\ \A j \in metas : j <= Max(metas)
  BY <1>1, Indexes, Constants, MaxProperties
<1>3. Max(metas) \in metas'
  <2>1. ASSUME NEW k \in Index, Old(k), metas' = metas \ {k} PROVE k # Max(metas)
    <3>1. PICK j \in metas : j > k
      BY <1>1, <2>1, OldHasNewer
    <3>2. k \in Nat /\ j \in Nat /\ Max(metas) \in Nat
      BY <1>1, <1>2, Indexes
    <3> QED
      BY <1>2, <3>1, <3>2
  <2> QED
    BY <1>2, <2>1, DirectoryStep
<1>4. \A j \in metas' : j <= Max(metas')
  BY <1>1, <1>3, Indexes, Constants, MaxProperties
<1>5. Max(metas') \in metas'
  BY <1>1, <1>3, Indexes, Constants, MaxProperties
<1> QED
  BY <1>1, <1>2, <1>3, <1>4, <1>5, Indexes

-----------------------------------------------------------------------------
(* The transfers. *)

\* A stream whose chunk continues the session has sent all of the session.
LEMMA SessionOwned ==
  ASSUME TransferT, SessionInv, NEW s \in Streams, stream[s] = "open", continues(s)
  PROVE  session[SnapOf[s]] = [k \in 1 .. offset[s] |-> s]
<1>1. SnapOf[s] \in Index /\ session[SnapOf[s]] \in Seq(Streams) /\ offset[s] \in Nat
  BY Constants DEF TransferT
<1>2. CASE offset[s] > 0
  BY <1>2 DEF SessionInv
<1>3. CASE offset[s] = 0
  <2>1. Len(session[SnapOf[s]]) = 0
    BY <1>3 DEF continues
  <2>2. session[SnapOf[s]] = << >>
    BY <1>1, <2>1
  <2> QED
    BY <1>3, <2>2
<1> QED
  BY <1>1, <1>2, <1>3

\* ... and nobody else has sent any of it.
LEMMA SessionExclusive ==
  ASSUME TransferT, SessionInv, NEW s \in Streams, stream[s] = "open", continues(s),
         NEW t \in Streams, stream[t] = "open", offset[t] > 0, SnapOf[t] = SnapOf[s]
  PROVE  t = s
<1>1. offset[s] \in Nat /\ offset[t] \in Nat
  BY DEF TransferT
<1>2. [k \in 1 .. offset[s] |-> s] = [k \in 1 .. offset[t] |-> t]
  BY SessionOwned DEF SessionInv
<1>3. 1 \in 1 .. offset[t]
  BY <1>1
<1>4. 1 \in DOMAIN [k \in 1 .. offset[s] |-> s]
  BY <1>2, <1>3
<1>5. [k \in 1 .. offset[s] |-> s][1] = s
  BY <1>4
<1>6. [k \in 1 .. offset[t] |-> t][1] = t
  BY <1>3
<1> QED
  BY <1>2, <1>5, <1>6

\* One more chunk of the same stream.
LEMMA OneMoreChunk ==
  ASSUME NEW s, NEW n \in Nat
  PROVE  Append([k \in 1 .. n |-> s], s) = [k \in 1 .. n + 1 |-> s]
<1> DEFINE q == [k \in 1 .. n |-> s]
           r == [k \in 1 .. n + 1 |-> s]
<1>1. q \in Seq({s}) /\ Len(q) = n
  OBVIOUS
<1>2. r \in Seq({s}) /\ Len(r) = n + 1
  OBVIOUS
<1>3. \A k \in 1 .. n + 1 : r[k] = s
  OBVIOUS
<1>4. \A k \in 1 .. n : q[k] = s
  OBVIOUS
<1> HIDE DEF q, r
<1>5. Append(q, s) \in Seq({s}) /\ Len(Append(q, s)) = n + 1
  BY <1>1
<1>6. ASSUME NEW k \in 1 .. n + 1 PROVE Append(q, s)[k] = s
  BY <1>1, <1>4
<1>7. Append(q, s) = r
  BY <1>2, <1>3, <1>5, <1>6
<1> QED
  BY <1>7 DEF q, r

\* Every step keeps the sessions in the hands of one stream each, and hands on
\* whole snapshots only.
LEMMA SessionsPreserved ==
  ASSUME TransferT, SessionInv, AssembledWhole, [Next]_vars
  PROVE  SessionInv' /\ AssembledWhole'
<1>1. ASSUME NEW s \in Streams, ReceiveChunk(s) PROVE SessionInv' /\ AssembledWhole'
  <2> DEFINE i == SnapOf[s]
  <2>1. i \in Index /\ offset[s] \in Nat
    BY Constants DEF TransferT
  <2>2. /\ stream[s] = "open" /\ continues(s)
        /\ session' = [session EXCEPT ![i] = Append(@, s)] /\ offset' = [offset EXCEPT ![s] = @ + 1]
        /\ UNCHANGED <<stream, data>>
    BY <1>1 DEF ReceiveChunk
  <2>3. session[i] = [k \in 1 .. offset[s] |-> s]
    BY <2>2, SessionOwned
  <2>4. session'[i] = [k \in 1 .. offset[s] + 1 |-> s]
    BY <2>1, <2>2, <2>3, OneMoreChunk DEF TransferT
  <2>5. ASSUME NEW t \in Streams, stream[t] = "open", offset'[t] > 0, t # s
        PROVE  session'[SnapOf[t]] = [k \in 1 .. offset'[t] |-> t]
    <3>1. offset'[t] = offset[t]
      BY <2>2, <2>5 DEF TransferT
    <3>2. SnapOf[t] # i
      BY <2>2, <2>5, <3>1, SessionExclusive
    <3>3. SnapOf[t] \in Index
      BY Constants
    <3>4. session'[SnapOf[t]] = session[SnapOf[t]]
      BY <2>2, <3>2, <3>3 DEF TransferT
    <3> QED
      BY <2>5, <3>1, <3>4 DEF SessionInv
  <2>6. offset'[s] = offset[s] + 1 /\ \A t \in Streams : t # s => offset'[t] = offset[t]
    BY <2>2 DEF TransferT
  <2>7. \A t \in Streams : stream[t] = "new" => offset'[t] = 0
    BY <2>2, <2>6 DEF SessionInv
  <2>8. \A t \in Streams : stream[t] = "open" /\ offset'[t] > 0 =>
          session'[SnapOf[t]] = [k \in 1 .. offset'[t] |-> t]
    <3>1. session'[SnapOf[s]] = [k \in 1 .. offset'[s] |-> s]
      BY <2>4, <2>6
    <3> QED
      BY <2>5, <3>1
  <2>9. SessionInv'
    BY <2>2, <2>7, <2>8 DEF SessionInv
  <2> QED
    BY <2>2, <2>9 DEF AssembledWhole
<1>2. ASSUME NEW s \in Streams, ReceiveLast(s) PROVE SessionInv' /\ AssembledWhole'
  <2> DEFINE i == SnapOf[s]
  <2>1. i \in Index /\ offset[s] \in Nat
    BY Constants DEF TransferT
  <2>2. /\ stream[s] = "open" /\ continues(s) /\ offset[s] + 1 = Chunks
        /\ session' = [session EXCEPT ![i] = << >>] /\ data' = [data EXCEPT ![s] = Append(session[i], s)]
        /\ stream' = [stream EXCEPT ![s] = "closed"] /\ offset' = offset
    BY <1>2 DEF ReceiveLast
  <2>3. session[i] = [k \in 1 .. offset[s] |-> s]
    BY <2>2, SessionOwned
  <2>4. Append(session[i], s) = [k \in 1 .. Chunks |-> s]
    BY <2>1, <2>2, <2>3, OneMoreChunk
  <2>5. AssembledWhole'
    BY <2>2, <2>4 DEF AssembledWhole, TransferT
  <2>6. ASSUME NEW t \in Streams, stream'[t] = "open", offset[t] > 0
        PROVE  session'[SnapOf[t]] = [k \in 1 .. offset[t] |-> t]
    <3>1. t # s /\ stream[t] = "open"
      BY <2>2, <2>6 DEF TransferT
    <3>2. SnapOf[t] # i
      BY <2>2, <2>6, <3>1, SessionExclusive
    <3>3. SnapOf[t] \in Index
      BY Constants
    <3>4. session'[SnapOf[t]] = session[SnapOf[t]]
      BY <2>2, <3>2, <3>3 DEF TransferT
    <3> QED
      BY <2>6, <3>1, <3>4 DEF SessionInv
  <2>7. \A t \in Streams : stream'[t] = "new" => stream[t] = "new"
    BY <2>2 DEF TransferT
  <2>8. SessionInv'
    BY <2>2, <2>6, <2>7 DEF SessionInv
  <2> QED
    BY <2>5, <2>8
<1>3. ASSUME NEW s \in Streams, OpenStream(s) PROVE SessionInv' /\ AssembledWhole'
  <2>1. /\ stream[s] = "new" /\ stream' = [stream EXCEPT ![s] = "open"] /\ UNCHANGED <<session, offset, data>>
    BY <1>3 DEF OpenStream
  <2>2. offset[s] = 0
    BY <2>1 DEF SessionInv
  <2> QED
    BY <2>1, <2>2 DEF SessionInv, AssembledWhole, TransferT
<1>4. ASSUME NEW s \in Streams, RefuseChunk(s) \/ BreakStream(s) PROVE SessionInv' /\ AssembledWhole'
  <2>1. stream' = [stream EXCEPT ![s] = "closed"] /\ UNCHANGED <<session, offset, data>>
    BY <1>4 DEF RefuseChunk, BreakStream
  <2> QED
    BY <2>1 DEF SessionInv, AssembledWhole, TransferT
<1>5. CASE Crash
  <2>1. /\ stream' = [s \in Streams |-> IF stream[s] = "open" THEN "closed" ELSE stream[s]]
        /\ UNCHANGED <<offset, data>>
    BY <1>5 DEF Crash
  <2>2. \A s \in Streams : stream'[s] # "open" /\ (stream'[s] = "new" => stream[s] = "new")
    BY <2>1
  <2> QED
    BY <2>1, <2>2 DEF SessionInv, AssembledWhole
<1>6. CASE UNCHANGED transfer
  BY <1>6 DEF SessionInv, AssembledWhole, transfer
<1>7. \/ \E s \in Streams : OpenStream(s) \/ ReceiveChunk(s) \/ ReceiveLast(s) \/ RefuseChunk(s) \/ BreakStream(s)
      \/ Crash
      \/ UNCHANGED transfer
  BY DEF Next, Create, Transfer, LocalCreate, OpenTmp, WriteTmp, Rename, PersistMetadata, GlobMetadata,
         ListMetadata, ListMetadataFails, RemoveFile, Return, Fail, vars
<1> QED
  BY <1>1, <1>2, <1>3, <1>4, <1>5, <1>6, <1>7

-----------------------------------------------------------------------------
(* The data of the snapshots. *)

\* Creates of one snapshot still do not overlap.
LEMMA ExclusivePreserved ==
  ASSUME Exclusive, CreateT, TargetInv, ExclusiveInv, [Next]_vars
  PROVE  ExclusiveInv'
\* A step that starts no Create and opens no file lets nobody in.
<1>1. ASSUME \A v \in Writers :
               target'[v] # 0 /\ step'[v] \in Writing => target'[v] = target[v] /\ step[v] \in Writing
      PROVE  ExclusiveInv'
  BY <1>1 DEF ExclusiveInv
<1>2. ASSUME NEW w \in Writers, NEW i, begin(w, i)
      PROVE  \A v \in Writers :
               target'[v] # 0 /\ step'[v] \in Writing => target'[v] = target[v] /\ step[v] \in Writing
  BY <1>2 DEF begin, CreateT, Writing
<1>3. ASSUME NEW w \in Writers, NEW next, goto(w, next), next \in Writing => step[w] \in Writing,
             target' = target \/ target' = [target EXCEPT ![w] = 0]
      PROVE  \A v \in Writers :
               target'[v] # 0 /\ step'[v] \in Writing => target'[v] = target[v] /\ step[v] \in Writing
  BY <1>3 DEF goto, CreateT
<1>4. ASSUME NEW w \in Writers, OpenTmp(w) PROVE ExclusiveInv'
  <2>1. /\ \A v \in Writers : target[v] = target[w] => step[v] \in {"idle", "open"}
        /\ step' = [step EXCEPT ![w] = "write"] /\ target' = target
    BY <1>4 DEF OpenTmp, goto
  <2>2. \A v \in Writers : v # w => step'[v] = step[v]
    BY <2>1 DEF CreateT
  <2>3. \A v \in Writers : target[v] = target[w] /\ v # w => step'[v] \notin Writing
    BY <2>1, <2>2 DEF Writing
  <2> SUFFICES ASSUME NEW v \in Writers, NEW u \in Writers, target[v] = target[u], target[v] # 0,
                      step'[v] \in Writing, step'[u] \in Writing
               PROVE  v = u
    BY <2>1 DEF ExclusiveInv
  <2>4. CASE v = w \/ u = w
    BY <2>3, <2>4
  <2>5. CASE v # w /\ u # w
    BY <2>2, <2>5 DEF ExclusiveInv
  <2> QED
    BY <2>4, <2>5
<1>5. ASSUME NEW i \in Index, LocalCreate(i) PROVE ExclusiveInv'
  BY <1>1, <1>2, <1>5 DEF LocalCreate, Writers
<1>6. ASSUME NEW s \in Streams, ReceiveLast(s) PROVE ExclusiveInv'
  BY <1>1, <1>2, <1>6 DEF ReceiveLast, Writers
<1>7. ASSUME NEW w \in Writers, WriteTmp(w) \/ Rename(w) \/ PersistMetadata(w) PROVE ExclusiveInv'
  BY <1>1, <1>3, <1>7 DEF WriteTmp, Rename, PersistMetadata, Writing
<1>8. ASSUME NEW w \in Writers, GlobMetadata(w) \/ ListMetadata(w) \/ ListMetadataFails(w) PROVE ExclusiveInv'
  BY <1>1, <1>3, <1>8 DEF GlobMetadata, ListMetadata, ListMetadataFails, Writing
<1>9. ASSUME NEW w \in Writers, Return(w) \/ Fail(w) PROVE ExclusiveInv'
  BY <1>1, <1>3, <1>9 DEF Return, Fail, Writing
<1>10. CASE Crash
  BY <1>10 DEF Crash, ExclusiveInv
<1>11. CASE UNCHANGED <<step, target>>
  BY <1>11 DEF ExclusiveInv
<1>12. ASSUME NEW s \in Streams, OpenStream(s) \/ ReceiveChunk(s) \/ RefuseChunk(s) \/ BreakStream(s)
       PROVE  UNCHANGED <<step, target>>
  BY <1>12 DEF OpenStream, ReceiveChunk, RefuseChunk, BreakStream, create
<1>13. ASSUME NEW w \in Writers, RemoveFile(w) PROVE UNCHANGED <<step, target>>
  BY <1>13 DEF RemoveFile
<1> QED
  BY <1>4, <1>5, <1>6, <1>7, <1>8, <1>9, <1>10, <1>11, <1>12, <1>13 DEF Next, Create, Transfer, vars, create

\* The files of the Creates under way, and of the snapshots that are kept.
LEMMA DataPreserved ==
  ASSUME Exclusive, FilesT, CreateT, TargetInv, DoomInv, ExclusiveInv, FileInv, RetainedWhole, [Next]_vars
  PROVE  FileInv' /\ RetainedWhole'
<1> DEFINE Whole == \A i \in metas : Old(i) \/ snaps[i] = "whole"
<1>a. metas \subseteq Index /\ metas' \subseteq Index
  BY DirectoryStep DEF FilesT
<1>b. Whole
  <2> SUFFICES ASSUME NEW i \in metas PROVE Old(i) \/ snaps[i] = "whole"
    OBVIOUS
  <2>1. newer(i) \in SUBSET Index
    BY <1>a DEF newer
  <2>2. Cardinality(newer(i)) \in Nat
    BY <2>1, Indexes
  <2>3. Cardinality(newer(i)) < Keep => snaps[i] = "whole"
    BY DEF RetainedWhole, newer
  <2> QED
    BY <2>2, <2>3, Constants DEF Old
<1>c. Whole' => RetainedWhole'
  <2> SUFFICES ASSUME Whole', NEW i \in metas', ~ (snaps'[i] = "whole") PROVE ~ (Cardinality(newer(i)') < Keep)
    BY DEF RetainedWhole, newer
  <2>1. newer(i)' \in SUBSET Index
    BY <1>a DEF newer
  <2>2. Cardinality(newer(i)') \in Nat
    BY <2>1, Indexes
  <2> QED
    BY <2>2, Constants DEF Old
<1> HIDE DEF Whole
<1>d. \A i \in Index : Old(i) => Old(i)'
  BY OldForever
<1>e. \A v \in Writers : step[v] \in {"open", "write", "rename", "meta"} => target[v] \in Index
  BY DEF CreateT, TargetInv
\* A step that touches no data, adds no .meta and moves no Create on.
<1>1. ASSUME UNCHANGED <<tmp, snaps>>, metas' \subseteq metas,
             \A v \in Writers : step'[v] \in {"write", "rename", "meta"} =>
                                  step'[v] = step[v] /\ target'[v] = target[v]
      PROVE  FileInv' /\ Whole'
  <2>1. Whole'
    BY <1>1, <1>a, <1>b, <1>d DEF Whole
  <2>2. FileInv'
    BY <1>1, <1>d, <1>e DEF FileInv
  <2> QED
    BY <2>1, <2>2
<1>2. ASSUME NEW w \in Writers, OpenTmp(w) PROVE FileInv' /\ Whole'
  <2>1. /\ \A v \in Writers : target[v] = target[w] => step[v] \in {"idle", "open"}
        /\ step' = [step EXCEPT ![w] = "write"] /\ tmp' = [tmp EXCEPT ![target[w]] = "partial"]
        /\ step[w] = "open" /\ UNCHANGED <<snaps, metas, target>>
    BY <1>2 DEF OpenTmp, goto
  <2>2. step'[w] = "write" /\ tmp'[target[w]] = "partial"
    BY <2>1, <1>e DEF CreateT, FilesT
  <2>3. ASSUME NEW v \in Writers, v # w, step'[v] \in {"write", "rename", "meta"}
        PROVE  /\ step'[v] = step[v] /\ tmp'[target[v]] = tmp[target[v]]
               /\ Old(target[v]) => Old(target[v])'
    <3>1. step'[v] = step[v]
      BY <2>1, <2>3 DEF CreateT
    <3>2. target[v] \in Index /\ target[v] # target[w]
      BY <1>e, <2>1, <2>3, <3>1
    <3> QED
      BY <1>d, <2>1, <3>1, <3>2 DEF FilesT
  <2>4. FileInv'
    <3> SUFFICES ASSUME NEW v \in Writers
                 PROVE  /\ step'[v] = "write" => tmp'[target[v]] # "missing"
                        /\ step'[v] = "rename" => tmp'[target[v]] = "whole"
                        /\ step'[v] = "meta" => snaps[target[v]] = "whole" \/ Old(target[v])'
      BY <2>1 DEF FileInv
    <3>1. CASE v = w
      BY <2>2, <3>1
    <3>2. CASE v # w
      BY <2>3, <3>2 DEF FileInv
    <3> QED
      BY <3>1, <3>2
  <2>5. Whole'
    BY <1>a, <1>b, <1>d, <2>1 DEF Whole
  <2> QED
    BY <2>4, <2>5
<1>3. ASSUME NEW w \in Writers, WriteTmp(w) PROVE FileInv' /\ Whole'
  <2>1. step[w] = "write" /\ tmp[target[w]] # "missing" /\ target[w] \in Index
    BY <1>3, <1>e DEF WriteTmp, FileInv
  <2>2. /\ step' = [step EXCEPT ![w] = "rename"] /\ tmp' = [tmp EXCEPT ![target[w]] = "whole"]
        /\ UNCHANGED <<snaps, metas, target>>
    BY <1>3, <2>1 DEF WriteTmp, goto
  <2>3. step'[w] = "rename" /\ tmp'[target[w]] = "whole"
    BY <2>1, <2>2 DEF CreateT, FilesT
  <2>4. ASSUME NEW v \in Writers, v # w, step'[v] \in {"write", "rename", "meta"}
        PROVE  /\ step'[v] = step[v] /\ tmp'[target[v]] \in {tmp[target[v]], "whole"}
               /\ Old(target[v]) => Old(target[v])'
    <3>1. step'[v] = step[v]
      BY <2>2, <2>4 DEF CreateT
    <3>2. target[v] \in Index
      BY <1>e, <2>4, <3>1
    <3> QED
      BY <1>d, <2>2, <3>1, <3>2 DEF FilesT
  <2>5. FileInv'
    <3> SUFFICES ASSUME NEW v \in Writers
                 PROVE  /\ step'[v] = "write" => tmp'[target[v]] # "missing"
                        /\ step'[v] = "rename" => tmp'[target[v]] = "whole"
                        /\ step'[v] = "meta" => snaps[target[v]] = "whole" \/ Old(target[v])'
      BY <2>2 DEF FileInv
    <3>1. CASE v = w
      BY <2>3, <3>1
    <3>2. CASE v # w
      BY <2>4, <3>2 DEF FileInv
    <3> QED
      BY <3>1, <3>2
  <2>6. Whole'
    BY <1>a, <1>b, <1>d, <2>2 DEF Whole
  <2> QED
    BY <2>5, <2>6
<1>4. ASSUME NEW w \in Writers, Rename(w) PROVE FileInv' /\ Whole'
  <2>1. step[w] = "rename" /\ tmp[target[w]] = "whole" /\ target[w] \in Index /\ target[w] # 0
    BY <1>4, <1>e DEF Rename, FileInv, TargetInv
  <2>2. /\ step' = [step EXCEPT ![w] = "meta"] /\ tmp' = [tmp EXCEPT ![target[w]] = "missing"]
        /\ snaps' = [snaps EXCEPT ![target[w]] = "whole"] /\ UNCHANGED <<metas, target>>
    BY <1>4, <2>1 DEF Rename, goto
  <2>3. step'[w] = "meta" /\ snaps'[target[w]] = "whole"
    BY <2>1, <2>2 DEF CreateT, FilesT
  <2>4. ASSUME NEW v \in Writers, v # w, step'[v] \in {"write", "rename", "meta"}
        PROVE  /\ step'[v] = step[v] /\ tmp'[target[v]] = tmp[target[v]]
               /\ snaps'[target[v]] = snaps[target[v]]
               /\ Old(target[v]) => Old(target[v])'
    <3>1. step'[v] = step[v]
      BY <2>2, <2>4 DEF CreateT
    <3>2. target[v] \in Index /\ target[v] # target[w]
      BY <1>e, <2>1, <2>4, <3>1 DEF ExclusiveInv, Writing
    <3> QED
      BY <1>d, <2>2, <3>1, <3>2 DEF FilesT
  <2>5. FileInv'
    <3> SUFFICES ASSUME NEW v \in Writers
                 PROVE  /\ step'[v] = "write" => tmp'[target[v]] # "missing"
                        /\ step'[v] = "rename" => tmp'[target[v]] = "whole"
                        /\ step'[v] = "meta" => snaps'[target[v]] = "whole" \/ Old(target[v])'
      BY <2>2 DEF FileInv
    <3>1. CASE v = w
      BY <2>3, <3>1
    <3>2. CASE v # w
      BY <2>4, <3>2 DEF FileInv
    <3> QED
      BY <3>1, <3>2
  <2>6. \A i \in Index : snaps'[i] \in {snaps[i], "whole"}
    BY <2>2 DEF FilesT
  <2>7. Whole'
    BY <1>a, <1>b, <1>d, <2>2, <2>6 DEF Whole
  <2> QED
    BY <2>5, <2>7
<1>5. ASSUME NEW w \in Writers, PersistMetadata(w) PROVE FileInv' /\ Whole'
  <2>1. step[w] = "meta" /\ target[w] \in Index /\ (snaps[target[w]] = "whole" \/ Old(target[w]))
    BY <1>5, <1>e DEF PersistMetadata, FileInv
  <2>2. /\ step' = [step EXCEPT ![w] = "glob"] /\ metas' = metas \cup {target[w]}
        /\ UNCHANGED <<tmp, snaps, target>>
    BY <1>5 DEF PersistMetadata, goto
  <2>3. \A v \in Writers : step'[v] \in {"write", "rename", "meta"} => step'[v] = step[v]
    BY <2>2 DEF CreateT
  <2>4. FileInv'
    BY <1>d, <1>e, <2>2, <2>3 DEF FileInv
  <2>5. Whole'
    BY <1>a, <1>b, <1>d, <2>1, <2>2 DEF Whole
  <2> QED
    BY <2>4, <2>5
<1>6. ASSUME NEW w \in Writers, RemoveFile(w) PROVE FileInv' /\ Whole'
  <2>1. PICK k \in Index : k = nextFile(w)[2] /\ Old(k)
    <3>1. nextFile(w) \in doomed[w] /\ nextFile(w)[2] \in Index
      BY <1>6, NextFileDoomed DEF RemoveFile
    <3> QED
      BY <3>1 DEF DoomInv
  <2>2. UNCHANGED <<tmp, step, target>>
    BY <1>6 DEF RemoveFile
  <2>3. CASE snaps' = [snaps EXCEPT ![k] = "missing"] /\ metas' = metas
    <3>1. \A i \in Index : snaps'[i] = snaps[i] \/ Old(i)'
      BY <1>d, <2>1, <2>3 DEF FilesT
    <3>2. Whole'
      BY <1>a, <1>b, <1>d, <2>3, <3>1 DEF Whole
    <3>3. FileInv'
      BY <1>d, <1>e, <2>2, <3>1 DEF FileInv
    <3> QED
      BY <3>2, <3>3
  <2>4. CASE snaps' = snaps /\ metas' = metas \ {k}
    BY <1>1, <2>2, <2>4
  <2> QED
    BY <1>6, <2>1, <2>3, <2>4 DEF RemoveFile
<1>7. ASSUME NEW i \in Index, LocalCreate(i) PROVE FileInv' /\ Whole'
  BY <1>1, <1>7 DEF LocalCreate, begin, files, CreateT, Writers
<1>8. ASSUME NEW s \in Streams, ReceiveLast(s) PROVE FileInv' /\ Whole'
  BY <1>1, <1>8 DEF ReceiveLast, begin, files, CreateT, Writers
<1>9. ASSUME NEW w \in Writers, GlobMetadata(w) \/ ListMetadata(w) \/ ListMetadataFails(w)
      PROVE  FileInv' /\ Whole'
  BY <1>1, <1>9 DEF GlobMetadata, ListMetadata, ListMetadataFails, goto, files, CreateT
<1>10. ASSUME NEW w \in Writers, Return(w) \/ Fail(w) PROVE FileInv' /\ Whole'
  BY <1>1, <1>10 DEF Return, Fail, goto, files, CreateT
<1>11. ASSUME Crash PROVE FileInv' /\ Whole'
  BY <1>1, <1>11 DEF Crash, files
<1>12. ASSUME UNCHANGED <<files, create>> PROVE FileInv' /\ Whole'
  BY <1>1, <1>12 DEF files, create
<1>13. ASSUME NEW s \in Streams, OpenStream(s) \/ ReceiveChunk(s) \/ RefuseChunk(s) \/ BreakStream(s)
       PROVE  UNCHANGED <<files, create>>
  BY <1>13 DEF OpenStream, ReceiveChunk, RefuseChunk, BreakStream
<1>14. FileInv' /\ Whole'
  BY <1>2, <1>3, <1>4, <1>5, <1>6, <1>7, <1>8, <1>9, <1>10, <1>11, <1>12, <1>13
  DEF Next, Create, Transfer, vars
<1> QED
  BY <1>c, <1>14

-----------------------------------------------------------------------------
(* The theorems. *)

\* The initial state.
LEMMA InitInv == Init => IInv /\ XInv
<1> SUFFICES ASSUME Init PROVE IInv /\ XInv
  OBVIOUS
<1>1. FilesT /\ CreateT
  BY DEF Init, FilesT, CreateT, File, Steps
<1>2. TransferT
  BY Constants DEF Init, TransferT
<1>3. latest \in Index \cup {0} /\ faults \in 0 .. MaxFaults
  BY Constants DEF Init
<1>4. TargetInv /\ DoomInv /\ SessionInv /\ AssembledWhole
  BY DEF Init, TargetInv, DoomInv, SessionInv, AssembledWhole
<1>5. ExclusiveInv /\ FileInv /\ RetainedWhole
  BY DEF Init, ExclusiveInv, FileInv, RetainedWhole, Writing
<1> QED
  BY <1>1, <1>2, <1>3, <1>4, <1>5 DEF IInv, XInv, TypeOK

\* Every step keeps the invariant.
LEMMA NextInv == IInv /\ [Next]_vars => IInv'
<1> SUFFICES ASSUME IInv, [Next]_vars PROVE IInv'
  OBVIOUS
<1>1. TypeOK /\ FilesT /\ TransferT /\ CreateT /\ TargetInv /\ DoomInv /\ SessionInv /\ AssembledWhole
  BY DEF IInv, TypeOK
<1>2. FilesT' /\ TransferT' /\ CreateT' /\ TargetInv' /\ DoomInv' /\ SessionInv' /\ AssembledWhole'
  BY <1>1, FilesPreserved, TransfersPreserved, CreatesPreserved, DoomPreserved, SessionsPreserved
<1>3. latest' \in Index \cup {0} /\ faults' \in 0 .. MaxFaults
  BY <1>1, ScalarsPreserved
<1> QED
  BY <1>2, <1>3 DEF IInv, TypeOK

\* The invariant holds in every reachable state.
LEMMA Invariance == Spec => []IInv
BY InitInv, NextInv, PTL DEF Spec

\* SnapshotStore is type correct, whether or not Creates overlap: no session
\* ever grows to the length of the snapshot without ending.
THEOREM TypeCorrect == Spec => []TypeOK
<1>1. IInv => TypeOK
  BY DEF IInv
<1> QED
  BY Invariance, <1>1, PTL

\* InstallSnapshot is given all chunks of one transfer, in order, however many
\* transfers of however many chunks compete for a session, break and crash.
THEOREM AssembledWholeTheorem == Spec => []AssembledWhole
<1>1. IInv => AssembledWhole
  BY DEF IInv
<1> QED
  BY Invariance, <1>1, PTL

\* The directory never goes back to an older latest snapshot, also when Creates
\* of the same snapshot overlap, for every number of snapshots kept.
THEOREM LatestNeverBackTheorem == Spec => LatestNeverBack
<1>1. IInv /\ [Next]_vars => [metas # {} => metas' # {} /\ Max(metas') >= Max(metas)]_vars
  BY LatestStep DEF IInv, TypeOK
<1> QED
  BY Invariance, <1>1, PTL DEF Spec, LatestNeverBack

\* As long as Creates of one snapshot do not overlap, the Keep newest snapshots
\* have all their data, whatever else overlaps, fails or crashes.
THEOREM RetainedWholeTheorem == Exclusive => (Spec => []RetainedWhole)
<1> SUFFICES ASSUME Exclusive PROVE Spec => []RetainedWhole
  OBVIOUS
<1>1. IInv /\ XInv /\ [Next]_vars => XInv'
  BY ExclusivePreserved, DataPreserved DEF IInv, XInv, TypeOK
<1>2. Spec => []XInv
  BY InitInv, Invariance, <1>1, PTL DEF Spec
<1>3. XInv => RetainedWhole
  BY DEF XInv
<1> QED
  BY <1>2, <1>3, PTL
=============================================================================
