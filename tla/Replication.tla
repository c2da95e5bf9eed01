---------------------------- MODULE Replication ----------------------------
(***************************************************************************)
(* Cross-region directory sync, internal/app/replication.go: every node of *)
(* the local cluster runs replicateServiceLoop for a service of a remote   *)
(* cluster.  The node that finds itself leader reads the checkpoint, opens *)
(* the source's event stream after it, and turns each frame into raft      *)
(* commands on the replicated directory and on the checkpoint.             *)
(*                                                                         *)
(* ProposeCommand returns once raft has taken the command, not once it is  *)
(* committed: pending holds the commands taken and not yet committed, and  *)
(* a change of leader may cut off its end.  The loop looks at its role     *)
(* before it opens a stream, never while it is reading one; a follower's   *)
(* proposal is forwarded to the leader, or lost on the way.                *)
(*                                                                         *)
(* Abstractions.  A revision of the source is one change of an instance of *)
(* the service, or of something else (Other, which the stream filters      *)
(* out).  An instance's value is the revision that wrote it, 0 when there  *)
(* is none.  The status kept for display (replicationTracker, times, the   *)
(* revision of the last snapshot) is left out.  The source's hub is its    *)
(* contract, which WatchHub establishes: a stream omits no change after    *)
(* the revision it starts from.                                            *)
(***************************************************************************)
EXTENDS Integers, Sequences, SequencesExt, FiniteSetsExt

CONSTANTS
  Nodes,        \* the nodes of the local cluster
  Insts,        \* the instances of the service
  Other,        \* a change that does not concern the service
  MaxRev,       \* bound: the number of changes at the source
  MaxPending,   \* bound: the commands taken and not committed
  MaxFaults     \* bound: faults, ends of streams and overlapping streams

ASSUME ReplicationAssumption ==
  /\ IsFiniteSet(Insts) /\ Other \notin Insts
  /\ MaxRev \in Nat /\ MaxPending \in Nat /\ MaxFaults \in Nat

VARIABLES
  src,        \* the source: its changes so far, and the first revision
  first,      \* ... that its hub still has in history
  leader,     \* the local cluster: its leader,
  pending,    \* ... the commands its leader has taken and not committed,
  dir,        \* ... the replicated directory and the checkpoint that the
  checkpoint, \* ... committed commands have produced
  pc,         \* each node's loop: its stage,
  pos,        \* ... the last revision delivered (currentRevision at either end),
  frame,      \* ... the revision and the contents of a snapshot frame,
  work,       \* ... the commands of the frame at hand not yet proposed
  faults,     \* how much of MaxFaults is spent,
  owner,      \* history variables: the node whose stream was opened last,
  spoilt      \* ... and whether the checkpoint may claim what was never written

source  == <<src, first>>
cluster == <<leader, pending, dir, checkpoint>>
loop    == <<pc, pos, frame, work>>
history == <<owner, spoilt>>
vars    == <<source, cluster, loop, faults, history>>

Command == [op : {"put", "delete", "clear", "checkpoint", "imported"}, inst : Insts \cup {Other}, val : 0 .. Len(src)]
NoFrame == [rev |-> 0, items |-> [i \in Insts |-> 0]]

Init ==
  /\ src = << >> /\ first = 1
  /\ leader \in Nodes /\ pending = << >>
  /\ dir = [i \in Insts |-> 0] /\ checkpoint = 0
  /\ pc = [n \in Nodes |-> "idle"] /\ pos = [n \in Nodes |-> 0]
  /\ frame = [n \in Nodes |-> NoFrame] /\ work = [n \in Nodes |-> << >>]
  /\ faults = 0 /\ owner = leader /\ spoilt = FALSE

-----------------------------------------------------------------------------
(* The source. *)

\* The value of an instance at the source after revision r.
ValueAt(i, r) ==
  LET writes == {k \in 1 .. r : src[k].inst = i}
  IN  IF writes = {} THEN 0
      ELSE IF src[Max(writes)].up THEN Max(writes) ELSE 0

\* An instance is written or deleted, or something else happens.
Change(i, up) ==
  /\ Len(src) < MaxRev
  /\ src' = Append(src, [inst |-> i, up |-> up])
  /\ UNCHANGED <<first, cluster, loop, faults, history>>

fault == faults < MaxFaults /\ faults' = faults + 1

\* The history is lost: a restart of the source, or too many changes.
Forget ==
  /\ first <= Len(src)
  /\ first' = Len(src) + 1
  /\ UNCHANGED <<src, cluster, loop, faults, history>>

\* replaySinceLocked.
exact(since) ==
  /\ since # 0 /\ first <= Len(src)
  /\ since > Len(src) \/ since + 1 >= first

-----------------------------------------------------------------------------
(* What spoils a checkpoint. *)

\* Some node of N has read the checkpoint and works on its stream.
active(N) == \E n \in N : pc[n] \notin {"idle", "reading"}

\* The commands C are lost.  That spoils the checkpoint when a node of N, whose
\* stream goes on, will write the next one, and when the end of an import is lost
\* and the checkpoint is that of the directory the import was to replace.
lose(C, N) ==
  spoilt' = \/ spoilt
            \/ C # {} /\ active(N)
            \/ checkpoint # 0 /\ \E c \in C : c.op = "imported"

-----------------------------------------------------------------------------
(* The loop of a node. *)

\* replicateServiceLoop: the role is looked at here and nowhere else.
CheckRole(n) ==
  /\ pc[n] = "idle"
  /\ pc' = [pc EXCEPT ![n] = IF n = leader THEN "reading" ELSE "idle"]
  /\ UNCHANGED <<source, cluster, pos, frame, work, faults, history>>

\* readReplicationCheckpoint, behind a read barrier.  Nothing in the code waits
\* for the commands of an earlier stream, only replicationRetryDelay is between
\* the two, nor for the stream of a leader that was replaced.  The new stream
\* then starts from a checkpoint that others are about to change.
ReadCheckpoint(n) ==
  /\ pc[n] = "reading"
  /\ pc' = [pc EXCEPT ![n] = "connecting"]
  /\ pos' = [pos EXCEPT ![n] = checkpoint]
  /\ owner' = n
  /\ IF pending = << >> /\ ~active(Nodes \ {n})
       THEN UNCHANGED <<faults, spoilt>>
       ELSE fault /\ spoilt' = TRUE
  /\ UNCHANGED <<source, cluster, frame, work>>

\* Faulty variant of Connect: only a history that covers the checkpoint is asked
\* for, and the loop tries again otherwise.
ConnectReplayOnly(n) ==
  /\ pc[n] = "connecting" /\ exact(pos[n])
  /\ pc' = [pc EXCEPT ![n] = "streaming"]
  /\ UNCHANGED <<source, cluster, pos, frame, work, faults, history>>

\* The request reaches WatchReplication: it replays the history after the
\* revision asked for, or prepares a snapshot, whose revision it reads first.
Connect(n) ==
  /\ pc[n] = "connecting"
  /\ IF exact(pos[n])
       THEN /\ pc' = [pc EXCEPT ![n] = "streaming"]
            /\ UNCHANGED frame
       ELSE /\ pc' = [pc EXCEPT ![n] = "scanning"]
            /\ frame' = [frame EXCEPT ![n].rev = Len(src)]
  /\ UNCHANGED <<source, cluster, pos, work, faults, history>>

\* registryWatchSnapshot: the instances are read after the revision.
Scan(n) ==
  /\ pc[n] = "scanning"
  /\ pc' = [pc EXCEPT ![n] = "snapshot"]
  /\ frame' = [frame EXCEPT ![n].items = [i \in Insts |-> ValueAt(i, Len(src))]]
  /\ UNCHANGED <<source, cluster, pos, work, faults, history>>

command(op, i, v) == [op |-> op, inst |-> i, val |-> v]

\* applyReplicationSnapshot.  Its checkpoint is told from that of an event by the
\* LastSnapshotRevision that it carries.
snapshotCommands(f) ==
  <<command("clear", Other, 0)>>
    \o SetToSeq({command("put", i, f.items[i]) : i \in {j \in Insts : f.items[j] # 0}})
    \o <<command("imported", Other, f.rev)>>

\* Faulty variant of eventCommands: the checkpoint is written first.
eventCommandsEarlyCheckpoint(k) ==
  <<command("checkpoint", Other, k),
    IF src[k].up THEN command("put", src[k].inst, k) ELSE command("delete", src[k].inst, 0)>>

\* Faulty variant of eventCommands: the checkpoint is the next revision wanted.
eventCommandsNextRevision(k) ==
  <<IF src[k].up THEN command("put", src[k].inst, k) ELSE command("delete", src[k].inst, 0),
    command("checkpoint", Other, k + 1)>>

\* applyReplicationUpsert and applyReplicationDelete.
eventCommands(k) ==
  <<IF src[k].up THEN command("put", src[k].inst, k) ELSE command("delete", src[k].inst, 0),
    command("checkpoint", Other, k)>>

\* The scanner of runReplicationStream has read a snapshot frame.  One whose
\* revision is 0 is not applied.  Any other replaces the whole directory, which
\* makes up for what was lost before.
TakeSnapshot(n) ==
  /\ pc[n] = "snapshot"
  /\ pc' = [pc EXCEPT ![n] = "streaming"]
  /\ work' = [work EXCEPT ![n] = IF frame[n].rev > 0 THEN snapshotCommands(frame[n]) ELSE << >>]
  /\ pos' = [pos EXCEPT ![n] = frame[n].rev]
  /\ frame' = [frame EXCEPT ![n] = NoFrame]
  /\ IF frame[n].rev > 0 /\ pending = << >> /\ ~active(Nodes \ {n})
       THEN owner' = n /\ spoilt' = FALSE
       ELSE UNCHANGED history
  /\ UNCHANGED <<source, cluster, faults>>

\* The revisions a stream has yet to deliver.
ahead(n) == {k \in pos[n] + 1 .. Len(src) : src[k].inst \in Insts}

\* ... or the next event.
TakeEvent(n) ==
  /\ pc[n] = "streaming" /\ work[n] = << >> /\ ahead(n) # {}
  /\ work' = [work EXCEPT ![n] = eventCommands(Min(ahead(n)))]
  /\ pos' = [pos EXCEPT ![n] = Min(ahead(n))]
  /\ UNCHANGED <<source, cluster, pc, frame, faults, history>>

\* ProposeCommand with the next command of the frame.  The leader takes it; a
\* follower's may be lost on the way to the leader.
Propose(n) ==
  /\ work[n] # << >>
  /\ work' = [work EXCEPT ![n] = Tail(@)]
  /\ \/ Len(pending) < MaxPending /\ pending' = Append(pending, Head(work[n])) /\ UNCHANGED spoilt
     \/ n # leader /\ lose({Head(work[n])}, {n}) /\ UNCHANGED pending
  /\ UNCHANGED <<source, leader, dir, checkpoint, pc, pos, frame, faults, owner>>

\* runReplicationStream returns.
return(n) ==
  /\ pc' = [pc EXCEPT ![n] = "idle"]
  /\ pos' = [pos EXCEPT ![n] = 0]
  /\ frame' = [frame EXCEPT ![n] = NoFrame]
  /\ work' = [work EXCEPT ![n] = << >>]

\* The source ends the stream between two frames.
StreamEnds(n) ==
  /\ pc[n] = "streaming" /\ work[n] = << >>
  /\ fault
  /\ return(n)
  /\ UNCHANGED <<source, cluster, history>>

\* A read, the request or a proposal fails: RecordError.
StreamFails(n) ==
  /\ pc[n] # "idle"
  /\ fault
  /\ return(n)
  /\ lose(ToSet(work[n]), {})
  /\ UNCHANGED <<source, cluster, owner>>

-----------------------------------------------------------------------------
(* The local cluster. *)

\* A command on the checkpoint.
marks(c) == c.op \in {"checkpoint", "imported"}

\* PebbleStore.Apply: what a command makes of the directory.
written(c, d) ==
  CASE c.op = "put"        -> [d EXCEPT ![c.inst] = c.val]
    [] c.op = "delete"     -> [d EXCEPT ![c.inst] = 0]
    [] c.op = "clear"      -> [i \in Insts |-> 0]
    [] marks(c)            -> d

\* The oldest pending command is committed and applied.
Commit ==
  /\ pending # << >>
  /\ pending' = Tail(pending)
  /\ dir' = written(Head(pending), dir)
  /\ checkpoint' = IF marks(Head(pending)) THEN Head(pending).val ELSE checkpoint
  /\ UNCHANGED <<source, leader, loop, faults, history>>

\* The commands pending after the first k.
cut(k) == {pending[p] : p \in k + 1 .. Len(pending)}

\* Another node becomes leader and has the first k of the pending commands.  A
\* transfer of the leadership waits until it has them all.
elect(m, k) ==
  /\ leader' = m
  /\ pending' = SubSeq(pending, 1, k)
  /\ UNCHANGED <<dir, checkpoint, owner>>

\* The leader crashes, and its loop with it.
Crash(m) ==
  \E k \in 0 .. Len(pending) :
    /\ fault
    /\ elect(m, k)
    /\ return(leader)
    /\ lose(cut(k) \cup ToSet(work[leader]), Nodes \ {leader})
    /\ UNCHANGED source

\* The leader is replaced and keeps running, and so does its stream.
Depose(m) ==
  \E k \in 0 .. Len(pending) :
    /\ m # leader /\ fault
    /\ elect(m, k)
    /\ lose(cut(k), Nodes)
    /\ UNCHANGED <<source, loop>>

-----------------------------------------------------------------------------
Loop(n) ==
  \/ CheckRole(n) \/ ReadCheckpoint(n) \/ Connect(n) \/ Scan(n)
  \/ TakeSnapshot(n) \/ TakeEvent(n) \/ Propose(n)

Next ==
  \/ \E i \in Insts, up \in BOOLEAN : Change(i, up)
  \/ Change(Other, TRUE)
  \/ Forget \/ Commit
  \/ \E n \in Nodes :
       Loop(n) \/ StreamEnds(n) \/ StreamFails(n) \/ Crash(n) \/ Depose(n)

Spec == Init /\ [][Next]_vars

\* The loops run and raft commits; the source need not change.
FairSpec == Spec /\ WF_vars(Commit) /\ \A n \in Nodes : WF_vars(Loop(n))

-----------------------------------------------------------------------------
(* Properties. *)

\* The types of the variables: the source, the local cluster, the loops.
SourceT ==
  /\ src \in Seq([inst : Insts \cup {Other}, up : BOOLEAN]) /\ Len(src) <= MaxRev
  /\ first \in 1 .. Len(src) + 1

ClusterT ==
  /\ leader \in Nodes /\ pending \in Seq(Command)
  /\ dir \in [Insts -> 0 .. Len(src)] /\ checkpoint \in 0 .. Len(src)

LoopT ==
  /\ pc \in [Nodes -> {"idle", "reading", "connecting", "scanning", "snapshot", "streaming"}]
  /\ pos \in [Nodes -> 0 .. Len(src)]
  /\ frame \in [Nodes -> [rev : 0 .. Len(src), items : [Insts -> 0 .. Len(src)]]]
  /\ work \in [Nodes -> Seq(Command)]

\* No revision is ahead of the source.
TypeOK ==
  /\ SourceT /\ ClusterT /\ LoopT
  /\ faults \in 0 .. MaxFaults /\ owner \in Nodes /\ spoilt \in BOOLEAN

\* A node whose stream has been applied and committed up to a revision has the
\* source's directory at that revision; instances that change later may be
\* ahead.  So no event was skipped, whichever replays and imports it took and
\* whichever streams and leaders failed, unless streams overlapped, commands were
\* lost under a stream that went on, or an import over an older directory was cut
\* short, and no import has been taken whole since.
NothingSkipped ==
  ~spoilt => \A n \in Nodes :
    pc[n] = "streaming" /\ work[n] = << >> /\ pending = << >> =>
      \A i \in Insts : dir[i] = ValueAt(i, Len(src)) \/ \E k \in ahead(n) : src[k].inst = i

\* Once the source and the cluster come to rest, so does the directory: it is
\* the source's, under the same exception as in NothingSkipped.
Converges == <>[](~spoilt /\ Len(src) > 0 => \A i \in Insts : dir[i] = ValueAt(i, Len(src)))
=============================================================================
