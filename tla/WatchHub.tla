------------------------------ MODULE WatchHub ------------------------------
(***************************************************************************)
(* Registry watches: from the run loop of the raft node through Ready and  *)
(* forwardReadyLoop to the WatchHub (internal/registry/watch.go) and from  *)
(* there to the event streams of WatchInstances and WatchReplication       *)
(* (internal/transport/http/handlers_impl.go).                             *)
(*                                                                         *)
(* Four kinds of goroutine: the run loop, the forwarding loop, which is    *)
(* the only caller of Publish, and the handler of each connection.         *)
(*                                                                         *)
(* Abstractions.  Every log entry is a change of a watched instance, and   *)
(* its event is its index (revision); filters are left out.  What a client *)
(* knows is the set of revisions whose effect it has been told, one by one *)
(* or by a snapshot.  A connection is used once; a reconnecting client is  *)
(* another connection that starts from the revision it last processed.     *)
(***************************************************************************)
EXTENDS Integers, Sequences, SequencesExt

CONSTANTS
  Conns,        \* the connections
  MaxRev,       \* bound: the number of log entries
  MaxBatch,     \* bound: committed entries per Ready
  ReadyCap,     \* capacity of n.readyCh (cfg.ReadyBufferSize)
  ChanCap,      \* capacity of a watcher's channel
  HistoryCap    \* events kept for replay

ASSUME WatchHubAssumption ==
  /\ MaxRev \in Nat /\ MaxBatch \in Nat \ {0}
  /\ ReadyCap \in Nat \ {0} /\ ChanCap \in Nat \ {0} /\ HistoryCap \in Nat \ {0}

VARIABLES
  stored,     \* Pebble: the entries applied
  applied,    \* status.AppliedIndex
  readyCh,    \* the Readys waiting for forwardReadyLoop: sequences of revisions
  pub,        \* the forwarding loop: events to publish, the one being sent
  history,    \* h.history
  watchers,   \* h.watchers: the connections that have a channel in the table
  channel,    \* the buffered events of each connection
  closed,     \* the connections whose channel is closed
  pc,         \* the stage of each connection
  cur,        \* currentRevision of each connection's handler
  known,      \* the revisions each client knows the effect of
  snapRev,    \* the revision read for the snapshot in preparation
  panicked    \* a goroutine has sent on a closed channel: the process is gone

loop   == <<stored, applied, readyCh>>
hub    == <<history, watchers, channel, closed>>
stream == <<pc, cur, known, snapRev>>
vars   == <<loop, pub, hub, stream, panicked>>

Rev  == 0 .. MaxRev
Idle == [todo |-> << >>, rev |-> 0, targets |-> {}, slow |-> {}]

Init ==
  /\ stored = 0 /\ applied = 0 /\ readyCh = << >>
  /\ pub = Idle
  /\ history = << >> /\ watchers = {}
  /\ channel = [c \in Conns |-> << >>] /\ closed = {}
  /\ pc = [c \in Conns |-> "new"] /\ cur = [c \in Conns |-> 0]
  /\ known = [c \in Conns |-> {}] /\ snapRev = [c \in Conns |-> 0]
  /\ panicked = FALSE

-----------------------------------------------------------------------------
(* The run loop. *)

\* applyCommittedEntries: one entry of the Ready at hand.
ApplyEntry ==
  /\ ~panicked
  /\ stored < MaxRev /\ stored < applied + MaxBatch
  /\ stored' = stored + 1
  /\ UNCHANGED <<applied, readyCh, pub, hub, stream, panicked>>

\* The status follows, then emitReady: a Ready that finds the channel full
\* is dropped.
EmitReady ==
  /\ ~panicked
  /\ applied < stored
  /\ applied' = stored
  /\ readyCh' = IF Len(readyCh) < ReadyCap
                  THEN Append(readyCh, [i \in 1 .. stored - applied |-> applied + i])
                  ELSE readyCh
  /\ UNCHANGED <<stored, pub, hub, stream, panicked>>

-----------------------------------------------------------------------------
(* The forwarding loop. *)

TakeReady ==
  /\ ~panicked
  /\ pub = Idle /\ readyCh # << >>
  /\ pub' = [pub EXCEPT !.todo = Head(readyCh)]
  /\ readyCh' = Tail(readyCh)
  /\ UNCHANGED <<stored, applied, hub, stream, panicked>>

\* Faulty variant of appendHistory: the cap is off by one.
appendHistoryUncapped(rev) ==
  LET all == Append(history, rev)
  IN  SubSeq(all, IF Len(all) > HistoryCap + 1 THEN Len(all) - HistoryCap ELSE 1, Len(all))

\* appendHistoryLocked.
appendHistory(rev) ==
  LET all == Append(history, rev)
  IN  SubSeq(all, IF Len(all) > HistoryCap THEN Len(all) - HistoryCap + 1 ELSE 1, Len(all))

\* Publish under the lock: the history, and a copy of the watcher table.
Publish ==
  /\ ~panicked
  /\ pub.rev = 0 /\ pub.todo # << >>
  /\ pub' = [todo |-> Tail(pub.todo), rev |-> Head(pub.todo), targets |-> watchers, slow |-> {}]
  /\ history' = appendHistory(Head(pub.todo))
  /\ UNCHANGED <<loop, watchers, channel, closed, stream, panicked>>

\* Faulty variant of Send: an event that finds the channel full is skipped.
SendOrSkip(c) ==
  /\ ~panicked
  /\ c \in pub.targets /\ c \notin closed
  /\ channel' = IF Len(channel[c]) < ChanCap
                  THEN [channel EXCEPT ![c] = Append(@, pub.rev)] ELSE channel
  /\ pub' = [pub EXCEPT !.targets = @ \ {c}]
  /\ UNCHANGED <<loop, history, watchers, closed, stream, panicked>>

\* Publish without the lock: the next watcher of the copy, in map order.
Send(c) ==
  /\ ~panicked
  /\ c \in pub.targets /\ c \notin closed
  /\ IF Len(channel[c]) < ChanCap
       THEN /\ channel' = [channel EXCEPT ![c] = Append(@, pub.rev)]
            /\ pub' = [pub EXCEPT !.targets = @ \ {c}]
       ELSE /\ pub' = [pub EXCEPT !.targets = @ \ {c}, !.slow = @ \cup {c}]
            /\ UNCHANGED channel
  /\ UNCHANGED <<loop, history, watchers, closed, stream, panicked>>

\* The watcher was unsubscribed after the copy was made.
SendOnClosed(c) ==
  /\ ~panicked
  /\ c \in pub.targets /\ c \in closed
  /\ panicked' = TRUE
  /\ UNCHANGED <<loop, pub, hub, stream>>

\* Faulty variant of CloseSlow: a slow watcher leaves the table, its channel
\* stays open.
CloseSlowForgets ==
  /\ ~panicked
  /\ pub.rev # 0 /\ pub.targets = {}
  /\ watchers' = watchers \ pub.slow
  /\ pub' = [pub EXCEPT !.rev = 0, !.slow = {}]
  /\ UNCHANGED <<loop, history, channel, closed, stream, panicked>>

\* Publish under the lock again: the slow watchers that are still in the
\* table are closed.
CloseSlow ==
  /\ ~panicked
  /\ pub.rev # 0 /\ pub.targets = {}
  /\ watchers' = watchers \ pub.slow
  /\ closed' = closed \cup (watchers \cap pub.slow)
  /\ pub' = [pub EXCEPT !.rev = 0, !.slow = {}]
  /\ UNCHANGED <<loop, history, channel, stream, panicked>>

-----------------------------------------------------------------------------
(* The handler of a connection. *)

\* replaySinceLocked: whether the history covers everything after since, and
\* the positions of the events to replay.
exact(since) ==
  /\ since # 0 /\ history # << >>
  /\ since > Last(history) \/ since + 1 >= Head(history)

\* Faulty variant of replaySince: off by one.
replaySinceOffByOne(since) == {i \in DOMAIN history : history[i] > since + 1}

replaySince(since) == {i \in DOMAIN history : history[i] > since}

\* The last event published.
latest == IF history = << >> THEN 0 ELSE Last(history)

\* SubscribeSince, then what the history and the request call for:
subscribe(c) ==
  /\ ~panicked
  /\ pc[c] = "new"
  /\ watchers' = watchers \cup {c}
  /\ UNCHANGED <<loop, pub, history, channel, closed, snapRev, panicked>>

\* ... 410 revision_expired,
ConnectExpired(c, since) ==
  /\ subscribe(c)
  /\ since > 0 /\ ~exact(since)
  /\ pc' = [pc EXCEPT ![c] = "rejected"]
  /\ UNCHANGED <<cur, known>>

\* ... a snapshot,
ConnectSnapshot(c, since) ==
  /\ subscribe(c)
  /\ ~exact(since)
  /\ pc' = [pc EXCEPT ![c] = "barrier"]
  /\ UNCHANGED <<cur, known>>

\* ... the replay of everything after the revision the client has,
ConnectReplay(c, since) ==
  /\ subscribe(c)
  /\ exact(since)
  /\ pc' = [pc EXCEPT ![c] = "streaming"]
  /\ cur' = [cur EXCEPT ![c] =
               IF replaySince(since) = {} THEN since ELSE history[Max(replaySince(since))]]
  /\ known' = [known EXCEPT ![c] = (1 .. since) \cup {history[i] : i \in replaySince(since)}]

\* ... or, with neither a revision nor a snapshot asked for, live events.  The
\* client is owed nothing published before.
ConnectLive(c) ==
  /\ subscribe(c)
  /\ pc' = [pc EXCEPT ![c] = "streaming"]
  /\ known' = [known EXCEPT ![c] = 1 .. latest]
  /\ UNCHANGED cur

\* registryWatchSnapshot: the read barrier has passed, the revision is read.
ReadRevision(c) ==
  /\ ~panicked
  /\ pc[c] = "barrier"
  /\ pc' = [pc EXCEPT ![c] = "scanning"]
  /\ snapRev' = [snapRev EXCEPT ![c] = applied]
  /\ UNCHANGED <<loop, pub, hub, cur, known, panicked>>

\* ... then Pebble is scanned and the snapshot is sent.
SendSnapshot(c) ==
  /\ ~panicked
  /\ pc[c] = "scanning"
  /\ pc' = [pc EXCEPT ![c] = "streaming"]
  /\ known' = [known EXCEPT ![c] = 1 .. stored]
  /\ cur' = [cur EXCEPT ![c] = snapRev[c]]
  /\ snapRev' = [snapRev EXCEPT ![c] = 0]
  /\ UNCHANGED <<loop, pub, hub, panicked>>

\* The stream loop: an event the client has is skipped.
Receive(c) ==
  /\ ~panicked
  /\ pc[c] = "streaming" /\ channel[c] # << >>
  /\ channel' = [channel EXCEPT ![c] = Tail(@)]
  /\ IF Head(channel[c]) <= cur[c]
       THEN UNCHANGED <<cur, known>>
       ELSE /\ cur' = [cur EXCEPT ![c] = Head(channel[c])]
            /\ known' = [known EXCEPT ![c] = @ \cup {Head(channel[c])}]
  /\ UNCHANGED <<loop, pub, history, watchers, closed, pc, snapRev, panicked>>

\* The handler returns, and its variables are gone.
return(c) ==
  /\ pc' = [pc EXCEPT ![c] = "ended"]
  /\ cur' = [cur EXCEPT ![c] = 0]
  /\ known' = [known EXCEPT ![c] = {}]
  /\ snapRev' = [snapRev EXCEPT ![c] = 0]
  /\ channel' = [channel EXCEPT ![c] = << >>]

\* The channel was closed for being slow, and is drained.
ReceiveClosed(c) ==
  /\ ~panicked
  /\ pc[c] = "streaming" /\ channel[c] = << >> /\ c \in closed
  /\ return(c)
  /\ UNCHANGED <<loop, pub, history, watchers, closed, panicked>>

\* The client is turned away or goes away, a write or the snapshot fails:
\* unsubscribe.
Leave(c) ==
  /\ ~panicked
  /\ pc[c] \in {"rejected", "barrier", "scanning", "streaming"}
  /\ return(c)
  /\ watchers' = watchers \ {c}
  /\ closed' = closed \cup {c}
  /\ UNCHANGED <<loop, pub, history, panicked>>

-----------------------------------------------------------------------------
Finished ==
  /\ \/ panicked
     \/ /\ applied = MaxRev /\ readyCh = << >> /\ pub = Idle
        /\ \A c \in Conns :
             \/ pc[c] = "ended"
             \/ pc[c] = "streaming" /\ channel[c] = << >> /\ c \notin closed
  /\ UNCHANGED vars

RunLoop == ApplyEntry \/ EmitReady
ForwardLoop == TakeReady \/ Publish \/ CloseSlow \/ \E c \in Conns : Send(c) \/ SendOnClosed(c)
Handler(c) == ReadRevision(c) \/ SendSnapshot(c) \/ Receive(c) \/ ReceiveClosed(c)

Next ==
  \/ RunLoop \/ ForwardLoop
  \/ \E c \in Conns :
       \/ \E since \in Rev :
            ConnectExpired(c, since) \/ ConnectSnapshot(c, since) \/ ConnectReplay(c, since)
       \/ ConnectLive(c)
       \/ Handler(c) \/ Leave(c)
  \/ Finished

Spec == Init /\ [][Next]_vars

\* The goroutines of the process run; clients need not come, stay or leave.
Fairness ==
  /\ WF_vars(EmitReady) /\ WF_vars(ForwardLoop)
  /\ \A c \in Conns : WF_vars(Handler(c))

FairSpec == Spec /\ Fairness

-----------------------------------------------------------------------------
(* Properties. *)

\* The types of the variables: the run loop, the forwarding loop, the hub, the
\* connections.
LoopT == stored \in Rev /\ applied \in 0 .. stored /\ readyCh \in Seq(Seq(1 .. MaxRev))

PubT == pub \in [todo : Seq(1 .. MaxRev), rev : Rev, targets : SUBSET Conns, slow : SUBSET Conns]

HubT ==
  /\ history \in Seq(1 .. MaxRev) /\ Len(history) <= HistoryCap
  /\ watchers \subseteq Conns /\ closed \subseteq Conns
  /\ channel \in [Conns -> Seq(1 .. MaxRev)] /\ \A c \in Conns : Len(channel[c]) <= ChanCap

StreamT ==
  /\ pc \in [Conns -> {"new", "rejected", "barrier", "scanning", "streaming", "ended"}]
  /\ cur \in [Conns -> Rev] /\ known \in [Conns -> SUBSET (1 .. MaxRev)]
  /\ snapRev \in [Conns -> Rev]
  /\ panicked \in BOOLEAN

\* The history and the channels never grow beyond their capacity.
TypeOK == LoopT /\ PubT /\ HubT /\ StreamT

\* The last revision a client was sent is a cursor it can resume from: it
\* knows every change up to it, however its snapshot, replay and live events
\* were interleaved with the writes.
NoGap ==
  \A c \in Conns : pc[c] = "streaming" => 1 .. cur[c] \subseteq known[c]

\* A channel that closes takes no event with it: whatever was published since
\* an open connection subscribed is known, buffered or about to be sent.
NothingLost ==
  \A c \in Conns : pc[c] = "streaming" /\ c \in watchers =>
    \A i \in DOMAIN history :
      \/ history[i] \in known[c] \cup ToSet(channel[c])
      \/ history[i] = pub.rev /\ c \in pub.targets \cup pub.slow

\* Publish never sends on a closed channel, which would end the process.
NeverPanics == ~panicked

\* Whenever the writes pause, at whatever point, every client that stays
\* connected ends up knowing every change.
Delivered ==
  \A c \in Conns :
    <>[](pc[c] = "streaming" /\ ~panicked => 1 .. applied \subseteq known[c])
=============================================================================
