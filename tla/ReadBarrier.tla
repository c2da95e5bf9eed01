---------------------------- MODULE ReadBarrier ----------------------------
(***************************************************************************)
(* Linearizable reads, RaftNode.LinearizableRead and ReadIndex in          *)
(* internal/raftnode: a reader registers a one-shot channel under its      *)
(* request context, asks raft for a read index, waits for the answer or    *)
(* for its deadline, polls status.AppliedIndex and reads Pebble.           *)
(*                                                                         *)
(* Get passes the key and Scan the key range as request context, so two    *)
(* concurrent reads of one key share it: KeyOf gives each reader's.        *)
(*                                                                         *)
(* Abstractions.  A write is its log index.  Deadlines fire at any time.   *)
(* Raft's leader (external) remembers one index per pending context and    *)
(* confirms it by a heartbeat round; requests and answers may get lost.    *)
(***************************************************************************)
EXTENDS Integers

CONSTANTS
  Readers,    \* the reads, each performed once
  Contexts,   \* the request contexts
  KeyOf,      \* the request context of each read
  MaxIndex    \* bound: the number of writes

ASSUME ReadBarrierAssumption ==
  /\ KeyOf \in [Readers -> Contexts]
  /\ MaxIndex \in Nat

VARIABLES
  accepted,   \* writes answered with success: Propose returned
  commit,     \* writes committed by raft
  applied,    \* writes applied here, which is what status.AppliedIndex says
  pc,         \* the stage of each read
  waiters,    \* the reads whose channel is in n.waiters
  channel,    \* what each read's channel yields: Empty, 0 if closed, an index
  sent,       \* reads whose MsgReadIndex is on its way to the leader
  pending,    \* leader: contexts awaiting confirmation, with their index
  answers,    \* ReadStates on their way to handleReadStates
  index,      \* the read index each read received
  seen,       \* the writes each read has seen
  begun       \* history: the commit index when each read began

writes == <<accepted, commit, applied>>
leader == <<sent, pending, answers>>
vars   == <<writes, pc, waiters, channel, leader, index, seen, begun>>

Empty  == -1
Index  == 0 .. MaxIndex
Stages == {"idle", "registered", "waiting", "polling", "reading", "done", "failed"}

Init ==
  /\ accepted = 0 /\ commit = 0 /\ applied = 0
  /\ pc = [r \in Readers |-> "idle"]
  /\ waiters = {} /\ channel = [r \in Readers |-> Empty]
  /\ sent = {} /\ pending = {} /\ answers = {}
  /\ index = [r \in Readers |-> 0] /\ seen = [r \in Readers |-> 0]
  /\ begun = [r \in Readers |-> 0]

-----------------------------------------------------------------------------
(* Writes. *)

\* Register, Deregister and Heartbeat answer 200 as soon as raft has taken
\* the proposal.
Propose ==
  /\ accepted < MaxIndex
  /\ accepted' = accepted + 1
  /\ UNCHANGED <<commit, applied, pc, waiters, channel, leader, index, seen, begun>>

Commit ==
  /\ commit < accepted
  /\ commit' = commit + 1
  /\ UNCHANGED <<accepted, applied, pc, waiters, channel, leader, index, seen, begun>>

ApplyWrite ==
  /\ applied < commit
  /\ applied' = applied + 1
  /\ UNCHANGED <<accepted, commit, pc, waiters, channel, leader, index, seen, begun>>

-----------------------------------------------------------------------------
(* The reading goroutine. *)

\* ReadIndex: the channel takes the place of whatever is under the context.
Register(r) ==
  /\ pc[r] = "idle"
  /\ pc' = [pc EXCEPT ![r] = "registered"]
  /\ waiters' = {q \in waiters : KeyOf[q] # KeyOf[r]} \cup {r}
  /\ begun' = [begun EXCEPT ![r] = commit]
  /\ UNCHANGED <<writes, channel, leader, index, seen>>

Request(r) ==
  /\ pc[r] = "registered"
  /\ pc' = [pc EXCEPT ![r] = "waiting"]
  /\ sent' = sent \cup {r}
  /\ UNCHANGED <<writes, waiters, channel, pending, answers, index, seen, begun>>

\* removeWaiter closes and forgets the channel under the context, whosever
\* it is.
removeWaiter(r) ==
  /\ channel' = [q \in Readers |->
                   IF q \in waiters /\ KeyOf[q] = KeyOf[r] THEN 0 ELSE channel[q]]
  /\ waiters' = {q \in waiters : KeyOf[q] # KeyOf[r]}

\* raftNode.ReadIndex returns an error, the context is done or the node stops.
GiveUp(r) ==
  /\ pc[r] \in {"registered", "waiting"}
  /\ pc' = [pc EXCEPT ![r] = "failed"]
  /\ removeWaiter(r)
  /\ UNCHANGED <<writes, leader, index, seen, begun>>

\* Faulty variant of Receive: it does not wait for the channel.
ReceiveUnready(r) ==
  /\ pc[r] = "waiting"
  /\ pc' = [pc EXCEPT ![r] = "polling"]
  /\ index' = [index EXCEPT ![r] = channel[r]]
  /\ UNCHANGED <<writes, waiters, channel, leader, seen, begun>>

\* A receive from a closed channel yields 0.
Receive(r) ==
  /\ pc[r] = "waiting" /\ channel[r] # Empty
  /\ pc' = [pc EXCEPT ![r] = "polling"]
  /\ index' = [index EXCEPT ![r] = channel[r]]
  /\ UNCHANGED <<writes, waiters, channel, leader, seen, begun>>

\* Faulty variant of Poll: the applied index is not waited for.
PollAtOnce(r) ==
  /\ pc[r] = "polling"
  /\ pc' = [pc EXCEPT ![r] = "reading"]
  /\ UNCHANGED <<writes, waiters, channel, leader, index, seen, begun>>

\* The loop of LinearizableRead ends once the applied index has caught up.
Poll(r) ==
  /\ pc[r] = "polling" /\ applied >= index[r]
  /\ pc' = [pc EXCEPT ![r] = "reading"]
  /\ UNCHANGED <<writes, waiters, channel, leader, index, seen, begun>>

PollTimesOut(r) ==
  /\ pc[r] = "polling"
  /\ pc' = [pc EXCEPT ![r] = "failed"]
  /\ UNCHANGED <<writes, waiters, channel, leader, index, seen, begun>>

Read(r) ==
  /\ pc[r] = "reading"
  /\ pc' = [pc EXCEPT ![r] = "done"]
  /\ seen' = [seen EXCEPT ![r] = applied]
  /\ UNCHANGED <<writes, waiters, channel, leader, index, begun>>

-----------------------------------------------------------------------------
(* The raft library and the run loop. *)

\* The leader ignores a context that is already pending.
LeaderReceive(r) ==
  /\ r \in sent /\ sent' = sent \ {r}
  /\ pending' = IF \E p \in pending : p.key = KeyOf[r] THEN pending
                ELSE pending \cup {[key |-> KeyOf[r], index |-> commit]}
  /\ UNCHANGED <<writes, pc, waiters, channel, answers, index, seen, begun>>

LoseRequest(r) ==
  /\ r \in sent /\ sent' = sent \ {r}
  /\ UNCHANGED <<writes, pc, waiters, channel, pending, answers, index, seen, begun>>

\* A quorum has answered the heartbeat that carries the context.
Confirm(p) ==
  /\ p \in pending /\ pending' = pending \ {p}
  /\ answers' = answers \cup {p}
  /\ UNCHANGED <<writes, pc, waiters, channel, sent, index, seen, begun>>

\* The leader steps down, or its answer is lost.
LosePending(p) ==
  /\ p \in pending /\ pending' = pending \ {p}
  /\ UNCHANGED <<writes, pc, waiters, channel, sent, answers, index, seen, begun>>

\* Faulty variant of handleReadStates: the channel stays in the table.
handleReadStatesKeeping(p) ==
  /\ p \in answers /\ answers' = answers \ {p}
  /\ channel' = [q \in Readers |->
                   IF q \in waiters /\ KeyOf[q] = p.key THEN p.index ELSE channel[q]]
  /\ UNCHANGED <<writes, pc, waiters, sent, pending, index, seen, begun>>

\* The run loop hands an answer to the read registered under its context.
handleReadStates(p) ==
  /\ p \in answers /\ answers' = answers \ {p}
  /\ channel' = [q \in Readers |->
                   IF q \in waiters /\ KeyOf[q] = p.key THEN p.index ELSE channel[q]]
  /\ waiters' = {q \in waiters : KeyOf[q] # p.key}
  /\ UNCHANGED <<writes, pc, sent, pending, index, seen, begun>>

Finished ==
  /\ \A r \in Readers : pc[r] \in {"done", "failed"}
  /\ UNCHANGED vars

Next ==
  \/ Propose \/ Commit \/ ApplyWrite
  \/ \E r \in Readers :
       \/ Register(r) \/ Request(r) \/ GiveUp(r) \/ Receive(r)
       \/ Poll(r) \/ PollTimesOut(r) \/ Read(r)
       \/ LeaderReceive(r) \/ LoseRequest(r)
  \/ \E p \in pending : Confirm(p) \/ LosePending(p)
  \/ \E p \in answers : handleReadStates(p)
  \/ Finished

Spec == Init /\ [][Next]_vars

-----------------------------------------------------------------------------
(* Properties. *)

Answer == [key : Contexts, index : Index]

\* The types of the variables.
TypeOK ==
  /\ accepted \in Index /\ commit \in Index /\ applied \in Index
  /\ pc \in [Readers -> Stages]
  /\ waiters \subseteq Readers /\ channel \in [Readers -> Index \cup {Empty}]
  /\ sent \subseteq Readers /\ pending \subseteq Answer /\ answers \subseteq Answer
  /\ index \in [Readers -> Index] /\ seen \in [Readers -> Index]
  /\ begun \in [Readers -> Index]

\* A read that succeeds has seen every write committed before it began.
Linearizable == \A r \in Readers : pc[r] = "done" => seen[r] >= begun[r]

\* No other read uses the request context of r.
OwnContext(r) == \A q \in Readers : KeyOf[q] = KeyOf[r] => q = r

\* The same, for a read whose request context no other read uses: whatever
\* the others do, share, time out on or lose.
OwnContextLinearizable ==
  \A r \in Readers : OwnContext(r) /\ pc[r] = "done" => seen[r] >= begun[r]

\* n.waiters holds one channel per context, and it is one that nobody has
\* sent to or closed: handleReadStates never blocks the run loop on a full
\* channel and never sends on a closed one.
WaiterWritable ==
  /\ \A q \in waiters : channel[q] = Empty
  /\ \A q, r \in waiters : KeyOf[q] = KeyOf[r] => q = r
=============================================================================
