# TLA+ models of StellMap

StellMap (`stellmapd`) is a service registry: one Raft group (go.etcd.io/raft)
replicates a Pebble key-value state machine, HTTP handlers register, renew,
query and watch instances, and a background loop removes expired leases. This
directory holds TLA+ models of its core, the TLC configurations that check
them, and TLAPS proofs of the main invariants.

Paths below are relative to the root of the repository.

## 1. Inventory

| component | state | operations | what makes it correct |
|---|---|---|---|
| write-ahead log, `internal/wal` | `hardstate.bin`, numbered segment files, the mirror `entries`/`segments` in memory | `Open`, `Append` (append, gap, rewriteTail), `TruncatePrefix`, `Sync`, `Close` | what was appended and not released is recovered after a crash, in order and without a gap; the mirror by which files are chosen for deletion is right |
| raft node, `internal/raftnode/node.go` | WAL, snapshot, Pebble, `raft.MemoryStorage`, `status` | `bootstrapStorage`, `handleReady`, `applyCommittedEntries`, `maybeTriggerSnapshot`, `run`, `Stop` | a crash anywhere leaves a disk from which exactly the committed state is rebuilt; compaction never outruns the snapshot; the published applied index is true |
| linearizable reads, `ReadIndex`, `LinearizableRead` | table of waiters, one channel per request context | register, request, answer, timeout, poll, read | reads see every write committed before they began; the run loop never blocks on or panics over a reader's channel |
| state machine, `internal/storage` | Pebble: business keys, applied index and term, member addresses | `Apply`, `Get`, `Scan`, `Snapshot`, `Restore`, setters | blind overwrites applied in log order; `Restore` replaces everything |
| snapshot store, `internal/snapshot` | `.snap` and metadata files | `Create`, `Install`, `OpenLatest`, `Cleanup` | the latest complete snapshot survives a crash and a concurrent `Create` |
| snapshot transfer, `internal/runtime` | chunk sessions | `InstallSnapshotChunk`, `DownloadSnapshot`, `InstallSnapshot` | a partial transfer installs nothing; installation does not race the run loop |
| watch hub, `internal/registry/watch.go` and the SSE handlers | history ring, watcher table, a buffered channel per connection | `Publish`, `SubscribeSince`, unsubscribe, snapshot, replay, stream | a client's revision is a cursor it can resume from; no event is lost on an open connection; nobody sends on a closed channel |
| leases, `handlers_impl.go`, `app.go`, `registry/cleanup.go` | lease per instance, cleanup cursor | `Register`, `Deregister`, `Heartbeat`, `CleanupExpiredRegistry` | expired instances go, the paged sweep skips nothing |
| cross-region replication, `internal/app/replication.go` | checkpoint per remote service, replicated keys | stream, apply event, import snapshot, save checkpoint | the checkpoint never runs ahead of what is stored |
| membership and address book, `app.go`, `internal/runtime` | Pebble metadata, in-memory address book, cached peer clients | add learner, promote, remove, transfer leadership; forward, restore, persist | addresses follow the committed changes, also across restarts; nobody is sent to at an address that is gone |
| identity, query and selectors, `registry/model.go`, `selector.go`; the readers `QueryInstances`, `WatchInstances`, `PrometheusSD` | none of their own; the view of a watching client | normalise, parse, match, scan, stream | an answer holds exactly what the question means, in whichever form it is put; a filtered watch shows the same |
| metrics, logging, CLI, configuration, generated gRPC code | none that others read | | not modelled |

How they interact. The raft library hands a `Ready` to the run loop, which
persists it (WAL, memory storage), applies its committed entries (Pebble),
perhaps takes a snapshot and compacts, and passes the `Ready` on through the
buffered channel `readyCh`. `forwardReadyLoop` takes it from there, sends
messages to peers, carries committed membership changes into address book,
client cache and Pebble, and publishes registry events to the watch hub; each HTTP
connection has a handler goroutine that drains its own channel. Readers and
writers are HTTP goroutines: writers propose and answer, readers register a
waiter, ask raft for a read index, wait and read Pebble. Snapshots of peers
arrive in gRPC goroutines. What is hard: a crash between any two system calls;
an error in the middle of an operation that nobody rolls back; the timeouts of
readers against the answers of the run loop; `Publish`, which sends outside its
lock; read-decide-propose sequences of handlers and cleanup; the second
application of entries after a restart; membership changes that raft has taken
over while their addresses are still on the way to Pebble. `PROJECT.json` lists these places, line
by line, under `hazards`.

## 2. Modules

| module | models | state and actions |
|---|---|---|
| `RaftLog` | the contract of `wal.WAL` (abstract) | the recoverable log and hard state; a crash is a stuttering step |
| `FileWAL` | `internal/wal/wal.go` | memory, directory, and the call that holds `w.mu`; one action per system call; `Crash` and `IOError` between them |
| `RaftNode` | `node.go`, one node | WAL interval, snapshot, Pebble, memory storage, status; one action per durable step of `bootstrapStorage` and `handleReady`; `Crash` |
| `ReadBarrier` | `ReadIndex`, `LinearizableRead`, `Get`/`Scan`, the answer to `Propose` | waiters, channels, the leader's pending read indexes; one action per step of reader, leader and run loop |
| `WatchHub` | `emitReady`, `forwardReadyLoop`, `WatchHub`, `WatchInstances`, `WatchReplication`, `registryWatchSnapshot` | `readyCh`, history, watcher table, channels, per-connection cursor |
| `RegistryLease` | `Register`, `Deregister`, `Heartbeat`, `CleanupExpiredRegistry`, `CleanupCursor`, `IsAlive` | clock, log of proposals, leases, handlers, cleanup sweep |
| `SnapshotStore` | `internal/snapshot/snapshot.go`, the chunk sessions of `transport_service.go` | files per snapshot, sessions, and for each `Create` what it does next; one action per system call of `Create` and `Cleanup`, per chunk; `Fail`, `Crash` |
| `Replication` | `internal/app/replication.go`, the source's `WatchReplication` as it sees it | the source's changes and history, the local leader, proposals taken and not committed, directory and checkpoint, the loop of each node; one action per step of the loop; `Commit`, `Crash`, `Depose` |
| `RegistryQuery` | `registry/model.go`, `selector.go`, the values of `registry/replication.go` | operators only: identities, keys, instances, selectors, queries |
| `Discovery` (extends `RegistryQuery`) | `QueryInstances`, `WatchInstances`, `PrometheusSD` over what `Register`, `Heartbeat`, `Deregister` and replication write | clock, directory, replicated directory, one watcher with its view and its events |
| `Membership` | the admin handlers, `applyConfChangeContext`, `address_book.go`, the client cache of `peer_transport.go`, `App.Start` and `App.Stop` | committed changes, raft's configuration, `readyCh`, book, clients, Pebble's addresses, the snapshot; one action per step of handlers, run loop, forwarding loop and process; `Exit` |
| `RaftNodeProofs`, `ReadBarrierProofs`, `RegistryLeaseProofs`, `MembershipProofs`, `SnapshotStoreProofs`, `WatchHubProofs`, `ReplicationProofs` | theorems about the module of the name | the inductive invariant, its lemmas, the theorems |
| `SharedLemmas` | lemmas that several of these use | least and greatest elements of finite sets of numbers, head, tail and end of a sequence |
| `MC*` | instances for TLC | constants and model values only |

Definitions keep the names of the code where they can. Definitions commented
"Faulty variant of X" are not part of the specifications: each is X with one
plausible mistake in it, used to show that a property would notice. Nothing in
`Next` refers to them. `PROJECT.json` lists, under `map`, the lines each
definition stands for and, under `mutants`, which variant breaks which property.

Abstractions shared by all modules: a log entry is its index (and term, in
`FileWAL`), a command is the set of keys it overwrites, a payload is left out.
The raft library is external: it is modelled by what it may hand over.

* `FileWAL` distinguishes the two writes of a record (length, payload), the
  creation and the removal of files, and write-then-rename, which is atomic. A
  crash kills the process and not the machine: what was written is there.
  `Admissible` is what raft may append: consecutive entries above the released
  ones.
* `RaftNode` treats the creation of a snapshot and each half of `WAL.Append`
  (hard state, entries) as atomic. `Touch[i]` are the keys that entry i
  overwrites, and the value of a key is the index of the entry that wrote it.
  Entries of different terms at one index are not told apart; only committed
  entries are applied. The branch of `handleReady` for a `Ready` with a snapshot
  cannot be reached, because peers send snapshots by gRPC and not through
  `Step`.
* `ReadBarrier` lets a deadline fire at any time. The leader keeps one read
  index per request context and ignores a context that is already pending, as
  raft's `readOnly` does.
* `WatchHub` sees one node without restarts. Each entry is one event of a
  watched instance; the filters of a query are left out.
* `RegistryLease` sees leases only. Clocks of different leaders agree. The cleanup
  is that of whichever node leads; a node that is elected goes on from the cursor
  it was left with when it led last, so `Lead` takes any.
* `SnapshotStore` takes a snapshot for its index and its data for a few chunks. A
  `.snap` file is missing, partial or whole; a `.meta` file, which is written
  aside and renamed, is there or not.
* `Replication` follows one service of one source. The source's hub is used by
  the contract that `WatchHub` checks: a stream omits no change after the
  revision it starts from. The value of an instance is the revision that wrote
  it. `ProposeCommand` returns before the command is committed, so commands wait
  in `pending`, and a new leader may lack the end of them; a transfer of the
  leadership keeps them all. Leaders crash or are replaced at any time, and the
  stream of one that is replaced goes on. Two history variables follow what that
  does to the checkpoint: `owner`, the node whose stream was opened last, and
  `spoilt` (section 3).
* `RegistryQuery` takes a text for the sequence of segments between its dots and a
  selector for the sequence of its words and marks, so that parsing is real:
  commas inside and outside parentheses, `!` and `!=`, `in` and `notin` are told
  apart by the code's rules. White space, which the code trims everywhere, is
  left out. `SegPrefix` says which segment begins with which other, for
  `strings.HasPrefix`.
* `Discovery` states what a question means apart from its form (`meant`,
  `condition`) and derives the URL parameters from it (`parameters`); handler
  and meaning then go separate ways and are compared. A write is one step here:
  its steps are in `RegistryLease`, those of the delivery in `WatchHub`.
* `Membership` sees one node. Its three addresses go together, closing a client
  does not fail, and the log holds membership changes only; other entries show
  in that a snapshot may be taken at any time. A proposal is committed or lost,
  whatever its handler was told. The variables `forwarded`, `lost` and `stray` are
  history: the state machine never reads them.

## 3. Runs

| run | expects | shows |
|---|---|---|
| `wal` | pass | `FileWAL` implements `RaftLog` (`DurableLog`), with crashes between records, removals and calls, and with `TruncatePrefix` failing anywhere; what the WAL reports is on disk; memory and files agree unless a call failed |
| `wal_rewrite_crash` | violation | a crash in `rewriteTail` loses entries below the conflicting batch |
| `node` | pass | recovery finds the committed log, rebuilds exactly the committed state; snapshots, compaction, the unsigned subtraction and the status are right; the node catches up for good |
| `read` | pass | three reads, two sharing a key: the waiter table is safe, and the read with a context of its own is linearizable |
| `read_shared_key` | violation | of two reads of one key, one's timeout lets the other through with index 0 |
| `watch` | pass | two connections: cursors without gaps, nothing published is lost on an open connection, clients end up up to date |
| `watch_panic` | violation | `Publish` sends on a channel that a disconnect has closed |
| `lease` | pass | the paged sweep is complete, whoever leads and whatever is refused, and every expired lease goes |
| `snapshot` | pass | local snapshots against two transfers of one snapshot, interleaved call by call, with an I/O error or a crash: the newest `Keep` snapshots have their data, the latest never goes back, chunks of different transfers are never mixed |
| `replication` | pass | the source loses its history, streams fail and overlap, leaders crash or are replaced, and new leaders lack commands, all in one behaviour: unless the checkpoint is spoilt (below), a stream that has been applied left nothing out, and the directory ends up as the source's |
| `query` | pass | six questions in every form against the directory: `QueryInstances` answers with exactly the live instances meant, local before replicated and never a checkpoint (`QueryExact`); a filtered watch gives its client that view (`ViewExact`); an identity is found in whichever form it is given (`Addressable`); Prometheus is sent to the live instances it asks for, at addresses they have, and to nothing else (`TargetsExact`) |
| `membership` | pass | a node comes, moves, is promoted and goes, with snapshots, a stop or a crash anywhere: no cached client outlives its address (`NoStaleClient`), book and Pebble follow the log (`BookFollowsLog`), every change comes through (`AllForwarded`) |

The violations are disagreements between the code and what its documentation or
comments say; `PROJECT.json` quotes the lines under `findings`. The passing runs
of the same modules exclude exactly the cause: `CrashIn` without `"rewrite"`, a read
without a partner on its context; after a panic of `Publish` the process is gone,
and the properties of `watch` ask nothing more of it.

Some switches of the models are in no run. `CrashIn` with `"record"`: a crash
between the length and the payload of a record makes `Open` fail for good.
`CrashAt` with `"entries"` in `RaftNode`: `Append` replaces `hardstate.bin` before it
writes the entries (`wal.go:153`), so a crash in between leaves a commit index
beyond the log, and `Recoverable` fails, against `README.md:357-358` and
`internal/raftnode/node.go:889`; `RecoveredExact` fails too, and the other
properties of the module hold (section 4). `Exclusive = FALSE` in `SnapshotStore`: two `Create`s
of the same snapshot share a temporary file, and `RetainedWhole` fails.

`Replication` has no such switch: every fault is in the run, and `spoilt` records
when one of three things has happened that the loop does not survive.

1. A stream is opened while commands of an earlier one are on their way or
   another node's stream is still read (`ReadCheckpoint`). The code only waits
   `replicationRetryDelay` in between. Two streams then write in turn, and an older
   value can follow a newer one.
2. Commands are lost while a stream goes on whose next checkpoint will stand for
   them: those of a follower that once led, or those cut off when a leader that
   goes on reading is replaced (`lose`).
3. The closing checkpoint of an import is lost when there is an older one. The
   import begins by clearing the directory, so what is stored is no longer what
   the older checkpoint says, and the next stream may be a replay from there.

Each of the three makes `NothingSkipped` fail if it is left out of `spoilt`, against
`docs/design/cross-region-directory-sync.md:545-548`, which promises that no event is
skipped after a crash. An import that is taken whole while nothing else is on its
way makes the directory good again and ends the exception (`TakeSnapshot`). Nothing
else does: until the source forgets its history, a spoilt directory may stay so.

What the passing runs step around:

* A repeated `service` parameter: `README.md:808` says it can be repeated, but
  `ParseQuery` keeps the first value as `query.Service` and `MatchServiceQuery` asks
  for it as well as for the list, so only the first service is found. The
  questions of `query` name one service.
* `servicePrefix` is `strings.HasPrefix` (`model.go:550`): `co.trade.order` also finds
  `co.trade.orders.eu`, where `docs/modules/registry.md:92-95` says that a prefix
  matches the equal name or one that goes on with a dot. `meant` takes the
  document's rule, so `QueryExact` fails for such a prefix after one registration;
  the prefixes among the questions of `query` begin no longer segment. The watch
  keeps one that does: `ViewExact` compares the stream with the query, and both
  take the code's rule.
* An instance id with a slash: `ParseKey` refuses the key, so that no event is
  published and a watcher never learns of the instance, which queries do find.
  `ViewExact` and the replicated side of `QueryExact` are about keys that can be
  parsed.
* `stellmapctl member promote` sends no address (`cmd/stellmapctl/main.go:205`), and
  `SetMemberAddress` then overwrites the stored one with nothing (`app.go:462`): the
  book still has it, but after a snapshot and a restart it is gone. The same
  happens to a change that a snapshot overtakes, since `maybeTriggerSnapshot` runs
  before `emitReady`, and to one that is forwarded between Stop's copy of the book
  and its writing. `misrecorded` names these cases in `BookFollowsLog`. A removal
  is not among them: it carries no address, and the stored one is to go.
* Configured addresses have precedence at a restart (`app.go:487`): a configured
  member that was removed is back in the book. `BookFollowsLog` is about nodes
  that are not configured.
* Cleanup scans before it reads the clock and proposes its deletions blindly
  (`app.go:312-341`): a lease that is renewed in between is deleted. No document
  says otherwise, and no property of `lease` is about it.
* `PrometheusSD` takes the first endpoint that matches and drops the instance if
  its host is a wildcard, whatever other endpoints it has; `TargetsExact` asks for
  a target only if no address is a wildcard.
* `AddLearner` sets the address before it proposes the change
  (`handlers_impl.go:1066`): if the proposal is lost, the address stays (`stray`).

### Bounds

* `wal`: 4 indexes, 2 terms, batches of 2, 2 records per segment: three segments,
  a boundary segment that is cut, a conflicting batch that begins in, before and
  behind a segment boundary.
* `node`: 5 entries, a snapshot every 2, 1 retained, 2 crashes: a crash during the
  recovery from a crash, two snapshots with a compaction between them, batches
  that stop short of the commit index. Two keys written alternately, so that an
  old write can hide a new one and a key can be missed.
* `read`: one write is enough to tell a stale read from a fresh one; three
  readers, for two that share a context and a bystander.
* `watch`: 4 events, a history of 2, a channel of 1: replays of no, one and two
  events, a revision on each side of the edge of the history, a channel that
  overflows while it is being drained, two connections in either order.
  `readyCh` holds every `Ready`; `NoGap` is about no other case (section 4).
* `lease`: 2 keys, pages of 1, 2 requests, a clock of 3 and 2 leaderships lost or
  deletions refused: every page is full, the sweep wraps on an empty page, a
  lease runs out while another runs on, a deletion is proposed twice, a deletion
  is refused and the next one lost.
* `snapshot`: 5 indexes, 2 kept, 2 transfers of 2 chunks of snapshot 2: it is older
  or newer than the local ones, is cleaned up and installed again, and its
  `.meta` appears or goes between the listing and the removal of another
  `Cleanup`. One fault; a crash needs no second one, since every file state a
  crash leaves is reached by stopping there.
* `replication`: 2 revisions of 2 instances or of something else, 2 nodes, 2
  pending commands, 2 faults, and a source that may forget at any time: a replay
  of nothing, of one event and over a filtered one, a snapshot whose contents are
  ahead of its revision, a second stream behind or beside the first, an import
  that is cut short, repeated, or makes a spoilt directory good. Each of the
  clauses of `spoilt` was seen to be needed, the first with a third fault. The run
  may stop: streams wait for events.
* `query`: identities of 3 dimensions instead of 5, three services (one beginning
  like another, one whose last dimension has a dot, one without dimensions),
  three refused registrations, 3 writes, leases of one tick and a clock of 3:
  an instance enters and leaves a filter, expires, is renewed and replaced, while
  the watcher subscribes, reads its revision, scans and streams.
* `membership`: 2 nodes, 2 changes after the first, one request on this node, one
  stop or crash: a node that comes and moves, comes and goes, is promoted
  without an address, in either order, with a snapshot before, between or after.
  `readyCh` holds every `Ready`.

### Fairness

* `RaftNode`: a supervisor restarts the process, the run loop finishes its `Ready`,
  and raft's goroutine offers a `Ready` while committed entries wait. Nothing is
  assumed about new entries.
* `WatchHub`: the run loop, the forwarding loop and the handlers run; clients need
  not come, stay or leave, and entries need not arrive.
* `RegistryLease`: proposals that survive are applied, the cleanup loop runs (it is
  driven by a ticker), and a cluster without a leader elects one, this node or
  another. Handlers and the clock are not assumed to make progress. Leaderships
  are lost and deletions refused finitely often (`MaxFaults`).
* `Replication`: the loops run (they are goroutines that retry for ever) and raft
  commits what it has taken. Nothing is assumed about the source. Faults are
  finitely many (`MaxFaults`).
* `Membership`: run loop and forwarding loop run until Stop cancels them, Stop
  comes to its end and the process with it, and a supervisor starts it again.
  Requests, elections and snapshots need not come, and a handler need not
  finish. Processes end finitely often (`MaxRestarts`).
* `Discovery` states no liveness.

## 4. Proofs

All theorems hold for every value of the constants that the named assumption of
each module allows (`RaftNodeAssumption`, `RegistryLeaseAssumption` and so on:
bounds are numbers, capacities are not 0, names that must differ do; the sets of
nodes, connections, requests and transfers may have any size). The theorem of
type correctness and each invariant follow from an inductive invariant, `IInv`,
which was first checked with TLC on the instance of the run. Further hypotheses
are satisfied by the run that checks the property, and TLC refutes one of the
properties without each of them: `Recoverable` and `RecoveredExact` without
`AppendAtomic`, `RetainedWhole` without `Exclusive`, `NoGap` and `BookFollowsLog` without
`NoDrop`. No theorem has a hypothesis that only its proof needs. `NoDrop` speaks of
behaviours: whenever `emitReady` sends, `readyCh` has room. The runs satisfy it by
their capacities; in the code, with its 16 places, it depends on how fast the
forwarding loop is.

| theorems of | prove | under |
|---|---|---|
| `RaftNodeProofs` | `TypeOK`, `SnapshotCut`, `AppliedWithinCommit`, `NoUnderflow`, `StatusHonestOnceResumed` | |
| | `Recoverable`, `RecoveredExact` | `AppendAtomic` |
| | `RetainHonoured` | `Retain` below `SnapshotEntries` |
| `ReadBarrierProofs` | `TypeOK`, `WaiterWritable`, `OwnContextLinearizable` | |
| `RegistryLeaseProofs` | `TypeOK`, `SweepComplete` | |
| `MembershipProofs` | `TypeOK`, `NoStaleClient`, `MembersInv` (raft's members follow the log) | |
| | `BookFollowsLog` | `NoDrop` |
| `SnapshotStoreProofs` | `TypeOK`, `AssembledWhole`, `LatestNeverBack` (an action property) | |
| | `RetainedWhole` | `Exclusive` |
| `WatchHubProofs` | `TypeOK`, `NothingLost` | |
| | `NoGap` | `NoDrop` |
| `ReplicationProofs` | `TypeOK`, `NothingSkipped` | |

`RaftNodeProofs`. None of the properties is inductive. The inductive invariant
`IInv` has four parts beside the types: `LogInv` (where the WAL stands relative to
the snapshot and the commit index), `ReadyInv` (the bounds of the `Ready` in hand),
`OrderInv` (snapshot, memory storage, applied and commit indexes in order, stage
by stage) and `DataInv` (which prefix of the log the keys, the snapshot and the
applied index stand for at each stage). The difficulty is the second application
after a restart: keys go back to older values, so "the state is the result of
the log up to `cursor`" is false. What is inductive is that nothing up to `cursor`
is missing (`Fresh`) and that nothing comes from beyond the commit index
(`Bounded`); the two meet, as `Exact`, when the commit index is reached. `IInv`
survives a crash between the two halves of `WAL.Append`: the WAL then ends before
the commit index, `RestartNode` refuses to start, and nothing is applied or
snapshotted from there on. `AppendInv`, that the WAL reaches the commit index,
does not survive it. It needs `AppendAtomic`, and `Recoverable` and `RecoveredExact`
need it.

`ReadBarrierProofs` proves `TypeOK` and `WaiterWritable` for any request contexts
(`TableInv`: a read that has not begun has an empty channel and is not in the
table), and `OwnContextLinearizable`: for a read whose context no other read uses,
every index on its way from the leader to the poll is at least the commit
index it began with (`OnTheWay`).

`RegistryLeaseProofs`. `SweepComplete` says that what the sweep still owes lies
at or behind the cursor. To keep it, a page must reach from the cursor without a
hole, so that the keys behind the last one read are all that is left; that is a
fact about the `Limit` smallest elements of a set, for any `Limit` (lemmas on
`page`). The invariant adds that what is owed is still stored (`OwedInv`); for the
types it says what a handler carries (`HandlerInv`) and that a page is finite
(`SweepInv`).

`MembershipProofs`. `NoStaleClient` is inductive beside the types once a process
that is down is known to hold nothing (`DownInv`) and a forwarding loop that is
not idle to be at a change of the log (`ForwardInv`): whoever changes the book is
the witness that the client is about to go, until it drops it.

`BookFollowsLog` compares the book with a log that went through the run loop,
`readyCh` and the forwarding loop, and, after a restart, through the snapshot and
Pebble. The invariant has four more parts. `WayInv`: from the last forwarded
change to the applied index the changes on their way leave no gap (this is what
`NoDrop` is for). `MembersInv`: members are those of the log, in raft and in the
snapshot. `LostInv`: what a snapshot was taken without is named by its `lost`, and
a start takes that over. `AddressInv`: for each of the four places that hold an
address (`BookInv`, `PersistedInv`, `SavingInv`, `SnapInv`), once it has reached the last
change that says anything about a node's address (`told`), it holds what that
change says, or the node is `spoilt` there: its last change up to that point was
lost or overwrote the address with nothing. A wrong address that a process has
read from its snapshot stays in the book while later changes without an address
go by, so the book's part looks back to the start (`spoiltAtStart`). Wrong
recordings of two restarts can follow each other, and the induction shows that
the last snapshot names them all.

`SnapshotStoreProofs`. What a `Cleanup` is about to remove was chosen from a list
that may be out of date. `DoomInv` says that it is old all the same: at least `Keep`
newer snapshots are there. This stays true under other `Cleanup`s because they,
too, remove only what is old, so that the `Keep` newest never go; `LatestNeverBack`
follows. `SessionInv` (a stream with an accepted chunk owns the session) gives
`AssembledWhole`. `RetainedWhole` needs `Exclusive`, that Creates of one snapshot do
not overlap: they share a temporary file. Then the file of a `Create` is what
its step says (`FileInv`), up to snapshots that have become old meanwhile.

`WatchHubProofs`. For `NoGap` the revisions are consecutive on their whole way:
`readyCh`, the `Ready` at hand, the history (`LogInv`), the event being published
(`PubInv`), each channel (`ChannelInv`); and a client knows all that is before its
channel (`KnownInv`). `NoDrop` says that `readyCh` is not full when `emitReady` sends: a
`Ready` that is dropped is a gap that no later step closes. `NothingLost` holds with
such gaps, since the history has them too, and its invariant says less of the
revisions, that they rise (`RisingInv`), and more of each connection: what is still
to come and not above the cursor is known already, so that the handler skips
nothing new (`SkipInv`), and what the history has is known, buffered or being sent
(`OwedInv`). The subscription establishes both from the history, or from a
snapshot whose revision was read before its scan.

`ReplicationProofs`. When a stream is applied, the directory must be the source's
up to the stream's revision. Until then commands are pending, or not even
proposed, and the directory may be cleared and half filled, so an invariant on
the directory does not do. `FutureInv` speaks of the path of states that the
queued commands will make of directory and checkpoint (`Path`), and says that it
ends in a state that is right up to its own checkpoint, and up to the
stream's revision (`Sound`). Since commands can be cut short anywhere, every state
on the path has to be right: those of an event are, because the instance is
written before the checkpoint (`FutureEvent`); those of an import are not, and of
them only the checkpoint is said. A cut in the middle of an import therefore
leaves a directory without a checkpoint, which is right up to nothing, or it
spoils the checkpoint. The queue is that of `owner`, the only node that is past
reading its checkpoint as long as nothing is spoilt (`StageInv`). `LoopInv` holds
even when the checkpoint is spoilt, and an import that begins on an idle cluster
restores the rest from it. The theorem has no hypothesis: `spoilt` is part of the
property, and what sets it is stated by the actions.

Checked by TLC only:

* the liveness properties (`CatchesUp`, `Delivered`, `ExpiredRemoved`, `Converges`,
  `AllForwarded`), which need fairness and ENABLED;
* `FileWAL` (`TypeOK`, `MirrorMatchesDisk`, `ReportedOnDisk`, the refinement `DurableLog`) and
  `Discovery` with `RegistryQuery` (`TypeOK`, `QueryExact`, `ViewExact`, `Addressable`,
  `TargetsExact`). Their state is built with folds, sorting, `FlattenSeq` and
  `SelectSeq`. What a fold computes for every input needs induction over data, which
  the provers do not do, and `SelectSeq` is opaque to them: it takes an operator,
  and not even its value on the empty sequence is found. That concerns the types
  as much as the rest, since every record on disk and every instance in an answer
  goes through one of these.

## 5. Not modelled, and why

* Power failures: `hardstate.bin` and snapshot metadata are written without fsync;
  a model needs a page cache.
* What `InstallSnapshot` does beside the files (`service.go:191-236`). It replaces the
  state machine and the memory storage under the run loop, the raft library is
  not told, and the hard state on disk keeps its old commit index, which a
  restart finds below the snapshot. `Recoverable` fails after any installation;
  what the library does before that is its own matter and not this code's.
* The body of a registration in `RegistryLease`: a heartbeat that overlaps a
  re-registration writes the old endpoints back, as it does the old lease.
* The sender's side of a transfer: the code never calls raft's `ReportSnapshot`,
  so whether a follower catches up depends on the library's progress states.
* The in-memory WAL (a test double), metrics, logging, configuration, the command
  line client, generated code: no state that the rest depends on.

* The targets that `PrometheusSD` lists for stellmapd itself, and the labels of a
  target: formatting.

## 6. Plan

Modelled is what every acknowledged write depends on (the WAL, the node that
uses it), then reads, watches, leases, snapshots, replication, queries and
membership. Every safety property of the modules other than `FileWAL` and
`Discovery` is proved, and those two stay with TLC for the reasons in section 4.
What would extend the project, in this order:

1. `InstallSnapshot` inside `RaftNode`, once it is settled what the hard state and
   the raft library are to be told (section 5).
2. A page cache below `FileWAL` and the hard state, for power failures.
3. `NothingLost` and `NoGap` across restarts of the node, which forget the history.
