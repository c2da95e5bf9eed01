----------------------------- MODULE Membership -----------------------------
(***************************************************************************)
(* The members of the cluster and their addresses, on one node: the admin  *)
(* handlers AddLearner, PromoteLearner, RemoveMember and TransferLeader    *)
(* (internal/transport/http/handlers_impl.go), the way of a committed      *)
(* change through Ready and forwardReadyLoop into the address book, the    *)
(* cache of peer clients and Pebble (internal/app/app.go,                  *)
(* internal/runtime/address_book.go and peer_transport.go), and what Stop, *)
(* a crash and Start make of them.                                         *)
(*                                                                         *)
(* The goroutines: the handler of each admin request, the run loop, and    *)
(* the forwarding loop, which also sends to the peers.                     *)
(*                                                                         *)
(* Abstractions.  A node's HTTP, gRPC and admin addresses go together, as  *)
(* one.  The log holds the membership changes only; that a proposal is     *)
(* committed or lost is up to raft.  A Ready holds one change.  Start, in  *)
(* which no other goroutine touches the addresses, is one step; closing a  *)
(* client does not fail.                                                   *)
(***************************************************************************)
EXTENDS Integers, Sequences, FiniteSets, FiniteSetsExt

CONSTANTS
  Nodes,        \* the node ids
  Self,         \* this node
  Bootstrap,    \* the initial members, in order: the first entries of the log
  Addrs,        \* the addresses, "" among them, which stands for none
  Configured,   \* the addresses in the configuration, "" if none
  Changes,      \* the changes that are asked for
  Handlers,     \* the admin requests to this node
  ReadyCap,     \* capacity of n.readyCh (cfg.ReadyBufferSize)
  MaxLog,       \* bound: the number of changes
  MaxRestarts   \* bound: how often the process ends

None   == "none"
Change == [type : {"learner", "voter", "remove"}, node : Nodes, addr : Addrs]

ASSUME MembershipAssumption ==
  /\ Self \in Nodes
  /\ Bootstrap \in Seq(Nodes) /\ Len(Bootstrap) <= MaxLog
  /\ "" \in Addrs /\ None \notin Addrs /\ Configured \in [Nodes -> Addrs]
  /\ Changes \subseteq Change
  /\ ReadyCap \in Nat \ {0} /\ MaxLog \in Nat /\ MaxRestarts \in Nat

VARIABLES
  log,         \* the committed changes
  leading,     \* status.Role is leader
  pc, req,     \* each admin handler: its stage and its change
  members,     \* raft's configuration on this node
  applied,     \* the index up to which the run loop has applied the log
  inHand,      \* the index it has applied and not emitted yet, 0 if none
  readyCh,     \* the changes waiting for the forwarding loop, by index
  fwd,         \* the forwarding loop: the index it is at, and its stage
  forwarded,   \* history: the last index it has finished or the snapshot holds
  lost,        \* history: changes that a snapshot overtook or Stop wrote over
  book,        \* the address book, "" if a node has no address
  clients,     \* the address that the cached client of each node was made for
  persisted,   \* the member addresses in Pebble, None if absent
  snap,        \* the latest snapshot: its index, members, addresses
  up,          \* the process is "up", "stopping", "stopped" or "down"
  saving,      \* the copy of the book that Stop writes, and forwarded at that time
  stray,       \* history: nodes whose address a handler has set on its own
  restarts     \* history: how often the process has ended

admin  == <<pc, req, stray>>
raft   == <<log, leading, members, applied, inHand, snap>>
peers  == <<book, clients, persisted>>
vars   == <<admin, raft, readyCh, fwd, forwarded, lost, peers, up, saving, restarts>>

Absent == [n \in Nodes |-> None]
Idle   == [at |-> 0, stage |-> "idle"]
Saved  == [book |-> Configured, at |-> 0]

NoChange == [type |-> "voter", node |-> Self, addr |-> ""]

\* raft.StartNode: a change without context for every initial member.
Init ==
  /\ log = [i \in DOMAIN Bootstrap |-> [type |-> "voter", node |-> Bootstrap[i], addr |-> ""]]
  /\ leading = FALSE
  /\ pc = [h \in Handlers |-> "new"] /\ req = [h \in Handlers |-> NoChange] /\ stray = {}
  /\ members = {} /\ applied = 0 /\ inHand = 0 /\ readyCh = << >>
  /\ fwd = Idle /\ forwarded = 0 /\ lost = {}
  /\ book = Configured /\ clients = Absent
  /\ persisted = [n \in Nodes |-> IF Configured[n] = "" THEN None ELSE Configured[n]]
  /\ snap = [index |-> 0, members |-> {}, addrs |-> Absent, lost |-> {}]
  /\ up = "up" /\ saving = Saved /\ restarts = 0

running == up # "down"

\* ensureLeader: a request for a change is let in on the leader only.
ensureLeader == running /\ leading

-----------------------------------------------------------------------------
(* The address book and the clients. *)

\* AddressBook.Set: an empty address changes nothing.
Set(b, n, addr) == IF addr = "" THEN b ELSE [b EXCEPT ![n] = addr]

\* AddressBook.Delete.
Forget(b, n) == [b EXCEPT ![n] = ""]

\* Faulty variant of dropClient: the client of a node that has moved is kept.
dropClientOfRemoved(n) == clients' = [clients EXCEPT ![n] = IF book[n] = "" THEN None ELSE @]

\* UpsertPeer and RemovePeer, second half: under the lock, the client is
\* closed and dropped.
dropClient(n) == clients' = [clients EXCEPT ![n] = None]

\* PeerTransport.client, from Forward and sendSnapshot: under the lock, a
\* client for the address in the book is made and kept.
Dial(n) ==
  /\ running /\ fwd = Idle
  /\ n # Self /\ clients[n] = None /\ book[n] # ""
  /\ clients' = [clients EXCEPT ![n] = book[n]]
  /\ UNCHANGED <<admin, raft, readyCh, fwd, forwarded, lost, book, persisted, up, saving, restarts>>

-----------------------------------------------------------------------------
(* The admin handlers. *)

\* AddLearner: UpsertPeer comes first ...
AddLearner(h, c) ==
  /\ ensureLeader /\ pc[h] = "new" /\ c.type = "learner"
  /\ pc' = [pc EXCEPT ![h] = "drop"] /\ req' = [req EXCEPT ![h] = c]
  /\ book' = Set(book, c.node, c.addr)
  /\ stray' = stray \cup {c.node}
  /\ UNCHANGED <<raft, readyCh, fwd, forwarded, lost, clients, persisted, up, saving, restarts>>

AddLearnerDrop(h) ==
  /\ running /\ pc[h] = "drop"
  /\ pc' = [pc EXCEPT ![h] = "propose"]
  /\ dropClient(req[h].node)
  /\ UNCHANGED <<raft, req, stray, readyCh, fwd, forwarded, lost, book, persisted, up, saving, restarts>>

\* ... PromoteLearner and RemoveMember go straight to the proposal.
ChangeMember(h, c) ==
  /\ ensureLeader /\ pc[h] = "new" /\ c.type # "learner"
  /\ pc' = [pc EXCEPT ![h] = "propose"] /\ req' = [req EXCEPT ![h] = c]
  /\ UNCHANGED <<raft, stray, readyCh, fwd, forwarded, lost, peers, up, saving, restarts>>

\* ApplyConfChange: the proposal is committed, or it is lost, whatever the
\* client is told.
Propose(h) ==
  /\ running /\ pc[h] = "propose"
  /\ pc' = [pc EXCEPT ![h] = "done"] /\ req' = [req EXCEPT ![h] = NoChange]
  /\ \/ Len(log) < MaxLog /\ log' = Append(log, req[h])
     \/ UNCHANGED log
  /\ UNCHANGED <<stray, leading, members, applied, inHand, snap, readyCh, fwd, forwarded, lost,
                 peers, up, saving, restarts>>

\* TransferLeader, or an election, takes the leadership away.
TransferLeader ==
  /\ ensureLeader /\ leading' = FALSE
  /\ UNCHANGED <<admin, log, members, applied, inHand, snap, readyCh, fwd, forwarded, lost, peers,
                 up, saving, restarts>>

Lead ==
  /\ running /\ ~leading /\ Self \in members /\ leading' = TRUE
  /\ UNCHANGED <<admin, log, members, applied, inHand, snap, readyCh, fwd, forwarded, lost, peers,
                 up, saving, restarts>>

\* A change that another node has proposed is committed.
RemoteChange(c) ==
  /\ ~leading /\ Len(log) < MaxLog
  /\ log' = Append(log, c)
  /\ UNCHANGED <<admin, leading, members, applied, inHand, snap, readyCh, fwd, forwarded, lost, peers,
                 up, saving, restarts>>

-----------------------------------------------------------------------------
(* The run loop. *)

\* applyCommittedEntries: raft takes the change over.
ApplyChange ==
  /\ running /\ inHand = 0 /\ applied < Len(log)
  /\ applied' = applied + 1 /\ inHand' = applied + 1
  /\ members' = LET c == log[applied + 1]
                IN  IF c.type = "remove" THEN members \ {c.node} ELSE members \cup {c.node}
  /\ UNCHANGED <<admin, log, leading, snap, readyCh, fwd, forwarded, lost, peers, up, saving, restarts>>

\* Faulty variant of TakeSnapshot: labelled with the commit index.
TakeSnapshotCommitted ==
  /\ running /\ applied > snap.index
  /\ snap' = [index |-> Len(log), members |-> members, addrs |-> persisted,
              lost |-> lost \cup (forwarded + 1) .. Len(log)]
  /\ UNCHANGED <<admin, log, leading, members, applied, inHand, readyCh, fwd, forwarded, lost,
                 peers, up, saving, restarts>>

\* maybeTriggerSnapshot, in the Ready of a change, before it is emitted, or in
\* a later one: the configuration is raft's, the addresses are Pebble's.
TakeSnapshot ==
  /\ running /\ applied > snap.index
  /\ snap' = [index |-> applied, members |-> members, addrs |-> persisted,
              lost |-> lost \cup (forwarded + 1) .. applied]
  /\ UNCHANGED <<admin, log, leading, members, applied, inHand, readyCh, fwd, forwarded, lost, peers,
                 up, saving, restarts>>

\* emitReady: a Ready that finds the channel full is dropped.
EmitReady ==
  /\ running /\ inHand # 0
  /\ inHand' = 0
  /\ readyCh' = IF Len(readyCh) < ReadyCap THEN Append(readyCh, inHand) ELSE readyCh
  /\ UNCHANGED <<admin, log, leading, members, applied, snap, fwd, forwarded, lost, peers, up, saving, restarts>>

-----------------------------------------------------------------------------
(* The forwarding loop: applyCommittedControlEntries. *)

change == log[fwd.at]

\* applyConfChangeContext: UpsertPeer or RemovePeer, the book ...
ForwardBook ==
  LET c == log[Head(readyCh)]
  IN  /\ running /\ fwd = Idle /\ readyCh # << >>
      /\ readyCh' = Tail(readyCh)
      /\ fwd' = [at |-> Head(readyCh), stage |-> "drop"]
      /\ book' = IF c.type = "remove" THEN Forget(book, c.node) ELSE Set(book, c.node, c.addr)
      /\ stray' = IF c.type = "remove" \/ c.addr # "" THEN stray \ {c.node} ELSE stray
      /\ UNCHANGED <<pc, req, raft, forwarded, lost, clients, persisted, up, saving, restarts>>

\* Faulty variant of ForwardDrop: waits for a client to close.
ForwardDropWaits ==
  /\ running /\ fwd.stage = "drop" /\ clients[change.node] # None
  /\ fwd' = [fwd EXCEPT !.stage = "persist"]
  /\ dropClient(change.node)
  /\ UNCHANGED <<admin, raft, readyCh, forwarded, lost, book, persisted, up, saving, restarts>>

\* ... and the client,
ForwardDrop ==
  /\ running /\ fwd.stage = "drop"
  /\ fwd' = [fwd EXCEPT !.stage = "persist"]
  /\ dropClient(change.node)
  /\ UNCHANGED <<admin, raft, readyCh, forwarded, lost, book, persisted, up, saving, restarts>>

\* ... then SetMemberAddress, which also writes an empty address, or
\* DeleteMemberAddress.
ForwardPersist ==
  /\ running /\ fwd.stage = "persist"
  /\ fwd' = Idle /\ forwarded' = fwd.at
  /\ persisted' = [persisted EXCEPT ![change.node] =
                     IF change.type = "remove" THEN None ELSE change.addr]
  /\ UNCHANGED <<admin, raft, readyCh, lost, book, clients, up, saving, restarts>>

-----------------------------------------------------------------------------
(* The process. *)

\* persistCurrentAddressBook: exactly the addresses of the book.
written(b) == [n \in Nodes |-> IF b[n] = "" THEN None ELSE b[n]]

\* Stop: persistCurrentAddressBook copies the book ...
Stop ==
  /\ up = "up" /\ restarts < MaxRestarts
  /\ up' = "stopping" /\ saving' = [book |-> book, at |-> forwarded]
  /\ UNCHANGED <<admin, raft, readyCh, fwd, forwarded, lost, peers, restarts>>

\* ... and writes the copy, over what has been forwarded meanwhile.  The other
\* goroutines end at their own pace.
StopPersist ==
  /\ up = "stopping"
  /\ up' = "stopped" /\ saving' = Saved
  /\ persisted' = written(saving.book)
  /\ lost' = lost \cup (saving.at + 1) .. forwarded
  /\ UNCHANGED <<admin, raft, readyCh, fwd, forwarded, book, clients, restarts>>

\* The process ends, after Stop or by a crash.
Exit ==
  /\ running /\ restarts < MaxRestarts
  /\ up' = "down" /\ saving' = Saved /\ restarts' = restarts + 1
  /\ leading' = FALSE /\ members' = {} /\ applied' = 0 /\ inHand' = 0 /\ readyCh' = << >>
  /\ fwd' = Idle /\ forwarded' = 0 /\ lost' = {}
  /\ book' = Configured /\ clients' = Absent
  /\ pc' = [h \in Handlers |-> IF pc[h] = "new" THEN "new" ELSE "done"]
  /\ req' = [h \in Handlers |-> NoChange]
  /\ UNCHANGED <<log, snap, persisted, stray>>

\* Faulty variant of restored: the addresses in Pebble are not looked at.
restoredNothing(addrs) == Configured

\* restorePersistedMemberAddresses: the configuration has precedence.
restored(addrs) ==
  [n \in Nodes |-> IF Configured[n] = "" /\ addrs[n] # None THEN addrs[n] ELSE Configured[n]]

\* PebbleStore.Restore, from bootstrapStorage: if there is a snapshot, its
\* addresses replace those in Pebble.
Restore == IF snap.index > 0 THEN snap.addrs ELSE persisted

\* Start: the book is restored from Pebble and written down again.  Raft will
\* hand over the changes after the snapshot once more.
Start ==
  /\ up = "down" /\ up' = "up"
  /\ members' = snap.members /\ applied' = snap.index /\ forwarded' = snap.index
  /\ lost' = snap.lost
  /\ book' = restored(Restore)
  /\ persisted' = written(restored(Restore))
  /\ UNCHANGED <<admin, log, leading, inHand, snap, readyCh, fwd, clients, saving, restarts>>

-----------------------------------------------------------------------------
RunLoop == ApplyChange \/ EmitReady
ForwardLoop == ForwardBook \/ ForwardDrop \/ ForwardPersist

Next ==
  \/ \E h \in Handlers :
       \/ \E c \in Changes : AddLearner(h, c) \/ ChangeMember(h, c)
       \/ AddLearnerDrop(h) \/ Propose(h)
  \/ \E c \in Changes : RemoteChange(c)
  \/ \E n \in Nodes : Dial(n)
  \/ RunLoop \/ TakeSnapshot \/ ForwardLoop
  \/ TransferLeader \/ Lead \/ Stop \/ StopPersist \/ Exit \/ Start

Spec == Init /\ [][Next]_vars

\* The loops run until Stop cancels them, Stop comes to its end, and a process
\* that has ended is started again.
Fairness ==
  /\ WF_vars(up = "up" /\ RunLoop) /\ WF_vars(up = "up" /\ ForwardLoop)
  /\ WF_vars(StopPersist) /\ WF_vars(up = "stopped" /\ Exit) /\ WF_vars(Start)

FairSpec == Spec /\ Fairness

-----------------------------------------------------------------------------
(* Properties. *)

\* The types of the variables, by the goroutine or the store they belong to.
LogT == log \in Seq(Change) /\ Len(log) <= MaxLog /\ leading \in BOOLEAN

AdminT ==
  /\ pc \in [Handlers -> {"new", "drop", "propose", "done"}] /\ req \in [Handlers -> Change]
  /\ stray \subseteq Nodes

RunT == members \subseteq Nodes /\ applied \in 0 .. Len(log) /\ inHand \in {0, applied}

ForwardT ==
  /\ readyCh \in Seq(Nat) /\ Len(readyCh) <= ReadyCap
  /\ \A k \in DOMAIN readyCh : readyCh[k] \in 1 .. applied
  /\ fwd \in [at : Nat, stage : {"idle", "drop", "persist"}] /\ fwd.at <= applied
  /\ forwarded \in 0 .. applied /\ lost \subseteq 1 .. applied

PeersT ==
  /\ book \in [Nodes -> Addrs]
  /\ clients \in [Nodes -> Addrs \cup {None}] /\ persisted \in [Nodes -> Addrs \cup {None}]

SnapT ==
  /\ snap \in [index : Nat, members : SUBSET Nodes, addrs : [Nodes -> Addrs \cup {None}],
               lost : SUBSET Nat]
  /\ snap.index <= Len(log) /\ snap.lost \subseteq 1 .. snap.index
  /\ running => snap.index <= applied

StopT ==
  /\ saving \in [book : [Nodes -> Addrs], at : Nat]
  /\ up \in {"up", "stopping", "stopped", "down"} /\ restarts \in 0 .. MaxRestarts

\* The forwarding loop is never ahead of what has been applied, a snapshot
\* never ahead of the log, and what it lacks lies before it.
TypeOK == LogT /\ AdminT /\ RunT /\ ForwardT /\ PeersT /\ SnapT /\ StopT

\* Raft messages go to the address in the book: a client made for another one
\* is about to be dropped, whichever way handlers, forwarding and sending
\* interleave.
NoStaleClient ==
  \A n \in Nodes : clients[n] \notin {None, book[n]} =>
    \/ \E h \in Handlers : pc[h] = "drop" /\ req[h].node = n
    \/ fwd.stage = "drop" /\ change.node = n

\* The changes of node n up to index i, and the last one of a set of them.
changesOf(n, i) == {j \in 1 .. i : log[j].node = n}
latest(set)     == Max(set \cup {0})

\* The change that gave n the address it has according to the log: the last
\* one with an address since its last removal, 0 if none.
addressed(n) ==
  LET removed == latest({j \in changesOf(n, Len(log)) : log[j].type = "remove"})
  IN  latest({j \in changesOf(n, Len(log)) : j > removed /\ log[j].addr # ""})

\* What the snapshot knows of n is not what the log says: when it was taken,
\* the last change of n had not come through the forwarding loop yet or Stop
\* had written an older book over it, or it had no address and overwrote the
\* one that n had.
misrecorded(n) ==
  LET c == latest(changesOf(n, snap.index))
  IN  c \in snap.lost \/ (c # 0 /\ log[c].type # "remove" /\ log[c].addr = "")

settled ==
  /\ up = "up" /\ applied = Len(log) /\ inHand = 0 /\ readyCh = << >> /\ fwd = Idle

\* Whatever happened before, restarts included: once every committed change
\* has come through, each member has the address that the log gives it, and a
\* node that was removed has none, in the book nor in Pebble.  Left aside are
\* what a handler has put into the book on its own, the configured nodes,
\* which come back with the configuration, and what the snapshot misrecords.
BookFollowsLog ==
  settled =>
    \A n \in Nodes :
      Configured[n] = "" /\ n \notin stray /\ (addressed(n) > snap.index \/ ~misrecorded(n)) =>
        IF n \in members
          THEN addressed(n) # 0 => book[n] = log[addressed(n)].addr
          ELSE book[n] = "" /\ persisted[n] = None

\* Every committed change comes through in the end, also after crashes and after
\* a Stop that ended the loops on their way.
AllForwarded == <>[](forwarded = Len(log) /\ up = "up")
=============================================================================
