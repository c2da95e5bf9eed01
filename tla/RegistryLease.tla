--------------------------- MODULE RegistryLease ---------------------------
(***************************************************************************)
(* Leases of registered instances: the handlers Register, Deregister and   *)
(* Heartbeat (internal/transport/http/handlers_impl.go) and the background *)
(* loop CleanupExpiredRegistry with its paging cursor (internal/app/app.go *)
(* and internal/registry/cleanup.go).                                      *)
(*                                                                         *)
(* A handler and the cleanup read the state machine, look at the clock and *)
(* propose a blind put or delete, each at a moment of its own; the         *)
(* proposals are applied in log order, later.  The handlers run on the     *)
(* node that leads, and so does the cleanup: a node keeps its cursor while *)
(* it does not lead, and with the leadership a suffix of the log is lost.  *)
(*                                                                         *)
(* Abstractions.  An instance is its key, a number that gives the order of *)
(* scans; its value is the lease (ttl, time of the last heartbeat), which  *)
(* is all that cleanup looks at.  The nodes' clocks agree, and tick in the *)
(* unit of the ttl.                                                        *)
(***************************************************************************)
EXTENDS Integers, Sequences, FiniteSets, FiniteSetsExt

CONSTANTS
  Requests,      \* the requests, each handled by a goroutine of its own
  MaxKey,        \* the keys are 1 .. MaxKey
  TTLOf,         \* leaseTtlSeconds of each request, 0 if absent
  DefaultTTL,    \* registry.DefaultLeaseTTLSeconds
  Limit,         \* cfg.RegistryCleanupDeleteLimit
  MaxTime,       \* bound: the clock
  MaxLog,        \* bound: proposals waiting to be applied
  MaxFaults      \* bound: leaderships lost and deletions refused

ASSUME RegistryLeaseAssumption ==
  /\ MaxKey \in Nat /\ MaxTime \in Nat \ {0} /\ MaxLog \in Nat /\ MaxFaults \in Nat
  /\ TTLOf \in [Requests -> Nat]
  /\ DefaultTTL \in Nat \ {0} /\ Limit \in Nat \ {0}

VARIABLES
  now,         \* the clock of the node, in seconds
  leading,     \* the cluster has a leader
  faults,      \* how much of MaxFaults is spent
  log,         \* proposals accepted and not yet applied
  store,       \* the state machine: the lease of each key, None if absent
  pc, cmd,     \* each handler: its stage, and the key and value it works on
  cursor,      \* registryCleanupCursor.ScanStart of the node that leads, or led last
  sweep,       \* the cleanup in progress: its stage, clock reading and items
  owed         \* history: keys stored since the sweep began, and not yet scanned

handlers == <<pc, cmd>>
cleanup  == <<cursor, sweep, owed>>
vars     == <<now, leading, faults, log, store, handlers, cleanup>>

Keys    == 1 .. MaxKey
None    == [ttl |-> 0, beat |-> 0]
Lease   == [ttl : Nat \ {0}, beat : 1 .. MaxTime]
Start   == 1
Resting == [stage |-> "resting", at |-> 0, items |-> {}]
Command == [op : {"put", "delete"}, key : Keys, value : Lease \cup {None}]
NoCmd   == [op |-> "none", key |-> 0, value |-> None]

stored  == {k \in Keys : store[k] # None}

\* EffectiveLeaseTTLSeconds.
effective(ttl) == IF ttl > 0 THEN ttl ELSE DefaultTTL

\* IsAlive: the lease is good to the end of its last second.
IsAlive(lease, at) == at <= lease.beat + lease.ttl

\* The node begins to lead; some instances are registered.
Init ==
  /\ now = 1 /\ leading = TRUE /\ faults = 0
  /\ log = << >> /\ store \in [Keys -> {None, [ttl |-> DefaultTTL, beat |-> 1]}]
  /\ pc = [r \in Requests |-> "new"] /\ cmd = [r \in Requests |-> NoCmd]
  /\ cursor = Start /\ sweep = Resting /\ owed = {}

-----------------------------------------------------------------------------
(* The handlers.  ensureWritable leaves each request to the node that leads. *)

\* Register: the lease starts at the clock reading.
Register(r, k) ==
  /\ pc[r] = "new"
  /\ pc' = [pc EXCEPT ![r] = "proposing"]
  /\ cmd' = [cmd EXCEPT ![r] =
       [op |-> "put", key |-> k, value |-> [ttl |-> effective(TTLOf[r]), beat |-> now]]]
  /\ UNCHANGED <<now, leading, faults, log, store, cleanup>>

Deregister(r, k) ==
  /\ pc[r] = "new"
  /\ pc' = [pc EXCEPT ![r] = "proposing"]
  /\ cmd' = [cmd EXCEPT ![r] = [op |-> "delete", key |-> k, value |-> None]]
  /\ UNCHANGED <<now, leading, faults, log, store, cleanup>>

\* Heartbeat: the current lease is read; 404 if there is none.
HeartbeatRead(r, k) ==
  /\ pc[r] = "new"
  /\ IF store[k] = None
       THEN pc' = [pc EXCEPT ![r] = "done"] /\ UNCHANGED cmd
       ELSE /\ pc' = [pc EXCEPT ![r] = "renewing"]
            /\ cmd' = [cmd EXCEPT ![r] = [op |-> "put", key |-> k, value |-> store[k]]]
  /\ UNCHANGED <<now, leading, faults, log, store, cleanup>>

\* ... and renewed, with a new ttl if the request has one.
HeartbeatStamp(r) ==
  /\ pc[r] = "renewing"
  /\ pc' = [pc EXCEPT ![r] = "proposing"]
  /\ cmd' = [cmd EXCEPT ![r].value =
       [ttl |-> IF TTLOf[r] > 0 THEN TTLOf[r] ELSE effective(@.ttl), beat |-> now]]
  /\ UNCHANGED <<now, leading, faults, log, store, cleanup>>

\* ProposeCommand; the handler answers, and forgets the command.
Propose(r) ==
  /\ pc[r] = "proposing" /\ Len(log) < MaxLog
  /\ log' = Append(log, cmd[r])
  /\ pc' = [pc EXCEPT ![r] = "done"] /\ cmd' = [cmd EXCEPT ![r] = NoCmd]
  /\ UNCHANGED <<now, leading, faults, store, cleanup>>

\* The read, or the proposal, returns an error.
HandlerFails(r) ==
  /\ pc[r] \in {"renewing", "proposing"}
  /\ pc' = [pc EXCEPT ![r] = "done"] /\ cmd' = [cmd EXCEPT ![r] = NoCmd]
  /\ UNCHANGED <<now, leading, faults, log, store, cleanup>>

\* The state machine takes the next command.
ApplyCommand ==
  /\ log # << >>
  /\ log' = Tail(log)
  /\ store' = [store EXCEPT ![Head(log).key] =
                 IF Head(log).op = "put" THEN Head(log).value ELSE None]
  /\ owed' = {k \in owed : store'[k] # None}
  /\ UNCHANGED <<now, leading, faults, handlers, cursor, sweep>>

-----------------------------------------------------------------------------
(* The cleanup loop.  isRegistryCleanupLeader guards its start and each item. *)

fault == faults < MaxFaults /\ faults' = faults + 1

ahead == {k \in stored : k >= cursor}

\* Faulty variant of page: the limit is not passed on.
pageUnlimited == ahead

\* The page at the cursor: the first Limit keys stored from it on.
page == {k \in ahead : Cardinality({j \in ahead : j < k}) < Limit}

\* Faulty variants of Advance: a full page ends the sweep; no page does.
AdvanceResetsEarly(keys) == IF Cardinality(keys) <= Limit THEN Start ELSE Max(keys) + 1
AdvanceOnly(keys) == IF keys = {} THEN cursor ELSE Max(keys) + 1

\* CleanupCursor.Advance: behind the last key of a full page, else back to the
\* start.
Advance(keys) == IF Cardinality(keys) < Limit THEN Start ELSE Max(keys) + 1

\* Scan and Advance.  With the cursor at the start, a new sweep begins.
CleanupScan ==
  /\ sweep.stage = "resting" /\ leading
  /\ cursor' = Advance(page)
  /\ sweep' = IF page = {} THEN Resting
              ELSE [stage |-> "scanned", at |-> 0,
                    items |-> {[key |-> k, lease |-> store[k]] : k \in page}]
  /\ owed' = (IF cursor = Start THEN stored ELSE owed) \ page
  /\ UNCHANGED <<now, leading, faults, log, store, handlers>>

\* now := time.Now()
CleanupClock ==
  /\ sweep.stage = "scanned"
  /\ sweep' = [sweep EXCEPT !.stage = "judging", !.at = now]
  /\ UNCHANGED <<now, leading, faults, log, store, handlers, cursor, owed>>

\* The next item, in key order: left alone if it is alive, else its deletion
\* is proposed.
CleanupItem ==
  /\ sweep.stage = "judging" /\ leading
  /\ \E item \in sweep.items :
       /\ \A other \in sweep.items : item.key <= other.key
       /\ IF IsAlive(item.lease, sweep.at) THEN UNCHANGED log
          ELSE /\ Len(log) < MaxLog
               /\ log' = Append(log, [op |-> "delete", key |-> item.key, value |-> None])
       /\ sweep' = IF sweep.items = {item} THEN Resting
                   ELSE [sweep EXCEPT !.items = @ \ {item}]
  /\ UNCHANGED <<now, leading, faults, store, handlers, cursor, owed>>

\* The loop returns early when the node no longer leads.
CleanupEnds ==
  /\ sweep.stage = "judging" /\ ~leading
  /\ sweep' = Resting
  /\ UNCHANGED <<now, leading, faults, log, store, handlers, cursor, owed>>

\* ... or when ProposeCommand returns an error.  The cursor is past the page.
CleanupFails ==
  /\ sweep.stage = "judging" /\ leading
  /\ \E item \in sweep.items : ~IsAlive(item.lease, sweep.at)
  /\ fault
  /\ sweep' = Resting
  /\ UNCHANGED <<now, leading, log, store, handlers, cursor, owed>>

-----------------------------------------------------------------------------
Tick ==
  /\ now < MaxTime /\ now' = now + 1
  /\ UNCHANGED <<leading, faults, log, store, handlers, cleanup>>

\* The leadership is lost, and with it the proposals that were not committed.
StepDown ==
  /\ leading /\ fault
  /\ leading' = FALSE
  /\ \E n \in 0 .. Len(log) : log' = SubSeq(log, 1, n)
  /\ UNCHANGED <<now, store, handlers, cleanup>>

\* A node is elected: the one that led last, or another, which goes on from a
\* cursor of its own.
Lead ==
  /\ ~leading /\ leading' = TRUE
  /\ \/ UNCHANGED cleanup
     \/ cursor' \in 1 .. MaxKey + 1 /\ sweep' = Resting /\ owed' = {}
  /\ UNCHANGED <<now, faults, log, store, handlers>>

Handle(r) ==
  \/ \E k \in Keys : Register(r, k) \/ Deregister(r, k) \/ HeartbeatRead(r, k)
  \/ HeartbeatStamp(r) \/ Propose(r) \/ HandlerFails(r)

Cleanup == CleanupScan \/ CleanupClock \/ CleanupItem \/ CleanupEnds

Next ==
  \/ \E r \in Requests : Handle(r)
  \/ ApplyCommand \/ Cleanup \/ CleanupFails \/ Tick \/ StepDown \/ Lead

Spec == Init /\ [][Next]_vars

\* The goroutines of the node run, the applied index follows the commit index,
\* and a cluster without a leader elects one.
Fairness ==
  WF_vars(ApplyCommand) /\ WF_vars(Cleanup) /\ WF_vars(Lead)

FairSpec == Spec /\ Fairness

-----------------------------------------------------------------------------
(* Properties. *)

\* The types of the variables.
TypeOK ==
  /\ now \in 1 .. MaxTime /\ leading \in BOOLEAN /\ faults \in 0 .. MaxFaults
  /\ log \in Seq(Command) /\ Len(log) <= MaxLog
  /\ store \in [Keys -> Lease \cup {None}]
  /\ pc \in [Requests -> {"new", "renewing", "proposing", "done"}]
  /\ cmd \in [Requests -> Command \cup {NoCmd}]
  /\ cursor \in 1 .. MaxKey + 1
  /\ sweep \in [stage : {"resting", "scanned", "judging"}, at : 0 .. MaxTime,
                items : SUBSET [key : Keys, lease : Lease]]
  /\ Cardinality(sweep.items) <= Limit
  /\ owed \subseteq Keys

\* The cursor passes over nothing: a key that is stored from the beginning of
\* a sweep to its end is scanned by it, whatever is registered, deleted or
\* cut short between its pages.
SweepComplete == \A k \in owed : cursor # Start /\ k >= cursor

\* A lease that runs out is removed or renewed in the end: also one that a
\* heartbeat has brought back after its deregistration, and one whose deletion
\* was refused or lost with the leadership.
ExpiredRemoved ==
  \A k \in Keys :
    store[k] # None /\ ~IsAlive(store[k], now) ~> store[k] = None \/ IsAlive(store[k], now)
=============================================================================
