----------------------------- MODULE Discovery -----------------------------
(***************************************************************************)
(* The directory as its readers see it: QueryInstances with its fallback   *)
(* to replicated instances, the filtered event stream of WatchInstances,   *)
(* and the targets of PrometheusSD (internal/transport/http/               *)
(* handlers_impl.go), over what Register, Heartbeat, Deregister and the    *)
(* replication from other regions have written.                            *)
(*                                                                         *)
(* Abstractions.  A write is proposed, applied and published in one step;  *)
(* RegistryLease has the steps of the writes, WatchHub those of the        *)
(* delivery.  The watcher's clock, like the handlers', is the node's.  Of  *)
(* the replicated directory there is one source cluster.                   *)
(***************************************************************************)
EXTENDS RegistryQuery

CONSTANTS
  Inputs,     \* the registrations that are tried
  KeyOrder,   \* the keys they can have, in the order of Pebble's iterator
  Queries,    \* the questions that are asked, see parameters
  Watched,    \* those a watch is opened with
  Wildcards,  \* hosts that no one can scrape: 0.0.0.0, ::
  MaxRev,     \* bound: changes of the directory
  MaxTime     \* bound: the clock

ASSUME DiscoveryAssumption == MaxRev \in Nat /\ MaxTime \in Nat \ {0}

VARIABLES
  now,        \* the clock, in seconds
  rev,        \* the applied index
  store,      \* the directory: the value of each key, None if absent
  remote,     \* the replicated directory, by the same keys
  marked,     \* the services that have a replication checkpoint
  watch,      \* the watcher: stage, query, revisions and view of its client
  events      \* the events published since it subscribed, not yet received

vars == <<now, rev, store, remote, marked, watch, events>>

Keys    == ToSet(KeyOrder)
None    == Refused
NoView  == [k \in Keys |-> None]
Away    == [stage |-> "away", query |-> None, cur |-> 0, view |-> NoView]

Init ==
  /\ now = 1 /\ rev = 0
  /\ store = NoView /\ remote = NoView /\ marked = {}
  /\ watch = Away /\ events = << >>

-----------------------------------------------------------------------------
(* Writes. *)

keyOf(value) == Key(value.namespace, value.service, value.id)

\* Faulty variant of publish: a watcher that has left is still sent to.
publishAlways(type, key, value) ==
  /\ rev < MaxRev /\ rev' = rev + 1
  /\ events' = Append(events, [type |-> type, rev |-> rev', key |-> key, value |-> value])

\* publishRegistryEvents: a change of a key that ParseKey can take apart goes
\* to the watcher.
publish(type, key, value) ==
  /\ rev < MaxRev /\ rev' = rev + 1
  /\ events' = IF watch.stage # "away" /\ ParseKey(key).ok
                 THEN Append(events, [type |-> type, rev |-> rev', key |-> key, value |-> value])
                 ELSE events

Register(in) ==
  LET value == NewValue(in, now)
  IN  /\ value.ok
      /\ store' = [store EXCEPT ![keyOf(value)] = value]
      /\ publish("upsert", keyOf(value), value)
      /\ UNCHANGED <<now, remote, marked, watch>>

\* Heartbeat.
Renew(k) ==
  LET value == [store[k] EXCEPT !.beat = now]
  IN  /\ store[k] # None
      /\ store' = [store EXCEPT ![k] = value]
      /\ publish("upsert", k, value)
      /\ UNCHANGED <<now, remote, marked, watch>>

\* Deregister, or the cleanup of an expired instance.
Delete(k) ==
  /\ store[k] # None
  /\ store' = [store EXCEPT ![k] = None]
  /\ publish("delete", k, None)
  /\ UNCHANGED <<now, remote, marked, watch>>

\* An instance of another region, and then the checkpoint of its service, are
\* written; no one is told.
Replicate(in) ==
  LET value == NewValue(in, now)
  IN  /\ value.ok
      /\ rev < MaxRev /\ rev' = rev + 1
      /\ remote' = [remote EXCEPT ![keyOf(value)] = value]
      /\ UNCHANGED <<now, store, marked, watch, events>>

Checkpoint(k) ==
  /\ remote[k] # None
  /\ rev < MaxRev /\ rev' = rev + 1
  /\ marked' = marked \cup {<<remote[k].namespace, remote[k].service>>}
  /\ UNCHANGED <<now, store, remote, watch, events>>

Tick ==
  /\ now < MaxTime /\ now' = now + 1
  /\ UNCHANGED <<rev, store, remote, marked, watch, events>>

-----------------------------------------------------------------------------
(* What a query is meant to ask for, apart from the form it is put in: a name,
   given as service, as prefix or dimension by dimension, and conditions on
   labels.  A prefix means the service of that name and those whose name goes
   on with a dot (docs/modules/registry.md). *)

\* The parameters that ask for a.
parameters(a) ==
  LET commas(values) == [i \in 1 .. 2 * Len(values) - 1 |->
                           IF i % 2 = 1 THEN values[(i + 1) \div 2] ELSE ","]
      text(c) == CASE c.op = "exists"     -> <<c.key>>
                   [] c.op = "not_exists" -> <<"!", c.key>>
                   [] c.op = "equals"     -> <<c.key, "=", c.values[1]>>
                   [] c.op = "not_equals" -> <<c.key, "!", "=", c.values[1]>>
                   [] c.op = "in"         -> <<c.key, "in", "(">> \o commas(c.values) \o <<")">>
                   [] c.op = "not_in"     -> <<c.key, "notin", "(">> \o commas(c.values) \o <<")">>
  IN  [namespace |-> a.namespace, zone |-> a.zone, endpoint |-> a.endpoint, limit |-> a.limit,
       services |-> IF a.form = "service" THEN <<a.name>> ELSE << >>,
       prefixes |-> IF a.form = "prefix" THEN <<a.name>> ELSE << >>,
       dims |-> [i \in Dims |-> IF a.form = "dims" /\ i <= Len(a.name) THEN <<a.name[i]>> ELSE Empty],
       selectors |-> IF a.conds = << >> THEN << >>
                     ELSE <<FoldLeft(LAMBDA t, c : t \o <<",">> \o text(c),
                                     text(Head(a.conds)), Tail(a.conds))>>,
       labels |-> << >>]

\* A negative condition is met by whatever does not meet the positive one.
condition(labels, c) ==
  LET has == c.key \in DOMAIN labels
      one == has /\ labels[c.key] \in ToSet(c.values)
  IN  CASE c.op = "exists" -> has [] c.op = "not_exists" -> ~has
        [] c.op \in {"equals", "in"} -> one [] c.op \in {"not_equals", "not_in"} -> ~one

meant(value, a) ==
  /\ value.namespace = a.namespace
  /\ \/ a.form = "any" \/ value.service = a.name
     \/ /\ a.form = "prefix" \/ (a.form = "dims" /\ Len(a.name) < Depth)
        /\ IsPrefix(a.name, value.service)
  /\ a.zone \in {"", value.zone}
  /\ a.endpoint = "" \/ \E i \in DOMAIN value.endpoints :
       a.endpoint \in {value.endpoints[i].name, value.endpoints[i].protocol}
  /\ \A i \in DOMAIN a.conds : condition(value.labels, a.conds[i])

-----------------------------------------------------------------------------
(* Queries. *)

\* Scan: the keys stored in the range, in order.
scan(table, prefix) == SelectSeq(prefixRange(prefix, KeyOrder), LAMBDA k : table[k] # None)

limited(items, limit) == IF limit > 0 /\ Len(items) > limit THEN SubSeq(items, 1, limit) ELSE items

\* registryInstanceDTOFromValue: the answer's view of a value, with the
\* endpoints asked for.
view(value, q) == [value EXCEPT !.endpoints = FilterEndpoints(@, q.endpoint)]
visible(value, q) == IsAlive(value, now) /\ MatchQuery(value, q)

\* The instances of this region that QueryInstances answers with.
localAnswer(q) ==
  limited(SelectSeq(scan(store, scanPrefix(q)), LAMBDA k : visible(store[k], q)), q.limit)

\* What lies under /replication/: instances and, as a ReplicatedValue with
\* neither id nor endpoints nor heartbeat, checkpoints.
checkpointValue(m) ==
  [ok |-> TRUE, namespace |-> m[1], service |-> m[2], dims |-> NoDims, id |-> Empty,
   zone |-> "", labels |-> [l \in {} |-> ""], endpoints |-> << >>, ttl |-> 0, beat |-> 0]

\* Faulty variant of replicatedItems: checkpoints are taken for instances.
replicatedItemsAll ==
  [i \in 1 .. Len(SelectSeq(KeyOrder, LAMBDA k : remote[k] # None)) |->
     ToValue(remote[SelectSeq(KeyOrder, LAMBDA k : remote[k] # None)[i]])]
  \o [i \in 1 .. Cardinality(marked) |-> checkpointValue(SetToSeq(marked)[i])]

\* The values whose key ParseReplicatedKey takes for that of an instance.
replicatedItems ==
  LET keys == SelectSeq(KeyOrder, LAMBDA k : remote[k] # None /\ ParseKey(k).ok)
  IN  [i \in DOMAIN keys |-> ToValue(remote[keys[i]])]

\* queryReplicatedInstances.
replicatedAnswer(q) == limited(SelectSeq(replicatedItems, LAMBDA v : visible(v, q)), q.limit)

\* QueryInstances: other regions are looked at only if this one has nothing.
QueryInstances(q) ==
  LET keys == localAnswer(q)
      own  == [i \in DOMAIN keys |-> view(store[keys[i]], q)]
      far  == [i \in DOMAIN replicatedAnswer(q) |-> view(replicatedAnswer(q)[i], q)]
  IN  IF own # << >> THEN own ELSE far

-----------------------------------------------------------------------------
(* PrometheusSD. *)

\* findPrometheusEndpoint (every protocol but https counts as http), then
\* joinPrometheusTargetAddress.
target(value, endpoint) ==
  LET found == FilterEndpoints(value.endpoints, endpoint)
  IN  IF found # << >> /\ Head(found).host \notin Wildcards
        THEN {[namespace |-> value.namespace, service |-> value.service, id |-> value.id,
               host |-> Head(found).host, port |-> Head(found).port]}
        ELSE {}

\* parsePrometheusSDQuery: no dimensions, prefixes or limit, only the first
\* service, and the endpoint to scrape is no condition.
parsePrometheusSDQuery(p) ==
  LET service  == IF p.services = << >> THEN Empty ELSE Head(p.services)
      selector == ParseLabelSelectorFilters(p.selectors, p.labels)
  IN  IF (service # Empty /\ p.namespace = "") \/ ~selector.ok THEN Refused
      ELSE [ok |-> TRUE, namespace |-> p.namespace, service |-> service,
            services |-> {}, prefixes |-> {}, zone |-> p.zone, endpoint |-> "",
            limit |-> 0, selector |-> selector.reqs,
            scrape |-> IF p.endpoint = "" THEN "metrics" ELSE p.endpoint]

\* Faulty variant of targets: expired instances are scraped.
targetsStale(values, q) ==
  UNION {target(v, q.scrape) : v \in {v \in values : MatchQuery(v, q)}}

targets(values, q) ==
  UNION {target(v, q.scrape) : v \in {v \in values : visible(v, q)}}

\* localPrometheusSDTargetGroups and replicatedPrometheusSDTargetGroups, which
\* looks at no key.
localTargets(q) == targets({store[k] : k \in {k \in Keys : store[k] # None}}, q)
replicatedTargets(q) ==
  targets({ToValue(remote[k]) : k \in {k \in Keys : remote[k] # None}}
            \cup {checkpointValue(m) : m \in marked}, q)

\* PrometheusSD, with scope merged or local.
PrometheusSD(q, merged) == localTargets(q) \cup IF merged THEN replicatedTargets(q) ELSE {}

-----------------------------------------------------------------------------
(* Watching.  The client keeps the view that snapshot and events make up. *)

\* WatchInstances: subscribed; the barrier of registryWatchSnapshot passes.
WatchOpen(p) ==
  /\ watch.stage = "away" /\ ParseQuery(p).ok
  /\ watch' = [Away EXCEPT !.stage = "barrier", !.query = ParseQuery(p)]
  /\ UNCHANGED <<now, rev, store, remote, marked, events>>

WatchRevision ==
  /\ watch.stage = "barrier"
  /\ watch' = [watch EXCEPT !.stage = "scanning", !.cur = rev]
  /\ UNCHANGED <<now, rev, store, remote, marked, events>>

\* The snapshot is scanned and sent.
WatchSnapshot ==
  /\ watch.stage = "scanning"
  /\ watch' = [watch EXCEPT !.stage = "streaming",
       !.view = [k \in Keys |-> IF k \in ToSet(localAnswer(watch.query))
                                  THEN view(store[k], watch.query) ELSE None]]
  /\ UNCHANGED <<now, rev, store, remote, marked, events>>

\* Faulty variant of eventView: an instance that no longer matches is passed
\* over.
eventViewSkips(e, q) ==
  IF e.type = "upsert" /\ visible(e.value, q) THEN view(e.value, q)
  ELSE IF e.type = "upsert" THEN watch.view[e.key] ELSE None

\* registryWatchEventDTO: an upsert of something that does not match, or is
\* expired, goes out as a delete.
eventView(e, q) ==
  IF e.type = "upsert" /\ visible(e.value, q) THEN view(e.value, q) ELSE None

\* The stream loop: an event the snapshot has, or of a service that is not
\* asked for, is skipped.
WatchReceive ==
  LET e == Head(events)
      q == watch.query
  IN  /\ watch.stage = "streaming" /\ events # << >>
      /\ events' = Tail(events)
      /\ watch' = IF e.rev > watch.cur /\ ParseKey(e.key).namespace = q.namespace
                       /\ MatchServiceQuery(ParseKey(e.key).service, q)
                    THEN [watch EXCEPT !.cur = e.rev, !.view[e.key] = eventView(e, q)]
                    ELSE watch
      /\ UNCHANGED <<now, rev, store, remote, marked>>

WatchClose ==
  /\ watch.stage # "away"
  /\ watch' = Away /\ events' = << >>
  /\ UNCHANGED <<now, rev, store, remote, marked>>

-----------------------------------------------------------------------------
Next ==
  \/ \E in \in Inputs : Register(in) \/ Replicate(in)
  \/ \E k \in Keys : Renew(k) \/ Delete(k) \/ Checkpoint(k)
  \/ \E a \in Watched : WatchOpen(parameters(a))
  \/ WatchRevision \/ WatchSnapshot \/ WatchReceive \/ WatchClose
  \/ Tick

Spec == Init /\ [][Next]_vars

-----------------------------------------------------------------------------
(* Properties. *)

\* The questions, as the handlers understand them.
parsed   == [a \in Queries |-> ParseQuery(parameters(a))]
sdParsed == [a \in Queries |-> parsePrometheusSDQuery(parameters(a))]

\* The types of the variables.
TypeOK ==
  /\ now \in 1 .. MaxTime /\ rev \in 0 .. MaxRev
  /\ \A k \in Keys : store[k] # None => keyOf(store[k]) = k /\ store[k].beat \in 1 .. now
  /\ \A k \in Keys : remote[k] # None => keyOf(remote[k]) = k
  /\ watch.stage \in {"away", "barrier", "scanning", "streaming"} /\ watch.cur \in 0 .. rev
  /\ watch.stage = "away" => events = << >>

\* The answer to q is what a means.
answersExactly(a, q) ==
  LET due(t)   == {view(t[k], q) : k \in {k \in Keys : t[k] # None /\ IsAlive(t[k], now) /\ meant(t[k], a)}}
      far      == due([k \in Keys |-> IF ParseKey(k).ok THEN remote[k] ELSE None])
      expected == IF due(store) # {} THEN due(store) ELSE far
      exact(answer) ==
        /\ ToSet(answer) \subseteq expected
        /\ Cardinality(ToSet(answer)) = Len(answer)
        /\ Len(answer) = IF a.limit > 0 THEN Min({a.limit, Cardinality(expected)})
                         ELSE Cardinality(expected)
  IN  q.ok /\ exact(QueryInstances(q))

\* A query answers with exactly the live instances it is meant to ask for (the
\* limit apart): none is hidden by the range that is scanned, by the form the
\* name is given in or by the way a selector is written and parsed, and those
\* of other regions, without their checkpoints, fill in only for a region that
\* has none.
QueryExact == \A a \in Queries : answersExactly(a, parsed[a])

\* A client that has received every event has the view that a query would give
\* it, but for instances that expired since: also of instances whose labels or
\* endpoints changed so that they entered or left the filter, that were
\* written while the snapshot was being made or that expired in between.
ViewExact ==
  watch.stage = "streaming" /\ events = << >> =>
    \A k \in {k \in Keys : ParseKey(k).ok} :
      /\ store[k] # None /\ visible(store[k], watch.query)
           => watch.view[k] = view(store[k], watch.query)
      /\ watch.view[k] # None
           => /\ store[k] # None /\ MatchQuery(store[k], watch.query)
              /\ watch.view[k] = view(store[k], watch.query)

\* The query q finds the instance stored under k.
finds(q, k) == q.ok /\ MatchQuery(store[k], q) /\ prefixRange(scanPrefix(q), <<k>>) = <<k>>

\* Whichever way an identity is written, it means the same instance: service
\* name, dimensions, or both lead to the key it is stored under, and every
\* leading part of the dimensions finds it.
Addressable ==
  \A k \in {k \in Keys : store[k] # None} :
    LET value == store[k]
        means(identity) == identity.ok /\ Key(value.namespace, identity.service, value.id) = k
        leading(n) == [i \in Dims |-> IF i <= n THEN value.dims[i] ELSE Empty]
    IN  /\ \A service \in {value.service, Empty}, dims \in {value.dims, NoDims} :
             service # Empty \/ dims # NoDims
               => means(NormalizeStructuredServiceIdentity(service, dims))
        /\ value.dims # NoDims => \A n \in Dims :
             finds(ParseQuery([namespace |-> value.namespace, zone |-> "", endpoint |-> "",
                               limit |-> 0, services |-> << >>, prefixes |-> << >>,
                               dims |-> leading(n), selectors |-> << >>, labels |-> << >>]), k)

\* The addresses at which an instance offers the endpoint of that name.
addresses(value, name) ==
  {[namespace |-> value.namespace, service |-> value.service, id |-> value.id, host |-> e.host, port |-> e.port] :
     e \in {e \in ToSet(value.endpoints) : name \in {e.name, e.protocol}}}

\* The targets found are addresses of the endpoint asked for, of live instances
\* that a means in one of the tables, and every such instance has one, unless
\* one of its addresses is a wildcard.
targetsExactly(a, found, tables) ==
  LET name == IF a.endpoint = "" THEN "metrics" ELSE a.endpoint
      due == {v \in {t[k] : t \in tables, k \in Keys} :
                v # None /\ IsAlive(v, now) /\ meant(v, [a EXCEPT !.endpoint = ""])}
  IN  /\ found \subseteq UNION {addresses(v, name) : v \in due}
      /\ \A v \in due : LET offered == addresses(v, name) IN
           offered # {} /\ (\A x \in offered : x.host \notin Wildcards) => offered \cap found # {}

\* Prometheus is told to scrape the live instances it asks for, local ones and
\* on request replicated ones, at an address they have.  So no checkpoint, which
\* lies among the replicated instances and never expires, is taken for one.
TargetsExact ==
  \A a \in {a \in Queries : a.form \in {"any", "service"}} :
    /\ targetsExactly(a, PrometheusSD(sdParsed[a], FALSE), {store})
    /\ targetsExactly(a, PrometheusSD(sdParsed[a], TRUE), {store, remote})
=============================================================================
