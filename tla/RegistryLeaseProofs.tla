------------------------ MODULE RegistryLeaseProofs ------------------------
(***************************************************************************)
(* The paged sweep of RegistryLease for any number of keys, requests and   *)
(* lost leaderships, any page size and any clock.                          *)
(*                                                                         *)
(* Beside the types the inductive invariant says what the handlers carry   *)
(* from one step to the next (HandlerInv), that a page is finite           *)
(* (SweepInv) and that what the sweep owes is stored and ahead of the      *)
(* cursor (OwedInv).                                                       *)
(***************************************************************************)
EXTENDS RegistryLease, SharedLemmas

HandlerInv ==
  \A r \in Requests :
    /\ pc[r] \in {"renewing", "proposing"} => cmd[r] \in Command
    /\ pc[r] = "renewing" => cmd[r].value \in Lease

SweepInv == IsFiniteSet(sweep.items)

OwedInv == owed \subseteq stored /\ SweepComplete

IInv == TypeOK /\ HandlerInv /\ SweepInv /\ OwedInv

-----------------------------------------------------------------------------
(* Pages.  ahead and page depend on the state only through the keys stored  *)
(* and the cursor.                                                         *)

\* The keys behind the cursor are bounded, and a page consists of them.
LEMMA AheadBounds ==
  /\ ahead \subseteq Nat /\ page \subseteq ahead
  /\ \A y \in ahead : y <= MaxKey
BY RegistryLeaseAssumption DEF ahead, stored, page, Keys

\* Both are finite.
LEMMA AheadFinite == IsFiniteSet(ahead) /\ IsFiniteSet(page)
<1>1. ahead \in SUBSET Keys /\ page \in SUBSET ahead
  BY DEF ahead, stored, page
<1>2. IsFiniteSet(Keys)
  BY FS_Interval, RegistryLeaseAssumption DEF Keys
<1>3. IsFiniteSet(ahead)
  BY <1>1, <1>2, FS_Subset
<1>4. IsFiniteSet(page)
  BY <1>1, <1>3, FS_Subset
<1> QED
  BY <1>3, <1>4

\* A page is an initial part of what is ahead of the cursor.
LEMMA PageInitial ==
  ASSUME NEW k \in page, NEW j \in ahead, j <= k
  PROVE  j \in page
<1> DEFINE below(i) == {x \in ahead : x < i}
<1>1. below(j) \in SUBSET below(k) /\ below(k) \in SUBSET ahead
  <2>1. \A x \in ahead : x < j => x < k
    BY AheadBounds
  <2> QED
    BY <2>1
<1>2. IsFiniteSet(below(k)) /\ IsFiniteSet(below(j))
  BY <1>1, AheadFinite, FS_Subset
<1>3. Cardinality(below(j)) <= Cardinality(below(k))
  BY <1>1, <1>2, FS_Subset
<1>4. Cardinality(below(j)) \in Nat /\ Cardinality(below(k)) \in Nat
  BY <1>2, FS_CardinalityType
<1>5. Cardinality(below(k)) < Limit
  BY DEF page
<1> QED
  BY <1>3, <1>4, <1>5, RegistryLeaseAssumption DEF page

\* A page that is not full holds everything ahead of the cursor.
LEMMA ShortPage ==
  ASSUME Cardinality(page) < Limit
  PROVE  page = ahead
<1> SUFFICES ASSUME page # ahead PROVE FALSE
  OBVIOUS
<1> DEFINE rest == ahead \ page
           k == Min(rest)
           below == {x \in ahead : x < k}
<1>1. rest \in SUBSET Nat /\ rest # {}
  BY AheadBounds
<1>2. k \in rest /\ \A y \in rest : k <= y
  BY <1>1, MinProperties
<1>3. below \in SUBSET page
  <2>1. \A x \in ahead : x < k => x \notin rest
    <3> HIDE DEF k, rest
    <3> QED
      BY <1>1, <1>2, AheadBounds
  <2> QED
    BY <2>1
<1>4. Cardinality(below) <= Cardinality(page) /\ IsFiniteSet(below)
  BY <1>3, AheadFinite, FS_Subset
<1>5. Cardinality(below) \in Nat /\ Cardinality(page) \in Nat
  BY <1>4, AheadFinite, FS_CardinalityType
<1>6. Cardinality(below) < Limit
  BY <1>4, <1>5, RegistryLeaseAssumption
<1>7. k \in page
  BY <1>2, <1>6 DEF page
<1> QED
  BY <1>2, <1>7

\* A page has at most Limit keys.
LEMMA PageBounded == Cardinality(page) \in Nat /\ Cardinality(page) <= Limit
<1>1. Cardinality(page) \in Nat
  BY AheadFinite, FS_CardinalityType
<1>2. CASE page = {}
  BY <1>2, FS_EmptySet, RegistryLeaseAssumption
<1>3. CASE page # {}
  <2> DEFINE k == Max(page)
             below == {x \in ahead : x < k}
  <2>1. k \in page /\ \A y \in page : y <= k
    BY <1>3, AheadBounds, MaxProperties, RegistryLeaseAssumption
  <2>2. page \ {k} \in SUBSET below
    <3> HIDE DEF k
    <3> QED
      BY <2>1, AheadBounds
  <2>3. IsFiniteSet(below)
    BY AheadFinite, FS_Subset
  <2>4. Cardinality(page \ {k}) <= Cardinality(below)
    BY <2>2, <2>3, FS_Subset
  <2>5. Cardinality(page \ {k}) = Cardinality(page) - 1
    BY <2>1, AheadFinite, FS_RemoveElement
  <2>6. Cardinality(below) < Limit /\ Cardinality(below) \in Nat
    BY <2>1, <2>3, FS_CardinalityType DEF page
  <2> QED
    BY <1>1, <2>4, <2>5, <2>6, RegistryLeaseAssumption
<1> QED
  BY <1>1, <1>2, <1>3

\* The items read for a page are as many as its keys, at most.
LEMMA ItemsBounded ==
  LET items == {[key |-> k, lease |-> store[k]] : k \in page}
  IN  IsFiniteSet(items) /\ Cardinality(items) <= Limit
<1> DEFINE items == {[key |-> k, lease |-> store[k]] : k \in page}
           f == [k \in page |-> [key |-> k, lease |-> store[k]]]
<1>1. f \in Surjection(page, items)
  BY DEF Surjection
<1>2. IsFiniteSet(items) /\ Cardinality(items) <= Cardinality(page)
  <2> HIDE DEF items, f
  <2> QED
    BY <1>1, AheadFinite, FS_Surjection
<1>3. Cardinality(items) \in Nat
  <2> HIDE DEF items
  <2> QED
    BY <1>2, FS_CardinalityType
<1> QED
  BY <1>2, <1>3, PageBounded, RegistryLeaseAssumption

\* Where the cursor goes: to the start when nothing is left ahead of the page,
\* else behind the page and in front of everything else.
LEMMA AdvanceExact ==
  ASSUME TypeOK
  PROVE  /\ Advance(page) \in 1 .. MaxKey + 1
         /\ \A k \in ahead \ page : Advance(page) # Start /\ k >= Advance(page)
<1>1. CASE Cardinality(page) < Limit
  BY <1>1, ShortPage, RegistryLeaseAssumption DEF Advance, Start
<1>2. CASE ~ (Cardinality(page) < Limit)
  <2>1. page # {}
    BY <1>2, FS_EmptySet, RegistryLeaseAssumption
  <2>2. Max(page) \in page /\ \A y \in page : y <= Max(page)
    BY <2>1, AheadBounds, MaxProperties, RegistryLeaseAssumption
  <2>3. Max(page) \in Keys
    BY <2>2 DEF page, ahead, stored
  <2>4. ASSUME NEW k \in ahead \ page PROVE k >= Max(page) + 1
    <3>1. ~ (k <= Max(page))
      BY <2>2, <2>4, PageInitial
    <3>2. k \in Nat /\ Max(page) \in Nat
      BY <2>2, AheadBounds
    <3> QED
      BY <3>1, <3>2
  <2>5. Advance(page) = Max(page) + 1
    BY <1>2 DEF Advance
  <2> QED
    BY <2>3, <2>4, <2>5, RegistryLeaseAssumption DEF Keys, Start
<1> QED
  BY <1>1, <1>2

-----------------------------------------------------------------------------
(* The inductive invariant. *)

\* Before any request there is no lease, no proposal and no sweep.
LEMMA InitInv == Init => IInv
<1> SUFFICES ASSUME Init PROVE IInv
  OBVIOUS
<1> USE RegistryLeaseAssumption
<1>1. IsFiniteSet({}) /\ Cardinality({}) = 0
  BY FS_EmptySet
<1>2. store \in [Keys -> Lease \cup {None}]
  BY DEF Init, Lease
<1>3. TypeOK
  BY <1>1, <1>2 DEF Init, TypeOK, Resting, Start
<1>4. HandlerInv /\ SweepInv /\ OwedInv
  BY <1>1 DEF Init, HandlerInv, SweepInv, OwedInv, SweepComplete, Resting
<1> QED
  BY <1>3, <1>4 DEF IInv

\* The handlers leave the cleanup alone, and the cleanup the handlers.
LEMMA HandleInv ==
  ASSUME IInv, NEW r \in Requests, Handle(r)
  PROVE  IInv'
<1> USE RegistryLeaseAssumption
<1>0. TypeOK /\ HandlerInv /\ SweepInv /\ OwedInv
  BY DEF IInv
<1>a. ASSUME UNCHANGED <<now, store, cleanup>>
      PROVE  SweepInv' /\ OwedInv'
  BY <1>0, <1>a DEF SweepInv, OwedInv, SweepComplete, stored, cleanup
<1>1. ASSUME NEW k \in Keys, Register(r, k) PROVE IInv'
  <2>1. [ttl |-> effective(TTLOf[r]), beat |-> now] \in Lease
    BY <1>0 DEF TypeOK, Lease, effective
  <2>2. TypeOK' /\ HandlerInv'
    BY <1>0, <1>1, <2>1 DEF Register, TypeOK, HandlerInv, Command, cleanup
  <2> QED
    BY <1>a, <1>1, <2>2 DEF IInv, Register
<1>2. ASSUME NEW k \in Keys, Deregister(r, k) PROVE IInv'
  <2>1. TypeOK' /\ HandlerInv'
    BY <1>0, <1>2 DEF Deregister, TypeOK, HandlerInv, Command, cleanup
  <2> QED
    BY <1>a, <1>2, <2>1 DEF IInv, Deregister
<1>3. ASSUME NEW k \in Keys, HeartbeatRead(r, k) PROVE IInv'
  <2>1. ASSUME store[k] = None PROVE TypeOK' /\ HandlerInv'
    BY <1>0, <1>3, <2>1 DEF HeartbeatRead, TypeOK, HandlerInv, cleanup
  <2>2. ASSUME store[k] # None PROVE TypeOK' /\ HandlerInv'
    <3>1. store[k] \in Lease
      BY <1>0, <2>2 DEF TypeOK
    <3>2. [op |-> "put", key |-> k, value |-> store[k]] \in Command
      BY <3>1 DEF Command
    <3>3. TypeOK'
      <4>1. /\ UNCHANGED <<now, log, store, leading, faults, cleanup>>
            /\ cmd' = [cmd EXCEPT ![r] = [op |-> "put", key |-> k, value |-> store[k]]]
            /\ pc' = [pc EXCEPT ![r] = "renewing"]
        BY <1>3, <2>2 DEF HeartbeatRead
      <4> QED
        BY <1>0, <3>2, <4>1 DEF TypeOK, cleanup
    <3>4. HandlerInv'
      <4>1. cmd'[r] = [op |-> "put", key |-> k, value |-> store[k]]
        BY <1>0, <1>3, <2>2 DEF HeartbeatRead, TypeOK
      <4>2. \A q \in Requests \ {r} : cmd'[q] = cmd[q] /\ pc'[q] = pc[q]
        BY <1>0, <1>3, <2>2 DEF HeartbeatRead, TypeOK
      <4> QED
        BY <1>0, <3>1, <3>2, <4>1, <4>2 DEF HandlerInv
    <3> QED
      BY <3>3, <3>4
  <2>3. TypeOK' /\ HandlerInv'
    BY <2>1, <2>2
  <2> QED
    BY <1>a, <1>3, <2>3 DEF IInv, HeartbeatRead
<1>4. CASE HeartbeatStamp(r)
  <2>0. cmd[r] \in Command /\ cmd[r].value \in Lease
    BY <1>0, <1>4 DEF HeartbeatStamp, HandlerInv
  <2> DEFINE v == [ttl |-> IF TTLOf[r] > 0 THEN TTLOf[r] ELSE effective(cmd[r].value.ttl),
                   beat |-> now]
  <2>1. v \in Lease
    BY <1>0, <2>0 DEF TypeOK, Lease, effective
  <2>2. cmd' = [cmd EXCEPT ![r].value = v]
    BY <1>4 DEF HeartbeatStamp
  <2>3. cmd' \in [Requests -> Command \cup {NoCmd}] /\ cmd'[r] \in Command
    <3> HIDE DEF v
    <3> QED
      BY <1>0, <2>0, <2>1, <2>2 DEF TypeOK, Command
  <2>4. \A q \in Requests \ {r} : cmd'[q] = cmd[q]
    BY <1>0, <2>2 DEF TypeOK
  <2>5. TypeOK' /\ HandlerInv'
    BY <1>0, <1>4, <2>3, <2>4 DEF HeartbeatStamp, TypeOK, HandlerInv, cleanup
  <2> QED
    BY <1>a, <1>4, <2>5 DEF IInv, HeartbeatStamp
<1>5. CASE Propose(r)
  <2>0. cmd[r] \in Command
    BY <1>0, <1>5 DEF Propose, HandlerInv
  <2>1. TypeOK' /\ HandlerInv'
    BY <1>0, <1>5, <2>0 DEF Propose, TypeOK, HandlerInv, cleanup
  <2> QED
    BY <1>a, <1>5, <2>1 DEF IInv, Propose
<1>6. CASE HandlerFails(r)
  <2>1. TypeOK' /\ HandlerInv'
    BY <1>0, <1>6 DEF HandlerFails, TypeOK, HandlerInv, cleanup
  <2> QED
    BY <1>a, <1>6, <2>1 DEF IInv, HandlerFails
<1> QED
  BY <1>1, <1>2, <1>3, <1>4, <1>5, <1>6 DEF Handle

\* Each step of the cleanup loop keeps the invariant.
LEMMA CleanupInv ==
  ASSUME IInv, Cleanup
  PROVE  IInv'
<1> USE RegistryLeaseAssumption
<1>0. TypeOK /\ HandlerInv /\ SweepInv /\ OwedInv
  BY DEF IInv
<1>a. ASSUME UNCHANGED handlers
      PROVE  HandlerInv'
  BY <1>0, <1>a DEF HandlerInv, handlers
<1>1. CASE CleanupScan
  <2>1. Advance(page) \in 1 .. MaxKey + 1
    BY <1>0, AdvanceExact
  <2>2. sweep' \in [stage : {"resting", "scanned", "judging"}, at : 0 .. MaxTime,
                    items : SUBSET [key : Keys, lease : Lease]]
    <3>1. \A k \in page : k \in Keys /\ store[k] \in Lease
      BY <1>0 DEF TypeOK, page, ahead, stored
    <3>2. {[key |-> k, lease |-> store[k]] : k \in page} \in SUBSET [key : Keys, lease : Lease]
      BY <3>1
    <3> QED
      BY <1>1, <3>2 DEF CleanupScan, Resting
  <2>3. IsFiniteSet(sweep'.items) /\ Cardinality(sweep'.items) <= Limit /\ sweep'.stage # "judging"
    BY <1>1, ItemsBounded, FS_EmptySet DEF CleanupScan, Resting
  <2>4. TypeOK' /\ SweepInv'
    BY <1>0, <1>1, <2>1, <2>2, <2>3 DEF CleanupScan, TypeOK, SweepInv, handlers, stored
  <2>5. owed' \subseteq ahead \ page
    <3>1. CASE cursor = Start
      <4>1. ahead = stored
        BY <3>1 DEF ahead, stored, Start, Keys
      <4> QED
        BY <1>1, <3>1, <4>1 DEF CleanupScan
    <3>2. CASE cursor # Start
      <4>1. owed \subseteq ahead
        BY <1>0 DEF OwedInv, SweepComplete, ahead
      <4> QED
        BY <1>1, <3>2, <4>1 DEF CleanupScan
    <3> QED
      BY <3>1, <3>2
  <2>6. OwedInv'
    BY <1>0, <1>1, <2>5, AdvanceExact
       DEF CleanupScan, OwedInv, SweepComplete, ahead, stored
  <2> QED
    BY <1>a, <1>1, <2>4, <2>6 DEF IInv, CleanupScan
<1>2. CASE CleanupClock
  <2>0. /\ sweep' \in [stage : {"resting", "scanned", "judging"}, at : 0 .. MaxTime,
                       items : SUBSET [key : Keys, lease : Lease]]
        /\ sweep'.at = now /\ sweep'.items = sweep.items
    <3>1. now \in 0 .. MaxTime
      BY <1>0 DEF TypeOK
    <3>2. sweep \in [stage : {"resting", "scanned", "judging"}, at : 0 .. MaxTime,
                     items : SUBSET [key : Keys, lease : Lease]]
      BY <1>0 DEF TypeOK
    <3> QED
      BY <1>2, <3>1, <3>2 DEF CleanupClock
  <2>1. TypeOK' /\ SweepInv'
    BY <1>0, <1>2, <2>0 DEF CleanupClock, TypeOK, SweepInv, handlers
  <2>2. OwedInv'
    BY <1>0, <1>2 DEF CleanupClock, OwedInv, SweepComplete, stored
  <2> QED
    BY <1>a, <1>2, <2>1, <2>2 DEF IInv, CleanupClock
<1>3. CASE CleanupItem
  <2>1. PICK item \in sweep.items :
       /\ IF IsAlive(item.lease, sweep.at) THEN UNCHANGED log
          ELSE /\ Len(log) < MaxLog
               /\ log' = Append(log, [op |-> "delete", key |-> item.key, value |-> None])
       /\ sweep' = IF sweep.items = {item} THEN Resting
                   ELSE [sweep EXCEPT !.items = @ \ {item}]
    BY <1>3 DEF CleanupItem
  <2>2. item \in [key : Keys, lease : Lease]
    BY <1>0, <2>1 DEF TypeOK
  <2>3. /\ IsFiniteSet(sweep'.items) /\ Cardinality(sweep'.items) <= Limit
        /\ sweep' \in [stage : {"resting", "scanned", "judging"}, at : 0 .. MaxTime,
                       items : SUBSET [key : Keys, lease : Lease]]
    <3>1. CASE sweep.items = {item}
      BY <2>1, <3>1, FS_EmptySet DEF Resting
    <3>2. CASE sweep.items # {item}
      <4>1. sweep' = [sweep EXCEPT !.items = sweep.items \ {item}]
        BY <2>1, <3>2
      <4>2. IsFiniteSet(sweep.items \ {item})
            /\ Cardinality(sweep.items \ {item}) <= Cardinality(sweep.items)
            /\ Cardinality(sweep.items \ {item}) \in Nat /\ Cardinality(sweep.items) \in Nat
        BY <1>0, FS_Subset, FS_CardinalityType DEF SweepInv
      <4>3. /\ sweep' \in [stage : {"resting", "scanned", "judging"}, at : 0 .. MaxTime,
                           items : SUBSET [key : Keys, lease : Lease]]
            /\ sweep'.items = sweep.items \ {item} /\ sweep'.at = sweep.at
        BY <1>0, <4>1 DEF TypeOK
      <4>4. Cardinality(sweep.items) <= Limit
        BY <1>0 DEF TypeOK
      <4> QED
        BY <4>2, <4>3, <4>4
    <3> QED
      BY <3>1, <3>2
  <2>4. SweepInv'
    BY <2>3 DEF SweepInv
  <2>5. log' \in Seq(Command) /\ Len(log') <= MaxLog
    <3>1. [op |-> "delete", key |-> item.key, value |-> None] \in Command
      BY <2>2 DEF Command
    <3>2. log \in Seq(Command) /\ Len(log) <= MaxLog
      BY <1>0 DEF TypeOK
    <3>3. CASE UNCHANGED log
      BY <3>2, <3>3
    <3>4. CASE ~ (UNCHANGED log)
      <4> DEFINE e == [op |-> "delete", key |-> item.key, value |-> None]
      <4>1. Len(log) < MaxLog /\ log' = Append(log, e)
        BY <2>1, <3>4
      <4> HIDE DEF e
      <4> QED
        BY <3>1, <3>2, <4>1 DEF e
    <3> QED
      BY <3>3, <3>4
  <2>6. TypeOK'
    BY <1>0, <1>3, <2>3, <2>5 DEF TypeOK, CleanupItem, handlers
  <2>7. OwedInv'
    BY <1>0, <1>3 DEF CleanupItem, OwedInv, SweepComplete, stored
  <2> QED
    BY <1>a, <1>3, <2>4, <2>6, <2>7 DEF IInv, CleanupItem
<1>4. CASE CleanupEnds
  <2>1. TypeOK' /\ SweepInv'
    BY <1>0, <1>4, FS_EmptySet DEF CleanupEnds, TypeOK, SweepInv, handlers, Resting
  <2>2. OwedInv'
    BY <1>0, <1>4 DEF CleanupEnds, OwedInv, SweepComplete, stored
  <2> QED
    BY <1>a, <1>4, <2>1, <2>2 DEF IInv, CleanupEnds
<1> QED
  BY <1>1, <1>2, <1>3, <1>4 DEF Cleanup

\* Every step keeps the invariant.
LEMMA NextInv ==
  ASSUME IInv, [Next]_vars
  PROVE  IInv'
<1> USE RegistryLeaseAssumption
<1>0. TypeOK /\ HandlerInv /\ SweepInv /\ OwedInv
  BY DEF IInv
<1>1. CASE ApplyCommand
  <2>1. Head(log) \in Command /\ Tail(log) \in Seq(Command) /\ Len(Tail(log)) <= MaxLog
    BY <1>0, <1>1 DEF ApplyCommand, TypeOK
  <2>2. store' \in [Keys -> Lease \cup {None}]
    BY <1>0, <1>1, <2>1 DEF ApplyCommand, TypeOK, Command
  <2>3. TypeOK'
    BY <1>0, <1>1, <2>1, <2>2 DEF ApplyCommand, TypeOK, handlers
  <2>4. HandlerInv' /\ SweepInv'
    BY <1>0, <1>1 DEF ApplyCommand, HandlerInv, SweepInv, handlers
  <2>5. OwedInv'
    BY <1>0, <1>1 DEF ApplyCommand, OwedInv, SweepComplete, stored
  <2> QED
    BY <2>3, <2>4, <2>5 DEF IInv
<1>2. CASE Tick
  BY <1>0, <1>2 DEF Tick, IInv, TypeOK, HandlerInv, SweepInv, OwedInv, SweepComplete, stored,
     handlers, cleanup
<1>3. CASE StepDown
  <2>1. PICK n \in 0 .. Len(log) : log' = SubSeq(log, 1, n)
    BY <1>3 DEF StepDown
  <2>2. log \in Seq(Command) /\ Len(log) <= MaxLog
    BY <1>0 DEF TypeOK
  <2>3. log' \in Seq(Command) /\ Len(log') <= MaxLog /\ \A i \in DOMAIN log' : i \in DOMAIN log /\ log'[i] = log[i]
    BY <2>1, <2>2
  <2>4. TypeOK'
    <3>1. /\ leading' = FALSE /\ faults' \in 0 .. MaxFaults
          /\ UNCHANGED <<now, store, handlers, cleanup>>
      BY <1>0, <1>3 DEF StepDown, fault, TypeOK
    <3> QED
      BY <1>0, <2>3, <3>1 DEF TypeOK, handlers, cleanup
  <2>5. HandlerInv' /\ SweepInv'
    BY <1>0, <1>3 DEF StepDown, HandlerInv, SweepInv, handlers, cleanup
  <2>6. OwedInv'
    BY <1>0, <1>3, <2>3 DEF StepDown, OwedInv, SweepComplete, stored, cleanup
  <2> QED
    BY <2>4, <2>5, <2>6 DEF IInv
<1>4. CASE Lead
  <2>1. CASE UNCHANGED cleanup
    BY <1>0, <1>4, <2>1 DEF Lead, IInv, TypeOK, HandlerInv, SweepInv, OwedInv, SweepComplete,
       stored, handlers, cleanup
  <2>2. CASE cursor' \in 1 .. MaxKey + 1 /\ sweep' = Resting /\ owed' = {}
    <3>1. /\ sweep' \in [stage : {"resting", "scanned", "judging"}, at : 0 .. MaxTime,
                         items : SUBSET [key : Keys, lease : Lease]]
          /\ sweep'.items = {} /\ Cardinality({}) = 0 /\ IsFiniteSet({})
      BY <2>2, FS_EmptySet DEF Resting
    <3>2. TypeOK' /\ HandlerInv' /\ SweepInv'
      BY <1>0, <1>4, <2>2, <3>1 DEF Lead, TypeOK, HandlerInv, SweepInv, handlers
    <3> QED
      BY <2>2, <3>2 DEF IInv, OwedInv, SweepComplete
  <2> QED
    BY <1>4, <2>1, <2>2 DEF Lead
<1>5. CASE UNCHANGED vars
  BY <1>0, <1>5 DEF vars, IInv, TypeOK, HandlerInv, SweepInv, OwedInv, SweepComplete,
     stored, handlers, cleanup
<1>6. CASE CleanupFails
  <2>1. TypeOK' /\ HandlerInv' /\ SweepInv'
    BY <1>0, <1>6, FS_EmptySet DEF CleanupFails, fault, TypeOK, HandlerInv, SweepInv, handlers, Resting
  <2>2. OwedInv'
    BY <1>0, <1>6 DEF CleanupFails, OwedInv, SweepComplete, stored
  <2> QED
    BY <2>1, <2>2 DEF IInv
<1> QED
  BY <1>1, <1>2, <1>3, <1>4, <1>5, <1>6, HandleInv, CleanupInv DEF Next

-----------------------------------------------------------------------------
(* Theorems. *)

\* The invariant holds in every reachable state.
LEMMA Invariance == Spec => []IInv
<1>1. IInv /\ [Next]_vars => IInv'
  BY NextInv
<1> QED
  BY InitInv, <1>1, PTL DEF Spec

\* Every variable keeps its type; no page asks for more than Limit deletions.
THEOREM TypeCorrect == Spec => []TypeOK
<1>1. IInv => TypeOK
  BY DEF IInv
<1> QED
  BY Invariance, <1>1, PTL

\* CleanupCursor passes over nothing, for any page size and any number of keys:
\* what is stored from the first page of a sweep to its last is scanned by it,
\* whatever is written, removed, refused or cut short by a lost leadership.
THEOREM SweepCompleteTheorem == Spec => []SweepComplete
<1>1. IInv => SweepComplete
  BY DEF IInv, OwedInv
<1> QED
  BY Invariance, <1>1, PTL
=============================================================================
