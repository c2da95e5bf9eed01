-------------------------- MODULE MembershipProofs --------------------------
(***************************************************************************)
(* Type correctness of Membership, that no raft message goes to an address *)
(* which the book does not hold, and that the book and Pebble end up with  *)
(* what the log says, also across restarts, for any nodes, changes,        *)
(* handlers and capacities.                                                *)
(***************************************************************************)
EXTENDS Membership, SharedLemmas

\* A process that has ended holds nothing.
DownInv ==
  up = "down" =>
    /\ leading = FALSE /\ applied = 0 /\ inHand = 0 /\ readyCh = << >> /\ fwd = Idle
    /\ forwarded = 0 /\ lost = {} /\ clients = Absent

\* The forwarding loop is at a change of the log, unless it is idle.
ForwardInv == fwd.stage # "idle" => fwd.at # 0

\* The inductive invariant.
IInv == TypeOK /\ DownInv /\ ForwardInv /\ NoStaleClient

\* The bounds are natural numbers.
LEMMA Bounds == ReadyCap \in Nat \ {0} /\ MaxLog \in Nat /\ MaxRestarts \in Nat
BY MembershipAssumption

\* The founding members, by position.
LEMMA Founders ==
  /\ Len(Bootstrap) \in Nat /\ Len(Bootstrap) <= MaxLog /\ DOMAIN Bootstrap = 1 .. Len(Bootstrap)
  /\ \A i \in 1 .. Len(Bootstrap) : Bootstrap[i] \in Nodes
<1>1. Bootstrap \in Seq(Nodes) /\ Len(Bootstrap) <= MaxLog
  BY MembershipAssumption
<1> QED
  BY <1>1

\* A function on 1 .. n is a sequence of length n.
LEMMA FunctionSeq ==
  ASSUME NEW S, NEW n \in Nat, NEW f \in [1 .. n -> S]
  PROVE  f \in Seq(S) /\ Len(f) = n
<1>1. f \in Seq(S)
  BY SeqDef
<1> QED
  BY <1>1, LenProperties

\* The founding entries of the log are changes.
LEMMA FoundingLog ==
  ASSUME log = [i \in DOMAIN Bootstrap |-> [type |-> "voter", node |-> Bootstrap[i], addr |-> ""]]
  PROVE  log \in Seq(Change) /\ Len(log) \in Nat /\ Len(log) <= MaxLog
<1> DEFINE n == Len(Bootstrap)
           e(i) == [type |-> "voter", node |-> Bootstrap[i], addr |-> ""]
<1>1. n \in Nat /\ n <= MaxLog
  BY Founders
<1>2. log = [i \in 1 .. n |-> e(i)]
  BY Founders
<1>3. \A i \in 1 .. n : e(i) \in Change
  BY Founders, MembershipAssumption DEF Change
<1> HIDE DEF n, e
<1>4. log \in [1 .. n -> Change]
  BY <1>2, <1>3
<1>5. log \in Seq(Change) /\ Len(log) = n
  BY <1>1, <1>4, FunctionSeq
<1> QED
  BY <1>1, <1>5

\* The initial state satisfies the inductive invariant.
LEMMA InitInv == Init => IInv
<1> SUFFICES ASSUME Init PROVE IInv
  OBVIOUS
<1> USE DEF Init
<1>1. log \in Seq(Change) /\ Len(log) \in Nat /\ Len(log) <= MaxLog
  BY FoundingLog
<1>0. Self \in Nodes /\ "" \in Addrs /\ Configured \in [Nodes -> Addrs]
  BY MembershipAssumption
<1>2. TypeOK
  <2>1. LogT
    BY <1>1 DEF LogT
  <2>2. NoChange \in Change
    BY <1>0 DEF NoChange, Change
  <2>3. AdminT
    BY <2>2 DEF AdminT
  <2>4. RunT
    <3>1. members = {} /\ applied = 0 /\ inHand = 0
      OBVIOUS
    <3> HIDE DEF Init
    <3> QED
      BY <1>1, <3>1 DEF RunT
  <2>5. ForwardT
    <3>1. applied = 0 /\ readyCh = << >> /\ fwd = [at |-> 0, stage |-> "idle"] /\ forwarded = 0 /\ lost = {}
      BY DEF Idle
    <3> HIDE DEF Init
    <3> QED
      BY <3>1, Bounds DEF ForwardT
  <2>6. PeersT
    BY <1>0 DEF PeersT, Absent
  <2>7. SnapT
    <3>1. snap = [index |-> 0, members |-> {}, addrs |-> Absent, lost |-> {}]
      OBVIOUS
    <3>2. Absent \in [Nodes -> Addrs \cup {None}]
      BY DEF Absent
    <3> HIDE DEF Init
    <3>3. snap \in [index : Nat, members : SUBSET Nodes, addrs : [Nodes -> Addrs \cup {None}], lost : SUBSET Nat]
      BY <3>1, <3>2
    <3>4. snap.index = 0 /\ snap.lost = {}
      BY <3>1
    <3>5. applied = 0
      BY DEF Init
    <3> QED
      BY <1>1, <3>3, <3>4, <3>5 DEF SnapT
  <2>8. StopT
    <3>1. saving = [book |-> Configured, at |-> 0]
      BY DEF Saved
    <3>2. up = "up" /\ restarts = 0
      OBVIOUS
    <3> HIDE DEF Init
    <3>3. saving \in [book : [Nodes -> Addrs], at : Nat]
      BY <1>0, <3>1
    <3> QED
      BY <3>2, <3>3, Bounds DEF StopT
  <2> QED
    BY <2>1, <2>3, <2>4, <2>5, <2>6, <2>7, <2>8 DEF TypeOK
<1>3. DownInv /\ ForwardInv /\ NoStaleClient
  BY DEF DownInv, ForwardInv, NoStaleClient, Idle, Absent
<1> QED
  BY <1>2, <1>3 DEF IInv

\* Every step preserves the types.
LEMMA TypesPreserved ==
  ASSUME TypeOK, DownInv, ForwardInv, [Next]_vars
  PROVE  TypeOK' /\ DownInv' /\ ForwardInv'
<1>a. LogT /\ AdminT /\ RunT /\ ForwardT /\ PeersT /\ SnapT /\ StopT /\ DownInv /\ ForwardInv
  BY DEF TypeOK
<1>1. ASSUME NEW h \in Handlers, NEW c \in Changes, AddLearner(h, c) PROVE TypeOK' /\ DownInv' /\ ForwardInv'
  <2>1. AdminT'
    BY <1>1, <1>a, Bounds, MembershipAssumption DEF AdminT, AddLearner, Change
  <2>2. PeersT'
    BY <1>1, <1>a, Bounds, MembershipAssumption DEF PeersT, AddLearner, Set, Change
  <2>3. LogT' /\ RunT' /\ ForwardT' /\ SnapT' /\ StopT' /\ DownInv' /\ ForwardInv'
    BY <1>1, <1>a DEF LogT, RunT, ForwardT, SnapT, StopT, DownInv, ForwardInv, AddLearner, raft, running
  <2> QED
    BY <2>1, <2>2, <2>3 DEF TypeOK
<1>2. ASSUME NEW h \in Handlers, NEW c \in Changes, ChangeMember(h, c) PROVE TypeOK' /\ DownInv' /\ ForwardInv'
  <2>1. AdminT'
    BY <1>2, <1>a, Bounds, MembershipAssumption DEF AdminT, ChangeMember
  <2>2. LogT' /\ RunT' /\ ForwardT' /\ PeersT' /\ SnapT' /\ StopT' /\ DownInv' /\ ForwardInv'
    BY <1>2, <1>a DEF LogT, RunT, ForwardT, PeersT, SnapT, StopT, DownInv, ForwardInv, ChangeMember,
                      raft, peers, running
  <2> QED
    BY <2>1, <2>2 DEF TypeOK
<1>3. ASSUME NEW h \in Handlers, AddLearnerDrop(h) PROVE TypeOK' /\ DownInv' /\ ForwardInv'
  <2>1. AdminT'
    BY <1>3, <1>a, Bounds DEF AdminT, AddLearnerDrop
  <2>2. PeersT'
    BY <1>3, <1>a, Bounds DEF PeersT, AddLearnerDrop, dropClient
  <2>3. DownInv'
    BY <1>3, <1>a, Bounds DEF DownInv, AddLearnerDrop, running
  <2>4. LogT' /\ RunT' /\ ForwardT' /\ SnapT' /\ StopT' /\ ForwardInv'
    BY <1>3, <1>a DEF LogT, RunT, ForwardT, SnapT, StopT, ForwardInv, AddLearnerDrop, raft
  <2> QED
    BY <2>1, <2>2, <2>3, <2>4 DEF TypeOK
<1>4. ASSUME NEW h \in Handlers, Propose(h) PROVE TypeOK' /\ DownInv' /\ ForwardInv'
  <2>a. LogT' /\ Len(log') >= Len(log) /\ Len(log) \in Nat /\ Len(log') \in Nat
    <3>1. req[h] \in Change
      BY <1>a DEF AdminT
    <3>2. \/ log' = log
          \/ Len(log) < MaxLog /\ log' = Append(log, req[h])
      BY <1>4 DEF Propose
    <3>3. log \in Seq(Change) /\ Len(log) \in Nat /\ Len(log) <= MaxLog /\ MaxLog \in Nat
      BY <1>a, Bounds, LenProperties DEF LogT
    <3>4. Append(log, req[h]) \in Seq(Change) /\ Len(Append(log, req[h])) = Len(log) + 1
      BY <3>1, <3>3, AppendProperties
    <3>5. log' \in Seq(Change) /\ (Len(log') = Len(log) \/ (Len(log) < MaxLog /\ Len(log') = Len(log) + 1))
      BY <3>2, <3>3, <3>4
    <3>6. Len(log') \in Nat /\ Len(log') >= Len(log) /\ Len(log') <= MaxLog
      BY <3>3, <3>5
    <3>7. leading' \in BOOLEAN
      BY <1>4, <1>a DEF Propose, LogT
    <3> QED
      BY <3>3, <3>5, <3>6, <3>7 DEF LogT
  <2>1. LogT'
    BY <2>a
  <2>2. AdminT'
    BY <1>4, <1>a, Bounds, MembershipAssumption DEF AdminT, Propose, NoChange, Change
  <2>3. RunT'
    BY <1>4, <1>a, <2>a DEF RunT, Propose
  <2>4. SnapT'
    BY <1>4, <1>a, <2>a DEF SnapT, RunT, running, Propose
  <2>5. ForwardT' /\ PeersT' /\ StopT' /\ DownInv' /\ ForwardInv'
    BY <1>4, <1>a DEF ForwardT, PeersT, StopT, DownInv, ForwardInv, Propose, peers
  <2> QED
    BY <2>1, <2>2, <2>3, <2>4, <2>5 DEF TypeOK
<1>5. ASSUME NEW c \in Changes, RemoteChange(c) PROVE TypeOK' /\ DownInv' /\ ForwardInv'
  <2>a. LogT' /\ Len(log') >= Len(log) /\ Len(log) \in Nat /\ Len(log') \in Nat
    <3>1. c \in Change
      BY MembershipAssumption
    <3> QED
      BY <1>5, <1>a, <3>1, Bounds DEF RemoteChange, LogT
  <2>1. LogT'
    BY <2>a
  <2>2. RunT'
    BY <1>5, <1>a, <2>a DEF RunT, RemoteChange
  <2>3. SnapT'
    BY <1>5, <1>a, <2>a DEF SnapT, RunT, running, RemoteChange
  <2>4. AdminT' /\ ForwardT' /\ PeersT' /\ StopT' /\ DownInv' /\ ForwardInv'
    BY <1>5, <1>a DEF AdminT, ForwardT, PeersT, StopT, DownInv, ForwardInv, RemoteChange, admin, peers
  <2> QED
    BY <2>1, <2>2, <2>3, <2>4 DEF TypeOK
<1>6. ASSUME NEW n \in Nodes, Dial(n) PROVE TypeOK' /\ DownInv' /\ ForwardInv'
  <2>1. PeersT'
    BY <1>6, <1>a, Bounds DEF PeersT, Dial
  <2>2. DownInv'
    BY <1>6, <1>a, Bounds DEF DownInv, Dial, running
  <2>3. LogT' /\ AdminT' /\ RunT' /\ ForwardT' /\ SnapT' /\ StopT' /\ ForwardInv'
    BY <1>6, <1>a DEF LogT, AdminT, RunT, ForwardT, SnapT, StopT, ForwardInv, Dial, admin, raft
  <2> QED
    BY <2>1, <2>2, <2>3 DEF TypeOK
<1>7. CASE ApplyChange
  <2>1. RunT'
    <3>1. applied + 1 \in 1 .. Len(log) /\ applied' = applied + 1 /\ inHand' = applied + 1 /\ log' = log
      BY <1>7, <1>a DEF LogT, RunT, ApplyChange
    <3>4. log[applied + 1] \in Change
      BY <1>a, <3>1 DEF LogT
    <3>2. log[applied + 1].node \in Nodes
      BY <3>4 DEF Change
    <3>3. members' \subseteq Nodes
      BY <1>7, <1>a, <3>2 DEF RunT, ApplyChange
    <3> QED
      BY <3>1, <3>3 DEF RunT
  <2>2. ForwardT'
    BY <1>7, <1>a, Bounds DEF RunT, ForwardT, ApplyChange
  <2>3. SnapT'
    BY <1>7, <1>a, Bounds DEF RunT, SnapT, ApplyChange
  <2>4. DownInv'
    BY <1>7, <1>a, Bounds DEF DownInv, ApplyChange, running
  <2>5. LogT' /\ AdminT' /\ PeersT' /\ StopT' /\ ForwardInv'
    BY <1>7, <1>a DEF LogT, AdminT, PeersT, StopT, ForwardInv, ApplyChange, admin, peers
  <2> QED
    BY <2>1, <2>2, <2>3, <2>4, <2>5 DEF TypeOK
<1>8. CASE EmitReady
  <2>1. RunT'
    BY <1>8, <1>a, Bounds DEF RunT, EmitReady
  <2>2. ForwardT'
    BY <1>8, <1>a, Bounds DEF RunT, ForwardT, EmitReady
  <2>3. DownInv'
    BY <1>8, <1>a, Bounds DEF DownInv, EmitReady
  <2>4. LogT' /\ AdminT' /\ PeersT' /\ SnapT' /\ StopT' /\ ForwardInv'
    BY <1>8, <1>a DEF LogT, AdminT, PeersT, SnapT, StopT, ForwardInv, EmitReady, admin, peers
  <2> QED
    BY <2>1, <2>2, <2>3, <2>4 DEF TypeOK
<1>9. CASE TakeSnapshot
  <2>1. SnapT'
    <3> DEFINE missed == lost \cup (forwarded + 1) .. applied
    <3>1. missed \subseteq 1 .. applied /\ applied \in Nat /\ applied <= Len(log)
      BY <1>a DEF ForwardT, RunT
    <3>2. members \in SUBSET Nodes /\ persisted \in [Nodes -> Addrs \cup {None}] /\ missed \in SUBSET Nat
      BY <1>a, <3>1 DEF RunT, PeersT
    <3>3. snap' = [index |-> applied, members |-> members, addrs |-> persisted, lost |-> missed]
      BY <1>9 DEF TakeSnapshot
    <3>4. log' = log /\ applied' = applied
      BY <1>9 DEF TakeSnapshot
    <3> HIDE DEF missed
    <3>5. snap' \in [index : Nat, members : SUBSET Nodes, addrs : [Nodes -> Addrs \cup {None}], lost : SUBSET Nat]
      BY <3>1, <3>2, <3>3
    <3>6. snap'.index = applied /\ snap'.lost = missed
      BY <3>3
    <3> QED
      BY <3>1, <3>4, <3>5, <3>6 DEF SnapT
  <2>2. LogT' /\ AdminT' /\ RunT' /\ ForwardT' /\ PeersT' /\ StopT' /\ DownInv' /\ ForwardInv'
    BY <1>9, <1>a DEF LogT, AdminT, RunT, ForwardT, PeersT, StopT, DownInv, ForwardInv, TakeSnapshot, admin, peers
  <2> QED
    BY <2>1, <2>2 DEF TypeOK
<1>10. CASE ForwardBook
  <2>a. /\ readyCh' = Tail(readyCh) /\ fwd' = [at |-> Head(readyCh), stage |-> "drop"]
        /\ Head(readyCh) \in 1 .. applied /\ readyCh' \in Seq(Nat) /\ Len(readyCh') <= ReadyCap
        /\ \A k \in DOMAIN readyCh' : readyCh'[k] \in 1 .. applied
    <3>1. readyCh \in Seq(Nat) /\ readyCh # << >> /\ Len(readyCh) <= ReadyCap
      BY <1>10, <1>a DEF ForwardT, ForwardBook
    <3>2. readyCh' = Tail(readyCh) /\ fwd' = [at |-> Head(readyCh), stage |-> "drop"]
      BY <1>10 DEF ForwardBook
    <3>3. \A k \in 1 .. Len(readyCh) : readyCh[k] \in 1 .. applied
      BY <1>a, <3>1 DEF ForwardT
    <3>4. /\ Head(readyCh) = readyCh[1] /\ 1 \in 1 .. Len(readyCh)
          /\ Tail(readyCh) \in Seq(Nat) /\ Len(Tail(readyCh)) = Len(readyCh) - 1 /\ Len(readyCh) \in Nat
      BY <3>1
    <3>5. \A k \in 1 .. Len(readyCh) - 1 : Tail(readyCh)[k] = readyCh[k + 1] /\ k + 1 \in 1 .. Len(readyCh)
      BY <3>1
    <3> QED
      BY <3>1, <3>2, <3>3, <3>4, <3>5, Bounds
  <2>b. /\ log[Head(readyCh)].node \in Nodes /\ log[Head(readyCh)].addr \in Addrs
        /\ book' \in {Forget(book, log[Head(readyCh)].node),
                     Set(book, log[Head(readyCh)].node, log[Head(readyCh)].addr)}
    <3>1. Head(readyCh) \in 1 .. Len(log)
      BY <1>a, <2>a DEF RunT, LogT
    <3>2. log[Head(readyCh)] \in Change
      BY <1>a, <3>1 DEF LogT
    <3> QED
      BY <1>10, <3>2 DEF Change, ForwardBook
  <2>1. AdminT'
    BY <1>10, <1>a, Bounds DEF AdminT, ForwardBook
  <2>2. ForwardT'
    <3>1. UNCHANGED <<applied, forwarded, lost>>
      BY <1>10 DEF ForwardBook, raft
    <3>2. fwd' \in [at : Nat, stage : {"idle", "drop", "persist"}] /\ fwd'.at <= applied
      BY <1>a, <2>a DEF RunT
    <3> QED
      BY <1>a, <2>a, <3>1, <3>2 DEF ForwardT
  <2>3. PeersT'
    <3>1. "" \in Addrs
      BY MembershipAssumption
    <3>2. book' \in [Nodes -> Addrs]
      BY <1>a, <2>b, <3>1 DEF PeersT, Forget, Set
    <3>3. UNCHANGED <<clients, persisted>>
      BY <1>10 DEF ForwardBook
    <3> QED
      BY <1>a, <3>2, <3>3 DEF PeersT
  <2>4. DownInv'
    BY <1>10, <1>a, Bounds DEF DownInv, ForwardBook
  <2>5. ForwardInv'
    BY <2>a DEF ForwardInv
  <2>6. LogT' /\ RunT' /\ SnapT' /\ StopT'
    BY <1>10, <1>a DEF LogT, RunT, SnapT, StopT, ForwardBook, raft
  <2> QED
    BY <2>1, <2>2, <2>3, <2>4, <2>5, <2>6 DEF TypeOK
<1>11. CASE ForwardDrop
  <2>1. ForwardT'
    BY <1>11, <1>a, Bounds DEF ForwardT, ForwardDrop, raft
  <2>2. PeersT'
    BY <1>11, <1>a, Bounds DEF PeersT, ForwardDrop, dropClient
  <2>3. DownInv'
    BY <1>11, <1>a, Bounds DEF DownInv, ForwardDrop, running
  <2>4. ForwardInv'
    BY <1>11, <1>a DEF ForwardInv, ForwardT, ForwardDrop
  <2>5. LogT' /\ AdminT' /\ RunT' /\ SnapT' /\ StopT'
    BY <1>11, <1>a DEF LogT, AdminT, RunT, SnapT, StopT, ForwardDrop, admin, raft
  <2> QED
    BY <2>1, <2>2, <2>3, <2>4, <2>5 DEF TypeOK
<1>12. CASE ForwardPersist
  <2>1. ForwardT'
    BY <1>12, <1>a, Bounds DEF RunT, ForwardT, ForwardPersist, Idle, raft
  <2>2. PeersT'
    <3>1. fwd.at \in 1 .. Len(log)
      BY <1>12, <1>a DEF ForwardInv, ForwardT, RunT, ForwardPersist
    <3>2. change \in Change
      BY <1>a, <3>1 DEF LogT, change
    <3>3. change.addr \in Addrs
      BY <3>2 DEF Change
    <3>4. persisted' \in [Nodes -> Addrs \cup {None}]
      BY <1>12, <1>a, <3>3 DEF PeersT, ForwardPersist
    <3>5. UNCHANGED <<book, clients>>
      BY <1>12 DEF ForwardPersist
    <3> QED
      BY <1>a, <3>4, <3>5 DEF PeersT
  <2>3. DownInv'
    BY <1>12, <1>a, Bounds DEF DownInv, ForwardPersist, running
  <2>4. ForwardInv'
    BY <1>12, <1>a, Bounds DEF ForwardInv, ForwardPersist, Idle
  <2>5. LogT' /\ AdminT' /\ RunT' /\ SnapT' /\ StopT'
    BY <1>12, <1>a DEF LogT, AdminT, RunT, SnapT, StopT, ForwardPersist, admin, raft
  <2> QED
    BY <2>1, <2>2, <2>3, <2>4, <2>5 DEF TypeOK
<1>13. CASE TransferLeader
  <2>1. LogT'
    BY <1>13, <1>a, Bounds DEF LogT, TransferLeader
  <2>2. DownInv'
    BY <1>13, <1>a, Bounds DEF DownInv, TransferLeader, peers
  <2>3. AdminT' /\ RunT' /\ ForwardT' /\ PeersT' /\ SnapT' /\ StopT' /\ ForwardInv'
    BY <1>13, <1>a DEF AdminT, RunT, ForwardT, PeersT, SnapT, StopT, ForwardInv, TransferLeader, admin, peers, running
  <2> QED
    BY <2>1, <2>2, <2>3 DEF TypeOK
<1>14. CASE Lead
  <2>1. LogT'
    BY <1>14, <1>a, Bounds DEF LogT, Lead
  <2>2. DownInv'
    BY <1>14, <1>a, Bounds DEF DownInv, Lead, running
  <2>3. AdminT' /\ RunT' /\ ForwardT' /\ PeersT' /\ SnapT' /\ StopT' /\ ForwardInv'
    BY <1>14, <1>a DEF AdminT, RunT, ForwardT, PeersT, SnapT, StopT, ForwardInv, Lead, admin, peers
  <2> QED
    BY <2>1, <2>2, <2>3 DEF TypeOK
<1>15. CASE Stop
  <2>1. SnapT'
    BY <1>15, <1>a, Bounds DEF SnapT, Stop, raft, running
  <2>2. StopT'
    <3>1. saving' = [book |-> book, at |-> forwarded] /\ up' = "stopping" /\ restarts' = restarts
      BY <1>15 DEF Stop
    <3>2. book \in [Nodes -> Addrs] /\ forwarded \in Nat
      BY <1>a DEF PeersT, ForwardT
    <3> QED
      BY <1>a, <3>1, <3>2 DEF StopT
  <2>3. DownInv'
    BY <1>15, <1>a, Bounds DEF DownInv, Stop
  <2>4. LogT' /\ AdminT' /\ RunT' /\ ForwardT' /\ PeersT' /\ ForwardInv'
    BY <1>15, <1>a DEF LogT, AdminT, RunT, ForwardT, PeersT, ForwardInv, Stop, admin, raft, peers
  <2> QED
    BY <2>1, <2>2, <2>3, <2>4 DEF TypeOK
<1>16. CASE StopPersist
  <2>1. ForwardT'
    <3>1. (saving.at + 1) .. forwarded \subseteq 1 .. applied
      BY <1>a DEF StopT, ForwardT, RunT
    <3>2. lost' = lost \cup (saving.at + 1) .. forwarded /\ UNCHANGED <<applied, readyCh, fwd, forwarded>>
      BY <1>16 DEF StopPersist, raft
    <3> QED
      BY <1>a, <3>1, <3>2 DEF ForwardT
  <2>2. PeersT'
    <3>1. saving.book \in [Nodes -> Addrs]
      BY <1>a DEF StopT
    <3>2. persisted' = written(saving.book) /\ UNCHANGED <<book, clients>>
      BY <1>16 DEF StopPersist
    <3> QED
      BY <1>a, <3>1, <3>2 DEF PeersT, written
  <2>3. SnapT'
    BY <1>16, <1>a, Bounds DEF SnapT, StopPersist, raft, running
  <2>4. StopT'
    <3>1. saving' = [book |-> Configured, at |-> 0] /\ Configured \in [Nodes -> Addrs]
      BY <1>16, MembershipAssumption DEF StopPersist, Saved
    <3>2. up' = "stopped" /\ restarts' = restarts
      BY <1>16 DEF StopPersist
    <3> QED
      BY <1>a, <3>1, <3>2, Bounds DEF StopT
  <2>5. DownInv'
    BY <1>16, <1>a, Bounds DEF DownInv, StopPersist
  <2>6. LogT' /\ AdminT' /\ RunT' /\ ForwardInv'
    BY <1>16, <1>a DEF LogT, AdminT, RunT, ForwardInv, StopPersist, admin, raft
  <2> QED
    BY <2>1, <2>2, <2>3, <2>4, <2>5, <2>6 DEF TypeOK
<1>17. CASE Exit
  <2>1. LogT'
    BY <1>17, <1>a, Bounds DEF LogT, Exit
  <2>2. AdminT'
    BY <1>17, <1>a, Bounds, MembershipAssumption DEF AdminT, Exit, NoChange, Change
  <2>3. RunT'
    <3>1. members' = {} /\ applied' = 0 /\ inHand' = 0 /\ log' = log
      BY <1>17 DEF Exit
    <3> QED
      BY <1>a, <3>1 DEF RunT, LogT
  <2>4. ForwardT'
    <3>1. applied' = 0 /\ readyCh' = << >> /\ fwd' = [at |-> 0, stage |-> "idle"] /\ forwarded' = 0 /\ lost' = {}
      BY <1>17 DEF Exit, Idle
    <3> QED
      BY <3>1, Bounds DEF ForwardT
  <2>5. PeersT'
    BY <1>17, <1>a, Bounds, MembershipAssumption DEF PeersT, Exit, Absent
  <2>6. SnapT'
    BY <1>17, <1>a, Bounds DEF SnapT, Exit, running
  <2>7. StopT'
    <3>1. saving' = [book |-> Configured, at |-> 0] /\ Configured \in [Nodes -> Addrs]
      BY <1>17, MembershipAssumption DEF Exit, Saved
    <3>2. up' = "down" /\ restarts < MaxRestarts /\ restarts' = restarts + 1
      BY <1>17 DEF Exit
    <3> QED
      BY <1>a, <3>1, <3>2, Bounds DEF StopT
  <2>8. DownInv'
    BY <1>17, <1>a, Bounds DEF DownInv, Exit
  <2>9. ForwardInv'
    BY <1>17, <1>a, Bounds DEF ForwardInv, Exit, Idle
  <2> QED
    BY <2>1, <2>2, <2>3, <2>4, <2>5, <2>6, <2>7, <2>8, <2>9 DEF TypeOK
<1>18. CASE Start
  <2>a. /\ snap.index \in Nat /\ snap.index <= Len(log) /\ snap.members \subseteq Nodes
        /\ snap.addrs \in [Nodes -> Addrs \cup {None}] /\ snap.lost \subseteq 1 .. snap.index
    BY <1>a DEF SnapT
  <2>b. /\ applied = 0 /\ inHand = 0 /\ readyCh = << >> /\ fwd = [at |-> 0, stage |-> "idle"]
    BY <1>18, <1>a DEF Start, DownInv, Idle
  <2>1. RunT'
    <3>1. members' = snap.members /\ applied' = snap.index /\ inHand' = 0 /\ log' = log
      BY <1>18, <2>b DEF Start
    <3> QED
      BY <1>a, <2>a, <3>1 DEF RunT, LogT
  <2>2. ForwardT'
    <3>1. /\ applied' = snap.index /\ forwarded' = snap.index /\ lost' = snap.lost
          /\ readyCh' = << >> /\ fwd' = [at |-> 0, stage |-> "idle"]
      BY <1>18, <2>b DEF Start
    <3> QED
      BY <2>a, <3>1, Bounds DEF ForwardT
  <2>3. PeersT'
    <3>1. Configured \in [Nodes -> Addrs]
      BY MembershipAssumption
    <3>2. Restore \in [Nodes -> Addrs \cup {None}]
      BY <1>a, <2>a DEF PeersT, Restore
    <3>3. restored(Restore) \in [Nodes -> Addrs]
      BY <3>1, <3>2 DEF restored
    <3>4. written(restored(Restore)) \in [Nodes -> Addrs \cup {None}]
      BY <3>3 DEF written
    <3>5. book' = restored(Restore) /\ persisted' = written(restored(Restore)) /\ clients' = clients
      BY <1>18 DEF Start
    <3> QED
      BY <1>a, <3>3, <3>4, <3>5 DEF PeersT
  <2>4. SnapT'
    <3>1. log' = log /\ snap' = snap /\ applied' = snap.index
      BY <1>18 DEF Start
    <3> QED
      BY <1>a, <2>a, <3>1 DEF SnapT, running
  <2>5. StopT'
    BY <1>18, <1>a, Bounds DEF StopT, Start
  <2>6. DownInv'
    BY <1>18, <1>a, Bounds DEF DownInv, Start
  <2>7. LogT' /\ AdminT' /\ ForwardInv'
    BY <1>18, <1>a DEF LogT, AdminT, ForwardInv, Start, admin
  <2> QED
    BY <2>1, <2>2, <2>3, <2>4, <2>5, <2>6, <2>7 DEF TypeOK
<1>19. CASE UNCHANGED vars
  BY <1>19, <1>a DEF TypeOK, LogT, AdminT, RunT, ForwardT, PeersT, SnapT, StopT, DownInv, ForwardInv, vars,
                      admin, raft, peers, running
<1> QED
  BY <1>1, <1>2, <1>3, <1>4, <1>5, <1>6, <1>7, <1>8, <1>9, <1>10, <1>11, <1>12, <1>13,
     <1>14, <1>15, <1>16, <1>17, <1>18, <1>19 DEF Next, RunLoop, ForwardLoop

-----------------------------------------------------------------------------
(* The clients. *)

\* Somebody is about to drop the client of node n.
dropping(n) ==
  \/ \E h \in Handlers : pc[h] = "drop" /\ req[h].node = n
  \/ fwd.stage = "drop" /\ change.node = n

\* Every step leaves a stale client only to someone who is about to drop it.
LEMMA ClientsPreserved ==
  ASSUME TypeOK, DownInv, ForwardInv, NoStaleClient, [Next]_vars
  PROVE  NoStaleClient'
<1>a. LogT /\ AdminT /\ RunT /\ ForwardT /\ PeersT
  BY DEF TypeOK
<1>b. \A n \in Nodes : clients[n] \notin {None, book[n]} => dropping(n)
  BY DEF NoStaleClient, dropping
<1> SUFFICES ASSUME NEW n \in Nodes, clients'[n] \notin {None, book'[n]}
             PROVE  dropping(n)'
  BY DEF NoStaleClient, dropping
\* A step that leaves the clients and the book alone keeps every reason to drop.
<1>c. ASSUME UNCHANGED <<clients, book, pc, req, fwd>>, fwd.stage = "drop" => change' = change
      PROVE  dropping(n)'
  <2>1. dropping(n)
    BY <1>b, <1>c
  <2> QED
    BY <1>c, <2>1 DEF dropping
<1>d. ASSUME log' = log, fwd' = fwd PROVE change' = change
  BY <1>d DEF change
<1>1. ASSUME NEW h \in Handlers, NEW c \in Changes, AddLearner(h, c) PROVE dropping(n)'
  <2>1. /\ pc' = [pc EXCEPT ![h] = "drop"] /\ req' = [req EXCEPT ![h] = c] /\ pc[h] = "new"
        /\ book' = Set(book, c.node, c.addr) /\ UNCHANGED <<log, fwd, clients>>
    BY <1>1 DEF AddLearner, raft
  <2>2. pc'[h] = "drop" /\ req'[h] = c
    BY <1>a, <2>1 DEF AdminT
  <2>3. CASE c.node = n
    BY <2>2, <2>3 DEF dropping
  <2>4. CASE c.node # n
    <3>1. book'[n] = book[n]
      BY <1>a, <2>1, <2>4 DEF PeersT, Set
    <3>2. dropping(n)
      BY <1>b, <2>1, <3>1
    <3>3. CASE fwd.stage = "drop" /\ change.node = n
      BY <1>d, <2>1, <3>3 DEF dropping
    <3>4. ASSUME NEW g \in Handlers, pc[g] = "drop", req[g].node = n PROVE dropping(n)'
      <4>1. g # h /\ pc'[g] = pc[g] /\ req'[g] = req[g]
        BY <1>a, <2>1, <3>4 DEF AdminT
      <4> QED
        BY <3>4, <4>1 DEF dropping
    <3> QED
      BY <3>2, <3>3, <3>4 DEF dropping
  <2> QED
    BY <2>3, <2>4
<1>2. ASSUME NEW h \in Handlers, NEW c \in Changes, ChangeMember(h, c) PROVE dropping(n)'
  <2>1. /\ pc' = [pc EXCEPT ![h] = "propose"] /\ req' = [req EXCEPT ![h] = c] /\ pc[h] = "new"
        /\ UNCHANGED <<log, fwd, clients, book>>
    BY <1>2 DEF ChangeMember, raft, peers
  <2>2. dropping(n)
    BY <1>b, <2>1
  <2>3. CASE fwd.stage = "drop" /\ change.node = n
    BY <1>d, <2>1, <2>3 DEF dropping
  <2>4. ASSUME NEW g \in Handlers, pc[g] = "drop", req[g].node = n PROVE dropping(n)'
    <3>1. g # h /\ pc'[g] = pc[g] /\ req'[g] = req[g]
      BY <1>a, <2>1, <2>4 DEF AdminT
    <3> QED
      BY <2>4, <3>1 DEF dropping
  <2> QED
    BY <2>2, <2>3, <2>4 DEF dropping
<1>3. ASSUME NEW h \in Handlers, AddLearnerDrop(h) PROVE dropping(n)'
  <2>1. /\ pc' = [pc EXCEPT ![h] = "propose"] /\ clients' = [clients EXCEPT ![req[h].node] = None]
        /\ UNCHANGED <<req, log, fwd, book>>
    BY <1>3 DEF AddLearnerDrop, dropClient, raft
  <2>2. n # req[h].node /\ clients'[n] = clients[n]
    BY <1>a, <2>1 DEF PeersT
  <2>3. dropping(n)
    BY <1>b, <2>1, <2>2
  <2>4. CASE fwd.stage = "drop" /\ change.node = n
    BY <1>d, <2>1, <2>4 DEF dropping
  <2>5. ASSUME NEW g \in Handlers, pc[g] = "drop", req[g].node = n PROVE dropping(n)'
    <3>1. g # h /\ pc'[g] = pc[g] /\ req'[g] = req[g]
      BY <1>a, <2>1, <2>2, <2>5 DEF AdminT
    <3> QED
      BY <2>5, <3>1 DEF dropping
  <2> QED
    BY <2>3, <2>4, <2>5 DEF dropping
<1>4. ASSUME NEW h \in Handlers, Propose(h) PROVE dropping(n)'
  <2>1. /\ pc' = [pc EXCEPT ![h] = "done"] /\ req' = [req EXCEPT ![h] = NoChange] /\ pc[h] = "propose"
        /\ UNCHANGED <<fwd, clients, book>> /\ (log' = log \/ log' = Append(log, req[h]))
    BY <1>4 DEF Propose, peers
  <2>2. dropping(n)
    BY <1>b, <2>1
  <2>3. CASE fwd.stage = "drop" /\ change.node = n
    <3>1. fwd.at \in 1 .. Len(log) /\ log \in Seq(Change) /\ req[h] \in Change
      BY <1>a, <2>3 DEF ForwardInv, ForwardT, RunT, LogT, AdminT
    <3>2. log'[fwd.at] = log[fwd.at]
      BY <2>1, <3>1
    <3> QED
      BY <2>1, <2>3, <3>2 DEF dropping, change
  <2>4. ASSUME NEW g \in Handlers, pc[g] = "drop", req[g].node = n PROVE dropping(n)'
    <3>1. g # h /\ pc'[g] = pc[g] /\ req'[g] = req[g]
      BY <1>a, <2>1, <2>4 DEF AdminT
    <3> QED
      BY <2>4, <3>1 DEF dropping
  <2> QED
    BY <2>2, <2>3, <2>4 DEF dropping
<1>5. ASSUME NEW c \in Changes, RemoteChange(c) PROVE dropping(n)'
  <2>1. log' = Append(log, c) /\ UNCHANGED <<pc, req, fwd, clients, book>>
    BY <1>5 DEF RemoteChange, admin, peers
  <2>2. ASSUME fwd.stage = "drop" PROVE change' = change
    <3>1. fwd.at \in 1 .. Len(log) /\ log \in Seq(Change)
      BY <1>a, <2>2 DEF ForwardInv, ForwardT, RunT, LogT
    <3>2. log'[fwd.at] = log[fwd.at]
      BY <2>1, <3>1
    <3> QED
      BY <2>1, <3>2 DEF change
  <2> QED
    BY <1>c, <2>1, <2>2
<1>6. ASSUME NEW m \in Nodes, Dial(m) PROVE dropping(n)'
  <2>1. clients' = [clients EXCEPT ![m] = book[m]] /\ UNCHANGED <<log, pc, req, fwd, book>>
    BY <1>6 DEF Dial, admin, raft
  <2>2. n # m /\ clients'[n] = clients[n]
    BY <1>a, <2>1 DEF PeersT
  <2>3. dropping(n)
    BY <1>b, <2>1, <2>2
  <2> QED
    BY <1>d, <2>1, <2>3 DEF dropping
<1>7. CASE ForwardBook
  <2>1. /\ fwd' = [at |-> Head(readyCh), stage |-> "drop"] /\ fwd = Idle
        /\ book' \in {Forget(book, log[Head(readyCh)].node),
                      Set(book, log[Head(readyCh)].node, log[Head(readyCh)].addr)}
        /\ UNCHANGED <<log, pc, req, clients>>
    BY <1>7 DEF ForwardBook, raft
  <2>2. fwd'.stage = "drop" /\ change' = log[Head(readyCh)] /\ fwd.stage = "idle"
    BY <2>1 DEF change, Idle
  <2>3. CASE change'.node = n
    BY <2>2, <2>3 DEF dropping
  <2>4. CASE change'.node # n
    <3>1. book'[n] = book[n]
      BY <1>a, <2>1, <2>2, <2>4 DEF PeersT, Forget, Set
    <3>2. dropping(n)
      BY <1>b, <2>1, <3>1
    <3> QED
      BY <2>1, <2>2, <3>2 DEF dropping
  <2> QED
    BY <2>3, <2>4
<1>8. CASE ForwardDrop
  <2>1. clients' = [clients EXCEPT ![change.node] = None] /\ UNCHANGED <<pc, req, book>>
    BY <1>8 DEF ForwardDrop, dropClient, admin
  <2>2. n # change.node /\ clients'[n] = clients[n]
    BY <1>a, <2>1 DEF PeersT
  <2>3. dropping(n)
    BY <1>b, <2>1, <2>2
  <2> QED
    BY <2>1, <2>2, <2>3 DEF dropping
<1>9. CASE ForwardPersist
  <2>1. fwd.stage = "persist" /\ UNCHANGED <<pc, req, clients, book>>
    BY <1>9 DEF ForwardPersist, admin
  <2>2. dropping(n)
    BY <1>b, <2>1
  <2> QED
    BY <2>1, <2>2 DEF dropping
<1>10. CASE Exit
  BY <1>10 DEF Exit, Absent
<1>11. CASE Start
  BY <1>11 DEF Start, DownInv, Absent
<1>12. CASE \/ ApplyChange \/ EmitReady \/ TakeSnapshot \/ TransferLeader \/ Lead
            \/ Stop \/ StopPersist \/ UNCHANGED vars
  <2>1. UNCHANGED <<log, clients, book, pc, req, fwd>>
    BY <1>12 DEF ApplyChange, EmitReady, TakeSnapshot, TransferLeader, Lead, Stop, StopPersist, vars,
                    admin, raft, peers
  <2> QED
    BY <1>c, <1>d, <2>1
<1> QED
  BY <1>1, <1>2, <1>3, <1>4, <1>5, <1>6, <1>7, <1>8, <1>9, <1>10, <1>11, <1>12
  DEF Next, RunLoop, ForwardLoop

-----------------------------------------------------------------------------
(* The theorems. *)

\* The invariant holds in every reachable state.
LEMMA Invariance == Spec => []IInv
<1>1. IInv /\ [Next]_vars => IInv'
  BY TypesPreserved, ClientsPreserved DEF IInv
<1> QED
  BY InitInv, <1>1, PTL DEF Spec

\* Membership is type correct: among others, the forwarding loop is never ahead
\* of what the run loop has applied, and a snapshot never of the log.
THEOREM TypeCorrect == Spec => []TypeOK
<1>1. IInv => TypeOK
  BY DEF IInv
<1> QED
  BY Invariance, <1>1, PTL

\* Whichever way any number of handlers, the forwarding loop, sending, restarts
\* and crashes interleave, a cached client is for the address in the book or is
\* about to be dropped.
THEOREM NoStaleClientTheorem == Spec => []NoStaleClient
<1>1. IInv => NoStaleClient
  BY DEF IInv
<1> QED
  BY Invariance, <1>1, PTL

-----------------------------------------------------------------------------
(* The addresses.  The forwarding loop goes through the log in order, and  *)
(* what the book, Pebble, the copy that Stop writes and the snapshot hold  *)
(* of a node is right up to the point that each of them has reached.       *)

\* Every Ready that is emitted finds room in the channel.
NoDrop == [][inHand # 0 /\ inHand' = 0 /\ up' # "down" => Len(readyCh) < ReadyCap]_vars

\* The index up to which the book has followed the log.
at == IF fwd.stage = "idle" THEN forwarded ELSE fwd.at

\* The indexes on their way to the forwarding loop leave no gap.
WayInv ==
  running =>
    /\ fwd.stage # "idle" => fwd.at = forwarded + 1
    /\ \A k \in 1 .. Len(readyCh) : readyCh[k] = at + k
    /\ applied = at + Len(readyCh) + (IF inHand = 0 THEN 0 ELSE 1)

\* The last change of node n in the log g, up to index i.
lastOf(g, n, i) == latest({j \in 1 .. i : g[j].node = n})

\* That change makes n a member.
memberAt(g, n, i) == lastOf(g, n, i) # 0 /\ g[lastOf(g, n, i)].type # "remove"

\* Raft's configuration, and that of the snapshot, follow the log.
MembersInv ==
  \A n \in Nodes :
    /\ running => (n \in members <=> memberAt(log, n, applied))
    /\ n \in snap.members <=> memberAt(log, n, snap.index)

\* The snapshot lacks what has not been forwarded, and what an earlier one had
\* lacked when the process started; Stop writes over what came after its copy.
LostInv ==
  /\ running => (forwarded + 1) .. snap.index \subseteq snap.lost
  /\ up \in {"up", "stopping"} => lost \subseteq snap.lost
  /\ up = "stopping" => saving.at <= forwarded

\* The last change that says something about the address of n: a removal, or
\* one with an address.  What it says, to the book and to Pebble.
tells(c, n)  == c.node = n /\ (c.type = "remove" \/ c.addr # "")
told(g, n)   == latest({j \in 1 .. Len(g) : tells(g[j], n)})
says(g, j)   == IF j = 0 THEN "" ELSE IF g[j].type = "remove" THEN "" ELSE g[j].addr
stored(g, j) == IF says(g, j) = "" THEN None ELSE says(g, j)

\* What is recorded of n at index i may be wrong: its last change is one of the
\* lost ones, or had no address.
spoilt(g, n, i, l) ==
  /\ told(g, n) <= i
  /\ \/ lastOf(g, n, i) \in l
     \/ /\ lastOf(g, n, i) # 0
        /\ g[lastOf(g, n, i)].type # "remove" /\ g[lastOf(g, n, i)].addr = ""

\* It was so in the snapshot that the process started from, at an index up to i.
spoiltAtStart(g, n, i, l, s) == \E k \in 0 .. i : k <= s /\ spoilt(g, n, k, l)

BookInv(n) ==
  running /\ told(log, n) <= at =>
    book[n] = says(log, told(log, n)) \/ spoiltAtStart(log, n, forwarded, lost, snap.index)
PersistedInv(n) ==
  running /\ told(log, n) <= forwarded =>
    persisted[n] = stored(log, told(log, n)) \/ spoilt(log, n, forwarded, lost)
SavingInv(n) ==
  up = "stopping" /\ told(log, n) <= saving.at =>
    saving.book[n] = says(log, told(log, n)) \/ spoiltAtStart(log, n, saving.at, lost, snap.index)
SnapInv(n) ==
  told(log, n) <= snap.index =>
    snap.addrs[n] = stored(log, told(log, n)) \/ spoilt(log, n, snap.index, snap.lost)

\* Of a node that the log says nothing about, nothing is known.
UntoldInv(n) ==
  told(log, n) = 0 =>
    book[n] = "" /\ saving.book[n] = "" /\ persisted[n] \in {None, ""} /\ snap.addrs[n] \in {None, ""}

AddressOf(n) == BookInv(n) /\ PersistedInv(n) /\ SavingInv(n) /\ SnapInv(n) /\ UntoldInv(n)

unconfigured(n) == Configured[n] = ""

AddressInv == \A n \in Nodes : unconfigured(n) /\ n \notin stray => AddressOf(n)

-----------------------------------------------------------------------------
(* The last change of a node. *)

\* The last one of a set of indexes.
LEMMA LatestProperties ==
  ASSUME NEW i \in Nat, NEW S \in SUBSET (1 .. i)
  PROVE  latest(S) \in S \cup {0} /\ latest(S) \in 0 .. i /\ \A j \in S : j <= latest(S)
<1>1. S \cup {0} \in SUBSET Nat /\ S \cup {0} # {} /\ \A j \in S \cup {0} : j <= i
  OBVIOUS
<1>2. Max(S \cup {0}) \in S \cup {0} /\ \A j \in S \cup {0} : j <= Max(S \cup {0})
  BY <1>1, MaxProperties
<1>3. PICK x : x = Max(S \cup {0})
  OBVIOUS
<1>a. x \in S \cup {0} /\ \A j \in S : j <= x
  BY <1>2, <1>3
<1>b. \A j \in S : j \in 1 .. i
  OBVIOUS
<1>4. x \in S \cup {0} /\ x \in 0 .. i /\ \A j \in S : j <= x
  BY <1>a, <1>b
<1> QED
  BY <1>3, <1>4 DEF latest

\* lastOf is a change of the node, and no later one up to i is.
LEMMA LastOf ==
  ASSUME NEW g, NEW n, NEW i \in Nat
  PROVE  /\ lastOf(g, n, i) \in 0 .. i
         /\ lastOf(g, n, i) # 0 => g[lastOf(g, n, i)].node = n
         /\ \A j \in 1 .. i : g[j].node = n => j <= lastOf(g, n, i)
<1> DEFINE S == {j \in 1 .. i : g[j].node = n}
<1>1. S \in SUBSET (1 .. i)
  OBVIOUS
<1>2. latest(S) \in S \cup {0} /\ latest(S) \in 0 .. i /\ \A j \in S : j <= latest(S)
  BY <1>1, LatestProperties
<1> QED
  BY <1>2 DEF lastOf

\* These properties determine it.
LEMMA LastIs ==
  ASSUME NEW g, NEW n, NEW i \in Nat, NEW c \in 0 .. i, c # 0 => g[c].node = n,
         \A j \in 1 .. i : g[j].node = n => j <= c
  PROVE  lastOf(g, n, i) = c
<1>1. PICK d : d = lastOf(g, n, i)
  OBVIOUS
<1>2. d \in 0 .. i /\ (d # 0 => g[d].node = n) /\ \A j \in 1 .. i : g[j].node = n => j <= d
  BY <1>1, LastOf
<1> QED
  BY <1>1, <1>2

\* The same for the last change that says something about the address.
LEMMA Told ==
  ASSUME NEW g, Len(g) \in Nat, NEW n
  PROVE  /\ told(g, n) \in 0 .. Len(g)
         /\ told(g, n) # 0 => tells(g[told(g, n)], n)
         /\ \A j \in 1 .. Len(g) : tells(g[j], n) => j <= told(g, n)
<1> DEFINE S == {j \in 1 .. Len(g) : tells(g[j], n)}
<1>1. S \in SUBSET (1 .. Len(g))
  OBVIOUS
<1>2. latest(S) \in S \cup {0} /\ latest(S) \in 0 .. Len(g) /\ \A j \in S : j <= latest(S)
  BY <1>1, LatestProperties
<1> QED
  BY <1>2 DEF told

\* These properties determine it, too.
LEMMA ToldIs ==
  ASSUME NEW g, Len(g) \in Nat, NEW n, NEW c \in 0 .. Len(g), c # 0 => tells(g[c], n),
         \A j \in 1 .. Len(g) : tells(g[j], n) => j <= c
  PROVE  told(g, n) = c
<1>1. PICK d : d = told(g, n)
  OBVIOUS
<1>2. d \in 0 .. Len(g) /\ (d # 0 => tells(g[d], n)) /\ \A j \in 1 .. Len(g) : tells(g[j], n) => j <= d
  BY <1>1, Told
<1> QED
  BY <1>1, <1>2

\* What a longer log says up to an index that the shorter one has.
LEMMA Grown ==
  ASSUME NEW g \in Seq(Change), NEW c \in Change, NEW n, NEW i \in 0 .. Len(g), NEW l
  PROVE  LET h == Append(g, c)
         IN  /\ lastOf(h, n, i) = lastOf(g, n, i)
             /\ memberAt(h, n, i) <=> memberAt(g, n, i)
             /\ says(h, i) = says(g, i)
             /\ ~tells(c, n) => told(h, n) = told(g, n)
             /\ tells(c, n) => told(h, n) = Len(g) + 1
             /\ ~tells(c, n) /\ spoilt(g, n, i, l) => spoilt(h, n, i, l)
<1>1. PICK h : h = Append(g, c)
  OBVIOUS
<1>2. PICK m \in Nat : m = Len(g)
  BY LenProperties
<1>3. Len(h) = m + 1 /\ h[m + 1] = c /\ \A j \in 1 .. m : h[j] = g[j]
  BY <1>1, <1>2, OneMore
<1>4. lastOf(h, n, i) = lastOf(g, n, i)
  <2>1. PICK d : d = lastOf(g, n, i)
    OBVIOUS
  <2>2. d \in 0 .. i /\ (d # 0 => g[d].node = n) /\ \A j \in 1 .. i : g[j].node = n => j <= d
    BY <1>2, <2>1, LastOf
  <2>3. (d # 0 => h[d].node = n) /\ \A j \in 1 .. i : h[j].node = n => j <= d
    BY <1>2, <1>3, <2>2
  <2> QED
    BY <1>2, <2>1, <2>2, <2>3, LastIs
<1>5. PICK d : d = lastOf(g, n, i)
  OBVIOUS
<1>6. d \in 0 .. m
  BY <1>2, <1>5, LastOf
<1>7. d # 0 => h[d] = g[d]
  BY <1>3, <1>6
<1>8. memberAt(h, n, i) <=> memberAt(g, n, i)
  BY <1>4, <1>5, <1>7 DEF memberAt
<1>9. says(h, i) = says(g, i)
  <2>1. i = 0 \/ h[i] = g[i]
    BY <1>2, <1>3
  <2> QED
    BY <2>1 DEF says
<1>10. PICK t : t = told(g, n)
  OBVIOUS
<1>11. t \in 0 .. m /\ (t # 0 => tells(g[t], n)) /\ \A j \in 1 .. m : tells(g[j], n) => j <= t
  BY <1>2, <1>10, Told
<1>12. ASSUME ~tells(c, n) PROVE told(h, n) = t
  <2>1. (t # 0 => tells(h[t], n)) /\ \A j \in 1 .. m + 1 : tells(h[j], n) => j <= t
    BY <1>3, <1>11, <1>12
  <2>2. t \in 0 .. Len(h) /\ Len(h) \in Nat
    BY <1>3, <1>11
  <2> QED
    BY <1>3, <2>1, <2>2, ToldIs
<1>13. ASSUME tells(c, n) PROVE told(h, n) = m + 1
  <2>1. m + 1 \in 0 .. Len(h) /\ Len(h) \in Nat /\ tells(h[m + 1], n)
    BY <1>3, <1>13
  <2>2. \A j \in 1 .. Len(h) : tells(h[j], n) => j <= m + 1
    BY <1>3
  <2> QED
    BY <2>1, <2>2, ToldIs
<1>14. ~tells(c, n) /\ spoilt(g, n, i, l) => spoilt(h, n, i, l)
  BY <1>4, <1>5, <1>7, <1>10, <1>12 DEF spoilt
<1> QED
  BY <1>1, <1>2, <1>4, <1>8, <1>9, <1>10, <1>12, <1>13, <1>14

\* What is spoilt stays so as the log is read on: a later change of the node
\* that says nothing about its address has no address.
LEMMA SpoiltStays ==
  ASSUME NEW g, Len(g) \in Nat, NEW n, NEW i \in 0 .. Len(g), NEW k \in i .. Len(g),
         NEW l, NEW m \in SUBSET Nat, l \subseteq m, spoilt(g, n, i, l)
  PROVE  spoilt(g, n, k, m)
<1>1. PICK t : t = told(g, n)
  OBVIOUS
<1>a. t \in 0 .. Len(g) /\ \A j \in 1 .. Len(g) : tells(g[j], n) => j <= t
  BY <1>1, Told
<1>b. t <= i
  BY <1>1 DEF spoilt
<1>2. t \in 0 .. i /\ \A j \in 1 .. Len(g) : tells(g[j], n) => j <= t
  BY <1>a, <1>b
<1>3. PICK c, d : c = lastOf(g, n, i) /\ d = lastOf(g, n, k)
  OBVIOUS
<1>4. c \in 0 .. i /\ \A j \in 1 .. i : g[j].node = n => j <= c
  BY <1>3, LastOf
<1>5. d \in 0 .. k /\ (d # 0 => g[d].node = n) /\ \A j \in 1 .. k : g[j].node = n => j <= d
  BY <1>3, LastOf
<1>6. c # 0 => g[c].node = n
  BY <1>3, LastOf
<1>7. c <= d
  BY <1>4, <1>5, <1>6
<1>c. told(g, n) <= k
  BY <1>1, <1>2
<1>8. CASE c = d
  <2>1. c \in l \/ (c # 0 /\ g[c].type # "remove" /\ g[c].addr = "")
    BY <1>3 DEF spoilt
  <2>2. lastOf(g, n, k) = c
    BY <1>3, <1>8
  <2> QED
    BY <1>c, <2>1, <2>2 DEF spoilt
<1>9. CASE c < d
  <2>1. d \in 1 .. Len(g) /\ d > i /\ g[d].node = n
    BY <1>4, <1>5, <1>9
  <2>2. ~tells(g[d], n)
    BY <1>2, <2>1
  <2>a. d # 0
    BY <2>1
  <2>3. d # 0 /\ g[d].type # "remove" /\ g[d].addr = ""
    BY <2>a, <2>1, <2>2, Zenon DEF tells
  <2> QED
    BY <1>c, <1>3, <2>3 DEF spoilt
<1> QED
  BY <1>4, <1>5, <1>7, <1>8, <1>9

-----------------------------------------------------------------------------
(* The way of a change to the forwarding loop. *)

\* As long as no Ready is dropped, no change is missing on the way.
LEMMA WayPreserved ==
  ASSUME TypeOK, DownInv, ForwardInv, WayInv, [Next]_vars,
         inHand # 0 /\ inHand' = 0 /\ up' # "down" => Len(readyCh) < ReadyCap
  PROVE  WayInv'
<1>a. LogT /\ RunT /\ ForwardT /\ SnapT
  BY DEF TypeOK
<1>t. /\ applied \in Nat /\ inHand \in {0, applied} /\ forwarded \in Nat /\ snap.index \in Nat
      /\ readyCh \in Seq(Nat) /\ fwd \in [at : Nat, stage : {"idle", "drop", "persist"}]
  BY <1>a, LenProperties DEF LogT, RunT, ForwardT, SnapT
<1>b. /\ Len(readyCh) \in Nat /\ fwd.at \in Nat
      /\ at = IF fwd.stage = "idle" THEN forwarded ELSE fwd.at
  BY <1>t, LenProperties DEF at
<1>1. CASE ApplyChange
  <2>1. running /\ inHand = 0 /\ inHand' = applied + 1 /\ applied' = applied + 1
        /\ UNCHANGED <<fwd, forwarded, readyCh, up>>
    BY <1>1 DEF ApplyChange
  <2>2. at' = at
    BY <2>1 DEF at
  <2>3. PICK a \in Nat, m \in Nat : a = at /\ m = Len(readyCh)
    BY <1>t, <1>b
  <2>4. applied = a + m
    BY <2>1, <2>3 DEF WayInv
  <2>5. inHand' # 0 /\ applied' = a + m + 1
    BY <1>t, <2>1, <2>4
  <2> QED
    BY <2>1, <2>2, <2>3, <2>5 DEF WayInv, running
<1>2. CASE EmitReady
  <2>1. running /\ inHand # 0 /\ inHand' = 0 /\ UNCHANGED <<fwd, forwarded, applied, up>>
        /\ readyCh' = IF Len(readyCh) < ReadyCap THEN Append(readyCh, inHand) ELSE readyCh
    BY <1>2 DEF EmitReady
  <2>2. readyCh' = Append(readyCh, inHand) /\ inHand = applied
    BY <1>t, <2>1 DEF running
  <2>3. PICK a \in Nat, m \in Nat : a = at /\ m = Len(readyCh)
    BY <1>t, <1>b
  <2>4. applied = a + m + 1 /\ \A k \in 1 .. m : readyCh[k] = a + k
    BY <2>1, <2>3 DEF WayInv
  <2>5. Len(readyCh') = m + 1 /\ readyCh'[m + 1] = applied /\ \A k \in 1 .. m : readyCh'[k] = readyCh[k]
    BY <1>t, <2>2, <2>3, OneMore
  <2>6. at' = a
    BY <2>1, <2>3 DEF at
  <2>7. \A k \in 1 .. m + 1 : readyCh'[k] = a + k
    BY <2>4, <2>5
  <2> QED
    BY <2>1, <2>3, <2>4, <2>5, <2>6, <2>7 DEF WayInv, running
<1>3. CASE ForwardBook
  <2>1. /\ running /\ fwd = Idle /\ readyCh # << >> /\ readyCh' = Tail(readyCh)
        /\ fwd' = [at |-> Head(readyCh), stage |-> "drop"] /\ UNCHANGED <<inHand, applied, forwarded, up>>
    BY <1>3 DEF ForwardBook, raft
  <2>2. PICK a \in Nat, m \in Nat : a = forwarded /\ m = Len(readyCh)
    BY <1>t, <1>b
  <2>3. at = a
    BY <1>b, <2>1, <2>2 DEF Idle
  <2>4. /\ applied = a + m + (IF inHand = 0 THEN 0 ELSE 1)
        /\ \A k \in 1 .. m : readyCh[k] = a + k
    BY <2>1, <2>2, <2>3 DEF WayInv
  <2>5. /\ m >= 1 /\ Head(readyCh) = readyCh[1] /\ Len(readyCh') = m - 1
        /\ \A k \in 1 .. m - 1 : readyCh'[k] = readyCh[k + 1]
    BY <1>t, <2>1, <2>2, HeadTail
  <2>6. Head(readyCh) = a + 1
    BY <2>4, <2>5
  <2>7. fwd'.stage = "drop" /\ fwd'.at = a + 1
    BY <2>1, <2>6
  <2>8. at' = a + 1
    BY <2>7 DEF at
  <2>9. \A k \in 1 .. m - 1 : readyCh'[k] = a + 1 + k
    BY <2>4, <2>5
  <2>10. applied' = a + 1 + (m - 1) + (IF inHand' = 0 THEN 0 ELSE 1)
    BY <2>1, <2>4
  <2> QED
    BY <2>1, <2>2, <2>5, <2>7, <2>8, <2>9, <2>10 DEF WayInv
<1>4. CASE ForwardDrop
  <2>1. /\ running /\ fwd.stage = "drop" /\ fwd' = [fwd EXCEPT !.stage = "persist"]
        /\ UNCHANGED <<inHand, applied, forwarded, readyCh, up>>
    BY <1>4 DEF ForwardDrop, raft
  <2>2. fwd'.stage = "persist" /\ fwd'.at = fwd.at
    BY <1>t, <2>1
  <2>3. at' = at
    BY <2>1, <2>2 DEF at
  <2> QED
    BY <2>1, <2>2, <2>3 DEF WayInv, running
<1>5. CASE ForwardPersist
  <2>1. /\ running /\ fwd.stage = "persist" /\ fwd' = Idle /\ forwarded' = fwd.at
        /\ UNCHANGED <<inHand, applied, readyCh, up>>
    BY <1>5 DEF ForwardPersist, raft
  <2>2. at' = at /\ fwd'.stage = "idle"
    BY <2>1 DEF at, Idle
  <2> QED
    BY <2>1, <2>2 DEF WayInv, running
<1>6. CASE Exit
  BY <1>6 DEF Exit, WayInv, running
<1>7. CASE Start
  <2>1. /\ inHand' = 0 /\ readyCh' = << >> /\ fwd' = Idle
        /\ applied' = snap.index /\ forwarded' = snap.index
    BY <1>7 DEF Start, DownInv
  <2>2. at' = snap.index /\ fwd'.stage = "idle" /\ Len(readyCh') = 0
    BY <2>1 DEF at, Idle
  <2> QED
    BY <1>t, <2>1, <2>2 DEF WayInv
<1>8. CASE \/ \E h \in Handlers :
                \/ \E c \in Changes : AddLearner(h, c) \/ ChangeMember(h, c)
                \/ AddLearnerDrop(h) \/ Propose(h)
           \/ \E c \in Changes : RemoteChange(c)
           \/ \E n \in Nodes : Dial(n)
           \/ TakeSnapshot \/ TransferLeader \/ Lead \/ UNCHANGED vars
  <2>1. UNCHANGED <<inHand, applied, fwd, forwarded, readyCh, up>>
    BY <1>8 DEF AddLearner, ChangeMember, AddLearnerDrop, Propose, RemoteChange, Dial, TakeSnapshot,
                TransferLeader, Lead, vars, raft
  <2> QED
    BY <2>1 DEF WayInv, at, running
<1>9. CASE Stop \/ StopPersist
  <2>1. UNCHANGED <<inHand, applied, fwd, forwarded, readyCh>> /\ running
    BY <1>9 DEF Stop, StopPersist, raft, running
  <2> QED
    BY <2>1 DEF WayInv, at
<1> QED
  BY <1>1, <1>2, <1>3, <1>4, <1>5, <1>6, <1>7, <1>8, <1>9 DEF Next, RunLoop, ForwardLoop

\* One more change is the last one if it is one of the node.
LEMMA LastStep ==
  ASSUME NEW g, NEW n, NEW i \in Nat
  PROVE  lastOf(g, n, i + 1) = IF g[i + 1].node = n THEN i + 1 ELSE lastOf(g, n, i)
<1>1. CASE g[i + 1].node = n
  BY <1>1, LastIs
<1>2. CASE g[i + 1].node # n
  <2>1. PICK d : d = lastOf(g, n, i)
    OBVIOUS
  <2>2. d \in 0 .. i /\ (d # 0 => g[d].node = n) /\ \A j \in 1 .. i : g[j].node = n => j <= d
    BY <2>1, LastOf
  <2>3. d \in 0 .. i + 1 /\ \A j \in 1 .. i + 1 : g[j].node = n => j <= d
    BY <1>2, <2>2
  <2>4. lastOf(g, n, i + 1) = d
    BY <2>2, <2>3, LastIs
  <2> QED
    BY <1>2, <2>1, <2>4
<1> QED
  BY <1>1, <1>2

\* A step that changes the log adds a change to it.
LEMMA LogSteps ==
  ASSUME TypeOK, [Next]_vars
  PROVE  \/ log' = log
         \/ /\ \E c \in Change : log' = Append(log, c)
            /\ UNCHANGED <<stray, members, applied, snap, fwd, forwarded, lost, book, persisted, up, saving>>
<1>1. ASSUME NEW h \in Handlers, Propose(h), log' # log
      PROVE  /\ \E c \in Change : log' = Append(log, c)
             /\ UNCHANGED <<stray, members, applied, snap, fwd, forwarded, lost, book, persisted, up, saving>>
  <2>1. req[h] \in Change
    BY DEF TypeOK, AdminT
  <2> QED
    BY <1>1, <2>1 DEF Propose, peers
<1>2. ASSUME NEW c \in Changes, RemoteChange(c)
      PROVE  /\ \E d \in Change : log' = Append(log, d)
             /\ UNCHANGED <<stray, members, applied, snap, fwd, forwarded, lost, book, persisted, up, saving>>
  BY <1>2, MembershipAssumption DEF RemoteChange, peers, admin
<1>3. CASE \/ \E h \in Handlers :
                \/ \E c \in Changes : AddLearner(h, c) \/ ChangeMember(h, c)
                \/ AddLearnerDrop(h)
           \/ \E n \in Nodes : Dial(n)
           \/ RunLoop \/ TakeSnapshot \/ ForwardLoop
           \/ TransferLeader \/ Lead \/ Stop \/ StopPersist \/ Exit \/ Start \/ UNCHANGED vars
  BY <1>3 DEF AddLearner, ChangeMember, AddLearnerDrop, Dial, RunLoop, ApplyChange, EmitReady, TakeSnapshot,
     ForwardLoop, ForwardBook, ForwardDrop, ForwardPersist, TransferLeader, Lead, Stop, StopPersist, Exit, Start,
     vars, raft
<1> QED
  BY <1>1, <1>2, <1>3 DEF Next

\* Raft's configuration keeps to the log.
LEMMA MembersPreserved ==
  ASSUME TypeOK, DownInv, MembersInv, [Next]_vars
  PROVE  MembersInv'
<1>t. /\ log \in Seq(Change) /\ Len(log) \in Nat /\ applied \in 0 .. Len(log) /\ snap.index \in 0 .. Len(log)
      /\ applied \in Nat
  BY LenProperties DEF TypeOK, LogT, RunT, SnapT
<1> SUFFICES ASSUME NEW n \in Nodes
             PROVE  /\ running' => (n \in members' <=> memberAt(log', n, applied'))
                    /\ n \in snap'.members <=> memberAt(log', n, snap'.index)
  BY DEF MembersInv
<1>i. /\ running => (n \in members <=> memberAt(log, n, applied))
      /\ n \in snap.members <=> memberAt(log, n, snap.index)
  BY DEF MembersInv
<1>1. ASSUME NEW c \in Change, log' = Append(log, c), UNCHANGED <<members, applied, snap, up>>
      PROVE  /\ running' => (n \in members' <=> memberAt(log', n, applied'))
             /\ n \in snap'.members <=> memberAt(log', n, snap'.index)
  <2>1. memberAt(log', n, applied) <=> memberAt(log, n, applied)
    BY <1>t, <1>1, Grown
  <2>2. memberAt(log', n, snap.index) <=> memberAt(log, n, snap.index)
    BY <1>t, <1>1, Grown
  <2> QED
    BY <1>i, <1>1, <2>1, <2>2 DEF running
<1>2. CASE ApplyChange
  <2>1. /\ applied' = applied + 1 /\ running /\ UNCHANGED <<log, snap, up>>
        /\ members' = IF log[applied + 1].type = "remove"
                      THEN members \ {log[applied + 1].node} ELSE members \cup {log[applied + 1].node}
    BY <1>2 DEF ApplyChange
  <2>2. PICK c : c = log[applied + 1]
    OBVIOUS
  <2>3. applied + 1 # 0
    BY <1>t
  <2>4. CASE c.node = n
    <3>1. lastOf(log, n, applied + 1) = applied + 1
      BY <1>t, <2>2, <2>4, LastStep
    <3>2. memberAt(log, n, applied + 1) <=> c.type # "remove"
      BY <2>2, <2>3, <3>1 DEF memberAt
    <3> QED
      BY <1>i, <2>1, <2>2, <2>4, <3>2
  <2>5. CASE c.node # n
    <3>1. lastOf(log, n, applied + 1) = lastOf(log, n, applied)
      BY <1>t, <2>2, <2>5, LastStep
    <3>2. memberAt(log, n, applied + 1) <=> memberAt(log, n, applied)
      BY <3>1 DEF memberAt
    <3> QED
      BY <1>i, <2>1, <2>2, <2>5, <3>2
  <2> QED
    BY <2>4, <2>5
<1>3. CASE TakeSnapshot
  <2>1. snap'.index = applied /\ snap'.members = members /\ running /\ UNCHANGED <<log, members, applied, up>>
    BY <1>3 DEF TakeSnapshot
  <2> QED
    BY <1>i, <2>1
<1>4. CASE Exit
  <2>1. ~running' /\ UNCHANGED <<log, snap>>
    BY <1>4 DEF Exit, running
  <2> QED
    BY <1>i, <2>1
<1>5. CASE Start
  <2>1. members' = snap.members /\ applied' = snap.index /\ UNCHANGED <<log, snap>>
    BY <1>5 DEF Start
  <2> QED
    BY <1>i, <2>1
<1>6. CASE \/ \E h \in Handlers :
                \/ \E c \in Changes : AddLearner(h, c) \/ ChangeMember(h, c)
                \/ AddLearnerDrop(h) \/ Propose(h)
           \/ \E c \in Changes : RemoteChange(c)
           \/ \E m \in Nodes : Dial(m)
           \/ EmitReady \/ ForwardLoop \/ TransferLeader \/ Lead \/ Stop \/ StopPersist \/ UNCHANGED vars
  <2>1. UNCHANGED <<members, applied, snap>> /\ running' = running
    BY <1>6 DEF AddLearner, ChangeMember, AddLearnerDrop, Propose, RemoteChange, Dial, EmitReady,
       ForwardLoop, ForwardBook, ForwardDrop, ForwardPersist, TransferLeader, Lead, Stop, StopPersist, running,
       vars, raft
  <2>2. CASE log' = log
    BY <1>i, <2>1, <2>2
  <2> QED
    BY <1>1, <2>1, <2>2, LogSteps
<1> QED
  BY <1>2, <1>3, <1>4, <1>5, <1>6 DEF Next, RunLoop

\* What the snapshot lacks is known.
LEMMA LostPreserved ==
  ASSUME TypeOK, DownInv, WayInv, LostInv, [Next]_vars
  PROVE  LostInv'
<1>t. /\ forwarded \in Nat /\ snap.index \in Nat /\ applied \in Nat /\ saving.at \in Nat
      /\ snap.lost \subseteq 1 .. snap.index /\ lost \subseteq 1 .. applied
  BY LenProperties DEF TypeOK, LogT, RunT, ForwardT, SnapT, StopT
<1>1. CASE TakeSnapshot
  <2>1. /\ snap'.index = applied /\ snap'.lost = lost \cup (forwarded + 1) .. applied
        /\ UNCHANGED <<forwarded, lost, up, saving>>
    BY <1>1 DEF TakeSnapshot
  <2> QED
    BY <2>1 DEF LostInv, running
<1>2. CASE ForwardPersist
  <2>1. /\ running /\ fwd.stage = "persist" /\ forwarded' = fwd.at
        /\ UNCHANGED <<snap, lost, up, saving>>
    BY <1>2 DEF ForwardPersist, raft
  <2>2. forwarded' = forwarded + 1
    BY <2>1 DEF WayInv
  <2>3. (forwarded' + 1) .. snap.index \subseteq (forwarded + 1) .. snap.index
    BY <1>t, <2>2
  <2>4. running => (forwarded + 1) .. snap.index \subseteq snap.lost
    BY DEF LostInv
  <2>5. (running => (forwarded + 1) .. snap.index \subseteq snap.lost)'
    BY <2>1, <2>3, <2>4
  <2>6. (up = "stopping" => saving.at <= forwarded)'
    BY <1>t, <2>1, <2>2 DEF LostInv
  <2> QED
    BY <2>1, <2>5, <2>6 DEF LostInv
<1>3. CASE Stop
  <2>1. up = "up" /\ up' = "stopping" /\ saving'.at = forwarded /\ UNCHANGED <<snap, lost, forwarded>>
    BY <1>3 DEF Stop, raft
  <2> QED
    BY <1>t, <2>1 DEF LostInv, running
<1>4. CASE StopPersist
  <2>1. up = "stopping" /\ up' = "stopped" /\ UNCHANGED <<snap, forwarded>>
    BY <1>4 DEF StopPersist, raft
  <2> QED
    BY <2>1 DEF LostInv, running
<1>5. CASE Exit
  BY <1>5 DEF Exit, LostInv, running
<1>6. CASE Start
  <2>1. forwarded' = snap.index /\ lost' = snap.lost /\ up' = "up" /\ snap' = snap
    BY <1>6 DEF Start
  <2>2. (forwarded' + 1) .. snap.index = {}
    BY <1>t, <2>1
  <2> QED
    BY <2>1, <2>2 DEF LostInv
<1>7. CASE \/ \E h \in Handlers :
                \/ \E c \in Changes : AddLearner(h, c) \/ ChangeMember(h, c)
                \/ AddLearnerDrop(h) \/ Propose(h)
           \/ \E c \in Changes : RemoteChange(c)
           \/ \E m \in Nodes : Dial(m)
           \/ RunLoop \/ ForwardBook \/ ForwardDrop \/ TransferLeader \/ Lead \/ UNCHANGED vars
  <2>1. UNCHANGED <<forwarded, lost, up, saving, snap>>
    BY <1>7 DEF AddLearner, ChangeMember, AddLearnerDrop, Propose, RemoteChange, Dial, RunLoop, ApplyChange,
       EmitReady, ForwardBook, ForwardDrop, TransferLeader, Lead, vars, raft
  <2> QED
    BY <2>1 DEF LostInv, running
<1> QED
  BY <1>1, <1>2, <1>3, <1>4, <1>5, <1>6, <1>7 DEF Next, ForwardLoop

-----------------------------------------------------------------------------
(* The addresses, step by step. *)

\* What was spoilt at the start stays so while the process goes on.
LEMMA StartStays ==
  ASSUME NEW g, Len(g) \in Nat, NEW n, NEW i \in 0 .. Len(g), NEW k \in Nat, i <= k,
         NEW l, NEW m \in SUBSET Nat, l \subseteq m, NEW s \in Nat, NEW u \in Nat, s <= u,
         spoiltAtStart(g, n, i, l, s)
  PROVE  spoiltAtStart(g, n, k, m, u)
<1>1. PICK j \in 0 .. i : j <= s /\ spoilt(g, n, j, l)
  BY DEF spoiltAtStart
<1>2. j \in 0 .. Len(g) /\ j \in j .. Len(g) /\ j \in 0 .. k /\ j <= u
  BY <1>1
<1>3. spoilt(g, n, j, m)
  BY <1>1, <1>2, SpoiltStays
<1> QED
  BY <1>2, <1>3 DEF spoiltAtStart

\* The types that the address of a node depends on.
LEMMA AddressTypes ==
  ASSUME TypeOK, DownInv, ForwardInv, WayInv, LostInv
  PROVE  /\ log \in Seq(Change) /\ Len(log) \in Nat /\ applied \in 0 .. Len(log)
         /\ forwarded \in 0 .. applied /\ forwarded \in 0 .. Len(log)
         /\ snap.index \in 0 .. Len(log) /\ snap.lost \in SUBSET Nat
         /\ lost \in SUBSET Nat /\ 0 \notin lost /\ 0 \notin snap.lost
         /\ at \in 0 .. Len(log) /\ (running => forwarded <= at)
         /\ saving.at \in Nat /\ (up = "stopping" => saving.at \in 0 .. forwarded)
<1>1. /\ log \in Seq(Change) /\ Len(log) \in Nat /\ applied \in 0 .. Len(log) /\ forwarded \in 0 .. applied
      /\ snap.index \in 0 .. Len(log) /\ saving.at \in Nat /\ fwd.at \in Nat /\ fwd.at <= applied
      /\ lost \subseteq 1 .. applied /\ snap.lost \subseteq 1 .. snap.index
  BY LenProperties DEF TypeOK, LogT, RunT, ForwardT, SnapT, StopT
<1>2. snap.lost \in SUBSET Nat /\ lost \in SUBSET Nat /\ 0 \notin lost /\ 0 \notin snap.lost
  BY <1>1
<1>3. forwarded \in 0 .. Len(log) /\ at \in 0 .. Len(log)
  BY <1>1 DEF at
<1>4. running => forwarded <= at
  <2>1. CASE fwd.stage = "idle"
    BY <1>1, <2>1 DEF at
  <2>2. CASE fwd.stage # "idle"
    BY <1>1, <2>2 DEF at, WayInv
  <2> QED
    BY <2>1, <2>2
<1>5. up = "stopping" => saving.at \in 0 .. forwarded
  BY <1>1 DEF LostInv
<1> QED
  BY <1>1, <1>2, <1>3, <1>4, <1>5

\* What the log says is an address.
LEMMA SaysAddress ==
  ASSUME NEW g \in Seq(Change), NEW j \in 0 .. Len(g)
  PROVE  says(g, j) \in Addrs /\ says(g, j) # None
<1>1. "" \in Addrs /\ None \notin Addrs
  BY MembershipAssumption
<1>2. j # 0 => g[j] \in Change
  BY LenProperties
<1>3. j # 0 => g[j].addr \in Addrs
  BY <1>2 DEF Change
<1> QED
  BY <1>1, <1>3 DEF says

\* A change is committed.
LEMMA AddressGrown ==
  ASSUME TypeOK, DownInv, ForwardInv, WayInv, LostInv, NEW n \in Nodes, AddressOf(n),
         NEW c \in Change, log' = Append(log, c),
         UNCHANGED <<snap, fwd, forwarded, lost, book, persisted, up, saving>>
  PROVE  AddressOf(n)'
<1>t. /\ log \in Seq(Change) /\ Len(log) \in Nat /\ forwarded \in 0 .. Len(log)
      /\ snap.index \in 0 .. Len(log) /\ at \in 0 .. Len(log)
      /\ (up = "stopping" => saving.at \in 0 .. Len(log))
  <2>1. /\ log \in Seq(Change) /\ Len(log) \in Nat /\ forwarded \in 0 .. Len(log)
        /\ snap.index \in 0 .. Len(log) /\ at \in 0 .. Len(log)
        /\ (up = "stopping" => saving.at \in 0 .. forwarded)
    BY AddressTypes
  <2> QED
    BY <2>1
<1>p. at' = at /\ running' = running
  BY DEF at, running
<1>1. CASE tells(c, n)
  <2>1. told(log', n) = Len(log) + 1
    <3>1. 0 \in 0 .. Len(log)
      BY <1>t
    <3> QED
      BY <1>1, <1>t, <3>1, Grown
  <2>2. PICK t \in Nat : t = told(log', n) /\ t > Len(log)
    BY <1>t, <2>1
  <2>3. t # 0 /\ ~(t <= at) /\ ~(t <= forwarded) /\ ~(t <= snap.index) /\ ~(up = "stopping" /\ t <= saving.at)
    BY <1>t, <2>2
  <2> QED
    BY <1>p, <2>2, <2>3 DEF AddressOf, BookInv, PersistedInv, SavingInv, SnapInv, UntoldInv
<1>2. CASE ~tells(c, n)
  <2>1. PICK t : t = told(log, n)
    OBVIOUS
  <2>2. t \in 0 .. Len(log)
    BY <1>t, <2>1, Told
  <2>3. told(log', n) = t
    BY <1>2, <1>t, <2>1, <2>2, Grown
  <2>4. says(log', t) = says(log, t)
    BY <1>t, <2>2, Grown
  <2>5. stored(log', t) = stored(log, t)
    BY <2>4 DEF stored
  <2>6. ASSUME NEW i \in 0 .. Len(log), NEW l, spoilt(log, n, i, l) PROVE spoilt(log', n, i, l)
    BY <1>2, <1>t, <2>6, Grown
  <2>7. ASSUME NEW i \in 0 .. Len(log), NEW l, NEW s, spoiltAtStart(log, n, i, l, s)
        PROVE  spoiltAtStart(log', n, i, l, s)
    <3>1. PICK k \in 0 .. i : k <= s /\ spoilt(log, n, k, l)
      BY <2>7 DEF spoiltAtStart
    <3>2. k \in 0 .. Len(log)
      BY <1>t, <3>1
    <3> QED
      BY <2>6, <3>1, <3>2 DEF spoiltAtStart
  <2>8. BookInv(n)'
    BY <1>t, <1>p, <2>1, <2>3, <2>4, <2>7 DEF AddressOf, BookInv
  <2>9. PersistedInv(n)'
    BY <1>t, <1>p, <2>1, <2>3, <2>5, <2>6 DEF AddressOf, PersistedInv
  <2>10. SavingInv(n)'
    BY <1>t, <2>1, <2>3, <2>4, <2>7 DEF AddressOf, SavingInv
  <2>11. SnapInv(n)'
    BY <1>t, <2>1, <2>3, <2>5, <2>6 DEF AddressOf, SnapInv
  <2>12. UntoldInv(n)'
    BY <2>1, <2>3 DEF AddressOf, UntoldInv
  <2> QED
    BY <2>8, <2>9, <2>10, <2>11, <2>12 DEF AddressOf
<1> QED
  BY <1>1, <1>2

\* The forwarding loop changes the book.
LEMMA AddressBooked ==
  ASSUME TypeOK, DownInv, ForwardInv, WayInv, LostInv, NEW n \in Nodes,
         n \notin stray => AddressOf(n), n \notin stray', ForwardBook
  PROVE  AddressOf(n)'
<1>t. /\ log \in Seq(Change) /\ Len(log) \in Nat /\ forwarded \in 0 .. Len(log)
      /\ snap.index \in 0 .. Len(log) /\ applied \in 0 .. Len(log)
      /\ (up = "stopping" => saving.at \in 0 .. forwarded)
  BY AddressTypes
<1>b. book \in [Nodes -> Addrs] /\ readyCh \in Seq(Nat)
  BY DEF TypeOK, PeersT, ForwardT
<1>1. /\ running /\ fwd = Idle /\ readyCh # << >>
      /\ fwd' = [at |-> Head(readyCh), stage |-> "drop"]
      /\ UNCHANGED <<log, forwarded, lost, persisted, snap, up, saving>>
  BY DEF ForwardBook, raft
<1>2. PICK f : f = Head(readyCh)
  OBVIOUS
<1>3. at = forwarded
  BY <1>1 DEF at, Idle
<1>4. f = forwarded + 1 /\ f \in 1 .. Len(log)
  <2>1. Head(readyCh) = readyCh[1] /\ Len(readyCh) \in Nat /\ Len(readyCh) >= 1
    BY <1>b, <1>1, HeadTail
  <2>2. 1 \in 1 .. Len(readyCh)
    BY <2>1
  <2>3. readyCh[1] = forwarded + 1
    BY <1>1, <1>3, <2>2 DEF WayInv
  <2>4. readyCh[1] \in 1 .. applied
    BY <2>1, <2>2 DEF TypeOK, ForwardT
  <2> QED
    BY <1>t, <1>2, <2>1, <2>3, <2>4
<1>5. PICK c : c = log[f]
  OBVIOUS
<1>6. /\ book' = IF c.type = "remove" THEN Forget(book, c.node) ELSE Set(book, c.node, c.addr)
      /\ stray' = IF c.type = "remove" \/ c.addr # "" THEN stray \ {c.node} ELSE stray
  BY <1>2, <1>5 DEF ForwardBook
<1>7. at' = f /\ running'
  BY <1>1, <1>2 DEF at, running
<1>8. PICK t : t = told(log, n)
  OBVIOUS
<1>9. t \in 0 .. Len(log) /\ (t # 0 => tells(log[t], n)) /\ \A j \in 1 .. Len(log) : tells(log[j], n) => j <= t
  BY <1>t, <1>8, Told
<1>10. CASE tells(c, n)
  <2>1. t >= f
    BY <1>4, <1>5, <1>9, <1>10
  <2>2. book'[n] = says(log, f)
    <3>1. f # 0
      BY <1>4
    <3>2. c.node = n /\ (c.type = "remove" \/ c.addr # "")
      BY <1>10, Zenon DEF tells
    <3> QED
      BY <1>b, <1>5, <1>6, <3>1, <3>2 DEF says, Forget, Set
  <2>3. BookInv(n)'
    <3>1. t <= f => t = f
      BY <1>4, <1>9, <2>1
    <3> QED
      BY <1>1, <1>7, <1>8, <2>2, <3>1 DEF BookInv
  <2>4. t # 0 /\ ~(t <= forwarded) /\ ~(up = "stopping" /\ t <= saving.at)
    BY <1>t, <1>4, <1>9, <2>1
  <2>5. PersistedInv(n)' /\ SavingInv(n)' /\ UntoldInv(n)'
    BY <1>1, <1>8, <2>4 DEF PersistedInv, SavingInv, UntoldInv
  <2>6. SnapInv(n)'
    <3>1. SUFFICES ASSUME t <= snap.index PROVE spoilt(log, n, snap.index, snap.lost)
      BY <1>1, <1>8 DEF SnapInv
    <3>2. PICK d : d = lastOf(log, n, snap.index)
      OBVIOUS
    <3>3. d \in 0 .. snap.index /\ \A j \in 1 .. snap.index : log[j].node = n => j <= d
      BY <1>t, <3>2, LastOf
    <3>4. log[t].node = n
      BY <1>9, <2>4 DEF tells
    <3>5. d \in (forwarded + 1) .. snap.index
      BY <1>t, <1>4, <1>9, <2>1, <3>1, <3>3, <3>4
    <3>6. d \in snap.lost
      BY <1>1, <3>5 DEF LostInv
    <3> QED
      BY <1>8, <3>1, <3>2, <3>6 DEF spoilt
  <2> QED
    BY <2>3, <2>5, <2>6 DEF AddressOf
<1>11. CASE ~tells(c, n)
  <2>1. n \notin stray
    BY <1>6, <1>11 DEF tells
  <2>2. AddressOf(n)
    BY <2>1
  <2>3. book'[n] = book[n]
    BY <1>b, <1>6, <1>11 DEF tells, Forget, Set
  <2>4. t # f
    BY <1>4, <1>5, <1>9, <1>11
  <2>5. t <= f => t <= forwarded
    BY <1>t, <1>4, <1>9, <2>4
  <2>6. BookInv(n)'
    BY <1>1, <1>3, <1>7, <1>8, <2>2, <2>3, <2>5 DEF AddressOf, BookInv
  <2>7. PersistedInv(n)' /\ SavingInv(n)' /\ UntoldInv(n)' /\ SnapInv(n)'
    BY <1>1, <1>7, <2>2, <2>3 DEF AddressOf, PersistedInv, SavingInv, UntoldInv, SnapInv
  <2> QED
    BY <2>6, <2>7 DEF AddressOf
<1> QED
  BY <1>10, <1>11

\* The forwarding loop writes a change down.
LEMMA AddressForwarded ==
  ASSUME TypeOK, DownInv, ForwardInv, WayInv, LostInv, NEW n \in Nodes, AddressOf(n), ForwardPersist
  PROVE  AddressOf(n)'
<1>t. /\ log \in Seq(Change) /\ Len(log) \in Nat /\ forwarded \in 0 .. Len(log)
      /\ snap.index \in 0 .. Len(log) /\ lost \in SUBSET Nat /\ at \in 0 .. Len(log)
  BY AddressTypes
<1>b. persisted \in [Nodes -> Addrs \cup {None}]
  BY DEF TypeOK, PeersT
<1>1. /\ running /\ fwd.stage = "persist" /\ fwd' = Idle /\ forwarded' = fwd.at
      /\ UNCHANGED <<log, lost, book, snap, up, saving>>
  BY DEF ForwardPersist, raft
<1>2. PICK f : f = fwd.at
  OBVIOUS
<1>3. f = forwarded + 1 /\ at = f
  BY <1>1, <1>2 DEF WayInv, at
<1>4. f \in 1 .. Len(log)
  BY <1>t, <1>3
<1>5. PICK c : c = log[f]
  OBVIOUS
<1>6. persisted' = [persisted EXCEPT ![c.node] = IF c.type = "remove" THEN None ELSE c.addr]
  BY <1>2, <1>5 DEF ForwardPersist, change
<1>7. at' = f /\ forwarded' = f /\ running'
  BY <1>1, <1>2 DEF at, running, Idle
<1>8. PICK t : t = told(log, n)
  OBVIOUS
<1>9. t \in 0 .. Len(log) /\ (t # 0 => tells(log[t], n)) /\ \A j \in 1 .. Len(log) : tells(log[j], n) => j <= t
  BY <1>t, <1>8, Told
<1>10. BookInv(n)'
  <2>1. spoiltAtStart(log, n, forwarded, lost, snap.index) => spoiltAtStart(log, n, f, lost, snap.index)
    <3>1. f \in Nat /\ forwarded <= f /\ snap.index \in Nat /\ snap.index <= snap.index
      BY <1>t, <1>3
    <3> QED
      BY <1>t, <3>1, StartStays
  <2> QED
    BY <1>1, <1>3, <1>7, <2>1 DEF AddressOf, BookInv
<1>11. SavingInv(n)' /\ SnapInv(n)'
  BY <1>1 DEF AddressOf, SavingInv, SnapInv
<1>12. CASE c.node = n
  <2>1. persisted'[n] = IF c.type = "remove" THEN None ELSE c.addr
    BY <1>b, <1>6, <1>12
  <2>2. CASE tells(c, n)
    <3>1. t >= f
      BY <1>4, <1>5, <1>9, <2>2
    <3>2. t # 0 /\ (t <= f => t = f)
      BY <1>4, <1>9, <3>1
    <3>3. c.type = "remove" \/ c.addr # ""
      BY <2>2, Zenon DEF tells
    <3>4. f # 0
      BY <1>4
    <3>5. persisted'[n] = stored(log, f)
      BY <1>5, <2>1, <3>3, <3>4 DEF stored, says
    <3> QED
      BY <1>1, <1>7, <1>8, <1>10, <1>11, <3>2, <3>5 DEF AddressOf, PersistedInv, UntoldInv
  <2>3. CASE ~tells(c, n)
    <3>1. c.type # "remove" /\ c.addr = ""
      BY <1>12, <2>3, Zenon DEF tells
    <3>2. lastOf(log, n, f) = f
      <4>1. forwarded \in Nat /\ log[forwarded + 1].node = n
        BY <1>t, <1>3, <1>5, <1>12
      <4>2. lastOf(log, n, forwarded + 1) = forwarded + 1
        BY <4>1, LastStep
      <4> QED
        BY <1>3, <4>2
    <3>3. f # 0
      BY <1>4
    <3>4. told(log, n) <= f => spoilt(log, n, f, lost)
      BY <1>5, <3>1, <3>2, <3>3 DEF spoilt
    <3>5. PersistedInv(n)'
      BY <1>1, <1>7, <3>4 DEF PersistedInv
    <3>6. UntoldInv(n)'
      BY <1>1, <2>1, <3>1 DEF AddressOf, UntoldInv
    <3> QED
      BY <1>10, <1>11, <3>5, <3>6 DEF AddressOf
  <2> QED
    BY <2>2, <2>3
<1>13. CASE c.node # n
  <2>1. persisted'[n] = persisted[n]
    BY <1>b, <1>6, <1>13
  <2>2. ~tells(log[f], n)
    BY <1>5, <1>13, Zenon DEF tells
  <2>3. t # f
    BY <1>4, <1>9, <2>2
  <2>4. t <= f => t <= forwarded
    BY <1>t, <1>3, <1>9, <2>3
  <2>5. spoilt(log, n, forwarded, lost) => spoilt(log, n, f, lost)
    <3>1. f \in forwarded .. Len(log) /\ lost \subseteq lost
      BY <1>t, <1>3, <1>4
    <3> QED
      BY <1>t, <3>1, SpoiltStays
  <2>6. PersistedInv(n)'
    BY <1>1, <1>7, <1>8, <2>1, <2>4, <2>5 DEF AddressOf, PersistedInv
  <2>7. UntoldInv(n)'
    BY <1>1, <2>1 DEF AddressOf, UntoldInv
  <2> QED
    BY <1>10, <1>11, <2>6, <2>7 DEF AddressOf
<1> QED
  BY <1>12, <1>13

\* A snapshot is taken.
LEMMA AddressSnapshot ==
  ASSUME TypeOK, DownInv, ForwardInv, WayInv, LostInv, NEW n \in Nodes, AddressOf(n), TakeSnapshot
  PROVE  AddressOf(n)'
<1>t. /\ log \in Seq(Change) /\ Len(log) \in Nat /\ forwarded \in 0 .. Len(log) /\ applied \in 0 .. Len(log)
      /\ snap.index \in 0 .. Len(log) /\ lost \in SUBSET Nat
      /\ forwarded \in 0 .. applied /\ (up = "stopping" => saving.at \in 0 .. forwarded)
  BY AddressTypes
<1>1. /\ running /\ applied > snap.index
      /\ snap'.index = applied /\ snap'.addrs = persisted
      /\ snap'.lost = lost \cup (forwarded + 1) .. applied
      /\ UNCHANGED <<log, fwd, forwarded, lost, book, persisted, up, saving>>
  BY DEF TakeSnapshot, peers
<1>2. at' = at /\ running'
  BY <1>1 DEF at, running
<1>3. ASSUME NEW i \in 0 .. Len(log), spoiltAtStart(log, n, i, lost, snap.index)
      PROVE  spoiltAtStart(log, n, i, lost, applied)
  <2>1. i \in Nat /\ i <= i /\ snap.index \in Nat /\ applied \in Nat /\ snap.index <= applied /\ lost \subseteq lost
    BY <1>t, <1>1
  <2> QED
    BY <1>t, <1>3, <2>1, StartStays
<1>4. BookInv(n)'
  BY <1>t, <1>1, <1>2, <1>3 DEF AddressOf, BookInv
<1>5. SavingInv(n)'
  <2>1. up = "stopping" => saving.at \in 0 .. Len(log)
    BY <1>t
  <2> QED
    BY <2>1, <1>1, <1>3 DEF AddressOf, SavingInv
<1>6. PersistedInv(n)'
  BY <1>1, <1>2 DEF AddressOf, PersistedInv
<1>7. UntoldInv(n)'
  BY <1>1 DEF AddressOf, UntoldInv
<1>8. SnapInv(n)'
  <2>1. PICK t, d : t = told(log, n) /\ d = lastOf(log, n, applied)
    OBVIOUS
  <2>2. t \in 0 .. Len(log) /\ (t # 0 => tells(log[t], n))
    BY <1>t, <2>1, Told
  <2>3. d \in 0 .. applied /\ (d # 0 => log[d].node = n) /\ \A j \in 1 .. applied : log[j].node = n => j <= d
    BY <1>t, <2>1, LastOf
  <2>4. SUFFICES ASSUME t <= applied
                 PROVE  persisted[n] = stored(log, t) \/ spoilt(log, n, applied, snap'.lost)
    BY <1>1, <2>1 DEF SnapInv
  <2>5. CASE d > forwarded
    <3>1. d \in snap'.lost
      BY <1>t, <1>1, <2>3, <2>5
    <3> QED
      BY <2>1, <2>4, <3>1 DEF spoilt
  <2>6. CASE d <= forwarded
    <3>1. t # 0 => log[t].node = n
      BY <2>2 DEF tells
    <3>2. t <= forwarded
      BY <1>t, <2>2, <2>3, <2>4, <2>6, <3>1
    <3>3. persisted[n] = stored(log, t) \/ spoilt(log, n, forwarded, lost)
      BY <1>1, <2>1, <3>2 DEF AddressOf, PersistedInv
    <3>4. applied \in forwarded .. Len(log) /\ lost \subseteq snap'.lost /\ snap'.lost \in SUBSET Nat
      BY <1>t, <1>1
    <3>5. spoilt(log, n, forwarded, lost) => spoilt(log, n, applied, snap'.lost)
      BY <1>t, <3>4, SpoiltStays
    <3> QED
      BY <3>3, <3>5
  <2> QED
    BY <1>t, <2>3, <2>5, <2>6
<1> QED
  BY <1>4, <1>5, <1>6, <1>7, <1>8 DEF AddressOf

\* Stop copies the book.
LEMMA AddressCopied ==
  ASSUME TypeOK, DownInv, ForwardInv, WayInv, LostInv, NEW n \in Nodes, AddressOf(n), Stop
  PROVE  AddressOf(n)'
<1>1. /\ up = "up" /\ up' = "stopping" /\ saving'.book = book /\ saving'.at = forwarded
      /\ UNCHANGED <<log, fwd, forwarded, lost, book, persisted, snap>>
  BY DEF Stop, raft, peers
<1>2. at' = at /\ running /\ running'
  BY <1>1 DEF at, running
<1>3. BookInv(n)' /\ PersistedInv(n)' /\ SnapInv(n)' /\ UntoldInv(n)'
  BY <1>1, <1>2 DEF AddressOf, BookInv, PersistedInv, SnapInv, UntoldInv
<1>4. SavingInv(n)'
  <2>1. PICK t : t = told(log, n)
    OBVIOUS
  <2>2. Len(log) \in Nat /\ forwarded \in 0 .. Len(log) /\ at \in 0 .. Len(log) /\ forwarded <= at
    BY <1>2, AddressTypes
  <2>3. t \in 0 .. Len(log)
    BY <2>1, <2>2, Told
  <2>4. t <= forwarded => t <= at
    BY <2>2, <2>3
  <2> QED
    BY <1>1, <1>2, <2>1, <2>4 DEF AddressOf, BookInv, SavingInv
<1> QED
  BY <1>3, <1>4 DEF AddressOf

\* Stop writes the copy.
LEMMA AddressWritten ==
  ASSUME TypeOK, DownInv, ForwardInv, WayInv, LostInv, NEW n \in Nodes, unconfigured(n),
         AddressOf(n), StopPersist
  PROVE  AddressOf(n)'
<1>t. /\ log \in Seq(Change) /\ Len(log) \in Nat /\ forwarded \in 0 .. Len(log)
      /\ snap.index \in 0 .. Len(log) /\ lost \in SUBSET Nat
      /\ (up = "stopping" => saving.at \in 0 .. forwarded)
  BY AddressTypes
<1>1. /\ up = "stopping" /\ up' = "stopped" /\ saving' = Saved
      /\ persisted' = written(saving.book)
      /\ lost' = lost \cup (saving.at + 1) .. forwarded
      /\ UNCHANGED <<log, fwd, forwarded, book, snap>>
  BY DEF StopPersist, raft
<1>2. at' = at /\ running /\ running'
  BY <1>1 DEF at, running
<1>3. lost \subseteq lost' /\ lost' \in SUBSET Nat /\ saving.at \in 0 .. forwarded
  <2>1. saving.at \in 0 .. forwarded /\ forwarded \in Nat
    BY <1>t, <1>1
  <2>2. lost' = lost \cup (saving.at + 1) .. forwarded /\ lost \in SUBSET Nat
    BY <1>t, <1>1
  <2>3. (saving.at + 1) .. forwarded \in SUBSET Nat
    BY <2>1
  <2> QED
    BY <2>1, <2>2, <2>3
<1>4. BookInv(n)'
  <2>1. forwarded \in Nat /\ forwarded <= forwarded /\ snap.index \in Nat /\ snap.index <= snap.index
    BY <1>t
  <2>2. spoiltAtStart(log, n, forwarded, lost, snap.index) => spoiltAtStart(log, n, forwarded, lost', snap.index)
    BY <1>t, <1>3, <2>1, StartStays
  <2> QED
    BY <1>1, <1>2, <2>2 DEF AddressOf, BookInv
<1>5. SavingInv(n)' /\ SnapInv(n)'
  BY <1>1 DEF AddressOf, SavingInv, SnapInv
<1>6. persisted'[n] = IF saving.book[n] = "" THEN None ELSE saving.book[n]
  BY <1>1 DEF written
<1>7. UntoldInv(n)'
  BY <1>1, <1>6 DEF AddressOf, UntoldInv, Saved, unconfigured
<1>8. PersistedInv(n)'
  <2>1. PICK t, d : t = told(log, n) /\ d = lastOf(log, n, forwarded)
    OBVIOUS
  <2>2. t \in 0 .. Len(log) /\ (t # 0 => tells(log[t], n))
    BY <1>t, <2>1, Told
  <2>3. /\ d \in 0 .. forwarded /\ (d # 0 => log[d].node = n)
        /\ \A j \in 1 .. forwarded : log[j].node = n => j <= d
    BY <1>t, <2>1, LastOf
  <2>4. SUFFICES ASSUME t <= forwarded
                 PROVE  persisted'[n] = stored(log, t) \/ spoilt(log, n, forwarded, lost')
    BY <1>1, <2>1 DEF PersistedInv
  <2>5. CASE d > saving.at
    <3>1. d \in lost'
      BY <1>t, <1>1, <2>3, <2>5
    <3> QED
      BY <2>1, <2>4, <3>1 DEF spoilt
  <2>6. CASE d <= saving.at
    <3>1. t # 0 => log[t].node = n
      BY <2>2 DEF tells
    <3>2. t <= saving.at
      BY <1>t, <1>3, <2>2, <2>3, <2>4, <2>6, <3>1
    <3>3. saving.book[n] = says(log, t) \/ spoiltAtStart(log, n, saving.at, lost, snap.index)
      BY <1>1, <2>1, <3>2 DEF AddressOf, SavingInv
    <3>4. CASE saving.book[n] = says(log, t)
      BY <1>6, <3>4 DEF stored
    <3>5. CASE spoiltAtStart(log, n, saving.at, lost, snap.index)
      <4>1. PICK k \in 0 .. saving.at : spoilt(log, n, k, lost)
        BY <3>5 DEF spoiltAtStart
      <4>2. k \in 0 .. Len(log) /\ forwarded \in k .. Len(log)
        BY <1>t, <1>3, <4>1
      <4>3. spoilt(log, n, forwarded, lost')
        BY <1>t, <1>3, <4>1, <4>2, SpoiltStays
      <4> QED
        BY <4>3
    <3> QED
      BY <3>3, <3>4, <3>5
  <2> QED
    BY <1>3, <1>t, <2>3, <2>5, <2>6
<1> QED
  BY <1>4, <1>5, <1>7, <1>8 DEF AddressOf

\* The process ends.
LEMMA AddressEnded ==
  ASSUME NEW n \in Nodes, unconfigured(n), AddressOf(n), Exit
  PROVE  AddressOf(n)'
<1>1. up' = "down" /\ saving' = Saved /\ book' = Configured /\ UNCHANGED <<log, snap, persisted>>
  BY DEF Exit
<1>2. ~running'
  BY <1>1 DEF running
<1>3. BookInv(n)' /\ PersistedInv(n)' /\ SavingInv(n)'
  BY <1>1, <1>2 DEF BookInv, PersistedInv, SavingInv
<1>4. SnapInv(n)' /\ UntoldInv(n)'
  BY <1>1 DEF AddressOf, SnapInv, UntoldInv, Saved, unconfigured
<1> QED
  BY <1>3, <1>4 DEF AddressOf

\* The process starts again, from the snapshot if there is one.
LEMMA AddressStarted ==
  ASSUME TypeOK, DownInv, ForwardInv, WayInv, LostInv, NEW n \in Nodes, unconfigured(n),
         AddressOf(n), Start
  PROVE  AddressOf(n)'
<1>t. /\ log \in Seq(Change) /\ Len(log) \in Nat /\ snap.index \in 0 .. Len(log) /\ snap.lost \in SUBSET Nat
  BY AddressTypes
<1>1. /\ up = "down" /\ up' = "up" /\ forwarded' = snap.index /\ lost' = snap.lost /\ fwd' = Idle
      /\ book' = restored(Restore) /\ persisted' = written(restored(Restore))
      /\ UNCHANGED <<log, snap, saving>>
  BY DEF Start, DownInv
<1>2. at' = snap.index /\ running'
  BY <1>1 DEF at, running, Idle
<1>3. PICK a : a = Restore[n]
  OBVIOUS
<1>4. /\ book'[n] = IF a = None THEN "" ELSE a
      /\ persisted'[n] = IF book'[n] = "" THEN None ELSE book'[n]
  BY <1>1, <1>3 DEF restored, written, unconfigured
<1>5. PICK t : t = told(log, n)
  OBVIOUS
<1>6. t \in 0 .. Len(log)
  BY <1>t, <1>5, Told
<1>7. says(log, t) # None
  BY <1>t, <1>6, SaysAddress
<1>8. t <= snap.index => \/ book'[n] = says(log, t) /\ persisted'[n] = stored(log, t)
                         \/ spoilt(log, n, snap.index, snap.lost)
  <2>1. CASE snap.index > 0 /\ t <= snap.index
    <3>1. a = snap.addrs[n]
      BY <1>3, <2>1 DEF Restore
    <3>2. a = stored(log, t) \/ spoilt(log, n, snap.index, snap.lost)
      BY <1>5, <2>1, <3>1 DEF AddressOf, SnapInv
    <3>3. CASE a = stored(log, t)
      BY <1>4, <1>7, <3>3 DEF stored
    <3> QED
      BY <3>2, <3>3
  <2>2. CASE ~(snap.index > 0) /\ t <= snap.index
    <3>1. t = 0
      BY <1>t, <1>6, <2>2
    <3>2. a = persisted[n]
      BY <1>3, <2>2 DEF Restore
    <3>3. a \in {None, ""}
      BY <1>5, <3>1, <3>2 DEF AddressOf, UntoldInv
    <3>4. says(log, t) = ""
      BY <3>1 DEF says
    <3>5. book'[n] = ""
      BY <1>4, <3>3
    <3> QED
      BY <1>4, <3>4, <3>5 DEF stored
  <2> QED
    BY <2>1, <2>2
<1>9. SavingInv(n)' /\ SnapInv(n)'
  BY <1>1 DEF AddressOf, SavingInv, SnapInv
<1>10. PersistedInv(n)'
  BY <1>1, <1>5, <1>8 DEF PersistedInv
<1>11. BookInv(n)'
  <2>1. spoilt(log, n, snap.index, snap.lost) =>
          spoiltAtStart(log, n, snap.index, snap.lost, snap.index)
    <3>1. snap.index \in 0 .. snap.index /\ snap.index <= snap.index
      BY <1>t
    <3> QED
      BY <3>1 DEF spoiltAtStart
  <2> QED
    BY <1>1, <1>2, <1>5, <1>8, <2>1 DEF BookInv
<1>12. UntoldInv(n)'
  <2>1. SUFFICES ASSUME t = 0 PROVE UntoldInv(n)'
    BY <1>1, <1>5 DEF UntoldInv
  <2>2. /\ saving.book[n] = "" /\ persisted[n] \in {None, ""} /\ snap.addrs[n] \in {None, ""}
    BY <1>5, <2>1 DEF AddressOf, UntoldInv
  <2>3. a \in {None, ""}
    BY <1>3, <2>2 DEF Restore
  <2>4. book'[n] = "" /\ persisted'[n] = None
    BY <1>4, <2>3
  <2> QED
    BY <1>1, <2>2, <2>4 DEF UntoldInv
<1> QED
  BY <1>9, <1>10, <1>11, <1>12 DEF AddressOf

\* Every step keeps what is recorded of a node right.
LEMMA AddressPreserved ==
  ASSUME TypeOK, DownInv, ForwardInv, WayInv, LostInv, AddressInv, [Next]_vars
  PROVE  AddressInv'
<1> SUFFICES ASSUME NEW n \in Nodes, unconfigured(n), n \notin stray' PROVE AddressOf(n)'
  BY DEF AddressInv, unconfigured
<1>i. n \notin stray => AddressOf(n)
  BY DEF AddressInv
<1>1. CASE ForwardBook
  BY <1>1, <1>i, AddressBooked
<1>2. CASE ~ForwardBook
  <2>1. n \notin stray
    <3>1. stray' = stray \/ \E h \in Handlers, c \in Changes : stray' = stray \cup {c.node}
      BY <1>2 DEF Next, AddLearner, ChangeMember, AddLearnerDrop, Propose, RemoteChange, Dial, RunLoop, ApplyChange,
         EmitReady, TakeSnapshot, ForwardLoop, ForwardDrop, ForwardPersist, TransferLeader, Lead, Stop,
         StopPersist, Exit, Start, vars, admin
    <3> QED
      BY <3>1
  <2>2. AddressOf(n)
    BY <1>i, <2>1
  <2>3. ASSUME NEW h \in Handlers, NEW c \in Changes, AddLearner(h, c) PROVE AddressOf(n)'
    <3>1. /\ book' = Set(book, c.node, c.addr) /\ stray' = stray \cup {c.node}
          /\ UNCHANGED <<log, snap, fwd, forwarded, lost, persisted, up, saving>>
      BY <2>3 DEF AddLearner, raft
    <3>2. book'[n] = book[n]
      BY <3>1 DEF Set, TypeOK, PeersT
    <3>3. at' = at /\ running' = running
      BY <3>1 DEF at, running
    <3> QED
      BY <2>2, <3>1, <3>2, <3>3 DEF AddressOf, BookInv, PersistedInv, SavingInv, SnapInv, UntoldInv
  <2>4. CASE ForwardDrop
    <3>1. /\ fwd' = [fwd EXCEPT !.stage = "persist"] /\ fwd.stage = "drop"
          /\ UNCHANGED <<log, snap, forwarded, lost, book, persisted, up, saving>>
      BY <2>4 DEF ForwardDrop, raft
    <3>2. at' = at /\ running' = running
      BY <3>1 DEF at, running, TypeOK, ForwardT
    <3> QED
      BY <2>2, <3>1, <3>2 DEF AddressOf, BookInv, PersistedInv, SavingInv, SnapInv, UntoldInv
  <2>5. CASE ForwardPersist
    BY <2>2, <2>5, AddressForwarded
  <2>6. CASE TakeSnapshot
    BY <2>2, <2>6, AddressSnapshot
  <2>7. CASE Stop
    BY <2>2, <2>7, AddressCopied
  <2>8. CASE StopPersist
    BY <2>2, <2>8, AddressWritten
  <2>9. CASE Exit
    BY <2>2, <2>9, AddressEnded
  <2>10. CASE Start
    BY <2>2, <2>10, AddressStarted
  <2>11. CASE \/ \E h \in Handlers :
                   \/ \E c \in Changes : ChangeMember(h, c)
                   \/ AddLearnerDrop(h) \/ Propose(h)
              \/ \E c \in Changes : RemoteChange(c)
              \/ \E m \in Nodes : Dial(m)
              \/ RunLoop \/ TransferLeader \/ Lead \/ UNCHANGED vars
    <3>1. UNCHANGED <<snap, fwd, forwarded, lost, book, persisted, up, saving>>
      BY <2>11 DEF ChangeMember, AddLearnerDrop, Propose, RemoteChange, Dial, RunLoop, ApplyChange, EmitReady,
         TransferLeader, Lead, vars, raft, peers
    <3>2. CASE log' = log
      <4>1. at' = at /\ running' = running
        BY <3>1 DEF at, running
      <4> QED
        BY <2>2, <3>1, <3>2, <4>1 DEF AddressOf, BookInv, PersistedInv, SavingInv, SnapInv, UntoldInv
    <3>3. CASE \E c \in Change : log' = Append(log, c)
      BY <2>2, <3>1, <3>3, AddressGrown
    <3> QED
      BY <3>2, <3>3, LogSteps
  <2> QED
    BY <1>2, <2>3, <2>4, <2>5, <2>6, <2>7, <2>8, <2>9, <2>10, <2>11 DEF Next, ForwardLoop
<1> QED
  BY <1>1, <1>2

\* Initially, raft knows no member and the log gives no address.
LEMMA AddressInit == Init => WayInv /\ MembersInv /\ LostInv /\ AddressInv
<1> SUFFICES ASSUME Init PROVE WayInv /\ MembersInv /\ LostInv /\ AddressInv
  OBVIOUS
<1>1. /\ fwd = Idle /\ forwarded = 0 /\ readyCh = << >> /\ applied = 0 /\ inHand = 0 /\ members = {}
      /\ snap.index = 0 /\ snap.members = {} /\ snap.addrs = Absent /\ lost = {} /\ snap.lost = {}
      /\ up = "up" /\ saving = Saved /\ book = Configured
      /\ persisted = [n \in Nodes |-> IF Configured[n] = "" THEN None ELSE Configured[n]]
  BY DEF Init
<1>2. at = 0 /\ fwd.stage = "idle" /\ Len(readyCh) = 0
  BY <1>1 DEF at, Idle
<1>3. WayInv
  <2>1. inHand = 0 /\ applied = 0 /\ readyCh = << >>
    BY <1>1
  <2> HIDE DEF Init
  <2> QED
    BY <1>2, <2>1 DEF WayInv
<1>4. MembersInv
  <2>1. \A n \in Nodes : lastOf(log, n, 0) = 0
    <3>1. \A n \in Nodes : lastOf(log, n, 0) \in 0 .. 0
      BY LastOf
    <3> QED
      BY <3>1
  <2> QED
    BY <1>1, <2>1 DEF MembersInv, memberAt
<1>5. LostInv
  <2>1. forwarded = 0 /\ snap.index = 0
    BY <1>1
  <2>2. (forwarded + 1) .. snap.index = {}
    BY <2>1
  <2> QED
    BY <1>1, <2>2 DEF LostInv
<1>6. AddressInv
  <2> SUFFICES ASSUME NEW n \in Nodes, unconfigured(n) PROVE AddressOf(n)
    BY DEF AddressInv
  <2>1. \A j \in 1 .. Len(log) : ~tells(log[j], n)
    <3>1. Len(log) = Len(Bootstrap) /\ \A j \in 1 .. Len(Bootstrap) : log[j].type = "voter" /\ log[j].addr = ""
      <4>1. /\ DOMAIN Bootstrap = 1 .. Len(Bootstrap) /\ Len(Bootstrap) \in Nat
        BY Founders
      <4>2. log = [i \in 1 .. Len(Bootstrap) |-> [type |-> "voter", node |-> Bootstrap[i], addr |-> ""]]
        BY <4>1 DEF Init
      <4>3. log \in Seq(Change)
        BY FoundingLog DEF Init
      <4>4. DOMAIN log = 1 .. Len(log) /\ Len(log) \in Nat
        BY <4>3, LenProperties
      <4>5. DOMAIN log = 1 .. Len(Bootstrap)
        BY <4>2
      <4>6. Len(log) = Len(Bootstrap)
        <5>1. PICK m \in Nat, k \in Nat : m = Len(log) /\ k = Len(Bootstrap)
          BY <4>1, <4>4
        <5>2. 1 .. m = 1 .. k
          BY <4>4, <4>5, <5>1
        <5>3. m = k
          BY <5>2
        <5> QED
          BY <5>1, <5>3
      <4> QED
        BY <4>2, <4>6
    <3> QED
      BY <3>1 DEF tells
  <2>2. Len(log) \in Nat /\ 0 \in 0 .. Len(log)
    <3>1. Len(log) \in Nat
      BY FoundingLog DEF Init
    <3> QED
      BY <3>1
  <2>3. told(log, n) = 0
    BY <2>1, <2>2, ToldIs
  <2>4. says(log, 0) = "" /\ stored(log, 0) = None
    BY DEF says, stored
  <2>5. book[n] = "" /\ persisted[n] = None /\ saving.book[n] = "" /\ snap.addrs[n] = None
    BY <1>1 DEF unconfigured, Saved, Absent
  <2> QED
    BY <2>3, <2>4, <2>5 DEF AddressOf, BookInv, PersistedInv, SavingInv, SnapInv, UntoldInv
<1> QED
  BY <1>3, <1>4, <1>5, <1>6

\* The change that gave n its address is the last one that says something
\* about it, and no removal.
LEMMA AddressedTold ==
  ASSUME Len(log) \in Nat, NEW n, addressed(n) # 0
  PROVE  /\ addressed(n) = told(log, n) /\ told(log, n) \in 1 .. Len(log)
         /\ log[told(log, n)].node = n /\ log[told(log, n)].type # "remove"
<1> DEFINE R == {j \in changesOf(n, Len(log)) : log[j].type = "remove"}
<1>1. PICK r : r = latest(R)
  OBVIOUS
<1> DEFINE A == {j \in changesOf(n, Len(log)) : j > r /\ log[j].addr # ""}
<1>2. R \in SUBSET (1 .. Len(log)) /\ A \in SUBSET (1 .. Len(log))
  BY DEF changesOf
<1>3. r \in 0 .. Len(log) /\ \A j \in R : j <= r
  BY <1>1, <1>2, LatestProperties
<1>4. PICK a : a = latest(A)
  OBVIOUS
<1>5. addressed(n) = a
  BY <1>1, <1>4 DEF addressed
<1>6. a \in A /\ a \in 0 .. Len(log) /\ \A j \in A : j <= a
  BY <1>2, <1>4, <1>5, LatestProperties
<1>7. a \in 1 .. Len(log) /\ log[a].node = n /\ a > r /\ log[a].addr # ""
  BY <1>6 DEF changesOf
<1>8. PICK t : t = told(log, n)
  OBVIOUS
<1>9. t \in 0 .. Len(log) /\ (t # 0 => tells(log[t], n)) /\ \A j \in 1 .. Len(log) : tells(log[j], n) => j <= t
  BY <1>8, Told
<1>10. tells(log[a], n)
  BY <1>7, Zenon DEF tells
<1>11. a <= t
  BY <1>7, <1>9, <1>10
<1>a. t \in 0 .. Len(log) /\ a \in 1 .. Len(log) /\ a > r /\ r \in 0 .. Len(log) /\ a <= t
  BY <1>3, <1>7, <1>9, <1>11
<1> HIDE DEF R, A
<1>12. t \in 1 .. Len(log) /\ t > r /\ t # 0
  BY <1>a
<1>b. tells(log[t], n)
  BY <1>9, <1>12
<1>13. log[t].node = n /\ (log[t].type = "remove" \/ log[t].addr # "")
  BY <1>b, Zenon DEF tells
<1>14. t \in changesOf(n, Len(log))
  BY <1>12, <1>13 DEF changesOf
<1>15. log[t].type # "remove"
  <2>1. t \notin R
    BY <1>3, <1>12, <1>a
  <2> QED
    BY <1>14, <2>1 DEF R
<1>16. t \in A
  BY <1>12, <1>13, <1>14, <1>15 DEF A
<1>17. t <= a
  BY <1>6, <1>16
<1>18. t = a
  BY <1>a, <1>17
<1> QED
  BY <1>5, <1>8, <1>12, <1>13, <1>15, <1>18

\* Once every change has come through, what is recorded up to the end of the
\* log is what the property says.
LEMMA AddressSettled ==
  ASSUME TypeOK, DownInv, ForwardInv, WayInv, MembersInv, LostInv, AddressInv
  PROVE  BookFollowsLog
<1> SUFFICES ASSUME settled, NEW n \in Nodes, unconfigured(n), n \notin stray,
                    addressed(n) > snap.index \/ ~misrecorded(n)
             PROVE  IF n \in members
                      THEN addressed(n) # 0 => book[n] = log[addressed(n)].addr
                      ELSE book[n] = "" /\ persisted[n] = None
  BY DEF BookFollowsLog, unconfigured
<1>t. /\ log \in Seq(Change) /\ Len(log) \in Nat /\ forwarded \in 0 .. Len(log)
      /\ snap.index \in 0 .. Len(log) /\ snap.lost \in SUBSET Nat /\ lost \in SUBSET Nat /\ 0 \notin lost
  BY AddressTypes
<1>1. /\ up = "up" /\ running /\ applied = Len(log) /\ inHand = 0 /\ readyCh = << >> /\ fwd = Idle
  BY DEF settled, running
<1>2. at = forwarded /\ forwarded = Len(log)
  <2>1. at = forwarded /\ Len(readyCh) = 0
    BY <1>1 DEF at, Idle
  <2>2. applied = forwarded + 0 + 0
    BY <1>1, <2>1 DEF WayInv
  <2> QED
    BY <1>t, <1>1, <2>1, <2>2
<1>3. AddressOf(n) /\ lost \subseteq snap.lost
  BY <1>1 DEF AddressInv, LostInv
<1>4. PICK t, c : t = told(log, n) /\ c = lastOf(log, n, Len(log))
  OBVIOUS
<1>5. t \in 0 .. Len(log) /\ (t # 0 => tells(log[t], n)) /\ \A j \in 1 .. Len(log) : tells(log[j], n) => j <= t
  BY <1>t, <1>4, Told
<1>6. /\ c \in 0 .. Len(log) /\ (c # 0 => log[c].node = n)
      /\ \A j \in 1 .. Len(log) : log[j].node = n => j <= c
  BY <1>t, <1>4, LastOf
<1>7. t <= c
  <2>1. t # 0 => log[t].node = n
    BY <1>5 DEF tells
  <2> QED
    BY <1>5, <1>6, <2>1
<1>8. lastOf(log, n, snap.index) \in snap.lost => misrecorded(n)
  BY DEF misrecorded, lastOf, changesOf
<1>9. ASSUME spoiltAtStart(log, n, Len(log), lost, snap.index) PROVE misrecorded(n) /\ t <= snap.index
  <2>1. PICK k \in 0 .. Len(log) : k <= snap.index /\ spoilt(log, n, k, lost)
    BY <1>9 DEF spoiltAtStart
  <2>2. snap.index \in k .. Len(log)
    BY <1>t, <2>1
  <2>3. spoilt(log, n, snap.index, snap.lost)
    BY <1>t, <1>3, <2>1, <2>2, SpoiltStays
  <2> QED
    BY <1>4, <2>3 DEF spoilt, misrecorded, lastOf, changesOf
<1>10. book[n] = says(log, t) \/ (misrecorded(n) /\ t <= snap.index)
  BY <1>1, <1>2, <1>3, <1>4, <1>5, <1>9 DEF AddressOf, BookInv
<1>11. addressed(n) # 0 => /\ addressed(n) = t /\ t \in 1 .. Len(log)
                           /\ log[t].node = n /\ log[t].type # "remove"
  BY <1>t, <1>4, AddressedTold
<1>12. ASSUME addressed(n) # 0 PROVE book[n] = log[t].addr
  <2>1. addressed(n) = t /\ log[t].type # "remove" /\ t \in 1 .. Len(log)
    BY <1>11, <1>12
  <2>2. ~(misrecorded(n) /\ t <= snap.index)
    <3>1. t > snap.index => ~(t <= snap.index)
      BY <1>t, <1>5
    <3> QED
      BY <2>1, <3>1
  <2>3. book[n] = says(log, t) /\ t # 0
    BY <1>10, <2>1, <2>2
  <2> QED
    BY <2>1, <2>3 DEF says
<1>13. ASSUME n \notin members PROVE book[n] = "" /\ persisted[n] = None
  <2>1. c = 0 \/ log[c].type = "remove"
    BY <1>1, <1>4, <1>13 DEF MembersInv, memberAt
  <2>2. c # 0 => tells(log[c], n)
    BY <1>6, <2>1, Zenon DEF tells
  <2>3. t = c
    BY <1>5, <1>6, <1>7, <2>2
  <2>4. addressed(n) = 0
    BY <1>11, <2>1, <2>3, <1>t
  <2>5. ~misrecorded(n)
    <3>1. ~(0 > snap.index)
      BY <1>t
    <3> QED
      BY <2>4, <3>1
  <2>6. says(log, t) = ""
    BY <2>1, <2>3 DEF says
  <2>7. book[n] = ""
    BY <1>10, <2>5, <2>6
  <2>8. ~spoilt(log, n, Len(log), lost)
    <3>1. SUFFICES ASSUME c \in lost PROVE FALSE
      BY <1>4, <2>1 DEF spoilt
    <3>2. c \in snap.lost /\ c # 0
      BY <1>t, <1>3, <3>1
    <3>3. c \in 0 .. snap.index
      BY <3>2, <1>t DEF TypeOK, SnapT
    <3>4. \A j \in 1 .. snap.index : log[j].node = n => j <= c
      BY <1>t, <1>6
    <3>5. lastOf(log, n, snap.index) = c
      BY <1>t, <1>6, <3>3, <3>4, LastIs
    <3> QED
      BY <1>8, <2>5, <3>2, <3>5
  <2>9. persisted[n] = stored(log, t)
    BY <1>1, <1>2, <1>3, <1>4, <1>5, <2>8 DEF AddressOf, PersistedInv
  <2> QED
    BY <2>6, <2>7, <2>9 DEF stored
<1> QED
  BY <1>11, <1>12, <1>13

\* The complete invariant, as long as no Ready is dropped.
FollowInv == IInv /\ WayInv /\ MembersInv /\ LostInv /\ AddressInv

\* It holds initially.
LEMMA FollowInitially == Init => FollowInv
BY InitInv, AddressInit DEF FollowInv

\* Every step that drops no Ready preserves it.
LEMMA FollowPreserved ==
  ASSUME FollowInv, [Next]_vars,
         inHand # 0 /\ inHand' = 0 /\ up' # "down" => Len(readyCh) < ReadyCap
  PROVE  FollowInv'
<1>1. IInv /\ TypeOK /\ DownInv /\ ForwardInv /\ NoStaleClient /\ WayInv /\ MembersInv /\ LostInv /\ AddressInv
  BY DEF FollowInv, IInv
<1>2. IInv'
  BY <1>1, TypesPreserved, ClientsPreserved DEF IInv
<1>3. WayInv'
  BY <1>1, WayPreserved
<1>4. MembersInv' /\ LostInv' /\ AddressInv'
  BY <1>1, MembersPreserved, LostPreserved, AddressPreserved
<1> QED
  BY <1>2, <1>3, <1>4 DEF FollowInv

\* Raft's configuration on this node is the one that the log prescribes up to
\* the applied index, and so is the one in the snapshot, also after restarts
\* and whatever becomes of the addresses.
THEOREM MembersFollowLog == Spec => []MembersInv
<1>1. Init => MembersInv
  BY AddressInit
<1>2. IInv /\ MembersInv /\ [Next]_vars => MembersInv'
  BY MembersPreserved DEF IInv
<1> QED
  BY Invariance, <1>1, <1>2, PTL DEF Spec

\* In every behaviour in which no Ready is dropped, restarts and crashes
\* included: once every committed change has come through, the book and Pebble
\* hold for each node what the log says.
THEOREM BookFollowsLogTheorem == Spec /\ NoDrop => []BookFollowsLog
<1>1. FollowInv => BookFollowsLog
  BY AddressSettled DEF FollowInv, IInv
<1>2. FollowInv /\ [Next]_vars /\ [inHand # 0 /\ inHand' = 0 /\ up' # "down" => Len(readyCh) < ReadyCap]_vars
        => FollowInv'
  <2> SUFFICES ASSUME FollowInv, [Next]_vars,
                      [inHand # 0 /\ inHand' = 0 /\ up' # "down" => Len(readyCh) < ReadyCap]_vars
               PROVE  FollowInv'
    OBVIOUS
  <2>1. inHand # 0 /\ inHand' = 0 /\ up' # "down" => Len(readyCh) < ReadyCap
    BY DEF vars, raft
  <2> QED
    BY <2>1, FollowPreserved
<1> QED
  BY FollowInitially, <1>1, <1>2, PTL DEF Spec, NoDrop
=============================================================================
