------------------------- MODULE ReadBarrierProofs -------------------------
(***************************************************************************)
(* ReadBarrier for any number of reads and writes: the waiter table is     *)
(* safe whatever the request contexts, and a read whose context no other   *)
(* read uses is linearizable.                                              *)
(***************************************************************************)
EXTENDS ReadBarrier, TLAPS

\* The waiter table, with what it takes to be inductive: a read that has not
\* begun has a fresh channel and is not in the table.
TableInv ==
  /\ TypeOK
  /\ WaiterWritable
  /\ \A r \in Readers : pc[r] = "idle" => channel[r] = Empty /\ r \notin waiters

\* From the leader's answer to the read itself, every index on the way to
\* read r is at least the commit index that r began with.
OnTheWay(r) ==
  /\ r \in sent => pc[r] # "idle"
  /\ \A p \in pending \cup answers : p.key = KeyOf[r] =>
       pc[r] # "idle" /\ p.index >= begun[r]
  /\ channel[r] # Empty => pc[r] = "failed" \/ channel[r] >= begun[r]
  /\ pc[r] \in {"polling", "reading"} => index[r] >= begun[r]
  /\ pc[r] = "reading" => applied >= index[r]
  /\ pc[r] = "done" => seen[r] >= begun[r]

IndexInv ==
  /\ applied <= commit
  /\ \A r \in Readers : begun[r] <= commit /\ (OwnContext(r) => OnTheWay(r))

-----------------------------------------------------------------------------
\* Before any read, the table is empty and so is every channel.
LEMMA InitTable == Init => TableInv
BY ReadBarrierAssumption
   DEF Init, TableInv, TypeOK, WaiterWritable, Index, Stages, Empty, Answer

\* A channel is registered empty, and leaves the table when it is sent to or
\* closed.
LEMMA NextTable == ASSUME TableInv, [Next]_vars PROVE TableInv'
<1> USE ReadBarrierAssumption DEF TableInv, TypeOK, WaiterWritable, Index, Stages, Empty,
    writes, leader
<1>1. CASE Propose
  BY <1>1 DEF Propose
<1>2. CASE Commit
  BY <1>2 DEF Commit
<1>3. CASE ApplyWrite
  BY <1>3 DEF ApplyWrite
<1>4. ASSUME NEW r \in Readers, Register(r) PROVE TableInv'
  BY <1>4 DEF Register
<1>5. ASSUME NEW r \in Readers, Request(r) PROVE TableInv'
  BY <1>5 DEF Request
<1>6. ASSUME NEW r \in Readers, GiveUp(r) PROVE TableInv'
  BY <1>6 DEF GiveUp, removeWaiter
<1>7. ASSUME NEW r \in Readers, Receive(r) PROVE TableInv'
  BY <1>7 DEF Receive
<1>8. ASSUME NEW r \in Readers, Poll(r) \/ PollTimesOut(r) \/ Read(r) PROVE TableInv'
  BY <1>8 DEF Poll, PollTimesOut, Read
<1>9. ASSUME NEW r \in Readers, LeaderReceive(r) \/ LoseRequest(r) PROVE TableInv'
  BY <1>9 DEF LeaderReceive, LoseRequest, Answer
<1>10. ASSUME NEW p \in pending, Confirm(p) \/ LosePending(p) PROVE TableInv'
  BY <1>10 DEF Confirm, LosePending, Answer
<1>11. ASSUME NEW p \in answers, handleReadStates(p) PROVE TableInv'
  BY <1>11 DEF handleReadStates, Answer
<1>12. CASE UNCHANGED vars
  BY <1>12 DEF vars
<1> QED
  BY <1>1, <1>2, <1>3, <1>4, <1>5, <1>6, <1>7, <1>8, <1>9, <1>10, <1>11, <1>12
     DEF Next, Finished

\* What is said about the table holds in every reachable state.
LEMMA TableInvariance == Spec => []TableInv
<1>1. TableInv /\ [Next]_vars => TableInv'
  BY NextTable
<1> QED
  BY InitTable, <1>1, PTL DEF Spec

\* Every variable keeps its type.
THEOREM TypeCorrect == Spec => []TypeOK
<1>1. TableInv => TypeOK
  BY DEF TableInv
<1> QED
  BY TableInvariance, <1>1, PTL

\* Whatever the request contexts, the run loop never blocks in, and never
\* panics on, the send of handleReadStates.
THEOREM WaiterWritableTheorem == Spec => []WaiterWritable
<1>1. TableInv => WaiterWritable
  BY DEF TableInv
<1> QED
  BY TableInvariance, <1>1, PTL

-----------------------------------------------------------------------------
\* Before any read, no index is on its way.
LEMMA InitIndex == Init => IndexInv
BY ReadBarrierAssumption DEF Init, IndexInv, OnTheWay, Empty

\* The applied index follows the commit index, which only grows.
LEMMA NextBounds ==
  ASSUME TableInv, IndexInv, [Next]_vars
  PROVE  /\ applied' <= commit' /\ commit <= commit' /\ applied <= applied'
         /\ \A r \in Readers : begun'[r] <= commit'
BY ReadBarrierAssumption
   DEF TableInv, TypeOK, IndexInv, Index, Next, Finished, vars, writes, leader,
       Propose, Commit, ApplyWrite, Register, Request, GiveUp, Receive, Poll, PollTimesOut,
       Read, LeaderReceive, LoseRequest, Confirm, LosePending, handleReadStates

\* If no other read uses its context, the index recorded for a context is
\* recorded for one read, after it began, and only that read can receive from
\* or close its channel.
LEMMA NextOnTheWay ==
  ASSUME TableInv, IndexInv, [Next]_vars,
         NEW o \in Readers, OwnContext(o), OnTheWay(o)
  PROVE  OnTheWay(o)'
<1> USE ReadBarrierAssumption DEF TableInv, TypeOK, IndexInv, OnTheWay, Index, Stages, Empty,
    writes, leader
<1>1. CASE Propose
  BY <1>1 DEF Propose
<1>2. CASE Commit
  BY <1>2 DEF Commit
<1>3. CASE ApplyWrite
  BY <1>3 DEF ApplyWrite
<1>4. ASSUME NEW r \in Readers, Register(r) PROVE OnTheWay(o)'
  BY <1>4 DEF Register
<1>5. ASSUME NEW r \in Readers, Request(r) PROVE OnTheWay(o)'
  BY <1>5 DEF Request
<1>6. ASSUME NEW r \in Readers, GiveUp(r) PROVE OnTheWay(o)'
  BY <1>6 DEF GiveUp, removeWaiter, OwnContext
<1>7. ASSUME NEW r \in Readers, Receive(r) PROVE OnTheWay(o)'
  BY <1>7 DEF Receive
<1>8. ASSUME NEW r \in Readers, Poll(r) \/ PollTimesOut(r) \/ Read(r) PROVE OnTheWay(o)'
  BY <1>8 DEF Poll, PollTimesOut, Read
<1>9. ASSUME NEW r \in Readers, LeaderReceive(r) \/ LoseRequest(r) PROVE OnTheWay(o)'
  BY <1>9 DEF LeaderReceive, LoseRequest, Answer, OwnContext
<1>10. ASSUME NEW p \in pending, Confirm(p) \/ LosePending(p) PROVE OnTheWay(o)'
  BY <1>10 DEF Confirm, LosePending, Answer
<1>11. ASSUME NEW p \in answers, handleReadStates(p) PROVE OnTheWay(o)'
  BY <1>11 DEF handleReadStates, Answer
<1>12. CASE UNCHANGED vars
  BY <1>12 DEF vars
<1> QED
  BY <1>1, <1>2, <1>3, <1>4, <1>5, <1>6, <1>7, <1>8, <1>9, <1>10, <1>11, <1>12
     DEF Next, Finished

\* A read whose request context no other read uses is linearizable, whatever
\* the other reads do and whatever times out, gets lost or is applied late.
THEOREM LinearizableTheorem == Spec => []OwnContextLinearizable
<1>1. TableInv /\ IndexInv /\ [Next]_vars => IndexInv'
  <2> SUFFICES ASSUME TableInv, IndexInv, [Next]_vars PROVE IndexInv'
    OBVIOUS
  <2>1. ASSUME NEW r \in Readers, OwnContext(r)' PROVE OnTheWay(r)'
    <3>1. OwnContext(r)
      BY <2>1 DEF OwnContext
    <3> QED
      BY <3>1, NextOnTheWay DEF IndexInv
  <2> QED
    BY <2>1, NextBounds DEF IndexInv
<1>2. IndexInv => OwnContextLinearizable
  BY DEF IndexInv, OnTheWay, OwnContextLinearizable
<1> QED
  BY TableInvariance, InitIndex, <1>1, <1>2, PTL DEF Spec
=============================================================================
