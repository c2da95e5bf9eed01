--------------------------- MODULE WatchHubProofs ---------------------------
(***************************************************************************)
(* Type correctness of WatchHub; that no event is lost between the history *)
(* and an open connection; and, as long as emitReady drops no Ready, that  *)
(* a client can resume from the last revision it was sent: for any number  *)
(* of connections and any capacities.                                      *)
(***************************************************************************)
EXTENDS WatchHub, SharedLemmas

-----------------------------------------------------------------------------
(* Types. *)

\* The constants are natural numbers.
LEMMA Constants ==
  /\ MaxRev \in Nat /\ MaxBatch \in Nat \ {0}
  /\ ReadyCap \in Nat \ {0} /\ ChanCap \in Nat \ {0} /\ HistoryCap \in Nat \ {0}
BY WatchHubAssumption

\* A revision is a natural number up to MaxRev.
LEMMA Revisions == Rev \subseteq Nat /\ 1 .. MaxRev \subseteq Rev /\ 0 \in Rev
BY Constants DEF Rev

\* The last element of a sequence.
LEMMA LastElement ==
  ASSUME NEW S, NEW q \in Seq(S), q # << >>
  PROVE  Len(q) \in Nat \ {0} /\ Last(q) = q[Len(q)] /\ Last(q) \in S
<1>1. Len(q) \in Nat \ {0} /\ Len(q) \in 1 .. Len(q)
  BY EmptySeq, LenProperties
<1> QED
  BY <1>1, ElementOfSeq DEF Last

\* The history with one more event: at most HistoryCap of the last ones.
LEMMA HistoryGrows ==
  ASSUME HubT, NEW rev \in 1 .. MaxRev
  PROVE  LET q == appendHistory(rev)
         IN  /\ q \in Seq(1 .. MaxRev) /\ Len(q) \in 1 .. HistoryCap /\ Len(q) <= Len(history) + 1
             /\ q[Len(q)] = rev
             /\ \A i \in 1 .. Len(q) - 1 :
                  /\ q[i] = history[Len(history) + 1 - Len(q) + i]
                  /\ Len(history) + 1 - Len(q) + i \in 1 .. Len(history)
<1> DEFINE all == Append(history, rev)
           m == IF Len(all) > HistoryCap THEN Len(all) - HistoryCap + 1 ELSE 1
           q == SubSeq(all, m, Len(all))
<1>1. /\ all \in Seq(1 .. MaxRev) /\ Len(history) \in Nat /\ Len(all) = Len(history) + 1
      /\ all[Len(history) + 1] = rev
      /\ \A i \in 1 .. Len(history) : all[i] = history[i]
  BY OneMore DEF HubT
<1>2. m \in 1 .. Len(all) /\ Len(all) - m + 1 <= HistoryCap
  BY <1>1, Constants
<1> HIDE DEF all, m
<1>3. q \in Seq(1 .. MaxRev) /\ Len(q) = Len(all) - m + 1
  <2>1. \A i \in m .. Len(all) : all[i] \in 1 .. MaxRev
    <3> SUFFICES ASSUME NEW i \in m .. Len(all) PROVE all[i] \in 1 .. MaxRev
      OBVIOUS
    <3>1. i \in 1 .. Len(all)
      BY <1>1, <1>2
    <3> QED
      BY <1>1, <3>1, ElementOfSeq
  <2>2. m \in Int /\ Len(all) \in Int /\ m <= Len(all)
    BY <1>1, <1>2
  <2> QED
    BY <2>1, <2>2, SubSeqProperties
<1>4. \A i \in 1 .. Len(all) - m + 1 : q[i] = all[m + i - 1]
  BY <1>1, <1>2, SubSeqProperties
<1>5. q = appendHistory(rev)
  BY DEF appendHistory, q, m, all
<1> HIDE DEF q
<1>6. /\ Len(q) \in 1 .. HistoryCap /\ Len(q) <= Len(history) + 1 /\ m = Len(history) + 2 - Len(q)
      /\ m \in 1 .. Len(history) + 1
  BY <1>1, <1>2, <1>3, Constants
<1>7. q[Len(q)] = rev
  BY <1>1, <1>3, <1>4, <1>6
<1>8. ASSUME NEW i \in 1 .. Len(q) - 1
      PROVE  /\ q[i] = history[Len(history) + 1 - Len(q) + i]
             /\ Len(history) + 1 - Len(q) + i \in 1 .. Len(history)
  <2>1. m + i - 1 = Len(history) + 1 - Len(q) + i /\ m + i - 1 \in 1 .. Len(history)
    BY <1>1, <1>3, <1>6
  <2>2. q[i] = all[m + i - 1]
    BY <1>1, <1>3, <1>4, <1>6
  <2> QED
    BY <1>1, <2>1, <2>2
<1> QED
  BY <1>3, <1>5, <1>6, <1>7, <1>8

\* The last event published is a revision.
LEMMA LatestRev ==
  ASSUME HubT
  PROVE  /\ latest \in Rev
         /\ history # << >> => Len(history) \in Nat \ {0} /\ latest = history[Len(history)]
         /\ history = << >> => latest = 0
<1>1. CASE history = << >>
  BY <1>1, Revisions DEF latest
<1>2. CASE history # << >>
  <2>1. Len(history) \in Nat \ {0} /\ Last(history) = history[Len(history)] /\ Last(history) \in 1 .. MaxRev
    <3>1. history \in Seq(1 .. MaxRev)
      BY DEF HubT
    <3> QED
      BY <1>2, <3>1, LastElement
  <2> QED
    BY <1>2, <2>1, Revisions DEF latest
<1> QED
  BY <1>1, <1>2

\* The run loop: the entries of a Ready.
LEMMA NewReady ==
  ASSUME LoopT, applied < stored
  PROVE  LET r == [i \in 1 .. stored - applied |-> applied + i]
         IN  r \in Seq(1 .. MaxRev) /\ Len(r) = stored - applied
<1> DEFINE n == stored - applied
           r == [i \in 1 .. n |-> applied + i]
<1>1. n \in Nat /\ applied \in Nat /\ stored \in Nat /\ stored <= MaxRev
  BY Constants DEF LoopT, Rev
<1>2. \A i \in 1 .. n : applied + i \in 1 .. MaxRev
  BY <1>1, Constants
<1>3. r \in [1 .. n -> 1 .. MaxRev]
  BY <1>2
<1> HIDE DEF n
<1>4. r \in Seq(1 .. MaxRev)
  BY <1>1, <1>3, SeqDef
<1>5. Len(r) = n
  BY <1>1, <1>4, LenProperties
<1> QED
  BY <1>4, <1>5 DEF n

\* Publish has nobody to send to unless it has an event.
IdleInv == pub.rev = 0 => pub.targets = {} /\ pub.slow = {}

\* The loops keep their types.
LEMMA LoopsPreserved ==
  ASSUME TypeOK, IdleInv, [Next]_vars
  PROVE  LoopT' /\ PubT' /\ IdleInv'
<1>a. LoopT /\ PubT /\ HubT
  BY DEF TypeOK
<1>1. ASSUME ApplyEntry PROVE LoopT' /\ PubT' /\ IdleInv'
  BY <1>1, <1>a, Constants DEF ApplyEntry, LoopT, PubT, IdleInv, Rev
<1>2. ASSUME EmitReady PROVE LoopT' /\ PubT' /\ IdleInv'
  <2> DEFINE r == [i \in 1 .. stored - applied |-> applied + i]
  <2>1. applied' = stored /\ stored' = stored /\ pub' = pub /\ readyCh' \in {readyCh, Append(readyCh, r)}
    BY <1>2 DEF EmitReady
  <2>2. r \in Seq(1 .. MaxRev)
    BY <1>2, <1>a, NewReady DEF EmitReady
  <2>3. readyCh \in Seq(Seq(1 .. MaxRev))
    BY <1>a DEF LoopT
  <2> HIDE DEF r
  <2>4. Append(readyCh, r) \in Seq(Seq(1 .. MaxRev))
    BY <2>2, <2>3, OneMore
  <2>5. applied' \in 0 .. stored'
    BY <1>a, <2>1, Constants DEF LoopT, Rev
  <2> QED
    BY <1>a, <2>1, <2>3, <2>4, <2>5 DEF LoopT, PubT, IdleInv
<1>3. ASSUME TakeReady PROVE LoopT' /\ PubT' /\ IdleInv'
  <2>1. /\ readyCh \in Seq(Seq(1 .. MaxRev)) /\ readyCh # << >> /\ readyCh' = Tail(readyCh)
        /\ pub' = [pub EXCEPT !.todo = Head(readyCh)] /\ UNCHANGED <<stored, applied>>
    BY <1>3, <1>a DEF TakeReady, LoopT
  <2>2. Head(readyCh) \in Seq(1 .. MaxRev) /\ Tail(readyCh) \in Seq(Seq(1 .. MaxRev))
    BY <2>1, HeadTail
  <2> QED
    BY <1>a, <2>1, <2>2 DEF LoopT, PubT, IdleInv
<1>4. ASSUME Publish PROVE LoopT' /\ PubT' /\ IdleInv'
  <2>1. /\ pub.todo # << >> /\ UNCHANGED loop
        /\ pub' = [todo |-> Tail(pub.todo), rev |-> Head(pub.todo), targets |-> watchers, slow |-> {}]
    BY <1>4 DEF Publish
  <2>2. pub.todo \in Seq(1 .. MaxRev)
    BY <1>a DEF PubT
  <2>3. Head(pub.todo) \in Rev /\ Head(pub.todo) # 0 /\ Tail(pub.todo) \in Seq(1 .. MaxRev)
    <3>1. Head(pub.todo) \in 1 .. MaxRev /\ Tail(pub.todo) \in Seq(1 .. MaxRev)
      BY <2>1, <2>2, HeadTail
    <3> QED
      BY <3>1, Constants DEF Rev
  <2>4. watchers \subseteq Conns
    BY <1>a DEF HubT
  <2> QED
    BY <1>a, <2>1, <2>3, <2>4 DEF LoopT, PubT, IdleInv, loop
<1>5. ASSUME NEW c \in Conns, Send(c) PROVE LoopT' /\ PubT' /\ IdleInv'
  <2>1. /\ \/ pub' = [pub EXCEPT !.targets = @ \ {c}]
           \/ pub' = [pub EXCEPT !.targets = @ \ {c}, !.slow = @ \cup {c}]
        /\ c \in pub.targets /\ UNCHANGED loop
    BY <1>5 DEF Send
  <2> QED
    BY <1>a, <2>1 DEF LoopT, PubT, IdleInv, loop
<1>6. ASSUME CloseSlow PROVE LoopT' /\ PubT' /\ IdleInv'
  <2>1. pub' = [pub EXCEPT !.rev = 0, !.slow = {}] /\ pub.targets = {} /\ UNCHANGED loop
    BY <1>6 DEF CloseSlow
  <2> QED
    BY <1>a, <2>1, Revisions DEF LoopT, PubT, IdleInv, loop
<1>7. ASSUME UNCHANGED <<loop, pub>> PROVE LoopT' /\ PubT' /\ IdleInv'
  BY <1>a, <1>7 DEF LoopT, PubT, IdleInv, loop
<1>8. \/ ApplyEntry \/ EmitReady \/ TakeReady \/ Publish \/ CloseSlow
      \/ \E c \in Conns : Send(c)
      \/ UNCHANGED <<loop, pub>>
  BY DEF Next, RunLoop, ForwardLoop, Handler, SendOnClosed, ConnectExpired, ConnectSnapshot, ConnectReplay,
         ConnectLive, subscribe, ReadRevision, SendSnapshot, Receive, ReceiveClosed, Leave, Finished, vars
<1> QED
  BY <1>1, <1>2, <1>3, <1>4, <1>5, <1>6, <1>7, <1>8

\* The hub keeps its type.
LEMMA HubPreserved ==
  ASSUME TypeOK, IdleInv, [Next]_vars
  PROVE  HubT'
<1>a. PubT /\ HubT
  BY DEF TypeOK
<1>1. ASSUME Publish PROVE HubT'
  <2>1. pub.todo # << >> /\ history' = appendHistory(Head(pub.todo)) /\ UNCHANGED <<watchers, channel, closed>>
    BY <1>1 DEF Publish
  <2>2. pub.todo \in Seq(1 .. MaxRev)
    BY <1>a DEF PubT
  <2>3. Head(pub.todo) \in 1 .. MaxRev
    BY <2>1, <2>2, HeadTail
  <2>4. history' \in Seq(1 .. MaxRev) /\ Len(history') <= HistoryCap
    BY <1>a, <2>1, <2>3, HistoryGrows, Constants
  <2> QED
    BY <1>a, <2>1, <2>4 DEF HubT
<1>2. ASSUME NEW c \in Conns, Send(c) PROVE HubT'
  <2>1. UNCHANGED <<history, watchers, closed>> /\ c \in pub.targets
    BY <1>2 DEF Send
  <2>2. pub.rev \in 1 .. MaxRev
    BY <1>a, <2>1 DEF PubT, IdleInv, Rev
  <2>3. CASE channel' = channel
    BY <1>a, <2>1, <2>3 DEF HubT
  <2>4. CASE Len(channel[c]) < ChanCap /\ channel' = [channel EXCEPT ![c] = Append(@, pub.rev)]
    <3>1. channel[c] \in Seq(1 .. MaxRev)
      BY <1>a DEF HubT
    <3> DEFINE q == Append(channel[c], pub.rev)
    <3>2. q \in Seq(1 .. MaxRev) /\ Len(q) <= ChanCap
      BY <2>2, <2>4, <3>1, OneMore, Constants
    <3> HIDE DEF q
    <3>3. channel' = [channel EXCEPT ![c] = q]
      BY <2>4 DEF q
    <3> QED
      BY <1>a, <2>1, <3>2, <3>3 DEF HubT
  <2> QED
    BY <1>2, <2>3, <2>4 DEF Send
<1>3. ASSUME CloseSlow PROVE HubT'
  BY <1>a, <1>3 DEF CloseSlow, HubT, PubT
<1>4. ASSUME NEW c \in Conns, subscribe(c) PROVE HubT'
  BY <1>a, <1>4 DEF subscribe, HubT
<1>5. ASSUME NEW c \in Conns, Receive(c) PROVE HubT'
  <2>1. /\ channel[c] # << >> /\ channel' = [channel EXCEPT ![c] = Tail(@)]
        /\ UNCHANGED <<history, watchers, closed>>
    BY <1>5 DEF Receive
  <2>2. channel[c] \in Seq(1 .. MaxRev) /\ Len(channel[c]) <= ChanCap
    BY <1>a DEF HubT
  <2>3. Tail(channel[c]) \in Seq(1 .. MaxRev) /\ Len(Tail(channel[c])) <= ChanCap
    <3>1. /\ Tail(channel[c]) \in Seq(1 .. MaxRev)
          /\ Len(channel[c]) \in Nat /\ Len(Tail(channel[c])) = Len(channel[c]) - 1
      BY <2>1, <2>2, HeadTail
    <3> QED
      BY <2>2, <3>1, Constants
  <2> QED
    BY <1>a, <2>1, <2>3 DEF HubT
<1>6. ASSUME NEW c \in Conns, ReceiveClosed(c) \/ Leave(c) PROVE HubT'
  <2>1. /\ channel' = [channel EXCEPT ![c] = << >>] /\ history' = history
        /\ watchers' \subseteq watchers /\ closed' \subseteq Conns
    BY <1>a, <1>6 DEF ReceiveClosed, Leave, return, HubT
  <2>2. << >> \in Seq(1 .. MaxRev) /\ Len(<< >>) <= ChanCap
    BY Constants
  <2> QED
    BY <1>a, <2>1, <2>2 DEF HubT
<1>7. ASSUME UNCHANGED hub PROVE HubT'
  BY <1>a, <1>7 DEF HubT, hub
<1>8. \/ Publish \/ CloseSlow
      \/ \E c \in Conns : Send(c) \/ subscribe(c) \/ Receive(c) \/ ReceiveClosed(c) \/ Leave(c)
      \/ UNCHANGED hub
  BY DEF Next, RunLoop, ForwardLoop, Handler, ApplyEntry, EmitReady, TakeReady, SendOnClosed, ConnectExpired,
         ConnectSnapshot, ConnectReplay, ConnectLive, ReadRevision, SendSnapshot, Finished, vars
<1> QED
  BY <1>1, <1>2, <1>3, <1>4, <1>5, <1>6, <1>7, <1>8

\* The events that are replayed, and the cursor that they leave the client at.
LEMMA Replay ==
  ASSUME HubT, NEW since \in Rev
  PROVE  /\ {history[i] : i \in replaySince(since)} \subseteq 1 .. MaxRev
         /\ replaySince(since) # {} =>
              /\ Max(replaySince(since)) \in replaySince(since)
              /\ \A i \in replaySince(since) : i <= Max(replaySince(since))
              /\ history[Max(replaySince(since))] \in 1 .. MaxRev
<1>1. history \in Seq(1 .. MaxRev)
  BY DEF HubT
<1>2. Len(history) \in Nat /\ DOMAIN history = 1 .. Len(history)
  BY <1>1, LenProperties
<1>3. replaySince(since) \in SUBSET (1 .. Len(history))
  BY <1>2 DEF replaySince
<1>4. ASSUME NEW i \in replaySince(since) PROVE history[i] \in 1 .. MaxRev
  BY <1>1, <1>3, ElementOfSeq
<1>5. replaySince(since) \in SUBSET Nat /\ \A i \in replaySince(since) : i <= Len(history)
  BY <1>2, <1>3
<1>6. ASSUME replaySince(since) # {}
      PROVE  /\ Max(replaySince(since)) \in replaySince(since)
             /\ \A i \in replaySince(since) : i <= Max(replaySince(since))
  BY <1>2, <1>5, <1>6, MaxProperties
<1> QED
  BY <1>4, <1>6

\* The connections keep their types.
LEMMA StreamsPreserved ==
  ASSUME TypeOK, [Next]_vars
  PROVE  StreamT'
<1>a. LoopT /\ HubT /\ StreamT
  BY DEF TypeOK
<1>b. 1 .. latest \subseteq 1 .. MaxRev /\ 1 .. stored \subseteq 1 .. MaxRev /\ stored \in Rev /\ applied \in Rev
  BY <1>a, LatestRev, Constants DEF LoopT, Rev
<1>1. ASSUME NEW c \in Conns, NEW since \in Rev, ConnectExpired(c, since) \/ ConnectSnapshot(c, since)
      PROVE  StreamT'
  BY <1>a, <1>1 DEF ConnectExpired, ConnectSnapshot, subscribe, StreamT
<1>2. ASSUME NEW c \in Conns, NEW since \in Rev, ConnectReplay(c, since) PROVE StreamT'
  <2> DEFINE r == replaySince(since)
             x == IF r = {} THEN since ELSE history[Max(r)]
             k == (1 .. since) \cup {history[i] : i \in r}
  <2>1. x \in Rev
    BY <1>a, Replay, Revisions
  <2>2. k \in SUBSET (1 .. MaxRev)
    BY <1>a, Replay, Constants DEF Rev
  <2>3. /\ pc' = [pc EXCEPT ![c] = "streaming"] /\ cur' = [cur EXCEPT ![c] = x]
        /\ known' = [known EXCEPT ![c] = k] /\ UNCHANGED <<snapRev, panicked>>
    BY <1>2 DEF ConnectReplay, subscribe
  <2> HIDE DEF x, k
  <2> QED
    BY <1>a, <2>1, <2>2, <2>3 DEF StreamT
<1>3. ASSUME NEW c \in Conns, ConnectLive(c) PROVE StreamT'
  BY <1>a, <1>b, <1>3 DEF ConnectLive, subscribe, StreamT
<1>4. ASSUME NEW c \in Conns, ReadRevision(c) PROVE StreamT'
  BY <1>a, <1>b, <1>4 DEF ReadRevision, StreamT
<1>5. ASSUME NEW c \in Conns, SendSnapshot(c) PROVE StreamT'
  BY <1>a, <1>b, <1>5, Revisions DEF SendSnapshot, StreamT
<1>6. ASSUME NEW c \in Conns, Receive(c) PROVE StreamT'
  <2>1. channel[c] \in Seq(1 .. MaxRev) /\ channel[c] # << >>
    BY <1>a, <1>6 DEF HubT, Receive
  <2>2. Head(channel[c]) \in 1 .. MaxRev /\ Head(channel[c]) \in Rev
    BY <2>1, HeadTail, Revisions
  <2>3. /\ \/ UNCHANGED <<cur, known>>
           \/ /\ cur' = [cur EXCEPT ![c] = Head(channel[c])]
              /\ known' = [known EXCEPT ![c] = @ \cup {Head(channel[c])}]
        /\ UNCHANGED <<pc, snapRev, panicked>>
    BY <1>6 DEF Receive
  <2> QED
    BY <1>a, <2>2, <2>3 DEF StreamT
<1>7. ASSUME NEW c \in Conns, ReceiveClosed(c) \/ Leave(c) PROVE StreamT'
  BY <1>a, <1>7, Revisions DEF ReceiveClosed, Leave, return, StreamT
<1>8. ASSUME NEW c \in Conns, SendOnClosed(c) PROVE StreamT'
  BY <1>a, <1>8 DEF SendOnClosed, stream, StreamT
<1>9. ASSUME UNCHANGED <<stream, panicked>> PROVE StreamT'
  BY <1>a, <1>9 DEF stream, StreamT
<1>10. \/ \E c \in Conns :
            \/ \E since \in Rev : \/ ConnectExpired(c, since) \/ ConnectSnapshot(c, since)
                                  \/ ConnectReplay(c, since)
            \/ ConnectLive(c) \/ ReadRevision(c) \/ SendSnapshot(c) \/ Receive(c) \/ ReceiveClosed(c)
            \/ Leave(c) \/ SendOnClosed(c)
       \/ UNCHANGED <<stream, panicked>>
  BY DEF Next, RunLoop, ForwardLoop, Handler, ApplyEntry, EmitReady, TakeReady, Publish, Send, CloseSlow,
         Finished, vars
<1> QED
  BY <1>1, <1>2, <1>3, <1>4, <1>5, <1>6, <1>7, <1>8, <1>9, <1>10

\* The initial state.
LEMMA InitTypes == Init => TypeOK /\ IdleInv
<1> SUFFICES ASSUME Init PROVE TypeOK /\ IdleInv
  OBVIOUS
<1>1. LoopT /\ PubT /\ IdleInv
  BY Revisions DEF Init, LoopT, PubT, IdleInv, Idle
<1>2. HubT
  BY Constants DEF Init, HubT
<1>3. StreamT
  BY Revisions DEF Init, StreamT
<1> QED
  BY <1>1, <1>2, <1>3 DEF TypeOK

\* The types hold in every reachable state, whether or not a Ready is dropped.
LEMMA TypesInvariant == Spec => [](TypeOK /\ IdleInv)
<1>1. TypeOK /\ IdleInv /\ [Next]_vars => (TypeOK /\ IdleInv)'
  BY LoopsPreserved, HubPreserved, StreamsPreserved DEF TypeOK
<1> QED
  BY InitTypes, <1>1, PTL DEF Spec

\* WatchHub is type correct, for any capacities and also when Readys are
\* dropped: the history and the channels keep to their capacity.
THEOREM TypeCorrect == Spec => []TypeOK
BY TypesInvariant, PTL

-----------------------------------------------------------------------------
(* The events are numbered without a gap on their way to the history, as   *)
(* long as no Ready is dropped.                                            *)

\* Every Ready that is emitted finds room in the channel.
NoDrop == [][applied' # applied => Len(readyCh) < ReadyCap]_vars

\* The revision of the last entry of a Ready.
End(r) == r[1] + Len(r) - 1

\* The Readys in q carry the revisions from a + 1 to b, in order.
Chain(q, a, b) ==
  /\ q = << >> => a = b
  /\ q # << >> => q[1][1] = a + 1 /\ End(q[Len(q)]) = b
  /\ \A j \in 1 .. Len(q) :
       /\ Len(q[j]) >= 1 /\ End(q[j]) <= b
       /\ \A i \in 1 .. Len(q[j]) : q[j][i] = q[j][1] + i - 1
  /\ \A j \in 1 .. Len(q) - 1 : q[j + 1][1] = End(q[j]) + 1

\* The last revision that the forwarding loop has taken from the channel.
taken == latest + Len(pub.todo)

\* The history ends with the latest revision, the Ready at hand goes on from
\* there, and the Readys in the channel go on from that one to the applied
\* index.
LogInv ==
  /\ \A i \in 1 .. Len(history) : history[i] = latest - Len(history) + i
  /\ \A i \in 1 .. Len(pub.todo) : pub.todo[i] = latest + i
  /\ taken <= applied
  /\ Chain(readyCh, taken, applied)

\* A Ready with the next n revisions goes to the end of the channel.
LEMMA ChainAppend ==
  ASSUME NEW q \in Seq(Seq(1 .. MaxRev)), NEW r \in Seq(1 .. MaxRev), NEW a \in Nat, NEW b \in Nat,
         Chain(q, a, b), Len(r) >= 1, \A i \in 1 .. Len(r) : r[i] = b + i
  PROVE  Chain(Append(q, r), a, b + Len(r))
<1> DEFINE s == Append(q, r)
           e == b + Len(r)
<1>1. /\ s \in Seq(Seq(1 .. MaxRev)) /\ Len(q) \in Nat /\ Len(s) = Len(q) + 1
      /\ \A i \in 1 .. Len(q) : s[i] = q[i]
      /\ s[Len(q) + 1] = r
      /\ s # << >>
  <2> DEFINE R == Seq(1 .. MaxRev)
  <2> HIDE DEF R
  <2>1. q \in Seq(R) /\ r \in R
    BY DEF R
  <2>2. /\ s \in Seq(R) /\ Len(q) \in Nat /\ Len(s) = Len(q) + 1
        /\ \A i \in 1 .. Len(q) : s[i] = q[i]
        /\ s[Len(q) + 1] = r
        /\ s # << >>
    BY <2>1, OneMore
  <2> QED
    BY <2>2 DEF R
<1>2. Len(r) \in Nat /\ r[1] = b + 1 /\ End(r) = e
  <2>1. Len(r) \in Nat
    BY LenProperties
  <2>2. r[1] = b + 1
    BY <2>1
  <2> QED
    BY <2>1, <2>2 DEF End
<1> HIDE DEF s
<1>3. q # << >> => Len(q) >= 1
  BY <1>1, EmptySeq
<1>4. s[1][1] = a + 1 /\ End(s[Len(s)]) = e
  <2>1. CASE q = << >>
    BY <1>1, <1>2, <2>1, EmptySeq DEF Chain
  <2>2. CASE q # << >>
    <3>1. 1 \in 1 .. Len(q) /\ s[1] = q[1] /\ s[Len(s)] = r
      BY <1>1, <1>3, <2>2
    <3>2. q[1][1] = a + 1
      BY <2>2 DEF Chain
    <3> QED
      BY <1>2, <3>1, <3>2
  <2> QED
    BY <2>1, <2>2
<1>5. ASSUME NEW j \in 1 .. Len(s)
      PROVE  /\ Len(s[j]) >= 1 /\ End(s[j]) <= e
             /\ \A i \in 1 .. Len(s[j]) : s[j][i] = s[j][1] + i - 1
  <2>1. CASE j = Len(s)
    <3>1. s[j] = r
      BY <1>1, <2>1
    <3>2. e \in Int
      BY <1>2
    <3>3. \A i \in 1 .. Len(r) : r[i] = r[1] + i - 1
      <4>1. ASSUME NEW i \in 1 .. Len(r)
            PROVE  r[i] = r[1] + i - 1
        <5>1. r[i] = b + i
          OBVIOUS
        <5> QED
          BY <1>2, <5>1
      <4> QED
        BY <4>1
    <3>4. End(r) <= e
      BY <1>2, <3>2
    <3> QED
      BY <3>1, <3>3, <3>4
  <2>2. CASE j \in 1 .. Len(q)
    <3>1. s[j] = q[j] /\ q[j] \in Seq(1 .. MaxRev)
      BY <1>1, <2>2, ElementOfSeq
    <3>2. Len(q[j]) \in Nat /\ Len(q[j]) >= 1 /\ q[j][1] \in Nat
      <4>1. Len(q[j]) \in Nat /\ Len(q[j]) >= 1
        <5>1. Len(q[j]) >= 1
          BY <2>2 DEF Chain
        <5> QED
          BY <3>1, <5>1, LenProperties
      <4>2. q[j][1] \in 1 .. MaxRev
        <5>1. 1 \in 1 .. Len(q[j])
          BY <4>1
        <5> QED
          BY <3>1, <5>1, ElementOfSeq
      <4>3. 1 .. MaxRev \subseteq Nat
        BY Constants
      <4> QED
        BY <4>1, <4>2, <4>3
    <3>3. End(q[j]) <= e
      <4>1. End(q[j]) <= b
        BY <2>2 DEF Chain
      <4>2. End(q[j]) \in Int
        BY <3>2 DEF End
      <4> QED
        BY <1>2, <4>1, <4>2
    <3> QED
      BY <2>2, <3>1, <3>2, <3>3 DEF Chain
  <2> QED
    BY <1>1, <2>1, <2>2
<1>6. ASSUME NEW j \in 1 .. Len(s) - 1 PROVE s[j + 1][1] = End(s[j]) + 1
  <2>1. CASE j = Len(q)
    <3>1. q # << >> /\ End(q[Len(q)]) = b
      BY <1>1, <2>1, EmptySeq DEF Chain
    <3> QED
      BY <1>1, <1>2, <2>1, <3>1
  <2>2. CASE j \in 1 .. Len(q) - 1
    <3>1. j \in 1 .. Len(q) /\ j + 1 \in 1 .. Len(q)
      BY <1>1, <2>2
    <3>2. s[j] = q[j] /\ s[j + 1] = q[j + 1]
      BY <1>1, <3>1
    <3> QED
      BY <2>2, <3>2 DEF Chain
  <2> QED
    BY <1>1, <2>1, <2>2
<1> QED
  BY <1>1, <1>4, <1>5, <1>6 DEF Chain, s

\* The first Ready of the channel carries the revisions after a, and the rest
\* of the channel goes on from there.
LEMMA ChainTail ==
  ASSUME NEW q \in Seq(Seq(1 .. MaxRev)), NEW a \in Nat, NEW b \in Nat, Chain(q, a, b), q # << >>
  PROVE  /\ Len(Head(q)) \in Nat /\ a + Len(Head(q)) <= b
         /\ \A i \in 1 .. Len(Head(q)) : Head(q)[i] = a + i
         /\ Chain(Tail(q), a + Len(Head(q)), b)
<1> DEFINE t == Tail(q)
           e == a + Len(Head(q))
<1>1. /\ Head(q) \in Seq(1 .. MaxRev) /\ Head(q) = q[1] /\ Len(q) \in Nat /\ Len(q) >= 1
      /\ t \in Seq(Seq(1 .. MaxRev)) /\ Len(t) = Len(q) - 1
      /\ \A i \in 1 .. Len(q) - 1 : t[i] = q[i + 1]
  BY HeadTail
<1>2. Len(q[1]) \in Nat
  BY <1>1, LenProperties
<1>3. /\ q[1][1] = a + 1 /\ End(q[1]) <= b
      /\ \A i \in 1 .. Len(q[1]) : q[1][i] = a + i
  BY <1>1, <1>2 DEF Chain
<1>4. End(q[1]) = e
  BY <1>1, <1>2, <1>3 DEF End
<1> HIDE DEF t
<1>5. ASSUME t = << >> PROVE e = b
  <2>1. Len(q) = 1
    BY <1>1, <1>5, EmptySeq
  <2> QED
    BY <1>4, <2>1 DEF Chain
<1>6. ASSUME t # << >> PROVE t[1][1] = e + 1 /\ End(t[Len(t)]) = b
  <2>1. Len(q) >= 2
    BY <1>1, <1>6, EmptySeq
  <2>2. t[1] = q[2] /\ t[Len(t)] = q[Len(q)]
    BY <1>1, <2>1
  <2>3. q[2][1] = End(q[1]) + 1
    BY <1>1, <2>1 DEF Chain
  <2> QED
    BY <1>4, <2>2, <2>3 DEF Chain
<1>7. ASSUME NEW j \in 1 .. Len(t)
      PROVE  /\ Len(t[j]) >= 1 /\ End(t[j]) <= b
             /\ \A i \in 1 .. Len(t[j]) : t[j][i] = t[j][1] + i - 1
  <2>1. t[j] = q[j + 1] /\ j + 1 \in 1 .. Len(q)
    BY <1>1
  <2> QED
    BY <2>1 DEF Chain
<1>8. ASSUME NEW j \in 1 .. Len(t) - 1 PROVE t[j + 1][1] = End(t[j]) + 1
  <2>1. PICK k \in 1 .. Len(q) - 1 : k = j + 1
    BY <1>1
  <2>2. t[j] = q[k] /\ t[k] = q[k + 1]
    <3>1. j \in 1 .. Len(q) - 1
      BY <1>1
    <3> QED
      BY <1>1, <2>1, <3>1
  <2>3. q[k + 1][1] = End(q[k]) + 1
    BY <2>1 DEF Chain
  <2> QED
    BY <2>1, <2>2, <2>3
<1>9. Chain(t, e, b)
  BY <1>5, <1>6, <1>7, <1>8 DEF Chain
<1> QED
  BY <1>1, <1>2, <1>3, <1>4, <1>9 DEF t

\* What Publish does to the last event published and to the history.
LEMMA PublishLast ==
  ASSUME PubT, HubT, Publish
  PROVE  /\ Head(pub.todo) \in 1 .. MaxRev /\ latest' = Head(pub.todo)
         /\ Len(history') \in Nat /\ history'[Len(history')] = Head(pub.todo)
         /\ \A i \in 1 .. Len(history') - 1 :
              \E k \in 1 .. Len(history) : k = Len(history) + 1 - Len(history') + i /\ history'[i] = history[k]
<1>1. pub.todo \in Seq(1 .. MaxRev) /\ pub.todo # << >> /\ history' = appendHistory(Head(pub.todo))
  BY DEF PubT, Publish
<1>2. Head(pub.todo) \in 1 .. MaxRev
  BY <1>1, HeadTail
<1> DEFINE q == appendHistory(Head(pub.todo))
<1>3. /\ q \in Seq(1 .. MaxRev) /\ Len(q) \in 1 .. HistoryCap
      /\ q[Len(q)] = Head(pub.todo)
      /\ \A i \in 1 .. Len(q) - 1 :
           /\ q[i] = history[Len(history) + 1 - Len(q) + i]
           /\ Len(history) + 1 - Len(q) + i \in 1 .. Len(history)
  BY <1>2, HistoryGrows
<1>4. history' = q
  BY <1>1
<1> HIDE DEF q
<1>5. q # << >> /\ Len(q) \in Nat
  BY <1>3, EmptySeq
<1>6. latest' = Last(q)
  BY <1>4, <1>5 DEF latest
<1>7. latest' = Head(pub.todo)
  BY <1>3, <1>6 DEF Last
<1> QED
  BY <1>2, <1>3, <1>4, <1>5, <1>7

\* ... and what it does as long as the events are numbered without a gap.
LEMMA PublishLatest ==
  ASSUME PubT, HubT, LogInv, Publish
  PROVE  /\ Head(pub.todo) = latest + 1 /\ latest' = latest + 1
         /\ \A i \in 1 .. Len(history') : history'[i] = latest' - Len(history') + i
<1>1. pub.todo \in Seq(1 .. MaxRev) /\ pub.todo # << >>
  BY DEF PubT, Publish
<1>2. Head(pub.todo) = pub.todo[1] /\ Len(pub.todo) >= 1 /\ Len(pub.todo) \in Nat
  BY <1>1, HeadTail
<1>3. latest \in Nat /\ Len(history) \in Nat
  BY LatestRev, Revisions, LenProperties DEF HubT
<1>4. Head(pub.todo) = latest + 1
  <2>1. 1 \in 1 .. Len(pub.todo)
    BY <1>2
  <2> QED
    BY <1>2, <2>1 DEF LogInv
<1>5. /\ latest' = Head(pub.todo) /\ Len(history') \in Nat /\ history'[Len(history')] = Head(pub.todo)
      /\ \A i \in 1 .. Len(history') - 1 :
           \E k \in 1 .. Len(history) : k = Len(history) + 1 - Len(history') + i /\ history'[i] = history[k]
  BY PublishLast
<1>6. ASSUME NEW i \in 1 .. Len(history') PROVE history'[i] = latest' - Len(history') + i
  <2>1. CASE i = Len(history')
    BY <1>3, <1>4, <1>5, <2>1
  <2>2. CASE i \in 1 .. Len(history') - 1
    <3>1. PICK k \in 1 .. Len(history) : k = Len(history) + 1 - Len(history') + i /\ history'[i] = history[k]
      BY <1>5, <2>2
    <3>2. history[k] = latest - Len(history) + k
      BY DEF LogInv
    <3> QED
      BY <1>3, <1>4, <1>5, <3>1, <3>2
  <2> QED
    BY <1>5, <2>1, <2>2
<1> QED
  BY <1>4, <1>5, <1>6

\* The numbering survives every step that drops no Ready.
LEMMA LogPreserved ==
  ASSUME TypeOK, LogInv, [Next]_vars, applied' # applied => Len(readyCh) < ReadyCap
  PROVE  LogInv'
<1>a. LoopT /\ PubT /\ HubT
  BY DEF TypeOK
<1>b. /\ applied \in Nat /\ stored \in Nat /\ latest \in Nat
      /\ pub.todo \in Seq(1 .. MaxRev) /\ readyCh \in Seq(Seq(1 .. MaxRev))
  BY <1>a, LatestRev, Revisions, Constants DEF LoopT, PubT, Rev
<1>c. Len(pub.todo) \in Nat /\ taken \in Nat
  BY <1>b, LenProperties DEF taken
<1>1. ASSUME EmitReady PROVE LogInv'
  <2> DEFINE r == [i \in 1 .. stored - applied |-> applied + i]
  <2>1. /\ applied < stored /\ applied' = stored /\ history' = history /\ pub' = pub
        /\ readyCh' = Append(readyCh, r)
    <3>1. applied < stored /\ applied' = stored /\ history' = history /\ pub' = pub
      BY <1>1 DEF EmitReady, hub
    <3>2. applied' # applied
      BY <1>b, <3>1
    <3> QED
      BY <1>1, <3>1, <3>2 DEF EmitReady
  <2>2. r \in Seq(1 .. MaxRev) /\ Len(r) = stored - applied
    BY <1>a, <2>1, NewReady
  <2>3. \A i \in 1 .. Len(r) : r[i] = applied + i
    BY <2>2
  <2>4. Len(r) >= 1 /\ applied + Len(r) = stored
    BY <1>b, <2>1, <2>2
  <2> HIDE DEF r
  <2>5. Chain(readyCh, taken, applied)
    BY DEF LogInv
  <2>6. Chain(readyCh', taken, applied')
    BY <1>b, <1>c, <2>1, <2>2, <2>3, <2>4, <2>5, ChainAppend
  <2>7. latest' = latest /\ taken' = taken
    BY <2>1 DEF latest, taken
  <2>8. taken <= applied'
    BY <1>b, <1>c, <2>1 DEF LogInv
  <2> QED
    BY <2>1, <2>6, <2>7, <2>8 DEF LogInv
<1>2. ASSUME TakeReady PROVE LogInv'
  <2>1. /\ readyCh # << >> /\ pub = Idle /\ pub' = [pub EXCEPT !.todo = Head(readyCh)]
        /\ readyCh' = Tail(readyCh) /\ history' = history /\ applied' = applied
    BY <1>2 DEF TakeReady, hub
  <2>2. taken = latest
    BY <1>b, <2>1 DEF taken, Idle
  <2>3. Chain(readyCh, latest, applied)
    BY <2>2 DEF LogInv
  <2>4. /\ Len(Head(readyCh)) \in Nat /\ latest + Len(Head(readyCh)) <= applied
        /\ \A i \in 1 .. Len(Head(readyCh)) : Head(readyCh)[i] = latest + i
        /\ Chain(Tail(readyCh), latest + Len(Head(readyCh)), applied)
    BY <1>b, <2>1, <2>3, ChainTail
  <2>5. pub'.todo = Head(readyCh)
    BY <1>a, <2>1 DEF PubT
  <2>6. latest' = latest /\ taken' = latest + Len(Head(readyCh))
    BY <2>1, <2>5 DEF latest, taken
  <2> QED
    BY <2>1, <2>4, <2>5, <2>6 DEF LogInv
<1>3. ASSUME Publish PROVE LogInv'
  <2>1. /\ pub.todo # << >> /\ pub'.todo = Tail(pub.todo) /\ UNCHANGED <<applied, readyCh>>
    BY <1>3 DEF Publish, loop
  <2>2. /\ latest' = latest + 1
        /\ \A i \in 1 .. Len(history') : history'[i] = latest' - Len(history') + i
    BY <1>3, <1>a, PublishLatest
  <2>3. /\ Len(Tail(pub.todo)) = Len(pub.todo) - 1
        /\ \A i \in 1 .. Len(pub.todo) - 1 : Tail(pub.todo)[i] = pub.todo[i + 1]
    BY <1>b, <2>1, HeadTail
  <2>4. taken' = taken
    <3>1. taken' = latest' + Len(Tail(pub.todo))
      BY <2>1 DEF taken
    <3>2. taken = latest + Len(pub.todo)
      BY DEF taken
    <3>3. PICK a \in Nat, n \in Nat : a = latest /\ n = Len(pub.todo)
      BY <1>b, <1>c
    <3>4. taken' = (a + 1) + (n - 1) /\ taken = a + n
      BY <2>2, <2>3, <3>1, <3>2, <3>3
    <3>5. (a + 1) + (n - 1) = a + n
      OBVIOUS
    <3> QED
      BY <3>4, <3>5
  <2>5. ASSUME NEW i \in 1 .. Len(pub.todo) - 1 PROVE Tail(pub.todo)[i] = latest' + i
    <3>1. i + 1 \in 1 .. Len(pub.todo)
      BY <1>c
    <3>2. pub.todo[i + 1] = latest + (i + 1)
      BY <3>1 DEF LogInv
    <3> QED
      BY <1>b, <2>2, <2>3, <3>2
  <2> QED
    BY <2>1, <2>2, <2>3, <2>4, <2>5 DEF LogInv
<1>4. ASSUME UNCHANGED <<history, pub.todo, applied, readyCh>> PROVE LogInv'
  <2>1. latest' = latest
    BY <1>4 DEF latest
  <2>2. taken' = taken
    BY <1>4, <2>1 DEF taken
  <2> QED
    BY <1>4, <2>1, <2>2 DEF LogInv
<1>5. \/ EmitReady \/ TakeReady \/ Publish
      \/ CloseSlow \/ \E c \in Conns : Send(c)
      \/ UNCHANGED <<history, pub, applied, readyCh>>
  BY DEF Next, RunLoop, ForwardLoop, Handler, ApplyEntry, SendOnClosed, ConnectExpired, ConnectSnapshot,
         ConnectReplay, ConnectLive, subscribe, ReadRevision, SendSnapshot, Receive, ReceiveClosed, Leave, Finished,
         vars, hub, loop
<1>6. ASSUME CloseSlow \/ \E c \in Conns : Send(c) PROVE UNCHANGED <<history, pub.todo, applied, readyCh>>
  BY <1>6, <1>a DEF CloseSlow, Send, loop, PubT
<1> QED
  BY <1>1, <1>2, <1>3, <1>4, <1>5, <1>6

-----------------------------------------------------------------------------
(* The connections. *)

\* The event that Publish is sending, and the watchers it has yet to serve:
\* they are in the table unless they have gone.
PubInv ==
  /\ IdleInv
  /\ pub.rev # 0 => pub.rev = latest
  /\ pub.targets \cap pub.slow = {}
  /\ pub.targets \ closed \subseteq watchers

\* The revision that a watcher will be sent next.
nextRev(c) == IF c \in pub.targets \cup pub.slow THEN pub.rev ELSE latest + 1

\* The channel of a connection: consecutive revisions, which end just before
\* the next one as long as the connection is in the table.
ChannelInv(c) ==
  /\ pc[c] = "new" => /\ c \notin watchers \cup closed \cup pub.targets \cup pub.slow
                      /\ channel[c] = << >> /\ cur[c] = 0
  /\ \A i \in 1 .. Len(channel[c]) : channel[c][i] = channel[c][1] + i - 1 /\ channel[c][i] <= latest
  /\ c \in watchers => c \notin closed
  /\ c \in watchers /\ channel[c] # << >> => channel[c][Len(channel[c])] = nextRev(c) - 1
  /\ snapRev[c] <= stored

\* What a client knows: everything up to its cursor, everything before its
\* channel, and, with the channel empty, everything before the next event.
KnownInv(c) ==
  pc[c] = "streaming" =>
    /\ 1 .. cur[c] \subseteq known[c]
    /\ channel[c] # << >> => 1 .. channel[c][1] - 1 \subseteq known[c]
    /\ c \in watchers /\ channel[c] = << >> => 1 .. nextRev(c) - 1 \subseteq known[c]

ConnInv(c) == ChannelInv(c) /\ KnownInv(c)

\* A step that gives a connection nothing and takes nothing from it.
Aside(c) ==
  /\ UNCHANGED <<channel[c], pc[c], cur[c], known[c], snapRev[c]>>
  /\ c \in watchers' => c \in watchers /\ c \notin closed' /\ nextRev(c)' = nextRev(c)
  /\ pc[c] = "new" => c \notin closed' \cup pub'.targets \cup pub'.slow
  /\ latest \in Nat /\ latest' \in Nat /\ latest <= latest'
  /\ stored \in Nat /\ stored' \in Nat /\ stored <= stored'

\* Such a step keeps the invariant of the connection.
LEMMA AsideConn ==
  ASSUME NEW c \in Conns, HubT, StreamT, ConnInv(c), Aside(c)
  PROVE  ConnInv(c)'
<1>1. /\ channel'[c] = channel[c] /\ pc'[c] = pc[c] /\ cur'[c] = cur[c] /\ known'[c] = known[c]
      /\ snapRev'[c] = snapRev[c]
      /\ c \in watchers' => c \in watchers /\ c \notin closed' /\ nextRev(c)' = nextRev(c)
  BY DEF Aside
<1>2. channel[c] \in Seq(1 .. MaxRev) /\ snapRev[c] \in Nat
  BY Revisions DEF HubT, StreamT
<1>3. ChannelInv(c)'
  <2>1. pc[c] = "new" => /\ c \notin watchers' \cup closed' \cup pub'.targets \cup pub'.slow
                         /\ channel[c] = << >> /\ cur[c] = 0
    BY DEF Aside, ConnInv, ChannelInv
  <2>2. ASSUME NEW i \in 1 .. Len(channel[c])
        PROVE  channel[c][i] = channel[c][1] + i - 1 /\ channel[c][i] <= latest'
    <3>1. channel[c][i] = channel[c][1] + i - 1 /\ channel[c][i] <= latest
      BY DEF ConnInv, ChannelInv
    <3>2. channel[c][i] \in 1 .. MaxRev
      BY <1>2, ElementOfSeq
    <3> QED
      BY <3>1, <3>2, Constants DEF Aside
  <2>3. snapRev[c] <= stored'
    BY <1>2 DEF ConnInv, ChannelInv, Aside
  <2>4. c \in watchers' /\ channel[c] # << >> => channel[c][Len(channel[c])] = nextRev(c)' - 1
    BY <1>1 DEF ConnInv, ChannelInv
  <2> QED
    BY <1>1, <2>1, <2>2, <2>3, <2>4 DEF ChannelInv
<1>4. KnownInv(c)'
  BY <1>1 DEF ConnInv, KnownInv
<1> QED
  BY <1>3, <1>4 DEF ConnInv

\* The facts about the revisions that the steps of a connection need.
LEMMA Order ==
  ASSUME TypeOK, LogInv
  PROVE  /\ latest \in Nat /\ applied \in Nat /\ stored \in Nat /\ latest <= applied /\ applied <= stored
         /\ \A c \in Conns : /\ channel[c] \in Seq(1 .. MaxRev) /\ Len(channel[c]) \in Nat
                             /\ cur[c] \in Nat /\ snapRev[c] \in Nat
<1>1. LoopT /\ PubT /\ HubT /\ StreamT
  BY DEF TypeOK
<1>2. latest \in Nat /\ applied \in Nat /\ stored \in Nat /\ applied <= stored
  BY <1>1, LatestRev, Constants DEF LoopT, Rev
<1>3. Len(pub.todo) \in Nat
  BY <1>1, LenProperties DEF PubT
<1>4. latest <= applied
  BY <1>2, <1>3 DEF LogInv, taken
<1>5. ASSUME NEW c \in Conns
      PROVE  channel[c] \in Seq(1 .. MaxRev) /\ Len(channel[c]) \in Nat /\ cur[c] \in Nat /\ snapRev[c] \in Nat
  <2>1. channel[c] \in Seq(1 .. MaxRev) /\ cur[c] \in Nat /\ snapRev[c] \in Nat
    BY <1>1, Revisions DEF HubT, StreamT
  <2> QED
    BY <2>1, LenProperties
<1> QED
  BY <1>2, <1>4, <1>5

\* A history that covers everything after a revision: with the replay, the
\* client knows everything that was published.
LEMMA ExactReplay ==
  ASSUME HubT, LogInv, NEW since \in Rev, exact(since)
  PROVE  1 .. latest \subseteq (1 .. since) \cup {history[i] : i \in replaySince(since)}
<1>1. history \in Seq(1 .. MaxRev) /\ history # << >>
  BY DEF HubT, exact
<1>2. /\ Head(history) = history[1] /\ Len(history) \in Nat /\ Len(history) >= 1
      /\ DOMAIN history = 1 .. Len(history)
  BY <1>1, HeadTail, LenProperties
<1>3. latest \in Nat /\ Last(history) = latest /\ since \in Nat
  BY <1>1, LatestRev, Revisions DEF latest
<1>4. history[1] = latest - Len(history) + 1
  BY <1>2, <1>3 DEF LogInv
<1> SUFFICES ASSUME NEW r \in 1 .. latest, r > since
             PROVE  \E i \in replaySince(since) : history[i] = r
  BY <1>3
<1>5. since + 1 >= history[1]
  BY <1>2, <1>3 DEF exact
<1>6. PICK i \in 1 .. Len(history) : i = r - latest + Len(history)
  <2>1. history[1] <= r /\ r <= latest
    BY <1>2, <1>3, <1>4, <1>5
  <2>2. r - latest + Len(history) \in 1 .. Len(history)
    BY <1>2, <1>3, <1>4, <2>1
  <2> QED
    BY <2>2
<1>7. history[i] = latest - Len(history) + i
  BY DEF LogInv
<1>8. history[i] = r
  BY <1>2, <1>3, <1>6, <1>7
<1> QED
  BY <1>2, <1>8 DEF replaySince

\* PubInv survives every step.
LEMMA PubPreserved ==
  ASSUME TypeOK, PubInv, [Next]_vars
  PROVE  PubInv'
<1>a. PubT /\ HubT /\ IdleInv
  BY DEF TypeOK, PubInv
<1>b. IdleInv'
  BY <1>a, LoopsPreserved
<1>c. history' = history => latest' = latest
  BY DEF latest
<1>1. ASSUME Publish PROVE PubInv'
  <2>1. /\ pub'.rev = Head(pub.todo) /\ pub'.targets = watchers /\ pub'.slow = {} /\ UNCHANGED <<watchers, closed>>
    BY <1>1 DEF Publish
  <2>2. latest' = Head(pub.todo)
    BY <1>1, <1>a, PublishLast
  <2> QED
    BY <1>b, <2>1, <2>2 DEF PubInv
<1>2. ASSUME NEW c \in Conns, Send(c) PROVE PubInv'
  <2>1. /\ \/ pub' = [pub EXCEPT !.targets = @ \ {c}]
           \/ pub' = [pub EXCEPT !.targets = @ \ {c}, !.slow = @ \cup {c}]
        /\ UNCHANGED <<history, watchers, closed>>
    BY <1>2 DEF Send
  <2>2. pub'.rev = pub.rev /\ pub'.targets = pub.targets \ {c} /\ pub'.slow \subseteq pub.slow \cup {c}
    BY <1>a, <2>1 DEF PubT
  <2> QED
    BY <1>b, <1>c, <2>1, <2>2 DEF PubInv
<1>3. ASSUME CloseSlow PROVE PubInv'
  <2>1. pub'.rev = 0 /\ pub'.targets = {} /\ history' = history
    BY <1>a, <1>3 DEF CloseSlow, PubT
  <2> QED
    BY <1>b, <2>1 DEF PubInv
<1>4. ASSUME NEW c \in Conns, Leave(c) PROVE PubInv'
  <2>1. watchers' = watchers \ {c} /\ closed' = closed \cup {c} /\ UNCHANGED <<pub, history>>
    BY <1>4 DEF Leave
  <2> QED
    BY <1>b, <1>c, <2>1 DEF PubInv
<1>5. ASSUME watchers \subseteq watchers', closed' = closed, history' = history,
             pub'.rev = pub.rev, pub'.targets = pub.targets, pub'.slow = pub.slow
      PROVE  PubInv'
  BY <1>b, <1>c, <1>5 DEF PubInv
<1>6. ASSUME TakeReady
      PROVE  /\ UNCHANGED <<watchers, closed, history>>
             /\ pub'.rev = pub.rev /\ pub'.targets = pub.targets /\ pub'.slow = pub.slow
  BY <1>6, <1>a DEF TakeReady, hub, PubT
<1>7. \/ Publish \/ CloseSlow \/ TakeReady
      \/ \E c \in Conns : Send(c) \/ Leave(c)
      \/ watchers \subseteq watchers' /\ UNCHANGED <<closed, history, pub>>
  BY DEF Next, RunLoop, ForwardLoop, Handler, ApplyEntry, EmitReady, SendOnClosed, ConnectExpired, ConnectSnapshot,
         ConnectReplay, ConnectLive, subscribe, ReadRevision, SendSnapshot, Receive, ReceiveClosed, Finished,
         vars, hub
<1> QED
  BY <1>1, <1>2, <1>3, <1>4, <1>5, <1>6, <1>7

\* A connection subscribes: it is in the table, with an empty channel, and the
\* next event is the one after the latest.
LEMMA Subscribed ==
  ASSUME TypeOK, LogInv, NEW c \in Conns, ConnInv(c), subscribe(c),
         \/ pc' = [pc EXCEPT ![c] = "rejected"]
         \/ pc' = [pc EXCEPT ![c] = "barrier"]
         \/ /\ pc' = [pc EXCEPT ![c] = "streaming"]
            /\ 1 .. cur'[c] \subseteq known'[c] /\ 1 .. latest \subseteq known'[c]
  PROVE  ConnInv(c)'
<1>1. /\ pc[c] = "new" /\ watchers' = watchers \cup {c}
      /\ UNCHANGED <<stored, pub, history, channel, closed, snapRev>>
  BY DEF subscribe, loop
<1>2. c \notin closed \cup pub.targets \cup pub.slow /\ channel[c] = << >> /\ snapRev[c] <= stored
  BY <1>1 DEF ConnInv, ChannelInv
<1>3. latest' = latest /\ nextRev(c)' = latest + 1
  BY <1>1, <1>2 DEF latest, nextRev
<1>4. pc'[c] \in {"rejected", "barrier", "streaming"}
  BY DEF TypeOK, StreamT
<1>5. ChannelInv(c)'
  BY <1>1, <1>2, <1>4, Order, EmptySeq DEF ChannelInv
<1>6. ASSUME pc'[c] = "streaming" PROVE 1 .. cur'[c] \subseteq known'[c] /\ 1 .. latest \subseteq known'[c]
  BY <1>6 DEF TypeOK, StreamT
<1>7. nextRev(c)' - 1 = latest
  BY <1>3, Order
<1>8. KnownInv(c)'
  BY <1>1, <1>2, <1>6, <1>7 DEF KnownInv
<1> QED
  BY <1>5, <1>8 DEF ConnInv

\* Publish puts its event into the channel of a connection.
LEMMA SendConn ==
  ASSUME TypeOK, LogInv, PubInv, NEW c \in Conns, ConnInv(c), Send(c), channel' # channel
  PROVE  ConnInv(c)'
<1> DEFINE s == Append(channel[c], pub.rev)
<1>1. /\ c \in pub.targets /\ c \notin closed
      /\ channel' = [channel EXCEPT ![c] = s] /\ pub' = [pub EXCEPT !.targets = @ \ {c}]
      /\ UNCHANGED <<stored, history, watchers, closed, pc, cur, known, snapRev>>
  BY DEF Send, loop, stream
<1>2. channel'[c] = s /\ pub'.targets = pub.targets \ {c} /\ pub'.slow = pub.slow /\ pub'.rev = pub.rev
  BY <1>1 DEF TypeOK, HubT, PubT
<1>3. c \in watchers /\ c \notin pub.slow /\ pub.rev = latest /\ nextRev(c) = pub.rev /\ pub.rev # 0
  BY <1>1 DEF PubInv, IdleInv, nextRev
<1>4. latest' = latest /\ nextRev(c)' = latest + 1
  BY <1>1, <1>2, <1>3 DEF latest, nextRev
<1>5. latest \in 1 .. MaxRev
  BY <1>3 DEF TypeOK, PubT, Rev
<1>6. /\ s \in Seq(1 .. MaxRev) /\ Len(channel[c]) \in Nat /\ Len(s) = Len(channel[c]) + 1
      /\ \A i \in 1 .. Len(channel[c]) : s[i] = channel[c][i]
      /\ s[Len(channel[c]) + 1] = latest
      /\ s # << >>
  BY <1>3, <1>5, OneMore, Order
<1> HIDE DEF s
<1>7. pc[c] # "new"
  BY <1>1 DEF ConnInv, ChannelInv
<1>8. \A i \in 1 .. Len(channel[c]) : channel[c][i] = channel[c][1] + i - 1 /\ channel[c][i] <= latest
  BY DEF ConnInv, ChannelInv
<1>9. channel[c] # << >> => channel[c][Len(channel[c])] = latest - 1 /\ Len(channel[c]) >= 1 /\ channel[c][1] \in Nat
  <2>1. channel[c] # << >> => channel[c][Len(channel[c])] = latest - 1
    BY <1>3 DEF ConnInv, ChannelInv
  <2>2. channel[c] # << >> => Len(channel[c]) >= 1
    BY <1>6, Order, EmptySeq
  <2>3. ASSUME channel[c] # << >> PROVE channel[c][1] \in 1 .. MaxRev
    <3>1. channel[c] \in Seq(1 .. MaxRev) /\ 1 \in 1 .. Len(channel[c])
      BY <1>6, <2>2, <2>3, Order
    <3> QED
      BY <3>1, ElementOfSeq
  <2> QED
    BY <2>1, <2>2, <2>3, Constants
<1>10. ASSUME NEW i \in 1 .. Len(s) PROVE s[i] = s[1] + i - 1 /\ s[i] <= latest
  <2>1. CASE channel[c] = << >>
    <3>1. Len(channel[c]) = 0
      BY <2>1
    <3> QED
      BY <1>5, <1>6, <3>1, Constants
  <2>2. CASE channel[c] # << >>
    <3>1. s[1] = channel[c][1]
      BY <1>6, <1>9, <2>2
    <3>2. channel[c][Len(channel[c])] = channel[c][1] + Len(channel[c]) - 1
      <4>1. Len(channel[c]) \in 1 .. Len(channel[c])
        BY <1>6, <1>9, <2>2
      <4> QED
        BY <1>8, <4>1
    <3>3. CASE i = Len(s)
      <4>1. s[i] = latest /\ i = Len(channel[c]) + 1
        BY <1>6, <3>3
      <4>2. latest - 1 = channel[c][1] + Len(channel[c]) - 1 /\ channel[c][1] \in Nat
        BY <1>9, <2>2, <3>2
      <4>3. PICK z \in Nat, x \in Nat, n \in Nat : z = latest /\ x = channel[c][1] /\ n = Len(channel[c])
        BY <1>6, <4>2, Order
      <4>4. z - 1 = x + n - 1
        BY <4>2, <4>3
      <4>5. z = x + (n + 1) - 1
        BY <4>4
      <4> QED
        BY <3>1, <4>1, <4>3, <4>5
    <3>4. CASE i \in 1 .. Len(channel[c])
      BY <1>6, <1>8, <3>1, <3>4
    <3> QED
      BY <1>6, <3>3, <3>4
  <2> QED
    BY <2>1, <2>2
<1>11. s[Len(s)] = nextRev(c)' - 1
  BY <1>4, <1>5, <1>6, Constants
<1>12. ChannelInv(c)'
  <2>1. c \notin closed' /\ snapRev'[c] <= stored'
    BY <1>1 DEF ConnInv, ChannelInv
  <2>2. pc'[c] # "new"
    BY <1>1, <1>7
  <2> QED
    BY <1>2, <1>4, <1>10, <1>11, <2>1, <2>2 DEF ChannelInv
<1>13. pc[c] = "streaming" => 1 .. s[1] - 1 \subseteq known[c]
  <2>1. CASE channel[c] = << >>
    <3>1. s[1] = latest
      BY <1>6, <2>1
    <3> QED
      BY <1>3, <2>1, <3>1 DEF ConnInv, KnownInv
  <2>2. CASE channel[c] # << >>
    <3>1. s[1] = channel[c][1]
      BY <1>6, <1>9, <2>2
    <3> QED
      BY <2>2, <3>1 DEF ConnInv, KnownInv
  <2> QED
    BY <2>1, <2>2
<1>14. KnownInv(c)'
  <2>1. pc'[c] = pc[c] /\ cur'[c] = cur[c] /\ known'[c] = known[c]
    BY <1>1
  <2> QED
    BY <1>2, <1>6, <1>13, <2>1 DEF ConnInv, KnownInv
<1> QED
  BY <1>12, <1>14 DEF ConnInv

\* A client takes the first event of its channel.
LEMMA ReceiveConn ==
  ASSUME TypeOK, LogInv, NEW c \in Conns, ConnInv(c), Receive(c)
  PROVE  ConnInv(c)'
<1> DEFINE q == channel[c]
           t == Tail(channel[c])
<1>1. /\ pc[c] = "streaming" /\ q # << >> /\ channel' = [channel EXCEPT ![c] = t]
      /\ UNCHANGED <<stored, pub, history, watchers, closed, pc, snapRev>>
  BY DEF Receive, loop
<1>2. channel'[c] = t /\ latest' = latest /\ nextRev(c)' = nextRev(c)
  BY <1>1 DEF TypeOK, HubT, latest, nextRev
<1>3. /\ Head(q) \in 1 .. MaxRev /\ Head(q) = q[1] /\ Len(q) \in Nat /\ Len(q) >= 1
      /\ t \in Seq(1 .. MaxRev) /\ Len(t) = Len(q) - 1
      /\ \A i \in 1 .. Len(q) - 1 : t[i] = q[i + 1]
  BY <1>1, HeadTail, Order
<1>4. q[1] \in Nat
  BY <1>3, Constants
<1>5. /\ \A i \in 1 .. Len(q) : q[i] = q[1] + i - 1 /\ q[i] <= latest
      /\ c \in watchers => c \notin closed /\ q[Len(q)] = nextRev(c) - 1
      /\ snapRev[c] <= stored
  BY <1>1 DEF ConnInv, ChannelInv
<1>6. 1 .. cur[c] \subseteq known[c] /\ 1 .. q[1] - 1 \subseteq known[c]
  BY <1>1 DEF ConnInv, KnownInv
<1>7. 1 .. cur'[c] \subseteq known'[c] /\ 1 .. q[1] \subseteq known'[c]
  <2>1. CASE Head(q) <= cur[c]
    <3>1. cur' = cur /\ known' = known
      BY <2>1 DEF Receive
    <3> QED
      BY <1>3, <1>4, <1>6, <2>1, <3>1, Order
  <2>2. CASE ~(Head(q) <= cur[c])
    <3>1. cur' = [cur EXCEPT ![c] = q[1]] /\ known' = [known EXCEPT ![c] = @ \cup {q[1]}]
      BY <1>3, <2>2 DEF Receive
    <3>2. cur'[c] = q[1] /\ known'[c] = known[c] \cup {q[1]}
      BY <3>1 DEF TypeOK, StreamT
    <3> HIDE DEF q
    <3> QED
      BY <1>4, <1>6, <3>2
  <2> QED
    BY <2>1, <2>2
<1> HIDE DEF q, t
<1>8. ASSUME NEW i \in 1 .. Len(t) PROVE t[i] = q[1] + i /\ t[i] <= latest
  <2>1. PICK k \in 1 .. Len(q) : k = i + 1 /\ t[i] = q[k]
    <3>1. i \in 1 .. Len(q) - 1 /\ i + 1 \in 1 .. Len(q)
      BY <1>3
    <3> QED
      BY <1>3, <3>1
  <2>2. q[k] = q[1] + k - 1 /\ q[k] <= latest
    BY <1>5
  <2> QED
    BY <1>4, <2>1, <2>2
<1>9. t # << >> => Len(t) >= 1 /\ Len(t) \in Nat /\ t[1] = q[1] + 1 /\ t[Len(t)] = q[Len(q)]
  <2> SUFFICES ASSUME t # << >>
               PROVE  Len(t) >= 1 /\ Len(t) \in Nat /\ t[1] = q[1] + 1 /\ t[Len(t)] = q[Len(q)]
    OBVIOUS
  <2>1. Len(t) >= 1 /\ Len(t) \in Nat
    BY <1>3, EmptySeq, LenProperties
  <2>2. 1 \in 1 .. Len(t) /\ Len(t) \in 1 .. Len(q) - 1 /\ Len(t) + 1 = Len(q)
    BY <1>3, <2>1
  <2> QED
    BY <1>3, <1>8, <2>1, <2>2
<1>10. ChannelInv(c)'
  <2>1. ASSUME NEW i \in 1 .. Len(t) PROVE t[i] = t[1] + i - 1 /\ t[i] <= latest
    <3>1. t # << >>
      BY <1>3, EmptySeq
    <3> QED
      BY <1>4, <1>8, <1>9, <2>1, <3>1
  <2>2. c \in watchers /\ t # << >> => t[Len(t)] = nextRev(c) - 1
    BY <1>5, <1>9
  <2>3. pc'[c] # "new" /\ watchers' = watchers /\ closed' = closed /\ snapRev'[c] <= stored'
    BY <1>1, <1>5
  <2> QED
    BY <1>2, <1>5, <2>1, <2>2, <2>3 DEF ChannelInv
<1>11. KnownInv(c)'
  <2>1. t # << >> => 1 .. t[1] - 1 \subseteq known'[c]
    BY <1>4, <1>7, <1>9
  <2>2. c \in watchers /\ t = << >> => 1 .. nextRev(c) - 1 \subseteq known'[c]
    <3>1. t = << >> => Len(q) = 1
      BY <1>3, EmptySeq
    <3> QED
      BY <1>5, <1>7, <3>1
  <2> QED
    BY <1>1, <1>2, <1>7, <2>1, <2>2 DEF KnownInv
<1> QED
  BY <1>10, <1>11 DEF ConnInv

\* The snapshot covers everything that was applied when it was scanned.
LEMMA SnapshotConn ==
  ASSUME TypeOK, LogInv, PubInv, NEW c \in Conns, ConnInv(c), ReadRevision(c) \/ SendSnapshot(c)
  PROVE  ConnInv(c)'
<1>1. UNCHANGED <<stored, pub, history, watchers, channel, closed>>
  BY DEF ReadRevision, SendSnapshot, loop, hub
<1>2. latest' = latest /\ nextRev(c)' = nextRev(c)
  BY <1>1 DEF latest, nextRev
<1>3. /\ channel[c] \in Seq(1 .. MaxRev) /\ Len(channel[c]) \in Nat
      /\ latest \in Nat /\ applied \in Nat /\ stored \in Nat /\ latest <= applied /\ applied <= stored
      /\ snapRev[c] \in Nat
  BY Order
<1>4. pc'[c] \in {"scanning", "streaming"} /\ snapRev'[c] <= stored
  <2>1. CASE ReadRevision(c)
    BY <1>3, <2>1 DEF ReadRevision, TypeOK, StreamT
  <2>2. CASE SendSnapshot(c)
    BY <1>3, <2>2 DEF SendSnapshot, TypeOK, StreamT
  <2> QED
    BY <2>1, <2>2
<1>5. ChannelInv(c)'
  BY <1>1, <1>2, <1>4 DEF ConnInv, ChannelInv
<1>6. ASSUME pc'[c] = "streaming" PROVE known'[c] = 1 .. stored /\ cur'[c] = snapRev[c]
  BY <1>6 DEF ReadRevision, SendSnapshot, TypeOK, StreamT
<1>7. snapRev[c] <= stored
  BY DEF ConnInv, ChannelInv
<1>8. channel[c] # << >> => channel[c][1] \in Nat /\ channel[c][1] <= stored
  <2> SUFFICES ASSUME channel[c] # << >> PROVE channel[c][1] \in Nat /\ channel[c][1] <= stored
    OBVIOUS
  <2>1. 1 \in 1 .. Len(channel[c])
    BY <1>3, EmptySeq
  <2>2. channel[c][1] \in 1 .. MaxRev
    BY <1>3, <2>1, ElementOfSeq
  <2>3. channel[c][1] <= latest
    BY <2>1 DEF ConnInv, ChannelInv
  <2> QED
    BY <1>3, <2>2, <2>3, Constants
<1>9. nextRev(c) \in Nat /\ nextRev(c) - 1 <= stored
  <2>1. pub.rev \in Nat
    BY Revisions DEF TypeOK, PubT
  <2> QED
    BY <1>3, <2>1 DEF nextRev, PubInv
<1>10. KnownInv(c)'
  <2> SUFFICES ASSUME pc'[c] = "streaming"
               PROVE  /\ 1 .. cur'[c] \subseteq known'[c]
                      /\ channel[c] # << >> => 1 .. channel[c][1] - 1 \subseteq known'[c]
                      /\ 1 .. nextRev(c) - 1 \subseteq known'[c]
    BY <1>1, <1>2 DEF KnownInv
  <2>1. known'[c] = 1 .. stored /\ cur'[c] = snapRev[c]
    BY <1>6
  <2> QED
    BY <1>3, <1>7, <1>8, <1>9, <2>1
<1> QED
  BY <1>5, <1>10 DEF ConnInv

\* The handler has returned: nothing is owed to the client.
LEMMA ReturnConn ==
  ASSUME TypeOK, LogInv, NEW c \in Conns, ConnInv(c), ReceiveClosed(c) \/ Leave(c)
  PROVE  ConnInv(c)'
<1>1. /\ channel'[c] = << >> /\ pc'[c] = "ended" /\ snapRev'[c] = 0
      /\ UNCHANGED stored /\ c \notin watchers'
  BY DEF ReceiveClosed, Leave, return, loop, TypeOK, HubT, StreamT, ConnInv, ChannelInv
<1> QED
  BY <1>1, Order, EmptySeq DEF ConnInv, ChannelInv, KnownInv

\* Publish puts nothing into a channel that is full, and remembers the watcher.
LEMMA SendKeeps ==
  ASSUME PubT, HubT, IdleInv, NEW c \in Conns, Send(c), channel' = channel
  PROVE  pub' = [pub EXCEPT !.targets = @ \ {c}, !.slow = @ \cup {c}]
<1>1. ASSUME channel' = [channel EXCEPT ![c] = Append(@, pub.rev)] PROVE FALSE
  <2>1. channel[c] = Append(channel[c], pub.rev)
    BY <1>1 DEF HubT
  <2>2. channel[c] \in Seq(1 .. MaxRev) /\ pub.rev \in 1 .. MaxRev
    BY DEF HubT, PubT, IdleInv, Rev, Send
  <2>3. Len(channel[c]) \in Nat /\ Len(Append(channel[c], pub.rev)) = Len(channel[c]) + 1
    BY <2>2, OneMore
  <2> QED
    BY <2>1, <2>3
<1> QED
  BY <1>1 DEF Send

\* The steps of the two loops that leave the channel of a connection alone.
LEMMA LoopAside ==
  ASSUME TypeOK, TypeOK', LogInv, PubInv, NEW c \in Conns, ConnInv(c),
         \/ UNCHANGED vars \/ ApplyEntry \/ EmitReady \/ TakeReady \/ Publish \/ CloseSlow
         \/ \E d \in Conns : SendOnClosed(d) \/ (Send(d) /\ (d # c \/ channel' = channel))
  PROVE  Aside(c)
<1>a. PubT /\ HubT /\ StreamT /\ IdleInv
  BY DEF TypeOK, PubInv
<1>b. latest \in Nat /\ latest' \in Nat /\ stored \in Nat /\ stored' \in Nat
  <2>1. HubT' /\ LoopT' /\ LoopT
    BY DEF TypeOK
  <2>2. latest' \in Rev
    <3>1. history' \in Seq(1 .. MaxRev)
      BY <2>1 DEF HubT
    <3>2. history' # << >> => Last(history') \in 1 .. MaxRev
      BY <3>1, LastElement
    <3> QED
      BY <3>2, Revisions DEF latest
  <2> QED
    BY <2>1, <2>2, Order, Revisions DEF LoopT
<1>c. c \in watchers => c \notin closed
  BY DEF ConnInv, ChannelInv
<1>d. pc[c] = "new" => c \notin watchers \cup closed \cup pub.targets \cup pub.slow
  BY DEF ConnInv, ChannelInv
<1>1. CASE Publish
  <2>1. /\ pub.rev = 0 /\ pub'.rev = Head(pub.todo) /\ pub'.targets = watchers /\ pub'.slow = {}
        /\ UNCHANGED <<stored, watchers, channel, closed, pc, cur, known, snapRev>>
    BY <1>1 DEF Publish, loop, stream
  <2>2. Head(pub.todo) = latest + 1 /\ latest' = latest + 1
    BY <1>1, <1>a, PublishLatest
  <2>3. c \in watchers => nextRev(c)' = latest + 1 /\ nextRev(c) = latest + 1
    BY <1>a, <2>1, <2>2 DEF nextRev, IdleInv
  <2> QED
    BY <1>b, <1>c, <1>d, <2>1, <2>2, <2>3 DEF Aside
<1>2. CASE CloseSlow
  <2>1. /\ pub.targets = {} /\ pub'.targets = {} /\ pub'.slow = {} /\ watchers' = watchers \ pub.slow
        /\ closed' = closed \cup (watchers \cap pub.slow)
        /\ UNCHANGED <<stored, history, channel, pc, cur, known, snapRev>>
    BY <1>2, <1>a DEF CloseSlow, loop, stream, PubT
  <2>2. latest' = latest
    BY <2>1 DEF latest
  <2>3. c \in watchers' => nextRev(c)' = nextRev(c)
    BY <2>1, <2>2 DEF nextRev
  <2> QED
    BY <1>b, <1>c, <1>d, <2>1, <2>2, <2>3 DEF Aside
<1>3. CASE \E d \in Conns : Send(d) /\ (d # c \/ channel' = channel)
  <2>1. PICK d \in Conns : Send(d) /\ (d # c \/ channel' = channel)
    BY <1>3
  <2>2. /\ d \in pub.targets
        /\ UNCHANGED <<stored, history, watchers, closed, pc, cur, known, snapRev>>
    BY <2>1 DEF Send, loop, stream
  <2>3. channel'[c] = channel[c]
    BY <1>a, <2>1 DEF Send, HubT
  <2>4. /\ pub'.rev = pub.rev /\ (c \in pub'.targets \cup pub'.slow <=> c \in pub.targets \cup pub.slow)
    <3>1. CASE d # c
      <4>1. \/ pub' = [pub EXCEPT !.targets = @ \ {d}]
            \/ pub' = [pub EXCEPT !.targets = @ \ {d}, !.slow = @ \cup {d}]
        BY <2>1 DEF Send
      <4> QED
        BY <1>a, <3>1, <4>1 DEF PubT
    <3>2. CASE d = c /\ channel' = channel
      <4>1. pub' = [pub EXCEPT !.targets = @ \ {c}, !.slow = @ \cup {c}]
        BY <1>a, <2>1, <3>2, SendKeeps
      <4> QED
        BY <1>a, <2>2, <3>2, <4>1 DEF PubT
    <3> QED
      BY <2>1, <3>1, <3>2
  <2>5. latest' = latest /\ nextRev(c)' = nextRev(c)
    BY <2>2, <2>4 DEF latest, nextRev
  <2> QED
    BY <1>b, <1>c, <1>d, <2>2, <2>3, <2>4, <2>5 DEF Aside
<1>4. ASSUME UNCHANGED <<hub, stream>>, stored <= stored',
             pub'.rev = pub.rev, pub'.targets = pub.targets, pub'.slow = pub.slow
      PROVE  Aside(c)
  <2>1. latest' = latest /\ nextRev(c)' = nextRev(c)
    BY <1>4 DEF latest, nextRev, hub
  <2> QED
    BY <1>b, <1>c, <1>d, <1>4, <2>1 DEF Aside, hub, stream
<1>5. CASE UNCHANGED vars \/ EmitReady \/ \E d \in Conns : SendOnClosed(d)
  <2>1. UNCHANGED <<hub, stream, pub, stored>>
    BY <1>5 DEF EmitReady, SendOnClosed, vars, loop
  <2> QED
    BY <1>4, <1>b, <2>1
<1>6. CASE ApplyEntry
  <2>1. UNCHANGED <<hub, stream, pub>> /\ stored' = stored + 1
    BY <1>6 DEF ApplyEntry
  <2> QED
    BY <1>4, <1>b, <2>1
<1>7. CASE TakeReady
  <2>1. UNCHANGED <<hub, stream, stored>> /\ pub' = [pub EXCEPT !.todo = Head(readyCh)]
    BY <1>7 DEF TakeReady
  <2>2. pub'.rev = pub.rev /\ pub'.targets = pub.targets /\ pub'.slow = pub.slow
    BY <1>a, <2>1 DEF PubT
  <2> QED
    BY <1>4, <1>b, <2>1, <2>2
<1> QED
  BY <1>1, <1>2, <1>3, <1>5, <1>6, <1>7

\* A step of the handler of a connection.
HandlerStep(c) ==
  \/ \E since \in Rev : ConnectExpired(c, since) \/ ConnectSnapshot(c, since) \/ ConnectReplay(c, since)
  \/ ConnectLive(c) \/ Handler(c) \/ Leave(c)

\* ... does nothing to the state of another connection.
LEMMA OtherHandler ==
  ASSUME HubT, StreamT, NEW c \in Conns, NEW d \in Conns, d # c, HandlerStep(d)
  PROVE  /\ pc'[c] = pc[c] /\ cur'[c] = cur[c] /\ known'[c] = known[c] /\ snapRev'[c] = snapRev[c]
         /\ channel'[c] = channel[c] /\ (c \in watchers' => c \in watchers) /\ (c \in closed' => c \in closed)
<1>1. /\ pc'[c] = pc[c] /\ cur'[c] = cur[c] /\ known'[c] = known[c] /\ snapRev'[c] = snapRev[c]
      /\ channel'[c] = channel[c]
  BY DEF HandlerStep, Handler, ConnectExpired, ConnectSnapshot, ConnectReplay, ConnectLive, subscribe, ReadRevision,
         SendSnapshot, Receive, ReceiveClosed, Leave, return, hub, StreamT, HubT
<1>2. (c \in watchers' => c \in watchers) /\ (c \in closed' => c \in closed)
  BY DEF HandlerStep, Handler, ConnectExpired, ConnectSnapshot, ConnectReplay, ConnectLive, subscribe, ReadRevision,
         SendSnapshot, Receive, ReceiveClosed, Leave, hub
<1> QED
  BY <1>1, <1>2

\* ... leaves the other connections alone.
LEMMA HandlerAside ==
  ASSUME TypeOK, LogInv, NEW c \in Conns, ConnInv(c), NEW d \in Conns, d # c, HandlerStep(d)
  PROVE  Aside(c)
<1>1. UNCHANGED <<stored, pub, history>>
  BY DEF HandlerStep, Handler, ConnectExpired, ConnectSnapshot, ConnectReplay, ConnectLive, subscribe, ReadRevision,
         SendSnapshot, Receive, ReceiveClosed, Leave, loop, hub
<1>2. /\ pc'[c] = pc[c] /\ cur'[c] = cur[c] /\ known'[c] = known[c] /\ snapRev'[c] = snapRev[c]
      /\ channel'[c] = channel[c] /\ (c \in watchers' => c \in watchers) /\ (c \in closed' => c \in closed)
  BY OtherHandler DEF TypeOK
<1>3. latest' = latest /\ nextRev(c)' = nextRev(c)
  BY <1>1 DEF latest, nextRev
<1>4. /\ c \in watchers => c \notin closed
      /\ pc[c] = "new" => c \notin closed \cup pub.targets \cup pub.slow
  BY DEF ConnInv, ChannelInv
<1>5. latest \in Nat /\ stored \in Nat
  BY Order
<1> QED
  BY <1>1, <1>2, <1>3, <1>4, <1>5 DEF Aside

\* ... and keeps its own invariant.
LEMMA HandlerConn ==
  ASSUME TypeOK, LogInv, PubInv, NEW c \in Conns, ConnInv(c), HandlerStep(c)
  PROVE  ConnInv(c)'
<1>a. HubT /\ StreamT
  BY DEF TypeOK
<1>1. ASSUME NEW since \in Rev, ConnectExpired(c, since) \/ ConnectSnapshot(c, since) PROVE ConnInv(c)'
  <2>1. subscribe(c) /\ pc' \in {[pc EXCEPT ![c] = "rejected"], [pc EXCEPT ![c] = "barrier"]}
    BY <1>1 DEF ConnectExpired, ConnectSnapshot
  <2> QED
    BY <2>1, Subscribed
<1>2. ASSUME NEW since \in Rev, ConnectReplay(c, since) PROVE ConnInv(c)'
  <2> DEFINE r == replaySince(since)
             x == IF r = {} THEN since ELSE history[Max(r)]
             k == (1 .. since) \cup {history[i] : i \in r}
  <2>1. /\ subscribe(c) /\ exact(since) /\ pc' = [pc EXCEPT ![c] = "streaming"]
        /\ cur' = [cur EXCEPT ![c] = x] /\ known' = [known EXCEPT ![c] = k]
    BY <1>2 DEF ConnectReplay
  <2>2. 1 .. latest \subseteq k
    BY <1>a, <2>1, ExactReplay
  <2>3. 1 .. x \subseteq k
    <3>1. CASE r = {}
      BY <3>1
    <3>2. CASE r # {}
      <4>1. Max(r) \in r
        BY <1>a, <3>2, Replay
      <4>2. Max(r) \in 1 .. Len(history)
        BY <1>a, <4>1, LenProperties DEF replaySince, HubT
      <4>3. history[Max(r)] = latest - Len(history) + Max(r)
        BY <4>2 DEF LogInv
      <4>4. Len(history) \in Nat
        BY <1>a, LenProperties DEF HubT
      <4> HIDE DEF r, k
      <4>5. x \in Int /\ x <= latest
        BY <3>2, <4>2, <4>3, <4>4, Order
      <4> QED
        BY <2>2, <4>5, Order
    <3> QED
      BY <3>1, <3>2
  <2>4. cur'[c] = x /\ known'[c] = k
    BY <1>a, <2>1 DEF StreamT
  <2> HIDE DEF x, k
  <2> QED
    BY <2>1, <2>2, <2>3, <2>4, Subscribed
<1>3. ASSUME ConnectLive(c) PROVE ConnInv(c)'
  <2>1. subscribe(c) /\ pc' = [pc EXCEPT ![c] = "streaming"] /\ known'[c] = 1 .. latest /\ cur'[c] = cur[c]
    BY <1>3, <1>a DEF ConnectLive, StreamT
  <2>2. cur[c] = 0
    BY <2>1 DEF subscribe, ConnInv, ChannelInv
  <2>3. 1 .. cur'[c] \subseteq known'[c]
    BY <2>1, <2>2
  <2> QED
    BY <2>1, <2>3, Subscribed
<1> QED
  BY <1>1, <1>2, <1>3, ReceiveConn, SnapshotConn, ReturnConn DEF HandlerStep, Handler

\* The invariant of NoGap: the numbering of the events up to
\* the history, the event being published, and every connection.
IInv == TypeOK /\ LogInv /\ PubInv /\ \A c \in Conns : ConnInv(c)

\* Before any event nobody is connected.
LEMMA InitInv == Init => IInv
<1> SUFFICES ASSUME Init PROVE IInv
  OBVIOUS
<1>1. TypeOK /\ IdleInv
  BY InitTypes
<1>2. latest = 0 /\ Len(history) = 0 /\ Len(pub.todo) = 0 /\ taken = 0
  BY DEF Init, latest, Idle, taken
<1>3. LogInv
  <2>1. readyCh = << >> /\ Len(readyCh) = 0 /\ applied = 0
    BY DEF Init
  <2> QED
    BY <1>2, <2>1 DEF LogInv, Chain
<1>4. PubInv
  BY <1>1 DEF Init, PubInv, Idle
<1>5. ASSUME NEW c \in Conns PROVE ConnInv(c)
  <2>1. /\ pc[c] = "new" /\ channel[c] = << >> /\ Len(channel[c]) = 0 /\ cur[c] = 0 /\ snapRev[c] = 0 /\ stored = 0
        /\ watchers = {} /\ closed = {} /\ pub.targets = {} /\ pub.slow = {}
    BY DEF Init, Idle
  <2> QED
    BY <2>1 DEF ConnInv, ChannelInv, KnownInv
<1> QED
  BY <1>1, <1>3, <1>4, <1>5 DEF IInv

\* Every step that drops no Ready keeps the invariant.
LEMMA NextInv ==
  ASSUME IInv, [Next]_vars, applied' # applied => Len(readyCh) < ReadyCap
  PROVE  IInv'
<1>1. TypeOK /\ LogInv /\ PubInv /\ IdleInv /\ \A c \in Conns : ConnInv(c)
  BY DEF IInv, PubInv
<1>2. TypeOK'
  BY <1>1, LoopsPreserved, HubPreserved, StreamsPreserved DEF TypeOK
<1>3. LogInv' /\ PubInv'
  BY <1>1, LogPreserved, PubPreserved
<1>4. ASSUME NEW c \in Conns PROVE ConnInv(c)'
  <2>a. ConnInv(c) /\ HubT /\ StreamT
    BY <1>1 DEF TypeOK
  <2>1. CASE Aside(c)
    BY <2>a, <2>1, AsideConn
  <2>2. CASE HandlerStep(c)
    BY <1>1, <2>a, <2>2, HandlerConn
  <2>3. CASE Send(c) /\ channel' # channel
    BY <1>1, <2>a, <2>3, SendConn
  <2>4. CASE \E d \in Conns : d # c /\ HandlerStep(d)
    BY <1>1, <2>a, <2>1, <2>4, HandlerAside
  <2>5. CASE \/ UNCHANGED vars \/ ApplyEntry \/ EmitReady \/ TakeReady \/ Publish \/ CloseSlow
             \/ \E d \in Conns : SendOnClosed(d) \/ (Send(d) /\ (d # c \/ channel' = channel))
    BY <1>1, <1>2, <2>a, <2>1, <2>5, LoopAside
  <2> QED
    BY <2>2, <2>3, <2>4, <2>5 DEF Next, RunLoop, ForwardLoop, HandlerStep, Finished
<1> QED
  BY <1>1, <1>2, <1>3, <1>4 DEF IInv

\* As long as no Ready is dropped, the invariant holds.
LEMMA Invariance == Spec /\ NoDrop => []IInv
<1>1. IInv /\ [Next]_vars /\ [applied' # applied => Len(readyCh) < ReadyCap]_vars => IInv'
  <2>1. CASE UNCHANGED vars
    <3>1. applied' = applied
      BY <2>1 DEF vars, loop
    <3> QED
      BY <2>1, <3>1, NextInv
  <2>2. CASE ~UNCHANGED vars
    BY <2>2, NextInv
  <2> QED
    BY <2>1, <2>2
<1> QED
  BY InitInv, <1>1, PTL DEF Spec, NoDrop

\* As long as emitReady drops no Ready, the last revision a client was sent is
\* one it can resume from: it knows every change up to it, however the
\* snapshot, the replay and the live events of its connection were interleaved
\* with the writes, and whether or not its channel has been closed.
THEOREM NoGapTheorem == Spec /\ NoDrop => []NoGap
<1>1. IInv => NoGap
  BY DEF IInv, ConnInv, KnownInv, NoGap
<1> QED
  BY Invariance, <1>1, PTL

-----------------------------------------------------------------------------
(* Nothing is lost between the history and a client, whether or not Readys *)
(* are dropped before: the revisions rise on their way, with or without    *)
(* gaps.                                                                   *)

\* The revisions of a sequence rise and lie above a and not above b.
Rising(q, a, b) ==
  /\ \A i \in 1 .. Len(q) : a < q[i] /\ q[i] <= b
  /\ \A i, j \in 1 .. Len(q) : i < j => q[i] < q[j]

\* Every revision of p is below every revision of q.
Below(p, q) == \A i \in 1 .. Len(p), j \in 1 .. Len(q) : p[i] < q[j]

\* The history ends with the latest revision; the Ready at hand and those in
\* the channel rise from there, up to the applied index.
RisingInv ==
  /\ latest <= applied /\ \A i \in 1 .. Len(history) : history[i] <= latest
  /\ Rising(pub.todo, latest, applied)
  /\ \A k \in 1 .. Len(readyCh) : Rising(readyCh[k], latest, applied) /\ Below(pub.todo, readyCh[k])
  /\ \A k, l \in 1 .. Len(readyCh) : k < l => Below(readyCh[k], readyCh[l])

\* The elements of a sequence of revisions are natural numbers.
LEMMA RevisionSeq ==
  ASSUME NEW q \in Seq(1 .. MaxRev)
  PROVE  Len(q) \in Nat /\ \A i \in 1 .. Len(q) : q[i] \in Nat /\ q[i] \in 1 .. MaxRev
<1>1. Len(q) \in Nat /\ \A i \in 1 .. Len(q) : q[i] \in 1 .. MaxRev
  BY LenProperties, ElementOfSeq
<1> QED
  BY <1>1, Constants

\* A sequence that rises up to b rises up to anything above it.
LEMMA RisingUp ==
  ASSUME NEW q \in Seq(1 .. MaxRev), NEW a \in Nat, NEW b \in Nat, NEW d \in Nat, b <= d, Rising(q, a, b)
  PROVE  Rising(q, a, d)
<1>1. ASSUME NEW i \in 1 .. Len(q) PROVE q[i] <= d
  <2>1. q[i] \in Nat /\ q[i] <= b
    BY RevisionSeq DEF Rising
  <2> QED
    BY <2>1
<1> QED
  BY <1>1 DEF Rising

\* The facts about the revisions that the steps of a connection need.
LEMMA Numbers ==
  ASSUME TypeOK, RisingInv
  PROVE  /\ latest \in Nat /\ applied \in Nat /\ stored \in Nat /\ latest <= applied /\ applied <= stored
         /\ history \in Seq(1 .. MaxRev) /\ Len(history) \in Nat
         /\ \A i \in 1 .. Len(history) : history[i] \in Nat /\ history[i] >= 1 /\ history[i] <= latest
         /\ \A c \in Conns : /\ channel[c] \in Seq(1 .. MaxRev) /\ Len(channel[c]) \in Nat
                             /\ \A i \in 1 .. Len(channel[c]) : channel[c][i] \in Nat /\ channel[c][i] >= 1
                             /\ cur[c] \in Nat /\ snapRev[c] \in Nat
<1>1. LoopT /\ HubT /\ StreamT
  BY DEF TypeOK
<1>2. latest \in Nat /\ applied \in Nat /\ stored \in Nat /\ applied <= stored
  BY <1>1, LatestRev, Constants DEF LoopT, Rev
<1>3. history \in Seq(1 .. MaxRev)
  BY <1>1 DEF HubT
<1>4. latest <= applied /\ \A i \in 1 .. Len(history) : history[i] <= latest
  BY DEF RisingInv
<1>5. ASSUME NEW q \in Seq(1 .. MaxRev), NEW i \in 1 .. Len(q) PROVE q[i] >= 1
  BY RevisionSeq
<1>6. ASSUME NEW c \in Conns PROVE channel[c] \in Seq(1 .. MaxRev) /\ cur[c] \in Nat /\ snapRev[c] \in Nat
  BY <1>1, Revisions DEF HubT, StreamT
<1> QED
  BY <1>2, <1>3, <1>4, <1>5, <1>6, RevisionSeq

\* The run loop emits a Ready, or drops it.
LEMMA EmitRising ==
  ASSUME TypeOK, RisingInv, EmitReady
  PROVE  RisingInv'
<1> DEFINE r == [i \in 1 .. stored - applied |-> applied + i]
<1>1. /\ applied < stored /\ applied' = stored /\ UNCHANGED <<pub, history>>
      /\ readyCh' = readyCh \/ readyCh' = Append(readyCh, r)
  BY DEF EmitReady, hub
<1>2. latest' = latest
  BY <1>1 DEF latest
<1>3. /\ latest \in Nat /\ applied \in Nat /\ stored \in Nat /\ latest <= applied
      /\ pub.todo \in Seq(1 .. MaxRev) /\ readyCh \in Seq(Seq(1 .. MaxRev))
  BY Numbers DEF TypeOK, PubT, LoopT
<1>4. latest <= stored /\ Rising(pub.todo, latest, stored)
  <2>1. Rising(pub.todo, latest, applied)
    BY DEF RisingInv
  <2> QED
    BY <1>1, <1>3, <2>1, RisingUp
<1>5. ASSUME NEW k \in 1 .. Len(readyCh)
      PROVE  Rising(readyCh[k], latest, stored) /\ Below(pub.todo, readyCh[k])
  <2>1. readyCh[k] \in Seq(1 .. MaxRev)
    BY <1>3, ElementOfSeq
  <2>2. Rising(readyCh[k], latest, applied) /\ Below(pub.todo, readyCh[k])
    BY DEF RisingInv
  <2> QED
    BY <1>1, <1>3, <2>1, <2>2, RisingUp
<1>6. \A i \in 1 .. Len(history) : history[i] <= latest
  BY DEF RisingInv
<1>7. \A k, l \in 1 .. Len(readyCh) : k < l => Below(readyCh[k], readyCh[l])
  BY DEF RisingInv
<1>8. CASE readyCh' = readyCh
  BY <1>1, <1>2, <1>4, <1>5, <1>6, <1>7, <1>8 DEF RisingInv
<1>9. CASE readyCh' = Append(readyCh, r)
  <2>1. r \in Seq(1 .. MaxRev) /\ Len(r) = stored - applied
    BY <1>1, NewReady DEF TypeOK
  <2>2. \A i \in 1 .. Len(r) : r[i] = applied + i
    BY <2>1
  <2> HIDE DEF r
  <2>3. Rising(r, latest, stored)
    <3>1. ASSUME NEW i \in 1 .. Len(r) PROVE latest < r[i] /\ r[i] <= stored
      <4>1. r[i] = applied + i /\ i \in 1 .. stored - applied
        BY <2>1, <2>2
      <4> QED
        BY <1>1, <1>3, <4>1
    <3>2. ASSUME NEW i \in 1 .. Len(r), NEW j \in 1 .. Len(r), i < j PROVE r[i] < r[j]
      <4>1. r[i] = applied + i /\ r[j] = applied + j /\ i \in Int /\ j \in Int
        BY <2>1, <2>2
      <4> QED
        BY <1>3, <3>2, <4>1
    <3> QED
      BY <3>1, <3>2 DEF Rising
  <2>4. ASSUME NEW q \in Seq(1 .. MaxRev), Rising(q, latest, applied) PROVE Below(q, r)
    <3> SUFFICES ASSUME NEW i \in 1 .. Len(q), NEW j \in 1 .. Len(r) PROVE q[i] < r[j]
      BY DEF Below
    <3>1. q[i] \in Nat /\ q[i] <= applied
      BY <2>4, RevisionSeq DEF Rising
    <3>2. r[j] = applied + j /\ j \in Int /\ j >= 1
      BY <2>1, <2>2
    <3> QED
      BY <1>3, <3>1, <3>2
  <2>5. /\ Len(readyCh) \in Nat /\ Len(readyCh') = Len(readyCh) + 1 /\ readyCh'[Len(readyCh) + 1] = r
        /\ \A i \in 1 .. Len(readyCh) : readyCh'[i] = readyCh[i]
    <3> DEFINE R == Seq(1 .. MaxRev)
    <3> HIDE DEF R
    <3>1. readyCh \in Seq(R) /\ r \in R
      BY <1>3, <2>1 DEF R
    <3> QED
      BY <1>9, <3>1, OneMore
  <2>6. ASSUME NEW k \in 1 .. Len(readyCh')
        PROVE  Rising(readyCh'[k], latest, stored) /\ Below(pub.todo, readyCh'[k])
    <3>1. CASE k = Len(readyCh) + 1
      <4>1. Rising(pub.todo, latest, applied)
        BY DEF RisingInv
      <4> QED
        BY <1>3, <2>3, <2>4, <2>5, <3>1, <4>1
    <3>2. CASE k \in 1 .. Len(readyCh)
      BY <1>5, <2>5, <3>2
    <3> QED
      BY <2>5, <3>1, <3>2
  <2>7. ASSUME NEW k \in 1 .. Len(readyCh'), NEW l \in 1 .. Len(readyCh'), k < l
        PROVE  Below(readyCh'[k], readyCh'[l])
    <3>1. k \in 1 .. Len(readyCh)
      BY <2>5, <2>7
    <3>2. CASE l = Len(readyCh) + 1
      <4>1. readyCh[k] \in Seq(1 .. MaxRev) /\ Rising(readyCh[k], latest, applied)
        BY <1>3, <3>1, ElementOfSeq DEF RisingInv
      <4> QED
        BY <2>4, <2>5, <3>1, <3>2, <4>1
    <3>3. CASE l \in 1 .. Len(readyCh)
      BY <1>7, <2>5, <2>7, <3>1, <3>3
    <3> QED
      BY <2>5, <3>2, <3>3
  <2> QED
    BY <1>1, <1>2, <1>4, <1>6, <2>6, <2>7 DEF RisingInv
<1> QED
  BY <1>1, <1>8, <1>9

\* The forwarding loop takes a Ready.
LEMMA TakeRising ==
  ASSUME TypeOK, RisingInv, TakeReady
  PROVE  RisingInv'
<1>1. /\ readyCh # << >> /\ pub = Idle /\ pub' = [pub EXCEPT !.todo = Head(readyCh)]
      /\ readyCh' = Tail(readyCh) /\ UNCHANGED <<history, applied>>
  BY DEF TakeReady, hub
<1>2. latest' = latest
  BY <1>1 DEF latest
<1>3. pub'.todo = Head(readyCh)
  BY <1>1 DEF TypeOK, PubT
<1>4. readyCh \in Seq(Seq(1 .. MaxRev))
  BY DEF TypeOK, LoopT
<1>5. /\ Head(readyCh) = readyCh[1] /\ Len(readyCh) \in Nat /\ Len(readyCh) >= 1
      /\ Len(readyCh') = Len(readyCh) - 1
      /\ \A i \in 1 .. Len(readyCh) - 1 : readyCh'[i] = readyCh[i + 1]
  BY <1>1, <1>4, HeadTail
<1>6. /\ latest <= applied /\ \A i \in 1 .. Len(history) : history[i] <= latest
      /\ \A k \in 1 .. Len(readyCh) : Rising(readyCh[k], latest, applied)
      /\ \A k, l \in 1 .. Len(readyCh) : k < l => Below(readyCh[k], readyCh[l])
  BY DEF RisingInv
<1>7. 1 \in 1 .. Len(readyCh)
  BY <1>5
<1>8. ASSUME NEW k \in 1 .. Len(readyCh')
      PROVE  /\ k \in Int /\ k + 1 \in 1 .. Len(readyCh) /\ 1 < k + 1 /\ readyCh'[k] = readyCh[k + 1]
  BY <1>5
<1>9. ASSUME NEW k \in 1 .. Len(readyCh')
      PROVE  Rising(readyCh'[k], latest, applied) /\ Below(readyCh[1], readyCh'[k])
  BY <1>6, <1>7, <1>8
<1>10. ASSUME NEW k \in 1 .. Len(readyCh'), NEW l \in 1 .. Len(readyCh'), k < l
       PROVE  Below(readyCh'[k], readyCh'[l])
  <2>1. k + 1 < l + 1
    BY <1>8, <1>10
  <2> QED
    BY <1>6, <1>8, <2>1
<1> QED
  BY <1>1, <1>2, <1>3, <1>5, <1>6, <1>7, <1>9, <1>10 DEF RisingInv

\* Publish moves the first event of the Ready at hand to the history.
LEMMA PublishRising ==
  ASSUME TypeOK, RisingInv, Publish
  PROVE  RisingInv' /\ latest < latest'
<1>1. pub.todo # << >> /\ pub'.todo = Tail(pub.todo) /\ UNCHANGED <<applied, readyCh>>
  BY DEF Publish, loop
<1>2. /\ latest' = Head(pub.todo) /\ Len(history') \in Nat /\ history'[Len(history')] = Head(pub.todo)
      /\ \A i \in 1 .. Len(history') - 1 :
           \E k \in 1 .. Len(history) : k = Len(history) + 1 - Len(history') + i /\ history'[i] = history[k]
  BY PublishLast DEF TypeOK
<1>3. pub.todo \in Seq(1 .. MaxRev)
  BY DEF TypeOK, PubT
<1>4. /\ Head(pub.todo) = pub.todo[1] /\ Len(pub.todo) \in Nat /\ Len(pub.todo) >= 1
      /\ Len(pub'.todo) = Len(pub.todo) - 1
      /\ \A i \in 1 .. Len(pub.todo) - 1 : pub'.todo[i] = pub.todo[i + 1]
  BY <1>1, <1>3, HeadTail
<1>5. 1 \in 1 .. Len(pub.todo)
  BY <1>4
<1>6. /\ latest \in Nat /\ latest' \in Nat /\ applied \in Nat /\ latest < latest' /\ latest' <= applied
      /\ \A i, j \in 1 .. Len(pub.todo) : pub.todo[i] <= applied /\ (i < j => pub.todo[i] < pub.todo[j])
  <2>1. latest < pub.todo[1] /\ pub.todo[1] <= applied
    BY <1>5 DEF RisingInv, Rising
  <2>2. \A i, j \in 1 .. Len(pub.todo) : pub.todo[i] <= applied /\ (i < j => pub.todo[i] < pub.todo[j])
    BY DEF RisingInv, Rising
  <2>3. pub.todo[1] \in Nat
    BY <1>3, <1>5, RevisionSeq
  <2> QED
    BY <1>2, <1>4, <2>1, <2>2, <2>3, Numbers
<1>7. ASSUME NEW i \in 1 .. Len(history') PROVE history'[i] <= latest'
  <2>1. CASE i = Len(history')
    BY <1>2, <1>6, <2>1
  <2>2. CASE i \in 1 .. Len(history') - 1
    <3>1. PICK k \in 1 .. Len(history) : history'[i] = history[k]
      BY <1>2, <2>2
    <3>2. history[k] \in Nat /\ history[k] <= latest
      BY Numbers
    <3> QED
      BY <1>6, <3>1, <3>2
  <2> QED
    BY <1>2, <2>1, <2>2
<1>8. ASSUME NEW i \in 1 .. Len(pub'.todo)
      PROVE  i \in Int /\ i + 1 \in 1 .. Len(pub.todo) /\ 1 < i + 1 /\ pub'.todo[i] = pub.todo[i + 1]
  BY <1>4
<1>9. Rising(pub'.todo, latest', applied)
  <2>1. ASSUME NEW i \in 1 .. Len(pub'.todo) PROVE latest' < pub'.todo[i] /\ pub'.todo[i] <= applied
    BY <1>2, <1>4, <1>5, <1>6, <1>8
  <2>2. ASSUME NEW i \in 1 .. Len(pub'.todo), NEW j \in 1 .. Len(pub'.todo), i < j PROVE pub'.todo[i] < pub'.todo[j]
    <3>1. i + 1 < j + 1
      BY <1>8, <2>2
    <3> QED
      BY <1>6, <1>8, <3>1
  <2> QED
    BY <2>1, <2>2 DEF Rising
<1>10. ASSUME NEW k \in 1 .. Len(readyCh)
       PROVE  Rising(readyCh[k], latest', applied) /\ Below(pub'.todo, readyCh[k])
  <2>1. Rising(readyCh[k], latest, applied) /\ Below(pub.todo, readyCh[k])
    BY DEF RisingInv
  <2>2. \A j \in 1 .. Len(readyCh[k]) : latest' < readyCh[k][j]
    BY <1>2, <1>4, <1>5, <2>1 DEF Below
  <2>3. Rising(readyCh[k], latest', applied)
    BY <2>1, <2>2 DEF Rising
  <2>4. Below(pub'.todo, readyCh[k])
    BY <1>8, <2>1 DEF Below
  <2> QED
    BY <2>3, <2>4
<1>11. \A k, l \in 1 .. Len(readyCh) : k < l => Below(readyCh[k], readyCh[l])
  BY DEF RisingInv
<1> QED
  BY <1>1, <1>6, <1>7, <1>9, <1>10, <1>11 DEF RisingInv

\* The revisions keep rising, whatever happens.
LEMMA RisingPreserved ==
  ASSUME TypeOK, RisingInv, [Next]_vars
  PROVE  RisingInv'
<1>1. ASSUME UNCHANGED <<history, pub.todo, applied, readyCh>> PROVE RisingInv'
  <2>1. latest' = latest
    BY <1>1 DEF latest
  <2> QED
    BY <1>1, <2>1 DEF RisingInv
<1>2. \/ EmitReady \/ TakeReady \/ Publish
      \/ CloseSlow \/ \E c \in Conns : Send(c)
      \/ UNCHANGED <<history, pub, applied, readyCh>>
  BY DEF Next, RunLoop, ForwardLoop, Handler, ApplyEntry, SendOnClosed, ConnectExpired, ConnectSnapshot,
         ConnectReplay, ConnectLive, subscribe, ReadRevision, SendSnapshot, Receive, ReceiveClosed, Leave, Finished,
         vars, hub, loop
<1>3. ASSUME CloseSlow \/ \E c \in Conns : Send(c) PROVE UNCHANGED <<history, pub.todo, applied, readyCh>>
  BY <1>3 DEF CloseSlow, Send, loop, TypeOK, PubT
<1> QED
  BY <1>1, <1>2, <1>3, EmitRising, TakeRising, PublishRising

\* A connection and the tables of the hub.
TableInv(c) ==
  /\ pc[c] = "new" => /\ c \notin watchers \cup closed \cup pub.targets \cup pub.slow
                      /\ channel[c] = << >> /\ cur[c] = 0
  /\ c \in watchers => c \notin closed
  /\ snapRev[c] <= stored

\* Revision r is in the channel of a connection.
buffered(c, r) == \E i \in 1 .. Len(channel[c]) : channel[c][i] = r

\* The channel rises up to the latest revision, which it does not hold as long
\* as Publish has yet to serve the connection.
RoomInv(c) ==
  /\ Rising(channel[c], 0, latest)
  /\ c \in pub.targets => ~buffered(c, latest)

\* The revisions that a connection is still to receive.
coming(c, r) == r > latest \/ buffered(c, r) \/ (r = latest /\ c \in pub.targets)

\* The handler skips an event only if the client knows it: whatever is still
\* to come and not above the cursor is known.
SkipInv(c) == pc[c] = "streaming" => \A r \in 1 .. cur[c] : coming(c, r) => r \in known[c]

\* NothingLost, for one connection.
OwedInv(c) ==
  pc[c] = "streaming" /\ c \in watchers =>
    \A i \in 1 .. Len(history) :
      \/ history[i] \in known[c] \/ buffered(c, history[i])
      \/ history[i] = pub.rev /\ c \in pub.targets \cup pub.slow

LinkInv(c) == TableInv(c) /\ RoomInv(c) /\ SkipInv(c) /\ OwedInv(c)

\* A step that leaves the history and a connection alone, except that the
\* connection may be served, or leave the table.
Detached(c) ==
  /\ UNCHANGED <<channel[c], pc[c], cur[c], known[c], snapRev[c], history>>
  /\ c \in watchers' => c \in watchers /\ c \notin closed'
  /\ c \in pub'.targets => c \in pub.targets
  /\ c \in watchers' /\ c \in pub.targets \cup pub.slow => pub'.rev = pub.rev /\ c \in pub'.targets \cup pub'.slow
  /\ pc[c] = "new" => c \notin closed' \cup pub'.targets \cup pub'.slow
  /\ stored <= stored'

\* Such a step keeps the invariant of the connection.
LEMMA DetachedLink ==
  ASSUME TypeOK, TypeOK', RisingInv, NEW c \in Conns, LinkInv(c), Detached(c)
  PROVE  LinkInv(c)'
<1>1. /\ channel'[c] = channel[c] /\ pc'[c] = pc[c] /\ cur'[c] = cur[c] /\ known'[c] = known[c]
      /\ snapRev'[c] = snapRev[c] /\ history' = history
  BY DEF Detached
<1>2. latest' = latest
  BY <1>1 DEF latest
<1>3. \A r : buffered(c, r)' <=> buffered(c, r)
  BY <1>1 DEF buffered
<1>4. TableInv(c)'
  <2>1. snapRev[c] <= stored'
    <3>1. snapRev[c] <= stored /\ stored <= stored'
      BY DEF LinkInv, TableInv, Detached
    <3>2. stored' \in Nat
      BY Constants DEF TypeOK, LoopT, Rev
    <3> QED
      BY <3>1, <3>2, Numbers
  <2> QED
    BY <1>1, <2>1 DEF LinkInv, TableInv, Detached
<1>5. RoomInv(c)'
  BY <1>1, <1>2, <1>3 DEF LinkInv, RoomInv, Detached
<1>6. SkipInv(c)'
  <2>1. \A r : coming(c, r)' => coming(c, r)
    BY <1>2, <1>3 DEF coming, Detached
  <2> QED
    BY <1>1, <2>1 DEF LinkInv, SkipInv
<1>7. OwedInv(c)'
  BY <1>1, <1>3 DEF LinkInv, OwedInv, Detached
<1> QED
  BY <1>4, <1>5, <1>6, <1>7 DEF LinkInv

\* Publish announces an event above everything in the channels, to everyone in
\* the table.
LEMMA PublishLink ==
  ASSUME TypeOK, TypeOK', RisingInv, PubInv, NEW c \in Conns, LinkInv(c), Publish
  PROVE  LinkInv(c)'
<1>1. /\ pub.rev = 0 /\ pub'.rev = Head(pub.todo) /\ pub'.targets = watchers /\ pub'.slow = {}
      /\ UNCHANGED <<stored, watchers, channel, closed, pc, cur, known, snapRev>>
  BY DEF Publish, loop, stream
<1>2. /\ latest' = Head(pub.todo) /\ Len(history') \in Nat /\ history'[Len(history')] = Head(pub.todo)
      /\ \A i \in 1 .. Len(history') - 1 :
           \E k \in 1 .. Len(history) : k = Len(history) + 1 - Len(history') + i /\ history'[i] = history[k]
  BY PublishLast DEF TypeOK
<1>3. latest \in Nat /\ latest' \in Nat /\ latest < latest' /\ cur[c] \in Nat
  <2>1. latest' \in Nat
    BY <1>2, PublishLast, Constants DEF TypeOK
  <2> QED
    BY <2>1, PublishRising, Numbers
<1>4. \A r : buffered(c, r)' <=> buffered(c, r)
  BY <1>1 DEF buffered
<1>5. /\ channel[c] \in Seq(1 .. MaxRev) /\ Rising(channel[c], 0, latest)
      /\ \A i \in 1 .. Len(channel[c]) : channel[c][i] \in Nat /\ channel[c][i] <= latest
  BY Numbers DEF LinkInv, RoomInv, Rising
<1>6. TableInv(c)'
  BY <1>1 DEF LinkInv, TableInv
<1>7. RoomInv(c)'
  <2>1. Rising(channel[c], 0, latest')
    BY <1>3, <1>5, RisingUp
  <2>2. ~buffered(c, latest')
    BY <1>3, <1>5 DEF buffered
  <2> QED
    BY <1>1, <1>4, <2>1, <2>2 DEF RoomInv
<1>8. SkipInv(c)'
  <2>1. ASSUME NEW r \in 1 .. cur[c], coming(c, r)' PROVE coming(c, r)
    <3>1. r > latest' \/ buffered(c, r) \/ r = latest'
      BY <1>4, <2>1 DEF coming
    <3>2. r \in Nat
      BY <1>3
    <3>3. r > latest \/ buffered(c, r)
      BY <1>3, <3>1, <3>2
    <3> QED
      BY <3>3 DEF coming
  <2> QED
    BY <1>1, <2>1 DEF LinkInv, SkipInv
<1>9. OwedInv(c)'
  <2> SUFFICES ASSUME pc[c] = "streaming", c \in watchers, NEW i \in 1 .. Len(history')
               PROVE  \/ history'[i] \in known[c] \/ buffered(c, history'[i])
                      \/ history'[i] = pub'.rev /\ c \in pub'.targets
    BY <1>1, <1>4 DEF OwedInv
  <2>1. CASE i = Len(history')
    BY <1>1, <1>2, <2>1
  <2>2. CASE i \in 1 .. Len(history') - 1
    <3>1. PICK k \in 1 .. Len(history) : history'[i] = history[k]
      BY <1>2, <2>2
    <3>2. history[k] # 0
      BY Numbers
    <3> QED
      BY <1>1, <3>1, <3>2 DEF LinkInv, OwedInv
  <2> QED
    BY <1>2, <2>1, <2>2
<1> QED
  BY <1>6, <1>7, <1>8, <1>9 DEF LinkInv

\* Publish puts its event into the channel of a connection.
LEMMA SendLink ==
  ASSUME TypeOK, RisingInv, PubInv, NEW c \in Conns, LinkInv(c), Send(c), channel' # channel
  PROVE  LinkInv(c)'
<1> DEFINE s == Append(channel[c], pub.rev)
<1>1. /\ c \in pub.targets /\ c \notin closed
      /\ channel' = [channel EXCEPT ![c] = s] /\ pub' = [pub EXCEPT !.targets = @ \ {c}]
      /\ UNCHANGED <<stored, history, watchers, closed, pc, cur, known, snapRev>>
  BY DEF Send, loop, stream
<1>2. channel'[c] = s /\ pub'.targets = pub.targets \ {c} /\ pub'.slow = pub.slow /\ pub'.rev = pub.rev
  BY <1>1 DEF TypeOK, HubT, PubT
<1>3. c \notin pub.slow /\ pub.rev = latest /\ pub.rev # 0
  BY <1>1 DEF PubInv, IdleInv
<1>4. latest' = latest
  BY <1>1 DEF latest
<1>5. latest \in 1 .. MaxRev /\ latest \in Nat
  <2>1. latest \in 1 .. MaxRev
    BY <1>3 DEF TypeOK, PubT, Rev
  <2> QED
    BY <2>1, Numbers
<1>6. /\ s \in Seq(1 .. MaxRev) /\ Len(channel[c]) \in Nat /\ Len(s) = Len(channel[c]) + 1
      /\ \A i \in 1 .. Len(channel[c]) : s[i] = channel[c][i]
      /\ s[Len(channel[c]) + 1] = latest
  BY <1>3, <1>5, OneMore, Numbers
<1> HIDE DEF s
<1>7. \A r : buffered(c, r)' <=> buffered(c, r) \/ r = latest
  <2> SUFFICES ASSUME NEW r
               PROVE  (\E i \in 1 .. Len(s) : s[i] = r)
                        <=> (\E i \in 1 .. Len(channel[c]) : channel[c][i] = r) \/ r = latest
    BY <1>2 DEF buffered
  <2>1. \A i \in 1 .. Len(channel[c]) : i \in 1 .. Len(s)
    BY <1>6
  <2>2. Len(channel[c]) + 1 \in 1 .. Len(s)
    BY <1>6
  <2>3. \A i \in 1 .. Len(s) : i \in 1 .. Len(channel[c]) \/ i = Len(channel[c]) + 1
    BY <1>6
  <2> HIDE DEF s
  <2> QED
    BY <1>6, <2>1, <2>2, <2>3
<1>8. TableInv(c)'
  BY <1>1, <1>2 DEF LinkInv, TableInv
<1>9. RoomInv(c)'
  <2>1. ASSUME NEW i \in 1 .. Len(channel[c])
        PROVE  channel[c][i] \in Nat /\ 0 < channel[c][i] /\ channel[c][i] < latest
    <3>1. channel[c][i] \in Nat /\ 0 < channel[c][i] /\ channel[c][i] <= latest
      BY Numbers DEF LinkInv, RoomInv, Rising
    <3>2. channel[c][i] # latest
      BY <1>1 DEF LinkInv, RoomInv, buffered
    <3> QED
      BY <1>5, <3>1, <3>2
  <2>2. \A i, j \in 1 .. Len(channel[c]) : i < j => channel[c][i] < channel[c][j]
    BY DEF LinkInv, RoomInv, Rising
  <2>3. \A i \in 1 .. Len(s) : i \in 1 .. Len(channel[c]) \/ i = Len(channel[c]) + 1
    BY <1>6
  <2>4. ASSUME NEW i \in 1 .. Len(s) PROVE 0 < s[i] /\ s[i] <= latest
    BY <1>3, <1>5, <1>6, <2>1, <2>3
  <2>5. ASSUME NEW i \in 1 .. Len(s), NEW j \in 1 .. Len(s), i < j PROVE s[i] < s[j]
    <3>1. i \in 1 .. Len(channel[c])
      BY <1>6, <2>3, <2>5
    <3> QED
      BY <1>6, <2>1, <2>2, <2>3, <2>5, <3>1
  <2>6. Rising(s, 0, latest)
    BY <2>4, <2>5 DEF Rising
  <2> QED
    BY <1>2, <1>4, <2>6 DEF RoomInv
<1>10. SkipInv(c)'
  <2>1. \A r : coming(c, r)' => coming(c, r)
    BY <1>1, <1>4, <1>7 DEF coming
  <2> QED
    BY <1>1, <2>1 DEF LinkInv, SkipInv
<1>11. OwedInv(c)'
  BY <1>1, <1>3, <1>7 DEF LinkInv, OwedInv
<1> QED
  BY <1>8, <1>9, <1>10, <1>11 DEF LinkInv

\* A connection subscribes: its channel is empty, and what it does not know is
\* yet to be published.
LEMMA SubscribedLink ==
  ASSUME TypeOK, RisingInv, NEW c \in Conns, LinkInv(c), subscribe(c),
         \/ pc' = [pc EXCEPT ![c] = "rejected"]
         \/ pc' = [pc EXCEPT ![c] = "barrier"]
         \/ /\ pc' = [pc EXCEPT ![c] = "streaming"]
            /\ \A r \in 1 .. cur'[c] : r > latest => r \in known'[c]
            /\ \A i \in 1 .. Len(history) : history[i] \in known'[c]
  PROVE  LinkInv(c)'
<1>1. /\ pc[c] = "new" /\ watchers' = watchers \cup {c}
      /\ UNCHANGED <<stored, pub, history, channel, closed, snapRev>>
  BY DEF subscribe, loop
<1>2. c \notin closed \cup pub.targets \cup pub.slow /\ channel[c] = << >> /\ snapRev[c] <= stored
  BY <1>1 DEF LinkInv, TableInv
<1>3. latest' = latest
  BY <1>1 DEF latest
<1>4. pc'[c] \in {"rejected", "barrier", "streaming"}
  BY DEF TypeOK, StreamT
<1>5. \A r : ~buffered(c, r)'
  <2>1. Len(channel'[c]) = 0
    BY <1>1, <1>2
  <2> QED
    BY <2>1 DEF buffered
<1>6. TableInv(c)'
  BY <1>1, <1>2, <1>4 DEF TableInv
<1>7. RoomInv(c)'
  BY <1>1, <1>2, <1>3 DEF LinkInv, RoomInv
<1>8. ASSUME pc'[c] = "streaming"
      PROVE  /\ \A r \in 1 .. cur'[c] : r > latest => r \in known'[c]
             /\ \A i \in 1 .. Len(history) : history[i] \in known'[c]
  BY <1>8 DEF TypeOK, StreamT
<1>9. SkipInv(c)'
  BY <1>1, <1>2, <1>3, <1>5, <1>8 DEF SkipInv, coming
<1>10. OwedInv(c)'
  BY <1>1, <1>8 DEF OwedInv
<1> QED
  BY <1>6, <1>7, <1>9, <1>10 DEF LinkInv

\* The replay, or the choice of live events, covers the history.
LEMMA ConnectLink ==
  ASSUME TypeOK, RisingInv, NEW c \in Conns, LinkInv(c),
         ConnectLive(c) \/ \E since \in Rev : ConnectReplay(c, since)
  PROVE  LinkInv(c)'
<1>a. HubT /\ StreamT
  BY DEF TypeOK
<1>b. /\ latest \in Nat /\ history \in Seq(1 .. MaxRev) /\ DOMAIN history = 1 .. Len(history)
      /\ \A i \in 1 .. Len(history) : history[i] \in Nat /\ history[i] >= 1 /\ history[i] <= latest
  BY Numbers, LenProperties
<1>1. ASSUME NEW since \in Rev, ConnectReplay(c, since) PROVE LinkInv(c)'
  <2> DEFINE r == replaySince(since)
             x == IF r = {} THEN since ELSE history[Max(r)]
             k == (1 .. since) \cup {history[i] : i \in r}
  <2>1. /\ subscribe(c) /\ pc' = [pc EXCEPT ![c] = "streaming"]
        /\ cur' = [cur EXCEPT ![c] = x] /\ known' = [known EXCEPT ![c] = k]
    BY <1>1 DEF ConnectReplay
  <2>2. since \in Nat
    BY Revisions
  <2>3. ASSUME NEW i \in 1 .. Len(history) PROVE history[i] \in k
    <3>1. CASE history[i] > since
      BY <1>b, <3>1 DEF replaySince
    <3>2. CASE ~(history[i] > since)
      <4>1. history[i] \in 1 .. since
        BY <1>b, <2>2, <3>2
      <4> QED
        BY <4>1
    <3> QED
      BY <3>1, <3>2
  <2>4. ASSUME NEW v \in 1 .. x, v > latest PROVE v \in k
    <3>1. CASE r = {}
      BY <3>1
    <3>2. CASE r # {}
      <4>1. Max(r) \in 1 .. Len(history)
        BY <1>a, <1>b, <3>2, Replay DEF replaySince
      <4> HIDE DEF r, k
      <4>2. x \in Nat /\ x <= latest
        BY <1>b, <3>2, <4>1
      <4> HIDE DEF x
      <4> QED
        BY <1>b, <2>4, <4>2
    <3> QED
      BY <3>1, <3>2
  <2>5. cur'[c] = x /\ known'[c] = k
    BY <1>a, <2>1 DEF StreamT
  <2> HIDE DEF x, k
  <2> QED
    BY <2>1, <2>3, <2>4, <2>5, SubscribedLink
<1>2. ASSUME ConnectLive(c) PROVE LinkInv(c)'
  <2>1. subscribe(c) /\ pc' = [pc EXCEPT ![c] = "streaming"] /\ known'[c] = 1 .. latest /\ cur'[c] = cur[c]
    BY <1>2, <1>a DEF ConnectLive, StreamT
  <2>2. cur[c] = 0
    BY <2>1 DEF subscribe, LinkInv, TableInv
  <2>3. \A i \in 1 .. Len(history) : history[i] \in known'[c]
    BY <1>b, <2>1
  <2>4. \A r \in 1 .. cur'[c] : r > latest => r \in known'[c]
    BY <2>1, <2>2
  <2> QED
    BY <2>1, <2>3, <2>4, SubscribedLink
<1> QED
  BY <1>1, <1>2

\* The snapshot covers everything that was applied when it was scanned.
LEMMA SnapshotLink ==
  ASSUME TypeOK, RisingInv, NEW c \in Conns, LinkInv(c), ReadRevision(c) \/ SendSnapshot(c)
  PROVE  LinkInv(c)'
<1>1. UNCHANGED <<stored, pub, history, watchers, channel, closed>>
  BY DEF ReadRevision, SendSnapshot, loop, hub
<1>2. latest' = latest /\ \A r : buffered(c, r)' <=> buffered(c, r)
  BY <1>1 DEF latest, buffered
<1>3. /\ latest \in Nat /\ applied \in Nat /\ stored \in Nat /\ latest <= applied /\ applied <= stored
      /\ \A i \in 1 .. Len(history) : history[i] \in Nat /\ history[i] >= 1 /\ history[i] <= latest
      /\ snapRev[c] \in Nat
  BY Numbers
<1>4. pc'[c] \in {"scanning", "streaming"} /\ snapRev'[c] <= stored
  <2>1. CASE ReadRevision(c)
    BY <1>3, <2>1 DEF ReadRevision, TypeOK, StreamT
  <2>2. CASE SendSnapshot(c)
    BY <1>3, <2>2 DEF SendSnapshot, TypeOK, StreamT
  <2> QED
    BY <2>1, <2>2
<1>5. TableInv(c)' /\ RoomInv(c)'
  BY <1>1, <1>2, <1>4 DEF LinkInv, TableInv, RoomInv
<1>6. ASSUME pc'[c] = "streaming" PROVE known'[c] = 1 .. stored /\ cur'[c] = snapRev[c]
  BY <1>6 DEF ReadRevision, SendSnapshot, TypeOK, StreamT
<1>7. snapRev[c] <= stored
  BY DEF LinkInv, TableInv
<1>8. \A r \in 1 .. snapRev[c] : r \in 1 .. stored
  BY <1>3, <1>7
<1>9. \A i \in 1 .. Len(history) : history[i] \in 1 .. stored
  BY <1>3
<1>10. SkipInv(c)' /\ OwedInv(c)'
  BY <1>1, <1>6, <1>8, <1>9 DEF SkipInv, OwedInv
<1> QED
  BY <1>5, <1>10 DEF LinkInv

\* A client takes the first event of its channel, or skips it.
LEMMA ReceiveLink ==
  ASSUME TypeOK, RisingInv, NEW c \in Conns, LinkInv(c), Receive(c)
  PROVE  LinkInv(c)'
<1> DEFINE q == channel[c]
           t == Tail(channel[c])
<1>1. /\ pc[c] = "streaming" /\ q # << >> /\ channel' = [channel EXCEPT ![c] = t]
      /\ UNCHANGED <<stored, pub, history, watchers, closed, pc, snapRev>>
  BY DEF Receive, loop
<1>2. channel'[c] = t /\ latest' = latest
  BY <1>1 DEF TypeOK, HubT, latest
<1>3. /\ Head(q) = q[1] /\ Len(q) \in Nat /\ Len(q) >= 1
      /\ t \in Seq(1 .. MaxRev) /\ Len(t) = Len(q) - 1
      /\ \A i \in 1 .. Len(q) - 1 : t[i] = q[i + 1]
  BY <1>1, HeadTail, Numbers
<1>4. /\ latest \in Nat /\ cur[c] \in Nat
      /\ \A i \in 1 .. Len(q) : q[i] \in Nat /\ 0 < q[i] /\ q[i] <= latest
      /\ \A i, j \in 1 .. Len(q) : i < j => q[i] < q[j]
  BY Numbers DEF LinkInv, RoomInv, Rising
<1>5. 1 \in 1 .. Len(q)
  BY <1>3
<1>6. \A r : buffered(c, r) <=> \E i \in 1 .. Len(q) : q[i] = r
  BY DEF buffered
<1>7. \A r : buffered(c, r)' <=> \E i \in 1 .. Len(t) : t[i] = r
  BY <1>2 DEF buffered
<1> HIDE DEF q, t
<1>8. ASSUME NEW i \in 1 .. Len(t) PROVE i \in Int /\ i + 1 \in 1 .. Len(q) /\ 1 < i + 1 /\ t[i] = q[i + 1]
  BY <1>3
<1>9. \A r : buffered(c, r)' => buffered(c, r)
  BY <1>6, <1>7, <1>8
<1>10. \A r : buffered(c, r) => buffered(c, r)' \/ r = q[1]
  <2> SUFFICES ASSUME NEW i \in 1 .. Len(q), i # 1 PROVE \E j \in 1 .. Len(t) : t[j] = q[i]
    BY <1>6, <1>7
  <2>1. PICK j \in 1 .. Len(t) : j + 1 = i
    <3>1. i - 1 \in 1 .. Len(t) /\ (i - 1) + 1 = i
      BY <1>3
    <3> QED
      BY <3>1
  <2> QED
    BY <1>8, <2>1
<1>11. TableInv(c)'
  BY <1>1, <1>2 DEF LinkInv, TableInv, q
<1>12. RoomInv(c)'
  <2>1. ASSUME NEW i \in 1 .. Len(t), NEW j \in 1 .. Len(t), i < j PROVE t[i] < t[j]
    <3>1. i + 1 < j + 1
      BY <1>8, <2>1
    <3> QED
      BY <1>4, <1>8, <3>1
  <2>2. Rising(t, 0, latest)
    BY <1>4, <1>8, <2>1 DEF Rising
  <2> QED
    BY <1>1, <1>2, <1>9, <2>2 DEF LinkInv, RoomInv
<1>13. ASSUME q[1] <= cur[c], cur'[c] = cur[c], known'[c] = known[c] PROVE SkipInv(c)' /\ q[1] \in known'[c]
  <2>1. coming(c, q[1]) /\ \A r : coming(c, r)' => coming(c, r)
    BY <1>1, <1>2, <1>5, <1>6, <1>9 DEF coming
  <2>2. q[1] \in 1 .. cur[c]
    BY <1>4, <1>5, <1>13
  <2> QED
    BY <1>1, <1>13, <2>1, <2>2 DEF LinkInv, SkipInv
<1>14. ASSUME cur'[c] = q[1] PROVE SkipInv(c)'
  <2> SUFFICES ASSUME NEW r \in 1 .. q[1], coming(c, r)' PROVE FALSE
    BY <1>14 DEF SkipInv
  <2>1. q[1] \in Nat /\ q[1] <= latest /\ r \in Nat /\ r <= q[1]
    BY <1>4, <1>5
  <2>2. ~(r > latest)
    BY <1>4, <2>1
  <2>3. ASSUME buffered(c, r)' PROVE FALSE
    <3>1. PICK i \in 1 .. Len(t) : t[i] = r
      BY <1>7, <2>3
    <3>2. q[1] < r
      BY <1>4, <1>5, <1>8, <3>1
    <3> QED
      BY <2>1, <3>2
  <2>4. ASSUME r = latest, c \in pub.targets PROVE FALSE
    <3>1. q[1] = latest
      BY <1>4, <2>1, <2>4
    <3> QED
      BY <1>5, <1>6, <2>4, <3>1 DEF LinkInv, RoomInv
  <2> QED
    BY <1>1, <1>2, <2>2, <2>3, <2>4 DEF coming
<1>15. ASSUME q[1] \in known'[c], known[c] \subseteq known'[c] PROVE OwedInv(c)'
  BY <1>1, <1>10, <1>15 DEF LinkInv, OwedInv
<1>16. \/ q[1] <= cur[c] /\ cur'[c] = cur[c] /\ known'[c] = known[c]
       \/ cur'[c] = q[1] /\ known'[c] = known[c] \cup {q[1]}
  <2>1. CASE Head(q) <= cur[c]
    BY <1>3, <2>1 DEF Receive, q
  <2>2. CASE ~(Head(q) <= cur[c])
    <3>1. cur' = [cur EXCEPT ![c] = q[1]] /\ known' = [known EXCEPT ![c] = @ \cup {q[1]}]
      BY <1>3, <2>2 DEF Receive, q
    <3> QED
      BY <3>1 DEF TypeOK, StreamT
  <2> QED
    BY <2>1, <2>2
<1> QED
  BY <1>11, <1>12, <1>13, <1>14, <1>15, <1>16 DEF LinkInv

\* The handler has returned: nothing is owed to the client.
LEMMA ReturnLink ==
  ASSUME TypeOK, RisingInv, PubInv, NEW c \in Conns, LinkInv(c), ReceiveClosed(c) \/ Leave(c)
  PROVE  LinkInv(c)'
<1>1. /\ channel'[c] = << >> /\ pc'[c] = "ended" /\ snapRev'[c] = 0
      /\ UNCHANGED <<stored, history>> /\ c \notin watchers'
  BY DEF ReceiveClosed, Leave, return, loop, TypeOK, HubT, StreamT, LinkInv, TableInv
<1>2. Len(channel'[c]) = 0
  BY <1>1
<1>3. TableInv(c)'
  BY <1>1, Numbers DEF TableInv
<1>4. RoomInv(c)'
  BY <1>2 DEF RoomInv, Rising, buffered
<1>5. SkipInv(c)' /\ OwedInv(c)'
  BY <1>1 DEF SkipInv, OwedInv
<1> QED
  BY <1>3, <1>4, <1>5 DEF LinkInv

\* The steps that leave a connection alone: those of the two loops that put
\* nothing into its channel, and those of the other handlers.
LEMMA OthersDetached ==
  ASSUME TypeOK, RisingInv, PubInv, NEW c \in Conns, LinkInv(c),
         \/ UNCHANGED vars \/ ApplyEntry \/ EmitReady \/ TakeReady \/ CloseSlow
         \/ \E d \in Conns : \/ SendOnClosed(d) \/ (Send(d) /\ (d # c \/ channel' = channel))
                             \/ d # c /\ HandlerStep(d)
  PROVE  Detached(c)
<1>a. PubT /\ HubT /\ StreamT /\ IdleInv
  BY DEF TypeOK, PubInv
<1>b. /\ c \in watchers => c \notin closed
      /\ pc[c] = "new" => c \notin watchers \cup closed \cup pub.targets \cup pub.slow
      /\ stored \in Nat
  BY Numbers DEF LinkInv, TableInv
<1>1. CASE CloseSlow
  <2>1. /\ pub.targets = {} /\ pub'.targets = {} /\ pub'.slow = {} /\ watchers' = watchers \ pub.slow
        /\ closed' = closed \cup (watchers \cap pub.slow)
        /\ UNCHANGED <<stored, history, channel, pc, cur, known, snapRev>>
    BY <1>1, <1>a DEF CloseSlow, loop, stream, PubT
  <2> QED
    BY <1>b, <2>1 DEF Detached
<1>2. CASE \E d \in Conns : Send(d) /\ (d # c \/ channel' = channel)
  <2>1. PICK d \in Conns : Send(d) /\ (d # c \/ channel' = channel)
    BY <1>2
  <2>2. d \in pub.targets /\ UNCHANGED <<stored, history, watchers, closed, pc, cur, known, snapRev>>
    BY <2>1 DEF Send, loop, stream
  <2>3. channel'[c] = channel[c]
    BY <1>a, <2>1 DEF Send, HubT
  <2>4. /\ pub'.rev = pub.rev /\ (c \in pub'.targets => c \in pub.targets)
        /\ (c \in pub'.targets \cup pub'.slow <=> c \in pub.targets \cup pub.slow)
    <3>1. CASE d # c
      <4>1. \/ pub' = [pub EXCEPT !.targets = @ \ {d}]
            \/ pub' = [pub EXCEPT !.targets = @ \ {d}, !.slow = @ \cup {d}]
        BY <2>1 DEF Send
      <4> QED
        BY <1>a, <3>1, <4>1 DEF PubT
    <3>2. CASE d = c /\ channel' = channel
      <4>1. pub' = [pub EXCEPT !.targets = @ \ {c}, !.slow = @ \cup {c}]
        BY <1>a, <2>1, <3>2, SendKeeps
      <4> QED
        BY <1>a, <2>2, <3>2, <4>1 DEF PubT
    <3> QED
      BY <2>1, <3>1, <3>2
  <2> QED
    BY <1>b, <2>2, <2>3, <2>4 DEF Detached
<1>3. ASSUME UNCHANGED <<hub, stream>>, stored <= stored',
             pub'.rev = pub.rev, pub'.targets = pub.targets, pub'.slow = pub.slow
      PROVE  Detached(c)
  BY <1>b, <1>3 DEF Detached, hub, stream
<1>4. CASE UNCHANGED vars \/ EmitReady \/ ApplyEntry \/ \E d \in Conns : SendOnClosed(d)
  <2>1. UNCHANGED <<hub, stream, pub>> /\ (stored' = stored \/ stored' = stored + 1)
    BY <1>4 DEF EmitReady, ApplyEntry, SendOnClosed, vars, loop
  <2> QED
    BY <1>3, <1>b, <2>1
<1>5. CASE TakeReady
  <2>1. UNCHANGED <<hub, stream, stored>> /\ pub' = [pub EXCEPT !.todo = Head(readyCh)]
    BY <1>5 DEF TakeReady
  <2>2. pub'.rev = pub.rev /\ pub'.targets = pub.targets /\ pub'.slow = pub.slow
    BY <1>a, <2>1 DEF PubT
  <2> QED
    BY <1>3, <1>b, <2>1, <2>2
<1>6. ASSUME NEW d \in Conns, d # c, HandlerStep(d) PROVE Detached(c)
  <2>1. UNCHANGED <<stored, pub, history>>
    BY <1>6 DEF HandlerStep, Handler, ConnectExpired, ConnectSnapshot, ConnectReplay, ConnectLive, subscribe,
                ReadRevision, SendSnapshot, Receive, ReceiveClosed, Leave, loop, hub
  <2>2. /\ pc'[c] = pc[c] /\ cur'[c] = cur[c] /\ known'[c] = known[c] /\ snapRev'[c] = snapRev[c]
        /\ channel'[c] = channel[c] /\ (c \in watchers' => c \in watchers) /\ (c \in closed' => c \in closed)
    BY <1>a, <1>6, OtherHandler
  <2> QED
    BY <1>b, <2>1, <2>2 DEF Detached
<1> QED
  BY <1>1, <1>2, <1>4, <1>5, <1>6

\* The invariant of NothingLost.
LostInv == TypeOK /\ RisingInv /\ PubInv /\ \A c \in Conns : LinkInv(c)

\* It holds in every reachable state, whether or not Readys are dropped.
LEMMA LostInvariance == Spec => []LostInv
<1>1. ASSUME Init PROVE LostInv
  <2>1. TypeOK /\ IdleInv
    BY <1>1, InitTypes
  <2>2. /\ latest = 0 /\ applied = 0 /\ Len(history) = 0 /\ Len(pub.todo) = 0 /\ Len(readyCh) = 0 /\ stored = 0
        /\ watchers = {} /\ closed = {} /\ pub.targets = {} /\ pub.slow = {} /\ pub.rev = 0
    BY <1>1 DEF Init, latest, Idle
  <2>3. RisingInv
    BY <2>2 DEF RisingInv, Rising
  <2>4. PubInv
    BY <2>1, <2>2 DEF PubInv
  <2>5. ASSUME NEW c \in Conns PROVE LinkInv(c)
    <3>1. pc[c] = "new" /\ channel[c] = << >> /\ Len(channel[c]) = 0 /\ cur[c] = 0 /\ snapRev[c] = 0
      BY <1>1 DEF Init
    <3> QED
      BY <2>2, <3>1 DEF LinkInv, TableInv, RoomInv, SkipInv, OwedInv, Rising, buffered
  <2> QED
    BY <2>1, <2>3, <2>4, <2>5 DEF LostInv
<1>2. ASSUME LostInv, [Next]_vars PROVE LostInv'
  <2>1. TypeOK /\ RisingInv /\ PubInv /\ IdleInv
    BY <1>2 DEF LostInv, PubInv
  <2>2. TypeOK'
    BY <1>2, <2>1, LoopsPreserved, HubPreserved, StreamsPreserved DEF TypeOK
  <2>3. RisingInv' /\ PubInv'
    BY <1>2, <2>1, RisingPreserved, PubPreserved
  <2>4. ASSUME NEW c \in Conns PROVE LinkInv(c)'
    <3>a. LinkInv(c)
      BY <1>2 DEF LostInv
    <3>1. CASE Publish
      BY <2>1, <2>2, <3>a, <3>1, PublishLink
    <3>2. CASE Send(c) /\ channel' # channel
      BY <2>1, <3>a, <3>2, SendLink
    <3>3. CASE HandlerStep(c)
      <4>1. ASSUME NEW since \in Rev, ConnectExpired(c, since) \/ ConnectSnapshot(c, since) PROVE LinkInv(c)'
        <5>1. subscribe(c) /\ pc' \in {[pc EXCEPT ![c] = "rejected"], [pc EXCEPT ![c] = "barrier"]}
          BY <4>1 DEF ConnectExpired, ConnectSnapshot
        <5> QED
          BY <2>1, <3>a, <5>1, SubscribedLink
      <4> QED
        BY <2>1, <3>a, <3>3, <4>1, ConnectLink, SnapshotLink, ReceiveLink, ReturnLink DEF HandlerStep, Handler
    <3>4. CASE \/ UNCHANGED vars \/ ApplyEntry \/ EmitReady \/ TakeReady \/ CloseSlow
               \/ \E d \in Conns : \/ SendOnClosed(d) \/ (Send(d) /\ (d # c \/ channel' = channel))
                                   \/ d # c /\ HandlerStep(d)
      BY <2>1, <2>2, <3>a, <3>4, OthersDetached, DetachedLink
    <3> QED
      BY <1>2, <3>1, <3>2, <3>3, <3>4 DEF Next, RunLoop, ForwardLoop, HandlerStep, Finished
  <2> QED
    BY <2>2, <2>3, <2>4 DEF LostInv
<1> QED
  BY <1>1, <1>2, PTL DEF Spec

\* Every event of the history is known to an open connection, waits in its
\* channel, or is the one Publish is sending: for any number of connections and
\* any capacities, and also when emitReady drops Readys.
THEOREM NothingLostTheorem == Spec => []NothingLost
<1>1. ASSUME LostInv PROVE NothingLost
  <2> SUFFICES ASSUME NEW c \in Conns, pc[c] = "streaming", c \in watchers, NEW i \in DOMAIN history
               PROVE  \/ history[i] \in known[c] \cup ToSet(channel[c])
                      \/ history[i] = pub.rev /\ c \in pub.targets \cup pub.slow
    BY DEF NothingLost
  <2>1. TypeOK /\ RisingInv /\ LinkInv(c)
    BY <1>1 DEF LostInv
  <2>2. i \in 1 .. Len(history) /\ DOMAIN channel[c] = 1 .. Len(channel[c])
    BY <2>1, Numbers, LenProperties
  <2>3. buffered(c, history[i]) => history[i] \in ToSet(channel[c])
    BY <2>2 DEF buffered, ToSet
  <2> QED
    BY <2>1, <2>2, <2>3 DEF LinkInv, OwedInv
<1> QED
  BY LostInvariance, <1>1, PTL
=============================================================================
