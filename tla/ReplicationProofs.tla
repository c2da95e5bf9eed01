------------------------- MODULE ReplicationProofs -------------------------
(***************************************************************************)
(* Type correctness of Replication, and that no event is skipped unless    *)
(* the checkpoint is spoilt, for any number of nodes, instances, changes   *)
(* and faults of every kind.                                               *)
(***************************************************************************)
EXTENDS Replication, SharedLemmas

-----------------------------------------------------------------------------
(* The invariant. *)

\* The value v is the one that i has at the source, but for changes after r.
upTo(i, v, r) == v = ValueAt(i, Len(src)) \/ \E k \in r + 1 .. Len(src) : src[k].inst = i

\* The commands on their way: those that are pending, then those that the node
\* whose stream was opened last has yet to propose.
queued(p) == IF p <= Len(pending) THEN pending[p] ELSE work[owner][p - Len(pending)]
total == Len(pending) + Len(work[owner])

\* What a command makes of the directory and the checkpoint.
State == [dir : [Insts -> 0 .. Len(src)], at : 0 .. Len(src)]
after(c, s) == [dir |-> written(c, s.dir), at |-> IF marks(c) THEN c.val ELSE s.at]

\* S is the directory and the checkpoint now and after each queued command.
Path(S) ==
  /\ S \in [0 .. total -> State]
  /\ S[0] = [dir |-> dir, at |-> checkpoint]
  /\ \A p \in 1 .. total : S[p] = after(queued(p), S[p - 1])

\* After p of the queued commands an import is not over.
importing(p) == \E k \in p + 1 .. total : queued(k).op = "imported"

\* After each queued command the directory is the source's up to the checkpoint;
\* while an import is not over, only the checkpoint is known.  After all of them
\* the directory is the source's up to where the stream is.
Sound(S) ==
  /\ \A p \in 0 .. total :
       IF importing(p) THEN S[p].at = checkpoint
       ELSE S[p].at # 0 => \A i \in Insts : upTo(i, S[p].dir[i], S[p].at)
  /\ pc[owner] = "streaming" =>
       S[total].at <= pos[owner] /\ \A i \in Insts : upTo(i, S[total].dir[i], pos[owner])

FutureInv == \E S \in [0 .. total -> State] : Path(S) /\ Sound(S)

\* Only the stream opened last is at work; until it has its first frame, nothing
\* is on its way.  A snapshot without a revision is that of an empty source.
StageInv ==
  /\ \A n \in Nodes : n # owner => pc[n] \in {"idle", "reading"}
  /\ pc[owner] \in {"connecting", "scanning", "snapshot"} => pending = << >>
  /\ pc[owner] = "connecting" => pos[owner] = checkpoint
  /\ pc[owner] \in {"scanning", "snapshot"} /\ frame[owner].rev = 0 =>
       checkpoint = 0 /\ \A i \in Insts : dir[i] = 0

\* What holds even when the checkpoint is spoilt: commands are left only on a
\* stream, and a snapshot frame is the source's up to its revision.
LoopInv ==
  \A n \in Nodes :
    /\ pc[n] # "streaming" => work[n] = << >>
    /\ pc[n] = "snapshot" /\ frame[n].rev # 0 => \A i \in Insts : upTo(i, frame[n].items[i], frame[n].rev)

IInv == TypeOK /\ LoopInv /\ (~spoilt => StageInv /\ FutureInv)

-----------------------------------------------------------------------------
(* The source. *)

\* The changes of the source, and the bounds of its length.
LEMMA Source ==
  ASSUME SourceT
  PROVE  /\ Len(src) \in Nat /\ MaxRev \in Nat /\ Len(src) <= MaxRev
         /\ \A k \in 1 .. Len(src) : src[k].inst \in Insts \cup {Other} /\ src[k].up \in BOOLEAN
<1>1. src \in Seq([inst : Insts \cup {Other}, up : BOOLEAN]) /\ Len(src) <= MaxRev
  BY DEF SourceT
<1>2. Len(src) \in Nat
  BY <1>1, LenProperties
<1>3. ASSUME NEW k \in 1 .. Len(src) PROVE src[k] \in [inst : Insts \cup {Other}, up : BOOLEAN]
  BY <1>1, ElementOfSeq
<1> QED
  BY <1>1, <1>2, <1>3, ReplicationAssumption

\* The last change of an instance up to a revision.
LEMMA LastWrite ==
  ASSUME SourceT, NEW i, NEW r \in 0 .. Len(src)
  PROVE  LET writes == {k \in 1 .. r : src[k].inst = i}
         IN  writes # {} => Max(writes) \in writes /\ \A k \in writes : k <= Max(writes)
<1> DEFINE writes == {k \in 1 .. r : src[k].inst = i}
<1>1. r \in Nat /\ writes \in SUBSET Nat /\ \A k \in writes : k <= r
  BY Source
<1> HIDE DEF writes
<1>2. writes # {} => Max(writes) \in writes /\ \A k \in writes : k <= Max(writes)
  BY <1>1, MaxProperties
<1> QED
  BY <1>2 DEF writes

\* The value of an instance is a revision of the source.
LEMMA ValueType ==
  ASSUME SourceT, NEW i, NEW r \in 0 .. Len(src)
  PROVE  ValueAt(i, r) \in 0 .. r
<1> DEFINE writes == {k \in 1 .. r : src[k].inst = i}
<1>1. r \in Nat
  BY Source
<1>2. writes # {} => Max(writes) \in writes
  BY LastWrite
<1>3. writes # {} => Max(writes) \in 0 .. r
  BY <1>1, <1>2
<1>4. ValueAt(i, r) \in {0, Max(writes)} /\ (writes = {} => ValueAt(i, r) = 0)
  BY DEF ValueAt
<1> HIDE DEF writes
<1> QED
  BY <1>1, <1>3, <1>4

\* An instance that was never written has no value.
LEMMA Unwritten ==
  ASSUME SourceT, NEW i
  PROVE  upTo(i, 0, 0)
BY Source DEF upTo, ValueAt

\* The value that a change gives to its instance holds up to that change.
LEMMA EventValue ==
  ASSUME SourceT, NEW k \in 1 .. Len(src)
  PROVE  upTo(src[k].inst, IF src[k].up THEN k ELSE 0, k)
<1> DEFINE i == src[k].inst
           writes == {m \in 1 .. Len(src) : src[m].inst = i}
<1>1. Len(src) \in Nat
  BY Source
<1> SUFFICES ASSUME ~\E m \in k + 1 .. Len(src) : src[m].inst = i
             PROVE  (IF src[k].up THEN k ELSE 0) = ValueAt(i, Len(src))
  BY DEF upTo
<1>2. k \in writes
  OBVIOUS
<1>3. Max(writes) \in writes /\ \A m \in writes : m <= Max(writes)
  <2>1. Len(src) \in 0 .. Len(src)
    BY <1>1
  <2> QED
    BY <1>2, <2>1, LastWrite
<1>4. Max(writes) = k
  <2>1. Max(writes) \in 1 .. Len(src) /\ k <= Max(writes)
    BY <1>2, <1>3
  <2>2. ~(Max(writes) \in k + 1 .. Len(src))
    BY <1>3
  <2> QED
    BY <1>1, <2>1, <2>2
<1> QED
  BY <1>2, <1>4 DEF ValueAt

\* What held up to a revision still does after another change.
LEMMA ChangeUpTo ==
  ASSUME SourceT, NEW j \in Insts \cup {Other}, NEW up \in BOOLEAN, Change(j, up)
  PROVE  /\ SourceT' /\ Len(src') = Len(src) + 1
         /\ \A i, v : \A r \in 0 .. Len(src) : upTo(i, v, r) => upTo(i, v, r)'
<1> DEFINE R == [inst : Insts \cup {Other}, up : BOOLEAN]
           c == [inst |-> j, up |-> up]
<1>1. src \in Seq(R) /\ c \in R /\ src' = Append(src, c) /\ Len(src) < MaxRev /\ first' = first
  BY DEF SourceT, Change
<1>2. Len(src) \in Nat /\ MaxRev \in Nat
  BY Source
<1> HIDE DEF R, c
<1>3. /\ src' \in Seq(R) /\ Len(src') = Len(src) + 1
      /\ \A k \in 1 .. Len(src) : src'[k] = src[k]
      /\ src'[Len(src) + 1] = c
  BY <1>1, OneMore
<1>4. SourceT'
  <2>1. first' \in 1 .. Len(src') + 1
    BY <1>1, <1>2, <1>3 DEF SourceT
  <2>2. Len(src') <= MaxRev
    BY <1>1, <1>2, <1>3
  <2> QED
    BY <1>3, <2>1, <2>2 DEF SourceT, R
<1>5. ASSUME NEW i, NEW v, NEW r \in 0 .. Len(src), upTo(i, v, r) PROVE upTo(i, v, r)'
  <2>1. CASE \E k \in r + 1 .. Len(src) : src[k].inst = i
    <3>1. PICK k \in r + 1 .. Len(src) : src[k].inst = i
      BY <2>1
    <3>2. k \in 1 .. Len(src) /\ k \in r + 1 .. Len(src')
      BY <1>2, <1>3
    <3>3. src'[k].inst = i
      BY <1>3, <3>1, <3>2
    <3> QED
      BY <3>2, <3>3 DEF upTo
  <2>2. CASE c.inst = i
    <3>1. Len(src) + 1 \in r + 1 .. Len(src') /\ src'[Len(src) + 1].inst = i
      BY <1>2, <1>3, <2>2
    <3> QED
      BY <3>1 DEF upTo
  <2>3. CASE v = ValueAt(i, Len(src)) /\ c.inst # i
    <3> DEFINE old == {k \in 1 .. Len(src) : src[k].inst = i}
               new == {k \in 1 .. Len(src') : src'[k].inst = i}
    <3>1. old = new
      <4>1. ASSUME NEW k PROVE k \in old <=> k \in new
        <5>1. CASE k \in 1 .. Len(src)
          <6>1. k \in 1 .. Len(src') /\ src'[k] = src[k]
            BY <1>2, <1>3, <5>1
          <6> QED
            BY <5>1, <6>1
        <5>2. CASE k \notin 1 .. Len(src)
          <6>1. k \in 1 .. Len(src') => k = Len(src) + 1
            BY <1>2, <1>3, <5>2
          <6>2. k \in 1 .. Len(src') => src'[k] = c
            BY <1>3, <6>1
          <6> QED
            BY <2>3, <5>2, <6>2
        <5> QED
          BY <5>1, <5>2
      <4> HIDE DEF old, new
      <4> QED
        BY <4>1
    <3>2. old # {} => src'[Max(old)] = src[Max(old)]
      <4>1. old # {} => Max(old) \in old
        <5>1. Len(src) \in 0 .. Len(src)
          BY <1>2
        <5> QED
          BY <5>1, LastWrite
      <4> QED
        BY <1>3, <4>1
    <3>3. ValueAt(i, Len(src)) = IF old = {} THEN 0 ELSE IF src[Max(old)].up THEN Max(old) ELSE 0
      BY DEF ValueAt
    <3>4. ValueAt(i, Len(src))' = IF new = {} THEN 0 ELSE IF src'[Max(new)].up THEN Max(new) ELSE 0
      BY DEF ValueAt
    <3> HIDE DEF old, new
    <3>5. v = ValueAt(i, Len(src))'
      BY <2>3, <3>1, <3>2, <3>3, <3>4
    <3> QED
      BY <3>5 DEF upTo
  <2> QED
    BY <1>5, <2>1, <2>2, <2>3 DEF upTo
<1> QED
  BY <1>3, <1>4, <1>5

-----------------------------------------------------------------------------
(* The commands. *)

\* A sequence over a set is one over a larger set.
LEMMA SeqMonotone ==
  ASSUME NEW S, NEW T, S \subseteq T, NEW q \in Seq(S)
  PROVE  q \in Seq(T)
<1>1. Len(q) \in Nat /\ q \in [1 .. Len(q) -> S]
  BY LenProperties
<1>2. q \in [1 .. Len(q) -> T]
  BY <1>1
<1> QED
  BY <1>1, <1>2, SeqDef

\* SetToSeq lists every element of a finite set.
LEMMA Listing ==
  ASSUME NEW S, IsFiniteSet(S)
  PROVE  LET q == SetToSeq(S)
         IN  q \in Seq(S) /\ \A x \in S : \E k \in 1 .. Len(q) : q[k] = x
<1> DEFINE n == Cardinality(S)
           q == SetToSeq(S)
<1>1. n \in Nat /\ ExistsBijection(1 .. n, S)
  BY FS_CardinalityType
<1>2. PICK f \in Bijection(1 .. n, S) : TRUE
  BY <1>1 DEF ExistsBijection
<1>3. f \in [1 .. n -> S] /\ \A a, b \in 1 .. n : f[a] = f[b] => a = b
  BY <1>2 DEF Bijection, Injection, IsInjective
<1>4. q \in [1 .. n -> S] /\ IsInjective(q)
  <2>1. IsInjective(f)
    BY <1>3 DEF IsInjective
  <2> QED
    BY <1>3, <2>1 DEF SetToSeq
<1> HIDE DEF q
<1>5. q \in Seq(S) /\ Len(q) = n
  <2>1. q \in Seq(S)
    BY <1>1, <1>4, SeqDef
  <2> QED
    BY <1>1, <1>4, <2>1, LenProperties
<1>6. ASSUME NEW x \in S, ~\E k \in 1 .. n : q[k] = x PROVE FALSE
  <2>1. q \in [1 .. n -> S \ {x}]
    BY <1>4, <1>6
  <2>2. IsFiniteSet(S \ {x}) /\ Cardinality(S \ {x}) = n - 1
    BY FS_RemoveElement
  <2>3. IsFiniteSet(1 .. n) /\ Cardinality(1 .. n) = n
    BY <1>1, FS_Interval
  <2>4. Cardinality(S \ {x}) < Cardinality(1 .. n)
    BY <1>1, <2>2, <2>3
  <2>5. \E a, b \in 1 .. n : a # b /\ q[a] = q[b]
    <3> DEFINE I == 1 .. n
               T == S \ {x}
    <3>1. q \in [I -> T] /\ IsFiniteSet(I) /\ IsFiniteSet(T) /\ Cardinality(T) < Cardinality(I)
      BY <2>1, <2>2, <2>3, <2>4
    <3> HIDE DEF I, T
    <3>2. \E a, b \in I : a # b /\ q[a] = q[b]
      BY <3>1, FS_PigeonHole
    <3> QED
      BY <3>2 DEF I
  <2> QED
    BY <1>4, <2>5 DEF IsInjective
<1>7. \A x \in S : \E k \in 1 .. n : q[k] = x
  BY <1>6
<1> QED
  BY <1>5, <1>7 DEF q

\* A command leaves a directory.
LEMMA WrittenType ==
  ASSUME NEW c \in Command, NEW d \in [Insts -> 0 .. Len(src)], SourceT
  PROVE  written(c, d) \in [Insts -> 0 .. Len(src)]
<1>1. Len(src) \in Nat
  BY Source
<1>2. c.op \in {"put", "delete", "clear", "checkpoint", "imported"} /\ c.val \in 0 .. Len(src)
  BY DEF Command
<1>3. CASE c.op = "put"
  BY <1>2, <1>3 DEF written
<1>4. CASE c.op = "delete"
  <2>1. 0 \in 0 .. Len(src)
    BY <1>1
  <2>2. written(c, d) = [d EXCEPT ![c.inst] = 0]
    BY <1>4 DEF written, marks
  <2> QED
    BY <2>1, <2>2
<1>5. CASE c.op = "clear"
  BY <1>1, <1>5 DEF written
<1>6. CASE marks(c)
  <2>1. c.op # "put" /\ c.op # "delete" /\ c.op # "clear"
    BY <1>6 DEF marks
  <2> QED
    BY <1>6, <2>1 DEF written
<1> QED
  BY <1>2, <1>3, <1>4, <1>5, <1>6 DEF marks

\* The commands of an event: the instance's new value, then the checkpoint.
LEMMA EventCommands ==
  ASSUME SourceT, NEW k \in 1 .. Len(src)
  PROVE  LET q == eventCommands(k)
             i == src[k].inst
         IN  /\ q \in Seq(Command) /\ Len(q) = 2
             /\ \A d : written(q[1], d) = [d EXCEPT ![i] = IF src[k].up THEN k ELSE 0]
             /\ ~marks(q[1])
             /\ q[2] = command("checkpoint", Other, k)
<1>1. Len(src) \in Nat /\ src[k].inst \in Insts \cup {Other}
  BY Source
<1> DEFINE i == src[k].inst
           a == IF src[k].up THEN command("put", i, k) ELSE command("delete", i, 0)
           b == command("checkpoint", Other, k)
<1>2. a \in Command /\ b \in Command
  BY <1>1 DEF Command, command
<1>3. ~marks(a) /\ \A d : written(a, d) = [d EXCEPT ![i] = IF src[k].up THEN k ELSE 0]
  BY DEF written, command, marks
<1>4. eventCommands(k) = <<a, b>>
  BY DEF eventCommands
<1> HIDE DEF a, b
<1>5. /\ eventCommands(k) \in Seq(Command) /\ Len(eventCommands(k)) = 2
      /\ eventCommands(k)[1] = a /\ eventCommands(k)[2] = b
  BY <1>2, <1>4
<1> QED
  BY <1>3, <1>5 DEF b

\* The commands of a snapshot: the directory is cleared, then each instance that
\* is there is written, in some order, then the checkpoint.
LEMMA SnapshotCommands ==
  ASSUME SourceT, NEW f \in [rev : 0 .. Len(src), items : [Insts -> 0 .. Len(src)]]
  PROVE  LET q == snapshotCommands(f)
         IN  /\ q \in Seq(Command) /\ Len(q) \in Nat /\ Len(q) >= 2
             /\ q[1] = command("clear", Other, 0)
             /\ q[Len(q)] = command("imported", Other, f.rev)
             /\ \A p \in 2 .. Len(q) - 1 : \E i \in Insts : q[p] = command("put", i, f.items[i])
             /\ \A i \in Insts : f.items[i] # 0 => \E p \in 2 .. Len(q) - 1 : q[p] = command("put", i, f.items[i])
<1> DEFINE I == {j \in Insts : f.items[j] # 0}
           put(i) == command("put", i, f.items[i])
           puts == {put(i) : i \in I}
           m == SetToSeq(puts)
           x == command("clear", Other, 0)
           z == command("imported", Other, f.rev)
<1>1. Len(src) \in Nat
  BY Source
<1>2. x \in Command /\ z \in Command /\ puts \subseteq Command
  BY <1>1 DEF Command, command
<1>3. IsFiniteSet(puts)
  <2>1. IsFiniteSet(I)
    BY FS_Subset, ReplicationAssumption
  <2>2. [i \in I |-> put(i)] \in Surjection(I, puts)
    BY DEF Surjection
  <2> QED
    BY <2>1, <2>2, FS_Surjection
<1>4. snapshotCommands(f) = <<x>> \o m \o <<z>>
  BY DEF snapshotCommands
<1> HIDE DEF x, z, m
<1>5. m \in Seq(puts) /\ \A y \in puts : \E k \in 1 .. Len(m) : m[k] = y
  <2> HIDE DEF puts
  <2> QED
    BY <1>3, Listing DEF m
<1>6. \A k \in 1 .. Len(m) : \E i \in I : m[k] = put(i)
  <2>1. \A k \in 1 .. Len(m) : m[k] \in puts
    BY <1>5, ElementOfSeq
  <2> QED
    BY <2>1
<1>7. \A i \in I : \E k \in 1 .. Len(m) : m[k] = put(i)
  BY <1>5
<1>8. m \in Seq(Command) /\ Len(m) \in Nat
  <2> HIDE DEF puts
  <2> QED
    BY <1>2, <1>5, SeqMonotone, LenProperties
<1> HIDE DEF puts, put, I
<1> DEFINE s == <<x>>
           t == <<z>>
           u == s \o m
           q == u \o t
<1>9. s \in Seq(Command) /\ Len(s) = 1 /\ s[1] = x /\ t \in Seq(Command) /\ Len(t) = 1 /\ t[1] = z
  BY <1>2
<1> HIDE DEF s, t
<1>10. /\ u \in Seq(Command) /\ Len(u) = 1 + Len(m)
       /\ \A i \in 1 .. 1 + Len(m) : u[i] = IF i <= 1 THEN s[i] ELSE m[i - 1]
  <2>1. /\ u \in Seq(Command) /\ Len(u) = Len(s) + Len(m)
        /\ \A i \in 1 .. Len(s) + Len(m) : u[i] = IF i <= Len(s) THEN s[i] ELSE m[i - Len(s)]
    BY <1>8, <1>9, ConcatProperties
  <2> QED
    BY <1>9, <2>1
<1> HIDE DEF u
<1>11. /\ q \in Seq(Command) /\ Len(q) = 2 + Len(m)
       /\ \A i \in 1 .. 2 + Len(m) : q[i] = IF i <= 1 + Len(m) THEN u[i] ELSE t[i - (1 + Len(m))]
  <2>1. /\ q \in Seq(Command) /\ Len(q) = Len(u) + Len(t)
        /\ \A i \in 1 .. Len(u) + Len(t) : q[i] = IF i <= Len(u) THEN u[i] ELSE t[i - Len(u)]
    BY <1>9, <1>10, ConcatProperties
  <2>2. Len(u) = 1 + Len(m) /\ Len(u) + Len(t) = 2 + Len(m)
    BY <1>8, <1>9, <1>10
  <2> QED
    BY <2>1, <2>2
<1> HIDE DEF q
<1>12. q[1] = x /\ q[Len(q)] = z /\ \A k \in 1 .. Len(m) : q[k + 1] = m[k]
  <2>1. q[1] = x
    BY <1>8, <1>9, <1>10, <1>11
  <2>2. q[Len(q)] = z
    <3>1. Len(q) \in 1 .. 2 + Len(m) /\ ~(Len(q) <= 1 + Len(m)) /\ Len(q) - (1 + Len(m)) = 1
      BY <1>8, <1>11
    <3> QED
      BY <1>9, <1>11, <3>1
  <2>3. ASSUME NEW k \in 1 .. Len(m) PROVE q[k + 1] = m[k]
    <3>1. /\ k + 1 \in 1 .. 2 + Len(m) /\ k + 1 <= 1 + Len(m)
          /\ k + 1 \in 1 .. 1 + Len(m) /\ ~(k + 1 <= 1) /\ (k + 1) - 1 = k
      BY <1>8
    <3>2. q[k + 1] = u[k + 1]
      BY <1>11, <3>1
    <3> QED
      BY <1>10, <3>1, <3>2
  <2> QED
    BY <2>1, <2>2, <2>3
<1>13. ASSUME NEW p \in 2 .. Len(q) - 1 PROVE \E i \in Insts : q[p] = put(i)
  <2>1. PICK k \in 1 .. Len(m) : p = k + 1
    <3>1. p - 1 \in 1 .. Len(m) /\ p = (p - 1) + 1
      BY <1>8, <1>11
    <3> QED
      BY <3>1
  <2>2. q[p] = m[k]
    BY <1>12, <2>1
  <2> QED
    BY <1>6, <2>2 DEF I
<1>14. ASSUME NEW i \in Insts, f.items[i] # 0 PROVE \E p \in 2 .. Len(q) - 1 : q[p] = put(i)
  <2>1. PICK k \in 1 .. Len(m) : m[k] = put(i)
    BY <1>7, <1>14 DEF I
  <2>2. k + 1 \in 2 .. Len(q) - 1 /\ q[k + 1] = put(i)
    BY <1>8, <1>11, <1>12, <2>1
  <2> QED
    BY <2>2
<1>15. snapshotCommands(f) = q
  BY <1>4 DEF q, u, s, t
<1>16. Len(q) \in Nat /\ Len(q) >= 2
  BY <1>8, <1>11
<1> QED
  BY <1>11, <1>12, <1>13, <1>14, <1>15, <1>16 DEF put, x, z

-----------------------------------------------------------------------------
(* Types. *)

\* The initial state.
LEMMA InitTypes == Init => TypeOK
<1> SUFFICES ASSUME Init PROVE TypeOK
  OBVIOUS
<1>1. src = << >> /\ Len(src) = 0 /\ first = 1
  BY DEF Init
<1>2. SourceT
  BY <1>1, ReplicationAssumption DEF SourceT
<1>3. << >> \in Seq(Command)
  OBVIOUS
<1>4. ClusterT
  BY <1>1, <1>3 DEF Init, ClusterT
<1>5. LoopT
  BY <1>1, <1>3 DEF Init, LoopT, NoFrame
<1>6. faults \in 0 .. MaxFaults
  BY ReplicationAssumption DEF Init
<1>7. owner \in Nodes /\ spoilt \in BOOLEAN
  BY Zenon DEF Init
<1> QED
  BY <1>2, <1>4, <1>5, <1>6, <1>7 DEF TypeOK

\* A new change at the source leaves the types of the rest as they are.
LEMMA ChangeTypes ==
  ASSUME TypeOK, NEW j \in Insts \cup {Other}, NEW up \in BOOLEAN, Change(j, up)
  PROVE  TypeOK'
<1>1. SourceT /\ ClusterT /\ LoopT
  BY DEF TypeOK
<1>2. SourceT' /\ Len(src') = Len(src) + 1 /\ Len(src) \in Nat
  BY <1>1, ChangeUpTo, Source
<1>3. 0 .. Len(src) \subseteq 0 .. Len(src')
  BY <1>2
<1>4. Command \subseteq Command'
  BY <1>3 DEF Command
<1>5. UNCHANGED <<leader, pending, dir, checkpoint, pc, pos, frame, work, faults, owner, spoilt>>
  BY DEF Change, cluster, loop, history
<1>6. pending \in Seq(Command') /\ \A n \in Nodes : work[n] \in Seq(Command')
  <2>1. pending \in Seq(Command) /\ \A n \in Nodes : work[n] \in Seq(Command)
    BY <1>1 DEF ClusterT, LoopT
  <2> QED
    BY <1>4, <2>1, SeqMonotone
<1>7. ClusterT'
  BY <1>1, <1>3, <1>5, <1>6 DEF ClusterT
<1>8. LoopT'
  <2>1. work' \in [Nodes -> Seq(Command')]
    BY <1>1, <1>5, <1>6 DEF LoopT
  <2>2. frame' \in [Nodes -> [rev : 0 .. Len(src'), items : [Insts -> 0 .. Len(src')]]]
    BY <1>1, <1>3, <1>5 DEF LoopT
  <2>3. pos' \in [Nodes -> 0 .. Len(src')]
    BY <1>1, <1>3, <1>5 DEF LoopT
  <2> QED
    BY <1>1, <1>5, <2>1, <2>2, <2>3 DEF LoopT
<1> QED
  BY <1>2, <1>5, <1>7, <1>8 DEF TypeOK

\* The local cluster keeps its type.
LEMMA ClusterTypes ==
  ASSUME TypeOK, [Next]_vars, src' = src
  PROVE  ClusterT'
<1>1. SourceT /\ ClusterT /\ LoopT
  BY DEF TypeOK
<1>2. Command' = Command /\ Len(src') = Len(src)
  BY DEF Command
<1>3. ASSUME Commit PROVE ClusterT'
  <2>1. /\ pending # << >> /\ pending' = Tail(pending) /\ leader' = leader
        /\ dir' = written(Head(pending), dir)
        /\ checkpoint' = IF marks(Head(pending)) THEN Head(pending).val ELSE checkpoint
    BY <1>3 DEF Commit
  <2>2. Head(pending) \in Command /\ Tail(pending) \in Seq(Command)
    BY <1>1, <2>1, HeadTail DEF ClusterT
  <2>3. dir' \in [Insts -> 0 .. Len(src)]
    BY <1>1, <2>1, <2>2, WrittenType DEF ClusterT
  <2>4. checkpoint' \in 0 .. Len(src)
    <3>1. Head(pending).val \in 0 .. Len(src)
      BY <2>2 DEF Command
    <3> QED
      BY <1>1, <2>1, <3>1 DEF ClusterT
  <2> QED
    BY <1>1, <1>2, <2>1, <2>2, <2>3, <2>4 DEF ClusterT
<1>4. ASSUME NEW n \in Nodes, Propose(n) PROVE ClusterT'
  <2>1. /\ work[n] # << >> /\ pending' \in {pending, Append(pending, Head(work[n]))}
        /\ UNCHANGED <<leader, dir, checkpoint>>
    BY <1>4 DEF Propose
  <2>2. Head(work[n]) \in Command
    BY <1>1, <2>1, HeadTail DEF LoopT
  <2>3. pending \in Seq(Command) /\ Append(pending, Head(work[n])) \in Seq(Command)
    BY <1>1, <2>2, OneMore DEF ClusterT
  <2> QED
    BY <1>1, <1>2, <2>1, <2>3 DEF ClusterT
<1>5. ASSUME NEW n \in Nodes, NEW k \in 0 .. Len(pending), elect(n, k) PROVE ClusterT'
  <2>1. leader' = n /\ pending' = SubSeq(pending, 1, k) /\ UNCHANGED <<dir, checkpoint>>
    BY <1>5 DEF elect
  <2>2. SubSeq(pending, 1, k) \in Seq(Command)
    <3>1. pending \in Seq(Command) /\ Len(pending) \in Nat
      BY <1>1, LenProperties DEF ClusterT
    <3>2. ASSUME NEW i \in 1 .. k PROVE pending[i] \in Command
      <4>1. i \in 1 .. Len(pending)
        BY <3>1
      <4> QED
        BY <3>1, <4>1, ElementOfSeq
    <3>3. k \in Int /\ 1 \in Int
      BY <3>1
    <3> QED
      BY <3>2, <3>3, SubSeqProperties
  <2> QED
    BY <1>1, <1>2, <2>1, <2>2 DEF ClusterT
<1>6. ASSUME UNCHANGED cluster PROVE ClusterT'
  BY <1>1, <1>2, <1>6 DEF ClusterT, cluster
<1>7. \/ Commit \/ UNCHANGED cluster
      \/ \E n \in Nodes : Propose(n) \/ \E k \in 0 .. Len(pending) : elect(n, k)
  BY DEF Next, Loop, Change, Forget, CheckRole, ReadCheckpoint, Connect, Scan, TakeSnapshot, TakeEvent, StreamEnds,
         StreamFails, Crash, Depose, vars
<1> QED
  BY <1>3, <1>4, <1>5, <1>6, <1>7

\* The loops keep their types.
LEMMA LoopTypes ==
  ASSUME TypeOK, [Next]_vars, src' = src
  PROVE  LoopT'
<1>1. SourceT /\ ClusterT /\ LoopT
  BY DEF TypeOK
<1>2. Command' = Command /\ Len(src') = Len(src) /\ Len(src) \in Nat
  BY <1>1, Source DEF Command
<1>3. << >> \in Seq(Command) /\ NoFrame \in [rev : 0 .. Len(src), items : [Insts -> 0 .. Len(src)]]
  BY <1>2 DEF NoFrame
<1>4. ASSUME NEW n \in Nodes, CheckRole(n) \/ ReadCheckpoint(n) PROVE LoopT'
  BY <1>1, <1>2, <1>4 DEF CheckRole, ReadCheckpoint, LoopT, ClusterT
<1>5. ASSUME NEW n \in Nodes, Connect(n) PROVE LoopT'
  <2>1. /\ pc' \in {[pc EXCEPT ![n] = "streaming"], [pc EXCEPT ![n] = "scanning"]}
        /\ frame' \in {frame, [frame EXCEPT ![n].rev = Len(src)]} /\ UNCHANGED <<pos, work>>
    BY <1>5 DEF Connect
  <2>2. Len(src) \in 0 .. Len(src)
    BY <1>2
  <2>3. pc' \in [Nodes -> {"idle", "reading", "connecting", "scanning", "snapshot", "streaming"}]
    BY <1>1, <2>1 DEF LoopT
  <2>4. frame' \in [Nodes -> [rev : 0 .. Len(src), items : [Insts -> 0 .. Len(src)]]]
    <3> DEFINE F == [rev : 0 .. Len(src), items : [Insts -> 0 .. Len(src)]]
               g == [frame[n] EXCEPT !.rev = Len(src)]
    <3>1. frame \in [Nodes -> F]
      BY <1>1 DEF LoopT
    <3>2. g \in F
      BY <2>2, <3>1
    <3>3. frame' \in {frame, [frame EXCEPT ![n] = g]}
      BY <2>1
    <3> HIDE DEF F, g
    <3>4. frame' \in [Nodes -> F]
      BY <3>1, <3>2, <3>3
    <3> QED
      BY <3>4 DEF F
  <2> QED
    BY <1>1, <1>2, <2>1, <2>3, <2>4 DEF LoopT
<1>6. ASSUME NEW n \in Nodes, Scan(n) PROVE LoopT'
  <2> DEFINE v == [i \in Insts |-> ValueAt(i, Len(src))]
  <2>1. pc' = [pc EXCEPT ![n] = "snapshot"] /\ frame' = [frame EXCEPT ![n].items = v] /\ UNCHANGED <<pos, work>>
    BY <1>6 DEF Scan
  <2>2. Len(src) \in 0 .. Len(src)
    BY <1>2
  <2>3. v \in [Insts -> 0 .. Len(src)]
    BY <1>1, <2>2, ValueType
  <2> HIDE DEF v
  <2> QED
    BY <1>1, <1>2, <2>1, <2>3 DEF LoopT
<1>7. ASSUME NEW n \in Nodes, TakeSnapshot(n) PROVE LoopT'
  <2> DEFINE w == IF frame[n].rev > 0 THEN snapshotCommands(frame[n]) ELSE << >>
  <2>1. /\ pc' = [pc EXCEPT ![n] = "streaming"] /\ work' = [work EXCEPT ![n] = w]
        /\ pos' = [pos EXCEPT ![n] = frame[n].rev] /\ frame' = [frame EXCEPT ![n] = NoFrame]
    BY <1>7 DEF TakeSnapshot
  <2>2. frame[n] \in [rev : 0 .. Len(src), items : [Insts -> 0 .. Len(src)]]
    BY <1>1 DEF LoopT
  <2>3. w \in Seq(Command) /\ frame[n].rev \in 0 .. Len(src)
    BY <1>1, <1>3, <2>2, SnapshotCommands
  <2> HIDE DEF w
  <2> QED
    BY <1>1, <1>2, <1>3, <2>1, <2>3 DEF LoopT
<1>8. ASSUME NEW n \in Nodes, TakeEvent(n) PROVE LoopT'
  <2>1. /\ ahead(n) # {} /\ work' = [work EXCEPT ![n] = eventCommands(Min(ahead(n)))]
        /\ pos' = [pos EXCEPT ![n] = Min(ahead(n))] /\ UNCHANGED <<pc, frame>>
    BY <1>8 DEF TakeEvent
  <2>2. pos[n] \in Nat /\ ahead(n) \in SUBSET Nat /\ ahead(n) \subseteq 1 .. Len(src)
    BY <1>1, <1>2 DEF LoopT, ahead
  <2>3. Min(ahead(n)) \in 1 .. Len(src)
    BY <2>1, <2>2, MinProperties
  <2>4. Min(ahead(n)) \in 0 .. Len(src) /\ eventCommands(Min(ahead(n))) \in Seq(Command)
    BY <1>1, <1>2, <2>3, EventCommands
  <2> QED
    BY <1>1, <1>2, <2>1, <2>4 DEF LoopT
<1>9. ASSUME NEW n \in Nodes, Propose(n) PROVE LoopT'
  <2>1. work[n] # << >> /\ work' = [work EXCEPT ![n] = Tail(@)] /\ UNCHANGED <<pc, pos, frame>>
    BY <1>9 DEF Propose
  <2>2. Tail(work[n]) \in Seq(Command)
    BY <1>1, <2>1, HeadTail DEF LoopT
  <2> QED
    BY <1>1, <1>2, <2>1, <2>2 DEF LoopT
<1>10. ASSUME NEW n \in Nodes, return(n) PROVE LoopT'
  <2>1. 0 \in 0 .. Len(src)
    BY <1>2
  <2> QED
    BY <1>1, <1>2, <1>3, <1>10, <2>1 DEF LoopT, return
<1>11. ASSUME UNCHANGED loop PROVE LoopT'
  BY <1>1, <1>2, <1>11 DEF LoopT, loop
<1>12. \/ \E n \in Nodes : \/ CheckRole(n) \/ ReadCheckpoint(n) \/ Connect(n) \/ Scan(n) \/ TakeSnapshot(n)
                           \/ TakeEvent(n) \/ Propose(n) \/ return(n)
       \/ UNCHANGED loop
  BY <1>1 DEF Next, Loop, Change, Forget, Commit, StreamEnds, StreamFails, Crash, Depose, vars, ClusterT
<1> QED
  BY <1>4, <1>5, <1>6, <1>7, <1>8, <1>9, <1>10, <1>11, <1>12

\* Every step keeps the types.
LEMMA TypesPreserved == TypeOK /\ [Next]_vars => TypeOK'
<1> SUFFICES ASSUME TypeOK, [Next]_vars PROVE TypeOK'
  OBVIOUS
<1>1. CASE \E i \in Insts \cup {Other}, up \in BOOLEAN : Change(i, up)
  BY <1>1, ChangeTypes
<1>2. CASE src' = src
  <2>1. SourceT'
    <3>1. first' = first \/ first' = Len(src) + 1
      BY DEF Next, Loop, Change, Forget, Commit, CheckRole, ReadCheckpoint, Connect, Scan, TakeSnapshot, TakeEvent,
             Propose, StreamEnds, StreamFails, Crash, Depose, source, vars
    <3>2. Len(src) \in Nat
      BY Source DEF TypeOK
    <3> QED
      BY <1>2, <3>1, <3>2 DEF TypeOK, SourceT
  <2>2. faults' = faults \/ (faults < MaxFaults /\ faults' = faults + 1)
    BY DEF Next, Loop, Change, Forget, Commit, CheckRole, ReadCheckpoint, Connect, Scan, TakeSnapshot, TakeEvent,
           Propose, StreamEnds, StreamFails, Crash, Depose, fault, vars
  <2>3. faults' \in 0 .. MaxFaults
    BY <2>2, ReplicationAssumption DEF TypeOK
  <2>4. owner' \in Nodes /\ spoilt' \in BOOLEAN
    <3>1. ASSUME NEW C, NEW N, lose(C, N) PROVE spoilt' \in BOOLEAN
      BY <3>1 DEF lose
    <3>2. ASSUME NEW n \in Nodes, ReadCheckpoint(n) \/ TakeSnapshot(n) PROVE owner' \in Nodes /\ spoilt' \in BOOLEAN
      BY <3>2 DEF ReadCheckpoint, TakeSnapshot, history, TypeOK
    <3>3. ASSUME NEW n \in Nodes, Propose(n) \/ StreamFails(n) \/ Crash(n) \/ Depose(n)
          PROVE  owner' = owner /\ spoilt' \in BOOLEAN
      BY <3>1, <3>3 DEF Propose, StreamFails, Crash, Depose, elect, TypeOK
    <3>4. \/ \E n \in Nodes : \/ ReadCheckpoint(n) \/ TakeSnapshot(n)
                              \/ Propose(n) \/ StreamFails(n) \/ Crash(n) \/ Depose(n)
          \/ UNCHANGED history
      BY DEF Next, Loop, Change, Forget, Commit, CheckRole, Connect, Scan, TakeEvent, StreamEnds, vars
    <3> QED
      BY <3>2, <3>3, <3>4 DEF history, TypeOK
  <2> QED
    BY <1>2, <2>1, <2>3, <2>4, ClusterTypes, LoopTypes DEF TypeOK
<1> QED
  BY <1>1, <1>2 DEF Next, Loop, Forget, Commit, CheckRole, ReadCheckpoint, Connect, Scan, TakeSnapshot, TakeEvent,
                    Propose, StreamEnds, StreamFails, Crash, Depose, source, vars

\* Replication is type correct, whatever faults happen: neither the checkpoint
\* nor the directory nor a command on its way is ahead of the source.
THEOREM TypeCorrect == Spec => []TypeOK
<1> QED
  BY InitTypes, TypesPreserved, PTL DEF Spec

-----------------------------------------------------------------------------
(* The commands on their way. *)

\* Their number, and that they are commands.
LEMMA Queue ==
  ASSUME TypeOK
  PROVE  /\ Len(pending) \in Nat /\ Len(work[owner]) \in Nat /\ total \in Nat
         /\ \A p \in 1 .. total : queued(p) \in Command
<1>1. pending \in Seq(Command) /\ work[owner] \in Seq(Command)
  BY DEF TypeOK, ClusterT, LoopT
<1>2. Len(pending) \in Nat /\ Len(work[owner]) \in Nat
  BY <1>1, LenProperties
<1>3. total \in Nat
  BY <1>2 DEF total
<1>4. ASSUME NEW p \in 1 .. total PROVE queued(p) \in Command
  <2>1. CASE p <= Len(pending)
    <3>1. p \in 1 .. Len(pending)
      BY <1>2, <2>1
    <3> QED
      BY <1>1, <2>1, <3>1, ElementOfSeq DEF queued
  <2>2. CASE ~(p <= Len(pending))
    <3>1. p - Len(pending) \in 1 .. Len(work[owner])
      BY <1>2, <2>2 DEF total
    <3> QED
      BY <1>1, <2>2, <3>1, ElementOfSeq DEF queued
  <2> QED
    BY <2>1, <2>2
<1> QED
  BY <1>2, <1>3, <1>4

\* A command leaves a state.
LEMMA AfterType ==
  ASSUME TypeOK, NEW c \in Command, NEW s \in State
  PROVE  after(c, s) \in State
<1>1. s.dir \in [Insts -> 0 .. Len(src)] /\ s.at \in 0 .. Len(src) /\ c.val \in 0 .. Len(src)
  BY DEF State, Command
<1>2. written(c, s.dir) \in [Insts -> 0 .. Len(src)]
  BY <1>1, WrittenType DEF TypeOK
<1> QED
  BY <1>1, <1>2 DEF after, State

\* While the source stays, so does what is said about it.
LEMMA SameSource ==
  ASSUME src' = src
  PROVE  State' = State /\ \A i, v, r : upTo(i, v, r)' = upTo(i, v, r)
BY DEF State, upTo, ValueAt

\* A step that changes nothing but the stage of a loop, or the stream.
LEMMA FutureFrame ==
  ASSUME FutureInv, UNCHANGED <<src, pending, dir, checkpoint>>, work'[owner'] = work[owner],
         pc'[owner'] = "streaming" => pc[owner] = "streaming" /\ pos'[owner'] = pos[owner]
  PROVE  FutureInv'
<1>1. PICK S \in [0 .. total -> State] : Path(S) /\ Sound(S)
  BY DEF FutureInv
<1>2. total' = total /\ \A p : queued(p)' = queued(p)
  BY DEF total, queued
<1>3. State' = State /\ \A i, v, r : upTo(i, v, r)' = upTo(i, v, r)
  BY SameSource
<1>4. \A p : importing(p)' = importing(p)
  BY <1>2 DEF importing
<1>5. Path(S)'
  BY <1>1, <1>2, <1>3 DEF Path
<1>6. Sound(S)'
  BY <1>1, <1>2, <1>3, <1>4 DEF Sound
<1> QED
  BY <1>1, <1>2, <1>3, <1>5, <1>6 DEF FutureInv

\* What it takes for the invariant to hold after a step.
LEMMA FutureIntro ==
  ASSUME NEW N, NEW T, NEW r, N = total', T \in [0 .. N -> State'],
         T[0] = [dir |-> dir', at |-> checkpoint'],
         \A p \in 1 .. N : T[p] = after(queued(p)', T[p - 1]),
         \A p \in 0 .. N :
           IF importing(p)' THEN T[p].at = checkpoint'
           ELSE T[p].at # 0 => \A i \in Insts : upTo(i, T[p].dir[i], T[p].at)',
         pc'[owner'] = "streaming" =>
           pos'[owner'] = r /\ T[N].at <= r /\ \A i \in Insts : upTo(i, T[N].dir[i], r)'
  PROVE  FutureInv'
<1>1. Path(T)'
  BY DEF Path
<1>2. Sound(T)'
  BY DEF Sound
<1> QED
  BY <1>1, <1>2 DEF FutureInv

\* A step that loses the end of what is queued and with it the stream.  If an
\* import is cut short, there is no checkpoint yet.
LEMMA FutureCut ==
  ASSUME TypeOK, FutureInv, UNCHANGED <<src, dir, checkpoint>>,
         total' \in 0 .. total, \A p \in 1 .. total' : queued(p)' = queued(p), pc'[owner'] # "streaming",
         checkpoint = 0 \/ ~\E k \in total' + 1 .. total : queued(k).op = "imported"
  PROVE  FutureInv'
<1>1. PICK S \in [0 .. total -> State] : Path(S) /\ Sound(S)
  BY DEF FutureInv
<1>2. State' = State /\ \A i, v, r : upTo(i, v, r)' = upTo(i, v, r)
  BY SameSource
<1>3. PICK N \in 0 .. total : N = total'
  OBVIOUS
<1>4. PICK T : T = [p \in 0 .. N |-> S[p]]
  OBVIOUS
<1>5. N \in Nat /\ 0 .. N \subseteq 0 .. total
  BY Queue
<1>6. T \in [0 .. N -> State'] /\ \A p \in 0 .. N : T[p] = S[p]
  BY <1>1, <1>2, <1>4, <1>5
<1>7. T[0] = [dir |-> dir', at |-> checkpoint']
  BY <1>1, <1>5, <1>6 DEF Path
<1>8. ASSUME NEW p \in 1 .. N PROVE T[p] = after(queued(p)', T[p - 1])
  <2>1. p \in 1 .. total /\ p \in 0 .. N /\ p - 1 \in 0 .. N
    BY <1>5
  <2>2. S[p] = after(queued(p), S[p - 1])
    BY <1>1, <2>1 DEF Path
  <2> QED
    BY <1>3, <1>6, <2>1, <2>2
<1>9. ASSUME NEW p \in 0 .. N, importing(p)' PROVE T[p].at = checkpoint'
  <2>1. PICK k \in p + 1 .. N : queued(k)'.op = "imported"
    BY <1>3, <1>9 DEF importing
  <2>2. k \in 1 .. N /\ k \in p + 1 .. total
    BY <1>5, Queue
  <2>3. queued(k).op = "imported"
    BY <1>3, <2>1, <2>2
  <2>4. importing(p)
    BY <2>2, <2>3 DEF importing
  <2> QED
    BY <1>1, <1>5, <1>6, <2>4 DEF Sound
<1>10. ASSUME NEW p \in 0 .. N, ~importing(p)', T[p].at # 0, NEW i \in Insts PROVE upTo(i, T[p].dir[i], T[p].at)'
  <2>1. p \in 0 .. total /\ T[p] = S[p]
    BY <1>5, <1>6
  <2>2. ~importing(p)
    <3> SUFFICES ASSUME NEW k \in p + 1 .. total, queued(k).op = "imported" PROVE FALSE
      BY DEF importing
    <3>1. importing(p)
      BY DEF importing
    <3>2. S[p].at = checkpoint
      BY <1>1, <2>1, <3>1 DEF Sound
    <3>3. checkpoint # 0
      BY <1>10, <2>1, <3>2
    <3>4. k \notin N + 1 .. total
      BY <1>3, <3>3
    <3>5. k \in p + 1 .. N /\ k \in 1 .. N
      BY <1>5, <3>4, Queue
    <3>6. queued(k)'.op = "imported"
      BY <1>3, <3>5
    <3> QED
      BY <1>3, <1>10, <3>5, <3>6 DEF importing
  <2>3. upTo(i, T[p].dir[i], T[p].at)
    BY <1>1, <1>10, <2>1, <2>2 DEF Sound
  <2> QED
    BY <1>2, <2>3
<1> QED
  BY <1>3, <1>6, <1>7, <1>8, <1>9, <1>10, FutureIntro

\* Another change at the source.
LEMMA FutureChange ==
  ASSUME TypeOK, FutureInv, NEW j \in Insts \cup {Other}, NEW up \in BOOLEAN, Change(j, up)
  PROVE  FutureInv'
<1>1. PICK S \in [0 .. total -> State] : Path(S) /\ Sound(S)
  BY DEF FutureInv
<1>2. UNCHANGED <<owner, pending, dir, checkpoint, pc, pos, work>>
  BY DEF Change, cluster, loop, history
<1>3. total' = total /\ \A p : queued(p)' = queued(p) /\ importing(p)' = importing(p)
  <2>1. total' = total /\ \A p : queued(p)' = queued(p)
    BY <1>2 DEF total, queued
  <2> QED
    BY <2>1 DEF importing
<1>4. /\ SourceT /\ Len(src') = Len(src) + 1 /\ Len(src) \in Nat
      /\ \A i, v : \A r \in 0 .. Len(src) : upTo(i, v, r) => upTo(i, v, r)'
  BY ChangeUpTo, Source DEF TypeOK
<1>5. State \subseteq State'
  <2>1. 0 .. Len(src) \subseteq 0 .. Len(src')
    BY <1>4
  <2> QED
    BY <2>1 DEF State
<1>6. PICK N : N = total
  OBVIOUS
<1>7. PICK r \in 0 .. Len(src) : r = pos[owner]
  BY DEF TypeOK, ClusterT, LoopT
<1>8. S \in [0 .. N -> State] /\ S \in [0 .. N -> State'] /\ N \in 0 .. N
  BY <1>1, <1>5, <1>6, Queue
<1>9. ASSUME NEW p \in 0 .. N, ~importing(p), S[p].at # 0, NEW i \in Insts
      PROVE  upTo(i, S[p].dir[i], S[p].at)'
  <2>1. S[p].at \in 0 .. Len(src)
    BY <1>8 DEF State
  <2>2. upTo(i, S[p].dir[i], S[p].at)
    BY <1>1, <1>6, <1>9 DEF Sound
  <2> QED
    BY <1>4, <2>1, <2>2
<1>10. ASSUME pc[owner] = "streaming"
       PROVE  S[N].at <= r /\ \A i \in Insts : upTo(i, S[N].dir[i], r)'
  <2>1. S[N].at <= r /\ \A i \in Insts : upTo(i, S[N].dir[i], r)
    BY <1>1, <1>6, <1>7, <1>10 DEF Sound
  <2> QED
    BY <1>4, <2>1
<1>11. \A p \in 0 .. N : importing(p) => S[p].at = checkpoint'
  BY <1>1, <1>2, <1>6 DEF Sound
<1>12. S[0] = [dir |-> dir', at |-> checkpoint'] /\ \A p \in 1 .. N : S[p] = after(queued(p)', S[p - 1])
  BY <1>1, <1>2, <1>3, <1>6 DEF Path
<1> QED
  BY <1>2, <1>3, <1>6, <1>7, <1>8, <1>9, <1>10, <1>11, <1>12, FutureIntro

\* The oldest command is committed: the path loses its first state.
LEMMA FutureCommit ==
  ASSUME TypeOK, FutureInv, Commit
  PROVE  FutureInv'
<1>1. PICK S \in [0 .. total -> State] : Path(S) /\ Sound(S)
  BY DEF FutureInv
<1>2. /\ pending # << >> /\ pending' = Tail(pending)
      /\ dir' = written(Head(pending), dir)
      /\ checkpoint' = IF marks(Head(pending)) THEN Head(pending).val ELSE checkpoint
      /\ UNCHANGED <<src, owner, work, pc, pos>>
  BY DEF Commit, source, loop, history
<1>3. /\ Head(pending) = pending[1] /\ Len(pending) \in Nat /\ Len(pending) >= 1
      /\ Len(pending') = Len(pending) - 1
      /\ \A i \in 1 .. Len(pending) - 1 : pending'[i] = pending[i + 1]
  <2>1. pending \in Seq(Command)
    BY DEF TypeOK, ClusterT
  <2> QED
    BY <1>2, <2>1, HeadTail
<1>4. total \in Nat /\ total >= 1 /\ total' = total - 1
  BY <1>2, <1>3, Queue DEF total
<1>5. ASSUME NEW p \in 1 .. total' PROVE queued(p)' = queued(p + 1)
  <2>1. CASE p <= Len(pending')
    <3>1. p \in 1 .. Len(pending) - 1 /\ p + 1 <= Len(pending)
      BY <1>3, <2>1
    <3> QED
      BY <1>3, <2>1, <3>1 DEF queued
  <2>2. CASE ~(p <= Len(pending'))
    <3>1. ~(p + 1 <= Len(pending)) /\ p - Len(pending') = (p + 1) - Len(pending)
      BY <1>3, <2>2
    <3> QED
      BY <1>2, <2>2, <3>1 DEF queued
  <2> QED
    BY <2>1, <2>2
<1>6. queued(1) = Head(pending)
  BY <1>3 DEF queued
<1>7. State' = State /\ \A i, v, r : upTo(i, v, r)' = upTo(i, v, r)
  BY <1>2, SameSource
<1>8. PICK N \in Nat : N = total' /\ N + 1 = total
  BY <1>4
<1>9. PICK T : T = [p \in 0 .. N |-> S[p + 1]]
  OBVIOUS
<1>10. PICK r : r = pos[owner]
  OBVIOUS
<1>11. T \in [0 .. N -> State'] /\ \A p \in 0 .. N : T[p] = S[p + 1] /\ p + 1 \in 1 .. total
  <2>1. \A p \in 0 .. N : p + 1 \in 1 .. total /\ p + 1 \in 0 .. total
    BY <1>8
  <2> QED
    BY <1>1, <1>7, <1>9, <2>1
<1>12. T[0] = [dir |-> dir', at |-> checkpoint']
  <2>1. T[0] = S[1] /\ 1 \in 1 .. total
    BY <1>8, <1>11
  <2>2. S[1] = after(queued(1), S[0])
    BY <1>1, <2>1 DEF Path
  <2> QED
    BY <1>1, <1>2, <1>6, <2>1, <2>2 DEF Path, after
<1>13. ASSUME NEW p \in 1 .. N PROVE T[p] = after(queued(p)', T[p - 1])
  <2>1. p \in 0 .. N /\ p - 1 \in 0 .. N /\ (p - 1) + 1 = p /\ p + 1 \in 1 .. total /\ (p + 1) - 1 = p
    BY <1>8
  <2>2. T[p] = S[p + 1] /\ T[p - 1] = S[p]
    BY <1>11, <2>1
  <2>3. S[p + 1] = after(queued(p + 1), S[p])
    BY <1>1, <2>1 DEF Path
  <2> QED
    BY <1>5, <1>8, <2>2, <2>3
<1>14. ASSUME NEW p \in 0 .. N PROVE importing(p)' <=> importing(p + 1)
  <2>1. ASSUME NEW k \in p + 1 .. N PROVE k + 1 \in (p + 1) + 1 .. total /\ queued(k)' = queued(k + 1)
    <3>1. k \in 1 .. N /\ k + 1 \in (p + 1) + 1 .. total
      BY <1>8
    <3> QED
      BY <1>5, <1>8, <3>1
  <2>2. ASSUME NEW k \in (p + 1) + 1 .. total PROVE \E m \in p + 1 .. N : k = m + 1
    <3>1. k - 1 \in p + 1 .. N /\ k = (k - 1) + 1
      BY <1>8
    <3> QED
      BY <3>1
  <2> QED
    BY <1>8, <2>1, <2>2 DEF importing
<1>15. ASSUME NEW p \in 0 .. N, importing(p)' PROVE T[p].at = checkpoint'
  <2>1. importing(p + 1) /\ T[p] = S[p + 1] /\ p + 1 \in 0 .. total
    <3>1. p + 1 \in 0 .. total
      BY <1>8
    <3> QED
      BY <1>11, <1>14, <1>15, <3>1
  <2>2. importing(1)
    <3>1. PICK k \in (p + 1) + 1 .. total : queued(k).op = "imported"
      BY <2>1 DEF importing
    <3>2. k \in 1 + 1 .. total
      BY <1>8
    <3> QED
      BY <3>1, <3>2 DEF importing
  <2>3. 1 \in 0 .. total /\ 0 \in 0 .. N /\ T[0] = S[0 + 1] /\ 0 + 1 = 1
    BY <1>8, <1>11
  <2>4. S[1].at = checkpoint /\ S[p + 1].at = checkpoint
    BY <1>1, <2>1, <2>2, <2>3 DEF Sound
  <2>5. S[1].at = checkpoint'
    BY <1>12, <2>3
  <2> QED
    BY <2>1, <2>4, <2>5
<1>16. ASSUME NEW p \in 0 .. N, ~importing(p)', T[p].at # 0, NEW i \in Insts
       PROVE  upTo(i, T[p].dir[i], T[p].at)'
  <2>1. T[p] = S[p + 1] /\ p + 1 \in 0 .. total
    BY <1>8, <1>11
  <2>2. upTo(i, T[p].dir[i], T[p].at)
    BY <1>1, <1>14, <1>16, <2>1 DEF Sound
  <2> QED
    BY <1>7, <2>2
<1>17. ASSUME pc[owner] = "streaming"
       PROVE  T[N].at <= r /\ \A i \in Insts : upTo(i, T[N].dir[i], r)'
  <2>1. T[N] = S[total]
    BY <1>8, <1>11
  <2>2. T[N].at <= r /\ \A i \in Insts : upTo(i, T[N].dir[i], r)
    BY <1>1, <1>10, <1>17, <2>1 DEF Sound
  <2> QED
    BY <1>7, <2>2
<1> QED
  BY <1>2, <1>7, <1>8, <1>10, <1>11, <1>12, <1>13, <1>15, <1>16, <1>17, FutureIntro

\* A command is proposed and taken: it is queued as before.
LEMMA FuturePropose ==
  ASSUME TypeOK, FutureInv, Propose(owner), pending' # pending
  PROVE  FutureInv'
<1>1. PICK S \in [0 .. total -> State] : Path(S) /\ Sound(S)
  BY DEF FutureInv
<1> DEFINE w == work[owner]
<1>2. /\ w # << >> /\ work' = [work EXCEPT ![owner] = Tail(w)] /\ pending' = Append(pending, Head(w))
      /\ UNCHANGED <<src, owner, dir, checkpoint, pc, pos>>
  BY DEF Propose, source
<1>3. pending \in Seq(Command) /\ w \in Seq(Command) /\ work'[owner'] = Tail(w)
  BY <1>2 DEF TypeOK, ClusterT, LoopT
<1> HIDE DEF w
<1>4. /\ Head(w) \in Command /\ Head(w) = w[1] /\ Len(w) \in Nat /\ Len(w) >= 1
      /\ Len(Tail(w)) = Len(w) - 1 /\ \A i \in 1 .. Len(w) - 1 : Tail(w)[i] = w[i + 1]
  BY <1>2, <1>3, HeadTail
<1>5. /\ Len(pending) \in Nat /\ Len(pending') = Len(pending) + 1
      /\ \A i \in 1 .. Len(pending) : pending'[i] = pending[i]
      /\ pending'[Len(pending) + 1] = Head(w)
  BY <1>2, <1>3, <1>4, OneMore
<1>6. total' = total
  <2>1. total' = Len(pending') + Len(Tail(w)) /\ total = Len(pending) + Len(w)
    BY <1>3 DEF total, w
  <2> QED
    BY <1>4, <1>5, <2>1
<1>7. ASSUME NEW p \in 1 .. total PROVE queued(p)' = queued(p)
  <2>a. p \in Nat /\ p >= 1 /\ p <= Len(pending) + Len(w)
    BY <1>4, <1>5 DEF total, w
  <2>b. queued(p) = IF p <= Len(pending) THEN pending[p] ELSE w[p - Len(pending)]
    BY DEF queued, w
  <2>c. queued(p)' = IF p <= Len(pending') THEN pending'[p] ELSE Tail(w)[p - Len(pending')]
    BY <1>3 DEF queued
  <2>1. CASE p <= Len(pending)
    BY <1>5, <2>1, <2>a, <2>b, <2>c
  <2>2. CASE p = Len(pending) + 1
    BY <1>4, <1>5, <2>2, <2>b, <2>c
  <2>3. CASE p > Len(pending) + 1
    <3>1. PICK k \in 1 .. Len(w) - 1 : k = p - Len(pending') /\ k + 1 = p - Len(pending)
      <4>1. p - Len(pending') \in 1 .. Len(w) - 1 /\ (p - Len(pending')) + 1 = p - Len(pending)
        BY <1>4, <1>5, <2>3, <2>a
      <4> QED
        BY <4>1
    <3>2. Tail(w)[k] = w[k + 1]
      BY <1>4
    <3> QED
      BY <1>5, <2>3, <2>a, <2>b, <2>c, <3>1, <3>2
  <2> QED
    BY <1>5, <2>1, <2>2, <2>3, <2>a
<1>8. State' = State /\ \A i, v, r : upTo(i, v, r)' = upTo(i, v, r)
  BY <1>2, SameSource
<1>9. Path(S)'
  BY <1>1, <1>2, <1>6, <1>7, <1>8 DEF Path
<1>10. \A p \in 0 .. total : importing(p)' = importing(p)
  <2>1. ASSUME NEW p \in 0 .. total, NEW k \in p + 1 .. total PROVE queued(k)' = queued(k)
    <3>1. k \in 1 .. total
      BY Queue
    <3> QED
      BY <1>7, <3>1
  <2> QED
    BY <1>6, <2>1 DEF importing
<1>11. Sound(S)'
  BY <1>1, <1>2, <1>6, <1>8, <1>10 DEF Sound
<1> QED
  BY <1>1, <1>6, <1>8, <1>9, <1>11 DEF FutureInv

\* S is what the pending commands make of the directory and the checkpoint, and
\* what Sound asks of it when the commands q of a frame follow.
Before(S, q) ==
  /\ S \in [0 .. Len(pending) -> State]
  /\ S[0] = [dir |-> dir, at |-> checkpoint]
  /\ \A p \in 1 .. Len(pending) : S[p] = after(pending[p], S[p - 1])
  /\ \A p \in 0 .. Len(pending) :
       IF \/ \E k \in p + 1 .. Len(pending) : pending[k].op = "imported"
          \/ \E k \in 1 .. Len(q) : q[k].op = "imported"
         THEN S[p].at = checkpoint
         ELSE S[p].at # 0 => \A i \in Insts : upTo(i, S[p].dir[i], S[p].at)

\* E is what the commands q of a frame make of the state s, and what Sound asks
\* of it when the frame ends at revision r.
Taken(s, q, E, r) ==
  /\ E \in [1 .. Len(q) -> State]
  /\ E[1] = after(q[1], s)
  /\ \A p \in 2 .. Len(q) : E[p] = after(q[p], E[p - 1])
  /\ \A p \in 1 .. Len(q) :
       IF \E k \in p + 1 .. Len(q) : q[k].op = "imported"
         THEN E[p].at = checkpoint
         ELSE E[p].at # 0 => \A i \in Insts : upTo(i, E[p].dir[i], E[p].at)
  /\ E[Len(q)].at <= r
  /\ \A i \in Insts : upTo(i, E[Len(q)].dir[i], r)

\* A frame is taken: its commands are queued behind those that are pending.
LEMMA FutureTake ==
  ASSUME TypeOK, UNCHANGED <<src, pending, dir, checkpoint>>,
         NEW S, NEW q \in Seq(Command), Len(q) >= 1, NEW E, NEW r,
         Before(S, q), Taken(S[Len(pending)], q, E, r), work'[owner'] = q, pos'[owner'] = r
  PROVE  FutureInv'
<1>1. PICK M \in Nat : M = Len(pending)
  BY Queue
<1>2. /\ S \in [0 .. M -> State] /\ S[0] = [dir |-> dir, at |-> checkpoint]
      /\ \A p \in 1 .. M : S[p] = after(pending[p], S[p - 1])
  BY <1>1 DEF Before
<1>3. \A p \in 0 .. M :
        IF (\E k \in p + 1 .. M : pending[k].op = "imported") \/ \E k \in 1 .. Len(q) : q[k].op = "imported"
          THEN S[p].at = checkpoint
          ELSE S[p].at # 0 => \A i \in Insts : upTo(i, S[p].dir[i], S[p].at)
  BY <1>1 DEF Before
<1>4. /\ E \in [1 .. Len(q) -> State] /\ E[1] = after(q[1], S[M])
      /\ \A p \in 2 .. Len(q) : E[p] = after(q[p], E[p - 1])
  BY <1>1 DEF Taken
<1>5. \A p \in 1 .. Len(q) :
        IF \E k \in p + 1 .. Len(q) : q[k].op = "imported"
          THEN E[p].at = checkpoint
          ELSE E[p].at # 0 => \A i \in Insts : upTo(i, E[p].dir[i], E[p].at)
  BY DEF Taken
<1>6. E[Len(q)].at <= r /\ \A i \in Insts : upTo(i, E[Len(q)].dir[i], r)
  BY DEF Taken
<1>7. Len(q) \in Nat
  BY LenProperties
<1>8. PICK N \in Nat : N = total' /\ N = M + Len(q)
  BY <1>1, <1>7 DEF total
<1>9. State' = State /\ \A i, v, x : upTo(i, v, x)' = upTo(i, v, x)
  BY SameSource
<1>10. PICK T : T = [p \in 0 .. N |-> IF p <= M THEN S[p] ELSE E[p - M]]
  OBVIOUS
<1>11. \A p \in 0 .. M : p \in 0 .. N /\ T[p] = S[p] /\ S[p] \in State
  <2>1. \A p \in 0 .. M : p \in 0 .. N /\ p <= M
    BY <1>7, <1>8
  <2> QED
    BY <1>2, <1>10, <2>1
<1>12. \A p \in M + 1 .. N : p - M \in 1 .. Len(q) /\ T[p] = E[p - M] /\ E[p - M] \in State
  <2>1. \A p \in M + 1 .. N : p - M \in 1 .. Len(q) /\ p \in 0 .. N /\ ~(p <= M)
    BY <1>7, <1>8
  <2> QED
    BY <1>4, <1>10, <2>1
<1>13. \A p \in 0 .. N : p \in 0 .. M \/ p \in M + 1 .. N
  BY <1>7, <1>8
<1>14. T \in [0 .. N -> State']
  <2>1. \A p \in 0 .. N : T[p] \in State
    BY <1>11, <1>12, <1>13
  <2>2. T = [p \in 0 .. N |-> T[p]]
    BY <1>10
  <2> QED
    BY <1>9, <2>1, <2>2
<1>15. T[0] = [dir |-> dir', at |-> checkpoint']
  BY <1>2, <1>11
<1>16. ASSUME NEW p \in 1 .. N PROVE queued(p)' = IF p <= M THEN pending[p] ELSE q[p - M]
  BY <1>1, <1>7 DEF queued
<1>17. ASSUME NEW p \in 1 .. N PROVE T[p] = after(queued(p)', T[p - 1])
  <2>1. queued(p)' = IF p <= M THEN pending[p] ELSE q[p - M]
    BY <1>16
  <2>2. CASE p <= M
    <3>1. p \in 0 .. M /\ p - 1 \in 0 .. M /\ p \in 1 .. M
      BY <1>7, <2>2
    <3>2. S[p] = after(pending[p], S[p - 1])
      BY <1>2, <3>1
    <3> QED
      BY <1>11, <2>1, <2>2, <3>1, <3>2
  <2>3. CASE p = M + 1
    <3>1. p \in M + 1 .. N /\ p - 1 = M /\ p - M = 1 /\ M \in 0 .. M /\ ~(p <= M)
      BY <1>7, <1>8, <2>3
    <3>2. T[p] = E[1] /\ T[p - 1] = S[M] /\ queued(p)' = q[1]
      BY <1>11, <1>12, <2>1, <3>1
    <3> QED
      BY <1>4, <3>2
  <2>4. CASE p > M + 1
    <3>1. PICK m \in 2 .. Len(q) : m = p - M /\ m - 1 = (p - 1) - M
      <4>1. p - M \in 2 .. Len(q) /\ (p - M) - 1 = (p - 1) - M
        BY <1>7, <1>8, <2>4
      <4> QED
        BY <4>1
    <3>2. p \in M + 1 .. N /\ p - 1 \in M + 1 .. N /\ ~(p <= M)
      BY <1>7, <1>8, <2>4
    <3>3. T[p] = E[m] /\ T[p - 1] = E[m - 1] /\ queued(p)' = q[m]
      BY <1>12, <2>1, <3>1, <3>2
    <3> QED
      BY <1>4, <3>1, <3>3
  <2> QED
    BY <1>7, <2>2, <2>3, <2>4
<1>18. ASSUME NEW p \in 0 .. M
       PROVE  importing(p)' <=> (\E k \in p + 1 .. M : pending[k].op = "imported")
                                  \/ \E k \in 1 .. Len(q) : q[k].op = "imported"
  <2>1. ASSUME NEW k \in p + 1 .. N
        PROVE  \/ k \in p + 1 .. M /\ queued(k)' = pending[k]
               \/ k - M \in 1 .. Len(q) /\ queued(k)' = q[k - M]
    <3>1. k \in 1 .. N /\ ((k \in p + 1 .. M /\ k <= M) \/ (k - M \in 1 .. Len(q) /\ ~(k <= M)))
      BY <1>7, <1>8
    <3> QED
      BY <1>16, <3>1
  <2>2. ASSUME NEW k \in p + 1 .. M PROVE k \in p + 1 .. N /\ queued(k)' = pending[k]
    <3>1. k \in 1 .. N /\ k \in p + 1 .. N /\ k <= M
      BY <1>7, <1>8
    <3> QED
      BY <1>16, <3>1
  <2>3. ASSUME NEW k \in 1 .. Len(q) PROVE M + k \in p + 1 .. N /\ queued(M + k)' = q[k]
    <3>1. M + k \in 1 .. N /\ M + k \in p + 1 .. N /\ ~(M + k <= M) /\ (M + k) - M = k
      BY <1>7, <1>8
    <3> QED
      BY <1>16, <3>1
  <2>4. importing(p)' <=> \E k \in p + 1 .. N : queued(k)'.op = "imported"
    BY <1>8 DEF importing
  <2>5. ASSUME NEW k \in p + 1 .. M, pending[k].op = "imported" PROVE importing(p)'
    BY <2>2, <2>4, <2>5
  <2>6. ASSUME NEW k \in 1 .. Len(q), q[k].op = "imported" PROVE importing(p)'
    BY <2>3, <2>4, <2>6
  <2>7. ASSUME importing(p)'
        PROVE  (\E k \in p + 1 .. M : pending[k].op = "imported") \/ \E k \in 1 .. Len(q) : q[k].op = "imported"
    <3>1. PICK k \in p + 1 .. N : queued(k)'.op = "imported"
      BY <2>4, <2>7
    <3> QED
      BY <2>1, <3>1
  <2> QED
    BY <2>5, <2>6, <2>7
<1>19. ASSUME NEW p \in M + 1 .. N
       PROVE  importing(p)' <=> \E k \in (p - M) + 1 .. Len(q) : q[k].op = "imported"
  <2>1. ASSUME NEW k \in p + 1 .. N PROVE k - M \in (p - M) + 1 .. Len(q) /\ queued(k)' = q[k - M]
    <3>1. k \in 1 .. N /\ k - M \in (p - M) + 1 .. Len(q) /\ ~(k <= M)
      BY <1>7, <1>8
    <3> QED
      BY <1>16, <3>1
  <2>2. ASSUME NEW k \in (p - M) + 1 .. Len(q) PROVE M + k \in p + 1 .. N /\ queued(M + k)' = q[k]
    <3>1. M + k \in 1 .. N /\ M + k \in p + 1 .. N /\ ~(M + k <= M) /\ (M + k) - M = k
      BY <1>7, <1>8
    <3> QED
      BY <1>16, <3>1
  <2>3. importing(p)' <=> \E k \in p + 1 .. N : queued(k)'.op = "imported"
    BY <1>8 DEF importing
  <2>4. ASSUME NEW k \in (p - M) + 1 .. Len(q), q[k].op = "imported" PROVE importing(p)'
    BY <2>2, <2>3, <2>4
  <2>5. ASSUME importing(p)' PROVE \E k \in (p - M) + 1 .. Len(q) : q[k].op = "imported"
    <3>1. PICK k \in p + 1 .. N : queued(k)'.op = "imported"
      BY <2>3, <2>5
    <3> QED
      BY <2>1, <3>1
  <2> QED
    BY <2>4, <2>5
<1>20. ASSUME NEW p \in 0 .. N
       PROVE  IF importing(p)' THEN T[p].at = checkpoint'
              ELSE T[p].at # 0 => \A i \in Insts : upTo(i, T[p].dir[i], T[p].at)'
  <2>1. CASE p \in 0 .. M
    <3>1. IF importing(p)' THEN S[p].at = checkpoint
          ELSE S[p].at # 0 => \A i \in Insts : upTo(i, S[p].dir[i], S[p].at)
      BY <1>3, <1>18, <2>1
    <3> QED
      BY <1>9, <1>11, <2>1, <3>1
  <2>2. CASE p \in M + 1 .. N
    <3>1. PICK m \in 1 .. Len(q) : m = p - M /\ T[p] = E[m]
      BY <1>12, <2>2
    <3>2. IF importing(p)' THEN E[m].at = checkpoint
          ELSE E[m].at # 0 => \A i \in Insts : upTo(i, E[m].dir[i], E[m].at)
      BY <1>5, <1>19, <2>2, <3>1
    <3> QED
      BY <1>9, <3>1, <3>2
  <2> QED
    BY <1>13, <2>1, <2>2
<1>21. T[N].at <= r /\ \A i \in Insts : upTo(i, T[N].dir[i], r)'
  <2>1. N \in M + 1 .. N /\ N - M = Len(q)
    BY <1>7, <1>8
  <2>2. T[N] = E[Len(q)]
    BY <1>12, <2>1
  <2> QED
    BY <1>6, <1>9, <2>2
<1> QED
  BY <1>8, <1>14, <1>15, <1>17, <1>20, <1>21, FutureIntro

\* An event is taken: until its checkpoint is written the instance is
\* ahead of the checkpoint, and no other instance of the service changed between
\* the last event and this one.
LEMMA FutureEvent ==
  ASSUME TypeOK, FutureInv, TakeEvent(owner)
  PROVE  FutureInv'
<1>1. PICK S \in [0 .. total -> State] : Path(S) /\ Sound(S)
  BY DEF FutureInv
<1>2. PICK k : k = Min(ahead(owner))
  OBVIOUS
<1>3. /\ pc[owner] = "streaming" /\ work[owner] = << >> /\ ahead(owner) # {}
      /\ work' = [work EXCEPT ![owner] = eventCommands(k)] /\ pos' = [pos EXCEPT ![owner] = k]
      /\ UNCHANGED <<src, owner, pending, dir, checkpoint>>
  BY <1>2 DEF TakeEvent, source, cluster, history
<1>4. /\ SourceT /\ owner \in Nodes /\ work \in [Nodes -> Seq(Command)] /\ pos \in [Nodes -> 0 .. Len(src)]
      /\ pos[owner] \in 0 .. Len(src)
  BY DEF TypeOK, LoopT
<1>5. Len(src) \in Nat /\ total \in Nat /\ total = Len(pending)
  BY <1>3, <1>4, Source, Queue DEF total
<1>6. /\ k \in 1 .. Len(src) /\ k > pos[owner] /\ src[k].inst \in Insts
      /\ \A m \in pos[owner] + 1 .. Len(src) : src[m].inst \in Insts => k <= m
  <2>1. ahead(owner) \in SUBSET Nat
    BY <1>4, <1>5 DEF ahead
  <2>2. k \in ahead(owner) /\ \A m \in ahead(owner) : k <= m
    BY <1>2, <1>3, <2>1, MinProperties
  <2>3. k \in pos[owner] + 1 .. Len(src) /\ src[k].inst \in Insts
    BY <2>2 DEF ahead
  <2>4. k \in 1 .. Len(src) /\ k > pos[owner]
    BY <1>4, <1>5, <2>3
  <2> QED
    BY <2>2, <2>3, <2>4 DEF ahead
<1> DEFINE s == S[total]
           i0 == src[k].inst
           v == IF src[k].up THEN k ELSE 0
           d == [s.dir EXCEPT ![i0] = v]
<1>7. PICK q \in Seq(Command) :
        /\ q = eventCommands(k) /\ Len(q) = 2
        /\ written(q[1], s.dir) = d
        /\ ~marks(q[1])
        /\ q[2] = command("checkpoint", Other, k)
  BY <1>4, <1>6, EventCommands
<1>8. /\ s \in State /\ s.dir \in [Insts -> 0 .. Len(src)] /\ s.at \in 0 .. Len(src)
      /\ s.at <= pos[owner]
      /\ \A i \in Insts : upTo(i, s.dir[i], pos[owner])
      /\ s.at # 0 => \A i \in Insts : upTo(i, s.dir[i], s.at)
  <2>1. total \in 0 .. total
    BY <1>5
  <2>2. s \in State
    BY <2>1
  <2>3. ~importing(total)
    BY <1>5 DEF importing
  <2> QED
    BY <1>1, <1>3, <2>1, <2>2, <2>3 DEF Sound, State
<1>9. d[i0] = v /\ \A i \in Insts : i # i0 => d[i] = s.dir[i]
  BY <1>6, <1>8
<1>10. \A i \in Insts : upTo(i, d[i], k)
  <2> SUFFICES ASSUME NEW i \in Insts PROVE upTo(i, d[i], k)
    OBVIOUS
  <2>1. CASE i = i0
    BY <1>4, <1>6, <1>9, <2>1, EventValue
  <2>2. CASE i # i0
    <3>1. d[i] = s.dir[i] /\ upTo(i, s.dir[i], pos[owner])
      BY <1>8, <1>9, <2>2
    <3>2. ASSUME NEW m \in pos[owner] + 1 .. Len(src), src[m].inst = i
          PROVE  m \in k + 1 .. Len(src)
      <4>1. k <= m /\ m # k
        BY <1>6, <2>2, <3>2
      <4> QED
        BY <1>4, <1>5, <1>6, <4>1
    <3> QED
      BY <3>1, <3>2 DEF upTo
  <2> QED
    BY <2>1, <2>2
<1>11. ASSUME s.at # 0, NEW i \in Insts PROVE upTo(i, d[i], s.at)
  <2>1. CASE i = i0
    <3>1. k \in s.at + 1 .. Len(src)
      BY <1>4, <1>5, <1>6, <1>8
    <3> QED
      BY <2>1, <3>1 DEF upTo
  <2>2. CASE i # i0
    BY <1>8, <1>9, <1>11, <2>2
  <2> QED
    BY <2>1, <2>2
<1> DEFINE a == after(q[1], s)
           b == after(q[2], a)
<1>12. a = [dir |-> d, at |-> s.at] /\ b = [dir |-> d, at |-> k]
  <2>1. a = [dir |-> d, at |-> s.at]
    BY <1>7 DEF after
  <2>2. \A e : written(q[2], e) = e
    BY <1>7 DEF written, command, marks
  <2>3. marks(q[2]) /\ q[2].val = k
    BY <1>7 DEF command, marks
  <2> QED
    BY <2>1, <2>2, <2>3 DEF after
<1>13. a \in State /\ b \in State
  <2>1. 1 \in 1 .. Len(q) /\ 2 \in 1 .. Len(q)
    BY <1>7
  <2>2. q[1] \in Command /\ q[2] \in Command
    BY <2>1, ElementOfSeq
  <2> HIDE DEF s
  <2>3. a \in State
    BY <1>8, <2>2, AfterType
  <2> QED
    BY <2>2, <2>3, AfterType
<1>14. PICK E : E = [p \in 1 .. 2 |-> IF p = 1 THEN a ELSE b]
  OBVIOUS
<1> HIDE DEF s, a, b, d
<1>15. E \in [1 .. Len(q) -> State] /\ E[1] = a /\ E[2] = b
  BY <1>7, <1>13, <1>14
<1>16. E[1] = after(q[1], S[total]) /\ \A p \in 2 .. Len(q) : E[p] = after(q[p], E[p - 1])
  BY <1>7, <1>15 DEF a, b, s
<1>17. ASSUME NEW p \in 1 .. Len(q)
       PROVE  q[p].op # "imported" /\ (E[p].at # 0 => \A i \in Insts : upTo(i, E[p].dir[i], E[p].at))
  <2>1. p = 1 \/ p = 2
    BY <1>7
  <2>2. E[1].at # 0 => \A i \in Insts : upTo(i, E[1].dir[i], E[1].at)
    BY <1>11, <1>12, <1>15
  <2>3. \A i \in Insts : upTo(i, E[2].dir[i], E[2].at)
    BY <1>10, <1>12, <1>15
  <2>4. q[1].op # "imported" /\ q[2].op # "imported"
    BY <1>7 DEF marks, command
  <2> QED
    BY <2>1, <2>2, <2>3, <2>4
<1>18. E[Len(q)].at <= k /\ \A i \in Insts : upTo(i, E[Len(q)].dir[i], k)
  <2>1. E[Len(q)] = [dir |-> d, at |-> k] /\ k <= k
    BY <1>6, <1>7, <1>12, <1>15
  <2> QED
    BY <1>10, <2>1
<1>19. work'[owner'] = q /\ pos'[owner'] = k /\ Len(q) >= 1
  BY <1>3, <1>4, <1>7
<1>20. PICK M \in Nat : M = total /\ M = Len(pending)
  BY <1>5
<1>21. \A p \in 1 .. M : queued(p) = pending[p]
  BY <1>20 DEF queued
<1>22. S[0] = [dir |-> dir, at |-> checkpoint] /\ \A p \in 1 .. M : S[p] = after(pending[p], S[p - 1])
  BY <1>1, <1>20, <1>21 DEF Path
<1>23. ASSUME NEW p \in 0 .. M
       PROVE  IF \E m \in p + 1 .. M : pending[m].op = "imported" THEN S[p].at = checkpoint
              ELSE S[p].at # 0 => \A i \in Insts : upTo(i, S[p].dir[i], S[p].at)
  <2>1. \A m \in p + 1 .. M : m \in 1 .. M
    OBVIOUS
  <2>2. importing(p) <=> \E m \in p + 1 .. M : pending[m].op = "imported"
    BY <1>20, <1>21, <2>1 DEF importing
  <2> QED
    BY <1>1, <1>20, <2>2 DEF Sound
<1>24. \A p \in 1 .. Len(q) : q[p].op # "imported"
  BY <1>17
<1>25. Before(S, q)
  BY <1>20, <1>22, <1>23, <1>24, S \in [0 .. total -> State] DEF Before
<1>26. Taken(S[Len(pending)], q, E, k)
  <2>1. \A p \in 1 .. Len(q) : \A m \in p + 1 .. Len(q) : m \in 1 .. Len(q)
    BY <1>7
  <2> QED
    BY <1>15, <1>16, <1>17, <1>18, <1>20, <1>24, <2>1 DEF Taken
<1>27. UNCHANGED <<src, pending, dir, checkpoint>>
  BY <1>3
<1> QED
  BY <1>19, <1>25, <1>26, <1>27, FutureTake

\* A snapshot is taken.  Until its closing checkpoint is written the directory
\* is incomplete, whatever it was before.
LEMMA FutureImport ==
  ASSUME TypeOK, LoopInv, NEW n \in Nodes, TakeSnapshot(n), frame[n].rev # 0, pending = << >>, owner' = n
  PROVE  FutureInv'
<1>1. PICK f : f = frame[n]
  OBVIOUS
<1>2. /\ work' = [work EXCEPT ![n] = IF f.rev > 0 THEN snapshotCommands(f) ELSE << >>]
      /\ pos' = [pos EXCEPT ![n] = f.rev] /\ owner' = n
      /\ pc[n] = "snapshot" /\ UNCHANGED <<src, pending, dir, checkpoint>>
  BY <1>1 DEF TakeSnapshot, source, cluster
<1>3. /\ SourceT /\ work \in [Nodes -> Seq(Command)] /\ pos \in [Nodes -> 0 .. Len(src)]
      /\ f \in [rev : 0 .. Len(src), items : [Insts -> 0 .. Len(src)]]
      /\ dir \in [Insts -> 0 .. Len(src)] /\ checkpoint \in 0 .. Len(src)
      /\ pending = << >>
  BY <1>1 DEF TypeOK, ClusterT, LoopT
<1>4. \A i \in Insts : upTo(i, f.items[i], f.rev)
  BY <1>1, <1>2 DEF LoopInv
<1>5. /\ Len(src) \in Nat /\ f.rev \in Nat /\ f.rev \in 0 .. Len(src) /\ f.items \in [Insts -> 0 .. Len(src)]
      /\ f.rev > 0
  <2>1. Len(src) \in Nat /\ f.rev \in 0 .. Len(src) /\ f.items \in [Insts -> 0 .. Len(src)] /\ f.rev # 0
    BY <1>1, <1>3, Source
  <2> QED
    BY <2>1
<1>6. PICK S \in [0 .. 0 -> State] : S[0] = [dir |-> dir, at |-> checkpoint]
  <2>1. [dir |-> dir, at |-> checkpoint] \in State
    BY <1>3 DEF State
  <2>2. 0 \in 0 .. 0
    OBVIOUS
  <2>3. [p \in 0 .. 0 |-> [dir |-> dir, at |-> checkpoint]] \in [0 .. 0 -> State]
    BY <2>1
  <2> QED
    BY <2>2, <2>3
<1>7. PICK q \in Seq(Command) :
        /\ q = snapshotCommands(f) /\ Len(q) \in Nat /\ Len(q) >= 2
        /\ q[1] = command("clear", Other, 0)
        /\ q[Len(q)] = command("imported", Other, f.rev)
        /\ \A p \in 2 .. Len(q) - 1 : \E i \in Insts : q[p] = command("put", i, f.items[i])
        /\ \A i \in Insts : f.items[i] # 0 => \E p \in 2 .. Len(q) - 1 : q[p] = command("put", i, f.items[i])
  BY <1>3, SnapshotCommands
<1>8. PICK L \in Nat : L = Len(q) /\ L >= 2
  BY <1>7
<1> DEFINE put(i, p) == \E m \in 2 .. p : q[m].inst = i
           D(p) == [i \in Insts |-> IF put(i, p) THEN f.items[i] ELSE 0]
           e(p) == IF p < L THEN [dir |-> D(p), at |-> checkpoint] ELSE [dir |-> f.items, at |-> f.rev]
<1>9. PICK E : E = [p \in 1 .. L |-> e(p)]
  OBVIOUS
<1>10. \A p : D(p) \in [Insts -> 0 .. Len(src)]
  BY <1>5
<1>11. ASSUME NEW p \in 1 .. L PROVE E[p] = e(p) /\ E[p] \in State
  BY <1>3, <1>5, <1>9, <1>10 DEF State
<1>12. E \in [1 .. L -> State]
  BY <1>9, <1>11
<1>13. E[1] = after(q[1], S[0])
  <2>1. S[0] = [dir |-> dir, at |-> checkpoint]
    BY <1>6
  <2>2. after(q[1], S[0]) = [dir |-> [i \in Insts |-> 0], at |-> checkpoint]
    BY <1>7, <2>1 DEF after, written, command, marks
  <2>3. 1 \in 1 .. L /\ 1 < L /\ 2 .. 1 = {}
    BY <1>8
  <2>4. D(1) = [i \in Insts |-> 0]
    BY <2>3
  <2>5. E[1] = [dir |-> D(1), at |-> checkpoint]
    BY <1>11, <2>3
  <2> QED
    BY <2>2, <2>4, <2>5
<1>14. ASSUME NEW p \in 2 .. L - 1 PROVE D(p) = written(q[p], D(p - 1)) /\ q[p].op = "put"
  <2>1. PICK j \in Insts : q[p] = command("put", j, f.items[j])
    BY <1>7, <1>8
  <2>2. q[p].op = "put" /\ q[p].inst = j /\ q[p].val = f.items[j]
    BY <2>1 DEF command
  <2>3. ASSUME NEW i \in Insts PROVE put(i, p) <=> put(i, p - 1) \/ i = j
    <3>1. \A m \in 2 .. p : m \in 2 .. p - 1 \/ m = p
      BY <1>8
    <3>2. p \in 2 .. p /\ 2 .. p - 1 \subseteq 2 .. p
      BY <1>8
    <3> QED
      BY <2>2, <3>1, <3>2
  <2>4. written(q[p], D(p - 1)) = [D(p - 1) EXCEPT ![j] = f.items[j]]
    BY <2>2 DEF written, marks
  <2> HIDE DEF put
  <2>5. [D(p - 1) EXCEPT ![j] = f.items[j]] = D(p)
    BY <2>3
  <2> QED
    BY <2>2, <2>4, <2>5
<1>15. D(L - 1) = f.items
  <2>1. ASSUME NEW i \in Insts, f.items[i] # 0 PROVE put(i, L - 1)
    <3>1. PICK m \in 2 .. L - 1 : q[m] = command("put", i, f.items[i])
      BY <1>7, <1>8, <2>1
    <3> QED
      BY <3>1 DEF command
  <2> HIDE DEF put
  <2> QED
    BY <1>5, <2>1
<1> HIDE DEF put, D
<1>16. ASSUME NEW p \in 2 .. L PROVE E[p] = after(q[p], E[p - 1])
  <2>1. p \in 1 .. L /\ p - 1 \in 1 .. L /\ p - 1 < L
    BY <1>8
  <2>2. E[p] = e(p) /\ E[p - 1] = [dir |-> D(p - 1), at |-> checkpoint]
    BY <1>11, <2>1
  <2>3. CASE p < L
    <3>1. p \in 2 .. L - 1
      BY <1>8, <2>3
    <3>2. after(q[p], E[p - 1]) = [dir |-> D(p), at |-> checkpoint]
      BY <1>14, <2>2, <3>1 DEF after, marks
    <3> QED
      BY <2>2, <2>3, <3>2
  <2>4. CASE ~(p < L)
    <3>1. p = L /\ p - 1 = L - 1
      BY <1>8, <2>4
    <3>2. q[p].op = "imported" /\ q[p].val = f.rev
      BY <1>7, <1>8, <3>1 DEF command
    <3>3. written(q[p], D(p - 1)) = f.items
      BY <1>15, <3>1, <3>2 DEF written, marks
    <3>4. after(q[p], E[p - 1]) = [dir |-> f.items, at |-> f.rev]
      BY <2>2, <3>2, <3>3 DEF after, marks
    <3> QED
      BY <2>2, <2>4, <3>4
  <2> QED
    BY <2>3, <2>4
<1>17. E[L] = [dir |-> f.items, at |-> f.rev]
  <2>1. L \in 1 .. L /\ ~(L < L)
    BY <1>8
  <2> QED
    BY <1>11, <2>1
<1>18. ASSUME NEW p \in 1 .. L
       PROVE  IF \E k \in p + 1 .. L : q[k].op = "imported" THEN E[p].at = checkpoint
              ELSE E[p].at # 0 => \A i \in Insts : upTo(i, E[p].dir[i], E[p].at)
  <2>1. CASE p = L
    <3>1. ~\E k \in p + 1 .. L : q[k].op = "imported"
      BY <1>8, <2>1
    <3> QED
      BY <1>4, <1>17, <2>1, <3>1
  <2>2. CASE p # L
    <3>1. p < L /\ L \in p + 1 .. L
      BY <1>8, <2>2
    <3>2. q[L].op = "imported"
      BY <1>7, <1>8 DEF command
    <3>3. E[p] = [dir |-> D(p), at |-> checkpoint]
      BY <1>11, <3>1
    <3>4. E[p].at = checkpoint
      BY <3>3
    <3> QED
      BY <3>1, <3>2, <3>4
  <2> QED
    BY <2>1, <2>2
<1>19. E[L].at <= f.rev /\ \A i \in Insts : upTo(i, E[L].dir[i], f.rev)
  <2>1. f.rev <= f.rev
    BY <1>5
  <2> QED
    BY <1>4, <1>17, <2>1
<1>20. work'[owner'] = q /\ pos'[owner'] = f.rev /\ Len(q) >= 1
  BY <1>2, <1>3, <1>5, <1>7
<1>21. L \in 1 .. Len(q) /\ q[L].op = "imported"
  BY <1>7, <1>8 DEF command
<1>22. Before(S, q)
  <2>1. Len(pending) = 0 /\ (\A p \in 0 .. 0 : p = 0) /\ 1 .. 0 = {}
    BY <1>3
  <2>2. \A p \in 0 .. 0 : S[p].at = checkpoint
    BY <1>6, <2>1
  <2> QED
    BY <1>6, <1>21, <2>1, <2>2 DEF Before
<1>23. Taken(S[Len(pending)], q, E, f.rev)
  <2>1. S[Len(pending)] = S[0]
    BY <1>3
  <2> HIDE DEF e
  <2> QED
    BY <1>8, <1>12, <1>13, <1>16, <1>18, <1>19, <2>1 DEF Taken
<1> QED
  BY <1>2, <1>20, <1>22, <1>23, FutureTake

\* A snapshot without a revision is taken: nothing is written.
LEMMA FutureEmpty ==
  ASSUME TypeOK, StageInv, LoopInv, TakeSnapshot(owner), frame[owner].rev = 0, owner' = owner
  PROVE  FutureInv'
<1>1. /\ pc[owner] = "snapshot" /\ pos' = [pos EXCEPT ![owner] = frame[owner].rev]
      /\ work' = [work EXCEPT ![owner] = IF frame[owner].rev > 0 THEN snapshotCommands(frame[owner]) ELSE << >>]
      /\ UNCHANGED <<src, pending, dir, checkpoint>>
  BY DEF TakeSnapshot, source, cluster
<1>2. /\ SourceT /\ owner \in Nodes /\ work \in [Nodes -> Seq(Command)] /\ pos \in [Nodes -> 0 .. Len(src)]
      /\ dir \in [Insts -> 0 .. Len(src)] /\ checkpoint \in 0 .. Len(src)
  BY DEF TypeOK, ClusterT, LoopT
<1>3. pending = << >> /\ checkpoint = 0 /\ \A i \in Insts : dir[i] = 0
  BY <1>1 DEF StageInv
<1>4. PICK T : T = [p \in 0 .. 0 |-> [dir |-> dir, at |-> checkpoint]]
  OBVIOUS
<1>5. State' = State /\ \A i, v, r : upTo(i, v, r)' = upTo(i, v, r)
  BY <1>1, SameSource
<1>6. T \in [0 .. 0 -> State'] /\ T[0] = [dir |-> dir', at |-> checkpoint']
  BY <1>1, <1>2, <1>4, <1>5 DEF State
<1>7. work'[owner'] = << >> /\ pos'[owner'] = 0
  BY <1>1, <1>2
<1>8. total' = 0
  BY <1>1, <1>3, <1>7 DEF total
<1>9. T[0].at = 0 /\ checkpoint' = 0 /\ \A i \in Insts : T[0].dir[i] = 0
  BY <1>1, <1>3, <1>6
<1>10. \A i \in Insts : upTo(i, T[0].dir[i], 0)'
  BY <1>2, <1>5, <1>9, Unwritten
<1>11. \A p \in 0 .. 0 : p = 0
  OBVIOUS
<1>12. PICK z : z = 0
  OBVIOUS
<1>13. /\ \A p \in 1 .. z : T[p] = after(queued(p)', T[p - 1])
       /\ \A p \in 0 .. z : T[p].at = 0
  BY <1>9, <1>11, <1>12
<1>14. T[z].at <= z /\ \A i \in Insts : upTo(i, T[z].dir[i], z)'
  BY <1>9, <1>10, <1>12
<1>15. z = total' /\ T \in [0 .. z -> State'] /\ pos'[owner'] = z
  BY <1>6, <1>7, <1>8, <1>12
<1>16. \A p \in 0 .. z : IF importing(p)' THEN T[p].at = checkpoint'
                          ELSE T[p].at # 0 => \A i \in Insts : upTo(i, T[p].dir[i], T[p].at)'
  BY <1>9, <1>13
<1> QED
  BY <1>6, <1>13, <1>14, <1>15, <1>16, FutureIntro

\* The stream replays the history after the checkpoint.
LEMMA FutureConnect ==
  ASSUME TypeOK, StageInv, LoopInv, FutureInv, Connect(owner), exact(pos[owner])
  PROVE  FutureInv'
<1>1. PICK S \in [0 .. total -> State] : Path(S) /\ Sound(S)
  BY DEF FutureInv
<1>2. /\ pc[owner] = "connecting" /\ pos[owner] # 0
      /\ UNCHANGED <<src, owner, pending, dir, checkpoint, pos, work>>
  BY DEF Connect, source, cluster, history, exact
<1>3. owner \in Nodes /\ pending = << >> /\ work[owner] = << >> /\ pos[owner] = checkpoint
  BY <1>2 DEF StageInv, LoopInv, TypeOK
<1>4. total = 0 /\ total' = 0
  BY <1>2, <1>3 DEF total
<1>5. checkpoint \in Nat
  BY Source DEF TypeOK, ClusterT
<1>6. PICK r : r = checkpoint
  OBVIOUS
<1>7. State' = State /\ \A i, v, x : upTo(i, v, x)' = upTo(i, v, x)
  BY <1>2, SameSource
<1>8. PICK N : N = total
  OBVIOUS
<1>9. N \in 0 .. N /\ S[N].at = r /\ r <= r /\ r # 0
  BY <1>1, <1>2, <1>3, <1>4, <1>5, <1>6, <1>8 DEF Path
<1>10. \A p \in 0 .. N : p = N /\ ~importing(p) /\ ~importing(p)'
  BY <1>4, <1>8 DEF importing
<1>11. \A i \in Insts : upTo(i, S[N].dir[i], r)
  BY <1>1, <1>8, <1>9, <1>10 DEF Sound
<1>12. S \in [0 .. N -> State'] /\ S[0] = [dir |-> dir', at |-> checkpoint']
  BY <1>1, <1>2, <1>7, <1>8 DEF Path
<1>13. \A p \in 1 .. N : S[p] = after(queued(p)', S[p - 1])
  BY <1>4, <1>8
<1>14. \A p \in 0 .. N : S[p].at # 0 => \A i \in Insts : upTo(i, S[p].dir[i], S[p].at)'
  BY <1>7, <1>9, <1>10, <1>11
<1> QED
  BY <1>2, <1>3, <1>4, <1>6, <1>7, <1>8, <1>9, <1>10, <1>11, <1>12, <1>13, <1>14, FutureIntro

-----------------------------------------------------------------------------
(* The stages of the loops. *)

\* The loops keep what holds even when the checkpoint is spoilt.
LEMMA LoopPreserved ==
  ASSUME TypeOK, LoopInv, [Next]_vars
  PROVE  LoopInv'
<1>1. /\ SourceT /\ work \in [Nodes -> Seq(Command)] /\ leader \in Nodes
      /\ pc \in [Nodes -> {"idle", "reading", "connecting", "scanning", "snapshot", "streaming"}]
      /\ frame \in [Nodes -> [rev : 0 .. Len(src), items : [Insts -> 0 .. Len(src)]]]
  BY DEF TypeOK, ClusterT, LoopT
<1> DEFINE ok(m) == /\ pc[m] # "streaming" => work[m] = << >>
                    /\ pc[m] = "snapshot" /\ frame[m].rev # 0 =>
                         \A i \in Insts : upTo(i, frame[m].items[i], frame[m].rev)
<1>2. \A m \in Nodes : ok(m)
  BY DEF LoopInv
<1>3. ASSUME NEW j \in Insts \cup {Other}, NEW up \in BOOLEAN, Change(j, up), NEW m \in Nodes PROVE ok(m)'
  <2>1. UNCHANGED <<pc, frame, work>>
    BY <1>3 DEF Change, loop
  <2>2. \A i, v : \A r \in 0 .. Len(src) : upTo(i, v, r) => upTo(i, v, r)'
    BY <1>1, <1>3, ChangeUpTo
  <2>3. PICK f : f = frame[m] /\ f = frame'[m] /\ f.rev \in 0 .. Len(src)
    BY <1>1, <2>1
  <2>4. pc[m] = "snapshot" /\ f.rev # 0 => \A i \in Insts : upTo(i, f.items[i], f.rev)'
    BY <1>2, <2>2, <2>3
  <2> QED
    BY <1>2, <2>1, <2>3, <2>4
<1>4. ASSUME src' = src, NEW m \in Nodes, pc'[m] = pc[m], frame'[m] = frame[m], work'[m] = work[m] PROVE ok(m)'
  <2>1. \A i, v, r : upTo(i, v, r)' = upTo(i, v, r)
    BY <1>4, SameSource
  <2>2. PICK f : f = frame[m] /\ f = frame'[m]
    BY <1>4
  <2>3. pc[m] = "snapshot" /\ f.rev # 0 => \A i \in Insts : upTo(i, f.items[i], f.rev)'
    BY <1>2, <2>1, <2>2
  <2> QED
    BY <1>2, <1>4, <2>2, <2>3
<1>5. ASSUME NEW n \in Nodes, Loop(n) \/ return(n), src' = src, NEW m \in Nodes, m # n PROVE ok(m)'
  <2>1. pc'[m] = pc[m] /\ frame'[m] = frame[m] /\ work'[m] = work[m]
    BY <1>1, <1>5 DEF Loop, CheckRole, ReadCheckpoint, Connect, Scan, TakeSnapshot, TakeEvent, Propose, return
  <2> QED
    BY <1>4, <1>5, <2>1
<1>6. ASSUME NEW n \in Nodes, return(n) PROVE ok(n)'
  BY <1>1, <1>6 DEF return
<1>7. ASSUME NEW n \in Nodes, CheckRole(n) \/ ReadCheckpoint(n) \/ Connect(n) PROVE ok(n)'
  <2>1. pc[n] # "streaming" /\ pc'[n] # "snapshot" /\ work' = work
    BY <1>1, <1>7 DEF CheckRole, ReadCheckpoint, Connect
  <2> QED
    BY <1>2, <2>1
<1>8. ASSUME NEW n \in Nodes, Scan(n) PROVE ok(n)'
  <2>1. /\ pc[n] = "scanning" /\ work' = work /\ src' = src
        /\ frame' = [frame EXCEPT ![n].items = [i \in Insts |-> ValueAt(i, Len(src))]]
    BY <1>8 DEF Scan, source
  <2>2. PICK f : f = frame'[n] /\ \A i \in Insts : f.items[i] = ValueAt(i, Len(src))
    BY <1>1, <2>1
  <2>3. \A i \in Insts : f.items[i] = ValueAt(i, Len(src))'
    BY <2>1, <2>2 DEF ValueAt
  <2>4. \A i \in Insts : upTo(i, f.items[i], f.rev)'
    BY <2>3 DEF upTo
  <2> QED
    BY <1>2, <2>1, <2>2, <2>4
<1>9. ASSUME NEW n \in Nodes, TakeSnapshot(n) \/ TakeEvent(n) \/ Propose(n) PROVE ok(n)'
  <2>1. pc'[n] = "streaming"
    BY <1>1, <1>2, <1>9 DEF TakeSnapshot, TakeEvent, Propose
  <2> QED
    BY <2>1
<1>10. ASSUME NEW n \in Nodes, Loop(n) \/ return(n), src' = src PROVE LoopInv'
  <2>1. ok(n)'
    BY <1>6, <1>7, <1>8, <1>9, <1>10 DEF Loop
  <2>2. \A m \in Nodes : m # n => ok(m)'
    BY <1>5, <1>10
  <2> QED
    BY <2>1, <2>2 DEF LoopInv
<1>11. ASSUME UNCHANGED <<src, loop>> PROVE LoopInv'
  BY <1>4, <1>11 DEF loop, LoopInv
<1>12. \/ \E j \in Insts \cup {Other}, up \in BOOLEAN : Change(j, up)
       \/ src' = src /\ \E n \in Nodes : Loop(n) \/ return(n)
       \/ UNCHANGED <<src, loop>>
  BY <1>1 DEF Next, Loop, Forget, Commit, CheckRole, ReadCheckpoint, Connect, Scan, TakeSnapshot, TakeEvent,
         Propose, StreamEnds, StreamFails, Crash, Depose, vars, source, loop
<1> QED
  BY <1>3, <1>10, <1>11, <1>12 DEF LoopInv

\* A node whose stream is at work is the one whose stream was opened last.
LEMMA OnlyOwner ==
  ASSUME StageInv, LoopInv, NEW n \in Nodes, pc[n] \notin {"idle", "reading"} \/ work[n] # << >>
  PROVE  n = owner
BY DEF StageInv, LoopInv

\* A step that leaves the stream, the directory and the checkpoint as they are.
LEMMA StageFrame ==
  ASSUME StageInv, UNCHANGED <<owner, dir, checkpoint>>, pending = << >> => pending' = << >>,
         pc'[owner] = pc[owner], pos'[owner] = pos[owner], frame'[owner] = frame[owner],
         \A n \in Nodes : n # owner => pc'[n] \in {"idle", "reading"}
  PROVE  StageInv'
BY DEF StageInv

\* A step after which no stream is about to read its first frame.
LEMMA StageElsewhere ==
  ASSUME \A n \in Nodes : n # owner' => pc'[n] \in {"idle", "reading"},
         pc'[owner'] \in {"idle", "reading", "streaming"}
  PROVE  StageInv'
BY DEF StageInv

-----------------------------------------------------------------------------
(* The steps that do not spoil the checkpoint. *)

\* What it takes for the loss of commands not to spoil the checkpoint.
LEMMA Unspoilt ==
  ASSUME NEW C, NEW N, lose(C, N), ~spoilt'
  PROVE  /\ ~spoilt /\ (C = {} \/ ~active(N))
         /\ checkpoint = 0 \/ \A c \in C : c.op # "imported"
BY DEF lose

\* What is left of the queue when its end is lost.
LEMMA CutShort ==
  ASSUME TypeOK, owner' = owner, NEW k \in 0 .. Len(pending),
         Len(pending') = k, \A p \in 1 .. k : pending'[p] = pending[p], work'[owner] = << >>,
         NEW C, cut(k) \cup ToSet(work[owner]) \subseteq C, checkpoint = 0 \/ \A c \in C : c.op # "imported"
  PROVE  /\ total' \in 0 .. total /\ \A p \in 1 .. total' : queued(p)' = queued(p)
         /\ checkpoint = 0 \/ ~\E j \in total' + 1 .. total : queued(j).op = "imported"
<1>1. Len(pending) \in Nat /\ Len(work[owner]) \in Nat /\ work[owner] \in Seq(Command) /\ total \in Nat
  BY Queue DEF TypeOK, LoopT
<1>2. total' = k
  BY DEF total
<1>3. k \in 0 .. total
  BY <1>1 DEF total
<1>4. ASSUME NEW p \in 1 .. k PROVE queued(p)' = queued(p)
  <2>1. p <= Len(pending) /\ p <= Len(pending')
    BY <1>1
  <2> QED
    BY <2>1 DEF queued
<1>5. ASSUME NEW j \in k + 1 .. total PROVE queued(j) \in C
  <2>1. CASE j <= Len(pending)
    <3>1. j \in k + 1 .. Len(pending)
      BY <1>1, <2>1
    <3>2. pending[j] \in cut(k)
      BY <3>1 DEF cut
    <3> QED
      BY <2>1, <3>2 DEF queued
  <2>2. CASE ~(j <= Len(pending))
    <3>1. j - Len(pending) \in 1 .. Len(work[owner])
      BY <1>1, <2>2 DEF total
    <3>2. DOMAIN work[owner] = 1 .. Len(work[owner])
      BY <1>1, LenProperties
    <3>3. work[owner][j - Len(pending)] \in ToSet(work[owner])
      BY <3>1, <3>2 DEF ToSet
    <3> QED
      BY <2>2, <3>3 DEF queued
  <2> QED
    BY <2>1, <2>2
<1> QED
  BY <1>2, <1>3, <1>4, <1>5

\* What a new leader has of the commands that were pending.
LEMMA Elected ==
  ASSUME TypeOK, NEW k \in 0 .. Len(pending), pending' = SubSeq(pending, 1, k)
  PROVE  /\ Len(pending') = k /\ \A p \in 1 .. k : pending'[p] = pending[p]
         /\ cut(k) = {} \/ pending = << >> => pending' = pending
<1>1. pending \in Seq(Command) /\ Len(pending) \in Nat
  BY Queue DEF TypeOK, ClusterT
<1>2. Len(pending') = k /\ \A p \in 1 .. k : pending'[p] = pending[p]
  <2>1. k \in Nat /\ (k >= 1 => k \in 1 .. Len(pending)) /\ (k < 1 => k = 0)
    BY <1>1
  <2> QED
    BY <1>1, <2>1, SubSeqProperties
<1>3. pending' \in Seq(Command)
  <2>1. \A i \in 1 .. k : pending[i] \in Command
    <3>1. \A i \in 1 .. k : i \in 1 .. Len(pending)
      BY <1>1
    <3> QED
      BY <1>1, <3>1, ElementOfSeq
  <2>2. k \in Int /\ 1 \in Int
    BY <1>1
  <2> QED
    BY <2>1, <2>2, SubSeqProperties
<1>4. ASSUME k = Len(pending) PROVE pending' = pending
  BY <1>1, <1>2, <1>3, <1>4, SeqEqual
<1>5. ASSUME k # Len(pending) PROVE cut(k) # {} /\ pending # << >>
  <2>1. k + 1 \in k + 1 .. Len(pending)
    BY <1>1, <1>5
  <2>2. pending[k + 1] \in cut(k)
    BY <2>1 DEF cut
  <2>3. pending # << >>
    BY <1>1, <1>5
  <2> QED
    BY <2>2, <2>3
<1> QED
  BY <1>2, <1>4, <1>5

\* A snapshot is taken whole, with nothing else on its way.
LEMMA ImportStep ==
  ASSUME TypeOK, LoopInv, NEW n \in Nodes, TakeSnapshot(n), frame[n].rev > 0, pending = << >>, ~active(Nodes \ {n})
  PROVE  StageInv' /\ FutureInv'
<1>1. pc' = [pc EXCEPT ![n] = "streaming"] /\ owner' = n
  BY DEF TakeSnapshot
<1>2. pc \in [Nodes -> {"idle", "reading", "connecting", "scanning", "snapshot", "streaming"}]
  BY DEF TypeOK, LoopT
<1>3. \A m \in Nodes : m # n => pc[m] \in {"idle", "reading"}
  BY DEF active
<1>4. StageInv'
  BY <1>1, <1>2, <1>3, StageElsewhere
<1>5. frame[n].rev # 0
  OBVIOUS
<1> QED
  BY <1>1, <1>4, <1>5, FutureImport

\* A stream is opened, and the one before is over.
LEMMA OpenStep ==
  ASSUME TypeOK, LoopInv, StageInv, FutureInv, NEW n \in Nodes, ReadCheckpoint(n), ~spoilt'
  PROVE  StageInv' /\ FutureInv'
<1>1. /\ pc[n] = "reading" /\ pending = << >> /\ ~active(Nodes \ {n})
      /\ pc' = [pc EXCEPT ![n] = "connecting"] /\ pos' = [pos EXCEPT ![n] = checkpoint] /\ owner' = n
      /\ UNCHANGED <<src, pending, dir, checkpoint, frame, work>>
  BY DEF ReadCheckpoint, source, cluster
<1>2. /\ pc \in [Nodes -> {"idle", "reading", "connecting", "scanning", "snapshot", "streaming"}]
      /\ pos \in [Nodes -> 0 .. Len(src)] /\ owner \in Nodes
  BY DEF TypeOK, LoopT
<1>3. \A m \in Nodes : pc[m] \in {"idle", "reading"} /\ work[m] = << >>
  BY <1>1 DEF active, LoopInv
<1>4. pc'[n] = "connecting" /\ pos'[n] = checkpoint /\ \A m \in Nodes : m # n => pc'[m] = pc[m]
  BY <1>1, <1>2
<1>5. StageInv'
  BY <1>1, <1>3, <1>4 DEF StageInv
<1>6. work'[owner'] = work[owner]
  BY <1>1, <1>2, <1>3
<1> QED
  BY <1>1, <1>4, <1>5, <1>6, FutureFrame

\* The steps of the stream up to its first frame.
LEMMA ConnectStep ==
  ASSUME TypeOK, LoopInv, StageInv, FutureInv, Connect(owner) \/ Scan(owner)
  PROVE  StageInv' /\ FutureInv'
<1>1. /\ owner \in Nodes
      /\ pc \in [Nodes -> {"idle", "reading", "connecting", "scanning", "snapshot", "streaming"}]
      /\ frame \in [Nodes -> [rev : 0 .. Len(src), items : [Insts -> 0 .. Len(src)]]]
      /\ dir \in [Insts -> 0 .. Len(src)] /\ checkpoint \in 0 .. Len(src)
  BY DEF TypeOK, ClusterT, LoopT
<1>2. /\ UNCHANGED <<src, owner, pending, dir, checkpoint, pos, work>>
      /\ pc[owner] \in {"connecting", "scanning"} /\ pending = << >>
  BY DEF Connect, Scan, source, cluster, history, StageInv
<1>3. \A m \in Nodes : m # owner => pc'[m] \in {"idle", "reading"}
  BY <1>1 DEF Connect, Scan, StageInv
<1>4. CASE Connect(owner) /\ exact(pos[owner])
  <2>1. pc'[owner'] = "streaming"
    BY <1>1, <1>2, <1>4 DEF Connect
  <2> QED
    BY <1>2, <1>3, <1>4, <2>1, StageElsewhere, FutureConnect
<1>5. CASE Connect(owner) /\ ~exact(pos[owner])
  <2>1. pc' = [pc EXCEPT ![owner] = "scanning"] /\ frame' = [frame EXCEPT ![owner].rev = Len(src)]
    BY <1>5 DEF Connect
  <2>2. pc'[owner] = "scanning" /\ frame'[owner].rev = Len(src)
    BY <1>1, <2>1
  <2>3. Len(src) = 0 => checkpoint = 0 /\ \A i \in Insts : dir[i] = 0
    BY <1>1
  <2>4. StageInv'
    BY <1>2, <1>3, <2>2, <2>3 DEF StageInv
  <2> QED
    BY <1>2, <2>2, <2>4, FutureFrame
<1>6. CASE Scan(owner)
  <2>1. /\ pc[owner] = "scanning" /\ pc' = [pc EXCEPT ![owner] = "snapshot"]
        /\ frame' = [frame EXCEPT ![owner].items = [i \in Insts |-> ValueAt(i, Len(src))]]
    BY <1>6 DEF Scan
  <2>2. pc'[owner] = "snapshot" /\ frame'[owner].rev = frame[owner].rev
    BY <1>1, <2>1
  <2>3. frame[owner].rev = 0 => checkpoint = 0 /\ \A i \in Insts : dir[i] = 0
    BY <2>1 DEF StageInv
  <2>4. StageInv'
    BY <1>2, <1>3, <2>2, <2>3 DEF StageInv
  <2> QED
    BY <1>2, <2>2, <2>4, FutureFrame
<1> QED
  BY <1>4, <1>5, <1>6

\* A frame is taken, or a command of it is proposed.
LEMMA StreamStep ==
  ASSUME TypeOK, LoopInv, StageInv, FutureInv, TakeSnapshot(owner) \/ TakeEvent(owner) \/ Propose(owner), ~spoilt'
  PROVE  StageInv' /\ FutureInv'
<1>1. /\ owner \in Nodes
      /\ pc \in [Nodes -> {"idle", "reading", "connecting", "scanning", "snapshot", "streaming"}]
      /\ frame[owner].rev \in 0 .. Len(src) /\ Len(src) \in Nat
  BY Source DEF TypeOK, LoopT
<1>2. owner' = owner /\ pc' = [pc EXCEPT ![owner] = "streaming"]
  <2>1. CASE TakeSnapshot(owner)
    BY <2>1 DEF TakeSnapshot, history
  <2>2. CASE TakeEvent(owner) \/ Propose(owner)
    <3>1. pc[owner] = "streaming" /\ pc' = pc /\ owner' = owner
      BY <1>1, <2>2 DEF TakeEvent, Propose, LoopInv, history
    <3> QED
      BY <1>1, <3>1
  <2> QED
    BY <2>1, <2>2
<1>3. StageInv'
  <2>1. \A m \in Nodes : m # owner => pc[m] \in {"idle", "reading"}
    BY DEF StageInv
  <2>2. pc'[owner] = "streaming" /\ \A m \in Nodes : m # owner => pc'[m] = pc[m]
    BY <1>1, <1>2
  <2> QED
    BY <1>2, <2>1, <2>2, StageElsewhere
<1>4. CASE TakeSnapshot(owner)
  <2>1. pending = << >> /\ ~active(Nodes \ {owner})
    BY <1>1, <1>4 DEF TakeSnapshot, StageInv, active
  <2>2. frame[owner].rev = 0 \/ frame[owner].rev > 0
    BY <1>1
  <2> QED
    BY <1>1, <1>2, <1>3, <1>4, <2>1, <2>2, FutureEmpty, ImportStep
<1>5. CASE TakeEvent(owner)
  BY <1>3, <1>5, FutureEvent
<1>6. CASE Propose(owner)
  <2>1. pc[owner] = "streaming" /\ active({owner})
    BY <1>1, <1>6 DEF Propose, LoopInv, active
  <2>2. pending' = Append(pending, Head(work[owner]))
    <3>1. ~lose({Head(work[owner])}, {owner})
      BY <2>1, Unspoilt
    <3> QED
      BY <1>6, <3>1 DEF Propose
  <2>3. pending' # pending
    <3>1. pending \in Seq(Command) /\ Head(work[owner]) \in Command
      BY <1>6, HeadTail DEF Propose, TypeOK, ClusterT, LoopT
    <3>2. Len(pending) \in Nat /\ Len(pending') = Len(pending) + 1
      BY <2>2, <3>1, OneMore
    <3> QED
      BY <3>2
  <2> QED
    BY <1>3, <1>6, <2>3, FuturePropose
<1> QED
  BY <1>4, <1>5, <1>6

\* A stream ends or fails, and what it had yet to propose is lost.
LEMMA EndStep ==
  ASSUME TypeOK, LoopInv, StageInv, FutureInv, NEW n \in Nodes, StreamEnds(n) \/ StreamFails(n), ~spoilt'
  PROVE  StageInv' /\ FutureInv'
<1>1. /\ owner \in Nodes /\ pos \in [Nodes -> 0 .. Len(src)]
      /\ pc \in [Nodes -> {"idle", "reading", "connecting", "scanning", "snapshot", "streaming"}]
      /\ work \in [Nodes -> Seq(Command)]
      /\ frame \in [Nodes -> [rev : 0 .. Len(src), items : [Insts -> 0 .. Len(src)]]]
      /\ Len(pending) \in Nat
  BY Queue DEF TypeOK, LoopT
<1>2. return(n) /\ UNCHANGED <<src, pending, dir, checkpoint, owner>>
  BY DEF StreamEnds, StreamFails, source, cluster, history
<1>3. /\ pc'[n] = "idle" /\ work'[n] = << >>
      /\ \A m \in Nodes : m # n => pc'[m] = pc[m] /\ pos'[m] = pos[m] /\ frame'[m] = frame[m] /\ work'[m] = work[m]
  BY <1>1, <1>2 DEF return
<1>4. \A m \in Nodes : m # owner => pc[m] \in {"idle", "reading"}
  BY DEF StageInv
<1>5. CASE n # owner
  <2>1. StageInv'
    BY <1>1, <1>2, <1>3, <1>4, <1>5, StageFrame
  <2> QED
    BY <1>1, <1>2, <1>3, <1>5, <2>1, FutureFrame
<1>6. CASE n = owner
  <2>1. StageInv'
    BY <1>2, <1>3, <1>4, <1>6, StageElsewhere
  <2>2. CASE StreamEnds(n)
    <3>1. work[owner] = << >>
      BY <1>6, <2>2 DEF StreamEnds
    <3> QED
      BY <1>2, <1>3, <1>6, <2>1, <3>1, FutureFrame
  <2>3. CASE StreamFails(n)
    <3>1. PICK k \in 0 .. Len(pending) : k = Len(pending)
      BY <1>1
    <3>2. PICK C : C = ToSet(work[owner])
      OBVIOUS
    <3>3. checkpoint = 0 \/ \A c \in C : c.op # "imported"
      BY <1>6, <2>3, <3>2, Unspoilt DEF StreamFails
    <3>4. cut(k) \cup ToSet(work[owner]) \subseteq C
      <4>1. k + 1 .. Len(pending) = {}
        BY <1>1, <3>1
      <4> QED
        BY <3>2, <4>1 DEF cut
    <3>5. Len(pending') = k /\ (\A p \in 1 .. k : pending'[p] = pending[p]) /\ work'[owner] = << >>
      BY <1>2, <1>3, <1>6, <3>1
    <3>6. /\ total' \in 0 .. total /\ \A p \in 1 .. total' : queued(p)' = queued(p)
          /\ checkpoint = 0 \/ ~\E j \in total' + 1 .. total : queued(j).op = "imported"
      BY <1>2, <3>3, <3>4, <3>5, CutShort
    <3>7. pc'[owner'] # "streaming"
      BY <1>2, <1>3, <1>6
    <3> QED
      BY <1>2, <2>1, <3>6, <3>7, FutureCut
  <2> QED
    BY <2>2, <2>3
<1> QED
  BY <1>5, <1>6

\* Another node becomes leader and lacks the commands C, those of the old leader
\* included if its loop is gone; the streams of other nodes go on.
LEMMA ElectStep ==
  ASSUME TypeOK, LoopInv, StageInv, FutureInv, NEW m \in Nodes, NEW k \in 0 .. Len(pending), elect(m, k), src' = src,
         \/ UNCHANGED loop /\ lose(cut(k), Nodes)
         \/ return(leader) /\ lose(cut(k) \cup ToSet(work[leader]), Nodes \ {leader}),
         ~spoilt'
  PROVE  StageInv' /\ FutureInv'
<1>1. /\ owner \in Nodes /\ leader \in Nodes /\ pos \in [Nodes -> 0 .. Len(src)]
      /\ pc \in [Nodes -> {"idle", "reading", "connecting", "scanning", "snapshot", "streaming"}]
      /\ work \in [Nodes -> Seq(Command)]
      /\ frame \in [Nodes -> [rev : 0 .. Len(src), items : [Insts -> 0 .. Len(src)]]]
  BY DEF TypeOK, ClusterT, LoopT
<1>2. pending' = SubSeq(pending, 1, k) /\ UNCHANGED <<src, dir, checkpoint, owner>>
  BY DEF elect
<1>3. /\ Len(pending') = k /\ \A p \in 1 .. k : pending'[p] = pending[p]
      /\ cut(k) = {} \/ pending = << >> => pending' = pending
  BY <1>2, Elected
<1>4. \A n \in Nodes : n # owner => pc[n] \in {"idle", "reading"}
  BY DEF StageInv
<1>5. ASSUME NEW C, cut(k) \cup ToSet(work[owner]) \subseteq C, checkpoint = 0 \/ \A c \in C : c.op # "imported",
             work'[owner] = << >>, pc'[owner] # "streaming"
      PROVE  FutureInv'
  <2>1. /\ total' \in 0 .. total /\ \A p \in 1 .. total' : queued(p)' = queued(p)
        /\ checkpoint = 0 \/ ~\E j \in total' + 1 .. total : queued(j).op = "imported"
    BY <1>2, <1>3, <1>5, CutShort
  <2> QED
    BY <1>2, <1>5, <2>1, FutureCut
<1>6. CASE return(leader) /\ leader = owner /\ lose(cut(k) \cup ToSet(work[leader]), Nodes \ {leader})
  <2>1. /\ pc'[owner] = "idle" /\ work'[owner] = << >>
        /\ \A n \in Nodes : n # owner => pc'[n] = pc[n]
    BY <1>1, <1>6 DEF return
  <2>2. StageInv'
    BY <1>2, <1>4, <2>1, StageElsewhere
  <2>3. PICK C : C = cut(k) \cup ToSet(work[owner])
    OBVIOUS
  <2>4. checkpoint = 0 \/ \A c \in C : c.op # "imported"
    BY <1>6, <2>3, Unspoilt
  <2> QED
    BY <1>5, <2>1, <2>2, <2>3, <2>4
<1>7. ASSUME NEW C, NEW N, cut(k) \subseteq C, owner \in N, lose(C, N),
             pc'[owner] = pc[owner], pos'[owner] = pos[owner],
             frame'[owner] = frame[owner], work'[owner] = work[owner],
             \A n \in Nodes : n # owner => pc'[n] \in {"idle", "reading"}
      PROVE  StageInv' /\ FutureInv'
  <2>1. StageInv'
    BY <1>2, <1>3, <1>7, StageFrame
  <2>2. CASE C = {}
    <3>1. pending' = pending
      BY <1>3, <1>7, <2>2
    <3> QED
      BY <1>2, <1>7, <2>1, <3>1, FutureFrame
  <2>3. CASE C # {}
    <3>1. ~active(N) /\ (checkpoint = 0 \/ \A c \in C : c.op # "imported")
      BY <1>7, <2>3, Unspoilt
    <3>2. pc[owner] \in {"idle", "reading"} /\ work[owner] = << >>
      BY <1>1, <1>7, <3>1 DEF active, LoopInv
    <3>3. ToSet(work[owner]) = {}
      BY <3>2 DEF ToSet
    <3>4. cut(k) \cup ToSet(work[owner]) \subseteq C /\ work'[owner] = << >> /\ pc'[owner] # "streaming"
      BY <1>7, <3>2, <3>3
    <3> QED
      BY <1>5, <2>1, <3>1, <3>4
  <2> QED
    BY <2>2, <2>3
<1>8. CASE return(leader) /\ leader # owner /\ lose(cut(k) \cup ToSet(work[leader]), Nodes \ {leader})
  <2>1. /\ pc'[leader] = "idle"
        /\ \A n \in Nodes : n # leader => /\ pc'[n] = pc[n] /\ pos'[n] = pos[n]
                                          /\ frame'[n] = frame[n] /\ work'[n] = work[n]
    BY <1>1, <1>8 DEF return
  <2>2. PICK C, N : C = cut(k) \cup ToSet(work[leader]) /\ N = Nodes \ {leader} /\ lose(C, N)
    BY <1>8
  <2>3. cut(k) \subseteq C /\ owner \in N
    BY <1>1, <1>8, <2>2
  <2> QED
    BY <1>1, <1>4, <1>7, <1>8, <2>1, <2>2, <2>3
<1>9. CASE UNCHANGED loop /\ lose(cut(k), Nodes)
  <2>1. UNCHANGED <<pc, pos, frame, work>>
    BY <1>9 DEF loop
  <2> QED
    BY <1>1, <1>4, <1>7, <1>9, <2>1
<1> QED
  BY <1>6, <1>8, <1>9

\* Every step that does not spoil the checkpoint keeps the invariant.
LEMMA SoundPreserved ==
  ASSUME IInv, [Next]_vars, ~spoilt'
  PROVE  StageInv' /\ FutureInv'
<1>1. TypeOK /\ LoopInv /\ (~spoilt => StageInv /\ FutureInv)
  BY DEF IInv
<1>2. CASE spoilt
  <2>1. PICK n \in Nodes : TakeSnapshot(n) /\ frame[n].rev > 0 /\ pending = << >> /\ ~active(Nodes \ {n})
    <3>1. \A C, N : ~lose(C, N)
      BY <1>2, Unspoilt
    <3>2. \/ \E n \in Nodes : ReadCheckpoint(n) \/ TakeSnapshot(n)
          \/ spoilt' = spoilt \/ \E C, N : lose(C, N)
      BY DEF Next, Loop, Change, Forget, Commit, CheckRole, Connect, Scan, TakeEvent, Propose, StreamEnds,
             StreamFails, Crash, Depose, history, vars
    <3> QED
      BY <1>2, <3>1, <3>2 DEF ReadCheckpoint, TakeSnapshot, history
  <2> QED
    BY <1>1, <2>1, ImportStep
<1>3. CASE ~spoilt
  <2>1. StageInv /\ FutureInv
    BY <1>1, <1>3
  <2>2. /\ owner \in Nodes /\ pos \in [Nodes -> 0 .. Len(src)]
        /\ pc \in [Nodes -> {"idle", "reading", "connecting", "scanning", "snapshot", "streaming"}]
    BY <1>1 DEF TypeOK, LoopT
  <2>3. \A m \in Nodes : m # owner => pc[m] \in {"idle", "reading"}
    BY <2>1 DEF StageInv
  <2>4. ASSUME NEW i \in Insts \cup {Other}, NEW up \in BOOLEAN, Change(i, up) PROVE StageInv' /\ FutureInv'
    <3>1. UNCHANGED <<owner, pending, dir, checkpoint, pc, pos, frame>>
      BY <2>4 DEF Change, cluster, loop, history
    <3> QED
      BY <1>1, <2>1, <2>3, <2>4, <3>1, StageFrame, FutureChange
  <2>5. ASSUME UNCHANGED vars \/ Forget PROVE StageInv' /\ FutureInv'
    <3>1. UNCHANGED <<src, owner, pending, dir, checkpoint, pc, pos, frame, work>>
      BY <2>5 DEF vars, Forget, source, cluster, loop, history
    <3> QED
      BY <2>1, <2>3, <3>1, StageFrame, FutureFrame
  <2>6. ASSUME Commit PROVE StageInv' /\ FutureInv'
    <3>1. pending # << >> /\ UNCHANGED <<owner, pc>>
      BY <2>6 DEF Commit, loop, history
    <3>2. pc[owner] \in {"idle", "reading", "streaming"}
      BY <2>1, <2>2, <3>1 DEF StageInv
    <3> QED
      BY <1>1, <2>1, <2>3, <2>6, <3>1, <3>2, StageElsewhere, FutureCommit
  <2>7. ASSUME NEW n \in Nodes, CheckRole(n) PROVE StageInv' /\ FutureInv'
    <3>1. /\ UNCHANGED <<src, owner, pending, dir, checkpoint, pos, frame, work>> /\ pc[n] = "idle"
          /\ pc'[n] \in {"idle", "reading"} /\ \A m \in Nodes : m # n => pc'[m] = pc[m]
      BY <2>2, <2>7 DEF CheckRole, source, cluster, history
    <3>2. StageInv'
      <4>1. CASE n = owner
        BY <2>3, <3>1, <4>1, StageElsewhere
      <4>2. CASE n # owner
        <5>1. pc'[owner] = pc[owner] /\ \A m \in Nodes : m # owner => pc'[m] \in {"idle", "reading"}
          BY <2>2, <2>3, <3>1, <4>2
        <5> QED
          BY <2>1, <3>1, <5>1, StageFrame
      <4> QED
        BY <4>1, <4>2
    <3>3. pc'[owner] = "streaming" => pc[owner] = "streaming"
      BY <2>2, <3>1
    <3> QED
      BY <2>1, <3>1, <3>2, <3>3, FutureFrame
  <2>8. ASSUME NEW n \in Nodes, Connect(n) \/ Scan(n) \/ TakeSnapshot(n) \/ TakeEvent(n) \/ Propose(n)
        PROVE  StageInv' /\ FutureInv'
    <3>1. n = owner
      BY <1>1, <2>1, <2>8, OnlyOwner DEF Connect, Scan, TakeSnapshot, TakeEvent, Propose
    <3> QED
      BY <1>1, <2>1, <2>8, <3>1, ConnectStep, StreamStep
  <2>9. ASSUME NEW n \in Nodes, ReadCheckpoint(n) \/ StreamEnds(n) \/ StreamFails(n) PROVE StageInv' /\ FutureInv'
    BY <1>1, <2>1, <2>9, OpenStep, EndStep
  <2>10. ASSUME NEW m \in Nodes, Crash(m) \/ Depose(m) PROVE StageInv' /\ FutureInv'
    <3>1. PICK k \in 0 .. Len(pending) :
            /\ elect(m, k) /\ src' = src
            /\ \/ UNCHANGED loop /\ lose(cut(k), Nodes)
               \/ return(leader) /\ lose(cut(k) \cup ToSet(work[leader]), Nodes \ {leader})
      BY <2>10 DEF Crash, Depose, source, loop
    <3> QED
      BY <1>1, <2>1, <3>1, ElectStep
  <2> QED
    BY <2>4, <2>5, <2>6, <2>7, <2>8, <2>9, <2>10 DEF Next, Loop
<1> QED
  BY <1>2, <1>3

-----------------------------------------------------------------------------
(* The theorem. *)

\* The initial states satisfy the invariant: nothing is on its way.
LEMMA InitInv == Init => IInv
<1> SUFFICES ASSUME Init PROVE IInv
  OBVIOUS
<1>1. TypeOK /\ SourceT
  BY InitTypes DEF TypeOK
<1>2. StageInv /\ LoopInv
  BY DEF Init, StageInv, LoopInv
<1>3. FutureInv
  <2>1. total = 0 /\ pc[owner] = "idle"
    BY <1>1 DEF Init, total, TypeOK
  <2>2. PICK S : S = [p \in 0 .. 0 |-> [dir |-> dir, at |-> checkpoint]]
    OBVIOUS
  <2>3. [dir |-> dir, at |-> checkpoint] \in State
    BY <1>1 DEF TypeOK, ClusterT, State
  <2>4. S \in [0 .. total -> State] /\ S[0] = [dir |-> dir, at |-> checkpoint]
    BY <2>1, <2>2, <2>3
  <2>5. Path(S)
    BY <2>1, <2>4 DEF Path
  <2>6. checkpoint = 0 /\ \A p \in 0 .. total : S[p].at = 0
    <3>1. \A p \in 0 .. total : p = 0
      BY <2>1
    <3> QED
      BY <2>4, <3>1 DEF Init
  <2>7. Sound(S)
    BY <2>1, <2>6 DEF Sound
  <2> QED
    BY <2>4, <2>5, <2>7 DEF FutureInv
<1> QED
  BY <1>1, <1>2, <1>3 DEF IInv

\* Every step keeps the invariant.
LEMMA NextInv == IInv /\ [Next]_vars => IInv'
BY TypesPreserved, LoopPreserved, SoundPreserved DEF IInv

\* The invariant says that nothing is skipped: a stream that is open and has
\* nothing on its way is the one opened last, and its path is one state.
LEMMA InvNothingSkipped == IInv => NothingSkipped
<1> SUFFICES ASSUME IInv, ~spoilt,
                    NEW n \in Nodes, pc[n] = "streaming", work[n] = << >>, pending = << >>, NEW i \in Insts
             PROVE  dir[i] = ValueAt(i, Len(src)) \/ \E k \in ahead(n) : src[k].inst = i
  BY DEF NothingSkipped
<1>1. n = owner
  BY DEF IInv, StageInv
<1>2. total = 0
  BY <1>1 DEF total
<1>3. PICK S \in [0 .. total -> State] : Path(S) /\ Sound(S)
  BY DEF IInv, FutureInv
<1>4. S[total].dir = dir
  BY <1>2, <1>3 DEF Path
<1>5. upTo(i, dir[i], pos[n])
  BY <1>1, <1>3, <1>4 DEF Sound
<1> QED
  BY <1>5 DEF upTo, ahead

\* replicateServiceLoop skips no event unless the checkpoint is spoilt, for any
\* number of nodes, instances, changes and faults: sources that lose their
\* history, streams that fail, leaders that crash or are replaced at any time and
\* whose successors lack commands, and commits slower than the retry delay.
THEOREM NothingSkippedTheorem == Spec => []NothingSkipped
<1> QED
  BY InitInv, NextInv, InvNothingSkipped, PTL DEF Spec
=============================================================================
