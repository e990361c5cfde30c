--------------------------- MODULE EventRelayProofs ---------------------------
(***************************************************************************)
(* Proofs about EventRelay, for every set of streams and workers, batch    *)
(* and segment size and number of records, failures and crashes.           *)
(***************************************************************************)
EXTENDS EventRelay, InductionFacts, SequenceTheorems

-----------------------------------------------------------------------------
(* Types.                                                                  *)

WorkerState == [pc : {"idle", "publish", "save"}, after : Nat, recs : Seq(Record), lastOK : Nat]

(* The outbox numbers no record higher than it was counted, and counts in  *)
(* order; the cursors and the records on their way are numbers the outbox  *)
(* gave.                                                                   *)
Counted(r, m) == r.seq >= 1 /\ r.seq <= r.n /\ r.n <= m

Types ==
    /\ TypeOK
    /\ lastSeq <= appended
    /\ worker \in [Workers -> WorkerState]
    /\ \A i \in DOMAIN outbox : Counted(outbox[i], appended)
    /\ \A i, j \in DOMAIN outbox : i < j => outbox[i].n < outbox[j].n
    /\ \A w \in Workers : /\ worker[w].lastOK <= appended
                          /\ \A k \in DOMAIN worker[w].recs : Counted(worker[w].recs[k], appended)

(* What is fetched: written records behind the cursor, in the order of the *)
(* outbox, and none is left out before the last of them.                   *)
LEMMA FetchProperties ==
    ASSUME Types, NEW after \in Nat
    PROVE  LET recs == FetchUnpublished(after)
           IN  /\ recs \in Seq(Record)
               /\ \A k \in DOMAIN recs : \E i \in 1..written :
                     /\ outbox[i] = recs[k] /\ outbox[i].seq > after
                     /\ \A j \in 1..written :
                          (j < i /\ outbox[j].seq > after) => \E l \in DOMAIN recs : l < k /\ recs[l] = outbox[j]
<1> DEFINE C == {i \in 1..written : outbox[i].seq > after}
           u == AtPositions(outbox, C)
           m == Min({BatchSize, Len(u)})
           recs == SubSeq(u, 1, m)
<1>1. outbox \in Seq(Record) /\ written \in 0..Len(outbox)
  BY DEF Types, TypeOK
<1>2. C \in SUBSET DOMAIN outbox /\ C \in SUBSET (1..written)
  BY <1>1
<1>3. u \in Seq(Record) /\ \E p : IsSelection(u, p, outbox, C)
  <2> HIDE DEF C
  <2>1. QED
    BY <1>1, <1>2, AtPositionsProperties
<1>4. PICK p : IsSelection(u, p, outbox, C)
  BY <1>3
<1>5. /\ p \in [DOMAIN u -> C]
      /\ \A k \in DOMAIN u : u[k] = outbox[p[k]]
      /\ \A k, l \in DOMAIN u : k < l => p[k] < p[l]
      /\ \A i \in C : \E k \in DOMAIN u : p[k] = i
  <2> HIDE DEF C, u
  <2>1. QED
    BY <1>4 DEF IsSelection
<1> HIDE DEF u
<1>6. m \in Nat /\ m <= Len(u)
  <2>1. BatchSize \in Nat /\ Len(u) \in Nat
    BY <1>3, EventRelayAssumption
  <2>2. \E x \in {BatchSize, Len(u)} : \A y \in {BatchSize, Len(u)} : x <= y
    <3>1. CASE BatchSize <= Len(u)
      BY <2>1, <3>1
    <3>2. CASE ~(BatchSize <= Len(u))
      BY <2>1, <3>2
    <3>3. QED
      BY <3>1, <3>2
  <2>3. m \in {BatchSize, Len(u)} /\ \A y \in {BatchSize, Len(u)} : m <= y
    BY <2>2, Zenon DEF Min
  <2>4. QED
    BY <2>1, <2>3
<1> HIDE DEF m
<1>7. /\ recs \in Seq(Record) /\ DOMAIN recs = 1..m /\ 1..m \subseteq DOMAIN u
      /\ \A k \in 1..m : recs[k] = u[k]
  BY <1>3, <1>6
<1> HIDE DEF recs
<1>8. ASSUME NEW k \in DOMAIN recs
      PROVE  \E i \in 1..written :
                     /\ outbox[i] = recs[k] /\ outbox[i].seq > after
                     /\ \A j \in 1..written :
                          (j < i /\ outbox[j].seq > after) => \E l \in DOMAIN recs : l < k /\ recs[l] = outbox[j]
  <2>1. p[k] \in C /\ recs[k] = outbox[p[k]] /\ k \in 1..m
    BY <1>5, <1>7, <1>8
  <2>2. ASSUME NEW j \in C, j < p[k] PROVE \E l \in DOMAIN recs : l < k /\ recs[l] = outbox[j]
    <3>1. PICK l \in DOMAIN u : p[l] = j
      BY <1>5
    <3>2. l \in Nat /\ k \in DOMAIN u /\ k \in Nat /\ l >= 1
      BY <1>3, <1>6, <1>7, <1>8
    <3>3. l < k
      <4>1. p[k] \in Nat /\ p[l] \in Nat
        BY <1>1, <1>5, <3>1, <3>2
      <4>2. ~(k < l) /\ l # k
        BY <1>5, <2>2, <3>1, <3>2, <4>1
      <4>3. QED
        BY <3>2, <4>2
    <3>4. l \in 1..m
      BY <1>6, <2>1, <3>2, <3>3
    <3>5. QED
      BY <1>5, <1>7, <3>1, <3>3, <3>4
  <2>3. QED
    BY <2>1, <2>2
<1>9. FetchUnpublished(after) = recs
  BY DEF FetchUnpublished, recs, m, u
<1>10. QED
  BY <1>7, <1>8, <1>9, Zenon

(* A group is a prefix of what is left, and not empty.                     *)
LEMMA GroupProperties ==
    ASSUME NEW recs \in Seq(Record), recs # <<>>
    PROVE  \E g \in 1..Len(recs) :
              /\ Group(recs) = SubSeq(recs, 1, g)
              /\ Group(recs) \in Seq(Record) /\ Len(Group(recs)) = g
              /\ \A k \in 1..g : Group(recs)[k] = recs[k]
              /\ Last(Group(recs)) = recs[g]
              /\ SubSeq(recs, Len(Group(recs)) + 1, Len(recs)) \in Seq(Record)
              /\ Len(SubSeq(recs, Len(Group(recs)) + 1, Len(recs))) = Len(recs) - g
              /\ \A k \in 1..(Len(recs) - g) :
                    SubSeq(recs, Len(Group(recs)) + 1, Len(recs))[k] = recs[k + g]
<1> DEFINE N == {n \in 1..Len(recs) : \A i \in 1..n : recs[i].stream = recs[1].stream}
           g == Max(N)
<1>1. Len(recs) \in Nat /\ Len(recs) # 0
  BY EmptySeq
<1>2. N \in SUBSET Nat /\ N # {} /\ N \subseteq 1..Len(recs)
  <2>1. 1 \in N
    BY <1>1
  <2>2. QED
    BY <1>1, <2>1
<1>3. IsFiniteSet(N)
  <2> HIDE DEF N
  <2>1. IsFiniteSet(1..Len(recs))
    BY <1>1, FS_Interval
  <2>2. QED
    BY <1>2, <2>1, FS_Subset
<1>4. g \in N
  <2> HIDE DEF N
  <2>1. QED
    BY <1>2, <1>3, MaxOfFinite
<1>5. Group(recs) = SubSeq(recs, 1, g)
  BY DEF Group
<1>6. g \in 1..Len(recs)
  BY <1>2, <1>4
<1> HIDE DEF g
<1>7. /\ Group(recs) \in Seq(Record) /\ Len(Group(recs)) = g
      /\ \A k \in 1..g : Group(recs)[k] = recs[k]
  BY <1>1, <1>5, <1>6
<1>8. Last(Group(recs)) = recs[g]
  BY <1>1, <1>6, <1>7 DEF Last
<1>9. /\ SubSeq(recs, g + 1, Len(recs)) \in Seq(Record)
      /\ Len(SubSeq(recs, g + 1, Len(recs))) = Len(recs) - g
      /\ \A k \in 1..(Len(recs) - g) : SubSeq(recs, g + 1, Len(recs))[k] = recs[k + g]
  <2>1. SubSeq(recs, g + 1, Len(recs)) \in Seq(Record)
    BY <1>1, <1>6
  <2>2. Len(SubSeq(recs, g + 1, Len(recs))) = Len(recs) - g
    BY <1>1, <1>6
  <2>3. ASSUME NEW k \in 1..(Len(recs) - g) PROVE SubSeq(recs, g + 1, Len(recs))[k] = recs[k + g]
    BY <1>1, <1>6
  <2>4. QED
    BY <2>1, <2>2, <2>3
<1>10. QED
  BY <1>5, <1>6, <1>7, <1>8, <1>9

(* Initially nothing was appended.                                         *)
LEMMA InitTypes == Init => Types
<1> SUFFICES ASSUME Init PROVE Types
  OBVIOUS
<1>1. Idle \in WorkerState /\ Idle.recs = <<>> /\ Idle.lastOK = 0
  BY DEF Idle, WorkerState
<1>2. worker = [w \in Workers |-> Idle] /\ outbox = <<>> /\ appended = 0 /\ lastSeq = 0
  BY DEF Init
<1>3. TypeOK
  BY <1>1, EventRelayAssumption DEF Init, TypeOK, WorkerState
<1>4. QED
  BY <1>1, <1>2, <1>3 DEF Types

(* Every step keeps the types, with or without losses of power.            *)
LEMMA NextTypes == Types /\ [Next]_vars => Types'
<1> SUFFICES ASSUME Types, [Next]_vars PROVE Types'
  OBVIOUS
<1>a. /\ outbox \in Seq(Record) /\ written \in 0..Len(outbox) /\ Len(outbox) \in Nat
      /\ synced \in 0..written /\ closedSegs \in 0..synced
      /\ lastSeq \in Nat /\ appended \in 0..MaxRecords /\ lastSeq <= appended
      /\ meta \in 0..appended /\ published \in 0..appended
      /\ kafka \in Seq(Record) /\ MaxRecords \in Nat
      /\ worker \in [Workers -> WorkerState]
  BY EventRelayAssumption DEF Types, TypeOK
<1>b. ASSUME UNCHANGED <<outbox, written, synced, closedSegs, lastSeq, appended>>,
             meta' \in 0..appended, published' \in 0..appended, kafka' \in Seq(Record),
             worker' \in [Workers -> WorkerState],
             \A w \in Workers : /\ worker'[w].lastOK <= appended
                                /\ \A k \in DOMAIN worker'[w].recs : Counted(worker'[w].recs[k], appended)
      PROVE  Types'
  <2>1. TypeOK'
    BY <1>a, <1>b DEF TypeOK, WorkerState
  <2>2. QED
    BY <1>a, <1>b, <2>1 DEF Types, Counted
<1>c. ASSUME NEW w \in Workers, NEW s \in WorkerState, worker' = [worker EXCEPT ![w] = s],
             s.lastOK <= appended, \A k \in DOMAIN s.recs : Counted(s.recs[k], appended)
      PROVE  /\ worker' \in [Workers -> WorkerState]
             /\ \A v \in Workers : /\ worker'[v].lastOK <= appended
                                   /\ \A k \in DOMAIN worker'[v].recs : Counted(worker'[v].recs[k], appended)
  <2>1. worker' \in [Workers -> WorkerState]
    BY <1>a, <1>c
  <2>2. ASSUME NEW v \in Workers
        PROVE  /\ worker'[v].lastOK <= appended
               /\ \A k \in DOMAIN worker'[v].recs : Counted(worker'[v].recs[k], appended)
    <3>1. CASE v = w
      BY <1>a, <1>c, <3>1
    <3>2. CASE v # w
      <4>1. worker'[v] = worker[v]
        BY <1>a, <1>c, <3>2
      <4>2. QED
        BY <4>1 DEF Types
    <3>3. QED
      BY <3>1, <3>2
  <2>3. QED
    BY <2>1, <2>2
<1>d. Idle \in WorkerState /\ Idle.lastOK = 0 /\ Idle.recs = <<>> /\ Idle.lastOK <= appended
  BY <1>a DEF Idle, WorkerState
<1>e. ASSUME NEW w \in Workers, NEW s \in WorkerState, worker' = [worker EXCEPT ![w] = s],
             s.lastOK <= appended, s.recs = <<>>,
             UNCHANGED <<outbox, written, synced, closedSegs, lastSeq, appended>>,
             meta' \in 0..appended, published' \in 0..appended, kafka' \in Seq(Record)
      PROVE  Types'
  <2>1. \A k \in DOMAIN s.recs : Counted(s.recs[k], appended)
    BY <1>e
  <2>2. QED
    BY <1>b, <1>c, <1>e, <2>1
<1>1. CASE UNCHANGED vars
  BY <1>b, <1>1, <1>a DEF vars, Types
<1>2. ASSUME NEW stream \in Streams, AppendNext(stream) PROVE Types'
  <2> DEFINE rec == [seq |-> lastSeq + 1, n |-> appended + 1, stream |-> stream]
  <2>1. /\ appended < MaxRecords /\ appended' = appended + 1 /\ lastSeq' = lastSeq + 1
        /\ outbox' = Append(outbox, rec)
        /\ UNCHANGED <<meta, published, worker, kafka>>
        /\ \/ RotateLocked
           \/ UNCHANGED <<closedSegs, written, synced>>
    BY <1>2, Zenon DEF AppendNext
  <2>2. rec \in Record /\ rec.seq = lastSeq + 1 /\ rec.n = appended + 1
    BY <1>a, <2>1 DEF Record
  <2> HIDE DEF rec
  <2>3. /\ outbox' \in Seq(Record) /\ Len(outbox') = Len(outbox) + 1
        /\ \A i \in DOMAIN outbox : outbox'[i] = outbox[i]
        /\ outbox'[Len(outbox) + 1] = rec
        /\ \A i \in DOMAIN outbox' : i \in DOMAIN outbox \/ i = Len(outbox) + 1
    BY <1>a, <2>1, <2>2
  <2>4. written' \in 0..Len(outbox') /\ synced' \in 0..written' /\ closedSegs' \in 0..synced'
    <3>1. CASE RotateLocked
      BY <1>a, <2>3, <3>1 DEF RotateLocked
    <3>2. CASE UNCHANGED <<closedSegs, written, synced>>
      BY <1>a, <2>3, <3>2
    <3>3. QED
      BY <2>1, <3>1, <3>2
  <2>5. TypeOK'
    <3>1. lastSeq' \in Nat /\ appended' \in 0..MaxRecords /\ meta' \in 0..appended'
          /\ published' \in 0..appended'
      BY <1>a, <2>1
    <3>2. \A w \in Workers : worker[w] \in WorkerState
      BY <1>a
    <3>3. QED
      BY <1>a, <2>1, <2>3, <2>4, <3>1, <3>2 DEF TypeOK, WorkerState
  <2>6. ASSUME NEW r \in Record, Counted(r, appended) PROVE Counted(r, appended')
    BY <1>a, <2>1, <2>6 DEF Counted, Record
  <2>7. ASSUME NEW i \in DOMAIN outbox' PROVE Counted(outbox'[i], appended')
    <3>1. CASE i \in DOMAIN outbox
      BY <1>a, <2>3, <2>6, <3>1 DEF Types
    <3>2. CASE i = Len(outbox) + 1
      BY <1>a, <2>1, <2>2, <2>3, <3>2 DEF Counted
    <3>3. QED
      BY <2>3, <3>1, <3>2
  <2>8. ASSUME NEW i \in DOMAIN outbox', NEW j \in DOMAIN outbox', i < j
        PROVE  outbox'[i].n < outbox'[j].n
    <3>1. i \in DOMAIN outbox
      BY <1>a, <2>3, <2>8
    <3>2. CASE j \in DOMAIN outbox
      BY <2>3, <2>8, <3>1, <3>2 DEF Types
    <3>3. CASE j = Len(outbox) + 1
      <4>1. outbox[i].n \in Nat /\ outbox[i].n <= appended
        <5>1. outbox[i] \in Record
          BY <1>a, <3>1
        <5>2. QED
          BY <3>1, <5>1 DEF Types, Counted, Record
      <4>2. QED
        BY <1>a, <2>2, <2>3, <3>1, <3>3, <4>1
    <3>4. QED
      BY <2>3, <3>2, <3>3
  <2>9. ASSUME NEW w \in Workers
        PROVE  /\ worker[w].lastOK <= appended + 1
               /\ \A k \in DOMAIN worker[w].recs : Counted(worker[w].recs[k], appended')
    <3>1. /\ worker[w].lastOK \in Nat /\ worker[w].lastOK <= appended
          /\ worker[w].recs \in Seq(Record)
      BY <1>a DEF Types, WorkerState
    <3>2. \A k \in DOMAIN worker[w].recs : worker[w].recs[k] \in Record /\ Counted(worker[w].recs[k], appended)
      BY <3>1 DEF Types
    <3>3. QED
      BY <1>a, <2>1, <2>6, <3>1, <3>2
  <2>10. lastSeq' <= appended'
    BY <1>a, <2>1
  <2>11. QED
    BY <1>a, <2>1, <2>5, <2>7, <2>8, <2>9, <2>10 DEF Types, Counted
<1>3. ASSUME Sync PROVE Types'
  <2>1. /\ written' = Len(outbox) /\ synced' \in {Len(outbox), synced}
        /\ UNCHANGED <<outbox, closedSegs, lastSeq, appended, meta, published, worker, kafka>>
    BY <1>3 DEF Sync
  <2>2. TypeOK'
    BY <1>a, <2>1 DEF TypeOK, WorkerState
  <2>3. QED
    BY <2>1, <2>2 DEF Types, Counted
<1>4. ASSUME NEW w \in Workers, Fetch(w) PROVE Types'
  <2> DEFINE from == LoadPublished
             recs == FetchUnpublished(from)
             s == [pc |-> "publish", after |-> from, recs |-> recs, lastOK |-> from]
  <2>1. /\ published' = from /\ worker' = [worker EXCEPT ![w] = s]
        /\ UNCHANGED <<outbox, written, synced, closedSegs, lastSeq, appended, meta, kafka>>
    BY <1>4, Zenon DEF Fetch
  <2>2. from \in 0..appended
    BY <1>a DEF LoadPublished, LoadMeta
  <2> HIDE DEF from
  <2>3. recs \in Seq(Record) /\ \A k \in DOMAIN recs : Counted(recs[k], appended)
    <3>1. from \in Nat
      BY <1>a, <2>2
    <3>2. recs \in Seq(Record) /\ \A k \in DOMAIN recs : \E i \in 1..written : outbox[i] = recs[k]
      BY <3>1, FetchProperties
    <3>3. \A i \in 1..written : Counted(outbox[i], appended)
      BY <1>a DEF Types
    <3> HIDE DEF recs
    <3>4. QED
      BY <3>2, <3>3
  <2> HIDE DEF recs
  <2>4. s \in WorkerState /\ s.lastOK <= appended /\ s.recs = recs
    BY <1>a, <2>2, <2>3 DEF WorkerState
  <2> HIDE DEF s
  <2>5. QED
    BY <1>a, <1>b, <1>c, <2>1, <2>2, <2>3, <2>4
<1>5. ASSUME NEW w \in Workers, WriteBatch(w) PROVE Types'
  <2> DEFINE recs == worker[w].recs
             s == PublishedGroup(w, Group(recs))
  <2>1. /\ recs # <<>> /\ kafka' = kafka \o Group(recs) /\ worker' = [worker EXCEPT ![w] = s]
        /\ UNCHANGED <<outbox, written, synced, closedSegs, lastSeq, appended, meta, published>>
    BY <1>5, Zenon DEF WriteBatch
  <2>2. worker[w] \in WorkerState /\ recs \in Seq(Record) /\ \A k \in DOMAIN recs : Counted(recs[k], appended)
    BY <1>a DEF Types, WorkerState
  <2> DEFINE rest == SubSeq(recs, Len(Group(recs)) + 1, Len(recs))
  <2>3. s = [worker[w] EXCEPT !.recs = rest, !.lastOK = Last(Group(recs)).seq]
    BY DEF PublishedGroup
  <2> HIDE DEF recs
  <2>4. PICK g \in 1..Len(recs) :
           /\ Group(recs) \in Seq(Record) /\ Last(Group(recs)) = recs[g]
           /\ rest \in Seq(Record) /\ Len(rest) = Len(recs) - g
           /\ \A k \in 1..(Len(recs) - g) : rest[k] = recs[k + g]
    BY <2>1, <2>2, GroupProperties
  <2>5. \A k \in DOMAIN rest : Counted(rest[k], appended)
    <3> HIDE DEF rest
    <3>1. Len(recs) \in Nat /\ DOMAIN recs = 1..Len(recs)
      BY <2>2
    <3>2. ASSUME NEW k \in 1..(Len(recs) - g) PROVE k + g \in DOMAIN recs
      BY <2>4, <3>1
    <3>3. QED
      BY <2>2, <2>4, <3>1, <3>2
  <2>6. recs[g] \in Record /\ Counted(recs[g], appended)
    BY <2>2
  <2>7. recs[g].seq \in Nat /\ recs[g].seq <= appended
    BY <1>a, <2>6 DEF Counted, Record
  <2> HIDE DEF s, rest
  <2>8. s \in WorkerState /\ s.lastOK = recs[g].seq /\ s.recs = rest
    BY <2>2, <2>3, <2>4, <2>7 DEF WorkerState
  <2>9. kafka' \in Seq(Record)
    BY <1>a, <2>1, <2>4
  <2>10. QED
    BY <1>a, <1>b, <1>c, <2>1, <2>5, <2>7, <2>8, <2>9
<1>6. ASSUME NEW w \in Workers, WriteBatchFails(w) PROVE Types'
  <2> DEFINE recs == worker[w].recs
             s == AfterFailure(w)
  <2>1. /\ recs # <<>> /\ worker' = [worker EXCEPT ![w] = s]
        /\ UNCHANGED <<outbox, written, synced, closedSegs, lastSeq, appended, meta, published>>
        /\ \E n \in 0..Len(Group(recs)) : kafka' = kafka \o SubSeq(recs, 1, n)
    BY <1>6, Zenon DEF WriteBatchFails
  <2>2. worker[w] \in WorkerState /\ recs \in Seq(Record) /\ worker[w].lastOK <= appended
    BY <1>a DEF Types, WorkerState
  <2>3. s \in WorkerState /\ s.lastOK <= appended /\ s.recs = <<>>
    <3>1. s = [worker[w] EXCEPT !.recs = <<>>] /\ <<>> \in Seq(Record)
      BY DEF AfterFailure
    <3> HIDE DEF s
    <3>2. QED
      BY <2>2, <3>1 DEF WorkerState
  <2>4. kafka' \in Seq(Record)
    <3> HIDE DEF recs, s
    <3>1. PICK n \in 0..Len(Group(recs)) : kafka' = kafka \o SubSeq(recs, 1, n)
      BY <2>1
    <3>2. PICK g \in 1..Len(recs) : Len(Group(recs)) = g
      BY <2>1, <2>2, GroupProperties
    <3>3. n \in 0..Len(recs) /\ Len(recs) \in Nat
      BY <2>2, <3>1, <3>2
    <3>4. SubSeq(recs, 1, n) \in Seq(Record)
      BY <2>2, <3>3
    <3>5. QED
      BY <1>a, <3>1, <3>4
  <2> HIDE DEF s
  <2>5. QED
    BY <1>a, <1>e, <2>1, <2>3, <2>4
<1>7. ASSUME NEW w \in Workers, StorePublished(w) PROVE Types'
  <2>1. worker[w] \in WorkerState /\ worker[w].lastOK <= appended /\ worker[w].recs = <<>>
    BY <1>7, <1>a DEF StorePublished, Types
  <2>2. UNCHANGED <<outbox, written, synced, closedSegs, lastSeq, appended, meta, kafka>>
    BY <1>7 DEF StorePublished
  <2>3. CASE worker[w].lastOK > worker[w].after
    <3> DEFINE s == [worker[w] EXCEPT !.pc = "save"]
    <3>1. published' = worker[w].lastOK /\ worker' = [worker EXCEPT ![w] = s]
      BY <1>7, <2>3 DEF StorePublished
    <3>2. s \in WorkerState /\ s.lastOK = worker[w].lastOK /\ s.recs = <<>>
      BY <2>1 DEF WorkerState
    <3>3. published' \in 0..appended
      BY <1>a, <2>1, <3>1 DEF WorkerState
    <3> HIDE DEF s
    <3>4. QED
      BY <1>a, <1>e, <2>1, <2>2, <3>1, <3>2, <3>3
  <2>4. CASE ~(worker[w].lastOK > worker[w].after)
    <3>1. UNCHANGED published /\ worker' = [worker EXCEPT ![w] = Idle]
      BY <1>7, <2>4 DEF StorePublished
    <3>2. published' \in 0..appended /\ meta' \in 0..appended /\ kafka' \in Seq(Record)
      BY <1>a, <2>2, <3>1
    <3>3. QED
      BY <1>e, <1>d, <2>2, <3>1, <3>2
  <2>5. QED
    BY <2>3, <2>4
<1>8. ASSUME NEW w \in Workers, SaveMeta(w) PROVE Types'
  <2>1. /\ meta' = worker[w].lastOK /\ worker' = [worker EXCEPT ![w] = Idle]
        /\ UNCHANGED <<outbox, written, synced, closedSegs, lastSeq, appended, published, kafka>>
    BY <1>8 DEF SaveMeta
  <2>2. meta' \in 0..appended
    BY <1>a, <2>1 DEF Types, WorkerState
  <2>3. published' \in 0..appended /\ kafka' \in Seq(Record)
    BY <1>a, <2>1
  <2>4. QED
    BY <1>e, <1>d, <2>1, <2>2, <2>3
<1>9. ASSUME Crash PROVE Types'
  <2>1. PICK n \in 0..written :
           /\ n >= synced
           /\ outbox' = SubSeq(outbox, 1, n) /\ written' = n /\ synced' = n
           /\ lastSeq' = ScanLastSeq(LatestSegment(n))
    BY <1>9, <1>a DEF Crash
  <2>2. /\ published' = 0 /\ worker' = [w \in Workers |-> Idle]
        /\ UNCHANGED <<closedSegs, appended, meta, kafka>>
    BY <1>9 DEF Crash
  <2>3. /\ outbox' \in Seq(Record) /\ Len(outbox') = n
        /\ \A i \in 1..n : outbox'[i] = outbox[i] /\ i \in DOMAIN outbox
    BY <1>a, <2>1
  <2>4. lastSeq' \in Nat /\ lastSeq' <= appended
    <3> DEFINE segment == SubSeq(outbox, closedSegs + 1, n)
    <3>1. n \in Nat /\ n <= Len(outbox) /\ closedSegs \in Nat /\ closedSegs <= n
      BY <1>a, <2>1
    <3>2. CASE segment = <<>>
      BY <1>a, <2>1, <3>2 DEF ScanLastSeq, LatestSegment
    <3>3. CASE segment # <<>>
      <4>1. closedSegs < n
        BY <1>a, <3>1, <3>3
      <4>2. segment[Len(segment)] = outbox[n] /\ n \in DOMAIN outbox
        BY <1>a, <3>1, <4>1
      <4>3. lastSeq' = outbox[n].seq
        BY <2>1, <3>3, <4>2 DEF ScanLastSeq, LatestSegment, Last
      <4>4. outbox[n] \in Record /\ Counted(outbox[n], appended)
        BY <1>a, <4>2 DEF Types
      <4>5. QED
        BY <1>a, <4>3, <4>4 DEF Counted, Record
    <3>4. QED
      BY <3>2, <3>3
  <2>5. TypeOK'
    BY <1>a, <1>d, <2>1, <2>2, <2>3, <2>4 DEF TypeOK, WorkerState
  <2>6. \A i \in DOMAIN outbox' : Counted(outbox'[i], appended')
    <3>1. DOMAIN outbox' = 1..n
      BY <2>3
    <3>2. QED
      BY <2>2, <2>3, <3>1 DEF Types
  <2>7. \A i, j \in DOMAIN outbox' : i < j => outbox'[i].n < outbox'[j].n
    BY <2>3 DEF Types
  <2>8. QED
    BY <1>a, <1>d, <2>2, <2>4, <2>5, <2>6, <2>7 DEF Types
<1>10. QED
  BY <1>1, <1>2, <1>3, <1>4, <1>5, <1>6, <1>7, <1>8, <1>9 DEF Next, AppendOutbound, Work

(* Every variable of EventRelay keeps its type: the cursors stay within    *)
(* what was appended, whatever a crash or a loss of power takes.           *)
THEOREM TypeCorrect == Spec => []TypeOK
<1>1. Types => TypeOK
  BY DEF Types
<1>2. QED
  BY <1>1, InitTypes, NextTypes, PTL DEF Spec

-----------------------------------------------------------------------------
(* Delivery.  A power loss takes records that were sent, so what follows   *)
(* is about crashes of the process.                                        *)

Ordered(n) == \A i, j \in 1..n : i < j => outbox[i].seq < outbox[j].seq

(* A cursor is 0 or the number of a record that has arrived.               *)
Cursor(c) == c = 0 \/ \E i \in 1..written : outbox[i].seq = c /\ outbox[i] \in Delivered

Written(r) == \E i \in 1..written : outbox[i] = r

(* Whatever has arrived or is on its way was written.  While the numbers   *)
(* increase, the records that have arrived are the first of the outbox,    *)
(* and all before a record on its way have arrived or go before it.        *)
Relayed ==
    /\ \A r \in Delivered : Written(r)
    /\ Cursor(meta) /\ Cursor(published)
    /\ \A w \in Workers : /\ Cursor(worker[w].lastOK)
                          /\ \A k \in DOMAIN worker[w].recs : Written(worker[w].recs[k])
    /\ Ordered(written) =>
         /\ \A i \in 1..written : outbox[i] \in Delivered => \A j \in 1..i : outbox[j] \in Delivered
         /\ \A w \in Workers : \A k \in DOMAIN worker[w].recs : \A i \in 1..written :
               outbox[i] = worker[w].recs[k] =>
                  \A j \in 1..i - 1 :
                     \/ outbox[j] \in Delivered
                     \/ \E l \in DOMAIN worker[w].recs : l < k /\ worker[w].recs[l] = outbox[j]

(* The records of the outbox are told apart by their count.                *)
LEMMA Distinct ==
    ASSUME Types, NEW i \in DOMAIN outbox, NEW j \in DOMAIN outbox, outbox[i] = outbox[j]
    PROVE  i = j
<1>1. i \in Nat /\ j \in Nat /\ outbox[i] \in Record
  BY DEF Types, TypeOK
<1>2. outbox[i].n \in Nat
  BY <1>1, EventRelayAssumption DEF Record
<1>3. ~(i < j) /\ ~(j < i)
  BY <1>2 DEF Types
<1>4. QED
  BY <1>1, <1>3

(* Records are added at the end, and more of them are written.             *)
LEMMA RelayedGrows ==
    ASSUME Types, Types', Relayed, UNCHANGED <<meta, published, worker, kafka>>,
           written <= written',
           \A i \in DOMAIN outbox : i \in DOMAIN outbox' /\ outbox'[i] = outbox[i]
    PROVE  Relayed'
<1>1. /\ outbox \in Seq(Record) /\ written \in 0..Len(outbox) /\ Len(outbox) \in Nat
      /\ outbox' \in Seq(Record) /\ written' \in 0..Len(outbox') /\ Len(outbox') \in Nat
  BY DEF Types, TypeOK
<1>2. \A i \in 1..written : i \in DOMAIN outbox /\ i \in 1..written' /\ outbox'[i] = outbox[i]
  BY <1>1
<1>3. Delivered' = Delivered
  BY DEF Delivered
<1>4. ASSUME NEW r, Written(r) PROVE Written(r)'
  BY <1>2, <1>4 DEF Written
<1>5. ASSUME NEW c, Cursor(c) PROVE Cursor(c)'
  BY <1>2, <1>3, <1>5 DEF Cursor
<1>6. ASSUME NEW r, Written(r), NEW i \in 1..written', outbox'[i] = r
      PROVE  i \in 1..written /\ outbox[i] = r
  <2>1. PICK j \in 1..written : outbox[j] = r
    BY <1>6 DEF Written
  <2>2. j \in DOMAIN outbox' /\ i \in DOMAIN outbox' /\ outbox'[j] = outbox'[i]
    BY <1>1, <1>2, <1>6, <2>1
  <2>3. i = j
    <3>1. outbox'[i] \in Record /\ i \in Nat /\ j \in Nat
      BY <1>1, <2>2
    <3>2. outbox'[i].n \in Nat
      BY <3>1, EventRelayAssumption DEF Record
    <3>3. ~(i < j) /\ ~(j < i)
      BY <2>2, <3>2 DEF Types
    <3>4. QED
      BY <3>1, <3>3
  <2>4. QED
    BY <2>1, <2>3
<1>7. Ordered(written)' => Ordered(written)
  BY <1>2 DEF Ordered
<1>8. ASSUME Ordered(written)', NEW i \in 1..written', outbox'[i] \in Delivered, NEW j \in 1..i
      PROVE  outbox'[j] \in Delivered
  <2>1. Written(outbox'[i])
    BY <1>8 DEF Relayed
  <2>2. i \in 1..written /\ outbox[i] \in Delivered
    BY <1>6, <1>8, <2>1
  <2>3. outbox[j] \in Delivered /\ j \in 1..written
    BY <1>1, <1>7, <1>8, <2>2 DEF Relayed
  <2>4. QED
    BY <1>2, <2>3
<1>9. ASSUME Ordered(written)', NEW w \in Workers, NEW k \in DOMAIN worker[w].recs,
             NEW i \in 1..written', outbox'[i] = worker[w].recs[k], NEW j \in 1..i - 1
      PROVE  \/ outbox'[j] \in Delivered
             \/ \E l \in DOMAIN worker[w].recs : l < k /\ worker[w].recs[l] = outbox'[j]
  <2>1. Written(worker[w].recs[k])
    BY DEF Relayed
  <2>2. i \in 1..written /\ outbox[i] = worker[w].recs[k]
    BY <1>6, <1>9, <2>1
  <2>3. j \in 1..written
    BY <1>1, <2>2
  <2>4. \/ outbox[j] \in Delivered
        \/ \E l \in DOMAIN worker[w].recs : l < k /\ worker[w].recs[l] = outbox[j]
    BY <1>7, <1>9, <2>2 DEF Relayed
  <2>5. QED
    BY <1>2, <2>3, <2>4
<1>10. \A r \in Delivered : Written(r)'
  BY <1>4 DEF Relayed
<1>11. Cursor(meta)' /\ Cursor(published)'
  <2>1. Cursor(meta) /\ Cursor(published)
    BY DEF Relayed
  <2>2. QED
    BY <1>2, <1>3, <2>1 DEF Cursor
<1>12. ASSUME NEW w \in Workers
       PROVE  Cursor(worker[w].lastOK)' /\ \A k \in DOMAIN worker[w].recs : Written(worker[w].recs[k])'
  <2>1. Cursor(worker[w].lastOK) /\ \A k \in DOMAIN worker[w].recs : Written(worker[w].recs[k])
    BY DEF Relayed
  <2>2. QED
    BY <1>2, <1>3, <2>1 DEF Cursor, Written
<1>13. Ordered(written)' =>
         /\ \A i \in 1..written' : outbox'[i] \in Delivered => \A j \in 1..i : outbox'[j] \in Delivered
         /\ \A w \in Workers : \A k \in DOMAIN worker[w].recs : \A i \in 1..written' :
               outbox'[i] = worker[w].recs[k] =>
                  \A j \in 1..i - 1 :
                     \/ outbox'[j] \in Delivered
                     \/ \E l \in DOMAIN worker[w].recs : l < k /\ worker[w].recs[l] = outbox'[j]
  BY <1>8, <1>9
<1>14. QED
  <2>1. \A r \in Delivered' : Written(r)'
    BY <1>3, <1>10
  <2>2. \A w \in Workers : /\ Cursor(worker[w].lastOK)'
                           /\ \A k \in DOMAIN worker'[w].recs : Written(worker[w].recs[k])'
    BY <1>12
  <2>3. Ordered(written)' =>
         /\ \A i \in 1..written' : outbox'[i] \in Delivered' => \A j \in 1..i : outbox'[j] \in Delivered'
         /\ \A w \in Workers : \A k \in DOMAIN worker'[w].recs : \A i \in 1..written' :
               outbox'[i] = worker'[w].recs[k] =>
                  \A j \in 1..i - 1 :
                     \/ outbox'[j] \in Delivered'
                     \/ \E l \in DOMAIN worker'[w].recs : l < k /\ worker'[w].recs[l] = outbox'[j]
    BY <1>3, <1>13
  <2>4. QED
    BY <1>11, <2>1, <2>2, <2>3, Zenon DEF Relayed

(* One worker sends a prefix of what it holds, or takes in or drops a      *)
(* list; the outbox stays.                                                 *)
LEMMA RelayedSends ==
    ASSUME Types, Relayed, UNCHANGED <<outbox, written>>,
           NEW w \in Workers, NEW s \in WorkerState, worker' = [worker EXCEPT ![w] = s],
           Delivered \subseteq Delivered',
           \A r \in Delivered' : r \in Delivered \/ Written(r),
           Cursor(meta)', Cursor(published)', Cursor(s.lastOK)',
           \A k \in DOMAIN s.recs : Written(s.recs[k]),
           Ordered(written) =>
             /\ \A i \in 1..written : outbox[i] \in Delivered' => \A j \in 1..i : outbox[j] \in Delivered'
             /\ \A k \in DOMAIN s.recs : \A i \in 1..written :
                  outbox[i] = s.recs[k] =>
                    \A j \in 1..i - 1 :
                       \/ outbox[j] \in Delivered'
                       \/ \E l \in DOMAIN s.recs : l < k /\ s.recs[l] = outbox[j]
    PROVE  Relayed'
<1>1. worker \in [Workers -> WorkerState]
  BY DEF Types
<1>2. \A v \in Workers : worker'[v] = IF v = w THEN s ELSE worker[v]
  BY <1>1
<1>3. ASSUME NEW c, Cursor(c) PROVE Cursor(c)'
  BY <1>3 DEF Cursor
<1>4. \A r \in Delivered' : Written(r)
  BY DEF Relayed
<1>5. ASSUME NEW v \in Workers
      PROVE  Cursor(worker[v].lastOK)' /\ \A k \in DOMAIN worker'[v].recs : Written(worker'[v].recs[k])
  <2>1. CASE v = w
    BY <1>2, <2>1 DEF Cursor
  <2>2. CASE v # w
    BY <1>2, <1>3, <2>2 DEF Relayed, Cursor
  <2>3. QED
    BY <2>1, <2>2
<1>6. ASSUME Ordered(written), NEW v \in Workers, NEW k \in DOMAIN worker'[v].recs,
             NEW i \in 1..written, outbox[i] = worker'[v].recs[k], NEW j \in 1..i - 1
      PROVE  \/ outbox[j] \in Delivered'
             \/ \E l \in DOMAIN worker'[v].recs : l < k /\ worker'[v].recs[l] = outbox[j]
  <2>1. CASE v = w
    BY <1>2, <1>6, <2>1
  <2>2. CASE v # w
    BY <1>2, <1>6, <2>2 DEF Relayed
  <2>3. QED
    BY <2>1, <2>2
<1>7. Ordered(written)' <=> Ordered(written)
  BY DEF Ordered
<1>8. \A r : Written(r)' <=> Written(r)
  BY DEF Written
<1>9. QED
  <2>1. \A r \in Delivered' : \E i \in 1..written' : outbox'[i] = r
    BY <1>4 DEF Written
  <2>2. \A v \in Workers : /\ Cursor(worker[v].lastOK)'
                           /\ \A k \in DOMAIN worker'[v].recs : \E i \in 1..written' : outbox'[i] = worker'[v].recs[k]
    BY <1>5 DEF Written
  <2>3. Ordered(written)' =>
         /\ \A i \in 1..written' : outbox'[i] \in Delivered' => \A j \in 1..i : outbox'[j] \in Delivered'
         /\ \A v \in Workers : \A k \in DOMAIN worker'[v].recs : \A i \in 1..written' :
               outbox'[i] = worker'[v].recs[k] =>
                  \A j \in 1..i - 1 :
                     \/ outbox'[j] \in Delivered'
                     \/ \E l \in DOMAIN worker'[v].recs : l < k /\ worker'[v].recs[l] = outbox'[j]
    BY <1>6, <1>7
  <2>4. QED
    BY <2>1, <2>2, <2>3, Zenon DEF Relayed, Written

(* What is left of a list without its first g elements.                    *)
LEMMA Rest ==
    ASSUME NEW r \in Seq(Record), NEW g \in 0..Len(r)
    PROVE  /\ Len(SubSeq(r, g + 1, Len(r))) = Len(r) - g
           /\ \A k \in 1..(Len(r) - g) : SubSeq(r, g + 1, Len(r))[k] = r[k + g]
           /\ \A l \in 1..Len(r) : ~(l <= g) => l - g \in 1..(Len(r) - g)
<1>1. Len(r) \in Nat /\ g \in Nat /\ g <= Len(r)
  OBVIOUS
<1>2. Len(SubSeq(r, g + 1, Len(r))) = Len(r) - g
  <2>1. g + 1 <= Len(r) + 1
    BY <1>1
  <2>2. Len(SubSeq(r, g + 1, Len(r))) = IF g + 1 <= Len(r) THEN Len(r) - (g + 1) + 1 ELSE 0
    BY <1>1, SubSeqProperties
  <2>3. QED
    BY <1>1, <2>2
<1>3. ASSUME NEW k \in 1..(Len(r) - g) PROVE SubSeq(r, g + 1, Len(r))[k] = r[k + g]
  BY <1>1
<1>4. ASSUME NEW l \in 1..Len(r), ~(l <= g) PROVE l - g \in 1..(Len(r) - g)
  BY <1>1, <1>4
<1>5. QED
  BY <1>2, <1>3, <1>4

(* A worker sends the first g records it holds and keeps none of them.     *)
LEMMA RelayedPrefix ==
    ASSUME Types, Relayed, UNCHANGED <<outbox, written, meta, published>>,
           NEW w \in Workers, NEW s \in WorkerState, worker' = [worker EXCEPT ![w] = s],
           NEW g \in 0..Len(worker[w].recs),
           kafka' = kafka \o SubSeq(worker[w].recs, 1, g),
           s.recs = <<>> \/ s.recs = SubSeq(worker[w].recs, g + 1, Len(worker[w].recs)),
           s.lastOK = worker[w].lastOK \/ (g # 0 /\ s.lastOK = worker[w].recs[g].seq)
    PROVE  Relayed'
<1> DEFINE recs == worker[w].recs
           t == SubSeq(recs, 1, g)
<1>1. /\ recs \in Seq(Record) /\ kafka \in Seq(Record) /\ s.recs \in Seq(Record)
      /\ outbox \in Seq(Record) /\ written \in 0..Len(outbox)
  BY DEF Types, TypeOK, WorkerState
<1>2. Len(recs) \in Nat /\ g \in 0..Len(recs) /\ DOMAIN recs = 1..Len(recs)
  BY <1>1
<1> HIDE DEF recs
<1>3. t \in Seq(Record) /\ Len(t) = g /\ \A k \in 1..g : t[k] = recs[k] /\ k \in DOMAIN recs
  BY <1>1, <1>2
<1>4. kafka' = kafka \o t
  BY DEF recs
<1> HIDE DEF t
<1>5. Delivered' = Delivered \cup {recs[k] : k \in 1..g}
  <2>1. Len(kafka) \in Nat /\ Len(kafka') = Len(kafka) + g /\ DOMAIN kafka' = 1..(Len(kafka) + g)
    BY <1>1, <1>2, <1>3, <1>4
  <2>a. PICK n \in Nat : n = Len(kafka) /\ DOMAIN kafka = 1..n
    BY <1>1
  <2>b. /\ \A i \in 1..n : kafka'[i] = kafka[i]
        /\ \A i \in (n + 1)..(n + g) : kafka'[i] = t[i - n]
    <3>1. PICK u : u = kafka
      OBVIOUS
    <3>2. PICK v : v = kafka'
      OBVIOUS
    <3>3. PICK r : r = u \o t
      OBVIOUS
    <3>4. u \in Seq(Record) /\ Len(u) = n /\ v = r
      BY <1>1, <1>4, <2>a, <3>1, <3>2, <3>3, Zenon
    <3>5. /\ \A i \in 1..Len(u) : r[i] = u[i]
          /\ \A i \in (Len(u) + 1)..(Len(u) + Len(t)) : r[i] = t[i - Len(u)]
      BY <1>3, <3>3, <3>4, Concatenated
    <3>6. /\ \A i \in 1..n : v[i] = u[i]
          /\ \A i \in (n + 1)..(n + g) : v[i] = t[i - n]
      BY <1>3, <3>4, <3>5, Zenon
    <3>7. QED
      BY <3>1, <3>2, <3>6, Zenon
  <2>c. \A i \in 1..n : i \in 1..(n + g)
    BY <1>2
  <2>d. \A k \in 1..g : k + n \in (n + 1)..(n + g) /\ k + n \in 1..(n + g) /\ (k + n) - n = k
    BY <1>2
  <2>2. \A i \in DOMAIN kafka : i \in DOMAIN kafka' /\ kafka'[i] = kafka[i]
    BY <2>1, <2>a, <2>b, <2>c
  <2>3. \A k \in 1..g : k + Len(kafka) \in DOMAIN kafka' /\ kafka'[k + Len(kafka)] = recs[k]
    <3>1. DOMAIN kafka' = 1..(n + g)
      BY <2>1, <2>a, Zenon
    <3>2. ASSUME NEW k \in 1..g PROVE kafka'[k + n] = recs[k]
      <4>1. kafka'[k + n] = t[(k + n) - n]
        BY <2>b, <2>d, Zenon
      <4>2. QED
        BY <1>3, <2>d, <4>1, Zenon
    <3>3. QED
      BY <2>a, <2>d, <3>1, <3>2, Zenon
  <2>4. ASSUME NEW i \in DOMAIN kafka', i \notin DOMAIN kafka
        PROVE  i - Len(kafka) \in 1..g /\ kafka'[i] = recs[i - Len(kafka)]
    <3>1. i - Len(kafka) \in 1..g
      BY <1>1, <1>2, <2>1, <2>4
    <3>2. i = (i - Len(kafka)) + Len(kafka)
      BY <2>1
    <3>3. QED
      BY <2>3, <3>1, <3>2
  <2>5. Delivered \cup {recs[k] : k \in 1..g} \subseteq Delivered'
    <3>1. \A i \in DOMAIN kafka : kafka[i] \in Delivered'
      BY <2>2 DEF Delivered, ToSet
    <3>2. \A k \in 1..g : recs[k] \in Delivered'
      BY <2>3 DEF Delivered, ToSet
    <3>3. QED
      BY <3>1, <3>2 DEF Delivered, ToSet
  <2>6. ASSUME NEW i \in DOMAIN kafka' PROVE kafka'[i] \in Delivered \cup {recs[k] : k \in 1..g}
    <3>1. CASE i \in DOMAIN kafka
      BY <2>2, <3>1 DEF Delivered, ToSet
    <3>2. CASE i \notin DOMAIN kafka
      BY <2>4, <3>2
    <3>3. QED
      BY <3>1, <3>2
  <2>7. Delivered' \subseteq Delivered \cup {recs[k] : k \in 1..g}
    BY <2>6 DEF Delivered, ToSet
  <2>8. QED
    BY <2>5, <2>7
<1>6. \A k \in DOMAIN recs : Written(recs[k])
  BY DEF Relayed, recs
<1>7. Cursor(meta)' /\ Cursor(published)'
  <2>1. Cursor(meta) /\ Cursor(published)
    BY DEF Relayed
  <2>2. QED
    BY <1>5, <2>1 DEF Cursor
<1>8. Cursor(s.lastOK)'
  <2>1. CASE s.lastOK = worker[w].lastOK
    <3>1. Cursor(s.lastOK)
      BY <2>1 DEF Relayed
    <3>2. QED
      BY <1>5, <3>1 DEF Cursor
  <2>2. CASE g # 0 /\ s.lastOK = recs[g].seq
    <3>1. g \in 1..g /\ g \in DOMAIN recs
      BY <1>2, <2>2
    <3>2. PICK i \in 1..written : outbox[i] = recs[g]
      BY <1>6, <3>1 DEF Written
    <3>3. outbox[i] \in Delivered'
      BY <1>5, <3>1, <3>2
    <3>4. QED
      BY <2>2, <3>2, <3>3 DEF Cursor
  <2>3. QED
    BY <2>1, <2>2 DEF recs
<1>9. ASSUME NEW k \in DOMAIN s.recs
      PROVE  k + g \in DOMAIN recs /\ s.recs[k] = recs[k + g] /\ k \in Nat
             /\ DOMAIN s.recs = 1..(Len(recs) - g)
  <2>1. s.recs = SubSeq(recs, g + 1, Len(recs))
    BY DEF recs
  <2>2. Len(s.recs) = Len(recs) - g
    BY <1>1, <1>2, <2>1, Rest
  <2>3. k \in 1..(Len(recs) - g) /\ DOMAIN s.recs = 1..(Len(recs) - g)
    BY <1>1, <2>2
  <2>4. k + g \in 1..Len(recs) /\ k \in Nat
    BY <1>2, <2>3
  <2>5. SubSeq(recs, g + 1, Len(recs))[k] = recs[k + g]
    BY <1>1, <1>2, <2>3
  <2>6. QED
    BY <1>2, <2>1, <2>3, <2>4, <2>5
<1>10. ASSUME Ordered(written), NEW k \in DOMAIN recs, NEW i \in 1..written, outbox[i] = recs[k],
              NEW j \in 1..i - 1
       PROVE  outbox[j] \in Delivered \/ \E l \in DOMAIN recs : l < k /\ recs[l] = outbox[j]
  BY <1>10 DEF Relayed, recs
<1>11. ASSUME Ordered(written), NEW i \in 1..written, outbox[i] \in Delivered', NEW j \in 1..i
       PROVE  outbox[j] \in Delivered'
  <2>1. CASE outbox[i] \in Delivered
    BY <1>5, <1>11, <2>1 DEF Relayed
  <2>2. CASE outbox[i] \notin Delivered
    <3>1. PICK k \in 1..g : outbox[i] = recs[k]
      BY <1>5, <1>11, <2>2
    <3>2. CASE j = i
      BY <1>11, <3>2
    <3>3. CASE j # i
      <4>1. j \in 1..i - 1 /\ k \in DOMAIN recs
        BY <1>3, <3>3
      <4>2. outbox[j] \in Delivered \/ \E l \in DOMAIN recs : l < k /\ recs[l] = outbox[j]
        BY <1>10, <1>11, <3>1, <4>1
      <4>3. \A l \in DOMAIN recs : l < k => l \in 1..g
        BY <1>2
      <4>4. QED
        BY <1>5, <4>2, <4>3
    <3>4. QED
      BY <3>2, <3>3
  <2>3. QED
    BY <2>1, <2>2
<1>12. ASSUME Ordered(written), NEW k \in DOMAIN s.recs, NEW i \in 1..written,
              outbox[i] = s.recs[k], NEW j \in 1..i - 1
       PROVE  outbox[j] \in Delivered' \/ \E l \in DOMAIN s.recs : l < k /\ s.recs[l] = outbox[j]
  <2>1. k + g \in DOMAIN recs /\ s.recs[k] = recs[k + g] /\ k \in Nat
        /\ DOMAIN s.recs = 1..(Len(recs) - g)
    BY <1>9
  <2>2. outbox[j] \in Delivered \/ \E l \in DOMAIN recs : l < k + g /\ recs[l] = outbox[j]
    BY <1>10, <1>12, <2>1
  <2>3. CASE outbox[j] \in Delivered
    BY <1>5, <2>3
  <2>4. ASSUME NEW l \in DOMAIN recs, l < k + g, recs[l] = outbox[j]
        PROVE  outbox[j] \in Delivered' \/ \E h \in DOMAIN s.recs : h < k /\ s.recs[h] = outbox[j]
    <3>1. CASE l <= g
      <4>1. l \in 1..g
        BY <1>2, <3>1
      <4>2. QED
        BY <1>5, <2>4, <4>1
    <3>2. CASE ~(l <= g)
      <4>1. l - g \in 1..(Len(recs) - g) /\ l - g < k /\ (l - g) + g = l
        <5>1. l - g \in 1..(Len(recs) - g)
          BY <1>1, <1>2, <2>4, <3>2, Rest
        <5>2. l \in Nat /\ g \in Nat
          BY <1>2, <2>4
        <5>3. \A a, b, c \in Nat : a < c + b => a - b < c /\ (a - b) + b = a
          OBVIOUS
        <5>4. l - g < k /\ (l - g) + g = l
          BY <2>1, <2>4, <5>2, <5>3, Zenon
        <5>5. QED
          BY <5>1, <5>4, Zenon
      <4>2. l - g \in DOMAIN s.recs /\ s.recs[l - g] = outbox[j]
        BY <1>9, <2>1, <2>4, <4>1
      <4>3. QED
        BY <4>1, <4>2
    <3>3. QED
      BY <3>1, <3>2
  <2>5. QED
    BY <2>2, <2>3, <2>4
<1>13. /\ Delivered \subseteq Delivered' /\ \A r \in Delivered' : r \in Delivered \/ Written(r)
       /\ \A k \in DOMAIN s.recs : Written(s.recs[k])
  BY <1>3, <1>5, <1>6, <1>9
<1>14. QED
  BY <1>7, <1>8, <1>11, <1>12, <1>13, RelayedSends

(* What a worker fetches follows what has arrived.                         *)
LEMMA RelayedFetch ==
    ASSUME Types, Relayed, NEW w \in Workers, Fetch(w)
    PROVE  Relayed'
<1>a. PICK from : from = LoadPublished
  OBVIOUS
<1>b. PICK recs : recs = FetchUnpublished(from)
  OBVIOUS
<1>c. PICK s : s = [pc |-> "publish", after |-> from, recs |-> recs, lastOK |-> from]
  OBVIOUS
<1>1. /\ published' = from /\ worker' = [worker EXCEPT ![w] = s]
      /\ UNCHANGED <<outbox, written, meta, kafka>>
  BY <1>a, <1>b, <1>c, Zenon DEF Fetch
<1>2. from \in Nat /\ Cursor(from)
  BY <1>a DEF LoadPublished, LoadMeta, Types, TypeOK, Relayed
<1>3. /\ recs \in Seq(Record)
      /\ \A k \in DOMAIN recs : \E i \in 1..written :
            /\ outbox[i] = recs[k] /\ outbox[i].seq > from
            /\ \A j \in 1..written :
                  (j < i /\ outbox[j].seq > from) => \E l \in DOMAIN recs : l < k /\ recs[l] = outbox[j]
  BY <1>2, <1>b, FetchProperties
<1>4. s \in WorkerState /\ s.recs = recs /\ s.lastOK = from
  BY <1>2, <1>3, <1>c DEF WorkerState
<1>5. Delivered' = Delivered
  BY <1>1 DEF Delivered
<1>6. Cursor(meta)' /\ Cursor(published)' /\ Cursor(s.lastOK)'
  <2>1. Cursor(meta)
    BY DEF Relayed
  <2>2. QED
    BY <1>1, <1>2, <1>4, <1>5, <2>1 DEF Cursor
<1>7. outbox \in Seq(Record) /\ written \in 0..Len(outbox)
  BY DEF Types, TypeOK
<1>8. ASSUME Ordered(written), NEW j \in 1..written, ~(outbox[j].seq > from)
      PROVE  outbox[j] \in Delivered
  <2>1. outbox[j] \in Record /\ outbox[j].seq >= 1 /\ j \in Nat
    BY <1>7 DEF Types, Counted
  <2>2. outbox[j].seq \in Nat /\ from # 0
    BY <1>2, <1>8, <2>1 DEF Record
  <2>3. PICK i \in 1..written : outbox[i].seq = from /\ outbox[i] \in Delivered
    BY <1>2, <2>2 DEF Cursor
  <2>4. j <= i
    <3>1. ~(i < j)
      BY <1>2, <1>8, <2>2, <2>3 DEF Ordered
    <3>2. QED
      BY <1>7, <3>1
  <2>5. QED
    BY <1>7, <1>8, <2>3, <2>4 DEF Relayed
<1>9. ASSUME Ordered(written), NEW k \in DOMAIN recs, NEW i \in 1..written,
             outbox[i] = recs[k], NEW j \in 1..i - 1
      PROVE  outbox[j] \in Delivered \/ \E l \in DOMAIN recs : l < k /\ recs[l] = outbox[j]
  <2>1. PICK h \in 1..written :
            /\ outbox[h] = recs[k]
            /\ \A m \in 1..written :
                  (m < h /\ outbox[m].seq > from) => \E l \in DOMAIN recs : l < k /\ recs[l] = outbox[m]
    BY <1>3
  <2>2. h = i
    BY <1>7, <1>9, <2>1, Distinct
  <2>3. j \in 1..written /\ j < i
    BY <1>7
  <2>4. QED
    BY <1>8, <1>9, <2>1, <2>2, <2>3
<1>10. \A i \in 1..written : (outbox[i] \in Delivered /\ Ordered(written)) =>
          \A j \in 1..i : outbox[j] \in Delivered
  BY DEF Relayed
<1>11. \A k \in DOMAIN recs : Written(recs[k])
  BY <1>3 DEF Written
<1>12. /\ Delivered \subseteq Delivered' /\ \A r \in Delivered' : r \in Delivered \/ Written(r)
       /\ \A k \in DOMAIN s.recs : Written(s.recs[k])
  BY <1>4, <1>5, <1>11
<1>13. Ordered(written) =>
         /\ \A i \in 1..written : outbox[i] \in Delivered' => \A j \in 1..i : outbox[j] \in Delivered'
         /\ \A k \in DOMAIN s.recs : \A i \in 1..written :
              outbox[i] = s.recs[k] =>
                \A j \in 1..i - 1 :
                   \/ outbox[j] \in Delivered'
                   \/ \E l \in DOMAIN s.recs : l < k /\ s.recs[l] = outbox[j]
  <2>1. ASSUME Ordered(written), NEW i \in 1..written, outbox[i] \in Delivered', NEW j \in 1..i
        PROVE  outbox[j] \in Delivered'
    BY <1>4, <1>5, <1>9, <1>10, <2>1
  <2>2. ASSUME Ordered(written), NEW k \in DOMAIN s.recs, NEW i \in 1..written,
               outbox[i] = s.recs[k], NEW j \in 1..i - 1
        PROVE  \/ outbox[j] \in Delivered'
               \/ \E l \in DOMAIN s.recs : l < k /\ s.recs[l] = outbox[j]
    BY <1>4, <1>5, <1>9, <1>10, <2>2
  <2>3. QED
    BY <2>1, <2>2
<1>14. QED
  BY <1>1, <1>4, <1>6, <1>12, <1>13, RelayedSends

(* Initially nothing was sent.                                             *)
LEMMA InitRelayed == Init => Relayed
  BY DEF Init, Relayed, Delivered, ToSet, Cursor, Idle

(* Without a loss of power, every step keeps Relayed.                      *)
LEMMA NextRelayed ==
    ASSUME PowerLoss = FALSE, Types, Types', Relayed, [Next]_vars
    PROVE  Relayed'
<1>a. /\ outbox \in Seq(Record) /\ written \in 0..Len(outbox) /\ Len(outbox) \in Nat
      /\ worker \in [Workers -> WorkerState] /\ kafka \in Seq(Record)
  BY DEF Types, TypeOK
<1>b. Idle \in WorkerState /\ Idle.recs = <<>> /\ Idle.lastOK = 0
  BY DEF Idle, WorkerState
<1>1. CASE UNCHANGED vars
  BY <1>1, <1>a, RelayedGrows DEF vars
<1>2. ASSUME NEW stream \in Streams, AppendNext(stream) PROVE Relayed'
  <2> DEFINE rec == [seq |-> lastSeq + 1, n |-> appended + 1, stream |-> stream]
  <2>1. /\ outbox' = Append(outbox, rec)
        /\ UNCHANGED <<meta, published, worker, kafka>>
        /\ \/ RotateLocked
           \/ UNCHANGED written
    BY <1>2, Zenon DEF AppendNext
  <2> HIDE DEF rec
  <2>2. Len(outbox') = Len(outbox) + 1
        /\ \A i \in DOMAIN outbox : i \in DOMAIN outbox' /\ outbox'[i] = outbox[i]
    BY <1>a, <2>1
  <2>3. written <= written'
    BY <1>a, <2>1, <2>2 DEF RotateLocked
  <2>4. QED
    BY <2>1, <2>2, <2>3, RelayedGrows
<1>3. ASSUME Sync PROVE Relayed'
  BY <1>3, <1>a, RelayedGrows DEF Sync
<1>4. ASSUME NEW w \in Workers, WriteBatch(w) PROVE Relayed'
  <2>1. PICK recs : recs = worker[w].recs
    OBVIOUS
  <2>2. PICK s : s = PublishedGroup(w, Group(recs))
    OBVIOUS
  <2>3. /\ recs # <<>> /\ kafka' = kafka \o Group(recs) /\ worker' = [worker EXCEPT ![w] = s]
        /\ UNCHANGED <<outbox, written, meta, published>>
    BY <1>4, <2>1, <2>2, Zenon DEF WriteBatch
  <2>4. worker[w] \in WorkerState /\ recs \in Seq(Record)
    BY <1>a, <2>1 DEF WorkerState
  <2>5. PICK g \in 1..Len(recs) :
           /\ Group(recs) = SubSeq(recs, 1, g) /\ Len(Group(recs)) = g
           /\ Last(Group(recs)) = recs[g]
           /\ SubSeq(recs, Len(Group(recs)) + 1, Len(recs)) \in Seq(Record)
    BY <2>3, <2>4, GroupProperties
  <2>6. s = [worker[w] EXCEPT !.recs = SubSeq(recs, g + 1, Len(recs)), !.lastOK = recs[g].seq]
    BY <2>1, <2>2, <2>5 DEF PublishedGroup
  <2>7. recs[g].seq \in Nat /\ g # 0 /\ g \in 0..Len(recs)
    <3>1. recs[g] \in Record
      BY <2>4, <2>5
    <3>2. QED
      BY <2>5, <3>1 DEF Record
  <2>8. /\ s \in WorkerState /\ s.recs = SubSeq(recs, g + 1, Len(recs))
        /\ s.lastOK = recs[g].seq
    BY <2>4, <2>5, <2>6, <2>7 DEF WorkerState
  <2>9. QED
    BY <2>1, <2>3, <2>5, <2>7, <2>8, RelayedPrefix
<1>5. ASSUME NEW w \in Workers, WriteBatchFails(w) PROVE Relayed'
  <2>1. PICK recs : recs = worker[w].recs
    OBVIOUS
  <2>2. PICK s : s = AfterFailure(w)
    OBVIOUS
  <2>3. /\ recs # <<>> /\ worker' = [worker EXCEPT ![w] = s]
        /\ UNCHANGED <<outbox, written, meta, published>>
        /\ \E n \in 0..Len(Group(recs)) : kafka' = kafka \o SubSeq(recs, 1, n)
    BY <1>5, <2>1, <2>2, Zenon DEF WriteBatchFails
  <2>4. worker[w] \in WorkerState /\ recs \in Seq(Record)
    BY <1>a, <2>1 DEF WorkerState
  <2>5. PICK n \in 0..Len(Group(recs)) : kafka' = kafka \o SubSeq(recs, 1, n)
    BY <2>3
  <2>6. PICK g \in 1..Len(recs) : Len(Group(recs)) = g
    BY <2>3, <2>4, GroupProperties
  <2>7. n \in 0..Len(recs)
    BY <2>4, <2>5, <2>6
  <2>8. s \in WorkerState /\ s.recs = <<>> /\ s.lastOK = worker[w].lastOK
    <3>1. s = [worker[w] EXCEPT !.recs = <<>>] /\ <<>> \in Seq(Record)
      BY <2>2 DEF AfterFailure
    <3>2. QED
      BY <2>4, <3>1 DEF WorkerState
  <2>9. QED
    BY <2>1, <2>3, <2>5, <2>7, <2>8, RelayedPrefix
<1>6. ASSUME NEW w \in Workers, NEW s \in WorkerState, worker' = [worker EXCEPT ![w] = s],
             s.recs = <<>>, Cursor(s.lastOK), Cursor(meta'), Cursor(published'),
             UNCHANGED <<outbox, written, kafka>>
      PROVE  Relayed'
  <2>1. Delivered' = Delivered
    BY <1>6 DEF Delivered
  <2>2. Cursor(meta)' /\ Cursor(published)' /\ Cursor(s.lastOK)'
    BY <1>6, <2>1 DEF Cursor
  <2>3. DOMAIN s.recs = {}
    BY <1>6
  <2>4. Ordered(written) =>
          \A i \in 1..written : outbox[i] \in Delivered' => \A j \in 1..i : outbox[j] \in Delivered'
    BY <2>1 DEF Relayed
  <2>5. /\ Delivered \subseteq Delivered' /\ \A r \in Delivered' : r \in Delivered \/ Written(r)
    BY <2>1
  <2>6. QED
    BY <1>6, <2>2, <2>3, <2>4, <2>5, RelayedSends
<1>7. ASSUME NEW w \in Workers, StorePublished(w) PROVE Relayed'
  <2>1. /\ worker[w] \in WorkerState /\ worker[w].recs = <<>> /\ Cursor(worker[w].lastOK)
        /\ Cursor(meta) /\ Cursor(published) /\ UNCHANGED <<outbox, written, kafka, meta>>
    BY <1>7, <1>a DEF StorePublished, Relayed
  <2>2. CASE worker[w].lastOK > worker[w].after
    <3>1. PICK s : s = [worker[w] EXCEPT !.pc = "save"]
      OBVIOUS
    <3>2. published' = worker[w].lastOK /\ worker' = [worker EXCEPT ![w] = s]
      BY <1>7, <2>2, <3>1 DEF StorePublished
    <3>3. s \in WorkerState /\ s.lastOK = worker[w].lastOK /\ s.recs = <<>>
      BY <2>1, <3>1 DEF WorkerState
    <3>4. QED
      BY <1>6, <2>1, <3>2, <3>3
  <2>3. CASE ~(worker[w].lastOK > worker[w].after)
    <3>1. UNCHANGED published /\ worker' = [worker EXCEPT ![w] = Idle]
      BY <1>7, <2>3 DEF StorePublished
    <3>2. QED
      BY <1>6, <1>b, <2>1, <3>1 DEF Cursor
  <2>4. QED
    BY <2>2, <2>3
<1>8. ASSUME NEW w \in Workers, SaveMeta(w) PROVE Relayed'
  <2>1. /\ meta' = worker[w].lastOK /\ worker' = [worker EXCEPT ![w] = Idle]
        /\ UNCHANGED <<outbox, written, published, kafka>>
    BY <1>8 DEF SaveMeta
  <2>2. Cursor(worker[w].lastOK) /\ Cursor(published)
    BY DEF Relayed
  <2>3. QED
    BY <1>6, <1>b, <2>1, <2>2 DEF Cursor
<1>9. ASSUME Crash PROVE Relayed'
  <2>1. /\ outbox' = SubSeq(outbox, 1, written) /\ written' = written
        /\ published' = 0 /\ worker' = [w \in Workers |-> Idle] /\ UNCHANGED <<meta, kafka>>
    BY <1>9, <1>a DEF Crash
  <2>2. \A i \in 1..written : outbox'[i] = outbox[i]
    BY <1>a, <2>1
  <2>3. Delivered' = Delivered
    BY <2>1 DEF Delivered
  <2>4. Cursor(meta)' /\ Cursor(published)'
    <3>1. Cursor(meta)
      BY DEF Relayed
    <3>2. QED
      BY <2>1, <2>2, <2>3, <3>1 DEF Cursor
  <2>5. \A r \in Delivered' : Written(r)'
    BY <2>1, <2>2, <2>3 DEF Relayed, Written
  <2>6. ASSUME NEW w \in Workers PROVE DOMAIN worker'[w].recs = {} /\ Cursor(worker[w].lastOK)'
    BY <1>b, <2>1 DEF Cursor
  <2>7. ASSUME Ordered(written)', NEW i \in 1..written', outbox'[i] \in Delivered', NEW j \in 1..i
        PROVE  outbox'[j] \in Delivered'
    <3>1. Ordered(written)
      BY <2>1, <2>2, <2>7 DEF Ordered
    <3>2. i \in 1..written /\ j \in 1..written /\ outbox[i] \in Delivered
      BY <1>a, <2>1, <2>2, <2>3, <2>7
    <3>3. outbox[j] \in Delivered
      BY <2>7, <3>1, <3>2 DEF Relayed
    <3>4. QED
      BY <2>2, <2>3, <3>2, <3>3
  <2>8. QED
    BY <2>4, <2>5, <2>6, <2>7 DEF Relayed
<1>10. QED
  BY <1>1, <1>2, <1>3, <1>4, <1>5, <1>7, <1>8, <1>9, RelayedFetch DEF Next, AppendOutbound, Work

(* I4: as long as outbox_seq increases and the machine keeps its power, a  *)
(* record behind the saved cursor has arrived in Kafka, with any number of *)
(* workers sharing the cursor, failed batches and crashes.                 *)
THEOREM AtLeastOnce ==
    ASSUME PowerLoss = FALSE
    PROVE  Spec => []NothingSkipped
<1>1. Init => Types /\ Relayed
  BY InitTypes, InitRelayed
<1>2. Types /\ Relayed /\ [Next]_vars => (Types /\ Relayed)'
  BY NextTypes, NextRelayed
<1>3. Types /\ Relayed => NothingSkipped
  <2> SUFFICES ASSUME Types, Relayed, SeqIncreases, NEW i \in DOMAIN outbox, outbox[i].seq <= meta
               PROVE  outbox[i] \in Delivered
    BY DEF NothingSkipped, ToSet
  <2>1. /\ outbox \in Seq(Record) /\ written \in 0..Len(outbox) /\ meta \in Nat
        /\ outbox[i] \in Record /\ outbox[i].seq >= 1
    BY DEF Types, TypeOK, Counted
  <2>2. meta # 0 /\ outbox[i].seq \in Nat
    BY <2>1 DEF Record
  <2>3. PICK j \in 1..written : outbox[j].seq = meta /\ outbox[j] \in Delivered
    BY <2>2 DEF Relayed, Cursor
  <2>4. j \in DOMAIN outbox /\ i \in Nat /\ j \in Nat /\ i >= 1
    BY <2>1
  <2>5. i \in 1..j
    <3>1. ~(j < i)
      BY <2>1, <2>2, <2>3, <2>4 DEF SeqIncreases
    <3>2. QED
      BY <2>4, <3>1
  <2>6. Ordered(written)
    BY <2>1 DEF SeqIncreases, Ordered
  <2>7. QED
    BY <2>3, <2>5, <2>6 DEF Relayed
<1>4. QED
  BY <1>1, <1>2, <1>3, PTL DEF Spec

(* Under the same conditions no event of a stream overtakes an earlier one *)
(* of the outbox: when it has arrived, so have they.                       *)
THEOREM NoOvertaking ==
    ASSUME PowerLoss = FALSE
    PROVE  Spec => []DeliveredInOrder
<1>1. Init => Types /\ Relayed
  BY InitTypes, InitRelayed
<1>2. Types /\ Relayed /\ [Next]_vars => (Types /\ Relayed)'
  BY NextTypes, NextRelayed
<1>3. Types /\ Relayed => DeliveredInOrder
  <2> SUFFICES ASSUME Types, Relayed, SeqIncreases, NEW r \in Delivered,
                      NEW j \in DOMAIN outbox, outbox[j].n < r.n
               PROVE  outbox[j] \in Delivered
    BY DEF DeliveredInOrder, ToSet
  <2>1. outbox \in Seq(Record) /\ written \in 0..Len(outbox)
    BY DEF Types, TypeOK
  <2>2. PICK i \in 1..written : outbox[i] = r
    BY DEF Relayed, Written
  <2>3. i \in DOMAIN outbox /\ i \in Nat /\ j \in Nat /\ j >= 1 /\ outbox[j] \in Record /\ r \in Record
    BY <2>1, <2>2
  <2>4. outbox[j].n \in Nat /\ r.n \in Nat
    BY <2>3, EventRelayAssumption DEF Record
  <2>5. j \in 1..i
    <3>1. ~(i < j)
      BY <2>2, <2>3, <2>4 DEF Types
    <3>2. QED
      BY <2>3, <3>1
  <2>6. Ordered(written)
    BY <2>1 DEF SeqIncreases, Ordered
  <2>7. QED
    BY <2>2, <2>5, <2>6 DEF Relayed
<1>4. QED
  BY <1>1, <1>2, <1>3, PTL DEF Spec
=============================================================================
