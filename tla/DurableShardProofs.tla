-------------------------- MODULE DurableShardProofs --------------------------
(***************************************************************************)
(* Proofs about DurableShard, for every set of symbols and orders, batch   *)
(* size, snapshot interval and number of commands, crashes and stops, and  *)
(* about the log it writes ahead: WalFile implements DurableLog.           *)
(***************************************************************************)
EXTENDS DurableShard, WalFile, InductionFacts, SequenceTheorems

(* The log numbers its records from 1 on.                                  *)
Numbered == \A i \in DOMAIN wal : wal[i].seq = i

(* What Replay adds to b: chosen records, each of them, in their order.    *)
Extends(r, b, chosen) ==
    /\ r \in Seq(Record) /\ Len(b) <= Len(r)
    /\ \A k \in 1..Len(b) : r[k] = b[k]
    /\ \A k \in (Len(b) + 1)..Len(r) :
          \E i \in chosen : r[k] = wal[i]
    /\ \A k, l \in (Len(b) + 1)..Len(r) : k < l => r[k].seq < r[l].seq
    /\ \A i \in chosen : \E k \in (Len(b) + 1)..Len(r) : r[k] = wal[i]

(* Replay does that.                                                       *)
LEMMA ReplayExtends ==
    ASSUME wal \in Seq(Record), Numbered,
           NEW b \in Seq(Record), NEW chosen \in SUBSET DOMAIN wal
    PROVE  Extends(Replay(b, chosen), b, chosen)
<1> DEFINE t == AtPositions(wal, chosen)
           r == b \o t
<1>1. PICK p : IsSelection(t, p, wal, chosen) /\ t \in Seq(Record)
  BY AtPositionsProperties
<1> HIDE DEF t
<1>2. /\ p \in [DOMAIN t -> chosen]
      /\ \A k \in DOMAIN t : t[k] = wal[p[k]] /\ t[k].seq = p[k]
      /\ \A k, l \in DOMAIN t : k < l => p[k] < p[l]
      /\ \A i \in chosen : \E k \in DOMAIN t : p[k] = i
  BY <1>1 DEF IsSelection, Numbered
<1>3. /\ r \in Seq(Record) /\ Len(r) = Len(b) + Len(t)
      /\ \A k \in 1..Len(b) : r[k] = b[k]
      /\ \A k \in (Len(b) + 1)..Len(r) : r[k] = t[k - Len(b)] /\ k - Len(b) \in DOMAIN t
      /\ \A k \in DOMAIN t : r[k + Len(b)] = t[k] /\ k + Len(b) \in (Len(b) + 1)..Len(r)
  BY <1>1
<1> HIDE DEF r
<1>4. Len(b) \in Nat /\ Len(t) \in Nat
  BY <1>1
<1>5. \A k \in (Len(b) + 1)..Len(r) : \E i \in chosen : r[k] = wal[i]
  BY <1>2, <1>3
<1>6. ASSUME NEW k \in (Len(b) + 1)..Len(r), NEW l \in (Len(b) + 1)..Len(r), k < l
      PROVE  r[k].seq < r[l].seq
  <2>1. k - Len(b) < l - Len(b)
    BY <1>4, <1>6
  <2>2. /\ k - Len(b) \in DOMAIN t /\ l - Len(b) \in DOMAIN t
        /\ r[k] = t[k - Len(b)] /\ r[l] = t[l - Len(b)]
    BY <1>3
  <2>3. p[k - Len(b)] < p[l - Len(b)]
    BY <1>2, <2>1, <2>2
  <2>4. r[k].seq = p[k - Len(b)] /\ r[l].seq = p[l - Len(b)]
    BY <1>2, <2>2
  <2>5. QED
    BY <2>3, <2>4
<1>7. \A i \in chosen : \E k \in (Len(b) + 1)..Len(r) : r[k] = wal[i]
  BY <1>2, <1>3
<1>8. Replay(b, chosen) = r
  BY DEF Replay, r, t
<1>9. Len(b) <= Len(r)
  BY <1>3, <1>4
<1>10. QED
  BY <1>3, <1>5, <1>6, <1>7, <1>8, <1>9, Zenon DEF Extends

(* Types.                                                                  *)

Item == [seq : Nat, kind : {"New", "Cancel"}, id : OrderIds, off : Nat,
         outcome : {"apply", "readOnly", "duplicate"}]

(* TypeOK, with what it leaves open and with what the log needs to give    *)
(* StartOffset a position within the topic.                                *)
Types ==
    /\ TypeOK
    /\ batched \in BOOLEAN
    /\ snap \in [Symbols -> SUBSET Snapshot]
    /\ \A s \in Symbols : IsFiniteSet(snap[s])
    /\ pending \in Seq(Item)
    /\ \A i \in DOMAIN wal : wal[i].off < Len(topic)
    /\ Numbered

(* LatestPath finds a newest file, or none.                                *)
LEMMA LatestPathProperties ==
    ASSUME Types, NEW s \in Symbols
    PROVE  /\ LatestPath(s) \in Snapshot
           /\ snap[s] = {} => LatestPath(s) = [seq |-> 0, book |-> <<>>]
           /\ snap[s] # {} => LatestPath(s) \in snap[s]
           /\ \A g \in snap[s] : g.seq <= LatestPath(s).seq
<1>1. CASE snap[s] = {}
  <2>1. LatestPath(s) = [seq |-> 0, book |-> <<>>]
    BY <1>1 DEF LatestPath
  <2>2. QED
    BY <1>1, <2>1 DEF Snapshot
<1>2. CASE snap[s] # {}
  <2> DEFINE N == {f.seq : f \in snap[s]}
  <2>1. N \in SUBSET Nat /\ N # {}
    BY <1>2 DEF Types, Snapshot
  <2>2. IsFiniteSet(N)
    <3> DEFINE label == [f \in snap[s] |-> f.seq]
    <3>1. IsFiniteSet({label[f] : f \in snap[s]})
      BY FiniteImage DEF Types
    <3>2. N = {label[f] : f \in snap[s]}
      OBVIOUS
    <3>3. QED
      BY <3>1, <3>2, Zenon
  <2>3. PICK m \in N : \A x \in N : x <= m
    <3> HIDE DEF N
    <3>1. QED
      BY <2>1, <2>2, FiniteHasMax
  <2>4. \E f \in snap[s] : \A g \in snap[s] : g.seq <= f.seq
    BY <2>3
  <2>5. LatestPath(s) \in snap[s] /\ \A g \in snap[s] : g.seq <= LatestPath(s).seq
    BY <1>2, <2>4, Zenon DEF LatestPath
  <2>6. QED
    BY <1>2, <2>5 DEF Types
<1>3. QED
  BY <1>1, <1>2

(* RecoveredOffset is the largest label of the manifest and those files.   *)
LEMMA RecoveredOffsetProperties ==
    ASSUME Types
    PROVE  /\ RecoveredOffset \in Nat /\ manifest <= RecoveredOffset
           /\ \A s \in Symbols : LatestPath(s).seq <= RecoveredOffset
           /\ \/ RecoveredOffset = manifest
              \/ \E s \in Symbols : RecoveredOffset = LatestPath(s).seq
<1> DEFINE Labels == {LatestPath(s).seq : s \in Symbols}
           N == {manifest} \cup Labels
<1>1. N \in SUBSET Nat /\ N # {}
  BY LatestPathProperties DEF Types, TypeOK, Snapshot
<1>2. IsFiniteSet(N)
  <2>1. IsFiniteSet(Labels)
    <3> DEFINE label == [s \in Symbols |-> LatestPath(s).seq]
    <3>1. IsFiniteSet({label[s] : s \in Symbols})
      BY FiniteImage, DurableShardAssumption
    <3>2. Labels = {label[s] : s \in Symbols}
      OBVIOUS
    <3>3. QED
      BY <3>1, <3>2, Zenon
  <2>2. QED
    BY <2>1, FS_AddElement
<1>3. Max(N) \in N /\ \A x \in N : x <= Max(N)
  <2> HIDE DEF N
  <2>1. QED
    BY <1>1, <1>2, MaxOfFinite
<1>4. RecoveredOffset = Max(N)
  BY DEF RecoveredOffset
<1>5. QED
  BY <1>1, <1>3, <1>4

(* LastSeq is the length of the log.                                       *)
LEMMA LastSeqIsLen ==
    ASSUME Types
    PROVE  LastSeq = Len(wal) /\ LastSeq \in Nat
<1>1. wal \in Seq(Record)
  BY DEF Types, TypeOK
<1>2. CASE wal = <<>>
  BY <1>2 DEF LastSeq
<1>3. CASE wal # <<>>
  BY <1>1, <1>3 DEF LastSeq, Last, Types, Numbered
<1>4. QED
  BY <1>2, <1>3

(* The position the consumer restarts at lies within the topic, and a      *)
(* record of the log carries the offset before it.                         *)
LEMMA StartOffsetProperties ==
    ASSUME Types
    PROVE  /\ PlanReaderStart(StartOffset) \in 0..Len(topic)
           /\ PlanReaderStart(StartOffset) # 0 =>
                 \E i \in DOMAIN wal : wal[i].off + 1 = PlanReaderStart(StartOffset)
<1>1. /\ wal \in Seq(Record) /\ Len(topic) \in Nat
      /\ \A i \in DOMAIN wal : wal[i].off \in Nat /\ wal[i].off < Len(topic)
  <2>1. wal \in Seq(Record) /\ Len(topic) \in Nat
    BY DEF Types, TypeOK
  <2>2. \A i \in DOMAIN wal : wal[i] \in Record
    BY <2>1
  <2>3. QED
    BY <2>1, <2>2 DEF Types, Record
<1>2. CASE KafkaOffsets = {}
  BY <1>1, <1>2 DEF StartOffset, PlanReaderStart
<1>3. CASE KafkaOffsets # {}
  <2>1. KafkaOffsets \in SUBSET Nat
    BY <1>1 DEF KafkaOffsets
  <2>2. IsFiniteSet(KafkaOffsets)
    <3>1. IsFiniteSet(DOMAIN wal)
      BY <1>1, FS_Interval
    <3>2. IsFiniteSet({wal[i].off : i \in DOMAIN wal})
      <4> DEFINE off == [i \in DOMAIN wal |-> wal[i].off]
      <4>1. IsFiniteSet({off[i] : i \in DOMAIN wal})
        BY <3>1, FiniteImage
      <4>2. {wal[i].off : i \in DOMAIN wal} = {off[i] : i \in DOMAIN wal}
        OBVIOUS
      <4>3. QED
        BY <4>1, <4>2, Zenon
    <3>3. QED
      BY <3>2, FS_Subset DEF KafkaOffsets
  <2>3. Max(KafkaOffsets) \in KafkaOffsets
    BY <1>3, <2>1, <2>2, MaxOfFinite
  <2>4. PICK i \in DOMAIN wal : wal[i].off = Max(KafkaOffsets)
    BY <2>3 DEF KafkaOffsets
  <2>5. QED
    BY <1>1, <1>3, <2>4 DEF StartOffset, PlanReaderStart
<1>4. QED
  BY <1>2, <1>3

(* The files of a symbol after one more was saved.                         *)
LEMMA SavedFiles ==
    ASSUME NEW saved \in SUBSET Snapshot, IsFiniteSet(saved), NEW f \in Snapshot
    PROVE  /\ Prune(WriteAtomic(saved, f)) \in SUBSET Snapshot
           /\ IsFiniteSet(Prune(WriteAtomic(saved, f)))
           /\ Prune(WriteAtomic(saved, f)) \subseteq saved \cup {f}
<1>1. Prune(WriteAtomic(saved, f)) \subseteq saved \cup {f}
  BY DEF Prune, WriteAtomic
<1>2. IsFiniteSet(saved \cup {f})
  BY FS_AddElement
<1>3. QED
  BY <1>1, <1>2, FS_Subset

(* What recovery builds has the type of the books.                         *)
LEMMA ReplayedProperties ==
    ASSUME Types, NEW s \in Symbols
    PROVE  \E chosen \in SUBSET DOMAIN wal :
              /\ Replayed(s) = Replay(LatestPath(s).book, chosen)
              /\ Extends(Replayed(s), LatestPath(s).book, chosen)
              /\ \A i \in DOMAIN wal : i \in chosen <=>
                    /\ SymbolOf[wal[i].id] = s
                    /\ wal[i].seq > RecoveredOffset
                    /\ wal[i].kind = "Cancel"
<1> DEFINE C == {i \in DOMAIN wal : /\ SymbolOf[wal[i].id] = s
                                    /\ wal[i].seq > RecoveredOffset
                                    /\ wal[i].kind = "Cancel" \/ wal[i].id \notin SeenFromWAL}
<1>1. C \in SUBSET DOMAIN wal
  OBVIOUS
<1>2. Replayed(s) = Replay(LatestPath(s).book, C)
  BY DEF Replayed
<1>3. wal \in Seq(Record) /\ Numbered /\ LatestPath(s).book \in Seq(Record)
  BY LatestPathProperties DEF Types, TypeOK, Snapshot
<1>4. Extends(Replayed(s), LatestPath(s).book, C)
  <2> HIDE DEF C
  <2>1. QED
    BY <1>1, <1>2, <1>3, ReplayExtends
<1>5. ASSUME NEW i \in DOMAIN wal
      PROVE  i \in C <=> /\ SymbolOf[wal[i].id] = s
                         /\ wal[i].seq > RecoveredOffset
                         /\ wal[i].kind = "Cancel"
  <2>1. wal[i] \in Record
    BY <1>3
  <2>2. wal[i].kind # "Cancel" => wal[i].id \in SeenFromWAL
    BY <2>1 DEF SeenFromWAL, Record
  <2>3. QED
    BY <2>2
<1>6. QED
  <2> HIDE DEF C
  <2>1. QED
    BY <1>1, <1>2, <1>4, <1>5

(* The initial state has the types.                                        *)
LEMMA InitTypes == Init => Types
<1> SUFFICES ASSUME Init PROVE Types
  OBVIOUS
<1>1. TypeOK
  BY DurableShardAssumption DEF Init, TypeOK, NotSnapping
<1>2. batched \in BOOLEAN
  BY DurableShardAssumption DEF Init
<1>3. snap \in [Symbols -> SUBSET Snapshot] /\ \A s \in Symbols : IsFiniteSet(snap[s])
  BY FS_EmptySet DEF Init
<1>4. pending \in Seq(Item) /\ Numbered /\ \A i \in DOMAIN wal : wal[i].off < Len(topic)
  BY DEF Init, Numbered
<1>5. QED
  BY <1>1, <1>2, <1>3, <1>4 DEF Types

(* What a staged message looks like.                                       *)
LEMMA StagedProperties ==
    ASSUME Types, pos < Len(topic)
    PROVE  LET item == Staged(ReadMessage, Outcome(ReadMessage))
           IN  /\ item \in Item
               /\ item.seq = Len(wal) + 1 /\ item.off = pos
               /\ RecordOf(item) \in Record
               /\ RecordOf(item).seq = Len(wal) + 1 /\ RecordOf(item).off = pos
               /\ RecordOf(item).kind = item.kind /\ RecordOf(item).id = item.id
               /\ item.kind = ReadMessage.kind /\ item.id = ReadMessage.id
<1>1. ReadMessage \in Command /\ pos \in Nat
  BY DEF ReadMessage, Types, TypeOK
<1>2. ReadMessage.kind \in {"New", "Cancel"} /\ ReadMessage.id \in OrderIds
  BY <1>1 DEF Command
<1>3. Outcome(ReadMessage) \in {"apply", "readOnly", "duplicate"}
  BY DEF Outcome
<1>4. QED
  BY <1>1, <1>2, <1>3, LastSeqIsLen DEF Staged, RecordOf, Item, Record

(* Every step keeps the types.                                             *)
LEMMA NextTypes == Types /\ [Next]_vars => Types'
<1> SUFFICES ASSUME Types, [Next]_vars PROVE Types'
  OBVIOUS
<1> USE DurableShardAssumption
<1>1. ASSUME NEW cmd \in Command, Produce(cmd), UNCHANGED batched PROVE Types'
  <2>1. topic' \in Seq(Command) /\ Len(topic') = Len(topic) + 1 /\ Len(topic) \in Nat
    BY <1>1 DEF Produce, Types, TypeOK
  <2>2. \A i \in DOMAIN wal : wal[i].off < Len(topic')
    <3>1. \A i \in DOMAIN wal : wal[i] \in Record
      BY DEF Types, TypeOK
    <3>2. QED
      BY <2>1, <3>1 DEF Types, Record
  <2>3. QED
    BY <1>1, <2>1, <2>2 DEF Produce, disk, Types, TypeOK, Numbered
<1>2. ASSUME Stage, UNCHANGED batched PROVE Types'
  <2> DEFINE item == Staged(ReadMessage, Outcome(ReadMessage))
  <2>1. item \in Item /\ RecordOf(item) \in Record
        /\ RecordOf(item).seq = Len(wal) + 1 /\ RecordOf(item).off = pos
    BY <1>2, StagedProperties DEF Stage
  <2>2. /\ pending' = Append(pending, item)
        /\ wal' = (IF Logged(item) THEN Append(wal, RecordOf(item)) ELSE wal)
        /\ synced' = IF batched THEN synced ELSE Len(wal')
        /\ pos' = pos + 1 /\ pos < Len(topic)
        /\ Len(pending) < (IF batched THEN BatchMax ELSE 1)
        /\ UNCHANGED <<topic, snap, manifest, events, phase, book, seen, snapshotSeq,
                       readOnly, next, snapping>>
    BY <1>2, Zenon DEF Stage
  <2> HIDE DEF item
  <2>3. wal' \in Seq(Record) /\ synced' \in 0..Len(wal')
    BY <2>1, <2>2 DEF Types, TypeOK
  <2>4. \A i \in DOMAIN wal' : wal'[i].seq = i /\ wal'[i].off < Len(topic)
    BY <2>1, <2>2 DEF Types, TypeOK, Numbered
  <2>5. pending' \in Seq(Item) /\ Len(pending') <= BatchMax
    BY <2>1, <2>2 DEF Types
  <2>6. pos' \in 0..Len(topic')
    BY <2>2 DEF Types, TypeOK
  <2>7. QED
    BY <1>2, <2>2, <2>3, <2>4, <2>5, <2>6 DEF Types, TypeOK, Numbered
<1>3. ASSUME CommitBatch, UNCHANGED batched PROVE Types'
  BY <1>3 DEF CommitBatch, Types, TypeOK, Numbered
<1>4. ASSUME ApplyItem, UNCHANGED batched PROVE Types'
  <2> DEFINE item == pending[next]
  <2>1. item \in Item /\ next \in 1..Len(pending) /\ next' = next + 1
    BY <1>4 DEF ApplyItem, Types, TypeOK
  <2>2. RecordOf(item) \in Record /\ item.id \in OrderIds /\ item.seq \in Nat
        /\ SymbolOf[item.id] \in Symbols
    BY <2>1 DEF RecordOf, Item, Record
  <2>3. book' \in [Symbols -> Seq(Record)] /\ seen' \subseteq OrderIds
    <3>1. book \in [Symbols -> Seq(Record)] /\ seen \subseteq OrderIds
      BY DEF Types, TypeOK
    <3>2. \/ UNCHANGED <<book, seen>>
          \/ /\ book' = [book EXCEPT ![SymbolOf[item.id]] = Append(@, RecordOf(item))]
             /\ seen' = IF item.kind = "New" THEN seen \cup {item.id} ELSE seen
      BY <1>4 DEF ApplyItem, MatchOrCancel
    <3> HIDE DEF item
    <3>3. Append(book[SymbolOf[item.id]], RecordOf(item)) \in Seq(Record)
      BY <2>2, <3>1
    <3>4. book' \in [Symbols -> Seq(Record)]
      BY <2>2, <3>1, <3>2, <3>3
    <3>5. seen' \subseteq OrderIds
      BY <2>2, <3>1, <3>2
    <3>6. QED
      BY <3>4, <3>5
  <2>4. snapping' \in [seq : Nat, todo : SUBSET Symbols, exit : BOOLEAN]
    <3>1. snapping' = snapping \/ snapping' = [seq |-> item.seq, todo |-> Symbols, exit |-> FALSE]
      BY <1>4 DEF ApplyItem, StartSnapshot
    <3>2. snapping \in [seq : Nat, todo : SUBSET Symbols, exit : BOOLEAN]
      BY DEF Types, TypeOK
    <3> HIDE DEF item
    <3>3. [seq |-> item.seq, todo |-> Symbols, exit |-> FALSE]
              \in [seq : Nat, todo : SUBSET Symbols, exit : BOOLEAN]
      BY <2>2
    <3>4. QED
      BY <3>1, <3>2, <3>3
  <2>5. next' \in 1..BatchMax + 1
    BY <2>1 DEF Types, TypeOK
  <2>6. QED
    BY <1>4, <2>3, <2>4, <2>5 DEF ApplyItem, disk, Types, TypeOK, Numbered
<1>5. ASSUME StartPublish, UNCHANGED batched PROVE Types'
  BY <1>5 DEF StartPublish, disk, Types, TypeOK, Numbered
<1>6. ASSUME PublishItem, UNCHANGED batched PROVE Types'
  <2>1. pending[next] \in Item /\ next \in 1..Len(pending) /\ next' = next + 1
    BY <1>6 DEF PublishItem, Types, TypeOK
  <2>2. events' \subseteq Nat /\ next' \in 1..BatchMax + 1
    <3>1. pending[next].seq \in Nat
      BY <2>1 DEF Item
    <3>2. events \subseteq Nat /\ BatchMax \in Nat /\ Len(pending) <= BatchMax
          /\ Len(pending) \in Nat
      BY DEF Types, TypeOK
    <3>3. events' = events \/ events' = events \cup {pending[next].seq}
      BY <1>6 DEF PublishItem
    <3>4. events' \subseteq Nat
      BY <3>1, <3>2, <3>3
    <3>5. next' \in 1..BatchMax + 1
      BY <2>1, <3>2
    <3>6. QED
      BY <3>4, <3>5
  <2>3. QED
    BY <1>6, <2>2 DEF PublishItem, Types, TypeOK, Numbered
<1>7. ASSUME BatchDone, UNCHANGED batched PROVE Types'
  BY <1>7 DEF BatchDone, disk, Types, TypeOK, Numbered
<1>8. ASSUME HandlerFails, UNCHANGED batched PROVE Types'
  BY <1>8, LastSeqIsLen DEF HandlerFails, StartSnapshot, disk, Types, TypeOK, Numbered
<1>9. ASSUME SnapshotIfStale, UNCHANGED batched PROVE Types'
  BY <1>9, LastSeqIsLen DEF SnapshotIfStale, StartSnapshot, disk, Types, TypeOK, Numbered
<1>10. ASSUME Stop, UNCHANGED batched PROVE Types'
  BY <1>10, LastSeqIsLen DEF Stop, StartSnapshot, disk, Types, TypeOK, Numbered
<1>11. ASSUME NEW s \in Symbols, SaveSymbol(s), UNCHANGED batched PROVE Types'
  <2> DEFINE f == [seq |-> snapping.seq, book |-> book[s]]
  <2>1. f \in Snapshot
    BY DEF Types, TypeOK, Snapshot
  <2>2. snap' = [snap EXCEPT ![s] = Prune(WriteAtomic(snap[s], f))]
    BY <1>11 DEF SaveSymbol
  <2>3. Prune(WriteAtomic(snap[s], f)) \in SUBSET Snapshot
        /\ IsFiniteSet(Prune(WriteAtomic(snap[s], f)))
    BY <2>1, SavedFiles DEF Types
  <2>4. snap' \in [Symbols -> SUBSET Snapshot] /\ \A t \in Symbols : IsFiniteSet(snap'[t])
    BY <2>2, <2>3 DEF Types
  <2>5. snapping' \in [seq : Nat, todo : SUBSET Symbols, exit : BOOLEAN]
    BY <1>11 DEF SaveSymbol, Types, TypeOK
  <2>6. QED
    BY <1>11, <2>4, <2>5 DEF SaveSymbol, Types, TypeOK, Numbered
<1>12. ASSUME SaveManifest, UNCHANGED batched PROVE Types'
  <2>1. snapping.seq \in Nat /\ manifest' = snapping.seq
    BY <1>12 DEF SaveManifest, Types, TypeOK
  <2>2. UNCHANGED <<topic, wal, snap, events, pos>>
    BY <1>12 DEF SaveManifest
  <2>3. CASE snapping.exit
    <3>1. synced' = Len(wal) /\ VolatileLost
      BY <1>12, <2>3 DEF SaveManifest
    <3>2. QED
      BY <1>12, <2>1, <2>2, <3>1 DEF VolatileLost, NotSnapping, Types, TypeOK, Numbered
  <2>4. CASE ~snapping.exit
    <3>1. /\ snapshotSeq' = snapping.seq /\ snapping' = NotSnapping
          /\ UNCHANGED <<synced, phase, book, seen, readOnly, pending, next>>
      BY <1>12, <2>4 DEF SaveManifest
    <3>2. QED
      BY <1>12, <2>1, <2>2, <3>1 DEF NotSnapping, Types, TypeOK, Numbered
  <2>5. QED
    BY <2>3, <2>4
<1>13. ASSUME Crash, UNCHANGED batched PROVE Types'
  <2>1. PICK n \in synced..Len(wal) : wal' = SubSeq(wal, 1, n) /\ synced' = n
    BY <1>13 DEF Crash
  <2>2. n \in 0..Len(wal)
    BY <2>1 DEF Types, TypeOK
  <2>3. /\ wal' \in Seq(Record) /\ Len(wal') = n /\ synced' \in 0..Len(wal')
        /\ \A i \in DOMAIN wal' : i \in DOMAIN wal /\ wal'[i] = wal[i]
    BY <2>1, <2>2 DEF Types, TypeOK
  <2>4. QED
    BY <1>13, <2>3 DEF Crash, VolatileLost, NotSnapping, Types, TypeOK, Numbered
<1>14. ASSUME Restart, UNCHANGED batched PROVE Types'
  <2>1. \A s \in Symbols : Replayed(s) \in Seq(Record)
    BY ReplayedProperties DEF Extends
  <2>2. book' \in [Symbols -> Seq(Record)]
    BY <1>14, <2>1 DEF Restart, Recover
  <2>3. seen' \subseteq OrderIds
    <3>1. \A i \in DOMAIN wal : wal[i] \in Record
      BY DEF Types, TypeOK
    <3>2. QED
      BY <1>14, <3>1 DEF Restart, Recover, SeenFromWAL, Record
  <2>4. snapshotSeq' \in Nat
    BY <1>14, RecoveredOffsetProperties DEF Restart, Recover
  <2>5. pos' \in 0..Len(topic')
    BY <1>14, StartOffsetProperties DEF Restart
  <2>6. readOnly' \subseteq Symbols
    BY <1>14 DEF Restart
  <2>7. phase' = "stage" /\ UNCHANGED <<topic, disk, pending, next, snapping>>
    BY <1>14 DEF Restart
  <2>8. QED
    BY <1>14, <2>2, <2>3, <2>4, <2>5, <2>6, <2>7 DEF disk, Types, TypeOK, Numbered
<1>15. CASE UNCHANGED vars
  BY <1>15 DEF vars, Types, TypeOK, Numbered
<1>16. QED
  BY <1>1, <1>2, <1>3, <1>4, <1>5, <1>6, <1>7, <1>8, <1>9, <1>10, <1>11, <1>12, <1>13,
     <1>14, <1>15 DEF Next, Step, RunKafka

(* Every variable has its type, and the consumer never reads past the end  *)
(* of the topic, wherever StartOffset put it.                              *)
THEOREM TypeCorrect == Spec => []TypeOK
<1>1. Spec => []Types
  BY InitTypes, NextTypes, PTL DEF Spec
<1>2. Types => TypeOK
  BY DEF Types
<1>3. QED
  BY <1>1, <1>2, PTL

-----------------------------------------------------------------------------
(* The log before the memory.                                              *)

(* What makes WalBeforeMemory inductive: past the sync the whole log is    *)
(* durable, and what a batch is going to apply is in the log.              *)
Synced ==
    /\ phase # "stage" => synced = Len(wal)
    /\ \A i \in DOMAIN pending :
          pending[i].outcome = "apply" => RecordOf(pending[i]) \in LogRecords

(* A durable record: one a crash cannot take away.                         *)
Durable == {wal[i] : i \in 1..synced}

(* The three parts of WalBeforeMemory.                                     *)
LEMMA WalBeforeMemoryParts ==
    WalBeforeMemory <=>
        /\ \A e \in events : \E r \in Durable : e = r.seq
        /\ \A s \in Symbols : \A k \in DOMAIN book[s] : book[s][k] \in Durable
        /\ \A s \in Symbols : \A f \in snap[s] : \A k \in DOMAIN f.book : f.book[k] \in Durable
  BY DEF WalBeforeMemory, Durable, Applied, ToSet

(* The same after a step.                                                  *)
LEMMA WalBeforeMemoryPartsNext ==
    WalBeforeMemory' <=>
        /\ \A e \in events' : \E r \in Durable' : e = r.seq
        /\ \A s \in Symbols : \A k \in DOMAIN book'[s] : book'[s][k] \in Durable'
        /\ \A s \in Symbols : \A f \in snap'[s] :
              \A k \in DOMAIN f.book : f.book[k] \in Durable'
  BY DEF WalBeforeMemory, Durable, Applied, ToSet

(* Initially there is nothing to lose.                                     *)
LEMMA InitDurable == Init => Synced /\ WalBeforeMemory
<1> SUFFICES ASSUME Init PROVE Synced /\ WalBeforeMemory
  OBVIOUS
<1>1. Synced
  BY DEF Init, Synced
<1>2. WalBeforeMemory
  BY WalBeforeMemoryParts DEF Init
<1>3. QED
  BY <1>1, <1>2

(* No step puts anything into a book, a file or an event whose record is   *)
(* not durable, and no step takes a durable record away.                   *)
LEMMA NextDurable == Types /\ Synced /\ WalBeforeMemory /\ [Next]_vars => (Synced /\ WalBeforeMemory)'
<1> SUFFICES ASSUME Types, Synced, WalBeforeMemory, [Next]_vars
             PROVE  (Synced /\ WalBeforeMemory)'
  OBVIOUS
<1>a. /\ wal \in Seq(Record) /\ synced \in 0..Len(wal) /\ pending \in Seq(Item)
      /\ book \in [Symbols -> Seq(Record)] /\ snap \in [Symbols -> SUBSET Snapshot]
  BY DEF Types, TypeOK
<1>b. /\ \A e \in events : \E r \in Durable : e = r.seq
      /\ \A s \in Symbols : \A k \in DOMAIN book[s] : book[s][k] \in Durable
      /\ \A s \in Symbols : \A f \in snap[s] : \A k \in DOMAIN f.book : f.book[k] \in Durable
  BY WalBeforeMemoryParts
<1>c. ASSUME UNCHANGED <<wal, synced, events, book, snap>> PROVE WalBeforeMemory'
  BY <1>b, <1>c, WalBeforeMemoryPartsNext DEF Durable
<1>d. ASSUME Durable \subseteq Durable', UNCHANGED <<events, book, snap>> PROVE WalBeforeMemory'
  BY <1>b, <1>d, WalBeforeMemoryPartsNext
<1>1. ASSUME NEW cmd \in Command, Produce(cmd) PROVE (Synced /\ WalBeforeMemory)'
  BY <1>1, <1>c DEF Produce, disk, Synced, LogRecords, RecordOf
<1>2. ASSUME Stage, UNCHANGED batched PROVE (Synced /\ WalBeforeMemory)'
  <2> DEFINE item == Staged(ReadMessage, Outcome(ReadMessage))
  <2>1. item \in Item /\ RecordOf(item) \in Record
    BY <1>2, StagedProperties DEF Stage
  <2>2. /\ pending' = Append(pending, item)
        /\ wal' = (IF item.outcome = "apply" THEN Append(wal, RecordOf(item)) ELSE wal)
        /\ synced' = synced \/ synced' = Len(wal')
        /\ phase = "stage" /\ phase' = phase
        /\ UNCHANGED <<events, book, snap>>
    BY <1>2, Zenon DEF Stage, Logged
  <2> HIDE DEF item
  <2>3. /\ wal' \in Seq(Record) /\ synced' \in 0..Len(wal')
        /\ \A i \in DOMAIN wal : i \in DOMAIN wal' /\ wal'[i] = wal[i]
        /\ synced <= synced'
        /\ item.outcome = "apply" => RecordOf(item) = wal'[Len(wal) + 1] /\ Len(wal) + 1 \in DOMAIN wal'
    BY <1>a, <2>1, <2>2
  <2>4. Durable \subseteq Durable'
    BY <1>a, <2>3 DEF Durable
  <2>5. \A i \in DOMAIN pending' : pending'[i].outcome = "apply" => RecordOf(pending'[i]) \in LogRecords'
    <3>1. ASSUME NEW i \in DOMAIN pending', pending'[i].outcome = "apply"
          PROVE  RecordOf(pending'[i]) \in LogRecords'
      <4>1. CASE i = Len(pending) + 1
        <5>1. pending'[i] = item
          BY <1>a, <2>1, <2>2, <4>1
        <5>2. QED
          BY <2>3, <3>1, <5>1 DEF LogRecords
      <4>2. CASE i # Len(pending) + 1
        <5>1. i \in DOMAIN pending /\ pending'[i] = pending[i]
          BY <1>a, <2>1, <2>2, <4>2
        <5>2. RecordOf(pending[i]) \in LogRecords
          BY <3>1, <5>1 DEF Synced
        <5>3. QED
          BY <2>3, <5>1, <5>2 DEF LogRecords
      <4>3. QED
        BY <4>1, <4>2
    <3>2. QED
      BY <3>1
  <2>6. QED
    BY <1>d, <2>2, <2>4, <2>5 DEF Synced, RecordOf
<1>3. ASSUME CommitBatch PROVE (Synced /\ WalBeforeMemory)'
  <2>1. Durable \subseteq Durable'
    BY <1>3, <1>a DEF CommitBatch, Durable
  <2>2. QED
    BY <1>3, <1>d, <2>1 DEF CommitBatch, Synced, LogRecords, RecordOf
<1>4. ASSUME ApplyItem PROVE (Synced /\ WalBeforeMemory)'
  <2> DEFINE item == pending[next]
             s == SymbolOf[item.id]
  <2>1. /\ UNCHANGED <<wal, synced, snap, events, phase, pending>> /\ phase = "apply"
        /\ item \in Item
        /\ \/ UNCHANGED book
           \/ /\ item.outcome = "apply"
              /\ book' = [book EXCEPT ![s] = Append(book[s], RecordOf(item))]
    <3>1. UNCHANGED <<wal, synced, snap, events, phase, pending>> /\ phase = "apply"
      BY <1>4 DEF ApplyItem, disk
    <3>2. item \in Item
      BY <1>4, <1>a DEF ApplyItem, Types, TypeOK
    <3>3. \/ UNCHANGED book
          \/ /\ item.outcome = "apply"
             /\ book' = [book EXCEPT ![s] = Append(book[s], RecordOf(item))]
      BY <1>4, Zenon DEF ApplyItem, MatchOrCancel
    <3>4. QED
      BY <3>1, <3>2, <3>3, Zenon
  <2>2. item.outcome = "apply" => RecordOf(item) \in Durable
    <3>1. next \in DOMAIN pending
      BY <1>4, <1>a DEF ApplyItem, Types, TypeOK
    <3>2. QED
      BY <1>a, <2>1, <3>1 DEF Synced, LogRecords, Durable
  <2>3. RecordOf(item) \in Record
    BY <2>1 DEF RecordOf, Item, Record
  <2>4. Durable' = Durable
    BY <2>1 DEF Durable
  <2>5. \A t \in Symbols : \A k \in DOMAIN book'[t] : book'[t][k] \in Durable
    <3> HIDE DEF item, s
    <3>1. CASE UNCHANGED book
      BY <1>b, <3>1
    <3>2. CASE item.outcome = "apply" /\ book' = [book EXCEPT ![s] = Append(book[s], RecordOf(item))]
      <4>1. SUFFICES ASSUME NEW t \in Symbols, NEW k \in DOMAIN book'[t]
                     PROVE  book'[t][k] \in Durable
        OBVIOUS
      <4>2. CASE t # s
        BY <1>a, <1>b, <3>2, <4>2
      <4>3. CASE t = s
        <5>1. book'[t] = Append(book[t], RecordOf(item)) /\ book[t] \in Seq(Record)
          BY <1>a, <3>2, <4>3
        <5>2. book'[t][k] = RecordOf(item) \/ (k \in DOMAIN book[t] /\ book'[t][k] = book[t][k])
          BY <5>1, <2>3
        <5>3. QED
          BY <1>b, <2>2, <3>2, <5>2
      <4>4. QED
        BY <4>2, <4>3
    <3>3. QED
      BY <2>1, <3>1, <3>2
  <2>6. WalBeforeMemory'
    BY <1>b, <2>1, <2>4, <2>5, WalBeforeMemoryPartsNext
  <2>7. QED
    BY <2>1, <2>6 DEF Synced, LogRecords, RecordOf
<1>5. ASSUME StartPublish PROVE (Synced /\ WalBeforeMemory)'
  BY <1>5, <1>c DEF StartPublish, disk, Synced, LogRecords, RecordOf
<1>6. ASSUME PublishItem PROVE (Synced /\ WalBeforeMemory)'
  <2>1. /\ UNCHANGED <<wal, synced, snap, book, phase, pending>> /\ phase = "publish"
        /\ next \in DOMAIN pending
        /\ \A e \in events' : \/ e \in events
                              \/ pending[next].outcome = "apply" /\ e = pending[next].seq
    BY <1>6, <1>a DEF PublishItem, Types, TypeOK
  <2>2. pending[next].outcome = "apply" =>
           RecordOf(pending[next]) \in Durable /\ RecordOf(pending[next]).seq = pending[next].seq
    BY <1>a, <2>1 DEF Synced, LogRecords, Durable, RecordOf
  <2>3. Durable' = Durable
    BY <2>1 DEF Durable
  <2>4. \A e \in events' : \E r \in Durable' : e = r.seq
    BY <1>b, <2>1, <2>2, <2>3
  <2>5. WalBeforeMemory'
    BY <1>b, <2>1, <2>3, <2>4, WalBeforeMemoryPartsNext
  <2>6. QED
    BY <2>1, <2>5 DEF Synced, LogRecords, RecordOf
<1>7. ASSUME BatchDone PROVE (Synced /\ WalBeforeMemory)'
  BY <1>7, <1>c DEF BatchDone, disk, Synced, LogRecords, RecordOf
<1>8. ASSUME HandlerFails PROVE (Synced /\ WalBeforeMemory)'
  BY <1>8, <1>c DEF HandlerFails, disk, Synced, LogRecords, RecordOf
<1>9. ASSUME SnapshotIfStale PROVE (Synced /\ WalBeforeMemory)'
  BY <1>9, <1>c DEF SnapshotIfStale, disk, Synced, LogRecords, RecordOf
<1>10. ASSUME Stop PROVE (Synced /\ WalBeforeMemory)'
  BY <1>10, <1>c DEF Stop, disk, Synced, LogRecords, RecordOf
<1>11. ASSUME NEW s \in Symbols, SaveSymbol(s) PROVE (Synced /\ WalBeforeMemory)'
  <2> DEFINE file == [seq |-> snapping.seq, book |-> book[s]]
  <2>1. /\ UNCHANGED <<wal, synced, book, events, phase, pending>>
        /\ snap' = [snap EXCEPT ![s] = Prune(WriteAtomic(snap[s], file))]
    BY <1>11 DEF SaveSymbol
  <2>2. Prune(WriteAtomic(snap[s], file)) \subseteq snap[s] \cup {file}
    BY DEF Prune, WriteAtomic
  <2>3. Durable' = Durable
    BY <2>1 DEF Durable
  <2>4. file.book = book[s]
    OBVIOUS
  <2>5. \A t \in Symbols : \A f \in snap'[t] : \A k \in DOMAIN f.book : f.book[k] \in Durable
    <3> HIDE DEF file
    <3>1. SUFFICES ASSUME NEW t \in Symbols, NEW f \in snap'[t], NEW k \in DOMAIN f.book
                   PROVE  f.book[k] \in Durable
      OBVIOUS
    <3>2. f \in snap[t] \/ (t = s /\ f = file)
      BY <1>a, <2>1, <2>2
    <3>3. QED
      BY <1>b, <2>4, <3>2
  <2>6. WalBeforeMemory'
    BY <1>b, <2>1, <2>3, <2>5, WalBeforeMemoryPartsNext
  <2>7. QED
    BY <2>1, <2>6 DEF Synced, LogRecords, RecordOf
<1>12. ASSUME SaveManifest PROVE (Synced /\ WalBeforeMemory)'
  <2>1. UNCHANGED <<wal, snap, events>>
    BY <1>12 DEF SaveManifest
  <2>2. CASE snapping.exit
    <3>1. synced' = Len(wal) /\ phase' = "down" /\ pending' = <<>> /\ book' = [t \in Symbols |-> <<>>]
      BY <1>12, <2>2 DEF SaveManifest, VolatileLost
    <3>2. Durable \subseteq Durable'
      BY <1>a, <2>1, <3>1 DEF Durable
    <3>3. \A t \in Symbols : DOMAIN book'[t] = {}
      BY <3>1
    <3>4. WalBeforeMemory'
      BY <1>b, <2>1, <3>2, <3>3, WalBeforeMemoryPartsNext
    <3>5. QED
      BY <2>1, <3>1, <3>4 DEF Synced
  <2>3. CASE ~snapping.exit
    <3>1. UNCHANGED <<synced, phase, book, pending>>
      BY <1>12, <2>3 DEF SaveManifest
    <3>2. QED
      BY <1>c, <2>1, <3>1 DEF Synced, LogRecords, RecordOf
  <2>4. QED
    BY <2>2, <2>3
<1>13. ASSUME Crash PROVE (Synced /\ WalBeforeMemory)'
  <2>1. PICK n \in synced..Len(wal) : wal' = SubSeq(wal, 1, n) /\ synced' = n
    BY <1>13 DEF Crash
  <2>2. /\ Len(wal') = n /\ \A i \in 1..synced : i \in 1..n /\ wal'[i] = wal[i]
    BY <1>a, <2>1
  <2>3. Durable \subseteq Durable'
    BY <2>1, <2>2 DEF Durable
  <2>4. UNCHANGED <<snap, events>> /\ phase' = "down" /\ pending' = <<>>
        /\ book' = [t \in Symbols |-> <<>>]
    BY <1>13 DEF Crash, VolatileLost
  <2>5. \A t \in Symbols : DOMAIN book'[t] = {}
    BY <2>4
  <2>6. WalBeforeMemory'
    BY <1>b, <2>3, <2>4, <2>5, WalBeforeMemoryPartsNext
  <2>7. QED
    BY <2>1, <2>2, <2>4, <2>6 DEF Synced
<1>14. ASSUME Restart PROVE (Synced /\ WalBeforeMemory)'
  <2>1. /\ UNCHANGED <<wal, synced, snap, events, pending>> /\ phase = "down" /\ phase' = "stage"
        /\ book' = [t \in Symbols |-> Replayed(t)]
    BY <1>14 DEF Restart, Recover, disk
  <2>2. Durable' = Durable /\ synced = Len(wal)
    BY <2>1 DEF Durable, Synced
  <2>3. ASSUME NEW t \in Symbols, NEW k \in DOMAIN book'[t] PROVE book'[t][k] \in Durable
    <3> DEFINE b == LatestPath(t).book
               r == Replayed(t)
    <3>1. PICK chosen \in SUBSET DOMAIN wal : Extends(r, b, chosen)
      BY ReplayedProperties
    <3>2. b \in Seq(Record) /\ \A j \in DOMAIN b : b[j] \in Durable
      <4>1. CASE snap[t] = {}
        <5>1. LatestPath(t) = [seq |-> 0, book |-> <<>>]
          BY <4>1, LatestPathProperties
        <5>2. b = <<>>
          BY <5>1
        <5>3. QED
          BY <5>2
      <4>2. CASE snap[t] # {}
        <5>1. LatestPath(t) \in Snapshot /\ LatestPath(t) \in snap[t]
          BY <4>2, LatestPathProperties
        <5>2. QED
          BY <1>b, <5>1 DEF Snapshot
      <4>3. QED
        BY <4>1, <4>2
    <3>3. r \in Seq(Record) /\ k \in 1..Len(r) /\ book'[t] = r
      BY <2>1, <2>3, <3>1 DEF Extends
    <3> HIDE DEF b, r
    <3>4. CASE k \in 1..Len(b)
      <4>1. r[k] = b[k]
        BY <3>1, <3>4 DEF Extends
      <4>2. QED
        BY <3>2, <3>3, <3>4, <4>1
    <3>5. CASE k \notin 1..Len(b)
      <4>1. k \in (Len(b) + 1)..Len(r)
        BY <3>2, <3>3, <3>5
      <4>2. PICK i \in chosen : r[k] = wal[i]
        BY <3>1, <4>1 DEF Extends
      <4>3. QED
        BY <1>a, <2>2, <3>3, <4>2 DEF Durable
    <3>6. QED
      BY <3>4, <3>5
  <2>4. WalBeforeMemory'
    BY <1>b, <2>1, <2>2, <2>3, WalBeforeMemoryPartsNext
  <2>5. QED
    BY <2>1, <2>2, <2>4 DEF Synced, LogRecords, RecordOf
<1>15. CASE UNCHANGED vars
  BY <1>15, <1>c DEF vars, Synced, LogRecords, RecordOf
<1>16. QED
  BY <1>1, <1>2, <1>3, <1>4, <1>5, <1>6, <1>7, <1>8, <1>9, <1>10, <1>11, <1>12, <1>13,
     <1>14, <1>15 DEF Next, Step, RunKafka

(* "先 WAL durable 再内存": in both modes of the consumer, whatever is in a    *)
(* book, a snapshot file or an event that left the process is about a      *)
(* record that survives every crash.                                       *)
THEOREM LogBeforeMemory == Spec => []WalBeforeMemory
<1>1. Init => Types /\ Synced /\ WalBeforeMemory
  BY InitTypes, InitDurable
<1>2. Types /\ Synced /\ WalBeforeMemory /\ [Next]_vars => (Types /\ Synced /\ WalBeforeMemory)'
  BY NextTypes, NextDurable
<1>3. QED
  BY <1>1, <1>2, PTL DEF Spec

-----------------------------------------------------------------------------
(* No command is skipped.                                                  *)

(* The command at off needs no further reading: see NoCommandSkipped; only *)
(* the first n records of the log are looked at.                           *)
Covered(off, n) ==
    \/ off \in dropped
    \/ \E i \in 1..n : wal[i].off = off
    \/ topic[off + 1].kind = "New" /\
       \E i \in 1..n : wal[i].kind = "New" /\ wal[i].id = topic[off + 1].id

(* A prefix of the log covers what lies before its last record, so that    *)
(* covering survives a crash that cuts the log.                            *)
Coverage ==
    /\ seen \subseteq SeenFromWAL
    /\ \A k \in DOMAIN wal : \A off \in 0..(wal[k].off - 1) : Covered(off, k)
    /\ phase # "down" => \A off \in 0..(pos - 1) : Covered(off, Len(wal))


(* A longer log covers more.                                               *)
LEMMA CoveredStays ==
    ASSUME NEW off \in Nat, NEW n \in Nat, NEW m \in Nat, n <= m,
           \A i \in 1..n : wal'[i] = wal[i],
           dropped \subseteq dropped', topic'[off + 1] = topic[off + 1],
           Covered(off, n)
    PROVE  Covered(off, m)'
  BY DEF Covered

(* Initially nothing was read.                                             *)
LEMMA InitCoverage == Init => Coverage
  BY DEF Init, Coverage

(* A step that neither cuts the log nor moves the position keeps Coverage. *)
LEMMA CoverageKept ==
    ASSUME Types, Coverage, UNCHANGED <<wal, pos, dropped>>,
           \A i \in DOMAIN topic : topic'[i] = topic[i],
           seen' \subseteq seen \cup SeenFromWAL,
           phase' # "down" => phase # "down"
    PROVE  Coverage'
<1>1. /\ wal \in Seq(Record) /\ pos \in 0..Len(topic) /\ topic \in Seq(Command)
      /\ \A i \in DOMAIN wal : wal[i] \in Record
  BY DEF Types, TypeOK
<1>2. \A i \in DOMAIN wal : wal[i].off \in Nat /\ wal[i].off < Len(topic)
  BY <1>1 DEF Types, Record
<1>3. seen' \subseteq SeenFromWAL'
  BY DEF Coverage, SeenFromWAL
<1>4. ASSUME NEW k \in DOMAIN wal, NEW off \in 0..(wal[k].off - 1)
      PROVE  Covered(off, k)'
  <2>1. off \in Nat /\ k \in Nat /\ k <= k /\ off + 1 \in DOMAIN topic /\ Covered(off, k)
    BY <1>1, <1>2 DEF Coverage
  <2>2. QED
    BY <2>1, CoveredStays
<1>5. ASSUME phase # "down", NEW off \in 0..(pos - 1)
      PROVE  Covered(off, Len(wal))'
  <2>1. off \in Nat /\ Len(wal) \in Nat /\ off + 1 \in DOMAIN topic /\ Covered(off, Len(wal))
    BY <1>1, <1>5 DEF Coverage
  <2> DEFINE n == Len(wal)
  <2>2. n = n' /\ n \in Nat /\ n <= n
    BY <2>1
  <2>3. QED
    BY <2>1, <2>2, CoveredStays DEF Covered
<1>6. QED
  BY <1>3, <1>4, <1>5 DEF Coverage

(* No step forgets a command: what Stage passes over is in dropped or in   *)
(* the log, a crash keeps a prefix of the log, and StartOffset is the      *)
(* position after a record.                                                *)
LEMMA NextCoverage == Types /\ Synced /\ Coverage /\ [Next]_vars => Coverage'
<1> SUFFICES ASSUME Types, Synced, Coverage, [Next]_vars PROVE Coverage'
  OBVIOUS
<1>a. /\ wal \in Seq(Record) /\ synced \in 0..Len(wal) /\ pending \in Seq(Item)
      /\ pos \in 0..Len(topic) /\ topic \in Seq(Command)
      /\ \A i \in DOMAIN wal : wal[i] \in Record
  BY DEF Types, TypeOK
<1>b. \A i \in DOMAIN wal : wal[i].off \in Nat /\ wal[i].off < Len(topic)
  BY <1>a DEF Types, Record
<1>1. ASSUME NEW cmd \in Command, Produce(cmd) PROVE Coverage'
  <2>1. \A i \in DOMAIN topic : topic'[i] = topic[i]
    BY <1>1, <1>a DEF Produce
  <2>2. QED
    BY <1>1, <2>1, CoverageKept DEF Produce, disk
<1>2. ASSUME Stage PROVE Coverage'
  <2> DEFINE cmd == ReadMessage
             item == Staged(cmd, Outcome(cmd))
  <2>1. /\ item.off = pos /\ item.kind = cmd.kind /\ item.id = cmd.id
        /\ RecordOf(item) \in Record /\ RecordOf(item).off = pos
        /\ RecordOf(item).kind = cmd.kind /\ RecordOf(item).id = cmd.id
        /\ item.outcome = Outcome(cmd)
    BY <1>2, StagedProperties DEF Stage, Staged
  <2>2. /\ wal' = (IF item.outcome = "apply" THEN Append(wal, RecordOf(item)) ELSE wal)
        /\ dropped' = (IF item.outcome = "readOnly" THEN dropped \cup {pos} ELSE dropped)
        /\ pos' = pos + 1 /\ pos < Len(topic) /\ phase = "stage"
        /\ UNCHANGED <<topic, seen, phase>>
    BY <1>2, Zenon DEF Stage, Logged
  <2>3. cmd = topic[pos + 1] /\ cmd \in Command
    BY <1>a, <2>2 DEF ReadMessage
  <2>4. /\ item.outcome \in {"apply", "readOnly", "duplicate"}
        /\ item.outcome = "duplicate" => cmd.kind = "New" /\ cmd.id \in seen
    <3> HIDE DEF item, cmd
    <3>1. cmd.kind \in {"New", "Cancel"}
      BY <2>3 DEF Command
    <3>2. Outcome(cmd) \in {"apply", "readOnly", "duplicate"}
      BY DEF Outcome
    <3>3. Outcome(cmd) = "duplicate" => cmd.kind = "New" /\ cmd.id \in seen
      BY <3>1 DEF Outcome
    <3>4. QED
      BY <2>1, <3>2, <3>3
  <2> HIDE DEF item, cmd
  <2>5. /\ wal' \in Seq(Record) /\ Len(wal) <= Len(wal')
        /\ \A i \in DOMAIN wal : i \in DOMAIN wal' /\ wal'[i] = wal[i]
        /\ \A i \in DOMAIN wal' : \/ i \in DOMAIN wal
                                  \/ item.outcome = "apply" /\ i = Len(wal) + 1 /\ wal'[i] = RecordOf(item)
        /\ item.outcome = "apply" => Len(wal') = Len(wal) + 1
                                      /\ wal'[Len(wal) + 1] = RecordOf(item)
    BY <1>a, <2>1, <2>2
  <2>6. ASSUME NEW off \in 0..(pos - 1), NEW m \in Nat, Len(wal) <= m
        PROVE  Covered(off, m)'
    <3>1. off \in Nat /\ Covered(off, Len(wal)) /\ Len(wal) \in Nat
      BY <1>a, <2>2 DEF Coverage
    <3>2. dropped \subseteq dropped' /\ topic'[off + 1] = topic[off + 1]
      BY <2>2
    <3>3. \A i \in 1..Len(wal) : wal'[i] = wal[i]
      BY <1>a, <2>5
    <3>4. QED
      BY <2>6, <3>1, <3>2, <3>3, CoveredStays
  <2>7. ASSUME NEW p \in Nat, p = pos, NEW m \in Nat, m = Len(wal')
        PROVE  Covered(p, m)'
    <3>1. CASE item.outcome = "readOnly"
      BY <2>2, <2>7, <3>1 DEF Covered
    <3>2. CASE item.outcome = "apply"
      BY <1>a, <2>1, <2>5, <2>7, <3>2 DEF Covered
    <3>3. CASE item.outcome = "duplicate"
      <4>1. cmd.kind = "New" /\ cmd.id \in SeenFromWAL
        BY <2>4, <3>3 DEF Coverage
      <4>2. PICK i \in DOMAIN wal : wal[i].kind = "New" /\ wal[i].id = cmd.id
        BY <4>1 DEF SeenFromWAL
      <4>3. topic'[pos + 1] = cmd /\ i \in 1..Len(wal') /\ wal'[i] = wal[i]
        BY <1>a, <2>2, <2>3, <2>5
      <4>4. QED
        BY <2>7, <4>1, <4>2, <4>3 DEF Covered
    <3>4. QED
      BY <2>4, <3>1, <3>2, <3>3
  <2>8. \A off \in 0..(pos' - 1) : Covered(off, Len(wal))'
    <3>1. Len(wal') \in Nat /\ Len(wal) <= Len(wal')
      BY <2>5
    <3>2. ASSUME NEW off \in 0..(pos' - 1), NEW m \in Nat, m = Len(wal') PROVE Covered(off, m)'
      <4>1. off \in Nat /\ (off \in 0..(pos - 1) \/ off = pos)
        BY <1>a, <2>2
      <4>2. QED
        BY <2>6, <2>7, <3>1, <3>2, <4>1
    <3>3. QED
      BY <3>1, <3>2 DEF Covered
  <2>9. ASSUME NEW k \in DOMAIN wal', NEW off \in 0..(wal'[k].off - 1)
        PROVE  Covered(off, k)'
    <3>1. CASE k \in DOMAIN wal
      <4>1. off \in Nat /\ k \in Nat /\ k <= k /\ Covered(off, k) /\ wal'[k] = wal[k]
        BY <1>a, <1>b, <2>5, <3>1 DEF Coverage
      <4>2. \A i \in 1..k : wal'[i] = wal[i]
        BY <1>a, <2>5, <3>1
      <4>3. dropped \subseteq dropped' /\ topic'[off + 1] = topic[off + 1]
        BY <2>2
      <4>4. QED
        BY <4>1, <4>2, <4>3, CoveredStays
    <3>2. CASE k = Len(wal) + 1 /\ wal'[k] = RecordOf(item)
      <4>1. off \in 0..(pos - 1) /\ k \in Nat /\ Len(wal) <= k
        BY <1>a, <2>1, <3>2
      <4>2. QED
        BY <2>6, <4>1
    <3>3. QED
      BY <2>5, <3>1, <3>2
  <2>10. seen' \subseteq SeenFromWAL'
    <3>1. SeenFromWAL \subseteq SeenFromWAL'
      BY <2>5 DEF SeenFromWAL
    <3>2. QED
      BY <2>2, <3>1 DEF Coverage
  <2>11. QED
    BY <2>8, <2>9, <2>10 DEF Coverage
<1>3. ASSUME CommitBatch PROVE Coverage'
  BY <1>3, CoverageKept DEF CommitBatch
<1>4. ASSUME ApplyItem PROVE Coverage'
  <2> DEFINE item == pending[next]
  <2>1. UNCHANGED <<wal, pos, dropped, topic, phase>>
    BY <1>4 DEF ApplyItem, disk
  <2>2. next \in DOMAIN pending
    BY <1>4, <1>a DEF ApplyItem, Types, TypeOK
  <2>3. \/ seen' = seen
        \/ item.outcome = "apply" /\ item.kind = "New" /\ seen' = seen \cup {item.id}
    BY <1>4 DEF ApplyItem, MatchOrCancel
  <2>4. (item.outcome = "apply" /\ item.kind = "New") => item.id \in SeenFromWAL
    <3>1. SUFFICES ASSUME item.outcome = "apply", item.kind = "New"
                   PROVE  item.id \in SeenFromWAL
      OBVIOUS
    <3>2. PICK i \in DOMAIN wal : wal[i] = RecordOf(item)
      BY <2>2, <3>1 DEF Synced, LogRecords
    <3>3. wal[i].kind = "New" /\ wal[i].id = item.id
      BY <3>1, <3>2 DEF RecordOf
    <3>4. QED
      BY <3>3 DEF SeenFromWAL
  <2>5. seen' \subseteq seen \cup SeenFromWAL
    BY <2>3, <2>4
  <2>6. QED
    BY <2>1, <2>5, CoverageKept
<1>5. ASSUME StartPublish PROVE Coverage'
  BY <1>5, CoverageKept DEF StartPublish, disk
<1>6. ASSUME PublishItem PROVE Coverage'
  BY <1>6, CoverageKept DEF PublishItem
<1>7. ASSUME BatchDone PROVE Coverage'
  BY <1>7, CoverageKept DEF BatchDone, disk
<1>8. ASSUME HandlerFails PROVE Coverage'
  BY <1>8, CoverageKept DEF HandlerFails, disk
<1>9. ASSUME SnapshotIfStale PROVE Coverage'
  BY <1>9, CoverageKept DEF SnapshotIfStale, disk
<1>10. ASSUME Stop PROVE Coverage'
  BY <1>10, CoverageKept DEF Stop, disk
<1>11. ASSUME NEW s \in Symbols, SaveSymbol(s) PROVE Coverage'
  BY <1>11, CoverageKept DEF SaveSymbol
<1>12. ASSUME SaveManifest PROVE Coverage'
  <2>1. UNCHANGED <<wal, pos, dropped, topic>> /\ phase # "down"
        /\ (seen' = seen \/ seen' = {})
    BY <1>12 DEF SaveManifest, VolatileLost
  <2>2. QED
    BY <2>1, CoverageKept
<1>13. ASSUME Crash PROVE Coverage'
  <2>1. PICK n \in synced..Len(wal) : wal' = SubSeq(wal, 1, n) /\ synced' = n
    BY <1>13 DEF Crash
  <2>2. /\ wal' \in Seq(Record) /\ Len(wal') = n
        /\ \A i \in DOMAIN wal' : i \in DOMAIN wal /\ wal'[i] = wal[i]
    BY <1>a, <2>1
  <2>3. seen' = {} /\ phase' = "down" /\ UNCHANGED <<topic, dropped>>
    BY <1>13 DEF Crash, VolatileLost
  <2>4. ASSUME NEW k \in DOMAIN wal', NEW off \in 0..(wal'[k].off - 1)
        PROVE  Covered(off, k)'
    <3>1. off \in Nat /\ k \in Nat /\ k <= k /\ Covered(off, k)
      BY <1>a, <1>b, <2>2 DEF Coverage
    <3>2. \A i \in 1..k : wal'[i] = wal[i]
      BY <2>2
    <3>3. QED
      BY <2>3, <3>1, <3>2, CoveredStays
  <2>5. QED
    BY <2>3, <2>4 DEF Coverage
<1>14. ASSUME Restart PROVE Coverage'
  <2>1. UNCHANGED <<wal, topic, dropped>> /\ seen' = SeenFromWAL
        /\ pos' = PlanReaderStart(StartOffset)
    BY <1>14 DEF Restart, Recover, disk
  <2>2. ASSUME NEW k \in DOMAIN wal, NEW off \in 0..(wal[k].off - 1), NEW m \in Nat, k <= m
        PROVE  Covered(off, m)'
    <3>1. off \in Nat /\ k \in Nat /\ Covered(off, k)
      BY <1>a, <1>b DEF Coverage
    <3>2. QED
      BY <2>1, <2>2, <3>1, CoveredStays
  <2>3. ASSUME NEW off \in 0..(pos' - 1) PROVE Covered(off, Len(wal))'
    <3>1. pos' # 0 /\ pos' \in Nat
      BY <2>1, <2>3, StartOffsetProperties
    <3>2. PICK k \in DOMAIN wal : wal[k].off + 1 = pos'
      BY <2>1, <3>1, StartOffsetProperties
    <3>3. CASE off = wal[k].off
      BY <1>a, <2>1, <3>2, <3>3 DEF Covered
    <3>4. CASE off # wal[k].off
      <4>1. off \in 0..(wal[k].off - 1) /\ Len(wal) \in Nat /\ k <= Len(wal)
        <5>1. wal[k].off \in Nat /\ k \in DOMAIN wal /\ Len(wal) \in Nat /\ DOMAIN wal = 1..Len(wal)
          BY <1>a, <1>b, <3>2
        <5>2. off \in 0..(pos' - 1) /\ pos' = wal[k].off + 1
          BY <2>3, <3>2
        <5>3. QED
          BY <3>4, <5>1, <5>2
      <4> DEFINE n == Len(wal)
      <4>2. n' = n /\ Covered(off, n)
        BY <2>1, <2>2, <4>1 DEF Covered
      <4>3. QED
        BY <2>1, <4>2 DEF Covered
    <3>5. QED
      BY <3>3, <3>4
  <2>4. \A k \in DOMAIN wal' : \A off \in 0..(wal'[k].off - 1) : Covered(off, k)'
    BY <1>a, <2>1, <2>2
  <2>5. seen' \subseteq SeenFromWAL'
    BY <2>1 DEF SeenFromWAL
  <2>6. QED
    BY <2>3, <2>4, <2>5 DEF Coverage
<1>15. CASE UNCHANGED vars
  BY <1>15, CoverageKept DEF vars
<1>16. QED
  BY <1>1, <1>2, <1>3, <1>4, <1>5, <1>6, <1>7, <1>8, <1>9, <1>10, <1>11, <1>12, <1>13,
     <1>14, <1>15 DEF Next, Step, RunKafka

(* In both modes of the consumer and after any number of crashes and       *)
(* restarts, no command lies before the read position that is not logged,  *)
(* does not repeat a logged order and was not refused in read-only mode.   *)
THEOREM NothingSkipped == Spec => []NoCommandSkipped
<1>1. Init => Types /\ Synced /\ WalBeforeMemory /\ Coverage
  BY InitTypes, InitDurable, InitCoverage
<1>2. Types /\ Synced /\ WalBeforeMemory /\ Coverage /\ [Next]_vars
      => (Types /\ Synced /\ WalBeforeMemory /\ Coverage)'
  BY NextTypes, NextDurable, NextCoverage
<1>3. Types /\ Coverage => NoCommandSkipped
  <2>1. Types => wal \in Seq(Record)
    BY DEF Types, TypeOK
  <2>2. QED
    BY <2>1 DEF Coverage, Covered, NoCommandSkipped, LogRecords
<1>4. QED
  BY <1>1, <1>2, <1>3, PTL DEF Spec

-----------------------------------------------------------------------------
(* One command at a time.                                                  *)

(* A message was logged and not applied yet.                               *)
Unapplied ==
    /\ pending # <<>> /\ pending[1].outcome = "apply"
    /\ phase = "stage" \/ (phase = "apply" /\ next = 1)

Sorted(b) == \A k, l \in DOMAIN b : k < l => b[k].seq < b[l].seq

(* runSequential: the log is always synced, holds each order once, and at  *)
(* most its last record is not applied; books and files are in log order.  *)
LogOnce ==
    \A i, j \in DOMAIN wal :
        (wal[i].kind = "New" /\ wal[j].kind = "New" /\ wal[i].id = wal[j].id) => i = j

SeenCovers ==
    phase # "down" =>
        \A i \in DOMAIN wal :
            wal[i].kind = "New" => wal[i].id \in seen \/ (Unapplied /\ i = Len(wal))

LastUnapplied ==
    Unapplied =>
        /\ wal # <<>> /\ RecordOf(pending[1]) = wal[Len(wal)]
        /\ pending[1].kind = "New" => pending[1].id \notin seen
        /\ \A s \in Symbols : \A k \in DOMAIN book[s] : book[s][k].seq < Len(wal)

BooksSorted == \A s \in Symbols : Sorted(book[s])

FilesSorted ==
    \A s \in Symbols : \A f \in snap[s] :
        /\ Sorted(f.book) /\ f.seq <= Len(wal)
        /\ \A k \in DOMAIN f.book : f.book[k].seq <= f.seq

Sequential ==
    /\ synced = Len(wal) /\ Len(pending) <= 1
    /\ phase = "down" => pending = <<>>
    /\ LogOnce /\ SeenCovers /\ LastUnapplied
    /\ BooksSorted /\ FilesSorted

(* A snapshot is labelled with the last record, and leaves out at most an  *)
(* order that is refused.                                                  *)
Snapping ==
    /\ \A s \in Symbols : \A f, g \in snap[s] : f.seq = g.seq => f = g
    /\ phase = "down" => snapping = NotSnapping
    /\ snapping # NotSnapping =>
          /\ snapping.seq = Len(wal)
          /\ Unapplied => Fails(pending[1])
          /\ \A s \in Symbols \ snapping.todo :
                [seq |-> snapping.seq, book |-> book[s]] \in snap[s]

(* An entry of a book or of a file is the record of its number.            *)
LEMMA BookEntries ==
    ASSUME Types, WalBeforeMemory, NEW s \in Symbols
    PROVE  /\ \A k \in DOMAIN book[s] :
                 book[s][k].seq \in DOMAIN wal /\ book[s][k] = wal[book[s][k].seq]
           /\ \A f \in snap[s] : \A k \in DOMAIN f.book :
                 f.book[k].seq \in DOMAIN wal /\ f.book[k] = wal[f.book[k].seq]
<1>1. wal \in Seq(Record) /\ synced \in 0..Len(wal) /\ \A i \in DOMAIN wal : wal[i].seq = i
  BY DEF Types, TypeOK, Numbered
<1>2. ASSUME NEW r \in Durable PROVE r.seq \in DOMAIN wal /\ r = wal[r.seq]
  <2>1. PICK i \in 1..synced : r = wal[i]
    BY DEF Durable
  <2>2. i \in DOMAIN wal
    BY <1>1
  <2>3. QED
    BY <1>1, <2>1, <2>2
<1>3. QED
  BY <1>2, WalBeforeMemoryParts

(* A step that leaves log, files, books and seen alone.                    *)
LEMMA SequentialKept ==
    ASSUME Sequential, UNCHANGED <<wal, synced, snap, book, seen>>,
           Len(pending') <= 1, phase' # "down", phase # "down",
           Unapplied' <=> Unapplied, Unapplied => pending' = pending
    PROVE  Sequential'
<1>1. LogOnce' /\ BooksSorted' /\ FilesSorted'
  BY DEF Sequential, LogOnce, BooksSorted, FilesSorted, Sorted
<1>2. SeenCovers'
  BY DEF Sequential, SeenCovers
<1>3. LastUnapplied'
  <2>1. SUFFICES ASSUME Unapplied
                 PROVE  /\ wal # <<>> /\ RecordOf(pending'[1]) = wal[Len(wal)]
                        /\ pending'[1].kind = "New" => pending'[1].id \notin seen
                        /\ \A s \in Symbols : \A k \in DOMAIN book[s] : book[s][k].seq < Len(wal)
    BY DEF LastUnapplied, RecordOf
  <2>2. QED
    BY <2>1 DEF Sequential, LastUnapplied
<1>4. QED
  BY <1>1, <1>2, <1>3 DEF Sequential

(* What is left when the process ends, and the log was synced.             *)
LEMMA SequentialDown ==
    ASSUME Sequential, Snapping, UNCHANGED <<wal, snap>>, synced' = Len(wal), VolatileLost
    PROVE  Sequential' /\ Snapping' /\ ~Unapplied'
<1>1. phase' = "down" /\ pending' = <<>> /\ snapping' = NotSnapping
      /\ book' = [s \in Symbols |-> <<>>]
  BY DEF VolatileLost
<1>2. ~Unapplied'
  BY <1>1 DEF Unapplied
<1>3. LogOnce' /\ SeenCovers' /\ LastUnapplied' /\ FilesSorted'
  BY <1>1, <1>2 DEF Sequential, LogOnce, SeenCovers, LastUnapplied, FilesSorted, Sorted
<1>4. BooksSorted'
  BY <1>1 DEF BooksSorted, Sorted
<1>5. QED
  BY <1>1, <1>2, <1>3, <1>4 DEF Sequential, Snapping

(* Initially nothing is logged.                                            *)
LEMMA InitSequential == Init => Sequential /\ Snapping
<1> SUFFICES ASSUME Init PROVE Sequential /\ Snapping
  OBVIOUS
<1>1. LogOnce /\ SeenCovers /\ LastUnapplied /\ BooksSorted /\ FilesSorted
  BY DEF Init, LogOnce, SeenCovers, LastUnapplied, Unapplied, BooksSorted, FilesSorted, Sorted
<1>2. QED
  BY <1>1 DEF Init, Sequential, Snapping

(* The newest file is not pruned.                                          *)
LEMMA NewestKept ==
    ASSUME NEW saved \in SUBSET Snapshot, NEW f \in Snapshot,
           \A g \in saved : g.seq <= f.seq
    PROVE  f \in Prune(WriteAtomic(saved, f))
<1> DEFINE W == WriteAtomic(saved, f)
<1>1. f \in W /\ \A g \in W : g.seq <= f.seq /\ g.seq \in Nat /\ f.seq \in Nat
  BY DEF WriteAtomic, Snapshot
<1>2. {g \in W : g.seq > f.seq} = {}
  <2> HIDE DEF W
  <2>1. QED
    BY <1>1
<1>3. Cardinality({g \in W : g.seq > f.seq}) < Keep
  <2> HIDE DEF W
  <2>1. Cardinality({g \in W : g.seq > f.seq}) = 0
    BY <1>2, FS_EmptySet
  <2>2. QED
    BY <2>1, DurableShardAssumption
<1>4. QED
  BY <1>1, <1>3 DEF Prune

(* One message at a time: every step keeps Sequential and Snapping.        *)
LEMMA NextSequential ==
    ASSUME Types, WalBeforeMemory, Sequential, Snapping, ~batched, Next
    PROVE  Sequential' /\ Snapping'
<1>a. /\ wal \in Seq(Record) /\ pending \in Seq(Item) /\ next \in Nat \ {0}
      /\ book \in [Symbols -> Seq(Record)] /\ snap \in [Symbols -> SUBSET Snapshot]
      /\ \A i \in DOMAIN wal : wal[i] \in Record /\ wal[i].seq = i
  BY DEF Types, TypeOK, Numbered
<1>b. /\ synced = Len(wal) /\ Len(pending) <= 1
      /\ LogOnce /\ SeenCovers /\ LastUnapplied /\ BooksSorted /\ FilesSorted
  BY DEF Sequential
<1>1. ASSUME NEW cmd \in Command, Produce(cmd) PROVE Sequential' /\ Snapping'
  BY <1>1 DEF Produce, disk, Sequential, Snapping, LogOnce, SeenCovers, LastUnapplied, Unapplied,
              BooksSorted, FilesSorted, Sorted, RecordOf, Fails
<1>2. ASSUME Stage PROVE Sequential' /\ Snapping'
  <2> DEFINE item == Staged(ReadMessage, Outcome(ReadMessage))
             rec == RecordOf(item)
  <2>1. /\ rec \in Record /\ rec.seq = Len(wal) + 1
        /\ rec.kind = item.kind /\ rec.id = item.id
        /\ item \in Item
    BY <1>2, StagedProperties DEF Stage
  <2>2. item.outcome = "apply" /\ item.kind = "New" => item.id \notin seen
    BY DEF Staged, Outcome
  <2>3. /\ pending' = Append(pending, item) /\ Len(pending) < 1
        /\ wal' = (IF item.outcome = "apply" THEN Append(wal, rec) ELSE wal)
        /\ synced' = Len(wal') /\ phase = "stage" /\ snapping = NotSnapping
        /\ UNCHANGED <<snap, phase, book, seen, next, snapping>>
    BY <1>2, Zenon DEF Stage, Logged, Running
  <2> HIDE DEF item, rec
  <2>4. pending = <<>> /\ pending' # <<>> /\ pending'[1] = item /\ Len(pending') = 1
    <3>1. Len(pending) = 0
      BY <1>a, <2>3
    <3>2. pending = <<>>
      BY <1>a, <3>1, EmptySeq
    <3>3. QED
      BY <1>a, <2>1, <2>3, <3>1, <3>2
  <2>5. ~Unapplied
    BY <2>4 DEF Unapplied
  <2>6. \A i \in DOMAIN wal : wal[i].kind = "New" => wal[i].id \in seen
    BY <1>b, <2>3, <2>5 DEF SeenCovers
  <2>7. CASE item.outcome = "apply"
    <3>1. /\ wal' \in Seq(Record) /\ Len(wal') = Len(wal) + 1 /\ wal'[Len(wal')] = rec
          /\ wal' # <<>>
          /\ \A i \in DOMAIN wal' : \/ i \in DOMAIN wal /\ wal'[i] = wal[i]
                                    \/ i = Len(wal) + 1 /\ wal'[i] = rec
      <4>1. wal' = Append(wal, rec)
        BY <2>3, <2>7
      <4>2. wal' \in Seq(Record) /\ Len(wal') = Len(wal) + 1 /\ wal'[Len(wal) + 1] = rec
            /\ \A i \in 1..Len(wal) : wal'[i] = wal[i]
        BY <1>a, <2>1, <4>1
      <4>3. DOMAIN wal = 1..Len(wal) /\ Len(wal) \in Nat
        BY <1>a
      <4>4. DOMAIN wal' = 1..(Len(wal) + 1)
        BY <4>2
      <4>5. \A i \in DOMAIN wal' : \/ i \in DOMAIN wal /\ wal'[i] = wal[i]
                                   \/ i = Len(wal) + 1 /\ wal'[i] = rec
        <5>1. PICK n \in Nat : n = Len(wal)
          BY <4>3
        <5>2. ASSUME NEW i \in 1..(n + 1) PROVE i \in 1..n \/ i = n + 1
          OBVIOUS
        <5>3. DOMAIN wal = 1..n /\ DOMAIN wal' = 1..(n + 1)
          BY <4>3, <4>4, <5>1, Zenon
        <5>4. \A i \in 1..n : wal'[i] = wal[i]
          BY <4>2, <5>1, Zenon
        <5>5. wal'[n + 1] = rec
          BY <4>2, <5>1, Zenon
        <5>6. QED
          BY <5>1, <5>2, <5>3, <5>4, <5>5, Zenon
      <4>6. wal'[Len(wal')] = rec /\ wal' # <<>>
        BY <4>2, <4>3
      <4>7. QED
        BY <4>2, <4>5, <4>6
    <3>2. Unapplied'
      BY <2>3, <2>4, <2>7 DEF Unapplied
    <3>3. rec.kind = "New" => rec.id \notin seen
      BY <2>1, <2>2, <2>7 DEF item
    <3>4. LogOnce'
      BY <1>b, <2>6, <3>1, <3>3 DEF LogOnce
    <3>5. SeenCovers'
      <4>1. \A i \in DOMAIN wal' : wal'[i].kind = "New" => wal'[i].id \in seen \/ i = Len(wal')
        BY <2>6, <3>1
      <4>2. QED
        BY <2>3, <3>2, <4>1 DEF SeenCovers
    <3>6. LastUnapplied'
      <4>1. \A s \in Symbols : \A k \in DOMAIN book[s] : book[s][k].seq < Len(wal')
        BY <1>a, <3>1, BookEntries
      <4>2. RecordOf(pending'[1]) = wal'[Len(wal')]
        BY <2>4, <3>1 DEF rec
      <4>3. pending'[1].kind = "New" => pending'[1].id \notin seen
        BY <2>1, <2>4, <3>3
      <4>4. QED
        BY <2>3, <3>1, <4>1, <4>2, <4>3 DEF LastUnapplied, RecordOf
    <3>7. BooksSorted'
      BY <1>b, <2>3 DEF BooksSorted, Sorted
    <3>8. FilesSorted'
      <4>1. \A s \in Symbols : \A f \in snap[s] : f.seq \in Nat
        BY <1>a DEF Snapshot
      <4>2. QED
        BY <1>a, <1>b, <2>3, <3>1, <4>1 DEF FilesSorted, Sorted
    <3>9. QED
      BY <2>3, <2>4, <3>4, <3>5, <3>6, <3>7, <3>8 DEF Sequential, Snapping
  <2>8. CASE item.outcome # "apply"
    <3>1. ~Unapplied' /\ wal' = wal
      BY <2>3, <2>4, <2>8 DEF Unapplied
    <3>2. Sequential'
      BY <1>b, <2>3, <2>4, <2>5, <3>1, SequentialKept
    <3>3. QED
      BY <2>3, <3>1, <3>2 DEF Snapping
  <2>9. QED
    BY <2>7, <2>8
<1>3. ASSUME CommitBatch PROVE Sequential' /\ Snapping'
  <2>1. /\ phase = "stage" /\ phase' = "apply" /\ next' = 1 /\ synced' = Len(wal)
        /\ snapping = NotSnapping
        /\ UNCHANGED <<wal, snap, book, seen, pending, snapping>>
    BY <1>3 DEF CommitBatch, Running
  <2>2. Unapplied' <=> Unapplied
    BY <2>1 DEF Unapplied
  <2>3. Sequential'
    BY <1>b, <2>1, <2>2, SequentialKept
  <2>4. QED
    BY <2>1, <2>3 DEF Snapping
<1>4. ASSUME ApplyItem PROVE Sequential' /\ Snapping'
  <2> DEFINE item == pending[1]
             s == SymbolOf[item.id]
             rec == RecordOf(item)
  <2>1. /\ phase = "apply" /\ next' = next + 1 /\ next <= Len(pending) /\ snapping = NotSnapping
        /\ UNCHANGED <<wal, synced, snap, phase, pending>>
    BY <1>4 DEF ApplyItem, Running, disk
  <2>2. next = 1 /\ item \in Item /\ pending # <<>>
    BY <1>a, <1>b, <2>1
  <2>3. ~Unapplied'
    BY <2>1, <2>2 DEF Unapplied
  <2>4. CASE item.outcome # "apply"
    <3>1. UNCHANGED <<book, seen, snapping>>
      BY <1>4, <2>2, <2>4 DEF ApplyItem
    <3>2. ~Unapplied
      BY <2>4 DEF Unapplied
    <3>3. Sequential'
      BY <1>b, <2>1, <2>3, <3>1, <3>2, SequentialKept
    <3>4. QED
      BY <2>1, <3>1, <3>3 DEF Snapping
  <2>5. CASE item.outcome = "apply"
    <3>1. /\ book' = [book EXCEPT ![s] = Append(book[s], rec)]
          /\ seen' = (IF item.kind = "New" THEN seen \cup {item.id} ELSE seen)
          /\ \/ snapping' = [seq |-> item.seq, todo |-> Symbols, exit |-> FALSE]
             \/ snapping' = snapping
      BY <1>4, <2>2, <2>5, Zenon DEF ApplyItem, MatchOrCancel, StartSnapshot
    <3>2. Unapplied
      BY <2>1, <2>2, <2>5 DEF Unapplied
    <3>3. /\ wal # <<>> /\ rec = wal[Len(wal)] /\ Len(wal) \in DOMAIN wal
          /\ \A t \in Symbols : \A k \in DOMAIN book[t] : book[t][k].seq < Len(wal)
      BY <1>a, <1>b, <3>2 DEF LastUnapplied
    <3>4. rec.seq = Len(wal) /\ item.seq = Len(wal) /\ rec \in Record
          /\ rec.kind = item.kind /\ rec.id = item.id /\ s \in Symbols
      <4>1. rec.seq = item.seq /\ rec.kind = item.kind /\ rec.id = item.id
        BY DEF RecordOf
      <4>2. rec \in Record /\ rec.seq = Len(wal)
        BY <1>a, <3>3
      <4>3. s \in Symbols
        BY <2>2, DurableShardAssumption DEF Item
      <4>4. QED
        BY <4>1, <4>2, <4>3
    <3> HIDE DEF item, rec, s
    <3>5. LogOnce' /\ FilesSorted'
      BY <1>b, <2>1 DEF LogOnce, FilesSorted, Sorted
    <3>6. SeenCovers'
      <4>1. \A i \in DOMAIN wal : wal[i].kind = "New" => wal[i].id \in seen'
        BY <1>b, <2>1, <3>1, <3>3, <3>4 DEF SeenCovers
      <4>2. QED
        BY <2>1, <4>1 DEF SeenCovers
    <3>7. LastUnapplied'
      BY <2>3 DEF LastUnapplied
    <3>8. BooksSorted'
      <4>1. SUFFICES ASSUME NEW t \in Symbols PROVE Sorted(book'[t])
        BY DEF BooksSorted, Sorted
      <4>2. CASE t # s
        BY <1>a, <1>b, <3>1, <4>2 DEF BooksSorted
      <4>3. CASE t = s
        <5>1. book'[t] = Append(book[t], rec) /\ book[t] \in Seq(Record) /\ Sorted(book[t])
          BY <1>a, <1>b, <3>1, <4>3 DEF BooksSorted
        <5>2. \A k \in DOMAIN book'[t] :
                 \/ k \in DOMAIN book[t] /\ book'[t][k] = book[t][k] /\ k <= Len(book[t])
                 \/ k = Len(book[t]) + 1 /\ book'[t][k] = rec
          BY <3>4, <5>1
        <5>3. QED
          BY <3>3, <3>4, <5>1, <5>2 DEF Sorted
      <4>4. QED
        BY <4>2, <4>3
    <3>9. Sequential'
      BY <1>b, <2>1, <3>5, <3>6, <3>7, <3>8 DEF Sequential
    <3>10. Snapping'
      <4>1. CASE snapping' = snapping
        BY <2>1, <4>1 DEF Snapping
      <4>2. CASE snapping' = [seq |-> item.seq, todo |-> Symbols, exit |-> FALSE]
        <5>1. snapping'.seq = Len(wal) /\ snapping'.todo = Symbols
          BY <3>4, <4>2
        <5>2. Symbols \ snapping'.todo = {}
          BY <5>1
        <5>3. QED
          BY <2>1, <2>3, <5>1, <5>2 DEF Snapping
      <4>3. QED
        BY <3>1, <4>1, <4>2
    <3>11. QED
      BY <3>9, <3>10
  <2>6. QED
    BY <2>4, <2>5
<1>5. ASSUME StartPublish PROVE Sequential' /\ Snapping'
  <2>1. /\ phase = "apply" /\ phase' = "publish" /\ next > Len(pending)
        /\ snapping = NotSnapping
        /\ UNCHANGED <<wal, synced, snap, book, seen, pending, snapping>>
    BY <1>5 DEF StartPublish, Running, disk
  <2>2. ~Unapplied /\ ~Unapplied'
    BY <1>a, <2>1 DEF Unapplied
  <2>3. Sequential'
    BY <1>b, <2>1, <2>2, SequentialKept
  <2>4. QED
    BY <2>1, <2>3 DEF Snapping
<1>6. ASSUME PublishItem PROVE Sequential' /\ Snapping'
  <2>1. /\ phase = "publish" /\ phase' = "publish" /\ snapping = NotSnapping
        /\ UNCHANGED <<wal, synced, snap, book, seen, pending, snapping>>
    BY <1>6 DEF PublishItem, Running
  <2>2. ~Unapplied /\ ~Unapplied'
    BY <2>1 DEF Unapplied
  <2>3. Sequential'
    BY <1>b, <2>1, <2>2, SequentialKept
  <2>4. QED
    BY <2>1, <2>3 DEF Snapping
<1>7. ASSUME BatchDone PROVE Sequential' /\ Snapping'
  <2>1. /\ phase = "publish" /\ phase' = "stage" /\ snapping = NotSnapping /\ pending' = <<>>
        /\ UNCHANGED <<wal, synced, snap, book, seen, snapping>>
    BY <1>7 DEF BatchDone, Running, disk
  <2>2. ~Unapplied /\ ~Unapplied'
    BY <2>1 DEF Unapplied
  <2>3. Sequential'
    BY <1>b, <2>1, <2>2, SequentialKept
  <2>4. QED
    BY <2>1, <2>3 DEF Snapping
<1>8. ASSUME UNCHANGED <<wal, synced, snap, phase, book, seen, pending, next>>, phase # "down",
             NEW exit \in BOOLEAN, StartSnapshot(LastSeq, exit), Unapplied => Fails(pending[1])
      PROVE  Sequential' /\ Snapping'
  <2>1. Unapplied' <=> Unapplied
    BY <1>8 DEF Unapplied
  <2>2. Sequential'
    BY <1>b, <1>8, <2>1, SequentialKept
  <2>3. snapping'.seq = Len(wal) /\ Symbols \ snapping'.todo = {}
    BY <1>8, LastSeqIsLen DEF StartSnapshot
  <2>4. QED
    BY <1>8, <2>1, <2>2, <2>3 DEF Snapping, Fails
<1>9. ASSUME HandlerFails PROVE Sequential' /\ Snapping'
  <2>1. Unapplied => Fails(pending[1])
    BY <1>a, <1>b, <1>9 DEF HandlerFails, Unapplied
  <2>2. QED
    BY <1>8, <1>9, <2>1 DEF HandlerFails, Running, disk
<1>10. ASSUME SnapshotIfStale PROVE Sequential' /\ Snapping'
  <2>1. ~Unapplied
    BY <1>10 DEF SnapshotIfStale, MutexFree, Unapplied
  <2>2. QED
    BY <1>8, <1>10, <2>1 DEF SnapshotIfStale, Running, disk
<1>11. ASSUME Stop PROVE Sequential' /\ Snapping'
  <2>1. ~Unapplied
    BY <1>11 DEF Stop, Unapplied
  <2>2. QED
    BY <1>8, <1>11, <2>1 DEF Stop, Running, disk
<1>12. ASSUME NEW s \in Symbols, SaveSymbol(s) PROVE Sequential' /\ Snapping'
  <2> DEFINE file == [seq |-> snapping.seq, book |-> book[s]]
             new == Prune(WriteAtomic(snap[s], file))
  <2>1. /\ phase # "down" /\ s \in snapping.todo
        /\ snap' = [snap EXCEPT ![s] = new]
        /\ snapping' = [snapping EXCEPT !.todo = snapping.todo \ {s}]
        /\ UNCHANGED <<wal, synced, phase, book, seen, pending, next>>
    BY <1>12 DEF SaveSymbol
  <2>2. snapping # NotSnapping
    BY <2>1 DEF NotSnapping
  <2>3. /\ snapping.seq = Len(wal) /\ (Unapplied => Fails(pending[1]))
        /\ \A t \in Symbols \ snapping.todo : [seq |-> snapping.seq, book |-> book[t]] \in snap[t]
    BY <2>2 DEF Snapping
  <2>4. snapping'.seq = Len(wal) /\ snapping'.todo = snapping.todo \ {s}
    BY <2>1, <2>3 DEF Types, TypeOK
  <2>5. file \in Snapshot /\ file.seq = Len(wal) /\ file.book = book[s] /\ Sorted(file.book)
    BY <1>a, <1>b, <2>3 DEF Snapshot, BooksSorted
  <2>6. new \subseteq snap[s] \cup {file} /\ \A f \in new : f.seq = file.seq => f = file
    BY DEF Prune, WriteAtomic
  <2>7. file \in new
    BY <1>a, <1>b, <2>5, NewestKept DEF FilesSorted
  <2> HIDE DEF file, new
  <2>8. Unapplied' <=> Unapplied
    BY <2>1 DEF Unapplied
  <2>9. snap'[s] = new /\ \A t \in Symbols \ {s} : snap'[t] = snap[t]
    BY <1>a, <2>1
  <2>10. FilesSorted'
    <3>1. SUFFICES ASSUME NEW t \in Symbols, NEW f \in snap'[t]
                   PROVE  /\ Sorted(f.book) /\ f.seq <= Len(wal)
                          /\ \A k \in DOMAIN f.book : f.book[k].seq <= f.seq
      BY <2>1 DEF FilesSorted, Sorted
    <3>2. CASE f \in snap[t]
      BY <1>b, <3>2 DEF FilesSorted
    <3>3. CASE t = s /\ f = file
      <4>1. \A k \in DOMAIN book[s] : book[s][k].seq <= Len(wal)
        BY <1>a, BookEntries
      <4>2. QED
        BY <1>a, <2>5, <3>3, <4>1
    <3>4. QED
      BY <2>6, <2>9, <3>2, <3>3
  <2>11. LogOnce' /\ BooksSorted' /\ SeenCovers'
    BY <1>b, <2>1, <2>8 DEF LogOnce, BooksSorted, SeenCovers, Sorted
  <2>12. LastUnapplied'
    BY <1>b, <2>1, <2>8 DEF LastUnapplied, RecordOf
  <2>13. Sequential'
    BY <1>b, <2>1, <2>10, <2>11, <2>12 DEF Sequential
  <2>14. \A t \in Symbols : \A f, g \in snap'[t] : f.seq = g.seq => f = g
    <3>1. \A f, g \in snap[s] : f.seq = g.seq => f = g
      BY DEF Snapping
    <3>2. \A f, g \in new : f.seq = g.seq => f = g
      BY <2>6, <3>1
    <3>3. QED
      BY <2>9, <3>2 DEF Snapping
  <2>15. \A t \in Symbols \ snapping'.todo : [seq |-> snapping'.seq, book |-> book[t]] \in snap'[t]
    BY <2>3, <2>4, <2>7, <2>9 DEF file
  <2>16. Snapping'
    BY <2>1, <2>3, <2>4, <2>8, <2>14, <2>15 DEF Snapping, Fails
  <2>17. QED
    BY <2>13, <2>16
<1>13. ASSUME SaveManifest PROVE Sequential' /\ Snapping'
  <2>1. CASE snapping.exit
    BY <1>13, <2>1, SequentialDown DEF SaveManifest
  <2>2. CASE ~snapping.exit
    <3>1. /\ phase # "down" /\ snapping' = NotSnapping
          /\ UNCHANGED <<wal, snap, synced, phase, book, seen, pending, next>>
      BY <1>13, <2>2 DEF SaveManifest
    <3>2. Unapplied' <=> Unapplied
      BY <3>1 DEF Unapplied
    <3>3. Sequential'
      BY <1>b, <3>1, <3>2, SequentialKept
    <3>4. QED
      BY <3>1, <3>3 DEF Snapping
  <2>3. QED
    BY <2>1, <2>2
<1>14. ASSUME Crash PROVE Sequential' /\ Snapping'
  <2>1. PICK n \in synced..Len(wal) : wal' = SubSeq(wal, 1, n) /\ synced' = n
    BY <1>14 DEF Crash
  <2>2. n = Len(wal) /\ wal' = wal
    BY <1>a, <1>b, <2>1
  <2>3. QED
    BY <1>14, <2>1, <2>2, SequentialDown DEF Crash
<1>15. ASSUME Restart PROVE Sequential' /\ Snapping'
  <2>1. /\ phase = "down" /\ phase' = "stage" /\ seen' = SeenFromWAL
        /\ book' = [t \in Symbols |-> Replayed(t)]
        /\ UNCHANGED <<wal, synced, snap, pending, next, snapping>>
    BY <1>15 DEF Restart, Recover, disk
  <2>2. pending' = <<>> /\ ~Unapplied'
    BY <2>1 DEF Sequential, Unapplied
  <2>3. LogOnce' /\ FilesSorted' /\ LastUnapplied'
    BY <1>b, <2>1, <2>2 DEF LogOnce, FilesSorted, Sorted, LastUnapplied
  <2>4. SeenCovers'
    <3>1. \A i \in DOMAIN wal : wal[i].kind = "New" => wal[i].id \in SeenFromWAL
      BY DEF SeenFromWAL
    <3>2. QED
      BY <2>1, <3>1 DEF SeenCovers
  <2>5. ASSUME NEW t \in Symbols PROVE Sorted(Replayed(t))
    <3> DEFINE b == LatestPath(t).book
               r == Replayed(t)
               q == RecoveredOffset
    <3>1. PICK chosen \in SUBSET DOMAIN wal :
             Extends(r, b, chosen) /\ \A i \in chosen : wal[i].seq > q
      BY ReplayedProperties
    <3>2. q \in Nat /\ LatestPath(t).seq \in Nat /\ LatestPath(t).seq <= q
      BY RecoveredOffsetProperties, LatestPathProperties DEF Snapshot
    <3>3. b \in Seq(Record) /\ Sorted(b) /\ \A k \in DOMAIN b : b[k].seq <= q
      <4>1. CASE snap[t] = {}
        <5>1. LatestPath(t) = [seq |-> 0, book |-> <<>>]
          BY <4>1, LatestPathProperties
        <5>2. b = <<>>
          BY <5>1
        <5>3. QED
          BY <5>2 DEF Sorted
      <4>2. CASE snap[t] # {}
        <5>1. LatestPath(t) \in snap[t] /\ LatestPath(t) \in Snapshot
          BY <4>2, LatestPathProperties
        <5>2. b \in Seq(Record) /\ Sorted(b) /\ \A k \in DOMAIN b : b[k].seq <= LatestPath(t).seq
          BY <1>b, <5>1 DEF FilesSorted, Snapshot
        <5>3. \A k \in DOMAIN b : b[k].seq \in Nat
          <6>1. \A k \in DOMAIN b : b[k] \in Record
            BY <5>2
          <6>2. QED
            BY <6>1 DEF Record
        <5>4. QED
          BY <3>2, <5>2, <5>3
      <4>3. QED
        BY <4>1, <4>2
    <3> HIDE DEF b, r, q
    <3>4. SUFFICES ASSUME NEW k \in DOMAIN r, NEW l \in DOMAIN r, k < l
                   PROVE  r[k].seq < r[l].seq
      BY DEF Sorted, r
    <3>5. r \in Seq(Record) /\ Len(b) <= Len(r) /\ k \in 1..Len(r) /\ l \in 1..Len(r)
      BY <3>1, <3>4 DEF Extends
    <3>6. CASE l \in 1..Len(b)
      <4>1. k \in 1..Len(b) /\ r[k] = b[k] /\ r[l] = b[l]
        BY <3>1, <3>3, <3>4, <3>5, <3>6 DEF Extends
      <4>2. QED
        BY <3>3, <3>4, <3>6, <4>1 DEF Sorted
    <3>7. CASE l \notin 1..Len(b) /\ k \in 1..Len(b)
      <4>1. l \in (Len(b) + 1)..Len(r)
        BY <3>3, <3>5, <3>7
      <4>2. PICK i \in chosen : r[l] = wal[i]
        BY <3>1, <4>1 DEF Extends
      <4>3. r[l].seq > q /\ r[l].seq \in Nat
        BY <1>a, <3>1, <4>2
      <4>4. r[k] = b[k] /\ b[k].seq <= q
        BY <3>1, <3>3, <3>7 DEF Extends
      <4>5. b[k].seq \in Nat
        <5>1. b[k] \in Record
          BY <3>3, <3>7
        <5>2. QED
          BY <5>1 DEF Record
      <4>6. QED
        BY <3>2, <4>3, <4>4, <4>5
    <3>8. CASE k \notin 1..Len(b)
      <4>1. k \in (Len(b) + 1)..Len(r) /\ l \in (Len(b) + 1)..Len(r)
        BY <3>3, <3>4, <3>5, <3>8
      <4>2. QED
        BY <3>1, <3>4, <4>1 DEF Extends
    <3>9. QED
      BY <3>6, <3>7, <3>8
  <2>6. BooksSorted'
    BY <2>1, <2>5 DEF BooksSorted, Sorted
  <2>7. QED
    BY <1>b, <2>1, <2>2, <2>3, <2>4, <2>6 DEF Sequential, Snapping
<1>16. QED
  BY <1>1, <1>2, <1>3, <1>4, <1>5, <1>6, <1>7, <1>9, <1>10, <1>11, <1>12, <1>13,
     <1>14, <1>15 DEF Next, Step, RunKafka

(* In sequential mode no order is matched twice, through duplicate         *)
(* deliveries, crashes and restarts, and whatever the snapshots hold.      *)
THEOREM MatchedOnce == Spec => []NoDoubleMatch
<1> DEFINE Inv == /\ Types /\ Synced /\ WalBeforeMemory
                  /\ ~batched => Sequential /\ Snapping
<1>1. Init => Inv
  BY InitTypes, InitDurable, InitSequential
<1>2. Inv /\ [Next]_vars => Inv'
  <2> SUFFICES ASSUME Inv, [Next]_vars PROVE Inv'
    OBVIOUS
  <2>1. (Types /\ Synced /\ WalBeforeMemory)'
    BY NextTypes, NextDurable
  <2>2. CASE UNCHANGED vars
    BY <2>1, <2>2 DEF vars, Sequential, Snapping, LogOnce, SeenCovers, LastUnapplied, Unapplied,
                      BooksSorted, FilesSorted, Sorted, RecordOf, Fails
  <2>3. CASE Next
    <3>1. batched' = batched
      BY <2>3 DEF Next
    <3>2. QED
      BY <2>1, <2>3, <3>1, NextSequential
  <2>4. QED
    BY <2>2, <2>3
<1>3. Inv => NoDoubleMatch
  <2> SUFFICES ASSUME Inv, ~batched, NEW s \in Symbols,
                      NEW i \in DOMAIN book[s], NEW j \in DOMAIN book[s],
                      book[s][i].kind = "New", book[s][j].kind = "New", book[s][i].id = book[s][j].id
               PROVE  i = j
    BY DEF NoDoubleMatch, OrdersMatchedOnce
  <2>1. book[s][i].seq = book[s][j].seq
    BY BookEntries DEF Sequential, LogOnce
  <2>2. book[s] \in Seq(Record) /\ book[s][i] \in Record /\ book[s][j] \in Record
    BY DEF Types, TypeOK
  <2>3. i \in Nat /\ j \in Nat /\ book[s][i].seq \in Nat
    BY <2>2 DEF Record
  <2>4. ~(i < j) /\ ~(j < i)
    BY <2>1, <2>3 DEF Sequential, BooksSorted, Sorted
  <2>5. QED
    BY <2>3, <2>4
<1>4. QED
  BY <1>1, <1>2, <1>3, PTL DEF Spec

-----------------------------------------------------------------------------
(* Orderly restarts.                                                       *)

(* Without a crash every effective record is in its book, or in the file   *)
(* the next start will load.                                               *)
Complete ==
    /\ crashes \in Nat
    /\ crashes = 0 =>
          /\ phase # "down" =>
                \A r \in Effective :
                   r \in Applied(SymbolOf[r.id]) \/ (Unapplied /\ r = wal[Len(wal)])
          /\ phase = "down" =>
                \A r \in Effective : r \in ToSet(LatestPath(SymbolOf[r.id]).book)

(* Effective is a function of the log.                                     *)
LEMMA EffectiveSame ==
    ASSUME wal' = wal
    PROVE  Effective' = Effective
  BY DEF Effective, LogRecords

(* A step that leaves the log alone and the process running.               *)
LEMMA CompleteKept ==
    ASSUME Complete, UNCHANGED <<wal, book, crashes>>, phase # "down", phase' # "down",
           Unapplied => Unapplied'
    PROVE  Complete'
  BY EffectiveSame DEF Complete, Applied

(* The file with the label of the whole log is the one that is loaded.     *)
LEMMA LatestIsNewest ==
    ASSUME Types, Sequential, Snapping, NEW s \in Symbols,
           NEW f \in snap[s], f.seq = Len(wal)
    PROVE  LatestPath(s) = f
<1>1. LatestPath(s) \in snap[s] /\ f.seq <= LatestPath(s).seq
  BY LatestPathProperties
<1>2. LatestPath(s).seq <= Len(wal) /\ LatestPath(s).seq \in Nat /\ Len(wal) \in Nat
  BY <1>1, LatestPathProperties DEF Sequential, FilesSorted, Types, TypeOK, Snapshot
<1>3. LatestPath(s).seq = f.seq
  BY <1>1, <1>2
<1>4. QED
  BY <1>1, <1>3 DEF Snapping

(* What recovery loads stays in the book.                                  *)
LEMMA ReplayedKeeps ==
    ASSUME Types, NEW s \in Symbols
    PROVE  ToSet(LatestPath(s).book) \subseteq {Replayed(s)[k] : k \in DOMAIN Replayed(s)}
<1> DEFINE b == LatestPath(s).book
           r == Replayed(s)
<1>1. PICK chosen \in SUBSET DOMAIN wal : Extends(r, b, chosen)
  BY ReplayedProperties
<1>2. b \in Seq(Record) /\ r \in Seq(Record)
  BY <1>1, LatestPathProperties DEF Extends, Snapshot
<1>3. \A k \in DOMAIN b : k \in DOMAIN r /\ r[k] = b[k]
  BY <1>1, <1>2 DEF Extends
<1>4. QED
  BY <1>3 DEF ToSet

(* Reading one message: the log keeps what it has and gets at most one     *)
(* record, the one that is not applied yet.                                *)
LEMMA StageAdds ==
    ASSUME Types, Sequential, ~batched, Stage
    PROVE  /\ ~Unapplied /\ phase # "down" /\ UNCHANGED <<phase, book, crashes, snap, manifest>>
           /\ \/ wal' = wal
              \/ /\ Unapplied' /\ Len(wal') = Len(wal) + 1 /\ wal'[Len(wal')] \in Record
                 /\ \A i \in DOMAIN wal : i \in DOMAIN wal' /\ wal'[i] = wal[i]
                 /\ \A i \in DOMAIN wal' : i \in DOMAIN wal \/ i = Len(wal')
<1>a. wal \in Seq(Record) /\ pending \in Seq(Item)
  BY DEF Types, TypeOK
<1> DEFINE item == Staged(ReadMessage, Outcome(ReadMessage))
           rec == RecordOf(item)
<1>1. item \in Item /\ rec \in Record
  BY StagedProperties DEF Stage
<1>2. /\ pending' = Append(pending, item) /\ Len(pending) < 1
      /\ wal' = (IF item.outcome = "apply" THEN Append(wal, rec) ELSE wal)
      /\ phase = "stage" /\ UNCHANGED <<phase, book, crashes, snap, manifest>>
  BY Zenon DEF Stage, Logged
<1> HIDE DEF item, rec
<1>3. pending = <<>> /\ pending' # <<>> /\ pending'[1] = item
  <2>1. Len(pending) = 0
    BY <1>a, <1>2
  <2>2. pending = <<>>
    BY <1>a, <2>1, EmptySeq
  <2>3. QED
    BY <1>a, <1>1, <1>2, <2>1, <2>2
<1>4. ~Unapplied
  BY <1>3 DEF Unapplied
<1>5. CASE item.outcome # "apply"
  BY <1>2, <1>4, <1>5
<1>6. CASE item.outcome = "apply"
  <2>1. wal' = Append(wal, rec)
    BY <1>2, <1>6
  <2>2. /\ Len(wal') = Len(wal) + 1 /\ wal'[Len(wal')] = rec
        /\ \A i \in DOMAIN wal : i \in DOMAIN wal' /\ wal'[i] = wal[i]
        /\ \A i \in DOMAIN wal' : i \in DOMAIN wal \/ i = Len(wal')
    BY <1>a, <1>1, <2>1
  <2>3. Unapplied'
    BY <1>2, <1>3, <1>6 DEF Unapplied
  <2>4. QED
    BY <1>1, <1>2, <1>4, <2>2, <2>3
<1>7. QED
  BY <1>5, <1>6

(* Applying one message: the books keep what they have, and the record     *)
(* that was not applied is.                                                *)
LEMMA ApplyAdds ==
    ASSUME Types, Sequential, ~batched, ApplyItem
    PROVE  /\ phase # "down" /\ UNCHANGED <<wal, phase, crashes, snap, manifest>>
           /\ \A t \in Symbols : \A k \in DOMAIN book[t] :
                 k \in DOMAIN book'[t] /\ book'[t][k] = book[t][k]
           /\ Unapplied => \E t \in Symbols :
                 /\ t = SymbolOf[wal[Len(wal)].id]
                 /\ \E k \in DOMAIN book'[t] : book'[t][k] = wal[Len(wal)]
<1>a. /\ wal \in Seq(Record) /\ pending \in Seq(Item) /\ next \in Nat \ {0}
      /\ book \in [Symbols -> Seq(Record)]
      /\ Len(pending) <= 1 /\ LastUnapplied
  BY DEF Types, TypeOK, Sequential
<1> DEFINE item == pending[1]
           s == SymbolOf[item.id]
           rec == RecordOf(item)
<1>1. /\ phase = "apply" /\ next <= Len(pending)
      /\ UNCHANGED <<wal, phase, crashes, snap, manifest>>
  BY DEF ApplyItem, disk
<1>2. next = 1 /\ item \in Item /\ pending # <<>>
  BY <1>a, <1>1
<1>3. CASE item.outcome # "apply"
  <2>1. UNCHANGED book /\ ~Unapplied
    BY <1>2, <1>3 DEF ApplyItem, Unapplied
  <2>2. QED
    BY <1>1, <2>1
<1>4. CASE item.outcome = "apply"
  <2>1. book' = [book EXCEPT ![s] = Append(book[s], rec)]
    BY <1>2, <1>4 DEF ApplyItem, MatchOrCancel
  <2>2. Unapplied
    BY <1>1, <1>2, <1>4 DEF Unapplied
  <2>3. wal # <<>> /\ rec = wal[Len(wal)] /\ rec.id = item.id
    BY <1>a, <2>2 DEF LastUnapplied, RecordOf
  <2>4. s \in Symbols /\ rec \in Record
    BY <1>a, <1>2, <2>3, DurableShardAssumption DEF Item
  <2>5. s = SymbolOf[wal[Len(wal)].id]
    BY <2>3
  <2> HIDE DEF s, rec, item
  <2>6. \A t \in Symbols : \A k \in DOMAIN book[t] :
           k \in DOMAIN book'[t] /\ book'[t][k] = book[t][k]
    BY <1>a, <2>1, <2>4
  <2>7. book'[s] = Append(book[s], rec) /\ book[s] \in Seq(Record)
    BY <1>a, <2>1, <2>4
  <2>8. Len(book[s]) + 1 \in DOMAIN book'[s] /\ book'[s][Len(book[s]) + 1] = rec
    BY <2>4, <2>7
  <2>9. QED
    BY <1>1, <2>3, <2>4, <2>5, <2>6, <2>8
<1>5. QED
  BY <1>3, <1>4

(* One message at a time, no step loses an effective record but a crash.   *)
LEMMA NextComplete ==
    ASSUME Types, WalBeforeMemory, Sequential, Snapping, Complete, ~batched, Next
    PROVE  Complete'
<1>a. /\ wal \in Seq(Record) /\ pending \in Seq(Item) /\ next \in Nat \ {0}
      /\ book \in [Symbols -> Seq(Record)]
      /\ Len(pending) <= 1 /\ LastUnapplied
  BY DEF Types, TypeOK, Sequential
<1>b. \A r \in Effective : r \in Record /\ SymbolOf[r.id] \in Symbols
  <2>1. \A r \in Effective : r \in Record
    BY <1>a DEF Effective, LogRecords
  <2>2. QED
    BY <2>1, DurableShardAssumption DEF Record
<1>1. ASSUME NEW cmd \in Command, Produce(cmd) PROVE Complete'
  <2>1. /\ Effective' = Effective
        /\ UNCHANGED <<wal, snap, book, phase, crashes, pending, next>>
    BY <1>1, EffectiveSame DEF Produce, disk
  <2>2. Unapplied' <=> Unapplied
    BY <2>1 DEF Unapplied
  <2>3. QED
    BY <2>1, <2>2 DEF Complete, Applied, LatestPath
<1>2. ASSUME Stage PROVE Complete'
  <2>1. CASE wal' = wal
    BY <1>2, <2>1, StageAdds, CompleteKept
  <2>2. CASE wal' # wal
    <3>1. LogRecords \subseteq LogRecords' /\ \A r \in LogRecords' : r \in LogRecords \/ r = wal'[Len(wal')]
      BY <1>2, <2>2, StageAdds DEF LogRecords
    <3>2. \A r \in Effective' : r \in Effective \/ r = wal'[Len(wal')]
      BY <3>1 DEF Effective
    <3>3. QED
      BY <1>2, <2>2, <3>2, StageAdds DEF Complete, Applied
  <2>3. QED
    BY <2>1, <2>2
<1>3. ASSUME CommitBatch PROVE Complete'
  <2>1. Unapplied => Unapplied'
    BY <1>3 DEF CommitBatch, Unapplied
  <2>2. QED
    BY <1>3, <2>1, CompleteKept DEF CommitBatch, Running
<1>4. ASSUME ApplyItem PROVE Complete'
  <2>1. ASSUME NEW r \in Effective, crashes = 0
        PROVE  \E k \in DOMAIN book'[SymbolOf[r.id]] : book'[SymbolOf[r.id]][k] = r
    <3>1. r \in Applied(SymbolOf[r.id]) \/ (Unapplied /\ r = wal[Len(wal)])
      BY <1>4, <2>1, ApplyAdds DEF Complete
    <3>2. QED
      BY <1>4, <1>b, <3>1, ApplyAdds DEF Applied
  <2>2. Effective' = Effective
    BY <1>4, ApplyAdds, EffectiveSame
  <2>3. QED
    BY <1>4, <2>1, <2>2, ApplyAdds DEF Complete, Applied
<1>5. ASSUME StartPublish PROVE Complete'
  <2>1. ~Unapplied
    BY <1>a, <1>5 DEF StartPublish, Unapplied
  <2>2. QED
    BY <1>5, <2>1, CompleteKept DEF StartPublish, Running, disk
<1>6. ASSUME PublishItem PROVE Complete'
  <2>1. ~Unapplied
    BY <1>6 DEF PublishItem, Unapplied
  <2>2. QED
    BY <1>6, <2>1, CompleteKept DEF PublishItem, Running
<1>7. ASSUME BatchDone PROVE Complete'
  <2>1. ~Unapplied
    BY <1>7 DEF BatchDone, Unapplied
  <2>2. QED
    BY <1>7, <2>1, CompleteKept DEF BatchDone, Running, disk
<1>8. ASSUME phase # "down", UNCHANGED <<wal, book, crashes, phase, pending, next>> PROVE Complete'
  <2>1. Unapplied => Unapplied'
    BY <1>8 DEF Unapplied
  <2>2. QED
    BY <1>8, <2>1, CompleteKept
<1>9. ASSUME HandlerFails PROVE Complete'
  BY <1>8, <1>9 DEF HandlerFails, Running, disk
<1>10. ASSUME SnapshotIfStale PROVE Complete'
  BY <1>8, <1>10 DEF SnapshotIfStale, Running, disk
<1>11. ASSUME Stop PROVE Complete'
  BY <1>8, <1>11 DEF Stop, Running, disk
<1>12. ASSUME NEW s \in Symbols, SaveSymbol(s) PROVE Complete'
  BY <1>8, <1>12 DEF SaveSymbol
<1>13. ASSUME SaveManifest PROVE Complete'
  <2>1. CASE ~snapping.exit
    BY <1>8, <1>13, <2>1 DEF SaveManifest
  <2>2. CASE snapping.exit
    <3>1. /\ phase # "down" /\ phase' = "down" /\ snapping # NotSnapping /\ snapping.todo = {}
          /\ UNCHANGED <<wal, snap, crashes>>
      BY <1>13, <2>2 DEF SaveManifest, VolatileLost
    <3>2. /\ snapping.seq = Len(wal) /\ (Unapplied => Fails(pending[1]))
          /\ \A t \in Symbols : [seq |-> snapping.seq, book |-> book[t]] \in snap[t]
      BY <3>1 DEF Snapping
    <3>3. ASSUME NEW t \in Symbols PROVE LatestPath(t).book = book[t]
      <4>1. LatestPath(t) = [seq |-> snapping.seq, book |-> book[t]]
        BY <3>2, LatestIsNewest
      <4>2. QED
        BY <4>1
    <3>4. ASSUME NEW r \in Effective, crashes = 0 PROVE r \in Applied(SymbolOf[r.id])
      <4>1. SUFFICES ASSUME Unapplied, r = wal[Len(wal)] PROVE FALSE
        BY <3>1, <3>4 DEF Complete
      <4>2. r = RecordOf(pending[1]) /\ Fails(pending[1])
        BY <1>a, <3>2, <4>1 DEF LastUnapplied
      <4>3. r.kind = "New" /\ r.id \in Invalid
        BY <4>2 DEF Fails, RecordOf
      <4>4. QED
        BY <4>3 DEF Effective
    <3>5. ASSUME NEW r \in Effective, crashes = 0
          PROVE  r \in ToSet(LatestPath(SymbolOf[r.id]).book)
      BY <1>b, <3>3, <3>4, <3>5 DEF Applied, ToSet
    <3>6. Effective' = Effective /\ \A t \in Symbols : LatestPath(t)' = LatestPath(t)
      BY <3>1, EffectiveSame DEF LatestPath
    <3>7. QED
      BY <1>b, <3>1, <3>5, <3>6 DEF Complete
  <2>3. QED
    BY <2>1, <2>2
<1>14. ASSUME Crash PROVE Complete'
  <2>1. crashes' = crashes + 1 /\ crashes \in Nat
    BY <1>14 DEF Crash, Complete
  <2>2. crashes' \in Nat /\ crashes' # 0
    BY <2>1
  <2>3. QED
    BY <2>2 DEF Complete
<1>15. ASSUME Restart PROVE Complete'
  <2>1. /\ phase = "down" /\ phase' = "stage"
        /\ book' = [t \in Symbols |-> Replayed(t)]
        /\ UNCHANGED <<wal, crashes>>
    BY <1>15 DEF Restart, Recover, disk
  <2>2. ASSUME NEW r \in Effective, crashes = 0
        PROVE  \E k \in DOMAIN book'[SymbolOf[r.id]] : book'[SymbolOf[r.id]][k] = r
    <3>1. r \in ToSet(LatestPath(SymbolOf[r.id]).book)
      BY <2>1, <2>2 DEF Complete
    <3>2. book'[SymbolOf[r.id]] = Replayed(SymbolOf[r.id])
      BY <1>b, <2>1
    <3>3. QED
      BY <1>b, <3>1, <3>2, ReplayedKeeps
  <2>3. Effective' = Effective
    BY <2>1, EffectiveSame
  <2>4. QED
    BY <2>1, <2>2, <2>3 DEF Complete, Applied
<1>16. QED
  BY <1>1, <1>2, <1>3, <1>4, <1>5, <1>6, <1>7, <1>9, <1>10, <1>11, <1>12, <1>13,
     <1>14, <1>15 DEF Next, Step, RunKafka

(* Without a crash, and one message at a time, every effective record of   *)
(* the log is in its book whenever the consumer is between two messages,   *)
(* through any number of stops, failures and restarts.                     *)
THEOREM OrderlyComplete == Spec => []OrderlyRestartsComplete
<1> DEFINE Inv == /\ Types /\ Synced /\ WalBeforeMemory
                  /\ ~batched => Sequential /\ Snapping /\ Complete
<1>1. Init => Inv
  <2> SUFFICES ASSUME Init PROVE Complete
    BY InitTypes, InitDurable, InitSequential
  <2>1. wal = <<>> /\ crashes = 0
    BY DEF Init
  <2>2. Effective = {}
    BY <2>1 DEF Effective, LogRecords
  <2>3. QED
    BY <2>1, <2>2 DEF Complete
<1>2. Inv /\ [Next]_vars => Inv'
  <2> SUFFICES ASSUME Inv, [Next]_vars PROVE Inv'
    OBVIOUS
  <2>1. (Types /\ Synced /\ WalBeforeMemory)'
    BY NextTypes, NextDurable
  <2>2. CASE UNCHANGED vars
    <3>1. UNCHANGED <<batched, wal, synced, snap, phase, book, seen, pending, next, snapping, crashes>>
      BY <2>2 DEF vars
    <3>2. ~batched => Sequential' /\ Snapping'
      BY <3>1 DEF Sequential, Snapping, LogOnce, SeenCovers, LastUnapplied, Unapplied,
                  BooksSorted, FilesSorted, Sorted, RecordOf, Fails
    <3>3. Effective' = Effective /\ (Unapplied' <=> Unapplied)
      BY <3>1, EffectiveSame DEF Unapplied
    <3>4. ~batched => Complete'
      BY <3>1, <3>3 DEF Complete, Applied, LatestPath
    <3>5. QED
      BY <2>1, <3>1, <3>2, <3>4
  <2>3. CASE Next
    <3>1. batched' = batched
      BY <2>3 DEF Next
    <3>2. QED
      BY <2>1, <2>3, <3>1, NextSequential, NextComplete
  <2>4. QED
    BY <2>2, <2>3
<1>3. Inv => OrderlyRestartsComplete
  <2> SUFFICES ASSUME Inv, crashes = 0, ~batched, AtRest, NEW r \in Effective
               PROVE  r \in Applied(SymbolOf[r.id])
    BY DEF OrderlyRestartsComplete, RecoveredBooksComplete
  <2>1. phase # "down" /\ ~Unapplied
    BY DEF AtRest, Running, Unapplied
  <2>2. QED
    BY <2>1 DEF Complete
<1>4. QED
  BY <1>1, <1>2, <1>3, PTL DEF Spec

-----------------------------------------------------------------------------
(* Cancels.                                                                *)

(* The newest label of a symbol's files.                                   *)
Label(s) == LatestPath(s).seq

(* No file is needed that is older than the manifest.  Outside a round of  *)
(* writeSnapshots the newest labels of all symbols are the same; within    *)
(* one, those of the symbols already saved are, and those of the others.   *)
LabelsKept ==
    /\ \A s \in Symbols : manifest <= Label(s)
    /\ ~torn => IF snapping = NotSnapping
                THEN \A s, t \in Symbols : Label(s) = Label(t)
                ELSE /\ \A s, t \in snapping.todo : Label(s) = Label(t)
                     /\ \A s \in Symbols \ snapping.todo : Label(s) = snapping.seq

LEMMA LabelsSame ==
    ASSUME LabelsKept, UNCHANGED <<snap, manifest, snapping, torn>>
    PROVE  LabelsKept'
<1>1. \A s : Label(s)' = Label(s)
  BY DEF Label, LatestPath
<1>2. QED
  BY <1>1 DEF LabelsKept

(* A round begins with all symbols to do.                                  *)
LEMMA LabelsStarted ==
    ASSUME LabelsKept, UNCHANGED <<snap, manifest, torn>>, snapping = NotSnapping,
           snapping' = snapping \/ snapping'.todo = Symbols
    PROVE  LabelsKept'
<1>1. \A s \in Symbols : Label(s)' = Label(s)
  BY DEF Label, LatestPath
<1>2. ~torn => \A s, t \in Symbols : Label(s) = Label(t)
  BY DEF LabelsKept
<1>3. CASE snapping' = snapping
  BY <1>3, LabelsSame
<1>4. CASE snapping'.todo = Symbols
  BY <1>1, <1>2, <1>4 DEF LabelsKept
<1>5. QED
  BY <1>3, <1>4

(* The file that is written is the newest of its symbol.                   *)
LEMMA NewestLabel ==
    ASSUME NEW saved \in SUBSET Snapshot, NEW f \in saved, \A g \in saved : g.seq <= f.seq
    PROVE  (CHOOSE g \in saved : \A h \in saved : h.seq <= g.seq).seq = f.seq
<1> DEFINE c == CHOOSE g \in saved : \A h \in saved : h.seq <= g.seq
<1>1. c \in saved /\ \A h \in saved : h.seq <= c.seq
  OBVIOUS
<1>2. c.seq \in Nat /\ f.seq \in Nat
  BY <1>1 DEF Snapshot
<1>3. c.seq <= f.seq /\ f.seq <= c.seq
  BY <1>1
<1> HIDE DEF c
<1>4. c.seq = f.seq
  BY <1>2, <1>3
<1>5. QED
  BY <1>4 DEF c

(* No step of runSequential, no crash and no restart lets a label fall     *)
(* behind, unless the crash fell between two files of a round.             *)
LEMMA NextLabels ==
    ASSUME Types, Sequential, Snapping, LabelsKept, Next
    PROVE  LabelsKept'
<1>a. manifest \in Nat /\ snap \in [Symbols -> SUBSET Snapshot]
  BY DEF Types, TypeOK
<1>1. ASSUME NEW cmd \in Command, Produce(cmd) PROVE LabelsKept'
  BY <1>1, LabelsSame DEF Produce, disk
<1>2. ASSUME Stage PROVE LabelsKept'
  BY <1>2, LabelsSame DEF Stage
<1>3. ASSUME CommitBatch PROVE LabelsKept'
  BY <1>3, LabelsSame DEF CommitBatch
<1>4. ASSUME ApplyItem PROVE LabelsKept'
  <2>1. UNCHANGED <<snap, manifest, torn>> /\ snapping = NotSnapping
    BY <1>4 DEF ApplyItem, disk, Running
  <2>2. snapping' = snapping \/ snapping'.todo = Symbols
    BY <1>4 DEF ApplyItem, StartSnapshot
  <2>3. QED
    BY <2>1, <2>2, LabelsStarted
<1>5. ASSUME StartPublish PROVE LabelsKept'
  BY <1>5, LabelsSame DEF StartPublish, disk
<1>6. ASSUME PublishItem PROVE LabelsKept'
  BY <1>6, LabelsSame DEF PublishItem
<1>7. ASSUME BatchDone PROVE LabelsKept'
  BY <1>7, LabelsSame DEF BatchDone, disk
<1>8. ASSUME HandlerFails \/ SnapshotIfStale \/ Stop PROVE LabelsKept'
  <2>1. UNCHANGED <<snap, manifest, torn>> /\ snapping = NotSnapping
    BY <1>8 DEF HandlerFails, SnapshotIfStale, Stop, disk, Running
  <2>2. snapping'.todo = Symbols
    BY <1>8 DEF HandlerFails, SnapshotIfStale, Stop, StartSnapshot
  <2>3. QED
    BY <2>1, <2>2, LabelsStarted
<1>9. ASSUME NEW s \in Symbols, SaveSymbol(s) PROVE LabelsKept'
  <2> DEFINE file == [seq |-> snapping.seq, book |-> book[s]]
             afterwards == Prune(WriteAtomic(snap[s], file))
  <2>1. /\ s \in snapping.todo /\ UNCHANGED <<manifest, torn>>
        /\ snap' = [snap EXCEPT ![s] = afterwards]
        /\ snapping' = [snapping EXCEPT !.todo = @ \ {s}]
    BY <1>9 DEF SaveSymbol
  <2>2. snapping # NotSnapping /\ snapping.seq = Len(wal)
    BY <2>1 DEF NotSnapping, Snapping
  <2>3. /\ snapping.seq \in Nat /\ snapping.todo \in SUBSET Symbols
        /\ book[s] \in Seq(Record)
        /\ snapping \in [seq : Nat, todo : SUBSET Symbols, exit : BOOLEAN]
    BY DEF Types, TypeOK
  <2>4. file \in Snapshot /\ file.seq = snapping.seq
    BY <2>3 DEF Snapshot
  <2>5. snap[s] \in SUBSET Snapshot /\ \A g \in snap[s] : g.seq <= file.seq
    BY <1>a, <2>2, <2>4 DEF Sequential, FilesSorted
  <2> HIDE DEF file
  <2>6. file \in afterwards /\ afterwards \subseteq snap[s] \cup {file}
    BY <2>4, <2>5, NewestKept DEF Prune, WriteAtomic
  <2> HIDE DEF afterwards
  <2>7. Label(s)' = file.seq
    <3>1. snap'[s] = afterwards
      BY <1>a, <2>1
    <3>2. afterwards # {} /\ afterwards \in SUBSET Snapshot /\ \A g \in afterwards : g.seq <= file.seq
      <4>1. file.seq <= file.seq
        BY <2>3, <2>4
      <4>2. QED
        BY <2>4, <2>5, <2>6, <4>1
    <3>3. (CHOOSE g \in afterwards : \A h \in afterwards : h.seq <= g.seq).seq = file.seq
      BY <2>6, <3>2, NewestLabel
    <3>4. Label(s)' = (CHOOSE g \in afterwards : \A h \in afterwards : h.seq <= g.seq).seq
      BY <3>1, <3>2 DEF Label, LatestPath
    <3>5. QED
      BY <3>3, <3>4
  <2>8. ASSUME NEW t \in Symbols, t # s PROVE Label(t)' = Label(t)
    <3>1. snap'[t] = snap[t]
      BY <1>a, <2>1, <2>8
    <3>2. QED
      BY <3>1 DEF Label, LatestPath
  <2>9. Label(s) <= file.seq
    <3>1. CASE snap[s] = {}
      <4>1. LatestPath(s) = [seq |-> 0, book |-> <<>>]
        BY <3>1, LatestPathProperties
      <4>2. QED
        BY <2>3, <2>4, <4>1 DEF Label
    <3>2. CASE snap[s] # {}
      BY <2>5, <3>2, LatestPathProperties DEF Label
    <3>3. QED
      BY <3>1, <3>2
  <2>10. ASSUME NEW t \in Symbols PROVE manifest' <= Label(t)'
    <3>1. manifest <= Label(t) /\ manifest <= Label(s)
      BY DEF LabelsKept
    <3>2. CASE t = s
      <4>1. Label(s) \in Nat /\ file.seq \in Nat
        BY <2>3, <2>4, LatestPathProperties DEF Label, Snapshot
      <4>2. manifest <= file.seq
        BY <1>a, <2>9, <3>1, <4>1
      <4>3. QED
        BY <2>1, <2>7, <3>2, <4>2
    <3>3. CASE t # s
      BY <2>1, <2>8, <3>1, <3>3
    <3>4. QED
      BY <3>2, <3>3
  <2>11. snapping'.seq = snapping.seq /\ snapping'.todo = snapping.todo \ {s}
    BY <2>1, <2>3
  <2>12. ASSUME ~torn'
         PROVE  /\ \A t, u \in snapping'.todo : Label(t)' = Label(u)'
                /\ \A t \in Symbols \ snapping'.todo : Label(t)' = snapping'.seq
    <3>1. /\ \A t, u \in snapping.todo : Label(t) = Label(u)
          /\ \A t \in Symbols \ snapping.todo : Label(t) = snapping.seq
      BY <2>1, <2>2, <2>12 DEF LabelsKept
    <3>2. \A t, u \in snapping'.todo : Label(t)' = Label(u)'
      BY <2>3, <2>8, <2>11, <3>1
    <3>3. ASSUME NEW t \in Symbols \ snapping'.todo PROVE Label(t)' = snapping'.seq
      BY <2>4, <2>7, <2>8, <2>11, <3>1
    <3>4. QED
      BY <3>2, <3>3
  <2>13. snapping' = NotSnapping => snapping'.todo = {}
    BY DEF NotSnapping
  <2>14. QED
    BY <2>10, <2>12, <2>13 DEF LabelsKept
<1>10. ASSUME SaveManifest PROVE LabelsKept'
  <2>1. /\ manifest' = snapping.seq /\ UNCHANGED <<snap, torn>>
        /\ snapping # NotSnapping /\ snapping.todo = {} /\ snapping' = NotSnapping
    BY <1>10 DEF SaveManifest, VolatileLost
  <2>2. \A s \in Symbols : Label(s)' = Label(s)
    BY <2>1 DEF Label, LatestPath
  <2>3. ASSUME NEW s \in Symbols PROVE snapping.seq <= Label(s)
    <3> DEFINE file == [seq |-> snapping.seq, book |-> book[s]]
    <3>1. file \in snap[s] /\ file.seq = snapping.seq
      BY <2>1 DEF Snapping
    <3> HIDE DEF file
    <3>2. QED
      BY <3>1, LatestPathProperties DEF Label
  <2>4. ~torn => \A s \in Symbols : Label(s) = snapping.seq
    BY <2>1 DEF LabelsKept
  <2>5. QED
    BY <2>1, <2>2, <2>3, <2>4 DEF LabelsKept
<1>11. ASSUME Crash PROVE LabelsKept'
  <2>1. /\ UNCHANGED <<snap, manifest>> /\ snapping' = NotSnapping
        /\ torn' = (torn \/ snapping.todo \notin {{}, Symbols})
    BY <1>11 DEF Crash, VolatileLost
  <2>2. \A s \in Symbols : Label(s)' = Label(s)
    BY <2>1 DEF Label, LatestPath
  <2>3. ASSUME ~torn' PROVE \A s, t \in Symbols : Label(s) = Label(t)
    <3>1. ~torn /\ (snapping.todo = {} \/ snapping.todo = Symbols)
      BY <2>1, <2>3
    <3>2. QED
      BY <3>1 DEF LabelsKept
  <2>4. QED
    BY <2>1, <2>2, <2>3 DEF LabelsKept
<1>12. ASSUME Restart PROVE LabelsKept'
  BY <1>12, LabelsSame DEF Restart, disk
<1>13. QED
  BY <1>1, <1>2, <1>3, <1>4, <1>5, <1>6, <1>7, <1>8, <1>9, <1>10, <1>11, <1>12
     DEF Next, Step, RunKafka

(* Every cancel of the log is in its book, or is the message being         *)
(* handled, and is in every file whose label covers it.                    *)
CancelIn(s, i) == i \in DOMAIN wal /\ wal[i].kind = "Cancel" /\ SymbolOf[wal[i].id] = s

CancelsKept ==
    \A s \in Symbols : \A i \in DOMAIN wal : CancelIn(s, i) =>
        /\ \A f \in snap[s] : i <= f.seq => wal[i] \in ToSet(f.book)
        /\ phase # "down" =>
              (\E k \in DOMAIN book[s] : book[s][k] = wal[i]) \/ (Unapplied /\ i = Len(wal))

(* A step that leaves the log, the books and the files alone.              *)
LEMMA CancelsSame ==
    ASSUME CancelsKept, UNCHANGED <<wal, book, snap>>,
           phase' # "down" => phase # "down", phase' # "down" /\ Unapplied => Unapplied'
    PROVE  CancelsKept'
  BY DEF CancelsKept, CancelIn

(* While the labels agree no step of runSequential, no crash and no        *)
(* restart loses a cancel.                                                 *)
LEMMA NextCancels ==
    ASSUME Types, WalBeforeMemory, Sequential, Snapping, LabelsKept, CancelsKept,
           ~batched, ~torn, Next
    PROVE  CancelsKept'
<1>a. /\ wal \in Seq(Record) /\ pending \in Seq(Item) /\ next \in Nat \ {0}
      /\ book \in [Symbols -> Seq(Record)] /\ manifest \in Nat
      /\ snap \in [Symbols -> SUBSET Snapshot]
      /\ Len(pending) <= 1 /\ LastUnapplied /\ Numbered
  BY DEF Types, TypeOK, Sequential
<1>1. ASSUME NEW cmd \in Command, Produce(cmd) PROVE CancelsKept'
  <2>1. UNCHANGED <<wal, snap, manifest, book, phase, pending, next>>
    BY <1>1 DEF Produce, disk
  <2>2. Unapplied' <=> Unapplied
    BY <2>1 DEF Unapplied
  <2>3. QED
    BY <2>1, <2>2, CancelsSame
<1>2. ASSUME Stage PROVE CancelsKept'
  <2>1. CASE wal' = wal
    BY <1>2, <2>1, StageAdds, CancelsSame
  <2>2. CASE wal' # wal
    <3>1. /\ ~Unapplied /\ Unapplied' /\ phase # "down" /\ UNCHANGED <<phase, book, snap, manifest>>
          /\ Len(wal') = Len(wal) + 1
          /\ \A i \in DOMAIN wal : i \in DOMAIN wal' /\ wal'[i] = wal[i]
          /\ \A i \in DOMAIN wal' : i \in DOMAIN wal \/ i = Len(wal')
      BY <1>2, <2>2, StageAdds
    <3>2. ASSUME NEW s \in Symbols, NEW f \in snap[s] PROVE ~(Len(wal') <= f.seq)
      <4>1. f.seq <= Len(wal) /\ f.seq \in Nat /\ Len(wal) \in Nat
        BY <1>a DEF Sequential, FilesSorted, Snapshot
      <4>2. QED
        BY <3>1, <4>1
    <3>3. ASSUME NEW s \in Symbols, NEW i \in DOMAIN wal', CancelIn(s, i)'
          PROVE  /\ \A f \in snap[s] : i <= f.seq => wal'[i] \in ToSet(f.book)
                 /\ (\E k \in DOMAIN book[s] : book[s][k] = wal'[i]) \/ i = Len(wal')
      <4>1. CASE i = Len(wal')
        BY <3>2, <4>1
      <4>2. CASE i # Len(wal')
        <5>1. i \in DOMAIN wal /\ wal'[i] = wal[i] /\ CancelIn(s, i)
          BY <3>1, <3>3, <4>2 DEF CancelIn
        <5>2. QED
          BY <3>1, <5>1 DEF CancelsKept
      <4>3. QED
        BY <4>1, <4>2
    <3>4. QED
      BY <3>1, <3>3 DEF CancelsKept
  <2>3. QED
    BY <2>1, <2>2
<1>3. ASSUME CommitBatch PROVE CancelsKept'
  <2>1. Unapplied => Unapplied'
    BY <1>3 DEF CommitBatch, Unapplied
  <2>2. QED
    BY <1>3, <2>1, CancelsSame DEF CommitBatch, Running
<1>4. ASSUME ApplyItem PROVE CancelsKept'
  <2>1. ASSUME NEW s \in Symbols, NEW i \in DOMAIN wal, CancelIn(s, i)
        PROVE  \E k \in DOMAIN book'[s] : book'[s][k] = wal[i]
    <3>1. (\E k \in DOMAIN book[s] : book[s][k] = wal[i]) \/ (Unapplied /\ i = Len(wal))
      BY <1>4, <2>1, ApplyAdds DEF CancelsKept
    <3>2. CASE \E k \in DOMAIN book[s] : book[s][k] = wal[i]
      BY <1>4, <3>2, ApplyAdds
    <3>3. CASE Unapplied /\ i = Len(wal)
      BY <1>4, <2>1, <3>3, ApplyAdds DEF CancelIn
    <3>4. QED
      BY <3>1, <3>2, <3>3
  <2>2. QED
    BY <1>4, <2>1, ApplyAdds DEF CancelsKept, CancelIn
<1>5. ASSUME StartPublish PROVE CancelsKept'
  <2>1. ~Unapplied
    BY <1>a, <1>5 DEF StartPublish, Unapplied
  <2>2. QED
    BY <1>5, <2>1, CancelsSame DEF StartPublish, Running, disk
<1>6. ASSUME PublishItem PROVE CancelsKept'
  <2>1. ~Unapplied
    BY <1>6 DEF PublishItem, Unapplied
  <2>2. QED
    BY <1>6, <2>1, CancelsSame DEF PublishItem, Running
<1>7. ASSUME BatchDone PROVE CancelsKept'
  <2>1. ~Unapplied
    BY <1>7 DEF BatchDone, Unapplied
  <2>2. QED
    BY <1>7, <2>1, CancelsSame DEF BatchDone, Running, disk
<1>8. ASSUME UNCHANGED <<wal, book, snap, manifest, phase, pending, next>> PROVE CancelsKept'
  <2>1. Unapplied => Unapplied'
    BY <1>8 DEF Unapplied
  <2>2. QED
    BY <1>8, <2>1, CancelsSame
<1>9. ASSUME HandlerFails PROVE CancelsKept'
  BY <1>8, <1>9 DEF HandlerFails, disk
<1>10. ASSUME SnapshotIfStale PROVE CancelsKept'
  BY <1>8, <1>10 DEF SnapshotIfStale, disk
<1>11. ASSUME Stop PROVE CancelsKept'
  BY <1>8, <1>11 DEF Stop, disk
<1>12. ASSUME NEW s \in Symbols, SaveSymbol(s) PROVE CancelsKept'
  <2> DEFINE file == [seq |-> snapping.seq, book |-> book[s]]
  <2>1. /\ phase # "down" /\ s \in snapping.todo
        /\ snap' = [snap EXCEPT ![s] = Prune(WriteAtomic(snap[s], file))]
        /\ UNCHANGED <<wal, book, manifest, phase, pending, next>>
    BY <1>12 DEF SaveSymbol
  <2>2. snapping # NotSnapping
    BY <2>1 DEF NotSnapping
  <2>3. snapping.seq = Len(wal) /\ (Unapplied => Fails(pending[1]))
    BY <2>2 DEF Snapping
  <2>4. file \in Snapshot /\ file.seq = Len(wal) /\ file.book = book[s]
    BY <1>a, <2>3 DEF Snapshot
  <2>5. snap[s] \in SUBSET Snapshot /\ \A g \in snap[s] : g.seq <= file.seq
    BY <1>a, <2>4 DEF Sequential, FilesSorted
  <2> HIDE DEF file
  <2>6. file \in snap'[s] /\ snap'[s] \subseteq snap[s] \cup {file}
    BY <1>a, <2>1, <2>4, <2>5, NewestKept DEF Prune, WriteAtomic
  <2>7. \A t \in Symbols : t # s => snap'[t] = snap[t]
    BY <1>a, <2>1
  <2>9. ASSUME NEW i \in DOMAIN wal, CancelIn(s, i)
        PROVE  \E k \in DOMAIN book[s] : book[s][k] = wal[i]
    <3>1. (\E k \in DOMAIN book[s] : book[s][k] = wal[i]) \/ (Unapplied /\ i = Len(wal))
      BY <2>1, <2>9 DEF CancelsKept
    <3>2. ASSUME Unapplied, i = Len(wal) PROVE FALSE
      <4>1. wal[i] = RecordOf(pending[1]) /\ pending[1].kind = "New"
        BY <1>a, <2>3, <3>2 DEF LastUnapplied, Fails
      <4>2. wal[i].kind = "New"
        BY <4>1 DEF RecordOf
      <4>3. QED
        BY <2>9, <4>2 DEF CancelIn
    <3>3. QED
      BY <3>1, <3>2
  <2>10. ASSUME NEW i \in DOMAIN wal, CancelIn(s, i), NEW f \in snap'[s], i <= f.seq
         PROVE  wal[i] \in ToSet(f.book)
    <3>1. CASE f = file
      BY <2>4, <2>9, <2>10, <3>1 DEF ToSet
    <3>2. CASE f # file
      BY <2>6, <2>10, <3>2 DEF CancelsKept
    <3>3. QED
      BY <3>1, <3>2
  <2>11. ASSUME NEW t \in Symbols, NEW i \in DOMAIN wal, CancelIn(t, i)
         PROVE  /\ \A f \in snap'[t] : i <= f.seq => wal[i] \in ToSet(f.book)
                /\ (\E k \in DOMAIN book[t] : book[t][k] = wal[i]) \/ (Unapplied /\ i = Len(wal))
    <3>1. CASE t = s
      BY <2>9, <2>10, <2>11, <3>1
    <3>2. CASE t # s
      BY <2>1, <2>7, <2>11, <3>2 DEF CancelsKept
    <3>3. QED
      BY <3>1, <3>2
  <2>12. Unapplied' <=> Unapplied
    BY <2>1 DEF Unapplied
  <2>13. QED
    BY <2>1, <2>11, <2>12 DEF CancelsKept, CancelIn
<1>13. ASSUME SaveManifest PROVE CancelsKept'
  <2>1. /\ UNCHANGED <<wal, snap>>
        /\ phase' # "down" => UNCHANGED <<phase, book, pending, next>>
    BY <1>13 DEF SaveManifest, VolatileLost
  <2>2. phase' # "down" /\ Unapplied => Unapplied'
    BY <2>1 DEF Unapplied
  <2>3. QED
    BY <2>1, <2>2 DEF CancelsKept, CancelIn
<1>14. ASSUME Crash PROVE CancelsKept'
  <2>1. PICK n \in synced..Len(wal) : wal' = SubSeq(wal, 1, n) /\ synced' = n
    BY <1>14 DEF Crash
  <2>2. synced = Len(wal)
    BY DEF Sequential
  <2>3. n = Len(wal) /\ wal' = wal
    BY <1>a, <2>1, <2>2
  <2>4. phase' = "down" /\ UNCHANGED <<snap, manifest>>
    BY <1>14 DEF Crash, VolatileLost
  <2>5. QED
    BY <2>3, <2>4 DEF CancelsKept, CancelIn
<1>15. ASSUME Restart PROVE CancelsKept'
  <2>1. /\ phase = "down" /\ phase' = "stage"
        /\ book' = [t \in Symbols |-> Replayed(t)]
        /\ UNCHANGED <<wal, snap, manifest>>
    BY <1>15 DEF Restart, Recover, disk
  <2>2. ASSUME NEW s \in Symbols, NEW i \in DOMAIN wal, CancelIn(s, i)
        PROVE  \E k \in DOMAIN Replayed(s) : Replayed(s)[k] = wal[i]
    <3> DEFINE newest == LatestPath(s)
    <3>1. newest \in Snapshot /\ newest.seq \in Nat /\ i \in Nat /\ i >= 1
      BY <1>a, LatestPathProperties DEF Snapshot
    <3>2. RecoveredOffset = newest.seq
      <4>1. RecoveredOffset \in Nat /\ newest.seq <= RecoveredOffset
        BY RecoveredOffsetProperties
      <4>2. snapping = NotSnapping
        BY <2>1 DEF Snapping
      <4>3. manifest <= newest.seq /\ \A t \in Symbols : LatestPath(t).seq = newest.seq
        BY <4>2 DEF LabelsKept, Label
      <4>4. RecoveredOffset = manifest \/ RecoveredOffset = newest.seq
        BY <4>3, RecoveredOffsetProperties
      <4>5. QED
        BY <1>a, <3>1, <4>1, <4>3, <4>4
    <3>3. CASE i <= newest.seq
      <4>1. snap[s] # {}
        <5>1. SUFFICES ASSUME snap[s] = {} PROVE newest.seq = 0
          BY <3>1, <3>3
        <5>2. newest = [seq |-> 0, book |-> <<>>]
          BY <5>1, LatestPathProperties
        <5>3. QED
          BY <5>2
      <4>2. newest \in snap[s]
        BY <4>1, LatestPathProperties
      <4>3. wal[i] \in ToSet(newest.book)
        BY <2>2, <3>3, <4>2 DEF CancelsKept
      <4>4. QED
        BY <4>3, ReplayedKeeps
    <3>4. CASE ~(i <= newest.seq)
      <4>1. PICK chosen \in SUBSET DOMAIN wal :
               /\ Extends(Replayed(s), newest.book, chosen)
               /\ \A j \in DOMAIN wal : j \in chosen <=>
                     /\ SymbolOf[wal[j].id] = s
                     /\ wal[j].seq > RecoveredOffset
                     /\ wal[j].kind = "Cancel"
        BY ReplayedProperties
      <4>2. wal[i].seq = i
        BY <1>a DEF Numbered
      <4>3. i \in chosen
        BY <2>2, <3>1, <3>2, <3>4, <4>1, <4>2 DEF CancelIn
      <4>4. newest.book \in Seq(Record) /\ Replayed(s) \in Seq(Record)
        BY <3>1, <4>1 DEF Extends, Snapshot
      <4>5. PICK k \in (Len(newest.book) + 1)..Len(Replayed(s)) : Replayed(s)[k] = wal[i]
        BY <4>1, <4>3 DEF Extends
      <4>6. k \in DOMAIN Replayed(s)
        <5> HIDE DEF newest
        <5>1. QED
          BY <4>4, <4>5
      <4>7. QED
        BY <4>5, <4>6
    <3>5. QED
      BY <3>3, <3>4
  <2>3. QED
    BY <2>1, <2>2 DEF CancelsKept, CancelIn
<1>16. QED
  BY <1>1, <1>2, <1>3, <1>4, <1>5, <1>6, <1>7, <1>9, <1>10, <1>11, <1>12, <1>13,
     <1>14, <1>15 DEF Next, Step, RunKafka

(* That a crash fell between two files is not forgotten.                   *)
LEMMA TornStays == ASSUME Next PROVE torn => torn'
  BY DEF Next, Step, RunKafka, Produce, Stage, CommitBatch, ApplyItem, StartPublish,
         PublishItem, BatchDone, HandlerFails, SnapshotIfStale, Stop, SaveSymbol,
         SaveManifest, Crash, Restart

(* In a shard that handles one message at a time, a cancelled order never  *)
(* rests again, whatever its symbols: also through crashes, restarts and   *)
(* snapshots at any time, as long as no crash fell between the files of    *)
(* two symbols.  There it may: loadSnapshots takes the largest label of    *)
(* all files, and the older book stays without the commands up to it.      *)
THEOREM CancelledForGood == Spec => []CancelSticks
<1> DEFINE Inv == /\ Types /\ Synced /\ WalBeforeMemory
                  /\ ~batched => /\ Sequential /\ Snapping /\ LabelsKept
                                 /\ ~torn => CancelsKept
<1>1. Init => Inv
  <2> SUFFICES ASSUME Init PROVE LabelsKept /\ CancelsKept
    BY InitTypes, InitDurable, InitSequential
  <2>1. CancelsKept
    BY DEF Init, CancelsKept
  <2>2. \A s \in Symbols : Label(s) = 0
    BY DEF Init, Label, LatestPath
  <2>3. manifest = 0 /\ snapping = NotSnapping
    BY DEF Init
  <2>4. QED
    BY <2>1, <2>2, <2>3 DEF LabelsKept
<1>2. Inv /\ [Next]_vars => Inv'
  <2> SUFFICES ASSUME Inv, [Next]_vars PROVE Inv'
    OBVIOUS
  <2>1. (Types /\ Synced /\ WalBeforeMemory)'
    BY NextTypes, NextDurable
  <2>2. CASE UNCHANGED vars
    <3>1. UNCHANGED <<batched, wal, synced, snap, phase, book, seen, pending, next, snapping,
                      manifest, torn>>
      BY <2>2 DEF vars
    <3>2. ~batched => Sequential' /\ Snapping'
      BY <3>1 DEF Sequential, Snapping, LogOnce, SeenCovers, LastUnapplied, Unapplied,
                  BooksSorted, FilesSorted, Sorted, RecordOf, Fails
    <3>3. Unapplied' <=> Unapplied
      BY <3>1 DEF Unapplied
    <3>4. ~batched => LabelsKept' /\ (~torn => CancelsKept')
      BY <3>1, <3>3, CancelsSame, LabelsSame
    <3>5. QED
      BY <2>1, <3>1, <3>2, <3>4
  <2>3. CASE Next
    <3>1. batched' = batched
      BY <2>3 DEF Next
    <3>2. torn => torn'
      BY <2>3, TornStays
    <3>3. ~batched => LabelsKept' /\ (~torn' => CancelsKept')
      BY <2>3, <3>2, NextLabels, NextCancels
    <3>4. QED
      BY <2>1, <2>3, <3>1, <3>3, NextSequential
  <2>4. QED
    BY <2>2, <2>3
<1>3. Inv => CancelSticks
  <2> SUFFICES ASSUME Inv, AtRest, ~batched, ~torn, NEW n \in LogRecords, NEW c \in LogRecords,
                      n.kind = "New", c.kind = "Cancel", n.id = c.id, n.seq < c.seq,
                      Resting(SymbolOf[n.id], n.id)
               PROVE  FALSE
    BY DEF CancelSticks, CancelsNeverUndone
  <2> DEFINE s == SymbolOf[n.id]
  <2>1. phase # "down" /\ ~Unapplied
    BY DEF AtRest, Running, Unapplied
  <2>2. wal \in Seq(Record) /\ book \in [Symbols -> Seq(Record)] /\ Numbered
    BY DEF Types, TypeOK
  <2>3. n \in Record /\ c \in Record
    BY <2>2 DEF LogRecords
  <2>4. s \in Symbols /\ n.seq \in Nat /\ c.seq \in Nat
    BY <2>3, DurableShardAssumption DEF Record
  <2>5. PICK j \in DOMAIN book[s] : book[s][j] = c
    <3>1. PICK m \in DOMAIN wal : wal[m] = c
      BY DEF LogRecords
    <3>2. CancelIn(s, m)
      BY <3>1 DEF CancelIn
    <3>3. QED
      BY <2>1, <2>4, <3>1, <3>2 DEF CancelsKept
  <2>6. PICK i \in DOMAIN book[s] :
           /\ book[s][i].kind = "New" /\ book[s][i].id = n.id
           /\ ~ \E k \in DOMAIN book[s] :
                   k > i /\ book[s][k].kind = "Cancel" /\ book[s][k].id = n.id
    BY DEF Resting
  <2>7. book[s][i].seq = n.seq
    <3>1. PICK m \in DOMAIN wal : wal[m] = n
      BY DEF LogRecords
    <3>2. book[s][i].seq \in DOMAIN wal /\ book[s][i] = wal[book[s][i].seq]
      BY <2>4, <2>6, BookEntries
    <3>3. book[s][i].seq = m
      BY <2>6, <3>1, <3>2 DEF Sequential, LogOnce
    <3>4. QED
      BY <2>2, <3>1, <3>3 DEF Numbered
  <2>8. i \in Nat /\ j \in Nat
    BY <2>2, <2>4
  <2>9. j > i
    <3>1. i # j /\ ~(j < i)
      BY <2>4, <2>5, <2>7 DEF Sequential, BooksSorted, Sorted
    <3>2. QED
      BY <2>8, <3>1
  <2>10. QED
    BY <2>5, <2>6, <2>9
<1>4. QED
  BY <1>1, <1>2, <1>3, PTL DEF Spec

-----------------------------------------------------------------------------
(* The log on disk (WalFile): what the reader makes of the frames.         *)

IsUpTo(seg, n) == /\ n \in 0..Len(seg)
                  /\ \A i \in 1..n : seg[i].kind = "rec"
                  /\ n = Len(seg) \/ seg[n + 1].kind # "rec"

(* The records of a segment reach up to the first frame that is torn.      *)
LEMMA RecordsReach ==
    ASSUME NEW seg \in Seq(Frame)
    PROVE  \E n \in 0..Len(seg) : IsUpTo(seg, n)
<1>1. PICK l \in Nat : l = Len(seg)
  OBVIOUS
<1> DEFINE S == {m \in Nat : m > l \/ (\A i \in 1..m : seg[i].kind = "rec")}
<1>2. SUFFICES ASSUME \A n \in 0..l : ~IsUpTo(seg, n) PROVE FALSE
  BY <1>1
<1>3. 0 \in S
  OBVIOUS
<1>4. ASSUME NEW m \in S PROVE m + 1 \in S
  <2>1. CASE m >= l
    BY <1>1, <2>1
  <2>2. CASE m < l
    <3>1. \A i \in 1..m : seg[i].kind = "rec"
      BY <1>1, <2>2
    <3>2. m \in 0..l /\ ~IsUpTo(seg, m)
      BY <1>1, <1>2, <2>2
    <3>3. seg[m + 1].kind = "rec"
      BY <1>1, <2>2, <3>1, <3>2 DEF IsUpTo
    <3>4. \A i \in 1..(m + 1) : seg[i].kind = "rec"
      BY <3>1, <3>3
    <3>5. QED
      BY <3>4
  <2>3. QED
    BY <1>1, <2>1, <2>2
<1>5. S = Nat
  <2>1. S \in SUBSET Nat
    OBVIOUS
  <2> HIDE DEF S
  <2>2. QED
    BY <1>3, <1>4, <2>1, NatSetInduction
<1>6. \A i \in 1..l : seg[i].kind = "rec"
  BY <1>1, <1>5
<1>7. IsUpTo(seg, l) /\ l \in 0..l
  BY <1>1, <1>6 DEF IsUpTo
<1>8. QED
  BY <1>2, <1>7

(* They are what RecordsOf yields.                                         *)
LEMMA RecordsAre ==
    ASSUME NEW seg \in Seq(Frame), NEW n \in 0..Len(seg), IsUpTo(seg, n)
    PROVE  RecordsOf(seg) = SubSeq(seg, 1, n)
<1>1. ASSUME NEW m \in 0..Len(seg), IsUpTo(seg, m), m # n PROVE FALSE
  <2>1. PICK l \in Nat : l = Len(seg)
    OBVIOUS
  <2>2. CASE m < n
    <3>1. m + 1 \in 1..n /\ m # l
      BY <2>1, <2>2
    <3>2. QED
      BY <1>1, <2>1, <3>1 DEF IsUpTo
  <2>3. CASE n < m
    <3>1. n + 1 \in 1..m /\ n # l
      BY <2>1, <2>3
    <3>2. QED
      BY <1>1, <2>1, <3>1 DEF IsUpTo
  <2>4. QED
    BY <1>1, <2>1, <2>2, <2>3
<1>2. n = CHOOSE m \in 0..Len(seg) : IsUpTo(seg, m)
  BY <1>1
<1>3. PICK k : k = CHOOSE m \in 0..Len(seg) : /\ \A i \in 1..m : seg[i].kind = "rec"
                                              /\ m = Len(seg) \/ seg[m + 1].kind # "rec"
  OBVIOUS
<1>4. /\ k \in 0..Len(seg)
      /\ \A i \in 1..k : seg[i].kind = "rec"
      /\ k = Len(seg) \/ seg[k + 1].kind # "rec"
  BY <1>3 DEF IsUpTo
<1>5. k = n
  BY <1>1, <1>4 DEF IsUpTo
<1>6. RecordsOf(seg) = SubSeq(seg, 1, k)
  BY <1>3, Zenon DEF RecordsOf
<1>7. QED
  BY <1>5, <1>6

AllRecords(seg) == \A i \in 1..Len(seg) : seg[i].kind = "rec"


LogEntry == {f \in Frame : f.kind = "rec"}

LEMMA RecordsType ==
    ASSUME NEW seg \in Seq(Frame)
    PROVE  RecordsOf(seg) \in Seq(LogEntry)
<1>1. PICK n \in 0..Len(seg) : IsUpTo(seg, n)
  BY RecordsReach
<1>2. PICK r : r = SubSeq(seg, 1, n)
  OBVIOUS
<1>3. r \in Seq(Frame) /\ Len(r) = n /\ \A i \in 1..n : r[i] = seg[i]
  BY <1>2
<1>4. \A i \in 1..n : r[i] \in Frame /\ r[i].kind = "rec"
  BY <1>1, <1>3 DEF IsUpTo
<1>5. r \in Seq(LogEntry)
  BY <1>3, <1>4 DEF LogEntry
<1>6. RecordsOf(seg) = r
  BY <1>1, <1>2, RecordsAre
<1>7. QED
  BY <1>5, <1>6

(* A segment without a torn frame is read to its end, and into what is     *)
(* written behind it.                                                      *)
LEMMA RecordsGrow ==
    ASSUME NEW seg \in Seq(LogEntry), NEW b \in Seq(Frame), NEW n \in 0..Len(b), IsUpTo(b, n)
    PROVE  RecordsOf(seg \o b) = seg \o SubSeq(b, 1, n)
<1>1. PICK l \in Nat : l = Len(seg)
  OBVIOUS
<1>2. PICK k \in Nat : k = Len(b)
  OBVIOUS
<1>3. PICK t : t = seg \o b
  OBVIOUS
<1>4. seg \in Seq(Frame) /\ \A i \in 1..l : seg[i].kind = "rec"
  BY <1>1 DEF LogEntry
<1>5. /\ t \in Seq(Frame) /\ Len(t) = l + k
      /\ \A i \in 1..l : t[i] = seg[i]
      /\ \A i \in (l + 1)..(l + k) : t[i] = b[i - l]
  BY <1>1, <1>2, <1>3, <1>4, Concatenated
<1>6. n \in Nat /\ n <= k
  BY <1>2
<1>7. \A i \in 1..(l + n) : t[i].kind = "rec"
  <2>1. SUFFICES ASSUME NEW i \in 1..(l + n) PROVE t[i].kind = "rec"
    OBVIOUS
  <2>2. CASE i <= l
    BY <1>4, <1>5, <2>2
  <2>3. CASE i > l
    <3>1. i \in (l + 1)..(l + k) /\ i - l \in 1..n
      BY <1>6, <2>3
    <3>2. QED
      BY <1>5, <3>1 DEF IsUpTo
  <2>4. QED
    BY <2>2, <2>3
<1>8. n # k => t[(l + n) + 1].kind # "rec"
  <2>1. SUFFICES ASSUME n # k PROVE t[(l + n) + 1].kind # "rec"
    OBVIOUS
  <2>2. (l + n) + 1 \in (l + 1)..(l + k) /\ ((l + n) + 1) - l = n + 1
    BY <1>6, <2>1
  <2>3. b[n + 1].kind # "rec"
    BY <1>2, <2>1 DEF IsUpTo
  <2>4. QED
    BY <1>5, <2>2, <2>3
<1>9. PICK m \in 0..Len(t) : m = l + n /\ IsUpTo(t, m)
  BY <1>5, <1>6, <1>7, <1>8 DEF IsUpTo
<1>10. RecordsOf(t) = SubSeq(t, 1, m)
  BY <1>5, <1>9, RecordsAre
<1>11. PICK q : q = SubSeq(b, 1, n)
  OBVIOUS
<1>12. q \in Seq(Frame) /\ Len(q) = n /\ \A i \in 1..n : q[i] = b[i]
  BY <1>2, <1>6, <1>11
<1>13. PICK r : r = seg \o q
  OBVIOUS
<1>14. /\ r \in Seq(Frame) /\ Len(r) = m
       /\ \A i \in 1..l : r[i] = seg[i]
       /\ \A i \in (l + 1)..(l + n) : r[i] = q[i - l]
  BY <1>1, <1>4, <1>9, <1>12, <1>13, Concatenated
<1>15. PICK p : p = SubSeq(t, 1, m)
  OBVIOUS
<1>16. p \in Seq(Frame) /\ Len(p) = m /\ \A i \in 1..m : p[i] = t[i]
  BY <1>5, <1>9, <1>15
<1>17. ASSUME NEW i \in 1..m PROVE p[i] = r[i]
  <2>1. CASE i <= l
    BY <1>5, <1>14, <1>16, <2>1
  <2>2. CASE i > l
    <3>1. i \in (l + 1)..(l + k) /\ i \in (l + 1)..(l + n) /\ i - l \in 1..n
      BY <1>6, <1>9, <2>2
    <3>2. QED
      BY <1>5, <1>12, <1>14, <1>16, <3>1
  <2>3. QED
    BY <1>9, <2>1, <2>2
<1>18. p = r
  BY <1>14, <1>16, <1>17
<1>19. QED
  BY <1>3, <1>10, <1>11, <1>13, <1>15, <1>18

(* Nothing written behind a torn frame is read.                            *)
LEMMA RecordsStay ==
    ASSUME NEW seg \in Seq(Frame), ~AllRecords(seg), NEW b \in Seq(Frame)
    PROVE  RecordsOf(seg \o b) = RecordsOf(seg)
<1>1. PICK n \in 0..Len(seg) : IsUpTo(seg, n)
  BY RecordsReach
<1>2. PICK l \in Nat : l = Len(seg)
  OBVIOUS
<1>3. PICK t : t = seg \o b
  OBVIOUS
<1>4. /\ t \in Seq(Frame) /\ Len(t) = l + Len(b) /\ Len(b) \in Nat
      /\ \A i \in 1..l : t[i] = seg[i]
  BY <1>2, <1>3, Concatenated
<1>5. n \in Nat /\ n < l /\ seg[n + 1].kind # "rec" /\ \A i \in 1..n : seg[i].kind = "rec"
  BY <1>1, <1>2 DEF IsUpTo, AllRecords
<1>6. n \in 0..Len(t) /\ IsUpTo(t, n)
  <2>1. n + 1 \in 1..l /\ \A i \in 1..n : i \in 1..l
    BY <1>5
  <2>2. t[n + 1].kind # "rec" /\ \A i \in 1..n : t[i].kind = "rec"
    BY <1>4, <1>5, <2>1
  <2>3. n \in 0..Len(t)
    BY <1>4, <1>5
  <2>4. QED
    BY <2>2, <2>3 DEF IsUpTo
<1>7. RecordsOf(t) = SubSeq(t, 1, n) /\ RecordsOf(seg) = SubSeq(seg, 1, n)
  BY <1>1, <1>4, <1>6, RecordsAre
<1>8. SubSeq(t, 1, n) = SubSeq(seg, 1, n)
  <2>1. PICK p : p = SubSeq(t, 1, n)
    OBVIOUS
  <2>2. PICK q : q = SubSeq(seg, 1, n)
    OBVIOUS
  <2>3. p \in Seq(Frame) /\ Len(p) = n /\ \A i \in 1..n : p[i] = t[i]
    BY <1>4, <1>6, <2>1
  <2>4. q \in Seq(Frame) /\ Len(q) = n /\ \A i \in 1..n : q[i] = seg[i]
    BY <1>2, <1>5, <2>2
  <2>5. \A i \in 1..n : p[i] = q[i]
    BY <1>4, <1>5, <2>3, <2>4
  <2>6. p = q
    BY <2>3, <2>4, <2>5
  <2>7. QED
    BY <2>1, <2>2, <2>6
<1>9. QED
  BY <1>3, <1>7, <1>8

(* Without files there is nothing to read.                                 *)
LEMMA ReadNothing == ReadFrom(<<>>) = <<>>
<1>1. PICK e : e = <<>> /\ Len(e) = 0
  <2>1. Len(<<>>) = 0
    OBVIOUS
  <2>2. QED
    BY <2>1
<1>2. PICK last : last = CHOOSE n \in 0..Len(e) :
                            /\ \A i \in 1..n - 1 : Readable(e[i])
                            /\ n = Len(e) \/ (n > 0 /\ ~Readable(e[n]))
  OBVIOUS
<1>3. \A i \in 1..0 - 1 : Readable(e[i])
  OBVIOUS
<1>4. last = 0
  BY <1>1, <1>2, <1>3
<1>5. PICK t : t = [i \in 1..last |-> RecordsOf(e[i])]
  OBVIOUS
<1>6. t = <<>> /\ Len(t) = 0
  BY <1>4, <1>5
<1>7. FlattenSeq(t) = t
  BY <1>6 DEF FlattenSeq
<1>8. ReadFrom(e) = FlattenSeq(t)
  BY <1>2, <1>5, Zenon DEF ReadFrom
<1>9. QED
  BY <1>1, <1>6, <1>7, <1>8

(* Every one of these segments can be read to its end.                     *)
Intact(f) == \A k \in 1..Len(f) : Readable(f[k])

(* Reading goes through segments that can be read to their end.            *)
LEMMA ReadIntact ==
    ASSUME NEW f \in Seq(Seq(Frame)), Intact(f)
    PROVE  ReadFrom(f) = FlattenSeq([i \in 1..Len(f) |-> RecordsOf(f[i])])
<1>1. PICK last : last = CHOOSE n \in 0..Len(f) :
                            /\ \A i \in 1..n - 1 : Readable(f[i])
                            /\ n = Len(f) \/ (n > 0 /\ ~Readable(f[n]))
  OBVIOUS
<1>2. PICK l \in Nat : l = Len(f)
  OBVIOUS
<1>3. \A i \in 1..l : Readable(f[i])
  BY <1>2 DEF Intact
<1>4. l \in 0..l /\ \A i \in 1..l - 1 : Readable(f[i])
  BY <1>3
<1>5. last \in 0..l /\ (last = l \/ (last > 0 /\ ~Readable(f[last])))
  BY <1>1, <1>2, <1>4
<1>6. last = l
  BY <1>3, <1>5
<1>7. ReadFrom(f) = FlattenSeq([i \in 1..last |-> RecordsOf(f[i])])
  BY <1>1, Zenon DEF ReadFrom
<1>8. QED
  BY <1>2, <1>6, <1>7

(* One more segment.                                                       *)
LEMMA FilesGrow ==
    ASSUME NEW u \in Seq(Seq(Frame)), NEW x \in Seq(Frame), NEW f, f = Append(u, x)
    PROVE  /\ Len(f) = Len(u) + 1 /\ f[Len(u) + 1] = x
           /\ \A i \in 1..Len(u) : f[i] = u[i]
<1>1. PICK l \in Nat : l = Len(u) /\ DOMAIN u = 1..l
  OBVIOUS
<1>2. Len(f) = l + 1 /\ f[l + 1] = x
  BY <1>1
<1>3. \A i \in 1..l : f[i] = u[i]
  BY <1>1
<1>4. QED
  BY <1>1, <1>2, <1>3

(* It goes on into the last one, whatever that is.                         *)
LEMMA ReadExtends ==
    ASSUME NEW u \in Seq(Seq(Frame)), NEW x \in Seq(Frame), Intact(u)
    PROVE  ReadFrom(Append(u, x)) = ReadFrom(u) \o RecordsOf(x)
<1>1. PICK l \in Nat : l = Len(u) /\ DOMAIN u = 1..l
  OBVIOUS
<1>2. PICK s : s = Append(u, x)
  OBVIOUS
<1>3. /\ Len(s) = l + 1 /\ s[l + 1] = x
      /\ \A i \in 1..l : s[i] = u[i] /\ u[i] \in Seq(Frame)
  BY <1>1, <1>2
<1>4. \A i \in 1..l : Readable(s[i])
  BY <1>1, <1>3 DEF Intact
<1>5. PICK last : last = CHOOSE n \in 0..Len(s) :
                            /\ \A i \in 1..n - 1 : Readable(s[i])
                            /\ n = Len(s) \/ (n > 0 /\ ~Readable(s[n]))
  OBVIOUS
<1>6. last = l + 1
  <2>1. /\ l + 1 \in 0..Len(s)
        /\ \A i \in 1..(l + 1) - 1 : Readable(s[i])
    BY <1>3, <1>4
  <2>2. /\ last \in 0..Len(s)
        /\ last = Len(s) \/ (last > 0 /\ ~Readable(s[last]))
    BY <1>3, <1>5, <2>1
  <2>3. last \in 1..l => Readable(s[last])
    BY <1>4
  <2>4. QED
    BY <1>3, <2>2, <2>3
<1>7. PICK y : y = RecordsOf(x) /\ y \in Seq(LogEntry)
  BY RecordsType
<1>8. PICK p : p = [i \in 1..l |-> RecordsOf(u[i])]
  OBVIOUS
<1>9. p \in Seq(Seq(LogEntry)) /\ Len(p) = l /\ \A i \in 1..l : p[i] = RecordsOf(u[i])
  <2>1. \A i \in 1..l : RecordsOf(u[i]) \in Seq(LogEntry)
    BY <1>3, RecordsType
  <2>2. QED
    BY <1>8, <2>1
<1>10. PICK t : t = [i \in 1..last |-> RecordsOf(s[i])]
  OBVIOUS
<1>11. t = Append(p, y)
  <2>1. PICK w : w = Append(p, y)
    OBVIOUS
  <2>2. /\ w \in Seq(Seq(LogEntry)) /\ Len(w) = l + 1 /\ w[l + 1] = y
        /\ \A i \in 1..l : w[i] = p[i]
    BY <1>7, <1>9, <2>1
  <2>3. \A i \in 1..(l + 1) : RecordsOf(s[i]) = w[i]
    <3>1. SUFFICES ASSUME NEW i \in 1..(l + 1) PROVE RecordsOf(s[i]) = w[i]
      OBVIOUS
    <3>2. CASE i \in 1..l
      BY <1>3, <1>9, <2>2, <3>2
    <3>3. CASE i = l + 1
      BY <1>3, <1>7, <2>2, <3>3
    <3>4. QED
      BY <3>2, <3>3
  <2>4. t = [i \in 1..(l + 1) |-> w[i]]
    BY <1>6, <1>10, <2>3
  <2>5. w = [i \in 1..(l + 1) |-> w[i]]
    <3>1. w = [i \in 1..Len(w) |-> w[i]]
      BY <2>2
    <3>2. QED
      BY <2>2, <3>1
  <2>6. QED
    BY <2>1, <2>4, <2>5
<1>12. ReadFrom(s) = FlattenSeq(t)
  BY <1>5, <1>10, Zenon DEF ReadFrom
<1>13. FlattenSeq(Append(p, y)) = FlattenSeq(p) \o y
  BY <1>7, <1>9, FlatAppend
<1>14. ReadFrom(u) = FlattenSeq(p)
  BY <1>1, <1>8, ReadIntact
<1>15. QED
  BY <1>2, <1>7, <1>11, <1>12, <1>13, <1>14

(* A sequence that is not empty has a last element, and others before it.  *)
LEMMA LastElement ==
    ASSUME NEW T, NEW f \in Seq(T), f # <<>>
    PROVE  \E u \in Seq(T), x \in T :
              /\ f = Append(u, x) /\ Len(f) = Len(u) + 1 /\ x = f[Len(f)]
              /\ \A k \in 1..Len(u) : u[k] = f[k]
<1>1. PICK l \in Nat : l + 1 = Len(f)
  <2>1. PICK n : n = Len(f)
    OBVIOUS
  <2>2. n \in Nat \ {0}
    BY <2>1, EmptySeq
  <2>3. n - 1 \in Nat /\ (n - 1) + 1 = n
    BY <2>2
  <2>4. QED
    BY <2>1, <2>3
<1>2. PICK x \in T : x = f[l + 1]
  BY <1>1
<1>3. PICK u : u = SubSeq(f, 1, l)
  OBVIOUS
<1>4. u \in Seq(T) /\ Len(u) = l /\ \A k \in 1..l : u[k] = f[k]
  BY <1>1, <1>3
<1>5. PICK w : w = Append(u, x)
  OBVIOUS
<1>6. /\ w \in Seq(T) /\ Len(w) = l + 1 /\ w[l + 1] = x
      /\ \A k \in 1..l : w[k] = u[k]
  BY <1>4, <1>5
<1>7. \A k \in 1..(l + 1) : w[k] = f[k]
  BY <1>2, <1>4, <1>6
<1>8. \A k \in 1..Len(f) : f[k] = w[k]
  BY <1>1, <1>7
<1>9. f = w
  BY <1>1, <1>6, <1>8, SeqEqual
<1>10. QED
  BY <1>1, <1>2, <1>4, <1>5, <1>9

(* It can be replaced.                                                     *)
IsLastReplaced(u, x, y) ==
    LET f == Append(u, x)
    IN  /\ Len(f) \in DOMAIN f /\ f[Len(f)] = x
        /\ [f EXCEPT ![Len(f)] = y] = Append(u, y)

LEMMA LastReplaced ==
    ASSUME NEW T, NEW u \in Seq(T), NEW x \in T, NEW y \in T
    PROVE  IsLastReplaced(u, x, y)
<1>0. PICK f : f = Append(u, x)
  OBVIOUS
<1>1. PICK l \in Nat : l = Len(u)
  OBVIOUS
<1>2. /\ f \in Seq(T) /\ Len(f) = l + 1 /\ DOMAIN f = 1..(l + 1) /\ f[l + 1] = x
      /\ \A k \in 1..l : f[k] = u[k]
  BY <1>0, <1>1
<1>3. PICK g : g = [f EXCEPT ![l + 1] = y]
  OBVIOUS
<1>4. g \in Seq(T) /\ Len(g) = l + 1 /\ g[l + 1] = y /\ \A k \in 1..l : g[k] = u[k]
  <2>1. l + 1 \in 1..(l + 1) /\ \A k \in 1..l : k \in 1..(l + 1) /\ k # l + 1
    OBVIOUS
  <2>2. DOMAIN g = 1..(l + 1) /\ g[l + 1] = y /\ \A k \in 1..l : g[k] = f[k]
    BY <1>2, <1>3, <2>1
  <2>3. g \in Seq(T) /\ Len(g) = l + 1
    BY <1>2, <1>3, ExceptSeq
  <2>4. QED
    BY <1>2, <2>2, <2>3
<1>5. PICK w : w = Append(u, y)
  OBVIOUS
<1>6. /\ w \in Seq(T) /\ Len(w) = l + 1 /\ w[l + 1] = y
      /\ \A k \in 1..l : w[k] = u[k]
  BY <1>1, <1>5
<1>7. \A k \in 1..(l + 1) : g[k] = w[k]
  BY <1>4, <1>6
<1>8. \A k \in 1..Len(g) : g[k] = w[k]
  BY <1>4, <1>7
<1>9. g = w
  BY <1>4, <1>6, <1>8, SeqEqual
<1>10. [f EXCEPT ![Len(f)] = y] = g
  BY <1>2, <1>3
<1>11. QED
  <2>1. Len(f) \in DOMAIN f /\ f[Len(f)] = x
    BY <1>2
  <2>2. [f EXCEPT ![Len(f)] = y] = Append(u, y)
    BY <1>5, <1>9, <1>10
  <2>3. QED
    BY <1>0, <2>1, <2>2 DEF IsLastReplaced

(* The last file, and those before it.                                     *)
LEMMA LastFile ==
    ASSUME NEW f \in Seq(Seq(Frame)), f # <<>>
    PROVE  \E u \in Seq(Seq(Frame)), x \in Seq(Frame) :
              /\ f = Append(u, x) /\ Len(f) = Len(u) + 1 /\ x = f[Len(f)]
              /\ \A k \in 1..Len(u) : u[k] = f[k]
  BY LastElement

(* Frames are written behind those of the last file.                       *)
LEMMA LastGrows ==
    ASSUME NEW u \in Seq(Seq(Frame)), NEW x \in Seq(Frame), NEW c \in Seq(Frame),
           NEW f, f = Append(u, x)
    PROVE  /\ x \o c \in Seq(Frame)
           /\ [f EXCEPT ![Len(f)] = @ \o c] = Append(u, x \o c)
<1>1. PICK y \in Seq(Frame) : y = x \o c
  BY ConcatProperties
<1>2. /\ Len(f) \in DOMAIN f /\ f[Len(f)] = x
      /\ [f EXCEPT ![Len(f)] = y] = Append(u, y)
  <2>1. IsLastReplaced(u, x, y)
    BY LastReplaced
  <2>2. QED
    BY <2>1 DEF IsLastReplaced
<1>3. QED
  BY <1>1, <1>2

WalTypes ==
    /\ files \in Seq(Seq(Frame)) /\ buf \in Seq(LogEntry)
    /\ status \in {"closed", "open", "failed"} /\ step \in {"none", "sync", "rotate"}
    /\ lastSeq \in Nat /\ appended \in 0..MaxAppends
    /\ kept \in Seq(LogEntry) /\ recovered \in Seq(LogEntry)
    /\ status = "open" => files # <<>>
    /\ status # "open" => buf = <<>>

LEMMA WalInitTypes == WalInit => WalTypes
<1>1. <<>> \in Seq(Seq(Frame)) /\ <<>> \in Seq(LogEntry)
  OBVIOUS
<1>2. QED
  BY <1>1, WalFileAssumption DEF WalInit, WalTypes

(* What is read is records.                                                *)
LEMMA ReadType ==
    ASSUME NEW f \in Seq(Seq(Frame))
    PROVE  ReadFrom(f) \in Seq(LogEntry)
<1> DEFINE Stops(n) == /\ \A i \in 1..n - 1 : Readable(f[i])
                       /\ n = Len(f) \/ (n > 0 /\ ~Readable(f[n]))
<1>1. PICK l \in Nat : l = Len(f) /\ \A i \in 1..l : f[i] \in Seq(Frame)
  OBVIOUS
<1>2. \E n \in 0..l : Stops(n)
  <2>1. SUFFICES ASSUME \A n \in 0..l : ~Stops(n) PROVE FALSE
    OBVIOUS
  <2> DEFINE S == {m \in Nat : m > l \/ (\A i \in 1..m : Readable(f[i]))}
  <2>2. 0 \in S
    OBVIOUS
  <2>3. ASSUME NEW m \in S PROVE m + 1 \in S
    <3>1. CASE m >= l
      BY <1>1, <3>1
    <3>2. CASE m < l
      <4>1. \A i \in 1..m : Readable(f[i])
        BY <1>1, <3>2
      <4>2. m + 1 \in 0..l /\ ~Stops(m + 1) /\ m + 1 > 0 /\ (m + 1) - 1 = m
        BY <1>1, <2>1, <3>2
      <4>3. Readable(f[m + 1])
        BY <4>1, <4>2
      <4>4. \A i \in 1..(m + 1) : Readable(f[i])
        BY <4>1, <4>3
      <4>5. QED
        BY <4>4
    <3>3. QED
      BY <1>1, <3>1, <3>2
  <2>4. S = Nat
    <3>1. S \in SUBSET Nat
      OBVIOUS
    <3> HIDE DEF S
    <3>2. QED
      BY <2>2, <2>3, <3>1, NatSetInduction
  <2>5. \A i \in 1..l : Readable(f[i])
    BY <1>1, <2>4
  <2>6. Stops(l) /\ l \in 0..l
    BY <1>1, <2>5
  <2>7. QED
    BY <2>1, <2>6
<1>3. PICK last : last = CHOOSE n \in 0..Len(f) :
                            /\ \A i \in 1..n - 1 : Readable(f[i])
                            /\ n = Len(f) \/ (n > 0 /\ ~Readable(f[n]))
  OBVIOUS
<1>4. last \in 0..l
  BY <1>1, <1>2, <1>3
<1>5. PICK t : t = [i \in 1..last |-> RecordsOf(f[i])]
  OBVIOUS
<1>6. t \in Seq(Seq(LogEntry))
  <2>1. \A i \in 1..last : RecordsOf(f[i]) \in Seq(LogEntry)
    BY <1>1, <1>4, RecordsType
  <2>2. QED
    BY <1>4, <1>5, <2>1
<1>7. ReadFrom(f) = FlattenSeq(t)
  BY <1>3, <1>5, Zenon DEF ReadFrom
<1>8. QED
  BY <1>6, <1>7, FlatSeq

LEMMA Parts ==
    ASSUME NEW T, NEW s \in Seq(T), NEW n \in 0..Len(s)
    PROVE  SubSeq(s, 1, n) \in Seq(T) /\ Len(SubSeq(s, 1, n)) = n
  OBVIOUS

(* What a crash leaves behind the records that are whole.                  *)
LEMMA TailOf ==
    ASSUME NEW n, NEW tail \in {<<>>} \cup (IF n < Len(buf) THEN {<<Tear(t)>> : t \in Tears} ELSE {})
    PROVE  /\ tail \in Seq(Frame) /\ 0 \in 0..Len(tail) /\ IsUpTo(tail, 0)
           /\ SubSeq(tail, 1, 0) = <<>>
           /\ tail = <<>> \/ \E t \in Tears : tail = <<Tear(t)>>
<1>1. CASE tail = <<>>
  <2>1. <<>> \in Seq(Frame) /\ Len(<<>>) = 0
    OBVIOUS
  <2>2. QED
    BY <1>1, <2>1 DEF IsUpTo
<1>2. CASE \E t \in Tears : tail = <<Tear(t)>>
  <2>1. PICK t \in Tears : tail = <<Tear(t)>>
    BY <1>2
  <2>2. PICK f \in Frame : f = Tear(t) /\ f.kind # "rec"
    <3>1. t \in {"partial", "lenOnly"} /\ 0 \in 0..MaxAppends
      BY WalFileAssumption
    <3>2. Tear(t) \in Frame /\ Tear(t).kind = t
      BY <3>1 DEF Tear, Frame
    <3>3. QED
      BY <3>1, <3>2
  <2>3. tail \in Seq(Frame) /\ Len(tail) = 1 /\ tail[1] = f
    BY <2>1, <2>2
  <2>4. QED
    BY <1>2, <2>2, <2>3 DEF IsUpTo
<1>3. QED
  BY <1>1, <1>2

(* What a step does to the last of the files u and x.                      *)
LEMMA Flushes ==
    ASSUME NEW u \in Seq(Seq(Frame)), NEW x \in Seq(Frame), files = Append(u, x),
           buf \in Seq(LogEntry)
    PROVE  Flushed = Append(u, x \o buf) /\ x \o buf \in Seq(Frame) /\ buf \in Seq(Frame)
<1>1. PICK b : b = buf /\ b \in Seq(LogEntry)
  OBVIOUS
<1>2. b \in Seq(Frame)
  BY <1>1 DEF LogEntry
<1>3. x \o b \in Seq(Frame) /\ [files EXCEPT ![Len(files)] = @ \o b] = Append(u, x \o b)
  BY <1>2, LastGrows
<1>4. QED
  BY <1>1, <1>2, <1>3 DEF Flushed

LEMMA FramesJoin ==
    ASSUME NEW x \in Seq(Frame), NEW c \in Seq(Frame), NEW z \in Seq(Frame)
    PROVE  (x \o c) \o z = x \o (c \o z)
  BY ConcatAssociative

LEMMA CrashLeaves ==
    ASSUME NEW u \in Seq(Seq(Frame)), NEW x \in Seq(Frame), files = Append(u, x),
           buf \in Seq(LogEntry), WalCrash
    PROVE  \E n \in 0..Len(buf), c \in Seq(LogEntry), tail \in Seq(Frame) :
              /\ c = SubSeq(buf, 1, n) /\ files' = Append(u, (x \o c) \o tail)
              /\ kept' = kept \o c
              /\ x \o c \in Seq(Frame) /\ (x \o c) \o tail \in Seq(Frame)
              /\ 0 \in 0..Len(tail) /\ IsUpTo(tail, 0) /\ SubSeq(tail, 1, 0) = <<>>
              /\ tail = <<>> \/ \E t \in Tears : tail = <<Tear(t)>>
<1>1. PICK n \in 0..Len(buf) :
         \E tail \in {<<>>} \cup (IF n < Len(buf) THEN {<<Tear(t)>> : t \in Tears} ELSE {}) :
            /\ files' = [files EXCEPT ![Len(files)] = @ \o SubSeq(buf, 1, n) \o tail]
            /\ kept' = kept \o SubSeq(buf, 1, n)
  BY Zenon DEF WalCrash
<1>2. PICK tail \in {<<>>} \cup (IF n < Len(buf) THEN {<<Tear(t)>> : t \in Tears} ELSE {}) :
         /\ files' = [files EXCEPT ![Len(files)] = @ \o SubSeq(buf, 1, n) \o tail]
         /\ kept' = kept \o SubSeq(buf, 1, n)
  BY <1>1
<1>3. /\ tail \in Seq(Frame) /\ 0 \in 0..Len(tail) /\ IsUpTo(tail, 0)
      /\ SubSeq(tail, 1, 0) = <<>>
      /\ tail = <<>> \/ \E t \in Tears : tail = <<Tear(t)>>
  BY TailOf
<1>4. PICK c \in Seq(LogEntry) : c = SubSeq(buf, 1, n)
  BY Parts
<1>5. c \in Seq(Frame)
  BY DEF LogEntry
<1>6. PICK y : y = c \o tail
  OBVIOUS
<1>7. y \in Seq(Frame)
  BY <1>3, <1>5, <1>6, ConcatProperties
<1>8. x \o y \in Seq(Frame) /\ [files EXCEPT ![Len(files)] = @ \o y] = Append(u, x \o y)
  BY <1>7, LastGrows
<1>9. x \o y = (x \o c) \o tail
  <2>1. (x \o c) \o tail = x \o (c \o tail)
    <3>1. tail \in Seq(Frame)
      BY <1>3
    <3>2. QED
      BY <1>5, <3>1, FramesJoin
  <2>2. QED
    BY <1>6, <2>1
<1>10. x \o c \in Seq(Frame)
  BY <1>5, ConcatProperties
<1>11. PICK f \in Seq(Seq(Frame)) : f = files
  BY AppendProperties
<1>12. files' = [f EXCEPT ![Len(f)] = (@ \o c) \o tail]
  BY <1>2, <1>4, <1>11
<1>13. Len(f) \in DOMAIN f /\ f[Len(f)] = x
  BY <1>11
<1>14. files' = [f EXCEPT ![Len(f)] = @ \o y]
  BY <1>9, <1>12, <1>13
<1>15. QED
  BY <1>2, <1>3, <1>4, <1>8, <1>9, <1>10, <1>11, <1>14

LEMMA WalNextTypes == WalTypes /\ [WalNext]_walVars => WalTypes'
<1>1. SUFFICES ASSUME WalTypes, [WalNext]_walVars PROVE WalTypes'
  OBVIOUS
<1>2. <<>> \in Seq(Frame) /\ <<>> \in Seq(LogEntry)
  OBVIOUS
<1>3. kept \o buf \in Seq(LogEntry)
  BY <1>1, ConcatProperties DEF WalTypes
<1>4. CASE OpenFileWriter
  <2>1. PICK f : f = files /\ f \in Seq(Seq(Frame))
    BY <1>1 DEF WalTypes
  <2>2. PICK g : g = SegmentsToOpen
    OBVIOUS
  <2>3. << <<>> >> \in Seq(Seq(Frame)) /\ << <<>> >> # <<>>
    BY <1>2
  <2>4. g \in Seq(Seq(Frame)) /\ g # <<>>
    BY <2>1, <2>2, <2>3 DEF SegmentsToOpen
  <2>5. files' = g /\ status' \in {"open", "failed"} /\ UNCHANGED <<buf, step, appended, kept>>
    BY <1>4, <2>2, Zenon DEF OpenFileWriter
  <2>6. lastSeq' = lastSeq \/ lastSeq' = ScanLastSeq(Last(g))
    BY <1>4, <2>2, Zenon DEF OpenFileWriter
  <2>7. ScanLastSeq(Last(g)) \in Nat
    <3>1. PICK x \in Seq(Frame) : x = Last(g)
      BY <2>4, LastFile DEF Last
    <3>2. PICK r \in Seq(LogEntry) : r = RecordsOf(x)
      BY RecordsType
    <3>3. CASE r = <<>>
      BY <3>1, <3>2, <3>3 DEF ScanLastSeq
    <3>4. CASE r # <<>>
      <4>1. r[Len(r)] \in LogEntry
        BY <3>4, LastElement
      <4>2. r[Len(r)].seq \in Nat
        BY <4>1 DEF LogEntry, Frame
      <4>3. QED
        BY <3>1, <3>2, <3>4, <4>2 DEF ScanLastSeq, Last
    <3>5. QED
      BY <3>3, <3>4
  <2>8. buf = <<>>
    BY <1>1, <1>4 DEF WalTypes, OpenFileWriter
  <2>9. recovered' = recovered \/ recovered' = ReadFrom(g)
    BY <1>4, <2>2, Zenon DEF OpenFileWriter
  <2>10. recovered' \in Seq(LogEntry)
    BY <1>1, <2>4, <2>9, ReadType DEF WalTypes
  <2>11. QED
    BY <1>1, <2>4, <2>5, <2>6, <2>7, <2>8, <2>10 DEF WalTypes
<1>5. CASE AppendNext
  <2>1. /\ status = "open" /\ appended < MaxAppends /\ appended' = appended + 1
        /\ lastSeq' = lastSeq + 1
        /\ buf' = Append(buf, LogRecord(lastSeq + 1, appended + 1))
        /\ step' \in {"sync", "rotate", "none"}
        /\ UNCHANGED <<files, status, kept, recovered>>
    BY <1>5 DEF AppendNext
  <2>2. appended' \in 0..MaxAppends /\ lastSeq' \in Nat
    BY <1>1, <2>1, WalFileAssumption DEF WalTypes
  <2>3. LogRecord(lastSeq + 1, appended + 1) \in LogEntry
    <3>1. LogRecord(lastSeq', appended') \in LogEntry
      BY <2>2 DEF LogRecord, LogEntry, Frame
    <3>2. QED
      BY <2>1, <3>1
  <2>4. buf' \in Seq(LogEntry)
    BY <1>1, <2>1, <2>3 DEF WalTypes
  <2>5. QED
    BY <1>1, <2>1, <2>2, <2>4 DEF WalTypes
<1>6. ASSUME NEW u \in Seq(Seq(Frame)), NEW x \in Seq(Frame), files = Append(u, x)
      PROVE  /\ Flushed \in Seq(Seq(Frame)) /\ Flushed # <<>>
             /\ Append(Flushed, <<>>) \in Seq(Seq(Frame)) /\ Append(Flushed, <<>>) # <<>>
  <2>1. PICK y \in Seq(Frame) : y = x \o buf /\ Flushed = Append(u, y)
    BY <1>1, <1>6, Flushes DEF WalTypes
  <2>2. PICK e \in Seq(Frame) : e = <<>>
    BY <1>2
  <2>3. Append(u, y) \in Seq(Seq(Frame)) /\ Append(u, y) # <<>>
    BY AppendProperties
  <2>4. Append(Append(u, y), e) \in Seq(Seq(Frame)) /\ Append(Append(u, y), e) # <<>>
    <3>1. PICK v \in Seq(Seq(Frame)) : v = Append(u, y)
      BY <2>3
    <3>2. Append(v, e) \in Seq(Seq(Frame)) /\ Append(v, e) # <<>>
      BY AppendProperties
    <3>3. QED
      BY <3>1, <3>2
  <2>5. QED
    BY <2>1, <2>2, <2>3, <2>4
<1>7. status = "open" => /\ Flushed \in Seq(Seq(Frame)) /\ Flushed # <<>>
                         /\ Append(Flushed, <<>>) \in Seq(Seq(Frame)) /\ Append(Flushed, <<>>) # <<>>
  <2>1. SUFFICES ASSUME status = "open"
                 PROVE  /\ Flushed \in Seq(Seq(Frame)) /\ Flushed # <<>>
                        /\ Append(Flushed, <<>>) \in Seq(Seq(Frame)) /\ Append(Flushed, <<>>) # <<>>
    OBVIOUS
  <2>2. files \in Seq(Seq(Frame)) /\ files # <<>>
    BY <1>1, <2>1 DEF WalTypes
  <2>3. PICK u \in Seq(Seq(Frame)), x \in Seq(Frame) : files = Append(u, x)
    BY <2>2, LastFile
  <2>4. QED
    BY <1>6, <2>3
<1>8. CASE Sync
  <2>1. /\ status = "open" /\ files' = Flushed /\ buf' = <<>> /\ kept' = kept \o buf
        /\ step' \in {"none", "rotate"} /\ UNCHANGED <<status, lastSeq, appended, recovered>>
    BY <1>8 DEF Sync
  <2>2. QED
    BY <1>1, <1>2, <1>3, <1>7, <2>1 DEF WalTypes
<1>9. CASE Rotate
  <2>1. /\ status = "open" /\ files' = Append(Flushed, <<>>) /\ buf' = <<>> /\ kept' = kept \o buf
        /\ step' \in {"none", "rotate"} /\ UNCHANGED <<status, lastSeq, appended, recovered>>
    BY <1>9 DEF Rotate
  <2>2. QED
    BY <1>1, <1>2, <1>3, <1>7, <2>1 DEF WalTypes
<1>10. CASE Close
  <2>1. /\ status = "open" /\ files' = Flushed /\ buf' = <<>> /\ kept' = kept \o buf
        /\ status' = "closed" /\ UNCHANGED <<step, lastSeq, appended, recovered>>
    BY <1>10 DEF Close
  <2>2. QED
    BY <1>1, <1>2, <1>3, <1>7, <2>1 DEF WalTypes
<1>11. CASE WalCrash
  <2>1. /\ status = "open" /\ buf' = <<>> /\ status' = "closed" /\ step' = "none"
        /\ UNCHANGED <<lastSeq, appended, recovered>>
    BY <1>11 DEF WalCrash
  <2>2. files \in Seq(Seq(Frame)) /\ files # <<>> /\ buf \in Seq(LogEntry)
    BY <1>1, <2>1 DEF WalTypes
  <2>3. PICK u \in Seq(Seq(Frame)), x \in Seq(Frame) : files = Append(u, x)
    BY <2>2, LastFile
  <2>4. \E y \in Seq(Frame), c \in Seq(LogEntry) : files' = Append(u, y) /\ kept' = kept \o c
    <3>1. buf \in Seq(LogEntry)
      BY <2>2
    <3>2. \E n \in 0..Len(buf), c \in Seq(LogEntry), tail \in Seq(Frame) :
              /\ c = SubSeq(buf, 1, n) /\ files' = Append(u, (x \o c) \o tail)
              /\ kept' = kept \o c
              /\ x \o c \in Seq(Frame) /\ (x \o c) \o tail \in Seq(Frame)
              /\ 0 \in 0..Len(tail) /\ IsUpTo(tail, 0) /\ SubSeq(tail, 1, 0) = <<>>
              /\ tail = <<>> \/ \E t \in Tears : tail = <<Tear(t)>>
      BY <1>11, <2>3, <3>1, CrashLeaves
    <3>3. QED
      BY <3>2, Zenon
  <2>5. PICK y \in Seq(Frame), c \in Seq(LogEntry) : files' = Append(u, y) /\ kept' = kept \o c
    BY <2>4
  <2>6. Append(u, y) \in Seq(Seq(Frame)) /\ Append(u, y) # <<>>
    BY AppendProperties
  <2>7. kept' \in Seq(LogEntry)
    BY <1>1, <2>5, ConcatProperties DEF WalTypes
  <2>8. QED
    BY <1>1, <1>2, <2>1, <2>5, <2>6, <2>7 DEF WalTypes
<1>12. CASE UNCHANGED walVars
  BY <1>1, <1>12 DEF walVars, WalTypes
<1>13. QED
  BY <1>1, <1>4, <1>5, <1>8, <1>9, <1>10, <1>11, <1>12 DEF WalNext

(* Every variable of WalFile keeps its type, and an open writer has a      *)
(* segment to write to.                                                    *)
THEOREM WalTypeCorrect == WalSpec => []WalTypeOK
<1>1. WalTypes => WalTypeOK
  <2>1. Seq(LogEntry) \subseteq Seq(Frame)
    BY DEF LogEntry
  <2>2. QED
    BY <2>1 DEF WalTypes, WalTypeOK
<1>2. QED
  BY <1>1, WalInitTypes, WalNextTypes, PTL DEF WalSpec

LEMMA WalTypesAlways == WalSpec => []WalTypes
  BY WalInitTypes, WalNextTypes, PTL DEF WalSpec

-----------------------------------------------------------------------------
(* Sequence numbers in the first segment.                                  *)

Rising(s) == \A i, j \in 1..Len(s) : i < j => s[i].seq < s[j].seq
SeqAtMost(s, n) == \A i \in 1..Len(s) : s[i].seq <= n
(* p is the beginning of s.                                                *)
Begins(p, s) == Len(p) <= Len(s) /\ \A i \in 1..Len(p) : p[i] = s[i]

LEMMA BeginsWith ==
    ASSUME NEW u \in Seq(LogEntry), NEW v \in Seq(LogEntry), NEW n \in 0..Len(v)
    PROVE  Begins(u, u \o v) /\ Begins(u \o SubSeq(v, 1, n), u \o v)
<1>1. PICK l \in Nat, k \in Nat : l = Len(u) /\ k = Len(v)
  OBVIOUS
<1>2. PICK q \in Seq(LogEntry) : q = SubSeq(v, 1, n) /\ Len(q) = n /\ \A i \in 1..n : q[i] = v[i]
  <2>1. PICK q \in Seq(LogEntry) : q = SubSeq(v, 1, n) /\ Len(q) = n
    BY Parts
  <2>2. n \in Nat /\ n <= k
    BY <1>1
  <2>3. \A i \in 1..n : q[i] = v[i]
    BY <1>1, <2>1, <2>2
  <2>4. QED
    BY <2>1, <2>3
<1>3. PICK a : a = u \o v
  OBVIOUS
<1>4. /\ Len(a) = l + k /\ \A i \in 1..l : a[i] = u[i]
      /\ \A i \in (l + 1)..(l + k) : a[i] = v[i - l]
  BY <1>1, <1>3, Concatenated
<1>5. PICK b : b = u \o q
  OBVIOUS
<1>6. /\ Len(b) = l + n /\ \A i \in 1..l : b[i] = u[i]
      /\ \A i \in (l + 1)..(l + n) : b[i] = q[i - l]
  BY <1>1, <1>2, <1>5, Concatenated
<1>7. n \in Nat /\ n <= k
  BY <1>1
<1>8. Begins(u, a)
  BY <1>1, <1>4 DEF Begins
<1>9. ASSUME NEW i \in 1..(l + n) PROVE b[i] = a[i]
  <2>1. CASE i <= l
    BY <1>4, <1>6, <2>1
  <2>2. CASE i > l
    <3>1. i \in (l + 1)..(l + k) /\ i \in (l + 1)..(l + n) /\ i - l \in 1..n
      BY <1>7, <2>2
    <3>2. QED
      BY <1>2, <1>4, <1>6, <3>1
  <2>3. QED
    BY <2>1, <2>2
<1>10. Begins(b, a)
  BY <1>4, <1>6, <1>7, <1>9 DEF Begins
<1>11. QED
  BY <1>2, <1>3, <1>5, <1>8, <1>10

LEMMA BeginningRises ==
    ASSUME NEW p \in Seq(LogEntry), NEW s \in Seq(LogEntry), Begins(p, s)
    PROVE  /\ Rising(s) => Rising(p)
           /\ \A n \in Nat : SeqAtMost(s, n) => SeqAtMost(p, n)
<1>1. PICK k \in Nat, l \in Nat : k = Len(p) /\ l = Len(s) /\ k <= l /\ \A i \in 1..k : p[i] = s[i]
  BY DEF Begins
<1>2. Rising(s) => Rising(p)
  BY <1>1 DEF Rising
<1>3. \A n \in Nat : SeqAtMost(s, n) => SeqAtMost(p, n)
  BY <1>1 DEF SeqAtMost
<1>4. QED
  BY <1>2, <1>3

(* What of a segment is read after more frames are written behind it.      *)
LEMMA ReadAfterwards ==
    ASSUME NEW x \in Seq(Frame), NEW b \in Seq(LogEntry), NEW n \in 0..Len(b),
           NEW c, c = SubSeq(b, 1, n),
           NEW tail \in Seq(Frame), 0 \in 0..Len(tail), IsUpTo(tail, 0), SubSeq(tail, 1, 0) = <<>>
    PROVE  Begins(RecordsOf((x \o c) \o tail), RecordsOf(x) \o b)
<1>1. PICK r \in Seq(LogEntry) : r = RecordsOf(x)
  BY RecordsType
<1>2. c \in Seq(LogEntry) /\ c \in Seq(Frame)
  BY Parts DEF LogEntry
<1>3. CASE AllRecords(x)
  <2>1. x \in Seq(LogEntry)
    BY <1>3 DEF AllRecords, LogEntry
  <2>2. PICK e \in Seq(Frame) : e = <<>> /\ Len(e) = 0
    <3>1. <<>> \in Seq(Frame) /\ Len(<<>>) = 0
      OBVIOUS
    <3>2. QED
      BY <3>1
  <2>3. 0 \in 0..Len(e) /\ IsUpTo(e, 0) /\ SubSeq(e, 1, 0) = e
    BY <2>2 DEF IsUpTo
  <2>4. RecordsOf(x \o e) = x \o SubSeq(e, 1, 0)
    BY <2>1, <2>2, <2>3, RecordsGrow
  <2>5. r = x
    BY <1>1, <2>2, <2>3, <2>4
  <2>6. PICK y \in Seq(LogEntry) : y = x \o c
    BY <1>2, <2>1, ConcatProperties
  <2>7. RecordsOf(y \o tail) = y \o SubSeq(tail, 1, 0)
    BY RecordsGrow
  <2>8. y \o <<>> = y
    OBVIOUS
  <2>9. RecordsOf(y \o tail) = y
    BY <2>7, <2>8
  <2>10. Begins(x \o c, x \o b)
    BY <2>1, BeginsWith
  <2>11. QED
    BY <1>1, <2>5, <2>6, <2>9, <2>10
<1>4. CASE ~AllRecords(x)
  <2>1. PICK y \in Seq(Frame) : y = c \o tail
    BY <1>2, ConcatProperties
  <2>2. RecordsOf(x \o y) = r
    BY <1>1, <1>4, RecordsStay
  <2>3. (x \o c) \o tail = x \o y
    <3>1. c \in Seq(Frame)
      BY <1>2
    <3>2. (x \o c) \o tail = x \o (c \o tail)
      BY <3>1, FramesJoin
    <3>3. QED
      BY <2>1, <3>2
  <2>4. Begins(r, r \o b)
    <3>1. 0 \in 0..Len(b)
      OBVIOUS
    <3>2. QED
      BY <3>1, BeginsWith
  <2>5. QED
    BY <1>1, <2>2, <2>3, <2>4
<1>5. QED
  BY <1>3, <1>4

(* What the first segment will hold.                                       *)
FirstSegment == RecordsOf(files[1]) \o buf

Ordered == Len(files) = 1 => /\ Rising(FirstSegment)
                             /\ status = "open" => SeqAtMost(FirstSegment, lastSeq)

LEMMA FirstType ==
    ASSUME NEW f \in Seq(Seq(Frame)), Len(f) = 1, NEW b \in Seq(LogEntry)
    PROVE  RecordsOf(f[1]) \in Seq(LogEntry) /\ RecordsOf(f[1]) \o b \in Seq(LogEntry)
<1>1. PICK x \in Seq(Frame) : x = f[1]
  <2>1. f # <<>>
    <3>1. PICK T : T = Seq(Frame)
      OBVIOUS
    <3>2. f \in Seq(T) /\ Len(f) # 0
      BY <3>1
    <3>3. QED
      BY <3>2, EmptySeq
  <2>2. QED
    BY <2>1, LastFile
<1>2. PICK r \in Seq(LogEntry) : r = RecordsOf(x)
  BY RecordsType
<1>3. r \o b \in Seq(LogEntry)
  BY ConcatProperties
<1>4. QED
  BY <1>1, <1>2, <1>3

(* The first segment is written to, then closed or left by a crash.        *)
LEMMA WrittenStaysOrdered ==
    ASSUME WalTypes, WalTypes', Ordered, status = "open", buf' = <<>>, UNCHANGED lastSeq,
           NEW u \in Seq(Seq(Frame)), NEW x \in Seq(Frame), files = Append(u, x),
           NEW n \in 0..Len(buf), NEW c, c = SubSeq(buf, 1, n),
           NEW tail \in Seq(Frame), 0 \in 0..Len(tail), IsUpTo(tail, 0), SubSeq(tail, 1, 0) = <<>>,
           files' = Append(u, (x \o c) \o tail)
    PROVE  Ordered'
<1>1. SUFFICES ASSUME Len(files') = 1
               PROVE  /\ Rising(FirstSegment')
                      /\ SeqAtMost(FirstSegment', lastSeq')
  BY DEF Ordered
<1>2. PICK b \in Seq(LogEntry) : b = buf
  BY DEF WalTypes
<1>3. PICK y : y = (x \o c) \o tail
  OBVIOUS
<1>4. y \in Seq(Frame)
  <2>1. c \in Seq(LogEntry)
    BY <1>2, Parts
  <2>2. c \in Seq(Frame)
    BY <2>1 DEF LogEntry
  <2>3. x \o c \in Seq(Frame)
    BY <2>2, ConcatProperties
  <2>4. QED
    BY <1>3, <2>3, ConcatProperties
<1>5. Len(u) = 0 /\ files'[1] = y /\ files[1] = x /\ Len(files) = 1
  <2>1. PICK l \in Nat : l = Len(u)
    OBVIOUS
  <2>2. Len(files') = l + 1 /\ files'[l + 1] = y
    BY <1>3, <1>4, <2>1, AppendProperties
  <2>3. Len(files) = l + 1 /\ files[l + 1] = x
    BY <2>1, AppendProperties
  <2>4. l = 0
    BY <1>1, <2>2
  <2>5. l + 1 = 1
    BY <2>4
  <2>6. Len(u) = 0 /\ files'[1] = y
    BY <2>1, <2>2, <2>4, <2>5, Zenon
  <2>7. files[1] = x /\ Len(files) = 1
    BY <2>3, <2>5, Zenon
  <2>8. QED
    BY <2>6, <2>7
<1>6. PICK s \in Seq(LogEntry) : s = FirstSegment
  <2>1. PICK f \in Seq(Seq(Frame)) : f = files
    BY DEF WalTypes
  <2>2. RecordsOf(f[1]) \o b \in Seq(LogEntry)
    BY <1>5, <2>1, FirstType
  <2>3. QED
    BY <1>2, <2>1, <2>2 DEF FirstSegment
<1>7. PICK p \in Seq(LogEntry) : p = RecordsOf(y)
  BY <1>4, RecordsType
<1>8. Begins(p, s)
  <2>1. c = SubSeq(b, 1, n)
    BY <1>2
  <2>2. Begins(RecordsOf((x \o c) \o tail), RecordsOf(x) \o b)
    BY <1>2, <2>1, ReadAfterwards
  <2>3. QED
    BY <1>2, <1>3, <1>5, <1>6, <1>7, <2>2 DEF FirstSegment
<1>9. FirstSegment' = p
  <2>1. p \o <<>> = p
    OBVIOUS
  <2>2. QED
    BY <1>5, <1>7, <2>1 DEF FirstSegment
<1>10. Rising(s) /\ SeqAtMost(s, lastSeq) /\ lastSeq \in Nat
  BY <1>5, <1>6 DEF Ordered, WalTypes
<1>11. Rising(p) /\ SeqAtMost(p, lastSeq)
  BY <1>8, <1>10, BeginningRises
<1>12. QED
  BY <1>9, <1>11

LEMMA OrderedNext == WalTypes /\ WalTypes' /\ Ordered /\ [WalNext]_walVars => Ordered'
<1>1. SUFFICES ASSUME WalTypes, WalTypes', Ordered, [WalNext]_walVars PROVE Ordered'
  OBVIOUS
<1>2. <<>> \in Seq(Frame) /\ <<>> \in Seq(LogEntry) /\ Len(<<>>) = 0
  OBVIOUS
<1>3. CASE OpenFileWriter
  <2>1. SUFFICES ASSUME Len(files') = 1
                 PROVE  /\ Rising(FirstSegment')
                        /\ status' = "open" => SeqAtMost(FirstSegment', lastSeq')
    BY DEF Ordered
  <2>2. /\ status = "closed" /\ files' = SegmentsToOpen /\ buf' = buf /\ buf = <<>>
        /\ status' = "open" => lastSeq' = ScanLastSeq(Last(SegmentsToOpen))
    BY <1>1, <1>3 DEF WalTypes, OpenFileWriter
  <2>3. PICK x \in Seq(Frame) : x = files'[1] /\ x = Last(SegmentsToOpen)
    <3>1. PICK f \in Seq(Seq(Frame)) : f = files'
      BY <1>1 DEF WalTypes
    <3>2. f # <<>>
      BY <2>1, <3>1, EmptySeq
    <3>3. PICK x \in Seq(Frame) : x = f[1]
      BY <2>1, <3>1, <3>2, LastFile
    <3>4. Last(SegmentsToOpen) = f[1]
      BY <2>1, <2>2, <3>1 DEF Last
    <3>5. QED
      BY <3>1, <3>3, <3>4
  <2>4. PICK r \in Seq(LogEntry) : r = RecordsOf(x)
    BY RecordsType
  <2>5. FirstSegment' = r
    <3>1. r \o <<>> = r
      OBVIOUS
    <3>2. QED
      BY <2>2, <2>3, <2>4, <3>1 DEF FirstSegment
  <2>6. Rising(r)
    <3>1. CASE files = <<>>
      <4>1. SegmentsToOpen = << <<>> >>
        BY <3>1 DEF SegmentsToOpen
      <4>2. x = <<>>
        BY <2>2, <2>3, <4>1
      <4>3. PICK n \in 0..Len(x) : IsUpTo(x, n)
        BY RecordsReach
      <4>4. r = SubSeq(x, 1, n) /\ n = 0
        <5>1. RecordsOf(x) = SubSeq(x, 1, n)
          BY <4>3, RecordsAre
        <5>2. Len(x) = 0
          BY <1>2, <4>2
        <5>3. QED
          BY <2>4, <5>1, <5>2
      <4>5. Len(r) = 0
        BY <4>4
      <4>6. QED
        BY <4>5 DEF Rising
    <3>2. CASE files # <<>>
      <4>1. files' = files
        BY <2>2, <3>2 DEF SegmentsToOpen
      <4>2. FirstSegment = r
        BY <2>2, <2>5, <4>1 DEF FirstSegment
      <4>3. QED
        BY <1>1, <2>1, <4>1, <4>2 DEF Ordered
    <3>3. QED
      BY <3>1, <3>2
  <2>7. status' = "open" => SeqAtMost(r, lastSeq')
    <3>1. SUFFICES ASSUME status' = "open" PROVE SeqAtMost(r, lastSeq')
      OBVIOUS
    <3>2. lastSeq' = ScanLastSeq(x)
      BY <2>2, <2>3, <3>1
    <3>3. CASE r = <<>>
      BY <3>3 DEF SeqAtMost
    <3>4. CASE r # <<>>
      <4>1. PICK l \in Nat : l = Len(r)
        OBVIOUS
      <4>2. lastSeq' = r[l].seq
        BY <2>4, <3>2, <3>4, <4>1 DEF ScanLastSeq, Last
      <4>3. ASSUME NEW i \in 1..l PROVE r[i].seq <= r[l].seq
        <5>1. l \in 1..l /\ (i = l \/ i < l)
          BY <4>1
        <5>2. r[i].seq \in Nat /\ r[l].seq \in Nat
          BY <4>1, <5>1 DEF LogEntry, Frame
        <5>3. i < l => r[i].seq < r[l].seq
          BY <2>6, <4>1, <5>1 DEF Rising
        <5>4. QED
          BY <5>1, <5>2, <5>3
      <4>4. QED
        BY <4>1, <4>2, <4>3 DEF SeqAtMost
    <3>5. QED
      BY <3>3, <3>4
  <2>8. QED
    BY <2>5, <2>6, <2>7
<1>4. CASE AppendNext
  <2>1. SUFFICES ASSUME Len(files') = 1
                 PROVE  /\ Rising(FirstSegment')
                        /\ status' = "open" => SeqAtMost(FirstSegment', lastSeq')
    BY DEF Ordered
  <2>2. /\ status = "open" /\ lastSeq' = lastSeq + 1 /\ UNCHANGED files
        /\ buf' = Append(buf, LogRecord(lastSeq + 1, appended + 1))
    BY <1>4 DEF AppendNext
  <2>3. PICK b \in Seq(LogEntry), c \in Seq(LogEntry) : b = buf /\ c = buf'
    BY <1>1 DEF WalTypes
  <2>4. PICK r \in Seq(LogEntry) : r = RecordsOf(files[1])
    <3>1. PICK f \in Seq(Seq(Frame)) : f = files
      BY <1>1 DEF WalTypes
    <3>2. RecordsOf(f[1]) \in Seq(LogEntry)
      BY <2>1, <2>2, <2>3, <3>1, FirstType
    <3>3. QED
      BY <3>1, <3>2
  <2>5. PICK s : s = FirstSegment
    OBVIOUS
  <2>6. PICK t : t = FirstSegment'
    OBVIOUS
  <2>7. PICK l \in Nat, k \in Nat : l = Len(r) /\ k = Len(b)
    OBVIOUS
  <2>8. /\ s \in Seq(LogEntry) /\ Len(s) = l + k /\ \A i \in 1..l : s[i] = r[i]
        /\ \A i \in (l + 1)..(l + k) : s[i] = b[i - l]
    BY <2>3, <2>4, <2>5, <2>7, Concatenated DEF FirstSegment
  <2>9. Len(c) = k + 1 /\ c[k + 1].seq = lastSeq' /\ \A i \in 1..k : c[i] = b[i]
    <3>1. PICK e : e = LogRecord(lastSeq + 1, appended + 1) /\ e.seq = lastSeq'
      BY <2>2 DEF LogRecord
    <3>2. c = Append(b, e)
      BY <2>2, <2>3, <3>1
    <3>3. QED
      BY <2>7, <3>1, <3>2
  <2>10. /\ t \in Seq(LogEntry) /\ Len(t) = l + (k + 1) /\ \A i \in 1..l : t[i] = r[i]
         /\ \A i \in (l + 1)..(l + (k + 1)) : t[i] = c[i - l]
    BY <2>2, <2>3, <2>4, <2>6, <2>7, <2>9, Concatenated DEF FirstSegment
  <2>11. ASSUME NEW i \in 1..(l + k) PROVE t[i] = s[i]
    <3>1. CASE i <= l
      BY <2>8, <2>10, <3>1
    <3>2. CASE i > l
      <4>1. i \in (l + 1)..(l + k) /\ i \in (l + 1)..(l + (k + 1)) /\ i - l \in 1..k
        BY <3>2
      <4>2. QED
        BY <2>8, <2>9, <2>10, <4>1
    <3>3. QED
      BY <3>1, <3>2
  <2>12. t[(l + k) + 1].seq = lastSeq'
    <3>1. (l + k) + 1 \in (l + 1)..(l + (k + 1)) /\ ((l + k) + 1) - l = k + 1
      OBVIOUS
    <3>2. QED
      BY <2>9, <2>10, <3>1
  <2>13. Rising(s) /\ SeqAtMost(s, lastSeq) /\ lastSeq \in Nat
    BY <1>1, <2>1, <2>2, <2>5 DEF Ordered, WalTypes
  <2>14. \A i \in 1..(l + k) : t[i].seq \in Nat /\ t[i].seq < lastSeq'
    <3>1. SUFFICES ASSUME NEW i \in 1..(l + k) PROVE t[i].seq \in Nat /\ t[i].seq < lastSeq'
      OBVIOUS
    <3>2. s[i].seq <= lastSeq
      BY <2>8, <2>13 DEF SeqAtMost
    <3>3. s[i].seq \in Nat
      BY <2>8 DEF LogEntry, Frame
    <3>4. QED
      BY <2>2, <2>11, <2>13, <3>2, <3>3
  <2>15. Rising(t)
    <3>1. SUFFICES ASSUME NEW i \in 1..(l + (k + 1)), NEW j \in 1..(l + (k + 1)), i < j
                   PROVE  t[i].seq < t[j].seq
      BY <2>10 DEF Rising
    <3>2. i \in 1..(l + k) /\ (j \in 1..(l + k) \/ j = (l + k) + 1)
      BY <3>1
    <3>3. CASE j \in 1..(l + k)
      <4>1. s[i].seq < s[j].seq
        BY <2>8, <2>13, <3>1, <3>2, <3>3 DEF Rising
      <4>2. QED
        BY <2>11, <3>2, <3>3, <4>1
    <3>4. CASE j = (l + k) + 1
      BY <2>12, <2>14, <3>2, <3>4
    <3>5. QED
      BY <3>2, <3>3, <3>4
  <2>16. SeqAtMost(t, lastSeq')
    <3>1. SUFFICES ASSUME NEW i \in 1..(l + (k + 1)) PROVE t[i].seq <= lastSeq'
      BY <2>10 DEF SeqAtMost
    <3>2. i \in 1..(l + k) \/ i = (l + k) + 1
      OBVIOUS
    <3>3. lastSeq' \in Nat
      BY <2>2, <2>13
    <3>4. CASE i \in 1..(l + k)
      <4>1. t[i].seq \in Nat /\ t[i].seq < lastSeq'
        BY <2>14, <3>4
      <4>2. QED
        BY <3>3, <4>1
    <3>5. CASE i = (l + k) + 1
      BY <2>12, <3>3, <3>5
    <3>6. QED
      BY <3>2, <3>4, <3>5
  <2>17. QED
    BY <2>6, <2>15, <2>16
<1>5. CASE Rotate
  <2>1. files' = Append(Flushed, <<>>) /\ status = "open"
    BY <1>5 DEF Rotate
  <2>2. files \in Seq(Seq(Frame)) /\ files # <<>> /\ buf \in Seq(LogEntry)
    BY <1>1, <2>1 DEF WalTypes
  <2>3. PICK u \in Seq(Seq(Frame)), x \in Seq(Frame) : files = Append(u, x)
    BY <2>2, LastFile
  <2>4. PICK y \in Seq(Frame) : Flushed = Append(u, y)
    BY <2>2, <2>3, Flushes
  <2>5. PICK e \in Seq(Frame) : e = <<>>
    BY <1>2
  <2>6. PICK l \in Nat : l = Len(u)
    OBVIOUS
  <2>7. PICK f \in Seq(Seq(Frame)) : f = Append(u, y) /\ Len(f) = l + 1
    BY <2>6, AppendProperties
  <2>8. Len(Append(f, e)) = (l + 1) + 1
    BY <2>7, AppendProperties
  <2>9. Len(files') # 1
    BY <2>1, <2>4, <2>5, <2>7, <2>8
  <2>10. QED
    BY <2>9 DEF Ordered
<1>6. CASE Sync \/ Close
  <2>1. files' = Flushed /\ buf' = <<>> /\ UNCHANGED lastSeq /\ status = "open"
    BY <1>6 DEF Sync, Close
  <2>2. files \in Seq(Seq(Frame)) /\ files # <<>> /\ buf \in Seq(LogEntry)
    BY <1>1, <2>1 DEF WalTypes
  <2>3. PICK u \in Seq(Seq(Frame)), x \in Seq(Frame) : files = Append(u, x)
    BY <2>2, LastFile
  <2>4. PICK b \in Seq(Frame), y \in Seq(Frame) : b = buf /\ y = x \o b /\ files' = Append(u, y)
    <3>1. Flushed = Append(u, x \o buf) /\ x \o buf \in Seq(Frame) /\ buf \in Seq(Frame)
      BY <2>2, <2>3, Flushes
    <3>2. QED
      BY <2>1, <3>1
  <2>5. PICK n \in 0..Len(buf) : n = Len(buf)
    BY <2>2
  <2>6. b = SubSeq(buf, 1, n)
    BY <2>2, <2>4, <2>5
  <2>7. PICK e \in Seq(Frame) : e = <<>> /\ Len(e) = 0
    BY <1>2
  <2>8. 0 \in 0..Len(e) /\ IsUpTo(e, 0) /\ SubSeq(e, 1, 0) = <<>>
    BY <2>7 DEF IsUpTo
  <2>9. (x \o b) \o e = y
    BY <2>4, <2>7
  <2>10. files' = Append(u, (x \o b) \o e)
    BY <2>4, <2>9
  <2>11. QED
    BY <1>1, <2>1, <2>3, <2>6, <2>8, <2>10, WrittenStaysOrdered
<1>7. CASE WalCrash
  <2>1. buf' = <<>> /\ UNCHANGED lastSeq /\ status = "open"
    BY <1>7 DEF WalCrash
  <2>2. files \in Seq(Seq(Frame)) /\ files # <<>> /\ buf \in Seq(LogEntry)
    BY <1>1, <2>1 DEF WalTypes
  <2>3. PICK u \in Seq(Seq(Frame)), x \in Seq(Frame) : files = Append(u, x)
    BY <2>2, LastFile
  <2>4. PICK n \in 0..Len(buf), c \in Seq(LogEntry), tail \in Seq(Frame) :
            /\ c = SubSeq(buf, 1, n) /\ files' = Append(u, (x \o c) \o tail)
            /\ 0 \in 0..Len(tail) /\ IsUpTo(tail, 0) /\ SubSeq(tail, 1, 0) = <<>>
    <3>1. buf \in Seq(LogEntry)
      BY <2>2
    <3>2. \E n \in 0..Len(buf), c \in Seq(LogEntry), tail \in Seq(Frame) :
              /\ c = SubSeq(buf, 1, n) /\ files' = Append(u, (x \o c) \o tail)
              /\ kept' = kept \o c
              /\ x \o c \in Seq(Frame) /\ (x \o c) \o tail \in Seq(Frame)
              /\ 0 \in 0..Len(tail) /\ IsUpTo(tail, 0) /\ SubSeq(tail, 1, 0) = <<>>
              /\ tail = <<>> \/ \E t \in Tears : tail = <<Tear(t)>>
      BY <1>7, <2>3, <3>1, CrashLeaves
    <3>3. PICK n \in 0..Len(buf), c \in Seq(LogEntry), tail \in Seq(Frame) :
              /\ c = SubSeq(buf, 1, n) /\ files' = Append(u, (x \o c) \o tail)
              /\ 0 \in 0..Len(tail) /\ IsUpTo(tail, 0) /\ SubSeq(tail, 1, 0) = <<>>
      BY <3>2, Zenon
    <3>4. QED
      BY <3>3, Zenon
  <2>5. QED
    BY <1>1, <2>1, <2>3, <2>4, WrittenStaysOrdered
<1>8. CASE UNCHANGED walVars
  BY <1>1, <1>8 DEF walVars, Ordered, FirstSegment
<1>9. QED
  BY <1>1, <1>3, <1>4, <1>5, <1>6, <1>7, <1>8 DEF WalNext

(* Sequence numbers increase along the log as long as it is in its first   *)
(* segment, whatever a crash leaves of its last frames and wherever the    *)
(* log is closed and opened again (scanLastSeq).                           *)
THEOREM WalSeqIncreasing == WalSpec => []SeqIncreasingBeforeRotation
<1>1. WalInit => Ordered
  <2>1. Len(<<>>) = 0
    OBVIOUS
  <2>2. QED
    BY <2>1 DEF WalInit, Ordered
<1>2. WalTypes /\ Ordered => SeqIncreasingBeforeRotation
  <2>1. SUFFICES ASSUME WalTypes, Ordered, Len(files) <= 1 PROVE SeqStrictlyIncreasing
    BY DEF SeqIncreasingBeforeRotation
  <2>2. PICK f \in Seq(Seq(Frame)) : f = files
    BY <2>1 DEF WalTypes
  <2>3. PICK b \in Seq(LogEntry) : b = buf
    BY <2>1 DEF WalTypes
  <2>4. CASE f = <<>>
    <3>1. ReadFrom(files) = <<>> /\ Len(<<>>) = 0
      BY <2>2, <2>4, ReadNothing
    <3>2. QED
      BY <3>1 DEF SeqStrictlyIncreasing
  <2>5. CASE f # <<>>
    <3>1. PICK u \in Seq(Seq(Frame)), x \in Seq(Frame) :
               f = Append(u, x) /\ Len(f) = Len(u) + 1 /\ x = f[Len(f)]
      BY <2>5, LastFile
    <3>2. Len(u) = 0 /\ Len(f) = 1
      BY <2>1, <2>2, <3>1
    <3>3. u = <<>> /\ Intact(u)
      <4>1. u = <<>>
        BY <3>2, EmptySeq
      <4>2. QED
        BY <3>2, <4>1 DEF Intact
    <3>4. PICK r \in Seq(LogEntry) : r = RecordsOf(x)
      BY RecordsType
    <3>5. ReadFrom(f) = ReadFrom(u) \o r
      BY <3>1, <3>3, <3>4, ReadExtends
    <3>6. ReadFrom(u) = <<>>
      BY <3>3, ReadNothing
    <3>7. ReadFrom(files) = r
      <4>1. <<>> \o r = r
        OBVIOUS
      <4>2. QED
        BY <2>2, <3>5, <3>6, <4>1
    <3>8. PICK s \in Seq(LogEntry) : s = r \o b
      BY ConcatProperties
    <3>9. Rising(s)
      BY <2>1, <2>2, <2>3, <3>1, <3>2, <3>4, <3>8 DEF Ordered, FirstSegment
    <3>10. Begins(r, s)
      <4>1. 0 \in 0..Len(b)
        OBVIOUS
      <4>2. QED
        BY <3>8, <4>1, BeginsWith
    <3>11. Rising(r)
      BY <3>9, <3>10, BeginningRises
    <3>12. QED
      BY <3>7, <3>11 DEF Rising, SeqStrictlyIncreasing
  <2>6. QED
    BY <2>4, <2>5
<1>3. QED
  BY <1>1, <1>2, OrderedNext, WalTypesAlways, PTL DEF WalSpec

-----------------------------------------------------------------------------
(* The files implement DurableLog.                                         *)

LEMMA WholeIsRecords ==
    ASSUME NEW x \in Seq(Frame), AllRecords(x)
    PROVE  x \in Seq(LogEntry)
  BY DEF AllRecords, LogEntry

LEMMA WholeFile ==
    ASSUME NEW x \in Seq(LogEntry)
    PROVE  RecordsOf(x) = x /\ AllRecords(x) /\ Readable(x) /\ x \in Seq(Frame)
<1>1. PICK e \in Seq(Frame) : e = <<>> /\ Len(e) = 0
  <2>1. <<>> \in Seq(Frame) /\ Len(<<>>) = 0
    OBVIOUS
  <2>2. QED
    BY <2>1
<1>2. 0 \in 0..Len(e) /\ IsUpTo(e, 0) /\ SubSeq(e, 1, 0) = e
  BY <1>1 DEF IsUpTo
<1>3. RecordsOf(x \o e) = x \o SubSeq(e, 1, 0)
  BY <1>2, RecordsGrow
<1>4. x \o e = x
  BY <1>1
<1>5. RecordsOf(x) = x
  BY <1>2, <1>3, <1>4
<1>6. AllRecords(x) /\ Readable(x)
  BY DEF AllRecords, Readable, LogEntry
<1>7. x \in Seq(Frame)
  BY DEF LogEntry
<1>8. QED
  BY <1>5, <1>6, <1>7

LEMMA EntriesJoin ==
    ASSUME NEW x \in Seq(LogEntry), NEW c \in Seq(LogEntry), NEW z \in Seq(LogEntry)
    PROVE  (x \o c) \o z = x \o (c \o z)
  BY ConcatAssociative

(* Records c, and behind them nothing or a torn frame, are written behind  *)
(* the frames x: what can still be read to its end is read with c added.   *)
LEMMA Written ==
    ASSUME NEW x \in Seq(Frame), NEW c \in Seq(LogEntry), NEW tail \in Seq(Frame),
           tail = <<>> \/ \E t \in Tears : tail = <<Tear(t)>>,
           0 \in 0..Len(tail), IsUpTo(tail, 0), SubSeq(tail, 1, 0) = <<>>,
           Readable((x \o c) \o tail)
    PROVE  Readable(x) /\ RecordsOf((x \o c) \o tail) = RecordsOf(x) \o c
<1>1. PICK l \in Nat, k \in Nat, m \in Nat : l = Len(x) /\ k = Len(c) /\ m = Len(tail)
  OBVIOUS
<1>2. c \in Seq(Frame)
  BY WholeFile
<1>3. PICK y : y = x \o c
  OBVIOUS
<1>4. PICK z : z = y \o tail
  OBVIOUS
<1>5. y \in Seq(Frame) /\ Len(y) = l + k /\ \A i \in 1..l : y[i] = x[i]
  BY <1>1, <1>2, <1>3, Concatenated
<1>6. z \in Seq(Frame) /\ Len(z) = (l + k) + m /\ \A i \in 1..(l + k) : z[i] = y[i]
  <2>1. PICK n \in Nat : n = l + k
    OBVIOUS
  <2>2. z \in Seq(Frame) /\ Len(z) = n + m /\ \A i \in 1..n : z[i] = y[i]
    BY <1>1, <1>4, <1>5, <2>1, Concatenated
  <2>3. QED
    BY <2>1, <2>2
<1>7. DOMAIN z = 1..((l + k) + m)
  BY <1>6
<1>8. \A i \in 1..((l + k) + m) : z[i].kind = "rec" \/ (z[i].kind = "lenOnly" /\ i = (l + k) + m)
  <2>1. Readable(z) /\ Len(z) = (l + k) + m
    BY <1>3, <1>4, <1>6
  <2>2. QED
    BY <1>7, <2>1 DEF Readable
<1>9. ASSUME NEW i \in 1..l PROVE z[i] = x[i] /\ i \in 1..((l + k) + m)
  <2>1. i \in 1..(l + k) /\ i \in 1..((l + k) + m)
    OBVIOUS
  <2>2. QED
    BY <1>5, <1>6, <2>1
<1>10. CASE k + m = 0
  <2>1. k = 0 /\ m = 0
    BY <1>10
  <2>2. c = <<>> /\ tail = <<>>
    BY <1>1, <2>1, EmptySeq
  <2>3. (x \o c) \o tail = x
    BY <2>2
  <2>4. RecordsOf(x) \o c = RecordsOf(x)
    <3>1. PICK r \in Seq(LogEntry) : r = RecordsOf(x)
      BY RecordsType
    <3>2. r \o <<>> = r
      OBVIOUS
    <3>3. QED
      BY <2>2, <3>1, <3>2
  <2>5. QED
    BY <2>3, <2>4
<1>11. CASE k + m > 0
  <2>1. \A i \in 1..l : i # (l + k) + m
    BY <1>11
  <2>2. AllRecords(x)
    BY <1>1, <1>8, <1>9, <2>1 DEF AllRecords
  <2>3. PICK v \in Seq(LogEntry) : v = x
    BY <2>2, WholeIsRecords
  <2>4. PICK w \in Seq(LogEntry) : w = v \o c
    BY ConcatProperties
  <2>5. RecordsOf(w \o tail) = w \o SubSeq(tail, 1, 0)
    BY RecordsGrow
  <2>6. w \o <<>> = w
    OBVIOUS
  <2>7. RecordsOf(v) = v /\ Readable(v)
    BY WholeFile
  <2>8. QED
    BY <2>3, <2>4, <2>5, <2>6, <2>7
<1>12. QED
  BY <1>10, <1>11

(* While the segments can be read to their end, what is read is what was   *)
(* kept.                                                                   *)
KeptRead == Intact(files) => ReadFrom(files) = kept

LEMMA ReadWritten ==
    ASSUME NEW u \in Seq(Seq(Frame)), NEW x \in Seq(Frame), NEW c \in Seq(LogEntry),
           NEW tail \in Seq(Frame),
           tail = <<>> \/ \E t \in Tears : tail = <<Tear(t)>>,
           0 \in 0..Len(tail), IsUpTo(tail, 0), SubSeq(tail, 1, 0) = <<>>,
           files = Append(u, x), KeptRead, Intact(Append(u, (x \o c) \o tail))
    PROVE  /\ ReadFrom(Append(u, (x \o c) \o tail)) = kept \o c
           /\ (x \o c) \o tail \in Seq(Frame)
<1>1. PICK z : z = (x \o c) \o tail
  OBVIOUS
<1>2. z \in Seq(Frame)
  <2>1. PICK y \in Seq(Frame) : y = x \o c
    BY WholeFile, ConcatProperties
  <2>2. QED
    BY <1>1, <2>1, ConcatProperties
<1>3. PICK l \in Nat : l = Len(u)
  OBVIOUS
<1>4. PICK f : f = Append(u, z) /\ Len(f) = l + 1 /\ f[l + 1] = z /\ \A i \in 1..l : f[i] = u[i]
  <2>1. PICK f : f = Append(u, z)
    OBVIOUS
  <2>2. /\ Len(f) = Len(u) + 1 /\ f[Len(u) + 1] = z
        /\ \A i \in 1..Len(u) : f[i] = u[i]
    BY <1>2, <2>1, FilesGrow
  <2>3. QED
    BY <1>3, <2>1, <2>2
<1>5. Intact(f)
  BY <1>1, <1>4
<1>6. Readable(z) /\ Intact(u)
  <2>1. \A i \in 1..(l + 1) : Readable(f[i])
    BY <1>4, <1>5 DEF Intact
  <2>2. l + 1 \in 1..(l + 1) /\ \A i \in 1..l : i \in 1..(l + 1)
    OBVIOUS
  <2>3. QED
    BY <1>3, <1>4, <2>1, <2>2 DEF Intact
<1>7. Readable(x) /\ RecordsOf(z) = RecordsOf(x) \o c
  BY <1>1, <1>6, Written
<1>8. Intact(files)
  <2>1. Len(files) = l + 1 /\ files[l + 1] = x /\ \A i \in 1..l : files[i] = u[i]
    BY <1>3, FilesGrow
  <2>2. ASSUME NEW i \in 1..(l + 1) PROVE Readable(files[i])
    <3>1. CASE i \in 1..l
      BY <1>3, <1>6, <2>1, <3>1 DEF Intact
    <3>2. CASE i = l + 1
      BY <1>7, <2>1, <3>2
    <3>3. i \in 1..l \/ i = l + 1
      OBVIOUS
    <3>4. QED
      BY <3>1, <3>2, <3>3
  <2>3. QED
    BY <2>1, <2>2 DEF Intact
<1>9. PICK p \in Seq(LogEntry), r \in Seq(LogEntry) : p = ReadFrom(u) /\ r = RecordsOf(x)
  BY ReadType, RecordsType
<1>10. kept = p \o r
  <2>1. ReadFrom(Append(u, x)) = ReadFrom(u) \o RecordsOf(x)
    BY <1>6, ReadExtends
  <2>2. QED
    BY <1>8, <1>9, <2>1 DEF KeptRead
<1>11. ReadFrom(f) = p \o (r \o c)
  BY <1>2, <1>4, <1>6, <1>7, <1>9, ReadExtends
<1>12. (p \o r) \o c = p \o (r \o c)
  BY EntriesJoin
<1>13. QED
  BY <1>1, <1>2, <1>4, <1>10, <1>11, <1>12

(* Everything in the buffer goes to the last file.                         *)
LEMMA AllWritten ==
    ASSUME WalTypes, KeptRead, status = "open"
    PROVE  /\ Flushed \in Seq(Seq(Frame))
           /\ Intact(Flushed) => ReadFrom(Flushed) = kept \o buf
<1>1. files \in Seq(Seq(Frame)) /\ files # <<>>
  BY DEF WalTypes
<1>2. PICK u \in Seq(Seq(Frame)), x \in Seq(Frame) : files = Append(u, x)
  BY <1>1, LastFile
<1>3. PICK b \in Seq(LogEntry) : b = buf
  BY DEF WalTypes
<1>4. PICK y \in Seq(Frame) : y = x \o b /\ Flushed = Append(u, y)
  BY <1>2, <1>3, Flushes
<1>5. PICK e \in Seq(Frame) : e = <<>> /\ Len(e) = 0
  <2>1. <<>> \in Seq(Frame) /\ Len(<<>>) = 0
    OBVIOUS
  <2>2. QED
    BY <2>1
<1>6. 0 \in 0..Len(e) /\ IsUpTo(e, 0) /\ SubSeq(e, 1, 0) = <<>>
  BY <1>5 DEF IsUpTo
<1>7. (x \o b) \o e = y
  BY <1>4, <1>5
<1>8. Flushed \in Seq(Seq(Frame))
  BY <1>4, AppendProperties
<1>9. ASSUME Intact(Flushed) PROVE ReadFrom(Flushed) = kept \o buf
  <2>1. Intact(Append(u, (x \o b) \o e))
    BY <1>4, <1>7, <1>9
  <2>2. ReadFrom(Append(u, (x \o b) \o e)) = kept \o b
    BY <1>2, <1>5, <1>6, <2>1, ReadWritten
  <2>3. QED
    BY <1>3, <1>4, <1>7, <2>2
<1>10. QED
  BY <1>8, <1>9

LEMMA KeptReadNext == WalTypes /\ WalTypes' /\ KeptRead /\ [WalNext]_walVars => KeptRead'
<1>1. SUFFICES ASSUME WalTypes, WalTypes', KeptRead, [WalNext]_walVars PROVE KeptRead'
  OBVIOUS
<1>2. PICK e \in Seq(LogEntry) : e = <<>>
  <2>1. <<>> \in Seq(LogEntry)
    OBVIOUS
  <2>2. QED
    BY <2>1
<1>3. RecordsOf(e) = e /\ e \in Seq(Frame)
  BY WholeFile
<1>4. CASE OpenFileWriter
  <2>1. files' = SegmentsToOpen /\ kept' = kept
    BY <1>4, Zenon DEF OpenFileWriter
  <2>2. CASE files # <<>>
    BY <1>1, <2>1, <2>2 DEF KeptRead, SegmentsToOpen
  <2>3. CASE files = <<>>
    <3>1. PICK u \in Seq(Seq(Frame)) : u = <<>> /\ Len(u) = 0
      <4>1. <<>> \in Seq(Seq(Frame)) /\ Len(<<>>) = 0
        OBVIOUS
      <4>2. QED
        BY <4>1
    <3>2. Intact(u)
      BY <3>1 DEF Intact
    <3>3. ReadFrom(u) = e /\ kept = e
      BY <1>1, <1>2, <2>3, <3>1, <3>2, ReadNothing DEF KeptRead
    <3>4. ReadFrom(Append(u, e)) = ReadFrom(u) \o RecordsOf(e)
      BY <1>3, <3>2, ReadExtends
    <3>5. files' = Append(u, e)
      <4>1. Append(<<>>, <<>>) = << <<>> >>
        OBVIOUS
      <4>2. QED
        BY <1>2, <2>1, <2>3, <3>1, <4>1 DEF SegmentsToOpen
    <3>6. e \o e = e
      BY <1>2
    <3>7. QED
      BY <1>3, <2>1, <3>3, <3>4, <3>5, <3>6 DEF KeptRead
  <2>4. QED
    BY <2>2, <2>3
<1>5. CASE AppendNext
  BY <1>1, <1>5 DEF AppendNext, KeptRead
<1>6. CASE Sync \/ Close
  <2>1. status = "open" /\ files' = Flushed /\ kept' = kept \o buf
    BY <1>6 DEF Sync, Close
  <2>2. QED
    BY <1>1, <2>1, AllWritten DEF KeptRead
<1>7. CASE Rotate
  <2>1. status = "open" /\ files' = Append(Flushed, e) /\ kept' = kept \o buf
    BY <1>2, <1>7 DEF Rotate
  <2>2. PICK f \in Seq(Seq(Frame)) : f = Flushed /\ (Intact(f) => ReadFrom(f) = kept \o buf)
    BY <1>1, <2>1, AllWritten
  <2>3. ASSUME Intact(files') PROVE ReadFrom(files') = kept'
    <3>1. PICK l \in Nat : l = Len(f)
      OBVIOUS
    <3>2. PICK g : g = files' /\ Len(g) = l + 1 /\ \A i \in 1..l : g[i] = f[i]
      <4>1. PICK g : g = files' /\ g = Append(f, e)
        BY <2>1, <2>2
      <4>2. Len(g) = Len(f) + 1 /\ \A i \in 1..Len(f) : g[i] = f[i]
        BY <1>3, <4>1, FilesGrow
      <4>3. QED
        BY <3>1, <4>1, <4>2
    <3>3. Intact(f)
      BY <2>3, <3>1, <3>2 DEF Intact
    <3>4. ReadFrom(Append(f, e)) = ReadFrom(f) \o RecordsOf(e)
      BY <1>3, <3>3, ReadExtends
    <3>5. PICK q \in Seq(LogEntry) : q = ReadFrom(f)
      BY ReadType
    <3>6. q \o e = q
      BY <1>2
    <3>7. QED
      BY <1>3, <2>1, <2>2, <3>3, <3>4, <3>5, <3>6
  <2>4. QED
    BY <2>3 DEF KeptRead
<1>8. CASE WalCrash
  <2>1. status = "open" /\ files \in Seq(Seq(Frame)) /\ files # <<>> /\ buf \in Seq(LogEntry)
    BY <1>1, <1>8 DEF WalCrash, WalTypes
  <2>2. PICK u \in Seq(Seq(Frame)), x \in Seq(Frame) : files = Append(u, x)
    BY <2>1, LastFile
  <2>3. \E n \in 0..Len(buf), c \in Seq(LogEntry), tail \in Seq(Frame) :
            /\ c = SubSeq(buf, 1, n) /\ files' = Append(u, (x \o c) \o tail)
            /\ kept' = kept \o c
            /\ x \o c \in Seq(Frame) /\ (x \o c) \o tail \in Seq(Frame)
            /\ 0 \in 0..Len(tail) /\ IsUpTo(tail, 0) /\ SubSeq(tail, 1, 0) = <<>>
            /\ tail = <<>> \/ \E t \in Tears : tail = <<Tear(t)>>
    BY <1>8, <2>1, <2>2, CrashLeaves
  <2>4. PICK c \in Seq(LogEntry), tail \in Seq(Frame) :
            /\ files' = Append(u, (x \o c) \o tail) /\ kept' = kept \o c
            /\ 0 \in 0..Len(tail) /\ IsUpTo(tail, 0) /\ SubSeq(tail, 1, 0) = <<>>
            /\ tail = <<>> \/ \E t \in Tears : tail = <<Tear(t)>>
    BY <2>3, Zenon
  <2>5. ASSUME Intact(files') PROVE ReadFrom(files') = kept'
    BY <1>1, <2>2, <2>4, <2>5, ReadWritten
  <2>6. QED
    BY <2>5 DEF KeptRead
<1>9. CASE UNCHANGED walVars
  BY <1>1, <1>9 DEF walVars, KeptRead
<1>10. QED
  BY <1>1, <1>4, <1>5, <1>6, <1>7, <1>8, <1>9 DEF WalNext

(* The commands of records.                                                *)
LEMMA CmdsOf ==
    ASSUME NEW s \in Seq(LogEntry)
    PROVE  /\ Cmds(s) \in Seq(Nat) /\ Len(Cmds(s)) = Len(s)
           /\ \A e \in LogEntry : Cmds(Append(s, e)) = Append(Cmds(s), e.cmd)
           /\ \A m \in 0..Len(s) : Cmds(SubSeq(s, 1, m)) = SubSeq(Cmds(s), 1, m)
<1>1. PICK l \in Nat : l = Len(s)
  OBVIOUS
<1>2. PICK t : t = Cmds(s)
  OBVIOUS
<1>3. \A i \in 1..l : s[i].cmd \in Nat
  BY <1>1 DEF LogEntry, Frame
<1>4. t \in Seq(Nat) /\ Len(t) = l /\ \A i \in 1..l : t[i] = s[i].cmd
  BY <1>1, <1>2, <1>3 DEF Cmds
<1>5. ASSUME NEW e \in LogEntry PROVE Cmds(Append(s, e)) = Append(t, e.cmd)
  <2>1. PICK a \in Seq(LogEntry) : /\ a = Append(s, e) /\ Len(a) = l + 1 /\ a[l + 1] = e
                                   /\ \A i \in 1..l : a[i] = s[i]
    <3>1. PICK a \in Seq(LogEntry) : a = Append(s, e)
      BY AppendProperties
    <3>2. Len(a) = l + 1 /\ a[l + 1] = e
      BY <1>1, <3>1
    <3>3. \A i \in 1..l : a[i] = s[i]
      BY <1>1, <3>1
    <3>4. QED
      BY <3>1, <3>2, <3>3
  <2>2. PICK n \in Nat : n = e.cmd
    BY DEF LogEntry, Frame
  <2>3. PICK d \in Seq(Nat) : /\ d = Append(t, n) /\ Len(d) = l + 1 /\ d[l + 1] = n
                              /\ \A i \in 1..l : d[i] = t[i]
    <3>1. PICK d \in Seq(Nat) : d = Append(t, n)
      BY <1>4, AppendProperties
    <3>2. Len(d) = l + 1 /\ d[l + 1] = n
      BY <1>4, <3>1
    <3>3. \A i \in 1..l : d[i] = t[i]
      BY <1>4, <3>1
    <3>4. QED
      BY <3>1, <3>2, <3>3
  <2>4. \A i \in 1..(l + 1) : a[i].cmd = d[i]
    BY <1>4, <2>1, <2>2, <2>3
  <2>5. Cmds(a) = [i \in 1..(l + 1) |-> d[i]]
    BY <2>1, <2>4 DEF Cmds
  <2>6. d = [i \in 1..(l + 1) |-> d[i]]
    <3>1. d = [i \in 1..Len(d) |-> d[i]]
      OBVIOUS
    <3>2. QED
      BY <2>3, <3>1
  <2>7. QED
    BY <2>1, <2>2, <2>3, <2>5, <2>6
<1>6. ASSUME NEW m \in 0..l PROVE Cmds(SubSeq(s, 1, m)) = SubSeq(t, 1, m)
  <2>1. PICK a : a = SubSeq(s, 1, m)
    OBVIOUS
  <2>2. Len(a) = m /\ \A i \in 1..m : a[i] = s[i]
    BY <1>1, <2>1
  <2>3. PICK d : d = SubSeq(t, 1, m)
    OBVIOUS
  <2>4. d \in Seq(Nat) /\ Len(d) = m /\ \A i \in 1..m : d[i] = t[i]
    BY <1>4, <2>3
  <2>5. \A i \in 1..m : a[i].cmd = d[i]
    BY <1>4, <2>2, <2>4
  <2>6. Cmds(a) = [i \in 1..m |-> d[i]]
    BY <2>2, <2>5 DEF Cmds
  <2>7. d = [i \in 1..m |-> d[i]]
    BY <2>4
  <2>8. QED
    BY <2>1, <2>3, <2>6, <2>7
<1>7. QED
  BY <1>1, <1>2, <1>4, <1>5, <1>6

(* A start that succeeds reads what was kept.                              *)
LEMMA OpenReads ==
    ASSUME WalTypes, KeptRead, KeptRead', WalTypes', OpenFileWriter
    PROVE  /\ status # "open" /\ buf = <<>> /\ buf' = <<>> /\ kept' = kept
           /\ \/ status' = "open" /\ recovered' = kept
              \/ status' # "open" /\ recovered' = recovered
<1>1. PICK g : g = SegmentsToOpen
  OBVIOUS
<1>2. /\ status = "closed" /\ files' = g /\ kept' = kept /\ buf' = buf
      /\ IF \A i \in DOMAIN g : Readable(g[i])
         THEN status' = "open" /\ recovered' = ReadFrom(g)
         ELSE status' = "failed" /\ recovered' = recovered
  BY <1>1, Zenon DEF OpenFileWriter
<1>3. g \in Seq(Seq(Frame))
  BY <1>2 DEF WalTypes
<1>4. (\A i \in DOMAIN g : Readable(g[i])) => Intact(g)
  BY <1>3 DEF Intact
<1>5. (\A i \in DOMAIN g : Readable(g[i])) => ReadFrom(g) = kept
  BY <1>2, <1>4 DEF KeptRead
<1>6. buf = <<>>
  BY <1>2 DEF WalTypes
<1>7. QED
  BY <1>2, <1>5, <1>6

(* The segment files implement the log recovery relies on: across appends, *)
(* syncs, rotations, crashes and frames cut by them, a start that succeeds *)
(* reads back all that was reported durable, in the order in which it was  *)
(* appended, and nothing else.                                             *)
THEOREM WalImplementsLog == WalSpec => ImplementsDurableLog
<1>1. WalInit => KeptRead
  BY ReadNothing DEF WalInit, KeptRead
<1>2. WalSpec => []KeptRead
  BY <1>1, KeptReadNext, WalTypesAlways, PTL DEF WalSpec
<1>3. WalInit => L!Init
  <2>1. SUFFICES ASSUME WalInit PROVE L!Init
    OBVIOUS
  <2>2. <<>> \o <<>> = <<>> /\ Len(<<>>) = 0
    OBVIOUS
  <2>3. Cmds(<<>>) = <<>>
    BY <2>2 DEF Cmds
  <2>4. QED
    BY <2>1, <2>2, <2>3 DEF WalInit, L!Init
<1>4. WalTypes /\ WalTypes' /\ KeptRead /\ KeptRead' /\ [WalNext]_walVars
         => [L!Next]_<<status = "open", Cmds(kept \o buf), Len(kept), Cmds(recovered)>>
  <2>1. SUFFICES ASSUME WalTypes, WalTypes', KeptRead, KeptRead', [WalNext]_walVars
                 PROVE  \/ L!Next
                        \/ UNCHANGED <<status = "open", Cmds(kept \o buf), Len(kept), Cmds(recovered)>>
    OBVIOUS
  <2>2. PICK k \in Seq(LogEntry), b \in Seq(LogEntry) : k = kept /\ b = buf
    BY <2>1 DEF WalTypes
  <2>3. PICK q \in Seq(LogEntry) : q = kept \o buf /\ Len(q) = Len(k) + Len(b)
    BY <2>2, ConcatProperties
  <2>4. k \o <<>> = k /\ q \o <<>> = q
    OBVIOUS
  <2>5. Len(Cmds(q)) = Len(q)
    BY CmdsOf
  <2>6. CASE OpenFileWriter
    <3>1. /\ status # "open" /\ buf = <<>> /\ buf' = <<>> /\ kept' = kept
          /\ \/ status' = "open" /\ recovered' = kept
             \/ status' # "open" /\ recovered' = recovered
      BY <2>1, <2>6, OpenReads
    <3>2. CASE status' = "open" /\ recovered' = kept
      <4>1. L!Recover
        BY <2>2, <2>4, <3>1, <3>2 DEF L!Recover
      <4>2. QED
        BY <4>1 DEF L!Next
    <3>3. CASE status' # "open" /\ recovered' = recovered
      BY <3>1, <3>3
    <3>4. QED
      BY <3>1, <3>2, <3>3
  <2>7. CASE AppendNext
    <3>1. /\ status = "open" /\ status' = status /\ appended < MaxAppends
          /\ buf' = Append(buf, LogRecord(lastSeq + 1, appended + 1))
          /\ kept' = kept /\ recovered' = recovered
          /\ lastSeq \in Nat /\ appended \in 0..MaxAppends
      BY <2>1, <2>7 DEF AppendNext, WalTypes
    <3>2. PICK m \in Nat, n \in Nat : m = lastSeq + 1 /\ n = appended + 1
      BY <3>1
    <3>3. n \in 1..MaxAppends /\ n \in 0..MaxAppends
      BY <3>1, <3>2, WalFileAssumption
    <3>4. PICK e : e = LogRecord(m, n)
      OBVIOUS
    <3>5. e \in LogEntry /\ e.cmd = n
      BY <3>3, <3>4 DEF LogRecord, LogEntry, Frame
    <3>6. kept' \o buf' = k \o Append(b, e)
      BY <2>2, <3>1, <3>2, <3>4
    <3>7. k \o Append(b, e) = Append(q, e)
      <4>1. Append(b, e) = b \o <<e>> /\ Append(q, e) = q \o <<e>>
        BY <3>5, AppendIsConcat
      <4>2. <<e>> \in Seq(LogEntry)
        BY <3>5
      <4>3. (k \o b) \o <<e>> = k \o (b \o <<e>>)
        BY <4>2, EntriesJoin
      <4>4. QED
        BY <2>2, <2>3, <4>1, <4>3
    <3>8. Cmds(Append(q, e)) = Append(Cmds(q), n)
      BY <3>5, CmdsOf
    <3>9. L!AppendNext(n)
      BY <2>3, <3>1, <3>6, <3>7, <3>8 DEF L!AppendNext
    <3>10. QED
      BY <3>3, <3>9 DEF L!Next
  <2>8. CASE Sync \/ Rotate
    <3>1. /\ status = "open" /\ status' = status /\ buf' = <<>> /\ kept' = kept \o buf
          /\ recovered' = recovered
      BY <2>8 DEF Sync, Rotate
    <3>2. kept' \o buf' = q /\ Len(kept') = Len(Cmds(q))
      BY <2>3, <2>4, <2>5, <3>1
    <3>3. L!Sync
      BY <2>3, <3>1, <3>2 DEF L!Sync
    <3>4. QED
      BY <3>3 DEF L!Next
  <2>9. ASSUME NEW n \in 0..Len(b), NEW c \in Seq(LogEntry), c = SubSeq(b, 1, n),
               status = "open", status' # "open", kept' = k \o c, buf' = <<>>,
               recovered' = recovered
        PROVE  L!Crash
    <3>1. PICK l \in Nat, o \in Nat : l = Len(k) /\ o = Len(b)
      OBVIOUS
    <3>2. n \in Nat /\ n <= o /\ Len(c) = n
      BY <2>9, <3>1, Parts
    <3>3. PICK p \in Seq(LogEntry) : p = k \o c /\ Len(p) = l + n
      BY <3>1, <3>2, ConcatProperties
    <3>4. PICK m \in l..(l + o) : m = l + n /\ m \in 0..Len(q)
      <4>1. l + n \in l..(l + o) /\ l + n \in 0..(l + o) /\ Len(q) = l + o
        BY <2>2, <2>3, <3>1, <3>2
      <4>2. QED
        BY <4>1
    <3>5. p = SubSeq(q, 1, m)
      <4>1. Begins(k \o SubSeq(b, 1, n), k \o b)
        BY <2>9, BeginsWith
      <4>2. \A i \in 1..m : p[i] = q[i]
        BY <2>2, <2>3, <2>9, <3>3, <3>4, <4>1 DEF Begins
      <4>3. PICK d : d = SubSeq(q, 1, m)
        OBVIOUS
      <4>4. d \in Seq(LogEntry) /\ Len(d) = m
        BY <3>4, <4>3, Parts
      <4>5. \A i \in 1..m : d[i] = q[i]
        BY <3>4, <4>3
      <4>6. \A i \in 1..Len(p) : p[i] = d[i]
        BY <3>3, <3>4, <4>2, <4>5
      <4>7. p = d
        BY <3>3, <3>4, <4>4, <4>6, SeqEqual
      <4>8. QED
        BY <4>3, <4>7
    <3>6. kept' \o buf' = p
      <4>1. p \o <<>> = p
        OBVIOUS
      <4>2. QED
        BY <2>9, <3>3, <4>1
    <3>7. Cmds(SubSeq(q, 1, m)) = SubSeq(Cmds(q), 1, m)
      BY <3>4, CmdsOf
    <3>8. Cmds(kept' \o buf') = SubSeq(Cmds(kept \o buf), 1, m) /\ Len(kept') = m
      BY <2>3, <2>9, <3>3, <3>4, <3>5, <3>6, <3>7
    <3>9. m \in Len(kept)..Len(Cmds(kept \o buf))
      BY <2>2, <2>3, <2>5, <3>1, <3>4
    <3>10. QED
      BY <2>9, <3>8, <3>9 DEF L!Crash
  <2>10. CASE Close
    <3>1. /\ status = "open" /\ status' = "closed" /\ kept' = kept \o buf /\ buf' = <<>>
          /\ recovered' = recovered
      BY <2>10 DEF Close
    <3>2. PICK n \in 0..Len(b) : n = Len(b)
      OBVIOUS
    <3>3. b = SubSeq(b, 1, n)
      BY <3>2
    <3>4. L!Crash
      BY <2>2, <2>9, <3>1, <3>3
    <3>5. QED
      BY <3>4 DEF L!Next
  <2>11. CASE WalCrash
    <3>1. /\ status = "open" /\ status' = "closed" /\ buf' = <<>> /\ recovered' = recovered
          /\ \E n \in 0..Len(buf) : kept' = kept \o SubSeq(buf, 1, n)
      BY <2>11, Zenon DEF WalCrash
    <3>2. PICK n \in 0..Len(b) : kept' = k \o SubSeq(b, 1, n)
      BY <2>2, <3>1
    <3>3. PICK c \in Seq(LogEntry) : c = SubSeq(b, 1, n)
      BY Parts
    <3>4. L!Crash
      BY <2>9, <3>1, <3>2, <3>3
    <3>5. QED
      BY <3>4 DEF L!Next
  <2>12. CASE UNCHANGED walVars
    BY <2>12 DEF walVars
  <2>13. QED
    BY <2>1, <2>6, <2>7, <2>8, <2>10, <2>11, <2>12 DEF WalNext
<1>5. QED
  BY <1>2, <1>3, <1>4, WalTypesAlways, KeptReadNext, PTL DEF WalSpec, ImplementsDurableLog, L!Spec
=============================================================================
