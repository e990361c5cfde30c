----------------------------- MODULE DurableShard -----------------------------
(***************************************************************************)
(* The durable matching shard: recovery.Engine                             *)
(* (internal/matching/recovery/engine.go, group_commit.go) driven by the   *)
(* consumer of order.commands (internal/matching/consumer), with its       *)
(* write-ahead log, per-symbol snapshots and shard manifest, process       *)
(* crashes, and restarts (cmd/matching/main.go).                           *)
(*                                                                         *)
(* Matching one command is a deterministic function of the book (module    *)
(* Matcher), so the book of a symbol is represented by the sequence of     *)
(* commands applied to it.  The log is represented by its records; module  *)
(* WalFile is about its segments.  The engine is driven in one of two ways *)
(* the configuration fixes: with batched = FALSE every message is          *)
(* logged, synced and applied under one hold of Engine.mu (runSequential), *)
(* with batched = TRUE messages are staged one lock acquisition at a time  *)
(* and committed together (runBatched, ProcessBatch).                      *)
(***************************************************************************)
EXTENDS Integers, Sequences, SequencesExt, FiniteSetsExt, Subsequence

CONSTANTS Symbols,        \* the symbols of the shard
          OrderIds,       \* order ids
          SymbolOf,       \* the symbol of each order
          Invalid,        \* orders ValidateOrder refuses
          Modes,          \* the consumer's modes (TRUE: in batches)
          BatchMax,       \* the largest batch
          SnapshotEvery,  \* snapshot every so many commands
          Keep,           \* the snapshot files of a symbol that are kept
          MaxTopic,       \* bound on the commands produced
          MaxCrashes,     \* bound on crashes
          MaxStops        \* bound on stops and on failures to publish

ASSUME DurableShardAssumption ==
    /\ IsFiniteSet(Symbols)
    /\ SymbolOf \in [OrderIds -> Symbols]
    /\ Invalid \subseteq OrderIds
    /\ Modes \subseteq BOOLEAN
    /\ BatchMax \in Nat \ {0}
    /\ SnapshotEvery \in Nat \ {0} /\ Keep \in Nat \ {0}
    /\ MaxTopic \in Nat /\ MaxCrashes \in Nat /\ MaxStops \in Nat

VARIABLES batched,    \* the mode of the consumer; a restart does not change it
          topic,      \* the Kafka partition of order.commands (external)
          wal,        \* the records of the log
          synced,     \* how many of them are known to be on disk
          snap,       \* the snapshot files of each symbol, at most one of a seq
          manifest,   \* recovered_offset of manifest.pb
          events,     \* sequence numbers whose events are durable (outbox or Kafka)
          phase,      \* "down", "stage", "apply" or "publish"
          pos,        \* the next offset to read
          book,       \* the commands applied to each symbol's book
          seen,       \* Engine.seen
          snapshotSeq,\* Engine.snapshotSeq
          readOnly,   \* the symbols in read-only mode
          pending,    \* Engine.pending
          next,       \* the next entry of pending to apply or publish
          snapping,   \* the snapshot being written, or NotSnapping
          crashes,    \* crashes so far
          stops,      \* stops and failures to publish so far
          dropped,    \* history: offsets refused because of read-only mode
          torn        \* history: a crash fell between the files of two symbols

disk == <<wal, synced, snap, manifest, events>>
vars == <<batched, topic, wal, synced, snap, manifest, events, phase, pos, book, seen,
          snapshotSeq, readOnly, pending, next, snapping, crashes, stops, dropped, torn>>

Command == [kind : {"New", "Cancel"}, id : OrderIds]
Record == [seq : Nat, kind : {"New", "Cancel"}, id : OrderIds, off : Nat]
Snapshot == [seq : Nat, book : Seq(Record)]

NotSnapping == [seq |-> 0, todo |-> {}, exit |-> FALSE]

(* The mutex is free and the consumer loop may go on.                      *)
Running == phase # "down" /\ snapping = NotSnapping

LastSeq == IF wal = <<>> THEN 0 ELSE Last(wal).seq

Init ==
    /\ batched \in Modes
    /\ topic = <<>>
    /\ wal = <<>> /\ synced = 0
    /\ snap = [s \in Symbols |-> {}]
    /\ manifest = 0
    /\ events = {}
    /\ phase = "down"
    /\ pos = 0
    /\ book = [s \in Symbols |-> <<>>]
    /\ seen = {}
    /\ snapshotSeq = 0
    /\ readOnly = {}
    /\ pending = <<>> /\ next = 1
    /\ snapping = NotSnapping
    /\ crashes = 0 /\ stops = 0
    /\ dropped = {} /\ torn = FALSE

-----------------------------------------------------------------------------
(* The order service's relay appends a command; it may repeat one.         *)
Produce(cmd) ==
    /\ Len(topic) < MaxTopic
    /\ topic' = Append(topic, cmd)
    /\ UNCHANGED <<disk, phase, pos, book, seen, snapshotSeq, readOnly,
                   pending, next, snapping, crashes, stops, dropped, torn>>

-----------------------------------------------------------------------------
(* Reading one message and staging it (stageNewOrderLocked,                *)
(* stageCancelLocked): a refused or duplicate order leaves no record.      *)

Staged(cmd, outcome) ==
    [seq |-> LastSeq + 1, kind |-> cmd.kind, id |-> cmd.id, off |-> pos,
     outcome |-> outcome]

IsSymbolReadOnly(s) == s \in readOnly

(* Mutant: the duplicate check is dropped.                                 *)
OutcomeUnseen(cmd) ==
    IF cmd.kind = "New" /\ IsSymbolReadOnly(SymbolOf[cmd.id]) THEN "readOnly" ELSE "apply"

Outcome(cmd) ==
    IF cmd.kind = "Cancel" THEN "apply"
    ELSE IF IsSymbolReadOnly(SymbolOf[cmd.id]) THEN "readOnly"
    ELSE IF cmd.id \in seen THEN "duplicate" ELSE "apply"

(* Mutant: an order that fails validation is not logged.                   *)
LoggedIfValid(item) == item.outcome = "apply" /\ item.id \notin Invalid

Logged(item) == item.outcome = "apply"

RecordOf(item) == [seq |-> item.seq, kind |-> item.kind, id |-> item.id, off |-> item.off]

(* CommandReader.Read: the message at the position.                        *)
ReadMessage == topic[pos + 1]

Stage ==
    /\ Running /\ phase = "stage"
    /\ Len(pending) < (IF batched THEN BatchMax ELSE 1)
    /\ pos < Len(topic)
    /\ LET cmd == ReadMessage
           item == Staged(cmd, Outcome(cmd))
       IN  /\ pending' = Append(pending, item)
           /\ wal' = IF Logged(item) THEN Append(wal, RecordOf(item)) ELSE wal
           /\ synced' = IF batched THEN synced ELSE Len(wal')
           /\ dropped' = IF item.outcome = "readOnly" THEN dropped \cup {pos} ELSE dropped
    /\ pos' = pos + 1
    /\ UNCHANGED <<topic, snap, manifest, events, phase, book, seen, snapshotSeq,
                   readOnly, next, snapping, crashes, stops, torn>>

(* Mutant: the batch is applied before it is synced.                       *)
CommitBatchUnsynced ==
    /\ Running /\ phase = "stage"
    /\ pending # <<>>
    /\ phase' = "apply"
    /\ next' = 1
    /\ UNCHANGED <<topic, disk, pos, book, seen, snapshotSeq, readOnly, pending,
                   snapping, crashes, stops, dropped, torn>>

(* The start of commitBatchLocked: one Sync for the batch.                 *)
CommitBatch ==
    /\ Running /\ phase = "stage"
    /\ pending # <<>>
    /\ synced' = Len(wal)
    /\ phase' = "apply"
    /\ next' = 1
    /\ UNCHANGED <<topic, wal, snap, manifest, events, pos, book, seen, snapshotSeq,
                   readOnly, pending, snapping, crashes, stops, dropped, torn>>

(* Mutant: only the file of one symbol is written.                         *)
StartSnapshotOfOne(seq, exit) ==
    \E s \in Symbols : snapping' = [seq |-> seq, todo |-> {s}, exit |-> exit]

StartSnapshot(seq, exit) == snapping' = [seq |-> seq, todo |-> Symbols, exit |-> exit]

(* ValidateOrder: the rules of the symbol refuse an order that is          *)
(* already in the log.                                                     *)
Fails(item) == item.outcome = "apply" /\ item.kind = "New" /\ item.id \in Invalid

(* Match or Cancel of the symbol's engine.                                 *)
MatchOrCancel(item) ==
    /\ book' = [book EXCEPT ![SymbolOf[item.id]] = Append(@, RecordOf(item))]
    /\ seen' = IF item.kind = "New" THEN seen \cup {item.id} ELSE seen

(* One round of commitBatchLocked's loop, maybeSnapshot included.          *)
ApplyItem ==
    /\ Running /\ phase = "apply"
    /\ next <= Len(pending)
    /\ LET item == pending[next]
       IN  /\ ~Fails(item)
           /\ IF item.outcome # "apply"
              THEN UNCHANGED <<book, seen, snapping>>
              ELSE /\ MatchOrCancel(item)
                   /\ IF item.seq % SnapshotEvery = 0 THEN StartSnapshot(item.seq, FALSE)
                                                      ELSE UNCHANGED snapping
    /\ next' = next + 1
    /\ UNCHANGED <<topic, disk, phase, pos, snapshotSeq, readOnly, pending,
                   crashes, stops, dropped, torn>>

(* The loop is over: build and persist the events of the batch.            *)
StartPublish ==
    /\ Running /\ phase = "apply"
    /\ next > Len(pending)
    /\ phase' = "publish"
    /\ next' = 1
    /\ UNCHANGED <<topic, disk, pos, book, seen, snapshotSeq, readOnly, pending,
                   snapping, crashes, stops, dropped, torn>>

(* The events of one command reach the event outbox (persistOutboundBatch) *)
(* or Kafka (PublishBatch).                                                *)
PublishItem ==
    /\ Running /\ phase = "publish"
    /\ next <= Len(pending)
    /\ events' = IF pending[next].outcome = "apply"
                 THEN events \cup {pending[next].seq} ELSE events
    /\ next' = next + 1
    /\ UNCHANGED <<topic, wal, synced, snap, manifest, phase, pos, book, seen,
                   snapshotSeq, readOnly, pending, snapping, crashes, stops, dropped, torn>>

(* ProcessBatch returns; Commit of a partition reader does nothing.        *)
BatchDone ==
    /\ Running /\ phase = "publish"
    /\ next > Len(pending)
    /\ phase' = "stage"
    /\ pending' = <<>>
    /\ UNCHANGED <<topic, disk, pos, book, seen, snapshotSeq, readOnly, next,
                   snapping, crashes, stops, dropped, torn>>

(* The handler returns an error: an order is refused after it was logged,  *)
(* or the events could not be written.  The consumer loop ends and the     *)
(* process takes its exit snapshot (cli.Shutdown).                         *)
HandlerFails ==
    /\ Running
    /\ \/ /\ phase = "apply" /\ next <= Len(pending)
          /\ Fails(pending[next])
          /\ UNCHANGED stops
       \/ /\ phase = "publish" /\ next <= Len(pending)
          /\ stops < MaxStops
          /\ stops' = stops + 1
    /\ StartSnapshot(LastSeq, TRUE)
    /\ UNCHANGED <<topic, disk, phase, pos, book, seen, snapshotSeq, readOnly,
                   pending, next, crashes, dropped, torn>>

-----------------------------------------------------------------------------
(* Snapshots.                                                              *)

(* Engine.mu is not held by the consumer: runSequential holds it from the  *)
(* append to the end of the apply, runBatched only per staged message and  *)
(* in CommitBatch.                                                         *)
MutexFree == \/ phase = "publish"
             \/ phase = "stage" /\ (batched \/ pending = <<>>)

(* startPeriodicSnapshot or the admin call: whenever Engine.mu is free.    *)
SnapshotIfStale ==
    /\ Running /\ MutexFree
    /\ LastSeq > snapshotSeq
    /\ StartSnapshot(LastSeq, FALSE)
    /\ UNCHANGED <<topic, disk, phase, pos, book, seen, snapshotSeq, readOnly,
                   pending, next, crashes, stops, dropped, torn>>

(* What a process loses with its memory.                                   *)
VolatileLost ==
    /\ phase' = "down"
    /\ book' = [s \in Symbols |-> <<>>]
    /\ seen' = {}
    /\ snapshotSeq' = 0
    /\ readOnly' = {}
    /\ pending' = <<>> /\ next' = 1
    /\ snapping' = NotSnapping

(* Mutant: the process stops without a snapshot.                           *)
StopAtOnce ==
    /\ Running /\ phase = "stage" /\ pending = <<>>
    /\ stops < MaxStops
    /\ stops' = stops + 1
    /\ VolatileLost
    /\ UNCHANGED <<topic, disk, pos, crashes, dropped, torn>>

(* SIGTERM between two batches: SnapshotNow, then Close.                   *)
Stop ==
    /\ Running /\ phase = "stage" /\ pending = <<>>
    /\ stops < MaxStops
    /\ stops' = stops + 1
    /\ StartSnapshot(LastSeq, TRUE)
    /\ UNCHANGED <<topic, disk, phase, pos, book, seen, snapshotSeq, readOnly,
                   pending, next, crashes, dropped, torn>>

(* A file comes into being whole, by a rename, and replaces one of the     *)
(* same name.                                                              *)
WriteAtomic(files, f) == {g \in files : g.seq # f.seq} \cup {f}

Prune(files) == {f \in files : Cardinality({g \in files : g.seq > f.seq}) < Keep}

(* writeSnapshots exports and saves the book of one symbol and removes old *)
(* files; a crash before they are removed leaves files LatestPath does not *)
(* look at.                                                                *)
SaveSymbol(s) ==
    /\ phase # "down"
    /\ s \in snapping.todo
    /\ snap' = [snap EXCEPT ![s] =
                  Prune(WriteAtomic(@, [seq |-> snapping.seq, book |-> book[s]]))]
    /\ snapping' = [snapping EXCEPT !.todo = @ \ {s}]
    /\ UNCHANGED <<topic, wal, synced, manifest, events, phase, pos, book, seen,
                   snapshotSeq, readOnly, pending, next, crashes, stops, dropped, torn>>

(* All symbols saved: the manifest, then back to work or exit (Close       *)
(* flushes and syncs the log).                                             *)
SaveManifest ==
    /\ phase # "down"
    /\ snapping # NotSnapping /\ snapping.todo = {}
    /\ manifest' = snapping.seq
    /\ IF snapping.exit
       THEN synced' = Len(wal) /\ VolatileLost
       ELSE /\ snapshotSeq' = snapping.seq
            /\ snapping' = NotSnapping
            /\ UNCHANGED <<synced, phase, book, seen, readOnly, pending, next>>
    /\ UNCHANGED <<topic, wal, snap, events, pos, crashes, stops, dropped, torn>>

-----------------------------------------------------------------------------
(* Crash and restart.                                                      *)

(* Records that were not synced may or may not have reached the disk.      *)
Crash ==
    /\ phase # "down"
    /\ crashes < MaxCrashes
    /\ crashes' = crashes + 1
    /\ \E n \in synced..Len(wal) : wal' = SubSeq(wal, 1, n) /\ synced' = n
    /\ VolatileLost
    /\ torn' = (torn \/ snapping.todo \notin {{}, Symbols})
    /\ UNCHANGED <<topic, snap, manifest, events, pos, stops, dropped>>

(* LatestPath and Load: the file with the largest sequence number; without *)
(* one the book starts empty.                                              *)
LatestPath(s) ==
    LET Newest(f) == \A g \in snap[s] : g.seq <= f.seq
    IN  IF snap[s] = {} THEN [seq |-> 0, book |-> <<>>] ELSE CHOOSE f \in snap[s] : Newest(f)

(* loadSnapshots: the largest position any file claims.                    *)
RecoveredOffset == Max({manifest} \cup {LatestPath(s).seq : s \in Symbols})

(* buildSeenFromWAL: every new order of the log, from the beginning.       *)
SeenFromWAL == {wal[i].id : i \in {j \in DOMAIN wal : wal[j].kind = "New"}}

(* The records of the log at the positions in chosen, one after the other, *)
(* are applied to book b.                                                  *)
Replay(b, chosen) == b \o AtPositions(wal, chosen)

(* replayWAL and applyRecord.                                              *)
Replayed(s) ==
    LET Apply(rec) == /\ SymbolOf[rec.id] = s
                      /\ rec.seq > RecoveredOffset
                      /\ rec.kind = "Cancel" \/ rec.id \notin SeenFromWAL
    IN  Replay(LatestPath(s).book, {i \in DOMAIN wal : Apply(wal[i])})

(* MaxKafkaOffset skips records with offset 0; StartOffset.                *)
KafkaOffsets == {wal[i].off : i \in DOMAIN wal} \ {0}

(* Mutant: without a resume point, the consumer starts at the latest offset. *)
StartOffsetLatest == IF KafkaOffsets = {} THEN Len(topic) ELSE Max(KafkaOffsets) + 1

StartOffset == IF KafkaOffsets = {} THEN 0 ELSE Max(KafkaOffsets) + 1

(* planReaderStart: any other offset is one to seek to.                    *)
PlanReaderStart(offset) == IF offset > 0 THEN offset ELSE 0

(* recover: the snapshots, then the new orders of the whole log, then the  *)
(* records after the snapshots.                                            *)
Recover ==
    /\ snapshotSeq' = RecoveredOffset
    /\ seen' = SeenFromWAL
    /\ book' = [s \in Symbols |-> Replayed(s)]

(* Open, the verification that may put symbols in read-only mode, and the  *)
(* start of the consumer.                                                  *)
Restart ==
    /\ phase = "down"
    /\ phase' = "stage"
    /\ Recover
    /\ readOnly' \in SUBSET Symbols
    /\ pos' = PlanReaderStart(StartOffset)
    /\ UNCHANGED <<topic, disk, pending, next, snapping, crashes, stops, dropped, torn>>

-----------------------------------------------------------------------------
(* What the goroutine of runKafka does.                                    *)
RunKafka ==
    \/ Stage
    \/ CommitBatch
    \/ ApplyItem
    \/ StartPublish
    \/ PublishItem
    \/ BatchDone
    \/ HandlerFails

Step ==
    \/ \E cmd \in Command : Produce(cmd)
    \/ RunKafka
    \/ SnapshotIfStale
    \/ Stop
    \/ \E s \in Symbols : SaveSymbol(s)
    \/ SaveManifest
    \/ Crash
    \/ Restart

Next == Step /\ UNCHANGED batched

Spec == Init /\ [][Next]_vars

(* The consumer goroutine, a snapshot that was begun, and the supervisor   *)
(* that restarts the process are scheduled; commands, periodic snapshots,  *)
(* stops and crashes need not happen.                                      *)
Progress == UNCHANGED batched /\
            ( \/ RunKafka \/ SaveManifest \/ Restart
              \/ \E s \in Symbols : SaveSymbol(s) )

FairSpec == Spec /\ WF_vars(Progress)

-----------------------------------------------------------------------------
(* Properties.                                                             *)

AtRest == Running /\ phase = "stage" /\ pending = <<>>

Applied(s) == {book[s][i] : i \in DOMAIN book[s]}
LogRecords == {wal[i] : i \in DOMAIN wal}

(* The records that change a book: every cancel, and the first record of   *)
(* each order that passes validation.                                      *)
Effective == {r \in LogRecords :
                r.kind = "New" => /\ r.id \notin Invalid
                                  /\ \A q \in LogRecords :
                                        (q.kind = "New" /\ q.id = r.id) => q.seq >= r.seq}

(* Order id rests in book s: it was applied and not cancelled since.       *)
Resting(s, id) ==
    \E i \in DOMAIN book[s] :
        /\ book[s][i].kind = "New" /\ book[s][i].id = id
        /\ ~ \E j \in DOMAIN book[s] :
                j > i /\ book[s][j].kind = "Cancel" /\ book[s][j].id = id

(* Every variable has its type; the consumer never reads past the end of   *)
(* the topic.                                                              *)
TypeOK ==
    /\ topic \in Seq(Command)
    /\ wal \in Seq(Record) /\ synced \in 0..Len(wal)
    /\ (\A s \in Symbols : snap[s] \subseteq Snapshot) /\ manifest \in Nat
    /\ events \subseteq Nat
    /\ phase \in {"down", "stage", "apply", "publish"}
    /\ pos \in 0..Len(topic)
    /\ book \in [Symbols -> Seq(Record)]
    /\ seen \subseteq OrderIds
    /\ snapshotSeq \in Nat
    /\ readOnly \subseteq Symbols
    /\ Len(pending) <= BatchMax /\ next \in 1..BatchMax + 1
    /\ snapping \in [seq : Nat, todo : SUBSET Symbols, exit : BOOLEAN]

(* "先 WAL durable 再内存" (group_commit.go): whatever a crash leaves of the  *)
(* log, the books, the snapshots and the events that left the process are  *)
(* about commands that survive it.                                         *)
WalBeforeMemory ==
    LET durable == {wal[i] : i \in 1..synced}
    IN  /\ events \subseteq {r.seq : r \in durable}
        /\ \A s \in Symbols : /\ Applied(s) \subseteq durable
                              /\ \A f \in snap[s] : ToSet(f.book) \subseteq durable

(* "不重复撮合": no order is matched twice, whether its command is delivered    *)
(* twice, read again after a restart, or found both in a snapshot and in   *)
(* the log.                                                                *)
OrdersMatchedOnce ==
    \A s \in Symbols : \A i, j \in DOMAIN book[s] :
        (book[s][i].kind = "New" /\ book[s][j].kind = "New" /\ book[s][i].id = book[s][j].id)
        => i = j

(* runSequential keeps that.  (runBatched looks staged orders up in seen,  *)
(* which is extended when the batch is applied, and does not.)             *)
NoDoubleMatch == ~batched => OrdersMatchedOnce

(* StartOffset never jumps over a command: whatever lies before the read   *)
(* position is logged, is staged, repeats a logged order, or was refused   *)
(* in read-only mode.                                                      *)
NoCommandSkipped ==
    phase # "down" =>
        \A off \in 0..pos - 1 :
            \/ off \in dropped
            \/ \E r \in LogRecords : r.off = off
            \/ topic[off + 1].kind = "New" /\
               \E r \in LogRecords : r.kind = "New" /\ r.id = topic[off + 1].id

(* "不丢失命令": a cancel that was logged after its order stays in force, so  *)
(* that the order does not rest in the book again, not even after a        *)
(* restart.                                                                *)
CancelsNeverUndone ==
    AtRest => \A n, c \in LogRecords :
                 (n.kind = "New" /\ c.kind = "Cancel" /\ n.id = c.id /\ n.seq < c.seq)
                 => ~Resting(SymbolOf[n.id], n.id)

(* Every symbol of a shard keeps its cancels while messages are handled    *)
(* one at a time and no crash fell between the files of two symbols:       *)
(* loadSnapshots replays no symbol from before the newest label of all, so *)
(* the rounds of writeSnapshots, their pruning and the manifest must keep  *)
(* the labels together.  (In batches a snapshot between two staged         *)
(* messages is labelled with a cancel it does not contain.)                *)
CancelSticks == ~batched /\ ~torn => CancelsNeverUndone

(* "重启后每个 Orderbook 完全还原": between two batches every command of the     *)
(* log has been applied to its book.                                       *)
RecoveredBooksComplete ==
    AtRest => \A r \in Effective : r \in Applied(SymbolOf[r.id])

(* As long as every exit was orderly (SIGTERM, a failed publication, an     *)
(* order that stopped the consumer) recovery is complete: the exit snapshot *)
(* of cli.Shutdown covers the whole log.  Again this is promised to        *)
(* runSequential only: in a batch an order that stops the consumer also    *)
(* loses the commands logged behind it.                                    *)
OrderlyRestartsComplete == (crashes = 0 /\ ~batched) => RecoveredBooksComplete

(* The events of every applied command are durable before the consumer     *)
(* moves on, even if the process died in between.                          *)
EventsNotLost == AtRest => \A r \in Effective : r.seq \in events

(* Every command is eventually consumed, an order that fails after it was  *)
(* logged and stops the process included.                                  *)
CommandsConsumed == <>[](AtRest /\ pos = Len(topic))
=============================================================================
