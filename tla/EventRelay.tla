----------------------------- MODULE EventRelay -----------------------------
(***************************************************************************)
(* The event outbox of the matching service and the relay that sends its   *)
(* records to Kafka: internal/matching/eventoutbox/append.go,              *)
(* pkg/eventoutbox and internal/matching/eventrelay/relay.go.              *)
(*                                                                         *)
(* A record carries its outbox_seq, the stream it belongs to (topic and    *)
(* partition key) and, to tell records with the same outbox_seq apart, its *)
(* number n in the order of appending.  Each worker of the relay runs      *)
(* pollOnce on its own; they share the cursor `published' and meta.json.   *)
(***************************************************************************)
EXTENDS Integers, Sequences, SequencesExt, FiniteSetsExt, Subsequence

CONSTANTS Streams,        \* pairs of a topic and a partition key
          Workers,        \* the relay's workers
          BatchSize,      \* Config.BatchSize
          SegmentMax,     \* records per segment file
          PowerLoss,      \* may a crash lose what is in the file but not synced?
          MaxRecords,     \* bound on the records appended
          MaxFailures,    \* bound on failed calls of WriteBatch
          MaxCrashes      \* bound on crashes

ASSUME EventRelayAssumption ==
    /\ BatchSize \in Nat \ {0} /\ SegmentMax \in Nat \ {0}
    /\ PowerLoss \in BOOLEAN
    /\ MaxRecords \in Nat /\ MaxFailures \in Nat /\ MaxCrashes \in Nat

VARIABLES outbox,     \* the records appended and not lost, oldest first
          written,    \* how many of them have left the writer's buffer
          synced,     \* how many of them are durable
          closedSegs, \* how many of them lie in earlier segments
          lastSeq,    \* FileWriter.lastSeq
          appended,   \* history: records appended so far
          meta,       \* last_published_seq in meta.json
          published,  \* Relay.published
          worker,     \* the state of each worker in pollOnce
          kafka,      \* the records in Kafka, in order of arrival (external)
          failures, crashes

vars == <<outbox, written, synced, closedSegs, lastSeq, appended, meta, published,
          worker, kafka, failures, crashes>>

Record == [seq : Nat, n : 1..MaxRecords, stream : Streams]

Idle == [pc |-> "idle", after |-> 0, recs |-> <<>>, lastOK |-> 0]

Init ==
    /\ outbox = <<>> /\ written = 0 /\ synced = 0 /\ closedSegs = 0
    /\ lastSeq = 0 /\ appended = 0
    /\ meta = 0 /\ published = 0
    /\ worker = [w \in Workers |-> Idle]
    /\ kafka = <<>>
    /\ failures = 0 /\ crashes = 0

-----------------------------------------------------------------------------
(* The consumer's side: AppendOutbound and FileWriter.                     *)

(* rotateLocked and openSegment: a full segment is synced and a new one is *)
(* begun.                                                                  *)
RotateLocked ==
    closedSegs' = Len(outbox') /\ written' = Len(outbox') /\ synced' = Len(outbox')

(* appendLocked.                                                           *)
AppendNext(stream) ==
    /\ appended < MaxRecords
    /\ appended' = appended + 1
    /\ lastSeq' = lastSeq + 1
    /\ outbox' = Append(outbox, [seq |-> lastSeq + 1, n |-> appended + 1, stream |-> stream])
    /\ IF Len(outbox') - closedSegs >= SegmentMax
       THEN RotateLocked
       ELSE UNCHANGED <<closedSegs, written, synced>>
    /\ UNCHANGED <<meta, published, worker, kafka, failures, crashes>>

(* AppendOutbound, one record at a time: a command adds match events and   *)
(* trade events of its symbol, and when it ends is of no interest here.    *)
AppendOutbound == \E stream \in Streams : AppendNext(stream)

(* flushAndSyncLocked: the buffer goes to the file, where the relay can    *)
(* read it, and then the file to the disk.  Only a power loss can come     *)
(* between the two and tell them apart.                                    *)
Sync ==
    /\ written' = Len(outbox)
    /\ synced' \in {Len(outbox)} \cup (IF PowerLoss THEN {synced} ELSE {})
    /\ UNCHANGED <<outbox, closedSegs, lastSeq, appended, meta, published, worker,
                   kafka, failures, crashes>>

-----------------------------------------------------------------------------
(* The relay: pollOnce of one worker.                                      *)

(* meta.json as it is; without the file the cursor is 0.                   *)
LoadMeta == meta

(* loadPublished: the cursor in memory, or meta.json while it is 0.        *)
LoadPublished == IF published > 0 THEN published ELSE LoadMeta

(* FetchUnpublished reads the files through a handle of its own: it sees   *)
(* what was written, synced or not.                                        *)
FetchUnpublished(after) ==
    LET unpublished == AtPositions(outbox, {i \in 1..written : outbox[i].seq > after})
    IN  SubSeq(unpublished, 1, Min({BatchSize, Len(unpublished)}))

Fetch(w) ==
    /\ worker[w].pc = "idle"
    /\ published' = LoadPublished
    /\ LET recs == FetchUnpublished(LoadPublished) IN
         /\ recs # <<>>
         /\ worker' = [worker EXCEPT ![w] =
                [pc |-> "publish", after |-> LoadPublished, recs |-> recs,
                 lastOK |-> LoadPublished]]
    /\ UNCHANGED <<outbox, written, synced, closedSegs, lastSeq, appended, meta, kafka,
                   failures, crashes>>

(* The longest prefix of recs that goes to one stream.                     *)
Group(recs) ==
    SubSeq(recs, 1, Max({n \in 1..Len(recs) :
                            \A i \in 1..n : recs[i].stream = recs[1].stream}))

(* Mutant: the cursor advances past the record after the group.            *)
PublishedGroupSkip(w, group) ==
    [worker[w] EXCEPT !.recs = SubSeq(@, Len(group) + 1, Len(@)),
                      !.lastOK = Last(group).seq + 1]

PublishedGroup(w, group) ==
    [worker[w] EXCEPT !.recs = SubSeq(@, Len(group) + 1, Len(@)),
                      !.lastOK = Last(group).seq]

(* WriteBatch of one group succeeds.                                       *)
WriteBatch(w) ==
    /\ worker[w].pc = "publish"
    /\ worker[w].recs # <<>>
    /\ LET group == Group(worker[w].recs) IN
         /\ kafka' = kafka \o group
         /\ worker' = [worker EXCEPT ![w] = PublishedGroup(w, group)]
    /\ UNCHANGED <<outbox, written, synced, closedSegs, lastSeq, appended, meta, published,
                   failures, crashes>>

(* Mutant: the rest of the batch is given up after an error.               *)
AfterFailureSkip(w) == [worker[w] EXCEPT !.recs = <<>>, !.lastOK = Last(worker[w].recs).seq]

AfterFailure(w) == [worker[w] EXCEPT !.recs = <<>>]

(* WriteBatch returns an error: a prefix of the group may have arrived.    *)
WriteBatchFails(w) ==
    /\ worker[w].pc = "publish"
    /\ worker[w].recs # <<>>
    /\ failures < MaxFailures
    /\ failures' = failures + 1
    /\ \E n \in 0..Len(Group(worker[w].recs)) :
         kafka' = kafka \o SubSeq(worker[w].recs, 1, n)
    /\ worker' = [worker EXCEPT ![w] = AfterFailure(w)]
    /\ UNCHANGED <<outbox, written, synced, closedSegs, lastSeq, appended, meta, published,
                   crashes>>

(* storePublished sets the cursor in memory.                               *)
StorePublished(w) ==
    /\ worker[w].pc = "publish"
    /\ worker[w].recs = <<>>
    /\ IF worker[w].lastOK > worker[w].after
       THEN /\ published' = worker[w].lastOK
            /\ worker' = [worker EXCEPT ![w].pc = "save"]
       ELSE /\ worker' = [worker EXCEPT ![w] = Idle]
            /\ UNCHANGED published
    /\ UNCHANGED <<outbox, written, synced, closedSegs, lastSeq, appended, meta, kafka,
                   failures, crashes>>

(* SaveMetaLocked.                                                         *)
SaveMeta(w) ==
    /\ worker[w].pc = "save"
    /\ meta' = worker[w].lastOK
    /\ worker' = [worker EXCEPT ![w] = Idle]
    /\ UNCHANGED <<outbox, written, synced, closedSegs, lastSeq, appended, published, kafka,
                   failures, crashes>>

-----------------------------------------------------------------------------
(* What the segment with the highest number holds of the first n records,  *)
(* and the sequence number it ends with: 0 if it is empty.                 *)
LatestSegment(n) == SubSeq(outbox, closedSegs + 1, n)

ScanLastSeq(segment) == IF segment = <<>> THEN 0 ELSE Last(segment).seq

(* The process dies and comes back.  The buffer is gone, and with the      *)
(* power also any part of the file that was not synced; OpenFileWriter     *)
(* scans the last segment only.                                            *)
Crash ==
    /\ crashes < MaxCrashes
    /\ crashes' = crashes + 1
    /\ \E n \in (IF PowerLoss THEN synced ELSE written)..written :
         /\ outbox' = SubSeq(outbox, 1, n)
         /\ written' = n /\ synced' = n
         /\ lastSeq' = ScanLastSeq(LatestSegment(n))
    /\ published' = 0
    /\ worker' = [w \in Workers |-> Idle]
    /\ UNCHANGED <<closedSegs, appended, meta, kafka, failures>>

Work(w) == Fetch(w) \/ WriteBatch(w) \/ WriteBatchFails(w) \/ StorePublished(w) \/ SaveMeta(w)

Next ==
    \/ AppendOutbound
    \/ Sync
    \/ \E w \in Workers : Work(w)
    \/ Crash

Spec == Init /\ [][Next]_vars

(* The workers' loops are scheduled, and the handler that appends also     *)
(* syncs.                                                                  *)
FairSpec == Spec /\ WF_vars(Sync) /\ \A w \in Workers : WF_vars(Work(w))

-----------------------------------------------------------------------------
(* Properties.                                                             *)

Delivered == ToSet(kafka)

(* Every variable has its type; the relay's cursor never runs ahead of     *)
(* what was appended, and the disk never ahead of the file.                *)
TypeOK ==
    /\ outbox \in Seq(Record) /\ written \in 0..Len(outbox)
    /\ synced \in 0..written /\ closedSegs \in 0..synced
    /\ lastSeq \in Nat /\ appended \in 0..MaxRecords
    /\ meta \in 0..appended /\ published \in 0..appended
    /\ kafka \in Seq(Record)
    /\ \A w \in Workers : /\ worker[w].pc \in {"idle", "publish", "save"}
                          /\ worker[w].after \in Nat /\ worker[w].lastOK \in Nat
                          /\ worker[w].recs \in Seq(Record)

(* Whether outbox_seq still increases from record to record: it begins     *)
(* again at 1 after a restart that finds the latest segment empty.         *)
SeqIncreases == \A i, j \in DOMAIN outbox : i < j => outbox[i].seq < outbox[j].seq

(* I4, at least once: what lies behind the saved cursor is in Kafka, since *)
(* no worker will ever fetch it again.                                     *)
NothingSkipped ==
    SeqIncreases => \A r \in ToSet(outbox) : r.seq <= meta => r \in Delivered

(* I4 with no condition; a restart right after a rotation refutes it.      *)
NothingEverSkipped == \A r \in ToSet(outbox) : r.seq <= meta => r \in Delivered

(* Within a stream no event overtakes another: when one has arrived, all   *)
(* earlier ones of the outbox have, whatever was sent again since.         *)
DeliveredInOrder ==
    SeqIncreases =>
        \A r \in Delivered, q \in ToSet(outbox) :
            (q.stream = r.stream /\ q.n < r.n) => q \in Delivered

(* I5: the events of a stream arrive in the order of outbox_seq.           *)
InOrderPerSymbol ==
    \A i, j \in DOMAIN kafka :
        (i < j /\ kafka[i].stream = kafka[j].stream) => kafka[i].seq <= kafka[j].seq

(* Every event written to the outbox reaches Kafka, whatever fails in      *)
(* between.                                                                *)
EventsDelivered == <>[](SeqIncreases => ToSet(outbox) \subseteq Delivered)
=============================================================================
