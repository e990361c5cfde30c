--------------------------- MODULE OrderDispatch ---------------------------
(***************************************************************************)
(* The life of an order between the order service and the matching shard:  *)
(* placing and cancelling (internal/order/service, repository), the        *)
(* command outbox and its relay (internal/order/outbox/relay.go), the      *)
(* consumer of match.events (internal/order/consumer, match_apply.go), the *)
(* status machine (internal/order/status) and the reconciler               *)
(* (internal/order/reconciler).                                            *)
(*                                                                         *)
(* One symbol, so one partition of order.commands and one of match.events. *)
(* Orders are limit orders without prices and quantities: which resting    *)
(* orders a new one meets and what is left is a choice; module Matcher     *)
(* makes it.  The shard handles one command at a time; DurableShard is     *)
(* about its crashes and EventRelay about how its events reach             *)
(* match.events.                                                           *)
(***************************************************************************)
EXTENDS OrderStatus, Integers, Sequences, SequencesExt, FiniteSetsExt, Subsequence

CONSTANTS Orders,        \* order ids
          Instances,     \* the relay's workers (RelayConfig.Workers), and bounds on
                         \* the cancels users request and on faults: failed writes to
                         \* Kafka and Redis, restarts of the order service, cancels
                         \* the reconciler repeats
          BatchSize      \* RelayConfig.BatchSize

ASSUME OrderDispatchAssumption ==
    /\ BatchSize \in Nat \ {0}
    /\ \A c \in Instances : /\ c.workers # {} /\ IsFiniteSet(c.workers)
                           /\ c.cancels \in Nat /\ c.faults \in Nat

VARIABLES status,     \* orders.status, "none" before the order is placed
          outbox,     \* the rows of order_outbox in order of creation
          published,  \* the rows whose published_at is set
          worker,     \* where each worker is in pollOnce
          topic,      \* order.commands
          pos,        \* how many commands the shard has handled
          seen,       \* Engine.seen
          active,     \* the orders resting in the book
          readOnly,   \* is the symbol in read-only mode? decided when the shard starts
          filled,     \* history: the orders the shard filled
          events,     \* match.events
          evPos,      \* how many of them the consumer has read
          processed,  \* processed_match_events
          pushing,    \* the order whose update the consumer is about to publish
          pushed,     \* the status the last update on order:{user_id} showed
          unpushed,   \* history: the orders whose last update was not published
          recon,      \* the orders the reconciler is about to reject
          cancels,    \* how many cancels users may still request
          faults      \* how many faults may still happen

db == <<status, outbox, published>>
relay == <<worker, topic>>
shard == <<pos, seen, active, readOnly, filled, events>>
Workers == DOMAIN worker

push == <<pushing, pushed, unpushed>>
consumer == <<evPos, processed, push>>
vars == <<status, outbox, published, worker, topic, pos, seen, active,
          readOnly, filled, events, evPos, processed, pushing, pushed, unpushed,
          recon, cancels, faults>>

Command == [kind : {"New", "Cancel"}, id : Orders]
Event == [id : Orders, type : EventType, seq : Nat]

NewCommand(o) == [kind |-> "New", id |-> o]
CancelCommand(o) == [kind |-> "Cancel", id |-> o]

Idle == [pc |-> "idle", claim |-> {}, send |-> {}]

Init ==
    /\ status = [o \in Orders |-> "none"]
    /\ outbox = <<>> /\ published = {}
    /\ \E c \in Instances :
         worker = [w \in c.workers |-> Idle] /\ cancels = c.cancels /\ faults = c.faults
    /\ topic = <<>>
    /\ readOnly \in BOOLEAN
    /\ pos = 0 /\ seen = {} /\ active = {} /\ filled = {} /\ events = <<>>
    /\ evPos = 0 /\ processed = {}
    /\ pushing = {} /\ pushed = [o \in Orders |-> "none"] /\ unpushed = {}
    /\ recon = {}

-----------------------------------------------------------------------------
(* Requests.                                                               *)

InsertOutboxRow(cmd) == outbox' = Append(outbox, cmd)

(* InsertPending: the order and its command, in one transaction.           *)
PlaceOrder(o) ==
    /\ status[o] = "none"
    /\ status' = [status EXCEPT ![o] = "PENDING"]
    /\ InsertOutboxRow(NewCommand(o))
    /\ UNCHANGED <<published, relay, shard, consumer, recon, cancels, faults>>

InsertCancelOutbox(o) == InsertOutboxRow(CancelCommand(o))

(* BeginCancel; an order that is CANCELING or CANCELED is returned as it   *)
(* is, and one in another final status is refused.                         *)
BeginCancel(o) ==
    /\ cancels > 0
    /\ status[o] # "CANCELING" /\ CanTransition(status[o], "CANCELING")
    /\ cancels' = cancels - 1
    /\ status' = [status EXCEPT ![o] = "CANCELING"]
    /\ InsertCancelOutbox(o)
    /\ UNCHANGED <<published, relay, shard, consumer, recon, faults>>

-----------------------------------------------------------------------------
(* The relay: pollOnce of one worker.  The rows a worker has claimed stay  *)
(* locked until its transaction ends.                                      *)

Locked == UNION {worker[w].claim : w \in Workers}

Unclaimed == DOMAIN outbox \ (published \cup Locked)

(* ClaimUnpublished: ORDER BY created_at, LIMIT, FOR UPDATE SKIP LOCKED.   *)
ClaimUnpublished ==
    {i \in Unclaimed : Cardinality({j \in Unclaimed : j < i}) < BatchSize}

Claim(w) ==
    /\ worker[w].pc = "idle"
    /\ Unclaimed # {}
    /\ worker' = [worker EXCEPT ![w] = [pc |-> "claimed", claim |-> ClaimUnpublished,
                                        send |-> {}]]
    /\ UNCHANGED <<db, topic, shard, consumer, recon, cancels, faults>>

(* Mutant: only orders that wait for their first event are sent.           *)
IsSendableStatusPending(s) == s = "PENDING"

IsSendableStatus(s) == s \in {"PENDING", "CANCELING"}

GetOrderStatusesBatch(rows) == [o \in {outbox[i].id : i \in rows} |-> status[o]]

(* dispatchBatch reads the statuses on another connection and sorts the    *)
(* rows into those to send and those to mark as published at once.         *)
ReadStatuses(w) ==
    /\ worker[w].pc = "claimed"
    /\ LET statuses == GetOrderStatusesBatch(worker[w].claim) IN
       worker' = [worker EXCEPT ![w].pc = "write",
            ![w].send = {i \in worker[w].claim : IsSendableStatus(statuses[outbox[i].id])}]
    /\ UNCHANGED <<db, topic, shard, consumer, recon, cancels, faults>>

(* Mutant: newest first.                                                   *)
PayloadsReversed(rows) == Reverse(AtPositions(outbox, rows))

(* The payloads of a set of rows, oldest first.                            *)
Payloads(rows) == AtPositions(outbox, rows)

(* WriteBatchAt succeeds.                                                  *)
WriteBatch(w) ==
    /\ worker[w].pc = "write"
    /\ topic' = topic \o Payloads(worker[w].send)
    /\ worker' = [worker EXCEPT ![w].pc = "commit"]
    /\ UNCHANGED <<db, shard, consumer, recon, cancels, faults>>

(* WriteBatchAt fails; part of the batch may have arrived.  IncrementRetry *)
(* then updates a row this worker's own open transaction has locked, on    *)
(* another connection: it waits until the service stops.                   *)
WriteBatchFails(w) ==
    /\ worker[w].pc = "write"
    /\ worker[w].send # {}
    /\ faults > 0
    /\ faults' = faults - 1
    /\ \E n \in 0..Len(Payloads(worker[w].send)) :
         topic' = topic \o SubSeq(Payloads(worker[w].send), 1, n)
    /\ worker' = [worker EXCEPT ![w].pc = "blocked"]
    /\ UNCHANGED <<db, shard, consumer, recon, cancels>>

MarkPublishedBatch(rows) == published' = published \cup rows

(* claim.Commit: rows sent and rows skipped are published.                 *)
CommitClaim(w) ==
    /\ worker[w].pc = "commit"
    /\ MarkPublishedBatch(worker[w].claim)
    /\ worker' = [worker EXCEPT ![w] = Idle]
    /\ UNCHANGED <<status, outbox, topic, shard, consumer, recon, cancels, faults>>

-----------------------------------------------------------------------------
(* The shard: the next command of the partition.                           *)

Ev(o, type) == [id |-> o, type |-> type, seq |-> pos + 1]

Duplicate(o) == o \in seen

(* A new order rests, or trades with resting ones, which leaves itself or  *)
(* the last of them in the book, or none (BuildNewOrderEvents).            *)
NewOrder(o) ==
    /\ seen' = seen \cup {o}
    /\ \/ /\ active' = active \cup {o}
          /\ events' = Append(events, Ev(o, "ACCEPTED"))
          /\ UNCHANGED filled
       \/ \E makers \in (SUBSET active) \ {{}} :
          \E left \in {{}, {o}} \cup {{maker} : maker \in makers} :
            LET Fill(x) == Ev(x, IF x \in left THEN "PARTIAL" ELSE "FILLED") IN
            /\ active' = (active \ makers) \cup left
            /\ filled' = filled \cup (({o} \cup makers) \ left)
            /\ events' = events \o <<Ev(o, "ACCEPTED")>>
                                \o SetToSeq({Fill(maker) : maker \in makers}) \o <<Fill(o)>>

(* Mutant: a cancel is confirmed and not carried out.                      *)
CancelOrderConfirm(o) ==
    /\ events' = Append(events, Ev(o, "CANCELED"))
    /\ UNCHANGED <<active, seen, filled>>

(* A cancel of an order that does not rest is confirmed all the same       *)
(* (BuildCancelEvents).                                                    *)
CancelOrder(o) ==
    /\ active' = active \ {o}
    /\ events' = Append(events, Ev(o, "CANCELED"))
    /\ UNCHANGED <<seen, filled>>

(* A new order of a symbol in read-only mode, or one that was seen before, *)
(* is acknowledged and dropped.                                            *)
Match ==
    /\ pos < Len(topic)
    /\ pos' = pos + 1
    /\ LET cmd == topic[pos + 1] IN
         \/ cmd.kind = "New" /\ ~readOnly /\ ~Duplicate(cmd.id) /\ NewOrder(cmd.id)
         \/ cmd.kind = "New" /\ (readOnly \/ Duplicate(cmd.id))
            /\ UNCHANGED <<seen, active, filled, events>>
         \/ cmd.kind = "Cancel" /\ CancelOrder(cmd.id)
    /\ UNCHANGED <<db, readOnly, relay, consumer, recon, cancels, faults>>

-----------------------------------------------------------------------------
(* The consumer of match.events: ApplyMatchEvent, then Commit.  A refused  *)
(* transition leaves the event to be read again, for ever.                 *)

Refused(ev) ==
    /\ ev \notin processed
    /\ status[ev.id] \notin Terminal
    /\ ~CanTransition(status[ev.id], ev.type)

(* The transaction of ApplyMatchEvent.  An event that was applied before   *)
(* is committed at once; after a new one the update is published.          *)
ApplyMatchEvent ==
    /\ evPos < Len(events) /\ pushing = {}
    /\ LET ev == events[evPos + 1] IN
         /\ ~Refused(ev)
         /\ status' = IF ev \in processed \/ status[ev.id] \in Terminal THEN status
                      ELSE [status EXCEPT ![ev.id] = ev.type]
         /\ processed' = processed \cup {ev}
         /\ IF ev \in processed THEN evPos' = evPos + 1 /\ UNCHANGED pushing
                               ELSE pushing' = {ev.id} /\ UNCHANGED evPos
    /\ UNCHANGED <<outbox, published, relay, shard, pushed, unpushed, recon, cancels, faults>>

(* Mutant: the update shows the event and not the order.                   *)
UpdateOfEvent(o) == [pushed EXCEPT ![o] = events[evPos + 1].type]

(* GetOrderByID and the frame: the order as it is in the database now.     *)
UpdateOf(o) == [pushed EXCEPT ![o] = status[o]]

(* PublishOrderUpdate, and Commit of the event's offset.                   *)
PublishOrderUpdate ==
    /\ pushing # {}
    /\ \E o \in pushing : pushed' = UpdateOf(o)
    /\ unpushed' = unpushed \ pushing
    /\ pushing' = {}
    /\ evPos' = evPos + 1
    /\ UNCHANGED <<db, relay, shard, processed, recon, cancels, faults>>

(* Redis refuses it: Process fails, the event is read again, and by then   *)
(* it is a duplicate.                                                      *)
PublishOrderUpdateFails ==
    /\ pushing # {}
    /\ faults > 0
    /\ faults' = faults - 1
    /\ unpushed' = unpushed \cup pushing
    /\ pushing' = {}
    /\ UNCHANGED <<db, worker, topic, shard, evPos, processed, pushed, recon, cancels>>

-----------------------------------------------------------------------------
(* The reconciler.                                                         *)

(* The orders that stayed PENDING for too long after their command was     *)
(* marked as sent.                                                         *)
FindStalePendingForReject ==
    {o \in Orders : status[o] = "PENDING" /\ \E i \in published : outbox[i] = NewCommand(o)}

(* LookupOrderPresence, asked over the shard's admin service.              *)
GetOrderPresence(o) ==
    CASE o \in active -> "in_orderbook"
      [] o \in seen \ active -> "known_not_in_orderbook"
      [] OTHER -> "unknown"

ShouldRejectAfterMatching(presence) ==
    presence \notin {"in_orderbook", "known_not_in_orderbook"}

(* rejectStalePending, up to the transaction.                              *)
FindStalePending(o) ==
    /\ o \in FindStalePendingForReject \ recon
    /\ ShouldRejectAfterMatching(GetOrderPresence(o))
    /\ recon' = recon \cup {o}
    /\ UNCHANGED <<db, relay, shard, consumer, cancels, faults>>

(* RejectStalePending: REJECTED, funds released, a cancel in the outbox.   *)
RejectStalePending(o) ==
    /\ o \in recon
    /\ recon' = recon \ {o}
    /\ IF status[o] = "PENDING"
       THEN status' = [status EXCEPT ![o] = "REJECTED"] /\ InsertCancelOutbox(o)
       ELSE UNCHANGED <<status, outbox>>
    /\ UNCHANGED <<published, relay, shard, consumer, cancels, faults>>

(* CANCELING for too long and no cancel left to send.                      *)
FindStuckCancelingForResend ==
    {o \in Orders : /\ status[o] = "CANCELING"
                    /\ \A i \in DOMAIN outbox \ published : outbox[i] # CancelCommand(o)}

(* resendStuckCancel.                                                      *)
ResendCancel(o) ==
    /\ faults > 0
    /\ o \in FindStuckCancelingForResend
    /\ faults' = faults - 1
    /\ InsertCancelOutbox(o)
    /\ UNCHANGED <<status, published, relay, shard, consumer, recon, cancels>>

Rollback == worker' = [w \in Workers |-> Idle]

(* The order service dies or is restarted: open transactions roll back,    *)
(* and the last event may be read again.  The bound on faults leaves a     *)
(* restart to a worker that is blocked.                                    *)
Restart ==
    /\ \/ \E w \in Workers : worker[w].pc = "blocked" /\ UNCHANGED faults
       \/ faults > 0 /\ faults' = faults - 1
    /\ Rollback
    /\ recon' = {}
    /\ evPos' \in {n \in {evPos, evPos - 1} : n >= 0}
    /\ unpushed' = unpushed \cup pushing /\ pushing' = {}
    /\ UNCHANGED <<db, topic, shard, processed, pushed, cancels>>

-----------------------------------------------------------------------------
(* runWorker.                                                              *)
Work(w) == Claim(w) \/ ReadStatuses(w) \/ WriteBatch(w) \/ CommitClaim(w)

(* tick of the reconciler.                                                 *)
Reconcile(o) == FindStalePending(o) \/ RejectStalePending(o) \/ ResendCancel(o)

(* The consumer of match.events.                                           *)
RunTopic == ApplyMatchEvent \/ PublishOrderUpdate \/ PublishOrderUpdateFails

Next ==
    \/ \E o \in Orders : PlaceOrder(o) \/ BeginCancel(o)
    \/ \E w \in Workers : Work(w) \/ WriteBatchFails(w)
    \/ Match
    \/ RunTopic
    \/ \E o \in Orders : Reconcile(o)
    \/ Restart

Spec == Init /\ [][Next]_vars

(* The goroutines of the relay, the consumer, the shard and the reconciler *)
(* are scheduled; users, failures and restarts need not come.              *)
FairSpec ==
    /\ Spec
    /\ \A w \in UNION {c.workers : c \in Instances} : WF_vars(w \in Workers /\ Work(w))
    /\ WF_vars(Match) /\ WF_vars(ApplyMatchEvent) /\ WF_vars(PublishOrderUpdate)
    /\ \A o \in Orders : WF_vars(FindStalePending(o)) /\ WF_vars(RejectStalePending(o))

-----------------------------------------------------------------------------
(* Properties.                                                             *)

(* Every variable has its type; rows being sent are rows of the claim.     *)
TypeOK ==
    /\ status \in [Orders -> Status \cup {"none"}]
    /\ outbox \in Seq(Command) /\ published \subseteq DOMAIN outbox
    /\ \A w \in Workers :
         /\ worker[w].pc \in {"idle", "claimed", "write", "commit", "blocked"}
         /\ worker[w].claim \subseteq DOMAIN outbox \ published
         /\ worker[w].send \subseteq worker[w].claim
    /\ topic \in Seq(Command) /\ pos \in 0..Len(topic)
    /\ seen \subseteq Orders /\ active \subseteq seen /\ filled \subseteq seen
    /\ events \in Seq(Event) /\ evPos \in 0..Len(events) /\ processed \subseteq ToSet(events)
    /\ recon \subseteq Orders

(* No event is ever refused: whatever users, relay and reconciler did to   *)
(* the order in the meantime, the transition the next event asks for is    *)
(* legal.  A refused one would stop the consumer for good.                 *)
NoEventRefused == evPos < Len(events) => ~Refused(events[evPos + 1])

(* The first cancel of the order in the partition follows the new order.   *)
CommandsInOrder(o) ==
    \A i \in DOMAIN topic : topic[i] = CancelCommand(o) =>
        \E j \in 1..i - 1 : topic[j] = NewCommand(o)

(* "单 symbol 命令与事件保序" (matching-event-outbox-design.md, I5): no cancel   *)
(* overtakes its order.                                                    *)
CancelsNeverOvertake == \A o \in Orders : CommandsInOrder(o)

(* One worker keeps that, through skipped rows, failed and partly arrived  *)
(* batches, restarts and repeated sends.  (SKIP LOCKED lets a second       *)
(* worker pass the first.)                                                 *)
CommandsOrdered == Cardinality(Workers) = 1 => CancelsNeverOvertake

(* FILLED and CANCELED are what the shard did: such an order does not rest *)
(* in the book, and a filled one was filled.                               *)
FinalAgrees ==
    \A o \in Orders :
        /\ (status[o] \in {"FILLED", "CANCELED"} /\ CommandsInOrder(o)) => o \notin active
        /\ status[o] = "FILLED" => o \in filled

(* Section 4 of architecture-spec.md, eventual consistency: once requests  *)
(* stop, no order is left PENDING or CANCELING, the orders in the book are *)
(* open in the database and the filled ones FILLED there.  Out of this are *)
(* orders rejected by the reconciler, orders whose commands were sent out  *)
(* of order, and everything while a worker is blocked.                     *)
Agrees(o) ==
    /\ status[o] \notin {"PENDING", "CANCELING"}
    /\ (status[o] # "REJECTED" /\ CommandsInOrder(o)) =>
          /\ o \in active => status[o] \in {"ACCEPTED", "PARTIAL"}
          /\ o \in filled => status[o] = "FILLED"

EventuallyAgrees ==
    <>[](\/ \E w \in Workers : worker[w].pc = "blocked"
         \/ \A o \in Orders : Agrees(o))

(* What the user was told last is how the order is, once the update that   *)
(* is on its way was published: no update is overtaken, repeated after a   *)
(* later one or skipped by the order in which rows, events and updates are *)
(* written.  Where publishing one failed or was cut short, the next one    *)
(* brings the user up to date.                                             *)
UpdatesFollow ==
    \A o \in Orders \ (pushing \cup unpushed) :
        status[o] \in {"ACCEPTED", "PARTIAL", "FILLED", "CANCELED"} => pushed[o] = status[o]

(* "写入 Cancel Outbox 通知撮合摘单" (reconcile.go): an order rejected by the     *)
(* reconciler does not stay in the book.                                   *)
RejectedLeavesBook ==
    \A o \in Orders : [](status[o] = "REJECTED" => <>(o \notin active))

(* A failed write to Kafka is retried: every row is eventually published.  *)
RowsPublished == <>[](published = DOMAIN outbox)
=============================================================================
