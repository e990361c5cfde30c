------------------------------ MODULE Candles ------------------------------
(***************************************************************************)
(* The candle service (internal/kline, cmd/kline/main.go): the aggregator  *)
(* that cuts trade.events into bars, the hand-over of closed bars to the   *)
(* worker through a Redis list and a memory queue, the worker that stores  *)
(* and publishes them, the open-bar snapshots in Redis, and restart.       *)
(*                                                                         *)
(* One symbol.  A trade is its position in the topic and its time; a bar   *)
(* is its interval, its bucket and the sequence of trades it was built     *)
(* from: open, close, high, low and volume are functions of that sequence, *)
(* so two bars differ in the code only if they differ here.                *)
(***************************************************************************)
EXTENDS Integers, Sequences, SequencesExt, FiniteSets, Subsequence

CONSTANTS Intervals,     \* the intervals, in the order the code visits them
          Duration,      \* their length
          Grace,         \* what SaveOpenBar adds to an interval for the TTL
          QueueSize,     \* ClosedQueueSize
          MaxRetries,    \* maxRetries, 3 in the code
          Limit,         \* how many closed bars a query returns
          Skew,          \* how far the shard's clock may step back
          MaxTime, MaxTrades,    \* bounds
          MaxFaults      \* bound on the failed calls and the stops together

ASSUME CandlesAssumption ==
    /\ Intervals \in Seq(Range(Intervals))
    /\ Duration \in [Range(Intervals) -> Nat \ {0}]
    /\ QueueSize \in Nat \ {0} /\ MaxRetries \in Nat \ {0} /\ Limit \in Nat \ {0}
    /\ Grace \in Nat /\ Skew \in Nat
    /\ MaxTime \in Nat /\ MaxTrades \in Nat /\ MaxFaults \in Nat

VARIABLES now,        \* the wall clock
          trades,     \* trade.events: the time of every trade
          committed,  \* how many of them the group has committed
          consumer,   \* where TradeHandler.Process is
          agg,        \* Aggregator: the open bar of each interval
          openKey,    \* Redis: kline:open:<symbol>:<interval>
          pending,    \* Redis: the list kline:pending:close, oldest first
          ch,         \* the worker's memory queue
          worker,     \* where the worker is in processWithRetry
          klines,     \* the table klines
          raw,        \* the closed bars written to kline.raw
          phase,      \* "down", "drain" (recovery.Restore) or "run"
          lost,       \* history: closed bars the process gave up on
          failures, crashes

candlesVars == <<now, trades, committed, consumer, agg, openKey, pending, ch, worker,
                 klines, raw, phase, lost, failures, crashes>>

Ivs == Range(Intervals)
NoBar == [start |-> -1]

BucketStart(iv, t) == t - (t % Duration[iv])

NewFromTrade(iv, start, i) == [iv |-> iv, start |-> start, ids |-> <<i>>]

ApplyToBar(b, i) == [b EXCEPT !.ids = Append(@, i)]

(* What Redis holds of a bar, and the bar read back from it.               *)
ToJSON(b, closed) == [bar |-> b, isClosed |-> closed]
FromJSON(j) == j.bar

(* The trade a message of trade.events decodes to.                         *)
ParseKafkaMessage(i) == [id |-> i, time |-> trades[i]]

(* Mutant: a late trade opens its bucket again.                            *)
LateReopens(iv, cur, i) ==
    LET start == BucketStart(iv, ParseKafkaMessage(i).time)
    IN  IF cur # NoBar /\ start = cur.start THEN ApplyToBar(cur, i)
        ELSE NewFromTrade(iv, start, i)

(* What one trade does to the open bar of one interval.                    *)
ApplyOneInterval(iv, cur, i) ==
    LET t == ParseKafkaMessage(i).time
        start == BucketStart(iv, t)
    IN  CASE cur = NoBar -> NewFromTrade(iv, start, i)
          [] cur # NoBar /\ t < cur.start -> cur
          [] cur # NoBar /\ t >= cur.start /\ start = cur.start -> ApplyToBar(cur, i)
          [] OTHER -> NewFromTrade(iv, start, i)

(* The bars a trade closes, in the order of the intervals.                 *)
ClosedBy(i) ==
    LET t == ParseKafkaMessage(i).time
        closes(iv) == agg[iv] # NoBar /\ t >= agg[iv].start
                        /\ BucketStart(iv, t) # agg[iv].start
        ivs == AtPositions(Intervals, {k \in DOMAIN Intervals : closes(Intervals[k])})
    IN  [k \in DOMAIN ivs |-> agg[ivs[k]]]

Idle == [pc |-> "idle"]
NoWork == [pc |-> "idle"]

CandlesInit ==
    /\ now = 0
    /\ trades = <<>>
    /\ committed = 0
    /\ consumer = Idle
    /\ agg = [iv \in Ivs |-> NoBar]
    /\ openKey = [iv \in Ivs |-> NoBar]
    /\ pending = <<>>
    /\ ch = <<>>
    /\ worker = NoWork
    /\ klines = {}
    /\ raw = {}
    /\ phase = "run"
    /\ lost = {}
    /\ failures = 0
    /\ crashes = 0

MoreFaults == failures + crashes < MaxFaults

Fail == MoreFaults /\ failures' = failures + 1

-----------------------------------------------------------------------------
(* The environment: time passes, the matching shard trades.                *)

Tick ==
    /\ now < MaxTime
    /\ now' = now + 1
    /\ UNCHANGED <<trades, committed, consumer, agg, openKey, pending, ch, worker,
                   klines, raw, phase, lost, failures, crashes>>

Trade ==
    /\ Len(trades) < MaxTrades
    /\ \E t \in {x \in (now - Skew)..now : x >= 0} : trades' = Append(trades, t)
    /\ UNCHANGED <<now, committed, consumer, agg, openKey, pending, ch, worker,
                   klines, raw, phase, lost, failures, crashes>>

-----------------------------------------------------------------------------
(* TradeHandler.Process                                                    *)

(* ApplyTrade: every interval takes the trade; what it closes is handed to *)
(* HandleClose bar by bar, then every open bar is saved.                   *)
ApplyTrade ==
    /\ phase = "run" /\ consumer = Idle
    /\ committed < Len(trades)
    /\ LET i == committed + 1
       IN  /\ agg' = [iv \in Ivs |-> ApplyOneInterval(iv, agg[iv], i)]
           /\ consumer' = [pc |-> "close", closed |-> ClosedBy(i), k |-> 1, sent |-> FALSE]
    /\ UNCHANGED <<now, trades, committed, openKey, pending, ch, worker, klines,
                   raw, phase, lost, failures, crashes>>

Closing == phase = "run" /\ consumer.pc = "close" /\ consumer.k <= Len(consumer.closed)
ClosedBar == consumer.closed[consumer.k]

(* Mutant: only the memory queue is used.                                  *)
SkipPending ==
    /\ Closing /\ ~consumer.sent
    /\ consumer' = [consumer EXCEPT !.sent = TRUE]
    /\ UNCHANGED <<now, trades, committed, agg, openKey, pending, ch, worker, klines,
                   raw, phase, lost, failures, crashes>>

(* EnqueueClosed: LPUSH to the Redis list; when it fails HandleClose logs  *)
(* and returns, and the bar is gone.                                       *)
EnqueueClosed ==
    /\ Closing /\ ~consumer.sent
    /\ \/ /\ pending' = Append(pending, ToJSON(ClosedBar, TRUE))
          /\ consumer' = [consumer EXCEPT !.sent = TRUE]
          /\ UNCHANGED <<lost, failures>>
       \/ /\ Fail
          /\ lost' = lost \union {ClosedBar}
          /\ consumer' = [consumer EXCEPT !.k = @ + 1]
          /\ UNCHANGED pending
    /\ UNCHANGED <<now, trades, committed, agg, openKey, ch, worker, klines, raw,
                   phase, crashes>>

(* The same bar also goes to the memory queue, unless that is full.        *)
SendToQueue ==
    /\ Closing /\ consumer.sent
    /\ ch' = IF Len(ch) < QueueSize THEN Append(ch, ClosedBar) ELSE ch
    /\ consumer' = [consumer EXCEPT !.k = @ + 1, !.sent = FALSE]
    /\ UNCHANGED <<now, trades, committed, agg, openKey, pending, worker, klines,
                   raw, phase, lost, failures, crashes>>

Saving == phase = "run" /\ consumer.pc = "close" /\ consumer.k > Len(consumer.closed)

SaveOpenBar(iv) == [json |-> ToJSON(agg[iv], FALSE), expires |-> now + Duration[iv] + Grace]

(* publishOpenBars: every interval is saved and published in turn, and     *)
(* RunTopic commits.  An error anywhere on the way (m intervals saved)     *)
(* ends the consumer, which nothing restarts.                              *)
PublishOpenBars ==
    /\ Saving
    /\ \/ /\ openKey' = [iv \in Ivs |-> SaveOpenBar(iv)]
          /\ committed' = committed + 1
          /\ consumer' = Idle
          /\ UNCHANGED failures
       \/ /\ Fail
          /\ \E m \in 0..Len(Intervals) :
               LET saved == {Intervals[k] : k \in 1..m}
               IN  openKey' = [iv \in Ivs |-> IF iv \in saved THEN SaveOpenBar(iv)
                                              ELSE openKey[iv]]
          /\ consumer' = [pc |-> "stopped"]
          /\ UNCHANGED committed
    /\ UNCHANGED <<now, trades, agg, pending, ch, worker, klines, raw, phase, lost,
                   crashes>>

-----------------------------------------------------------------------------
(* Worker                                                                  *)

Hold(b) == [pc |-> "insert", bar |-> b, tries |-> 0]

(* Run: the memory queue first.                                            *)
TakeFromQueue ==
    /\ phase = "run" /\ worker = NoWork
    /\ ch # <<>>
    /\ worker' = Hold(Head(ch))
    /\ ch' = Tail(ch)
    /\ UNCHANGED <<now, trades, committed, consumer, agg, openKey, pending, klines,
                   raw, phase, lost, failures, crashes>>

(* PopPendingClosed: RPOP takes the bar off the list before it is stored.  *)
(* Run does so when the memory queue is empty, DrainPending always.  A     *)
(* failed pop is tried again by Run and ends the process in DrainPending   *)
(* (see Stop).                                                             *)
PopPendingClosed ==
    /\ worker = NoWork
    /\ phase = "run" => ch = <<>>
    /\ phase # "down" /\ pending # <<>>
    /\ worker' = Hold(FromJSON(Head(pending)))
    /\ pending' = Tail(pending)
    /\ UNCHANGED <<now, trades, committed, consumer, agg, openKey, ch, klines, raw,
                   phase, lost, failures, crashes>>

(* processWithRetry starts again, or gives up after maxRetries.            *)
Retry ==
    IF worker.tries + 1 < MaxRetries
    THEN worker' = [Hold(worker.bar) EXCEPT !.tries = worker.tries + 1] /\ UNCHANGED lost
    ELSE worker' = NoWork /\ lost' = lost \union {worker.bar}

WorkerFails == worker # NoWork /\ Fail /\ Retry

Has(bars, iv, start) == \E r \in bars : r.iv = iv /\ r.start = start

(* InsertClosed: ON CONFLICT (symbol, interval, open_time) DO NOTHING.     *)
Insert(rows, b) ==
    IF Has(rows, b.iv, b.start) THEN rows ELSE rows \union {b}

InsertClosed ==
    /\ worker.pc = "insert"
    /\ \/ /\ klines' = Insert(klines, worker.bar)
          /\ worker' = [worker EXCEPT !.pc = "publish"]
          /\ UNCHANGED <<lost, failures>>
       \/ WorkerFails /\ UNCHANGED klines
    /\ UNCHANGED <<now, trades, committed, consumer, agg, openKey, pending, ch, raw,
                   phase, crashes>>

(* PublishClosed of the Redis publisher: DEL of the interval's snapshot,   *)
(* whose error is ignored, then PUBLISH.                                   *)
PublishClosed ==
    LET deleted == [openKey EXCEPT ![worker.bar.iv] = NoBar]
    IN  /\ worker.pc = "publish"
        /\ \/ /\ openKey' = deleted
              /\ worker' = [worker EXCEPT !.pc = "kafka"]
              /\ UNCHANGED <<lost, failures>>
           \/ /\ Fail
              /\ worker' = [worker EXCEPT !.pc = "kafka"]
              /\ UNCHANGED <<openKey, lost>>
           \/ /\ WorkerFails
              /\ \E k \in {openKey, deleted} : openKey' = k
        /\ UNCHANGED <<now, trades, committed, consumer, agg, pending, ch, klines, raw,
                       phase, crashes>>

(* PublishClosed of the Kafka publisher ends the bar.                      *)
PublishRaw ==
    /\ worker.pc = "kafka"
    /\ \/ /\ raw' = raw \union {worker.bar}
          /\ worker' = NoWork
          /\ UNCHANGED <<lost, failures>>
       \/ WorkerFails /\ UNCHANGED raw
    /\ UNCHANGED <<now, trades, committed, consumer, agg, openKey, pending, ch,
                   klines, phase, crashes>>

-----------------------------------------------------------------------------
(* Stop and restart.  An orderly stop drains with a context that is        *)
(* already cancelled, so it keeps no more than a crash does.               *)

Stop ==
    /\ phase # "down" /\ MoreFaults
    /\ phase' = "down"
    /\ crashes' = crashes + 1
    /\ consumer' = Idle
    /\ worker' = NoWork
    /\ ch' = <<>>
    /\ agg' = [iv \in Ivs |-> NoBar]
    /\ UNCHANGED <<now, trades, committed, openKey, pending, klines, raw, lost, failures>>

(* ScanOpenBars: the snapshots that have not expired and are not closed.   *)
ScanOpenBars(iv) ==
    IF openKey[iv] # NoBar /\ now < openKey[iv].expires /\ ~openKey[iv].json.isClosed
    THEN FromJSON(openKey[iv].json) ELSE NoBar

(* Restore: the open bars come back from their snapshots, then             *)
(* DrainPending works the list off before consumption starts.              *)
Restore ==
    /\ phase = "down"
    /\ phase' = "drain"
    /\ agg' = [iv \in Ivs |-> ScanOpenBars(iv)]
    /\ UNCHANGED <<now, trades, committed, consumer, openKey, pending, ch, worker,
                   klines, raw, lost, failures, crashes>>

DrainPending ==
    /\ phase = "drain" /\ worker = NoWork /\ pending = <<>>
    /\ phase' = "run"
    /\ UNCHANGED <<now, trades, committed, consumer, agg, openKey, pending, ch,
                   worker, klines, raw, lost, failures, crashes>>

CandlesNext ==
    \/ Tick \/ Trade
    \/ ApplyTrade \/ EnqueueClosed \/ SendToQueue \/ PublishOpenBars
    \/ TakeFromQueue \/ PopPendingClosed
    \/ InsertClosed \/ PublishClosed \/ PublishRaw
    \/ Stop \/ Restore \/ DrainPending

CandlesSpec == CandlesInit /\ [][CandlesNext]_candlesVars

(* The consumer and the worker are goroutines that run when they can, and  *)
(* a stopped process is started again.                                     *)
Fairness ==
    /\ WF_candlesVars(ApplyTrade \/ EnqueueClosed \/ SendToQueue \/ PublishOpenBars)
    /\ WF_candlesVars(TakeFromQueue \/ PopPendingClosed \/ InsertClosed \/ PublishClosed \/ PublishRaw)
    /\ WF_candlesVars(Restore \/ DrainPending)

FairSpec == CandlesSpec /\ Fairness

-----------------------------------------------------------------------------
(* GetKlines: the latest Limit closed bars in order of their open time,    *)
(* then the open bar unless the last closed one has its open time.         *)
ListClosed(iv) ==
    LET rows == {r \in klines : r.iv = iv}
        latest == {r \in rows : Cardinality({q \in rows : q.start > r.start}) < Limit}
        before(r) == Cardinality({q \in latest : q.start < r.start})
    IN  [k \in 1..Cardinality(latest) |-> CHOOSE r \in latest : before(r) = k - 1]

(* Mutant: the open bar is always appended.                                *)
NeverSame(a, b) == FALSE

SameOpenTime(a, b) == a.start = b.start

GetKlines(iv) ==
    LET closed == ListClosed(iv)
        hide == closed # <<>> /\ SameOpenTime(Last(closed), agg[iv])
    IN  IF agg[iv] = NoBar \/ hide THEN closed ELSE Append(closed, agg[iv])

Bar == {NoBar} \union [iv : Ivs, start : 0..MaxTime, ids : Seq(1..MaxTrades)]

(* Every variable holds a value of its type.                               *)
TypeOK ==
    /\ now \in 0..MaxTime
    /\ trades \in Seq(0..MaxTime) /\ committed \in 0..Len(trades)
    /\ consumer.pc \in {"idle", "close", "stopped"}
    /\ worker.pc \in {"idle", "insert", "publish", "kafka"}
    /\ agg \in [Ivs -> Bar]
    /\ \A iv \in Ivs : openKey[iv] = NoBar \/ openKey[iv].json.bar \in Bar
    /\ \A k \in DOMAIN pending : pending[k] = ToJSON(pending[k].bar, TRUE)
    /\ ch \in Seq(Bar) /\ Len(ch) <= QueueSize
    /\ klines \subseteq Bar /\ raw \subseteq Bar /\ lost \subseteq Bar
    /\ phase \in {"down", "drain", "run"}

(* The bar the trades themselves define: those of the bucket, in order,    *)
(* that came before the first trade of a later bucket (a later one is late *)
(* and applyOneInterval ignores it).                                       *)
BarOfTrades(iv, start) ==
    LET bucket(i) == BucketStart(iv, trades[i])
        inTime(i) == bucket(i) = start /\ \A j \in 1..(i - 1) : bucket(j) <= start
    IN  AtPositions([i \in 1..Len(trades) |-> i], {i \in DOMAIN trades : inTime(i)})

(* As long as the process has not stopped, a stored bar was built from     *)
(* exactly the trades of its bucket, each once and in order: whatever the  *)
(* interleaving of aggregator, queue, list and worker, the failures and    *)
(* the repeated insertion of the same bar (InsertClosed, HandleClose).     *)
BarsExact ==
    crashes = 0 => \A r \in klines : r.ids = BarOfTrades(r.iv, r.start)

(* What GetKlines answers has strictly increasing open times, restarts     *)
(* included, where an old open bar may be restored next to its stored      *)
(* copy; provided the shard's clock did not step back.                     *)
ServedInOrder ==
    (\A i \in 1..(Len(trades) - 1) : trades[i] <= trades[i + 1]) =>
        \A iv \in Ivs : LET out == GetKlines(iv)
                        IN  \A k \in 1..(Len(out) - 1) : out[k].start < out[k + 1].start

Closed(iv, start) ==
    agg[iv] # NoBar /\ start < agg[iv].start /\ BarOfTrades(iv, start) # <<>>


(* A bar the aggregator has closed is in the end stored and on kline.raw,  *)
(* also when the memory queue was full (HandleClose), unless the process   *)
(* stopped or gave up on it: LPUSH failed, or maxRetries attempts did.     *)
ClosedBarsStored ==
    \A iv \in Ivs : \A start \in 0..MaxTime :
        Closed(iv, start) ~> \/ Has(klines, iv, start) /\ Has(raw, iv, start)
                             \/ Has(lost, iv, start)
                             \/ crashes > 0

(* What docs/redis-data.md:301 says of PublishClosed: the open snapshot is *)
(* deleted "if it is still the old open", so a snapshot the worker deletes *)
(* is one of the bar it has just stored, never of the bar after it.        *)
DeletesOnlyOldOpen ==
    [][\A iv \in Ivs : (openKey[iv] # NoBar /\ openKey'[iv] = NoBar) =>
            openKey[iv].json.bar.start = worker.bar.start]_candlesVars
=============================================================================
