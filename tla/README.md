# Verification of the trading matching engine

TLA+ modules, TLC runs and TLAPS proofs for the repository
`trading_matchengine`: a spot exchange back end in Go in which an order service
(PostgreSQL), Kafka, and a sharded in-memory matching engine with a write-ahead
log together take orders, match them and report what happened.

Every module is a translation of the code under `src/`. `PROJECT.json` maps each
definition to the lines it stands for, lists the runs, the mutants that show
that each property can fail, the findings, the hazards and the theorems.

## 1. The system

    gateway --gRPC--> order service --order_outbox--> relay --Kafka order.commands-->
      matching shard (consumer -> WAL -> order books -> event outbox) -> event relay
        --Kafka match.events / trade.events--> order service, market data, candles, push

| Part | State | Operations | What is hard |
|---|---|---|---|
| Order book and matcher `internal/matching/engine`, `pkg/skiplist` | two skip lists and a map of orders per symbol | match a limit or market order, cancel, export, restore | a partial fill re-keys a maker in list and map while an iterator stands on it; exact fills |
| Shard `internal/matching/recovery`, `consumer` | log, snapshots, manifest, `seen`, staged batch | stage, commit, apply, publish, snapshot, recover | crash between any two of these; group commit; per-symbol snapshot files; where to resume reading |
| Write-ahead log `pkg/wal` | segment files, buffer, last sequence number | append, sync, rotate, close, open | torn frames, rotation at the limit, restart on an empty segment |
| Event outbox and relay `pkg/eventoutbox`, `internal/matching/eventrelay` | outbox segments, cursor in memory and in `meta.json` | append, sync, poll, publish, save cursor | workers that share a cursor, partial failures, crash before the cursor is saved |
| Order service `internal/order/service`, `repository`, `status` | orders, balances, trades, idempotency tables | place, cancel, apply match and trade events | events of two topics in any order, repeated events, late events |
| Command outbox, relay, reconciler `internal/order/outbox`, `reconciler` | `order_outbox` rows and their locks | claim, check, send, mark; reject stale, repeat cancel | workers that skip each other's locks, timeouts racing late answers, failing sends |
| Partition manager `pkg/shardmgr`, start-up check `shardbind`, `recovery/verify.go` | per process: symbol to shard table, migration phases; read-only symbols | admit, route, start and advance a migration, compare a book with the database | pods and shards that read different versions of shards.json; a partition that is not the one named; commands, rejects and events under way |
| Market data `internal/marketdata`, `pkg/tickerall` | mirror of the book, 24-hour window, last published frames; Redis keys | apply events, publish depth, ticker and ticker@all, answer queries | repeated and resent events, lost publications, also of the first snapshot after a restart, deltas that must add up |
| Candles `internal/kline`, `pkg/kline` | open bar per interval, Redis list and memory queue of closed bars, table, open-bar keys | aggregate, hand over, store, publish, restore, query | full queue, retries, late trades, a stop anywhere |
| Push `internal/push` | connections, subscriptions, a bounded queue each | register, subscribe with a snapshot, fan out, write | handshakes that race for a limit, frames between snapshot and subscription, a GET or PUBLISH that fails, channels no pattern matches |
| Index price `internal/indexprice` | last price with its time, Redis key with TTL | collect, filter, take the weighted median, publish, answer | sources that fail or disagree, silence |
| Gateway, authentication `internal/gateway`, `authserver`, `pkg/auth` | none | translate HTTP to gRPC, check tokens | - |

Concurrency: one consumer goroutine per shard under `Engine.mu`, with a
periodic snapshot and admin calls that take the same mutex; several relay
workers per service; two pods of the order service
(`deploy/k8s/manifests/order/deployment.yaml:58`) on one database and one outbox;
one consumer per topic; a reconciler on a timer. Failure: any process may die at any point, Kafka writes may fail
after part of a batch arrived, and messages are delivered at least once.

What makes the parts correct:

- matcher: the book is never crossed, list and map agree, quantity is
  conserved, fills follow price-time priority, what left the book does not come
  back;
- shard: memory never runs ahead of the durable log, no command is jumped over
  or matched twice, cancels stay in force, a restart restores the books;
- log: what was reported durable is read back, in order, with increasing
  sequence numbers;
- event relay: every event arrives, none is skipped, none overtakes an earlier
  one of its stream;
- order dispatch: commands of an order stay in order, every event can be
  applied, the user is told how the order is, database and book agree in the
  end;
- settlement: no asset is created or lost, every trade is settled once, one
  `client_order_id` is one order, and an account has frozen what its open orders
  need;
- migration: routes and shard lists agree, at no time do two shards match a
  symbol, and a shard that starts with no event under way finds its book and the
  database in agreement (with events under way it may take the delay for a
  disagreement, and nothing in the code prevents that);
- market data: the mirror is the book, listeners who merge frames have what was
  last sent, the ticker counts exactly the window;
- candles: a stored bar holds exactly the trades of its bucket, answers are in
  order, a closed bar is stored and published;
- push: connection limits hold, no version falls between snapshot and frames;
- index price: a majority of sources holds the price, silence shows.

## 2. Modules

| Module | Models | Lines of thought |
|---|---|---|
| `OrderBook` | `orderbook.go`, `matcher.go`, `snapshot.go`, `skiplist.go` as operators on a book value | A skip list is a set with a comparator: two elements are the same key when the comparator returns 0, so a maker with a new `UpdateTime` is a different key, as in the code. |
| `Matcher` | one `SymbolEngine` behind the `seen` filter | `StartNewOrder`, one `MatchStep` per iteration of `matchAgainstBook`, `MatchDone`, `Cancel`. `filled` and `start` are history. |
| `MatcherProofs` | theorems about `Matcher` | section 5 |
| `DurableShard` | `recovery.Engine`, `group_commit.go`, the consumer, shutdown and restart | Matching is a deterministic function of the book, so a book is the sequence of commands applied to it. `Batched` selects `runBatched` or `runSequential`. |
| `DurableShardProofs` | theorems about `DurableShard` and `WalFile` | section 5 |
| `DurableLog` | abstract: a log with a durable prefix | what `DurableShard` takes the log to be |
| `WalFile` | `pkg/wal`: segments, buffer, sync, rotation, reopen, torn frames | implements `DurableLog` (`L == INSTANCE DurableLog WITH ...`): the abstract log is what a crash has kept, followed by the buffer, and a start that succeeds must have read all of the former |
| `EventRelay` | `pkg/eventoutbox`, `eventrelay/relay.go` | each worker of `pollOnce` is a small program over the shared cursor and `meta.json` |
| `EventRelayProofs` | theorems about `EventRelay` | section 5 |
| `OrderStatus` | `status/machine.go` | shared by the modules below that have orders with a status |
| `OrderDispatch` | placing, cancelling, `outbox/relay.go`, `match_apply.go`, the status machine, the reconciler, and the shard seen from outside | composes the order service with the shard's answers; the shard's crashes and the event relay are in the modules above |
| `OrderDispatchProofs` | theorems about `OrderDispatch` | section 5 |
| `Settlement` | `service/order.go`, `InsertPending`, `freeze.go`, `balance_ops.go`, `balance_update.go`, `match_apply.go`, `trade_apply.go`, `publisher/events.go` and the book | composes the order service with a matching book and the two topics between them; each database transaction is one step, because it locks the rows it reads |
| `SettlementProofs` | theorems about `Settlement` | section 5 |
| `ShardMigration` | `pkg/shardmgr`, `shardbind`, `recovery/verify.go`, and the parts of the order service and the shard that use them | every pod of the order service and every shard has the manager it read at its start; the operator of the runbook writes the file; the pods share one outbox and each has a reconciler; a row may reach another partition than the one named |
| `ShardMigrationProofs` | theorems about `ShardMigration` and `Candles` | section 5 |
| `MarketData` | `internal/marketdata`, `pkg/tickerall`, the depth loop of `cmd/marketdata`, and a shard that produces its events | the mirror is compared with the shard's book; `ear` and `allEar` are listeners who merge frames |
| `Candles` | `internal/kline`, `pkg/kline`, `pkg/tradeevent` | a bar is the sequence of trades it was built from |
| `Push` | `internal/push` | a channel is a stream of versions with a snapshot key; SET and PUBLISH are two steps, and the fan-out gets a channel only if one of its patterns matches the name |
| `MarketDataProofs` | theorems about `MarketData`, `Push` and `IndexPrice` | section 5 |
| `IndexPrice` | `internal/indexprice` | prices are small integers, ages are counted in ticks |
| `Subsequence` | the loop that walks a list and keeps some of it (`FetchUnpublished`, the replay of the log, the rows of a claim) | `AtPositions(s, chosen)`, a recursive function, so that it can be proved about |
| `InductionFacts` | lemmas about natural numbers, finite sets, loops, sums and sequences | section 5 |
| `MC...` | instances for TLC | |

How they fit: `Matcher` justifies "a book is a sequence of commands" in
`DurableShard`; `WalFile` implements the log of `DurableShard` (append, sync,
crash that keeps the synced prefix); `EventRelay` carries the events of
`DurableShard` to the topic `OrderDispatch` reads in order; `OrderDispatch`
produces the partition `DurableShard` consumes, repeated commands included.
`Settlement` takes the way of a command for granted (`OrderDispatch`), uses the
matching rules `Matcher` takes apart, and adds what the events carry and what
the order service does with money because of them. `ShardMigration` puts two
shards next to each other, with the status machine of `OrderStatus`; its shards
stop and start with their books intact, since `DurableShard` is about the rest.
`MarketData` and `Candles` read the topics `EventRelay` fills, repetitions
included, and `Push` hands on what `MarketData` publishes.

State and code. Variables keep the names of the fields they model
(`orderMap`, `seen`, `snapshotSeq`, `pending`, `lastSeq`, `published`);
the comment at each declaration says which. Volatile state is lost in one place
(`VolatileLost`, `Restart`, `Crash`). Actions keep the names of the functions;
where a function gives up a lock, waits for a disk or for Kafka in the middle it
is split there (`Stage`/`CommitBatch`/`ApplyItem`/`PublishItem`,
`SaveSymbol`/`SaveManifest`, `Claim`/`ReadStatuses`/`WriteBatch`/`CommitClaim`),
and nowhere else.

Abstractions that matter to a reader:

- prices and quantities are small naturals (decimals in ticks); time is a
  non-decreasing reading that may repeat;
- in `DurableShard` one run covers both ways of consuming: the mode is chosen
  in `Init`;
- in `DurableShard` the failure of a disk write that leaves the process running
  is not modelled; a crash may lose any part of the unsynced log;
- snapshot files are written atomically (the code writes and renames);
- in `DurableShard` any set of symbols may be read-only after recovery; what the
  comparison with the order service finds is in `ShardMigration`;
- in `WalFile` all frames have the same size, so rotation is counted in frames;
- in `EventRelay` a crash keeps what was handed to the operating system unless
  `PowerLoss` is true;
- in `OrderDispatch` timeouts may fire at any time (they race what is late), the
  shard is in one mode for the whole run, handles one command at a time, and
  orders are limit orders;
- in `Settlement` there is one symbol, a command is matched in one step and a
  restart of a consumer reads one event again. A market buy is frozen at a
  protection price or at `Reference`, which stands for the market data service.
  `Unit` is the precision of the quote asset: with `Unit = 4` a price of 6 is
  rounded;
- in `Settlement` a row of `account_balances` is the part that can be frozen and
  the frozen part, as `lockFunds` leaves them; what a user holds is the sum;
- in `ShardMigration` what a new order meets in the book is a choice: it trades
  with any number of makers, the last of them possibly in part, and rests or not.
  Rows leave the outbox in order (`OrderDispatch` has the ones that do not), and a
  shard stops and starts with its books intact (`DurableShard` has crashes). The
  operator follows the runbook (`system-architecture-interview.md`, Q62) and waits
  for the commands to be consumed; a book is copied to a shard once, and the
  target is a shard that is not running and is started, in step 6, for the one
  symbol that moves to it. The runbook does not say to wait until every process
  has read the file. Three things the runbook, the pods or the Kafka client leave
  open are taken by the model and noted in `breaches`: the operator goes on before
  every process has read the file ("hasty"), an order is admitted while the pods
  route its symbol differently ("early"), the partition reached is not the one
  named ("astray"). `Allowed` says which of them an instance takes;
- in `MarketData` and `Candles` there is one symbol; a failed call to Redis,
  PostgreSQL or Kafka may happen at each of them, `MaxFaults` times in all. An
  orderly stop of the candle service drains with a context that is already
  cancelled, so it is modelled like a crash;
- in `WalFile` a start that meets a tear reads nothing and fails
  (`reader.go:47`); that `DurableShard` then cannot start is not modelled there, so
  its recoveries are those of logs that can be read;
- in `MarketData` joining the ticker@all stream from the REST snapshot is one
  step;
- in `Push` all connections are of one subject; a client keeps the set of versions
  it got, and a frame is written to it whole (the WebSocket library writes a
  message in one piece);
- in `IndexPrice` the honest sources quote within a range and the others
  anything; which sources answer changes at any time.

## 3. Runs

Runs that pass. Where a run has a CONSTRAINT (in its MC module), it joins searches
that one instance would multiply; what it leaves out is named.

| Run | Instance | Shows |
|---|---|---|
| `matcher` | 3 ids, 2 prices, quantities to 2, 2 clock readings, 4 commands | `BookUncrossed`, `MapAgreesWithLevels`, `QuantityConserved`, `MakerOncePerCommand`, `FillsFollowPriority` (against a reference definition of what each maker is owed), `GoneForGood` |
| `shard` | sequential and in batches of 2; 2 symbols with an order each, one of which is refused after logging; 3 commands, snapshots by count, on a schedule and at exit, 1 crash, 1 stop. `SmallBatches`: in batches there is a crash or a stop, not both, and the third command is about the same order as the first two | `WalBeforeMemory`, `NoCommandSkipped`, `CommandsConsumed`; one at a time also `NoDoubleMatch`, `OrderlyRestartsComplete` and `CancelSticks` (the labels of the two symbols keep together) |
| `wal` | both sync modes, segments of 3, 5 appends, 3 restarts, frames torn in both ways | refinement of `DurableLog`, `SeqIncreasingBeforeRotation` |
| `relay` | 2 workers, 2 streams, 3 records, segments of 2, 1 failure, 1 crash | `NothingSkipped`, `DeliveredInOrder`, `EventsDelivered`, each as long as `outbox_seq` increases |
| `dispatch` | 2 orders, batches of 2, a user cancel; 1 worker with a fault (partly failed write, refused update, repeated cancel, restart), or 2 workers | `NoEventRefused`, `CommandsOrdered` (1 worker), `FinalAgrees`, `UpdatesFollow` (the update after a failed push included), `EventuallyAgrees` |
| `settle` | 2 users, 3 orders out of 8 requests (limit and market, two with one key, some the rules refuse), rounding, batches of 2, a cancel, a withdrawal that may be repeated, and one of: an event read again, a repeated cancel, a stale reject | `HoldingsFollowTrades`, `OneOrderPerKey`, `FundsStayFrozen`, `TradesSettle` |
| `migration` | 2 pods, 2 symbols, 2 shards, 3 orders, 2 cancels (the second also as the reconciler's repetition), 1 migration, 1 extra start, reconcilers, no breach. `FewOrders`: two orders with a cancel, rejects and an extra start; three (a taker that meets two makers) with none of these; or two with two cancels, no reject and no extra start | `IndexAgrees`, `OneShardMatches`, `NoFalseMismatch` |
| `marketdata` | 3 commands of 4 shapes, trades 0, 1 or 2 ticks apart and a window of 1, depth of 1 level, 2 faults. `FewAtOnce`: two commands with both faults; a third command for the mirror and the queries, before anyone listens; or trades at different times for the ticker alone | `MirrorAgrees`, `DepthFollows`, `TickerAllFollows`, `WindowExact` |
| `candles` | 3 trades, 2 intervals, a clock that may step back, memory queue of 1, 2 attempts, 2 faults | `BarsExact`, `ServedInOrder`, `ClosedBarsStored` |
| `push` | 2 retail connections and 2 market makers of one subject, limits of 1 and 3; 3 channels, queues of 1, 2 frames, 3 requests, a GET or PUBLISH that fails. `HandshakesOrRequests`: four handshakes and nothing else, or one connection of each kind with requests and frames | `ConnectionLimit`, `NothingMissed` |
| `index` | 3 sources, the heaviest of which quotes freely | `MajorityHolds`, `SilenceShows` |

`SmallBatches` is the only constraint of a run with a liveness property. It leaves
out only steps that are not fair (commands, crashes, stops), so every behaviour
TLC considers is one of the specification, and no obligation to go on is cut off.

In one run, `shard_crash_books`, TLC finds the violation of what a document says
(section 4).

The properties that leave something out say so:

- `NoDoubleMatch`, `CancelSticks` and `OrderlyRestartsComplete` speak of the
  sequential consumer, `CancelSticks` also only of histories in which no crash
  fell between the snapshot files of two symbols;
- `ImplementsDurableLog` speaks of starts that succeed,
  `SeqIncreasingBeforeRotation` of the first segment;
- `CommandsOrdered` speaks of one relay worker, `FinalAgrees` and
  `EventuallyAgrees` of orders whose commands arrived in order, the latter also
  not of rejected orders or while a worker is blocked;
- `UpdatesFollow` leaves an order out from a failed publication to the next
  successful one;
- `FundsStayFrozen` and `TradesSettle` speak of regular accounts (`Regular`: none
  of its orders filled in more than one trade or in part, no market buy above its
  freeze, none in the shard although rejected, no cancel confirmed twice; the other
  accounts may be as irregular as they like). A better price or rounding leaves
  more frozen than is needed, so equality is asserted only where neither occurs
  (`ComesOutEven`);
- `OneShardMatches` and `NoFalseMismatch` speak of histories without a breach
  (section 2), the latter of starts with no event under way and of orders other
  than those the reconciler rejected while their command was waiting;
- `MirrorAgrees` speaks of a consumer that has read everything and was not
  restarted; of an order that took liquidity before it rested, and has not traded
  since, it asserts only that at least what is left is shown; `GetOrderBook` is
  checked for its best level;
- `DepthFollows` leaves a listener out that has the depth from before a restart and
  lost the first snapshot after it, `TickerAllFollows` one whose first snapshot was
  ahead of the frames;
- `WindowExact` speaks of trades delivered once, to a service that was not
  restarted;
- `BarsExact` and `ClosedBarsStored` speak of a process that did not stop,
  `ClosedBarsStored` also not of a bar whose LPUSH failed or that was given up
  after its attempts;
- `NothingMissed` speaks of clients that lost nothing to a full queue, of channels
  the patterns of the fan-out match and whose key could be read, and of frames
  whose PUBLISH did not fail.

Without these restrictions they do not hold; what contradicts a document or a
comment is in section 4. `HoldingsFollowTrades`, `OneOrderPerKey`,
`WalBeforeMemory`, `NoCommandSkipped`, `NoEventRefused`, `ConnectionLimit` and
`IndexAgrees` hold in all histories of their models.

`TypeOK` of the modules that define it holds with the constants of their runs;
the runs do not list it. For `Matcher`, `DurableShard`, `WalFile`, `EventRelay`,
`OrderDispatch`, `Settlement` and `Candles` it is proved.

Why the bounds are enough. The hazards need few actors: two orders meet or
repeat each other; a third makes a queue at one price or a second maker; three
commands fill a batch of two and start another; a crash and an orderly stop, in
either order and at any step, lie before, in or after a command and a recovery,
and one of them in or after a batch; three records exceed a segment of two
and a batch of two; one migration passes every
phase with processes on either side of each; three trades close a bar of the
long interval after one of the short; a queue of one is full with the second
element; two handshakes race for one place; two pods are enough for one to be
behind the other, and three orders for a taker with two makers; steps of 0, 1 and
2 ticks with a window of 1 put a trade inside it, on its boundary and outside.
Deadlock checking is off because every instance ends when its bounds are used up; that work goes on until
then is what the liveness properties say.

Fairness. `FairSpec` is weak fairness of goroutines that loop until the service
stops: the consumer and the supervisor that restarts a dead process
(`DurableShard`; the deployment manifests restart the container), the relay
workers and the sync at the end of every handler (`EventRelay`), the relay, the
consumer, the shard and the reconciler (`OrderDispatch`), the shard and the two
consumers (`Settlement`), the consumer and the worker of the candle service and
its restart (`Candles`), the ticker of the index engine and time itself
(`IndexPrice`). Users, crashes, failures, periodic snapshots and stops are
never fair: they may or may not happen, a bounded number of times.

## 4. Findings

`recover()` fills `seen` from the whole log before it replays the log, and the
replay skips orders in `seen`: orders accepted since the last snapshot are
missing after a crash (`shard_crash_books`; `recovery/engine.go:384, 505`).
`OrderlyRestartsComplete` shows that orderly exits hide it: they take a snapshot
first.

Further disagreements between code and documents, and limits of what the code
keeps. Each is stated as a property of its module and refuted by TLC with the
constants given (otherwise those of the run of the module, without its
CONSTRAINT); they have no run of their own.

| Property | Constants | Code and text |
|---|---|---|
| `Matcher!RestingOrdersKeepTheirPlace` | 3 ids, price 1, quantities to 2, times {0, 1}, 3 commands | a partly filled maker gets a new `UpdateTime` and goes behind orders at its price that came later (`matcher.go:72`); `docs/matching-api.md:196` "价格-时间优先" |
| `DurableShard!OrdersMatchedOnce` | batches of 2, no refused order, 2 commands, no crash | a staged order is looked up in `seen`, which is extended when the batch is applied: two copies of an order in one batch are both matched (`group_commit.go:55`); `docs/matching-api.md:198` "幂等忽略（不重复撮合）" |
| `DurableShard!CancelsNeverUndone` | sequential, 2 symbols, no refused order, 3 commands, 1 crash | a crash between the snapshot files of two symbols: recovery starts after the larger label for both, and the cancels of the other up to it are not replayed (`engine.go:434`); `architecture-spec.md:574` takes the label of the manifest, which is written last |
| `DurableShard!CancelsNeverUndone` | batches of 2, 1 symbol, 2 commands, 1 crash | a snapshot between two staged messages is labelled with the last record logged and does not contain it (`engine.go:545`): a cancel staged before it is lost by the crash; `architecture-spec.md:547` "已应用到的" (applied) |
| `DurableShard!RecoveredBooksComplete` | batches of 2, 1 symbol, 1 refused order, 2 commands, no crash | an order that fails after the batch was logged stops the consumer; the commands behind it are not applied, and the exit snapshot is labelled as if they were (`group_commit.go:139`); `architecture-spec.md:520` |
| `DurableShard!EventsNotLost` | sequential, 1 symbol, 2 commands, 1 crash | after a crash between apply and the writing of the events the command is not read again (`batch.go:18`); `matching-event-outbox-design.md:32` "可恢复、可重投" |
| `WalFile!SeqStrictlyIncreasing` | `Tears` {}, 4 appends, 2 restarts | a start right after a rotation finds the latest segment empty and numbers from 1 again (`writer.go:105`); `writer.go:32` "seq 必须严格递增" |
| `WalFile!OpenSucceeds` | `Tears` {"partial"}, 4 appends, 2 restarts | a torn frame makes this and every later start fail (`record.go:134`, `writer.go:360`); `architecture-spec.md:530` |
| `WalFile!DurableReadable` | `Tears` {"lenOnly"}, 4 appends, 2 restarts | a frame cut after its length is taken for the end of the segment, the writer appends behind it, and what it then syncs is never read (`record.go:134`, `writer.go:111`); `architecture-spec.md:530` |
| `EventRelay!InOrderPerSymbol` | no failure, no crash | two workers send the same records, an earlier one again behind a later one (`relay.go:98`); `matching-event-outbox-design.md:229` "每 worker 内保序" |
| `EventRelay!NothingEverSkipped` | those of `relay` | `outbox_seq` begins again below the saved cursor after a restart on an empty segment (`eventoutbox/writer.go:92`); `matching-event-outbox-design.md:58` "至少一次" |
| `EventRelay!NothingSkipped` | `PowerLoss` TRUE | the relay reads records that are not synced (`reader.go:56`) |
| `OrderDispatch!CancelsNeverOvertake` | those of `dispatch` | SKIP LOCKED lets a cancel overtake its order (`outbox_claim.go:18`; `configs/order.json:49` sets 4 workers); `matching-event-outbox-design.md:59` "保序" |
| `OrderDispatch!RejectedLeavesBook` | those of `dispatch` | an order the reconciler rejects while its command is queued stays in the book: the cancel row written for it is not sendable (`outbox/relay.go:174`); `reconcile.go:14` "通知撮合摘单" |
| `OrderDispatch!RowsPublished` | those of `dispatch` | after a failed write `IncrementRetry` waits for the row lock of the worker's own transaction (`outbox/relay.go:223`); `architecture-spec.md:455` "失败指数退避重试" |
| `Settlement!AvailableCanBeFrozen` | those of `settle` | `lockFunds` moves what it freezes out of `balance` (`balance_ops.go:24`) and `Available` takes `frozen` off once more (`balance_query.go:22`): the amount shown is too small by what is frozen, and can be negative; `docs/rest-api.md:446, 474, 476` call `balance` the total |
| `Settlement!SurplusReleased` | `Request <- Cheaper`, `Unit` 1, `BatchMax` 1, 2 orders, no cancels, no extras | what a better price saves is never released: `RemainingFreeze` is zero once `filled_quantity` is the quantity (`freeze.go:71`); `docs/design/market-buy-freeze.md:116` "多余冻结在成交结算阶段释放" |
| `Settlement!ReleaseIsIdempotent` | `Request <- Twos`, 2 orders | the second CANCELED event of an order that was cancelled twice releases its freeze again, out of what other orders have frozen (`match_apply.go:56`); `balance_ops.go:62` counts on finding nothing |
| `Settlement!TradesNeverRefused` | `Request <- Twos`, `BatchMax` 1, no cancels, no extras | of an order filled by two trades whose FILLED event is applied before them, the first trade releases the funds of the second, which is refused whenever it is read again (`trade_apply.go:115`); `match_apply.go:56` says this is avoided |
| `Candles!DeletesOnlyOldOpen` | those of `candles` | the worker deletes the open-bar key also when it holds the next bar (`publisher/redis.go:70`); `docs/redis-data.md:301` "若仍为旧 open" |
| `MarketData!DepthRecovers` | 2 commands, `Steps` {0} | the PUBLISH of the first snapshot after a restart fails and is forgotten (`redis_publisher.go:150`, `main.go:191`): who has the depth from before keeps its old levels under all later deltas; `docs/redis-data.md:19` allows lost messages because of snapshot and increments |
| `MarketData!TickerAllFollows` without `~ahead` | those of `marketdata` | the snapshot key is set before the frame is published; when that fails, who starts from the key has fields the next deltas do not mention (`tickerallpub/publisher.go:78`) |
| `Push!EveryStreamDelivers` | `Channels` {"ticker@all"}, its `Prefix` "ticker@all", requests for it | a subscription is accepted and its snapshot sent, but no pattern of the fan-out matches the channel (`redis_subscriber.go:24`), on which `pkg/tickerall/ws.go:47` publishes: no frame ever arrives; `docs/rest-api.md:916, 929-934` |
| `Push!SnapshotFirst` | those of `push` | `SetSubscribed` (`ws.go:131`) comes before the confirmation and the snapshot are written, and `writePump` is another goroutine (`ws.go:159`): a delta can be written before the snapshot it belongs to; `docs/rest-api.md:933-934`, comment `ws.go:158` |
| `ShardMigration!RunbookKeepsRedLine` | 2 orders, `Allowed` {"early"} | admission and routing use the files two different pods have read (`manager.go:63`, `relay.go:256`; `deployment.yaml:58` has two replicas on one outbox): a pod at cutover admits an order that a pod at drain sends to the source; `system-architecture-interview.md:932` "禁止迁移窗口内两 shard 同时消费同一 symbol". The trading gate of its line 921 is not implemented |
| `ShardMigration!RunbookKeepsRedLine` | 1 pod, 2 orders, `Allowed` {"astray"} | the writer has the balancer `LeastBytes` (`pkg/kafka/writer.go:87`): a command may reach another partition than the one named; the comment at `writer.go:109` says it is written there |
| `ShardMigration!PhasesInOrder` | 1 pod, 2 orders | `SetMigrationPhase` takes "complete" from every phase (`migration.go:78`); its comment, line 65, says "必须按序" |

## 5. Proofs

Every theorem below is about the specification of a module (`Spec`, or
`WalSpec`, `CandlesSpec` and their like) without its fairness and holds for all values of
the constants: any number of orders, symbols, workers, records, crashes and
restarts. The assumptions are the ones named `...Assumption` in the modules
(sets are finite where the code counts them, sizes are positive naturals); TLC
evaluates them in the runs. Where a theorem has a hypothesis of its own, it is
named here with the reason.

| Module | Theorem | Property of a run |
|---|---|---|
| `MatcherProofs` | `NeverCrossed`, `ViewsAgree`, `Conservation`, `TradesDistinct`, `PriorityKept` | `BookUncrossed`, `MapAgreesWithLevels`, `QuantityConserved`, `MakerOncePerCommand`, `FillsFollowPriority` |
| | `FinalIsFinal` (an action property) | `GoneForGood` |
| `DurableShardProofs` | `LogBeforeMemory`, `NothingSkipped` | `WalBeforeMemory`, `NoCommandSkipped` |
| | `MatchedOnce`, `OrderlyComplete`, `CancelledForGood` | `NoDoubleMatch`, `OrderlyRestartsComplete`, `CancelSticks` |
| | `WalSeqIncreasing`, `WalImplementsLog` (a refinement) | `SeqIncreasingBeforeRotation`, `ImplementsDurableLog` |
| `EventRelayProofs` | `AtLeastOnce`, `NoOvertaking` | `NothingSkipped`, `DeliveredInOrder` |
| `OrderDispatchProofs` | `ConsumerNeverStuck`, `FinalIsFinal`, `UserIsUpToDate`, `NoCancelOvertakes` | `NoEventRefused`, `FinalAgrees`, `UpdatesFollow`, `CommandsOrdered` |
| `SettlementProofs` | `OneOrderPerClientKey`, `HoldingsExact`, `FundsKept` | `OneOrderPerKey`, `HoldingsFollowTrades`, `FundsStayFrozen` |
| `ShardMigrationProofs` | `IndexFollowsRoutes`, `MatchedByOneShard`, `CheckFindsNothing` | `IndexAgrees`, `OneShardMatches`, `NoFalseMismatch` |
| | `StoredBarsExact`, `ServedSorted` | `BarsExact`, `ServedInOrder` |
| `MarketDataProofs` | `MirrorIsTheBook`, `DepthListener`, `TickerListener`, `TickerOfWindow` | `MirrorAgrees`, `DepthFollows`, `TickerAllFollows`, `WindowExact` |
| | `LimitsHold`, `NoFrameMissed` | `ConnectionLimit`, `NothingMissed` |
| | `MajorityRules` | `MajorityHolds` |

With these every safety property the runs check is proved; what is left to the
runs is liveness. `TypeCorrect` (`TypeOK`) is proved for `Matcher`,
`DurableShard`, `EventRelay`, `OrderDispatch` and `Settlement`; `WalTypeCorrect` and
`CandlesTyped` say the same of `WalFile` and `Candles`. Each argument is an inductive invariant; one lemma per
action, or per group of actions that change the same variables, shows that it is
kept.

**Matcher.** `IInv` adds three facts to the properties. `BookAgrees`: list and
map hold the same record under the same id; `MapAgreesWithLevels` equates sets
and does not say that an order is filed under its own id, which `RemoveOrder`
and `FillMaker` need. `Accepted`: resting ids and the taker were accepted, the
taker is not in the book, an id not yet accepted never traded; without it a new
order could start with a non-zero `filled`. `MakersAreGone`: while the taker has
something left, the makers it traded with are no longer in the book, since only
the last iteration leaves a maker partly filled. `FinalIsFinal` follows from
`IInv` and a case split. `PriorityKept` needs `ByPriority` as well: a maker has
traded only if all ahead of it have traded all they had, what was traded is what
the taker got, and as long as the taker has something left the list holds those
that have not traded, as they were. When the loop is over, the sums of
`FillsFollowPriority` follow by splitting the makers into those ahead of one and
the rest.

**DurableShard.** The proofs build on each other. `Types` adds to `TypeOK` that
record i of the log has number i. `Synced`: past the sync the whole log is
durable, and what a batch is going to apply is in the log; with it
`WalBeforeMemory` is inductive. `Coverage`: every prefix of the log covers the
commands before the one its last record came from, so that covering survives a
crash that cuts the log anywhere, and `seen` holds only logged orders. For
`runSequential`, `Sequential` says that at most the last record of the log is
not applied (`Unapplied`), that the log holds each order once and that books and
files are in the order of the log; `Snapping` that a snapshot is labelled with
the last record, although it may be taken between the two steps of handling a
message. `Complete` (no crash yet: each effective record is in its book, or in
the newest file when the process is down) gives `OrderlyComplete`. For
`CancelledForGood` the replay must miss no cancel of any symbol, although it
begins behind the largest label of all files: `LabelsKept` says that outside a
round of `writeSnapshots` the newest files of all symbols have one label and
within one those already saved have the new one, and `CancelsKept` that each
logged cancel is in its book and in every file whose label covers it. A crash
within a round breaks the first, and the property with it, as section 4 says;
`torn` remembers it, and it is the only case left out, for any symbols.
`MatchedOnce`, `OrderlyComplete` and `CancelledForGood` speak of
`runSequential`, as their properties do.

**Write-ahead log.** The abstract log is what has been kept, that is, reported
durable or left whole by a crash (`kept`), followed by the buffer; the former is
its durable part. Each step of the writer appends to it, makes all of it durable,
cuts its end or leaves it; a rotation is a sync here, since it flushes the old
file before it opens the next. The link to the files is `KeptRead`: as long as no
segment has a tear the reader cannot get past, what it reads is what was kept. A
start that meets such a tear fails and reads nothing, so that it changes the
abstract log in no way; a start that succeeds has read the segments to their ends
(`OpenReads`). `WalImplementsLog` therefore needs no hypothesis about tears, and
says of starts that succeed only; what a tear costs is in section 4 (`OpenSucceeds`,
`DurableReadable`). `WalSeqIncreasing`: in the first segment the records, torn ends
and buffer rise and end at `lastSeq` (`Ordered`), and what is read is a beginning
of them.

**EventRelay.** `Relayed`: whatever has arrived or is on its way was written,
and a cursor, in memory, in `meta.json` or in a worker, is 0 or the number of a
record that has arrived; while the numbers increase, the records that have
arrived are the first of the outbox, and what lies before a record a worker has
fetched has arrived or is ahead of it in the same worker. Both theorems have the
hypothesis `PowerLoss = FALSE`: the relay sends records that are not synced, so a
power loss can take what was sent (section 4). Crashes of the process are
covered.

**OrderDispatch.** `Truth` says what a status, an event and the book mean:
`EventsTrue` (an event says what happened to the order; a PARTIAL comes after
the ACCEPTED of its order), `BookTrue` (a filled order does not rest, nor one
whose cancel was handled after it), `StatusTrue` (a status is one the shard
reported, and what was read was applied), `Placed` (nothing is about an order
that is not there). It gives `ConsumerNeverStuck` and `FinalIsFinal` for any
number of workers. `UserIsUpToDate`: `UpdatesFollow` is inductive with the types;
a failed publication puts the order aside until the next successful one, which
sends the status the row then has.
`NoCancelOvertakes` is about a service with one worker, as the property says:
`RowsInOrder` (a cancel row lies after its order's), `SentFirst` (a row is marked,
and an order has left PENDING or CANCELING, only after its command was sent) and
`ClaimTrue` (the worker holds the oldest rows, and sends with a cancel its order
unless that was sent before).

**Settlement.** `IInv` is `Types`, `Keys` and `Books`. `Keys` is about the table:
two orders with one key are one, and an answer names an order that has the key it
was asked for; the lookup before the transaction may miss an order, so only the
primary key inside it carries the argument. `Books` is the equation of
`HoldingsFollowTrades`; it is inductive only with `Types`, which says what an
amount can be, and that a row's balance and its frozen part are kept apart:
requests under way were found valid, so an order has a size;
`filled` is at most what was asked for, also when an event sets it, because what
rests is at most what was asked for, so nothing negative is released and no
account overdrawn; and the two orders of a trade are in the table and on opposite
sides, so what one pays the other gets. The step that matters is
`ApplyTradeEvent`. `SettleBoth`: the two sides are settled one after the other on
the same accounts, and who trades with himself has what he had. `GainedMore`: one
more trade adds exactly what it says to the sum over the rows that `ListTrades`
shows. `GainedSame`: the other rows are shown as before, since an order keeps its
user and its side (`Grows`). Locks and releases move money within a row
(`LockKeeps`, `ReleaseKeeps`). `Trades` and `BookAfter` are shown to give trades
of orders that rest (`TradesGood`) and no more than rested (`BookAfterGood`),
from any arrangement of the makers, so the order among them plays no part.

`FundsKept` needs much more, because the two consumers settle an order from
different topics. `AllInv` follows an order from its command to the event that
ends it. In the shard (`CoreInv`): an order rests, trades and is cancelled only
after its one opening command; a trade that fills an order is its only one
(`OnlyTrade`); none comes after its cancel (`NoTradeAfter`). In the topics
(`TellInv`): the FILLED event lies before any CANCELED event of the order
(`FilledFirst`), and what an event calls filled was traded by a trade written
with it (`FillTold`). In the database (`ReadInv`): what was read was applied, a
status comes from an event, a filled quantity from a trade. These hold in all
histories; the rest is about one account, whatever the others do. In the histories
of `Regular` a traded order of the account is never CANCELED or REJECTED
(`EndsByTrade`), which is why a release and a settlement never meet on one order,
whichever topic is ahead. `FrozenAgrees` says what an account has frozen: for an
order that is open what was locked for it, for one that ended what rounding or a
better price left over. It is kept by each action, which changes what is frozen
for at most the two orders of a trade, and the accounts by the same
(`SumChanges`). The theorem compares that with what the open orders need
(`Needs`, which counts nothing for an order that ended): no term is less, and each
is the same if all comes out even. `Regular` is about the whole history, so a state in which it holds comes from one
in which it held (`RegularBefore`). `PagesShowAll` shows that the pages of
`ListOrders` together are the table, for any page size, which makes the theorem
one about what a user is shown. `TypeCorrect` adds to `AllInv` that nothing rests
with less than nothing: each trade takes what its maker has or what the ones
before it left, so that together they take no more than the order asked for
(`GivenFits`), and a maker is met once.

**ShardMigration.** `IndexInv` adds `FromWhereItIs` to `IndexAgrees`: a
migration remembers the route its symbol has, because `rebuildShardIndex` takes
the symbol off the list of the shard the migration names. The other two theorems
need `MigrationInv`, which states what nobody writes down in one place:
`Placement` (the route of a symbol leads to a running shard with its book, the
target of a migration is down until it has it and belongs to one symbol),
`RouterFollows` (how far each pod may be behind the file in each phase),
`CommandsFollow` (where commands are under way to; none that creates an order
while the symbol is stopped), `CommandOnce` (an order is not there, under way, or
seen by one shard; while its command is under way it may be REJECTED already) and
`BookFollows` (book, events under way and database tell one story: what rests is
neither FILLED nor CANCELED nor about to be, and what the database has as PARTIAL
rests or is about to end). They hold until a breach is noted
(`UnbreachedInv`), for any number of pods with their reconcilers, and takers that
trade with any number of makers; orders are finitely many (`ShardMigration`'s
assumption), so that the makers of a taker can be put in order. That
`breaches = {}` is needed in both theorems is shown by TLC (section 4).

**Candles.** `StoredBarsExact` is about bars wherever they are: handed over,
queued, listed in Redis, held by the worker or stored (`Known`). While the process
has not stopped, each of them is complete, that is, has all the trades of its
bucket and one of a later bucket has come, and each open bar has the trades of
its bucket among those applied so far (`ExactInv`). A later trade settles a bar
for good, because a trade that is late for its bucket is dropped and belongs to
no bar in `BarOfTrades` either. `ServedSorted` holds through restarts: `OneRow`
(one stored row per interval and open time), `OpenIsSaved` (between two messages
the saved open bar is the one in memory) and, when the clock of the trades does
not step back, `NotAfter` (no closed bar lies after the open one, in memory or
saved). `ListedInOrder` is about the query: the rows by rank are the latest ones
in increasing order.

**Market data.** `TickerOfWindow`: the trades kept are the last ones of what was
read, from the first that lies in the window on; the times rise, so what is cut
off never comes back (`WindowInv`). `DepthListener` and `TickerListener`: a delta
between two states turns the first into the second (a level that left is sent as
zero), and a listener that has had a snapshot has the state of the last frame;
the state is replaced only when the frame was sent, but for the first snapshot
after a start, which the publisher takes for sent (`stale`). `MirrorIsTheBook` has two
halves. What the shard tells: in the topic, and in any end of the list of
commands that may be sent again, the last event of every resting order says what
is left of it, and an order that was opened and does not rest is ended by a later
event (`Told`). This is kept when the events of a command, or of a retry, are
appended, because these say everything about the orders the command changed
(`Turns`, `Follows`). What the mirror keeps: it reflects the events up to the
position it has read, or one more when it reads one again (`Reflects`), and its
levels are the sums of its orders (`IsMirror`). At the end of the topic both
together are the property. The mirror is not claimed after a restart, as the
property does not claim it.

**Index price.** `MajorityRules` is counting: more than half of the quotes lie in
the range of the honest ones, so the middle one or two do, and with them the
median; a kept quote is within the threshold of it, and the weighted median is
the quote of a source that was kept, whatever the weights. `IndexInv` says that
the price in Redis was computed from the quotes of one tick.

**Push.** For the limits the invariant needs only the count under the hub's lock
(`OneMoreClient`, `FewerClients`); the one before the upgrade may be out of date.
`NoGap`: after each snapshot that waits to be written, and after the last one
written unless another will be read, every version is with the client, in its
queue, in Redis or about to be published, or its PUBLISH failed (`lost`). The SET
of a key and its PUBLISH are two steps between which a client may read the key. The
step that matters is that the subscription is entered before the key is read; where
the GET failed nothing is claimed.

**Lemmas** (`InductionFacts`). `NatSetInduction` is induction over the naturals
for a set instead of a predicate, from the well-foundedness of `<`; with it
follow that a finite set of numbers has a largest, that the loop of `AtPositions`
is defined and what it returns (`AtPositionsProperties`: the chosen elements, in
their order, each once; `AtPositionsPrefix`, `AtPositionsAppend`), the laws of
`SumFunction` (`SumTakes`, `SumSplit`, `SumOrder`, `SumZero`, `SumChanges`) and
`RankedExists`: in a finite set with numbers there is one of every rank, which is
what medians, top-N lists and pages are made of. Sequences of sequences are
joined element by element (`FlatAppend`, `FlatPlaces`). That is why loops are written as recursive functions and
sums with `SumFunction`.

What the proofs showed about the models: `ShardMigration` was wrong when two
migrations followed each other, because a copied book was remembered for the
symbol and not for the shard it was copied to, and one new shard could be the
target of two symbols. It was right with one migration, which is what the run
has; it now keeps pairs, and an instance with three shards and two migrations
passes as well. In `MarketData` an order that took liquidity, rested and met an
opposite order without being filled lost its mark, so with four commands
`MirrorAgrees` asked for a quantity the events do not tell; with the three of the
run it cannot happen. The mark now stays until the order trades again.

Only model-checked:

- the liveness properties `CommandsConsumed`, `EventsDelivered`,
  `EventuallyAgrees`, `TradesSettle`, `ClosedBarsStored` and `SilenceShows`
  (fairness and ENABLED are out of the prover's reach);
- what section 4 lists, which the code refutes.

`ShardMigration`, `MarketData`, `Push` and `IndexPrice` have no `TypeOK`; the
invariants of their proofs contain the types they need.

## 6. Not modelled

- The gateway and authentication: they translate requests and check tokens, and
  keep no state the other parts depend on.
- Generated messages, load generators, metrics, logging and the reading of
  configuration files: no behaviour of their own.
- Of modelled parts: towers and levels of the skip list; disk writes that fail
  while the process goes on; snapshot files that fail their checksum; schema
  migrations; `trade:{symbol}` frames and heartbeats of the market data service;
  the per-user order channel of the push service; its WebSocket library, of which
  `Push` takes only that a message is written in one piece although two goroutines
  write to one connection (`ws.go:160, 174`); the audit table and the exchange
  formats of the index price service; the checks of `shards.json`.
- What kafka-go does with `Message.Partition` next to a balancer
  (`pkg/kafka/writer.go:87, 117`) is outside `src/`: `ShardMigration` lets a row
  reach the named partition or another ("astray").
- `depth:{symbol}` is set with the first snapshot only
  (`redis_publisher.go:147`), so who subscribes later starts from an old book;
  no document promises otherwise and no property is stated.

## 7. Plan

Done: every module of section 2. Left, in this order:

1. For the liveness properties: the measures that fair steps decrease, as action
   properties that can be proved.
2. Composition of `MarketData` and `Push`: a client that subscribes at any time
   ends up with the publisher's last frame.
3. The order channel of the push service, from `UpdatesFollow` to the client.
4. Snapshot files with a failing checksum, and disk writes that fail while the
   process goes on.
