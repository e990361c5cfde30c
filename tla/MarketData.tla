---------------------------- MODULE MarketData ----------------------------
(***************************************************************************)
(* The market data service (internal/marketdata, cmd/marketdata/main.go):  *)
(* the consumer of match.events that keeps a mirror of the order book, the *)
(* consumer of trade.events that keeps the 24 hour ticker, the publisher   *)
(* of depth snapshots and deltas, the publisher of ticker@all              *)
(* (internal/marketdata/tickerallpub, pkg/tickerall), and what listeners   *)
(* of the two streams make of the frames.                                  *)
(*                                                                         *)
(* One symbol.  The shard is reduced to what its events show               *)
(* (internal/matching/publisher/events.go): which resting orders a new one *)
(* meets is a choice here that module Matcher makes, and how the events    *)
(* reach the topics is module EventRelay's; here a retry of the relay puts *)
(* the events of the last commands on the topics a second time.            *)
(***************************************************************************)
EXTENDS Integers, Sequences, SequencesExt, FiniteSetsExt, Functions, Subsequence

CONSTANTS MaxCommands,  \* bound on the commands of the shard
          Shapes,       \* the orders users place: side, kind, price, quantity
          Steps,        \* how far the clock moves between two commands
          Window,       \* tickerWindowMs
          DepthLimit,   \* Publish.DepthLimit
          MaxFaults     \* bound on failed calls, relay retries and restarts

ASSUME MarketDataAssumption ==
    /\ \A s \in Shapes : s.side \in {"BUY", "SELL"} /\ s.kind \in {"LIMIT", "MARKET"}
                         /\ s.price \in Nat \ {0} /\ s.qty \in Nat \ {0}
    /\ MaxCommands \in Nat /\ Steps \subseteq Nat /\ 0 \in Steps /\ Window \in Nat
    /\ DepthLimit \in Nat \ {0} /\ MaxFaults \in Nat

VARIABLES now,          \* the shard's clock
          book,         \* the shard's resting orders
          log,          \* what each command sends: its events and its trades
          matchTopic, matchPos,    \* match.events and the committed offset
          tradeTopic, tradePos,    \* trade.events and the committed offset
          mirror,       \* OrderBookState: orders by id, quantity by price, version
          trades24h,    \* SymbolState.trades24h
          tickerKey,    \* Redis ticker:<symbol>
          last,         \* lastBySymbol of the depth publisher
          depthKey,     \* Redis depth:<symbol>
          ear,          \* the depth a listener of depth:<symbol> has put together
          stale,        \* history: did it miss the first snapshot since a start?
          lastItems,    \* lastItems of the ticker@all publisher
          restKey,      \* Redis ticker:all:<quote>
          allEar,       \* the ticker a listener of ticker@all has put together
          ahead,        \* history: did it join on a snapshot nobody was sent?
          again,        \* history: was a trade applied more than once?
          restarts, faults

shard == <<now, book, log>>
topics == <<matchTopic, tradeTopic>>
matchSide == <<matchPos, mirror>>
tradeSide == <<tradePos, trades24h, tickerKey>>
depthSide == <<last, depthKey, ear, stale>>
allSide == <<lastItems, restKey, allEar, ahead>>
vars == <<now, book, log, matchTopic, matchPos, tradeTopic, tradePos, mirror,
          trades24h, tickerKey, last, depthKey, ear, stale, lastItems, restKey, allEar,
          ahead, again, restarts, faults>>

Sides == {"BUY", "SELL"}
None == [none |-> TRUE]
Empty == [x \in {} |-> 0]
NoMirror == [known |-> FALSE, orders |-> Empty, levels |-> [s \in Sides |-> Empty], id |-> 0]

Without(f, x) == [y \in DOMAIN f \ {x} |-> f[y]]
With(f, x, v) == [y \in DOMAIN f \union {x} |-> IF y = x THEN v ELSE f[y]]

Init ==
    /\ now = 1
    /\ book = Empty
    /\ log = <<>>
    /\ matchTopic = <<>> /\ matchPos = 0
    /\ tradeTopic = <<>> /\ tradePos = 0
    /\ mirror = NoMirror
    /\ trades24h = <<>>
    /\ tickerKey = None
    /\ last = None /\ depthKey = None /\ ear = None /\ stale = FALSE
    /\ lastItems = None /\ restKey = None /\ allEar = None /\ ahead = FALSE
    /\ again = FALSE
    /\ restarts = 0 /\ faults = 0

Fault == faults < MaxFaults /\ faults' = faults + 1

-----------------------------------------------------------------------------
(* The matching shard, as its events show it.                              *)

NewMatchEvent(id, type, shape, remaining) ==
    [id |-> id, type |-> type, kind |-> shape.kind, side |-> shape.side,
     price |-> shape.price, remaining |-> remaining]

(* The events of a new order: accepted, one per maker with what the book   *)
(* still holds of it, then the taker's own, whose order is the command's   *)
(* and so carries the full quantity.                                       *)
BuildNewOrderEvents(id, shape, makers, after, rests) ==
    LET makerFill(m) ==
            IF m \in DOMAIN after
            THEN NewMatchEvent(m, "PARTIAL", after[m], after[m].qty)
            ELSE NewMatchEvent(m, "FILLED", book[m], 0)
        takerFill == NewMatchEvent(id, IF rests THEN "PARTIAL" ELSE "FILLED", shape, shape.qty)
    IN  <<NewMatchEvent(id, "ACCEPTED", shape, shape.qty)>>
        \o [k \in DOMAIN makers |-> makerFill(makers[k])]
        \o IF makers = <<>> THEN <<>> ELSE <<takerFill>>

Send(cmd) ==
    /\ log' = Append(log, cmd)
    /\ matchTopic' = matchTopic \o cmd.events
    /\ tradeTopic' = tradeTopic \o cmd.trades

Crosses(shape, maker) ==
    /\ maker.side # shape.side
    /\ \/ shape.kind = "MARKET"
       \/ shape.side = "BUY" /\ shape.price >= maker.price
       \/ shape.side = "SELL" /\ shape.price <= maker.price

(* How much a new order may take of each order it crosses: everything, or  *)
(* as much as it needs.                                                    *)
Fills(shape) ==
    LET crossing == {m \in DOMAIN book : Crosses(shape, book[m])}
        take == Min({shape.qty, SumFunction([m \in crossing |-> book[m].qty])})
    IN  {f \in [crossing -> 0..shape.qty] :
            SumFunction(f) = take /\ \A m \in crossing : f[m] <= book[m].qty}

Makers(fill) == SetToSeq({m \in DOMAIN fill : fill[m] > 0})

BookAfter(fill) ==
    LET stay == {m \in DOMAIN book : m \in DOMAIN fill => fill[m] < book[m].qty}
    IN  [m \in stay |-> IF m \in DOMAIN fill /\ fill[m] > 0
                        THEN [book[m] EXCEPT !.qty = @ - fill[m], !.taken = FALSE]
                        ELSE book[m]]

(* A new order meets its makers; what a limit order still needs then rests.*)
Place ==
    /\ Len(log) < MaxCommands
    /\ \E shape \in Shapes, step \in Steps : \E fill \in Fills(shape) :
         LET id == Len(log) + 1
             makers == Makers(fill)
             left == shape.qty - SumFunction(fill)
             rests == shape.kind = "LIMIT" /\ left > 0
         IN  /\ makers = <<>> => step = 0
             /\ now' = now + step
             /\ book' = IF ~rests THEN BookAfter(fill)
                        ELSE With(BookAfter(fill), id,
                                  [side |-> shape.side, kind |-> shape.kind,
                                   price |-> shape.price, qty |-> left,
                                   taken |-> makers # <<>>])
             /\ Send([events |-> BuildNewOrderEvents(id, shape, makers, BookAfter(fill), rests),
                      trades |-> [k \in DOMAIN makers |->
                                    [price |-> book[makers[k]].price,
                                     qty |-> fill[makers[k]], time |-> now + step]]])
    /\ UNCHANGED <<matchSide, tradeSide, depthSide, allSide, again, restarts, faults>>

Cancel ==
    /\ Len(log) < MaxCommands
    /\ \E id \in DOMAIN book :
         /\ book' = Without(book, id)
         /\ Send([events |-> <<NewMatchEvent(id, "CANCELED", book[id], 0)>>, trades |-> <<>>])
    /\ UNCHANGED <<now, matchSide, tradeSide, depthSide, allSide, again, restarts,
                   faults>>

(* The relay of the shard sends everything after its checkpoint again.     *)
RelayRetry ==
    /\ Fault
    /\ \E k \in DOMAIN log :
         LET rest == SubSeq(log, k, Len(log))
         IN  /\ matchTopic' = matchTopic \o FlattenSeq([j \in DOMAIN rest |-> rest[j].events])
             /\ tradeTopic' = tradeTopic \o FlattenSeq([j \in DOMAIN rest |-> rest[j].trades])
             /\ again' = (again \/ \E j \in DOMAIN rest : rest[j].trades # <<>>)
    /\ UNCHANGED <<shard, matchSide, tradeSide, depthSide, allSide, restarts>>

-----------------------------------------------------------------------------
(* The mirror of the order book.                                           *)

(* A price level loses or gains quantity and goes when nothing is left.    *)
AddToLevel(levels, side, price, delta) ==
    LET old == IF price \in DOMAIN levels[side] THEN levels[side][price] ELSE 0
    IN  [levels EXCEPT ![side] = IF old + delta = 0 THEN Without(@, price)
                                 ELSE With(@, price, old + delta)]

(* Mutant: an order accepted twice is added twice to its price level.      *)
UpsertTwice(m, id, e) ==
    [m EXCEPT !.orders = With(@, id, e),
              !.levels = AddToLevel(@, e.side, e.price, e.remaining)]

ApplyUpsert(m, id, e) ==
    LET old == m.orders[id]
        rolledBack == IF id \in DOMAIN m.orders
                      THEN AddToLevel(m.levels, old.side, old.price, -old.remaining)
                      ELSE m.levels
    IN  [m EXCEPT !.orders = With(@, id, e),
                  !.levels = AddToLevel(rolledBack, e.side, e.price, e.remaining)]

ApplyRemaining(m, id, remaining) ==
    LET old == m.orders[id]
    IN  [m EXCEPT !.orders[id].remaining = remaining,
                  !.levels = AddToLevel(@, old.side, old.price, remaining - old.remaining)]

ApplyRemove(m, id) ==
    LET old == m.orders[id]
    IN  [m EXCEPT !.orders = Without(@, id),
                  !.levels = AddToLevel(@, old.side, old.price, -old.remaining)]

(* getOrCreate, and a new version if the order book is to change.          *)
Touched(m, changes) == [m EXCEPT !.known = TRUE, !.id = IF changes THEN @ + 1 ELSE @]

ApplyOrderBookAccepted(m, e) ==
    ApplyUpsert(Touched(m, TRUE), e.id,
                [side |-> e.side, price |-> e.price, remaining |-> e.remaining])

(* An order the mirror does not know is ignored, here and in the next.     *)
ApplyOrderBookRemaining(m, e) ==
    IF e.id \in DOMAIN m.orders THEN ApplyRemaining(Touched(m, TRUE), e.id, e.remaining)
    ELSE Touched(m, FALSE)

ApplyOrderBookRemove(m, e) ==
    IF e.id \in DOMAIN m.orders THEN ApplyRemove(Touched(m, TRUE), e.id)
    ELSE Touched(m, FALSE)

(* applyAccepted: a market order does not rest.                            *)
ApplyAccepted(m, e) == IF e.kind = "MARKET" THEN m ELSE ApplyOrderBookAccepted(m, e)

(* MatchHandler.Process.                                                   *)
ApplyMatchEvent(m, e) ==
    CASE e.type = "ACCEPTED" -> ApplyAccepted(m, e)
      [] e.type = "PARTIAL" -> ApplyOrderBookRemaining(m, e)
      [] e.type \in {"FILLED", "CANCELED"} -> ApplyOrderBookRemove(m, e)

(* Run: read, process, commit.  When the commit fails the consumer stops,  *)
(* is started again a second later and reads the event once more.          *)
ConsumeMatch ==
    /\ matchPos < Len(matchTopic)
    /\ mirror' = ApplyMatchEvent(mirror, matchTopic[matchPos + 1])
    /\ \/ matchPos' = matchPos + 1 /\ UNCHANGED faults
       \/ Fault /\ UNCHANGED matchPos
    /\ UNCHANGED <<shard, topics, tradeSide, depthSide, allSide, again, restarts>>

-----------------------------------------------------------------------------
(* The 24 hour ticker.                                                     *)

(* Mutant: a trade just as old as the window is dropped.                   *)
DropAtCutoff(ticks, t) ==
    LET all == Append(ticks, t)
        kept == {k \in DOMAIN all : k = Len(all) \/ all[k].time > t.time - Window}
    IN  SubSeq(all, Min(kept), Len(all))

(* applyTrade24h: append, then drop the prefix that has left the window.   *)
ApplyTrade24h(ticks, t) ==
    LET all == Append(ticks, t)
        kept == {k \in DOMAIN all : all[k].time >= t.time - Window}
    IN  SubSeq(all, Min(kept), Len(all))

(* recomputeTicker24h; the change in percent is a function of the open and *)
(* the last price.                                                         *)
Ticker(ticks) ==
    LET prices == {ticks[k].price : k \in DOMAIN ticks}
    IN  [last |-> Last(ticks).price, open |-> Head(ticks).price,
         high |-> Max(prices), low |-> Min(prices),
         volume |-> MapThenSumSet(LAMBDA k : ticks[k].qty, DOMAIN ticks),
         quote |-> MapThenSumSet(LAMBDA k : ticks[k].price * ticks[k].qty, DOMAIN ticks),
         change |-> <<Head(ticks).price, Last(ticks).price>>,
         updated |-> Last(ticks).time]

(* The ticker is stored, and published to listeners that may miss it.      *)
PublishTicker(ticks) == tickerKey' = Ticker(ticks)

(* TradeHandler.Process: the trade is applied, the ticker stored and       *)
(* published, the trade published, the offset committed.  An error in      *)
(* between leaves the trade applied, and it is read and applied again.     *)
ConsumeTrade ==
    /\ tradePos < Len(tradeTopic)
    /\ \E ticks \in {ApplyTrade24h(trades24h, tradeTopic[tradePos + 1])} :
         /\ trades24h' = ticks
         /\ \/ /\ PublishTicker(ticks)
               /\ tradePos' = tradePos + 1
               /\ UNCHANGED <<again, faults>>
            \/ /\ Fault
               /\ UNCHANGED tickerKey \/ PublishTicker(ticks)
               /\ again' = TRUE
               /\ UNCHANGED tradePos
    /\ UNCHANGED <<shard, topics, matchSide, depthSide, allSide, restarts>>

(* startEventConsumers: the two run next to each other, and each is        *)
(* started again when it stops with an error.                              *)
Consume == ConsumeMatch \/ ConsumeTrade

-----------------------------------------------------------------------------
(* The depth publisher.                                                    *)

(* The best prices of a side.                                              *)
SnapshotLevels(levels, side, limit) ==
    LET prices == {p \in DOMAIN levels : levels[p] > 0}
        better(p) == {q \in prices : IF side = "BUY" THEN q > p ELSE q < p}
    IN  Restrict(levels, {p \in prices : Cardinality(better(p)) < limit})

(* SnapshotOrderBook: 20 levels if none are asked for, at most 100.        *)
SnapshotOrderBook(asked) ==
    LET limit == IF asked <= 0 THEN 20 ELSE Min({asked, 100})
    IN  [id |-> mirror.id,
         sides |-> [s \in Sides |-> SnapshotLevels(mirror.levels[s], s, limit)]]

(* diffOneSide: new and changed levels, and 0 for those that have left.    *)
DiffOneSide(prev, curr) ==
    LET changed == {p \in DOMAIN curr : p \notin DOMAIN prev \/ prev[p] # curr[p]}
        gone == DOMAIN prev \ DOMAIN curr
    IN  [p \in changed \union gone |-> IF p \in gone THEN 0 ELSE curr[p]]

(* What a listener does with a delta: 0 takes a level away.                *)
ApplyDelta(view, delta) ==
    LET all == DOMAIN view \union DOMAIN delta
        value(p) == IF p \in DOMAIN delta THEN delta[p] ELSE view[p]
    IN  [p \in {q \in all : value(q) # 0} |-> value(p)]

(* Mutant: the publisher forgets that a delta was not sent.                *)
ForgetFailure(snap) == last' = snap

DeltaFailed(snap) == UNCHANGED last

(* The first frame is a snapshot: SET, whose failure is tried again at the *)
(* next tick, and PUBLISH, whose failure is ignored: a listener from       *)
(* before a restart then keeps what it had, and deltas follow.             *)
PublishDepthSnapshot(snap) ==
    \/ /\ depthKey' = snap.sides
       /\ last' = snap
       /\ \/ ear' = snap.sides /\ stale' = FALSE /\ UNCHANGED faults
          \/ Fault /\ stale' = (ear # None) /\ UNCHANGED ear
    \/ Fault /\ UNCHANGED depthSide

(* computeDepthDelta.                                                      *)
DepthDelta(prev, snap) == [s \in Sides |-> DiffOneSide(prev.sides[s], snap.sides[s])]

(* Every later frame is a delta to the last one that was sent; one that    *)
(* fails, and so reaches nobody, is made up for by the next, and an empty  *)
(* one is not sent.                                                        *)
PublishDepthDelta(snap, delta) ==
    \/ /\ \A s \in Sides : DOMAIN delta[s] = {}
       /\ last' = snap
       /\ UNCHANGED <<depthKey, ear, stale, faults>>
    \/ /\ \E s \in Sides : DOMAIN delta[s] # {}
       /\ UNCHANGED <<depthKey, stale>>
       /\ \/ /\ last' = snap
             /\ ear' = IF ear = None THEN None
                       ELSE [s \in Sides |-> ApplyDelta(ear[s], delta[s])]
             /\ UNCHANGED faults
          \/ /\ DeltaFailed(snap)
             /\ Fault
             /\ UNCHANGED ear

(* A tick of startDepthPublisher.                                          *)
PublishDepth ==
    /\ mirror.id # 0
    /\ \E snap \in {SnapshotOrderBook(DepthLimit)} :
         \/ last = None /\ PublishDepthSnapshot(snap)
         \/ /\ last # None /\ snap # last
            /\ PublishDepthDelta(snap, DepthDelta(last, snap))
    /\ UNCHANGED <<shard, topics, matchSide, tradeSide, allSide, again, restarts>>

-----------------------------------------------------------------------------
(* The publisher of ticker@all.                                            *)

Fields == {"last", "volume", "quote", "change"}

NoTicker == [updated |-> 0]
SnapshotTicker == IF trades24h = <<>> THEN NoTicker ELSE Ticker(trades24h)

(* The tickers that have seen a trade; here at most one.                   *)
SnapshotTickerAll == {t \in {SnapshotTicker} : t.updated # 0}

(* The hash over every field of every ticker, taken to be free of          *)
(* collisions.                                                             *)
ComputeTickerAllSnapshotID(items) == items

BuildTickerAllSnapshot ==
    [snapshotId |-> ComputeTickerAllSnapshotID(SnapshotTickerAll),
     time |-> Max({1} \union {t.updated : t \in SnapshotTickerAll}),
     items |-> SnapshotTickerAll]

CompactItemFromFields(t) == Restrict(t, Fields)

(* compactMapFromStore.                                                    *)
CompactItem(snap) ==
    IF snap.items = {} THEN None ELSE CompactItemFromFields(CHOOSE t \in snap.items : TRUE)

(* Mutant: a delta carries no volumes.                                     *)
DiffPrices(prev, curr) == Restrict(curr, {f \in {"last", "change"} : prev[f] # curr[f]})

(* Diff: only the fields that have changed.                                *)
Diff(prev, curr) == Restrict(curr, {f \in Fields : prev[f] # curr[f]})

Merge(item, delta) == [f \in Fields |-> IF f \in DOMAIN delta THEN delta[f] ELSE item[f]]

(* The frame a listener gets: everything as long as nothing was sent, then *)
(* what has changed since the last frame that was sent.                    *)
TickerFrame(view, prev, curr) ==
    IF prev = None \/ view = None THEN curr ELSE Merge(view, Diff(prev, curr))

SetTickerAllREST(snap) == restKey' = snap

(* The frame reaches the listeners, and is what the next one builds upon;  *)
(* a snapshot frame makes up for whatever a listener started from.         *)
PublishTickerAllWS(curr) ==
    /\ lastItems' = curr
    /\ allEar' = TickerFrame(allEar, lastItems, curr)
    /\ ahead' = (ahead /\ lastItems # None)

(* tick: the REST snapshot first, then a snapshot frame as long as nothing *)
(* was sent, then deltas.  An error ends the tick and the frame is made up *)
(* for at the next.  A heartbeat carries no item.                          *)
TickerAllTick ==
    /\ \E snap \in {BuildTickerAllSnapshot} :
         LET curr == CompactItem(snap)
         IN  /\ restKey # snap \/ lastItems # curr
             /\ \/ Fault /\ UNCHANGED allSide
                \/ /\ SetTickerAllREST(snap)
                   /\ \/ Fault /\ UNCHANGED <<lastItems, allEar, ahead>>
                      \/ PublishTickerAllWS(curr) /\ UNCHANGED faults
    /\ UNCHANGED <<shard, topics, matchSide, tradeSide, depthSide, again, restarts>>

(* A listener connects, for the first time or again, to the push service,  *)
(* which makes its first frame from the REST snapshot.                     *)
WSSnapshotFromRedisREST ==
    /\ restKey # None
    /\ allEar' = CompactItem(restKey)
    /\ allEar' # None
    /\ ahead' = (allEar' # lastItems)
    /\ UNCHANGED <<shard, topics, matchSide, tradeSide, depthSide, lastItems, restKey,
                   again, restarts, faults>>

(* A restart keeps Redis and the committed offsets; mirror and ticker live *)
(* in memory only.                                                         *)
Restart ==
    /\ Fault
    /\ restarts' = restarts + 1
    /\ mirror' = NoMirror
    /\ trades24h' = <<>>
    /\ last' = None
    /\ lastItems' = None
    /\ UNCHANGED <<shard, topics, matchPos, tradePos, tickerKey, depthKey, ear, stale, restKey,
                   allEar, ahead, again>>

Next ==
    \/ Place \/ Cancel \/ RelayRetry
    \/ Consume
    \/ PublishDepth \/ TickerAllTick \/ WSSnapshotFromRedisREST
    \/ Restart

Spec == Init /\ [][Next]_vars

-----------------------------------------------------------------------------
(* What the service answers (internal/marketdata/handler/server.go).       *)

NotFound == [error |-> "not found"]

GetOrderBook(limit) ==
    IF mirror.known \/ trades24h # <<>> THEN SnapshotOrderBook(limit) ELSE NotFound

(* A client that has the current snapshot is not sent the items again.     *)
GetTickerAllSnapshot(snapshotId) ==
    LET snap == BuildTickerAllSnapshot
    IN  IF snapshotId = snap.snapshotId
        THEN [snapshotId |-> snapshotId, notModified |-> TRUE]
        ELSE [snapshotId |-> snap.snapshotId, notModified |-> FALSE,
              items |-> {CompactItemFromFields(t) : t \in snap.items}]

GetTicker == IF SnapshotTicker.updated = 0 THEN NotFound ELSE SnapshotTicker

BestAsk == LET asks == mirror.levels["SELL"]
           IN  {p \in DOMAIN asks : asks[p] > 0 /\ \A q \in DOMAIN asks : asks[q] > 0 => p <= q}

(* The best ask if that is asked for and there is one, else the last price.*)
ReferencePrice(kind) ==
    CASE kind = "BEST_ASK" /\ BestAsk # {} -> [price |-> Min(BestAsk), kind |-> "BEST_ASK"]
      [] (kind # "BEST_ASK" \/ BestAsk = {}) /\ trades24h # <<>> ->
             [price |-> Last(trades24h).price, kind |-> "LAST"]
      [] OTHER -> NotFound

(* The mark price, like the last, is the price of the last trade.          *)
ReferenceKind(requested) == IF requested = "UNSPECIFIED" THEN "BEST_ASK" ELSE requested

GetReferencePrice(requested) == ReferencePrice(ReferenceKind(requested))

CaughtUp == matchPos = Len(matchTopic) /\ restarts = 0

(* Once the consumer has read everything the mirror holds exactly the      *)
(* resting orders of the shard, whatever was read or sent twice, with      *)
(* their side, price and remaining quantity, except that an order that     *)
(* took liquidity before it rested and has not traded since is shown with  *)
(* its full quantity (takerFillEvent); every price level is the sum of its *)
(* orders, GetOrderBook answers with the best prices of the shard, and     *)
(* GetReferencePrice with its best ask if it has one.                      *)
MirrorAgrees ==
    CaughtUp =>
        /\ DOMAIN mirror.orders = DOMAIN book
        /\ \A id \in DOMAIN book :
             /\ mirror.orders[id].side = book[id].side /\ mirror.orders[id].price = book[id].price
             /\ ~book[id].taken => mirror.orders[id].remaining = book[id].qty
             /\ mirror.orders[id].remaining >= book[id].qty
        /\ \A s \in Sides : \A p \in DOMAIN mirror.levels[s] :
             mirror.levels[s][p] = SumFunction([id \in
                 {id \in DOMAIN mirror.orders : mirror.orders[id].side = s
                                                /\ mirror.orders[id].price = p} |->
                                                     mirror.orders[id].remaining])
        /\ LET asks == {id \in DOMAIN book : book[id].side = "SELL"}
           IN  asks # {} =>
                 LET best == Min({book[id].price : id \in asks})
                 IN  /\ DOMAIN GetOrderBook(1).sides["SELL"] = {best}
                     /\ GetReferencePrice("UNSPECIFIED") = [price |-> best, kind |-> "BEST_ASK"]

(* A listener that has had a snapshot frame holds exactly the levels the   *)
(* publisher last sent, top-N entries and exits included, through failed   *)
(* publications and restarts of the service (startDepthPublisher), unless  *)
(* the first snapshot since the last start was lost to it.                 *)
DepthFollows == (last # None /\ ear # None /\ ~stale) => ear = last.sides

(* What redis-data.md asks of listeners is enough: one that had a snapshot *)
(* and every delta since is where the publisher is, whatever was lost.     *)
DepthRecovers == (last # None /\ ear # None) => ear = last.sides

(* The same for ticker@all, whose deltas carry changed fields only         *)
(* (tickerall.Diff), for listeners that were there before the first frame  *)
(* and for those that start from the REST snapshot (push), unless that     *)
(* snapshot was ahead of the frames because its own was never sent.  Who   *)
(* asks with the id of a snapshot is told that it is current only if it is.*)
TickerAllFollows ==
    /\ (lastItems # None /\ allEar # None /\ ~ahead) => allEar = lastItems
    /\ restKey # None =>
         (GetTickerAllSnapshot(restKey.snapshotId).notModified <=> restKey.items = SnapshotTickerAll)

(* What GetTicker answers is the ticker of the trades of the last 24       *)
(* hours, counted back from the latest, and of no other, unless a trade    *)
(* was delivered twice or the service was restarted (applyTrade24h keeps   *)
(* no trade ids).                                                          *)
WindowExact ==
    (~again /\ restarts = 0 /\ tradePos > 0) =>
        GetTicker = Ticker(AtPositions(tradeTopic, {k \in 1..tradePos :
                        tradeTopic[k].time >= tradeTopic[tradePos].time - Window}))
=============================================================================
