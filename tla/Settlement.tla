----------------------------- MODULE Settlement -----------------------------
(***************************************************************************)
(* The money of the order service: funds locked when an order is placed    *)
(* (internal/order/service, repository/repository.go), consumed and        *)
(* credited by trade.events (trade_apply.go), released by match.events     *)
(* (match_apply.go) and by the reconciler (reconcile.go), and adjusted by  *)
(* UpdateBalance (balance_update.go).  The two topics are read by two      *)
(* goroutines, so either may be ahead of the other.                        *)
(*                                                                         *)
(* One symbol.  The shard is the book and the events publisher/events.go   *)
(* builds from it; it matches a command in one step (module Matcher takes  *)
(* it apart) and builds the events of a batch after the whole batch was    *)
(* applied.  Every transaction is one step: it locks the rows it changes,  *)
(* orders before balances.  OrderDispatch is about the way of a command to *)
(* the shard; here a command that was written is handled some time later.  *)
(***************************************************************************)
EXTENDS OrderStatus, Subsequence, Integers, Sequences, SequencesExt, FiniteSetsExt

CONSTANTS Users,        \* user ids
          Request,      \* the requests to place an order they choose from
          Adjustments,  \* the calls of UpdateBalance
          Deposit,      \* what every account holds at first
          Unit,         \* the smallest amount of the quote asset
          Rules,        \* symbolrules.Spec: tick, lot, min_quantity, min_notional
          Reference,    \* the reference price the market data service answers
          PageSize,     \* the rows of a page of ListOrders and ListTrades
          BatchMax,     \* the largest batch of the shard
          MaxOrders,    \* bound on orders and requests under way
          MaxCancels,   \* bound on cancel requests
          MaxExtras     \* bound on repeated cancels, rejects and events read
                        \* again, together

Assets == {"base", "quote"}

(* What a request asks for; price 0 stands for none.                       *)
OrderSpec == [user : Users, side : {"buy", "sell"}, type : {"limit", "market"},
              price : Nat, qty : Nat]

(* What ParseSpec lets through: a smallest order need not cost anything,   *)
(* but it has a size.                                                      *)
SymbolSpec == [tick : Nat \ {0}, lot : Nat \ {0}, minQty : Nat \ {0}, minNotional : Nat]

ASSUME SettlementAssumption ==
    /\ Request \subseteq [spec : OrderSpec, client : Nat]
    /\ Adjustments \subseteq [user : Users, bill : Nat, asset : Assets, change : Int]
    /\ Deposit \in [Assets -> Nat]
    /\ Unit \in Nat \ {0} /\ BatchMax \in Nat \ {0}
    /\ Rules \in SymbolSpec
    /\ Reference \in Nat /\ PageSize \in Nat \ {0}
    /\ MaxOrders \in Nat /\ MaxCancels \in Nat /\ MaxExtras \in Nat

VARIABLES orders,      \* the table orders
          account,     \* account_balances: what is free and what is frozen
          trades,      \* the table trades
          processed,   \* processed_match_events
          billed,      \* balance_adjust_idempotency, with the change applied
          inflight,    \* requests between the idempotency lookup and the transaction
          answers,     \* history: which order a request was answered with
          cmds, pos,   \* the commands written, and how many the shard has handled
          readOnly,    \* is the symbol in read-only mode?
          seen,        \* Engine.seen
          book,        \* what is left of each resting order, 0 of all others
          batch,       \* the outcomes of the shard's current batch
          matchEvents, mPos,  \* match.events, and how many of them were read
          tradeEvents, tPos,  \* trade.events, and how many of them were read
          cancels, extras

requests == <<billed, inflight, answers>>
shard == <<readOnly, seen, book, batch>>
topics == <<matchEvents, tradeEvents>>
counters == <<cancels, extras>>
vars == <<orders, account, trades, processed, billed, inflight, answers, cmds, pos,
          readOnly, seen, book, batch, matchEvents, mPos, tradeEvents, tPos,
          cancels, extras>>

Ids == 1..MaxOrders

Init ==
    /\ orders = <<>>
    /\ account = [u \in Users |-> [a \in Assets |-> [free |-> Deposit[a], frozen |-> 0]]]
    /\ trades = {} /\ processed = {} /\ billed = {}
    /\ inflight = {} /\ answers = {}
    /\ cmds = <<>> /\ pos = 0
    /\ readOnly \in BOOLEAN
    /\ seen = {} /\ book = [o \in Ids |-> 0] /\ batch = <<>>
    /\ matchEvents = <<>> /\ mPos = 0 /\ tradeEvents = <<>> /\ tPos = 0
    /\ cancels = 0 /\ extras = 0

-----------------------------------------------------------------------------
(* Amounts.                                                                *)

RoundDown(a, n) == IF a = "quote" THEN n - (n % Unit) ELSE n
RoundUp(a, n) == IF RoundDown(a, n) = n THEN n ELSE RoundDown(a, n) + Unit

Paid(side) == IF side = "buy" THEN "quote" ELSE "base"
Got(side) == IF side = "buy" THEN "base" ELSE "quote"
SideOf(paid) == IF paid = "quote" THEN "buy" ELSE "sell"

AssertOnGrid(n, step) == n % step = 0

ValidateQuantity(n) == n > 0 /\ AssertOnGrid(n, Rules.lot) /\ n >= Rules.minQty

ValidatePrice(n) == n > 0 /\ AssertOnGrid(n, Rules.tick)

(* A reference price need not lie on the grid; it is rounded up to it.     *)
CeilPrice(n) == IF AssertOnGrid(n, Rules.tick) THEN n ELSE n - (n % Rules.tick) + Rules.tick

CheckMinNotional(price, qty) == price * qty >= Rules.minNotional

(* The price the funds of an order are frozen at; for a market buy that is *)
(* the protection price of the user, or else the reference price (the      *)
(* slippage added to either is part of the number).                        *)
FreezePrice(spec) ==
    IF spec.type = "market" /\ spec.side = "buy" /\ spec.price = 0
    THEN CeilPrice(Reference) ELSE spec.price

(* validatePlaceOrder.                                                     *)
ValidatePlaceOrder(spec) ==
    /\ ValidateQuantity(spec.qty)
    /\ \/ spec.type = "market" /\ spec.side = "sell"
       \/ ValidatePrice(FreezePrice(spec)) /\ CheckMinNotional(FreezePrice(spec), spec.qty)

(* ComputeFreeze: frozen_amount of a buy.                                  *)
ComputeFreeze(o) == IF o.side = "buy" THEN o.price * o.qty ELSE o.qty

(* RemainingFreeze: the share of frozen_amount that filled_quantity leaves. *)
RemainingFreeze(o) ==
    IF o.side = "buy" THEN (ComputeFreeze(o) * (o.qty - o.filled)) \div o.qty
                      ELSE o.qty - o.filled

Locked(o) == RoundUp(Paid(o.side), ComputeFreeze(o))

Lock(acc, o) ==
    [acc EXCEPT ![o.user][Paid(o.side)] =
        [free |-> @.free - Locked(o), frozen |-> @.frozen + Locked(o)]]

(* Never more than is frozen; nothing, if nothing is.                      *)
ReleaseFunds(acc, u, a, n) ==
    LET m == Min({acc[u][a].frozen, n}) IN
    [acc EXCEPT ![u][a] = [free |-> @.free + m, frozen |-> @.frozen - m]]

ReleaseOrderRemainingFreeze(acc, o) ==
    ReleaseFunds(acc, o.user, Paid(o.side), RoundDown(Paid(o.side), RemainingFreeze(o)))

-----------------------------------------------------------------------------
(* Requests.                                                               *)

SameKey(o, req) == o.user = req.spec.user /\ o.client = req.client

Answer(req, id) == answers' = answers \cup {[user |-> req.spec.user, client |-> req.client, id |-> id]}

(* What Redis may know of the key: the id Remember has stored.             *)
Remembered(req) == {id \in DOMAIN orders : SameKey(orders[id], req)}

(* PlaceOrder up to the transaction: validation, then                      *)
(* lookupIdempotentOrder.  An order that is there may be missed, since     *)
(* Redis forgets and Remember may fail, and one that comes a moment later  *)
(* is.                                                                     *)
Lookup(req) ==
    /\ Cardinality(inflight) + Len(orders) < MaxOrders
    /\ ValidatePlaceOrder(req.spec)
    /\ \/ \E id \in Remembered(req) : Answer(req, id) /\ UNCHANGED inflight
       \/ req \notin inflight /\ inflight' = inflight \cup {req} /\ UNCHANGED answers
    /\ UNCHANGED <<orders, account, trades, processed, billed, cmds, pos, shard, topics,
                   mPos, tPos, counters>>

(* Mutant: no primary key on client_order_idempotency.                     *)
DuplicatesNone(req) == {}

(* The rows of client_order_idempotency with the key of the request.       *)
Duplicates(req) == {id \in DOMAIN orders : SameKey(orders[id], req)}

NewOrder(req) ==
    [user |-> req.spec.user, client |-> req.client, side |-> req.spec.side,
     type |-> req.spec.type, price |-> FreezePrice(req.spec), qty |-> req.spec.qty,
     filled |-> 0, status |-> "PENDING"]

(* InsertPending: the order, its key, its funds and its command, or the    *)
(* order that has the key, or nothing for want of funds.                   *)
InsertPending(req) ==
    /\ req \in inflight
    /\ inflight' = inflight \ {req}
    /\ LET o == NewOrder(req) IN
       \/ /\ Duplicates(req) # {}
          /\ \E id \in Duplicates(req) : Answer(req, id)
          /\ UNCHANGED <<orders, account, cmds>>
       \/ /\ Duplicates(req) = {}
          /\ account[o.user][Paid(o.side)].free >= Locked(o)
          /\ orders' = Append(orders, o)
          /\ account' = Lock(account, o)
          /\ cmds' = Append(cmds, [kind |-> "New", id |-> Len(orders) + 1])
          /\ Answer(req, Len(orders) + 1)
       \/ /\ Duplicates(req) = {}
          /\ account[o.user][Paid(o.side)].free < Locked(o)
          /\ UNCHANGED <<orders, account, cmds, answers>>
    /\ UNCHANGED <<trades, processed, billed, pos, shard, topics, mPos, tPos, counters>>

Extra == extras < MaxExtras /\ extras' = extras + 1 /\ UNCHANGED cancels

InsertCancelOutbox(o) == cmds' = Append(cmds, [kind |-> "Cancel", id |-> o])

BeginCancel(o) ==
    /\ cancels < MaxCancels
    /\ cancels' = cancels + 1
    /\ orders[o].status # "CANCELING" /\ CanTransition(orders[o].status, "CANCELING")
    /\ orders' = [orders EXCEPT ![o].status = "CANCELING"]
    /\ InsertCancelOutbox(o)
    /\ UNCHANGED <<account, trades, processed, requests, pos, shard, topics, mPos, tPos, extras>>

(* The checks of BalanceService.UpdateBalance.                             *)
ValidAdjustment(adj) == adj.change # 0

AlreadyBilled(adj) == \E b \in billed : b.user = adj.user /\ b.bill = adj.bill

(* UpdateBalance; a repeated one changes nothing, whatever it asks for.    *)
UpdateBalance(adj) ==
    /\ ValidAdjustment(adj)
    /\ ~AlreadyBilled(adj)
    /\ account[adj.user][adj.asset].free + adj.change >= 0
    /\ account' = [account EXCEPT ![adj.user][adj.asset].free = @ + adj.change]
    /\ billed' = billed \cup {adj}
    /\ UNCHANGED <<orders, trades, processed, inflight, answers, cmds, pos, shard, topics,
                   mPos, tPos, counters>>

-----------------------------------------------------------------------------
(* The reconciler.                                                         *)

(* RejectStalePending: the shard did not know the order when it was asked, *)
(* which may be some time ago.                                             *)
RejectStalePending(o) ==
    /\ Extra
    /\ orders[o].status = "PENDING"
    /\ orders' = [orders EXCEPT ![o].status = "REJECTED"]
    /\ account' = ReleaseOrderRemainingFreeze(account, orders[o])
    /\ InsertCancelOutbox(o)
    /\ UNCHANGED <<trades, processed, requests, pos, shard, topics, mPos, tPos>>

(* ResendCancelCommand: the confirmation has not come for too long.        *)
ResendCancel(o) ==
    /\ Extra
    /\ orders[o].status = "CANCELING"
    /\ InsertCancelOutbox(o)
    /\ UNCHANGED <<orders, account, trades, processed, requests, pos, shard, topics,
                   mPos, tPos>>

-----------------------------------------------------------------------------
(* The shard.                                                              *)

Better(side, m, n) ==
    \/ orders[m].price # orders[n].price
       /\ IF side = "buy" THEN orders[m].price < orders[n].price
                          ELSE orders[m].price > orders[n].price
    \/ orders[m].price = orders[n].price /\ m < n

(* stopMatch.                                                              *)
Crosses(o, price) ==
    \/ o.type = "market"
    \/ IF o.side = "buy" THEN price <= o.price ELSE price >= o.price

(* The resting orders a new one may meet ...                               *)
Eligible(o) ==
    {m \in Ids : book[m] > 0 /\ orders[m].side # o.side /\ Crosses(o, orders[m].price)}

(* ... and the one way to line them up, best first.                        *)
Makers(o) ==
    {s \in [1..Cardinality(Eligible(o)) -> Eligible(o)] :
        \A i, j \in DOMAIN s : i < j => Better(o.side, s[i], s[j])}

(* matchAgainstBook: each gives what it has, until the order is filled.    *)
Trades(id, makers) ==
    LET Left(i) == orders[id].qty - SumFunction([j \in 1..i - 1 |-> book[makers[j]]])
        all == [i \in DOMAIN makers |->
                  [maker |-> makers[i], taker |-> id, price |-> orders[makers[i]].price,
                   qty |-> Min({book[makers[i]], Left(i)})]]
    IN  AtPositions(all, {i \in DOMAIN all : all[i].qty > 0})

(* What these trades take from m, and what all of them come to.            *)
Taken(fills, m) == SumFunction([i \in {k \in DOMAIN fills : fills[k].maker = m} |-> fills[i].qty])
Total(fills) == SumFunction([i \in DOMAIN fills |-> fills[i].qty])

(* What a limit order has left rests, what a market order has is dropped.  *)
BookAfter(id, fills) ==
    [m \in Ids |-> IF m # id THEN book[m] - Taken(fills, m)
                   ELSE IF orders[id].type = "limit" THEN orders[id].qty - Total(fills) ELSE 0]

ApplyNewOrder(id) ==
    /\ seen' = seen \cup {id}
    /\ \E makers \in Makers(orders[id]) : \E fills \in {Trades(id, makers)} :
         /\ book' = BookAfter(id, fills)
         /\ batch' = Append(batch, [kind |-> "New", id |-> id, trades |-> fills, seq |-> pos + 1])

ApplyCancel(id) ==
    /\ book' = [book EXCEPT ![id] = 0]
    /\ batch' = Append(batch, [kind |-> "Cancel", id |-> id, trades |-> <<>>, seq |-> pos + 1])
    /\ UNCHANGED seen

(* The next command.  New orders of a symbol in read-only mode are         *)
(* dropped; a cancel is not even sent, if the relay finds the order        *)
(* neither PENDING nor CANCELING any more, which it does of a rejected one. *)
Match ==
    /\ pos < Len(cmds) /\ Len(batch) < BatchMax
    /\ pos' = pos + 1
    /\ LET cmd == cmds[pos + 1] IN
       \/ cmd.kind = "New" /\ ~readOnly /\ ApplyNewOrder(cmd.id)
       \/ cmd.kind = "Cancel" /\ orders[cmd.id].status # "REJECTED" /\ ApplyCancel(cmd.id)
       \/ /\ \/ cmd.kind = "New" /\ readOnly
             \/ cmd.kind = "Cancel" /\ orders[cmd.id].status \notin {"PENDING", "CANCELING"}
          /\ UNCHANGED <<seen, book, batch>>
    /\ UNCHANGED <<orders, account, trades, processed, requests, cmds, readOnly, topics,
                   mPos, tPos, counters>>

(* filled is quantity - remaining of the order in the event; a cancel      *)
(* carries no order.                                                       *)
NoFill == -1

Ev(id, type, filled, seq) == [id |-> id, type |-> type, filled |-> filled, seq |-> seq]

(* makerFillEvent: the order as it rests, or one made up from the trade.   *)
MakerFillEvent(tr, seq) ==
    IF book[tr.maker] > 0
    THEN Ev(tr.maker, "PARTIAL", orders[tr.maker].qty - book[tr.maker], seq)
    ELSE Ev(tr.maker, "FILLED", tr.qty, seq)

(* takerFillEvent: the order as it was in the command.                     *)
TakerFillEvent(id, seq) == Ev(id, IF book[id] > 0 THEN "PARTIAL" ELSE "FILLED", 0, seq)

(* BuildNewOrderEvents, BuildCancelEvents.                                 *)
MatchEventsOf(out) ==
    IF out.kind = "Cancel" THEN <<Ev(out.id, "CANCELED", NoFill, out.seq)>>
    ELSE <<Ev(out.id, "ACCEPTED", 0, out.seq)>>
         \o [i \in DOMAIN out.trades |-> MakerFillEvent(out.trades[i], out.seq)]
         \o (IF out.trades = <<>> THEN <<>> ELSE <<TakerFillEvent(out.id, out.seq)>>)

(* buildOutboundBatch and PublishBatch: the book is the one after the last *)
(* command of the batch.                                                   *)
Publish ==
    /\ batch # <<>>
    /\ matchEvents' = matchEvents \o FlattenSeq([i \in DOMAIN batch |-> MatchEventsOf(batch[i])])
    /\ tradeEvents' = tradeEvents \o FlattenSeq([i \in DOMAIN batch |-> batch[i].trades])
    /\ batch' = <<>>
    /\ UNCHANGED <<orders, account, trades, processed, requests, cmds, pos, readOnly, seen,
                   book, mPos, tPos, counters>>

-----------------------------------------------------------------------------
(* The consumer of match.events.                                           *)

(* updateFilledQuantity, COALESCE.                                         *)
WithFilled(o, filled) == IF filled = NoFill THEN o ELSE [o EXCEPT !.filled = filled]

(* Mutant: every final status releases what is left.                       *)
ReleasesAtEnd(target) == target \in Terminal

(* "仅撤单在 match 阶段释放剩余冻结".                                            *)
Releases(target) == target = "CANCELED"

(* MatchHandler.Process: the event that is read.                           *)
NextMatchEvent == matchEvents[mPos + 1]

(* ApplyMatchEvent.  An order that already has the status is treated like  *)
(* one that gets it; one in another final status is left alone.            *)
ApplyMatchEvent ==
    /\ mPos < Len(matchEvents)
    /\ mPos' = mPos + 1
    /\ LET ev == NextMatchEvent
           o == orders[ev.id]
           next == WithFilled([o EXCEPT !.status = ev.type], ev.filled)
       IN  /\ processed' = processed \cup {ev}
           /\ \/ /\ ev \in processed \/ (o.status \in Terminal \ {ev.type})
                 /\ UNCHANGED <<orders, account>>
              \/ /\ ev \notin processed /\ o.status \notin Terminal \ {ev.type}
                 /\ CanTransition(o.status, ev.type)
                 /\ orders' = [orders EXCEPT ![ev.id] = next]
                 /\ account' = IF Releases(ev.type) THEN ReleaseOrderRemainingFreeze(account, next)
                                                    ELSE account
    /\ UNCHANGED <<trades, requests, cmds, pos, shard, topics, tPos, counters>>

-----------------------------------------------------------------------------
(* The consumer of trade.events.                                           *)

(* What a trade takes from the account of one of its orders, and gives.    *)
Amount(asset, tr) ==
    RoundDown(asset, IF asset = "quote" THEN tr.price * tr.qty ELSE tr.qty)

(* consumeFrozen finds the funds of both sides.                            *)
Settles(tr) ==
    \A id \in {tr.maker, tr.taker} :
        LET o == orders[id] IN
        account[o.user][Paid(o.side)].frozen >= Amount(Paid(o.side), tr)

(* settleTradeForUser.                                                     *)
SettleTradeForUser(acc, o, tr) ==
    [acc EXCEPT ![o.user][Paid(o.side)].frozen = @ - Amount(Paid(o.side), tr),
                ![o.user][Got(o.side)].free = @ + Amount(Got(o.side), tr)]

Filled(o, tr) == [o EXCEPT !.filled = Min({@ + tr.qty, o.qty})]

(* applyOrderTradeFill, after filled_quantity was raised.                  *)
AfterFill(acc, o) ==
    IF o.filled = o.qty \/ o.status = "FILLED" THEN ReleaseOrderRemainingFreeze(acc, o) ELSE acc

(* Mutant: a trade that was settled before is settled again.               *)
InsertTradeAlways(tr) == TRUE

(* insertTrade: is the trade new?                                          *)
InsertTrade(tr) == tr \notin trades

(* TradeHandler.Process: the trade that is read.                           *)
NextTrade == tradeEvents[tPos + 1]

(* ApplyTradeEvent.  Without the funds the transaction is rolled back and  *)
(* the event read again, for ever.                                         *)
ApplyTradeEvent ==
    /\ tPos < Len(tradeEvents)
    /\ tPos' = tPos + 1
    /\ LET tr == NextTrade
           maker == orders[tr.maker]
           taker == orders[tr.taker]
       IN  \/ ~InsertTrade(tr) /\ UNCHANGED <<orders, account, trades>>
           \/ /\ InsertTrade(tr) /\ Settles(tr)
              /\ trades' = trades \cup {tr}
              /\ orders' = [orders EXCEPT ![tr.maker] = Filled(maker, tr), ![tr.taker] = Filled(taker, tr)]
              /\ \E paid \in {SettleTradeForUser(account, maker, tr)} :
                 \E settled \in {SettleTradeForUser(paid, taker, tr)} :
                 \E released \in {AfterFill(settled, Filled(maker, tr))} :
                    account' = AfterFill(released, Filled(taker, tr))
    /\ UNCHANGED <<processed, requests, cmds, pos, shard, topics, mPos, counters>>

(* A consumer starts again (runEventConsumerLoop, or the process does): an *)
(* event whose offset was not committed is read again.                     *)
Reread ==
    /\ Extra
    /\ \/ mPos > 0 /\ mPos' = mPos - 1 /\ UNCHANGED tPos
       \/ tPos > 0 /\ tPos' = tPos - 1 /\ UNCHANGED mPos
    /\ UNCHANGED <<orders, account, trades, processed, requests, cmds, pos, shard, topics>>

-----------------------------------------------------------------------------
Next ==
    \/ \E req \in Request : Lookup(req) \/ InsertPending(req)
    \/ \E o \in DOMAIN orders : BeginCancel(o) \/ RejectStalePending(o) \/ ResendCancel(o)
    \/ \E adj \in Adjustments : UpdateBalance(adj)
    \/ Match \/ Publish
    \/ ApplyMatchEvent \/ ApplyTradeEvent
    \/ Reread

Spec == Init /\ [][Next]_vars

(* The shard and the two consumers are goroutines that keep running.       *)
FairSpec ==
    /\ Spec
    /\ WF_vars(Match) /\ WF_vars(Publish)
    /\ WF_vars(ApplyMatchEvent) /\ WF_vars(ApplyTradeEvent)

-----------------------------------------------------------------------------
(* What users are shown.                                                   *)

(* GetOrderByUser: the order of that id, if it is the user's.              *)
GetOrderByUser(u, id) ==
    IF id \in DOMAIN orders /\ orders[id].user = u THEN {orders[id]} ELSE {}

(* A page of rows, the latest first: the k-th has k - 1 later ones.        *)
PageOf(ids, page) ==
    LET rows == [k \in 1..Cardinality(ids) |->
                   CHOOSE id \in ids : Cardinality({x \in ids : x > id}) = k - 1]
    IN  SubSeq(rows, (page - 1) * PageSize + 1, Min({page * PageSize, Len(rows)}))

(* buildListOrdersFilter: what is not given is not looked at.              *)
Passes(o, filter) == \A f \in DOMAIN filter : o[f] = filter[f]

ListOrders(u, filter, page) ==
    PageOf({id \in DOMAIN orders : orders[id].user = u /\ Passes(orders[id], filter)}, page)

(* The rows of all pages of OrderService.ListOrders.                       *)
OrdersShown(u, filter) == UNION {ToSet(ListOrders(u, filter, page)) : page \in 1..MaxOrders}

(* A trade as its user sees it: the order is the maker's where both are.   *)
UserTrade(u, tr) ==
    LET mine == IF orders[tr.maker].user = u THEN tr.maker ELSE tr.taker
    IN  [tr |-> tr, order |-> mine, side |-> orders[mine].side, isMaker |-> mine = tr.maker]

ListTrades(u) ==
    {UserTrade(u, tr) : tr \in {x \in trades : u \in {orders[x.maker].user, orders[x.taker].user}}}

(* A row of account_balances: lockFunds moves what it freezes out of        *)
(* balance.                                                                *)
AccountBalance(u, a) == [balance |-> account[u][a].free, frozen |-> account[u][a].frozen]

(* toBalancePB, with Available.                                            *)
ToBalance(row) ==
    [balance |-> row.balance, frozen |-> row.frozen, available |-> row.balance - row.frozen]

GetBalance(u, a) == ToBalance(AccountBalance(u, a))

ListBalances(u) == [a \in Assets |-> ToBalance(AccountBalance(u, a))]

-----------------------------------------------------------------------------
(* Properties.                                                             *)

(* Every variable has its type; no balance and no frozen amount is ever    *)
(* negative.                                                               *)
TypeOK ==
    /\ \A id \in DOMAIN orders :
         /\ orders[id].status \in Status
         /\ orders[id].filled \in 0..orders[id].qty
    /\ account \in [Users -> [Assets -> [free : Nat, frozen : Nat]]]
    /\ trades \subseteq ToSet(tradeEvents) /\ processed \subseteq ToSet(matchEvents)
    /\ inflight \subseteq Request
    /\ pos \in 0..Len(cmds) /\ seen \subseteq DOMAIN orders
    /\ book \in [Ids -> Nat] /\ Len(batch) <= BatchMax
    /\ mPos \in 0..Len(matchEvents) /\ tPos \in 0..Len(tradeEvents)

(* What user u gained, or lost, of asset a in the trades ListTrades shows; *)
(* a trade with oneself changes nothing.                                   *)
Gained(u, a) ==
    SumFunction([row \in ListTrades(u) |->
        IF orders[row.tr.maker].user = orders[row.tr.taker].user THEN 0
        ELSE IF Got(row.side) = a THEN Amount(a, row.tr) ELSE -Amount(a, row.tr)])

Billed(u, a) ==
    SumFunction([b \in billed |-> IF b.user = u /\ b.asset = a THEN b.change ELSE 0])

(* What a user holds of an asset, balance and frozen together, is what was *)
(* paid in, changed by each adjustment and each trade the user is shown    *)
(* exactly once: whatever is read again, whoever comes first, and however  *)
(* it is divided between the two; and no row is overdrawn.  Nothing is     *)
(* made or lost: the two sides of a trade are rounded alike.               *)
HoldingsFollowTrades ==
    \A u \in Users, a \in Assets :
        /\ GetBalance(u, a).balance + GetBalance(u, a).frozen = Deposit[a] + Billed(u, a) + Gained(u, a)
        /\ ListBalances(u)[a].balance >= 0 /\ ListBalances(u)[a].frozen >= 0

(* "available = balance - frozen", "可用余额" (docs/rest-api.md): what is shown   *)
(* as available is what lockFunds lets an order freeze.                    *)
AvailableCanBeFrozen ==
    \A u \in Users, a \in Assets : GetBalance(u, a).available = account[u][a].free

(* One client_order_id is one order, however many requests race with it,   *)
(* and every one of them is answered with that order.                      *)
OneOrderPerKey ==
    /\ \A i, j \in DOMAIN orders :
         (orders[i].user = orders[j].user /\ orders[i].client = orders[j].client) => i = j
    /\ \A x \in answers : \E o \in GetOrderByUser(x.user, x.id) : o.client = x.client

(* The orders that have asset a of user u frozen.                          *)
OrdersOf(u, a) == {id \in DOMAIN orders : orders[id].user = u /\ orders[id].side = SideOf(a)}

(* The histories of an account in which its freeze is kept right: none of  *)
(* its orders is filled in more than one trade or in part, no market buy   *)
(* pays more than was frozen for it, none reaches the shard although it    *)
(* was rejected, and no cancel is confirmed twice.                         *)
Regular(u, a) ==
    /\ \A i \in DOMAIN tradeEvents : LET tr == tradeEvents[i] IN
         \A id \in {tr.maker, tr.taker} \cap OrdersOf(u, a) :
              /\ orders[id].qty = tr.qty
              /\ Amount(a, tr) <= Locked(orders[id])
    /\ \A id \in seen \cap OrdersOf(u, a) : orders[id].status # "REJECTED"
    /\ \A i, j \in DOMAIN matchEvents :
         (matchEvents[i].id \in OrdersOf(u, a) /\ matchEvents[j].id = matchEvents[i].id
            /\ matchEvents[i].type = "CANCELED" /\ matchEvents[j].type = "CANCELED") => i = j

(* What order id needs: all that was locked for it until its trade is      *)
(* settled, or its cancel or reject applied, and nothing after that.       *)
Needs(id) ==
    IF orders[id].status \in {"CANCELED", "REJECTED"} \/ \E tr \in trades : id \in {tr.maker, tr.taker}
    THEN 0 ELSE Locked(orders[id])

(* Its orders cost what was locked for them, to the last unit.             *)
ComesOutEven(u, a) ==
    \A id \in OrdersOf(u, a) :
        /\ RoundDown(a, ComputeFreeze(orders[id])) = Locked(orders[id])
        /\ \A tr \in trades : id \in {tr.maker, tr.taker} => Amount(a, tr) = Locked(orders[id])

(* A regular account has frozen what its open orders need, in whatever     *)
(* order the two topics are read and however irregular all other accounts  *)
(* are: nothing is released before its trade is settled, nothing twice,    *)
(* and nothing of another order or account.  When everything comes out     *)
(* even it has frozen no more than that; what a better price or rounding   *)
(* leaves over stays frozen (SurplusReleased).                             *)
FundsStayFrozen ==
    \A u \in Users, a \in Assets : Regular(u, a) =>
        LET needs == SumFunction([id \in OrdersShown(u, [side |-> SideOf(a)]) |-> Needs(id)])
        IN  /\ GetBalance(u, a).frozen >= needs
            /\ ComesOutEven(u, a) => GetBalance(u, a).frozen = needs

(* ... and so, if all accounts are, every trade is settled in the end.     *)
TradesSettle ==
    <>[]((\A u \in Users, a \in Assets : Regular(u, a))
            => /\ tPos = Len(tradeEvents)
               /\ \A i \in DOMAIN tradeEvents : tradeEvents[i] \in trades)

(* "避免 filled_quantity 未更新误释放全部冻结" (match_apply.go): the funds of a     *)
(* trade are still frozen when it is settled.                              *)
TradesNeverRefused ==
    tPos < Len(tradeEvents) =>
        (NextTrade \in trades \/ Settles(NextTrade))

(* "若成交价低于 freeze_price，多余冻结在成交结算阶段释放" (market-buy-freeze.md):      *)
(* when all orders are filled and all trades settled nothing is frozen.    *)
SurplusReleased ==
    (\A id \in DOMAIN orders : orders[id].status = "FILLED" /\ orders[id].filled = orders[id].qty)
        => \A u \in Users, a \in Assets : GetBalance(u, a).frozen = 0

(* "frozen 已为 0（撤单/成交重复释放等幂等场景）" (balance_ops.go): the end of an    *)
(* order that has ended before releases nothing.                           *)
ReleaseIsIdempotent ==
    [][\A id \in DOMAIN orders :
          orders[id].status = "CANCELED" /\ mPos' = mPos + 1 /\ NextMatchEvent.id = id
              => account' = account]_vars
=============================================================================
