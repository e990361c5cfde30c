------------------------------- MODULE Matcher -------------------------------
(***************************************************************************)
(* One SymbolEngine processing the commands of its shard, one at a time    *)
(* (internal/matching/symbol/symbol_engine.go,                             *)
(* internal/matching/engine/matcher.go), behind the `seen' filter of the   *)
(* durable engine (internal/matching/recovery/engine.go).                  *)
(*                                                                         *)
(* A command runs under the engine's mutex.  The loop of matchAgainstBook  *)
(* is modelled iteration by iteration: StartNewOrder, one MatchStep per    *)
(* maker, MatchDone; the property that needs the state between commands    *)
(* says taker = NoTaker.  A command for an order id in seen is answered    *)
(* without any change and is a stuttering step.                            *)
(***************************************************************************)
EXTENDS OrderBook, Sequences, Functions

CONSTANT MaxSeq       \* bound on the number of commands

ASSUME MatcherAssumption == MaxSeq \in Nat

VARIABLES book,       \* the OrderBook
          taker,      \* the order being matched, or NoTaker
          trades,     \* the trades of the current command, in order
          seq,        \* the sequence number of the last command (the WAL's)
          seen,       \* order ids accepted so far
          clock,      \* the last reading of time.Now()
          filled,     \* history: quantity traded so far by each order id
          start       \* history: the book when the current command began

vars == <<book, taker, trades, seq, seen, clock, filled, start>>

NoTaker == [id |-> 0]

Idle == taker = NoTaker

(* prepareTaker: the order service sends remaining = quantity              *)
(* (internal/order/outbox/envelope.go), and a zero remaining means all.    *)
PrepareTaker(id, side, type, price, qty, t) ==
    [id |-> id, side |-> side, type |-> type, price |-> price,
     qty |-> qty, rem |-> qty, updateTime |-> t]

NewOrders ==
    {PrepareTaker(id, side, "Limit", p, q, t) :
        id \in OrderIds, side \in Side, p \in Prices, q \in 1..MaxQty, t \in Times}
    \cup
    {PrepareTaker(id, side, "Market", 0, q, t) :
        id \in OrderIds, side \in Side, q \in 1..MaxQty, t \in Times}

Init ==
    /\ book = NewOrderBook
    /\ taker = NoTaker
    /\ trades = <<>>
    /\ seq = 0
    /\ seen = {}
    /\ clock \in Times
    /\ filled = [i \in OrderIds |-> 0]
    /\ start = NewOrderBook

(* Mutant: no duplicate filter.                                            *)
StartNewOrderUnfiltered(o) ==
    /\ Idle
    /\ seq < MaxSeq
    /\ seq' = seq + 1
    /\ seen' = seen \cup {o.id}
    /\ taker' = o
    /\ trades' = <<>>
    /\ start' = book
    /\ UNCHANGED <<book, clock, filled>>

(* applyNewOrderImmediateLocked up to the loop of matchAgainstBook.        *)
StartNewOrder(o) ==
    /\ Idle
    /\ seq < MaxSeq
    /\ o.id \notin seen
    /\ seq' = seq + 1
    /\ seen' = seen \cup {o.id}
    /\ taker' = o
    /\ trades' = <<>>
    /\ start' = book
    /\ UNCHANGED <<book, clock, filled>>

(* One iteration of matchAgainstBook against the front order `maker'.      *)
MatchMaker(maker, now) ==
    LET qty == MatchQty(taker, maker) IN
    /\ book' = FillMaker(book, maker, qty, now)
    /\ taker' = FillTaker(taker, qty, now)
    /\ trades' = Append(trades, NewTrade(seq, maker, taker, qty))
    /\ filled' = [i \in OrderIds |-> filled[i] + (IF i = maker.id THEN qty ELSE 0)
                                               + (IF i = taker.id THEN qty ELSE 0)]
    /\ clock' = now
    /\ UNCHANGED <<seq, seen, start>>

MatchStep ==
    /\ ~Idle
    /\ ~MatchOver(book, taker)
    /\ \E maker \in book.levels[Opposite(taker.side)], now \in Times :
         /\ IsFront(Opposite(taker.side), book.levels[Opposite(taker.side)], maker)
         /\ now >= clock
         /\ MatchMaker(maker, now)

(* The end of matchLimit or matchMarket.                                   *)
MatchDone ==
    /\ ~Idle
    /\ MatchOver(book, taker)
    /\ book' = RestTaker(book, taker)
    /\ taker' = NoTaker
    /\ UNCHANGED <<trades, seq, seen, clock, filled, start>>

(* applyCancelImmediateLocked: a cancel of an order that is not in the     *)
(* book takes a sequence number and changes nothing else.                  *)
Cancel(id) ==
    /\ Idle
    /\ seq < MaxSeq
    /\ seq' = seq + 1
    /\ book' = RemoveOrder(book, id)
    /\ trades' = <<>>
    /\ start' = book
    /\ UNCHANGED <<taker, seen, clock, filled>>

Next ==
    \/ \E o \in NewOrders : StartNewOrder(o)
    \/ MatchStep
    \/ MatchDone
    \/ \E id \in OrderIds : Cancel(id)

Spec == Init /\ [][Next]_vars

-----------------------------------------------------------------------------
(* Properties.                                                             *)

(* Every variable has its type.                                            *)
TypeOK ==
    /\ book.levels \in [Side -> SUBSET Order]
    /\ DOMAIN book.orderMap \subseteq OrderIds
    /\ \A i \in DOMAIN book.orderMap : book.orderMap[i] \in Order
    /\ taker \in Order \cup {NoTaker}
    /\ trades \in Seq(Trade)
    /\ seq \in Nat
    /\ seen \subseteq OrderIds
    /\ clock \in Times
    /\ filled \in [OrderIds -> Nat]

(* OrderBook.Validate never finds ErrSpreadViolation, not even between two *)
(* iterations of the matching loop: no resting bid reaches a resting ask.  *)
BookUncrossed == Uncrossed(book)

(* The skip lists and orderMap describe the same resting orders, each in   *)
(* the list of its side: a maker re-keyed by a partial fill is re-keyed in *)
(* both, so that RemoveOrder and Contains still find it.                   *)
MapAgreesWithLevels ==
    \A s \in Side :
        book.levels[s] = {book.orderMap[i] : i \in {j \in DOMAIN book.orderMap :
                                                      book.orderMap[j].side = s}}

(* No quantity is created or lost: what an order has left is its quantity  *)
(* minus everything it traded, as maker and as taker, and nothing rests    *)
(* with nothing left.                                                      *)
QuantityConserved ==
    /\ \A i \in DOMAIN book.orderMap :
         /\ book.orderMap[i].rem > 0
         /\ book.orderMap[i].rem + filled[i] = book.orderMap[i].qty
    /\ ~Idle => taker.rem + filled[taker.id] = taker.qty
    /\ \A i \in OrderIds : filled[i] <= MaxQty

(* One command never trades twice with the same maker: trade_id is derived *)
(* from (seq, maker, taker) (trade_id.go), and the order service drops a   *)
(* second trade with the same id.                                          *)
MakerOncePerCommand ==
    \A i, j \in 1..Len(trades) : trades[i].maker = trades[j].maker => i = j

(* The reference definition of price-time priority: when the loop is over, *)
(* a maker that rested when the command began has traded exactly the part  *)
(* of the taker's quantity that the eligible makers ahead of it left.      *)
Eligible(m) == ~StopMatch(taker, m.price)

Ahead(m) == {x \in start.levels[m.side] : Eligible(x) /\ Before(m.side, x, m)}

Owed(m) ==
    LET ahead == SumFunction([x \in Ahead(m) |-> x.rem])
        left == taker.qty - ahead
    IN  IF ~Eligible(m) \/ left <= 0 THEN 0
        ELSE IF left <= m.rem THEN left ELSE m.rem

Traded(m) ==
    SumFunction([i \in {k \in 1..Len(trades) : trades[k].maker = m.id} |-> trades[i].qty])

FillsFollowPriority ==
    (~Idle /\ MatchOver(book, taker)) =>
        \A m \in start.levels[Opposite(taker.side)] :
            Traded(m) = Owed(m)

(* An order id that was accepted and is neither in the book nor being      *)
(* matched is final: no later step puts it back or trades it again.        *)
GoneForGood ==
    [][\A i \in seen : (~HasActiveOrder(book, i) /\ taker.id # i) =>
            (i \notin DOMAIN book'.orderMap /\ filled'[i] = filled[i])]_vars

(* Time priority: of two orders that rest at the same price, the one ahead *)
(* stays ahead while both rest (docs/matching-api.md).                     *)
RestingOrdersKeepTheirPlace ==
    [][\A i, j \in DOMAIN book.orderMap \cap DOMAIN book'.orderMap :
          LET a == book.orderMap[i]
              b == book.orderMap[j]
          IN  (a.side = b.side /\ a.price = b.price /\ Before(a.side, a, b))
              => Before(a.side, book'.orderMap[i], book'.orderMap[j])]_vars
=============================================================================
