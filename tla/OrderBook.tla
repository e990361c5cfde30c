------------------------------ MODULE OrderBook ------------------------------
(***************************************************************************)
(* The in-memory order book of one symbol                                  *)
(* (internal/matching/engine/orderbook.go, matcher.go) and the skip lists  *)
(* it is made of (pkg/skiplist/skiplist.go), as operators on a value       *)
(*                                                                         *)
(*    book == [levels |-> [Side -> set of resting orders],                 *)
(*             orderMap |-> function from order ids to orders]             *)
(*                                                                         *)
(* A skip list is a set ordered by its comparator: two elements are the    *)
(* same key when the comparator returns 0, whatever their other fields.    *)
(* Decimals are integers in the smallest tick; times are integers.         *)
(***************************************************************************)
EXTENDS Integers, FiniteSets

CONSTANTS OrderIds,   \* the order ids in play
          Prices,     \* the limit prices in play
          MaxQty,     \* the largest order quantity
          Times       \* the readings of a wall clock

ASSUME OrderBookAssumption ==
    /\ OrderIds \subseteq Nat \ {0}
    /\ Prices \subseteq Nat \ {0}
    /\ MaxQty \in Nat \ {0}
    /\ Times \subseteq Nat

Side == {"Buy", "Sell"}
OrderType == {"Limit", "Market"}

Opposite(side) == IF side = "Buy" THEN "Sell" ELSE "Buy"

(* engine.Order; a market order has price 0 (priceFromOrderProto).         *)
Order == [id : OrderIds, side : Side, type : OrderType,
          price : Prices \cup {0}, qty : 1..MaxQty, rem : 0..MaxQty,
          updateTime : Times]

(* engine.Trade; the trade id is a hash of <<seq, maker, taker>>, which is *)
(* what the record carries.                                                *)
Trade == [seq : Nat, maker : OrderIds, taker : OrderIds,
          price : Prices \cup {0}, qty : 1..MaxQty]

-----------------------------------------------------------------------------
(* The comparators of the two skip lists.                                  *)

EarlierAtPrice(a, b) ==
    \/ a.updateTime < b.updateTime
    \/ a.updateTime = b.updateTime /\ a.id < b.id

CompareAsk(a, b) == a.price < b.price \/ (a.price = b.price /\ EarlierAtPrice(a, b))

(* Mutant: the bid list sorted like the ask list.                          *)
CompareBidAscending(a, b) == CompareAsk(a, b)

CompareBid(a, b) == b.price < a.price \/ (a.price = b.price /\ EarlierAtPrice(a, b))

(* a comes strictly before b in the book of that side.                     *)
Before(side, a, b) == IF side = "Buy" THEN CompareBid(a, b) ELSE CompareAsk(a, b)

(* The comparator returns 0.                                               *)
SameKey(a, b) == a.price = b.price /\ a.updateTime = b.updateTime /\ a.id = b.id

(* SkipList.Delete, Contains and Insert (which overwrites an equal key).   *)
Delete(list, o) == {x \in list : ~SameKey(x, o)}
SkipListContains(list, o) == \E x \in list : SameKey(x, o)
Insert(list, o) == Delete(list, o) \cup {o}

(* SkipList.Front / the first value of SkipList.Iterator.                  *)
IsFront(side, list, o) == /\ o \in list
                          /\ \A x \in list : x = o \/ Before(side, o, x)

-----------------------------------------------------------------------------
(* OrderBook operations.                                                   *)

NewOrderBook == [levels |-> [s \in Side |-> {}], orderMap |-> [i \in {} |-> 0]]

OrderMapPut(m, o) == [i \in DOMAIN m \cup {o.id} |-> IF i = o.id THEN o ELSE m[i]]
OrderMapDelete(m, id) == [i \in DOMAIN m \ {id} |-> m[i]]

(* Every order that reaches the book carries the update_time of its        *)
(* command, so the IsZero branch of the source never applies.              *)
InsertOrder(book, o) ==
    IF /\ o.id \in DOMAIN book.orderMap
       /\ SkipListContains(book.levels[book.orderMap[o.id].side], book.orderMap[o.id])
    THEN book
    ELSE [levels |-> [book.levels EXCEPT ![o.side] = Insert(@, o)],
          orderMap |-> OrderMapPut(book.orderMap, o)]

(* Mutant: the order leaves the map but not the skip list.                 *)
RemoveOrderMapOnly(book, id) == [book EXCEPT !.orderMap = OrderMapDelete(@, id)]

RemoveOrder(book, id) ==
    IF id \notin DOMAIN book.orderMap
    THEN book
    ELSE LET o == book.orderMap[id]
         IN  [levels |-> [book.levels EXCEPT ![o.side] = Delete(@, o)],
              orderMap |-> OrderMapDelete(book.orderMap, id)]

HasActiveOrder(book, id) ==
    /\ id \in DOMAIN book.orderMap
    /\ SkipListContains(book.levels[book.orderMap[id].side], book.orderMap[id])

(* Mutant: equal prices do not trade.                                      *)
StopMatchAtEqual(taker, makerPrice) ==
    /\ taker.type = "Limit"
    /\ IF taker.side = "Buy" THEN makerPrice >= taker.price
                             ELSE makerPrice <= taker.price

(* stopMatch: the maker's price is beyond the limit of the taker.          *)
StopMatch(taker, makerPrice) ==
    /\ taker.type = "Limit"
    /\ IF taker.side = "Buy" THEN makerPrice > taker.price
                             ELSE makerPrice < taker.price

MatchQty(taker, maker) == IF taker.rem <= maker.rem THEN taker.rem ELSE maker.rem

(* An order after a trade of qty at time now.                              *)
Reduced(o, qty, now) == [o EXCEPT !.rem = @ - qty, !.updateTime = now]

(* Mutant: the re-keyed maker is not stored in orderMap.                   *)
FillMakerStaleMap(book, maker, qty, now) ==
    LET list == Delete(book.levels[maker.side], maker)
        left == Reduced(maker, qty, now)
    IN  IF maker.rem = qty
        THEN [levels |-> [book.levels EXCEPT ![maker.side] = list],
              orderMap |-> OrderMapDelete(book.orderMap, maker.id)]
        ELSE [book EXCEPT !.levels[maker.side] = Insert(list, left)]

(* The book after one iteration of matchAgainstBook: a filled maker leaves *)
(* list and map, any other is re-keyed with the current time.              *)
FillMaker(book, maker, qty, now) ==
    LET list == Delete(book.levels[maker.side], maker)
        left == Reduced(maker, qty, now)
    IN  IF maker.rem = qty
        THEN [levels |-> [book.levels EXCEPT ![maker.side] = list],
              orderMap |-> OrderMapDelete(book.orderMap, maker.id)]
        ELSE [levels |-> [book.levels EXCEPT ![maker.side] = Insert(list, left)],
              orderMap |-> OrderMapPut(book.orderMap, left)]

(* Mutant: the taker's remaining is not reduced.                           *)
FillTakerKeep(taker, qty, now) == [taker EXCEPT !.updateTime = now]

FillTaker(taker, qty, now) == Reduced(taker, qty, now)

NewTrade(seq, maker, taker, qty) ==
    [seq |-> seq, maker |-> maker.id, taker |-> taker.id,
     price |-> maker.price, qty |-> qty]

(* The iteration is over: nothing left to fill, an exhausted list, or a    *)
(* front order beyond the limit.                                           *)
MatchOver(book, taker) ==
    LET side == Opposite(taker.side) IN
    \/ taker.rem = 0
    \/ book.levels[side] = {}
    \/ \E m \in book.levels[side] : IsFront(side, book.levels[side], m)
                                    /\ StopMatch(taker, m.price)

(* matchLimit rests what is left, matchMarket drops it.                    *)
RestTaker(book, taker) ==
    IF taker.type = "Limit" /\ taker.rem > 0 THEN InsertOrder(book, taker) ELSE book

-----------------------------------------------------------------------------
(* Validate: the best bid is below the best ask.                           *)
Uncrossed(book) ==
    \A b \in book.levels["Buy"], a \in book.levels["Sell"] : b.price < a.price

(* ExportSnapshot and RestoreFromSnapshot: the levels are exported, and    *)
(* the map is rebuilt from them by inserting order by order.               *)
ExportSnapshot(book) == book.levels

RestoreFromSnapshot(levels) ==
    [levels |-> levels,
     orderMap |-> [i \in {o.id : o \in UNION {levels[s] : s \in Side}} |->
                     CHOOSE o \in UNION {levels[s] : s \in Side} : o.id = i]]
=============================================================================
