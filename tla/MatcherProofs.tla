---------------------------- MODULE MatcherProofs ----------------------------
(***************************************************************************)
(* Proofs about Matcher, for every set of order ids, prices, quantities    *)
(* and clock readings.                                                     *)
(***************************************************************************)
EXTENDS Matcher, InductionFacts

(* The types of a book.                                                    *)
BookType(b) ==
    /\ b = [levels |-> b.levels, orderMap |-> b.orderMap]
    /\ b.levels \in [Side -> SUBSET Order]
    /\ DOMAIN b.orderMap \subseteq OrderIds
    /\ b.orderMap \in [DOMAIN b.orderMap -> Order]

(* MapAgreesWithLevels, order by order, with the key of every entry.       *)
BookAgrees(b) ==
    /\ \A s \in Side : \A x \in b.levels[s] :
          x.side = s /\ x.id \in DOMAIN b.orderMap /\ b.orderMap[x.id] = x
    /\ \A i \in DOMAIN b.orderMap :
          b.orderMap[i].id = i /\ b.orderMap[i] \in b.levels[b.orderMap[i].side]

(* What is added to the safety properties to make them inductive: an id    *)
(* that was never accepted never traded, a resting id was accepted, and    *)
(* the taker is an accepted order that is not in the book.                 *)
Accepted ==
    /\ DOMAIN book.orderMap \subseteq seen
    /\ ~Idle => taker.id \in seen /\ taker.id \notin DOMAIN book.orderMap
    /\ \A i \in OrderIds \ seen : filled[i] = 0

(* A maker of the current command that still rests was the last one.       *)
MakersAreGone ==
    \A k \in 1..Len(trades) :
        (~Idle /\ taker.rem > 0) => trades[k].maker \notin DOMAIN book.orderMap

IInv ==
    /\ TypeOK
    /\ BookType(book)
    /\ BookAgrees(book)
    /\ BookUncrossed
    /\ QuantityConserved
    /\ Accepted
    /\ MakersAreGone
    /\ MakerOncePerCommand

-----------------------------------------------------------------------------
(* Facts about the operations of the book.                                 *)

(* The fields of an order and the positivity of ids.                       *)
LEMMA OrderFields ==
    ASSUME NEW o \in Order
    PROVE  /\ o.id \in OrderIds /\ o.id \in Nat /\ o.id # 0
           /\ o.side \in Side
           /\ o.type \in OrderType
           /\ o.price \in Nat
           /\ o.qty \in 1..MaxQty
           /\ o.rem \in 0..MaxQty
           /\ o.updateTime \in Times
<1>1. /\ o.id \in OrderIds /\ o.side \in Side /\ o.type \in OrderType
      /\ o.qty \in 1..MaxQty /\ o.rem \in 0..MaxQty /\ o.updateTime \in Times
  BY DEF Order
<1>2. o.price \in Prices \cup {0}
  BY DEF Order
<1>3. Prices \cup {0} \subseteq Nat
  BY OrderBookAssumption
<1>4. o.price \in Nat
  BY <1>2, <1>3
<1>5. o.id \in Nat /\ o.id # 0
  BY <1>1, OrderBookAssumption
<1> QED BY <1>1, <1>4, <1>5

(* NoTaker is not an order.                                                *)
LEMMA NoTakerIsNoOrder == NoTaker \notin Order
BY OrderBookAssumption DEF NoTaker, Order

(* An order after a trade of part of what it has left.                     *)
LEMMA ReducedOrder ==
    ASSUME NEW o \in Order, NEW q \in 1..o.rem, NEW now \in Times
    PROVE  /\ Reduced(o, q, now) \in Order
           /\ Reduced(o, q, now).id = o.id
           /\ Reduced(o, q, now).side = o.side
           /\ Reduced(o, q, now).type = o.type
           /\ Reduced(o, q, now).price = o.price
           /\ Reduced(o, q, now).qty = o.qty
           /\ Reduced(o, q, now).rem = o.rem - q
<1>1. o.rem \in 0..MaxQty /\ MaxQty \in Nat
  BY OrderFields, OrderBookAssumption
<1>2. o.rem - q \in 0..MaxQty
  BY <1>1
<1> QED BY <1>2 DEF Order, Reduced

(* What FillMaker does to a book whose two views agree: a filled maker     *)
(* leaves both views, any other is replaced in both.                       *)
LEMMA FillMakerEffect ==
    ASSUME NEW b, BookType(b), BookAgrees(b),
           NEW s \in Side, NEW m \in b.levels[s],
           NEW q \in 1..m.rem, NEW now \in Times
    PROVE  /\ m.rem = q => FillMaker(b, m, q, now) =
                [levels |-> [b.levels EXCEPT ![s] = b.levels[s] \ {m}],
                 orderMap |-> OrderMapDelete(b.orderMap, m.id)]
           /\ m.rem # q => FillMaker(b, m, q, now) =
                [levels |-> [b.levels EXCEPT
                                ![s] = (b.levels[s] \ {m}) \cup {Reduced(m, q, now)}],
                 orderMap |-> OrderMapPut(b.orderMap, Reduced(m, q, now))]
<1>1. /\ m \in Order /\ m.side = s /\ m.id \in DOMAIN b.orderMap
      /\ b.orderMap[m.id] = m
  BY DEF BookType, BookAgrees
<1>2. Reduced(m, q, now).id = m.id
  BY <1>1, ReducedOrder
<1>3. Delete(b.levels[s], m) = b.levels[s] \ {m}
  BY <1>1 DEF Delete, SameKey, BookAgrees
<1>4. Insert(b.levels[s] \ {m}, Reduced(m, q, now))
        = (b.levels[s] \ {m}) \cup {Reduced(m, q, now)}
  <2>1. \A x \in b.levels[s] \ {m} : ~SameKey(x, Reduced(m, q, now))
    BY <1>1, <1>2 DEF SameKey, BookAgrees
  <2> QED BY <2>1 DEF Insert, Delete
<1> QED BY <1>1, <1>3, <1>4 DEF FillMaker

(* Filling a maker keeps the book typed and its two views in agreement.    *)
LEMMA FillMakerAgrees ==
    ASSUME NEW b, BookType(b), BookAgrees(b),
           NEW s \in Side, NEW m \in b.levels[s],
           NEW q \in 1..m.rem, NEW now \in Times
    PROVE  /\ BookType(FillMaker(b, m, q, now))
           /\ BookAgrees(FillMaker(b, m, q, now))
<1> DEFINE left == Reduced(m, q, now)
           f == FillMaker(b, m, q, now)
<1>1. /\ m \in Order /\ m.side = s
      /\ m.id \in DOMAIN b.orderMap /\ b.orderMap[m.id] = m
  BY DEF BookType, BookAgrees
<1>2. left \in Order /\ left.id = m.id /\ left.side = s
  BY <1>1, ReducedOrder
<1>3. CASE m.rem = q
  <2>1. f = [levels |-> [b.levels EXCEPT ![s] = b.levels[s] \ {m}],
             orderMap |-> OrderMapDelete(b.orderMap, m.id)]
    BY <1>3, FillMakerEffect
  <2> HIDE DEF f
  <2>2. BookType(f)
    BY <2>1, <1>1 DEF BookType, OrderMapDelete
  <2>3. BookAgrees(f)
    BY <2>1, <1>1 DEF BookType, BookAgrees, OrderMapDelete
  <2> QED BY <2>2, <2>3 DEF f
<1>4. CASE m.rem # q
  <2>1. f = [levels |-> [b.levels EXCEPT ![s] = (b.levels[s] \ {m}) \cup {left}],
             orderMap |-> OrderMapPut(b.orderMap, left)]
    BY <1>4, FillMakerEffect
  <2> HIDE DEF f, left
  <2>2. BookType(f)
    BY <2>1, <1>1, <1>2 DEF BookType, OrderMapPut
  <2>3. /\ DOMAIN f.orderMap = DOMAIN b.orderMap
        /\ f.orderMap[m.id] = left
        /\ \A i \in DOMAIN b.orderMap : i # m.id => f.orderMap[i] = b.orderMap[i]
    BY <2>1, <1>1, <1>2 DEF OrderMapPut
  <2>4. /\ f.levels[s] = (b.levels[s] \ {m}) \cup {left}
        /\ \A t \in Side : t # s => f.levels[t] = b.levels[t]
    BY <2>1 DEF BookType
  <2>5. \A t \in Side : \A x \in f.levels[t] :
          x.side = t /\ x.id \in DOMAIN f.orderMap /\ f.orderMap[x.id] = x
    BY <2>3, <2>4, <1>1, <1>2 DEF BookAgrees
  <2>6. ASSUME NEW i \in DOMAIN f.orderMap
        PROVE  f.orderMap[i].id = i /\ f.orderMap[i] \in f.levels[f.orderMap[i].side]
    <3>1. CASE i = m.id
      BY <3>1, <2>3, <2>4, <1>1, <1>2
    <3>2. CASE i # m.id
      <4>1. f.orderMap[i] = b.orderMap[i] /\ i \in DOMAIN b.orderMap
        BY <3>2, <2>3
      <4>2. /\ b.orderMap[i].id = i
            /\ b.orderMap[i] \in b.levels[b.orderMap[i].side]
            /\ b.orderMap[i].side \in Side
        BY <4>1, OrderFields DEF BookAgrees, BookType
      <4> QED BY <4>1, <4>2, <3>2, <1>1, <2>4
    <3> QED BY <3>1, <3>2
  <2>7. BookAgrees(f)
    BY <2>5, <2>6 DEF BookAgrees
  <2> QED BY <2>2, <2>7 DEF f
<1> QED BY <1>3, <1>4

(* Resting an order whose id is not in the book adds it to both views.     *)
LEMMA InsertOrderEffect ==
    ASSUME NEW b, BookType(b), BookAgrees(b),
           NEW o \in Order, o.id \notin DOMAIN b.orderMap
    PROVE  InsertOrder(b, o) =
             [levels |-> [b.levels EXCEPT ![o.side] = b.levels[o.side] \cup {o}],
              orderMap |-> OrderMapPut(b.orderMap, o)]
<1>1. o.side \in Side
  BY OrderFields
<1>2. Insert(b.levels[o.side], o) = b.levels[o.side] \cup {o}
  BY <1>1 DEF Insert, Delete, SameKey, BookAgrees
<1> QED BY <1>2 DEF InsertOrder

(* Resting an order keeps the book typed and its two views in agreement.   *)
LEMMA InsertOrderAgrees ==
    ASSUME NEW b, BookType(b), BookAgrees(b),
           NEW o \in Order, o.id \notin DOMAIN b.orderMap
    PROVE  /\ BookType(InsertOrder(b, o))
           /\ BookAgrees(InsertOrder(b, o))
<1> DEFINE f == InsertOrder(b, o)
<1>1. o.side \in Side /\ o.id \in OrderIds
  BY OrderFields
<1>2. f = [levels |-> [b.levels EXCEPT ![o.side] = b.levels[o.side] \cup {o}],
           orderMap |-> OrderMapPut(b.orderMap, o)]
  BY InsertOrderEffect
<1> HIDE DEF f
<1>3. BookType(f)
  BY <1>1, <1>2 DEF BookType, OrderMapPut
<1>4. /\ DOMAIN f.orderMap = DOMAIN b.orderMap \cup {o.id}
      /\ f.orderMap[o.id] = o
      /\ \A i \in DOMAIN b.orderMap : f.orderMap[i] = b.orderMap[i]
  BY <1>2 DEF OrderMapPut
<1>5. /\ f.levels[o.side] = b.levels[o.side] \cup {o}
      /\ \A t \in Side : t # o.side => f.levels[t] = b.levels[t]
  BY <1>1, <1>2 DEF BookType
<1>6. \A t \in Side : \A x \in f.levels[t] :
        x.side = t /\ x.id \in DOMAIN f.orderMap /\ f.orderMap[x.id] = x
  BY <1>4, <1>5 DEF BookAgrees
<1>7. ASSUME NEW i \in DOMAIN f.orderMap
      PROVE  f.orderMap[i].id = i /\ f.orderMap[i] \in f.levels[f.orderMap[i].side]
  <2>1. CASE i = o.id
    BY <2>1, <1>4, <1>5
  <2>2. CASE i \in DOMAIN b.orderMap
    <3>1. /\ b.orderMap[i].id = i
          /\ b.orderMap[i] \in b.levels[b.orderMap[i].side]
          /\ b.orderMap[i].side \in Side
      BY <2>2, OrderFields DEF BookAgrees, BookType
    <3> QED BY <3>1, <2>2, <1>4, <1>5
  <2> QED BY <2>1, <2>2, <1>4
<1>8. BookAgrees(f)
  BY <1>6, <1>7 DEF BookAgrees
<1> QED BY <1>3, <1>8 DEF f

(* Removing an order, present or not, keeps the two views in agreement and *)
(* only shrinks them.                                                      *)
LEMMA RemoveOrderAgrees ==
    ASSUME NEW b, BookType(b), BookAgrees(b), NEW id \in OrderIds
    PROVE  /\ BookType(RemoveOrder(b, id))
           /\ BookAgrees(RemoveOrder(b, id))
           /\ \A t \in Side : RemoveOrder(b, id).levels[t] \subseteq b.levels[t]
           /\ DOMAIN RemoveOrder(b, id).orderMap = DOMAIN b.orderMap \ {id}
           /\ \A i \in DOMAIN b.orderMap \ {id} :
                RemoveOrder(b, id).orderMap[i] = b.orderMap[i]
<1>1. CASE id \notin DOMAIN b.orderMap
  BY <1>1 DEF RemoveOrder
<1>2. CASE id \in DOMAIN b.orderMap
  <2> DEFINE o == b.orderMap[id]
             f == RemoveOrder(b, id)
  <2>1. /\ o \in Order /\ o.id = id /\ o.side \in Side /\ o \in b.levels[o.side]
    BY <1>2, OrderFields DEF BookType, BookAgrees
  <2>2. Delete(b.levels[o.side], o) = b.levels[o.side] \ {o}
    BY <2>1, <1>2 DEF Delete, SameKey, BookAgrees
  <2>3. f = [levels |-> [b.levels EXCEPT ![o.side] = b.levels[o.side] \ {o}],
             orderMap |-> OrderMapDelete(b.orderMap, id)]
    BY <1>2, <2>2 DEF RemoveOrder
  <2> HIDE DEF f
  <2>4. BookType(f)
    BY <2>1, <2>3 DEF BookType, OrderMapDelete
  <2>5. /\ DOMAIN f.orderMap = DOMAIN b.orderMap \ {id}
        /\ \A i \in DOMAIN b.orderMap \ {id} : f.orderMap[i] = b.orderMap[i]
    BY <2>3 DEF OrderMapDelete
  <2>6. /\ f.levels[o.side] = b.levels[o.side] \ {o}
        /\ \A t \in Side : t # o.side => f.levels[t] = b.levels[t]
    BY <2>1, <2>3 DEF BookType
  <2>7. BookAgrees(f)
    <3>1. ASSUME NEW t \in Side, NEW x \in f.levels[t]
          PROVE  x.side = t /\ x.id \in DOMAIN f.orderMap /\ f.orderMap[x.id] = x
      <4>1. /\ x \in b.levels[t] /\ x.side = t
            /\ x.id \in DOMAIN b.orderMap /\ b.orderMap[x.id] = x
        BY <2>1, <2>6 DEF BookAgrees
      <4>2. x # o
        BY <2>1, <2>6, <4>1
      <4> QED BY <4>1, <4>2, <2>5
    <3>2. ASSUME NEW i \in DOMAIN f.orderMap
          PROVE  f.orderMap[i].id = i /\ f.orderMap[i] \in f.levels[f.orderMap[i].side]
      <4>1. i \in DOMAIN b.orderMap /\ i # id /\ f.orderMap[i] = b.orderMap[i]
        BY <2>5
      <4>2. /\ b.orderMap[i].id = i
            /\ b.orderMap[i] \in b.levels[b.orderMap[i].side]
            /\ b.orderMap[i].side \in Side
        BY <4>1, OrderFields DEF BookAgrees, BookType
      <4> QED BY <4>1, <4>2, <2>1, <2>6
    <3> QED BY <3>1, <3>2 DEF BookAgrees
  <2>8. \A t \in Side : f.levels[t] \subseteq b.levels[t]
    BY <2>6
  <2> QED BY <2>4, <2>5, <2>7, <2>8 DEF f
<1> QED BY <1>1, <1>2
-----------------------------------------------------------------------------
(* The inductive invariant, action by action.                              *)

(* The empty book satisfies the invariant.                                 *)
LEMMA InitInv == Init => IInv
<1> SUFFICES ASSUME Init PROVE IInv
  OBVIOUS
<1> USE DEF Init
<1>1. book.levels = [s \in Side |-> {}] /\ book.orderMap = [i \in {} |-> 0]
  BY DEF NewOrderBook
<1>2. BookType(book)
  BY <1>1 DEF BookType, NewOrderBook
<1>3. BookAgrees(book) /\ BookUncrossed
  BY <1>1 DEF BookAgrees, BookUncrossed, Uncrossed, Side
<1>4. TypeOK
  BY <1>1 DEF TypeOK
<1>5. QuantityConserved
  BY <1>1, OrderBookAssumption DEF QuantityConserved, Idle
<1>6. Accepted
  BY <1>1 DEF Accepted, Idle
<1>7. MakersAreGone /\ MakerOncePerCommand
  BY DEF MakersAreGone, MakerOncePerCommand
<1> QED BY <1>2, <1>3, <1>4, <1>5, <1>6, <1>7 DEF IInv

(* A new order is an order with everything left.                           *)
LEMMA NewOrderFields ==
    ASSUME NEW o \in NewOrders
    PROVE  o \in Order /\ o.rem = o.qty
BY OrderBookAssumption DEF NewOrders, PrepareTaker, Order, OrderType

(* Accepting a new order behind the `seen' filter keeps the invariant.     *)
LEMMA StartNewOrderInv ==
    ASSUME IInv, NEW o \in NewOrders, StartNewOrder(o)
    PROVE  IInv'
<1> USE DEF StartNewOrder
<1>1. o \in Order /\ o.rem = o.qty /\ o.id \in OrderIds /\ o.id \notin seen
  BY NewOrderFields, OrderFields
<1>2. TypeOK'
  BY <1>1 DEF IInv, TypeOK
<1>3. (BookType(book) /\ BookAgrees(book) /\ BookUncrossed)'
  BY DEF IInv, BookUncrossed
<1>4. QuantityConserved'
  <2>1. filled[o.id] = 0 /\ o.rem + 0 = o.qty
    BY <1>1, OrderFields, OrderBookAssumption DEF IInv, Accepted
  <2> QED BY <2>1 DEF IInv, QuantityConserved
<1>5. Accepted'
  BY <1>1 DEF IInv, Accepted
<1>6. (MakersAreGone /\ MakerOncePerCommand)'
  BY DEF MakersAreGone, MakerOncePerCommand
<1> QED BY <1>2, <1>3, <1>4, <1>5, <1>6 DEF IInv

(* A cancel keeps the invariant, whether or not the order rests.           *)
LEMMA CancelInv ==
    ASSUME IInv, NEW id \in OrderIds, Cancel(id)
    PROVE  IInv'
<1> USE DEF Cancel
<1>1. /\ BookType(book') /\ BookAgrees(book')
      /\ \A t \in Side : book'.levels[t] \subseteq book.levels[t]
      /\ DOMAIN book'.orderMap = DOMAIN book.orderMap \ {id}
      /\ \A i \in DOMAIN book.orderMap \ {id} : book'.orderMap[i] = book.orderMap[i]
  BY RemoveOrderAgrees DEF IInv
<1>2. TypeOK'
  BY <1>1 DEF IInv, TypeOK, BookType
<1>3. BookUncrossed'
  BY <1>1 DEF IInv, BookUncrossed, Uncrossed, Side
<1>4. QuantityConserved'
  BY <1>1 DEF IInv, QuantityConserved, Idle
<1>5. Accepted'
  BY <1>1 DEF IInv, Accepted, Idle
<1>6. (MakersAreGone /\ MakerOncePerCommand)'
  BY DEF MakersAreGone, MakerOncePerCommand
<1> QED BY <1>1, <1>2, <1>3, <1>4, <1>5, <1>6 DEF IInv

(* The order being matched, and the quantity of one trade.                 *)
LEMMA TakerFields ==
    ASSUME IInv, ~Idle
    PROVE  /\ taker \in Order /\ taker.id \in OrderIds
           /\ taker.side \in Side /\ Opposite(taker.side) \in Side
BY OrderFields DEF IInv, TypeOK, Idle, Opposite, Side

(* One iteration of matchAgainstBook keeps the invariant.                  *)
LEMMA MatchStepInv ==
    ASSUME IInv, MatchStep
    PROVE  IInv'
<1> DEFINE s == Opposite(taker.side)
<1>1. /\ taker \in Order /\ taker.id \in OrderIds /\ s \in Side
      /\ taker.rem \in 1..MaxQty /\ taker.qty \in 1..MaxQty
  <2>1. taker.rem # 0
    BY DEF MatchStep, MatchOver
  <2> QED BY <2>1, TakerFields, OrderFields, OrderBookAssumption DEF MatchStep
<1> PICK m \in book.levels[s], now \in Times : MatchMaker(m, now)
  BY DEF MatchStep
<1> DEFINE q == MatchQty(taker, m)
           left == Reduced(m, q, now)
<1> HIDE DEF s
<1>2. /\ m \in Order /\ m.side = s /\ m.id \in DOMAIN book.orderMap
      /\ book.orderMap[m.id] = m /\ m.id \in OrderIds
  BY <1>1, OrderFields DEF IInv, BookType, BookAgrees
<1>3. m.rem \in 1..MaxQty /\ m.qty \in 1..MaxQty
  BY <1>2, OrderFields, OrderBookAssumption DEF IInv, QuantityConserved
<1>4. m.id # taker.id
  BY <1>2 DEF IInv, Accepted, MatchStep
<1>5. /\ q \in 1..m.rem /\ q \in 1..taker.rem /\ q \in 1..MaxQty /\ q \in Nat
      /\ q = m.rem \/ q = taker.rem
  BY <1>1, <1>3, OrderBookAssumption DEF MatchQty
<1> HIDE DEF q
<1>6. /\ book' = FillMaker(book, m, q, now)
      /\ taker' = Reduced(taker, q, now)
      /\ trades' = Append(trades, NewTrade(seq, m, taker, q))
      /\ filled' = [i \in OrderIds |-> filled[i] + (IF i = m.id THEN q ELSE 0)
                                                 + (IF i = taker.id THEN q ELSE 0)]
      /\ clock' = now
      /\ seq' = seq /\ seen' = seen /\ start' = start
  BY DEF MatchMaker, q, FillTaker
<1>7. /\ left \in Order /\ left.id = m.id /\ left.side = s
      /\ left.price = m.price /\ left.qty = m.qty /\ left.rem = m.rem - q
  BY <1>2, <1>5, ReducedOrder
<1>8. /\ taker' \in Order /\ taker'.id = taker.id /\ taker'.side = taker.side
      /\ taker'.qty = taker.qty /\ taker'.rem = taker.rem - q
      /\ ~Idle'
  BY <1>1, <1>5, <1>6, ReducedOrder, NoTakerIsNoOrder DEF Idle
<1>9. BookType(book') /\ BookAgrees(book')
  BY <1>1, <1>5, <1>6, FillMakerAgrees DEF IInv
<1>10. /\ m.rem = q =>
            /\ book'.levels = [book.levels EXCEPT ![s] = book.levels[s] \ {m}]
            /\ book'.orderMap = OrderMapDelete(book.orderMap, m.id)
       /\ m.rem # q =>
            /\ book'.levels = [book.levels EXCEPT ![s] = (book.levels[s] \ {m}) \cup {left}]
            /\ book'.orderMap = OrderMapPut(book.orderMap, left)
  <2>1. m.rem = q => FillMaker(book, m, q, now) =
             [levels |-> [book.levels EXCEPT ![s] = book.levels[s] \ {m}],
              orderMap |-> OrderMapDelete(book.orderMap, m.id)]
    BY <1>1, <1>5, FillMakerEffect DEF IInv
  <2>2. m.rem # q => FillMaker(book, m, q, now) =
             [levels |-> [book.levels EXCEPT ![s] = (book.levels[s] \ {m}) \cup {left}],
              orderMap |-> OrderMapPut(book.orderMap, left)]
    BY <1>1, <1>5, FillMakerEffect DEF IInv
  <2> HIDE DEF left
  <2>3. CASE m.rem = q
    BY <2>1, <2>3, <1>6
  <2>4. CASE m.rem # q
    <3>1. book' = [levels |-> [book.levels EXCEPT
                                 ![s] = (book.levels[s] \ {m}) \cup {left}],
                   orderMap |-> OrderMapPut(book.orderMap, left)]
      BY <2>2, <2>4, <1>6, Zenon
    <3> QED BY <3>1, <2>4
  <2> QED BY <2>3, <2>4
<1> HIDE DEF left
<1>11. /\ DOMAIN book'.orderMap \subseteq DOMAIN book.orderMap
       /\ m.rem = q => m.id \notin DOMAIN book'.orderMap
       /\ m.id \in DOMAIN book'.orderMap => book'.orderMap[m.id] = left
       /\ \A i \in DOMAIN book'.orderMap : i # m.id => book'.orderMap[i] = book.orderMap[i]
  <2>1. CASE m.rem = q
    BY <2>1, <1>10 DEF OrderMapDelete
  <2>2. CASE m.rem # q
    BY <2>2, <1>2, <1>7, <1>10 DEF OrderMapPut
  <2> QED BY <2>1, <2>2
<1>12. TypeOK'
  <2>1. NewTrade(seq, m, taker, q) \in Trade
    BY <1>1, <1>2, <1>5 DEF IInv, TypeOK, NewTrade, Trade, Order
  <2>2. trades' \in Seq(Trade)
    BY <2>1, <1>6 DEF IInv, TypeOK
  <2>3. filled' \in [OrderIds -> Nat]
    BY <1>5, <1>6 DEF IInv, TypeOK
  <2> QED BY <2>2, <2>3, <1>6, <1>8, <1>9 DEF IInv, TypeOK, BookType
<1>13. BookUncrossed'
  <2>1. \A t \in Side : \A x \in book'.levels[t] :
           \E y \in book.levels[t] : y.price = x.price
    BY <1>1, <1>7, <1>10 DEF IInv, BookType
  <2> QED BY <2>1 DEF IInv, BookUncrossed, Uncrossed, Side
<1>14. QuantityConserved'
  <2>1. ASSUME NEW i \in DOMAIN book'.orderMap
        PROVE  /\ book'.orderMap[i].rem > 0
               /\ book'.orderMap[i].rem + filled'[i] = book'.orderMap[i].qty
    <3>1. /\ i \in DOMAIN book.orderMap /\ i \in OrderIds /\ i # taker.id
          /\ book.orderMap[i].rem > 0 /\ filled[i] \in Nat
          /\ book.orderMap[i].rem + filled[i] = book.orderMap[i].qty
      BY <1>11 DEF IInv, QuantityConserved, Accepted, BookType, TypeOK, MatchStep
    <3>2. CASE i = m.id
      <4>1. filled'[i] = filled[i] + q
        BY <3>1, <3>2, <1>5, <1>6
      <4>2. book'.orderMap[i] = left /\ m.rem # q
        BY <3>2, <1>11
      <4>3. m.rem + filled[i] = m.qty
        BY <3>1, <3>2, <1>2
      <4> QED BY <4>1, <4>2, <4>3, <3>1, <1>3, <1>5, <1>7
    <3>3. CASE i # m.id
      <4>1. filled'[i] = filled[i]
        BY <3>1, <3>3, <1>6
      <4> QED BY <4>1, <3>1, <3>3, <1>11
    <3> QED BY <3>2, <3>3
  <2>2. taker'.rem + filled'[taker'.id] = taker'.qty
    <3>1. filled'[taker.id] = filled[taker.id] + q /\ filled[taker.id] \in Nat
      BY <1>1, <1>4, <1>5, <1>6 DEF IInv, TypeOK
    <3>2. taker.rem + filled[taker.id] = taker.qty
      BY DEF IInv, QuantityConserved, MatchStep
    <3> QED BY <3>1, <3>2, <1>1, <1>5, <1>8
  <2>3. ASSUME NEW i \in OrderIds
        PROVE  filled'[i] <= MaxQty
    <3>1. filled[i] \in Nat /\ filled[i] <= MaxQty /\ MaxQty \in Nat
      BY OrderBookAssumption DEF IInv, TypeOK, QuantityConserved
    <3>2. CASE i = m.id
      <4>1. m.rem + filled[i] = m.qty
        BY <3>2, <1>2 DEF IInv, QuantityConserved
      <4>2. filled'[i] = filled[i] + q
        BY <3>1, <3>2, <1>4, <1>5, <1>6
      <4> QED BY <4>1, <4>2, <3>1, <1>3, <1>5
    <3>3. CASE i = taker.id
      <4>1. taker.rem + filled[i] = taker.qty
        BY <3>3 DEF IInv, QuantityConserved, MatchStep
      <4>2. filled'[i] = filled[i] + q
        BY <3>1, <3>3, <1>4, <1>5, <1>6
      <4> QED BY <4>1, <4>2, <3>1, <1>1, <1>5
    <3>4. CASE i # m.id /\ i # taker.id
      BY <3>1, <3>4, <1>6
    <3> QED BY <3>2, <3>3, <3>4
  <2> QED BY <2>1, <2>2, <2>3 DEF QuantityConserved
<1>15. Accepted'
  <2>1. \A i \in OrderIds \ seen' : filled'[i] = 0
    BY <1>1, <1>2, <1>6 DEF IInv, Accepted, MatchStep
  <2> QED BY <2>1, <1>6, <1>8, <1>11 DEF IInv, Accepted, MatchStep
<1>16. /\ Len(trades') = Len(trades) + 1 /\ Len(trades) \in Nat
       /\ trades'[Len(trades')].maker = m.id
       /\ \A k \in 1..Len(trades) : trades'[k] = trades[k]
  BY <1>6 DEF IInv, TypeOK, NewTrade
<1>17. \A k \in 1..Len(trades) : trades[k].maker \notin DOMAIN book.orderMap
  BY <1>1 DEF IInv, MakersAreGone, MatchStep
<1>18. MakersAreGone'
  <2> SUFFICES ASSUME NEW k \in 1..Len(trades'), taker'.rem > 0
               PROVE  trades'[k].maker \notin DOMAIN book'.orderMap
    BY DEF MakersAreGone
  <2>1. CASE k \in 1..Len(trades)
    BY <2>1, <1>11, <1>16, <1>17
  <2>2. CASE k = Len(trades')
    <3>1. m.rem = q
      BY <1>1, <1>5, <1>8
    <3> QED BY <3>1, <2>2, <1>11, <1>16
  <2> QED BY <2>1, <2>2, <1>16
<1>19. MakerOncePerCommand'
  <2> SUFFICES ASSUME NEW i \in 1..Len(trades'), NEW j \in 1..Len(trades'),
                      trades'[i].maker = trades'[j].maker
               PROVE  i = j
    BY DEF MakerOncePerCommand
  <2>1. \A k \in 1..Len(trades) : trades'[k].maker # m.id
    BY <1>2, <1>16, <1>17
  <2>2. CASE i \in 1..Len(trades) /\ j \in 1..Len(trades)
    BY <2>2, <1>16 DEF IInv, MakerOncePerCommand
  <2>3. CASE i = Len(trades') \/ j = Len(trades')
    BY <2>1, <2>3, <1>16
  <2> QED BY <2>2, <2>3, <1>16
<1> QED BY <1>9, <1>12, <1>13, <1>14, <1>15, <1>18, <1>19 DEF IInv

(* Every order of a list is at least as far from the other side as its     *)
(* front order.                                                            *)
LEMMA FrontIsBest ==
    ASSUME NEW side \in Side, NEW list \in SUBSET Order,
           NEW m \in list, IsFront(side, list, m), NEW x \in list
    PROVE  /\ side = "Sell" => m.price <= x.price
           /\ side = "Buy" => x.price <= m.price
<1>1. m.price \in Nat /\ x.price \in Nat
  BY OrderFields
<1>2. CASE x = m
  BY <1>1, <1>2
<1>3. CASE x # m
  <2>1. Before(side, m, x)
    BY <1>3 DEF IsFront
  <2> QED BY <2>1, <1>1 DEF Before, CompareAsk, CompareBid
<1> QED BY <1>2, <1>3

(* A limit order that still has quantity when the loop is over does not    *)
(* reach any order of the opposite list.                                   *)
LEMMA RestingTakerUncrossed ==
    ASSUME IInv, ~Idle, MatchOver(book, taker), taker.rem > 0, taker.type = "Limit"
    PROVE  \A x \in book.levels[Opposite(taker.side)] :
             IF taker.side = "Buy" THEN taker.price < x.price ELSE x.price < taker.price
<1> DEFINE s == Opposite(taker.side)
<1> SUFFICES ASSUME NEW x \in book.levels[s]
             PROVE  IF taker.side = "Buy" THEN taker.price < x.price
                                          ELSE x.price < taker.price
  OBVIOUS
<1>1. /\ taker \in Order /\ taker.side \in Side /\ s \in Side
      /\ taker.price \in Nat /\ taker.rem \in 0..MaxQty
  BY TakerFields, OrderFields
<1>2. book.levels[s] \in SUBSET Order
  BY <1>1 DEF IInv, TypeOK
<1>3. PICK m \in book.levels[s] : IsFront(s, book.levels[s], m) /\ StopMatch(taker, m.price)
  BY <1>1 DEF MatchOver
<1>4. /\ s = "Sell" => m.price <= x.price
      /\ s = "Buy" => x.price <= m.price
  BY <1>1, <1>2, <1>3, FrontIsBest
<1>5. m.price \in Nat /\ x.price \in Nat
  BY <1>2, OrderFields
<1>6. CASE taker.side = "Buy"
  <2>1. s = "Sell" /\ m.price > taker.price
    BY <1>3, <1>6 DEF StopMatch, Opposite
  <2> QED BY <2>1, <1>1, <1>4, <1>5, <1>6
<1>7. CASE taker.side # "Buy"
  <2>1. s = "Buy" /\ m.price < taker.price
    BY <1>3, <1>7 DEF StopMatch, Opposite
  <2> QED BY <2>1, <1>1, <1>4, <1>5, <1>7
<1> QED BY <1>6, <1>7

(* Resting or dropping what is left of the taker keeps the invariant.      *)
LEMMA MatchDoneInv ==
    ASSUME IInv, MatchDone
    PROVE  IInv'
<1> USE DEF MatchDone
<1>1. taker \in Order /\ taker.id \in OrderIds /\ taker.side \in Side
      /\ taker.id \notin DOMAIN book.orderMap /\ taker.id \in seen
  BY TakerFields DEF IInv, Accepted
<1>2. (MakersAreGone /\ MakerOncePerCommand)'
  BY DEF IInv, MakersAreGone, MakerOncePerCommand, Idle
<1>3. CASE taker.type = "Limit" /\ taker.rem > 0
  <2>1. book' = InsertOrder(book, taker)
    BY <1>3 DEF RestTaker
  <2>2. BookType(book') /\ BookAgrees(book')
    BY <1>1, <2>1, InsertOrderAgrees DEF IInv
  <2>3. /\ book'.levels = [book.levels EXCEPT ![taker.side] = book.levels[taker.side] \cup {taker}]
        /\ book'.orderMap = OrderMapPut(book.orderMap, taker)
    <3>1. BookType(book) /\ BookAgrees(book)
      BY DEF IInv
    <3>2. InsertOrder(book, taker) =
            [levels |-> [book.levels EXCEPT ![taker.side] = book.levels[taker.side] \cup {taker}],
             orderMap |-> OrderMapPut(book.orderMap, taker)]
      BY <1>1, <3>1, InsertOrderEffect
    <3> QED BY <2>1, <3>2
  <2>4. /\ DOMAIN book'.orderMap = DOMAIN book.orderMap \cup {taker.id}
        /\ book'.orderMap[taker.id] = taker
        /\ \A i \in DOMAIN book.orderMap : book'.orderMap[i] = book.orderMap[i]
    BY <1>1, <2>3 DEF OrderMapPut
  <2>5. TypeOK'
    BY <2>2 DEF IInv, TypeOK, BookType
  <2>6. BookUncrossed'
    <3>1. \A x \in book.levels[Opposite(taker.side)] :
             IF taker.side = "Buy" THEN taker.price < x.price ELSE x.price < taker.price
      BY <1>3, RestingTakerUncrossed
    <3>2. CASE taker.side = "Buy"
      <4>1. /\ book'.levels["Buy"] = book.levels["Buy"] \cup {taker}
            /\ book'.levels["Sell"] = book.levels["Sell"]
        BY <3>2, <2>3 DEF IInv, TypeOK, Side
      <4> QED BY <4>1, <3>1, <3>2 DEF IInv, BookUncrossed, Uncrossed, Opposite
    <3>3. CASE taker.side = "Sell"
      <4>1. /\ book'.levels["Sell"] = book.levels["Sell"] \cup {taker}
            /\ book'.levels["Buy"] = book.levels["Buy"]
        BY <3>3, <2>3 DEF IInv, TypeOK, Side
      <4> QED BY <4>1, <3>1, <3>3 DEF IInv, BookUncrossed, Uncrossed, Opposite
    <3> QED BY <3>2, <3>3, <1>1 DEF Side
  <2>7. QuantityConserved'
    BY <1>3, <2>4 DEF IInv, QuantityConserved, Idle
  <2>8. Accepted'
    BY <1>1, <2>4 DEF IInv, Accepted, Idle
  <2> QED BY <1>2, <2>2, <2>5, <2>6, <2>7, <2>8 DEF IInv
<1>4. CASE ~(taker.type = "Limit" /\ taker.rem > 0)
  <2>1. book' = book
    BY <1>4 DEF RestTaker
  <2> QED BY <1>2, <2>1 DEF IInv, TypeOK, BookUncrossed, QuantityConserved, Accepted, Idle
<1> QED BY <1>3, <1>4

-----------------------------------------------------------------------------
(* IInv is inductive.                                                      *)
THEOREM Inductive == Spec => []IInv
<1>1. Init => IInv
  BY InitInv
<1>2. IInv /\ [Next]_vars => IInv'
  <2> SUFFICES ASSUME IInv, [Next]_vars PROVE IInv'
    OBVIOUS
  <2>1. ASSUME NEW o \in NewOrders, StartNewOrder(o) PROVE IInv'
    BY <2>1, StartNewOrderInv
  <2>2. CASE MatchStep
    BY <2>2, MatchStepInv
  <2>3. CASE MatchDone
    BY <2>3, MatchDoneInv
  <2>4. ASSUME NEW id \in OrderIds, Cancel(id) PROVE IInv'
    BY <2>4, CancelInv
  <2>5. CASE UNCHANGED vars
    BY <2>5 DEF vars, IInv, TypeOK, BookUncrossed, QuantityConserved, Accepted,
                MakersAreGone, MakerOncePerCommand, Idle
  <2> QED BY <2>1, <2>2, <2>3, <2>4, <2>5 DEF Next
<1> QED BY <1>1, <1>2, PTL DEF Spec

(* The agreement of the two views, in the form the runs check.             *)
LEMMA AgreementFromIInv == IInv => MapAgreesWithLevels
<1> SUFFICES ASSUME IInv, NEW s \in Side
             PROVE  book.levels[s] = {book.orderMap[i] : i \in {j \in DOMAIN book.orderMap :
                                                             book.orderMap[j].side = s}}
  BY DEF MapAgreesWithLevels
<1>1. \A x \in book.levels[s] :
        x.side = s /\ x.id \in DOMAIN book.orderMap /\ book.orderMap[x.id] = x
  BY DEF IInv, BookAgrees
<1>2. \A i \in DOMAIN book.orderMap :
        book.orderMap[i].side = s => book.orderMap[i] \in book.levels[s]
  BY DEF IInv, BookAgrees
<1> QED BY <1>1, <1>2

(* Type correctness of Matcher.                                            *)
THEOREM TypeCorrect == Spec => []TypeOK
<1>1. IInv => TypeOK
  BY DEF IInv
<1> QED BY <1>1, Inductive, PTL

(* No bid of the book ever reaches an ask: Validate cannot fail on a book  *)
(* the matcher produced.                                                   *)
THEOREM NeverCrossed == Spec => []BookUncrossed
<1>1. IInv => BookUncrossed
  BY DEF IInv
<1> QED BY <1>1, Inductive, PTL

(* The skip lists and orderMap always describe the same orders.            *)
THEOREM ViewsAgree == Spec => []MapAgreesWithLevels
<1> QED BY AgreementFromIInv, Inductive, PTL

(* Matching neither creates nor loses quantity.                            *)
THEOREM Conservation == Spec => []QuantityConserved
<1>1. IInv => QuantityConserved
  BY DEF IInv
<1> QED BY <1>1, Inductive, PTL

(* One command never trades twice with the same maker, so the trade ids of *)
(* a command are distinct.                                                 *)
THEOREM TradesDistinct == Spec => []MakerOncePerCommand
<1>1. IInv => MakerOncePerCommand
  BY DEF IInv
<1> QED BY <1>1, Inductive, PTL

(* What GoneForGood says of a single step.                                 *)
GoneStep ==
    \A i \in seen : (~HasActiveOrder(book, i) /\ taker.id # i) =>
        (i \notin DOMAIN book'.orderMap /\ filled'[i] = filled[i])

(* In a book whose two views agree, every id of the map is active.         *)
LEMMA MappedIsActive ==
    ASSUME IInv, NEW i \in DOMAIN book.orderMap
    PROVE  HasActiveOrder(book, i)
<1>1. /\ book.orderMap[i] \in book.levels[book.orderMap[i].side]
  BY DEF IInv, BookAgrees
<1> QED BY <1>1 DEF HasActiveOrder, SkipListContains, SameKey

(* One iteration of matchAgainstBook touches only the maker, which rests,  *)
(* and the taker.                                                          *)
LEMMA MatchStepGone ==
    ASSUME IInv, MatchStep
    PROVE  GoneStep
<1> DEFINE s == Opposite(taker.side)
<1>1. /\ taker \in Order /\ s \in Side /\ taker.rem \in 1..MaxQty
  <2>1. taker.rem # 0
    BY DEF MatchStep, MatchOver
  <2> QED BY <2>1, TakerFields, OrderFields, OrderBookAssumption DEF MatchStep
<1> PICK m \in book.levels[s], now \in Times : MatchMaker(m, now)
  BY DEF MatchStep
<1> DEFINE q == MatchQty(taker, m)
<1> HIDE DEF s
<1>2. /\ m \in Order /\ m.id \in DOMAIN book.orderMap /\ book.orderMap[m.id] = m
  BY <1>1, OrderFields DEF IInv, BookType, BookAgrees
<1>3. m.rem \in 1..MaxQty
  BY <1>2, OrderFields, OrderBookAssumption DEF IInv, QuantityConserved
<1>4. q \in 1..m.rem
  BY <1>1, <1>3, OrderBookAssumption DEF MatchQty
<1>5. /\ book' = FillMaker(book, m, q, now)
      /\ filled' = [i \in OrderIds |-> filled[i] + (IF i = m.id THEN q ELSE 0)
                                                 + (IF i = taker.id THEN q ELSE 0)]
  BY DEF MatchMaker
<1> HIDE DEF q
<1>6. DOMAIN book'.orderMap \subseteq DOMAIN book.orderMap
  <2>1. Reduced(m, q, now).id = m.id
    BY <1>2, <1>4, ReducedOrder
  <2>2. \/ book'.orderMap = OrderMapDelete(book.orderMap, m.id)
        \/ book'.orderMap = OrderMapPut(book.orderMap, Reduced(m, q, now))
    BY <1>1, <1>4, <1>5, FillMakerEffect DEF IInv
  <2> QED BY <2>1, <2>2, <1>2 DEF OrderMapDelete, OrderMapPut
<1> SUFFICES ASSUME NEW i \in seen, ~HasActiveOrder(book, i), taker.id # i
             PROVE  i \notin DOMAIN book'.orderMap /\ filled'[i] = filled[i]
  BY DEF GoneStep
<1>7. i \notin DOMAIN book.orderMap
  BY MappedIsActive
<1>8. i \in OrderIds /\ filled[i] \in Nat
  BY DEF IInv, TypeOK
<1>9. filled'[i] = filled[i]
  BY <1>2, <1>5, <1>7, <1>8
<1> QED BY <1>6, <1>7, <1>9

(* An accepted order that has left the book and is not being matched never *)
(* comes back and never trades again.                                      *)
THEOREM FinalIsFinal == Spec => GoneForGood
<1>1. IInv /\ [Next]_vars => [GoneStep]_vars
  <2> SUFFICES ASSUME IInv, [Next]_vars PROVE [GoneStep]_vars
    OBVIOUS
  <2>1. \A i \in seen : ~HasActiveOrder(book, i) => i \notin DOMAIN book.orderMap
    BY MappedIsActive
  <2>2. ASSUME NEW o \in NewOrders, StartNewOrder(o) PROVE GoneStep
    BY <2>1, <2>2 DEF StartNewOrder, GoneStep
  <2>3. CASE MatchStep
    BY <2>3, MatchStepGone
  <2>4. CASE MatchDone
    <3>1. taker \in Order /\ taker.id \notin DOMAIN book.orderMap
      BY <2>4, TakerFields DEF MatchDone, IInv, Accepted
    <3>2. book' = book \/ book'.orderMap = OrderMapPut(book.orderMap, taker)
      BY <2>4, <3>1, InsertOrderEffect DEF MatchDone, RestTaker, IInv
    <3> QED BY <2>1, <2>4, <3>2 DEF MatchDone, OrderMapPut, GoneStep
  <2>5. ASSUME NEW id \in OrderIds, Cancel(id) PROVE GoneStep
    <3>1. DOMAIN book'.orderMap \subseteq DOMAIN book.orderMap
      BY <2>5, RemoveOrderAgrees DEF Cancel, IInv
    <3> QED BY <2>1, <2>5, <3>1 DEF Cancel, GoneStep
  <2> QED BY <2>2, <2>3, <2>4, <2>5 DEF Next
<1> QED BY <1>1, Inductive, PTL DEF Spec, GoneForGood, GoneStep

-----------------------------------------------------------------------------
(* Price-time priority.                                                    *)

(* The orders that rested on the other side when the command began.        *)
Makers == start.levels[Opposite(taker.side)]

(* What the loop has done so far: a maker has traded only if all those     *)
(* ahead of it have traded all they had; what was traded is what the taker *)
(* got; and as long as the taker has something left, the list holds those  *)
(* that have not traded, as they were.                                     *)
ByPriority ==
    /\ \A s \in Side : IsFiniteSet(book.levels[s])
    /\ ~Idle =>
         /\ IsFiniteSet(Makers)
         /\ \A x \in Makers : x \in Order /\ x.side = Opposite(taker.side) /\ x.rem \in 1..MaxQty
         /\ \A x, y \in Makers : x.id = y.id => x = y
         /\ \A x \in Makers : Traded(x) \in 0..x.rem /\ (~Eligible(x) => Traded(x) = 0)
         /\ \A x, y \in Makers : (Before(x.side, x, y) /\ Traded(y) > 0) => Traded(x) = x.rem
         /\ SumFunction([x \in Makers |-> Traded(x)]) = taker.qty - taker.rem
         /\ taker.rem > 0 =>
              /\ book.levels[Opposite(taker.side)] = {x \in Makers : Traded(x) = 0}
              /\ \A x \in Makers : Traded(x) \in {0, x.rem}

(* Traded, for any list of trades.                                         *)
TradedIn(tr, x) == SumFunction([i \in {k \in 1..Len(tr) : tr[k].maker = x.id} |-> tr[i].qty])

(* One more trade: its maker has traded its quantity if it had not traded  *)
(* before, and the others what they had.                                   *)
LEMMA TradedAppend ==
    ASSUME NEW tr \in Seq(Trade), NEW t \in Trade, NEW x
    PROVE  /\ (\A k \in 1..Len(tr) : tr[k].maker # x.id) => TradedIn(tr, x) = 0
           /\ t.maker # x.id => TradedIn(Append(tr, t), x) = TradedIn(tr, x)
           /\ (t.maker = x.id /\ \A k \in 1..Len(tr) : tr[k].maker # x.id) =>
                 TradedIn(Append(tr, t), x) = t.qty
<1>1. PICK n \in Nat : n = Len(tr)
  OBVIOUS
<1>2. PICK u : u = Append(tr, t)
  OBVIOUS
<1>3. Len(u) = n + 1 /\ u[n + 1] = t /\ \A k \in 1..n : u[k] = tr[k]
  BY <1>1, <1>2
<1>4. PICK K : K = {k \in 1..n : tr[k].maker = x.id}
  OBVIOUS
<1>5. PICK L : L = {k \in 1..(n + 1) : u[k].maker = x.id}
  OBVIOUS
<1>6. IsFiniteSet(K) /\ IsFiniteSet(L)
  <2>1. IsFiniteSet(1..n) /\ IsFiniteSet(1..(n + 1))
    BY <1>1, FS_Interval
  <2>2. QED
    BY <1>4, <1>5, <2>1, FS_Subset
<1>7. PICK f : f = [i \in K |-> tr[i].qty]
  OBVIOUS
<1>8. PICK e : e = [i \in L |-> u[i].qty]
  OBVIOUS
<1>9. TradedIn(tr, x) = SumFunctionOnSet(f, K)
  BY <1>1, <1>4, <1>7 DEF TradedIn, SumFunction
<1>10. TradedIn(u, x) = SumFunctionOnSet(e, L)
  BY <1>3, <1>5, <1>8 DEF TradedIn, SumFunction
<1>11. ASSUME \A k \in 1..Len(tr) : tr[k].maker # x.id PROVE K = {} /\ TradedIn(tr, x) = 0
  <2>1. K = {}
    BY <1>1, <1>4, <1>11
  <2>2. QED
    BY <1>6, <1>9, <2>1, SumSteps
<1>12. ASSUME t.maker # x.id PROVE TradedIn(u, x) = TradedIn(tr, x)
  <2>1. \A k \in 1..(n + 1) : k \in 1..n \/ k = n + 1
    BY <1>1
  <2>2. L = K
    BY <1>1, <1>3, <1>4, <1>5, <1>12, <2>1
  <2>3. \A k \in K : e[k] = f[k]
    BY <1>3, <1>4, <1>7, <1>8, <2>2
  <2>4. QED
    BY <1>6, <1>9, <1>10, <2>2, <2>3, SumSame
<1>13. ASSUME t.maker = x.id, \A k \in 1..Len(tr) : tr[k].maker # x.id PROVE TradedIn(u, x) = t.qty
  <2>1. \A k \in 1..(n + 1) : k \in 1..n \/ k = n + 1
    BY <1>1
  <2>2. L = {n + 1} /\ L \ {n + 1} = {}
    BY <1>1, <1>3, <1>5, <1>13, <2>1
  <2>3. e[n + 1] = t.qty /\ t.qty \in Int
    BY <1>3, <1>8, <2>2, OrderBookAssumption DEF Trade
  <2>4. SumFunctionOnSet(e, L) = e[n + 1] + SumFunctionOnSet(e, L \ {n + 1})
    BY <1>6, <2>2, <2>3, SumTakes
  <2>5. SumFunctionOnSet(e, L \ {n + 1}) = 0
    BY <1>6, <2>2, SumSteps
  <2>6. QED
    BY <1>10, <2>3, <2>4, <2>5
<1>14. QED
  BY <1>2, <1>11, <1>12, <1>13

(* The comparator orders the orders of a list.                             *)
LEMMA BeforeOrders ==
    ASSUME NEW side \in Side, NEW x \in Order, NEW y \in Order
    PROVE  /\ ~(Before(side, x, y) /\ Before(side, y, x))
           /\ x.id # y.id => Before(side, x, y) \/ Before(side, y, x)
<1>1. x.price \in Nat /\ y.price \in Nat /\ x.id \in Nat /\ y.id \in Nat
  BY OrderFields
<1>2. x.updateTime \in Nat /\ y.updateTime \in Nat
  BY OrderFields, OrderBookAssumption
<1>3. QED
  BY <1>1, <1>2 DEF Before, CompareBid, CompareAsk, EarlierAtPrice

(* An order ahead of one the taker may trade with may be traded with too.  *)
LEMMA AheadIsEligible ==
    ASSUME ~Idle, IInv, NEW x \in Order, NEW y \in Order,
           x.side = Opposite(taker.side), Before(x.side, x, y), Eligible(y)
    PROVE  Eligible(x)
<1>1. x.price \in Nat /\ y.price \in Nat /\ taker.price \in Nat /\ taker.side \in Side
  BY OrderFields, TakerFields
<1>2. CASE taker.side = "Buy"
  BY <1>1, <1>2 DEF Before, CompareAsk, Eligible, StopMatch, Opposite
<1>3. CASE taker.side = "Sell"
  BY <1>1, <1>3 DEF Before, CompareBid, Eligible, StopMatch, Opposite
<1>4. QED
  BY <1>1, <1>2, <1>3 DEF Side

(* A command begins: nothing was traded, and the list is as it was.        *)
LEMMA StartByPriority ==
    ASSUME IInv, ByPriority, NEW o \in NewOrders, StartNewOrder(o)
    PROVE  ByPriority'
<1>1. /\ o \in Order /\ o.rem = o.qty /\ o.side \in Side /\ Opposite(o.side) \in Side
      /\ taker' = o /\ trades' = <<>> /\ start' = book /\ book' = book
  BY NewOrderFields, OrderFields DEF StartNewOrder, Opposite, Side
<1>2. PICK s \in Side : s = Opposite(o.side)
  BY <1>1
<1>3. PICK M : M = book.levels[s]
  OBVIOUS
<1>4. Makers' = M /\ Opposite(taker.side)' = s /\ book'.levels[s] = M
  BY <1>1, <1>2, <1>3 DEF Makers
<1>5. ASSUME NEW x PROVE Traded(x)' = 0
  <2>1. {k \in 1..Len(<<>>) : <<>>[k].maker = x.id} = {}
    OBVIOUS
  <2>2. Traded(x)' = SumFunctionOnSet([i \in {} |-> trades'[i].qty], {})
    BY <1>1, <2>1 DEF Traded, SumFunction
  <2>3. IsFiniteSet({})
    BY FS_EmptySet
  <2>4. QED
    BY <2>2, <2>3, SumSteps
<1>6. IsFiniteSet(M) /\ M \in SUBSET Order
  BY <1>2, <1>3 DEF ByPriority, IInv, TypeOK
<1>7. ASSUME NEW x \in M PROVE /\ x \in Order /\ x.side = s /\ x.rem \in 1..MaxQty
                               /\ x.id \in DOMAIN book.orderMap /\ book.orderMap[x.id] = x
  <2>1. x \in Order /\ x.side = s /\ x.id \in DOMAIN book.orderMap /\ book.orderMap[x.id] = x
    BY <1>2, <1>3, <1>6 DEF IInv, BookAgrees
  <2>2. x.rem > 0 /\ x.rem \in 0..MaxQty
    BY <2>1, OrderFields DEF IInv, QuantityConserved
  <2>3. QED
    BY <2>1, <2>2, OrderBookAssumption
<1>8. \A x, y \in M : x.id = y.id => x = y
  BY <1>7
<1>9. PICK f : f = [x \in M |-> Traded(x)']
  OBVIOUS
<1>10. SumFunctionOnSet(f, M) = 0
  BY <1>5, <1>6, <1>9, SumZero
<1>11. SumFunction([x \in Makers |-> Traded(x)])' = 0
  <2>1. DOMAIN f = M /\ [x \in Makers |-> Traded(x)]' = f
    BY <1>4, <1>9
  <2>2. QED
    BY <1>10, <2>1 DEF SumFunction
<1>12. o.qty \in Nat /\ o.qty - o.qty = 0
  BY <1>1, OrderFields, OrderBookAssumption
<1>13. \A x \in M : Traded(x)' \in 0..x.rem /\ Traded(x)' = 0
  BY <1>5, <1>7, OrderBookAssumption
<1>14. /\ IsFiniteSet(Makers')
       /\ \A x \in Makers' : x \in Order /\ x.side = Opposite(taker.side)' /\ x.rem \in 1..MaxQty
       /\ \A x, y \in Makers' : x.id = y.id => x = y
  BY <1>4, <1>6, <1>7, <1>8
<1>15. SumFunction([x \in Makers |-> Traded(x)])' = taker'.qty - taker'.rem
  BY <1>1, <1>11, <1>12
<1>16. \A t \in Side : IsFiniteSet(book'.levels[t])
  BY <1>1 DEF ByPriority
<1>17. /\ \A x \in Makers' : Traded(x)' \in 0..x.rem /\ Traded(x)' = 0
       /\ \A x, y \in Makers' : ~(Traded(y)' > 0)
       /\ book'.levels[Opposite(taker'.side)] = {x \in Makers' : Traded(x)' = 0}
  BY <1>1, <1>2, <1>4, <1>13
<1>18. QED
  BY <1>14, <1>15, <1>16, <1>17 DEF ByPriority

(* The loop trades with the front order: everything ahead of it has traded *)
(* what it had, and what comes after it has not traded.                    *)
LEMMA MatchStepByPriority ==
    ASSUME IInv, ByPriority, MatchStep
    PROVE  ByPriority'
<1>1. PICK s : s = Opposite(taker.side)
  OBVIOUS
<1>2. /\ taker \in Order /\ s \in Side /\ ~Idle
      /\ taker.rem \in 1..MaxQty /\ taker.qty \in 1..MaxQty
  <2>1. taker.rem # 0 /\ ~Idle
    BY DEF MatchStep, MatchOver
  <2> QED BY <1>1, <2>1, TakerFields, OrderFields, OrderBookAssumption
<1>3. PICK m \in book.levels[s] : /\ IsFront(s, book.levels[s], m)
                                  /\ \E now \in Times : MatchMaker(m, now)
  BY <1>1 DEF MatchStep
<1>4. PICK now \in Times : MatchMaker(m, now)
  BY <1>3
<1>5. PICK q : q = MatchQty(taker, m)
  OBVIOUS
<1>6. ~StopMatch(taker, m.price)
  BY <1>1, <1>3 DEF MatchStep, MatchOver
<1>7. PICK M : M = Makers
  OBVIOUS
<1>8. /\ IsFiniteSet(M)
      /\ \A x \in M : x \in Order /\ x.side = s /\ x.rem \in 1..MaxQty
      /\ \A x, y \in M : x.id = y.id => x = y
      /\ \A x \in M : Traded(x) \in 0..x.rem /\ (~Eligible(x) => Traded(x) = 0)
      /\ \A x, y \in M : (Before(x.side, x, y) /\ Traded(y) > 0) => Traded(x) = x.rem
      /\ SumFunction([x \in M |-> Traded(x)]) = taker.qty - taker.rem
      /\ book.levels[s] = {x \in M : Traded(x) = 0}
      /\ \A x \in M : Traded(x) \in {0, x.rem}
  BY <1>1, <1>2, <1>7 DEF ByPriority
<1>9. /\ m \in M /\ m \in Order /\ m.side = s /\ m.rem \in 1..MaxQty /\ Traded(m) = 0
      /\ m.id \in DOMAIN book.orderMap
  BY <1>2, <1>3, <1>8 DEF IInv, BookAgrees
<1>10. /\ q \in 1..m.rem /\ q \in 1..taker.rem /\ q \in 1..MaxQty /\ q \in Nat
       /\ q = m.rem \/ q = taker.rem
  BY <1>2, <1>5, <1>9, OrderBookAssumption DEF MatchQty
<1>11. /\ book' = FillMaker(book, m, q, now)
       /\ taker' = Reduced(taker, q, now)
       /\ trades' = Append(trades, NewTrade(seq, m, taker, q))
       /\ start' = start
  BY <1>4, <1>5 DEF MatchMaker, FillTaker
<1>12. /\ taker' \in Order /\ taker'.side = taker.side /\ taker'.type = taker.type
       /\ taker'.price = taker.price /\ taker'.qty = taker.qty /\ taker'.rem = taker.rem - q
  BY <1>2, <1>10, <1>11, ReducedOrder
<1>13. Makers' = M /\ Opposite(taker'.side) = s /\ \A x : Eligible(x)' <=> Eligible(x)
  BY <1>1, <1>7, <1>11, <1>12 DEF Makers, Eligible, StopMatch
<1>14. PICK t : t = NewTrade(seq, m, taker, q)
  OBVIOUS
<1>15. t \in Trade /\ t.maker = m.id /\ t.qty = q /\ trades' = Append(trades, t) /\ trades \in Seq(Trade)
  BY <1>2, <1>9, <1>10, <1>11, <1>14 DEF IInv, TypeOK, NewTrade, Trade, Order
<1>16. \A k \in 1..Len(trades) : trades[k].maker # m.id
  BY <1>2, <1>9 DEF IInv, MakersAreGone
<1>17. ASSUME NEW x \in M PROVE Traded(x)' = IF x = m THEN q ELSE Traded(x)
  <2>1. Traded(x) = TradedIn(trades, x) /\ Traded(x)' = TradedIn(trades', x)
    BY DEF Traded, TradedIn
  <2>2. CASE x = m
    BY <1>15, <1>16, <2>1, <2>2, TradedAppend
  <2>3. CASE x # m
    <3>1. t.maker # x.id
      BY <1>8, <1>9, <1>15, <2>3
    <3>2. QED
      BY <1>15, <2>1, <2>3, <3>1, TradedAppend
  <2>4. QED
    BY <2>2, <2>3
<1>18. PICK f : f = [x \in M |-> Traded(x)]
  OBVIOUS
<1>19. PICK e : e = [x \in M |-> Traded(x)']
  OBVIOUS
<1>20. (\A x \in M : f[x] \in Int /\ e[x] \in Int) /\ f[m] = 0 /\ e[m] = q
  <2>1. ASSUME NEW x \in M PROVE f[x] \in Int /\ e[x] \in Int
    <3>1. x.rem \in Int /\ Traded(x) \in 0..x.rem /\ (Traded(x)' = q \/ Traded(x)' = Traded(x))
      BY <1>8, <1>17, OrderBookAssumption
    <3>2. Traded(x) \in Int
      BY <3>1
    <3>3. QED
      BY <1>10, <1>18, <1>19, <3>1, <3>2
  <2>2. f[m] = 0 /\ e[m] = q
    BY <1>9, <1>17, <1>18, <1>19
  <2>3. QED
    BY <2>1, <2>2
<1>21. SumFunctionOnSet(e, M) = q + SumFunctionOnSet(f, M)
  <2>1. SumFunctionOnSet(e, M) = e[m] + SumFunctionOnSet(e, M \ {m})
    BY <1>8, <1>9, <1>20, SumTakes
  <2>2. SumFunctionOnSet(f, M) = f[m] + SumFunctionOnSet(f, M \ {m})
    BY <1>8, <1>9, <1>20, SumTakes
  <2>3. SumFunctionOnSet(e, M \ {m}) = SumFunctionOnSet(f, M \ {m})
    <3>1. IsFiniteSet(M \ {m})
      BY <1>8, FS_Subset
    <3>2. \A x \in M \ {m} : e[x] = f[x]
      BY <1>17, <1>18, <1>19
    <3>3. QED
      BY <3>1, <3>2, SumSame
  <2>4. SumFunctionOnSet(f, M) \in Int
    BY <1>8, <1>20, SumTakes
  <2>5. PICK r : r = SumFunctionOnSet(f, M \ {m})
    OBVIOUS
  <2>6. r \in Int
    <3>1. IsFiniteSet(M \ {m}) /\ \A x \in M \ {m} : f[x] \in Int
      BY <1>8, <1>20, FS_Subset
    <3>2. QED
      BY <2>5, <3>1, SumTakes
  <2>7. QED
    BY <1>10, <1>20, <2>1, <2>2, <2>3, <2>5, <2>6
<1>22. SumFunction([x \in Makers |-> Traded(x)])' = taker'.qty - taker'.rem
  <2>1. SumFunctionOnSet(f, M) = taker.qty - taker.rem
    <3>1. DOMAIN f = M
      BY <1>18
    <3>2. QED
      BY <1>8, <1>18, <3>1 DEF SumFunction
  <2>2. DOMAIN e = M /\ [x \in Makers |-> Traded(x)]' = e
    BY <1>13, <1>19
  <2>3. SumFunction([x \in Makers |-> Traded(x)])' = SumFunctionOnSet(e, M)
    BY <2>2 DEF SumFunction
  <2>4. q + (taker.qty - taker.rem) = taker.qty - (taker.rem - q)
    BY <1>2, <1>10, OrderBookAssumption
  <2>5. QED
    BY <1>12, <1>21, <2>1, <2>3, <2>4
<1>23. ASSUME NEW x \in M
       PROVE  Traded(x)' \in 0..x.rem /\ (~Eligible(x) => Traded(x)' = 0)
  <2>1. CASE x = m
    BY <1>6, <1>9, <1>10, <1>17, <2>1, OrderBookAssumption DEF Eligible
  <2>2. CASE x # m
    BY <1>8, <1>17, <2>2
  <2>3. QED
    BY <2>1, <2>2
<1>24. ASSUME NEW x \in M, NEW y \in M, Before(x.side, x, y), Traded(y)' > 0
       PROVE  Traded(x)' = x.rem
  <2>1. x # y /\ x \in Order /\ y \in Order /\ x.side = s /\ y.side = s
    BY <1>2, <1>8, <1>24, BeforeOrders
  <2>2. CASE y = m
    <3>1. Traded(x) # 0
      <4>1. SUFFICES ASSUME Traded(x) = 0 PROVE FALSE
        OBVIOUS
      <4>2. x \in book.levels[s]
        BY <1>8, <4>1
      <4>3. Before(s, m, x)
        BY <1>3, <2>1, <2>2, <4>2 DEF IsFront
      <4>4. QED
        BY <1>2, <1>24, <2>1, <2>2, <4>3, BeforeOrders
    <3>2. QED
      BY <1>8, <1>17, <2>1, <2>2, <3>1
  <2>3. CASE y # m
    <3>1. Traded(y) > 0
      BY <1>17, <1>24, <2>3
    <3>2. Traded(x) = x.rem
      BY <1>8, <1>24, <3>1
    <3>3. x # m
      BY <1>9, <3>2, OrderBookAssumption
    <3>4. QED
      BY <1>17, <3>2, <3>3
  <2>4. QED
    BY <2>2, <2>3
<1>25. PICK left : left = Reduced(m, q, now)
  OBVIOUS
<1>26. /\ m.rem = q => book'.levels = [book.levels EXCEPT ![s] = book.levels[s] \ {m}]
       /\ m.rem # q => book'.levels = [book.levels EXCEPT ![s] = (book.levels[s] \ {m}) \cup {left}]
  <2>0. BookType(book) /\ BookAgrees(book)
    BY DEF IInv
  <2>1. m.rem = q => FillMaker(book, m, q, now) =
             [levels |-> [book.levels EXCEPT ![s] = book.levels[s] \ {m}],
              orderMap |-> OrderMapDelete(book.orderMap, m.id)]
    BY <1>2, <1>10, <2>0, FillMakerEffect
  <2>2. m.rem # q => FillMaker(book, m, q, now) =
             [levels |-> [book.levels EXCEPT ![s] = (book.levels[s] \ {m}) \cup {left}],
              orderMap |-> OrderMapPut(book.orderMap, left)]
    BY <1>2, <1>10, <1>25, <2>0, FillMakerEffect
  <2>3. CASE m.rem = q
    BY <1>11, <2>1, <2>3
  <2>4. CASE m.rem # q
    <3>1. book' = [levels |-> [book.levels EXCEPT ![s] = (book.levels[s] \ {m}) \cup {left}],
                   orderMap |-> OrderMapPut(book.orderMap, left)]
      BY <1>11, <2>2, <2>4, Zenon
    <3> QED BY <2>4, <3>1
  <2> QED BY <2>3, <2>4
<1>27. book.levels \in [Side -> SUBSET Order] /\ \A r \in Side : IsFiniteSet(book.levels[r])
  BY DEF IInv, TypeOK, ByPriority
<1>28. ASSUME NEW r \in Side PROVE IsFiniteSet(book'.levels[r])
  <2>1. CASE r # s
    <3>1. book'.levels[r] = book.levels[r]
      BY <1>26, <1>27, <2>1
    <3>2. QED
      BY <1>27, <3>1
  <2>2. CASE r = s
    <3>1. book'.levels[r] \subseteq book.levels[s] \cup {left}
      <4>1. CASE m.rem = q
        BY <1>26, <1>27, <2>2, <4>1
      <4>2. CASE m.rem # q
        BY <1>26, <1>27, <2>2, <4>2
      <4>3. QED
        BY <4>1, <4>2
    <3>2. IsFiniteSet(book.levels[s] \cup {left})
      BY <1>2, <1>27, FS_AddElement
    <3>3. QED
      BY <3>1, <3>2, FS_Subset
  <2>3. QED
    BY <2>1, <2>2
<1>29. ASSUME taker'.rem > 0
       PROVE  /\ book'.levels[s] = {x \in M : Traded(x)' = 0}
              /\ \A x \in M : Traded(x)' \in {0, x.rem}
  <2>1. m.rem = q
    BY <1>2, <1>10, <1>12, <1>29
  <2>2. book'.levels[s] = book.levels[s] \ {m}
    BY <1>2, <1>26, <1>27, <2>1
  <2>3. \A x \in M : Traded(x)' = 0 <=> (Traded(x) = 0 /\ x # m)
    BY <1>10, <1>17
  <2>4. book'.levels[s] = {x \in M : Traded(x)' = 0}
    BY <1>8, <2>2, <2>3
  <2>5. \A x \in M : Traded(x)' \in {0, x.rem}
    BY <1>8, <1>17, <2>1
  <2>6. QED
    BY <2>4, <2>5
<1>30. QED
  <2>1. \A x \in Makers' : Eligible(x)' <=> Eligible(x)
    BY <1>13
  <2>2. /\ IsFiniteSet(Makers')
        /\ \A x \in Makers' : x \in Order /\ x.side = Opposite(taker'.side) /\ x.rem \in 1..MaxQty
        /\ \A x, y \in Makers' : x.id = y.id => x = y
        /\ \A x \in Makers' : Traded(x)' \in 0..x.rem /\ (~Eligible(x)' => Traded(x)' = 0)
        /\ \A x, y \in Makers' : (Before(x.side, x, y) /\ Traded(y)' > 0) => Traded(x)' = x.rem
        /\ taker'.rem > 0 =>
              /\ book'.levels[Opposite(taker'.side)] = {x \in Makers' : Traded(x)' = 0}
              /\ \A x \in Makers' : Traded(x)' \in {0, x.rem}
    BY <1>8, <1>13, <1>23, <1>24, <1>29, <2>1
  <2>3. QED
    BY <1>22, <1>28, <2>2 DEF ByPriority

(* Between commands only the book matters, and it stays finite.            *)
LEMMA IdleByPriority ==
    ASSUME IInv, ByPriority, MatchDone \/ \E id \in OrderIds : Cancel(id)
    PROVE  ByPriority'
<1>1. taker' = NoTaker
  BY DEF MatchDone, Cancel, Idle
<1>2. \A r \in Side : IsFiniteSet(book'.levels[r])
  <2>1. CASE MatchDone
    <3>1. taker \in Order /\ taker.id \notin DOMAIN book.orderMap /\ taker.side \in Side
      BY <2>1, TakerFields DEF MatchDone, IInv, Accepted
    <3>2. book' = book \/ book' = InsertOrder(book, taker)
      BY <2>1 DEF MatchDone, RestTaker
    <3>3. ASSUME NEW r \in Side, book' = InsertOrder(book, taker) PROVE IsFiniteSet(book'.levels[r])
      <4>0. BookType(book) /\ BookAgrees(book)
        BY DEF IInv
      <4>1. book'.levels = [book.levels EXCEPT ![taker.side] = book.levels[taker.side] \cup {taker}]
        <5>1. InsertOrder(book, taker) =
               [levels |-> [book.levels EXCEPT ![taker.side] = book.levels[taker.side] \cup {taker}],
                orderMap |-> OrderMapPut(book.orderMap, taker)]
          BY <3>1, <4>0, InsertOrderEffect
        <5>2. QED
          BY <3>3, <5>1
      <4>2. book'.levels[r] \subseteq book.levels[r] \cup {taker}
        BY <3>1, <4>0, <4>1 DEF BookType
      <4>3. IsFiniteSet(book.levels[r] \cup {taker})
        BY FS_AddElement DEF ByPriority
      <4>4. QED
        BY <4>2, <4>3, FS_Subset
    <3>4. QED
      BY <3>2, <3>3 DEF ByPriority
  <2>2. ASSUME NEW id \in OrderIds, Cancel(id) PROVE \A r \in Side : IsFiniteSet(book'.levels[r])
    <3>1. \A r \in Side : book'.levels[r] \subseteq book.levels[r]
      BY <2>2, RemoveOrderAgrees DEF Cancel, IInv
    <3>2. QED
      BY <3>1, FS_Subset DEF ByPriority
  <2>3. QED
    BY <2>1, <2>2
<1>3. QED
  BY <1>1, <1>2 DEF ByPriority, Idle

(* What the loop has done when it is over is what priority asks for.       *)
LEMMA PriorityAtTheEnd ==
    ASSUME IInv, ByPriority
    PROVE  FillsFollowPriority
<1> SUFFICES ASSUME ~Idle, MatchOver(book, taker), NEW m \in Makers
             PROVE  Traded(m) = Owed(m)
  BY DEF FillsFollowPriority, Makers
<1>1. PICK s : s = Opposite(taker.side)
  OBVIOUS
<1>2. PICK M : M = Makers
  OBVIOUS
<1>3. /\ taker \in Order /\ s \in Side /\ taker.rem \in 0..MaxQty /\ taker.qty \in 1..MaxQty
      /\ M = start.levels[s]
  BY <1>1, <1>2, TakerFields, OrderFields DEF Makers
<1>4. /\ IsFiniteSet(M)
      /\ \A x \in M : x \in Order /\ x.side = s /\ x.rem \in 1..MaxQty
      /\ \A x, y \in M : x.id = y.id => x = y
      /\ \A x \in M : Traded(x) \in 0..x.rem /\ (~Eligible(x) => Traded(x) = 0)
      /\ \A x, y \in M : (Before(x.side, x, y) /\ Traded(y) > 0) => Traded(x) = x.rem
      /\ SumFunction([x \in M |-> Traded(x)]) = taker.qty - taker.rem
      /\ taker.rem > 0 => /\ book.levels[s] = {x \in M : Traded(x) = 0}
                          /\ \A x \in M : Traded(x) \in {0, x.rem}
  BY <1>1, <1>2 DEF ByPriority
<1>5. m \in M /\ m \in Order /\ m.side = s /\ m.rem \in Nat /\ m.rem > 0 /\ Traded(m) \in 0..m.rem
  BY <1>2, <1>4, OrderBookAssumption
<1>6. CASE ~Eligible(m)
  BY <1>4, <1>5, <1>6 DEF Owed
<1>7. CASE Eligible(m)
  <2>1. PICK A : A = {x \in M : Before(s, x, m)}
    OBVIOUS
  <2>2. PICK B : B = M \ (A \cup {m})
    OBVIOUS
  <2>3. Ahead(m) = A
    <3>1. \A x \in M : Before(s, x, m) => Eligible(x)
      BY <1>1, <1>4, <1>5, <1>7, AheadIsEligible
    <3>2. QED
      BY <1>3, <1>5, <2>1, <3>1 DEF Ahead
  <2>4. m \notin A /\ \A x \in B : Before(s, m, x)
    <3>1. m \notin A
      BY <1>3, <1>5, <2>1, BeforeOrders
    <3>2. ASSUME NEW x \in B PROVE Before(s, m, x)
      <4>1. x \in M /\ x # m /\ x \in Order /\ x.id # m.id /\ ~Before(s, x, m)
        BY <1>4, <1>5, <2>1, <2>2
      <4>2. QED
        BY <1>3, <1>5, <4>1, BeforeOrders
    <3>3. QED
      BY <3>1, <3>2
  <2>5. PICK f : f = [x \in M |-> Traded(x)]
    OBVIOUS
  <2>6. PICK w : w = [x \in A |-> x.rem]
    OBVIOUS
  <2>7. ASSUME NEW x \in M PROVE f[x] \in Int /\ 0 <= f[x] /\ f[x] <= x.rem /\ x.rem \in Int
    <3>1. x.rem \in Int /\ Traded(x) \in 0..x.rem
      BY <1>4, OrderBookAssumption
    <3>2. QED
      BY <2>5, <3>1
  <2>8. IsFiniteSet(A) /\ IsFiniteSet(B) /\ IsFiniteSet(A \cup B)
    BY <1>4, <2>1, <2>2, FS_Subset
  <2>9. PICK a : a = SumFunctionOnSet(f, A)
    OBVIOUS
  <2>10. PICK b : b = SumFunctionOnSet(f, B)
    OBVIOUS
  <2>11. PICK ahead : ahead = SumFunctionOnSet(w, A)
    OBVIOUS
  <2>12. (\A x \in A : f[x] \in Int /\ w[x] \in Int /\ f[x] <= w[x]) /\ \A x \in B : f[x] \in Int
    BY <2>1, <2>2, <2>6, <2>7
  <2>13. a \in Int /\ b \in Int /\ ahead \in Int /\ a <= ahead
    BY <2>8, <2>9, <2>10, <2>11, <2>12, SumTakes, SumOrder
  <2>14. taker.qty - taker.rem = Traded(m) + (a + b)
    <3>1. M \ {m} = A \cup B /\ A \cap B = {}
      BY <2>1, <2>2, <2>4
    <3>2. SumFunctionOnSet(f, M) = f[m] + SumFunctionOnSet(f, M \ {m})
      BY <1>4, <1>5, <2>7, SumTakes
    <3>3. \A x \in A \cup B : f[x] \in Int
      BY <2>12
    <3>4. SumFunctionOnSet(f, A \cup B) = a + b
      BY <2>8, <2>9, <2>10, <3>1, <3>3, SumSplit
    <3>5. DOMAIN f = M /\ f[m] = Traded(m)
      BY <1>5, <2>5
    <3>6. SumFunction([x \in M |-> Traded(x)]) = SumFunctionOnSet(f, M)
      BY <2>5, <3>5 DEF SumFunction
    <3>7. QED
      BY <1>4, <3>1, <3>2, <3>4, <3>5, <3>6
  <2>15. b >= 0 /\ ((\A x \in B : Traded(x) = 0) => b = 0)
    <3>1. PICK z : z = [x \in B |-> 0]
      OBVIOUS
    <3>2. SumFunctionOnSet(z, B) = 0
      BY <2>8, <3>1, SumZero
    <3>3. \A x \in B : z[x] \in Int /\ f[x] \in Int /\ z[x] <= f[x]
      BY <2>2, <2>7, <3>1
    <3>4. SumFunctionOnSet(z, B) <= SumFunctionOnSet(f, B)
      BY <2>8, <3>3, SumOrder
    <3>5. ASSUME \A x \in B : Traded(x) = 0 PROVE b = 0
      <4>1. \A x \in B : f[x] = 0
        BY <2>2, <2>5, <3>5
      <4>2. QED
        BY <2>8, <2>10, <4>1, SumZero
    <3>6. QED
      BY <2>10, <2>13, <3>2, <3>4, <3>5
  <2>16. (\A x \in A : Traded(x) = x.rem) => a = ahead
    <3>1. ASSUME \A x \in A : Traded(x) = x.rem PROVE a = ahead
      <4>1. \A x \in A : f[x] = w[x]
        BY <2>1, <2>5, <2>6, <3>1
      <4>2. QED
        BY <2>8, <2>9, <2>11, <4>1, SumSame
    <3>2. QED
      BY <3>1
  <2>17. Owed(m) = IF taker.qty - ahead <= 0 THEN 0
                   ELSE IF taker.qty - ahead <= m.rem THEN taker.qty - ahead ELSE m.rem
    <3>1. SumFunction([x \in Ahead(m) |-> x.rem]) = ahead
      <4>1. DOMAIN w = A
        BY <2>6
      <4>2. QED
        BY <2>3, <2>6, <2>11, <4>1 DEF SumFunction
    <3>2. QED
      BY <1>7, <3>1 DEF Owed
  <2>18. taker.qty \in Int /\ taker.rem \in Int /\ taker.rem >= 0
    BY <1>3, OrderBookAssumption
  <2>19. Traded(m) > 0 => a = ahead
    BY <1>4, <1>5, <2>1, <2>16
  <2>20. Traded(m) # m.rem => b = 0
    <3>1. ASSUME Traded(m) # m.rem, NEW x \in B PROVE Traded(x) = 0
      <4>1. ~(Traded(x) > 0)
        BY <1>4, <1>5, <2>2, <2>4, <3>1
      <4>2. Traded(x) \in Int /\ Traded(x) >= 0
        BY <2>2, <2>5, <2>7
      <4>3. QED
        BY <4>1, <4>2
    <3>2. QED
      BY <2>15, <3>1
  <2>21. CASE taker.rem = 0
    <3>1. CASE Traded(m) = 0
      <4>1. taker.qty - ahead <= 0
        BY <1>5, <2>13, <2>14, <2>18, <2>20, <2>21, <3>1
      <4>2. QED
        BY <2>17, <3>1, <4>1
    <3>2. CASE Traded(m) # 0 /\ Traded(m) # m.rem
      <4>1. Traded(m) > 0 /\ Traded(m) <= m.rem /\ taker.qty - ahead = Traded(m)
        BY <1>5, <2>13, <2>14, <2>18, <2>19, <2>20, <2>21, <3>2
      <4>2. QED
        BY <1>5, <2>17, <4>1
    <3>3. CASE Traded(m) = m.rem
      <4>1. taker.qty - ahead >= m.rem /\ taker.qty - ahead \in Int
        BY <1>5, <2>13, <2>14, <2>15, <2>18, <2>19, <2>21, <3>3
      <4>2. QED
        BY <1>5, <2>17, <3>3, <4>1
    <3>4. QED
      BY <3>1, <3>2, <3>3
  <2>22. CASE taker.rem > 0
    <3>1. ASSUME NEW x \in book.levels[s] PROVE ~Eligible(x)
      <4>1. book.levels[s] # {} /\ book.levels[s] \in SUBSET Order
        BY <1>3 DEF IInv, TypeOK
      <4>2. PICK y \in book.levels[s] : IsFront(s, book.levels[s], y) /\ StopMatch(taker, y.price)
        BY <1>1, <2>18, <2>22, <4>1 DEF MatchOver
      <4>3. x = y \/ Before(s, y, x)
        BY <4>2 DEF IsFront
      <4>4. ~Eligible(y)
        BY <4>2 DEF Eligible
      <4>5. y.side = s /\ x \in Order /\ y \in Order
        BY <1>4, <2>22, <4>1
      <4>6. QED
        BY <1>1, <4>3, <4>4, <4>5, AheadIsEligible
    <3>2. Traded(m) # 0 /\ Traded(m) = m.rem
      BY <1>4, <1>5, <1>7, <2>22, <3>1
    <3>3. taker.qty - ahead >= m.rem /\ taker.qty - ahead \in Int
      BY <1>5, <2>13, <2>14, <2>15, <2>18, <2>19, <2>22, <3>2
    <3>4. QED
      BY <1>5, <2>17, <3>2, <3>3
  <2>23. QED
    BY <2>18, <2>21, <2>22
<1>8. QED
  BY <1>6, <1>7

(* The matching loop keeps price-time priority: when it is over, every     *)
(* maker has traded exactly the part of the taker's quantity that the      *)
(* eligible makers ahead of it left, for any book, any quantities and any  *)
(* clock.                                                                  *)
THEOREM PriorityKept == Spec => []FillsFollowPriority
<1>1. Init => ByPriority
  <2>1. ASSUME Init PROVE ByPriority
    <3>1. Idle /\ \A s \in Side : book.levels[s] = {}
      BY <2>1 DEF Init, Idle, NewOrderBook
    <3>2. QED
      BY <3>1, FS_EmptySet DEF ByPriority
  <2>2. QED
    BY <2>1
<1>2. IInv /\ ByPriority /\ [Next]_vars => ByPriority'
  <2> SUFFICES ASSUME IInv, ByPriority, [Next]_vars PROVE ByPriority'
    OBVIOUS
  <2>1. CASE UNCHANGED vars
    <3>1. UNCHANGED <<book, taker, trades, start>>
      BY <2>1 DEF vars
    <3>2. Makers' = Makers /\ (Idle' <=> Idle)
      BY <3>1 DEF Makers, Idle
    <3>3. \A x : Traded(x)' = Traded(x) /\ (Eligible(x)' <=> Eligible(x))
      BY <3>1 DEF Traded, Eligible
    <3>4. SumFunction([x \in Makers |-> Traded(x)])' = SumFunction([x \in Makers |-> Traded(x)])
      <4>1. [x \in Makers |-> Traded(x)]' = [x \in Makers |-> Traded(x)]
        BY <3>2, <3>3
      <4>2. QED
        BY <4>1
    <3>5. QED
      BY <3>1, <3>2, <3>3, <3>4 DEF ByPriority
  <2>2. CASE Next
    BY <2>2, StartByPriority, MatchStepByPriority, IdleByPriority DEF Next
  <2>3. QED
    BY <2>1, <2>2
<1>3. QED
  BY <1>1, <1>2, Inductive, PriorityAtTheEnd, PTL DEF Spec
=============================================================================
