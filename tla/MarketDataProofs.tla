-------------------------- MODULE MarketDataProofs --------------------------
(***************************************************************************)
(* What the market data service keeps and what its listeners put together, *)
(* the push service that stands between them, and the index price.         *)
(*                                                                         *)
(* MarketData: the depth and the ticker a listener holds are what was last *)
(* sent, because every delta is taken against that; the ticker counts the  *)
(* window and nothing else, because trades come in the order of their      *)
(* time; and the mirror is the book once all events are read, because the  *)
(* last event of every order says what is left of it.                      *)
(*                                                                         *)
(* Push: the hub's connection limits hold because Register counts again    *)
(* under the hub's lock; and a client that subscribed and lost nothing to  *)
(* a full queue misses no frame, because the subscription is set before    *)
(* the snapshot is read.                                                   *)
(*                                                                         *)
(* IndexPrice: a majority of the sources holds the index in its range,     *)
(* because the quotes in the middle are the majority's and what the filter *)
(* keeps is close to them.                                                 *)
(***************************************************************************)
EXTENDS MarketData, Push, IndexPrice, InductionFacts, SequenceTheorems, FiniteSetTheorems, TLAPS

-----------------------------------------------------------------------------
(* Depth.                                                                  *)

(* A side of a depth snapshot: quantities by price, none of them zero.     *)
IsLevels(f) == f = [p \in DOMAIN f |-> f[p]] /\ \A p \in DOMAIN f : f[p] # 0

IsDepth(sides) == sides = [s \in Sides |-> sides[s]] /\ \A s \in Sides : IsLevels(sides[s])

DepthInv == (last # None => IsDepth(last.sides)) /\ DepthFollows

LEMMA MergedDelta ==
    ASSUME NEW prev, NEW curr, IsLevels(prev), IsLevels(curr)
    PROVE  ApplyDelta(prev, DiffOneSide(prev, curr)) = curr
<1> DEFINE delta == DiffOneSide(prev, curr)
           gone == DOMAIN prev \ DOMAIN curr
           changed == {p \in DOMAIN curr : p \notin DOMAIN prev \/ prev[p] # curr[p]}
           all == DOMAIN prev \union DOMAIN delta
           value(p) == IF p \in DOMAIN delta THEN delta[p] ELSE prev[p]
<1>1. DOMAIN delta = changed \union gone
  BY DEF DiffOneSide
<1>2. \A p \in DOMAIN delta : delta[p] = IF p \in gone THEN 0 ELSE curr[p]
  BY DEF DiffOneSide
<1> HIDE DEF delta
<1>3. all = DOMAIN prev \union DOMAIN curr
  BY <1>1
<1>4. \A p \in DOMAIN curr : value(p) = curr[p]
  BY <1>1, <1>2
<1>5. \A p \in gone : value(p) = 0
  BY <1>1, <1>2
<1>6. {p \in all : value(p) # 0} = DOMAIN curr
  <2>1. \A p \in all : p \in DOMAIN curr \/ p \in gone
    BY <1>3
  <2>2. \A p \in DOMAIN curr : p \in all /\ curr[p] # 0
    BY <1>3 DEF IsLevels
  <2> HIDE DEF value, all
  <2> QED
    BY <2>1, <2>2, <1>4, <1>5
<1>7. ApplyDelta(prev, delta) = [p \in {q \in all : value(q) # 0} |-> value(p)]
  BY DEF ApplyDelta
<1>8. [p \in DOMAIN curr |-> value(p)] = [p \in DOMAIN curr |-> curr[p]]
  BY <1>4
<1>9. curr = [p \in DOMAIN curr |-> curr[p]]
  BY DEF IsLevels
<1> HIDE DEF value, all, changed, gone
<1> QED
  BY <1>6, <1>7, <1>8, <1>9 DEF delta

LEMMA NothingChanged ==
    ASSUME NEW prev, NEW curr, IsLevels(prev), IsLevels(curr), DOMAIN DiffOneSide(prev, curr) = {}
    PROVE  prev = curr
<1> DEFINE gone == DOMAIN prev \ DOMAIN curr
           changed == {p \in DOMAIN curr : p \notin DOMAIN prev \/ prev[p] # curr[p]}
<1>1. changed \union gone = {}
  BY DEF DiffOneSide
<1>2. DOMAIN prev = DOMAIN curr
  BY <1>1
<1>3. \A p \in DOMAIN curr : prev[p] = curr[p]
  BY <1>1
<1> QED
  BY <1>2, <1>3 DEF IsLevels

LEMMA SnapshotIsDepth ==
    ASSUME NEW asked
    PROVE  IsDepth(SnapshotOrderBook(asked).sides)
<1>1. ASSUME NEW levels, NEW side, NEW limit
      PROVE  IsLevels(SnapshotLevels(levels, side, limit))
  <2> DEFINE prices == {p \in DOMAIN levels : levels[p] > 0}
             better(p) == {q \in prices : IF side = "BUY" THEN q > p ELSE q < p}
             best == {p \in prices : Cardinality(better(p)) < limit}
  <2>1. SnapshotLevels(levels, side, limit) = [p \in best |-> levels[p]]
    BY DEF SnapshotLevels, Restrict
  <2>2. \A p \in best : levels[p] # 0
    BY 0 > 0 <=> FALSE
  <2> HIDE DEF best
  <2> QED
    BY <2>1, <2>2 DEF IsLevels
<1>2. PICK limit : SnapshotOrderBook(asked).sides =
                     [s \in Sides |-> SnapshotLevels(mirror.levels[s], s, limit)]
  BY DEF SnapshotOrderBook
<1>3. \A s \in Sides : SnapshotOrderBook(asked).sides[s] = SnapshotLevels(mirror.levels[s], s, limit)
  BY <1>2
<1> QED
  BY <1>1, <1>2, <1>3 DEF IsDepth

LEMMA DepthOfDeltas ==
    ASSUME NEW prev, NEW snap, IsDepth(prev.sides), IsDepth(snap.sides)
    PROVE  /\ [s \in Sides |-> ApplyDelta(prev.sides[s], DepthDelta(prev, snap)[s])] = snap.sides
           /\ (\A s \in Sides : DOMAIN DepthDelta(prev, snap)[s] = {}) => prev.sides = snap.sides
<1>1. \A s \in Sides : DepthDelta(prev, snap)[s] = DiffOneSide(prev.sides[s], snap.sides[s])
  BY DEF DepthDelta
<1>2. \A s \in Sides : ApplyDelta(prev.sides[s], DepthDelta(prev, snap)[s]) = snap.sides[s]
  BY <1>1, MergedDelta DEF IsDepth
<1>3. [s \in Sides |-> ApplyDelta(prev.sides[s], DepthDelta(prev, snap)[s])]
        = [s \in Sides |-> snap.sides[s]]
  BY <1>2
<1>4. ASSUME \A s \in Sides : DOMAIN DepthDelta(prev, snap)[s] = {}
      PROVE  prev.sides = snap.sides
  <2>1. ASSUME NEW s \in Sides PROVE prev.sides[s] = snap.sides[s]
    <3>1. PICK p, c : p = prev.sides[s] /\ c = snap.sides[s]
      OBVIOUS
    <3>2. IsLevels(p) /\ IsLevels(c)
      BY <3>1 DEF IsDepth
    <3>3. DOMAIN DiffOneSide(p, c) = {}
      BY <1>1, <1>4, <3>1
    <3>4. p = c
      BY <3>2, <3>3, NothingChanged
    <3>5. QED
      BY <3>1, <3>4
  <2>2. [s \in Sides |-> prev.sides[s]] = [s \in Sides |-> snap.sides[s]]
    BY <2>1
  <2> QED
    BY <2>2 DEF IsDepth
<1> QED
  BY <1>3, <1>4 DEF IsDepth

LEMMA DepthPublished ==
    ASSUME DepthInv, PublishDepth
    PROVE  DepthInv'
<1>1. PICK snap : /\ snap = SnapshotOrderBook(DepthLimit)
                  /\ \/ last = None /\ PublishDepthSnapshot(snap)
                     \/ /\ last # None
                        /\ PublishDepthDelta(snap, DepthDelta(last, snap))
  BY Zenon DEF PublishDepth
<1>2. IsDepth(snap.sides)
  BY <1>1, SnapshotIsDepth
<1>3. CASE last = None /\ PublishDepthSnapshot(snap)
  <2>1. CASE last' = snap /\ (ear' = snap.sides \/ (ear' = ear /\ stale' = (ear # None)))
    BY <2>1, <1>2 DEF DepthInv, DepthFollows
  <2>2. CASE UNCHANGED depthSide
    BY <2>2 DEF DepthInv, DepthFollows, depthSide, IsDepth
  <2> QED
    BY <1>3, <2>1, <2>2 DEF PublishDepthSnapshot
<1>4. CASE last # None /\ PublishDepthDelta(snap, DepthDelta(last, snap))
  <2>1. IsDepth(last.sides)
    BY <1>4 DEF DepthInv
  <2>2. CASE (\A s \in Sides : DOMAIN DepthDelta(last, snap)[s] = {}) /\ last' = snap /\ ear' = ear /\ stale' = stale
    BY <2>1, <2>2, <1>2, <1>4, DepthOfDeltas DEF DepthInv, DepthFollows
  <2>3. CASE /\ last' = snap /\ stale' = stale
             /\ ear' = IF ear = None THEN None
                       ELSE [s \in Sides |-> ApplyDelta(ear[s], DepthDelta(last, snap)[s])]
    <3>1. CASE ear = None
      BY <2>3, <3>1, <1>2 DEF DepthInv, DepthFollows
    <3>2. CASE ear # None /\ stale
      BY <2>3, <3>2, <1>2 DEF DepthInv, DepthFollows
    <3>3. CASE ear # None /\ ~stale
      <4>1. ear = last.sides
        BY <3>3, <1>4 DEF DepthInv, DepthFollows
      <4>2. ear' = [s \in Sides |-> ApplyDelta(last.sides[s], DepthDelta(last, snap)[s])]
        BY <2>3, <3>3, <4>1
      <4>3. ear' = snap.sides
        BY <4>2, <2>1, <1>2, DepthOfDeltas
      <4> QED
        BY <4>3, <2>3, <1>2 DEF DepthInv, DepthFollows
    <3> QED
      BY <3>1, <3>2, <3>3
  <2>4. CASE last' = last /\ ear' = ear /\ stale' = stale
    BY <2>4 DEF DepthInv, DepthFollows, IsDepth
  <2> QED
    BY <1>4, <2>2, <2>3, <2>4 DEF PublishDepthDelta, DeltaFailed
<1> QED
  BY <1>1, <1>3, <1>4

LEMMA DepthKept ==
    ASSUME DepthInv, [Next]_vars
    PROVE  DepthInv'
<1>1. CASE PublishDepth
  BY <1>1, DepthPublished
<1>2. CASE Restart
  BY <1>2 DEF Restart, DepthInv, DepthFollows
<1>3. CASE UNCHANGED <<last, ear, stale>>
  BY <1>3 DEF DepthInv, DepthFollows, IsDepth
<1>4. Place \/ Cancel \/ RelayRetry => UNCHANGED <<last, ear, stale>>
  BY Zenon DEF Place, Cancel, RelayRetry, depthSide
<1>5. Consume => UNCHANGED <<last, ear, stale>>
  BY Zenon DEF Consume, ConsumeMatch, ConsumeTrade, depthSide
<1>6. TickerAllTick \/ WSSnapshotFromRedisREST \/ UNCHANGED vars => UNCHANGED <<last, ear, stale>>
  BY DEF TickerAllTick, WSSnapshotFromRedisREST, depthSide, vars
<1> QED
  BY <1>1, <1>2, <1>3, <1>4, <1>5, <1>6 DEF Next

(* A listener that has had a snapshot frame of depth:<symbol> holds exactly *)
(* the levels the publisher last sent (startDepthPublisher, diffOneSide),   *)
(* for any orders, depth limit, failed publications and restarts, unless    *)
(* the first snapshot since the last start was lost to it.                  *)
THEOREM DepthListener == Spec => []DepthFollows
<1>1. Init => DepthInv
  BY DEF Init, DepthInv, DepthFollows
<1>2. DepthInv => DepthFollows
  BY DEF DepthInv
<1> QED
  BY <1>1, <1>2, DepthKept, PTL DEF Spec

-----------------------------------------------------------------------------
(* ticker@all.                                                             *)

IsItem(item) == item = [f \in Fields |-> item[f]]

TickerInv ==
    /\ lastItems # None => IsItem(lastItems)
    /\ (lastItems # None /\ allEar # None /\ ~ahead) => allEar = lastItems
    /\ restKey # None => restKey.snapshotId = restKey.items

LEMMA MergedItem ==
    ASSUME NEW prev, NEW curr, IsItem(prev), IsItem(curr)
    PROVE  Merge(prev, Diff(prev, curr)) = curr
<1> DEFINE delta == Diff(prev, curr)
<1>1. DOMAIN delta = {f \in Fields : prev[f] # curr[f]} /\ \A f \in DOMAIN delta : delta[f] = curr[f]
  BY DEF Diff, Restrict
<1>2. Merge(prev, delta) = [f \in Fields |-> IF f \in DOMAIN delta THEN delta[f] ELSE prev[f]]
  BY DEF Merge
<1> HIDE DEF delta
<1>3. \A f \in Fields : (IF f \in DOMAIN delta THEN delta[f] ELSE prev[f]) = curr[f]
  BY <1>1
<1>4. Merge(prev, delta) = [f \in Fields |-> curr[f]]
  BY <1>2, <1>3
<1> QED
  BY <1>4 DEF delta, IsItem

LEMMA ItemOfSnapshot ==
    ASSUME NEW snap
    PROVE  CompactItem(snap) # None => IsItem(CompactItem(snap))
<1>1. ASSUME NEW t PROVE IsItem(CompactItemFromFields(t))
  BY DEF IsItem, CompactItemFromFields, Restrict
<1> QED
  BY <1>1 DEF CompactItem

LEMMA TickerPublished ==
    ASSUME TickerInv, TickerAllTick
    PROVE  TickerInv'
<1>1. PICK snap : /\ snap = BuildTickerAllSnapshot
                  /\ \/ UNCHANGED allSide
                     \/ /\ SetTickerAllREST(snap)
                        /\ \/ UNCHANGED <<lastItems, allEar, ahead>>
                           \/ PublishTickerAllWS(CompactItem(snap))
  BY Zenon DEF TickerAllTick
<1>2. PICK curr : curr = CompactItem(snap)
  OBVIOUS
<1>3. curr # None => IsItem(curr)
  BY <1>2, ItemOfSnapshot
<1>4. snap.snapshotId = snap.items
  BY <1>1 DEF BuildTickerAllSnapshot, ComputeTickerAllSnapshotID
<1>5. CASE UNCHANGED allSide
  BY <1>5 DEF TickerInv, allSide, IsItem
<1>6. CASE SetTickerAllREST(snap) /\ UNCHANGED <<lastItems, allEar, ahead>>
  BY <1>4, <1>6 DEF TickerInv, SetTickerAllREST, IsItem
<1>7. CASE SetTickerAllREST(snap) /\ PublishTickerAllWS(curr)
  <2>1. restKey' = snap /\ lastItems' = curr /\ ahead' = (ahead /\ lastItems # None)
    BY <1>7 DEF SetTickerAllREST, PublishTickerAllWS
  <2>2. allEar' = IF lastItems = None \/ allEar = None THEN curr
                  ELSE Merge(allEar, Diff(lastItems, curr))
    BY <1>7 DEF PublishTickerAllWS, TickerFrame
  <2>3. (lastItems' # None /\ allEar' # None /\ ~ahead') => allEar' = lastItems'
    <3>1. CASE lastItems = None \/ allEar = None
      BY <2>1, <2>2, <3>1
    <3>2. CASE lastItems # None /\ allEar # None /\ ~ahead /\ curr # None
      BY <2>1, <2>2, <3>2, <1>3, MergedItem DEF TickerInv
    <3> QED
      BY <3>1, <3>2, <2>1
  <2> QED
    BY <2>1, <2>3, <1>3, <1>4 DEF TickerInv, IsItem
<1> QED
  BY <1>1, <1>2, <1>5, <1>6, <1>7

LEMMA TickerKept ==
    ASSUME TickerInv, [Next]_vars
    PROVE  TickerInv'
<1>1. CASE TickerAllTick
  BY <1>1, TickerPublished
<1>2. CASE Restart
  BY <1>2 DEF Restart, TickerInv
<1>3. CASE WSSnapshotFromRedisREST
  BY <1>3 DEF WSSnapshotFromRedisREST, TickerInv, IsItem
<1>4. CASE UNCHANGED allSide
  BY <1>4 DEF TickerInv, allSide, IsItem
<1>5. Place \/ Cancel \/ RelayRetry => UNCHANGED allSide
  BY Zenon DEF Place, Cancel, RelayRetry
<1>6. Consume => UNCHANGED allSide
  BY Zenon DEF Consume, ConsumeMatch, ConsumeTrade
<1>7. PublishDepth \/ UNCHANGED vars => UNCHANGED allSide
  BY DEF PublishDepth, allSide, vars
<1> QED
  BY <1>1, <1>2, <1>3, <1>4, <1>5, <1>6, <1>7 DEF Next

(* A listener of ticker@all that merges the frames has the fields the      *)
(* publisher last sent, whether it was there before the first frame or     *)
(* started from the REST snapshot, unless that was ahead of the frames; and *)
(* only who has the current snapshot is told so (tickerall.Diff,           *)
(* GetTickerAllSnapshot), for any trades, failures and restarts.           *)
THEOREM TickerListener == Spec => []TickerAllFollows
<1>1. Init => TickerInv
  BY DEF Init, TickerInv
<1>2. TickerInv => TickerAllFollows
  <2> SUFFICES ASSUME TickerInv PROVE TickerAllFollows
    OBVIOUS
  <2>1. BuildTickerAllSnapshot.snapshotId = SnapshotTickerAll
    BY DEF BuildTickerAllSnapshot, ComputeTickerAllSnapshotID
  <2>2. \A id : GetTickerAllSnapshot(id).notModified <=> id = SnapshotTickerAll
    BY <2>1 DEF GetTickerAllSnapshot
  <2> QED
    BY <2>2 DEF TickerInv, TickerAllFollows
<1> QED
  BY <1>1, <1>2, TickerKept, PTL DEF Spec
-----------------------------------------------------------------------------
(* Types of the shard, the topics and the ticker.                          *)

Kinds == {"LIMIT", "MARKET"}
Event == [id : Nat, type : {"ACCEPTED", "PARTIAL", "FILLED", "CANCELED"}, kind : Kinds,
          side : Sides, price : Nat, remaining : Nat]
Tick == [price : Nat, qty : Nat, time : Nat]
Command == [events : Seq(Event), trades : Seq(Tick)]
Resting == [side : Sides, kind : {"LIMIT"}, price : Nat, qty : Nat \ {0}, taken : BOOLEAN]

ShardTypes ==
    /\ now \in Nat \ {0}
    /\ log \in Seq(Command)
    /\ book \in [DOMAIN book -> Resting] /\ DOMAIN book \subseteq 1..Len(log)
    /\ matchTopic \in Seq(Event) /\ tradeTopic \in Seq(Tick)

(* A fill says of some resting orders how much of each is taken.           *)
IsFill(fill) == /\ DOMAIN fill \subseteq DOMAIN book
                /\ fill \in [DOMAIN fill -> Nat]
                /\ \A m \in DOMAIN fill : fill[m] <= book[m].qty
                /\ SumFunction(fill) \in Nat

LEMMA IdsFinite ==
    ASSUME NEW S, NEW n \in Nat, S \subseteq 1..n
    PROVE  IsFiniteSet(S)
BY FS_Interval, FS_Subset, 1 \in Int, n \in Int

LEMMA BookFinite ==
    ASSUME ShardTypes, NEW S, S \subseteq DOMAIN book
    PROVE  IsFiniteSet(S)
<1>1. Len(log) \in Nat /\ S \subseteq 1..Len(log)
  BY DEF ShardTypes
<1> QED
  BY <1>1, IdsFinite

LEMMA Arranged ==
    ASSUME NEW S, IsFiniteSet(S)
    PROVE  /\ SetToSeq(S) \in Seq(S)
           /\ DOMAIN SetToSeq(S) = 1..Cardinality(S) /\ Cardinality(S) \in Nat
           /\ \A i, j \in DOMAIN SetToSeq(S) : SetToSeq(S)[i] = SetToSeq(S)[j] => i = j
           /\ \A x \in S : \E i \in DOMAIN SetToSeq(S) : SetToSeq(S)[i] = x
<1>1. PICK n \in Nat : n = Cardinality(S)
  BY FS_CardinalityType
<1>2. ExistsBijection(1..n, S)
  BY <1>1, FS_CardinalityType
<1>3. \E f \in [1..n -> S] : IsInjective(f)
  BY <1>2 DEF ExistsBijection, Bijection, Injection, IsInjective
<1>4. PICK f : f = SetToSeq(S)
  OBVIOUS
<1>5. f \in [1..n -> S] /\ IsInjective(f)
  BY <1>1, <1>3, <1>4 DEF SetToSeq
<1>6. \A i, j \in 1..n : f[i] = f[j] => i = j
  BY <1>5 DEF IsInjective
<1>7. PICK T : T = {f[i] : i \in 1..n}
  OBVIOUS
<1>8. T \subseteq S
  BY <1>5, <1>7
<1>9. f \in Bijection(1..n, T)
  BY <1>5, <1>6, <1>7 DEF Bijection, Injection, Surjection, IsInjective
<1>10. Cardinality(T) = n
  BY <1>9, FS_CountingElements DEF ExistsBijection
<1>11. T = S
  BY <1>1, <1>8, <1>10, FS_Subset
<1>12. f \in Seq(S)
  BY <1>5
<1>13. DOMAIN f = 1..n
  BY <1>5
<1>14. \A x \in S : \E i \in DOMAIN f : f[i] = x
  BY <1>7, <1>11, <1>13
<1> QED
  BY <1>1, <1>4, <1>6, <1>12, <1>13, <1>14

LEMMA FillsAreFills ==
    ASSUME ShardTypes, NEW shape \in Shapes, NEW fill \in Fills(shape)
    PROVE  IsFill(fill)
<1> DEFINE crossing == {m \in DOMAIN book : Crosses(shape, book[m])}
<1>1. /\ fill \in [crossing -> 0..shape.qty] /\ \A m \in crossing : fill[m] <= book[m].qty
  BY DEF Fills
<1>2. DOMAIN fill = crossing /\ crossing \subseteq DOMAIN book
  BY <1>1
<1>3. fill \in [crossing -> Nat]
  BY <1>1
<1>4. IsFiniteSet(crossing)
  BY <1>2, BookFinite
<1> HIDE DEF crossing
<1>5. SumFunction(fill) \in Nat
  BY <1>2, <1>3, <1>4, SumNat DEF SumFunction
<1> QED
  BY <1>1, <1>2, <1>3, <1>5 DEF IsFill

LEMMA MakersRest ==
    ASSUME ShardTypes, NEW fill, IsFill(fill)
    PROVE  /\ Makers(fill) \in Seq({m \in DOMAIN fill : fill[m] > 0})
           /\ \A i, j \in DOMAIN Makers(fill) : Makers(fill)[i] = Makers(fill)[j] => i = j
           /\ \A m \in DOMAIN fill : fill[m] > 0 => \E i \in DOMAIN Makers(fill) : Makers(fill)[i] = m
<1> DEFINE S == {m \in DOMAIN fill : fill[m] > 0}
<1>1. S \subseteq DOMAIN book
  BY DEF IsFill
<1>5. IsFiniteSet(S)
  BY <1>1, BookFinite
<1>2. Makers(fill) = SetToSeq(S)
  BY DEF Makers
<1>3. \A m \in DOMAIN fill : fill[m] > 0 => m \in S
  OBVIOUS
<1> HIDE DEF S
<1>4. /\ Makers(fill) \in Seq(S)
      /\ \A i, j \in DOMAIN Makers(fill) : Makers(fill)[i] = Makers(fill)[j] => i = j
      /\ \A m \in S : \E i \in DOMAIN Makers(fill) : Makers(fill)[i] = m
  BY <1>2, <1>5, Arranged
<1> QED
  BY <1>3, <1>4 DEF S

LEMMA AfterType ==
    ASSUME ShardTypes, NEW fill, IsFill(fill)
    PROVE  /\ BookAfter(fill) \in [DOMAIN BookAfter(fill) -> Resting]
           /\ DOMAIN BookAfter(fill) = {m \in DOMAIN book : m \in DOMAIN fill => fill[m] < book[m].qty}
           /\ \A m \in DOMAIN BookAfter(fill) :
                BookAfter(fill)[m] = IF m \in DOMAIN fill /\ fill[m] > 0
                                     THEN [book[m] EXCEPT !.qty = @ - fill[m], !.taken = FALSE]
                                     ELSE book[m]
<1> DEFINE stay == {m \in DOMAIN book : m \in DOMAIN fill => fill[m] < book[m].qty}
           rest(m) == IF m \in DOMAIN fill /\ fill[m] > 0
                      THEN [book[m] EXCEPT !.qty = @ - fill[m], !.taken = FALSE]
                      ELSE book[m]
<1>1. BookAfter(fill) = [m \in stay |-> rest(m)]
  BY DEF BookAfter
<1>2. ASSUME NEW m \in stay PROVE rest(m) \in Resting
  <2>1. book[m] \in Resting
    BY DEF ShardTypes
  <2>2. CASE m \in DOMAIN fill /\ fill[m] > 0
    <3>1. fill[m] \in Nat /\ fill[m] < book[m].qty
      BY <2>2 DEF IsFill
    <3>2. book[m].qty - fill[m] \in Nat \ {0}
      BY <2>1, <3>1 DEF Resting
    <3> QED
      BY <2>1, <2>2, <3>2 DEF Resting
  <2> QED
    BY <2>1, <2>2
<1> QED
  BY <1>1, <1>2

(* The trades of a new order are at the prices of its makers, and now.     *)
TradesAt(makers, fill, time) ==
    [k \in DOMAIN makers |-> [price |-> book[makers[k]].price, qty |-> fill[makers[k]],
                              time |-> time]]

LEMMA TradesType ==
    ASSUME ShardTypes, NEW fill, IsFill(fill), NEW time \in Nat
    PROVE  /\ TradesAt(Makers(fill), fill, time) \in Seq(Tick)
           /\ \A k \in DOMAIN TradesAt(Makers(fill), fill, time) :
                TradesAt(Makers(fill), fill, time)[k].time = time
<1>1. PICK makers : makers = Makers(fill)
  OBVIOUS
<1>2. makers \in Seq({m \in DOMAIN fill : fill[m] > 0})
  BY <1>1, MakersRest
<1>3. PICK n \in Nat : DOMAIN makers = 1..n
  BY <1>2
<1>4. ASSUME NEW k \in 1..n
      PROVE  [price |-> book[makers[k]].price, qty |-> fill[makers[k]], time |-> time] \in Tick
  <2>1. makers[k] \in DOMAIN book /\ fill[makers[k]] \in Nat
    BY <1>2, <1>3 DEF IsFill
  <2>2. book[makers[k]] \in Resting
    BY <2>1 DEF ShardTypes
  <2> QED
    BY <2>1, <2>2 DEF Resting, Tick
<1>5. PICK t : t = TradesAt(makers, fill, time)
  OBVIOUS
<1>6. t \in [1..n -> Tick] /\ \A k \in 1..n : t[k].time = time
  BY <1>3, <1>4, <1>5 DEF TradesAt
<1>7. t \in Seq(Tick)
  BY <1>6
<1> QED
  BY <1>1, <1>5, <1>6, <1>7

(* One event per maker.                                                    *)
FillEvent(m, after) ==
    IF m \in DOMAIN after THEN NewMatchEvent(m, "PARTIAL", after[m], after[m].qty)
    ELSE NewMatchEvent(m, "FILLED", book[m], 0)

FillEvents(makers, after) == [k \in DOMAIN makers |-> FillEvent(makers[k], after)]

TakerEvents(id, shape, makers, rests) ==
    IF makers = <<>> THEN <<>>
    ELSE <<NewMatchEvent(id, IF rests THEN "PARTIAL" ELSE "FILLED", shape, shape.qty)>>

LEMMA NewOrderEvents ==
    ASSUME NEW id, NEW shape, NEW makers, NEW after, NEW rests
    PROVE  BuildNewOrderEvents(id, shape, makers, after, rests) =
             <<NewMatchEvent(id, "ACCEPTED", shape, shape.qty)>>
               \o FillEvents(makers, after) \o TakerEvents(id, shape, makers, rests)
BY DEF BuildNewOrderEvents, FillEvents, TakerEvents, FillEvent

LEMMA FillEventType ==
    ASSUME ShardTypes, NEW fill, IsFill(fill), NEW m \in DOMAIN fill
    PROVE  FillEvent(m, BookAfter(fill)) \in Event
<1>1. m \in DOMAIN book /\ book[m] \in Resting /\ m \in Nat
  BY DEF IsFill, ShardTypes
<1>2. CASE m \in DOMAIN BookAfter(fill)
  <2>1. BookAfter(fill)[m] \in Resting
    BY <1>2, AfterType
  <2> QED
    BY <1>1, <1>2, <2>1 DEF FillEvent, NewMatchEvent, Event, Resting, Kinds
<1>3. CASE m \notin DOMAIN BookAfter(fill)
  BY <1>1, <1>3 DEF FillEvent, NewMatchEvent, Event, Resting, Kinds
<1> QED
  BY <1>2, <1>3

LEMMA OrderEventType ==
    ASSUME NEW shape \in Shapes, NEW id \in Nat, NEW type \in {"ACCEPTED", "PARTIAL", "FILLED"}
    PROVE  NewMatchEvent(id, type, shape, shape.qty) \in Event
<1>1. /\ shape.side \in Sides /\ shape.kind \in Kinds
      /\ shape.price \in Nat /\ shape.qty \in Nat
  BY MarketDataAssumption DEF Sides, Kinds
<1> QED
  BY <1>1 DEF NewMatchEvent, Event

LEMMA EventsType ==
    ASSUME ShardTypes, NEW shape \in Shapes, NEW fill, IsFill(fill), NEW id \in Nat, NEW rests
    PROVE  /\ <<NewMatchEvent(id, "ACCEPTED", shape, shape.qty)>> \in Seq(Event)
           /\ FillEvents(Makers(fill), BookAfter(fill)) \in Seq(Event)
           /\ TakerEvents(id, shape, Makers(fill), rests) \in Seq(Event)
<1>1. NewMatchEvent(id, "ACCEPTED", shape, shape.qty) \in Event
  BY OrderEventType
<1>2. FillEvents(Makers(fill), BookAfter(fill)) \in Seq(Event)
  <2>1. PICK makers : makers = Makers(fill)
    OBVIOUS
  <2>2. makers \in Seq({m \in DOMAIN fill : fill[m] > 0})
    BY <2>1, MakersRest
  <2>3. PICK n \in Nat : DOMAIN makers = 1..n
    BY <2>2
  <2>4. PICK after : after = BookAfter(fill)
    OBVIOUS
  <2>5. \A k \in 1..n : FillEvent(makers[k], after) \in Event
    BY <2>2, <2>3, <2>4, FillEventType
  <2>6. FillEvents(makers, after) = [k \in 1..n |-> FillEvent(makers[k], after)]
    BY <2>3 DEF FillEvents
  <2>7. FillEvents(makers, after) \in [1..n -> Event]
    BY <2>5, <2>6
  <2>8. FillEvents(makers, after) \in Seq(Event)
    BY <2>7
  <2> QED
    BY <2>1, <2>4, <2>8
<1>3. TakerEvents(id, shape, Makers(fill), rests) \in Seq(Event)
  <2>1. NewMatchEvent(id, IF rests THEN "PARTIAL" ELSE "FILLED", shape, shape.qty) \in Event
    <3>1. CASE rests
      BY <3>1, OrderEventType
    <3>2. CASE ~rests
      BY <3>2, OrderEventType
    <3> QED
      BY <3>1, <3>2
  <2>2. <<>> \in Seq(Event)
    OBVIOUS
  <2> QED
    BY <2>1, <2>2 DEF TakerEvents
<1> QED
  BY <1>1, <1>2, <1>3

-----------------------------------------------------------------------------
(* What the shard puts on the topics.                                      *)

(* What the shard sends for a new order.                                   *)
OrderPlaced(shape, fill, time) ==
    LET id == Len(log) + 1
        rests == shape.kind = "LIMIT" /\ shape.qty - SumFunction(fill) > 0
    IN  [events |-> BuildNewOrderEvents(id, shape, Makers(fill), BookAfter(fill), rests),
         trades |-> TradesAt(Makers(fill), fill, time)]

BookWith(shape, fill) ==
    LET left == shape.qty - SumFunction(fill)
    IN  IF ~(shape.kind = "LIMIT" /\ left > 0) THEN BookAfter(fill)
        ELSE With(BookAfter(fill), Len(log) + 1,
                  [side |-> shape.side, kind |-> shape.kind, price |-> shape.price,
                   qty |-> left, taken |-> Makers(fill) # <<>>])

LEMMA PlaceSends ==
    ASSUME ShardTypes, Place
    PROVE  \E shape \in Shapes, step \in Nat : \E fill :
             /\ IsFill(fill)
             /\ now' = now + step
             /\ book' = BookWith(shape, fill)
             /\ Send(OrderPlaced(shape, fill, now + step))
             /\ UNCHANGED <<matchSide, tradeSide, depthSide, allSide, again, restarts, faults>>
<1>1. PICK shape \in Shapes, step \in Steps : \E fill \in Fills(shape) :
             /\ now' = now + step
             /\ book' = BookWith(shape, fill)
             /\ Send(OrderPlaced(shape, fill, now + step))
             /\ UNCHANGED <<matchSide, tradeSide, depthSide, allSide, again, restarts, faults>>
  BY Zenon DEF Place, OrderPlaced, BookWith, TradesAt
<1>2. step \in Nat
  BY MarketDataAssumption
<1> QED
  BY <1>1, <1>2, FillsAreFills

LEMMA BookWithType ==
    ASSUME ShardTypes, NEW shape \in Shapes, NEW fill, IsFill(fill)
    PROVE  /\ BookWith(shape, fill) \in [DOMAIN BookWith(shape, fill) -> Resting]
           /\ DOMAIN BookWith(shape, fill) \subseteq 1..(Len(log) + 1)
<1>1. PICK after : after = BookAfter(fill)
  OBVIOUS
<1>2. after \in [DOMAIN after -> Resting] /\ DOMAIN after \subseteq 1..(Len(log) + 1)
  <2>1. Len(log) \in Nat /\ DOMAIN after \subseteq 1..Len(log)
    <3>1. Len(log) \in Nat /\ DOMAIN book \subseteq 1..Len(log)
      BY DEF ShardTypes
    <3>2. DOMAIN after \subseteq DOMAIN book
      BY <1>1, AfterType
    <3> QED
      BY <3>1, <3>2
  <2>2. after \in [DOMAIN after -> Resting]
    BY <1>1, AfterType
  <2> QED
    BY <2>1, <2>2
<1>3. CASE ~(shape.kind = "LIMIT" /\ shape.qty - SumFunction(fill) > 0)
  BY <1>1, <1>2, <1>3 DEF BookWith
<1>4. CASE shape.kind = "LIMIT" /\ shape.qty - SumFunction(fill) > 0
  <2>1. PICK order : order = [side |-> shape.side, kind |-> shape.kind, price |-> shape.price,
                              qty |-> shape.qty - SumFunction(fill), taken |-> Makers(fill) # <<>>]
    OBVIOUS
  <2>2. order \in Resting
    <3>1. shape.side \in Sides /\ shape.price \in Nat /\ shape.qty \in Nat
      BY MarketDataAssumption DEF Sides
    <3>2. shape.qty - SumFunction(fill) \in Nat \ {0}
      BY <1>4, <3>1 DEF IsFill
    <3> QED
      BY <1>4, <2>1, <3>1, <3>2 DEF Resting
  <2>3. Len(log) + 1 \in 1..(Len(log) + 1)
    BY DEF ShardTypes
  <2>4. BookWith(shape, fill) = With(after, Len(log) + 1, order)
    BY <1>1, <1>4, <2>1 DEF BookWith
  <2>5. PICK id : id = Len(log) + 1
    OBVIOUS
  <2> QED
    BY <1>2, <2>2, <2>3, <2>4, <2>5 DEF With
<1> QED
  BY <1>3, <1>4

LEMMA PlacedType ==
    ASSUME ShardTypes, NEW shape \in Shapes, NEW fill, IsFill(fill), NEW time \in Nat
    PROVE  OrderPlaced(shape, fill, time) \in Command
<1>1. PICK rests : rests = (shape.kind = "LIMIT" /\ shape.qty - SumFunction(fill) > 0)
  OBVIOUS
<1>2. PICK id \in Nat : id = Len(log) + 1
  BY DEF ShardTypes
<1>3. PICK a \in Seq(Event), b \in Seq(Event), c \in Seq(Event) :
        /\ a = <<NewMatchEvent(id, "ACCEPTED", shape, shape.qty)>>
        /\ b = FillEvents(Makers(fill), BookAfter(fill))
        /\ c = TakerEvents(id, shape, Makers(fill), rests)
  BY EventsType
<1>4. a \o b \o c \in Seq(Event)
  BY Concatenated
<1>5. OrderPlaced(shape, fill, time).events = a \o b \o c
  BY <1>1, <1>2, <1>3, NewOrderEvents DEF OrderPlaced
<1>6. OrderPlaced(shape, fill, time) =
        [events |-> a \o b \o c, trades |-> TradesAt(Makers(fill), fill, time)]
  BY <1>5 DEF OrderPlaced
<1>7. TradesAt(Makers(fill), fill, time) \in Seq(Tick)
  BY TradesType
<1> QED
  BY <1>4, <1>6, <1>7 DEF Command

(* What the commands from the k-th on have sent.                           *)
EventsFrom(l, k) == FlattenSeq([j \in DOMAIN SubSeq(l, k, Len(l)) |-> SubSeq(l, k, Len(l))[j].events])
TradesFrom(l, k) == FlattenSeq([j \in DOMAIN SubSeq(l, k, Len(l)) |-> SubSeq(l, k, Len(l))[j].trades])

LEMMA RetrySends ==
    ASSUME RelayRetry
    PROVE  \E k \in DOMAIN log :
             /\ matchTopic' = matchTopic \o EventsFrom(log, k)
             /\ tradeTopic' = tradeTopic \o TradesFrom(log, k)
             /\ again' = (again \/ \E j \in DOMAIN SubSeq(log, k, Len(log)) :
                                      SubSeq(log, k, Len(log))[j].trades # <<>>)
BY Zenon DEF RelayRetry, EventsFrom, TradesFrom

LEMMA FromType ==
    ASSUME NEW l \in Seq(Command), NEW k \in 1..Len(l)
    PROVE  /\ [j \in DOMAIN SubSeq(l, k, Len(l)) |-> SubSeq(l, k, Len(l))[j].events] \in Seq(Seq(Event))
           /\ [j \in DOMAIN SubSeq(l, k, Len(l)) |-> SubSeq(l, k, Len(l))[j].trades] \in Seq(Seq(Tick))
           /\ EventsFrom(l, k) \in Seq(Event) /\ TradesFrom(l, k) \in Seq(Tick)
<1>1. PICK rest \in Seq(Command) : rest = SubSeq(l, k, Len(l))
  <2>1. PICK n \in Int : n = Len(l)
    OBVIOUS
  <2>2. k \in Int /\ \A i \in k..n : l[i] \in Command
    BY <2>1
  <2>3. SubSeq(l, k, n) \in Seq(Command)
    BY <2>2, SubSeqProperties
  <2> QED
    BY <2>1, <2>3
<1>2. PICK n \in Nat : DOMAIN rest = 1..n
  OBVIOUS
<1>3. \A j \in 1..n : rest[j] \in Command
  BY <1>2
<1>4. [j \in 1..n |-> rest[j].events] \in Seq(Seq(Event))
  <2>1. \A j \in 1..n : rest[j].events \in Seq(Event)
    BY <1>3 DEF Command
  <2> QED
    BY <2>1
<1>5. [j \in 1..n |-> rest[j].trades] \in Seq(Seq(Tick))
  <2>1. \A j \in 1..n : rest[j].trades \in Seq(Tick)
    BY <1>3 DEF Command
  <2> QED
    BY <2>1
<1>6. PICK e \in Seq(Seq(Event)) : e = [j \in DOMAIN rest |-> rest[j].events]
  BY <1>2, <1>4
<1>7. PICK t \in Seq(Seq(Tick)) : t = [j \in DOMAIN rest |-> rest[j].trades]
  BY <1>2, <1>5
<1>8. FlattenSeq(e) \in Seq(Event) /\ FlattenSeq(t) \in Seq(Tick)
  BY FlatSeq
<1> QED
  BY <1>1, <1>6, <1>7, <1>8 DEF EventsFrom, TradesFrom

(* Commands without trades, sent again, change nothing on trade.events.    *)
LEMMA NoTradesFrom ==
    ASSUME NEW l \in Seq(Command), NEW k \in 1..Len(l),
           \A j \in DOMAIN SubSeq(l, k, Len(l)) : SubSeq(l, k, Len(l))[j].trades = <<>>
    PROVE  TradesFrom(l, k) = <<>>
<1>1. PICK rest \in Seq(Command) : rest = SubSeq(l, k, Len(l))
  <2>1. PICK n \in Int : n = Len(l)
    OBVIOUS
  <2>2. k \in Int /\ \A i \in k..n : l[i] \in Command
    BY <2>1
  <2>3. SubSeq(l, k, n) \in Seq(Command)
    BY <2>2, SubSeqProperties
  <2> QED
    BY <2>1, <2>3
<1>2. PICK n \in Nat : DOMAIN rest = 1..n
  OBVIOUS
<1>3. \A j \in 1..n : rest[j].trades \in Seq({})
  <2>1. <<>> \in Seq({})
    OBVIOUS
  <2> QED
    BY <1>1, <1>2, <2>1
<1>4. [j \in 1..n |-> rest[j].trades] \in Seq(Seq({}))
  BY <1>3
<1>5. PICK t \in Seq(Seq({})) : t = [j \in DOMAIN rest |-> rest[j].trades]
  BY <1>2, <1>4
<1>6. FlattenSeq(t) \in Seq({})
  BY FlatSeq
<1>7. \A s \in Seq({}) : s = <<>>
  <2>1. ASSUME NEW s \in Seq({}) PROVE Len(s) = 0
    <3>1. SUFFICES ASSUME Len(s) # 0 PROVE FALSE
      OBVIOUS
    <3>2. s[1] \in {}
      BY <3>1
    <3> QED
      BY <3>2
  <2> QED
    BY <2>1, EmptySeq
<1> QED
  BY <1>1, <1>5, <1>6, <1>7 DEF TradesFrom

LEMMA ShardTypesKept ==
    ASSUME ShardTypes, [Next]_vars
    PROVE  ShardTypes'
<1>1. CASE Place
  <2>0. PICK shape \in Shapes, step \in Nat : \E fill :
             /\ IsFill(fill)
             /\ now' = now + step
             /\ book' = BookWith(shape, fill)
             /\ Send(OrderPlaced(shape, fill, now + step))
    BY <1>1, PlaceSends
  <2>1. PICK fill :
             /\ IsFill(fill)
             /\ now' = now + step
             /\ book' = BookWith(shape, fill)
             /\ Send(OrderPlaced(shape, fill, now + step))
    BY <2>0
  <2>2. now + step \in Nat /\ now' \in Nat \ {0}
    BY <2>1 DEF ShardTypes
  <2>3. PICK cmd \in Command : cmd = OrderPlaced(shape, fill, now + step)
    BY <2>1, <2>2, PlacedType
  <2>4. log' = Append(log, cmd) /\ log \in Seq(Command)
    BY <2>1, <2>3 DEF Send, ShardTypes
  <2>5. log' \in Seq(Command) /\ Len(log') = Len(log) + 1
    BY <2>4
  <2>6. matchTopic' \in Seq(Event) /\ tradeTopic' \in Seq(Tick)
    <3>1. cmd.events \in Seq(Event) /\ cmd.trades \in Seq(Tick)
      BY DEF Command
    <3>2. matchTopic' = matchTopic \o cmd.events /\ tradeTopic' = tradeTopic \o cmd.trades
      BY <2>1, <2>3 DEF Send
    <3> QED
      BY <3>1, <3>2, Concatenated DEF ShardTypes
  <2>7. book' \in [DOMAIN book' -> Resting] /\ DOMAIN book' \subseteq 1..Len(log')
    BY <2>1, <2>5, BookWithType
  <2> QED
    BY <2>2, <2>5, <2>6, <2>7 DEF ShardTypes
<1>2. CASE Cancel
  <2>1. PICK id \in DOMAIN book :
         /\ book' = Without(book, id)
         /\ Send([events |-> <<NewMatchEvent(id, "CANCELED", book[id], 0)>>, trades |-> <<>>])
         /\ now' = now
    BY <1>2, Zenon DEF Cancel
  <2>2. NewMatchEvent(id, "CANCELED", book[id], 0) \in Event
    <3>1. id \in Nat /\ book[id] \in Resting
      BY DEF ShardTypes
    <3> QED
      BY <3>1 DEF NewMatchEvent, Event, Resting, Kinds
  <2>3. PICK e : e = NewMatchEvent(id, "CANCELED", book[id], 0)
    OBVIOUS
  <2>4. <<e>> \in Seq(Event) /\ <<>> \in Seq(Tick)
    BY <2>2, <2>3
  <2>5. PICK cmd \in Command : cmd = [events |-> <<e>>, trades |-> <<>>]
    BY <2>4 DEF Command
  <2>6. log' = Append(log, cmd) /\ log \in Seq(Command)
    BY <2>1, <2>3, <2>5 DEF Send, ShardTypes
  <2>7. log' \in Seq(Command) /\ Len(log') = Len(log) + 1 /\ Len(log) \in Nat
    BY <2>6
  <2>8. matchTopic' \in Seq(Event) /\ tradeTopic' \in Seq(Tick)
    <3>1. cmd.events \in Seq(Event) /\ cmd.trades \in Seq(Tick)
      BY DEF Command
    <3>2. matchTopic' = matchTopic \o cmd.events /\ tradeTopic' = tradeTopic \o cmd.trades
      BY <2>1, <2>3, <2>5 DEF Send
    <3> QED
      BY <3>1, <3>2, Concatenated DEF ShardTypes
  <2>9. book' \in [DOMAIN book' -> Resting] /\ DOMAIN book' \subseteq 1..Len(log')
    <3>1. book' = [y \in DOMAIN book \ {id} |-> book[y]]
      BY <2>1 DEF Without
    <3>2. DOMAIN book \subseteq 1..Len(log) /\ \A y \in DOMAIN book : book[y] \in Resting
      BY DEF ShardTypes
    <3> QED
      BY <2>7, <3>1, <3>2
  <2> QED
    BY <2>1, <2>7, <2>8, <2>9 DEF ShardTypes
<1>3. CASE RelayRetry
  <2>1. PICK k \in DOMAIN log : /\ matchTopic' = matchTopic \o EventsFrom(log, k)
                                /\ tradeTopic' = tradeTopic \o TradesFrom(log, k)
    BY <1>3, RetrySends
  <2>2. k \in 1..Len(log) /\ log \in Seq(Command)
    BY DEF ShardTypes
  <2>3. EventsFrom(log, k) \in Seq(Event) /\ TradesFrom(log, k) \in Seq(Tick)
    BY <2>2, FromType
  <2>4. matchTopic' \in Seq(Event) /\ tradeTopic' \in Seq(Tick)
    BY <2>1, <2>3, Concatenated DEF ShardTypes
  <2>5. now' = now /\ book' = book /\ log' = log
    BY <1>3, Zenon DEF RelayRetry, shard
  <2> QED
    BY <2>4, <2>5 DEF ShardTypes
<1>4. CASE UNCHANGED <<shard, topics>>
  BY <1>4 DEF ShardTypes, shard, topics
<1>5. Consume => UNCHANGED <<shard, topics>>
  BY Zenon DEF Consume, ConsumeMatch, ConsumeTrade
<1>6. PublishDepth \/ TickerAllTick => UNCHANGED <<shard, topics>>
  BY Zenon DEF PublishDepth, TickerAllTick
<1>7. WSSnapshotFromRedisREST => UNCHANGED <<shard, topics>>
  BY Zenon DEF WSSnapshotFromRedisREST
<1>8. Restart \/ UNCHANGED vars => UNCHANGED <<shard, topics>>
  BY DEF Restart, vars, shard, topics
<1> QED
  BY <1>1, <1>2, <1>3, <1>4, <1>5, <1>6, <1>7, <1>8 DEF Next

-----------------------------------------------------------------------------
(* The 24-hour window.                                                     *)

InOrder(topic) == \A j, k \in 1..Len(topic) : j <= k => topic[j].time <= topic[k].time

(* ticks are the trades among the first n that lie in the window before    *)
(* the n-th.                                                               *)
IsWindow(ticks, topic, n) ==
    IF n = 0 THEN ticks = <<>>
    ELSE \E m \in 1..n :
           /\ ticks = SubSeq(topic, m, n)
           /\ \A k \in 1..n : k >= m <=> topic[k].time >= topic[n].time - Window

WindowInv ==
    /\ tradePos \in 0..Len(tradeTopic)
    /\ restarts \in Nat
    /\ ~again => /\ InOrder(tradeTopic)
                 /\ \A k \in 1..Len(tradeTopic) : tradeTopic[k].time \in 1..now
                 /\ restarts = 0 => IsWindow(trades24h, tradeTopic, tradePos)

LEMMA OneMoreTick ==
    ASSUME NEW topic \in Seq(Tick), NEW n \in Nat, n + 1 <= Len(topic), NEW m \in 1..(n + 1)
    PROVE  Append(SubSeq(topic, m, n), topic[n + 1]) = SubSeq(topic, m, n + 1)
<1>1. PICK l \in Nat : l = Len(topic) /\ \A i \in 1..l : topic[i] \in Tick
  OBVIOUS
<1>2. PICK j \in Int : j = n + 1 /\ n \in Int /\ m \in Int
  OBVIOUS
<1>3. \A k \in m..j : topic[k] \in Tick
  BY <1>1, <1>2
<1>4. \A k \in m..n : topic[k] \in Tick
  BY <1>2, <1>3
<1>5. /\ SubSeq(topic, m, j) \in Seq(Tick) /\ Len(SubSeq(topic, m, j)) = j - m + 1
      /\ \A k \in 1..(j - m + 1) : SubSeq(topic, m, j)[k] = topic[m + k - 1]
  BY <1>2, <1>3, SubSeqProperties
<1>6. /\ SubSeq(topic, m, n) \in Seq(Tick) /\ Len(SubSeq(topic, m, n)) = n - m + 1
      /\ \A k \in 1..(n - m + 1) : SubSeq(topic, m, n)[k] = topic[m + k - 1]
  <2>1. (IF m <= n THEN n - m + 1 ELSE 0) = n - m + 1
    OBVIOUS
  <2> QED
    BY <1>2, <1>4, <2>1, SubSeqProperties
<1>7. PICK a \in Seq(Tick) : a = SubSeq(topic, m, n)
  BY <1>6
<1>8. PICK b \in Seq(Tick) : b = SubSeq(topic, m, j)
  BY <1>5
<1>9. topic[j] \in Tick
  BY <1>2, <1>3
<1>10. Append(a, topic[j]) \in Seq(Tick) /\ Len(Append(a, topic[j])) = Len(b)
  BY <1>2, <1>5, <1>6, <1>7, <1>8, <1>9
<1>11. \A k \in 1..Len(b) : Append(a, topic[j])[k] = b[k]
  <2>1. TAKE k \in 1..Len(b)
  <2>2. k \in 1..(j - m + 1) /\ b[k] = topic[m + k - 1]
    BY <1>5, <1>8
  <2>3. CASE k = j - m + 1
    BY <1>2, <1>6, <1>7, <1>9, <2>2, <2>3
  <2>4. CASE k # j - m + 1
    <3>1. k \in 1..(n - m + 1)
      BY <1>2, <2>2, <2>4
    <3> QED
      BY <1>6, <1>7, <1>9, <2>2, <3>1
  <2> QED
    BY <2>3, <2>4
<1>12. Append(a, topic[j]) = b
  BY <1>10, <1>11, SeqEqual
<1> QED
  BY <1>2, <1>7, <1>8, <1>12

LEMMA PartOfPart ==
    ASSUME NEW topic \in Seq(Tick), NEW n \in Nat, n <= Len(topic), NEW m \in 1..n,
           NEW i \in 1..(n - m + 1)
    PROVE  SubSeq(SubSeq(topic, m, n), i, n - m + 1) = SubSeq(topic, m + i - 1, n)
<1>1. PICK l \in Nat : l = Len(topic) /\ \A k \in 1..l : topic[k] \in Tick
  OBVIOUS
<1>2. PICK p \in Int : p = m + i - 1 /\ p \in m..n
  OBVIOUS
<1>3. /\ SubSeq(topic, m, n) \in Seq(Tick) /\ Len(SubSeq(topic, m, n)) = n - m + 1
      /\ \A k \in 1..(n - m + 1) : SubSeq(topic, m, n)[k] = topic[m + k - 1]
  <2>1. m \in Int /\ n \in Int /\ m <= n /\ \A k \in m..n : topic[k] \in Tick
    BY <1>1
  <2> QED
    BY <2>1, SubSeqProperties
<1>4. /\ SubSeq(topic, p, n) \in Seq(Tick) /\ Len(SubSeq(topic, p, n)) = n - p + 1
      /\ \A k \in 1..(n - p + 1) : SubSeq(topic, p, n)[k] = topic[p + k - 1]
  <2>1. p \in Int /\ n \in Int /\ p <= n /\ \A k \in p..n : topic[k] \in Tick
    BY <1>1, <1>2
  <2> QED
    BY <2>1, SubSeqProperties
<1>5. PICK a \in Seq(Tick) : a = SubSeq(topic, m, n)
  BY <1>3
<1>6. PICK b \in Seq(Tick) : b = SubSeq(topic, p, n)
  BY <1>4
<1>7. PICK h \in Int : h = n - m + 1 /\ i \in 1..h
  OBVIOUS
<1>8. /\ SubSeq(a, i, h) \in Seq(Tick) /\ Len(SubSeq(a, i, h)) = h - i + 1
      /\ \A k \in 1..(h - i + 1) : SubSeq(a, i, h)[k] = a[i + k - 1]
  <2>1. i \in Int /\ h \in Int /\ i <= h /\ \A k \in i..h : a[k] \in Tick
    BY <1>3, <1>5, <1>7
  <2> QED
    BY <2>1, SubSeqProperties
<1>9. PICK c \in Seq(Tick) : c = SubSeq(a, i, h)
  BY <1>8
<1>10. Len(c) = Len(b)
  BY <1>2, <1>4, <1>6, <1>7, <1>8, <1>9
<1>11. \A k \in 1..Len(c) : c[k] = b[k]
  <2>1. TAKE k \in 1..Len(c)
  <2>2. c[k] = a[i + k - 1] /\ k \in 1..(h - i + 1)
    BY <1>8, <1>9
  <2>3. i + k - 1 \in 1..(n - m + 1)
    <3>1. i \in 1..h /\ k \in 1..(h - i + 1) /\ h \in Int /\ i \in Int
      BY <1>7, <2>2
    <3>2. i + k - 1 \in 1..h
      BY <3>1
    <3> QED
      BY <1>7, <3>2
  <2>4. a[i + k - 1] = topic[m + (i + k - 1) - 1]
    BY <1>3, <1>5, <2>3
  <2>5. b[k] = topic[p + k - 1]
    BY <1>2, <1>4, <1>6, <1>7, <2>2
  <2>6. p + k - 1 = m + (i + k - 1) - 1
    BY <1>2, <2>2
  <2> QED
    BY <2>2, <2>4, <2>5, <2>6
<1>12. c = b
  BY <1>10, <1>11, SeqEqual
<1> QED
  BY <1>2, <1>5, <1>6, <1>7, <1>9, <1>12

(* One trade more: what has left the window is a prefix.                   *)
LEMMA WindowMoves ==
    ASSUME NEW topic \in Seq(Tick), InOrder(topic), NEW n \in Nat, n + 1 <= Len(topic),
           NEW ticks, IsWindow(ticks, topic, n)
    PROVE  IsWindow(ApplyTrade24h(ticks, topic[n + 1]), topic, n + 1)
<1>1. PICK l \in Nat : l = Len(topic) /\ \A k \in 1..l : topic[k] \in Tick
  OBVIOUS
<1>2. \A k \in 1..l : topic[k].time \in Nat
  BY <1>1 DEF Tick
<1>3. \A j, k \in 1..l : j <= k => topic[j].time <= topic[k].time
  BY <1>1 DEF InOrder
<1>4. PICK q \in Nat : q = n + 1 /\ q \in 1..l
  BY <1>1
<1>5. PICK t : t = topic[q] /\ t.time \in Nat
  BY <1>2, <1>4
<1>6. Window \in Nat
  BY MarketDataAssumption
<1>7. \E m \in 1..q : /\ ticks = SubSeq(topic, m, n)
                      /\ \A k \in 1..l : k < m => topic[k].time < t.time - Window
  <2>1. CASE n = 0
    <3>1. ticks = <<>>
      BY <2>1 DEF IsWindow
    <3>2. SubSeq(topic, 1, 0) = <<>>
      BY SubSeqEmpty
    <3>3. 1 \in 1..q /\ \A k \in 1..l : ~(k < 1)
      BY <1>4, <2>1
    <3> QED
      BY <2>1, <3>1, <3>2, <3>3
  <2>2. CASE n # 0
    <3>1. PICK m \in 1..n : /\ ticks = SubSeq(topic, m, n)
                            /\ \A k \in 1..n : k >= m <=> topic[k].time >= topic[n].time - Window
      BY <2>2 DEF IsWindow
    <3>2. \A k \in 1..l : k < m => topic[k].time < t.time - Window
      <4>1. TAKE k \in 1..l
      <4>2. SUFFICES ASSUME k < m PROVE topic[k].time < t.time - Window
        OBVIOUS
      <4>3. k \in 1..n /\ ~(topic[k].time >= topic[n].time - Window)
        BY <3>1, <4>2
      <4>4. topic[n].time <= t.time /\ topic[n].time \in Nat /\ topic[k].time \in Nat
        BY <1>2, <1>3, <1>4, <1>5, <2>2
      <4>5. PICK a \in Nat, b \in Nat, c \in Nat :
              a = topic[k].time /\ b = topic[n].time /\ c = t.time
        BY <1>5, <4>4
      <4>6. ~(a >= b - Window) /\ b <= c
        BY <4>3, <4>4, <4>5
      <4> QED
        BY <1>6, <4>5, <4>6
    <3>3. m \in 1..q
      BY <1>4
    <3> QED
      BY <3>1, <3>2, <3>3
  <2> QED
    BY <2>1, <2>2
<1>8. PICK m \in 1..q : /\ ticks = SubSeq(topic, m, n)
                        /\ \A k \in 1..l : k < m => topic[k].time < t.time - Window
  BY <1>7
<1>9. PICK all : all = Append(ticks, t)
  OBVIOUS
<1>10. all = SubSeq(topic, m, q)
  <2>1. n + 1 <= Len(topic) /\ m \in 1..(n + 1)
    BY <1>4
  <2> QED
    BY <1>4, <1>5, <1>8, <1>9, <2>1, OneMoreTick
<1>11. PICK h \in Nat : h = q - m + 1 /\ h >= 1
  OBVIOUS
<1>12. /\ all \in Seq(Tick) /\ Len(all) = h
       /\ \A k \in 1..h : all[k] = topic[m + k - 1]
  <2>1. m \in Int /\ q \in Int /\ m <= q /\ \A k \in m..q : topic[k] \in Tick
    BY <1>1, <1>4
  <2> QED
    BY <1>10, <1>11, <2>1, SubSeqProperties
<1>13. DOMAIN all = 1..h
  BY <1>12
<1>14. PICK kept : kept = {k \in DOMAIN all : all[k].time >= t.time - Window}
  OBVIOUS
<1>15. h \in kept
  <2>1. all[h] = topic[q] /\ h \in DOMAIN all
    BY <1>11, <1>12, <1>13
  <2> QED
    BY <1>5, <1>6, <1>14, <2>1
<1>16. kept \in SUBSET Nat
  BY <1>13, <1>14
<1>17. PICK i : i = Min(kept)
  OBVIOUS
<1>18. i \in kept /\ \A y \in kept : i <= y
  BY <1>15, <1>16, <1>17, MinOfNaturals
<1>19. i \in 1..h
  BY <1>13, <1>14, <1>18
<1>20. ApplyTrade24h(ticks, t) = SubSeq(all, i, h)
  BY <1>9, <1>12, <1>14, <1>17 DEF ApplyTrade24h
<1>21. PICK p \in 1..q : p = m + i - 1
  BY <1>11, <1>19
<1>22. SubSeq(all, i, h) = SubSeq(topic, p, q)
  <2>1. q <= Len(topic) /\ i \in 1..(q - m + 1)
    BY <1>1, <1>4, <1>11, <1>19
  <2> QED
    BY <1>10, <1>11, <1>21, <2>1, PartOfPart
<1>23. \A k \in 1..q : k >= p <=> topic[k].time >= topic[q].time - Window
  <2>1. TAKE k \in 1..q
  <2>2. k \in 1..l /\ topic[k].time \in Nat
    BY <1>2, <1>4
  <2>3. CASE k >= p
    <3>1. all[i] = topic[p] /\ topic[p].time >= t.time - Window
      BY <1>12, <1>14, <1>18, <1>19, <1>21
    <3>2. topic[p].time <= topic[k].time /\ topic[p].time \in Nat
      BY <1>2, <1>3, <1>4, <2>2, <2>3
    <3>3. PICK a \in Nat, b \in Nat, c \in Nat :
            a = topic[p].time /\ b = topic[k].time /\ c = t.time
      BY <1>5, <2>2, <3>2
    <3>4. a >= c - Window /\ a <= b
      BY <3>1, <3>2, <3>3
    <3>5. b >= c - Window
      BY <1>6, <3>4
    <3> QED
      BY <1>5, <2>3, <3>3, <3>5
  <2>4. CASE k < m
    <3>1. topic[k].time < t.time - Window /\ ~(k >= p)
      BY <1>8, <1>19, <1>21, <2>2, <2>4
    <3>2. PICK b \in Nat, c \in Nat : b = topic[k].time /\ c = t.time
      BY <1>5, <2>2
    <3>3. ~(b >= c - Window)
      BY <1>6, <3>1, <3>2
    <3> QED
      BY <1>5, <3>1, <3>2, <3>3
  <2>5. CASE m <= k /\ k < p
    <3>1. PICK j \in 1..h : j = k - m + 1 /\ j < i
      BY <1>11, <1>19, <1>21, <2>5
    <3>2. j \notin kept
      BY <1>18, <1>19, <3>1
    <3>3. all[j] = topic[k]
      BY <1>12, <3>1
    <3> QED
      BY <1>5, <1>13, <1>14, <2>5, <3>1, <3>2, <3>3
  <2>6. k \in Int /\ m \in Int /\ p \in Int
    OBVIOUS
  <2> QED
    BY <2>3, <2>4, <2>5, <2>6
<1>24. q # 0
  BY <1>4
<1>25. IsWindow(SubSeq(topic, p, q), topic, q)
  BY <1>23, <1>24 DEF IsWindow
<1> QED
  BY <1>4, <1>5, <1>20, <1>22, <1>25

(* What is on the topic stays there: more trades behind change no window.  *)
LEMMA WindowStays ==
    ASSUME NEW topic \in Seq(Tick), NEW more \in Seq(Tick), NEW n \in 0..Len(topic), NEW ticks,
           IsWindow(ticks, topic, n)
    PROVE  IsWindow(ticks, topic \o more, n)
<1>1. PICK l \in Nat : l = Len(topic) /\ n \in 0..l
  OBVIOUS
<1>2. PICK t : t = topic \o more
  OBVIOUS
<1>3. t \in Seq(Tick) /\ Len(t) >= l /\ \A k \in 1..l : t[k] = topic[k]
  BY <1>1, <1>2, ConcatProperties
<1>4. CASE n = 0
  BY <1>4 DEF IsWindow
<1>5. CASE n # 0
  <2>1. PICK m \in 1..n : /\ ticks = SubSeq(topic, m, n)
                          /\ \A k \in 1..n : k >= m <=> topic[k].time >= topic[n].time - Window
    BY <1>5 DEF IsWindow
  <2>2. m \in Int /\ n \in Int
    OBVIOUS
  <2>3. \A k \in m..n : topic[k] \in Tick /\ t[k] \in Tick /\ t[k] = topic[k]
    BY <1>1, <1>3
  <2>4. /\ SubSeq(topic, m, n) \in Seq(Tick)
        /\ Len(SubSeq(topic, m, n)) = IF m <= n THEN n - m + 1 ELSE 0
        /\ \A i \in 1..(n - m + 1) : SubSeq(topic, m, n)[i] = topic[m + i - 1]
    BY <2>2, <2>3, SubSeqProperties
  <2>5. /\ SubSeq(t, m, n) \in Seq(Tick)
        /\ Len(SubSeq(t, m, n)) = IF m <= n THEN n - m + 1 ELSE 0
        /\ \A i \in 1..(n - m + 1) : SubSeq(t, m, n)[i] = t[m + i - 1]
    BY <2>2, <2>3, SubSeqProperties
  <2>6. \A i \in 1..(n - m + 1) : SubSeq(t, m, n)[i] = SubSeq(topic, m, n)[i]
    <3>1. \A i \in 1..(n - m + 1) : m + i - 1 \in m..n
      OBVIOUS
    <3> QED
      BY <2>3, <2>4, <2>5, <3>1
  <2>7. Len(SubSeq(t, m, n)) = Len(SubSeq(topic, m, n)) /\ Len(SubSeq(t, m, n)) = n - m + 1
    BY <2>4, <2>5
  <2>8. SubSeq(t, m, n) = SubSeq(topic, m, n)
    BY <2>4, <2>5, <2>6, <2>7, SeqEqual
  <2>9. \A k \in 1..n : k >= m <=> t[k].time >= t[n].time - Window
    <3>1. \A k \in 1..n : t[k] = topic[k]
      BY <1>1, <1>3
    <3>2. t[n] = topic[n]
      BY <1>5, <3>1
    <3> QED
      BY <2>1, <3>1, <3>2
  <2> QED
    BY <1>2, <1>5, <2>1, <2>8, <2>9 DEF IsWindow
<1> QED
  BY <1>4, <1>5

(* The clock does not go back, and a new trade carries its time.           *)
TimesTo(topic, time) == InOrder(topic) /\ \A k \in 1..Len(topic) : topic[k].time \in 1..time

LEMMA TimesGrow ==
    ASSUME NEW topic \in Seq(Tick), NEW more \in Seq(Tick), NEW time \in Nat \ {0}, NEW step \in Nat,
           TimesTo(topic, time), \A k \in DOMAIN more : more[k].time = time + step
    PROVE  TimesTo(topic \o more, time + step)
<1>1. PICK l \in Nat, n \in Nat : l = Len(topic) /\ n = Len(more)
  OBVIOUS
<1>2. PICK t : t = topic \o more
  OBVIOUS
<1>3. /\ Len(t) = l + n
      /\ \A k \in 1..l : t[k] = topic[k]
      /\ \A k \in (l + 1)..(l + n) : t[k] = more[k - l]
  BY <1>1, <1>2, ConcatProperties
<1>4. \A k \in 1..l : t[k].time \in 1..time
  BY <1>1, <1>3 DEF TimesTo
<1>5. ASSUME NEW k \in (l + 1)..(l + n) PROVE t[k].time = time + step
  <2>1. k - l \in DOMAIN more
    BY <1>1
  <2> QED
    BY <1>3, <2>1
<1>6. ASSUME NEW j \in 1..(l + n), NEW k \in 1..(l + n), j <= k PROVE t[j].time <= t[k].time
  <2>1. CASE k <= l
    BY <1>1, <1>3, <1>6, <2>1 DEF TimesTo, InOrder
  <2>2. CASE ~(k <= l)
    <3>1. t[k].time = time + step
      BY <1>5, <2>2
    <3>2. CASE j <= l
      <4>1. t[j].time \in 1..time
        BY <1>4, <3>2
      <4> QED
        BY <3>1, <4>1
    <3>3. CASE ~(j <= l)
      <4>1. t[j].time = time + step
        BY <1>5, <3>3
      <4> QED
        BY <3>1, <4>1
    <3> QED
      BY <3>2, <3>3
  <2> QED
    BY <2>1, <2>2
<1>7. ASSUME NEW k \in 1..(l + n) PROVE t[k].time \in 1..(time + step)
  <2>1. CASE k <= l
    <3>1. t[k].time \in 1..time
      BY <1>4, <2>1
    <3> QED
      BY <3>1
  <2>2. CASE ~(k <= l)
    <3>1. t[k].time = time + step
      BY <1>5, <2>2
    <3> QED
      BY <3>1
  <2> QED
    BY <2>1, <2>2
<1> QED
  BY <1>2, <1>3, <1>6, <1>7 DEF TimesTo, InOrder

LEMMA WindowShown ==
    ASSUME WindowInv, ShardTypes
    PROVE  WindowExact
<1>1. SUFFICES ASSUME ~again, restarts = 0, tradePos > 0
               PROVE  GetTicker = Ticker(AtPositions(tradeTopic, {k \in 1..tradePos :
                        tradeTopic[k].time >= tradeTopic[tradePos].time - Window}))
  BY DEF WindowExact
<1>2. PICK n \in Nat : n = tradePos /\ n \in 1..Len(tradeTopic) /\ n # 0
  BY <1>1 DEF WindowInv, ShardTypes
<1>3. IsWindow(trades24h, tradeTopic, n)
  BY <1>1, <1>2 DEF WindowInv
<1>4. PICK m \in 1..n : /\ trades24h = SubSeq(tradeTopic, m, n)
                        /\ \A k \in 1..n : k >= m <=> tradeTopic[k].time >= tradeTopic[n].time - Window
  BY <1>2, <1>3 DEF IsWindow
<1>5. {k \in 1..n : tradeTopic[k].time >= tradeTopic[n].time - Window} = m..n
  <2>1. \A k \in m..n : k \in 1..n /\ k >= m
    OBVIOUS
  <2>2. \A k \in 1..n : k >= m => k \in m..n
    OBVIOUS
  <2> QED
    BY <1>4, <2>1, <2>2
<1>6. AtPositions(tradeTopic, m..n) = SubSeq(tradeTopic, m, n)
  <2>1. tradeTopic \in Seq(Tick) /\ m \in Nat \ {0} /\ n \in 0..Len(tradeTopic)
    BY <1>2 DEF ShardTypes
  <2> QED
    BY <2>1, AtPositionsInterval
<1>7. Len(trades24h) = n - m + 1 /\ trades24h[n - m + 1] = tradeTopic[n]
  <2>1. PICK l \in Nat : l = Len(tradeTopic) /\ \A k \in 1..l : tradeTopic[k] \in Tick
    BY DEF ShardTypes
  <2>2. m \in Int /\ n \in Int /\ m <= n /\ \A k \in m..n : tradeTopic[k] \in Tick
    BY <1>2, <2>1
  <2>3. /\ Len(SubSeq(tradeTopic, m, n)) = n - m + 1
        /\ \A i \in 1..(n - m + 1) : SubSeq(tradeTopic, m, n)[i] = tradeTopic[m + i - 1]
    BY <2>2, SubSeqProperties
  <2>4. n - m + 1 \in 1..(n - m + 1) /\ m + (n - m + 1) - 1 = n
    OBVIOUS
  <2> QED
    BY <1>4, <2>3, <2>4
<1>8. trades24h # <<>>
  BY <1>7
<1>9. Ticker(trades24h).updated = tradeTopic[n].time
  BY <1>7 DEF Ticker, Last
<1>10. tradeTopic[n].time # 0
  BY <1>1, <1>2 DEF WindowInv
<1>11. SnapshotTicker = Ticker(trades24h)
  BY <1>8 DEF SnapshotTicker
<1>12. GetTicker = Ticker(trades24h)
  BY <1>9, <1>10, <1>11 DEF GetTicker
<1> QED
  BY <1>2, <1>4, <1>5, <1>6, <1>12

LEMMA WindowConsumed ==
    ASSUME WindowInv, ShardTypes, ConsumeTrade
    PROVE  WindowInv'
<1>1. /\ tradePos < Len(tradeTopic)
      /\ trades24h' = ApplyTrade24h(trades24h, tradeTopic[tradePos + 1])
      /\ \/ tradePos' = tradePos + 1 /\ again' = again
         \/ tradePos' = tradePos /\ again' = TRUE
      /\ UNCHANGED <<shard, topics, restarts>>
  BY Zenon DEF ConsumeTrade
<1>2. tradeTopic' = tradeTopic /\ now' = now /\ restarts' = restarts
  BY <1>1 DEF shard, topics
<1>3. PICK n \in Nat : n = tradePos /\ n + 1 <= Len(tradeTopic) /\ tradeTopic \in Seq(Tick)
  BY <1>1 DEF WindowInv, ShardTypes
<1>4. tradePos' \in 0..Len(tradeTopic)
  BY <1>1, <1>3
<1>5. CASE again'
  BY <1>2, <1>4, <1>5 DEF WindowInv
<1>6. CASE ~again'
  <2>1. ~again /\ tradePos' = n + 1
    BY <1>1, <1>3, <1>6
  <2>2. /\ InOrder(tradeTopic) /\ \A k \in 1..Len(tradeTopic) : tradeTopic[k].time \in 1..now
        /\ restarts = 0 => IsWindow(trades24h, tradeTopic, n)
    BY <1>3, <2>1 DEF WindowInv
  <2>3. restarts = 0 => IsWindow(trades24h', tradeTopic, n + 1)
    BY <1>1, <1>3, <2>2, WindowMoves
  <2> QED
    BY <1>2, <1>4, <2>1, <2>2, <2>3 DEF WindowInv
<1> QED
  BY <1>5, <1>6

(* More trades on the topic.                                               *)
LEMMA WindowFed ==
    ASSUME WindowInv, ShardTypes, NEW more \in Seq(Tick), NEW step \in Nat,
           \A k \in DOMAIN more : more[k].time = now + step,
           tradeTopic' = tradeTopic \o more, now' = now + step,
           UNCHANGED <<tradeSide, again, restarts>>
    PROVE  WindowInv'
<1>1. tradeTopic \in Seq(Tick) /\ now \in Nat \ {0}
  BY DEF ShardTypes
<1>2. Len(tradeTopic') = Len(tradeTopic) + Len(more) /\ Len(more) \in Nat /\ Len(tradeTopic) \in Nat
  BY <1>1, ConcatProperties
<1>3. tradePos' \in 0..Len(tradeTopic')
  BY <1>2 DEF WindowInv, tradeSide
<1>4. ASSUME ~again
      PROVE  /\ InOrder(tradeTopic')
             /\ \A k \in 1..Len(tradeTopic') : tradeTopic'[k].time \in 1..now'
             /\ restarts = 0 => IsWindow(trades24h, tradeTopic', tradePos)
  <2>1. TimesTo(tradeTopic, now)
    BY <1>4 DEF WindowInv, TimesTo
  <2>2. TimesTo(tradeTopic \o more, now + step)
    BY <1>1, <2>1, TimesGrow
  <2>3. ASSUME restarts = 0 PROVE IsWindow(trades24h, tradeTopic \o more, tradePos)
    <3>1. IsWindow(trades24h, tradeTopic, tradePos) /\ tradePos \in 0..Len(tradeTopic)
      BY <1>4, <2>3 DEF WindowInv
    <3> QED
      BY <1>1, <3>1, WindowStays
  <2> QED
    BY <2>2, <2>3 DEF TimesTo
<1> QED
  BY <1>3, <1>4 DEF WindowInv, tradeSide

LEMMA WindowKept ==
    ASSUME WindowInv, ShardTypes, [Next]_vars
    PROVE  WindowInv'
<1>1. CASE Place
  <2>0. PICK shape \in Shapes, step \in Nat : \E fill :
             /\ IsFill(fill)
             /\ now' = now + step
             /\ Send(OrderPlaced(shape, fill, now + step))
             /\ UNCHANGED <<tradeSide, again, restarts>>
    BY <1>1, PlaceSends
  <2>1. PICK fill :
             /\ IsFill(fill)
             /\ now' = now + step
             /\ Send(OrderPlaced(shape, fill, now + step))
             /\ UNCHANGED <<tradeSide, again, restarts>>
    BY <2>0
  <2>2. now + step \in Nat
    BY DEF ShardTypes
  <2>3. PICK more : more = TradesAt(Makers(fill), fill, now + step)
    OBVIOUS
  <2>4. more \in Seq(Tick) /\ \A k \in DOMAIN more : more[k].time = now + step
    BY <2>1, <2>2, <2>3, TradesType
  <2>5. tradeTopic' = tradeTopic \o more
    BY <2>1, <2>3 DEF Send, OrderPlaced
  <2> QED
    BY <2>1, <2>4, <2>5, WindowFed
<1>2. CASE Cancel
  <2>1. PICK id \in DOMAIN book :
           Send([events |-> <<NewMatchEvent(id, "CANCELED", book[id], 0)>>, trades |-> <<>>])
    BY <1>2, Zenon DEF Cancel
  <2>2. tradeTopic' = tradeTopic \o <<>>
    BY <2>1 DEF Send
  <2>3. now' = now + 0 /\ UNCHANGED <<tradeSide, again, restarts>>
    <3>1. now' = now /\ UNCHANGED <<tradeSide, again, restarts>>
      BY <1>2, Zenon DEF Cancel
    <3>2. now + 0 = now
      BY DEF ShardTypes
    <3> QED
      BY <3>1, <3>2
  <2>4. <<>> \in Seq(Tick) /\ DOMAIN <<>> = {} /\ 0 \in Nat
    OBVIOUS
  <2>5. \A k \in DOMAIN <<>> : <<>>[k].time = now + 0
    BY <2>4
  <2>6. PICK more : more = <<>>
    OBVIOUS
  <2> QED
    BY <2>2, <2>3, <2>4, <2>5, <2>6, WindowFed
<1>3. CASE RelayRetry
  <2>1. PICK k \in DOMAIN log :
             /\ tradeTopic' = tradeTopic \o TradesFrom(log, k)
             /\ again' = (again \/ \E j \in DOMAIN SubSeq(log, k, Len(log)) :
                                      SubSeq(log, k, Len(log))[j].trades # <<>>)
    BY <1>3, RetrySends
  <2>2. now' = now /\ UNCHANGED <<tradeSide, restarts>>
    BY <1>3, Zenon DEF RelayRetry, shard
  <2>3. log \in Seq(Command) /\ k \in 1..Len(log)
    BY DEF ShardTypes
  <2>4. TradesFrom(log, k) \in Seq(Tick) /\ tradeTopic \in Seq(Tick)
    BY <2>3, FromType DEF ShardTypes
  <2>5. PICK more \in Seq(Tick) : more = TradesFrom(log, k)
    BY <2>4
  <2>6. CASE again'
    <3>1. tradePos' \in 0..Len(tradeTopic')
      <4>1. Len(tradeTopic') = Len(tradeTopic) + Len(more) /\ Len(more) \in Nat
        BY <2>1, <2>4, <2>5, ConcatProperties
      <4>2. tradePos' = tradePos /\ Len(tradeTopic) \in Nat /\ tradePos \in 0..Len(tradeTopic)
        BY <2>2, <2>4 DEF WindowInv, tradeSide
      <4> QED
        BY <4>1, <4>2
    <3> QED
      BY <2>2, <2>6, <3>1 DEF WindowInv
  <2>7. CASE ~again'
    <3>1. ~again /\ \A j \in DOMAIN SubSeq(log, k, Len(log)) :
                       SubSeq(log, k, Len(log))[j].trades = <<>>
      BY <2>1, <2>7
    <3>2. TradesFrom(log, k) = <<>>
      BY <2>3, <3>1, NoTradesFrom
    <3>3. tradeTopic' = tradeTopic
      BY <2>1, <2>4, <3>2, ConcatEmptySeq
    <3> QED
      BY <2>2, <2>7, <3>1, <3>3 DEF WindowInv, tradeSide
  <2> QED
    BY <2>6, <2>7
<1>4. CASE ConsumeTrade
  BY <1>4, WindowConsumed
<1>5. CASE Restart
  <2>1. restarts' = restarts + 1 /\ UNCHANGED <<shard, topics, tradePos, again>>
    BY <1>5, Zenon DEF Restart
  <2>2. restarts' \in Nat /\ restarts' # 0
    BY <2>1 DEF WindowInv
  <2> QED
    BY <2>1, <2>2 DEF WindowInv, shard, topics
<1>6. CASE UNCHANGED <<shard, topics, tradeSide, again, restarts>>
  BY <1>6 DEF WindowInv, shard, topics, tradeSide
<1>7. ConsumeMatch => UNCHANGED <<shard, topics, tradeSide, again, restarts>>
  BY Zenon DEF ConsumeMatch
<1>8. PublishDepth \/ TickerAllTick => UNCHANGED <<shard, topics, tradeSide, again, restarts>>
  BY Zenon DEF PublishDepth, TickerAllTick
<1>9. WSSnapshotFromRedisREST => UNCHANGED <<shard, topics, tradeSide, again, restarts>>
  BY Zenon DEF WSSnapshotFromRedisREST
<1>10. UNCHANGED vars => UNCHANGED <<shard, topics, tradeSide, again, restarts>>
  BY DEF vars, shard, topics, tradeSide
<1> QED
  BY <1>1, <1>2, <1>3, <1>4, <1>5, <1>6, <1>7, <1>8, <1>9, <1>10 DEF Next, Consume

(* The ticker is that of the trades of the last 24 hours, and of no other   *)
(* (applyTrade24h, recomputeTicker24h), for any orders, clock and window:   *)
(* trades come in the order of their time, so dropping a prefix is enough.  *)
THEOREM TickerOfWindow == Spec => []WindowExact
<1>1. Init => ShardTypes /\ WindowInv
  BY DEF Init, ShardTypes, WindowInv, Empty, IsWindow, InOrder
<1>2. ShardTypes /\ WindowInv /\ [Next]_vars => ShardTypes' /\ WindowInv'
  BY ShardTypesKept, WindowKept
<1>3. ShardTypes /\ WindowInv => WindowExact
  BY WindowShown
<1> QED
  BY <1>1, <1>2, <1>3, PTL DEF Spec

-----------------------------------------------------------------------------
(* Price levels are sums over the orders of the mirror.                    *)

Shown == [side : Sides, price : Nat, remaining : Nat]

IsOrders(orders) == orders \in [DOMAIN orders -> Shown] /\ IsFiniteSet(DOMAIN orders)

IsLevelMap(levels) ==
    /\ levels = [s \in Sides |-> levels[s]]
    /\ \A s \in Sides : \A p \in DOMAIN levels[s] : p \in Nat /\ levels[s][p] \in Int

Level(levels, s, p) == IF p \in DOMAIN levels[s] THEN levels[s][p] ELSE 0

Weight(o, s, p) == IF o.side = s /\ o.price = p THEN o.remaining ELSE 0

Total(orders, s, p) ==
    SumFunctionOnSet([id \in DOMAIN orders |-> Weight(orders[id], s, p)], DOMAIN orders)

LevelsAddUp(orders, levels) ==
    /\ IsOrders(orders) /\ IsLevelMap(levels)
    /\ \A s \in Sides : \A p \in Nat : Level(levels, s, p) = Total(orders, s, p)

LEMMA LevelChanges ==
    ASSUME NEW levels, IsLevelMap(levels), NEW side \in Sides, NEW price \in Nat, NEW delta \in Int
    PROVE  /\ IsLevelMap(AddToLevel(levels, side, price, delta))
           /\ \A s \in Sides : \A p \in Nat :
                Level(AddToLevel(levels, side, price, delta), s, p)
                  = Level(levels, s, p) + (IF s = side /\ p = price THEN delta ELSE 0)
<1>1. PICK f : f = levels[side]
  OBVIOUS
<1>2. \A p \in DOMAIN f : p \in Nat /\ f[p] \in Int
  BY <1>1 DEF IsLevelMap
<1>3. PICK old \in Int : old = IF price \in DOMAIN f THEN f[price] ELSE 0
  BY <1>2
<1>4. PICK g : g = IF old + delta = 0 THEN Without(f, price) ELSE With(f, price, old + delta)
  OBVIOUS
<1>5. AddToLevel(levels, side, price, delta) = [levels EXCEPT ![side] = g]
  BY <1>1, <1>3, <1>4 DEF AddToLevel
<1>6. PICK new : new = [levels EXCEPT ![side] = g]
  OBVIOUS
<1>7. /\ new = [s \in Sides |-> new[s]]
      /\ new[side] = g /\ \A s \in Sides : s # side => new[s] = levels[s]
  BY <1>6 DEF IsLevelMap
<1>8. \A p \in DOMAIN g : p \in Nat /\ g[p] \in Int
  BY <1>2, <1>3, <1>4 DEF Without, With
<1>9. \A p \in Nat : (IF p \in DOMAIN g THEN g[p] ELSE 0)
                       = (IF p \in DOMAIN f THEN f[p] ELSE 0) + (IF p = price THEN delta ELSE 0)
  <2>1. CASE old + delta = 0
    <3>1. g = [y \in DOMAIN f \ {price} |-> f[y]]
      BY <1>4, <2>1 DEF Without
    <3> QED
      BY <1>2, <1>3, <2>1, <3>1
  <2>2. CASE old + delta # 0
    <3>1. g = [y \in DOMAIN f \union {price} |-> IF y = price THEN old + delta ELSE f[y]]
      BY <1>4, <2>2 DEF With
    <3> QED
      BY <1>2, <1>3, <2>2, <3>1
  <2> QED
    BY <2>1, <2>2
<1>10. IsLevelMap(new)
  BY <1>7, <1>8 DEF IsLevelMap
<1>11. ASSUME NEW s \in Sides, NEW p \in Nat
       PROVE  Level(new, s, p) = Level(levels, s, p) + (IF s = side /\ p = price THEN delta ELSE 0)
  <2>1. CASE s = side
    BY <1>1, <1>7, <1>9, <2>1 DEF Level
  <2>2. CASE s # side
    <3>1. Level(new, s, p) = Level(levels, s, p) /\ Level(levels, s, p) \in Int
      BY <1>7, <2>2 DEF Level, IsLevelMap
    <3> QED
      BY <2>2, <3>1
  <2> QED
    BY <2>1, <2>2
<1> QED
  BY <1>5, <1>6, <1>10, <1>11

LEMMA WeightNat ==
    ASSUME NEW o \in Shown, NEW s, NEW p
    PROVE  Weight(o, s, p) \in Nat
BY DEF Weight, Shown

LEMMA TotalNat ==
    ASSUME NEW orders, IsOrders(orders), NEW s, NEW p
    PROVE  Total(orders, s, p) \in Nat
<1>1. PICK f : f = [id \in DOMAIN orders |-> Weight(orders[id], s, p)]
  OBVIOUS
<1>2. \A id \in DOMAIN orders : f[id] \in Nat
  BY <1>1, WeightNat DEF IsOrders
<1>3. SumFunctionOnSet(f, DOMAIN orders) \in Nat
  BY <1>2, SumNat DEF IsOrders
<1> QED
  BY <1>1, <1>3 DEF Total

LEMMA TotalTakes ==
    ASSUME NEW orders, IsOrders(orders), NEW s, NEW p, NEW id \in DOMAIN orders
    PROVE  /\ IsOrders(Without(orders, id))
           /\ Total(orders, s, p) = Weight(orders[id], s, p) + Total(Without(orders, id), s, p)
<1>1. PICK f : f = [x \in DOMAIN orders |-> Weight(orders[x], s, p)]
  OBVIOUS
<1>2. PICK D : D = DOMAIN orders \ {id}
  OBVIOUS
<1>3. PICK rest : rest = Without(orders, id)
  OBVIOUS
<1>4. DOMAIN rest = D /\ \A x \in D : rest[x] = orders[x]
  BY <1>2, <1>3 DEF Without
<1>5. IsFiniteSet(D) /\ IsFiniteSet(DOMAIN orders)
  BY <1>2, FS_Subset DEF IsOrders
<1>6. rest = [x \in D |-> rest[x]]
  BY <1>2, <1>3 DEF Without
<1>7. IsOrders(rest)
  BY <1>2, <1>4, <1>5, <1>6 DEF IsOrders
<1>8. \A x \in DOMAIN orders : f[x] \in Int
  <2>1. \A x \in DOMAIN orders : f[x] \in Nat
    BY <1>1, WeightNat DEF IsOrders
  <2> QED
    BY <2>1
<1>9. SumFunctionOnSet(f, DOMAIN orders) = f[id] + SumFunctionOnSet(f, D)
  BY <1>2, <1>5, <1>8, SumTakes
<1>10. PICK g : g = [x \in DOMAIN rest |-> Weight(rest[x], s, p)]
  OBVIOUS
<1>11. \A x \in D : g[x] = f[x]
  BY <1>1, <1>2, <1>4, <1>10
<1>12. SumFunctionOnSet(g, D) = SumFunctionOnSet(f, D)
  BY <1>5, <1>11, SumSame
<1> QED
  BY <1>1, <1>3, <1>4, <1>7, <1>9, <1>10, <1>12 DEF Total

LEMMA TotalAdds ==
    ASSUME NEW orders, IsOrders(orders), NEW s, NEW p, NEW id, NEW o \in Shown
    PROVE  /\ IsOrders(With(orders, id, o))
           /\ Total(With(orders, id, o), s, p) = Weight(o, s, p) + Total(Without(orders, id), s, p)
<1>1. PICK new : new = With(orders, id, o)
  OBVIOUS
<1>2. /\ DOMAIN new = DOMAIN orders \cup {id} /\ new = [x \in DOMAIN new |-> new[x]]
      /\ \A x \in DOMAIN new : new[x] = IF x = id THEN o ELSE orders[x]
  BY <1>1 DEF With
<1>3. IsFiniteSet(DOMAIN new)
  <2>1. IsFiniteSet({id}) /\ IsFiniteSet(DOMAIN orders)
    BY FS_Singleton DEF IsOrders
  <2>2. IsFiniteSet(DOMAIN orders \cup {id})
    BY <2>1, FS_Union
  <2> QED
    BY <1>2, <2>2
<1>4. IsOrders(new)
  BY <1>2, <1>3 DEF IsOrders
<1>5. id \in DOMAIN new /\ new[id] = o
  BY <1>2
<1>6. Total(new, s, p) = Weight(o, s, p) + Total(Without(new, id), s, p)
  BY <1>4, <1>5, TotalTakes
<1>7. Without(new, id) = Without(orders, id)
  <2>1. DOMAIN new \ {id} = DOMAIN orders \ {id}
    BY <1>2
  <2>2. \A x \in DOMAIN orders \ {id} : new[x] = orders[x]
    BY <1>2
  <2> QED
    BY <2>1, <2>2 DEF Without
<1> QED
  BY <1>1, <1>4, <1>6, <1>7

LEMMA NotThere ==
    ASSUME NEW orders, IsOrders(orders), NEW id, id \notin DOMAIN orders
    PROVE  Without(orders, id) = orders
<1>1. DOMAIN orders \ {id} = DOMAIN orders
  OBVIOUS
<1>2. orders = [x \in DOMAIN orders |-> orders[x]]
  BY DEF IsOrders
<1> QED
  BY <1>1, <1>2 DEF Without

IsMirror(m) ==
    /\ m = [known |-> m.known, orders |-> m.orders, levels |-> m.levels, id |-> m.id]
    /\ m.known \in BOOLEAN
    /\ LevelsAddUp(m.orders, m.levels)
    /\ DOMAIN m.orders # {} => m.known

LEMMA TouchedMirror ==
    ASSUME NEW m, IsMirror(m), NEW changes \in BOOLEAN
    PROVE  /\ IsMirror(Touched(m, changes))
           /\ Touched(m, changes).orders = m.orders /\ Touched(m, changes).known
<1>1. PICK x : x = IF changes THEN m.id + 1 ELSE m.id
  OBVIOUS
<1>2. Touched(m, changes) = [known |-> TRUE, orders |-> m.orders, levels |-> m.levels, id |-> x]
  <2>1. Touched(m, changes) = [m EXCEPT !.known = TRUE, !.id = IF changes THEN m.id + 1 ELSE m.id]
    BY DEF Touched, IsMirror
  <2>2. Touched(m, changes) = [m EXCEPT !.known = TRUE, !.id = x]
    BY <1>1, <2>1
  <2> QED
    BY <2>2 DEF IsMirror
<1> QED
  BY <1>2 DEF IsMirror

LEMMA UpsertMirror ==
    ASSUME NEW m, IsMirror(m), m.known, NEW id, NEW e \in Shown
    PROVE  /\ IsMirror(ApplyUpsert(m, id, e))
           /\ ApplyUpsert(m, id, e).orders = With(m.orders, id, e)
<1>1. PICK orders : orders = m.orders
  OBVIOUS
<1>2. PICK levels : levels = m.levels
  OBVIOUS
<1>3. LevelsAddUp(orders, levels)
  BY <1>1, <1>2 DEF IsMirror
<1>4. PICK back : back = IF id \in DOMAIN orders
                         THEN AddToLevel(levels, orders[id].side, orders[id].price, -orders[id].remaining)
                         ELSE levels
  OBVIOUS
<1>5. /\ IsLevelMap(back)
      /\ \A s \in Sides : \A p \in Nat : Level(back, s, p) = Total(Without(orders, id), s, p)
  <2>1. CASE id \in DOMAIN orders
    <3>1. PICK o \in Shown : o = orders[id]
      BY <1>3, <2>1 DEF LevelsAddUp, IsOrders
    <3>2. o.side \in Sides /\ o.price \in Nat /\ o.remaining \in Nat /\ -o.remaining \in Int
      BY DEF Shown
    <3>3. back = AddToLevel(levels, o.side, o.price, -o.remaining)
      BY <1>4, <2>1, <3>1
    <3>4. /\ IsLevelMap(back)
          /\ \A s \in Sides : \A p \in Nat : Level(back, s, p)
               = Level(levels, s, p) + (IF s = o.side /\ p = o.price THEN -o.remaining ELSE 0)
      <4>1. PICK side \in Sides, price \in Nat, delta \in Int :
              side = o.side /\ price = o.price /\ delta = -o.remaining
        BY <3>2
      <4>2. IsLevelMap(levels) /\ back = AddToLevel(levels, side, price, delta)
        BY <1>3, <3>3, <4>1 DEF LevelsAddUp
      <4>3. /\ IsLevelMap(back)
            /\ \A s \in Sides : \A p \in Nat : Level(back, s, p)
                 = Level(levels, s, p) + (IF s = side /\ p = price THEN delta ELSE 0)
        BY <4>2, LevelChanges
      <4> QED
        BY <4>1, <4>3
    <3>5. ASSUME NEW s \in Sides, NEW p \in Nat
          PROVE  Level(back, s, p) = Total(Without(orders, id), s, p)
      <4>1. /\ Total(orders, s, p) = Weight(o, s, p) + Total(Without(orders, id), s, p)
            /\ IsOrders(Without(orders, id))
        BY <1>3, <2>1, <3>1, TotalTakes DEF LevelsAddUp
      <4>2. Total(Without(orders, id), s, p) \in Nat /\ Weight(o, s, p) \in Nat
        BY <4>1, TotalNat, WeightNat
      <4>3. Level(levels, s, p) = Total(orders, s, p)
        BY <1>3 DEF LevelsAddUp
      <4>4. Weight(o, s, p) = IF s = o.side /\ p = o.price THEN o.remaining ELSE 0
        BY DEF Weight
      <4> QED
        BY <3>2, <3>4, <4>1, <4>2, <4>3, <4>4
    <3> QED
      BY <3>4, <3>5
  <2>2. CASE id \notin DOMAIN orders
    <3>1. Without(orders, id) = orders /\ back = levels
      BY <1>3, <1>4, <2>2, NotThere DEF LevelsAddUp
    <3> QED
      BY <1>3, <3>1 DEF LevelsAddUp
  <2> QED
    BY <2>1, <2>2
<1>6. e.side \in Sides /\ e.price \in Nat /\ e.remaining \in Nat /\ e.remaining \in Int
  BY DEF Shown
<1>7. PICK new : new = AddToLevel(back, e.side, e.price, e.remaining)
  OBVIOUS
<1>8. /\ IsLevelMap(new)
      /\ \A s \in Sides : \A p \in Nat : Level(new, s, p)
           = Level(back, s, p) + (IF s = e.side /\ p = e.price THEN e.remaining ELSE 0)
  BY <1>5, <1>6, <1>7, LevelChanges
<1>9. LevelsAddUp(With(orders, id, e), new)
  <2>1. ASSUME NEW s \in Sides, NEW p \in Nat
        PROVE  Level(new, s, p) = Total(With(orders, id, e), s, p)
    <3>1. Total(With(orders, id, e), s, p) = Weight(e, s, p) + Total(Without(orders, id), s, p)
      BY <1>3, TotalAdds DEF LevelsAddUp
    <3>2. Level(back, s, p) = Total(Without(orders, id), s, p)
      BY <1>5
    <3>3. Weight(e, s, p) = IF s = e.side /\ p = e.price THEN e.remaining ELSE 0
      BY DEF Weight
    <3>4. Level(new, s, p) = Level(back, s, p) + Weight(e, s, p)
      BY <1>8, <3>3
    <3>5. Level(back, s, p) \in Int /\ Weight(e, s, p) \in Int
      BY <1>5, <1>6 DEF IsLevelMap, Level, Weight
    <3> QED
      BY <3>1, <3>2, <3>4, <3>5
  <2>2. IsOrders(With(orders, id, e))
    BY <1>3, TotalAdds DEF LevelsAddUp
  <2> QED
    BY <1>8, <2>1, <2>2 DEF LevelsAddUp
<1>10. ApplyUpsert(m, id, e) =
         [known |-> m.known, orders |-> With(orders, id, e), levels |-> new, id |-> m.id]
  <2>1. m = [known |-> m.known, orders |-> orders, levels |-> levels, id |-> m.id]
    BY <1>1, <1>2 DEF IsMirror
  <2>2. ApplyUpsert(m, id, e) = [m EXCEPT !.orders = With(orders, id, e), !.levels = new]
    BY <1>1, <1>2, <1>4, <1>7, <2>1 DEF ApplyUpsert
  <2> QED
    BY <2>1, <2>2
<1> QED
  BY <1>1, <1>9, <1>10 DEF IsMirror

LEMMA RemainingMirror ==
    ASSUME NEW m, IsMirror(m), m.known, NEW id \in DOMAIN m.orders, NEW remaining \in Nat
    PROVE  /\ IsMirror(ApplyRemaining(m, id, remaining))
           /\ ApplyRemaining(m, id, remaining).orders
                = With(m.orders, id, [m.orders[id] EXCEPT !.remaining = remaining])
<1>1. PICK orders : orders = m.orders
  OBVIOUS
<1>2. PICK levels : levels = m.levels
  OBVIOUS
<1>3. LevelsAddUp(orders, levels)
  BY <1>1, <1>2 DEF IsMirror
<1>4. PICK o \in Shown : o = orders[id]
  BY <1>1, <1>3 DEF LevelsAddUp, IsOrders
<1>5. o.side \in Sides /\ o.price \in Nat /\ o.remaining \in Nat /\ remaining - o.remaining \in Int
  BY DEF Shown
<1>6. PICK v \in Shown : v = [o EXCEPT !.remaining = remaining]
  BY DEF Shown
<1>7. v.side = o.side /\ v.price = o.price /\ v.remaining = remaining
  BY <1>6 DEF Shown
<1>8. PICK new : new = AddToLevel(levels, o.side, o.price, remaining - o.remaining)
  OBVIOUS
<1>9. /\ IsLevelMap(new)
      /\ \A s \in Sides : \A p \in Nat : Level(new, s, p)
           = Level(levels, s, p) + (IF s = o.side /\ p = o.price THEN remaining - o.remaining ELSE 0)
  <2>1. PICK side \in Sides, price \in Nat, delta \in Int :
          side = o.side /\ price = o.price /\ delta = remaining - o.remaining
    BY <1>5
  <2>2. IsLevelMap(levels) /\ new = AddToLevel(levels, side, price, delta)
    BY <1>3, <1>8, <2>1 DEF LevelsAddUp
  <2>3. /\ IsLevelMap(new)
        /\ \A s \in Sides : \A p \in Nat : Level(new, s, p)
             = Level(levels, s, p) + (IF s = side /\ p = price THEN delta ELSE 0)
    BY <2>2, LevelChanges
  <2> QED
    BY <2>1, <2>3
<1>10. LevelsAddUp(With(orders, id, v), new)
  <2>1. ASSUME NEW s \in Sides, NEW p \in Nat
        PROVE  Level(new, s, p) = Total(With(orders, id, v), s, p)
    <3>1. Total(With(orders, id, v), s, p) = Weight(v, s, p) + Total(Without(orders, id), s, p)
      BY <1>3, TotalAdds DEF LevelsAddUp
    <3>2. /\ Total(orders, s, p) = Weight(o, s, p) + Total(Without(orders, id), s, p)
          /\ IsOrders(Without(orders, id))
      BY <1>1, <1>3, <1>4, TotalTakes DEF LevelsAddUp
    <3>3. Level(levels, s, p) = Total(orders, s, p)
      BY <1>3 DEF LevelsAddUp
    <3>4. Weight(v, s, p) = Weight(o, s, p) + (IF s = o.side /\ p = o.price THEN remaining - o.remaining ELSE 0)
      BY <1>5, <1>7 DEF Weight
    <3>5. Total(Without(orders, id), s, p) \in Nat /\ Weight(o, s, p) \in Nat
      BY <3>2, TotalNat, WeightNat
    <3>6. PICK d \in Int : d = IF s = o.side /\ p = o.price THEN remaining - o.remaining ELSE 0
      BY <1>5
    <3>7. Level(new, s, p) = Level(levels, s, p) + d
      BY <1>9, <3>6
    <3> QED
      BY <3>1, <3>2, <3>3, <3>4, <3>5, <3>6, <3>7
  <2>2. IsOrders(With(orders, id, v))
    BY <1>3, TotalAdds DEF LevelsAddUp
  <2> QED
    BY <1>9, <2>1, <2>2 DEF LevelsAddUp
<1>11. [orders EXCEPT ![id].remaining = remaining] = With(orders, id, v)
  <2>1. DOMAIN orders \cup {id} = DOMAIN orders /\ orders = [x \in DOMAIN orders |-> orders[x]]
    BY <1>1, <1>3 DEF LevelsAddUp, IsOrders
  <2>2. [orders EXCEPT ![id].remaining = remaining] =
          [x \in DOMAIN orders |-> IF x = id THEN v ELSE orders[x]]
    BY <1>4, <1>6, <2>1
  <2> QED
    BY <2>1, <2>2 DEF With
<1>12. ApplyRemaining(m, id, remaining) =
         [known |-> m.known, orders |-> With(orders, id, v), levels |-> new, id |-> m.id]
  <2>1. m = [known |-> m.known, orders |-> orders, levels |-> levels, id |-> m.id]
    BY <1>1, <1>2 DEF IsMirror
  <2>2. ApplyRemaining(m, id, remaining)
          = [m EXCEPT !.orders = [orders EXCEPT ![id].remaining = remaining], !.levels = new]
    BY <1>1, <1>2, <1>4, <1>8, <2>1 DEF ApplyRemaining
  <2> QED
    BY <1>11, <2>1, <2>2
<1> QED
  BY <1>1, <1>4, <1>6, <1>10, <1>12 DEF IsMirror

LEMMA RemoveMirror ==
    ASSUME NEW m, IsMirror(m), m.known, NEW id \in DOMAIN m.orders
    PROVE  /\ IsMirror(ApplyRemove(m, id))
           /\ ApplyRemove(m, id).orders = Without(m.orders, id)
<1>1. PICK orders : orders = m.orders
  OBVIOUS
<1>2. PICK levels : levels = m.levels
  OBVIOUS
<1>3. LevelsAddUp(orders, levels)
  BY <1>1, <1>2 DEF IsMirror
<1>4. PICK o \in Shown : o = orders[id]
  BY <1>1, <1>3 DEF LevelsAddUp, IsOrders
<1>5. o.side \in Sides /\ o.price \in Nat /\ o.remaining \in Nat /\ -o.remaining \in Int
  BY DEF Shown
<1>6. PICK new : new = AddToLevel(levels, o.side, o.price, -o.remaining)
  OBVIOUS
<1>7. /\ IsLevelMap(new)
      /\ \A s \in Sides : \A p \in Nat : Level(new, s, p)
           = Level(levels, s, p) + (IF s = o.side /\ p = o.price THEN -o.remaining ELSE 0)
  <2>1. PICK side \in Sides, price \in Nat, delta \in Int :
          side = o.side /\ price = o.price /\ delta = -o.remaining
    BY <1>5
  <2>2. IsLevelMap(levels) /\ new = AddToLevel(levels, side, price, delta)
    BY <1>3, <1>6, <2>1 DEF LevelsAddUp
  <2>3. /\ IsLevelMap(new)
        /\ \A s \in Sides : \A p \in Nat : Level(new, s, p)
             = Level(levels, s, p) + (IF s = side /\ p = price THEN delta ELSE 0)
    BY <2>2, LevelChanges
  <2> QED
    BY <2>1, <2>3
<1>8. LevelsAddUp(Without(orders, id), new)
  <2>1. ASSUME NEW s \in Sides, NEW p \in Nat
        PROVE  Level(new, s, p) = Total(Without(orders, id), s, p)
    <3>1. /\ Total(orders, s, p) = Weight(o, s, p) + Total(Without(orders, id), s, p)
          /\ IsOrders(Without(orders, id))
      BY <1>1, <1>3, <1>4, TotalTakes DEF LevelsAddUp
    <3>2. Total(Without(orders, id), s, p) \in Nat /\ Weight(o, s, p) \in Nat
      BY <3>1, TotalNat, WeightNat
    <3>3. Level(levels, s, p) = Total(orders, s, p)
      BY <1>3 DEF LevelsAddUp
    <3>4. Weight(o, s, p) = IF s = o.side /\ p = o.price THEN o.remaining ELSE 0
      BY DEF Weight
    <3> QED
      BY <1>5, <1>7, <3>1, <3>2, <3>3, <3>4
  <2>2. IsOrders(Without(orders, id))
    BY <1>1, <1>3, TotalTakes DEF LevelsAddUp
  <2> QED
    BY <1>7, <2>1, <2>2 DEF LevelsAddUp
<1>9. ApplyRemove(m, id) =
        [known |-> m.known, orders |-> Without(orders, id), levels |-> new, id |-> m.id]
  <2>1. m = [known |-> m.known, orders |-> orders, levels |-> levels, id |-> m.id]
    BY <1>1, <1>2 DEF IsMirror
  <2>2. ApplyRemove(m, id) = [m EXCEPT !.orders = Without(orders, id), !.levels = new]
    BY <1>1, <1>2, <1>4, <1>6, <2>1 DEF ApplyRemove
  <2> QED
    BY <2>1, <2>2
<1> QED
  BY <1>1, <1>8, <1>9 DEF IsMirror

-----------------------------------------------------------------------------
(* The mirror shows what the events say.                                   *)

Ends == {"FILLED", "CANCELED"}

(* applyAccepted passes over market orders.                                *)
Opens(e) == e.type = "ACCEPTED" /\ e.kind # "MARKET"
Heeded(e) == e.type = "ACCEPTED" => e.kind # "MARKET"

(* Among the first n events one opens the order x and none ends it after.  *)
OpenAfter(S, n, x) ==
    \E k \in 1..n : /\ S[k].id = x /\ Opens(S[k])
                    /\ \A j \in (k + 1)..n : S[j].id = x => S[j].type \notin Ends

(* The k-th event is the last of the first n to be heeded of its order.    *)
LastOf(S, n, k) == \A j \in (k + 1)..n : S[j].id = S[k].id => ~Heeded(S[j])

Reflects(orders, S, n) ==
    /\ \A x : x \in DOMAIN orders <=> OpenAfter(S, n, x)
    /\ \A x \in DOMAIN orders : \E k \in 1..n :
         S[k].id = x /\ orders[x].remaining = S[k].remaining /\ LastOf(S, n, k)
    /\ \A x \in DOMAIN orders : \E k \in 1..n :
         S[k].id = x /\ orders[x].side = S[k].side /\ orders[x].price = S[k].price

(* What event j, read for the first time or again, does to the orders of a *)
(* mirror that reflects the events up to it.                               *)
LEMMA OtherOpen ==
    ASSUME NEW S, NEW n \in Nat, NEW j \in Nat \ {0}, j \in {n, n + 1}, NEW x, S[j].id # x
    PROVE  OpenAfter(S, j, x) <=> OpenAfter(S, n, x)
<1>1. CASE j = n
  BY <1>1
<1>2. CASE j = n + 1
  <2>1. ASSUME NEW k \in 1..n,
               \A i \in (k + 1)..n : S[i].id = x => S[i].type \notin Ends
        PROVE  \A i \in (k + 1)..j : S[i].id = x => S[i].type \notin Ends
    <3>1. \A i \in (k + 1)..j : i = j \/ i \in (k + 1)..n
      BY <1>2
    <3> QED
      BY <2>1, <3>1
  <2>2. OpenAfter(S, n, x) => OpenAfter(S, j, x)
    <3>1. SUFFICES ASSUME OpenAfter(S, n, x) PROVE OpenAfter(S, j, x)
      OBVIOUS
    <3>2. PICK k \in 1..n : /\ S[k].id = x /\ Opens(S[k])
                            /\ \A i \in (k + 1)..n : S[i].id = x => S[i].type \notin Ends
      BY <3>1 DEF OpenAfter
    <3>3. k \in 1..j
      BY <1>2
    <3> QED
      BY <2>1, <3>2, <3>3 DEF OpenAfter
  <2>3. OpenAfter(S, j, x) => OpenAfter(S, n, x)
    <3>1. SUFFICES ASSUME OpenAfter(S, j, x) PROVE OpenAfter(S, n, x)
      OBVIOUS
    <3>2. PICK k \in 1..j : /\ S[k].id = x /\ Opens(S[k])
                            /\ \A i \in (k + 1)..j : S[i].id = x => S[i].type \notin Ends
      BY <3>1 DEF OpenAfter
    <3>3. k \in 1..n /\ \A i \in (k + 1)..n : i \in (k + 1)..j
      BY <1>2, <3>2
    <3> QED
      BY <3>2, <3>3 DEF OpenAfter
  <2> QED
    BY <2>2, <2>3
<1> QED
  BY <1>1, <1>2

LEMMA LastStays ==
    ASSUME NEW S, NEW n \in Nat, NEW j \in Nat \ {0}, j \in {n, n + 1}, NEW k \in 1..n,
           LastOf(S, n, k), S[j].id # S[k].id \/ ~Heeded(S[j])
    PROVE  k \in 1..j /\ LastOf(S, j, k)
<1>1. \A i \in (k + 1)..j : i = j \/ i \in (k + 1)..n
  OBVIOUS
<1>2. \A i \in (k + 1)..j : S[i].id = S[k].id => ~Heeded(S[i])
  BY <1>1 DEF LastOf
<1> QED
  BY <1>2 DEF LastOf

(* An order the event is not about is shown as before.                     *)
LEMMA OthersReflected ==
    ASSUME NEW S, NEW n \in Nat, NEW j \in Nat \ {0}, j \in {n, n + 1},
           NEW orders, Reflects(orders, S, n), NEW new,
           \A x : x # S[j].id => (x \in DOMAIN new <=> x \in DOMAIN orders),
           \A x \in DOMAIN new : x # S[j].id => new[x] = orders[x]
    PROVE  /\ \A x : x # S[j].id => (x \in DOMAIN new <=> OpenAfter(S, j, x))
           /\ \A x \in DOMAIN new : x # S[j].id => \E k \in 1..j :
                S[k].id = x /\ new[x].remaining = S[k].remaining /\ LastOf(S, j, k)
           /\ \A x \in DOMAIN new : x # S[j].id => \E k \in 1..j :
                S[k].id = x /\ new[x].side = S[k].side /\ new[x].price = S[k].price
<1>1. \A x : x # S[j].id => (x \in DOMAIN new <=> OpenAfter(S, j, x))
  BY OtherOpen DEF Reflects
<1>2. ASSUME NEW x \in DOMAIN new, x # S[j].id
      PROVE  \E k \in 1..j :
                S[k].id = x /\ new[x].remaining = S[k].remaining /\ LastOf(S, j, k)
  <2>1. x \in DOMAIN orders /\ new[x] = orders[x]
    BY <1>2
  <2>2. PICK k \in 1..n :
           S[k].id = x /\ orders[x].remaining = S[k].remaining /\ LastOf(S, n, k)
    BY <2>1 DEF Reflects
  <2>3. k \in 1..j /\ LastOf(S, j, k)
    BY <1>2, <2>2, LastStays
  <2> QED
    BY <2>1, <2>2, <2>3
<1>3. ASSUME NEW x \in DOMAIN new, x # S[j].id
      PROVE  \E k \in 1..j :
                S[k].id = x /\ new[x].side = S[k].side /\ new[x].price = S[k].price
  <2>1. x \in DOMAIN orders /\ new[x] = orders[x]
    BY <1>3
  <2>2. PICK k \in 1..n :
           S[k].id = x /\ orders[x].side = S[k].side /\ orders[x].price = S[k].price
    BY <2>1 DEF Reflects
  <2>3. k \in 1..j
    OBVIOUS
  <2> QED
    BY <2>1, <2>2, <2>3
<1> QED
  BY <1>1, <1>2, <1>3

(* With the order of the event itself it is enough to look at that order.  *)
LEMMA ReflectedWith ==
    ASSUME NEW S, NEW n \in Nat, NEW j \in Nat \ {0}, j \in {n, n + 1},
           NEW orders, Reflects(orders, S, n), NEW new,
           \A x : x # S[j].id => (x \in DOMAIN new <=> x \in DOMAIN orders),
           \A x \in DOMAIN new : x # S[j].id => new[x] = orders[x],
           S[j].id \in DOMAIN new <=> OpenAfter(S, j, S[j].id),
           S[j].id \in DOMAIN new => \E k \in 1..j :
               S[k].id = S[j].id /\ new[S[j].id].remaining = S[k].remaining /\ LastOf(S, j, k),
           S[j].id \in DOMAIN new => \E k \in 1..j :
               /\ S[k].id = S[j].id
               /\ new[S[j].id].side = S[k].side /\ new[S[j].id].price = S[k].price
    PROVE  Reflects(new, S, j)
<1>1. /\ \A x : x # S[j].id => (x \in DOMAIN new <=> OpenAfter(S, j, x))
      /\ \A x \in DOMAIN new : x # S[j].id => \E k \in 1..j :
           S[k].id = x /\ new[x].remaining = S[k].remaining /\ LastOf(S, j, k)
      /\ \A x \in DOMAIN new : x # S[j].id => \E k \in 1..j :
           S[k].id = x /\ new[x].side = S[k].side /\ new[x].price = S[k].price
  BY OthersReflected
<1>2. \A x : x \in DOMAIN new <=> OpenAfter(S, j, x)
  BY <1>1
<1>3. \A x \in DOMAIN new : \E k \in 1..j :
         S[k].id = x /\ new[x].remaining = S[k].remaining /\ LastOf(S, j, k)
  BY <1>1
<1>4. \A x \in DOMAIN new : \E k \in 1..j :
         S[k].id = x /\ new[x].side = S[k].side /\ new[x].price = S[k].price
  BY <1>1
<1> QED
  BY <1>2, <1>3, <1>4 DEF Reflects

Right(orders, S, n, x) ==
    /\ x \in DOMAIN orders <=> OpenAfter(S, n, x)
    /\ x \in DOMAIN orders => \E k \in 1..n :
         S[k].id = x /\ orders[x].remaining = S[k].remaining /\ LastOf(S, n, k)
    /\ x \in DOMAIN orders => \E k \in 1..n :
         S[k].id = x /\ orders[x].side = S[k].side /\ orders[x].price = S[k].price

Kept(new, orders, id) ==
    /\ \A x : x # id => (x \in DOMAIN new <=> x \in DOMAIN orders)
    /\ \A x \in DOMAIN new : x # id => new[x] = orders[x]

LEMMA RightReflected ==
    ASSUME NEW S, NEW n \in Nat, NEW j \in Nat \ {0}, j \in {n, n + 1},
           NEW orders, Reflects(orders, S, n), NEW new, NEW id, S[j].id = id,
           Kept(new, orders, id), Right(new, S, j, id)
    PROVE  Reflects(new, S, j)
<1>1. /\ \A x : x # S[j].id => (x \in DOMAIN new <=> x \in DOMAIN orders)
      /\ \A x \in DOMAIN new : x # S[j].id => new[x] = orders[x]
  BY DEF Kept
<1>2. Right(new, S, j, S[j].id)
  OBVIOUS
<1> QED
  BY <1>1, <1>2, ReflectedWith DEF Right

LEMMA EventReflected ==
    ASSUME NEW S \in Seq(Event), NEW n \in Nat, NEW j \in 1..Len(S), j \in {n, n + 1},
           NEW m, IsMirror(m), Reflects(m.orders, S, n)
    PROVE  /\ IsMirror(ApplyMatchEvent(m, S[j]))
           /\ Reflects(ApplyMatchEvent(m, S[j]).orders, S, j)
<1>1. PICK e \in Event : e = S[j]
  OBVIOUS
<1>2. PICK id : id = e.id
  OBVIOUS
<1>3. PICK orders : orders = m.orders
  OBVIOUS
<1>4. Reflects(orders, S, n) /\ j \in Nat \ {0} /\ S[j].id = id
  BY <1>1, <1>2, <1>3
<1>5. e.side \in Sides /\ e.price \in Nat /\ e.remaining \in Nat
  BY DEF Event
<1>6. LastOf(S, j, j) /\ j \in 1..j
  BY <1>4 DEF LastOf
<1>7. CASE Opens(e)
  <2>1. PICK v \in Shown : v = [side |-> e.side, price |-> e.price, remaining |-> e.remaining]
    BY <1>5 DEF Shown
  <2>2. PICK t : t = Touched(m, TRUE)
    OBVIOUS
  <2>3. IsMirror(t) /\ t.orders = orders /\ t.known
    BY <1>3, <2>2, TouchedMirror
  <2>4. ApplyMatchEvent(m, e) = ApplyUpsert(t, id, v)
    BY <1>2, <1>7, <2>1, <2>2 DEF ApplyMatchEvent, ApplyAccepted, ApplyOrderBookAccepted, Opens
  <2>5. PICK new : new = With(orders, id, v)
    OBVIOUS
  <2>6. IsMirror(ApplyUpsert(t, id, v)) /\ ApplyUpsert(t, id, v).orders = new
    BY <2>3, <2>5, UpsertMirror
  <2>7. /\ DOMAIN new = DOMAIN orders \cup {id} /\ new[id] = v
        /\ \A x \in DOMAIN new : x # id => new[x] = orders[x]
    BY <2>5 DEF With
  <2>8. OpenAfter(S, j, id)
    <3>1. \A i \in (j + 1)..j : S[i].id = id => S[i].type \notin Ends
      BY <1>4
    <3> QED
      BY <1>1, <1>2, <1>6, <1>7, <3>1 DEF OpenAfter
  <2>9. v.remaining = S[j].remaining /\ v.side = S[j].side /\ v.price = S[j].price
    BY <1>1, <2>1
  <2>10. \A x : x # id => (x \in DOMAIN new <=> x \in DOMAIN orders)
    BY <2>7
  <2>11. id \in DOMAIN new
    BY <2>7
  <2>12. Reflects(new, S, j)
    <3>1. Right(new, S, j, id)
      BY <1>4, <1>6, <2>7, <2>8, <2>9, <2>11 DEF Right
    <3>2. Kept(new, orders, id)
      BY <2>7, <2>10 DEF Kept
    <3> QED
      BY <1>4, <3>1, <3>2, RightReflected
  <2> QED
    BY <1>1, <2>4, <2>6, <2>12
<1>8. CASE e.type = "PARTIAL"
  <2>1. OpenAfter(S, j, id) <=> OpenAfter(S, n, id)
    <3>1. S[j].type \notin Ends /\ ~Opens(S[j])
      BY <1>1, <1>8 DEF Ends, Opens
    <3>2. CASE j = n
      BY <3>2
    <3>3. CASE j = n + 1
      <4>1. ASSUME OpenAfter(S, n, id) PROVE OpenAfter(S, j, id)
        <5>1. PICK k \in 1..n : /\ S[k].id = id /\ Opens(S[k])
                                /\ \A i \in (k + 1)..n : S[i].id = id => S[i].type \notin Ends
          BY <4>1 DEF OpenAfter
        <5>2. \A i \in (k + 1)..j : i = j \/ i \in (k + 1)..n
          BY <3>3
        <5>3. k \in 1..j /\ \A i \in (k + 1)..j : S[i].id = id => S[i].type \notin Ends
          BY <3>1, <3>3, <5>1, <5>2
        <5> QED
          BY <5>1, <5>3 DEF OpenAfter
      <4>2. ASSUME OpenAfter(S, j, id) PROVE OpenAfter(S, n, id)
        <5>1. PICK k \in 1..j : /\ S[k].id = id /\ Opens(S[k])
                                /\ \A i \in (k + 1)..j : S[i].id = id => S[i].type \notin Ends
          BY <4>2 DEF OpenAfter
        <5>2. k # j
          BY <3>1, <5>1
        <5>3. k \in 1..n /\ \A i \in (k + 1)..n : i \in (k + 1)..j
          BY <3>3, <5>2
        <5> QED
          BY <5>1, <5>3 DEF OpenAfter
      <4> QED
        BY <4>1, <4>2
    <3> QED
      BY <3>2, <3>3
  <2>2. id \in DOMAIN orders <=> OpenAfter(S, j, id)
    BY <1>4, <2>1 DEF Reflects
  <2>3. CASE id \in DOMAIN orders
    <3>1. PICK t : t = Touched(m, TRUE)
      OBVIOUS
    <3>2. IsMirror(t) /\ t.orders = orders /\ t.known
      BY <1>3, <3>1, TouchedMirror
    <3>3. ApplyMatchEvent(m, e) = ApplyRemaining(t, id, e.remaining)
      BY <1>2, <1>3, <1>8, <2>3, <3>1 DEF ApplyMatchEvent, ApplyOrderBookRemaining
    <3>4. PICK r \in Nat : r = e.remaining
      BY <1>5
    <3>5. PICK new : new = With(orders, id, [orders[id] EXCEPT !.remaining = r])
      OBVIOUS
    <3>6. IsMirror(ApplyRemaining(t, id, r)) /\ ApplyRemaining(t, id, r).orders = new
      BY <2>3, <3>2, <3>5, RemainingMirror
    <3>7. orders[id] \in Shown
      BY <1>3, <2>3 DEF IsMirror, LevelsAddUp, IsOrders
    <3>8. /\ DOMAIN new = DOMAIN orders /\ new[id] = [orders[id] EXCEPT !.remaining = r]
          /\ \A x \in DOMAIN new : x # id => new[x] = orders[x]
      BY <2>3, <3>5 DEF With
    <3>9. new[id].remaining = S[j].remaining /\ new[id].side = orders[id].side
          /\ new[id].price = orders[id].price
      BY <1>1, <3>4, <3>7, <3>8 DEF Shown
    <3>10. PICK k \in 1..n : S[k].id = id /\ orders[id].side = S[k].side
                                          /\ orders[id].price = S[k].price
      BY <1>4, <2>3 DEF Reflects
    <3>11. k \in 1..j
      OBVIOUS
    <3>12. \A x : x # id => (x \in DOMAIN new <=> x \in DOMAIN orders)
      BY <3>8
    <3>13. id \in DOMAIN new <=> OpenAfter(S, j, id)
      BY <2>2, <3>8
    <3>14. \E i \in 1..j :
             S[i].id = id /\ new[id].remaining = S[i].remaining /\ LastOf(S, j, i)
      BY <1>4, <1>6, <3>9
    <3>15. \E i \in 1..j :
             S[i].id = id /\ new[id].side = S[i].side /\ new[id].price = S[i].price
      BY <3>9, <3>10, <3>11
    <3>16. Right(new, S, j, id)
      BY <3>13, <3>14, <3>15 DEF Right
    <3>17. Kept(new, orders, id)
      BY <3>8, <3>12 DEF Kept
    <3>18. Reflects(new, S, j)
      BY <1>4, <3>16, <3>17, RightReflected
    <3> QED
      BY <1>1, <3>3, <3>4, <3>6, <3>18
  <2>4. CASE id \notin DOMAIN orders
    <3>1. PICK t : t = Touched(m, FALSE)
      OBVIOUS
    <3>2. IsMirror(t) /\ t.orders = orders
      BY <1>3, <3>1, TouchedMirror
    <3>3. ApplyMatchEvent(m, e) = t
      BY <1>2, <1>3, <1>8, <2>4, <3>1 DEF ApplyMatchEvent, ApplyOrderBookRemaining
    <3>4. Reflects(orders, S, j)
      <4>1. Right(orders, S, j, id) /\ Kept(orders, orders, id)
        BY <2>2, <2>4 DEF Right, Kept
      <4> QED
        BY <1>4, <4>1, RightReflected
    <3> QED
      BY <1>1, <3>2, <3>3, <3>4
  <2> QED
    BY <2>3, <2>4
<1>9. CASE e.type \in Ends
  <2>1. ~OpenAfter(S, j, id)
    <3>1. SUFFICES ASSUME OpenAfter(S, j, id) PROVE FALSE
      OBVIOUS
    <3>2. PICK k \in 1..j : /\ S[k].id = id /\ Opens(S[k])
                            /\ \A i \in (k + 1)..j : S[i].id = id => S[i].type \notin Ends
      BY <3>1 DEF OpenAfter
    <3>3. CASE k = j
      BY <1>1, <1>9, <3>2, <3>3 DEF Opens, Ends
    <3>4. CASE k # j
      <4>1. j \in (k + 1)..j
        BY <3>4
      <4> QED
        BY <1>1, <1>4, <1>9, <3>2, <4>1
    <3> QED
      BY <3>3, <3>4
  <2>2. CASE id \in DOMAIN orders
    <3>1. PICK t : t = Touched(m, TRUE)
      OBVIOUS
    <3>2. IsMirror(t) /\ t.orders = orders /\ t.known
      BY <1>3, <3>1, TouchedMirror
    <3>3. ApplyMatchEvent(m, e) = ApplyRemove(t, id)
      BY <1>2, <1>3, <1>9, <2>2, <3>1 DEF ApplyMatchEvent, ApplyOrderBookRemove, Ends
    <3>4. PICK new : new = Without(orders, id)
      OBVIOUS
    <3>5. IsMirror(ApplyRemove(t, id)) /\ ApplyRemove(t, id).orders = new
      BY <2>2, <3>2, <3>4, RemoveMirror
    <3>6. /\ DOMAIN new = DOMAIN orders \ {id}
          /\ \A x \in DOMAIN new : x # id => new[x] = orders[x]
      BY <3>4 DEF Without
    <3>7. \A x : x # id => (x \in DOMAIN new <=> x \in DOMAIN orders)
      BY <3>6
    <3>8. id \notin DOMAIN new
      BY <3>6
    <3>9. Reflects(new, S, j)
      <4>1. Right(new, S, j, id)
        BY <2>1, <3>8 DEF Right
      <4>2. Kept(new, orders, id)
        BY <3>6, <3>7 DEF Kept
      <4> QED
        BY <1>4, <4>1, <4>2, RightReflected
    <3> QED
      BY <1>1, <3>3, <3>5, <3>9
  <2>3. CASE id \notin DOMAIN orders
    <3>1. PICK t : t = Touched(m, FALSE)
      OBVIOUS
    <3>2. IsMirror(t) /\ t.orders = orders
      BY <1>3, <3>1, TouchedMirror
    <3>3. ApplyMatchEvent(m, e) = t
      BY <1>2, <1>3, <1>9, <2>3, <3>1 DEF ApplyMatchEvent, ApplyOrderBookRemove, Ends
    <3>4. Reflects(orders, S, j)
      <4>1. Right(orders, S, j, id) /\ Kept(orders, orders, id)
        BY <2>1, <2>3 DEF Right, Kept
      <4> QED
        BY <1>4, <4>1, RightReflected
    <3> QED
      BY <1>1, <3>2, <3>3, <3>4
  <2> QED
    BY <2>2, <2>3
<1>10. CASE e.type = "ACCEPTED" /\ e.kind = "MARKET"
  <2>1. ApplyMatchEvent(m, e) = m
    BY <1>10 DEF ApplyMatchEvent, ApplyAccepted
  <2>2. ~Heeded(S[j]) /\ ~Opens(S[j]) /\ S[j].type \notin Ends
    BY <1>1, <1>10 DEF Heeded, Opens, Ends
  <2>3. \A x : OpenAfter(S, j, x) <=> OpenAfter(S, n, x)
    <3>1. TAKE x
    <3>2. CASE j = n
      BY <3>2
    <3>3. CASE j = n + 1
      <4>1. ASSUME OpenAfter(S, n, x) PROVE OpenAfter(S, j, x)
        <5>1. PICK k \in 1..n : /\ S[k].id = x /\ Opens(S[k])
                                /\ \A i \in (k + 1)..n : S[i].id = x => S[i].type \notin Ends
          BY <4>1 DEF OpenAfter
        <5>2. \A i \in (k + 1)..j : i = j \/ i \in (k + 1)..n
          BY <3>3
        <5>3. k \in 1..j /\ \A i \in (k + 1)..j : S[i].id = x => S[i].type \notin Ends
          BY <2>2, <3>3, <5>1, <5>2
        <5> QED
          BY <5>1, <5>3 DEF OpenAfter
      <4>2. ASSUME OpenAfter(S, j, x) PROVE OpenAfter(S, n, x)
        <5>1. PICK k \in 1..j : /\ S[k].id = x /\ Opens(S[k])
                                /\ \A i \in (k + 1)..j : S[i].id = x => S[i].type \notin Ends
          BY <4>2 DEF OpenAfter
        <5>2. k # j
          BY <2>2, <5>1
        <5>3. k \in 1..n /\ \A i \in (k + 1)..n : i \in (k + 1)..j
          BY <3>3, <5>2
        <5> QED
          BY <5>1, <5>3 DEF OpenAfter
      <4> QED
        BY <4>1, <4>2
    <3> QED
      BY <3>2, <3>3
  <2>4. ASSUME NEW x \in DOMAIN orders
        PROVE  \E k \in 1..j :
                 S[k].id = x /\ orders[x].remaining = S[k].remaining /\ LastOf(S, j, k)
    <3>1. PICK k \in 1..n :
             S[k].id = x /\ orders[x].remaining = S[k].remaining /\ LastOf(S, n, k)
      BY <1>4 DEF Reflects
    <3>2. k \in 1..j /\ LastOf(S, j, k)
      BY <1>4, <2>2, <3>1, LastStays
    <3> QED
      BY <3>1, <3>2
  <2>5. ASSUME NEW x \in DOMAIN orders
        PROVE  \E k \in 1..j :
                 S[k].id = x /\ orders[x].side = S[k].side /\ orders[x].price = S[k].price
    <3>1. PICK k \in 1..n :
             S[k].id = x /\ orders[x].side = S[k].side /\ orders[x].price = S[k].price
      BY <1>4 DEF Reflects
    <3>2. k \in 1..j
      OBVIOUS
    <3> QED
      BY <3>1, <3>2
  <2>6. Reflects(orders, S, j)
    BY <1>4, <2>3, <2>4, <2>5 DEF Reflects
  <2> QED
    BY <1>1, <1>3, <2>1, <2>6
<1>11. Opens(e) \/ e.type = "PARTIAL" \/ e.type \in Ends \/ (e.type = "ACCEPTED" /\ e.kind = "MARKET")
  BY DEF Event, Opens, Ends
<1> QED
  BY <1>7, <1>8, <1>9, <1>10, <1>11

-----------------------------------------------------------------------------
(* The events say what the book holds.                                     *)

SameOrder(e, o) == /\ e.side = o.side /\ e.price = o.price
                   /\ e.kind # "MARKET" /\ e.type \notin Ends
Shows(e, o) == e.remaining >= o.qty /\ (~o.taken => e.remaining = o.qty)

NoneAfter(S, k) == \A j \in (k + 1)..Len(S) : S[j].id # S[k].id
Ended(S, k) == \E j \in (k + 1)..Len(S) : S[j].id = S[k].id /\ S[j].type \in Ends

(* The events of an order that rests are all about it, the last has what   *)
(* is left of it; an order that does not rest is ended once it was opened. *)
Told(S, b, x) ==
    /\ x \in DOMAIN b => \A k \in 1..Len(S) : S[k].id = x =>
          SameOrder(S[k], b[x]) /\ (NoneAfter(S, k) => Shows(S[k], b[x]))
    /\ x \notin DOMAIN b => \A k \in 1..Len(S) : S[k].id = x /\ Opens(S[k]) => Ended(S, k)

(* What the events of a command have to say of an order when the book      *)
(* turns from b to c.                                                      *)
Turns(E, b, c, x) ==
    /\ Told(E, c, x)
    /\ x \in DOMAIN b /\ x \in DOMAIN c => c[x].side = b[x].side /\ c[x].price = b[x].price
    /\ x \in DOMAIN c /\ (\A k \in 1..Len(E) : E[k].id # x) => x \in DOMAIN b /\ c[x] = b[x]
    /\ x \in DOMAIN b /\ x \notin DOMAIN c => \E k \in 1..Len(E) : E[k].id = x /\ E[k].type \in Ends
    /\ x \in DOMAIN c /\ x \notin DOMAIN b =>
          \E k \in 1..Len(E) : E[k].id = x /\ E[k].type = "ACCEPTED"

LEMMA JoinedAt ==
    ASSUME NEW S \in Seq(Event), NEW T \in Seq(Event)
    PROVE  /\ Len(S \o T) = Len(S) + Len(T) /\ Len(S) \in Nat /\ Len(T) \in Nat
           /\ \A k \in 1..Len(S) : k \in 1..Len(S \o T) /\ (S \o T)[k] = S[k]
           /\ \A k \in 1..Len(T) : Len(S) + k \in 1..Len(S \o T) /\ (S \o T)[Len(S) + k] = T[k]
           /\ \A k \in 1..Len(S \o T) : k \in 1..Len(S) \/ \E i \in 1..Len(T) : k = Len(S) + i
<1>1. PICK n \in Nat, m \in Nat : n = Len(S) /\ m = Len(T)
  OBVIOUS
<1>2. /\ Len(S \o T) = n + m
      /\ \A k \in 1..(n + m) : (S \o T)[k] = IF k <= n THEN S[k] ELSE T[k - n]
  BY <1>1, ConcatProperties
<1>3. \A k \in 1..n : k \in 1..(n + m) /\ (S \o T)[k] = S[k]
  BY <1>2
<1>4. \A k \in 1..m : n + k \in 1..(n + m) /\ (S \o T)[n + k] = T[k]
  <2>1. TAKE k \in 1..m
  <2>2. n + k \in 1..(n + m) /\ ~(n + k <= n) /\ (n + k) - n = k
    OBVIOUS
  <2> QED
    BY <1>2, <2>2
<1>5. \A k \in 1..(n + m) : k \in 1..n \/ \E i \in 1..m : k = n + i
  <2>1. TAKE k \in 1..(n + m)
  <2>2. CASE k <= n
    BY <2>2
  <2>3. CASE ~(k <= n)
    <3>1. k - n \in 1..m /\ k = n + (k - n)
      BY <2>3
    <3> QED
      BY <3>1
  <2> QED
    BY <2>2, <2>3
<1> QED
  BY <1>1, <1>2, <1>3, <1>4, <1>5

LEMMA JoinedAfter ==
    ASSUME NEW S \in Seq(Event), NEW T \in Seq(Event), NEW U, U = S \o T
    PROVE  /\ \A k \in 1..Len(S) : NoneAfter(U, k) =>
                NoneAfter(S, k) /\ \A j \in 1..Len(T) : T[j].id # S[k].id
           /\ \A k \in 1..Len(T) : NoneAfter(U, Len(S) + k) => NoneAfter(T, k)
           /\ \A k \in 1..Len(S) :
                Ended(S, k) \/ (\E j \in 1..Len(T) : T[j].id = S[k].id /\ T[j].type \in Ends)
                  => Ended(U, k)
           /\ \A k \in 1..Len(T) : Ended(T, k) => Ended(U, Len(S) + k)
<1>1. PICK n \in Nat, m \in Nat : n = Len(S) /\ m = Len(T)
  OBVIOUS
<1>2. /\ Len(U) = n + m
      /\ \A k \in 1..n : U[k] = S[k]
      /\ \A k \in 1..m : U[n + k] = T[k]
  BY <1>1, JoinedAt
<1>3. \A k \in 1..n : \A j \in (k + 1)..n : j \in 1..n /\ j \in (k + 1)..(n + m)
  OBVIOUS
<1>4. \A k \in 1..n : \A j \in 1..m : n + j \in (k + 1)..(n + m)
  OBVIOUS
<1>5. \A k \in 1..m : \A j \in (k + 1)..m : j \in 1..m /\ n + j \in ((n + k) + 1)..(n + m)
  OBVIOUS
<1>6. ASSUME NEW k \in 1..n, NoneAfter(U, k)
      PROVE  NoneAfter(S, k) /\ \A j \in 1..m : T[j].id # S[k].id
  <2>1. U[k] = S[k] /\ \A j \in (k + 1)..(n + m) : U[j].id # U[k].id
    BY <1>2, <1>6 DEF NoneAfter
  <2>2. \A j \in (k + 1)..n : S[j].id # S[k].id
    BY <1>2, <1>3, <2>1
  <2>3. \A j \in 1..m : T[j].id # S[k].id
    BY <1>2, <1>4, <2>1
  <2> QED
    BY <1>1, <2>2, <2>3 DEF NoneAfter
<1>7. ASSUME NEW k \in 1..m, NoneAfter(U, n + k) PROVE NoneAfter(T, k)
  <2>1. U[n + k] = T[k] /\ \A j \in ((n + k) + 1)..(n + m) : U[j].id # U[n + k].id
    BY <1>2, <1>7 DEF NoneAfter
  <2>2. \A j \in (k + 1)..m : T[j].id # T[k].id
    BY <1>2, <1>5, <2>1
  <2> QED
    BY <1>1, <2>2 DEF NoneAfter
<1>8. ASSUME NEW k \in 1..n,
             Ended(S, k) \/ (\E j \in 1..m : T[j].id = S[k].id /\ T[j].type \in Ends)
      PROVE  Ended(U, k)
  <2>1. CASE Ended(S, k)
    <3>1. PICK j \in (k + 1)..n : S[j].id = S[k].id /\ S[j].type \in Ends
      BY <1>1, <2>1 DEF Ended
    <3>2. j \in (k + 1)..Len(U) /\ U[j] = S[j] /\ U[k] = S[k]
      BY <1>2, <1>3
    <3> QED
      BY <3>1, <3>2 DEF Ended
  <2>2. CASE \E j \in 1..m : T[j].id = S[k].id /\ T[j].type \in Ends
    <3>1. PICK j \in 1..m : T[j].id = S[k].id /\ T[j].type \in Ends
      BY <2>2
    <3>2. n + j \in (k + 1)..Len(U) /\ U[n + j] = T[j] /\ U[k] = S[k]
      BY <1>2, <1>4
    <3> QED
      BY <3>1, <3>2 DEF Ended
  <2> QED
    BY <1>8, <2>1, <2>2
<1>9. ASSUME NEW k \in 1..m, Ended(T, k) PROVE Ended(U, n + k)
  <2>1. PICK j \in (k + 1)..m : T[j].id = T[k].id /\ T[j].type \in Ends
    BY <1>1, <1>9 DEF Ended
  <2>2. n + j \in ((n + k) + 1)..Len(U) /\ U[n + j] = T[j] /\ U[n + k] = T[k]
    BY <1>2, <1>5
  <2> QED
    BY <2>1, <2>2 DEF Ended
<1> QED
  BY <1>1, <1>6, <1>7, <1>8, <1>9

LEMMA TurnsTold ==
    ASSUME NEW S \in Seq(Event), NEW E \in Seq(Event), NEW b, NEW c, NEW x,
           Told(S, b, x), Turns(E, b, c, x),
           x \in DOMAIN c /\ x \notin DOMAIN b => \A k \in 1..Len(S) : S[k].id # x
    PROVE  Told(S \o E, c, x)
<1>1. PICK U : U = S \o E
  OBVIOUS
<1>2. PICK n \in Nat, m \in Nat : n = Len(S) /\ m = Len(E)
  OBVIOUS
<1>3. /\ \A k \in 1..n : U[k] = S[k]
      /\ \A k \in 1..m : U[n + k] = E[k]
      /\ \A k \in 1..Len(U) : k \in 1..n \/ \E i \in 1..m : k = n + i
  BY <1>1, <1>2, JoinedAt
<1>4. /\ \A k \in 1..n : NoneAfter(U, k) => NoneAfter(S, k) /\ \A j \in 1..m : E[j].id # S[k].id
      /\ \A k \in 1..m : NoneAfter(U, n + k) => NoneAfter(E, k)
      /\ \A k \in 1..n :
           Ended(S, k) \/ (\E j \in 1..m : E[j].id = S[k].id /\ E[j].type \in Ends) => Ended(U, k)
      /\ \A k \in 1..m : Ended(E, k) => Ended(U, n + k)
  BY <1>1, <1>2, JoinedAfter
<1>5. Told(E, c, x)
  BY DEF Turns
<1>6. ASSUME x \in DOMAIN c, NEW k \in 1..Len(U), U[k].id = x
      PROVE  SameOrder(U[k], c[x]) /\ (NoneAfter(U, k) => Shows(U[k], c[x]))
  <2>1. CASE k \in 1..n
    <3>1. S[k].id = x /\ U[k] = S[k]
      BY <1>3, <1>6, <2>1
    <3>2. x \in DOMAIN b
      BY <1>2, <1>6, <2>1, <3>1
    <3>3. SameOrder(S[k], b[x]) /\ (NoneAfter(S, k) => Shows(S[k], b[x]))
      BY <1>2, <2>1, <3>1, <3>2 DEF Told
    <3>4. c[x].side = b[x].side /\ c[x].price = b[x].price
      BY <1>6, <3>2 DEF Turns
    <3>5. SameOrder(U[k], c[x])
      BY <3>1, <3>3, <3>4 DEF SameOrder
    <3>6. ASSUME NoneAfter(U, k) PROVE Shows(U[k], c[x])
      <4>1. NoneAfter(S, k) /\ \A j \in 1..m : E[j].id # x
        BY <1>4, <2>1, <3>1, <3>6
      <4>2. c[x] = b[x]
        BY <1>2, <1>6, <4>1 DEF Turns
      <4> QED
        BY <3>1, <3>3, <4>1, <4>2
    <3> QED
      BY <3>5, <3>6
  <2>2. CASE \E i \in 1..m : k = n + i
    <3>1. PICK i \in 1..m : k = n + i
      BY <2>2
    <3>2. E[i].id = x /\ U[k] = E[i]
      BY <1>3, <1>6, <3>1
    <3>3. SameOrder(E[i], c[x]) /\ (NoneAfter(E, i) => Shows(E[i], c[x]))
      BY <1>2, <1>5, <1>6, <3>2 DEF Told
    <3> QED
      BY <1>4, <3>1, <3>2, <3>3
  <2> QED
    BY <1>3, <2>1, <2>2
<1>7. ASSUME x \notin DOMAIN c, NEW k \in 1..Len(U), U[k].id = x, Opens(U[k])
      PROVE  Ended(U, k)
  <2>1. CASE k \in 1..n
    <3>1. S[k].id = x /\ U[k] = S[k]
      BY <1>3, <1>7, <2>1
    <3>2. CASE x \in DOMAIN b
      <4>1. \E j \in 1..m : E[j].id = x /\ E[j].type \in Ends
        BY <1>2, <1>7, <3>2 DEF Turns
      <4> QED
        BY <1>4, <2>1, <3>1, <4>1
    <3>3. CASE x \notin DOMAIN b
      <4>1. Ended(S, k)
        BY <1>2, <1>7, <2>1, <3>1, <3>3 DEF Told
      <4> QED
        BY <1>4, <2>1, <4>1
    <3> QED
      BY <3>2, <3>3
  <2>2. CASE \E i \in 1..m : k = n + i
    <3>1. PICK i \in 1..m : k = n + i
      BY <2>2
    <3>2. E[i].id = x /\ U[k] = E[i]
      BY <1>3, <1>7, <3>1
    <3>3. Ended(E, i)
      BY <1>2, <1>5, <1>7, <3>2 DEF Told
    <3> QED
      BY <1>4, <3>1, <3>3
  <2> QED
    BY <1>3, <2>1, <2>2
<1> QED
  BY <1>1, <1>6, <1>7 DEF Told

TellsOf(S, b, n) == /\ \A k \in 1..Len(S) : S[k].id \in 1..n
                    /\ \A x : Told(S, b, x)

Complete(S, b) == \A x \in DOMAIN b : \E k \in 1..Len(S) : S[k].id = x /\ S[k].type = "ACCEPTED"

(* The events of a command follow the book from b, of n commands, to c.    *)
Follows(E, b, c, n) ==
    /\ E \in Seq(Event)
    /\ DOMAIN b \subseteq 1..n /\ DOMAIN c \subseteq DOMAIN b \cup {n + 1}
    /\ \A k \in 1..Len(E) : E[k].id \in 1..(n + 1)
    /\ \A x : Turns(E, b, c, x)

LEMMA SendTells ==
    ASSUME NEW n \in Nat, NEW S \in Seq(Event), NEW E, NEW b, NEW c,
           Follows(E, b, c, n), TellsOf(S, b, n)
    PROVE  TellsOf(S \o E, c, n + 1)
<1>1. E \in Seq(Event)
  BY DEF Follows
<1>2. ASSUME NEW x PROVE Told(S \o E, c, x)
  <2>1. Told(S, b, x) /\ Turns(E, b, c, x)
    BY DEF TellsOf, Follows
  <2>2. x \in DOMAIN c /\ x \notin DOMAIN b => x = n + 1
    BY DEF Follows
  <2>3. \A k \in 1..Len(S) : S[k].id # n + 1
    BY DEF TellsOf
  <2> QED
    BY <1>1, <2>1, <2>2, <2>3, TurnsTold
<1>3. ASSUME NEW k \in 1..Len(S \o E) PROVE (S \o E)[k].id \in 1..(n + 1)
  <2>1. CASE k \in 1..Len(S)
    <3>1. (S \o E)[k] = S[k]
      BY <1>1, <2>1, JoinedAt
    <3>2. S[k].id \in 1..n
      BY <2>1 DEF TellsOf
    <3> QED
      BY <3>1, <3>2
  <2>2. CASE \E i \in 1..Len(E) : k = Len(S) + i
    <3>1. PICK i \in 1..Len(E) : k = Len(S) + i
      BY <2>2
    <3>2. (S \o E)[k] = E[i]
      BY <1>1, <3>1, JoinedAt
    <3>3. E[i].id \in 1..(n + 1)
      BY DEF Follows
    <3> QED
      BY <3>2, <3>3
  <2> QED
    BY <1>1, <2>1, <2>2, JoinedAt
<1> QED
  BY <1>2, <1>3 DEF TellsOf

LEMMA AgainTells ==
    ASSUME NEW n \in Nat, NEW S \in Seq(Event), NEW T \in Seq(Event), NEW b,
           TellsOf(S, b, n), TellsOf(T, b, n)
    PROVE  TellsOf(S \o T, b, n)
<1>1. ASSUME NEW x PROVE Told(S \o T, b, x)
  <2>1. Told(S, b, x) /\ Told(T, b, x)
    BY DEF TellsOf
  <2>2. Turns(T, b, b, x)
    BY <2>1 DEF Turns
  <2> QED
    BY <2>1, <2>2, TurnsTold
<1>2. ASSUME NEW k \in 1..Len(S \o T) PROVE (S \o T)[k].id \in 1..n
  <2>1. CASE k \in 1..Len(S)
    <3>1. (S \o T)[k] = S[k]
      BY <2>1, JoinedAt
    <3> QED
      BY <2>1, <3>1 DEF TellsOf
  <2>2. CASE \E i \in 1..Len(T) : k = Len(S) + i
    <3>1. PICK i \in 1..Len(T) : k = Len(S) + i
      BY <2>2
    <3>2. (S \o T)[k] = T[i]
      BY <3>1, JoinedAt
    <3> QED
      BY <3>2 DEF TellsOf
  <2> QED
    BY <2>1, <2>2, JoinedAt
<1> QED
  BY <1>1, <1>2 DEF TellsOf

LEMMA JoinedComplete ==
    ASSUME NEW S \in Seq(Event), NEW T \in Seq(Event), NEW b, Complete(S, b)
    PROVE  Complete(S \o T, b)
<1>1. ASSUME NEW x \in DOMAIN b
      PROVE  \E k \in 1..Len(S \o T) : (S \o T)[k].id = x /\ (S \o T)[k].type = "ACCEPTED"
  <2>1. PICK k \in 1..Len(S) : S[k].id = x /\ S[k].type = "ACCEPTED"
    BY DEF Complete
  <2>2. k \in 1..Len(S \o T) /\ (S \o T)[k] = S[k]
    BY JoinedAt
  <2> QED
    BY <2>1, <2>2
<1> QED
  BY <1>1 DEF Complete

LEMMA SendComplete ==
    ASSUME NEW n \in Nat, NEW S \in Seq(Event), NEW E, NEW b, NEW c,
           Follows(E, b, c, n), Complete(S, b)
    PROVE  Complete(S \o E, c)
<1>1. E \in Seq(Event)
  BY DEF Follows
<1>2. ASSUME NEW x \in DOMAIN c
      PROVE  \E k \in 1..Len(S \o E) : (S \o E)[k].id = x /\ (S \o E)[k].type = "ACCEPTED"
  <2>1. CASE x \in DOMAIN b
    <3>1. Complete(S \o E, b)
      BY <1>1, JoinedComplete
    <3> QED
      BY <2>1, <3>1 DEF Complete
  <2>2. CASE x \notin DOMAIN b
    <3>1. Turns(E, b, c, x)
      BY DEF Follows
    <3>2. PICK i \in 1..Len(E) : E[i].id = x /\ E[i].type = "ACCEPTED"
      BY <2>2, <3>1 DEF Turns
    <3>3. Len(S) + i \in 1..Len(S \o E) /\ (S \o E)[Len(S) + i] = E[i]
      BY <1>1, JoinedAt
    <3> QED
      BY <3>2, <3>3
  <2> QED
    BY <2>1, <2>2
<1> QED
  BY <1>2 DEF Complete

LEMMA CancelFollows ==
    ASSUME ShardTypes, NEW id \in DOMAIN book
    PROVE  Follows(<<NewMatchEvent(id, "CANCELED", book[id], 0)>>, book, Without(book, id), Len(log))
<1>1. PICK n \in Nat : n = Len(log) /\ DOMAIN book \subseteq 1..n
  BY DEF ShardTypes
<1>2. PICK e : e = NewMatchEvent(id, "CANCELED", book[id], 0)
  OBVIOUS
<1>3. id \in 1..n /\ book[id] \in Resting
  BY <1>1 DEF ShardTypes
<1>4. e \in Event /\ e.id = id /\ e.type = "CANCELED"
  BY <1>2, <1>3 DEF NewMatchEvent, Event, Resting, Kinds
<1>5. PICK E : E = <<e>>
  OBVIOUS
<1>6. E \in Seq(Event) /\ Len(E) = 1 /\ E[1] = e
  BY <1>4, <1>5
<1>7. PICK c : c = Without(book, id)
  OBVIOUS
<1>8. DOMAIN c = DOMAIN book \ {id} /\ \A x \in DOMAIN c : c[x] = book[x]
  BY <1>7 DEF Without
<1>9. \A k \in 1..Len(E) : k = 1 /\ E[k].id = id /\ E[k].type = "CANCELED"
  BY <1>4, <1>6
<1>10. 1 \in 1..Len(E)
  BY <1>6
<1>11. ASSUME NEW x PROVE Turns(E, book, c, x)
  <2>1. Told(E, c, x)
    BY <1>8, <1>9 DEF Told, Opens
  <2>2. x \in DOMAIN book /\ x \notin DOMAIN c =>
          \E k \in 1..Len(E) : E[k].id = x /\ E[k].type \in Ends
    BY <1>8, <1>9, <1>10 DEF Ends
  <2> QED
    BY <1>8, <2>1, <2>2 DEF Turns
<1>12. Follows(E, book, c, n)
  <2>1. \A k \in 1..Len(E) : E[k].id \in 1..(n + 1)
    BY <1>3, <1>9
  <2> QED
    BY <1>1, <1>6, <1>8, <1>11, <2>1 DEF Follows
<1> QED
  BY <1>1, <1>2, <1>5, <1>7, <1>12

(* The events of a new order, one by one.                                  *)
PlacedAs(E, id, shape, fill, after, makers, rests) ==
    /\ E \in Seq(Event) /\ 1 \in 1..Len(E)
    /\ E[1] = NewMatchEvent(id, "ACCEPTED", shape, shape.qty)
    /\ \A k \in 1..Len(E) : k # 1 =>
         \/ \E m \in DOMAIN fill : fill[m] > 0 /\ E[k] = FillEvent(m, after)
         \/ /\ makers # <<>>
            /\ E[k] = NewMatchEvent(id, IF rests THEN "PARTIAL" ELSE "FILLED", shape, shape.qty)
    /\ \A m \in DOMAIN fill : fill[m] > 0 => \E k \in 1..Len(E) : E[k] = FillEvent(m, after)
    /\ makers # <<>> => \E k \in 2..Len(E) :
         E[k] = NewMatchEvent(id, IF rests THEN "PARTIAL" ELSE "FILLED", shape, shape.qty)

LEMMA PlacedEvents ==
    ASSUME ShardTypes, NEW shape \in Shapes, NEW fill, IsFill(fill), NEW id \in Nat, NEW rests,
           NEW makers, makers = Makers(fill), NEW after, after = BookAfter(fill),
           NEW E, E = BuildNewOrderEvents(id, shape, makers, after, rests)
    PROVE  PlacedAs(E, id, shape, fill, after, makers, rests)
<1>1. PICK a : a = NewMatchEvent(id, "ACCEPTED", shape, shape.qty)
  OBVIOUS
<1>2. PICK t : t = NewMatchEvent(id, IF rests THEN "PARTIAL" ELSE "FILLED", shape, shape.qty)
  OBVIOUS
<1>3. PICK F : F = FillEvents(makers, after)
  OBVIOUS
<1>4. PICK T : T = TakerEvents(id, shape, makers, rests)
  OBVIOUS
<1>5. PICK A : A = <<a>>
  OBVIOUS
<1>6. A \in Seq(Event) /\ F \in Seq(Event) /\ T \in Seq(Event)
  BY <1>1, <1>3, <1>4, <1>5, EventsType
<1>7. E = (A \o F) \o T
  BY <1>1, <1>3, <1>4, <1>5, NewOrderEvents
<1>8. PICK B \in Seq(Event) : B = A \o F
  BY <1>6, Concatenated
<1>9. E \in Seq(Event) /\ E = B \o T
  BY <1>6, <1>7, <1>8, Concatenated
<1>10. Len(A) = 1 /\ A[1] = a
  BY <1>5
<1>11. PICK f \in Nat : f = Len(F) /\ DOMAIN F = 1..f
  BY <1>6
<1>12. PICK q \in Nat : q = Len(T)
  BY <1>6
<1>13. /\ Len(B) = 1 + f /\ B[1] = a
       /\ \A k \in 1..f : B[1 + k] = F[k]
  <2>1. /\ Len(A \o F) = Len(A) + Len(F)
        /\ \A k \in 1..Len(A) : (A \o F)[k] = A[k]
        /\ \A k \in 1..Len(F) : (A \o F)[Len(A) + k] = F[k]
    BY <1>6, JoinedAt
  <2>2. 1 \in 1..Len(A)
    BY <1>10
  <2> QED
    BY <1>8, <1>10, <1>11, <2>1, <2>2
<1>14. /\ Len(E) = (1 + f) + q
       /\ \A k \in 1..(1 + f) : E[k] = B[k]
       /\ \A k \in 1..q : E[(1 + f) + k] = T[k]
  <2>1. /\ Len(B \o T) = Len(B) + Len(T)
        /\ \A k \in 1..Len(B) : (B \o T)[k] = B[k]
        /\ \A k \in 1..Len(T) : (B \o T)[Len(B) + k] = T[k]
    BY <1>6, <1>8, JoinedAt
  <2> QED
    BY <1>9, <1>12, <1>13, <2>1
<1>15. /\ f = Len(makers) /\ DOMAIN makers = 1..f
       /\ \A k \in 1..f : F[k] = FillEvent(makers[k], after)
  <2>1. makers \in Seq({m \in DOMAIN fill : fill[m] > 0})
    BY MakersRest
  <2>2. DOMAIN F = DOMAIN makers /\ \A k \in DOMAIN makers : F[k] = FillEvent(makers[k], after)
    BY <1>3 DEF FillEvents
  <2>3. PICK l \in Nat : l = Len(makers) /\ DOMAIN makers = 1..l
    BY <2>1
  <2>4. l = f
    BY <1>6, <1>11, <2>2, <2>3
  <2> QED
    BY <2>2, <2>3, <2>4
<1>16. \A k \in 1..f : makers[k] \in DOMAIN fill /\ fill[makers[k]] > 0
  <2>1. makers \in Seq({m \in DOMAIN fill : fill[m] > 0})
    BY MakersRest
  <2>2. \A k \in DOMAIN makers : makers[k] \in {m \in DOMAIN fill : fill[m] > 0}
    BY <2>1
  <2> QED
    BY <1>15, <2>2
<1>17. \A m \in DOMAIN fill : fill[m] > 0 => \E k \in 1..f : makers[k] = m
  <2>1. \A m \in DOMAIN fill : fill[m] > 0 => \E k \in DOMAIN Makers(fill) : Makers(fill)[k] = m
    BY MakersRest
  <2> QED
    BY <1>15, <2>1
<1>18. IF makers = <<>> THEN q = 0 ELSE q = 1 /\ T[1] = t
  BY <1>2, <1>4, <1>12 DEF TakerEvents
<1>19. 1 \in 1..(1 + f) /\ E[1] = a /\ 1 \in 1..Len(E)
  BY <1>13, <1>14
<1>20. \A k \in 1..f : 1 + k \in 1..Len(E) /\ E[1 + k] = FillEvent(makers[k], after)
  <2>1. TAKE k \in 1..f
  <2>2. 1 + k \in 1..(1 + f) /\ 1 + k \in 1..((1 + f) + q)
    OBVIOUS
  <2> QED
    BY <1>13, <1>14, <1>15, <2>2
<1>21. makers # <<>> => 2 + f \in 2..Len(E) /\ E[2 + f] = t
  <2>1. SUFFICES ASSUME makers # <<>> PROVE 2 + f \in 2..Len(E) /\ E[2 + f] = t
    OBVIOUS
  <2>2. q = 1 /\ T[1] = t /\ 1 \in 1..q /\ (1 + f) + 1 = 2 + f /\ 2 + f \in 2..((1 + f) + q)
    BY <1>18, <2>1
  <2> QED
    BY <1>14, <2>2
<1>22. \A k \in 1..Len(E) : \/ k = 1
                            \/ \E i \in 1..f : k = 1 + i
                            \/ makers # <<>> /\ k = 2 + f
  <2>1. TAKE k \in 1..Len(E)
  <2>2. k \in 1..((1 + f) + q)
    BY <1>14
  <2>3. CASE k # 1 /\ k <= 1 + f
    <3>1. k - 1 \in 1..f /\ k = 1 + (k - 1)
      BY <2>2, <2>3
    <3> QED
      BY <3>1
  <2>4. CASE ~(k <= 1 + f)
    BY <1>18, <2>2, <2>4
  <2> QED
    BY <2>3, <2>4
<1>23. ASSUME NEW k \in 1..Len(E), k # 1
       PROVE  \/ \E m \in DOMAIN fill : fill[m] > 0 /\ E[k] = FillEvent(m, after)
              \/ makers # <<>> /\ E[k] = t
  <2>1. CASE \E i \in 1..f : k = 1 + i
    <3>1. PICK i \in 1..f : k = 1 + i
      BY <2>1
    <3> QED
      BY <1>16, <1>20, <3>1
  <2>2. CASE makers # <<>> /\ k = 2 + f
    BY <1>21, <2>2
  <2> QED
    BY <1>22, <1>23, <2>1, <2>2
<1>24. ASSUME NEW m \in DOMAIN fill, fill[m] > 0
       PROVE  \E k \in 1..Len(E) : E[k] = FillEvent(m, after)
  <2>1. PICK i \in 1..f : makers[i] = m
    BY <1>17, <1>24
  <2>2. 1 + i \in 1..Len(E) /\ E[1 + i] = FillEvent(m, after)
    BY <1>20, <2>1
  <2> QED
    BY <2>2
<1> QED
  BY <1>1, <1>2, <1>9, <1>19, <1>21, <1>23, <1>24 DEF PlacedAs

(* What a new order leaves of the book.                                    *)
IsBookWith(c, shape, fill, after, left, n) ==
    /\ n + 1 \in DOMAIN c <=> (shape.kind = "LIMIT" /\ left > 0)
    /\ n + 1 \in DOMAIN c =>
         c[n + 1] = [side |-> shape.side, kind |-> shape.kind, price |-> shape.price,
                     qty |-> left, taken |-> Makers(fill) # <<>>]
    /\ \A x : x # n + 1 => (x \in DOMAIN c <=> x \in DOMAIN after)
    /\ \A x : x # n + 1 /\ x \in DOMAIN c => c[x] = after[x]

LEMMA BookWithIs ==
    ASSUME ShardTypes, NEW shape \in Shapes, NEW fill, IsFill(fill),
           NEW c, c = BookWith(shape, fill), NEW after, after = BookAfter(fill),
           NEW left \in Int, left = shape.qty - SumFunction(fill),
           NEW n \in Nat, n = Len(log)
    PROVE  IsBookWith(c, shape, fill, after, left, n)
<1>1. n + 1 \notin DOMAIN after
  <2>1. DOMAIN book \subseteq 1..n
    BY DEF ShardTypes
  <2>2. DOMAIN after \subseteq DOMAIN book
    BY AfterType
  <2> QED
    BY <2>1, <2>2
<1>2. PICK o : o = [side |-> shape.side, kind |-> shape.kind, price |-> shape.price,
                    qty |-> left, taken |-> Makers(fill) # <<>>]
  OBVIOUS
<1>3. c = IF ~(shape.kind = "LIMIT" /\ left > 0) THEN after ELSE With(after, n + 1, o)
  BY <1>2, Zenon DEF BookWith
<1>4. CASE ~(shape.kind = "LIMIT" /\ left > 0)
  BY <1>1, <1>3, <1>4 DEF IsBookWith
<1>5. CASE shape.kind = "LIMIT" /\ left > 0
  <2>1. c = With(after, n + 1, o)
    BY <1>3, <1>5
  <2>2. /\ DOMAIN c = DOMAIN after \cup {n + 1} /\ c[n + 1] = o
        /\ \A x \in DOMAIN after : x # n + 1 => c[x] = after[x]
    BY <2>1 DEF With
  <2> QED
    BY <1>2, <1>5, <2>2 DEF IsBookWith
<1> QED
  BY <1>4, <1>5

LEMMA ShapeIs ==
    ASSUME NEW shape \in Shapes
    PROVE  shape.side \in Sides /\ shape.kind \in Kinds /\ shape.price \in Nat /\ shape.qty \in Nat \ {0}
BY MarketDataAssumption DEF Sides, Kinds

(* Orders that were there before.                                          *)
LEMMA OldTurns ==
    ASSUME ShardTypes, NEW shape \in Shapes, NEW fill, IsFill(fill), NEW n \in Nat, n = Len(log),
           NEW rests, NEW E, E = BuildNewOrderEvents(n + 1, shape, Makers(fill), BookAfter(fill), rests),
           NEW c, c = BookWith(shape, fill), NEW x, x # n + 1
    PROVE  Turns(E, book, c, x)
<1>1. PICK after : after = BookAfter(fill)
  OBVIOUS
<1>2. /\ DOMAIN after = {m \in DOMAIN book : m \in DOMAIN fill => fill[m] < book[m].qty}
      /\ \A m \in DOMAIN after : after[m] = IF m \in DOMAIN fill /\ fill[m] > 0
                                     THEN [book[m] EXCEPT !.qty = @ - fill[m], !.taken = FALSE]
                                     ELSE book[m]
  BY <1>1, AfterType
<1>3. /\ x \in DOMAIN c <=> x \in DOMAIN after
      /\ x \in DOMAIN c => c[x] = after[x]
  <2>1. PICK left \in Int : left = shape.qty - SumFunction(fill)
    BY ShapeIs DEF IsFill
  <2>2. IsBookWith(c, shape, fill, after, left, n)
    BY <1>1, <2>1, BookWithIs
  <2> QED
    BY <2>2 DEF IsBookWith
<1>4. /\ E[1].id = n + 1
      /\ \A k \in 1..Len(E) : k # 1 =>
           (\E m \in DOMAIN fill : fill[m] > 0 /\ E[k] = FillEvent(m, after)) \/ E[k].id = n + 1
      /\ \A m \in DOMAIN fill : fill[m] > 0 => \E k \in 1..Len(E) : E[k] = FillEvent(m, after)
  <2>1. n + 1 \in Nat
    OBVIOUS
  <2>2. PICK makers : makers = Makers(fill)
    OBVIOUS
  <2>3. E = BuildNewOrderEvents(n + 1, shape, makers, after, rests)
    BY <1>1, <2>2
  <2>4. /\ E[1] = NewMatchEvent(n + 1, "ACCEPTED", shape, shape.qty)
        /\ \A k \in 1..Len(E) : k # 1 =>
                \/ \E m \in DOMAIN fill : fill[m] > 0 /\ E[k] = FillEvent(m, after)
                \/ /\ makers # <<>>
                   /\ E[k] = NewMatchEvent(n + 1, IF rests THEN "PARTIAL" ELSE "FILLED", shape, shape.qty)
        /\ \A m \in DOMAIN fill : fill[m] > 0 => \E k \in 1..Len(E) : E[k] = FillEvent(m, after)
    <3>1. PlacedAs(E, n + 1, shape, fill, after, makers, rests)
      BY <1>1, <2>1, <2>2, <2>3, PlacedEvents
    <3> QED
      BY <3>1 DEF PlacedAs
  <2>5. \A type : NewMatchEvent(n + 1, type, shape, shape.qty).id = n + 1
    BY DEF NewMatchEvent
  <2> QED
    BY <2>4, <2>5
<1>5. \A m : FillEvent(m, after).id = m
  BY DEF FillEvent, NewMatchEvent
<1>6. \A k \in 1..Len(E) : E[k].id = x =>
         x \in DOMAIN fill /\ fill[x] > 0 /\ E[k] = FillEvent(x, after)
  BY <1>4, <1>5
<1>7. x \in DOMAIN fill => x \in DOMAIN book /\ fill[x] \in Nat /\ fill[x] <= book[x].qty
  BY DEF IsFill
<1>8. x \in DOMAIN book => /\ book[x] \in Resting /\ book[x].qty \in Nat \ {0}
                           /\ book[x].kind = "LIMIT"
  <2>1. x \in DOMAIN book => book[x] \in Resting
    BY DEF ShardTypes
  <2> QED
    BY <2>1 DEF Resting
<1>9. CASE x \in DOMAIN c
  <2>1. x \in DOMAIN after /\ x \in DOMAIN book /\ c[x] = after[x]
    BY <1>2, <1>3, <1>9
  <2>2. CASE x \in DOMAIN fill /\ fill[x] > 0
    <3>1. PICK d \in Int : d = book[x].qty - fill[x]
      BY <1>7, <1>8, <2>2
    <3>2. c[x] = [book[x] EXCEPT !.qty = d, !.taken = FALSE]
      BY <1>2, <2>1, <2>2, <3>1
    <3>3. /\ c[x].side = book[x].side /\ c[x].price = book[x].price /\ c[x].kind = "LIMIT"
          /\ c[x].qty = d
      BY <1>8, <2>1, <3>2 DEF Resting
    <3>4. FillEvent(x, after) = NewMatchEvent(x, "PARTIAL", c[x], d)
      BY <2>1, <3>3 DEF FillEvent
    <3>5. SameOrder(FillEvent(x, after), c[x]) /\ Shows(FillEvent(x, after), c[x])
      BY <3>1, <3>3, <3>4 DEF NewMatchEvent, SameOrder, Shows, Ends
    <3>6. Told(E, c, x)
      BY <1>6, <1>9, <3>5 DEF Told
    <3>7. \E k \in 1..Len(E) : E[k].id = x
      BY <1>4, <1>5, <2>2
    <3> QED
      BY <1>9, <2>1, <3>3, <3>6, <3>7 DEF Turns
  <2>3. CASE ~(x \in DOMAIN fill /\ fill[x] > 0)
    <3>1. c[x] = book[x]
      BY <1>2, <2>1, <2>3
    <3>2. \A k \in 1..Len(E) : E[k].id # x
      BY <1>6, <2>3
    <3>3. Told(E, c, x)
      BY <1>9, <3>2 DEF Told
    <3> QED
      BY <1>9, <2>1, <3>1, <3>3 DEF Turns
  <2> QED
    BY <2>2, <2>3
<1>10. CASE x \notin DOMAIN c
  <2>1. x \notin DOMAIN after
    BY <1>3, <1>10
  <2>2. FillEvent(x, after) = NewMatchEvent(x, "FILLED", book[x], 0)
    BY <2>1 DEF FillEvent
  <2>3. Told(E, c, x)
    BY <1>6, <1>10, <2>2 DEF Told, Opens, NewMatchEvent
  <2>4. ASSUME x \in DOMAIN book
        PROVE  \E k \in 1..Len(E) : E[k].id = x /\ E[k].type \in Ends
    <3>1. x \in DOMAIN fill /\ ~(fill[x] < book[x].qty)
      BY <1>2, <2>1, <2>4
    <3>2. fill[x] > 0
      BY <1>7, <1>8, <2>4, <3>1
    <3>3. PICK k \in 1..Len(E) : E[k] = FillEvent(x, after)
      BY <1>4, <3>1, <3>2
    <3> QED
      BY <1>5, <2>2, <3>3 DEF NewMatchEvent, Ends
  <2> QED
    BY <1>10, <2>3, <2>4 DEF Turns
<1> QED
  BY <1>9, <1>10

(* The new order itself.                                                   *)
LEMMA NewTurns ==
    ASSUME ShardTypes, NEW shape \in Shapes, NEW fill, IsFill(fill), NEW n \in Nat, n = Len(log),
           NEW left \in Int, left = shape.qty - SumFunction(fill),
           NEW rests \in BOOLEAN, rests <=> (shape.kind = "LIMIT" /\ left > 0),
           NEW E, E = BuildNewOrderEvents(n + 1, shape, Makers(fill), BookAfter(fill), rests),
           NEW c, c = BookWith(shape, fill), NEW x, x = n + 1
    PROVE  Turns(E, book, c, x)
<1>1. PICK after : after = BookAfter(fill)
  OBVIOUS
<1>2. PICK makers : makers = Makers(fill)
  OBVIOUS
<1>3. PICK type : type = IF rests THEN "PARTIAL" ELSE "FILLED"
  OBVIOUS
<1>4. x \in Nat /\ x \notin DOMAIN book
  BY DEF ShardTypes
<1>5. /\ E \in Seq(Event) /\ 1 \in 1..Len(E)
      /\ E[1] = NewMatchEvent(x, "ACCEPTED", shape, shape.qty)
      /\ \A k \in 1..Len(E) : k # 1 =>
           \/ \E m \in DOMAIN fill : fill[m] > 0 /\ E[k] = FillEvent(m, after)
           \/ /\ makers # <<>>
              /\ E[k] = NewMatchEvent(x, type, shape, shape.qty)
      /\ makers # <<>> => \E k \in 2..Len(E) : E[k] = NewMatchEvent(x, type, shape, shape.qty)
  <2>1. E = BuildNewOrderEvents(x, shape, makers, after, rests)
    BY <1>1, <1>2
  <2>2. PlacedAs(E, x, shape, fill, after, makers, rests)
    BY <1>1, <1>2, <1>4, <2>1, PlacedEvents
  <2> QED
    BY <1>3, <2>2 DEF PlacedAs
<1>6. \A m : FillEvent(m, after).id = m
  BY DEF FillEvent, NewMatchEvent
<1>7. \A m \in DOMAIN fill : m # x
  BY <1>4 DEF IsFill
<1>8. \A k \in 1..Len(E) : E[k].id = x =>
         \/ k = 1
         \/ makers # <<>> /\ E[k] = NewMatchEvent(x, type, shape, shape.qty)
  BY <1>5, <1>6, <1>7
<1>9. \A ty, q : /\ NewMatchEvent(x, ty, shape, q).id = x /\ NewMatchEvent(x, ty, shape, q).type = ty
                 /\ NewMatchEvent(x, ty, shape, q).kind = shape.kind
                 /\ NewMatchEvent(x, ty, shape, q).side = shape.side
                 /\ NewMatchEvent(x, ty, shape, q).price = shape.price
                 /\ NewMatchEvent(x, ty, shape, q).remaining = q
  BY DEF NewMatchEvent
<1>10. shape.qty \in Nat \ {0} /\ SumFunction(fill) \in Nat
  BY ShapeIs DEF IsFill
<1>11. makers = <<>> => left = shape.qty
  <2>1. SUFFICES ASSUME makers = <<>> PROVE left = shape.qty
    OBVIOUS
  <2>2. \A m \in DOMAIN fill : fill[m] = 0
    <3>1. \A m \in DOMAIN fill : fill[m] > 0 => \E i \in DOMAIN makers : makers[i] = m
      BY <1>2, MakersRest
    <3>2. DOMAIN makers = {}
      BY <2>1
    <3>3. \A m \in DOMAIN fill : fill[m] \in Nat
      BY DEF IsFill
    <3> QED
      BY <3>1, <3>2, <3>3
  <2>3. IsFiniteSet(DOMAIN fill)
    BY BookFinite DEF IsFill
  <2>4. SumFunction(fill) = 0
    BY <2>2, <2>3, SumZero DEF SumFunction
  <2> QED
    BY <1>10, <2>4
<1>12. /\ x \in DOMAIN c <=> rests
       /\ x \in DOMAIN c =>
             c[x] = [side |-> shape.side, kind |-> shape.kind, price |-> shape.price,
                     qty |-> left, taken |-> makers # <<>>]
  <2>1. IsBookWith(c, shape, fill, after, left, n)
    BY <1>1, BookWithIs
  <2> QED
    BY <1>2, <2>1 DEF IsBookWith
<1>13. CASE rests
  <2>1. x \in DOMAIN c /\ type = "PARTIAL" /\ shape.kind = "LIMIT"
    BY <1>3, <1>12, <1>13
  <2>2. /\ c[x].side = shape.side /\ c[x].price = shape.price /\ c[x].qty = left
        /\ c[x].taken <=> makers # <<>>
    <3>1. PICK taken \in BOOLEAN : taken <=> makers # <<>>
      OBVIOUS
    <3>2. c[x] = [side |-> shape.side, kind |-> shape.kind, price |-> shape.price,
                  qty |-> left, taken |-> taken]
      BY <1>12, <2>1, <3>1
    <3> QED
      BY <3>1, <3>2
  <2>3. left <= shape.qty
    BY <1>10
  <2>4. ASSUME NEW k \in 1..Len(E), E[k].id = x
        PROVE  SameOrder(E[k], c[x]) /\ Shows(E[k], c[x])
    <3>1. /\ E[k].kind = "LIMIT" /\ E[k].side = shape.side /\ E[k].price = shape.price
          /\ E[k].remaining = shape.qty /\ E[k].type \in {"ACCEPTED", "PARTIAL"}
      <4>1. CASE E[k] = NewMatchEvent(x, "ACCEPTED", shape, shape.qty)
        BY <1>9, <2>1, <4>1
      <4>2. CASE E[k] = NewMatchEvent(x, "PARTIAL", shape, shape.qty)
        BY <1>9, <2>1, <4>2
      <4> QED
        BY <1>5, <1>8, <2>1, <2>4, <4>1, <4>2
    <3>2. ~c[x].taken => left = shape.qty
      BY <1>11, <2>2
    <3> QED
      BY <2>2, <2>3, <3>1, <3>2, <1>10 DEF SameOrder, Shows, Ends
  <2>5. Told(E, c, x)
    BY <2>1, <2>4 DEF Told
  <2>6. E[1].id = x /\ E[1].type = "ACCEPTED"
    BY <1>5, <1>9
  <2> QED
    BY <1>4, <1>5, <2>1, <2>5, <2>6 DEF Turns
<1>14. CASE ~rests
  <2>1. x \notin DOMAIN c /\ type = "FILLED"
    BY <1>3, <1>12, <1>14
  <2>2. ASSUME NEW k \in 1..Len(E), E[k].id = x, Opens(E[k]) PROVE Ended(E, k)
    <3>1. k = 1
      BY <1>8, <1>9, <2>1, <2>2 DEF Opens
    <3>2. shape.kind = "LIMIT"
      BY <1>5, <1>9, <2>2, <3>1, ShapeIs DEF Opens, Kinds
    <3>3. makers # <<>>
      BY <1>10, <1>11, <1>14, <3>2
    <3>4. PICK j \in 2..Len(E) : E[j] = NewMatchEvent(x, type, shape, shape.qty)
      BY <1>5, <3>3
    <3>5. j \in (k + 1)..Len(E)
      BY <3>1
    <3> QED
      BY <1>9, <2>1, <2>2, <3>4, <3>5 DEF Ended, Ends
  <2>3. Told(E, c, x)
    BY <2>1, <2>2 DEF Told
  <2> QED
    BY <1>4, <2>1, <2>3 DEF Turns
<1> QED
  BY <1>13, <1>14

LEMMA PlaceFollows ==
    ASSUME ShardTypes, NEW shape \in Shapes, NEW fill, IsFill(fill), NEW time
    PROVE  Follows(OrderPlaced(shape, fill, time).events, book, BookWith(shape, fill), Len(log))
<1>1. PICK n \in Nat : n = Len(log) /\ DOMAIN book \subseteq 1..n
  BY DEF ShardTypes
<1>2. PICK left \in Int : left = shape.qty - SumFunction(fill)
  BY ShapeIs DEF IsFill
<1>3. PICK rests \in BOOLEAN : rests = (shape.kind = "LIMIT" /\ left > 0)
  OBVIOUS
<1>4. PICK E : E = BuildNewOrderEvents(n + 1, shape, Makers(fill), BookAfter(fill), rests)
  OBVIOUS
<1>5. OrderPlaced(shape, fill, time).events = E
  BY <1>1, <1>2, <1>3, <1>4 DEF OrderPlaced
<1>6. PICK c : c = BookWith(shape, fill)
  OBVIOUS
<1>7. ASSUME NEW x PROVE Turns(E, book, c, x)
  <2>1. CASE x = n + 1
    BY <1>1, <1>2, <1>3, <1>4, <1>6, <2>1, NewTurns
  <2>2. CASE x # n + 1
    BY <1>1, <1>4, <1>6, <2>2, OldTurns
  <2> QED
    BY <2>1, <2>2
<1>8. DOMAIN c \subseteq DOMAIN book \cup {n + 1}
  <2>1. PICK after : after = BookAfter(fill)
    OBVIOUS
  <2>2. \A x : x # n + 1 => (x \in DOMAIN c <=> x \in DOMAIN after)
    <3>1. IsBookWith(c, shape, fill, after, left, n)
      BY <1>1, <1>2, <1>6, <2>1, BookWithIs
    <3> QED
      BY <3>1 DEF IsBookWith
  <2>3. DOMAIN after \subseteq DOMAIN book
    BY <2>1, AfterType
  <2> QED
    BY <2>2, <2>3
<1>9. E \in Seq(Event) /\ \A k \in 1..Len(E) : E[k].id \in 1..(n + 1)
  <2>1. PICK after : after = BookAfter(fill)
    OBVIOUS
  <2>2. PICK makers : makers = Makers(fill)
    OBVIOUS
  <2>3. n + 1 \in Nat /\ E = BuildNewOrderEvents(n + 1, shape, makers, after, rests)
    BY <1>4, <2>1, <2>2
  <2>4. /\ E \in Seq(Event)
        /\ E[1] = NewMatchEvent(n + 1, "ACCEPTED", shape, shape.qty)
        /\ \A k \in 1..Len(E) : k # 1 =>
                \/ \E m \in DOMAIN fill : fill[m] > 0 /\ E[k] = FillEvent(m, after)
                \/ /\ makers # <<>>
                   /\ E[k] = NewMatchEvent(n + 1, IF rests THEN "PARTIAL" ELSE "FILLED", shape, shape.qty)
    <3>1. PlacedAs(E, n + 1, shape, fill, after, makers, rests)
      BY <2>1, <2>2, <2>3, PlacedEvents
    <3> QED
      BY <3>1 DEF PlacedAs
  <2>5. \A type : NewMatchEvent(n + 1, type, shape, shape.qty).id = n + 1
    BY DEF NewMatchEvent
  <2>6. \A m : FillEvent(m, after).id = m
    BY DEF FillEvent, NewMatchEvent
  <2>7. \A m \in DOMAIN fill : m \in 1..(n + 1)
    BY <1>1 DEF IsFill
  <2>8. ASSUME NEW k \in 1..Len(E) PROVE E[k].id = n + 1 \/ E[k].id \in DOMAIN fill
    BY <2>4, <2>5, <2>6
  <2> QED
    BY <2>4, <2>7, <2>8
<1> QED
  BY <1>1, <1>5, <1>6, <1>7, <1>8, <1>9 DEF Follows

(* What the commands up to now have sent grows by what the next one sends. *)
LEMMA FromGrows ==
    ASSUME NEW l \in Seq(Command), NEW cmd \in Command, NEW k \in 1..(Len(l) + 1)
    PROVE  /\ EventsFrom(l, k) \in Seq(Event)
           /\ EventsFrom(Append(l, cmd), k) = EventsFrom(l, k) \o cmd.events
<1>1. PICK n \in Nat : n = Len(l)
  OBVIOUS
<1>2. PICK m \in Seq(Command) : m = Append(l, cmd)
  <2>1. Append(l, cmd) \in Seq(Command)
    OBVIOUS
  <2> QED
    BY <2>1
<1>3. Len(m) = n + 1 /\ m[n + 1] = cmd /\ \A i \in 1..n : m[i] = l[i]
  BY <1>1, <1>2
<1>4. PICK r \in Seq(Command) : r = SubSeq(l, k, n)
  <2>1. \A i \in k..n : l[i] \in Command
    BY <1>1
  <2>2. k \in Int /\ n \in Int
    OBVIOUS
  <2> QED
    BY <2>1, <2>2, SubSeqProperties
<1>5. Len(r) = (n - k) + 1 /\ \A i \in 1..((n - k) + 1) : r[i] = l[(k + i) - 1]
  <2>1. \A i \in k..n : l[i] \in Command
    BY <1>1
  <2>2. k \in Int /\ n \in Int /\ k <= n + 1
    BY <1>1
  <2>3. /\ Len(SubSeq(l, k, n)) = IF k <= n THEN (n - k) + 1 ELSE 0
        /\ \A i \in 1..((n - k) + 1) : SubSeq(l, k, n)[i] = l[(k + i) - 1]
    BY <2>1, <2>2, SubSeqProperties
  <2> QED
    BY <1>4, <2>2, <2>3
<1>6. PICK q \in Seq(Command) : q = SubSeq(m, k, n + 1)
  <2>1. \A i \in k..(n + 1) : m[i] \in Command
    BY <1>1, <1>3
  <2>2. k \in Int /\ n + 1 \in Int
    OBVIOUS
  <2> QED
    BY <2>1, <2>2, SubSeqProperties
<1>7. Len(q) = (n - k) + 2 /\ \A i \in 1..((n - k) + 2) : q[i] = m[(k + i) - 1]
  <2>1. \A i \in k..(n + 1) : m[i] \in Command
    BY <1>1, <1>3
  <2>2. k \in Int /\ n + 1 \in Int /\ k <= n + 1
    BY <1>1
  <2>3. /\ Len(SubSeq(m, k, n + 1)) = IF k <= n + 1 THEN ((n + 1) - k) + 1 ELSE 0
        /\ \A i \in 1..(((n + 1) - k) + 1) : SubSeq(m, k, n + 1)[i] = m[(k + i) - 1]
    BY <2>1, <2>2, SubSeqProperties
  <2>4. ((n + 1) - k) + 1 = (n - k) + 2
    OBVIOUS
  <2> QED
    BY <1>6, <2>2, <2>3, <2>4
<1>8. PICK d \in Nat : d = (n - k) + 1
  <2>1. k \in Int /\ k <= n + 1
    BY <1>1
  <2>2. (n - k) + 1 \in Nat
    BY <2>1
  <2> QED
    BY <2>2
<1>9. PICK e \in Seq(Seq(Event)) : e = [j \in DOMAIN r |-> r[j].events]
  <2>1. DOMAIN r = 1..d
    BY <1>5, <1>8
  <2>2. \A j \in 1..d : r[j] \in Command
    BY <2>1
  <2>3. \A j \in 1..d : r[j].events \in Seq(Event)
    BY <2>2 DEF Command
  <2>4. [j \in 1..d |-> r[j].events] \in Seq(Seq(Event))
    BY <2>3
  <2> QED
    BY <2>1, <2>4
<1>10. PICK f : f = [j \in DOMAIN q |-> q[j].events]
  OBVIOUS
<1>11. cmd.events \in Seq(Event)
  BY DEF Command
<1>12. f = Append(e, cmd.events)
  <2>1. DOMAIN q = 1..(d + 1) /\ DOMAIN r = 1..d /\ (n - k) + 2 = d + 1
    BY <1>5, <1>7, <1>8
  <2>2. ASSUME NEW j \in 1..d PROVE q[j] = r[j]
    <3>1. q[j] = m[(k + j) - 1] /\ r[j] = l[(k + j) - 1]
      BY <1>5, <1>7, <1>8, <2>1
    <3>2. (k + j) - 1 \in 1..n
      BY <1>1, <1>8
    <3> QED
      BY <1>3, <3>1, <3>2
  <2>3. q[d + 1] = cmd
    <3>1. d + 1 \in 1..((n - k) + 2) /\ (k + (d + 1)) - 1 = n + 1
      BY <1>1, <1>8
    <3>2. q[d + 1] = m[(k + (d + 1)) - 1]
      BY <1>7, <3>1
    <3> QED
      BY <1>3, <3>1, <3>2
  <2>4. PICK g \in Seq(Seq(Event)) : g = Append(e, cmd.events)
    <3>1. Append(e, cmd.events) \in Seq(Seq(Event))
      BY <1>11
    <3> QED
      BY <3>1
  <2>5. Len(e) = d /\ \A j \in 1..d : e[j] = r[j].events
    BY <1>9, <2>1
  <2>6. DOMAIN g = 1..(d + 1) /\ g[d + 1] = cmd.events /\ \A j \in 1..d : g[j] = e[j]
    BY <1>11, <2>4, <2>5
  <2>7. \A j \in 1..(d + 1) : g[j] = q[j].events
    <3>1. TAKE j \in 1..(d + 1)
    <3>2. CASE j \in 1..d
      BY <2>2, <2>5, <2>6, <3>2
    <3>3. CASE j = d + 1
      BY <2>3, <2>6, <3>3
    <3> QED
      BY <3>2, <3>3
  <2>8. g = [j \in 1..(d + 1) |-> g[j]]
    BY <2>6
  <2> QED
    BY <1>10, <2>1, <2>4, <2>7, <2>8
<1>13. FlattenSeq(f) = FlattenSeq(e) \o cmd.events
  BY <1>11, <1>12, FlatAppend
<1>14. EventsFrom(l, k) = FlattenSeq(e)
  BY <1>1, <1>4, <1>9 DEF EventsFrom
<1>15. EventsFrom(m, k) = FlattenSeq(f)
  BY <1>3, <1>6, <1>10 DEF EventsFrom
<1> QED
  BY <1>2, <1>13, <1>14, <1>15, FlatSeq

LEMMA NothingFrom ==
    ASSUME NEW l \in Seq(Command)
    PROVE  EventsFrom(l, Len(l) + 1) = <<>>
<1>1. PICK n \in Nat : n = Len(l)
  OBVIOUS
<1>2. SubSeq(l, n + 1, n) = <<>>
  BY SubSeqEmpty
<1>3. [j \in DOMAIN <<>> |-> SubSeq(l, n + 1, n)[j].events] = <<>>
  OBVIOUS
<1>4. FlattenSeq(<<>>) = <<>>
  BY DEF FlattenSeq
<1> QED
  BY <1>1, <1>2, <1>3, <1>4 DEF EventsFrom

ToldInv ==
    /\ TellsOf(matchTopic, book, Len(log)) /\ Complete(matchTopic, book)
    /\ \A k \in 1..(Len(log) + 1) : TellsOf(EventsFrom(log, k), book, Len(log))

LEMMA NothingTells ==
    ASSUME NEW b, NEW n
    PROVE  TellsOf(<<>>, b, n)
<1>1. PICK S : S = <<>>
  OBVIOUS
<1>2. Len(S) = 0 /\ \A k \in 1..Len(S) : FALSE
  BY <1>1
<1> QED
  BY <1>1, <1>2 DEF TellsOf, Told

LEMMA CommandTold ==
    ASSUME ShardTypes, ToldInv, NEW cmd \in Command, NEW c,
           Follows(cmd.events, book, c, Len(log)), Send(cmd), book' = c
    PROVE  ToldInv'
<1>1. PICK n \in Nat : n = Len(log)
  BY DEF ShardTypes
<1>2. log \in Seq(Command) /\ matchTopic \in Seq(Event) /\ log' = Append(log, cmd)
      /\ matchTopic' = matchTopic \o cmd.events
  BY DEF ShardTypes, Send
<1>3. Len(log') = n + 1
  BY <1>1, <1>2
<1>4. cmd.events \in Seq(Event)
  BY DEF Command
<1>5. TellsOf(matchTopic \o cmd.events, c, n + 1)
  <2>1. TellsOf(matchTopic, book, n)
    BY <1>1 DEF ToldInv
  <2>2. Follows(cmd.events, book, c, n)
    BY <1>1
  <2> QED
    BY <1>2, <2>1, <2>2, SendTells
<1>6. Complete(matchTopic \o cmd.events, c)
  <2>1. Complete(matchTopic, book)
    BY DEF ToldInv
  <2>2. Follows(cmd.events, book, c, n)
    BY <1>1
  <2> QED
    BY <1>2, <2>1, <2>2, SendComplete
<1>7. ASSUME NEW k \in 1..(n + 1) PROVE TellsOf(EventsFrom(log', k), c, n + 1)
  <2>1. PICK S : S = EventsFrom(log, k)
    OBVIOUS
  <2>2. S \in Seq(Event) /\ EventsFrom(log', k) = S \o cmd.events
    BY <1>1, <1>2, <2>1, FromGrows
  <2>3. TellsOf(S, book, n) /\ Follows(cmd.events, book, c, n)
    BY <1>1, <2>1 DEF ToldInv
  <2> QED
    BY <2>2, <2>3, SendTells
<1>8. TellsOf(EventsFrom(log', (n + 1) + 1), c, n + 1)
  <2>1. log' \in Seq(Command)
    BY <1>2
  <2>2. EventsFrom(log', (n + 1) + 1) = <<>>
    BY <1>3, <2>1, NothingFrom
  <2> QED
    BY <2>2, NothingTells
<1>9. \A k \in 1..((n + 1) + 1) : TellsOf(EventsFrom(log', k), c, n + 1)
  <2>1. \A k \in 1..((n + 1) + 1) : k \in 1..(n + 1) \/ k = (n + 1) + 1
    OBVIOUS
  <2> QED
    BY <1>7, <1>8, <2>1
<1> QED
  BY <1>2, <1>3, <1>5, <1>6, <1>9 DEF ToldInv

LEMMA ToldKept ==
    ASSUME ShardTypes, ToldInv, [Next]_vars
    PROVE  ToldInv'
<1>1. CASE Place
  <2>1. PICK shape \in Shapes, step \in Nat : \E fill :
             /\ IsFill(fill)
             /\ book' = BookWith(shape, fill)
             /\ Send(OrderPlaced(shape, fill, now + step))
    BY <1>1, PlaceSends
  <2>2. PICK fill : /\ IsFill(fill)
                    /\ book' = BookWith(shape, fill)
                    /\ Send(OrderPlaced(shape, fill, now + step))
    BY <2>1
  <2>3. PICK time \in Nat : time = now + step
    BY DEF ShardTypes
  <2>4. PICK cmd \in Command : cmd = OrderPlaced(shape, fill, time)
    BY <2>2, PlacedType
  <2>5. Follows(cmd.events, book, BookWith(shape, fill), Len(log))
    BY <2>2, <2>4, PlaceFollows
  <2>6. Send(cmd)
    BY <2>2, <2>3, <2>4
  <2> QED
    BY <2>2, <2>5, <2>6, CommandTold
<1>2. CASE Cancel
  <2>1. PICK id \in DOMAIN book :
         /\ book' = Without(book, id)
         /\ Send([events |-> <<NewMatchEvent(id, "CANCELED", book[id], 0)>>, trades |-> <<>>])
    BY <1>2, Zenon DEF Cancel
  <2>2. PICK E : E = <<NewMatchEvent(id, "CANCELED", book[id], 0)>>
    OBVIOUS
  <2>3. Follows(E, book, Without(book, id), Len(log))
    BY <2>2, CancelFollows
  <2>4. E \in Seq(Event) /\ <<>> \in Seq(Tick)
    <3>1. <<>> \in Seq(Tick)
      OBVIOUS
    <3> QED
      BY <2>3, <3>1 DEF Follows
  <2>5. PICK cmd \in Command : cmd = [events |-> E, trades |-> <<>>]
    BY <2>4 DEF Command
  <2>6. Send(cmd) /\ cmd.events = E
    BY <2>1, <2>2, <2>5
  <2> QED
    BY <2>1, <2>3, <2>6, CommandTold
<1>3. CASE RelayRetry
  <2>1. PICK k \in DOMAIN log : matchTopic' = matchTopic \o EventsFrom(log, k)
    BY <1>3, RetrySends
  <2>2. k \in 1..Len(log) /\ log \in Seq(Command) /\ Len(log) \in Nat
    BY DEF ShardTypes
  <2>3. PICK T \in Seq(Event) : T = EventsFrom(log, k)
    BY <2>2, FromType
  <2>4. matchTopic \in Seq(Event)
    BY DEF ShardTypes
  <2>5. TellsOf(matchTopic \o T, book, Len(log))
    <3>1. TellsOf(matchTopic, book, Len(log)) /\ TellsOf(T, book, Len(log))
      BY <2>2, <2>3 DEF ToldInv
    <3> QED
      BY <2>2, <2>4, <3>1, AgainTells
  <2>6. Complete(matchTopic \o T, book)
    BY <2>4, JoinedComplete DEF ToldInv
  <2>7. book' = book /\ log' = log
    BY <1>3, Zenon DEF RelayRetry, shard
  <2> QED
    BY <2>1, <2>3, <2>5, <2>6, <2>7 DEF ToldInv
<1>4. CASE UNCHANGED <<shard, topics>>
  BY <1>4 DEF ToldInv, shard, topics
<1>5. Consume => UNCHANGED <<shard, topics>>
  BY Zenon DEF Consume, ConsumeMatch, ConsumeTrade
<1>6. PublishDepth \/ TickerAllTick => UNCHANGED <<shard, topics>>
  BY Zenon DEF PublishDepth, TickerAllTick
<1>7. WSSnapshotFromRedisREST => UNCHANGED <<shard, topics>>
  BY Zenon DEF WSSnapshotFromRedisREST
<1>8. Restart \/ UNCHANGED vars => UNCHANGED <<shard, topics>>
  BY DEF Restart, vars, shard, topics
<1> QED
  BY <1>1, <1>2, <1>3, <1>4, <1>5, <1>6, <1>7, <1>8 DEF Next

-----------------------------------------------------------------------------
(* A mirror that reflects all events shows the book.                       *)

MirrorInv ==
    /\ matchPos \in 0..Len(matchTopic) /\ restarts \in Nat
    /\ restarts = 0 =>
         /\ IsMirror(mirror)
         /\ \E n \in {matchPos, matchPos + 1} :
              n <= Len(matchTopic) /\ Reflects(mirror.orders, matchTopic, n)

Agrees(orders, b) ==
    /\ DOMAIN orders = DOMAIN b
    /\ \A id \in DOMAIN b :
         /\ orders[id].side = b[id].side /\ orders[id].price = b[id].price
         /\ ~b[id].taken => orders[id].remaining = b[id].qty
         /\ orders[id].remaining >= b[id].qty

LEMMA ReflectionAgrees ==
    ASSUME NEW S \in Seq(Event), NEW b, NEW n, TellsOf(S, b, n), Complete(S, b),
           NEW orders, Reflects(orders, S, Len(S))
    PROVE  Agrees(orders, b)
<1>1. PICK l \in Nat : l = Len(S)
  OBVIOUS
<1>2. Reflects(orders, S, l)
  BY <1>1
<1>3. \A x : Told(S, b, x)
  BY DEF TellsOf
<1>4. ASSUME NEW x \in DOMAIN b PROVE x \in DOMAIN orders
  <2>1. PICK k \in 1..l : S[k].id = x /\ S[k].type = "ACCEPTED"
    BY <1>1 DEF Complete
  <2>2. \A j \in 1..l : S[j].id = x => SameOrder(S[j], b[x])
    BY <1>1, <1>3 DEF Told
  <2>3. Opens(S[k])
    BY <2>1, <2>2 DEF SameOrder, Opens
  <2>4. \A j \in (k + 1)..l : S[j].id = x => S[j].type \notin Ends
    <3>1. \A j \in (k + 1)..l : j \in 1..l
      OBVIOUS
    <3> QED
      BY <2>2, <3>1 DEF SameOrder
  <2>5. OpenAfter(S, l, x)
    BY <2>1, <2>3, <2>4 DEF OpenAfter
  <2> QED
    BY <1>2, <2>5 DEF Reflects
<1>5. ASSUME NEW x \in DOMAIN orders PROVE x \in DOMAIN b
  <2>1. SUFFICES ASSUME x \notin DOMAIN b PROVE FALSE
    OBVIOUS
  <2>2. OpenAfter(S, l, x)
    BY <1>2 DEF Reflects
  <2>3. PICK k \in 1..l : /\ S[k].id = x /\ Opens(S[k])
                          /\ \A j \in (k + 1)..l : S[j].id = x => S[j].type \notin Ends
    BY <2>2 DEF OpenAfter
  <2>4. Ended(S, k)
    BY <1>1, <1>3, <2>1, <2>3 DEF Told
  <2> QED
    BY <1>1, <2>3, <2>4 DEF Ended
<1>6. ASSUME NEW x \in DOMAIN b
      PROVE  /\ orders[x].side = b[x].side /\ orders[x].price = b[x].price
             /\ ~b[x].taken => orders[x].remaining = b[x].qty
             /\ orders[x].remaining >= b[x].qty
  <2>1. x \in DOMAIN orders
    BY <1>4
  <2>2. \A j \in 1..l : S[j].id = x =>
           SameOrder(S[j], b[x]) /\ (NoneAfter(S, j) => Shows(S[j], b[x]))
    BY <1>1, <1>3 DEF Told
  <2>3. PICK k \in 1..l :
           S[k].id = x /\ orders[x].side = S[k].side /\ orders[x].price = S[k].price
    BY <1>2, <2>1 DEF Reflects
  <2>4. orders[x].side = b[x].side /\ orders[x].price = b[x].price
    BY <2>2, <2>3 DEF SameOrder
  <2>5. PICK i \in 1..l :
           S[i].id = x /\ orders[x].remaining = S[i].remaining /\ LastOf(S, l, i)
    BY <1>2, <2>1 DEF Reflects
  <2>6. NoneAfter(S, i)
    <3>1. ASSUME NEW j \in (i + 1)..l, S[j].id = S[i].id PROVE FALSE
      <4>1. j \in 1..l /\ S[j].id = x
        BY <2>5, <3>1
      <4>2. ~Heeded(S[j])
        BY <2>5, <3>1 DEF LastOf
      <4> QED
        BY <2>2, <4>1, <4>2 DEF SameOrder, Heeded
    <3> QED
      BY <1>1, <3>1 DEF NoneAfter
  <2>7. Shows(S[i], b[x])
    BY <2>2, <2>5, <2>6
  <2> QED
    BY <2>4, <2>5, <2>7 DEF Shows
<1> QED
  BY <1>4, <1>5, <1>6 DEF Agrees

(* A level is what the orders at its price have left.                      *)
LEMMA TotalIsSum ==
    ASSUME NEW orders, IsOrders(orders), NEW s, NEW p
    PROVE  Total(orders, s, p) =
             SumFunction([id \in {id \in DOMAIN orders : orders[id].side = s /\ orders[id].price = p}
                            |-> orders[id].remaining])
<1>1. PICK D : D = DOMAIN orders
  OBVIOUS
<1>2. PICK A : A = {id \in D : orders[id].side = s /\ orders[id].price = p}
  OBVIOUS
<1>3. PICK W : W = [id \in D |-> Weight(orders[id], s, p)]
  OBVIOUS
<1>4. PICK f : f = [id \in A |-> orders[id].remaining]
  OBVIOUS
<1>5. IsFiniteSet(D) /\ \A id \in D : orders[id] \in Shown
  BY <1>1 DEF IsOrders
<1>6. IsFiniteSet(A) /\ IsFiniteSet(D \ A) /\ A \cap (D \ A) = {} /\ A \cup (D \ A) = D
  <2>1. A \subseteq D /\ D \ A \subseteq D
    BY <1>2
  <2> QED
    BY <1>5, <2>1, FS_Subset
<1>7. \A id \in D : W[id] \in Int /\ W[id] = IF id \in A THEN orders[id].remaining ELSE 0
  <2>1. \A id \in D : orders[id].remaining \in Nat
    BY <1>5 DEF Shown
  <2>2. \A id \in D : W[id] = Weight(orders[id], s, p)
    BY <1>3
  <2> QED
    BY <1>2, <2>1, <2>2 DEF Weight
<1>8. PICK B : B = D \ A
  OBVIOUS
<1>9. SumFunctionOnSet(W, A \cup B) = SumFunctionOnSet(W, A) + SumFunctionOnSet(W, B)
  <2>1. \A id \in A \cup B : W[id] \in Int
    BY <1>6, <1>7, <1>8
  <2> QED
    BY <1>6, <1>8, <2>1, SumSplit
<1>10. SumFunctionOnSet(W, B) = 0
  <2>1. \A id \in B : W[id] = 0
    BY <1>7, <1>8
  <2> QED
    BY <1>6, <1>8, <2>1, SumZero
<1>11. SumFunctionOnSet(W, A) = SumFunctionOnSet(f, A) /\ SumFunctionOnSet(W, A) \in Int
  <2>1. \A id \in A : W[id] = f[id]
    BY <1>2, <1>4, <1>7
  <2>2. \A id \in A : W[id] \in Int
    BY <1>2, <1>7
  <2> QED
    BY <1>6, <2>1, <2>2, SumSame, SumTakes
<1>12. Total(orders, s, p) = SumFunctionOnSet(W, D)
  BY <1>1, <1>3 DEF Total
<1>13. SumFunction(f) = SumFunctionOnSet(f, A)
  BY <1>4 DEF SumFunction
<1>14. SumFunctionOnSet(W, D) = SumFunctionOnSet(f, A)
  BY <1>6, <1>8, <1>9, <1>10, <1>11
<1> QED
  BY <1>1, <1>2, <1>4, <1>12, <1>13, <1>14

(* The prices with something left are those of the orders.                 *)
LEMMA PricesWithOrders ==
    ASSUME NEW orders, IsOrders(orders), NEW s, NEW p,
           \A id \in DOMAIN orders : orders[id].remaining > 0
    PROVE  Total(orders, s, p) > 0 <=>
              \E id \in DOMAIN orders : orders[id].side = s /\ orders[id].price = p
<1>1. ASSUME NEW id \in DOMAIN orders, orders[id].side = s, orders[id].price = p
      PROVE  Total(orders, s, p) > 0
  <2>1. PICK rest : rest = Without(orders, id)
    OBVIOUS
  <2>2. IsOrders(rest) /\ Total(orders, s, p) = Weight(orders[id], s, p) + Total(rest, s, p)
    BY <2>1, TotalTakes
  <2>3. Total(rest, s, p) \in Nat
    BY <2>2, TotalNat
  <2>4. orders[id].remaining \in Nat /\ orders[id].remaining > 0
    BY DEF IsOrders, Shown
  <2>5. Weight(orders[id], s, p) = orders[id].remaining
    BY <1>1 DEF Weight
  <2> QED
    BY <2>2, <2>3, <2>4, <2>5
<1>2. ASSUME \A id \in DOMAIN orders : ~(orders[id].side = s /\ orders[id].price = p)
      PROVE  Total(orders, s, p) = 0
  <2>1. PICK W : W = [id \in DOMAIN orders |-> Weight(orders[id], s, p)]
    OBVIOUS
  <2>2. \A id \in DOMAIN orders : W[id] = 0
    BY <1>2, <2>1 DEF Weight
  <2>3. SumFunctionOnSet(W, DOMAIN orders) = 0
    BY <2>2, SumZero DEF IsOrders
  <2> QED
    BY <2>1, <2>3 DEF Total
<1> QED
  BY <1>1, <1>2

(* Of the asks the lowest price is answered.                               *)
LEMMA BestOfAsks ==
    ASSUME NEW asks, NEW P \in SUBSET Nat, P # {}, IsFiniteSet(P),
           P = {p \in DOMAIN asks : asks[p] > 0}, NEW best, best = Min(P)
    PROVE  /\ DOMAIN SnapshotLevels(asks, "SELL", 1) = {best}
           /\ {p \in DOMAIN asks : asks[p] > 0 /\ \A q \in DOMAIN asks : asks[q] > 0 => p <= q} = {best}
<1>1. best \in P /\ \A q \in P : best <= q
  BY MinOfNaturals
<1> DEFINE better(p) == {q \in P : q < p}
<1>2. \A p \in P : Cardinality(better(p)) < 1 <=> p = best
  <2>1. TAKE p \in P
  <2>2. IsFiniteSet(better(p))
    <3>1. better(p) \subseteq P
      OBVIOUS
    <3> QED
      BY <3>1, FS_Subset
  <2>3. Cardinality(better(p)) \in Nat /\ (Cardinality(better(p)) = 0 <=> better(p) = {})
    BY <2>2, FS_CardinalityType, FS_EmptySet
  <2>4. better(p) = {} <=> p = best
    <3>1. p \in Nat /\ best \in Nat
      BY <1>1
    <3>2. ASSUME p = best PROVE better(p) = {}
      <4>1. \A q \in P : ~(q < p)
        BY <1>1, <3>1, <3>2
      <4> QED
        BY <4>1
    <3>3. ASSUME p # best PROVE best \in better(p)
      <4>1. best < p
        BY <1>1, <3>1, <3>3
      <4> QED
        BY <1>1, <4>1
    <3> QED
      BY <3>2, <3>3
  <2>5. PICK c \in Nat : c = Cardinality(better(p))
    BY <2>3
  <2> QED
    BY <2>3, <2>4, <2>5
<1>3. SnapshotLevels(asks, "SELL", 1) = Restrict(asks, {p \in P : Cardinality(better(p)) < 1})
  BY DEF SnapshotLevels
<1>4. {p \in P : Cardinality(better(p)) < 1} = {best}
  <2> HIDE DEF better
  <2> QED
    BY <1>1, <1>2
<1>5. DOMAIN SnapshotLevels(asks, "SELL", 1) = {best}
  BY <1>3, <1>4 DEF Restrict
<1>6. {p \in DOMAIN asks : asks[p] > 0 /\ \A q \in DOMAIN asks : asks[q] > 0 => p <= q} = {best}
  <2>1. \A p : p \in P <=> p \in DOMAIN asks /\ asks[p] > 0
    OBVIOUS
  <2>2. \A p \in P : (\A q \in P : p <= q) <=> p = best
    <3>1. TAKE p \in P
    <3>2. p \in Nat /\ best \in Nat
      BY <1>1
    <3> QED
      BY <1>1, <3>2
  <2> HIDE DEF better
  <2> QED
    BY <1>1, <2>1, <2>2
<1> QED
  BY <1>5, <1>6

LEMMA OneAsked == SnapshotOrderBook(1).sides["SELL"] = SnapshotLevels(mirror.levels["SELL"], "SELL", 1)
<1>1. Min({1, 100}) = 1
  <2>1. {1, 100} \in SUBSET Nat /\ {1, 100} # {}
    OBVIOUS
  <2>2. PICK m : m = Min({1, 100})
    OBVIOUS
  <2>3. m \in {1, 100} /\ m <= 1
    BY <2>1, <2>2, MinOfNaturals
  <2> QED
    BY <2>2, <2>3
<1>2. SnapshotOrderBook(1) =
        [id |-> mirror.id,
         sides |-> [s \in Sides |-> SnapshotLevels(mirror.levels[s], s, 1)]]
  BY <1>1 DEF SnapshotOrderBook
<1> QED
  BY <1>2 DEF Sides

LEMMA MirrorShown ==
    ASSUME ShardTypes, ToldInv, MirrorInv
    PROVE  MirrorAgrees
<1>1. SUFFICES ASSUME CaughtUp PROVE MirrorAgrees
  BY DEF MirrorAgrees
<1>2. matchTopic \in Seq(Event) /\ matchPos = Len(matchTopic) /\ restarts = 0
  BY <1>1 DEF CaughtUp, ShardTypes
<1>3. PICK orders, levels : orders = mirror.orders /\ levels = mirror.levels
  OBVIOUS
<1>4. LevelsAddUp(orders, levels) /\ (DOMAIN orders # {} => mirror.known)
  BY <1>2, <1>3 DEF MirrorInv, IsMirror
<1>5. Reflects(orders, matchTopic, Len(matchTopic))
  <2>1. PICK n \in {matchPos, matchPos + 1} : n <= Len(matchTopic) /\ Reflects(orders, matchTopic, n)
    BY <1>2, <1>3 DEF MirrorInv
  <2>2. Len(matchTopic) \in Nat
    BY <1>2
  <2>3. n = Len(matchTopic)
    BY <1>2, <2>1, <2>2
  <2> QED
    BY <2>1, <2>3
<1>6. Agrees(orders, book)
  BY <1>2, <1>5, ReflectionAgrees DEF ToldInv
<1>7. IsOrders(orders) /\ IsLevelMap(levels)
  BY <1>4 DEF LevelsAddUp
<1>8. ASSUME NEW s \in Sides, NEW p \in DOMAIN levels[s]
      PROVE  levels[s][p] = SumFunction([id \in
                 {id \in DOMAIN orders : orders[id].side = s /\ orders[id].price = p} |->
                     orders[id].remaining])
  <2>1. p \in Nat
    BY <1>7 DEF IsLevelMap
  <2>2. levels[s][p] = Total(orders, s, p)
    BY <1>4, <2>1 DEF LevelsAddUp, Level
  <2> QED
    BY <1>7, <2>2, TotalIsSum
<1>9. ASSUME NEW A, A = {id \in DOMAIN book : book[id].side = "SELL"}, A # {},
             NEW best, best = Min({book[id].price : id \in A})
      PROVE  /\ DOMAIN GetOrderBook(1).sides["SELL"] = {best}
             /\ GetReferencePrice("UNSPECIFIED") = [price |-> best, kind |-> "BEST_ASK"]
  <2>1. PICK asks : asks = levels["SELL"]
    OBVIOUS
  <2>2. PICK P : P = {book[id].price : id \in A}
    OBVIOUS
  <2>3. \A id \in DOMAIN book : book[id] \in Resting
    BY DEF ShardTypes
  <2>4. P \in SUBSET Nat /\ P # {} /\ IsFiniteSet(P)
    <3>1. P \subseteq Nat
      BY <1>9, <2>2, <2>3 DEF Resting
    <3>2. P # {}
      BY <1>9, <2>2
    <3>3. IsFiniteSet(A)
      BY <1>9, BookFinite
    <3>4. PICK f : f = [id \in A |-> book[id].price]
      OBVIOUS
    <3>5. IsFiniteSet({f[id] : id \in A})
      BY <3>3, FiniteImage
    <3>6. {f[id] : id \in A} = P
      BY <2>2, <3>4
    <3> QED
      BY <3>1, <3>2, <3>5, <3>6
  <2>5. \A id \in DOMAIN orders : orders[id].remaining > 0
    <3>1. TAKE id \in DOMAIN orders
    <3>2. id \in DOMAIN book /\ orders[id].remaining >= book[id].qty
      BY <1>6 DEF Agrees
    <3>3. book[id].qty \in Nat /\ book[id].qty > 0
      BY <2>3, <3>2 DEF Resting
    <3>4. orders[id].remaining \in Nat
      BY <1>7 DEF IsOrders, Shown
    <3> QED
      BY <3>2, <3>3, <3>4
  <2>6. ASSUME NEW p \in Nat
        PROVE  p \in P <=> \E id \in DOMAIN orders : orders[id].side = "SELL" /\ orders[id].price = p
    BY <1>6, <1>9, <2>2 DEF Agrees
  <2>7. ASSUME NEW p \in Nat PROVE p \in P <=> Level(levels, "SELL", p) > 0
    <3>1. "SELL" \in Sides
      BY DEF Sides
    <3>2. Level(levels, "SELL", p) = Total(orders, "SELL", p)
      BY <1>4, <3>1 DEF LevelsAddUp
    <3>3. Total(orders, "SELL", p) > 0 <=>
             \E id \in DOMAIN orders : orders[id].side = "SELL" /\ orders[id].price = p
      BY <1>7, <2>5, PricesWithOrders
    <3> QED
      BY <2>6, <3>2, <3>3
  <2>8. P = {p \in DOMAIN asks : asks[p] > 0}
    <3>1. \A p \in DOMAIN asks : p \in Nat
      BY <1>7, <2>1 DEF IsLevelMap, Sides
    <3>2. \A p \in P : p \in DOMAIN asks /\ asks[p] > 0
      <4>1. TAKE p \in P
      <4>2. Level(levels, "SELL", p) > 0
        BY <2>4, <2>7
      <4>3. ~(0 > 0)
        OBVIOUS
      <4> QED
        BY <2>1, <4>2, <4>3 DEF Level
    <3>3. \A p \in DOMAIN asks : asks[p] > 0 => p \in P
      <4>1. TAKE p \in DOMAIN asks
      <4>2. Level(levels, "SELL", p) = asks[p]
        BY <2>1 DEF Level
      <4> QED
        BY <2>7, <3>1, <4>2
    <3> QED
      BY <3>2, <3>3
  <2>9. best = Min(P)
    BY <1>9, <2>2
  <2>10. /\ DOMAIN SnapshotLevels(asks, "SELL", 1) = {best}
         /\ {p \in DOMAIN asks : asks[p] > 0 /\ \A q \in DOMAIN asks : asks[q] > 0 => p <= q} = {best}
    BY <2>4, <2>8, <2>9, BestOfAsks
  <2>11. mirror.known
    <3>1. DOMAIN orders = DOMAIN book /\ A \subseteq DOMAIN book
      BY <1>6, <1>9 DEF Agrees
    <3> QED
      BY <1>4, <1>9, <3>1
  <2>12. GetOrderBook(1) = SnapshotOrderBook(1)
    BY <2>11 DEF GetOrderBook
  <2>13. SnapshotOrderBook(1).sides["SELL"] = SnapshotLevels(asks, "SELL", 1)
    BY <1>3, <2>1, OneAsked
  <2>14. BestAsk = {best}
    BY <1>3, <2>1, <2>10 DEF BestAsk
  <2>15. Min({best}) = best
    <3>1. {best} \in SUBSET Nat /\ {best} # {}
      BY <2>4, <2>9, MinOfNaturals
    <3>2. Min({best}) \in {best}
      BY <3>1, MinOfNaturals
    <3> QED
      BY <3>2
  <2>16. GetReferencePrice("UNSPECIFIED") = ReferencePrice("BEST_ASK")
    BY DEF GetReferencePrice, ReferenceKind
  <2>17. ReferencePrice("BEST_ASK") = [price |-> Min({best}), kind |-> "BEST_ASK"]
    <3>1. BestAsk # {}
      BY <2>14
    <3> QED
      BY <2>14, <3>1 DEF ReferencePrice
  <2> QED
    BY <2>10, <2>12, <2>13, <2>15, <2>16, <2>17
<1>10. /\ DOMAIN mirror.orders = DOMAIN book
       /\ \A id \in DOMAIN book :
             /\ mirror.orders[id].side = book[id].side /\ mirror.orders[id].price = book[id].price
             /\ ~book[id].taken => mirror.orders[id].remaining = book[id].qty
             /\ mirror.orders[id].remaining >= book[id].qty
  BY <1>3, <1>6 DEF Agrees
<1>11. \A s \in Sides : \A p \in DOMAIN mirror.levels[s] :
             mirror.levels[s][p] = SumFunction([id \in
                 {id \in DOMAIN mirror.orders : mirror.orders[id].side = s
                                                /\ mirror.orders[id].price = p} |->
                                                     mirror.orders[id].remaining])
  BY <1>3, <1>8
<1>12. LET asks == {id \in DOMAIN book : book[id].side = "SELL"}
       IN  asks # {} =>
             LET best == Min({book[id].price : id \in asks})
             IN  /\ DOMAIN GetOrderBook(1).sides["SELL"] = {best}
                 /\ GetReferencePrice("UNSPECIFIED") = [price |-> best, kind |-> "BEST_ASK"]
  BY <1>9
<1> QED
  BY <1>10, <1>11, <1>12, Zenon DEF MirrorAgrees

LEMMA ReflectsSame ==
    ASSUME NEW S, NEW U, NEW n \in Nat, NEW orders, Reflects(orders, S, n),
           \A k \in 1..n : U[k] = S[k]
    PROVE  Reflects(orders, U, n)
<1>1. \A k \in 1..n : \A j \in (k + 1)..n : j \in 1..n
  OBVIOUS
<1>2. ASSUME NEW x PROVE OpenAfter(S, n, x) <=> OpenAfter(U, n, x)
  BY <1>1 DEF OpenAfter
<1>3. ASSUME NEW k \in 1..n PROVE LastOf(S, n, k) <=> LastOf(U, n, k)
  BY <1>1 DEF LastOf
<1>4. \A x : x \in DOMAIN orders <=> OpenAfter(U, n, x)
  BY <1>2 DEF Reflects
<1>5. \A x \in DOMAIN orders : \E k \in 1..n :
         U[k].id = x /\ orders[x].remaining = U[k].remaining /\ LastOf(U, n, k)
  BY <1>3 DEF Reflects
<1>6. \A x \in DOMAIN orders : \E k \in 1..n :
         U[k].id = x /\ orders[x].side = U[k].side /\ orders[x].price = U[k].price
  BY DEF Reflects
<1> QED
  BY <1>4, <1>5, <1>6 DEF Reflects

LEMMA MirrorFed ==
    ASSUME ShardTypes, MirrorInv, NEW T \in Seq(Event), matchTopic' = matchTopic \o T,
           UNCHANGED <<matchSide, restarts>>
    PROVE  MirrorInv'
<1>1. matchTopic \in Seq(Event)
  BY DEF ShardTypes
<1>2. PICK U : U = matchTopic \o T
  OBVIOUS
<1>3. PICK l \in Nat, u \in Nat : l = Len(matchTopic) /\ u = Len(U)
  BY <1>1, <1>2, Concatenated
<1>4. l <= u /\ \A k \in 1..l : U[k] = matchTopic[k]
  BY <1>1, <1>2, <1>3, JoinedAt
<1>5. matchPos \in 0..l /\ restarts \in Nat
  BY <1>3 DEF MirrorInv
<1>6. matchPos \in 0..u
  BY <1>3, <1>4, <1>5
<1>7. ASSUME restarts = 0
      PROVE  /\ IsMirror(mirror)
             /\ \E n \in {matchPos, matchPos + 1} : n <= u /\ Reflects(mirror.orders, U, n)
  <2>1. IsMirror(mirror)
    BY <1>7 DEF MirrorInv
  <2>2. PICK n \in {matchPos, matchPos + 1} : n <= l /\ Reflects(mirror.orders, matchTopic, n)
    BY <1>3, <1>7 DEF MirrorInv
  <2>3. n \in Nat /\ n <= u /\ \A k \in 1..n : U[k] = matchTopic[k]
    BY <1>4, <1>5, <2>2
  <2>4. Reflects(mirror.orders, U, n)
    BY <2>2, <2>3, ReflectsSame
  <2> QED
    BY <2>1, <2>2, <2>3, <2>4
<1>8. matchTopic' = U /\ matchPos' = matchPos /\ mirror' = mirror /\ restarts' = restarts
  BY <1>2 DEF matchSide
<1> QED
  BY <1>3, <1>5, <1>6, <1>7, <1>8 DEF MirrorInv

LEMMA MirrorConsumed ==
    ASSUME ShardTypes, MirrorInv, ConsumeMatch
    PROVE  MirrorInv'
<1>1. /\ matchPos < Len(matchTopic)
      /\ mirror' = ApplyMatchEvent(mirror, matchTopic[matchPos + 1])
      /\ matchPos' \in {matchPos, matchPos + 1}
      /\ UNCHANGED <<shard, topics, restarts>>
  BY Zenon DEF ConsumeMatch
<1>2. PICK S \in Seq(Event) : S = matchTopic /\ S = matchTopic'
  BY <1>1 DEF ShardTypes, topics
<1>3. PICK l \in Nat : l = Len(S)
  OBVIOUS
<1>4. PICK j \in 1..l : j = matchPos + 1 /\ matchPos \in Nat
  <2>1. matchPos \in 0..l /\ matchPos < l
    BY <1>1, <1>2, <1>3 DEF MirrorInv
  <2>2. matchPos + 1 \in 1..l /\ matchPos \in Nat
    BY <2>1
  <2> QED
    BY <2>2
<1>5. matchPos' \in 0..l /\ restarts' \in Nat /\ restarts' = restarts
  <2>1. restarts \in Nat /\ restarts' = restarts
    BY <1>1 DEF MirrorInv
  <2>2. matchPos' = matchPos \/ matchPos' = j
    BY <1>1, <1>4
  <2>3. matchPos \in 0..l /\ j \in 0..l
    BY <1>4
  <2> QED
    BY <2>1, <2>2, <2>3
<1>6. ASSUME restarts = 0
      PROVE  IsMirror(mirror') /\ Reflects(mirror'.orders, S, j)
  <2>1. PICK m : m = mirror
    OBVIOUS
  <2>2. PICK n \in {matchPos, matchPos + 1} : n <= l /\ Reflects(m.orders, S, n)
    BY <1>2, <1>3, <1>6, <2>1 DEF MirrorInv
  <2>3. n \in Nat /\ j \in {n, n + 1} /\ j \in 1..Len(S)
    BY <1>3, <1>4, <2>2
  <2>4. IsMirror(m)
    BY <1>6, <2>1 DEF MirrorInv
  <2>5. /\ IsMirror(ApplyMatchEvent(m, S[j]))
        /\ Reflects(ApplyMatchEvent(m, S[j]).orders, S, j)
    BY <2>2, <2>3, <2>4, EventReflected
  <2>6. mirror' = ApplyMatchEvent(m, S[j])
    BY <1>1, <1>2, <1>4, <2>1
  <2> QED
    BY <2>5, <2>6
<1>7. j \in {matchPos', matchPos' + 1} /\ j <= l
  <2>1. CASE matchPos' = matchPos
    <3>1. matchPos' + 1 = j
      BY <1>4, <2>1
    <3> QED
      BY <3>1
  <2>2. CASE matchPos' = matchPos + 1
    BY <1>4, <2>2
  <2> QED
    BY <1>1, <2>1, <2>2
<1> QED
  BY <1>2, <1>3, <1>5, <1>6, <1>7 DEF MirrorInv

LEMMA MirrorKept ==
    ASSUME ShardTypes, MirrorInv, [Next]_vars
    PROVE  MirrorInv'
<1>1. CASE Place
  <2>1. PICK shape \in Shapes, step \in Nat : \E fill :
             /\ IsFill(fill)
             /\ Send(OrderPlaced(shape, fill, now + step))
             /\ UNCHANGED <<matchSide, restarts>>
    BY <1>1, PlaceSends
  <2>2. PICK fill : /\ IsFill(fill)
                    /\ Send(OrderPlaced(shape, fill, now + step))
                    /\ UNCHANGED <<matchSide, restarts>>
    BY <2>1
  <2>3. PICK time \in Nat : time = now + step
    BY DEF ShardTypes
  <2>4. OrderPlaced(shape, fill, time).events \in Seq(Event)
    BY <2>2, PlacedType DEF Command
  <2>5. PICK T \in Seq(Event) : T = OrderPlaced(shape, fill, time).events
    BY <2>4
  <2>6. matchTopic' = matchTopic \o T
    BY <2>2, <2>3, <2>5 DEF Send
  <2> QED
    BY <2>2, <2>6, MirrorFed
<1>2. CASE Cancel
  <2>1. PICK id \in DOMAIN book :
         /\ Send([events |-> <<NewMatchEvent(id, "CANCELED", book[id], 0)>>, trades |-> <<>>])
         /\ UNCHANGED <<matchSide, restarts>>
    BY <1>2, Zenon DEF Cancel
  <2>2. PICK T : T = <<NewMatchEvent(id, "CANCELED", book[id], 0)>>
    OBVIOUS
  <2>3. T \in Seq(Event)
    BY <2>2, CancelFollows DEF Follows
  <2>4. matchTopic' = matchTopic \o T
    BY <2>1, <2>2 DEF Send
  <2> QED
    BY <2>1, <2>3, <2>4, MirrorFed
<1>3. CASE RelayRetry
  <2>1. PICK k \in DOMAIN log : matchTopic' = matchTopic \o EventsFrom(log, k)
    BY <1>3, RetrySends
  <2>2. k \in 1..Len(log) /\ log \in Seq(Command)
    BY DEF ShardTypes
  <2>3. PICK T \in Seq(Event) : T = EventsFrom(log, k)
    BY <2>2, FromType
  <2>4. UNCHANGED <<matchSide, restarts>>
    BY <1>3, Zenon DEF RelayRetry
  <2> QED
    BY <2>1, <2>3, <2>4, MirrorFed
<1>4. CASE ConsumeMatch
  BY <1>4, MirrorConsumed
<1>5. CASE Restart
  <2>1. restarts' = restarts + 1 /\ UNCHANGED <<topics, matchPos>>
    BY <1>5, Zenon DEF Restart
  <2>2. restarts' \in Nat /\ restarts' # 0
    BY <2>1 DEF MirrorInv
  <2> QED
    BY <2>1, <2>2 DEF MirrorInv, topics
<1>6. CASE UNCHANGED <<topics, matchSide, restarts>>
  BY <1>6 DEF MirrorInv, topics, matchSide
<1>7. ConsumeTrade => UNCHANGED <<topics, matchSide, restarts>>
  BY Zenon DEF ConsumeTrade
<1>8. PublishDepth \/ TickerAllTick => UNCHANGED <<topics, matchSide, restarts>>
  BY Zenon DEF PublishDepth, TickerAllTick
<1>9. WSSnapshotFromRedisREST => UNCHANGED <<topics, matchSide, restarts>>
  BY Zenon DEF WSSnapshotFromRedisREST
<1>10. UNCHANGED vars => UNCHANGED <<topics, matchSide, restarts>>
  BY DEF vars, topics, matchSide
<1> QED
  BY <1>1, <1>2, <1>3, <1>4, <1>5, <1>6, <1>7, <1>8, <1>9, <1>10 DEF Next, Consume

LEMMA MirrorStarts ==
    ASSUME Init
    PROVE  ToldInv /\ MirrorInv
<1>1. matchTopic = <<>> /\ log = <<>> /\ book = Empty /\ Len(log) = 0
  BY DEF Init
<1>2. ToldInv
  <2>1. TellsOf(matchTopic, book, Len(log))
    BY <1>1, NothingTells
  <2>2. Complete(matchTopic, book)
    BY <1>1 DEF Complete, Empty
  <2>3. ASSUME NEW k \in 1..(Len(log) + 1) PROVE TellsOf(EventsFrom(log, k), book, Len(log))
    <3>1. PICK l \in Seq(Command) : l = log
      <4>1. <<>> \in Seq(Command)
        OBVIOUS
      <4> QED
        BY <1>1, <4>1
    <3>2. k = Len(l) + 1
      BY <1>1, <3>1
    <3>3. EventsFrom(l, k) = <<>>
      BY <3>2, NothingFrom
    <3> QED
      BY <3>1, <3>3, NothingTells
  <2> QED
    BY <2>1, <2>2, <2>3 DEF ToldInv
<1>3. MirrorInv
  <2>1. mirror = NoMirror /\ matchPos = 0 /\ restarts = 0
    BY DEF Init
  <2>2. IsMirror(NoMirror)
    <3>1. PICK none : none = Empty
      OBVIOUS
    <3>2. DOMAIN none = {} /\ none \in [DOMAIN none -> Shown]
      BY <3>1 DEF Empty
    <3>3. IsOrders(none)
      BY <3>2, FS_EmptySet DEF IsOrders
    <3>4. PICK levels : levels = [s \in Sides |-> none]
      OBVIOUS
    <3>5. IsLevelMap(levels) /\ \A s \in Sides : \A p : Level(levels, s, p) = 0
      BY <3>2, <3>4 DEF IsLevelMap, Level
    <3>6. ASSUME NEW s, NEW p PROVE Total(none, s, p) = 0
      <4>1. PICK W : W = [id \in DOMAIN none |-> Weight(none[id], s, p)]
        OBVIOUS
      <4>2. \A id \in DOMAIN none : W[id] = 0
        BY <3>2
      <4>3. SumFunctionOnSet(W, DOMAIN none) = 0
        BY <3>3, <4>2, SumZero DEF IsOrders
      <4> QED
        BY <4>1, <4>3 DEF Total
    <3>7. LevelsAddUp(none, levels)
      BY <3>3, <3>5, <3>6 DEF LevelsAddUp
    <3>8. NoMirror = [known |-> FALSE, orders |-> none, levels |-> levels, id |-> 0]
      BY <3>1, <3>4 DEF NoMirror
    <3> QED
      BY <3>2, <3>7, <3>8 DEF IsMirror
  <2>3. Reflects(NoMirror.orders, <<>>, 0)
    BY DEF Reflects, OpenAfter, NoMirror, Empty
  <2>4. Len(matchTopic) = 0
    BY <1>1
  <2>5. 0 \in {matchPos, matchPos + 1} /\ 0 <= Len(matchTopic) /\ matchPos \in 0..Len(matchTopic)
    BY <2>1, <2>4
  <2> QED
    BY <1>1, <2>1, <2>2, <2>3, <2>5 DEF MirrorInv
<1> QED
  BY <1>2, <1>3

(* Once all events are read the mirror is the book of the shard, whatever  *)
(* was sent or read twice (MatchHandler, OrderBookState), for any orders   *)
(* and any number of commands, retries and failed commits.                 *)
THEOREM MirrorIsTheBook == Spec => []MirrorAgrees
<1>1. Init => ShardTypes /\ ToldInv /\ MirrorInv
  <2>1. Init => ShardTypes
    BY DEF Init, ShardTypes, Empty
  <2> QED
    BY <2>1, MirrorStarts
<1>2. ShardTypes /\ ToldInv /\ MirrorInv /\ [Next]_vars => ShardTypes' /\ ToldInv' /\ MirrorInv'
  BY ShardTypesKept, ToldKept, MirrorKept
<1>3. ShardTypes /\ ToldInv /\ MirrorInv => MirrorAgrees
  BY MirrorShown
<1> QED
  BY <1>1, <1>2, <1>3, PTL DEF Spec

-----------------------------------------------------------------------------
(* The push service: connection limits.                                    *)

LimitInv ==
    /\ state \in [Conns -> {"out", "checked", "in", "closed"}]
    /\ ConnectionLimit

LEMMA MaxOfTwo ==
    ASSUME NEW a \in Nat, NEW b \in Nat
    PROVE  /\ Max({a, b}) \in Nat
           /\ Max({a, b}) >= a /\ Max({a, b}) >= b
BY DEF Max

LEMMA ClientsFinite ==
    ASSUME NEW S, S \subseteq Conns
    PROVE  IsFiniteSet(S) /\ Cardinality(S) \in Nat
<1>1. IsFiniteSet(S)
  BY PushAssumption, FS_Subset
<1> QED BY <1>1, FS_CardinalityType

(* Fewer clients never break a limit.                                      *)
LEMMA FewerClients ==
    ASSUME NEW S, NEW T, S \subseteq T, T \subseteq Conns,
           Cardinality(T) <= Max({RetailMax, MarketMakerMax}),
           Cardinality(T \ MarketMakers) <= RetailMax
    PROVE  /\ Cardinality(S) <= Max({RetailMax, MarketMakerMax})
           /\ Cardinality(S \ MarketMakers) <= RetailMax
<1>1. Cardinality(S) <= Cardinality(T)
  BY ClientsFinite, FS_Subset
<1>2. Cardinality(S \ MarketMakers) <= Cardinality(T \ MarketMakers)
  <2>1. S \ MarketMakers \subseteq T \ MarketMakers /\ T \ MarketMakers \subseteq Conns
    OBVIOUS
  <2> QED BY <2>1, ClientsFinite, FS_Subset
<1>3. /\ Cardinality(S) \in Nat /\ Cardinality(T) \in Nat
      /\ Cardinality(S \ MarketMakers) \in Nat /\ Cardinality(T \ MarketMakers) \in Nat
  <2>1. S \subseteq Conns /\ S \ MarketMakers \subseteq Conns /\ T \ MarketMakers \subseteq Conns
    OBVIOUS
  <2> QED BY <2>1, ClientsFinite
<1>4. Max({RetailMax, MarketMakerMax}) \in Nat
  BY PushAssumption, MaxOfTwo
<1> QED BY <1>1, <1>2, <1>3, <1>4, PushAssumption

(* One more client is let in where HasRoom says so.                        *)
LEMMA OneMoreClient ==
    ASSUME NEW c \in Conns, NEW S, S \subseteq Conns, c \notin S,
           Cardinality(S) < MaxConnections(c),
           Cardinality(S) <= Max({RetailMax, MarketMakerMax}),
           Cardinality(S \ MarketMakers) <= RetailMax
    PROVE  /\ Cardinality(S \union {c}) <= Max({RetailMax, MarketMakerMax})
           /\ Cardinality((S \union {c}) \ MarketMakers) <= RetailMax
<1>1. IsFiniteSet(S) /\ Cardinality(S) \in Nat
  BY ClientsFinite
<1>2. Cardinality(S \union {c}) = Cardinality(S) + 1
  BY <1>1, FS_AddElement
<1>3. /\ Max({RetailMax, MarketMakerMax}) \in Nat
      /\ MaxConnections(c) <= Max({RetailMax, MarketMakerMax})
      /\ MaxConnections(c) \in Nat
  BY PushAssumption, MaxOfTwo DEF MaxConnections
<1>4. Cardinality(S \union {c}) <= Max({RetailMax, MarketMakerMax})
  BY <1>1, <1>2, <1>3
<1>5. CASE c \in MarketMakers
  <2>1. (S \union {c}) \ MarketMakers = S \ MarketMakers
    BY <1>5
  <2> QED BY <1>4, <2>1
<1>6. CASE c \notin MarketMakers
  <2>1. (S \union {c}) \ MarketMakers \subseteq S \union {c}
    OBVIOUS
  <2>2. S \union {c} \subseteq Conns /\ (S \union {c}) \ MarketMakers \subseteq Conns
    OBVIOUS
  <2>3. IsFiniteSet(S \union {c})
    BY <2>2, ClientsFinite
  <2>4. Cardinality((S \union {c}) \ MarketMakers) <= Cardinality(S \union {c})
    BY <2>1, <2>3, FS_Subset
  <2>5. Cardinality((S \union {c}) \ MarketMakers) \in Nat
    BY <2>2, ClientsFinite
  <2>6. Cardinality(S) < RetailMax
    BY <1>6 DEF MaxConnections
  <2> QED BY <1>1, <1>2, <1>4, <2>4, <2>5, <2>6, PushAssumption
<1> QED BY <1>5, <1>6

LEMMA InitLimit == PushInit => LimitInv
<1> SUFFICES ASSUME PushInit PROVE LimitInv
  OBVIOUS
<1>1. state \in [Conns -> {"out", "checked", "in", "closed"}]
  BY DEF PushInit
<1>2. Clients = {} /\ Clients \ MarketMakers = {}
  BY DEF PushInit, Clients
<1>3. Cardinality({}) = 0
  BY FS_EmptySet
<1> QED BY <1>1, <1>2, <1>3, PushAssumption, MaxOfTwo DEF LimitInv, ConnectionLimit

LEMMA NextLimit == LimitInv /\ [PushNext]_pushVars => LimitInv'
<1> SUFFICES ASSUME LimitInv, [PushNext]_pushVars PROVE LimitInv'
  OBVIOUS
<1>1. Clients \subseteq Conns
  BY DEF Clients
<1>2. ASSUME UNCHANGED state PROVE LimitInv'
  BY <1>2 DEF LimitInv, ConnectionLimit, Clients
<1>3. ASSUME NEW S, S = Clients', S \subseteq Clients,
             state' \in [Conns -> {"out", "checked", "in", "closed"}]
      PROVE  LimitInv'
  BY <1>1, <1>3, FewerClients DEF LimitInv, ConnectionLimit
<1>4. ASSUME NEW c \in Conns, CanRegister(c) PROVE LimitInv'
  <2>1. /\ state' \in [Conns -> {"out", "checked", "in", "closed"}]
        /\ Clients' \subseteq Clients
    BY <1>4 DEF LimitInv, CanRegister, Clients
  <2> QED BY <1>3, <2>1
<1>5. ASSUME NEW c \in Conns, Register(c) PROVE LimitInv'
  <2>1. state' \in [Conns -> {"out", "checked", "in", "closed"}]
    BY <1>5 DEF LimitInv, Register
  <2>2. CASE HasRoom(c)
    <3>1. Clients' = Clients \union {c} /\ c \notin Clients
      BY <1>5, <2>2 DEF LimitInv, Register, Clients
    <3>2. Cardinality(Clients) < MaxConnections(c)
      BY <2>2 DEF HasRoom
    <3> QED BY <1>1, <2>1, <3>1, <3>2, OneMoreClient DEF LimitInv, ConnectionLimit
  <2>3. CASE ~HasRoom(c)
    <3>1. Clients' \subseteq Clients
      BY <1>5, <2>3 DEF LimitInv, Register, Clients
    <3> QED BY <1>3, <2>1, <3>1
  <2> QED BY <2>2, <2>3
<1>6. ASSUME NEW c \in Conns, RemoveClient(c) PROVE LimitInv'
  <2>1. /\ state' \in [Conns -> {"out", "checked", "in", "closed"}]
        /\ Clients' \subseteq Clients
    BY <1>6 DEF LimitInv, RemoveClient, Clients
  <2> QED BY <1>3, <2>1
<1>7. ASSUME NEW c \in Conns,
             Subscribe(c) \/ SetSubscribed(c) \/ GetSnapshot(c) \/ WriteSnapshot(c)
             \/ Unsubscribe(c) \/ WritePump(c)
      PROVE  UNCHANGED state
  BY <1>7, Zenon DEF Subscribe, SetSubscribed, GetSnapshot, WriteSnapshot, Unsubscribe, WritePump
<1>8. ASSUME NEW ch \in Channels, SetKey(ch) \/ Publish(ch) PROVE UNCHANGED state
  BY <1>8 DEF SetKey, Publish
<1>9. ASSUME Broadcast \/ UNCHANGED pushVars PROVE UNCHANGED state
  BY <1>9 DEF Broadcast, pushVars
<1>10. ASSUME FanoutStops PROVE LimitInv'
  <2>1. /\ state' \in [Conns -> {"out", "checked", "in", "closed"}]
        /\ Clients' \subseteq Clients
    BY <1>10 DEF FanoutStops, Clients
  <2> QED BY <1>3, <2>1
<1> QED BY <1>2, <1>4, <1>5, <1>6, <1>7, <1>8, <1>9, <1>10 DEF PushNext, RedisFanout

(* No interleaving of handshakes takes a subject over its connection       *)
(* limit, though HandleWS checks it long before it registers.              *)
THEOREM LimitsHold == PushSpec => []ConnectionLimit
<1>1. LimitInv => ConnectionLimit
  BY DEF LimitInv
<1> QED BY <1>1, InitLimit, NextLimit, PTL DEF PushSpec

-----------------------------------------------------------------------------
(* No frame is missed.                                                     *)

Frame == [ch : Channels, v : Nat]

(* A request under way.                                                    *)
Subscribing == [pc : {"set", "get", "write"}, todo : Seq(Channels), snaps : Seq(Frame)]

(* The channels of the request whose key is still to be read, and the      *)
(* snapshots that were read and not written yet.                           *)
Requested(c) == IF req[c].pc \in {"set", "get"} THEN Range(req[c].todo) ELSE {}
Unwritten(c) == IF req[c].pc = "idle" THEN {} ELSE Range(req[c].snaps)

(* Where a connection is: only a client of the hub subscribes, and it is   *)
(* subscribed to every channel whose key it reads.                         *)
Placed(c) ==
    /\ state[c] \in {"out", "checked"} => subs[c] = {}
    /\ req[c] # Idle => state[c] = "in"
    /\ req[c].pc \in {"set", "get"} => req[c].todo # <<>>
    /\ req[c].pc = "get" => Head(req[c].todo) \in subs[c]
    /\ \A s \in Unwritten(c) : s.ch \in subs[c]

PushTypes ==
    /\ state \in [Conns -> {"out", "checked", "in", "closed"}]
    /\ subs \in [Conns -> SUBSET Channels]
    /\ req \in [Conns -> {Idle} \cup Subscribing]
    /\ send \in [Conns -> Seq(Frame)]
    /\ key \in [Channels -> Nat]
    /\ sending \in [Channels -> BOOLEAN]
    /\ redis \in Seq(Frame)
    /\ base \in [Conns -> [Channels -> Nat]]
    /\ got \in [Conns -> [Channels -> SUBSET Nat]]
    /\ \A c \in Conns : Placed(c)

(* Version v of the channel has reached the client or is on its way, unless *)
(* its publication failed or goes where the fan-out does not listen.       *)
Covers(c, ch, v) ==
    \/ ~Matched(ch)
    \/ [ch |-> ch, v |-> v] \in lost
    \/ sending[ch] /\ v = key[ch]
    \/ v \in got[c][ch]
    \/ [ch |-> ch, v |-> v] \in Range(send[c])
    \/ [ch |-> ch, v |-> v] \in Range(redis)

Reached(c, ch, b) == \A v \in (b + 1)..key[ch] : Covers(c, ch, v)

(* After each snapshot that waits to be written, and after the last one    *)
(* that was, unless another will be read or could not be.                  *)
NoGapFor(c, ch) ==
    /\ \A s \in Unwritten(c) : s.ch = ch => Reached(c, ch, s.v)
    /\ (ch \notin Requested(c) /\ <<c, ch>> \notin unread /\ \A s \in Unwritten(c) : s.ch # ch)
           => Reached(c, ch, base[c][ch])

NoGap == \A c \in Clients \ dropped : \A ch \in subs[c] : NoGapFor(c, ch)

(* The elements of a sequence that grows or loses its head.                *)
LEMMA RangeAppend ==
    ASSUME NEW T, NEW s \in Seq(T), NEW x \in T
    PROVE  Append(s, x) \in Seq(T) /\ Range(Append(s, x)) = Range(s) \cup {x}
<1>1. PICK n \in Nat : n = Len(s)
  OBVIOUS
<1> DEFINE r == Append(s, x)
<1>2. r \in Seq(T) /\ DOMAIN r = 1..(n + 1) /\ r[n + 1] = x /\ \A i \in 1..n : r[i] = s[i]
  BY <1>1
<1>3. DOMAIN s = 1..n /\ n + 1 \in 1..(n + 1)
  BY <1>1
<1>4. \A i \in 1..(n + 1) : i \in 1..n \/ i = n + 1
  BY <1>1
<1>5. \A i \in 1..n : i \in 1..(n + 1)
  BY <1>1
<1> HIDE DEF r
<1>6. Range(r) = Range(s) \cup {x}
  BY <1>2, <1>3, <1>4, <1>5 DEF Range
<1>7. QED
  BY <1>1, <1>2, <1>6 DEF r

LEMMA RangeTail ==
    ASSUME NEW T, NEW s \in Seq(T), s # <<>>
    PROVE  /\ Head(s) \in T /\ Tail(s) \in Seq(T)
           /\ Range(s) = Range(Tail(s)) \cup {Head(s)}
<1>1. PICK n \in Nat : n = Len(s)
  OBVIOUS
<1> DEFINE r == Tail(s)
<1>2. /\ n # 0 /\ r \in Seq(T) /\ DOMAIN r = 1..(n - 1) /\ Head(s) = s[1]
      /\ \A i \in 1..(n - 1) : r[i] = s[i + 1]
  BY <1>1
<1>3. DOMAIN s = 1..n /\ 1 \in 1..n
  BY <1>1, <1>2
<1>4. \A i \in 1..n : i = 1 \/ (i - 1 \in 1..(n - 1) /\ (i - 1) + 1 = i)
  BY <1>1
<1>5. \A i \in 1..(n - 1) : i + 1 \in 1..n
  BY <1>1
<1> HIDE DEF r
<1>6. Range(s) = {s[i] : i \in 1..n} /\ Range(r) = {r[i] : i \in 1..(n - 1)}
  BY <1>2, <1>3 DEF Range
<1>7. Range(s) = Range(r) \cup {s[1]}
  <2>1. ASSUME NEW i \in 1..n PROVE s[i] \in Range(r) \cup {s[1]}
    <3>1. CASE i = 1
      BY <3>1
    <3>2. CASE i # 1
      <4>1. i - 1 \in 1..(n - 1) /\ r[i - 1] = s[i]
        BY <1>2, <1>4, <3>2
      <4>2. QED
        BY <1>6, <4>1
    <3>3. QED
      BY <3>1, <3>2
  <2>2. ASSUME NEW i \in 1..(n - 1) PROVE r[i] \in Range(s)
    <3>1. i + 1 \in 1..n /\ r[i] = s[i + 1]
      BY <1>2, <1>5
    <3>2. QED
      BY <1>6, <3>1
  <2>3. s[1] \in Range(s)
    BY <1>3, <1>6
  <2>4. Range(s) \subseteq Range(r) \cup {s[1]}
    BY <1>6, <2>1
  <2>5. Range(r) \subseteq Range(s)
    BY <1>6, <2>2
  <2>6. QED
    BY <2>3, <2>4, <2>5
<1>8. s[1] \in T
  BY <1>3
<1>9. QED
  BY <1>2, <1>7, <1>8 DEF r

(* What the accepted channels of a request are.                            *)
LEMMA AcceptedChannels ==
    ASSUME NEW c \in Conns, NEW r \in Requests
    PROVE  Accepted(c, r) \in Seq(Channels)
<1>1. r \in Seq(Channels)
  BY PushAssumption
<1>2. PICK allowed : allowed = AtPositions(r, {i \in DOMAIN r : c \in MarketMakers \/ ~IsTickerAllChannel(r[i])})
  OBVIOUS
<1>3. allowed \in Seq(Channels)
  <2>1. {i \in DOMAIN r : c \in MarketMakers \/ ~IsTickerAllChannel(r[i])} \in SUBSET DOMAIN r
    OBVIOUS
  <2>2. QED
    BY <1>1, <1>2, <2>1, AtPositionsProperties
<1>4. Accepted(c, r) = <<>> \/ Accepted(c, r) = allowed
  BY <1>2, Zenon DEF Accepted
<1>5. <<>> \in Seq(Channels)
  OBVIOUS
<1>6. QED
  BY <1>3, <1>4, <1>5, Zenon

(* The state of a request under way.                                       *)
LEMMA ReqTypes ==
    ASSUME PushTypes, NEW c \in Conns
    PROVE  /\ req[c].pc \in {"idle", "set", "get", "write"}
           /\ req[c].pc = "idle" <=> req[c] = Idle
           /\ req[c].pc # "idle" => /\ req[c] \in Subscribing
                                    /\ req[c].todo \in Seq(Channels) /\ req[c].snaps \in Seq(Frame)
<1>1. req[c] = Idle \/ req[c] \in Subscribing
  BY DEF PushTypes
<1>2. Idle.pc = "idle"
  BY DEF Idle
<1>3. req[c] \in Subscribing => /\ req[c].pc \in {"set", "get", "write"}
                                /\ req[c].todo \in Seq(Channels) /\ req[c].snaps \in Seq(Frame)
  BY DEF Subscribing
<1>4. QED
  BY <1>1, <1>2, <1>3

LEMMA InitPush == PushInit => PushTypes /\ NoGap
<1> SUFFICES ASSUME PushInit PROVE PushTypes /\ NoGap
  OBVIOUS
<1>1. \A c \in Conns : req[c] = Idle /\ req[c].pc = "idle" /\ subs[c] = {} /\ Unwritten(c) = {}
  BY DEF PushInit, Idle, Unwritten
<1>2. state \in [Conns -> {"out", "checked", "in", "closed"}] /\ Clients = {}
  BY DEF PushInit, Clients
<1>3. /\ subs \in [Conns -> SUBSET Channels] /\ req \in [Conns -> {Idle} \cup Subscribing]
      /\ key \in [Channels -> Nat] /\ sending \in [Channels -> BOOLEAN]
      /\ base \in [Conns -> [Channels -> Nat]] /\ got \in [Conns -> [Channels -> SUBSET Nat]]
  BY DEF PushInit
<1>4. send \in [Conns -> Seq(Frame)] /\ redis \in Seq(Frame)
  BY DEF PushInit
<1>5. PushTypes
  BY <1>1, <1>2, <1>3, <1>4 DEF PushTypes, Placed
<1>6. QED
  BY <1>2, <1>5 DEF NoGap

-----------------------------------------------------------------------------
(* Types are kept.                                                         *)

(* A request changes state and subscriptions of one connection.            *)
LEMMA RequestStep ==
    ASSUME PushTypes, NEW c \in Conns, state[c] = "in",
           NEW q \in {Idle} \cup Subscribing, req' = [req EXCEPT ![c] = q],
           NEW S \in SUBSET Channels, subs' = [subs EXCEPT ![c] = S],
           UNCHANGED <<state, send, key, sending, lost, redis, got>>, base' \in [Conns -> [Channels -> Nat]],
           q.pc \in {"set", "get"} => q.todo # <<>>,
           q.pc = "get" => Head(q.todo) \in S,
           q.pc # "idle" => \A s \in Range(q.snaps) : s.ch \in S
    PROVE  PushTypes'
<1>1. req \in [Conns -> {Idle} \cup Subscribing] /\ subs \in [Conns -> SUBSET Channels]
  BY DEF PushTypes
<1>2. /\ req' \in [Conns -> {Idle} \cup Subscribing] /\ subs' \in [Conns -> SUBSET Channels]
      /\ req'[c] = q /\ subs'[c] = S
      /\ \A d \in Conns \ {c} : req'[d] = req[d] /\ subs'[d] = subs[d]
  BY <1>1
<1>3. \A d \in Conns : Placed(d)
  BY DEF PushTypes
<1>4. Placed(c)'
  BY <1>2 DEF Placed, Unwritten
<1>5. \A d \in Conns \ {c} : Placed(d)'
  BY <1>2, <1>3 DEF Placed, Unwritten
<1>6. \A d \in Conns : Placed(d)'
  BY <1>4, <1>5
<1>7. QED
  BY <1>2, <1>6 DEF PushTypes

(* The requests stay as they are.                                          *)
LEMMA OtherStep ==
    ASSUME PushTypes,
           UNCHANGED <<state, subs, req, base>>,
           send' \in [Conns -> Seq(Frame)], key' \in [Channels -> Nat], redis' \in Seq(Frame),
           sending' \in [Channels -> BOOLEAN],
           got' \in [Conns -> [Channels -> SUBSET Nat]]
    PROVE  PushTypes'
  BY DEF PushTypes, Placed, Unwritten

(* The next frame of the fan-out goes to some queues, the others stay.     *)
LEMMA BroadcastEffect ==
    ASSUME PushTypes, Broadcast
    PROVE  \E m \in Frame :
             /\ m = Head(redis) /\ redis' \in Seq(Frame) /\ Range(redis) = Range(redis') \cup {m}
             /\ send' \in [Conns -> Seq(Frame)]
             /\ \A c \in Conns : Range(send[c]) \subseteq Range(send'[c])
             /\ \A c \in Clients \ dropped' : m.ch \in subs[c] => m \in Range(send'[c])
             /\ dropped \subseteq dropped'
             /\ UNCHANGED <<state, subs, req, key, sending, lost, base, got, unread>>
<1>1. PICK m : m = Head(redis)
  OBVIOUS
<1>2. redis \in Seq(Frame) /\ redis # <<>> /\ redis' = Tail(redis) /\ send \in [Conns -> Seq(Frame)]
  BY DEF PushTypes, Broadcast, producer, history
<1>3. m \in Frame /\ redis' \in Seq(Frame) /\ Range(redis) = Range(redis') \cup {m}
  BY <1>1, <1>2, RangeTail
<1>4. PICK to : to = {c \in Clients : IsSubscribed(c, m.ch)}
  OBVIOUS
<1>5. PICK full : full = {c \in to : Len(send[c]) = SendSize}
  OBVIOUS
<1>6. /\ send' = [c \in Conns |-> IF c \in to \ full THEN Append(send[c], m) ELSE send[c]]
      /\ dropped' = dropped \union full
      /\ UNCHANGED <<state, subs, req, key, sending, lost, base, got, unread>>
  BY <1>1, <1>4, <1>5, Zenon DEF Broadcast, producer, history
<1>7. ASSUME NEW c \in Conns
      PROVE  /\ send'[c] \in Seq(Frame) /\ Range(send[c]) \subseteq Range(send'[c])
             /\ c \in to \ full => m \in Range(send'[c])
  <2>1. Append(send[c], m) \in Seq(Frame) /\ Range(Append(send[c], m)) = Range(send[c]) \cup {m}
    BY <1>2, <1>3, RangeAppend
  <2>2. send'[c] = IF c \in to \ full THEN Append(send[c], m) ELSE send[c]
    BY <1>6
  <2>3. QED
    BY <1>2, <2>1, <2>2
<1>8. send' \in [Conns -> Seq(Frame)]
  BY <1>6, <1>7
<1>9. ASSUME NEW c \in Clients \ dropped', m.ch \in subs[c] PROVE m \in Range(send'[c])
  <2>1. c \in to \ full /\ c \in Conns
    BY <1>4, <1>6, <1>9 DEF IsSubscribed, Clients
  <2>2. QED
    BY <1>7, <2>1
<1>10. QED
  BY <1>1, <1>3, <1>6, <1>7, <1>8, <1>9

LEMMA NextPushTypes ==
    ASSUME PushTypes, PushNext
    PROVE  PushTypes'
<1>0. \A c \in Conns : Placed(c)
  BY DEF PushTypes
<1>1. ASSUME NEW c \in Conns, CanRegister(c) \/ Register(c) PROVE PushTypes'
  <2>1. PICK s \in {"checked", "in", "closed"} :
          /\ state' = [state EXCEPT ![c] = s]
          /\ UNCHANGED <<subs, req, send, key, sending, lost, redis, base, got>>
          /\ state[c] \in {"out", "checked"}
    BY <1>1, Zenon DEF CanRegister, Register, producer, history
  <2>2. state' \in [Conns -> {"out", "checked", "in", "closed"}] /\ state'[c] = s
        /\ \A d \in Conns \ {c} : state'[d] = state[d]
    BY <2>1 DEF PushTypes
  <2>3. subs'[c] = {} /\ req'[c] = Idle
    BY <1>0, <2>1 DEF Placed
  <2>4. Idle.pc = "idle"
    BY DEF Idle
  <2>5. Placed(c)'
    BY <2>3, <2>4 DEF Placed, Unwritten
  <2>6. \A d \in Conns \ {c} : Placed(d)'
    BY <1>0, <2>1, <2>2 DEF Placed, Unwritten
  <2>7. QED
    BY <2>1, <2>2, <2>5, <2>6 DEF PushTypes
<1>2. ASSUME NEW c \in Conns, RemoveClient(c) PROVE PushTypes'
  <2>1. /\ state' \in [Conns -> {"out", "checked", "in", "closed"}] /\ state'[c] = "closed"
        /\ \A d \in Conns \ {c} : state'[d] = state[d]
    BY <1>2 DEF RemoveClient, PushTypes, producer, history
  <2>2. /\ req' \in [Conns -> {Idle} \cup Subscribing] /\ req'[c] = Idle
        /\ \A d \in Conns \ {c} : req'[d] = req[d]
    BY <1>2 DEF RemoveClient, PushTypes, producer, history
  <2>3. send' \in [Conns -> Seq(Frame)]
    BY <1>2 DEF RemoveClient, PushTypes, producer, history
  <2>4. UNCHANGED <<subs, key, sending, lost, redis, base, got>>
    BY <1>2 DEF RemoveClient, producer, history
  <2>5. Idle.pc = "idle"
    BY DEF Idle
  <2>6. Placed(c)'
    BY <2>1, <2>2, <2>5 DEF Placed, Unwritten
  <2>7. \A d \in Conns \ {c} : Placed(d)'
    BY <1>0, <2>1, <2>2, <2>4 DEF Placed, Unwritten
  <2>8. QED
    BY <2>1, <2>2, <2>3, <2>4, <2>6, <2>7 DEF PushTypes
<1>3. ASSUME NEW c \in Conns, Subscribe(c) PROVE PushTypes'
  <2>1. PICK r \in Requests :
          /\ Accepted(c, r) # <<>>
          /\ req' = [req EXCEPT ![c] = [pc |-> "set", todo |-> Accepted(c, r), snaps |-> <<>>]]
    BY <1>3, Zenon DEF Subscribe, producer, history
  <2>2. PICK t \in Seq(Channels) : t = Accepted(c, r)
    BY AcceptedChannels
  <2>3. PICK q : q = [pc |-> "set", todo |-> t, snaps |-> <<>>]
    OBVIOUS
  <2>4. q \in Subscribing /\ q.pc = "set" /\ q.todo = t /\ q.snaps = <<>>
    BY <2>3 DEF Subscribing
  <2>5. Range(q.snaps) = {}
    BY <2>4 DEF Range
  <2>6. state[c] = "in" /\ UNCHANGED <<state, subs, send, key, sending, lost, redis, base, got>>
    BY <1>3 DEF Subscribe, Request, producer, history
  <2>7. subs[c] \in SUBSET Channels /\ subs' = [subs EXCEPT ![c] = subs[c]] /\ base' \in [Conns -> [Channels -> Nat]]
    BY <2>6 DEF PushTypes
  <2>8. PICK S : S = subs[c]
    OBVIOUS
  <2>9. req' = [req EXCEPT ![c] = q]
    BY <2>1, <2>2, <2>3
  <2>10. QED
    BY <2>1, <2>2, <2>4, <2>5, <2>6, <2>7, <2>8, <2>9, RequestStep
<1>4. ASSUME NEW c \in Conns, SetSubscribed(c) PROVE PushTypes'
  <2>1. req[c].pc = "set" /\ req[c] \in Subscribing /\ req[c].todo \in Seq(Channels) /\ req[c] # Idle
    BY <1>4, ReqTypes DEF SetSubscribed, producer, history
  <2>2. state[c] = "in" /\ req[c].todo # <<>> /\ \A s \in Range(req[c].snaps) : s.ch \in subs[c]
    BY <1>0, <2>1 DEF Placed, Unwritten
  <2>3. PICK q : q = [req[c] EXCEPT !.pc = "get"]
    OBVIOUS
  <2>4. q \in Subscribing /\ q.pc = "get" /\ q.todo = req[c].todo /\ q.snaps = req[c].snaps
    BY <2>1, <2>3 DEF Subscribing
  <2>5. PICK S : S = subs[c] \cup {Head(req[c].todo)}
    OBVIOUS
  <2>6. S \in SUBSET Channels
    BY <2>1, <2>2, <2>5, RangeTail DEF PushTypes
  <2>7. /\ req' = [req EXCEPT ![c] = q] /\ subs' = [subs EXCEPT ![c] = S]
        /\ UNCHANGED <<state, send, key, sending, lost, redis, got>> /\ base' \in [Conns -> [Channels -> Nat]]
    BY <1>4, <2>3, <2>5 DEF SetSubscribed, PushTypes, producer, history
  <2>8. QED
    BY <2>2, <2>4, <2>5, <2>6, <2>7, RequestStep
<1>5. ASSUME NEW c \in Conns, GetSnapshot(c) PROVE PushTypes'
  <2>1. PICK h : h = Head(req[c].todo)
    OBVIOUS
  <2>2. PICK t : t = Tail(req[c].todo)
    OBVIOUS
  <2>3. PICK x : x = IF key[h] = 0 THEN <<>> ELSE <<[ch |-> h, v |-> key[h]]>>
    OBVIOUS
  <2>4. PICK u : /\ u = req[c].snaps \o x \/ u = req[c].snaps
                 /\ req' = [req EXCEPT ![c] = [pc |-> IF t = <<>> THEN "write" ELSE "set",
                                               todo |-> t, snaps |-> u]]
    BY <1>5, <2>1, <2>2, <2>3, Zenon DEF GetSnapshot
  <2>5. PICK q : q = [pc |-> IF t = <<>> THEN "write" ELSE "set", todo |-> t, snaps |-> u]
    OBVIOUS
  <2>6. req' = [req EXCEPT ![c] = q] /\ UNCHANGED <<state, subs, send, key, sending, lost, redis, base, got>> /\ req[c].pc = "get"
    BY <1>5, <2>4, <2>5, Zenon DEF GetSnapshot, producer, history
  <2>7. /\ req[c].todo \in Seq(Channels) /\ req[c].snaps \in Seq(Frame) /\ req[c].todo # <<>>
        /\ h \in subs[c] /\ state[c] = "in" /\ \A s \in Range(req[c].snaps) : s.ch \in subs[c]
    BY <1>0, <2>1, <2>6, ReqTypes DEF Placed, Unwritten
  <2>8. h \in Channels /\ t \in Seq(Channels)
    BY <2>1, <2>2, <2>7, RangeTail
  <2>9. u \in Seq(Frame) /\ \A s \in Range(u) : s.ch \in subs[c]
    <3>1. CASE key[h] = 0 \/ u = req[c].snaps
      <4>1. req[c].snaps \o <<>> = req[c].snaps /\ (key[h] = 0 => x = <<>>)
        BY <2>3, <2>7
      <4>2. u = req[c].snaps
        BY <2>4, <3>1, <4>1
      <4>3. QED
        BY <2>7, <4>2
    <3>2. CASE key[h] # 0 /\ u = req[c].snaps \o x
      <4>1. PICK f : f = [ch |-> h, v |-> key[h]]
        OBVIOUS
      <4>2. f \in Frame /\ f.ch = h
        BY <2>8, <4>1 DEF Frame, PushTypes
      <4>3. u = Append(req[c].snaps, f)
        BY <2>3, <2>4, <2>7, <3>2, <4>1, <4>2
      <4>4. QED
        BY <2>7, <4>2, <4>3, RangeAppend
    <3>3. QED
      BY <2>4, <3>1, <3>2
  <2>10. q \in Subscribing /\ q.pc = (IF t = <<>> THEN "write" ELSE "set") /\ q.todo = t /\ q.snaps = u
    BY <2>5, <2>8, <2>9 DEF Subscribing
  <2>11. PICK S : S = subs[c]
    OBVIOUS
  <2>12. S \in SUBSET Channels /\ subs' = [subs EXCEPT ![c] = S] /\ base' \in [Conns -> [Channels -> Nat]]
    BY <2>6, <2>11 DEF PushTypes
  <2>13. QED
    BY <2>6, <2>7, <2>9, <2>10, <2>11, <2>12, RequestStep
<1>6. ASSUME NEW c \in Conns, WriteSnapshot(c) PROVE PushTypes'
  <2>1. req[c].pc = "write" /\ UNCHANGED <<state, subs, send, key, sending, lost, redis, got>>
    BY <1>6 DEF WriteSnapshot, producer, history
  <2>2. /\ req[c] \in Subscribing /\ req[c].snaps \in Seq(Frame)
        /\ state[c] = "in" /\ \A s \in Range(req[c].snaps) : s.ch \in subs[c]
    BY <1>0, <2>1, ReqTypes DEF Placed, Unwritten
  <2>3. PICK S : S = subs[c]
    OBVIOUS
  <2>4. S \in SUBSET Channels /\ subs' = [subs EXCEPT ![c] = S]
    BY <2>1, <2>3 DEF PushTypes
  <2>5. CASE req[c].snaps = <<>>
    <3>1. req' = [req EXCEPT ![c] = Idle] /\ base' \in [Conns -> [Channels -> Nat]]
      BY <1>6, <2>5 DEF WriteSnapshot, PushTypes, producer, history
    <3>2. Idle.pc = "idle"
      BY DEF Idle
    <3>3. QED
      BY <2>1, <2>2, <2>4, <3>1, <3>2, RequestStep
  <2>6. CASE req[c].snaps # <<>>
    <3>1. PICK snap \in Frame : snap = Head(req[c].snaps)
      BY <2>2, <2>6, RangeTail
    <3>2. PICK q : q = [req[c] EXCEPT !.snaps = Tail(@)]
      OBVIOUS
    <3>3. base' = [base EXCEPT ![c][snap.ch] = snap.v] /\ req' = [req EXCEPT ![c] = q]
      BY <1>6, <2>6, <3>1, <3>2 DEF WriteSnapshot, producer, history
    <3>4. snap.ch \in Channels /\ snap.v \in Nat
      BY <3>1 DEF Frame
    <3>5. base' \in [Conns -> [Channels -> Nat]]
      BY <3>3, <3>4 DEF PushTypes
    <3>6. Tail(req[c].snaps) \in Seq(Frame) /\ Range(Tail(req[c].snaps)) \subseteq Range(req[c].snaps)
      BY <2>2, <2>6, RangeTail
    <3>7. q \in Subscribing /\ q.pc = "write" /\ q.snaps = Tail(req[c].snaps)
      BY <2>1, <2>2, <3>2, <3>6 DEF Subscribing
    <3>8. \A f \in Range(q.snaps) : f.ch \in S
      BY <2>2, <2>3, <3>6, <3>7
    <3>9. QED
      BY <2>1, <2>2, <2>4, <3>3, <3>5, <3>7, <3>8, RequestStep
  <2>7. QED
    BY <2>5, <2>6
<1>7. ASSUME NEW c \in Conns, Unsubscribe(c) PROVE PushTypes'
  <2>1. PICK h \in subs[c] : subs' = [subs EXCEPT ![c] = subs[c] \ {h}]
    BY <1>7 DEF Unsubscribe, producer, history
  <2>2. PICK S : S = subs[c] \ {h}
    OBVIOUS
  <2>3. state[c] = "in" /\ req[c] = Idle /\ UNCHANGED <<state, req, send, key, sending, lost, redis, base, got>>
    BY <1>7 DEF Unsubscribe, Request, producer, history
  <2>4. /\ S \in SUBSET Channels /\ subs' = [subs EXCEPT ![c] = S] /\ base' \in [Conns -> [Channels -> Nat]]
        /\ req' = [req EXCEPT ![c] = Idle]
    BY <2>1, <2>2, <2>3 DEF PushTypes
  <2>5. Idle.pc = "idle"
    BY DEF Idle
  <2>6. QED
    BY <2>3, <2>4, <2>5, RequestStep
<1>8. ASSUME NEW c \in Conns, WritePump(c) PROVE PushTypes'
  <2>1. PICK m : m = Head(send[c])
    OBVIOUS
  <2>2. send[c] \in Seq(Frame) /\ send[c] # <<>>
    BY <1>8 DEF WritePump, PushTypes, producer, history
  <2>3. m \in Frame /\ Tail(send[c]) \in Seq(Frame)
    BY <2>1, <2>2, RangeTail
  <2>4. m.ch \in Channels /\ m.v \in Nat
    BY <2>3 DEF Frame
  <2>5. got' = [got EXCEPT ![c][m.ch] = @ \cup {m.v}] /\ send' = [send EXCEPT ![c] = Tail(send[c])]
    BY <1>8, <2>1 DEF WritePump, producer, history
  <2>6. got' \in [Conns -> [Channels -> SUBSET Nat]]
    BY <2>4, <2>5 DEF PushTypes
  <2>7. send' \in [Conns -> Seq(Frame)]
    BY <2>3, <2>5 DEF PushTypes
  <2>8. UNCHANGED <<state, subs, req, base, key, sending, lost, redis>>
    BY <1>8 DEF WritePump, producer, history
  <2>9. QED
    BY <2>6, <2>7, <2>8, OtherStep DEF PushTypes
<1>9. ASSUME NEW ch \in Channels, SetKey(ch) \/ Publish(ch) PROVE PushTypes'
  <2>1. /\ key' \in [Channels -> Nat] /\ sending' \in [Channels -> BOOLEAN]
        /\ UNCHANGED <<state, subs, req, send, base, got>>
    <3>1. CASE SetKey(ch)
      BY <3>1 DEF SetKey, PushTypes
    <3>2. CASE Publish(ch)
      BY <3>2, Zenon DEF Publish, PushTypes
    <3>3. QED
      BY <1>9, <3>1, <3>2
  <2>2. PICK m : m = [ch |-> ch, v |-> key[ch]]
    OBVIOUS
  <2>3. m \in Frame /\ (redis' = redis \/ redis' = Append(redis, m))
    <3>1. key[ch] \in Nat
      BY DEF PushTypes
    <3>2. m \in Frame
      BY <2>2, <3>1 DEF Frame
    <3>3. QED
      BY <1>9, <2>2, <3>2 DEF SetKey, Publish
  <2>4. redis' \in Seq(Frame)
    <3>1. redis \in Seq(Frame)
      BY DEF PushTypes
    <3>2. Append(redis, m) \in Seq(Frame)
      BY <2>3, <3>1, RangeAppend
    <3>3. QED
      BY <2>3, <3>1, <3>2
  <2>5. QED
    BY <2>1, <2>4, OtherStep DEF PushTypes
<1>10. CASE Broadcast
  <2>1. send' \in [Conns -> Seq(Frame)] /\ redis' \in Seq(Frame) /\ UNCHANGED <<state, subs, req, key, sending, lost, base, got>>
    BY <1>10, BroadcastEffect
  <2>2. QED
    BY <2>1, OtherStep DEF PushTypes
<1>11. CASE FanoutStops
  <2>1. /\ state' \in [Conns -> {"out", "checked", "in", "closed"}]
        /\ subs' \in [Conns -> SUBSET Channels] /\ req' \in [Conns -> {Idle} \cup Subscribing]
        /\ \A c \in Conns : state'[c] = "closed" /\ req'[c] = Idle
    BY <1>11 DEF FanoutStops, producer, history
  <2>2. send' \in [Conns -> Seq(Frame)] /\ redis' \in Seq(Frame)
    BY <1>11 DEF FanoutStops, producer, history
  <2>3. UNCHANGED <<key, sending, lost, base, got>>
    BY <1>11 DEF FanoutStops, producer, history
  <2>4. Idle.pc = "idle"
    BY DEF Idle
  <2>5. \A c \in Conns : Placed(c)'
    BY <2>1, <2>4 DEF Placed, Unwritten
  <2>6. QED
    BY <2>1, <2>2, <2>3, <2>5 DEF PushTypes
<1>12. QED
  BY <1>1, <1>2, <1>3, <1>4, <1>5, <1>6, <1>7, <1>8, <1>9, <1>10, <1>11 DEF PushNext, RedisFanout

-----------------------------------------------------------------------------
(* No gap opens.                                                           *)

(* A frame in a queue, in Redis or written moves on; it is never lost to   *)
(* the client, and a new version is on its way.                            *)
LEMMA GapKept ==
    ASSUME PushTypes, NEW c \in Conns, NEW ch \in Channels, NoGapFor(c, ch),
           req'[c] = req[c], base'[c] = base[c], key'[ch] \in Nat, (<<c, ch>> \in unread' <=> <<c, ch>> \in unread),
           \A v \in Nat : Covers(c, ch, v) => Covers(c, ch, v)',
           \A v \in (key[ch] + 1)..key'[ch] : Covers(c, ch, v)'
    PROVE  NoGapFor(c, ch)'
<1>1. key[ch] \in Nat
  BY DEF PushTypes
<1>2. ASSUME NEW b \in Nat, Reached(c, ch, b) PROVE Reached(c, ch, b)'
  <2>1. ASSUME NEW v \in (b + 1)..key'[ch] PROVE Covers(c, ch, v)'
    <3>1. v \in Nat /\ (v \in (b + 1)..key[ch] \/ v \in (key[ch] + 1)..key'[ch])
      BY <1>1
    <3>2. QED
      BY <1>2, <3>1 DEF Reached
  <2>2. QED
    BY <2>1 DEF Reached
<1>3. Requested(c)' = Requested(c) /\ Unwritten(c)' = Unwritten(c)
  BY DEF Requested, Unwritten
<1>4. \A s \in Unwritten(c) : s.v \in Nat
  <2>1. \A s \in Unwritten(c) : s \in Frame
    BY ReqTypes DEF Unwritten, Range
  <2>2. QED
    BY <2>1 DEF Frame
<1>5. base[c][ch] \in Nat
  BY DEF PushTypes
<1>6. ASSUME NEW s \in Unwritten(c), s.ch = ch PROVE Reached(c, ch, s.v)'
  <2>1. PICK b \in Nat : b = s.v
    BY <1>4
  <2>2. QED
    BY <1>2, <1>6, <2>1 DEF NoGapFor
<1>7. ASSUME Reached(c, ch, base[c][ch]) PROVE Reached(c, ch, base[c][ch])'
  <2>1. PICK b \in Nat : b = base[c][ch]
    BY <1>5
  <2>2. Reached(c, ch, b)'
    BY <1>2, <1>7, <2>1
  <2>3. base'[c][ch] = b
    BY <2>1
  <2>4. QED
    BY <2>2, <2>3 DEF Reached
<1>8. QED
  BY <1>3, <1>6, <1>7 DEF NoGapFor

(* What a client waits for does not depend on the requests.                *)
LEMMA SameReached ==
    ASSUME UNCHANGED <<send, key, sending, lost, redis, got>>, NEW c, NEW ch, NEW b
    PROVE  Reached(c, ch, b)' <=> Reached(c, ch, b)
  BY DEF Reached, Covers

(* A step of one connection's request leaves the others as they are.       *)
LEMMA OneRequest ==
    ASSUME PushTypes, NoGap, NEW c \in Conns,
           UNCHANGED <<state, send, key, sending, lost, redis, got, dropped>>,
           \A d \in Conns \ {c} : \A x : <<d, x>> \in unread' <=> <<d, x>> \in unread,
           \A d \in Conns \ {c} : req'[d] = req[d] /\ base'[d] = base[d] /\ subs'[d] = subs[d],
           c \notin dropped => \A ch \in subs'[c] : NoGapFor(c, ch)'
    PROVE  NoGap'
<1>1. ASSUME NEW d \in Clients' \ dropped', NEW ch \in subs'[d] PROVE NoGapFor(d, ch)'
  <2>1. d \in Conns /\ d \in Clients \ dropped
    BY DEF Clients
  <2>2. CASE d # c
    <3>1. ch \in subs[d] /\ ch \in Channels
      BY <2>1, <2>2 DEF PushTypes
    <3>2. NoGapFor(d, ch)
      BY <2>1, <3>1 DEF NoGap
    <3>3. \A v \in Nat : Covers(d, ch, v) => Covers(d, ch, v)'
      BY DEF Covers
    <3>4. key'[ch] \in Nat /\ (key[ch] + 1)..key'[ch] = {}
      BY <3>1 DEF PushTypes
    <3>5. req'[d] = req[d] /\ base'[d] = base[d]
      BY <2>1, <2>2
    <3>6. QED
      BY <2>1, <3>1, <3>2, <3>3, <3>4, <3>5, GapKept
  <2>3. QED
    BY <2>1, <2>2
<1>2. QED
  BY <1>1 DEF NoGap

LEMMA NextNoGap ==
    ASSUME PushTypes, NoGap, PushNext
    PROVE  NoGap'
<1>0. \A c \in Conns : Placed(c)
  BY DEF PushTypes
<1>1. ASSUME NEW c \in Conns, CanRegister(c) \/ Register(c) \/ RemoveClient(c) PROVE NoGap'
  <2>1. /\ UNCHANGED <<subs, key, sending, lost, redis, base, got, dropped, unread>>
        /\ \A d \in Conns \ {c} : state'[d] = state[d] /\ req'[d] = req[d] /\ send'[d] = send[d]
        /\ state[c] \in {"out", "checked"} \/ state'[c] = "closed"
    BY <1>1 DEF CanRegister, Register, RemoveClient, PushTypes, producer, history
  <2>2. ASSUME NEW d \in Clients' \ dropped', NEW ch \in subs'[d] PROVE NoGapFor(d, ch)'
    <3>1. d \in Conns /\ d # c
      BY <1>0, <2>1 DEF Clients, Placed
    <3>2. d \in Clients \ dropped /\ ch \in subs[d] /\ ch \in Channels
      BY <2>1, <3>1 DEF Clients, PushTypes
    <3>3. NoGapFor(d, ch) /\ req'[d] = req[d] /\ base'[d] = base[d] /\ send'[d] = send[d]
      BY <2>1, <3>1, <3>2 DEF NoGap
    <3>4. \A v \in Nat : Covers(d, ch, v) => Covers(d, ch, v)'
      BY <2>1, <3>3 DEF Covers
    <3>5. key'[ch] \in Nat /\ (key[ch] + 1)..key'[ch] = {}
      BY <2>1, <3>2 DEF PushTypes
    <3>6. QED
      BY <2>1, <3>1, <3>2, <3>3, <3>4, <3>5, GapKept
  <2>3. QED
    BY <2>2 DEF NoGap
<1>2. ASSUME NEW c \in Conns, Subscribe(c) PROVE NoGap'
  <2>1. PICK r \in Requests :
          /\ Accepted(c, r) # <<>>
          /\ req' = [req EXCEPT ![c] = [pc |-> "set", todo |-> Accepted(c, r), snaps |-> <<>>]]
    BY <1>2, Zenon DEF Subscribe, producer, history
  <2>2. PICK t : t = Accepted(c, r)
    OBVIOUS
  <2>3. /\ UNCHANGED <<state, subs, send, key, sending, lost, redis, base, got, dropped, unread>>
        /\ state[c] = "in" /\ req[c] = Idle
    BY <1>2 DEF Subscribe, Request, producer, history
  <2>4. req'[c] = [pc |-> "set", todo |-> t, snaps |-> <<>>] /\ \A d \in Conns \ {c} : req'[d] = req[d]
    BY <2>1, <2>2 DEF PushTypes
  <2>5. Unwritten(c)' = {} /\ Unwritten(c) = {} /\ Requested(c) = {}
    BY <2>3, <2>4 DEF Unwritten, Requested, Range, Idle
  <2>6. ASSUME NEW ch \in subs'[c], c \notin dropped PROVE NoGapFor(c, ch)'
    <3>1. NoGapFor(c, ch)
      BY <2>3, <2>6 DEF NoGap, Clients
    <3>2. ASSUME <<c, ch>> \notin unread PROVE Reached(c, ch, base[c][ch])'
      <4>1. PICK b : b = base[c][ch]
        OBVIOUS
      <4>2. Reached(c, ch, b)
        BY <2>5, <3>1, <3>2, <4>1 DEF NoGapFor
      <4>3. Reached(c, ch, b)' /\ base'[c][ch] = b
        BY <2>3, <4>1, <4>2, SameReached
      <4>4. QED
        BY <4>3 DEF Reached
    <3>3. QED
      BY <2>3, <2>5, <3>2 DEF NoGapFor
  <2>7. QED
    BY <2>3, <2>4, <2>6, OneRequest
<1>3. ASSUME NEW c \in Conns, SetSubscribed(c) PROVE NoGap'
  <2>1. PICK h : h = Head(req[c].todo)
    OBVIOUS
  <2>2. /\ UNCHANGED <<state, send, key, sending, lost, redis, base, got, dropped, unread>>
        /\ req[c].pc = "set" /\ subs' = [subs EXCEPT ![c] = @ \cup {h}]
        /\ req' = [req EXCEPT ![c].pc = "get"]
    BY <1>3, <2>1 DEF SetSubscribed, producer, history
  <2>3. /\ req[c] \in Subscribing /\ req[c].todo \in Seq(Channels) /\ req[c].todo # <<>>
        /\ req[c] # Idle /\ state[c] = "in"
    BY <1>0, <2>2, ReqTypes DEF Placed
  <2>4. /\ req'[c] = [req[c] EXCEPT !.pc = "get"] /\ subs'[c] = subs[c] \cup {h}
        /\ \A d \in Conns \ {c} : req'[d] = req[d] /\ subs'[d] = subs[d] /\ base'[d] = base[d]
    BY <2>2 DEF PushTypes
  <2>5. req'[c].pc = "get" /\ req'[c].todo = req[c].todo /\ req'[c].snaps = req[c].snaps
    BY <2>3, <2>4 DEF Subscribing
  <2>6. Unwritten(c)' = Unwritten(c) /\ Requested(c)' = Requested(c) /\ Requested(c) = Range(req[c].todo)
    BY <2>2, <2>5 DEF Unwritten, Requested
  <2>7. h \in Requested(c)
    BY <2>1, <2>3, <2>6, RangeTail
  <2>8. ASSUME NEW ch \in subs'[c], c \notin dropped PROVE NoGapFor(c, ch)'
    <3>1. CASE ch \in subs[c]
      <4>1. NoGapFor(c, ch) /\ c \in Clients
        BY <2>3, <2>8, <3>1 DEF NoGap, Clients
      <4>2. ASSUME NEW b PROVE Reached(c, ch, b)' <=> Reached(c, ch, b)
        BY <2>2, SameReached
      <4>3. PICK b : b = base[c][ch]
        OBVIOUS
      <4>4. base'[c][ch] = b
        BY <2>2, <4>3
      <4>5. Reached(c, ch, base[c][ch])' <=> Reached(c, ch, b)'
        BY <4>4 DEF Reached
      <4>6. QED
        BY <2>2, <2>6, <4>1, <4>2, <4>3, <4>5 DEF NoGapFor
    <3>2. CASE ch \notin subs[c]
      <4>1. ch = h /\ \A s \in Unwritten(c) : s.ch # ch
        BY <1>0, <2>4, <2>8, <3>2 DEF Placed
      <4>2. QED
        BY <2>6, <2>7, <4>1 DEF NoGapFor
    <3>3. QED
      BY <3>1, <3>2
  <2>9. QED
    BY <2>2, <2>4, <2>8, OneRequest
<1>4. ASSUME NEW c \in Conns, GetSnapshot(c) PROVE NoGap'
  <2>1. PICK h : h = Head(req[c].todo)
    OBVIOUS
  <2>2. PICK t : t = Tail(req[c].todo)
    OBVIOUS
  <2>3. PICK x : x = IF key[h] = 0 THEN <<>> ELSE <<[ch |-> h, v |-> key[h]]>>
    OBVIOUS
  <2>4. PICK u : /\ \/ u = req[c].snaps \o x /\ unread' = unread \ {<<c, h>>}
                    \/ u = req[c].snaps /\ unread' = unread \union {<<c, h>>}
                 /\ req' = [req EXCEPT ![c] = [pc |-> IF t = <<>> THEN "write" ELSE "set",
                                               todo |-> t, snaps |-> u]]
    BY <1>4, <2>1, <2>2, <2>3, Zenon DEF GetSnapshot
  <2>5. PICK q : q = [pc |-> IF t = <<>> THEN "write" ELSE "set", todo |-> t, snaps |-> u]
    OBVIOUS
  <2>6. /\ req' = [req EXCEPT ![c] = q] /\ req[c].pc = "get"
        /\ UNCHANGED <<state, subs, send, key, sending, lost, redis, base, got, dropped>>
    BY <1>4, <2>4, <2>5, Zenon DEF GetSnapshot, producer, history
  <2>7. /\ req[c].todo \in Seq(Channels) /\ req[c].snaps \in Seq(Frame) /\ req[c].todo # <<>>
        /\ h \in subs[c] /\ state[c] = "in"
    BY <1>0, <2>1, <2>6, ReqTypes DEF Placed
  <2>8. h \in Channels /\ t \in Seq(Channels) /\ Range(req[c].todo) = Range(t) \cup {h}
    BY <2>1, <2>2, <2>7, RangeTail
  <2>9. key[h] \in Nat
    BY <2>8 DEF PushTypes
  <2>10. /\ Range(req[c].snaps) \subseteq Range(u)
         /\ \A s \in Range(u) : s \in Range(req[c].snaps) \/ (key[h] # 0 /\ s = [ch |-> h, v |-> key[h]])
         /\ (key[h] # 0 /\ <<c, h>> \notin unread') => [ch |-> h, v |-> key[h]] \in Range(u)
    <3>1. CASE u = req[c].snaps \/ key[h] = 0
      <4>1. req[c].snaps \o <<>> = req[c].snaps /\ (key[h] = 0 => x = <<>>)
        BY <2>3, <2>7
      <4>2. u = req[c].snaps
        BY <2>4, <3>1, <4>1
      <4>3. x # <<>> => Len(u) # Len(req[c].snaps) \/ <<c, h>> \in unread'
        <5>1. CASE u = req[c].snaps \o x /\ x # <<>>
          <6>1. x = <<[ch |-> h, v |-> key[h]]>>
            BY <2>3, <5>1
          <6>2. Len(u) = Len(req[c].snaps) + 1
            BY <2>7, <5>1, <6>1
          <6>3. QED
            BY <2>7, <6>2
        <5>2. CASE <<c, h>> \in unread'
          BY <5>2
        <5>3. QED
          BY <2>4, <5>1, <5>2
      <4>4. <<c, h>> \notin unread' => key[h] = 0
        <5>1. CASE key[h] # 0
          <6>1. x # <<>>
            BY <2>3, <5>1
          <6>2. QED
            BY <4>2, <4>3, <6>1
        <5>2. QED
          BY <5>1
      <4>5. QED
        BY <4>2, <4>4
    <3>2. CASE u = req[c].snaps \o x /\ key[h] # 0
      <4>1. PICK f : f = [ch |-> h, v |-> key[h]]
        OBVIOUS
      <4>2. f \in Frame
        BY <2>8, <2>9, <4>1 DEF Frame
      <4>3. u = Append(req[c].snaps, f)
        BY <2>3, <2>4, <2>7, <3>2, <4>1, <4>2
      <4>4. Range(u) = Range(req[c].snaps) \cup {f}
        BY <2>7, <4>2, <4>3, RangeAppend
      <4>5. QED
        BY <3>2, <4>1, <4>4
    <3>3. QED
      BY <2>4, <3>1, <3>2
  <2>11. q.pc \in {"write", "set"} /\ (q.pc = "write" => t = <<>>) /\ q.todo = t /\ q.snaps = u
    BY <2>5
  <2>12. req'[c] = q /\ \A d \in Conns \ {c} : req'[d] = req[d] /\ subs'[d] = subs[d] /\ base'[d] = base[d]
    BY <2>6 DEF PushTypes
  <2>13. /\ Unwritten(c) = Range(req[c].snaps) /\ Requested(c) = Range(req[c].todo)
         /\ Unwritten(c)' = Range(u)
    BY <2>6, <2>11, <2>12 DEF Unwritten, Requested
  <2>14. Requested(c)' = Range(t)
    BY <2>11, <2>12 DEF Requested, Range
  <2>15. ASSUME NEW ch \in subs'[c], c \notin dropped PROVE NoGapFor(c, ch)'
    <3>1. NoGapFor(c, ch) /\ ch \in Channels
      BY <2>6, <2>7, <2>15 DEF NoGap, Clients, PushTypes
    <3>2. ASSUME NEW b PROVE Reached(c, ch, b)' <=> Reached(c, ch, b)
      BY <2>6, SameReached
    <3>3. PICK k \in Nat : k = key[h]
      BY <2>9
    <3>4. ch = h => Reached(c, ch, k)
      BY <3>3 DEF Reached
    <3>5. ASSUME NEW s \in Range(u), s.ch = ch PROVE Reached(c, ch, s.v)'
      <4>1. CASE s \in Range(req[c].snaps)
        BY <2>13, <3>1, <3>2, <3>5, <4>1 DEF NoGapFor
      <4>2. CASE s = [ch |-> h, v |-> key[h]]
        <5>1. ch = h /\ s.v = k
          BY <3>3, <3>5, <4>2
        <5>2. QED
          BY <3>2, <3>4, <5>1
      <4>3. QED
        BY <2>10, <3>5, <4>1, <4>2
    <3>6. ASSUME ch \notin Range(t), <<c, ch>> \notin unread', \A s \in Range(u) : s.ch # ch
          PROVE  Reached(c, ch, base[c][ch])'
      <4>1. PICK b \in Nat : b = base[c][ch]
        BY <3>1 DEF PushTypes
      <4>2. base'[c][ch] = b
        BY <2>6, <4>1
      <4>3. Reached(c, ch, b)
        <5>1. CASE ch = h
          <6>1. key[ch] = 0
            BY <2>10, <3>6, <5>1
          <6>2. QED
            BY <4>1, <6>1 DEF Reached
        <5>2. CASE ch # h
          <6>1. /\ ch \notin Requested(c) /\ <<c, ch>> \notin unread
                /\ \A s \in Unwritten(c) : s.ch # ch
            BY <2>4, <2>8, <2>10, <2>13, <3>6, <5>2
          <6>2. QED
            BY <3>1, <4>1, <6>1 DEF NoGapFor
        <5>3. QED
          BY <5>1, <5>2
      <4>4. QED
        BY <3>2, <4>2, <4>3 DEF Reached
    <3>7. QED
      BY <2>13, <2>14, <3>5, <3>6 DEF NoGapFor
  <2>16. \A d \in Conns \ {c} : \A y : <<d, y>> \in unread' <=> <<d, y>> \in unread
    BY <2>4
  <2>17. QED
    BY <2>6, <2>12, <2>15, <2>16, OneRequest
<1>5. ASSUME NEW c \in Conns, WriteSnapshot(c) PROVE NoGap'
  <2>1. req[c].pc = "write" /\ UNCHANGED <<state, subs, send, key, sending, lost, redis, got, dropped, unread>>
    BY <1>5 DEF WriteSnapshot, producer, history
  <2>2. req[c] \in Subscribing /\ req[c].snaps \in Seq(Frame) /\ state[c] = "in"
    BY <1>0, <2>1, ReqTypes DEF Placed
  <2>3. Unwritten(c) = Range(req[c].snaps) /\ Requested(c) = {}
    BY <2>1 DEF Unwritten, Requested
  <2>4. CASE req[c].snaps = <<>>
    <3>1. req' = [req EXCEPT ![c] = Idle] /\ UNCHANGED base
      BY <1>5, <2>4 DEF WriteSnapshot, producer, history
    <3>2. req'[c] = Idle /\ \A d \in Conns \ {c} : req'[d] = req[d] /\ subs'[d] = subs[d] /\ base'[d] = base[d]
      BY <2>1, <3>1 DEF PushTypes
    <3>3. Unwritten(c) = {} /\ Unwritten(c)' = {}
      BY <2>3, <2>4, <3>2 DEF Unwritten, Range, Idle
    <3>4. ASSUME NEW ch \in subs'[c], c \notin dropped PROVE NoGapFor(c, ch)'
      <4>1. NoGapFor(c, ch)
        BY <2>1, <2>2, <3>4 DEF NoGap, Clients
      <4>2. ASSUME <<c, ch>> \notin unread PROVE Reached(c, ch, base[c][ch])'
        <5>1. PICK b : b = base[c][ch]
          OBVIOUS
        <5>2. Reached(c, ch, b) /\ base'[c][ch] = b
          BY <2>3, <3>1, <3>3, <4>1, <4>2, <5>1 DEF NoGapFor
        <5>3. Reached(c, ch, b)'
          BY <2>1, <5>2, SameReached
        <5>4. QED
          BY <5>2, <5>3 DEF Reached
      <4>3. QED
        BY <2>1, <3>3, <4>2 DEF NoGapFor
    <3>5. QED
      BY <2>1, <3>2, <3>4, OneRequest
  <2>5. CASE req[c].snaps # <<>>
    <3>1. PICK snap \in Frame : snap = Head(req[c].snaps)
      BY <2>2, <2>5, RangeTail
    <3>2. PICK r : r = Tail(req[c].snaps)
      OBVIOUS
    <3>3. base' = [base EXCEPT ![c][snap.ch] = snap.v] /\ req' = [req EXCEPT ![c].snaps = Tail(@)]
      BY <1>5, <2>5, <3>1 DEF WriteSnapshot, producer, history
    <3>4. snap.ch \in Channels /\ snap.v \in Nat
      BY <3>1 DEF Frame
    <3>5. Range(req[c].snaps) = Range(r) \cup {snap}
      BY <2>2, <2>5, <3>1, <3>2, RangeTail
    <3>6. /\ req'[c] = [req[c] EXCEPT !.snaps = r]
          /\ \A d \in Conns \ {c} : req'[d] = req[d] /\ subs'[d] = subs[d]
      BY <2>1, <3>2, <3>3 DEF PushTypes
    <3>7. /\ base'[c][snap.ch] = snap.v
          /\ \A ch \in Channels : ch # snap.ch => base'[c][ch] = base[c][ch]
          /\ \A d \in Conns \ {c} : base'[d] = base[d]
      BY <3>3, <3>4 DEF PushTypes
    <3>8. req'[c].pc = "write" /\ req'[c].snaps = r
      BY <2>1, <2>2, <3>6 DEF Subscribing
    <3>9. Unwritten(c)' = Range(r)
      BY <3>8 DEF Unwritten
    <3>10. ASSUME NEW ch \in subs'[c], c \notin dropped PROVE NoGapFor(c, ch)'
      <4>1. NoGapFor(c, ch) /\ ch \in Channels
        BY <2>1, <2>2, <3>10 DEF NoGap, Clients, PushTypes
      <4>2. ASSUME NEW b PROVE Reached(c, ch, b)' <=> Reached(c, ch, b)
        BY <2>1, SameReached
      <4>3. ASSUME NEW s \in Range(r), s.ch = ch PROVE Reached(c, ch, s.v)'
        BY <2>3, <3>5, <4>1, <4>2, <4>3 DEF NoGapFor
      <4>4. ASSUME <<c, ch>> \notin unread, \A s \in Range(r) : s.ch # ch PROVE Reached(c, ch, base[c][ch])'
        <5>1. PICK b : b = base'[c][ch]
          OBVIOUS
        <5>2. Reached(c, ch, b)
          <6>1. CASE ch = snap.ch
            BY <2>3, <3>5, <3>7, <4>1, <5>1, <6>1 DEF NoGapFor
          <6>2. CASE ch # snap.ch
            <7>1. ch \notin Requested(c) /\ <<c, ch>> \notin unread /\ \A s \in Unwritten(c) : s.ch # ch
              BY <2>3, <3>5, <4>4, <6>2
            <7>2. b = base[c][ch]
              BY <3>7, <4>1, <5>1, <6>2
            <7>3. QED
              BY <4>1, <7>1, <7>2 DEF NoGapFor
          <6>3. QED
            BY <6>1, <6>2
        <5>3. QED
          BY <4>2, <5>1, <5>2 DEF Reached
      <4>5. QED
        BY <2>1, <3>9, <4>3, <4>4 DEF NoGapFor
    <3>11. QED
      BY <2>1, <3>6, <3>7, <3>10, OneRequest
  <2>6. QED
    BY <2>4, <2>5
<1>6. ASSUME NEW c \in Conns, Unsubscribe(c) PROVE NoGap'
  <2>1. PICK h \in subs[c] : subs' = [subs EXCEPT ![c] = subs[c] \ {h}]
    BY <1>6 DEF Unsubscribe, producer, history
  <2>2. state[c] = "in" /\ UNCHANGED <<state, req, send, key, sending, lost, redis, base, got, dropped, unread>>
    BY <1>6 DEF Unsubscribe, Request, producer, history
  <2>3. subs'[c] \subseteq subs[c] /\ \A d \in Conns \ {c} : req'[d] = req[d] /\ subs'[d] = subs[d] /\ base'[d] = base[d]
    BY <2>1, <2>2 DEF PushTypes
  <2>4. ASSUME NEW ch \in subs'[c], c \notin dropped PROVE NoGapFor(c, ch)'
    <3>1. NoGapFor(c, ch)
      BY <2>2, <2>3, <2>4 DEF NoGap, Clients
    <3>2. QED
      BY <2>2, <3>1 DEF NoGapFor, Reached, Covers, Requested, Unwritten
  <2>5. QED
    BY <2>2, <2>3, <2>4, OneRequest
<1>7. ASSUME NEW c \in Conns, WritePump(c) PROVE NoGap'
  <2>1. PICK m : m = Head(send[c])
    OBVIOUS
  <2>2. send[c] \in Seq(Frame) /\ send[c] # <<>>
    BY <1>7 DEF WritePump, PushTypes, producer, history
  <2>3. m \in Frame /\ Range(send[c]) = Range(Tail(send[c])) \cup {m}
    BY <2>1, <2>2, RangeTail
  <2>4. m.ch \in Channels /\ m.v \in Nat
    BY <2>3 DEF Frame
  <2>5. got' = [got EXCEPT ![c][m.ch] = @ \cup {m.v}] /\ send' = [send EXCEPT ![c] = Tail(send[c])]
    BY <1>7, <2>1 DEF WritePump, producer, history
  <2>6. /\ \A d \in Conns : \A ch \in Channels : got[d][ch] \subseteq got'[d][ch]
        /\ m.v \in got'[c][m.ch]
    BY <2>4, <2>5 DEF PushTypes
  <2>7. send'[c] = Tail(send[c]) /\ \A d \in Conns \ {c} : send'[d] = send[d]
    BY <2>5 DEF PushTypes
  <2>8. UNCHANGED <<state, subs, req, base, key, sending, lost, redis, dropped, unread>>
    BY <1>7 DEF WritePump, producer, history
  <2>9. ASSUME NEW d \in Conns, NEW ch \in Channels, NEW v \in Nat, Covers(d, ch, v) PROVE Covers(d, ch, v)'
    <3>1. CASE [ch |-> ch, v |-> v] \in Range(send[d])
      <4>1. PICK f : f = [ch |-> ch, v |-> v]
        OBVIOUS
      <4>2. CASE d = c /\ f = m
        BY <2>6, <4>1, <4>2 DEF Covers
      <4>3. CASE ~(d = c /\ f = m)
        BY <2>3, <2>7, <3>1, <4>1, <4>3 DEF Covers
      <4>4. QED
        BY <4>2, <4>3
    <3>2. CASE [ch |-> ch, v |-> v] \notin Range(send[d])
      BY <2>6, <2>8, <2>9, <3>2 DEF Covers
    <3>3. QED
      BY <3>1, <3>2
  <2>10. ASSUME NEW d \in Clients' \ dropped', NEW ch \in subs'[d] PROVE NoGapFor(d, ch)'
    <3>1. d \in Conns /\ ch \in Channels /\ NoGapFor(d, ch)
      BY <2>8 DEF Clients, NoGap, PushTypes
    <3>2. key'[ch] \in Nat /\ (key[ch] + 1)..key'[ch] = {} /\ req'[d] = req[d] /\ base'[d] = base[d]
      BY <2>8, <3>1 DEF PushTypes
    <3>3. \A v \in Nat : Covers(d, ch, v) => Covers(d, ch, v)'
      BY <2>9, <3>1
    <3>4. QED
      BY <2>8, <3>1, <3>2, <3>3, GapKept
  <2>11. QED
    BY <2>10 DEF NoGap
<1>8. ASSUME NEW h \in Channels, SetKey(h) \/ Publish(h) PROVE NoGap'
  <2>1. UNCHANGED <<state, subs, req, send, base, got, dropped, unread>>
    BY <1>8 DEF SetKey, Publish, history
  <2>2. key \in [Channels -> Nat] /\ key[h] \in Nat /\ sending \in [Channels -> BOOLEAN]
    BY DEF PushTypes
  <2>3. ASSUME NEW d \in Conns, NEW ch \in Channels, NEW v \in Nat, Covers(d, ch, v)
        PROVE  Covers(d, ch, v)'
    <3>1. CASE SetKey(h)
      <4>1. sending' = [sending EXCEPT ![h] = TRUE] /\ key' = [key EXCEPT ![h] = key[h] + 1]
            /\ ~sending[h] /\ UNCHANGED <<redis, lost>>
        BY <3>1 DEF SetKey
      <4>2. sending[ch] => sending'[ch] /\ key'[ch] = key[ch]
        BY <2>2, <4>1
      <4>3. QED
        BY <2>1, <2>3, <4>1, <4>2 DEF Covers
    <3>2. CASE Publish(h)
      <4>1. PICK m : m = [ch |-> h, v |-> key[h]]
        OBVIOUS
      <4>2. /\ sending' = [sending EXCEPT ![h] = FALSE] /\ key' = key
            /\ \/ redis' = (IF Matched(h) THEN Append(redis, m) ELSE redis) /\ lost' = lost
               \/ lost' = lost \union {m} /\ redis' = redis
        BY <3>2, <4>1 DEF Publish
      <4>3. m \in Frame /\ redis \in Seq(Frame)
        BY <2>2, <4>1 DEF Frame, PushTypes
      <4>4. /\ Range(redis) \subseteq Range(redis') /\ lost \subseteq lost'
            /\ ~Matched(h) \/ m \in Range(redis') \/ m \in lost'
        <5>1. Range(Append(redis, m)) = Range(redis) \union {m}
          BY <4>3, RangeAppend
        <5>2. QED
          BY <4>2, <5>1
      <4>5. CASE sending[ch] /\ v = key[ch] /\ ch = h
        BY <4>1, <4>4, <4>5 DEF Covers
      <4>6. CASE sending[ch] /\ v = key[ch] /\ ch # h
        BY <2>2, <4>2, <4>6 DEF Covers
      <4>7. CASE ~(sending[ch] /\ v = key[ch])
        BY <2>1, <2>3, <4>4, <4>7 DEF Covers
      <4>8. QED
        BY <4>5, <4>6, <4>7
    <3>3. QED
      BY <1>8, <3>1, <3>2
  <2>4. ASSUME NEW d \in Clients' \ dropped', NEW ch \in subs'[d] PROVE NoGapFor(d, ch)'
    <3>1. d \in Conns /\ ch \in Channels /\ NoGapFor(d, ch) /\ req'[d] = req[d] /\ base'[d] = base[d]
      BY <2>1 DEF Clients, NoGap, PushTypes
    <3>2. \A v \in Nat : Covers(d, ch, v) => Covers(d, ch, v)'
      BY <2>3, <3>1
    <3>3. key'[ch] \in Nat /\ (key'[ch] = key[ch] \/ (key'[ch] = key[ch] + 1 /\ sending'[ch]))
      BY <1>8, <2>2, <3>1 DEF SetKey, Publish
    <3>4. ASSUME NEW v \in (key[ch] + 1)..key'[ch] PROVE Covers(d, ch, v)'
      <4>1. key[ch] \in Nat
        BY <2>2, <3>1
      <4>2. sending'[ch] /\ v = key'[ch]
        BY <3>3, <3>4, <4>1
      <4>3. QED
        BY <4>2 DEF Covers
    <3>5. QED
      BY <2>1, <3>1, <3>2, <3>3, <3>4, GapKept
  <2>5. QED
    BY <2>4 DEF NoGap
<1>9. CASE Broadcast
  <2>1. PICK m \in Frame :
             /\ Range(redis) = Range(redis') \cup {m}
             /\ \A c \in Conns : Range(send[c]) \subseteq Range(send'[c])
             /\ \A c \in Clients \ dropped' : m.ch \in subs[c] => m \in Range(send'[c])
             /\ dropped \subseteq dropped'
             /\ UNCHANGED <<state, subs, req, key, sending, lost, base, got, unread>>
    BY <1>9, BroadcastEffect
  <2>2. ASSUME NEW d \in Clients' \ dropped', NEW ch \in subs'[d] PROVE NoGapFor(d, ch)'
    <3>1. d \in Clients /\ d \notin dropped' /\ ch \in subs[d] /\ d \in Conns
      BY <2>1 DEF Clients
    <3>2. ch \in Channels /\ NoGapFor(d, ch) /\ req'[d] = req[d] /\ base'[d] = base[d]
      BY <2>1, <3>1 DEF NoGap, PushTypes
    <3>3. ASSUME NEW v \in Nat, Covers(d, ch, v) PROVE Covers(d, ch, v)'
      <4>1. PICK f : f = [ch |-> ch, v |-> v]
        OBVIOUS
      <4>3. f = m => f \in Range(send'[d])
        BY <2>1, <3>1, <4>1
      <4>4. /\ f \in Range(send[d]) => f \in Range(send'[d])
            /\ f \in Range(redis) => f \in Range(send'[d]) \/ f \in Range(redis')
        BY <2>1, <3>1, <4>3
      <4>5. QED
        BY <2>1, <3>3, <4>1, <4>4 DEF Covers
    <3>4. key'[ch] \in Nat /\ (key[ch] + 1)..key'[ch] = {}
      BY <2>1, <3>2 DEF PushTypes
    <3>5. QED
      BY <2>1, <3>1, <3>2, <3>3, <3>4, GapKept
  <2>3. QED
    BY <2>2 DEF NoGap
<1>10. CASE FanoutStops
  <2>1. \A c \in Conns : state'[c] = "closed"
    BY <1>10 DEF FanoutStops, producer, history
  <2>2. QED
    BY <2>1 DEF NoGap, Clients
<1>11. QED
  BY <1>1, <1>2, <1>3, <1>4, <1>5, <1>6, <1>7, <1>8, <1>9, <1>10 DEF PushNext, RedisFanout

(* Once everything under way has arrived, a client that lost nothing to a  *)
(* full queue has, on every channel the fan-out listens to and whose key   *)
(* it could read, its snapshot and every frame after it that was           *)
(* published: handleSubscribe subscribes before it reads the key, and      *)
(* neither a frame that arrives before the snapshot is written nor an      *)
(* older snapshot, nor a key set before its frame is sent, leaves a gap.   *)
THEOREM NoFrameMissed == PushSpec => []NothingMissed
<1>1. PushTypes /\ NoGap => NothingMissed
  <2> SUFFICES ASSUME PushTypes, NoGap,
                      NEW c \in Clients \ dropped, NEW ch \in subs[c],
                      Settled(c, ch), Matched(ch), <<c, ch>> \notin unread,
                      NEW v \in (base[c][ch] + 1)..key[ch], [ch |-> ch, v |-> v] \notin lost
               PROVE  v \in got[c][ch]
    BY DEF NothingMissed, UpToDate
  <2>1. Requested(c) = {} /\ Unwritten(c) = {}
    BY DEF Requested, Unwritten, Idle, Settled
  <2>2. Covers(c, ch, v)
    BY <2>1 DEF NoGap, NoGapFor, Reached
  <2>3. Range(redis) = {} /\ Range(send[c]) = {}
    BY DEF Range, Settled
  <2>4. QED
    BY <2>2, <2>3 DEF Covers, Settled
<1>2. PushTypes /\ NoGap /\ [PushNext]_pushVars => (PushTypes /\ NoGap)'
  <2>1. ASSUME PushTypes, NoGap, UNCHANGED pushVars PROVE PushTypes' /\ NoGap'
    <3>1. UNCHANGED <<state, subs, req, send, key, sending, lost, redis, base, got, dropped, unread>>
      BY <2>1 DEF pushVars, producer, history
    <3>2. PushTypes'
      BY <2>1, <3>1 DEF PushTypes, Placed, Unwritten
    <3>3. NoGap'
      <4>1. Clients' = Clients /\ UNCHANGED <<subs, dropped>>
        BY <3>1 DEF Clients
      <4>2. ASSUME NEW c, NEW ch, NoGapFor(c, ch) PROVE NoGapFor(c, ch)'
        BY <3>1, <4>2 DEF NoGapFor, Reached, Covers, Requested, Unwritten
      <4>3. QED
        BY <2>1, <4>1, <4>2 DEF NoGap
    <3>4. QED
      BY <3>2, <3>3
  <2>2. QED
    BY <2>1, NextPushTypes, NextNoGap
<1>3. QED
  BY <1>1, <1>2, InitPush, PTL DEF PushSpec

-----------------------------------------------------------------------------
(***************************************************************************)
(* The index price service.                                                *)
(***************************************************************************)
(***************************************************************************)
(* The k-th of the sorted prices.                                          *)
(***************************************************************************)
LEMMA RankedProperties ==
    ASSUME NEW S, IsFiniteSet(S), NEW q \in [S -> Nat], NEW k \in Nat \ {0}, k <= Cardinality(S)
    PROVE  /\ Ranked(q, k) \in ValuesOf(q) /\ Ranked(q, k) \in Nat
           /\ Cardinality(Below(q, Ranked(q, k))) < k
           /\ Cardinality(AtMost(q, Ranked(q, k))) >= k
<1> DEFINE Is(p) == Cardinality(Below(q, p)) < k /\ Cardinality(AtMost(q, p)) >= k
<1>1. \E p \in ValuesOf(q) : Is(p)
  BY RankedExists
<1>2. Ranked(q, k) = CHOOSE p \in ValuesOf(q) : Is(p)
  BY DEF Ranked, Below, AtMost, ValuesOf
<1>3. Ranked(q, k) \in ValuesOf(q) /\ Is(Ranked(q, k))
  <2> HIDE DEF Is
  <2>1. QED
    BY <1>1, <1>2
<1>4. QED
  BY <1>3, PartsFinite

(***************************************************************************)
(* More than half of the prices lie between two bounds: so do the ones in  *)
(* the middle.                                                             *)
(***************************************************************************)
LEMMA MiddleWithin ==
    ASSUME NEW S, IsFiniteSet(S), NEW q \in [S -> Nat], NEW H \in SUBSET S,
           2 * Cardinality(H) > Cardinality(S), NEW a \in Nat, NEW b \in Nat,
           \A s \in H : a <= q[s] /\ q[s] <= b,
           NEW k \in Nat \ {0}, k <= Cardinality(S), 2 * k >= Cardinality(S),
           2 * k <= Cardinality(S) + 2
    PROVE  Ranked(q, k) \in Nat /\ a <= Ranked(q, k) /\ Ranked(q, k) <= b
<1>1. PICK r \in Nat : /\ r = Ranked(q, k)
                       /\ Cardinality(Below(q, r)) < k /\ Cardinality(AtMost(q, r)) >= k
  BY RankedProperties
<1>2. PICK n \in Nat, h \in Nat, x \in Nat, y \in Nat :
        n = Cardinality(S) /\ h = Cardinality(H) /\ x = Cardinality(Below(q, r))
        /\ y = Cardinality(AtMost(q, r))
  BY <1>1, PartsFinite, FS_Subset, FS_CardinalityType
<1>3. IsFiniteSet(Below(q, r)) /\ IsFiniteSet(AtMost(q, r)) /\ IsFiniteSet(H)
  BY <1>1, PartsFinite, FS_Subset
<1>4. a <= r
  <2>1. SUFFICES ASSUME r < a PROVE FALSE
    BY <1>1
  <2>2. AtMost(q, r) \subseteq S /\ AtMost(q, r) \cap H = {}
    BY <2>1, <1>1 DEF AtMost
  <2>3. Cardinality(AtMost(q, r) \cup H) = y + h
    <3>1. Cardinality(AtMost(q, r) \cap H) = 0
      BY <2>2, FS_EmptySet
    <3>2. Cardinality(AtMost(q, r) \cup H)
            = Cardinality(AtMost(q, r)) + Cardinality(H) - Cardinality(AtMost(q, r) \cap H)
      BY <1>3, FS_Union
    <3>3. QED
      BY <3>1, <3>2, <1>2
  <2>4. Cardinality(AtMost(q, r) \cup H) <= n
    <3>1. AtMost(q, r) \cup H \subseteq S
      BY <2>2
    <3>2. QED
      BY <3>1, <1>2, FS_Subset
  <2>5. QED
    BY <2>3, <2>4, <1>1, <1>2
<1>5. r <= b
  <2>1. SUFFICES ASSUME b < r PROVE FALSE
    BY <1>1
  <2>2. H \subseteq Below(q, r)
    BY <2>1, <1>1 DEF Below
  <2>3. h <= x
    BY <2>2, <1>3, <1>2, FS_Subset
  <2>4. QED
    BY <2>3, <1>1, <1>2
<1>6. QED
  BY <1>1, <1>4, <1>5

LEMMA MedianWithin ==
    ASSUME NEW S, IsFiniteSet(S), NEW q \in [S -> Nat], NEW H \in SUBSET S,
           2 * Cardinality(H) > Cardinality(S), NEW a \in Nat, NEW b \in Nat,
           \A s \in H : a <= q[s] /\ q[s] <= b
    PROVE  MedianTwice(q) \in Nat /\ 2 * a <= MedianTwice(q) /\ MedianTwice(q) <= 2 * b
<1>1. PICK n \in Nat, h \in Nat : n = Cardinality(S) /\ h = Cardinality(H)
  BY FS_Subset, FS_CardinalityType
<1>2. h <= n
  BY <1>1, FS_Subset
<1>3. n # 0
  BY <1>1, <1>2
<1>4. PICK mid \in Nat : mid = n \div 2 /\ (n = 2 * mid \/ n = 2 * mid + 1)
                         /\ (n % 2 = 1 <=> n = 2 * mid + 1)
  <2>1. n \div 2 \in Nat /\ n % 2 \in 0..1 /\ n = 2 * (n \div 2) + (n % 2)
    OBVIOUS
  <2>2. QED
    BY <2>1
<1>5. MedianTwice(q) = IF n % 2 = 1 THEN 2 * Ranked(q, mid + 1)
                       ELSE Ranked(q, mid) + Ranked(q, mid + 1)
  BY <1>1, <1>4 DEF MedianTwice
<1> DEFINE Within(k) == Ranked(q, k) \in Nat /\ a <= Ranked(q, k) /\ Ranked(q, k) <= b
<1>6. ASSUME NEW k \in Nat \ {0}, k <= n, 2 * k >= n, 2 * k <= n + 2
      PROVE  Within(k)
  BY <1>6, <1>1, MiddleWithin
<1>7. CASE n = 2 * mid + 1
  <2>1. Within(mid + 1)
    BY <1>6, <1>7
  <2>2. PICK r \in Nat : r = Ranked(q, mid + 1)
    BY <2>1
  <2>3. QED
    BY <2>1, <2>2, <1>5, <1>4, <1>7
<1>8. CASE n = 2 * mid
  <2>1. Within(mid + 1)
    <3>1. mid + 1 <= n
      BY <1>8, <1>3
    <3>2. QED
      BY <3>1, <1>6, <1>8
  <2>2. Within(mid)
    BY <1>6, <1>8, <1>3
  <2>3. PICK r \in Nat, t \in Nat : r = Ranked(q, mid + 1) /\ t = Ranked(q, mid)
    BY <2>1, <2>2
  <2>4. MedianTwice(q) = t + r
    BY <2>3, <1>5, <1>4, <1>8
  <2>5. QED
    BY <2>1, <2>2, <2>3, <2>4
<1>9. QED
  BY <1>4, <1>7, <1>8
(***************************************************************************)
(* The weighted median is the price of one of the quotes.                  *)
(***************************************************************************)
LEMMA WeightedMedianQuoted ==
    ASSUME NEW S, IsFiniteSet(S), S \subseteq Sources, NEW q \in [S -> Nat],
           NEW kept \in SUBSET S, kept # {}
    PROVE  \E s \in kept : WeightedMedian(q, kept) = q[s]
<1> DEFINE total == SumFunctionOnSet(SourceWeight, kept)
           upTo(p) == SumFunctionOnSet(SourceWeight, {s \in kept : q[s] <= p})
           P == {q[s] : s \in kept}
           M == {p \in P : 2 * upTo(p) >= total}
<1>1. IsFiniteSet(kept) /\ IsFiniteSet(P) /\ P \in SUBSET Nat /\ P # {}
  BY FS_Subset, FiniteImage
<1>2. total \in Nat
  <2>1. \A s \in kept : SourceWeight[s] \in Nat
    BY IndexPriceAssumption
  <2>2. QED
    BY <2>1, <1>1, SumNat
<1>3. M # {}
  <2>1. PICK m \in P : \A x \in P : x <= m
    <3> HIDE DEF P
    <3>1. QED
      BY <1>1, FiniteHasMax
  <2>2. {s \in kept : q[s] <= m} = kept
    BY <2>1
  <2>3. upTo(m) = total
    BY <2>2
  <2>4. 2 * total >= total
    <3> HIDE DEF total
    <3>1. QED
      BY <1>2
  <2>5. QED
    BY <2>1, <2>3, <2>4
<1>4. M \in SUBSET Nat
  BY <1>1
<1>5. WeightedMedian(q, kept) = Min(M)
  BY DEF WeightedMedian
<1>6. Min(M) \in M
  <2> HIDE DEF M
  <2>1. QED
    BY <1>3, <1>4, MinOfNaturals
<1>7. QED
  BY <1>5, <1>6

(***************************************************************************)
(* How far a price that is kept can be from the bounds of the median.      *)
(***************************************************************************)
LEMMA TimesOrder ==
    ASSUME NEW x \in Int, NEW y \in Int, NEW d \in Nat, x <= y
    PROVE  x * d <= y * d
OBVIOUS

LEMMA KeptWithin ==
    ASSUME NEW p \in Nat, NEW m2 \in Nat, NEW a \in Nat, NEW b \in Nat,
           2 * a <= m2, m2 <= 2 * b, WithinDeviation(p, m2)
    PROVE  p * Den >= a * (Den - Num) /\ p * Den <= b * (Den + Num)
<1>1. Num \in Nat /\ Den \in Nat
  BY IndexPriceAssumption
<1>2. Abs(2 * p - m2) * Den <= Num * m2
  BY DEF WithinDeviation
<1>3. PICK d \in Nat, n \in Nat : d = Den /\ n = Num
  BY <1>1
<1>4. PICK e \in Nat : e = Abs(2 * p - m2) /\ 2 * p - m2 <= e /\ m2 - 2 * p <= e
  <2>1. 2 * p - m2 \in Int /\ m2 - 2 * p = -(2 * p - m2)
    OBVIOUS
  <2>2. ASSUME NEW v \in Int PROVE Abs(v) \in Nat /\ v <= Abs(v) /\ -v <= Abs(v)
    BY DEF Abs
  <2>3. QED
    BY <2>1, <2>2
<1>5. e * d <= n * m2
  BY <1>2, <1>3, <1>4
<1>6. p * d >= a * (d - n)
  <2>1. (m2 - 2 * p) * d <= e * d
    BY <1>4, TimesOrder
  <2>2. m2 * (d - n) <= 2 * (p * d)
    <3>1. (m2 - 2 * p) * d = m2 * d - 2 * (p * d)
      OBVIOUS
    <3>2. m2 * (d - n) = m2 * d - n * m2
      OBVIOUS
    <3>3. m2 * d \in Int /\ p * d \in Int /\ n * m2 \in Int /\ e * d \in Int
      OBVIOUS
    <3>4. QED
      BY <2>1, <1>5, <3>1, <3>2, <3>3
  <2>3. CASE d - n >= 0
    <3>1. (2 * a) * (d - n) <= m2 * (d - n)
      BY <2>3, TimesOrder
    <3>2. (2 * a) * (d - n) = 2 * (a * (d - n))
      OBVIOUS
    <3>3. a * (d - n) \in Int /\ m2 * (d - n) \in Int /\ p * d \in Int
      OBVIOUS
    <3>4. QED
      BY <3>1, <3>2, <3>3, <2>2
  <2>4. CASE d - n < 0
    <3>1. 0 <= a * (n - d)
      BY <2>4, TimesOrder
    <3>2. a * (d - n) = -(a * (n - d))
      OBVIOUS
    <3>3. 0 <= p * d /\ a * (n - d) \in Int /\ p * d \in Int
      OBVIOUS
    <3>4. QED
      BY <3>1, <3>2, <3>3
  <2>5. QED
    BY <2>3, <2>4
<1>7. p * d <= b * (d + n)
  <2>1. (2 * p - m2) * d <= e * d
    BY <1>4, TimesOrder
  <2>2. 2 * (p * d) <= m2 * (d + n)
    <3>1. (2 * p - m2) * d = 2 * (p * d) - m2 * d
      OBVIOUS
    <3>2. m2 * (d + n) = m2 * d + n * m2
      OBVIOUS
    <3>3. m2 * d \in Int /\ p * d \in Int /\ n * m2 \in Int /\ e * d \in Int
      OBVIOUS
    <3>4. QED
      BY <2>1, <1>5, <3>1, <3>2, <3>3
  <2>3. m2 * (d + n) <= (2 * b) * (d + n)
    BY TimesOrder
  <2>4. (2 * b) * (d + n) = 2 * (b * (d + n))
    OBVIOUS
  <2>5. b * (d + n) \in Int /\ m2 * (d + n) \in Int /\ p * d \in Int
    OBVIOUS
  <2>6. QED
    BY <2>2, <2>3, <2>4, <2>5
<1>8. QED
  BY <1>3, <1>6, <1>7

(***************************************************************************)
(* What is in the store was aggregated from the quotes of one tick.        *)
(***************************************************************************)
IsIndex(s, p, kept) ==
    \E a, f : s = [price |-> p, sources |-> kept, age |-> a, stale |-> f]

FromQuotes(s, q) ==
    /\ q \in Answers /\ Aggregated(q)
    /\ IsIndex(s, WeightedMedian(q, Filtered(q)), Filtered(q))

IndexInv ==
    /\ fetch # NoPrice => fetch \in Answers
    /\ store = NoPrice => basis = NoPrice
    /\ basis # NoPrice => FromQuotes(store, basis)

LEMMA NotNone ==
    ASSUME NEW s, NEW p, NEW kept, IsIndex(s, p, kept)
    PROVE  s # NoPrice
BY DEF IsIndex, NoPrice

LEMMA Reindexed ==
    ASSUME NEW s, NEW p, NEW kept, IsIndex(s, p, kept)
    PROVE  IsIndex(ApplyStale(s), p, kept) /\ IsIndex(Older(s), p, kept)
<1>1. PICK a, f : s = [price |-> p, sources |-> kept, age |-> a, stale |-> f]
  BY DEF IsIndex
<1>2. ApplyStale(s) = [price |-> p, sources |-> kept, age |-> a, stale |-> (s.age > StaleAfter)]
  BY <1>1 DEF ApplyStale
<1>3. Older(s) = [price |-> p, sources |-> kept, age |-> Min({MaxAge, s.age + 1}), stale |-> f]
  BY <1>1 DEF Older
<1>4. QED
  BY <1>2, <1>3 DEF IsIndex

LEMMA IndexInvHolds == IndexSpec => []IndexInv
<1>1. IndexInit => IndexInv
  BY DEF IndexInit, IndexInv
<1>2. IndexInv /\ [IndexNext]_indexVars => IndexInv'
  <2> SUFFICES ASSUME IndexInv, [IndexNext]_indexVars PROVE IndexInv'
    OBVIOUS
  <2> USE DEF IndexInv
  <2>1. ASSUME NEW s \in Sources, Toggle(s) PROVE IndexInv'
    BY <2>1 DEF Toggle
  <2>2. CASE FetchQuotes
    BY <2>2 DEF FetchQuotes
  <2>3. CASE PublishIndex
    <3>1. fetch \in Answers /\ Aggregated(fetch) /\ fetch' = NoPrice /\ basis' = fetch
      BY <2>3 DEF PublishIndex
    <3>2. store' = [price |-> WeightedMedian(fetch, Filtered(fetch)), sources |-> Filtered(fetch),
                    age |-> 0, stale |-> FALSE]
      BY <2>3 DEF PublishIndex
    <3>3. IsIndex(store', WeightedMedian(fetch, Filtered(fetch)), Filtered(fetch))
      BY <3>2 DEF IsIndex
    <3>4. FromQuotes(store', basis')
      BY <3>1, <3>3 DEF FromQuotes
    <3>5. store' # NoPrice
      BY <3>3, NotNone
    <3>6. QED
      BY <3>1, <3>4, <3>5
  <2>4. CASE KeepLast
    <3>1. fetch' = NoPrice /\ basis' = basis
          /\ store' = IF store = NoPrice THEN NoPrice ELSE ApplyStale(store)
      BY <2>4 DEF KeepLast
    <3>2. basis # NoPrice => FromQuotes(store', basis) /\ store' # NoPrice
      BY <3>1, Reindexed, NotNone DEF FromQuotes
    <3>3. QED
      BY <3>1, <3>2
  <2>5. CASE Pass
    <3>1. fetch' = fetch /\ basis' = basis
          /\ store' = IF store = NoPrice THEN NoPrice ELSE Older(store)
      BY <2>5 DEF Pass
    <3>2. basis # NoPrice => FromQuotes(store', basis) /\ store' # NoPrice
      BY <3>1, Reindexed, NotNone DEF FromQuotes
    <3>3. QED
      BY <3>1, <3>2
  <2>6. CASE UNCHANGED indexVars
    BY <2>6 DEF indexVars
  <2>7. QED
    BY <2>1, <2>2, <2>3, <2>4, <2>5, <2>6 DEF IndexNext, EngineTick
<1>3. QED
  BY <1>1, <1>2, PTL DEF IndexSpec

(* An answer gives a price that is not zero for some of the sources.       *)
LEMMA AnswerType ==
    ASSUME NEW q \in Answers
    PROVE  DOMAIN q \subseteq Sources /\ IsFiniteSet(DOMAIN q) /\ q \in [DOMAIN q -> Nat]
<1>1. PICK S \in SUBSET Sources : q \in [S -> HonestPrices \union OtherPrices]
  BY DEF Answers
<1>2. HonestPrices \union OtherPrices \subseteq Nat
  BY IndexPriceAssumption
<1>3. IsFiniteSet(S)
  BY IndexPriceAssumption, FS_Subset
<1>4. QED
  BY <1>1, <1>2, <1>3

(* The index stays with the majority: as long as more than half of the     *)
(* sources that answered quote the market, the index is the price of a     *)
(* source that was kept and lies in the market's range up to the           *)
(* threshold, whatever the others quote and weigh, for any sources,        *)
(* weights, prices and threshold (Aggregate).                              *)
THEOREM MajorityRules == IndexSpec => []MajorityHolds
<1>1. IndexInv => MajorityHolds
  <2>1. SUFFICES ASSUME IndexInv, basis # NoPrice,
                        2 * Cardinality(DOMAIN basis \intersect Honest) > Cardinality(DOMAIN basis)
                 PROVE  LET prices == {basis[s] : s \in DOMAIN basis \intersect Honest}
                        IN  /\ store.price * Den >= Min(prices) * (Den - Num)
                            /\ store.price * Den <= Max(prices) * (Den + Num)
                            /\ store.sources # {}
                            /\ \E s \in store.sources : basis[s] = store.price
    BY DEF MajorityHolds
  <2>2. PICK q, S, H : q = basis /\ S = DOMAIN basis /\ H = DOMAIN basis \intersect Honest
    OBVIOUS
  <2>3. q \in Answers /\ Aggregated(q) /\ IsIndex(store, WeightedMedian(q, Filtered(q)), Filtered(q))
    BY <2>1, <2>2 DEF IndexInv, FromQuotes
  <2>4. store.price = WeightedMedian(q, Filtered(q)) /\ store.sources = Filtered(q)
    BY <2>3 DEF IsIndex
  <2>5. S \subseteq Sources /\ IsFiniteSet(S) /\ q \in [S -> Nat] /\ H \in SUBSET S
    BY <2>2, <2>3, AnswerType
  <2>6. 2 * Cardinality(H) > Cardinality(S)
    BY <2>1, <2>2
  <2>7. Filtered(q) \in SUBSET S /\ Filtered(q) # {}
        /\ \A s \in Filtered(q) : WithinDeviation(q[s], MedianTwice(q))
    <3>1. Filtered(q) \in SUBSET S /\ \A s \in Filtered(q) : WithinDeviation(q[s], MedianTwice(q))
      BY <2>2 DEF Filtered
    <3>2. Cardinality(Filtered(q)) >= MinSources /\ MinSources \in Nat \ {0}
      BY <2>3, IndexPriceAssumption DEF Aggregated
    <3>3. QED
      BY <3>1, <3>2, FS_EmptySet
  <2>8. PICK s \in Filtered(q) : WeightedMedian(q, Filtered(q)) = q[s]
    BY <2>5, <2>7, WeightedMedianQuoted
  <2> DEFINE prices == {basis[x] : x \in DOMAIN basis \intersect Honest}
  <2>9. prices = {q[x] : x \in H} /\ IsFiniteSet(prices) /\ prices \in SUBSET Nat /\ prices # {}
    <3>1. prices = {q[x] : x \in H}
      BY <2>2
    <3>2. IsFiniteSet(H) /\ H # {}
      BY <2>5, <2>6, FS_Subset, FS_EmptySet, FS_CardinalityType
    <3>3. IsFiniteSet({q[x] : x \in H})
      BY <3>2, FiniteImage
    <3>4. QED
      BY <3>1, <3>2, <3>3, <2>5
  <2>10. PICK a \in Nat, b \in Nat : a = Min(prices) /\ b = Max(prices)
                                      /\ \A x \in prices : a <= x /\ x <= b
    <3> HIDE DEF prices
    <3>1. QED
      BY <2>9, MinOfNaturals, MaxOfFinite
  <2>11. \A x \in H : a <= q[x] /\ q[x] <= b
    BY <2>9, <2>10
  <2>12. MedianTwice(q) \in Nat /\ 2 * a <= MedianTwice(q) /\ MedianTwice(q) <= 2 * b
    BY <2>5, <2>6, <2>11, MedianWithin
  <2>13. q[s] * Den >= a * (Den - Num) /\ q[s] * Den <= b * (Den + Num)
    BY <2>5, <2>7, <2>8, <2>12, KeptWithin
  <2>14. QED
    <3> HIDE DEF prices
    <3>1. store.price = q[s] /\ s \in store.sources /\ basis[s] = store.price
      BY <2>2, <2>4, <2>8
    <3>2. /\ store.price * Den >= Min(prices) * (Den - Num)
          /\ store.price * Den <= Max(prices) * (Den + Num)
      BY <3>1, <2>10, <2>13
    <3>3. QED
      BY <3>1, <3>2 DEF prices
<1>2. QED
  BY <1>1, IndexInvHolds, PTL
=============================================================================
