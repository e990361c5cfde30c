----------------------------- MODULE IndexPrice -----------------------------
(***************************************************************************)
(* The index price service (internal/indexprice, cmd/indexprice/main.go):  *)
(* quotes of several exchanges are fetched, filtered against their median, *)
(* reduced to a weighted median, kept in memory, written to Redis, and     *)
(* served with a mark when they are stale.                                 *)
(*                                                                         *)
(* One symbol.  Times are ages that stop growing at MaxAge; prices are     *)
(* natural numbers, and the threshold is a ratio of two, so that nothing   *)
(* is rounded.                                                             *)
(***************************************************************************)
EXTENDS Integers, FiniteSetsExt, Functions

CONSTANTS Sources, SourceWeight,
          Honest,          \* sources that quote a price of the market
          HonestPrices, OtherPrices,
          Num, Den,        \* DeviationThreshold
          MinSources,
          StaleAfter,      \* stale_after_ms
          ServeLimit,      \* the 60 seconds of the server
          KeyTTL,          \* redis_key_ttl_ms
          MaxAge           \* where ages stop growing

ASSUME IndexPriceAssumption ==
    /\ IsFiniteSet(Sources) /\ SourceWeight \in [Sources -> Nat \ {0}]
    /\ Honest \subseteq Sources
    /\ HonestPrices \subseteq Nat \ {0} /\ OtherPrices \subseteq Nat \ {0}
    /\ Num \in Nat /\ Den \in Nat \ {0}
    /\ MinSources \in Nat \ {0}
    /\ MaxAge > StaleAfter /\ MaxAge > ServeLimit /\ MaxAge > KeyTTL

VARIABLES alive,     \* the sources that can be reached
          fetch,     \* the quotes of the tick under way, NoPrice between ticks
          store,     \* Store.data of the symbol
          indexKey,  \* Redis index:<symbol>, of which only the age counts
          basis      \* history: the quotes the price in the store came from

indexVars == <<alive, fetch, store, indexKey, basis>>

NoPrice == [none |-> TRUE]

IndexInit ==
    /\ alive = Sources
    /\ fetch = NoPrice
    /\ store = NoPrice /\ indexKey = NoPrice
    /\ basis = NoPrice

-----------------------------------------------------------------------------
(* The sources.                                                            *)

Toggle(s) ==
    /\ alive' = IF s \in alive THEN alive \ {s} ELSE alive \union {s}
    /\ UNCHANGED <<fetch, store, indexKey, basis>>

(* FetchPrice of a source that answers in time; prices that are not        *)
(* positive are errors (parseDecimalString).                               *)
QuotesOf(s) == IF s \in Honest THEN HonestPrices ELSE OtherPrices

Answers == UNION {{q \in [S -> HonestPrices \union OtherPrices] :
                     \A s \in S : q[s] \in QuotesOf(s)} : S \in SUBSET Sources}

(* fetchQuotes: all sources at once; the ones that fail are left out.      *)
FetchQuotes ==
    /\ fetch = NoPrice
    /\ fetch' \in {q \in Answers : DOMAIN q \subseteq alive}
    /\ UNCHANGED <<alive, store, indexKey, basis>>

-----------------------------------------------------------------------------
(* Aggregate.  q is a function from sources to prices.                     *)

(* The k-th of the sorted prices.                                          *)
Ranked(q, k) ==
    CHOOSE p \in {q[s] : s \in DOMAIN q} :
        /\ Cardinality({s \in DOMAIN q : q[s] < p}) < k
        /\ Cardinality({s \in DOMAIN q : q[s] <= p}) >= k

(* Twice the median (medianDecimal).                                       *)
MedianTwice(q) ==
    LET n == Cardinality(DOMAIN q)
        mid == n \div 2
    IN  IF n % 2 = 1 THEN 2 * Ranked(q, mid + 1) ELSE Ranked(q, mid) + Ranked(q, mid + 1)

Abs(n) == IF n < 0 THEN -n ELSE n

(* Mutant: a quote far from the others is kept.                            *)
WithinDeviationAlways(price, median2) == TRUE

WithinDeviation(price, median2) == Abs(2 * price - median2) * Den <= Num * median2

Filtered(q) ==
    LET median2 == MedianTwice(q) IN {s \in DOMAIN q : WithinDeviation(q[s], median2)}

(* weightedMedian: the lowest price at which half of the weight is         *)
(* reached.                                                                *)
WeightedMedian(q, kept) ==
    LET total == SumFunctionOnSet(SourceWeight, kept)
        upTo(p) == SumFunctionOnSet(SourceWeight, {s \in kept : q[s] <= p})
    IN  Min({p \in {q[s] : s \in kept} : 2 * upTo(p) >= total})

Aggregated(q) == DOMAIN q # {} /\ Cardinality(Filtered(q)) >= MinSources

-----------------------------------------------------------------------------
(* processSymbol, once the quotes are there.                               *)

(* publish: memory first, then Redis, which may fail.  The message to      *)
(* Kafka and the row of the audit table, which a goroutine of its own      *)
(* writes, are read by nothing here.                                       *)
PublishIndex ==
    /\ fetch # NoPrice /\ Aggregated(fetch)
    /\ \E kept \in {Filtered(fetch)} :
         store' = [price |-> WeightedMedian(fetch, kept), sources |-> kept, age |-> 0,
                   stale |-> FALSE]
    /\ indexKey' \in {indexKey, [age |-> 0]}
    /\ basis' = fetch
    /\ fetch' = NoPrice
    /\ UNCHANGED alive

(* Mutant: the time of the price is set when it is found to be stale.      *)
ApplyStaleRefresh(snap) == [snap EXCEPT !.age = 0, !.stale = snap.age > StaleAfter]

ApplyStale(snap) == [snap EXCEPT !.stale = snap.age > StaleAfter]

(* No result: the last price stays, with the time it is from.              *)
KeepLast ==
    /\ fetch # NoPrice /\ ~Aggregated(fetch)
    /\ store' = IF store = NoPrice THEN NoPrice ELSE ApplyStale(store)
    /\ fetch' = NoPrice
    /\ UNCHANGED <<alive, indexKey, basis>>

(* Run: a tick of the engine goes on until the next one is due.            *)
EngineTick == FetchQuotes \/ PublishIndex \/ KeepLast

Older(x) == [x EXCEPT !.age = Min({MaxAge, @ + 1})]

(* Time passes; the Redis key expires.                                     *)
Pass ==
    /\ store' = IF store = NoPrice THEN NoPrice ELSE Older(store)
    /\ indexKey' = IF indexKey = NoPrice \/ indexKey.age >= KeyTTL THEN NoPrice
                   ELSE Older(indexKey)
    /\ UNCHANGED <<alive, fetch, basis>>

IndexNext ==
    \/ \E s \in Sources : Toggle(s)
    \/ EngineTick
    \/ Pass

IndexSpec == IndexInit /\ [][IndexNext]_indexVars

(* The ticker of Run fires for ever, a tick ends, and time passes.         *)
IndexFairSpec ==
    /\ IndexSpec
    /\ WF_indexVars(FetchQuotes) /\ WF_indexVars(PublishIndex) /\ WF_indexVars(KeepLast)
    /\ WF_indexVars(Pass)

-----------------------------------------------------------------------------
(* GetIndexPrice: not found, or a price marked as stale or not.            *)
Served ==
    IF store = NoPrice THEN NoPrice
    ELSE [price |-> store.price, stale |-> store.stale \/ store.age > ServeLimit]

(* When more than half of the sources that answered quote the market, the  *)
(* index lies within the market's range, up to the threshold, whatever     *)
(* the others quote and weigh: the filter holds them to the median and the *)
(* median is the majority's (Aggregate).                                   *)
MajorityHolds ==
    basis # NoPrice =>
        LET honest == DOMAIN basis \intersect Honest
            prices == {basis[s] : s \in honest}
        IN  2 * Cardinality(honest) > Cardinality(DOMAIN basis) =>
                /\ store.price * Den >= Min(prices) * (Den - Num)
                /\ store.price * Den <= Max(prices) * (Den + Num)
                /\ store.sources # {} /\ \E s \in store.sources : basis[s] = store.price

(* When the sources stay away for good a price that is still served is     *)
(* sooner or later served as stale, and stays so, and the key in Redis is  *)
(* gone (applyStale, isStale, the key's TTL).                              *)
SilenceShows ==
    <>[](alive = {}) => <>[](indexKey = NoPrice /\ (store # NoPrice => Served.stale))
=============================================================================
