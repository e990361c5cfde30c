-------------------------- MODULE SettlementProofs --------------------------
(***************************************************************************)
(* Theorems about Settlement: one client_order_id is one order, the        *)
(* holdings of a user follow the trades and adjustments, and what is       *)
(* frozen is what the orders of the account need, for any users, requests, *)
(* prices, quantities, rules, batches and repeated events; and every       *)
(* variable keeps its type.                                                *)
(***************************************************************************)
EXTENDS Settlement, InductionFacts

(* A row of the table orders.                                              *)
Row == {o \in [user : Users, client : Nat, side : {"buy", "sell"}, type : {"limit", "market"},
               price : Nat, qty : Nat \ {0}, filled : Nat, status : Status] :
            o.filled <= o.qty}

(* A trade of two orders of the table, on opposite sides.                  *)
GoodTrade ==
    {tr \in [maker : Ids \cap DOMAIN orders, taker : DOMAIN orders, price : Nat, qty : Nat \ {0}] :
        /\ orders[tr.maker].side # orders[tr.taker].side
        /\ tr.qty <= orders[tr.maker].qty}

(* An event does not report more than the order asked for.                 *)
GoodEvent ==
    {ev \in [id : DOMAIN orders, type : EventType, filled : Nat \cup {NoFill}, seq : Nat] :
        ev.filled <= orders[ev.id].qty}

Outcome == [kind : {"New", "Cancel"}, id : DOMAIN orders, trades : Seq(GoodTrade), seq : Nat]

Command == [kind : {"New", "Cancel"}, id : DOMAIN orders]

Accounts == [Users -> [Assets -> [free : Nat, frozen : Nat]]]

(* A request is only under way when it was found valid.                    *)
Valid == {req \in Request : ValidatePlaceOrder(req.spec)}

(* What is kept about the orders, the money and everything under way.      *)
Types ==
    /\ orders \in Seq(Row)
    /\ account \in Accounts
    /\ inflight \subseteq Valid
    /\ billed \subseteq Adjustments /\ IsFiniteSet(billed)
    /\ cmds \in Seq(Command) /\ pos \in Nat
    /\ book \in [Ids -> Int]
    /\ \A m \in Ids : book[m] > 0 => m \in DOMAIN orders /\ book[m] <= orders[m].qty
    /\ batch \in Seq(Outcome)
    /\ matchEvents \in Seq(GoodEvent) /\ mPos \in Nat
    /\ tradeEvents \in Seq(GoodTrade) /\ tPos \in Nat
    /\ trades \subseteq GoodTrade /\ IsFiniteSet(trades)

(* The keys of orders and answers.                                         *)
Keys ==
    /\ \A i, j \in DOMAIN orders :
         (orders[i].user = orders[j].user /\ orders[i].client = orders[j].client) => i = j
    /\ \A x \in answers : /\ x.id \in DOMAIN orders
                          /\ orders[x.id].user = x.user /\ orders[x.id].client = x.client

Holding(acc, u, a) == acc[u][a].free + acc[u][a].frozen

(* What a user has of an asset is what was paid in, billed and gained.     *)
Books ==
    \A u \in Users, a \in Assets :
        Holding(account, u, a) = Deposit[a] + Billed(u, a) + Gained(u, a)

-----------------------------------------------------------------------------
(* Amounts.                                                                *)

LEMMA Remainder ==
    ASSUME NEW n \in Nat, NEW k \in Nat \ {0}
    PROVE  n % k \in Nat /\ n - (n % k) \in Nat
  OBVIOUS

LEMMA Product ==
    ASSUME NEW m \in Nat, NEW n \in Nat
    PROVE  m * n \in Nat
  OBVIOUS

LEMMA Quotient ==
    ASSUME NEW n \in Nat, NEW k \in Nat \ {0}
    PROVE  n \div k \in Nat
  OBVIOUS

LEMMA Rounded ==
    ASSUME NEW a, NEW n \in Nat
    PROVE  RoundDown(a, n) \in Nat /\ RoundUp(a, n) \in Nat
<1>1. Unit \in Nat \ {0}
  BY SettlementAssumption
<1>2. n - (n % Unit) \in Nat
  BY <1>1, Remainder
<1>3. QED
  BY <1>1, <1>2 DEF RoundDown, RoundUp

(* Paid and Got are the two assets.                                        *)
LEMMA TwoAssets ==
    ASSUME NEW s \in {"buy", "sell"}, NEW t \in {"buy", "sell"}
    PROVE  /\ Paid(s) \in Assets /\ Got(s) \in Assets /\ Paid(s) # Got(s)
           /\ Assets = {Paid(s), Got(s)}
           /\ s # t => Paid(t) = Got(s) /\ Got(t) = Paid(s)
  BY DEF Paid, Got, Assets

LEMMA RowFields ==
    ASSUME NEW o \in Row
    PROVE  /\ o.user \in Users /\ o.client \in Nat /\ o.side \in {"buy", "sell"} /\ o.price \in Nat
           /\ o.qty \in Nat \ {0} /\ o.filled \in Nat /\ o.filled <= o.qty /\ o.status \in Status
  BY DEF Row

(* What is locked and what is released is never negative.                  *)
LEMMA FreezeNat ==
    ASSUME NEW o \in Row
    PROVE  Locked(o) \in Nat /\ RoundDown(Paid(o.side), RemainingFreeze(o)) \in Nat
<1>1. /\ o.price \in Nat /\ o.qty \in Nat \ {0} /\ o.filled \in Nat /\ o.filled <= o.qty
  BY RowFields
<1>2. o.qty - o.filled \in Nat
  BY <1>1
<1>3. ComputeFreeze(o) \in Nat
  BY <1>1, Product DEF ComputeFreeze
<1>4. ComputeFreeze(o) * (o.qty - o.filled) \in Nat
  BY <1>2, <1>3, Product
<1>5. (ComputeFreeze(o) * (o.qty - o.filled)) \div o.qty \in Nat
  BY <1>1, <1>4, Quotient
<1>6. RemainingFreeze(o) \in Nat
  BY <1>2, <1>5 DEF RemainingFreeze
<1>7. QED
  BY <1>3, <1>6, Rounded DEF Locked

LEMMA SmallerOf ==
    ASSUME NEW m \in Int, NEW n \in Int
    PROVE  Min({m, n}) \in {m, n} /\ Min({m, n}) <= m /\ Min({m, n}) <= n
  BY DEF Min

-----------------------------------------------------------------------------
(* Accounts.                                                               *)

Balance == [free : Nat, frozen : Nat]

Put(acc, v, p, row) == [acc EXCEPT ![v] = [acc[v] EXCEPT ![p] = row]]

OnlyRow(new, acc, v, p, row) ==
    /\ new \in Accounts /\ new[v][p] = row
    /\ \A u \in Users, a \in Assets : (u # v \/ a # p) => new[u][a] = acc[u][a]

(* One row of the table gets other amounts.                                *)
LEMMA OneRow ==
    ASSUME NEW acc \in Accounts, NEW v \in Users, NEW p \in Assets, NEW row \in Balance
    PROVE  OnlyRow(Put(acc, v, p, row), acc, v, p, row)
<1>1. acc \in [Users -> [Assets -> Balance]]
  BY DEF Accounts, Balance
<1>2. PICK mine : mine = [acc[v] EXCEPT ![p] = row]
  OBVIOUS
<1>3. /\ mine \in [Assets -> Balance] /\ mine[p] = row
      /\ \A a \in Assets : a # p => mine[a] = acc[v][a]
  BY <1>1, <1>2
<1>4. PICK new : new = [acc EXCEPT ![v] = mine]
  OBVIOUS
<1>5. /\ new \in [Users -> [Assets -> Balance]] /\ new[v] = mine
      /\ \A u \in Users : u # v => new[u] = acc[u]
  BY <1>1, <1>3, <1>4
<1>6. new = Put(acc, v, p, row)
  BY <1>2, <1>4 DEF Put
<1>7. new \in Accounts /\ new[v][p] = row
  BY <1>3, <1>5 DEF Accounts, Balance
<1>8. \A u \in Users, a \in Assets : (u # v \/ a # p) => new[u][a] = acc[u][a]
  BY <1>3, <1>5
<1>9. QED
  BY <1>6, <1>7, <1>8 DEF OnlyRow

(* ... that come to as much as before.                                     *)
LEMMA OneRowSame ==
    ASSUME NEW acc \in Accounts, NEW v \in Users, NEW p \in Assets, NEW row \in Balance,
           row.free + row.frozen = Holding(acc, v, p)
    PROVE  /\ Put(acc, v, p, row) \in Accounts
           /\ \A u \in Users, a \in Assets :
                 Holding(Put(acc, v, p, row), u, a) = Holding(acc, u, a)
<1>1. PICK new : new = Put(acc, v, p, row)
  OBVIOUS
<1>a. OnlyRow(new, acc, v, p, row)
  BY <1>1, OneRow
<1>2. /\ new \in Accounts /\ new[v][p] = row
      /\ \A u \in Users, a \in Assets : (u # v \/ a # p) => new[u][a] = acc[u][a]
  BY <1>a DEF OnlyRow
<1>3. ASSUME NEW u \in Users, NEW a \in Assets PROVE Holding(new, u, a) = Holding(acc, u, a)
  <2>1. CASE u = v /\ a = p
    BY <1>2, <2>1 DEF Holding
  <2>2. CASE ~(u = v /\ a = p)
    BY <1>2, <2>2 DEF Holding
  <2>3. QED
    BY <2>1, <2>2
<1>4. QED
  BY <1>1, <1>2, <1>3

OnlyRows(new, acc, v, p, x, g, y) ==
    /\ new \in Accounts /\ new[v][p] = x /\ new[v][g] = y
    /\ \A u \in Users : u # v => \A a \in Assets : new[u][a] = acc[u][a]

(* Two rows of one user.                                                   *)
LEMMA TwoRows ==
    ASSUME NEW acc \in Accounts, NEW v \in Users, NEW p \in Assets, NEW g \in Assets, p # g,
           NEW x \in Balance, NEW y \in Balance
    PROVE  OnlyRows(Put(Put(acc, v, p, x), v, g, y), acc, v, p, x, g, y)
<1>1. PICK one : one = Put(acc, v, p, x)
  OBVIOUS
<1>a. OnlyRow(one, acc, v, p, x)
  BY <1>1, OneRow
<1>2. /\ one \in Accounts /\ one[v][p] = x
      /\ \A u \in Users, a \in Assets : (u # v \/ a # p) => one[u][a] = acc[u][a]
  BY <1>a DEF OnlyRow
<1>3. PICK two : two = Put(one, v, g, y)
  OBVIOUS
<1>b. OnlyRow(two, one, v, g, y)
  BY <1>2, <1>3, OneRow
<1>4. /\ two \in Accounts /\ two[v][g] = y
      /\ \A u \in Users, a \in Assets : (u # v \/ a # g) => two[u][a] = one[u][a]
  BY <1>b DEF OnlyRow
<1>5. two[v][p] = x /\ \A u \in Users : u # v => \A a \in Assets : two[u][a] = acc[u][a]
  BY <1>2, <1>4
<1>6. QED
  BY <1>1, <1>3, <1>4, <1>5 DEF OnlyRows

(* Locking moves what is there from the free to the frozen part.           *)
LEMMA LockKeeps ==
    ASSUME NEW acc \in Accounts, NEW o \in Row, acc[o.user][Paid(o.side)].free >= Locked(o)
    PROVE  /\ Lock(acc, o) \in Accounts
           /\ \A u \in Users, a \in Assets : Holding(Lock(acc, o), u, a) = Holding(acc, u, a)
<1>1. PICK n \in Nat : n = Locked(o)
  BY FreezeNat
<1>2. PICK v \in Users, p \in Assets : v = o.user /\ p = Paid(o.side)
  BY RowFields, TwoAssets
<1>3. PICK f \in Nat, z \in Nat : f = acc[v][p].free /\ z = acc[v][p].frozen
  BY DEF Accounts
<1>4. f >= n /\ f - n \in Nat /\ z + n \in Nat /\ (f - n) + (z + n) = f + z
  BY <1>1, <1>2, <1>3
<1>a. PICK row \in Balance : row = [free |-> f - n, frozen |-> z + n]
  BY <1>4 DEF Balance
<1>5. Lock(acc, o) = Put(acc, v, p, row)
  BY <1>1, <1>2, <1>3, <1>a DEF Lock, Put
<1>6. row.free + row.frozen = Holding(acc, v, p)
  BY <1>3, <1>4, <1>a DEF Holding
<1>7. QED
  BY <1>5, <1>6, OneRowSame

(* Releasing moves back no more than is frozen.                            *)
LEMMA ReleaseKeeps ==
    ASSUME NEW acc \in Accounts, NEW v \in Users, NEW p \in Assets, NEW n \in Nat
    PROVE  /\ ReleaseFunds(acc, v, p, n) \in Accounts
           /\ \A u \in Users, a \in Assets :
                 Holding(ReleaseFunds(acc, v, p, n), u, a) = Holding(acc, u, a)
<1>1. PICK f \in Nat, z \in Nat : f = acc[v][p].free /\ z = acc[v][p].frozen
  BY DEF Accounts
<1>2. PICK m : m = Min({z, n})
  OBVIOUS
<1>3. m \in Nat /\ m <= z
  <2>1. z \in Int /\ n \in Int
    OBVIOUS
  <2>2. m \in {z, n} /\ m <= z
    BY <1>2, <2>1, SmallerOf, Zenon
  <2>3. QED
    BY <2>2
<1>4. f + m \in Nat /\ z - m \in Nat /\ (f + m) + (z - m) = f + z
  BY <1>3
<1>a. PICK row \in Balance : row = [free |-> f + m, frozen |-> z - m]
  BY <1>4 DEF Balance
<1>5. ReleaseFunds(acc, v, p, n) = Put(acc, v, p, row)
  BY <1>1, <1>2, <1>a DEF ReleaseFunds, Put
<1>6. row.free + row.frozen = Holding(acc, v, p)
  BY <1>1, <1>4, <1>a DEF Holding
<1>7. QED
  BY <1>5, <1>6, OneRowSame

LEMMA ReleaseRemainingKeeps ==
    ASSUME NEW acc \in Accounts, NEW o \in Row
    PROVE  /\ ReleaseOrderRemainingFreeze(acc, o) \in Accounts
           /\ \A u \in Users, a \in Assets :
                 Holding(ReleaseOrderRemainingFreeze(acc, o), u, a) = Holding(acc, u, a)
  BY RowFields, TwoAssets, FreezeNat, ReleaseKeeps DEF ReleaseOrderRemainingFreeze

LEMMA AfterFillKeeps ==
    ASSUME NEW acc \in Accounts, NEW o \in Row
    PROVE  /\ AfterFill(acc, o) \in Accounts
           /\ \A u \in Users, a \in Assets : Holding(AfterFill(acc, o), u, a) = Holding(acc, u, a)
  BY ReleaseRemainingKeeps DEF AfterFill

(* What the order pays and gets in the trade.                              *)
Change(o, tr, a) == IF a = Got(o.side) THEN Amount(a, tr) ELSE -Amount(a, tr)

LEMMA AmountNat ==
    ASSUME NEW tr, tr.price \in Nat, tr.qty \in Nat, NEW a
    PROVE  Amount(a, tr) \in Nat
<1>1. tr.price * tr.qty \in Nat
  BY Product
<1>2. QED
  BY <1>1, Rounded DEF Amount

(* The trade changes what the user of the order has by what it pays and    *)
(* gets, and leaves alone what is frozen in the other asset.               *)
LEMMA SettleChanges ==
    ASSUME NEW acc \in Accounts, NEW o \in Row, NEW tr, tr.price \in Nat, tr.qty \in Nat,
           acc[o.user][Paid(o.side)].frozen >= Amount(Paid(o.side), tr)
    PROVE  /\ SettleTradeForUser(acc, o, tr) \in Accounts
           /\ \A a \in Assets : Holding(SettleTradeForUser(acc, o, tr), o.user, a)
                                  = Holding(acc, o.user, a) + Change(o, tr, a)
           /\ \A u \in Users \ {o.user} : SettleTradeForUser(acc, o, tr)[u] = acc[u]
           /\ SettleTradeForUser(acc, o, tr)[o.user][Got(o.side)].frozen
                = acc[o.user][Got(o.side)].frozen
<1>1. PICK v \in Users, p \in Assets, g \in Assets : v = o.user /\ p = Paid(o.side) /\ g = Got(o.side)
  BY RowFields, TwoAssets
<1>2. p # g /\ Assets = {p, g}
  BY <1>1, RowFields, TwoAssets
<1>3. PICK m \in Nat, n \in Nat : m = Amount(p, tr) /\ n = Amount(g, tr)
  BY AmountNat
<1>4. acc \in [Users -> [Assets -> Balance]]
  BY DEF Accounts, Balance
<1>5. PICK x \in Balance, y \in Balance : x = acc[v][p] /\ y = acc[v][g]
  BY <1>4
<1>6. x.free \in Nat /\ x.frozen \in Nat /\ y.free \in Nat /\ y.frozen \in Nat /\ x.frozen >= m
  BY <1>1, <1>3, <1>5 DEF Balance
<1>7. PICK xx : xx = [x EXCEPT !.frozen = @ - m]
  OBVIOUS
<1>8. PICK yy : yy = [y EXCEPT !.free = @ + n]
  OBVIOUS
<1>9. xx \in Balance /\ xx.free = x.free /\ xx.frozen = x.frozen - m
  BY <1>6, <1>7 DEF Balance
<1>10. yy \in Balance /\ yy.free = y.free + n /\ yy.frozen = y.frozen
  BY <1>6, <1>8 DEF Balance
<1>11. PICK two : two = Put(Put(acc, v, p, xx), v, g, yy)
  OBVIOUS
<1>a. OnlyRows(two, acc, v, p, xx, g, yy)
  BY <1>2, <1>9, <1>10, <1>11, TwoRows
<1>12. /\ two \in Accounts /\ two[v][p] = xx /\ two[v][g] = yy
       /\ \A u \in Users : u # v => \A a \in Assets : two[u][a] = acc[u][a]
  BY <1>a DEF OnlyRows
<1>13. two = SettleTradeForUser(acc, o, tr)
  <2>1. PICK one : one = Put(acc, v, p, xx)
    OBVIOUS
  <2>2. one = [acc EXCEPT ![v][p].frozen = @ - m]
    BY <1>4, <1>5, <1>7, <2>1 DEF Put
  <2>3. one[v][g] = y
    BY <1>2, <1>4, <1>5, <2>1 DEF Put
  <2>4. two = [one EXCEPT ![v][g].free = @ + n]
    BY <1>8, <1>11, <2>1, <2>3 DEF Put
  <2>5. SettleTradeForUser(acc, o, tr) = [[acc EXCEPT ![v][p].frozen = @ - m] EXCEPT ![v][g].free = @ + n]
    BY <1>1, <1>3 DEF SettleTradeForUser
  <2>6. QED
    BY <2>2, <2>4, <2>5
<1>15. /\ Holding(two, v, p) = Holding(acc, v, p) - m
       /\ Holding(two, v, g) = Holding(acc, v, g) + n
  BY <1>5, <1>6, <1>9, <1>10, <1>12 DEF Holding
<1>16. Change(o, tr, p) = -m /\ Change(o, tr, g) = n
  BY <1>1, <1>2, <1>3 DEF Change
<1>17. ASSUME NEW u \in Users \ {v} PROVE two[u] = acc[u]
  <2>1. two \in [Users -> [Assets -> Balance]]
    BY <1>12 DEF Accounts, Balance
  <2>2. \A a \in Assets : two[u][a] = acc[u][a]
    BY <1>12, <1>17
  <2>3. QED
    BY <1>4, <2>1, <2>2
<1>18. \A a \in Assets : Holding(two, v, a) = Holding(acc, v, a) + Change(o, tr, a)
  <2>1. Holding(acc, v, p) \in Int
    BY <1>5, <1>6 DEF Holding
  <2>2. QED
    BY <1>2, <1>15, <1>16, <2>1
<1>19. QED
  BY <1>1, <1>5, <1>10, <1>12, <1>13, <1>17, <1>18

-----------------------------------------------------------------------------
(* What a user gained.                                                     *)

(* The rows that ListTrades shows, and Gained, of any two tables.          *)
UserTradeIn(ords, u, tr) ==
    LET mine == IF ords[tr.maker].user = u THEN tr.maker ELSE tr.taker
    IN  [tr |-> tr, order |-> mine, side |-> ords[mine].side, isMaker |-> mine = tr.maker]

ShownIn(ords, trs, u) ==
    {UserTradeIn(ords, u, tr) : tr \in {x \in trs : u \in {ords[x.maker].user, ords[x.taker].user}}}

DeltaIn(ords, a, row) ==
    IF ords[row.tr.maker].user = ords[row.tr.taker].user THEN 0
    ELSE IF Got(row.side) = a THEN Amount(a, row.tr) ELSE -Amount(a, row.tr)

GainedIn(ords, trs, u, a) ==
    SumFunction([row \in ShownIn(ords, trs, u) |-> DeltaIn(ords, a, row)])

LEMMA GainedIsIn ==
    ASSUME NEW u, NEW a
    PROVE  /\ Gained(u, a) = GainedIn(orders, trades, u, a)
           /\ Gained(u, a)' = GainedIn(orders', trades', u, a)
  BY DEF Gained, GainedIn, ListTrades, ShownIn, UserTrade, UserTradeIn, DeltaIn

(* The tables agree about who traded, and on which side.                   *)
Agree(ords, new, trs) ==
    \A tr \in trs : /\ new[tr.maker].user = ords[tr.maker].user
                    /\ new[tr.taker].user = ords[tr.taker].user
                    /\ new[tr.maker].side = ords[tr.maker].side
                    /\ new[tr.taker].side = ords[tr.taker].side

Priced(trs) == \A tr \in trs : tr.price \in Nat /\ tr.qty \in Nat

LEMMA ShownRow ==
    ASSUME NEW ords, NEW trs, NEW u, NEW row \in ShownIn(ords, trs, u)
    PROVE  /\ row.tr \in trs /\ u \in {ords[row.tr.maker].user, ords[row.tr.taker].user}
           /\ row = UserTradeIn(ords, u, row.tr)
  BY DEF ShownIn, UserTradeIn

LEMMA ShownSame ==
    ASSUME NEW ords, NEW new, NEW trs, Agree(ords, new, trs), NEW u, NEW a
    PROVE  /\ ShownIn(new, trs, u) = ShownIn(ords, trs, u)
           /\ \A row \in ShownIn(ords, trs, u) : DeltaIn(new, a, row) = DeltaIn(ords, a, row)
<1>1. ASSUME NEW tr \in trs PROVE UserTradeIn(new, u, tr) = UserTradeIn(ords, u, tr)
  BY DEF Agree, UserTradeIn
<1>2. {x \in trs : u \in {new[x.maker].user, new[x.taker].user}}
        = {x \in trs : u \in {ords[x.maker].user, ords[x.taker].user}}
  BY DEF Agree
<1>3. ShownIn(new, trs, u) = ShownIn(ords, trs, u)
  BY <1>1, <1>2 DEF ShownIn
<1>4. ASSUME NEW row \in ShownIn(ords, trs, u)
      PROVE  DeltaIn(new, a, row) = DeltaIn(ords, a, row)
  BY ShownRow DEF Agree, DeltaIn
<1>5. QED
  BY <1>3, <1>4

LEMMA ShownFinite ==
    ASSUME NEW ords, NEW trs, IsFiniteSet(trs), NEW u
    PROVE  IsFiniteSet(ShownIn(ords, trs, u))
<1>1. PICK S : S = {x \in trs : u \in {ords[x.maker].user, ords[x.taker].user}}
  OBVIOUS
<1>2. IsFiniteSet(S)
  BY <1>1, FS_Subset
<1>3. PICK f : f = [tr \in S |-> UserTradeIn(ords, u, tr)]
  OBVIOUS
<1>4. ShownIn(ords, trs, u) = {f[x] : x \in S}
  BY <1>1, <1>3 DEF ShownIn
<1>5. QED
  BY <1>2, <1>4, FiniteImage

LEMMA DeltaInt ==
    ASSUME NEW ords, NEW trs, Priced(trs), NEW u, NEW a, NEW row \in ShownIn(ords, trs, u)
    PROVE  DeltaIn(ords, a, row) \in Int
<1>1. row.tr \in trs
  BY ShownRow
<1>2. Amount(a, row.tr) \in Nat
  BY <1>1, AmountNat DEF Priced
<1>3. QED
  BY <1>2 DEF DeltaIn

(* Nothing is gained by what does not concern the trades.                  *)
LEMMA GainedSame ==
    ASSUME NEW ords, NEW new, NEW trs, Agree(ords, new, trs), IsFiniteSet(trs), NEW u, NEW a
    PROVE  GainedIn(new, trs, u, a) = GainedIn(ords, trs, u, a)
<1>1. PICK S : S = ShownIn(ords, trs, u)
  OBVIOUS
<1>2. IsFiniteSet(S) /\ ShownIn(new, trs, u) = S
  BY <1>1, ShownFinite, ShownSame
<1>3. PICK f, g : f = [row \in S |-> DeltaIn(ords, a, row)] /\ g = [row \in S |-> DeltaIn(new, a, row)]
  OBVIOUS
<1>4. \A row \in S : g[row] = f[row]
  BY <1>1, <1>3, ShownSame
<1>5. SumFunctionOnSet(g, S) = SumFunctionOnSet(f, S)
  BY <1>2, <1>4, SumSame
<1>6. GainedIn(new, trs, u, a) = SumFunctionOnSet(g, S) /\ GainedIn(ords, trs, u, a) = SumFunctionOnSet(f, S)
  BY <1>1, <1>2, <1>3 DEF GainedIn, SumFunction
<1>7. QED
  BY <1>5, <1>6

(* What user u gains by the trade.                                         *)
GainOf(ords, tr, u, a) ==
    IF ords[tr.maker].user = ords[tr.taker].user THEN 0
    ELSE IF u = ords[tr.maker].user THEN Change(ords[tr.maker], tr, a)
    ELSE IF u = ords[tr.taker].user THEN Change(ords[tr.taker], tr, a)
    ELSE 0

(* One more trade.                                                         *)
LEMMA GainedMore ==
    ASSUME NEW ords, NEW trs, IsFiniteSet(trs), NEW tr, tr \notin trs, Priced(trs \cup {tr}),
           NEW u, NEW a
    PROVE  /\ GainedIn(ords, trs, u, a) \in Int
           /\ GainedIn(ords, trs \cup {tr}, u, a) = GainedIn(ords, trs, u, a) + GainOf(ords, tr, u, a)
<1>1. PICK S, R : S = ShownIn(ords, trs, u) /\ R = ShownIn(ords, trs \cup {tr}, u)
  OBVIOUS
<1>2. IsFiniteSet(S) /\ IsFiniteSet(R)
  <2>1. IsFiniteSet(trs \cup {tr})
    BY FS_AddElement
  <2>2. QED
    BY <1>1, <2>1, ShownFinite
<1>3. PICK f, g : f = [row \in S |-> DeltaIn(ords, a, row)] /\ g = [row \in R |-> DeltaIn(ords, a, row)]
  OBVIOUS
<1>4. /\ GainedIn(ords, trs, u, a) = SumFunctionOnSet(f, S)
      /\ GainedIn(ords, trs \cup {tr}, u, a) = SumFunctionOnSet(g, R)
  BY <1>1, <1>3 DEF GainedIn, SumFunction
<1>5. (\A row \in S : f[row] \in Int) /\ (\A row \in R : g[row] \in Int)
  <2>1. Priced(trs)
    BY DEF Priced
  <2>2. QED
    BY <1>1, <1>3, <2>1, DeltaInt
<1>6. SumFunctionOnSet(f, S) \in Int
  BY <1>2, <1>5, SumTakes
<1>7. CASE u \notin {ords[tr.maker].user, ords[tr.taker].user}
  <2>1. R = S
    BY <1>1, <1>7 DEF ShownIn
  <2>2. GainOf(ords, tr, u, a) = 0
    BY <1>7 DEF GainOf
  <2>3. QED
    BY <1>3, <1>4, <1>6, <2>1, <2>2
<1>8. CASE u \in {ords[tr.maker].user, ords[tr.taker].user}
  <2>1. PICK row : row = UserTradeIn(ords, u, tr)
    OBVIOUS
  <2>2. row.tr = tr /\ row \notin S
    BY <1>1, <2>1, ShownRow DEF UserTradeIn
  <2>3. R = S \cup {row}
    BY <1>1, <1>8, <2>1 DEF ShownIn
  <2>4. row \in R /\ R \ {row} = S
    BY <2>2, <2>3
  <2>5. SumFunctionOnSet(g, R) = g[row] + SumFunctionOnSet(g, S)
    BY <1>2, <1>5, <2>4, SumTakes
  <2>6. SumFunctionOnSet(g, S) = SumFunctionOnSet(f, S)
    <3>1. \A x \in S : g[x] = f[x]
      BY <1>3, <2>3
    <3>2. QED
      BY <1>2, <3>1, SumSame
  <2>7. g[row] = GainOf(ords, tr, u, a)
    <3>1. g[row] = DeltaIn(ords, a, row)
      BY <1>3, <2>4
    <3>2. row.side = IF ords[tr.maker].user = u THEN ords[tr.maker].side ELSE ords[tr.taker].side
      BY <2>1 DEF UserTradeIn
    <3>3. QED
      BY <1>8, <2>2, <3>1, <3>2 DEF DeltaIn, GainOf, Change
  <2>8. QED
    BY <1>4, <1>5, <1>6, <2>4, <2>5, <2>6, <2>7
<1>9. QED
  BY <1>4, <1>6, <1>7, <1>8

LEMMA GainedInt ==
    ASSUME NEW ords, NEW trs, IsFiniteSet(trs), Priced(trs), NEW u, NEW a
    PROVE  GainedIn(ords, trs, u, a) \in Int
<1>1. PICK S : S = ShownIn(ords, trs, u)
  OBVIOUS
<1>2. PICK f : f = [row \in S |-> DeltaIn(ords, a, row)]
  OBVIOUS
<1>3. IsFiniteSet(S) /\ \A row \in S : f[row] \in Int
  BY <1>1, <1>2, ShownFinite, DeltaInt
<1>4. QED
  BY <1>1, <1>2, <1>3, SumTakes DEF GainedIn, SumFunction

(* One more adjustment.                                                    *)
Adjusted(adj, u, a) == IF adj.user = u /\ adj.asset = a THEN adj.change ELSE 0

BilledIn(bills, u, a) ==
    SumFunction([b \in bills |-> IF b.user = u /\ b.asset = a THEN b.change ELSE 0])

LEMMA BilledMore ==
    ASSUME NEW bills, IsFiniteSet(bills), NEW adj, adj \notin bills,
           \A b \in bills \cup {adj} : b.change \in Int, NEW u, NEW a
    PROVE  /\ BilledIn(bills, u, a) \in Int
           /\ BilledIn(bills \cup {adj}, u, a) = BilledIn(bills, u, a) + Adjusted(adj, u, a)
<1>1. PICK R : R = bills \cup {adj}
  OBVIOUS
<1>2. IsFiniteSet(R) /\ adj \in R /\ R \ {adj} = bills
  BY <1>1, FS_AddElement
<1>3. PICK f, g : /\ f = [b \in bills |-> IF b.user = u /\ b.asset = a THEN b.change ELSE 0]
                  /\ g = [b \in R |-> IF b.user = u /\ b.asset = a THEN b.change ELSE 0]
  OBVIOUS
<1>4. BilledIn(bills, u, a) = SumFunctionOnSet(f, bills) /\ BilledIn(R, u, a) = SumFunctionOnSet(g, R)
  BY <1>3 DEF BilledIn, SumFunction
<1>5. (\A b \in bills : f[b] \in Int /\ g[b] = f[b]) /\ (\A b \in R : g[b] \in Int)
  BY <1>1, <1>3
<1>6. SumFunctionOnSet(f, bills) \in Int /\ SumFunctionOnSet(g, bills) = SumFunctionOnSet(f, bills)
  BY <1>5, SumTakes, SumSame
<1>7. SumFunctionOnSet(g, R) = g[adj] + SumFunctionOnSet(g, bills)
  BY <1>2, <1>5, SumTakes
<1>8. g[adj] = (IF adj.user = u /\ adj.asset = a THEN adj.change ELSE 0) /\ g[adj] \in Int
  BY <1>2, <1>3, <1>5
<1>9. QED
  BY <1>1, <1>4, <1>6, <1>7, <1>8 DEF Adjusted

-----------------------------------------------------------------------------
(* The table of orders grows, and an order keeps what it asked for.        *)

SameOrder(o, n) == n.user = o.user /\ n.client = o.client /\ n.side = o.side /\ n.qty = o.qty

Grows == \A i \in DOMAIN orders : i \in DOMAIN orders' /\ SameOrder(orders[i], orders'[i])

LEMMA LargerSeq ==
    ASSUME NEW S, NEW T, S \subseteq T, NEW s \in Seq(S)
    PROVE  s \in Seq(T)
  OBVIOUS

(* What was right of the orders stays right.                               *)
LEMMA Growing ==
    ASSUME Types, Grows
    PROVE  /\ GoodTrade \subseteq GoodTrade'
           /\ cmds \in Seq(Command') /\ batch \in Seq(Outcome')
           /\ matchEvents \in Seq(GoodEvent') /\ tradeEvents \in Seq(GoodTrade')
           /\ trades \subseteq GoodTrade'
           /\ \A m \in Ids : book[m] > 0 => m \in DOMAIN orders' /\ book[m] <= orders'[m].qty
<1>1. GoodTrade \subseteq GoodTrade'
  BY DEF GoodTrade, Grows, SameOrder
<1>2. GoodEvent \subseteq GoodEvent'
  BY DEF GoodEvent, Grows, SameOrder
<1>3. Command \subseteq Command'
  BY DEF Command, Grows
<1>4. Outcome \subseteq Outcome'
  <2>1. Seq(GoodTrade) \subseteq Seq(GoodTrade')
    BY <1>1, LargerSeq
  <2>2. QED
    BY <2>1 DEF Outcome, Grows
<1>5. /\ cmds \in Seq(Command) /\ batch \in Seq(Outcome) /\ matchEvents \in Seq(GoodEvent)
      /\ tradeEvents \in Seq(GoodTrade) /\ trades \subseteq GoodTrade
  BY DEF Types
<1>6. cmds \in Seq(Command') /\ batch \in Seq(Outcome')
  BY <1>3, <1>4, <1>5, LargerSeq
<1>7. matchEvents \in Seq(GoodEvent') /\ tradeEvents \in Seq(GoodTrade')
  BY <1>1, <1>2, <1>5, LargerSeq
<1>8. \A m \in Ids : book[m] > 0 => m \in DOMAIN orders' /\ book[m] <= orders'[m].qty
  BY DEF Types, Grows, SameOrder
<1>9. QED
  BY <1>1, <1>5, <1>6, <1>7, <1>8

(* One row of the table is replaced.                                       *)
LEMMA RowReplaced ==
    ASSUME Types, NEW i \in DOMAIN orders, NEW o \in Row, SameOrder(orders[i], o),
           orders' = [orders EXCEPT ![i] = o]
    PROVE  Grows /\ orders' \in Seq(Row) /\ DOMAIN orders' = DOMAIN orders
<1>1. orders \in Seq(Row)
  BY DEF Types
<1>2. orders' \in Seq(Row) /\ DOMAIN orders' = DOMAIN orders
  BY <1>1
<1>3. \A j \in DOMAIN orders : orders'[j] = IF j = i THEN o ELSE orders[j]
  BY <1>1
<1>4. QED
  BY <1>2, <1>3 DEF Grows, SameOrder

(* The row is added.                                                       *)
LEMMA RowAdded ==
    ASSUME Types, NEW o \in Row, orders' = Append(orders, o)
    PROVE  /\ Grows /\ orders' \in Seq(Row)
           /\ DOMAIN orders' = DOMAIN orders \cup {Len(orders) + 1}
           /\ orders'[Len(orders) + 1] = o /\ Len(orders) + 1 \notin DOMAIN orders
           /\ \A i \in DOMAIN orders : orders'[i] = orders[i]
<1>1. orders \in Seq(Row)
  BY DEF Types
<1>2. PICK n \in Nat : n = Len(orders)
  BY <1>1
<1>3. DOMAIN orders = 1..n
  BY <1>1, <1>2
<1>4. /\ orders' \in Seq(Row) /\ DOMAIN orders' = 1..(n + 1)
      /\ orders'[n + 1] = o /\ \A i \in 1..n : orders'[i] = orders[i]
  BY <1>1, <1>2
<1>5. 1..(n + 1) = 1..n \cup {n + 1} /\ n + 1 \notin 1..n
  OBVIOUS
<1>6. QED
  BY <1>2, <1>3, <1>4, <1>5 DEF Grows, SameOrder

(* Nothing is replaced.                                                    *)
LEMMA RowsSame ==
    ASSUME orders' = orders
    PROVE  Grows
  BY DEF Grows, SameOrder

(* The other status.                                                       *)
LEMMA StatusReplaced ==
    ASSUME Types, NEW i \in DOMAIN orders, NEW s \in Status,
           orders' = [orders EXCEPT ![i].status = s]
    PROVE  Grows /\ orders' \in Seq(Row) /\ DOMAIN orders' = DOMAIN orders
<1>1. orders[i] \in Row
  BY DEF Types
<1>2. PICK o : o = [orders[i] EXCEPT !.status = s]
  OBVIOUS
<1>3. o \in Row /\ SameOrder(orders[i], o)
  BY <1>1, <1>2 DEF Row, SameOrder
<1>4. orders' = [orders EXCEPT ![i] = o]
  BY <1>2
<1>5. QED
  BY <1>3, <1>4, RowReplaced

(* The keys of orders that stay.                                           *)
LEMMA KeysKept ==
    ASSUME Keys, Grows, DOMAIN orders' = DOMAIN orders, answers' = answers
    PROVE  Keys'
  BY DEF Keys, Grows, SameOrder

(* Holdings that neither a trade nor an adjustment changes.                *)
LEMMA BooksKept ==
    ASSUME Types, Books, Grows, UNCHANGED <<trades, billed>>,
           \A u \in Users, a \in Assets : Holding(account', u, a) = Holding(account, u, a)
    PROVE  Books'
<1>1. Agree(orders, orders', trades)
  BY DEF Types, GoodTrade, Agree, Grows, SameOrder
<1>2. IsFiniteSet(trades)
  BY DEF Types
<1>3. \A u \in Users, a \in Assets : Gained(u, a)' = Gained(u, a)
  BY <1>1, <1>2, GainedIsIn, GainedSame
<1>4. \A u \in Users, a \in Assets : Billed(u, a)' = Billed(u, a)
  BY DEF Billed
<1>5. QED
  BY <1>3, <1>4 DEF Books, Holding

-----------------------------------------------------------------------------
(* The steps of the order service that take requests.                      *)

IInv == Types /\ Keys /\ Books

(* A step that changes neither orders, nor money, nor what is under way.   *)
LEMMA TypesSame ==
    ASSUME Types, UNCHANGED <<orders, account, trades, billed, cmds, book, batch, topics>>,
           inflight' \subseteq Valid, pos' \in Nat, mPos' \in Nat, tPos' \in Nat
    PROVE  Types'
  BY DEF Types, topics, GoodTrade, GoodEvent, Outcome, Command

LEMMA LookupStep ==
    ASSUME IInv, NEW req \in Request, Lookup(req)
    PROVE  IInv'
<1>1. /\ UNCHANGED <<orders, account, trades, billed, cmds, book, batch, topics>>
      /\ UNCHANGED <<pos, mPos, tPos>>
  BY DEF Lookup, shard
<1>2. inflight' \subseteq Valid /\ pos' \in Nat /\ mPos' \in Nat /\ tPos' \in Nat
  BY <1>1 DEF IInv, Types, Lookup, Valid
<1>3. Types'
  BY <1>1, <1>2, TypesSame DEF IInv
<1>4. Books'
  BY <1>1, RowsSame, BooksKept DEF IInv, Holding
<1>5. Keys'
  <2>1. \/ answers' = answers
        \/ \E id \in Remembered(req) :
              answers' = answers \cup {[user |-> req.spec.user, client |-> req.client, id |-> id]}
    BY DEF Lookup, Answer
  <2>2. QED
    BY <1>1, <2>1 DEF IInv, Keys, Remembered, SameKey
<1>6. QED
  BY <1>3, <1>4, <1>5 DEF IInv

(* What a valid request asks for makes a row.                              *)
LEMMA NewOrderRow ==
    ASSUME NEW req \in Request, ValidatePlaceOrder(req.spec)
    PROVE  NewOrder(req) \in Row
<1>1. /\ req.spec \in OrderSpec /\ req.client \in Nat
  BY SettlementAssumption
<1>2. /\ req.spec.user \in Users /\ req.spec.side \in {"buy", "sell"}
      /\ req.spec.type \in {"limit", "market"} /\ req.spec.price \in Nat /\ req.spec.qty \in Nat
  BY <1>1 DEF OrderSpec
<1>3. req.spec.qty \in Nat \ {0}
  BY <1>2 DEF ValidatePlaceOrder, ValidateQuantity
<1>4. CeilPrice(Reference) \in Nat
  <2>1. Reference \in Nat /\ Rules.tick \in Nat \ {0}
    BY SettlementAssumption DEF SymbolSpec
  <2>2. Reference - (Reference % Rules.tick) \in Nat
    BY <2>1, Remainder
  <2>3. QED
    BY <2>1, <2>2 DEF CeilPrice
<1>5. FreezePrice(req.spec) \in Nat
  BY <1>2, <1>4 DEF FreezePrice
<1>6. "PENDING" \in Status
  BY DEF Status
<1>7. QED
  BY <1>1, <1>2, <1>3, <1>5, <1>6 DEF NewOrder, Row

LEMMA InsertPendingStep ==
    ASSUME IInv, NEW req \in Request, InsertPending(req)
    PROVE  IInv'
<1> DEFINE o == NewOrder(req)
<1>1. /\ UNCHANGED <<trades, billed, book, batch, topics>>
      /\ UNCHANGED <<pos, mPos, tPos>>
      /\ req \in inflight /\ inflight' = inflight \ {req}
  BY DEF InsertPending, shard
<1>2. inflight' \subseteq Valid /\ pos' \in Nat /\ mPos' \in Nat /\ tPos' \in Nat
  BY <1>1 DEF IInv, Types
<1>3. CASE UNCHANGED <<orders, account, cmds>> /\
           (answers' = answers \/ \E id \in Duplicates(req) : Answer(req, id))
  <2>1. Types'
    BY <1>1, <1>2, <1>3, TypesSame DEF IInv
  <2>2. Books'
    BY <1>1, <1>3, RowsSame, BooksKept DEF IInv, Holding
  <2>3. Keys'
    BY <1>3 DEF IInv, Keys, Duplicates, SameKey, Answer
  <2>4. QED
    BY <2>1, <2>2, <2>3 DEF IInv
<1>4. CASE /\ Duplicates(req) = {}
           /\ account[o.user][Paid(o.side)].free >= Locked(o)
           /\ orders' = Append(orders, o)
           /\ account' = Lock(account, o)
           /\ cmds' = Append(cmds, [kind |-> "New", id |-> Len(orders) + 1])
           /\ Answer(req, Len(orders) + 1)
  <2>1. o \in Row
    BY <1>1, NewOrderRow DEF IInv, Types, Valid
  <2>2. o.user = req.spec.user /\ o.client = req.client
    BY DEF NewOrder
  <2> HIDE DEF o
  <2>3. PICK k : k = Len(orders) + 1
    OBVIOUS
  <2>4. /\ Grows /\ orders' \in Seq(Row) /\ DOMAIN orders' = DOMAIN orders \cup {k}
        /\ orders'[k] = o /\ k \notin DOMAIN orders
        /\ \A i \in DOMAIN orders : orders'[i] = orders[i]
    BY <1>4, <2>1, <2>3, RowAdded DEF IInv
  <2>5. /\ account' \in Accounts
        /\ \A u \in Users, a \in Assets : Holding(account', u, a) = Holding(account, u, a)
    BY <1>4, <2>1, LockKeeps DEF IInv, Types
  <2>6. cmds' \in Seq(Command')
    <3>1. [kind |-> "New", id |-> k] \in Command'
      BY <2>4 DEF Command
    <3>2. cmds \in Seq(Command')
      BY <2>4, Growing DEF IInv
    <3>3. cmds' = Append(cmds, [kind |-> "New", id |-> k])
      BY <1>4, <2>3
    <3>4. QED
      BY <3>1, <3>2, <3>3
  <2>7. Types'
    <3>1. /\ batch' \in Seq(Outcome') /\ matchEvents' \in Seq(GoodEvent')
          /\ tradeEvents' \in Seq(GoodTrade') /\ trades' \subseteq GoodTrade'
          /\ \A m \in Ids : book'[m] > 0 => m \in DOMAIN orders' /\ book'[m] <= orders'[m].qty
      BY <1>1, <2>4, Growing DEF IInv, topics
    <3>2. IsFiniteSet(trades') /\ IsFiniteSet(billed') /\ billed' \subseteq Adjustments
          /\ book' \in [Ids -> Int]
      BY <1>1 DEF IInv, Types
    <3>3. QED
      BY <1>2, <2>4, <2>5, <2>6, <3>1, <3>2 DEF Types
  <2>8. Books'
    BY <1>1, <2>4, <2>5, BooksKept DEF IInv
  <2>9. Keys'
    <3>1. \A i \in DOMAIN orders : ~(orders[i].user = o.user /\ orders[i].client = o.client)
      BY <1>4, <2>2 DEF Duplicates, SameKey
    <3>2. answers' = answers \cup {[user |-> o.user, client |-> o.client, id |-> k]}
      BY <1>4, <2>2, <2>3 DEF Answer
    <3>3. \A i, j \in DOMAIN orders' :
            (orders'[i].user = orders'[j].user /\ orders'[i].client = orders'[j].client) => i = j
      BY <2>4, <3>1 DEF IInv, Keys
    <3>4. \A x \in answers' : /\ x.id \in DOMAIN orders'
                              /\ orders'[x.id].user = x.user /\ orders'[x.id].client = x.client
      BY <2>4, <3>2 DEF IInv, Keys
    <3>5. QED
      BY <3>3, <3>4 DEF Keys
  <2>10. QED
    BY <2>7, <2>8, <2>9 DEF IInv
<1>5. QED
  BY <1>3, <1>4 DEF InsertPending

(* A status changes, perhaps something is released, and a row is written   *)
(* to the outbox: BeginCancel, RejectStalePending, ResendCancel.           *)
LEMMA CancelStep ==
    ASSUME IInv, NEW i \in DOMAIN orders, InsertCancelOutbox(i),
           UNCHANGED <<trades, requests, pos, shard, topics, mPos, tPos>>,
           orders' = orders \/ \E s \in Status : orders' = [orders EXCEPT ![i].status = s],
           account' = account \/ account' = ReleaseOrderRemainingFreeze(account, orders[i])
    PROVE  IInv'
<1>1. Grows /\ orders' \in Seq(Row) /\ DOMAIN orders' = DOMAIN orders
  BY RowsSame, StatusReplaced DEF IInv, Types
<1>2. /\ account' \in Accounts
      /\ \A u \in Users, a \in Assets : Holding(account', u, a) = Holding(account, u, a)
  <2>1. orders[i] \in Row /\ account \in Accounts
    BY DEF IInv, Types
  <2>2. CASE account' = account
    BY <2>1, <2>2 DEF Holding
  <2>3. CASE account' = ReleaseOrderRemainingFreeze(account, orders[i])
    BY <2>1, <2>3, ReleaseRemainingKeeps
  <2>4. QED
    BY <2>2, <2>3
<1>3. cmds' \in Seq(Command')
  <2>1. PICK c : c = [kind |-> "Cancel", id |-> i]
    OBVIOUS
  <2>2. c \in Command'
    BY <1>1, <2>1 DEF Command
  <2>3. cmds \in Seq(Command')
    BY <1>1, Growing DEF IInv
  <2>4. cmds' = Append(cmds, c)
    BY <2>1 DEF InsertCancelOutbox
  <2>5. QED
    BY <2>2, <2>3, <2>4
<1>4. UNCHANGED <<trades, billed, inflight, answers, pos, book, batch, topics, mPos, tPos>>
  BY DEF requests, shard
<1>5. Types'
  <2>1. /\ batch' \in Seq(Outcome') /\ matchEvents' \in Seq(GoodEvent')
        /\ tradeEvents' \in Seq(GoodTrade') /\ trades' \subseteq GoodTrade'
        /\ \A m \in Ids : book'[m] > 0 => m \in DOMAIN orders' /\ book'[m] <= orders'[m].qty
    BY <1>1, <1>4, Growing DEF IInv, topics
  <2>2. /\ IsFiniteSet(trades') /\ IsFiniteSet(billed') /\ billed' \subseteq Adjustments
        /\ inflight' \subseteq Valid /\ pos' \in Nat /\ mPos' \in Nat /\ tPos' \in Nat
        /\ book' \in [Ids -> Int]
    BY <1>4 DEF IInv, Types
  <2>3. QED
    BY <1>1, <1>2, <1>3, <2>1, <2>2 DEF Types
<1>6. Books'
  BY <1>1, <1>2, <1>4, BooksKept DEF IInv
<1>7. Keys'
  BY <1>1, <1>4, KeysKept DEF IInv
<1>8. QED
  BY <1>5, <1>6, <1>7 DEF IInv

(* An adjustment is applied once.                                          *)
LEMMA UpdateBalanceStep ==
    ASSUME IInv, NEW adj \in Adjustments, UpdateBalance(adj)
    PROVE  IInv'
<1>1. /\ UNCHANGED <<orders, trades, inflight, answers, cmds, pos, book, batch, topics, mPos, tPos>>
      /\ billed' = billed \cup {adj}
      /\ account' = [account EXCEPT ![adj.user][adj.asset].free = @ + adj.change]
      /\ account[adj.user][adj.asset].free + adj.change >= 0
      /\ adj \notin billed
  BY DEF UpdateBalance, shard, AlreadyBilled
<1>2. PICK v \in Users, p \in Assets, c \in Int : v = adj.user /\ p = adj.asset /\ c = adj.change
  BY SettlementAssumption
<1>3. account \in Accounts /\ account \in [Users -> [Assets -> Balance]]
  BY DEF IInv, Types, Accounts, Balance
<1>4. PICK x \in Balance : x = account[v][p]
  BY <1>3
<1>5. x.free \in Nat /\ x.frozen \in Nat /\ x.free + c >= 0
  BY <1>1, <1>2, <1>4 DEF Balance
<1>6. PICK xx : xx = [x EXCEPT !.free = @ + c]
  OBVIOUS
<1>7. xx \in Balance /\ xx.free = x.free + c /\ xx.frozen = x.frozen
  BY <1>5, <1>6 DEF Balance
<1>8. account' = Put(account, v, p, xx)
  BY <1>1, <1>2, <1>3, <1>4, <1>6 DEF Put
<1>9. OnlyRow(account', account, v, p, xx)
  BY <1>3, <1>7, <1>8, OneRow
<1>10. account' \in Accounts
  BY <1>9 DEF OnlyRow
<1>11. IsFiniteSet(billed') /\ billed' \subseteq Adjustments
  BY <1>1, FS_AddElement DEF IInv, Types
<1>12. Types'
  BY <1>1, <1>10, <1>11 DEF IInv, Types, topics, GoodTrade, GoodEvent, Outcome, Command
<1>13. Keys'
  BY <1>1 DEF IInv, Keys
<1>14. ASSUME NEW u \in Users, NEW a \in Assets
       PROVE  Holding(account', u, a) = Deposit[a] + Billed(u, a)' + Gained(u, a)'
  <2>1. Gained(u, a)' = Gained(u, a) /\ Gained(u, a) \in Int
    <3>1. Gained(u, a)' = Gained(u, a)
      BY <1>1 DEF Gained, ListTrades, UserTrade
    <3>2. IsFiniteSet(trades) /\ Priced(trades)
      BY DEF IInv, Types, GoodTrade, Priced
    <3>3. GainedIn(orders, trades, u, a) \in Int
      BY <3>2, GainedInt
    <3>4. QED
      BY <3>1, <3>3, GainedIsIn
  <2>2. /\ Billed(u, a) \in Int
        /\ Billed(u, a)' = Billed(u, a) + (IF v = u /\ p = a THEN c ELSE 0)
    <3>1. \A b \in billed \cup {adj} : b.change \in Int
      BY SettlementAssumption DEF IInv, Types
    <3>2. Billed(u, a) = BilledIn(billed, u, a) /\ Billed(u, a)' = BilledIn(billed \cup {adj}, u, a)
      BY <1>1 DEF Billed, BilledIn
    <3>3. IsFiniteSet(billed)
      BY DEF IInv, Types
    <3>4. PICK bills : bills = billed
      OBVIOUS
    <3>5. adj \notin bills /\ IsFiniteSet(bills) /\ \A b \in bills \cup {adj} : b.change \in Int
      BY <1>1, <3>1, <3>3, <3>4
    <3>6. /\ BilledIn(bills, u, a) \in Int
          /\ BilledIn(bills \cup {adj}, u, a) = BilledIn(bills, u, a) + Adjusted(adj, u, a)
      BY <3>5, BilledMore
    <3>7. QED
      BY <1>2, <3>2, <3>4, <3>6 DEF Adjusted
  <2>3. /\ Holding(account, u, a) \in Int
        /\ Holding(account', u, a) = Holding(account, u, a) + (IF v = u /\ p = a THEN c ELSE 0)
    <3>1. account[u][a].free \in Nat /\ account[u][a].frozen \in Nat
      BY <1>3 DEF Balance
    <3>2. CASE u = v /\ a = p
      <4>1. account'[u][a] = xx
        BY <1>9, <3>2 DEF OnlyRow
      <4>2. QED
        BY <1>4, <1>5, <1>7, <3>2, <4>1 DEF Holding
    <3>3. CASE ~(u = v /\ a = p)
      <4>1. account'[u][a] = account[u][a]
        BY <1>9, <3>3 DEF OnlyRow
      <4>2. QED
        BY <3>1, <3>3, <4>1 DEF Holding
    <3>4. QED
      BY <3>2, <3>3
  <2>4. Holding(account, u, a) = Deposit[a] + Billed(u, a) + Gained(u, a) /\ Deposit[a] \in Int
    BY SettlementAssumption DEF IInv, Books
  <2>5. QED
    BY <2>1, <2>2, <2>3, <2>4
<1>15. Books'
  BY <1>14 DEF Books, Holding
<1>16. QED
  BY <1>12, <1>13, <1>15 DEF IInv

-----------------------------------------------------------------------------
(* The steps of the shard.                                                 *)

(* A maker is an order of the table, rests with no more than it asked for  *)
(* and is on the other side.                                               *)
LEMMA EligibleMaker ==
    ASSUME Types, NEW o, NEW m \in Eligible(o)
    PROVE  /\ m \in Ids /\ m \in DOMAIN orders /\ orders[m] \in Row
           /\ book[m] \in Int /\ book[m] > 0 /\ book[m] <= orders[m].qty
           /\ orders[m].side # o.side /\ orders[m].price \in Nat
<1>1. m \in Ids /\ book[m] > 0 /\ orders[m].side # o.side
  BY DEF Eligible
<1>2. m \in DOMAIN orders /\ book[m] <= orders[m].qty /\ book[m] \in Int
  BY <1>1 DEF Types
<1>3. orders[m] \in Row
  BY <1>2 DEF Types
<1>4. QED
  BY <1>1, <1>2, <1>3, RowFields

(* The makers in a row.                                                    *)
LEMMA MakersRow ==
    ASSUME NEW o, NEW makers \in Makers(o)
    PROVE  /\ makers \in Seq(Eligible(o)) /\ Len(makers) \in Nat /\ DOMAIN makers = 1..Len(makers)
           /\ \A i \in DOMAIN makers : makers[i] \in Eligible(o)
<1>1. PICK n : n = Cardinality(Eligible(o))
  OBVIOUS
<1>2. n \in Nat
  <2>1. MaxOrders \in Int /\ 1 \in Int
    BY SettlementAssumption
  <2>2. IsFiniteSet(Ids)
    BY <2>1, FS_Interval DEF Ids
  <2>3. Eligible(o) \subseteq Ids
    BY DEF Eligible
  <2>4. IsFiniteSet(Eligible(o))
    BY <2>2, <2>3, FS_Subset
  <2>5. QED
    BY <1>1, <2>4, FS_CardinalityType
<1>3. makers \in [1..n -> Eligible(o)]
  BY <1>1 DEF Makers
<1>4. QED
  BY <1>2, <1>3

(* The trades of a match are trades of two orders of the table.            *)
LEMMA TradesGood ==
    ASSUME Types, NEW id \in DOMAIN orders, NEW makers \in Makers(orders[id])
    PROVE  Trades(id, makers) \in Seq(GoodTrade)
<1> DEFINE Left(i) == orders[id].qty - SumFunction([j \in 1..i - 1 |-> book[makers[j]]])
           Trade(i) == [maker |-> makers[i], taker |-> id, price |-> orders[makers[i]].price,
                        qty |-> Min({book[makers[i]], Left(i)})]
           AnyTrade == [maker : Ids \cap DOMAIN orders, taker : DOMAIN orders, price : Nat, qty : Int]
<1>1. PICK l \in Nat : l = Len(makers) /\ DOMAIN makers = 1..l
  BY MakersRow
<1>2. orders[id] \in Row /\ orders[id].qty \in Nat \ {0}
  BY RowFields DEF Types
<1>3. ASSUME NEW i \in 1..l PROVE Left(i) \in Int
  <2>1. PICK S : S = 1..i - 1
    OBVIOUS
  <2>2. IsFiniteSet(S) /\ S \subseteq 1..l
    <3>1. i - 1 \in Int /\ 1 \in Int
      OBVIOUS
    <3>2. QED
      BY <2>1, <3>1, FS_Interval
  <2>3. PICK f : f = [j \in S |-> book[makers[j]]]
    OBVIOUS
  <2>4. \A j \in S : f[j] \in Int
    BY <1>1, <2>2, <2>3, MakersRow, EligibleMaker
  <2>5. SumFunctionOnSet(f, S) \in Int
    BY <2>2, <2>4, SumTakes
  <2>6. SumFunction([j \in 1..i - 1 |-> book[makers[j]]]) = SumFunctionOnSet(f, S)
    BY <2>1, <2>3 DEF SumFunction
  <2>7. QED
    BY <1>2, <2>5, <2>6
<1> HIDE DEF Left
<1>4. ASSUME NEW i \in 1..l PROVE Trade(i) \in AnyTrade /\ (Trade(i).qty > 0 => Trade(i) \in GoodTrade)
  <2>1. PICK m : m = makers[i]
    OBVIOUS
  <2>2. /\ m \in Ids \cap DOMAIN orders /\ book[m] \in Int /\ book[m] <= orders[m].qty
        /\ orders[m].side # orders[id].side /\ orders[m].price \in Nat /\ orders[m].qty \in Nat
    BY <1>1, <2>1, MakersRow, EligibleMaker, RowFields
  <2>3. PICK q : q = Min({book[m], Left(i)})
    OBVIOUS
  <2>4. q \in Int /\ q <= book[m]
    BY <1>3, <2>2, <2>3, SmallerOf
  <2>5. Trade(i) = [maker |-> m, taker |-> id, price |-> orders[m].price, qty |-> q]
    BY <2>1, <2>3
  <2>6. Trade(i) \in AnyTrade
    BY <2>2, <2>4, <2>5
  <2>7. ASSUME q > 0
        PROVE  [maker |-> m, taker |-> id, price |-> orders[m].price, qty |-> q] \in GoodTrade
    <3>1. q \in Nat \ {0} /\ q <= orders[m].qty
      BY <2>2, <2>4, <2>7
    <3>2. QED
      BY <2>2, <3>1 DEF GoodTrade
  <2>8. QED
    BY <2>5, <2>6, <2>7
<1>5. PICK all : all = [i \in DOMAIN makers |-> Trade(i)]
  OBVIOUS
<1>6. all \in Seq(AnyTrade) /\ DOMAIN all = 1..l
  <2> HIDE DEF AnyTrade, Trade
  <2>1. all \in [1..l -> AnyTrade]
    BY <1>1, <1>4, <1>5
  <2>2. QED
    BY <2>1
<1>7. PICK chosen : chosen = {i \in DOMAIN all : all[i].qty > 0}
  OBVIOUS
<1>8. Trades(id, makers) = AtPositions(all, chosen)
  BY <1>5, <1>7 DEF Trades, Left
<1>9. \A i \in chosen : all[i] \in GoodTrade
  BY <1>1, <1>4, <1>5, <1>6, <1>7
<1>10. PICK r : r = AtPositions(all, chosen)
  OBVIOUS
<1>11. r \in Seq(AnyTrade) /\ \E p : IsSelection(r, p, all, chosen)
  <2>1. chosen \in SUBSET DOMAIN all
    BY <1>7
  <2>2. QED
    BY <1>6, <1>10, <2>1, AtPositionsProperties
<1>12. PICK p : IsSelection(r, p, all, chosen)
  BY <1>11
<1>13. \A k \in DOMAIN r : r[k] \in GoodTrade
  BY <1>9, <1>12 DEF IsSelection
<1>14. r \in Seq(GoodTrade)
  BY <1>11, <1>13
<1>15. QED
  BY <1>8, <1>10, <1>14

(* What they take is not negative.                                         *)
LEMMA TakenNat ==
    ASSUME NEW fills \in Seq(GoodTrade), NEW m
    PROVE  Taken(fills, m) \in Nat /\ Total(fills) \in Nat
<1>1. PICK D : D = DOMAIN fills
  OBVIOUS
<1>2. IsFiniteSet(D) /\ \A i \in D : fills[i].qty \in Nat
  <2>1. Len(fills) \in Int /\ 1 \in Int /\ D = 1..Len(fills)
    BY <1>1
  <2>2. IsFiniteSet(D)
    BY <2>1, FS_Interval
  <2>3. \A i \in D : fills[i] \in GoodTrade
    BY <1>1
  <2>4. QED
    BY <2>2, <2>3 DEF GoodTrade
<1>3. Total(fills) \in Nat
  <2>1. PICK f : f = [i \in D |-> fills[i].qty]
    OBVIOUS
  <2>2. SumFunctionOnSet(f, D) \in Nat
    BY <1>2, <2>1, SumNat
  <2>3. QED
    BY <1>1, <2>1, <2>2 DEF Total, SumFunction
<1>4. Taken(fills, m) \in Nat
  <2>1. PICK S : S = {k \in D : fills[k].maker = m}
    OBVIOUS
  <2>2. IsFiniteSet(S) /\ S \subseteq D
    BY <1>2, <2>1, FS_Subset
  <2>3. PICK f : f = [i \in S |-> fills[i].qty]
    OBVIOUS
  <2>4. \A i \in S : f[i] \in Nat
    BY <1>2, <2>2, <2>3
  <2>5. SumFunctionOnSet(f, S) \in Nat
    BY <2>2, <2>4, SumNat
  <2>6. QED
    BY <1>1, <2>1, <2>3, <2>5 DEF Taken, SumFunction
<1>5. QED
  BY <1>3, <1>4

(* No order rests with more than it asked for.                             *)
BookType(b) ==
    /\ b \in [Ids -> Int]
    /\ \A m \in Ids : b[m] > 0 => m \in DOMAIN orders /\ b[m] <= orders[m].qty

LEMMA BookAfterGood ==
    ASSUME Types, NEW id \in DOMAIN orders, NEW fills \in Seq(GoodTrade)
    PROVE  BookType(BookAfter(id, fills))
<1>1. PICK b : b = BookAfter(id, fills)
  OBVIOUS
<1>2. orders[id].qty \in Nat /\ book \in [Ids -> Int]
  BY RowFields DEF Types
<1>3. ASSUME NEW m \in Ids
      PROVE  b[m] \in Int /\ (b[m] > 0 => m \in DOMAIN orders /\ b[m] <= orders[m].qty)
  <2>1. PICK x \in Nat, y \in Nat : x = Taken(fills, m) /\ y = Total(fills)
    BY TakenNat
  <2>2. b[m] = IF m # id THEN book[m] - x
               ELSE IF orders[id].type = "limit" THEN orders[id].qty - y ELSE 0
    BY <1>1, <2>1 DEF BookAfter
  <2>3. book[m] \in Int /\ (book[m] > 0 => m \in DOMAIN orders /\ book[m] <= orders[m].qty)
    BY <1>2 DEF Types
  <2>4. CASE m # id
    <3>1. b[m] = book[m] - x
      BY <2>2, <2>4
    <3>2. book[m] > 0 => orders[m].qty \in Nat
      BY <2>3, RowFields DEF Types
    <3>3. QED
      BY <2>3, <3>1, <3>2
  <2>5. CASE m = id
    BY <1>2, <2>2, <2>5
  <2>6. QED
    BY <2>4, <2>5
<1>4. b = [m \in Ids |-> b[m]]
  BY <1>1 DEF BookAfter
<1>5. QED
  BY <1>1, <1>3, <1>4 DEF BookType

LEMMA Removed ==
    ASSUME NEW S, NEW b \in [S -> Int], NEW c
    PROVE  /\ [b EXCEPT ![c] = 0] \in [S -> Int]
           /\ \A m \in S : [b EXCEPT ![c] = 0][m] = IF m = c THEN 0 ELSE b[m]
<1>1. PICK d : d = [m \in S |-> IF m = c THEN 0 ELSE b[m]]
  OBVIOUS
<1>2. [b EXCEPT ![c] = 0] = d
  BY <1>1
<1>3. \A m \in S : d[m] = IF m = c THEN 0 ELSE b[m]
  BY <1>1
<1>4. ASSUME NEW m \in S PROVE (IF m = c THEN 0 ELSE b[m]) \in Int
  OBVIOUS
<1>5. d \in [S -> Int]
  BY <1>1, <1>4
<1>6. QED
  BY <1>2, <1>3, <1>5

LEMMA MatchStep ==
    ASSUME IInv, Match
    PROVE  IInv'
<1>1. /\ UNCHANGED <<orders, account, trades, billed, inflight, answers, cmds, topics, mPos, tPos>>
      /\ pos < Len(cmds) /\ pos' = pos + 1
  BY DEF Match, requests
<1>2. PICK cmd : cmd = cmds[pos + 1]
  OBVIOUS
<1>3. cmd \in Command /\ pos \in Nat
  <2>1. cmds \in Seq(Command) /\ pos \in Nat
    BY DEF IInv, Types
  <2>2. pos + 1 \in 1..Len(cmds)
    BY <1>1, <2>1
  <2>3. QED
    BY <1>2, <2>1, <2>2
<1>4. cmd.id \in DOMAIN orders
  BY <1>3 DEF Command
<1>5. BookType(book') /\ batch' \in Seq(Outcome)
  <2>1. BookType(book) /\ batch \in Seq(Outcome)
    BY DEF IInv, Types, BookType
  <2>2. CASE ApplyNewOrder(cmd.id)
    <3>a. PICK makers \in Makers(orders[cmd.id]) : \E fills \in {Trades(cmd.id, makers)} :
             /\ book' = BookAfter(cmd.id, fills)
             /\ batch' = Append(batch, [kind |-> "New", id |-> cmd.id, trades |-> fills, seq |-> pos + 1])
      BY <2>2, Zenon DEF ApplyNewOrder
    <3>1. PICK fills \in {Trades(cmd.id, makers)} :
             /\ book' = BookAfter(cmd.id, fills)
             /\ batch' = Append(batch, [kind |-> "New", id |-> cmd.id, trades |-> fills, seq |-> pos + 1])
      BY <3>a
    <3>2. fills \in Seq(GoodTrade)
      BY <1>4, <3>1, TradesGood DEF IInv
    <3>3. BookType(book')
      BY <1>4, <3>1, <3>2, BookAfterGood DEF IInv
    <3>4. PICK out : out = [kind |-> "New", id |-> cmd.id, trades |-> fills, seq |-> pos + 1]
      OBVIOUS
    <3>5. out \in Outcome
      BY <1>3, <1>4, <3>2, <3>4 DEF Outcome
    <3>6. batch' = Append(batch, out)
      BY <3>1, <3>4
    <3>7. QED
      BY <2>1, <3>3, <3>5, <3>6
  <2>3. CASE ApplyCancel(cmd.id)
    <3>a. book' = [book EXCEPT ![cmd.id] = 0] /\ book \in [Ids -> Int]
      BY <2>1, <2>3 DEF ApplyCancel, BookType
    <3>b. book' \in [Ids -> Int] /\ \A m \in Ids : book'[m] = IF m = cmd.id THEN 0 ELSE book[m]
      BY <3>a, Removed
    <3>1. BookType(book')
      BY <2>1, <3>b DEF BookType
    <3>2. PICK out : out = [kind |-> "Cancel", id |-> cmd.id, trades |-> <<>>, seq |-> pos + 1]
      OBVIOUS
    <3>3. out \in Outcome
      BY <1>3, <1>4, <3>2 DEF Outcome
    <3>4. batch' = Append(batch, out)
      BY <2>3, <3>2 DEF ApplyCancel
    <3>5. QED
      BY <2>1, <3>1, <3>3, <3>4
  <2>4. CASE UNCHANGED <<seen, book, batch>>
    BY <2>1, <2>4
  <2>5. QED
    BY <1>2, <2>2, <2>3, <2>4 DEF Match
<1>6. Types'
  <2>1. Outcome' = Outcome
    BY <1>1 DEF Outcome, GoodTrade
  <2>2. /\ book' \in [Ids -> Int]
        /\ \A m \in Ids : book'[m] > 0 => m \in DOMAIN orders' /\ book'[m] <= orders'[m].qty
        /\ batch' \in Seq(Outcome')
    BY <1>1, <1>5, <2>1 DEF BookType
  <2>3. pos' \in Nat
    BY <1>1, <1>3
  <2>4. QED
    BY <1>1, <2>2, <2>3 DEF IInv, Types, topics, GoodTrade, GoodEvent, Command
<1>7. Books'
  BY <1>1, RowsSame, BooksKept DEF IInv, Holding
<1>8. Keys'
  BY <1>1 DEF IInv, Keys
<1>9. QED
  BY <1>6, <1>7, <1>8 DEF IInv

LEMMA GoodTradeFields ==
    ASSUME NEW tr \in GoodTrade
    PROVE  /\ tr.maker \in Ids /\ tr.maker \in DOMAIN orders /\ tr.taker \in DOMAIN orders
           /\ tr.price \in Nat /\ tr.qty \in Nat \ {0} /\ tr.qty <= orders[tr.maker].qty
           /\ orders[tr.maker].side # orders[tr.taker].side
  BY DEF GoodTrade

LEMMA GoodEv ==
    ASSUME NEW id \in DOMAIN orders, NEW type \in EventType, NEW filled \in Nat \cup {NoFill},
           filled <= orders[id].qty, NEW seq \in Nat
    PROVE  Ev(id, type, filled, seq) \in GoodEvent
  BY DEF Ev, GoodEvent

(* The events of an outcome report what was asked for or less.             *)
LEMMA EventsGood ==
    ASSUME Types, NEW out \in Outcome
    PROVE  MatchEventsOf(out) \in Seq(GoodEvent)
<1>1. /\ out.id \in DOMAIN orders /\ out.trades \in Seq(GoodTrade) /\ out.seq \in Nat
  BY DEF Outcome
<1>2. \A id \in DOMAIN orders : orders[id].qty \in Nat \ {0}
  BY RowFields DEF Types
<1>3. NoFill \in Int /\ NoFill <= orders[out.id].qty /\ 0 <= orders[out.id].qty
  BY <1>1, <1>2 DEF NoFill
<1>4. EventType = {"ACCEPTED", "PARTIAL", "FILLED", "CANCELED"}
  BY DEF EventType
<1>5. Ev(out.id, "CANCELED", NoFill, out.seq) \in GoodEvent
  BY <1>1, <1>3, <1>4, GoodEv
<1>6. Ev(out.id, "ACCEPTED", 0, out.seq) \in GoodEvent
  BY <1>1, <1>3, <1>4, GoodEv
<1>7. TakerFillEvent(out.id, out.seq) \in GoodEvent
  BY <1>1, <1>3, <1>4, GoodEv DEF TakerFillEvent
<1>8. ASSUME NEW tr \in GoodTrade PROVE MakerFillEvent(tr, out.seq) \in GoodEvent
  <2>1. PICK m : m = tr.maker
    OBVIOUS
  <2>2. m \in Ids /\ m \in DOMAIN orders /\ tr.qty \in Nat /\ tr.qty <= orders[m].qty
    BY <2>1, GoodTradeFields
  <2>3. book[m] \in Int /\ (book[m] > 0 => book[m] <= orders[m].qty) /\ orders[m].qty \in Nat
    BY <1>2, <2>2 DEF Types
  <2>4. CASE book[m] > 0
    <3>1. PICK f : f = orders[m].qty - book[m]
      OBVIOUS
    <3>2. f \in Nat /\ f <= orders[m].qty
      BY <2>3, <2>4, <3>1
    <3>3. Ev(m, "PARTIAL", f, out.seq) \in GoodEvent
      BY <1>1, <1>4, <2>2, <3>2, GoodEv
    <3>4. QED
      BY <2>1, <2>4, <3>1, <3>3 DEF MakerFillEvent
  <2>5. CASE ~(book[m] > 0)
    <3>1. Ev(m, "FILLED", tr.qty, out.seq) \in GoodEvent
      BY <1>1, <1>4, <2>2, GoodEv
    <3>2. QED
      BY <2>1, <2>5, <3>1 DEF MakerFillEvent
  <2>6. QED
    BY <2>4, <2>5
<1>9. PICK a : a = <<Ev(out.id, "ACCEPTED", 0, out.seq)>>
  OBVIOUS
<1>10. PICK b : b = [i \in DOMAIN out.trades |-> MakerFillEvent(out.trades[i], out.seq)]
  OBVIOUS
<1>11. PICK c : c = IF out.trades = <<>> THEN <<>> ELSE <<TakerFillEvent(out.id, out.seq)>>
  OBVIOUS
<1>12. a \in Seq(GoodEvent) /\ c \in Seq(GoodEvent)
  BY <1>6, <1>7, <1>9, <1>11
<1>13. b \in Seq(GoodEvent)
  <2>1. PICK n \in Nat : DOMAIN out.trades = 1..n
    BY <1>1
  <2>2. \A i \in 1..n : out.trades[i] \in GoodTrade
    BY <1>1, <2>1
  <2>3. b \in [1..n -> GoodEvent]
    BY <1>8, <1>10, <2>1, <2>2
  <2>4. QED
    BY <2>3
<1>14. (a \o b) \o c \in Seq(GoodEvent)
  BY <1>12, <1>13, Concatenated
<1>15. QED
  BY <1>5, <1>9, <1>10, <1>11, <1>14 DEF MatchEventsOf

LEMMA PublishStep ==
    ASSUME IInv, Publish
    PROVE  IInv'
<1>1. /\ UNCHANGED <<orders, account, trades, billed, inflight, answers, cmds, pos, book, mPos, tPos>>
      /\ matchEvents' = matchEvents \o FlattenSeq([i \in DOMAIN batch |-> MatchEventsOf(batch[i])])
      /\ tradeEvents' = tradeEvents \o FlattenSeq([i \in DOMAIN batch |-> batch[i].trades])
      /\ batch' = <<>>
  BY DEF Publish, requests
<1>2. PICK n \in Nat : DOMAIN batch = 1..n
  BY DEF IInv, Types
<1>3. \A i \in 1..n : batch[i] \in Outcome
  BY <1>2 DEF IInv, Types
<1>4. PICK evs : evs = [i \in DOMAIN batch |-> MatchEventsOf(batch[i])]
  OBVIOUS
<1>5. PICK trs : trs = [i \in DOMAIN batch |-> batch[i].trades]
  OBVIOUS
<1>6. evs \in Seq(Seq(GoodEvent))
  <2>1. \A i \in 1..n : MatchEventsOf(batch[i]) \in Seq(GoodEvent)
    BY <1>3, EventsGood DEF IInv
  <2>2. evs \in [1..n -> Seq(GoodEvent)]
    BY <1>2, <1>4, <2>1
  <2>3. QED
    BY <2>2
<1>7. trs \in Seq(Seq(GoodTrade))
  <2>1. \A i \in 1..n : batch[i].trades \in Seq(GoodTrade)
    BY <1>3 DEF Outcome
  <2>2. trs \in [1..n -> Seq(GoodTrade)]
    BY <1>2, <1>5, <2>1
  <2>3. QED
    BY <2>2
<1>8. matchEvents' \in Seq(GoodEvent) /\ tradeEvents' \in Seq(GoodTrade)
  <2>1. FlattenSeq(evs) \in Seq(GoodEvent) /\ FlattenSeq(trs) \in Seq(GoodTrade)
    BY <1>6, <1>7, FlatSeq
  <2>2. matchEvents \in Seq(GoodEvent) /\ tradeEvents \in Seq(GoodTrade)
    BY DEF IInv, Types
  <2>3. matchEvents \o FlattenSeq(evs) \in Seq(GoodEvent)
    BY <2>1, <2>2, Concatenated
  <2>4. tradeEvents \o FlattenSeq(trs) \in Seq(GoodTrade)
    BY <2>1, <2>2, Concatenated
  <2>5. QED
    BY <1>1, <1>4, <1>5, <2>3, <2>4
<1>9. Types'
  <2>1. GoodEvent' = GoodEvent /\ GoodTrade' = GoodTrade /\ Command' = Command
    BY <1>1 DEF GoodEvent, GoodTrade, Command
  <2>2. batch' \in Seq(Outcome')
    BY <1>1
  <2>3. QED
    BY <1>1, <1>8, <2>1, <2>2 DEF IInv, Types
<1>10. Books'
  BY <1>1, RowsSame, BooksKept DEF IInv, Holding
<1>11. Keys'
  BY <1>1 DEF IInv, Keys
<1>12. QED
  BY <1>9, <1>10, <1>11 DEF IInv

-----------------------------------------------------------------------------
(* The steps of the consumers.                                             *)

(* Orders and money change, and nothing that is under way.                 *)
LEMMA ConsumerTypes ==
    ASSUME Types, Grows, orders' \in Seq(Row), account' \in Accounts,
           UNCHANGED <<billed, inflight, cmds, pos, book, batch, topics>>,
           mPos' \in Nat, tPos' \in Nat, trades' \subseteq GoodTrade', IsFiniteSet(trades')
    PROVE  Types'
<1>1. /\ cmds' \in Seq(Command') /\ batch' \in Seq(Outcome')
      /\ matchEvents' \in Seq(GoodEvent') /\ tradeEvents' \in Seq(GoodTrade')
      /\ \A m \in Ids : book'[m] > 0 => m \in DOMAIN orders' /\ book'[m] <= orders'[m].qty
  BY Growing DEF topics
<1>2. /\ inflight' \subseteq Valid /\ billed' \subseteq Adjustments /\ IsFiniteSet(billed')
      /\ pos' \in Nat /\ book' \in [Ids -> Int]
  BY DEF Types
<1>3. QED
  BY <1>1, <1>2 DEF Types

LEMMA ApplyMatchEventStep ==
    ASSUME IInv, ApplyMatchEvent
    PROVE  IInv'
<1>1. /\ UNCHANGED <<trades, billed, inflight, answers, cmds, pos, book, batch, topics, tPos>>
      /\ mPos < Len(matchEvents) /\ mPos' = mPos + 1
  BY DEF ApplyMatchEvent, requests, shard
<1>2. PICK ev, o, next : /\ ev = NextMatchEvent /\ o = orders[ev.id]
                         /\ next = WithFilled([o EXCEPT !.status = ev.type], ev.filled)
  OBVIOUS
<1>3. ev \in GoodEvent /\ mPos' \in Nat /\ tPos' \in Nat
  <2>1. matchEvents \in Seq(GoodEvent) /\ mPos \in Nat /\ tPos \in Nat
    BY DEF IInv, Types
  <2>2. mPos + 1 \in 1..Len(matchEvents)
    BY <1>1, <2>1
  <2>3. QED
    BY <1>1, <1>2, <2>1, <2>2 DEF NextMatchEvent
<1>4. /\ ev.id \in DOMAIN orders /\ ev.type \in Status /\ ev.filled \in Nat \cup {NoFill}
      /\ ev.filled <= o.qty /\ o \in Row
  BY <1>2, <1>3 DEF GoodEvent, IInv, Types, Status
<1>5. next \in Row /\ SameOrder(o, next)
  <2>1. PICK mid : mid = [o EXCEPT !.status = ev.type]
    OBVIOUS
  <2>2. mid \in Row /\ SameOrder(o, mid)
    BY <1>4, <2>1 DEF Row, SameOrder
  <2>3. CASE ev.filled = NoFill
    BY <1>2, <2>1, <2>2, <2>3 DEF WithFilled
  <2>4. CASE ev.filled # NoFill
    <3>1. next = [mid EXCEPT !.filled = ev.filled] /\ ev.filled \in Nat /\ ev.filled <= mid.qty
      BY <1>2, <1>4, <2>1, <2>2, <2>4 DEF WithFilled, SameOrder
    <3>2. QED
      BY <2>2, <3>1 DEF Row, SameOrder
  <2>5. QED
    BY <2>3, <2>4
<1>6. \/ UNCHANGED <<orders, account>>
      \/ /\ orders' = [orders EXCEPT ![ev.id] = next]
         /\ account' = account \/ account' = ReleaseOrderRemainingFreeze(account, next)
  BY <1>2 DEF ApplyMatchEvent
<1>7. Grows /\ orders' \in Seq(Row) /\ DOMAIN orders' = DOMAIN orders
  <2>1. CASE orders' = orders
    BY <2>1, RowsSame DEF IInv, Types
  <2>2. CASE orders' = [orders EXCEPT ![ev.id] = next]
    BY <1>2, <1>4, <1>5, <2>2, RowReplaced DEF IInv
  <2>3. QED
    BY <1>6, <2>1, <2>2
<1>8. /\ account' \in Accounts
      /\ \A u \in Users, a \in Assets : Holding(account', u, a) = Holding(account, u, a)
  <2>1. account \in Accounts
    BY DEF IInv, Types
  <2>2. CASE account' = account
    BY <2>1, <2>2 DEF Holding
  <2>3. CASE account' = ReleaseOrderRemainingFreeze(account, next)
    BY <1>5, <2>1, <2>3, ReleaseRemainingKeeps
  <2>4. QED
    BY <1>6, <2>2, <2>3
<1>9. trades' \subseteq GoodTrade' /\ IsFiniteSet(trades')
  BY <1>1, <1>7, Growing DEF IInv, Types
<1>10. Types'
  BY <1>1, <1>3, <1>7, <1>8, <1>9, ConsumerTypes DEF IInv
<1>11. Books'
  BY <1>1, <1>7, <1>8, BooksKept DEF IInv
<1>12. Keys'
  BY <1>1, <1>7, KeysKept DEF IInv
<1>13. QED
  BY <1>10, <1>11, <1>12 DEF IInv

LEMMA FilledRow ==
    ASSUME NEW o \in Row, NEW tr, tr.qty \in Nat
    PROVE  Filled(o, tr) \in Row /\ SameOrder(o, Filled(o, tr))
<1>1. o.filled \in Nat /\ o.qty \in Nat
  BY RowFields
<1>2. PICK q : q = Min({o.filled + tr.qty, o.qty})
  OBVIOUS
<1>3. q \in Nat /\ q <= o.qty
  <2>1. o.filled + tr.qty \in Int /\ o.qty \in Int
    BY <1>1
  <2>2. q \in {o.filled + tr.qty, o.qty} /\ q <= o.qty
    BY <1>2, <2>1, SmallerOf
  <2>3. QED
    BY <1>1, <2>2
<1>4. Filled(o, tr) = [o EXCEPT !.filled = q]
  BY <1>2 DEF Filled
<1>5. QED
  BY <1>3, <1>4 DEF Row, SameOrder

(* The two sides of a trade: each pays and gets, and who trades with       *)
(* himself has what he had.                                                *)
LEMMA SettleBoth ==
    ASSUME NEW acc \in Accounts, NEW m \in Row, NEW t \in Row, m.side # t.side,
           NEW tr, tr.price \in Nat, tr.qty \in Nat,
           acc[m.user][Paid(m.side)].frozen >= Amount(Paid(m.side), tr),
           acc[t.user][Paid(t.side)].frozen >= Amount(Paid(t.side), tr),
           NEW one, one = SettleTradeForUser(acc, m, tr),
           NEW two, two = SettleTradeForUser(one, t, tr)
    PROVE  /\ two \in Accounts
           /\ \A u \in Users, a \in Assets :
                Holding(two, u, a) = Holding(acc, u, a) +
                   (IF m.user = t.user THEN 0
                    ELSE IF u = m.user THEN Change(m, tr, a)
                    ELSE IF u = t.user THEN Change(t, tr, a) ELSE 0)
<1>1. /\ one \in Accounts
      /\ \A a \in Assets : Holding(one, m.user, a) = Holding(acc, m.user, a) + Change(m, tr, a)
      /\ \A u \in Users \ {m.user} : one[u] = acc[u]
      /\ one[m.user][Got(m.side)].frozen = acc[m.user][Got(m.side)].frozen
  BY SettleChanges
<1>2. m.user \in Users /\ t.user \in Users /\ m.side \in {"buy", "sell"} /\ t.side \in {"buy", "sell"}
  BY RowFields
<1>3. Paid(t.side) = Got(m.side) /\ Got(t.side) = Paid(m.side)
      /\ Assets = {Paid(m.side), Got(m.side)} /\ Paid(m.side) # Got(m.side)
  BY <1>2, TwoAssets
<1>4. one[t.user][Paid(t.side)].frozen >= Amount(Paid(t.side), tr)
  BY <1>1, <1>2, <1>3
<1>5. /\ two \in Accounts
      /\ \A a \in Assets : Holding(two, t.user, a) = Holding(one, t.user, a) + Change(t, tr, a)
      /\ \A u \in Users \ {t.user} : two[u] = one[u]
  BY <1>1, <1>4, SettleChanges
<1>6. ASSUME NEW u \in Users, NEW a \in Assets
      PROVE  Holding(two, u, a) = Holding(acc, u, a) +
                   (IF m.user = t.user THEN 0
                    ELSE IF u = m.user THEN Change(m, tr, a)
                    ELSE IF u = t.user THEN Change(t, tr, a) ELSE 0)
  <2>1. Holding(acc, u, a) \in Int
    BY DEF Accounts, Holding
  <2>2. PICK n \in Nat : n = Amount(a, tr)
    BY AmountNat
  <2>3. Change(m, tr, a) \in Int /\ Change(t, tr, a) \in Int /\ Change(m, tr, a) + Change(t, tr, a) = 0
    <3>1. Change(m, tr, a) = IF a = Got(m.side) THEN n ELSE -n
      BY <2>2 DEF Change
    <3>2. Change(t, tr, a) = IF a = Got(m.side) THEN -n ELSE n
      BY <1>3, <2>2 DEF Change
    <3>3. QED
      BY <3>1, <3>2
  <2>4. CASE m.user = t.user
    <3>1. CASE u = m.user
      BY <1>1, <1>5, <2>1, <2>3, <2>4, <3>1
    <3>2. CASE u # m.user
      <4>1. two[u] = acc[u]
        BY <1>1, <1>5, <2>4, <3>2
      <4>2. QED
        BY <2>1, <2>4, <4>1 DEF Holding
    <3>3. QED
      BY <3>1, <3>2
  <2>5. CASE m.user # t.user
    <3>1. CASE u = m.user
      <4>1. Holding(two, u, a) = Holding(one, u, a)
        BY <1>5, <2>5, <3>1 DEF Holding
      <4>2. QED
        BY <1>1, <2>5, <3>1, <4>1
    <3>2. CASE u = t.user
      <4>1. Holding(one, u, a) = Holding(acc, u, a)
        BY <1>1, <2>5, <3>2 DEF Holding
      <4>2. QED
        BY <1>5, <2>5, <3>2, <4>1
    <3>3. CASE u # m.user /\ u # t.user
      <4>1. Holding(two, u, a) = Holding(acc, u, a)
        BY <1>1, <1>5, <3>3 DEF Holding
      <4>2. QED
        BY <2>1, <2>5, <3>3, <4>1
    <3>4. QED
      BY <3>1, <3>2, <3>3
  <2>6. QED
    BY <2>4, <2>5
<1>7. QED
  BY <1>5, <1>6

(* Two rows of the table are replaced.                                     *)
LEMMA RowsReplaced ==
    ASSUME Types, NEW i \in DOMAIN orders, NEW j \in DOMAIN orders,
           NEW o \in Row, SameOrder(orders[i], o), NEW p \in Row, SameOrder(orders[j], p), i # j,
           orders' = [orders EXCEPT ![i] = o, ![j] = p]
    PROVE  Grows /\ orders' \in Seq(Row) /\ DOMAIN orders' = DOMAIN orders
<1>1. orders \in Seq(Row)
  BY DEF Types
<1>2. PICK mid : mid = [orders EXCEPT ![i] = o]
  OBVIOUS
<1>3. mid \in Seq(Row) /\ DOMAIN mid = DOMAIN orders
  BY <1>1, <1>2
<1>4. orders' = [mid EXCEPT ![j] = p]
  BY <1>2
<1>5. orders' \in Seq(Row) /\ DOMAIN orders' = DOMAIN orders
  <2>1. j \in DOMAIN mid
    BY <1>3
  <2>2. PICK last : last = [mid EXCEPT ![j] = p]
    OBVIOUS
  <2>3. last \in Seq(Row)
    BY <1>3, <2>1, <2>2
  <2>4. DOMAIN last = DOMAIN mid
    BY <1>3, <2>1, <2>2
  <2>5. QED
    BY <1>3, <1>4, <2>2, <2>3, <2>4
<1>6. \A k \in DOMAIN orders : orders'[k] = IF k = j THEN p ELSE IF k = i THEN o ELSE orders[k]
  BY <1>1, <1>2, <1>3, <1>4
<1>7. QED
  BY <1>5, <1>6 DEF Grows, SameOrder

(* A trade is settled: the holdings of both sides change by what it says.  *)
LEMMA SettledBooks ==
    ASSUME Types, Books, Grows, NEW tr \in GoodTrade, tr \notin trades,
           trades' = trades \cup {tr}, billed' = billed,
           \A u \in Users, a \in Assets :
              Holding(account', u, a) = Holding(account, u, a) + GainOf(orders, tr, u, a)
    PROVE  Books'
<1>1. IsFiniteSet(trades) /\ IsFiniteSet(trades \cup {tr}) /\ trades \cup {tr} \subseteq GoodTrade
  BY FS_AddElement DEF Types
<1>2. PICK ords, new, trs : ords = orders /\ new = orders' /\ trs = trades
  OBVIOUS
<1>3. Agree(ords, new, trs \cup {tr}) /\ Priced(trs \cup {tr})
  <2>1. \A x \in trades \cup {tr} : /\ x.maker \in DOMAIN orders /\ x.taker \in DOMAIN orders
                                    /\ x.price \in Nat /\ x.qty \in Nat
    BY <1>1 DEF GoodTrade
  <2>2. QED
    BY <1>2, <2>1 DEF Agree, Priced, Grows, SameOrder
<1>4. IsFiniteSet(trs) /\ IsFiniteSet(trs \cup {tr}) /\ tr \notin trs
  BY <1>1, <1>2
<1>5. ASSUME NEW u \in Users, NEW a \in Assets
      PROVE  Holding(account', u, a) = Deposit[a] + Billed(u, a)' + Gained(u, a)'
  <2>1. /\ GainedIn(ords, trs, u, a) \in Int
        /\ GainedIn(ords, trs \cup {tr}, u, a) = GainedIn(ords, trs, u, a) + GainOf(ords, tr, u, a)
    BY <1>3, <1>4, GainedMore
  <2>2. GainedIn(new, trs \cup {tr}, u, a) = GainedIn(ords, trs \cup {tr}, u, a)
    BY <1>3, <1>4, GainedSame
  <2>3. /\ Gained(u, a) = GainedIn(ords, trs, u, a)
        /\ Gained(u, a)' = GainedIn(new, trs \cup {tr}, u, a)
    BY <1>2, GainedIsIn
  <2>a. PICK d : d = GainOf(ords, tr, u, a)
    OBVIOUS
  <2>4. PICK g \in Int : g = Gained(u, a) /\ Gained(u, a)' = g + d
    BY <2>1, <2>2, <2>3, <2>a
  <2>5. d \in Int
    <3>1. \A o : Change(o, tr, a) \in Int
      BY <1>3, AmountNat DEF Change, Priced
    <3>2. QED
      BY <2>a, <3>1 DEF GainOf
  <2>6. Billed(u, a)' = Billed(u, a)
    BY DEF Billed
  <2>7. PICK b \in Int : b = Billed(u, a)
    <3>1. IsFiniteSet(billed) /\ \A x \in billed : x.change \in Int
      BY SettlementAssumption DEF Types
    <3>2. PICK f : f = [x \in billed |-> IF x.user = u /\ x.asset = a THEN x.change ELSE 0]
      OBVIOUS
    <3>3. \A x \in billed : f[x] \in Int
      BY <3>1, <3>2
    <3>4. SumFunctionOnSet(f, billed) \in Int
      BY <3>1, <3>3, SumTakes
    <3>5. QED
      BY <3>2, <3>4 DEF Billed, SumFunction
  <2>8. Deposit[a] \in Int
    BY SettlementAssumption
  <2>9. Holding(account, u, a) = Deposit[a] + b + g
    BY <2>4, <2>7 DEF Books
  <2>10. Holding(account', u, a) = Holding(account, u, a) + d
    BY <1>2, <2>a
  <2>11. QED
    BY <2>4, <2>5, <2>6, <2>7, <2>8, <2>9, <2>10
<1>6. QED
  BY <1>5 DEF Books, Holding

LEMMA ApplyTradeEventStep ==
    ASSUME IInv, ApplyTradeEvent
    PROVE  IInv'
<1>1. /\ UNCHANGED <<billed, inflight, answers, cmds, pos, book, batch, topics, mPos>>
      /\ tPos < Len(tradeEvents) /\ tPos' = tPos + 1
  BY DEF ApplyTradeEvent, requests, shard
<1>2. PICK tr, m, t : tr = NextTrade /\ m = orders[tr.maker] /\ t = orders[tr.taker]
  OBVIOUS
<1>3. tr \in GoodTrade /\ mPos' \in Nat /\ tPos' \in Nat
  <2>1. tradeEvents \in Seq(GoodTrade) /\ mPos \in Nat /\ tPos \in Nat
    BY DEF IInv, Types
  <2>2. tPos + 1 \in 1..Len(tradeEvents)
    BY <1>1, <2>1
  <2>3. QED
    BY <1>1, <1>2, <2>1, <2>2 DEF NextTrade
<1>4. /\ tr.maker \in DOMAIN orders /\ tr.taker \in DOMAIN orders /\ tr.maker # tr.taker
      /\ tr.price \in Nat /\ tr.qty \in Nat /\ m.side # t.side /\ m \in Row /\ t \in Row
  BY <1>2, <1>3 DEF GoodTrade, IInv, Types
<1>5. CASE UNCHANGED <<orders, account, trades>>
  <2>1. Grows /\ orders' \in Seq(Row) /\ account' \in Accounts
    BY <1>5, RowsSame DEF IInv, Types
  <2>2. trades' \subseteq GoodTrade' /\ IsFiniteSet(trades')
    BY <1>5, <2>1, Growing DEF IInv, Types
  <2>3. Types'
    BY <1>1, <1>3, <2>1, <2>2, ConsumerTypes DEF IInv
  <2>4. Books'
    BY <1>1, <1>5, <2>1, BooksKept DEF IInv, Holding
  <2>5. Keys'
    BY <1>1, <1>5, <2>1, KeysKept DEF IInv
  <2>6. QED
    BY <2>3, <2>4, <2>5 DEF IInv
<1>6. CASE ~(UNCHANGED <<orders, account, trades>>)
  <2>1. PICK mm, tt : mm = Filled(m, tr) /\ tt = Filled(t, tr)
    OBVIOUS
  <2>2. /\ tr \notin trades /\ Settles(tr) /\ trades' = trades \cup {tr}
        /\ orders' = [orders EXCEPT ![tr.maker] = mm, ![tr.taker] = tt]
        /\ account' = AfterFill(AfterFill(SettleTradeForUser(SettleTradeForUser(account, m, tr), t, tr), mm), tt)
    BY <1>2, <1>6, <2>1, Zenon DEF ApplyTradeEvent, InsertTrade
  <2>3. mm \in Row /\ tt \in Row /\ SameOrder(m, mm) /\ SameOrder(t, tt)
    BY <1>4, <2>1, FilledRow
  <2>4. Grows /\ orders' \in Seq(Row) /\ DOMAIN orders' = DOMAIN orders
    BY <1>2, <1>4, <2>2, <2>3, RowsReplaced DEF IInv
  <2>5. PICK acc \in Accounts : acc = account
    BY DEF IInv, Types
  <2>6. PICK one : one = SettleTradeForUser(acc, m, tr)
    OBVIOUS
  <2>7. PICK two : two = SettleTradeForUser(one, t, tr)
    OBVIOUS
  <2>8. /\ acc[m.user][Paid(m.side)].frozen >= Amount(Paid(m.side), tr)
        /\ acc[t.user][Paid(t.side)].frozen >= Amount(Paid(t.side), tr)
    BY <1>2, <2>2, <2>5 DEF Settles
  <2>9. two \in Accounts
    BY <1>4, <2>6, <2>7, <2>8, SettleBoth
  <2>10. \A u \in Users, a \in Assets :
            Holding(two, u, a) = Holding(acc, u, a) + GainOf(orders, tr, u, a)
    BY <1>2, <1>4, <2>6, <2>7, <2>8, SettleBoth DEF GainOf
  <2>11. PICK three : three = AfterFill(two, mm)
    OBVIOUS
  <2>12. /\ three \in Accounts
         /\ \A u \in Users, a \in Assets : Holding(three, u, a) = Holding(two, u, a)
    BY <2>3, <2>9, <2>11, AfterFillKeeps
  <2>13. PICK four : four = AfterFill(three, tt)
    OBVIOUS
  <2>14. /\ four \in Accounts
         /\ \A u \in Users, a \in Assets : Holding(four, u, a) = Holding(three, u, a)
    BY <2>3, <2>12, <2>13, AfterFillKeeps
  <2>15. account' = four
    BY <2>2, <2>5, <2>6, <2>7, <2>11, <2>13, Zenon
  <2>16. /\ account' \in Accounts
         /\ \A u \in Users, a \in Assets :
              Holding(account', u, a) = Holding(account, u, a) + GainOf(orders, tr, u, a)
    BY <2>5, <2>10, <2>12, <2>14, <2>15
  <2>17. trades' \subseteq GoodTrade' /\ IsFiniteSet(trades')
    <3>1. GoodTrade \subseteq GoodTrade' /\ trades \subseteq GoodTrade'
      BY <2>4, Growing DEF IInv
    <3>2. IsFiniteSet(trades \cup {tr})
      BY FS_AddElement DEF IInv, Types
    <3>3. QED
      BY <1>3, <2>2, <3>1, <3>2
  <2>18. Types'
    BY <1>1, <1>3, <2>4, <2>16, <2>17, ConsumerTypes DEF IInv
  <2>19. Books'
    BY <1>1, <1>3, <2>2, <2>4, <2>16, SettledBooks DEF IInv
  <2>20. Keys'
    BY <1>1, <2>4, KeysKept DEF IInv
  <2>21. QED
    BY <2>18, <2>19, <2>20 DEF IInv
<1>7. QED
  BY <1>5, <1>6

LEMMA RereadStep ==
    ASSUME IInv, Reread
    PROVE  IInv'
<1>1. /\ UNCHANGED <<orders, account, trades, billed, cmds, book, batch, topics>>
      /\ UNCHANGED <<inflight, answers, pos>>
      /\ \/ mPos > 0 /\ mPos' = mPos - 1 /\ tPos' = tPos
         \/ tPos > 0 /\ tPos' = tPos - 1 /\ mPos' = mPos
  BY DEF Reread, requests, shard
<1>2. inflight' \subseteq Valid /\ pos' \in Nat /\ mPos' \in Nat /\ tPos' \in Nat
  BY <1>1 DEF IInv, Types
<1>3. Types'
  BY <1>1, <1>2, TypesSame DEF IInv
<1>4. Books'
  BY <1>1, RowsSame, BooksKept DEF IInv, Holding
<1>5. Keys'
  BY <1>1 DEF IInv, Keys
<1>6. QED
  BY <1>3, <1>4, <1>5 DEF IInv

-----------------------------------------------------------------------------
(* The invariant.                                                          *)

LEMMA InitIInv ==
    ASSUME Init
    PROVE  IInv
<1>1. Deposit \in [Assets -> Nat]
  BY SettlementAssumption
<1>2. orders = <<>> /\ DOMAIN orders = {} /\ orders \in Seq(Row)
  BY DEF Init
<1>3. account \in Accounts
  BY <1>1 DEF Init, Accounts
<1>4. Types
  <2>1. IsFiniteSet({})
    BY FS_EmptySet
  <2>2. \A m \in Ids : ~(book[m] > 0)
    BY DEF Init
  <2>3. book \in [Ids -> Int]
    BY DEF Init
  <2>4. /\ inflight \subseteq Valid /\ billed \subseteq Adjustments /\ IsFiniteSet(billed)
        /\ trades \subseteq GoodTrade /\ IsFiniteSet(trades)
    BY <2>1 DEF Init
  <2>5. cmds \in Seq(Command) /\ batch \in Seq(Outcome) /\ matchEvents \in Seq(GoodEvent)
        /\ tradeEvents \in Seq(GoodTrade) /\ pos \in Nat /\ mPos \in Nat /\ tPos \in Nat
    BY DEF Init
  <2>6. QED
    BY <1>2, <1>3, <2>2, <2>3, <2>4, <2>5 DEF Types
<1>5. Keys
  BY <1>2 DEF Init, Keys
<1>6. ASSUME NEW u \in Users, NEW a \in Assets
      PROVE  Holding(account, u, a) = Deposit[a] + Billed(u, a) + Gained(u, a)
  <2>1. Holding(account, u, a) = Deposit[a]
    BY <1>1 DEF Init, Holding
  <2>2. \A f : SumFunctionOnSet(f, {}) = 0
    BY FS_EmptySet, SumSteps
  <2>3. Billed(u, a) = 0
    BY <2>2 DEF Init, Billed, SumFunction
  <2>4. Gained(u, a) = 0
    <3>1. ListTrades(u) = {}
      BY DEF Init, ListTrades
    <3>2. QED
      BY <2>2, <3>1 DEF Gained, SumFunction
  <2>5. QED
    BY <1>1, <2>1, <2>3, <2>4
<1>7. QED
  BY <1>4, <1>5, <1>6 DEF IInv, Books

LEMMA NextIInv ==
    ASSUME IInv, [Next]_vars
    PROVE  IInv'
<1>1. ASSUME NEW req \in Request, Lookup(req) PROVE IInv'
  BY <1>1, LookupStep
<1>2. ASSUME NEW req \in Request, InsertPending(req) PROVE IInv'
  BY <1>2, InsertPendingStep
<1>3. ASSUME NEW o \in DOMAIN orders, BeginCancel(o) PROVE IInv'
  <2>1. /\ InsertCancelOutbox(o) /\ UNCHANGED <<trades, requests, pos, shard, topics, mPos, tPos>>
        /\ account' = account /\ orders' = [orders EXCEPT ![o].status = "CANCELING"]
    BY <1>3 DEF BeginCancel
  <2>2. "CANCELING" \in Status
    BY DEF Status
  <2>3. QED
    BY <2>1, <2>2, CancelStep
<1>4. ASSUME NEW o \in DOMAIN orders, RejectStalePending(o) PROVE IInv'
  <2>1. /\ InsertCancelOutbox(o) /\ UNCHANGED <<trades, requests, pos, shard, topics, mPos, tPos>>
        /\ account' = ReleaseOrderRemainingFreeze(account, orders[o])
        /\ orders' = [orders EXCEPT ![o].status = "REJECTED"]
    BY <1>4 DEF RejectStalePending
  <2>2. "REJECTED" \in Status
    BY DEF Status
  <2>3. QED
    BY <2>1, <2>2, CancelStep
<1>5. ASSUME NEW o \in DOMAIN orders, ResendCancel(o) PROVE IInv'
  <2>1. /\ InsertCancelOutbox(o) /\ UNCHANGED <<trades, requests, pos, shard, topics, mPos, tPos>>
        /\ account' = account /\ orders' = orders
    BY <1>5 DEF ResendCancel
  <2>2. QED
    BY <2>1, CancelStep
<1>6. ASSUME NEW adj \in Adjustments, UpdateBalance(adj) PROVE IInv'
  BY <1>6, UpdateBalanceStep
<1>7. CASE Match
  BY <1>7, MatchStep
<1>8. CASE Publish
  BY <1>8, PublishStep
<1>9. CASE ApplyMatchEvent
  BY <1>9, ApplyMatchEventStep
<1>10. CASE ApplyTradeEvent
  BY <1>10, ApplyTradeEventStep
<1>11. CASE Reread
  BY <1>11, RereadStep
<1>12. CASE UNCHANGED vars
  <2>1. /\ UNCHANGED <<orders, account, trades, billed, cmds, book, batch, topics>>
        /\ UNCHANGED <<inflight, answers, pos, mPos, tPos>>
    BY <1>12 DEF vars, topics
  <2>2. inflight' \subseteq Valid /\ pos' \in Nat /\ mPos' \in Nat /\ tPos' \in Nat
    BY <2>1 DEF IInv, Types
  <2>3. Types'
    BY <2>1, <2>2, TypesSame DEF IInv
  <2>4. Books'
    BY <2>1, RowsSame, BooksKept DEF IInv, Holding
  <2>5. Keys'
    BY <2>1 DEF IInv, Keys
  <2>6. QED
    BY <2>3, <2>4, <2>5 DEF IInv
<1>13. QED
  BY <1>1, <1>2, <1>3, <1>4, <1>5, <1>6, <1>7, <1>8, <1>9, <1>10, <1>11, <1>12, Zenon DEF Next

(* The invariant holds throughout.                                         *)
THEOREM AlwaysIInv == Spec => []IInv
<1>1. Init => IInv
  BY InitIInv
<1>2. IInv /\ [Next]_vars => IInv'
  BY NextIInv
<1>3. QED
  BY <1>1, <1>2, PTL DEF Spec

(* Requests that race with the same client_order_id make one order, and    *)
(* all of them are answered with it (lookupIdempotentOrder, InsertPending). *)
THEOREM OneOrderPerClientKey == Spec => []OneOrderPerKey
<1>1. IInv => OneOrderPerKey
  BY DEF IInv, Keys, OneOrderPerKey, GetOrderByUser
<1>2. QED
  BY <1>1, AlwaysIInv, PTL

(* What a user is shown to have, balance and frozen together, is what was  *)
(* paid in, changed by every adjustment and every trade exactly once, and  *)
(* no row is overdrawn, however                                            *)
(* the two consumers, repeated events, cancels, rejects and batches        *)
(* interleave (ApplyTradeEvent, ApplyMatchEvent, UpdateBalance).           *)
THEOREM HoldingsExact == Spec => []HoldingsFollowTrades
<1>1. IInv => HoldingsFollowTrades
  <2> SUFFICES ASSUME IInv, NEW u \in Users, NEW a \in Assets
               PROVE  /\ GetBalance(u, a).balance + GetBalance(u, a).frozen =
                            Deposit[a] + Billed(u, a) + Gained(u, a)
                      /\ ListBalances(u)[a].balance >= 0 /\ ListBalances(u)[a].frozen >= 0
    BY DEF HoldingsFollowTrades
  <2>2. account[u][a].free \in Nat /\ account[u][a].frozen \in Nat
    BY DEF IInv, Types, Accounts
  <2>3. GetBalance(u, a).balance + GetBalance(u, a).frozen = Holding(account, u, a)
    BY DEF GetBalance, ToBalance, AccountBalance, Holding
  <2>4. ListBalances(u)[a].balance = account[u][a].free /\ ListBalances(u)[a].frozen = account[u][a].frozen
    BY DEF ListBalances, ToBalance, AccountBalance
  <2>5. QED
    BY <2>2, <2>3, <2>4 DEF IInv, Books
<1>2. QED
  BY <1>1, AlwaysIInv, PTL

-----------------------------------------------------------------------------
(* What the shard has done, and what it told.                              *)

Sides(tr) == {tr.maker, tr.taker}

(* The trades that were written to trade.events, and all that were made.   *)
Published == ToSet(tradeEvents)
Matched == UNION {ToSet(batch[c].trades) : c \in DOMAIN batch}
Made == Published \cup Matched

IsNew(cmd, id) == cmd.kind = "New" /\ cmd.id = id

(* The shard has handled the command that opened the order.                *)
Began(id) == \E p \in 1..pos : IsNew(cmds[p], id)

IsCanceled(ev, id) == ev.type = "CANCELED" /\ ev.id = id
IsFilled(ev, id) == ev.type = "FILLED" /\ ev.id = id

Dropped(id) == \/ \E k \in DOMAIN matchEvents : IsCanceled(matchEvents[k], id)
               \/ \E c \in DOMAIN batch : batch[c].kind = "Cancel" /\ batch[c].id = id

(* There is a place for every order and every request.                     *)
Room == IsFiniteSet(inflight) /\ Cardinality(inflight) + Len(orders) <= MaxOrders

(* One command opens an order, and it is the first of the order's.         *)
Commands ==
    /\ pos <= Len(cmds)
    /\ \A p, q \in DOMAIN cmds : IsNew(cmds[p], cmds[q].id) /\ IsNew(cmds[q], cmds[q].id) => p = q
    /\ \A p \in DOMAIN cmds : \E q \in 1..p : IsNew(cmds[q], cmds[p].id)
    /\ \A id \in DOMAIN orders : \E q \in DOMAIN cmds : IsNew(cmds[q], id)

(* An order rests, trades and is cancelled only once it was opened; one    *)
(* that traded rests with less than it asked for, one that was cancelled   *)
(* rests no more.                                                          *)
Resting == \A m \in Ids : book[m] > 0 => Began(m) /\ m \in seen
Traded ==
    \A tr \in Made : \A id \in Sides(tr) :
        id \in Ids /\ Began(id) /\ id \in seen /\ book[id] < orders[id].qty
Gone == \A id \in Ids : Dropped(id) => Began(id) /\ book[id] <= 0

(* What a command leaves in the batch.                                     *)
Outcomes ==
    \A c \in DOMAIN batch :
        /\ batch[c].kind = "Cancel" => batch[c].trades = <<>>
        /\ \A tr \in ToSet(batch[c].trades) : tr.taker = batch[c].id

(* A trade that fills an order is its only one.                            *)
OnlyTrade ==
    \A tr \in Made : \A id \in Sides(tr) :
        tr.qty = orders[id].qty =>
            book[id] <= 0 /\ \A other \in Made : id \in Sides(other) => other = tr

(* No trade comes after the end of its order ...                           *)
NoTradeAfter ==
    /\ \A c, d \in DOMAIN batch : \A tr \in ToSet(batch[d].trades) :
         batch[c].kind = "Cancel" /\ batch[c].id \in Sides(tr) => d < c
    /\ \A k \in DOMAIN matchEvents : \A tr \in Matched :
         matchEvents[k].type = "CANCELED" => matchEvents[k].id \notin Sides(tr)

(* ... and the event of the fill before that of the end.                   *)
FilledFirst ==
    \A tr \in Published : \A id \in Sides(tr) :
        tr.qty = orders[id].qty =>
            /\ \E i \in DOMAIN matchEvents : IsFilled(matchEvents[i], id)
            /\ \A k \in DOMAIN matchEvents : IsCanceled(matchEvents[k], id) =>
                  \E i \in 1..(k - 1) : IsFilled(matchEvents[i], id)

(* What an event says is filled was traded, by a trade written with it.    *)
FillTold ==
    \A k \in DOMAIN matchEvents : matchEvents[k].filled > 0 =>
        \E tr \in Published : matchEvents[k].id \in Sides(tr)

(* What the two consumers have read.                                       *)
ReadMatches ==
    /\ mPos <= Len(matchEvents) /\ processed \subseteq ToSet(matchEvents)
    /\ \A i \in 1..mPos : matchEvents[i] \in processed
    /\ \A ev \in processed : ev.type = "FILLED" => orders[ev.id].status \in Terminal
    /\ \A id \in DOMAIN orders : orders[id].status = "CANCELED" =>
          \E ev \in processed : IsCanceled(ev, id)
ReadTrades ==
    /\ trades \subseteq Published
    /\ \A id \in DOMAIN orders : orders[id].filled > 0 => \E tr \in Published : id \in Sides(tr)

(* A traded order of the account does not end in another way.              *)
EndsByTrade(u, a) ==
    \A tr \in Published : \A id \in Sides(tr) \cap OrdersOf(u, a) :
        orders[id].status \notin {"CANCELED", "REJECTED"}

(* What is frozen for order id: what is needed, and once its trade is      *)
(* settled or its cancel or reject applied what rounding, or a better      *)
(* price, left over.                                                       *)
StillFrozen(id) ==
    LET o == orders[id]
        settled == {tr \in trades : id \in {tr.maker, tr.taker}}
    IN  CASE settled # {} -> Locked(o) - SumFunction([tr \in settled |-> Amount(Paid(o.side), tr)])
          [] settled = {} /\ o.status \in {"CANCELED", "REJECTED"} ->
                Locked(o) - RoundDown(Paid(o.side), ComputeFreeze(o))
          [] OTHER -> Locked(o)

FrozenAgrees(u, a) ==
    account[u][a].frozen = SumFunction([id \in OrdersOf(u, a) |-> StillFrozen(id)])

CoreInv == Outcomes /\ Resting /\ Traded /\ Gone /\ OnlyTrade /\ NoTradeAfter
TellInv == FilledFirst /\ FillTold
ShardInv == Room /\ Commands /\ CoreInv /\ TellInv
ReadInv == ReadMatches /\ ReadTrades
FreezeInv ==
    \A u \in Users, a \in Assets : Regular(u, a) => EndsByTrade(u, a) /\ FrozenAgrees(u, a)

-----------------------------------------------------------------------------
(* The elements of a flattened sequence: where those of each part begin.   *)
IsStart(b, s, F) ==
    /\ b \in [1..Len(s) -> Nat]
    /\ \A i \in 1..Len(s) : \A j \in 1..Len(s[i]) : b[i] + j \in 1..Len(F) /\ F[b[i] + j] = s[i][j]
    /\ \A k \in 1..Len(F) : \E i \in 1..Len(s) : \E j \in 1..Len(s[i]) : k = b[i] + j
    /\ \A i, h \in 1..Len(s) : i < h => b[i] + Len(s[i]) <= b[h]

Bounded(b, s, F) == \A i \in 1..Len(s) : b[i] + Len(s[i]) <= Len(F)

LEMMA StartAppended ==
    ASSUME NEW T, NEW s \in Seq(Seq(T)), NEW x \in Seq(T), NEW F \in Seq(T),
           NEW b, IsStart(b, s, F), Bounded(b, s, F)
    PROVE  \E c : IsStart(c, Append(s, x), F \o x) /\ Bounded(c, Append(s, x), F \o x)
<1>1. PICK l \in Nat, n \in Nat, k \in Nat : l = Len(s) /\ n = Len(F) /\ k = Len(x)
  OBVIOUS
<1>2. PICK t : t = Append(s, x)
  OBVIOUS
<1>3. Len(t) = l + 1 /\ t[l + 1] = x /\ \A i \in 1..l : t[i] = s[i] /\ Len(t[i]) \in Nat
  BY <1>1, <1>2
<1>4. PICK G : G = F \o x
  OBVIOUS
<1>5. /\ Len(G) = n + k /\ \A i \in 1..n : G[i] = F[i]
      /\ \A j \in 1..k : G[n + j] = x[j]
  BY <1>1, <1>4
<1>6. PICK c : c = [i \in 1..(l + 1) |-> IF i = l + 1 THEN n ELSE b[i]]
  OBVIOUS
<1>7. b \in [1..l -> Nat] /\ \A i \in 1..l : b[i] + Len(t[i]) <= n
  BY <1>1, <1>3 DEF IsStart, Bounded
<1>8. /\ c \in [1..(l + 1) -> Nat] /\ c[l + 1] = n /\ \A i \in 1..l : c[i] = b[i]
  <2>1. \A i \in 1..(l + 1) : (IF i = l + 1 THEN n ELSE b[i]) \in Nat
    BY <1>7
  <2>2. QED
    BY <1>6, <2>1
<1>9. \A i \in 1..(l + 1) : \A j \in 1..Len(t[i]) :
         c[i] + j \in 1..Len(G) /\ G[c[i] + j] = t[i][j]
  <2>1. ASSUME NEW i \in 1..l, NEW j \in 1..Len(t[i])
        PROVE  c[i] + j \in 1..Len(G) /\ G[c[i] + j] = t[i][j]
    <3>1. b[i] + j \in 1..n /\ F[b[i] + j] = s[i][j]
      BY <1>1, <1>3 DEF IsStart
    <3>2. PICK p \in 1..n : p = c[i] + j /\ F[p] = t[i][j]
      BY <1>3, <1>8, <3>1
    <3>3. p \in 1..Len(G) /\ G[p] = F[p]
      BY <1>5
    <3>4. QED
      BY <3>2, <3>3
  <2>2. ASSUME NEW j \in 1..k PROVE c[l + 1] + j \in 1..Len(G) /\ G[c[l + 1] + j] = x[j]
    <3>1. n + j \in 1..(n + k) /\ G[n + j] = x[j]
      BY <1>5
    <3>2. QED
      BY <1>5, <1>8, <3>1
  <2>3. ASSUME NEW i \in 1..(l + 1), NEW j \in 1..Len(t[i])
        PROVE  c[i] + j \in 1..Len(G) /\ G[c[i] + j] = t[i][j]
    <3>1. CASE i = l + 1
      <4>1. j \in 1..k
        BY <1>1, <1>3, <3>1
      <4>2. QED
        BY <1>3, <2>2, <3>1, <4>1
    <3>2. CASE i # l + 1
      <4>1. i \in 1..l
        BY <3>2
      <4>2. QED
        BY <2>1, <4>1
    <3>3. QED
      BY <3>1, <3>2
  <2>4. QED
    BY <2>3
<1>10. \A p \in 1..Len(G) : \E i \in 1..(l + 1) : \E j \in 1..Len(t[i]) : p = c[i] + j
  <2>1. ASSUME NEW p \in 1..Len(G) PROVE \E i \in 1..(l + 1) : \E j \in 1..Len(t[i]) : p = c[i] + j
    <3>1. CASE p \in 1..n
      <4>1. PICK i \in 1..l : \E j \in 1..Len(s[i]) : p = b[i] + j
        BY <1>1, <3>1 DEF IsStart
      <4>2. PICK j \in 1..Len(s[i]) : p = b[i] + j
        BY <4>1
      <4>3. i \in 1..(l + 1) /\ j \in 1..Len(t[i]) /\ p = c[i] + j
        BY <1>3, <1>8, <4>2
      <4>4. QED
        BY <4>3
    <3>2. CASE p \notin 1..n
      <4>1. PICK j : j = p - n
        OBVIOUS
      <4>2. j \in 1..k /\ p = n + j
        BY <1>5, <3>2, <4>1
      <4>3. l + 1 \in 1..(l + 1) /\ j \in 1..Len(t[l + 1]) /\ p = c[l + 1] + j
        BY <1>1, <1>3, <1>8, <4>2
      <4>4. QED
        BY <4>3
    <3>3. QED
      BY <3>1, <3>2
  <2>2. QED
    BY <2>1
<1>11. \A i, h \in 1..(l + 1) : i < h => c[i] + Len(t[i]) <= c[h]
  <2>1. ASSUME NEW i \in 1..(l + 1), NEW h \in 1..(l + 1), i < h PROVE c[i] + Len(t[i]) <= c[h]
    <3>1. CASE h = l + 1
      <4>1. i \in 1..l
        BY <2>1, <3>1
      <4>2. QED
        BY <1>7, <1>8, <3>1, <4>1
    <3>2. CASE h # l + 1
      <4>1. i \in 1..l /\ h \in 1..l
        BY <2>1, <3>2
      <4>2. b[i] + Len(s[i]) <= b[h]
        BY <1>1, <2>1, <4>1 DEF IsStart
      <4>3. QED
        BY <1>3, <1>8, <4>1, <4>2
    <3>3. QED
      BY <3>1, <3>2
  <2>2. QED
    BY <2>1
<1>12. \A i \in 1..(l + 1) : c[i] + Len(t[i]) <= Len(G)
  <2>1. ASSUME NEW i \in 1..(l + 1) PROVE c[i] + Len(t[i]) <= Len(G)
    <3>1. CASE i = l + 1
      BY <1>1, <1>3, <1>5, <1>8, <3>1
    <3>2. CASE i # l + 1
      <4>1. i \in 1..l
        BY <3>2
      <4>2. c[i] + Len(t[i]) <= n /\ c[i] \in Nat /\ Len(t[i]) \in Nat
        BY <1>3, <1>7, <1>8, <4>1
      <4>3. QED
        BY <1>5, <4>2
    <3>3. QED
      BY <3>1, <3>2
  <2>2. QED
    BY <2>1
<1>13. IsStart(c, t, G) /\ Bounded(c, t, G)
  <2>1. IsStart(c, t, G)
    BY <1>3, <1>8, <1>9, <1>10, <1>11 DEF IsStart
  <2>2. Bounded(c, t, G)
    BY <1>3, <1>12 DEF Bounded
  <2>3. QED
    BY <2>1, <2>2
<1>14. QED
  BY <1>2, <1>4, <1>13

LEMMA FlatPlaces ==
    ASSUME NEW T, NEW s \in Seq(Seq(T))
    PROVE  \E b : IsStart(b, s, FlattenSeq(s))
<1> DEFINE HasStart(u) == \E b : IsStart(b, u, FlattenSeq(u)) /\ Bounded(b, u, FlattenSeq(u))
           G == {n \in Nat : \A u \in Seq(Seq(T)) : Len(u) = n => HasStart(u)}
<1>1. 0 \in G
  <2>1. ASSUME NEW u \in Seq(Seq(T)), Len(u) = 0 PROVE HasStart(u)
    <3>1. FlattenSeq(u) = <<>>
      BY <2>1 DEF FlattenSeq
    <3>2. PICK b : b = [i \in 1..0 |-> 0]
      OBVIOUS
    <3>3. b \in [1..0 -> Nat]
      BY <3>2
    <3>4. IsStart(b, u, <<>>) /\ Bounded(b, u, <<>>)
      BY <2>1, <3>3 DEF IsStart, Bounded
    <3>5. QED
      BY <3>1, <3>4
  <2>2. QED
    BY <2>1
<1>2. ASSUME NEW n \in G PROVE n + 1 \in G
  <2>1. ASSUME NEW u \in Seq(Seq(T)), Len(u) = n + 1 PROVE HasStart(u)
    <3>1. n \in Nat
      OBVIOUS
    <3>2. PICK t, x : t = SubSeq(u, 1, n) /\ x = u[n + 1]
      OBVIOUS
    <3>3. t \in Seq(Seq(T)) /\ Len(t) = n /\ x \in Seq(T) /\ u = Append(t, x)
      <4>1. t \in Seq(Seq(T)) /\ Len(t) = n /\ \A i \in 1..n : t[i] = u[i]
        BY <2>1, <3>1, <3>2
      <4>2. x \in Seq(T)
        <5>1. n + 1 \in 1..Len(u)
          BY <2>1, <3>1
        <5>2. QED
          BY <3>2, <5>1
      <4>3. Len(Append(t, x)) = n + 1 /\ \A i \in 1..(n + 1) : Append(t, x)[i] = u[i]
        BY <3>1, <3>2, <4>1, <4>2
      <4>4. Append(t, x) \in Seq(Seq(T))
        BY <4>1, <4>2
      <4>5. u = Append(t, x)
        BY <2>1, <4>3, <4>4
      <4>6. QED
        BY <4>1, <4>2, <4>5
    <3>4. HasStart(t)
      BY <3>3
    <3>5. PICK b : IsStart(b, t, FlattenSeq(t)) /\ Bounded(b, t, FlattenSeq(t))
      BY <3>4
    <3>6. FlattenSeq(t) \in Seq(T) /\ FlattenSeq(u) = FlattenSeq(t) \o x
      BY <3>3, FlatSeq, FlatAppend
    <3>7. PICK F \in Seq(T) : F = FlattenSeq(t)
      BY <3>6
    <3>8. \E c : IsStart(c, Append(t, x), F \o x) /\ Bounded(c, Append(t, x), F \o x)
      BY <3>3, <3>5, <3>7, StartAppended
    <3>9. QED
      BY <3>3, <3>6, <3>7, <3>8
  <2>2. QED
    BY <2>1
<1>3. G = Nat
  <2> HIDE DEF G
  <2>1. G \in SUBSET Nat
    BY DEF G
  <2>2. QED
    BY <1>1, <1>2, <2>1, NatSetInduction
<1>4. PICK l \in Nat : l = Len(s)
  OBVIOUS
<1>5. HasStart(s)
  BY <1>3, <1>4
<1>6. QED
  BY <1>5

-----------------------------------------------------------------------------
(* The trades of one command: one with each maker, no more than it rests   *)
(* with, and no other, if one of them fills the new order.                 *)
OneCommand(fills, id) ==
    /\ fills \in Seq(GoodTrade)
    /\ \A k \in DOMAIN fills :
         /\ fills[k].taker = id /\ fills[k].maker # id
         /\ book[fills[k].maker] > 0 /\ fills[k].qty <= book[fills[k].maker]
         /\ fills[k].qty <= orders[id].qty
    /\ \A k, l \in DOMAIN fills : fills[k].maker = fills[l].maker => k = l
    /\ \A k, l \in DOMAIN fills : fills[k].qty = orders[id].qty => k = l

(* What the first i - 1 makers give.                                       *)
Given(makers, i) == SumFunction([j \in 1..i - 1 |-> book[makers[j]]])

LEMMA GivenSum ==
    ASSUME NEW makers, NEW i \in Nat, \A j \in 1..i - 1 : book[makers[j]] \in Nat
    PROVE  /\ Given(makers, i) \in Nat
           /\ i > 1 => book[makers[1]] <= Given(makers, i)
<1>1. PICK S : S = 1..i - 1
  OBVIOUS
<1>2. IsFiniteSet(S)
  <2>1. i - 1 \in Int /\ 1 \in Int
    OBVIOUS
  <2>2. QED
    BY <1>1, <2>1, FS_Interval
<1>3. PICK f : f = [j \in S |-> book[makers[j]]]
  OBVIOUS
<1>4. \A j \in S : f[j] \in Nat
  BY <1>1, <1>3
<1>5. Given(makers, i) = SumFunctionOnSet(f, S)
  BY <1>1, <1>3 DEF Given, SumFunction
<1>6. SumFunctionOnSet(f, S) \in Nat
  BY <1>2, <1>4, SumNat
<1>7. ASSUME i > 1 PROVE book[makers[1]] <= Given(makers, i)
  <2>1. 1 \in S
    BY <1>1, <1>7
  <2>2. \A j \in S : f[j] \in Int
    BY <1>4
  <2>3. SumFunctionOnSet(f, S) = f[1] + SumFunctionOnSet(f, S \ {1})
    BY <1>2, <2>1, <2>2, SumTakes
  <2>4. IsFiniteSet(S \ {1}) /\ \A j \in S \ {1} : f[j] \in Nat
    BY <1>2, <1>4, FS_Subset
  <2>5. SumFunctionOnSet(f, S \ {1}) \in Nat
    BY <2>4, SumNat
  <2>6. f[1] = book[makers[1]] /\ f[1] \in Nat
    BY <1>3, <1>4, <2>1
  <2>7. QED
    BY <1>5, <2>3, <2>5, <2>6
<1>8. QED
  BY <1>5, <1>6, <1>7

(* Sums over the first n numbers.                                          *)
UpTo(f, n) == SumFunctionOnSet(f, 1..n)

LEMMA UpToNext ==
    ASSUME NEW f, NEW n \in Nat, \A j \in 1..(n + 1) : f[j] \in Nat
    PROVE  UpTo(f, n) \in Nat /\ UpTo(f, n + 1) = UpTo(f, n) + f[n + 1]
<1>1. IsFiniteSet(1..n) /\ IsFiniteSet(1..(n + 1))
  <2>1. n \in Int /\ n + 1 \in Int /\ 1 \in Int
    OBVIOUS
  <2>2. QED
    BY <2>1, FS_Interval
<1>2. UpTo(f, n) \in Nat
  <2>1. \A j \in 1..n : f[j] \in Nat
    OBVIOUS
  <2>2. QED
    BY <1>1, <2>1, SumNat DEF UpTo
<1>3. n + 1 \in 1..(n + 1) /\ 1..n = (1..(n + 1)) \ {n + 1} /\ \A j \in 1..(n + 1) : f[j] \in Int
  OBVIOUS
<1>4. UpTo(f, n + 1) = f[n + 1] + UpTo(f, n)
  <2>1. PICK S, y : S = 1..(n + 1) /\ y = n + 1
    OBVIOUS
  <2>2. IsFiniteSet(S) /\ y \in S /\ S \ {y} = 1..n /\ \A j \in S : f[j] \in Int
    BY <1>1, <1>3, <2>1
  <2>3. SumFunctionOnSet(f, S) = f[y] + SumFunctionOnSet(f, S \ {y})
    BY <2>2, SumTakes
  <2>4. QED
    BY <2>1, <2>2, <2>3 DEF UpTo
<1>5. f[n + 1] \in Nat
  BY <1>3
<1>6. QED
  BY <1>2, <1>4, <1>5

LEMMA UpToNone ==
    ASSUME NEW f
    PROVE  UpTo(f, 0) = 0
<1>1. 1..0 = {}
  OBVIOUS
<1>2. QED
  BY <1>1, FS_EmptySet, SumSteps DEF UpTo

LEMMA UpToGrows ==
    ASSUME NEW f, NEW l \in Nat, \A j \in 1..l : f[j] \in Nat
    PROVE  /\ \A a \in 0..l : UpTo(f, a) \in Nat
           /\ \A a, b \in 0..l : a <= b => UpTo(f, a) <= UpTo(f, b)
<1>1. ASSUME NEW a \in 0..l
      PROVE  UpTo(f, a) \in Nat /\ IsFiniteSet(1..a)
  <2>1. a \in Int /\ 1 \in Int /\ \A j \in 1..a : f[j] \in Nat
    OBVIOUS
  <2>2. IsFiniteSet(1..a)
    BY <2>1, FS_Interval
  <2>3. QED
    BY <2>1, <2>2, SumNat DEF UpTo
<1>2. ASSUME NEW a \in 0..l, NEW b \in 0..l, a <= b PROVE UpTo(f, a) <= UpTo(f, b)
  <2>1. PICK R : R = (a + 1)..b
    OBVIOUS
  <2>2. IsFiniteSet(R)
    <3>1. a + 1 \in Int /\ b \in Int
      OBVIOUS
    <3>2. QED
      BY <2>1, <3>1, FS_Interval
  <2>3. (1..a) \cap R = {} /\ 1..b = (1..a) \cup R
    BY <1>2, <2>1
  <2>4. \A j \in (1..a) \cup R : f[j] \in Int
    BY <1>2, <2>1
  <2>5. SumFunctionOnSet(f, (1..a) \cup R) = SumFunctionOnSet(f, 1..a) + SumFunctionOnSet(f, R)
    BY <1>1, <2>2, <2>3, <2>4, SumSplit
  <2>6. SumFunctionOnSet(f, R) \in Nat
    <3>1. \A j \in R : f[j] \in Nat
      BY <2>1
    <3>2. QED
      BY <2>2, <3>1, SumNat
  <2>7. UpTo(f, b) = UpTo(f, a) + SumFunctionOnSet(f, R)
    BY <2>3, <2>5 DEF UpTo
  <2>8. QED
    BY <1>1, <2>6, <2>7
<1>3. QED
  BY <1>1, <1>2

(* What is given by chosen ones of l, each no more than it has and than is *)
(* left of q, comes to q at most.                                          *)
LEMMA GivenFits ==
    ASSUME NEW l \in Nat, NEW g, \A i \in 1..l : g[i] \in Nat,
           NEW n \in Nat, NEW h, \A k \in 1..n : h[k] \in Nat,
           NEW p, \A k \in 1..n : p[k] \in 1..l, \A k, m \in 1..n : k < m => p[k] < p[m],
           NEW q \in Nat,
           \A k \in 1..n : h[k] <= g[p[k]] /\ h[k] <= q - UpTo(g, p[k] - 1)
    PROVE  UpTo(h, n) <= q
<1> DEFINE at(k) == IF k = 0 THEN 0 ELSE p[k]
           M == {m \in Nat : m <= n => UpTo(h, m) <= UpTo(g, at(m))}
<1>1. \A k \in 0..n : at(k) \in 0..l
  OBVIOUS
<1>2. /\ \A a \in 0..l : UpTo(g, a) \in Nat
      /\ \A a, b \in 0..l : a <= b => UpTo(g, a) <= UpTo(g, b)
  BY UpToGrows
<1>3. /\ \A a \in 0..n : UpTo(h, a) \in Nat
      /\ UpTo(h, 0) = 0 /\ UpTo(g, 0) = 0
  BY UpToGrows, UpToNone
<1>4. ASSUME NEW m \in Nat, m + 1 <= n
      PROVE  /\ UpTo(h, m + 1) = UpTo(h, m) + h[m + 1]
             /\ at(m) <= p[m + 1] - 1 /\ p[m + 1] \in 1..l
             /\ UpTo(g, at(m)) <= UpTo(g, p[m + 1] - 1)
             /\ UpTo(g, p[m + 1]) = UpTo(g, p[m + 1] - 1) + g[p[m + 1]]
  <2>1. \A j \in 1..(m + 1) : h[j] \in Nat
    BY <1>4
  <2>2. UpTo(h, m + 1) = UpTo(h, m) + h[m + 1]
    BY <2>1, UpToNext
  <2>3. PICK i \in 1..l : i = p[m + 1]
    BY <1>4
  <2>4. at(m) <= i - 1
    <3>1. CASE m = 0
      BY <3>1
    <3>2. CASE m # 0
      <4>1. m \in 1..n /\ m + 1 \in 1..n /\ m < m + 1
        BY <1>4, <3>2
      <4>2. p[m] < i /\ p[m] \in 1..l
        BY <2>3, <4>1
      <4>3. QED
        BY <3>2, <4>2
    <3>3. QED
      BY <3>1, <3>2
  <2>5. at(m) \in 0..l /\ i - 1 \in 0..l
    BY <1>1, <1>4
  <2>6. UpTo(g, at(m)) <= UpTo(g, i - 1)
    BY <1>2, <2>4, <2>5
  <2>7. UpTo(g, i) = UpTo(g, i - 1) + g[i]
    <3>1. PICK j \in Nat : i = j + 1 /\ j = i - 1
      OBVIOUS
    <3>2. \A x \in 1..(j + 1) : g[x] \in Nat
      BY <3>1
    <3>3. UpTo(g, j + 1) = UpTo(g, j) + g[j + 1]
      BY <3>2, UpToNext
    <3>4. QED
      BY <3>1, <3>3
  <2>8. QED
    BY <2>2, <2>3, <2>4, <2>6, <2>7
<1>5. 0 \in M
  BY <1>3
<1>6. ASSUME NEW m \in M PROVE m + 1 \in M
  <2>1. ASSUME m + 1 <= n PROVE UpTo(h, m + 1) <= UpTo(g, at(m + 1))
    <3>1. UpTo(h, m) <= UpTo(g, at(m)) /\ m \in Nat
      BY <1>6, <2>1
    <3>2. PICK i \in 1..l : i = p[m + 1] /\ at(m + 1) = i
      BY <1>4, <2>1, <3>1
    <3>3. h[m + 1] \in Nat /\ g[i] \in Nat /\ h[m + 1] <= g[i]
      BY <2>1, <3>1, <3>2
    <3>4. PICK a \in Nat, b \in Nat, c \in Nat :
              a = UpTo(h, m) /\ b = UpTo(g, at(m)) /\ c = UpTo(g, i - 1)
      <4>1. m \in 0..n /\ at(m) \in 0..l /\ i - 1 \in 0..l
        BY <1>1, <2>1, <3>1
      <4>2. UpTo(h, m) \in Nat /\ UpTo(g, at(m)) \in Nat /\ UpTo(g, i - 1) \in Nat
        BY <1>2, <1>3, <4>1
      <4>3. QED
        BY <4>2
    <3>5. a <= b /\ b <= c /\ UpTo(h, m + 1) = a + h[m + 1] /\ UpTo(g, i) = c + g[i]
      BY <1>4, <2>1, <3>1, <3>2, <3>4
    <3>6. UpTo(h, m + 1) <= UpTo(g, i)
      BY <3>3, <3>5
    <3>7. QED
      BY <3>2, <3>6
  <2>2. QED
    BY <2>1
<1> HIDE DEF at
<1>7. M = Nat
  <2>1. M \in SUBSET Nat
    OBVIOUS
  <2> HIDE DEF M
  <2>2. QED
    BY <1>5, <1>6, <2>1, NatSetInduction
<1>8. CASE n = 0
  BY <1>3, <1>8
<1>9. CASE n # 0
  <2>1. PICK m \in Nat : n = m + 1 /\ m + 1 <= n /\ m \in 0..n /\ m <= n
    BY <1>9
  <2>2. UpTo(h, m) <= UpTo(g, at(m))
    BY <1>7, <2>1
  <2>3. PICK i \in 1..l : i = p[m + 1]
    BY <1>4, <2>1
  <2>4. PICK a \in Nat, b \in Nat, c \in Nat :
            a = UpTo(h, m) /\ b = UpTo(g, at(m)) /\ c = UpTo(g, i - 1)
    <3>1. at(m) \in 0..l /\ i - 1 \in 0..l
      BY <1>1, <2>1
    <3>2. UpTo(h, m) \in Nat /\ UpTo(g, at(m)) \in Nat /\ UpTo(g, i - 1) \in Nat
      BY <1>2, <1>3, <2>1, <3>1
    <3>3. QED
      BY <3>2
  <2>5. h[m + 1] \in Nat /\ h[m + 1] <= q - c
    BY <2>1, <2>3, <2>4
  <2>6. a <= b /\ b <= c /\ UpTo(h, m + 1) = a + h[m + 1]
    BY <1>4, <2>1, <2>2, <2>3, <2>4
  <2>7. QED
    BY <2>1, <2>5, <2>6
<1>10. QED
  BY <1>8, <1>9

LEMMA TwoMakers ==
    ASSUME Types, NEW o, NEW makers \in Makers(o), NEW i \in DOMAIN makers, NEW j \in DOMAIN makers,
           makers[i] = makers[j]
    PROVE  i = j
<1>1. PICK m : m = makers[i] /\ m = makers[j]
  OBVIOUS
<1>2. m \in Ids /\ orders[m].price \in Nat
  BY <1>1, MakersRow, EligibleMaker
<1>3. m \in Nat
  BY <1>2, SettlementAssumption DEF Ids
<1>4. ~Better(o.side, m, m)
  BY <1>2, <1>3 DEF Better
<1>5. \A k, l \in DOMAIN makers : k < l => Better(o.side, makers[k], makers[l])
  BY DEF Makers
<1>6. ~(i < j) /\ ~(j < i)
  BY <1>1, <1>4, <1>5
<1>7. i \in Nat /\ j \in Nat
  BY MakersRow
<1>8. QED
  BY <1>6, <1>7

LEMMA TradesOnce ==
    ASSUME Types, NEW id \in DOMAIN orders, NEW makers \in Makers(orders[id])
    PROVE  OneCommand(Trades(id, makers), id) /\ Total(Trades(id, makers)) <= orders[id].qty
<1>1. PICK l \in Nat : l = Len(makers) /\ DOMAIN makers = 1..l
  BY MakersRow
<1>2. PICK q \in Nat \ {0} : q = orders[id].qty
  BY RowFields DEF Types
<1>3. \A i \in 1..l : book[makers[i]] \in Nat /\ book[makers[i]] > 0 /\ makers[i] # id
  BY <1>1, MakersRow, EligibleMaker
<1>4. ASSUME NEW i \in 1..l
      PROVE  /\ Given(makers, i) \in Nat /\ (i > 1 => book[makers[1]] <= Given(makers, i))
  <2>1. i \in Nat /\ \A j \in 1..i - 1 : j \in 1..l
    OBVIOUS
  <2>2. \A j \in 1..i - 1 : book[makers[j]] \in Nat
    BY <1>3, <2>1
  <2>3. QED
    BY <2>1, <2>2, GivenSum
<1>5. PICK all : all = [i \in DOMAIN makers |->
                  [maker |-> makers[i], taker |-> id, price |-> orders[makers[i]].price,
                   qty |-> Min({book[makers[i]], q - Given(makers, i)})]]
  OBVIOUS
<1>6. PICK chosen : chosen = {i \in DOMAIN all : all[i].qty > 0}
  OBVIOUS
<1>7. Trades(id, makers) = AtPositions(all, chosen)
  BY <1>2, <1>5, <1>6 DEF Trades, Given
<1>8. ASSUME NEW i \in 1..l
      PROVE  /\ all[i].maker = makers[i] /\ all[i].taker = id
             /\ all[i].qty \in {book[makers[i]], q - Given(makers, i)}
             /\ all[i].qty <= book[makers[i]] /\ all[i].qty <= q - Given(makers, i)
  <2>1. book[makers[i]] \in Int /\ q - Given(makers, i) \in Int
    BY <1>3, <1>4
  <2>2. all[i].maker = makers[i] /\ all[i].taker = id
        /\ all[i].qty = Min({book[makers[i]], q - Given(makers, i)})
    BY <1>1, <1>5
  <2>3. QED
    BY <2>1, <2>2, SmallerOf
<1>9. PICK fills : fills = Trades(id, makers)
  OBVIOUS
<1>10. fills \in Seq(GoodTrade)
  BY <1>9, TradesGood
<1>11. PICK p : IsSelection(fills, p, all, chosen)
  <2>1. all \in Seq(ValuesOf(all)) /\ chosen \in SUBSET DOMAIN all
    <3>1. DOMAIN all = 1..l
      BY <1>1, <1>5
    <3>2. all = [i \in 1..l |-> all[i]]
      BY <1>1, <1>5
    <3>3. \A i \in 1..l : all[i] \in ValuesOf(all)
      BY <3>1 DEF ValuesOf
    <3>4. all \in [1..l -> ValuesOf(all)]
      BY <3>2, <3>3
    <3>5. QED
      BY <1>6, <3>4
  <2>2. QED
    BY <1>7, <1>9, <2>1, AtPositionsProperties
<1>12. ASSUME NEW k \in DOMAIN fills
       PROVE  p[k] \in 1..l /\ fills[k] = all[p[k]] /\ fills[k].qty > 0
  <2>1. DOMAIN all = 1..l
    BY <1>1, <1>5
  <2>2. p[k] \in chosen /\ fills[k] = all[p[k]]
    BY <1>11 DEF IsSelection
  <2>3. QED
    BY <1>6, <2>1, <2>2
<1>13. ASSUME NEW k \in DOMAIN fills, NEW h \in DOMAIN fills, p[k] = p[h]
       PROVE  k = h
  <2>1. ~(k < h) /\ ~(h < k)
    <3>1. (k < h => p[k] < p[h]) /\ (h < k => p[h] < p[k])
      BY <1>11 DEF IsSelection
    <3>2. p[k] \in Nat /\ p[h] \in Nat
      BY <1>12
    <3>3. QED
      BY <1>13, <3>1, <3>2
  <2>2. k \in Nat /\ h \in Nat
    BY <1>10
  <2>3. QED
    BY <2>1, <2>2
<1>14. ASSUME NEW k \in DOMAIN fills
       PROVE  /\ fills[k].taker = id /\ fills[k].maker # id
              /\ book[fills[k].maker] > 0 /\ fills[k].qty <= book[fills[k].maker]
              /\ fills[k].qty <= q
  <2>1. PICK i \in 1..l : i = p[k] /\ fills[k] = all[i]
    BY <1>12
  <2>2. PICK g \in Nat, b \in Nat : g = Given(makers, i) /\ b = book[makers[i]]
    BY <1>3, <1>4
  <2>3. all[i].qty \in Int /\ all[i].qty <= q - g
    BY <1>8, <2>2
  <2>4. all[i].qty <= q
    BY <2>2, <2>3
  <2>5. QED
    BY <1>3, <1>8, <2>1, <2>4
<1>15. ASSUME NEW k \in DOMAIN fills, NEW h \in DOMAIN fills, fills[k].maker = fills[h].maker
       PROVE  k = h
  <2>1. makers[p[k]] = makers[p[h]] /\ p[k] \in DOMAIN makers /\ p[h] \in DOMAIN makers
    BY <1>1, <1>8, <1>12, <1>15
  <2>2. p[k] = p[h]
    BY <2>1, TwoMakers
  <2>3. QED
    BY <1>13, <2>2
<1>16. ASSUME NEW i \in 1..l, NEW j \in 1..l, all[i].qty = q, all[i].qty > 0, all[j].qty > 0
       PROVE  i = j
  <2>1. i = 1
    <3>1. CASE i > 1
      <4>1. 1 \in 1..l
        OBVIOUS
      <4>2. PICK b \in Nat, g \in Nat : b = book[makers[1]] /\ g = Given(makers, i) /\ b > 0 /\ b <= g
        BY <1>3, <1>4, <3>1, <4>1
      <4>3. q <= q - g
        BY <1>8, <1>16, <4>2
      <4>4. QED
        BY <4>2, <4>3
    <3>2. QED
      BY <3>1
  <2>2. PICK b \in Nat : b = book[makers[1]] /\ q <= b
    BY <1>3, <1>8, <1>16, <2>1
  <2>3. CASE j > 1
    <3>1. PICK g \in Nat : g = Given(makers, j) /\ b <= g
      BY <1>4, <2>2, <2>3
    <3>2. all[j].qty <= q - g /\ all[j].qty \in Int
      BY <1>3, <1>8, <3>1
    <3>3. QED
      BY <1>16, <2>2, <3>1, <3>2
  <2>4. QED
    BY <2>1, <2>3
<1>17. ASSUME NEW k \in DOMAIN fills, NEW h \in DOMAIN fills, fills[k].qty = q
       PROVE  k = h
  <2>1. p[k] = p[h]
    BY <1>12, <1>16, <1>17
  <2>2. QED
    BY <1>13, <2>1
<1>18. OneCommand(fills, id)
  BY <1>2, <1>10, <1>14, <1>15, <1>17 DEF OneCommand
<1>19. Total(fills) <= q
  <2>1. PICK n \in Nat : n = Len(fills) /\ DOMAIN fills = 1..n
    BY <1>10
  <2>2. PICK h : h = [k \in 1..n |-> fills[k].qty]
    OBVIOUS
  <2>3. PICK g : g = [i \in 1..l |-> book[makers[i]]]
    OBVIOUS
  <2>4. \A i \in 1..l : g[i] \in Nat /\ g[i] = book[makers[i]]
    BY <1>3, <2>3
  <2>5. ASSUME NEW i \in 1..l PROVE Given(makers, i) = UpTo(g, i - 1)
    <3>1. PICK j \in Nat : j = i - 1 /\ \A x \in 1..j : x \in 1..l
      OBVIOUS
    <3>2. IsFiniteSet(1..j)
      <4>1. j \in Int /\ 1 \in Int
        OBVIOUS
      <4>2. QED
        BY <4>1, FS_Interval
    <3>3. PICK f : f = [x \in 1..j |-> book[makers[x]]]
      OBVIOUS
    <3>4. DOMAIN f = 1..j /\ \A x \in 1..j : f[x] = g[x]
      BY <2>4, <3>1, <3>3
    <3>5. Given(makers, i) = SumFunctionOnSet(f, 1..j)
      BY <3>1, <3>3, <3>4 DEF Given, SumFunction
    <3>6. SumFunctionOnSet(f, 1..j) = SumFunctionOnSet(g, 1..j)
      BY <3>2, <3>4, SumSame
    <3>7. QED
      BY <3>1, <3>5, <3>6 DEF UpTo
  <2>6. ASSUME NEW k \in 1..n
        PROVE  /\ p[k] \in 1..l /\ h[k] \in Nat
               /\ h[k] <= g[p[k]] /\ h[k] <= q - UpTo(g, p[k] - 1)
    <3>1. PICK i \in 1..l : i = p[k] /\ fills[k] = all[i]
      BY <1>12, <2>1
    <3>2. fills[k] \in GoodTrade
      BY <1>10, <2>1
    <3>3. h[k] = all[i].qty /\ h[k] \in Nat
      BY <2>2, <3>1, <3>2, GoodTradeFields
    <3>4. h[k] <= g[i] /\ h[k] <= q - UpTo(g, i - 1)
      BY <1>8, <2>4, <2>5, <3>3
    <3>5. QED
      BY <3>1, <3>3, <3>4
  <2>7. \A k, m \in 1..n : k < m => p[k] < p[m]
    BY <1>11, <2>1 DEF IsSelection
  <2>8. UpTo(h, n) <= q
    BY <2>4, <2>6, <2>7, GivenFits
  <2>9. DOMAIN h = 1..n
    BY <2>2
  <2>10. Total(fills) = UpTo(h, n)
    BY <2>1, <2>2, <2>9 DEF Total, SumFunction, UpTo
  <2>11. QED
    BY <2>8, <2>10
<1>20. QED
  BY <1>2, <1>9, <1>18, <1>19

(* The book after the command: no maker rests with more than its trade     *)
(* left, and the new order not with more than the trades left.             *)
LEMMA SumAtLeast ==
    ASSUME NEW S, IsFiniteSet(S), NEW f, \A x \in S : f[x] \in Nat, NEW y \in S
    PROVE  f[y] <= SumFunctionOnSet(f, S)
<1>1. \A x \in S : f[x] \in Int
  OBVIOUS
<1>2. SumFunctionOnSet(f, S) = f[y] + SumFunctionOnSet(f, S \ {y})
  BY <1>1, SumTakes
<1>3. IsFiniteSet(S \ {y}) /\ \A x \in S \ {y} : f[x] \in Nat
  BY FS_Subset
<1>4. SumFunctionOnSet(f, S \ {y}) \in Nat
  BY <1>3, SumNat
<1>5. f[y] \in Nat
  OBVIOUS
<1>6. QED
  BY <1>2, <1>4, <1>5

LEMMA TakesOwn ==
    ASSUME NEW fills \in Seq(GoodTrade), NEW k \in DOMAIN fills
    PROVE  /\ fills[k].qty <= Taken(fills, fills[k].maker) /\ fills[k].qty <= Total(fills)
<1>1. PICK D : D = DOMAIN fills
  OBVIOUS
<1>2. IsFiniteSet(D) /\ \A i \in D : fills[i].qty \in Nat
  <2>1. Len(fills) \in Int /\ 1 \in Int /\ D = 1..Len(fills)
    BY <1>1
  <2>2. IsFiniteSet(D)
    BY <2>1, FS_Interval
  <2>3. \A i \in D : fills[i] \in GoodTrade
    BY <1>1
  <2>4. QED
    BY <2>2, <2>3, GoodTradeFields
<1>3. fills[k].qty <= Total(fills)
  <2>1. PICK f : f = [i \in D |-> fills[i].qty]
    OBVIOUS
  <2>2. f[k] <= SumFunctionOnSet(f, D)
    BY <1>1, <1>2, <2>1, SumAtLeast
  <2>3. QED
    BY <1>1, <2>1, <2>2 DEF Total, SumFunction
<1>4. fills[k].qty <= Taken(fills, fills[k].maker)
  <2>1. PICK S : S = {i \in D : fills[i].maker = fills[k].maker}
    OBVIOUS
  <2>2. IsFiniteSet(S) /\ S \subseteq D /\ k \in S
    BY <1>1, <1>2, <2>1, FS_Subset
  <2>3. PICK f : f = [i \in S |-> fills[i].qty]
    OBVIOUS
  <2>4. \A i \in S : f[i] \in Nat
    BY <1>2, <2>2, <2>3
  <2>5. f[k] <= SumFunctionOnSet(f, S)
    BY <2>2, <2>4, SumAtLeast
  <2>6. QED
    BY <1>1, <2>1, <2>2, <2>3, <2>5 DEF Taken, SumFunction
<1>5. QED
  BY <1>3, <1>4

(* What is true of the book b after the command, of all orders that rested *)
(* or not, and of the makers and the taker.                                *)
AfterCommand(b, fills, id) ==
    /\ b \in [Ids -> Int]
    /\ \A m \in Ids \ {id} : b[m] <= book[m]
    /\ id \in Ids => b[id] <= orders[id].qty
    /\ \A k \in DOMAIN fills :
         /\ b[fills[k].maker] <= book[fills[k].maker] - fills[k].qty
         /\ id \in Ids => b[id] <= orders[id].qty - fills[k].qty

LEMMA BookFalls ==
    ASSUME Types, NEW id \in DOMAIN orders, NEW fills, OneCommand(fills, id)
    PROVE  AfterCommand(BookAfter(id, fills), fills, id)
<1>1. PICK b : b = BookAfter(id, fills)
  OBVIOUS
<1>2. PICK q \in Nat \ {0} : q = orders[id].qty
  BY RowFields DEF Types
<1>3. fills \in Seq(GoodTrade) /\ book \in [Ids -> Int]
  BY DEF OneCommand, Types
<1>4. PICK y \in Nat : y = Total(fills)
  BY <1>3, TakenNat
<1>5. /\ \A m \in Ids \ {id} : b[m] = book[m] - Taken(fills, m)
      /\ id \in Ids => b[id] = q - y \/ b[id] = 0
  BY <1>1, <1>2, <1>4 DEF BookAfter
<1>6. b \in [Ids -> Int] 
  BY <1>1, <1>3, BookAfterGood DEF BookType
<1>7. ASSUME NEW m \in Ids \ {id} PROVE b[m] <= book[m]
  <2>1. PICK x \in Nat : x = Taken(fills, m)
    BY <1>3, TakenNat
  <2>2. PICK c \in Int : c = book[m]
    BY <1>3
  <2>3. QED
    BY <1>5, <2>1, <2>2
<1>8. ASSUME NEW k \in DOMAIN fills
      PROVE  /\ b[fills[k].maker] <= book[fills[k].maker] - fills[k].qty
             /\ id \in Ids => b[id] <= q - fills[k].qty
  <2>1. fills[k] \in GoodTrade
    BY <1>3
  <2>2. PICK m \in Ids, z \in Nat \ {0} : m = fills[k].maker /\ z = fills[k].qty
    BY <2>1, GoodTradeFields
  <2>3. m # id
    BY <2>2 DEF OneCommand
  <2>4. PICK x \in Nat : x = Taken(fills, m)
    BY <1>3, TakenNat
  <2>5. z <= x /\ z <= y
    BY <1>3, <1>4, <2>2, <2>4, TakesOwn
  <2>6. PICK c \in Int : c = book[m]
    BY <1>3
  <2>7. b[m] <= c - z
    BY <1>5, <2>3, <2>4, <2>5, <2>6
  <2>8. z <= q
    BY <1>2, <2>2 DEF OneCommand
  <2>9. id \in Ids => b[id] <= q - z
    BY <1>5, <2>5, <2>8
  <2>10. QED
    BY <2>2, <2>6, <2>7, <2>9
<1>9. id \in Ids => b[id] <= q
  BY <1>5
<1>10. QED
  BY <1>1, <1>2, <1>6, <1>7, <1>8, <1>9 DEF AfterCommand

-----------------------------------------------------------------------------
(* The trades that were made are trades of orders of the table.            *)
LEMMA ToSetOf ==
    ASSUME NEW T, NEW s \in Seq(T)
    PROVE  /\ ToSet(s) \subseteq T
           /\ \A x \in T : ToSet(Append(s, x)) = ToSet(s) \cup {x}
  BY DEF ToSet

LEMMA MadeGood ==
    ASSUME Types
    PROVE  /\ Published \subseteq GoodTrade /\ Matched \subseteq GoodTrade /\ Made \subseteq GoodTrade
           /\ \A tr \in Made : /\ Sides(tr) \subseteq DOMAIN orders /\ tr.qty \in Nat \ {0}
                               /\ tr.maker # tr.taker
<1>1. Published \subseteq GoodTrade
  BY ToSetOf DEF Types, Published
<1>2. ASSUME NEW c \in DOMAIN batch PROVE ToSet(batch[c].trades) \subseteq GoodTrade
  <2>1. batch[c] \in Outcome
    BY DEF Types
  <2>2. batch[c].trades \in Seq(GoodTrade)
    BY <2>1 DEF Outcome
  <2>3. QED
    BY <2>2, ToSetOf
<1>3. Matched \subseteq GoodTrade
  BY <1>2 DEF Matched
<1>4. Made \subseteq GoodTrade
  BY <1>1, <1>3 DEF Made
<1>5. ASSUME NEW tr \in Made PROVE Sides(tr) \subseteq DOMAIN orders /\ tr.qty \in Nat \ {0} /\ tr.maker # tr.taker
  BY <1>4, GoodTradeFields DEF Sides
<1>6. QED
  BY <1>1, <1>3, <1>4, <1>5

(* Every order of the table has its place.                                 *)
LEMMA OrderIds ==
    ASSUME Types, Room
    PROVE  DOMAIN orders \subseteq Ids /\ DOMAIN orders = 1..Len(orders) /\ Len(orders) \in Nat
<1>1. orders \in Seq(Row) /\ IsFiniteSet(inflight)
  BY DEF Types, Room
<1>2. PICK n \in Nat, k \in Nat : n = Len(orders) /\ k = Cardinality(inflight)
  BY <1>1, FS_CardinalityType
<1>3. MaxOrders \in Nat /\ k + n <= MaxOrders
  BY <1>2, SettlementAssumption DEF Room
<1>4. n <= MaxOrders
  BY <1>3
<1>5. QED
  BY <1>1, <1>2, <1>3, <1>4 DEF Ids

(* What was begun stays begun.                                             *)
LEMMA StillBegan ==
    ASSUME pos \in Nat, pos' \in Nat, pos <= pos', \A p \in 1..pos : cmds'[p] = cmds[p]
    PROVE  \A id : Began(id) => Began(id)'
<1>1. ASSUME NEW id, Began(id) PROVE Began(id)'
  <2>1. PICK p \in 1..pos : IsNew(cmds[p], id)
    BY <1>1 DEF Began
  <2>2. p \in 1..pos' /\ IsNew(cmds'[p], id)
    BY <2>1
  <2>3. QED
    BY <2>2 DEF Began, IsNew
<1>2. QED
  BY <1>1

(* Steps of the order service: an order may be added, the others keep what *)
(* they asked for.                                                         *)
LEMMA CoreKept ==
    ASSUME Types, CoreInv, Grows, pos \in Nat, \A p \in 1..pos : cmds'[p] = cmds[p],
           UNCHANGED <<pos, seen, book, batch, matchEvents, tradeEvents>>
    PROVE  CoreInv'
<1>1. \A id : Began(id) => Began(id)'
  BY StillBegan
<1>2. Published' = Published /\ Matched' = Matched /\ Made' = Made
  BY DEF Published, Matched, Made
<1>3. \A id : Dropped(id)' = Dropped(id)
  BY DEF Dropped, IsCanceled
<1>4. \A tr \in Made : \A id \in Sides(tr) : orders'[id].qty = orders[id].qty
  BY MadeGood DEF Grows, SameOrder
<1>5. Outcomes'
  BY DEF CoreInv, Outcomes
<1>6. Resting'
  BY <1>1 DEF CoreInv, Resting
<1>7. Traded'
  BY <1>1, <1>2, <1>4 DEF CoreInv, Traded
<1>8. Gone'
  BY <1>1, <1>3 DEF CoreInv, Gone
<1>9. OnlyTrade'
  BY <1>2, <1>4 DEF CoreInv, OnlyTrade
<1>10. NoTradeAfter'
  BY <1>2 DEF CoreInv, NoTradeAfter
<1>11. QED
  BY <1>5, <1>6, <1>7, <1>8, <1>9, <1>10 DEF CoreInv

LEMMA TellKept ==
    ASSUME Types, TellInv, Grows, UNCHANGED <<matchEvents, tradeEvents>>
    PROVE  TellInv'
<1>1. Published' = Published
  BY DEF Published
<1>2. \A tr \in Published : \A id \in Sides(tr) : orders'[id].qty = orders[id].qty
  BY MadeGood DEF Grows, SameOrder, Made
<1>3. FilledFirst'
  BY <1>1, <1>2 DEF TellInv, FilledFirst
<1>4. FillTold'
  BY <1>1 DEF TellInv, FillTold
<1>5. QED
  BY <1>3, <1>4 DEF TellInv

(* A command is written.                                                   *)
LEMMA CommandWritten ==
    ASSUME Types, NEW c, cmds' = Append(cmds, c)
    PROVE  /\ Len(cmds') = Len(cmds) + 1 /\ Len(cmds) \in Nat
           /\ DOMAIN cmds = 1..Len(cmds) /\ DOMAIN cmds' = 1..(Len(cmds) + 1)
           /\ cmds'[Len(cmds) + 1] = c
           /\ \A p \in 1..Len(cmds) : cmds'[p] = cmds[p]
  BY DEF Types

LEMMA NewCommand ==
    ASSUME Types, Commands, NEW k, k \notin DOMAIN orders,
           DOMAIN orders' = DOMAIN orders \cup {k},
           cmds' = Append(cmds, [kind |-> "New", id |-> k]), pos' = pos
    PROVE  Commands'
<1>1. PICK c : c = [kind |-> "New", id |-> k]
  OBVIOUS
<1>2. PICK n \in Nat : n = Len(cmds)
  BY DEF Types
<1>3. /\ Len(cmds') = n + 1 /\ DOMAIN cmds = 1..n /\ DOMAIN cmds' = 1..(n + 1)
      /\ cmds'[n + 1] = c /\ \A p \in 1..n : cmds'[p] = cmds[p]
  BY <1>1, <1>2, CommandWritten
<1>4. \A p \in 1..n : cmds[p].id \in DOMAIN orders
  <2>1. \A p \in 1..n : cmds[p] \in Command
    BY <1>3 DEF Types
  <2>2. QED
    BY <2>1 DEF Command
<1>5. \A p \in 1..n : cmds[p].id # k
  BY <1>4
<1>6. pos' <= Len(cmds')
  BY <1>2, <1>3 DEF Types, Commands
<1>7. \A p, q \in DOMAIN cmds' : IsNew(cmds'[p], cmds'[q].id) /\ IsNew(cmds'[q], cmds'[q].id) => p = q
  <2>1. ASSUME NEW p \in 1..(n + 1), NEW q \in 1..(n + 1),
               IsNew(cmds'[p], cmds'[q].id), IsNew(cmds'[q], cmds'[q].id)
        PROVE  p = q
    <3>1. CASE p \in 1..n /\ q \in 1..n
      BY <1>3, <2>1, <3>1 DEF Commands
    <3>2. CASE p = n + 1 \/ q = n + 1
      BY <1>1, <1>3, <1>5, <2>1, <3>2 DEF IsNew
    <3>3. QED
      BY <3>1, <3>2
  <2>2. QED
    BY <1>3, <2>1
<1>8. \A p \in DOMAIN cmds' : \E q \in 1..p : IsNew(cmds'[q], cmds'[p].id)
  <2>1. ASSUME NEW p \in 1..(n + 1) PROVE \E q \in 1..p : IsNew(cmds'[q], cmds'[p].id)
    <3>1. CASE p \in 1..n
      <4>1. PICK q \in 1..p : IsNew(cmds[q], cmds[p].id)
        BY <1>3, <3>1 DEF Commands
      <4>2. cmds'[q] = cmds[q] /\ cmds'[p] = cmds[p]
        BY <1>3, <3>1
      <4>3. QED
        BY <4>1, <4>2
    <3>2. CASE p = n + 1
      <4>1. p \in 1..p /\ IsNew(cmds'[p], cmds'[p].id)
        BY <1>1, <1>3, <3>2 DEF IsNew
      <4>2. QED
        BY <4>1
    <3>3. p \in 1..n \/ p = n + 1
      OBVIOUS
    <3>4. QED
      BY <3>1, <3>2, <3>3, Zenon
  <2>2. QED
    BY <1>3, <2>1
<1>9. \A id \in DOMAIN orders' : \E q \in DOMAIN cmds' : IsNew(cmds'[q], id)
  <2>1. ASSUME NEW id \in DOMAIN orders PROVE \E q \in 1..(n + 1) : IsNew(cmds'[q], id)
    <3>1. PICK q \in 1..n : IsNew(cmds[q], id)
      BY <1>3 DEF Commands
    <3>2. q \in 1..(n + 1) /\ cmds'[q] = cmds[q]
      BY <1>3
    <3>3. QED
      BY <3>1, <3>2
  <2>2. n + 1 \in 1..(n + 1) /\ IsNew(cmds'[n + 1], k)
    BY <1>1, <1>3 DEF IsNew
  <2>3. QED
    BY <1>3, <2>1, <2>2
<1>10. QED
  BY <1>6, <1>7, <1>8, <1>9 DEF Commands, IsNew

LEMMA CancelCommand ==
    ASSUME Types, Commands, NEW k \in DOMAIN orders, DOMAIN orders' = DOMAIN orders,
           cmds' = Append(cmds, [kind |-> "Cancel", id |-> k]), pos' = pos
    PROVE  Commands'
<1>1. PICK c : c = [kind |-> "Cancel", id |-> k]
  OBVIOUS
<1>2. PICK n \in Nat : n = Len(cmds)
  BY DEF Types
<1>3. /\ Len(cmds') = n + 1 /\ DOMAIN cmds = 1..n /\ DOMAIN cmds' = 1..(n + 1)
      /\ cmds'[n + 1] = c /\ \A p \in 1..n : cmds'[p] = cmds[p]
  BY <1>1, <1>2, CommandWritten
<1>4. \A id : ~IsNew(c, id)
  BY <1>1 DEF IsNew
<1>5. pos' <= Len(cmds')
  BY <1>2, <1>3 DEF Types, Commands
<1>6. \A p, q \in DOMAIN cmds' : IsNew(cmds'[p], cmds'[q].id) /\ IsNew(cmds'[q], cmds'[q].id) => p = q
  <2>1. ASSUME NEW p \in 1..(n + 1), NEW q \in 1..(n + 1),
               IsNew(cmds'[p], cmds'[q].id), IsNew(cmds'[q], cmds'[q].id)
        PROVE  p = q
    <3>1. p \in 1..n /\ q \in 1..n
      BY <1>3, <1>4, <2>1
    <3>2. QED
      BY <1>3, <2>1, <3>1 DEF Commands
  <2>2. QED
    BY <1>3, <2>1
<1>7. \A id \in DOMAIN orders : \E q \in 1..n : IsNew(cmds[q], id) /\ cmds'[q] = cmds[q]
  BY <1>3 DEF Commands
<1>8. \A p \in DOMAIN cmds' : \E q \in 1..p : IsNew(cmds'[q], cmds'[p].id)
  <2>1. ASSUME NEW p \in 1..(n + 1) PROVE \E q \in 1..p : IsNew(cmds'[q], cmds'[p].id)
    <3>1. CASE p \in 1..n
      <4>1. PICK q \in 1..p : IsNew(cmds[q], cmds[p].id)
        BY <1>3, <3>1 DEF Commands
      <4>2. cmds'[q] = cmds[q] /\ cmds'[p] = cmds[p]
        BY <1>3, <3>1
      <4>3. QED
        BY <4>1, <4>2
    <3>2. CASE p = n + 1
      <4>1. PICK q \in 1..n : IsNew(cmds[q], k) /\ cmds'[q] = cmds[q]
        BY <1>7
      <4>2. q \in 1..p /\ cmds'[p].id = k
        BY <1>1, <1>3, <3>2
      <4>3. QED
        BY <4>1, <4>2
    <3>3. p \in 1..n \/ p = n + 1
      OBVIOUS
    <3>4. QED
      BY <3>1, <3>2, <3>3, Zenon
  <2>2. QED
    BY <1>3, <2>1
<1>9. \A id \in DOMAIN orders' : \E q \in DOMAIN cmds' : IsNew(cmds'[q], id)
  <2>1. ASSUME NEW id \in DOMAIN orders PROVE \E q \in 1..(n + 1) : IsNew(cmds'[q], id)
    <3>1. PICK q \in 1..n : IsNew(cmds[q], id) /\ cmds'[q] = cmds[q]
      BY <1>7
    <3>2. q \in 1..(n + 1)
      OBVIOUS
    <3>3. QED
      BY <3>1, <3>2
  <2>2. QED
    BY <1>3, <2>1
<1>10. QED
  BY <1>5, <1>6, <1>8, <1>9 DEF Commands, IsNew

-----------------------------------------------------------------------------
(* The shard handles a command.                                            *)

(* The command, and what was true of its order before.                     *)
Handles(cmd) ==
    /\ pos \in Nat /\ pos < Len(cmds) /\ pos' = pos + 1 /\ cmd = cmds[pos + 1]
    /\ cmd \in Command /\ UNCHANGED <<orders, cmds, matchEvents, tradeEvents>>

LEMMA HandlesBegins ==
    ASSUME Types, Commands, NEW cmd, Handles(cmd)
    PROVE  /\ Began(cmd.id)' /\ (cmd.kind = "New" => ~Began(cmd.id))
           /\ \A id : Began(id) => Began(id)'
           /\ pos' <= Len(cmds)
<1>1. PICK n \in Nat, p \in Nat : n = Len(cmds) /\ p = pos
  BY DEF Types
<1>2. /\ p < n /\ pos' = p + 1 /\ cmd = cmds[p + 1] /\ cmds' = cmds /\ DOMAIN cmds = 1..n
      /\ cmd \in Command
  BY <1>1 DEF Handles, Types
<1>3. p + 1 \in 1..n
  BY <1>1, <1>2
<1>4. Began(cmd.id)'
  <2>1. PICK q \in 1..(p + 1) : IsNew(cmds[q], cmd.id)
    BY <1>2, <1>3 DEF Commands
  <2>2. QED
    BY <1>2, <2>1 DEF Began, IsNew
<1>5. ASSUME cmd.kind = "New", Began(cmd.id) PROVE FALSE
  <2>1. PICK q \in 1..p : IsNew(cmds[q], cmd.id)
    BY <1>1, <1>5 DEF Began
  <2>2. IsNew(cmds[p + 1], cmd.id)
    BY <1>2, <1>5 DEF IsNew
  <2>3. q \in 1..n /\ q # p + 1
    BY <1>2
  <2>4. QED
    BY <1>2, <1>3, <2>1, <2>2, <2>3 DEF Commands
<1>6. \A id : Began(id) => Began(id)'
  <2>1. pos \in Nat /\ pos' \in Nat /\ pos <= pos' /\ \A q \in 1..pos : cmds'[q] = cmds[q]
    BY <1>1, <1>2
  <2>2. QED
    BY <2>1, StillBegan
<1>7. QED
  BY <1>1, <1>2, <1>4, <1>5, <1>6

(* Nothing but its place changes.                                          *)
LEMMA HandledIdle ==
    ASSUME Types, Commands, CoreInv, NEW cmd, Handles(cmd), UNCHANGED <<seen, book, batch>>
    PROVE  CoreInv'
<1>1. UNCHANGED <<orders, matchEvents, tradeEvents>>
  BY DEF Handles
<1>2. \A id : Began(id) => Began(id)'
  BY HandlesBegins
<1>3. Published' = Published /\ Matched' = Matched /\ Made' = Made
  BY <1>1 DEF Published, Matched, Made
<1>4. \A id : Dropped(id)' = Dropped(id)
  BY <1>1 DEF Dropped, IsCanceled
<1>5. Outcomes' /\ Resting'
  BY <1>2 DEF CoreInv, Outcomes, Resting
<1>6. Traded' /\ Gone'
  BY <1>1, <1>2, <1>3, <1>4 DEF CoreInv, Traded, Gone
<1>7. OnlyTrade' /\ NoTradeAfter'
  BY <1>1, <1>3 DEF CoreInv, OnlyTrade, NoTradeAfter
<1>8. QED
  BY <1>5, <1>6, <1>7 DEF CoreInv

(* The outcome is added to the batch.                                      *)
LEMMA OutcomeAdded ==
    ASSUME Types, NEW out, batch' = Append(batch, out), UNCHANGED <<matchEvents, tradeEvents>>
    PROVE  /\ Len(batch) \in Nat /\ DOMAIN batch = 1..Len(batch) /\ DOMAIN batch' = 1..(Len(batch) + 1)
           /\ batch'[Len(batch) + 1] = out
           /\ \A c \in 1..Len(batch) : batch'[c] = batch[c]
           /\ Matched' = Matched \cup ToSet(out.trades) /\ Made' = Made \cup ToSet(out.trades)
           /\ \A id : Dropped(id)' <=> Dropped(id) \/ (out.kind = "Cancel" /\ out.id = id)
<1>1. batch \in Seq(Outcome)
  BY DEF Types
<1>2. PICK n \in Nat : n = Len(batch)
  BY <1>1
<1>3. /\ DOMAIN batch = 1..n /\ DOMAIN batch' = 1..(n + 1)
      /\ batch'[n + 1] = out /\ \A c \in 1..n : batch'[c] = batch[c]
  BY <1>1, <1>2
<1>4. 1..(n + 1) = 1..n \cup {n + 1}
  OBVIOUS
<1>5. Matched' = Matched \cup ToSet(out.trades)
  <2>1. Matched' = UNION {ToSet(batch'[c].trades) : c \in 1..n \cup {n + 1}}
    BY <1>3, <1>4 DEF Matched
  <2>2. Matched = UNION {ToSet(batch[c].trades) : c \in 1..n}
    BY <1>3 DEF Matched
  <2>3. ASSUME NEW x PROVE x \in Matched' <=> x \in Matched \cup ToSet(out.trades)
    <3>1. x \in Matched' <=> \E c \in 1..n \cup {n + 1} : x \in ToSet(batch'[c].trades)
      BY <2>1
    <3>2. x \in Matched <=> \E c \in 1..n : x \in ToSet(batch[c].trades)
      BY <2>2
    <3>3. x \in ToSet(batch'[n + 1].trades) <=> x \in ToSet(out.trades)
      BY <1>3
    <3>4. \A c \in 1..n : x \in ToSet(batch'[c].trades) <=> x \in ToSet(batch[c].trades)
      BY <1>3
    <3>5. QED
      BY <3>1, <3>2, <3>3, <3>4
  <2>4. QED
    BY <2>3
<1>6. Made' = Made \cup ToSet(out.trades)
  BY <1>5 DEF Made, Published
<1>7. ASSUME NEW id
      PROVE  Dropped(id)' <=> Dropped(id) \/ (out.kind = "Cancel" /\ out.id = id)
  <2>1. Dropped(id)' <=> \/ \E k \in DOMAIN matchEvents : IsCanceled(matchEvents[k], id)
                         \/ \E c \in 1..n \cup {n + 1} : batch'[c].kind = "Cancel" /\ batch'[c].id = id
    BY <1>3, <1>4 DEF Dropped, IsCanceled
  <2>2. Dropped(id) <=> \/ \E k \in DOMAIN matchEvents : IsCanceled(matchEvents[k], id)
                        \/ \E c \in 1..n : batch[c].kind = "Cancel" /\ batch[c].id = id
    BY <1>3 DEF Dropped
  <2>3. QED
    BY <1>3, <2>1, <2>2
<1>8. QED
  BY <1>2, <1>3, <1>5, <1>6, <1>7

(* A cancel: the order rests no more.                                      *)
LEMMA HandledCancel ==
    ASSUME Types, Room, Commands, CoreInv, NEW cmd, Handles(cmd), ApplyCancel(cmd.id)
    PROVE  CoreInv'
<1>1. PICK id \in DOMAIN orders : id = cmd.id
  BY DEF Handles, Command
<1>2. UNCHANGED <<orders, matchEvents, tradeEvents, seen>>
  BY DEF Handles, ApplyCancel
<1>3. PICK out : out = [kind |-> "Cancel", id |-> id, trades |-> <<>>, seq |-> pos + 1]
  OBVIOUS
<1>4. out.kind = "Cancel" /\ out.id = id /\ out.trades = <<>> /\ batch' = Append(batch, out)
  BY <1>1, <1>3 DEF ApplyCancel
<1>5. PICK n \in Nat : n = Len(batch)
  BY DEF Types
<1>6. ToSet(out.trades) = {}
  BY <1>4 DEF ToSet
<1>7. /\ DOMAIN batch = 1..n /\ DOMAIN batch' = 1..(n + 1) /\ batch'[n + 1] = out
      /\ \A c \in 1..n : batch'[c] = batch[c]
      /\ Matched' = Matched /\ Made' = Made
      /\ \A x : Dropped(x)' <=> Dropped(x) \/ x = id
  BY <1>2, <1>4, <1>5, <1>6, OutcomeAdded
<1>8. /\ book' \in [Ids -> Int] /\ \A m \in Ids : book'[m] = IF m = id THEN 0 ELSE book[m]
      /\ book \in [Ids -> Int]
  BY <1>1, Removed DEF ApplyCancel, Types
<1>9. Began(id)' /\ \A x : Began(x) => Began(x)'
  BY <1>1, HandlesBegins
<1>10. \A x \in DOMAIN orders : orders[x].qty \in Nat \ {0}
  BY RowFields DEF Types
<1>11. Published' = Published
  BY <1>2 DEF Published
<1>12. Outcomes'
  <2>1. ASSUME NEW c \in 1..(n + 1)
        PROVE  /\ batch'[c].kind = "Cancel" => batch'[c].trades = <<>>
               /\ \A tr \in ToSet(batch'[c].trades) : tr.taker = batch'[c].id
    <3>1. CASE c = n + 1
      BY <1>4, <1>6, <1>7, <3>1
    <3>2. CASE c # n + 1
      BY <1>7, <3>2 DEF CoreInv, Outcomes
    <3>3. QED
      BY <3>1, <3>2
  <2>2. QED
    BY <1>7, <2>1 DEF Outcomes
<1>13. Resting'
  BY <1>2, <1>8, <1>9 DEF CoreInv, Resting
<1>14. Traded'
  <2>1. ASSUME NEW tr \in Made, NEW x \in Sides(tr)
        PROVE  x \in Ids /\ Began(x)' /\ x \in seen' /\ book'[x] < orders'[x].qty
    <3>1. x \in Ids /\ Began(x) /\ x \in seen /\ book[x] < orders[x].qty /\ x \in DOMAIN orders
      BY <2>1, MadeGood DEF CoreInv, Traded
    <3>2. QED
      BY <1>2, <1>8, <1>9, <1>10, <3>1
  <2>2. QED
    BY <1>7, <2>1 DEF Traded
<1>15. Gone'
  BY <1>7, <1>8, <1>9 DEF CoreInv, Gone
<1>16. OnlyTrade'
  <2>1. ASSUME NEW tr \in Made, NEW x \in Sides(tr), tr.qty = orders[x].qty
        PROVE  book'[x] <= 0 /\ \A other \in Made : x \in Sides(other) => other = tr
    <3>1. book[x] <= 0 /\ x \in Ids /\ \A other \in Made : x \in Sides(other) => other = tr
      BY <2>1 DEF CoreInv, OnlyTrade, Traded
    <3>2. QED
      BY <1>8, <3>1
  <2>2. QED
    BY <1>2, <1>7, <2>1 DEF OnlyTrade
<1>17. NoTradeAfter'
  <2>1. ASSUME NEW c \in 1..(n + 1), NEW d \in 1..(n + 1), NEW tr \in ToSet(batch'[d].trades),
               batch'[c].kind = "Cancel", batch'[c].id \in Sides(tr)
        PROVE  d < c
    <3>1. d \in 1..n /\ tr \in ToSet(batch[d].trades)
      BY <1>4, <1>6, <1>7, <2>1
    <3>2. CASE c = n + 1
      BY <3>1, <3>2
    <3>3. CASE c # n + 1
      <4>1. c \in 1..n /\ batch'[c] = batch[c]
        BY <1>7, <3>3
      <4>2. QED
        BY <1>7, <2>1, <3>1, <4>1 DEF CoreInv, NoTradeAfter
    <3>4. QED
      BY <3>2, <3>3
  <2>2. QED
    BY <1>2, <1>7, <2>1 DEF CoreInv, NoTradeAfter
<1>18. QED
  BY <1>12, <1>13, <1>14, <1>15, <1>16, <1>17 DEF CoreInv

(* A new order: it meets orders that rest, and may rest itself.            *)
LEMMA HandledNew ==
    ASSUME Types, Room, Commands, CoreInv, NEW cmd, Handles(cmd), cmd.kind = "New",
           ApplyNewOrder(cmd.id)
    PROVE  CoreInv'
<1>1. PICK id \in DOMAIN orders : id = cmd.id
  BY DEF Handles, Command
<1>2. UNCHANGED <<orders, matchEvents, tradeEvents>> /\ seen' = seen \cup {id}
  BY <1>1 DEF Handles, ApplyNewOrder
<1>a. PICK makers \in Makers(orders[id]) : \E fills \in {Trades(id, makers)} :
         /\ book' = BookAfter(id, fills)
         /\ batch' = Append(batch, [kind |-> "New", id |-> id, trades |-> fills, seq |-> pos + 1])
  BY <1>1, Zenon DEF ApplyNewOrder
<1>b. PICK fills : /\ fills = Trades(id, makers) /\ book' = BookAfter(id, fills)
                   /\ batch' = Append(batch, [kind |-> "New", id |-> id, trades |-> fills, seq |-> pos + 1])
  BY <1>a
<1>3. PICK out : out = [kind |-> "New", id |-> id, trades |-> fills, seq |-> pos + 1]
  OBVIOUS
<1>4. out.kind = "New" /\ out.id = id /\ out.trades = fills /\ batch' = Append(batch, out)
  BY <1>b, <1>3
<1>5. PICK n \in Nat : n = Len(batch)
  BY DEF Types
<1>6. OneCommand(fills, id)
  BY <1>b, TradesOnce
<1>7. /\ DOMAIN batch = 1..n /\ DOMAIN batch' = 1..(n + 1) /\ batch'[n + 1] = out
      /\ \A c \in 1..n : batch'[c] = batch[c]
      /\ Matched' = Matched \cup ToSet(fills) /\ Made' = Made \cup ToSet(fills)
      /\ \A x : Dropped(x)' <=> Dropped(x)
  BY <1>2, <1>4, <1>5, OutcomeAdded
<1>8. AfterCommand(book', fills, id)
  BY <1>b, <1>6, BookFalls
<1>9. Began(id)' /\ ~Began(id) /\ \A x : Began(x) => Began(x)'
  BY <1>1, HandlesBegins
<1>10. id \in Ids /\ orders[id].qty \in Nat \ {0} /\ book \in [Ids -> Int] /\ book' \in [Ids -> Int]
  BY <1>8, OrderIds, RowFields DEF AfterCommand, Types
<1>11. /\ \A tr \in Made : id \notin Sides(tr)
       /\ ~Dropped(id)
  BY <1>9, <1>10 DEF CoreInv, Traded, Gone
<1>12. ASSUME NEW tr \in ToSet(fills)
       PROVE  /\ tr.taker = id /\ tr.maker # id /\ tr.maker \in Ids /\ tr.maker \in DOMAIN orders
              /\ tr.qty \in Nat \ {0} /\ tr.qty <= book[tr.maker]
              /\ tr.qty <= orders[id].qty
              /\ Began(tr.maker) /\ tr.maker \in seen /\ book[tr.maker] <= orders[tr.maker].qty
              /\ book'[tr.maker] <= book[tr.maker] - tr.qty /\ book'[id] <= orders[id].qty - tr.qty
              /\ book[tr.maker] > 0 /\ orders[tr.maker].qty \in Nat \ {0}
  <2>1. PICK k \in DOMAIN fills : tr = fills[k]
    BY <1>12 DEF ToSet
  <2>2. /\ tr.taker = id /\ tr.maker # id
        /\ book[tr.maker] > 0 /\ tr.qty <= book[tr.maker] /\ tr.qty <= orders[id].qty
    BY <1>6, <2>1 DEF OneCommand
  <2>3. tr \in GoodTrade
    BY <1>6, <2>1 DEF OneCommand
  <2>4. tr.maker \in Ids /\ tr.maker \in DOMAIN orders /\ tr.qty \in Nat \ {0}
    BY <2>3, GoodTradeFields
  <2>5. Began(tr.maker) /\ tr.maker \in seen /\ book[tr.maker] <= orders[tr.maker].qty
    BY <2>2, <2>4 DEF CoreInv, Resting, Types
  <2>6. book'[tr.maker] <= book[tr.maker] - tr.qty /\ book'[id] <= orders[id].qty - tr.qty
    BY <1>8, <1>10, <2>1 DEF AfterCommand
  <2>7. orders[tr.maker].qty \in Nat \ {0}
    BY <2>4, RowFields DEF Types
  <2>8. QED
    BY <2>2, <2>4, <2>5, <2>6, <2>7
<1>13. ASSUME NEW tr \in ToSet(fills), NEW other \in ToSet(fills),
              tr.maker = other.maker \/ tr.qty = orders[id].qty
       PROVE  other = tr
  <2>1. PICK k \in DOMAIN fills, h \in DOMAIN fills : tr = fills[k] /\ other = fills[h]
    BY <1>13 DEF ToSet
  <2>2. k = h
    BY <1>6, <1>13, <2>1 DEF OneCommand
  <2>3. QED
    BY <2>1, <2>2
<1>14. \A m \in Ids \ {id} : book'[m] <= book[m]
  BY <1>8 DEF AfterCommand
<1>15. Outcomes'
  <2>1. ASSUME NEW c \in 1..(n + 1)
        PROVE  /\ batch'[c].kind = "Cancel" => batch'[c].trades = <<>>
               /\ \A tr \in ToSet(batch'[c].trades) : tr.taker = batch'[c].id
    <3>1. CASE c = n + 1
      BY <1>4, <1>7, <1>12, <3>1
    <3>2. CASE c # n + 1
      BY <1>7, <3>2 DEF CoreInv, Outcomes
    <3>3. QED
      BY <3>1, <3>2
  <2>2. QED
    BY <1>7, <2>1 DEF Outcomes
<1>16. Resting'
  <2>1. ASSUME NEW m \in Ids, book'[m] > 0 PROVE Began(m)' /\ m \in seen'
    <3>1. CASE m = id
      BY <1>2, <1>9, <3>1
    <3>2. CASE m # id
      <4>1. book'[m] \in Int /\ book[m] \in Int /\ book'[m] <= book[m]
        BY <1>10, <1>14, <3>2
      <4>2. book[m] > 0
        BY <2>1, <4>1
      <4>3. QED
        BY <1>2, <1>9, <4>2 DEF CoreInv, Resting
    <3>3. QED
      BY <3>1, <3>2
  <2>2. QED
    BY <2>1 DEF Resting
<1>17. Traded'
  <2>1. ASSUME NEW tr \in Made, NEW x \in Sides(tr)
        PROVE  x \in Ids /\ Began(x)' /\ x \in seen' /\ book'[x] < orders'[x].qty
    <3>1. x \in Ids /\ Began(x) /\ x \in seen /\ book[x] < orders[x].qty /\ x \in DOMAIN orders
      BY <2>1, MadeGood DEF CoreInv, Traded
    <3>2. x # id
      BY <1>11, <2>1
    <3>3. book'[x] \in Int /\ book[x] \in Int /\ book'[x] <= book[x] /\ orders[x].qty \in Int
      BY <1>10, <1>14, <3>1, <3>2, RowFields DEF Types
    <3>4. QED
      BY <1>2, <1>9, <3>1, <3>3
  <2>2. ASSUME NEW tr \in ToSet(fills), NEW x \in Sides(tr)
        PROVE  x \in Ids /\ Began(x)' /\ x \in seen' /\ book'[x] < orders'[x].qty
    <3>1. CASE x = id
      <4>1. book'[id] \in Int /\ book'[id] <= orders[id].qty - tr.qty /\ tr.qty \in Nat \ {0}
        BY <1>10, <1>12
      <4>2. book'[id] < orders[id].qty
        BY <1>10, <4>1
      <4>3. QED
        BY <1>2, <1>9, <1>10, <3>1, <4>2
    <3>2. CASE x = tr.maker
      <4>1. book'[x] \in Int /\ book[x] \in Int /\ orders[x].qty \in Nat /\ tr.qty \in Nat \ {0}
            /\ book[x] <= orders[x].qty /\ book'[x] <= book[x] - tr.qty
        BY <1>10, <1>12, <3>2
      <4>2. book'[x] < orders[x].qty
        BY <4>1
      <4>3. QED
        BY <1>2, <1>9, <1>12, <3>2, <4>2
    <3>3. QED
      BY <1>12, <3>1, <3>2 DEF Sides
  <2>3. QED
    BY <1>7, <2>1, <2>2 DEF Traded
<1>18. Gone'
  <2>1. ASSUME NEW x \in Ids, Dropped(x) PROVE Began(x)' /\ book'[x] <= 0
    <3>1. Began(x) /\ book[x] <= 0 /\ x # id
      BY <1>11, <2>1 DEF CoreInv, Gone
    <3>2. book'[x] \in Int /\ book[x] \in Int /\ book'[x] <= book[x]
      BY <1>10, <1>14, <3>1
    <3>3. QED
      BY <1>9, <3>1, <3>2
  <2>2. QED
    BY <1>7, <2>1 DEF Gone
<1>19. OnlyTrade'
  <2>1. ASSUME NEW tr \in Made, NEW x \in Sides(tr), tr.qty = orders[x].qty
        PROVE  book'[x] <= 0 /\ \A other \in Made \cup ToSet(fills) : x \in Sides(other) => other = tr
    <3>1. book[x] <= 0 /\ x \in Ids /\ x # id /\ \A other \in Made : x \in Sides(other) => other = tr
      BY <1>11, <2>1 DEF CoreInv, OnlyTrade, Traded
    <3>2. book'[x] \in Int /\ book[x] \in Int /\ book'[x] <= book[x]
      BY <1>10, <1>14, <3>1
    <3>3. ASSUME NEW other \in ToSet(fills), x \in Sides(other) PROVE FALSE
      <4>1. x = other.maker
        BY <1>12, <3>1, <3>3 DEF Sides
      <4>2. book[x] > 0
        BY <1>12, <4>1
      <4>3. QED
        BY <3>1, <3>2, <4>2
    <3>4. QED
      BY <3>1, <3>2, <3>3
  <2>2. ASSUME NEW tr \in ToSet(fills), NEW x \in Sides(tr), tr.qty = orders[x].qty
        PROVE  book'[x] <= 0 /\ \A other \in Made \cup ToSet(fills) : x \in Sides(other) => other = tr
    <3>1. CASE x = id
      <4>1. book'[id] \in Int /\ book'[id] <= orders[id].qty - tr.qty /\ tr.qty = orders[id].qty
        BY <1>10, <1>12, <2>2, <3>1
      <4>2. book'[id] <= 0
        BY <1>10, <4>1
      <4>3. \A other \in ToSet(fills) : other = tr
        BY <1>13, <4>1
      <4>4. QED
        BY <1>11, <3>1, <4>2, <4>3
    <3>2. CASE x = tr.maker
      <4>1. /\ book'[x] \in Int /\ book[x] \in Int /\ orders[x].qty \in Nat /\ tr.qty \in Nat \ {0}
            /\ book[x] <= orders[x].qty /\ book'[x] <= book[x] - tr.qty /\ tr.qty <= book[x] /\ x # id
            /\ tr.qty = orders[x].qty
        BY <1>10, <1>12, <2>2, <3>2
      <4>2. book'[x] <= 0 /\ ~(book[x] < orders[x].qty)
        BY <4>1
      <4>3. ASSUME NEW other \in ToSet(fills), x \in Sides(other) PROVE other = tr
        <5>1. x = other.maker
          BY <1>12, <4>1, <4>3 DEF Sides
        <5>2. QED
          BY <1>13, <3>2, <5>1
      <4>4. \A other \in Made : x \notin Sides(other)
        BY <4>2 DEF CoreInv, Traded
      <4>5. QED
        BY <4>2, <4>3, <4>4
    <3>3. QED
      BY <1>12, <3>1, <3>2 DEF Sides
  <2>3. QED
    BY <1>2, <1>7, <2>1, <2>2 DEF OnlyTrade
<1>20. ASSUME NEW x, Dropped(x), NEW tr \in ToSet(fills) PROVE x \notin Sides(tr)
  <2>1. x # id
    BY <1>11, <1>20
  <2>2. x # tr.maker
    <3>1. tr.maker \in Ids /\ book[tr.maker] > 0 /\ book[tr.maker] \in Int
      BY <1>10, <1>12
    <3>2. ~(book[tr.maker] <= 0)
      BY <3>1
    <3>3. QED
      BY <1>20, <3>1, <3>2 DEF CoreInv, Gone
  <2>3. QED
    BY <1>12, <2>1, <2>2 DEF Sides
<1>21. NoTradeAfter'
  <2>1. ASSUME NEW c \in 1..(n + 1), NEW d \in 1..(n + 1), NEW tr \in ToSet(batch'[d].trades),
               batch'[c].kind = "Cancel", batch'[c].id \in Sides(tr)
        PROVE  d < c
    <3>1. c \in 1..n /\ batch[c].kind = "Cancel" /\ batch[c].id \in Sides(tr)
      BY <1>4, <1>7, <2>1
    <3>2. Dropped(batch[c].id)
      BY <1>7, <3>1 DEF Dropped
    <3>3. d \in 1..n
      BY <1>4, <1>7, <1>20, <2>1, <3>1, <3>2
    <3>4. QED
      BY <1>7, <2>1, <3>1, <3>3 DEF CoreInv, NoTradeAfter
  <2>2. ASSUME NEW k \in DOMAIN matchEvents, matchEvents[k].type = "CANCELED", NEW tr \in Matched'
        PROVE  matchEvents[k].id \notin Sides(tr)
    <3>1. Dropped(matchEvents[k].id)
      BY <2>2 DEF Dropped, IsCanceled
    <3>2. QED
      BY <1>7, <1>20, <2>2, <3>1 DEF CoreInv, NoTradeAfter
  <2>3. QED
    BY <1>2, <1>7, <2>1, <2>2 DEF NoTradeAfter
<1>22. QED
  BY <1>15, <1>16, <1>17, <1>18, <1>19, <1>21 DEF CoreInv

LEMMA MatchCore ==
    ASSUME Types, Room, Commands, CoreInv, Match
    PROVE  CoreInv' /\ Commands'
<1>1. PICK cmd : cmd = cmds[pos + 1]
  OBVIOUS
<1>2. Handles(cmd)
  <2>1. cmds \in Seq(Command) /\ pos \in Nat
    BY DEF Types
  <2>2. pos < Len(cmds) /\ pos' = pos + 1 /\ UNCHANGED <<orders, cmds, matchEvents, tradeEvents>>
    BY DEF Match, topics
  <2>3. pos + 1 \in 1..Len(cmds)
    BY <2>1, <2>2
  <2>4. cmd \in Command
    BY <1>1, <2>1, <2>3
  <2>5. QED
    BY <1>1, <2>1, <2>2, <2>4 DEF Handles
<1>3. \/ cmd.kind = "New" /\ ApplyNewOrder(cmd.id)
      \/ ApplyCancel(cmd.id)
      \/ UNCHANGED <<seen, book, batch>>
  BY <1>1, Zenon DEF Match
<1>4. CoreInv'
  BY <1>2, <1>3, HandledIdle, HandledCancel, HandledNew
<1>5. Commands'
  <2>1. pos' <= Len(cmds') /\ UNCHANGED <<orders, cmds>>
    BY <1>2, HandlesBegins DEF Handles
  <2>2. QED
    BY <2>1 DEF Commands, IsNew
<1>6. QED
  BY <1>4, <1>5

-----------------------------------------------------------------------------
(* The batch is written.                                                   *)

(* What the events of an outcome say.                                      *)
Tells(out, evs) ==
    /\ \A e \in ToSet(evs) : e.type = "CANCELED" => out.kind = "Cancel" /\ e.id = out.id
    /\ \A e \in ToSet(evs) : e.filled > 0 => \E tr \in ToSet(out.trades) : e.id \in Sides(tr)
    /\ \A tr \in ToSet(out.trades) : \A id \in Sides(tr) : ~(book[id] > 0) =>
          \E e \in ToSet(evs) : IsFilled(e, id)

LEMMA ToSetJoined ==
    ASSUME NEW T, NEW u \in Seq(T), NEW v \in Seq(T)
    PROVE  ToSet(u \o v) = ToSet(u) \cup ToSet(v)
<1>1. PICK m \in Nat, n \in Nat : m = Len(u) /\ n = Len(v)
  OBVIOUS
<1>2. /\ DOMAIN u = 1..m /\ DOMAIN v = 1..n /\ DOMAIN (u \o v) = 1..(m + n)
      /\ \A i \in 1..m : (u \o v)[i] = u[i]
      /\ \A i \in 1..n : (u \o v)[m + i] = v[i]
  BY <1>1
<1>3. ASSUME NEW x \in ToSet(u \o v) PROVE x \in ToSet(u) \cup ToSet(v)
  <2>1. PICK k \in 1..(m + n) : x = (u \o v)[k]
    BY <1>2, <1>3 DEF ToSet
  <2>2. CASE k \in 1..m
    BY <1>2, <2>1, <2>2 DEF ToSet
  <2>3. CASE k \notin 1..m
    <3>1. PICK j : j = k - m
      OBVIOUS
    <3>2. j \in 1..n /\ k = m + j
      BY <2>3, <3>1
    <3>3. x = v[j]
      BY <1>2, <2>1, <3>2
    <3>4. QED
      BY <1>2, <3>2, <3>3 DEF ToSet
  <2>4. QED
    BY <2>2, <2>3
<1>4. ASSUME NEW x \in ToSet(u) PROVE x \in ToSet(u \o v)
  <2>1. PICK k \in 1..m : x = u[k]
    BY <1>2, <1>4 DEF ToSet
  <2>2. k \in 1..(m + n) /\ x = (u \o v)[k]
    BY <1>2, <2>1
  <2>3. QED
    BY <1>2, <2>2 DEF ToSet
<1>5. ASSUME NEW x \in ToSet(v) PROVE x \in ToSet(u \o v)
  <2>1. PICK k \in 1..n : x = v[k]
    BY <1>2, <1>5 DEF ToSet
  <2>2. m + k \in 1..(m + n) /\ x = (u \o v)[m + k]
    BY <1>2, <2>1
  <2>3. QED
    BY <1>2, <2>2 DEF ToSet
<1>6. QED
  BY <1>3, <1>4, <1>5

(* One event, or the acceptance, an event for every maker and one for the  *)
(* taker.                                                                  *)
LEMMA EventSet ==
    ASSUME Types, NEW out \in Outcome
    PROVE  /\ out.kind = "Cancel" => ToSet(MatchEventsOf(out)) = {Ev(out.id, "CANCELED", NoFill, out.seq)}
           /\ out.kind # "Cancel" =>
                ToSet(MatchEventsOf(out)) =
                   {Ev(out.id, "ACCEPTED", 0, out.seq)}
                     \cup {MakerFillEvent(tr, out.seq) : tr \in ToSet(out.trades)}
                     \cup (IF out.trades = <<>> THEN {} ELSE {TakerFillEvent(out.id, out.seq)})
<1>1. ASSUME out.kind = "Cancel"
      PROVE  ToSet(MatchEventsOf(out)) = {Ev(out.id, "CANCELED", NoFill, out.seq)}
  BY <1>1 DEF MatchEventsOf, ToSet
<1>2. ASSUME out.kind # "Cancel"
      PROVE  ToSet(MatchEventsOf(out)) =
                   {Ev(out.id, "ACCEPTED", 0, out.seq)}
                     \cup {MakerFillEvent(tr, out.seq) : tr \in ToSet(out.trades)}
                     \cup (IF out.trades = <<>> THEN {} ELSE {TakerFillEvent(out.id, out.seq)})
  <2>1. PICK x, y : x = Ev(out.id, "ACCEPTED", 0, out.seq) /\ y = TakerFillEvent(out.id, out.seq)
    OBVIOUS
  <2>2. PICK a, c : a = <<x>> /\ c = IF out.trades = <<>> THEN <<>> ELSE <<y>>
    OBVIOUS
  <2>3. PICK b : b = [i \in DOMAIN out.trades |-> MakerFillEvent(out.trades[i], out.seq)]
    OBVIOUS
  <2>4. PICK M : M = {MakerFillEvent(tr, out.seq) : tr \in ToSet(out.trades)}
    OBVIOUS
  <2>5. out.trades \in Seq(GoodTrade)
    BY DEF Outcome
  <2>6. ToSet(b) = M
    <3>1. DOMAIN b = DOMAIN out.trades
      BY <2>3
    <3>2. \A i \in DOMAIN b : b[i] = MakerFillEvent(out.trades[i], out.seq)
      BY <2>3
    <3>3. QED
      BY <2>4, <3>1, <3>2 DEF ToSet
  <2>7. PICK T : T = {x, y} \cup M
    OBVIOUS
  <2>8. b \in Seq(T)
    <3>1. PICK n \in Nat : DOMAIN out.trades = 1..n
      BY <2>5
    <3>2. b = [i \in 1..n |-> b[i]]
      BY <2>3, <3>1
    <3>3. \A i \in 1..n : b[i] \in M
      BY <2>3, <2>6, <3>1 DEF ToSet
    <3>4. b \in [1..n -> T]
      BY <2>7, <3>2, <3>3
    <3>5. QED
      BY <3>4
  <2>9. a \in Seq(T) /\ c \in Seq(T)
    <3>1. x \in T /\ y \in T
      BY <2>7
    <3>2. <<x>> \in Seq(T) /\ <<y>> \in Seq(T)
      BY <3>1
    <3>3. <<>> \in Seq(T)
      OBVIOUS
    <3>4. QED
      BY <2>2, <3>2, <3>3
  <2>10. PICK ab \in Seq(T) : ab = a \o b
    BY <2>8, <2>9, Concatenated
  <2>11. ToSet(ab \o c) = (ToSet(a) \cup ToSet(b)) \cup ToSet(c)
    <3>1. ToSet(ab) = ToSet(a) \cup ToSet(b)
      BY <2>8, <2>9, <2>10, ToSetJoined
    <3>2. ToSet(ab \o c) = ToSet(ab) \cup ToSet(c)
      BY <2>9, <2>10, ToSetJoined
    <3>3. QED
      BY <3>1, <3>2
  <2>12. ToSet(a) = {x} /\ ToSet(c) = IF out.trades = <<>> THEN {} ELSE {y}
    BY <2>2 DEF ToSet
  <2>13. MatchEventsOf(out) = ab \o c
    BY <1>2, <2>1, <2>2, <2>3, <2>10 DEF MatchEventsOf
  <2>14. QED
    BY <2>1, <2>4, <2>6, <2>11, <2>12, <2>13
<1>3. QED
  BY <1>1, <1>2

LEMMA OutcomeTells ==
    ASSUME Types, NEW out \in Outcome, out.kind = "Cancel" => out.trades = <<>>,
           \A tr \in ToSet(out.trades) : tr.taker = out.id
    PROVE  Tells(out, MatchEventsOf(out))
<1>1. PICK E : E = ToSet(MatchEventsOf(out))
  OBVIOUS
<1>2. CASE out.kind = "Cancel"
  <2>1. ToSet(out.trades) = {}
    BY <1>2 DEF ToSet
  <2>2. E = {Ev(out.id, "CANCELED", NoFill, out.seq)}
    BY <1>1, <1>2, EventSet
  <2>3. \A e \in E : e.id = out.id /\ e.filled = -1
    BY <2>2 DEF Ev, NoFill
  <2>4. \A e \in E : ~(e.filled > 0)
    BY <2>3
  <2>5. QED
    BY <1>1, <1>2, <2>1, <2>3, <2>4 DEF Tells
<1>3. CASE out.kind # "Cancel"
  <2>1. E = {Ev(out.id, "ACCEPTED", 0, out.seq)}
                     \cup {MakerFillEvent(tr, out.seq) : tr \in ToSet(out.trades)}
                     \cup (IF out.trades = <<>> THEN {} ELSE {TakerFillEvent(out.id, out.seq)})
    BY <1>1, <1>3, EventSet
  <2>2. PICK x, y : x = Ev(out.id, "ACCEPTED", 0, out.seq) /\ y = TakerFillEvent(out.id, out.seq)
    OBVIOUS
  <2>3. x.type = "ACCEPTED" /\ x.filled = 0
    BY <2>2 DEF Ev
  <2>4. /\ y.id = out.id /\ y.filled = 0 /\ y.type \in {"PARTIAL", "FILLED"}
        /\ ~(book[out.id] > 0) => y.type = "FILLED"
    BY <2>2 DEF TakerFillEvent, Ev
  <2>5. ASSUME NEW tr \in ToSet(out.trades)
        PROVE  /\ MakerFillEvent(tr, out.seq).id = tr.maker
               /\ MakerFillEvent(tr, out.seq).type \in {"PARTIAL", "FILLED"}
               /\ ~(book[tr.maker] > 0) => MakerFillEvent(tr, out.seq).type = "FILLED"
    BY DEF MakerFillEvent, Ev
  <2>6. \A e \in E : e = x \/ e = y \/ \E tr \in ToSet(out.trades) : e = MakerFillEvent(tr, out.seq)
    BY <2>1, <2>2
  <2>7. \A e \in E : e.type # "CANCELED"
    BY <2>3, <2>4, <2>5, <2>6
  <2>8. ~(0 > 0)
    OBVIOUS
  <2>9. \A e \in E : e.filled > 0 => \E tr \in ToSet(out.trades) : e.id \in Sides(tr)
    BY <2>3, <2>4, <2>5, <2>6, <2>8 DEF Sides
  <2>10. ASSUME NEW tr \in ToSet(out.trades), NEW id \in Sides(tr), ~(book[id] > 0)
         PROVE  \E e \in E : IsFilled(e, id)
    <3>1. CASE id = tr.maker
      <4>1. MakerFillEvent(tr, out.seq) \in E
        BY <2>1
      <4>2. IsFilled(MakerFillEvent(tr, out.seq), id)
        BY <2>5, <2>10, <3>1 DEF IsFilled
      <4>3. QED
        BY <4>1, <4>2
    <3>2. CASE id = tr.taker
      <4>1. id = out.id
        BY <3>2
      <4>2. out.trades # <<>>
        BY <2>10 DEF ToSet
      <4>3. y \in E
        BY <2>1, <2>2, <4>2
      <4>4. IsFilled(y, id)
        BY <2>4, <2>10, <4>1 DEF IsFilled
      <4>5. QED
        BY <4>3, <4>4
    <3>3. QED
      BY <2>10, <3>1, <3>2 DEF Sides
  <2>11. QED
    BY <1>1, <2>7, <2>9, <2>10 DEF Tells
<1>4. QED
  BY <1>2, <1>3

(* Where the events of the outcomes are, once they are written.            *)
Placed(b, evs, L) ==
    /\ b \in [DOMAIN batch -> Nat]
    /\ \A c \in DOMAIN batch : evs[c] = MatchEventsOf(batch[c]) /\ Len(evs[c]) \in Nat
                               /\ DOMAIN evs[c] = 1..Len(evs[c])
    /\ L = Len(matchEvents) /\ L \in Nat /\ DOMAIN matchEvents = 1..L
    /\ \A i \in 1..L : i \in DOMAIN matchEvents' /\ matchEvents'[i] = matchEvents[i]
    /\ \A c \in DOMAIN batch : \A j \in 1..Len(evs[c]) :
          /\ L + b[c] + j \in DOMAIN matchEvents' /\ matchEvents'[L + b[c] + j] = evs[c][j]
    /\ \A k \in DOMAIN matchEvents' : k \in 1..L \/
          \E c \in DOMAIN batch : \E j \in 1..Len(evs[c]) : k = L + b[c] + j
    /\ \A d, c \in DOMAIN batch : d < c => b[d] + Len(evs[d]) <= b[c]

LEMMA EventsPlaced ==
    ASSUME Types, Publish
    PROVE  /\ \E b, evs : Placed(b, evs, Len(matchEvents))
           /\ Published' = Published \cup Matched
<1>1. PICK n \in Nat : n = Len(batch) /\ DOMAIN batch = 1..n
  BY DEF Types
<1>2. \A i \in 1..n : batch[i] \in Outcome
  BY <1>1 DEF Types
<1>3. PICK evs : evs = [i \in DOMAIN batch |-> MatchEventsOf(batch[i])]
  OBVIOUS
<1>4. PICK trs : trs = [i \in DOMAIN batch |-> batch[i].trades]
  OBVIOUS
<1>5. evs \in Seq(Seq(GoodEvent)) /\ Len(evs) = n
  <2>1. \A i \in 1..n : MatchEventsOf(batch[i]) \in Seq(GoodEvent)
    BY <1>2, EventsGood
  <2>2. evs \in [1..n -> Seq(GoodEvent)]
    BY <1>1, <1>3, <2>1
  <2>3. QED
    BY <2>2
<1>6. trs \in Seq(Seq(GoodTrade)) /\ Len(trs) = n
  <2>1. \A i \in 1..n : batch[i].trades \in Seq(GoodTrade)
    BY <1>2 DEF Outcome
  <2>2. trs \in [1..n -> Seq(GoodTrade)]
    BY <1>1, <1>4, <2>1
  <2>3. QED
    BY <2>2
<1>7. PICK E \in Seq(GoodEvent) : E = FlattenSeq(evs)
  BY <1>5, FlatSeq
<1>8. PICK F \in Seq(GoodTrade) : F = FlattenSeq(trs)
  BY <1>6, FlatSeq
<1>9. PICK b : IsStart(b, evs, E)
  BY <1>5, <1>7, FlatPlaces
<1>10. PICK g : IsStart(g, trs, F)
  BY <1>6, <1>8, FlatPlaces
<1>11. matchEvents' = matchEvents \o E /\ tradeEvents' = tradeEvents \o F
  BY <1>3, <1>4, <1>7, <1>8 DEF Publish
<1>12. matchEvents \in Seq(GoodEvent) /\ tradeEvents \in Seq(GoodTrade)
  BY DEF Types
<1>13. PICK L \in Nat, l \in Nat : L = Len(matchEvents) /\ l = Len(E)
  BY <1>12
<1>14. /\ DOMAIN matchEvents = 1..L /\ DOMAIN matchEvents' = 1..(L + l)
       /\ \A i \in 1..L : matchEvents'[i] = matchEvents[i]
       /\ \A i \in 1..l : matchEvents'[L + i] = E[i]
  BY <1>11, <1>12, <1>13
<1>15. Placed(b, evs, L)
  <2>1. b \in [DOMAIN batch -> Nat]
    BY <1>1, <1>5, <1>9 DEF IsStart
  <2>2. ASSUME NEW c \in DOMAIN batch
        PROVE  /\ evs[c] = MatchEventsOf(batch[c]) /\ Len(evs[c]) \in Nat
               /\ DOMAIN evs[c] = 1..Len(evs[c])
    <3>1. evs[c] \in Seq(GoodEvent)
      BY <1>1, <1>5
    <3>2. QED
      BY <1>3, <3>1
  <2>3. ASSUME NEW c \in DOMAIN batch, NEW j \in 1..Len(evs[c])
        PROVE  /\ L + b[c] + j \in DOMAIN matchEvents' /\ matchEvents'[L + b[c] + j] = evs[c][j]
    <3>1. b[c] + j \in 1..l /\ E[b[c] + j] = evs[c][j]
      BY <1>1, <1>5, <1>9, <1>13 DEF IsStart
    <3>2. PICK i \in 1..l : i = b[c] + j /\ E[i] = evs[c][j]
      BY <3>1
    <3>3. L + i \in 1..(L + l) /\ matchEvents'[L + i] = E[i] /\ L + i = L + b[c] + j
      BY <1>14, <2>1, <2>2, <3>2
    <3>4. QED
      BY <1>14, <3>2, <3>3
  <2>4. ASSUME NEW k \in DOMAIN matchEvents', k \notin 1..L
        PROVE  \E c \in DOMAIN batch : \E j \in 1..Len(evs[c]) : k = L + b[c] + j
    <3>1. PICK i : i = k - L
      OBVIOUS
    <3>2. i \in 1..l /\ k = L + i
      BY <1>14, <2>4, <3>1
    <3>3. \E c \in 1..n : \E j \in 1..Len(evs[c]) : i = b[c] + j
      BY <1>5, <1>9, <1>13, <3>2 DEF IsStart
    <3>4. PICK c \in DOMAIN batch : \E j \in 1..Len(evs[c]) : i = b[c] + j
      BY <1>1, <3>3
    <3>5. PICK j \in 1..Len(evs[c]) : i = b[c] + j
      BY <3>4
    <3>6. k = L + b[c] + j
      BY <2>1, <2>2, <3>2, <3>5
    <3>7. QED
      BY <3>6
  <2>5. \A d, c \in DOMAIN batch : d < c => b[d] + Len(evs[d]) <= b[c]
    BY <1>1, <1>5, <1>9 DEF IsStart
  <2>6. QED
    BY <1>13, <1>14, <2>1, <2>2, <2>3, <2>4, <2>5 DEF Placed
<1>16. ToSet(F) = Matched
  <2>1. Matched = UNION {ToSet(trs[c]) : c \in 1..n}
    <3>1. \A c \in 1..n : trs[c] = batch[c].trades
      BY <1>1, <1>4
    <3>2. QED
      BY <1>1, <3>1 DEF Matched
  <2>2. \A c \in 1..n : trs[c] \in Seq(GoodTrade) /\ DOMAIN trs[c] = 1..Len(trs[c])
    BY <1>6
  <2>3. DOMAIN F = 1..Len(F)
    OBVIOUS
  <2>4. ASSUME NEW x \in ToSet(F) PROVE x \in Matched
    <3>1. PICK k \in 1..Len(F) : x = F[k]
      BY <2>3, <2>4 DEF ToSet
    <3>2. PICK i \in 1..n : \E j \in 1..Len(trs[i]) : k = g[i] + j
      BY <1>6, <1>10, <3>1 DEF IsStart
    <3>3. PICK j \in 1..Len(trs[i]) : k = g[i] + j
      BY <3>2
    <3>4. x = trs[i][j]
      BY <1>6, <1>10, <3>1, <3>3 DEF IsStart
    <3>5. x \in ToSet(trs[i])
      BY <2>2, <3>4 DEF ToSet
    <3>6. QED
      BY <2>1, <3>5
  <2>5. ASSUME NEW x \in Matched PROVE x \in ToSet(F)
    <3>1. PICK i \in 1..n : x \in ToSet(trs[i])
      BY <2>1, <2>5
    <3>2. PICK j \in 1..Len(trs[i]) : x = trs[i][j]
      BY <2>2, <3>1 DEF ToSet
    <3>3. g[i] + j \in 1..Len(F) /\ F[g[i] + j] = x
      BY <1>6, <1>10, <3>2 DEF IsStart
    <3>4. QED
      BY <2>3, <3>3 DEF ToSet
  <2>6. QED
    BY <2>4, <2>5
<1>17. Published' = Published \cup Matched
  BY <1>8, <1>11, <1>12, <1>16, ToSetJoined DEF Published
<1>18. QED
  BY <1>13, <1>15, <1>17

LEMMA PublishTells ==
    ASSUME Types, CoreInv, NEW c \in DOMAIN batch
    PROVE  Tells(batch[c], MatchEventsOf(batch[c]))
<1>1. batch[c] \in Outcome
  BY DEF Types
<1>2. /\ batch[c].kind = "Cancel" => batch[c].trades = <<>>
      /\ \A tr \in ToSet(batch[c].trades) : tr.taker = batch[c].id
  BY DEF CoreInv, Outcomes
<1>3. QED
  BY <1>1, <1>2, OutcomeTells

(* An event that was not there before is that of an outcome.               *)
LEMMA NewEvent ==
    ASSUME Types, CoreInv, NEW b, NEW evs, NEW L, Placed(b, evs, L),
           NEW k \in DOMAIN matchEvents', k \notin 1..L
    PROVE  \E c \in DOMAIN batch : \E j \in 1..Len(evs[c]) :
              /\ k = L + b[c] + j /\ matchEvents'[k] = evs[c][j]
              /\ matchEvents'[k] \in ToSet(MatchEventsOf(batch[c]))
<1>1. PICK c \in DOMAIN batch : \E j \in 1..Len(evs[c]) : k = L + b[c] + j
  BY DEF Placed
<1>2. PICK j \in 1..Len(evs[c]) : k = L + b[c] + j
  BY <1>1
<1>3. matchEvents'[k] = evs[c][j]
  BY <1>2 DEF Placed
<1>4. matchEvents'[k] \in ToSet(MatchEventsOf(batch[c]))
  BY <1>3 DEF Placed, ToSet
<1>5. QED
  BY <1>2, <1>3, <1>4

LEMMA PublishCore ==
    ASSUME Types, CoreInv, Publish
    PROVE  CoreInv'
<1>1. UNCHANGED <<orders, cmds, pos, seen, book>> /\ batch' = <<>>
  BY DEF Publish
<1>2. Published' = Published \cup Matched
  BY EventsPlaced
<1>3. Matched' = {} /\ Made' = Made
  <2>1. Matched' = {}
    BY <1>1 DEF Matched
  <2>2. QED
    BY <1>2, <2>1 DEF Made
<1>4. PICK b, evs, L : Placed(b, evs, L)
  BY EventsPlaced
<1>5. ASSUME NEW id, Dropped(id)' PROVE Dropped(id)
  <2>1. PICK k \in DOMAIN matchEvents' : IsCanceled(matchEvents'[k], id)
    BY <1>1, <1>5 DEF Dropped, IsCanceled
  <2>2. CASE k \in 1..L
    <3>1. k \in DOMAIN matchEvents /\ IsCanceled(matchEvents[k], id)
      BY <1>4, <2>1, <2>2 DEF Placed
    <3>2. QED
      BY <3>1 DEF Dropped
  <2>3. CASE k \notin 1..L
    <3>1. PICK c \in DOMAIN batch : matchEvents'[k] \in ToSet(MatchEventsOf(batch[c]))
      BY <1>4, <2>3, NewEvent
    <3>2. batch[c].kind = "Cancel" /\ id = batch[c].id
      BY <2>1, <3>1, PublishTells DEF Tells, IsCanceled
    <3>3. QED
      BY <3>2 DEF Dropped
  <2>4. QED
    BY <2>2, <2>3
<1>6. \A id : Began(id)' = Began(id)
  BY <1>1 DEF Began, IsNew
<1>7. Outcomes' /\ Resting'
  BY <1>1, <1>6 DEF CoreInv, Outcomes, Resting
<1>8. Traded' /\ Gone'
  BY <1>1, <1>3, <1>5, <1>6 DEF CoreInv, Traded, Gone
<1>9. OnlyTrade' /\ NoTradeAfter'
  BY <1>1, <1>3 DEF CoreInv, OnlyTrade, NoTradeAfter
<1>10. QED
  BY <1>7, <1>8, <1>9 DEF CoreInv

LEMMA PublishTell ==
    ASSUME Types, CoreInv, TellInv, Publish
    PROVE  TellInv'
<1>1. UNCHANGED <<orders, cmds, pos, seen, book>> /\ batch' = <<>>
  BY DEF Publish
<1>2. Published' = Published \cup Matched
  BY EventsPlaced
<1>3. PICK b, evs, L : Placed(b, evs, L)
  BY EventsPlaced
<1>4. /\ L \in Nat /\ DOMAIN matchEvents = 1..L
      /\ \A i \in 1..L : i \in DOMAIN matchEvents' /\ matchEvents'[i] = matchEvents[i]
  BY <1>3 DEF Placed
<1>5. FillTold'
  <2>1. ASSUME NEW k \in DOMAIN matchEvents', matchEvents'[k].filled > 0
        PROVE  \E tr \in Published' : matchEvents'[k].id \in Sides(tr)
    <3>1. CASE k \in 1..L
      <4>1. PICK tr \in Published : matchEvents[k].id \in Sides(tr)
        BY <1>4, <2>1, <3>1 DEF TellInv, FillTold
      <4>2. QED
        BY <1>2, <1>4, <3>1, <4>1
    <3>2. CASE k \notin 1..L
      <4>1. PICK c \in DOMAIN batch : matchEvents'[k] \in ToSet(MatchEventsOf(batch[c]))
        BY <1>3, <3>2, NewEvent
      <4>2. PICK tr \in ToSet(batch[c].trades) : matchEvents'[k].id \in Sides(tr)
        BY <2>1, <4>1, PublishTells DEF Tells
      <4>3. tr \in Matched
        BY DEF Matched
      <4>4. QED
        BY <1>2, <4>2, <4>3
    <3>3. QED
      BY <3>1, <3>2
  <2>2. QED
    BY <2>1 DEF FillTold
<1>6. FilledFirst'
  <2>1. ASSUME NEW tr \in Published, NEW id \in Sides(tr), tr.qty = orders[id].qty
        PROVE  /\ \E i \in DOMAIN matchEvents' : IsFilled(matchEvents'[i], id)
               /\ \A k \in DOMAIN matchEvents' : IsCanceled(matchEvents'[k], id) =>
                    \E i \in 1..(k - 1) : IsFilled(matchEvents'[i], id)
    <3>1. PICK i \in 1..L : IsFilled(matchEvents[i], id)
      BY <1>4, <2>1 DEF TellInv, FilledFirst
    <3>2. i \in DOMAIN matchEvents' /\ IsFilled(matchEvents'[i], id)
      BY <1>4, <3>1
    <3>3. ASSUME NEW k \in DOMAIN matchEvents', IsCanceled(matchEvents'[k], id)
          PROVE  \E j \in 1..(k - 1) : IsFilled(matchEvents'[j], id)
      <4>1. CASE k \in 1..L
        <5>1. IsCanceled(matchEvents[k], id)
          BY <1>4, <3>3, <4>1
        <5>2. PICK j \in 1..(k - 1) : IsFilled(matchEvents[j], id)
          BY <1>4, <2>1, <4>1, <5>1 DEF TellInv, FilledFirst
        <5>3. j \in 1..L
          BY <1>4, <4>1
        <5>4. QED
          BY <1>4, <5>2, <5>3
      <4>2. CASE k \notin 1..L
        <5>a. PICK c \in DOMAIN batch : \E j \in 1..Len(evs[c]) : k = L + b[c] + j
          BY <1>3, <4>2 DEF Placed
        <5>1. PICK j \in 1..Len(evs[c]) : k = L + b[c] + j
          BY <5>a
        <5>2. b[c] \in Nat /\ j \in Nat \ {0}
          BY <1>3 DEF Placed
        <5>3. i \in 1..(k - 1)
          BY <1>4, <5>1, <5>2
        <5>4. QED
          BY <3>2, <5>3
      <4>3. QED
        BY <4>1, <4>2
    <3>4. QED
      BY <3>2, <3>3
  <2>2. ASSUME NEW tr \in Matched, NEW id \in Sides(tr), tr.qty = orders[id].qty
        PROVE  /\ \E i \in DOMAIN matchEvents' : IsFilled(matchEvents'[i], id)
               /\ \A k \in DOMAIN matchEvents' : IsCanceled(matchEvents'[k], id) =>
                    \E i \in 1..(k - 1) : IsFilled(matchEvents'[i], id)
    <3>1. tr \in Made
      BY DEF Made
    <3>2. book[id] <= 0 /\ id \in Ids /\ book[id] \in Int
      BY <2>2, <3>1 DEF CoreInv, OnlyTrade, Traded, Types
    <3>3. ~(book[id] > 0)
      BY <3>2
    <3>4. PICK d \in DOMAIN batch : tr \in ToSet(batch[d].trades)
      BY <2>2 DEF Matched
    <3>5. PICK e \in ToSet(MatchEventsOf(batch[d])) : IsFilled(e, id)
      BY <2>2, <3>3, <3>4, PublishTells DEF Tells
    <3>6. PICK m \in 1..Len(evs[d]) : e = evs[d][m]
      BY <1>3 DEF Placed, ToSet
    <3>7. PICK i : i = L + b[d] + m
      OBVIOUS
    <3>8. i \in DOMAIN matchEvents' /\ matchEvents'[i] = e
      BY <1>3, <3>6, <3>7 DEF Placed
    <3>9. b[d] \in Nat /\ Len(evs[d]) \in Nat
      BY <1>3 DEF Placed
    <3>10. ASSUME NEW k \in DOMAIN matchEvents', IsCanceled(matchEvents'[k], id)
           PROVE  \E j \in 1..(k - 1) : IsFilled(matchEvents'[j], id)
      <4>1. k \notin 1..L
        <5>1. ASSUME k \in 1..L PROVE FALSE
          <6>1. matchEvents[k].type = "CANCELED" /\ matchEvents[k].id = id
            BY <1>4, <3>10, <5>1 DEF IsCanceled
          <6>2. QED
            BY <1>4, <2>2, <5>1, <6>1 DEF CoreInv, NoTradeAfter
        <5>2. QED
          BY <5>1
      <4>2. PICK c \in DOMAIN batch : \E j \in 1..Len(evs[c]) :
               k = L + b[c] + j /\ matchEvents'[k] \in ToSet(MatchEventsOf(batch[c]))
        BY <1>3, <4>1, NewEvent
      <4>3. PICK j \in 1..Len(evs[c]) :
               k = L + b[c] + j /\ matchEvents'[k] \in ToSet(MatchEventsOf(batch[c]))
        BY <4>2
      <4>4. batch[c].kind = "Cancel" /\ batch[c].id = id
        BY <3>10, <4>3, PublishTells DEF Tells, IsCanceled
      <4>5. d < c
        BY <2>2, <3>4, <4>4 DEF CoreInv, NoTradeAfter
      <4>6. b[d] + Len(evs[d]) <= b[c] /\ b[c] \in Nat /\ Len(evs[c]) \in Nat
        BY <1>3, <4>5 DEF Placed
      <4>7. PICK x \in Nat, y \in Nat, l \in Nat : x = b[d] /\ y = b[c] /\ l = Len(evs[d])
        BY <3>9, <4>6
      <4>8. /\ i = L + x + m /\ m <= l /\ m \in Nat /\ m >= 1 /\ x + l <= y
            /\ k = L + y + j /\ j \in Nat /\ j >= 1
        BY <3>6, <3>7, <4>3, <4>6, <4>7
      <4>9. i \in 1..(k - 1)
        <5>1. ASSUME NEW L0 \in Nat, NEW x0 \in Nat, NEW y0 \in Nat, NEW l0 \in Nat, NEW m0 \in Nat,
                     NEW j0 \in Nat, m0 <= l0, m0 >= 1, j0 >= 1, x0 + l0 <= y0
              PROVE  L0 + x0 + m0 \in 1..(L0 + y0 + j0 - 1)
          BY <5>1
        <5>2. L \in Nat
          BY <1>4
        <5>3. L + x + m \in 1..(L + y + j - 1)
          BY <4>7, <4>8, <5>1, <5>2
        <5>4. PICK top : top = L + y + j - 1
          OBVIOUS
        <5>5. top = k - 1
          BY <4>7, <4>8, <5>2, <5>4
        <5>6. i \in 1..top
          BY <4>8, <5>3, <5>4
        <5>7. QED
          BY <5>5, <5>6
      <4>10. QED
        BY <3>5, <3>8, <4>9
    <3>11. QED
      BY <3>5, <3>8, <3>10
  <2>3. QED
    BY <1>1, <1>2, <2>1, <2>2 DEF FilledFirst
<1>7. QED
  BY <1>5, <1>6 DEF TellInv

-----------------------------------------------------------------------------
(* What the consumers know, and the histories that are regular.            *)

(* The shard has seen orders of the table.                                 *)
SeenKnown == seen \subseteq DOMAIN orders

(* What the freeze of an order depends on stays, and so does its reject.   *)
SameFunds(o, n) == SameOrder(o, n) /\ n.price = o.price
KeepsFunds ==
    \A i \in DOMAIN orders :
        /\ i \in DOMAIN orders' /\ SameFunds(orders[i], orders'[i])
        /\ orders[i].status = "REJECTED" => orders'[i].status = "REJECTED"

(* No order ends by a cancel, and none has more filled, than before; an    *)
(* order that ended stays so.                                              *)
Quiet ==
    /\ \A id \in DOMAIN orders : orders[id].status \in Terminal => orders'[id].status \in Terminal
    /\ \A id \in DOMAIN orders' : orders'[id].status = "CANCELED" =>
          id \in DOMAIN orders /\ orders[id].status = "CANCELED"
    /\ \A id \in DOMAIN orders' : orders'[id].filled > 0 =>
          id \in DOMAIN orders /\ orders[id].filled > 0

(* More is written to the two topics.                                      *)
TopicsGrow ==
    /\ Published \subseteq Published'
    /\ \A i \in DOMAIN matchEvents : i \in DOMAIN matchEvents' /\ matchEvents'[i] = matchEvents[i]
    /\ \A i \in DOMAIN tradeEvents : i \in DOMAIN tradeEvents' /\ tradeEvents'[i] = tradeEvents[i]

LEMMA TopicsSame ==
    ASSUME UNCHANGED <<matchEvents, tradeEvents>>
    PROVE  TopicsGrow
  BY DEF TopicsGrow, Published

LEMMA EventFields ==
    ASSUME Types
    PROVE  /\ ToSet(matchEvents) \subseteq GoodEvent
           /\ \A ev \in GoodEvent : /\ ev.id \in DOMAIN orders /\ ev.type \in EventType
                                    /\ ev.filled \in Nat \cup {NoFill} /\ ev.filled <= orders[ev.id].qty
           /\ DOMAIN matchEvents = 1..Len(matchEvents) /\ Len(matchEvents) \in Nat
           /\ DOMAIN tradeEvents = 1..Len(tradeEvents) /\ Len(tradeEvents) \in Nat
<1>1. matchEvents \in Seq(GoodEvent) /\ tradeEvents \in Seq(GoodTrade)
  BY DEF Types
<1>2. ToSet(matchEvents) \subseteq GoodEvent
  BY <1>1, ToSetOf
<1>3. \A ev \in GoodEvent : /\ ev.id \in DOMAIN orders /\ ev.type \in EventType
                            /\ ev.filled \in Nat \cup {NoFill} /\ ev.filled <= orders[ev.id].qty
  BY DEF GoodEvent
<1>4. QED
  BY <1>1, <1>2, <1>3

LEMMA ReadKept ==
    ASSUME Types, ReadInv, Types', Quiet, TopicsGrow, UNCHANGED <<mPos, processed, trades>>
    PROVE  ReadInv'
<1>1. /\ DOMAIN matchEvents = 1..Len(matchEvents) /\ Len(matchEvents) \in Nat
      /\ \A ev \in ToSet(matchEvents) : ev.id \in DOMAIN orders
  BY EventFields
<1>2. DOMAIN matchEvents' = 1..Len(matchEvents') /\ Len(matchEvents') \in Nat
  BY EventFields DEF Types
<1>3. ToSet(matchEvents) \subseteq ToSet(matchEvents')
  <2>1. ASSUME NEW x \in ToSet(matchEvents) PROVE x \in ToSet(matchEvents')
    <3>1. PICK i \in DOMAIN matchEvents : x = matchEvents[i]
      BY <2>1 DEF ToSet
    <3>2. i \in DOMAIN matchEvents' /\ x = matchEvents'[i]
      BY <3>1 DEF TopicsGrow
    <3>3. QED
      BY <3>2 DEF ToSet
  <2>2. QED
    BY <2>1
<1>4. Len(matchEvents) <= Len(matchEvents')
  <2>1. CASE Len(matchEvents) = 0
    BY <1>2, <2>1
  <2>2. CASE Len(matchEvents) # 0
    <3>1. Len(matchEvents) \in DOMAIN matchEvents
      BY <1>1, <2>2
    <3>2. Len(matchEvents) \in 1..Len(matchEvents')
      BY <1>2, <3>1 DEF TopicsGrow
    <3>3. QED
      BY <1>2, <3>2
  <2>3. QED
    BY <2>1, <2>2
<1>5. ReadMatches'
  <2>1. mPos' <= Len(matchEvents')
    <3>1. mPos \in Nat /\ mPos <= Len(matchEvents)
      BY DEF Types, ReadInv, ReadMatches
    <3>2. QED
      BY <1>1, <1>2, <1>4, <3>1
  <2>2. processed' \subseteq ToSet(matchEvents')
    BY <1>3 DEF ReadInv, ReadMatches
  <2>3. ASSUME NEW i \in 1..mPos PROVE matchEvents'[i] \in processed
    <3>1. mPos \in Nat /\ mPos <= Len(matchEvents)
      BY DEF Types, ReadInv, ReadMatches
    <3>2. i \in DOMAIN matchEvents
      BY <1>1, <3>1
    <3>3. QED
      BY <2>3, <3>2 DEF ReadInv, ReadMatches, TopicsGrow
  <2>4. \A ev \in processed : ev.type = "FILLED" => orders'[ev.id].status \in Terminal
    BY <1>1 DEF ReadInv, ReadMatches, Quiet
  <2>5. \A id \in DOMAIN orders' : orders'[id].status = "CANCELED" =>
           \E ev \in processed : IsCanceled(ev, id)
    BY DEF ReadInv, ReadMatches, Quiet
  <2>6. QED
    BY <2>1, <2>2, <2>3, <2>4, <2>5 DEF ReadMatches, IsCanceled
<1>6. ReadTrades'
  BY DEF ReadInv, ReadTrades, Quiet, TopicsGrow
<1>7. QED
  BY <1>5, <1>6 DEF ReadInv

(* What was irregular stays irregular.                                     *)
LEMMA RegularBefore ==
    ASSUME Types, SeenKnown, KeepsFunds, TopicsGrow, seen \subseteq seen',
           NEW u \in Users, NEW a \in Assets, Regular(u, a)'
    PROVE  Regular(u, a)
<1>o. ASSUME NEW id \in OrdersOf(u, a) PROVE id \in OrdersOf(u, a)' /\ SameFunds(orders[id], orders'[id])
  <2>1. id \in DOMAIN orders /\ orders[id].user = u /\ orders[id].side = SideOf(a)
    BY DEF OrdersOf
  <2>2. id \in DOMAIN orders' /\ SameFunds(orders[id], orders'[id])
    BY <2>1 DEF KeepsFunds
  <2>3. orders'[id].user = u /\ orders'[id].side = SideOf(a)
    BY <2>1, <2>2 DEF SameFunds, SameOrder
  <2>4. QED
    BY <2>2, <2>3 DEF OrdersOf
<1>1. ASSUME NEW i \in DOMAIN tradeEvents
      PROVE  LET tr == tradeEvents[i] IN
             \A id \in {tr.maker, tr.taker} \cap OrdersOf(u, a) :
              /\ orders[id].qty = tr.qty
              /\ Amount(a, tr) <= Locked(orders[id])
  <2>1. PICK tr : tr = tradeEvents[i]
    OBVIOUS
  <2>2. i \in DOMAIN tradeEvents' /\ tr = tradeEvents'[i]
    BY <2>1 DEF TopicsGrow
  <2>5. ASSUME NEW id \in {tr.maker, tr.taker} \cap OrdersOf(u, a)
        PROVE  /\ orders[id].qty = tr.qty
               /\ Amount(a, tr) <= Locked(orders[id])
    <3>2. id \in OrdersOf(u, a)' /\ SameFunds(orders[id], orders'[id])
      BY <1>o, <2>5
    <3>1. /\ orders'[id].qty = tr.qty
          /\ Amount(a, tr) <= Locked(orders'[id])
      BY <2>2, <2>5, <3>2 DEF Regular
    <3>3. orders'[id].qty = orders[id].qty /\ orders'[id].side = orders[id].side
          /\ orders'[id].price = orders[id].price
      BY <3>2 DEF SameFunds, SameOrder
    <3>4. Locked(orders'[id]) = Locked(orders[id])
      BY <3>3 DEF Locked, ComputeFreeze
    <3>5. QED
      BY <3>1, <3>3, <3>4
  <2>6. QED
    BY <2>1, <2>5
<1>2. \A id \in seen \cap OrdersOf(u, a) : orders[id].status # "REJECTED"
  <2>1. \A id \in seen \cap OrdersOf(u, a) : id \in seen' \cap OrdersOf(u, a)'
    BY <1>o
  <2>2. \A id \in seen \cap OrdersOf(u, a) : orders'[id].status # "REJECTED"
    BY <2>1 DEF Regular
  <2>3. QED
    BY <2>2 DEF SeenKnown, KeepsFunds
<1>3. \A i, j \in DOMAIN matchEvents :
         (matchEvents[i].id \in OrdersOf(u, a) /\ matchEvents[j].id = matchEvents[i].id
            /\ matchEvents[i].type = "CANCELED" /\ matchEvents[j].type = "CANCELED") => i = j
  BY <1>o DEF TopicsGrow, Regular
<1>4. QED
  BY <1>1, <1>2, <1>3 DEF Regular

(* A trade of a regular account fills the order it has there.              *)
LEMMA RegularTrade ==
    ASSUME Types, NEW u \in Users, NEW a \in Assets, Regular(u, a), CoreInv,
           NEW tr \in Published, NEW id \in Sides(tr), id \in OrdersOf(u, a)
    PROVE  /\ tr.qty = orders[id].qty /\ id \in DOMAIN orders
           /\ Amount(Paid(orders[id].side), tr) <= Locked(orders[id])
           /\ Amount(Paid(orders[id].side), tr) \in Nat
           /\ id \in seen
           /\ \A other \in Published : id \in Sides(other) => other = tr
<1>1. PICK i \in DOMAIN tradeEvents : tr = tradeEvents[i]
  BY DEF Published, ToSet
<1>a. Paid(orders[id].side) = a
  <2>1. orders[id].side = SideOf(a)
    BY DEF OrdersOf
  <2>2. QED
    BY <2>1 DEF SideOf, Paid, Assets
<1>2. tr.qty = orders[id].qty /\ Amount(Paid(orders[id].side), tr) <= Locked(orders[id])
  <2>1. id \in {tr.maker, tr.taker} \cap OrdersOf(u, a)
    BY DEF Sides
  <2>2. QED
    BY <1>1, <1>a, <2>1 DEF Regular
<1>3. tr \in Made /\ tr \in GoodTrade
  BY MadeGood DEF Made
<1>4. id \in DOMAIN orders /\ id \in seen
  BY <1>3, MadeGood DEF CoreInv, Traded
<1>5. \A other \in Published : id \in Sides(other) => other = tr
  BY <1>2, <1>3 DEF CoreInv, OnlyTrade, Made
<1>6. tr.price \in Nat /\ tr.qty \in Nat
  BY <1>3, GoodTradeFields
<1>7. QED
  BY <1>2, <1>4, <1>5, <1>6, AmountNat

-----------------------------------------------------------------------------
(* What is frozen for an order.                                            *)

LEMMA PaidBack ==
    ASSUME NEW c \in Nat, NEW q \in Nat \ {0}
    PROVE  (c * q) \div q = c /\ (c * 0) \div q = 0
  OBVIOUS

LEMMA RoundedLess ==
    ASSUME NEW a, NEW n \in Nat
    PROVE  RoundDown(a, n) <= RoundUp(a, n) /\ RoundDown(a, 0) = 0
<1>1. PICK k \in Nat \ {0} : k = Unit
  BY SettlementAssumption
<1>2. RoundDown(a, n) \in Nat
  BY Rounded
<1>3. RoundDown(a, n) <= RoundUp(a, n)
  <2>1. CASE RoundDown(a, n) = n
    BY <1>2, <2>1 DEF RoundUp
  <2>2. CASE RoundDown(a, n) # n
    <3>1. PICK r \in Nat : r = RoundDown(a, n)
      BY <1>2
    <3>2. RoundUp(a, n) = r + k
      BY <1>1, <2>2, <3>1 DEF RoundUp
    <3>3. QED
      BY <3>1, <3>2
  <2>3. QED
    BY <2>1, <2>2
<1>4. RoundDown(a, 0) = 0
  BY <1>1 DEF RoundDown
<1>5. QED
  BY <1>3, <1>4

(* Nothing is left to release of a filled order, and all of one that has   *)
(* not traded.                                                             *)
LEMMA RemainingAtEnds ==
    ASSUME NEW o \in Row
    PROVE  /\ o.filled = 0 => RemainingFreeze(o) = ComputeFreeze(o)
           /\ o.filled = o.qty => RemainingFreeze(o) = 0
           /\ ComputeFreeze(o) \in Nat
<1>1. /\ o.price \in Nat /\ o.qty \in Nat \ {0} /\ o.filled \in Nat
  BY RowFields
<1>2. PICK c \in Nat, q \in Nat \ {0} : c = ComputeFreeze(o) /\ q = o.qty
  BY <1>1, Product DEF ComputeFreeze
<1>3. (c * q) \div q = c /\ (c * 0) \div q = 0
  BY PaidBack
<1>4. ASSUME o.filled = 0 PROVE RemainingFreeze(o) = ComputeFreeze(o)
  <2>1. o.qty - o.filled = q
    BY <1>1, <1>2, <1>4
  <2>2. CASE o.side = "buy"
    BY <1>2, <1>3, <2>1, <2>2 DEF RemainingFreeze
  <2>3. CASE o.side # "buy"
    BY <1>2, <2>1, <2>3 DEF RemainingFreeze, ComputeFreeze
  <2>4. QED
    BY <2>2, <2>3
<1>5. ASSUME o.filled = o.qty PROVE RemainingFreeze(o) = 0
  <2>1. o.qty - o.filled = 0
    BY <1>1, <1>5
  <2>2. CASE o.side = "buy"
    BY <1>2, <1>3, <2>1, <2>2 DEF RemainingFreeze
  <2>3. CASE o.side # "buy"
    BY <2>1, <2>3 DEF RemainingFreeze
  <2>4. QED
    BY <2>2, <2>3
<1>6. QED
  BY <1>2, <1>4, <1>5

Ended == {"CANCELED", "REJECTED"}

SettledOf(id) == {tr \in trades : id \in Sides(tr)}

(* What is frozen for an order of which these trades were settled.         *)
FrozenFor(o, settled) ==
    IF settled # {}
    THEN Locked(o) - SumFunction([tr \in settled |-> Amount(Paid(o.side), tr)])
    ELSE IF o.status \in Ended
         THEN Locked(o) - RoundDown(Paid(o.side), ComputeFreeze(o)) ELSE Locked(o)

LEMMA StillIs ==
    ASSUME NEW id
    PROVE  StillFrozen(id) = FrozenFor(orders[id], SettledOf(id))
<1>1. PICK o, s : o = orders[id] /\ s = {tr \in trades : id \in {tr.maker, tr.taker}}
  OBVIOUS
<1>2. SettledOf(id) = s
  BY <1>1 DEF SettledOf, Sides
<1>3. StillFrozen(id) =
        CASE s # {} -> Locked(o) - SumFunction([tr \in s |-> Amount(Paid(o.side), tr)])
          [] s = {} /\ o.status \in {"CANCELED", "REJECTED"} ->
                Locked(o) - RoundDown(Paid(o.side), ComputeFreeze(o))
          [] OTHER -> Locked(o)
  BY <1>1 DEF StillFrozen
<1>4. QED
  BY <1>1, <1>2, <1>3 DEF FrozenFor, Ended

LEMMA StillIsThen ==
    ASSUME NEW id
    PROVE  StillFrozen(id)' = FrozenFor(orders'[id], SettledOf(id)')
<1>1. PICK o, s : o = orders'[id] /\ s = {tr \in trades' : id \in {tr.maker, tr.taker}}
  OBVIOUS
<1>2. SettledOf(id)' = s
  BY <1>1 DEF SettledOf, Sides
<1>3. StillFrozen(id)' =
        CASE s # {} -> Locked(o) - SumFunction([tr \in s |-> Amount(Paid(o.side), tr)])
          [] s = {} /\ o.status \in {"CANCELED", "REJECTED"} ->
                Locked(o) - RoundDown(Paid(o.side), ComputeFreeze(o))
          [] OTHER -> Locked(o)
  BY <1>1 DEF StillFrozen
<1>4. QED
  BY <1>1, <1>2, <1>3 DEF FrozenFor, Ended

LEMMA FrozenForIs ==
    ASSUME NEW o \in Row
    PROVE  /\ FrozenFor(o, {}) = IF o.status \in Ended
                                 THEN Locked(o) - RoundDown(Paid(o.side), ComputeFreeze(o))
                                 ELSE Locked(o)
           /\ Locked(o) \in Nat /\ RoundDown(Paid(o.side), ComputeFreeze(o)) \in Nat
           /\ RoundDown(Paid(o.side), ComputeFreeze(o)) <= Locked(o)
           /\ \A tr : Amount(Paid(o.side), tr) \in Int =>
                 FrozenFor(o, {tr}) = Locked(o) - Amount(Paid(o.side), tr)
<1>1. Locked(o) \in Nat /\ ComputeFreeze(o) \in Nat
  BY FreezeNat, RemainingAtEnds
<1>2. /\ RoundDown(Paid(o.side), ComputeFreeze(o)) \in Nat
      /\ RoundDown(Paid(o.side), ComputeFreeze(o)) <= Locked(o)
  BY <1>1, Rounded, RoundedLess DEF Locked
<1>3. ASSUME NEW tr, Amount(Paid(o.side), tr) \in Int
      PROVE  FrozenFor(o, {tr}) = Locked(o) - Amount(Paid(o.side), tr)
  <2>1. PICK f : f = [x \in {tr} |-> Amount(Paid(o.side), x)]
    OBVIOUS
  <2>2. IsFiniteSet({tr}) /\ {tr} \ {tr} = {} /\ \A x \in {tr} : f[x] \in Int
    BY <1>3, <2>1, FS_Singleton
  <2>3. SumFunctionOnSet(f, {tr}) = f[tr] + SumFunctionOnSet(f, {})
    BY <2>2, SumTakes
  <2>4. SumFunctionOnSet(f, {}) = 0
    BY <2>2, SumSteps
  <2>5. SumFunction(f) = f[tr]
    <3>1. DOMAIN f = {tr} /\ f[tr] \in Int
      BY <2>1, <2>2
    <3>2. QED
      BY <2>3, <2>4, <3>1 DEF SumFunction
  <2>6. QED
    BY <2>1, <2>5 DEF FrozenFor
<1>4. QED
  BY <1>1, <1>2, <1>3 DEF FrozenFor

(* In regular histories a trade is all of its order, and what is frozen is *)
(* never negative.                                                         *)
LEMMA StillNat ==
    ASSUME Types, NEW u \in Users, NEW a \in Assets, Regular(u, a), CoreInv, ReadInv,
           NEW id \in OrdersOf(u, a)
    PROVE  StillFrozen(id) \in Nat
<1>1. PICK o \in Row : o = orders[id]
  BY DEF Types, OrdersOf
<1>2. CASE SettledOf(id) = {}
  <2>1. StillFrozen(id) = FrozenFor(o, {})
    BY <1>1, <1>2, StillIs
  <2>2. PICK l \in Nat, r \in Nat : /\ l = Locked(o) /\ r = RoundDown(Paid(o.side), ComputeFreeze(o))
                                    /\ r <= l
    BY FrozenForIs
  <2>3. FrozenFor(o, {}) = l - r \/ FrozenFor(o, {}) = l
    BY <2>2, FrozenForIs
  <2>4. QED
    BY <2>1, <2>2, <2>3
<1>3. CASE SettledOf(id) # {}
  <2>1. PICK tr \in SettledOf(id) : TRUE
    BY <1>3
  <2>2. SettledOf(id) \subseteq Published /\ tr \in Published /\ id \in Sides(tr)
    BY <2>1 DEF SettledOf, ReadInv, ReadTrades
  <2>3. /\ Amount(Paid(o.side), tr) <= Locked(o) /\ Amount(Paid(o.side), tr) \in Nat
        /\ \A other \in Published : id \in Sides(other) => other = tr
    BY <1>1, <2>2, RegularTrade
  <2>4. SettledOf(id) = {tr}
    BY <2>1, <2>2, <2>3 DEF SettledOf
  <2>5. PICK l \in Nat, r \in Nat : l = Locked(o) /\ r = Amount(Paid(o.side), tr) /\ r <= l
    BY <2>3, FrozenForIs
  <2>6. FrozenFor(o, {tr}) = l - r
    BY <2>5, FrozenForIs
  <2>7. StillFrozen(id) = l - r
    BY <1>1, <2>4, <2>6, StillIs
  <2>8. QED
    BY <2>5, <2>7
<1>4. QED
  BY <1>2, <1>3

-----------------------------------------------------------------------------
(* What all orders of an account need.                                     *)
Needed(u, a) == SumFunction([id \in OrdersOf(u, a) |-> StillFrozen(id)])

(* One summand changes.                                                    *)
LEMMA SumChanges ==
    ASSUME NEW S, IsFiniteSet(S), NEW f, NEW g, NEW y \in S,
           \A x \in S : f[x] \in Int /\ g[x] \in Int, \A x \in S \ {y} : g[x] = f[x]
    PROVE  /\ SumFunctionOnSet(f, S) \in Int
           /\ SumFunctionOnSet(g, S) = SumFunctionOnSet(f, S) + (g[y] - f[y])
<1>1. PICK R : R = S \ {y}
  OBVIOUS
<1>2. IsFiniteSet(R)
  BY <1>1, FS_Subset
<1>3. SumFunctionOnSet(f, S) = f[y] + SumFunctionOnSet(f, R)
  BY <1>1, SumTakes
<1>4. SumFunctionOnSet(g, S) = g[y] + SumFunctionOnSet(g, R)
  BY <1>1, SumTakes
<1>5. SumFunctionOnSet(f, R) = SumFunctionOnSet(g, R)
  BY <1>1, <1>2, SumSame
<1>6. SumFunctionOnSet(f, R) \in Int /\ SumFunctionOnSet(f, S) \in Int
  BY <1>1, <1>2, SumTakes
<1>7. f[y] \in Int /\ g[y] \in Int
  OBVIOUS
<1>8. QED
  BY <1>3, <1>4, <1>5, <1>6, <1>7

LEMMA OrdersOfFinite ==
    ASSUME Types, NEW u, NEW a
    PROVE  IsFiniteSet(OrdersOf(u, a)) /\ OrdersOf(u, a) \subseteq DOMAIN orders
<1>1. PICK n \in Nat : DOMAIN orders = 1..n
  BY DEF Types
<1>2. n \in Int /\ 1 \in Int
  OBVIOUS
<1>3. IsFiniteSet(1..n)
  BY <1>2, FS_Interval
<1>4. OrdersOf(u, a) \subseteq 1..n
  BY <1>1 DEF OrdersOf
<1>5. QED
  BY <1>1, <1>3, <1>4, FS_Subset

(* An order is of the account it is paid from.                             *)
LEMMA OneAccount ==
    ASSUME Types, NEW id \in DOMAIN orders, NEW u \in Users, NEW a \in Assets
    PROVE  id \in OrdersOf(u, a) <=> u = orders[id].user /\ a = Paid(orders[id].side)
<1>1. orders[id].side \in {"buy", "sell"}
  BY RowFields DEF Types
<1>2. orders[id].side = SideOf(a) <=> a = Paid(orders[id].side)
  BY <1>1 DEF SideOf, Paid, Assets
<1>3. QED
  BY <1>2 DEF OrdersOf

(* Nothing changes, one order needs something else, or there is another.   *)
LEMMA NeededSame ==
    ASSUME Types, NEW u, NEW a, OrdersOf(u, a)' = OrdersOf(u, a),
           \A id \in OrdersOf(u, a) : StillFrozen(id)' = StillFrozen(id)
    PROVE  Needed(u, a)' = Needed(u, a)
<1>1. PICK S, f : S = OrdersOf(u, a) /\ f = [id \in S |-> StillFrozen(id)]
  OBVIOUS
<1>2. PICK g : g = [id \in S |-> StillFrozen(id)']
  OBVIOUS
<1>3. f = g
  BY <1>1, <1>2
<1>4. Needed(u, a) = SumFunction(f) /\ Needed(u, a)' = SumFunction(g)
  BY <1>1, <1>2 DEF Needed
<1>5. QED
  BY <1>3, <1>4

LEMMA NeededChanges ==
    ASSUME Types, NEW u, NEW a, OrdersOf(u, a)' = OrdersOf(u, a), NEW y \in OrdersOf(u, a),
           \A id \in OrdersOf(u, a) : StillFrozen(id) \in Int /\ StillFrozen(id)' \in Int,
           \A id \in OrdersOf(u, a) \ {y} : StillFrozen(id)' = StillFrozen(id)
    PROVE  /\ Needed(u, a) \in Int
           /\ Needed(u, a)' = Needed(u, a) + (StillFrozen(y)' - StillFrozen(y))
<1>1. PICK S, f : S = OrdersOf(u, a) /\ f = [id \in S |-> StillFrozen(id)]
  OBVIOUS
<1>2. PICK g : g = [id \in S |-> StillFrozen(id)']
  OBVIOUS
<1>3. Needed(u, a) = SumFunction(f) /\ Needed(u, a)' = SumFunction(g)
  BY <1>1, <1>2 DEF Needed
<1>4. Needed(u, a) = SumFunctionOnSet(f, S) /\ Needed(u, a)' = SumFunctionOnSet(g, S)
  <2>1. DOMAIN f = S /\ DOMAIN g = S
    BY <1>1, <1>2
  <2>2. QED
    BY <1>3, <2>1 DEF SumFunction
<1>5. /\ \A x \in S : f[x] \in Int /\ g[x] \in Int
      /\ \A x \in S \ {y} : g[x] = f[x]
      /\ f[y] = StillFrozen(y) /\ g[y] = StillFrozen(y)' /\ y \in S
  BY <1>1, <1>2
<1>6. IsFiniteSet(S)
  BY <1>1, OrdersOfFinite
<1>7. QED
  BY <1>4, <1>5, <1>6, SumChanges

LEMMA NeededMore ==
    ASSUME Types, NEW u, NEW a, NEW y, y \notin OrdersOf(u, a),
           OrdersOf(u, a)' = OrdersOf(u, a) \cup {y}, StillFrozen(y)' \in Int,
           \A id \in OrdersOf(u, a) : StillFrozen(id) \in Int /\ StillFrozen(id)' = StillFrozen(id)
    PROVE  Needed(u, a) \in Int /\ Needed(u, a)' = Needed(u, a) + StillFrozen(y)'
<1>1. PICK S, f : S = OrdersOf(u, a) /\ f = [id \in S |-> StillFrozen(id)]
  OBVIOUS
<1>2. PICK T, g : T = S \cup {y} /\ g = [id \in T |-> StillFrozen(id)']
  OBVIOUS
<1>3. Needed(u, a) = SumFunction(f) /\ Needed(u, a)' = SumFunction(g)
  BY <1>1, <1>2 DEF Needed
<1>4. Needed(u, a) = SumFunctionOnSet(f, S) /\ Needed(u, a)' = SumFunctionOnSet(g, T)
  <2>1. DOMAIN f = S /\ DOMAIN g = T
    BY <1>1, <1>2
  <2>2. QED
    BY <1>3, <2>1 DEF SumFunction
<1>5. IsFiniteSet(S) /\ IsFiniteSet(T)
  BY <1>1, <1>2, OrdersOfFinite, FS_AddElement
<1>6. /\ \A x \in T : g[x] \in Int
      /\ \A x \in S : f[x] \in Int /\ f[x] = g[x]
      /\ g[y] = StillFrozen(y)' /\ y \in T /\ T \ {y} = S
  BY <1>1, <1>2
<1>7. SumFunctionOnSet(g, T) = g[y] + SumFunctionOnSet(g, S)
  BY <1>5, <1>6, SumTakes
<1>8. SumFunctionOnSet(f, S) \in Int /\ SumFunctionOnSet(f, S) = SumFunctionOnSet(g, S)
  BY <1>5, <1>6, SumTakes, SumSame
<1>9. g[y] \in Int
  BY <1>6
<1>10. QED
  BY <1>4, <1>6, <1>7, <1>8, <1>9

LEMMA NeededAtLeast ==
    ASSUME Types, NEW u, NEW a, NEW y \in OrdersOf(u, a),
           \A id \in OrdersOf(u, a) : StillFrozen(id) \in Nat
    PROVE  StillFrozen(y) <= Needed(u, a)
<1>1. PICK S, f : S = OrdersOf(u, a) /\ f = [id \in S |-> StillFrozen(id)]
  OBVIOUS
<1>2. Needed(u, a) = SumFunctionOnSet(f, S)
  BY <1>1 DEF Needed, SumFunction
<1>3. (\A x \in S : f[x] \in Nat) /\ f[y] = StillFrozen(y) /\ IsFiniteSet(S)
  BY <1>1, OrdersOfFinite
<1>4. QED
  BY <1>1, <1>2, <1>3, SumAtLeast

-----------------------------------------------------------------------------
(* What is frozen changes in one row of the accounts, or in none.          *)
FrozenBy(acc, new, v, p, d) ==
    \A u \in Users, a \in Assets :
        new[u][a].frozen = acc[u][a].frozen + (IF u = v /\ a = p THEN d ELSE 0)

LEMMA PutFrozen ==
    ASSUME NEW acc \in Accounts, NEW v \in Users, NEW p \in Assets, NEW row \in Balance,
           NEW d \in Int, row.frozen = acc[v][p].frozen + d
    PROVE  FrozenBy(acc, Put(acc, v, p, row), v, p, d)
<1>1. PICK new : new = Put(acc, v, p, row)
  OBVIOUS
<1>2. OnlyRow(new, acc, v, p, row)
  BY <1>1, OneRow
<1>3. ASSUME NEW u \in Users, NEW a \in Assets
      PROVE  new[u][a].frozen = acc[u][a].frozen + (IF u = v /\ a = p THEN d ELSE 0)
  <2>1. acc[u][a].frozen \in Nat
    BY DEF Accounts
  <2>2. CASE u = v /\ a = p
    BY <1>2, <2>2 DEF OnlyRow
  <2>3. CASE ~(u = v /\ a = p)
    BY <1>2, <2>1, <2>3 DEF OnlyRow
  <2>4. QED
    BY <2>2, <2>3
<1>4. QED
  BY <1>1, <1>3 DEF FrozenBy

LEMMA LockFrozen ==
    ASSUME NEW acc \in Accounts, NEW o \in Row, acc[o.user][Paid(o.side)].free >= Locked(o)
    PROVE  FrozenBy(acc, Lock(acc, o), o.user, Paid(o.side), Locked(o))
<1>1. PICK n \in Nat : n = Locked(o)
  BY FreezeNat
<1>2. PICK v \in Users, p \in Assets : v = o.user /\ p = Paid(o.side)
  BY RowFields, TwoAssets
<1>3. PICK f \in Nat, z \in Nat : f = acc[v][p].free /\ z = acc[v][p].frozen
  BY DEF Accounts
<1>4. f - n \in Nat /\ z + n \in Nat
  BY <1>1, <1>2, <1>3
<1>5. PICK row \in Balance : row = [free |-> f - n, frozen |-> z + n]
  BY <1>4 DEF Balance
<1>6. Lock(acc, o) = Put(acc, v, p, row)
  BY <1>1, <1>2, <1>3, <1>5 DEF Lock, Put
<1>7. row.frozen = acc[v][p].frozen + n /\ n \in Int
  BY <1>3, <1>5
<1>8. QED
  BY <1>1, <1>2, <1>6, <1>7, PutFrozen

LEMMA ReleaseFrozen ==
    ASSUME NEW acc \in Accounts, NEW v \in Users, NEW p \in Assets, NEW n \in Nat,
           n <= acc[v][p].frozen, NEW d \in Int, d + n = 0
    PROVE  FrozenBy(acc, ReleaseFunds(acc, v, p, n), v, p, d)
<1>1. PICK f \in Nat, z \in Nat : f = acc[v][p].free /\ z = acc[v][p].frozen
  BY DEF Accounts
<1>2. PICK m : m = Min({z, n})
  OBVIOUS
<1>3. m = n
  <2>1. z \in Int /\ n \in Int /\ n <= z
    BY <1>1
  <2>2. m \in {z, n} /\ m <= n
    BY <1>2, <2>1, SmallerOf, Zenon
  <2>3. QED
    BY <2>1, <2>2
<1>4. f + n \in Nat /\ z - n \in Nat
  BY <1>1
<1>5. PICK row \in Balance : row = [free |-> f + n, frozen |-> z - n]
  BY <1>4 DEF Balance
<1>6. ReleaseFunds(acc, v, p, n) = Put(acc, v, p, row)
  BY <1>1, <1>2, <1>3, <1>5 DEF ReleaseFunds, Put
<1>7. row.frozen = acc[v][p].frozen + d
  BY <1>1, <1>5
<1>8. QED
  BY <1>6, <1>7, PutFrozen

(* A filled order releases nothing.                                        *)
LEMMA AfterFillFrozen ==
    ASSUME NEW acc \in Accounts, NEW o \in Row, o.filled = o.qty
    PROVE  \A u \in Users, a \in Assets : AfterFill(acc, o)[u][a].frozen = acc[u][a].frozen
<1>1. PICK v \in Users, p \in Assets : v = o.user /\ p = Paid(o.side)
  BY RowFields, TwoAssets
<1>2. AfterFill(acc, o) = ReleaseFunds(acc, v, p, 0)
  <2>1. RoundDown(p, RemainingFreeze(o)) = 0
    <3>1. RemainingFreeze(o) = 0 /\ 0 \in Nat
      BY RemainingAtEnds
    <3>2. QED
      BY <3>1, RoundedLess
  <2>2. QED
    BY <1>1, <2>1 DEF AfterFill, ReleaseOrderRemainingFreeze
<1>3. acc[v][p].frozen \in Nat
  BY DEF Accounts
<1>4. 0 <= acc[v][p].frozen /\ 0 \in Nat /\ 0 + 0 = 0
  BY <1>3
<1>5. FrozenBy(acc, ReleaseFunds(acc, v, p, 0), v, p, 0)
  BY <1>4, ReleaseFrozen
<1>6. \A u \in Users, a \in Assets : acc[u][a].frozen \in Nat
  BY DEF Accounts
<1>7. QED
  BY <1>2, <1>4, <1>5, <1>6 DEF FrozenBy

(* What is released is released from one account.                          *)
LEMMA ReleasedElsewhere ==
    ASSUME NEW acc \in Accounts, NEW o, NEW u \in Users, NEW a \in Assets,
           ~(u = o.user /\ a = Paid(o.side))
    PROVE  /\ ReleaseOrderRemainingFreeze(acc, o)[u][a] = acc[u][a]
           /\ AfterFill(acc, o)[u][a] = acc[u][a]
<1>1. PICK v, p, n : v = o.user /\ p = Paid(o.side) /\ n = RoundDown(p, RemainingFreeze(o))
  OBVIOUS
<1>2. ReleaseOrderRemainingFreeze(acc, o) = ReleaseFunds(acc, v, p, n)
  BY <1>1 DEF ReleaseOrderRemainingFreeze
<1>3. acc \in [Users -> [Assets -> Balance]]
  BY DEF Accounts, Balance
<1>4. PICK row : ReleaseFunds(acc, v, p, n) = [acc EXCEPT ![v][p] = row]
  <2>1. PICK m : m = Min({acc[v][p].frozen, n})
    OBVIOUS
  <2>2. ReleaseFunds(acc, v, p, n) =
          [acc EXCEPT ![v][p] = [free |-> acc[v][p].free + m, frozen |-> acc[v][p].frozen - m]]
    BY <2>1 DEF ReleaseFunds
  <2>3. QED
    BY <2>2
<1>5. ReleaseFunds(acc, v, p, n)[u][a] = acc[u][a]
  <2>1. CASE u # v
    BY <1>3, <1>4, <2>1
  <2>2. CASE u = v /\ a # p
    BY <1>3, <1>4, <2>2
  <2>3. QED
    BY <1>1, <2>1, <2>2
<1>6. QED
  BY <1>2, <1>5 DEF AfterFill

(* A side of a trade pays from what was frozen.                            *)
LEMMA SettleFrozen ==
    ASSUME NEW acc \in Accounts, NEW o \in Row, NEW tr, tr.price \in Nat, tr.qty \in Nat,
           acc[o.user][Paid(o.side)].frozen >= Amount(Paid(o.side), tr)
    PROVE  FrozenBy(acc, SettleTradeForUser(acc, o, tr), o.user, Paid(o.side),
                    -Amount(Paid(o.side), tr))
<1>1. PICK v \in Users, p \in Assets, g \in Assets : v = o.user /\ p = Paid(o.side) /\ g = Got(o.side)
  BY RowFields, TwoAssets
<1>2. p # g /\ Assets = {p, g}
  BY <1>1, RowFields, TwoAssets
<1>3. PICK m \in Nat, n \in Nat : m = Amount(p, tr) /\ n = Amount(g, tr)
  BY AmountNat
<1>4. acc \in [Users -> [Assets -> Balance]]
  BY DEF Accounts, Balance
<1>5. PICK x \in Balance, y \in Balance : x = acc[v][p] /\ y = acc[v][g]
  BY <1>4
<1>6. x.free \in Nat /\ x.frozen \in Nat /\ y.free \in Nat /\ y.frozen \in Nat /\ x.frozen >= m
  BY <1>1, <1>3, <1>5 DEF Balance
<1>7. PICK xx : xx = [x EXCEPT !.frozen = @ - m]
  OBVIOUS
<1>8. PICK yy : yy = [y EXCEPT !.free = @ + n]
  OBVIOUS
<1>9. xx \in Balance /\ xx.frozen = x.frozen + (-m) /\ -m \in Int
  BY <1>6, <1>7 DEF Balance
<1>10. yy \in Balance /\ yy.frozen = y.frozen
  BY <1>6, <1>8 DEF Balance
<1>11. PICK one : one = Put(acc, v, p, xx)
  OBVIOUS
<1>12. PICK two : two = Put(one, v, g, yy)
  OBVIOUS
<1>13. OnlyRow(one, acc, v, p, xx)
  BY <1>9, <1>11, OneRow
<1>a. one \in Accounts
  BY <1>13 DEF OnlyRow
<1>14. OnlyRow(two, one, v, g, yy)
  BY <1>10, <1>12, <1>a, OneRow
<1>15. two = SettleTradeForUser(acc, o, tr)
  <2>1. one = [acc EXCEPT ![v][p].frozen = @ - m]
    BY <1>4, <1>5, <1>7, <1>11 DEF Put
  <2>2. one[v][g] = y
    BY <1>2, <1>4, <1>5, <1>11 DEF Put
  <2>3. two = [one EXCEPT ![v][g].free = @ + n]
    BY <1>8, <1>12, <2>2 DEF Put
  <2>4. SettleTradeForUser(acc, o, tr) = [[acc EXCEPT ![v][p].frozen = @ - m] EXCEPT ![v][g].free = @ + n]
    BY <1>1, <1>3 DEF SettleTradeForUser
  <2>5. QED
    BY <2>1, <2>3, <2>4
<1>16. ASSUME NEW u \in Users, NEW a \in Assets
       PROVE  two[u][a].frozen = acc[u][a].frozen + (IF u = v /\ a = p THEN -m ELSE 0)
  <2>1. acc[u][a].frozen \in Nat
    BY DEF Accounts
  <2>2. CASE u = v /\ a = p
    <3>1. two[u][a] = xx
      BY <1>2, <1>13, <1>14, <2>2 DEF OnlyRow
    <3>2. QED
      BY <1>5, <1>9, <2>2, <3>1
  <2>3. CASE u = v /\ a = g
    <3>1. two[u][a] = yy
      BY <1>14, <2>3 DEF OnlyRow
    <3>2. QED
      BY <1>2, <1>5, <1>10, <2>1, <2>3, <3>1
  <2>4. CASE u # v
    <3>1. two[u][a] = acc[u][a]
      BY <1>13, <1>14, <2>4 DEF OnlyRow
    <3>2. QED
      BY <2>1, <2>4, <3>1
  <2>5. QED
    BY <1>2, <2>2, <2>3, <2>4
<1>17. QED
  BY <1>1, <1>3, <1>15, <1>16 DEF FrozenBy

-----------------------------------------------------------------------------
(* What is frozen, step by step.                                           *)

(* The orders of the account that are ended otherwise than by a trade.     *)
SameEnds(u, a) ==
    \A i \in OrdersOf(u, a) : orders'[i].status \in Ended <=> orders[i].status \in Ended

LEMMA SameAccounts ==
    ASSUME Types, KeepsFunds, DOMAIN orders' = DOMAIN orders, NEW u, NEW a
    PROVE  OrdersOf(u, a)' = OrdersOf(u, a)
  BY DEF OrdersOf, KeepsFunds, SameFunds, SameOrder

LEMMA StillSame ==
    ASSUME Types, KeepsFunds, NEW id \in DOMAIN orders, SettledOf(id)' = SettledOf(id),
           SettledOf(id) = {} => (orders'[id].status \in Ended <=> orders[id].status \in Ended)
    PROVE  StillFrozen(id)' = StillFrozen(id)
<1>1. PICK o, n, s : o = orders[id] /\ n = orders'[id] /\ s = SettledOf(id)
  OBVIOUS
<1>2. StillFrozen(id) = FrozenFor(o, s)
  BY <1>1, StillIs
<1>3. StillFrozen(id)' = FrozenFor(n, s)
  <2>1. StillFrozen(id)' = FrozenFor(orders'[id], SettledOf(id)')
    BY StillIsThen
  <2>2. QED
    BY <1>1, <2>1
<1>4. SameFunds(o, n)
  BY <1>1 DEF KeepsFunds
<1>5. n.side = o.side /\ n.qty = o.qty /\ n.price = o.price
  BY <1>4 DEF SameFunds, SameOrder
<1>6. ComputeFreeze(n) = ComputeFreeze(o) /\ Locked(n) = Locked(o)
  BY <1>5 DEF Locked, ComputeFreeze
<1>7. CASE s # {}
  BY <1>2, <1>3, <1>5, <1>6, <1>7 DEF FrozenFor
<1>8. CASE s = {}
  BY <1>1, <1>2, <1>3, <1>5, <1>6, <1>8 DEF FrozenFor
<1>9. QED
  BY <1>7, <1>8

LEMMA FreezeKept ==
    ASSUME Types, KeepsFunds, DOMAIN orders' = DOMAIN orders, NEW u \in Users, NEW a \in Assets,
           SameEnds(u, a), \A id \in OrdersOf(u, a) : SettledOf(id)' = SettledOf(id),
           FrozenAgrees(u, a), account'[u][a].frozen = account[u][a].frozen
    PROVE  FrozenAgrees(u, a)'
<1>1. OrdersOf(u, a)' = OrdersOf(u, a) /\ OrdersOf(u, a) \subseteq DOMAIN orders
  BY SameAccounts, OrdersOfFinite
<1>2. ASSUME NEW id \in OrdersOf(u, a) PROVE StillFrozen(id)' = StillFrozen(id)
  <2>1. SettledOf(id)' = SettledOf(id) /\ id \in DOMAIN orders
    BY <1>1
  <2>2. orders'[id].status \in Ended <=> orders[id].status \in Ended
    BY DEF SameEnds
  <2>3. QED
    BY <2>1, <2>2, StillSame
<1>3. Needed(u, a)' = Needed(u, a)
  BY <1>1, <1>2, NeededSame
<1>4. QED
  BY <1>3 DEF FrozenAgrees, Needed

LEMMA EndsKept ==
    ASSUME Types, KeepsFunds, DOMAIN orders' = DOMAIN orders, NEW u, NEW a,
           EndsByTrade(u, a), SameEnds(u, a), Published' = Published
    PROVE  EndsByTrade(u, a)'
<1>1. OrdersOf(u, a)' = OrdersOf(u, a)
  BY SameAccounts
<1>2. QED
  BY <1>1 DEF EndsByTrade, SameEnds, Ended

(* One order needs less, and as much is taken from its account.            *)
LEMMA OneReleased ==
    ASSUME Types, Types', NEW u \in Users, NEW a \in Assets,
           Regular(u, a), CoreInv, ReadInv,
           KeepsFunds, DOMAIN orders' = DOMAIN orders, FrozenAgrees(u, a),
           NEW y \in OrdersOf(u, a), NEW d \in Int, StillFrozen(y)' = StillFrozen(y) + d,
           \A id \in OrdersOf(u, a) \ {y} : StillFrozen(id)' = StillFrozen(id),
           account'[u][a].frozen = account[u][a].frozen + d
    PROVE  FrozenAgrees(u, a)'
<1>1. \A id \in OrdersOf(u, a) : StillFrozen(id) \in Nat
  BY StillNat
<1>2. \A id \in OrdersOf(u, a) : StillFrozen(id)' \in Int
  BY <1>1
<1>3. OrdersOf(u, a)' = OrdersOf(u, a)
  BY SameAccounts
<1>4. account[u][a].frozen = Needed(u, a) /\ account[u][a].frozen \in Nat
  BY DEF FrozenAgrees, Needed, Types, Accounts
<1>5. Needed(u, a)' = Needed(u, a) + (StillFrozen(y)' - StillFrozen(y))
  BY <1>1, <1>2, <1>3, NeededChanges
<1>6. StillFrozen(y)' - StillFrozen(y) = d
  BY <1>1
<1>7. account'[u][a].frozen = Needed(u, a)'
  BY <1>4, <1>5, <1>6
<1>8. QED
  BY <1>7 DEF FrozenAgrees, Needed

(* An order that has not traded is cancelled or rejected: what was frozen  *)
(* for it is released, but for the rounding.                               *)
LEMMA AllReleased ==
    ASSUME Types, Types', NEW v \in Users, NEW p \in Assets,
           Regular(v, p), CoreInv, ReadInv, ReadInv',
           KeepsFunds, DOMAIN orders' = DOMAIN orders, FrozenAgrees(v, p), trades' = trades,
           Published' = Published, NEW y \in OrdersOf(v, p), \A tr \in Published : y \notin Sides(tr),
           orders[y].status \notin Ended, orders'[y].status \in Ended,
           \A id \in DOMAIN orders \ {y} : orders'[id] = orders[id],
           NEW n \in Row, SameFunds(orders[y], n), n.filled = 0,
           account' = ReleaseOrderRemainingFreeze(account, n)
    PROVE  FrozenAgrees(v, p)'
<1>0. y \in DOMAIN orders
  BY DEF OrdersOf
<1>1. PICK o \in Row, e \in Row : o = orders[y] /\ e = orders'[y]
  BY <1>0 DEF Types
<1>2. SettledOf(y) = {} /\ SettledOf(y)' = {}
  BY DEF SettledOf, ReadInv, ReadTrades
<1>3. /\ n.user = o.user /\ n.side = o.side /\ n.qty = o.qty /\ n.price = o.price
      /\ e.side = o.side /\ e.qty = o.qty /\ e.price = o.price
  BY <1>0, <1>1 DEF SameFunds, SameOrder, KeepsFunds
<1>4. /\ ComputeFreeze(n) = ComputeFreeze(o) /\ ComputeFreeze(e) = ComputeFreeze(o)
      /\ Locked(e) = Locked(o)
  BY <1>3 DEF ComputeFreeze, Locked
<1>5. v = o.user /\ p = Paid(o.side)
  BY <1>0, <1>1, OneAccount
<1>6. PICK l \in Nat, r \in Nat : l = Locked(o) /\ r = RoundDown(p, ComputeFreeze(o)) /\ r <= l
  BY <1>5, FrozenForIs
<1>7. StillFrozen(y) = l
  <2>1. StillFrozen(y) = FrozenFor(o, {})
    BY <1>1, <1>2, StillIs
  <2>2. FrozenFor(o, {}) = l
    BY <1>1, <1>6, FrozenForIs
  <2>3. QED
    BY <2>1, <2>2
<1>8. StillFrozen(y)' = l - r
  <2>1. StillFrozen(y)' = FrozenFor(orders'[y], SettledOf(y)')
    BY StillIsThen
  <2>2. FrozenFor(e, {}) = Locked(e) - RoundDown(Paid(e.side), ComputeFreeze(e))
    BY <1>1, FrozenForIs
  <2>3. QED
    BY <1>1, <1>2, <1>3, <1>4, <1>5, <1>6, <2>1, <2>2
<1>9. account' = ReleaseFunds(account, v, p, r)
  <2>1. RemainingFreeze(n) = ComputeFreeze(o)
    BY <1>4, RemainingAtEnds
  <2>2. QED
    BY <1>3, <1>5, <1>6, <2>1 DEF ReleaseOrderRemainingFreeze
<1>10. account \in Accounts
  BY DEF Types
<1>11. r <= account[v][p].frozen
  <2>2. \A id \in OrdersOf(v, p) : StillFrozen(id) \in Nat
    BY StillNat
  <2>3. StillFrozen(y) <= Needed(v, p)
    BY <2>2, NeededAtLeast
  <2>4. account[v][p].frozen = Needed(v, p)
    BY DEF FrozenAgrees, Needed
  <2>5. account[v][p].frozen \in Nat
    BY <1>10 DEF Accounts
  <2>6. QED
    BY <1>6, <1>7, <2>3, <2>4, <2>5
<1>12. FrozenBy(account, account', v, p, -r)
  <2>1. -r \in Int /\ -r + r = 0
    BY <1>6
  <2>2. QED
    BY <2>1, <1>9, <1>10, <1>11, ReleaseFrozen
<1>13. ASSUME NEW id \in OrdersOf(v, p) \ {y} PROVE StillFrozen(id)' = StillFrozen(id)
  <2>1. SettledOf(id)' = SettledOf(id) /\ id \in DOMAIN orders \ {y}
    BY DEF SettledOf, OrdersOf
  <2>2. QED
    BY <2>1, StillSame
<1>14. StillFrozen(y)' = StillFrozen(y) + (-r) /\ -r \in Int
  BY <1>6, <1>7, <1>8
<1>15. account'[v][p].frozen = account[v][p].frozen + (-r)
  BY <1>12 DEF FrozenBy
<1>16. QED
  BY <1>13, <1>14, <1>15, OneReleased

-----------------------------------------------------------------------------
(* The invariant, and the steps of the order service.                      *)

AllInv == Types /\ SeenKnown /\ ShardInv /\ ReadInv /\ FreezeInv

(* What the steps have in common: with what is read and what is frozen     *)
(* shown, the rest of the invariant follows.                               *)
LEMMA FrozenFollows ==
    ASSUME AllInv, Types', SeenKnown', ShardInv', ReadInv', KeepsFunds, TopicsGrow,
           seen \subseteq seen',
           \A u \in Users, a \in Assets :
              Regular(u, a) /\ EndsByTrade(u, a) /\ FrozenAgrees(u, a) /\ Regular(u, a)'
                 => EndsByTrade(u, a)' /\ FrozenAgrees(u, a)'
    PROVE  AllInv'
<1>1. \A u \in Users, a \in Assets : Regular(u, a)' => Regular(u, a)
  BY RegularBefore DEF AllInv
<1>2. FreezeInv'
  BY <1>1 DEF AllInv, FreezeInv
<1>3. QED
  BY <1>2 DEF AllInv

LEMMA NothingNew ==
    ASSUME Types, UNCHANGED <<orders, matchEvents, tradeEvents>>
    PROVE  /\ KeepsFunds /\ TopicsGrow /\ Quiet /\ Grows /\ Published' = Published
           /\ \A u \in Users, a \in Assets : SameEnds(u, a)
<1>1. TopicsGrow
  BY TopicsSame
<1>2. KeepsFunds /\ Quiet /\ Grows /\ \A u \in Users, a \in Assets : SameEnds(u, a)
  BY DEF KeepsFunds, SameFunds, SameOrder, Quiet, SameEnds, Grows
<1>3. QED
  BY <1>1, <1>2 DEF Published

LEMMA ShardSame ==
    ASSUME Types, ShardInv, Room', UNCHANGED <<orders, cmds, pos, seen, book, batch, matchEvents, tradeEvents>>
    PROVE  ShardInv'
<1>1. pos \in Nat /\ Grows /\ \A p \in 1..pos : cmds'[p] = cmds[p]
  BY NothingNew DEF Types
<1>2. CoreInv' /\ TellInv'
  BY <1>1, CoreKept, TellKept DEF ShardInv
<1>3. Commands'
  BY DEF ShardInv, Commands
<1>4. QED
  BY <1>2, <1>3 DEF ShardInv

LEMMA RoomSame ==
    ASSUME Types, Room, inflight' = inflight, Len(orders') = Len(orders)
    PROVE  Room'
  BY DEF Room

(* A step that leaves alone what the orders, the shard and the topics say. *)
LEMMA IdleStep ==
    ASSUME AllInv, Types', Room', ReadInv',
           UNCHANGED <<orders, trades, cmds, pos, seen, book, batch, matchEvents, tradeEvents>>,
           \A u \in Users, a \in Assets : account'[u][a].frozen = account[u][a].frozen
    PROVE  AllInv'
<1>1. Types /\ ShardInv
  BY DEF AllInv
<1>2. /\ KeepsFunds /\ TopicsGrow /\ Published' = Published
      /\ \A u \in Users, a \in Assets : SameEnds(u, a)
  BY <1>1, NothingNew
<1>3. SeenKnown'
  BY DEF AllInv, SeenKnown
<1>4. ShardInv'
  BY <1>1, ShardSame
<1>5. ASSUME NEW u \in Users, NEW a \in Assets, EndsByTrade(u, a), FrozenAgrees(u, a)
      PROVE  EndsByTrade(u, a)' /\ FrozenAgrees(u, a)'
  <2>1. \A id \in OrdersOf(u, a) : SettledOf(id)' = SettledOf(id)
    BY DEF SettledOf
  <2>2. QED
    BY <1>1, <1>2, <1>5, <2>1, EndsKept, FreezeKept
<1>6. QED
  BY <1>2, <1>3, <1>4, <1>5, FrozenFollows

LEMMA ReadSame ==
    ASSUME ReadInv, UNCHANGED <<orders, processed, trades, matchEvents, tradeEvents, mPos>>
    PROVE  ReadInv'
  BY DEF ReadInv, ReadMatches, ReadTrades, Published, IsCanceled

LEMMA LookupFreeze ==
    ASSUME AllInv, Types', NEW req \in Request, Lookup(req)
    PROVE  AllInv'
<1>1. /\ UNCHANGED <<orders, trades, cmds, pos, seen, book, batch, matchEvents, tradeEvents>>
      /\ UNCHANGED <<account, processed, mPos>>
      /\ Cardinality(inflight) + Len(orders) < MaxOrders
      /\ inflight' = inflight \/ inflight' = inflight \cup {req}
  BY DEF Lookup, shard, topics
<1>2. Room'
  <2>1. PICK k \in Nat, n \in Nat : k = Cardinality(inflight) /\ n = Len(orders)
    <3>1. IsFiniteSet(inflight) /\ orders \in Seq(Row)
      BY DEF AllInv, Types, ShardInv, Room
    <3>2. Cardinality(inflight) \in Nat /\ Len(orders) \in Nat
      BY <3>1, FS_CardinalityType
    <3>3. QED
      BY <3>2
  <2>2. IsFiniteSet(inflight) /\ MaxOrders \in Nat
    BY SettlementAssumption DEF AllInv, ShardInv, Room
  <2>3. IsFiniteSet(inflight') /\ Cardinality(inflight') <= k + 1 /\ Cardinality(inflight') \in Nat
    <3>1. CASE inflight' = inflight
      BY <2>1, <2>2, <3>1
    <3>2. CASE inflight' = inflight \cup {req}
      <4>1. IsFiniteSet(inflight') /\ (Cardinality(inflight') = k \/ Cardinality(inflight') = k + 1)
        BY <2>1, <2>2, <3>2, FS_AddElement
      <4>2. QED
        BY <2>1, <4>1
    <3>3. QED
      BY <1>1, <3>1, <3>2
  <2>4. k + n < MaxOrders /\ Len(orders') = n
    BY <1>1, <2>1
  <2>5. Cardinality(inflight') + Len(orders') <= MaxOrders
    BY <2>1, <2>2, <2>3, <2>4
  <2>6. QED
    BY <2>3, <2>5 DEF Room
<1>3. ReadInv'
  BY <1>1, ReadSame DEF AllInv
<1>4. QED
  BY <1>1, <1>2, <1>3, IdleStep

LEMMA UpdateBalanceFreeze ==
    ASSUME AllInv, Types', NEW adj \in Adjustments, UpdateBalance(adj)
    PROVE  AllInv'
<1>1. /\ UNCHANGED <<orders, trades, cmds, pos, seen, book, batch, matchEvents, tradeEvents>>
      /\ UNCHANGED <<inflight, processed, mPos>>
      /\ account' = [account EXCEPT ![adj.user][adj.asset].free = @ + adj.change]
      /\ account[adj.user][adj.asset].free + adj.change >= 0
  BY DEF UpdateBalance, shard, topics
<1>2. PICK v \in Users, p \in Assets, c \in Int : v = adj.user /\ p = adj.asset /\ c = adj.change
  BY SettlementAssumption
<1>3. account \in Accounts /\ account \in [Users -> [Assets -> Balance]]
  BY DEF AllInv, Types, Accounts, Balance
<1>4. PICK x \in Balance : x = account[v][p]
  BY <1>3
<1>5. x.free \in Nat /\ x.frozen \in Nat /\ x.free + c >= 0
  BY <1>1, <1>2, <1>4 DEF Balance
<1>6. PICK xx : xx = [x EXCEPT !.free = @ + c]
  OBVIOUS
<1>7. xx \in Balance /\ xx.frozen = x.frozen + 0 /\ 0 \in Int
  BY <1>5, <1>6 DEF Balance
<1>8. account' = Put(account, v, p, xx)
  BY <1>1, <1>2, <1>3, <1>4, <1>6 DEF Put
<1>9. FrozenBy(account, account', v, p, 0)
  BY <1>3, <1>4, <1>7, <1>8, PutFrozen
<1>10. \A u \in Users, a \in Assets : account'[u][a].frozen = account[u][a].frozen
  <2>1. \A u \in Users, a \in Assets : account[u][a].frozen \in Nat
    BY <1>3 DEF Balance
  <2>2. QED
    BY <1>9, <2>1 DEF FrozenBy
<1>11. Room' /\ ReadInv'
  BY <1>1, RoomSame, ReadSame DEF AllInv, ShardInv
<1>12. QED
  BY <1>1, <1>10, <1>11, IdleStep

LEMMA RereadFreeze ==
    ASSUME AllInv, Types', Reread
    PROVE  AllInv'
<1>1. /\ UNCHANGED <<orders, trades, cmds, pos, seen, book, batch, matchEvents, tradeEvents>>
      /\ UNCHANGED <<account, inflight, processed>>
      /\ mPos' = mPos \/ (mPos > 0 /\ mPos' = mPos - 1)
  BY DEF Reread, shard, topics, requests
<1>2. Room'
  BY <1>1, RoomSame DEF AllInv, ShardInv
<1>3. mPos \in Nat /\ mPos' \in Nat /\ mPos' <= mPos
  BY <1>1 DEF AllInv, Types
<1>4. PICK n \in Nat : n = Len(matchEvents) /\ mPos <= n
  BY DEF AllInv, Types, ReadInv, ReadMatches
<1>5. mPos' <= n /\ \A i \in 1..mPos' : i \in 1..mPos
  BY <1>3, <1>4
<1>6. ReadInv'
  BY <1>1, <1>4, <1>5 DEF AllInv, ReadInv, ReadMatches, ReadTrades, Published, IsCanceled
<1>7. QED
  BY <1>1, <1>2, <1>6, IdleStep

LEMMA StutterFreeze ==
    ASSUME AllInv, Types', UNCHANGED vars
    PROVE  AllInv'
<1>1. /\ UNCHANGED <<orders, trades, cmds, pos, seen, book, batch, matchEvents, tradeEvents>>
      /\ UNCHANGED <<account, inflight, processed, mPos>>
  BY DEF vars
<1>2. Room' /\ ReadInv'
  BY <1>1, RoomSame, ReadSame DEF AllInv, ShardInv
<1>3. QED
  BY <1>1, <1>2, IdleStep

-----------------------------------------------------------------------------
(* An order is placed: its funds are locked.                               *)

(* The row with the funds.                                                 *)
Places(o, k) ==
    /\ o \in Row /\ o.filled = 0 /\ o.status = "PENDING"
    /\ k = Len(orders) + 1
    /\ orders' = Append(orders, o)
    /\ account[o.user][Paid(o.side)].free >= Locked(o)
    /\ account' = Lock(account, o)
    /\ cmds' = Append(cmds, [kind |-> "New", id |-> k])
    /\ UNCHANGED <<trades, pos, seen, book, batch, matchEvents, tradeEvents>>

LEMMA PlacedRows ==
    ASSUME Types, NEW o, NEW k, Places(o, k)
    PROVE  /\ Grows /\ DOMAIN orders' = DOMAIN orders \cup {k} /\ k \notin DOMAIN orders
           /\ orders'[k] = o /\ (\A i \in DOMAIN orders : orders'[i] = orders[i])
           /\ KeepsFunds /\ Quiet /\ TopicsGrow /\ Published' = Published
<1>1. /\ Grows /\ DOMAIN orders' = DOMAIN orders \cup {k} /\ k \notin DOMAIN orders
      /\ orders'[k] = o /\ \A i \in DOMAIN orders : orders'[i] = orders[i]
  <2>1. o \in Row /\ orders' = Append(orders, o) /\ k = Len(orders) + 1
    BY DEF Places
  <2>2. QED
    BY <2>1, RowAdded
<1>2. KeepsFunds
  BY <1>1 DEF KeepsFunds, SameFunds, SameOrder
<1>3. Quiet
  BY <1>1 DEF Quiet, Places
<1>4. UNCHANGED <<matchEvents, tradeEvents>>
  BY DEF Places
<1>5. TopicsGrow /\ Published' = Published
  BY <1>4, TopicsSame DEF Published
<1>6. QED
  BY <1>1, <1>2, <1>3, <1>5

LEMMA PlacedFrozen ==
    ASSUME Types, NEW u \in Users, NEW a \in Assets, Regular(u, a), CoreInv, ReadInv,
           FrozenAgrees(u, a), NEW o, NEW k, Places(o, k)
    PROVE  FrozenAgrees(u, a)'
<1>1. /\ DOMAIN orders' = DOMAIN orders \cup {k} /\ k \notin DOMAIN orders /\ orders'[k] = o
      /\ (\A i \in DOMAIN orders : orders'[i] = orders[i]) /\ KeepsFunds
  BY PlacedRows
<1>2. o \in Row /\ o.status \notin Ended
  BY DEF Places, Ended
<1>3. PICK l \in Nat : l = Locked(o)
  BY <1>2, FreezeNat
<1>4. StillFrozen(k)' = l
  <2>1. SettledOf(k)' = {}
    <3>1. trades' = trades /\ trades \subseteq GoodTrade
      BY DEF Places, Types
    <3>2. \A tr \in trades : k \notin Sides(tr)
      BY <1>1, <3>1, GoodTradeFields DEF Sides
    <3>3. QED
      BY <3>1, <3>2 DEF SettledOf
  <2>2. StillFrozen(k)' = FrozenFor(o, {})
    BY <1>1, <2>1, StillIsThen
  <2>3. QED
    BY <1>2, <1>3, <2>2, FrozenForIs
<1>5. \A id \in OrdersOf(u, a) : StillFrozen(id) \in Int /\ StillFrozen(id)' = StillFrozen(id)
  <2>1. ASSUME NEW id \in OrdersOf(u, a) PROVE StillFrozen(id) \in Int /\ StillFrozen(id)' = StillFrozen(id)
    <3>1. SettledOf(id)' = SettledOf(id) /\ id \in DOMAIN orders
      BY DEF SettledOf, Places, OrdersOf
    <3>2. orders'[id].status \in Ended <=> orders[id].status \in Ended
      BY <1>1, <3>1
    <3>3. StillFrozen(id)' = StillFrozen(id)
      BY <1>1, <3>1, <3>2, StillSame
    <3>4. StillFrozen(id) \in Nat
      BY StillNat
    <3>5. QED
      BY <3>3, <3>4
  <2>2. QED
    BY <2>1
<1>6. FrozenBy(account, account', o.user, Paid(o.side), l)
  BY <1>3, LockFrozen DEF Places, Types
<1>7. account'[u][a].frozen = Needed(u, a)'
  <2>1. /\ OrdersOf(u, a)' = IF o.user = u /\ o.side = SideOf(a) THEN OrdersOf(u, a) \cup {k}
                                                              ELSE OrdersOf(u, a)
        /\ OrdersOf(u, a) \subseteq DOMAIN orders
    BY <1>1 DEF OrdersOf
  <2>2. account[u][a].frozen = Needed(u, a) /\ account[u][a].frozen \in Nat
    BY DEF FrozenAgrees, Needed, Types, Accounts
  <2>3. o.side = SideOf(a) <=> a = Paid(o.side)
    BY <1>2, RowFields DEF SideOf, Paid, Assets
  <2>4. CASE o.user = u /\ a = Paid(o.side)
    <3>1. OrdersOf(u, a)' = OrdersOf(u, a) \cup {k} /\ k \notin OrdersOf(u, a)
      BY <1>1, <2>1, <2>3, <2>4
    <3>2. \A id \in OrdersOf(u, a) : StillFrozen(id) \in Int /\ StillFrozen(id)' = StillFrozen(id)
      BY <1>5, <2>1
    <3>3. StillFrozen(k)' \in Int
      BY <1>4
    <3>4. Needed(u, a)' = Needed(u, a) + StillFrozen(k)'
      BY <3>1, <3>2, <3>3, NeededMore
    <3>5. account'[u][a].frozen = account[u][a].frozen + l
      BY <1>6, <2>4 DEF FrozenBy
    <3>6. QED
      BY <1>4, <2>2, <3>4, <3>5
  <2>5. CASE ~(o.user = u /\ a = Paid(o.side))
    <3>1. OrdersOf(u, a)' = OrdersOf(u, a)
      BY <2>1, <2>3, <2>5
    <3>2. \A id \in OrdersOf(u, a) : StillFrozen(id)' = StillFrozen(id)
      BY <1>5, <2>1
    <3>3. Needed(u, a)' = Needed(u, a)
      BY <3>1, <3>2, NeededSame
    <3>4. account'[u][a].frozen = account[u][a].frozen + 0
      BY <1>6, <2>5 DEF FrozenBy
    <3>5. QED
      BY <2>2, <3>3, <3>4
  <2>6. QED
    BY <2>4, <2>5
<1>8. QED
  BY <1>7 DEF FrozenAgrees, Needed

LEMMA PlaceStep ==
    ASSUME AllInv, Types', Room', NEW o, NEW k, Places(o, k), UNCHANGED <<processed, mPos>>
    PROVE  AllInv'
<1>1. Types /\ ShardInv /\ ReadInv /\ Commands /\ CoreInv /\ TellInv /\ SeenKnown
  BY DEF AllInv, ShardInv
<1>2. /\ Grows /\ DOMAIN orders' = DOMAIN orders \cup {k} /\ k \notin DOMAIN orders
      /\ orders'[k] = o /\ (\A i \in DOMAIN orders : orders'[i] = orders[i])
      /\ KeepsFunds /\ Quiet /\ TopicsGrow /\ Published' = Published
  BY <1>1, PlacedRows
<1>3. /\ UNCHANGED <<trades, pos, seen, book, batch, matchEvents, tradeEvents>>
      /\ cmds' = Append(cmds, [kind |-> "New", id |-> k])
  BY DEF Places
<1>4. pos \in Nat /\ \A p \in 1..pos : cmds'[p] = cmds[p]
  <2>1. pos \in Nat /\ Len(cmds) \in Nat /\ pos <= Len(cmds)
    BY <1>1 DEF Types, Commands
  <2>2. \A p \in 1..Len(cmds) : cmds'[p] = cmds[p]
    BY <1>1, <1>3, CommandWritten
  <2>3. \A p \in 1..pos : p \in 1..Len(cmds)
    BY <2>1
  <2>4. QED
    BY <2>1, <2>2, <2>3
<1>5. CoreInv' /\ TellInv'
  BY <1>1, <1>2, <1>3, <1>4, CoreKept, TellKept
<1>6. Commands'
  BY <1>1, <1>2, <1>3, NewCommand
<1>7. ReadInv'
  BY <1>1, <1>2, <1>3, ReadKept
<1>8. SeenKnown'
  BY <1>1, <1>2, <1>3 DEF SeenKnown
<1>9. ASSUME NEW u \in Users, NEW a \in Assets, Regular(u, a), EndsByTrade(u, a), FrozenAgrees(u, a)
      PROVE  EndsByTrade(u, a)' /\ FrozenAgrees(u, a)'
  <2>1. \A tr \in Published : \A id \in Sides(tr) : id \in DOMAIN orders
    BY <1>1, MadeGood DEF Made
  <2>2. EndsByTrade(u, a)'
    BY <1>2, <1>9, <2>1 DEF EndsByTrade, OrdersOf
  <2>3. FrozenAgrees(u, a)'
    BY <1>1, <1>9, PlacedFrozen
  <2>4. QED
    BY <2>2, <2>3
<1>10. ShardInv'
  BY <1>5, <1>6 DEF ShardInv
<1>11. seen \subseteq seen'
  BY <1>3
<1>12. QED
  BY <1>2, <1>7, <1>8, <1>9, <1>10, <1>11, FrozenFollows

LEMMA InsertPendingFreeze ==
    ASSUME AllInv, Types', NEW req \in Request, InsertPending(req)
    PROVE  AllInv'
<1>1. /\ UNCHANGED <<trades, pos, seen, book, batch, matchEvents, tradeEvents>>
      /\ UNCHANGED <<processed, mPos>>
      /\ req \in inflight /\ inflight' = inflight \ {req}
  BY DEF InsertPending, shard, topics
<1>2. PICK i \in Nat, n \in Nat : /\ i = Cardinality(inflight) /\ n = Len(orders)
                                  /\ IsFiniteSet(inflight) /\ i + n <= MaxOrders
  <2>1. IsFiniteSet(inflight) /\ Cardinality(inflight) + Len(orders) <= MaxOrders
    BY DEF AllInv, ShardInv, Room
  <2>2. Len(orders) \in Nat
    BY DEF AllInv, Types
  <2>3. Cardinality(inflight) \in Nat
    BY <2>1, FS_CardinalityType
  <2>4. QED
    BY <2>1, <2>2, <2>3
<1>3. IsFiniteSet(inflight') /\ Cardinality(inflight') = i - 1
  BY <1>1, <1>2, FS_RemoveElement
<1>4. MaxOrders \in Nat
  BY SettlementAssumption
<1>5. PICK o : o = NewOrder(req)
  OBVIOUS
<1>6. CASE UNCHANGED <<orders, account, cmds>>
  <2>1. Room'
    <3>1. Cardinality(inflight') + Len(orders') <= MaxOrders
      BY <1>2, <1>3, <1>4, <1>6
    <3>2. QED
      BY <1>3, <3>1 DEF Room
  <2>2. ReadInv'
    BY <1>1, <1>6, ReadSame DEF AllInv
  <2>3. QED
    BY <1>1, <1>6, <2>1, <2>2, IdleStep
<1>7. CASE ~UNCHANGED <<orders, account, cmds>>
  <2>1. /\ account[o.user][Paid(o.side)].free >= Locked(o)
        /\ orders' = Append(orders, o)
        /\ account' = Lock(account, o)
        /\ cmds' = Append(cmds, [kind |-> "New", id |-> Len(orders) + 1])
    BY <1>5, <1>7 DEF InsertPending
  <2>2. o \in Row
    BY <1>1, <1>5, NewOrderRow DEF AllInv, Types, Valid
  <2>3. o.filled = 0 /\ o.status = "PENDING"
    BY <1>5 DEF NewOrder
  <2>4. Places(o, Len(orders) + 1)
    BY <1>1, <2>1, <2>2, <2>3 DEF Places
  <2>5. Room'
    <3>1. orders \in Seq(Row)
      BY DEF AllInv, Types
    <3>2. Len(orders') = n + 1
      BY <1>2, <2>1, <2>2, <3>1
    <3>3. Cardinality(inflight') + Len(orders') <= MaxOrders
      BY <1>2, <1>3, <1>4, <3>2
    <3>4. QED
      BY <1>3, <3>3 DEF Room
  <2>6. QED
    BY <1>1, <2>4, <2>5, PlaceStep
<1>8. QED
  BY <1>6, <1>7

-----------------------------------------------------------------------------
(* A cancel is asked for, again perhaps, or an order is rejected; and the  *)
(* steps of the shard.                                                     *)

(* A status changes and a command is written.                              *)
Asks(y, s) ==
    /\ y \in DOMAIN orders /\ s \in Status
    /\ orders' = [orders EXCEPT ![y].status = s]
    /\ cmds' = Append(cmds, [kind |-> "Cancel", id |-> y])
    /\ UNCHANGED <<inflight, trades, processed, pos, seen, book, batch, matchEvents, tradeEvents, mPos>>

LEMMA AskedRows ==
    ASSUME Types, NEW y, NEW s, Asks(y, s)
    PROVE  /\ Grows /\ DOMAIN orders' = DOMAIN orders /\ Len(orders') = Len(orders)
           /\ \A i \in DOMAIN orders : i # y => orders'[i] = orders[i]
           /\ \A i \in DOMAIN orders : SameFunds(orders[i], orders'[i])
                                       /\ orders'[i].filled = orders[i].filled
           /\ orders'[y].status = s
<1>1. orders \in Seq(Row) /\ y \in DOMAIN orders /\ s \in Status
      /\ orders' = [orders EXCEPT ![y].status = s]
  BY DEF Types, Asks
<1>2. Grows /\ orders' \in Seq(Row) /\ DOMAIN orders' = DOMAIN orders
  BY <1>1, StatusReplaced
<1>3. Len(orders') = Len(orders)
  BY <1>1, <1>2
<1>4. PICK o : o = orders[y]
  OBVIOUS
<1>5. orders'[y] = [o EXCEPT !.status = s] /\ o \in Row
  BY <1>1, <1>4
<1>6. orders'[y].status = s /\ SameFunds(o, orders'[y]) /\ orders'[y].filled = o.filled
  BY <1>5 DEF Row, SameFunds, SameOrder
<1>7. \A i \in DOMAIN orders : i # y => orders'[i] = orders[i]
  BY <1>1
<1>8. \A i \in DOMAIN orders : SameFunds(orders[i], orders[i])
  BY DEF SameFunds, SameOrder
<1>9. ASSUME NEW i \in DOMAIN orders
      PROVE  SameFunds(orders[i], orders'[i]) /\ orders'[i].filled = orders[i].filled
  <2>1. CASE i = y
    BY <1>4, <1>6, <2>1
  <2>2. CASE i # y
    BY <1>7, <1>8, <2>2
  <2>3. QED
    BY <2>1, <2>2
<1>10. QED
  BY <1>2, <1>3, <1>6, <1>7, <1>9

LEMMA AskStep ==
    ASSUME AllInv, Types', NEW y, NEW s, Asks(y, s), s # "CANCELED",
           orders[y].status # "REJECTED", orders[y].status \in Terminal => s \in Terminal,
           \A u \in Users, a \in Assets :
              Regular(u, a) /\ EndsByTrade(u, a) /\ FrozenAgrees(u, a) /\ Regular(u, a)' /\ CoreInv'
                 /\ ReadInv' /\ KeepsFunds
                 => EndsByTrade(u, a)' /\ FrozenAgrees(u, a)'
    PROVE  AllInv'
<1>1. Types /\ ShardInv /\ ReadInv /\ Room /\ Commands /\ CoreInv /\ TellInv /\ SeenKnown
  BY DEF AllInv, ShardInv
<1>2. /\ y \in DOMAIN orders /\ cmds' = Append(cmds, [kind |-> "Cancel", id |-> y])
      /\ UNCHANGED <<inflight, trades, processed, pos, seen, book, batch, matchEvents, tradeEvents, mPos>>
  BY DEF Asks
<1>3. /\ Grows /\ DOMAIN orders' = DOMAIN orders /\ Len(orders') = Len(orders)
      /\ \A i \in DOMAIN orders : i # y => orders'[i] = orders[i]
      /\ \A i \in DOMAIN orders : SameFunds(orders[i], orders'[i])
                                  /\ orders'[i].filled = orders[i].filled
      /\ orders'[y].status = s
  BY <1>1, AskedRows
<1>4. KeepsFunds
  BY <1>3 DEF KeepsFunds
<1>5. Quiet
  BY <1>3 DEF Quiet
<1>6. TopicsGrow
  BY <1>2, TopicsSame
<1>7. Room'
  BY <1>1, <1>2, <1>3, RoomSame
<1>8. Commands'
  BY <1>1, <1>2, <1>3, CancelCommand
<1>9. pos \in Nat /\ \A p \in 1..pos : cmds'[p] = cmds[p]
  <2>1. pos \in Nat /\ Len(cmds) \in Nat /\ pos <= Len(cmds)
    BY <1>1 DEF Types, Commands
  <2>2. \A p \in 1..Len(cmds) : cmds'[p] = cmds[p]
    BY <1>1, <1>2, CommandWritten
  <2>3. \A p \in 1..pos : p \in 1..Len(cmds)
    BY <2>1
  <2>4. QED
    BY <2>1, <2>2, <2>3
<1>10. CoreInv' /\ TellInv'
  BY <1>1, <1>2, <1>3, <1>9, CoreKept, TellKept
<1>11. ShardInv'
  BY <1>7, <1>8, <1>10 DEF ShardInv
<1>12. ReadInv'
  BY <1>1, <1>2, <1>5, <1>6, ReadKept
<1>13. SeenKnown'
  BY <1>1, <1>2, <1>3 DEF SeenKnown
<1>14. seen \subseteq seen'
  BY <1>2
<1>15. QED
  BY <1>4, <1>6, <1>10, <1>11, <1>12, <1>13, <1>14, FrozenFollows

(* The ends of the orders stay, and so does what is frozen.                *)
LEMMA NothingReleased ==
    ASSUME Types, NEW y, NEW s, Asks(y, s), KeepsFunds, NEW u \in Users, NEW a \in Assets,
           EndsByTrade(u, a), FrozenAgrees(u, a),
           account' = account, s \notin Ended, orders[y].status \notin Ended
    PROVE  EndsByTrade(u, a)' /\ FrozenAgrees(u, a)'
<1>1. /\ DOMAIN orders' = DOMAIN orders /\ \A i \in DOMAIN orders : i # y => orders'[i] = orders[i]
      /\ orders'[y].status = s
  BY AskedRows
<1>2. SameEnds(u, a)
  BY <1>1 DEF SameEnds, OrdersOf
<1>3. Published' = Published /\ trades' = trades
  BY DEF Asks, Published
<1>4. \A id \in OrdersOf(u, a) : SettledOf(id)' = SettledOf(id)
  BY <1>3 DEF SettledOf
<1>5. QED
  BY <1>1, <1>2, <1>3, <1>4, EndsKept, FreezeKept

LEMMA BeginCancelFreeze ==
    ASSUME AllInv, Types', NEW y \in DOMAIN orders, BeginCancel(y)
    PROVE  AllInv'
<1>1. /\ orders' = [orders EXCEPT ![y].status = "CANCELING"] /\ InsertCancelOutbox(y)
      /\ UNCHANGED <<account, trades, processed, requests, pos, shard, topics, mPos>>
      /\ orders[y].status # "CANCELING" /\ CanTransition(orders[y].status, "CANCELING")
  BY DEF BeginCancel
<1>2. "CANCELING" \in Status /\ "CANCELING" \notin Ended
  BY DEF Status, Ended
<1>3. Asks(y, "CANCELING")
  BY <1>1, <1>2 DEF Asks, InsertCancelOutbox, requests, shard, topics
<1>4. orders[y].status \notin Terminal
  BY <1>1 DEF CanTransition, AllowedFromStatuses, Terminal
<1>5. orders[y].status \notin Ended /\ orders[y].status # "REJECTED"
  BY <1>4 DEF Terminal, Ended
<1>6. ASSUME NEW u \in Users, NEW a \in Assets, EndsByTrade(u, a), FrozenAgrees(u, a), KeepsFunds
      PROVE  EndsByTrade(u, a)' /\ FrozenAgrees(u, a)'
  BY <1>1, <1>2, <1>3, <1>5, <1>6, NothingReleased DEF AllInv
<1>7. QED
  BY <1>3, <1>4, <1>5, <1>6, AskStep

LEMMA ResendCancelFreeze ==
    ASSUME AllInv, Types', NEW y \in DOMAIN orders, ResendCancel(y)
    PROVE  AllInv'
<1>1. /\ orders' = orders /\ InsertCancelOutbox(y)
      /\ UNCHANGED <<account, trades, processed, requests, pos, shard, topics, mPos>>
      /\ orders[y].status = "CANCELING"
  BY DEF ResendCancel
<1>2. "CANCELING" \in Status /\ "CANCELING" \notin Ended
  BY DEF Status, Ended
<1>a. orders' = [orders EXCEPT ![y].status = "CANCELING"]
  <2>1. orders \in Seq(Row) /\ orders[y] \in Row
    BY DEF AllInv, Types
  <2>2. [orders[y] EXCEPT !.status = "CANCELING"] = orders[y]
    BY <1>1, <2>1 DEF Row
  <2>3. [orders EXCEPT ![y] = orders[y]] = orders
    BY <2>1
  <2>4. QED
    BY <1>1, <2>2, <2>3
<1>3. Asks(y, "CANCELING")
  BY <1>1, <1>2, <1>a DEF Asks, InsertCancelOutbox, requests, shard, topics
<1>4. orders[y].status \notin Terminal /\ orders[y].status \notin Ended /\ orders[y].status # "REJECTED"
  BY <1>1 DEF Terminal, Ended
<1>5. ASSUME NEW u \in Users, NEW a \in Assets, EndsByTrade(u, a), FrozenAgrees(u, a), KeepsFunds
      PROVE  EndsByTrade(u, a)' /\ FrozenAgrees(u, a)'
  BY <1>1, <1>2, <1>3, <1>4, <1>5, NothingReleased DEF AllInv
<1>6. QED
  BY <1>3, <1>4, <1>5, AskStep

(* An order that is rejected and does not reach the shard has not traded.  *)
LEMMA RejectFreeze ==
    ASSUME AllInv, Types', NEW y \in DOMAIN orders, RejectStalePending(y)
    PROVE  AllInv'
<1>1. /\ orders' = [orders EXCEPT ![y].status = "REJECTED"] /\ InsertCancelOutbox(y)
      /\ account' = ReleaseOrderRemainingFreeze(account, orders[y])
      /\ UNCHANGED <<trades, processed, requests, pos, shard, topics, mPos>>
      /\ orders[y].status = "PENDING"
  BY DEF RejectStalePending
<1>2. "REJECTED" \in Status /\ "REJECTED" \in Ended /\ "REJECTED" \in Terminal
  BY DEF Status, Ended, Terminal
<1>3. Asks(y, "REJECTED")
  BY <1>1, <1>2 DEF Asks, InsertCancelOutbox, requests, shard, topics
<1>4. orders[y].status \notin Ended /\ orders[y].status # "REJECTED"
  BY <1>1 DEF Ended
<1>5. ASSUME NEW u \in Users, NEW a \in Assets, Regular(u, a), Regular(u, a)',
             EndsByTrade(u, a), FrozenAgrees(u, a), CoreInv', ReadInv', KeepsFunds
      PROVE  EndsByTrade(u, a)' /\ FrozenAgrees(u, a)'
  <2>1. Types /\ CoreInv /\ ReadInv
    BY DEF AllInv, ShardInv
  <2>2. /\ DOMAIN orders' = DOMAIN orders /\ \A i \in DOMAIN orders : i # y => orders'[i] = orders[i]
        /\ orders'[y].status = "REJECTED"
    BY <1>3, <2>1, AskedRows
  <2>p. Published' = Published /\ trades' = trades /\ seen' = seen
    BY <1>3 DEF Asks, Published
  <2>o. OrdersOf(u, a)' = OrdersOf(u, a)
    BY <1>5, <2>1, <2>2, SameAccounts
  <2>a. CASE y \in OrdersOf(u, a)
    <3>1. y \notin seen
      BY <1>5, <2>2, <2>o, <2>p, <2>a DEF Regular
    <3>2. \A tr \in Published : y \notin Sides(tr)
      BY <1>5, <2>1, <2>a, <3>1, RegularTrade
    <3>3. orders[y].filled = 0
      <4>1. orders[y].filled \in Nat
        BY <2>1, RowFields DEF Types
      <4>2. ~(orders[y].filled > 0)
        BY <2>1, <3>2 DEF ReadInv, ReadTrades
      <4>3. QED
        BY <4>1, <4>2
    <3>4. FrozenAgrees(u, a)'
      <4>1. orders[y] \in Row /\ SameFunds(orders[y], orders[y])
        BY <2>1 DEF Types, SameFunds, SameOrder
      <4>2. orders'[y].status \in Ended /\ \A i \in DOMAIN orders \ {y} : orders'[i] = orders[i]
        BY <1>2, <2>2
      <4>3. QED
        BY <1>1, <1>4, <1>5, <2>1, <2>2, <2>p, <2>a, <3>2, <3>3, <4>1, <4>2, AllReleased
    <3>5. EndsByTrade(u, a)'
      <4>1. \A tr \in Published : \A id \in Sides(tr) \cap OrdersOf(u, a) : id \in DOMAIN orders /\ id # y
        BY <3>2 DEF OrdersOf
      <4>2. QED
        BY <1>5, <2>2, <2>p, <2>o, <4>1 DEF EndsByTrade
    <3>6. QED
      BY <3>4, <3>5
  <2>b. CASE y \notin OrdersOf(u, a)
    <3>1. SameEnds(u, a)
      BY <2>2, <2>b DEF SameEnds, OrdersOf
    <3>2. account'[u][a].frozen = account[u][a].frozen
      <4>1. ~(u = orders[y].user /\ a = Paid(orders[y].side))
        BY <2>1, <2>b, OneAccount
      <4>2. account \in Accounts
        BY <2>1 DEF Types
      <4>3. QED
        BY <1>1, <4>1, <4>2, ReleasedElsewhere
    <3>3. \A id \in OrdersOf(u, a) : SettledOf(id)' = SettledOf(id)
      BY <2>p DEF SettledOf
    <3>4. QED
      BY <1>5, <2>1, <2>2, <2>p, <3>1, <3>2, <3>3, EndsKept, FreezeKept
  <2>8. QED
    BY <2>a, <2>b
<1>6. QED
  BY <1>2, <1>3, <1>4, <1>5, AskStep

-----------------------------------------------------------------------------
LEMMA MatchFreeze ==
    ASSUME AllInv, Types', Match
    PROVE  AllInv'
<1>1. /\ UNCHANGED <<orders, account, trades, processed, inflight, cmds, matchEvents, tradeEvents, mPos>>
      /\ pos < Len(cmds)
  BY DEF Match, requests, topics
<1>2. Types /\ ShardInv /\ ReadInv /\ Room /\ Commands /\ CoreInv /\ TellInv /\ SeenKnown
  BY DEF AllInv, ShardInv
<1>3. /\ KeepsFunds /\ TopicsGrow /\ Grows /\ Published' = Published
      /\ \A u \in Users, a \in Assets : SameEnds(u, a)
  BY <1>1, <1>2, NothingNew
<1>4. CoreInv' /\ Commands' /\ TellInv'
  BY <1>1, <1>2, <1>3, MatchCore, TellKept
<1>5. ShardInv'
  BY <1>1, <1>2, <1>4, RoomSame DEF ShardInv
<1>6. ReadInv'
  BY <1>1, <1>2, ReadSame
<1>7. SeenKnown' /\ seen \subseteq seen'
  <2>1. PICK cmd : cmd = cmds[pos + 1]
    OBVIOUS
  <2>2. cmd \in Command
    <3>1. cmds \in Seq(Command) /\ pos \in Nat
      BY <1>2 DEF Types
    <3>2. pos + 1 \in 1..Len(cmds)
      BY <1>1, <3>1
    <3>3. QED
      BY <2>1, <3>1, <3>2
  <2>3. seen' = seen \/ seen' = seen \cup {cmd.id}
    BY <2>1 DEF Match, ApplyNewOrder, ApplyCancel
  <2>4. cmd.id \in DOMAIN orders
    BY <2>2 DEF Command
  <2>5. QED
    BY <1>1, <1>2, <2>3, <2>4 DEF SeenKnown
<1>8. ASSUME NEW u \in Users, NEW a \in Assets, EndsByTrade(u, a), FrozenAgrees(u, a)
      PROVE  EndsByTrade(u, a)' /\ FrozenAgrees(u, a)'
  <2>1. \A id \in OrdersOf(u, a) : SettledOf(id)' = SettledOf(id)
    BY <1>1 DEF SettledOf
  <2>2. QED
    BY <1>1, <1>2, <1>3, <1>8, <2>1, EndsKept, FreezeKept
<1>9. QED
  BY <1>3, <1>5, <1>6, <1>7, <1>8, FrozenFollows

(* A trade that is written now is one of no order that ended.              *)
LEMMA PublishFreeze ==
    ASSUME AllInv, Types', Publish
    PROVE  AllInv'
<1>1. /\ UNCHANGED <<orders, account, trades, processed, inflight, cmds, pos, seen, book, mPos>>
  BY DEF Publish, requests
<1>2. Types /\ ShardInv /\ ReadInv /\ Room /\ Commands /\ CoreInv /\ TellInv /\ SeenKnown
  BY DEF AllInv, ShardInv
<1>3. KeepsFunds /\ Quiet /\ \A u \in Users, a \in Assets : SameEnds(u, a)
  BY <1>1 DEF KeepsFunds, SameFunds, SameOrder, Quiet, SameEnds
<1>4. Published' = Published \cup Matched
  BY <1>2, EventsPlaced
<1>5. TopicsGrow
  <2>1. PICK b, evs : Placed(b, evs, Len(matchEvents))
    BY <1>2, EventsPlaced
  <2>2. \A i \in DOMAIN matchEvents : i \in DOMAIN matchEvents' /\ matchEvents'[i] = matchEvents[i]
    BY <2>1 DEF Placed
  <2>3. \A i \in DOMAIN tradeEvents : i \in DOMAIN tradeEvents' /\ tradeEvents'[i] = tradeEvents[i]
    <3>1. PICK trs : trs = [i \in DOMAIN batch |-> batch[i].trades]
      OBVIOUS
    <3>2. trs \in Seq(Seq(GoodTrade))
      <4>1. PICK n \in Nat : DOMAIN batch = 1..n
        BY <1>2 DEF Types
      <4>a. \A i \in 1..n : batch[i] \in Outcome
        BY <1>2, <4>1 DEF Types
      <4>2. \A i \in 1..n : batch[i].trades \in Seq(GoodTrade)
        BY <4>a DEF Outcome
      <4>3. trs \in [1..n -> Seq(GoodTrade)]
        BY <3>1, <4>1, <4>2
      <4>4. QED
        BY <4>3
    <3>3. PICK F \in Seq(GoodTrade) : F = FlattenSeq(trs)
      BY <3>2, FlatSeq
    <3>4. tradeEvents \in Seq(GoodTrade) /\ tradeEvents' = tradeEvents \o F
      BY <1>2, <3>1, <3>3 DEF Types, Publish
    <3>5. PICK m \in Nat, n \in Nat : m = Len(tradeEvents) /\ n = Len(F)
      BY <3>4
    <3>6. /\ DOMAIN tradeEvents = 1..m /\ DOMAIN tradeEvents' = 1..(m + n)
          /\ \A i \in 1..m : tradeEvents'[i] = tradeEvents[i]
      BY <3>4, <3>5
    <3>7. \A i \in 1..m : i \in 1..(m + n)
      OBVIOUS
    <3>8. QED
      BY <3>6, <3>7
  <2>4. QED
    BY <1>4, <2>2, <2>3 DEF TopicsGrow
<1>6. CoreInv' /\ TellInv'
  BY <1>2, PublishCore, PublishTell
<1>7. Room' /\ Commands'
  BY <1>1, <1>2, RoomSame DEF Commands
<1>8. ShardInv'
  BY <1>6, <1>7 DEF ShardInv
<1>9. ReadInv'
  BY <1>1, <1>2, <1>3, <1>5, ReadKept
<1>10. SeenKnown' /\ seen \subseteq seen'
  BY <1>1, <1>2 DEF SeenKnown
<1>11. ASSUME NEW u \in Users, NEW a \in Assets,
              Regular(u, a), EndsByTrade(u, a), FrozenAgrees(u, a), Regular(u, a)'
       PROVE  EndsByTrade(u, a)' /\ FrozenAgrees(u, a)'
  <2>1. FrozenAgrees(u, a)'
    <3>1. \A id \in OrdersOf(u, a) : SettledOf(id)' = SettledOf(id)
      BY <1>1 DEF SettledOf
    <3>2. QED
      BY <1>1, <1>2, <1>3, <1>11, <3>1, FreezeKept
  <2>2. ASSUME NEW tr \in Matched, NEW id \in Sides(tr) \cap OrdersOf(u, a)
        PROVE  orders[id].status \notin {"CANCELED", "REJECTED"}
    <3>1. id \in seen /\ id \in DOMAIN orders
      <4>1. tr \in Made
        BY <2>2 DEF Made
      <4>2. QED
        BY <1>2, <2>2, <4>1, MadeGood DEF CoreInv, Traded
    <3>2. orders[id].status # "REJECTED"
      BY <1>11, <2>2, <3>1 DEF Regular
    <3>3. ASSUME orders[id].status = "CANCELED" PROVE FALSE
      <4>1. PICK ev \in processed : IsCanceled(ev, id)
        BY <1>2, <3>1, <3>3 DEF ReadInv, ReadMatches
      <4>2. ev \in ToSet(matchEvents)
        BY <1>2, <4>1 DEF ReadInv, ReadMatches
      <4>3. PICK k \in DOMAIN matchEvents : ev = matchEvents[k]
        BY <4>2 DEF ToSet
      <4>4. id \notin Sides(tr)
        BY <1>2, <2>2, <4>1, <4>3 DEF CoreInv, NoTradeAfter, IsCanceled
      <4>5. QED
        BY <2>2, <4>4
    <3>4. QED
      BY <3>2, <3>3
  <2>3. EndsByTrade(u, a)'
    <3>1. OrdersOf(u, a)' = OrdersOf(u, a)
      BY <1>1 DEF OrdersOf
    <3>2. QED
      BY <1>1, <1>4, <1>11, <2>2, <3>1 DEF EndsByTrade
  <2>4. QED
    BY <2>1, <2>3
<1>12. QED
  BY <1>3, <1>5, <1>8, <1>9, <1>10, <1>11, FrozenFollows

-----------------------------------------------------------------------------
(* The consumers.                                                          *)

(* A step of a consumer: the shard is left alone.                          *)
LEMMA ConsumerStep ==
    ASSUME AllInv, Types', ReadInv', Grows, KeepsFunds,
           DOMAIN orders' = DOMAIN orders, Len(orders') = Len(orders),
           UNCHANGED <<inflight, cmds, pos, seen, book, batch, matchEvents, tradeEvents>>,
           \A u \in Users, a \in Assets :
              Regular(u, a) /\ EndsByTrade(u, a) /\ FrozenAgrees(u, a) /\ Regular(u, a)' /\ CoreInv'
                 => EndsByTrade(u, a)' /\ FrozenAgrees(u, a)'
    PROVE  AllInv'
<1>1. Types /\ ShardInv /\ Room /\ Commands /\ CoreInv /\ TellInv /\ SeenKnown
  BY DEF AllInv, ShardInv
<1>2. pos \in Nat /\ \A p \in 1..pos : cmds'[p] = cmds[p]
  BY <1>1 DEF Types
<1>3. CoreInv' /\ TellInv'
  BY <1>1, <1>2, CoreKept, TellKept
<1>4. Room' /\ Commands'
  BY <1>1, RoomSame DEF Commands
<1>5. ShardInv' /\ SeenKnown'
  BY <1>1, <1>3, <1>4 DEF ShardInv, SeenKnown
<1>6. TopicsGrow /\ seen \subseteq seen'
  BY TopicsSame
<1>7. QED
  BY <1>3, <1>5, <1>6, FrozenFollows

(* The event that is read, with the row it is about and the one it makes.  *)
Reads(ev, o, next) ==
    /\ mPos < Len(matchEvents) /\ mPos' = mPos + 1 /\ ev = matchEvents[mPos + 1]
    /\ ev \in GoodEvent /\ o = orders[ev.id] /\ o \in Row /\ next \in Row
    /\ next = WithFilled([o EXCEPT !.status = ev.type], ev.filled)
    /\ SameFunds(o, next) /\ next.status = ev.type
    /\ next.filled = IF ev.filled = NoFill THEN o.filled ELSE ev.filled
    /\ processed' = processed \cup {ev}
    /\ UNCHANGED <<inflight, trades, cmds, pos, seen, book, batch, matchEvents, tradeEvents>>

LEMMA NextRead ==
    ASSUME Types, ApplyMatchEvent
    PROVE  \E ev, o, next : Reads(ev, o, next)
<1>1. /\ UNCHANGED <<inflight, trades, cmds, pos, seen, book, batch, matchEvents, tradeEvents>>
      /\ mPos < Len(matchEvents) /\ mPos' = mPos + 1 /\ processed' = processed \cup {NextMatchEvent}
  BY DEF ApplyMatchEvent, requests, shard, topics
<1>2. PICK ev, o, next : /\ ev = NextMatchEvent /\ o = orders[ev.id]
                         /\ next = WithFilled([o EXCEPT !.status = ev.type], ev.filled)
  OBVIOUS
<1>3. ev \in GoodEvent
  <2>1. matchEvents \in Seq(GoodEvent) /\ mPos \in Nat
    BY DEF Types
  <2>2. mPos + 1 \in 1..Len(matchEvents)
    BY <1>1, <2>1
  <2>3. QED
    BY <1>2, <2>1, <2>2 DEF NextMatchEvent
<1>4. /\ ev.id \in DOMAIN orders /\ ev.type \in Status /\ ev.filled \in Nat \cup {NoFill}
      /\ ev.filled <= o.qty /\ o \in Row
  BY <1>2, <1>3 DEF GoodEvent, Types, Status
<1>5. PICK mid : mid = [o EXCEPT !.status = ev.type]
  OBVIOUS
<1>6. mid \in Row /\ SameFunds(o, mid) /\ mid.status = ev.type /\ mid.filled = o.filled
  BY <1>4, <1>5 DEF Row, SameFunds, SameOrder
<1>7. /\ next \in Row /\ SameFunds(o, next) /\ next.status = ev.type
      /\ next.filled = IF ev.filled = NoFill THEN o.filled ELSE ev.filled
  <2>1. CASE ev.filled = NoFill
    BY <1>2, <1>5, <1>6, <2>1 DEF WithFilled
  <2>2. CASE ev.filled # NoFill
    <3>1. next = [mid EXCEPT !.filled = ev.filled] /\ ev.filled \in Nat /\ ev.filled <= mid.qty
      BY <1>2, <1>4, <1>5, <1>6, <2>2 DEF WithFilled, SameFunds, SameOrder
    <3>2. QED
      BY <1>6, <2>2, <3>1 DEF Row, SameFunds, SameOrder
  <2>3. QED
    BY <2>1, <2>2
<1>8. QED
  BY <1>1, <1>2, <1>3, <1>4, <1>7 DEF Reads, NextMatchEvent

(* What the event is, and what was read before it.                         *)
LEMMA ReadFacts ==
    ASSUME Types, ReadInv, NEW ev, NEW o, NEW next, Reads(ev, o, next)
    PROVE  /\ mPos \in Nat /\ mPos + 1 \in DOMAIN matchEvents /\ ev = matchEvents[mPos + 1]
           /\ ev \in ToSet(matchEvents)
           /\ \A i \in 1..mPos : matchEvents[i] \in processed
           /\ ev.id \in DOMAIN orders /\ ev.type \in EventType /\ ev.filled \in Nat \cup {NoFill}
           /\ mPos' <= Len(matchEvents') /\ processed' \subseteq ToSet(matchEvents')
           /\ \A i \in 1..mPos' : matchEvents'[i] \in processed'
<1>1. /\ mPos \in Nat /\ mPos < Len(matchEvents) /\ mPos' = mPos + 1 /\ ev = matchEvents[mPos + 1]
      /\ ev \in GoodEvent /\ processed' = processed \cup {ev} /\ matchEvents' = matchEvents
  BY DEF Types, Reads
<1>2. DOMAIN matchEvents = 1..Len(matchEvents) /\ Len(matchEvents) \in Nat
  BY EventFields
<1>3. mPos + 1 \in DOMAIN matchEvents
  BY <1>1, <1>2
<1>4. ev \in ToSet(matchEvents)
  BY <1>1, <1>3 DEF ToSet
<1>5. /\ \A i \in 1..mPos : matchEvents[i] \in processed
      /\ processed \subseteq ToSet(matchEvents)
  BY DEF ReadInv, ReadMatches
<1>6. ev.id \in DOMAIN orders /\ ev.type \in EventType /\ ev.filled \in Nat \cup {NoFill}
  BY <1>1 DEF GoodEvent
<1>7. mPos' <= Len(matchEvents') /\ processed' \subseteq ToSet(matchEvents')
  BY <1>1, <1>2, <1>4, <1>5
<1>8. ASSUME NEW i \in 1..mPos' PROVE matchEvents'[i] \in processed'
  <2>1. i \in 1..mPos \/ i = mPos + 1
    BY <1>1
  <2>2. QED
    BY <1>1, <1>5, <2>1
<1>9. QED
  BY <1>1, <1>3, <1>4, <1>5, <1>6, <1>7, <1>8

(* The event is known, or its order has ended.                             *)
LEMMA ReadNothing ==
    ASSUME AllInv, Types', NEW ev, NEW o, NEW next, Reads(ev, o, next),
           ev \in processed \/ o.status \in Terminal \ {ev.type}, UNCHANGED <<orders, account>>
    PROVE  AllInv'
<1>1. Types /\ ShardInv /\ Room /\ ReadInv
  BY DEF AllInv, ShardInv
<1>2. /\ processed' = processed \cup {ev} /\ o = orders[ev.id]
      /\ UNCHANGED <<inflight, trades, cmds, pos, seen, book, batch, matchEvents, tradeEvents>>
  BY DEF Reads
<1>3. /\ mPos' <= Len(matchEvents') /\ processed' \subseteq ToSet(matchEvents')
      /\ \A i \in 1..mPos' : matchEvents'[i] \in processed'
  BY <1>1, ReadFacts
<1>4. \A e \in processed' : e.type = "FILLED" => orders'[e.id].status \in Terminal
  BY <1>1, <1>2 DEF ReadInv, ReadMatches
<1>5. \A id \in DOMAIN orders' : orders'[id].status = "CANCELED" => \E e \in processed' : IsCanceled(e, id)
  BY <1>1, <1>2 DEF ReadInv, ReadMatches
<1>6. ReadMatches'
  BY <1>3, <1>4, <1>5 DEF ReadMatches, IsCanceled
<1>7. ReadTrades'
  BY <1>1, <1>2 DEF ReadInv, ReadTrades, Published
<1>8. ReadInv'
  BY <1>6, <1>7 DEF ReadInv
<1>9. Room'
  BY <1>1, <1>2, RoomSame
<1>10. QED
  BY <1>2, <1>8, <1>9, IdleStep

(* The row is replaced.                                                    *)
LEMMA ReadRows ==
    ASSUME Types, ReadInv, NEW ev, NEW o, NEW next, Reads(ev, o, next),
           orders' = [orders EXCEPT ![ev.id] = next]
    PROVE  /\ Grows /\ DOMAIN orders' = DOMAIN orders /\ Len(orders') = Len(orders)
           /\ orders'[ev.id] = next /\ orders[ev.id] = o
           /\ \A i \in DOMAIN orders : i # ev.id => orders'[i] = orders[i]
<1>1. ev.id \in DOMAIN orders
  BY ReadFacts
<1>2. o = orders[ev.id] /\ next \in Row /\ SameFunds(o, next)
  BY DEF Reads
<1>3. SameOrder(orders[ev.id], next)
  BY <1>2 DEF SameFunds
<1>4. Grows /\ orders' \in Seq(Row) /\ DOMAIN orders' = DOMAIN orders
  BY <1>1, <1>2, <1>3, RowReplaced
<1>5. orders \in Seq(Row)
  BY DEF Types
<1>6. Len(orders') = Len(orders)
  BY <1>4, <1>5
<1>7. QED
  BY <1>1, <1>2, <1>4, <1>5, <1>6

LEMMA ReadApplied ==
    ASSUME Types, CoreInv, TellInv, ReadInv, NEW ev, NEW o, NEW next, Reads(ev, o, next),
           o.status \notin Terminal \ {ev.type}, orders' = [orders EXCEPT ![ev.id] = next]
    PROVE  ReadInv'
<1>1. /\ Grows /\ DOMAIN orders' = DOMAIN orders /\ Len(orders') = Len(orders)
      /\ orders'[ev.id] = next /\ orders[ev.id] = o
      /\ \A i \in DOMAIN orders : i # ev.id => orders'[i] = orders[i]
  BY ReadRows
<1>2. /\ processed' = processed \cup {ev} /\ next.status = ev.type
      /\ next.filled = IF ev.filled = NoFill THEN o.filled ELSE ev.filled
      /\ UNCHANGED <<trades, matchEvents, tradeEvents>>
  BY DEF Reads
<1>3. /\ ev \in ToSet(matchEvents) /\ ev.id \in DOMAIN orders
      /\ mPos' <= Len(matchEvents') /\ processed' \subseteq ToSet(matchEvents')
      /\ \A i \in 1..mPos' : matchEvents'[i] \in processed'
      /\ mPos + 1 \in DOMAIN matchEvents /\ ev = matchEvents[mPos + 1]
  BY ReadFacts
<1>4. ASSUME NEW e \in processed', e.type = "FILLED" PROVE orders'[e.id].status \in Terminal
  <2>1. CASE e = ev
    BY <1>1, <1>2, <1>4, <2>1 DEF Terminal
  <2>2. CASE e # ev
    <3>1. e \in processed /\ orders[e.id].status \in Terminal
      BY <1>2, <1>4, <2>2 DEF ReadInv, ReadMatches
    <3>2. e.id \in DOMAIN orders
      BY <3>1, EventFields DEF ReadInv, ReadMatches
    <3>3. CASE e.id = ev.id
      <4>1. o.status \in Terminal /\ o.status = ev.type
        BY <1>1, <3>1, <3>3
      <4>2. QED
        BY <1>1, <1>2, <3>3, <4>1
    <3>4. CASE e.id # ev.id
      BY <1>1, <3>1, <3>2, <3>4
    <3>5. QED
      BY <3>3, <3>4
  <2>3. QED
    BY <2>1, <2>2
<1>5. ASSUME NEW id \in DOMAIN orders', orders'[id].status = "CANCELED"
      PROVE  \E e \in processed' : IsCanceled(e, id)
  <2>1. CASE id = ev.id
    BY <1>1, <1>2, <1>5, <2>1 DEF IsCanceled
  <2>2. CASE id # ev.id
    BY <1>1, <1>2, <1>5, <2>2 DEF ReadInv, ReadMatches
  <2>3. QED
    BY <2>1, <2>2
<1>6. ReadMatches'
  BY <1>3, <1>4, <1>5 DEF ReadMatches, IsCanceled
<1>7. ASSUME NEW id \in DOMAIN orders', orders'[id].filled > 0
      PROVE  \E tr \in Published : id \in Sides(tr)
  <2>1. CASE id = ev.id /\ ev.filled # NoFill
    <3>1. ev.filled > 0
      BY <1>1, <1>2, <1>7, <2>1
    <3>2. QED
      BY <1>3, <2>1, <3>1 DEF TellInv, FillTold
  <2>2. CASE id = ev.id /\ ev.filled = NoFill
    <3>1. orders[id].filled > 0
      BY <1>1, <1>2, <1>7, <2>2
    <3>2. QED
      BY <1>1, <3>1 DEF ReadInv, ReadTrades
  <2>3. CASE id # ev.id
    BY <1>1, <1>7, <2>3 DEF ReadInv, ReadTrades
  <2>4. QED
    BY <2>1, <2>2, <2>3
<1>8. ReadTrades'
  <2>1. Published' = Published
    BY <1>2 DEF Published
  <2>2. trades' \subseteq Published
    BY <1>2 DEF ReadInv, ReadTrades
  <2>3. QED
    BY <1>7, <2>1, <2>2 DEF ReadTrades
<1>9. QED
  BY <1>6, <1>8 DEF ReadInv

(* A cancel that is applied is one of an order that has not traded and     *)
(* was not cancelled before.                                               *)
LEMMA CancelApplied ==
    ASSUME Types, NEW u \in Users, NEW a \in Assets, Regular(u, a), CoreInv, TellInv, ReadInv,
           EndsByTrade(u, a), NEW ev, NEW o, NEW next, Reads(ev, o, next), ev.id \in OrdersOf(u, a),
           ev \notin processed, o.status \notin Terminal \ {ev.type}, ev.type = "CANCELED"
    PROVE  /\ o.status \notin Ended /\ next.filled = 0
           /\ \A tr \in Published : ev.id \notin Sides(tr)
<1>1. /\ mPos \in Nat /\ mPos + 1 \in DOMAIN matchEvents /\ ev = matchEvents[mPos + 1]
      /\ \A i \in 1..mPos : matchEvents[i] \in processed
      /\ ev.id \in DOMAIN orders /\ ev.filled \in Nat \cup {NoFill}
  BY ReadFacts
<1>2. o = orders[ev.id] /\ o \in Row
  BY DEF Reads
<1>3. IsCanceled(matchEvents[mPos + 1], ev.id)
  BY <1>1 DEF IsCanceled
<1>4. o.status # "CANCELED"
  <2>1. SUFFICES ASSUME o.status = "CANCELED" PROVE FALSE
    OBVIOUS
  <2>2. PICK e \in processed : IsCanceled(e, ev.id)
    BY <1>1, <1>2, <2>1 DEF ReadInv, ReadMatches
  <2>3. e \in ToSet(matchEvents)
    BY <2>2 DEF ReadInv, ReadMatches
  <2>4. PICK j \in DOMAIN matchEvents : e = matchEvents[j]
    BY <2>3 DEF ToSet
  <2>5. j = mPos + 1
    BY <1>1, <1>3, <2>2, <2>4 DEF Regular, IsCanceled
  <2>6. QED
    BY <1>1, <2>2, <2>4, <2>5
<1>5. o.status \notin Ended /\ o.status \notin Terminal
  BY <1>4 DEF Ended, Terminal
<1>6. ASSUME NEW tr \in Published, ev.id \in Sides(tr) PROVE FALSE
  <2>1. tr.qty = orders[ev.id].qty
    BY <1>6, RegularTrade
  <2>2. PICK i \in 1..((mPos + 1) - 1) : IsFilled(matchEvents[i], ev.id)
    BY <1>1, <1>3, <1>6, <2>1 DEF TellInv, FilledFirst
  <2>3. i \in 1..mPos
    BY <1>1
  <2>4. matchEvents[i] \in processed /\ matchEvents[i].type = "FILLED" /\ matchEvents[i].id = ev.id
    BY <1>1, <2>2, <2>3 DEF IsFilled
  <2>5. o.status \in Terminal
    BY <1>2, <2>4 DEF ReadInv, ReadMatches
  <2>6. QED
    BY <1>5, <2>5
<1>7. next.filled = 0
  <2>1. next.filled = IF ev.filled = NoFill THEN o.filled ELSE ev.filled
    BY DEF Reads
  <2>2. ~(o.filled > 0) /\ o.filled \in Nat
    BY <1>1, <1>2, <1>6, RowFields DEF ReadInv, ReadTrades
  <2>3. ~(ev.filled > 0)
    BY <1>1, <1>6 DEF TellInv, FillTold
  <2>4. ev.filled = NoFill \/ ev.filled = 0
    BY <1>1, <2>3
  <2>5. o.filled = 0
    BY <2>2
  <2>6. QED
    BY <2>1, <2>4, <2>5
<1>8. QED
  BY <1>5, <1>6, <1>7

LEMMA ApplyMatchEventFreeze ==
    ASSUME AllInv, Types', ApplyMatchEvent
    PROVE  AllInv'
<1>1. Types /\ ShardInv /\ ReadInv /\ CoreInv /\ TellInv
  BY DEF AllInv, ShardInv
<1>2. PICK ev, o, next : Reads(ev, o, next)
  BY <1>1, NextRead
<1>3. /\ ev = NextMatchEvent /\ o = orders[ev.id]
      /\ next = WithFilled([o EXCEPT !.status = ev.type], ev.filled)
  BY <1>2 DEF Reads, NextMatchEvent
<1>4. \/ /\ ev \in processed \/ (o.status \in Terminal \ {ev.type})
         /\ UNCHANGED <<orders, account>>
      \/ /\ ev \notin processed /\ o.status \notin Terminal \ {ev.type}
         /\ orders' = [orders EXCEPT ![ev.id] = next]
         /\ account' = IF Releases(ev.type) THEN ReleaseOrderRemainingFreeze(account, next) ELSE account
  BY <1>3, Zenon DEF ApplyMatchEvent
<1>5. CASE /\ ev \in processed \/ (o.status \in Terminal \ {ev.type})
           /\ UNCHANGED <<orders, account>>
  BY <1>2, <1>5, ReadNothing
<1>6. CASE /\ ev \notin processed /\ o.status \notin Terminal \ {ev.type}
           /\ orders' = [orders EXCEPT ![ev.id] = next]
           /\ account' = IF Releases(ev.type) THEN ReleaseOrderRemainingFreeze(account, next) ELSE account
  <2>1. /\ Grows /\ DOMAIN orders' = DOMAIN orders /\ Len(orders') = Len(orders)
        /\ orders'[ev.id] = next /\ orders[ev.id] = o
        /\ \A i \in DOMAIN orders : i # ev.id => orders'[i] = orders[i]
    BY <1>1, <1>2, <1>6, ReadRows
  <2>2. /\ UNCHANGED <<inflight, trades, cmds, pos, seen, book, batch, matchEvents, tradeEvents>>
        /\ next \in Row /\ SameFunds(o, next) /\ next.status = ev.type /\ o \in Row
    BY <1>2 DEF Reads
  <2>3. ev.id \in DOMAIN orders /\ ev.type \in EventType
    BY <1>1, <1>2, ReadFacts
  <2>4. o.status # "REJECTED"
    BY <1>6, <2>3 DEF Terminal, EventType
  <2>5. KeepsFunds
    <3>1. \A i \in DOMAIN orders : SameFunds(orders[i], orders[i])
      BY DEF SameFunds, SameOrder
    <3>2. QED
      BY <2>1, <2>2, <2>4, <3>1 DEF KeepsFunds
  <2>6. ReadInv'
    BY <1>1, <1>2, <1>6, ReadApplied
  <2>7. ASSUME NEW u \in Users, NEW a \in Assets,
               Regular(u, a), EndsByTrade(u, a), FrozenAgrees(u, a), Regular(u, a)', CoreInv'
        PROVE  EndsByTrade(u, a)' /\ FrozenAgrees(u, a)'
    <3>o. /\ OrdersOf(u, a)' = OrdersOf(u, a) /\ Published' = Published
          /\ \A id \in OrdersOf(u, a) : SettledOf(id)' = SettledOf(id)
      BY <1>1, <2>1, <2>2, <2>5, SameAccounts DEF Published, SettledOf
    <3>1. CASE ev.type = "CANCELED" /\ ev.id \in OrdersOf(u, a)
      <4>1. /\ o.status \notin Ended /\ next.filled = 0
            /\ \A tr \in Published : ev.id \notin Sides(tr)
        BY <1>1, <1>2, <1>6, <2>7, <3>1, CancelApplied
      <4>2. FrozenAgrees(u, a)'
        <5>1. account' = ReleaseOrderRemainingFreeze(account, next)
          BY <1>6, <3>1 DEF Releases
        <5>2. orders'[ev.id].status \in Ended /\ orders[ev.id].status \notin Ended
          BY <2>1, <2>2, <3>1, <4>1 DEF Ended
        <5>3. SameFunds(orders[ev.id], next) /\ \A i \in DOMAIN orders \ {ev.id} : orders'[i] = orders[i]
          BY <2>1, <2>2
        <5>4. PICK y \in OrdersOf(u, a) : y = ev.id
          BY <3>1
        <5>5. QED
          BY <1>1, <2>1, <2>2, <2>5, <2>6, <2>7, <3>o, <4>1, <5>1, <5>2, <5>3, <5>4, AllReleased
      <4>3. EndsByTrade(u, a)'
        <5>1. \A tr \in Published : \A id \in Sides(tr) \cap OrdersOf(u, a) :
                 id \in DOMAIN orders /\ id # ev.id
          BY <4>1 DEF OrdersOf
        <5>2. QED
          BY <2>1, <2>7, <3>o, <5>1 DEF EndsByTrade
      <4>4. QED
        BY <4>2, <4>3
    <3>a. CASE ev.type = "CANCELED" /\ ev.id \notin OrdersOf(u, a)
      <4>1. account' = ReleaseOrderRemainingFreeze(account, next)
        BY <1>6, <3>a DEF Releases
      <4>2. ~(u = next.user /\ a = Paid(next.side))
        <5>1. ~(u = o.user /\ a = Paid(o.side))
          BY <1>1, <2>1, <2>3, <3>a, OneAccount
        <5>2. QED
          BY <2>2, <5>1 DEF SameFunds, SameOrder
      <4>3. account'[u][a].frozen = account[u][a].frozen
        <5>1. account \in Accounts
          BY <1>1 DEF Types
        <5>2. QED
          BY <4>1, <4>2, <5>1, ReleasedElsewhere
      <4>4. SameEnds(u, a)
        BY <2>1, <3>a DEF SameEnds, OrdersOf
      <4>5. QED
        BY <1>1, <2>1, <2>5, <2>7, <3>o, <4>3, <4>4, EndsKept, FreezeKept
    <3>2. CASE ev.type # "CANCELED"
      <4>1. account' = account
        BY <1>6, <3>2 DEF Releases
      <4>2. o.status \notin Ended /\ next.status \notin Ended
        BY <1>6, <2>2, <2>3, <3>2 DEF Ended, Terminal, EventType
      <4>3. SameEnds(u, a)
        BY <2>1, <4>2 DEF SameEnds, OrdersOf
      <4>5. QED
        BY <1>1, <2>1, <2>5, <2>7, <3>o, <4>1, <4>3, EndsKept, FreezeKept
    <3>3. QED
      BY <3>1, <3>a, <3>2
  <2>8. QED
    BY <2>1, <2>2, <2>5, <2>6, <2>7, ConsumerStep
<1>7. QED
  BY <1>4, <1>5, <1>6

-----------------------------------------------------------------------------
(* A trade is settled.                                                     *)

(* The trade that is read is new: what it does to the rows and the money.  *)
Settled(tr, m, t) ==
    /\ tr \in GoodTrade /\ tr \in Published /\ tr \notin trades
    /\ m = orders[tr.maker] /\ t = orders[tr.taker] /\ m \in Row /\ t \in Row
    /\ account[m.user][Paid(m.side)].frozen >= Amount(Paid(m.side), tr)
    /\ account[t.user][Paid(t.side)].frozen >= Amount(Paid(t.side), tr)
    /\ trades' = trades \cup {tr}
    /\ orders' = [orders EXCEPT ![tr.maker] = Filled(m, tr), ![tr.taker] = Filled(t, tr)]
    /\ account' = AfterFill(AfterFill(SettleTradeForUser(SettleTradeForUser(account, m, tr), t, tr),
                                      Filled(m, tr)), Filled(t, tr))

LEMMA FilledFields ==
    ASSUME NEW o \in Row, NEW tr, tr.qty \in Nat
    PROVE  /\ Filled(o, tr) \in Row /\ SameFunds(o, Filled(o, tr))
           /\ Filled(o, tr).status = o.status
           /\ tr.qty = o.qty => Filled(o, tr).filled = Filled(o, tr).qty
<1>1. PICK f \in Nat, q \in Nat \ {0}, n \in Nat : f = o.filled /\ q = o.qty /\ n = tr.qty
  BY RowFields
<1>2. PICK x : x = Min({f + n, q})
  OBVIOUS
<1>3. x \in Nat /\ x <= q /\ (n = q => x = q)
  <2>1. f + n \in Int /\ q \in Int
    BY <1>1
  <2>2. x \in {f + n, q} /\ x <= q
    BY <1>2, <2>1, SmallerOf, Zenon
  <2>3. QED
    BY <1>1, <2>2
<1>4. PICK e : e = [o EXCEPT !.filled = x]
  OBVIOUS
<1>5. e \in Row /\ SameFunds(o, e) /\ e.status = o.status /\ e.filled = x /\ e.qty = q
  BY <1>1, <1>3, <1>4 DEF Row, SameFunds, SameOrder
<1>6. e = Filled(o, tr)
  BY <1>1, <1>2, <1>4 DEF Filled
<1>7. QED
  BY <1>1, <1>3, <1>5, <1>6

LEMMA SettledRows ==
    ASSUME Types, NEW tr, NEW m, NEW t, Settled(tr, m, t)
    PROVE  /\ Grows /\ DOMAIN orders' = DOMAIN orders /\ Len(orders') = Len(orders) /\ KeepsFunds
           /\ tr.maker # tr.taker /\ tr.maker \in DOMAIN orders /\ tr.taker \in DOMAIN orders
           /\ \A i \in DOMAIN orders : orders'[i].status = orders[i].status
           /\ \A i \in DOMAIN orders : i \notin Sides(tr) => orders'[i] = orders[i]
           /\ \A u, a : SameEnds(u, a)
<1>1. /\ tr.maker \in DOMAIN orders /\ tr.taker \in DOMAIN orders /\ tr.maker # tr.taker
      /\ tr.qty \in Nat
  BY GoodTradeFields DEF Settled
<1>2. PICK mm, tt : mm = Filled(m, tr) /\ tt = Filled(t, tr)
  OBVIOUS
<1>3. /\ m \in Row /\ t \in Row /\ m = orders[tr.maker] /\ t = orders[tr.taker]
      /\ orders' = [orders EXCEPT ![tr.maker] = mm, ![tr.taker] = tt]
  BY <1>2 DEF Settled
<1>4. /\ mm \in Row /\ tt \in Row /\ SameFunds(m, mm) /\ SameFunds(t, tt)
      /\ mm.status = m.status /\ tt.status = t.status
  BY <1>1, <1>2, <1>3, FilledFields
<1>5. SameOrder(m, mm) /\ SameOrder(t, tt)
  BY <1>4 DEF SameFunds
<1>6. Grows /\ orders' \in Seq(Row) /\ DOMAIN orders' = DOMAIN orders
  BY <1>1, <1>3, <1>4, <1>5, RowsReplaced
<1>7. orders \in Seq(Row)
  BY DEF Types
<1>8. Len(orders') = Len(orders)
  BY <1>6, <1>7
<1>9. PICK mid : mid = [orders EXCEPT ![tr.maker] = mm]
  OBVIOUS
<1>10. DOMAIN mid = DOMAIN orders /\ orders' = [mid EXCEPT ![tr.taker] = tt]
  BY <1>3, <1>9
<1>11. \A k \in DOMAIN orders :
          orders'[k] = IF k = tr.taker THEN tt ELSE IF k = tr.maker THEN mm ELSE orders[k]
  BY <1>7, <1>9, <1>10
<1>12. \A i \in DOMAIN orders : SameFunds(orders[i], orders[i])
  BY DEF SameFunds, SameOrder
<1>13. ASSUME NEW i \in DOMAIN orders
       PROVE  SameFunds(orders[i], orders'[i]) /\ orders'[i].status = orders[i].status
  <2>1. CASE i = tr.taker
    BY <1>3, <1>4, <1>11, <2>1
  <2>2. CASE i = tr.maker
    BY <1>1, <1>3, <1>4, <1>11, <2>2
  <2>3. CASE i # tr.taker /\ i # tr.maker
    BY <1>11, <1>12, <2>3
  <2>4. QED
    BY <2>1, <2>2, <2>3
<1>14. KeepsFunds
  BY <1>6, <1>13 DEF KeepsFunds
<1>15. \A u, a : SameEnds(u, a)
  BY <1>13 DEF SameEnds, OrdersOf
<1>16. \A i \in DOMAIN orders : i \notin Sides(tr) => orders'[i] = orders[i]
  BY <1>11 DEF Sides
<1>17. QED
  BY <1>1, <1>6, <1>8, <1>13, <1>14, <1>15, <1>16

(* The first trade of an order that has not ended takes what it is about.  *)
LEMMA SettledNeeds ==
    ASSUME Types, Types', NEW u \in Users, NEW a \in Assets, Regular(u, a), CoreInv, ReadInv,
           EndsByTrade(u, a), NEW tr, NEW m, NEW t, Settled(tr, m, t), NEW id \in OrdersOf(u, a)
    PROVE  StillFrozen(id)' = IF id \in Sides(tr)
                              THEN StillFrozen(id) - Amount(Paid(orders[id].side), tr)
                              ELSE StillFrozen(id)
<1>1. KeepsFunds /\ SameEnds(u, a) /\ id \in DOMAIN orders
  BY SettledRows DEF OrdersOf
<1>2. tr \in Published /\ tr \notin trades /\ trades' = trades \cup {tr}
  BY DEF Settled
<1>3. CASE id \in Sides(tr)
  <2>1. PICK o \in Row, n \in Row : o = orders[id] /\ n = orders'[id]
    <3>1. id \in DOMAIN orders'
      BY <1>1 DEF KeepsFunds
    <3>2. QED
      BY <1>1, <3>1 DEF Types
  <2>2. n.side = o.side /\ Locked(n) = Locked(o)
    <3>1. SameFunds(o, n)
      BY <1>1, <2>1 DEF KeepsFunds
    <3>2. n.side = o.side /\ n.price = o.price /\ n.qty = o.qty
      BY <3>1 DEF SameFunds, SameOrder
    <3>3. QED
      BY <3>2 DEF Locked, ComputeFreeze
  <2>3. /\ Amount(Paid(o.side), tr) \in Nat
        /\ \A other \in Published : id \in Sides(other) => other = tr
    BY <1>2, <1>3, <2>1, RegularTrade
  <2>4. trades \subseteq Published
    BY DEF ReadInv, ReadTrades
  <2>5. SettledOf(id) = {} /\ SettledOf(id)' = {tr}
    BY <1>2, <1>3, <2>3, <2>4 DEF SettledOf
  <2>6. StillFrozen(id) = FrozenFor(o, {}) /\ StillFrozen(id)' = FrozenFor(n, {tr})
    BY <2>1, <2>5, StillIs, StillIsThen
  <2>7. FrozenFor(o, {}) = Locked(o)
    <3>1. o.status \notin Ended
      BY <1>2, <1>3, <2>1 DEF EndsByTrade, Ended
    <3>2. QED
      BY <3>1, FrozenForIs
  <2>8. FrozenFor(n, {tr}) = Locked(o) - Amount(Paid(o.side), tr)
    <3>1. Amount(Paid(n.side), tr) \in Int
      BY <2>2, <2>3
    <3>2. QED
      BY <2>2, <3>1, FrozenForIs
  <2>9. QED
    BY <1>3, <2>1, <2>6, <2>7, <2>8
<1>4. CASE id \notin Sides(tr)
  <2>1. SettledOf(id)' = SettledOf(id)
    BY <1>2, <1>4 DEF SettledOf
  <2>2. orders'[id].status \in Ended <=> orders[id].status \in Ended
    BY <1>1 DEF SameEnds
  <2>3. QED
    BY <1>1, <1>4, <2>1, <2>2, StillSame
<1>5. QED
  BY <1>3, <1>4

(* ... and nothing is released, so that as much is taken from its account. *)
LEMMA SettledFrozen ==
    ASSUME Types, Types', NEW u \in Users, NEW a \in Assets, Regular(u, a), CoreInv,
           NEW tr, NEW m, NEW t, Settled(tr, m, t)
    PROVE  account'[u][a].frozen =
             account[u][a].frozen
               + (IF u = m.user /\ a = Paid(m.side) THEN -Amount(Paid(m.side), tr)
                  ELSE IF u = t.user /\ a = Paid(t.side) THEN -Amount(Paid(t.side), tr) ELSE 0)
<1>1. /\ m \in Row /\ t \in Row /\ tr.price \in Nat /\ tr.qty \in Nat /\ m.side # t.side
      /\ m = orders[tr.maker] /\ t = orders[tr.taker]
  BY GoodTradeFields DEF Settled
<1>2. PICK acc \in Accounts : acc = account
  BY DEF Types
<1>3. PICK one, two : one = SettleTradeForUser(acc, m, tr) /\ two = SettleTradeForUser(one, t, tr)
  OBVIOUS
<1>4. /\ acc[m.user][Paid(m.side)].frozen >= Amount(Paid(m.side), tr)
      /\ acc[t.user][Paid(t.side)].frozen >= Amount(Paid(t.side), tr)
  BY <1>2 DEF Settled
<1>5. /\ m.user \in Users /\ t.user \in Users /\ Paid(m.side) \in Assets /\ Paid(t.side) \in Assets
      /\ Paid(m.side) # Paid(t.side)
  BY <1>1, RowFields, TwoAssets
<1>6. PICK p \in Int, q \in Int : p = -Amount(Paid(m.side), tr) /\ q = -Amount(Paid(t.side), tr)
  <2>1. Amount(Paid(m.side), tr) \in Nat /\ Amount(Paid(t.side), tr) \in Nat
    BY <1>1, AmountNat
  <2>2. QED
    BY <2>1
<1>7. FrozenBy(acc, one, m.user, Paid(m.side), p)
  BY <1>1, <1>3, <1>4, <1>6, SettleFrozen
<1>8. one \in Accounts
  BY <1>1, <1>3, <1>4, SettleChanges
<1>9. one[t.user][Paid(t.side)].frozen >= Amount(Paid(t.side), tr)
  <2>1. acc[t.user][Paid(t.side)].frozen \in Nat
    BY <1>5 DEF Accounts
  <2>2. one[t.user][Paid(t.side)].frozen = acc[t.user][Paid(t.side)].frozen + 0
    BY <1>5, <1>7 DEF FrozenBy
  <2>3. QED
    BY <1>4, <2>1, <2>2
<1>10. FrozenBy(one, two, t.user, Paid(t.side), q)
  BY <1>1, <1>3, <1>6, <1>8, <1>9, SettleFrozen
<1>11. two \in Accounts
  BY <1>1, <1>3, <1>8, <1>9, SettleChanges
<1>12. PICK mm, tt : mm = Filled(m, tr) /\ tt = Filled(t, tr)
  OBVIOUS
<1>a. /\ tr \in Published /\ tr.maker \in Sides(tr) /\ tr.taker \in Sides(tr)
      /\ tr.maker \in DOMAIN orders /\ tr.taker \in DOMAIN orders
  BY SettledRows DEF Settled, Sides
<1>13. /\ mm \in Row /\ tt \in Row /\ SameFunds(m, mm) /\ SameFunds(t, tt)
       /\ u = m.user /\ a = Paid(m.side) => mm.filled = mm.qty
       /\ u = t.user /\ a = Paid(t.side) => tt.filled = tt.qty
  <2>1. ASSUME u = m.user, a = Paid(m.side) PROVE tr.qty = m.qty
    <3>1. tr.maker \in OrdersOf(u, a)
      BY <1>1, <1>a, <2>1, OneAccount
    <3>2. QED
      BY <1>1, <1>a, <3>1, RegularTrade
  <2>2. ASSUME u = t.user, a = Paid(t.side) PROVE tr.qty = t.qty
    <3>1. tr.taker \in OrdersOf(u, a)
      BY <1>1, <1>a, <2>2, OneAccount
    <3>2. QED
      BY <1>1, <1>a, <3>1, RegularTrade
  <2>3. QED
    BY <1>1, <1>12, <2>1, <2>2, FilledFields
<1>14. PICK three : three = AfterFill(two, mm)
  OBVIOUS
<1>15. three \in Accounts /\ three[u][a].frozen = two[u][a].frozen
  <2>1. three \in Accounts
    BY <1>11, <1>13, <1>14, AfterFillKeeps
  <2>2. CASE u = m.user /\ a = Paid(m.side)
    BY <2>1, <1>11, <1>13, <1>14, <2>2, AfterFillFrozen
  <2>3. CASE ~(u = m.user /\ a = Paid(m.side))
    <3>1. ~(u = mm.user /\ a = Paid(mm.side))
      BY <1>13, <2>3 DEF SameFunds, SameOrder
    <3>2. QED
      BY <2>1, <1>11, <1>14, <3>1, ReleasedElsewhere
  <2>4. QED
    BY <2>1, <2>2, <2>3
<1>16. AfterFill(three, tt)[u][a].frozen = three[u][a].frozen
  <2>1. CASE u = t.user /\ a = Paid(t.side)
    BY <1>13, <1>15, <2>1, AfterFillFrozen
  <2>2. CASE ~(u = t.user /\ a = Paid(t.side))
    <3>1. ~(u = tt.user /\ a = Paid(tt.side))
      BY <1>13, <2>2 DEF SameFunds, SameOrder
    <3>2. QED
      BY <1>15, <3>1, ReleasedElsewhere
  <2>3. QED
    BY <2>1, <2>2
<1>17. account' = AfterFill(three, tt)
  BY <1>2, <1>3, <1>12, <1>14 DEF Settled
<1>18. acc[u][a].frozen \in Int
  BY DEF Accounts
<1>19. /\ one[u][a].frozen = acc[u][a].frozen + (IF u = m.user /\ a = Paid(m.side) THEN p ELSE 0)
       /\ two[u][a].frozen = one[u][a].frozen + (IF u = t.user /\ a = Paid(t.side) THEN q ELSE 0)
  BY <1>7, <1>10 DEF FrozenBy
<1>20. QED
  <2>1. CASE u = m.user /\ a = Paid(m.side)
    BY <1>2, <1>5, <1>6, <1>15, <1>16, <1>17, <1>18, <1>19, <2>1
  <2>2. CASE ~(u = m.user /\ a = Paid(m.side))
    BY <1>2, <1>5, <1>6, <1>15, <1>16, <1>17, <1>18, <1>19, <2>2
  <2>3. QED
    BY <2>1, <2>2

LEMMA SettledAgrees ==
    ASSUME Types, Types', NEW u \in Users, NEW a \in Assets, Regular(u, a), CoreInv, ReadInv,
           EndsByTrade(u, a), FrozenAgrees(u, a), NEW tr, NEW m, NEW t, Settled(tr, m, t)
    PROVE  FrozenAgrees(u, a)'
<1>1. /\ KeepsFunds /\ DOMAIN orders' = DOMAIN orders
      /\ tr.maker \in DOMAIN orders /\ tr.taker \in DOMAIN orders
  BY SettledRows
<1>2. /\ m = orders[tr.maker] /\ t = orders[tr.taker] /\ m.side # t.side /\ m \in Row /\ t \in Row
      /\ tr.price \in Nat /\ tr.qty \in Nat
  BY GoodTradeFields DEF Settled
<1>3. Paid(m.side) # Paid(t.side)
  BY <1>2, RowFields, TwoAssets
<1>4. account'[u][a].frozen = Needed(u, a)'
  <2>1. OrdersOf(u, a)' = OrdersOf(u, a) /\ OrdersOf(u, a) \subseteq DOMAIN orders
    BY <1>1, SameAccounts, OrdersOfFinite
  <2>2. account[u][a].frozen = Needed(u, a) /\ account[u][a].frozen \in Nat
    BY DEF FrozenAgrees, Needed, Types, Accounts
  <2>3. /\ tr.maker \in OrdersOf(u, a) <=> u = m.user /\ a = Paid(m.side)
        /\ tr.taker \in OrdersOf(u, a) <=> u = t.user /\ a = Paid(t.side)
    BY <1>1, <1>2, OneAccount
  <2>s. \A id \in OrdersOf(u, a) :
           StillFrozen(id)' = IF id \in Sides(tr)
                              THEN StillFrozen(id) - Amount(Paid(orders[id].side), tr)
                              ELSE StillFrozen(id)
    BY SettledNeeds
  <2>4. \A id \in OrdersOf(u, a) : StillFrozen(id) \in Int /\ StillFrozen(id)' \in Int
    <3>1. ASSUME NEW id \in OrdersOf(u, a)
          PROVE  StillFrozen(id) \in Int /\ StillFrozen(id)' \in Int
      <4>1. StillFrozen(id) \in Nat
        BY StillNat
      <4>2. orders[id].side \in {"buy", "sell"}
        BY <2>1, RowFields DEF Types
      <4>3. Amount(Paid(orders[id].side), tr) \in Nat
        BY <1>2, <4>2, AmountNat
      <4>4. QED
        BY <2>s, <4>1, <4>3
    <3>2. QED
      BY <3>1
  <2>5. \A id \in OrdersOf(u, a) : id # tr.maker /\ id # tr.taker => StillFrozen(id)' = StillFrozen(id)
    BY <2>s DEF Sides
  <2>6. PICK x \in Nat, y \in Nat : x = Amount(Paid(m.side), tr) /\ y = Amount(Paid(t.side), tr)
    BY <1>2, AmountNat
  <2>7. /\ tr.maker \in OrdersOf(u, a) => StillFrozen(tr.maker)' = StillFrozen(tr.maker) - x
        /\ tr.taker \in OrdersOf(u, a) => StillFrozen(tr.taker)' = StillFrozen(tr.taker) - y
    BY <1>2, <2>6, <2>s DEF Sides
  <2>8. account'[u][a].frozen =
             account[u][a].frozen
               + (IF u = m.user /\ a = Paid(m.side) THEN -Amount(Paid(m.side), tr)
                  ELSE IF u = t.user /\ a = Paid(t.side) THEN -Amount(Paid(t.side), tr) ELSE 0)
    BY SettledFrozen
  <2>9. CASE tr.maker \in OrdersOf(u, a)
    <3>1. tr.taker \notin OrdersOf(u, a)
      BY <1>3, <2>3, <2>9
    <3>2. \A id \in OrdersOf(u, a) \ {tr.maker} : StillFrozen(id)' = StillFrozen(id)
      BY <2>5, <3>1
    <3>3. Needed(u, a)' = Needed(u, a) + (StillFrozen(tr.maker)' - StillFrozen(tr.maker))
      BY <2>1, <2>4, <2>9, <3>2, NeededChanges
    <3>4. account'[u][a].frozen = account[u][a].frozen + (-x)
      BY <2>3, <2>6, <2>8, <2>9
    <3>5. StillFrozen(tr.maker) \in Int
      BY <2>4, <2>9
    <3>6. QED
      BY <2>2, <2>6, <2>7, <2>9, <3>3, <3>4, <3>5
  <2>10. CASE tr.taker \in OrdersOf(u, a)
    <3>1. tr.maker \notin OrdersOf(u, a)
      BY <1>3, <2>3, <2>10
    <3>2. \A id \in OrdersOf(u, a) \ {tr.taker} : StillFrozen(id)' = StillFrozen(id)
      BY <2>5, <3>1
    <3>3. Needed(u, a)' = Needed(u, a) + (StillFrozen(tr.taker)' - StillFrozen(tr.taker))
      BY <2>1, <2>4, <2>10, <3>2, NeededChanges
    <3>4. account'[u][a].frozen = account[u][a].frozen + (-y)
      BY <2>3, <2>6, <2>8, <2>10, <3>1
    <3>5. StillFrozen(tr.taker) \in Int
      BY <2>4, <2>10
    <3>6. QED
      BY <2>2, <2>6, <2>7, <2>10, <3>3, <3>4, <3>5
  <2>11. CASE tr.maker \notin OrdersOf(u, a) /\ tr.taker \notin OrdersOf(u, a)
    <3>1. \A id \in OrdersOf(u, a) : StillFrozen(id)' = StillFrozen(id)
      BY <2>5, <2>11
    <3>2. Needed(u, a)' = Needed(u, a)
      BY <2>1, <3>1, NeededSame
    <3>3. account'[u][a].frozen = account[u][a].frozen + 0
      BY <2>3, <2>8, <2>11
    <3>4. QED
      BY <2>2, <3>2, <3>3
  <2>12. QED
    BY <2>9, <2>10, <2>11
<1>5. QED
  BY <1>4 DEF FrozenAgrees, Needed

LEMMA ApplyTradeEventFreeze ==
    ASSUME AllInv, Types', ApplyTradeEvent
    PROVE  AllInv'
<1>1. Types /\ ShardInv /\ ReadInv /\ CoreInv /\ Room
  BY DEF AllInv, ShardInv
<1>2. /\ UNCHANGED <<inflight, processed, cmds, pos, seen, book, batch, matchEvents, tradeEvents, mPos>>
      /\ tPos < Len(tradeEvents)
  BY DEF ApplyTradeEvent, requests, shard, topics
<1>3. PICK tr, m, t : tr = NextTrade /\ m = orders[tr.maker] /\ t = orders[tr.taker]
  OBVIOUS
<1>4. tr \in GoodTrade /\ tr \in Published
  <2>1. tradeEvents \in Seq(GoodTrade) /\ tPos \in Nat
    BY <1>1 DEF Types
  <2>2. tPos + 1 \in DOMAIN tradeEvents
    BY <1>2, <2>1
  <2>3. QED
    BY <1>3, <2>1, <2>2 DEF NextTrade, Published, ToSet
<1>5. CASE UNCHANGED <<orders, account, trades>>
  <2>1. Room' /\ ReadInv'
    BY <1>1, <1>2, <1>5, RoomSame, ReadSame
  <2>2. QED
    BY <1>2, <1>5, <2>1, IdleStep
<1>6. CASE ~UNCHANGED <<orders, account, trades>>
  <2>1. /\ tr \notin trades /\ Settles(tr) /\ trades' = trades \cup {tr}
        /\ orders' = [orders EXCEPT ![tr.maker] = Filled(m, tr), ![tr.taker] = Filled(t, tr)]
        /\ account' = AfterFill(AfterFill(SettleTradeForUser(SettleTradeForUser(account, m, tr), t, tr),
                                          Filled(m, tr)), Filled(t, tr))
    BY <1>3, <1>6, Zenon DEF ApplyTradeEvent, InsertTrade
  <2>2. m \in Row /\ t \in Row
    BY <1>1, <1>3, <1>4, GoodTradeFields DEF Types
  <2>3. Settled(tr, m, t)
    BY <1>3, <1>4, <2>1, <2>2 DEF Settled, Settles
  <2>4. /\ Grows /\ DOMAIN orders' = DOMAIN orders /\ Len(orders') = Len(orders) /\ KeepsFunds
        /\ tr.maker # tr.taker /\ tr.maker \in DOMAIN orders /\ tr.taker \in DOMAIN orders
        /\ \A i \in DOMAIN orders : orders'[i].status = orders[i].status
        /\ \A i \in DOMAIN orders : i \notin Sides(tr) => orders'[i] = orders[i]
        /\ \A u, a : SameEnds(u, a)
    BY <1>1, <2>3, SettledRows
  <2>5. Published' = Published
    BY <1>2 DEF Published
  <2>6. ReadInv'
    <3>1. \A ev \in processed : ev.id \in DOMAIN orders
      BY <1>1, EventFields DEF ReadInv, ReadMatches
    <3>2. ReadMatches'
      BY <1>1, <1>2, <2>4, <3>1 DEF ReadInv, ReadMatches, IsCanceled
    <3>3. trades' \subseteq Published
      BY <1>1, <1>4, <2>1 DEF ReadInv, ReadTrades
    <3>4. ASSUME NEW id \in DOMAIN orders, orders'[id].filled > 0
          PROVE  \E x \in Published : id \in Sides(x)
      <4>1. CASE id \in Sides(tr)
        BY <1>4, <4>1
      <4>2. CASE id \notin Sides(tr)
        BY <1>1, <2>4, <3>4, <4>2 DEF ReadInv, ReadTrades
      <4>3. QED
        BY <4>1, <4>2
    <3>5. ReadTrades'
      BY <2>4, <2>5, <3>3, <3>4 DEF ReadTrades
    <3>6. QED
      BY <3>2, <3>5 DEF ReadInv
  <2>7. ASSUME NEW u \in Users, NEW a \in Assets, Regular(u, a), EndsByTrade(u, a), FrozenAgrees(u, a)
        PROVE  EndsByTrade(u, a)' /\ FrozenAgrees(u, a)'
    <3>1. EndsByTrade(u, a)'
      BY <1>1, <2>4, <2>5, <2>7, EndsKept
    <3>2. FrozenAgrees(u, a)'
      BY <1>1, <2>3, <2>7, SettledAgrees
    <3>3. QED
      BY <3>1, <3>2
  <2>8. QED
    BY <1>2, <2>4, <2>6, <2>7, ConsumerStep
<1>7. QED
  BY <1>5, <1>6

-----------------------------------------------------------------------------
(* The pages of a list hold all of its rows.                               *)

LEMMA PageOfRow ==
    ASSUME NEW size \in Nat \ {0}, NEW k \in Nat \ {0}
    PROVE  \E p \in 1..k : (p - 1) * size + 1 <= k /\ k <= p * size
<1> DEFINE S == {p \in Nat : k <= p * size}
<1>1. k \in S
  <2>1. k <= k * size
    OBVIOUS
  <2>2. QED
    BY <2>1
<1>2. PICK p : p \in S /\ \A y \in S : p <= y
  BY <1>1, MinOfNaturals
<1>3. p \in Nat /\ k <= p * size /\ p <= k
  BY <1>1, <1>2
<1>4. p # 0
  <2>1. 0 * size = 0
    OBVIOUS
  <2>2. QED
    BY <1>3, <2>1
<1>5. p - 1 \in Nat /\ ~(k <= (p - 1) * size)
  BY <1>2, <1>3, <1>4
<1>6. PICK m \in Int : m = (p - 1) * size
  BY <1>3
<1>7. m + 1 <= k
  BY <1>5, <1>6
<1>8. (p - 1) * size + 1 <= k
  BY <1>6, <1>7
<1>9. QED
  BY <1>3, <1>4, <1>8

(* Page p of a list of n rows, and the places of its rows.                 *)
PartOf(rows, p) == ToSet(SubSeq(rows, (p - 1) * PageSize + 1, Min({p * PageSize, Len(rows)})))
RowsAt(rows, places) == {rows[k] : k \in places}
OnPage(n, p) == {k \in 1..n : (p - 1) * PageSize + 1 <= k /\ k <= p * PageSize}
HasRows(rows, n) == rows = [k \in 1..n |-> rows[k]]

LEMMA PageInList ==
    ASSUME NEW n \in Nat, NEW rows, HasRows(rows, n), NEW p \in Nat \ {0}
    PROVE  PartOf(rows, p) = RowsAt(rows, OnPage(n, p))
<1>1. PICK a \in Nat, z \in Nat : a = (p - 1) * PageSize /\ z = p * PageSize
  BY SettlementAssumption
<1>2. Len(rows) = n /\ DOMAIN rows = 1..n
  BY DEF HasRows
<1>3. PICK e : e = Min({z, n})
  OBVIOUS
<1>4. e \in Nat /\ e <= z /\ e <= n /\ (e = z \/ e = n)
  BY <1>3, MinOfNaturals
<1>5. SubSeq(rows, a + 1, e) = [i \in 1..(e - a) |-> rows[a + i]]
  BY <1>4
<1>6. ToSet(SubSeq(rows, a + 1, e)) = {rows[a + i] : i \in 1..(e - a)}
  BY <1>5 DEF ToSet
<1>7. {rows[a + i] : i \in 1..(e - a)} = {rows[k] : k \in {k \in 1..n : a + 1 <= k /\ k <= z}}
  <2>1. ASSUME NEW i \in 1..(e - a) PROVE a + i \in {k \in 1..n : a + 1 <= k /\ k <= z}
    BY <1>4
  <2>2. ASSUME NEW k \in {k \in 1..n : a + 1 <= k /\ k <= z} PROVE \E i \in 1..(e - a) : k = a + i
    <3>1. k - a \in 1..(e - a) /\ k = a + (k - a)
      BY <1>4
    <3>2. QED
      BY <3>1
  <2>3. QED
    BY <2>1, <2>2
<1>8. QED
  BY <1>1, <1>2, <1>3, <1>6, <1>7 DEF PartOf, RowsAt, OnPage

(* The rows before row id of a list.                                       *)
Later(ids, id) == {x \in ids : x > id}

LEMMA RowAtRank ==
    ASSUME NEW n \in Nat, NEW ids, ids \subseteq 1..n, NEW c, c = Cardinality(ids)
    PROVE  /\ c \in Nat /\ c <= n
           /\ \A id \in ids : Cardinality(Later(ids, id)) \in Nat /\ Cardinality(Later(ids, id)) < c
           /\ \A x, y \in ids : Cardinality(Later(ids, x)) = Cardinality(Later(ids, y)) => x = y
           /\ \A k \in 1..c : \E id \in ids : Cardinality(Later(ids, id)) = k - 1
<1>0. 1 \in Int /\ n \in Int
  OBVIOUS
<1>1. IsFiniteSet(1..n) /\ Cardinality(1..n) = n
  BY <1>0, FS_Interval
<1>2. IsFiniteSet(ids) /\ c \in Nat /\ c <= n
  BY <1>1, FS_Subset, FS_CardinalityType
<1>3. \A id \in ids : id \in Nat /\ id <= n
  OBVIOUS
<1>4. ASSUME NEW id \in ids
      PROVE  /\ IsFiniteSet(Later(ids, id)) /\ Cardinality(Later(ids, id)) \in Nat
             /\ Cardinality(Later(ids, id)) < c
  <2>1. Later(ids, id) \subseteq ids \ {id}
    BY <1>3 DEF Later
  <2>2. IsFiniteSet(ids \ {id}) /\ Cardinality(ids \ {id}) = c - 1
    BY <1>2, FS_RemoveElement
  <2>3. IsFiniteSet(Later(ids, id)) /\ Cardinality(Later(ids, id)) <= c - 1
    BY <2>1, <2>2, FS_Subset
  <2>4. Cardinality(Later(ids, id)) \in Nat
    BY <2>3, FS_CardinalityType
  <2>5. QED
    BY <1>2, <2>3, <2>4
<1>5. ASSUME NEW x \in ids, NEW y \in ids, x < y
      PROVE  Cardinality(Later(ids, y)) < Cardinality(Later(ids, x))
  <2>1. Later(ids, y) \subseteq Later(ids, x) \ {y} /\ y \in Later(ids, x)
    <3>1. \A v \in ids : (v > y => v > x /\ v # y) /\ y > x
      BY <1>3, <1>5
    <3>2. QED
      BY <3>1, Zenon DEF Later
  <2>2. PICK i : i = Cardinality(Later(ids, x))
    OBVIOUS
  <2>3. i \in Nat /\ IsFiniteSet(Later(ids, x) \ {y}) /\ Cardinality(Later(ids, x) \ {y}) = i - 1
    BY <1>4, <2>1, <2>2, FS_RemoveElement
  <2>4. Cardinality(Later(ids, y)) <= i - 1 /\ Cardinality(Later(ids, y)) \in Nat
    BY <1>4, <2>1, <2>3, FS_Subset
  <2>5. QED
    BY <2>2, <2>3, <2>4
<1>6. ASSUME NEW x \in ids, NEW y \in ids, Cardinality(Later(ids, x)) = Cardinality(Later(ids, y))
      PROVE  x = y
  <2>1. ~(x < y) /\ ~(y < x)
    BY <1>4, <1>5, <1>6
  <2>2. QED
    BY <1>3, <2>1
<1>7. ASSUME NEW k \in 1..c PROVE \E id \in ids : Cardinality(Later(ids, id)) = k - 1
  <2> DEFINE q == [x \in ids |-> n - x]
  <2>1. q \in [ids -> Nat] /\ DOMAIN q = ids /\ \A x \in ids : q[x] = n - x
    BY <1>3
  <2> HIDE DEF q
  <2>2. k \in Nat \ {0} /\ k <= Cardinality(ids)
    BY <1>2
  <2>3. PICK p \in ValuesOf(q) : Cardinality(Below(q, p)) < k /\ Cardinality(AtMost(q, p)) >= k
    BY <1>2, <2>1, <2>2, RankedExists
  <2>4. PICK id \in ids : p = q[id]
    BY <2>1 DEF ValuesOf
  <2>5. Below(q, p) = Later(ids, id)
    <3>1. \A x \in ids : q[x] < p <=> x > id
      BY <1>3, <2>1, <2>4
    <3>2. QED
      BY <2>1, <3>1, Zenon DEF Below, Later
  <2>6. AtMost(q, p) = Later(ids, id) \cup {id} /\ id \notin Later(ids, id)
    <3>1. /\ \A x \in ids : q[x] <= p <=> x > id \/ x = id
          /\ ~(id > id)
      BY <1>3, <2>1, <2>4
    <3>2. QED
      BY <2>1, <3>1, Zenon DEF AtMost, Later
  <2>7. PICK m \in Nat : m = Cardinality(Later(ids, id))
    BY <1>4
  <2>8. Cardinality(AtMost(q, p)) = m + 1
    BY <1>4, <2>6, <2>7, FS_AddElement
  <2>9. m < k /\ m + 1 >= k
    BY <2>3, <2>5, <2>7, <2>8
  <2>10. m = k - 1
    BY <2>9
  <2>11. QED
    BY <2>7, <2>10
<1>8. QED
  BY <1>2, <1>4, <1>6, <1>7

LEMMA PagesShowAll ==
    ASSUME NEW n \in Nat, n <= MaxOrders, NEW ids, ids \subseteq 1..n
    PROVE  UNION {ToSet(PageOf(ids, page)) : page \in 1..MaxOrders} = ids
<1> DEFINE rank(id) == Cardinality(Later(ids, id))
           rows == [k \in 1..Cardinality(ids) |-> CHOOSE id \in ids : rank(id) = k - 1]
           places(p) == {k \in 1..Cardinality(ids) : (p - 1) * PageSize + 1 <= k /\ k <= p * PageSize}
<1>1. PICK c : c = Cardinality(ids)
  OBVIOUS
<1>2. /\ c \in Nat /\ c <= n
      /\ \A id \in ids : rank(id) \in Nat /\ rank(id) < c
      /\ \A x, y \in ids : rank(x) = rank(y) => x = y
      /\ \A k \in 1..c : \E id \in ids : rank(id) = k - 1
  BY <1>1, RowAtRank
<1>3. MaxOrders \in Nat /\ PageSize \in Nat \ {0}
  BY SettlementAssumption
<1>4. \A page : PageOf(ids, page) =
                  SubSeq(rows, (page - 1) * PageSize + 1, Min({page * PageSize, Len(rows)}))
  BY DEF PageOf, Later
<1> HIDE DEF rank
<1>5. ASSUME NEW k \in 1..c PROVE rows[k] \in ids /\ rank(rows[k]) = k - 1
  <2>1. rows[k] = CHOOSE id \in ids : rank(id) = k - 1
    BY <1>1
  <2>2. QED
    BY <1>2, <2>1
<1>6. rows = [k \in 1..c |-> rows[k]]
  BY <1>1
<1> HIDE DEF rows
<1>7. \A p \in 1..MaxOrders : ToSet(PageOf(ids, p)) = {rows[k] : k \in places(p)}
  <2>1. ASSUME NEW p \in 1..MaxOrders PROVE ToSet(PageOf(ids, p)) = {rows[k] : k \in places(p)}
    <3>1. p \in Nat \ {0}
      BY <1>3
    <3>2. PartOf(rows, p) = RowsAt(rows, OnPage(c, p))
      BY <1>2, <1>6, <3>1, PageInList DEF HasRows
    <3>3. QED
      BY <1>1, <1>4, <3>2 DEF PartOf, RowsAt, OnPage
  <2>2. QED
    BY <2>1
<1>8. ASSUME NEW p \in 1..MaxOrders PROVE ToSet(PageOf(ids, p)) \subseteq ids
  BY <1>1, <1>5, <1>7
<1>9. ASSUME NEW id \in ids PROVE \E p \in 1..MaxOrders : id \in ToSet(PageOf(ids, p))
  <2>1. PICK k \in Nat : k = rank(id) + 1
    BY <1>2
  <2>2. k \in 1..c /\ k \in Nat \ {0} /\ k - 1 = rank(id) /\ k <= MaxOrders
    BY <1>2, <1>3, <2>1
  <2>3. rows[k] = id
    BY <1>2, <1>5, <2>2
  <2>4. PICK p \in 1..k : (p - 1) * PageSize + 1 <= k /\ k <= p * PageSize
    BY <1>3, <2>2, PageOfRow
  <2>5. p \in 1..MaxOrders
    BY <1>3, <2>2
  <2>6. k \in places(p)
    BY <1>1, <2>2, <2>4
  <2>7. QED
    BY <1>7, <2>3, <2>5, <2>6
<1>10. QED
  BY <1>8, <1>9

-----------------------------------------------------------------------------
(* What holds throughout, and what a user is shown.                        *)

LEMMA InitAllInv ==
    ASSUME Init
    PROVE  AllInv
<1>1. Types
  BY InitIInv DEF IInv
<1>2. /\ orders = <<>> /\ DOMAIN orders = {} /\ Len(orders) = 0 /\ inflight = {} /\ cmds = <<>>
      /\ DOMAIN cmds = {} /\ Len(cmds) = 0 /\ pos = 0 /\ seen = {} /\ batch = <<>> /\ DOMAIN batch = {}
      /\ matchEvents = <<>> /\ DOMAIN matchEvents = {} /\ tradeEvents = <<>> /\ mPos = 0
      /\ Len(matchEvents) = 0
      /\ trades = {} /\ processed = {} /\ \A id \in Ids : book[id] = 0
  BY DEF Init
<1>3. Published = {} /\ Matched = {} /\ Made = {}
  BY <1>2 DEF Published, Matched, Made, ToSet
<1>4. Room
  <2>1. IsFiniteSet({}) /\ Cardinality({}) = 0
    BY FS_EmptySet
  <2>2. MaxOrders \in Nat
    BY SettlementAssumption
  <2>3. QED
    BY <1>2, <2>1, <2>2 DEF Room
<1>5. Commands
  BY <1>2 DEF Commands
<1>6. CoreInv
  <2>1. \A id : ~Dropped(id)
    BY <1>2 DEF Dropped
  <2>2. \A id \in Ids : ~(book[id] > 0)
    BY <1>2
  <2>3. Outcomes /\ Resting /\ Traded /\ Gone /\ OnlyTrade /\ NoTradeAfter
    BY <1>2, <1>3, <2>1, <2>2 DEF Outcomes, Resting, Traded, Gone, OnlyTrade, NoTradeAfter
  <2>4. QED
    BY <2>3 DEF CoreInv
<1>7. TellInv
  BY <1>2, <1>3 DEF TellInv, FilledFirst, FillTold
<1>8. ReadInv
  BY <1>2, <1>3 DEF ReadInv, ReadMatches, ReadTrades
<1>9. \A u \in Users, a \in Assets : EndsByTrade(u, a)
  BY <1>3 DEF EndsByTrade
<1>10. \A u \in Users, a \in Assets : FrozenAgrees(u, a)
  <2>1. ASSUME NEW u \in Users, NEW a \in Assets
        PROVE  account[u][a].frozen = SumFunction([id \in OrdersOf(u, a) |-> StillFrozen(id)])
    <3>1. account[u][a].frozen = 0
      BY DEF Init
    <3>2. OrdersOf(u, a) = {}
      BY <1>2 DEF OrdersOf
    <3>3. PICK f : f = [id \in OrdersOf(u, a) |-> StillFrozen(id)]
      OBVIOUS
    <3>4. DOMAIN f = {}
      BY <3>2, <3>3
    <3>5. SumFunctionOnSet(f, {}) = 0
      BY FS_EmptySet, SumSteps
    <3>6. SumFunction(f) = 0
      BY <3>4, <3>5 DEF SumFunction
    <3>7. QED
      BY <3>1, <3>3, <3>6
  <2>2. QED
    BY <2>1 DEF FrozenAgrees
<1>11. SeenKnown
  BY <1>2 DEF SeenKnown
<1>12. QED
  BY <1>1, <1>4, <1>5, <1>6, <1>7, <1>8, <1>9, <1>10, <1>11 DEF AllInv, ShardInv, FreezeInv

LEMMA NextAllInv ==
    ASSUME AllInv, Types', [Next]_vars
    PROVE  AllInv'
<1>1. ASSUME NEW req \in Request, Lookup(req) PROVE AllInv'
  BY <1>1, LookupFreeze
<1>2. ASSUME NEW req \in Request, InsertPending(req) PROVE AllInv'
  BY <1>2, InsertPendingFreeze
<1>3. ASSUME NEW o \in DOMAIN orders, BeginCancel(o) PROVE AllInv'
  BY <1>3, BeginCancelFreeze
<1>4. ASSUME NEW o \in DOMAIN orders, RejectStalePending(o) PROVE AllInv'
  BY <1>4, RejectFreeze
<1>5. ASSUME NEW o \in DOMAIN orders, ResendCancel(o) PROVE AllInv'
  BY <1>5, ResendCancelFreeze
<1>6. ASSUME NEW adj \in Adjustments, UpdateBalance(adj) PROVE AllInv'
  BY <1>6, UpdateBalanceFreeze
<1>7. CASE Match
  BY <1>7, MatchFreeze
<1>8. CASE Publish
  BY <1>8, PublishFreeze
<1>9. CASE ApplyMatchEvent
  BY <1>9, ApplyMatchEventFreeze
<1>10. CASE ApplyTradeEvent
  BY <1>10, ApplyTradeEventFreeze
<1>11. CASE Reread
  BY <1>11, RereadFreeze
<1>12. CASE UNCHANGED vars
  BY <1>12, StutterFreeze
<1>13. QED
  BY <1>1, <1>2, <1>3, <1>4, <1>5, <1>6, <1>7, <1>8, <1>9, <1>10, <1>11, <1>12, Zenon DEF Next

(* What is frozen and why: what the shard has done with every order, what  *)
(* its events told, and what the two consumers have read of it.            *)
THEOREM AlwaysAllInv == Spec => []AllInv
<1>1. Init => AllInv
  BY InitAllInv
<1>2. IInv' => Types'
  BY DEF IInv
<1>3. AllInv /\ IInv' /\ [Next]_vars => AllInv'
  BY <1>2, NextAllInv
<1>4. QED
  BY <1>1, <1>3, AlwaysIInv, PTL DEF Spec

(* The pages of a user's buys are the orders that have quote frozen, those *)
(* of its sells the ones that have base frozen.                            *)
LEMMA ShownAreTheAccounts ==
    ASSUME Types, Room, NEW u, NEW a
    PROVE  OrdersShown(u, [side |-> SideOf(a)]) = OrdersOf(u, a)
<1>1. PICK i \in Nat, n \in Nat : /\ i = Cardinality(inflight) /\ n = Len(orders)
                                  /\ i + n <= MaxOrders /\ DOMAIN orders = 1..n
  <2>1. Cardinality(inflight) \in Nat
    BY FS_CardinalityType DEF Room
  <2>2. Len(orders) \in Nat /\ DOMAIN orders = 1..Len(orders)
    BY DEF Types
  <2>3. QED
    BY <2>1, <2>2 DEF Room
<1>2. n <= MaxOrders
  BY <1>1, SettlementAssumption
<1>3. \A o : Passes(o, [side |-> SideOf(a)]) <=> o.side = SideOf(a)
  BY DEF Passes
<1>4. {id \in DOMAIN orders : orders[id].user = u /\ Passes(orders[id], [side |-> SideOf(a)])} =
        OrdersOf(u, a)
  BY <1>3 DEF OrdersOf
<1>5. OrdersOf(u, a) \subseteq 1..n
  BY <1>1 DEF OrdersOf
<1>6. \A page : ListOrders(u, [side |-> SideOf(a)], page) = PageOf(OrdersOf(u, a), page)
  BY <1>4 DEF ListOrders
<1>7. QED
  BY <1>2, <1>5, <1>6, PagesShowAll DEF OrdersShown

(* An order has frozen at least what it needs, and no more when all comes  *)
(* out even.                                                               *)
LEMMA NeedsMet ==
    ASSUME Types, NEW u \in Users, NEW a \in Assets, Regular(u, a), CoreInv, ReadInv,
           NEW id \in OrdersOf(u, a)
    PROVE  /\ StillFrozen(id) \in Int /\ Needs(id) \in Int /\ Needs(id) <= StillFrozen(id)
           /\ ComesOutEven(u, a) => StillFrozen(id) <= Needs(id)
<1>1. PICK o \in Row : o = orders[id]
  BY DEF Types, OrdersOf
<1>2. Paid(o.side) = a
  BY <1>1, OneAccount DEF OrdersOf
<1>3. PICK l \in Nat : l = Locked(o)
  BY FrozenForIs
<1>4. StillFrozen(id) \in Nat /\ StillFrozen(id) = FrozenFor(o, SettledOf(id))
  BY <1>1, StillNat, StillIs
<1>5. CASE SettledOf(id) # {}
  <2>1. PICK tr \in SettledOf(id) : TRUE
    BY <1>5
  <2>2. tr \in trades /\ tr \in Published /\ id \in Sides(tr) /\ SettledOf(id) \subseteq Published
    BY <2>1 DEF SettledOf, ReadInv, ReadTrades
  <2>3. Needs(id) = 0
    BY <2>2 DEF Needs, Sides
  <2>4. /\ Amount(a, tr) \in Nat
        /\ \A other \in Published : id \in Sides(other) => other = tr
    BY <1>1, <1>2, <2>2, RegularTrade
  <2>5. SettledOf(id) = {tr}
    BY <2>1, <2>2, <2>4 DEF SettledOf
  <2>6. StillFrozen(id) = l - Amount(a, tr)
    <3>1. Amount(Paid(o.side), tr) \in Int
      BY <1>2, <2>4
    <3>2. FrozenFor(o, {tr}) = Locked(o) - Amount(Paid(o.side), tr)
      BY <3>1, FrozenForIs
    <3>3. QED
      BY <1>2, <1>3, <1>4, <2>5, <3>2
  <2>7. ComesOutEven(u, a) => Amount(a, tr) = l
    BY <1>1, <1>3, <2>2 DEF ComesOutEven, Sides
  <2>8. QED
    BY <1>4, <2>3, <2>4, <2>6, <2>7
<1>6. CASE SettledOf(id) = {}
  <2>1. ~\E tr \in trades : id \in {tr.maker, tr.taker}
    BY <1>6 DEF SettledOf, Sides
  <2>2. CASE o.status \in Ended
    <3>1. Needs(id) = 0
      BY <1>1, <2>2 DEF Needs, Ended
    <3>2. StillFrozen(id) = l - RoundDown(a, ComputeFreeze(o))
      BY <1>2, <1>3, <1>4, <1>6, <2>2, FrozenForIs
    <3>3. ComesOutEven(u, a) => RoundDown(a, ComputeFreeze(o)) = l
      BY <1>1, <1>3 DEF ComesOutEven
    <3>4. QED
      BY <1>3, <1>4, <3>1, <3>2, <3>3
  <2>3. CASE o.status \notin Ended
    <3>1. Needs(id) = l
      BY <1>1, <1>3, <2>1, <2>3 DEF Needs, Ended
    <3>2. StillFrozen(id) = l
      BY <1>3, <1>4, <1>6, <2>3, FrozenForIs
    <3>3. QED
      BY <3>1, <3>2
  <2>4. QED
    BY <2>2, <2>3
<1>7. QED
  BY <1>5, <1>6

(* A regular account - none of its orders filled in more than one trade or *)
(* in part, no market buy paying more than was frozen for it, no rejected  *)
(* order reaching the shard, no cancel confirmed twice - has frozen what   *)
(* its open orders need, and no more if nothing is left over by rounding   *)
(* or a better price: for any users, assets, prices and amounts, any       *)
(* number of orders, any page size, however irregular the other accounts   *)
(* are, and in whatever order the two topics are read, read again and      *)
(* mixed with cancels and rejects (ComputeFreeze,                          *)
(* ReleaseOrderRemainingFreeze, SettleTradeForUser).                       *)
THEOREM FundsKept == Spec => []FundsStayFrozen
<1>1. AllInv => FundsStayFrozen
  <2> SUFFICES ASSUME AllInv, NEW u \in Users, NEW a \in Assets, Regular(u, a), NEW needs,
                      needs = SumFunction([id \in OrdersShown(u, [side |-> SideOf(a)]) |-> Needs(id)])
               PROVE  /\ GetBalance(u, a).frozen >= needs
                      /\ ComesOutEven(u, a) => GetBalance(u, a).frozen = needs
    BY DEF FundsStayFrozen
  <2>1. GetBalance(u, a).frozen = account[u][a].frozen
    BY DEF GetBalance, ToBalance, AccountBalance
  <2>2. OrdersShown(u, [side |-> SideOf(a)]) = OrdersOf(u, a)
    BY ShownAreTheAccounts DEF AllInv, ShardInv
  <2>3. PICK S, f, g : S = OrdersOf(u, a) /\ f = [id \in S |-> Needs(id)]
                       /\ g = [id \in S |-> StillFrozen(id)]
    OBVIOUS
  <2>4. IsFiniteSet(S)
    BY <2>3, OrdersOfFinite DEF AllInv
  <2>5. needs = SumFunctionOnSet(f, S) /\ account[u][a].frozen = SumFunctionOnSet(g, S)
    BY <2>2, <2>3 DEF AllInv, FreezeInv, FrozenAgrees, SumFunction
  <2>6. \A x \in S : /\ f[x] \in Int /\ g[x] \in Int /\ f[x] <= g[x]
                     /\ ComesOutEven(u, a) => g[x] <= f[x]
    BY <2>3, NeedsMet DEF AllInv, ShardInv
  <2>7. SumFunctionOnSet(f, S) <= SumFunctionOnSet(g, S)
    BY <2>4, <2>6, SumOrder
  <2>8. ComesOutEven(u, a) => SumFunctionOnSet(g, S) <= SumFunctionOnSet(f, S)
    BY <2>4, <2>6, SumOrder
  <2>9. SumFunctionOnSet(f, S) \in Int /\ SumFunctionOnSet(g, S) \in Int
    BY <2>4, <2>6, SumTakes
  <2>10. QED
    BY <2>1, <2>5, <2>7, <2>8, <2>9
<1>2. QED
  BY <1>1, AlwaysAllInv, PTL

-----------------------------------------------------------------------------
(* The sizes: nothing rests with less than nothing, a batch is no longer   *)
(* than it may be, and no trade is read before it was written.             *)
Within ==
    /\ \A m \in Ids : book[m] >= 0
    /\ Len(batch) <= BatchMax
    /\ tPos <= Len(tradeEvents)

LEMMA TakenOnce ==
    ASSUME Types, NEW id \in DOMAIN orders, NEW fills, OneCommand(fills, id), NEW m \in Ids
    PROVE  Taken(fills, m) = 0 \/ (Taken(fills, m) \in Nat /\ Taken(fills, m) <= book[m])
<1>1. PICK S : S = {k \in DOMAIN fills : fills[k].maker = m}
  OBVIOUS
<1>2. PICK f : f = [i \in S |-> fills[i].qty]
  OBVIOUS
<1>3. Taken(fills, m) = SumFunctionOnSet(f, S)
  <2>1. DOMAIN f = S
    BY <1>2
  <2>2. QED
    BY <1>1, <1>2, <2>1 DEF Taken, SumFunction
<1>4. SumFunctionOnSet(f, {}) = 0
  BY FS_EmptySet, SumSteps
<1>5. CASE S = {}
  BY <1>3, <1>4, <1>5
<1>6. CASE S # {}
  <2>1. PICK k \in S : TRUE
    BY <1>6
  <2>2. S = {k}
    BY <1>1, <2>1 DEF OneCommand
  <2>3. /\ k \in DOMAIN fills /\ fills[k].maker = m /\ fills[k] \in GoodTrade
        /\ fills[k].qty <= book[m]
    BY <1>1, <2>1 DEF OneCommand
  <2>4. f[k] = fills[k].qty /\ f[k] \in Nat
    BY <1>2, <2>1, <2>3, GoodTradeFields
  <2>5. IsFiniteSet({k}) /\ {k} \ {k} = {}
    BY FS_Singleton
  <2>6. \A x \in {k} : f[x] \in Int
    BY <2>4
  <2>7. SumFunctionOnSet(f, {k}) = f[k] + SumFunctionOnSet(f, {k} \ {k})
    BY <2>5, <2>6, SumTakes
  <2>8. SumFunctionOnSet(f, {k}) = f[k]
    BY <1>4, <2>4, <2>5, <2>7
  <2>9. QED
    BY <1>3, <2>2, <2>3, <2>4, <2>8
<1>7. QED
  BY <1>5, <1>6

LEMMA BookStaysNat ==
    ASSUME Types, Within, NEW id \in DOMAIN orders, NEW makers \in Makers(orders[id]), NEW m \in Ids
    PROVE  BookAfter(id, Trades(id, makers))[m] >= 0
<1>1. PICK fills : fills = Trades(id, makers)
  OBVIOUS
<1>2. OneCommand(fills, id) /\ Total(fills) <= orders[id].qty
  BY <1>1, TradesOnce
<1>3. PICK q \in Nat, y \in Nat : q = orders[id].qty /\ y = Total(fills) /\ y <= q
  <2>1. fills \in Seq(GoodTrade)
    BY <1>2 DEF OneCommand
  <2>2. Total(fills) \in Nat
    BY <2>1, TakenNat
  <2>3. orders[id].qty \in Nat
    BY RowFields DEF Types
  <2>4. QED
    BY <1>2, <2>2, <2>3
<1>4. PICK c \in Nat : c = book[m]
  BY DEF Types, Within
<1>5. PICK x \in Nat : x = Taken(fills, m) /\ x <= c
  BY <1>2, <1>4, TakenOnce
<1>6. BookAfter(id, fills)[m] \in {c - x, q - y, 0}
  BY <1>3, <1>4, <1>5 DEF BookAfter
<1>7. QED
  BY <1>1, <1>3, <1>4, <1>5, <1>6

LEMMA MatchWithin ==
    ASSUME Types, Within, Match
    PROVE  Within'
<1>1. pos < Len(cmds) /\ Len(batch) < BatchMax /\ UNCHANGED <<tPos, tradeEvents>> /\ batch \in Seq(Outcome)
  BY DEF Match, topics, Types
<1>2. PICK cmd \in Command : /\ cmd = cmds[pos + 1]
         /\ \/ ApplyNewOrder(cmd.id)
            \/ ApplyCancel(cmd.id)
            \/ UNCHANGED <<seen, book, batch>>
  <2>1. pos + 1 \in DOMAIN cmds /\ cmds \in Seq(Command)
    BY <1>1 DEF Types
  <2>2. cmds[pos + 1] \in Command
    BY <2>1
  <2>3. QED
    BY <2>2, Zenon DEF Match
<1>3. PICK id \in DOMAIN orders : id = cmd.id
  BY DEF Command
<1>4. PICK n \in Nat : n = Len(batch) /\ n < BatchMax /\ BatchMax \in Nat
  BY <1>1, SettlementAssumption
<1>5. tPos' <= Len(tradeEvents')
  BY <1>1 DEF Within
<1>6. CASE ApplyNewOrder(cmd.id)
  <2>1. PICK makers \in Makers(orders[id]) : \E fills \in {Trades(id, makers)} :
           /\ book' = BookAfter(id, fills)
           /\ batch' = Append(batch, [kind |-> "New", id |-> id, trades |-> fills, seq |-> pos + 1])
    BY <1>3, <1>6, Zenon DEF ApplyNewOrder
  <2>2. \A m \in Ids : book'[m] >= 0
    BY <2>1, BookStaysNat
  <2>3. Len(batch') = n + 1
    BY <1>1, <1>4, <2>1
  <2>4. QED
    BY <1>4, <1>5, <2>2, <2>3 DEF Within
<1>7. CASE ApplyCancel(cmd.id)
  <2>1. \A m \in Ids : book'[m] >= 0
    BY <1>7 DEF ApplyCancel, Within, Types
  <2>2. Len(batch') = n + 1
    BY <1>1, <1>4, <1>7 DEF ApplyCancel
  <2>3. QED
    BY <1>4, <1>5, <2>1, <2>2 DEF Within
<1>8. CASE UNCHANGED <<seen, book, batch>>
  BY <1>5, <1>8 DEF Within
<1>9. QED
  BY <1>2, <1>6, <1>7, <1>8

LEMMA PublishWithin ==
    ASSUME Types, Types', Within, Publish
    PROVE  Within'
<1>1. PICK more : more = FlattenSeq([i \in DOMAIN batch |-> batch[i].trades])
  OBVIOUS
<1>2. tradeEvents' = tradeEvents \o more /\ batch' = <<>> /\ UNCHANGED <<book, tPos>>
  BY <1>1 DEF Publish
<1>3. Len(tradeEvents') >= Len(tradeEvents)
  <2>1. batch \in Seq(Outcome)
    BY DEF Types
  <2>2. ASSUME NEW i \in DOMAIN batch PROVE batch[i].trades \in Seq(GoodTrade)
    <3>1. batch[i] \in Outcome
      BY <2>1
    <3>2. QED
      BY <3>1 DEF Outcome
  <2>3. [i \in DOMAIN batch |-> batch[i].trades] \in Seq(Seq(GoodTrade))
    <3>1. PICK n \in Nat : DOMAIN batch = 1..n
      BY <2>1
    <3>2. [i \in 1..n |-> batch[i].trades] \in [1..n -> Seq(GoodTrade)]
      BY <2>2, <3>1
    <3>3. QED
      BY <3>1, <3>2
  <2>4. more \in Seq(GoodTrade)
    BY <1>1, <2>3, FlatSeq
  <2>5. Len(tradeEvents') = Len(tradeEvents) + Len(more) /\ Len(more) \in Nat /\ Len(tradeEvents) \in Nat
    BY <1>2, <2>4 DEF Types
  <2>6. QED
    BY <2>5
<1>4. Len(batch') = 0 /\ BatchMax \in Nat
  BY <1>2, SettlementAssumption
<1>5. tPos \in Nat /\ Len(tradeEvents) \in Nat /\ Len(tradeEvents') \in Nat
  BY DEF Types
<1>6. tPos' <= Len(tradeEvents')
  BY <1>2, <1>3, <1>5 DEF Within
<1>7. QED
  BY <1>2, <1>4, <1>6 DEF Within

LEMMA NextWithin ==
    ASSUME Types, Types', Within, [Next]_vars
    PROVE  Within'
<1>1. ASSUME UNCHANGED <<book, batch, tradeEvents, tPos>> PROVE Within'
  BY <1>1 DEF Within
<1>2. ASSUME NEW req \in Request, Lookup(req) PROVE Within'
  BY <1>1, <1>2 DEF Lookup, shard, topics
<1>3. ASSUME NEW req \in Request, InsertPending(req) PROVE Within'
  BY <1>1, <1>3 DEF InsertPending, shard, topics
<1>4. ASSUME NEW o \in DOMAIN orders, BeginCancel(o) PROVE Within'
  BY <1>1, <1>4 DEF BeginCancel, shard, topics
<1>5. ASSUME NEW o \in DOMAIN orders, RejectStalePending(o) PROVE Within'
  BY <1>1, <1>5 DEF RejectStalePending, shard, topics
<1>6. ASSUME NEW o \in DOMAIN orders, ResendCancel(o) PROVE Within'
  BY <1>1, <1>6 DEF ResendCancel, shard, topics
<1>7. ASSUME NEW adj \in Adjustments, UpdateBalance(adj) PROVE Within'
  BY <1>1, <1>7 DEF UpdateBalance, shard, topics
<1>8. CASE Match
  BY <1>8, MatchWithin
<1>9. CASE Publish
  BY <1>9, PublishWithin
<1>10. CASE ApplyMatchEvent
  BY <1>1, <1>10 DEF ApplyMatchEvent, shard, topics
<1>11. CASE ApplyTradeEvent
  <2>1. /\ tPos < Len(tradeEvents) /\ tPos' = tPos + 1
        /\ UNCHANGED <<book, batch, tradeEvents>>
    BY <1>11 DEF ApplyTradeEvent, shard, topics
  <2>2. tPos \in Nat /\ Len(tradeEvents) \in Nat
    BY DEF Types
  <2>3. QED
    BY <2>1, <2>2 DEF Within
<1>12. CASE Reread
  <2>1. UNCHANGED <<book, batch, tradeEvents>> /\ (tPos' = tPos \/ (tPos > 0 /\ tPos' = tPos - 1))
    BY <1>12 DEF Reread, shard, topics
  <2>2. tPos \in Nat /\ Len(tradeEvents) \in Nat
    BY DEF Types
  <2>3. QED
    BY <2>1, <2>2 DEF Within
<1>13. CASE UNCHANGED vars
  BY <1>1, <1>13 DEF vars, shard, topics
<1>14. QED
  BY <1>2, <1>3, <1>4, <1>5, <1>6, <1>7, <1>8, <1>9, <1>10, <1>11, <1>12, <1>13, Zenon DEF Next

(* Every variable keeps its type: no account is overdrawn, no order is     *)
(* filled beyond its quantity or rests with less than nothing, in the      *)
(* table as in the book, no batch is too long, and no consumer is ahead of *)
(* its topic (matchAgainstBook, ReserveFunds, appendBatch).                *)
THEOREM TypeCorrect == Spec => []TypeOK
<1>1. Init => Within
  <2> SUFFICES ASSUME Init PROVE Within
    OBVIOUS
  <2>1. /\ batch = <<>> /\ Len(batch) = 0 /\ tradeEvents = <<>> /\ Len(tradeEvents) = 0 /\ tPos = 0
        /\ \A m \in Ids : book[m] = 0
    BY DEF Init
  <2>2. BatchMax \in Nat
    BY SettlementAssumption
  <2>3. QED
    BY <2>1, <2>2 DEF Within
<1>2. IInv => Types
  BY DEF IInv
<1>3. IInv' => Types'
  BY DEF IInv
<1>4. Within /\ IInv /\ IInv' /\ [Next]_vars => Within'
  BY <1>2, <1>3, NextWithin
<1>5. AllInv /\ Within => TypeOK
  <2> SUFFICES ASSUME AllInv, Within PROVE TypeOK
    OBVIOUS
  <2>1. Types /\ SeenKnown /\ Commands /\ ReadMatches /\ ReadTrades
    BY DEF AllInv, ShardInv, ReadInv
  <2>2. ASSUME NEW id \in DOMAIN orders
        PROVE  orders[id].status \in Status /\ orders[id].filled \in 0..orders[id].qty
    <3>1. orders[id] \in Row
      BY <2>1 DEF Types
    <3>2. QED
      BY <3>1 DEF Row
  <2>3. book \in [Ids -> Nat]
    BY <2>1 DEF Types, Within
  <2>4. account \in [Users -> [Assets -> [free : Nat, frozen : Nat]]]
    BY <2>1 DEF Types, Accounts
  <2>5. /\ pos \in 0..Len(cmds) /\ mPos \in 0..Len(matchEvents) /\ tPos \in 0..Len(tradeEvents)
    BY <2>1 DEF Types, Within, Commands, ReadMatches
  <2>6. inflight \subseteq Request
    BY <2>1 DEF Types, Valid
  <2>7. trades \subseteq ToSet(tradeEvents) /\ processed \subseteq ToSet(matchEvents)
    BY <2>1 DEF ReadMatches, ReadTrades, Published
  <2>8. QED
    BY <2>1, <2>2, <2>3, <2>4, <2>5, <2>6, <2>7 DEF TypeOK, SeenKnown, Within
<1>6. QED
  BY <1>1, <1>4, <1>5, AlwaysIInv, AlwaysAllInv, PTL DEF Spec
=============================================================================
