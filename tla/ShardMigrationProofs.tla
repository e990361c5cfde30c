------------------------ MODULE ShardMigrationProofs ------------------------
(***************************************************************************)
(* Moving a symbol from shard to shard, and the candle service.            *)
(*                                                                         *)
(* ShardMigration: in every manager of the system the list of a shard      *)
(* holds exactly the symbols routed to it, for any symbols, shards and     *)
(* routes and any number of migrations, also of several symbols at once.   *)
(* What makes it inductive is that a migration remembers the route the     *)
(* symbol has: rebuildShardIndex takes the symbol from the list of the     *)
(* shard the migration names, not of the shard the symbol is routed to.    *)
(* Without a breach the new orders of a symbol are matched by one shard,   *)
(* and a shard that starts agrees with the database.                       *)
(*                                                                         *)
(* Candles: a stored bar is the bar its trades define, and a query answers *)
(* bars in order.  The first rests on what the open bar of an interval is  *)
(* after n trades, and on a bar being settled by the first trade of a      *)
(* later bucket; the second on the open bars and their snapshots never     *)
(* being of a bucket before a closed one, through restarts.                *)
(***************************************************************************)
EXTENDS ShardMigration, Candles, InductionFacts, SequenceTheorems, FiniteSetTheorems, TLAPS

ManagerType(m) ==
    /\ m = [routes |-> m.routes, index |-> m.index, migs |-> m.migs]
    /\ m.routes \in [Symbols -> Routes]
    /\ m.index \in [Shards -> SUBSET Symbols]
    /\ DOMAIN m.migs \subseteq Symbols
    /\ \A sym \in DOMAIN m.migs : m.migs[sym] \in Migration

FromWhereItIs(m) == \A sym \in DOMAIN m.migs : m.migs[sym].from = m.routes[sym]

GoodManager(m) == ManagerType(m) /\ FromWhereItIs(m) /\ ManagerAgrees(m)

IndexInv ==
    /\ GoodManager(file)
    /\ DOMAIN router = Pods /\ \A p \in Pods : ManagerAgrees(router[p])
    /\ DOMAIN shard = Shards
    /\ \A s \in Shards : shard[s].up => ManagerAgrees(shard[s].mgr)

(* A manager read from the file agrees with itself (NewFromConfig).        *)
LEMMA LoadFileAgrees ==
    ASSUME NEW m, ManagerType(m)
    PROVE  ManagerAgrees(LoadFile(m))
BY DEF ManagerType, ManagerAgrees, LoadFile, IndexOf

(* Adding or replacing a migration leaves routes and lists alone.          *)
LEMMA WithMigrationGood ==
    ASSUME NEW m, GoodManager(m), NEW sym \in Symbols, NEW mig \in Migration,
           mig.from = m.routes[sym]
    PROVE  GoodManager(WithMigration(m, sym, mig))
<1> DEFINE w == WithMigration(m, sym, mig)
           migs == [x \in DOMAIN m.migs \union {sym} |-> IF x = sym THEN mig ELSE m.migs[x]]
<1>1. w = [routes |-> m.routes, index |-> m.index, migs |-> migs]
  BY DEF GoodManager, ManagerType, WithMigration
<1>2. w.routes = m.routes /\ w.index = m.index /\ w.migs = migs
  BY <1>1
<1>3. /\ DOMAIN migs \subseteq Symbols
      /\ \A x \in DOMAIN migs : migs[x] \in Migration /\ migs[x].from = m.routes[x]
  BY DEF GoodManager, ManagerType, FromWhereItIs
<1> HIDE DEF w, migs
<1>4. ManagerType(w)
  BY <1>1, <1>2, <1>3 DEF GoodManager, ManagerType
<1>5. FromWhereItIs(w) /\ ManagerAgrees(w)
  BY <1>2, <1>3 DEF GoodManager, FromWhereItIs, ManagerAgrees
<1> QED BY <1>4, <1>5 DEF GoodManager, w

(* CompleteMigration moves the symbol from the list it is in to the list   *)
(* of its new shard, and keeps the other migrations' origins.              *)
LEMMA CompleteMigrationGood ==
    ASSUME NEW m, GoodManager(m), NEW sym \in DOMAIN m.migs
    PROVE  GoodManager(CompleteMigration(m, sym))
<1> DEFINE c == CompleteMigration(m, sym)
           routes == [m.routes EXCEPT ![sym] = m.migs[sym].to]
           index == RebuildShardIndex(m, sym)
           migs == [x \in DOMAIN m.migs \ {sym} |-> m.migs[x]]
<1>1. c = [routes |-> routes, index |-> index, migs |-> migs]
  BY DEF CompleteMigration
<1>2. c.routes = routes /\ c.index = index /\ c.migs = migs
  BY <1>1
<1>3. /\ sym \in Symbols
      /\ m.migs[sym].from \in Routes /\ m.migs[sym].to \in Routes
      /\ m.migs[sym].from.shard \in Shards /\ m.migs[sym].to.shard \in Shards
      /\ m.migs[sym].from = m.routes[sym]
  BY ShardMigrationAssumption DEF GoodManager, ManagerType, FromWhereItIs, Migration
<1>4. routes \in [Symbols -> Routes]
  BY <1>3 DEF GoodManager, ManagerType
<1>5. index \in [Shards -> SUBSET Symbols]
  BY <1>3 DEF GoodManager, ManagerType, RebuildShardIndex
<1>6. /\ DOMAIN migs \subseteq Symbols
      /\ \A x \in DOMAIN migs : migs[x] \in Migration /\ migs[x].from = routes[x]
  BY <1>3 DEF GoodManager, ManagerType, FromWhereItIs
<1>7. \A s \in Shards : index[s] = {x \in Symbols : routes[x].shard = s}
  <2> SUFFICES ASSUME NEW s \in Shards
               PROVE  index[s] = {x \in Symbols : routes[x].shard = s}
    OBVIOUS
  <2>1. m.index[s] = {x \in Symbols : m.routes[x].shard = s}
    BY DEF GoodManager, ManagerAgrees
  <2>2. \A x \in Symbols : x \in index[s] <=>
            IF x = sym THEN s = m.migs[sym].to.shard ELSE x \in m.index[s]
    BY <1>3, <2>1 DEF GoodManager, ManagerType, RebuildShardIndex
  <2>3. \A x \in Symbols : routes[x] = IF x = sym THEN m.migs[sym].to ELSE m.routes[x]
    BY <1>3 DEF GoodManager, ManagerType
  <2> HIDE DEF index, routes
  <2>4. \A x \in Symbols : x \in index[s] <=> routes[x].shard = s
    BY <2>1, <2>2, <2>3
  <2> QED BY <1>5, <2>4
<1> HIDE DEF c, routes, index, migs
<1>8. ManagerType(c) /\ FromWhereItIs(c) /\ ManagerAgrees(c)
  BY <1>1, <1>2, <1>4, <1>5, <1>6, <1>7 DEF ManagerType, FromWhereItIs, ManagerAgrees
<1> QED BY <1>8 DEF GoodManager, c

(* SetMigrationPhase, to the next phase or to the end.                     *)
LEMMA SetMigrationPhaseGood ==
    ASSUME NEW m, GoodManager(m), NEW sym \in Symbols, NEW ph \in Phases,
           CanSetPhase(m, sym, ph)
    PROVE  GoodManager(SetMigrationPhase(m, sym, ph))
<1>1. sym \in DOMAIN m.migs
  BY DEF CanSetPhase, Migrating
<1>2. CASE ph = "complete"
  BY <1>1, <1>2, CompleteMigrationGood DEF SetMigrationPhase
<1>3. CASE ph # "complete"
  <2> DEFINE mig == [m.migs[sym] EXCEPT !.phase = ph]
  <2>1. m.migs[sym] \in Migration /\ m.migs[sym].from = m.routes[sym]
    BY <1>1 DEF GoodManager, ManagerType, FromWhereItIs
  <2>2. mig \in Migration /\ mig.from = m.routes[sym]
    BY <2>1 DEF Migration
  <2> HIDE DEF mig
  <2>3. GoodManager(WithMigration(m, sym, mig))
    BY <2>2, WithMigrationGood
  <2> QED BY <1>3, <2>3 DEF SetMigrationPhase, mig
<1> QED BY <1>2, <1>3

LEMMA InitIndex == Init => IndexInv
<1> SUFFICES ASSUME Init PROVE IndexInv
  OBVIOUS
<1>1. /\ file.routes = Home /\ file.index = IndexOf(Home)
      /\ DOMAIN file.migs = {}
      /\ file = [routes |-> file.routes, index |-> file.index, migs |-> file.migs]
  BY DEF Init
<1>2. GoodManager(file)
  BY <1>1, ShardMigrationAssumption
  DEF GoodManager, ManagerType, FromWhereItIs, ManagerAgrees, IndexOf
<1>3. /\ DOMAIN router = Pods /\ \A p \in Pods : router[p] = file
      /\ DOMAIN shard = Shards
  BY DEF Init
<1>4. \A s \in Shards : shard[s].up => shard[s].mgr = file
  BY DEF Init, Down
<1> QED BY <1>2, <1>3, <1>4 DEF IndexInv, GoodManager

LEMMA NextIndex == IndexInv /\ [Next]_vars => IndexInv'
<1> SUFFICES ASSUME IndexInv, [Next]_vars PROVE IndexInv'
  OBVIOUS
<1>1. ASSUME UNCHANGED <<file, router, shard>> PROVE IndexInv'
  BY <1>1 DEF IndexInv, GoodManager, ManagerType, FromWhereItIs, ManagerAgrees
<1>2. ASSUME UNCHANGED <<router, shard>>, GoodManager(file') PROVE IndexInv'
  BY <1>2 DEF IndexInv, GoodManager, ManagerType, FromWhereItIs, ManagerAgrees
<1>3. ASSUME NEW sym \in Symbols, NEW to \in Routes, Begin(sym, to) PROVE IndexInv'
  <2> DEFINE mig == [from |-> file.routes[sym], to |-> to, phase |-> "halt_only_cancel"]
  <2>1. mig \in Migration /\ mig.from = file.routes[sym]
    <3>1. "halt_only_cancel" \in Phases
      BY DEF Phases, PhaseOrder
    <3>2. file.routes[sym] \in Routes
      BY DEF IndexInv, GoodManager, ManagerType
    <3> QED BY <3>1, <3>2 DEF Migration
  <2> HIDE DEF mig
  <2>2. GoodManager(WithMigration(file, sym, mig))
    BY <2>1, WithMigrationGood DEF IndexInv
  <2>3. file' = WithMigration(file, sym, mig) /\ UNCHANGED <<router, shard>>
    BY <1>3 DEF Begin, StartMigration, processes, mig
  <2> QED BY <1>2, <2>2, <2>3
<1>4. ASSUME NEW sym \in Symbols, Advance(sym) PROVE IndexInv'
  <2>1. PICK ph \in Phases : CanSetPhase(file, sym, ph)
                                /\ file' = SetMigrationPhase(file, sym, ph)
    BY <1>4 DEF Advance
  <2>2. GoodManager(file')
    BY <2>1, SetMigrationPhaseGood DEF IndexInv
  <2>3. UNCHANGED <<router, shard>>
    BY <1>4 DEF Advance, processes
  <2> QED BY <1>2, <2>2, <2>3
<1>5. ASSUME NEW p \in Pods, StartOrderService(p) PROVE IndexInv'
  <2>1. router' = [router EXCEPT ![p] = LoadFile(file)] /\ UNCHANGED <<file, shard>>
    BY <1>5 DEF StartOrderService
  <2>2. ManagerAgrees(LoadFile(file))
    BY LoadFileAgrees DEF IndexInv, GoodManager
  <2>3. DOMAIN router' = Pods
        /\ \A q \in Pods : router'[q] = IF q = p THEN LoadFile(file) ELSE router[q]
    BY <2>1 DEF IndexInv
  <2>4. \A q \in Pods : ManagerAgrees(router'[q])
    BY <2>2, <2>3 DEF IndexInv
  <2> QED BY <2>1, <2>3, <2>4 DEF IndexInv, GoodManager, ManagerType, FromWhereItIs, ManagerAgrees
<1>6. ASSUME NEW s \in Shards, StartShard(s) PROVE IndexInv'
  <2>1. shard' = [shard EXCEPT ![s] = Started(s)] /\ UNCHANGED <<file, router>>
    BY <1>6 DEF StartShard
  <2>2. ManagerAgrees(LoadFile(file))
    BY LoadFileAgrees DEF IndexInv, GoodManager
  <2>3. Started(s).mgr = LoadFile(file)
    BY DEF Started
  <2>4. DOMAIN shard' = Shards
        /\ \A x \in Shards : shard'[x] = IF x = s THEN Started(s) ELSE shard[x]
    BY <2>1 DEF IndexInv
  <2>5. \A x \in Shards : shard'[x].up => ManagerAgrees(shard'[x].mgr)
    BY <2>2, <2>3, <2>4 DEF IndexInv
  <2> QED BY <2>1, <2>4, <2>5 DEF IndexInv, GoodManager, ManagerType, FromWhereItIs, ManagerAgrees
<1>7. CASE UNCHANGED vars
  BY <1>1, <1>7 DEF vars
<1>8. ASSUME NEW sym \in Symbols, CopyBook(sym) PROVE IndexInv'
  BY <1>1, <1>8 DEF CopyBook, processes
<1>9. ASSUME NEW p \in Pods, NEW o \in Orders,
             Place(p, o) \/ Cancel(p, o) \/ RejectStalePending(p, o) \/ ResendCancelCommand(o)
      PROVE  IndexInv'
  BY <1>1, <1>9 DEF Place, Cancel, RejectStalePending, ResendCancelCommand, processes
<1>10. ASSUME NEW p \in Pods, SendCommand(p) \/ SkipCommand \/ ApplyEvent PROVE IndexInv'
  BY <1>1, <1>10 DEF SendCommand, SkipCommand, ApplyEvent, processes
<1>11. ASSUME NEW s \in Shards, NEW r \in Routes, Consume(s, r) PROVE IndexInv'
  BY <1>1, <1>11 DEF Consume, processes
<1>12. \E p : p \in Pods
  BY ShardMigrationAssumption
<1> QED BY <1>12, <1>3, <1>4, <1>5, <1>6, <1>7, <1>8, <1>9, <1>10, <1>11 DEF Next

(* IndexAgrees always holds: no sequence of migrations and restarts leaves *)
(* a symbol in two lists, in none, or in that of a shard it is not routed  *)
(* to.                                                                     *)
THEOREM IndexFollowsRoutes == Spec => []IndexAgrees
<1>1. IndexInv => IndexAgrees
  BY DEF IndexInv, IndexAgrees, GoodManager
<1> QED BY <1>1, InitIndex, NextIndex, PTL DEF Spec

-----------------------------------------------------------------------------
(* Where the orders of a symbol are matched, as long as there is no        *)
(* breach.  A pod is then never more than a phase behind the file; the new *)
(* shard is not started before it has the book; and no new order is under  *)
(* way when the route changes: while one pod is at the cutover and another *)
(* at the drain, none is admitted.  Nobody states this in one place: the   *)
(* invariant has a part for the managers, one for the commands under way,  *)
(* one for where each order is, and one for books, events and statuses.    *)

(* The commands and events of the model.                                   *)
Command == [kind : {"New", "Cancel"}, id : Orders]

Event == [id : Orders, type : EventType]

MigrationTypes ==
    /\ \A p \in Pods : ManagerType(router[p])
    /\ \A s \in Shards : shard[s] = Down \/ shard[s].up = TRUE
    /\ status \in [Orders -> Status \union {"none"}]
    /\ outbox \in Seq(Command) /\ queue \in [Routes -> Seq(Command)]
    /\ book \in [Shards -> SUBSET Orders] /\ seen \in [Shards -> SUBSET Orders]
    /\ events \in Seq(Event)

(* What a manager says of a symbol.                                        *)
Phase(m, sym) == IF Migrating(m, sym) THEN m.migs[sym].phase ELSE "none"

Target(m, sym) == m.migs[sym].to

(* The shard served the symbol from the start, or was given its book.      *)
Ready(sym, s) == Home[sym].shard = s \/ <<sym, s>> \in copied

Serves(s, sym) == shard[s].up /\ sym \in shard[s].symbols

(* The route of a symbol leads to a running shard that has its book; the   *)
(* target of a migration is down until it has, and is nobody else's.       *)
Placement ==
    /\ \A sym \in Symbols : shard[Home[sym].shard].up
    /\ \A sym \in Symbols : /\ Serves(file.routes[sym].shard, sym)
                            /\ Ready(sym, file.routes[sym].shard)
    /\ \A sym \in Symbols : Phase(file, sym) # "complete"
    /\ \A sym \in Symbols : Phase(file, sym) # "none" =>
         \/ shard[Target(file, sym).shard] = Down
         \/ /\ Phase(file, sym) = "cutover" /\ <<sym, Target(file, sym).shard>> \in copied
            /\ Serves(Target(file, sym).shard, sym)
    /\ \A x, y \in Symbols :
         (/\ Phase(file, x) # "none" /\ Phase(file, y) # "none"
          /\ Target(file, x).shard = Target(file, y).shard) => x = y
    /\ \A sym \in Symbols, s \in Shards : <<sym, s>> \in copied =>
         \/ shard[s].up
         \/ Phase(file, sym) = "cutover" /\ Target(file, sym).shard = s

(* How far a pod may be behind the file.                                   *)
RouterFollows ==
    \A sym \in Symbols, p \in Pods :
        /\ Phase(file, sym) # "cutover" => CommandRoute(router[p], sym) = file.routes[sym]
        /\ Phase(file, sym) = "drain" => Phase(router[p], sym) \in {"halt_no_write", "drain"}
        /\ Phase(file, sym) = "cutover" =>
             \/ Phase(router[p], sym) = "drain" /\ CommandRoute(router[p], sym) = file.routes[sym]
             \/ Phase(router[p], sym) = "cutover" /\ CommandRoute(router[p], sym) = Target(file, sym)

(* No new order of the symbol is under way: no pod takes one, or those     *)
(* that do have not yet, because others still route to the old shard.      *)
Stopped(sym) ==
    \/ Phase(file, sym) = "drain"
    \/ Phase(file, sym) = "cutover" /\ \E p \in Pods : Phase(router[p], sym) = "drain"

(* The new shard has the book.                                             *)
Moved(sym) == Phase(file, sym) = "cutover" /\ <<sym, Target(file, sym).shard>> \in copied

ServedAt(sym) == IF Moved(sym) THEN Target(file, sym).shard ELSE file.routes[sym].shard

In(cmds, o) == \E i \in DOMAIN cmds : cmds[i].id = o

NewIn(cmds, o) == \E i \in DOMAIN cmds : cmds[i].id = o /\ cmds[i].kind = "New"

(* The command that creates an order is ahead of its others, and is one.   *)
NewFirst(cmds) ==
    \A i, j \in DOMAIN cmds : (cmds[i].kind = "New" /\ cmds[j].id = cmds[i].id) => i <= j

(* Where commands are under way to.                                        *)
CommandsFollow ==
    /\ \A o \in Orders : Stopped(SymbolOf[o]) =>
         ~NewIn(outbox, o) /\ \A r \in Routes : ~NewIn(queue[r], o)
    /\ \A r \in Routes, o \in Orders, p \in Pods :
         NewIn(queue[r], o) => r = CommandRoute(router[p], SymbolOf[o])
    /\ \A sym \in Symbols, p \in Pods : Moved(sym) => Phase(router[p], sym) = "cutover"
    /\ \A r \in Routes, o \in Orders : In(queue[r], o) =>
         \/ ~Moved(SymbolOf[o]) /\ r = file.routes[SymbolOf[o]]
         \/ Phase(file, SymbolOf[o]) = "cutover" /\ r = Target(file, SymbolOf[o])

Mentions(evs, o) == \E i \in DOMAIN evs : evs[i].id = o

Untouched(o) ==
    (\A s \in Shards : o \notin seen[s] /\ o \notin book[s]) /\ ~Mentions(events, o)

(* An order is in one place: not there, under way, or seen by one shard.   *)
CommandOnce ==
    /\ NewFirst(outbox) /\ \A r \in Routes : NewFirst(queue[r])
    /\ \A o \in Orders : NewIn(outbox, o) => \A r \in Routes : ~In(queue[r], o)
    /\ \A o \in Orders, r1, r2 \in Routes : (r1 # r2 /\ NewIn(queue[r1], o)) => ~In(queue[r2], o)
    /\ \A o \in Orders : status[o] = "none" =>
         ~In(outbox, o) /\ (\A r \in Routes : ~In(queue[r], o)) /\ Untouched(o)
    /\ \A o \in Orders :
         (NewIn(outbox, o) \/ \E r \in Routes : NewIn(queue[r], o)) =>
            Untouched(o) /\ status[o] \in {"PENDING", "CANCELING", "REJECTED"}
    /\ \A s1, s2 \in Shards : s1 # s2 => seen[s1] \intersect seen[s2] = {}

Rests(o) == o \in book[ServedAt(SymbolOf[o])]

Ends(ev, o) == ev.id = o /\ ev.type \in {"FILLED", "CANCELED"}

Ended(evs, o) == \E i \in DOMAIN evs : Ends(evs[i], o)

(* The last of the order's events that says it was partly filled or is     *)
(* over says that it was partly filled.                                    *)
PartlyFilled(evs, o) ==
    \E i \in DOMAIN evs : /\ evs[i].id = o /\ evs[i].type = "PARTIAL"
                          /\ \A j \in DOMAIN evs : j > i => ~Ends(evs[j], o)

(* Book, events under way and database tell one story.                     *)
BookFollows ==
    /\ \A s \in Shards : \A o \in book[s] : Ready(SymbolOf[o], s)
    /\ \A o \in Orders : Rests(o) => status[o] \notin {"FILLED", "CANCELED"} /\ ~Ended(events, o)
    /\ \A o \in Orders : status[o] = "PARTIAL" => Rests(o) \/ Ended(events, o)
    /\ \A o \in Orders : PartlyFilled(events, o) => Rests(o)

MigrationInv ==
    /\ IndexInv /\ MigrationTypes /\ Placement /\ RouterFollows
    /\ CommandsFollow /\ CommandOnce /\ BookFollows

(* A breach, once noted, stays noted.                                      *)
UnbreachedInv == IndexInv /\ (breaches = {} => MigrationInv)

-----------------------------------------------------------------------------
(* Commands and events as sequences.                                       *)

(* A command is appended.                                                  *)
LEMMA AppendCommand ==
    ASSUME NEW c \in Seq(Command), NEW x \in Command
    PROVE  /\ Append(c, x) \in Seq(Command)
           /\ \A o : In(Append(c, x), o) <=> In(c, o) \/ x.id = o
           /\ \A o : NewIn(Append(c, x), o) <=> NewIn(c, o) \/ (x.id = o /\ x.kind = "New")
           /\ (NewFirst(c) /\ (x.kind = "New" => ~In(c, x.id))) => NewFirst(Append(c, x))
<1> DEFINE a == Append(c, x)
<1>1. /\ a \in Seq(Command) /\ Len(a) = Len(c) + 1 /\ DOMAIN a = 1..Len(c) + 1
      /\ DOMAIN c = 1..Len(c) /\ Len(c) \in Nat
      /\ (\A i \in 1..Len(c) : a[i] = c[i]) /\ a[Len(c) + 1] = x
  OBVIOUS
<1> HIDE DEF a
<1>2. \A o : In(a, o) <=> In(c, o) \/ x.id = o
  BY <1>1 DEF In
<1>3. \A o : NewIn(a, o) <=> NewIn(c, o) \/ (x.id = o /\ x.kind = "New")
  BY <1>1 DEF NewIn
<1>4. ASSUME NewFirst(c), x.kind = "New" => ~In(c, x.id) PROVE NewFirst(a)
  <2> SUFFICES ASSUME NEW i \in DOMAIN a, NEW j \in DOMAIN a, a[i].kind = "New", a[j].id = a[i].id
               PROVE  i <= j
    BY DEF NewFirst
  <2>1. CASE i \in 1..Len(c) /\ j \in 1..Len(c)
    BY <1>1, <1>4, <2>1 DEF NewFirst
  <2>2. CASE j = Len(c) + 1
    BY <1>1, <2>2
  <2>3. CASE i = Len(c) + 1 /\ j \in 1..Len(c)
    BY <1>1, <1>4, <2>3 DEF In
  <2> QED BY <1>1, <2>1, <2>2, <2>3
<1> QED BY <1>1, <1>2, <1>3, <1>4 DEF a

(* The first command is taken.                                             *)
LEMMA TakeCommand ==
    ASSUME NEW c \in Seq(Command), c # <<>>
    PROVE  /\ Head(c) \in Command /\ Tail(c) \in Seq(Command)
           /\ \A o : In(Tail(c), o) => In(c, o)
           /\ \A o : NewIn(Tail(c), o) => NewIn(c, o)
           /\ In(c, Head(c).id)
           /\ Head(c).kind = "New" => NewIn(c, Head(c).id)
           /\ NewFirst(c) => NewFirst(Tail(c)) /\ ~NewIn(Tail(c), Head(c).id)
           /\ (NewFirst(c) /\ Head(c).kind = "Cancel") => ~NewIn(c, Head(c).id)
<1> DEFINE t == Tail(c)
<1>1. /\ Head(c) \in Command /\ t \in Seq(Command) /\ Len(c) \in Nat \ {0}
      /\ DOMAIN c = 1..Len(c) /\ DOMAIN t = 1..Len(c) - 1
      /\ Head(c) = c[1] /\ \A i \in 1..Len(c) - 1 : t[i] = c[i + 1]
  OBVIOUS
<1> HIDE DEF t
<1>2. (\A o : In(t, o) => In(c, o)) /\ (\A o : NewIn(t, o) => NewIn(c, o))
  <2>1. \A i \in DOMAIN t : i + 1 \in DOMAIN c /\ t[i] = c[i + 1]
    BY <1>1
  <2>2. \A o : In(t, o) => In(c, o)
    BY <2>1 DEF In
  <2>3. \A o : NewIn(t, o) => NewIn(c, o)
    BY <2>1 DEF NewIn
  <2> QED BY <2>2, <2>3
<1>3. In(c, Head(c).id) /\ (Head(c).kind = "New" => NewIn(c, Head(c).id))
  BY <1>1 DEF In, NewIn
<1>4. ASSUME NewFirst(c) PROVE NewFirst(t) /\ ~NewIn(t, Head(c).id)
  <2>1. NewFirst(t)
    <3> SUFFICES ASSUME NEW i \in DOMAIN t, NEW j \in DOMAIN t, t[i].kind = "New", t[j].id = t[i].id
                 PROVE  i <= j
      BY DEF NewFirst
    <3>1. i + 1 \in DOMAIN c /\ j + 1 \in DOMAIN c /\ t[i] = c[i + 1] /\ t[j] = c[j + 1]
      BY <1>1
    <3>2. i + 1 <= j + 1
      BY <1>4, <3>1 DEF NewFirst
    <3> QED BY <1>1, <3>2
  <2>2. ASSUME NewIn(t, Head(c).id) PROVE FALSE
    <3>1. PICK i \in DOMAIN t : t[i].id = Head(c).id /\ t[i].kind = "New"
      BY <2>2 DEF NewIn
    <3>2. i + 1 \in DOMAIN c /\ 1 \in DOMAIN c /\ t[i] = c[i + 1]
      BY <1>1
    <3>3. i + 1 <= 1
      BY <1>1, <1>4, <3>1, <3>2 DEF NewFirst
    <3> QED BY <1>1, <3>3
  <2> QED BY <2>1, <2>2
<1>5. ASSUME NewFirst(c), Head(c).kind = "Cancel", NewIn(c, Head(c).id) PROVE FALSE
  <2>1. PICK i \in DOMAIN c : c[i].id = Head(c).id /\ c[i].kind = "New"
    BY <1>5 DEF NewIn
  <2>2. i <= 1
    BY <1>1, <1>5, <2>1 DEF NewFirst
  <2>3. i = 1
    BY <1>1, <2>2
  <2> QED BY <1>1, <1>5, <2>1, <2>3
<1> QED BY <1>1, <1>2, <1>3, <1>4, <1>5 DEF t

(* An event is appended.                                                   *)
LEMMA AppendEvent ==
    ASSUME NEW e \in Seq(Event), NEW x \in Event
    PROVE  /\ Append(e, x) \in Seq(Event)
           /\ \A o : Mentions(Append(e, x), o) <=> Mentions(e, o) \/ x.id = o
           /\ \A o : Ended(Append(e, x), o) <=> Ended(e, o) \/ Ends(x, o)
           /\ \A o : PartlyFilled(Append(e, x), o) =>
                \/ PartlyFilled(e, o) /\ ~Ends(x, o)
                \/ x.id = o /\ x.type = "PARTIAL"
<1> DEFINE a == Append(e, x)
<1>1. /\ a \in Seq(Event) /\ Len(a) = Len(e) + 1 /\ DOMAIN a = 1..Len(e) + 1
      /\ DOMAIN e = 1..Len(e) /\ Len(e) \in Nat
      /\ (\A i \in 1..Len(e) : a[i] = e[i]) /\ a[Len(e) + 1] = x
  OBVIOUS
<1> HIDE DEF a
<1>2. \A o : Mentions(a, o) <=> Mentions(e, o) \/ x.id = o
  BY <1>1 DEF Mentions
<1>3. \A o : Ended(a, o) <=> Ended(e, o) \/ Ends(x, o)
  BY <1>1 DEF Ended
<1>4. ASSUME NEW o, PartlyFilled(a, o)
      PROVE  (PartlyFilled(e, o) /\ ~Ends(x, o)) \/ (x.id = o /\ x.type = "PARTIAL")
  <2>1. PICK i \in DOMAIN a : /\ a[i].id = o /\ a[i].type = "PARTIAL"
                              /\ \A j \in DOMAIN a : j > i => ~Ends(a[j], o)
    BY <1>4 DEF PartlyFilled
  <2>2. CASE i = Len(e) + 1
    BY <1>1, <2>1, <2>2
  <2>3. CASE i \in 1..Len(e)
    <3>1. ~Ends(x, o)
      BY <1>1, <2>1, <2>3
    <3>2. i \in DOMAIN e /\ e[i] = a[i] /\ \A j \in DOMAIN e : j > i => ~Ends(e[j], o)
      BY <1>1, <2>1, <2>3
    <3> QED BY <2>1, <3>1, <3>2 DEF PartlyFilled
  <2> QED BY <1>1, <2>2, <2>3
<1> QED BY <1>1, <1>2, <1>3, <1>4 DEF a

(* The first event is taken.                                               *)
LEMMA TakeEvent ==
    ASSUME NEW e \in Seq(Event), e # <<>>
    PROVE  /\ Head(e) \in Event /\ Tail(e) \in Seq(Event)
           /\ Mentions(e, Head(e).id)
           /\ \A o : Mentions(Tail(e), o) => Mentions(e, o)
           /\ \A o : Ended(e, o) <=> Ended(Tail(e), o) \/ Ends(Head(e), o)
           /\ \A o : PartlyFilled(Tail(e), o) => PartlyFilled(e, o)
           /\ \A o : (Head(e).id = o /\ Head(e).type = "PARTIAL" /\ ~Ended(Tail(e), o))
                        => PartlyFilled(e, o)
<1> DEFINE t == Tail(e)
<1>1. /\ Head(e) \in Event /\ t \in Seq(Event) /\ Len(e) \in Nat \ {0}
      /\ DOMAIN e = 1..Len(e) /\ DOMAIN t = 1..Len(e) - 1
      /\ Head(e) = e[1] /\ \A i \in 1..Len(e) - 1 : t[i] = e[i + 1]
  OBVIOUS
<1> HIDE DEF t
<1>2. \A i \in DOMAIN e : i = 1 \/ (i - 1 \in DOMAIN t /\ t[i - 1] = e[i])
  BY <1>1
<1>3. \A i \in DOMAIN t : i + 1 \in DOMAIN e /\ t[i] = e[i + 1]
  BY <1>1
<1>4. Mentions(e, Head(e).id) /\ \A o : Mentions(t, o) => Mentions(e, o)
  BY <1>1, <1>3 DEF Mentions
<1>5. \A o : Ended(e, o) <=> Ended(t, o) \/ Ends(Head(e), o)
  BY <1>1, <1>2, <1>3 DEF Ended
<1>6. ASSUME NEW o, PartlyFilled(t, o) PROVE PartlyFilled(e, o)
  <2>1. PICK i \in DOMAIN t : /\ t[i].id = o /\ t[i].type = "PARTIAL"
                              /\ \A j \in DOMAIN t : j > i => ~Ends(t[j], o)
    BY <1>6 DEF PartlyFilled
  <2>2. i + 1 \in DOMAIN e /\ e[i + 1] = t[i]
    BY <1>3
  <2>3. ASSUME NEW j \in DOMAIN e, j > i + 1 PROVE ~Ends(e[j], o)
    <3>1. j - 1 \in DOMAIN t /\ t[j - 1] = e[j] /\ j - 1 > i
      BY <1>1, <2>3
    <3> QED BY <2>1, <3>1
  <2> QED BY <2>1, <2>2, <2>3 DEF PartlyFilled
<1>7. ASSUME NEW o, Head(e).id = o, Head(e).type = "PARTIAL", ~Ended(t, o)
      PROVE  PartlyFilled(e, o)
  <2>1. ASSUME NEW j \in DOMAIN e, j > 1 PROVE ~Ends(e[j], o)
    BY <1>2, <1>7, <2>1 DEF Ended
  <2>2. 1 \in DOMAIN e
    BY <1>1
  <2> QED BY <1>1, <1>7, <2>1, <2>2 DEF PartlyFilled
<1> QED BY <1>1, <1>4, <1>5, <1>6, <1>7 DEF t

-----------------------------------------------------------------------------
(* What the managers say of a symbol, before and after a step.             *)

LEMMA PhaseOfSymbol ==
    ASSUME NEW m, ManagerType(m), NEW sym \in Symbols
    PROVE  /\ Phase(m, sym) \in Phases \union {"none"}
           /\ Phase(m, sym) # "none" <=> sym \in DOMAIN m.migs
           /\ Phase(m, sym) # "none" => Target(m, sym) \in Routes
           /\ m.routes[sym] \in Routes
<1>1. "none" \notin Phases
  BY DEF Phases, PhaseOrder
<1>2. sym \in DOMAIN m.migs => m.migs[sym].phase \in Phases /\ m.migs[sym].to \in Routes
  BY DEF ManagerType, Migration
<1> QED BY <1>1, <1>2 DEF Phase, Target, Migrating, ManagerType

(* The partition of a symbol (CommandRoute).                               *)
LEMMA RouteOfSymbol ==
    ASSUME NEW m, ManagerType(m), FromWhereItIs(m), NEW sym \in Symbols,
           Phase(m, sym) # "complete"
    PROVE  CommandRoute(m, sym) = IF Phase(m, sym) = "cutover" THEN Target(m, sym)
                                  ELSE m.routes[sym]
BY DEF CommandRoute, Phase, Target, Migrating, InPhase, FromWhereItIs

(* A process reads the file as it is.                                      *)
LEMMA LoadedFile ==
    ASSUME NEW m, ManagerType(m), FromWhereItIs(m)
    PROVE  /\ ManagerType(LoadFile(m)) /\ FromWhereItIs(LoadFile(m))
           /\ \A sym \in Symbols : /\ Phase(LoadFile(m), sym) = Phase(m, sym)
                                   /\ CommandRoute(LoadFile(m), sym) = CommandRoute(m, sym)
<1> DEFINE l == LoadFile(m)
<1>1. l = [routes |-> m.routes, index |-> IndexOf(m.routes), migs |-> m.migs]
  BY DEF LoadFile
<1>2. l.routes = m.routes /\ l.index = IndexOf(m.routes) /\ l.migs = m.migs
      /\ l = [routes |-> l.routes, index |-> l.index, migs |-> l.migs]
  BY <1>1
<1>3. l.index \in [Shards -> SUBSET Symbols]
  BY <1>2 DEF IndexOf
<1> HIDE DEF l
<1>4. ManagerType(l) /\ FromWhereItIs(l)
  BY <1>2, <1>3 DEF ManagerType, FromWhereItIs
<1>5. \A sym \in Symbols : Phase(l, sym) = Phase(m, sym)
                           /\ CommandRoute(l, sym) = CommandRoute(m, sym)
  BY <1>2 DEF Phase, CommandRoute, Migrating, InPhase
<1> QED BY <1>4, <1>5 DEF l

(* Nothing changes for the symbol from one manager to the other.           *)
SameFor(sym, m, n) ==
    /\ Phase(n, sym) = Phase(m, sym) /\ n.routes[sym] = m.routes[sym]
    /\ Phase(m, sym) # "none" => Target(n, sym) = Target(m, sym)

(* A migration is added or replaced (WithMigration).                       *)
LEMMA MigrationReplaced ==
    ASSUME NEW m, ManagerType(m), NEW sym \in Symbols, NEW mig \in Migration
    PROVE  LET n == WithMigration(m, sym, mig)
           IN  /\ Phase(n, sym) = mig.phase /\ Target(n, sym) = mig.to
               /\ n.routes = m.routes
               /\ \A x \in Symbols \ {sym} : SameFor(x, m, n)
<1> DEFINE n == WithMigration(m, sym, mig)
           migs == [x \in DOMAIN m.migs \union {sym} |-> IF x = sym THEN mig ELSE m.migs[x]]
<1>1. n = [routes |-> m.routes, index |-> m.index, migs |-> migs]
  BY DEF ManagerType, WithMigration
<1>2. n.routes = m.routes /\ n.migs = migs
  BY <1>1
<1>3. DOMAIN migs = DOMAIN m.migs \union {sym} /\ migs[sym] = mig
      /\ \A x \in DOMAIN m.migs \ {sym} : migs[x] = m.migs[x]
  OBVIOUS
<1> HIDE DEF n, migs
<1>4. Phase(n, sym) = mig.phase /\ Target(n, sym) = mig.to
  BY <1>2, <1>3 DEF Phase, Target, Migrating
<1>5. \A x \in Symbols \ {sym} : SameFor(x, m, n)
  BY <1>2, <1>3 DEF SameFor, Phase, Target, Migrating
<1> QED BY <1>2, <1>4, <1>5 DEF n

(* A migration is over (CompleteMigration).                                *)
LEMMA MigrationCompleted ==
    ASSUME NEW m, ManagerType(m), NEW sym \in DOMAIN m.migs
    PROVE  LET n == CompleteMigration(m, sym)
           IN  /\ Phase(n, sym) = "none" /\ n.routes[sym] = Target(m, sym)
               /\ \A x \in Symbols \ {sym} : SameFor(x, m, n)
<1> DEFINE n == CompleteMigration(m, sym)
           migs == [x \in DOMAIN m.migs \ {sym} |-> m.migs[x]]
<1>1. n.routes = [m.routes EXCEPT ![sym] = m.migs[sym].to] /\ n.migs = migs
  BY DEF CompleteMigration
<1>2. DOMAIN migs = DOMAIN m.migs \ {sym} /\ \A x \in DOMAIN migs : migs[x] = m.migs[x]
  OBVIOUS
<1>3. sym \in Symbols /\ m.routes \in [Symbols -> Routes]
  BY DEF ManagerType
<1> HIDE DEF n, migs
<1>4. Phase(n, sym) = "none" /\ n.routes[sym] = Target(m, sym)
  BY <1>1, <1>2, <1>3 DEF Phase, Target, Migrating
<1>5. \A x \in Symbols \ {sym} : SameFor(x, m, n)
  BY <1>1, <1>2, <1>3 DEF SameFor, Phase, Target, Migrating
<1> QED BY <1>4, <1>5 DEF n

(* What the start of a migration does to the file.                         *)
LEMMA BeginFile ==
    ASSUME IndexInv, NEW sym \in Symbols, NEW to \in Routes, Begin(sym, to)
    PROVE  /\ Phase(file, sym) = "none" /\ Phase(file', sym) = "halt_only_cancel"
           /\ Target(file', sym) = to /\ file'.routes = file.routes
           /\ \A x \in Symbols \ {sym} : SameFor(x, file, file')
           /\ shard[to.shard] = Down
           /\ \A x \in Symbols : Phase(file, x) # "none" => Target(file, x).shard # to.shard
<1> DEFINE mig == [from |-> file.routes[sym], to |-> to, phase |-> "halt_only_cancel"]
<1>1. ManagerType(file)
  BY DEF IndexInv, GoodManager
<1>2. mig \in Migration /\ mig.phase = "halt_only_cancel" /\ mig.to = to
  <2>1. "halt_only_cancel" \in Phases
    BY DEF Phases, PhaseOrder
  <2>2. file.routes[sym] \in Routes
    BY <1>1 DEF ManagerType
  <2> QED BY <2>1, <2>2 DEF Migration
<1>3. file' = WithMigration(file, sym, mig)
  BY DEF Begin, StartMigration
<1> HIDE DEF mig
<1>4. /\ Phase(file', sym) = "halt_only_cancel" /\ Target(file', sym) = to
      /\ file'.routes = file.routes
      /\ \A x \in Symbols \ {sym} : SameFor(x, file, file')
  BY <1>1, <1>2, <1>3, MigrationReplaced
<1>5. Phase(file, sym) = "none" /\ shard[to.shard] = Down
  BY DEF Begin, CanStartMigration, Phase
<1>6. \A x \in Symbols : Phase(file, x) # "none" => Target(file, x).shard # to.shard
  <2>1. \A x \in DOMAIN file.migs : file.migs[x].to.shard # to.shard
    BY DEF Begin
  <2> QED BY <1>1, <2>1, PhaseOfSymbol DEF Target
<1> QED BY <1>4, <1>5, <1>6

(* What a change of phase does to the file, and that every process has     *)
(* read it before.                                                         *)
LEMMA AdvanceFile ==
    ASSUME IndexInv, NEW sym \in Symbols, Advance(sym), breaches' = {}
    PROVE  /\ \A p \in Pods : router[p] = LoadFile(file)
           /\ \A x \in Symbols \ {sym} : SameFor(x, file, file')
           /\ \/ /\ file'.routes[sym] = file.routes[sym] /\ Target(file', sym) = Target(file, sym)
                 /\ \/ Phase(file, sym) = "halt_only_cancel" /\ Phase(file', sym) = "halt_no_write"
                    \/ /\ Phase(file, sym) = "halt_no_write" /\ Phase(file', sym) = "drain"
                       /\ NewCommands(outbox, sym) = {}
                       /\ NewCommands(queue[file.routes[sym]], sym) = {}
                    \/ Phase(file, sym) = "drain" /\ Phase(file', sym) = "cutover"
              \/ /\ Phase(file, sym) = "cutover" /\ Phase(file', sym) = "none"
                 /\ file'.routes[sym] = Target(file, sym) /\ shard[Target(file, sym).shard].up
<1>1. ManagerType(file) /\ FromWhereItIs(file)
  BY DEF IndexInv, GoodManager
<1>2. PICK ph \in Phases :
        /\ CanSetPhase(file, sym, ph)
        /\ ph = "complete" => /\ InPhase(file, sym, {"cutover"})
                                 /\ shard[file.migs[sym].to.shard].up
        /\ Quiet(sym, ph)
        /\ file' = SetMigrationPhase(file, sym, ph)
  BY DEF Advance
<1>3. sym \in DOMAIN file.migs /\ file.migs[sym] \in Migration
      /\ file.migs[sym].phase = Phase(file, sym)
      /\ file.migs[sym].from = file.routes[sym]
  BY <1>1, <1>2 DEF CanSetPhase, Migrating, ManagerType, FromWhereItIs, Phase
<1>4. \A p \in Pods : router[p] = LoadFile(file)
  BY DEF Advance, Settled, Note
<1>5. CASE ph = "complete"
  <2>1. file' = CompleteMigration(file, sym) /\ Phase(file, sym) = "cutover"
        /\ shard[Target(file, sym).shard].up
    BY <1>2, <1>3, <1>5 DEF SetMigrationPhase, InPhase, Target
  <2>2. /\ Phase(file', sym) = "none" /\ file'.routes[sym] = Target(file, sym)
        /\ \A x \in Symbols \ {sym} : SameFor(x, file, file')
    BY <1>1, <1>3, <2>1, MigrationCompleted
  <2> QED BY <1>4, <2>1, <2>2
<1>6. CASE ph # "complete"
  <2> DEFINE mig == [file.migs[sym] EXCEPT !.phase = ph]
  <2>1. mig \in Migration /\ mig.phase = ph /\ mig.to = Target(file, sym)
    BY <1>3 DEF Migration, Target
  <2>2. file' = WithMigration(file, sym, mig)
    BY <1>2, <1>6 DEF SetMigrationPhase
  <2> HIDE DEF mig
  <2>3. /\ Phase(file', sym) = ph /\ Target(file', sym) = Target(file, sym)
        /\ file'.routes = file.routes
        /\ \A x \in Symbols \ {sym} : SameFor(x, file, file')
    BY <1>1, <2>1, <2>2, MigrationReplaced
  <2>4. PICK i \in 1..3 : Phase(file, sym) = PhaseOrder[i] /\ ph = PhaseOrder[i + 1]
    BY <1>2, <1>3, <1>6 DEF CanSetPhase
  <2>5. \/ Phase(file, sym) = "halt_only_cancel" /\ ph = "halt_no_write"
        \/ Phase(file, sym) = "halt_no_write" /\ ph = "drain"
        \/ Phase(file, sym) = "drain" /\ ph = "cutover"
    <3>1. i = 1 \/ i = 2 \/ i = 3
      OBVIOUS
    <3> QED BY <2>4, <3>1 DEF PhaseOrder
  <2>6. ph = "drain" => NewCommands(outbox, sym) = {}
                           /\ NewCommands(queue[file.routes[sym]], sym) = {}
    BY <1>2, <1>3 DEF Quiet
  <2> QED BY <1>4, <2>3, <2>5, <2>6
<1> QED BY <1>5, <1>6

(* The symbols a starting shard may serve (RulesFor).                      *)
LEMMA RulesOfShard ==
    ASSUME IndexInv, Placement, NEW s \in Shards, NEW sym \in Symbols
    PROVE  sym \in RulesFor(s) <=>
             \/ file.routes[sym].shard = s
             \/ /\ Phase(file, sym) = "cutover" /\ Target(file, sym).shard = s
                /\ Ready(sym, s)
<1>1. ManagerType(file) /\ FromWhereItIs(file) /\ Phase(file, sym) # "complete"
  BY DEF IndexInv, GoodManager, Placement
<1>2. CommandRoute(file, sym) = IF Phase(file, sym) = "cutover" THEN Target(file, sym)
                                ELSE file.routes[sym]
  BY <1>1, RouteOfSymbol
<1>3. InPhase(file, sym, {"cutover"}) <=> Phase(file, sym) = "cutover"
  BY DEF InPhase, Phase
<1>4. sym \in RulesFor(s) <=>
        /\ file.routes[sym].shard = s
           \/ (Phase(file, sym) = "cutover" /\ Target(file, sym).shard = s)
        /\ CommandRoute(file, sym).shard = s => Ready(sym, s)
  BY <1>3 DEF RulesFor, ValidLocally, Ready, Target
<1>5. Ready(sym, file.routes[sym].shard)
  BY DEF Placement
<1> QED BY <1>2, <1>4, <1>5

-----------------------------------------------------------------------------
(* The operator and the processes that start.                              *)

LEMMA InvTypes ==
    ASSUME MigrationInv
    PROVE  /\ ManagerType(file) /\ FromWhereItIs(file) /\ DOMAIN shard = Shards
           /\ \A sym \in Symbols :
                /\ Phase(file, sym) \in Phases \union {"none"}
                /\ Phase(file, sym) # "none" =>
                     Target(file, sym) \in Routes /\ Target(file, sym).shard \in Shards
                /\ file.routes[sym] \in Routes /\ file.routes[sym].shard \in Shards
                /\ Home[sym].shard \in Shards
                /\ CommandRoute(file, sym) = IF Phase(file, sym) = "cutover"
                                             THEN Target(file, sym) ELSE file.routes[sym]
                /\ \A p \in Pods : CommandRoute(router[p], sym) \in Routes
                /\ ServedAt(sym) \in Shards
           /\ \A o \in Orders : SymbolOf[o] \in Symbols
<1>1. ManagerType(file) /\ FromWhereItIs(file) /\ DOMAIN shard = Shards
  BY DEF MigrationInv, IndexInv, GoodManager
<1>2. \A o \in Orders : SymbolOf[o] \in Symbols
  BY ShardMigrationAssumption
<1>3. ASSUME NEW sym \in Symbols
      PROVE  /\ Phase(file, sym) \in Phases \union {"none"}
             /\ Phase(file, sym) # "none" =>
                  Target(file, sym) \in Routes /\ Target(file, sym).shard \in Shards
             /\ file.routes[sym] \in Routes /\ file.routes[sym].shard \in Shards
             /\ Home[sym].shard \in Shards
             /\ CommandRoute(file, sym) = IF Phase(file, sym) = "cutover"
                                          THEN Target(file, sym) ELSE file.routes[sym]
             /\ \A p \in Pods : CommandRoute(router[p], sym) \in Routes
             /\ ServedAt(sym) \in Shards
  <2>1. Phase(file, sym) # "complete"
    BY DEF MigrationInv, Placement
  <2>2. CommandRoute(file, sym) = IF Phase(file, sym) = "cutover"
                                  THEN Target(file, sym) ELSE file.routes[sym]
    BY <1>1, <2>1, RouteOfSymbol
  <2>3. /\ Phase(file, sym) \in Phases \union {"none"}
        /\ Phase(file, sym) # "none" => Target(file, sym) \in Routes
        /\ file.routes[sym] \in Routes
    BY <1>1, PhaseOfSymbol
  <2>4. \A p \in Pods : CommandRoute(router[p], sym) \in Routes
    BY <2>3 DEF MigrationInv, RouterFollows
  <2>5. Home[sym] \in Routes /\ \A r \in Routes : r.shard \in Shards
    BY ShardMigrationAssumption
  <2>6. ServedAt(sym) \in Shards
    BY <2>3, <2>5 DEF ServedAt, Moved
  <2> QED BY <2>2, <2>3, <2>4, <2>5, <2>6
<1> QED BY <1>1, <1>2, <1>3

(* Commands of a symbol, by order.                                         *)
LEMMA NoneOfSymbol ==
    ASSUME NEW cmds, NEW sym, NEW o, SymbolOf[o] = sym
    PROVE  /\ NewCommands(cmds, sym) = {} => ~NewIn(cmds, o)
           /\ Commands(cmds, sym) = {} => ~In(cmds, o)
<1>1. NewIn(cmds, o) => NewCommands(cmds, sym) # {}
  BY DEF NewIn, NewCommands
<1>2. In(cmds, o) => Commands(cmds, sym) # {}
  BY DEF In, Commands
<1> QED BY <1>1, <1>2

(* When neither managers nor copies change, nor does what follows from     *)
(* them.                                                                   *)
LEMMA SameManagers ==
    ASSUME MigrationInv, UNCHANGED <<file, router, shard, copied>>
    PROVE  /\ Placement' /\ RouterFollows'
           /\ \A sym : /\ Stopped(sym)' <=> Stopped(sym)
                       /\ Moved(sym)' <=> Moved(sym)
                       /\ ServedAt(sym)' = ServedAt(sym)
           /\ \A sym, s : Ready(sym, s)' <=> Ready(sym, s)
<1>1. Placement'
  BY DEF MigrationInv, Placement, Serves, Ready
<1>2. RouterFollows'
  BY DEF MigrationInv, RouterFollows
<1>3. \A sym : /\ Stopped(sym)' <=> Stopped(sym)
               /\ Moved(sym)' <=> Moved(sym)
               /\ ServedAt(sym)' = ServedAt(sym)
  BY DEF Stopped, Moved, ServedAt
<1>4. \A sym, s : Ready(sym, s)' <=> Ready(sym, s)
  BY DEF Ready
<1> QED BY <1>1, <1>2, <1>3, <1>4

(* When orders, commands and events do not change, where they are does not *)
(* either.                                                                 *)
LEMMA SameWork ==
    ASSUME MigrationInv, UNCHANGED work
    PROVE  CommandOnce' /\ ((\A p \in Pods : ManagerType(router[p])') /\ (\A s \in Shards : shard'[s] = Down \/ shard'[s].up = TRUE)
                            => MigrationTypes')
<1>1. CommandOnce'
  BY DEF MigrationInv, CommandOnce, Untouched, work
<1>2. ASSUME \A p \in Pods : ManagerType(router[p])', \A s \in Shards : shard'[s] = Down \/ shard'[s].up = TRUE
      PROVE  MigrationTypes'
  BY <1>2 DEF MigrationInv, MigrationTypes, work
<1> QED BY <1>1, <1>2

(* The books do not change, and symbols are served where they were.        *)
LEMMA SameBooks ==
    ASSUME MigrationInv, UNCHANGED <<work, copied>>,
           \A sym \in Symbols : ServedAt(sym)' = ServedAt(sym)
    PROVE  BookFollows'
<1>1. \A o \in Orders : Rests(o)' <=> Rests(o)
  BY ShardMigrationAssumption DEF Rests, work
<1>2. UNCHANGED <<book, status, events>>
  BY DEF work
<1>3. \A s \in Shards : \A o \in book[s] : Ready(SymbolOf[o], s)'
  BY DEF MigrationInv, BookFollows, Ready
<1> QED BY <1>1, <1>2, <1>3 DEF MigrationInv, BookFollows

LEMMA BeginKeeps ==
    ASSUME MigrationInv, NEW sym \in Symbols, NEW to \in Routes, Begin(sym, to)
    PROVE  MigrationTypes' /\ Placement' /\ RouterFollows' /\ CommandsFollow'
           /\ CommandOnce' /\ BookFollows'
<1>1. UNCHANGED <<router, shard, copied, work>>
  BY DEF Begin, processes
<1>2. IndexInv /\ Placement /\ RouterFollows /\ CommandsFollow
  BY DEF MigrationInv
<1>3. /\ Phase(file, sym) = "none" /\ Phase(file', sym) = "halt_only_cancel"
      /\ Target(file', sym) = to /\ file'.routes = file.routes
      /\ \A x \in Symbols \ {sym} : SameFor(x, file, file')
      /\ shard[to.shard] = Down
      /\ \A x \in Symbols : Phase(file, x) # "none" => Target(file, x).shard # to.shard
  BY <1>2, BeginFile
<1>4. \A x \in Symbols : /\ Stopped(x)' <=> Stopped(x)
                         /\ Moved(x)' <=> Moved(x)
                         /\ ServedAt(x)' = ServedAt(x)
  BY <1>1, <1>3 DEF Stopped, Moved, ServedAt, SameFor
<1>5. MigrationTypes' /\ CommandOnce' /\ BookFollows'
  <2>1. (\A p \in Pods : ManagerType(router[p])') /\ \A s \in Shards : shard'[s] = Down \/ shard'[s].up = TRUE
    BY <1>1 DEF MigrationInv, MigrationTypes, ManagerType
  <2> QED BY <1>1, <1>4, <2>1, SameWork, SameBooks
<1>6. Placement'
  <2>1. \A x \in Symbols : Serves(file.routes[x].shard, x)' /\ Ready(x, file.routes[x].shard)'
    BY <1>1, <1>2, <1>3 DEF Placement, Serves, Ready
  <2>2. \A x \in Symbols : Phase(file', x) # "complete"
    BY <1>2, <1>3 DEF Placement, SameFor
  <2>3. ASSUME NEW x \in Symbols, Phase(file', x) # "none"
        PROVE  \/ shard'[Target(file', x).shard] = Down
               \/ /\ Phase(file', x) = "cutover" /\ <<x, Target(file', x).shard>> \in copied'
                  /\ Serves(Target(file, x).shard, x)'
    BY <1>1, <1>2, <1>3, <2>3 DEF Placement, SameFor, Serves
  <2>4. ASSUME NEW x \in Symbols, NEW y \in Symbols, Phase(file', x) # "none",
               Phase(file', y) # "none", Target(file', x).shard = Target(file', y).shard
        PROVE  x = y
    BY <1>2, <1>3, <2>4 DEF Placement, SameFor
  <2>5. ASSUME NEW x \in Symbols, NEW s \in Shards, <<x, s>> \in copied'
        PROVE  shard'[s].up \/ (Phase(file', x) = "cutover" /\ Target(file', x).shard = s)
    BY <1>1, <1>2, <1>3, <2>5 DEF Placement, SameFor
  <2>6. \A x \in Symbols : shard'[Home[x].shard].up
    BY <1>1, <1>2 DEF Placement
  <2> QED BY <2>1, <2>2, <2>3, <2>4, <2>5, <2>6 DEF Placement
<1>7. RouterFollows'
  BY <1>1, <1>2, <1>3 DEF RouterFollows, SameFor
<1>8. CommandsFollow'
  <2>1. UNCHANGED <<outbox, queue>>
    BY <1>1 DEF work
  <2>2. \A x \in Symbols : Phase(file', x) = "cutover" <=> Phase(file, x) = "cutover"
    BY <1>3 DEF SameFor
  <2>3. \A x \in Symbols : Phase(file, x) = "cutover" => Target(file', x) = Target(file, x)
    BY <1>3 DEF SameFor
  <2>4. \A o \in Orders : SymbolOf[o] \in Symbols
    BY ShardMigrationAssumption
  <2>5. \A x \in Symbols, p \in Pods : Moved(x)' => Phase(router'[p], x) = "cutover"
    BY <1>1, <1>2, <1>4 DEF CommandsFollow
  <2>6. \A o \in Orders : Stopped(SymbolOf[o])' =>
          ~NewIn(outbox', o) /\ \A r \in Routes : ~NewIn(queue'[r], o)
    BY <1>2, <1>4, <2>1, <2>4 DEF CommandsFollow
  <2>7. \A r \in Routes, o \in Orders, p \in Pods :
          NewIn(queue'[r], o) => r = CommandRoute(router'[p], SymbolOf[o])
    BY <1>1, <1>2, <2>1 DEF CommandsFollow
  <2>8. \A r \in Routes, o \in Orders : In(queue'[r], o) =>
         \/ ~Moved(SymbolOf[o])' /\ r = file'.routes[SymbolOf[o]]
         \/ Phase(file', SymbolOf[o]) = "cutover" /\ r = Target(file', SymbolOf[o])
    BY <1>2, <1>3, <1>4, <2>1, <2>2, <2>3, <2>4 DEF CommandsFollow
  <2> QED BY <2>5, <2>6, <2>7, <2>8 DEF CommandsFollow
<1> QED BY <1>5, <1>6, <1>7, <1>8

LEMMA AdvanceKeeps ==
    ASSUME MigrationInv, NEW sym \in Symbols, Advance(sym), breaches' = {}
    PROVE  MigrationTypes' /\ Placement' /\ RouterFollows' /\ CommandsFollow'
           /\ CommandOnce' /\ BookFollows'
<1>1. UNCHANGED <<router, shard, copied, work>>
  BY DEF Advance, processes
<1>2. IndexInv /\ MigrationTypes /\ Placement /\ RouterFollows /\ CommandsFollow
  BY DEF MigrationInv
<1>3. ManagerType(file) /\ FromWhereItIs(file) /\ (\A p \in Pods : router[p] = LoadFile(file))
      /\ \A x \in Symbols \ {sym} : SameFor(x, file, file')
  BY <1>2, AdvanceFile, InvTypes
<1>4. \A x \in Symbols, p \in Pods : Phase(router[p], x) = Phase(file, x)
                                     /\ CommandRoute(router[p], x) = CommandRoute(file, x)
  BY <1>3, LoadedFile
<1>5. ASSUME NEW x \in Symbols
      PROVE  /\ Phase(file, x) # "complete"
             /\ \A p \in Pods : CommandRoute(router[p], x) =
                                   IF Phase(file, x) = "cutover" THEN Target(file, x)
                                   ELSE file.routes[x]
  BY <1>4, InvTypes, <1>2 DEF Placement
<1> DEFINE
      halt == Phase(file, sym) = "halt_only_cancel" /\ Phase(file', sym) = "halt_no_write"
      drain == /\ Phase(file, sym) = "halt_no_write" /\ Phase(file', sym) = "drain"
               /\ NewCommands(outbox, sym) = {}
               /\ NewCommands(queue[file.routes[sym]], sym) = {}
      cutover == Phase(file, sym) = "drain" /\ Phase(file', sym) = "cutover"
      kept == file'.routes[sym] = file.routes[sym] /\ Target(file', sym) = Target(file, sym)
      complete == /\ Phase(file, sym) = "cutover" /\ Phase(file', sym) = "none"
                  /\ file'.routes[sym] = Target(file, sym) /\ shard[Target(file, sym).shard].up
<1>6. (kept /\ (halt \/ drain \/ cutover)) \/ complete
  BY <1>2, AdvanceFile
<1>7. ~Down.up
  BY DEF Down
<1>8. Phase(file, sym) # "cutover" => <<sym, Target(file, sym).shard>> \notin copied
  <2>1. Phase(file, sym) # "none" /\ Target(file, sym).shard \in Shards
    BY <1>6, InvTypes
  <2>2. Phase(file, sym) # "cutover" => shard[Target(file, sym).shard] = Down
    BY <1>2, <2>1 DEF Placement
  <2> QED BY <1>2, <1>7, <2>1, <2>2 DEF Placement
<1>9. complete => Moved(sym) /\ Serves(Target(file, sym).shard, sym)
  BY <1>2, <1>7 DEF Placement, Moved
<1>10. \A x \in Symbols \ {sym} : /\ Stopped(x)' <=> Stopped(x)
                                  /\ Moved(x)' <=> Moved(x)
                                  /\ ServedAt(x)' = ServedAt(x)
  BY <1>1, <1>3 DEF Stopped, Moved, ServedAt, SameFor
<1>11. ~Moved(sym)' /\ ServedAt(sym)' = ServedAt(sym)
  BY <1>1, <1>6, <1>8, <1>9 DEF Moved, ServedAt
<1>12. MigrationTypes' /\ CommandOnce' /\ BookFollows'
  <2>1. (\A p \in Pods : ManagerType(router[p])') /\ \A s \in Shards : shard'[s] = Down \/ shard'[s].up = TRUE
    BY <1>1, <1>2 DEF MigrationTypes, ManagerType
  <2>2. \A x \in Symbols : ServedAt(x)' = ServedAt(x)
    BY <1>10, <1>11
  <2> QED BY <1>1, <2>1, <2>2, SameWork, SameBooks
<1>13. Placement'
  <2>1. ASSUME NEW x \in Symbols
        PROVE  Serves(file.routes[x].shard, x)' /\ Ready(x, file.routes[x].shard)'
    <3>1. CASE x = sym
      BY <1>1, <1>2, <1>6, <1>9, <3>1 DEF Placement, Serves, Ready, Moved
    <3>2. CASE x # sym
      BY <1>1, <1>2, <1>3, <3>2 DEF Placement, Serves, Ready, SameFor
    <3> QED BY <3>1, <3>2
  <2>2. \A x \in Symbols : Phase(file', x) # "complete"
    BY <1>2, <1>3, <1>6 DEF Placement, SameFor
  <2>3. ASSUME NEW x \in Symbols, Phase(file', x) # "none"
        PROVE  \/ shard'[Target(file', x).shard] = Down
               \/ /\ Phase(file', x) = "cutover" /\ <<x, Target(file', x).shard>> \in copied'
                  /\ Serves(Target(file, x).shard, x)'
    <3>1. CASE x = sym
      <4>1. kept /\ Phase(file, sym) # "cutover" /\ Phase(file, sym) # "none"
        BY <1>6, <2>3, <3>1
      <4>2. shard[Target(file, sym).shard] = Down
        BY <1>2, <4>1 DEF Placement
      <4> QED BY <1>1, <3>1, <4>1, <4>2
    <3>2. CASE x # sym
      BY <1>1, <1>2, <1>3, <2>3, <3>2 DEF Placement, SameFor, Serves
    <3> QED BY <3>1, <3>2
  <2>4. ASSUME NEW x \in Symbols, NEW y \in Symbols, Phase(file', x) # "none",
               Phase(file', y) # "none", Target(file', x).shard = Target(file', y).shard
        PROVE  x = y
    <3>1. \A z \in Symbols : Phase(file', z) # "none" =>
             Phase(file, z) # "none" /\ Target(file', z) = Target(file, z)
      BY <1>3, <1>6 DEF SameFor
    <3> QED BY <1>2, <2>4, <3>1 DEF Placement
  <2>5. ASSUME NEW x \in Symbols, NEW s \in Shards, <<x, s>> \in copied'
        PROVE  shard'[s].up \/ (Phase(file', x) = "cutover" /\ Target(file', x).shard = s)
    <3>1. CASE x = sym
      BY <1>1, <1>2, <1>6, <2>5, <3>1 DEF Placement
    <3>2. CASE x # sym
      BY <1>1, <1>2, <1>3, <2>5, <3>2 DEF Placement, SameFor
    <3> QED BY <3>1, <3>2
  <2>6. \A x \in Symbols : shard'[Home[x].shard].up
    BY <1>1, <1>2 DEF Placement
  <2> QED BY <2>1, <2>2, <2>3, <2>4, <2>5, <2>6 DEF Placement
<1>14. RouterFollows'
  <2> SUFFICES ASSUME NEW x \in Symbols, NEW p \in Pods
      PROVE  /\ Phase(file', x) # "cutover" => CommandRoute(router[p], x) = file'.routes[x]
             /\ Phase(file', x) = "drain" => Phase(router[p], x) \in {"halt_no_write", "drain"}
             /\ Phase(file', x) = "cutover" =>
                  \/ /\ Phase(router[p], x) = "drain"
                     /\ CommandRoute(router[p], x) = file'.routes[x]
                  \/ /\ Phase(router[p], x) = "cutover"
                     /\ CommandRoute(router[p], x) = Target(file', x)
    BY <1>1 DEF RouterFollows
  <2>1. CASE x = sym
    BY <1>4, <1>5, <1>6, <2>1
  <2>2. CASE x # sym
    BY <1>2, <1>3, <2>2 DEF RouterFollows, SameFor
  <2> QED BY <2>1, <2>2
<1>15. CommandsFollow'
  <2>1. UNCHANGED <<outbox, queue>>
    BY <1>1 DEF work
  <2>2. \A o \in Orders : SymbolOf[o] \in Symbols
    BY ShardMigrationAssumption
  <2>3. \A x \in Symbols, p \in Pods : Moved(x)' => Phase(router'[p], x) = "cutover"
    BY <1>1, <1>2, <1>10, <1>11 DEF CommandsFollow
  <2>4. ASSUME NEW o \in Orders, Stopped(SymbolOf[o])'
        PROVE  ~NewIn(outbox, o) /\ \A r \in Routes : ~NewIn(queue[r], o)
    <3>1. CASE Stopped(SymbolOf[o])
      BY <1>2, <3>1 DEF CommandsFollow
    <3>2. CASE ~Stopped(SymbolOf[o])
      <4>1. SymbolOf[o] = sym
        BY <1>10, <2>2, <2>4, <3>2
      <4>2. drain
        BY <1>1, <1>6, <2>4, <3>2, <4>1 DEF Stopped
      <4>3. ~NewIn(outbox, o) /\ ~NewIn(queue[file.routes[sym]], o)
        BY <4>1, <4>2, NoneOfSymbol
      <4>4. \A p \in Pods : CommandRoute(router[p], sym) = file.routes[sym]
        BY <1>5, <4>2
      <4>5. Pods # {}
        BY ShardMigrationAssumption
      <4> QED BY <1>2, <4>1, <4>3, <4>4, <4>5 DEF CommandsFollow
    <3> QED BY <3>1, <3>2
  <2>5. \A r \in Routes, o \in Orders, p \in Pods :
          NewIn(queue'[r], o) => r = CommandRoute(router'[p], SymbolOf[o])
    BY <1>1, <1>2, <2>1 DEF CommandsFollow
  <2>6. ASSUME NEW r \in Routes, NEW o \in Orders, In(queue[r], o)
        PROVE  \/ ~Moved(SymbolOf[o])' /\ r = file'.routes[SymbolOf[o]]
               \/ Phase(file', SymbolOf[o]) = "cutover" /\ r = Target(file', SymbolOf[o])
    <3>1. \/ ~Moved(SymbolOf[o]) /\ r = file.routes[SymbolOf[o]]
          \/ Phase(file, SymbolOf[o]) = "cutover" /\ r = Target(file, SymbolOf[o])
      BY <1>2, <2>6 DEF CommandsFollow
    <3>2. CASE SymbolOf[o] = sym
      <4>1. complete => r = Target(file, sym)
        BY <1>9, <3>1, <3>2
      <4>2. ~complete => r = file.routes[sym]
        BY <1>6, <3>1, <3>2
      <4> QED BY <1>6, <1>11, <3>2, <4>1, <4>2
    <3>3. CASE SymbolOf[o] # sym
      BY <1>3, <1>10, <2>2, <3>1, <3>3 DEF SameFor
    <3> QED BY <3>2, <3>3
  <2> QED BY <2>1, <2>3, <2>4, <2>5, <2>6 DEF CommandsFollow
<1> QED BY <1>12, <1>13, <1>14, <1>15

LEMMA CopyBookKeeps ==
    ASSUME MigrationInv, NEW sym \in Symbols, CopyBook(sym), breaches' = {}
    PROVE  MigrationTypes' /\ Placement' /\ RouterFollows' /\ CommandsFollow'
           /\ CommandOnce' /\ BookFollows'
<1> DEFINE t == Target(file, sym).shard
           from == file.routes[sym]
<1>1. UNCHANGED <<file, router, shard, status, outbox, queue, seen, events>>
  BY DEF CopyBook, processes
<1>2. /\ IndexInv /\ MigrationTypes /\ Placement /\ RouterFollows /\ CommandsFollow
      /\ CommandOnce /\ BookFollows
  BY DEF MigrationInv
<1>3. ManagerType(file) /\ FromWhereItIs(file) /\ \A x \in Symbols : ServedAt(x) \in Shards
  BY InvTypes
<1>4. sym \in DOMAIN file.migs /\ Phase(file, sym) = "cutover" /\ file.migs[sym].from = from
  BY <1>3 DEF CopyBook, InPhase, Migrating, Phase, FromWhereItIs
<1>5. /\ <<sym, t>> \notin copied /\ Commands(queue[from], sym) = {}
      /\ book' = [book EXCEPT ![t] = @ \union (book[from.shard] \intersect OrdersOf(sym))]
      /\ copied' = copied \union {<<sym, t>>}
  BY <1>4, Zenon DEF CopyBook, Target
<1>6. t \in Shards /\ from.shard \in Shards
  BY <1>4, InvTypes
<1>7. \A p \in Pods : Phase(router[p], sym) = "cutover"
  <2>1. \A p \in Pods : router[p] = LoadFile(file)
    BY DEF CopyBook, Settled, Note
  <2> QED BY <1>3, <1>4, <2>1, LoadedFile
<1>8. shard[t] = Down /\ ~shard[t].up
  BY <1>2, <1>4, <1>5 DEF Placement, Down
<1> HIDE DEF t, from
<1>9. \A s \in Shards : \A o \in Orders :
        o \in book'[s] <=> \/ o \in book[s]
                           \/ s = t /\ SymbolOf[o] = sym /\ o \in book[from.shard]
  BY <1>2, <1>5, <1>6 DEF MigrationTypes, OrdersOf
<1>10. book' \in [Shards -> SUBSET Orders]
  BY <1>2, <1>5, <1>6 DEF MigrationTypes, OrdersOf
<1>11. \A o \in Orders : SymbolOf[o] = sym => o \notin book[t]
  BY <1>2, <1>5, <1>6, <1>8 DEF Placement, BookFollows, Ready
<1>12. ~Moved(sym) /\ Moved(sym)' /\ ServedAt(sym) = from.shard /\ ServedAt(sym)' = t
  BY <1>1, <1>4, <1>5 DEF Moved, ServedAt, t, from
<1>13. \A x \in Symbols \ {sym} : (Moved(x)' <=> Moved(x)) /\ ServedAt(x)' = ServedAt(x)
  BY <1>1, <1>5 DEF Moved, ServedAt
<1>14. \A x, s : Ready(x, s)' <=> Ready(x, s) \/ <<x, s>> = <<sym, t>>
  BY <1>5 DEF Ready
<1>15. \A o \in Orders : Rests(o)' <=> Rests(o)
  <2> SUFFICES ASSUME NEW o \in Orders PROVE Rests(o)' <=> Rests(o)
    OBVIOUS
  <2>1. CASE SymbolOf[o] = sym
    BY <1>6, <1>9, <1>11, <1>12, <2>1 DEF Rests
  <2>2. CASE SymbolOf[o] # sym
    <3>1. SymbolOf[o] \in Symbols
      BY ShardMigrationAssumption
    <3> QED BY <1>3, <1>9, <1>13, <2>2, <3>1 DEF Rests
  <2> QED BY <2>1, <2>2
<1>16. MigrationTypes'
  BY <1>1, <1>2, <1>10 DEF MigrationTypes, ManagerType
<1>17. Placement'
  <2>1. \A x \in Symbols : Serves(file.routes[x].shard, x)' /\ Ready(x, file.routes[x].shard)'
    BY <1>1, <1>2, <1>14 DEF Placement, Serves
  <2>2. ASSUME NEW x \in Symbols, Phase(file', x) # "none"
        PROVE  \/ shard'[Target(file', x).shard] = Down
               \/ /\ Phase(file', x) = "cutover" /\ <<x, Target(file', x).shard>> \in copied'
                  /\ Serves(Target(file, x).shard, x)'
    BY <1>1, <1>2, <1>5, <2>2 DEF Placement, Serves
  <2>3. ASSUME NEW x \in Symbols, NEW s \in Shards, <<x, s>> \in copied'
        PROVE  shard'[s].up \/ (Phase(file', x) = "cutover" /\ Target(file', x).shard = s)
    BY <1>1, <1>2, <1>4, <1>5, <2>3 DEF Placement, t
  <2>4. /\ \A x \in Symbols : shard'[Home[x].shard].up
        /\ \A x \in Symbols : Phase(file', x) # "complete"
        /\ \A x, y \in Symbols :
             (/\ Phase(file', x) # "none" /\ Phase(file', y) # "none"
              /\ Target(file', x).shard = Target(file', y).shard) => x = y
    BY <1>1, <1>2 DEF Placement
  <2> QED BY <2>1, <2>2, <2>3, <2>4 DEF Placement
<1>18. RouterFollows'
  BY <1>1, <1>2 DEF RouterFollows
<1>19. CommandsFollow'
  <2>1. \A o \in Orders : SymbolOf[o] \in Symbols
    BY ShardMigrationAssumption
  <2>2. \A x \in Symbols, p \in Pods : Moved(x)' => Phase(router'[p], x) = "cutover"
    BY <1>1, <1>2, <1>7, <1>13 DEF CommandsFollow
  <2>3. \A o \in Orders : Stopped(SymbolOf[o])' =>
          ~NewIn(outbox', o) /\ \A r \in Routes : ~NewIn(queue'[r], o)
    BY <1>1, <1>2 DEF CommandsFollow, Stopped
  <2>4. \A r \in Routes, o \in Orders, p \in Pods :
          NewIn(queue'[r], o) => r = CommandRoute(router'[p], SymbolOf[o])
    BY <1>1, <1>2 DEF CommandsFollow
  <2>5. ASSUME NEW r \in Routes, NEW o \in Orders, In(queue[r], o)
        PROVE  \/ ~Moved(SymbolOf[o])' /\ r = file'.routes[SymbolOf[o]]
               \/ Phase(file', SymbolOf[o]) = "cutover" /\ r = Target(file', SymbolOf[o])
    <3>1. \/ ~Moved(SymbolOf[o]) /\ r = file.routes[SymbolOf[o]]
          \/ Phase(file, SymbolOf[o]) = "cutover" /\ r = Target(file, SymbolOf[o])
      BY <1>2, <2>5 DEF CommandsFollow
    <3>2. SymbolOf[o] = sym => r # from
      BY <1>5, <2>5, NoneOfSymbol
    <3> QED BY <1>1, <1>13, <2>1, <3>1, <3>2 DEF from
  <2> QED BY <1>1, <2>2, <2>3, <2>4, <2>5 DEF CommandsFollow
<1>20. CommandOnce'
  <2>1. \A o \in Orders : Untouched(o) => Untouched(o)'
    BY <1>1, <1>6, <1>9 DEF Untouched
  <2> QED BY <1>1, <1>2, <2>1 DEF CommandOnce
<1>21. BookFollows'
  <2>1. \A s \in Shards : \A o \in book'[s] : Ready(SymbolOf[o], s)'
    BY <1>2, <1>9, <1>10, <1>14 DEF BookFollows
  <2> QED BY <1>1, <1>2, <1>15, <2>1 DEF BookFollows
<1> QED BY <1>16, <1>17, <1>18, <1>19, <1>20, <1>21

LEMMA StartOrderServiceKeeps ==
    ASSUME MigrationInv, NEW p \in Pods, StartOrderService(p)
    PROVE  MigrationTypes' /\ Placement' /\ RouterFollows' /\ CommandsFollow'
           /\ CommandOnce' /\ BookFollows'
<1>1. router' = [router EXCEPT ![p] = LoadFile(file)] /\ UNCHANGED <<file, shard, copied, work>>
  BY DEF StartOrderService
<1>2. IndexInv /\ MigrationTypes /\ Placement /\ RouterFollows /\ CommandsFollow
  BY DEF MigrationInv
<1>3. ManagerType(file) /\ FromWhereItIs(file)
  BY InvTypes
<1>4. /\ ManagerType(router'[p]) /\ \A q \in Pods \ {p} : router'[q] = router[q]
      /\ \A x \in Symbols : /\ Phase(router'[p], x) = Phase(file, x)
                            /\ CommandRoute(router'[p], x) = CommandRoute(file, x)
  <2>1. router'[p] = LoadFile(file) /\ \A q \in Pods \ {p} : router'[q] = router[q]
    BY <1>1, <1>2 DEF IndexInv
  <2> QED BY <1>3, <2>1, LoadedFile
<1>5. \A x \in Symbols : CommandRoute(router'[p], x) = IF Phase(file, x) = "cutover"
                                                       THEN Target(file, x) ELSE file.routes[x]
  BY <1>4, InvTypes
<1>6. \A x \in Symbols : (Moved(x)' <=> Moved(x)) /\ ServedAt(x)' = ServedAt(x)
  BY <1>1 DEF Moved, ServedAt
<1>7. \A x \in Symbols : Stopped(x)' => Stopped(x)
  BY <1>1, <1>4 DEF Stopped
<1>8. ASSUME NEW x \in Symbols, ~Stopped(x), NEW q \in Pods
      PROVE  CommandRoute(router'[q], x) = CommandRoute(router[q], x)
  BY <1>2, <1>4, <1>5, <1>8 DEF RouterFollows, Stopped
<1>9. MigrationTypes' /\ CommandOnce' /\ BookFollows'
  <2>1. (\A q \in Pods : ManagerType(router[q])') /\ \A s \in Shards : shard'[s] = Down \/ shard'[s].up = TRUE
    BY <1>1, <1>2, <1>4 DEF MigrationTypes
  <2>2. UNCHANGED <<work, copied>>
    BY <1>1
  <2> QED BY <1>1, <1>6, <2>1, <2>2, SameWork, SameBooks
<1>10. Placement'
  BY <1>1, <1>2 DEF Placement, Serves, Ready
<1>11. RouterFollows'
  BY <1>1, <1>2, <1>4, <1>5 DEF RouterFollows
<1>12. CommandsFollow'
  <2>1. UNCHANGED <<outbox, queue, file>>
    BY <1>1 DEF work
  <2>2. \A o \in Orders : SymbolOf[o] \in Symbols
    BY ShardMigrationAssumption
  <2>3. \A x \in Symbols, q \in Pods : Moved(x)' => Phase(router'[q], x) = "cutover"
    BY <1>2, <1>4, <1>6 DEF Moved, CommandsFollow
  <2>4. \A o \in Orders : Stopped(SymbolOf[o])' =>
          ~NewIn(outbox', o) /\ \A r \in Routes : ~NewIn(queue'[r], o)
    BY <1>2, <1>7, <2>1, <2>2 DEF CommandsFollow
  <2>5. \A r \in Routes, o \in Orders, q \in Pods :
          NewIn(queue'[r], o) => r = CommandRoute(router'[q], SymbolOf[o])
    BY <1>2, <1>8, <2>1, <2>2 DEF CommandsFollow
  <2>6. \A r \in Routes, o \in Orders : In(queue'[r], o) =>
         \/ ~Moved(SymbolOf[o])' /\ r = file'.routes[SymbolOf[o]]
         \/ Phase(file', SymbolOf[o]) = "cutover" /\ r = Target(file', SymbolOf[o])
    BY <1>2, <1>6, <2>1, <2>2 DEF CommandsFollow
  <2> QED BY <2>3, <2>4, <2>5, <2>6 DEF CommandsFollow
<1> QED BY <1>9, <1>10, <1>11, <1>12

LEMMA StartShardKeeps ==
    ASSUME MigrationInv, NEW s \in Shards, StartShard(s)
    PROVE  MigrationTypes' /\ Placement' /\ RouterFollows' /\ CommandsFollow'
           /\ CommandOnce' /\ BookFollows'
<1>1. /\ shard' = [shard EXCEPT ![s] = Started(s)] /\ RulesFor(s) # {}
      /\ UNCHANGED <<file, router, copied, work>>
  BY DEF StartShard
<1>2. IndexInv /\ MigrationTypes /\ Placement /\ RouterFollows /\ CommandsFollow
  BY DEF MigrationInv
<1>3. Started(s).up = TRUE /\ Started(s).symbols = RulesFor(s)
  BY DEF Started
<1>4. \A x \in Shards : shard'[x] = IF x = s THEN Started(s) ELSE shard[x]
  BY <1>1, <1>2 DEF IndexInv
<1>5. \A sym \in Symbols : sym \in RulesFor(s) <=>
             \/ file.routes[sym].shard = s
             \/ /\ Phase(file, sym) = "cutover" /\ Target(file, sym).shard = s
                /\ Ready(sym, s)
  BY <1>2, RulesOfShard
<1>6. ~Down.up
  BY DEF Down
<1>7. \A x \in Symbols : (Moved(x)' <=> Moved(x)) /\ ServedAt(x)' = ServedAt(x)
                         /\ (Stopped(x)' <=> Stopped(x))
  BY <1>1 DEF Moved, ServedAt, Stopped
<1>8. MigrationTypes' /\ CommandOnce' /\ BookFollows'
  <2>1. (\A p \in Pods : ManagerType(router[p])') /\ \A x \in Shards : shard'[x] = Down \/ shard'[x].up = TRUE
    BY <1>1, <1>2, <1>3, <1>4 DEF MigrationTypes, ManagerType
  <2>2. UNCHANGED <<work, copied>>
    BY <1>1
  <2> QED BY <1>1, <1>7, <2>1, <2>2, SameWork, SameBooks
<1>9. RouterFollows'
  BY <1>1, <1>2 DEF RouterFollows
<1>10. CommandsFollow'
  <2>1. UNCHANGED <<outbox, queue, file, router>> /\ \A o \in Orders : SymbolOf[o] \in Symbols
    BY <1>1, ShardMigrationAssumption DEF work
  <2> QED BY <1>2, <1>7, <2>1 DEF CommandsFollow
<1>11. Placement'
  <2>1. ASSUME NEW x \in Symbols
        PROVE  Serves(file.routes[x].shard, x)' /\ Ready(x, file.routes[x].shard)'
    <3>1. file.routes[x].shard \in Shards
      BY InvTypes
    <3>2. Serves(file.routes[x].shard, x) /\ Ready(x, file.routes[x].shard)
      BY <1>2 DEF Placement
    <3> QED BY <1>1, <1>3, <1>4, <1>5, <3>1, <3>2 DEF Serves, Ready
  <2>2. ASSUME NEW x \in Symbols, Phase(file, x) # "none"
        PROVE  \/ shard'[Target(file, x).shard] = Down
               \/ /\ Phase(file, x) = "cutover" /\ <<x, Target(file, x).shard>> \in copied
                  /\ Serves(Target(file, x).shard, x)'
    <3>1. Target(file, x).shard \in Shards
      BY <2>2, InvTypes
    <3>2. \/ shard[Target(file, x).shard] = Down
          \/ /\ Phase(file, x) = "cutover" /\ <<x, Target(file, x).shard>> \in copied
             /\ Serves(Target(file, x).shard, x)
      BY <1>2, <2>2 DEF Placement
    <3>3. CASE Target(file, x).shard # s
      BY <1>1, <1>4, <3>1, <3>2, <3>3 DEF Serves
    <3>4. CASE Target(file, x).shard = s /\ Phase(file, x) = "cutover" /\ <<x, s>> \in copied
      BY <1>1, <1>3, <1>4, <1>5, <3>1, <3>4 DEF Serves, Ready
    <3>5. CASE Target(file, x).shard = s /\ shard[s] = Down
      <4>1. PICK y \in Symbols : y \in RulesFor(s)
        BY <1>1 DEF RulesFor
      <4>2. file.routes[y].shard # s /\ Home[y].shard # s
        BY <1>2, <1>6, <3>5 DEF Placement, Serves
      <4>3. Phase(file, y) = "cutover" /\ Target(file, y).shard = s /\ <<y, s>> \in copied
        BY <1>5, <4>1, <4>2 DEF Ready
      <4>4. x = y
        BY <1>2, <2>2, <3>5, <4>3 DEF Placement
      <4> QED BY <3>4, <3>5, <4>3, <4>4
    <3> QED BY <3>2, <3>3, <3>4, <3>5
  <2>3. \A x \in Shards : shard[x].up => shard'[x].up
    BY <1>3, <1>4
  <2>4. \A x \in Symbols : shard'[Home[x].shard].up
    BY <1>2, <2>3, InvTypes DEF Placement
  <2>5. \A x \in Symbols, y \in Shards : <<x, y>> \in copied =>
          shard'[y].up \/ (Phase(file, x) = "cutover" /\ Target(file, x).shard = y)
    BY <1>2, <2>3 DEF Placement
  <2>6. /\ \A x \in Symbols : Phase(file, x) # "complete"
        /\ \A x, y \in Symbols :
             (/\ Phase(file, x) # "none" /\ Phase(file, y) # "none"
              /\ Target(file, x).shard = Target(file, y).shard) => x = y
    BY <1>2 DEF Placement
  <2> QED BY <1>1, <2>1, <2>2, <2>4, <2>5, <2>6 DEF Placement
<1> QED BY <1>8, <1>9, <1>10, <1>11

-----------------------------------------------------------------------------
(* Orders, commands and events.                                            *)

(* A new order, or a cancel, enters the outbox.                            *)
LEMMA PlaceKeeps ==
    ASSUME MigrationInv, NEW c \in Pods, NEW o \in Orders, breaches' = {},
           Place(c, o) \/ Cancel(c, o) \/ RejectStalePending(c, o) \/ ResendCancelCommand(o)
    PROVE  MigrationTypes' /\ Placement' /\ RouterFollows' /\ CommandsFollow'
           /\ CommandOnce' /\ BookFollows'
<1>1. UNCHANGED <<file, router, shard, copied, queue, book, seen, events>>
  BY DEF Place, Cancel, RejectStalePending, ResendCancelCommand, processes
<1>2. /\ IndexInv /\ MigrationTypes /\ Placement /\ RouterFollows /\ CommandsFollow
      /\ CommandOnce /\ BookFollows
  BY DEF MigrationInv
<1>3. PICK x \in Command : /\ x.id = o /\ outbox' = Append(outbox, x)
                           /\ x.kind = "New" => Place(c, o)
                           /\ x.kind = "Cancel" => \/ Cancel(c, o) \/ RejectStalePending(c, o)
                                                   \/ ResendCancelCommand(o)
  <2>1. CASE Place(c, o)
    <3> DEFINE y == [kind |-> "New", id |-> o]
    <3>1. y \in Command /\ y.id = o /\ y.kind = "New"
      BY DEF Command
    <3>2. outbox' = Append(outbox, y)
      BY <2>1 DEF Place
    <3> HIDE DEF y
    <3> QED BY <2>1, <3>1, <3>2
  <2>2. CASE Cancel(c, o) \/ RejectStalePending(c, o) \/ ResendCancelCommand(o)
    <3> DEFINE y == [kind |-> "Cancel", id |-> o]
    <3>1. y \in Command /\ y.id = o /\ y.kind = "Cancel"
      BY DEF Command
    <3>2. outbox' = Append(outbox, y)
      BY <2>2 DEF Cancel, RejectStalePending, ResendCancelCommand, CancelRow
    <3> HIDE DEF y
    <3> QED BY <2>2, <3>1, <3>2
  <2> QED BY <2>1, <2>2
<1>4. outbox \in Seq(Command)
  BY <1>2 DEF MigrationTypes
<1>5. /\ outbox' \in Seq(Command)
      /\ \A p : In(outbox', p) <=> In(outbox, p) \/ o = p
      /\ \A p : NewIn(outbox', p) <=> NewIn(outbox, p) \/ (o = p /\ x.kind = "New")
      /\ (NewFirst(outbox) /\ (x.kind = "New" => ~In(outbox, o))) => NewFirst(outbox')
  BY <1>3, <1>4, AppendCommand
<1>6. x.kind = "New" \/ x.kind = "Cancel"
  BY DEF Command
<1>7. x.kind = "New" => status[o] = "none" /\ AssertPlaceOrder(router[c], SymbolOf[o])
                        /\ PodsAgree(SymbolOf[o]) /\ status' = [status EXCEPT ![o] = "PENDING"]
  BY <1>3 DEF Place, Note
<1>8. x.kind = "Cancel" =>
        /\ status[o] \in {"PENDING", "ACCEPTED", "PARTIAL", "CANCELING"}
        /\ \/ status' = [status EXCEPT ![o] = "CANCELING"]
           \/ status' = [status EXCEPT ![o] = "REJECTED"]
           \/ status[o] = "CANCELING" /\ status' = status
  BY <1>3 DEF Cancel, RejectStalePending, ResendCancelCommand, CanTransition, AllowedFromStatuses
<1>9. /\ status' \in [Orders -> Status \union {"none"}]
      /\ \A p \in Orders \ {o} : status'[p] = status[p]
      /\ status'[o] \in {"PENDING", "CANCELING", "REJECTED"}
      /\ status[o] \notin Terminal
  BY <1>2, <1>6, <1>7, <1>8 DEF MigrationTypes, Status, Terminal
<1>10. Placement' /\ RouterFollows'
  BY <1>1, SameManagers
<1>11. MigrationTypes'
  BY <1>1, <1>2, <1>5, <1>9 DEF MigrationTypes, ManagerType
<1>12. \A p \in Orders : (Untouched(p)' <=> Untouched(p)) /\ (Rests(p)' <=> Rests(p))
  BY <1>1, SameManagers DEF Untouched, Rests
<1>13. x.kind = "New" => ~Stopped(SymbolOf[o])
  <2>1. SymbolOf[o] \in Symbols
    BY ShardMigrationAssumption
  <2>2. x.kind = "New" => Phase(router[c], SymbolOf[o]) \notin {"halt_no_write", "drain"}
    BY <1>7 DEF AssertPlaceOrder, InPhase, Phase
  <2> SUFFICES ASSUME x.kind = "New", Stopped(SymbolOf[o]) PROVE FALSE
    OBVIOUS
  <2>3. PICK q \in Pods : Phase(file, SymbolOf[o]) = "cutover" /\ Phase(router[q], SymbolOf[o]) = "drain"
    BY <1>2, <2>1, <2>2 DEF RouterFollows, Stopped
  <2>4. /\ CommandRoute(router[q], SymbolOf[o]) = file.routes[SymbolOf[o]]
        /\ CommandRoute(router[c], SymbolOf[o]) = Target(file, SymbolOf[o])
    BY <1>2, <2>1, <2>2, <2>3 DEF RouterFollows
  <2>5. file.routes[SymbolOf[o]] = Target(file, SymbolOf[o])
    BY <1>7, <2>4 DEF PodsAgree
  <2>6. shard[Target(file, SymbolOf[o]).shard].up
    BY <1>2, <2>1, <2>5 DEF Placement, Serves
  <2>7. Moved(SymbolOf[o])
    BY <1>2, <2>1, <2>3, <2>6 DEF Placement, Down, Moved
  <2>8. Phase(router[q], SymbolOf[o]) = "cutover"
    BY <1>2, <2>1, <2>7 DEF CommandsFollow
  <2> QED BY <2>3, <2>8
<1>14. CommandsFollow'
  <2>1. \A p \in Orders : Stopped(SymbolOf[p])' =>
          ~NewIn(outbox', p) /\ \A r \in Routes : ~NewIn(queue'[r], p)
    BY <1>1, <1>2, <1>5, <1>13, SameManagers DEF CommandsFollow
  <2>2. \A sym \in Symbols, q \in Pods : Moved(sym)' => Phase(router'[q], sym) = "cutover"
    BY <1>1, <1>2, SameManagers DEF CommandsFollow
  <2>3. \A r \in Routes, p \in Orders, q \in Pods :
          NewIn(queue'[r], p) => r = CommandRoute(router'[q], SymbolOf[p])
    BY <1>1, <1>2 DEF CommandsFollow
  <2>4. \A r \in Routes, p \in Orders : In(queue'[r], p) =>
         \/ ~Moved(SymbolOf[p])' /\ r = file'.routes[SymbolOf[p]]
         \/ Phase(file', SymbolOf[p]) = "cutover" /\ r = Target(file', SymbolOf[p])
    BY <1>1, <1>2, SameManagers DEF CommandsFollow
  <2> QED BY <2>1, <2>2, <2>3, <2>4 DEF CommandsFollow
<1>15. CommandOnce'
  <2>1. status[o] = "none" => ~In(outbox, o) /\ (\A r \in Routes : ~In(queue[r], o)) /\ Untouched(o)
    BY <1>2 DEF CommandOnce
  <2>2. NewFirst(outbox') /\ \A r \in Routes : NewFirst(queue'[r])
    BY <1>1, <1>2, <1>5, <1>7, <2>1 DEF CommandOnce
  <2>3. \A p \in Orders : NewIn(outbox', p) => \A r \in Routes : ~In(queue'[r], p)
    BY <1>1, <1>2, <1>5, <1>7, <2>1 DEF CommandOnce
  <2>4. \A p \in Orders : status'[p] = "none" =>
         ~In(outbox', p) /\ (\A r \in Routes : ~In(queue'[r], p)) /\ Untouched(p)'
    BY <1>1, <1>2, <1>5, <1>9, <1>12 DEF CommandOnce
  <2>5. ASSUME NEW p \in Orders, NewIn(outbox', p) \/ \E r \in Routes : NewIn(queue'[r], p)
        PROVE  Untouched(p)' /\ status'[p] \in {"PENDING", "CANCELING", "REJECTED"}
    <3>1. CASE NewIn(outbox, p) \/ \E r \in Routes : NewIn(queue[r], p)
      BY <1>2, <1>9, <1>12, <3>1 DEF CommandOnce
    <3>2. CASE p = o /\ x.kind = "New"
      BY <1>7, <1>9, <1>12, <2>1, <3>2
    <3> QED BY <1>1, <1>5, <2>5, <3>1, <3>2
  <2>6. /\ \A p \in Orders, r1, r2 \in Routes : (r1 # r2 /\ NewIn(queue'[r1], p)) => ~In(queue'[r2], p)
        /\ \A s1, s2 \in Shards : s1 # s2 => seen'[s1] \intersect seen'[s2] = {}
    BY <1>1, <1>2 DEF CommandOnce
  <2> QED BY <2>2, <2>3, <2>4, <2>5, <2>6 DEF CommandOnce
<1>16. BookFollows'
  <2>1. \A s \in Shards : \A p \in book'[s] : Ready(SymbolOf[p], s)'
    BY <1>1, <1>2, SameManagers DEF BookFollows
  <2>2. \A p \in Orders : Rests(p)' => status'[p] \notin {"FILLED", "CANCELED"} /\ ~Ended(events', p)
    BY <1>1, <1>2, <1>9, <1>12 DEF BookFollows
  <2>3. \A p \in Orders : status'[p] = "PARTIAL" => Rests(p)' \/ Ended(events', p)
    BY <1>1, <1>2, <1>9, <1>12 DEF BookFollows
  <2>4. \A p \in Orders : PartlyFilled(events', p) => Rests(p)'
    BY <1>1, <1>2, <1>12 DEF BookFollows
  <2> QED BY <2>1, <2>2, <2>3, <2>4 DEF BookFollows
<1> QED BY <1>10, <1>11, <1>14, <1>15, <1>16

(* The relay sends the first command of the outbox.                        *)
LEMMA SendCommandKeeps ==
    ASSUME MigrationInv, NEW c \in Pods, SendCommand(c), breaches' = {}
    PROVE  MigrationTypes' /\ Placement' /\ RouterFollows' /\ CommandsFollow'
           /\ CommandOnce' /\ BookFollows'
<1>1. UNCHANGED <<file, router, shard, copied, status, book, seen, events>>
  BY DEF SendCommand, processes
<1>2. /\ IndexInv /\ MigrationTypes /\ Placement /\ RouterFollows /\ CommandsFollow
      /\ CommandOnce /\ BookFollows
  BY DEF MigrationInv
<1>3. PICK cmd : cmd = Head(outbox)
  OBVIOUS
<1>4. PICK to : to = CommandRoute(router[c], SymbolOf[cmd.id])
  OBVIOUS
<1>5. /\ outbox # <<>> /\ outbox' = Tail(outbox)
      /\ queue' = [queue EXCEPT ![to] = Append(@, cmd)]
  BY <1>3, <1>4 DEF SendCommand, Note
<1>6. outbox \in Seq(Command) /\ queue \in [Routes -> Seq(Command)]
  BY <1>2 DEF MigrationTypes
<1>7. /\ cmd \in Command /\ outbox' \in Seq(Command)
      /\ \A p : In(outbox', p) => In(outbox, p)
      /\ \A p : NewIn(outbox', p) => NewIn(outbox, p)
      /\ In(outbox, cmd.id) /\ (cmd.kind = "New" => NewIn(outbox, cmd.id))
      /\ NewFirst(outbox') /\ ~NewIn(outbox', cmd.id)
      /\ cmd.kind = "Cancel" => ~NewIn(outbox, cmd.id)
  BY <1>2, <1>3, <1>5, <1>6, TakeCommand DEF CommandOnce
<1>8. /\ cmd.id \in Orders /\ SymbolOf[cmd.id] \in Symbols /\ to \in Routes
      /\ cmd.kind \in {"New", "Cancel"}
  BY <1>4, <1>7, InvTypes DEF Command
<1>9. queue' \in [Routes -> Seq(Command)] /\ queue'[to] = Append(queue[to], cmd)
      /\ \A r \in Routes \ {to} : queue'[r] = queue[r]
  <2>1. Append(queue[to], cmd) \in Seq(Command)
    BY <1>6, <1>7, <1>8, AppendCommand
  <2> QED BY <1>5, <1>6, <1>8, <2>1
<1>10. /\ \A p : In(queue'[to], p) <=> In(queue[to], p) \/ cmd.id = p
       /\ \A p : NewIn(queue'[to], p) <=> NewIn(queue[to], p) \/ (cmd.id = p /\ cmd.kind = "New")
       /\ (NewFirst(queue[to]) /\ (cmd.kind = "New" => ~In(queue[to], cmd.id))) => NewFirst(queue'[to])
  BY <1>6, <1>7, <1>8, <1>9, AppendCommand
<1>11. /\ \A r \in Routes : \A p : In(queue'[r], p) <=> In(queue[r], p) \/ (r = to /\ p = cmd.id)
       /\ \A r \in Routes : \A p : NewIn(queue'[r], p) <=>
            NewIn(queue[r], p) \/ (r = to /\ p = cmd.id /\ cmd.kind = "New")
  BY <1>9, <1>10
<1>12. cmd.kind = "New" => \A r \in Routes : ~In(queue[r], cmd.id)
  BY <1>2, <1>7, <1>8 DEF CommandOnce
<1>13. Placement' /\ RouterFollows'
  BY <1>1, SameManagers
<1>14. MigrationTypes'
  BY <1>1, <1>2, <1>7, <1>9 DEF MigrationTypes, ManagerType
<1>15. \A p \in Orders : (Untouched(p)' <=> Untouched(p)) /\ (Rests(p)' <=> Rests(p))
  BY <1>1, SameManagers DEF Untouched, Rests
<1>16. CommandsFollow'
  <2>1. \A p \in Orders : Stopped(SymbolOf[p])' =>
          ~NewIn(outbox', p) /\ \A r \in Routes : ~NewIn(queue'[r], p)
    BY <1>1, <1>2, <1>7, <1>8, <1>11, SameManagers DEF CommandsFollow
  <2>2. \A sym \in Symbols, q \in Pods : Moved(sym)' => Phase(router'[q], sym) = "cutover"
    BY <1>1, <1>2, SameManagers DEF CommandsFollow
  <2>3. ASSUME NEW r \in Routes, NEW p \in Orders, NEW q \in Pods, NewIn(queue'[r], p)
        PROVE  r = CommandRoute(router[q], SymbolOf[p])
    <3>1. CASE NewIn(queue[r], p)
      BY <1>2, <3>1 DEF CommandsFollow
    <3>2. CASE r = to /\ p = cmd.id /\ cmd.kind = "New"
      <4>1. ~Stopped(SymbolOf[p])
        BY <1>2, <1>7, <3>2 DEF CommandsFollow
      <4>2. CommandRoute(router[q], SymbolOf[p]) = CommandRoute(router[c], SymbolOf[p])
        BY <1>2, <1>8, <3>2, <4>1 DEF RouterFollows, Stopped
      <4> QED BY <1>4, <3>2, <4>2
    <3> QED BY <1>11, <2>3, <3>1, <3>2
  <2>4. ASSUME NEW r \in Routes, NEW p \in Orders, In(queue'[r], p)
        PROVE  \/ ~Moved(SymbolOf[p]) /\ r = file.routes[SymbolOf[p]]
               \/ Phase(file, SymbolOf[p]) = "cutover" /\ r = Target(file, SymbolOf[p])
    <3>1. CASE In(queue[r], p)
      BY <1>2, <3>1 DEF CommandsFollow
    <3>2. CASE r = to /\ p = cmd.id
      <4>1. Moved(SymbolOf[p]) => Phase(router[c], SymbolOf[p]) = "cutover"
        BY <1>2, <1>8, <3>2 DEF CommandsFollow
      <4>2. Moved(SymbolOf[p]) => Phase(file, SymbolOf[p]) = "cutover"
        BY DEF Moved
      <4> QED BY <1>2, <1>4, <1>8, <3>2, <4>1, <4>2 DEF RouterFollows
    <3> QED BY <1>11, <2>4, <3>1, <3>2
  <2>5. \A r \in Routes, p \in Orders : In(queue'[r], p) =>
         \/ ~Moved(SymbolOf[p])' /\ r = file'.routes[SymbolOf[p]]
         \/ Phase(file', SymbolOf[p]) = "cutover" /\ r = Target(file', SymbolOf[p])
    BY <1>1, <2>4, SameManagers
  <2> QED BY <1>1, <2>1, <2>2, <2>3, <2>5 DEF CommandsFollow
<1>17. CommandOnce'
  <2>1. NewFirst(outbox') /\ \A r \in Routes : NewFirst(queue'[r])
    BY <1>2, <1>7, <1>8, <1>9, <1>10, <1>12 DEF CommandOnce
  <2>2. \A p \in Orders : NewIn(outbox', p) => \A r \in Routes : ~In(queue'[r], p)
    BY <1>2, <1>7, <1>11 DEF CommandOnce
  <2>3. ASSUME NEW p \in Orders, NEW r1 \in Routes, NEW r2 \in Routes, r1 # r2, NewIn(queue'[r1], p),
               In(queue'[r2], p)
        PROVE  FALSE
    <3>1. CASE NewIn(queue[r1], p)
      <4>1. ~In(queue[r2], p)
        BY <1>2, <2>3, <3>1 DEF CommandOnce
      <4>2. r2 = to /\ p = cmd.id
        BY <1>11, <2>3, <4>1
      <4>3. r1 = CommandRoute(router[c], SymbolOf[p])
        BY <1>2, <3>1 DEF CommandsFollow
      <4> QED BY <1>4, <2>3, <4>2, <4>3
    <3>2. CASE r1 = to /\ p = cmd.id /\ cmd.kind = "New"
      BY <1>11, <1>12, <2>3, <3>2
    <3> QED BY <1>11, <2>3, <3>1, <3>2
  <2>4. \A p \in Orders : status'[p] = "none" =>
         ~In(outbox', p) /\ (\A r \in Routes : ~In(queue'[r], p)) /\ Untouched(p)'
    BY <1>1, <1>2, <1>7, <1>11, <1>15 DEF CommandOnce
  <2>5. \A p \in Orders : (NewIn(outbox', p) \/ \E r \in Routes : NewIn(queue'[r], p)) =>
            Untouched(p)' /\ status'[p] \in {"PENDING", "CANCELING", "REJECTED"}
    BY <1>1, <1>2, <1>7, <1>11, <1>15 DEF CommandOnce
  <2>6. \A s1, s2 \in Shards : s1 # s2 => seen'[s1] \intersect seen'[s2] = {}
    BY <1>1, <1>2 DEF CommandOnce
  <2> QED BY <2>1, <2>2, <2>3, <2>4, <2>5, <2>6 DEF CommandOnce
<1>18. BookFollows'
  <2>1. \A s \in Shards : \A p \in book'[s] : Ready(SymbolOf[p], s)'
    BY <1>1, <1>2, SameManagers DEF BookFollows
  <2> QED BY <1>1, <1>2, <1>15, <2>1 DEF BookFollows
<1> QED BY <1>13, <1>14, <1>16, <1>17, <1>18

(* The relay marks the row of an order it does not send any more.          *)
LEMMA SkipCommandKeeps ==
    ASSUME MigrationInv, SkipCommand
    PROVE  MigrationTypes' /\ Placement' /\ RouterFollows' /\ CommandsFollow'
           /\ CommandOnce' /\ BookFollows'
<1>1. UNCHANGED <<file, router, shard, copied, status, queue, book, seen, events>>
  BY DEF SkipCommand, processes
<1>2. /\ IndexInv /\ MigrationTypes /\ Placement /\ RouterFollows /\ CommandsFollow
      /\ CommandOnce /\ BookFollows
  BY DEF MigrationInv
<1>3. outbox # <<>> /\ outbox' = Tail(outbox) /\ outbox \in Seq(Command)
  BY <1>2 DEF SkipCommand, MigrationTypes
<1>4. /\ outbox' \in Seq(Command)
      /\ \A p : In(outbox', p) => In(outbox, p)
      /\ \A p : NewIn(outbox', p) => NewIn(outbox, p)
      /\ NewFirst(outbox')
  BY <1>2, <1>3, TakeCommand DEF CommandOnce
<1>5. Placement' /\ RouterFollows'
  BY <1>1, SameManagers
<1>6. MigrationTypes'
  BY <1>1, <1>2, <1>4 DEF MigrationTypes, ManagerType
<1>7. \A p \in Orders : (Untouched(p)' <=> Untouched(p)) /\ (Rests(p)' <=> Rests(p))
  BY <1>1, SameManagers DEF Untouched, Rests
<1>8. CommandsFollow'
  BY <1>1, <1>2, <1>4, SameManagers DEF CommandsFollow
<1>9. CommandOnce'
  BY <1>1, <1>2, <1>4, <1>7 DEF CommandOnce
<1>10. BookFollows'
  <2>1. \A s \in Shards : \A p \in book'[s] : Ready(SymbolOf[p], s)'
    BY <1>1, <1>2, SameManagers DEF BookFollows
  <2> QED BY <1>1, <1>2, <1>7, <2>1 DEF BookFollows
<1> QED BY <1>5, <1>6, <1>8, <1>9, <1>10

(* The database learns what a shard did.                                   *)
LEMMA ApplyEventKeeps ==
    ASSUME MigrationInv, ApplyEvent
    PROVE  MigrationTypes' /\ Placement' /\ RouterFollows' /\ CommandsFollow'
           /\ CommandOnce' /\ BookFollows'
<1>1. UNCHANGED <<file, router, shard, copied, outbox, queue, book, seen>>
  BY DEF ApplyEvent, processes
<1>2. /\ IndexInv /\ MigrationTypes /\ Placement /\ RouterFollows /\ CommandsFollow
      /\ CommandOnce /\ BookFollows
  BY DEF MigrationInv
<1>3. PICK ev : ev = Head(events)
  OBVIOUS
<1>4. /\ events # <<>> /\ events' = Tail(events)
      /\ \/ status[ev.id] \in Terminal /\ UNCHANGED status
         \/ status[ev.id] \notin Terminal /\ status' = [status EXCEPT ![ev.id] = ev.type]
  BY <1>3 DEF ApplyEvent
<1>5. events \in Seq(Event)
  BY <1>2 DEF MigrationTypes
<1>6. /\ ev \in Event /\ events' \in Seq(Event) /\ Mentions(events, ev.id)
      /\ \A o : Mentions(events', o) => Mentions(events, o)
      /\ \A o : Ended(events, o) <=> Ended(events', o) \/ Ends(ev, o)
      /\ \A o : PartlyFilled(events', o) => PartlyFilled(events, o)
      /\ \A o : (ev.id = o /\ ev.type = "PARTIAL" /\ ~Ended(events', o)) => PartlyFilled(events, o)
  BY <1>3, <1>4, <1>5, TakeEvent
<1>7. ev.id \in Orders /\ ev.type \in EventType
  BY <1>6 DEF Event
<1>8. /\ status' \in [Orders -> Status \union {"none"}]
      /\ \A p \in Orders \ {ev.id} : status'[p] = status[p]
      /\ \/ status[ev.id] \in Terminal /\ status'[ev.id] = status[ev.id]
         \/ status[ev.id] \notin Terminal /\ status'[ev.id] = ev.type
  BY <1>2, <1>4, <1>7 DEF MigrationTypes, Status
<1>9. Placement' /\ RouterFollows'
  BY <1>1, SameManagers
<1>10. MigrationTypes'
  BY <1>1, <1>2, <1>6, <1>8 DEF MigrationTypes, ManagerType
<1>11. \A p \in Orders : (Untouched(p) => Untouched(p)') /\ (Rests(p)' <=> Rests(p))
  BY <1>1, <1>6, SameManagers DEF Untouched, Rests
<1>12. ~Untouched(ev.id)
  BY <1>6 DEF Untouched
<1>13. CommandsFollow'
  BY <1>1, <1>2, SameManagers DEF CommandsFollow
<1>14. CommandOnce'
  <2>1. status'[ev.id] # "none"
    BY <1>7, <1>8 DEF Terminal, EventType
  <2>2. \A p \in Orders : status'[p] = "none" =>
         ~In(outbox', p) /\ (\A r \in Routes : ~In(queue'[r], p)) /\ Untouched(p)'
    BY <1>1, <1>2, <1>8, <1>11, <2>1 DEF CommandOnce
  <2>3. \A p \in Orders : (NewIn(outbox', p) \/ \E r \in Routes : NewIn(queue'[r], p)) =>
            Untouched(p)' /\ status'[p] \in {"PENDING", "CANCELING", "REJECTED"}
    BY <1>1, <1>2, <1>7, <1>8, <1>11, <1>12 DEF CommandOnce
  <2> QED BY <1>1, <1>2, <2>2, <2>3 DEF CommandOnce
<1>15. BookFollows'
  <2>1. \A s \in Shards : \A p \in book'[s] : Ready(SymbolOf[p], s)'
    BY <1>1, <1>2, SameManagers DEF BookFollows
  <2>2. ASSUME NEW p \in Orders, Rests(p) PROVE status'[p] \notin {"FILLED", "CANCELED"} /\ ~Ended(events', p)
    <3>1. status[p] \notin {"FILLED", "CANCELED"} /\ ~Ended(events, p)
      BY <1>2, <2>2 DEF BookFollows
    <3>2. ev.id = p => ev.type \notin {"FILLED", "CANCELED"}
      BY <1>6, <1>7, <3>1 DEF Ends
    <3>3. ~Ended(events', p)
      BY <1>6, <3>1
    <3> QED BY <1>8, <3>1, <3>2, <3>3
  <2>3. ASSUME NEW p \in Orders, status'[p] = "PARTIAL" PROVE Rests(p) \/ Ended(events', p)
    <3>1. CASE p = ev.id
      <4>1. status[p] \notin Terminal /\ ev.type = "PARTIAL"
        BY <1>8, <2>3, <3>1 DEF Terminal
      <4>2. PartlyFilled(events, p) \/ Ended(events', p)
        BY <1>6, <3>1, <4>1
      <4> QED BY <1>2, <4>2 DEF BookFollows
    <3>2. CASE p # ev.id
      <4>1. status[p] = "PARTIAL" /\ ~Ends(ev, p)
        BY <1>8, <2>3, <3>2 DEF Ends
      <4> QED BY <1>2, <1>6, <4>1 DEF BookFollows
    <3> QED BY <3>1, <3>2
  <2>4. \A p \in Orders : PartlyFilled(events', p) => Rests(p)
    BY <1>2, <1>6 DEF BookFollows
  <2> QED BY <1>11, <2>1, <2>2, <2>3, <2>4 DEF BookFollows
<1> QED BY <1>9, <1>10, <1>13, <1>14, <1>15

(* Events one after the other.                                             *)
LEMMA ConcatEvents ==
    ASSUME NEW e \in Seq(Event), NEW f \in Seq(Event)
    PROVE  /\ e \o f \in Seq(Event)
           /\ \A o : Mentions(e \o f, o) <=> Mentions(e, o) \/ Mentions(f, o)
           /\ \A o : Ended(e \o f, o) <=> Ended(e, o) \/ Ended(f, o)
           /\ \A o : PartlyFilled(e \o f, o) =>
                (PartlyFilled(e, o) /\ ~Ended(f, o)) \/ PartlyFilled(f, o)
<1> DEFINE a == e \o f
<1>1. /\ a \in Seq(Event) /\ DOMAIN a = 1..Len(e) + Len(f)
      /\ DOMAIN e = 1..Len(e) /\ DOMAIN f = 1..Len(f) /\ Len(e) \in Nat /\ Len(f) \in Nat
      /\ \A i \in 1..Len(e) + Len(f) : a[i] = IF i <= Len(e) THEN e[i] ELSE f[i - Len(e)]
  OBVIOUS
<1> HIDE DEF a
<1>2. \A i \in DOMAIN e : i \in DOMAIN a /\ a[i] = e[i]
  BY <1>1
<1>3. ASSUME NEW j \in DOMAIN f PROVE j + Len(e) \in DOMAIN a /\ a[j + Len(e)] = f[j]
  <2>1. /\ j + Len(e) \in 1..Len(e) + Len(f) /\ ~(j + Len(e) <= Len(e))
        /\ (j + Len(e)) - Len(e) = j
    BY <1>1
  <2> QED BY <1>1, <2>1
<1>4. \A i \in DOMAIN a : \/ (i \in DOMAIN e /\ a[i] = e[i])
                         \/ (i - Len(e) \in DOMAIN f /\ a[i] = f[i - Len(e)])
  BY <1>1
<1>5. \A o : Mentions(a, o) <=> Mentions(e, o) \/ Mentions(f, o)
  BY <1>2, <1>3, <1>4 DEF Mentions
<1>6. \A o : Ended(a, o) <=> Ended(e, o) \/ Ended(f, o)
  BY <1>2, <1>3, <1>4 DEF Ended
<1>7. ASSUME NEW o, PartlyFilled(a, o)
      PROVE  (PartlyFilled(e, o) /\ ~Ended(f, o)) \/ PartlyFilled(f, o)
  <2>1. PICK i \in DOMAIN a : /\ a[i].id = o /\ a[i].type = "PARTIAL"
                              /\ \A j \in DOMAIN a : j > i => ~Ends(a[j], o)
    BY <1>7 DEF PartlyFilled
  <2>2. CASE i \in DOMAIN e /\ a[i] = e[i]
    <3>1. ASSUME NEW j \in DOMAIN f PROVE ~Ends(f[j], o)
      <4>1. j + Len(e) > i
        BY <1>1, <2>2
      <4> QED BY <1>3, <2>1, <4>1
    <3>2. \A j \in DOMAIN e : j > i => ~Ends(e[j], o)
      BY <1>2, <2>1
    <3>3. PartlyFilled(e, o)
      BY <2>1, <2>2, <3>2 DEF PartlyFilled
    <3> QED BY <3>1, <3>3 DEF Ended
  <2>3. CASE i - Len(e) \in DOMAIN f /\ a[i] = f[i - Len(e)]
    <3>1. ASSUME NEW j \in DOMAIN f, j > i - Len(e) PROVE ~Ends(f[j], o)
      <4>1. j + Len(e) > i
        BY <1>1, <3>1
      <4> QED BY <1>3, <2>1, <4>1
    <3> QED BY <2>1, <2>3, <3>1 DEF PartlyFilled
  <2> QED BY <1>4, <2>2, <2>3
<1> QED BY <1>1, <1>5, <1>6, <1>7 DEF a

LEMMA OneEvent ==
    ASSUME NEW x \in Event
    PROVE  /\ <<x>> \in Seq(Event)
           /\ \A o : Mentions(<<x>>, o) <=> x.id = o
           /\ \A o : Ended(<<x>>, o) <=> Ends(x, o)
           /\ \A o : PartlyFilled(<<x>>, o) => x.id = o /\ x.type = "PARTIAL"
BY DEF Mentions, Ended, PartlyFilled

(* What a shard does with a command of order o: the orders it mentions in  *)
(* events, the ones it ends, the ones partly filled, the one that comes to *)
(* rest and the one it has now seen.                                       *)
Effect(s, o, touched, ended, partly, resting, new) ==
    /\ touched \subseteq Orders /\ ended \subseteq touched /\ partly \subseteq touched
    /\ resting \subseteq {o} /\ new \subseteq {o} /\ resting \intersect ended = {}
    /\ partly \intersect ended = {}
    /\ \A p \in touched : p = o \/ (p \in book[s] /\ SymbolOf[p] = SymbolOf[o])
    /\ partly \subseteq book[s] \union resting
    /\ events' \in Seq(Event)
    /\ \A p : Mentions(events', p) <=> Mentions(events, p) \/ p \in touched
    /\ \A p : Ended(events', p) <=> Ended(events, p) \/ p \in ended
    /\ \A p : PartlyFilled(events', p) =>
                (PartlyFilled(events, p) /\ p \notin ended) \/ p \in partly
    /\ book' = [book EXCEPT ![s] = (@ \ ended) \union resting]
    /\ seen' = [seen EXCEPT ![s] = @ \union new]

(* Every way of consuming a command has such an effect; an order comes to  *)
(* rest, or is seen, only by its new-order command.                        *)
LEMMA ConsumeEffect ==
    ASSUME MigrationInv, NEW s \in Shards, NEW r \in Routes, Consume(s, r),
           NEW cmd \in Command, cmd = Head(queue[r]),
           cmd.kind = "New" => \A x \in Shards : cmd.id \notin book[x]
    PROVE  \E touched, ended, partly, resting, new :
              /\ Effect(s, cmd.id, touched, ended, partly, resting, new)
              /\ cmd.kind # "New" => resting = {} /\ new = {}
<1> DEFINE o == cmd.id
<1>1. /\ book \in [Shards -> SUBSET Orders] /\ seen \in [Shards -> SUBSET Orders]
      /\ events \in Seq(Event)
  BY DEF MigrationInv, MigrationTypes
<1>2. o \in Orders
  BY DEF Command
<1>3. \A p \in Orders, type \in EventType : /\ Ev(p, type) \in Event
                                            /\ Ev(p, type).id = p /\ Ev(p, type).type = type
  BY DEF Ev, Event
<1>4. {"ACCEPTED", "PARTIAL", "FILLED", "CANCELED"} \subseteq EventType
  BY DEF EventType
<1>5. \/ cmd.kind = "New" /\ NewOrder(s, o)
      \/ cmd.kind = "New" /\ UNCHANGED <<book, seen, events>>
      \/ /\ cmd.kind = "Cancel" /\ book' = [book EXCEPT ![s] = @ \ {o}]
         /\ events' = Append(events, Ev(o, "CANCELED")) /\ UNCHANGED seen
  BY Zenon DEF Consume
<1> HIDE DEF o
<1>6. CASE cmd.kind = "New" /\ UNCHANGED <<book, seen, events>>
  <2>1. book' = [book EXCEPT ![s] = (@ \ {}) \union {}] /\ seen' = [seen EXCEPT ![s] = @ \union {}]
    BY <1>1, <1>6
  <2>2. Effect(s, o, {}, {}, {}, {}, {})
    BY <1>1, <1>6, <2>1 DEF Effect
  <2> QED BY <1>6, <2>2 DEF o
<1>7. CASE /\ cmd.kind = "Cancel" /\ book' = [book EXCEPT ![s] = @ \ {o}]
           /\ events' = Append(events, Ev(o, "CANCELED")) /\ UNCHANGED seen
  <2>1. PICK x \in Event : x.id = o /\ x.type = "CANCELED" /\ events' = Append(events, x)
    BY <1>2, <1>3, <1>4, <1>7
  <2>2. \A p : Ends(x, p) <=> p \in {o}
    BY <2>1 DEF Ends
  <2>3. /\ events' \in Seq(Event)
        /\ \A p : Mentions(events', p) <=> Mentions(events, p) \/ p \in {o}
        /\ \A p : Ended(events', p) <=> Ended(events, p) \/ p \in {o}
        /\ \A p : PartlyFilled(events', p) => PartlyFilled(events, p) /\ p \notin {o}
    BY <1>1, <2>1, <2>2, AppendEvent
  <2>4. book' = [book EXCEPT ![s] = (@ \ {o}) \union {}] /\ seen' = [seen EXCEPT ![s] = @ \union {}]
    BY <1>1, <1>7
  <2>5. Effect(s, o, {o}, {o}, {}, {}, {})
    BY <1>2, <2>3, <2>4 DEF Effect
  <2> QED BY <1>7, <2>5 DEF o
<1>8. CASE cmd.kind = "New" /\ NewOrder(s, o)
  <2> DEFINE makers == {m \in book[s] : SymbolOf[m] = SymbolOf[o]}
  <2>1. PICK hit \in SetToAllKPermutations(makers), left \in BOOLEAN, rests \in BOOLEAN :
           /\ left => hit # <<>> /\ ~rests
           /\ book' = [book EXCEPT ![s] =
                          (@ \ {hit[i] : i \in 1..(IF left THEN Len(hit) - 1 ELSE Len(hit))})
                              \union (IF rests THEN {o} ELSE {})]
           /\ events' = events \o BuildNewOrderEvents(o, hit, left, rests)
    BY <1>8, Zenon DEF NewOrder
  <2>2. seen' = [seen EXCEPT ![s] = @ \union {o}]
    BY <1>8, Zenon DEF NewOrder
  <2>3. PICK T \in SUBSET makers : hit \in SetToSeqs(T)
    BY DEF SetToAllKPermutations
  <2>4. IsFiniteSet(T)
    <3>1. T \in SUBSET Orders /\ IsFiniteSet(Orders)
      BY <1>1, ShardMigrationAssumption
    <3> QED BY <3>1, FS_Subset
  <2>5. PICK n \in Nat : n = Cardinality(T)
    BY <2>4, FS_CardinalityType
  <2>6. /\ hit \in [1..n -> T] /\ \A i, j \in 1..n : i # j => hit[i] # hit[j]
        /\ T \subseteq book[s] /\ \A m \in T : SymbolOf[m] = SymbolOf[o]
    BY <2>3, <2>5 DEF SetToSeqs
  <2> HIDE DEF makers
  <2> DEFINE type(i) == IF left /\ i = n THEN "PARTIAL" ELSE "FILLED"
             f == [i \in 1..n |-> Ev(hit[i], type(i))]
             g == IF n = 0 THEN <<>> ELSE <<Ev(o, IF rests THEN "PARTIAL" ELSE "FILLED")>>
             b == (<<Ev(o, "ACCEPTED")>> \o f) \o g
             gone == {hit[i] : i \in 1..(IF left THEN n - 1 ELSE n)}
             touched == {o} \union {hit[i] : i \in 1..n}
             ended == gone \union (IF n # 0 /\ ~rests THEN {o} ELSE {})
             partly == (IF left THEN {hit[n]} ELSE {}) \union (IF rests /\ n # 0 THEN {o} ELSE {})
             resting == IF rests THEN {o} ELSE {}
  <2>7. /\ Len(hit) = n /\ DOMAIN hit = 1..n /\ (hit = <<>> <=> n = 0)
        /\ left => n # 0 /\ ~rests
    BY <2>1, <2>6
  <2>8. o \notin book[s] /\ \A i \in 1..n : /\ hit[i] \in book[s] /\ hit[i] \in Orders /\ hit[i] # o
                                          /\ SymbolOf[hit[i]] = SymbolOf[o]
    BY <1>1, <1>8, <2>6 DEF o
  <2>9. events' = events \o b
    BY <2>1, <2>7, Zenon DEF BuildNewOrderEvents
  <2>10. /\ Ev(o, "ACCEPTED") \in Event /\ Ev(o, "ACCEPTED").id = o
         /\ Ev(o, "ACCEPTED").type = "ACCEPTED"
    BY <1>2, <1>3, <1>4
  <2>11. \A i \in 1..n : Ev(hit[i], type(i)) \in Event /\ Ev(hit[i], type(i)).id = hit[i]
                        /\ Ev(hit[i], type(i)).type = type(i)
    BY <1>3, <1>4, <2>8
  <2>12. f \in Seq(Event) /\ DOMAIN f = 1..n
        /\ \A i \in 1..n : f[i].id = hit[i] /\ f[i].type = type(i)
    <3>1. f \in [1..n -> Event]
      BY <2>11
    <3> QED BY <2>11, <3>1
  <2>13. /\ \A p : Mentions(f, p) <=> p \in {hit[i] : i \in 1..n}
         /\ \A p : Ended(f, p) <=> p \in gone
         /\ \A p : PartlyFilled(f, p) => left /\ p = hit[n]
    <3> HIDE DEF f
    <3>1. \A p : Mentions(f, p) <=> p \in {hit[i] : i \in 1..n}
      BY <2>12 DEF Mentions
    <3>2. \A i \in 1..n : i \in 1..(IF left THEN n - 1 ELSE n) <=> ~(left /\ i = n)
      OBVIOUS
    <3>3. \A p : \A i \in 1..n : Ends(f[i], p) <=> hit[i] = p /\ i \in 1..(IF left THEN n - 1 ELSE n)
      BY <2>12, <3>2 DEF Ends
    <3>4. 1..(IF left THEN n - 1 ELSE n) \subseteq 1..n
      OBVIOUS
    <3>5. \A p : Ended(f, p) <=> p \in gone
      BY <2>12, <3>3, <3>4 DEF Ended
    <3>6. \A p : PartlyFilled(f, p) => left /\ p = hit[n]
      BY <2>12 DEF PartlyFilled
    <3> QED BY <3>1, <3>5, <3>6
  <2>14. /\ g \in Seq(Event)
         /\ \A p : Mentions(g, p) <=> n # 0 /\ p = o
         /\ \A p : Ended(g, p) <=> n # 0 /\ ~rests /\ p = o
         /\ \A p : PartlyFilled(g, p) => n # 0 /\ rests /\ p = o
    <3>1. CASE n = 0
      <4>1. g = <<>>
        BY <3>1
      <4> HIDE DEF g
      <4> QED BY <3>1, <4>1 DEF Mentions, Ended, PartlyFilled
    <3>2. CASE n # 0
      <4>1. PICK x \in Event : x.id = o /\ x.type = (IF rests THEN "PARTIAL" ELSE "FILLED") /\ g = <<x>>
        BY <1>2, <1>3, <1>4, <3>2
      <4> HIDE DEF g
      <4>2. \A p : Ends(x, p) <=> ~rests /\ p = o
        BY <4>1 DEF Ends
      <4>3. x.type = "PARTIAL" => rests
        BY <4>1
      <4> QED BY <3>2, <4>1, <4>2, <4>3, OneEvent
    <3> QED BY <3>1, <3>2
  <2> HIDE DEF f, g
  <2>15. /\ <<Ev(o, "ACCEPTED")>> \in Seq(Event)
         /\ \A p : Mentions(<<Ev(o, "ACCEPTED")>>, p) <=> p = o
         /\ \A p : ~Ended(<<Ev(o, "ACCEPTED")>>, p)
         /\ \A p : ~PartlyFilled(<<Ev(o, "ACCEPTED")>>, p)
    BY <2>10, OneEvent DEF Ends
  <2>16. PICK h \in Seq(Event) :
            /\ h = <<Ev(o, "ACCEPTED")>> \o f
            /\ \A p : Mentions(h, p) <=> p = o \/ Mentions(f, p)
            /\ \A p : Ended(h, p) <=> Ended(f, p)
            /\ \A p : PartlyFilled(h, p) => PartlyFilled(f, p)
    <3>1. f \in Seq(Event)
      BY <2>12
    <3> QED BY <2>15, <3>1, ConcatEvents
  <2>17. /\ b \in Seq(Event)
         /\ \A p : Mentions(b, p) <=> Mentions(h, p) \/ Mentions(g, p)
         /\ \A p : Ended(b, p) <=> Ended(h, p) \/ Ended(g, p)
         /\ \A p : PartlyFilled(b, p) => (PartlyFilled(h, p) /\ ~Ended(g, p)) \/ PartlyFilled(g, p)
    BY <2>14, <2>16, ConcatEvents
  <2> HIDE DEF b
  <2>18. /\ events' \in Seq(Event)
         /\ \A p : Mentions(events', p) <=> Mentions(events, p) \/ Mentions(b, p)
         /\ \A p : Ended(events', p) <=> Ended(events, p) \/ Ended(b, p)
         /\ \A p : PartlyFilled(events', p) =>
                        (PartlyFilled(events, p) /\ ~Ended(b, p)) \/ PartlyFilled(b, p)
    BY <1>1, <2>9, <2>17, ConcatEvents
  <2>19. \A p : Mentions(b, p) <=> p \in touched
    BY <2>13, <2>14, <2>16, <2>17
  <2>20. \A p : Ended(b, p) <=> p \in ended
    <3> HIDE DEF gone
    <3>1. \A p : p \in ended <=> p \in gone \/ (n # 0 /\ ~rests /\ p = o)
      OBVIOUS
    <3> HIDE DEF ended
    <3> QED BY <2>13, <2>14, <2>16, <2>17, <3>1
  <2>21. \A p : PartlyFilled(b, p) => p \in partly
    <3> HIDE DEF gone
    <3>1. \A p : p \in partly <=> (left /\ p = hit[n]) \/ (rests /\ n # 0 /\ p = o)
      OBVIOUS
    <3> HIDE DEF partly
    <3> QED BY <2>13, <2>14, <2>16, <2>17, <3>1
  <2>22. book' = [book EXCEPT ![s] = (@ \ ended) \union resting]
    <3>1. book' = [book EXCEPT ![s] = (@ \ gone) \union resting]
      BY <2>1, <2>7
    <3>2. book[s] \ gone = book[s] \ ended
      BY <2>8
    <3> HIDE DEF gone, ended, resting
    <3> QED BY <1>1, <3>1, <3>2
  <2>23. gone \subseteq {hit[i] : i \in 1..n} /\ o \notin gone /\ (left => hit[n] \notin gone)
    <3>1. 1..(IF left THEN n - 1 ELSE n) \subseteq 1..n
      OBVIOUS
    <3>2. left => \A i \in 1..n - 1 : i \in 1..n /\ n \in 1..n /\ i # n
      BY <2>7
    <3>3. left => \A i \in 1..n - 1 : hit[i] # hit[n]
      BY <2>6, <3>2
    <3> QED BY <2>8, <3>1, <3>3
  <2>24. left => hit[n] \in {hit[i] : i \in 1..n} /\ hit[n] \in book[s] /\ hit[n] # o
    BY <2>7, <2>8
  <2>25. touched \subseteq Orders /\ \A p \in touched : p = o \/ (p \in book[s] /\ SymbolOf[p] = SymbolOf[o])
    BY <1>2, <2>8
  <2> HIDE DEF gone
  <2>26. /\ ended \subseteq touched /\ partly \subseteq touched
         /\ resting \subseteq {o} /\ resting \intersect ended = {}
         /\ partly \intersect ended = {} /\ partly \subseteq book[s] \union resting
    BY <2>7, <2>23, <2>24
  <2>27. Effect(s, o, touched, ended, partly, resting, {o})
    <3> HIDE DEF touched, ended, partly, resting
    <3> QED BY <2>2, <2>18, <2>19, <2>20, <2>21, <2>22, <2>25, <2>26 DEF Effect
  <2> HIDE DEF touched, ended, partly, resting
  <2> QED BY <1>8, <2>27 DEF o
<1> QED BY <1>5, <1>6, <1>7, <1>8 DEF o

(* A shard consumes a command: it is the shard that has the book of the    *)
(* symbol, so that book, events and statuses go on telling one story.      *)
LEMMA ConsumeKeeps ==
    ASSUME MigrationInv, NEW s \in Shards, NEW r \in Routes, Consume(s, r)
    PROVE  MigrationTypes' /\ Placement' /\ RouterFollows' /\ CommandsFollow'
           /\ CommandOnce' /\ BookFollows'
<1>1. UNCHANGED <<file, router, shard, copied, status, outbox>>
  BY DEF Consume, processes
<1>2. /\ IndexInv /\ MigrationTypes /\ Placement /\ RouterFollows /\ CommandsFollow
      /\ CommandOnce /\ BookFollows
  BY DEF MigrationInv
<1>3. /\ outbox \in Seq(Command) /\ queue \in [Routes -> Seq(Command)]
      /\ book \in [Shards -> SUBSET Orders] /\ seen \in [Shards -> SUBSET Orders]
  BY <1>2 DEF MigrationTypes
<1>4. /\ shard[s].up /\ r.shard = s /\ queue[r] # <<>>
      /\ queue' = [queue EXCEPT ![r] = Tail(@)]
  BY DEF Consume
<1>5. PICK cmd : cmd = Head(queue[r])
  OBVIOUS
<1>6. PICK o : o = cmd.id
  OBVIOUS
<1>7. /\ cmd \in Command /\ Tail(queue[r]) \in Seq(Command)
      /\ \A p : In(Tail(queue[r]), p) => In(queue[r], p)
      /\ \A p : NewIn(Tail(queue[r]), p) => NewIn(queue[r], p)
      /\ In(queue[r], o) /\ (cmd.kind = "New" => NewIn(queue[r], o))
      /\ NewFirst(Tail(queue[r])) /\ ~NewIn(Tail(queue[r]), o)
      /\ cmd.kind = "Cancel" => ~NewIn(queue[r], o)
  BY <1>2, <1>3, <1>4, <1>5, <1>6, TakeCommand DEF CommandOnce
<1>8. o \in Orders /\ SymbolOf[o] \in Symbols /\ cmd.kind \in {"New", "Cancel"}
  BY <1>6, <1>7, InvTypes DEF Command
<1>9. /\ queue' \in [Routes -> Seq(Command)]
      /\ \A q \in Routes : queue'[q] = IF q = r THEN Tail(queue[r]) ELSE queue[q]
  BY <1>3, <1>4, <1>7
<1>10. /\ \A q \in Routes : \A p : In(queue'[q], p) => In(queue[q], p)
       /\ \A q \in Routes : \A p : NewIn(queue'[q], p) => NewIn(queue[q], p)
       /\ \A q \in Routes : NewFirst(queue'[q])
  BY <1>2, <1>7, <1>9 DEF CommandOnce
<1>11. ~NewIn(outbox, o) /\ \A q \in Routes : ~NewIn(queue'[q], o)
  BY <1>2, <1>7, <1>8, <1>9 DEF CommandOnce
<1>12. status[o] # "none"
  BY <1>2, <1>7, <1>8 DEF CommandOnce
<1>13. cmd.kind = "New" => Untouched(o) /\ status[o] \in {"PENDING", "CANCELING", "REJECTED"}
  BY <1>2, <1>7, <1>8 DEF CommandOnce
<1>14. s = ServedAt(SymbolOf[o]) /\ Ready(SymbolOf[o], s)
  <2>1. \/ ~Moved(SymbolOf[o]) /\ r = file.routes[SymbolOf[o]]
        \/ Phase(file, SymbolOf[o]) = "cutover" /\ r = Target(file, SymbolOf[o])
    BY <1>2, <1>7, <1>8 DEF CommandsFollow
  <2>2. CASE ~Moved(SymbolOf[o]) /\ r = file.routes[SymbolOf[o]]
    BY <1>2, <1>4, <1>8, <2>2 DEF ServedAt, Placement
  <2>3. CASE Phase(file, SymbolOf[o]) = "cutover" /\ r = Target(file, SymbolOf[o])
    <3>1. shard[s] # Down
      BY <1>4 DEF Down
    <3>2. <<SymbolOf[o], s>> \in copied
      BY <1>2, <1>4, <1>8, <2>3, <3>1 DEF Placement
    <3> QED BY <1>4, <2>3, <3>2 DEF ServedAt, Moved, Ready
  <2> QED BY <2>1, <2>2, <2>3
<1>15. PICK touched, ended, partly, resting, new :
          /\ Effect(s, o, touched, ended, partly, resting, new)
          /\ cmd.kind # "New" => resting = {} /\ new = {}
  <2>1. cmd.kind = "New" => \A x \in Shards : cmd.id \notin book[x]
    BY <1>6, <1>13 DEF Untouched
  <2>2. \E touched, ended, partly, resting, new :
              /\ Effect(s, cmd.id, touched, ended, partly, resting, new)
              /\ cmd.kind # "New" => resting = {} /\ new = {}
    BY <1>5, <1>7, <2>1, ConsumeEffect
  <2> QED BY <1>6, <2>2
<1>16. /\ touched \subseteq Orders /\ ended \subseteq touched /\ partly \subseteq touched
       /\ resting \subseteq {o} /\ new \subseteq {o} /\ resting \intersect ended = {}
       /\ partly \intersect ended = {} /\ partly \subseteq book[s] \union resting
       /\ \A p \in touched : p = o \/ (p \in book[s] /\ SymbolOf[p] = SymbolOf[o])
  BY <1>15 DEF Effect
<1>17. /\ events' \in Seq(Event)
       /\ \A p : Mentions(events', p) <=> Mentions(events, p) \/ p \in touched
       /\ \A p : Ended(events', p) <=> Ended(events, p) \/ p \in ended
       /\ \A p : PartlyFilled(events', p) =>
                    (PartlyFilled(events, p) /\ p \notin ended) \/ p \in partly
  BY <1>15 DEF Effect
<1>18. /\ book' = [book EXCEPT ![s] = (@ \ ended) \union resting]
       /\ seen' = [seen EXCEPT ![s] = @ \union new]
  BY <1>15 DEF Effect
<1>19. /\ book' \in [Shards -> SUBSET Orders] /\ seen' \in [Shards -> SUBSET Orders]
       /\ \A x \in Shards : book'[x] = IF x = s THEN (book[s] \ ended) \union resting ELSE book[x]
       /\ \A x \in Shards : seen'[x] = IF x = s THEN seen[s] \union new ELSE seen[x]
  <2>1. resting \subseteq Orders /\ new \subseteq Orders
    BY <1>8, <1>16
  <2> QED BY <1>3, <1>18, <2>1
<1>20. Placement' /\ RouterFollows'
  BY <1>1, SameManagers
<1>21. MigrationTypes'
  BY <1>1, <1>2, <1>9, <1>17, <1>19 DEF MigrationTypes, ManagerType
<1>22. CommandsFollow'
  <2>1. \A p \in Orders : Stopped(SymbolOf[p])' =>
          ~NewIn(outbox', p) /\ \A q \in Routes : ~NewIn(queue'[q], p)
    BY <1>1, <1>2, <1>10, SameManagers DEF CommandsFollow
  <2>2. \A sym \in Symbols, q \in Pods : Moved(sym)' => Phase(router'[q], sym) = "cutover"
    BY <1>1, <1>2, SameManagers DEF CommandsFollow
  <2>3. \A q \in Routes, p \in Orders, c \in Pods :
          NewIn(queue'[q], p) => q = CommandRoute(router'[c], SymbolOf[p])
    BY <1>1, <1>2, <1>10 DEF CommandsFollow
  <2>4. \A q \in Routes, p \in Orders : In(queue'[q], p) =>
         \/ ~Moved(SymbolOf[p])' /\ q = file'.routes[SymbolOf[p]]
         \/ Phase(file', SymbolOf[p]) = "cutover" /\ q = Target(file', SymbolOf[p])
    BY <1>1, <1>2, <1>10, SameManagers DEF CommandsFollow
  <2> QED BY <2>1, <2>2, <2>3, <2>4 DEF CommandsFollow
<1>23. \A p \in touched : /\ status[p] # "none"
                          /\ ~NewIn(outbox, p) /\ \A q \in Routes : ~NewIn(queue'[q], p)
  <2> SUFFICES ASSUME NEW p \in touched
               PROVE  /\ status[p] # "none"
                      /\ ~NewIn(outbox, p) /\ \A q \in Routes : ~NewIn(queue'[q], p)
    OBVIOUS
  <2>1. CASE p = o
    BY <1>11, <1>12, <2>1
  <2>2. CASE p \in book[s]
    <3>1. p \in Orders /\ ~Untouched(p)
      BY <1>16, <2>2 DEF Untouched
    <3> QED BY <1>2, <1>10, <3>1 DEF CommandOnce
  <2> QED BY <1>16, <2>1, <2>2
<1>24. \A p \in Orders : (Untouched(p) /\ p # o /\ p \notin touched) => Untouched(p)'
  BY <1>16, <1>17, <1>19 DEF Untouched
<1>25. CommandOnce'
  <2>1. NewFirst(outbox') /\ \A q \in Routes : NewFirst(queue'[q])
    BY <1>1, <1>2, <1>10 DEF CommandOnce
  <2>2. \A p \in Orders : NewIn(outbox', p) => \A q \in Routes : ~In(queue'[q], p)
    BY <1>1, <1>2, <1>10 DEF CommandOnce
  <2>3. \A p \in Orders, r1, r2 \in Routes : (r1 # r2 /\ NewIn(queue'[r1], p)) => ~In(queue'[r2], p)
    BY <1>2, <1>10 DEF CommandOnce
  <2>4. ASSUME NEW p \in Orders, status[p] = "none"
        PROVE  ~In(outbox, p) /\ (\A q \in Routes : ~In(queue'[q], p)) /\ Untouched(p)'
    <3>1. p # o /\ p \notin touched
      BY <1>12, <1>23, <2>4
    <3> QED BY <1>2, <1>10, <1>24, <2>4, <3>1 DEF CommandOnce
  <2>5. ASSUME NEW p \in Orders, NewIn(outbox, p) \/ \E q \in Routes : NewIn(queue'[q], p)
        PROVE  Untouched(p)' /\ status[p] \in {"PENDING", "CANCELING", "REJECTED"}
    <3>1. p # o /\ p \notin touched
      BY <1>11, <1>23, <2>5
    <3>2. Untouched(p) /\ status[p] \in {"PENDING", "CANCELING", "REJECTED"}
      BY <1>2, <1>10, <2>5 DEF CommandOnce
    <3> QED BY <1>24, <3>1, <3>2
  <2>6. ASSUME NEW s1 \in Shards, NEW s2 \in Shards, s1 # s2
        PROVE  seen'[s1] \intersect seen'[s2] = {}
    <3>1. seen[s1] \intersect seen[s2] = {}
      BY <1>2, <2>6 DEF CommandOnce
    <3>2. new # {} => \A x \in Shards : o \notin seen[x]
      BY <1>13, <1>15 DEF Untouched
    <3> QED BY <1>16, <1>19, <2>6, <3>1, <3>2
  <2> QED BY <1>1, <2>1, <2>2, <2>3, <2>4, <2>5, <2>6 DEF CommandOnce
<1>26. \A p \in Orders : Rests(p)' <=> (Rests(p) /\ p \notin ended) \/ p \in resting
  <2> SUFFICES ASSUME NEW p \in Orders
               PROVE  Rests(p)' <=> (Rests(p) /\ p \notin ended) \/ p \in resting
    OBVIOUS
  <2>1. ServedAt(SymbolOf[p])' = ServedAt(SymbolOf[p]) /\ ServedAt(SymbolOf[p]) \in Shards
    BY <1>1, SameManagers, InvTypes
  <2>2. CASE ServedAt(SymbolOf[p]) = s
    BY <1>19, <2>1, <2>2 DEF Rests
  <2>3. CASE ServedAt(SymbolOf[p]) # s
    <3>1. SymbolOf[p] # SymbolOf[o]
      BY <1>14, <2>3
    <3>2. p \notin ended /\ p \notin resting
      BY <1>16, <3>1
    <3> QED BY <1>19, <2>1, <2>3, <3>2 DEF Rests
  <2> QED BY <2>2, <2>3
<1>27. BookFollows'
  <2>1. ASSUME NEW x \in Shards, NEW p \in book'[x] PROVE Ready(SymbolOf[p], x)'
    <3>1. Ready(SymbolOf[p], x)
      BY <1>2, <1>14, <1>16, <1>19 DEF BookFollows
    <3> QED BY <1>1, <3>1, SameManagers
  <2>2. ASSUME NEW p \in Orders, Rests(p)' PROVE status[p] \notin {"FILLED", "CANCELED"} /\ ~Ended(events', p)
    <3>1. CASE Rests(p) /\ p \notin ended
      BY <1>2, <1>17, <3>1 DEF BookFollows
    <3>2. CASE p \in resting
      <4>1. p = o /\ p \notin ended /\ cmd.kind = "New"
        BY <1>15, <1>16, <3>2
      <4>2. ~Ended(events, p)
        BY <1>13, <4>1 DEF Untouched, Mentions, Ended, Ends
      <4> QED BY <1>13, <1>17, <4>1, <4>2
    <3> QED BY <1>26, <2>2, <3>1, <3>2
  <2>3. ASSUME NEW p \in Orders, status[p] = "PARTIAL" PROVE Rests(p)' \/ Ended(events', p)
    BY <1>2, <1>17, <1>26, <2>3 DEF BookFollows
  <2>4. ASSUME NEW p \in Orders, PartlyFilled(events', p) PROVE Rests(p)'
    <3>1. CASE PartlyFilled(events, p) /\ p \notin ended
      BY <1>2, <1>26, <3>1 DEF BookFollows
    <3>2. CASE p \in partly
      <4>1. (p \in book[s] \/ p \in resting) /\ p \notin ended /\ p \in touched
        BY <1>16, <3>2
      <4>2. CASE p \in resting
        BY <1>26, <4>2
      <4>3. CASE p \in book[s]
        <5>1. SymbolOf[p] = SymbolOf[o]
          BY <1>16, <4>1
        <5>2. Rests(p)
          BY <1>14, <4>3, <5>1 DEF Rests
        <5> QED BY <1>26, <4>1, <5>2
      <4> QED BY <4>1, <4>2, <4>3
    <3> QED BY <1>17, <2>4, <3>1, <3>2
  <2> QED BY <1>1, <2>1, <2>2, <2>3, <2>4 DEF BookFollows
<1> QED BY <1>20, <1>21, <1>22, <1>25, <1>27

-----------------------------------------------------------------------------
LEMMA InitMigration == Init => MigrationInv
<1> SUFFICES ASSUME Init PROVE MigrationInv
  OBVIOUS
<1>1. IndexInv
  BY InitIndex
<1>2. ManagerType(file) /\ FromWhereItIs(file) /\ \A p \in Pods : router[p] = file
  BY <1>1 DEF Init, IndexInv, GoodManager
<1>3. file.routes = Home /\ file.migs = [x \in {} |-> 0]
  BY DEF Init
<1>4. \A m : m.migs = [x \in {} |-> 0] => \A sym : Phase(m, sym) = "none"
  BY DEF Phase, Migrating
<1>5. \A sym : /\ Phase(file, sym) = "none" /\ ~Moved(sym) /\ ~Stopped(sym)
              /\ \A p \in Pods : Phase(router[p], sym) = "none"
  BY <1>2, <1>3, <1>4 DEF Moved, Stopped
<1>6. \A sym \in Symbols, p \in Pods : CommandRoute(router[p], sym) = Home[sym]
  BY <1>2, <1>3, <1>5, RouteOfSymbol
<1>7. /\ copied = {} /\ outbox = <<>> /\ events = <<>>
      /\ queue = [r \in Routes |-> <<>>]
      /\ book = [s \in Shards |-> {}] /\ seen = [s \in Shards |-> {}]
      /\ status = [o \in Orders |-> "none"]
  BY DEF Init
<1>8. /\ \A o : ~In(outbox, o) /\ ~NewIn(outbox, o) /\ ~Mentions(events, o) /\ ~Ended(events, o)
      /\ \A o : ~PartlyFilled(events, o)
      /\ \A r \in Routes : \A o : ~In(queue[r], o) /\ ~NewIn(queue[r], o)
      /\ NewFirst(outbox) /\ \A r \in Routes : NewFirst(queue[r])
  BY <1>7 DEF In, NewIn, Mentions, Ended, PartlyFilled, NewFirst
<1>9. \A sym \in Symbols : Home[sym].shard \in Shards
  BY ShardMigrationAssumption
<1>10. /\ \A s \in Shards : shard[s] = Down \/ shard[s].up = TRUE
       /\ \A sym \in Symbols : Serves(Home[sym].shard, sym)
  <2>1. \A s \in Shards : \/ shard[s] = Down /\ ~\E sym \in Symbols : Home[sym].shard = s
                          \/ /\ shard[s].up = TRUE
                             /\ shard[s].symbols = {sym \in Symbols : Home[sym].shard = s}
    BY DEF Init
  <2> QED BY <1>9, <2>1 DEF Serves
<1>11. MigrationTypes
  BY <1>2, <1>7, <1>10 DEF MigrationTypes
<1>12. Placement
  <2>1. \A sym \in Symbols : Ready(sym, Home[sym].shard)
    BY DEF Ready
  <2> QED BY <1>3, <1>5, <1>7, <1>10, <2>1 DEF Placement, Serves
<1>13. RouterFollows
  BY <1>3, <1>5, <1>6 DEF RouterFollows
<1>14. CommandsFollow
  BY <1>5, <1>8 DEF CommandsFollow
<1>15. CommandOnce
  BY <1>7, <1>8 DEF CommandOnce, Untouched
<1>16. BookFollows
  <2>1. \A o \in Orders : ~Rests(o)
    <3>1. \A sym \in Symbols : ServedAt(sym) \in Shards
      BY <1>3, <1>5, <1>9 DEF ServedAt
    <3> QED BY <1>7, <3>1, ShardMigrationAssumption DEF Rests
  <2> QED BY <1>7, <1>8, <2>1 DEF BookFollows
<1> QED BY <1>1, <1>11, <1>12, <1>13, <1>14, <1>15, <1>16 DEF MigrationInv

LEMMA NextMigration == UnbreachedInv /\ [Next]_vars => UnbreachedInv'
<1> SUFFICES ASSUME UnbreachedInv, [Next]_vars PROVE UnbreachedInv'
  OBVIOUS
<1>1. IndexInv'
  BY NextIndex DEF UnbreachedInv
<1> DEFINE Rest == MigrationTypes /\ Placement /\ RouterFollows /\ CommandsFollow
                   /\ CommandOnce /\ BookFollows
<1>2. SUFFICES ASSUME breaches' = {} PROVE Rest'
  BY <1>1 DEF UnbreachedInv, MigrationInv
<1>3. breaches = {}
  <2>1. \A sym \in Symbols : Advance(sym) \/ CopyBook(sym) => breaches \subseteq breaches'
    BY Zenon DEF Advance, CopyBook, Note
  <2>2. \A p \in Pods : SendCommand(p) => breaches \subseteq breaches'
    BY Zenon DEF SendCommand, Note
  <2>3. \A p \in Pods, o \in Orders : Place(p, o) => breaches \subseteq breaches'
    BY Zenon DEF Place, Note
  <2>4. \A p \in Pods, o \in Orders : Cancel(p, o) \/ RejectStalePending(p, o) \/ ResendCancelCommand(o)
                                       => UNCHANGED breaches
    BY Zenon DEF Cancel, RejectStalePending, ResendCancelCommand
  <2>5. /\ \A sym \in Symbols, to \in Routes : Begin(sym, to) => UNCHANGED breaches
        /\ \A p \in Pods : StartOrderService(p) => UNCHANGED breaches
        /\ \A s \in Shards : StartShard(s) => UNCHANGED breaches
        /\ SkipCommand => UNCHANGED breaches
        /\ \A s \in Shards, r \in Routes : Consume(s, r) => UNCHANGED breaches
        /\ ApplyEvent => UNCHANGED breaches
        /\ UNCHANGED vars => UNCHANGED breaches
    BY Zenon DEF Begin, StartOrderService, StartShard, SkipCommand, Consume, ApplyEvent, vars
  <2>6. \A o \in Orders : ResendCancelCommand(o) => UNCHANGED breaches
    BY Zenon DEF ResendCancelCommand
  <2>7. breaches \subseteq breaches'
    BY <2>1, <2>2, <2>3, <2>4, <2>5, <2>6 DEF Next
  <2> QED BY <1>2, <2>7
<1>4. MigrationInv
  BY <1>3 DEF UnbreachedInv
<1>5. ASSUME NEW sym \in Symbols, NEW to \in Routes, Begin(sym, to) PROVE Rest'
  BY <1>4, <1>5, BeginKeeps
<1>6. ASSUME NEW sym \in Symbols, Advance(sym) PROVE Rest'
  BY <1>2, <1>4, <1>6, AdvanceKeeps
<1>7. ASSUME NEW sym \in Symbols, CopyBook(sym) PROVE Rest'
  BY <1>2, <1>4, <1>7, CopyBookKeeps
<1>8. ASSUME NEW p \in Pods, StartOrderService(p) PROVE Rest'
  BY <1>4, <1>8, StartOrderServiceKeeps
<1>9. ASSUME NEW s \in Shards, StartShard(s) PROVE Rest'
  BY <1>4, <1>9, StartShardKeeps
<1>10. ASSUME NEW p \in Pods, NEW o \in Orders, Place(p, o) \/ Cancel(p, o) \/ RejectStalePending(p, o)
       PROVE  Rest'
  BY <1>2, <1>4, <1>10, PlaceKeeps
<1>11. ASSUME NEW o \in Orders, ResendCancelCommand(o) PROVE Rest'
  <2>1. PICK p \in Pods : TRUE
    BY ShardMigrationAssumption
  <2> QED BY <1>2, <1>4, <1>11, <2>1, PlaceKeeps
<1>12. ASSUME NEW p \in Pods, SendCommand(p) PROVE Rest'
  BY <1>2, <1>4, <1>12, SendCommandKeeps
<1>13. ASSUME SkipCommand PROVE Rest'
  BY <1>4, <1>13, SkipCommandKeeps
<1>14. ASSUME NEW s \in Shards, NEW r \in Routes, Consume(s, r) PROVE Rest'
  BY <1>4, <1>14, ConsumeKeeps
<1>15. ASSUME ApplyEvent PROVE Rest'
  BY <1>4, <1>15, ApplyEventKeeps
<1>16. ASSUME UNCHANGED vars PROVE Rest'
  <2>1. UNCHANGED <<file, router, shard, copied, work>>
    BY <1>16 DEF vars, work
  <2>2. MigrationTypes' /\ CommandOnce'
    <3>1. (\A p \in Pods : ManagerType(router[p])') /\ \A s \in Shards : shard'[s] = Down \/ shard'[s].up = TRUE
      BY <1>4, <2>1 DEF MigrationInv, MigrationTypes, ManagerType
    <3> QED BY <1>4, <2>1, <3>1, SameWork
  <2>3. Placement' /\ RouterFollows'
    BY <1>4, <2>1, SameManagers
  <2>4. BookFollows'
    BY <1>4, <2>1, SameManagers, SameBooks
  <2>5. CommandsFollow'
    BY <1>4, <2>1, SameManagers DEF MigrationInv, CommandsFollow, work
  <2> QED BY <2>2, <2>3, <2>4, <2>5
<1> HIDE DEF Rest
<1> QED
  BY <1>5, <1>6, <1>7, <1>8, <1>9, <1>10, <1>11, <1>12, <1>13, <1>14, <1>15, <1>16 DEF Next

(* What the invariant says of two shards.                                  *)
LEMMA OneShardFollows == UnbreachedInv => OneShardMatches
<1> SUFFICES ASSUME MigrationInv PROVE RedLine
  BY DEF OneShardMatches, UnbreachedInv
<1> PICK c \in Pods : TRUE
  BY ShardMigrationAssumption
<1>1. ASSUME NEW r \in Routes, NEW sym \in Symbols, NewCommands(queue[r], sym) # {}
      PROVE  r = CommandRoute(router[c], sym)
             /\ (shard[r.shard].up => sym \in shard[r.shard].symbols)
  <2>1. PICK i \in DOMAIN queue[r] : queue[r][i].kind = "New" /\ SymbolOf[queue[r][i].id] = sym
    BY <1>1 DEF NewCommands
  <2>2. queue[r][i] \in Command
    BY DEF MigrationInv, MigrationTypes
  <2>3. PICK o \in Orders : SymbolOf[o] = sym /\ NewIn(queue[r], o)
    BY <2>1, <2>2 DEF Command, NewIn
  <2>4. r = CommandRoute(router[c], sym)
    BY <2>3 DEF MigrationInv, CommandsFollow
  <2>5. ASSUME r = file.routes[sym], shard[r.shard].up PROVE sym \in shard[r.shard].symbols
    BY <2>5 DEF MigrationInv, Placement, Serves
  <2>6. ASSUME Phase(file, sym) = "cutover", r = Target(file, sym), shard[r.shard].up
        PROVE  sym \in shard[r.shard].symbols
    <3>1. shard[r.shard] # Down
      BY <2>6 DEF Down
    <3>2. \/ shard[Target(file, sym).shard] = Down
          \/ Serves(Target(file, sym).shard, sym)
      BY <2>6 DEF MigrationInv, Placement
    <3> QED BY <2>6, <3>1, <3>2 DEF Serves
  <2>7. r = file.routes[sym] \/ (Phase(file, sym) = "cutover" /\ r = Target(file, sym))
    BY <2>4 DEF MigrationInv, RouterFollows
  <2> QED BY <2>4, <2>5, <2>6, <2>7
<1>2. \A s1, s2 \in Shards : s1 # s2 => seen[s1] \intersect seen[s2] = {}
  BY DEF MigrationInv, CommandOnce
<1> QED BY <1>1, <1>2 DEF RedLine

(* What it says of a shard that starts.                                    *)
LEMMA NoMismatchFollows == UnbreachedInv => NoFalseMismatch
<1> SUFFICES ASSUME MigrationInv, events = <<>>, NEW s \in Shards, NEW sym \in RulesFor(s),
                    CommandRoute(file, sym).shard = s
             PROVE  SymbolDiff(s, sym) \subseteq {o \in Orders : status[o] = "REJECTED"}
  BY DEF NoFalseMismatch, UnbreachedInv
<1>1. sym \in Symbols /\ Ready(sym, s)
  BY DEF RulesFor, Ready
<1>2. s = ServedAt(sym)
  <2>1. CommandRoute(file, sym) = IF Phase(file, sym) = "cutover" THEN Target(file, sym)
                                  ELSE file.routes[sym]
    BY <1>1, InvTypes
  <2>2. CASE Phase(file, sym) # "cutover"
    BY <2>1, <2>2 DEF ServedAt, Moved
  <2>3. CASE Phase(file, sym) = "cutover"
    <3>1. Target(file, sym).shard = s
      BY <2>1, <2>3
    <3>2. Home[sym].shard = s => shard[s] # Down
      BY <1>1 DEF MigrationInv, Placement, Down
    <3>3. <<sym, s>> \in copied
      BY <1>1, <2>3, <3>1, <3>2 DEF MigrationInv, Placement, Ready
    <3> QED BY <2>3, <3>1, <3>3 DEF ServedAt, Moved
  <2> QED BY <2>2, <2>3
<1>3. \A o \in OrdersOf(sym) : Rests(o) <=> o \in book[s]
  BY <1>2 DEF Rests, OrdersOf
<1>4. \A o : ~Ended(events, o)
  BY DEF Ended
<1>5. ASSUME NEW o \in ListReconcileOrders(sym) \ ActiveOrderIDs(s, sym), IsDBOnlyMismatch(s, o)
      PROVE  FALSE
  <2>1. o \in OrdersOf(sym) /\ o \notin book[s]
    BY <1>5 DEF ListReconcileOrders, ActiveOrderIDs
  <2>2. status[o] = "PARTIAL" /\ o \in Orders
    BY <1>5, <2>1 DEF IsDBOnlyMismatch, InOrderbook, OrdersOf
  <2>3. Rests(o)
    BY <1>4, <2>2 DEF MigrationInv, BookFollows
  <2> QED BY <1>3, <2>1, <2>3
<1>6. ASSUME NEW o \in ActiveOrderIDs(s, sym) \ ListReconcileOrders(sym), IsBookOnlyMismatch(o)
      PROVE  o \in Orders /\ status[o] = "REJECTED"
  <2>1. o \in OrdersOf(sym) /\ o \in book[s] /\ o \in Orders
    BY <1>6 DEF ActiveOrderIDs, OrdersOf
  <2>2. status[o] \notin {"FILLED", "CANCELED"}
    BY <1>3, <2>1 DEF MigrationInv, BookFollows
  <2>3. status[o] # "none"
    BY <2>1 DEF MigrationInv, CommandOnce, Untouched
  <2>4. status[o] \notin {"PENDING", "PARTIAL"}
    BY <1>6, <2>1 DEF ListReconcileOrders
  <2>5. GetOrderStatuses({o}) = [x \in {o} |-> status[x]]
    BY <2>3 DEF GetOrderStatuses
  <2>6. status[o] \in Terminal \union {"PENDING", "PARTIAL"}
    BY <1>6, <2>5 DEF IsBookOnlyMismatch
  <2> QED BY <2>1, <2>2, <2>4, <2>6 DEF Terminal
<1> QED BY <1>5, <1>6 DEF SymbolDiff

(* OneShardMatches always holds: without a breach, whatever the number of  *)
(* pods, however late each process reads the file and however many         *)
(* migrations follow each other, the new orders of a symbol wait for one   *)
(* shard, no order is seen by two, and a running shard is sent only orders *)
(* of symbols it serves.                                                   *)
THEOREM MatchedByOneShard == Spec => []OneShardMatches
<1>1. Init => UnbreachedInv
  BY InitIndex, InitMigration DEF UnbreachedInv
<1> QED BY <1>1, NextMigration, OneShardFollows, PTL DEF Spec

(* NoFalseMismatch always holds: without a breach and with no event under  *)
(* way, the check of a starting shard (verifySymbol) finds book and        *)
(* database in agreement on every order the reconciler did not reject,     *)
(* also on the shard the book was copied to.                               *)
THEOREM CheckFindsNothing == Spec => []NoFalseMismatch
<1>1. Init => UnbreachedInv
  BY InitIndex, InitMigration DEF UnbreachedInv
<1> QED BY <1>1, NextMigration, NoMismatchFollows, PTL DEF Spec

-----------------------------------------------------------------------------
(***************************************************************************)
(* Candles.                                                                *)
(***************************************************************************)
FullBar == [iv : Ivs, start : 0..MaxTime, ids : Seq(1..MaxTrades)]

OpenBar(iv, b) ==
    b \in FullBar /\ b.iv = iv /\ \E t \in 0..MaxTime : b.start = BucketStart(iv, t)

SavedBar(iv, k) ==
    k = [json |-> ToJSON(k.json.bar, FALSE), expires |-> k.expires] /\ OpenBar(iv, k.json.bar)

StoppedConsumer == [pc |-> "stopped"]

IsHanding(c) ==
    /\ c = [pc |-> "close", closed |-> c.closed, k |-> c.k, sent |-> c.sent]
    /\ c.closed \in Seq(FullBar) /\ c.k \in Nat \ {0} /\ c.sent \in BOOLEAN

IsWorking(w) ==
    /\ w = [pc |-> w.pc, bar |-> w.bar, tries |-> w.tries]
    /\ w.pc \in {"insert", "publish", "kafka"} /\ w.bar \in FullBar /\ w.tries \in Nat

IsWaiting(j) == j = ToJSON(j.bar, TRUE) /\ j.bar \in FullBar

ClockType ==
    /\ now \in 0..MaxTime
    /\ trades \in Seq(0..MaxTime) /\ Len(trades) <= MaxTrades
    /\ committed \in 0..Len(trades)

ConsumerType ==
    \/ consumer = Idle
    \/ consumer = StoppedConsumer /\ committed < Len(trades)
    \/ IsHanding(consumer) /\ committed < Len(trades) /\ \A iv \in Ivs : agg[iv] # NoBar

AggType == /\ agg \in [Ivs -> FullBar \union {NoBar}]
           /\ \A iv \in Ivs : agg[iv] # NoBar => OpenBar(iv, agg[iv])

OpenType == /\ openKey = [iv \in Ivs |-> openKey[iv]]
            /\ \A iv \in Ivs : openKey[iv] # NoBar => SavedBar(iv, openKey[iv])

QueueType ==
    /\ pending \in Seq([bar : FullBar, isClosed : {TRUE}])
    /\ ch \in Seq(FullBar) /\ Len(ch) <= QueueSize

WorkerType == worker = NoWork \/ IsWorking(worker)

StoreType == klines \subseteq FullBar /\ raw \subseteq FullBar /\ lost \subseteq FullBar

PhaseType ==
    /\ phase \in {"down", "drain", "run"} /\ crashes \in Nat /\ (crashes = 0 => phase = "run")
    /\ phase # "run" => consumer = Idle

CandlesType ==
    /\ ClockType /\ ConsumerType /\ AggType /\ OpenType /\ QueueType /\ WorkerType
    /\ StoreType /\ PhaseType

LEMMA BucketOrder ==
    ASSUME NEW iv \in Ivs, NEW t \in Nat
    PROVE  /\ BucketStart(iv, t) \in 0..t
           /\ \A u \in Nat : BucketStart(iv, t) <= u => BucketStart(iv, t) <= BucketStart(iv, u)
<1>1. PICK d \in Nat \ {0} : d = Duration[iv]
  BY CandlesAssumption DEF Ivs
<1>2. ASSUME NEW x \in Nat
      PROVE  \E q \in Nat, r \in 0..(d - 1) : x = d * q + r /\ BucketStart(iv, x) = d * q
  <2>1. x \div d \in Nat /\ x % d \in 0..(d - 1) /\ x = d * (x \div d) + (x % d)
    OBVIOUS
  <2>2. BucketStart(iv, x) = x - (x % d)
    BY <1>1 DEF BucketStart
  <2>3. PICK q \in Nat : q = x \div d
    BY <2>1
  <2>4. PICK r \in 0..(d - 1) : r = x % d
    BY <2>1
  <2>5. x = d * q + r
    BY <2>1, <2>3, <2>4
  <2>6. PICK y \in Int : y = d * q
    OBVIOUS
  <2>7. BucketStart(iv, x) = y
    BY <2>2, <2>4, <2>5, <2>6
  <2>8. QED
    BY <2>5, <2>6, <2>7
<1>3. PICK q \in Nat, r \in 0..(d - 1) : t = d * q + r /\ BucketStart(iv, t) = d * q
  BY <1>2
<1>4. d * q \in Nat
  OBVIOUS
<1>5. BucketStart(iv, t) \in 0..t
  BY <1>3, <1>4
<1>6. ASSUME NEW u \in Nat, BucketStart(iv, t) <= u PROVE BucketStart(iv, t) <= BucketStart(iv, u)
  <2>1. PICK p \in Nat, s \in 0..(d - 1) : u = d * p + s /\ BucketStart(iv, u) = d * p
    BY <1>2
  <2>2. d * q <= d * p + s
    BY <1>3, <1>6, <2>1
  <2>3. q <= p
    <3>1. SUFFICES ASSUME p + 1 <= q PROVE FALSE
      OBVIOUS
    <3>2. d * (p + 1) <= d * q
      BY <3>1
    <3>3. d * (p + 1) = d * p + d
      OBVIOUS
    <3>4. d * p \in Int /\ d * q \in Int
      OBVIOUS
    <3>5. QED
      BY <2>2, <3>2, <3>3, <3>4
  <2>4. d * q <= d * p
    BY <2>3
  <2>5. QED
    BY <2>1, <2>4, <1>3
<1>7. QED
  BY <1>5, <1>6

LEMMA BarShapes ==
    /\ NoBar \notin FullBar
    /\ \A b : b \in FullBar => b.iv \in Ivs /\ b.start \in 0..MaxTime /\ b.ids \in Seq(1..MaxTrades)
<1>1. \A b : b \in FullBar => b.iv \in Ivs /\ b.start \in 0..MaxTime /\ b.ids \in Seq(1..MaxTrades)
  BY DEF FullBar
<1>2. NoBar.start = -1
  BY DEF NoBar
<1>3. QED
  BY <1>1, <1>2, CandlesAssumption

(* What a trade makes of the bar of an interval.                           *)
LEMMA AppliedBar ==
    ASSUME ClockType, NEW iv \in Ivs, NEW cur, cur = NoBar \/ OpenBar(iv, cur), NEW i \in 1..Len(trades)
    PROVE  /\ OpenBar(iv, ApplyOneInterval(iv, cur, i)) /\ ApplyOneInterval(iv, cur, i) # NoBar
           /\ \/ /\ cur = NoBar
                 /\ ApplyOneInterval(iv, cur, i) = NewFromTrade(iv, BucketStart(iv, trades[i]), i)
              \/ /\ cur # NoBar /\ BucketStart(iv, trades[i]) < cur.start
                 /\ ApplyOneInterval(iv, cur, i) = cur
              \/ /\ cur # NoBar /\ BucketStart(iv, trades[i]) = cur.start
                 /\ ApplyOneInterval(iv, cur, i) = ApplyToBar(cur, i)
              \/ /\ cur # NoBar /\ BucketStart(iv, trades[i]) > cur.start
                 /\ ApplyOneInterval(iv, cur, i) = NewFromTrade(iv, BucketStart(iv, trades[i]), i)
           /\ (trades[i] >= cur.start /\ cur # NoBar /\ BucketStart(iv, trades[i]) # cur.start)
                <=> (cur # NoBar /\ BucketStart(iv, trades[i]) > cur.start)
<1>1. PICK t \in 0..MaxTime : t = trades[i]
  <2>1. trades \in Seq(0..MaxTime) /\ i \in 1..Len(trades)
    BY DEF ClockType
  <2>2. trades[i] \in 0..MaxTime
    BY <2>1, ElementOfSeq
  <2>3. QED
    BY <2>2
<1>2. PICK s \in Nat : s = BucketStart(iv, t) /\ s <= t
  BY <1>1, BucketOrder, CandlesAssumption
<1>3. i \in 1..MaxTrades /\ MaxTime \in Nat
  BY CandlesAssumption DEF ClockType
<1>4. OpenBar(iv, NewFromTrade(iv, s, i))
  <2>1. s \in 0..MaxTime
    BY <1>2, <1>1, <1>3
  <2>2. <<i>> \in Seq(1..MaxTrades)
    BY <1>3
  <2>3. NewFromTrade(iv, s, i) \in FullBar
    BY <2>1, <2>2 DEF FullBar, NewFromTrade
  <2>4. NewFromTrade(iv, s, i).iv = iv /\ NewFromTrade(iv, s, i).start = s
    BY DEF NewFromTrade
  <2>5. QED
    BY <2>3, <2>4, <1>2 DEF OpenBar
<1> DEFINE new == ApplyOneInterval(iv, cur, i)
<1>5. ParseKafkaMessage(i).time = t
  BY <1>1 DEF ParseKafkaMessage
<1>6. new = CASE cur = NoBar -> NewFromTrade(iv, s, i)
              [] cur # NoBar /\ t < cur.start -> cur
              [] cur # NoBar /\ t >= cur.start /\ s = cur.start -> ApplyToBar(cur, i)
              [] OTHER -> NewFromTrade(iv, s, i)
  BY <1>5, <1>2 DEF ApplyOneInterval
<1> HIDE DEF new
<1>7. ASSUME NEW b, OpenBar(iv, b) PROVE b # NoBar
  BY <1>7, BarShapes DEF OpenBar
<1>8. CASE cur = NoBar
  BY <1>8, <1>6, <1>4, <1>7, <1>1, <1>2 DEF new
<1>9. CASE cur # NoBar
  <2>1. OpenBar(iv, cur) /\ cur \in FullBar
    BY <1>9 DEF OpenBar
  <2>2. PICK c \in 0..MaxTime : c = cur.start
    BY <2>1, BarShapes
  <2>3. c <= t => c <= s
    <3>1. PICK t0 \in 0..MaxTime : c = BucketStart(iv, t0)
      BY <2>1, <2>2 DEF OpenBar
    <3>2. QED
      BY <3>1, <1>1, <1>2, BucketOrder
  <2>4. CASE t < c
    <3>1. new = cur
      BY <1>9, <1>6, <2>2, <2>4
    <3>2. s < c
      BY <1>2, <2>4, <1>1
    <3>3. QED
      BY <3>1, <3>2, <1>1, <1>2, <1>9, <2>1, <2>2, <2>4 DEF new
  <2>5. CASE t >= c /\ s = c
    <3>1. new = ApplyToBar(cur, i)
      BY <1>9, <1>6, <2>2, <2>5
    <3>2. OpenBar(iv, ApplyToBar(cur, i))
      <4>1. Append(cur.ids, i) \in Seq(1..MaxTrades)
        BY <2>1, <1>3, BarShapes
      <4>2. ApplyToBar(cur, i) = [iv |-> cur.iv, start |-> cur.start, ids |-> Append(cur.ids, i)]
        <5>1. PICK st, q : cur = [iv |-> iv, start |-> st, ids |-> q]
          BY <2>1 DEF FullBar, OpenBar
        <5>2. QED
          BY <5>1 DEF ApplyToBar
      <4>3. ApplyToBar(cur, i) \in FullBar
        BY <4>1, <4>2, <2>1, BarShapes DEF FullBar
      <4>4. QED
        BY <4>2, <4>3, <2>1 DEF OpenBar
    <3>3. QED
      BY <3>1, <3>2, <1>1, <1>2, <1>7, <1>9, <2>2, <2>5 DEF new
  <2>6. CASE t >= c /\ s # c
    <3>1. new = NewFromTrade(iv, s, i)
      BY <1>9, <1>6, <2>2, <2>6
    <3>2. s > c
      BY <2>3, <2>6, <1>2
    <3>3. QED
      BY <3>1, <3>2, <1>1, <1>2, <1>4, <1>7, <1>9, <2>2, <2>6 DEF new
  <2>7. QED
    BY <2>4, <2>5, <2>6, <1>1, <2>2
<1>10. QED
  BY <1>8, <1>9

(* The bars a trade closes are open ones of an earlier bucket.             *)
LEMMA ClosedByProperties ==
    ASSUME ClockType, AggType, NEW i \in 1..Len(trades)
    PROVE  /\ ClosedBy(i) \in Seq(FullBar)
           /\ \A k \in DOMAIN ClosedBy(i) : \E iv \in Ivs :
                /\ agg[iv] # NoBar /\ ClosedBy(i)[k] = agg[iv]
                /\ BucketStart(iv, trades[i]) > agg[iv].start
<1> DEFINE closes(iv) == agg[iv] # NoBar /\ trades[i] >= agg[iv].start
                           /\ BucketStart(iv, trades[i]) # agg[iv].start
           C == {k \in DOMAIN Intervals : closes(Intervals[k])}
<1>1. Intervals \in Seq(Ivs) /\ C \in SUBSET DOMAIN Intervals
  BY CandlesAssumption DEF Ivs
<1>2. PICK ivs, p : ivs = AtPositions(Intervals, C) /\ ivs \in Seq(Ivs) /\ IsSelection(ivs, p, Intervals, C)
  <2> HIDE DEF C
  <2>1. QED
    BY <1>1, AtPositionsProperties
<1>3. ClosedBy(i) = [k \in DOMAIN ivs |-> agg[ivs[k]]]
  BY <1>2 DEF ClosedBy, ParseKafkaMessage
<1>4. ASSUME NEW k \in DOMAIN ivs
      PROVE  /\ ivs[k] \in Ivs /\ agg[ivs[k]] # NoBar /\ agg[ivs[k]] \in FullBar
             /\ BucketStart(ivs[k], trades[i]) > agg[ivs[k]].start
  <2>1. ivs[k] = Intervals[p[k]] /\ p[k] \in C
    BY <1>2 DEF IsSelection
  <2>2. closes(ivs[k]) /\ ivs[k] \in Ivs
    BY <2>1, <1>1, <1>2
  <2>3. PICK iv \in Ivs : iv = ivs[k]
    BY <2>2
  <2>4. agg[iv] # NoBar /\ trades[i] >= agg[iv].start /\ BucketStart(iv, trades[i]) # agg[iv].start
    BY <2>2, <2>3
  <2>5. OpenBar(iv, agg[iv])
    BY <2>4 DEF AggType
  <2>6. BucketStart(iv, trades[i]) > agg[iv].start
    BY <2>4, <2>5, AppliedBar
  <2>7. QED
    BY <2>3, <2>4, <2>5, <2>6 DEF OpenBar
<1>5. ClosedBy(i) \in Seq(FullBar)
  BY <1>2, <1>3, <1>4
<1>6. DOMAIN ClosedBy(i) = DOMAIN ivs
  BY <1>3
<1>7. QED
  BY <1>3, <1>4, <1>5, <1>6

-----------------------------------------------------------------------------
(* Types.                                                                  *)

LEMMA ClockTypeStep == CandlesType /\ [CandlesNext]_candlesVars => ClockType'
<1> SUFFICES ASSUME CandlesType, [CandlesNext]_candlesVars PROVE ClockType'
  OBVIOUS
<1>0. ClockType /\ ConsumerType
  BY DEF CandlesType
<1>1. CASE Tick
  BY <1>1, <1>0, CandlesAssumption DEF Tick, ClockType
<1>2. CASE Trade
  <2>1. PICK t \in {x \in (now - Skew)..now : x >= 0} : trades' = Append(trades, t)
    BY <1>2 DEF Trade
  <2>2. t \in 0..MaxTime /\ MaxTrades \in Nat
    BY <2>1, <1>0, CandlesAssumption DEF ClockType
  <2>3. Len(trades) < MaxTrades /\ now' = now /\ committed' = committed
    BY <1>2 DEF Trade
  <2>4. trades' \in Seq(0..MaxTime) /\ Len(trades') = Len(trades) + 1
    BY <2>1, <2>2, <1>0, AppendProperties DEF ClockType
  <2>5. QED
    BY <2>2, <2>3, <2>4, <1>0 DEF ClockType
<1>3. CASE PublishOpenBars
  <2>1. committed < Len(trades)
    BY <1>3, <1>0 DEF PublishOpenBars, Saving, ConsumerType, Idle
  <2>2. now' = now /\ trades' = trades /\ committed' \in {committed, committed + 1}
    BY <1>3 DEF PublishOpenBars
  <2>3. QED
    BY <2>1, <2>2, <1>0 DEF ClockType
<1>4. CASE UNCHANGED <<now, trades, committed>>
  BY <1>4, <1>0 DEF ClockType
<1>5. \/ Tick \/ Trade \/ PublishOpenBars \/ UNCHANGED <<now, trades, committed>>
  BY DEF CandlesNext, candlesVars, ApplyTrade, EnqueueClosed, SendToQueue, TakeFromQueue,
         PopPendingClosed, InsertClosed, PublishClosed, PublishRaw, Stop, Restore, DrainPending
<1>6. QED
  BY <1>1, <1>2, <1>3, <1>4, <1>5

LEMMA AggTypeStep == CandlesType /\ [CandlesNext]_candlesVars => AggType'
<1> SUFFICES ASSUME CandlesType, [CandlesNext]_candlesVars PROVE AggType'
  OBVIOUS
<1>0. ClockType /\ AggType /\ OpenType
  BY DEF CandlesType
<1>1. CASE ApplyTrade
  <2>1. PICK i \in 1..Len(trades) : i = committed + 1
    BY <1>1, <1>0 DEF ApplyTrade, ClockType
  <2>2. agg' = [iv \in Ivs |-> ApplyOneInterval(iv, agg[iv], i)]
    BY <1>1, <2>1 DEF ApplyTrade
  <2>3. ASSUME NEW iv \in Ivs PROVE OpenBar(iv, ApplyOneInterval(iv, agg[iv], i))
    <3>1. agg[iv] = NoBar \/ OpenBar(iv, agg[iv])
      BY <1>0 DEF AggType
    <3>2. QED
      BY <3>1, <1>0, AppliedBar
  <2>4. QED
    BY <2>2, <2>3 DEF AggType, OpenBar
<1>2. CASE Stop
  BY <1>2 DEF Stop, AggType
<1>3. CASE Restore
  <2>1. agg' = [iv \in Ivs |-> ScanOpenBars(iv)]
    BY <1>3 DEF Restore
  <2>2. ASSUME NEW iv \in Ivs PROVE ScanOpenBars(iv) = NoBar \/ OpenBar(iv, ScanOpenBars(iv))
    BY <1>0 DEF ScanOpenBars, FromJSON, OpenType, SavedBar, ToJSON
  <2>3. QED
    BY <2>1, <2>2 DEF AggType, OpenBar
<1>4. CASE UNCHANGED agg
  BY <1>4, <1>0 DEF AggType
<1>5. \/ ApplyTrade \/ Stop \/ Restore \/ UNCHANGED agg
  BY DEF CandlesNext, candlesVars, Tick, Trade, PublishOpenBars, EnqueueClosed, SendToQueue,
         TakeFromQueue, PopPendingClosed, InsertClosed, PublishClosed, PublishRaw, DrainPending
<1>6. QED
  BY <1>1, <1>2, <1>3, <1>4, <1>5

LEMMA OpenTypeStep == CandlesType /\ [CandlesNext]_candlesVars => OpenType'
<1> SUFFICES ASSUME CandlesType, [CandlesNext]_candlesVars PROVE OpenType'
  OBVIOUS
<1>0. ConsumerType /\ AggType /\ OpenType
  BY DEF CandlesType
<1>1. CASE PublishOpenBars
  <2>1. \A iv \in Ivs : agg[iv] # NoBar
    BY <1>1, <1>0 DEF PublishOpenBars, Saving, ConsumerType, Idle, StoppedConsumer
  <2>2. ASSUME NEW iv \in Ivs PROVE SavedBar(iv, SaveOpenBar(iv))
    <3>1. OpenBar(iv, agg[iv])
      BY <2>1, <1>0 DEF AggType
    <3>2. QED
      BY <3>1 DEF SavedBar, SaveOpenBar, ToJSON
  <2>3. /\ openKey' = [iv \in Ivs |-> openKey'[iv]]
        /\ \A iv \in Ivs : openKey'[iv] = SaveOpenBar(iv) \/ openKey'[iv] = openKey[iv]
    <3>1. CASE openKey' = [iv \in Ivs |-> SaveOpenBar(iv)]
      BY <3>1
    <3>2. CASE \E saved : openKey' = [iv \in Ivs |-> IF iv \in saved THEN SaveOpenBar(iv) ELSE openKey[iv]]
      BY <3>2
    <3>3. QED
      BY <1>1, <3>1, <3>2, Zenon DEF PublishOpenBars
  <2>4. QED
    BY <2>2, <2>3, <1>0 DEF OpenType
<1>2. CASE PublishClosed
  <2>1. openKey' = openKey \/ openKey' = [openKey EXCEPT ![worker.bar.iv] = NoBar]
    BY <1>2, Zenon DEF PublishClosed
  <2>2. /\ openKey' = [iv \in Ivs |-> openKey'[iv]]
        /\ \A iv \in Ivs : openKey'[iv] = NoBar \/ openKey'[iv] = openKey[iv]
    BY <2>1, <1>0 DEF OpenType
  <2>3. QED
    BY <2>2, <1>0 DEF OpenType
<1>3. CASE UNCHANGED openKey
  BY <1>3, <1>0 DEF OpenType
<1>4. PublishOpenBars \/ PublishClosed \/ UNCHANGED openKey
  BY DEF CandlesNext, candlesVars, Tick, Trade, ApplyTrade, EnqueueClosed, SendToQueue,
         TakeFromQueue, PopPendingClosed, InsertClosed, PublishRaw, Stop, Restore, DrainPending
<1>5. QED
  BY <1>1, <1>2, <1>3, <1>4

LEMMA ConsumerTypeStep == CandlesType /\ [CandlesNext]_candlesVars => ConsumerType'
<1> SUFFICES ASSUME CandlesType, [CandlesNext]_candlesVars PROVE ConsumerType'
  OBVIOUS
<1>0. ClockType /\ ConsumerType /\ AggType
  BY DEF CandlesType
<1>1. CASE ApplyTrade
  <2>1. PICK i \in 1..Len(trades) : i = committed + 1 /\ committed < Len(trades)
    BY <1>1, <1>0 DEF ApplyTrade, ClockType
  <2>2. /\ agg' = [iv \in Ivs |-> ApplyOneInterval(iv, agg[iv], i)]
        /\ consumer' = [pc |-> "close", closed |-> ClosedBy(i), k |-> 1, sent |-> FALSE]
        /\ committed' = committed /\ trades' = trades
    BY <1>1, <2>1 DEF ApplyTrade
  <2>3. \A iv \in Ivs : agg'[iv] # NoBar
    BY <2>2, <1>0, AppliedBar DEF AggType
  <2>4. ClosedBy(i) \in Seq(FullBar)
    BY <1>0, ClosedByProperties
  <2>5. IsHanding(consumer')
    BY <2>2, <2>4 DEF IsHanding
  <2>6. QED
    BY <2>1, <2>2, <2>3, <2>5 DEF ConsumerType
<1>2. CASE EnqueueClosed \/ SendToQueue
  <2>1. IsHanding(consumer)
    <3>1. consumer.pc = "close"
      BY <1>2 DEF EnqueueClosed, SendToQueue, Closing
    <3>2. consumer # Idle /\ consumer # StoppedConsumer
      BY <3>1 DEF Idle, StoppedConsumer
    <3>3. QED
      BY <3>2, <1>0 DEF ConsumerType
  <2>2. PICK c \in Seq(FullBar), k \in Nat \ {0}, s \in BOOLEAN :
          consumer = [pc |-> "close", closed |-> c, k |-> k, sent |-> s]
    BY <2>1 DEF IsHanding
  <2>3. \/ consumer' = [consumer EXCEPT !.sent = TRUE]
        \/ consumer' = [consumer EXCEPT !.k = @ + 1]
        \/ consumer' = [consumer EXCEPT !.k = @ + 1, !.sent = FALSE]
    BY <1>2 DEF EnqueueClosed, SendToQueue
  <2>4. \/ consumer' = [pc |-> "close", closed |-> c, k |-> k, sent |-> TRUE]
        \/ consumer' = [pc |-> "close", closed |-> c, k |-> k + 1, sent |-> s]
        \/ consumer' = [pc |-> "close", closed |-> c, k |-> k + 1, sent |-> FALSE]
    BY <2>2, <2>3
  <2>5. IsHanding(consumer')
    <3>1. ASSUME NEW l \in Nat \ {0}, NEW f \in BOOLEAN,
                 consumer' = [pc |-> "close", closed |-> c, k |-> l, sent |-> f]
          PROVE  IsHanding(consumer')
      BY <3>1 DEF IsHanding
    <3>2. k + 1 \in Nat \ {0} /\ TRUE \in BOOLEAN /\ FALSE \in BOOLEAN
      OBVIOUS
    <3>3. QED
      BY <3>1, <3>2, <2>4, Zenon
  <2>6. committed < Len(trades) /\ \A iv \in Ivs : agg[iv] # NoBar
    BY <1>0, <2>2 DEF ConsumerType, Idle, StoppedConsumer
  <2>7. UNCHANGED <<committed, trades, agg>>
    BY <1>2 DEF EnqueueClosed, SendToQueue
  <2>8. QED
    BY <2>5, <2>6, <2>7 DEF ConsumerType
<1>3. CASE PublishOpenBars
  <2>1. committed < Len(trades)
    BY <1>3, <1>0 DEF PublishOpenBars, Saving, ConsumerType, Idle
  <2>2. QED
    BY <2>1, <1>3 DEF PublishOpenBars, ConsumerType, StoppedConsumer
<1>4. CASE Stop
  BY <1>4 DEF Stop, ConsumerType
<1>5. CASE Trade
  <2>1. PICK t : trades' = Append(trades, t)
    BY <1>5 DEF Trade
  <2>2. Len(trades') = Len(trades) + 1
    BY <2>1, <1>0 DEF ClockType
  <2>3. UNCHANGED <<committed, agg, consumer>>
    BY <1>5 DEF Trade
  <2>4. QED
    BY <2>2, <2>3, <1>0 DEF ConsumerType, ClockType
<1>6. CASE Restore
  <2>1. consumer = Idle
    BY <1>6 DEF Restore, CandlesType, PhaseType
  <2>2. QED
    BY <2>1, <1>6 DEF Restore, ConsumerType
<1>7. CASE UNCHANGED <<committed, trades, agg, consumer>>
  BY <1>7, <1>0 DEF ConsumerType
<1>8. \/ ApplyTrade \/ EnqueueClosed \/ SendToQueue \/ PublishOpenBars \/ Stop \/ Trade \/ Restore
      \/ UNCHANGED <<committed, trades, agg, consumer>>
  BY DEF CandlesNext, candlesVars, Tick, TakeFromQueue, PopPendingClosed, InsertClosed,
         PublishClosed, PublishRaw, DrainPending
<1>9. QED
  BY <1>1, <1>2, <1>3, <1>4, <1>5, <1>6, <1>7, <1>8

LEMMA QueueTypeStep == CandlesType /\ [CandlesNext]_candlesVars => QueueType'
<1> SUFFICES ASSUME CandlesType, [CandlesNext]_candlesVars PROVE QueueType'
  OBVIOUS
<1>0. ConsumerType /\ QueueType
  BY DEF CandlesType
<1> DEFINE W == [bar : FullBar, isClosed : {TRUE}]
<1>1. CASE EnqueueClosed \/ SendToQueue
  <2>1. IsHanding(consumer) /\ consumer.k <= Len(consumer.closed)
    <3>1. consumer.pc = "close" /\ consumer.k <= Len(consumer.closed)
      BY <1>1 DEF EnqueueClosed, SendToQueue, Closing
    <3>2. consumer # Idle /\ consumer # StoppedConsumer
      BY <3>1 DEF Idle, StoppedConsumer
    <3>3. QED
      BY <3>1, <3>2, <1>0 DEF ConsumerType
  <2>2. PICK c \in Seq(FullBar), k \in Nat \ {0} : c = consumer.closed /\ k = consumer.k /\ k <= Len(c)
    BY <2>1 DEF IsHanding
  <2>3. ClosedBar \in FullBar
    BY <2>2, ElementOfSeq DEF ClosedBar
  <2>4. ToJSON(ClosedBar, TRUE) \in W
    BY <2>3 DEF ToJSON
  <2>5. /\ pending' = pending \/ pending' = Append(pending, ToJSON(ClosedBar, TRUE))
        /\ ch' = ch \/ (Len(ch) < QueueSize /\ ch' = Append(ch, ClosedBar))
    BY <1>1 DEF EnqueueClosed, SendToQueue
  <2>6. pending' \in Seq(W)
    <3> HIDE DEF W
    <3>1. pending \in Seq(W)
      BY <1>0 DEF QueueType, W
    <3>2. PICK x \in W : x = ToJSON(ClosedBar, TRUE)
      BY <2>4
    <3>3. Append(pending, x) \in Seq(W)
      BY <3>1
    <3>4. QED
      BY <3>1, <3>2, <3>3, <2>5
  <2>7. ch' \in Seq(FullBar) /\ Len(ch') <= QueueSize
    <3>1. PICK x \in FullBar : x = ClosedBar
      BY <2>3
    <3>2. ch \in Seq(FullBar) /\ Len(ch) <= QueueSize /\ QueueSize \in Nat
      BY <1>0, CandlesAssumption DEF QueueType
    <3>3. Append(ch, x) \in Seq(FullBar) /\ Len(Append(ch, x)) = Len(ch) + 1 /\ Len(ch) \in Nat
      BY <3>2
    <3>4. CASE ch' = ch
      BY <3>2, <3>4
    <3>5. CASE Len(ch) < QueueSize /\ ch' = Append(ch, ClosedBar)
      BY <3>1, <3>2, <3>3, <3>5
    <3>6. QED
      BY <3>4, <3>5, <2>5
  <2>8. QED
    BY <2>6, <2>7 DEF QueueType
<1>2. CASE TakeFromQueue \/ PopPendingClosed
  <2>1. \/ pending' = pending
        \/ pending # <<>> /\ pending' = Tail(pending)
    BY <1>2 DEF TakeFromQueue, PopPendingClosed
  <2>2. ch' = ch \/ (ch # <<>> /\ ch' = Tail(ch))
    BY <1>2 DEF TakeFromQueue, PopPendingClosed
  <2>3. pending' \in Seq(W)
    <3> HIDE DEF W
    <3>1. pending \in Seq(W)
      BY <1>0 DEF QueueType, W
    <3>2. QED
      BY <3>1, <2>1, HeadTailProperties
  <2>4. ch' \in Seq(FullBar) /\ Len(ch') <= Len(ch)
    BY <2>2, <1>0, HeadTailProperties DEF QueueType
  <2>5. QED
    BY <2>3, <2>4, <1>0, CandlesAssumption DEF QueueType
<1>3. CASE Stop
  BY <1>3, <1>0, CandlesAssumption DEF Stop, QueueType
<1>4. CASE UNCHANGED <<pending, ch>>
  BY <1>4, <1>0 DEF QueueType
<1>5. \/ EnqueueClosed \/ SendToQueue \/ TakeFromQueue \/ PopPendingClosed \/ Stop
      \/ UNCHANGED <<pending, ch>>
  BY DEF CandlesNext, candlesVars, Tick, Trade, ApplyTrade, PublishOpenBars, InsertClosed,
         PublishClosed, PublishRaw, Restore, DrainPending
<1>6. QED
  BY <1>1, <1>2, <1>3, <1>4, <1>5

LEMMA RetryProperties ==
    ASSUME IsWorking(worker), Retry
    PROVE  /\ worker' = NoWork \/ (IsWorking(worker') /\ worker'.bar = worker.bar)
           /\ lost' = lost \/ lost' = lost \union {worker.bar}
<1>1. PICK b \in FullBar, n \in Nat : b = worker.bar /\ n = worker.tries
  BY DEF IsWorking
<1>2. CASE worker' = [Hold(worker.bar) EXCEPT !.tries = worker.tries + 1] /\ UNCHANGED lost
  <2>1. worker' = [pc |-> "insert", bar |-> b, tries |-> n + 1]
    BY <1>1, <1>2 DEF Hold
  <2>2. QED
    BY <2>1, <1>1, <1>2 DEF IsWorking
<1>3. CASE worker' = NoWork /\ lost' = lost \union {worker.bar}
  BY <1>3
<1>4. QED
  BY <1>2, <1>3 DEF Retry

(* What the worker makes of the bar it holds.                              *)
LEMMA WorkerSteps ==
    ASSUME WorkerType, InsertClosed \/ PublishClosed \/ PublishRaw
    PROVE  /\ IsWorking(worker) /\ (worker' = NoWork \/ (IsWorking(worker') /\ worker'.bar = worker.bar))
           /\ klines' = klines \/ klines' = Insert(klines, worker.bar)
           /\ raw' = raw \/ raw' = raw \union {worker.bar}
           /\ lost' = lost \/ lost' = lost \union {worker.bar}
           /\ UNCHANGED <<now, trades, committed, consumer, agg, pending, ch, phase, crashes>>
<1>1. worker.pc \in {"insert", "publish", "kafka"}
  BY DEF InsertClosed, PublishClosed, PublishRaw
<1>2. IsWorking(worker)
  BY <1>1 DEF WorkerType, NoWork
<1>3. ASSUME NEW p \in {"publish", "kafka"}, worker' = [worker EXCEPT !.pc = p]
      PROVE  IsWorking(worker') /\ worker'.bar = worker.bar
  <2>1. PICK q \in {"insert", "publish", "kafka"}, b \in FullBar, n \in Nat : worker = [pc |-> q, bar |-> b, tries |-> n]
    BY <1>2 DEF IsWorking
  <2>2. worker' = [pc |-> p, bar |-> b, tries |-> n]
    BY <2>1, <1>3
  <2>3. QED
    BY <2>1, <2>2 DEF IsWorking
<1>4. CASE InsertClosed
  <2>1. \/ /\ klines' = Insert(klines, worker.bar)
           /\ worker' = [worker EXCEPT !.pc = "publish"] /\ UNCHANGED lost
        \/ Retry /\ UNCHANGED klines
    BY <1>4 DEF InsertClosed, WorkerFails
  <2>2. UNCHANGED <<now, trades, committed, consumer, agg, pending, ch, raw, phase, crashes>>
    BY <1>4 DEF InsertClosed
  <2>3. QED
    BY <2>1, <2>2, <1>2, <1>3, RetryProperties
<1>5. CASE PublishClosed
  <2>1. \/ worker' = [worker EXCEPT !.pc = "kafka"] /\ UNCHANGED lost
        \/ Retry
    BY <1>5, Zenon DEF PublishClosed, WorkerFails
  <2>2. UNCHANGED <<now, trades, committed, consumer, agg, pending, ch, klines, raw, phase, crashes>>
    BY <1>5, Zenon DEF PublishClosed
  <2>3. QED
    BY <2>1, <2>2, <1>2, <1>3, RetryProperties
<1>6. CASE PublishRaw
  <2>1. \/ raw' = raw \union {worker.bar} /\ worker' = NoWork /\ UNCHANGED lost
        \/ Retry /\ UNCHANGED raw
    BY <1>6 DEF PublishRaw, WorkerFails
  <2>2. UNCHANGED <<now, trades, committed, consumer, agg, pending, ch, klines, phase, crashes>>
    BY <1>6 DEF PublishRaw
  <2>3. QED
    BY <2>1, <2>2, <1>2, RetryProperties
<1>7. QED
  BY <1>4, <1>5, <1>6

(* The worker takes bars from the memory queue and from the list.          *)
LEMMA WorkerTakes ==
    ASSUME QueueType, TakeFromQueue \/ PopPendingClosed
    PROVE  \E b \in FullBar :
             /\ worker' = Hold(b) /\ IsWorking(worker') /\ worker'.bar = b
             /\ \/ ch # <<>> /\ b = Head(ch) /\ ch' = Tail(ch) /\ UNCHANGED pending
                \/ pending # <<>> /\ b = Head(pending).bar /\ pending' = Tail(pending) /\ UNCHANGED ch
             /\ UNCHANGED <<now, trades, committed, consumer, agg, openKey, klines, raw, phase, lost,
                            crashes>>
<1>1. ASSUME NEW b \in FullBar, worker' = Hold(b) PROVE IsWorking(worker') /\ worker'.bar = b
  BY <1>1 DEF Hold, IsWorking
<1>2. CASE TakeFromQueue
  <2>1. Head(ch) \in FullBar
    BY <1>2, HeadTailProperties DEF TakeFromQueue, QueueType
  <2>2. QED
    BY <2>1, <1>1, <1>2 DEF TakeFromQueue
<1>3. CASE PopPendingClosed
  <2>1. Head(pending) \in [bar : FullBar, isClosed : {TRUE}]
    <3> DEFINE W == [bar : FullBar, isClosed : {TRUE}]
    <3>1. pending \in Seq(W) /\ pending # <<>>
      BY <1>3 DEF PopPendingClosed, QueueType
    <3> HIDE DEF W
    <3>2. Head(pending) \in W
      BY <3>1, HeadTailProperties
    <3>3. QED
      BY <3>2 DEF W
  <2>2. Head(pending).bar \in FullBar
    BY <2>1
  <2>3. QED
    BY <2>2, <1>1, <1>3 DEF PopPendingClosed, FromJSON
<1>4. QED
  BY <1>2, <1>3

LEMMA RestTypeStep == CandlesType /\ [CandlesNext]_candlesVars => WorkerType' /\ StoreType' /\ PhaseType'
<1> SUFFICES ASSUME CandlesType, [CandlesNext]_candlesVars PROVE WorkerType' /\ StoreType' /\ PhaseType'
  OBVIOUS
<1>0. ConsumerType /\ QueueType /\ WorkerType /\ StoreType /\ PhaseType
  BY DEF CandlesType
<1>1. CASE InsertClosed \/ PublishClosed \/ PublishRaw
  <2>1. worker.bar \in FullBar
    BY <1>1, <1>0, WorkerSteps DEF IsWorking
  <2>2. StoreType'
    BY <2>1, <1>1, <1>0, WorkerSteps DEF StoreType, Insert
  <2>3. WorkerType'
    BY <1>1, <1>0, WorkerSteps DEF WorkerType
  <2>4. PhaseType'
    BY <1>1, <1>0, WorkerSteps DEF PhaseType
  <2>5. QED
    BY <2>2, <2>3, <2>4
<1>2. CASE TakeFromQueue \/ PopPendingClosed
  BY <1>2, <1>0, WorkerTakes DEF WorkerType, StoreType, PhaseType
<1>3. CASE EnqueueClosed
  <2>1. ClosedBar \in FullBar
    <3>1. consumer.pc = "close" /\ consumer.k <= Len(consumer.closed)
      BY <1>3 DEF EnqueueClosed, Closing
    <3>2. consumer # Idle /\ consumer # StoppedConsumer
      BY <3>1 DEF Idle, StoppedConsumer
    <3>3. PICK c \in Seq(FullBar), k \in Nat \ {0} : c = consumer.closed /\ k = consumer.k /\ k <= Len(c)
      BY <3>1, <3>2, <1>0 DEF ConsumerType, IsHanding
    <3>4. QED
      BY <3>3, ElementOfSeq DEF ClosedBar
  <2>2. lost' = lost \/ lost' = lost \union {ClosedBar}
    BY <1>3 DEF EnqueueClosed
  <2>3. phase = "run" /\ UNCHANGED <<worker, klines, raw, phase, crashes>>
    BY <1>3 DEF EnqueueClosed, Closing
  <2>4. QED
    BY <2>1, <2>2, <2>3, <1>0 DEF WorkerType, StoreType, PhaseType
<1>4. CASE ApplyTrade \/ SendToQueue \/ PublishOpenBars
  <2>1. phase = "run" /\ UNCHANGED <<worker, klines, raw, lost, phase, crashes>>
    BY <1>4 DEF ApplyTrade, SendToQueue, PublishOpenBars, Closing, Saving
  <2>2. QED
    BY <2>1, <1>0 DEF WorkerType, StoreType, PhaseType
<1>5. CASE Stop
  BY <1>5, <1>0 DEF Stop, WorkerType, StoreType, PhaseType
<1>6. CASE Restore \/ DrainPending
  <2>1. phase' \in {"drain", "run"} /\ phase # "run" /\ UNCHANGED <<worker, klines, raw, lost, consumer, crashes>>
    BY <1>6 DEF Restore, DrainPending
  <2>2. QED
    BY <2>1, <1>0 DEF WorkerType, StoreType, PhaseType
<1>7. CASE Tick \/ Trade \/ UNCHANGED candlesVars
  <2>1. UNCHANGED <<worker, klines, raw, lost, consumer, phase, crashes>>
    BY <1>7 DEF Tick, Trade, candlesVars
  <2>2. QED
    BY <2>1, <1>0 DEF WorkerType, StoreType, PhaseType
<1>8. QED
  BY <1>1, <1>2, <1>3, <1>4, <1>5, <1>6, <1>7 DEF CandlesNext

LEMMA CandlesTypeInit == CandlesInit => CandlesType
<1> SUFFICES ASSUME CandlesInit PROVE CandlesType
  OBVIOUS
<1> USE CandlesAssumption DEF CandlesInit
<1>1. ClockType
  BY DEF ClockType
<1>2. ConsumerType /\ AggType /\ OpenType
  BY DEF ConsumerType, AggType, OpenType
<1>3. QueueType
  BY DEF QueueType
<1>4. WorkerType /\ StoreType /\ PhaseType
  BY DEF WorkerType, StoreType, PhaseType
<1>5. QED
  BY <1>1, <1>2, <1>3, <1>4 DEF CandlesType

LEMMA CandlesTypeStep == CandlesType /\ [CandlesNext]_candlesVars => CandlesType'
BY ClockTypeStep, AggTypeStep, OpenTypeStep, ConsumerTypeStep, QueueTypeStep, RestTypeStep DEF CandlesType

LEMMA CandlesTypeHolds == CandlesSpec => []CandlesType
<1>1. QED
  BY CandlesTypeInit, CandlesTypeStep, PTL DEF CandlesSpec

-----------------------------------------------------------------------------
(* Closed bars: those that are handed over, wait, are worked on or stored. *)
Listed(p) == {p[k].bar : k \in DOMAIN p}
Queued(s) == {s[k] : k \in DOMAIN s}
Held(w) == IF w.pc = "idle" THEN {} ELSE {w.bar}
Handed(c) == IF c.pc = "close" THEN Queued(c.closed) ELSE {}

Known == klines \union Listed(pending) \union Queued(ch) \union Held(worker) \union Handed(consumer)

LEMMA BarsMoved ==
    ASSUME NEW T, NEW s \in Seq(T)
    PROVE  /\ \A x \in T : Listed(Append(s, x)) \subseteq Listed(s) \union {x.bar}
           /\ \A x \in T : Queued(Append(s, x)) \subseteq Queued(s) \union {x}
           /\ s # <<>> => /\ Listed(Tail(s)) \subseteq Listed(s) /\ Head(s).bar \in Listed(s)
                          /\ Queued(Tail(s)) \subseteq Queued(s) /\ Head(s) \in Queued(s)
<1>1. ASSUME NEW x \in T
      PROVE  /\ Listed(Append(s, x)) \subseteq Listed(s) \union {x.bar}
             /\ Queued(Append(s, x)) \subseteq Queued(s) \union {x}
  <2>1. ASSUME NEW k \in DOMAIN Append(s, x)
        PROVE  (k \in DOMAIN s /\ Append(s, x)[k] = s[k]) \/ Append(s, x)[k] = x
    OBVIOUS
  <2>2. QED
    BY <2>1 DEF Listed, Queued
<1>2. ASSUME s # <<>>
      PROVE  /\ Listed(Tail(s)) \subseteq Listed(s) /\ Head(s).bar \in Listed(s)
             /\ Queued(Tail(s)) \subseteq Queued(s) /\ Head(s) \in Queued(s)
  <2>1. ASSUME NEW k \in DOMAIN Tail(s)
        PROVE  k + 1 \in DOMAIN s /\ Tail(s)[k] = s[k + 1]
    BY <1>2
  <2>2. 1 \in DOMAIN s /\ Head(s) = s[1]
    BY <1>2
  <2>3. QED
    BY <2>1, <2>2 DEF Listed, Queued
<1>3. QED
  BY <1>1, <1>2

(* A bar becomes known when the aggregator closes it.                      *)
LEMMA Flow ==
    ASSUME CandlesType, [CandlesNext]_candlesVars
    PROVE  \/ Known' \subseteq Known /\ ~ApplyTrade
           \/ /\ ApplyTrade /\ committed < Len(trades)
              /\ \A b \in Known' : b \in Known \/ \E iv \in Ivs :
                   /\ agg[iv] # NoBar /\ b = agg[iv]
                   /\ BucketStart(iv, trades[committed + 1]) > agg[iv].start
<1>0. ClockType /\ ConsumerType /\ AggType /\ QueueType /\ WorkerType
  BY DEF CandlesType
<1>1. CASE ApplyTrade
  <2>1. PICK i \in 1..Len(trades) : i = committed + 1 /\ committed < Len(trades)
    BY <1>1, <1>0 DEF ApplyTrade, ClockType
  <2>2. /\ consumer' = [pc |-> "close", closed |-> ClosedBy(i), k |-> 1, sent |-> FALSE]
        /\ UNCHANGED <<klines, pending, ch, worker>>
    BY <1>1, <2>1 DEF ApplyTrade
  <2>3. Handed(consumer') = Queued(ClosedBy(i))
    BY <2>2 DEF Handed
  <2>4. \A b \in Queued(ClosedBy(i)) : \E iv \in Ivs :
           agg[iv] # NoBar /\ b = agg[iv] /\ BucketStart(iv, trades[i]) > agg[iv].start
    BY <1>0, ClosedByProperties DEF Queued
  <2>5. QED
    BY <1>1, <2>1, <2>2, <2>3, <2>4 DEF Known
<1>2. CASE EnqueueClosed \/ SendToQueue
  <2>1. consumer.pc = "close" /\ consumer.k <= Len(consumer.closed)
    BY <1>2 DEF EnqueueClosed, SendToQueue, Closing
  <2>2. IsHanding(consumer)
    BY <2>1, <1>0 DEF ConsumerType, Idle, StoppedConsumer
  <2>3. PICK c \in Seq(FullBar), k \in Nat \ {0} : c = consumer.closed /\ k = consumer.k /\ k <= Len(c)
    BY <2>1, <2>2 DEF IsHanding
  <2>4. ClosedBar = c[k] /\ c[k] \in FullBar /\ c[k] \in Queued(c) /\ Handed(consumer) = Queued(c)
    BY <2>1, <2>3 DEF ClosedBar, Queued, Handed
  <2>5. \/ consumer' = [consumer EXCEPT !.sent = TRUE]
        \/ consumer' = [consumer EXCEPT !.k = @ + 1]
        \/ consumer' = [consumer EXCEPT !.k = @ + 1, !.sent = FALSE]
    BY <1>2 DEF EnqueueClosed, SendToQueue
  <2>6. consumer'.pc = "close" /\ consumer'.closed = c
    BY <2>1, <2>2, <2>3, <2>5 DEF IsHanding
  <2>7. Handed(consumer') = Queued(c)
    BY <2>6 DEF Handed
  <2>8. Listed(pending') \subseteq Listed(pending) \union {c[k]}
    <3>1. pending' = pending \/ pending' = Append(pending, ToJSON(c[k], TRUE))
      BY <1>2, <2>4 DEF EnqueueClosed, SendToQueue
    <3>2. ToJSON(c[k], TRUE) \in [bar : FullBar, isClosed : {TRUE}] /\ ToJSON(c[k], TRUE).bar = c[k]
      BY <2>4 DEF ToJSON
    <3> DEFINE W == [bar : FullBar, isClosed : {TRUE}]
    <3>3. pending \in Seq(W)
      BY <1>0 DEF QueueType
    <3>4. PICK x \in W : x = ToJSON(c[k], TRUE) /\ x.bar = c[k]
      BY <3>2
    <3> HIDE DEF W
    <3>5. Listed(Append(pending, x)) \subseteq Listed(pending) \union {x.bar}
      BY <3>3, BarsMoved
    <3>6. QED
      BY <3>1, <3>4, <3>5
  <2>9. Queued(ch') \subseteq Queued(ch) \union {c[k]}
    <3>1. ch' = ch \/ ch' = Append(ch, c[k])
      BY <1>2, <2>4 DEF EnqueueClosed, SendToQueue
    <3>2. Queued(Append(ch, c[k])) \subseteq Queued(ch) \union {c[k]}
      BY <1>0, <2>4, BarsMoved DEF QueueType
    <3>3. QED
      BY <3>1, <3>2
  <2>10. UNCHANGED <<klines, worker>> /\ ~ApplyTrade
    BY <1>2, <2>1 DEF EnqueueClosed, SendToQueue, ApplyTrade, Idle
  <2>11. QED
    BY <2>4, <2>7, <2>8, <2>9, <2>10 DEF Known
<1>3. CASE InsertClosed \/ PublishClosed \/ PublishRaw
  <2>1. ~ApplyTrade
    BY <1>3, <1>0, WorkerSteps DEF ApplyTrade, Idle
  <2>2. worker.bar \in Held(worker) /\ Held(worker') \subseteq Held(worker)
    BY <1>3, <1>0, WorkerSteps DEF Held, IsWorking, NoWork
  <2>3. klines' \subseteq klines \union {worker.bar}
    BY <1>3, <1>0, WorkerSteps DEF Insert
  <2>4. UNCHANGED <<consumer, pending, ch>>
    BY <1>3, <1>0, WorkerSteps
  <2>5. QED
    BY <2>1, <2>2, <2>3, <2>4 DEF Known
<1>4. CASE TakeFromQueue \/ PopPendingClosed
  <2>1. PICK b \in FullBar :
           /\ worker' = Hold(b)
           /\ \/ ch # <<>> /\ b = Head(ch) /\ ch' = Tail(ch) /\ UNCHANGED pending
              \/ pending # <<>> /\ b = Head(pending).bar /\ pending' = Tail(pending) /\ UNCHANGED ch
           /\ UNCHANGED <<consumer, agg, klines>>
    BY <1>4, <1>0, WorkerTakes
  <2>2. Held(worker') = {b}
    BY <2>1 DEF Held, Hold
  <2>3. ~ApplyTrade
    BY <2>1 DEF ApplyTrade, Idle
  <2>4. CASE ch # <<>> /\ b = Head(ch) /\ ch' = Tail(ch) /\ UNCHANGED pending
    <3>1. Queued(ch') \subseteq Queued(ch) /\ b \in Queued(ch)
      BY <2>4, <1>0, BarsMoved DEF QueueType
    <3>2. QED
      BY <2>1, <2>2, <2>3, <2>4, <3>1 DEF Known
  <2>5. CASE pending # <<>> /\ b = Head(pending).bar /\ pending' = Tail(pending) /\ UNCHANGED ch
    <3>1. Listed(pending') \subseteq Listed(pending) /\ b \in Listed(pending)
      BY <2>5, <1>0, BarsMoved DEF QueueType
    <3>2. QED
      BY <2>1, <2>2, <2>3, <2>5, <3>1 DEF Known
  <2>6. QED
    BY <2>1, <2>4, <2>5
<1>5. CASE PublishOpenBars
  <2>1. consumer' = Idle \/ consumer' = StoppedConsumer
    BY <1>5 DEF PublishOpenBars, StoppedConsumer
  <2>2. Handed(consumer') = {}
    BY <2>1 DEF Handed, Idle, StoppedConsumer
  <2>3. UNCHANGED <<klines, pending, ch, worker>> /\ ~ApplyTrade
    BY <1>5 DEF PublishOpenBars, Saving, ApplyTrade, Idle
  <2>4. QED
    BY <2>2, <2>3 DEF Known
<1>6. CASE Stop
  <2>1. Handed(consumer') = {} /\ Held(worker') = {} /\ Queued(ch') = {}
    BY <1>6 DEF Stop, Handed, Held, Queued, Idle, NoWork
  <2>2. UNCHANGED <<klines, pending>> /\ ~ApplyTrade
    BY <1>6 DEF Stop, ApplyTrade, Idle
  <2>3. QED
    BY <2>1, <2>2 DEF Known
<1>7. CASE Tick \/ Trade \/ Restore \/ DrainPending \/ UNCHANGED candlesVars
  <2>1. UNCHANGED <<klines, pending, ch, worker, consumer>>
    BY <1>7 DEF Tick, Trade, Restore, DrainPending, candlesVars
  <2>2. ~ApplyTrade
    <3>1. ApplyTrade => consumer = Idle /\ consumer'.pc = "close"
      BY DEF ApplyTrade
    <3>2. QED
      BY <3>1, <2>1 DEF Idle
  <2>3. QED
    BY <2>1, <2>2 DEF Known
<1>8. QED
  BY <1>1, <1>2, <1>3, <1>4, <1>5, <1>6, <1>7 DEF CandlesNext

-----------------------------------------------------------------------------
(* The bar the first n trades of ts make of a bucket.                      *)
Numbers(n) == [i \in 1..n |-> i]
BucketIn(ts, iv, i) == BucketStart(iv, ts[i])
Before(ts, iv, start, n) ==
    {i \in 1..n : BucketIn(ts, iv, i) = start /\ \A j \in 1..(i - 1) : BucketIn(ts, iv, j) <= start}
BarIn(ts, iv, start, n) == AtPositions(Numbers(Len(ts)), Before(ts, iv, start, n))

LEMMA BarOfTradesIs ==
    ASSUME NEW iv, NEW start, trades \in Seq(0..MaxTime)
    PROVE  BarOfTrades(iv, start) = BarIn(trades, iv, start, Len(trades))
<1>1. DOMAIN trades = 1..Len(trades)
  OBVIOUS
<1>2. QED
  BY <1>1 DEF BarOfTrades, BarIn, Before, BucketIn, Numbers

LEMMA NumbersProperties ==
    ASSUME NEW n \in Nat
    PROVE  Len(Numbers(n)) = n /\ \A i \in 1..n : Numbers(n)[i] = i
BY DEF Numbers

LEMMA BarGrows ==
    ASSUME NEW ts \in Seq(Nat), NEW t \in Nat, NEW iv, NEW start, NEW n \in 0..Len(ts)
    PROVE  BarIn(Append(ts, t), iv, start, n) = BarIn(ts, iv, start, n)
<1>1. PICK us \in Seq(Nat) : us = Append(ts, t)
  <2>1. Append(ts, t) \in Seq(Nat)
    OBVIOUS
  <2>2. QED
    BY <2>1
<1>0. PICK l \in Nat : l = Len(ts) /\ Len(us) = l + 1 /\ \A i \in 1..l : us[i] = ts[i]
  BY <1>1
<1>00. n \in 0..l
  BY <1>0
<1>2. Before(us, iv, start, n) = Before(ts, iv, start, n)
  <2>1. \A i \in 1..n : i \in 1..l /\ \A j \in 1..(i - 1) : j \in 1..l
    BY <1>00
  <2>2. \A i \in 1..n : BucketIn(us, iv, i) = BucketIn(ts, iv, i)
                      /\ \A j \in 1..(i - 1) : BucketIn(us, iv, j) = BucketIn(ts, iv, j)
    BY <2>1, <1>0 DEF BucketIn
  <2>3. QED
    BY <2>2 DEF Before
<1>3. PICK C \in SUBSET (1..l) : C = Before(ts, iv, start, n)
  <2>1. Before(ts, iv, start, n) \in SUBSET (1..n)
    BY DEF Before
  <2>2. QED
    BY <2>1, <1>00
<1>4. PICK a, b : a = Numbers(l + 1) /\ b = Numbers(l)
  OBVIOUS
<1>5. Len(a) = l + 1 /\ Len(b) = l /\ \A i \in 1..l : a[i] = b[i]
  BY <1>4, NumbersProperties
<1>6. AtPositions(a, C) = AtPositions(b, C)
  <2>1. Len(a) \in Nat /\ Len(b) \in Nat /\ l <= Len(a) /\ l <= Len(b)
        /\ \A i \in 1..l : a[i] = b[i]
    BY <1>5
  <2>2. QED
    BY <2>1, AtPositionsPrefix
<1>7. QED
  BY <1>0, <1>1, <1>2, <1>3, <1>4, <1>6 DEF BarIn

(* A trade of a later bucket settles the bar.                              *)
LEMMA BarSettled ==
    ASSUME NEW ts \in Seq(Nat), NEW iv \in Ivs, NEW start \in Nat, NEW n \in 0..Len(ts), NEW j \in 1..n,
           BucketIn(ts, iv, j) > start
    PROVE  BarIn(ts, iv, start, n) = BarIn(ts, iv, start, j - 1)
<1>1. \A i \in 1..n : BucketIn(ts, iv, i) \in Nat
  <2>1. ASSUME NEW i \in 1..n PROVE BucketIn(ts, iv, i) \in Nat
    <3>1. i \in 1..Len(ts)
      OBVIOUS
    <3>2. PICK t \in Nat : t = ts[i]
      BY <3>1, ElementOfSeq
    <3>3. BucketStart(iv, t) \in 0..t
      BY BucketOrder
    <3>4. QED
      BY <3>2, <3>3 DEF BucketIn
  <2>2. QED
    BY <2>1
<1>2. ASSUME NEW i \in Before(ts, iv, start, n) PROVE i \in 1..(j - 1)
  <2>1. i \in 1..n /\ BucketIn(ts, iv, i) = start /\ \A k \in 1..(i - 1) : BucketIn(ts, iv, k) <= start
    BY DEF Before
  <2>2. i # j
    BY <2>1, <1>1
  <2>3. ~(j < i)
    BY <2>1, <1>1
  <2>4. QED
    BY <2>1, <2>2, <2>3
<1>3. Before(ts, iv, start, n) = Before(ts, iv, start, j - 1)
  BY <1>2 DEF Before
<1>4. QED
  BY <1>3 DEF BarIn

(* The next trade joins the bar, is late, or opens one.                    *)
LEMMA BarNext ==
    ASSUME NEW ts \in Seq(Nat), NEW iv \in Ivs, NEW start \in Nat, NEW n \in Nat, n + 1 <= Len(ts)
    PROVE  /\ BucketIn(ts, iv, n + 1) < start =>
                BarIn(ts, iv, start, n + 1) = BarIn(ts, iv, start, n)
           /\ BucketIn(ts, iv, n + 1) = start /\ (\A j \in 1..n : BucketIn(ts, iv, j) <= start) =>
                BarIn(ts, iv, start, n + 1) = Append(BarIn(ts, iv, start, n), n + 1)
           /\ BucketIn(ts, iv, n + 1) = start /\ (\A j \in 1..n : BucketIn(ts, iv, j) < start) =>
                BarIn(ts, iv, start, n + 1) = <<n + 1>>
<1>0. PICK l \in Nat : l = Len(ts) /\ n + 1 \in 1..l
  OBVIOUS
<1>1. \A i \in 1..l : BucketIn(ts, iv, i) \in Nat
  <2>1. \A i \in 1..l : ts[i] \in Nat
    BY <1>0
  <2>2. QED
    BY <2>1, BucketOrder DEF BucketIn
<1>2. PICK C : C = Before(ts, iv, start, n)
  OBVIOUS
<1>3. C \in SUBSET (1..n)
  BY <1>2 DEF Before
<1>4. ASSUME BucketIn(ts, iv, n + 1) < start PROVE Before(ts, iv, start, n + 1) = C
  <2>1. BucketIn(ts, iv, n + 1) # start
    BY <1>0, <1>1, <1>4
  <2>2. \A i \in 1..(n + 1) : i \in 1..n \/ i = n + 1
    OBVIOUS
  <2>3. QED
    BY <2>1, <2>2, <1>2 DEF Before
<1>5. ASSUME BucketIn(ts, iv, n + 1) = start, \A j \in 1..n : BucketIn(ts, iv, j) <= start
      PROVE  BarIn(ts, iv, start, n + 1) = Append(BarIn(ts, iv, start, n), n + 1)
  <2>1. Before(ts, iv, start, n + 1) = C \cup {n + 1}
    <3>1. \A i \in 1..(n + 1) : i \in 1..n \/ i = n + 1
      OBVIOUS
    <3>2. n + 1 \in Before(ts, iv, start, n + 1)
      BY <1>5 DEF Before
    <3>3. QED
      BY <3>1, <3>2, <1>2 DEF Before
  <2>2. PICK s : s = Numbers(l) /\ Len(s) = l /\ s[n + 1] = n + 1
    BY <1>0, NumbersProperties
  <2>3. AtPositions(s, C \cup {n + 1}) = Append(AtPositions(s, C), s[n + 1])
    <3>1. PICK i \in 1..Len(s) : i = n + 1 /\ i - 1 = n
      BY <2>2, <1>0
    <3>2. Len(s) \in Nat /\ C \in SUBSET (1..(i - 1))
      BY <3>1, <2>2, <1>3
    <3>3. AtPositions(s, C \cup {i}) = Append(AtPositions(s, C), s[i])
      BY <3>2, AtPositionsAppend
    <3>4. QED
      BY <3>1, <3>3
  <2>4. QED
    BY <2>1, <2>2, <2>3, <1>0, <1>2 DEF BarIn
<1>6. ASSUME BucketIn(ts, iv, n + 1) = start, \A j \in 1..n : BucketIn(ts, iv, j) < start
      PROVE  BarIn(ts, iv, start, n + 1) = <<n + 1>>
  <2>1. \A j \in 1..n : BucketIn(ts, iv, j) <= start /\ BucketIn(ts, iv, j) # start
    BY <1>0, <1>1, <1>6
  <2>2. C = {}
    BY <2>1, <1>2 DEF Before
  <2>3. BarIn(ts, iv, start, n) = <<>>
    <3>1. Len(Numbers(l)) \in Nat
      BY NumbersProperties
    <3>2. QED
      BY <3>1, <2>2, <1>0, <1>2, AtPositionsNone DEF BarIn
  <2>4. BarIn(ts, iv, start, n + 1) = Append(<<>>, n + 1)
    BY <2>1, <2>3, <1>5, <1>6
  <2>5. QED
    BY <2>4
<1>7. QED
  BY <1>2, <1>4, <1>5, <1>6 DEF BarIn

-----------------------------------------------------------------------------
(* As long as the process has not stopped, the open bars are the ones of   *)
(* the trades applied so far, and every known closed bar is complete: a    *)
(* trade of a later bucket has come.                                       *)
Applied == IF consumer = Idle THEN committed ELSE committed + 1

Complete(ts, b) ==
    /\ b.ids = BarIn(ts, b.iv, b.start, Len(ts))
    /\ \E j \in 1..Len(ts) : BucketIn(ts, b.iv, j) > b.start

UpToDate(ts, iv, b, n) ==
    IF n = 0 THEN b = NoBar
    ELSE /\ b # NoBar /\ b.ids = BarIn(ts, iv, b.start, n)
         /\ \A j \in 1..n : BucketIn(ts, iv, j) <= b.start

ExactInv ==
    crashes = 0 => /\ \A b \in Known : Complete(trades, b)
                   /\ \A iv \in Ivs : UpToDate(trades, iv, agg[iv], Applied)

LEMMA TradesType ==
    ASSUME ClockType
    PROVE  /\ trades \in Seq(Nat) /\ Len(trades) \in Nat /\ MaxTime \in Nat
           /\ \A iv \in Ivs : \A i \in 1..Len(trades) : BucketIn(trades, iv, i) \in Nat
<1>1. trades \in Seq(0..MaxTime) /\ MaxTime \in Nat
  BY CandlesAssumption DEF ClockType
<1>2. \A i \in 1..Len(trades) : trades[i] \in 0..MaxTime
  BY <1>1, ElementOfSeq
<1>3. trades \in Seq(Nat)
  BY <1>1, <1>2
<1>4. ASSUME NEW iv \in Ivs, NEW i \in 1..Len(trades) PROVE BucketIn(trades, iv, i) \in Nat
  <2>1. PICK t \in Nat : t = trades[i]
    BY <1>2, <1>1
  <2>2. BucketStart(iv, t) \in 0..t
    BY BucketOrder
  <2>3. QED
    BY <2>1, <2>2 DEF BucketIn
<1>5. QED
  BY <1>1, <1>3, <1>4

LEMMA KnownType ==
    ASSUME CandlesType
    PROVE  Known \subseteq FullBar
<1>0. ConsumerType /\ QueueType /\ WorkerType /\ StoreType
  BY DEF CandlesType
<1>1. Listed(pending) \subseteq FullBar
  <2> DEFINE W == [bar : FullBar, isClosed : {TRUE}]
  <2>1. pending \in Seq(W)
    BY <1>0 DEF QueueType
  <2>2. \A x \in W : x.bar \in FullBar
    OBVIOUS
  <2> HIDE DEF W
  <2>3. \A k \in DOMAIN pending : pending[k] \in W
    BY <2>1
  <2>4. QED
    BY <2>2, <2>3 DEF Listed
<1>2. Queued(ch) \subseteq FullBar
  BY <1>0 DEF QueueType, Queued
<1>3. Held(worker) \subseteq FullBar
  BY <1>0 DEF WorkerType, NoWork, IsWorking, Held
<1>4. Handed(consumer) \subseteq FullBar
  BY <1>0 DEF ConsumerType, Idle, StoppedConsumer, IsHanding, Handed, Queued
<1>5. QED
  BY <1>0, <1>1, <1>2, <1>3, <1>4 DEF Known, StoreType

LEMMA CompleteStays ==
    ASSUME NEW ts \in Seq(Nat), NEW t \in Nat, NEW b \in FullBar, Complete(ts, b)
    PROVE  Complete(Append(ts, t), b)
<1>1. b.iv \in Ivs /\ b.start \in Nat
  BY BarShapes, CandlesAssumption
<1>2. PICK iv \in Ivs, start \in Nat : iv = b.iv /\ start = b.start
  BY <1>1
<1>3. PICK us \in Seq(Nat) : us = Append(ts, t)
  <2>1. Append(ts, t) \in Seq(Nat)
    OBVIOUS
  <2>2. QED
    BY <2>1
<1>4. PICK n \in Nat : n = Len(ts) /\ Len(us) = n + 1 /\ \A i \in 1..n : us[i] = ts[i]
  BY <1>3
<1>5. PICK j \in 1..n : BucketIn(ts, iv, j) > start
  BY <1>2, <1>4 DEF Complete
<1>6. BucketIn(us, iv, j) > start
  BY <1>4, <1>5 DEF BucketIn
<1>7. BarIn(ts, iv, start, n) = BarIn(ts, iv, start, j - 1)
  <2>1. n \in 0..Len(ts) /\ j \in 1..n
    BY <1>4
  <2>2. QED
    BY <2>1, <1>5, BarSettled
<1>8. BarIn(us, iv, start, n + 1) = BarIn(us, iv, start, j - 1)
  <2>1. n + 1 \in 0..Len(us) /\ j \in 1..(n + 1)
    BY <1>4
  <2>2. QED
    BY <2>1, <1>6, BarSettled
<1>9. BarIn(us, iv, start, j - 1) = BarIn(ts, iv, start, j - 1)
  <2>1. j - 1 \in 0..Len(ts)
    BY <1>4
  <2>2. QED
    BY <2>1, <1>3, BarGrows
<1>10. b.ids = BarIn(us, iv, start, n + 1) /\ j \in 1..(n + 1)
  BY <1>2, <1>4, <1>7, <1>8, <1>9 DEF Complete
<1>11. QED
  BY <1>2, <1>3, <1>4, <1>6, <1>10 DEF Complete

LEMMA UpToDateStays ==
    ASSUME NEW ts \in Seq(Nat), NEW t \in Nat, NEW iv, NEW b, NEW n \in 0..Len(ts), UpToDate(ts, iv, b, n)
    PROVE  UpToDate(Append(ts, t), iv, b, n)
<1>1. CASE n = 0
  BY <1>1 DEF UpToDate
<1>2. CASE n # 0
  <2>1. BarIn(Append(ts, t), iv, b.start, n) = BarIn(ts, iv, b.start, n)
    BY BarGrows
  <2>2. \A j \in 1..n : Append(ts, t)[j] = ts[j]
    OBVIOUS
  <2>3. \A j \in 1..n : BucketIn(Append(ts, t), iv, j) = BucketIn(ts, iv, j)
    BY <2>2 DEF BucketIn
  <2>4. QED
    BY <1>2, <2>1, <2>3 DEF UpToDate
<1>3. QED
  BY <1>1, <1>2

(* The aggregator takes one more trade.                                    *)
LEMMA UpToDateNext ==
    ASSUME ClockType, NEW iv \in Ivs, NEW cur, cur = NoBar \/ OpenBar(iv, cur),
           NEW n \in Nat, n + 1 <= Len(trades), UpToDate(trades, iv, cur, n)
    PROVE  /\ UpToDate(trades, iv, ApplyOneInterval(iv, cur, n + 1), n + 1)
           /\ (cur # NoBar /\ BucketStart(iv, trades[n + 1]) > cur.start) => Complete(trades, cur)
<1>1. PICK i \in 1..Len(trades) : i = n + 1
  OBVIOUS
<1>2. trades \in Seq(Nat) /\ \A j \in 1..Len(trades) : BucketIn(trades, iv, j) \in Nat
  BY TradesType
<1>3. PICK u \in Nat : u = BucketIn(trades, iv, i) /\ u = BucketStart(iv, trades[i])
  BY <1>1, <1>2 DEF BucketIn
<1> DEFINE new == ApplyOneInterval(iv, cur, i)
           fresh == NewFromTrade(iv, u, i)
<1>4. /\ new # NoBar
      /\ \/ cur = NoBar /\ new = fresh
         \/ cur # NoBar /\ u < cur.start /\ new = cur
         \/ cur # NoBar /\ u = cur.start /\ new = ApplyToBar(cur, i)
         \/ cur # NoBar /\ u > cur.start /\ new = fresh
  BY <1>1, <1>3, AppliedBar
<1>5. fresh.ids = <<i>> /\ fresh.start = u
  BY DEF NewFromTrade
<1> HIDE DEF new, fresh
<1>6. \A j \in 1..i : j \in 1..n \/ j = i
  BY <1>1
<1>7. ASSUME new = fresh, \A j \in 1..n : BucketIn(trades, iv, j) < u
      PROVE  UpToDate(trades, iv, new, i)
  <2>1. BarIn(trades, iv, u, i) = <<i>>
    BY <1>7, <1>1, <1>2, <1>3, BarNext
  <2>2. ASSUME NEW j \in 1..i PROVE BucketIn(trades, iv, j) <= u
    <3>1. CASE j = i
      BY <3>1, <1>3
    <3>2. CASE j \in 1..n
      <4>1. PICK x \in Nat : x = BucketIn(trades, iv, j)
        BY <1>1, <1>2
      <4>2. x < u
        BY <3>2, <4>1, <1>7
      <4>3. QED
        BY <4>1, <4>2
    <3>3. QED
      BY <3>1, <3>2, <1>6
  <2>3. QED
    BY <2>1, <2>2, <1>1, <1>4, <1>5, <1>7 DEF UpToDate
<1>8. CASE cur = NoBar
  <2>1. n = 0
    BY <1>8 DEF UpToDate
  <2>2. UpToDate(trades, iv, new, i)
    BY <2>1, <1>4, <1>7, <1>8
  <2>3. QED
    BY <2>2, <1>1, <1>8 DEF new
<1>9. CASE cur # NoBar
  <2>1. OpenBar(iv, cur)
    BY <1>9
  <2>2. PICK c \in Nat : c = cur.start
    BY <2>1, BarShapes, CandlesAssumption DEF OpenBar
  <2>3. n # 0 /\ cur.ids = BarIn(trades, iv, c, n) /\ \A j \in 1..n : BucketIn(trades, iv, j) <= c
    BY <1>9, <2>2 DEF UpToDate
  <2>4. CASE u < c
    <3>1. new = cur
      BY <2>2, <2>4, <1>3, <1>4, <1>9
    <3>2. BarIn(trades, iv, c, i) = BarIn(trades, iv, c, n)
      BY <2>4, <1>1, <1>2, <1>3, BarNext
    <3>3. ASSUME NEW j \in 1..i PROVE BucketIn(trades, iv, j) <= c
      <4>1. BucketIn(trades, iv, i) <= c
        BY <2>4, <1>3
      <4>2. QED
        BY <4>1, <1>6, <2>3
    <3>4. UpToDate(trades, iv, new, i)
      BY <3>1, <3>2, <3>3, <2>2, <2>3, <1>1, <1>4 DEF UpToDate
    <3>5. QED
      BY <3>4, <2>2, <2>4, <1>1, <1>3 DEF new
  <2>5. CASE u = c
    <3>1. new = ApplyToBar(cur, i)
      BY <2>2, <2>5, <1>3, <1>4, <1>9
    <3>2. new.ids = Append(cur.ids, i) /\ new.start = c
      <4>1. PICK st, q : cur = [iv |-> iv, start |-> st, ids |-> q]
        BY <2>1 DEF FullBar, OpenBar
      <4>2. QED
        BY <4>1, <3>1, <2>2 DEF ApplyToBar
    <3>3. BarIn(trades, iv, c, i) = Append(BarIn(trades, iv, c, n), i)
      BY <2>3, <2>5, <1>1, <1>2, <1>3, BarNext
    <3>4. ASSUME NEW j \in 1..i PROVE BucketIn(trades, iv, j) <= c
      <4>1. BucketIn(trades, iv, i) <= c
        BY <2>5, <1>3
      <4>2. QED
        BY <4>1, <1>6, <2>3
    <3>5. UpToDate(trades, iv, new, i)
      BY <3>2, <3>3, <3>4, <2>3, <1>1, <1>4 DEF UpToDate
    <3>6. QED
      BY <3>5, <2>2, <2>5, <1>1, <1>3 DEF new
  <2>6. CASE u > c
    <3>1. new = fresh
      BY <2>2, <2>6, <1>3, <1>4, <1>9
    <3>2. ASSUME NEW j \in 1..n PROVE BucketIn(trades, iv, j) < u
      <4>1. BucketIn(trades, iv, j) <= c /\ BucketIn(trades, iv, j) \in Nat
        BY <2>3, <1>1, <1>2
      <4>2. QED
        BY <4>1, <2>6
    <3>3. UpToDate(trades, iv, new, i)
      BY <3>1, <3>2, <1>7
    <3>4. Complete(trades, cur)
      <4>1. BarIn(trades, iv, c, Len(trades)) = BarIn(trades, iv, c, i - 1)
        <5>1. Len(trades) \in 0..Len(trades) /\ i \in 1..Len(trades) /\ BucketIn(trades, iv, i) > c
          BY <2>6, <1>3
        <5>2. QED
          BY <5>1, <1>2, BarSettled
      <4>2. i - 1 = n /\ cur.iv = iv
        BY <1>1, <2>1 DEF OpenBar
      <4>3. BucketIn(trades, cur.iv, i) > cur.start
        BY <4>2, <2>2, <2>6, <1>3
      <4>4. QED
        BY <4>1, <4>2, <4>3, <2>2, <2>3 DEF Complete
    <3>5. QED
      BY <3>3, <3>4, <1>1 DEF new
  <2>7. QED
    BY <2>4, <2>5, <2>6
<1>10. QED
  BY <1>8, <1>9

LEMMA ExactStep ==
    ASSUME CandlesType, ExactInv, [CandlesNext]_candlesVars
    PROVE  ExactInv'
<1>0. ClockType /\ ConsumerType /\ AggType /\ PhaseType /\ CandlesType'
  BY CandlesTypeStep DEF CandlesType
<1>1. SUFFICES ASSUME crashes' = 0
               PROVE  /\ \A b \in Known' : Complete(trades', b)
                      /\ \A iv \in Ivs : UpToDate(trades', iv, agg'[iv], Applied')
  BY DEF ExactInv
<1>2. crashes = 0 /\ phase = "run" /\ ~Stop
  <2>1. ~Stop
    BY <1>1, <1>0 DEF Stop, PhaseType
  <2>2. crashes' = crashes
    BY <2>1 DEF CandlesNext, candlesVars, Tick, Trade, ApplyTrade, EnqueueClosed, SendToQueue,
           PublishOpenBars, TakeFromQueue, PopPendingClosed, InsertClosed, PublishClosed, PublishRaw,
           Restore, DrainPending
  <2>3. QED
    BY <2>1, <2>2, <1>1, <1>0 DEF PhaseType
<1>3. (\A b \in Known : Complete(trades, b)) /\ \A iv \in Ivs : UpToDate(trades, iv, agg[iv], Applied)
  BY <1>2 DEF ExactInv
<1>4. CASE ApplyTrade
  <2>1. /\ consumer = Idle /\ consumer' # Idle /\ committed < Len(trades)
        /\ trades' = trades /\ committed' = committed
        /\ agg' = [iv \in Ivs |-> ApplyOneInterval(iv, agg[iv], committed + 1)]
    BY <1>4 DEF ApplyTrade, Idle
  <2>2. Applied = committed /\ Applied' = committed + 1 /\ committed \in Nat /\ committed + 1 <= Len(trades)
    BY <2>1, <1>0 DEF Applied, ClockType
  <2>3. ASSUME NEW iv \in Ivs
        PROVE  /\ UpToDate(trades, iv, ApplyOneInterval(iv, agg[iv], committed + 1), committed + 1)
               /\ (agg[iv] # NoBar /\ BucketStart(iv, trades[committed + 1]) > agg[iv].start)
                    => Complete(trades, agg[iv])
    <3>1. agg[iv] = NoBar \/ OpenBar(iv, agg[iv])
      BY <1>0 DEF AggType
    <3>2. PICK cur : cur = agg[iv]
      OBVIOUS
    <3>3. PICK n \in Nat : n = committed /\ n + 1 <= Len(trades)
      BY <2>2
    <3>4. UpToDate(trades, iv, cur, n)
      BY <3>2, <3>3, <2>2, <1>3
    <3>5. /\ UpToDate(trades, iv, ApplyOneInterval(iv, cur, n + 1), n + 1)
          /\ (cur # NoBar /\ BucketStart(iv, trades[n + 1]) > cur.start) => Complete(trades, cur)
      BY <3>1, <3>2, <3>3, <3>4, <1>0, UpToDateNext
    <3>6. QED
      BY <3>2, <3>3, <3>5
  <2>4. \A b \in Known' : b \in Known \/ \E iv \in Ivs :
           agg[iv] # NoBar /\ b = agg[iv] /\ BucketStart(iv, trades[committed + 1]) > agg[iv].start
    BY <1>4, Flow
  <2>5. QED
    BY <2>1, <2>2, <2>3, <2>4, <1>3
<1>5. CASE Trade
  <2>1. PICK t \in {x \in (now - Skew)..now : x >= 0} : trades' = Append(trades, t)
    BY <1>5 DEF Trade
  <2>2. UNCHANGED <<committed, consumer, agg>> /\ ~ApplyTrade
    BY <1>5 DEF Trade, ApplyTrade, Idle
  <2>3. t \in Nat /\ trades \in Seq(Nat)
    BY <2>1, <1>0, TradesType DEF ClockType
  <2>4. \A b \in Known' : b \in Known /\ b \in FullBar
    BY <2>2, Flow, KnownType
  <2>5. Applied' = Applied /\ Applied \in 0..Len(trades)
    BY <2>2, <1>0 DEF Applied, ConsumerType, ClockType
  <2>6. QED
    BY <2>1, <2>2, <2>3, <2>4, <2>5, <1>3, CompleteStays, UpToDateStays
<1>6. CASE ~ApplyTrade /\ ~Trade
  <2>1. UNCHANGED <<trades, agg>>
    BY <1>6, <1>2 DEF CandlesNext, candlesVars, Tick, EnqueueClosed, SendToQueue, PublishOpenBars,
           TakeFromQueue, PopPendingClosed, InsertClosed, PublishClosed, PublishRaw, Restore, DrainPending
  <2>2. Known' \subseteq Known
    BY <1>6, Flow
  <2>3. Applied' = Applied
    <3>1. CASE PublishOpenBars
      <4>1. consumer.pc = "close"
        BY <3>1 DEF PublishOpenBars, Saving
      <4>2. \/ consumer' = Idle /\ committed' = committed + 1
            \/ consumer' = StoppedConsumer /\ committed' = committed
        BY <3>1 DEF PublishOpenBars, StoppedConsumer
      <4>3. QED
        BY <4>1, <4>2 DEF Applied, Idle, StoppedConsumer
    <3>2. CASE EnqueueClosed \/ SendToQueue
      <4>1. consumer.pc = "close" /\ committed' = committed
        BY <3>2 DEF EnqueueClosed, SendToQueue, Closing
      <4>2. IsHanding(consumer)
        BY <4>1, <1>0 DEF ConsumerType, Idle, StoppedConsumer
      <4>3. \/ consumer' = [consumer EXCEPT !.sent = TRUE]
            \/ consumer' = [consumer EXCEPT !.k = @ + 1]
            \/ consumer' = [consumer EXCEPT !.k = @ + 1, !.sent = FALSE]
        BY <3>2 DEF EnqueueClosed, SendToQueue
      <4>4. consumer'.pc = "close"
        <5>1. PICK cl, k, se : consumer = [pc |-> "close", closed |-> cl, k |-> k, sent |-> se]
          BY <4>2 DEF IsHanding
        <5>2. QED
          BY <4>3, <5>1
      <4>5. QED
        BY <4>1, <4>4 DEF Applied, Idle
    <3>3. CASE UNCHANGED <<consumer, committed>>
      BY <3>3 DEF Applied
    <3>4. QED
      BY <3>1, <3>2, <3>3, <1>6, <1>2 DEF CandlesNext, candlesVars, Tick, TakeFromQueue,
         PopPendingClosed, InsertClosed, PublishClosed, PublishRaw, Restore, DrainPending
  <2>4. QED
    BY <2>1, <2>2, <2>3, <1>3
<1>7. QED
  BY <1>4, <1>5, <1>6

(* A stored bar is exactly the bar of its bucket: as long as the process   *)
(* has not stopped, each of its trades is in it once and in order and no   *)
(* other, for any trades, clock readings, intervals, queue size, failures  *)
(* and interleavings of aggregator, list, memory queue and worker          *)
(* (ApplyTrade, HandleClose, InsertClosed).                                *)
THEOREM StoredBarsExact == CandlesSpec => []BarsExact
<1>1. CandlesInit => ExactInv
  <2>1. SUFFICES ASSUME CandlesInit PROVE ExactInv
    OBVIOUS
  <2>2. Known = {}
    BY <2>1 DEF CandlesInit, Known, Listed, Queued, Held, Handed, Idle, NoWork
  <2>3. ASSUME NEW iv \in Ivs PROVE UpToDate(trades, iv, agg[iv], Applied)
    BY <2>1 DEF CandlesInit, UpToDate, Applied
  <2>4. QED
    BY <2>2, <2>3 DEF ExactInv
<1>2. CandlesType /\ ExactInv /\ [CandlesNext]_candlesVars => ExactInv'
  BY ExactStep
<1>3. CandlesType /\ ExactInv => BarsExact
  <2>1. SUFFICES ASSUME CandlesType, ExactInv, crashes = 0, NEW r \in klines
                 PROVE  r.ids = BarOfTrades(r.iv, r.start)
    BY DEF BarsExact
  <2>2. r \in Known
    BY DEF Known
  <2>3. Complete(trades, r) /\ trades \in Seq(0..MaxTime)
    BY <2>1, <2>2 DEF ExactInv, CandlesType, ClockType
  <2>4. QED
    BY <2>3, BarOfTradesIs DEF Complete
<1>4. QED
  BY <1>1, <1>2, <1>3, CandlesTypeHolds, PTL DEF CandlesSpec

-----------------------------------------------------------------------------
(* The open bars and their snapshots, through restarts.                    *)
ClockForward == \A i \in 1..(Len(trades) - 1) : trades[i] <= trades[i + 1]

OneRow == IsFiniteSet(klines) /\ \A r, s \in klines : r.iv = s.iv /\ r.start = s.start => r = s

LaterSeen(ts, n, b) == \E j \in 1..Len(ts) : j <= n /\ b.start < BucketIn(ts, b.iv, j)

OpenIsSaved ==
    consumer = Idle =>
        \A iv \in Ivs : agg[iv] # NoBar /\ openKey[iv] # NoBar => openKey[iv].json.bar.start = agg[iv].start

NotAfter(b) ==
    /\ agg[b.iv] # NoBar => b.start <= agg[b.iv].start
    /\ openKey[b.iv] # NoBar => b.start <= openKey[b.iv].json.bar.start

OrderInv ==
    /\ OneRow
    /\ \A b \in Known : LaterSeen(trades, committed + 1, b)
    /\ OpenIsSaved
    /\ ClockForward => \A b \in Known : NotAfter(b)

(* What a step does to them.                                               *)
Takes ==
    /\ ApplyTrade /\ consumer = Idle /\ consumer' # Idle /\ committed < Len(trades)
    /\ agg' = [iv \in Ivs |-> ApplyOneInterval(iv, agg[iv], committed + 1)]
    /\ UNCHANGED <<trades, committed, openKey>>

Saves ==
    /\ \A iv \in Ivs : agg[iv] # NoBar
    /\ \A iv \in Ivs : openKey'[iv] = SaveOpenBar(iv) \/ openKey'[iv] = openKey[iv]
    /\ \/ consumer' # Idle /\ committed' = committed
       \/ committed' = committed + 1 /\ \A iv \in Ivs : openKey'[iv] = SaveOpenBar(iv)
    /\ UNCHANGED <<trades, agg>>

Forgets == (\A iv \in Ivs : agg'[iv] = NoBar) /\ UNCHANGED <<trades, committed, openKey>>

Restores ==
    /\ \A iv \in Ivs : agg'[iv] = NoBar \/ (openKey[iv] # NoBar /\ agg'[iv] = openKey[iv].json.bar)
    /\ UNCHANGED <<trades, committed, openKey>>

Leaves ==
    /\ trades' = trades \/ \E t \in Nat : trades' = Append(trades, t)
    /\ \A iv \in Ivs : openKey'[iv] = NoBar \/ openKey'[iv] = openKey[iv]
    /\ consumer' = Idle => consumer = Idle
    /\ UNCHANGED <<committed, agg>>

LEMMA OpenMoves ==
    ASSUME CandlesType, [CandlesNext]_candlesVars
    PROVE  Takes \/ ((Saves \/ Forgets \/ Restores \/ Leaves) /\ ~ApplyTrade)
<1>0. ConsumerType /\ AggType /\ OpenType /\ ClockType /\ WorkerType /\ QueueType
  BY DEF CandlesType
<1>1. CASE ApplyTrade
  <2>1. /\ consumer = Idle /\ consumer'.pc = "close" /\ committed < Len(trades)
        /\ agg' = [iv \in Ivs |-> ApplyOneInterval(iv, agg[iv], committed + 1)]
        /\ UNCHANGED <<trades, committed, openKey>>
    BY <1>1 DEF ApplyTrade
  <2>2. QED
    BY <2>1, <1>1 DEF Takes, Idle
<1>2. CASE PublishOpenBars
  <2>1. (\A iv \in Ivs : agg[iv] # NoBar) /\ ~ApplyTrade
    BY <1>2, <1>0 DEF PublishOpenBars, Saving, ConsumerType, Idle, StoppedConsumer, ApplyTrade
  <2>2. UNCHANGED <<trades, agg>>
    BY <1>2 DEF PublishOpenBars
  <2>3. StoppedConsumer # Idle
    BY DEF StoppedConsumer, Idle
  <2>4. CASE openKey' = [iv \in Ivs |-> SaveOpenBar(iv)] /\ committed' = committed + 1
    BY <2>1, <2>2, <2>4 DEF Saves
  <2>5. CASE /\ \E saved : openKey' = [iv \in Ivs |-> IF iv \in saved THEN SaveOpenBar(iv) ELSE openKey[iv]]
             /\ consumer' = StoppedConsumer /\ committed' = committed
    BY <2>1, <2>2, <2>3, <2>5 DEF Saves
  <2>6. QED
    BY <1>2, <2>4, <2>5, Zenon DEF PublishOpenBars, StoppedConsumer
<1>3. CASE Stop
  <2>1. agg' = [iv \in Ivs |-> NoBar] /\ UNCHANGED <<trades, committed, openKey>> /\ consumer' = Idle
    BY <1>3 DEF Stop
  <2>2. ~ApplyTrade
    BY <2>1 DEF ApplyTrade, Idle
  <2>3. QED
    BY <2>1, <2>2 DEF Forgets
<1>4. CASE Restore
  <2>1. agg' = [iv \in Ivs |-> ScanOpenBars(iv)] /\ UNCHANGED <<trades, committed, openKey, consumer>>
    BY <1>4 DEF Restore
  <2>2. ~ApplyTrade
    BY <1>4 DEF Restore, ApplyTrade
  <2>3. QED
    BY <2>1, <2>2 DEF Restores, ScanOpenBars, FromJSON
<1>5. CASE Trade
  <2>1. \E t \in Nat : trades' = Append(trades, t)
    <3>1. PICK t \in {x \in (now - Skew)..now : x >= 0} : trades' = Append(trades, t)
      BY <1>5 DEF Trade
    <3>2. t \in Nat
      BY CandlesAssumption, <1>0 DEF ClockType
    <3>3. QED
      BY <3>1, <3>2
  <2>2. UNCHANGED <<committed, agg, openKey, consumer>>
    BY <1>5 DEF Trade
  <2>3. ~ApplyTrade
    BY <2>2 DEF ApplyTrade, Idle
  <2>4. QED
    BY <2>1, <2>2, <2>3 DEF Leaves
<1>6. CASE InsertClosed \/ PublishClosed \/ PublishRaw
  <2>1. UNCHANGED <<trades, committed, consumer, agg>>
    BY <1>6, <1>0, WorkerSteps
  <2>2. openKey' = openKey \/ openKey' = [openKey EXCEPT ![worker.bar.iv] = NoBar]
    BY <1>6, Zenon DEF PublishClosed, InsertClosed, PublishRaw
  <2>3. \A iv \in Ivs : openKey'[iv] = NoBar \/ openKey'[iv] = openKey[iv]
    BY <2>2, <1>0 DEF OpenType
  <2>4. ~ApplyTrade
    BY <2>1 DEF ApplyTrade, Idle
  <2>5. QED
    BY <2>1, <2>3, <2>4 DEF Leaves
<1>7. CASE TakeFromQueue \/ PopPendingClosed
  <2>1. UNCHANGED <<trades, committed, consumer, agg, openKey>>
    BY <1>7, <1>0, WorkerTakes
  <2>2. ~ApplyTrade
    BY <2>1 DEF ApplyTrade, Idle
  <2>3. QED
    BY <2>1, <2>2 DEF Leaves
<1>8. CASE EnqueueClosed \/ SendToQueue
  <2>1. consumer.pc = "close" /\ UNCHANGED <<trades, committed, agg, openKey>>
    BY <1>8 DEF EnqueueClosed, SendToQueue, Closing
  <2>2. IsHanding(consumer)
    BY <2>1, <1>0 DEF ConsumerType, Idle, StoppedConsumer
  <2>3. \/ consumer' = [consumer EXCEPT !.sent = TRUE]
        \/ consumer' = [consumer EXCEPT !.k = @ + 1]
        \/ consumer' = [consumer EXCEPT !.k = @ + 1, !.sent = FALSE]
    BY <1>8 DEF EnqueueClosed, SendToQueue
  <2>4. consumer'.pc = "close"
    <3>1. PICK cl, k, se : consumer = [pc |-> "close", closed |-> cl, k |-> k, sent |-> se]
      BY <2>2 DEF IsHanding
    <3>2. QED
      BY <2>3, <3>1
  <2>5. consumer' # Idle /\ ~ApplyTrade
    BY <2>1, <2>4 DEF Idle, ApplyTrade
  <2>6. QED
    BY <2>1, <2>5 DEF Leaves
<1>9. CASE Tick \/ DrainPending \/ UNCHANGED candlesVars
  <2>1. UNCHANGED <<trades, committed, consumer, agg, openKey>>
    BY <1>9 DEF Tick, DrainPending, candlesVars
  <2>2. ~ApplyTrade
    BY <2>1 DEF ApplyTrade, Idle
  <2>3. QED
    BY <2>1, <2>2 DEF Leaves
<1>10. QED
  BY <1>1, <1>2, <1>3, <1>4, <1>5, <1>6, <1>7, <1>8, <1>9 DEF CandlesNext

LEMMA OneRowStep ==
    ASSUME CandlesType, OneRow, [CandlesNext]_candlesVars
    PROVE  OneRow'
<1>1. klines' = klines \/ klines' = Insert(klines, worker.bar)
  <2>1. WorkerType
    BY DEF CandlesType
  <2>2. CASE InsertClosed \/ PublishClosed \/ PublishRaw
    BY <2>1, <2>2, WorkerSteps
  <2>3. CASE ~(InsertClosed \/ PublishClosed \/ PublishRaw)
    BY <2>3 DEF CandlesNext, candlesVars, Tick, Trade, ApplyTrade, EnqueueClosed, SendToQueue, PublishOpenBars,
           TakeFromQueue, PopPendingClosed, Stop, Restore, DrainPending
  <2>4. QED
    BY <2>2, <2>3
<1>2. CASE klines' = klines
  BY <1>2 DEF OneRow
<1>3. CASE klines' = klines \union {worker.bar} /\ ~Has(klines, worker.bar.iv, worker.bar.start)
  <2>1. IsFiniteSet(klines')
    BY <1>3, FS_AddElement DEF OneRow
  <2>2. \A r \in klines : ~(r.iv = worker.bar.iv /\ r.start = worker.bar.start)
    BY <1>3 DEF Has
  <2>3. \A r, s \in klines' : r.iv = s.iv /\ r.start = s.start => r = s
    BY <1>3, <2>2 DEF OneRow
  <2>4. QED
    BY <2>1, <2>3 DEF OneRow
<1>4. QED
  BY <1>1, <1>2, <1>3 DEF Insert

LEMMA LaterStays ==
    ASSUME NEW ts \in Seq(Nat), NEW us \in Seq(Nat), us = ts \/ \E t \in Nat : us = Append(ts, t),
           NEW n \in Nat, NEW m \in Nat, n <= m, NEW b, LaterSeen(ts, n, b)
    PROVE  LaterSeen(us, m, b)
<1>1. PICK j \in 1..Len(ts) : j <= n /\ b.start < BucketIn(ts, b.iv, j)
  BY DEF LaterSeen
<1>2. j \in 1..Len(us) /\ us[j] = ts[j]
  <2>1. CASE us = ts
    BY <2>1
  <2>2. ASSUME NEW t \in Nat, us = Append(ts, t) PROVE j \in 1..Len(us) /\ us[j] = ts[j]
    BY <2>2
  <2>3. QED
    BY <2>1, <2>2
<1>3. BucketIn(us, b.iv, j) = BucketIn(ts, b.iv, j)
  BY <1>2 DEF BucketIn
<1>4. j <= m
  BY <1>1
<1>5. QED
  BY <1>1, <1>2, <1>3, <1>4 DEF LaterSeen

LEMMA LaterStep ==
    ASSUME CandlesType, \A b \in Known : LaterSeen(trades, committed + 1, b), [CandlesNext]_candlesVars
    PROVE  \A b \in Known' : LaterSeen(trades', committed' + 1, b)
<1>0. ClockType /\ ClockType' /\ AggType
  BY CandlesTypeStep DEF CandlesType
<1>1. trades \in Seq(Nat) /\ committed \in Nat /\ trades' \in Seq(Nat) /\ committed' \in Nat
  BY <1>0, CandlesAssumption DEF ClockType
<1>2. CASE Takes
  <2>1. trades' = trades /\ committed' = committed /\ ApplyTrade /\ committed < Len(trades)
    BY <1>2 DEF Takes
  <2>2. ASSUME NEW iv \in Ivs, agg[iv] # NoBar, BucketStart(iv, trades[committed + 1]) > agg[iv].start
        PROVE  LaterSeen(trades, committed + 1, agg[iv])
    <3>1. agg[iv].iv = iv /\ agg[iv].start \in Nat
      BY <2>2, <1>0, BarShapes, CandlesAssumption DEF AggType, OpenBar
    <3>2. committed + 1 \in 1..Len(trades)
      BY <2>1, <1>1
    <3>3. BucketIn(trades, iv, committed + 1) \in Nat
      BY <3>2, <1>0, TradesType
    <3>4. BucketIn(trades, iv, committed + 1) > agg[iv].start
      BY <2>2 DEF BucketIn
    <3>5. PICK b : b = agg[iv]
      OBVIOUS
    <3>6. PICK j \in 1..Len(trades) : j = committed + 1 /\ j <= committed + 1
      BY <3>2
    <3>7. b.start < BucketIn(trades, b.iv, j)
      BY <3>1, <3>3, <3>4, <3>5, <3>6
    <3>8. QED
      BY <3>5, <3>6, <3>7 DEF LaterSeen
  <2>3. QED
    BY <2>1, <2>2, Flow
<1>3. CASE (Saves \/ Forgets \/ Restores \/ Leaves) /\ ~ApplyTrade
  <2>1. trades' = trades \/ \E t \in Nat : trades' = Append(trades, t)
    BY <1>3 DEF Saves, Forgets, Restores, Leaves
  <2>2. committed + 1 \in Nat /\ committed' + 1 \in Nat /\ committed + 1 <= committed' + 1
    <3>1. committed' = committed \/ committed' = committed + 1
      BY <1>3 DEF Saves, Forgets, Restores, Leaves
    <3>2. PICK n \in Nat, m \in Nat : n = committed /\ m = committed'
      BY <1>1
    <3>3. m = n \/ m = n + 1
      BY <3>1, <3>2
    <3>4. n + 1 \in Nat /\ m + 1 \in Nat /\ n + 1 <= m + 1
      BY <3>3
    <3>5. QED
      BY <3>2, <3>4
  <2>3. Known' \subseteq Known
    BY <1>3, Flow
  <2>4. QED
    BY <2>1, <2>2, <2>3, <1>1, LaterStays
<1>4. QED
  BY <1>2, <1>3, OpenMoves

LEMMA SavedStep ==
    ASSUME CandlesType, OpenIsSaved, [CandlesNext]_candlesVars
    PROVE  OpenIsSaved'
<1>1. CASE Takes
  BY <1>1 DEF Takes, OpenIsSaved
<1>2. CASE Saves
  <2>1. CASE consumer' # Idle
    BY <2>1 DEF OpenIsSaved
  <2>2. CASE \A iv \in Ivs : openKey'[iv] = SaveOpenBar(iv)
    <3>1. ASSUME NEW iv \in Ivs PROVE openKey'[iv].json.bar = agg'[iv]
      <4>1. openKey'[iv] = SaveOpenBar(iv) /\ agg' = agg
        BY <1>2, <2>2 DEF Saves
      <4>2. SaveOpenBar(iv).json.bar = agg[iv]
        BY DEF SaveOpenBar, ToJSON
      <4>3. QED
        BY <4>1, <4>2
    <3>2. QED
      BY <3>1 DEF OpenIsSaved
  <2>3. QED
    BY <1>2, <2>1, <2>2 DEF Saves
<1>3. CASE Forgets
  BY <1>3 DEF Forgets, OpenIsSaved
<1>4. CASE Restores
  BY <1>4 DEF Restores, OpenIsSaved
<1>5. CASE Leaves
  BY <1>5 DEF Leaves, OpenIsSaved
<1>6. QED
  BY <1>1, <1>2, <1>3, <1>4, <1>5, OpenMoves

LEMMA ClockOrder ==
    ASSUME NEW ts \in Seq(Nat), \A i \in 1..(Len(ts) - 1) : ts[i] <= ts[i + 1],
           NEW j \in 1..Len(ts), NEW i \in 1..Len(ts), j <= i
    PROVE  ts[j] <= ts[i]
<1>1. PICK n \in Nat : n = Len(ts) /\ \A k \in 1..n : ts[k] \in Nat
  OBVIOUS
<1> DEFINE S == {d \in Nat : j + d <= n => ts[j] <= ts[j + d]}
<1>2. 0 \in S
  BY <1>1
<1>3. ASSUME NEW d \in S PROVE d + 1 \in S
  <2>1. SUFFICES ASSUME j + (d + 1) <= n PROVE ts[j] <= ts[j + (d + 1)]
    OBVIOUS
  <2>2. PICK k \in 1..(n - 1) : k = j + d /\ k + 1 = j + (d + 1)
    BY <2>1, <1>1
  <2>3. ts[j] <= ts[k] /\ ts[k] <= ts[k + 1]
    BY <2>2, <1>1
  <2>4. ts[j] \in Nat /\ ts[k] \in Nat /\ ts[k + 1] \in Nat
    BY <2>2, <1>1
  <2>5. QED
    BY <2>2, <2>3, <2>4
<1> HIDE DEF S
<1>4. S = Nat
  <2>1. S \in SUBSET Nat
    BY DEF S
  <2>2. QED
    BY <2>1, <1>2, <1>3, NatSetInduction
<1>5. i - j \in S /\ j + (i - j) = i
  BY <1>4
<1>6. QED
  BY <1>1, <1>5 DEF S

(* An open bar of a bucket, and the snapshot of one, are never of a bucket *)
(* before one that is closed.                                              *)
LEMMA NotAfterStep ==
    ASSUME CandlesType, OrderInv, [CandlesNext]_candlesVars, ClockForward'
    PROVE  \A b \in Known' : NotAfter(b)'
<1>0. ClockType /\ AggType /\ OpenType /\ CandlesType'
  BY CandlesTypeStep DEF CandlesType
<1>1. trades \in Seq(Nat) /\ committed \in Nat
  BY <1>0, CandlesAssumption DEF ClockType
<1>2. \A b \in Known : b.iv \in Ivs /\ b.start \in Nat
  BY KnownType, BarShapes, CandlesAssumption
<1>3. \A b \in Known' : b.iv \in Ivs /\ b.start \in Nat
  <2>2. Known' \subseteq Known \/ \A b \in Known' : b \in Known \/ \E iv \in Ivs : agg[iv] # NoBar /\ b = agg[iv]
    BY Flow
  <2>3. \A iv \in Ivs : agg[iv] # NoBar => agg[iv].iv \in Ivs /\ agg[iv].start \in Nat
    BY <1>0, BarShapes, CandlesAssumption DEF AggType, OpenBar
  <2>4. QED
    BY <1>2, <2>2, <2>3
<1>4. ClockForward
  <2>1. CASE trades' = trades
    BY <2>1 DEF ClockForward
  <2>2. ASSUME NEW t \in Nat, trades' = Append(trades, t) PROVE ClockForward
    <3>1. ASSUME NEW i \in 1..(Len(trades) - 1) PROVE trades[i] <= trades[i + 1]
      <4>1. i \in 1..(Len(trades') - 1)
        BY <2>2, <1>1
      <4>2. trades'[i] = trades[i] /\ trades'[i + 1] = trades[i + 1]
        BY <2>2, <1>1
      <4>3. trades'[i] <= trades'[i + 1]
        BY <4>1 DEF ClockForward
      <4>4. QED
        BY <4>2, <4>3
    <3>2. QED
      BY <3>1 DEF ClockForward
  <2>3. QED
    BY <2>1, <2>2, OpenMoves DEF Takes, Saves, Forgets, Restores, Leaves
<1>5. \A b \in Known : NotAfter(b)
  BY <1>4 DEF OrderInv
<1>6. CASE Takes
  <2>1. /\ consumer = Idle /\ committed + 1 \in 1..Len(trades) /\ ApplyTrade
        /\ agg' = [iv \in Ivs |-> ApplyOneInterval(iv, agg[iv], committed + 1)]
        /\ trades' = trades /\ openKey' = openKey
    BY <1>6, <1>1 DEF Takes
  <2>2. PICK i \in 1..Len(trades) : i = committed + 1
    BY <2>1
  <2>3. ASSUME NEW iv \in Ivs
        PROVE  \E u \in Nat :
                 /\ u = BucketIn(trades, iv, i) /\ u = BucketStart(iv, trades[i])
                 /\ agg[iv] = NoBar => agg'[iv].start = u
                 /\ agg[iv] # NoBar => /\ agg'[iv].start \in Nat /\ agg[iv].start \in Nat
                                       /\ agg[iv].start <= agg'[iv].start
                                       /\ u > agg[iv].start => agg'[iv].start = u
    <3>1. PICK u \in Nat : u = BucketIn(trades, iv, i) /\ u = BucketStart(iv, trades[i])
      BY <1>0, TradesType DEF BucketIn
    <3>2. PICK cur : cur = agg[iv] /\ (cur = NoBar \/ OpenBar(iv, cur))
      BY <1>0 DEF AggType
    <3>3. PICK new : new = ApplyOneInterval(iv, cur, i) /\ new = agg'[iv]
      BY <2>1, <2>2, <3>2
    <3>4. \/ cur = NoBar /\ new = NewFromTrade(iv, u, i)
          \/ cur # NoBar /\ u < cur.start /\ new = cur
          \/ cur # NoBar /\ u = cur.start /\ new = ApplyToBar(cur, i)
          \/ cur # NoBar /\ u > cur.start /\ new = NewFromTrade(iv, u, i)
      BY <3>1, <3>2, <3>3, <1>0, AppliedBar
    <3>5. NewFromTrade(iv, u, i).start = u
      BY DEF NewFromTrade
    <3>6. CASE cur = NoBar
      BY <3>1, <3>2, <3>3, <3>4, <3>5, <3>6
    <3>7. CASE cur # NoBar
      <4>1. PICK c \in Nat : c = cur.start
        BY <3>2, <3>7, BarShapes, CandlesAssumption DEF OpenBar
      <4>2. ApplyToBar(cur, i).start = c
        <5>1. PICK st, q : cur = [iv |-> iv, start |-> st, ids |-> q]
          BY <3>2, <3>7 DEF OpenBar, FullBar
        <5>2. QED
          BY <5>1, <4>1 DEF ApplyToBar
      <4>3. PICK n : n = new.start
        OBVIOUS
      <4>4. (u < c /\ n = c) \/ (u = c /\ n = c) \/ (u > c /\ n = u)
        BY <3>4, <3>5, <3>7, <4>1, <4>2, <4>3
      <4>5. n \in Nat /\ c <= n /\ (u > c => n = u)
        BY <4>4
      <4>6. QED
        BY <3>1, <3>2, <3>3, <3>7, <4>1, <4>3, <4>5
    <3>8. QED
      BY <3>6, <3>7
  <2>4. ASSUME NEW b \in Known PROVE NotAfter(b)'
    <3>1. PICK iv \in Ivs, s \in Nat : iv = b.iv /\ s = b.start
      BY <1>2
    <3>2. PICK u \in Nat :
                 /\ u = BucketIn(trades, iv, i) /\ u = BucketStart(iv, trades[i])
                 /\ agg[iv] = NoBar => agg'[iv].start = u
                 /\ agg[iv] # NoBar => /\ agg'[iv].start \in Nat /\ agg[iv].start \in Nat
                                       /\ agg[iv].start <= agg'[iv].start
                                       /\ u > agg[iv].start => agg'[iv].start = u
      BY <2>3
    <3>3. s < u
      <4>1. LaterSeen(trades, committed + 1, b)
        BY DEF OrderInv
      <4>2. PICK j \in 1..Len(trades) : j <= i /\ s < BucketIn(trades, iv, j)
        BY <4>1, <2>2, <3>1 DEF LaterSeen
      <4>3. trades[j] <= trades[i]
        BY <4>2, <1>1, <1>4, ClockOrder DEF ClockForward
      <4>4. PICK x \in Nat, y \in Nat : x = trades[j] /\ y = trades[i] /\ x <= y
        BY <4>3, <1>1
      <4>5. BucketStart(iv, x) \in 0..x /\ BucketStart(iv, x) <= y => BucketStart(iv, x) <= BucketStart(iv, y)
        BY <4>4, BucketOrder
      <4>6. PICK v \in 0..x : v = BucketStart(iv, x)
        BY <4>4, BucketOrder
      <4>7. v <= u
        BY <4>4, <4>5, <4>6, <3>2
      <4>8. s < v
        BY <4>2, <4>4, <4>6 DEF BucketIn
      <4>9. QED
        BY <4>7, <4>8
    <3>4. agg'[iv] # NoBar => s <= agg'[iv].start
      <4>1. CASE agg[iv] = NoBar
        BY <4>1, <3>2, <3>3
      <4>2. CASE agg[iv] # NoBar
        <5>1. PICK c \in Nat, n \in Nat : c = agg[iv].start /\ n = agg'[iv].start /\ c <= n
          BY <4>2, <3>2
        <5>2. s <= c
          BY <4>2, <5>1, <3>1, <1>5 DEF NotAfter
        <5>3. QED
          BY <5>1, <5>2
      <4>3. QED
        BY <4>1, <4>2
    <3>5. openKey'[iv] # NoBar => s <= openKey'[iv].json.bar.start
      BY <2>1, <3>1, <1>5 DEF NotAfter
    <3>6. QED
      BY <3>1, <3>4, <3>5 DEF NotAfter
  <2>5. ASSUME NEW b, NEW iv \in Ivs, b = agg[iv], agg[iv] # NoBar
        PROVE  NotAfter(b)'
    <3>1. agg[iv].iv = iv
      BY <2>5, <1>0 DEF AggType, OpenBar
    <3>2. agg[iv].start \in Nat /\ agg[iv].start <= agg'[iv].start
      BY <2>3, <2>5
    <3>3. openKey[iv] # NoBar => openKey[iv].json.bar.start = agg[iv].start
      BY <2>1, <2>5 DEF OrderInv, OpenIsSaved
    <3>4. b.iv = iv /\ b.start = agg[iv].start
      BY <2>5, <3>1
    <3>5. agg'[b.iv] # NoBar => b.start <= agg'[b.iv].start
      BY <3>2, <3>4
    <3>6. openKey'[b.iv] # NoBar => b.start <= openKey'[b.iv].json.bar.start
      BY <3>2, <3>3, <3>4, <2>1
    <3>7. QED
      BY <3>5, <3>6 DEF NotAfter
  <2>6. \A b \in Known' : b \in Known \/ \E iv \in Ivs :
           agg[iv] # NoBar /\ b = agg[iv] /\ BucketStart(iv, trades[committed + 1]) > agg[iv].start
    BY <2>1, Flow
  <2>7. ASSUME NEW b \in Known' PROVE NotAfter(b)'
    <3>1. CASE b \in Known
      BY <3>1, <2>4
    <3>2. ASSUME NEW iv \in Ivs, agg[iv] # NoBar, b = agg[iv] PROVE NotAfter(b)'
      BY <3>2, <2>5
    <3>3. QED
      BY <3>1, <3>2, <2>6
  <2>8. QED
    BY <2>7
<1>7. CASE (Saves \/ Forgets \/ Restores \/ Leaves) /\ ~ApplyTrade
  <2>1. Known' \subseteq Known
    BY <1>7, Flow
  <2>2. ASSUME NEW b \in Known PROVE NotAfter(b)'
    <3>1. PICK iv \in Ivs : iv = b.iv
      BY <1>2
    <3>2. /\ agg[iv] # NoBar => b.start <= agg[iv].start
          /\ openKey[iv] # NoBar => b.start <= openKey[iv].json.bar.start
      BY <3>1, <1>5 DEF NotAfter
    <3>3. CASE Saves
      <4>1. agg[iv] # NoBar /\ agg' = agg /\ (openKey'[iv] = SaveOpenBar(iv) \/ openKey'[iv] = openKey[iv])
        BY <3>3 DEF Saves
      <4>2. SaveOpenBar(iv).json.bar = agg[iv]
        BY DEF SaveOpenBar, ToJSON
      <4>3. QED
        BY <3>1, <3>2, <4>1, <4>2 DEF NotAfter
    <3>4. CASE Forgets
      BY <3>1, <3>2, <3>4 DEF Forgets, NotAfter
    <3>5. CASE Restores
      BY <3>1, <3>2, <3>5 DEF Restores, NotAfter
    <3>6. CASE Leaves
      BY <3>1, <3>2, <3>6 DEF Leaves, NotAfter
    <3>7. QED
      BY <1>7, <3>3, <3>4, <3>5, <3>6
  <2>3. QED
    BY <2>1, <2>2
<1>8. QED
  BY <1>6, <1>7, OpenMoves

LEMMA OrderStep ==
    ASSUME CandlesType, OrderInv, [CandlesNext]_candlesVars
    PROVE  OrderInv'
<1>1. OneRow'
  BY OneRowStep DEF OrderInv
<1>2. \A b \in Known' : LaterSeen(trades', committed' + 1, b)
  BY LaterStep DEF OrderInv
<1>3. OpenIsSaved'
  BY SavedStep DEF OrderInv
<1>4. ClockForward' => \A b \in Known' : NotAfter(b)'
  BY NotAfterStep
<1>5. QED
  BY <1>1, <1>2, <1>3, <1>4 DEF OrderInv

(* The closed bars a query lists.                                          *)
LEMMA ListedInOrder ==
    ASSUME CandlesType, OneRow, NEW iv \in Ivs
    PROVE  \E n \in Nat :
             /\ ListClosed(iv) = [k \in 1..n |-> ListClosed(iv)[k]]
             /\ \A k \in 1..n : /\ ListClosed(iv)[k] \in klines /\ ListClosed(iv)[k].iv = iv
                                /\ ListClosed(iv)[k].start \in Nat
             /\ \A k \in 1..(n - 1) : ListClosed(iv)[k].start < ListClosed(iv)[k + 1].start
<1> DEFINE rows == {r \in klines : r.iv = iv}
           latest == {r \in rows : Cardinality({q \in rows : q.start > r.start}) < Limit}
           before(r) == Cardinality({q \in latest : q.start < r.start})
           out == [k \in 1..Cardinality(latest) |-> CHOOSE r \in latest : before(r) = k - 1]
<1>1. ListClosed(iv) = out
  BY DEF ListClosed
<1>2. /\ latest \subseteq klines /\ \A r \in latest : r.iv = iv /\ r.start \in Nat
      /\ \A r, q \in latest : r.start = q.start => r = q
  <2>1. klines \subseteq FullBar
    BY DEF CandlesType, StoreType
  <2>2. QED
    BY <2>1, BarShapes, CandlesAssumption DEF OneRow
<1>3. IsFiniteSet(latest)
  BY <1>2, FS_Subset DEF OneRow
<1> HIDE DEF rows, latest
<1>4. PICK n \in Nat : n = Cardinality(latest)
  BY <1>3, FS_CardinalityType
<1> DEFINE startOf == [r \in latest |-> r.start]
<1>5. startOf \in [latest -> Nat] /\ DOMAIN startOf = latest /\ \A r \in latest : startOf[r] = r.start
  BY <1>2
<1> HIDE DEF startOf
<1>6. \A r \in latest : before(r) = Cardinality(Below(startOf, r.start)) /\ before(r) \in Nat
  <2>1. ASSUME NEW r \in latest PROVE before(r) = Cardinality(Below(startOf, r.start)) /\ before(r) \in Nat
    <3>1. {q \in latest : q.start < r.start} = Below(startOf, r.start)
      BY <1>5 DEF Below
    <3>2. Cardinality(Below(startOf, r.start)) \in Nat
      BY <1>2, <1>3, <1>5, PartsFinite
    <3>3. QED
      BY <3>1, <3>2
  <2>2. QED
    BY <2>1
<1>7. ASSUME NEW k \in 1..n PROVE \E r \in latest : before(r) = k - 1
  <2>1. PICK p \in ValuesOf(startOf) : Cardinality(Below(startOf, p)) < k /\ Cardinality(AtMost(startOf, p)) >= k
    BY <1>3, <1>4, <1>5, RankedExists
  <2>2. PICK r \in latest : p = r.start
    BY <2>1, <1>5 DEF ValuesOf
  <2>3. AtMost(startOf, p) = Below(startOf, p) \union {r} /\ r \notin Below(startOf, p)
    <3>1. ASSUME NEW q \in latest PROVE q.start <= p <=> (q.start < p \/ q = r)
      BY <2>2, <1>2
    <3>2. QED
      BY <3>1, <2>2, <1>5, <1>2 DEF AtMost, Below
  <2>4. p \in Nat /\ IsFiniteSet(Below(startOf, p)) /\ Cardinality(Below(startOf, p)) \in Nat
    BY <2>2, <1>2, <1>3, <1>5, PartsFinite
  <2>5. Cardinality(AtMost(startOf, p)) = Cardinality(Below(startOf, p)) + 1
    BY <2>3, <2>4, FS_AddElement
  <2>6. PICK m \in Nat : m = Cardinality(Below(startOf, p)) /\ m < k /\ m + 1 >= k
    BY <2>1, <2>4, <2>5
  <2>7. before(r) = m
    BY <2>2, <2>6, <1>6
  <2>8. m = k - 1
    BY <2>6
  <2>9. before(r) = k - 1
    BY <2>7, <2>8
  <2>10. QED
    BY <2>2, <2>9, Zenon
<1>8. ASSUME NEW k \in 1..n PROVE out[k] \in latest /\ before(out[k]) = k - 1
  <2>1. out[k] = CHOOSE r \in latest : before(r) = k - 1
    BY <1>4
  <2>2. QED
    BY <2>1, <1>7
<1>9. ASSUME NEW k \in 1..(n - 1) PROVE out[k].start < out[k + 1].start
  <2>1. k \in 1..n /\ k + 1 \in 1..n
    OBVIOUS
  <2>2. PICK r \in latest, q \in latest : r = out[k] /\ q = out[k + 1] /\ before(r) = k - 1 /\ before(q) = (k + 1) - 1
    BY <2>1, <1>8
  <2>3. SUFFICES ASSUME q.start <= r.start PROVE FALSE
    BY <2>2, <1>2
  <2>4. Below(startOf, q.start) \subseteq Below(startOf, r.start)
    BY <2>3, <1>2, <1>5 DEF Below
  <2>5. IsFiniteSet(Below(startOf, r.start))
    BY <1>2, <1>3, <1>5, PartsFinite
  <2>6. Cardinality(Below(startOf, q.start)) <= Cardinality(Below(startOf, r.start))
    BY <2>4, <2>5, FS_Subset
  <2>7. before(q) <= before(r)
    BY <2>6, <1>6
  <2>8. QED
    BY <2>2, <2>7
<1> HIDE DEF before
<1>10. out = [k \in 1..n |-> out[k]]
  BY <1>4
<1> HIDE DEF out
<1>11. QED
  BY <1>1, <1>2, <1>8, <1>9, <1>10

(* What a query answers is in strictly increasing order of open times: for *)
(* any trades whose times do not step back, any intervals, limit and queue *)
(* size, and any failures, stops and restarts, also where an old open bar  *)
(* comes back next to its stored copy (GetKlines, ScanOpenBars).           *)
THEOREM ServedSorted == CandlesSpec => []ServedInOrder
<1>1. CandlesInit => OrderInv
  <2>1. SUFFICES ASSUME CandlesInit PROVE OrderInv
    OBVIOUS
  <2>2. Known = {}
    BY <2>1 DEF CandlesInit, Known, Listed, Queued, Held, Handed, Idle, NoWork
  <2>3. OneRow
    BY <2>1, FS_EmptySet DEF CandlesInit, OneRow
  <2>4. OpenIsSaved
    BY <2>1 DEF CandlesInit, OpenIsSaved
  <2>5. QED
    BY <2>2, <2>3, <2>4 DEF OrderInv
<1>2. CandlesType /\ OrderInv /\ [CandlesNext]_candlesVars => OrderInv'
  BY OrderStep
<1>3. CandlesType /\ OrderInv => ServedInOrder
  <2>1. SUFFICES ASSUME CandlesType, OrderInv, ClockForward, NEW iv \in Ivs, NEW k \in 1..(Len(GetKlines(iv)) - 1)
                 PROVE  GetKlines(iv)[k].start < GetKlines(iv)[k + 1].start
    BY DEF ServedInOrder, ClockForward
  <2>2. PICK n \in Nat :
             /\ ListClosed(iv) = [m \in 1..n |-> ListClosed(iv)[m]]
             /\ \A m \in 1..n : /\ ListClosed(iv)[m] \in klines /\ ListClosed(iv)[m].iv = iv
                                /\ ListClosed(iv)[m].start \in Nat
             /\ \A m \in 1..(n - 1) : ListClosed(iv)[m].start < ListClosed(iv)[m + 1].start
    BY <2>1, ListedInOrder DEF OrderInv
  <2>3. PICK s : s = ListClosed(iv)
    OBVIOUS
  <2>4. s \in Seq({s[m] : m \in 1..n}) /\ Len(s) = n
    BY <2>2, <2>3
  <2>5. CASE GetKlines(iv) = s
    BY <2>1, <2>2, <2>3, <2>4, <2>5
  <2>6. CASE /\ agg[iv] # NoBar /\ GetKlines(iv) = Append(s, agg[iv])
             /\ ~(s # <<>> /\ SameOpenTime(Last(s), agg[iv]))
    <3>1. k \in 1..n
      BY <2>1, <2>4, <2>6
    <3>2. CASE k < n
      <4>1. k \in 1..(n - 1) /\ GetKlines(iv)[k] = s[k] /\ GetKlines(iv)[k + 1] = s[k + 1]
        BY <2>4, <2>6, <3>1, <3>2
      <4>2. QED
        BY <4>1, <2>2, <2>3
    <3>3. CASE k = n
      <4>1. GetKlines(iv)[k] = s[n] /\ GetKlines(iv)[k + 1] = agg[iv]
        BY <2>4, <2>6, <3>1, <3>3
      <4>2. s # <<>> /\ Last(s) = s[n]
        BY <2>4, <3>1, <3>3 DEF Last
      <4>3. s[n].start # agg[iv].start
        BY <2>6, <4>2 DEF SameOpenTime
      <4>4. s[n] \in Known /\ s[n].iv = iv /\ s[n].start \in Nat
        BY <2>2, <2>3, <3>1, <3>3 DEF Known
      <4>5. s[n].start <= agg[iv].start
        BY <2>1, <2>6, <4>4 DEF OrderInv, NotAfter
      <4>6. agg[iv].start \in Nat
        BY <2>1, <2>6, BarShapes, CandlesAssumption DEF CandlesType, AggType, OpenBar
      <4>7. QED
        BY <4>1, <4>3, <4>4, <4>5, <4>6
    <3>4. QED
      BY <3>1, <3>2, <3>3
  <2>7. QED
    BY <2>3, <2>5, <2>6 DEF GetKlines
<1>4. QED
  BY <1>1, <1>2, <1>3, CandlesTypeHolds, PTL DEF CandlesSpec

(* Every variable holds a value of its type, the open bars and those that  *)
(* wait, are worked on or are stored among them.                           *)
THEOREM CandlesTyped == CandlesSpec => []TypeOK
<1>1. CandlesType => TypeOK
  <2>1. SUFFICES ASSUME CandlesType PROVE TypeOK
    OBVIOUS
  <2>2. FullBar \subseteq Bar /\ FullBar \union {NoBar} = Bar
    BY DEF FullBar, Bar
  <2>3. consumer.pc \in {"idle", "close", "stopped"} /\ worker.pc \in {"idle", "insert", "publish", "kafka"}
    BY <2>1 DEF CandlesType, ConsumerType, WorkerType, Idle, StoppedConsumer, NoWork, IsHanding, IsWorking
  <2>4. agg \in [Ivs -> Bar] /\ \A iv \in Ivs : openKey[iv] = NoBar \/ openKey[iv].json.bar \in Bar
    BY <2>1, <2>2 DEF CandlesType, AggType, OpenType, SavedBar, OpenBar
  <2>5. \A k \in DOMAIN pending : pending[k] = ToJSON(pending[k].bar, TRUE)
    <3> DEFINE W == [bar : FullBar, isClosed : {TRUE}]
    <3>1. pending \in Seq(W)
      BY <2>1 DEF CandlesType, QueueType
    <3>2. ASSUME NEW x \in W PROVE x = ToJSON(x.bar, TRUE)
      <4>1. PICK b \in FullBar : x = [bar |-> b, isClosed |-> TRUE]
        OBVIOUS
      <4>2. QED
        BY <4>1 DEF ToJSON
    <3> HIDE DEF W
    <3>3. \A k \in DOMAIN pending : pending[k] \in W
      BY <3>1
    <3>4. QED
      BY <3>2, <3>3
  <2>6. ch \in Seq(Bar) /\ Len(ch) <= QueueSize
    BY <2>1, <2>2 DEF CandlesType, QueueType
  <2>7. klines \subseteq Bar /\ raw \subseteq Bar /\ lost \subseteq Bar
    BY <2>1, <2>2 DEF CandlesType, StoreType
  <2>8. /\ now \in 0..MaxTime /\ trades \in Seq(0..MaxTime) /\ committed \in 0..Len(trades)
        /\ phase \in {"down", "drain", "run"}
    BY <2>1 DEF CandlesType, ClockType, PhaseType
  <2>9. QED
    BY <2>3, <2>4, <2>5, <2>6, <2>7, <2>8 DEF TypeOK
<1>2. QED
  BY <1>1, CandlesTypeHolds, PTL
=============================================================================
