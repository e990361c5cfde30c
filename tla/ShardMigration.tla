--------------------------- MODULE ShardMigration ---------------------------
(***************************************************************************)
(* The shard manager (pkg/shardmgr), how the order service and the         *)
(* matching shards use it, and the check of a starting shard against the   *)
(* order database (internal/matching/shardbind, recovery/verify.go).       *)
(*                                                                         *)
(* Every process builds its own manager from shards.json when it starts;   *)
(* the order service runs in several pods that share one outbox.           *)
(* StartMigration, SetMigrationPhase and CompleteMigration have no caller  *)
(* in the services: they say here how the operator changes the file.  He   *)
(* follows the runbook of system-architecture-interview.md (Q62): he waits *)
(* for the commands of the symbol to be consumed, copies its book to the   *)
(* new shard and starts that shard for it.  The Trading Gate of the        *)
(* runbook is not implemented: new orders stop while the phase in the file *)
(* says so, in the pods that have read it.                                 *)
(*                                                                         *)
(* Where the runbook, the pods or the Kafka client leave a step open, the  *)
(* model takes it and notes it in "breaches"; what holds only without a    *)
(* breach says so.  Rows leave the outbox in order (OrderDispatch is about *)
(* the ones that do not), a shard stops and starts with its books intact   *)
(* (DurableShard is about crashes), and what a new order meets in the book *)
(* is a choice (Matcher).                                                  *)
(***************************************************************************)
EXTENDS OrderStatus, Integers, Sequences, SequencesExt, FiniteSets

CONSTANTS Pods,         \* of the order service
          Symbols, Shards,
          Routes,       \* Route: a shard and its partition
          Home,         \* the "shards" section of shards.json
          Orders, SymbolOf,
          Asked,        \* the shards the reconciler of a pod asks: the configured one, or
                        \* none where the connection failed
          Allowed,      \* the breaches an instance takes, of those below
          MaxMigrations, MaxCancels, MaxStarts    \* bounds

ASSUME ShardMigrationAssumption ==
    /\ \A r \in Routes : r.shard \in Shards
    /\ Home \in [Symbols -> Routes]
    /\ SymbolOf \in [Orders -> Symbols] /\ IsFiniteSet(Orders)
    /\ Pods # {} /\ Asked \in [Pods -> SUBSET Shards] /\ Allowed \subseteq {"hasty", "early", "astray"}
    /\ MaxMigrations \in Nat /\ MaxCancels \in Nat /\ MaxStarts \in Nat

VARIABLES file,      \* what shards.json says, as a manager
          router,    \* the manager of each pod
          shard,     \* of each shard: its manager, and the read-only symbols
          copied,    \* the symbols whose book was copied, with the shard it was copied to
          status,    \* orders.status
          outbox,    \* order_outbox: commands not yet sent
          queue,     \* order.commands, one partition per route
          book,      \* of each shard: the orders resting
          seen,      \* of each shard: Engine.seen
          events,    \* match.events not yet applied
          breaches,  \* history: what was not waited for, or went astray
          migrations, cancels, starts

processes == <<router, shard>>
work == <<status, outbox, queue, book, seen, events, cancels>>
vars == <<file, router, shard, copied, status, outbox, queue, book, seen, events,
          breaches, migrations, cancels, starts>>

-----------------------------------------------------------------------------
(* The manager.                                                            *)

PhaseOrder == <<"halt_only_cancel", "halt_no_write", "drain", "cutover", "complete">>

Phases == {PhaseOrder[i] : i \in 1..5}

Migration == [from : Routes, to : Routes, phase : Phases]

Migrating(m, sym) == sym \in DOMAIN m.migs

InPhase(m, sym, phases) == Migrating(m, sym) /\ m.migs[sym].phase \in phases

WithMigration(m, sym, mig) ==
    [m EXCEPT !.migs = [x \in DOMAIN m.migs \union {sym} |-> IF x = sym THEN mig ELSE m.migs[x]]]

(* addShardDef, NewFromConfig: the index follows from the routes.          *)
IndexOf(routes) == [s \in Shards |-> {sym \in Symbols : routes[sym].shard = s}]

(* LoadFile of a file without a migration in phase "complete": for that    *)
(* one applyMigrationDef completes a migration that is not there and       *)
(* fails.                                                                  *)
LoadFile(f) == [routes |-> f.routes, index |-> IndexOf(f.routes), migs |-> f.migs]

Loadable(f) == \A sym \in DOMAIN f.migs : f.migs[sym].phase # "complete"

CanStartMigration(m, sym, to) == ~Migrating(m, sym) /\ to # m.routes[sym]

StartMigration(m, sym, to) ==
    WithMigration(m, sym, [from |-> m.routes[sym], to |-> to, phase |-> "halt_only_cancel"])

(* Mutant: the symbol stays in the list of its old shard.                  *)
RebuildAppendOnly(m, sym) ==
    [m.index EXCEPT ![m.migs[sym].to.shard] = @ \union {sym}]

RebuildShardIndex(m, sym) ==
    LET removed == [m.index EXCEPT ![m.migs[sym].from.shard] = @ \ {sym}]
    IN  [removed EXCEPT ![m.migs[sym].to.shard] = @ \union {sym}]

CompleteMigration(m, sym) ==
    [routes |-> [m.routes EXCEPT ![sym] = m.migs[sym].to],
     index |-> RebuildShardIndex(m, sym),
     migs |-> [x \in DOMAIN m.migs \ {sym} |-> m.migs[x]]]

(* SetMigrationPhase: the next phase; "complete" is taken from any.        *)
CanSetPhase(m, sym, phase) ==
    /\ Migrating(m, sym)
    /\ \/ phase = "complete"
       \/ \E i \in 1..3 : m.migs[sym].phase = PhaseOrder[i] /\ phase = PhaseOrder[i + 1]

SetMigrationPhase(m, sym, phase) ==
    IF phase = "complete" THEN CompleteMigration(m, sym)
    ELSE WithMigration(m, sym, [m.migs[sym] EXCEPT !.phase = phase])

(* CommandRoute: the target from the cutover on.                           *)
CommandRoute(m, sym) ==
    IF Migrating(m, sym)
    THEN IF InPhase(m, sym, {"cutover", "complete"}) THEN m.migs[sym].to ELSE m.migs[sym].from
    ELSE m.routes[sym]

(* Mutant: new orders are taken again while the old shard drains.          *)
AssertPlaceOrderDraining(m, sym) == ~InPhase(m, sym, {"halt_only_cancel", "halt_no_write"})

AssertPlaceOrder(m, sym) == ~InPhase(m, sym, {"halt_only_cancel", "halt_no_write", "drain"})

AssertCancelOrder(m, sym) == ~InPhase(m, sym, {"halt_no_write"})

(* ValidateLocalShard for one symbol of the shard's rules.                 *)
ValidLocally(m, s, sym) ==
    \/ m.routes[sym].shard = s
    \/ InPhase(m, sym, {"cutover"}) /\ m.migs[sym].to.shard = s

ShouldSymbolReadOnly(m, sym, s) ==
    InPhase(m, sym, {"drain", "cutover"}) /\ m.migs[sym].from.shard = s

-----------------------------------------------------------------------------
(* The check of a starting shard against the database (verifySymbol).      *)

OrdersOf(sym) == {o \in Orders : SymbolOf[o] = sym}

(* ListReconcileOrders: the open orders the check starts from.             *)
ListReconcileOrders(sym) == {o \in OrdersOf(sym) : status[o] \in {"PENDING", "PARTIAL"}}

InOrderbook(s, o) == o \in seen[s] /\ o \in book[s]

(* Mutant: an order that waits for its first event counts as missing.      *)
DBOnlyMismatchPending(s, o) == status[o] \in {"PENDING", "PARTIAL"}

IsDBOnlyMismatch(s, o) == status[o] = "PARTIAL" \/ (status[o] = "PENDING" /\ InOrderbook(s, o))

(* GetOrderStatuses: an order the database does not know is not in the     *)
(* answer.                                                                 *)
GetOrderStatuses(os) == [o \in {x \in os : status[x] # "none"} |-> status[o]]

IsBookOnlyMismatch(o) ==
    LET st == GetOrderStatuses({o})
    IN  o \notin DOMAIN st \/ st[o] \in Terminal \union {"PENDING", "PARTIAL"}

(* ActiveOrderIDs: the orders of the symbol resting on the shard.          *)
ActiveOrderIDs(s, sym) == book[s] \intersect OrdersOf(sym)

SymbolDiff(s, sym) ==
    {o \in ListReconcileOrders(sym) \ ActiveOrderIDs(s, sym) : IsDBOnlyMismatch(s, o)}
        \union {o \in ActiveOrderIDs(s, sym) \ ListReconcileOrders(sym) : IsBookOnlyMismatch(o)}

-----------------------------------------------------------------------------
Down == [up |-> FALSE, symbols |-> {}, readOnly |-> {}]

(* The shard's rules list the symbols it may serve; the new shard's rules  *)
(* list the symbol once its book was copied.                               *)
RulesFor(s) == {sym \in Symbols : /\ ValidLocally(file, s, sym)
                                  /\ CommandRoute(file, sym).shard = s =>
                                        Home[sym].shard = s \/ <<sym, s>> \in copied}

ReadOnlyAtStart(s) ==
    {sym \in RulesFor(s) : ShouldSymbolReadOnly(file, sym, s) \/ SymbolDiff(s, sym) # {}}

Started(s) == [up |-> TRUE, symbols |-> RulesFor(s), readOnly |-> ReadOnlyAtStart(s),
               mgr |-> LoadFile(file)]

Init ==
    /\ file = [routes |-> Home, index |-> IndexOf(Home), migs |-> [x \in {} |-> 0]]
    /\ router = [p \in Pods |-> file]
    /\ shard = [s \in Shards |->
                  IF \E sym \in Symbols : Home[sym].shard = s
                  THEN [up |-> TRUE, symbols |-> {sym \in Symbols : Home[sym].shard = s},
                        readOnly |-> {}, mgr |-> file]
                  ELSE Down]
    /\ copied = {}
    /\ status = [o \in Orders |-> "none"]
    /\ outbox = <<>>
    /\ queue = [r \in Routes |-> <<>>]
    /\ book = [s \in Shards |-> {}]
    /\ seen = [s \in Shards |-> {}]
    /\ events = <<>>
    /\ breaches = {}
    /\ migrations = 0 /\ cancels = 0 /\ starts = 0

-----------------------------------------------------------------------------
(* The operator.                                                           *)

(* Every process has read the file.                                        *)
Settled == /\ \A p \in Pods : router[p] = LoadFile(file)
           /\ \A s \in Shards : shard[s].up => shard[s].mgr = LoadFile(file)

Note(breach, happened) ==
    IF happened THEN breach \in Allowed /\ breaches' = breaches \union {breach}
    ELSE UNCHANGED breaches

NewCommands(cmds, sym) ==
    {i \in DOMAIN cmds : cmds[i].kind = "New" /\ SymbolOf[cmds[i].id] = sym}

Commands(cmds, sym) == {i \in DOMAIN cmds : SymbolOf[cmds[i].id] = sym}

(* The new shard is started for the symbol, and for no other one.          *)
Begin(sym, to) ==
    /\ migrations < MaxMigrations
    /\ shard[to.shard] = Down
    /\ \A x \in DOMAIN file.migs : file.migs[x].to.shard # to.shard
    /\ CanStartMigration(file, sym, to)
    /\ file' = StartMigration(file, sym, to)
    /\ migrations' = migrations + 1
    /\ UNCHANGED <<processes, copied, work, breaches, starts>>

(* Step 2 of the runbook: no new order is under way when the old shard     *)
(* stops taking them.                                                      *)
Quiet(sym, phase) ==
    phase = "drain" => /\ NewCommands(outbox, sym) = {}
                       /\ NewCommands(queue[file.migs[sym].from], sym) = {}

(* The runbook does not say that the processes must have read the last     *)
(* phase before the next one.                                              *)
Advance(sym) ==
    /\ Note("hasty", ~Settled)
    /\ \E phase \in Phases :
         /\ CanSetPhase(file, sym, phase)
         /\ phase = "complete" => InPhase(file, sym, {"cutover"}) /\ shard[file.migs[sym].to.shard].up
         /\ Quiet(sym, phase)
         /\ file' = SetMigrationPhase(file, sym, phase)
    /\ UNCHANGED <<processes, copied, work, migrations, starts>>

(* The snapshot of the book goes to the new shard once commands are routed *)
(* there and the old shard has nothing left to read.  Engine.seen is built *)
(* from the shard's own log and does not know the orders.                  *)
CopyBook(sym) ==
    /\ InPhase(file, sym, {"cutover"}) /\ Note("hasty", ~Settled)
    /\ LET mig == file.migs[sym]
       IN  /\ <<sym, mig.to.shard>> \notin copied
           /\ Commands(queue[mig.from], sym) = {}
           /\ book' = [book EXCEPT ![mig.to.shard] =
                          @ \union (book[mig.from.shard] \intersect OrdersOf(sym))]
           /\ copied' = copied \union {<<sym, mig.to.shard>>}
    /\ UNCHANGED <<file, processes, status, outbox, queue, seen, events, migrations, cancels,
                   starts>>

(* Processes start, and start again, at any time.                          *)
StartOrderService(p) ==
    /\ Loadable(file)
    /\ router[p] # LoadFile(file)
    /\ router' = [router EXCEPT ![p] = LoadFile(file)]
    /\ UNCHANGED <<file, shard, copied, work, breaches, migrations, starts>>

StartShard(s) ==
    /\ Loadable(file) /\ RulesFor(s) # {}
    /\ shard[s].up => shard[s].mgr # LoadFile(file) \/ starts < MaxStarts
    /\ starts' = IF shard[s].up /\ shard[s].mgr = LoadFile(file) THEN starts + 1 ELSE starts
    /\ shard' = [shard EXCEPT ![s] = Started(s)]
    /\ UNCHANGED <<file, router, copied, work, breaches, migrations>>

-----------------------------------------------------------------------------
(* Orders.                                                                 *)

(* The pods route the symbol alike.                                        *)
PodsAgree(sym) == \A p, q \in Pods : CommandRoute(router[p], sym) = CommandRoute(router[q], sym)

Place(p, o) ==
    /\ status[o] = "none"
    /\ AssertPlaceOrder(router[p], SymbolOf[o])
    /\ status' = [status EXCEPT ![o] = "PENDING"]
    /\ outbox' = Append(outbox, [kind |-> "New", id |-> o])
    /\ Note("early", ~PodsAgree(SymbolOf[o]))
    /\ UNCHANGED <<file, processes, copied, queue, book, seen, events, migrations, cancels,
                   starts>>

CancelRow(o) == outbox' = Append(outbox, [kind |-> "Cancel", id |-> o])

Cancel(p, o) ==
    /\ cancels < MaxCancels /\ cancels' = cancels + 1
    /\ status[o] # "CANCELING" /\ CanTransition(status[o], "CANCELING")
    /\ AssertCancelOrder(router[p], SymbolOf[o])
    /\ status' = [status EXCEPT ![o] = "CANCELING"]
    /\ CancelRow(o)
    /\ UNCHANGED <<file, processes, copied, queue, book, seen, events, breaches, migrations,
                   starts>>

Waiting(kind, o) == \E i \in DOMAIN outbox : outbox[i] = [kind |-> kind, id |-> o]

(* The reconciler of a pod, after a time without an answer, for an order   *)
(* whose command was sent (FindStalePendingForReject) ...                  *)
RejectStalePending(p, o) ==
    /\ status[o] = "PENDING" /\ ~Waiting("New", o)
    /\ \A s \in Asked[p] : shard[s].up /\ o \notin seen[s]
    /\ status' = [status EXCEPT ![o] = "REJECTED"]
    /\ CancelRow(o)
    /\ UNCHANGED <<file, processes, copied, queue, book, seen, events, breaches, migrations,
                   cancels, starts>>

(* ... and for one whose cancel was (FindStuckCancelingForResend).         *)
ResendCancelCommand(o) ==
    /\ cancels < MaxCancels /\ cancels' = cancels + 1
    /\ status[o] = "CANCELING" /\ ~Waiting("Cancel", o)
    /\ CancelRow(o)
    /\ UNCHANGED <<file, processes, copied, status, queue, book, seen, events, breaches,
                   migrations, starts>>

IsSendableStatus(st) == st \in {"PENDING", "CANCELING"}

(* The relay of a pod asks for the partition when it sends                 *)
(* (PartitionForSymbol); the writer it hands it to has a balancer of its   *)
(* own, which may choose another.                                          *)
SendCommand(p) ==
    /\ outbox # <<>>
    /\ LET cmd == Head(outbox)
           named == CommandRoute(router[p], SymbolOf[cmd.id])
       IN  \E to \in Routes :
             /\ IsSendableStatus(status[cmd.id])
             /\ queue' = [queue EXCEPT ![to] = Append(@, cmd)]
             /\ Note("astray", to # named)
    /\ outbox' = Tail(outbox)
    /\ UNCHANGED <<file, processes, copied, status, book, seen, events, migrations, cancels,
                   starts>>

(* The row of an order that is past sending is marked published unsent.    *)
SkipCommand ==
    /\ outbox # <<>> /\ ~IsSendableStatus(status[Head(outbox).id])
    /\ outbox' = Tail(outbox)
    /\ UNCHANGED <<file, processes, copied, status, queue, book, seen, events, breaches,
                   migrations, cancels, starts>>

Ev(o, type) == [id |-> o, type |-> type]

(* Mutant: a taker that traded is reported filled, also when it rests.     *)
TakerFilledEvents(o, hit, left, rests) ==
    <<Ev(o, "ACCEPTED")>>
        \o [i \in DOMAIN hit |-> Ev(hit[i], IF left /\ i = Len(hit) THEN "PARTIAL" ELSE "FILLED")]
        \o IF hit = <<>> THEN <<>> ELSE <<Ev(o, "FILLED")>>

(* The taker is accepted, makers are filled one after the other, the last  *)
(* of them perhaps in part, then the taker is: it stays on the book only   *)
(* when no maker did.                                                      *)
BuildNewOrderEvents(o, hit, left, rests) ==
    <<Ev(o, "ACCEPTED")>>
        \o [i \in DOMAIN hit |-> Ev(hit[i], IF left /\ i = Len(hit) THEN "PARTIAL" ELSE "FILLED")]
        \o IF hit = <<>> THEN <<>> ELSE <<Ev(o, IF rests THEN "PARTIAL" ELSE "FILLED")>>

NewOrder(s, o) ==
    /\ seen' = [seen EXCEPT ![s] = @ \union {o}]
    /\ \E hit \in SetToAllKPermutations({m \in book[s] : SymbolOf[m] = SymbolOf[o]}),
          left, rests \in BOOLEAN :
         /\ left => hit # <<>> /\ ~rests
         /\ book' = [book EXCEPT ![s] =
                        (@ \ {hit[i] : i \in 1..(IF left THEN Len(hit) - 1 ELSE Len(hit))})
                            \union (IF rests THEN {o} ELSE {})]
         /\ events' = events \o BuildNewOrderEvents(o, hit, left, rests)

(* A shard reads its partition; a new order of a read-only symbol, or one  *)
(* seen before, is dropped.                                                *)
Consume(s, r) ==
    /\ shard[s].up /\ r.shard = s /\ queue[r] # <<>>
    /\ LET cmd == Head(queue[r]) IN
         \/ /\ cmd.kind = "New"
            /\ SymbolOf[cmd.id] \notin shard[s].readOnly /\ cmd.id \notin seen[s]
            /\ NewOrder(s, cmd.id)
         \/ /\ cmd.kind = "New"
            /\ SymbolOf[cmd.id] \in shard[s].readOnly \/ cmd.id \in seen[s]
            /\ UNCHANGED <<book, seen, events>>
         \/ /\ cmd.kind = "Cancel"
            /\ book' = [book EXCEPT ![s] = @ \ {cmd.id}]
            /\ events' = Append(events, Ev(cmd.id, "CANCELED"))
            /\ UNCHANGED seen
    /\ queue' = [queue EXCEPT ![r] = Tail(@)]
    /\ UNCHANGED <<file, processes, copied, status, outbox, breaches, migrations, cancels, starts>>

ApplyEvent ==
    /\ events # <<>>
    /\ LET ev == Head(events)
       IN  \/ status[ev.id] \in Terminal /\ UNCHANGED status
          \/ /\ status[ev.id] \notin Terminal /\ CanTransition(status[ev.id], ev.type)
             /\ status' = [status EXCEPT ![ev.id] = ev.type]
    /\ events' = Tail(events)
    /\ UNCHANGED <<file, processes, copied, outbox, queue, book, seen, breaches, migrations,
                   cancels, starts>>

Next ==
    \/ \E sym \in Symbols, to \in Routes : Begin(sym, to)
    \/ \E sym \in Symbols : Advance(sym) \/ CopyBook(sym)
    \/ \E p \in Pods : StartOrderService(p) \/ SendCommand(p)
    \/ \E s \in Shards : StartShard(s)
    \/ \E p \in Pods, o \in Orders : Place(p, o) \/ Cancel(p, o) \/ RejectStalePending(p, o)
    \/ \E o \in Orders : ResendCancelCommand(o)
    \/ SkipCommand
    \/ \E s \in Shards, r \in Routes : Consume(s, r)
    \/ ApplyEvent

Spec == Init /\ [][Next]_vars

-----------------------------------------------------------------------------
(* In every manager a shard's list holds exactly the symbols routed to it, *)
(* however migrations of several symbols start, advance and complete       *)
(* (rebuildShardIndex).                                                    *)
ManagerAgrees(m) == \A s \in Shards : m.index[s] = {sym \in Symbols : m.routes[sym].shard = s}

IndexAgrees ==
    /\ ManagerAgrees(file) /\ \A p \in Pods : ManagerAgrees(router[p])
    /\ \A s \in Shards : shard[s].up => ManagerAgrees(shard[s].mgr)

(* "禁止迁移窗口内两 shard 同时消费同一 symbol": at no time do new orders of a symbol    *)
(* wait for two shards, no order is matched on two, and no running shard   *)
(* is sent one of a symbol it does not serve (it would stop on it).        *)
RedLine ==
    /\ \A sym \in Symbols, r1, r2 \in Routes :
         r1.shard # r2.shard => NewCommands(queue[r1], sym) = {} \/ NewCommands(queue[r2], sym) = {}
    /\ \A s1, s2 \in Shards : s1 # s2 => seen[s1] \intersect seen[s2] = {}
    /\ \A r \in Routes, sym \in Symbols :
         (shard[r.shard].up /\ NewCommands(queue[r], sym) # {}) => sym \in shard[r.shard].symbols

(* The red line holds as long as the operator waits for every process to   *)
(* read each phase, no order is admitted while pods route its symbol       *)
(* differently, and commands reach the partition they were meant for: with *)
(* any number of pods on one outbox, whatever restarts when, and however   *)
(* long commands, rows and events wait.                                    *)
OneShardMatches == breaches = {} => RedLine

(* The runbook followed and every process waited for: no more is asked of  *)
(* the operator.                                                           *)
RunbookKeepsRedLine == "hasty" \notin breaches => RedLine

(* A shard that starts with no event under way finds no order on which its *)
(* book and the database differ, other than one the reconciler rejected    *)
(* while its command was waiting: what the shard was sent, and the book it *)
(* was handed over, agree with the order service (verifySymbol).  With an  *)
(* event under way it may: the symbol is then read-only until the next     *)
(* start.                                                                  *)
NoFalseMismatch ==
    (breaches = {} /\ events = <<>>) =>
        \A s \in Shards : \A sym \in RulesFor(s) :
            CommandRoute(file, sym).shard = s =>
                SymbolDiff(s, sym) \subseteq {o \in Orders : status[o] = "REJECTED"}

(* "必须按序" (SetMigrationPhase): a migration goes through all its phases.    *)
PhasesInOrder ==
    \A sym \in Symbols, phase \in Phases :
        CanSetPhase(file, sym, phase) => phase # "complete" \/ InPhase(file, sym, {"cutover"})
=============================================================================
