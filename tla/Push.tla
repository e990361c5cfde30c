-------------------------------- MODULE Push --------------------------------
(***************************************************************************)
(* The push service (internal/push, cmd/push/main.go): the WebSocket       *)
(* handshake and its connection limit, subscribing with a snapshot read    *)
(* from Redis, the fan-out of Redis messages to the clients' queues, and   *)
(* the writing of the queues.                                              *)
(*                                                                         *)
(* All connections belong to one subject.  A channel is a stream of        *)
(* versions and has a snapshot key the producer sets before it publishes   *)
(* (ticker:{symbol}, ticker@all:{quote}); every frame carries the version  *)
(* it leads to.  depth:{symbol} is not of this kind: its key is set once,  *)
(* with the first snapshot.  Whether a frame arrives is up to the patterns *)
(* of the fan-out's PSUBSCRIBE and to Redis, which may be out of reach.    *)
(***************************************************************************)
EXTENDS Integers, Sequences, SequencesExt, FiniteSetsExt, Subsequence

CONSTANTS Conns,            \* connections
          MarketMakers,     \* those with the scope of ticker@all
          Channels,         \* channels with a snapshot key
          Prefix,           \* what a channel's name begins with
          Symbol,           \* the symbol it names after that, if any
          Requests,         \* the lists of channels a client may subscribe to
          RetailMax, MarketMakerMax,    \* limits.Config
          MaxSymbols,       \* RetailMaxSymbolsPerConnection
          SendSize,         \* capacity of Client.Send, 256 in the code
          MaxFrames,        \* bound on the frames published
          MaxRequests,      \* bound on the requests of the clients
          MaxFailures       \* bound on the calls of Redis that fail

ASSUME PushAssumption ==
    /\ IsFiniteSet(Conns) /\ MarketMakers \subseteq Conns
    /\ Requests \subseteq Seq(Channels)
    /\ RetailMax \in Nat /\ MarketMakerMax \in Nat /\ MaxSymbols \in Nat
    /\ SendSize \in Nat \ {0} /\ MaxFrames \in Nat /\ MaxRequests \in Nat
    /\ MaxFailures \in Nat

VARIABLES state,      \* "out", "checked", "in" (a client of the hub) or "closed"
          subs,       \* Client.subs
          req,        \* where the connection's read loop is in handleSubscribe
          send,       \* Client.Send
          key,        \* Redis: the version of each channel's key
          sending,    \* has the producer set the key and not yet published?
          redis,      \* messages on their way from Redis to the fan-out
          base,       \* the version of the last snapshot written to a client
          got,        \* the versions of the frames written to a client
          requests,   \* how many requests clients have made
          dropped,    \* history: the clients that lost a frame to a full queue
          lost,       \* history: the frames whose PUBLISH failed
          unread,     \* history: whose last GET of which channel's key failed
          failures

producer == <<key, sending, lost>>
history == <<dropped, unread>>
pushVars == <<state, subs, req, send, producer, redis, base, got, requests, history,
              failures>>

Idle == [pc |-> "idle"]

PushInit ==
    /\ state = [c \in Conns |-> "out"]
    /\ subs = [c \in Conns |-> {}]
    /\ req = [c \in Conns |-> Idle]
    /\ send = [c \in Conns |-> <<>>]
    /\ key = [ch \in Channels |-> 0]
    /\ sending = [ch \in Channels |-> FALSE]
    /\ redis = <<>>
    /\ base = [c \in Conns |-> [ch \in Channels |-> 0]]
    /\ got = [c \in Conns |-> [ch \in Channels |-> {}]]
    /\ requests = 0 /\ failures = 0
    /\ dropped = {} /\ lost = {} /\ unread = {}

Fails == failures < MaxFailures /\ failures' = failures + 1

-----------------------------------------------------------------------------
(* The handshake.                                                          *)

Clients == {c \in Conns : state[c] = "in"}

MaxConnections(c) == IF c \in MarketMakers THEN MarketMakerMax ELSE RetailMax

HasRoom(c) == Cardinality(Clients) < MaxConnections(c)

(* HandleWS asks before it upgrades the connection ...                     *)
CanRegister(c) ==
    /\ state[c] = "out"
    /\ HasRoom(c)
    /\ state' = [state EXCEPT ![c] = "checked"]
    /\ UNCHANGED <<subs, req, send, producer, redis, base, got, requests, history, failures>>

(* Mutant: what was checked before the upgrade is not checked again.       *)
RegisterUnchecked(c) ==
    /\ state[c] = "checked"
    /\ state' = [state EXCEPT ![c] = "in"]
    /\ UNCHANGED <<subs, req, send, producer, redis, base, got, requests, history, failures>>

(* ... and again, under the hub's lock, when it registers it.              *)
Register(c) ==
    /\ state[c] = "checked"
    /\ state' = [state EXCEPT ![c] = IF HasRoom(c) THEN "in" ELSE "closed"]
    /\ UNCHANGED <<subs, req, send, producer, redis, base, got, requests, history, failures>>

(* The read loop ends: Remove closes the queue.                            *)
RemoveClient(c) ==
    /\ state[c] = "in"
    /\ state' = [state EXCEPT ![c] = "closed"]
    /\ send' = [send EXCEPT ![c] = <<>>]
    /\ req' = [req EXCEPT ![c] = Idle]
    /\ UNCHANGED <<subs, producer, redis, base, got, requests, history, failures>>

-----------------------------------------------------------------------------
(* handleSubscribe                                                         *)

IsTickerAllChannel(ch) == Prefix[ch] \in {"ticker@all", "ticker@all:"}

CountSymbols(chs) == Cardinality({Symbol[ch] : ch \in {x \in chs : ~IsTickerAllChannel(x)}})

MergeSymbolCount(old, new) == CountSymbols(old \union new)

(* The channels of a request the connection may have, in order; none when  *)
(* they would take a retail connection over its limit.                     *)
Accepted(c, r) ==
    LET allowed == AtPositions(r, {i \in DOMAIN r :
                                     c \in MarketMakers \/ ~IsTickerAllChannel(r[i])})
    IN  IF c \notin MarketMakers /\ MergeSymbolCount(subs[c], Range(allowed)) > MaxSymbols
        THEN <<>> ELSE allowed

Request(c) ==
    /\ state[c] = "in" /\ req[c] = Idle
    /\ requests < MaxRequests /\ requests' = requests + 1

Subscribe(c) ==
    /\ Request(c)
    /\ \E r \in Requests :
         /\ Accepted(c, r) # <<>>
         /\ req' = [req EXCEPT ![c] = [pc |-> "set", todo |-> Accepted(c, r), snaps |-> <<>>]]
    /\ UNCHANGED <<state, subs, send, producer, redis, base, got, history, failures>>

(* SetSubscribed: from here on the fan-out delivers to the client.         *)
SetSubscribed(c) ==
    /\ req[c].pc = "set"
    /\ subs' = [subs EXCEPT ![c] = @ \union {Head(req[c].todo)}]
    /\ req' = [req EXCEPT ![c].pc = "get"]
    /\ UNCHANGED <<state, send, producer, redis, base, got, requests, history, failures>>

(* GET of the snapshot key; there may be none yet.  When it fails the      *)
(* subscription stays and there is no snapshot.                            *)
GetSnapshot(c) ==
    /\ req[c].pc = "get"
    /\ LET ch == Head(req[c].todo)
           rest == Tail(req[c].todo)
           snap == IF key[ch] = 0 THEN <<>> ELSE <<[ch |-> ch, v |-> key[ch]]>>
           next(snaps) == [req EXCEPT ![c] = [pc |-> IF rest = <<>> THEN "write" ELSE "set",
                                              todo |-> rest, snaps |-> snaps]]
       IN  \/ /\ req' = next(req[c].snaps \o snap)
              /\ unread' = unread \ {<<c, ch>>}
              /\ UNCHANGED failures
           \/ /\ Fails
              /\ req' = next(req[c].snaps)
              /\ unread' = unread \union {<<c, ch>>}
    /\ UNCHANGED <<state, subs, send, producer, redis, base, got, requests, dropped>>

(* "subscribed" and the snapshots are written by the read loop itself,     *)
(* while writePump writes the queue to the same connection.                *)
WriteSnapshot(c) ==
    /\ req[c].pc = "write"
    /\ IF req[c].snaps = <<>>
       THEN req' = [req EXCEPT ![c] = Idle] /\ UNCHANGED base
       ELSE LET snap == Head(req[c].snaps)
            IN  /\ base' = [base EXCEPT ![c][snap.ch] = snap.v]
                /\ req' = [req EXCEPT ![c].snaps = Tail(@)]
    /\ UNCHANGED <<state, subs, send, producer, redis, got, requests, history, failures>>

Unsubscribe(c) ==
    /\ Request(c)
    /\ \E ch \in subs[c] : subs' = [subs EXCEPT ![c] = @ \ {ch}]
    /\ UNCHANGED <<state, req, send, producer, redis, base, got, history, failures>>

-----------------------------------------------------------------------------
(* The producers, the fan-out and writePump.                               *)

SetKey(ch) ==
    /\ ~sending[ch]
    /\ MapThenSumSet(LAMBDA x : key[x], Channels) < MaxFrames
    /\ key' = [key EXCEPT ![ch] = @ + 1]
    /\ sending' = [sending EXCEPT ![ch] = TRUE]
    /\ UNCHANGED <<state, subs, req, send, redis, base, got, requests, history, lost, failures>>

(* The patterns the fan-out subscribes to.                                 *)
Patterns == {"depth:", "ticker:", "trade:", "kline:", "index:", "ticker@all:", "order:"}

Matched(ch) == Prefix[ch] \in Patterns

(* PUBLISH: its failure is ignored, or made up for by a later frame.       *)
Publish(ch) ==
    /\ sending[ch]
    /\ sending' = [sending EXCEPT ![ch] = FALSE]
    /\ LET m == [ch |-> ch, v |-> key[ch]]
       IN  \/ /\ redis' = IF Matched(ch) THEN Append(redis, m) ELSE redis
              /\ UNCHANGED <<lost, failures>>
           \/ /\ Fails
              /\ lost' = lost \union {m}
              /\ UNCHANGED redis
    /\ UNCHANGED <<state, subs, req, send, key, base, got, requests, history>>

(* Mutant: a client in the middle of handleSubscribe is passed over.       *)
SubscribedAndIdle(c, ch) == ch \in subs[c] /\ req[c] = Idle

IsSubscribed(c, ch) == ch \in subs[c]

(* Broadcast: every client subscribed gets the frame, unless its queue is  *)
(* full.                                                                   *)
Broadcast ==
    /\ redis # <<>>
    /\ LET m == Head(redis)
           to == {c \in Clients : IsSubscribed(c, m.ch)}
           full == {c \in to : Len(send[c]) = SendSize}
       IN  /\ send' = [c \in Conns |-> IF c \in to \ full THEN Append(send[c], m) ELSE send[c]]
           /\ dropped' = dropped \union full
    /\ redis' = Tail(redis)
    /\ UNCHANGED <<state, subs, req, producer, base, got, requests, unread, failures>>

(* The subscription breaks: Run returns, main stops, and the connections   *)
(* end with the process.                                                   *)
FanoutStops ==
    /\ Clients # {}
    /\ state' = [c \in Conns |-> "closed"]
    /\ subs' = [c \in Conns |-> {}]
    /\ req' = [c \in Conns |-> Idle]
    /\ send' = [c \in Conns |-> <<>>]
    /\ redis' = <<>>
    /\ UNCHANGED <<producer, base, got, requests, history, failures>>

RedisFanout == Broadcast \/ FanoutStops

WritePump(c) ==
    /\ state[c] = "in" /\ send[c] # <<>>
    /\ LET m == Head(send[c])
       IN  got' = [got EXCEPT ![c][m.ch] = @ \union {m.v}]
    /\ send' = [send EXCEPT ![c] = Tail(@)]
    /\ UNCHANGED <<state, subs, req, producer, redis, base, requests, history, failures>>

PushNext ==
    \/ \E c \in Conns :
         \/ CanRegister(c) \/ Register(c) \/ RemoveClient(c)
         \/ Subscribe(c) \/ SetSubscribed(c) \/ GetSnapshot(c) \/ WriteSnapshot(c)
         \/ Unsubscribe(c) \/ WritePump(c)
    \/ \E ch \in Channels : SetKey(ch) \/ Publish(ch)
    \/ RedisFanout

PushSpec == PushInit /\ [][PushNext]_pushVars

-----------------------------------------------------------------------------
(* However handshakes interleave, a subject never has more clients in the  *)
(* hub than its limit, and no retail connection is let in beyond the       *)
(* retail limit (CanRegister, Register).                                   *)
ConnectionLimit ==
    /\ Cardinality(Clients) <= Max({RetailMax, MarketMakerMax})
    /\ Cardinality(Clients \ MarketMakers) <= RetailMax

(* A client is up to date on a channel if it has the snapshot it read when *)
(* it subscribed and every frame after it that was published.              *)
UpToDate(c, ch) == {v \in (base[c][ch] + 1)..key[ch] : [ch |-> ch, v |-> v] \notin lost}
                   \subseteq got[c][ch]

(* Everything under way for the client and the channel has arrived.        *)
Settled(c, ch) == redis = <<>> /\ ~sending[ch] /\ req[c] = Idle /\ send[c] = <<>>

(* A client that has lost nothing to a full queue is, on every channel it  *)
(* subscribed to whose snapshot it could read and whose name the fan-out's *)
(* patterns match, up to date once everything under way has arrived:       *)
(* subscribing before reading the key leaves no gap (handleSubscribe).     *)
NothingMissed ==
    \A c \in Clients \ dropped : \A ch \in subs[c] :
        (Settled(c, ch) /\ Matched(ch) /\ <<c, ch>> \notin unread) => UpToDate(c, ch)

(* The documented streams deliver, ticker@all among them: the same for     *)
(* every channel a subscription is accepted for (allowedChannel).          *)
EveryStreamDelivers ==
    \A c \in Clients \ dropped : \A ch \in subs[c] :
        (Settled(c, ch) /\ <<c, ch>> \notin unread) => UpToDate(c, ch)

(* The order rest-api.md prescribes, for a client's first request: while a *)
(* snapshot it will be sent is not written, no frame of that channel is    *)
(* (handleSubscribe, writePump).                                           *)
SnapshotFirst ==
    requests <= 1 =>
        \A c \in Clients : req[c] # Idle =>
            \A k \in DOMAIN req[c].snaps : got[c][req[c].snaps[k].ch] = {}
=============================================================================
