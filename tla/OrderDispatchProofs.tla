------------------------- MODULE OrderDispatchProofs -------------------------
(***************************************************************************)
(* Proofs about OrderDispatch, for every set of orders, any number of      *)
(* workers, cancels and faults, and every batch size.                      *)
(***************************************************************************)
EXTENDS OrderDispatch, InductionFacts, SequenceTheorems

-----------------------------------------------------------------------------
(* Types.                                                                  *)

WorkerState == [pc : {"idle", "claimed", "write", "commit", "blocked"},
                claim : SUBSET Nat, send : SUBSET Nat]

(* TypeOK, with what it leaves open: no two workers claim a row, an idle   *)
(* one claims none, and at most one update is about to be published.       *)
Types ==
    /\ TypeOK
    /\ worker \in [Workers -> WorkerState]
    /\ \A w \in Workers : worker[w].pc = "idle" => worker[w].claim = {}
    /\ \A v, w \in Workers : v # w => worker[v].claim \cap worker[w].claim = {}
    /\ IsFiniteSet(seen)
    /\ pushed \in [Orders -> Status \cup {"none"}]
    /\ pushing \subseteq Orders /\ \A o, u \in pushing : o = u
    /\ pushing # {} => evPos < Len(events)

-----------------------------------------------------------------------------
(* The operators of the model.                                             *)

(* SetToSeq lists the elements of a finite set.                            *)
LEMMA SetToSeqProperties ==
    ASSUME NEW T, NEW S \in SUBSET T, IsFiniteSet(S)
    PROVE  SetToSeq(S) \in Seq(T) /\ \A k \in DOMAIN SetToSeq(S) : SetToSeq(S)[k] \in S
<1> DEFINE n == Cardinality(S)
<1>1. n \in Nat
  BY FS_CardinalityType
<1>2. \E f \in [1..n -> S] : IsInjective(f)
  <2>1. ExistsBijection(1..n, S)
    BY FS_CardinalityType
  <2>2. PICK f \in Bijection(1..n, S) : TRUE
    BY <2>1 DEF ExistsBijection
  <2>3. f \in [1..n -> S] /\ IsInjective(f)
    BY <2>2 DEF Bijection, Injection, Surjection, IsInjective
  <2>4. QED
    BY <2>3
<1>3. SetToSeq(S) \in [1..n -> S]
  BY <1>2, Zenon DEF SetToSeq
<1> HIDE DEF n
<1>4. QED
  BY <1>1, <1>3

(* The commands of a set of rows, in the order of the outbox.              *)
LEMMA PayloadsProperties ==
    ASSUME outbox \in Seq(Command), NEW rows \in SUBSET DOMAIN outbox
    PROVE  /\ Payloads(rows) \in Seq(Command)
           /\ \E p : IsSelection(Payloads(rows), p, outbox, rows)
  BY AtPositionsProperties DEF Payloads

(* The relay sends the first rows of a claim: what topic gets.             *)
LEMMA TopicGets ==
    ASSUME Types, NEW w \in Workers, WriteBatch(w) \/ WriteBatchFails(w)
    PROVE  /\ topic' \in Seq(Command)
           /\ \A i \in DOMAIN topic : i \in DOMAIN topic' /\ topic'[i] = topic[i]
           /\ \E p : /\ \A i \in DOMAIN topic' \ DOMAIN topic :
                           p[i] \in worker[w].send /\ topic'[i] = outbox[p[i]]
                     /\ \A i \in DOMAIN topic' \ DOMAIN topic : \A r \in worker[w].send :
                           r < p[i] => \E j \in DOMAIN topic' \ DOMAIN topic : j < i /\ p[j] = r
                     /\ WriteBatch(w) => \A r \in worker[w].send :
                           \E j \in DOMAIN topic' \ DOMAIN topic : p[j] = r
<1>1. PICK send : send = worker[w].send
  OBVIOUS
<1>2. topic \in Seq(Command) /\ outbox \in Seq(Command) /\ send \in SUBSET DOMAIN outbox
  BY <1>1 DEF Types, TypeOK
<1>3. PICK t : t = Payloads(send)
  OBVIOUS
<1>4. t \in Seq(Command) /\ \E q : IsSelection(t, q, outbox, send)
  BY <1>2, <1>3, PayloadsProperties
<1>5. PICK q : IsSelection(t, q, outbox, send)
  BY <1>4
<1>6. /\ q \in [DOMAIN t -> send]
      /\ \A k \in DOMAIN t : t[k] = outbox[q[k]]
      /\ \A k, l \in DOMAIN t : k < l => q[k] < q[l]
      /\ \A i \in send : \E k \in DOMAIN t : q[k] = i
  BY <1>5 DEF IsSelection
<1>7. PICK n \in 0..Len(t) : topic' = topic \o SubSeq(t, 1, n) /\ (WriteBatch(w) => n = Len(t))
  <2>1. CASE WriteBatch(w)
    <3>1. topic' = topic \o t
      BY <1>1, <1>3, <2>1 DEF WriteBatch
    <3>2. t = SubSeq(t, 1, Len(t)) /\ Len(t) \in 0..Len(t)
      BY <1>4
    <3>3. QED
      BY <3>1, <3>2
  <2>2. CASE ~WriteBatch(w) /\ WriteBatchFails(w)
    BY <1>1, <1>3, <2>2 DEF WriteBatchFails
  <2>3. QED
    BY <2>1, <2>2
<1>8. PICK u : u = SubSeq(t, 1, n)
  OBVIOUS
<1>9. u \in Seq(Command) /\ Len(u) = n /\ \A k \in 1..n : u[k] = t[k] /\ k \in DOMAIN t
  BY <1>4, <1>8
<1>10. topic' = topic \o u
  BY <1>7, <1>8
<1>11. PICK m \in Nat : m = Len(topic) /\ DOMAIN topic = 1..m
  BY <1>2
<1>12. /\ topic' \in Seq(Command) /\ DOMAIN topic' = 1..(m + n)
       /\ \A i \in DOMAIN topic : i \in DOMAIN topic' /\ topic'[i] = topic[i]
       /\ \A k \in 1..n : topic'[k + m] = u[k]
  <2>1. topic' \in Seq(Command) /\ Len(topic') = m + n
    <3>1. topic \o u \in Seq(Command) /\ Len(topic \o u) = Len(topic) + Len(u)
      BY <1>2, <1>9, ConcatProperties
    <3>2. QED
      BY <1>9, <1>10, <1>11, <3>1
  <2>2. \A i \in DOMAIN topic : i \in DOMAIN topic' /\ topic'[i] = topic[i]
    BY <1>2, <1>9, <1>10
  <2>3. ASSUME NEW k \in 1..n PROVE topic'[k + m] = u[k]
    BY <1>2, <1>9, <1>10, <1>11
  <2>4. QED
    BY <2>1, <2>2, <2>3
<1>13. n \in Nat
  BY <1>4
<1> DEFINE p == [i \in Nat |-> q[i - m]]
<1>14. ASSUME NEW i \in DOMAIN topic' \ DOMAIN topic
       PROVE  i - m \in 1..n /\ i \in Nat /\ p[i] = q[i - m] /\ topic'[i] = outbox[p[i]] /\ p[i] \in send
  <2>1. i \in (m + 1)..(m + n)
    BY <1>11, <1>12, <1>13
  <2>2. i - m \in 1..n /\ i \in Nat /\ (i - m) + m = i
    BY <1>13, <2>1
  <2>3. topic'[i] = u[i - m] /\ u[i - m] = t[i - m] /\ i - m \in DOMAIN t
    BY <1>9, <1>12, <2>2
  <2>4. QED
    BY <1>6, <2>2, <2>3
<1>15. ASSUME NEW k \in 1..n PROVE k + m \in DOMAIN topic' \ DOMAIN topic /\ p[k + m] = q[k]
  BY <1>11, <1>12, <1>13
<1> HIDE DEF p
<1>16. ASSUME NEW i \in DOMAIN topic' \ DOMAIN topic, NEW r \in send, r < p[i]
       PROVE  \E j \in DOMAIN topic' \ DOMAIN topic : j < i /\ p[j] = r
  <2>1. PICK k \in DOMAIN t : q[k] = r
    BY <1>6
  <2>2. i - m \in 1..n /\ i \in Nat /\ q[k] < q[i - m] /\ i - m \in DOMAIN t
    BY <1>9, <1>14, <1>16, <2>1
  <2>3. k < i - m
    <3>1. k \in Nat /\ i - m \in Nat /\ q[k] \in Nat /\ q[i - m] \in Nat
      BY <1>2, <1>4, <1>6, <2>1, <2>2
    <3>2. ~(i - m < k) /\ k # i - m
      BY <1>6, <2>1, <2>2, <3>1
    <3>3. QED
      BY <3>1, <3>2
  <2>4. k \in 1..n
    BY <1>4, <1>13, <2>1, <2>2, <2>3
  <2>5. k + m < i
    BY <1>11, <2>2, <2>3, <2>4
  <2>6. QED
    BY <1>15, <2>1, <2>4, <2>5
<1>17. ASSUME WriteBatch(w), NEW r \in send PROVE \E j \in DOMAIN topic' \ DOMAIN topic : p[j] = r
  <2>1. PICK k \in DOMAIN t : q[k] = r
    BY <1>6
  <2>2. k \in 1..n
    BY <1>4, <1>7, <1>17, <2>1
  <2>3. QED
    BY <1>15, <2>1, <2>2
<1>18. /\ \A i \in DOMAIN topic' \ DOMAIN topic : p[i] \in send /\ topic'[i] = outbox[p[i]]
       /\ \A i \in DOMAIN topic' \ DOMAIN topic : \A r \in send :
             r < p[i] => \E j \in DOMAIN topic' \ DOMAIN topic : j < i /\ p[j] = r
       /\ WriteBatch(w) => \A r \in send : \E j \in DOMAIN topic' \ DOMAIN topic : p[j] = r
  BY <1>14, <1>16, <1>17
<1>19. PICK r : r = p
  OBVIOUS
<1>20. /\ \A i \in DOMAIN topic' \ DOMAIN topic : r[i] \in worker[w].send /\ topic'[i] = outbox[r[i]]
       /\ \A i \in DOMAIN topic' \ DOMAIN topic : \A k \in worker[w].send :
             k < r[i] => \E j \in DOMAIN topic' \ DOMAIN topic : j < i /\ r[j] = k
       /\ WriteBatch(w) => \A k \in worker[w].send : \E j \in DOMAIN topic' \ DOMAIN topic : r[j] = k
  BY <1>1, <1>18, <1>19
<1>21. QED
  BY <1>12, <1>20

-----------------------------------------------------------------------------
(* What the shard does with one command.                                   *)

(* A sequence to which an element, a sequence and an element are added.    *)
LEMMA AddedElements ==
    ASSUME NEW S, NEW e \in Seq(S), NEW a \in S, NEW s \in Seq(S), NEW b \in S
    PROVE  LET r == e \o <<a>> \o s \o <<b>> IN
           /\ r \in Seq(S)
           /\ \A i \in DOMAIN e : i \in DOMAIN r /\ r[i] = e[i]
           /\ \A i \in DOMAIN r \ DOMAIN e :
                IF i = Len(e) + 1 THEN r[i] = a
                ELSE r[i] = b \/ \E k \in DOMAIN s : r[i] = s[k]
<1>1. PICK l \in Nat : l = Len(e) /\ DOMAIN e = 1..l
  OBVIOUS
<1>2. PICK n \in Nat : n = Len(s) /\ DOMAIN s = 1..n
  OBVIOUS
<1>3. PICK e1 : e1 = e \o <<a>>
  OBVIOUS
<1>4. /\ e1 \in Seq(S) /\ Len(e1) = l + 1
      /\ \A i \in 1..l : e1[i] = e[i]
      /\ e1[l + 1] = a
  BY <1>1, <1>3
<1>5. PICK e2 : e2 = e1 \o s
  OBVIOUS
<1>6. PICK m \in Nat, k \in Nat : m = l + 1 /\ k = m + n
  BY <1>1, <1>2
<1>7. /\ e2 \in Seq(S) /\ Len(e2) = k
      /\ \A i \in 1..m : e2[i] = e1[i]
      /\ \A i \in (m + 1)..k : e2[i] = s[i - m]
  <2>1. e1 \in Seq(S) /\ Len(e1) = m /\ Len(s) = n
    BY <1>2, <1>4, <1>6
  <2>2. /\ e2 \in Seq(S) /\ Len(e2) = Len(e1) + Len(s)
        /\ \A i \in 1..Len(e1) : e2[i] = e1[i]
        /\ \A i \in (Len(e1) + 1)..(Len(e1) + Len(s)) : e2[i] = s[i - Len(e1)]
    BY <1>5, <2>1, Concatenated
  <2>3. QED
    BY <1>6, <2>1, <2>2, Zenon
<1>8. PICK c : c = <<b>>
  OBVIOUS
<1>9. PICK r : r = e2 \o c
  OBVIOUS
<1>10. /\ r \in Seq(S) /\ DOMAIN r = 1..(k + 1)
       /\ \A i \in 1..k : r[i] = e2[i]
       /\ \A i \in (k + 1)..(k + 1) : r[i] = c[i - k]
  <2>1. 1 \in Nat /\ c \in Seq(S) /\ Len(c) = 1
    BY <1>8
  <2>2. e2 \in Seq(S) /\ Len(e2) = k
    BY <1>7
  <2>3. /\ r \in Seq(S) /\ Len(r) = Len(e2) + Len(c)
        /\ \A i \in 1..Len(e2) : r[i] = e2[i]
        /\ \A i \in (Len(e2) + 1)..(Len(e2) + Len(c)) : r[i] = c[i - Len(e2)]
    BY <1>9, <2>1, <2>2, Concatenated
  <2>4. /\ r \in Seq(S) /\ Len(r) = k + 1
        /\ \A i \in 1..k : r[i] = e2[i]
        /\ \A i \in (k + 1)..(k + 1) : r[i] = c[i - k]
    BY <2>1, <2>2, <2>3, Zenon
  <2>5. QED
    BY <2>4
<1>11. ASSUME NEW i \in 1..l PROVE i \in DOMAIN r /\ r[i] = e[i]
  <2>1. i \in 1..(k + 1) /\ i \in 1..k /\ i \in 1..m
    BY <1>2, <1>6
  <2>2. QED
    <3>1. r[i] = e2[i] /\ i \in DOMAIN r
      BY <1>10, <2>1
    <3>2. e2[i] = e1[i]
      BY <1>7, <2>1
    <3>3. e1[i] = e[i]
      BY <1>4
    <3>4. QED
      BY <3>1, <3>2, <3>3
<1>12. ASSUME NEW i \in DOMAIN r, i \notin 1..l
       PROVE  IF i = l + 1 THEN r[i] = a ELSE r[i] = b \/ \E j \in 1..n : r[i] = s[j]
  <2>1. i \in Nat /\ i >= m /\ i <= k + 1
    <3>1. i \in 1..(k + 1)
      BY <1>10
    <3>2. QED
      BY <1>1, <1>6, <1>12, <3>1
  <2>2. CASE i = m
    <3>1. m \in 1..k /\ m \in 1..m
      BY <1>2, <1>6
    <3>2. QED
      BY <1>4, <1>6, <1>7, <1>10, <2>2, <3>1
  <2>3. CASE i = k + 1
    <3>1. i \in (k + 1)..(k + 1) /\ i - k = 1 /\ i # l + 1
      BY <1>6, <2>3
    <3>2. r[i] = c[1]
      BY <1>10, <3>1
    <3>3. QED
      BY <1>8, <3>1, <3>2
  <2>4. CASE i # m /\ i # k + 1
    <3>1. i \in 1..k /\ i \in (m + 1)..k
      BY <1>1, <1>6, <2>1, <2>4
    <3>2. i - m \in 1..n
      BY <1>6, <2>1, <3>1
    <3>3. r[i] = s[i - m]
      BY <1>7, <1>10, <3>1
    <3>4. QED
      BY <1>6, <2>4, <3>2, <3>3
  <2>5. QED
    BY <2>2, <2>3, <2>4
<1>13. r = e \o <<a>> \o s \o <<b>>
  BY <1>3, <1>5, <1>8, <1>9, Zenon
<1>14. /\ r \in Seq(S)
       /\ \A i \in DOMAIN e : i \in DOMAIN r /\ r[i] = e[i]
       /\ \A i \in DOMAIN r \ DOMAIN e :
            IF i = Len(e) + 1 THEN r[i] = a
            ELSE r[i] = b \/ \E j \in DOMAIN s : r[i] = s[j]
  BY <1>1, <1>2, <1>10, <1>11, <1>12
<1>15. QED
  BY <1>13, <1>14, Zenon

(* An event that handling cmd adds at position i.                          *)
NewEvent(ev, cmd, i) ==
    /\ ev.type = "CANCELED" => cmd = CancelCommand(ev.id)
    /\ ev.type # "CANCELED" => ev.id \in seen'
    /\ ev.type = "FILLED" => ev.id \in filled'
    /\ ev.type = "ACCEPTED" => ev.id \notin seen /\ i = Len(events) + 1
    /\ ev.type = "PARTIAL" => i # Len(events) + 1

(* What handling cmd does to the book and to the sequence of events.       *)
Handles(cmd) ==
    /\ IsFiniteSet(seen') /\ seen \subseteq seen' /\ seen' \subseteq seen \cup {cmd.id}
    /\ cmd.kind = "New" => cmd.id \in seen' \/ readOnly
    /\ cmd.kind # "New" => seen' = seen
    /\ active' \subseteq active \cup {cmd.id} /\ active' \subseteq seen'
    /\ cmd.id \in active' =>
          cmd.kind = "New" /\ (cmd.id \in active \/ (cmd.id \notin seen /\ ~readOnly))
    /\ filled \subseteq filled' /\ filled' \subseteq seen'
    /\ filled \cap active = {} => filled' \cap active' = {}
    /\ events' \in Seq(Event)
    /\ \A i \in DOMAIN events : i \in DOMAIN events' /\ events'[i] = events[i]
    /\ \A i \in DOMAIN events' \ DOMAIN events : NewEvent(events'[i], cmd, i)

(* The new order cmd trades with makers, f gives their events.             *)
Trades(cmd, makers, left, f) ==
    /\ cmd \in Command /\ cmd.kind = "New" /\ ~readOnly /\ cmd.id \notin seen
    /\ seen' = seen \cup {cmd.id}
    /\ makers \in SUBSET active /\ left \subseteq {cmd.id} \cup makers
    /\ active' = (active \ makers) \cup left
    /\ filled' = filled \cup (({cmd.id} \cup makers) \ left)
    /\ f = [x \in {cmd.id} \cup makers |-> Ev(x, IF x \in left THEN "PARTIAL" ELSE "FILLED")]
    /\ events' = events \o <<Ev(cmd.id, "ACCEPTED")>>
                        \o SetToSeq({f[x] : x \in makers}) \o <<f[cmd.id]>>

(* A new order that trades is handled.                                     *)
LEMMA TradeEffects ==
    ASSUME Types, NEW cmd, NEW makers, NEW left, NEW f, Trades(cmd, makers, left, f)
    PROVE  Handles(cmd)
<1> USE DEF Trades
<1>1. PICK o : o = cmd.id
  OBVIOUS
<1>2. /\ o \in Orders /\ seen \subseteq Orders /\ active \subseteq seen /\ filled \subseteq seen
      /\ IsFiniteSet(seen) /\ events \in Seq(Event) /\ pos \in Nat
  BY <1>1 DEF Types, TypeOK, Command
<1>3. \A x \in Orders : \A t \in EventType :
         /\ Ev(x, t) \in Event /\ Ev(x, t).id = x /\ Ev(x, t).type = t
  BY <1>2 DEF Ev, Event
<1>4. ASSUME NEW x \in {o} \cup makers
      PROVE  /\ f[x] \in Event /\ f[x].id = x
             /\ f[x].type = (IF x \in left THEN "PARTIAL" ELSE "FILLED")
  <2>1. f[x] = Ev(x, IF x \in left THEN "PARTIAL" ELSE "FILLED")
    BY <1>1
  <2>2. x \in Orders
    BY <1>2
  <2>3. QED
    BY <1>3, <2>1, <2>2 DEF EventType
<1>5. PICK M : M = {f[x] : x \in makers}
  OBVIOUS
<1>6. M \in SUBSET Event /\ IsFiniteSet(M)
  <2>1. IsFiniteSet(makers)
    BY <1>2, FS_Subset
  <2>2. IsFiniteSet({f[x] : x \in makers})
    BY <2>1, FiniteImage
  <2>3. QED
    BY <1>4, <1>5, <2>2
<1>7. PICK s : s = SetToSeq(M)
  OBVIOUS
<1>8. s \in Seq(Event) /\ \A k \in DOMAIN s : s[k] \in M
  BY <1>6, <1>7, SetToSeqProperties
<1>9. PICK a : a = Ev(o, "ACCEPTED")
  OBVIOUS
<1>10. a \in Event /\ a.id = o /\ a.type = "ACCEPTED"
  BY <1>2, <1>3, <1>9 DEF EventType
<1>11. PICK b : b = f[o]
  OBVIOUS
<1>12. PICK r : r = events'
  OBVIOUS
<1>13. r = events \o <<a>> \o s \o <<b>>
  BY <1>1, <1>5, <1>7, <1>9, <1>11, <1>12
<1>14. /\ r \in Seq(Event)
       /\ \A i \in DOMAIN events : i \in DOMAIN r /\ r[i] = events[i]
       /\ \A i \in DOMAIN r \ DOMAIN events :
            IF i = Len(events) + 1 THEN r[i] = a
            ELSE r[i] = b \/ \E k \in DOMAIN s : r[i] = s[k]
  <2>1. b \in Event
    BY <1>4, <1>11
  <2>2. events \in Seq(Event) /\ a \in Event /\ s \in Seq(Event)
    BY <1>2, <1>8, <1>10
  <2>3. QED
    <3>1. LET t == events \o <<a>> \o s \o <<b>> IN
          /\ t \in Seq(Event)
          /\ \A i \in DOMAIN events : i \in DOMAIN t /\ t[i] = events[i]
          /\ \A i \in DOMAIN t \ DOMAIN events :
               IF i = Len(events) + 1 THEN t[i] = a
               ELSE t[i] = b \/ \E k \in DOMAIN s : t[i] = s[k]
      BY <2>1, <2>2, AddedElements, SMT
    <3>2. QED
      BY <1>13, <3>1, Zenon
<1>15. ASSUME NEW i \in DOMAIN r \ DOMAIN events PROVE NewEvent(r[i], cmd, i)
  <2>1. CASE i = Len(events) + 1
    <3>1. r[i] = a
      BY <1>14, <2>1
    <3>2. QED
      BY <1>1, <1>10, <2>1, <3>1 DEF NewEvent
  <2>2. CASE i # Len(events) + 1
    <3>1. PICK x \in {o} \cup makers : r[i] = f[x]
      <4>1. r[i] = b \/ \E k \in DOMAIN s : r[i] = s[k]
        BY <1>14, <2>2
      <4>2. CASE r[i] = b
        BY <1>11, <4>2
      <4>3. CASE \E k \in DOMAIN s : r[i] = s[k]
        <5>1. r[i] \in M
          BY <1>8, <4>3
        <5>2. QED
          BY <1>5, <5>1
      <4>4. QED
        BY <4>1, <4>2, <4>3
    <3>2. f[x].id = x /\ f[x].type = (IF x \in left THEN "PARTIAL" ELSE "FILLED")
      BY <1>4
    <3>3. x \in seen' /\ (x \notin left => x \in filled')
      BY <1>1, <1>2
    <3>4. QED
      BY <2>2, <3>1, <3>2, <3>3 DEF NewEvent
  <2>3. QED
    BY <2>1, <2>2
<1>16. IsFiniteSet(seen')
  <2>1. IsFiniteSet(seen \cup {o})
    BY <1>2, FS_AddElement
  <2>2. QED
    BY <1>1, <2>1
<1>17. /\ seen \subseteq seen' /\ seen' \subseteq seen \cup {o} /\ o \in seen'
       /\ active' \subseteq active \cup {o} /\ active' \subseteq seen'
       /\ filled \subseteq filled' /\ filled' \subseteq seen'
       /\ filled \cap active = {} => filled' \cap active' = {}
  BY <1>1, <1>2
<1>18. QED
  BY <1>1, <1>12, <1>14, <1>15, <1>16, <1>17 DEF Handles

(* The shard handles the next command of the partition.                    *)
LEMMA MatchEffects ==
    ASSUME Types, Match
    PROVE  /\ pos' = pos + 1 /\ pos + 1 \in DOMAIN topic /\ topic[pos + 1] \in Command
           /\ Handles(topic[pos + 1])
<1>1. PICK cmd : cmd = topic[pos + 1]
  OBVIOUS
<1>2. /\ topic \in Seq(Command) /\ pos \in 0..Len(topic) /\ pos < Len(topic) /\ pos' = pos + 1
      /\ seen \subseteq Orders /\ active \subseteq seen /\ filled \subseteq seen
      /\ IsFiniteSet(seen) /\ events \in Seq(Event)
  BY DEF Types, TypeOK, Match
<1>3. pos + 1 \in DOMAIN topic /\ cmd \in Command
  BY <1>1, <1>2
<1>4. PICK o : o = cmd.id
  OBVIOUS
<1>5. o \in Orders /\ cmd.kind \in {"New", "Cancel"}
  BY <1>3, <1>4 DEF Command
<1>6. \A t \in EventType : Ev(o, t) \in Event /\ Ev(o, t).id = o /\ Ev(o, t).type = t
  BY <1>2, <1>5 DEF Ev, Event
<1>7. \/ cmd.kind = "New" /\ ~readOnly /\ ~Duplicate(o) /\ NewOrder(o)
      \/ cmd.kind = "New" /\ (readOnly \/ Duplicate(o)) /\ UNCHANGED <<seen, active, filled, events>>
      \/ cmd.kind = "Cancel" /\ CancelOrder(o)
  BY <1>1, <1>4, Zenon DEF Match
<1>8. ASSUME NEW a \in Event, events' = Append(events, a), NewEvent(a, cmd, Len(events) + 1)
      PROVE  /\ events' \in Seq(Event)
             /\ \A i \in DOMAIN events : i \in DOMAIN events' /\ events'[i] = events[i]
             /\ \A i \in DOMAIN events' \ DOMAIN events : NewEvent(events'[i], cmd, i)
  <2>1. PICK l \in Nat : l = Len(events) /\ DOMAIN events = 1..l
    BY <1>2
  <2>2. events' \in Seq(Event) /\ DOMAIN events' = 1..(l + 1) /\ events'[l + 1] = a
        /\ \A i \in 1..l : events'[i] = events[i]
    BY <1>2, <1>8, <2>1
  <2>3. \A i \in DOMAIN events' \ DOMAIN events : i = l + 1
    BY <2>1, <2>2
  <2>4. QED
    BY <1>8, <2>1, <2>2, <2>3
<1>9. CASE cmd.kind = "New" /\ ~readOnly /\ ~Duplicate(o) /\ NewOrder(o)
  <2>1. o \notin seen /\ seen' = seen \cup {o}
    BY <1>9 DEF Duplicate, NewOrder
  <2>2. CASE /\ active' = active \cup {o}
             /\ events' = Append(events, Ev(o, "ACCEPTED"))
             /\ UNCHANGED filled
    <3>1. IsFiniteSet(seen')
      <4>1. IsFiniteSet(seen \cup {o})
        BY <1>2, FS_AddElement
      <4>2. QED
        BY <2>1, <4>1
    <3>2. Ev(o, "ACCEPTED") \in Event /\ NewEvent(Ev(o, "ACCEPTED"), cmd, Len(events) + 1)
      BY <1>6, <2>1 DEF NewEvent, EventType
    <3>3. /\ events' \in Seq(Event)
          /\ \A i \in DOMAIN events : i \in DOMAIN events' /\ events'[i] = events[i]
          /\ \A i \in DOMAIN events' \ DOMAIN events : NewEvent(events'[i], cmd, i)
      BY <1>8, <2>2, <3>2
    <3>4. /\ seen \subseteq seen' /\ seen' \subseteq seen \cup {o} /\ o \in seen'
          /\ active' \subseteq active \cup {o} /\ active' \subseteq seen'
          /\ filled \subseteq filled' /\ filled' \subseteq seen'
          /\ filled \cap active = {} => filled' \cap active' = {}
      BY <1>2, <2>1, <2>2
    <3>5. QED
      BY <1>1, <1>2, <1>3, <1>4, <1>9, <2>1, <3>1, <3>3, <3>4 DEF Handles
  <2>3. CASE \E makers \in (SUBSET active) \ {{}} :
             \E left \in {{}, {o}} \cup {{maker} : maker \in makers} :
               LET Fill(x) == Ev(x, IF x \in left THEN "PARTIAL" ELSE "FILLED") IN
               /\ active' = (active \ makers) \cup left
               /\ filled' = filled \cup (({o} \cup makers) \ left)
               /\ events' = events \o <<Ev(o, "ACCEPTED")>>
                                   \o SetToSeq({Fill(maker) : maker \in makers}) \o <<Fill(o)>>
    <3>1. PICK makers \in (SUBSET active) \ {{}} :
             \E left \in {{}, {o}} \cup {{maker} : maker \in makers} :
               /\ active' = (active \ makers) \cup left
               /\ filled' = filled \cup (({o} \cup makers) \ left)
               /\ events' = events \o <<Ev(o, "ACCEPTED")>>
                    \o SetToSeq({Ev(m, IF m \in left THEN "PARTIAL" ELSE "FILLED") : m \in makers})
                    \o <<Ev(o, IF o \in left THEN "PARTIAL" ELSE "FILLED")>>
      BY <2>3, Zenon
    <3>2. PICK left \in {{}, {o}} \cup {{maker} : maker \in makers} :
               /\ active' = (active \ makers) \cup left
               /\ filled' = filled \cup (({o} \cup makers) \ left)
               /\ events' = events \o <<Ev(o, "ACCEPTED")>>
                    \o SetToSeq({Ev(m, IF m \in left THEN "PARTIAL" ELSE "FILLED") : m \in makers})
                    \o <<Ev(o, IF o \in left THEN "PARTIAL" ELSE "FILLED")>>
      BY <3>1, Zenon
    <3>3. PICK f : f = [x \in {o} \cup makers |-> Ev(x, IF x \in left THEN "PARTIAL" ELSE "FILLED")]
      OBVIOUS
    <3>4. {Ev(m, IF m \in left THEN "PARTIAL" ELSE "FILLED") : m \in makers} = {f[x] : x \in makers}
      BY <3>3
    <3>5. Ev(o, IF o \in left THEN "PARTIAL" ELSE "FILLED") = f[o]
      BY <3>3
    <3>6. events' = events \o <<Ev(o, "ACCEPTED")>> \o SetToSeq({f[x] : x \in makers}) \o <<f[o]>>
      BY <3>2, <3>4, <3>5, Zenon
    <3>7. left \subseteq {o} \cup makers /\ makers \in SUBSET active
      BY <3>1, <3>2
    <3>8. Handles(cmd)
      <4>1. /\ cmd \in Command /\ cmd.kind = "New" /\ ~readOnly /\ cmd.id \notin seen
            /\ seen' = seen \cup {cmd.id}
            /\ makers \in SUBSET active /\ left \subseteq {cmd.id} \cup makers
            /\ active' = (active \ makers) \cup left
            /\ filled' = filled \cup (({cmd.id} \cup makers) \ left)
        BY <1>3, <1>4, <1>9, <2>1, <3>2, <3>7
      <4>2. f = [x \in {cmd.id} \cup makers |-> Ev(x, IF x \in left THEN "PARTIAL" ELSE "FILLED")]
        BY <1>4, <3>3, Zenon
      <4>3. events' = events \o <<Ev(cmd.id, "ACCEPTED")>>
                             \o SetToSeq({f[x] : x \in makers}) \o <<f[cmd.id]>>
        BY <1>4, <3>6, Zenon
      <4>4. QED
        <5>1. Trades(cmd, makers, left, f)
          BY <4>1, <4>2, <4>3, Zenon DEF Trades
        <5>2. QED
          BY <5>1, TradeEffects, Zenon
    <3>9. QED
      BY <1>1, <1>2, <1>3, <3>8
  <2>4. QED
    BY <1>9, <2>2, <2>3, Zenon DEF NewOrder
<1>10. CASE /\ cmd.kind = "New" /\ (readOnly \/ Duplicate(o))
            /\ UNCHANGED <<seen, active, filled, events>>
  <2>1. o \in seen \/ readOnly
    BY <1>10 DEF Duplicate
  <2>2. o \in active' => o \in active
    BY <1>10
  <2>3. Handles(cmd)
    BY <1>2, <1>4, <1>10, <2>1, <2>2 DEF Handles
  <2>4. QED
    BY <1>1, <1>2, <1>3, <2>3
<1>11. CASE cmd.kind = "Cancel" /\ CancelOrder(o)
  <2>1. /\ active' = active \ {o} /\ seen' = seen /\ filled' = filled
        /\ events' = Append(events, Ev(o, "CANCELED"))
    BY <1>11 DEF CancelOrder
  <2>2. cmd = CancelCommand(o)
    BY <1>3, <1>4, <1>11 DEF Command, CancelCommand
  <2>3. Ev(o, "CANCELED") \in Event /\ NewEvent(Ev(o, "CANCELED"), cmd, Len(events) + 1)
    BY <1>6, <2>2 DEF NewEvent, EventType
  <2>4. /\ events' \in Seq(Event)
        /\ \A i \in DOMAIN events : i \in DOMAIN events' /\ events'[i] = events[i]
        /\ \A i \in DOMAIN events' \ DOMAIN events : NewEvent(events'[i], cmd, i)
    BY <1>8, <2>1, <2>3
  <2>5. Handles(cmd)
    BY <1>2, <1>4, <1>11, <2>1, <2>4 DEF Handles
  <2>6. QED
    BY <1>1, <1>2, <1>3, <2>5
<1>12. QED
  BY <1>7, <1>9, <1>10, <1>11

-----------------------------------------------------------------------------
(* Types are kept.                                                         *)

DbTypes ==
    /\ status \in [Orders -> Status \cup {"none"}]
    /\ outbox \in Seq(Command) /\ topic \in Seq(Command) /\ recon \subseteq Orders

WorkTypes ==
    /\ published \subseteq DOMAIN outbox
    /\ worker \in [Workers -> WorkerState]
    /\ \A w \in Workers :
         /\ worker[w].claim \subseteq DOMAIN outbox \ published
         /\ worker[w].send \subseteq worker[w].claim
         /\ worker[w].pc = "idle" => worker[w].claim = {}
    /\ \A v, w \in Workers : v # w => worker[v].claim \cap worker[w].claim = {}

BookTypes ==
    /\ pos \in 0..Len(topic)
    /\ IsFiniteSet(seen)
    /\ seen \subseteq Orders /\ active \subseteq seen /\ filled \subseteq seen
    /\ events \in Seq(Event)

ConsumerTypes ==
    /\ evPos \in 0..Len(events) /\ processed \subseteq ToSet(events)
    /\ pushed \in [Orders -> Status \cup {"none"}]
    /\ pushing \subseteq Orders /\ (\A o, u \in pushing : o = u)
    /\ pushing # {} => evPos < Len(events)

(* The four parts make up Types.                                           *)
LEMMA TypesSplit == Types <=> DbTypes /\ WorkTypes /\ BookTypes /\ ConsumerTypes
<1>1. Types => DbTypes
  BY DEF Types, TypeOK, DbTypes
<1>2. Types => WorkTypes
  BY DEF Types, TypeOK, WorkTypes
<1>3. Types => BookTypes /\ ConsumerTypes
  BY DEF Types, TypeOK, BookTypes, ConsumerTypes
<1>4. ASSUME DbTypes, WorkTypes, BookTypes, ConsumerTypes PROVE Types
  <2>1. \A w \in Workers : worker[w].pc \in {"idle", "claimed", "write", "commit", "blocked"}
    BY <1>4 DEF WorkTypes, WorkerState
  <2>2. TypeOK
    BY <1>4, <2>1 DEF DbTypes, WorkTypes, BookTypes, ConsumerTypes, TypeOK
  <2>3. QED
    BY <1>4, <2>2 DEF Types, DbTypes, WorkTypes, BookTypes, ConsumerTypes
<1>5. QED
  BY <1>1, <1>2, <1>3, <1>4

(* The initial state.                                                      *)
LEMMA InitTypes == Init => Types
<1> SUFFICES ASSUME Init PROVE Types
  OBVIOUS
<1>1. DbTypes
  BY DEF Init, DbTypes
<1>2. WorkTypes
  <2>1. PICK c \in Instances : worker = [w \in c.workers |-> Idle]
    BY DEF Init
  <2>2. Idle \in WorkerState /\ Idle.claim = {} /\ Idle.send = {}
    BY DEF Idle, WorkerState
  <2>3. Workers = c.workers /\ \A w \in Workers : worker[w] = Idle
    BY <2>1 DEF Workers
  <2>4. published = {}
    BY DEF Init
  <2>5. worker \in [Workers -> WorkerState]
    BY <2>1, <2>2, <2>3
  <2>6. QED
    BY <2>2, <2>3, <2>4, <2>5 DEF WorkTypes
<1>3. BookTypes
  BY FS_EmptySet DEF Init, BookTypes
<1>4. ConsumerTypes
  BY DEF Init, ConsumerTypes
<1>5. QED
  BY <1>1, <1>2, <1>3, <1>4, TypesSplit

(* A row is added to the outbox.                                           *)
LEMMA RowAdded ==
    ASSUME outbox \in Seq(Command), NEW c \in Command, InsertOutboxRow(c)
    PROVE  /\ outbox' \in Seq(Command)
           /\ DOMAIN outbox \subseteq DOMAIN outbox' /\ DOMAIN outbox' = 1..Len(outbox) + 1
           /\ \A i \in DOMAIN outbox : outbox'[i] = outbox[i]
           /\ outbox'[Len(outbox) + 1] = c
           /\ \A i \in DOMAIN outbox' : i \in DOMAIN outbox \/ i = Len(outbox) + 1
  BY DEF InsertOutboxRow

(* Commands are commands.                                                  *)
LEMMA CommandTypes ==
    ASSUME NEW o \in Orders
    PROVE  /\ NewCommand(o) \in Command /\ NewCommand(o).kind = "New" /\ NewCommand(o).id = o
           /\ CancelCommand(o) \in Command
           /\ CancelCommand(o).kind = "Cancel" /\ CancelCommand(o).id = o
  BY DEF NewCommand, CancelCommand, Command

(* One worker changes its state and keeps or gives up its claim.           *)
LEMMA WorkerMoves ==
    ASSUME WorkTypes, NEW w \in Workers, NEW st \in WorkerState,
           worker' = [worker EXCEPT ![w] = st],
           st.claim = worker[w].claim /\ st.send \subseteq st.claim /\ st.pc # "idle",
           UNCHANGED <<outbox, published>>
    PROVE  WorkTypes'
<1>1. /\ worker \in [Workers -> WorkerState]
      /\ Workers' = Workers /\ worker' \in [Workers -> WorkerState]
      /\ worker'[w] = st /\ \A v \in Workers \ {w} : worker'[v] = worker[v]
  BY DEF WorkTypes, Workers
<1>2. \A v \in Workers : worker'[v].claim = worker[v].claim
  BY <1>1
<1>3. QED
  BY <1>1, <1>2 DEF WorkTypes

(* Every step keeps the types.                                             *)
LEMMA NextTypes == Types /\ [Next]_vars => Types'
<1> SUFFICES ASSUME Types, [Next]_vars PROVE Types'
  OBVIOUS
<1>1. DbTypes /\ WorkTypes /\ BookTypes /\ ConsumerTypes
  BY TypesSplit
<1>2. ASSUME UNCHANGED <<worker, outbox, published>> PROVE WorkTypes'
  BY <1>1, <1>2 DEF WorkTypes, Workers
<1>3. ASSUME UNCHANGED shard, topic' = topic PROVE BookTypes'
  BY <1>1, <1>3 DEF BookTypes, shard
<1>4. ASSUME UNCHANGED <<consumer, events>> PROVE ConsumerTypes'
  BY <1>1, <1>4 DEF ConsumerTypes, consumer, push
<1>5. ASSUME NEW c \in Command, InsertOutboxRow(c), UNCHANGED <<published, worker>>
      PROVE  outbox' \in Seq(Command) /\ WorkTypes'
  <2>1. outbox \in Seq(Command)
    BY <1>1 DEF DbTypes
  <2>2. outbox' \in Seq(Command) /\ DOMAIN outbox \subseteq DOMAIN outbox'
    BY <1>5, <2>1, RowAdded
  <2>3. QED
    BY <1>1, <1>5, <2>2 DEF WorkTypes, Workers
<1>6. ASSUME NEW o \in Orders, PlaceOrder(o) PROVE Types'
  <2>1. DbTypes'
    BY <1>1, <1>5, <1>6, CommandTypes DEF PlaceOrder, DbTypes, relay, Status
  <2>2. WorkTypes' /\ BookTypes' /\ ConsumerTypes'
    BY <1>3, <1>4, <1>5, <1>6, CommandTypes DEF PlaceOrder, relay, shard
  <2>3. QED
    BY <2>1, <2>2, TypesSplit, PTL
<1>7. ASSUME NEW o \in Orders, BeginCancel(o) PROVE Types'
  <2>1. DbTypes'
    BY <1>1, <1>5, <1>7, CommandTypes DEF BeginCancel, InsertCancelOutbox, DbTypes, relay, Status
  <2>2. WorkTypes' /\ BookTypes' /\ ConsumerTypes'
    BY <1>3, <1>4, <1>5, <1>7, CommandTypes DEF BeginCancel, InsertCancelOutbox, relay, shard
  <2>3. QED
    BY <2>1, <2>2, TypesSplit, PTL
<1>8. ASSUME NEW w \in Workers, Claim(w) PROVE Types'
  <2>1. PICK mine : mine = ClaimUnpublished
    OBVIOUS
  <2>2. mine \subseteq DOMAIN outbox \ published /\ \A v \in Workers : mine \cap worker[v].claim = {}
    BY <2>1 DEF ClaimUnpublished, Unclaimed, Locked
  <2>3. PICK st : st = [pc |-> "claimed", claim |-> mine, send |-> {}]
    OBVIOUS
  <2>4. worker' = [worker EXCEPT ![w] = st] /\ UNCHANGED <<outbox, published>>
    BY <1>8, <2>1, <2>3 DEF Claim, db
  <2>5. st \in WorkerState /\ st.claim = mine /\ st.send = {} /\ st.pc = "claimed"
    <3>1. mine \subseteq Nat
      BY <1>1, <2>2 DEF DbTypes
    <3>2. QED
      BY <2>3, <3>1 DEF WorkerState
  <2>6. /\ worker \in [Workers -> WorkerState]
        /\ Workers' = Workers /\ worker' \in [Workers -> WorkerState]
        /\ worker'[w] = st /\ \A v \in Workers \ {w} : worker'[v] = worker[v]
    BY <1>1, <2>4, <2>5 DEF WorkTypes, Workers
  <2>7. WorkTypes'
    BY <1>1, <2>2, <2>4, <2>5, <2>6 DEF WorkTypes
  <2>8. DbTypes' /\ BookTypes' /\ ConsumerTypes'
    BY <1>1, <1>3, <1>4, <1>8 DEF Claim, db, shard, DbTypes
  <2>9. QED
    BY <2>7, <2>8, TypesSplit, PTL
<1>9. ASSUME NEW w \in Workers, ReadStatuses(w) PROVE Types'
  <2>1. PICK send : /\ send \subseteq worker[w].claim
                    /\ worker' = [worker EXCEPT ![w].pc = "write", ![w].send = send]
    <3>1. PICK send : send = {i \in worker[w].claim :
             IsSendableStatus(GetOrderStatusesBatch(worker[w].claim)[outbox[i].id])}
      OBVIOUS
    <3>2. worker' = [worker EXCEPT ![w].pc = "write", ![w].send = send]
      BY <1>9, <3>1, Zenon DEF ReadStatuses
    <3>3. QED
      BY <3>1, <3>2
  <2>2. worker[w] \in WorkerState
    BY <1>1 DEF WorkTypes
  <2>3. PICK st : st = [worker[w] EXCEPT !.pc = "write", !.send = send]
    OBVIOUS
  <2>4. worker' = [worker EXCEPT ![w] = st]
    BY <1>1, <2>1, <2>2, <2>3 DEF WorkTypes, WorkerState
  <2>5. st \in WorkerState /\ st.claim = worker[w].claim /\ st.send \subseteq st.claim /\ st.pc # "idle"
    BY <2>1, <2>2, <2>3 DEF WorkerState
  <2>6. WorkTypes'
    BY <1>1, <1>9, <2>4, <2>5, WorkerMoves DEF ReadStatuses, db
  <2>7. DbTypes' /\ BookTypes' /\ ConsumerTypes'
    BY <1>1, <1>3, <1>4, <1>9 DEF ReadStatuses, db, shard, DbTypes
  <2>8. QED
    BY <2>6, <2>7, TypesSplit, PTL
<1>10. ASSUME NEW w \in Workers, WriteBatch(w) \/ WriteBatchFails(w) PROVE Types'
  <2>1. /\ topic' \in Seq(Command)
        /\ \A i \in DOMAIN topic : i \in DOMAIN topic' /\ topic'[i] = topic[i]
    BY <1>10, TopicGets, Zenon
  <2>2. PICK pc \in {"commit", "blocked"} : worker' = [worker EXCEPT ![w].pc = pc]
    BY <1>10, Zenon DEF WriteBatch, WriteBatchFails
  <2>3. UNCHANGED <<status, outbox, published, shard, consumer, recon>>
    BY <1>10, Zenon DEF WriteBatch, WriteBatchFails, db
  <2>4. worker[w] \in WorkerState
    BY <1>1 DEF WorkTypes
  <2>5. PICK st : st = [worker[w] EXCEPT !.pc = pc]
    OBVIOUS
  <2>6. worker' = [worker EXCEPT ![w] = st]
    BY <1>1, <2>2, <2>4, <2>5 DEF WorkTypes, WorkerState
  <2>7. st \in WorkerState /\ st.claim = worker[w].claim /\ st.send \subseteq st.claim /\ st.pc # "idle"
    BY <1>1, <2>2, <2>4, <2>5 DEF WorkerState, WorkTypes
  <2>8. WorkTypes'
    BY <1>1, <2>3, <2>6, <2>7, WorkerMoves
  <2>9. DbTypes'
    BY <1>1, <2>1, <2>3 DEF DbTypes
  <2>10. Len(topic') >= Len(topic)
    <3>1. PICK m \in Nat : m = Len(topic) /\ DOMAIN topic = 1..m
      BY <1>1 DEF DbTypes
    <3>2. PICK n \in Nat : n = Len(topic') /\ DOMAIN topic' = 1..n
      BY <2>1
    <3>3. CASE m = 0
      BY <3>1, <3>2, <3>3
    <3>4. CASE m # 0
      <4>1. m \in 1..m
        BY <3>4
      <4>2. m \in 1..n
        BY <2>1, <3>1, <3>2, <4>1
      <4>3. QED
        BY <3>1, <3>2, <4>2
    <3>5. QED
      BY <3>3, <3>4
  <2>11. BookTypes'
    <3>1. pos \in 0..Len(topic')
      BY <1>1, <2>1, <2>10 DEF BookTypes, DbTypes
    <3>2. QED
      BY <1>1, <2>3, <3>1 DEF BookTypes, shard
  <2>12. ConsumerTypes'
    BY <1>4, <2>3 DEF shard
  <2>13. QED
    BY <2>8, <2>9, <2>11, <2>12, TypesSplit, PTL
<1>11. ASSUME NEW w \in Workers, CommitClaim(w) PROVE Types'
  <2>1. worker' = [worker EXCEPT ![w] = Idle] /\ published' = published \cup worker[w].claim /\ outbox' = outbox
    BY <1>11 DEF CommitClaim, MarkPublishedBatch
  <2>2. Idle \in WorkerState /\ Idle.claim = {} /\ Idle.send = {} /\ Idle.pc = "idle"
    BY DEF Idle, WorkerState
  <2>3. /\ worker \in [Workers -> WorkerState]
        /\ Workers' = Workers /\ worker' \in [Workers -> WorkerState]
        /\ worker'[w] = Idle /\ \A v \in Workers \ {w} : worker'[v] = worker[v]
    BY <1>1, <2>1, <2>2 DEF WorkTypes, Workers
  <2>4. WorkTypes'
    BY <1>1, <2>1, <2>2, <2>3 DEF WorkTypes
  <2>5. DbTypes' /\ BookTypes' /\ ConsumerTypes'
    BY <1>1, <1>3, <1>4, <1>11 DEF CommitClaim, shard, DbTypes
  <2>6. QED
    BY <2>4, <2>5, TypesSplit, PTL
<1>12. ASSUME Match PROVE Types'
  <2>1. pos' = pos + 1 /\ pos + 1 \in DOMAIN topic /\ topic[pos + 1] \in Command /\ Handles(topic[pos + 1])
    BY <1>12, MatchEffects
  <2>2. UNCHANGED <<status, outbox, published, worker, topic, consumer, recon>>
    BY <1>12 DEF Match, db, relay
  <2>3. DbTypes' /\ WorkTypes'
    BY <1>1, <1>2, <2>2 DEF DbTypes
  <2>4. BookTypes'
    <3>1. topic[pos + 1].id \in Orders
      BY <2>1 DEF Command
    <3>2. pos + 1 \in 0..Len(topic)
      BY <1>1, <2>1 DEF BookTypes, DbTypes
    <3>3. QED
      BY <1>1, <2>1, <2>2, <3>1, <3>2 DEF BookTypes, Handles
  <2>5. Len(events') >= Len(events)
    <3>1. PICK m \in Nat : m = Len(events) /\ DOMAIN events = 1..m
      BY <1>1 DEF BookTypes
    <3>2. PICK n \in Nat : n = Len(events') /\ DOMAIN events' = 1..n
      BY <2>4 DEF BookTypes
    <3>3. CASE m = 0
      BY <3>1, <3>2, <3>3
    <3>4. CASE m # 0
      <4>1. m \in 1..m
        BY <3>4
      <4>2. m \in 1..n
        BY <2>1, <3>1, <3>2, <4>1 DEF Handles
      <4>3. QED
        BY <3>1, <3>2, <4>2
    <3>5. QED
      BY <3>3, <3>4
  <2>6. ConsumerTypes'
    <3>1. ToSet(events) \subseteq ToSet(events')
      BY <2>1 DEF Handles, ToSet
    <3>2. Len(events) \in Nat /\ Len(events') \in Nat
      BY <1>1, <2>4 DEF BookTypes
    <3>3. evPos \in 0..Len(events') /\ (evPos < Len(events) => evPos < Len(events'))
      BY <1>1, <2>5, <3>2 DEF ConsumerTypes
    <3>4. QED
      BY <1>1, <2>2, <3>1, <3>3 DEF ConsumerTypes, consumer, push
  <2>7. QED
    BY <2>3, <2>4, <2>6, TypesSplit, PTL
<1>13. ASSUME ApplyMatchEvent PROVE Types'
  <2>1. PICK ev : ev = events[evPos + 1]
    OBVIOUS
  <2>2. /\ evPos < Len(events) /\ pushing = {}
        /\ status' = IF ev \in processed \/ status[ev.id] \in Terminal THEN status
                     ELSE [status EXCEPT ![ev.id] = ev.type]
        /\ processed' = processed \cup {ev}
        /\ IF ev \in processed THEN evPos' = evPos + 1 /\ pushing' = pushing
                               ELSE pushing' = {ev.id} /\ evPos' = evPos
        /\ UNCHANGED <<outbox, published, relay, shard, pushed, unpushed, recon>>
    BY <1>13, <2>1, Zenon DEF ApplyMatchEvent
  <2>3. evPos + 1 \in DOMAIN events /\ evPos + 1 \in 0..Len(events) /\ ev \in Event
    BY <1>1, <2>1, <2>2 DEF ConsumerTypes, BookTypes
  <2>4. ev.id \in Orders /\ ev.type \in Status /\ ev \in ToSet(events)
    BY <2>1, <2>3 DEF Event, Status, ToSet
  <2>5. DbTypes'
    BY <1>1, <2>2, <2>4 DEF DbTypes, relay
  <2>6. WorkTypes' /\ BookTypes'
    BY <1>2, <1>3, <2>2 DEF relay
  <2>7. ConsumerTypes'
    <3>1. processed' \subseteq ToSet(events) /\ events' = events /\ pushed' = pushed
      BY <1>1, <2>2, <2>4 DEF ConsumerTypes, shard
    <3>2. CASE ev \in processed
      BY <1>1, <2>2, <2>3, <3>1, <3>2 DEF ConsumerTypes
    <3>3. CASE ev \notin processed
      BY <1>1, <2>2, <2>4, <3>1, <3>3 DEF ConsumerTypes
    <3>4. QED
      BY <3>2, <3>3
  <2>8. QED
    BY <2>5, <2>6, <2>7, TypesSplit, PTL
<1>14. ASSUME PublishOrderUpdate PROVE Types'
  <2>1. PICK o \in pushing : pushed' = [pushed EXCEPT ![o] = status[o]]
    BY <1>14 DEF PublishOrderUpdate, UpdateOf
  <2>2. pushing' = {} /\ evPos' = evPos + 1 /\ UNCHANGED <<db, relay, shard, processed, recon>>
    BY <1>14 DEF PublishOrderUpdate
  <2>3. evPos + 1 \in 0..Len(events)
    BY <1>1, <2>1 DEF ConsumerTypes, BookTypes
  <2>4. ConsumerTypes'
    BY <1>1, <2>1, <2>2, <2>3 DEF ConsumerTypes, DbTypes, shard
  <2>5. DbTypes' /\ WorkTypes' /\ BookTypes'
    BY <1>1, <1>2, <1>3, <2>2 DEF DbTypes, db, relay
  <2>6. QED
    BY <2>4, <2>5, TypesSplit, PTL
<1>15. ASSUME PublishOrderUpdateFails PROVE Types'
  <2>1. pushing' = {} /\ UNCHANGED <<db, worker, topic, shard, evPos, processed, pushed, recon>>
    BY <1>15 DEF PublishOrderUpdateFails
  <2>2. ConsumerTypes'
    BY <1>1, <2>1 DEF ConsumerTypes, shard
  <2>3. DbTypes' /\ WorkTypes' /\ BookTypes'
    BY <1>1, <1>2, <1>3, <2>1 DEF DbTypes, db
  <2>4. QED
    BY <2>2, <2>3, TypesSplit, PTL
<1>16. ASSUME NEW o \in Orders, FindStalePending(o) PROVE Types'
  <2>1. DbTypes' /\ WorkTypes' /\ BookTypes' /\ ConsumerTypes'
    BY <1>1, <1>2, <1>3, <1>4, <1>16 DEF FindStalePending, DbTypes, db, relay, shard
  <2>2. QED
    BY <2>1, TypesSplit, PTL
<1>17. ASSUME NEW o \in Orders, RejectStalePending(o) PROVE Types'
  <2>1. UNCHANGED <<published, relay, shard, consumer>> /\ recon' = recon \ {o}
    BY <1>17 DEF RejectStalePending
  <2>2. BookTypes' /\ ConsumerTypes'
    BY <1>3, <1>4, <2>1 DEF relay, shard
  <2>3. CASE status[o] = "PENDING"
    <3>1. status' = [status EXCEPT ![o] = "REJECTED"] /\ InsertOutboxRow(CancelCommand(o))
      BY <1>17, <2>3 DEF RejectStalePending, InsertCancelOutbox
    <3>2. DbTypes' /\ WorkTypes'
      BY <1>1, <1>5, <2>1, <3>1, CommandTypes DEF DbTypes, relay, Status
    <3>3. QED
      BY <2>2, <3>2, TypesSplit, PTL
  <2>4. CASE status[o] # "PENDING"
    <3>1. status' = status /\ outbox' = outbox
      BY <1>17, <2>4 DEF RejectStalePending
    <3>2. DbTypes' /\ WorkTypes'
      BY <1>1, <1>2, <2>1, <3>1 DEF DbTypes, relay
    <3>3. QED
      BY <2>2, <3>2, TypesSplit, PTL
  <2>5. QED
    BY <2>3, <2>4
<1>18. ASSUME NEW o \in Orders, ResendCancel(o) PROVE Types'
  <2>1. DbTypes'
    BY <1>1, <1>5, <1>18, CommandTypes DEF ResendCancel, InsertCancelOutbox, DbTypes, relay
  <2>2. WorkTypes' /\ BookTypes' /\ ConsumerTypes'
    BY <1>3, <1>4, <1>5, <1>18, CommandTypes DEF ResendCancel, InsertCancelOutbox, relay, shard
  <2>3. QED
    BY <2>1, <2>2, TypesSplit, PTL
<1>19. ASSUME Restart PROVE Types'
  <2>1. /\ worker' = [w \in Workers |-> Idle] /\ recon' = {} /\ pushing' = {}
        /\ evPos' \in {n \in {evPos, evPos - 1} : n >= 0}
        /\ UNCHANGED <<db, topic, shard, processed, pushed>>
    BY <1>19 DEF Restart, Rollback
  <2>2. Idle \in WorkerState /\ Idle.claim = {} /\ Idle.send = {} /\ Idle.pc = "idle"
    BY DEF Idle, WorkerState
  <2>3. /\ Workers' = Workers /\ worker' \in [Workers -> WorkerState]
        /\ \A v \in Workers : worker'[v] = Idle
    BY <2>1, <2>2 DEF Workers
  <2>4. WorkTypes'
    BY <1>1, <2>1, <2>2, <2>3 DEF WorkTypes, db
  <2>5. evPos' \in 0..Len(events)
    BY <1>1, <2>1 DEF ConsumerTypes, BookTypes
  <2>6. ConsumerTypes'
    BY <1>1, <2>1, <2>5 DEF ConsumerTypes, shard
  <2>7. DbTypes' /\ BookTypes'
    BY <1>1, <1>3, <2>1 DEF DbTypes, db
  <2>8. QED
    BY <2>4, <2>6, <2>7, TypesSplit, PTL
<1>20. CASE UNCHANGED vars
  <2>1. DbTypes' /\ WorkTypes' /\ BookTypes' /\ ConsumerTypes'
    BY <1>1, <1>2, <1>3, <1>4, <1>20 DEF vars, DbTypes, shard, consumer, push
  <2>2. QED
    BY <2>1, TypesSplit, PTL
<1>21. QED
  BY <1>6, <1>7, <1>8, <1>9, <1>10, <1>11, <1>12, <1>13, <1>14, <1>15, <1>16, <1>17, <1>18, <1>19, <1>20
     DEF Next, Work, RunTopic, Reconcile

(* TypeOK holds for every set of orders, any number of workers, every      *)
(* batch size and any number of cancels and faults.                        *)
THEOREM TypeCorrect == Spec => []TypeOK
<1>1. Types => TypeOK
  BY DEF Types
<1>2. QED
  BY <1>1, InitTypes, NextTypes, PTL DEF Spec

-----------------------------------------------------------------------------
(* What the shard did.                                                     *)

(* Every command and every event is about an order that was placed.        *)
Placed ==
    /\ \A i \in DOMAIN outbox : status[outbox[i].id] # "none"
    /\ \A i \in DOMAIN topic : status[topic[i].id] # "none"
    /\ \A o \in seen : status[o] # "none"
    /\ \A i \in DOMAIN events : status[events[i].id] # "none"

(* An event says what happened to the order in the book.                   *)
EventsTrue ==
    \A i \in DOMAIN events :
        LET o == events[i].id IN
        /\ events[i].type \in {"ACCEPTED", "PARTIAL", "FILLED"} => o \in seen
        /\ events[i].type = "FILLED" => o \in filled
        /\ events[i].type = "CANCELED" => \E k \in 1..pos : topic[k] = CancelCommand(o)
        /\ events[i].type = "PARTIAL" =>
              \A j \in DOMAIN events : (events[j].id = o /\ events[j].type = "ACCEPTED") => j < i

(* A filled order does not rest, nor does one whose cancel was handled     *)
(* after it; an order that was handled is known or was refused.            *)
BookTrue ==
    /\ filled \cap active = {}
    /\ \A k \in 1..pos : topic[k].kind = "New" => topic[k].id \in seen \/ readOnly
    /\ \A k \in 1..pos : (topic[k].kind = "Cancel" /\ topic[k].id \in active) =>
          \A j \in 1..k - 1 : topic[j] # NewCommand(topic[k].id)

(* What the consumer has read it has applied, and a status that an event   *)
(* gave is one the shard reported.                                         *)
StatusTrue ==
    /\ \A i \in 1..evPos : events[i] \in processed
    /\ pushing # {} => events[evPos + 1] \in processed
    /\ \A o \in Orders :
         /\ status[o] \in {"ACCEPTED", "PARTIAL", "FILLED"} => o \in seen
         /\ status[o] = "FILLED" => o \in filled
         /\ status[o] = "CANCELED" => \E k \in 1..pos : topic[k] = CancelCommand(o)
         /\ status[o] = "PARTIAL" =>
              \A j \in DOMAIN events :
                 (events[j].id = o /\ events[j].type = "ACCEPTED") => events[j] \in processed

(* Commands and events are about orders.                                   *)
LEMMA AboutOrders ==
    /\ \A s \in Seq(Command) : \A i \in DOMAIN s : s[i] \in Command /\ s[i].id \in Orders
    /\ \A s \in Seq(Event) : \A i \in DOMAIN s :
          s[i] \in Event /\ s[i].id \in Orders /\ s[i].type \in EventType
<1>1. \A c \in Command : c.id \in Orders
  BY DEF Command
<1>2. \A e \in Event : e.id \in Orders /\ e.type \in EventType
  BY DEF Event
<1>3. ASSUME NEW T, NEW s \in Seq(T), NEW i \in DOMAIN s PROVE s[i] \in T
  OBVIOUS
<1>4. QED
  BY <1>1, <1>2, <1>3

Truth == Placed /\ EventsTrue /\ BookTrue /\ StatusTrue

(* The initial state.                                                      *)
LEMMA InitTruth == Init => Truth
<1> SUFFICES ASSUME Init PROVE Truth
  OBVIOUS
<1>1. DOMAIN outbox = {} /\ DOMAIN topic = {} /\ DOMAIN events = {}
  BY DEF Init
<1>2. Placed /\ EventsTrue
  BY <1>1 DEF Init, Placed, EventsTrue
<1>3. BookTrue
  <2>1. 1..pos = {} /\ filled \cap active = {}
    BY DEF Init
  <2>2. QED
    BY <2>1 DEF BookTrue
<1>4. StatusTrue
  <2>1. 1..evPos = {} /\ pushing = {} /\ \A o \in Orders : status[o] = "none"
    BY DEF Init
  <2>2. QED
    BY <2>1 DEF StatusTrue
<1>5. QED
  BY <1>2, <1>3, <1>4 DEF Truth

(* A request or the reconciler writes a row and may change the status of   *)
(* an order to one that no event gives.                                    *)
LEMMA RowTruth ==
    ASSUME Types, Truth, NEW c \in Command, InsertOutboxRow(c),
           UNCHANGED <<topic, shard, evPos, processed, pushing>>,
           \A o \in Orders : \/ status'[o] = status[o]
                             \/ status'[o] \in {"PENDING", "CANCELING", "REJECTED"},
           status'[c.id] # "none"
    PROVE  Truth'
<1>1. /\ outbox \in Seq(Command) /\ topic \in Seq(Command)
      /\ seen \subseteq Orders /\ events \in Seq(Event)
  BY DEF Types, TypeOK
<1>2. \A o \in Orders : status[o] # "none" => status'[o] # "none"
  OBVIOUS
<1>3. Placed'
  <2>1. \A i \in DOMAIN outbox : outbox[i].id \in Orders
    BY <1>1, AboutOrders
  <2>2. \A i \in DOMAIN topic : topic[i].id \in Orders
    BY <1>1, AboutOrders
  <2>3. \A i \in DOMAIN events : events[i].id \in Orders
    BY <1>1, AboutOrders
  <2>4. ASSUME NEW i \in DOMAIN outbox' PROVE status'[outbox'[i].id] # "none"
    <3>1. CASE i \in DOMAIN outbox
      BY <1>1, <1>2, <2>1, <3>1, RowAdded DEF Truth, Placed
    <3>2. CASE i = Len(outbox) + 1
      BY <1>1, <3>2, RowAdded
    <3>3. QED
      BY <1>1, <3>1, <3>2, RowAdded
  <2>5. QED
    BY <1>1, <1>2, <2>2, <2>3, <2>4 DEF Truth, Placed, shard
<1>4. EventsTrue' /\ BookTrue'
  BY DEF Truth, EventsTrue, BookTrue, shard
<1>5. StatusTrue'
  <2>1. ASSUME NEW o \in Orders
        PROVE  /\ status'[o] \in {"ACCEPTED", "PARTIAL", "FILLED"} => o \in seen
               /\ status'[o] = "FILLED" => o \in filled
               /\ status'[o] = "CANCELED" => \E k \in 1..pos : topic[k] = CancelCommand(o)
               /\ status'[o] = "PARTIAL" =>
                    \A j \in DOMAIN events :
                       (events[j].id = o /\ events[j].type = "ACCEPTED") => events[j] \in processed
    <3>1. CASE status'[o] = status[o]
      BY <3>1 DEF Truth, StatusTrue
    <3>2. CASE status'[o] \in {"PENDING", "CANCELING", "REJECTED"}
      BY <3>2
    <3>3. QED
      BY <3>1, <3>2
  <2>2. QED
    BY <2>1 DEF Truth, StatusTrue, shard
<1>6. QED
  BY <1>3, <1>4, <1>5 DEF Truth

(* The orders, the commands and the events stay as they are; the consumer  *)
(* may go back.                                                            *)
LEMMA QuietTruth ==
    ASSUME Types, Truth, UNCHANGED <<status, outbox, topic, shard, processed>>,
           evPos' \in Nat, evPos' <= evPos,
           pushing' = {} \/ (pushing' = pushing /\ evPos' = evPos)
    PROVE  Truth'
<1>1. Placed' /\ EventsTrue' /\ BookTrue'
  BY DEF Truth, Placed, EventsTrue, BookTrue, shard
<1>2. \A i \in 1..evPos' : i \in 1..evPos
  BY DEF Types, TypeOK
<1>3. StatusTrue'
  BY <1>2 DEF Truth, StatusTrue, shard
<1>4. QED
  BY <1>1, <1>3 DEF Truth

(* The relay sends.                                                        *)
LEMMA SendTruth ==
    ASSUME Types, Truth, NEW w \in Workers, WriteBatch(w) \/ WriteBatchFails(w)
    PROVE  Truth'
<1>1. UNCHANGED <<status, outbox, shard, consumer>>
  BY Zenon DEF WriteBatch, WriteBatchFails, db
<1>2. /\ topic' \in Seq(Command)
      /\ \A i \in DOMAIN topic : i \in DOMAIN topic' /\ topic'[i] = topic[i]
      /\ \E p : /\ \A i \in DOMAIN topic' \ DOMAIN topic :
                      p[i] \in worker[w].send /\ topic'[i] = outbox[p[i]]
                /\ \A i \in DOMAIN topic' \ DOMAIN topic : \A r \in worker[w].send :
                      r < p[i] => \E j \in DOMAIN topic' \ DOMAIN topic : j < i /\ p[j] = r
                /\ WriteBatch(w) => \A r \in worker[w].send :
                      \E j \in DOMAIN topic' \ DOMAIN topic : p[j] = r
  BY TopicGets, Zenon
<1>3. \A i \in DOMAIN topic' \ DOMAIN topic : \E r \in worker[w].send : topic'[i] = outbox[r]
  BY <1>2
<1>4. worker[w].send \subseteq DOMAIN outbox
  BY DEF Types, TypeOK
<1>5. Placed'
  <2>1. ASSUME NEW i \in DOMAIN topic' PROVE status[topic'[i].id] # "none"
    <3>1. CASE i \in DOMAIN topic
      BY <1>2, <3>1 DEF Truth, Placed
    <3>2. CASE i \notin DOMAIN topic
      BY <1>3, <1>4, <3>2 DEF Truth, Placed
    <3>3. QED
      BY <3>1, <3>2
  <2>2. QED
    BY <1>1, <2>1 DEF Truth, Placed, shard
<1>6. \A k \in 1..pos : k \in DOMAIN topic /\ topic'[k] = topic[k]
  <2>1. \A k \in 1..pos : k \in DOMAIN topic
    BY DEF Types, TypeOK
  <2>2. QED
    BY <1>2, <2>1
<1>7. EventsTrue'
  BY <1>1, <1>6 DEF Truth, EventsTrue, shard
<1>8. BookTrue'
  <2>1. \A k \in 1..pos : \A j \in 1..k - 1 : j \in 1..pos
    BY DEF Types, TypeOK
  <2>2. QED
    BY <1>1, <1>6, <2>1 DEF Truth, BookTrue, shard
<1>9. StatusTrue'
  BY <1>1, <1>6 DEF Truth, StatusTrue, shard, consumer, push
<1>10. QED
  BY <1>5, <1>7, <1>8, <1>9 DEF Truth

(* The shard handles a command.                                            *)
LEMMA MatchTruth ==
    ASSUME Types, Truth, Match
    PROVE  Truth'
<1>1. PICK cmd : cmd = topic[pos + 1]
  OBVIOUS
<1>2. pos' = pos + 1 /\ pos + 1 \in DOMAIN topic /\ cmd \in Command /\ Handles(cmd)
  BY <1>1, MatchEffects
<1>3. UNCHANGED <<status, outbox, topic, readOnly, consumer>>
  BY DEF Match, db, relay
<1>4. /\ topic \in Seq(Command) /\ pos \in Nat /\ pos \in 0..Len(topic)
      /\ events \in Seq(Event) /\ evPos \in 0..Len(events) /\ filled \subseteq seen /\ active \subseteq seen
  BY DEF Types, TypeOK
<1>5. \A k \in 1..pos' : k \in 1..pos \/ k = pos + 1
  BY <1>2, <1>4
<1>6. \A k \in 1..pos : k \in 1..pos'
  BY <1>2, <1>4
<1>7. PICK o : o = cmd.id
  OBVIOUS
<1>8. o \in Orders /\ status[o] # "none"
  BY <1>1, <1>2, <1>7 DEF Truth, Placed, Command
<1>9. events' \in Seq(Event)
  BY <1>2 DEF Handles
<1>10. \A i \in DOMAIN events : i \in DOMAIN events' /\ events'[i] = events[i]
  BY <1>2 DEF Handles
<1>11. ASSUME NEW i \in DOMAIN events' \ DOMAIN events
       PROVE  /\ NewEvent(events'[i], cmd, i)
              /\ events'[i].type \in EventType /\ events'[i].id \in Orders
  BY <1>2, <1>9, AboutOrders DEF Handles
<1>12. /\ seen \subseteq seen' /\ seen' \subseteq seen \cup {o} /\ filled \subseteq filled'
       /\ active' \subseteq active \cup {o}
       /\ o \in active' => cmd.kind = "New" /\ (o \in active \/ (o \notin seen /\ ~readOnly))
       /\ cmd.kind = "New" => o \in seen' \/ readOnly
       /\ filled \cap active = {} => filled' \cap active' = {}
  BY <1>2, <1>7 DEF Handles
<1>13. PICK l \in Nat : l = Len(events) /\ DOMAIN events = 1..l
  BY <1>4
<1>14. \A i \in DOMAIN events' \ DOMAIN events : i >= l + 1 /\ i \in Nat
  BY <1>9, <1>13
<1>15. Placed'
  <2>1. \A x \in seen' : status[x] # "none"
    BY <1>8, <1>12 DEF Truth, Placed
  <2>2. ASSUME NEW i \in DOMAIN events' PROVE status[events'[i].id] # "none"
    <3>1. CASE i \in DOMAIN events
      BY <1>10, <3>1 DEF Truth, Placed
    <3>2. CASE i \notin DOMAIN events /\ events'[i].type = "CANCELED"
      <4>1. cmd = CancelCommand(events'[i].id)
        BY <1>11, <3>2 DEF NewEvent
      <4>2. events'[i].id = o
        BY <1>7, <4>1 DEF CancelCommand
      <4>3. QED
        BY <1>8, <4>2
    <3>3. CASE i \notin DOMAIN events /\ events'[i].type # "CANCELED"
      <4>1. events'[i].id \in seen'
        BY <1>11, <3>3 DEF NewEvent
      <4>2. QED
        BY <2>1, <4>1
    <3>4. QED
      BY <3>1, <3>2, <3>3
  <2>3. QED
    BY <1>3, <2>1, <2>2 DEF Truth, Placed
<1>16. EventsTrue'
  <2>1. SUFFICES ASSUME NEW i \in DOMAIN events'
                 PROVE  /\ events'[i].type \in {"ACCEPTED", "PARTIAL", "FILLED"} => events'[i].id \in seen'
                        /\ events'[i].type = "FILLED" => events'[i].id \in filled'
                        /\ events'[i].type = "CANCELED" =>
                              \E k \in 1..pos' : topic'[k] = CancelCommand(events'[i].id)
                        /\ events'[i].type = "PARTIAL" =>
                              \A j \in DOMAIN events' :
                                 (events'[j].id = events'[i].id /\ events'[j].type = "ACCEPTED") => j < i
    BY DEF EventsTrue
  <2>2. CASE i \in DOMAIN events
    <3>1. events'[i] = events[i]
      BY <1>10, <2>2
    <3>2. /\ events[i].type \in {"ACCEPTED", "PARTIAL", "FILLED"} => events[i].id \in seen
          /\ events[i].type = "FILLED" => events[i].id \in filled
          /\ events[i].type = "CANCELED" => \E k \in 1..pos : topic[k] = CancelCommand(events[i].id)
          /\ events[i].type = "PARTIAL" =>
                \A j \in DOMAIN events :
                   (events[j].id = events[i].id /\ events[j].type = "ACCEPTED") => j < i
      BY <2>2 DEF Truth, EventsTrue
    <3>3. ASSUME NEW j \in DOMAIN events', events[i].type = "PARTIAL",
                 events'[j].id = events[i].id, events'[j].type = "ACCEPTED"
          PROVE  j < i
      <4>1. CASE j \in DOMAIN events
        BY <1>10, <3>2, <3>3, <4>1
      <4>2. CASE j \notin DOMAIN events
        <5>1. events'[j].id \notin seen
          BY <1>11, <3>3, <4>2 DEF NewEvent
        <5>2. QED
          BY <3>2, <3>3, <5>1
      <4>3. QED
        BY <4>1, <4>2
    <3>4. events[i].type = "CANCELED" => \E k \in 1..pos' : topic'[k] = CancelCommand(events[i].id)
      BY <1>3, <1>6, <3>2
    <3>5. QED
      BY <1>12, <3>1, <3>2, <3>3, <3>4
  <2>3. CASE i \notin DOMAIN events
    <3>1. NewEvent(events'[i], cmd, i)
      BY <1>11, <2>3
    <3>2. ASSUME NEW j \in DOMAIN events', events'[i].type = "PARTIAL", events'[j].type = "ACCEPTED"
          PROVE  j < i
      <4>1. i >= l + 1 /\ i # l + 1 /\ i \in Nat
        BY <1>13, <1>14, <2>3, <3>1, <3>2 DEF NewEvent
      <4>2. CASE j \in DOMAIN events
        BY <1>13, <4>1, <4>2
      <4>3. CASE j \notin DOMAIN events
        <5>1. j = l + 1
          BY <1>11, <1>13, <3>2, <4>3 DEF NewEvent
        <5>2. QED
          BY <1>13, <4>1, <5>1
      <4>4. QED
        BY <4>2, <4>3
    <3>3. events'[i].type = "CANCELED" => \E k \in 1..pos' : topic'[k] = CancelCommand(events'[i].id)
      <4>1. pos + 1 \in 1..pos'
        BY <1>2, <1>4
      <4>2. QED
        BY <1>1, <1>3, <3>1, <4>1 DEF NewEvent
    <3>4. /\ events'[i].type \in {"ACCEPTED", "PARTIAL", "FILLED"} => events'[i].id \in seen'
          /\ events'[i].type = "FILLED" => events'[i].id \in filled'
      BY <3>1 DEF NewEvent
    <3>5. QED
      BY <3>2, <3>3, <3>4
  <2>4. QED
    BY <2>2, <2>3
<1>17. BookTrue'
  <2>1. filled' \cap active' = {}
    BY <1>12 DEF Truth, BookTrue
  <2>2. ASSUME NEW k \in 1..pos', topic[k].kind = "New" PROVE topic[k].id \in seen' \/ readOnly
    <3>1. CASE k \in 1..pos
      BY <1>12, <2>2, <3>1 DEF Truth, BookTrue
    <3>2. CASE k = pos + 1
      BY <1>1, <1>7, <1>12, <2>2, <3>2
    <3>3. QED
      BY <1>5, <3>1, <3>2
  <2>3. ASSUME NEW k \in 1..pos', topic[k].kind = "Cancel", topic[k].id \in active',
               NEW j \in 1..k - 1
        PROVE  topic[j] # NewCommand(topic[k].id)
    <3>1. j \in 1..pos
      BY <1>2, <1>4
    <3>2. k \in 1..pos
      BY <1>1, <1>5, <1>7, <1>12, <2>3
    <3>3. CASE topic[k].id \in active
      BY <2>3, <3>2, <3>3 DEF Truth, BookTrue
    <3>4. CASE topic[k].id \notin active
      <4>1. topic[k].id = o /\ o \notin seen /\ ~readOnly
        BY <1>12, <2>3, <3>4
      <4>2. topic[j].kind = "New" => topic[j].id # o
        BY <3>1, <4>1 DEF Truth, BookTrue
      <4>3. QED
        BY <4>1, <4>2 DEF NewCommand
    <3>5. QED
      BY <3>3, <3>4
  <2>4. QED
    BY <1>3, <2>1, <2>2, <2>3 DEF BookTrue
<1>18. StatusTrue'
  <2>1. ASSUME NEW x \in Orders
        PROVE  /\ status[x] \in {"ACCEPTED", "PARTIAL", "FILLED"} => x \in seen'
               /\ status[x] = "FILLED" => x \in filled'
               /\ status[x] = "CANCELED" => \E k \in 1..pos' : topic'[k] = CancelCommand(x)
    BY <1>3, <1>6, <1>12 DEF Truth, StatusTrue
  <2>2. ASSUME NEW x \in Orders, status[x] = "PARTIAL", NEW j \in DOMAIN events',
               events'[j].id = x, events'[j].type = "ACCEPTED"
        PROVE  events'[j] \in processed
    <3>1. CASE j \in DOMAIN events
      BY <1>10, <2>2, <3>1 DEF Truth, StatusTrue
    <3>2. CASE j \notin DOMAIN events
      <4>1. x \notin seen
        BY <1>11, <2>2, <3>2 DEF NewEvent
      <4>2. QED
        BY <2>2, <4>1 DEF Truth, StatusTrue
    <3>3. QED
      BY <3>1, <3>2
  <2>3. \A i \in 1..evPos : events'[i] \in processed
    <3>1. \A i \in 1..evPos : i \in DOMAIN events
      BY <1>4
    <3>2. QED
      BY <1>10, <3>1 DEF Truth, StatusTrue
  <2>4. pushing # {} => events'[evPos + 1] \in processed
    <3>1. pushing # {} => evPos + 1 \in DOMAIN events
      BY <1>4 DEF Types
    <3>2. QED
      BY <1>10, <3>1 DEF Truth, StatusTrue
  <2>5. evPos' = evPos /\ pushing' = pushing /\ processed' = processed
    BY <1>3 DEF consumer, push
  <2>6. QED
    BY <1>3, <2>1, <2>2, <2>3, <2>4, <2>5 DEF StatusTrue
<1>19. QED
  BY <1>15, <1>16, <1>17, <1>18 DEF Truth

(* The consumer applies an event.                                          *)
LEMMA ApplyTruth ==
    ASSUME Types, Truth, ApplyMatchEvent
    PROVE  Truth'
<1>1. PICK ev : ev = events[evPos + 1]
  OBVIOUS
<1>2. /\ evPos < Len(events) /\ pushing = {}
      /\ status' = IF ev \in processed \/ status[ev.id] \in Terminal THEN status
                   ELSE [status EXCEPT ![ev.id] = ev.type]
      /\ processed' = processed \cup {ev}
      /\ IF ev \in processed THEN evPos' = evPos + 1 /\ pushing' = pushing
                             ELSE pushing' = {ev.id} /\ evPos' = evPos
      /\ UNCHANGED <<outbox, published, relay, shard, pushed, unpushed, recon>>
  BY <1>1, Zenon DEF ApplyMatchEvent
<1>3. /\ events \in Seq(Event) /\ evPos \in 0..Len(events)
      /\ status \in [Orders -> Status \cup {"none"}] /\ outbox \in Seq(Command)
      /\ topic \in Seq(Command) /\ seen \subseteq Orders
  BY DEF Types, TypeOK
<1>4. evPos + 1 \in DOMAIN events /\ ev \in Event
  BY <1>1, <1>2, <1>3
<1>5. ev.id \in Orders /\ ev.type \in EventType
  BY <1>4 DEF Event
<1>6. \A x \in Orders : status'[x] = status[x] \/ (x = ev.id /\ status'[x] = ev.type)
  BY <1>2, <1>3, <1>5
<1>7. \A x \in Orders : status[x] # "none" => status'[x] # "none"
  BY <1>5, <1>6 DEF EventType
<1>8. outbox' = outbox /\ topic' = topic /\ UNCHANGED shard
  BY <1>2 DEF relay
<1>9. Placed'
  <2>1. \A i \in DOMAIN outbox : outbox[i].id \in Orders
    BY <1>3, AboutOrders
  <2>2. \A i \in DOMAIN topic : topic[i].id \in Orders
    BY <1>3, AboutOrders
  <2>3. \A i \in DOMAIN events : events[i].id \in Orders
    BY <1>3, AboutOrders
  <2>4. QED
    BY <1>3, <1>7, <1>8, <2>1, <2>2, <2>3 DEF Truth, Placed, shard
<1>10. EventsTrue' /\ BookTrue'
  BY <1>8 DEF Truth, EventsTrue, BookTrue, shard
<1>11. StatusTrue'
  <2>1. \A i \in 1..evPos' : events[i] \in processed'
    <3>1. \A i \in 1..evPos' : i \in 1..evPos \/ (i = evPos + 1)
      BY <1>2, <1>3
    <3>2. QED
      BY <1>1, <1>2, <3>1 DEF Truth, StatusTrue
  <2>2. pushing' # {} => events[evPos' + 1] \in processed'
    BY <1>1, <1>2
  <2>3. /\ ev.type \in {"ACCEPTED", "PARTIAL", "FILLED"} => ev.id \in seen
        /\ ev.type = "FILLED" => ev.id \in filled
        /\ ev.type = "CANCELED" => \E k \in 1..pos : topic[k] = CancelCommand(ev.id)
        /\ ev.type = "PARTIAL" =>
              \A j \in DOMAIN events : (events[j].id = ev.id /\ events[j].type = "ACCEPTED") => j < evPos + 1
    BY <1>1, <1>4 DEF Truth, EventsTrue
  <2>4. ASSUME NEW x \in Orders
        PROVE  /\ status'[x] \in {"ACCEPTED", "PARTIAL", "FILLED"} => x \in seen
               /\ status'[x] = "FILLED" => x \in filled
               /\ status'[x] = "CANCELED" => \E k \in 1..pos : topic[k] = CancelCommand(x)
    BY <1>6, <2>3 DEF Truth, StatusTrue
  <2>5. ASSUME NEW x \in Orders, status'[x] = "PARTIAL", NEW j \in DOMAIN events,
               events[j].id = x, events[j].type = "ACCEPTED"
        PROVE  events[j] \in processed'
    <3>1. CASE status'[x] = status[x]
      BY <1>2, <2>5, <3>1 DEF Truth, StatusTrue
    <3>2. CASE x = ev.id /\ status'[x] = ev.type
      <4>1. j < evPos + 1
        BY <2>3, <2>5, <3>2
      <4>2. j \in 1..evPos
        BY <1>3, <4>1
      <4>3. QED
        BY <1>2, <4>2 DEF Truth, StatusTrue
    <3>3. QED
      BY <1>6, <3>1, <3>2
  <2>6. QED
    BY <1>8, <2>1, <2>2, <2>4, <2>5 DEF StatusTrue, shard
<1>12. QED
  BY <1>9, <1>10, <1>11 DEF Truth

(* A cancel is only accepted for an order that waits or rests.             *)
LEMMA CancelFrom ==
    ASSUME NEW s, s # "CANCELING", CanTransition(s, "CANCELING")
    PROVE  s \in {"PENDING", "ACCEPTED", "PARTIAL"}
  BY DEF CanTransition, AllowedFromStatuses

(* Every step keeps it.                                                    *)
LEMMA NextTruth == Types /\ Truth /\ [Next]_vars => Truth'
<1> SUFFICES ASSUME Types, Truth, [Next]_vars PROVE Truth'
  OBVIOUS
<1>1. status \in [Orders -> Status \cup {"none"}] /\ evPos \in Nat
  BY DEF Types, TypeOK
<1>2. ASSUME UNCHANGED <<status, outbox, topic, shard, consumer>> PROVE Truth'
  <2>1. UNCHANGED <<processed, evPos, pushing>> /\ evPos' \in Nat /\ evPos' <= evPos
    BY <1>1, <1>2 DEF consumer, push
  <2>2. QED
    BY <1>2, <2>1, QuietTruth
<1>3. ASSUME NEW o \in Orders, PlaceOrder(o) PROVE Truth'
  <2>1. InsertOutboxRow(NewCommand(o)) /\ status' = [status EXCEPT ![o] = "PENDING"]
        /\ UNCHANGED <<topic, shard, evPos, processed, pushing>>
    BY <1>3 DEF PlaceOrder, relay, consumer, push
  <2>2. NewCommand(o) \in Command /\ NewCommand(o).id = o
    BY CommandTypes
  <2>3. /\ \A x \in Orders : status'[x] = status[x] \/ status'[x] \in {"PENDING", "CANCELING", "REJECTED"}
        /\ status'[o] # "none"
    BY <1>1, <2>1
  <2>4. QED
    BY <2>1, <2>2, <2>3, RowTruth
<1>4. ASSUME NEW o \in Orders, BeginCancel(o) PROVE Truth'
  <2>1. InsertOutboxRow(CancelCommand(o)) /\ status' = [status EXCEPT ![o] = "CANCELING"]
        /\ UNCHANGED <<topic, shard, evPos, processed, pushing>>
    BY <1>4 DEF BeginCancel, InsertCancelOutbox, relay, consumer, push
  <2>2. CancelCommand(o) \in Command /\ CancelCommand(o).id = o
    BY CommandTypes
  <2>3. /\ \A x \in Orders : status'[x] = status[x] \/ status'[x] \in {"PENDING", "CANCELING", "REJECTED"}
        /\ status'[o] # "none"
    BY <1>1, <2>1
  <2>4. QED
    BY <2>1, <2>2, <2>3, RowTruth
<1>5. ASSUME NEW w \in Workers, Work(w) \/ WriteBatchFails(w) PROVE Truth'
  <2>1. CASE Claim(w) \/ ReadStatuses(w) \/ CommitClaim(w)
    BY <1>2, <2>1, Zenon DEF Claim, ReadStatuses, CommitClaim, db
  <2>2. CASE WriteBatch(w) \/ WriteBatchFails(w)
    BY <2>2, SendTruth
  <2>3. QED
    BY <1>5, <2>1, <2>2 DEF Work
<1>6. ASSUME PublishOrderUpdate PROVE Truth'
  <2>1. /\ pushing # {} /\ pushing' = {} /\ evPos' = evPos + 1
        /\ UNCHANGED <<status, outbox, topic, shard, processed>>
    BY <1>6 DEF PublishOrderUpdate, db, relay
  <2>2. Placed' /\ EventsTrue' /\ BookTrue'
    BY <2>1 DEF Truth, Placed, EventsTrue, BookTrue, shard
  <2>3. \A i \in 1..evPos' : i \in 1..evPos \/ i = evPos + 1
    BY <1>1, <2>1
  <2>4. StatusTrue'
    BY <2>1, <2>3 DEF Truth, StatusTrue, shard
  <2>5. QED
    BY <2>2, <2>4 DEF Truth
<1>7. ASSUME PublishOrderUpdateFails PROVE Truth'
  <2>1. pushing' = {} /\ evPos' = evPos /\ UNCHANGED <<status, outbox, topic, shard, processed>>
    BY <1>7 DEF PublishOrderUpdateFails, db
  <2>2. QED
    BY <1>1, <2>1, QuietTruth
<1>8. ASSUME NEW o \in Orders, Reconcile(o) PROVE Truth'
  <2>1. CASE FindStalePending(o)
    BY <1>2, <2>1 DEF FindStalePending, db, relay
  <2>2. CASE RejectStalePending(o) /\ status[o] # "PENDING"
    BY <1>2, <2>2 DEF RejectStalePending, relay
  <2>3. CASE RejectStalePending(o) /\ status[o] = "PENDING"
    <3>1. InsertOutboxRow(CancelCommand(o)) /\ status' = [status EXCEPT ![o] = "REJECTED"]
          /\ UNCHANGED <<topic, shard, evPos, processed, pushing>>
      BY <2>3 DEF RejectStalePending, InsertCancelOutbox, relay, consumer, push
    <3>2. CancelCommand(o) \in Command /\ CancelCommand(o).id = o
      BY CommandTypes
    <3>3. /\ \A x \in Orders : status'[x] = status[x] \/ status'[x] \in {"PENDING", "CANCELING", "REJECTED"}
          /\ status'[o] # "none"
      BY <1>1, <3>1
    <3>4. QED
      BY <3>1, <3>2, <3>3, RowTruth
  <2>4. CASE ResendCancel(o)
    <3>1. InsertOutboxRow(CancelCommand(o)) /\ status' = status /\ status[o] = "CANCELING"
          /\ UNCHANGED <<topic, shard, evPos, processed, pushing>>
      BY <2>4 DEF ResendCancel, InsertCancelOutbox, FindStuckCancelingForResend, relay, consumer, push
    <3>2. CancelCommand(o) \in Command /\ CancelCommand(o).id = o
      BY CommandTypes
    <3>3. QED
      BY <3>1, <3>2, RowTruth
  <2>5. QED
    BY <1>8, <2>1, <2>2, <2>3, <2>4 DEF Reconcile
<1>9. ASSUME Restart PROVE Truth'
  <2>1. /\ pushing' = {} /\ evPos' \in {n \in {evPos, evPos - 1} : n >= 0}
        /\ UNCHANGED <<status, outbox, topic, shard, processed>>
    BY <1>9 DEF Restart, db
  <2>2. evPos' \in Nat /\ evPos' <= evPos
    BY <1>1, <2>1
  <2>3. QED
    BY <2>1, <2>2, QuietTruth
<1>10. CASE UNCHANGED vars
  BY <1>2, <1>10 DEF vars, shard, consumer, push
<1>11. QED
  BY <1>3, <1>4, <1>5, <1>6, <1>7, <1>8, <1>9, <1>10, MatchTruth, ApplyTruth DEF Next, RunTopic

(* No event is refused, whatever the users, the relay and the reconciler   *)
(* did to the order in the meantime: the consumer of match.events is never *)
(* stopped by the status machine.                                          *)
THEOREM ConsumerNeverStuck == Spec => []NoEventRefused
<1>1. Types /\ Truth => NoEventRefused
  <2> SUFFICES ASSUME Types, Truth, evPos < Len(events), Refused(events[evPos + 1]) PROVE FALSE
    BY DEF NoEventRefused
  <2>1. PICK ev : ev = events[evPos + 1]
    OBVIOUS
  <2>2. evPos + 1 \in DOMAIN events /\ ev \in Event
    BY <2>1 DEF Types, TypeOK
  <2>3. ev.id \in Orders /\ ev.type \in EventType /\ status[ev.id] \in Status \cup {"none"}
    BY <2>2 DEF Types, TypeOK, Event
  <2>4. status[ev.id] # "none"
    BY <2>1, <2>2 DEF Truth, Placed
  <2>5. ev \notin processed /\ status[ev.id] \notin Terminal /\ ~CanTransition(status[ev.id], ev.type)
    BY <2>1 DEF Refused
  <2>6. CASE ev.type = "ACCEPTED"
    <3>1. status[ev.id] = "PARTIAL"
      BY <2>3, <2>4, <2>5, <2>6 DEF Status, EventType, Terminal, CanTransition, AllowedFromStatuses
    <3>2. ev \in processed
      BY <2>1, <2>2, <2>3, <2>6, <3>1 DEF Truth, StatusTrue
    <3>3. QED
      BY <2>5, <3>2
  <2>7. CASE ev.type \in {"PARTIAL", "FILLED", "CANCELED"}
    <3>1. AllowedFromStatuses(ev.type) = {"PENDING", "ACCEPTED", "PARTIAL", "CANCELING"}
      BY <2>7 DEF AllowedFromStatuses
    <3>2. QED
      BY <2>3, <2>4, <2>5, <3>1 DEF Status, EventType, Terminal, CanTransition
  <2>8. QED
    BY <2>3, <2>6, <2>7 DEF EventType
<1>2. QED
  BY <1>1, InitTypes, NextTypes, InitTruth, NextTruth, PTL DEF Spec

(* FILLED and CANCELED are what the shard did: the order does not rest in  *)
(* the book, and a filled one was filled.                                  *)
THEOREM FinalIsFinal == Spec => []FinalAgrees
<1>1. Types /\ Truth => FinalAgrees
  <2> SUFFICES ASSUME Types, Truth, NEW o \in Orders
               PROVE  /\ (status[o] \in {"FILLED", "CANCELED"} /\ CommandsInOrder(o)) => o \notin active
                      /\ status[o] = "FILLED" => o \in filled
    BY DEF FinalAgrees
  <2>1. status[o] = "FILLED" => o \in filled /\ o \notin active
    BY DEF Truth, StatusTrue, BookTrue
  <2>2. ASSUME status[o] = "CANCELED", CommandsInOrder(o), o \in active PROVE FALSE
    <3>1. PICK k \in 1..pos : topic[k] = CancelCommand(o)
      BY <2>2 DEF Truth, StatusTrue
    <3>2. k \in DOMAIN topic
      BY <3>1 DEF Types, TypeOK
    <3>3. PICK j \in 1..k - 1 : topic[j] = NewCommand(o)
      BY <2>2, <3>1, <3>2 DEF CommandsInOrder
    <3>4. topic[k].kind = "Cancel" /\ topic[k].id = o
      BY <3>1, CommandTypes
    <3>5. QED
      BY <2>2, <3>1, <3>3, <3>4 DEF Truth, BookTrue
  <2>3. QED
    BY <2>1, <2>2
<1>2. QED
  BY <1>1, InitTypes, NextTypes, InitTruth, NextTruth, PTL DEF Spec

(* What the user was told last is how the order is, unless publishing the  *)
(* last update failed or one is under way.                                 *)
THEOREM UserIsUpToDate == Spec => []UpdatesFollow
<1>1. Init => UpdatesFollow
  BY DEF Init, UpdatesFollow
<1>2. Types /\ UpdatesFollow /\ [Next]_vars => UpdatesFollow'
  <2> SUFFICES ASSUME Types, UpdatesFollow, [Next]_vars PROVE UpdatesFollow'
    OBVIOUS
  <2>1. status \in [Orders -> Status \cup {"none"}] /\ pushed \in [Orders -> Status \cup {"none"}]
    BY DEF Types, TypeOK
  <2>2. ASSUME UNCHANGED push,
               \A o \in Orders : status'[o] = status[o] \/ status'[o] \in {"PENDING", "CANCELING", "REJECTED"}
        PROVE  UpdatesFollow'
    BY <2>2 DEF UpdatesFollow, push
  <2>3. ASSUME NEW o \in Orders, PlaceOrder(o) \/ BeginCancel(o) \/ Reconcile(o) PROVE UpdatesFollow'
    <3>1. CASE PlaceOrder(o) \/ BeginCancel(o)
      BY <2>1, <2>2, <3>1 DEF PlaceOrder, BeginCancel, consumer
    <3>2. CASE FindStalePending(o) \/ RejectStalePending(o) \/ ResendCancel(o)
      BY <2>1, <2>2, <3>2 DEF FindStalePending, RejectStalePending, ResendCancel, consumer, db
    <3>3. QED
      BY <2>3, <3>1, <3>2 DEF Reconcile
  <2>4. ASSUME NEW w \in Workers, Work(w) \/ WriteBatchFails(w) PROVE UpdatesFollow'
    <3>1. UNCHANGED push /\ status' = status
      BY <2>4, Zenon DEF Work, Claim, ReadStatuses, WriteBatch, WriteBatchFails, CommitClaim, consumer, db
    <3>2. QED
      BY <2>2, <3>1
  <2>5. ASSUME Match PROVE UpdatesFollow'
    BY <2>2, <2>5 DEF Match, consumer, db
  <2>6. ASSUME ApplyMatchEvent PROVE UpdatesFollow'
    <3>1. PICK ev : ev = events[evPos + 1]
      OBVIOUS
    <3>2. /\ evPos < Len(events) /\ pushing = {} /\ pushed' = pushed /\ unpushed' = unpushed
          /\ status' = IF ev \in processed \/ status[ev.id] \in Terminal THEN status
                       ELSE [status EXCEPT ![ev.id] = ev.type]
          /\ IF ev \in processed THEN pushing' = pushing ELSE pushing' = {ev.id}
      BY <2>6, <3>1, Zenon DEF ApplyMatchEvent
    <3>3. \A x \in Orders : x \notin pushing' => status'[x] = status[x] /\ x \notin pushing
      BY <2>1, <3>2
    <3>4. QED
      BY <3>2, <3>3 DEF UpdatesFollow
  <2>7. ASSUME PublishOrderUpdate PROVE UpdatesFollow'
    <3>1. PICK o \in pushing : pushed' = [pushed EXCEPT ![o] = status[o]]
      BY <2>7 DEF PublishOrderUpdate, UpdateOf
    <3>2. pushing' = {} /\ status' = status /\ unpushed' = unpushed \ pushing
      BY <2>7 DEF PublishOrderUpdate, db
    <3>3. \A x \in pushing : x = o /\ x \in Orders
      BY <3>1 DEF Types
    <3>4. QED
      BY <2>1, <3>1, <3>2, <3>3 DEF UpdatesFollow
  <2>8. ASSUME PublishOrderUpdateFails \/ Restart PROVE UpdatesFollow'
    <3>1. pushing' = {} /\ unpushed' = unpushed \cup pushing /\ status' = status /\ pushed' = pushed
      BY <2>8 DEF PublishOrderUpdateFails, Restart, db
    <3>2. QED
      BY <3>1 DEF UpdatesFollow
  <2>9. CASE UNCHANGED vars
    BY <2>2, <2>9 DEF vars, push
  <2>10. QED
    BY <2>3, <2>4, <2>5, <2>6, <2>7, <2>8, <2>9 DEF Next, RunTopic
<1>3. QED
  BY <1>1, <1>2, InitTypes, NextTypes, PTL DEF Spec

-----------------------------------------------------------------------------
(* One worker.                                                             *)

SentIn(t, o) == \E j \in DOMAIN t : t[j] = NewCommand(o)
Sent(o) == SentIn(topic, o)

(* A cancel is written to the outbox after the order.                      *)
RowsInOrder ==
    /\ \A o \in Orders : status[o] # "none" => \E j \in DOMAIN outbox : outbox[j] = NewCommand(o)
    /\ \A i \in DOMAIN outbox : outbox[i].kind = "Cancel" =>
          \E j \in 1..i - 1 : outbox[j] = NewCommand(outbox[i].id)
    /\ \A o \in recon : \E j \in published : outbox[j] = NewCommand(o)

(* A row is only marked as published, and an order only known to be        *)
(* anything but waiting, once its command was sent.                        *)
SentFirst ==
    /\ \A o \in Orders : CommandsInOrder(o)
    /\ \A i \in published : outbox[i].kind = "New" => Sent(outbox[i].id)
    /\ \A o \in Orders : status[o] \notin {"none", "PENDING", "CANCELING"} => Sent(o)
    /\ \A o \in seen : Sent(o)
    /\ \A i \in DOMAIN events : Sent(events[i].id)

(* A worker claims the oldest rows; with a cancel it sends its order, and  *)
(* leaves out an order only if it was sent before.                         *)
ClaimTrue(w) ==
    LET claim == worker[w].claim
        send == worker[w].send IN
    /\ \A i \in claim : \A j \in 1..i : j \in published \cup claim
    /\ worker[w].pc \in {"write", "commit"} =>
         \A i \in claim : outbox[i].kind = "New" =>
            \/ Sent(outbox[i].id)
            \/ i \in send /\ worker[w].pc = "write"
    /\ worker[w].pc = "write" =>
         \A i \in send : \A j \in claim :
            (outbox[i].kind = "Cancel" /\ outbox[j] = NewCommand(outbox[i].id)) => j \in send

OneWorker == \A v, w \in Workers : v = w

(* Rows and orders when a row is added.                                    *)
LEMMA RowKeepsOrder ==
    ASSUME Types, RowsInOrder, NEW c \in Command, InsertOutboxRow(c),
           c.kind = "Cancel" => \E j \in DOMAIN outbox : outbox[j] = NewCommand(c.id),
           \A o \in Orders : status'[o] # "none" => status[o] # "none" \/ c = NewCommand(o),
           published' = published, recon' \subseteq recon
    PROVE  RowsInOrder'
<1>1. outbox \in Seq(Command) /\ published \subseteq DOMAIN outbox
  BY DEF Types, TypeOK
<1>2. PICK l \in Nat : l = Len(outbox) /\ DOMAIN outbox = 1..l
  BY <1>1
<1>3. /\ outbox' \in Seq(Command)
      /\ DOMAIN outbox \subseteq DOMAIN outbox' /\ l + 1 \in DOMAIN outbox'
      /\ \A i \in DOMAIN outbox : outbox'[i] = outbox[i]
      /\ outbox'[l + 1] = c
      /\ \A i \in DOMAIN outbox' : i \in DOMAIN outbox \/ i = l + 1
  BY <1>1, <1>2, RowAdded
<1>4. ASSUME NEW o \in Orders, status'[o] # "none" PROVE \E j \in DOMAIN outbox' : outbox'[j] = NewCommand(o)
  BY <1>3, <1>4 DEF RowsInOrder
<1>5. ASSUME NEW i \in DOMAIN outbox', outbox'[i].kind = "Cancel"
      PROVE  \E j \in 1..i - 1 : outbox'[j] = NewCommand(outbox'[i].id)
  <2>1. CASE i \in DOMAIN outbox
    <3>1. PICK j \in 1..i - 1 : outbox[j] = NewCommand(outbox[i].id)
      BY <1>3, <1>5, <2>1 DEF RowsInOrder
    <3>2. j \in DOMAIN outbox
      BY <1>2, <2>1, <3>1
    <3>3. QED
      BY <1>3, <2>1, <3>1, <3>2
  <2>2. CASE i = l + 1
    <3>1. PICK j \in DOMAIN outbox : outbox[j] = NewCommand(c.id)
      BY <1>3, <1>5, <2>2
    <3>2. j \in 1..i - 1
      BY <1>2, <2>2
    <3>3. QED
      BY <1>3, <2>2, <3>1, <3>2
  <2>3. QED
    BY <1>3, <2>1, <2>2
<1>6. ASSUME NEW o \in recon' PROVE \E j \in published' : outbox'[j] = NewCommand(o)
  BY <1>1, <1>3 DEF RowsInOrder
<1>7. QED
  BY <1>4, <1>5, <1>6 DEF RowsInOrder

(* Every step keeps a cancel behind its order in the outbox.               *)
LEMMA NextRows == Types /\ Truth /\ RowsInOrder /\ [Next]_vars => RowsInOrder'
<1> SUFFICES ASSUME Types, Truth, RowsInOrder, [Next]_vars PROVE RowsInOrder'
  OBVIOUS
<1>1. /\ status \in [Orders -> Status \cup {"none"}] /\ outbox \in Seq(Command)
      /\ published \subseteq DOMAIN outbox /\ recon \subseteq Orders
  BY DEF Types, TypeOK
<1>2. ASSUME outbox' = outbox, published \subseteq published', recon' \subseteq recon,
             \A o \in Orders : status'[o] # "none" => status[o] # "none"
      PROVE  RowsInOrder'
  <2>1. \A o \in recon' : \E j \in published' : outbox[j] = NewCommand(o)
    BY <1>2 DEF RowsInOrder
  <2>2. QED
    BY <1>2, <2>1 DEF RowsInOrder
<1>3. ASSUME NEW o \in Orders, PlaceOrder(o) PROVE RowsInOrder'
  <2>1. InsertOutboxRow(NewCommand(o)) /\ status' = [status EXCEPT ![o] = "PENDING"]
        /\ UNCHANGED <<published, recon>>
    BY <1>3 DEF PlaceOrder
  <2>2. \A x \in Orders : status'[x] # "none" => status[x] # "none" \/ NewCommand(o) = NewCommand(x)
    BY <1>1, <2>1
  <2>3. QED
    BY <2>1, <2>2, CommandTypes, RowKeepsOrder
<1>4. ASSUME NEW o \in Orders, InsertOutboxRow(CancelCommand(o)), published' = published,
             recon' \subseteq recon, status[o] # "none",
             \A x \in Orders \ {o} : status'[x] = status[x]
      PROVE  RowsInOrder'
  <2>1. \E j \in DOMAIN outbox : outbox[j] = NewCommand(o)
    BY <1>4 DEF RowsInOrder
  <2>2. \A x \in Orders : status'[x] # "none" => status[x] # "none"
    BY <1>4
  <2>3. QED
    BY <1>4, <2>1, <2>2, CommandTypes, RowKeepsOrder
<1>5. ASSUME NEW o \in Orders, BeginCancel(o) PROVE RowsInOrder'
  <2>1. InsertOutboxRow(CancelCommand(o)) /\ status' = [status EXCEPT ![o] = "CANCELING"]
        /\ UNCHANGED <<published, recon>>
    BY <1>5 DEF BeginCancel, InsertCancelOutbox
  <2>2. status[o] # "none"
    BY <1>5, CancelFrom DEF BeginCancel
  <2>3. QED
    BY <1>1, <1>4, <2>1, <2>2
<1>6. ASSUME NEW w \in Workers, Work(w) \/ WriteBatchFails(w) PROVE RowsInOrder'
  <2>1. outbox' = outbox /\ recon' = recon /\ status' = status /\ published \subseteq published'
    <3>1. CASE Claim(w) \/ ReadStatuses(w) \/ WriteBatch(w) \/ WriteBatchFails(w)
      BY <3>1, Zenon DEF Claim, ReadStatuses, WriteBatch, WriteBatchFails, db
    <3>2. CASE CommitClaim(w)
      BY <3>2 DEF CommitClaim, MarkPublishedBatch
    <3>3. QED
      BY <1>6, <3>1, <3>2 DEF Work
  <2>2. QED
    BY <1>2, <2>1
<1>7. ASSUME Match PROVE RowsInOrder'
  BY <1>2, <1>7 DEF Match, db
<1>8. ASSUME ApplyMatchEvent PROVE RowsInOrder'
  <2>1. PICK ev : ev = events[evPos + 1]
    OBVIOUS
  <2>2. /\ evPos < Len(events)
        /\ status' = IF ev \in processed \/ status[ev.id] \in Terminal THEN status
                     ELSE [status EXCEPT ![ev.id] = ev.type]
        /\ UNCHANGED <<outbox, published, recon>>
    BY <1>8, <2>1, Zenon DEF ApplyMatchEvent
  <2>3. evPos + 1 \in DOMAIN events
    BY <2>2 DEF Types, TypeOK
  <2>4. status[ev.id] # "none"
    BY <2>1, <2>3 DEF Truth, Placed
  <2>5. \A x \in Orders : status'[x] # "none" => status[x] # "none"
    BY <1>1, <2>2, <2>4
  <2>6. QED
    BY <1>2, <2>2, <2>5
<1>9. ASSUME PublishOrderUpdate \/ PublishOrderUpdateFails PROVE RowsInOrder'
  <2>1. UNCHANGED <<status, outbox, published, recon>>
    BY <1>9 DEF PublishOrderUpdate, PublishOrderUpdateFails, db
  <2>2. QED
    BY <1>2, <2>1
<1>10. ASSUME NEW o \in Orders, FindStalePending(o) PROVE RowsInOrder'
  <2>1. recon' = recon \cup {o} /\ UNCHANGED <<status, outbox, published>>
    BY <1>10 DEF FindStalePending, db
  <2>2. \E i \in published : outbox[i] = NewCommand(o)
    BY <1>10 DEF FindStalePending, FindStalePendingForReject
  <2>3. \A x \in recon' : \E j \in published' : outbox'[j] = NewCommand(x)
    BY <2>1, <2>2 DEF RowsInOrder
  <2>4. QED
    BY <2>1, <2>3 DEF RowsInOrder
<1>11. ASSUME NEW o \in Orders, RejectStalePending(o) PROVE RowsInOrder'
  <2>1. published' = published /\ recon' \subseteq recon
    BY <1>11 DEF RejectStalePending
  <2>2. CASE status[o] = "PENDING"
    <3>1. InsertOutboxRow(CancelCommand(o)) /\ status' = [status EXCEPT ![o] = "REJECTED"]
      BY <1>11, <2>2 DEF RejectStalePending, InsertCancelOutbox
    <3>2. QED
      BY <1>1, <1>4, <2>1, <2>2, <3>1
  <2>3. CASE status[o] # "PENDING"
    BY <1>2, <1>11, <2>1, <2>3 DEF RejectStalePending
  <2>4. QED
    BY <2>2, <2>3
<1>12. ASSUME NEW o \in Orders, ResendCancel(o) PROVE RowsInOrder'
  <2>1. InsertOutboxRow(CancelCommand(o)) /\ UNCHANGED <<status, published, recon>> /\ status[o] = "CANCELING"
    BY <1>12 DEF ResendCancel, InsertCancelOutbox, FindStuckCancelingForResend
  <2>2. QED
    BY <1>4, <2>1
<1>13. ASSUME Restart PROVE RowsInOrder'
  <2>1. UNCHANGED <<status, outbox, published>> /\ recon' = {}
    BY <1>13 DEF Restart, db
  <2>2. QED
    BY <1>2, <2>1
<1>14. CASE UNCHANGED vars
  BY <1>2, <1>14 DEF vars
<1>15. QED
  BY <1>3, <1>5, <1>6, <1>7, <1>8, <1>9, <1>10, <1>11, <1>12, <1>13, <1>14
     DEF Next, Work, RunTopic, Reconcile

Relayed == SentFirst /\ \A w \in Workers : ClaimTrue(w)

(* The set of workers is fixed when the service starts.                    *)
LEMMA WorkersFixed == Types /\ [Next]_vars => Workers' = Workers
<1> SUFFICES ASSUME Types, [Next]_vars PROVE Workers' = Workers
  OBVIOUS
<1>1. ASSUME worker' = worker PROVE Workers' = Workers
  BY <1>1 DEF Workers
<1>2. ASSUME NEW w \in Workers, Work(w) \/ WriteBatchFails(w) PROVE Workers' = Workers
  <2>1. CASE Claim(w)
    BY <2>1 DEF Claim, Workers
  <2>2. CASE ReadStatuses(w)
    <3>1. PICK s : worker' = [worker EXCEPT ![w].pc = "write", ![w].send = s]
      BY <2>2, Zenon DEF ReadStatuses
    <3>2. QED
      BY <3>1 DEF Workers
  <2>3. CASE WriteBatch(w) \/ WriteBatchFails(w)
    <3>1. PICK p : worker' = [worker EXCEPT ![w].pc = p]
      BY <2>3, Zenon DEF WriteBatch, WriteBatchFails
    <3>2. QED
      BY <3>1 DEF Workers
  <2>4. CASE CommitClaim(w)
    BY <2>4 DEF CommitClaim, Workers
  <2>5. QED
    BY <1>2, <2>1, <2>2, <2>3, <2>4 DEF Work
<1>3. ASSUME NEW o \in Orders, PlaceOrder(o) \/ BeginCancel(o) \/ Reconcile(o) PROVE worker' = worker
  BY <1>3 DEF PlaceOrder, BeginCancel, Reconcile, FindStalePending, RejectStalePending, ResendCancel, relay
<1>4. ASSUME Match \/ RunTopic PROVE worker' = worker
  <2>1. CASE Match
    BY <2>1, Zenon DEF Match, relay
  <2>2. CASE ApplyMatchEvent
    BY <2>2, Zenon DEF ApplyMatchEvent, relay
  <2>3. CASE PublishOrderUpdate \/ PublishOrderUpdateFails
    BY <2>3 DEF PublishOrderUpdate, PublishOrderUpdateFails, relay
  <2>4. QED
    BY <1>4, <2>1, <2>2, <2>3 DEF RunTopic
<1>5. ASSUME Restart PROVE Workers' = Workers
  BY <1>5 DEF Restart, Rollback, Workers
<1>6. CASE UNCHANGED vars
  BY <1>1, <1>6 DEF vars
<1>7. QED
  BY <1>1, <1>2, <1>3, <1>4, <1>5, <1>6 DEF Next

(* The commands stay as they are: so does what was sent first.             *)
LEMMA SentKept ==
    ASSUME Types, SentFirst, topic' = topic,
           outbox \in Seq(Command), outbox' \in Seq(Command),
           \A i \in DOMAIN outbox : outbox'[i] = outbox[i],
           \A i \in published' : outbox'[i].kind = "New" => Sent(outbox'[i].id),
           \A o \in Orders : \/ status'[o] = status[o]
                             \/ status'[o] \in {"none", "PENDING", "CANCELING"}
                             \/ Sent(o),
           seen' = seen, events' = events
    PROVE  SentFirst'
  BY DEF SentFirst, Sent, CommandsInOrder

(* A claim stays true while no command is sent and no status is read.      *)
LEMMA ClaimKept ==
    ASSUME Types, OneWorker, NEW w \in Workers, ClaimTrue(w), topic' = topic, worker' = worker,
           published' = published, \A i \in DOMAIN outbox : outbox'[i] = outbox[i]
    PROVE  ClaimTrue(w)'
<1>1. worker[w].claim \subseteq DOMAIN outbox /\ worker[w].send \subseteq DOMAIN outbox
  BY DEF Types, TypeOK
<1>2. \A o : SentIn(topic', o) <=> Sent(o)
  BY DEF Sent
<1>3. QED
  BY <1>1, <1>2 DEF ClaimTrue, Sent

(* The idle worker claims the oldest rows that are not published.          *)
LEMMA ClaimsOldest ==
    ASSUME Types, OneWorker, NEW w \in Workers, worker[w].pc = "idle",
           NEW i \in ClaimUnpublished, NEW j \in 1..i
    PROVE  j \in published \cup ClaimUnpublished
<1>1. PICK l \in Nat : DOMAIN outbox = 1..l
  BY DEF Types, TypeOK
<1>2. Locked = {}
  BY DEF Types, OneWorker, Locked
<1>3. PICK free : free = Unclaimed
  OBVIOUS
<1>4. free = (1..l) \ published
  BY <1>1, <1>2, <1>3 DEF Unclaimed
<1>5. i \in free /\ Cardinality({k \in free : k < i}) < BatchSize
  BY <1>3 DEF ClaimUnpublished
<1>6. SUFFICES ASSUME j \notin published PROVE j \in free /\ Cardinality({k \in free : k < j}) < BatchSize
  BY <1>3 DEF ClaimUnpublished
<1>7. j \in free
  BY <1>4, <1>5, <1>6
<1> DEFINE A == {k \in free : k < j}
           B == {k \in free : k < i}
<1>8. A \in SUBSET B
  BY <1>1, <1>4, <1>5
<1>9. IsFiniteSet(B)
  <2>1. IsFiniteSet(1..l)
    BY <1>1, FS_Interval
  <2>2. B \in SUBSET (1..l)
    BY <1>4
  <2>3. QED
    BY <2>1, <2>2, FS_Subset
<1>10. IsFiniteSet(A) /\ Cardinality(A) <= Cardinality(B)
  BY <1>8, <1>9, FS_Subset
<1>11. Cardinality(A) \in Nat /\ Cardinality(B) \in Nat
  BY <1>9, <1>10, FS_CardinalityType
<1> HIDE DEF A, B
<1>12. Cardinality(B) < BatchSize /\ BatchSize \in Nat
  BY <1>5, OrderDispatchAssumption DEF B
<1>13. Cardinality(A) < BatchSize
  BY <1>10, <1>11, <1>12
<1>14. QED
  BY <1>7, <1>13 DEF A

(* The worker sends its claim: no cancel goes before its order.            *)
LEMMA SendRelayed ==
    ASSUME Types, RowsInOrder, OneWorker, Relayed, NEW w \in Workers,
           WriteBatch(w) \/ WriteBatchFails(w)
    PROVE  Relayed'
<1>1. PICK send, claim : send = worker[w].send /\ claim = worker[w].claim
  OBVIOUS
<1>2. UNCHANGED <<status, outbox, published, shard>>
  BY Zenon DEF WriteBatch, WriteBatchFails, db
<1>3. /\ outbox \in Seq(Command) /\ topic \in Seq(Command) /\ events \in Seq(Event)
      /\ send \subseteq claim /\ claim \subseteq DOMAIN outbox
      /\ worker \in [Workers -> WorkerState]
  BY <1>1 DEF Types, TypeOK
<1>4. worker[w].pc = "write"
  BY Zenon DEF WriteBatch, WriteBatchFails
<1>5. /\ \A i \in claim : \A j \in 1..i : j \in published \cup claim
      /\ \A i \in claim : outbox[i].kind = "New" => Sent(outbox[i].id) \/ i \in send
      /\ \A i \in send : \A j \in claim :
            (outbox[i].kind = "Cancel" /\ outbox[j] = NewCommand(outbox[i].id)) => j \in send
  BY <1>1, <1>4 DEF Relayed, ClaimTrue
<1>6. topic' \in Seq(Command)
  BY TopicGets, Zenon
<1>7. \A i \in DOMAIN topic : i \in DOMAIN topic' /\ topic'[i] = topic[i]
  BY TopicGets, Zenon
<1>8. PICK p : /\ \A i \in DOMAIN topic' \ DOMAIN topic :
                     p[i] \in send /\ topic'[i] = outbox[p[i]]
               /\ \A i \in DOMAIN topic' \ DOMAIN topic : \A r \in send :
                     r < p[i] => \E j \in DOMAIN topic' \ DOMAIN topic : j < i /\ p[j] = r
               /\ WriteBatch(w) => \A r \in send :
                     \E j \in DOMAIN topic' \ DOMAIN topic : p[j] = r
  <2>1. \E p : /\ \A i \in DOMAIN topic' \ DOMAIN topic :
                     p[i] \in worker[w].send /\ topic'[i] = outbox[p[i]]
               /\ \A i \in DOMAIN topic' \ DOMAIN topic : \A r \in worker[w].send :
                     r < p[i] => \E j \in DOMAIN topic' \ DOMAIN topic : j < i /\ p[j] = r
               /\ WriteBatch(w) => \A r \in worker[w].send :
                     \E j \in DOMAIN topic' \ DOMAIN topic : p[j] = r
    BY TopicGets, Zenon
  <2>2. QED
    BY <1>1, <2>1
<1>9. PICK l \in Nat : DOMAIN topic = 1..l
  BY <1>3
<1>10. \A o : Sent(o) => SentIn(topic', o)
  BY <1>7 DEF Sent, SentIn
<1>11. ASSUME NEW o \in Orders, NEW i \in DOMAIN topic', topic'[i] = CancelCommand(o)
       PROVE  \E j \in 1..i - 1 : topic'[j] = NewCommand(o)
  <2>1. CASE i \in DOMAIN topic
    <3>1. topic[i] = CancelCommand(o)
      BY <1>7, <1>11, <2>1
    <3>2. PICK j \in 1..i - 1 : topic[j] = NewCommand(o)
      BY <2>1, <3>1 DEF Relayed, SentFirst, CommandsInOrder
    <3>3. j \in DOMAIN topic
      BY <1>9, <2>1, <3>2
    <3>4. QED
      BY <1>7, <3>2, <3>3
  <2>2. CASE i \notin DOMAIN topic
    <3>1. PICK r \in send : r = p[i] /\ outbox[r] = CancelCommand(o)
      BY <1>8, <1>11, <2>2
    <3>2. outbox[r].kind = "Cancel" /\ outbox[r].id = o
      BY <3>1, CommandTypes
    <3>3. r \in DOMAIN outbox /\ r \in claim
      BY <1>3, <3>1
    <3>4. PICK q \in 1..r - 1 : outbox[q] = NewCommand(o)
      BY <3>2, <3>3 DEF RowsInOrder
    <3>5. q \in 1..r /\ q < r
      BY <1>3, <3>3, <3>4
    <3>6. i \in Nat /\ i > l
      BY <1>6, <1>9, <2>2
    <3>7. CASE q \in published
      <4>1. Sent(o)
        BY <3>4, <3>7, CommandTypes DEF Relayed, SentFirst
      <4>2. PICK j \in DOMAIN topic : topic[j] = NewCommand(o)
        BY <4>1 DEF Sent, SentIn
      <4>3. j \in 1..i - 1
        BY <1>9, <3>6, <4>2
      <4>4. QED
        BY <1>7, <4>2, <4>3
    <3>8. CASE q \in claim
      <4>1. q \in send
        BY <1>5, <3>1, <3>2, <3>4, <3>8
      <4>2. PICK j \in DOMAIN topic' \ DOMAIN topic : j < i /\ p[j] = q
        BY <1>8, <2>2, <3>1, <3>5, <4>1
      <4>3. topic'[j] = NewCommand(o)
        BY <1>8, <3>4, <4>2
      <4>4. j \in 1..i - 1
        BY <1>6, <3>6, <4>2
      <4>5. QED
        BY <4>3, <4>4
    <3>9. QED
      BY <1>5, <3>3, <3>5, <3>7, <3>8
  <2>3. QED
    BY <2>1, <2>2
<1>12. SentFirst'
  <2>1. \A o \in Orders : CommandsInOrder(o)'
    BY <1>11 DEF CommandsInOrder
  <2>2. \A i \in published : outbox[i].kind = "New" => SentIn(topic', outbox[i].id)
    BY <1>10 DEF Relayed, SentFirst
  <2>3. \A o \in Orders : status[o] \notin {"none", "PENDING", "CANCELING"} => SentIn(topic', o)
    BY <1>10 DEF Relayed, SentFirst
  <2>4. (\A o \in seen : SentIn(topic', o)) /\ (\A i \in DOMAIN events : SentIn(topic', events[i].id))
    BY <1>10 DEF Relayed, SentFirst
  <2>5. seen' = seen /\ events' = events
    BY <1>2 DEF shard
  <2>6. QED
    BY <1>2, <2>1, <2>2, <2>3, <2>4, <2>5 DEF SentFirst, Sent
<1>13. PICK pc \in {"commit", "blocked"} :
          worker' = [worker EXCEPT ![w].pc = pc] /\ (pc = "commit" => WriteBatch(w))
  BY Zenon DEF WriteBatch, WriteBatchFails
<1>14. worker[w] \in WorkerState
  BY <1>3
<1>15. worker'[w].pc = pc /\ worker'[w].claim = claim /\ worker'[w].send = send /\ Workers' = Workers
  BY <1>1, <1>3, <1>13, <1>14 DEF WorkerState, Workers
<1>16. ASSUME pc = "commit", NEW i \in claim, outbox[i].kind = "New" PROVE SentIn(topic', outbox[i].id)
  <2>1. CASE Sent(outbox[i].id)
    BY <1>10, <2>1
  <2>2. CASE i \in send
    <3>1. PICK j \in DOMAIN topic' \ DOMAIN topic : p[j] = i
      BY <1>8, <1>13, <1>16, <2>2
    <3>2. topic'[j] = outbox[i]
      BY <1>8, <3>1
    <3>3. outbox[i] \in Command
      BY <1>3
    <3>4. outbox[i] = NewCommand(outbox[i].id)
      BY <1>16, <3>3 DEF Command, NewCommand
    <3>5. QED
      BY <3>1, <3>2, <3>4 DEF SentIn
  <2>3. QED
    BY <1>5, <1>16, <2>1, <2>2
<1>17. ClaimTrue(w)'
  <2>1. pc # "write"
    BY <1>13
  <2>2. /\ \A i \in claim : \A j \in 1..i : j \in published' \cup claim
        /\ pc \in {"write", "commit"} => \A i \in claim :
              outbox'[i].kind = "New" => SentIn(topic', outbox'[i].id)
    BY <1>2, <1>5, <1>16, <2>1
  <2>3. QED
    BY <1>15, <2>1, <2>2 DEF ClaimTrue, Sent
<1>18. \A v \in Workers' : v = w
  BY <1>15 DEF OneWorker
<1>19. QED
  BY <1>12, <1>17, <1>18 DEF Relayed

(* The shard handles a command: whatever it knows was sent.                *)
LEMMA MatchRelayed ==
    ASSUME Types, OneWorker, Relayed, Match
    PROVE  Relayed'
<1>1. PICK cmd : cmd = topic[pos + 1]
  OBVIOUS
<1>2. pos + 1 \in DOMAIN topic /\ cmd \in Command /\ Handles(cmd)
  BY <1>1, MatchEffects
<1>3. UNCHANGED <<status, outbox, published, topic, worker>>
  BY DEF Match, db, relay
<1>4. PICK o : o = cmd.id
  OBVIOUS
<1>5. o \in Orders
  BY <1>2, <1>4 DEF Command
<1>6. ASSUME cmd.kind = "New" PROVE Sent(o)
  <2>1. cmd = NewCommand(o)
    BY <1>2, <1>4, <1>6 DEF Command, NewCommand
  <2>2. QED
    BY <1>1, <1>2, <2>1 DEF Sent, SentIn
<1>7. \A x \in seen' : Sent(x)
  BY <1>2, <1>4, <1>6 DEF Handles, Relayed, SentFirst
<1>8. \A x \in Orders : \A i \in DOMAIN topic : topic[i] = CancelCommand(x) => Sent(x)
  <2>1. SUFFICES ASSUME NEW x \in Orders, NEW i \in DOMAIN topic, topic[i] = CancelCommand(x)
                 PROVE  Sent(x)
    OBVIOUS
  <2>2. PICK j \in 1..i - 1 : topic[j] = NewCommand(x)
    BY <2>1 DEF Relayed, SentFirst, CommandsInOrder
  <2>3. j \in DOMAIN topic
    BY <2>1, <2>2 DEF Types, TypeOK
  <2>4. QED
    BY <2>2, <2>3 DEF Sent, SentIn
<1>9. ASSUME NEW i \in DOMAIN events' PROVE Sent(events'[i].id)
  <2>1. CASE i \in DOMAIN events
    BY <1>2, <2>1 DEF Handles, Relayed, SentFirst
  <2>2. CASE i \notin DOMAIN events
    <3>1. NewEvent(events'[i], cmd, i)
      BY <1>2, <2>2 DEF Handles
    <3>2. CASE events'[i].type = "CANCELED"
      <4>1. topic[pos + 1] = CancelCommand(events'[i].id)
        BY <1>1, <3>1, <3>2 DEF NewEvent
      <4>2. events'[i].id \in Orders
        BY <1>1, <1>4, <1>5, <4>1 DEF CancelCommand
      <4>3. QED
        BY <1>2, <1>8, <4>1, <4>2
    <3>3. CASE events'[i].type # "CANCELED"
      BY <1>7, <3>1, <3>3 DEF NewEvent
    <3>4. QED
      BY <3>2, <3>3
  <2>3. QED
    BY <2>1, <2>2
<1>10. SentFirst'
  BY <1>3, <1>7, <1>9 DEF Relayed, SentFirst, Sent, CommandsInOrder
<1>11. ASSUME NEW w \in Workers PROVE ClaimTrue(w)'
  BY <1>3, ClaimKept DEF Relayed
<1>12. QED
  BY <1>3, <1>10, <1>11 DEF Relayed, Workers

(* Every step of a service with one worker keeps it.                       *)
LEMMA NextRelayed ==
    Types /\ Truth /\ RowsInOrder /\ OneWorker /\ Relayed /\ [Next]_vars => Relayed'
<1> SUFFICES ASSUME Types, Truth, RowsInOrder, OneWorker, Relayed, [Next]_vars PROVE Relayed'
  OBVIOUS
<1>1. /\ status \in [Orders -> Status \cup {"none"}] /\ outbox \in Seq(Command)
      /\ published \subseteq DOMAIN outbox /\ recon \subseteq Orders /\ events \in Seq(Event)
      /\ worker \in [Workers -> WorkerState]
  BY DEF Types, TypeOK
<1>2. SentFirst /\ \A w \in Workers : ClaimTrue(w)
  BY DEF Relayed
<1>3. \A i \in published : outbox[i].kind = "New" => Sent(outbox[i].id)
  BY <1>2 DEF SentFirst
<1>4. ASSUME topic' = topic, worker' = worker, published' = published, seen' = seen, events' = events,
             \/ outbox' = outbox
             \/ \E c \in Command : InsertOutboxRow(c),
             \A o \in Orders : \/ status'[o] = status[o]
                               \/ status'[o] \in {"none", "PENDING", "CANCELING"}
                               \/ Sent(o)
      PROVE  Relayed'
  <2>1. outbox' \in Seq(Command) /\ \A i \in DOMAIN outbox : outbox'[i] = outbox[i]
    BY <1>1, <1>4, RowAdded
  <2>2. \A i \in published' : outbox'[i].kind = "New" => Sent(outbox'[i].id)
    BY <1>1, <1>3, <1>4, <2>1
  <2>3. SentFirst'
    BY <1>1, <1>2, <1>4, <2>1, <2>2, SentKept
  <2>4. \A w \in Workers : ClaimTrue(w)'
    BY <1>2, <1>4, <2>1, ClaimKept
  <2>5. QED
    BY <1>4, <2>3, <2>4 DEF Relayed, Workers
<1>5. ASSUME NEW o \in Orders, PlaceOrder(o) PROVE Relayed'
  <2>1. InsertOutboxRow(NewCommand(o)) /\ status' = [status EXCEPT ![o] = "PENDING"]
        /\ UNCHANGED <<topic, worker, published, seen, events>>
    BY <1>5 DEF PlaceOrder, relay, shard
  <2>2. QED
    BY <1>1, <1>4, <2>1, CommandTypes
<1>6. ASSUME NEW o \in Orders, BeginCancel(o) PROVE Relayed'
  <2>1. InsertOutboxRow(CancelCommand(o)) /\ status' = [status EXCEPT ![o] = "CANCELING"]
        /\ UNCHANGED <<topic, worker, published, seen, events>>
    BY <1>6 DEF BeginCancel, InsertCancelOutbox, relay, shard
  <2>2. QED
    BY <1>1, <1>4, <2>1, CommandTypes
<1>7. ASSUME NEW w \in Workers, Claim(w) PROVE Relayed'
  <2>1. PICK mine : mine = ClaimUnpublished
    OBVIOUS
  <2>2. worker[w].pc = "idle" /\ UNCHANGED <<status, outbox, published, topic, seen, events>>
    BY <1>7 DEF Claim, db, shard
  <2>3. worker' = [worker EXCEPT ![w] = [pc |-> "claimed", claim |-> mine, send |-> {}]]
    BY <1>7, <2>1 DEF Claim
  <2>4. worker'[w].pc = "claimed" /\ worker'[w].claim = mine /\ Workers' = Workers
    BY <1>1, <2>3 DEF Workers
  <2>5. \A i \in mine : \A j \in 1..i : j \in published \cup mine
    BY <2>1, <2>2, ClaimsOldest
  <2>6. ClaimTrue(w)'
    BY <2>2, <2>4, <2>5 DEF ClaimTrue
  <2>7. SentFirst'
    BY <1>2, <2>2 DEF SentFirst, Sent, CommandsInOrder
  <2>8. QED
    BY <2>4, <2>6, <2>7 DEF Relayed, OneWorker
<1>8. ASSUME NEW w \in Workers, ReadStatuses(w) PROVE Relayed'
  <2>1. PICK claim : claim = worker[w].claim
    OBVIOUS
  <2>2. PICK send : send = {i \in claim : IsSendableStatus(GetOrderStatusesBatch(claim)[outbox[i].id])}
    OBVIOUS
  <2>3. worker' = [worker EXCEPT ![w].pc = "write", ![w].send = send]
    BY <1>8, <2>1, <2>2, Zenon DEF ReadStatuses
  <2>4. UNCHANGED <<status, outbox, published, topic, seen, events>>
    BY <1>8, Zenon DEF ReadStatuses, db, shard
  <2>5. worker[w] \in WorkerState /\ claim \subseteq DOMAIN outbox
    BY <1>1, <2>1 DEF Types, TypeOK
  <2>6. worker'[w].pc = "write" /\ worker'[w].claim = claim /\ worker'[w].send = send /\ Workers' = Workers
    BY <1>1, <2>1, <2>3, <2>5 DEF WorkerState, Workers
  <2>7. \A i \in claim : GetOrderStatusesBatch(claim)[outbox[i].id] = status[outbox[i].id]
    BY DEF GetOrderStatusesBatch
  <2>8. \A i \in claim : i \in send <=> status[outbox[i].id] \in {"PENDING", "CANCELING"}
    BY <2>2, <2>7 DEF IsSendableStatus
  <2>9. \A i \in claim : \A j \in 1..i : j \in published \cup claim
    BY <1>2, <2>1 DEF ClaimTrue
  <2>10. ASSUME NEW i \in claim, i \notin send PROVE Sent(outbox[i].id)
    <3>1. outbox[i].id \in Orders /\ status[outbox[i].id] # "none"
      BY <1>1, <2>5, AboutOrders DEF Truth, Placed
    <3>2. QED
      BY <1>2, <2>8, <2>10, <3>1 DEF SentFirst
  <2>11. ASSUME NEW i \in send, NEW j \in claim, outbox[j] = NewCommand(outbox[i].id) PROVE j \in send
    <3>1. i \in claim /\ outbox[j].id = outbox[i].id
      BY <2>2, <2>11 DEF NewCommand
    <3>2. QED
      BY <2>8, <3>1
  <2>12. ClaimTrue(w)'
    <3>1. \A i \in claim : SentIn(topic', outbox'[i].id) \/ i \in send
      BY <2>4, <2>10 DEF Sent
    <3>2. \A i \in claim : \A j \in 1..i : j \in published' \cup claim
      BY <2>4, <2>9
    <3>3. \A i \in send : \A j \in claim : outbox'[j] = NewCommand(outbox'[i].id) => j \in send
      BY <2>4, <2>11
    <3>4. QED
      BY <2>6, <3>1, <3>2, <3>3 DEF ClaimTrue, Sent
  <2>13. SentFirst'
    BY <1>2, <2>4 DEF SentFirst, Sent, CommandsInOrder
  <2>14. QED
    BY <2>6, <2>12, <2>13 DEF Relayed, OneWorker
<1>9. ASSUME NEW w \in Workers, CommitClaim(w) PROVE Relayed'
  <2>1. /\ worker[w].pc = "commit" /\ worker' = [worker EXCEPT ![w] = Idle]
        /\ published' = published \cup worker[w].claim
        /\ UNCHANGED <<status, outbox, topic, seen, events>>
    BY <1>9 DEF CommitClaim, MarkPublishedBatch, shard
  <2>2. worker'[w] = Idle /\ Workers' = Workers
    BY <1>1, <2>1 DEF Workers
  <2>3. ClaimTrue(w)'
    BY <2>2 DEF ClaimTrue, Idle
  <2>4. \A i \in worker[w].claim : outbox[i].kind = "New" => Sent(outbox[i].id)
    BY <1>2, <2>1 DEF ClaimTrue
  <2>5. \A i \in published' : outbox'[i].kind = "New" => Sent(outbox'[i].id)
    BY <1>3, <2>1, <2>4
  <2>6. SentFirst'
    BY <1>1, <1>2, <2>1, <2>5, SentKept
  <2>7. QED
    BY <2>2, <2>3, <2>6 DEF Relayed, OneWorker
<1>10. ASSUME ApplyMatchEvent PROVE Relayed'
  <2>1. PICK ev : ev = events[evPos + 1]
    OBVIOUS
  <2>2. /\ evPos < Len(events)
        /\ status' = IF ev \in processed \/ status[ev.id] \in Terminal THEN status
                     ELSE [status EXCEPT ![ev.id] = ev.type]
        /\ UNCHANGED <<outbox, published, worker, topic, seen, events>>
    BY <1>10, <2>1, Zenon DEF ApplyMatchEvent, relay, shard
  <2>3. evPos + 1 \in DOMAIN events
    BY <2>2 DEF Types, TypeOK
  <2>4. Sent(ev.id)
    BY <1>2, <2>1, <2>3 DEF SentFirst
  <2>5. \A x \in Orders : status'[x] = status[x] \/ Sent(x)
    BY <1>1, <2>2, <2>4
  <2>6. QED
    BY <1>4, <2>2, <2>5
<1>11. ASSUME PublishOrderUpdate \/ PublishOrderUpdateFails PROVE Relayed'
  <2>1. UNCHANGED <<status, outbox, published, worker, topic, seen, events>>
    BY <1>11 DEF PublishOrderUpdate, PublishOrderUpdateFails, db, relay, shard
  <2>2. QED
    BY <1>4, <2>1
<1>12. ASSUME NEW o \in Orders, FindStalePending(o) PROVE Relayed'
  <2>1. UNCHANGED <<status, outbox, published, worker, topic, seen, events>>
    BY <1>12 DEF FindStalePending, db, relay, shard
  <2>2. QED
    BY <1>4, <2>1
<1>13. ASSUME NEW o \in Orders, RejectStalePending(o) PROVE Relayed'
  <2>1. o \in recon /\ UNCHANGED <<published, worker, topic, seen, events>>
    BY <1>13 DEF RejectStalePending, relay, shard
  <2>2. Sent(o)
    BY <1>3, <2>1, CommandTypes DEF RowsInOrder
  <2>3. CASE status[o] = "PENDING"
    <3>1. InsertOutboxRow(CancelCommand(o)) /\ status' = [status EXCEPT ![o] = "REJECTED"]
      BY <1>13, <2>3 DEF RejectStalePending, InsertCancelOutbox
    <3>2. QED
      BY <1>1, <1>4, <2>1, <2>2, <3>1, CommandTypes
  <2>4. CASE status[o] # "PENDING"
    <3>1. status' = status /\ outbox' = outbox
      BY <1>13, <2>4 DEF RejectStalePending
    <3>2. QED
      BY <1>4, <2>1, <3>1
  <2>5. QED
    BY <2>3, <2>4
<1>14. ASSUME NEW o \in Orders, ResendCancel(o) PROVE Relayed'
  <2>1. InsertOutboxRow(CancelCommand(o)) /\ UNCHANGED <<status, published, worker, topic, seen, events>>
    BY <1>14 DEF ResendCancel, InsertCancelOutbox, relay, shard
  <2>2. QED
    BY <1>4, <2>1, CommandTypes
<1>15. ASSUME Restart PROVE Relayed'
  <2>1. worker' = [w \in Workers |-> Idle] /\ UNCHANGED <<status, outbox, published, topic, seen, events>>
    BY <1>15 DEF Restart, Rollback, db, shard
  <2>2. Workers' = Workers /\ \A w \in Workers : worker'[w] = Idle
    BY <2>1 DEF Workers
  <2>3. \A w \in Workers : ClaimTrue(w)'
    BY <2>2 DEF ClaimTrue, Idle
  <2>4. SentFirst'
    BY <1>2, <2>1 DEF SentFirst, Sent, CommandsInOrder
  <2>5. QED
    BY <2>2, <2>3, <2>4 DEF Relayed
<1>16. CASE UNCHANGED vars
  BY <1>4, <1>16 DEF vars
<1>17. ASSUME NEW w \in Workers, WriteBatch(w) \/ WriteBatchFails(w) PROVE Relayed'
  BY <1>17, SendRelayed
<1>18. QED
  BY <1>5, <1>6, <1>7, <1>8, <1>9, <1>10, <1>11, <1>12, <1>13, <1>14, <1>15, <1>16, <1>17, MatchRelayed
     DEF Next, Work, RunTopic, Reconcile

(* The initial state.                                                      *)
LEMMA InitRelayed == Init => RowsInOrder /\ Relayed /\ IsFiniteSet(Workers)
<1> SUFFICES ASSUME Init PROVE RowsInOrder /\ Relayed /\ IsFiniteSet(Workers)
  OBVIOUS
<1>1. PICK c \in Instances : worker = [w \in c.workers |-> Idle]
  BY DEF Init
<1>2. Workers = c.workers /\ \A w \in Workers : worker[w] = Idle
  BY <1>1 DEF Workers
<1>3. DOMAIN outbox = {} /\ DOMAIN topic = {} /\ DOMAIN events = {} /\ published = {} /\ seen = {}
      /\ recon = {} /\ \A o \in Orders : status[o] = "none"
  BY DEF Init
<1>4. RowsInOrder
  BY <1>3 DEF RowsInOrder
<1>5. SentFirst
  BY <1>3 DEF SentFirst, CommandsInOrder
<1>6. \A w \in Workers : ClaimTrue(w)
  BY <1>2 DEF ClaimTrue, Idle
<1>7. IsFiniteSet(Workers)
  BY <1>2, OrderDispatchAssumption
<1>8. QED
  BY <1>4, <1>5, <1>6, <1>7 DEF Relayed

(* With one worker no cancel overtakes its order on the way to the shard,  *)
(* through skipped rows, failed and partly arrived batches, restarts and   *)
(* repeated sends, for every batch size.                                   *)
THEOREM NoCancelOvertakes == Spec => []CommandsOrdered
<1> DEFINE IInv == /\ Types /\ Truth /\ RowsInOrder /\ IsFiniteSet(Workers)
                   /\ OneWorker => Relayed
<1>1. Init => IInv
  BY InitTypes, InitTruth, InitRelayed
<1>2. IInv /\ [Next]_vars => IInv'
  <2> SUFFICES ASSUME IInv, [Next]_vars PROVE IInv'
    OBVIOUS
  <2>1. Types' /\ Truth' /\ RowsInOrder'
    BY NextTypes, NextTruth, NextRows
  <2>2. Workers' = Workers
    BY WorkersFixed
  <2>3. OneWorker' => OneWorker
    BY <2>2 DEF OneWorker
  <2>4. OneWorker' => Relayed'
    BY <2>3, NextRelayed
  <2>5. QED
    BY <2>1, <2>2, <2>4
<1>3. IInv => CommandsOrdered
  <2> SUFFICES ASSUME IInv, Cardinality(Workers) = 1 PROVE \A o \in Orders : CommandsInOrder(o)
    BY DEF CommandsOrdered, CancelsNeverOvertake
  <2>1. \E x : Workers = {x}
    BY FS_Singleton
  <2>2. OneWorker
    BY <2>1 DEF OneWorker
  <2>3. QED
    BY <2>2 DEF Relayed, SentFirst
<1>4. QED
  BY <1>1, <1>2, <1>3, PTL DEF Spec
=============================================================================
