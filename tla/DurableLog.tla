----------------------------- MODULE DurableLog -----------------------------
(***************************************************************************)
(* What recovery.Engine relies on when it writes ahead: a log of commands  *)
(* with a durable prefix.  A crash keeps the durable prefix and any part   *)
(* of the rest, and a start reads back exactly what is left.  Module       *)
(* WalFile implements it with segment files.                               *)
(***************************************************************************)
EXTENDS Naturals, Sequences

CONSTANT Commands

VARIABLES up,        \* the log is open
          log,       \* the commands, oldest first
          durable,   \* how many of them a crash cannot take away
          recovered  \* the commands the last start read

Init == ~up /\ log = <<>> /\ durable = 0 /\ recovered = <<>>

Recover == /\ ~up /\ up'
           /\ recovered' = log
           /\ UNCHANGED <<log, durable>>

AppendNext(c) == up /\ log' = Append(log, c) /\ UNCHANGED <<up, durable, recovered>>

Sync == up /\ durable' = Len(log) /\ UNCHANGED <<up, log, recovered>>

(* Also Close, which takes nothing away.                                   *)
Crash == /\ up /\ ~up'
         /\ \E n \in durable..Len(log) : log' = SubSeq(log, 1, n) /\ durable' = n
         /\ UNCHANGED recovered

Next == Recover \/ (\E c \in Commands : AppendNext(c)) \/ Sync \/ Crash

Spec == Init /\ [][Next]_<<up, log, durable, recovered>>
=============================================================================
