------------------------- MODULE MCShardMigration -------------------------
(* An instance of ShardMigration for TLC: a symbol that may move from a    *)
(* shared shard to one of its own, and one that has no orders; two pods of *)
(* the order service, one of them without a connection to a shard.         *)
EXTENDS ShardMigration, TLC

CONSTANTS p1, p2

MCRoutes == {[shard |-> "A", part |-> 0], [shard |-> "B", part |-> 1]}
MCHome == [sym \in Symbols |-> [shard |-> "A", part |-> 0]]
MCSymbolOf == [o \in Orders |-> "hot"]
MCAsked == [p \in Pods |-> IF p = p1 THEN {"A"} ELSE {}]
MCSymmetry == Permutations(Orders)

(* Three searches in one: two orders, a cancel, rejects and an extra start;*)
(* three orders that meet each other; and two orders of which one is       *)
(* cancelled twice.                                                        *)
FewOrders ==
    /\ (\A o \in Orders : status[o] # "none") => cancels = 0
    /\ ((\A o \in Orders : status[o] # "none") \/ cancels = 2) =>
           starts = 0 /\ \A o \in Orders : status[o] # "REJECTED"
=============================================================================
