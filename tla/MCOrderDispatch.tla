-------------------------- MODULE MCOrderDispatch --------------------------
(* An instance of OrderDispatch for TLC: one worker with faults, or two    *)
(* workers and none.                                                       *)
EXTENDS OrderDispatch

MCInstances == {[workers |-> {1}, cancels |-> 1, faults |-> 1],
                [workers |-> {1, 2}, cancels |-> 1, faults |-> 0]}
=============================================================================
