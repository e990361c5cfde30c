----------------------------- MODULE MCCandles -----------------------------
(* An instance of Candles for TLC: a short and a long interval.            *)
EXTENDS Candles

MCIntervals == <<"1s", "1m">>
MCDuration == [iv \in {"1s", "1m"} |-> IF iv = "1s" THEN 1 ELSE 2]
=============================================================================
