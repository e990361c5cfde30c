--------------------------- MODULE MCIndexPrice ---------------------------
(* An instance of IndexPrice for TLC: a heavy source may quote anything.   *)
EXTENDS IndexPrice

MCWeight == [s \in {"binance", "okx", "bybit"} |-> IF s = "bybit" THEN 5 ELSE 1]
=============================================================================
