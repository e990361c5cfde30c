--------------------------- MODULE MCMarketData ---------------------------
(* An instance of MarketData for TLC.                                      *)
EXTENDS MarketData

Shape(side, kind, price, qty) == [side |-> side, kind |-> kind, price |-> price, qty |-> qty]

MCShapes == {Shape("SELL", "LIMIT", 1, 2), Shape("SELL", "LIMIT", 2, 1),
             Shape("BUY", "LIMIT", 2, 3), Shape("BUY", "MARKET", 1, 1)}

(* Three searches in one: two commands and two faults; the mirror and its  *)
(* queries, with a third command; and the ticker, with trades at different *)
(* times.                                                                  *)
FewAtOnce ==
    \/ now = 1 /\ Len(log) <= 2
    \/ now = 1 /\ last = None /\ restKey = None
    \/ faults = 0 /\ matchPos = 0 /\ last = None /\ restKey = None
=============================================================================
