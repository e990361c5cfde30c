--------------------------- MODULE MCDurableShard ---------------------------
(* An instance of DurableShard for TLC: how orders are spread over symbols, *)
(* and what makes the search smaller where batches are concerned.           *)
EXTENDS DurableShard

MCSymbolOf == [i \in OrderIds |-> IF i = 1 THEN "BTC" ELSE "ETH"]

(* In batches there is a crash or a stop, and a third command only when    *)
(* all are about one order; one at a time there are both and any commands.  *)
(* Only what is not fair is left out: commands, crashes and stops.          *)
SmallBatches ==
    batched => /\ crashes + stops <= 1
               /\ \/ Len(topic) <= 2
                  \/ \A i, j \in DOMAIN topic : topic[i].id = topic[j].id
=============================================================================
