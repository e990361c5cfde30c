---------------------------- MODULE MCSettlement ----------------------------
(* Instances of Settlement for TLC.                                        *)
EXTENDS Settlement

Limit(user, client, side, price, qty) ==
    [client |-> client, spec |-> [user |-> user, side |-> side, type |-> "limit",
                                  price |-> price, qty |-> qty]]

Market(user, client, side, price, qty) ==
    [client |-> client, spec |-> [user |-> user, side |-> side, type |-> "market",
                                  price |-> price, qty |-> qty]]

(* A price lies on a grid of 2, a quantity on one of 1.                    *)
MCRules == [tick |-> 2, lot |-> 1, minQty |-> 1, minNotional |-> 4]

(* Orders that meet in whole and in part, at their own and at a better     *)
(* price, two of them with one client_order_id, a market buy without a     *)
(* protection price, and orders the rules refuse; with a Unit of 4, a      *)
(* price of 6 does not come out even.                                      *)
AllKinds == {Limit("alice", 1, "buy", 6, 1), Market("alice", 1, "buy", 0, 2),
             Limit("bob", 1, "sell", 4, 1), Limit("bob", 2, "sell", 4, 1),
             Limit("bob", 3, "sell", 3, 2), Limit("bob", 3, "sell", 2, 1),
             Limit("bob", 3, "sell", 0, 1), Market("bob", 3, "sell", 0, 0)}

(* A market buy that pays less than its protection price.                  *)
Cheaper == {Market("alice", 1, "buy", 6, 1), Limit("bob", 1, "sell", 4, 1)}

(* A sell that two buys fill.                                              *)
Twos == {Limit("alice", 1, "sell", 4, 2), Limit("bob", 1, "buy", 4, 1), Limit("bob", 2, "buy", 4, 1)}

(* A call that may be repeated, and one that asks for nothing.             *)
Withdrawal == {[user |-> "alice", bill |-> 1, asset |-> "quote", change |-> -4],
               [user |-> "bob", bill |-> 1, asset |-> "base", change |-> 0]}

Funds == [a \in Assets |-> IF a = "base" THEN 3 ELSE 8]
=============================================================================
