------------------------------ MODULE MCPush ------------------------------
(* An instance of Push for TLC: retail connections and market makers.      *)
EXTENDS Push

CONSTANTS r1, r2, m1, m2

MCPrefix == [ch \in Channels |-> IF ch = "ticker@all:USDT" THEN "ticker@all:" ELSE "ticker:"]
MCSymbol == [ch \in {"ticker:A", "ticker:B"} |-> IF ch = "ticker:A" THEN "A" ELSE "B"]
MCRequests == {<<"ticker:A">>, <<"ticker@all:USDT", "ticker:B">>}

(* Two searches in one: four handshakes and no more, or two connections    *)
(* that subscribe.                                                         *)
HandshakesOrRequests ==
    \/ requests = 0 /\ \A ch \in Channels : key[ch] = 0
    \/ \A c \in {r2, m2} : state[c] = "out"
=============================================================================
