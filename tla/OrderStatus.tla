---------------------------- MODULE OrderStatus ----------------------------
(***************************************************************************)
(* The status machine of an order (internal/order/status/machine.go), as   *)
(* the consumer of match.events, the cancel request and the reconciler use *)
(* it.                                                                     *)
(***************************************************************************)

EventType == {"ACCEPTED", "PARTIAL", "FILLED", "CANCELED"}
Status == {"PENDING", "CANCELING", "REJECTED"} \cup EventType

Terminal == {"FILLED", "CANCELED", "REJECTED"}

(* Mutant: a late ORDER_ACCEPTED is refused while a cancel is under way.   *)
AllowedFromStatusesStrict(target) ==
    CASE target = "ACCEPTED" -> {"PENDING"}
      [] target \in {"PARTIAL", "FILLED", "CANCELED"} ->
            {"PENDING", "ACCEPTED", "PARTIAL", "CANCELING"}
      [] target = "CANCELING" -> {"PENDING", "ACCEPTED", "PARTIAL"}
      [] target = "REJECTED" -> {"PENDING"}

AllowedFromStatuses(target) ==
    CASE target = "ACCEPTED" -> {"PENDING", "CANCELING"}
      [] target \in {"PARTIAL", "FILLED", "CANCELED"} ->
            {"PENDING", "ACCEPTED", "PARTIAL", "CANCELING"}
      [] target = "CANCELING" -> {"PENDING", "ACCEPTED", "PARTIAL"}
      [] target = "REJECTED" -> {"PENDING"}

CanTransition(from, to) == from = to \/ from \in AllowedFromStatuses(to)
=============================================================================
