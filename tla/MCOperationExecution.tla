-------------------------- MODULE MCOperationExecution --------------------------
(* Two pickups and one drop, so that the operation may have a proof of its *)
(* own beside the drop's; lot "e" is dropped at a pickup stop, which       *)
(* nothing in the code forbids.  The calls that carry a client event id:   *)
(* two advances to the same status, an incident and a cancellation.        *)
EXTENDS OperationExecution

CONSTANTS p1, t1, noPod, noId, advLoading, advLoadingAgain, incident, cancel

MCStops       == 1..3
MCStopType    == [s \in MCStops |-> IF s = 3 THEN "DELIVERY" ELSE "PICKUP"]
MCLots        == {"a", "b", "e"}
MCLotPickup   == [l \in MCLots |-> IF l = "b" THEN 2 ELSE 1]
MCLotDelivery == [l \in MCLots |-> IF l = "e" THEN 2 ELSE 3]
MCClientIds   == {advLoading, advLoadingAgain, incident, cancel}
MCCallOf ==
  [id \in MCClientIds |->
    CASE id = incident -> [kind |-> "incident", target |-> ASSIGNED]
      [] id = cancel   -> [kind |-> "cancel", target |-> CANCELLED]
      [] OTHER         -> [kind |-> "advance", target |-> LOADING]]
================================================================================
