------------------------------- MODULE MCDriverApp -------------------------------
(* Four stops that exercise every kind of leg: two pickups, a drop between *)
(* them and a last drop for several lots.  Two lots name a stop of the     *)
(* wrong type, as nothing in the code forbids: "d" is picked up at a       *)
(* delivery stop, "e" is dropped at a pickup stop.                         *)
EXTENDS DriverApp

CONSTANTS p1, noPod, noId, noStop

MCStops       == 1..4
MCStopType    == [s \in MCStops |-> IF s \in {1, 3} THEN "PICKUP" ELSE "DELIVERY"]
MCLots        == {"a", "b", "c", "d", "e"}
MCLotPickup   == [l \in MCLots |-> CASE l = "c" -> 3 [] l = "d" -> 2 [] OTHER -> 1]
MCLotDelivery == [l \in MCLots |-> CASE l = "a" -> 2 [] l = "e" -> 3 [] OTHER -> 4]
NoCalls       == [id \in {} |-> [kind |-> "cancel", target |-> CANCELLED]]
================================================================================
