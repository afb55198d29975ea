--------------------------- MODULE MCOperationTracking ---------------------------
(* An operation without stops, two workers, two sessions, two points. *)
EXTENDS OperationTracking

CONSTANTS w1, w2, t1, t2, p1, noPod, noId, noSession

NoStops    == {}
NoStopType == [s \in {} |-> "PICKUP"]
NoLotStop  == [l \in {} |-> 1]
NoCalls    == [id \in {} |-> [kind |-> "cancel", target |-> CANCELLED]]
================================================================================
