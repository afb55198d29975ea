-------------------------- MODULE MCTrackingClient ---------------------------
(* A small instance of TrackingClient: its constants are numbers and sets   *)
(* of model values.                                                        *)
EXTENDS TrackingClient

CONSTANTS y1, t1
==============================================================================
