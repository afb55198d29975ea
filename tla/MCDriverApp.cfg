\* A driver who keeps working; others may do anything, cancelling stops included.
SPECIFICATION FairAppSpec
CONSTANTS
  p1 = p1
  noPod = noPod
  noId = noId
  noStop = noStop
  Stops <- MCStops
  StopType <- MCStopType
  Lots <- MCLots
  LotPickup <- MCLotPickup
  LotDelivery <- MCLotDelivery
  PodData = {p1}
  NoPod = noPod
  ClientIds = {}
  NoId = noId
  CallOf <- NoCalls
  SessionIds = {}
  NoStop = noStop
INVARIANTS
  StopsInSequence
  CargoDroppedWasCollected
  ProofsStandAtReachedStops
  OfferedActionsAreAccepted
  StuckOnlyByCancelledPickup
PROPERTIES
  CustodyKept
  DriverFinishes
CHECK_DEADLOCK FALSE
