\* Stops, lots, proofs, repeated calls with client ids, and one tracking session.
SPECIFICATION Spec
CONSTANTS
  p1 = p1
  t1 = t1
  noPod = noPod
  noId = noId
  advLoading = advLoading
  advLoadingAgain = advLoadingAgain
  incident = incident
  cancel = cancel
  Stops <- MCStops
  StopType <- MCStopType
  Lots <- MCLots
  LotPickup <- MCLotPickup
  LotDelivery <- MCLotDelivery
  PodData = {p1}
  NoPod = noPod
  ClientIds <- MCClientIds
  NoId = noId
  CallOf <- MCCallOf
  SessionIds = {t1}
INVARIANTS
  TimelineReplaysStatus
  DeliveredIsProven
PROPERTIES
  DeliveredRecordIsFinal
CHECK_DEADLOCK FALSE
