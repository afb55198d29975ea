\* What tracking keeps beside the operation's services.
SPECIFICATION TrackingSpec
CONSTANTS
  w1 = w1
  w2 = w2
  t1 = t1
  t2 = t2
  p1 = p1
  noPod = noPod
  noId = noId
  noSession = noSession
  Stops <- NoStops
  StopType <- NoStopType
  Lots = {}
  LotPickup <- NoLotStop
  LotDelivery <- NoLotStop
  PodData = {p1}
  NoPod = noPod
  ClientIds = {}
  NoId = noId
  CallOf <- NoCalls
  SessionIds = {t1, t2}
  Workers = {w1, w2}
  Sequences = {1, 2}
  MaxBatch = 2
  NoSession = noSession
INVARIANTS
  AtMostOneActiveSession
  StraySessionStaysEmpty
PROPERTIES
  SessionsNeverReopen
  OperationKept
CHECK_DEADLOCK FALSE
