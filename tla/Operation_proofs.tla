---------------------------- MODULE Operation_proofs ----------------------------
(***************************************************************************)
(* Proofs about the operation, for every set of stops, lots, proofs, client *)
(* ids, sessions, tracking workers and sequences: its services             *)
(* (OperationExecution), the custody promise they implement (CargoCustody), *)
(* the tracking of its position (OperationTracking) and the driver's app   *)
(* (DriverApp).                                                            *)
(***************************************************************************)
EXTENDS DriverApp, OperationTracking, SequenceTheorems, FiniteSetTheorems, TLAPS

--------------------------------------------------------------------------------
(* The operation's services.                                               *)

(* Adding an event keeps the timeline a sequence of events. *)
LEMMA TimelineType ==
  ASSUME timeline \in Seq(Events), NEW event \in Events
  PROVE  TimelineWith(event) \in Seq(Events)
BY AppendProperties DEF TimelineWith

(* Closing sessions for one of the reasons keeps their type. *)
LEMMA ClosureType ==
  ASSUME sessions \in [SessionIds -> [status : SessionStatuses,
                                     closure : ClosureReasons]],
         NEW reason \in ClosureReasons, EndActiveSessions(reason)
  PROVE  sessions' \in [SessionIds -> [status : SessionStatuses,
                                      closure : ClosureReasons]]
BY DEF EndActiveSessions, SessionStatuses

(* The service steps and the tracking commits keep every variable's type. *)
LEMMA TypeStep == TypeOK /\ [Next]_vars => TypeOK'
<1> SUFFICES ASSUME TypeOK, [Next]_vars PROVE TypeOK'
  OBVIOUS
<1> USE DEF TypeOK
<1>1. CASE UNCHANGED vars
  BY <1>1 DEF vars
<1>2. ASSUME NEW new \in OperationStatuses, NEW id \in ClientIds \cup {NoId},
             RepeatStatus(new, id)
      PROVE  TypeOK'
  <2>1. [kind |-> "STATUS_CHANGED", from |-> status, to |-> new, id |-> id] \in Events
    BY DEF Events, EventTypes
  <2> QED
    BY <1>2, <2>1, TimelineType DEF RepeatStatus
<1>3. ASSUME NEW new \in OperationStatuses, NEW id \in ClientIds \cup {NoId},
             AdvanceStatus(new, id)
      PROVE  TypeOK'
  <2>1. [kind |-> "STATUS_CHANGED", from |-> status, to |-> new, id |-> id] \in Events
    BY DEF Events, EventTypes
  <2>2. timeline' \in Seq(Events)
    BY <1>3, <2>1, TimelineType DEF AdvanceStatus
  <2>3. sessions' \in [SessionIds -> [status : SessionStatuses, closure : ClosureReasons]]
    <3>1. ClosureReason(new) \in ClosureReasons
      BY DEF ClosureReason, ClosureReasons
    <3>2. CASE new \in TerminalStatuses
      BY <1>3, <3>1, <3>2, ClosureType DEF AdvanceStatus
    <3>3. CASE new \notin TerminalStatuses
      BY <1>3, <3>3 DEF AdvanceStatus
    <3> QED BY <3>2, <3>3
  <2> QED
    BY <1>3, <2>2, <2>3 DEF AdvanceStatus
<1>4. ASSUME NEW id \in ClientIds \cup {NoId}, CancelOperation(id)
      PROVE  TypeOK'
  <2>1. [kind |-> "CANCELLED", from |-> status, to |-> CANCELLED, id |-> id] \in Events
    BY DEF Events, EventTypes, OperationStatuses, TerminalStatuses
  <2>2. timeline' \in Seq(Events)
    BY <1>4, <2>1, TimelineType DEF CancelOperation
  <2>3. sessions' \in [SessionIds -> [status : SessionStatuses, closure : ClosureReasons]]
    BY <1>4 DEF CancelOperation, EndActiveSessions, SessionStatuses, ClosureReasons
  <2> QED
    BY <1>4, <2>2, <2>3 DEF CancelOperation, OperationStatuses, TerminalStatuses
<1>5. ASSUME NEW id \in ClientIds, ReportIncident(id)
      PROVE  TypeOK'
  <2>1. [kind |-> "INCIDENT_REPORTED", from |-> status, to |-> status, id |-> id] \in Events
    BY DEF Events, EventTypes
  <2> QED
    BY <1>5, <2>1, TimelineType DEF ReportIncident
<1>6. ASSUME NEW s \in Stops, NEW pod \in PodData, RecordStopPod(s, pod)
      PROVE  TypeOK'
  BY <1>6 DEF RecordStopPod
<1>7. ASSUME NEW pod \in PodData, RecordOperationPod(pod)
      PROVE  TypeOK'
  BY <1>7 DEF RecordOperationPod
<1>8. ASSUME NEW s \in Stops, NEW new \in StopStatuses, ChangeStopStatus(s, new)
      PROVE  TypeOK'
  BY <1>8 DEF ChangeStopStatus
<1>9. CASE TrackingCommit
  <2>1. [status |-> "ACTIVE", closure |-> ""]
            \in [status : SessionStatuses, closure : ClosureReasons]
    BY DEF SessionStatuses, ClosureReasons
  <2>2. [status |-> "ENDED", closure |-> ""]
            \in [status : SessionStatuses, closure : ClosureReasons]
    BY DEF SessionStatuses, ClosureReasons
  <2> DEFINE R == [status : SessionStatuses, closure : ClosureReasons]
  <2>3. sessions' \in [SessionIds -> R]
    <3>1. PICK t \in SessionIds, r \in R : sessions' = [sessions EXCEPT ![t] = r]
      BY <1>9, <2>1, <2>2, Zenon DEF TrackingCommit
    <3> QED BY <3>1
  <2> QED
    BY <1>9, <2>3 DEF TrackingCommit
<1> QED
  BY <1>1, <1>2, <1>3, <1>4, <1>5, <1>6, <1>7, <1>8, <1>9 DEF Next, OperationStep

(* The first state is well typed. *)
LEMMA TypeInit == Init => TypeOK
<1> SUFFICES ASSUME Init PROVE TypeOK
  OBVIOUS
<1> DEFINE created == [kind |-> "OPERATION_CREATED", from |-> ASSIGNED,
                       to |-> ASSIGNED, id |-> NoId]
<1>1. created \in Events
  BY DEF Events, EventTypes, OperationStatuses
<1>2. timeline \in Seq(Events)
  <2>1. timeline = <<created>>
    BY DEF Init
  <2> HIDE DEF created
  <2> QED BY <1>1, <2>1
<1>3. sessions \in [SessionIds -> [status : SessionStatuses,
                                  closure : ClosureReasons]]
  <2>1. [status |-> "NONE", closure |-> ""]
          \in [status : SessionStatuses, closure : ClosureReasons]
    BY DEF SessionStatuses, ClosureReasons
  <2> QED BY <2>1 DEF Init
<1> QED
  BY <1>2, <1>3 DEF Init, TypeOK, OperationStatuses, StopStatuses

(* Every reachable state is well typed. *)
THEOREM TypeCorrect == Spec => []TypeOK
BY TypeInit, TypeStep, PTL DEF Spec
--------------------------------------------------------------------------------
(* A step that leaves the stops and the proofs alone, and does not deliver,
   keeps the invariant. *)
LEMMA QuietStep ==
  ASSUME Inductive, TypeOK', UNCHANGED <<stopStatus, stopPod, opPod>>,
         status' = DELIVERED => status = DELIVERED
  PROVE  Inductive'
BY DEF Inductive, StopsInSequence, EarlierStopsDone, StopDone,
       CargoDroppedWasCollected, CargoCollected, LotsDroppedAt, DeliveryStops,
       ProofsStandAtReachedStops, DeliveredHasNoOpenDelivery

(* An operation is marked DELIVERED only when its deliveries are done. *)
LEMMA DeliverStep ==
  ASSUME Inductive, TypeOK', NEW new \in OperationStatuses,
         NEW id \in ClientIds \cup {NoId}, AdvanceStatus(new, id)
  PROVE  Inductive'
<1>1. UNCHANGED <<stopStatus, stopPod, opPod>>
  BY DEF AdvanceStatus
<1>2. DeliveredHasNoOpenDelivery'
  <2> SUFFICES ASSUME status' = DELIVERED
               PROVE  /\ \A s \in DeliveryStops : StopDone(s)
                      /\ Stops = {} => opPod # NoPod
    BY <1>1 DEF DeliveredHasNoOpenDelivery, StopDone, DeliveryStops
  <2>1. DeliveryProven
    BY DEF AdvanceStatus, StatusAccepted
  <2> QED
    BY <2>1 DEF DeliveryProven, DeliveryStops
<1>3. /\ StopsInSequence'
      /\ CargoDroppedWasCollected'
      /\ ProofsStandAtReachedStops'
  BY <1>1 DEF Inductive, StopsInSequence, EarlierStopsDone, StopDone,
       CargoDroppedWasCollected, CargoCollected, LotsDroppedAt, DeliveryStops,
       ProofsStandAtReachedStops
<1> QED
  BY <1>2, <1>3 DEF Inductive

(* A proof is recorded only at a delivery stop where the driver is. *)
LEMMA ProofStep ==
  ASSUME Inductive, TypeOK', NEW s \in Stops, NEW pod \in PodData,
         RecordStopPod(s, pod)
  PROVE  Inductive'
<1>1. UNCHANGED <<status, stopStatus, opPod>>
  BY DEF RecordStopPod
<1>2. ProofsStandAtReachedStops'
  <2> SUFFICES ASSUME NEW u \in Stops
               PROVE  /\ stopPod'[u] # NoPod =>
                           u \in DeliveryStops /\ stopStatus[u] # "PENDING"
                      /\ u \in DeliveryStops /\ stopStatus[u] = "COMPLETED"
                           => stopPod'[u] # NoPod
    BY <1>1 DEF ProofsStandAtReachedStops, DeliveryStops
  <2>1. CASE u = s
    BY <2>1, PodAssumption
       DEF RecordStopPod, StopPodAccepted, DeliveryStops, Inductive, TypeOK
  <2>2. CASE u # s
    <3>1. stopPod'[u] = stopPod[u]
      BY <2>2 DEF RecordStopPod, Inductive, TypeOK
    <3> QED BY <3>1 DEF Inductive, ProofsStandAtReachedStops
  <2> QED BY <2>1, <2>2
<1>3. /\ StopsInSequence'
      /\ CargoDroppedWasCollected'
      /\ DeliveredHasNoOpenDelivery'
  BY <1>1 DEF Inductive, StopsInSequence, EarlierStopsDone, StopDone,
       CargoDroppedWasCollected, CargoCollected, LotsDroppedAt, DeliveryStops,
       DeliveredHasNoOpenDelivery
<1> QED
  BY <1>2, <1>3 DEF Inductive

(* A stop moves on only from an open status to a later one, in sequence,
   with its cargo collected and its proof at hand. *)
LEMMA StopStep ==
  ASSUME Inductive, TypeOK', NEW s \in Stops, NEW new \in StopStatuses,
         ChangeStopStatus(s, new)
  PROVE  Inductive'
<1> USE DEF Inductive, TypeOK
<1>1. /\ ~StopDone(s)
      /\ new # "PENDING"
      /\ EarlierStopsDone(s)
  BY DEF ChangeStopStatus, StopMoveAccepted, StopTransitions, StopDone
<1>2. stopStatus'[s] = new /\ \A u \in Stops \ {s} : stopStatus'[u] = stopStatus[u]
  BY DEF ChangeStopStatus
<1>3. \A u \in Stops : StopDone(u) => u # s /\ stopStatus'[u] = stopStatus[u]
  BY <1>1, <1>2
<1>4. \A u \in Stops : EarlierStopsDone(u) => EarlierStopsDone(u)'
  BY <1>3 DEF EarlierStopsDone, StopDone
<1>5. StopsInSequence'
  BY <1>1, <1>2, <1>4 DEF StopsInSequence
<1>6. \A u \in Stops : CargoCollected(u) => CargoCollected(u)'
  <2> SUFFICES ASSUME NEW u \in Stops, CargoCollected(u), NEW l \in LotsDroppedAt(u)
               PROVE  stopStatus'[LotPickup[l]] = "COMPLETED"
    BY DEF CargoCollected, LotsDroppedAt
  <2>1. LotPickup[l] \in Stops /\ stopStatus[LotPickup[l]] = "COMPLETED"
    BY StopsAssumption DEF CargoCollected, LotsDroppedAt
  <2> QED BY <2>1, <1>3 DEF StopDone
<1>7. CargoDroppedWasCollected'
  <2> SUFFICES ASSUME NEW u \in DeliveryStops,
                      stopStatus'[u] \in {"ARRIVED", "COMPLETED"}
               PROVE  CargoCollected(u)'
    BY DEF CargoDroppedWasCollected, DeliveryStops
  <2>0. u \in Stops
    BY DEF DeliveryStops
  <2>1. CASE u = s
    BY <1>2, <1>6, <2>0, <2>1 DEF ChangeStopStatus, StopMoveAccepted, DeliveryStops
  <2>2. CASE u # s
    BY <1>2, <1>6, <2>0, <2>2 DEF CargoDroppedWasCollected
  <2> QED BY <2>1, <2>2
<1>8. ProofsStandAtReachedStops'
  BY <1>1, <1>2 DEF ProofsStandAtReachedStops, ChangeStopStatus, StopMoveAccepted,
                    DeliveryStops
<1>9. DeliveredHasNoOpenDelivery'
  BY <1>3 DEF DeliveredHasNoOpenDelivery, ChangeStopStatus, StopDone, DeliveryStops
<1> QED
  BY <1>5, <1>7, <1>8, <1>9

(* Every step keeps the invariant. *)
LEMMA InductiveStep == Inductive /\ [Next]_vars => Inductive'
<1> SUFFICES ASSUME Inductive, [Next]_vars PROVE Inductive'
  OBVIOUS
<1>0. TypeOK'
  BY TypeStep DEF Inductive
<1>1. CASE UNCHANGED vars
  BY <1>0, <1>1, QuietStep DEF vars
<1>2. ASSUME NEW new \in OperationStatuses, NEW id \in ClientIds \cup {NoId},
             RepeatStatus(new, id)
      PROVE  Inductive'
  BY <1>0, <1>2, QuietStep DEF RepeatStatus
<1>3. ASSUME NEW new \in OperationStatuses, NEW id \in ClientIds \cup {NoId},
             AdvanceStatus(new, id)
      PROVE  Inductive'
  BY <1>0, <1>3, DeliverStep
<1>4. ASSUME NEW id \in ClientIds \cup {NoId}, CancelOperation(id)
      PROVE  Inductive'
  BY <1>0, <1>4, QuietStep DEF CancelOperation, CANCELLED, DELIVERED
<1>5. ASSUME NEW id \in ClientIds, ReportIncident(id)
      PROVE  Inductive'
  BY <1>0, <1>5, QuietStep DEF ReportIncident
<1>6. ASSUME NEW s \in Stops, NEW pod \in PodData, RecordStopPod(s, pod)
      PROVE  Inductive'
  BY <1>0, <1>6, ProofStep
<1>7. ASSUME NEW pod \in PodData, RecordOperationPod(pod)
      PROVE  Inductive'
  BY <1>0, <1>7, PodAssumption
     DEF RecordOperationPod, Inductive, StopsInSequence, EarlierStopsDone, StopDone,
         CargoDroppedWasCollected, CargoCollected, LotsDroppedAt, DeliveryStops,
         ProofsStandAtReachedStops, DeliveredHasNoOpenDelivery
<1>8. ASSUME NEW s \in Stops, NEW new \in StopStatuses, ChangeStopStatus(s, new)
      PROVE  Inductive'
  BY <1>0, <1>8, StopStep
<1>9. CASE TrackingCommit
  BY <1>0, <1>9, QuietStep DEF TrackingCommit
<1> QED
  BY <1>1, <1>2, <1>3, <1>4, <1>5, <1>6, <1>7, <1>8, <1>9 DEF Next, OperationStep

LEMMA InductiveInit == Init => Inductive
BY TypeInit, PodAssumption
   DEF Init, Inductive, StopsInSequence, CargoDroppedWasCollected,
       ProofsStandAtReachedStops, DeliveredHasNoOpenDelivery, DeliveryStops,
       ASSIGNED, DELIVERED

(* The inductive invariant holds in every reachable state. *)
THEOREM InductiveHolds == Spec => []Inductive
BY InductiveInit, InductiveStep, PTL DEF Spec

(* The stops are visited in their sequence, whatever calls are made. *)
THEOREM StopsStayInSequence == Spec => []StopsInSequence
BY InductiveHolds, PTL DEF Inductive

(* Cargo is dropped only where it was collected. *)
THEOREM CargoIsCollected == Spec => []CargoDroppedWasCollected
BY InductiveHolds, PTL DEF Inductive

(* Proofs stand at reached delivery stops, and completed ones have one. *)
THEOREM ProofsAreSound == Spec => []ProofsStandAtReachedStops
BY InductiveHolds, PTL DEF Inductive

(* In a delivered operation every lot whose delivery was not cancelled was
   collected, dropped and proved. *)
THEOREM DeliveryIsProven == Spec => []DeliveredIsProven
<1>1. Inductive => DeliveredIsProven
  <2> SUFFICES ASSUME Inductive, status = DELIVERED, NEW l \in Lots,
                      LotDelivery[l] \in DeliveryStops,
                      stopStatus[LotDelivery[l]] # "CANCELLED"
               PROVE  /\ stopStatus[LotPickup[l]] = "COMPLETED"
                      /\ stopStatus[LotDelivery[l]] = "COMPLETED"
                      /\ stopPod[LotDelivery[l]] # NoPod
    BY DEF DeliveredIsProven, Inductive, DeliveredHasNoOpenDelivery
  <2>1. stopStatus[LotDelivery[l]] = "COMPLETED"
    BY DEF Inductive, DeliveredHasNoOpenDelivery, StopDone
  <2>2. stopPod[LotDelivery[l]] # NoPod
    BY <2>1 DEF Inductive, ProofsStandAtReachedStops, DeliveryStops
  <2>3. stopStatus[LotPickup[l]] = "COMPLETED"
    BY <2>1 DEF Inductive, CargoDroppedWasCollected, CargoCollected, LotsDroppedAt
  <2> QED BY <2>1, <2>2, <2>3
<1> QED
  BY <1>1, InductiveHolds, PTL

(* Nothing changes the delivery stops or the proofs of a delivered operation. *)
THEOREM DeliveredRecordStays == Spec => DeliveredRecordIsFinal
<1> DEFINE Final == status = DELIVERED =>
                      /\ \A s \in DeliveryStops : stopStatus'[s] = stopStatus[s]
                      /\ UNCHANGED <<stopPod, opPod>>
<1>1. Inductive /\ [Next]_vars => [Final]_vars
  <2> SUFFICES ASSUME Inductive, Next, status = DELIVERED
               PROVE  /\ \A s \in DeliveryStops : stopStatus'[s] = stopStatus[s]
                      /\ UNCHANGED <<stopPod, opPod>>
    OBVIOUS
  <2>0. \A s \in DeliveryStops : s \in Stops /\ StopDone(s)
    BY DEF Inductive, DeliveredHasNoOpenDelivery, DeliveryStops
  <2>1. ASSUME NEW new \in OperationStatuses, NEW id \in ClientIds \cup {NoId},
               RepeatStatus(new, id) \/ AdvanceStatus(new, id)
        PROVE  UNCHANGED <<stopStatus, stopPod, opPod>>
    BY <2>1 DEF RepeatStatus, AdvanceStatus
  <2>2. ASSUME NEW id \in ClientIds \cup {NoId}, CancelOperation(id)
        PROVE  UNCHANGED <<stopStatus, stopPod, opPod>>
    BY <2>2 DEF CancelOperation
  <2>3. ASSUME NEW id \in ClientIds, ReportIncident(id)
        PROVE  UNCHANGED <<stopStatus, stopPod, opPod>>
    BY <2>3 DEF ReportIncident
  <2>4. ASSUME NEW s \in Stops, NEW pod \in PodData, RecordStopPod(s, pod)
        PROVE  FALSE
    BY <2>0, <2>4 DEF RecordStopPod, StopPodAccepted, StopDone, DeliveryStops
  <2>5. ASSUME NEW pod \in PodData, RecordOperationPod(pod)
        PROVE  FALSE
    BY <2>5 DEF RecordOperationPod, OperationPodAccepted, UNLOADING, DELIVERED
  <2>6. ASSUME NEW s \in Stops, NEW new \in StopStatuses, ChangeStopStatus(s, new)
        PROVE  /\ \A u \in DeliveryStops : stopStatus'[u] = stopStatus[u]
               /\ UNCHANGED <<stopPod, opPod>>
    <3>1. s \notin DeliveryStops
      BY <2>0, <2>6 DEF ChangeStopStatus, StopMoveAccepted, StopTransitions, StopDone
    <3> QED
      BY <2>0, <2>6, <3>1 DEF ChangeStopStatus, Inductive, TypeOK
  <2>7. CASE TrackingCommit
    BY <2>7 DEF TrackingCommit
  <2> QED
    BY <2>1, <2>2, <2>3, <2>4, <2>5, <2>6, <2>7 DEF Next, OperationStep
<1> QED
  BY <1>1, InductiveHolds, PTL DEF Spec, DeliveredRecordIsFinal
--------------------------------------------------------------------------------
(* No transition leads back, so a rank grows with every one of them.  A call *)
(* that moves the operation therefore finds no event with its client id: if *)
(* it had one, the status would already be at or past the call's target.    *)
Rank(st) ==
  CASE st = ASSIGNED -> 0          [] st = EN_ROUTE -> 1
    [] st = ARRIVED_AT_PICKUP -> 2 [] st = LOADING -> 3
    [] st = IN_TRANSIT -> 4        [] st = ARRIVED_AT_DELIVERY -> 5
    [] st = UNLOADING -> 6         [] st = DELIVERED -> 7
    [] st = CANCELLED -> 8

(* Every allowed transition climbs the rank. *)
LEMMA TransitionsClimb ==
  ASSUME NEW a \in OperationStatuses, NEW b \in OperationStatuses,
         CanOperationTransition(a, b)
  PROVE  Rank(a) < Rank(b)
BY DEF CanOperationTransition, ForwardTransitions, OperationStatuses,
       TerminalStatuses, Rank, ASSIGNED, EN_ROUTE, ARRIVED_AT_PICKUP, LOADING,
       IN_TRANSIT, ARRIVED_AT_DELIVERY, UNLOADING, DELIVERED, CANCELLED

(* Every status has a rank. *)
LEMMA RankIsNatural ==
  ASSUME NEW a \in OperationStatuses
  PROVE  Rank(a) \in Nat
BY DEF OperationStatuses, TerminalStatuses, Rank, ASSIGNED, EN_ROUTE,
       ARRIVED_AT_PICKUP, LOADING, IN_TRANSIT, ARRIVED_AT_DELIVERY, UNLOADING,
       DELIVERED, CANCELLED

\* An event with a client id came from the call the id was made for, and the
\* operation is at or past the status that event moved it to.
EventIsPast(e) ==
  e.id # NoId =>
    /\ e.id \in ClientIds
    /\ e.kind = "INCIDENT_REPORTED" => CallOf[e.id].kind = "incident"
    /\ e.kind # "INCIDENT_REPORTED" =>
         /\ CallOf[e.id].kind # "incident"
         /\ CallOf[e.id].target = e.to
         /\ Rank(e.to) <= Rank(status)

TimelineInductive ==
  /\ Len(timeline) >= 1
  /\ TimelineReplaysStatus
  /\ \A i \in 1..Len(timeline) : EventIsPast(timeline[i])

(* Appending an event that continues the history keeps it one. *)
LEMMA HistoryGrows ==
  ASSUME TypeOK, TypeOK', TimelineInductive, NEW e \in Events,
         timeline' = Append(timeline, e),
         e.from = status, e.to = status', e.id \notin RecordedIds,
         e.from = e.to \/ CanOperationTransition(e.from, e.to),
         EventIsPast(e)'
  PROVE  TimelineInductive'
<1> DEFINE n == Len(timeline)
<1>0. n \in Nat /\ timeline \in Seq(Events)
  BY DEF TypeOK
<1>1. /\ Len(timeline') = n + 1
      /\ \A i \in 1..n : timeline'[i] = timeline[i]
      /\ timeline'[n + 1] = e
  BY <1>0, AppendProperties
<1>2. Rank(status) <= Rank(status')
  BY TransitionsClimb, RankIsNatural DEF TypeOK
<1>3. \A i \in 1..n : EventIsPast(timeline[i])'
  <2> SUFFICES ASSUME NEW i \in 1..n PROVE EventIsPast(timeline[i])'
    OBVIOUS
  <2>1. EventIsPast(timeline[i]) /\ timeline[i] \in Events
    BY <1>0 DEF TimelineInductive
  <2>2. timeline'[i] = timeline[i] /\ timeline[i].to \in OperationStatuses
    BY <1>1, <2>1 DEF Events
  <2> QED
    BY <1>2, <2>1, <2>2, RankIsNatural DEF EventIsPast, TypeOK
<1>4. \A i \in 1..(n + 1) : EventIsPast(timeline[i])'
  BY <1>0, <1>1, <1>3
<1>5. \A i \in 1..n : timeline[i].id # e.id \/ e.id = NoId
  BY <1>0 DEF RecordedIds
<1>6. TimelineReplaysStatus'
  <2>1. timeline'[Len(timeline')].to = status'
    BY <1>1
  <2>2. \A i \in 2..(n + 1) :
          /\ timeline'[i].from = timeline'[i - 1].to
          /\ \/ timeline'[i].from = timeline'[i].to
             \/ CanOperationTransition(timeline'[i].from, timeline'[i].to)
    <3> SUFFICES ASSUME NEW i \in 2..(n + 1)
                 PROVE  /\ timeline'[i].from = timeline'[i - 1].to
                        /\ \/ timeline'[i].from = timeline'[i].to
                           \/ CanOperationTransition(timeline'[i].from, timeline'[i].to)
      OBVIOUS
    <3>1. CASE i = n + 1
      BY <1>0, <1>1, <3>1 DEF TimelineInductive, TimelineReplaysStatus
    <3>2. CASE i # n + 1
      <4>1. i \in 2..n /\ i - 1 \in 1..n /\ i \in 1..n
        BY <1>0, <3>2
      <4> QED
        BY <1>1, <4>1 DEF TimelineInductive, TimelineReplaysStatus
    <3> QED BY <3>1, <3>2
  <2>3. \A i, j \in 1..(n + 1) :
          timeline'[i].id = timeline'[j].id /\ timeline'[i].id # NoId => i = j
    <3> SUFFICES ASSUME NEW i \in 1..(n + 1), NEW j \in 1..(n + 1),
                        timeline'[i].id = timeline'[j].id, timeline'[i].id # NoId
                 PROVE  i = j
      OBVIOUS
    <3>1. CASE i \in 1..n /\ j \in 1..n
      BY <1>1, <3>1 DEF TimelineInductive, TimelineReplaysStatus
    <3>2. CASE i = n + 1 \/ j = n + 1
      BY <1>0, <1>1, <1>5, <3>2
    <3> QED BY <1>0, <3>1, <3>2
  <2> QED
    BY <1>1, <2>1, <2>2, <2>3 DEF TimelineReplaysStatus
<1> QED
  BY <1>0, <1>1, <1>4, <1>6 DEF TimelineInductive

(* A call that moves the operation has left no event yet. *)
LEMMA MovingCallIsNew ==
  ASSUME TypeOK, TimelineInductive, NEW new \in OperationStatuses,
         NEW id \in ClientIds \cup {NoId}, NEW kind \in {"advance", "cancel"},
         MadeFor(id, kind, new), CanOperationTransition(status, new)
  PROVE  id \notin RecordedIds
<1> SUFFICES ASSUME id \in RecordedIds PROVE FALSE
  OBVIOUS
<1>1. PICK i \in DOMAIN timeline : timeline[i].id = id
  BY DEF RecordedIds
<1>2. /\ i \in 1..Len(timeline)
      /\ id # NoId /\ id \in ClientIds
  BY <1>1 DEF RecordedIds, TypeOK
<1>3. CallOf[id] = [kind |-> kind, target |-> new]
  BY <1>2 DEF MadeFor
<1>4. EventIsPast(timeline[i])
  BY <1>2 DEF TimelineInductive
<1>5. Rank(new) <= Rank(status)
  BY <1>1, <1>2, <1>3, <1>4 DEF EventIsPast
<1> QED
  BY <1>5, TransitionsClimb, RankIsNatural DEF TypeOK

(* A step that changes neither the status nor the timeline. *)
LEMMA HistoryStays ==
  ASSUME TimelineInductive, UNCHANGED <<status, timeline>>
  PROVE  TimelineInductive'
BY DEF TimelineInductive, TimelineReplaysStatus, EventIsPast

(* Every step continues the history or leaves it. *)
LEMMA HistoryStep == TypeOK /\ TimelineInductive /\ [Next]_vars => TimelineInductive'
<1> SUFFICES ASSUME TypeOK, TimelineInductive, [Next]_vars PROVE TimelineInductive'
  OBVIOUS
<1>0. TypeOK'
  BY TypeStep
<1>1. CASE UNCHANGED vars
  BY <1>1, HistoryStays DEF vars
<1>2. ASSUME NEW new \in OperationStatuses, NEW id \in ClientIds \cup {NoId},
             RepeatStatus(new, id)
      PROVE  TimelineInductive'
  <2>1. PICK e \in Events : e = [kind |-> "STATUS_CHANGED", from |-> status, to |-> new, id |-> id]
    BY DEF TypeOK, Events, EventTypes
  <2>2. status' = status /\ new = status /\ timeline' = TimelineWith(e)
    BY <1>2, <2>1 DEF RepeatStatus
  <2>3. CASE id \in RecordedIds
    BY <2>1, <2>2, <2>3, HistoryStays DEF TimelineWith
  <2>4. CASE id \notin RecordedIds
    <3>1. EventIsPast(e)'
      BY <1>2, <2>1, <2>2, RankIsNatural, CallAssumption
         DEF EventIsPast, RepeatStatus, MadeFor, TypeOK
    <3>2. timeline' = Append(timeline, e)
      BY <2>1, <2>2, <2>4 DEF TimelineWith
    <3> QED
      BY <1>0, <2>1, <2>2, <2>4, <3>1, <3>2, HistoryGrows
  <2> QED BY <2>3, <2>4
<1>3. ASSUME NEW new \in OperationStatuses, NEW id \in ClientIds \cup {NoId},
             AdvanceStatus(new, id)
      PROVE  TimelineInductive'
  <2>1. PICK e \in Events : e = [kind |-> "STATUS_CHANGED", from |-> status, to |-> new, id |-> id]
    BY DEF TypeOK, Events, EventTypes
  <2>2. CanOperationTransition(status, new) /\ MadeFor(id, "advance", new)
    BY <1>3 DEF AdvanceStatus, StatusAccepted
  <2>3. id \notin RecordedIds
    BY <2>2, MovingCallIsNew
  <2>4. status' = new /\ timeline' = Append(timeline, e)
    BY <1>3, <2>1, <2>3 DEF AdvanceStatus, TimelineWith
  <2>5. EventIsPast(e)'
    BY <2>1, <2>2, <2>4, RankIsNatural DEF EventIsPast, MadeFor
  <2> QED
    BY <1>0, <2>1, <2>2, <2>3, <2>4, <2>5, HistoryGrows
<1>4. ASSUME NEW id \in ClientIds \cup {NoId}, CancelOperation(id)
      PROVE  TimelineInductive'
  <2>0. CANCELLED \in OperationStatuses
    BY DEF OperationStatuses, TerminalStatuses
  <2>1. PICK e \in Events : e = [kind |-> "CANCELLED", from |-> status, to |-> CANCELLED, id |-> id]
    BY <2>0 DEF TypeOK, Events, EventTypes
  <2>2. CanOperationTransition(status, CANCELLED) /\ MadeFor(id, "cancel", CANCELLED)
    BY <1>4 DEF CancelOperation
  <2>3. id \notin RecordedIds
    BY <2>0, <2>2, MovingCallIsNew
  <2>4. status' = CANCELLED /\ timeline' = Append(timeline, e)
    BY <1>4, <2>1, <2>3 DEF CancelOperation, TimelineWith
  <2>5. EventIsPast(e)'
    BY <2>0, <2>1, <2>2, <2>4, RankIsNatural DEF EventIsPast, MadeFor
  <2> QED
    BY <1>0, <2>1, <2>2, <2>3, <2>4, <2>5, HistoryGrows
<1>5. ASSUME NEW id \in ClientIds, ReportIncident(id)
      PROVE  TimelineInductive'
  <2>1. PICK e \in Events : e = [kind |-> "INCIDENT_REPORTED", from |-> status, to |-> status,
                               id |-> id]
    BY DEF TypeOK, Events, EventTypes
  <2>2. status' = status /\ timeline' = TimelineWith(e) /\ CallOf[id].kind = "incident"
    BY <1>5, <2>1 DEF ReportIncident
  <2>3. CASE id \in RecordedIds
    BY <2>1, <2>2, <2>3, HistoryStays DEF TimelineWith
  <2>4. CASE id \notin RecordedIds
    <3>1. EventIsPast(e)'
      BY <2>1, <2>2 DEF EventIsPast
    <3>2. timeline' = Append(timeline, e)
      BY <2>1, <2>2, <2>4 DEF TimelineWith
    <3> QED
      BY <1>0, <2>1, <2>2, <2>4, <3>1, <3>2, HistoryGrows
  <2> QED BY <2>3, <2>4
<1>6. CASE UNCHANGED <<status, timeline>>
  BY <1>6, HistoryStays
<1> QED
  BY <1>1, <1>2, <1>3, <1>4, <1>5, <1>6
     DEF Next, OperationStep, RecordStopPod, RecordOperationPod, ChangeStopStatus,
         TrackingCommit

(* The timeline replays the operation's history, however calls are repeated. *)
THEOREM TimelineIsHistory == Spec => []TimelineReplaysStatus
<1>1. Init => TimelineInductive
  <2> SUFFICES ASSUME Init PROVE TimelineInductive
    OBVIOUS
  <2>1. PICK e : /\ e = [kind |-> "OPERATION_CREATED", from |-> ASSIGNED,
                         to |-> ASSIGNED, id |-> NoId]
                 /\ timeline = <<e>>
    BY DEF Init
  <2>2. Len(timeline) = 1 /\ timeline[1] = e
    BY <2>1
  <2>3. e.to = status /\ e.id = NoId
    BY <2>1 DEF Init
  <2>4. \A i \in 1..Len(timeline) : i = 1
    BY <2>2
  <2>5. \A i \in 2..Len(timeline) : FALSE
    BY <2>2
  <2>6. TimelineReplaysStatus
    BY <2>2, <2>3, <2>4, <2>5 DEF TimelineReplaysStatus
  <2> QED
    BY <2>2, <2>3, <2>4, <2>6 DEF TimelineInductive, EventIsPast
<1>2. TimelineInductive => TimelineReplaysStatus
  BY DEF TimelineInductive
<1> QED
  BY <1>1, <1>2, HistoryStep, TypeCorrect, PTL DEF Spec
--------------------------------------------------------------------------------
(* The custody of the cargo: each step of the operation is a step of the   *)
(* custody promise or leaves it.                                           *)

views == <<OrderView, CustodyView, ProvedView>>

(* Where a lot is depends on the status of its two stops only. *)
LEMMA CustodyStays ==
  ASSUME UNCHANGED stopStatus
  PROVE  CustodyView' = CustodyView
BY DEF CustodyView, CustodyOf, ProvableLots, DeliveryStops

(* Which lots are proved depends on the stops' proofs only. *)
LEMMA ProofStays ==
  ASSUME UNCHANGED stopPod
  PROVE  ProvedView' = ProvedView
BY DEF ProvedView, ProvableLots, DeliveryStops

(* While the driver is at a lot's delivery stop the lot is on board. *)
LEMMA LotAtOpenDelivery ==
  ASSUME Inductive, NEW l \in ProvableLots,
         stopStatus[LotDelivery[l]] = "ARRIVED"
  PROVE  CustodyOf(l) = "ON_BOARD"
BY StopsAssumption
   DEF Inductive, TypeOK, CargoDroppedWasCollected, CargoCollected, LotsDroppedAt,
       ProvableLots, CustodyOf

(* Delivering or cancelling the operation delivers or cancels the order. *)
LEMMA OrderStep ==
  ASSUME Inductive, NEW new \in OperationStatuses, NEW id \in ClientIds \cup {NoId},
         AdvanceStatus(new, id)
  PROVE  Custody!Next \/ UNCHANGED views
<1>1. /\ UNCHANGED <<stopStatus, stopPod>>
      /\ status \notin TerminalStatuses
      /\ status' = new
  BY DEF AdvanceStatus, StatusAccepted, CanOperationTransition, ForwardTransitions,
         TerminalStatuses, DELIVERED, CANCELLED, ASSIGNED, EN_ROUTE,
         ARRIVED_AT_PICKUP, LOADING, IN_TRANSIT, ARRIVED_AT_DELIVERY, UNLOADING
<1>2. CustodyView' = CustodyView /\ ProvedView' = ProvedView
  BY <1>1, CustodyStays, ProofStays
<1>3. OrderView = "OPEN"
  BY <1>1 DEF OrderView
<1>4. CASE new = DELIVERED
  <2>1. OrderView' = "DELIVERED"
    BY <1>1, <1>4 DEF OrderView, TerminalStatuses, DELIVERED
  <2>2. DeliveryProven /\ (Stops # {} => \A s \in DeliveryStops : StopDone(s))
    BY <1>4 DEF AdvanceStatus, StatusAccepted, DeliveryProven
  <2>3. \A l \in ProvableLots : CustodyView[l] \notin {"AWAITING", "ON_BOARD"}
    BY <2>2, StopsAssumption DEF ProvableLots, DeliveryStops, CustodyView, CustodyOf, StopDone
  <2>4. Custody!Deliver
    BY <1>2, <1>3, <2>1, <2>3 DEF Custody!Deliver, Custody!Where
  <2> QED BY <2>4 DEF Custody!Next
<1>5. CASE new = CANCELLED
  <2>1. OrderView' = "CANCELLED"
    BY <1>1, <1>5 DEF OrderView, TerminalStatuses, CANCELLED
  <2>2. Custody!Cancel
    BY <1>2, <1>3, <2>1 DEF Custody!Cancel
  <2> QED BY <2>2 DEF Custody!Next
<1>6. CASE new \notin TerminalStatuses
  BY <1>1, <1>2, <1>3, <1>6 DEF OrderView, views
<1> QED
  BY <1>4, <1>5, <1>6 DEF TerminalStatuses

(* Cancelling the operation cancels the order: a custody step. *)
LEMMA CancelStep ==
  ASSUME Inductive, NEW id \in ClientIds \cup {NoId}, CancelOperation(id)
  PROVE  Custody!Next
<1>1. UNCHANGED <<stopStatus, stopPod>> /\ status' = CANCELLED
      /\ status \notin TerminalStatuses
  BY DEF CancelOperation, CanOperationTransition, ForwardTransitions, TerminalStatuses,
         DELIVERED, CANCELLED, ASSIGNED, EN_ROUTE, ARRIVED_AT_PICKUP, LOADING,
         IN_TRANSIT, ARRIVED_AT_DELIVERY, UNLOADING
<1>2. Custody!Cancel
  BY <1>1, CustodyStays, ProofStays
     DEF Custody!Cancel, OrderView, TerminalStatuses, CANCELLED
<1> QED BY <1>2 DEF Custody!Next

(* The proof at a stop proves the lots that are dropped there. *)
LEMMA ProveStep ==
  ASSUME Inductive, NEW s \in Stops, NEW pod \in PodData, RecordStopPod(s, pod)
  PROVE  Custody!Next
<1> DEFINE lots == {l \in ProvableLots : LotDelivery[l] = s}
<1>1. UNCHANGED <<status, stopStatus>> /\ stopStatus[s] = "ARRIVED"
  BY DEF RecordStopPod, StopPodAccepted
<1>2. \A l \in lots : CustodyView[l] = "ON_BOARD"
  BY <1>1, LotAtOpenDelivery DEF CustodyView
<1>3. ProvedView' = ProvedView \cup lots
  <2>1. stopPod' = [stopPod EXCEPT ![s] = pod] /\ pod # NoPod
    BY PodAssumption DEF RecordStopPod
  <2>2. \A l \in ProvableLots : LotDelivery[l] \in Stops
    BY DEF ProvableLots, DeliveryStops
  <2>3. \A l \in ProvableLots :
          stopPod'[LotDelivery[l]] # NoPod
            <=> stopPod[LotDelivery[l]] # NoPod \/ LotDelivery[l] = s
    BY <2>1, <2>2 DEF Inductive, TypeOK
  <2>4. ProvableLots' = ProvableLots
    BY DEF ProvableLots, DeliveryStops
  <2> QED BY <2>3, <2>4 DEF ProvedView
<1>4. Custody!Prove(lots)
  BY <1>1, <1>2, <1>3, CustodyStays DEF Custody!Prove, Custody!Where, OrderView
<1>5. lots \in SUBSET ProvableLots
  OBVIOUS
<1> QED BY <1>4, <1>5 DEF Custody!Next

(* Arriving moves no cargo; completing a stop drops the lots that end there
   and takes on those that start there; cancelling it forfeits both. *)
LEMMA ServeStep ==
  ASSUME Inductive, NEW s \in Stops, NEW new \in StopStatuses,
         ChangeStopStatus(s, new)
  PROVE  Custody!Next \/ UNCHANGED views
<1> USE DEF Inductive, TypeOK
<1>1. /\ UNCHANGED <<status, stopPod>>
      /\ stopStatus'[s] = new
      /\ \A u \in Stops \ {s} : stopStatus'[u] = stopStatus[u]
      /\ stopStatus[s] \in {"PENDING", "ARRIVED"}
      /\ new \in {"ARRIVED", "COMPLETED", "CANCELLED"}
      /\ new = "COMPLETED" => stopStatus[s] = "ARRIVED"
  BY DEF ChangeStopStatus, StopMoveAccepted, StopTransitions
<1>2. OrderView' = OrderView /\ ProvedView' = ProvedView
  BY <1>1, ProofStays DEF OrderView
<1>3. \A l \in ProvableLots :
        /\ LotPickup[l] \in Stops /\ LotDelivery[l] \in Stops
        /\ LotPickup[l] < LotDelivery[l] /\ LotPickup[l] # LotDelivery[l]
  <2> SUFFICES ASSUME NEW l \in ProvableLots
               PROVE  /\ LotPickup[l] \in Stops /\ LotDelivery[l] \in Stops
                      /\ LotPickup[l] < LotDelivery[l] /\ LotPickup[l] # LotDelivery[l]
    OBVIOUS
  <2>1. /\ LotPickup[l] \in Stops /\ LotDelivery[l] \in Stops
        /\ LotPickup[l] < LotDelivery[l]
    BY StopsAssumption DEF ProvableLots
  <2>2. LotPickup[l] \in Nat /\ LotDelivery[l] \in Nat
    BY <2>1, StopsAssumption
  <2> QED BY <2>1, <2>2
<1>4. ProvableLots' = ProvableLots
  BY DEF ProvableLots, DeliveryStops
<1>5. CustodyView' = [l \in ProvableLots |-> CustodyOf(l)']
  BY <1>4 DEF CustodyView
<1>6. CASE new = "ARRIVED"
  <2>1. \A l \in ProvableLots : CustodyOf(l)' = CustodyOf(l)
    BY <1>1, <1>3, <1>6 DEF CustodyOf
  <2> QED BY <1>2, <1>5, <2>1 DEF views, CustodyView
<1>7. CASE new = "COMPLETED"
  <2> DEFINE drop == {l \in ProvableLots : LotDelivery[l] = s}
             take == {l \in ProvableLots : LotPickup[l] = s}
  <2>1. \A l \in drop : CustodyOf(l) = "ON_BOARD" /\ CustodyOf(l)' = "DROPPED"
    <3> SUFFICES ASSUME NEW l \in drop
                 PROVE  CustodyOf(l) = "ON_BOARD" /\ CustodyOf(l)' = "DROPPED"
      OBVIOUS
    <3>1. CustodyOf(l) = "ON_BOARD"
      BY <1>1, <1>7, LotAtOpenDelivery
    <3>2. stopStatus[LotPickup[l]] = "COMPLETED"
      BY <3>1 DEF CustodyOf
    <3> QED BY <1>1, <1>3, <1>7, <3>1, <3>2 DEF CustodyOf
  <2>2. drop \subseteq ProvedView
    BY <1>7 DEF ProvedView, ChangeStopStatus, StopMoveAccepted, ProvableLots, DeliveryStops
  <2>3. \A l \in take : CustodyOf(l) = "AWAITING" /\ CustodyOf(l)' = "ON_BOARD"
    <3> SUFFICES ASSUME NEW l \in take
                 PROVE  CustodyOf(l) = "AWAITING" /\ CustodyOf(l)' = "ON_BOARD"
      OBVIOUS
    <3>1. stopStatus[LotDelivery[l]] = "PENDING"
      BY <1>1, <1>3, StopsAssumption DEF StopsInSequence, EarlierStopsDone, StopDone
    <3> QED BY <1>1, <1>3, <1>7, <3>1 DEF CustodyOf
  <2>4. \A l \in ProvableLots \ (drop \cup take) : CustodyOf(l)' = CustodyOf(l)
    BY <1>1, <1>3 DEF CustodyOf
  <2>5. Custody!ServeStop(drop, take)
    BY <1>2, <1>5, <2>1, <2>2, <2>3, <2>4 DEF Custody!ServeStop, Custody!Where, CustodyView
  <2>6. drop \in SUBSET ProvableLots /\ take \in SUBSET ProvableLots
    OBVIOUS
  <2> QED BY <2>5, <2>6 DEF Custody!Next
<1>8. CASE new = "CANCELLED"
  <2> DEFINE lots == {l \in ProvableLots :
                        /\ s \in {LotPickup[l], LotDelivery[l]}
                        /\ CustodyOf(l) \in {"AWAITING", "ON_BOARD"}}
  <2>1. \A l \in lots : CustodyOf(l)' = "FORFEITED"
    BY <1>1, <1>8 DEF CustodyOf
  <2>2. \A l \in ProvableLots \ lots : CustodyOf(l)' = CustodyOf(l)
    <3> SUFFICES ASSUME NEW l \in ProvableLots, l \notin lots
                 PROVE  CustodyOf(l)' = CustodyOf(l)
      OBVIOUS
    <3>1. CASE s \notin {LotPickup[l], LotDelivery[l]}
      BY <1>1, <1>3, <3>1 DEF CustodyOf
    <3>2. CASE s \in {LotPickup[l], LotDelivery[l]}
      <4>1. CustodyOf(l) \in {"FORFEITED", "DROPPED"}
        BY <3>2 DEF CustodyOf
      <4>2. stopStatus[LotDelivery[l]] # "COMPLETED"
        BY <1>1, <1>3, <3>2 DEF StopsInSequence, EarlierStopsDone, StopDone
      <4>3. CustodyOf(l) = "FORFEITED"
        BY <4>1, <4>2 DEF CustodyOf
      <4> QED BY <1>1, <1>3, <1>8, <3>2, <4>3 DEF CustodyOf
    <3> QED BY <3>1, <3>2
  <2>3. Custody!Forfeit(lots)
    BY <1>2, <1>5, <2>1, <2>2 DEF Custody!Forfeit, Custody!Where, CustodyView
  <2>4. lots \in SUBSET ProvableLots
    OBVIOUS
  <2> QED BY <2>3, <2>4 DEF Custody!Next
<1> QED BY <1>1, <1>6, <1>7, <1>8

(* The operation keeps the custody promise. *)
THEOREM CustodyIsKept == Spec => CustodyKept
<1>1. Init => Custody!Init
  BY StopsAssumption
     DEF Init, Custody!Init, OrderView, CustodyView, CustodyOf, ProvedView,
         ProvableLots, DeliveryStops, TerminalStatuses, ASSIGNED, DELIVERED, CANCELLED
<1>2. Inductive /\ [Next]_vars => [Custody!Next]_(Custody!vars)
  <2> SUFFICES ASSUME Inductive, [Next]_vars
               PROVE  Custody!Next \/ UNCHANGED views
    BY DEF views, Custody!vars
  <2>1. ASSUME NEW new \in OperationStatuses, NEW id \in ClientIds \cup {NoId},
               AdvanceStatus(new, id)
        PROVE  Custody!Next \/ UNCHANGED views
    BY <2>1, OrderStep
  <2>2. ASSUME NEW id \in ClientIds \cup {NoId}, CancelOperation(id)
        PROVE  Custody!Next
    BY <2>2, CancelStep
  <2>3. ASSUME NEW s \in Stops, NEW pod \in PodData, RecordStopPod(s, pod)
        PROVE  Custody!Next
    BY <2>3, ProveStep
  <2>4. ASSUME NEW s \in Stops, NEW new \in StopStatuses, ChangeStopStatus(s, new)
        PROVE  Custody!Next \/ UNCHANGED views
    BY <2>4, ServeStep
  <2>5. CASE UNCHANGED <<status, stopStatus, stopPod>>
    BY <2>5, CustodyStays, ProofStays DEF views, OrderView
  <2> QED
    BY <2>1, <2>2, <2>3, <2>4, <2>5
       DEF Next, OperationStep, vars, RepeatStatus, ReportIncident,
           RecordOperationPod, TrackingCommit
<1> QED
  BY <1>1, <1>2, InductiveHolds, PTL DEF Spec, CustodyKept, Custody!Spec
--------------------------------------------------------------------------------
(* Tracking.  No step locks a session except the one that opens it; the    *)
(* invariant relates what a worker remembers to the rows it read.          *)

Requests ==
  [pc : {"idle", "opening", "readSession", "readOperation", "commit", "ending"},
   session : SessionIds \cup {NoSession},
   todo : SUBSET Sequences, taken : SUBSET Sequences]

\* What holds of a request being served: its session is one that was opened;
\* a batch being read has points left; and a batch took its points while both
\* its session and the operation were open, so the closure that came after
\* ended that session for good.
InBatch(r) == r.pc \in {"readSession", "readOperation", "commit"}

RequestSound(r) ==
  /\ r \in Requests
  /\ InBatch(r) \/ r.pc = "ending" => r.session \in SessionIds /\ Known(r.session)
  /\ r.pc \in {"readSession", "readOperation"} => r.todo # {}
  /\ InBatch(r) /\ (r.taken # {} \/ r.pc = "commit") /\ status \in TerminalStatuses =>
       r.session \notin ActiveSessions

OneActive == \A t, u \in ActiveSessions : t = u

UnopenedAreEmpty == \A t \in SessionIds : ~Known(t) => points[t] = {}

TrackingInv ==
  /\ TypeOK
  /\ points \in [SessionIds -> SUBSET Sequences]
  /\ req \in [Workers -> Requests]
  /\ \A w \in Workers : RequestSound(req[w])
  /\ OneActive
  /\ UnopenedAreEmpty
  /\ StraySessionStaysEmpty

(* Every set of numbers that is not empty has a least one. *)
LEMMA LeastElement ==
  ASSUME NEW S \in SUBSET Nat, S # {}
  PROVE  \E m \in S : \A k \in S : m <= k
<1>1. PICK m \in S : \A k \in S : ~(<<k, m>> \in OpToRel(<, Nat))
  BY NatLessThanWellFounded, WFMin, Zenon
<1>2. \A k \in S : ~(k < m)
  BY <1>1 DEF OpToRel
<1> QED
  BY <1>2

(* The next point of a batch is one of the batch. *)
LEMMA NextPointIsInBatch ==
  ASSUME NEW S \in SUBSET Sequences, S # {}
  PROVE  Min(S) \in S
<1>1. \E m \in S : \A k \in S : m <= k
  BY LeastElement, TrackingAssumption
<1> QED
  BY <1>1 DEF Min

(* A service of the operation closes it together with its active sessions, *)
(* or leaves the sessions alone.                                           *)
LEMMA ServiceOutcomes ==
  ASSUME TypeOK, OperationStep
  PROVE  \/ /\ UNCHANGED sessions
            /\ status' \in TerminalStatuses => status \in TerminalStatuses
         \/ \E reason \in ClosureReasons : EndActiveSessions(reason)
<1>1. ASSUME NEW new \in OperationStatuses, NEW id \in ClientIds \cup {NoId},
             AdvanceStatus(new, id)
      PROVE  \/ UNCHANGED sessions /\ status' \notin TerminalStatuses
             \/ \E reason \in ClosureReasons : EndActiveSessions(reason)
  <2>1. ClosureReason(new) \in ClosureReasons
    BY DEF ClosureReason, ClosureReasons
  <2> QED
    BY <1>1, <2>1 DEF AdvanceStatus
<1>2. ASSUME NEW id \in ClientIds \cup {NoId}, CancelOperation(id)
      PROVE  \E reason \in ClosureReasons : EndActiveSessions(reason)
  BY <1>2 DEF CancelOperation, ClosureReasons
<1>3. ASSUME ~\E new \in OperationStatuses, id \in ClientIds \cup {NoId} : AdvanceStatus(new, id),
             ~\E id \in ClientIds \cup {NoId} : CancelOperation(id)
      PROVE  UNCHANGED <<status, sessions>>
  BY <1>3 DEF OperationStep, RepeatStatus, ReportIncident, RecordStopPod,
              RecordOperationPod, ChangeStopStatus
<1> QED
  BY <1>1, <1>2, <1>3

(* Opening and ending sessions are the commits that the operation knows of; *)
(* every other step of a worker leaves the operation alone.                *)
LEMMA TrackingStepImplements ==
  ASSUME TypeOK, \A w \in Workers : RequestSound(req[w]), TrackingNext
  PROVE  [Next]_vars
<1>1. ASSUME NEW w \in Workers, OpenOrReturn(w)
      PROVE  [Next]_vars
  <2>1. CASE UNCHANGED sessions
    BY <1>1, <2>1 DEF OpenOrReturn, coreButSessions, vars
  <2>2. CASE sessions' # sessions
    <3>1. PICK t \in SessionIds :
            /\ sessions[t].status = "NONE"
            /\ sessions' = [sessions EXCEPT ![t] = [status |-> "ACTIVE", closure |-> ""]]
      BY <1>1, <2>2 DEF OpenOrReturn, Known
    <3>2. \A u \in SessionIds : sessions[u].status # "ACTIVE"
      BY <1>1, <2>2 DEF OpenOrReturn, ActiveSessions
    <3> QED
      BY <1>1, <3>1, <3>2 DEF OpenOrReturn, coreButSessions, TrackingCommit, Next
  <2> QED
    BY <2>1, <2>2
<1>2. ASSUME NEW w \in Workers, SaveEnded(w)
      PROVE  Next
  <2>1. req[w].session \in SessionIds /\ sessions[req[w].session].status # "NONE"
    BY <1>2 DEF SaveEnded, RequestSound, Known
  <2> QED
    BY <1>2, <2>1 DEF SaveEnded, coreButSessions, TrackingCommit, Next
<1>3. ASSUME NEW w \in Workers, TrackingStep(w), ~OpenOrReturn(w), ~SaveEnded(w)
      PROVE  UNCHANGED vars
  BY <1>3 DEF TrackingStep, StartRequest, BatchRequest, ReadSession, ReadOperation,
              CommitBatch, EndRequest, WorkerDies
<1> QED
  BY <1>1, <1>2, <1>3 DEF TrackingNext, Next

(* A step that only moves one worker on keeps the invariant when the       *)
(* request it moves to is sound.                                           *)
LEMMA RequestStep ==
  ASSUME TrackingInv, NEW w \in Workers, NEW r, RequestSound(r),
         req' = [req EXCEPT ![w] = r], UNCHANGED <<vars, points>>
  PROVE  TrackingInv'
<1>1. /\ TypeOK'
      /\ points' \in [SessionIds -> SUBSET Sequences]
      /\ OneActive'
      /\ UnopenedAreEmpty'
      /\ StraySessionStaysEmpty'
  BY DEF TrackingInv, TypeOK, OneActive, UnopenedAreEmpty, StraySessionStaysEmpty,
         ActiveSessions, Known, vars
<1>2. r \in Requests
  BY DEF RequestSound
<1>3. req' \in [Workers -> Requests]
  BY <1>2 DEF TrackingInv
<1>4. \A v \in Workers : RequestSound(req'[v])
  BY DEF TrackingInv
<1>5. \A v \in Workers : RequestSound(req[v])'
  BY <1>4 DEF RequestSound, Known, ActiveSessions, InBatch, vars
<1> QED
  BY <1>1, <1>3, <1>5 DEF TrackingInv

(* A worker that answers has nothing left to be wrong about. *)
LEMMA IdleIsSound == RequestSound(Idle)
BY DEF RequestSound, Requests, Idle, InBatch

(* The steps in which a worker reads. *)
LEMMA ReadingStep ==
  ASSUME TrackingInv, NEW w \in Workers,
         \/ StartRequest(w) \/ ReadSession(w) \/ ReadOperation(w) \/ WorkerDies(w)
         \/ \E t \in SessionIds, b \in Batches : BatchRequest(w, t, b)
         \/ \E t \in SessionIds : EndRequest(w, t)
  PROVE  TrackingInv'
<1>r. req \in [Workers -> Requests] /\ req[w] \in Requests /\ RequestSound(req[w])
  BY DEF TrackingInv
<1>1. CASE StartRequest(w)
  <2>1. RequestSound([req[w] EXCEPT !.pc = "opening"])
    BY <1>r DEF RequestSound, Requests, InBatch
  <2> QED
    BY <1>1, <2>1, RequestStep DEF StartRequest, Goto
<1>2. CASE ReadSession(w)
  <2>1. CASE sessions[req[w].session].status = "ACTIVE"
    <3>1. req[w].pc = "readSession" /\ req' = [req EXCEPT ![w] = [req[w] EXCEPT !.pc = "readOperation"]]
      BY <1>2, <2>1 DEF ReadSession, Goto
    <3>2. RequestSound([req[w] EXCEPT !.pc = "readOperation"])
      BY <1>r, <3>1 DEF RequestSound, Requests, InBatch
    <3> QED
      BY <1>2, <3>1, <3>2, RequestStep DEF ReadSession
  <2>2. CASE sessions[req[w].session].status # "ACTIVE"
    BY <1>2, <2>2, IdleIsSound, RequestStep DEF ReadSession, Respond
  <2> QED
    BY <2>1, <2>2
<1>3. CASE ReadOperation(w)
  <2>1. CASE status \in TerminalStatuses
    BY <1>3, <2>1, IdleIsSound, RequestStep DEF ReadOperation, Respond
  <2>2. CASE status \notin TerminalStatuses
    <3> DEFINE n == Min(req[w].todo)
               r == [req[w] EXCEPT
                       !.todo = req[w].todo \ {n}, !.taken = req[w].taken \cup {n},
                       !.pc = IF req[w].todo = {n} THEN "commit" ELSE "readSession"]
    <3>1. req[w].pc = "readOperation" /\ req[w].todo # {} /\ req[w].todo \in SUBSET Sequences
      BY <1>r, <1>3 DEF ReadOperation, RequestSound, Requests
    <3>2. n \in req[w].todo
      BY <3>1, NextPointIsInBatch
    <3> HIDE DEF n
    <3>3. r \in Requests
      BY <1>r, <3>1, <3>2 DEF Requests
    <3>4. /\ r.session = req[w].session
          /\ r.pc = "readSession" => r.todo # {}
          /\ r.pc # "readOperation"
      BY <1>r, <3>1, <3>2 DEF Requests
    <3>5. RequestSound(r)
      BY <1>r, <2>2, <3>1, <3>3, <3>4 DEF RequestSound, InBatch
    <3>6. req' = [req EXCEPT ![w] = r] /\ UNCHANGED <<vars, points>>
      BY <1>3, <2>2 DEF ReadOperation, n
    <3> HIDE DEF r
    <3> QED
      BY <3>5, <3>6, RequestStep
  <2> QED
    BY <2>1, <2>2
<1>4. CASE WorkerDies(w)
  BY <1>4, IdleIsSound, RequestStep DEF WorkerDies, Respond
<1>5. ASSUME NEW t \in SessionIds, NEW b \in Batches, BatchRequest(w, t, b)
      PROVE  TrackingInv'
  <2> DEFINE r == [pc |-> "readSession", session |-> t, todo |-> b, taken |-> {}]
  <2>1. RequestSound(r)
    BY <1>5 DEF BatchRequest, Batches, RequestSound, Requests, InBatch
  <2>2. req' = [req EXCEPT ![w] = r] /\ UNCHANGED <<vars, points>>
    BY <1>5 DEF BatchRequest
  <2> HIDE DEF r
  <2> QED
    BY <2>1, <2>2, RequestStep
<1>6. ASSUME NEW t \in SessionIds, EndRequest(w, t)
      PROVE  TrackingInv'
  <2> DEFINE r == [req[w] EXCEPT !.pc = "ending", !.session = t]
  <2>1. RequestSound(r)
    BY <1>r, <1>6 DEF EndRequest, RequestSound, Requests, InBatch, Known
  <2>2. req' = [req EXCEPT ![w] = r] /\ UNCHANGED <<vars, points>>
    BY <1>6 DEF EndRequest
  <2> HIDE DEF r
  <2> QED
    BY <2>1, <2>2, RequestStep
<1> QED
  BY <1>1, <1>2, <1>3, <1>4, <1>5, <1>6

(* A step that changes sessions keeps the invariant when it forgets none,  *)
(* makes active only one that was never opened, and closes the operation   *)
(* only with its sessions.                                                 *)
LEMMA SessionsStep ==
  ASSUME TrackingInv, TypeOK', OneActive', UNCHANGED points,
         UNCHANGED req \/ \E w \in Workers : req' = [req EXCEPT ![w] = Idle],
         \A t \in SessionIds : Known(t) => Known(t)',
         \A t \in ActiveSessions' : t \in ActiveSessions \/ ~Known(t),
         status' \in TerminalStatuses => status \in TerminalStatuses \/ ActiveSessions' = {}
  PROVE  TrackingInv'
<1>1. req' \in [Workers -> Requests] /\ \A v \in Workers : req'[v] = req[v] \/ req'[v] = Idle
  BY IdleIsSound DEF RequestSound, TrackingInv
<1>2. \A v \in Workers : RequestSound(req[v])'
  <2> SUFFICES ASSUME NEW v \in Workers PROVE RequestSound(req[v])'
    OBVIOUS
  <2>1. CASE req'[v] = Idle
    BY <2>1 DEF RequestSound, Requests, Idle, InBatch
  <2>2. CASE req'[v] = req[v]
    <3>1. RequestSound(req[v])
      BY DEF TrackingInv
    <3>2. InBatch(req[v]) \/ req[v].pc = "ending" =>
            req[v].session \in SessionIds /\ Known(req[v].session) /\ Known(req[v].session)'
      BY <2>2, <3>1 DEF RequestSound
    <3>3. InBatch(req[v]) /\ (req[v].taken # {} \/ req[v].pc = "commit")
            /\ status' \in TerminalStatuses => req[v].session \notin ActiveSessions'
      BY <3>1, <3>2 DEF RequestSound
    <3> QED
      BY <2>2, <3>1, <3>2, <3>3 DEF RequestSound, InBatch
  <2> QED
    BY <1>1, <2>1, <2>2
<1>3. UnopenedAreEmpty'
  BY DEF TrackingInv, UnopenedAreEmpty
<1>4. StraySessionStaysEmpty'
  <2> SUFFICES ASSUME status' \in TerminalStatuses, NEW t \in ActiveSessions'
               PROVE  points[t] = {}
    BY DEF StraySessionStaysEmpty
  <2>1. t \in SessionIds /\ status \in TerminalStatuses
    BY DEF ActiveSessions
  <2> QED
    BY <2>1 DEF TrackingInv, UnopenedAreEmpty, StraySessionStaysEmpty
<1> QED
  BY <1>1, <1>2, <1>3, <1>4 DEF TrackingInv

(* The closure of the operation, and every other service, beside the workers. *)
LEMMA ServiceStep ==
  ASSUME TrackingInv, TypeOK', OperationStep, UNCHANGED trackingVars
  PROVE  TrackingInv'
<1>1. CASE UNCHANGED sessions /\ (status' \in TerminalStatuses => status \in TerminalStatuses)
  <2>1. ActiveSessions' = ActiveSessions /\ \A t : Known(t)' = Known(t)
    BY <1>1 DEF ActiveSessions, Known
  <2>2. OneActive'
    BY <2>1 DEF TrackingInv, OneActive
  <2> QED
    BY <1>1, <2>1, <2>2, SessionsStep DEF trackingVars
<1>2. ASSUME NEW reason \in ClosureReasons, EndActiveSessions(reason)
      PROVE  TrackingInv'
  <2>1. ActiveSessions' = {}
    BY <1>2 DEF EndActiveSessions, ActiveSessions
  <2>2. \A t \in SessionIds : Known(t) => Known(t)'
    BY <1>2 DEF EndActiveSessions, Known
  <2>3. OneActive'
    BY <2>1 DEF OneActive
  <2> QED
    BY <2>1, <2>2, <2>3, SessionsStep DEF trackingVars
<1> QED
  BY <1>1, <1>2, ServiceOutcomes DEF TrackingInv

(* Under the lock at most one start request opens a session. *)
LEMMA OpenStep ==
  ASSUME TrackingInv, TypeOK', NEW w \in Workers, OpenOrReturn(w)
  PROVE  TrackingInv'
<1>0. sessions \in [SessionIds -> [status : SessionStatuses, closure : ClosureReasons]]
  BY DEF TrackingInv, TypeOK
<1>1. CASE UNCHANGED sessions
  <2>1. ActiveSessions' = ActiveSessions /\ \A t : Known(t)' = Known(t)
    BY <1>1 DEF ActiveSessions, Known
  <2>2. OneActive'
    BY <2>1 DEF TrackingInv, OneActive
  <2> QED
    BY <2>1, <2>2, SessionsStep DEF OpenOrReturn, Respond, coreButSessions
<1>2. CASE sessions' # sessions
  <2>1. PICK t \in SessionIds :
          /\ ~Known(t)
          /\ sessions' = [sessions EXCEPT ![t] = [status |-> "ACTIVE", closure |-> ""]]
    BY <1>2 DEF OpenOrReturn
  <2>2. ActiveSessions = {}
    BY <1>2 DEF OpenOrReturn
  <2>3. ActiveSessions' = {t} /\ \A u \in SessionIds : Known(u) => Known(u)'
    BY <1>0, <2>1, <2>2 DEF ActiveSessions, Known
  <2>4. OneActive'
    BY <2>3 DEF OneActive
  <2>5. UNCHANGED <<status, points>> /\ req' = [req EXCEPT ![w] = Idle]
    BY DEF OpenOrReturn, Respond, coreButSessions
  <2> QED
    BY <2>1, <2>3, <2>4, <2>5, SessionsStep
<1> QED
  BY <1>1, <1>2

(* The stale row that an end request saves ends its session once more. *)
LEMMA SaveStep ==
  ASSUME TrackingInv, TypeOK', NEW w \in Workers, SaveEnded(w)
  PROVE  TrackingInv'
<1>1. UNCHANGED <<status, points>> /\ req' = [req EXCEPT ![w] = Idle]
  BY DEF SaveEnded, Respond, coreButSessions
<1>2. /\ ActiveSessions' \subseteq ActiveSessions
      /\ \A t \in SessionIds : Known(t) => Known(t)'
  BY DEF SaveEnded, ActiveSessions, Known, TrackingInv, TypeOK
<1>3. OneActive'
  BY <1>2 DEF TrackingInv, OneActive
<1> QED
  BY <1>1, <1>2, <1>3, SessionsStep

(* A batch that commits after the closure adds to a session that ended. *)
LEMMA CommitStep ==
  ASSUME TrackingInv, NEW w \in Workers, CommitBatch(w)
  PROVE  TrackingInv'
<1>r. RequestSound(req[w]) /\ req[w] \in Requests /\ req[w].pc = "commit"
  BY DEF TrackingInv, CommitBatch
<1>1. /\ req[w].session \in SessionIds /\ Known(req[w].session)
      /\ status \in TerminalStatuses => req[w].session \notin ActiveSessions
  BY <1>r DEF RequestSound, InBatch
<1>2. /\ points' = [points EXCEPT ![req[w].session] = @ \cup req[w].taken]
      /\ req' = [req EXCEPT ![w] = Idle]
      /\ UNCHANGED vars
  BY DEF CommitBatch, Respond
<1>3. \A t \in SessionIds : t # req[w].session => points'[t] = points[t]
  BY <1>2 DEF TrackingInv
<1>4. points' \in [SessionIds -> SUBSET Sequences]
  BY <1>r, <1>2 DEF TrackingInv, Requests
<1>5. /\ TypeOK' /\ OneActive'
      /\ ActiveSessions' = ActiveSessions /\ status' = status
      /\ \A t : Known(t)' = Known(t)
  BY <1>2 DEF TrackingInv, TypeOK, OneActive, ActiveSessions, Known, vars
<1>6. UnopenedAreEmpty'
  BY <1>1, <1>3, <1>5 DEF TrackingInv, UnopenedAreEmpty
<1>7. StraySessionStaysEmpty'
  <2> SUFFICES ASSUME status \in TerminalStatuses, NEW t \in ActiveSessions
               PROVE  points'[t] = {}
    BY <1>5 DEF StraySessionStaysEmpty
  <2>1. t \in SessionIds /\ t # req[w].session
    BY <1>1 DEF ActiveSessions
  <2> QED
    BY <1>3, <2>1 DEF TrackingInv, StraySessionStaysEmpty
<1>8. req' \in [Workers -> Requests]
  BY <1>2, IdleIsSound DEF TrackingInv, RequestSound
<1>9. \A v \in Workers : RequestSound(req[v])'
  <2>1. \A v \in Workers : RequestSound(req'[v])
    BY <1>2, IdleIsSound DEF TrackingInv
  <2> QED
    BY <1>5, <2>1 DEF RequestSound, InBatch
<1> QED
  BY <1>4, <1>5, <1>6, <1>7, <1>8, <1>9 DEF TrackingInv

(* Every step of a worker or of a service keeps the invariant. *)
LEMMA TrackingInvStep == TrackingInv /\ [TrackingNext]_compositeVars => TrackingInv'
<1> SUFFICES ASSUME TrackingInv, [TrackingNext]_compositeVars PROVE TrackingInv'
  OBVIOUS
<1>1. CASE UNCHANGED compositeVars
  BY <1>1 DEF compositeVars, vars, trackingVars, TrackingInv, TypeOK, RequestSound, InBatch,
              OneActive, UnopenedAreEmpty, StraySessionStaysEmpty, ActiveSessions, Known
<1>2. CASE TrackingNext
  <2>1. TypeOK'
    BY <1>2, TrackingStepImplements, TypeStep DEF TrackingInv
  <2>2. CASE OperationStep /\ UNCHANGED trackingVars
    BY <2>1, <2>2, ServiceStep
  <2>3. ASSUME NEW w \in Workers, TrackingStep(w)
        PROVE  TrackingInv'
    BY <2>1, <2>3, ReadingStep, OpenStep, SaveStep, CommitStep DEF TrackingStep
  <2> QED
    BY <1>2, <2>2, <2>3 DEF TrackingNext
<1> QED
  BY <1>1, <1>2

LEMMA TrackingInvInit == TrackingInit => TrackingInv
<1> SUFFICES ASSUME TrackingInit PROVE TrackingInv
  OBVIOUS
<1>1. Init /\ TypeOK
  BY TypeInit DEF TrackingInit
<1>2. ActiveSessions = {}
  BY <1>1 DEF Init, ActiveSessions
<1>3. req \in [Workers -> Requests] /\ \A w \in Workers : RequestSound(req[w])
  BY IdleIsSound DEF TrackingInit, RequestSound
<1> QED
  BY <1>1, <1>2, <1>3
     DEF TrackingInit, TrackingInv, OneActive, UnopenedAreEmpty, StraySessionStaysEmpty

THEOREM TrackingInvariant == TrackingSpec => []TrackingInv
BY TrackingInvInit, TrackingInvStep, PTL DEF TrackingSpec

(* What the tracking workers remember and store keeps its type. *)
THEOREM TrackingTypeCorrect == TrackingSpec => [](TypeOK /\ TrackingTypeOK)
<1>1. TrackingInv => TypeOK /\ TrackingTypeOK
  BY DEF TrackingInv, TrackingTypeOK, Requests
<1> QED
  BY <1>1, TrackingInvariant, PTL

(* However start requests, end requests and closures race, an operation has *)
(* one active session at most.                                             *)
THEOREM OneActiveSession == TrackingSpec => []AtMostOneActiveSession
<1>1. TrackingInv => AtMostOneActiveSession
  <2> SUFFICES ASSUME TrackingInv PROVE Cardinality(ActiveSessions) <= 1
    BY DEF AtMostOneActiveSession
  <2>1. CASE ActiveSessions = {}
    BY <2>1, FS_EmptySet
  <2>2. CASE ActiveSessions # {}
    <3>1. PICK t : t \in ActiveSessions
      BY <2>2
    <3>2. ActiveSessions = {t}
      BY <3>1 DEF TrackingInv, OneActive
    <3> QED
      BY <3>2, FS_Singleton
  <2> QED
    BY <2>1, <2>2
<1> QED
  BY <1>1, TrackingInvariant, PTL

(* A session that opened after the closure never gets a point. *)
THEOREM StraySessionsAreEmpty == TrackingSpec => []StraySessionStaysEmpty
<1>1. TrackingInv => StraySessionStaysEmpty
  BY DEF TrackingInv
<1> QED
  BY <1>1, TrackingInvariant, PTL

(* No step, from whatever row it read, makes an ended session active again. *)
THEOREM EndedSessionsStayEnded == TrackingSpec => SessionsNeverReopen
<1>1. ASSUME TrackingInv, [TrackingNext]_compositeVars,
             NEW t \in SessionIds, sessions[t].status = "ENDED"
      PROVE  sessions'[t].status = "ENDED"
  <2>0. sessions \in [SessionIds -> [status : SessionStatuses, closure : ClosureReasons]]
    BY <1>1 DEF TrackingInv, TypeOK
  <2>1. CASE UNCHANGED sessions
    BY <1>1, <2>1
  <2>2. CASE \E reason \in ClosureReasons : EndActiveSessions(reason)
    BY <1>1, <2>2 DEF EndActiveSessions
  <2>3. ASSUME NEW w \in Workers, OpenOrReturn(w)
        PROVE  sessions'[t].status = "ENDED"
    BY <1>1, <2>0, <2>3 DEF OpenOrReturn, Known
  <2>4. ASSUME NEW w \in Workers, SaveEnded(w)
        PROVE  sessions'[t].status = "ENDED"
    BY <1>1, <2>0, <2>4 DEF SaveEnded
  <2>5. ASSUME NEW w \in Workers, TrackingStep(w), ~OpenOrReturn(w), ~SaveEnded(w)
        PROVE  UNCHANGED sessions
    BY <2>5 DEF TrackingStep, StartRequest, BatchRequest, ReadSession, ReadOperation,
                CommitBatch, EndRequest, WorkerDies, vars
  <2> QED
    BY <1>1, <2>1, <2>2, <2>3, <2>4, <2>5, ServiceOutcomes
    DEF TrackingNext, TrackingInv, compositeVars, vars
<1>2. TrackingInv /\ [TrackingNext]_compositeVars =>
        [\A t \in SessionIds :
           sessions[t].status = "ENDED" => sessions'[t].status = "ENDED"]_compositeVars
  BY <1>1
<1> QED
  BY <1>2, TrackingInvariant, PTL DEF TrackingSpec, SessionsNeverReopen

(* Tracking implements the operation: to its services it is TrackingCommit. *)
THEOREM TrackingKeepsOperation == TrackingSpec => OperationKept
<1>1. TrackingInit => Init
  BY DEF TrackingInit
<1>2. TrackingInv /\ [TrackingNext]_compositeVars => [Next]_vars
  BY TrackingStepImplements DEF TrackingInv, compositeVars
<1> QED
  BY <1>1, <1>2, TrackingInvariant, PTL DEF TrackingSpec, OperationKept, Spec
--------------------------------------------------------------------------------
(* The driver's app.                                                       *)

OfferedActions == MainActions \cup {"REPORT_INCIDENT", "START_TRACKING", "END_TRACKING"}

(* The next stop is open, and every stop before it is done. *)
LEMMA NextStopIsFirst ==
  ASSUME OpenStops # {}
  PROVE  /\ NextStop \in Stops /\ ~StopDone(NextStop)
         /\ EarlierStopsDone(NextStop)
         /\ NextStop # NoStop
<1>1. OpenStops \in SUBSET Stops /\ Stops \subseteq Nat
  BY StopsAssumption DEF OpenStops
<1>2. \E m \in OpenStops : \A k \in OpenStops : m <= k
  BY <1>1, LeastElement
<1>3. NextStop \in OpenStops /\ \A u \in OpenStops : NextStop <= u
  BY <1>2 DEF NextStop
<1>4. EarlierStopsDone(NextStop)
  <2> SUFFICES ASSUME NEW p \in Stops, p < NextStop, ~StopDone(p) PROVE FALSE
    BY DEF EarlierStopsDone
  <2>1. p \in OpenStops
    BY DEF OpenStops
  <2>2. p \in Nat /\ NextStop \in Nat /\ NextStop <= p
    BY <1>1, <1>3, <2>1
  <2> QED
    BY <2>2
<1> QED
  BY <1>1, <1>3, <1>4, AppAssumption DEF OpenStops

(* What the buttons of a stop may be, and when there is one. *)
LEMMA StopOffersAre ==
  ASSUME TypeOK
  PROVE  /\ NextStop \in Stops \cup {NoStop}
         /\ NextStop = NoStop <=> OpenStops = {}
         /\ OpenStops = {} => StopOffers = {}
         /\ OpenStops # {} /\ stopStatus[NextStop] = "PENDING" =>
              StopOffers = {a \in {"ARRIVE_STOP"} :
                              EarlierStopsDone(NextStop)
                                /\ (StopType[NextStop] = "DELIVERY" => CargoCollected(NextStop))}
         /\ OpenStops # {} /\ stopStatus[NextStop] = "ARRIVED" =>
              StopOffers = IF StopType[NextStop] = "DELIVERY" /\ stopPod[NextStop] = NoPod
                           THEN {"SUBMIT_POD"} ELSE {"COMPLETE_STOP"}
         /\ OpenStops # {} => stopStatus[NextStop] \in {"PENDING", "ARRIVED"}
<1>1. CASE OpenStops = {}
  BY <1>1 DEF NextStop, StopOffers
<1>2. CASE OpenStops # {}
  <2>1. NextStop \in Stops /\ ~StopDone(NextStop) /\ NextStop # NoStop
    BY <1>2, NextStopIsFirst
  <2>2. stopStatus[NextStop] \in {"PENDING", "ARRIVED"}
    BY <2>1 DEF TypeOK, StopStatuses, StopDone
  <2> QED
    BY <1>2, <2>1, <2>2 DEF StopOffers
<1> QED
  BY <1>1, <1>2

(* Every button has a name the app knows. *)
LEMMA OffersAreKnown ==
  ASSUME TypeOK, NEW st \in OperationStatuses
  PROVE  AvailableActions(st) \subseteq OfferedActions
<1>1. MacroOffers(st) \subseteq MainActions
  BY DEF MacroOffers, MainActions
<1>2. StopOffers \subseteq StopActions
  <2>1. CASE OpenStops = {}
    BY <2>1, StopOffersAre
  <2>2. CASE OpenStops # {} /\ stopStatus[NextStop] = "PENDING"
    <3>1. StopOffers \subseteq {"ARRIVE_STOP"}
      BY <2>2, StopOffersAre
    <3> QED
      BY <3>1 DEF StopActions
  <2>3. CASE OpenStops # {} /\ stopStatus[NextStop] = "ARRIVED"
    <3>1. StopOffers \subseteq {"SUBMIT_POD", "COMPLETE_STOP"}
      BY <2>3, StopOffersAre
    <3> QED
      BY <3>1 DEF StopActions
  <2> QED
    BY <2>1, <2>2, <2>3, StopOffersAre
<1> QED
  BY <1>1, <1>2 DEF AvailableActions, OfferedActions, MainActions

(* The call behind a button is a call of the operation's services. *)
LEMMA PerformIsService ==
  ASSUME NEW a \in MainActions, NEW s \in Stops \cup {NoStop}, Accepted(a, s), Perform(a, s)
  PROVE  OperationStep
<1>1. ASSUME NEW m \in MacroActions, AdvanceStatus(m.target, NoId)
      PROVE  OperationStep
  <2>1. m.target \in OperationStatuses
    BY DEF MacroActions, OperationStatuses, TerminalStatuses
  <2> QED
    BY <1>1, <2>1 DEF OperationStep
<1>2. \A m \in MacroActions : m.action \notin StopActions
  BY DEF MacroActions, StopActions
<1>3. CASE a \in {"ARRIVE_STOP", "COMPLETE_STOP"}
  <2>1. s \in Stops
    BY <1>2, <1>3 DEF Accepted, StopActions
  <2>2. PICK new \in StopStatuses : ChangeStopStatus(s, new)
    BY <1>2, <1>3 DEF Perform, StopActions, StopStatuses
  <2> QED
    BY <2>1, <2>2 DEF OperationStep
<1>4. CASE a = "SUBMIT_POD"
  <2>1. PICK pod \in PodData : IF s = NoStop THEN RecordOperationPod(pod) ELSE RecordStopPod(s, pod)
    BY <1>2, <1>4 DEF Perform, StopActions
  <2> QED
    BY <2>1 DEF OperationStep
<1>5. CASE a \notin StopActions
  BY <1>1, <1>5 DEF Perform, StopActions
<1> QED
  BY <1>3, <1>4, <1>5 DEF StopActions

(* Whatever the app does, and whatever stale screen it does it from, the    *)
(* operation sees a call of a service or nothing.                          *)
LEMMA AppStepImplements ==
  ASSUME AppTypeOK, [AppNext]_allVars
  PROVE  [Next]_vars
<1>1. CASE ServeTap
  <2>1. CASE Accepted(phase, screen.stop)
    BY <1>1, <2>1, PerformIsService DEF ServeTap, AppTypeOK, Next
  <2> QED
    BY <1>1, <2>1 DEF ServeTap
<1>2. CASE OthersStep
  BY <1>2 DEF OthersStep
<1>3. CASE \/ FetchStatus \/ FetchActions \/ FetchNextStop \/ FetchFails \/ Reload
           \/ \E a \in MainActions : Tap(a)
  BY <1>3 DEF FetchStatus, FetchActions, FetchNextStop, FetchFails, Reload, Tap
<1> QED
  BY <1>1, <1>2, <1>3 DEF AppNext, AppStep, allVars

(* The app keeps its own variables typed. *)
LEMMA AppTypeStep ==
  ASSUME TypeOK, AppTypeOK, [AppNext]_allVars
  PROVE  AppTypeOK'
<1> USE DEF AppTypeOK
<1>1. CASE FetchStatus
  BY <1>1 DEF FetchStatus, TypeOK
<1>2. CASE FetchActions
  <2>1. draft' \subseteq OfferedActions
    BY <1>2, OffersAreKnown DEF FetchActions
  <2> QED
    BY <1>2, <2>1 DEF FetchActions, OfferedActions
<1>3. CASE FetchNextStop
  <2>1. screen'.actions = draft /\ screen'.stop \in Stops \cup {NoStop}
    BY <1>3, StopOffersAre DEF FetchNextStop
  <2>2. ASSIGNED \in OperationStatuses
    BY DEF OperationStatuses
  <2> QED
    BY <1>3, <2>1, <2>2 DEF FetchNextStop
<1>4. CASE FetchFails
  BY <1>4 DEF FetchFails, OperationStatuses
<1>5. ASSUME NEW a \in MainActions, Tap(a)
      PROVE  AppTypeOK'
  BY <1>5 DEF Tap
<1>6. CASE ServeTap \/ Reload
  <2>1. screen' = Blank /\ phase' = "fetch" /\ UNCHANGED <<seen, draft>>
    BY <1>6 DEF ServeTap, Reload
  <2> QED
    BY <2>1 DEF Blank
<1>7. CASE UNCHANGED appVars
  BY <1>7 DEF appVars
<1> QED
  BY <1>1, <1>2, <1>3, <1>4, <1>5, <1>6, <1>7 DEF AppNext, AppStep, OthersStep, allVars

AppInv == Inductive /\ AppTypeOK

THEOREM AppInvariant == AppSpec => []AppInv
<1>1. AppInit => AppInv
  <2>1. Init => Inductive
    BY InductiveInit
  <2>2. AppInit => AppTypeOK
    BY DEF AppInit, AppTypeOK, Blank, OperationStatuses
  <2> QED
    BY <2>1, <2>2 DEF AppInit, AppInv
<1>2. AppInv /\ [AppNext]_allVars => AppInv'
  BY AppStepImplements, AppTypeStep, InductiveStep DEF AppInv, Inductive
<1> QED
  BY <1>1, <1>2, PTL DEF AppSpec

(* The app implements the operation: whatever screens it works from, the   *)
(* operation goes only through what its services allow.                    *)
THEOREM AppKeepsOperation == AppSpec => Spec
<1>1. AppInit => Init
  BY DEF AppInit
<1>2. AppInv /\ [AppNext]_allVars => [Next]_vars
  BY AppStepImplements DEF AppInv
<1> QED
  BY <1>1, <1>2, AppInvariant, PTL DEF AppSpec, Spec

(* And so, from the driver's phone too, the cargo's custody is kept. *)
THEOREM AppKeepsCustody == AppSpec => CustodyKept
BY AppKeepsOperation, CustodyIsKept

(* A macro button asks for the status that comes next. *)
LEMMA MacroCallIsAccepted ==
  ASSUME Stops # {}, NEW m \in MacroActions, m.offeredIn = status,
         m.action = "COMPLETE_OPERATION" => DeliveriesLookDone
  PROVE  StatusAccepted(m.target)
<1>1. CanOperationTransition(status, m.target)
  BY DEF MacroActions, CanOperationTransition, ForwardTransitions
<1>2. m.target = DELIVERED => m.action = "COMPLETE_OPERATION"
  BY DEF MacroActions, DELIVERED, EN_ROUTE, ARRIVED_AT_PICKUP, LOADING, IN_TRANSIT,
         ARRIVED_AT_DELIVERY, UNLOADING
<1>3. DeliveriesLookDone => DeliveryProven
  BY DEF DeliveriesLookDone, DeliveryProven
<1> QED
  BY <1>1, <1>2, <1>3 DEF StatusAccepted

(* A stop's button asks for what its row, its proof and its cargo allow. *)
LEMMA StopCallIsAccepted ==
  ASSUME Inductive, NEW a \in StopOffers
  PROVE  Accepted(a, NextStop)
<1>t. TypeOK
  BY DEF Inductive
<1>0. OpenStops # {}
  BY <1>t, StopOffersAre
<1>1. NextStop \in Stops /\ NextStop # NoStop /\ EarlierStopsDone(NextStop)
  BY <1>0, NextStopIsFirst
<1>2. CASE stopStatus[NextStop] = "PENDING"
  <2>1. a = "ARRIVE_STOP" /\ (StopType[NextStop] = "DELIVERY" => CargoCollected(NextStop))
    BY <1>t, <1>0, <1>2, StopOffersAre
  <2>2. StopMoveAccepted(NextStop, "ARRIVED")
    BY <1>1, <1>2, <2>1 DEF StopMoveAccepted, StopTransitions
  <2> QED
    BY <1>1, <2>1, <2>2 DEF Accepted
<1>3. CASE stopStatus[NextStop] = "ARRIVED"
  <2>1. CASE StopType[NextStop] = "DELIVERY" /\ stopPod[NextStop] = NoPod
    <3>1. a = "SUBMIT_POD"
      BY <1>t, <1>0, <1>3, <2>1, StopOffersAre
    <3>2. StopPodAccepted(NextStop)
      BY <1>3, <2>1 DEF StopPodAccepted
    <3> QED
      BY <1>1, <3>1, <3>2 DEF Accepted
  <2>2. CASE ~(StopType[NextStop] = "DELIVERY" /\ stopPod[NextStop] = NoPod)
    <3>1. a = "COMPLETE_STOP"
      BY <1>t, <1>0, <1>3, <2>2, StopOffersAre
    <3>2. StopType[NextStop] = "DELIVERY" => CargoCollected(NextStop)
      BY <1>1, <1>3 DEF Inductive, CargoDroppedWasCollected, DeliveryStops
    <3>3. StopMoveAccepted(NextStop, "COMPLETED")
      BY <1>1, <1>3, <2>2, <3>2 DEF StopMoveAccepted, StopTransitions
    <3> QED
      BY <1>1, <3>1, <3>3 DEF Accepted
  <2> QED
    BY <2>1, <2>2
<1> QED
  BY <1>t, <1>0, <1>2, <1>3, StopOffersAre

(* An operation with stops offers nothing that its services would refuse.  *)
(* (Without stops it offers COMPLETE_OPERATION before the proof that        *)
(* change_operation_status then asks for.)                                 *)
THEOREM OffersAreAccepted ==
  ASSUME Stops # {}
  PROVE  AppSpec => []OfferedActionsAreAccepted
<1>1. AppInv => OfferedActionsAreAccepted
  <2> SUFFICES ASSUME AppInv, NEW a \in AvailableActions(status) \cap MainActions
               PROVE  Accepted(a, NextStop)
    BY DEF OfferedActionsAreAccepted
  <2>1. a \in MacroOffers(status) \/ a \in StopOffers
    BY DEF AvailableActions, MainActions, MacroActions, StopActions
  <2>2. CASE a \in MacroOffers(status)
    <3>1. PICK m \in MacroActions :
            /\ m.action = a /\ m.offeredIn = status
            /\ m.action = "COMPLETE_OPERATION" => DeliveriesLookDone
      BY <2>2 DEF MacroOffers
    <3>2. StatusAccepted(m.target)
      BY <3>1, MacroCallIsAccepted
    <3> QED
      BY <3>1, <3>2 DEF Accepted
  <2>3. CASE a \in StopOffers
    BY <2>3, StopCallIsAccepted DEF AppInv
  <2> QED
    BY <2>1, <2>2, <2>3
<1> QED
  BY <1>1, AppInvariant, PTL

(* Only UNLOADING keeps its macro button back, and only while a delivery    *)
(* stop is open.                                                           *)
LEMMA OnlyUnloadingWaits ==
  ASSUME Inductive, status \notin TerminalStatuses, MacroOffers(status) = {}
  PROVE  status = UNLOADING /\ OpenStops # {}
<1>1. \E m \in MacroActions : m.offeredIn = status
  BY DEF Inductive, TypeOK, OperationStatuses, MacroActions
<1>2. PICK m \in MacroActions : m.offeredIn = status
  BY <1>1
<1>3. m.action = "COMPLETE_OPERATION" /\ ~DeliveriesLookDone
  BY <1>2 DEF MacroOffers
<1>4. status = UNLOADING
  BY <1>2, <1>3 DEF MacroActions
<1>5. PICK s \in DeliveryStops :
        ~(StopDone(s) /\ (stopStatus[s] = "COMPLETED" => stopPod[s] # NoPod))
  BY <1>3 DEF DeliveriesLookDone
<1>6. s \in Stops /\ ~StopDone(s)
  BY <1>5 DEF Inductive, ProofsStandAtReachedStops, DeliveryStops
<1> QED
  BY <1>4, <1>6 DEF OpenStops

(* The driver of an open operation is without a main action only at a       *)
(* delivery of a lot whose pickup was cancelled.                            *)
THEOREM StuckByCancelledPickup == AppSpec => []StuckOnlyByCancelledPickup
<1>1. AppInv => StuckOnlyByCancelledPickup
  <2> SUFFICES ASSUME AppInv, status \notin TerminalStatuses,
                      AvailableActions(status) \cap MainActions = {}
               PROVE  /\ NextStop \in DeliveryStops
                      /\ \E l \in LotsDroppedAt(NextStop) :
                           stopStatus[LotPickup[l]] = "CANCELLED"
    BY DEF StuckOnlyByCancelledPickup
  <2>t. TypeOK /\ Inductive
    BY DEF AppInv, Inductive
  <2>1. MacroOffers(status) = {}
    <3>1. MacroOffers(status) \subseteq AvailableActions(status) \cap MainActions
      BY DEF AvailableActions, MacroOffers, MainActions
    <3> QED
      BY <3>1
  <2>2. status = UNLOADING /\ OpenStops # {}
    BY <2>t, <2>1, OnlyUnloadingWaits
  <2>3. StopOffers \cap StopActions = {}
    <3>1. StopOffers \cap StopActions \subseteq AvailableActions(status) \cap MainActions
      BY <2>2 DEF AvailableActions, MainActions, UNLOADING, ASSIGNED
    <3> QED
      BY <3>1
  <2>4. NextStop \in Stops /\ EarlierStopsDone(NextStop)
    BY <2>2, NextStopIsFirst
  <2>5. stopStatus[NextStop] = "PENDING"
    <3>1. CASE stopStatus[NextStop] = "ARRIVED"
      <4>1. StopOffers \in {{"SUBMIT_POD"}, {"COMPLETE_STOP"}}
        BY <2>t, <2>2, <3>1, StopOffersAre
      <4> QED
        BY <2>3, <4>1 DEF StopActions
    <3> QED
      BY <2>t, <2>2, <3>1, StopOffersAre
  <2>6. StopType[NextStop] = "DELIVERY" /\ ~CargoCollected(NextStop)
    <3>1. "ARRIVE_STOP" \notin StopOffers
      BY <2>3 DEF StopActions
    <3> QED
      BY <2>t, <2>2, <2>4, <2>5, <3>1, StopOffersAre
  <2>7. PICK l \in LotsDroppedAt(NextStop) : stopStatus[LotPickup[l]] # "COMPLETED"
    BY <2>6 DEF CargoCollected
  <2>8. LotPickup[l] \in Stops /\ LotPickup[l] < NextStop
    BY StopsAssumption DEF LotsDroppedAt
  <2>9. stopStatus[LotPickup[l]] = "CANCELLED"
    BY <2>4, <2>7, <2>8 DEF EarlierStopsDone, StopDone
  <2> QED
    BY <2>4, <2>6, <2>9 DEF DeliveryStops
<1> QED
  BY <1>1, AppInvariant, PTL
--------------------------------------------------------------------------------
(* Why the driver's work comes to an end, as far as it is safety: nothing  *)
(* goes back, and a tap that a service accepts moves something forward.    *)
StopRank(st) ==
  CASE st = "PENDING" -> 0 [] st = "ARRIVED" -> 1
    [] st = "COMPLETED" -> 2 [] st = "CANCELLED" -> 2

Forward ==
  /\ status' = status \/ Rank(status) < Rank(status')
  /\ \A s \in Stops : \/ stopStatus'[s] = stopStatus[s]
                      \/ StopRank(stopStatus[s]) < StopRank(stopStatus'[s])
  /\ \A s \in Stops : stopPod[s] # NoPod => stopPod'[s] = stopPod[s]
  /\ opPod # NoPod => opPod' = opPod
  /\ Len(timeline) <= Len(timeline')
  /\ \A i \in 1..Len(timeline) : timeline'[i] = timeline[i]

\* No call takes a status, a stop, a proof or an event of the timeline back.
NothingGoesBack == [][Forward]_vars

\* A tap that the services accept changes the operation.
AcceptedTapsAdvance ==
  [][ServeTap /\ Accepted(phase, screen.stop) =>
       status' # status \/ stopStatus' # stopStatus
         \/ stopPod' # stopPod \/ opPod' # opPod]_allVars

(* A service adds at most one event, at the end. *)
LEMMA TimelineOnlyGrows ==
  ASSUME TypeOK, NEW e, timeline' = TimelineWith(e)
  PROVE  /\ Len(timeline) <= Len(timeline')
         /\ \A i \in 1..Len(timeline) : timeline'[i] = timeline[i]
<1>1. timeline \in Seq(Events) /\ Len(timeline) \in Nat
  BY DEF TypeOK
<1>2. CASE timeline' = timeline
  BY <1>1, <1>2
<1>3. CASE timeline' = Append(timeline, e)
  BY <1>1, <1>3
<1> QED
  BY <1>2, <1>3 DEF TimelineWith

(* Every call that is repeated, stale or late leaves the operation where it *)
(* is or moves it forward.                                                 *)
THEOREM OperationOnlyAdvances == Spec => NothingGoesBack
<1>1. ASSUME TypeOK, Next PROVE Forward
  <2>t. Len(timeline) \in Nat
    BY <1>1 DEF TypeOK
  <2>1. ASSUME NEW new \in OperationStatuses, NEW id \in ClientIds \cup {NoId},
               RepeatStatus(new, id)
        PROVE  Forward
    BY <1>1, <2>1, TimelineOnlyGrows DEF RepeatStatus, Forward
  <2>2. ASSUME NEW new \in OperationStatuses, NEW id \in ClientIds \cup {NoId},
               AdvanceStatus(new, id)
        PROVE  Forward
    <3>1. Rank(status) < Rank(status')
      BY <1>1, <2>2, TransitionsClimb DEF AdvanceStatus, StatusAccepted, TypeOK
    <3> QED
      BY <1>1, <2>2, <3>1, TimelineOnlyGrows DEF AdvanceStatus, Forward
  <2>3. ASSUME NEW id \in ClientIds \cup {NoId}, CancelOperation(id)
        PROVE  Forward
    <3>1. CANCELLED \in OperationStatuses
      BY DEF OperationStatuses, TerminalStatuses
    <3>2. Rank(status) < Rank(status')
      BY <1>1, <2>3, <3>1, TransitionsClimb DEF CancelOperation, TypeOK
    <3> QED
      BY <1>1, <2>3, <3>2, TimelineOnlyGrows DEF CancelOperation, Forward
  <2>4. ASSUME NEW id \in ClientIds, ReportIncident(id)
        PROVE  Forward
    BY <1>1, <2>4, TimelineOnlyGrows DEF ReportIncident, Forward
  <2>5. ASSUME NEW s \in Stops, NEW pod \in PodData, RecordStopPod(s, pod)
        PROVE  Forward
    BY <1>1, <2>t, <2>5 DEF RecordStopPod, StopPodAccepted, Forward, TypeOK
  <2>6. ASSUME NEW pod \in PodData, RecordOperationPod(pod)
        PROVE  Forward
    BY <2>t, <2>6 DEF RecordOperationPod, OperationPodAccepted, Forward
  <2>7. ASSUME NEW s \in Stops, NEW new \in StopStatuses, ChangeStopStatus(s, new)
        PROVE  Forward
    <3>1. StopRank(stopStatus[s]) < StopRank(new)
      BY <2>7 DEF ChangeStopStatus, StopMoveAccepted, StopTransitions, StopRank
    <3>2. \A u \in Stops : \/ stopStatus'[u] = stopStatus[u]
                           \/ StopRank(stopStatus[u]) < StopRank(stopStatus'[u])
      BY <1>1, <2>7, <3>1 DEF ChangeStopStatus, TypeOK
    <3> QED
      BY <2>t, <2>7, <3>2 DEF ChangeStopStatus, Forward
  <2>8. CASE TrackingCommit
    <3>1. UNCHANGED <<status, stopStatus, stopPod, opPod, timeline>>
      BY <2>8 DEF TrackingCommit
    <3> QED
      BY <2>t, <3>1 DEF Forward
  <2> QED
    BY <1>1, <2>1, <2>2, <2>3, <2>4, <2>5, <2>6, <2>7, <2>8 DEF Next, OperationStep
<1>2. TypeOK /\ [Next]_vars => [Forward]_vars
  BY <1>1
<1> QED
  BY <1>2, TypeCorrect, PTL DEF Spec, NothingGoesBack

(* No tap is accepted to no effect, so that a driver who is offered buttons *)
(* for ever taps no more of them than the operation has steps.             *)
THEOREM TapsAdvance == AppSpec => AcceptedTapsAdvance
<1>1. ASSUME AppInv, ServeTap, Accepted(phase, screen.stop)
      PROVE  \/ status' # status \/ stopStatus' # stopStatus
             \/ stopPod' # stopPod \/ opPod' # opPod
  <2> DEFINE s == screen.stop
  <2>1. Perform(phase, s) /\ phase \in MainActions /\ s \in Stops \cup {NoStop}
    BY <1>1 DEF ServeTap, AppInv, AppTypeOK
  <2>2. CASE \E m \in MacroActions : AdvanceStatus(m.target, NoId)
    BY <2>2 DEF AdvanceStatus
  <2>3. ASSUME NEW new \in {"ARRIVED", "COMPLETED"}, s \in Stops, ChangeStopStatus(s, new)
        PROVE  stopStatus'[s] # stopStatus[s]
    BY <1>1, <2>3 DEF ChangeStopStatus, StopMoveAccepted, StopTransitions, AppInv, Inductive, TypeOK
  <2>4. ASSUME NEW pod \in PodData, s \in Stops, RecordStopPod(s, pod)
        PROVE  stopPod'[s] # stopPod[s]
    BY <1>1, <2>4, PodAssumption DEF RecordStopPod, StopPodAccepted, AppInv, Inductive, TypeOK
  <2>5. ASSUME NEW pod \in PodData, RecordOperationPod(pod)
        PROVE  opPod' # opPod
    BY <2>5, PodAssumption DEF RecordOperationPod, OperationPodAccepted
  <2>6. s = NoStop => ~ \E new \in {"ARRIVED", "COMPLETED"} : phase \in {"ARRIVE_STOP", "COMPLETE_STOP"}
    BY <1>1 DEF Accepted, MacroActions
  <2> HIDE DEF s
  <2> QED
    BY <2>1, <2>2, <2>3, <2>4, <2>5, <2>6 DEF Perform
<1>2. AppInv /\ [AppNext]_allVars =>
        [ServeTap /\ Accepted(phase, screen.stop) =>
           status' # status \/ stopStatus' # stopStatus
             \/ stopPod' # stopPod \/ opPod' # opPod]_allVars
  BY <1>1
<1> QED
  BY <1>2, AppInvariant, PTL DEF AppSpec, AcceptedTapsAdvance

===============================================================================
