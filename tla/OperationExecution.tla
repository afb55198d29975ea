--------------------------- MODULE OperationExecution ---------------------------
(***************************************************************************)
(* One freight operation while a driver executes it: its macro status, its *)
(* stops, its proofs of delivery, its event timeline and the status of its *)
(* tracking sessions, as application/operation_services.py changes them.   *)
(*                                                                         *)
(* Every service here runs in one transaction that first locks the         *)
(* operation's row, so each is one action.  The access check of            *)
(* _get_operation_for_user is left out: callers are authorised.  The app   *)
(* and the back office may repeat any call, in any order, at any time.     *)
(***************************************************************************)
EXTENDS OperationStateMachine, Naturals, Sequences, FiniteSets

CONSTANTS
  Stops,        \* the stops of the operation, named by their unique sequence
  StopType,     \* [Stops -> {"PICKUP", "DELIVERY"}]
  Lots,         \* the cargo lots of the operation
  LotPickup,    \* [Lots -> Stops]
  LotDelivery,  \* [Lots -> Stops]
  PodData,      \* what a proof of delivery may say (receiver, time, place)
  NoPod,
  ClientIds,    \* the client_event_ids that clients attach to their calls
  NoId,
  CallOf,       \* the one call each client_event_id was made for
  SessionIds    \* the tracking sessions the operation may come to have

StopStatuses    == {"PENDING", "ARRIVED", "COMPLETED", "CANCELLED"}
SessionStatuses == {"NONE", "ACTIVE", "ENDED"}
ClosureReasons  == {"", "operation_delivered", "operation_cancelled"}

EventTypes ==
  {"OPERATION_CREATED", "STATUS_CHANGED", "CANCELLED", "INCIDENT_REPORTED"}
Events == [kind : EventTypes, from : OperationStatuses, to : OperationStatuses,
           id : ClientIds \cup {NoId}]

\* FreightCargoLot.clean orders a lot's two stops but never reads their type.
ASSUME StopsAssumption ==
  /\ Stops \subseteq Nat
  /\ StopType \in [Stops -> {"PICKUP", "DELIVERY"}]
  /\ LotPickup \in [Lots -> Stops]
  /\ LotDelivery \in [Lots -> Stops]
  /\ \A l \in Lots : LotPickup[l] < LotDelivery[l]
ASSUME PodAssumption  == NoPod \notin PodData
ASSUME CallAssumption ==
  /\ NoId \notin ClientIds
  /\ CallOf \in [ClientIds -> [kind : {"advance", "incident", "cancel"},
                               target : OperationStatuses]]

VARIABLES
  status,      \* FreightOperation.status
  stopStatus,  \* FreightOperationStop.status of each stop
  stopPod,     \* the ProofOfDelivery of each stop, or NoPod
  opPod,       \* the ProofOfDelivery of the operation with no stop, or NoPod
  timeline,    \* the FreightOperationEvents that carry a status or a client id
  sessions     \* TrackingSession.status and its closure_reason

vars == <<status, stopStatus, stopPod, opPod, timeline, sessions>>

DeliveryStops == {s \in Stops : StopType[s] = "DELIVERY"}
StopDone(s)   == stopStatus[s] \in {"COMPLETED", "CANCELLED"}
LotsDroppedAt(s) == {l \in Lots : LotDelivery[l] = s}

Init ==
  /\ status = ASSIGNED
  /\ stopStatus = [s \in Stops |-> "PENDING"]
  /\ stopPod = [s \in Stops |-> NoPod]
  /\ opPod = NoPod
  /\ timeline = <<[kind |-> "OPERATION_CREATED", from |-> ASSIGNED,
                   to |-> ASSIGNED, id |-> NoId]>>
  /\ sessions = [t \in SessionIds |-> [status |-> "NONE", closure |-> ""]]
--------------------------------------------------------------------------------
\* _create_event: a client_event_id that already has an event adds nothing.
RecordedIds == {timeline[i].id : i \in DOMAIN timeline} \ {NoId}

TimelineWith(event) ==
  IF event.id \in RecordedIds THEN timeline ELSE Append(timeline, event)

\* The call that carries id is the one id was made for.
MadeFor(id, kind, target) ==
  id \in ClientIds => CallOf[id] = [kind |-> kind, target |-> target]

\* Closing an operation ends its active sessions and says why.
EndActiveSessions(reason) ==
  sessions' = [t \in SessionIds |->
    IF sessions[t].status = "ACTIVE"
    THEN [status |-> "ENDED", closure |-> reason] ELSE sessions[t]]

ClosureReason(new) ==
  IF new = DELIVERED THEN "operation_delivered" ELSE "operation_cancelled"

\* What change_operation_status asks for before DELIVERED.
\* Variant with a bug: any proof will do for an operation with stops.
DeliveryProven_AnyProof ==
  opPod # NoPod \/ \E s \in Stops : stopPod[s] # NoPod

DeliveryProven ==
  IF Stops # {}
  THEN \A s \in DeliveryStops :
         StopDone(s) /\ (stopStatus[s] = "COMPLETED" => stopPod[s] # NoPod)
  ELSE opPod # NoPod

StatusAccepted(new) ==
  /\ CanOperationTransition(status, new)
  /\ new = DELIVERED => DeliveryProven

\* change_operation_status(new) when the operation already has that status.
RepeatStatus(new, id) ==
  /\ MadeFor(id, "advance", new)
  /\ status = new
  /\ id # NoId
  /\ timeline' = TimelineWith([kind |-> "STATUS_CHANGED", from |-> status,
                               to |-> new, id |-> id])
  /\ UNCHANGED <<status, stopStatus, stopPod, opPod, sessions>>

\* change_operation_status(new) when it moves the operation.
AdvanceStatus(new, id) ==
  /\ MadeFor(id, "advance", new)
  /\ status # new
  /\ StatusAccepted(new)
  /\ status' = new
  /\ IF new \in TerminalStatuses
     THEN EndActiveSessions(ClosureReason(new)) ELSE UNCHANGED sessions
  /\ timeline' = TimelineWith([kind |-> "STATUS_CHANGED", from |-> status,
                               to |-> new, id |-> id])
  /\ UNCHANGED <<stopStatus, stopPod, opPod>>

\* cancel_operation: unlike a status change, it is refused when repeated.
CancelOperation(id) ==
  /\ MadeFor(id, "cancel", CANCELLED)
  /\ CanOperationTransition(status, CANCELLED)
  /\ status' = CANCELLED
  /\ EndActiveSessions("operation_cancelled")
  /\ timeline' = TimelineWith([kind |-> "CANCELLED", from |-> status,
                               to |-> CANCELLED, id |-> id])
  /\ UNCHANGED <<stopStatus, stopPod, opPod>>

\* report_operation_incident, in any status.  A report without a client id
\* adds an event that has neither a status nor an id, which no state keeps.
ReportIncident(id) ==
  /\ CallOf[id].kind = "incident"
  /\ timeline' = TimelineWith([kind |-> "INCIDENT_REPORTED", from |-> status,
                               to |-> status, id |-> id])
  /\ UNCHANGED <<status, stopStatus, stopPod, opPod, sessions>>
--------------------------------------------------------------------------------
\* record_proof_of_delivery for a stop.  Repeating the same proof returns the
\* first one, a different one is refused: neither changes anything.
StopPodAccepted_Early(s) ==  \* with a bug: before the driver arrives
  StopType[s] = "DELIVERY" /\ stopPod[s] = NoPod /\ ~StopDone(s)

StopPodAccepted_Late(s) ==   \* with a bug: after the stop was cancelled
  /\ StopType[s] = "DELIVERY"
  /\ stopPod[s] = NoPod
  /\ stopStatus[s] \in {"ARRIVED", "CANCELLED"}

StopPodAccepted(s) ==
  /\ StopType[s] = "DELIVERY"
  /\ stopPod[s] = NoPod
  /\ stopStatus[s] = "ARRIVED"

RecordStopPod(s, pod) ==
  /\ StopPodAccepted(s)
  /\ stopPod' = [stopPod EXCEPT ![s] = pod]
  /\ UNCHANGED <<status, stopStatus, opPod, timeline, sessions>>

\* record_proof_of_delivery without a stop, which one delivery stop allows too.
OperationPodAccepted ==
  /\ Cardinality(DeliveryStops) <= 1
  /\ opPod = NoPod
  /\ status = UNLOADING

RecordOperationPod(pod) ==
  /\ OperationPodAccepted
  /\ opPod' = pod
  /\ UNCHANGED <<status, stopStatus, stopPod, timeline, sessions>>

StopTransitions ==
  {<<"PENDING", "ARRIVED">>, <<"PENDING", "CANCELLED">>,
   <<"ARRIVED", "COMPLETED">>, <<"ARRIVED", "CANCELLED">>}

EarlierStopsDone(s) == \A p \in Stops : p < s => StopDone(p)

CargoCollected(s) ==
  \A l \in LotsDroppedAt(s) : stopStatus[LotPickup[l]] = "COMPLETED"

\* Variants with a bug: a stop is cancelled out of turn; a lot whose pickup was
\* cancelled counts as collected; a delivery needs no proof.
StopMoveAccepted_CancelAnytime(s, new) ==
  /\ <<stopStatus[s], new>> \in StopTransitions
  /\ new # "CANCELLED" => EarlierStopsDone(s)
  /\ StopType[s] = "DELIVERY" /\ new # "CANCELLED" => CargoCollected(s)
  /\ new = "COMPLETED" /\ StopType[s] = "DELIVERY" => stopPod[s] # NoPod

StopMoveAccepted_PickupDone(s, new) ==
  /\ <<stopStatus[s], new>> \in StopTransitions
  /\ EarlierStopsDone(s)
  /\ \A l \in LotsDroppedAt(s) : StopDone(LotPickup[l])
  /\ new = "COMPLETED" /\ StopType[s] = "DELIVERY" => stopPod[s] # NoPod

StopMoveAccepted_NoProof(s, new) ==
  /\ <<stopStatus[s], new>> \in StopTransitions
  /\ EarlierStopsDone(s)
  /\ StopType[s] = "DELIVERY" /\ new # "CANCELLED" => CargoCollected(s)

StopMoveAccepted(s, new) ==
  /\ <<stopStatus[s], new>> \in StopTransitions
  /\ EarlierStopsDone(s)
  /\ new \in {"ARRIVED", "COMPLETED"} /\ StopType[s] = "DELIVERY"
       => CargoCollected(s)
  /\ new = "COMPLETED" /\ StopType[s] = "DELIVERY" => stopPod[s] # NoPod

\* change_stop_status.  It never reads the operation's own status.
ChangeStopStatus(s, new) ==
  /\ StopMoveAccepted(s, new)
  /\ stopStatus' = [stopStatus EXCEPT ![s] = new]
  /\ UNCHANGED <<status, stopPod, opPod, timeline, sessions>>
--------------------------------------------------------------------------------
(* What the tracking service may commit to the operation's sessions: it     *)
(* opens one while none is active, or saves one as ended from a row that it *)
(* read earlier, which loses a reason written since.  Neither commit reads  *)
(* the operation's status.  OperationTracking has the steps behind them.    *)
TrackingCommit ==
  /\ \E t \in SessionIds :
       \/ /\ sessions[t].status = "NONE"
          /\ \A u \in SessionIds : sessions[u].status # "ACTIVE"
          /\ sessions' = [sessions EXCEPT ![t] = [status |-> "ACTIVE", closure |-> ""]]
       \/ /\ sessions[t].status # "NONE"
          /\ sessions' = [sessions EXCEPT ![t] = [status |-> "ENDED", closure |-> ""]]
  /\ UNCHANGED <<status, stopStatus, stopPod, opPod, timeline>>

\* The services of operation_services.py.
OperationStep ==
  \/ \E new \in OperationStatuses, id \in ClientIds \cup {NoId} :
        RepeatStatus(new, id) \/ AdvanceStatus(new, id)
  \/ \E id \in ClientIds \cup {NoId} : CancelOperation(id)
  \/ \E id \in ClientIds : ReportIncident(id)
  \/ \E s \in Stops, pod \in PodData : RecordStopPod(s, pod)
  \/ \E pod \in PodData : RecordOperationPod(pod)
  \/ \E s \in Stops, new \in StopStatuses : ChangeStopStatus(s, new)

Next == OperationStep \/ TrackingCommit

Spec == Init /\ [][Next]_vars
--------------------------------------------------------------------------------
(* Every variable keeps its type. *)
TypeOK ==
  /\ status \in OperationStatuses
  /\ stopStatus \in [Stops -> StopStatuses]
  /\ stopPod \in [Stops -> PodData \cup {NoPod}]
  /\ opPod \in PodData \cup {NoPod}
  /\ timeline \in Seq(Events)
  /\ sessions \in [SessionIds -> [status : SessionStatuses,
                                  closure : ClosureReasons]]

(* The driver visits the stops in their order: change_stop_status moves no  *)
(* stop while an earlier one is open, so a stop that left PENDING has none. *)
StopsInSequence ==
  \A s \in Stops : stopStatus[s] # "PENDING" => EarlierStopsDone(s)

(* README.md:307, "A delivery lot cannot be completed before its            *)
(* corresponding pickup is complete": where a lot is being or has been      *)
(* dropped, it was collected, however stops are cancelled in between.       *)
CargoDroppedWasCollected ==
  \A s \in DeliveryStops :
    stopStatus[s] \in {"ARRIVED", "COMPLETED"} => CargoCollected(s)

(* A proof of delivery stands only at a delivery stop the driver reached,   *)
(* and no delivery stop is completed without one (change_stop_status and    *)
(* record_proof_of_delivery read and write these two rows separately).      *)
ProofsStandAtReachedStops ==
  \A s \in Stops :
    /\ stopPod[s] # NoPod => s \in DeliveryStops /\ stopStatus[s] # "PENDING"
    /\ s \in DeliveryStops /\ stopStatus[s] = "COMPLETED" => stopPod[s] # NoPod

(* docs/domain/freight-operations.md:107, "An operation cannot become       *)
(* DELIVERED while required delivery stops/PODs remain incomplete": in a    *)
(* delivered operation every lot whose delivery was not cancelled was       *)
(* collected, dropped and proved, and an operation without stops is proved. *)
DeliveredIsProven ==
  status = DELIVERED =>
    /\ \A l \in Lots :
         LET d == LotDelivery[l] IN
           d \in DeliveryStops /\ stopStatus[d] # "CANCELLED" =>
             /\ stopStatus[LotPickup[l]] = "COMPLETED"
             /\ stopStatus[d] = "COMPLETED"
             /\ stopPod[d] # NoPod
    /\ Stops = {} => opPod # NoPod

(* A delivered operation has no open delivery stop.  With the invariants    *)
(* above it is what a proof by induction needs.                             *)
DeliveredHasNoOpenDelivery ==
  status = DELIVERED =>
    /\ \A s \in DeliveryStops : StopDone(s)
    /\ Stops = {} => opPod # NoPod

Inductive ==
  /\ TypeOK
  /\ StopsInSequence
  /\ CargoDroppedWasCollected
  /\ ProofsStandAtReachedStops
  /\ DeliveredHasNoOpenDelivery

(* The record of a delivered operation is final: calls that arrive late     *)
(* change neither its delivery stops nor its proofs, although neither       *)
(* change_stop_status nor record_proof_of_delivery reads a closed status.   *)
DeliveredRecordIsFinal ==
  [][status = DELIVERED =>
       /\ \A s \in DeliveryStops : stopStatus'[s] = stopStatus[s]
       /\ UNCHANGED <<stopPod, opPod>>]_vars

(* The timeline tells the operation's history: its events form one chain of *)
(* legal transitions that ends at the current status, and no call left two  *)
(* events, however often clients repeat their calls (_create_event drops an *)
(* event with a known client id, so a status change must never meet one).   *)
TimelineReplaysStatus ==
  /\ timeline[Len(timeline)].to = status
  /\ \A i \in 2..Len(timeline) :
       /\ timeline[i].from = timeline[i - 1].to
       /\ \/ timeline[i].from = timeline[i].to
          \/ CanOperationTransition(timeline[i].from, timeline[i].to)
  /\ \A i, j \in 1..Len(timeline) :
       timeline[i].id = timeline[j].id /\ timeline[i].id # NoId => i = j
--------------------------------------------------------------------------------
(* What the operation promises for its cargo: the operation implements      *)
(* CargoCustody for the lots that are dropped at a delivery stop.           *)
ProvableLots == {l \in Lots : LotDelivery[l] \in DeliveryStops}

CustodyOf(l) ==
  IF stopStatus[LotPickup[l]] = "CANCELLED" \/ stopStatus[LotDelivery[l]] = "CANCELLED"
  THEN "FORFEITED"
  ELSE IF stopStatus[LotDelivery[l]] = "COMPLETED" THEN "DROPPED"
  ELSE IF stopStatus[LotPickup[l]] = "COMPLETED"   THEN "ON_BOARD"
  ELSE "AWAITING"

OrderView   == IF status \in TerminalStatuses THEN status ELSE "OPEN"
CustodyView == [l \in ProvableLots |-> CustodyOf(l)]
ProvedView  == {l \in ProvableLots : stopPod[LotDelivery[l]] # NoPod}

Custody == INSTANCE CargoCustody WITH
  Cargo <- ProvableLots, order <- OrderView, custody <- CustodyView,
  proved <- ProvedView

(* The operation implements the custody promise, step by step. *)
CustodyKept == Custody!Spec
================================================================================
