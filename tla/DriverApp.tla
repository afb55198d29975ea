-------------------------------- MODULE DriverApp --------------------------------
(***************************************************************************)
(* The driver's app at work on one operation.  It fetches the operation    *)
(* (the detail view computes available_actions and next_stop from several  *)
(* reads that no lock holds together), shows the actions as buttons, sends *)
(* the call behind the button the driver taps, and fetches again whether   *)
(* the call succeeded, was refused or was lost.  Meanwhile other clients   *)
(* of the same operation call its services.                                *)
(***************************************************************************)
EXTENDS OperationExecution

CONSTANT NoStop   \* next_stop when every stop is done (None)

ASSUME AppAssumption == NoStop \notin Stops

VARIABLES
  phase,   \* what the app is doing
  seen,    \* the operation's status as the detail view read it
  draft,   \* the actions the detail view computed before it read next_stop
  screen   \* what the app shows: the actions and the next stop

appVars == <<phase, seen, draft, screen>>
allVars == <<vars, appVars>>

\* The macro action offered in each status, and the status its call asks for.
MacroActions ==
  { [offeredIn |-> ASSIGNED, action |-> "START_OPERATION", target |-> EN_ROUTE],
    [offeredIn |-> EN_ROUTE, action |-> "ARRIVE_PICKUP",
     target |-> ARRIVED_AT_PICKUP],
    [offeredIn |-> ARRIVED_AT_PICKUP, action |-> "START_LOADING", target |-> LOADING],
    [offeredIn |-> LOADING, action |-> "START_TRANSIT", target |-> IN_TRANSIT],
    [offeredIn |-> IN_TRANSIT, action |-> "ARRIVE_DELIVERY",
     target |-> ARRIVED_AT_DELIVERY],
    [offeredIn |-> ARRIVED_AT_DELIVERY, action |-> "START_UNLOADING",
     target |-> UNLOADING],
    [offeredIn |-> UNLOADING, action |-> "COMPLETE_OPERATION", target |-> DELIVERED] }

StopActions == {"ARRIVE_STOP", "COMPLETE_STOP", "SUBMIT_POD"}
MainActions == {m.action : m \in MacroActions} \cup StopActions

\* get_next_stop: the first stop by sequence that is neither completed nor
\* cancelled.
OpenStops == {s \in Stops : ~StopDone(s)}
NextStop  == IF OpenStops = {} THEN NoStop
             ELSE CHOOSE s \in OpenStops : \A u \in OpenStops : s <= u

\* COMPLETE_OPERATION asks about the delivery stops only; an operation with
\* no stops passes.
\* Variant with a bug: every stop needs a proof.
DeliveriesLookDone_EveryStop ==
  \A s \in Stops :
    StopDone(s) /\ (stopStatus[s] = "COMPLETED" => stopPod[s] # NoPod)

DeliveriesLookDone ==
  \A s \in DeliveryStops :
    StopDone(s) /\ (stopStatus[s] = "COMPLETED" => stopPod[s] # NoPod)

MacroOffers(st) ==
  {m.action : m \in {n \in MacroActions :
     n.offeredIn = st /\ (n.action = "COMPLETE_OPERATION" => DeliveriesLookDone)}}

\* Variants with a bug: the cargo is not looked at; pickups need a proof too.
StopOffers_NoCargo ==
  LET s == NextStop IN
  CASE s = NoStop -> {}
    [] s # NoStop /\ stopStatus[s] = "PENDING" -> {"ARRIVE_STOP"}
    [] s # NoStop /\ stopStatus[s] = "ARRIVED" ->
         IF StopType[s] = "DELIVERY" /\ stopPod[s] = NoPod
         THEN {"SUBMIT_POD"} ELSE {"COMPLETE_STOP"}

StopOffers_PickupProof ==
  LET s == NextStop IN
  CASE s = NoStop -> {}
    [] s # NoStop /\ stopStatus[s] = "PENDING" ->
         {a \in {"ARRIVE_STOP"} : StopType[s] = "DELIVERY" => CargoCollected(s)}
    [] s # NoStop /\ stopStatus[s] = "ARRIVED" ->
         IF stopPod[s] # NoPod THEN {"COMPLETE_STOP"}
         ELSE {a \in {"SUBMIT_POD"} : StopType[s] = "DELIVERY"}

StopOffers ==
  LET s == NextStop IN
  CASE s = NoStop -> {}
    [] s # NoStop /\ stopStatus[s] = "PENDING" ->
         {a \in {"ARRIVE_STOP"} :
            EarlierStopsDone(s) /\ (StopType[s] = "DELIVERY" => CargoCollected(s))}
    [] s # NoStop /\ stopStatus[s] = "ARRIVED" ->
         IF StopType[s] = "DELIVERY" /\ stopPod[s] = NoPod
         THEN {"SUBMIT_POD"} ELSE {"COMPLETE_STOP"}

\* get_available_actions for an operation row that says its status is st.
AvailableActions(st) ==
  IF st \in TerminalStatuses THEN {}
  ELSE {"REPORT_INCIDENT",
        IF \E t \in SessionIds : sessions[t].status = "ACTIVE"
        THEN "END_TRACKING" ELSE "START_TRACKING"}
       \cup MacroOffers(st)
       \cup (IF st = ASSIGNED THEN {} ELSE StopOffers)
--------------------------------------------------------------------------------
\* The call behind each button, and whether the service accepts it.
Accepted(a, s) ==
  \/ \E m \in MacroActions : m.action = a /\ StatusAccepted(m.target)
  \/ a = "ARRIVE_STOP" /\ s # NoStop /\ StopMoveAccepted(s, "ARRIVED")
  \/ a = "COMPLETE_STOP" /\ s # NoStop /\ StopMoveAccepted(s, "COMPLETED")
  \/ a = "SUBMIT_POD" /\ IF s = NoStop THEN OperationPodAccepted
                         ELSE StopPodAccepted(s)

Perform(a, s) ==
  \/ \E m \in MacroActions : m.action = a /\ AdvanceStatus(m.target, NoId)
  \/ a = "ARRIVE_STOP" /\ ChangeStopStatus(s, "ARRIVED")
  \/ a = "COMPLETE_STOP" /\ ChangeStopStatus(s, "COMPLETED")
  \/ a = "SUBMIT_POD" /\ \E pod \in PodData :
       IF s = NoStop THEN RecordOperationPod(pod) ELSE RecordStopPod(s, pod)

\* A screen that is loading shows nothing.
Blank == [actions |-> {}, stop |-> NoStop]

\* The detail view's reads, in its order; what they read ends with the fetch.
FetchStatus ==
  /\ phase = "fetch"
  /\ seen' = status
  /\ phase' = "statusRead"
  /\ UNCHANGED <<vars, draft, screen>>

FetchActions ==
  /\ phase = "statusRead"
  /\ draft' = AvailableActions(seen)
  /\ phase' = "actionsRead"
  /\ UNCHANGED <<vars, seen, screen>>

FetchNextStop ==
  /\ phase = "actionsRead"
  /\ screen' = [actions |-> draft, stop |-> NextStop]
  /\ phase' = "idle"
  /\ seen' = ASSIGNED
  /\ draft' = {}
  /\ UNCHANGED vars

\* The fetch failed, and the driver presses retry.
FetchFails ==
  /\ phase \in {"statusRead", "actionsRead"}
  /\ phase' = "fetch"
  /\ seen' = ASSIGNED
  /\ draft' = {}
  /\ UNCHANGED <<vars, screen>>

\* executeAction: a button sends its call for the stop that the screen shows.
Tap(a) ==
  /\ phase = "idle"
  /\ a \in screen.actions \cap MainActions
  /\ phase' = a
  /\ UNCHANGED <<vars, seen, draft, screen>>

\* The server serves the call; refused or not, the app fetches again.
ServeTap ==
  /\ phase \in MainActions
  /\ IF Accepted(phase, screen.stop) THEN Perform(phase, screen.stop)
     ELSE UNCHANGED vars
  /\ phase' = "fetch"
  /\ screen' = Blank
  /\ UNCHANGED <<seen, draft>>

\* The call never reached the server, or the driver reopened the screen.
Reload ==
  /\ phase \in MainActions \cup {"idle"}
  /\ phase' = "fetch"
  /\ screen' = Blank
  /\ UNCHANGED <<vars, seen, draft>>

\* Other clients: the back office, and the driver's other devices.
OthersStep ==
  /\ Next
  /\ UNCHANGED appVars

AppInit ==
  /\ Init
  /\ phase = "fetch"
  /\ seen = ASSIGNED
  /\ draft = {}
  /\ screen = Blank

AppStep ==
  \/ FetchStatus \/ FetchActions \/ FetchNextStop \/ FetchFails
  \/ \E a \in MainActions : Tap(a)
  \/ ServeTap
  \/ Reload

AppNext == AppStep \/ OthersStep

AppSpec == AppInit /\ [][AppNext]_allVars

\* A driver who keeps working over a network that does not fail for ever.
AppFairness ==
  /\ WF_allVars(FetchStatus)
  /\ SF_allVars(FetchActions)
  /\ SF_allVars(FetchNextStop)
  /\ SF_allVars(\E a \in MainActions : Tap(a))
  /\ SF_allVars(ServeTap)

FairAppSpec == AppSpec /\ AppFairness
--------------------------------------------------------------------------------
(* Every variable of the app keeps its type. *)
AppTypeOK ==
  /\ phase \in {"fetch", "statusRead", "actionsRead", "idle"} \cup MainActions
  /\ seen \in OperationStatuses
  /\ draft \subseteq MainActions \cup
       {"REPORT_INCIDENT", "START_TRACKING", "END_TRACKING"}
  /\ screen.actions \subseteq MainActions \cup
       {"REPORT_INCIDENT", "START_TRACKING", "END_TRACKING"}
  /\ screen.stop \in Stops \cup {NoStop}

(* docs/operations/pilot_readiness_checklist.md:47: available_actions lists *)
(* only eligible transitions, so that the app sends nothing the backend     *)
(* would reject.  What get_available_actions offers, computed in one piece, *)
(* change_operation_status, change_stop_status and record_proof_of_delivery *)
(* accept for the next stop.                                                *)
OfferedActionsAreAccepted ==
  \A a \in AvailableActions(status) \cap MainActions : Accepted(a, NextStop)

(* An open operation leaves its driver without a main action only in one    *)
(* way: the next stop is a delivery of a lot whose pickup was cancelled.    *)
StuckOnlyByCancelledPickup ==
  status \notin TerminalStatuses /\ AvailableActions(status) \cap MainActions = {}
    => /\ NextStop \in DeliveryStops
       /\ \E l \in LotsDroppedAt(NextStop) :
            stopStatus[LotPickup[l]] = "CANCELLED"

(* When nobody cancels a stop, a driver who keeps tapping what the screen *)
(* offers, even from stale screens and while others work on the operation,  *)
(* finishes it: docs/architecture/driver-app-operational-flow.md:88.        *)
DriverFinishes ==
  [](\A s \in Stops : stopStatus[s] # "CANCELLED") => <>(status \in TerminalStatuses)
================================================================================
