------------------------- MODULE OperationStateMachine -------------------------
(***************************************************************************)
(* The status machine of a freight operation, from the table               *)
(* ALLOWED_OPERATION_STATUS_TRANSITIONS of domain/state_machine.py.        *)
(***************************************************************************)

\* The statuses an operation goes through when nobody cancels it, in order.
ASSIGNED            == "ASSIGNED"
EN_ROUTE            == "DRIVER_EN_ROUTE_TO_PICKUP"
ARRIVED_AT_PICKUP   == "ARRIVED_AT_PICKUP"
LOADING             == "LOADING"
IN_TRANSIT          == "IN_TRANSIT"
ARRIVED_AT_DELIVERY == "ARRIVED_AT_DELIVERY"
UNLOADING           == "UNLOADING"
DELIVERED           == "DELIVERED"
CANCELLED           == "CANCELLED"

TerminalStatuses == {DELIVERED, CANCELLED}

OperationStatuses ==
  {ASSIGNED, EN_ROUTE, ARRIVED_AT_PICKUP, LOADING, IN_TRANSIT,
   ARRIVED_AT_DELIVERY, UNLOADING} \cup TerminalStatuses

\* The one step forward out of each status that has one.
ForwardTransitions ==
  {<<ASSIGNED, EN_ROUTE>>, <<EN_ROUTE, ARRIVED_AT_PICKUP>>,
   <<ARRIVED_AT_PICKUP, LOADING>>, <<LOADING, IN_TRANSIT>>,
   <<IN_TRANSIT, ARRIVED_AT_DELIVERY>>, <<ARRIVED_AT_DELIVERY, UNLOADING>>,
   <<UNLOADING, DELIVERED>>}

\* Variant with a bug: a truck in transit may go back to loading.
CanOperationTransition_Reload(current, target) ==
  \/ <<current, target>> \in ForwardTransitions \cup {<<IN_TRANSIT, LOADING>>}
  \/ target = CANCELLED /\ current \notin TerminalStatuses

CanOperationTransition(current, target) ==
  \/ <<current, target>> \in ForwardTransitions
  \/ target = CANCELLED /\ current \notin TerminalStatuses
================================================================================
