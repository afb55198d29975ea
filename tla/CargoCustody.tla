------------------------------ MODULE CargoCustody ------------------------------
(***************************************************************************)
(* What an operation promises the shipper about each lot of cargo, with    *)
(* nothing said about stops, sequences or services: a lot is taken on      *)
(* board once, dropped only from on board and only once proved, and the    *)
(* order is delivered only when no lot is awaited or on board.             *)
(***************************************************************************)
CONSTANT Cargo

VARIABLES
  order,    \* "OPEN", "DELIVERED" or "CANCELLED"
  custody,  \* where each lot is: AWAITING, ON_BOARD, DROPPED or FORFEITED
  proved    \* the lots a proof of delivery covers

vars == <<order, custody, proved>>

Init ==
  /\ order = "OPEN"
  /\ custody = [l \in Cargo |-> "AWAITING"]
  /\ proved = {}

Where(place) == {l \in Cargo : custody[l] = place}

\* One stop may drop lots and take others on board, at any time: only the
\* driver knows whether a cancelled order's cargo still travels.
ServeStop(drop, take) ==
  /\ drop \subseteq Where("ON_BOARD") \cap proved
  /\ take \subseteq Where("AWAITING")
  /\ custody' = [l \in Cargo |-> CASE l \in drop -> "DROPPED"
                                   [] l \in take -> "ON_BOARD"
                                   [] OTHER      -> custody[l]]
  /\ UNCHANGED <<order, proved>>

\* Lots that will not be carried, or not be handed over.
Forfeit(lots) ==
  /\ lots \subseteq Where("AWAITING") \cup Where("ON_BOARD")
  /\ custody' = [l \in Cargo |-> IF l \in lots THEN "FORFEITED" ELSE custody[l]]
  /\ UNCHANGED <<order, proved>>

\* The receiver of some lots signs for them.
Prove(lots) ==
  /\ lots \subseteq Where("ON_BOARD")
  /\ proved' = proved \cup lots
  /\ UNCHANGED <<order, custody>>

Deliver ==
  /\ order = "OPEN"
  /\ Where("AWAITING") \cup Where("ON_BOARD") = {}
  /\ order' = "DELIVERED"
  /\ UNCHANGED <<custody, proved>>

Cancel ==
  /\ order = "OPEN"
  /\ order' = "CANCELLED"
  /\ UNCHANGED <<custody, proved>>

Next ==
  \/ \E drop, take \in SUBSET Cargo : ServeStop(drop, take)
  \/ \E lots \in SUBSET Cargo : Forfeit(lots) \/ Prove(lots)
  \/ Deliver
  \/ Cancel

Spec == Init /\ [][Next]_vars
================================================================================
