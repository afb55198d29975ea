--------------------------- MODULE ContractedRoutes --------------------------
(***************************************************************************)
(* The scheduler of recurring contracts (freights/application/             *)
(* route_services.py): every run of the command process_contracted_routes  *)
(* plans the occurrences of its day and materialises the due ones into     *)
(* operations.  Runs may overlap, may be killed between two transactions,  *)
(* and work on what they queried earlier.  Routes are paused and           *)
(* occurrences cancelled by others, outside the services.                  *)
(***************************************************************************)
EXTENDS Naturals, FiniteSets

CONSTANTS
  Routes,      \* contracted routes
  Days,        \* calendar days
  OperatesOn,  \* the (route, day) pairs inside validity and weekdays
  Broken,      \* the occurrences that FreightOperation's checks refuse
  Runners,     \* concurrent runs of the command
  Limit,       \* --limit
  MaxCrashes   \* bound on killed runs

Occurrences == Routes \X Days

ASSUME RoutesAssumption ==
  /\ Days \subseteq Nat /\ Days # {}
  /\ OperatesOn \subseteq Occurrences
  /\ Broken \subseteq Occurrences
  /\ Limit \in Nat
  /\ MaxCrashes \in Nat

VARIABLES
  today,
  active,      \* the routes that are ACTIVE
  occurrence,  \* status of ContractedRouteOccurrence, "NONE" before it exists
  operations,  \* how many FreightOperations an occurrence has
  run,         \* what each run does and remembers
  crashes

vars == <<today, active, occurrence, operations, run, crashes>>

DayOf(o) == o[2]
RouteOf(o) == o[1]
Idle == [pc |-> "idle", day |-> 0, todo |-> {}, listed |-> 0, made |-> 0]

Init ==
  /\ today \in Days /\ \A d \in Days : today <= d
  /\ active = Routes
  /\ occurrence = [o \in Occurrences |-> "NONE"]
  /\ operations = [o \in Occurrences |-> 0]
  /\ run = [p \in Runners |-> Idle]
  /\ crashes = 0
------------------------------------------------------------------------------
(* The command starts: it queries the active routes of its day. *)
StartRun(p) ==
  /\ run[p].pc = "idle"
  /\ run' = [run EXCEPT ![p] =
       [Idle EXCEPT !.pc = "plan", !.day = today,
                    !.todo = {o \in OperatesOn : DayOf(o) = today /\ RouteOf(o) \in active}]]
  /\ UNCHANGED <<today, active, occurrence, operations, crashes>>

PlanOccurrence_Replan(p, o) ==
  /\ run[p].pc = "plan"
  /\ o \in run[p].todo
  /\ run[p].listed < Limit
  /\ occurrence' = [occurrence EXCEPT ![o] = "PLANNED"]
  /\ run' = [run EXCEPT ![p].todo = @ \ {o}, ![p].listed = @ + 1]
  /\ UNCHANGED <<today, active, operations, crashes>>

(* One turn of the first loop.  The limit counts the occurrences that this *)
(* run found or created; a route paused since the query creates none.      *)
PlanOccurrence(p, o) ==
  /\ run[p].pc = "plan"
  /\ o \in run[p].todo
  /\ run[p].listed < Limit
  /\ LET creates == occurrence[o] = "NONE" /\ RouteOf(o) \in active
         found == occurrence[o] # "NONE"
     IN /\ occurrence' = [occurrence EXCEPT ![o] = IF creates THEN "PLANNED" ELSE @]
        /\ run' = [run EXCEPT ![p].todo = @ \ {o},
                              ![p].listed = IF creates \/ found THEN @ + 1 ELSE @]
  /\ UNCHANGED <<today, active, operations, crashes>>

Due_SameDay(day) ==
  {o \in OperatesOn :
     occurrence[o] = "PLANNED" /\ RouteOf(o) \in active /\ DayOf(o) = day}

(* The planned occurrences whose day has come, of active routes. *)
Due(day) ==
  {o \in OperatesOn :
     occurrence[o] = "PLANNED" /\ RouteOf(o) \in active /\ DayOf(o) <= day}

QueryDue(p) ==
  /\ run[p].pc = "plan"
  /\ run[p].todo = {} \/ run[p].listed >= Limit
  /\ run' = [run EXCEPT ![p].pc = "make", ![p].todo = Due(run[p].day)]
  /\ UNCHANGED <<today, active, occurrence, operations, crashes>>

Materializes_Unlocked(o) == o \notin Broken

(* materialize_contracted_route_occurrence under the occurrence's lock:    *)
(* only a PLANNED one gets an operation.                                   *)
Materializes(o) == occurrence[o] = "PLANNED" /\ o \notin Broken

(* One turn of the second loop, oldest day first; failures do not count.   *)
MaterializeOccurrence(p, o) ==
  /\ run[p].pc = "make"
  /\ o \in run[p].todo
  /\ \A q \in run[p].todo : DayOf(o) <= DayOf(q)
  /\ run[p].made < Limit
  /\ IF Materializes(o)
     THEN /\ occurrence' = [occurrence EXCEPT ![o] = "MATERIALIZED"]
          /\ operations' = [operations EXCEPT ![o] = @ + 1]
          /\ run' = [run EXCEPT ![p].todo = @ \ {o}, ![p].made = @ + 1]
     ELSE /\ run' = [run EXCEPT ![p].todo = @ \ {o}]
          /\ UNCHANGED <<occurrence, operations>>
  /\ UNCHANGED <<today, active, crashes>>

FinishRun(p) ==
  /\ run[p].pc = "make"
  /\ run[p].todo = {} \/ run[p].made >= Limit
  /\ run' = [run EXCEPT ![p] = Idle]
  /\ UNCHANGED <<today, active, occurrence, operations, crashes>>

(* The process is killed; every transaction before stays. *)
RunDies(p) ==
  /\ crashes < MaxCrashes
  /\ run[p].pc # "idle"
  /\ run' = [run EXCEPT ![p] = Idle]
  /\ crashes' = crashes + 1
  /\ UNCHANGED <<today, active, occurrence, operations>>

RunStep(p) ==
  \/ StartRun(p) \/ QueryDue(p) \/ FinishRun(p)
  \/ \E o \in Occurrences : PlanOccurrence(p, o) \/ MaterializeOccurrence(p, o)
------------------------------------------------------------------------------
(* Others, who write the rows directly. *)

NextDay ==
  /\ today + 1 \in Days
  /\ today' = today + 1
  /\ UNCHANGED <<active, occurrence, operations, run, crashes>>

PauseOrResume(r) ==
  /\ active' = IF r \in active THEN active \ {r} ELSE active \cup {r}
  /\ UNCHANGED <<today, occurrence, operations, run, crashes>>

CancelOccurrence(o) ==
  /\ occurrence[o] = "PLANNED"
  /\ occurrence' = [occurrence EXCEPT ![o] = "CANCELLED"]
  /\ UNCHANGED <<today, active, operations, run, crashes>>

Next ==
  \/ \E p \in Runners : RunStep(p) \/ RunDies(p)
  \/ NextDay
  \/ \E r \in Routes : PauseOrResume(r)
  \/ \E o \in Occurrences : CancelOccurrence(o)

Spec == Init /\ [][Next]_vars

(* Cron keeps starting the command and a started run keeps working.        *)
FairSpec == Spec /\ \A p \in Runners : WF_vars(RunStep(p))
------------------------------------------------------------------------------
TypeOK ==
  /\ today \in Days
  /\ active \in SUBSET Routes
  /\ occurrence \in [Occurrences -> {"NONE", "PLANNED", "MATERIALIZED", "CANCELLED"}]
  /\ operations \in [Occurrences -> Nat]
  /\ run \in [Runners -> [pc : {"idle", "plan", "make"}, day : Nat,
                          todo : SUBSET Occurrences, listed : Nat, made : Nat]]
  /\ crashes \in 0..MaxCrashes

(* Overlapping and killed runs give an occurrence exactly one operation    *)
(* when they materialise it, and none otherwise (contracted-routes.md:40,  *)
(* "exactly one materialized operation").                                  *)
OneOperationEach ==
  \A o \in Occurrences :
    operations[o] = IF occurrence[o] = "MATERIALIZED" THEN 1 ELSE 0

(* What was planned never happens twice: an occurrence that was cancelled  *)
(* or materialised is left alone by every run that still lists it.         *)
SettledOccurrencesStay ==
  [][\A o \in Occurrences :
       occurrence[o] \in {"MATERIALIZED", "CANCELLED"} =>
         occurrence'[o] = occurrence[o]]_vars

(* No planned occurrence is forgotten: whatever its day, while its route   *)
(* stays active it is materialised or cancelled, even when other           *)
(* occurrences fail, runs are killed and the limit is small.               *)
PlannedAreProcessed ==
  \A o \in OperatesOn \ Broken :
    (occurrence[o] = "PLANNED") ~>
      (occurrence[o] # "PLANNED" \/ RouteOf(o) \notin active)
==============================================================================
