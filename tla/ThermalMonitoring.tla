-------------------------- MODULE ThermalMonitoring --------------------------
(***************************************************************************)
(* Refrigerated cargo: record_thermal_reading (freights/application/       *)
(* operation_services.py) stores the readings of an operation's sensors    *)
(* and keeps their excursions.  The operation's row is locked, so readings *)
(* are handled one at a time; they arrive late, out of order and again.    *)
(***************************************************************************)
EXTENDS Integers, Sequences

CONSTANTS
  Devices,      \* sensors
  Ids,          \* client event ids
  Temps,        \* temperatures a sensor may report
  MinC, MaxC,   \* the operation's limits: sets with at most one temperature
  MaxTime,      \* bound on the clock, an hour a tick
  StaleAfter,   \* age from which a reading is STALE (24)
  MaxReadings   \* bound on stored readings

NoId == "none"
ASSUME ThermalAssumption ==
  /\ Temps \subseteq Int
  /\ MinC \subseteq Int /\ MaxC \subseteq Int
  /\ {MaxTime, StaleAfter, MaxReadings} \subseteq Nat
  /\ NoId \notin Ids

VARIABLES
  now,         \* the server's clock
  readings,    \* ThermalReading, in the order of server_timestamp
  excursions   \* ThermalExcursion

vars == <<now, readings, excursions>>

Times == 0..MaxTime
NotEnded == -1

Init ==
  /\ now = 0
  /\ readings = <<>>
  /\ excursions = {}
------------------------------------------------------------------------------
IsBelow(temp) == \E limit \in MinC : temp < limit
IsAbove(temp) == \E limit \in MaxC : temp > limit
Breaches(temp) == IsBelow(temp) \/ IsAbove(temp)
Direction(temp) == IF IsBelow(temp) THEN "BELOW_MIN" ELSE "ABOVE_MAX"

Lower(a, b) == IF a < b THEN a ELSE b
Higher(a, b) == IF a > b THEN a ELSE b

Active(d) == {x \in excursions : x.device = d /\ x.status = "ACTIVE"}

Opened(d, t, temp) ==
  [device |-> d, started |-> t, ended |-> NotEnded, direction |-> Direction(temp),
   min |-> temp, max |-> temp, status |-> "ACTIVE"]
Resolved(x, t) == [x EXCEPT !.status = "RESOLVED", !.ended = t]
Widened_Max(x, temp) == [x EXCEPT !.max = Higher(@, temp)]
Widened(x, temp) == [x EXCEPT !.min = Lower(@, temp), !.max = Higher(@, temp)]

Evaluated_KeepsOther(d, t, temp) ==
  LET same == {x \in Active(d) : Breaches(temp) /\ x.direction = Direction(temp)}
  IN (excursions \ same)
       \cup {Widened(x, temp) : x \in same}
       \cup (IF Breaches(temp) /\ same = {} THEN {Opened(d, t, temp)} ELSE {})

(* What a VALID reading leaves of the excursions: in bounds it resolves    *)
(* the device's active one; out of bounds it widens it, or resolves one of *)
(* the other direction, and opens one when none is left.                   *)
Evaluated(d, t, temp) ==
  LET same == {x \in Active(d) : Breaches(temp) /\ x.direction = Direction(temp)}
      over == Active(d) \ same
  IN (excursions \ Active(d))
       \cup {Widened(x, temp) : x \in same}
       \cup {Resolved(x, t) : x \in over}
       \cup (IF Breaches(temp) /\ same = {} THEN {Opened(d, t, temp)} ELSE {})

(* A reading with the client id, or the device and timestamp, of a stored  *)
(* one is returned as it is.                                               *)
Known(d, t, id) ==
  \E i \in 1..Len(readings) :
    \/ id # NoId /\ readings[i].id = id
    \/ readings[i].device = d /\ readings[i].time = t

(* The sensor's own verdict, overruled when the reading is old. *)
Validity(t, verdict) == IF t < now - StaleAfter THEN "STALE" ELSE verdict

(* A reading from the future is refused, and only VALID ones are evaluated. *)
NotFuture(t) == t <= now
Evaluates_All(validity) == TRUE
Evaluates(validity) == validity = "VALID"

RepeatReading(d, t, id) == Known(d, t, id) /\ UNCHANGED vars

RecordReading(d, t, temp, verdict, id) ==
  /\ ~Known(d, t, id)
  /\ NotFuture(t)
  /\ Len(readings) < MaxReadings
  /\ readings' = Append(readings, [device |-> d, time |-> t, temp |-> temp,
                                   validity |-> Validity(t, verdict), id |-> id])
  /\ excursions' = IF Evaluates(Validity(t, verdict)) THEN Evaluated(d, t, temp) ELSE excursions
  /\ UNCHANGED now

Tick ==
  /\ now < MaxTime
  /\ now' = now + 1
  /\ UNCHANGED <<readings, excursions>>

Next ==
  \/ Tick
  \/ \E d \in Devices, t \in Times, id \in Ids \cup {NoId} :
       \/ RepeatReading(d, t, id)
       \/ \E temp \in Temps, verdict \in {"VALID", "SUSPECT"} :
            RecordReading(d, t, temp, verdict, id)

Spec == Init /\ [][Next]_vars
------------------------------------------------------------------------------
Reading ==
  [device : Devices, time : Times, temp : Temps, validity : {"VALID", "SUSPECT", "STALE"},
   id : Ids \cup {NoId}]
Excursion ==
  [device : Devices, started : Times, ended : Times \cup {NotEnded},
   direction : {"BELOW_MIN", "ABOVE_MAX"}, min : Temps, max : Temps,
   status : {"ACTIVE", "RESOLVED"}]

(* Everything is well typed, and no reading is from the future. *)
ThermalTypeOK ==
  /\ now \in Times
  /\ readings \in Seq(Reading)
  /\ \A i \in 1..Len(readings) : readings[i].time <= now
  /\ excursions \subseteq Excursion

(* A sensor has one open excursion at most, whatever the order in which    *)
(* breaches on both sides of the range arrive.                             *)
OneActiveExcursion ==
  \A x, y \in excursions :
    x.device = y.device /\ x.status = "ACTIVE" /\ y.status = "ACTIVE" => x = y

(* The alarm tells the sensor's state: an excursion is open exactly when   *)
(* the last valid reading that arrived is out of the range, on that side;  *)
(* repeated, stale and suspect readings do not disturb it.                 *)
LastValid(i) ==
  /\ readings[i].validity = "VALID"
  /\ \A j \in (i + 1)..Len(readings) :
       readings[j].device = readings[i].device => readings[j].validity # "VALID"
Shows(d, temp) ==
  /\ Breaches(temp) => \E x \in excursions : x.device = d /\ x.status = "ACTIVE"
  /\ \A x \in excursions :
       x.device = d /\ x.status = "ACTIVE" => Breaches(temp) /\ x.direction = Direction(temp)
AlarmFollowsSensor ==
  \A i \in 1..Len(readings) : LastValid(i) => Shows(readings[i].device, readings[i].temp)

(* No breach is forgotten: every valid reading out of the range stays      *)
(* inside the observed bounds of an excursion of its sensor.               *)
BreachesAreRecorded ==
  \A i \in 1..Len(readings) :
    LET r == readings[i]
    IN r.validity = "VALID" /\ Breaches(r.temp) =>
         \E x \in excursions :
           /\ x.device = r.device
           /\ x.direction = Direction(r.temp)
           /\ x.min <= r.temp /\ r.temp <= x.max
==============================================================================
