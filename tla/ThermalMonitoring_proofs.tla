---------------------- MODULE ThermalMonitoring_proofs -----------------------
(***************************************************************************)
(* Proofs about ThermalMonitoring, for any sensors, temperatures, limits   *)
(* and number of readings.                                                 *)
(***************************************************************************)
EXTENDS ThermalMonitoring, TLAPS

(* The device's active excursions that a reading on the same side widens.  *)
Same(d, temp) == {x \in Active(d) : Breaches(temp) /\ x.direction = Direction(temp)}

ThermalInv ==
  /\ ThermalTypeOK
  /\ OneActiveExcursion
  /\ AlarmFollowsSensor
  /\ BreachesAreRecorded

(* What evaluation leaves: the other excursions, and the device's widened, *)
(* resolved and opened ones.                                               *)
LEMMA EvaluatedIs ==
  ASSUME NEW d, NEW t, NEW temp
  PROVE  Evaluated(d, t, temp) =
           (excursions \ Active(d))
             \cup {Widened(x, temp) : x \in Same(d, temp)}
             \cup {Resolved(x, t) : x \in Active(d) \ Same(d, temp)}
             \cup (IF Breaches(temp) /\ Same(d, temp) = {} THEN {Opened(d, t, temp)} ELSE {})
  BY DEF Evaluated, Same

(* Widening keeps an excursion's device, side and status, and includes     *)
(* both what it had observed and the new temperature.                      *)
LEMMA WidenedKeeps ==
  ASSUME NEW x \in Excursion, NEW temp \in Temps
  PROVE  /\ Widened(x, temp) \in Excursion
         /\ Widened(x, temp).device = x.device
         /\ Widened(x, temp).direction = x.direction
         /\ Widened(x, temp).status = x.status
         /\ Widened(x, temp).min <= x.min /\ x.max <= Widened(x, temp).max
         /\ Widened(x, temp).min <= temp /\ temp <= Widened(x, temp).max
  <1>1. x.min \in Int /\ x.max \in Int /\ temp \in Int
    BY ThermalAssumption DEF Excursion
  <1>2. /\ Lower(x.min, temp) \in Temps /\ Higher(x.max, temp) \in Temps
        /\ Lower(x.min, temp) <= x.min /\ Lower(x.min, temp) <= temp
        /\ x.max <= Higher(x.max, temp) /\ temp <= Higher(x.max, temp)
    BY <1>1 DEF Lower, Higher, Excursion
  <1>3. Widened(x, temp) = [device |-> x.device, started |-> x.started, ended |-> x.ended,
                            direction |-> x.direction, min |-> Lower(x.min, temp),
                            max |-> Higher(x.max, temp), status |-> x.status]
    <2>1. x = [device |-> x.device, started |-> x.started, ended |-> x.ended,
               direction |-> x.direction, min |-> x.min, max |-> x.max, status |-> x.status]
      BY DEF Excursion
    <2> DEFINE lo == Lower(x.min, temp)
               hi == Higher(x.max, temp)
    <2>2. Widened(x, temp) = [x EXCEPT !.min = lo, !.max = hi]
      BY DEF Widened
    <2> HIDE DEF lo, hi
    <2> QED
      BY <2>1, <2>2 DEF lo, hi
  <1>4. /\ x.device \in Devices /\ x.started \in Times /\ x.ended \in Times \cup {NotEnded}
        /\ x.direction \in {"BELOW_MIN", "ABOVE_MAX"} /\ x.status \in {"ACTIVE", "RESOLVED"}
    BY DEF Excursion
  <1> QED
    BY <1>2, <1>3, <1>4 DEF Excursion

(* Resolving keeps everything but the status and the end. *)
LEMMA ResolvedKeeps ==
  ASSUME NEW x \in Excursion, NEW t \in Times
  PROVE  /\ Resolved(x, t) \in Excursion
         /\ Resolved(x, t).device = x.device
         /\ Resolved(x, t).direction = x.direction
         /\ Resolved(x, t).status = "RESOLVED"
         /\ Resolved(x, t).min = x.min /\ Resolved(x, t).max = x.max
  BY DEF Excursion, Resolved

(* An opened excursion is the device's, on the temperature's side. *)
LEMMA OpenedIs ==
  ASSUME NEW d \in Devices, NEW t \in Times, NEW temp \in Temps
  PROVE  /\ Opened(d, t, temp) \in Excursion
         /\ Opened(d, t, temp).device = d
         /\ Opened(d, t, temp).direction = Direction(temp)
         /\ Opened(d, t, temp).status = "ACTIVE"
         /\ Opened(d, t, temp).min = temp /\ Opened(d, t, temp).max = temp
  BY DEF Excursion, Opened, Direction, NotEnded

(* Evaluation keeps excursions well typed. *)
LEMMA EvaluatedTyped ==
  ASSUME ThermalTypeOK, NEW d \in Devices, NEW t \in Times, NEW temp \in Temps
  PROVE  Evaluated(d, t, temp) \subseteq Excursion
  <1>1. Active(d) \subseteq Excursion /\ Same(d, temp) \subseteq Excursion
    BY DEF ThermalTypeOK, Active, Same
  <1> QED
    BY <1>1, EvaluatedIs, WidenedKeeps, ResolvedKeeps, OpenedIs DEF ThermalTypeOK

(* After evaluation the device's active excursions are exactly the ones    *)
(* widened or opened.                                                      *)
LEMMA ActiveAfter ==
  ASSUME ThermalTypeOK, NEW d \in Devices, NEW t \in Times, NEW temp \in Temps,
         NEW y \in Evaluated(d, t, temp), y.device = d, y.status = "ACTIVE"
  PROVE  \/ \E x \in Same(d, temp) : y = Widened(x, temp)
         \/ Breaches(temp) /\ Same(d, temp) = {} /\ y = Opened(d, t, temp)
  <1>1. Active(d) \subseteq Excursion
    BY DEF ThermalTypeOK, Active
  <1>2. y \notin excursions \ Active(d)
    BY DEF Active
  <1>3. y \notin {Resolved(x, t) : x \in Active(d) \ Same(d, temp)}
    BY <1>1, ResolvedKeeps
  <1> QED
    BY <1>2, <1>3, EvaluatedIs

(* Evaluation leaves the other devices' excursions alone. *)
LEMMA OthersAfter ==
  ASSUME ThermalTypeOK, NEW d \in Devices, NEW t \in Times, NEW temp \in Temps,
         NEW y, y.device # d
  PROVE  y \in Evaluated(d, t, temp) <=> y \in excursions
  <1>1. /\ Active(d) \subseteq Excursion /\ Same(d, temp) \subseteq Active(d)
        /\ \A x \in Active(d) : x.device = d
    BY DEF ThermalTypeOK, Active, Same
  <1>2. y \notin {Widened(x, temp) : x \in Same(d, temp)}
    BY <1>1, WidenedKeeps
  <1>3. y \notin {Resolved(x, t) : x \in Active(d) \ Same(d, temp)}
    BY <1>1, ResolvedKeeps
  <1>4. y # Opened(d, t, temp)
    BY OpenedIs
  <1> QED
    BY <1>1, <1>2, <1>3, <1>4, EvaluatedIs

(* Evaluation keeps at most one active excursion per device. *)
LEMMA EvaluatedKeepsOne ==
  ASSUME ThermalTypeOK, OneActiveExcursion,
         NEW d \in Devices, NEW t \in Times, NEW temp \in Temps,
         NEW x \in Evaluated(d, t, temp), NEW y \in Evaluated(d, t, temp),
         x.device = y.device, x.status = "ACTIVE", y.status = "ACTIVE"
  PROVE  x = y
  <1>1. CASE x.device # d
    BY <1>1, OthersAfter DEF OneActiveExcursion
  <1>2. CASE x.device = d
    <2>1. \A u, v \in Same(d, temp) : u = v
      BY DEF Same, Active, OneActiveExcursion
    <2> QED
      BY <1>2, <2>1, ActiveAfter
  <1> QED
    BY <1>1, <1>2

(* After evaluation the device's alarm shows the reading. *)
LEMMA AlarmAfter ==
  ASSUME ThermalTypeOK, NEW d \in Devices, NEW t \in Times, NEW temp \in Temps
  PROVE  /\ Breaches(temp) =>
              \E y \in Evaluated(d, t, temp) : y.device = d /\ y.status = "ACTIVE"
         /\ \A y \in Evaluated(d, t, temp) :
              y.device = d /\ y.status = "ACTIVE" => Breaches(temp) /\ y.direction = Direction(temp)
  <1>1. Same(d, temp) \subseteq Excursion
    BY DEF ThermalTypeOK, Same, Active
  <1>2. ASSUME NEW y \in Evaluated(d, t, temp), y.device = d, y.status = "ACTIVE"
        PROVE  Breaches(temp) /\ y.direction = Direction(temp)
    <2>2. CASE \E x \in Same(d, temp) : y = Widened(x, temp)
      BY <1>1, <2>2, WidenedKeeps DEF Same
    <2>3. CASE Breaches(temp) /\ y = Opened(d, t, temp)
      BY <2>3, OpenedIs
    <2> QED
      BY <1>2, <2>2, <2>3, ActiveAfter
  <1>3. ASSUME Breaches(temp)
        PROVE  \E y \in Evaluated(d, t, temp) : y.device = d /\ y.status = "ACTIVE"
    <2>1. CASE Same(d, temp) = {}
      <3>1. Opened(d, t, temp) \in Evaluated(d, t, temp)
        BY <1>3, <2>1, EvaluatedIs
      <3> QED
        BY <3>1, OpenedIs
    <2>2. CASE Same(d, temp) # {}
      <3>1. PICK x \in Same(d, temp) : TRUE
        BY <2>2
      <3>2. Widened(x, temp) \in Evaluated(d, t, temp)
        BY <3>1, EvaluatedIs
      <3>3. Widened(x, temp).device = d /\ Widened(x, temp).status = "ACTIVE"
        BY <1>1, <3>1, WidenedKeeps DEF Same, Active
      <3> QED
        BY <3>2, <3>3
    <2> QED
      BY <2>1, <2>2
  <1> QED
    BY <1>2, <1>3

(* What an excursion covers stays covered. *)
LEMMA CoverStays ==
  ASSUME ThermalTypeOK, NEW d \in Devices, NEW t \in Times, NEW temp \in Temps,
         NEW x \in excursions
  PROVE  \E y \in Evaluated(d, t, temp) :
           /\ y.device = x.device /\ y.direction = x.direction
           /\ y.min <= x.min /\ x.max <= y.max
  <1>0. x \in Excursion /\ x.min \in Int /\ x.max \in Int
    BY ThermalAssumption DEF ThermalTypeOK, Excursion
  <1>1. CASE x \notin Active(d)
    BY <1>0, <1>1, EvaluatedIs
  <1>2. CASE x \in Same(d, temp)
    <2>1. Widened(x, temp) \in Evaluated(d, t, temp)
      BY <1>2, EvaluatedIs
    <2> QED
      BY <1>0, <2>1, WidenedKeeps
  <1>3. CASE x \in Active(d) \ Same(d, temp)
    <2>1. Resolved(x, t) \in Evaluated(d, t, temp)
      BY <1>3, EvaluatedIs
    <2> QED
      BY <1>0, <2>1, ResolvedKeeps
  <1> QED
    BY <1>1, <1>2, <1>3

(* A breaching reading is covered after its own evaluation. *)
LEMMA CoversReading ==
  ASSUME ThermalTypeOK, NEW d \in Devices, NEW t \in Times, NEW temp \in Temps,
         Breaches(temp)
  PROVE  \E y \in Evaluated(d, t, temp) :
           /\ y.device = d /\ y.direction = Direction(temp)
           /\ y.min <= temp /\ temp <= y.max
  <1>1. CASE Same(d, temp) = {}
    <2>1. Opened(d, t, temp) \in Evaluated(d, t, temp)
      BY <1>1, EvaluatedIs
    <2>2. temp \in Int
      BY ThermalAssumption
    <2> QED
      BY <2>1, <2>2, OpenedIs
  <1>2. CASE Same(d, temp) # {}
    <2>1. PICK x \in Same(d, temp) : TRUE
      BY <1>2
    <2>2. x \in Excursion /\ x.device = d /\ x.direction = Direction(temp)
      BY <2>1 DEF Same, Active, ThermalTypeOK
    <2>3. Widened(x, temp) \in Evaluated(d, t, temp)
      BY <2>1, EvaluatedIs
    <2> QED
      BY <2>2, <2>3, WidenedKeeps
  <1> QED
    BY <1>1, <1>2
------------------------------------------------------------------------------
(* A new reading keeps the whole invariant. *)
LEMMA RecordKeeps ==
  ASSUME ThermalInv, NEW d \in Devices, NEW t \in Times, NEW temp \in Temps,
         NEW verdict \in {"VALID", "SUSPECT"}, NEW id \in Ids \cup {NoId},
         RecordReading(d, t, temp, verdict, id)
  PROVE  ThermalInv'
  <1> DEFINE r == [device |-> d, time |-> t, temp |-> temp,
                   validity |-> Validity(t, verdict), id |-> id]
             n == Len(readings) + 1
  <1>1. /\ r \in Reading /\ readings \in Seq(Reading)
        /\ readings' = Append(readings, r)
    BY DEF RecordReading, NotFuture, Evaluates, Validity, Reading, ThermalInv, ThermalTypeOK
  <1>2. /\ Len(readings') = n /\ n \in Nat /\ readings'[n] = r
        /\ \A i \in 1..Len(readings) : readings'[i] = readings[i]
    BY <1>1
  <1>3. /\ r.device = d /\ r.temp = temp /\ r.validity = Validity(t, verdict) /\ r.time = t
    OBVIOUS
  <1>4. ASSUME NEW i \in 1..n
        PROVE  i = n \/ i \in 1..Len(readings)
    BY <1>1
  <1> HIDE DEF r, n
  <1>5. ThermalTypeOK'
    <2>1. readings' \in Seq(Reading)
      BY <1>1
    <2>2. excursions' \subseteq Excursion
      BY EvaluatedTyped DEF RecordReading, NotFuture, Evaluates, ThermalInv, ThermalTypeOK
    <2>3. \A i \in 1..n : readings'[i].time <= now'
      BY <1>2, <1>3, <1>4 DEF RecordReading, NotFuture, Evaluates, ThermalInv, ThermalTypeOK
    <2>4. now' \in Times
      BY DEF RecordReading, NotFuture, Evaluates, ThermalInv, ThermalTypeOK
    <2> QED
      BY <1>2, <2>1, <2>2, <2>3, <2>4 DEF ThermalTypeOK
  <1>6. CASE Validity(t, verdict) = "VALID"
    <2>0. excursions' = Evaluated(d, t, temp)
      BY <1>6 DEF RecordReading, NotFuture, Evaluates
    <2>1. OneActiveExcursion'
      BY <2>0, EvaluatedKeepsOne DEF OneActiveExcursion, ThermalInv
    <2>2. AlarmFollowsSensor'
      <3> SUFFICES ASSUME NEW i \in 1..n, LastValid(i)'
                   PROVE  Shows(readings[i].device, readings[i].temp)'
        BY <1>2 DEF AlarmFollowsSensor
      <3>1. CASE i = n
        <4>1. readings'[i].device = d /\ readings'[i].temp = temp
          BY <1>2, <1>3, <3>1
        <4> QED
          BY <2>0, <4>1, AlarmAfter
          DEF ThermalInv, Shows, Breaches, Direction, IsBelow, IsAbove
      <3>2. CASE i # n
        <4>1. i \in 1..Len(readings) /\ readings'[i] = readings[i]
          BY <1>2, <1>4, <3>2
        <4>2. readings[i].device # d
          <5>1. n \in (i + 1)..n
            BY <1>2, <4>1 DEF n
          <5> QED
            BY <1>2, <1>3, <1>6, <4>1, <5>1 DEF LastValid
        <4>3. LastValid(i)
          <5>1. \A j \in (i + 1)..Len(readings) : j \in (i + 1)..n /\ j \in 1..Len(readings)
            BY <1>1, <4>1 DEF n
          <5> QED
            BY <1>2, <4>1, <5>1 DEF LastValid
        <4>4. \A y : y.device = readings[i].device => (y \in excursions' <=> y \in excursions)
          BY <2>0, <4>2, OthersAfter DEF ThermalInv
        <4>5. Shows(readings[i].device, readings[i].temp)
          BY <4>1, <4>3 DEF ThermalInv, AlarmFollowsSensor
        <4> QED
          BY <4>1, <4>4, <4>5 DEF Shows, Breaches, Direction, IsBelow, IsAbove
      <3> QED
        BY <3>1, <3>2
    <2>3. BreachesAreRecorded'
      <3> SUFFICES ASSUME NEW i \in 1..n, readings'[i].validity = "VALID",
                          Breaches(readings'[i].temp)
                   PROVE  \E x \in excursions' :
                            /\ x.device = readings'[i].device
                            /\ x.direction = Direction(readings'[i].temp)
                            /\ x.min <= readings'[i].temp /\ readings'[i].temp <= x.max
        BY <1>2 DEF BreachesAreRecorded, Breaches, Direction, IsBelow, IsAbove
      <3>1. CASE i = n
        BY <1>2, <1>3, <2>0, <3>1, CoversReading DEF ThermalInv
      <3>2. CASE i # n
        <4>1. i \in 1..Len(readings) /\ readings'[i] = readings[i]
          BY <1>2, <1>4, <3>2
        <4>2. PICK x \in excursions :
                /\ x.device = readings[i].device
                /\ x.direction = Direction(readings[i].temp)
                /\ x.min <= readings[i].temp /\ readings[i].temp <= x.max
          BY <4>1 DEF ThermalInv, BreachesAreRecorded
        <4>3. PICK y \in Evaluated(d, t, temp) :
                /\ y.device = x.device /\ y.direction = x.direction
                /\ y.min <= x.min /\ x.max <= y.max
          BY CoverStays DEF ThermalInv
        <4>4. {x.min, x.max, y.min, y.max, readings[i].temp} \subseteq Int
          <5>1. x \in Excursion /\ y \in Excursion /\ readings[i] \in Reading
            BY <4>1, EvaluatedTyped DEF ThermalInv, ThermalTypeOK
          <5> QED
            BY <5>1, ThermalAssumption DEF Excursion, Reading
        <4> QED
          BY <2>0, <4>1, <4>2, <4>3, <4>4
      <3> QED
        BY <3>1, <3>2
    <2> QED
      BY <1>5, <2>1, <2>2, <2>3 DEF ThermalInv
  <1>7. CASE Validity(t, verdict) # "VALID"
    <2>0. excursions' = excursions
      BY <1>7 DEF RecordReading, NotFuture, Evaluates
    <2>1. OneActiveExcursion'
      BY <2>0 DEF ThermalInv, OneActiveExcursion
    <2>2. AlarmFollowsSensor'
      <3> SUFFICES ASSUME NEW i \in 1..n, LastValid(i)'
                   PROVE  Shows(readings[i].device, readings[i].temp)'
        BY <1>2 DEF AlarmFollowsSensor
      <3>1. i # n
        BY <1>2, <1>3, <1>7 DEF LastValid
      <3>2. i \in 1..Len(readings) /\ readings'[i] = readings[i]
        BY <1>2, <1>4, <3>1
      <3>3. LastValid(i)
        <4>1. \A j \in (i + 1)..Len(readings) : j \in (i + 1)..n /\ j \in 1..Len(readings)
          BY <1>1, <3>2 DEF n
        <4> QED
          BY <1>2, <3>2, <4>1 DEF LastValid
      <3>4. Shows(readings[i].device, readings[i].temp)
        BY <3>2, <3>3 DEF ThermalInv, AlarmFollowsSensor
      <3> QED
        BY <2>0, <3>2, <3>4 DEF Shows, Breaches, Direction, IsBelow, IsAbove
    <2>3. BreachesAreRecorded'
      <3>1. \A i \in 1..n : readings'[i].validity = "VALID" =>
              i \in 1..Len(readings) /\ readings'[i] = readings[i]
        BY <1>2, <1>3, <1>4, <1>7
      <3> QED
        BY <1>2, <2>0, <3>1
        DEF ThermalInv, BreachesAreRecorded, Breaches, Direction, IsBelow, IsAbove
    <2> QED
      BY <1>5, <2>1, <2>2, <2>3 DEF ThermalInv
  <1> QED
    BY <1>6, <1>7

(* The clock and stuttering keep the invariant. *)
LEMMA TickKeeps ==
  ASSUME ThermalInv, Tick \/ UNCHANGED vars
  PROVE  ThermalInv'
  <1>1. UNCHANGED <<readings, excursions>> /\ now' \in Times /\ now <= now' /\ now \in Int
    BY ThermalAssumption DEF ThermalInv, ThermalTypeOK, Tick, vars, Times
  <1>2. ThermalTypeOK'
    <2>1. \A i \in 1..Len(readings) : readings[i].time \in Int
      <3>1. \A i \in 1..Len(readings) : readings[i] \in Reading
        BY DEF ThermalInv, ThermalTypeOK
      <3> QED
        BY <3>1 DEF Reading, Times
    <2> QED
      BY <1>1, <2>1 DEF ThermalInv, ThermalTypeOK
  <1> QED
    BY <1>1, <1>2 DEF ThermalInv, OneActiveExcursion, AlarmFollowsSensor, BreachesAreRecorded,
       LastValid, Shows, Breaches, Direction, IsBelow, IsAbove

(* The inductive invariant holds. *)
THEOREM ThermalInvHolds == Spec => []ThermalInv
  <1>1. Init => ThermalInv
    BY ThermalAssumption DEF Init, ThermalInv, ThermalTypeOK, OneActiveExcursion,
       AlarmFollowsSensor, BreachesAreRecorded, Times
  <1>2. ThermalInv /\ [Next]_vars => ThermalInv'
    <2> SUFFICES ASSUME ThermalInv, [Next]_vars
                 PROVE  ThermalInv'
      OBVIOUS
    <2>1. CASE Tick \/ UNCHANGED vars
      BY <2>1, TickKeeps
    <2>2. ASSUME NEW d \in Devices, NEW t \in Times, NEW id \in Ids \cup {NoId},
                 RepeatReading(d, t, id)
          PROVE  ThermalInv'
      BY <2>2, TickKeeps DEF RepeatReading
    <2>3. ASSUME NEW d \in Devices, NEW t \in Times, NEW id \in Ids \cup {NoId},
                 NEW temp \in Temps, NEW verdict \in {"VALID", "SUSPECT"},
                 RecordReading(d, t, temp, verdict, id)
          PROVE  ThermalInv'
      BY <2>3, RecordKeeps
    <2> QED
      BY <2>1, <2>2, <2>3 DEF Next
  <1> QED
    BY <1>1, <1>2, PTL DEF Spec

(* Readings and excursions are well typed, and no reading is from the     *)
(* future. *)
THEOREM TypeCorrect == Spec => []ThermalTypeOK
  BY ThermalInvHolds, PTL DEF ThermalInv

(* A sensor never has two open excursions (record_thermal_reading).        *)
THEOREM AlarmsAreSingle == Spec => []OneActiveExcursion
  BY ThermalInvHolds, PTL DEF ThermalInv

(* A sensor's alarm shows its last valid reading, whatever was delivered   *)
(* late, repeated, stale or suspect.                                       *)
THEOREM AlarmsFollowSensors == Spec => []AlarmFollowsSensor
  BY ThermalInvHolds, PTL DEF ThermalInv

(* No breach is lost from the excursions. *)
THEOREM BreachesStayRecorded == Spec => []BreachesAreRecorded
  BY ThermalInvHolds, PTL DEF ThermalInv
==============================================================================
