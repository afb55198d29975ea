----------------------- MODULE ContractedRoutes_proofs -----------------------
(* The scheduler of contracted routes, for any number of routes, days and  *)
(* overlapping runs, and any limit.                                        *)
EXTENDS ContractedRoutes, TLAPS

(* What the occurrence rows alone guarantee; the memory of the runs plays  *)
(* no part, which is why a stale one does no harm.                         *)
RowsInv ==
  /\ occurrence \in [Occurrences -> {"NONE", "PLANNED", "MATERIALIZED", "CANCELLED"}]
  /\ operations \in [Occurrences -> Nat]
  /\ OneOperationEach

(* A step either leaves the rows alone, plans an occurrence that did not   *)
(* exist, materialises a planned one, or cancels a planned one.            *)
LEMMA RowsChange ==
  ASSUME RowsInv, Next
  PROVE  \/ UNCHANGED <<occurrence, operations>>
         \/ \E o \in Occurrences :
              /\ occurrence[o] = "NONE"
              /\ occurrence' = [occurrence EXCEPT ![o] = "PLANNED"]
              /\ operations' = operations
         \/ \E o \in Occurrences :
              /\ occurrence[o] = "PLANNED"
              /\ occurrence' = [occurrence EXCEPT ![o] = "MATERIALIZED"]
              /\ operations' = [operations EXCEPT ![o] = @ + 1]
         \/ \E o \in Occurrences :
              /\ occurrence[o] = "PLANNED"
              /\ occurrence' = [occurrence EXCEPT ![o] = "CANCELLED"]
              /\ operations' = operations
<1>1. CASE \E p \in Runners : StartRun(p) \/ QueryDue(p) \/ FinishRun(p) \/ RunDies(p)
  BY <1>1 DEF StartRun, QueryDue, FinishRun, RunDies
<1>2. ASSUME NEW p \in Runners, NEW o \in Occurrences, PlanOccurrence(p, o)
      PROVE  \/ UNCHANGED <<occurrence, operations>>
             \/ /\ occurrence[o] = "NONE"
                /\ occurrence' = [occurrence EXCEPT ![o] = "PLANNED"]
                /\ operations' = operations
  <2>1. CASE occurrence[o] = "NONE" /\ RouteOf(o) \in active
    BY <1>2, <2>1 DEF PlanOccurrence
  <2>2. CASE ~(occurrence[o] = "NONE" /\ RouteOf(o) \in active)
    <3>1. occurrence' = [occurrence EXCEPT ![o] = occurrence[o]]
      BY <1>2, <2>2 DEF PlanOccurrence
    <3>2. occurrence' = occurrence
      BY <3>1 DEF RowsInv
    <3> QED BY <1>2, <3>2 DEF PlanOccurrence
  <2> QED BY <2>1, <2>2
<1>3. ASSUME NEW p \in Runners, NEW o \in Occurrences, MaterializeOccurrence(p, o)
      PROVE  \/ UNCHANGED <<occurrence, operations>>
             \/ /\ occurrence[o] = "PLANNED"
                /\ occurrence' = [occurrence EXCEPT ![o] = "MATERIALIZED"]
                /\ operations' = [operations EXCEPT ![o] = @ + 1]
  BY <1>3 DEF MaterializeOccurrence, Materializes
<1>4. CASE NextDay \/ \E r \in Routes : PauseOrResume(r)
  BY <1>4 DEF NextDay, PauseOrResume
<1>5. CASE \E o \in Occurrences : CancelOccurrence(o)
  BY <1>5 DEF CancelOccurrence
<1> QED BY <1>1, <1>2, <1>3, <1>4, <1>5 DEF Next, RunStep

(* Each of these changes keeps the rows' invariant. *)
LEMMA RowsStep == RowsInv /\ [Next]_vars => RowsInv'
<1> SUFFICES ASSUME RowsInv, [Next]_vars PROVE RowsInv'
  OBVIOUS
<1>1. CASE Next
  BY <1>1, RowsChange DEF RowsInv, OneOperationEach
<1>2. CASE UNCHANGED vars
  BY <1>2 DEF vars, RowsInv, OneOperationEach
<1> QED BY <1>1, <1>2

(* The rows' invariant holds in every reachable state. *)
LEMMA RowsInvHolds == Spec => []RowsInv
<1>1. Init => RowsInv
  BY DEF Init, RowsInv, OneOperationEach
<1> QED BY <1>1, RowsStep, PTL DEF Spec

(* However many runs overlap and die, a materialised occurrence has        *)
(* exactly one operation and any other has none.                           *)
THEOREM OneOperationPerOccurrence == Spec => []OneOperationEach
<1>1. RowsInv => OneOperationEach
  BY DEF RowsInv
<1> QED BY <1>1, RowsInvHolds, PTL

(* A materialised or cancelled occurrence never changes again. *)
THEOREM SettledOccurrencesRemain == Spec => SettledOccurrencesStay
<1> DEFINE Stay == \A o \in Occurrences :
                     occurrence[o] \in {"MATERIALIZED", "CANCELLED"} =>
                       occurrence'[o] = occurrence[o]
<1>1. RowsInv /\ [Next]_vars => [Stay]_vars
  <2> SUFFICES ASSUME RowsInv, Next PROVE Stay
    OBVIOUS
  <2> QED BY RowsChange DEF RowsInv
<1> QED BY <1>1, RowsInvHolds, PTL DEF Spec, SettledOccurrencesStay
------------------------------------------------------------------------------
(* Types. *)

LEMMA RunTypes == ASSUME TypeOK, NEW p \in Runners
                  PROVE  /\ run[p].todo \subseteq Occurrences
                         /\ run[p].day \in Nat /\ run[p].listed \in Nat /\ run[p].made \in Nat
  BY DEF TypeOK

LEMMA TypeStep == TypeOK /\ [Next]_vars => TypeOK'
<1> SUFFICES ASSUME TypeOK, [Next]_vars PROVE TypeOK'
  OBVIOUS
<1> USE RoutesAssumption
<1> DEFINE Run == [pc : {"idle", "plan", "make"}, day : Nat,
                   todo : SUBSET Occurrences, listed : Nat, made : Nat]
<1>1. Idle \in Run
  BY DEF Idle
<1>2. ASSUME NEW p \in Runners, NEW r \in Run, run' = [run EXCEPT ![p] = r]
      PROVE  run' \in [Runners -> Run]
  BY <1>2 DEF TypeOK
<1>3. ASSUME NEW p \in Runners, StartRun(p) PROVE TypeOK'
  <2>1. today \in Nat /\ OperatesOn \subseteq Occurrences
    BY DEF TypeOK
  <2>2. [Idle EXCEPT !.pc = "plan", !.day = today,
           !.todo = {o \in OperatesOn : DayOf(o) = today /\ RouteOf(o) \in active}] \in Run
    BY <2>1 DEF Idle
  <2> QED BY <1>3, <1>2, <2>2 DEF StartRun, TypeOK
<1>4. ASSUME NEW p \in Runners, QueryDue(p) PROVE TypeOK'
  <2>1. Due(run[p].day) \in SUBSET Occurrences
    BY DEF Due
  <2>2. run' = [run EXCEPT ![p] = [run[p] EXCEPT !.pc = "make", !.todo = Due(run[p].day)]]
    BY <1>4 DEF QueryDue, TypeOK
  <2>3. [run[p] EXCEPT !.pc = "make", !.todo = Due(run[p].day)] \in Run
    BY <2>1 DEF TypeOK
  <2> QED BY <1>4, <1>2, <2>2, <2>3 DEF QueryDue, TypeOK
<1>5. ASSUME NEW p \in Runners, FinishRun(p) PROVE TypeOK'
  BY <1>5, <1>1 DEF FinishRun, TypeOK
<1>6. ASSUME NEW p \in Runners, RunDies(p) PROVE TypeOK'
  BY <1>6, <1>1 DEF RunDies, TypeOK
<1>7. ASSUME NEW p \in Runners, NEW o \in Occurrences, PlanOccurrence(p, o) PROVE TypeOK'
  <2> DEFINE creates == occurrence[o] = "NONE" /\ RouteOf(o) \in active
             listed == IF creates \/ occurrence[o] # "NONE" THEN run[p].listed + 1 ELSE run[p].listed
  <2>1. occurrence' \in [Occurrences -> {"NONE", "PLANNED", "MATERIALIZED", "CANCELLED"}]
    BY <1>7 DEF PlanOccurrence, TypeOK
  <2>2. run' = [run EXCEPT ![p] = [run[p] EXCEPT !.todo = run[p].todo \ {o}, !.listed = listed]]
    BY <1>7 DEF PlanOccurrence, TypeOK
  <2>3. [run[p] EXCEPT !.todo = run[p].todo \ {o}, !.listed = listed] \in Run
    <3>1. run[p] \in Run
      BY DEF TypeOK
    <3>2. listed \in Nat /\ run[p].todo \ {o} \in SUBSET Occurrences
      BY RunTypes
    <3> HIDE DEF listed
    <3> QED BY <3>1, <3>2
  <2> QED BY <1>7, <1>2, <2>1, <2>2, <2>3 DEF PlanOccurrence, TypeOK
<1>8. ASSUME NEW p \in Runners, NEW o \in Occurrences, MaterializeOccurrence(p, o) PROVE TypeOK'
  BY <1>8, RunTypes DEF MaterializeOccurrence, TypeOK
<1>9. CASE NextDay \/ \E r \in Routes : PauseOrResume(r)
  BY <1>9 DEF NextDay, PauseOrResume, TypeOK
<1>10. CASE \E o \in Occurrences : CancelOccurrence(o)
  BY <1>10 DEF CancelOccurrence, TypeOK
<1>11. CASE UNCHANGED vars
  BY <1>11 DEF vars, TypeOK
<1> QED BY <1>3, <1>4, <1>5, <1>6, <1>7, <1>8, <1>9, <1>10, <1>11 DEF Next, RunStep

(* Rows and the memory of every run are well typed. *)
THEOREM TypeCorrect == Spec => []TypeOK
<1>1. Init => TypeOK
  BY RoutesAssumption DEF Init, TypeOK, Idle
<1> QED BY <1>1, TypeStep, PTL DEF Spec
==============================================================================
