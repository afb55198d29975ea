-------------------------- MODULE Marketplace_proofs -------------------------
(* The award of an offer, for any number of candidates, interests,         *)
(* selections and requests.                                                *)
EXTENDS Marketplace, TLAPS

(* What the services preserve together: one active selection, the interest *)
(* it stands on, and the operation of a confirmed one.                     *)
MarketInv ==
  /\ TypeOK
  /\ OneActiveSelection
  /\ SelectedIsBacked
  /\ OperationsAreConfirmed

(* Cancelling, declining and expiring a selection keep the invariant: the  *)
(* interest loses the only active selection it had.                        *)
LEMMA EndPendingKeeps ==
  ASSUME MarketInv, NEW s \in Selections,
         NEW status \in {"CANCELLED", "DECLINED", "EXPIRED"},
         NEW left \in {"ACTIVE", "CANCELLED"},
         EndPending(s, status, left)
  PROVE  MarketInv'
<1> USE DEF MarketInv, EndPending
<1>1. /\ selection' = [selection EXCEPT ![s] = status]
      /\ interest' = [interest EXCEPT ![chosen[s]] = left]
      /\ UNCHANGED <<offer, expired, chosen, overdue, operations, copy, asking>>
  BY DEF requests
<1>2. TypeOK'
  BY <1>1 DEF TypeOK, SelectionStatus, InterestStatus, OfferStatus
<1>3. \A t \in Selections :
        IsActive(t)' <=> t # s /\ IsActive(t)
  BY <1>1 DEF TypeOK, IsActive, ActiveStatus
<1>4. OneActiveSelection'
  BY <1>3 DEF OneActiveSelection
<1>5. SelectedIsBacked'
  <2> SUFFICES ASSUME NEW i \in Interests
               PROVE  interest'[i] = "SELECTED" <=>
                        \E t \in Selections : chosen'[t] = i /\ IsActive(t)'
    BY DEF SelectedIsBacked
  <2>1. IsActive(s)
    BY DEF IsActive, ActiveStatus
  <2>2. CASE i = chosen[s]
    <3>1. interest'[i] # "SELECTED"
      BY <1>1, <2>2 DEF TypeOK
    <3>2. ASSUME NEW t \in Selections, chosen'[t] = i, IsActive(t)'
          PROVE  FALSE
      BY <1>3, <2>1, <3>2 DEF OneActiveSelection
    <3> QED BY <3>1, <3>2
  <2>3. CASE i # chosen[s]
    <3>1. interest'[i] = interest[i]
      BY <1>1, <2>3 DEF TypeOK
    <3>2. \A t \in Selections : chosen'[t] = i /\ IsActive(t)' <=> chosen[t] = i /\ IsActive(t)
      BY <1>1, <1>3, <2>3
    <3> QED BY <3>1, <3>2 DEF SelectedIsBacked
  <2> QED BY <2>2, <2>3
<1>6. OperationsAreConfirmed'
  BY <1>1 DEF TypeOK, OperationsAreConfirmed
<1> QED BY <1>2, <1>4, <1>5, <1>6

(* The steps of requests do not touch a selection, and touch an interest   *)
(* only to insert an ACTIVE one.                                           *)
LEMMA RequestStepKeeps ==
  ASSUME MarketInv, NEW r \in Requests, RequestStep(r)
  PROVE  MarketInv'
<1> USE DEF MarketInv
<1>1. UNCHANGED <<selection, chosen, overdue, operations>>
  BY DEF RequestStep, LoadOffer, DropOffer, MarkReady, Publish, Pause, Resume, CancelOffer,
         ExpireOffer, TransitionOffer, CheckInterest, InsertInterest, rows
<1>2. TypeOK'
  <2>1. CASE LoadOffer(r)
    BY <2>1 DEF LoadOffer, TypeOK, rows
  <2>2. CASE DropOffer(r)
    BY <2>2 DEF DropOffer, TypeOK, rows
  <2>3. ASSUME NEW target \in OfferStatus, TransitionOffer(r, target)
        PROVE  TypeOK'
    BY <2>3 DEF TransitionOffer, TypeOK, rows
  <2>4. CASE \E c \in Candidates : CheckInterest(r, c)
    BY <2>4 DEF CheckInterest, TypeOK, rows
  <2>5. CASE \E i \in Interests : InsertInterest(r, i)
    BY <2>5 DEF InsertInterest, TypeOK, InterestStatus
  <2> QED
    BY <2>1, <2>2, <2>3, <2>4, <2>5
       DEF RequestStep, MarkReady, Publish, Pause, Resume, CancelOffer, ExpireOffer, OfferStatus
<1>3. \A i \in Interests : interest'[i] = "SELECTED" <=> interest[i] = "SELECTED"
  <2>1. CASE \E i \in Interests : InsertInterest(r, i)
    BY <2>1 DEF InsertInterest, TypeOK
  <2>2. CASE UNCHANGED interest
    BY <2>2
  <2> QED
    BY <2>1, <2>2 DEF RequestStep, LoadOffer, DropOffer, MarkReady, Publish, Pause, Resume,
         CancelOffer, ExpireOffer, TransitionOffer, CheckInterest, rows
<1>4. \A s \in Selections : IsActive(s)' <=> IsActive(s)
  BY <1>1 DEF IsActive
<1> QED
  BY <1>1, <1>2, <1>3, <1>4 DEF OneActiveSelection, SelectedIsBacked, OperationsAreConfirmed

(* Selecting a candidate keeps the invariant: no other selection is active. *)
LEMMA SelectKeeps ==
  ASSUME MarketInv, NEW i \in Interests, NEW s \in Selections, SelectCandidate(i, s)
  PROVE  MarketInv'
<1> USE DEF MarketInv
<1>1. TypeOK'
  BY DEF SelectCandidate, TypeOK, requests, SelectionStatus, InterestStatus
<1>2. \A t \in Selections : IsActive(t)' <=> t = s
  BY DEF SelectCandidate, NoActiveSelection, IsActive, ActiveStatus, TypeOK
<1>3. OneActiveSelection'
  BY <1>2 DEF OneActiveSelection
<1>4. chosen'[s] = i
  BY DEF SelectCandidate, TypeOK
<1>5. \A j \in Interests : interest'[j] = "SELECTED" <=> j = i
  BY DEF SelectCandidate, NoActiveSelection, SelectedIsBacked, TypeOK
<1>6. SelectedIsBacked'
  BY <1>2, <1>4, <1>5 DEF SelectedIsBacked
<1>7. OperationsAreConfirmed'
  BY DEF SelectCandidate, TypeOK, OperationsAreConfirmed
<1> QED BY <1>1, <1>3, <1>6, <1>7

(* Confirming keeps the invariant: the operation comes with the status.    *)
LEMMA ConfirmKeeps ==
  ASSUME MarketInv, NEW s \in Selections, ConfirmSelection(s)
  PROVE  MarketInv'
<1> USE DEF MarketInv
<1>1. TypeOK'
  BY DEF ConfirmSelection, TypeOK, requests, SelectionStatus, InterestStatus, OfferStatus
<1>2. \A t \in Selections : IsActive(t)' <=> IsActive(t)
  BY DEF ConfirmSelection, IsActive, ActiveStatus, TypeOK
<1>3. OneActiveSelection'
  BY <1>2 DEF OneActiveSelection
<1>4. interest[chosen[s]] = "SELECTED" /\ chosen' = chosen /\ chosen[s] \in Interests
  BY DEF ConfirmSelection, SelectedIsBacked, IsActive, ActiveStatus, TypeOK
<1>5. \A j \in Interests : interest'[j] = "SELECTED" <=> interest[j] = "SELECTED"
  BY <1>4 DEF ConfirmSelection, TypeOK
<1>6. SelectedIsBacked'
  BY <1>2, <1>4, <1>5 DEF SelectedIsBacked
<1>7. OperationsAreConfirmed'
  BY DEF ConfirmSelection, TypeOK, OperationsAreConfirmed
<1> QED BY <1>1, <1>3, <1>6, <1>7

(* Every step of the marketplace keeps the invariant. *)
LEMMA MarketStep == MarketInv /\ [Next]_vars => MarketInv'
<1> SUFFICES ASSUME MarketInv, [Next]_vars PROVE MarketInv'
  OBVIOUS
<1> USE DEF MarketInv
<1>1. CASE OfferValidityPasses
  BY <1>1 DEF OfferValidityPasses, rows, requests, TypeOK, OneActiveSelection,
              SelectedIsBacked, OperationsAreConfirmed, IsActive
<1>2. CASE \E r \in Requests : RequestStep(r)
  BY <1>2, RequestStepKeeps
<1>3. ASSUME NEW i \in Interests, WithdrawInterest(i)
      PROVE  MarketInv'
  <2>1. TypeOK'
    BY <1>3 DEF WithdrawInterest, TypeOK, requests, InterestStatus
  <2>2. \A j \in Interests : interest'[j] = "SELECTED" <=> interest[j] = "SELECTED"
    BY <1>3 DEF WithdrawInterest, TypeOK
  <2>3. \A s \in Selections : IsActive(s)' <=> IsActive(s)
    BY <1>3 DEF WithdrawInterest, IsActive
  <2> QED
    BY <1>3, <2>1, <2>2, <2>3
       DEF WithdrawInterest, OneActiveSelection, SelectedIsBacked, OperationsAreConfirmed
<1>4. CASE \E i \in Interests, s \in Selections : SelectCandidate(i, s)
  BY <1>4, SelectKeeps
<1>5. ASSUME NEW s \in Selections, SelectionStep(s)
      PROVE  MarketInv'
  <2>1. CASE SelectionValidityPasses(s)
    BY <2>1 DEF SelectionValidityPasses, requests, TypeOK, OneActiveSelection,
                SelectedIsBacked, OperationsAreConfirmed, IsActive
  <2>2. CASE CancelSelection(s)
    BY <2>2, EndPendingKeeps DEF CancelSelection
  <2>3. CASE DeclineSelection(s)
    BY <2>3, EndPendingKeeps DEF DeclineSelection
  <2>4. CASE ExpireSelection(s)
    BY <2>4, EndPendingKeeps DEF ExpireSelection
  <2>5. CASE ConfirmSelection(s)
    BY <2>5, ConfirmKeeps
  <2>6. CASE ConfirmAgain(s)
    BY <2>6 DEF ConfirmAgain, requests, TypeOK, OneActiveSelection,
                SelectedIsBacked, OperationsAreConfirmed, IsActive
  <2> QED BY <1>5, <2>1, <2>2, <2>3, <2>4, <2>5, <2>6 DEF SelectionStep
<1>6. CASE UNCHANGED vars
  BY <1>6 DEF vars, TypeOK, OneActiveSelection, SelectedIsBacked, OperationsAreConfirmed,
              IsActive
<1> QED BY <1>1, <1>2, <1>3, <1>4, <1>5, <1>6 DEF Next

(* The invariant holds of every reachable state. *)
THEOREM MarketInvHolds == Spec => []MarketInv
<1>1. Init => MarketInv
  <2> SUFFICES ASSUME Init PROVE MarketInv
    OBVIOUS
  <2>1. chosen \in [Selections -> Interests]
    <3>1. (CHOOSE i \in Interests : TRUE) \in Interests
      BY CandidatesAssumption
    <3> QED BY <3>1 DEF Init
  <2>2. TypeOK
    BY <2>1 DEF Init, TypeOK, OfferStatus, InterestStatus, SelectionStatus
  <2>3. \A s \in Selections : selection[s] = "NONE" /\ ~IsActive(s)
    BY DEF Init, IsActive, ActiveStatus
  <2>4. \A i \in Interests : interest[i] = "NONE"
    BY DEF Init
  <2>5. operations = {}
    BY DEF Init
  <2> QED
    BY <2>2, <2>3, <2>4, <2>5
       DEF MarketInv, OneActiveSelection, SelectedIsBacked, OperationsAreConfirmed
<1> QED BY <1>1, MarketStep, PTL DEF Spec

(* Every row and every copy of a request is well typed. *)
THEOREM TypeCorrect == Spec => []TypeOK
<1>1. MarketInv => TypeOK
  BY DEF MarketInv
<1> QED BY <1>1, MarketInvHolds, PTL

(* At most one selection of the offer is pending or confirmed, for any     *)
(* number of requests that hold stale copies of the offer.                 *)
THEOREM SelectionsAreExclusive == Spec => []OneActiveSelection
<1>1. MarketInv => OneActiveSelection
  BY DEF MarketInv
<1> QED BY <1>1, MarketInvHolds, PTL

(* An interest is SELECTED exactly while an active selection stands on it. *)
THEOREM InterestsFollowSelections == Spec => []SelectedIsBacked
<1>1. MarketInv => SelectedIsBacked
  BY DEF MarketInv
<1> QED BY <1>1, MarketInvHolds, PTL

(* A selection is confirmed exactly when it has its operation. *)
THEOREM OperationsFollowConfirmation == Spec => []OperationsAreConfirmed
<1>1. MarketInv => OperationsAreConfirmed
  BY DEF MarketInv
<1> QED BY <1>1, MarketInvHolds, PTL

(* The first operation of an offer is its last. *)
THEOREM AwardStays == Spec => AwardIsFinal
<1>1. MarketInv /\ [Next]_vars => [operations # {} => operations' = operations]_vars
  <2> SUFFICES ASSUME MarketInv, Next, NEW w \in operations
               PROVE  operations' = operations
    BY DEF vars
  <2>1. w \in Selections /\ selection[w] = "CONFIRMED"
    BY DEF MarketInv, TypeOK, OperationsAreConfirmed
  <2>2. ASSUME NEW s \in Selections, ConfirmSelection(s)
        PROVE  FALSE
    BY <2>1, <2>2
       DEF ConfirmSelection, MarketInv, OneActiveSelection, IsActive, ActiveStatus
  <2>3. ASSUME NEW s \in Selections, ConfirmAgain(s)
        PROVE  operations' = operations
    BY <2>3 DEF ConfirmAgain, MarketInv, OperationsAreConfirmed
  <2> QED
    BY <2>2, <2>3
       DEF Next, OfferValidityPasses, RequestStep, LoadOffer, DropOffer, MarkReady, Publish,
           Pause, Resume, CancelOffer, ExpireOffer, TransitionOffer, CheckInterest,
           InsertInterest, WithdrawInterest, SelectCandidate, SelectionStep,
           SelectionValidityPasses, CancelSelection, DeclineSelection, ExpireSelection,
           EndPending, rows
<1> QED BY <1>1, MarketInvHolds, PTL DEF Spec, AwardIsFinal

(* An interest that was withdrawn, cancelled or passed over never returns. *)
THEOREM SettledInterestsRemain == Spec => SettledInterestsStay
<1> DEFINE Settled(i) == interest[i] \in {"WITHDRAWN", "NOT_SELECTED", "CANCELLED"}
           Stay == \A i \in Interests : Settled(i) => interest'[i] = interest[i]
<1>1. MarketInv /\ [Next]_vars => [Stay]_vars
  <2> SUFFICES ASSUME MarketInv, Next, NEW i \in Interests, Settled(i)
               PROVE  interest'[i] = interest[i]
    OBVIOUS
  <2> USE DEF MarketInv, TypeOK
  <2>1. ASSUME NEW s \in Selections, selection[s] = "PENDING_CONFIRMATION"
        PROVE  chosen[s] # i
    BY <2>1 DEF SelectedIsBacked, IsActive, ActiveStatus
  <2>2. CASE OfferValidityPasses
    BY <2>2 DEF OfferValidityPasses, rows
  <2>3. ASSUME NEW r \in Requests, RequestStep(r)
        PROVE  interest'[i] = interest[i]
    BY <2>3 DEF RequestStep, LoadOffer, DropOffer, MarkReady, Publish, Pause, Resume,
                CancelOffer, ExpireOffer, TransitionOffer, CheckInterest, InsertInterest, rows
  <2>4. ASSUME NEW j \in Interests, WithdrawInterest(j)
        PROVE  interest'[i] = interest[i]
    BY <2>4 DEF WithdrawInterest
  <2>5. ASSUME NEW j \in Interests, NEW s \in Selections, SelectCandidate(j, s)
        PROVE  interest'[i] = interest[i]
    BY <2>5 DEF SelectCandidate
  <2>6. ASSUME NEW s \in Selections, SelectionStep(s)
        PROVE  interest'[i] = interest[i]
    BY <2>1, <2>6 DEF SelectionStep, SelectionValidityPasses, CancelSelection, DeclineSelection,
                      ExpireSelection, EndPending, ConfirmSelection, ConfirmAgain
  <2> QED BY <2>2, <2>3, <2>4, <2>5, <2>6 DEF Next
<1> QED BY <1>1, MarketInvHolds, PTL DEF Spec, SettledInterestsStay
==============================================================================
