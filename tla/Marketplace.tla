----------------------------- MODULE Marketplace -----------------------------
(***************************************************************************)
(* One freight offer and its marketplace: the back-office users who move   *)
(* the offer through its statuses, the candidates who express and withdraw *)
(* interest, the dispatcher who selects one of them, and the confirmation  *)
(* that closes the offer and materialises the operation                    *)
(* (freights/application/offer_services.py, marketplace_services.py).      *)
(*                                                                         *)
(* Selecting, cancelling, declining and confirming lock the rows they      *)
(* decide on, so each is one step.  The offer services and the expression  *)
(* of interest do not: they decide on the offer object that the view       *)
(* loaded, and write later.  A request therefore first loads a copy of the *)
(* offer's status (LoadOffer), then acts on that copy.                     *)
(*                                                                         *)
(* A candidate's eligibility may change at any time; a refusal on account  *)
(* of it changes nothing and is the absence of the step.                   *)
(***************************************************************************)
EXTENDS Naturals, FiniteSets

CONSTANTS
  Candidates,   \* combinations of carrier, driver and vehicle
  Shape,        \* the columns a candidate fills: "carrier", "driver", "full"
  Interests,    \* rows of FreightOfferInterest
  CandidateOf,  \* the candidate of an interest row
  Selections,   \* rows of FreightOfferSelection
  Requests,     \* HTTP requests that hold a loaded offer
  NoCandidate   \* a request that expresses no interest

ASSUME CandidatesAssumption ==
  /\ Shape \in [Candidates -> {"carrier", "driver", "full"}]
  /\ CandidateOf \in [Interests -> Candidates]
  /\ NoCandidate \notin Candidates
  /\ Interests # {}

VARIABLES
  offer,       \* status of the offer's row
  expired,     \* expires_at has passed
  interest,    \* status of every interest row, "NONE" before it exists
  selection,   \* status of every selection row, "NONE" before it exists
  chosen,      \* the interest a selection row is for
  overdue,     \* selections whose confirmation_expires_at has passed
  operations,  \* selections that have a FreightOperation
  copy,        \* the offer status a request has loaded, "NONE" without one
  asking       \* the candidate a request is about to insert an interest for

rows == <<interest, selection, chosen, overdue, operations>>
requests == <<copy, asking>>
vars == <<offer, expired, interest, selection, chosen, overdue, operations, copy, asking>>

OfferStatus ==
  {"DRAFT", "READY", "PUBLISHED", "PAUSED", "EXPIRED", "CANCELLED", "CLOSED"}
InterestStatus ==
  {"NONE", "ACTIVE", "WITHDRAWN", "SELECTED", "NOT_SELECTED", "CANCELLED"}
SelectionStatus ==
  {"NONE", "PENDING_CONFIRMATION", "CONFIRMED", "DECLINED", "CANCELLED", "EXPIRED"}

AllowedOfferTransitions ==
  [s \in OfferStatus |->
     CASE s = "DRAFT" -> {"READY", "CANCELLED"}
       [] s = "READY" -> {"PUBLISHED", "CANCELLED"}
       [] s = "PUBLISHED" -> {"PAUSED", "CANCELLED", "EXPIRED", "CLOSED"}
       [] s = "PAUSED" -> {"PUBLISHED", "CANCELLED", "CLOSED"}
       [] OTHER -> {}]

CanTransitionOffer(current, target) == target \in AllowedOfferTransitions[current]

(* The selections that occupy the offer: pending or confirmed. *)
ActiveStatus == {"PENDING_CONFIRMATION", "CONFIRMED"}
IsActive_PendingOnly(s) == selection[s] = "PENDING_CONFIRMATION"
IsActive(s) == selection[s] \in ActiveStatus
NoActiveSelection == \A s \in Selections : ~IsActive(s)

Wants(c) == \E i \in Interests : CandidateOf[i] = c /\ interest[i] = "ACTIVE"

(* The unique constraint on (offer, carrier, driver, vehicle) of ACTIVE    *)
(* interests binds only rows without a null column.                        *)
UniqueColumns(c) == Shape[c] = "full"
MayBecomeActive(i) ==
  UniqueColumns(CandidateOf[i]) =>
    \A j \in Interests \ {i} :
       CandidateOf[j] = CandidateOf[i] => interest[j] # "ACTIVE"
------------------------------------------------------------------------------
(* A draft with a validity in the future. *)
Init ==
  /\ offer = "DRAFT"
  /\ expired = FALSE
  /\ interest = [i \in Interests |-> "NONE"]
  /\ selection = [s \in Selections |-> "NONE"]
  /\ chosen = [s \in Selections |-> CHOOSE i \in Interests : TRUE]
  /\ overdue = {}
  /\ operations = {}
  /\ copy = [r \in Requests |-> "NONE"]
  /\ asking = [r \in Requests |-> NoCandidate]

(* The clock passes the validity of the offer, or of a selection. *)
OfferValidityPasses ==
  /\ ~expired
  /\ expired' = TRUE
  /\ UNCHANGED <<offer, rows, requests>>

SelectionValidityPasses(s) ==
  /\ selection[s] = "PENDING_CONFIRMATION"
  /\ overdue' = overdue \cup {s}
  /\ UNCHANGED <<offer, expired, interest, selection, chosen, operations, requests>>
------------------------------------------------------------------------------
(* Requests that hold a copy of the offer. *)

LoadOffer(r) ==
  /\ copy[r] = "NONE"
  /\ copy' = [copy EXCEPT ![r] = offer]
  /\ UNCHANGED <<offer, expired, rows, asking>>

(* A request gives up its copy: a refusal, or a page that is only read. *)
DropOffer(r) ==
  /\ copy[r] # "NONE"
  /\ copy' = [copy EXCEPT ![r] = "NONE"]
  /\ asking' = [asking EXCEPT ![r] = NoCandidate]
  /\ UNCHANGED <<offer, expired, rows>>

(* _transition_offer: the table is consulted on the copy, and only the     *)
(* status column is saved.                                                 *)
TransitionOffer(r, target) ==
  /\ copy[r] # "NONE"
  /\ asking[r] = NoCandidate
  /\ CanTransitionOffer(copy[r], target)
  /\ offer' = target
  /\ copy' = [copy EXCEPT ![r] = "NONE"]
  /\ UNCHANGED <<expired, rows, asking>>

MarkReady(r) == TransitionOffer(r, "READY")
Publish(r) == copy[r] = "READY" /\ ~expired /\ TransitionOffer(r, "PUBLISHED")
Pause(r) == TransitionOffer(r, "PAUSED")
Resume(r) == copy[r] = "PAUSED" /\ ~expired /\ TransitionOffer(r, "PUBLISHED")
CancelOffer(r) == TransitionOffer(r, "CANCELLED")

(* apply_offer_expiration_if_needed, by whoever reads the offer.  A paused *)
(* offer is meant to expire too, but the table refuses it.                 *)
ExpireOffer(r) ==
  /\ copy[r] \in {"PUBLISHED", "PAUSED"}
  /\ expired
  /\ TransitionOffer(r, "EXPIRED")

(* express_interest_in_offer, up to its query for an ACTIVE interest ...   *)
CheckInterest(r, c) ==
  /\ copy[r] = "PUBLISHED"
  /\ asking[r] = NoCandidate
  /\ ~expired
  /\ ~Wants(c)
  /\ asking' = [asking EXCEPT ![r] = c]
  /\ UNCHANGED <<offer, expired, rows, copy>>

(* ... and its insert.  When the unique constraint refuses the row, the    *)
(* interest found is returned and the request just ends (DropOffer).       *)
InsertInterest(r, i) ==
  /\ asking[r] = CandidateOf[i]
  /\ interest[i] = "NONE"
  /\ MayBecomeActive(i)
  /\ interest' = [interest EXCEPT ![i] = "ACTIVE"]
  /\ copy' = [copy EXCEPT ![r] = "NONE"]
  /\ asking' = [asking EXCEPT ![r] = NoCandidate]
  /\ UNCHANGED <<offer, expired, selection, chosen, overdue, operations>>
------------------------------------------------------------------------------
(* Transactions that lock the rows they decide on. *)

WithdrawInterest_Selected(i) ==
  /\ interest[i] \in {"ACTIVE", "SELECTED"}
  /\ interest' = [interest EXCEPT ![i] = "WITHDRAWN"]
  /\ UNCHANGED <<offer, expired, selection, chosen, overdue, operations, requests>>
WithdrawInterest(i) ==
  /\ interest[i] = "ACTIVE"
  /\ \A s \in Selections : chosen[s] = i => ~IsActive(s)
  /\ interest' = [interest EXCEPT ![i] = "WITHDRAWN"]
  /\ UNCHANGED <<offer, expired, selection, chosen, overdue, operations, requests>>

SelectCandidate_Unchecked(i, s) ==
  /\ offer = "PUBLISHED"
  /\ ~expired
  /\ interest[i] = "ACTIVE"
  /\ selection[s] = "NONE"
  /\ selection' = [selection EXCEPT ![s] = "PENDING_CONFIRMATION"]
  /\ chosen' = [chosen EXCEPT ![s] = i]
  /\ interest' = [interest EXCEPT ![i] = "SELECTED"]
  /\ UNCHANGED <<offer, expired, overdue, operations, requests>>
SelectCandidate(i, s) ==
  /\ offer = "PUBLISHED"
  /\ ~expired
  /\ interest[i] = "ACTIVE"
  /\ NoActiveSelection
  /\ selection[s] = "NONE"
  /\ selection' = [selection EXCEPT ![s] = "PENDING_CONFIRMATION"]
  /\ chosen' = [chosen EXCEPT ![s] = i]
  /\ interest' = [interest EXCEPT ![i] = "SELECTED"]
  /\ UNCHANGED <<offer, expired, overdue, operations, requests>>

EndPending_KeepsInterest(s, status, left) ==
  /\ selection[s] = "PENDING_CONFIRMATION"
  /\ selection' = [selection EXCEPT ![s] = status]
  /\ UNCHANGED <<offer, expired, interest, chosen, overdue, operations, requests>>

(* A pending selection ends unconfirmed, and its interest gets a status.   *)
EndPending(s, status, left) ==
  /\ selection[s] = "PENDING_CONFIRMATION"
  /\ selection' = [selection EXCEPT ![s] = status]
  /\ interest' = [interest EXCEPT ![chosen[s]] = left]
  /\ UNCHANGED <<offer, expired, chosen, overdue, operations, requests>>

CancelSelection(s) == MayBecomeActive(chosen[s]) /\ EndPending(s, "CANCELLED", "ACTIVE")
DeclineSelection(s) == EndPending(s, "DECLINED", "CANCELLED")

(* apply_selection_expiration_if_needed, by whoever opens the offer's page. *)
ExpireSelection(s) ==
  /\ s \in overdue
  /\ MayBecomeActive(chosen[s])
  /\ EndPending(s, "EXPIRED", "ACTIVE")

ConfirmSelection_OwnTransaction(s) ==
  /\ selection[s] = "PENDING_CONFIRMATION"
  /\ selection' = [selection EXCEPT ![s] = "CONFIRMED"]
  /\ interest' = [interest EXCEPT ![chosen[s]] = "SELECTED"]
  /\ offer' = "CLOSED"
  /\ UNCHANGED <<expired, chosen, overdue, operations, requests>>

(* confirm_selection.  An overdue selection is first saved as EXPIRED and  *)
(* its interest as ACTIVE, which the unique constraint may refuse; but the *)
(* result is not looked at: the object locked before is still pending, and *)
(* its save overwrites both rows.  An operation needs a carrier.           *)
ConfirmSelection(s) ==
  /\ selection[s] = "PENDING_CONFIRMATION"
  /\ s \in overdue => MayBecomeActive(chosen[s])
  /\ Shape[CandidateOf[chosen[s]]] # "driver"
  /\ selection' = [selection EXCEPT ![s] = "CONFIRMED"]
  /\ interest' = [i \in Interests |->
                    IF i = chosen[s] THEN "SELECTED"
                    ELSE IF interest[i] = "ACTIVE" THEN "NOT_SELECTED"
                    ELSE interest[i]]
  /\ offer' = "CLOSED"
  /\ operations' = operations \cup {s}
  /\ UNCHANGED <<expired, chosen, overdue, requests>>

(* Confirming again: the operation is created if it is missing. *)
ConfirmAgain(s) ==
  /\ selection[s] = "CONFIRMED"
  /\ operations' = operations \cup {s}
  /\ UNCHANGED <<offer, expired, interest, selection, chosen, overdue, requests>>
------------------------------------------------------------------------------
RequestStep(r) ==
  \/ LoadOffer(r) \/ DropOffer(r)
  \/ MarkReady(r) \/ Publish(r) \/ Pause(r) \/ Resume(r)
  \/ CancelOffer(r) \/ ExpireOffer(r)
  \/ \E c \in Candidates : CheckInterest(r, c)
  \/ \E i \in Interests : InsertInterest(r, i)

SelectionStep(s) ==
  \/ SelectionValidityPasses(s)
  \/ CancelSelection(s) \/ DeclineSelection(s) \/ ExpireSelection(s)
  \/ ConfirmSelection(s) \/ ConfirmAgain(s)

Next ==
  \/ OfferValidityPasses
  \/ \E r \in Requests : RequestStep(r)
  \/ \E i \in Interests : WithdrawInterest(i)
  \/ \E i \in Interests, s \in Selections : SelectCandidate(i, s)
  \/ \E s \in Selections : SelectionStep(s)

Spec == Init /\ [][Next]_vars
------------------------------------------------------------------------------
TypeOK ==
  /\ offer \in OfferStatus
  /\ expired \in BOOLEAN
  /\ interest \in [Interests -> InterestStatus]
  /\ selection \in [Selections -> SelectionStatus]
  /\ chosen \in [Selections -> Interests]
  /\ overdue \in SUBSET Selections
  /\ operations \in SUBSET Selections
  /\ copy \in [Requests -> OfferStatus \cup {"NONE"}]
  /\ asking \in [Requests -> Candidates \cup {NoCandidate}]

(* At most one selection occupies the offer, whatever stale copies reopen  *)
(* the offer in between: unique_active_selection_per_offer and the check   *)
(* of select_interested_candidate.                                         *)
OneActiveSelection ==
  \A s, t \in Selections : IsActive(s) /\ IsActive(t) => s = t

(* An interest is SELECTED exactly while a pending or confirmed selection  *)
(* stands on it; the two are different rows written by five services.      *)
SelectedIsBacked ==
  \A i \in Interests :
    interest[i] = "SELECTED" <=> \E s \in Selections : chosen[s] = i /\ IsActive(s)

(* An operation belongs to a confirmed selection, and a confirmed          *)
(* selection has its operation: both are written in one transaction.       *)
OperationsAreConfirmed ==
  \A s \in Selections : s \in operations <=> selection[s] = "CONFIRMED"

(* The award is made once: the first operation of the offer is the last,   *)
(* even when a stale pause and resume puts a closed offer on sale again.   *)
AwardIsFinal == [][operations # {} => operations' = operations]_vars

(* An interest that was withdrawn, cancelled or passed over never comes    *)
(* back, although cancelling or expiring a selection writes ACTIVE blindly.*)
SettledInterestsStay ==
  [][\A i \in Interests :
       interest[i] \in {"WITHDRAWN", "NOT_SELECTED", "CANCELLED"} =>
         interest'[i] = interest[i]]_vars
------------------------------------------------------------------------------
(* confirm_selection applies the expiration first ("Apply expiration if    *)
(* needed"): an overdue selection is not confirmed.                        *)
OverdueIsNotConfirmed ==
  [][\A s \in overdue : selection[s] = "PENDING_CONFIRMATION" =>
                          selection'[s] # "CONFIRMED"]_vars
==============================================================================
