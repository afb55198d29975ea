----------------------------- MODULE FreightQuotes -----------------------------
(***************************************************************************)
(* A customer's freight request and the quotes made for it: the request's  *)
(* statuses, the versioned quotes with their charges, review, approval and *)
(* validity, the revision that supersedes a quote, and the offer made from *)
(* an approved one (freights/application/services.py, quote_services.py,   *)
(* pricing_services.py, offer_services.py).                                *)
(*                                                                         *)
(* Neither requests nor quotes are locked.  A view loads the quote together *)
(* with its request, and the service decides on those objects and writes   *)
(* some columns, or the whole row, later.  A user's call is therefore a    *)
(* load (LoadQuote, LoadRequest) and a service that acts on the copy.  Only *)
(* the creation of a quote locks something: the organization's sequence of *)
(* reference codes of the year, held until the transaction ends.  It is    *)
(* modelled in two steps, AllocateVersion and InsertQuote, with the        *)
(* rollback between; two that begin on the two sides of New Year lock      *)
(* different rows.                                                         *)
(***************************************************************************)
EXTENDS Integers, FiniteSets

CONSTANTS
  Quotes,        \* rows of FreightQuote
  NoQuote,       \* no row
  Users,         \* calls of back-office users, one at a time each
  Compositions,  \* what the charges of a quote and its tax may add up to
  Validities,    \* days a form may give as the end of the validity
  LastDay,       \* bound on the calendar
  YearOf         \* the year of every day

ASSUME QuotesAssumption ==
  /\ NoQuote \notin Quotes
  /\ Compositions \subseteq
       [base : Nat, extra : Nat, insurance : Nat, tax : Nat, discount : Nat]
  /\ Compositions # {}
  /\ Validities \subseteq Nat
  /\ LastDay \in Nat \ {0}
  /\ YearOf \in [1..LastDay -> Nat \ {0}]

VARIABLES
  request,     \* status of the freight request
  status,      \* status of every quote, "NONE" before it exists
  version,     \* version of every quote
  year,        \* the year in its reference code
  revisionOf,  \* the quote it revises
  charges,     \* its charge rows and tax
  total,       \* its persisted total
  validUntil,  \* last day of its validity
  today,       \* the calendar
  approvals,   \* quotes with a freight_quote_approved audit event
  offered,     \* quotes with an offer
  copy,        \* what a user's call has loaded
  allocated,   \* version taken by a call's open transaction, 0 without one
  locked       \* year of the sequence row the transaction locks, 0 without one

rows == <<status, version, year, revisionOf, charges, total, validUntil>>
transactions == <<allocated, locked>>
vars == <<request, rows, today, approvals, offered, copy, transactions>>

RequestStatus ==
  {"DRAFT", "SUBMITTED", "UNDER_REVIEW", "QUOTING", "READY_TO_PUBLISH",
   "CANCELLED", "CLOSED"}

AllowedStatusTransitions ==
  [s \in RequestStatus |->
     CASE s = "DRAFT" -> {"SUBMITTED", "CANCELLED"}
       [] s = "SUBMITTED" -> {"UNDER_REVIEW", "CANCELLED"}
       [] s = "UNDER_REVIEW" -> {"QUOTING", "CANCELLED"}
       [] s = "QUOTING" -> {"READY_TO_PUBLISH", "CANCELLED"}
       [] s = "READY_TO_PUBLISH" -> {"CLOSED", "CANCELLED"}
       [] OTHER -> {}]

(* CALCULATED and ACCEPTED are declared by the code and never assigned. *)
QuoteStatus ==
  {"DRAFT", "UNDER_REVIEW", "APPROVED", "SENT", "REJECTED", "EXPIRED",
   "CANCELLED", "SUPERSEDED"}

AllowedQuoteTransitions ==
  [s \in QuoteStatus |->
     CASE s = "DRAFT" -> {"UNDER_REVIEW", "CANCELLED"}
       [] s = "UNDER_REVIEW" -> {"APPROVED", "REJECTED", "CANCELLED"}
       [] s = "APPROVED" -> {"SENT", "CANCELLED"}
       [] s = "SENT" -> {"EXPIRED", "CANCELLED"}
       [] s = "REJECTED" -> {"CANCELLED"}
       [] OTHER -> {}]

RequestAllowsQuote == {"SUBMITTED", "UNDER_REVIEW", "QUOTING", "READY_TO_PUBLISH"}
Revisable_Expired == {"DRAFT", "UNDER_REVIEW", "APPROVED", "SENT", "REJECTED", "EXPIRED"}
Revisable == {"DRAFT", "UNDER_REVIEW", "APPROVED", "SENT", "REJECTED"}
EligibleForOffer_Reviewed == {"UNDER_REVIEW", "APPROVED", "SENT"}
EligibleForOffer == {"APPROVED", "SENT"}
Final == {"EXPIRED", "CANCELLED", "SUPERSEDED"}
------------------------------------------------------------------------------
(* Pricing: discounts reduce what the other charges and the tax add up to; *)
(* a composition that would be negative is refused.                        *)
Subtotal(c) == c.base + c.extra + c.insurance + c.tax
Priced(c) == c.discount <= Subtotal(c)
Total(c) == Subtotal(c) - c.discount

(* recalculate_and_persist_quote_totals, after the charge rows. *)
PersistTotals_Forgotten(q, c) == UNCHANGED total
PersistTotals(q, c) == total' = [total EXCEPT ![q] = Total(c)]

Existing == {q \in Quotes : status[q] # "NONE"}

(* One more than the latest version of the request's quotes. *)
IsNextVersion(v) ==
  IF Existing = {}
  THEN v = 1
  ELSE /\ \E q \in Existing : v = version[q] + 1
       /\ \A q \in Existing : version[q] < v

(* select_for_update on the organization's reference sequence of a year. *)
SequenceFree_Unlocked(y) == TRUE
SequenceFree(y) == \A u \in Users : allocated[u] # 0 => locked[u] # y

(* A revision writes the source's row first and holds it until it commits. *)
RowFree(q) == q = NoQuote \/ \A u \in Users : allocated[u] # 0 => copy[u].quote # q

Nothing ==
  [quote |-> NoQuote, status |-> "NONE", total |-> 0, validUntil |-> 0, request |-> "NONE"]
HoldsRequest(u) == copy[u].request # "NONE" /\ copy[u].quote = NoQuote /\ allocated[u] = 0
HoldsQuote(u) == copy[u].quote \in Quotes /\ allocated[u] = 0
Finish(u) == copy' = [copy EXCEPT ![u] = Nothing]
------------------------------------------------------------------------------
Init ==
  /\ request = "DRAFT"
  /\ status = [q \in Quotes |-> "NONE"]
  /\ version = [q \in Quotes |-> 0]
  /\ year = [q \in Quotes |-> 0]
  /\ revisionOf = [q \in Quotes |-> NoQuote]
  /\ charges \in [Quotes -> {CHOOSE c \in Compositions : TRUE}]
  /\ total = [q \in Quotes |-> 0]
  /\ validUntil = [q \in Quotes |-> 0]
  /\ today = 1
  /\ approvals = {}
  /\ offered = {}
  /\ copy = [u \in Users |-> Nothing]
  /\ allocated = [u \in Users |-> 0]
  /\ locked = [u \in Users |-> 0]

DayPasses ==
  /\ today < LastDay
  /\ today' = today + 1
  /\ UNCHANGED <<request, rows, approvals, offered, copy, transactions>>

(* The views load the row of a quote with the row of its request. *)
LoadQuote(u, q) ==
  /\ copy[u] = Nothing
  /\ status[q] # "NONE"
  /\ copy' = [copy EXCEPT ![u] =
       [quote |-> q, status |-> status[q], total |-> total[q],
        validUntil |-> validUntil[q], request |-> request]]
  /\ UNCHANGED <<request, rows, today, approvals, offered, transactions>>

LoadRequest(u) ==
  /\ copy[u] = Nothing
  /\ copy' = [copy EXCEPT ![u] = [Nothing EXCEPT !.request = request]]
  /\ UNCHANGED <<request, rows, today, approvals, offered, transactions>>

(* A refusal, or a page that is only read. *)
GiveUp(u) ==
  /\ HoldsRequest(u) \/ HoldsQuote(u)
  /\ Finish(u)
  /\ UNCHANGED <<request, rows, today, approvals, offered, transactions>>
------------------------------------------------------------------------------
(* The request's services: the table is consulted on the copy. *)

MoveRequest(u, target) ==
  /\ HoldsRequest(u)
  /\ target \in AllowedStatusTransitions[copy[u].request]
  /\ request' = target
  /\ Finish(u)
  /\ UNCHANGED <<rows, today, approvals, offered, transactions>>

SubmitRequest(u) == MoveRequest(u, "SUBMITTED")
CancelRequest(u) == MoveRequest(u, "CANCELLED")
ChangeRequestStatus(u) == \E target \in RequestStatus : MoveRequest(u, target)

(* update_freight_request saves the whole row, the status of the draft too. *)
EditRequest(u) ==
  /\ HoldsRequest(u)
  /\ copy[u].request = "DRAFT"
  /\ request' = copy[u].request
  /\ Finish(u)
  /\ UNCHANGED <<rows, today, approvals, offered, transactions>>
------------------------------------------------------------------------------
(* A quote's services on the copy.  _transition_quote saves the status and *)
(* nothing else; the columns a service saves before it are its own.        *)

Transition(u, target) ==
  /\ HoldsQuote(u)
  /\ RowFree(copy[u].quote)
  /\ target \in AllowedQuoteTransitions[copy[u].status]
  /\ status' = [status EXCEPT ![copy[u].quote] = target]
  /\ Finish(u)
  /\ UNCHANGED <<version, year, revisionOf, charges, total, validUntil, today, offered,
                 transactions>>

(* The commercial gate: a request that was QUOTING when it was loaded is   *)
(* ready once one of its quotes is approved or sent.                       *)
CommercialGate(u) ==
  request' = IF /\ copy[u].request = "QUOTING"
                /\ \E q \in Quotes : status'[q] \in EligibleForOffer
             THEN "READY_TO_PUBLISH"
             ELSE request

SubmitForReview(u) ==
  /\ copy[u].total > 0
  /\ Transition(u, "UNDER_REVIEW")
  /\ UNCHANGED <<request, approvals>>

Approve(u) ==
  /\ Transition(u, "APPROVED")
  /\ approvals' = approvals \cup {copy[u].quote}
  /\ CommercialGate(u)

Reject(u) ==
  /\ Transition(u, "REJECTED")
  /\ UNCHANGED <<request, approvals>>

(* Only SENT quotes expire, so the validity of an approved one is not      *)
(* looked at; the expiration of a SENT one is rolled back by the refusal   *)
(* that follows it.                                                        *)
Send(u) ==
  /\ Transition(u, "SENT")
  /\ UNCHANGED approvals
  /\ CommercialGate(u)

CancelQuote(u) ==
  /\ Transition(u, "CANCELLED")
  /\ UNCHANGED <<request, approvals>>

(* The detail page applies the expiration. *)
ExpireOnView(u) ==
  /\ copy[u].validUntil < today
  /\ Transition(u, "EXPIRED")
  /\ UNCHANGED <<request, approvals>>

(* update_freight_quote_draft saves the whole row of the copy, its status  *)
(* too, replaces the charges and recomputes the totals.                    *)
EditDraft(u, c, day) ==
  /\ HoldsQuote(u)
  /\ RowFree(copy[u].quote)
  /\ copy[u].status = "DRAFT"
  /\ Priced(c)
  /\ status' = [status EXCEPT ![copy[u].quote] = copy[u].status]
  /\ charges' = [charges EXCEPT ![copy[u].quote] = c]
  /\ PersistTotals(copy[u].quote, c)
  /\ validUntil' = [validUntil EXCEPT ![copy[u].quote] = day]
  /\ Finish(u)
  /\ UNCHANGED <<request, version, year, revisionOf, today, approvals, offered, transactions>>
------------------------------------------------------------------------------
(* Creation, by itself or for a revision of the quote that was loaded. *)

MayCreate(u) ==
  /\ copy[u].request \in RequestAllowsQuote
  /\ HoldsRequest(u) \/ (HoldsQuote(u) /\ copy[u].status \in Revisable)

TakesVersion(u) ==
  /\ MayCreate(u)
  /\ RowFree(copy[u].quote)
  /\ SequenceFree(YearOf[today])
  /\ \E v \in 1..(Cardinality(Quotes) + 1) :
       /\ IsNextVersion(v)
       /\ allocated' = [allocated EXCEPT ![u] = v]
  /\ locked' = [locked EXCEPT ![u] = YearOf[today]]

AllocateVersion_SupersedesFirst(u) ==
  /\ TakesVersion(u)
  /\ status' = [q \in Quotes |-> IF q = copy[u].quote THEN "SUPERSEDED" ELSE status[q]]
  /\ UNCHANGED <<request, version, year, revisionOf, charges, total, validUntil, today,
                 approvals, offered, copy>>

AllocateVersion(u) ==
  /\ TakesVersion(u)
  /\ UNCHANGED <<request, rows, today, approvals, offered, copy>>

(* The rest of create_freight_quote and revise_freight_quote, and the      *)
(* commit.  The table leaves a SUBMITTED request where it is, although     *)
(* _maybe_transition_request_to_quoting names it.                          *)
InsertQuote(u, q, c, day) ==
  /\ allocated[u] # 0
  /\ q \notin Existing
  /\ Priced(c)
  /\ \A r \in Existing : version[r] # allocated[u]
  /\ status' = [r \in Quotes |->
       IF r = q THEN "DRAFT" ELSE IF r = copy[u].quote THEN "SUPERSEDED" ELSE status[r]]
  /\ version' = [version EXCEPT ![q] = allocated[u]]
  /\ year' = [year EXCEPT ![q] = locked[u]]
  /\ revisionOf' = [revisionOf EXCEPT ![q] = copy[u].quote]
  /\ charges' = [charges EXCEPT ![q] = c]
  /\ PersistTotals(q, c)
  /\ validUntil' = [validUntil EXCEPT ![q] = day]
  /\ request' = IF copy[u].request = "UNDER_REVIEW" THEN "QUOTING" ELSE request
  /\ allocated' = [allocated EXCEPT ![u] = 0]
  /\ locked' = [locked EXCEPT ![u] = 0]
  /\ Finish(u)
  /\ UNCHANGED <<today, approvals, offered>>

(* The transaction is rolled back: a negative total, a taken version, a    *)
(* lost connection.                                                        *)
Rollback(u) ==
  /\ allocated[u] # 0
  /\ allocated' = [allocated EXCEPT ![u] = 0]
  /\ locked' = [locked EXCEPT ![u] = 0]
  /\ Finish(u)
  /\ UNCHANGED <<request, rows, today, approvals, offered>>

(* create_freight_offer, on the copies of the request and of the quote. *)
CreateOffer(u) ==
  /\ HoldsQuote(u)
  /\ copy[u].request = "READY_TO_PUBLISH"
  /\ copy[u].status \in EligibleForOffer
  /\ offered' = offered \cup {copy[u].quote}
  /\ Finish(u)
  /\ UNCHANGED <<request, rows, today, approvals, transactions>>
------------------------------------------------------------------------------
Next ==
  \/ DayPasses
  \/ \E u \in Users :
       \/ LoadRequest(u)
       \/ GiveUp(u)
       \/ SubmitRequest(u)
       \/ CancelRequest(u)
       \/ ChangeRequestStatus(u)
       \/ EditRequest(u)
       \/ SubmitForReview(u)
       \/ Approve(u)
       \/ Reject(u)
       \/ Send(u)
       \/ CancelQuote(u)
       \/ ExpireOnView(u)
       \/ AllocateVersion(u)
       \/ Rollback(u)
       \/ CreateOffer(u)
       \/ \E q \in Quotes : LoadQuote(u, q)
       \/ \E c \in Compositions, day \in Validities : EditDraft(u, c, day)
       \/ \E q \in Quotes, c \in Compositions, day \in Validities : InsertQuote(u, q, c, day)

Spec == Init /\ [][Next]_vars
------------------------------------------------------------------------------
Copies ==
  [quote : Quotes \cup {NoQuote}, status : QuoteStatus \cup {"NONE"}, total : Nat,
   validUntil : Nat, request : RequestStatus \cup {"NONE"}]

(* Every row and copy holds what its column may hold; a total is never     *)
(* negative, whatever the discounts.                                       *)
TypeOK ==
  /\ request \in RequestStatus
  /\ status \in [Quotes -> QuoteStatus \cup {"NONE"}]
  /\ version \in [Quotes -> Nat]
  /\ year \in [Quotes -> Nat]
  /\ revisionOf \in [Quotes -> Quotes \cup {NoQuote}]
  /\ charges \in [Quotes -> Compositions]
  /\ total \in [Quotes -> Nat]
  /\ validUntil \in [Quotes -> Nat]
  /\ today \in 1..LastDay
  /\ approvals \subseteq Quotes
  /\ offered \subseteq Quotes
  /\ copy \in [Users -> Copies]
  /\ allocated \in [Users -> Nat]
  /\ locked \in [Users -> Nat]

(* Two quotes are given one version only on the two sides of New Year: the *)
(* version that a transaction has taken is above those of the quotes coded *)
(* in the year whose sequence it locks, and another transaction may have   *)
(* taken it too, or inserted it since, only under another year's.  The     *)
(* unique constraint on request and version then rolls the later one back; *)
(* at any other time it is never met.  What protects the version is the    *)
(* lock that _allocate_quote_reference_code takes for another purpose.     *)
VersionsClashOnlyAcrossYears ==
  \A u \in Users : allocated[u] # 0 =>
    /\ \A q \in Existing : version[q] >= allocated[u] => year[q] # locked[u]
    /\ \A w \in Users \ {u} : allocated[w] = allocated[u] => locked[w] # locked[u]

(* A superseded quote has a later quote that revises it: revision          *)
(* supersedes the source before it knows that the new quote can be made,   *)
(* and all of it or nothing must stay.                                     *)
SupersededHasSuccessor ==
  \A q \in Quotes : status[q] = "SUPERSEDED" =>
    \E r \in Existing : revisionOf[r] = q /\ version[r] > version[q]

(* The persisted total is what the charge rows and the tax add up to,      *)
(* whoever edits, from however old a copy.                                 *)
TotalsMatchCharges == \A q \in Existing : total[q] = Total(charges[q])

(* A freight offer is made only from a quote that somebody approved, even  *)
(* when quote and request have moved since they were loaded.               *)
OfferFollowsApproval == offered \subseteq approvals

(* An expired, cancelled or superseded quote changes its status only by a  *)
(* call that loaded it before it was settled.                              *)
OnlyStaleCopiesRevive ==
  [][\A q \in Quotes :
       status[q] \in Final /\ status'[q] # status[q] =>
         \E u \in Users : copy[u].quote = q /\ copy[u].status \notin Final]_vars
===============================================================================
