------------------------- MODULE ComplianceDocuments -------------------------
(***************************************************************************)
(* The documents of one driver, vehicle or carrier: upload, replacement,   *)
(* review, and the verdict on the entity's compliance that matching and    *)
(* the market ask for (compliance/application/services.py, evaluation.py,  *)
(* expiration.py).                                                         *)
(*                                                                         *)
(* A review is a load of the document (resolve_document) and a service     *)
(* that decides on that object and saves some columns, without a lock; an  *)
(* upload locks the row it replaces.  The database keeps one active        *)
(* document of a type, and full_clean asks for it before every save.       *)
(***************************************************************************)
EXTENDS Integers

CONSTANTS
  Documents,   \* rows of the entity's document table
  NoDocument,  \* no row
  Kinds,       \* document types
  Required,    \* types the catalog requires; they all have a validity
  Reviewers,   \* calls of reviewers, one at a time each
  Expirations, \* days a form may give as the end of validity, 0 for none
  Warning,     \* days before the end at which a document is EXPIRING (30)
  LastDay      \* bound on the calendar

ASSUME DocumentsAssumption ==
  /\ NoDocument \notin Documents
  /\ Kinds # {} /\ Required \subseteq Kinds
  /\ Expirations \subseteq Nat
  /\ Warning \in Nat
  /\ LastDay \in Nat \ {0}

VARIABLES
  status,      \* status of every document, "NONE" before it exists
  kind,        \* its type
  expires,     \* its expiration_date
  replacedBy,  \* the document that replaced it
  reason,      \* documents with a rejection_reason
  today,       \* the calendar
  copy         \* what a reviewer's call has loaded

rows == <<status, kind, expires, replacedBy, reason>>
vars == <<rows, today, copy>>

(* EXPIRED is declared by the code and never assigned. *)
DocumentStatus == {"PENDING", "UNDER_REVIEW", "APPROVED", "REJECTED", "REPLACED"}
ActiveStatuses == {"PENDING", "UNDER_REVIEW", "APPROVED"}

Existing == {d \in Documents : status[d] # "NONE"}
Active(k) == {d \in Existing : kind[d] = k /\ status[d] \in ActiveStatuses}
Approved(k) == {d \in Active(k) : status[d] = "APPROVED"}

(* full_clean and the unique constraint on the active document of a type. *)
OnlyActive_Anyway(d, k) == TRUE
OnlyActive(d, k) == Active(k) \subseteq {d}
------------------------------------------------------------------------------
(* evaluate_entity_compliance takes the first approved document it is      *)
(* given; pick is that choice.                                             *)

IsExpired(d) == expires[d] # 0 /\ expires[d] < today
IsExpiring(d) == expires[d] # 0 /\ ~IsExpired(d) /\ expires[d] <= today + Warning

Picks ==
  {p \in [Required -> Documents \cup {NoDocument}] :
     \A k \in Required :
       IF Approved(k) = {} THEN p[k] = NoDocument ELSE p[k] \in Approved(k)}

Missing(k) == Active(k) = {}
Pending(k) == Active(k) # {} /\ Approved(k) = {}

Verdict_PendingPasses(pick) ==
  IF \E k \in Required : Missing(k) THEN "NON_COMPLIANT"
  ELSE IF \E k \in Required : pick[k] # NoDocument /\ IsExpired(pick[k]) THEN "NON_COMPLIANT"
  ELSE IF \E k \in Required : pick[k] # NoDocument /\ IsExpiring(pick[k]) THEN "WARNING"
  ELSE "COMPLIANT"

Verdict(pick) ==
  IF \E k \in Required : Missing(k) THEN "NON_COMPLIANT"
  ELSE IF \E k \in Required : pick[k] # NoDocument /\ IsExpired(pick[k]) THEN "NON_COMPLIANT"
  ELSE IF \E k \in Required : Pending(k) THEN "PENDING"
  ELSE IF \E k \in Required : IsExpiring(pick[k]) THEN "WARNING"
  ELSE "COMPLIANT"

Compliant == \E pick \in Picks : Verdict(pick) = "COMPLIANT"
------------------------------------------------------------------------------
Nothing == [doc |-> NoDocument, status |-> "NONE"]
Holds(r) == copy[r] # Nothing
Finish(r) == copy' = [copy EXCEPT ![r] = Nothing]

Init ==
  /\ status = [d \in Documents |-> "NONE"]
  /\ kind \in [Documents -> {CHOOSE k \in Kinds : TRUE}]
  /\ expires = [d \in Documents |-> 0]
  /\ replacedBy = [d \in Documents |-> NoDocument]
  /\ reason = {}
  /\ today = 1
  /\ copy = [r \in Reviewers |-> Nothing]

DayPasses ==
  /\ today < LastDay
  /\ today' = today + 1
  /\ UNCHANGED <<rows, copy>>

Insert(d, k, day) ==
  /\ status[d] = "NONE"
  /\ kind' = [kind EXCEPT ![d] = k]
  /\ expires' = [expires EXCEPT ![d] = day]

(* upload_document.  The new row is checked and saved before the one it    *)
(* replaces is marked, which may be of another type.                       *)
Upload(d, k, day) ==
  /\ Insert(d, k, day)
  /\ OnlyActive(d, k)
  /\ status' = [status EXCEPT ![d] = "PENDING"]
  /\ UNCHANGED <<replacedBy, reason, today, copy>>

Replace(d, k, day, old) ==
  /\ Insert(d, k, day)
  /\ status[old] \notin {"NONE", "REPLACED"}
  /\ OnlyActive(d, k)
  /\ status' = [status EXCEPT ![d] = "PENDING", ![old] = "REPLACED"]
  /\ replacedBy' = [replacedBy EXCEPT ![old] = d]
  /\ UNCHANGED <<reason, today, copy>>
------------------------------------------------------------------------------
(* resolve_document, and a review of what it returned. *)

Load(r, d) ==
  /\ ~Holds(r)
  /\ status[d] # "NONE"
  /\ copy' = [copy EXCEPT ![r] = [doc |-> d, status |-> status[d]]]
  /\ UNCHANGED <<rows, today>>

(* A refusal. *)
GiveUp(r) ==
  /\ Holds(r)
  /\ Finish(r)
  /\ UNCHANGED <<rows, today>>

Review(r, from, to) ==
  /\ Holds(r)
  /\ copy[r].status \in from
  /\ to \in ActiveStatuses => OnlyActive(copy[r].doc, kind[copy[r].doc])
  /\ status' = [status EXCEPT ![copy[r].doc] = to]
  /\ Finish(r)
  /\ UNCHANGED <<kind, expires, replacedBy, today>>

StartReview_KeepsReason(r) ==
  /\ Review(r, {"PENDING", "REJECTED"}, "UNDER_REVIEW")
  /\ UNCHANGED reason

StartReview(r) ==
  /\ Review(r, {"PENDING", "REJECTED"}, "UNDER_REVIEW")
  /\ reason' = reason \ {copy[r].doc}

Approvable_Replaced == ActiveStatuses \cup {"REPLACED"}
Approvable == {"PENDING", "UNDER_REVIEW"}

Approve(r) ==
  /\ Holds(r) /\ ~IsExpired(copy[r].doc)
  /\ Review(r, Approvable, "APPROVED")
  /\ reason' = reason \ {copy[r].doc}

Reject(r) ==
  /\ Review(r, ActiveStatuses, "REJECTED")
  /\ reason' = reason \cup {copy[r].doc}
------------------------------------------------------------------------------
Next ==
  \/ DayPasses
  \/ \E d \in Documents, k \in Kinds, day \in Expirations :
       \/ Upload(d, k, day)
       \/ \E old \in Documents : Replace(d, k, day, old)
  \/ \E r \in Reviewers :
       \/ StartReview(r)
       \/ Approve(r)
       \/ Reject(r)
       \/ GiveUp(r)
       \/ \E d \in Documents : Load(r, d)

Spec == Init /\ [][Next]_vars
------------------------------------------------------------------------------
(* Every row and copy holds what its column may hold, and a replaced        *)
(* document names the one that replaced it.                                *)
TypeOK ==
  /\ status \in [Documents -> DocumentStatus \cup {"NONE"}]
  /\ kind \in [Documents -> Kinds]
  /\ expires \in [Documents -> Nat]
  /\ replacedBy \in [Documents -> Documents \cup {NoDocument}]
  /\ \A d \in Documents : status[d] = "REPLACED" => replacedBy[d] \in Existing
  /\ reason \subseteq Documents
  /\ today \in 1..LastDay
  /\ copy \in [Reviewers -> [doc : Documents \cup {NoDocument},
                             status : DocumentStatus \cup {"NONE"}]]

(* The verdict does not depend on the order in which the documents come:   *)
(* evaluate_entity_compliance looks at the first approved one only, and    *)
(* uploads, replacements and stale reviews never leave two.                *)
VerdictIsUnique == \A p, q \in Picks : Verdict(p) = Verdict(q)

(* A rejected document says why, and one that counts has no reason left,   *)
(* whichever reviews cross.                                                *)
DecisionsAgree ==
  \A d \in Existing :
    /\ status[d] = "REJECTED" => d \in reason
    /\ status[d] \in ActiveStatuses => d \notin reason

(* An entity becomes compliant by an approval and by nothing else: no      *)
(* upload, replacement, review or date makes it.                           *)
OnlyApprovalsMakeCompliant ==
  [][~Compliant /\ Compliant' =>
       \E d \in Documents : status[d] # "APPROVED" /\ status'[d] = "APPROVED"]_vars

(* A replaced document counts again only by a review that loaded it before *)
(* it was replaced.                                                        *)
OnlyStaleReviewsRestore ==
  [][\A d \in Existing :
       status[d] = "REPLACED" /\ status'[d] # "REPLACED" =>
         \E r \in Reviewers : copy[r].doc = d /\ copy[r].status # "REPLACED"]_vars
------------------------------------------------------------------------------
(* An approved document can be replaced by a new one of its type, whatever *)
(* the day it ends: the replacement's audit row says that the replaced     *)
(* document was APPROVED (services.py:183), and the catalog allows a type  *)
(* multiple versions (catalog.py:16).                                      *)
ApprovedCanBeReplaced ==
  \A old \in Existing, d \in Documents \ Existing, day \in Expirations :
    status[old] = "APPROVED" => ENABLED Replace(d, kind[old], day, old)
===============================================================================
