---------------------- MODULE ComplianceDocuments_proofs ----------------------
(***************************************************************************)
(* Theorems about ComplianceDocuments for any documents, types, required   *)
(* types, reviewers and dates.                                             *)
(***************************************************************************)
EXTENDS ComplianceDocuments, TLAPS

ReviewStep(r) == StartReview(r) \/ Approve(r) \/ Reject(r)

(* A copy is of a row that exists. *)
CopiesExist ==
  \A r \in Reviewers :
    copy[r] # Nothing => copy[r].doc \in Existing /\ copy[r].status \in DocumentStatus

TypeInv == TypeOK /\ CopiesExist

LEMMA Statuses ==
  /\ "NONE" \notin DocumentStatus /\ ActiveStatuses \subseteq DocumentStatus
  /\ {"PENDING", "UNDER_REVIEW", "APPROVED", "REJECTED", "REPLACED"} = DocumentStatus
  /\ "REPLACED" \notin ActiveStatuses /\ "REJECTED" \notin ActiveStatuses
  /\ {"PENDING", "UNDER_REVIEW", "APPROVED"} = ActiveStatuses
  BY DEF DocumentStatus, ActiveStatuses

LEMMA TypeInit == Init => TypeInv
  <1> SUFFICES ASSUME Init PROVE TypeInv
    OBVIOUS
  <1>1. kind \in [Documents -> Kinds]
    BY DocumentsAssumption DEF Init
  <1>2. TypeOK
    BY <1>1, DocumentsAssumption DEF Init, TypeOK, Nothing
  <1>3. CopiesExist
    BY DEF Init, CopiesExist
  <1> QED
    BY <1>2, <1>3 DEF TypeInv

(* What every step keeps of a row that exists. *)
Frame ==
  /\ \A d \in Existing : d \in Existing' /\ kind'[d] = kind[d] /\ expires'[d] = expires[d]
  /\ today <= today'

(* A review, whatever it decides. *)
LEMMA ReviewEffect ==
  ASSUME TypeInv, NEW r \in Reviewers, ReviewStep(r)
  PROVE  \E to \in ActiveStatuses \cup {"REJECTED"} :
           /\ copy[r].doc \in Existing
           /\ copy[r].status # "REPLACED"
           /\ to \in ActiveStatuses => OnlyActive(copy[r].doc, kind[copy[r].doc])
           /\ status' = [status EXCEPT ![copy[r].doc] = to]
           /\ copy' = [copy EXCEPT ![r] = Nothing]
           /\ IF to = "REJECTED" THEN reason' = reason \cup {copy[r].doc}
                                 ELSE reason' = reason \ {copy[r].doc}
           /\ UNCHANGED <<kind, expires, replacedBy, today>>
  <1>1. copy[r].doc \in Existing
    BY DEF ReviewStep, StartReview, Approve, Reject, Review, Holds, TypeInv, CopiesExist
  <1>2. CASE StartReview(r)
    BY <1>1, <1>2, Statuses DEF StartReview, Review, Finish
  <1>3. CASE Approve(r)
    BY <1>1, <1>3, Statuses DEF Approve, Review, Finish, Approvable
  <1>4. CASE Reject(r)
    BY <1>1, <1>4, Statuses DEF Reject, Review, Finish
  <1> QED
    BY <1>2, <1>3, <1>4 DEF ReviewStep

LEMMA TypeStep == TypeInv /\ [Next]_vars => TypeInv' /\ Frame
  <1> SUFFICES ASSUME TypeInv, [Next]_vars PROVE TypeInv' /\ Frame
    OBVIOUS
  <1> USE DocumentsAssumption, Statuses
  <1>0. TypeOK /\ CopiesExist /\ today \in Int
    BY DEF TypeInv, TypeOK
  <1>a. CASE DayPasses
    BY <1>a, <1>0 DEF DayPasses, TypeInv, TypeOK, CopiesExist, Frame, Existing, rows
  <1>b. ASSUME NEW d \in Documents, NEW k \in Kinds, NEW day \in Expirations, Upload(d, k, day)
        PROVE  TypeInv' /\ Frame
    <2>1. Existing' = Existing \cup {d} /\ d \notin Existing
      BY <1>b, <1>0 DEF Upload, Insert, Existing, TypeOK
    <2>2. Frame
      BY <1>b, <1>0, <2>1 DEF Upload, Insert, Frame, TypeOK
    <2>3. TypeOK'
      BY <1>b, <1>0, <2>1 DEF Upload, Insert, TypeOK
    <2>4. CopiesExist'
      BY <1>b, <1>0, <2>1 DEF Upload, CopiesExist
    <2> QED
      BY <2>2, <2>3, <2>4 DEF TypeInv
  <1>c. ASSUME NEW d \in Documents, NEW k \in Kinds, NEW day \in Expirations, NEW old \in Documents,
               Replace(d, k, day, old)
        PROVE  TypeInv' /\ Frame
    <2>1. Existing' = Existing \cup {d} /\ d \notin Existing /\ old # d
      BY <1>c, <1>0 DEF Replace, Insert, Existing, TypeOK
    <2>2. Frame
      BY <1>c, <1>0, <2>1 DEF Replace, Insert, Frame, TypeOK
    <2>3. TypeOK'
      BY <1>c, <1>0, <2>1 DEF Replace, Insert, TypeOK
    <2>4. CopiesExist'
      BY <1>c, <1>0, <2>1 DEF Replace, CopiesExist
    <2> QED
      BY <2>2, <2>3, <2>4 DEF TypeInv
  <1>d. ASSUME NEW r \in Reviewers, ReviewStep(r) PROVE TypeInv' /\ Frame
    <2>1. PICK to \in ActiveStatuses \cup {"REJECTED"} :
             /\ copy[r].doc \in Existing
             /\ status' = [status EXCEPT ![copy[r].doc] = to]
             /\ copy' = [copy EXCEPT ![r] = Nothing]
             /\ reason' \subseteq reason \cup {copy[r].doc}
             /\ UNCHANGED <<kind, expires, replacedBy, today>>
      BY <1>d, ReviewEffect
    <2>2. Existing' = Existing /\ to # "REPLACED" /\ to \in DocumentStatus
      BY <1>0, <2>1 DEF Existing, TypeOK
    <2>3. Frame
      BY <1>0, <2>1, <2>2 DEF Frame
    <2>4. Nothing \in [doc : Documents \cup {NoDocument}, status : DocumentStatus \cup {"NONE"}]
      BY DEF Nothing
    <2>5. TypeOK'
      BY <1>0, <2>1, <2>2, <2>4 DEF TypeOK, Existing
    <2>6. CopiesExist'
      BY <1>0, <2>1, <2>2 DEF CopiesExist, TypeOK
    <2> QED
      BY <2>3, <2>5, <2>6 DEF TypeInv
  <1>e. ASSUME NEW r \in Reviewers, GiveUp(r) PROVE TypeInv' /\ Frame
    <2>1. Existing' = Existing /\ copy' = [copy EXCEPT ![r] = Nothing] /\ UNCHANGED <<rows, today>>
      BY <1>e DEF GiveUp, Finish, Existing, rows
    <2> QED
      BY <1>0, <2>1 DEF TypeInv, TypeOK, CopiesExist, Frame, rows, Nothing
  <1>f. ASSUME NEW r \in Reviewers, NEW d \in Documents, Load(r, d) PROVE TypeInv' /\ Frame
    <2>1. Existing' = Existing /\ d \in Existing /\ UNCHANGED <<rows, today>>
      BY <1>f DEF Load, Existing, rows
    <2>2. status[d] \in DocumentStatus
      BY <1>0, <2>1 DEF TypeOK, Existing
    <2> QED
      BY <1>f, <1>0, <2>1, <2>2 DEF Load, TypeInv, TypeOK, CopiesExist, Frame, rows
  <1>g. CASE UNCHANGED vars
    BY <1>g, <1>0 DEF vars, rows, TypeInv, TypeOK, CopiesExist, Frame, Existing
  <1> QED
    BY <1>a, <1>b, <1>c, <1>d, <1>e, <1>f, <1>g DEF Next, ReviewStep

(* Rows and copies are well typed, and a replaced document names its
   replacement. *)
THEOREM TypeCorrect == Spec => []TypeOK
  <1>1. TypeInv => TypeOK
    BY DEF TypeInv
  <1> QED
    BY TypeInit, TypeStep, <1>1, PTL DEF Spec
------------------------------------------------------------------------------
(* One active document of a type, and what follows from it.                *)

OneActive == \A d, e \in Existing :
  kind[d] = kind[e] /\ status[d] \in ActiveStatuses /\ status[e] \in ActiveStatuses => d = e

Reasons ==
  /\ reason \subseteq Existing
  /\ DecisionsAgree

DocInv == TypeInv /\ OneActive /\ Reasons

LEMMA DocInit == Init => DocInv
  <1> SUFFICES ASSUME Init PROVE DocInv
    OBVIOUS
  <1>1. Existing = {} /\ reason = {}
    BY DEF Init, Existing
  <1> QED
    BY <1>1, TypeInit DEF DocInv, OneActive, Reasons, DecisionsAgree

LEMMA DocStep == DocInv /\ [Next]_vars => DocInv'
  <1> SUFFICES ASSUME DocInv, [Next]_vars PROVE DocInv'
    OBVIOUS
  <1> USE Statuses
  <1>0. TypeInv' /\ Frame /\ TypeInv /\ TypeOK /\ OneActive /\ Reasons
    BY TypeStep DEF DocInv, TypeInv
  <1>1. ASSUME UNCHANGED rows PROVE DocInv'
    BY <1>0, <1>1 DEF rows, DocInv, OneActive, Reasons, DecisionsAgree, Existing
  <1>2. ASSUME NEW d \in Documents, NEW k, Active(k) \subseteq {d}, status[d] = "NONE",
               kind' = [kind EXCEPT ![d] = k], reason' = reason,
               status'[d] = "PENDING",
               \A e \in Documents \ {d} : status'[e] = status[e] \/ status'[e] = "REPLACED"
        PROVE  DocInv'
    <2>1. /\ status'[d] = "PENDING" /\ kind'[d] = k
          /\ \A e \in Documents \ {d} : /\ kind'[e] = kind[e]
                                        /\ status'[e] = status[e] \/ status'[e] = "REPLACED"
      <3>1. DOMAIN status = Documents /\ DOMAIN kind = Documents
        BY <1>0 DEF TypeOK
      <3>2. kind'[d] = k /\ \A e \in Documents \ {d} : kind'[e] = kind[e]
        BY <1>2, <3>1
      <3> QED
        BY <1>2, <3>2
    <2>2. Existing' \subseteq Documents /\ Existing \subseteq Documents /\ d \notin Existing /\ Existing \subseteq Existing'
      BY <1>0, <1>2 DEF Existing, Frame
    <2>3. \A e \in Existing' \ {d} : status'[e] \in ActiveStatuses => e \in Existing /\ status[e] \in ActiveStatuses /\ kind[e] # k
      BY <1>2, <2>1, <2>2 DEF Existing, Active
    <2>4. OneActive'
      BY <1>0, <2>1, <2>2, <2>3 DEF OneActive
    <2>5. \A e \in Existing' \ {d} : status'[e] = "REJECTED" => e \in Existing /\ status[e] = "REJECTED"
      BY <2>1, <2>2 DEF Existing
    <2>6. Reasons'
      BY <1>0, <1>2, <2>1, <2>2, <2>3, <2>5 DEF Reasons, DecisionsAgree
    <2> QED
      BY <1>0, <2>4, <2>6 DEF DocInv
  <1>a. ASSUME NEW d \in Documents, NEW k \in Kinds, NEW day \in Expirations, Upload(d, k, day)
        PROVE  DocInv'
    <2>1. status'[d] = "PENDING" /\ \A e \in Documents \ {d} : status'[e] = status[e]
      BY <1>a, <1>0 DEF Upload, TypeOK
    <2> QED
      BY <1>a, <1>2, <2>1 DEF Upload, Insert, OnlyActive
  <1>b. ASSUME NEW d \in Documents, NEW k \in Kinds, NEW day \in Expirations, NEW old \in Documents,
               Replace(d, k, day, old)
        PROVE  DocInv'
    <2>1. /\ status'[d] = "PENDING"
          /\ \A e \in Documents \ {d} : status'[e] = status[e] \/ status'[e] = "REPLACED"
      BY <1>b, <1>0 DEF Replace, Insert, TypeOK
    <2> QED
      BY <1>b, <1>2, <2>1 DEF Replace, Insert, OnlyActive
  <1>c. ASSUME NEW r \in Reviewers, ReviewStep(r) PROVE DocInv'
    <2> DEFINE doc == copy[r].doc
    <2>1. PICK to \in ActiveStatuses \cup {"REJECTED"} :
             /\ doc \in Existing
             /\ to \in ActiveStatuses => OnlyActive(doc, kind[doc])
             /\ status' = [status EXCEPT ![doc] = to]
             /\ IF to = "REJECTED" THEN reason' = reason \cup {doc} ELSE reason' = reason \ {doc}
             /\ kind' = kind
      BY <1>0, <1>c, ReviewEffect
    <2>2. Existing' = Existing /\ Existing \subseteq Documents
      BY <1>0, <2>1 DEF Existing, TypeOK
    <2>3. status'[doc] = to /\ \A e \in Existing \ {doc} : status'[e] = status[e]
      BY <1>0, <2>1, <2>2 DEF TypeOK
    <2>4. OneActive'
      <3>1. CASE to \in ActiveStatuses
        BY <1>0, <2>1, <2>2, <2>3, <3>1 DEF OneActive, OnlyActive, Active
      <3>2. CASE to = "REJECTED"
        BY <1>0, <2>1, <2>2, <2>3, <3>2 DEF OneActive
      <3> QED
        BY <3>1, <3>2
    <2>5. Reasons'
      BY <1>0, <2>1, <2>2, <2>3 DEF Reasons, DecisionsAgree
    <2> QED
      BY <1>0, <2>4, <2>5 DEF DocInv
  <1> QED
    BY <1>1, <1>a, <1>b, <1>c DEF Next, ReviewStep, DayPasses, GiveUp, Load, vars

LEMMA VerdictFromOneActive == TypeOK /\ OneActive => VerdictIsUnique
  <1> SUFFICES ASSUME TypeOK, OneActive, NEW p \in Picks, NEW q \in Picks PROVE p = q
    BY DEF VerdictIsUnique
  <1>1. ASSUME NEW k \in Required PROVE p[k] = q[k]
    <2>1. CASE Approved(k) = {}
      BY <2>1 DEF Picks
    <2>2. CASE Approved(k) # {}
      <3>1. p[k] \in Approved(k) /\ q[k] \in Approved(k)
        BY <2>2 DEF Picks
      <3> QED
        BY <3>1 DEF Approved, Active, OneActive, Existing
    <2> QED
      BY <2>1, <2>2
  <1>2. p \in [Required -> Documents \cup {NoDocument}] /\ q \in [Required -> Documents \cup {NoDocument}]
    BY DEF Picks
  <1> QED
    BY <1>1, <1>2

(* The verdict on an entity never depends on the order of its documents
   (evaluation.py:47-105). *)
THEOREM VerdictsAreUnique == Spec => []VerdictIsUnique
  <1>1. DocInv => VerdictIsUnique
    BY VerdictFromOneActive DEF DocInv, TypeInv
  <1> QED
    BY DocInit, DocStep, <1>1, PTL DEF Spec

(* Status and rejection reason agree through crossing reviews
   (compliance/application/services.py:198-294). *)
THEOREM DecisionsStayAgreed == Spec => []DecisionsAgree
  <1>1. DocInv => DecisionsAgree
    BY DEF DocInv, Reasons
  <1> QED
    BY DocInit, DocStep, <1>1, PTL DEF Spec
------------------------------------------------------------------------------
(* Steps.                                                                  *)

(* A replaced document comes back only through a review that loaded it
   before it was replaced (document_views.py:259-281). *)
THEOREM RestorationsAreStale == Spec => OnlyStaleReviewsRestore
  <1> DEFINE Stale == \A d \in Existing :
        status[d] = "REPLACED" /\ status'[d] # "REPLACED" =>
          \E r \in Reviewers : copy[r].doc = d /\ copy[r].status # "REPLACED"
  <1>1. ASSUME TypeInv, [Next]_vars PROVE Stale
    <2>0. TypeOK
      BY <1>1 DEF TypeInv
    <2> SUFFICES ASSUME NEW d \in Existing, status[d] = "REPLACED", status'[d] # "REPLACED"
                 PROVE  \E r \in Reviewers : copy[r].doc = d /\ copy[r].status # "REPLACED"
      OBVIOUS
    <2>1. d \in Documents /\ status'[d] # status[d]
      BY DEF Existing
    <2>2. ASSUME NEW r \in Reviewers, ReviewStep(r) PROVE copy[r].doc = d /\ copy[r].status # "REPLACED"
      BY <1>1, <2>0, <2>1, <2>2, ReviewEffect DEF TypeOK
    <2>3. ASSUME NEW n \in Documents, NEW k \in Kinds, NEW day \in Expirations,
                 Upload(n, k, day) \/ \E old \in Documents : Replace(n, k, day, old)
          PROVE  FALSE
      BY <2>0, <2>1, <2>3 DEF Upload, Replace, Insert, TypeOK
    <2> QED
      BY <1>1, <2>1, <2>2, <2>3 DEF Next, ReviewStep, DayPasses, GiveUp, Load, rows, vars
  <1>2. TypeInv /\ [Next]_vars => [Stale]_vars
    BY <1>1
  <1> QED
    BY TypeInit, TypeStep, <1>2, PTL DEF Spec, OnlyStaleReviewsRestore

(* Compliance that appears without an approval was there before: the
   documents picked afterwards counted then, and were no closer to their
   end. *)
LEMMA NoApprovalNoCompliance ==
  ASSUME TypeInv, [Next]_vars, Compliant',
         \A d \in Documents : status[d] = "APPROVED" \/ status'[d] # "APPROVED"
  PROVE  Compliant
  <1> USE DocumentsAssumption, Statuses
  <1>0. TypeInv' /\ Frame /\ TypeOK /\ TypeOK'
    BY TypeStep DEF TypeInv
  <1>1. PICK p \in Picks' : Verdict(p)' = "COMPLIANT"
    BY DEF Compliant
  <1>2. \A k \in Required : /\ ~Pending(k)' /\ ~Missing(k)'
                             /\ ~(p[k] # NoDocument /\ IsExpired(p[k])')
                             /\ ~IsExpiring(p[k])'
    BY <1>1 DEF Verdict
  <1>3. ASSUME NEW k \in Required
        PROVE  /\ p[k] \in Approved(k)
               /\ ~IsExpired(p[k]) /\ ~IsExpiring(p[k])
    <2>1. Approved(k)' # {}
      BY <1>2 DEF Pending, Missing
    <2>2. p[k] \in Approved(k)'
      BY <1>1, <2>1 DEF Picks
    <2>3. p[k] \in Documents /\ status[p[k]] = "APPROVED"
      BY <2>2 DEF Approved, Active, Existing
    <2>4. p[k] \in Existing /\ kind'[p[k]] = k
      BY <2>2, <2>3 DEF Approved, Active, Existing
    <2>5. p[k] \in Approved(k) /\ expires'[p[k]] = expires[p[k]]
      BY <1>0, <2>3, <2>4 DEF Approved, Active, Frame
    <2>6. expires[p[k]] \in Nat /\ today \in Nat /\ today' \in Nat /\ today <= today'
      BY <1>0, <2>3 DEF TypeOK, Frame
    <2>7. expires[p[k]] = 0 \/ expires[p[k]] > today' + Warning
      BY <1>2, <2>3, <2>5, <2>6 DEF IsExpired, IsExpiring
    <2> QED
      BY <2>5, <2>6, <2>7 DEF IsExpired, IsExpiring
  <1>4. p \in Picks
    BY <1>1, <1>3 DEF Picks
  <1>5. Verdict(p) = "COMPLIANT"
    BY <1>3 DEF Verdict, Missing, Pending, Approved
  <1> QED
    BY <1>4, <1>5 DEF Compliant

(* An entity becomes compliant by an approval only, for any catalog of
   required types (evaluation.py:47-105). *)
THEOREM ApprovalsMakeCompliant == Spec => OnlyApprovalsMakeCompliant
  <1> DEFINE ByApproval == ~Compliant /\ Compliant' =>
        \E d \in Documents : status[d] # "APPROVED" /\ status'[d] = "APPROVED"
  <1>1. TypeInv /\ [Next]_vars => [ByApproval]_vars
    BY NoApprovalNoCompliance
  <1> QED
    BY TypeInit, TypeStep, <1>1, PTL DEF Spec, OnlyApprovalsMakeCompliant
==============================================================================
