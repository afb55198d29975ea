-------------------------- MODULE FreightQuotes_proofs --------------------------
(* Theorems about FreightQuotes, for any number of quotes and users. *)
EXTENDS FreightQuotes, TLAPS

(* Only one transaction at a time holds the sequence of reference codes of *)
(* a year, and one that revises holds a copy that may be revised, of a     *)
(* quote with an earlier version.                                          *)
OneAllocation ==
  \A u, w \in Users :
    allocated[u] # 0 /\ allocated[w] # 0 /\ locked[u] = locked[w] => u = w
RevisesRevisable ==
  \A u \in Users : allocated[u] # 0 =>
    /\ copy[u].request # "NONE"
    /\ copy[u].quote \in Quotes =>
         copy[u].status \in Revisable /\ version[copy[u].quote] < allocated[u]

(* The versions of a request's quotes are 1, 2, 3 and so on, each given    *)
(* once, and the next transaction to commit continues them.                *)
Continues(v) == v = 1 \/ \E q \in Existing : v = version[q] + 1
VersionsAreASequence ==
  /\ \A q, r \in Existing : version[q] = version[r] => q = r
  /\ \A q \in Existing : Continues(version[q])
  /\ \A u \in Users : allocated[u] # 0 => Continues(allocated[u])

(* What a row or a copy shows as approved or sent has been approved. *)
RowsApproved == \A q \in Quotes : status[q] \in EligibleForOffer => q \in approvals
CopyOK(u) ==
  copy[u].quote \in Quotes =>
    /\ copy[u].status \in QuoteStatus
    /\ copy[u].quote \in Existing
    /\ copy[u].status \in EligibleForOffer => copy[u].quote \in approvals
CopiesOK == \A u \in Users : CopyOK(u)

IInv ==
  /\ TypeOK
  /\ OneAllocation
  /\ RevisesRevisable
  /\ RowsApproved
  /\ CopiesOK
  /\ VersionsClashOnlyAcrossYears
  /\ VersionsAreASequence
  /\ SupersededHasSuccessor
  /\ TotalsMatchCharges
  /\ OfferFollowsApproval

LEMMA TotalIsNat ==
  ASSUME NEW c \in Compositions, Priced(c)
  PROVE  Total(c) \in Nat
  BY QuotesAssumption DEF Priced, Total, Subtotal

LEMMA QuoteTable ==
  ASSUME NEW s \in QuoteStatus, NEW t \in AllowedQuoteTransitions[s]
  PROVE  /\ t \in QuoteStatus \ {"SUPERSEDED"}
         /\ s \notin Final
         /\ t = "SENT" => s = "APPROVED"
  BY DEF AllowedQuoteTransitions, QuoteStatus, Final

(* The initial states satisfy the invariant. *)
LEMMA InitIInv == Init => IInv
  <1> SUFFICES ASSUME Init PROVE IInv OBVIOUS
  <1>1. (CHOOSE c \in Compositions : TRUE) \in Compositions
    BY QuotesAssumption
  <1>2. TypeOK
    BY <1>1, QuotesAssumption
    DEF Init, TypeOK, Copies, Nothing, RequestStatus, QuoteStatus
  <1>3. Existing = {}
    BY DEF Init, Existing
  <1> QED
    BY <1>2, <1>3, QuotesAssumption
    DEF Init, IInv, OneAllocation, RevisesRevisable, VersionsClashOnlyAcrossYears,
        VersionsAreASequence, RowsApproved, CopiesOK, CopyOK, Nothing, SupersededHasSuccessor,
        TotalsMatchCharges, OfferFollowsApproval, EligibleForOffer

(* A call that loads, ends, moves the request or makes an offer. *)
LEMMA CopyStep ==
  ASSUME IInv, NEW u \in Users, NEW c \in Copies,
         copy' = [copy EXCEPT ![u] = c],
         c = Nothing \/ (c.quote = NoQuote) \/
           (/\ c.quote \in Existing
            /\ c.status = status[c.quote]),
         allocated[u] = 0,
         request' \in RequestStatus, offered' \subseteq approvals,
         today' = today, UNCHANGED <<rows, approvals, transactions>>
  PROVE  IInv'
  <1> USE DEF IInv
  <1>1. c.quote \in Quotes => /\ c.quote \in Existing
                              /\ c.status = status[c.quote]
    BY QuotesAssumption DEF Nothing
  <1>2. TypeOK'
    BY DEF TypeOK, rows, transactions
  <1>3. Existing' = Existing
    BY DEF Existing, rows
  <1>4. /\ OneAllocation' /\ VersionsClashOnlyAcrossYears' /\ VersionsAreASequence'
        /\ RowsApproved' /\ SupersededHasSuccessor' /\ TotalsMatchCharges' /\ OfferFollowsApproval'
    BY <1>3 DEF OneAllocation, VersionsClashOnlyAcrossYears, VersionsAreASequence, Continues,
                RowsApproved, SupersededHasSuccessor, TotalsMatchCharges, OfferFollowsApproval,
                rows, transactions
  <1>5. RevisesRevisable'
    BY DEF RevisesRevisable, TypeOK, rows, transactions
  <1>6. ASSUME NEW w \in Users PROVE CopyOK(w)'
    <2>1. CASE w = u
      BY <1>1, <1>3, <2>1 DEF CopyOK, TypeOK, RowsApproved, Existing
    <2>2. CASE w # u
      BY <1>3, <2>2 DEF CopyOK, CopiesOK, TypeOK
    <2> QED BY <2>1, <2>2
  <1> QED BY <1>2, <1>4, <1>5, <1>6 DEF CopiesOK

(* A service on a loaded quote: it writes the row, and the copy is gone. *)
LEMMA RowStep ==
  ASSUME IInv, NEW u \in Users, HoldsQuote(u), Finish(u),
         NEW t \in QuoteStatus \ {"SUPERSEDED"},
         status' = [status EXCEPT ![copy[u].quote] = t],
         t \in EligibleForOffer => copy[u].quote \in approvals',
         approvals \subseteq approvals', approvals' \subseteq Quotes,
         request' \in RequestStatus,
         charges' \in [Quotes -> Compositions],
         total' \in [Quotes -> Nat],
         validUntil' \in [Quotes -> Nat],
         \A q \in Existing : total'[q] = Total(charges'[q]),
         UNCHANGED <<version, year, revisionOf, today, offered, transactions>>
  PROVE  IInv'
  <1> USE DEF IInv
  <1>1. /\ copy[u].quote \in Existing /\ allocated[u] = 0
        /\ UNCHANGED <<allocated, locked>>
    BY DEF HoldsQuote, CopiesOK, CopyOK, transactions
  <1>2. Existing' = Existing
    BY <1>1 DEF Existing, QuoteStatus, TypeOK
  <1>3. Nothing \in Copies /\ Nothing.quote \notin Quotes
    BY QuotesAssumption DEF Nothing, Copies
  <1>4. TypeOK'
    BY <1>1, <1>3 DEF TypeOK, Finish
  <1>5. /\ \A w \in Users : copy'[w].quote \in Quotes => w # u /\ copy'[w] = copy[w]
        /\ OneAllocation'
    BY <1>1, <1>3 DEF TypeOK, Finish, OneAllocation
  <1>6. RevisesRevisable'
    BY <1>1 DEF RevisesRevisable, TypeOK, Finish
  <1>7. RowsApproved'
    BY <1>1 DEF RowsApproved, TypeOK, Existing
  <1>8. CopiesOK'
    BY <1>2, <1>5 DEF CopiesOK, CopyOK
  <1>9. /\ VersionsClashOnlyAcrossYears' /\ VersionsAreASequence'
        /\ TotalsMatchCharges' /\ OfferFollowsApproval'
    BY <1>1, <1>2 DEF VersionsClashOnlyAcrossYears, VersionsAreASequence, Continues,
                      TotalsMatchCharges, OfferFollowsApproval
  <1>10. SupersededHasSuccessor'
    BY <1>2, <1>1 DEF SupersededHasSuccessor, TypeOK, Existing
  <1> QED BY <1>4, <1>5, <1>6, <1>7, <1>8, <1>9, <1>10

LEMMA TransitionStep ==
  ASSUME IInv, NEW u \in Users, NEW t \in QuoteStatus, Transition(u, t),
         t \in EligibleForOffer => copy[u].quote \in approvals',
         approvals \subseteq approvals', approvals' \subseteq Quotes,
         request' \in RequestStatus
  PROVE  IInv'
  <1>1. copy[u].status \in QuoteStatus
    BY DEF IInv, CopiesOK, CopyOK, Transition, HoldsQuote
  <1>2. t \in QuoteStatus \ {"SUPERSEDED"}
    BY <1>1, QuoteTable DEF Transition
  <1>3. \A q \in Existing : total'[q] = Total(charges'[q])
    BY DEF IInv, TotalsMatchCharges, Transition
  <1>4. /\ charges' \in [Quotes -> Compositions]
        /\ total' \in [Quotes -> Nat]
        /\ validUntil' \in [Quotes -> Nat]
        /\ UNCHANGED <<version, year, revisionOf, today, offered, transactions>>
    BY DEF IInv, TypeOK, Transition
  <1>5. /\ HoldsQuote(u) /\ Finish(u)
        /\ status' = [status EXCEPT ![copy[u].quote] = t]
    BY DEF Transition
  <1> QED BY <1>2, <1>3, <1>4, <1>5, RowStep

LEMMA EditStep ==
  ASSUME IInv, NEW u \in Users, NEW c \in Compositions, NEW day \in Validities,
         EditDraft(u, c, day)
  PROVE  IInv'
  <1>1. copy[u].quote \in Quotes
    BY DEF EditDraft, HoldsQuote
  <1>2. Total(c) \in Nat
    BY TotalIsNat DEF EditDraft
  <1>3. /\ charges' \in [Quotes -> Compositions]
        /\ total' \in [Quotes -> Nat]
        /\ validUntil' \in [Quotes -> Nat]
    BY <1>1, <1>2, QuotesAssumption DEF EditDraft, PersistTotals, IInv, TypeOK
  <1>4. \A q \in Existing : total'[q] = Total(charges'[q])
    BY <1>1 DEF EditDraft, PersistTotals, IInv, TypeOK, TotalsMatchCharges, Existing
  <1>5. "DRAFT" \in QuoteStatus \ {"SUPERSEDED"} /\ "DRAFT" \notin EligibleForOffer
    BY DEF QuoteStatus, EligibleForOffer
  <1> QED
    BY <1>3, <1>4, <1>5, RowStep DEF EditDraft, IInv, TypeOK

(* Taking a version: the year's sequence was free, and the version is the  *)
(* next.                                                                   *)
LEMMA AllocateStep ==
  ASSUME IInv, NEW u \in Users, AllocateVersion(u)
  PROVE  IInv'
  <1> USE DEF IInv
  <1>1. PICK v \in 1..(Cardinality(Quotes) + 1) :
          IsNextVersion(v) /\ allocated' = [allocated EXCEPT ![u] = v]
    BY DEF AllocateVersion, TakesVersion
  <1>2. v \in Nat /\ v # 0
    OBVIOUS
  <1>3. \A q \in Existing : version[q] < v
    BY <1>1 DEF IsNextVersion
  <1>4. /\ locked' = [locked EXCEPT ![u] = YearOf[today]]
        /\ YearOf[today] \in Nat
        /\ SequenceFree(YearOf[today])
        /\ UNCHANGED <<status, version, year, revisionOf, charges, total, validUntil,
                       request, today, approvals, offered, copy>>
    BY QuotesAssumption DEF AllocateVersion, TakesVersion, rows, TypeOK
  <1>5. TypeOK'
    BY <1>1, <1>2, <1>4 DEF TypeOK
  <1>6. Existing' = Existing
    BY <1>4 DEF Existing
  <1>7. \A w \in Users : w # u =>
          /\ allocated'[w] = allocated[w] /\ locked'[w] = locked[w]
          /\ allocated[w] # 0 => locked[w] # locked'[u]
    BY <1>1, <1>4 DEF SequenceFree, TypeOK
  <1>8. OneAllocation'
    BY <1>7 DEF OneAllocation
  <1>9. VersionsClashOnlyAcrossYears'
    <2> SUFFICES ASSUME NEW w \in Users, allocated'[w] # 0
                 PROVE  /\ \A q \in Existing : version[q] >= allocated'[w] => year[q] # locked'[w]
                        /\ \A x \in Users \ {w} :
                             allocated'[x] = allocated'[w] => locked'[x] # locked'[w]
      BY <1>4, <1>6 DEF VersionsClashOnlyAcrossYears
    <2>1. \A q \in Existing : version[q] >= allocated'[w] => year[q] # locked'[w]
      <3>1. CASE w = u
        <4>1. allocated'[w] = v
          BY <1>1, <3>1 DEF TypeOK
        <4> QED BY <1>2, <1>3, <4>1 DEF TypeOK, Existing
      <3>2. CASE w # u
        BY <1>7, <3>2 DEF VersionsClashOnlyAcrossYears
      <3> QED BY <3>1, <3>2
    <2>2. \A x \in Users \ {w} : allocated'[x] = allocated'[w] => locked'[x] # locked'[w]
      BY <1>8 DEF OneAllocation
    <2> QED BY <2>1, <2>2
  <1>10. VersionsAreASequence'
    <2>1. Continues(v)
      BY <1>1 DEF IsNextVersion, Continues
    <2>2. \A w \in Users : allocated'[w] # 0 => Continues(allocated'[w])
      BY <1>1, <1>7, <2>1 DEF VersionsAreASequence, TypeOK
    <2>3. \A n : Continues(n)' <=> Continues(n)
      BY <1>4, <1>6 DEF Continues
    <2> QED BY <1>4, <1>6, <2>2, <2>3 DEF VersionsAreASequence, Continues
  <1>11. RevisesRevisable'
    <2>1. /\ copy[u].request # "NONE"
          /\ copy[u].quote \in Quotes => copy[u].status \in Revisable
      BY QuotesAssumption DEF AllocateVersion, TakesVersion, MayCreate, HoldsRequest,
                              RequestAllowsQuote
    <2>2. copy[u].quote \in Quotes => version[copy[u].quote] < v
      BY <1>3 DEF CopiesOK, CopyOK
    <2>3. allocated'[u] = v
      BY <1>1 DEF TypeOK
    <2> QED BY <1>4, <1>7, <2>1, <2>2, <2>3 DEF RevisesRevisable
  <1>12. /\ RowsApproved' /\ CopiesOK' /\ SupersededHasSuccessor'
         /\ TotalsMatchCharges' /\ OfferFollowsApproval'
    BY <1>4, <1>6 DEF RowsApproved, CopiesOK, CopyOK, SupersededHasSuccessor,
                      TotalsMatchCharges, OfferFollowsApproval
  <1> QED BY <1>5, <1>8, <1>9, <1>10, <1>11, <1>12

LEMMA RollbackStep ==
  ASSUME IInv, NEW u \in Users, Rollback(u)
  PROVE  IInv'
  <1> USE DEF IInv
  <1>1. Nothing \in Copies /\ Nothing.quote \notin Quotes
    BY QuotesAssumption DEF Nothing, Copies
  <1>2. TypeOK'
    BY <1>1 DEF TypeOK, Rollback, rows, Finish
  <1>3. /\ Existing' = Existing
        /\ UNCHANGED <<status, version, year, revisionOf, charges, total, approvals, offered>>
    BY DEF Rollback, rows, Existing
  <1>4. \A w \in Users : copy'[w].quote \in Quotes => copy'[w] = copy[w]
    BY <1>1 DEF TypeOK, Rollback, Finish
  <1>5. \A w \in Users : allocated'[w] # 0 =>
          /\ allocated'[w] = allocated[w] /\ locked'[w] = locked[w] /\ copy'[w] = copy[w]
    BY DEF TypeOK, Rollback, Finish
  <1>6. OneAllocation' /\ RevisesRevisable'
    BY <1>3, <1>5 DEF OneAllocation, RevisesRevisable
  <1>7. VersionsClashOnlyAcrossYears'
    BY <1>3, <1>5 DEF VersionsClashOnlyAcrossYears
  <1>8. VersionsAreASequence'
    BY <1>3, <1>5 DEF VersionsAreASequence, Continues
  <1>9. ASSUME NEW w \in Users PROVE CopyOK(w)'
    <2>1. CASE copy'[w].quote \in Quotes
      BY <1>3, <1>4, <2>1 DEF CopiesOK, CopyOK
    <2>2. CASE copy'[w].quote \notin Quotes
      BY <2>2 DEF CopyOK
    <2> QED BY <2>1, <2>2
  <1>10. RowsApproved' /\ SupersededHasSuccessor' /\ TotalsMatchCharges' /\ OfferFollowsApproval'
    BY <1>3 DEF RowsApproved, SupersededHasSuccessor, TotalsMatchCharges, OfferFollowsApproval
  <1> QED BY <1>2, <1>6, <1>7, <1>8, <1>9, <1>10 DEF CopiesOK

(* The new quote, and the source it supersedes, appear together. *)
LEMMA InsertStep ==
  ASSUME IInv, NEW u \in Users, NEW n \in Quotes, NEW c \in Compositions,
         NEW day \in Validities, InsertQuote(u, n, c, day)
  PROVE  IInv'
  <1> USE DEF IInv
  <1> DEFINE source == copy[u].quote
  <1>1. /\ Nothing \in Copies /\ Nothing.quote \notin Quotes
        /\ NoQuote \notin Quotes
    BY QuotesAssumption DEF Nothing, Copies
  <1>2. /\ n \notin Existing
        /\ source \in Quotes => source \in Existing /\ source # n
        /\ allocated[u] # 0
    BY DEF InsertQuote, CopiesOK, CopyOK
  <1>3. /\ \A q \in Quotes : status'[q] = IF q = n THEN "DRAFT"
                                        ELSE IF q = source THEN "SUPERSEDED" ELSE status[q]
        /\ status' \in [Quotes -> QuoteStatus \cup {"NONE"}]
    BY DEF InsertQuote, TypeOK, QuoteStatus
  <1>4. Existing' = Existing \cup {n}
    BY <1>2, <1>3 DEF Existing
  <1>5. Total(c) \in Nat
    BY TotalIsNat DEF InsertQuote
  <1>6. TypeOK'
    <2>1. /\ version' \in [Quotes -> Nat] /\ year' \in [Quotes -> Nat]
          /\ allocated' \in [Users -> Nat] /\ locked' \in [Users -> Nat]
      BY DEF InsertQuote, TypeOK
    <2>2. revisionOf' \in [Quotes -> Quotes \cup {NoQuote}]
      BY DEF InsertQuote, TypeOK, Copies
    <2>3. total' \in [Quotes -> Nat] /\ charges' \in [Quotes -> Compositions]
      BY <1>5 DEF InsertQuote, TypeOK, PersistTotals
    <2>4. validUntil' \in [Quotes -> Nat]
      BY QuotesAssumption DEF InsertQuote, TypeOK
    <2>5. request' \in RequestStatus
      BY DEF InsertQuote, TypeOK, RequestStatus
    <2>6. copy' \in [Users -> Copies]
      BY <1>1 DEF InsertQuote, TypeOK, Finish
    <2> QED BY <1>3, <2>1, <2>2, <2>3, <2>4, <2>5, <2>6 DEF TypeOK, InsertQuote
  <1>7. \A w \in Users : allocated'[w] # 0 =>
          /\ w # u /\ allocated'[w] = allocated[w]
          /\ locked'[w] = locked[w] /\ copy'[w] = copy[w]
    BY DEF InsertQuote, TypeOK, Finish
  <1>8. \A w \in Users : copy'[w].quote \in Quotes => copy'[w] = copy[w]
    BY <1>1 DEF InsertQuote, TypeOK, Finish
  <1>v. /\ \A q \in Existing : q # n /\ version'[q] = version[q] /\ year'[q] = year[q]
        /\ version'[n] = allocated[u] /\ year'[n] = locked[u]
        /\ allocated[u] \in Nat /\ \A q \in Existing : version[q] \in Nat
    BY <1>2 DEF InsertQuote, TypeOK, Existing
  <1>9. OneAllocation' /\ RevisesRevisable' /\ VersionsClashOnlyAcrossYears'
    <2>1. OneAllocation'
      BY <1>7 DEF OneAllocation
    <2>2. RevisesRevisable'
      BY <1>7, <1>v DEF RevisesRevisable, CopiesOK, CopyOK
    <2>3. VersionsClashOnlyAcrossYears'
      <3> SUFFICES ASSUME NEW w \in Users, allocated'[w] # 0
                   PROVE  /\ \A q \in Existing' :
                               version'[q] >= allocated'[w] => year'[q] # locked'[w]
                          /\ \A x \in Users \ {w} :
                               allocated'[x] = allocated'[w] => locked'[x] # locked'[w]
        BY DEF VersionsClashOnlyAcrossYears
      <3>1. year'[n] # locked'[w]
        BY <1>2, <1>7, <1>v DEF OneAllocation
      <3>2. \A q \in Existing : version'[q] >= allocated'[w] => year'[q] # locked'[w]
        BY <1>7, <1>v DEF VersionsClashOnlyAcrossYears
      <3> QED BY <1>4, <2>1, <3>1, <3>2 DEF OneAllocation
    <2> QED BY <2>1, <2>2, <2>3
  <1>s. VersionsAreASequence'
    <2>1. \A q \in Existing : version[q] # allocated[u]
      BY DEF InsertQuote
    <2>2. \A q, r \in Existing' : version'[q] = version'[r] => q = r
      BY <1>4, <1>v, <2>1 DEF VersionsAreASequence
    <2>3. \A m : Continues(m) => m = 1 \/ \E q \in Existing' : m = version'[q] + 1
      BY <1>4, <1>v DEF Continues
    <2>4. \A q \in Existing' : Continues(version'[q])
      BY <1>2, <1>4, <1>v DEF VersionsAreASequence
    <2>5. \A w \in Users : allocated'[w] # 0 => Continues(allocated'[w])
      BY <1>7 DEF VersionsAreASequence
    <2> QED BY <2>2, <2>3, <2>4, <2>5 DEF VersionsAreASequence, Continues
  <1>10. RowsApproved' /\ OfferFollowsApproval'
    BY <1>3 DEF RowsApproved, OfferFollowsApproval, InsertQuote, EligibleForOffer
  <1>11. ASSUME NEW w \in Users PROVE CopyOK(w)'
    <2>1. CASE copy'[w].quote \in Quotes
      BY <1>4, <1>8, <2>1 DEF CopiesOK, CopyOK, InsertQuote
    <2>2. CASE copy'[w].quote \notin Quotes
      BY <2>2 DEF CopyOK
    <2> QED BY <2>1, <2>2
  <1>12. TotalsMatchCharges'
    BY <1>4 DEF TotalsMatchCharges, InsertQuote, PersistTotals, TypeOK, Existing
  <1>13. SupersededHasSuccessor'
    <2> SUFFICES ASSUME NEW q \in Quotes, status'[q] = "SUPERSEDED"
                 PROVE  \E r \in Existing' : revisionOf'[r] = q /\ version'[r] > version'[q]
      BY DEF SupersededHasSuccessor
    <2>1. /\ \A r \in Quotes \ {n} : version'[r] = version[r] /\ revisionOf'[r] = revisionOf[r]
          /\ version'[n] = allocated[u] /\ revisionOf'[n] = source
      BY DEF InsertQuote, TypeOK
    <2>2. q # n
      BY <1>3
    <2>3. CASE q = source
      <3>1. version[q] < allocated[u]
        BY <1>2, <2>3 DEF RevisesRevisable
      <3> QED BY <1>4, <2>1, <2>2, <2>3, <3>1 DEF TypeOK
    <2>4. CASE q # source
      <3>1. status[q] = "SUPERSEDED"
        BY <1>3, <2>2, <2>4
      <3>2. PICK r \in Existing : revisionOf[r] = q /\ version[r] > version[q]
        BY <3>1 DEF SupersededHasSuccessor
      <3> QED BY <1>2, <1>4, <2>1, <2>2, <3>2 DEF Existing
    <2> QED BY <2>3, <2>4
  <1> QED BY <1>6, <1>9, <1>s, <1>10, <1>11, <1>12, <1>13 DEF CopiesOK

LEMMA NextIInv == IInv /\ [Next]_vars => IInv'
  <1> SUFFICES ASSUME IInv, [Next]_vars PROVE IInv' OBVIOUS
  <1>1. CASE DayPasses
    <2>1. Existing' = Existing
      BY <1>1 DEF DayPasses, Existing, rows
    <2> QED
      BY <1>1, <2>1, QuotesAssumption
      DEF DayPasses, IInv, TypeOK, OneAllocation, RevisesRevisable, RowsApproved, CopiesOK,
          CopyOK, VersionsClashOnlyAcrossYears, VersionsAreASequence, Continues,
          SupersededHasSuccessor, TotalsMatchCharges, OfferFollowsApproval, rows, transactions
  <1>2. CASE UNCHANGED vars
    <2>1. Existing' = Existing
      BY <1>2 DEF vars, Existing, rows
    <2> QED
      BY <1>2, <2>1
      DEF vars, IInv, TypeOK, OneAllocation, RevisesRevisable, RowsApproved, CopiesOK,
          CopyOK, VersionsClashOnlyAcrossYears, VersionsAreASequence, Continues,
          SupersededHasSuccessor, TotalsMatchCharges, OfferFollowsApproval, rows, transactions
  <1>3. ASSUME NEW u \in Users,
               \/ LoadRequest(u) \/ GiveUp(u) \/ SubmitRequest(u) \/ CancelRequest(u)
               \/ ChangeRequestStatus(u) \/ EditRequest(u) \/ SubmitForReview(u) \/ Approve(u)
               \/ Reject(u) \/ Send(u) \/ CancelQuote(u) \/ ExpireOnView(u)
               \/ AllocateVersion(u) \/ Rollback(u) \/ CreateOffer(u)
               \/ \E q \in Quotes : LoadQuote(u, q)
               \/ \E c \in Compositions, day \in Validities : EditDraft(u, c, day)
               \/ \E q \in Quotes, c \in Compositions, day \in Validities :
                     InsertQuote(u, q, c, day)
        PROVE  IInv'
    <2> USE DEF IInv
    <2>a. /\ Nothing \in Copies /\ Nothing.quote \notin Quotes
          /\ Nothing.quote = NoQuote
      BY QuotesAssumption DEF Nothing, Copies
    <2>b. copy[u] \in Copies /\ today \in 1..LastDay
      BY DEF TypeOK
    <2>1. CASE LoadRequest(u) \/ GiveUp(u)
      <3>1. /\ [Nothing EXCEPT !.request = request] \in Copies
            /\ [Nothing EXCEPT !.request = request].quote = NoQuote
        BY <2>a DEF Copies, Nothing, TypeOK
      <3>2. allocated[u] = 0
        BY <2>1 DEF LoadRequest, GiveUp, HoldsRequest, HoldsQuote, RevisesRevisable, Nothing
      <3>3. /\ request' \in RequestStatus /\ offered' \subseteq approvals
            /\ today' = today /\ UNCHANGED <<rows, approvals, transactions>>
        BY <2>1 DEF LoadRequest, GiveUp, TypeOK, OfferFollowsApproval
      <3>4. CASE LoadRequest(u)
        <4> DEFINE c == [Nothing EXCEPT !.request = request]
        <4>1. copy' = [copy EXCEPT ![u] = c]
          BY <3>4 DEF LoadRequest
        <4> HIDE DEF c
        <4> QED BY <3>1, <3>2, <3>3, <4>1, CopyStep DEF c
      <3>5. CASE GiveUp(u)
        BY <3>5, <2>a, <3>2, <3>3, CopyStep DEF GiveUp, Finish
      <3> QED BY <2>1, <3>4, <3>5
    <2>2. CASE SubmitRequest(u) \/ CancelRequest(u) \/ ChangeRequestStatus(u) \/ EditRequest(u)
      <3>1. /\ HoldsRequest(u) /\ Finish(u) /\ request' \in RequestStatus
            /\ UNCHANGED <<rows, today, approvals, offered, transactions>>
        BY <2>2 DEF SubmitRequest, CancelRequest, ChangeRequestStatus, MoveRequest, EditRequest,
                    RequestStatus
      <3> QED BY <2>a, <3>1, CopyStep DEF Finish, HoldsRequest, OfferFollowsApproval
    <2>3. CASE CreateOffer(u)
      <3>1. offered' \subseteq approvals
        BY <2>3 DEF CreateOffer, HoldsQuote, CopiesOK, CopyOK, OfferFollowsApproval
      <3> QED BY <2>3, <2>a, <3>1, CopyStep DEF CreateOffer, Finish, HoldsQuote, TypeOK
    <2>4. CASE \E q \in Quotes : LoadQuote(u, q)
      <3>1. PICK q \in Quotes : LoadQuote(u, q)
        BY <2>4
      <3> DEFINE c == [quote |-> q, status |-> status[q], total |-> total[q],
                       validUntil |-> validUntil[q], request |-> request]
      <3>2. c \in Copies /\ c.quote \in Existing /\ c.status = status[c.quote]
        BY <3>1 DEF Copies, TypeOK, LoadQuote, Existing
      <3>3. allocated[u] = 0
        BY <3>1 DEF LoadQuote, RevisesRevisable, Nothing
      <3>4. copy' = [copy EXCEPT ![u] = c]
        BY <3>1 DEF LoadQuote
      <3> HIDE DEF c
      <3> QED BY <3>1, <3>2, <3>3, <3>4, CopyStep DEF LoadQuote, TypeOK, OfferFollowsApproval
    <2>5. CASE \/ SubmitForReview(u) \/ Reject(u) \/ CancelQuote(u) \/ ExpireOnView(u)
      <3>1. PICK t \in {"UNDER_REVIEW", "REJECTED", "CANCELLED", "EXPIRED"} : Transition(u, t)
        BY <2>5 DEF SubmitForReview, Reject, CancelQuote, ExpireOnView
      <3>2. UNCHANGED <<request, approvals>>
        BY <2>5 DEF SubmitForReview, Reject, CancelQuote, ExpireOnView
      <3>3. t \in QuoteStatus /\ t \notin EligibleForOffer
        BY DEF QuoteStatus, EligibleForOffer
      <3> QED BY <3>1, <3>2, <3>3, TransitionStep DEF TypeOK
    <2>6. CASE Approve(u)
      <3>1. /\ Transition(u, "APPROVED") /\ approvals' = approvals \cup {copy[u].quote}
            /\ copy[u].quote \in Quotes
        BY <2>6 DEF Approve, Transition, HoldsQuote
      <3>2. request' \in RequestStatus
        BY <2>6 DEF Approve, CommercialGate, TypeOK, RequestStatus
      <3>3. "APPROVED" \in QuoteStatus
        BY DEF QuoteStatus
      <3> QED BY <3>1, <3>2, <3>3, TransitionStep DEF TypeOK
    <2>7. CASE Send(u)
      <3>1. Transition(u, "SENT") /\ approvals' = approvals
        BY <2>7 DEF Send
      <3>2. request' \in RequestStatus
        BY <2>7 DEF Send, CommercialGate, TypeOK, RequestStatus
      <3>3. copy[u].quote \in approvals
        BY <3>1, QuoteTable DEF Transition, HoldsQuote, CopiesOK, CopyOK, EligibleForOffer
      <3>4. "SENT" \in QuoteStatus
        BY DEF QuoteStatus
      <3> QED BY <3>1, <3>2, <3>3, <3>4, TransitionStep DEF TypeOK
    <2>8. CASE AllocateVersion(u)
      BY <2>8, AllocateStep
    <2>9. CASE Rollback(u)
      BY <2>9, RollbackStep
    <2>10. CASE \E c \in Compositions, day \in Validities : EditDraft(u, c, day)
      BY <2>10, EditStep
    <2>11. CASE \E q \in Quotes, c \in Compositions, day \in Validities : InsertQuote(u, q, c, day)
      BY <2>11, InsertStep
    <2> QED BY <1>3, <2>1, <2>2, <2>3, <2>4, <2>5, <2>6, <2>7, <2>8, <2>9, <2>10, <2>11
  <1> QED BY <1>1, <1>2, <1>3 DEF Next

THEOREM InvariantHolds == Spec => []IInv
  BY InitIInv, NextIInv, PTL DEF Spec

(* Rows and copies are well typed, and no total is negative. *)
THEOREM TypeCorrect == Spec => []TypeOK
  BY InvariantHolds, PTL DEF IInv

(* A transaction's version is met only by what another year's sequence     *)
(* coded: two creations clash astride New Year and at no other time.       *)
THEOREM ClashesAreAcrossYears == Spec => []VersionsClashOnlyAcrossYears
  BY InvariantHolds, PTL DEF IInv

(* The versions of the request's quotes run from 1 without a gap and none  *)
(* twice, astride New Year too, whatever is rolled back.                   *)
THEOREM VersionsHaveNoGaps == Spec => []VersionsAreASequence
  BY InvariantHolds, PTL DEF IInv

(* Superseding and the new quote stand or fall together.                   *)
THEOREM SupersededAreSucceeded == Spec => []SupersededHasSuccessor
  BY InvariantHolds, PTL DEF IInv

(* Totals are what the charges add up to, through edits of stale copies.   *)
THEOREM TotalsStayExact == Spec => []TotalsMatchCharges
  BY InvariantHolds, PTL DEF IInv

(* No offer without an approval of its quote, through stale copies.        *)
THEOREM OffersAreApproved == Spec => []OfferFollowsApproval
  BY InvariantHolds, PTL DEF IInv

LEMMA RevivalStep ==
  ASSUME IInv, [Next]_vars,
         NEW q \in Quotes, status[q] \in Final, status'[q] # status[q]
  PROVE  \E u \in Users : copy[u].quote = q /\ copy[u].status \notin Final
  <1> USE DEF IInv
  <1>1. status' # status
    OBVIOUS
  <1>2. PICK u \in Users :
          \/ \E t \in QuoteStatus : Transition(u, t)
          \/ \E c \in Compositions, day \in Validities : EditDraft(u, c, day)
          \/ \E n \in Quotes, c \in Compositions, day \in Validities : InsertQuote(u, n, c, day)
    BY <1>1
    DEF Next, vars, rows, DayPasses, LoadRequest, GiveUp, SubmitRequest, CancelRequest,
        ChangeRequestStatus, MoveRequest, EditRequest, SubmitForReview, Approve, Reject, Send,
        CancelQuote, ExpireOnView, AllocateVersion, Rollback, CreateOffer, LoadQuote, QuoteStatus
  <1>3. copy[u].quote \in Quotes => copy[u].status \in QuoteStatus
    BY DEF CopiesOK, CopyOK
  <1>4. CASE \E t \in QuoteStatus : Transition(u, t)
    BY <1>3, <1>4, QuoteTable DEF Transition, HoldsQuote, TypeOK
  <1>5. CASE \E c \in Compositions, day \in Validities : EditDraft(u, c, day)
    BY <1>5 DEF EditDraft, HoldsQuote, TypeOK, Final
  <1>6. CASE \E n \in Quotes, c \in Compositions, day \in Validities : InsertQuote(u, n, c, day)
    <2>1. PICK n \in Quotes, c \in Compositions, day \in Validities : InsertQuote(u, n, c, day)
      BY <1>6
    <2>2. q # n
      BY <2>1 DEF InsertQuote, Existing, Final
    <2>3. q = copy[u].quote
      BY <2>1, <2>2 DEF InsertQuote, TypeOK
    <2> QED BY <2>1, <2>3 DEF InsertQuote, RevisesRevisable, Revisable, Final
  <1> QED BY <1>2, <1>4, <1>5, <1>6

(* A settled quote is only revived by a call that loaded it before.        *)
THEOREM RevivalsAreStale == Spec => OnlyStaleCopiesRevive
  <1>1. IInv /\ [Next]_vars =>
          [\A q \in Quotes :
             status[q] \in Final /\ status'[q] # status[q] =>
               \E u \in Users : copy[u].quote = q /\ copy[u].status \notin Final]_vars
    BY RevivalStep
  <1> QED BY <1>1, InvariantHolds, PTL DEF Spec, OnlyStaleCopiesRevive
================================================================================
