\* Two users with their copies, two quotes, two days with New Year between.
SPECIFICATION Spec
CONSTANTS
  q1 = q1
  q2 = q2
  u1 = u1
  u2 = u2
  noQuote = noQuote
  NoQuote = noQuote
  Quotes = {q1, q2}
  Users = {u1, u2}
  Compositions <- MCCompositions
  Validities = {1}
  LastDay = 2
  YearOf <- MCYearOf
INVARIANTS
  VersionsClashOnlyAcrossYears
  SupersededHasSuccessor
  TotalsMatchCharges
  OfferFollowsApproval
PROPERTIES
  OnlyStaleCopiesRevive
SYMMETRY MCSymmetry
CHECK_DEADLOCK FALSE
