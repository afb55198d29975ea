\* Two requests with their copies of the offer, two candidates, two selections.
SPECIFICATION Spec
CONSTANTS
  full = full
  driver = driver
  i1 = i1
  i2 = i2
  i3 = i3
  s1 = s1
  s2 = s2
  Candidates <- MCCandidates
  Shape <- MCShape
  Interests <- MCInterests
  CandidateOf <- MCCandidateOf
  Selections = {s1, s2}
  Requests = {r1, r2}
  NoCandidate = noCandidate
INVARIANTS
  OneActiveSelection
  SelectedIsBacked
  OperationsAreConfirmed
PROPERTIES
  AwardIsFinal
  SettledInterestsStay
CHECK_DEADLOCK FALSE
