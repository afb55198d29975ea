\* One request at a time, one candidate.
SPECIFICATION Spec
CONSTANTS
  full = full
  driver = driver
  i1 = i1
  i2 = i2
  i3 = i3
  s1 = s1
  s2 = s2
  Candidates <- OneCandidate
  Shape <- OneShape
  Interests <- TwoInterests
  CandidateOf <- TwoCandidateOf
  Selections = {s1, s2}
  Requests = {r1}
  NoCandidate = noCandidate
PROPERTIES
  OverdueIsNotConfirmed
CHECK_DEADLOCK FALSE
