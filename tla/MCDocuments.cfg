\* Three documents, two types, two reviewers; one document expires, one does not.
SPECIFICATION Spec
CONSTANTS
  d1 = d1
  d2 = d2
  d3 = d3
  r1 = r1
  r2 = r2
  license = license
  course = course
  noDocument = noDocument
  NoDocument = noDocument
  Documents = {d1, d2, d3}
  Kinds = {license, course}
  Required = {license}
  Reviewers = {r1, r2}
  Expirations = {0, 2}
  Warning = 1
  LastDay = 3
INVARIANTS
  VerdictIsUnique
  DecisionsAgree
PROPERTIES
  OnlyApprovalsMakeCompliant
  OnlyStaleReviewsRestore
SYMMETRY MCSymmetry
CHECK_DEADLOCK FALSE
