\* One reviewer; the renewal of an approved document.
SPECIFICATION Spec
CONSTANTS
  d1 = d1
  d2 = d2
  d3 = d3
  r1 = r1
  r2 = r2
  license = license
  course = course
  noDocument = noDocument
  NoDocument = noDocument
  Documents = {d1, d2, d3}
  Kinds = {license, course}
  Required = {license}
  Reviewers = {r1}
  Expirations = {0, 2}
  Warning = 1
  LastDay = 3
INVARIANTS
  ApprovedCanBeReplaced
CHECK_DEADLOCK FALSE
