------------------------ MODULE MCComplianceDocuments ------------------------
(* Three documents of a required type and of another one, two reviewers. *)
EXTENDS ComplianceDocuments, TLC

CONSTANTS d1, d2, d3, r1, r2, noDocument, license, course

MCSymmetry == Permutations(Documents) \cup Permutations(Reviewers)
===============================================================================
