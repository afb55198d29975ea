---------------------------- MODULE MCFreightQuotes ----------------------------
(* Two quotes and two users, two days with New Year between.  One           *)
(* composition has a discount above everything else.                        *)
EXTENDS FreightQuotes, TLC

CONSTANTS q1, q2, u1, u2, noQuote

Composed(base, discount) ==
  [base |-> base, extra |-> 1, insurance |-> 0, tax |-> 0, discount |-> discount]
MCCompositions == {Composed(2, 1), Composed(0, 2)}

MCYearOf == [day \in 1..2 |-> day]

MCSymmetry == Permutations(Quotes) \cup Permutations(Users)
================================================================================
