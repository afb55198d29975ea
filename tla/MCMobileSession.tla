--------------------------- MODULE MCMobileSession ---------------------------
(* A small instance of MobileSession: two drivers share a phone, two calls *)
(* are in flight and the app is killed and a revocation lost once.         *)
EXTENDS MobileSession, TLC

DriversAndCalls == Permutations(Drivers) \cup Permutations(Calls)
==============================================================================
