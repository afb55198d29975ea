-------------------------- MODULE MCContractedRoutes -------------------------
(* r1 runs every day, r2 only on the first; r1's first day is refused. *)
EXTENDS ContractedRoutes

CONSTANTS r1, r2

MCOperatesOn == {<<r1, 1>>, <<r1, 2>>, <<r2, 1>>}
MCBroken == {<<r1, 1>>}
==============================================================================
