---------------------------- MODULE MCMarketplace ----------------------------
(* Small instances of Marketplace: a carrier with a driver and a vehicle    *)
(* that may express interest twice, and an independent driver.              *)
EXTENDS Marketplace, TLC

CONSTANTS full, driver, i1, i2, i3, s1, s2

MCCandidates == {full, driver}
MCShape == full :> "full" @@ driver :> "driver"
MCInterests == {i1, i2, i3}
MCCandidateOf == i1 :> full @@ i2 :> full @@ i3 :> driver

(* One candidate without null columns, two rows. *)
OneCandidate == {full}
OneShape == full :> "full"
TwoInterests == {i1, i2}
TwoCandidateOf == i1 :> full @@ i2 :> full
==============================================================================
