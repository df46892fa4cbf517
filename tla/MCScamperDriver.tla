--------------------------- MODULE MCScamperDriver ---------------------------
(* Instances of ScamperDriver for TLC: three requests, one of which has       *)
(* other parameters than the others.                                          *)
EXTENDS ScamperDriver, TLC

CONSTANTS r1, r2, r3

ThreeRequests == {r1, r2, r3}
TwoWaits == (r1 :> 10) @@ (r2 :> 10) @@ (r3 :> 20)
=============================================================================
