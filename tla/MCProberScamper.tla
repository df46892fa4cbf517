-------------------------- MODULE MCProberScamper --------------------------
(* Instances of ProberScamper for TLC: the instances of Prober with a batch   *)
(* that one skipped slice lets fill, and one that it does not.                *)
EXTENDS ProberScamper, TLC

TwoSlash24s == {1, 2}
TwoList == {<<1, 2>>}
TwoRecovery == (1 :> 1) @@ (2 :> 0)
NoRecovery == (1 :> 0) @@ (2 :> 0)
TwoMetas == (1 :> {"as1", "eu"}) @@ (2 :> {"eu"})
Tags == {"as1", "eu"}
CoarseLevels == {1, 50, 99}
============================================================================
