------------------------------ MODULE MCProber ------------------------------
(* Small instances of Prober for TLC.  The /24s are 1..n, one list names     *)
(* them all, and other lists leave some out.                                 *)
EXTENDS Prober, TLC

\* One /24, followed closely.
OneSlash24 == {1}
OneList == {<<1>>}
OneRecovery == (1 :> 2)
OneMeta == (1 :> {"as1"})

\* Two /24s that share one of two tags.
TwoSlash24s == {1, 2}
TwoList == {<<1, 2>>}
TwoLists == {<<1, 2>>, <<2>>}
TwoRecovery == (1 :> 1) @@ (2 :> 0)
NoRecovery == (1 :> 0) @@ (2 :> 0)
TwoMetas == (1 :> {"as1", "eu"}) @@ (2 :> {"eu"})

\* More /24s than slices.
ThreeSlash24s == 1..3
ThreeList == {<<1, 2, 3>>}
ThreeRecovery == [s \in ThreeSlash24s |-> 0]
LongAndShort == {<<1, 2, 3>>, <<2>>}
ThreeMetas == (1 :> {"as1", "eu"}) @@ (2 :> {"eu"}) @@ (3 :> {"as1"})
SameMetas == [s \in ThreeSlash24s |-> {"eu"}]

Tags == {"as1", "eu"}

CoarseLevels == {1, 50, 99}
FineLevels == {1, 5, 50, 95, 99}
=============================================================================
