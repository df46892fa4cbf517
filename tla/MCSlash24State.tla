--------------------------- MODULE MCSlash24State ---------------------------
(* Instances of Slash24State for TLC: every percentage with one host, and     *)
(* numbers of hosts around the width of current_host.                         *)
EXTENDS Slash24State

EveryBlock == {<<p, 1>> : p \in 0..100} \cup {<<98, 3>>, <<98, 256>>}
=============================================================================
