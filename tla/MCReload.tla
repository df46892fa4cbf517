------------------------------ MODULE MCReload ------------------------------
(* Instances of Reload for TLC: two names for reload threads, so that a       *)
(* second one can be created if nothing prevents it.                          *)
EXTENDS Reload

TwoLoaders == {1, 2}
MainAndLoader == {"main", "loader"}
AllThreads == {"main", "driver", "loader"}
=============================================================================
