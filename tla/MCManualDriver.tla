--------------------------- MODULE MCManualDriver ---------------------------
(* An instance of ManualDriver for TLC; every constant is given in the .cfg.  *)
EXTENDS ManualDriver
=============================================================================
