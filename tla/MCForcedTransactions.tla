------------------------ MODULE MCForcedTransactions ------------------------
(* Small instances of ForcedTransactions for TLC.                            *)
EXTENDS ForcedTransactions
=============================================================================
