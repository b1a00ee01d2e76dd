------------------------ MODULE MCThreadTransactions ------------------------
(* ThreadTransactions for TLC; the configurations give the constants. *)
EXTENDS ThreadTransactions
=============================================================================
