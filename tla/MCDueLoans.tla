------------------------------ MODULE MCDueLoans ------------------------------
(* Small instances of DueLoans for TLC. *)
EXTENDS DueLoans, TLC

CONSTANTS l1, l2, r1, r2
=============================================================================
