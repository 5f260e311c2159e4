------------------------------ MODULE MCAccounts ------------------------------
(* Small instances of Accounts for TLC. *)
EXTENDS Accounts, TLC

CONSTANTS u1, u2, u3, e1, e2, n1, r1, r2

(* Instances differ only by name. *)
Symmetry == Permutations(UserIds \ InitialUsers) \cup Permutations(Emails)
            \cup Permutations(Requests)
=============================================================================
