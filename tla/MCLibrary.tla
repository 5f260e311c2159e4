------------------------------ MODULE MCLibrary ------------------------------
(* Small instances of Library for TLC. *)
EXTENDS Library, TLC

CONSTANTS u1, u2, b1, b2, l1, l2, l3, v1, v2, v3, r1, r2, r3

(* Instances differ only by name. *)
Symmetry == Permutations(Users) \cup Permutations(Books) \cup Permutations(LoanIds)
            \cup Permutations(ReservationIds) \cup Permutations(Requests)
=============================================================================
