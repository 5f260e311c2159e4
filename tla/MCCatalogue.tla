----------------------------- MODULE MCCatalogue -----------------------------
(* Small instances of Catalogue for TLC. *)
EXTENDS Catalogue

CONSTANTS a1, b1, b2, l1, l2, u1, p1, r1, r2
=============================================================================
