-------------------------- MODULE MCBillingCenter --------------------------
(* Small instances of BillingCenter for TLC. *)
EXTENDS BillingCenter, TLC

CONSTANTS e1, e2, w1, w2

Symmetry == Permutations({w1, w2})
=============================================================================
