--------------------------- MODULE MCPaymentAnchors ---------------------------
(***************************************************************************)
(* PaymentAnchors on small instances.                                      *)
(***************************************************************************)
EXTENDS PaymentAnchors, TLC

Symmetry == Permutations(Reconcilers) \cup Permutations(Callers)
=============================================================================
