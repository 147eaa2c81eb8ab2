----------------------------- MODULE MCPayments ------------------------------
(***************************************************************************)
(* Payments on small instances.                                            *)
(***************************************************************************)
EXTENDS Payments, TLC

Symmetry == Permutations(Requests) \cup Permutations(Verifiers)
==============================================================================
