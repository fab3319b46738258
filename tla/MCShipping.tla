----------------------------- MODULE MCShipping -----------------------------
(***************************************************************************)
(* Shipping on a small instance: the keys are interchangeable.             *)
(***************************************************************************)
EXTENDS Shipping, TLC

KeySymmetry == Permutations(Keys)
=============================================================================
