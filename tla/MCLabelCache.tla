---------------------------- MODULE MCLabelCache ----------------------------
(***************************************************************************)
(* LabelCache on a small instance: the orders are interchangeable.         *)
(***************************************************************************)
EXTENDS LabelCache, TLC

OrderSymmetry == Permutations(Orders)
=============================================================================
