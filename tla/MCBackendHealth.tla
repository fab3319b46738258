-------------------------- MODULE MCBackendHealth --------------------------
(***************************************************************************)
(* BackendHealth on a small instance: the threads are interchangeable.     *)
(***************************************************************************)
EXTENDS BackendHealth, TLC

ThreadSymmetry == Permutations(Threads)
=============================================================================
