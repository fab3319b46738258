---------------------------- MODULE MCUsersStore ----------------------------
(***************************************************************************)
(* UsersStore on a small instance: the threads are interchangeable.        *)
(***************************************************************************)
EXTENDS UsersStore, TLC

ThreadSymmetry == Permutations(Threads)
=============================================================================
