-------------------------- MODULE MCSettingsStore --------------------------
(***************************************************************************)
(* SettingsStore on a small instance: the threads are interchangeable.     *)
(***************************************************************************)
EXTENDS SettingsStore, TLC

ThreadSymmetry == Permutations(Threads)
=============================================================================
