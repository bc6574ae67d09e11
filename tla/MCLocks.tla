------------------------------ MODULE MCLocks ------------------------------
(* Small instances of the locks for TLC. *)
EXTENDS Locks, TLC

ThreadSymmetry == Permutations(Threads)
=============================================================================
