---------------------------- MODULE MCMemoryWait ----------------------------
(* Instances of MemoryWait for TLC. *)
EXTENDS MemoryWait, TLC

Symmetry == Permutations(Threads)
=============================================================================
