------------------------- MODULE MCGuestExecutions -------------------------
(* Instances of GuestExecutions for TLC. *)
EXTENDS GuestExecutionsInv, TLC

Symmetry == Permutations(Threads)
============================================================================
