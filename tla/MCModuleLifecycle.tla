------------------------- MODULE MCModuleLifecycle -------------------------
(* Instances of ModuleLifecycle for TLC. *)
EXTENDS ModuleLifecycle, TLC

CONSTANT n1

(* Every module asks for the same name. *)
SameName == [m \in Modules |-> n1]

Symmetry == Permutations(Threads) \cup Permutations(Modules)
============================================================================
