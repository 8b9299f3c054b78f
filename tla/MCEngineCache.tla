--------------------------- MODULE MCEngineCache ---------------------------
(* An instance of EngineCache for TLC. *)
EXTENDS EngineCache

CONSTANTS h1, h2, h3, h4, i1, i2, i3

(* Two handles of one module, one each of two others. *)
MCIdOf == [h \in Handles |-> CASE h \in {h1, h2} -> i1
                               [] h = h3 -> i2 [] h = h4 -> i3]

Symmetry == Permutations(Threads) \cup Permutations({h1, h2})
============================================================================
