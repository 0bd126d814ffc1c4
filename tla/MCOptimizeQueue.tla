--------------------------- MODULE MCOptimizeQueue ---------------------------
(* Small instances of OptimizeQueue. *)
EXTENDS OptimizeQueue, TLC

CONSTANTS h1, h2, w1, w2, up

(* Changes are alike, and so are workers. *)
Alike == Permutations(Changes) \union Permutations(Workers)
==============================================================================
