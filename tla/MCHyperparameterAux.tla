------------------------- MODULE MCHyperparameterAux -------------------------
(* Small instances of HyperparameterAux. *)
EXTENDS HyperparameterAux

CONSTANTS c1, c2, w1, w2, w3
==============================================================================
