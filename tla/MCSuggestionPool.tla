--------------------------- MODULE MCSuggestionPool ---------------------------
(* Small instances of SuggestionPool. *)
EXTENDS SuggestionPool, TLC

CONSTANTS s1, s2, s3, c1

MCTwoBatches == (s1 :> {2} @@ s2 :> {1, 3})
==============================================================================
