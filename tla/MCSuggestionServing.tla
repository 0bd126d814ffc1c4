-------------------------- MODULE MCSuggestionServing --------------------------
(* Small instances of SuggestionServing. *)
EXTENDS SuggestionServing

CONSTANTS r1, r2, r3, q1, q2, u1, u2, a1, a2, i1, i2, i3, i4, i5, i6, i7, i8

(* All suggestions have the assignments a1. *)
QueuedSame == [q \in QueuedIds |-> a1]
PoolSame == [u \in Uuids |-> a1]

==============================================================================
