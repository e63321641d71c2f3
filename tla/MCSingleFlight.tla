--------------------------- MODULE MCSingleFlight ---------------------------
(* Instance of SingleFlight for TLC: three invocations that compete for one   *)
(* key and one of another key.                                                *)
EXTENDS SingleFlight

CONSTANTS c1, c2, c3, d1, k1, k2

MCCallers == {c1, c2, c3, d1}
MCKeys == {k1, k2}
MCKeyOf == [c \in MCCallers |-> IF c = d1 THEN k2 ELSE k1]
=============================================================================
