------------------------------ MODULE MCHandler ------------------------------
(* Instances of Handler for TLC: two requests for one image.                  *)
EXTENDS Handler

CONSTANTS r1, r2, k1

\* Requests that compete for one key.
MCTwo == {r1, r2}
MCOneKey == {k1}
MCSameKey == [r \in Requests |-> k1]
=============================================================================
