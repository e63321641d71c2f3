----------------------------- MODULE MCMetrics -----------------------------
(* Instances of Handler with its Metrics for TLC.                             *)
EXTENDS Metrics, TLC

CONSTANTS r1, r2, r3, p1, k1, k2

\* Requests that compete for one key.
MCRequests == {r1, r2, r3}
MCTwo == {r1, r2}
MCKeys == {k1}
MCKeyOf == [r \in Requests |-> k1]
MCSymmetry == Permutations(Requests)

\* An image, a source that is no image, and a request without parameters.
MCMixed == {r1, r2, p1}
MCTwoKeys == {k1, k2}
MCMixedKey == [r \in Requests |-> IF r = r2 THEN k2 ELSE k1]
MCPass == {p1}
MCNonImage == {k2}

MCAllFaults == FaultKinds
=============================================================================
