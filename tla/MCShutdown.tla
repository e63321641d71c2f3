----------------------------- MODULE MCShutdown -----------------------------
(* Instances of Shutdown for TLC.                                             *)
EXTENDS Shutdown, TLC

CONSTANTS r1, r2, k1, k2

MCRequests == {r1, r2}
MCOneKey == {k1}
MCSameKey == [r \in Requests |-> k1]
MCTwoKeys == {k1, k2}
MCOwnKey == [r \in Requests |-> IF r = r1 THEN k1 ELSE k2]
MCSymmetry == Permutations(Requests)
=============================================================================
