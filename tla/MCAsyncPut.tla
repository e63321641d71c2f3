----------------------------- MODULE MCAsyncPut -----------------------------
(* Instance of AsyncPut for TLC: two PutFile for one key and one Put for      *)
(* another compete for two slots, so any one of them can be dropped.          *)
EXTENDS AsyncPut

CONSTANTS f1, f2, b1, k1, k2

MCJobs == {f1, f2, b1}
MCFileJobs == {f1, f2}
MCKeys == {k1, k2}
MCKeyOf == [j \in MCJobs |-> IF j \in MCFileJobs THEN k1 ELSE k2]
=============================================================================
