----------------------------- MODULE MCResolver -----------------------------
(* An instance of Resolver for TLC.                                           *)
EXTENDS Resolver, TLC

CONSTANTS n1, n2

MCNames == {n1, n2}
MCAllowed == {n1}
=============================================================================
