---------------------------- MODULE MCWorldBridge ----------------------------
(* A small instance of WorldBridge: one object made of two geometries and  *)
(* one made of one.                                                        *)
EXTENDS WorldBridge
CONSTANTS f1, f2, n1, n2, n3

TwoObjects == [n \in {n1, n2, n3} |-> IF n = n3 THEN f2 ELSE f1]
=============================================================================
