------------------------------ MODULE MCTwinASG ------------------------------
(* A pool with one spot and one on-demand node; either group can grow.     *)
EXTENDS TwinASG, TLC

CONSTANTS s1, s2, o1, o2

Instances == {s1, s2, o1, o2}
Homes     == [i \in Instances |-> IF i \in {s1, s2} THEN "spot" ELSE "on-demand"]
Running   == {s1, o1}
=============================================================================
