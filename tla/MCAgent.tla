------------------------------- MODULE MCAgent -------------------------------
(* Two goroutines that start the controller, two that stop it.             *)
EXTENDS Agent, TLC

CONSTANTS g1, g2, s1, s2, n1, n2, p1

(* Everybody calls in a cluster at rest; one loop overtakes another while  *)
(* the cluster changes; one loop alone sees many changes.                  *)
CallersAndChanges ==
    {<<{g1, g2, s1, s2}, 0>>, <<{g1, g2, s1}, 1>>, <<{g1}, 4>>}
=============================================================================
