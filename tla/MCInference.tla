----------------------------- MODULE MCInference -----------------------------
(* Four nodes in one zone: two types of a workload pool in scope, one out  *)
(* of it, and a node of the first type in no pool.                         *)
EXTENDS Inference, TLC

CONSTANTS n1, n2, n3, n4

L(p, t, c) == [pool |-> p, type |-> t, zone |-> "z",
               capacity |-> <<c, Absent, Absent, Absent>>]

NodeLabels4 ==
    (n1 :> L("web", "m5", "spot")) @@ (n2 :> L("web", "c5", "on-demand"))
    @@ (n3 :> L("web", "p4", "spot")) @@ (n4 :> L("", "m5", "on-demand"))

(* Names, addresses of the node exporter, one address with another port;   *)
(* some nodes missing.                                                     *)
OneType   == (n1 :> "name") @@ (n4 :> "other")
OnePool   == (n1 :> "exporter") @@ (n2 :> "name")
MixedPool == (n1 :> "exporter") @@ (n2 :> "name") @@ (n3 :> "name")
SomeReports == {OneType, OnePool, MixedPool}

Restricted == {"m5", "c5"}

S(poolLevel, extended, scripted, families, reports, time, actions) ==
    [poolLevel |-> poolLevel, extended |-> extended, scripted |-> scripted,
     families |-> families, reports |-> reports, time |-> time, moves |-> actions]

(* Either mode over several pools with some actions, over a pool with a    *)
(* node out of scope, with a provider that keeps no history, over a long   *)
(* time, and with a contract that names no family.                         *)
SomeScenarios ==
    {S(m, FALSE, FALSE, Restricted, {OneType, OnePool}, 3, 1) : m \in BOOLEAN}
    \cup {S(m, TRUE, FALSE, Restricted, {OneType}, 3, 2) : m \in BOOLEAN}
    \cup {S(m, FALSE, FALSE, Restricted, {MixedPool}, 3, 1) : m \in BOOLEAN}
    \cup {S(m, FALSE, TRUE, Restricted, {OneType}, 4, 0) : m \in BOOLEAN}
    \cup {S(m, FALSE, FALSE, Restricted, {OneType}, 6, 0) : m \in BOOLEAN}
    \cup {S(m, FALSE, FALSE, {}, {MixedPool}, 3, 0) : m \in BOOLEAN}

(* The chart's default. *)
PoolLevelOnly == {S(TRUE, FALSE, FALSE, Restricted, {OneType}, 2, 1)}
=============================================================================
