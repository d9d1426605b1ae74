----------------------------- MODULE MCCollector -----------------------------
(* The workload pool "web" has two spot nodes and an on-demand node in one *)
(* zone, and a node of another type in a second one.                       *)
EXTENDS Collector, TLC

CONSTANTS s1, s2, d1, far, web1, web2, web3, db, agent, front, store

Nodes  == {s1, s2, d1, far}
Labelled(c, type, zone) ==
    [capacity |-> c, nodepool |-> FALSE, nodegroup |-> TRUE, manager |-> Absent,
     pool |-> "web", type |-> type, zone |-> zone]
NodeFacts ==
    (s1 :> Labelled(<<"spot", "on-demand", Absent, Absent>>, "m5", "a")) @@
    (s2 :> Labelled(<<Absent, "", "SPOT", "normal">>, "m5", "a")) @@
    (d1 :> Labelled(<<Absent, Absent, "ON_DEMAND", Absent>>, "m5", "a")) @@
    (far :> Labelled(<<Absent, Absent, Absent, Absent>>, "c5", "b"))
Web    == <<"web", "m5", "a">>

Pods   == {web1, web2, web3, db, agent}
Fact(kind, class, startup, cpu) ==
    [kind |-> kind, class |-> class, tier |-> Absent, critical |-> FALSE,
     override |-> 0, observed |-> startup, cpu |-> cpu]
PodFact ==
    (web1 :> Fact("other", "high", 20, 1)) @@
    (web2 :> [Fact("other", "high", -5, 0) EXCEPT !.tier = "1"]) @@
    (web3 :> [Fact("other", "other", 400, 3) EXCEPT !.tier = "0", !.override = 130]) @@
    (db :> [Fact("stateful", "low", 70, 1) EXCEPT !.critical = TRUE]) @@
    (agent :> Fact("daemon", "system", 700, 1))
Budgets == (web1 :> front) @@ (web2 :> front) @@ (web3 :> front) @@
           (db :> store) @@ (agent :> store)

(* Spread over the pool, and crowded on a spot node. *)
Start == {(web1 :> s1) @@ (web2 :> s2) @@ (web3 :> d1) @@ (db :> d1) @@ (agent :> Nowhere),
          (web1 :> s1) @@ (web2 :> s1) @@ (web3 :> d1) @@ (db :> s2) @@ (agent :> s2)}
StartAllowed == {(front :> 2) @@ (store :> 2)}

Features == {"priority"}
Rules    == [f \in Features |-> {[threshold |-> 90, max |-> 20], [threshold |-> 45, max |-> 80]}]
Buckets  == [f \in Features |-> [known |-> TRUE, lo |-> 0, hi |-> 100]]
Files    == {Unset}
Calm ==
    [capacity |-> 10, runtime |-> 10, features |-> [f \in Features |-> 50],
     safety |-> DefaultVector, odPrice |-> 10, spotPrice |-> 4, migrationCost |-> 1]
Markets  == {Calm, [Calm EXCEPT !.capacity = 40]}
Share    == {<<0, 3>>, <<2, 3>>}
=============================================================================
