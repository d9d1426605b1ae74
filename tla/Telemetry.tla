------------------------------ MODULE Telemetry ------------------------------
(***************************************************************************)
(* The reliability telemetry collector (internal/controller/               *)
(* reliability_telemetry_collector.go): each poll lists the nodes, then    *)
(* the pods, compares both with what the last successful list showed, and  *)
(* returns the differences as a snapshot, which the caller adds to the     *)
(* Prometheus counters after the collector's lock is released.  Node and   *)
(* Pod stand for UIDs: a name may come back, a UID never does.  A pod has  *)
(* one container.                                                          *)
(***************************************************************************)
EXTENDS Integers, FiniteSets, Sequences, Functions

CONSTANTS
    Poller,            \* goroutines that may poll
    Node, Pod,
    InitNodes,         \* nodes that are Ready at the start
    MaxEvents,         \* bound: changes of nodes, pods and time
    MaxClock           \* bound: time

NoPoller == "nobody"
Unseen   == "unseen"
Phase    == {"absent", "Pending", "Running", "Failed", "gone"}

ASSUME TelemetryAssumption ==
    /\ NoPoller \notin Poller /\ IsFiniteSet(Poller)
    /\ IsFiniteSet(Node) /\ IsFiniteSet(Pod)
    /\ InitNodes \subseteq Node /\ MaxEvents \in Nat /\ MaxClock \in Nat

VARIABLES
    \* the cluster
    nodeState,         \* "absent", "ready", "notready" or "gone"
    pod,               \* phase, creation and start time, restart count
    clock,
    \* the collector
    holder,            \* who holds its mutex
    now,               \* that poll's time
    lastNodeReady,     \* node -> readiness at the last list
    lastSeenNodes,
    lastRestarts,      \* pod -> restart count at the last list, or -1
    lastPod,           \* pod -> [phase, since] at the last list
    \* the callers and the counters
    snapshot, counters,
    \* what really happened, for the properties
    everListed,        \* nodes some list has shown
    drops,             \* how often a node went from Ready to NotReady
    restarts,          \* how often a container was restarted
    events

clusterVars   == <<nodeState, pod, clock, drops, restarts, events>>
collectorVars == <<holder, now, lastNodeReady, lastSeenNodes, lastRestarts, lastPod,
                   everListed>>
telemetryVars == <<clusterVars, collectorVars, snapshot, counters>>

(* A snapshot, and the counters: pending holds the durations observed. *)
Empty == [terminations |-> 0, notReady |-> 0, restarts |-> 0,
          pending |-> [p \in Pod |-> <<>>]]

TelemetryInit ==
    /\ nodeState = [n \in Node |-> IF n \in InitNodes THEN "ready" ELSE "absent"]
    /\ pod = [p \in Pod |-> [phase |-> "absent", created |-> 0, started |-> 0, count |-> 0]]
    /\ clock = 0
    /\ holder = NoPoller /\ now = 0
    /\ lastNodeReady = [n \in {} |-> FALSE] /\ lastSeenNodes = {}
    /\ lastRestarts = [p \in Pod |-> -1]
    /\ lastPod = [p \in Pod |-> [phase |-> Unseen, since |-> 0]]
    /\ snapshot = [g \in Poller |-> Empty] /\ counters = Empty
    /\ everListed = {} /\ drops = 0 /\ restarts = 0
    /\ events \in 0..MaxEvents

-----------------------------------------------------------------------------
(* The cluster: a node joins, flaps and leaves, a pod is created, starts,  *)
(* fails, is restarted, has its count forgotten by its kubelet, and goes.  *)
Happens == events < MaxEvents /\ events' = events + 1

NodeChanges(n) ==
    /\ Happens
    /\ \E s \in {"ready", "notready", "gone"} \ {nodeState[n]} :
          /\ nodeState[n] = "absent" => s # "gone"
          /\ nodeState[n] # "gone"
          /\ nodeState' = [nodeState EXCEPT ![n] = s]
          /\ drops' = IF nodeState[n] = "ready" /\ s = "notready" THEN drops + 1 ELSE drops
    /\ UNCHANGED <<pod, clock, restarts>>

Listed(p) == pod[p].phase \in {"Pending", "Running", "Failed"}

PodChanges(p) ==
    /\ Happens
    /\ \/ /\ pod[p].phase = "absent"
          /\ pod' = [pod EXCEPT ![p].phase = "Pending", ![p].created = clock]
       \/ /\ pod[p].phase = "Pending"
          /\ \E t \in pod[p].created .. clock :
                pod' = [pod EXCEPT ![p].phase = "Running", ![p].started = t]
       \/ /\ pod[p].phase \in {"Pending", "Running"}
          /\ pod' = [pod EXCEPT ![p].phase = "Failed"]
       \/ /\ Listed(p)
          /\ pod' = [pod EXCEPT ![p].phase = "gone"]
       \/ /\ pod[p].phase = "Running"
          /\ pod' = [pod EXCEPT ![p].count = 0]
    /\ UNCHANGED <<nodeState, clock, drops, restarts>>

ContainerRestarts(p) ==
    /\ Happens
    /\ pod[p].phase \in {"Pending", "Running"}   \* an init container restarts while Pending
    /\ pod' = [pod EXCEPT ![p].count = @ + 1] /\ restarts' = restarts + 1
    /\ UNCHANGED <<nodeState, clock, drops>>

TimePasses ==
    /\ Happens /\ clock < MaxClock /\ clock' = clock + 1
    /\ UNCHANGED <<nodeState, pod, drops, restarts>>

-----------------------------------------------------------------------------
(* collectNodeSignals: the differences to the last list, once each. *)
Present == {n \in Node : nodeState[n] \in {"ready", "notready"}}
BecameNotReady ==
    {n \in Present \cap DOMAIN lastNodeReady : lastNodeReady[n] /\ nodeState[n] = "notready"}

ReadyAfterNeverPruned ==
    [n \in DOMAIN lastNodeReady \cup Present |->
        IF n \in Present THEN nodeState[n] = "ready" ELSE lastNodeReady[n]]
ReadyAfter ==
    [n \in (DOMAIN lastNodeReady \ (lastSeenNodes \ Present)) \cup Present |->
        IF n \in Present THEN nodeState[n] = "ready" ELSE lastNodeReady[n]]

(* A failed List leaves everything as it was. *)
NodesUnlistedForgotten(g) ==
    /\ lastSeenNodes' = {} /\ lastNodeReady' = [n \in {} |-> FALSE]
    /\ snapshot' = [snapshot EXCEPT ![g].terminations = @ + Cardinality(lastSeenNodes)]
    /\ UNCHANGED everListed
NodesUnlisted(g) == UNCHANGED <<lastSeenNodes, lastNodeReady, everListed, snapshot>>

CollectNodes(g) ==
    /\ holder = NoPoller /\ holder' = g
    /\ now' = clock
    /\ \/ NodesUnlisted(g)
       \/ /\ lastSeenNodes' = Present /\ lastNodeReady' = ReadyAfter
          /\ everListed' = everListed \cup Present
          /\ snapshot' = [snapshot EXCEPT ![g] =
                [terminations |-> @.terminations + Cardinality(lastSeenNodes \ Present),
                 notReady |-> @.notReady + Cardinality(BecameNotReady),
                 restarts |-> @.restarts, pending |-> @.pending]]
    /\ UNCHANGED <<clusterVars, lastRestarts, lastPod, counters>>

(* collectPodSignals.  The poll's time is read before the List: a pod      *)
(* created in between counts as pending from then.                         *)
PendingStartTime(p) == IF pod[p].created > now THEN now ELSE pod[p].created

PendingSince(p) ==
    IF lastPod[p].phase = "Pending" THEN lastPod[p].since ELSE PendingStartTime(p)

PendingDuration(p) ==
    LET end == IF pod[p].phase = "Running" THEN pod[p].started ELSE now
    IN  IF end < lastPod[p].since THEN 0 ELSE end - lastPod[p].since

StatusAfterKept(p) ==
    IF ~Listed(p) THEN [phase |-> Unseen, since |-> 0]
    ELSE IF pod[p].phase = "Pending" THEN [phase |-> "Pending", since |-> PendingSince(p)]
    ELSE lastPod[p]
StatusAfter(p) ==
    IF ~Listed(p) THEN [phase |-> Unseen, since |-> 0]
    ELSE IF pod[p].phase = "Pending" THEN [phase |-> "Pending", since |-> PendingSince(p)]
    ELSE [phase |-> pod[p].phase, since |-> 0]

LeftPending(p) == Listed(p) /\ pod[p].phase # "Pending" /\ lastPod[p].phase = "Pending"

(* A count that is lower than the last one adds nothing. *)
RestartDeltaSigned(p) == IF lastRestarts[p] = -1 THEN 0 ELSE pod[p].count - lastRestarts[p]
RestartDelta(p) ==
    IF lastRestarts[p] # -1 /\ pod[p].count > lastRestarts[p]
    THEN pod[p].count - lastRestarts[p] ELSE 0

(* The listed pods that carry a container status: those that have started, *)
(* and of the pending ones those whose kubelet reports one.                *)
Started(p) == pod[p].phase \in {"Running", "Failed"}
StatusSets ==
    {S \in SUBSET {p \in Pod : Listed(p)} : {p \in Pod : Started(p)} \subseteq S}

CollectPods(g) ==
    /\ holder = g /\ holder' = NoPoller /\ now' = 0
    /\ \/ UNCHANGED <<lastRestarts, lastPod, snapshot>>
       \/ /\ lastPod' = [p \in Pod |-> StatusAfter(p)]
          /\ \E reported \in StatusSets :
             /\ lastRestarts' = [p \in Pod |-> IF p \in reported THEN pod[p].count ELSE -1]
             /\ snapshot' = [snapshot EXCEPT ![g] =
                   [terminations |-> @.terminations, notReady |-> @.notReady,
                    restarts |-> @.restarts
                                 + SumFunctionOnSet([p \in Pod |-> RestartDelta(p)], reported),
                    pending |-> [p \in Pod |->
                       IF LeftPending(p) THEN Append(@.pending[p], PendingDuration(p))
                                         ELSE @.pending[p]]]]
    /\ UNCHANGED <<clusterVars, lastNodeReady, lastSeenNodes, everListed, counters>>

(* RecordReliabilityTelemetry adds the snapshot, which is then dropped. *)
RecordTelemetry(g) ==
    /\ counters' = [terminations |-> counters.terminations + snapshot[g].terminations,
                    notReady |-> counters.notReady + snapshot[g].notReady,
                    restarts |-> counters.restarts + snapshot[g].restarts,
                    pending |-> [p \in Pod |-> counters.pending[p] \o snapshot[g].pending[p]]]
    /\ snapshot' = [snapshot EXCEPT ![g] = Empty]
    /\ UNCHANGED <<clusterVars, collectorVars>>

-----------------------------------------------------------------------------
TelemetryTypeOK ==
    /\ nodeState \in [Node -> {"absent", "ready", "notready", "gone"}]
    /\ pod \in [Pod -> [phase : Phase, created : 0..MaxClock, started : 0..MaxClock,
                        count : Nat]]
    /\ clock \in 0..MaxClock /\ drops \in Nat /\ restarts \in Nat
    /\ holder \in Poller \cup {NoPoller} /\ now \in 0..MaxClock
    /\ lastSeenNodes \subseteq Node
    /\ DOMAIN lastNodeReady = lastSeenNodes
    /\ \A n \in lastSeenNodes : lastNodeReady[n] \in BOOLEAN
    /\ lastRestarts \in [Pod -> Nat \cup {-1}]
    /\ lastPod \in [Pod -> [phase : Phase \cup {Unseen}, since : 0..MaxClock]]
    /\ everListed \subseteq Node /\ events \in 0..MaxEvents

(* Counted already, or in a snapshot on its way to the counters. *)
OnTheWay(f) == SumFunctionOnSet(f, Poller)

Terminations ==
    counters.terminations + OnTheWay([g \in Poller |-> snapshot[g].terminations])
NotReady   == counters.notReady + OnTheWay([g \in Poller |-> snapshot[g].notReady])
Restarts   == counters.restarts + OnTheWay([g \in Poller |-> snapshot[g].restarts])
Samples(p) ==
    Len(counters.pending[p]) + OnTheWay([g \in Poller |-> Len(snapshot[g].pending[p])])

(* node_termination_total is exact: every node some list has shown and     *)
(* that is gone from the last one has been counted once, and is really     *)
(* gone, whichever polls were skipped, failed or overlapped.               *)
TerminationsExact ==
    /\ Terminations = Cardinality(everListed \ lastSeenNodes)
    /\ \A n \in everListed \ lastSeenNodes : nodeState[n] = "gone"

(* Polling may miss a short outage or a restart but never invents one,     *)
(* also when a kubelet starts counting restarts from zero again.           *)
NothingInvented ==
    /\ NotReady <= drops
    /\ Restarts <= restarts
    /\ \A g \in Poller : snapshot[g].restarts >= 0

(* A pod gives at most one sample of its pending time, and for one that    *)
(* runs the sample is never shorter than the time from its creation to its *)
(* start.                                                                  *)
PendingSampledOnce ==
    \A p \in Pod :
        /\ Samples(p) <= 1
        /\ pod[p].phase = "Running" =>
              \A s \in {counters} \cup {snapshot[g] : g \in Poller} :
                 \A i \in 1..Len(s.pending[p]) :
                    s.pending[p][i] >= pod[p].started - pod[p].created
=============================================================================
