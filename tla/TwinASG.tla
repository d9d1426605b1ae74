------------------------------- MODULE TwinASG -------------------------------
(***************************************************************************)
(* The twin-ASG swap of one workload pool (internal/capacity/              *)
(* asg_manager.go over aws_asg_client.go): PrepareSwap reads the desired   *)
(* capacity of the target group, writes it back plus one, waits for a new  *)
(* Ready node and rolls the write back when none comes; PostDrainCleanup   *)
(* terminates a drained instance.  Each cloud or Kubernetes call is a step *)
(* of its own, and the Auto Scaling service, the kubelets, the cluster     *)
(* autoscaler and spot interruptions act in between.                       *)
(***************************************************************************)
EXTENDS Integers, FiniteSets

CONSTANTS
    Instance,          \* instances that may ever be launched
    HomeOf,            \* Instance -> the group that launches it
    InitAlive,         \* instances running at the start, nodes Ready
    MaxSize,           \* ASG max size
    ApiFailures,       \* calls may fail, with or without their effect
    MaxCalls,          \* bound: calls of PrepareSwap and PostDrainCleanup
    MaxChanges         \* bound: interruptions, other writes and restarts

Capacity == {"spot", "on-demand"}
None     == "none"
Size(c, S) == Cardinality({i \in S : HomeOf[i] = c})

ASSUME TwinASGAssumption ==
    /\ IsFiniteSet(Instance) /\ None \notin Instance
    /\ HomeOf \in [Instance -> Capacity]
    /\ InitAlive \subseteq Instance
    /\ MaxSize \in Nat /\ \A c \in Capacity : Size(c, InitAlive) <= MaxSize
    /\ ApiFailures \in BOOLEAN
    /\ MaxCalls \in Nat /\ MaxChanges \in Nat

VARIABLES
    \* Auto Scaling and Kubernetes
    desired,           \* desired capacity of each group
    launched, alive,   \* instances ever launched, instances running
    node, ready,       \* instances with a Node object, with a Ready one
    \* the call in progress
    pc,
    dir,               \* the group PrepareSwap scales
    read,              \* its desired capacity as DiscoverTwinASGs saw it
    existing,          \* existingNodes of waitForNewNode
    victim,            \* the node PostDrainCleanup is called for
    cancelled,         \* the agent's context is done
    \* what happened, for the properties
    before,            \* nodes registered when the group was scaled up
    handed,            \* replacements PrepareSwap has returned
    terminated,        \* instances PostDrainCleanup has terminated
    foreign,           \* groups somebody else has rescaled
    calls, changes

cloudVars   == <<desired, launched, alive, node, ready>>
callVars    == <<pc, dir, read, existing, victim, cancelled>>
historyVars == <<before, handed, terminated, foreign>>
boundVars   == <<calls, changes>>
vars == <<cloudVars, callVars, historyVars, boundVars>>

Scaled   == {"snapshot", "poll", "rollback"}
Swapping == {"discover", "scale"} \cup Scaled
PC       == {"idle", "fetch", "terminate"} \cup Swapping

(* Types, and the relations between instances and their Node objects. *)
TypeOK ==
    /\ desired \in [Capacity -> 0..MaxSize]
    /\ launched \subseteq Instance /\ alive \subseteq launched
    /\ node \subseteq launched /\ ready \subseteq node \cap alive
    /\ pc \in PC /\ dir \in Capacity /\ read \in 0..MaxSize
    /\ existing \subseteq Instance /\ before \subseteq Instance
    /\ victim \in Instance \cup {None} /\ cancelled \in BOOLEAN
    /\ pc \in {"fetch", "terminate"} => victim # None
    /\ handed \subseteq launched /\ terminated \subseteq launched \ alive
    /\ foreign \subseteq Capacity
    /\ calls \in 0..MaxCalls /\ changes \in 0..MaxChanges

Init ==
    /\ desired = [c \in Capacity |-> Size(c, InitAlive)]
    /\ launched = InitAlive /\ alive = InitAlive
    /\ node = InitAlive /\ ready = InitAlive
    /\ pc = "idle" /\ dir = "spot" /\ read = 0 /\ existing = {} /\ victim = None
    /\ cancelled = FALSE
    /\ before = {} /\ handed = {} /\ terminated = {} /\ foreign = {}
    /\ calls = 0 /\ changes = 0

-----------------------------------------------------------------------------
(* A call may fail when failures are admitted; it must once ctx is done.   *)
MayFail == ApiFailures \/ cancelled

(* What is local to a call ends with it. *)
Return ==
    /\ pc' = "idle" /\ dir' = "spot" /\ read' = 0
    /\ existing' = {} /\ victim' = None /\ before' = {}

Step(from, to) == pc = from /\ pc' = to

BeginSwap(c) ==
    /\ Step("idle", "discover") /\ calls < MaxCalls
    /\ dir' = c /\ calls' = calls + 1
    /\ UNCHANGED <<cloudVars, read, existing, victim, cancelled, historyVars, changes>>

(* Step 1: DiscoverTwinASGs. *)
DiscoverTwinASGs ==
    /\ \/ /\ pc = "discover" /\ MayFail
          /\ Return
       \/ /\ Step("discover", "scale") /\ ~cancelled
          /\ read' = desired[dir]
          /\ UNCHANGED <<dir, existing, victim, before>>
    /\ UNCHANGED <<cloudVars, cancelled, handed, terminated, foreign, boundVars>>

(* Step 3: SetDesiredCapacity(read + 1).  An error, even one that hides    *)
(* the effect, returns without a rollback.                                 *)
IncrementTwice == read + 2
Increment == read + 1

ScaleUp ==
    /\ pc = "scale"
    /\ \/ /\ MayFail \/ Increment > MaxSize
          /\ Return /\ UNCHANGED desired
       \/ /\ ~cancelled /\ Increment <= MaxSize
          /\ desired' = [desired EXCEPT ![dir] = Increment]
          /\ \/ ApiFailures /\ Return
             \/ /\ pc' = "snapshot" /\ before' = node
                /\ UNCHANGED <<dir, read, existing, victim>>
    /\ UNCHANGED <<launched, alive, node, ready, cancelled, handed, terminated,
                   foreign, boundVars>>

(* Step 4: waitForNewNode lists the nodes it will not count as new, ... *)
Snapshot ==
    /\ \/ Step("snapshot", "rollback") /\ MayFail /\ UNCHANGED existing
       \/ Step("snapshot", "poll") /\ ~cancelled /\ existing' = node
    /\ UNCHANGED <<cloudVars, dir, read, victim, cancelled, historyVars, boundVars>>

(* ... then polls for another of the right kind that is Ready.  A failed   *)
(* List is only logged.                                                    *)
ReplacementMaybeOld(n) == n \in ready /\ HomeOf[n] = dir
Replacement(n) == n \in ready \ existing /\ HomeOf[n] = dir

Poll(n) ==
    /\ pc = "poll" /\ ~cancelled
    /\ Replacement(n)
    /\ handed' = handed \cup {n}
    /\ Return
    /\ UNCHANGED <<cloudVars, cancelled, terminated, foreign, boundVars>>

(* The deadline passes, or ctx is done. *)
GiveUpOnlyWhenCancelled == Step("poll", "rollback") /\ cancelled
                           /\ UNCHANGED <<cloudVars, dir, read, existing, victim,
                                          cancelled, historyVars, boundVars>>
GiveUp ==
    /\ Step("poll", "rollback")
    /\ UNCHANGED <<cloudVars, dir, read, existing, victim, cancelled, historyVars,
                   boundVars>>

(* The rollback writes the value read at the beginning, with the same ctx; *)
(* its error is only logged.                                               *)
RollbackByOne == desired[dir] - 1
RollbackValue == read

Rollback ==
    /\ pc = "rollback"
    /\ \/ MayFail /\ UNCHANGED desired
       \/ ~cancelled /\ desired' = [desired EXCEPT ![dir] = RollbackValue]
    /\ Return
    /\ UNCHANGED <<launched, alive, node, ready, cancelled, handed, terminated,
                   foreign, boundVars>>

(* PostDrainCleanup for a node the controller has drained. *)
BeginCleanup(n) ==
    /\ Step("idle", "fetch") /\ calls < MaxCalls
    /\ n \in node
    /\ victim' = n /\ calls' = calls + 1
    /\ UNCHANGED <<cloudVars, dir, read, existing, cancelled, historyVars, changes>>

(* It fetches the Node and resolves the group of its instance; without the *)
(* Node, or when both ways to the group fail, it gives up.                 *)
FetchNode ==
    /\ \/ /\ pc = "fetch" /\ (MayFail \/ victim \notin node)
          /\ Return
       \/ /\ Step("fetch", "terminate") /\ ~cancelled /\ victim \in node
          /\ UNCHANGED <<dir, read, existing, victim, before>>
    /\ UNCHANGED <<cloudVars, cancelled, handed, terminated, foreign, boundVars>>

(* TerminateInstance with decrementDesired; the service refuses for an     *)
(* instance that is no longer running, or for an empty group.              *)
MayTerminate(n) == n \in alive /\ desired[HomeOf[n]] > 0

TerminateInstance ==
    /\ pc = "terminate"
    /\ \/ /\ MayFail \/ ~MayTerminate(victim)
          /\ UNCHANGED <<desired, alive, ready, terminated>>
       \/ /\ ~cancelled /\ MayTerminate(victim)
          /\ alive' = alive \ {victim} /\ ready' = ready \ {victim}
          /\ desired' = [desired EXCEPT ![HomeOf[victim]] = @ - 1]
          /\ terminated' = terminated \cup {victim}
    /\ Return
    /\ UNCHANGED <<launched, node, cancelled, handed, foreign, boundVars>>

-----------------------------------------------------------------------------
(* The Auto Scaling service works towards the desired capacities; it       *)
(* chooses which instance of a group that is too large has to go.          *)
Launch(i) ==
    /\ i \notin launched /\ Size(HomeOf[i], alive) < desired[HomeOf[i]]
    /\ launched' = launched \cup {i} /\ alive' = alive \cup {i}
    /\ UNCHANGED <<desired, node, ready, callVars, historyVars, boundVars>>

ScaleIn(i) ==
    /\ i \in alive /\ Size(HomeOf[i], alive) > desired[HomeOf[i]]
    /\ alive' = alive \ {i} /\ ready' = ready \ {i}
    /\ UNCHANGED <<desired, launched, node, callVars, historyVars, boundVars>>

(* A kubelet registers its node; the node becomes Ready; the Node object   *)
(* of an instance that is gone is removed.                                 *)
Join(i) ==
    /\ i \in alive \ node
    /\ node' = node \cup {i}
    /\ UNCHANGED <<desired, launched, alive, ready, callVars, historyVars, boundVars>>

BecomeReady(i) ==
    /\ i \in (alive \cap node) \ ready
    /\ ready' = ready \cup {i}
    /\ UNCHANGED <<desired, launched, alive, node, callVars, historyVars, boundVars>>

Vanish(i) ==
    /\ i \in node \ alive
    /\ node' = node \ {i}
    /\ UNCHANGED <<desired, launched, alive, ready, callVars, historyVars, boundVars>>

(* A spot interruption; the group still wants its instance. *)
Interrupt(i) ==
    /\ changes < MaxChanges /\ changes' = changes + 1
    /\ i \in alive /\ HomeOf[i] = "spot"
    /\ alive' = alive \ {i} /\ ready' = ready \ {i}
    /\ UNCHANGED <<desired, launched, node, callVars, historyVars, calls>>

(* The cluster autoscaler follows pending pods and unneeded nodes. *)
OtherWrite(c) ==
    /\ changes < MaxChanges /\ changes' = changes + 1
    /\ \E d \in 0..MaxSize : desired' = [desired EXCEPT ![c] = d]
    /\ foreign' = foreign \cup {c}
    /\ UNCHANGED <<launched, alive, node, ready, callVars, before, handed, terminated,
                   calls>>

(* SIGTERM ends ctx; the process dies, at once or later, and is replaced.  *)
Cancel ==
    /\ ~cancelled /\ cancelled' = TRUE
    /\ changes < MaxChanges /\ changes' = changes + 1
    /\ UNCHANGED <<cloudVars, pc, dir, read, existing, victim, historyVars, calls>>

Restart ==
    /\ cancelled \/ changes < MaxChanges
    /\ changes' = IF cancelled THEN changes ELSE changes + 1
    /\ Return /\ cancelled' = FALSE
    /\ UNCHANGED <<cloudVars, handed, terminated, foreign, calls>>

Agent ==
    \/ DiscoverTwinASGs \/ ScaleUp \/ Snapshot \/ GiveUp \/ Rollback
    \/ \E n \in Instance : Poll(n)
    \/ FetchNode \/ TerminateInstance

Service ==
    \/ \E i \in Instance : Launch(i) \/ ScaleIn(i) \/ Join(i) \/ BecomeReady(i)
                           \/ Vanish(i) \/ Interrupt(i)
    \/ \E c \in Capacity : OtherWrite(c)

Next ==
    \/ \E c \in Capacity : BeginSwap(c)
    \/ \E n \in Instance : BeginCleanup(n)
    \/ Agent \/ Service \/ Cancel \/ Restart

(* waitForNewNode's deadline fires.  That single calls to AWS and to       *)
(* Kubernetes return, with whatever answer, is an assumption: they have no *)
(* deadline of their own.  The service owes nothing else.                  *)
Spec == Init /\ [][Next]_vars /\ WF_vars(Agent)

-----------------------------------------------------------------------------
(* The contract this manager implements until somebody else writes the     *)
(* desired capacities; before PrepareSwap returns its scale-up counts as   *)
(* not done.                                                               *)
settled == IF pc \in Scaled THEN [desired EXCEPT ![dir] = read] ELSE desired

Contract == INSTANCE SwapContract WITH
    desired <- settled,
    status  <- IF pc \in Swapping THEN dir ELSE "idle"

(* PrepareSwap and PostDrainCleanup implement the contract: a swap leaves  *)
(* exactly one more instance wanted when it succeeds and at most one more  *)
(* when it fails or the agent dies, hands out no node twice, and a cleanup *)
(* takes exactly one instance from the books, up to the first write of     *)
(* another actor.                                                          *)
ContractHolds ==
    Contract!Init /\ [][foreign = {} /\ foreign' = {} => Contract!Next]_(Contract!vars)

(* A node PrepareSwap returns is Ready, of the requested capacity type,    *)
(* and joined the cluster after the group was scaled up, whatever was      *)
(* launched, interrupted or rescaled meanwhile.                            *)
ReplacementIsNew ==
    [][\A n \in handed' \ handed : n \in ready /\ HomeOf[n] = dir /\ n \notin before]_vars

(* PrepareSwap always comes back: the controller is never stuck in it.     *)
CallsReturn == (pc # "idle") ~> (pc = "idle")
=============================================================================
