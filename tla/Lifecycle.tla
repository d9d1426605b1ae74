------------------------------ MODULE Lifecycle ------------------------------
(***************************************************************************)
(* Starting and stopping the controller (Start, Stop and the frame of      *)
(* Reconcile in internal/controller/controller.go).  Goroutines call Start *)
(* and Stop; a started one loops: it waits for its ticker, for the context *)
(* or for the stop channel, and runs a cycle with c.mu held for reading.   *)
(* What a cycle does is left to the module that extends this one.          *)
(***************************************************************************)
EXTENDS Naturals, FiniteSets

CONSTANTS
    Starter,           \* goroutines that may call Start
    Stopper            \* goroutines that may call Stop

Goroutine == Starter \cup Stopper
Nobody    == "nobody"

ASSUME LifecycleAssumption ==
    Starter \cap Stopper = {} /\ Nobody \notin Goroutine

VARIABLES
    running,           \* c.running
    closed,            \* c.stopCh is closed
    cancelled,         \* ctx is done (SIGTERM, or its owner)
    readers,           \* goroutines that hold c.mu for reading
    writer,            \* the goroutine whose Lock new readers wait for
    ticked,            \* goroutines with a tick in their ticker's channel
    pc,
    callers,           \* the goroutines that will call
    panicked,          \* the process died of a second close
    restarted          \* some Start has passed its check after a Stop

flagVars      == <<running, closed, cancelled, callers, panicked, restarted>>
lifecycleVars == <<flagVars, readers, writer, ticked, pc>>

Cycling  == {"cycle", "nodes", "pods", "record", "rest"}
Looping  == {"rlock", "queued", "select"} \cup Cycling
PC       == {"new", "lock", "returned"} \cup Looping

LifecycleTypeOK ==
    /\ running \in BOOLEAN /\ closed \in BOOLEAN /\ cancelled \in BOOLEAN
    /\ panicked \in BOOLEAN /\ restarted \in BOOLEAN
    /\ writer \in Goroutine \cup {Nobody}
    /\ ticked \subseteq Starter /\ callers \subseteq Goroutine
    /\ pc \in [Goroutine -> PC]
    /\ \A g \in Stopper : pc[g] \notin Looping
    /\ readers \subseteq Starter

LifecycleInit ==
    /\ running = FALSE /\ closed = FALSE /\ cancelled = FALSE
    /\ readers = {} /\ writer = Nobody /\ ticked = {}
    /\ pc = [g \in Goroutine |-> "new"]
    /\ callers \subseteq Goroutine
    /\ panicked = FALSE /\ restarted = FALSE

-----------------------------------------------------------------------------
(* sync.RWMutex.  A Lock that has announced itself makes readers queue;    *)
(* its Unlock admits those that did.                                       *)
Call(g) ==
    /\ g \in callers /\ pc[g] = "new" /\ pc' = [pc EXCEPT ![g] = "lock"]
    /\ UNCHANGED <<flagVars, readers, writer, ticked>>

Announce(g) ==
    /\ pc[g] = "lock" /\ writer = Nobody /\ writer' = g
    /\ UNCHANGED <<flagVars, readers, ticked, pc>>

Locked(g) == pc[g] = "lock" /\ writer = g /\ readers = {}

Queued == {h \in Starter : pc[h] = "queued"}
UnlockTo(g, next) ==
    /\ writer' = Nobody
    /\ readers' = Queued
    /\ pc' = [h \in Goroutine |-> IF h = g THEN next
                                  ELSE IF h \in Queued THEN "cycle" ELSE pc[h]]

(* Start: a controller that is running already is left alone. *)
AlreadyRunningIgnored == FALSE
AlreadyRunning == running

Start(g) ==
    /\ Locked(g)
    /\ IF AlreadyRunning
       THEN UnlockTo(g, "returned") /\ UNCHANGED <<running, restarted>>
       ELSE /\ UnlockTo(g, "rlock")
            /\ running' = TRUE /\ restarted' = (restarted \/ closed)
    /\ UNCHANGED <<closed, cancelled, ticked, callers, panicked>>

(* Stop closes the channel of a running controller; a closed one panics.   *)
RunningAfterStopStale == running
RunningAfterStop == FALSE

Stop(g) ==
    /\ Locked(g) /\ UnlockTo(g, "returned")
    /\ closed' = (closed \/ running)
    /\ panicked' = (closed /\ running)
    /\ running' = RunningAfterStop
    /\ UNCHANGED <<cancelled, ticked, callers, restarted>>

(* Reconcile takes the lock for reading and keeps it until it returns. *)
RLock(g) ==
    /\ pc[g] = "rlock"
    /\ \/ /\ writer = Nobody
          /\ readers' = readers \cup {g} /\ pc' = [pc EXCEPT ![g] = "cycle"]
       \/ /\ writer # Nobody
          /\ pc' = [pc EXCEPT ![g] = "queued"] /\ UNCHANGED readers
    /\ UNCHANGED <<flagVars, writer, ticked>>

RUnlockForgotten(g) ==
    /\ pc[g] = "rest" /\ pc' = [pc EXCEPT ![g] = "select"]
    /\ UNCHANGED <<flagVars, readers, writer, ticked>>
RUnlock(g) ==
    /\ pc[g] = "rest"
    /\ readers' = readers \ {g} /\ pc' = [pc EXCEPT ![g] = "select"]
    /\ UNCHANGED <<flagVars, writer, ticked>>

(* The select of Start's loop takes any case that is ready.  Neither way   *)
(* out resets running.                                                     *)
StopSignalContextOnly == cancelled
StopSignal == cancelled \/ closed

Leave(g) ==
    /\ pc[g] = "select" /\ StopSignal
    /\ pc' = [pc EXCEPT ![g] = "returned"] /\ ticked' = ticked \ {g}
    /\ UNCHANGED <<flagVars, readers, writer>>

NextCycle(g) ==
    /\ pc[g] = "select" /\ g \in ticked
    /\ pc' = [pc EXCEPT ![g] = "rlock"] /\ ticked' = ticked \ {g}
    /\ UNCHANGED <<flagVars, readers, writer>>

(* The ticker's channel holds one tick; more are dropped. *)
TickerFires(g) ==
    /\ pc[g] \in Looping /\ g \notin ticked
    /\ ticked' = ticked \cup {g}
    /\ UNCHANGED <<flagVars, readers, writer, pc>>

Cancel ==
    /\ ~cancelled /\ cancelled' = TRUE
    /\ UNCHANGED <<running, closed, readers, writer, ticked, pc, callers, panicked, restarted>>

-----------------------------------------------------------------------------
(* One cycle at a time: however Start and Stop are called, two cycles run  *)
(* beside each other only after a Start that followed a Stop, which finds  *)
(* the old loop still at its select.                                       *)
OneCycleAtATime == Cardinality(readers) > 1 => restarted

(* However many goroutines call Stop, the stop channel is closed twice     *)
(* only when a Start came between two Stops.                               *)
ClosedOnce == panicked => restarted

(* A context that is done or a Stop ends every loop, even with a tick      *)
(* always at hand and other goroutines starting and stopping.              *)
LoopsEnd ==
    (cancelled \/ closed) ~> (panicked \/ \A g \in Starter : pc[g] \notin Looping)

(* Start's check and Stop get the lock although cycles hold it for most of *)
(* the time and loops may overlap.                                         *)
LockGranted == []<>(panicked \/ \A g \in Goroutine : pc[g] # "lock")
=============================================================================
