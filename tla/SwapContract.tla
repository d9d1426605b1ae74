---------------------------- MODULE SwapContract ----------------------------
(***************************************************************************)
(* What the rest of the agent relies on when it calls a CapacityManager    *)
(* for one ASG pool (internal/capacity/types.go): a swap is in progress or *)
(* it is not; it ends with one more instance wanted and a replacement that *)
(* was never handed out before, or without a replacement, in which case    *)
(* the extra instance may be left behind; a cleanup takes away one         *)
(* instance and one from its group's desired capacity.  Reconcile uses     *)
(* PrepareSwap and PostDrainCleanup in exactly this way.                   *)
(***************************************************************************)
EXTENDS Integers

CONSTANTS Instance, HomeOf

Capacity == {"spot", "on-demand"}

VARIABLES
    desired,           \* desired capacity of the two groups between swaps
    status,            \* "idle", or the capacity type being prepared
    handed,            \* replacements returned by PrepareSwap
    terminated         \* instances PostDrainCleanup terminated

vars == <<desired, status, handed, terminated>>

Init ==
    /\ desired \in [Capacity -> Nat]
    /\ status = "idle" /\ handed = {} /\ terminated = {}

Begin(c) ==
    /\ status = "idle" /\ status' = c
    /\ UNCHANGED <<desired, handed, terminated>>

Grown == [desired EXCEPT ![status] = @ + 1]

Succeed(n) ==
    /\ status \in Capacity /\ HomeOf[n] = status /\ n \notin handed
    /\ handed' = handed \cup {n}
    /\ desired' = Grown /\ status' = "idle"
    /\ UNCHANGED terminated

Fail ==
    /\ status \in Capacity /\ status' = "idle"
    /\ desired' \in {desired, Grown}
    /\ UNCHANGED <<handed, terminated>>

Terminate(n) ==
    /\ status = "idle" /\ n \notin terminated
    /\ terminated' = terminated \cup {n}
    /\ desired' = [desired EXCEPT ![HomeOf[n]] = @ - 1]
    /\ UNCHANGED <<status, handed>>

Next ==
    \/ \E c \in Capacity : Begin(c)
    \/ \E n \in Instance : Succeed(n) \/ Terminate(n)
    \/ Fail

Spec == Init /\ [][Next]_vars
=============================================================================
