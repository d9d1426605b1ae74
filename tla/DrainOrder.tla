----------------------------- MODULE DrainOrder -----------------------------
(***************************************************************************)
(* The part of applyDrainLimit (internal/controller/controller.go) that    *)
(* decides which drains a cycle makes: a hand-written exchange sort of the *)
(* assessments, one comparison per step, and the cut at the limit.         *)
(* Reconcile's ApplyDrainLimit takes any set KeepsMostUrgent admits.       *)
(***************************************************************************)
EXTENDS Naturals, Sequences, SequencesExt

CONSTANTS
    Scores,            \* capacity scores
    Limits,            \* maxDrain, after the disruption budgets
    MaxLen             \* bound: assessments that ask for a drain

ASSUME DrainOrderAssumption ==
    Scores \subseteq Nat /\ Limits \subseteq Nat /\ MaxLen \in Nat

Assessment == [emergency : BOOLEAN, score : Scores]

VARIABLES
    given,             \* drainNodes, in the order of the metrics
    order,             \* sortedNodes, as positions of given
    i, j,              \* the loops' indices, from 1
    limit,             \* maxDrain
    kept,              \* the positions that are returned
    pc

vars == <<given, order, i, j, limit, kept, pc>>

(* sortedNodes[j] goes before sortedNodes[i]. *)
OvertakesByScore(y, x) ==
    (y.emergency /\ ~x.emergency) \/ y.score > x.score

Overtakes(y, x) ==
    \/ y.emergency /\ ~x.emergency
    \/ y.emergency = x.emergency /\ y.score > x.score

Exchanged(s, a, b) ==
    [k \in DOMAIN s |-> IF k = a THEN s[b] ELSE IF k = b THEN s[a] ELSE s[k]]

-----------------------------------------------------------------------------
(* A cycle hands in its assessments; the slice is copied. *)
Init ==
    /\ given \in BoundedSeq(Assessment, MaxLen)
    /\ order = [k \in DOMAIN given |-> k]
    /\ i = 1 /\ j = 2 /\ limit = 0 /\ kept = <<>> /\ pc = "sort"

(* One round of the inner loop; after its last one the outer loop goes on. *)
Compare ==
    /\ pc = "sort" /\ i < Len(order)
    /\ order' = IF Overtakes(given[order[j]], given[order[i]])
                THEN Exchanged(order, i, j) ELSE order
    /\ IF j < Len(order) THEN j' = j + 1 /\ i' = i ELSE i' = i + 1 /\ j' = i + 2
    /\ UNCHANGED <<given, limit, kept, pc>>

(* The budgets are read once the list is sorted; "Apply global limit". *)
Cut ==
    /\ pc = "sort" /\ i >= Len(order)
    /\ limit' \in Limits
    /\ kept' = IF Len(order) > limit' THEN SubSeq(order, 1, limit') ELSE order
    /\ pc' = "done"
    /\ UNCHANGED <<given, order, i, j>>

Next == Compare \/ Cut

Spec == Init /\ [][Next]_vars

-----------------------------------------------------------------------------
(* What is returned are as many drains as the limit allows, none twice,    *)
(* and no drain that was put off is an emergency while a routine move is   *)
(* kept, or has a higher score than a kept one of its kind.  Exchanges     *)
(* across the list must not lose, repeat or misplace a node on the way.    *)
KeepsMostUrgent ==
    pc = "done" =>
        LET keep == ToSet(kept)
        IN  /\ keep \subseteq DOMAIN given /\ Cardinality(keep) = Len(kept)
            /\ Len(kept) <= limit /\ (Len(kept) < limit => keep = DOMAIN given)
            /\ \A k \in keep, d \in DOMAIN given \ keep :
                  LET x == given[k]
                      y == given[d]
                  IN  /\ y.emergency => x.emergency
                      /\ y.emergency = x.emergency => y.score <= x.score
=============================================================================
