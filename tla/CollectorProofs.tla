--------------------------- MODULE CollectorProofs ---------------------------
(***************************************************************************)
(* Proofs about Collector for every pool, every set of budgets and every   *)
(* order in which the maps are walked.  Inv is about one collection: the   *)
(* loops and what they publish.  SurfaceInv, proved on top of it, is about *)
(* what stays published from one collection to the next; with it come the  *)
(* types of what is published and the order between two publications.      *)
(***************************************************************************)
EXTENDS Collector, SumTheorems

-----------------------------------------------------------------------------
(* The inductive invariant, part by part. *)
Typed ==
    /\ nodesSeen \subseteq Node
    /\ podsSeen \in [Pod -> Node \cup {Nowhere}] /\ on \in [Pod -> Node \cup {Nowhere}]
    /\ nodes \subseteq Node
    /\ allowed \in [PDB -> Int] /\ allowedSeen \in [PDB -> Int]
    /\ pdbsKnown \in BOOLEAN
    /\ maxOne \in [PDB -> Nat] /\ maxTwo \in [PDB -> Nat]
    /\ pending \subseteq PDB /\ minOne \in Int /\ minTwo \in Int
    /\ todo \subseteq PDB \X Node

(* maxOne and maxTwo are the two largest counts among the visited nodes. *)
Visited(b) == {n \in Node : <<b, n>> \in Entries \ todo}

Bounds(b) ==
    /\ maxTwo[b] <= maxOne[b]
    /\ \A n \in Visited(b) : PodsOn(b, n) <= maxOne[b]
    /\ \A m, n \in Visited(b) : m # n => PodsOn(b, m) + PodsOn(b, n) <= maxOne[b] + maxTwo[b]

Attained(b) ==
    IF Visited(b) = {} THEN maxOne[b] = 0 /\ maxTwo[b] = 0
    ELSE \E m \in Visited(b) :
            /\ PodsOn(b, m) = maxOne[b]
            /\ maxTwo[b] = 0 \/ \E n \in Visited(b) \ {m} : PodsOn(b, n) = maxTwo[b]

TodoInv   == pc = "scan" => todo \subseteq Entries
TopTwoInv == pc = "scan" => \A b \in PDB : Bounds(b) /\ Attained(b)

(* minOne and minTwo are the least slacks among the budgets dealt with. *)
One(b) == allowedSeen[b] - maxOne[b]
Two(b) == allowedSeen[b] - (maxOne[b] + maxTwo[b])
Done   == Present \ pending

MinInv ==
    pc = "scan" =>
        /\ pending \subseteq Present
        /\ \A b \in Done : /\ \A n \in Node : <<b, n>> \notin todo
                           /\ minOne <= One(b) /\ minTwo <= Two(b)
        /\ Done # {} => /\ \E b \in Done : minOne = One(b)
                        /\ \E b \in Done : minTwo = Two(b)
        /\ Done = {} => minOne = 0 /\ minTwo = 0

(* What is published belongs to the lists it was made from. *)
WorstOne ==
    /\ \A b \in Present, lost \in Losses(1) : counts.slackOne <= Left(b, lost)
    /\ \E b \in Present, lost \in Losses(1) : counts.slackOne = Left(b, lost)
WorstTwo ==
    /\ \A b \in Present, lost \in Losses(2) : counts.slackTwo <= Left(b, lost)
    /\ \E b \in Present, lost \in Losses(2) : counts.slackTwo = Left(b, lost)

PublishedInv ==
    pc = "decide" =>
        /\ counts.workload = Cardinality(Workload)
        /\ vector = VectorOf(counts)
        /\ Workload # {} =>
              /\ counts.stateful = Cardinality(Stateful)
              /\ counts.evictable = Cardinality(Evictable)
              /\ counts.critical = Cardinality(Critical)
              /\ counts.onSpot = Cardinality({p \in Critical : podsSeen[p] \in Spot})
              /\ counts.slackOne \in Int /\ counts.slackTwo \in Int
              /\ IF Present = {} THEN counts.slackOne = 0 ELSE WorstOne /\ WorstTwo

DecidedInv == /\ pc # "idle" => act = "hold"
              /\ GrowthIsSafe

Inv == Typed /\ TodoInv /\ TopTwoInv /\ MinInv /\ PublishedInv /\ DecidedInv

-----------------------------------------------------------------------------
(* Facts about the counts. *)
LEMMA PodsFinite ==
    ASSUME NEW S \in SUBSET Pod
    PROVE  IsFiniteSet(S) /\ Cardinality(S) \in Nat
BY CollectorAssumption, FS_Subset, FS_CardinalityType

LEMMA PodsOnType ==
    ASSUME NEW b, NEW n
    PROVE  PodsOn(b, n) \in Nat
<1>1. {p \in Guarded(b) : podsSeen[p] = n} \in SUBSET Pod
  BY DEF Guarded, Listed
<1>. QED  BY <1>1, PodsFinite DEF PodsOn

(* Losing a node loses the pods on it, losing two the pods on both. *)
LEMMA LeftOne ==
    ASSUME NEW b, NEW m
    PROVE  Left(b, {m}) = allowedSeen[b] - PodsOn(b, m)
<1>1. {p \in Guarded(b) : podsSeen[p] \in {m}} = {p \in Guarded(b) : podsSeen[p] = m}
  OBVIOUS
<1>. QED  BY <1>1 DEF Left, PodsOn

LEMMA LeftTwo ==
    ASSUME NEW b, NEW m, NEW n, m # n
    PROVE  Left(b, {m, n}) = allowedSeen[b] - (PodsOn(b, m) + PodsOn(b, n))
<1>. DEFINE M == {p \in Guarded(b) : podsSeen[p] = m}
            N == {p \in Guarded(b) : podsSeen[p] = n}
<1>1. M \in SUBSET Pod /\ N \in SUBSET Pod
  BY DEF Guarded, Listed
<1>2. M \cup N = {p \in Guarded(b) : podsSeen[p] \in {m, n}} /\ M \cap N = {}
  OBVIOUS
<1>3. /\ IsFiniteSet(M) /\ IsFiniteSet(N)
      /\ Cardinality(M) \in Nat /\ Cardinality(N) \in Nat
  BY <1>1, PodsFinite
<1>4. Cardinality(M \cup N) = Cardinality(M) + Cardinality(N)
  <2>. HIDE DEF M, N
  <2>1. Cardinality(M \cup N) = Cardinality(M) + Cardinality(N) - Cardinality(M \cap N)
    BY <1>3, FS_Union
  <2>2. Cardinality(M \cap N) = 0
    BY <1>2, FS_EmptySet
  <2>. QED  BY <1>3, <2>1, <2>2
<1>. QED  BY <1>2, <1>4 DEF Left, PodsOn

(* A loss of at most two nodes is a loss of one node or of a pair. *)
LEMMA LossesShape ==
    /\ \A lost \in Losses(1) : \E m \in Node : lost = {m}
    /\ \A lost \in Losses(2) :
          \/ \E m \in Node : lost = {m}
          \/ \E m, n \in Node : m # n /\ lost = {m, n}
    /\ \A m \in Node : {m} \in Losses(1) /\ {m} \in Losses(2)
    /\ \A m, n \in Node : {m, n} \in Losses(2)
<1>1. ASSUME NEW S \in SUBSET Node, Cardinality(S) = 1
      PROVE  \E m \in Node : S = {m}
  BY <1>1, CollectorAssumption, FS_Subset, FS_Singleton
<1>2. ASSUME NEW S \in SUBSET Node, Cardinality(S) = 2
      PROVE  \E m, n \in Node : m # n /\ S = {m, n}
  <2>1. IsFiniteSet(S) /\ S # {}
    BY <1>2, CollectorAssumption, FS_Subset, FS_EmptySet
  <2>2. PICK m \in S : TRUE
    BY <2>1
  <2>3. Cardinality(S \ {m}) = 1 /\ IsFiniteSet(S \ {m})
    <3>1. /\ Cardinality(S \ {m}) = Cardinality(S) - 1
          /\ IsFiniteSet(S \ {m})
      BY <2>1, <2>2, FS_RemoveElement, Zenon
    <3>. QED  BY <1>2, <3>1
  <2>4. PICK n : S \ {m} = {n}
    BY <2>3, FS_Singleton
  <2>. QED  BY <2>2, <2>4
<1>3. \A m \in Node : Cardinality({m}) = 1
  BY FS_Singleton
<1>4. \A m, n \in Node : Cardinality({m, n}) \in 1..2
  <2>. TAKE m \in Node, n \in Node
  <2>1. {m, n} = {m} \cup {n}
    OBVIOUS
  <2>2. Cardinality({m}) = 1 /\ IsFiniteSet({m})
    BY FS_Singleton
  <2>3. Cardinality({m} \cup {n}) = IF n \in {m} THEN Cardinality({m})
                                   ELSE Cardinality({m}) + 1
    BY <2>2, FS_AddElement, Zenon
  <2>. QED  BY <2>1, <2>2, <2>3
<1>. QED  BY <1>1, <1>2, <1>3, <1>4 DEF Losses

(* Outside Entries a node has no pod of the budget. *)
LEMMA NoEntryNoPods ==
    ASSUME NEW b \in PDB, NEW n \in Node, <<b, n>> \notin Entries
    PROVE  PodsOn(b, n) = 0
<1>1. PodsOn(b, n) \in Nat
  BY PodsOnType
<1>2. ~(PodsOn(b, n) > 0)
  BY DEF Entries
<1>. QED  BY <1>1, <1>2

(* Once all entries of a budget are visited, its top two are the worst     *)
(* loss of one node and of two.                                            *)
LEMMA TopTwoIsWorst ==
    ASSUME Typed, NEW b \in PDB, Bounds(b), Attained(b), b \in Present,
           \A n \in Node : <<b, n>> \notin todo
    PROVE  /\ \A lost \in Losses(1) : One(b) <= Left(b, lost)
           /\ \E lost \in Losses(1) : One(b) = Left(b, lost)
           /\ \A lost \in Losses(2) : Two(b) <= Left(b, lost)
           /\ \E lost \in Losses(2) : Two(b) = Left(b, lost)
<1>t. /\ allowedSeen[b] \in Int /\ maxOne[b] \in Nat /\ maxTwo[b] \in Nat
      /\ \A n : PodsOn(b, n) \in Nat
  BY PodsOnType DEF Typed
<1>1. \A n \in Node : n \notin Visited(b) => PodsOn(b, n) = 0
  BY NoEntryNoPods DEF Visited
<1>2. \A n \in Node : PodsOn(b, n) <= maxOne[b]
  BY <1>t, <1>1 DEF Bounds
<1>3. ASSUME NEW m \in Node, NEW n \in Node, m # n
      PROVE  PodsOn(b, m) + PodsOn(b, n) <= maxOne[b] + maxTwo[b]
  <2>1. CASE m \in Visited(b) /\ n \in Visited(b)
    BY <2>1, <1>3 DEF Bounds
  <2>2. CASE m \notin Visited(b)
    BY <2>2, <1>t, <1>1, <1>2
  <2>3. CASE n \notin Visited(b)
    BY <2>3, <1>t, <1>1, <1>2
  <2>. QED  BY <2>1, <2>2, <2>3
<1>4. Visited(b) # {}
  <2>1. PICK p \in Guarded(b) : TRUE
    BY DEF Present
  <2>2. p \in Pod /\ podsSeen[p] \in Node
    BY DEF Guarded, Listed, Typed
  <2>. DEFINE S == {q \in Guarded(b) : podsSeen[q] = podsSeen[p]}
  <2>3. S \in SUBSET Pod /\ p \in S
    BY DEF Guarded, Listed
  <2>4. Cardinality(S) # 0
    <3>1. S # {} /\ IsFiniteSet(S)
      BY <2>3, PodsFinite
    <3>. QED  BY <3>1, FS_EmptySet
  <2>5. PodsOn(b, podsSeen[p]) # 0
    BY <2>4 DEF PodsOn
  <2>. QED  BY <2>2, <2>5, <1>1
<1>5. PICK m \in Visited(b) :
         /\ PodsOn(b, m) = maxOne[b]
         /\ maxTwo[b] = 0 \/ \E n \in Visited(b) \ {m} : PodsOn(b, n) = maxTwo[b]
  BY <1>4 DEF Attained
<1>m. m \in Node
  BY DEF Visited
<1>6. \A lost \in Losses(1) : One(b) <= Left(b, lost)
  <2>. TAKE lost \in Losses(1)
  <2>1. PICK k \in Node : lost = {k}
    BY LossesShape
  <2>. QED  BY <2>1, <1>t, <1>2, LeftOne DEF One
<1>7. One(b) = Left(b, {m}) /\ {m} \in Losses(1) /\ {m} \in Losses(2)
  BY <1>5, <1>m, LeftOne, LossesShape DEF One
<1>8. \A lost \in Losses(2) : Two(b) <= Left(b, lost)
  <2>. TAKE lost \in Losses(2)
  <2>1. CASE \E k \in Node : lost = {k}
    <3>1. PICK k \in Node : lost = {k}
      BY <2>1
    <3>. QED  BY <3>1, <1>t, <1>2, LeftOne DEF Two
  <2>2. CASE \E j, k \in Node : j # k /\ lost = {j, k}
    <3>1. PICK j \in Node, k \in Node : j # k /\ lost = {j, k}
      BY <2>2
    <3>2. PodsOn(b, j) + PodsOn(b, k) <= maxOne[b] + maxTwo[b]
      BY <3>1, <1>3
    <3>3. Left(b, lost) = allowedSeen[b] - (PodsOn(b, j) + PodsOn(b, k))
      BY <3>1, LeftTwo
    <3>. QED  BY <3>2, <3>3, <1>t DEF Two
  <2>. QED  BY <2>1, <2>2, LossesShape
<1>9. \E lost \in Losses(2) : Two(b) = Left(b, lost)
  <2>1. CASE maxTwo[b] = 0
    <3>1. Two(b) = Left(b, {m})
      BY <2>1, <1>t, <1>5, LeftOne DEF Two
    <3>. QED  BY <3>1, <1>7
  <2>2. CASE maxTwo[b] # 0
    <3>1. PICK n \in Visited(b) \ {m} : PodsOn(b, n) = maxTwo[b]
      BY <2>2, <1>5
    <3>2. n \in Node /\ m # n
      BY <3>1 DEF Visited
    <3>3. Two(b) = Left(b, {m, n})
      BY <1>5, <3>1, <3>2, LeftTwo DEF Two
    <3>. QED  BY <3>2, <3>3, <1>m, LossesShape
  <2>. QED  BY <2>1, <2>2
<1>. QED  BY <1>6, <1>7, <1>8, <1>9

(* The roll-up is at least as bad as each of the slack and concentration   *)
(* signals.                                                                *)
LEMMA RiskBounds ==
    ASSUME NEW v, v.workload \in Nat \ {0}, v.stateful \in Nat, v.evictable \in Nat,
           v.critical \in Nat, v.onSpot \in Nat, v.onSpot <= v.critical,
           v.slackOne \in Int, v.slackTwo \in Int
    PROVE  /\ Risk(v) \in Int
           /\ Risk(v) >= OneNodeRisk(v) /\ Risk(v) >= TwoNodesRisk(v)
           /\ Risk(v) >= ConcentrationRisk(v)
<1>1. OneNodeRisk(v) \in Int /\ TwoNodesRisk(v) \in Int
  BY DEF OneNodeRisk, TwoNodesRisk
<1>2. ConcentrationRisk(v) \in Int
  BY DEF ConcentrationRisk
<1>3. StatefulRisk(v) \in Int /\ EvictableRisk(v) \in Int
  BY DEF StatefulRisk, EvictableRisk
<1>4. RestartRisk(v) \in Int /\ HeadroomRisk(v) \in Int
  BY DEF RestartRisk, HeadroomRisk
<1>5. ZoneRisk(v) \in Int
  <2>1. ZoneScore(v.zones) \in {0, 50, 100}
    BY DEF ZoneScore
  <2>. QED  BY <2>1 DEF ZoneRisk
<1>6. /\ RiskOfPods(v) \in Int /\ RiskOfPods(v) >= ConcentrationRisk(v)
  BY <1>2, <1>3, <1>4 DEF RiskOfPods, Larger
<1>7. /\ RiskWithoutSlack(v) \in Int /\ RiskWithoutSlack(v) >= RiskOfPods(v)
  BY <1>4, <1>5, <1>6 DEF RiskWithoutSlack, Larger
<1>. QED  BY <1>1, <1>2, <1>6, <1>7 DEF Risk, Larger

(* The policy never adds spot where the recovery risk is 60% or more. *)
LEMMA NoGrowthAtRisk ==
    ASSUME NEW c, NEW s \in PolicySignal, NEW n, NEW t, NEW w \in Vector, w.other = TRUE,
           Evaluate(c, [s EXCEPT !.safety = w], n, t).action \in Increase
    PROVE  w.risk < 60
<1>. DEFINE z == [s EXCEPT !.safety = w]
<1>1. z.safety = w
  BY DEF PolicySignal
<1>2. Safety(z.safety).risk = Clamp01(w.risk)
  BY <1>1 DEF Safety, Vector
<1>. HIDE DEF z
<1>3. ASSUME Safety(z.safety).risk >= 60
      PROVE  Evaluate(c, z, n, t).action \notin Increase
  BY <1>3 DEF Evaluate, Reduce, Decision, FreezeSpot, Increase
<1>4. ~(Clamp01(w.risk) >= 60)
  BY <1>2, <1>3 DEF z
<1>. QED  BY <1>4 DEF Clamp01, ClampTo, Vector

-----------------------------------------------------------------------------
(* Every action keeps the types. *)
LEMMA TypedStep == Inv /\ [Next]_vars => Typed'
<1>. SUFFICES ASSUME Inv, [Next]_vars PROVE Typed'
  OBVIOUS
<1>. USE DEF Typed, clusterVars, seenVars, scanVars
<1>t. Typed
  BY DEF Inv
<1>1. CASE ListNodes
  BY <1>t, <1>1 DEF ListNodes
<1>2. CASE ListPods
  BY <1>t, <1>2 DEF ListPods
<1>3. CASE ListPDBs
  <2>1. Entries' \subseteq PDB \X Node /\ Present' \subseteq PDB
    BY DEF Entries, Present
  <2>. QED  BY <1>t, <1>3, <2>1 DEF ListPDBs
<1>4. CASE Finalize
  BY <1>t, <1>4 DEF Finalize
<1>5. CASE Decide
  BY <1>t, <1>5 DEF Decide
<1>6. ASSUME NEW b \in PDB, Fold(b) PROVE Typed'
  <2>1. allowedSeen[b] \in Int /\ maxOne[b] \in Nat /\ maxTwo[b] \in Nat
    BY <1>t
  <2>. QED  BY <1>t, <1>6, <2>1 DEF Fold
<1>7. ASSUME NEW b \in PDB, NEW n \in Node, Scan(b, n) PROVE Typed'
  <2>1. PodsOn(b, n) \in Nat /\ maxOne[b] \in Nat /\ maxTwo[b] \in Nat
    BY <1>t, PodsOnType
  <2>2. LET top == Densest(PodsOn(b, n), maxOne[b], maxTwo[b])
        IN  top[1] \in Nat /\ top[2] \in Nat
    BY <2>1 DEF Densest
  <2>. QED  BY <1>t, <1>7, <2>2 DEF Scan
<1>8. CASE Others
  <2>1. ASSUME NEW p \in Pod, MovePod(p) PROVE Typed'
    BY <1>t, <2>1 DEF MovePod
  <2>2. ASSUME NEW b \in PDB, ChangeAllowed(b) PROVE Typed'
    BY <1>t, <2>2, CollectorAssumption DEF ChangeAllowed
  <2>3. ASSUME NEW n \in Node, ChangeNode(n) PROVE Typed'
    BY <1>t, <2>3 DEF ChangeNode
  <2>. QED  BY <1>8, <2>1, <2>2, <2>3 DEF Others
<1>9. CASE UNCHANGED vars
  BY <1>t, <1>9 DEF vars
<1>. QED
  BY <1>1, <1>2, <1>3, <1>4, <1>5, <1>6, <1>7, <1>8, <1>9 DEF Next, Collect

(* What the lists returned decides everything the loops read. *)
LEMMA SameLists ==
    ASSUME UNCHANGED seenVars
    PROVE  /\ Listed' = Listed /\ Workload' = Workload /\ Critical' = Critical
           /\ Stateful' = Stateful /\ Evictable' = Evictable
           /\ \A b : Guarded(b)' = Guarded(b)
           /\ \A b, n : PodsOn(b, n)' = PodsOn(b, n)
           /\ \A b, lost : Left(b, lost)' = Left(b, lost)
           /\ Entries' = Entries /\ Present' = Present
<1>1. /\ podsSeen' = podsSeen /\ nodesSeen' = nodesSeen
      /\ pdbsKnown' = pdbsKnown /\ allowedSeen' = allowedSeen
  BY DEF seenVars
<1>2. Listed' = Listed
  BY <1>1 DEF Listed
<1>3. Workload' = Workload
  BY <1>2 DEF Workload
<1>4. \A b : Guarded(b)' = Guarded(b)
  BY <1>1, <1>2 DEF Guarded
<1>5. \A b, n : PodsOn(b, n)' = PodsOn(b, n)
  BY <1>1, <1>4 DEF PodsOn
<1>6. \A b, lost : Left(b, lost)' = Left(b, lost)
  BY <1>1, <1>4 DEF Left
<1>7. Critical' = Critical /\ Stateful' = Stateful
  BY <1>3 DEF Critical, Stateful
<1>8. Evictable' = Evictable
  BY <1>1, <1>3, <1>4 DEF Evictable
<1>9. Entries' = Entries /\ Present' = Present
  BY <1>4, <1>5 DEF Entries, Present
<1>. QED  BY <1>2, <1>3, <1>4, <1>5, <1>6, <1>7, <1>8, <1>9

(* The loops visit entries of the lists they started from. *)
LEMMA TodoStep == Inv /\ [Next]_vars => TodoInv'
<1>. SUFFICES ASSUME Inv, [Next]_vars, pc' = "scan" PROVE todo' \subseteq Entries'
  BY DEF TodoInv
<1>keep. ASSUME pc = "scan", UNCHANGED seenVars, todo' \subseteq todo
         PROVE  todo' \subseteq Entries'
  BY <1>keep, SameLists DEF Inv, TodoInv
<1>1. CASE ListPDBs
  BY <1>1 DEF ListPDBs
<1>2. ASSUME NEW b \in PDB, NEW n \in Node, Scan(b, n) PROVE todo' \subseteq Entries'
  BY <1>2, <1>keep DEF Scan
<1>3. ASSUME NEW b \in PDB, Fold(b) PROVE todo' \subseteq Entries'
  BY <1>3, <1>keep DEF Fold
<1>4. CASE Others
  BY <1>4, <1>keep DEF Others, MovePod, ChangeAllowed, ChangeNode, scanVars
<1>5. CASE UNCHANGED vars
  BY <1>5, <1>keep DEF vars, scanVars
<1>6. ~(ListNodes \/ ListPods \/ Finalize \/ Decide)
  BY DEF ListNodes, ListPods, Finalize, Decide
<1>. QED  BY <1>1, <1>2, <1>3, <1>4, <1>5, <1>6 DEF Next, Collect

(* The loop over the nodes of a budget keeps the two densest. *)
LEMMA TopTwoStep == Inv /\ [Next]_vars => TopTwoInv'
<1>. SUFFICES ASSUME Inv, [Next]_vars, pc' = "scan", NEW b \in PDB
              PROVE  (Bounds(b) /\ Attained(b))'
  BY DEF TopTwoInv
<1>t. Typed /\ Typed'
  BY TypedStep DEF Inv
<1>keep. ASSUME pc = "scan", UNCHANGED seenVars, UNCHANGED <<maxOne, maxTwo, todo>>
         PROVE  (Bounds(b) /\ Attained(b))'
  <2>1. Visited(b)' = Visited(b)
    BY <1>keep, SameLists DEF Visited
  <2>. QED  BY <1>keep, <2>1, SameLists DEF Bounds, Attained, Inv, TopTwoInv
<1>1. CASE ListPDBs
  <2>1. /\ maxOne' = [x \in PDB |-> 0] /\ maxTwo' = [x \in PDB |-> 0]
        /\ todo' = Entries'
    BY <1>1 DEF ListPDBs
  <2>2. Visited(b)' = {}
    BY <2>1 DEF Visited
  <2>. QED  BY <2>1, <2>2 DEF Bounds, Attained
<1>2. ASSUME NEW d \in PDB, NEW n \in Node, Scan(d, n) PROVE (Bounds(b) /\ Attained(b))'
  <2>. DEFINE k   == PodsOn(d, n)
              top == Densest(k, maxOne[d], maxTwo[d])
  <2>1. /\ pc = "scan" /\ <<d, n>> \in todo /\ todo' = todo \ {<<d, n>>}
        /\ maxOne' = [maxOne EXCEPT ![d] = top[1]]
        /\ maxTwo' = [maxTwo EXCEPT ![d] = top[2]]
        /\ UNCHANGED seenVars
    BY <1>2 DEF Scan
  <2>2. /\ \A x, y : PodsOn(x, y)' = PodsOn(x, y)
        /\ Entries' = Entries
        /\ \A x, y : PodsOn(x, y) \in Nat
    BY <2>1, SameLists, PodsOnType
  <2>3. Bounds(b) /\ Attained(b)
    BY <2>1 DEF Inv, TopTwoInv
  <2>4. CASE b # d
    <3>1. Visited(b)' = Visited(b)
      BY <2>1, <2>2, <2>4 DEF Visited
    <3>2. maxOne'[b] = maxOne[b] /\ maxTwo'[b] = maxTwo[b]
      BY <2>1, <2>4, <1>t DEF Typed
    <3>. QED  BY <2>2, <2>3, <3>1, <3>2 DEF Bounds, Attained
  <2>5. CASE b = d
    <3>1. /\ maxOne[b] \in Nat /\ maxTwo[b] \in Nat /\ k \in Nat
          /\ maxOne'[b] = top[1] /\ maxTwo'[b] = top[2]
      BY <2>1, <2>2, <2>5, <1>t DEF Typed
    <3>2. n \notin Visited(b)
      BY <2>1, <2>5 DEF Visited
    <3>3. Visited(b)' = Visited(b) \cup {n}
      <4>1. <<b, n>> \in Entries
        BY <2>1, <2>5 DEF Inv, TodoInv
      <4>. QED  BY <2>1, <2>2, <2>5, <4>1 DEF Visited
    <3>4. CASE k >= maxOne[b]
      <4>1. maxOne'[b] = k /\ maxTwo'[b] = maxOne[b]
        BY <2>5, <3>1, <3>4 DEF Densest
      <4>2. Bounds(b)'
        BY <2>2, <2>3, <2>5, <3>1, <3>2, <3>3, <3>4, <4>1 DEF Bounds
      <4>3. Attained(b)'
        BY <2>2, <2>3, <2>5, <3>1, <3>2, <3>3, <3>4, <4>1 DEF Attained
      <4>. QED  BY <4>2, <4>3
    <3>5. CASE k < maxOne[b] /\ k > maxTwo[b]
      <4>1. maxOne'[b] = maxOne[b] /\ maxTwo'[b] = k
        BY <2>5, <3>1, <3>5 DEF Densest
      <4>2. Bounds(b)'
        BY <2>2, <2>3, <2>5, <3>1, <3>2, <3>3, <3>5, <4>1 DEF Bounds
      <4>3. Attained(b)'
        BY <2>2, <2>3, <2>5, <3>1, <3>2, <3>3, <3>5, <4>1 DEF Attained
      <4>. QED  BY <4>2, <4>3
    <3>6. CASE k < maxOne[b] /\ k <= maxTwo[b]
      <4>1. maxOne'[b] = maxOne[b] /\ maxTwo'[b] = maxTwo[b]
        BY <2>5, <3>1, <3>6 DEF Densest
      <4>2. Bounds(b)'
        BY <2>2, <2>3, <2>5, <3>1, <3>2, <3>3, <3>6, <4>1 DEF Bounds
      <4>3. Attained(b)'
        BY <2>2, <2>3, <2>5, <3>1, <3>2, <3>3, <3>6, <4>1 DEF Attained
      <4>. QED  BY <4>2, <4>3
    <3>. QED  BY <3>1, <3>4, <3>5, <3>6
  <2>. QED  BY <2>4, <2>5
<1>3. ASSUME NEW d \in PDB, Fold(d) PROVE (Bounds(b) /\ Attained(b))'
  BY <1>3, <1>keep DEF Fold
<1>4. CASE Others
  BY <1>4, <1>keep DEF Others, MovePod, ChangeAllowed, ChangeNode, scanVars
<1>5. CASE UNCHANGED vars
  BY <1>5, <1>keep DEF vars, scanVars
<1>6. ~(ListNodes \/ ListPods \/ Finalize \/ Decide)
  BY DEF ListNodes, ListPods, Finalize, Decide
<1>. QED  BY <1>1, <1>2, <1>3, <1>4, <1>5, <1>6 DEF Next, Collect

(* The loop over the budgets keeps the least slack. *)
LEMMA MinStep == Inv /\ [Next]_vars => MinInv'
<1>. SUFFICES ASSUME Inv, [Next]_vars, pc' = "scan" PROVE MinInv'
  BY DEF MinInv
<1>t. Typed /\ Typed'
  BY TypedStep DEF Inv
<1>keep. ASSUME pc = "scan", UNCHANGED seenVars,
                UNCHANGED <<maxOne, maxTwo, todo, pending, minOne, minTwo>>
         PROVE  MinInv'
  <2>1. Present' = Present /\ Done' = Done
    BY <1>keep, SameLists DEF Done
  <2>2. \A b : One(b)' = One(b) /\ Two(b)' = Two(b)
    BY <1>keep DEF One, Two, seenVars
  <2>. QED  BY <1>keep, <2>1, <2>2 DEF Inv, MinInv
<1>1. CASE ListPDBs
  <2>1. pending' = Present' /\ minOne' = 0 /\ minTwo' = 0
    BY <1>1 DEF ListPDBs
  <2>2. Done' = {}
    BY <2>1 DEF Done
  <2>. QED  BY <2>1, <2>2 DEF MinInv
<1>2. ASSUME NEW d \in PDB, NEW n \in Node, Scan(d, n) PROVE MinInv'
  <2>1. /\ pc = "scan" /\ <<d, n>> \in todo /\ todo' \subseteq todo
        /\ UNCHANGED <<pending, minOne, minTwo>> /\ UNCHANGED seenVars
        /\ \A b \in PDB \ {d} : maxOne'[b] = maxOne[b] /\ maxTwo'[b] = maxTwo[b]
    BY <1>2, <1>t DEF Scan, Typed
  <2>2. Present' = Present /\ Done' = Done
    BY <2>1, SameLists DEF Done
  <2>3. MinInv /\ Done \subseteq PDB
    BY DEF Inv, Done, Present
  <2>4. d \notin Done
    BY <2>1, <2>3 DEF MinInv
  <2>5. \A b \in Done : One(b)' = One(b) /\ Two(b)' = Two(b)
    BY <2>1, <2>3, <2>4 DEF One, Two, seenVars
  <2>. QED  BY <2>1, <2>2, <2>3, <2>5 DEF MinInv
<1>3. ASSUME NEW d \in PDB, Fold(d) PROVE MinInv'
  <2>1. /\ pc = "scan" /\ d \in pending /\ pending' = pending \ {d}
        /\ \A n \in Node : <<d, n>> \notin todo
        /\ minOne' = IF pending = Present \/ One(d) < minOne THEN One(d) ELSE minOne
        /\ minTwo' = IF pending = Present \/ Two(d) < minTwo THEN Two(d) ELSE minTwo
        /\ UNCHANGED <<todo, maxOne, maxTwo>> /\ UNCHANGED seenVars
    BY <1>3 DEF Fold, One, Two
  <2>2. MinInv /\ pending \subseteq Present
    BY <2>1 DEF Inv, MinInv
  <2>3. Present' = Present /\ Done' = Done \cup {d} /\ (Done = {} <=> pending = Present)
    BY <2>1, <2>2, SameLists DEF Done
  <2>4. /\ \A b : One(b)' = One(b) /\ Two(b)' = Two(b)
        /\ \A b \in PDB : One(b) \in Int /\ Two(b) \in Int
        /\ minOne \in Int /\ minTwo \in Int
    BY <2>1, <1>t DEF One, Two, seenVars, Typed
  <2>5. Done \subseteq PDB
    BY DEF Done, Present
  <2>6. \A b \in Done' : minOne' <= One(b) /\ minTwo' <= Two(b)
    BY <2>1, <2>2, <2>3, <2>4, <2>5 DEF MinInv
  <2>7. (\E b \in Done' : minOne' = One(b)) /\ (\E b \in Done' : minTwo' = Two(b))
    BY <2>1, <2>2, <2>3, <2>4, <2>5 DEF MinInv
  <2>8. \A b \in Done' : \A n \in Node : <<b, n>> \notin todo'
    BY <2>1, <2>2, <2>3 DEF MinInv
  <2>. QED  BY <2>1, <2>2, <2>3, <2>4, <2>6, <2>7, <2>8 DEF MinInv
<1>4. CASE Others
  BY <1>4, <1>keep DEF Others, MovePod, ChangeAllowed, ChangeNode, scanVars
<1>5. CASE UNCHANGED vars
  BY <1>5, <1>keep DEF vars, scanVars
<1>6. ~(ListNodes \/ ListPods \/ Finalize \/ Decide)
  BY DEF ListNodes, ListPods, Finalize, Decide
<1>. QED  BY <1>1, <1>2, <1>3, <1>4, <1>5, <1>6 DEF Next, Collect

(* Finalize publishes the worst case of what was listed. *)
LEMMA PublishedStep == Inv /\ [Next]_vars => PublishedInv'
<1>. SUFFICES ASSUME Inv, [Next]_vars, pc' = "decide" PROVE PublishedInv'
  BY DEF PublishedInv
<1>t. Typed
  BY DEF Inv
<1>keep. ASSUME pc = "decide", UNCHANGED seenVars, UNCHANGED <<counts, vector>>
         PROVE  PublishedInv'
  <2>1. PublishedInv
    BY DEF Inv
  <2>2. podsSeen' = podsSeen /\ counts' = counts /\ vector' = vector
    BY <1>keep DEF seenVars
  <2>3. WorstOne' <=> WorstOne
    BY <2>2, <1>keep, SameLists DEF WorstOne, Losses
  <2>4. WorstTwo' <=> WorstTwo
    BY <2>2, <1>keep, SameLists DEF WorstTwo, Losses
  <2>5. VectorOf(counts)' = VectorOf(counts)
    BY <2>2
  <2>. QED  BY <1>keep, <2>1, <2>2, <2>3, <2>4, <2>5, SameLists DEF PublishedInv
<1>1. CASE Finalize
  <2>1. pc = "scan" /\ todo = {} /\ pending = {} /\ UNCHANGED seenVars
    BY <1>1 DEF Finalize
  <2>2. CASE nodesSeen \cap Member = {}
    <3>1. Workload = {}
      BY <2>2 DEF Workload, Listed
    <3>2. counts' = NoCounts /\ vector' = DefaultVector
      BY <1>1, <2>2 DEF Finalize
    <3>3. NoCounts.workload = 0
      BY DEF NoCounts
    <3>4. vector' = VectorOf(counts')
      BY <3>2, <3>3 DEF VectorOf
    <3>5. Workload' = {} /\ counts'.workload = Cardinality(Workload')
      BY <2>1, <3>1, <3>2, <3>3, SameLists, FS_EmptySet
    <3>. QED  BY <3>4, <3>5 DEF PublishedInv
  <2>3. CASE nodesSeen \cap Member # {}
    <3>1. PICK util \in Utils : counts' = CountsWith(util) /\ vector' = VectorOf(counts')
      BY <1>1, <2>3 DEF Finalize
    <3>2. /\ counts'.workload = Cardinality(Workload)
          /\ counts'.stateful = Cardinality(Stateful)
          /\ counts'.evictable = Cardinality(Evictable)
          /\ counts'.critical = Cardinality(Critical)
          /\ counts'.onSpot = Cardinality({p \in Critical : podsSeen[p] \in Spot})
          /\ counts'.slackOne = minOne /\ counts'.slackTwo = minTwo
      BY <3>1 DEF CountsWith
    <3>3. Done = Present /\ Present \subseteq PDB
      BY <2>1 DEF Done, Present
    <3>4. ASSUME NEW b \in Present
          PROVE  /\ \A lost \in Losses(1) : One(b) <= Left(b, lost)
                 /\ \E lost \in Losses(1) : One(b) = Left(b, lost)
                 /\ \A lost \in Losses(2) : Two(b) <= Left(b, lost)
                 /\ \E lost \in Losses(2) : Two(b) = Left(b, lost)
      BY <1>t, <2>1, <3>3, TopTwoIsWorst DEF Inv, TopTwoInv
    <3>5. /\ \A b \in Present : minOne <= One(b) /\ minTwo <= Two(b)
          /\ Present # {} => /\ \E b \in Present : minOne = One(b)
                             /\ \E b \in Present : minTwo = Two(b)
          /\ Present = {} => minOne = 0
      BY <2>1, <3>3 DEF Inv, MinInv
    <3>6. \A b \in Present : /\ One(b) \in Int /\ Two(b) \in Int
                             /\ \A lost : Left(b, lost) \in Int
      <4>. TAKE b \in Present
      <4>1. \A lost : {p \in Guarded(b) : podsSeen[p] \in lost} \in SUBSET Pod
        BY DEF Guarded, Listed
      <4>2. \A lost : Cardinality({p \in Guarded(b) : podsSeen[p] \in lost}) \in Nat
        BY <4>1, PodsFinite
      <4>3. allowedSeen[b] \in Int /\ maxOne[b] \in Nat /\ maxTwo[b] \in Nat
        BY <1>t, <3>3 DEF Typed
      <4>4. One(b) \in Int /\ Two(b) \in Int
        BY <4>3 DEF One, Two
      <4>5. \A lost : Left(b, lost) \in Int
        <5>. TAKE lost
        <5>. DEFINE k == Cardinality({p \in Guarded(b) : podsSeen[p] \in lost})
        <5>1. k \in Nat /\ allowedSeen[b] - k = Left(b, lost)
          BY <4>2 DEF Left
        <5>. HIDE DEF k
        <5>. QED  BY <4>3, <5>1
      <4>. QED  BY <4>4, <4>5
    <3>7. /\ Present' = Present /\ Workload' = Workload
          /\ \A b, lost : Left(b, lost)' = Left(b, lost)
      BY <2>1, SameLists
    <3>m. minOne \in Int /\ minTwo \in Int
      BY <1>t DEF Typed
    <3>8. Present # {} => WorstOne'
      BY <3>2, <3>4, <3>5, <3>6, <3>7, <3>m DEF WorstOne, Losses
    <3>9. Present # {} => WorstTwo'
      BY <3>2, <3>4, <3>5, <3>6, <3>7, <3>m DEF WorstTwo, Losses
    <3>10. /\ Stateful' = Stateful /\ Evictable' = Evictable /\ Critical' = Critical
           /\ podsSeen' = podsSeen
      BY <2>1, SameLists DEF seenVars
    <3>. QED  BY <3>1, <3>2, <3>5, <3>7, <3>8, <3>9, <3>10, <3>m DEF PublishedInv
  <2>. QED  BY <2>2, <2>3
<1>2. CASE Others
  BY <1>2, <1>keep DEF Others, MovePod, ChangeAllowed, ChangeNode
<1>3. CASE UNCHANGED vars
  BY <1>3, <1>keep DEF vars
<1>4. ~(ListNodes \/ ListPods \/ ListPDBs \/ Decide)
  BY DEF ListNodes, ListPods, ListPDBs, Decide
<1>5. \A b \in PDB : ~Fold(b) /\ \A n \in Node : ~Scan(b, n)
  BY DEF Fold, Scan
<1>. QED  BY <1>1, <1>2, <1>3, <1>4, <1>5 DEF Next, Collect

(* A cap is a percentage whatever the signals say. *)
LEMMA SafeMaxType == \A v : SafeMax(v) \in 0..100
<1>. TAKE v
<1>1. /\ ConcentrationCap(v) \in 0..100 /\ StatefulCap(v) \in 0..100
      /\ RestartCap(v) \in 0..100 /\ EvictableCap(v) \in 0..100
  BY DEF ConcentrationCap, StatefulCap, RestartCap, EvictableCap
<1>2. /\ OneNodeCap(v) \in 0..100 /\ TwoNodesCap(v) \in 0..100
      /\ HeadroomCap(v) \in 0..100 /\ ZoneCap(v) \in 0..100
  BY DEF OneNodeCap, TwoNodesCap, HeadroomCap, ZoneCap
<1>3. RiskCap(Risk(v)) \in 0..100
  BY DEF RiskCap
<1>4. CapOfPods(v) \in 0..100
  BY <1>1 DEF CapOfPods, Smaller
<1>5. CapOfPool(v) \in 0..100
  BY <1>2 DEF CapOfPool, Smaller
<1>. QED  BY <1>3, <1>4, <1>5 DEF SafeMax, Smaller

(* A decision to grow is one with slack. *)
LEMMA DecidedStep == Inv /\ [Next]_vars => DecidedInv'
<1>. SUFFICES ASSUME Inv, [Next]_vars PROVE DecidedInv'
  OBVIOUS
<1>t. Typed /\ DecidedInv /\ PublishedInv
  BY DEF Inv
<1>hold. ASSUME act' = "hold" PROVE DecidedInv'
  BY <1>hold DEF DecidedInv, GrowthIsSafe, Increase
<1>busy. ASSUME pc # "idle", act' = act PROVE DecidedInv'
  BY <1>t, <1>busy, <1>hold DEF DecidedInv
<1>keep. ASSUME UNCHANGED seenVars, UNCHANGED <<pc, act>> PROVE DecidedInv'
  <2>1. podsSeen' = podsSeen /\ pdbsKnown' = pdbsKnown
    BY <1>keep DEF seenVars
  <2>2. GrowthIsSafe'
    BY <1>t, <1>keep, <2>1, SameLists DEF DecidedInv, GrowthIsSafe, Losses
  <2>. QED  BY <1>t, <1>keep, <2>2 DEF DecidedInv
<1>1. CASE ListNodes
  BY <1>1, <1>hold DEF ListNodes
<1>2. CASE ListPods
  BY <1>2, <1>busy DEF ListPods
<1>3. CASE ListPDBs
  BY <1>3, <1>busy DEF ListPDBs
<1>4. CASE Finalize
  BY <1>4, <1>busy DEF Finalize
<1>5. ASSUME NEW b \in PDB, Fold(b) PROVE DecidedInv'
  BY <1>5, <1>busy DEF Fold
<1>6. ASSUME NEW b \in PDB, NEW n \in Node, Scan(b, n) PROVE DecidedInv'
  BY <1>6, <1>busy DEF Scan
<1>7. CASE Others
  BY <1>7, <1>keep DEF Others, MovePod, ChangeAllowed, ChangeNode
<1>8. CASE UNCHANGED vars
  BY <1>8, <1>keep DEF vars
<1>9. CASE Decide
  <2>1. pc = "decide" /\ pc' = "idle" /\ UNCHANGED seenVars
    BY <1>9 DEF Decide
  <2>2. SUFFICES ASSUME act' \in Increase, Workload # {}
                 PROVE  /\ pdbsKnown /\ Present # {}
                        /\ \A b \in Present, lost \in Losses(1) : Left(b, lost) >= 1
                        /\ \A b \in Present, lost \in Losses(2) : Left(b, lost) >= 0
                        /\ 2 * Cardinality({p \in Critical : podsSeen[p] \in Spot})
                               < Cardinality(Critical) \/ Critical = {}
    <3>1. podsSeen' = podsSeen /\ pdbsKnown' = pdbsKnown
      BY <2>1 DEF seenVars
    <3>. QED  BY <2>1, <3>1, SameLists DEF DecidedInv, GrowthIsSafe, Losses
  <2>3. /\ counts.workload = Cardinality(Workload) /\ vector = VectorOf(counts)
        /\ counts.stateful = Cardinality(Stateful)
        /\ counts.evictable = Cardinality(Evictable)
        /\ counts.critical = Cardinality(Critical)
        /\ counts.onSpot = Cardinality({p \in Critical : podsSeen[p] \in Spot})
        /\ counts.slackOne \in Int /\ counts.slackTwo \in Int
        /\ IF Present = {} THEN counts.slackOne = 0 ELSE WorstOne /\ WorstTwo
    BY <1>t, <2>1, <2>2 DEF PublishedInv
  <2>4. /\ Workload \in SUBSET Pod /\ Stateful \in SUBSET Pod /\ Evictable \in SUBSET Pod
        /\ Critical \in SUBSET Pod
        /\ {p \in Critical : podsSeen[p] \in Spot} \in SUBSET Critical
    BY DEF Workload, Stateful, Evictable, Critical, Listed
  <2>5. /\ counts.workload \in Nat \ {0} /\ counts.stateful \in Nat
        /\ counts.evictable \in Nat /\ counts.critical \in Nat
    BY <2>2, <2>3, <2>4, PodsFinite, FS_EmptySet
  <2>6. counts.onSpot \in Nat /\ counts.onSpot <= counts.critical
    <3>1. IsFiniteSet(Critical) /\ {p \in Critical : podsSeen[p] \in Spot} \in SUBSET Pod
      BY <2>4, PodsFinite
    <3>. QED  BY <2>3, <2>4, <3>1, PodsFinite, FS_Subset
  <2>7. /\ Risk(counts) \in Int /\ Risk(counts) >= OneNodeRisk(counts)
        /\ Risk(counts) >= TwoNodesRisk(counts)
        /\ Risk(counts) >= ConcentrationRisk(counts)
    BY <2>3, <2>5, <2>6, RiskBounds
  <2>8. /\ vector = [risk |-> Risk(counts), slack |-> counts.slackOne,
                     safeMax |-> SafeMax(counts), other |-> TRUE]
        /\ vector \in Vector
    <3>1. counts.workload # 0
      BY <2>5
    <3>2. SafeMax(counts) \in Int
      BY SafeMaxType
    <3>. QED  BY <2>3, <2>7, <3>1, <3>2 DEF VectorOf, Vector
  <2>9. Risk(counts) < 60
    <3>1. PICK c \in RawConfigs, s \in Signals, share \in Shares :
             act' = Evaluate(Load(c), [s EXCEPT !.safety = vector], share[1], share[2]).action
      BY <1>9 DEF Decide
    <3>2. s \in PolicySignal
      BY CollectorAssumption
    <3>3. vector.risk < 60
      BY <2>2, <2>8, <3>1, <3>2, NoGrowthAtRisk
    <3>. QED  BY <2>8, <3>3
  <2>10. counts.slackOne >= 1
    BY <2>3, <2>7, <2>9 DEF OneNodeRisk
  <2>11. counts.slackTwo >= 0
    BY <2>3, <2>7, <2>9 DEF TwoNodesRisk
  <2>12. Present # {} /\ WorstOne /\ WorstTwo
    BY <2>3, <2>10
  <2>13. pdbsKnown
    BY <2>12 DEF Present, Guarded
  <2>14. \A b \in Present : \A lost : Left(b, lost) \in Int
    <3>. TAKE b \in Present
    <3>. TAKE lost
    <3>1. {p \in Guarded(b) : podsSeen[p] \in lost} \in SUBSET Pod /\ b \in PDB
      BY DEF Guarded, Listed, Present
    <3>2. Cardinality({p \in Guarded(b) : podsSeen[p] \in lost}) \in Nat
      BY <3>1, PodsFinite
    <3>. QED  BY <1>t, <3>1, <3>2 DEF Left, Typed
  <2>15. \A b \in Present, lost \in Losses(1) : Left(b, lost) >= 1
    BY <2>3, <2>10, <2>12, <2>14 DEF WorstOne
  <2>16. \A b \in Present, lost \in Losses(2) : Left(b, lost) >= 0
    BY <2>3, <2>11, <2>12, <2>14 DEF WorstTwo
  <2>17. 2 * counts.onSpot < counts.critical \/ counts.critical = 0
    <3>1. CASE counts.onSpot = 0
      BY <2>5, <2>6, <3>1
    <3>2. CASE counts.onSpot > 0
      <4>. DEFINE x == counts.onSpot
                  y == counts.critical
      <4>1. x \in Nat /\ y \in Nat /\ y > 0
        BY <2>5, <2>6, <3>2
      <4>2. (20 * y + 80 * x) \div y < 60
        BY <2>7, <2>9, <3>2, <4>1 DEF ConcentrationRisk
      <4>. HIDE DEF x, y
      <4>3. 20 * y + 80 * x < 60 * y
        BY <4>1, <4>2
      <4>4. 2 * x < y
        BY <4>1, <4>3
      <4>. QED  BY <4>4 DEF x, y
    <3>. QED  BY <2>6, <3>1, <3>2
  <2>18. 2 * Cardinality({p \in Critical : podsSeen[p] \in Spot}) < Cardinality(Critical)
         \/ Critical = {}
    BY <2>3, <2>4, <2>17, PodsFinite, FS_EmptySet
  <2>. QED  BY <2>12, <2>13, <2>15, <2>16, <2>18
<1>. QED
  BY <1>1, <1>2, <1>3, <1>4, <1>5, <1>6, <1>7, <1>8, <1>9 DEF Next, Collect

-----------------------------------------------------------------------------
(* Inv holds in every reachable state. *)
THEOREM CollectorInvariance == Spec => []Inv
<1>1. Init => Inv
  <2>. SUFFICES ASSUME Init PROVE Inv
    OBVIOUS
  <2>1. Typed
    <3>1. on \in [Pod -> Node \cup {Nowhere}] /\ allowed \in [PDB -> Int]
      BY CollectorAssumption DEF Init
    <3>2. /\ podsSeen \in [Pod -> Node \cup {Nowhere}] /\ allowedSeen \in [PDB -> Int]
          /\ maxOne \in [PDB -> Nat] /\ maxTwo \in [PDB -> Nat]
      BY DEF Init
    <3>3. /\ nodes = Node /\ nodesSeen = {} /\ todo = {} /\ pending = {}
          /\ pdbsKnown = FALSE /\ minOne = 0 /\ minTwo = 0
      BY DEF Init
    <3>4. /\ nodesSeen \subseteq Node /\ nodes \subseteq Node /\ pending \subseteq PDB
          /\ todo \subseteq PDB \X Node /\ pdbsKnown \in BOOLEAN
      BY <3>3, Zenon
    <3>5. minOne \in Int /\ minTwo \in Int
      BY <3>3
    <3>. QED  BY <3>1, <3>2, <3>4, <3>5, Zenon DEF Typed
  <2>2. TodoInv /\ TopTwoInv /\ MinInv /\ PublishedInv
    BY DEF Init, TodoInv, TopTwoInv, MinInv, PublishedInv
  <2>3. DecidedInv
    BY DEF Init, DecidedInv, GrowthIsSafe, Increase
  <2>. QED  BY <2>1, <2>2, <2>3 DEF Inv
<1>2. Inv /\ [Next]_vars => Inv'
  BY TypedStep, TodoStep, TopTwoStep, MinStep, PublishedStep, DecidedStep DEF Inv
<1>. QED  BY <1>1, <1>2, PTL DEF Spec

(* For every pool, every number of budgets and every order in which Go     *)
(* walks the maps, computePDBSlackBounds publishes the worst loss of one   *)
(* and of two nodes.                                                       *)
THEOREM SlackIsTheWorstCase == Spec => []SlackIsWorstCase
<1>1. Inv => SlackIsWorstCase
  <2>. SUFFICES ASSUME Inv, pc = "decide", counts.workload > 0, Present # {}
                PROVE  WorstOne /\ WorstTwo
    BY DEF SlackIsWorstCase, WorstOne, WorstTwo
  <2>1. counts.workload = Cardinality(Workload)
    BY DEF Inv, PublishedInv
  <2>2. Workload # {}
    BY <2>1, FS_EmptySet
  <2>. QED  BY <2>2 DEF Inv, PublishedInv
<1>. QED  BY CollectorInvariance, <1>1, PTL

(* Whatever configuration is loaded and whatever the market says, the      *)
(* policy adds spot to a pool with workloads only with slack to lose.      *)
THEOREM GrowthStaysSafe == Spec => []GrowthIsSafe
<1>1. Inv => GrowthIsSafe
  BY DEF Inv, DecidedInv
<1>. QED  BY CollectorInvariance, <1>1, PTL

-----------------------------------------------------------------------------
(* The roll-up and the cap as functions of the signals. *)
Consistent(v) ==
    /\ v \in Counts /\ v.workload > 0 /\ v.onSpot <= v.critical
    /\ v.stateful <= v.workload /\ v.evictable <= v.workload

(* A larger fraction reaches every threshold a smaller one reaches. *)
LEMMA LargerFractionReaches ==
    ASSUME NEW a \in Nat, NEW b \in Nat, NEW c \in Nat, NEW d \in Nat, NEW pct \in Nat,
           b > 0, d > 0, a * d >= c * b, AtLeast(c, d, pct)
    PROVE  AtLeast(a, b, pct)
<1>1. 100 * c >= pct * d
  BY DEF AtLeast
<1>2. (100 * c) * b >= (pct * d) * b
  BY <1>1
<1>3. 100 * (a * d) >= 100 * (c * b)
  BY DEF AtLeast
<1>4. (100 * a) * d >= (pct * b) * d
  BY <1>2, <1>3
<1>5. 100 * a >= pct * b
  <2>. DEFINE x == 100 * a
              y == pct * b
  <2>1. x \in Nat /\ y \in Nat /\ x * d >= y * d
    BY <1>4
  <2>. HIDE DEF x, y
  <2>2. SUFFICES ASSUME x < y PROVE FALSE
    BY <2>1 DEF x, y
  <2>3. PICK e \in Nat : y = x + e /\ e > 0
    <3>1. y - x \in Nat /\ y = x + (y - x) /\ y - x > 0
      BY <2>1, <2>2
    <3>. QED  BY <3>1
  <2>4. y * d = x * d + e * d /\ e * d > 0
    BY <2>1, <2>3
  <2>. QED  BY <2>1, <2>4
<1>. QED  BY <1>5 DEF AtLeast

(* Rounded-down quotients are ordered as the fractions are. *)
LEMMA DivMonotone ==
    ASSUME NEW a \in Nat, NEW b \in Nat, NEW c \in Nat, NEW d \in Nat,
           b > 0, d > 0, a * d >= c * b
    PROVE  a \div b >= c \div d
<1>. DEFINE q == c \div d
            k == a \div b
<1>1. q \in Nat /\ q * d <= c
  OBVIOUS
<1>2. k \in Nat /\ a < (k + 1) * b
  OBVIOUS
<1>. HIDE DEF q, k
<1>3. SUFFICES ASSUME k + 1 <= q PROVE FALSE
  BY <1>1, <1>2 DEF q, k
<1>4. (k + 1) * b <= q * b
  BY <1>1, <1>2, <1>3
<1>5. a < q * b
  BY <1>1, <1>2, <1>4
<1>6. a * d < (q * b) * d
  BY <1>1, <1>5
<1>7. (q * d) * b <= c * b
  BY <1>1
<1>. QED  BY <1>1, <1>6, <1>7

(* The shares of critical pods on spot and of stateful pods. *)
LEMMA SharesMonotone ==
    ASSUME NEW v, NEW w, Consistent(v), Consistent(w), NoSafer(v, w)
    PROVE  /\ ConcentrationRisk(v) >= ConcentrationRisk(w)
           /\ ConcentrationCap(v) <= ConcentrationCap(w)
           /\ StatefulRisk(v) >= StatefulRisk(w) /\ StatefulCap(v) <= StatefulCap(w)
<1>. DEFINE a == v.onSpot
            b == v.critical
            c == w.onSpot
            d == w.critical
            e == v.stateful
            f == v.workload
            g == w.stateful
            h == w.workload
<1>1. /\ a \in Nat /\ b \in Nat /\ c \in Nat /\ d \in Nat
      /\ e \in Nat /\ f \in Nat /\ g \in Nat /\ h \in Nat
      /\ a <= b /\ c <= d /\ f > 0 /\ h > 0
  BY DEF Consistent, Counts
<1>2. (b = 0 => c = 0) /\ (b # 0 => a * d >= c * b) /\ e * h >= g * f
  BY DEF NoSafer
<1>3. ConcentrationRisk(v) = IF a > 0 THEN (20 * b + 80 * a) \div b ELSE 0
  BY DEF ConcentrationRisk
<1>4. ConcentrationRisk(w) = IF c > 0 THEN (20 * d + 80 * c) \div d ELSE 0
  BY DEF ConcentrationRisk
<1>5. StatefulRisk(v) = IF e > 0 THEN (15 * f + 65 * e) \div f ELSE 0
  BY DEF StatefulRisk
<1>6. StatefulRisk(w) = IF g > 0 THEN (15 * h + 65 * g) \div h ELSE 0
  BY DEF StatefulRisk
<1>7. \A pct \in {25, 50, 80} : AtLeast(c, d, pct) => AtLeast(a, b, pct)
  <2>. SUFFICES ASSUME NEW pct \in {25, 50, 80}, AtLeast(c, d, pct)
                PROVE  AtLeast(a, b, pct)
    OBVIOUS
  <2>. HIDE DEF a, b, c, d
  <2>1. d > 0 /\ 100 * c >= pct * d /\ pct \in Nat /\ pct > 0
    BY DEF AtLeast
  <2>2. c > 0
    <3>1. CASE c = 0
      <4>1. pct * d > 0
        BY <1>1, <2>1
      <4>. QED  BY <1>1, <2>1, <3>1, <4>1
    <3>. QED  BY <1>1, <3>1
  <2>3. b > 0
    BY <1>1, <1>2, <2>2
  <2>. QED  BY <1>1, <1>2, <2>1, <2>3, LargerFractionReaches
<1>8. \A pct \in {25, 50} : AtLeast(g, h, pct) => AtLeast(e, f, pct)
  <2>. HIDE DEF e, f, g, h
  <2>. QED  BY <1>1, <1>2, LargerFractionReaches
<1>9. ConcentrationCap(v) <= ConcentrationCap(w)
  BY <1>7 DEF ConcentrationCap
<1>10. StatefulCap(v) <= StatefulCap(w)
  BY <1>8 DEF StatefulCap
<1>11. ConcentrationRisk(v) >= ConcentrationRisk(w)
  <2>. HIDE DEF a, b, c, d
  <2>1. CASE c = 0
    <3>1. a > 0 => (20 * b + 80 * a) \div b \in Nat
      BY <1>1
    <3>. QED  BY <1>1, <1>3, <1>4, <2>1, <3>1
  <2>2. CASE c > 0
    <3>1. b > 0 /\ d > 0 /\ a * d >= c * b
      BY <1>1, <1>2, <2>2
    <3>2. a > 0
      <4>1. CASE a = 0
        <5>1. c * b > 0
          BY <1>1, <2>2, <3>1
        <5>. QED  BY <1>1, <3>1, <4>1, <5>1
      <4>. QED  BY <1>1, <4>1
    <3>3. (20 * b + 80 * a) * d >= (20 * d + 80 * c) * b
      <4>1. (20 * b + 80 * a) * d = 20 * (b * d) + 80 * (a * d)
        BY <1>1
      <4>2. (20 * d + 80 * c) * b = 20 * (b * d) + 80 * (c * b)
        BY <1>1
      <4>. QED  BY <1>1, <3>1, <4>1, <4>2
    <3>4. 20 * b + 80 * a \in Nat /\ 20 * d + 80 * c \in Nat
      BY <1>1
    <3>5. (20 * b + 80 * a) \div b >= (20 * d + 80 * c) \div d
      BY <1>1, <3>1, <3>3, <3>4, DivMonotone
    <3>. QED  BY <1>3, <1>4, <2>2, <3>2, <3>5
  <2>. QED  BY <1>1, <2>1, <2>2
<1>12. StatefulRisk(v) >= StatefulRisk(w)
  <2>. HIDE DEF e, f, g, h
  <2>1. CASE g = 0
    <3>1. e > 0 => (15 * f + 65 * e) \div f \in Nat
      BY <1>1
    <3>. QED  BY <1>1, <1>5, <1>6, <2>1, <3>1
  <2>2. CASE g > 0
    <3>1. e > 0
      <4>1. CASE e = 0
        <5>1. g * f > 0
          BY <1>1, <2>2
        <5>. QED  BY <1>1, <1>2, <4>1, <5>1
      <4>. QED  BY <1>1, <4>1
    <3>2. (15 * f + 65 * e) * h >= (15 * h + 65 * g) * f
      <4>1. (15 * f + 65 * e) * h = 15 * (f * h) + 65 * (e * h)
        BY <1>1
      <4>2. (15 * h + 65 * g) * f = 15 * (f * h) + 65 * (g * f)
        BY <1>1
      <4>. QED  BY <1>1, <1>2, <4>1, <4>2
    <3>3. 15 * f + 65 * e \in Nat /\ 15 * h + 65 * g \in Nat
      BY <1>1
    <3>4. (15 * f + 65 * e) \div f >= (15 * h + 65 * g) \div h
      BY <1>1, <3>2, <3>3, DivMonotone
    <3>. QED  BY <1>5, <1>6, <2>2, <3>1, <3>4
  <2>. QED  BY <1>1, <2>1, <2>2
<1>. QED  BY <1>9, <1>10, <1>11, <1>12

(* The share of pods that cannot be evicted. *)
LEMMA EvictableMonotone ==
    ASSUME NEW v, NEW w, Consistent(v), Consistent(w), NoSafer(v, w)
    PROVE  EvictableRisk(v) >= EvictableRisk(w) /\ EvictableCap(v) <= EvictableCap(w)
<1>. DEFINE a == v.evictable
            b == v.workload
            c == w.evictable
            d == w.workload
<1>1. /\ a \in Nat /\ b \in Nat /\ c \in Nat /\ d \in Nat /\ b > 0 /\ d > 0
      /\ a <= b /\ c <= d /\ c * b >= a * d
  BY DEF Consistent, Counts, NoSafer
<1>2. EvictableRisk(v) = (85 * (b - a)) \div b /\ EvictableRisk(w) = (85 * (d - c)) \div d
  BY DEF EvictableRisk
<1>3. \A pct \in {25, 50} : AtLeast(a, b, pct) => AtLeast(c, d, pct)
  <2>. HIDE DEF a, b, c, d
  <2>. QED  BY <1>1, LargerFractionReaches
<1>4. EvictableCap(v) <= EvictableCap(w)
  BY <1>3 DEF EvictableCap
<1>. HIDE DEF a, b, c, d
<1>5. (85 * (b - a)) * d >= (85 * (d - c)) * b
  <2>1. (85 * (b - a)) * d = 85 * (b * d) - 85 * (a * d)
    BY <1>1
  <2>2. (85 * (d - c)) * b = 85 * (b * d) - 85 * (c * b)
    BY <1>1
  <2>. QED  BY <1>1, <2>1, <2>2
<1>6. 85 * (b - a) \in Nat /\ 85 * (d - c) \in Nat
  BY <1>1
<1>7. (85 * (b - a)) \div b >= (85 * (d - c)) \div d
  BY <1>1, <1>5, <1>6, DivMonotone
<1>. QED  BY <1>2, <1>4, <1>7

(* The whole roll-up as a function of the signals: a pool that is safer in *)
(* no respect has at least the risk and at most the cap of the other, for  *)
(* every number of pods, nodes and zones.                                  *)
THEOREM CapMonotone ==
    ASSUME NEW v, NEW w, Consistent(v), Consistent(w), NoSafer(v, w)
    PROVE  Risk(v) >= Risk(w) /\ SafeMax(v) <= SafeMax(w)
<1>1. /\ v.slackOne \in Int /\ v.slackTwo \in Int /\ v.restart \in Nat
      /\ v.headroom \in Nat /\ v.zones \in Nat
      /\ w.slackOne \in Int /\ w.slackTwo \in Int /\ w.restart \in Nat
      /\ w.headroom \in Nat /\ w.zones \in Nat
  BY DEF Consistent, Counts
<1>2. /\ v.slackOne <= w.slackOne /\ v.slackTwo <= w.slackTwo /\ v.restart >= w.restart
      /\ v.headroom <= w.headroom /\ v.zones <= w.zones
  BY DEF NoSafer
<1>3. /\ OneNodeRisk(v) >= OneNodeRisk(w) /\ TwoNodesRisk(v) >= TwoNodesRisk(w)
      /\ RestartRisk(v) >= RestartRisk(w) /\ HeadroomRisk(v) >= HeadroomRisk(w)
  BY <1>1, <1>2 DEF OneNodeRisk, TwoNodesRisk, RestartRisk, HeadroomRisk
<1>4. ZoneScore(v.zones) <= ZoneScore(w.zones)
  BY <1>1, <1>2 DEF ZoneScore
<1>5. ZoneRisk(v) >= ZoneRisk(w)
  BY <1>1, <1>4 DEF ZoneRisk, ZoneScore
<1>6. /\ OneNodeCap(v) <= OneNodeCap(w) /\ TwoNodesCap(v) <= TwoNodesCap(w)
      /\ RestartCap(v) <= RestartCap(w) /\ HeadroomCap(v) <= HeadroomCap(w)
  BY <1>1, <1>2 DEF OneNodeCap, TwoNodesCap, RestartCap, HeadroomCap
<1>7. ZoneCap(v) <= ZoneCap(w)
  BY <1>1, <1>4 DEF ZoneCap, ZoneScore
<1>8. \A x \in {v, w} :
         /\ OneNodeRisk(x) \in Int /\ TwoNodesRisk(x) \in Int /\ RestartRisk(x) \in Int
         /\ HeadroomRisk(x) \in Int /\ ZoneRisk(x) \in Int
  BY <1>1 DEF OneNodeRisk, TwoNodesRisk, RestartRisk, HeadroomRisk, ZoneRisk, ZoneScore
<1>9. \A x \in {v, w} : ConcentrationRisk(x) \in Int /\ StatefulRisk(x) \in Int
                        /\ EvictableRisk(x) \in Int
  BY DEF Consistent, Counts, ConcentrationRisk, StatefulRisk, EvictableRisk
<1>10. /\ ConcentrationRisk(v) >= ConcentrationRisk(w) /\ StatefulRisk(v) >= StatefulRisk(w)
       /\ EvictableRisk(v) >= EvictableRisk(w)
       /\ ConcentrationCap(v) <= ConcentrationCap(w) /\ StatefulCap(v) <= StatefulCap(w)
       /\ EvictableCap(v) <= EvictableCap(w)
  BY SharesMonotone, EvictableMonotone
<1>11. RiskOfPods(v) >= RiskOfPods(w) /\ RiskOfPods(v) \in Int /\ RiskOfPods(w) \in Int
  BY <1>3, <1>8, <1>9, <1>10 DEF RiskOfPods, Larger
<1>12. /\ RiskWithoutSlack(v) >= RiskWithoutSlack(w)
       /\ RiskWithoutSlack(v) \in Int /\ RiskWithoutSlack(w) \in Int
  BY <1>3, <1>5, <1>8, <1>11 DEF RiskWithoutSlack, Larger
<1>13. Risk(v) >= Risk(w) /\ Risk(v) \in Int /\ Risk(w) \in Int
  BY <1>3, <1>8, <1>12 DEF Risk, Larger
<1>14. RiskCap(Risk(v)) <= RiskCap(Risk(w))
  BY <1>13 DEF RiskCap
<1>15. \A x \in {v, w} :
         /\ ConcentrationCap(x) \in Int /\ StatefulCap(x) \in Int /\ RestartCap(x) \in Int
         /\ EvictableCap(x) \in Int /\ OneNodeCap(x) \in Int /\ TwoNodesCap(x) \in Int
         /\ HeadroomCap(x) \in Int /\ ZoneCap(x) \in Int /\ RiskCap(Risk(x)) \in Int
  BY DEF ConcentrationCap, StatefulCap, RestartCap, EvictableCap, OneNodeCap, TwoNodesCap,
         HeadroomCap, ZoneCap, RiskCap
<1>16. CapOfPods(v) <= CapOfPods(w) /\ CapOfPods(v) \in Int /\ CapOfPods(w) \in Int
  BY <1>6, <1>10, <1>15 DEF CapOfPods, Smaller
<1>17. CapOfPool(v) <= CapOfPool(w) /\ CapOfPool(v) \in Int /\ CapOfPool(w) \in Int
  BY <1>6, <1>7, <1>15 DEF CapOfPool, Smaller
<1>18. SafeMax(v) <= SafeMax(w)
  BY <1>14, <1>15, <1>16, <1>17 DEF SafeMax, Smaller
<1>. QED  BY <1>13, <1>18
-----------------------------------------------------------------------------
(* What is published between two collections: counts that fit together,    *)
(* and the vector that was made from them.                                 *)
SurfaceInv ==
    /\ pc \in {"idle", "pods", "pdbs", "scan", "decide"}
    /\ counts \in Counts /\ (counts.workload > 0 => Consistent(counts))
    /\ vector = VectorOf(counts) /\ act \in Action
    /\ cycle \in 0..MaxCycles /\ churn \in 0..MaxChurn

(* The startup time calculateWeightedPercentile returns is one that was    *)
(* measured, the least one below which 95% of the weight lies.             *)
LEMMA StartupP95Chosen ==
    ASSUME Timed # {}
    PROVE  /\ \E p \in Timed : StartupP95 = StartupTime(p)
           /\ Reaches(StartupP95)
           /\ \A p \in Timed : Reaches(StartupTime(p)) => StartupP95 <= StartupTime(p)
<1>. DEFINE times == {StartupTime(p) : p \in Timed}
            w == [p \in Pod |-> Larger(Facts[p].cpu, 1)]
            f == [p \in Timed |-> StartupTime(p)]
<1>1. Timed \in SUBSET Pod /\ IsFiniteSet(Timed)
  <2>1. Timed \in SUBSET Pod
    BY DEF Timed, Listed
  <2>. QED  BY <2>1, PodsFinite
<1>2. \A p \in Timed : StartupTime(p) \in Nat
  <2>. TAKE p \in Timed
  <2>1. StartupTime(p) > 0 /\ p \in Pod
    BY <1>1 DEF Timed
  <2>2. Facts[p].override \in Int /\ Facts[p].observed \in Int
    BY <2>1, CollectorAssumption
  <2>. QED  BY <2>1, <2>2 DEF StartupTime
<1>3. PICK m \in Timed : \A p \in Timed : f[p] <= f[m]
  <2>1. \A p \in Timed : f[p] \in Nat
    BY <1>2
  <2>. HIDE DEF f
  <2>. QED  BY <1>1, <2>1, GreatestMeasure
<1>4. \A p \in Timed : StartupTime(p) <= StartupTime(m)
  BY <1>3
<1>5. {p \in Timed : StartupTime(p) <= StartupTime(m)} = Timed
  BY <1>4
<1>6. Weight(Timed) \in Nat
  <2>1. \A p \in Timed : w[p] \in Nat
    <3>. TAKE p \in Timed
    <3>1. p \in Pod /\ Facts[p].cpu \in Nat
      BY <1>1, CollectorAssumption
    <3>. QED  BY <3>1 DEF Larger
  <2>2. SumFunctionOnSet(w, Timed) \in Nat
    <3>. HIDE DEF w
    <3>. QED  BY <1>1, <2>1, SumType
  <2>. QED  BY <2>2 DEF Weight
<1>7. Reaches(StartupTime(m))
  <2>. DEFINE x == Weight(Timed)
  <2>1. x \in Nat /\ Weight({p \in Timed : StartupTime(p) <= StartupTime(m)}) = x
    BY <1>5, <1>6
  <2>2. 100 * x >= 95 * x
    <3>. HIDE DEF x
    <3>. QED  BY <2>1
  <2>. HIDE DEF x
  <2>. QED  BY <2>1, <2>2 DEF Reaches, x
<1>. DEFINE C == {t \in times : Reaches(t)}
<1>8. PICK t \in C : \A u \in C : t <= u
  <2>1. C \in SUBSET Nat
    BY <1>2
  <2>2. StartupTime(m) \in C
    BY <1>7
  <2>. HIDE DEF C
  <2>. QED  BY <2>1, <2>2, LeastNatural
<1>9. \E u \in times : Reaches(u) /\ \A v \in times : Reaches(v) => u <= v
  BY <1>8
<1>10. StartupP95 = CHOOSE u \in times : Reaches(u) /\ \A v \in times : Reaches(v) => u <= v
  BY DEF StartupP95
<1>11. /\ StartupP95 \in times /\ Reaches(StartupP95)
       /\ \A v \in times : Reaches(v) => StartupP95 <= v
  <2>. HIDE DEF times
  <2>. QED  BY <1>9, <1>10
<1>. QED  BY <1>11

LEMMA StartupP95Type == StartupP95 \in Nat
<1>1. CASE Timed = {}
  BY <1>1 DEF StartupP95
<1>2. CASE Timed # {}
  <2>1. PICK p \in Timed : StartupP95 = StartupTime(p)
    BY <1>2, StartupP95Chosen
  <2>2. p \in Pod /\ StartupTime(p) > 0
    BY DEF Timed, Listed
  <2>3. Facts[p].override \in Int /\ Facts[p].observed \in Int
    BY <2>2, CollectorAssumption
  <2>. QED  BY <2>1, <2>2, <2>3 DEF StartupTime
<1>. QED  BY <1>1, <1>2

(* The nodes of the pool and its zones are counted. *)
LEMMA NodesCounted ==
    ASSUME Typed
    PROVE  /\ Cardinality(OnDemand) \in Nat
           /\ Cardinality({ZoneOf(n) : n \in nodesSeen \cap Group}) \in Nat
<1>1. IsFiniteSet(OnDemand) /\ IsFiniteSet(nodesSeen \cap Group)
  <2>1. OnDemand \in SUBSET Node /\ nodesSeen \cap Group \in SUBSET Node
    BY DEF OnDemand, Typed
  <2>. QED  BY <2>1, CollectorAssumption, FS_Subset
<1>2. IsFiniteSet({ZoneOf(n) : n \in nodesSeen \cap Group})
  <2>. DEFINE S == nodesSeen \cap Group
              T == {ZoneOf(n) : n \in S}
              f == [n \in S |-> ZoneOf(n)]
  <2>1. f \in Surjection(S, T)
    BY DEF Surjection
  <2>. HIDE DEF f, T
  <2>2. IsFiniteSet(T)
    BY <1>1, <2>1, FS_Surjection
  <2>. QED  BY <2>2 DEF T
<1>. QED  BY <1>1, <1>2, FS_CardinalityType

LEMMA HeadroomType ==
    ASSUME Typed, NEW util \in Utils
    PROVE  Headroom(util) \in Nat
<1>. DEFINE k == 100 - Clamp01(util)
            c == Cardinality(OnDemand)
<1>1. util \in Int
  BY CollectorAssumption
<1>2. k \in Nat
  BY <1>1 DEF Clamp01, ClampTo
<1>3. c \in Nat
  BY NodesCounted
<1>4. c * k \in Nat
  <2>. HIDE DEF c, k
  <2>. QED  BY <1>2, <1>3
<1>. QED  BY <1>4 DEF Headroom

(* What Finalize publishes are counts that fit together. *)
LEMMA CountsFit ==
    ASSUME Typed, NEW util \in Utils
    PROVE  /\ CountsWith(util) \in Counts
           /\ CountsWith(util).workload > 0 => Consistent(CountsWith(util))
<1>. DEFINE spot == {p \in Critical : podsSeen[p] \in Spot}
<1>1. /\ Workload \in SUBSET Pod /\ Critical \in SUBSET Pod
      /\ Stateful \in SUBSET Workload /\ Evictable \in SUBSET Workload
      /\ spot \in SUBSET Critical
  BY DEF Workload, Stateful, Evictable, Critical, Listed
<1>2. IsFiniteSet(Workload) /\ IsFiniteSet(Critical)
  BY <1>1, PodsFinite
<1>3. /\ Cardinality(Workload) \in Nat /\ Cardinality(Critical) \in Nat
      /\ Cardinality(Stateful) \in Nat /\ Cardinality(Evictable) \in Nat
      /\ Cardinality(spot) \in Nat
  BY <1>1, PodsFinite
<1>4. /\ Cardinality(Stateful) <= Cardinality(Workload)
      /\ Cardinality(Evictable) <= Cardinality(Workload)
      /\ Cardinality(spot) <= Cardinality(Critical)
  <2>. HIDE DEF spot
  <2>. QED  BY <1>1, <1>2, FS_Subset
<1>5. /\ minOne \in Int /\ minTwo \in Int /\ StartupP95 \in Nat /\ Headroom(util) \in Nat
      /\ Cardinality({ZoneOf(n) : n \in nodesSeen \cap Group}) \in Nat
  BY StartupP95Type, HeadroomType, NodesCounted DEF Typed
<1>6. CountsWith(util) \in Counts
  BY <1>3, <1>5 DEF CountsWith, Counts
<1>7. /\ CountsWith(util).workload = Cardinality(Workload)
      /\ CountsWith(util).stateful = Cardinality(Stateful)
      /\ CountsWith(util).evictable = Cardinality(Evictable)
      /\ CountsWith(util).critical = Cardinality(Critical)
      /\ CountsWith(util).onSpot = Cardinality(spot)
  BY DEF CountsWith
<1>. QED  BY <1>4, <1>6, <1>7 DEF Consistent

(* Whatever it is given, the policy returns one of its actions. *)
LEMMA EvaluateType ==
    ASSUME NEW c, NEW s, NEW n, NEW t
    PROVE  Evaluate(c, s, n, t).action \in Action
BY DEF Evaluate, Reduce, Decision, FreezeSpot, Action, Increase, Decrease

LEMMA SurfaceStep == Inv /\ SurfaceInv /\ [Next]_vars => SurfaceInv'
<1>. SUFFICES ASSUME Inv, SurfaceInv, [Next]_vars PROVE SurfaceInv'
  OBVIOUS
<1>. DEFINE Surface == /\ counts \in Counts /\ (counts.workload > 0 => Consistent(counts))
                       /\ vector = VectorOf(counts)
            Counters == cycle' \in 0..MaxCycles /\ churn' \in 0..MaxChurn
<1>t. Typed /\ MaxCycles \in Nat /\ MaxChurn \in Nat
  BY CollectorAssumption DEF Inv
<1>keep. ASSUME UNCHANGED <<counts, vector>> PROVE Surface'
  BY <1>keep DEF SurfaceInv, Consistent, VectorOf
<1>idle. UNCHANGED <<cycle, churn>> => Counters
  BY DEF SurfaceInv
<1>1. CASE ListNodes
  <2>1. Surface'
    BY <1>1, <1>keep DEF ListNodes
  <2>2. /\ pc' \in {"idle", "pods"} /\ act' = "hold"
        /\ cycle < MaxCycles /\ cycle' = cycle + 1 /\ churn' = churn
    BY <1>1 DEF ListNodes
  <2>3. Counters
    BY <1>t, <2>2 DEF SurfaceInv
  <2>. QED  BY <2>1, <2>2, <2>3 DEF SurfaceInv, Action
<1>2. CASE ListPods
  BY <1>2, <1>keep, <1>idle DEF ListPods, SurfaceInv
<1>3. CASE ListPDBs
  BY <1>3, <1>keep, <1>idle DEF ListPDBs, SurfaceInv
<1>4. ASSUME NEW b \in PDB, Fold(b) PROVE SurfaceInv'
  BY <1>4, <1>keep, <1>idle DEF Fold, SurfaceInv
<1>5. ASSUME NEW b \in PDB, NEW n \in Node, Scan(b, n) PROVE SurfaceInv'
  BY <1>5, <1>keep, <1>idle DEF Scan, SurfaceInv
<1>6. CASE Finalize
  <2>1. pc' = "decide" /\ act' = act /\ UNCHANGED <<cycle, churn>>
    BY <1>6 DEF Finalize
  <2>2. CASE nodesSeen \cap Member = {}
    <3>1. counts' = NoCounts /\ vector' = DefaultVector
      BY <1>6, <2>2 DEF Finalize
    <3>2. NoCounts \in Counts /\ NoCounts.workload = 0
      BY DEF NoCounts, Counts
    <3>3. vector' = VectorOf(counts')
      BY <3>1, <3>2 DEF VectorOf
    <3>. QED  BY <2>1, <3>1, <3>2, <3>3, <1>idle DEF SurfaceInv
  <2>3. CASE nodesSeen \cap Member # {}
    <3>1. PICK util \in Utils : counts' = CountsWith(util) /\ vector' = VectorOf(counts')
      BY <1>6, <2>3 DEF Finalize
    <3>2. /\ CountsWith(util) \in Counts
          /\ CountsWith(util).workload > 0 => Consistent(CountsWith(util))
      BY <1>t, CountsFit
    <3>3. /\ counts' \in Counts /\ vector' = VectorOf(counts')
          /\ counts'.workload > 0 => Consistent(counts')
      BY <3>1, <3>2, Zenon
    <3>. QED  BY <2>1, <3>3, <1>idle DEF SurfaceInv
  <2>. QED  BY <2>2, <2>3
<1>7. CASE Decide
  <2>1. Surface' /\ pc' = "idle" /\ UNCHANGED <<cycle, churn>>
    BY <1>7, <1>keep DEF Decide
  <2>2. act' \in Action
    BY <1>7, EvaluateType DEF Decide
  <2>. QED  BY <2>1, <2>2, <1>idle DEF SurfaceInv
<1>8. CASE Others
  <2>1. Surface' /\ pc' = pc /\ act' = act /\ cycle' = cycle /\ Disturb
    BY <1>8, <1>keep DEF Others, MovePod, ChangeAllowed, ChangeNode
  <2>2. Counters
    BY <1>t, <2>1 DEF SurfaceInv, Disturb
  <2>. QED  BY <2>1, <2>2 DEF SurfaceInv
<1>9. CASE UNCHANGED vars
  BY <1>9, <1>keep, <1>idle DEF vars, SurfaceInv
<1>. QED
  BY <1>1, <1>2, <1>3, <1>4, <1>5, <1>6, <1>7, <1>8, <1>9 DEF Next, Collect

(* SurfaceInv holds in every reachable state. *)
THEOREM SurfaceInvariance == Spec => []SurfaceInv
<1>1. Init => SurfaceInv
  <2>. SUFFICES ASSUME Init PROVE SurfaceInv
    OBVIOUS
  <2>1. counts = NoCounts /\ vector = DefaultVector /\ act = "hold" /\ pc = "idle"
    BY DEF Init
  <2>2. NoCounts \in Counts /\ NoCounts.workload = 0
    BY DEF NoCounts, Counts
  <2>3. vector = VectorOf(counts)
    BY <2>1, <2>2 DEF VectorOf
  <2>4. cycle \in 0..MaxCycles /\ churn \in 0..MaxChurn
    BY CollectorAssumption DEF Init
  <2>. QED  BY <2>1, <2>2, <2>3, <2>4 DEF SurfaceInv, Action
<1>. QED  BY <1>1, SurfaceStep, CollectorInvariance, PTL DEF Spec

(* The vector of counts that fit together has its type. *)
LEMMA VectorTyped == SurfaceInv => vector \in Vector
<1>. SUFFICES ASSUME SurfaceInv PROVE vector \in Vector
  OBVIOUS
<1>1. CASE counts.workload = 0
  BY <1>1 DEF SurfaceInv, VectorOf, DefaultVector, Vector
<1>2. CASE counts.workload # 0
  <2>1. counts \in Counts /\ counts.workload \in Nat
    BY DEF SurfaceInv, Counts
  <2>2. Consistent(counts)
    BY <1>2, <2>1 DEF SurfaceInv
  <2>3. Risk(counts) \in Int
    BY <1>2, <2>1, <2>2, RiskBounds DEF Consistent, Counts
  <2>4. SafeMax(counts) \in Int /\ counts.slackOne \in Int
    BY <2>1, SafeMaxType DEF Counts
  <2>. QED  BY <1>2, <2>3, <2>4 DEF SurfaceInv, VectorOf, Vector
<1>. QED  BY <1>1, <1>2

(* Every variable keeps its type: no collection publishes a negative       *)
(* headroom, a startup percentile that is not a measured time or a signal  *)
(* the policy cannot read, whatever the lists and the providers answer.    *)
THEOREM CollectorTypes == Spec => []TypeOK
<1>1. Inv /\ SurfaceInv => TypeOK
  <2>. SUFFICES ASSUME Inv, SurfaceInv PROVE TypeOK
    OBVIOUS
  <2>1. vector \in Vector
    BY VectorTyped
  <2>2. Typed /\ SurfaceInv
    BY DEF Inv
  <2>. QED  BY <2>1, <2>2 DEF TypeOK, Typed, SurfaceInv
<1>. QED  BY CollectorInvariance, SurfaceInvariance, <1>1, PTL

(* From one publication to the next, a pool that became safer in no        *)
(* respect gets no larger cap.                                             *)
THEOREM CapNeverLoosens == Spec => CapFollowsSafety
<1>1. ASSUME SurfaceInv, SurfaceInv', counts.workload > 0, counts'.workload > 0,
             NoSafer(counts', counts)
      PROVE  vector'.safeMax <= vector.safeMax
  <2>1. Consistent(counts) /\ vector = VectorOf(counts)
    BY <1>1 DEF SurfaceInv
  <2>2. Consistent(counts') /\ vector' = VectorOf(counts')
    BY <1>1 DEF SurfaceInv
  <2>3. PICK v, w : v = counts' /\ w = counts
    OBVIOUS
  <2>4. SafeMax(v) <= SafeMax(w)
    <3>1. Consistent(v) /\ Consistent(w) /\ NoSafer(v, w)
      BY <1>1, <2>1, <2>2, <2>3, Zenon
    <3>. QED  BY <3>1, CapMonotone
  <2>5. v.workload # 0 /\ w.workload # 0
    BY <2>3, <1>1
  <2>6. vector'.safeMax = SafeMax(v) /\ vector.safeMax = SafeMax(w)
    <3>1. vector' = VectorOf(v) /\ vector = VectorOf(w)
      BY <2>1, <2>2, <2>3, Zenon
    <3>. QED  BY <2>5, <3>1 DEF VectorOf
  <2>. QED  BY <2>4, <2>6
<1>2. SurfaceInv /\ SurfaceInv' /\ [Next]_vars =>
        [counts.workload > 0 /\ counts'.workload > 0 /\ NoSafer(counts', counts)
            => vector'.safeMax <= vector.safeMax]_vars
  BY <1>1
<1>. QED  BY SurfaceInvariance, <1>2, PTL DEF Spec, CapFollowsSafety
=============================================================================
