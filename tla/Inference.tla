------------------------------ MODULE Inference ------------------------------
(***************************************************************************)
(* How a cycle puts together what its decisions rest on (runInference and  *)
(* runPoolLevelInference of internal/controller/controller.go): it finds   *)
(* the nodes behind the ids Prometheus reports, groups them, looks prices  *)
(* up through the price client's caches (internal/cloudapi/aws/aws.go),    *)
(* and reads the target ratios and migration times that executeAction      *)
(* wrote in earlier cycles.  What is decided then (Policy, PoolRatio) and  *)
(* which nodes are drained (Reconcile) is any outcome here.                *)
(*                                                                         *)
(* A decision is about a group: a node alone, or all nodes of a workload   *)
(* pool in a zone.                                                         *)
(***************************************************************************)
EXTENDS NodeLabels, PriceHistory, FiniteSets

CONSTANTS
    Node,
    Labels,            \* Node -> labels: pool, type, zone, capacity, ...
    NoPool,            \* the node is in no workload pool
    Reports,           \* what Prometheus reports: nodes -> the form of their id
    Scenarios,         \* settings of the agent, with bounds on reports, time and actions
    CacheTTL,          \* how long the price client keeps a spot price
    MaxLatency,        \* bound: time one price API call takes
    MaxResults,        \* bound: prices one call returns
    Ratios             \* bound: target ratios an action may set

NoRatio == -1          \* the pool has no target yet
Never   == 0           \* no time at all
IdForm  == {"name", "exporter", "other"}   \* name, address:9100, address:another port

(* Besides the bounds: how decisions are taken, what pool ids look like,   *)
(* whether prices are scripted, and the families of the model contract.    *)
Scenario == [poolLevel : BOOLEAN, extended : BOOLEAN, scripted : BOOLEAN,
             families : SUBSET {Labels[n].type : n \in Node},
             reports : SUBSET Reports, time : Nat, moves : Nat]

ASSUME InferenceAssumption ==
    /\ IsFiniteSet(Node)
    /\ Reports \subseteq UNION {[S -> IdForm] : S \in (SUBSET Node) \ {{}}}
    /\ Scenarios \subseteq Scenario
    /\ CacheTTL \in Nat \ {0} /\ MaxLatency \in Nat /\ MaxResults \in Nat \ {0}
    /\ Ratios \subseteq 0..100

VARIABLES
    setting,           \* the settings the agent runs with
    clock,
    moves,             \* actions executed
    target,            \* targetSpotRatio
    lastMigration,
    priceHistory,      \* the controller's own price series
    cache,             \* the price client's spot prices
    onDemand,          \* instance types it has an on-demand price of
    pc,                \* where the cycle is
    begun,             \* when it began
    report,            \* the ids in its metrics
    listed,            \* it could list the nodes
    todo,              \* groups that are not looked at yet
    cur,               \* the group it looks at
    prices,            \* the cycle's own cache of prices
    quote,             \* what the lookup for cur gave
    verdict,           \* actions decided for the groups
    assessed,          \* actions handed back for the nodes
    done,              \* nodes whose action was executed
    state,             \* what the last decision rested on
    driven,            \* history: the last target an action set for a node's pool
    drained            \* history: the last drain recorded for a node's pool

marketVars == <<clock, cache, onDemand>>
memoryVars == <<setting, moves, target, lastMigration, priceHistory, driven, drained>>
tickVars   == <<begun, report, listed>>
vars == <<marketVars, memoryVars, tickVars, pc, todo, cur, prices, quote, verdict,
          assessed, done, state>>

-----------------------------------------------------------------------------
(* nodeInfoMap and the lookups in it: metrics carry neither type nor zone, *)
(* so a cycle that could not list the nodes knows nothing of them.         *)
Info(n, ok) ==
    IF ok THEN [type |-> OrUnknown(Labels[n].type), zone |-> OrUnknown(Labels[n].zone),
                pool |-> Labels[n].pool]
    ELSE [type |-> "", zone |-> "", pool |-> NoPool]

(* A contract that names no family supports every type, one that does      *)
(* supports none that is not known.                                        *)
SupportsInstanceType(t) ==
    setting.families = {} \/ (t \notin {"", "unknown"} /\ t \in setting.families)

Unknown(i) == i.type = "" \/ i.zone = ""
Id(i) == ControllerPoolID(i, NoPool, setting.extended)

(* The key of a node's counts, ratio and target: its pool id, or the pool  *)
(* and zone it is grouped by.                                              *)
GroupKey(i) ==
    IF i.zone = "" THEN <<"unknown">>
    ELSE IF i.pool # NoPool THEN <<i.pool, i.zone>> ELSE <<i.zone>>

RatioKey(i) ==
    IF setting.poolLevel THEN GroupKey(i)
    ELSE IF Unknown(i) THEN <<"unknown", "unknown">> ELSE Id(i)

With(k, r, ok) == {n \in DOMAIN r : RatioKey(Info(n, ok)) = k}
CurrentRatioOfSamples(k, r, ok) ==     \* a sample of each of the two metrics
    (200 * Cardinality({n \in With(k, r, ok) : ok /\ IsSpot(Labels[n])}))
        \div Cardinality(With(k, r, ok))
CurrentRatio(k, r, ok) ==
    (100 * Cardinality({n \in With(k, r, ok) : ok /\ IsSpot(Labels[n])}))
        \div Cardinality(With(k, r, ok))

Groups(r, ok) ==
    IF setting.poolLevel THEN {With(RatioKey(Info(n, ok)), r, ok) : n \in DOMAIN r}
    ELSE {{n} : n \in DOMAIN r}

(* The nodes of a group's most frequent type; of several such types, the   *)
(* map's order happens to give one first.                                  *)
Dominant(g) ==
    LET Alike(n) == {m \in g : Info(m, listed).type = Info(n, listed).type}
    IN  {n \in g : \A m \in g : Cardinality(Alike(m)) <= Cardinality(Alike(n))}

(* executeAction reads the labels as they are. *)
Raw(v) == IF v = Absent THEN "" ELSE v
RawInfo(n) == [type |-> Raw(Labels[n].type), zone |-> Raw(Labels[n].zone),
               pool |-> Labels[n].pool]
ActionKeyOfGroup(n) == GroupKey(Info(n, TRUE))
ActionKey(n) == Id(RawInfo(n))
MigrationKey(n) == PoolID(Labels[n])

Market == {PoolID(Labels[n]) : n \in Node}     \* type and zone
Key == {<<"unknown">>, <<"unknown", "unknown">>} \cup Market
       \cup {GroupKey(Info(n, TRUE)) : n \in Node}
       \cup {ControllerPoolID(Info(n, TRUE), NoPool, TRUE) : n \in Node}
       \cup {ControllerPoolID(RawInfo(n), NoPool, FALSE) : n \in Node}
       \cup {ControllerPoolID(RawInfo(n), NoPool, TRUE) : n \in Node}

NoQuote == [spot |-> 0, history |-> <<>>]
NoEntry == [spot |-> 0, history |-> <<>>, updated |-> Never]
NoGroup == [who |-> {}, type |-> "", zone |-> "", id |-> <<"unknown">>, key |-> <<"unknown">>]
NoState == [who |-> {}, at |-> Never, spot |-> 0, history |-> <<>>, target |-> NoRatio,
            since |-> Never]
Nobody  == [n \in Node |-> "none"]

Init ==
    /\ setting \in Scenarios /\ clock = MaxResults /\ moves = 0
    /\ target = [k \in Key |-> NoRatio] /\ lastMigration = [k \in Key |-> Never]
    /\ priceHistory = [k \in Key |-> <<>>]
    /\ cache = [m \in Market |-> NoEntry] /\ onDemand = {}
    /\ pc = "idle" /\ begun = Never /\ report = <<>> /\ listed = FALSE
    /\ todo = {} /\ cur = NoGroup /\ prices = [k \in Key |-> NoQuote] /\ quote = NoQuote
    /\ verdict = Nobody /\ assessed = Nobody /\ done = {} /\ state = NoState
    /\ driven = [n \in Node |-> NoRatio] /\ drained = [n \in Node |-> Never]

-----------------------------------------------------------------------------
(* The metrics arrive and the nodes are listed, or that fails; pools seen  *)
(* for the first time take their ratio as their target.                    *)
BeginTick(r, ok) ==
    /\ pc = "idle" /\ pc' = "groups"
    /\ begun' = clock /\ report' = r /\ listed' = ok
    /\ target' = [k \in Key |->
                    IF target[k] = NoRatio /\ With(k, r, ok) # {} THEN CurrentRatio(k, r, ok)
                    ELSE target[k]]
    /\ todo' = Groups(r, ok)
    /\ UNCHANGED <<marketVars, setting, moves, lastMigration, priceHistory, driven, drained,
                   cur, prices, quote, verdict, assessed, done, state>>

(* The next group; a node of its dominant type stands for it. *)
About(g, n) ==
    LET i == Info(n, listed)
    IN  [who |-> g, type |-> i.type, zone |-> i.zone,
         id |-> IF Unknown(i) THEN <<"unknown", "unknown">> ELSE Id(i), key |-> RatioKey(i)]

Take(g, n) ==
    /\ pc = "groups" /\ g \in todo /\ n \in Dominant(g)
    /\ todo' = todo \ {g} /\ cur' = About(g, n) /\ state' = NoState
    /\ pc' = "scope"
    /\ UNCHANGED <<marketVars, memoryVars, tickVars, prices, quote, verdict, assessed, done>>

Unidentified == cur.type = "" \/ cur.zone = ""

Drop ==
    /\ pc' = "groups" /\ cur' = NoGroup /\ quote' = NoQuote
    /\ UNCHANGED <<marketVars, tickVars, todo, prices, assessed, done>>

(* A group of nodes nothing is known of is passed over, ... *)
PassOver ==
    /\ pc = "scope" /\ setting.poolLevel /\ Unidentified
    /\ Drop /\ UNCHANGED <<memoryVars, verdict, state>>

(* ... one whose type is out of scope has to leave spot, ... *)
Decided(a) == [n \in Node |-> IF n \in cur.who THEN a ELSE verdict[n]]

ForceExit ==
    /\ pc = "scope" /\ ~(setting.poolLevel /\ Unidentified) /\ ~SupportsInstanceType(cur.type)
    /\ verdict' = Decided("exit")
    /\ Drop /\ UNCHANGED <<memoryVars, state>>

(* ... and the others need prices: from this cycle, ... *)
Lookup == pc = "scope" /\ ~Unidentified /\ SupportsInstanceType(cur.type)
At == <<cur.type, cur.zone>>
PriceKey == IF setting.poolLevel THEN At ELSE cur.id

Answer(q) ==
    /\ quote' = q
    /\ prices' = IF q = NoQuote THEN prices ELSE [prices EXCEPT ![PriceKey] = q]
    /\ pc' = "decide"
    /\ UNCHANGED <<memoryVars, tickVars, todo, cur, verdict, assessed, done, state>>

CycleHit == Lookup /\ prices[PriceKey] # NoQuote
            /\ Answer(prices[PriceKey]) /\ UNCHANGED marketVars

(* ... from the price client's cache (a scripted provider has none and     *)
(* gives no history), ...                                                  *)
FreshForEver(e) == e.updated # Never
Fresh(e) == e.updated # Never /\ clock - e.updated < CacheTTL

ClientHit == Lookup /\ prices[PriceKey] = NoQuote /\ ~setting.scripted /\ Fresh(cache[At])
             /\ Answer([spot |-> cache[At].spot, history |-> cache[At].history])
             /\ UNCHANGED marketVars

Scripted == Lookup /\ prices[PriceKey] = NoQuote /\ setting.scripted
            /\ \E q \in {NoQuote, [spot |-> clock, history |-> <<>>]} : Answer(q)
            /\ UNCHANGED marketVars

(* ... or from the cloud.  A call takes some time and may fail. *)
Passes(d) == clock + d <= setting.time /\ clock' = clock + d
Listing(k) == [i \in 1..k |-> clock - i + 1]
Fail == Answer(NoQuote) /\ UNCHANGED <<cache, onDemand>>

DescribeSpotPriceHistory ==
    /\ Lookup /\ prices[PriceKey] = NoQuote /\ ~setting.scripted /\ ~Fresh(cache[At])
    /\ \E d \in 0..MaxLatency : Passes(d)
    /\ \/ Fail
       \/ /\ cur.type # "unknown"
          /\ \E k \in 1..MaxResults :
                LET h == BuildPriceHistory(Listing(k))
                IN  quote' = [spot |-> h[Len(h)], history |-> h]
          /\ pc' = "ondemand"
          /\ UNCHANGED <<memoryVars, tickVars, cache, onDemand, todo, cur, prices, verdict,
                         assessed, done, state>>

(* The on-demand price completes the answer; once known it is kept. *)
Store ==
    /\ cache' = [cache EXCEPT ![At] = [spot |-> quote.spot, history |-> quote.history,
                                       updated |-> clock']]
    /\ onDemand' = onDemand \cup {cur.type}
    /\ Answer(quote)

GetOnDemandPrice ==
    /\ pc = "ondemand"
    /\ \/ cur.type \in onDemand /\ Passes(0) /\ Store
       \/ /\ cur.type \notin onDemand
          /\ \E d \in 0..MaxLatency : Passes(d)
          /\ Store \/ Fail

-----------------------------------------------------------------------------
(* The features of the decision.  Without a provider's series the          *)
(* controller's own is used, to which the price is added.                  *)
Series ==
    IF quote.history # <<>> THEN quote.history ELSE Remember(priceHistory[cur.id], quote.spot)

Features ==
    [who |-> cur.who, at |-> clock, spot |-> quote.spot,
     history |-> BuildTFTInput(NormalizePriceHistory(Series, quote.spot), quote.spot),
     target |-> target[cur.key], since |-> lastMigration[cur.id]]

(* Without a price nothing is decided, as in node mode for a node nothing  *)
(* is known of.                                                            *)
NoPrice ==
    /\ \/ pc = "decide" /\ quote.spot = 0
       \/ pc = "scope" /\ ~setting.poolLevel /\ Unidentified /\ SupportsInstanceType(cur.type)
    /\ Drop /\ UNCHANGED <<memoryVars, verdict, state>>

(* The models and the policy decide, or fail. *)
Decide ==
    /\ pc = "decide" /\ quote.spot > 0
    /\ state' = Features
    /\ \E a \in {"none", "hold", "move"} : verdict' = Decided(a)
    /\ priceHistory' = IF quote.history # <<>> THEN priceHistory
                       ELSE [priceHistory EXCEPT ![cur.id] = Series]
    /\ Drop /\ UNCHANGED <<setting, moves, target, lastMigration, driven, drained>>

(* Step 4 of runPoolLevelInference looks the reported id up as it is; a    *)
(* node out of scope leaves spot whatever its pool does.                   *)
Direct(n) == listed /\ report[n] # "other"
HandBackByName(n) ==
    IF ~(listed /\ report[n] = "name") \/ verdict[n] = "none" THEN "none"
    ELSE IF ~SupportsInstanceType(Info(n, listed).type) THEN "exit" ELSE verdict[n]
HandBackReportedType(n) ==
    IF ~Direct(n) \/ verdict[n] = "none" THEN "none"
    ELSE IF ~SupportsInstanceType("") THEN "exit" ELSE verdict[n]
HandBack(n) ==
    IF ~Direct(n) \/ verdict[n] = "none" THEN "none"
    ELSE IF ~SupportsInstanceType(Info(n, listed).type) THEN "exit" ELSE verdict[n]

Assess ==
    /\ pc = "groups" /\ todo = {} /\ pc' = "execute"
    /\ assessed' = [n \in Node |-> IF n \notin DOMAIN report THEN "none"
                                   ELSE IF setting.poolLevel THEN HandBack(n) ELSE verdict[n]]
    /\ state' = NoState
    /\ UNCHANGED <<marketVars, memoryVars, tickVars, todo, cur, prices, quote, verdict, done>>

-----------------------------------------------------------------------------
(* Nodes of one pool, as the pool ids tell pools apart. *)
SamePool(n, m) ==
    /\ Labels[n].type = Labels[m].type /\ Labels[n].zone = Labels[m].zone
    /\ setting.extended => Labels[n].pool = Labels[m].pool

(* executeAction, if the later steps of the cycle let it happen: it finds  *)
(* the node by name, sets its pool's target, and after a drain notes the   *)
(* time, if the node is still there to be read.                            *)
Execute(n, r, noted) ==
    /\ pc = "execute" /\ assessed[n] \in {"move", "exit"} /\ n \notin done
    /\ listed \/ report[n] = "name"
    /\ moves < setting.moves /\ moves' = moves + 1
    /\ done' = done \cup {n}
    /\ target' = [target EXCEPT ![ActionKey(n)] = r]
    /\ driven' = [m \in Node |-> IF SamePool(m, n) THEN r ELSE driven[m]]
    /\ IF noted
       THEN /\ lastMigration' = [lastMigration EXCEPT ![MigrationKey(n)] = clock]
            /\ drained' = [m \in Node |-> IF MigrationKey(m) = MigrationKey(n) THEN clock
                                          ELSE drained[m]]
       ELSE UNCHANGED <<lastMigration, drained>>
    /\ UNCHANGED <<marketVars, setting, priceHistory, tickVars, pc, todo, cur, prices, quote,
                   verdict, assessed, state>>

(* What only the cycle knew is gone. *)
EndTick ==
    /\ pc = "execute" /\ pc' = "idle"
    /\ begun' = Never /\ report' = <<>> /\ listed' = FALSE
    /\ prices' = [k \in Key |-> NoQuote] /\ verdict' = Nobody /\ assessed' = Nobody
    /\ done' = {}
    /\ UNCHANGED <<marketVars, memoryVars, todo, cur, quote, state>>

Elapse ==
    /\ pc = "idle" /\ Passes(1)
    /\ UNCHANGED <<cache, onDemand, memoryVars, tickVars, pc, todo, cur, prices, quote, verdict,
                   assessed, done, state>>

Next ==
    \/ \E r \in setting.reports, ok \in BOOLEAN : BeginTick(r, ok)
    \/ \E g \in todo : \E n \in Dominant(g) : Take(g, n)
    \/ PassOver \/ ForceExit \/ CycleHit \/ ClientHit \/ Scripted
    \/ DescribeSpotPriceHistory \/ GetOnDemandPrice \/ NoPrice \/ Decide \/ Assess
    \/ \E n \in Node, r \in Ratios, noted \in BOOLEAN : Execute(n, r, noted)
    \/ EndTick \/ Elapse

Spec == Init /\ [][Next]_vars

-----------------------------------------------------------------------------
Verdict == {"none", "hold", "move", "exit"}
Time    == Nat
Ratio   == 0..100 \cup {NoRatio}

(* Types; a target is a percentage, a price one that was quoted. *)
TypeOK ==
    /\ setting \in Scenarios /\ clock \in Time /\ moves \in Nat
    /\ target \in [Key -> Ratio] /\ lastMigration \in [Key -> Time]
    /\ priceHistory \in [Key -> Seq(Time)]
    /\ cache \in [Market -> [spot : Time, history : Seq(Time), updated : Time]]
    /\ onDemand \subseteq {m[1] : m \in Market}
    /\ pc \in {"idle", "groups", "scope", "ondemand", "decide", "execute"}
    /\ begun \in Time /\ report \in Reports \cup {<<>>} /\ listed \in BOOLEAN
    /\ todo \subseteq SUBSET DOMAIN report /\ cur.who \subseteq DOMAIN report
    /\ prices \in [Key -> [spot : Time, history : Seq(Time)]]
    /\ quote \in [spot : Time, history : Seq(Time)]
    /\ verdict \in [Node -> Verdict] /\ assessed \in [Node -> Verdict] /\ done \subseteq Node
    /\ state.spot \in Time /\ state.at \in Time
    /\ driven \in [Node -> Ratio] /\ drained \in [Node -> Time]

(* No decision rests on a price quoted more than the cache's lifetime      *)
(* before its cycle began, give or take the two calls a price takes.       *)
PricesFresh ==
    state.spot # 0 =>
        state.at - state.spot < CacheTTL + 2 * MaxLatency + (state.at - begun)

(* The rows the model forecasts from are as many as it takes and end with  *)
(* the price the decision goes by; apart from the padding, which repeats   *)
(* that price, they are in the order of time.                              *)
HistoryCurrent ==
    state.spot # 0 =>
        LET h == state.history
        IN  /\ Len(h) = TFTHistorySteps /\ h[Len(h)] = state.spot
            /\ \A i \in 1..(Len(h) - 1) : h[i] <= h[i + 1] \/ h[i] = state.spot

(* Nodes of one workload pool and zone that are in scope and are reported  *)
(* under a name, or an address with the node exporter's port, leave        *)
(* pool-level inference with the same action, or all without one.          *)
CoherentActions ==
    (pc = "execute" /\ setting.poolLevel) =>
        \A n, m \in DOMAIN report :
            ( /\ Labels[n].pool = Labels[m].pool /\ Labels[n].zone = Labels[m].zone
              /\ SupportsInstanceType(Info(n, TRUE).type)
              /\ SupportsInstanceType(Info(m, TRUE).type)
              /\ report[n] # "other" /\ report[m] # "other" )
            => assessed[n] = assessed[m]

(* A node is forced off spot only if its type is out of the models' scope, *)
(* or is outnumbered in its pool by one that is; but in node mode also     *)
(* whenever the nodes could not be listed.                                 *)
ExitsJustified ==
    pc = "execute" =>
        \A n \in {m \in DOMAIN report : assessed[m] = "exit"} :
            \/ ~SupportsInstanceType(Info(n, TRUE).type)
            \/ ~setting.poolLevel /\ ~listed
            \/ /\ setting.poolLevel
               /\ \E m \in Dominant(With(GroupKey(Info(n, TRUE)), report, TRUE)) :
                     ~SupportsInstanceType(Info(m, TRUE).type)

(* A decision about nodes with a type and a zone sees what actions on      *)
(* their pool did: in node mode the target the last of them set, and,      *)
(* about a single node and without workload pools in the pool ids, the     *)
(* time of the last drain that was noted.                                  *)
OwnActionsRemembered ==
    state.spot # 0 =>
        \A n \in {m \in state.who : {Labels[m].type, Labels[m].zone} \cap {"", Absent} = {}} :
            /\ (~setting.poolLevel /\ driven[n] # NoRatio) => state.target = driven[n]
            /\ (~setting.extended /\ Cardinality(state.who) = 1) => state.since = drained[n]

(* The target ratio in a decision's features is the one driven by the      *)
(* actions taken on the pool.                                              *)
ActionDrivenTarget ==
    (state.spot # 0 /\ \A n \in state.who : driven[n] # NoRatio)
        => state.target \in {driven[n] : n \in state.who}
=============================================================================
