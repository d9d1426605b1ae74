--------------------------- MODULE InferenceProofs ---------------------------
(***************************************************************************)
(* Proofs for any nodes, labels, reports, lifetimes and latencies: types   *)
(* are kept, no decision rests on a price older than the cache allows, its *)
(* series ends with that price and what actions left is seen, the nodes of *)
(* a pool act as one, and only what is out of scope is forced off spot.    *)
(***************************************************************************)
EXTENDS Inference, FiniteSetTheorems, TLAPS

Busy == {"scope", "ondemand", "decide"}

(* The group in hand is described by one of the nodes in the metrics. *)
GroupInv ==
    /\ DOMAIN report \subseteq Node
    /\ pc \in Busy => \E n \in DOMAIN report : cur = About(cur.who, n)
    /\ pc \notin Busy => cur = NoGroup
    /\ pc \in {"idle", "execute"} => todo = {} /\ state = NoState
    /\ pc = "idle" => prices = [k \in Key |-> NoQuote]

(* A price was quoted less than this long before the cycle began. *)
Slack == CacheTTL + 2 * MaxLatency
Recent(q) == q.spot # 0 => begun - q.spot < Slack

(* An entry was stored at most two calls after its price was quoted; while *)
(* a price is being completed it is one call old, and of this cycle.       *)
PriceInv ==
    /\ begun <= clock /\ MaxResults <= clock
    /\ pc = "ondemand" => ~Unidentified
    /\ \A m \in Market : cache[m].updated # Never =>
            cache[m].updated <= clock /\ cache[m].updated - cache[m].spot <= 2 * MaxLatency
    /\ \A k \in Key : Recent(prices[k])
    /\ pc = "ondemand" => begun <= quote.spot /\ clock - quote.spot <= MaxLatency
    /\ pc = "decide" => Recent(quote)
    /\ Recent(state)

Inv == TypeOK /\ GroupInv /\ PriceInv

-----------------------------------------------------------------------------
LEMMA LatestType ==
    ASSUME NEW s \in Seq(Nat), NEW k \in Nat \ {0}, Len(s) > 0
    PROVE  /\ Latest(s, k) \in Seq(Nat) /\ Len(Latest(s, k)) > 0
           /\ Latest(s, k)[Len(Latest(s, k))] = s[Len(s)]
<1>1. CASE Len(s) > k
  <2>. DEFINE a == Len(s) - k + 1
  <2>1. a \in 1..Len(s) /\ Len(s) - a + 1 = k
    BY <1>1
  <2>2. Latest(s, k) = SubSeq(s, a, Len(s))
    BY <1>1 DEF Latest
  <2>3. SubSeq(s, a, Len(s)) \in Seq(Nat) /\ Len(SubSeq(s, a, Len(s))) = k
    BY <2>1
  <2>4. SubSeq(s, a, Len(s))[k] = s[a + k - 1]
    BY <2>1
  <2>. QED BY <2>1, <2>2, <2>3, <2>4
<1>2. CASE ~(Len(s) > k)
  BY <1>2 DEF Latest
<1>. QED BY <1>1, <1>2

LEMMA BuildEndsWithNewest ==
    ASSUME NEW q \in Seq(Nat), Len(q) > 0
    PROVE  /\ BuildPriceHistory(q) \in Seq(Nat)
           /\ Len(BuildPriceHistory(q)) > 0
           /\ BuildPriceHistory(q)[Len(BuildPriceHistory(q))] = q[1]
<1>. DEFINE p == Reverse(q)
<1>0. HistorySteps \in Nat \ {0}
  BY PriceHistoryAssumption
<1>1. p \in Seq(Nat) /\ Len(p) = Len(q) /\ p[Len(p)] = q[1]
  BY DEF Reverse
<1>2. CASE Len(p) < HistorySteps
  <2>. DEFINE pad == [i \in 1..(HistorySteps - Len(p)) |-> p[1]]
  <2>1. pad \in Seq(Nat) /\ Len(pad) = HistorySteps - Len(p)
    BY <1>0, <1>1, <1>2
  <2>2. BuildPriceHistory(q) = pad \o p
    BY <1>2 DEF BuildPriceHistory
  <2>. HIDE DEF pad, p
  <2>. QED BY <1>1, <2>1, <2>2
<1>3. CASE ~(Len(p) < HistorySteps)
  <2>1. BuildPriceHistory(q) = Latest(p, HistorySteps)
    BY <1>3 DEF BuildPriceHistory
  <2>. HIDE DEF p
  <2>. QED BY <1>0, <1>1, <2>1, LatestType
<1>. QED BY <1>2, <1>3

(* The ratio of a pool's nodes that are spot is a percentage. *)
LEMMA PercentOfCounts ==
    ASSUME NEW a \in Nat, NEW b \in Nat \ {0}, a <= b
    PROVE  (100 * a) \div b \in 0..100
<1>1. 100 * a <= 100 * b
  OBVIOUS
<1>2. (100 * a) \div b \in Int /\ (100 * a) \div b >= 0
  OBVIOUS
<1>3. (100 * a) \div b <= 100
  <2>. DEFINE q == (100 * a) \div b
  <2>1. b * q <= 100 * a
    OBVIOUS
  <2>2. q \in Int
    OBVIOUS
  <2>. HIDE DEF q
  <2>3. b * q <= 100 * b
    BY <1>1, <2>1, <2>2
  <2>. QED BY <2>2, <2>3
<1>. QED BY <1>2, <1>3

LEMMA RatioType ==
    ASSUME NEW r \in Reports, NEW ok \in BOOLEAN, NEW k, With(k, r, ok) # {}
    PROVE  CurrentRatio(k, r, ok) \in 0..100
<1>. DEFINE A == {n \in With(k, r, ok) : ok /\ IsSpot(Labels[n])}
            B == With(k, r, ok)
<1>1. B \subseteq Node
  BY InferenceAssumption DEF With
<1>2. IsFiniteSet(B)
  BY <1>1, InferenceAssumption, FS_Subset
<1>3. IsFiniteSet(A) /\ Cardinality(A) <= Cardinality(B)
  <2>1. A \subseteq B
    OBVIOUS
  <2>. QED BY <1>2, <2>1, FS_Subset
<1>4. Cardinality(A) \in Nat /\ Cardinality(B) \in Nat \ {0}
  BY <1>2, <1>3, FS_CardinalityType, FS_EmptySet
<1>5. CurrentRatio(k, r, ok) = (100 * Cardinality(A)) \div Cardinality(B)
  BY DEF CurrentRatio
<1>. HIDE DEF A, B
<1>. QED BY <1>3, <1>4, <1>5, PercentOfCounts

(* What a group is known by are keys the controller's maps have. *)
LEMMA Keys ==
    ASSUME NEW n \in Node, setting \in Scenarios, listed \in BOOLEAN, NEW g
    PROVE  /\ About(g, n).id \in Key /\ About(g, n).key \in Key
           /\ ~Unknown(Info(n, listed)) =>
                  <<Info(n, listed).type, Info(n, listed).zone>> \in Market
<1>0. setting.extended \in BOOLEAN
  BY InferenceAssumption DEF Scenario
<1>1. CASE listed
  <2>. DEFINE i == Info(n, TRUE)
  <2>1. <<i.type, i.zone>> = PoolID(Labels[n])
    BY DEF Info, PoolID
  <2>2. Id(i) \in Key
    <3>1. Id(i) = ControllerPoolID(i, NoPool, TRUE) \/ Id(i) = <<i.type, i.zone>>
      BY <1>0 DEF Id, ControllerPoolID
    <3>. HIDE DEF i
    <3>2. ControllerPoolID(i, NoPool, TRUE) \in Key
      BY Zenon DEF Key, i
    <3>3. <<i.type, i.zone>> \in Key
      BY Zenon, <2>1 DEF Key, Market
    <3>. QED BY <3>1, <3>2, <3>3
  <2>3. GroupKey(i) \in Key
    BY Zenon DEF Key
  <2>. HIDE DEF i
  <2>4. Info(n, listed) = i
    BY <1>1 DEF i
  <2>5. <<"unknown", "unknown">> \in Key
    BY DEF Key
  <2>. QED BY <2>1, <2>2, <2>3, <2>4, <2>5 DEF About, RatioKey, Market
<1>2. CASE ~listed
  <2>1. Unknown(Info(n, listed)) /\ Info(n, listed).zone = ""
    BY <1>2 DEF Info, Unknown
  <2>2. <<"unknown", "unknown">> \in Key /\ <<"unknown">> \in Key
    BY DEF Key
  <2>. QED BY <2>1, <2>2 DEF About, RatioKey, GroupKey
<1>. QED BY <1>1, <1>2

LEMMA ActionKeys ==
    ASSUME NEW n \in Node, setting \in Scenarios
    PROVE  ActionKey(n) \in Key /\ MigrationKey(n) \in Key
<1>0. setting.extended \in BOOLEAN
  BY InferenceAssumption DEF Scenario
<1>1. MigrationKey(n) \in Key
  BY Zenon DEF MigrationKey, Key, Market
<1>2. ActionKey(n) \in Key
  <2>1. ControllerPoolID(RawInfo(n), NoPool, TRUE) \in Key
    BY Zenon DEF Key
  <2>2. ControllerPoolID(RawInfo(n), NoPool, FALSE) \in Key
    BY Zenon DEF Key
  <2>. QED BY <1>0, <2>1, <2>2 DEF ActionKey, Id
<1>. QED BY <1>1, <1>2

(* The values that stand for nothing. *)
LEMMA Nothing ==
    /\ NoQuote.spot = 0 /\ NoQuote \in [spot : Time, history : Seq(Time)]
    /\ NoEntry.updated = 0
    /\ NoEntry \in [spot : Time, history : Seq(Time), updated : Time]
    /\ NoState.spot = 0 /\ NoState.at = 0
    /\ NoGroup.who = {}
    /\ Nobody \in [Node -> Verdict]
<1>1. <<>> \in Seq(Time)
  OBVIOUS
<1>2. NoQuote \in [spot : Time, history : Seq(Time)]
  BY <1>1, Zenon DEF NoQuote, Time
<1>. QED BY <1>1, <1>2 DEF NoQuote, NoEntry, NoState, NoGroup, Nobody, Time, Never, Verdict

LEMMA InitInv == Init => Inv
<1>. SUFFICES ASSUME Init PROVE Inv
  OBVIOUS
<1>a. /\ MaxResults \in Nat /\ CacheTTL \in Nat /\ MaxLatency \in Nat
  BY InferenceAssumption
<1>0. /\ pc = "idle" /\ todo = {} /\ cur = NoGroup /\ state = NoState
      /\ prices = [k \in Key |-> NoQuote]
  BY DEF Init
<1>r. report = <<>> /\ DOMAIN report = {}
  <2>1. report = <<>>
    BY DEF Init
  <2>. QED BY <2>1
<1>1. GroupInv
  BY <1>0, <1>r, Zenon DEF GroupInv, Busy
<1>2. PriceInv
  <2>1. begun = 0 /\ clock \in Nat /\ clock = MaxResults /\ state.spot = 0
    BY <1>0, <1>a, Nothing DEF Init, Never
  <2>2. \A m \in Market : cache[m].updated = 0
    BY Nothing DEF Init
  <2>3. \A k \in Key : prices[k].spot = 0
    BY <1>0, Nothing
  <2>4. \A k \in Key : Recent(prices[k])
    BY <2>3 DEF Recent
  <2>5. Recent(state)
    BY <2>1 DEF Recent
  <2>. QED BY <1>0, <2>1, <2>2, <2>4, <2>5 DEF PriceInv, Never
<1>3. TypeOK
  <2>1. /\ cache \in [Market -> [spot : Time, history : Seq(Time), updated : Time]]
        /\ onDemand \subseteq {m[1] : m \in Market}
    BY Nothing DEF Init
  <2>2. /\ prices \in [Key -> [spot : Time, history : Seq(Time)]]
        /\ quote \in [spot : Time, history : Seq(Time)]
    BY <1>0, Nothing DEF Init
  <2>p. priceHistory \in [Key -> Seq(Time)]
    <3>1. <<>> \in Seq(Time)
      OBVIOUS
    <3>. QED BY <3>1, Zenon DEF Init
  <2>3. /\ setting \in Scenarios /\ clock \in Time /\ moves \in Nat
        /\ target \in [Key -> Ratio] /\ lastMigration \in [Key -> Time]
        /\ begun \in Time /\ listed \in BOOLEAN
    BY <1>a DEF Init, NoRatio, Ratio, Time, Never
  <2>4. /\ verdict \in [Node -> Verdict] /\ assessed \in [Node -> Verdict] /\ done \subseteq Node
        /\ driven \in [Node -> Ratio] /\ drained \in [Node -> Time]
    BY Nothing DEF Init, NoRatio, Ratio, Time, Never
  <2>5. todo \subseteq SUBSET DOMAIN report /\ cur.who \subseteq DOMAIN report
    BY <1>0, Nothing
  <2>6. state.spot \in Time /\ state.at \in Time
    BY <1>0, Nothing DEF Time
  <2>. QED BY Zenon, <1>0, <1>r, <2>1, <2>2, <2>p, <2>3, <2>4, <2>5, <2>6 DEF TypeOK
<1>. QED BY <1>1, <1>2, <1>3 DEF Inv

-----------------------------------------------------------------------------
(* What the steps that look at a group rely on. *)
LEMMA InHand ==
    ASSUME Inv, pc \in Busy
    PROVE  /\ cur.who \subseteq DOMAIN report /\ cur.who \subseteq Node
           /\ cur.id \in Key /\ cur.key \in Key
           /\ ~Unidentified => At \in Market /\ PriceKey \in Key
<1>1. PICK n \in DOMAIN report : cur = About(cur.who, n)
  BY DEF Inv, GroupInv
<1>2. n \in Node /\ setting \in Scenarios /\ listed \in BOOLEAN
  BY <1>1, Zenon DEF Inv, GroupInv, TypeOK
<1>3. /\ About(cur.who, n).id \in Key /\ About(cur.who, n).key \in Key
      /\ ~Unknown(Info(n, listed)) =>
             <<Info(n, listed).type, Info(n, listed).zone>> \in Market
  BY <1>2, Keys
<1>4. cur.who \subseteq DOMAIN report /\ cur.who \subseteq Node
  BY Zenon DEF Inv, GroupInv, TypeOK
<1>5. cur.type = Info(n, listed).type /\ cur.zone = Info(n, listed).zone
  BY <1>1 DEF About
<1>6. ~Unidentified => At \in Market
  BY <1>3, <1>5 DEF Unidentified, Unknown, At
<1>7. Market \subseteq Key
  BY Zenon DEF Key
<1>. QED BY <1>1, <1>3, <1>4, <1>6, <1>7 DEF PriceKey

LEMMA StepBeginTick ==
    ASSUME Inv, NEW r \in Reports, NEW ok \in BOOLEAN, BeginTick(r, ok)
    PROVE  Inv'
<1>. USE DEF Inv
<1>1. GroupInv'
  <2>1. DOMAIN r \subseteq Node
    BY InferenceAssumption
  <2>. QED BY <2>1 DEF GroupInv, BeginTick, Busy, marketVars
<1>2. PriceInv'
  <2>1. begun' = clock /\ UNCHANGED <<clock, cache, prices, quote, state>> /\ pc = "idle" /\ pc' = "groups"
    BY DEF BeginTick, marketVars
  <2>2. state.spot = 0 /\ \A k \in Key : prices[k].spot = 0
    BY <2>1, Nothing DEF GroupInv
  <2>3. \A k \in Key : Recent(prices[k])'
    BY <2>1, <2>2 DEF Recent
  <2>. QED BY <2>1, <2>2, <2>3 DEF PriceInv, Recent, TypeOK, Time
<1>3. TypeOK'
  <2>1. target' \in [Key -> Ratio]
    BY RatioType DEF BeginTick, TypeOK, Ratio
  <2>2. todo' \subseteq SUBSET DOMAIN r /\ cur'.who \subseteq DOMAIN r
    BY Nothing DEF BeginTick, Groups, With, GroupInv, Busy
  <2>. QED BY Zenon, <2>1, <2>2 DEF TypeOK, BeginTick, marketVars
<1>. QED BY <1>1, <1>2, <1>3

LEMMA StepTake ==
    ASSUME Inv, NEW g \in todo, NEW n \in Dominant(g), Take(g, n)
    PROVE  Inv'
<1>. USE DEF Inv
<1>0. /\ pc = "groups" /\ pc' = "scope" /\ todo' = todo \ {g} /\ cur' = About(g, n)
      /\ state' = NoState
      /\ UNCHANGED <<clock, cache, onDemand, setting, moves, target, lastMigration, priceHistory,
                     driven, drained, begun, report, listed, prices, quote, verdict, assessed, done>>
  BY DEF Take, marketVars, memoryVars, tickVars
<1>1. g \subseteq DOMAIN report /\ n \in DOMAIN report
  BY Zenon DEF TypeOK, Dominant
<1>2. cur'.who = g /\ cur' = About(cur.who, n)'
  BY <1>0 DEF About, Info, Unknown, Id, RatioKey, GroupKey, ControllerPoolID
<1>3. GroupInv'
  BY <1>0, <1>1, <1>2 DEF GroupInv, Busy
<1>4. PriceInv'
  BY <1>0, Nothing DEF PriceInv, Recent
<1>5. TypeOK'
  <2>1. todo' \subseteq SUBSET DOMAIN report' /\ cur'.who \subseteq DOMAIN report'
    BY <1>0, <1>1, <1>2, Zenon DEF TypeOK
  <2>2. state'.spot \in Time /\ state'.at \in Time
    BY <1>0, Nothing DEF Time
  <2>. QED BY Zenon, <1>0, <2>1, <2>2 DEF TypeOK
<1>. QED BY <1>3, <1>4, <1>5

(* Leaving a group without having read or written anything else. *)
LEMMA StepDrop ==
    ASSUME Inv, pc \in Busy, Drop, verdict' \in [Node -> Verdict],
           priceHistory' \in [Key -> Seq(Time)],
           state'.spot \in Time, state'.at \in Time, Recent(state'),
           UNCHANGED <<setting, moves, target, lastMigration, driven, drained>>
    PROVE  Inv'
<1>. USE DEF Inv
<1>0. /\ pc' = "groups" /\ cur' = NoGroup /\ quote' = NoQuote
      /\ UNCHANGED <<clock, cache, onDemand, begun, report, listed, todo, prices, assessed, done>>
  BY DEF Drop, marketVars, tickVars
<1>1. GroupInv'
  BY <1>0, Zenon DEF GroupInv, Busy
<1>2. PriceInv'
  BY <1>0 DEF PriceInv, Recent
<1>3. TypeOK'
  <2>1. cur'.who \subseteq DOMAIN report'
    BY <1>0, Nothing
  <2>2. quote' \in [spot : Time, history : Seq(Time)]
    BY <1>0, Nothing
  <2>. QED BY Zenon, <1>0, <2>1, <2>2 DEF TypeOK
<1>. QED BY <1>1, <1>2, <1>3

LEMMA DecidedType ==
    ASSUME Inv, NEW a \in Verdict
    PROVE  Decided(a) \in [Node -> Verdict]
BY DEF Inv, TypeOK, Decided

LEMMA StepLeave ==
    ASSUME Inv, PassOver \/ ForceExit \/ NoPrice
    PROVE  Inv'
<1>1. /\ pc \in Busy /\ Drop /\ UNCHANGED <<memoryVars, state>>
      /\ UNCHANGED verdict \/ verdict' = Decided("exit")
  BY DEF PassOver, ForceExit, NoPrice, Busy
<1>2. UNCHANGED <<setting, moves, target, lastMigration, priceHistory, driven, drained, state>>
  BY <1>1 DEF memoryVars
<1>3. verdict' \in [Node -> Verdict]
  <2>1. Decided("exit") \in [Node -> Verdict]
    BY DecidedType DEF Verdict
  <2>. QED BY <1>1, <2>1 DEF Inv, TypeOK
<1>4. /\ priceHistory' \in [Key -> Seq(Time)] /\ state'.spot \in Time /\ state'.at \in Time
      /\ Recent(state')
  BY <1>2, Zenon DEF Inv, TypeOK, PriceInv
<1>. QED BY <1>1, <1>2, <1>3, <1>4, StepDrop

(* The series a decision takes is one of times. *)
LEMMA SeriesType ==
    ASSUME Inv, pc = "decide", quote.spot > 0
    PROVE  Series \in Seq(Time)
<1>1. cur.id \in Key
  BY InHand DEF Busy
<1>2. /\ quote.history \in Seq(Time) /\ quote.spot \in Time
      /\ priceHistory[cur.id] \in Seq(Time)
  BY <1>1 DEF Inv, TypeOK
<1>3. Append(priceHistory[cur.id], quote.spot) \in Seq(Nat)
      /\ Len(Append(priceHistory[cur.id], quote.spot)) > 0
  BY <1>2 DEF Time
<1>4. 2 * TFTHistorySteps \in Nat \ {0}
  BY PriceHistoryAssumption
<1>5. Latest(Append(priceHistory[cur.id], quote.spot), 2 * TFTHistorySteps) \in Seq(Nat)
  BY <1>3, <1>4, LatestType
<1>. QED BY <1>2, <1>5, Zenon DEF Series, Remember, Time

LEMMA StepDecide ==
    ASSUME Inv, Decide
    PROVE  Inv'
<1>1. /\ pc = "decide" /\ quote.spot > 0 /\ Drop /\ state' = Features
      /\ UNCHANGED <<setting, moves, target, lastMigration, driven, drained>>
  BY DEF Decide
<1>2. verdict' \in [Node -> Verdict]
  <2>1. PICK a \in {"none", "hold", "move"} : verdict' = Decided(a)
    BY DEF Decide
  <2>. QED BY <2>1, DecidedType DEF Verdict
<1>3. priceHistory' \in [Key -> Seq(Time)]
  <2>1. priceHistory \in [Key -> Seq(Time)]
    BY DEF Inv, TypeOK
  <2>2. priceHistory' = priceHistory \/ priceHistory' = [priceHistory EXCEPT ![cur.id] = Series]
    BY DEF Decide
  <2>. QED BY <1>1, <2>1, <2>2, SeriesType, Zenon
<1>4. state'.spot = quote.spot /\ state'.at = clock
  BY <1>1 DEF Features
<1>5. state'.spot \in Time /\ state'.at \in Time /\ Recent(state')
  BY <1>1, <1>4 DEF Inv, TypeOK, PriceInv, Recent
<1>. QED BY <1>1, <1>2, <1>3, <1>5, StepDrop DEF Busy

-----------------------------------------------------------------------------
(* An answer to the lookup, after whatever it took to get it. *)
LEMMA StepAnswer ==
    ASSUME Inv, pc \in Busy, ~Unidentified, NEW q \in [spot : Time, history : Seq(Time)],
           Answer(q), Recent(q), clock' \in Nat, clock <= clock',
           cache' \in [Market -> [spot : Time, history : Seq(Time), updated : Time]],
           \A m \in Market : cache'[m].updated # Never =>
                /\ cache'[m].updated <= clock'
                /\ cache'[m].updated - cache'[m].spot <= 2 * MaxLatency,
           onDemand' \subseteq {m[1] : m \in Market}
    PROVE  Inv'
<1>. USE DEF Inv
<1>0. /\ pc' = "decide" /\ quote' = q
      /\ UNCHANGED <<setting, moves, target, lastMigration, priceHistory, driven, drained, begun,
                     report, listed, todo, cur, verdict, assessed, done, state>>
  BY DEF Answer, memoryVars, tickVars
<1>1. /\ prices' \in [Key -> [spot : Time, history : Seq(Time)]]
      /\ \A k \in Key : prices'[k] = prices[k] \/ prices'[k] = q
  <2>1. prices \in [Key -> [spot : Time, history : Seq(Time)]] /\ PriceKey \in Key
    BY InHand DEF TypeOK
  <2>2. prices' = prices \/ prices' = [prices EXCEPT ![PriceKey] = q]
    BY DEF Answer
  <2>. QED BY <2>1, <2>2, Zenon
<1>2. GroupInv'
  <2>1. PICK n \in DOMAIN report : cur = About(cur.who, n)
    BY DEF GroupInv
  <2>2. (cur = About(cur.who, n))'
    BY <1>0, <2>1 DEF About, Info, Unknown, Id, RatioKey, GroupKey, ControllerPoolID
  <2>. QED BY <1>0, <2>2 DEF GroupInv, Busy
<1>3. PriceInv'
  <2>0. MaxResults \in Nat
    BY InferenceAssumption
  <2>1. begun' <= clock' /\ MaxResults <= clock' /\ Recent(quote)' /\ Recent(state)'
    BY <1>0, <2>0 DEF PriceInv, Recent, TypeOK, Time
  <2>2. \A k \in Key : Recent(prices[k])'
    BY <1>0, <1>1 DEF PriceInv, Recent
  <2>. QED BY <1>0, <2>1, <2>2 DEF PriceInv
<1>4. TypeOK'
  BY Zenon, <1>0, <1>1 DEF TypeOK, Time
<1>. QED BY <1>2, <1>3, <1>4

(* A quote that the client's cache still holds, or none. *)
LEMMA StepHit ==
    ASSUME Inv, CycleHit \/ ClientHit \/ Scripted
    PROVE  Inv'
<1>. USE DEF Inv
<1>0. /\ pc \in Busy /\ ~Unidentified /\ UNCHANGED <<clock, cache, onDemand>>
      /\ begun \in Nat /\ clock \in Nat /\ begun <= clock
  BY DEF CycleHit, ClientHit, Scripted, Lookup, Busy, marketVars, TypeOK, PriceInv, Time
<1>a. CacheTTL \in Nat \ {0} /\ MaxLatency \in Nat
  BY InferenceAssumption
<1>1. PICK q : Answer(q) /\ q \in [spot : Time, history : Seq(Time)] /\ Recent(q)
  <2>1. CASE CycleHit
    <3>1. PriceKey \in Key
      BY <1>0, InHand
    <3>2. prices[PriceKey] \in [spot : Time, history : Seq(Time)] /\ Recent(prices[PriceKey])
      BY <3>1 DEF TypeOK, PriceInv
    <3>. QED BY <2>1, <3>2 DEF CycleHit
  <2>2. CASE ClientHit
    <3>. DEFINE e == cache[At]
                q == [spot |-> e.spot, history |-> e.history]
    <3>1. At \in Market
      BY <1>0, InHand
    <3>2. e \in [spot : Time, history : Seq(Time), updated : Time]
      BY <3>1 DEF TypeOK
    <3>3. /\ clock - e.updated < CacheTTL
          /\ e.updated <= clock /\ e.updated - e.spot <= 2 * MaxLatency
      BY <2>2, <3>1 DEF ClientHit, Fresh, PriceInv
    <3>4. q \in [spot : Time, history : Seq(Time)] /\ q.spot = e.spot
      BY <3>2
    <3>5. e.spot \in Nat /\ e.updated \in Nat
      BY <3>2 DEF Time
    <3>6. Answer(q)
      BY <2>2 DEF ClientHit
    <3>. HIDE DEF e, q
    <3>7. Recent(q)
      BY <1>0, <1>a, <3>3, <3>4, <3>5 DEF Recent, Slack
    <3>. QED BY <3>4, <3>6, <3>7
  <2>3. CASE Scripted
    <3>. DEFINE q == [spot |-> clock, history |-> <<>>]
    <3>1. Answer(NoQuote) \/ Answer(q)
      BY <2>3, Zenon DEF Scripted
    <3>2. q.spot = clock /\ q \in [spot : Time, history : Seq(Time)]
      <4>1. <<>> \in Seq(Time)
        OBVIOUS
      <4>. QED BY <4>1, <1>0, Zenon DEF Time
    <3>. HIDE DEF q
    <3>3. Recent(q) /\ Recent(NoQuote)
      BY <1>0, <1>a, <3>2, Nothing DEF Recent, Slack
    <3>. QED BY <3>1, <3>2, <3>3, Nothing
  <2>. QED BY <2>1, <2>2, <2>3
<1>2. /\ cache' \in [Market -> [spot : Time, history : Seq(Time), updated : Time]]
      /\ onDemand' \subseteq {m[1] : m \in Market}
  BY <1>0, Zenon DEF TypeOK
<1>3. \A m \in Market : cache'[m].updated # Never =>
                /\ cache'[m].updated <= clock'
                /\ cache'[m].updated - cache'[m].spot <= 2 * MaxLatency
  BY <1>0 DEF PriceInv
<1>. QED BY <1>0, <1>1, <1>2, <1>3, StepAnswer

(* A call that fails leaves the caches as they are. *)
LEMMA StepFail ==
    ASSUME Inv, pc \in Busy, ~Unidentified, NEW d \in 0..MaxLatency, Passes(d), Fail
    PROVE  Inv'
<1>. USE DEF Inv
<1>0. clock \in Nat /\ clock' = clock + d /\ MaxLatency \in Nat /\ UNCHANGED <<cache, onDemand>>
      /\ Answer(NoQuote)
  BY InferenceAssumption DEF TypeOK, Time, Passes, Fail
<1>1. /\ cache' \in [Market -> [spot : Time, history : Seq(Time), updated : Time]]
      /\ onDemand' \subseteq {m[1] : m \in Market}
  BY <1>0, Zenon DEF TypeOK
<1>2. \A m \in Market : cache'[m].updated # Never =>
                /\ cache'[m].updated <= clock'
                /\ cache'[m].updated - cache'[m].spot <= 2 * MaxLatency
  <2>1. \A m \in Market : cache[m].updated \in Nat
    BY DEF TypeOK, Time
  <2>. QED BY <1>0, <2>1 DEF PriceInv
<1>3. Recent(NoQuote) /\ NoQuote \in [spot : Time, history : Seq(Time)]
  BY Nothing DEF Recent
<1>. QED BY <1>0, <1>1, <1>2, <1>3, StepAnswer

LEMMA StepDescribe ==
    ASSUME Inv, DescribeSpotPriceHistory
    PROVE  Inv'
<1>. USE DEF Inv
<1>0. pc \in Busy /\ ~Unidentified
  BY DEF DescribeSpotPriceHistory, Lookup, Busy
<1>1. PICK d \in 0..MaxLatency : Passes(d)
  BY DEF DescribeSpotPriceHistory
<1>2. CASE Fail
  BY <1>0, <1>1, <1>2, StepFail
<1>3. CASE ~Fail
  <2>1. /\ pc' = "ondemand"
        /\ UNCHANGED <<setting, moves, target, lastMigration, priceHistory, driven, drained, begun,
                       report, listed, cache, onDemand, todo, cur, prices, verdict, assessed, done,
                       state>>
    BY <1>3 DEF DescribeSpotPriceHistory, memoryVars, tickVars
  <2>2. PICK k \in 1..MaxResults :
            LET h == BuildPriceHistory(Listing(k))
            IN  quote' = [spot |-> h[Len(h)], history |-> h]
    BY <1>3 DEF DescribeSpotPriceHistory
  <2>3. /\ clock \in Nat /\ clock >= MaxResults /\ clock' = clock + d /\ MaxLatency \in Nat
        /\ MaxResults \in Nat
    BY <1>1, InferenceAssumption DEF TypeOK, Time, Passes, PriceInv
  <2>4. Listing(k) \in Seq(Nat) /\ Len(Listing(k)) > 0 /\ Listing(k)[1] = clock
    BY <2>3 DEF Listing
  <2>. DEFINE h == BuildPriceHistory(Listing(k))
  <2>5. h \in Seq(Nat) /\ h[Len(h)] = clock
    BY <2>4, BuildEndsWithNewest
  <2>6. quote' = [spot |-> clock, history |-> h]
    BY <2>2, <2>5
  <2>. HIDE DEF h
  <2>7. quote' \in [spot : Time, history : Seq(Time)] /\ quote'.spot = clock
    BY <2>3, <2>5, <2>6 DEF Time
  <2>8. GroupInv'
    <3>1. PICK n \in DOMAIN report : cur = About(cur.who, n)
      BY <1>0 DEF GroupInv
    <3>2. (cur = About(cur.who, n))'
      BY <2>1, <3>1 DEF About, Info, Unknown, Id, RatioKey, GroupKey, ControllerPoolID
    <3>. QED BY <2>1, <3>2 DEF GroupInv, Busy
  <2>9. PriceInv'
    <3>1. begun \in Nat /\ \A m \in Market : cache[m].updated \in Nat
      BY DEF TypeOK, Time
    <3>2. \A k1 \in Key : Recent(prices[k1])'
      BY <2>1 DEF PriceInv, Recent
    <3>3. ~Unidentified'
      BY <1>0, <2>1 DEF Unidentified
    <3>. QED BY <2>1, <2>3, <2>7, <3>1, <3>2, <3>3 DEF PriceInv, Recent
  <2>10. clock' \in Time
    BY <2>3 DEF Time
  <2>11. TypeOK'
    BY Zenon, <2>1, <2>7, <2>10 DEF TypeOK
  <2>. QED BY <2>8, <2>9, <2>11
<1>. QED BY <1>2, <1>3

LEMMA StepStore ==
    ASSUME Inv, pc = "ondemand", ~Unidentified, NEW d \in 0..MaxLatency, Passes(d), Store
    PROVE  Inv'
<1>. USE DEF Inv
<1>0. clock \in Nat /\ clock' = clock + d /\ MaxLatency \in Nat /\ CacheTTL \in Nat \ {0}
  BY InferenceAssumption DEF TypeOK, Time, Passes
<1>1. /\ quote \in [spot : Time, history : Seq(Time)] /\ begun <= quote.spot
      /\ clock - quote.spot <= MaxLatency /\ quote.spot \in Nat /\ begun \in Nat
  BY DEF TypeOK, PriceInv, Time
<1>2. At \in Market /\ pc \in Busy
  BY InHand DEF Busy
<1>3. Answer(quote) /\ Recent(quote)
  BY <1>0, <1>1 DEF Store, Recent, Slack
<1>. DEFINE e == [spot |-> quote.spot, history |-> quote.history, updated |-> clock']
<1>4. /\ e \in [spot : Time, history : Seq(Time), updated : Time]
      /\ e.updated = clock' /\ e.spot = quote.spot
  BY <1>0, <1>1 DEF Time
<1>5. /\ cache' = [cache EXCEPT ![At] = e]
      /\ cache \in [Market -> [spot : Time, history : Seq(Time), updated : Time]]
  BY DEF Store, TypeOK
<1>. HIDE DEF e
<1>6. cache' \in [Market -> [spot : Time, history : Seq(Time), updated : Time]]
  BY <1>4, <1>5, Zenon
<1>7. \A m \in Market : cache'[m] = e \/ cache'[m] = cache[m]
  BY <1>5, Zenon
<1>8. \A m \in Market : cache'[m].updated # Never =>
                /\ cache'[m].updated <= clock'
                /\ cache'[m].updated - cache'[m].spot <= 2 * MaxLatency
  <2>. SUFFICES ASSUME NEW m \in Market, cache'[m].updated # Never
                PROVE  /\ cache'[m].updated <= clock'
                       /\ cache'[m].updated - cache'[m].spot <= 2 * MaxLatency
    OBVIOUS
  <2>1. CASE cache'[m] = e
    <3>1. cache'[m].updated = clock' /\ cache'[m].spot = quote.spot
      BY <1>4, <2>1
    <3>. HIDE DEF Inv
    <3>. QED BY <1>0, <1>1, <3>1
  <2>2. CASE cache'[m] = cache[m]
    <3>1. cache[m].updated \in Nat /\ cache[m].spot \in Nat
      BY DEF TypeOK, Time
    <3>2. /\ cache[m].updated <= clock
          /\ cache[m].updated - cache[m].spot <= 2 * MaxLatency
      BY <2>2 DEF PriceInv
    <3>. HIDE DEF Inv
    <3>. QED BY <1>0, <2>2, <3>1, <3>2
  <2>. QED BY <1>7, <2>1, <2>2
<1>9. onDemand' \subseteq {m[1] : m \in Market}
  <2>1. cur.type = At[1]
    BY DEF At
  <2>. QED BY <1>2, <2>1 DEF Store, TypeOK
<1>. QED BY <1>0, <1>1, <1>2, <1>3, <1>6, <1>8, <1>9, StepAnswer

LEMMA StepOnDemand ==
    ASSUME Inv, GetOnDemandPrice
    PROVE  Inv'
<1>0. pc = "ondemand" /\ pc \in Busy /\ ~Unidentified
  BY DEF GetOnDemandPrice, Inv, PriceInv, Busy
<1>1. MaxLatency \in Nat
  BY InferenceAssumption
<1>2. CASE cur.type \in onDemand /\ Passes(0) /\ Store
  <2>1. 0 \in 0..MaxLatency
    BY <1>1
  <2>. QED BY <1>0, <1>2, <2>1, StepStore
<1>3. ASSUME NEW d \in 0..MaxLatency, Passes(d), Store \/ Fail
      PROVE  Inv'
  BY <1>0, <1>3, StepStore, StepFail
<1>. QED BY <1>2, <1>3 DEF GetOnDemandPrice

-----------------------------------------------------------------------------
LEMMA StepAssess ==
    ASSUME Inv, Assess
    PROVE  Inv'
<1>. USE DEF Inv
<1>0. /\ pc = "groups" /\ todo = {} /\ pc' = "execute" /\ state' = NoState
      /\ UNCHANGED <<clock, cache, onDemand, setting, moves, target, lastMigration, priceHistory,
                     driven, drained, begun, report, listed, todo, cur, prices, quote, verdict, done>>
  BY DEF Assess, marketVars, memoryVars, tickVars
<1>1. assessed' \in [Node -> Verdict]
  <2>1. verdict \in [Node -> Verdict]
    BY DEF TypeOK
  <2>2. \A n \in Node : HandBack(n) \in Verdict
    BY <2>1 DEF HandBack, Verdict
  <2>. QED BY <2>1, <2>2 DEF Assess, Verdict
<1>2. GroupInv'
  BY <1>0 DEF GroupInv, Busy
<1>3. PriceInv'
  BY <1>0, Nothing DEF PriceInv, Recent
<1>4. state'.spot \in Time /\ state'.at \in Time
  BY <1>0, Nothing DEF Time
<1>5. TypeOK'
  BY Zenon, <1>0, <1>1, <1>4 DEF TypeOK
<1>. QED BY <1>2, <1>3, <1>5

LEMMA StepExecute ==
    ASSUME Inv, NEW n \in Node, NEW r \in Ratios, NEW noted \in BOOLEAN, Execute(n, r, noted)
    PROVE  Inv'
<1>. USE DEF Inv
<1>0. UNCHANGED <<clock, cache, onDemand, setting, priceHistory, begun, report, listed, pc, todo,
                  cur, prices, quote, verdict, assessed, state>>
  BY DEF Execute, marketVars, tickVars
<1>1. GroupInv'
  <2>1. pc \notin Busy /\ pc = "execute"
    BY DEF Execute, Busy
  <2>. QED BY <1>0, <2>1 DEF GroupInv
<1>2. PriceInv'
  <2>1. pc = "execute"
    BY DEF Execute
  <2>. QED BY <1>0, <2>1 DEF PriceInv, Recent
<1>3. TypeOK'
  <2>1. r \in Ratio
    BY InferenceAssumption DEF Ratio
  <2>2. target' \in [Key -> Ratio] /\ driven' \in [Node -> Ratio]
    BY <2>1, Zenon DEF Execute, TypeOK
  <2>3. clock \in Time /\ lastMigration \in [Key -> Time] /\ drained \in [Node -> Time]
    BY DEF TypeOK
  <2>4. lastMigration' \in [Key -> Time] /\ drained' \in [Node -> Time]
    BY <2>3 DEF Execute
  <2>5. moves' \in Nat /\ done' \subseteq Node
    BY DEF Execute, TypeOK
  <2>. QED BY Zenon, <1>0, <2>2, <2>4, <2>5 DEF TypeOK
<1>. QED BY <1>1, <1>2, <1>3

LEMMA StepEndTick ==
    ASSUME Inv, EndTick
    PROVE  Inv'
<1>. USE DEF Inv
<1>0. /\ pc = "execute" /\ pc' = "idle" /\ begun' = 0 /\ report' = <<>> /\ listed' = FALSE
      /\ prices' = [k \in Key |-> NoQuote] /\ verdict' = Nobody /\ assessed' = Nobody
      /\ done' = {}
      /\ UNCHANGED <<clock, cache, onDemand, setting, moves, target, lastMigration, priceHistory,
                     driven, drained, todo, cur, quote, state>>
  BY DEF EndTick, marketVars, memoryVars, Never
<1>1. DOMAIN report' = {} /\ cur = NoGroup /\ todo = {} /\ state = NoState
  <2>1. DOMAIN report' = {}
    BY <1>0
  <2>. QED BY <1>0, <2>1 DEF GroupInv, Busy
<1>2. GroupInv'
  BY <1>0, <1>1, Zenon DEF GroupInv, Busy
<1>3. PriceInv'
  <2>1. state'.spot = 0 /\ \A k \in Key : prices'[k].spot = 0
    BY <1>0, <1>1, Nothing
  <2>2. Recent(state)' /\ \A k \in Key : Recent(prices[k])'
    BY <2>1 DEF Recent
  <2>3. clock \in Nat
    BY DEF TypeOK, Time
  <2>. QED BY <1>0, <2>2, <2>3 DEF PriceInv
<1>4. TypeOK'
  <2>1. prices' \in [Key -> [spot : Time, history : Seq(Time)]] /\ begun' \in Time
    BY <1>0, Nothing DEF Time
  <2>2. todo' \subseteq SUBSET DOMAIN report' /\ cur'.who \subseteq DOMAIN report'
    BY <1>0, <1>1, Nothing
  <2>. QED BY Zenon, <1>0, <2>1, <2>2, Nothing DEF TypeOK
<1>. QED BY <1>2, <1>3, <1>4

LEMMA StepElapse ==
    ASSUME Inv, Elapse
    PROVE  Inv'
<1>. USE DEF Inv
<1>0. /\ pc = "idle" /\ clock' = clock + 1 /\ clock \in Nat
      /\ UNCHANGED <<cache, onDemand, setting, moves, target, lastMigration, priceHistory,
                     driven, drained, begun, report, listed, pc, todo, cur, prices, quote, verdict,
                     assessed, done, state>>
  BY DEF Elapse, Passes, memoryVars, tickVars, TypeOK, Time
<1>1. GroupInv'
  <2>1. pc \notin Busy
    BY <1>0 DEF Busy
  <2>. QED BY <1>0, <2>1 DEF GroupInv
<1>2. PriceInv'
  <2>1. begun \in Nat /\ \A m \in Market : cache[m].updated \in Nat
    BY DEF TypeOK, Time
  <2>2. MaxResults \in Nat
    BY InferenceAssumption
  <2>. QED BY <1>0, <2>1, <2>2 DEF PriceInv, Recent
<1>3. clock' \in Time
  BY <1>0 DEF Time
<1>4. TypeOK'
  BY Zenon, <1>0, <1>3 DEF TypeOK
<1>. QED BY <1>1, <1>2, <1>4

LEMMA StepStutter ==
    ASSUME Inv, UNCHANGED vars
    PROVE  Inv'
<1>0. UNCHANGED <<clock, cache, onDemand, setting, moves, target, lastMigration, priceHistory,
                  driven, drained, begun, report, listed, pc, todo, cur, prices, quote, verdict,
                  assessed, done, state>>
  BY DEF vars, marketVars, memoryVars, tickVars
<1>1. PriceInv'
  BY <1>0 DEF Inv, PriceInv, Recent, Unidentified
<1>2. GroupInv'
  <2>1. \A n \in DOMAIN report : About(cur.who, n)' = About(cur.who, n)
    BY <1>0 DEF About, Info, Unknown, Id, RatioKey, GroupKey, ControllerPoolID
  <2>. QED BY <1>0, <2>1 DEF Inv, GroupInv
<1>3. TypeOK'
  BY Zenon, <1>0 DEF Inv, TypeOK
<1>. QED BY <1>1, <1>2, <1>3 DEF Inv

-----------------------------------------------------------------------------
(* The groups not looked at yet and the one in hand are groups of the      *)
(* metrics, the latter described by one of its dominant nodes.             *)
GroupsInv ==
    /\ todo \subseteq Groups(report, listed)
    /\ pc \in Busy => /\ cur.who \in Groups(report, listed)
                      /\ \E n \in Dominant(cur.who) : cur = About(cur.who, n)

(* What leaves spot is out of scope itself, or with its group. *)
Outcast(n) ==
    IF setting.poolLevel
    THEN \E m \in Dominant(With(RatioKey(Info(n, listed)), report, listed)) :
            ~SupportsInstanceType(Info(m, listed).type)
    ELSE ~SupportsInstanceType(Info(n, listed).type)

(* Nodes of one group have one verdict until they are handed back. *)
Alike(n, m) == RatioKey(Info(n, listed)) = RatioKey(Info(m, listed))
VerdictInv ==
    /\ GroupsInv
    /\ pc = "idle" => verdict = Nobody
    /\ \A n \in DOMAIN report : verdict[n] = "exit" => Outcast(n)
    /\ setting.poolLevel => \A n, m \in DOMAIN report : Alike(n, m) => verdict[n] = verdict[m]
    /\ pc = "execute" => \A n \in DOMAIN report :
            assessed[n] = IF setting.poolLevel THEN HandBack(n) ELSE verdict[n]

(* What actions did is still where the decisions look for it. *)
Known(n) == {Labels[n].type, Labels[n].zone} \cap {"", Absent} = {}
MemoryInv ==
    /\ pc = "decide" => ~Unidentified
    /\ \A n \in Node : drained[n] = lastMigration[MigrationKey(n)]
    /\ \A n \in Node : (Known(n) /\ driven[n] # NoRatio) => target[ActionKey(n)] = driven[n]
    /\ OwnActionsRemembered

(* A series in the order of time. *)
Sorted(s) == \A i, j \in 1..Len(s) : i <= j => s[i] <= s[j]

(* A price comes with the series it ends, from a provider that has one;    *)
(* a scripted price is of this very moment.                                *)
Ends(q) == Len(q.history) > 0 /\ Sorted(q.history) /\ q.history[Len(q.history)] = q.spot
Sound(q) ==
    q.spot # 0 => IF setting.scripted THEN q.history = <<>> /\ q.spot = clock ELSE Ends(q)

(* The controller's own series is in order and not from the future. *)
Own == \A k \in Key : /\ Sorted(priceHistory[k])
                      /\ \A i \in 1..Len(priceHistory[k]) : priceHistory[k][i] <= clock

HistoryInv ==
    /\ pc = "ondemand" => ~setting.scripted /\ Ends(quote)
    /\ \A k \in Key : Sound(prices[k])
    /\ pc \in {"ondemand", "decide"} => Sound(quote)
    /\ \A m \in Market : cache[m].updated # Never => Ends(cache[m])
    /\ Own
    /\ HistoryCurrent

-----------------------------------------------------------------------------
(* Within a cycle the groups stay what they are. *)
LEMMA TickFrame ==
    ASSUME UNCHANGED <<setting, report, listed>>
    PROVE  /\ Groups(report, listed)' = Groups(report, listed)
           /\ \A g : Dominant(g)' = Dominant(g)
           /\ \A g, n : About(g, n)' = About(g, n)
           /\ \A t : SupportsInstanceType(t)' <=> SupportsInstanceType(t)
           /\ \A n : Outcast(n)' <=> Outcast(n)
           /\ \A n, m : Alike(n, m)' <=> Alike(n, m)
<1>1. \A i : RatioKey(i)' = RatioKey(i)
  BY DEF RatioKey, GroupKey, Unknown, Id, ControllerPoolID
<1>2. \A k : With(k, report, listed)' = With(k, report, listed)
  BY <1>1 DEF With, Info
<1>3. Groups(report, listed)' = Groups(report, listed)
  BY <1>1, <1>2 DEF Groups, Info
<1>4. \A g : Dominant(g)' = Dominant(g)
  BY DEF Dominant, Info
<1>5. \A g, n : About(g, n)' = About(g, n)
  BY <1>1 DEF About, Info, Unknown, Id, ControllerPoolID
<1>6. \A t : SupportsInstanceType(t)' <=> SupportsInstanceType(t)
  BY DEF SupportsInstanceType
<1>7. \A n : Outcast(n)' <=> Outcast(n)
  BY <1>1, <1>2, <1>4, <1>6 DEF Outcast, Info
<1>8. \A n, m : Alike(n, m)' <=> Alike(n, m)
  BY <1>1 DEF Alike, Info
<1>. QED BY <1>3, <1>4, <1>5, <1>6, <1>7, <1>8

(* A step within the cycle that decides nothing. *)
LEMMA VerdictsKept ==
    ASSUME VerdictInv, UNCHANGED <<setting, report, listed, verdict>>, todo' \subseteq todo,
           pc' \notin {"idle", "execute"}, pc' \in Busy => pc \in Busy /\ cur' = cur
    PROVE  VerdictInv'
<1>1. GroupsInv'
  BY TickFrame DEF VerdictInv, GroupsInv
<1>. QED BY <1>1, TickFrame DEF VerdictInv

(* A group holds the nodes that are like any of its nodes. *)
LEMMA GroupIsWhole ==
    ASSUME setting.poolLevel, NEW g \in Groups(report, listed), NEW n \in g
    PROVE  /\ g = With(RatioKey(Info(n, listed)), report, listed)
           /\ \A m \in DOMAIN report : Alike(n, m) => m \in g
<1>1. PICK k : g = With(k, report, listed)
  BY DEF Groups
<1>2. k = RatioKey(Info(n, listed))
  BY <1>1 DEF With
<1>. QED BY <1>1, <1>2 DEF With, Alike

(* A decision about the group in hand. *)
LEMMA VerdictGiven ==
    ASSUME Inv, VerdictInv, pc \in Busy, Drop, NEW a, verdict' = Decided(a), setting' = setting,
           a = "exit" => ~SupportsInstanceType(cur.type)
    PROVE  VerdictInv'
<1>0. /\ UNCHANGED <<setting, report, listed, todo>> /\ pc' = "groups"
      /\ DOMAIN report \subseteq Node
  BY DEF Drop, tickVars, Inv, GroupInv
<1>1. GroupsInv'
  BY <1>0, TickFrame DEF VerdictInv, GroupsInv, Busy
<1>2. PICK m \in Dominant(cur.who) : cur = About(cur.who, m)
  BY DEF VerdictInv, GroupsInv
<1>3. cur.type = Info(m, listed).type /\ m \in cur.who /\ cur.who \in Groups(report, listed)
  BY <1>2 DEF About, Dominant, VerdictInv, GroupsInv
<1>4. \A n \in DOMAIN report : verdict'[n] = IF n \in cur.who THEN a ELSE verdict[n]
  BY <1>0 DEF Decided
<1>5. ASSUME NEW n \in DOMAIN report, verdict'[n] = "exit" PROVE Outcast(n)
  <2>1. CASE n \notin cur.who
    BY <1>4, <1>5, <2>1 DEF VerdictInv
  <2>2. CASE n \in cur.who /\ setting.poolLevel
    <3>1. cur.who = With(RatioKey(Info(n, listed)), report, listed)
      BY <1>3, <2>2, GroupIsWhole
    <3>2. ~SupportsInstanceType(Info(m, listed).type)
      BY <1>3, <1>4, <1>5, <2>2
    <3>. QED BY <1>2, <2>2, <3>1, <3>2 DEF Outcast
  <2>3. CASE n \in cur.who /\ ~setting.poolLevel
    <3>1. m = n
      BY <1>3, <2>3 DEF Groups
    <3>. QED BY <1>3, <1>4, <1>5, <2>3, <3>1 DEF Outcast
  <2>. QED BY <2>1, <2>2, <2>3
<1>6. ASSUME setting.poolLevel, NEW n \in DOMAIN report, NEW k \in DOMAIN report, Alike(n, k)
      PROVE  verdict'[n] = verdict'[k]
  <2>1. n \in cur.who <=> k \in cur.who
    BY <1>3, <1>6, GroupIsWhole DEF Alike
  <2>. QED BY <1>4, <1>6, <2>1 DEF VerdictInv
<1>. QED BY <1>0, <1>1, <1>5, <1>6, TickFrame DEF VerdictInv

LEMMA StepVerdict ==
    ASSUME Inv, VerdictInv, [Next]_vars
    PROVE  VerdictInv'
<1>1. ASSUME NEW r \in setting.reports, NEW ok \in BOOLEAN, BeginTick(r, ok) PROVE VerdictInv'
  <2>1. /\ pc = "idle" /\ pc' = "groups" /\ verdict' = Nobody /\ setting' = setting
        /\ report' = r /\ listed' = ok /\ DOMAIN r \subseteq Node
    <3>1. r \in Reports
      BY InferenceAssumption DEF Inv, TypeOK, Scenario
    <3>. QED BY <1>1, <3>1, InferenceAssumption DEF BeginTick, VerdictInv
  <2>2. \A n \in DOMAIN r : verdict'[n] = "none"
    BY <2>1 DEF Nobody
  <2>3. Groups(report, listed)' = Groups(r, ok)
    BY <2>1 DEF Groups, With, RatioKey, GroupKey, Unknown, Id, ControllerPoolID, Info
  <2>4. GroupsInv'
    BY <1>1, <2>1, <2>3 DEF GroupsInv, BeginTick, Busy
  <2>. QED BY <2>1, <2>2, <2>4 DEF VerdictInv
<1>2. ASSUME NEW g \in todo, NEW n \in Dominant(g), Take(g, n) PROVE VerdictInv'
  <2>1. /\ UNCHANGED <<setting, report, listed, verdict>> /\ todo' \subseteq todo /\ pc' = "scope"
        /\ cur' = About(g, n)
    BY <1>2 DEF Take, memoryVars, tickVars
  <2>2. cur'.who = g
    BY <2>1 DEF About
  <2>3. GroupsInv'
    BY <2>1, <2>2, TickFrame DEF VerdictInv, GroupsInv, Busy
  <2>. QED BY <2>1, <2>3, TickFrame DEF VerdictInv
<1>3. CASE PassOver \/ NoPrice
  <2>1. /\ UNCHANGED <<setting, report, listed, verdict, todo>> /\ pc' = "groups"
    BY <1>3 DEF PassOver, NoPrice, Drop, memoryVars, tickVars
  <2>. QED BY <2>1, VerdictsKept DEF Busy
<1>4. CASE ForceExit
  BY <1>4, VerdictGiven DEF ForceExit, Busy, memoryVars
<1>5. CASE Decide
  <2>1. PICK a \in {"none", "hold", "move"} : verdict' = Decided(a)
    BY <1>5 DEF Decide
  <2>. QED BY <1>5, <2>1, VerdictGiven DEF Decide, Busy
<1>6. ASSUME NEW q, Answer(q), pc \in Busy PROVE VerdictInv'
  BY <1>6, VerdictsKept DEF Answer, Busy, memoryVars, tickVars
<1>7. CASE CycleHit \/ ClientHit \/ Scripted
  BY <1>6, <1>7 DEF CycleHit, ClientHit, Scripted, Lookup, Busy
<1>8. CASE DescribeSpotPriceHistory
  <2>1. CASE Fail
    BY <1>6, <1>8, <2>1 DEF Fail, DescribeSpotPriceHistory, Lookup, Busy
  <2>2. CASE ~Fail
    <3>1. /\ UNCHANGED <<setting, report, listed, verdict, todo, cur>> /\ pc' = "ondemand"
          /\ pc = "scope"
      BY <1>8, <2>2 DEF DescribeSpotPriceHistory, Lookup, memoryVars, tickVars
    <3>. QED BY <3>1, VerdictsKept DEF Busy
  <2>. QED BY <2>1, <2>2
<1>9. CASE GetOnDemandPrice
  BY <1>6, <1>9 DEF GetOnDemandPrice, Store, Fail, Busy
<1>10. CASE Assess
  <2>1. /\ UNCHANGED <<setting, report, listed, verdict, todo>> /\ pc' = "execute"
        /\ DOMAIN report \subseteq Node
    BY <1>10 DEF Assess, memoryVars, tickVars, Inv, GroupInv
  <2>2. GroupsInv'
    BY <2>1, TickFrame DEF VerdictInv, GroupsInv, Busy
  <2>3. \A n \in Node : HandBack(n)' = HandBack(n)
    BY <2>1, TickFrame DEF HandBack, Direct, Info
  <2>4. \A n \in DOMAIN report :
            assessed'[n] = IF setting.poolLevel THEN HandBack(n) ELSE verdict[n]
    BY <1>10, <2>1 DEF Assess
  <2>. QED BY <2>1, <2>2, <2>3, <2>4, TickFrame DEF VerdictInv
<1>11. CASE \/ \E n \in Node, r \in Ratios, noted \in BOOLEAN : Execute(n, r, noted)
            \/ UNCHANGED vars
  <2>1. UNCHANGED <<setting, report, listed, verdict, todo, pc, cur, assessed>>
    BY <1>11 DEF Execute, vars, memoryVars, tickVars
  <2>2. GroupsInv'
    BY <2>1, TickFrame DEF VerdictInv, GroupsInv
  <2>3. \A n \in Node : HandBack(n)' = HandBack(n)
    BY <2>1, TickFrame DEF HandBack, Direct, Info
  <2>4. DOMAIN report \subseteq Node
    BY DEF Inv, GroupInv
  <2>. QED BY <2>1, <2>2, <2>3, <2>4, TickFrame DEF VerdictInv
<1>12. CASE EndTick
  <2>1. pc' = "idle" /\ report' = <<>> /\ verdict' = Nobody /\ todo' = todo /\ pc = "execute"
    BY <1>12 DEF EndTick
  <2>2. DOMAIN report' = {} /\ todo' = {}
    BY <2>1 DEF Inv, GroupInv
  <2>. QED BY <2>1, <2>2 DEF VerdictInv, GroupsInv, Busy
<1>13. CASE Elapse
  <2>1. /\ UNCHANGED <<setting, report, listed, verdict, todo, pc, cur>> /\ pc = "idle"
    BY <1>13 DEF Elapse, memoryVars, tickVars
  <2>2. GroupsInv'
    BY <2>1, TickFrame DEF VerdictInv, GroupsInv, Busy
  <2>. QED BY <2>1, <2>2, TickFrame DEF VerdictInv
<1>. QED
  BY <1>1, <1>2, <1>3, <1>4, <1>5, <1>7, <1>8, <1>9, <1>10, <1>11, <1>12, <1>13 DEF Next

-----------------------------------------------------------------------------
(* For a node with a type and a zone, executeAction's key is the one its   *)
(* decisions use, and tells it from the nodes of other pools.              *)
LEMMA KnownKeys ==
    ASSUME NEW n \in Node, NEW m \in Node, setting \in Scenarios, Known(m)
    PROVE  /\ RawInfo(m) = Info(m, TRUE) /\ ~Unknown(Info(m, TRUE))
           /\ MigrationKey(m) = <<Info(m, TRUE).type, Info(m, TRUE).zone>>
           /\ ActionKey(m) = ActionKey(n) <=> SamePool(m, n)
<1>0. setting.extended \in BOOLEAN
  BY InferenceAssumption DEF Scenario
<1>1. /\ Labels[m].type \notin {"", Absent} /\ Labels[m].zone \notin {"", Absent}
  BY DEF Known
<1>2. RawInfo(m) = Info(m, TRUE) /\ ~Unknown(Info(m, TRUE))
      /\ MigrationKey(m) = <<Info(m, TRUE).type, Info(m, TRUE).zone>>
  BY <1>1 DEF RawInfo, Raw, Info, OrUnknown, Unknown, MigrationKey, PoolID
<1>. DEFINE t == Labels[m].type  z == Labels[m].zone  p == Labels[m].pool
            u == Raw(Labels[n].type)  y == Raw(Labels[n].zone)  q == Labels[n].pool
<1>3. (t = u <=> t = Labels[n].type) /\ (z = y <=> z = Labels[n].zone)
  BY <1>1 DEF Raw
<1>4. /\ ActionKey(m) = IF setting.extended /\ p # NoPool THEN <<p, t, z>> ELSE <<t, z>>
      /\ ActionKey(n) = IF setting.extended /\ q # NoPool THEN <<q, u, y>> ELSE <<u, y>>
  BY <1>1 DEF ActionKey, Id, RawInfo, ControllerPoolID, Raw
<1>5. SamePool(m, n) <=> t = u /\ z = y /\ (setting.extended => p = q)
  BY <1>3 DEF SamePool
<1>. HIDE DEF t, z, p, u, y, q
<1>6. ActionKey(m) = ActionKey(n) <=> SamePool(m, n)
  <2>1. CASE setting.extended = FALSE
    BY <1>4, <1>5, <2>1
  <2>2. CASE setting.extended = TRUE
    <3>1. \A a, b, c, d, e : <<a, b, c>> # <<d, e>>
      OBVIOUS
    <3>. QED BY <1>4, <1>5, <2>2, <3>1
  <2>. QED BY <1>0, <2>1, <2>2
<1>. QED BY <1>2, <1>6

(* A decision finds what actions left. *)
LEMMA FeaturesRemember ==
    ASSUME Inv, VerdictInv, MemoryInv, pc = "decide",
           NEW n \in cur.who, Known(n)
    PROVE  /\ ~setting.poolLevel /\ driven[n] # NoRatio => target[cur.key] = driven[n]
           /\ ~setting.extended /\ Cardinality(cur.who) = 1 => lastMigration[cur.id] = drained[n]
<1>1. PICK m \in Dominant(cur.who) : cur = About(cur.who, m)
  BY DEF VerdictInv, GroupsInv, Busy
<1>2. /\ cur.who \subseteq Node /\ m \in cur.who /\ setting \in Scenarios
      /\ cur.who \in Groups(report, listed)
  BY <1>1, InHand DEF Inv, TypeOK, Busy, VerdictInv, GroupsInv, Dominant
<1>3. listed = TRUE /\ ~Unknown(Info(m, TRUE))
  <2>1. ~Unknown(Info(m, listed))
    <3>1. cur.type = Info(m, listed).type /\ cur.zone = Info(m, listed).zone
      BY <1>1 DEF About
    <3>. QED BY <3>1 DEF MemoryInv, Unidentified, Unknown
  <2>2. listed \in BOOLEAN
    BY DEF Inv, TypeOK
  <2>. QED BY <2>1, <2>2 DEF Info, Unknown
<1>4. ASSUME m = n
      PROVE  /\ ~setting.poolLevel => cur.key = ActionKey(n)
             /\ ~setting.extended => cur.id = MigrationKey(n)
  <2>1. RawInfo(n) = Info(n, TRUE) /\ MigrationKey(n) = <<Info(n, TRUE).type, Info(n, TRUE).zone>>
    BY <1>2, KnownKeys
  <2>2. cur.key = RatioKey(Info(n, TRUE)) /\ cur.id = Id(Info(n, TRUE))
    <3>1. /\ cur.key = RatioKey(Info(m, listed))
          /\ cur.id = IF Unknown(Info(m, listed)) THEN <<"unknown", "unknown">>
                      ELSE Id(Info(m, listed))
      BY <1>1 DEF About
    <3>. QED BY <1>3, <1>4, <3>1
  <2>. QED BY <1>3, <1>4, <2>1, <2>2 DEF RatioKey, ActionKey, Id, ControllerPoolID
<1>5. ~setting.poolLevel => m = n
  BY <1>2 DEF Groups
<1>6. Cardinality(cur.who) = 1 => m = n
  <2>1. IsFiniteSet(cur.who)
    BY <1>2, InferenceAssumption, FS_Subset
  <2>. QED BY <1>2, <2>1, FS_Singleton
<1>. QED BY <1>2, <1>4, <1>5, <1>6 DEF MemoryInv

(* A step that forgets nothing: targets and times of drains are kept, and  *)
(* the last decision too or there is none.                                 *)
LEMMA MemoryKept ==
    ASSUME MemoryInv, UNCHANGED <<setting, target, lastMigration, driven, drained>>,
           state' = state \/ state' = NoState, pc' = "decide" => ~Unidentified'
    PROVE  MemoryInv'
<1>1. \A n \in Node : ActionKey(n)' = ActionKey(n)
  BY DEF ActionKey, Id, ControllerPoolID
<1>2. OwnActionsRemembered'
  <2>1. CASE state' = state
    BY <2>1 DEF MemoryInv, OwnActionsRemembered
  <2>2. CASE state' = NoState
    BY <2>2, Nothing DEF OwnActionsRemembered
  <2>. QED BY <2>1, <2>2
<1>. QED BY <1>1, <1>2 DEF MemoryInv

LEMMA StepMemory ==
    ASSUME Inv, VerdictInv, MemoryInv, [Next]_vars
    PROVE  MemoryInv'
<1>0. /\ target \in [Key -> Ratio] /\ driven \in [Node -> Ratio] /\ setting \in Scenarios
      /\ lastMigration \in [Key -> Time] /\ drained \in [Node -> Time]
  BY DEF Inv, TypeOK
<1>1. ASSUME NEW r \in setting.reports, NEW ok \in BOOLEAN, BeginTick(r, ok) PROVE MemoryInv'
  <2>1. /\ pc' = "groups" /\ UNCHANGED <<setting, lastMigration, driven, drained>>
        /\ state' = state /\ state = NoState
        /\ \A k \in Key : target[k] # NoRatio => target'[k] = target[k]
    BY <1>1 DEF BeginTick, Inv, GroupInv
  <2>2. OwnActionsRemembered'
    BY <2>1, Nothing DEF OwnActionsRemembered
  <2>3. \A n \in Node : ActionKey(n)' = ActionKey(n) /\ ActionKey(n) \in Key
    BY <1>0, <2>1, ActionKeys DEF ActionKey, Id, ControllerPoolID
  <2>. QED BY <2>1, <2>2, <2>3 DEF MemoryInv
<1>2. ASSUME NEW n \in Node, NEW r \in Ratios, NEW noted \in BOOLEAN, Execute(n, r, noted)
      PROVE  MemoryInv'
  <2>1. /\ pc' = "execute" /\ setting' = setting /\ state' = NoState
        /\ target' = [target EXCEPT ![ActionKey(n)] = r]
        /\ driven' = [m \in Node |-> IF SamePool(m, n) THEN r ELSE driven[m]]
    BY <1>2 DEF Execute, Inv, GroupInv
  <2>2. OwnActionsRemembered'
    BY <2>1, Nothing DEF OwnActionsRemembered
  <2>3. \A m \in Node : ActionKey(m)' = ActionKey(m) /\ ActionKey(m) \in Key
                        /\ MigrationKey(m) \in Key
    BY <1>0, <2>1, ActionKeys DEF ActionKey, Id, ControllerPoolID
  <2>4. ASSUME NEW m \in Node, Known(m), driven'[m] # NoRatio
        PROVE  target'[ActionKey(m)] = driven'[m]
    <3>1. ActionKey(m) = ActionKey(n) <=> SamePool(m, n)
      BY <1>0, <2>4, KnownKeys
    <3>2. CASE SamePool(m, n)
      BY <1>0, <2>1, <2>3, <3>1, <3>2
    <3>3. CASE ~SamePool(m, n)
      BY <1>0, <2>1, <2>3, <2>4, <3>1, <3>3 DEF MemoryInv
    <3>. QED BY <3>2, <3>3
  <2>5. \A m \in Node : drained'[m] = lastMigration'[MigrationKey(m)]
    <3>1. CASE noted = TRUE
      <4>1. /\ lastMigration' = [lastMigration EXCEPT ![MigrationKey(n)] = clock]
            /\ drained' = [m \in Node |-> IF MigrationKey(m) = MigrationKey(n) THEN clock
                                          ELSE drained[m]]
        BY <1>2, <3>1 DEF Execute
      <4>. QED BY <1>0, <2>3, <4>1 DEF MemoryInv
    <3>2. CASE noted = FALSE
      BY <1>2, <3>2 DEF Execute, MemoryInv
    <3>. QED BY <3>1, <3>2
  <2>. QED BY <2>1, <2>2, <2>3, <2>4, <2>5 DEF MemoryInv
<1>3. CASE Decide
  <2>1. /\ pc = "decide" /\ pc' = "groups" /\ state' = Features
        /\ UNCHANGED <<setting, target, lastMigration, driven, drained>>
    BY <1>3 DEF Decide, Drop
  <2>2. /\ state'.who = cur.who /\ state'.target = target[cur.key]
        /\ state'.since = lastMigration[cur.id]
    BY <2>1 DEF Features
  <2>3. OwnActionsRemembered'
    BY <2>1, <2>2, FeaturesRemember DEF OwnActionsRemembered, Known
  <2>4. \A n \in Node : ActionKey(n)' = ActionKey(n)
    BY <2>1 DEF ActionKey, Id, ControllerPoolID
  <2>. QED BY <2>1, <2>3, <2>4 DEF MemoryInv
<1>4. CASE \/ \E g \in todo : \E n \in Dominant(g) : Take(g, n)
           \/ PassOver \/ ForceExit \/ NoPrice \/ Assess \/ EndTick \/ Elapse \/ UNCHANGED vars
  <2>1. /\ UNCHANGED <<setting, target, lastMigration, driven, drained>>
        /\ state' = state \/ state' = NoState
        /\ pc' # "decide" \/ UNCHANGED <<pc, cur>>
    BY <1>4 DEF Take, PassOver, ForceExit, NoPrice, Drop, Assess, EndTick, Elapse, memoryVars, vars
  <2>. QED BY <2>1, MemoryKept DEF MemoryInv, Unidentified
<1>5. ASSUME ~Unidentified, NEW q, Answer(q) PROVE MemoryInv'
  BY <1>5, MemoryKept DEF Answer, memoryVars, Unidentified
<1>6. CASE CycleHit \/ ClientHit \/ Scripted
  BY <1>5, <1>6 DEF CycleHit, ClientHit, Scripted, Lookup
<1>7. CASE DescribeSpotPriceHistory
  <2>1. CASE Fail
    BY <1>5, <1>7, <2>1 DEF Fail, DescribeSpotPriceHistory, Lookup
  <2>2. CASE ~Fail
    BY <1>7, <2>2, MemoryKept DEF DescribeSpotPriceHistory, memoryVars
  <2>. QED BY <2>1, <2>2
<1>8. CASE GetOnDemandPrice
  <2>1. ~Unidentified
    BY <1>8 DEF GetOnDemandPrice, Inv, PriceInv
  <2>. QED BY <1>5, <1>8, <2>1 DEF GetOnDemandPrice, Store, Fail
<1>. QED BY <1>1, <1>2, <1>3, <1>4, <1>6, <1>7, <1>8 DEF Next

-----------------------------------------------------------------------------
(* The series: each step of its making keeps the order and the last price. *)
LEMMA LatestSorted ==
    ASSUME NEW s \in Seq(Nat), NEW k \in Nat \ {0}, Len(s) > 0, Sorted(s)
    PROVE  /\ Sorted(Latest(s, k)) /\ Len(Latest(s, k)) <= k
           /\ Len(s) >= k => Len(Latest(s, k)) = k
<1>1. CASE Len(s) > k
  <2>. DEFINE a == Len(s) - k
  <2>1. a \in Nat /\ a + k = Len(s)
    BY <1>1
  <2>. DEFINE u == SubSeq(s, a + 1, Len(s))
  <2>2. Latest(s, k) = u
    BY <1>1 DEF Latest
  <2>. HIDE DEF a
  <2>3. Len(u) = k
    BY <2>1
  <2>4. \A i \in 1..k : u[i] = s[a + i]
    BY <2>1
  <2>5. \A i \in 1..k : a + i \in 1..Len(s)
    BY <2>1
  <2>. HIDE DEF u
  <2>6. Sorted(u)
    <3>. SUFFICES ASSUME NEW i \in 1..k, NEW j \in 1..k, i <= j PROVE s[a + i] <= s[a + j]
      BY <2>3, <2>4 DEF Sorted
    <3>. QED BY <2>1, <2>5 DEF Sorted
  <2>. QED BY <2>2, <2>3, <2>6
<1>2. CASE ~(Len(s) > k)
  BY <1>2 DEF Latest
<1>. QED BY <1>1, <1>2

LEMMA Concat ==
    ASSUME NEW s \in Seq(Nat), NEW t \in Seq(Nat)
    PROVE  /\ Len(s \o t) = Len(s) + Len(t)
           /\ \A i \in 1..(Len(s) + Len(t)) :
                 (s \o t)[i] = IF i <= Len(s) THEN s[i] ELSE t[i - Len(s)]
OBVIOUS

(* What the price client makes of a listing from the newest price back. *)
LEMMA BuildSorted ==
    ASSUME NEW q \in Seq(Nat), Len(q) > 0, \A i, j \in 1..Len(q) : i <= j => q[j] <= q[i]
    PROVE  Sorted(BuildPriceHistory(q))
<1>. DEFINE p == Reverse(q)
<1>0. HistorySteps \in Nat \ {0}
  BY PriceHistoryAssumption
<1>1. p \in Seq(Nat) /\ Len(p) = Len(q) /\ \A i \in 1..Len(q) : p[i] = q[Len(q) - i + 1]
  BY DEF Reverse
<1>2. Sorted(p)
  <2>. SUFFICES ASSUME NEW i \in 1..Len(q), NEW j \in 1..Len(q), i <= j PROVE p[i] <= p[j]
    BY <1>1 DEF Sorted
  <2>. DEFINE a == Len(q) - i + 1  b == Len(q) - j + 1
  <2>1. a \in 1..Len(q) /\ b \in 1..Len(q) /\ b <= a
    OBVIOUS
  <2>2. p[i] = q[a] /\ p[j] = q[b]
    BY <1>1
  <2>. HIDE DEF a, b, p
  <2>. QED BY <2>1, <2>2
<1>. HIDE DEF p
<1>3. CASE Len(p) < HistorySteps
  <2>. DEFINE d == HistorySteps - Len(p)  pad == [i \in 1..d |-> p[1]]  w == pad \o p
  <2>1. d \in Nat /\ p[1] \in Nat
    BY <1>0, <1>1, <1>3
  <2>2. BuildPriceHistory(q) = w
    BY <1>3 DEF BuildPriceHistory, p
  <2>. HIDE DEF d
  <2>3. pad \in Seq(Nat) /\ Len(pad) = d /\ \A i \in 1..d : pad[i] = p[1]
    BY <2>1
  <2>. HIDE DEF pad
  <2>4. /\ Len(w) = d + Len(p)
        /\ \A i \in 1..Len(w) : w[i] = IF i <= d THEN p[1] ELSE p[i - d]
    <3>1. /\ Len(w) = d + Len(p)
          /\ \A i \in 1..(d + Len(p)) : w[i] = IF i <= d THEN pad[i] ELSE p[i - d]
      BY <1>1, <2>3, Concat
    <3>2. d + Len(p) \in Nat /\ d \in Nat
      BY <1>1, <2>1
    <3>. HIDE DEF w
    <3>. QED BY <2>3, <3>1, <3>2
  <2>. HIDE DEF w
  <2>5. ASSUME NEW i \in 1..Len(w), NEW j \in 1..Len(w), i <= j PROVE w[i] <= w[j]
    <3>0. Len(p) \in Nat /\ Len(p) > 0
      BY <1>1
    <3>1. CASE j <= d
      BY <2>1, <2>4, <2>5, <3>1
    <3>2. CASE j > d /\ i <= d
      <4>1. j - d \in 1..Len(p) /\ 1 \in 1..Len(p)
        BY <2>1, <2>4, <3>0, <3>2
      <4>2. p[1] <= p[j - d]
        BY <1>2, <4>1 DEF Sorted
      <4>3. w[i] = p[1] /\ w[j] = p[j - d]
        BY <2>1, <2>4, <3>2
      <4>. QED BY <4>2, <4>3
    <3>3. CASE i > d
      <4>1. i - d \in 1..Len(p) /\ j - d \in 1..Len(p) /\ i - d <= j - d
        BY <2>1, <2>4, <2>5, <3>0, <3>3
      <4>2. p[i - d] <= p[j - d]
        BY <1>2, <4>1 DEF Sorted
      <4>3. w[i] = p[i - d] /\ w[j] = p[j - d]
        BY <2>1, <2>4, <2>5, <3>3
      <4>. QED BY <4>2, <4>3
    <3>. QED BY <2>1, <3>1, <3>2, <3>3
  <2>. QED BY <2>2, <2>5 DEF Sorted
<1>4. CASE ~(Len(p) < HistorySteps)
  <2>1. BuildPriceHistory(q) = Latest(p, HistorySteps)
    BY <1>4 DEF BuildPriceHistory, p
  <2>. QED BY <1>0, <1>1, <1>2, <2>1, LatestSorted
<1>. QED BY <1>3, <1>4

(* normalizePriceHistory. *)
LEMMA NormalizeSorted ==
    ASSUME NEW s \in Seq(Nat), Len(s) > 0, Sorted(s), NEW c \in Nat, s[Len(s)] = c
    PROVE  LET h == NormalizePriceHistory(s, c)
           IN  /\ h \in Seq(Nat) /\ Len(h) \in 1..TFTHistorySteps
               /\ Sorted(h) /\ h[Len(h)] = c
<1>. DEFINE T == TFTHistorySteps
<1>0. T \in Nat \ {0} /\ s # <<>>
  BY PriceHistoryAssumption
<1>1. CASE Len(s) >= 2 * T
  <2>. DEFINE r == Latest(s, 2 * T)  h == [i \in 1..T |-> r[2 * i]]
  <2>1. 2 * T \in Nat \ {0}
    BY <1>0
  <2>2. r \in Seq(Nat) /\ Len(r) = 2 * T /\ Sorted(r) /\ r[2 * T] = c
    <3>. DEFINE K == 2 * T
    <3>1. K \in Nat \ {0} /\ Len(s) >= K /\ r = Latest(s, K)
      BY <1>1, <2>1
    <3>. HIDE DEF K, r
    <3>2. r \in Seq(Nat) /\ Len(r) = K /\ Sorted(r) /\ r[K] = c
      BY <3>1, LatestType, LatestSorted
    <3>. QED BY <3>2 DEF K
  <2>3. NormalizePriceHistory(s, c) = h
    BY <1>0, <1>1 DEF NormalizePriceHistory
  <2>. HIDE DEF r, T
  <2>4. \A i \in 1..T : 2 * i \in 1..Len(r)
    BY <1>0, <2>2
  <2>5. h \in Seq(Nat) /\ Len(h) = T /\ \A i \in 1..T : h[i] = r[2 * i]
    BY <1>0, <2>2, <2>4
  <2>6. Sorted(h)
    <3>. HIDE DEF h
    <3>. SUFFICES ASSUME NEW i \in 1..T, NEW j \in 1..T, i <= j PROVE r[2 * i] <= r[2 * j]
      BY <2>5 DEF Sorted
    <3>. QED BY <2>2, <2>4 DEF Sorted
  <2>7. h[T] = c /\ T \in 1..TFTHistorySteps
    BY <1>0, <2>2, <2>5 DEF T
  <2>. HIDE DEF h
  <2>. QED BY <2>3, <2>5, <2>6, <2>7
<1>2. CASE ~(Len(s) >= 2 * T)
  <2>1. NormalizePriceHistory(s, c) = Latest(s, T)
    BY <1>0, <1>2 DEF NormalizePriceHistory
  <2>2. /\ Latest(s, T) \in Seq(Nat) /\ Len(Latest(s, T)) > 0 /\ Len(Latest(s, T)) <= T
        /\ Sorted(Latest(s, T)) /\ Latest(s, T)[Len(Latest(s, T))] = c
    BY <1>0, LatestType, LatestSorted
  <2>. QED BY <2>1, <2>2
<1>. QED BY <1>1, <1>2

(* BuildTFTInput. *)
LEMMA InputRows ==
    ASSUME NEW h \in Seq(Nat), Len(h) \in 1..TFTHistorySteps, Sorted(h),
           NEW c \in Nat, h[Len(h)] = c
    PROVE  LET b == BuildTFTInput(h, c)
           IN  /\ Len(b) = TFTHistorySteps /\ b[Len(b)] = c
               /\ \A i \in 1..(Len(b) - 1) : b[i] <= b[i + 1] \/ b[i] = c
<1>. DEFINE T == TFTHistorySteps  d == T - Len(h)  pad == [i \in 1..d |-> c]  b == pad \o h
<1>0. T \in Nat \ {0} /\ Len(h) \in Nat /\ Len(h) > 0 /\ d \in Nat /\ d + Len(h) = T
  BY PriceHistoryAssumption
<1>1. BuildTFTInput(h, c) = b
  <2>1. Latest(h, TFTHistorySteps) = h
    BY <1>0 DEF Latest
  <2>. QED BY <2>1 DEF BuildTFTInput
<1>. HIDE DEF d
<1>2. pad \in Seq(Nat) /\ Len(pad) = d /\ \A i \in 1..d : pad[i] = c
  BY <1>0
<1>. HIDE DEF pad, T
<1>3. Len(b) = T /\ \A i \in 1..T : b[i] = IF i <= d THEN c ELSE h[i - d]
  BY <1>0, <1>2
<1>. HIDE DEF b
<1>4. b[T] = c
  BY <1>0, <1>3
<1>5. ASSUME NEW i \in 1..(T - 1), b[i] # c PROVE b[i] <= b[i + 1]
  <2>1. i > d /\ i - d \in 1..Len(h) /\ (i + 1) - d \in 1..Len(h) /\ i \in 1..T /\ i + 1 \in 1..T
    BY <1>0, <1>3, <1>5
  <2>2. b[i] = h[i - d] /\ b[i + 1] = h[(i + 1) - d]
    BY <1>0, <1>3, <2>1
  <2>3. h[i - d] <= h[(i + 1) - d]
    BY <1>0, <2>1 DEF Sorted
  <2>. QED BY <2>2, <2>3
<1>. QED BY <1>1, <1>3, <1>4, <1>5 DEF T

(* The series of a decision is in order and ends with its price. *)
LEMMA SeriesSound ==
    ASSUME Inv, HistoryInv, pc = "decide", quote.spot > 0
    PROVE  /\ Series \in Seq(Nat) /\ Len(Series) > 0 /\ Sorted(Series)
           /\ Series[Len(Series)] = quote.spot
           /\ quote.history = <<>> => quote.spot = clock
<1>0. /\ quote.spot \in Nat /\ quote.history \in Seq(Nat) /\ cur.id \in Key
      /\ priceHistory[cur.id] \in Seq(Nat) /\ clock \in Nat
  BY InHand DEF Inv, TypeOK, Time, Busy
<1>1. Sound(quote) /\ quote.spot # 0
  BY <1>0 DEF HistoryInv
<1>2. CASE quote.history # <<>>
  <2>1. Ends(quote) /\ Series = quote.history
    BY <1>1, <1>2 DEF Sound, Series
  <2>. QED BY <1>0, <1>2, <2>1 DEF Ends
<1>3. CASE quote.history = <<>>
  <2>1. quote.spot = clock
    <3>1. CASE setting.scripted
      BY <1>1, <3>1 DEF Sound
    <3>2. CASE ~setting.scripted
      <4>1. Len(quote.history) > 0
        BY <1>1, <3>2 DEF Sound, Ends
      <4>. QED BY <1>3, <4>1
    <3>. QED BY <3>1, <3>2
  <2>. DEFINE s == priceHistory[cur.id]  a == Append(s, quote.spot)
  <2>2. /\ Sorted(s) /\ s \in Seq(Nat) /\ \A i \in 1..Len(s) : s[i] <= quote.spot
    BY <1>0, <2>1 DEF HistoryInv, Own
  <2>3. Series = Latest(a, 2 * TFTHistorySteps)
    BY <1>3 DEF Series, Remember
  <2>. HIDE DEF s
  <2>4. /\ a \in Seq(Nat) /\ Len(a) = Len(s) + 1 /\ a[Len(a)] = quote.spot
        /\ \A i \in 1..Len(s) : a[i] = s[i]
    BY <1>0, <2>2
  <2>. HIDE DEF a
  <2>5. Sorted(a)
    <3>. SUFFICES ASSUME NEW i \in 1..Len(a), NEW j \in 1..Len(a), i <= j PROVE a[i] <= a[j]
      BY DEF Sorted
    <3>0. Len(s) \in Nat
      BY <2>2
    <3>1. CASE j <= Len(s)
      <4>1. i \in 1..Len(s) /\ j \in 1..Len(s)
        BY <3>0, <3>1
      <4>2. s[i] <= s[j]
        BY <2>2, <4>1 DEF Sorted
      <4>. QED BY <2>4, <4>1, <4>2
    <3>2. CASE j = Len(a) /\ i <= Len(s)
      <4>1. i \in 1..Len(s) /\ a[i] = s[i] /\ a[j] = quote.spot
        BY <2>4, <3>0, <3>2
      <4>. QED BY <2>2, <4>1
    <3>3. CASE i = Len(a) /\ j = Len(a)
      BY <1>0, <2>4, <3>3
    <3>. QED BY <2>4, <3>0, <3>1, <3>2, <3>3
  <2>6. 2 * TFTHistorySteps \in Nat \ {0}
    BY PriceHistoryAssumption
  <2>7. Len(a) > 0
    BY <2>2, <2>4
  <2>. DEFINE K == 2 * TFTHistorySteps
  <2>8. Series = Latest(a, K) /\ K \in Nat \ {0}
    BY <2>3, <2>6
  <2>. HIDE DEF K
  <2>9. /\ Latest(a, K) \in Seq(Nat) /\ Len(Latest(a, K)) > 0 /\ Sorted(Latest(a, K))
        /\ Latest(a, K)[Len(Latest(a, K))] = quote.spot
    BY <2>4, <2>5, <2>7, <2>8, LatestType, LatestSorted
  <2>. QED BY <2>1, <2>8, <2>9
<1>. QED BY <1>2, <1>3

(* Time passes within a cycle only where prices are not scripted. *)
LEMMA StaysSound ==
    ASSUME setting' = setting, ~setting.scripted \/ clock' = clock
    PROVE  \A q : Sound(q) => Sound(q)'
BY DEF Sound, Ends, Sorted

LEMMA StaysCurrent ==
    ASSUME HistoryCurrent, state' = state \/ state' = NoState
    PROVE  HistoryCurrent'
BY Nothing DEF HistoryCurrent

LEMMA OwnKept ==
    ASSUME Inv, Own, priceHistory' = priceHistory, clock' \in Nat, clock <= clock'
    PROVE  Own'
<1>1. \A k \in Key : \A i \in 1..Len(priceHistory[k]) : priceHistory[k][i] \in Nat
  BY DEF Inv, TypeOK, Time
<1>2. clock \in Nat
  BY DEF Inv, TypeOK, Time
<1>3. \A k \in Key : Sorted(priceHistory[k])'
  BY DEF Own, Sorted
<1>4. ASSUME NEW k \in Key, NEW i \in 1..Len(priceHistory[k])
      PROVE  priceHistory[k][i] <= clock'
  BY <1>1, <1>2 DEF Own
<1>. QED BY <1>3, <1>4 DEF Own

(* An answer that is sound, with a cache that is. *)
LEMMA HistoryAnswer ==
    ASSUME Inv, HistoryInv, pc \in Busy, ~Unidentified, NEW q, Answer(q), Sound(q),
           ~setting.scripted \/ clock' = clock, clock' \in Nat, clock <= clock',
           \A m \in Market : cache'[m].updated # Never => Ends(cache'[m])
    PROVE  HistoryInv'
<1>0. pc' = "decide" /\ quote' = q /\ UNCHANGED <<setting, priceHistory, state>>
  BY DEF Answer, memoryVars
<1>1. \A k \in Key : prices'[k] = prices[k] \/ prices'[k] = q
  <2>1. prices \in [Key -> [spot : Time, history : Seq(Time)]] /\ PriceKey \in Key
    BY InHand DEF Inv, TypeOK
  <2>2. prices' = prices \/ prices' = [prices EXCEPT ![PriceKey] = q]
    BY DEF Answer
  <2>. QED BY <2>1, <2>2, Zenon
<1>2. \A k \in Key : Sound(prices[k])'
  <2>1. \A k \in Key : Sound(prices[k])
    BY DEF HistoryInv
  <2>. SUFFICES ASSUME NEW k \in Key PROVE Sound(prices[k])'
    OBVIOUS
  <2>2. Sound(prices[k]) /\ Sound(q)
    BY <2>1
  <2>. QED BY <1>0, <1>1, <2>2 DEF Sound, Ends, Sorted
<1>3. Sound(quote)'
  BY <1>0 DEF Sound, Ends, Sorted
<1>4. Own'
  BY <1>0, OwnKept DEF HistoryInv
<1>5. HistoryCurrent'
  BY <1>0, StaysCurrent DEF HistoryInv
<1>6. \A m \in Market : (cache[m].updated # Never => Ends(cache[m]))'
  BY DEF Ends, Sorted
<1>. QED BY <1>0, <1>2, <1>3, <1>4, <1>5, <1>6 DEF HistoryInv

LEMMA HistoryDecide ==
    ASSUME Inv, HistoryInv, Decide
    PROVE  HistoryInv'
<1>0. /\ pc = "decide" /\ quote.spot > 0 /\ pc' = "groups" /\ state' = Features
      /\ UNCHANGED <<setting, clock, cache, prices>>
  BY DEF Decide, Drop, marketVars
<1>1. /\ Series \in Seq(Nat) /\ Len(Series) > 0 /\ Sorted(Series)
      /\ Series[Len(Series)] = quote.spot
      /\ quote.history = <<>> => quote.spot = clock
  BY <1>0, SeriesSound
<1>2. quote.spot \in Nat /\ cur.id \in Key /\ clock \in Nat
  BY <1>0, InHand DEF Inv, TypeOK, Time, Busy
<1>3. HistoryCurrent'
  <2>. DEFINE h == NormalizePriceHistory(Series, quote.spot)  b == BuildTFTInput(h, quote.spot)
  <2>1. /\ h \in Seq(Nat) /\ Len(h) \in 1..TFTHistorySteps
        /\ Sorted(h) /\ h[Len(h)] = quote.spot
    BY <1>1, <1>2, NormalizeSorted
  <2>2. state'.spot = quote.spot /\ state'.history = b
    BY <1>0 DEF Features
  <2>. HIDE DEF h
  <2>3. /\ Len(b) = TFTHistorySteps /\ b[Len(b)] = quote.spot
        /\ \A i \in 1..(Len(b) - 1) : b[i] <= b[i + 1] \/ b[i] = quote.spot
    BY <1>2, <2>1, InputRows
  <2>. HIDE DEF b
  <2>. QED BY <2>2, <2>3 DEF HistoryCurrent
<1>4. Own'
  <2>1. CASE quote.history # <<>>
    <3>1. priceHistory' = priceHistory
      BY <2>1 DEF Decide
    <3>. QED BY <1>0, <1>2, <3>1, OwnKept DEF HistoryInv
  <2>2. CASE quote.history = <<>>
    <3>1. priceHistory' = [priceHistory EXCEPT ![cur.id] = Series]
      BY <2>2 DEF Decide
    <3>2. \A k \in Key : priceHistory'[k] = IF k = cur.id THEN Series ELSE priceHistory[k]
      BY <1>2, <3>1 DEF Inv, TypeOK
    <3>3. \A i \in 1..Len(Series) : Series[i] <= clock
      <4>1. Len(Series) \in 1..Len(Series)
        BY <1>1
      <4>. QED BY <1>1, <2>2, <4>1 DEF Sorted
    <3>4. \A k \in Key : priceHistory'[k] = Series \/ priceHistory'[k] = priceHistory[k]
      BY <3>2
    <3>5. ASSUME NEW k \in Key
          PROVE  /\ Sorted(priceHistory[k])'
                 /\ \A i \in 1..Len(priceHistory'[k]) : priceHistory'[k][i] <= clock'
      <4>1. CASE priceHistory'[k] = Series
        BY <1>0, <1>1, <3>3, <4>1 DEF Sorted
      <4>2. CASE priceHistory'[k] = priceHistory[k]
        BY <1>0, <4>2 DEF HistoryInv, Own, Sorted
      <4>. QED BY <3>4, <4>1, <4>2
    <3>. QED BY <3>5 DEF Own
  <2>. QED BY <2>1, <2>2
<1>5. \A k \in Key : Sound(prices[k])'
  BY <1>0 DEF HistoryInv, Sound, Ends, Sorted
<1>6. \A m \in Market : (cache[m].updated # Never => Ends(cache[m]))'
  BY <1>0 DEF HistoryInv, Ends, Sorted
<1>. QED BY <1>0, <1>3, <1>4, <1>5, <1>6 DEF HistoryInv

(* A step that asks for no price. *)
LEMMA HistoryKept ==
    ASSUME Inv, HistoryInv, UNCHANGED <<setting, clock, cache, prices, priceHistory>>,
           state' = state \/ state' = NoState,
           pc' \notin {"ondemand", "decide"} \/ UNCHANGED <<pc, quote>>
    PROVE  HistoryInv'
<1>1. Own'
  BY OwnKept DEF HistoryInv, Inv, TypeOK, Time
<1>2. HistoryCurrent'
  BY StaysCurrent DEF HistoryInv
<1>3. \A k \in Key : Sound(prices[k])'
  BY DEF HistoryInv, Sound, Ends, Sorted
<1>4. \A m \in Market : (cache[m].updated # Never => Ends(cache[m]))'
  BY DEF HistoryInv, Ends, Sorted
<1>5. /\ pc' \in {"ondemand", "decide"} => Sound(quote)'
      /\ pc' = "ondemand" => Ends(quote)'
  BY DEF HistoryInv, Sound, Ends, Sorted
<1>. QED BY <1>1, <1>2, <1>3, <1>4, <1>5 DEF HistoryInv

LEMMA StepHistory ==
    ASSUME Inv, HistoryInv, [Next]_vars
    PROVE  HistoryInv'
<1>0. clock \in Nat /\ MaxLatency \in Nat
  BY InferenceAssumption DEF Inv, TypeOK, Time
<1>n. Sound(NoQuote)
  BY Nothing DEF Sound
<1>e. \A m \in Market : cache[m].updated # Never => Ends(cache[m])
  BY DEF HistoryInv
<1>1. CASE \/ \E r \in setting.reports, ok \in BOOLEAN : BeginTick(r, ok)
           \/ \E g \in todo : \E n \in Dominant(g) : Take(g, n)
           \/ PassOver \/ ForceExit \/ NoPrice \/ Assess
           \/ \E n \in Node, r \in Ratios, noted \in BOOLEAN : Execute(n, r, noted)
           \/ UNCHANGED vars
  <2>1. /\ UNCHANGED <<setting, clock, cache, prices, priceHistory>>
        /\ state' = state \/ state' = NoState
        /\ pc' \notin {"ondemand", "decide"} \/ UNCHANGED <<pc, quote>>
    BY <1>1 DEF BeginTick, Take, PassOver, ForceExit, NoPrice, Drop, Assess, Execute, marketVars,
                memoryVars, vars
  <2>. QED BY <2>1, HistoryKept
<1>2. CASE Decide
  BY <1>2, HistoryDecide
<1>3. CASE CycleHit
  <2>1. /\ pc \in Busy /\ ~Unidentified /\ clock' = clock /\ cache' = cache
        /\ Answer(prices[PriceKey])
    BY <1>3 DEF CycleHit, Lookup, Busy, marketVars
  <2>2. Sound(prices[PriceKey])
    BY <2>1, InHand DEF HistoryInv
  <2>3. PICK q : q = prices[PriceKey]
    OBVIOUS
  <2>4. Answer(q) /\ Sound(q)
    BY <2>1, <2>2, <2>3
  <2>. QED BY <1>0, <1>e, <2>1, <2>4, HistoryAnswer
<1>4. CASE ClientHit
  <2>1. /\ pc \in Busy /\ ~Unidentified /\ clock' = clock /\ cache' = cache
        /\ ~setting.scripted /\ cache[At].updated # Never
        /\ Answer([spot |-> cache[At].spot, history |-> cache[At].history])
    BY <1>4 DEF ClientHit, Lookup, Busy, marketVars, Fresh
  <2>2. PICK q : q = [spot |-> cache[At].spot, history |-> cache[At].history]
    OBVIOUS
  <2>3. Ends(cache[At])
    BY <1>e, <2>1, InHand
  <2>4. q.spot = cache[At].spot /\ q.history = cache[At].history
    BY <2>2
  <2>5. Sound(q)
    BY <2>1, <2>3, <2>4 DEF Sound, Ends
  <2>6. Answer(q)
    BY <2>1, <2>2
  <2>. QED BY <1>0, <1>e, <2>1, <2>5, <2>6, HistoryAnswer
<1>5. CASE Scripted
  <2>1. /\ pc \in Busy /\ ~Unidentified /\ clock' = clock /\ cache' = cache /\ setting.scripted
    BY <1>5 DEF Scripted, Lookup, Busy, marketVars
  <2>2. PICK q \in {NoQuote, [spot |-> clock, history |-> <<>>]} : Answer(q)
    BY <1>5 DEF Scripted
  <2>3. Sound([spot |-> clock, history |-> <<>>])
    BY <2>1 DEF Sound
  <2>4. Sound(q)
    BY <1>n, <2>3
  <2>. QED BY <1>0, <1>e, <2>1, <2>2, <2>4, HistoryAnswer
<1>6. ASSUME NEW d \in 0..MaxLatency, Passes(d), Fail, pc \in Busy, ~Unidentified, ~setting.scripted
      PROVE  HistoryInv'
  <2>1. Answer(NoQuote) /\ cache' = cache /\ clock' = clock + d
    BY <1>6 DEF Fail, Passes
  <2>2. PICK q : q = NoQuote
    OBVIOUS
  <2>3. Answer(q) /\ Sound(q)
    BY <1>n, <2>1, <2>2
  <2>4. clock' \in Nat /\ clock <= clock'
    BY <1>0, <2>1
  <2>. QED BY <1>6, <1>e, <2>1, <2>3, <2>4, HistoryAnswer
<1>7. CASE DescribeSpotPriceHistory
  <2>0. pc \in Busy /\ ~Unidentified /\ ~setting.scripted
    BY <1>7 DEF DescribeSpotPriceHistory, Lookup, Busy
  <2>1. PICK d \in 0..MaxLatency : Passes(d)
    BY <1>7 DEF DescribeSpotPriceHistory
  <2>2. CASE Fail
    BY <1>6, <2>0, <2>1, <2>2
  <2>3. CASE ~Fail
    <3>1. /\ pc' = "ondemand" /\ UNCHANGED <<setting, priceHistory, cache, prices, state>>
      BY <1>7, <2>3 DEF DescribeSpotPriceHistory, memoryVars
    <3>2. PICK k \in 1..MaxResults :
              LET h == BuildPriceHistory(Listing(k))
              IN  quote' = [spot |-> h[Len(h)], history |-> h]
      BY <1>7, <2>3 DEF DescribeSpotPriceHistory
    <3>3. clock >= MaxResults /\ MaxResults \in Nat
      BY InferenceAssumption DEF Inv, PriceInv
    <3>4. /\ Listing(k) \in Seq(Nat) /\ Len(Listing(k)) > 0
          /\ \A i, j \in 1..Len(Listing(k)) : i <= j => Listing(k)[j] <= Listing(k)[i]
      BY <1>0, <3>3 DEF Listing
    <3>. DEFINE h == BuildPriceHistory(Listing(k))
    <3>5. h \in Seq(Nat) /\ Len(h) > 0 /\ Sorted(h)
      BY <3>4, BuildEndsWithNewest, BuildSorted
    <3>. HIDE DEF h
    <3>6. quote'.spot = h[Len(h)] /\ quote'.history = h
      BY <3>2 DEF h
    <3>7. Sound(quote)' /\ Ends(quote)'
      BY <2>0, <3>1, <3>5, <3>6 DEF Sound, Ends, Sorted
    <3>8. clock' \in Nat /\ clock <= clock'
      BY <1>0, <2>1 DEF Passes
    <3>9. Own' /\ HistoryCurrent'
      BY <3>1, <3>8, OwnKept, StaysCurrent DEF HistoryInv
    <3>10. \A x \in Key : Sound(prices[x])'
      BY <2>0, <3>1 DEF HistoryInv, Sound, Ends, Sorted
    <3>11. \A m \in Market : (cache[m].updated # Never => Ends(cache[m]))'
      BY <3>1 DEF HistoryInv, Ends, Sorted
    <3>. QED BY <2>0, <3>1, <3>7, <3>9, <3>10, <3>11 DEF HistoryInv
  <2>. QED BY <2>2, <2>3
<1>8. CASE GetOnDemandPrice
  <2>0. pc = "ondemand" /\ pc \in Busy /\ ~Unidentified /\ ~setting.scripted
    BY <1>8 DEF GetOnDemandPrice, Inv, PriceInv, HistoryInv, Busy
  <2>1. ASSUME NEW d \in 0..MaxLatency, Passes(d), Store PROVE HistoryInv'
    <3>1. Answer(quote) /\ clock' = clock + d
      BY <2>1 DEF Store, Passes
    <3>2. PICK q : q = quote
      OBVIOUS
    <3>3. Answer(q) /\ Sound(q)
      BY <2>0, <3>1, <3>2 DEF HistoryInv
    <3>4. clock' \in Nat /\ clock <= clock'
      BY <1>0, <3>1
    <3>. DEFINE e == [spot |-> quote.spot, history |-> quote.history, updated |-> clock']
    <3>6. Ends(e)
      BY <2>0 DEF HistoryInv, Ends
    <3>7. cache' = [cache EXCEPT ![At] = e] /\ At \in Market
      BY <2>0, <2>1, InHand DEF Store
    <3>. HIDE DEF e
    <3>8. \A m \in Market : cache'[m] = e \/ cache'[m] = cache[m]
      BY <3>7, Zenon DEF Inv, TypeOK
    <3>9. \A m \in Market : cache'[m].updated # Never => Ends(cache'[m])
      BY <1>e, <3>6, <3>8
    <3>. QED BY <2>0, <3>3, <3>4, <3>9, HistoryAnswer
  <2>2. 0 \in 0..MaxLatency
    BY <1>0
  <2>3. \E d \in 0..MaxLatency : Passes(d) /\ (Store \/ Fail)
    BY <1>8, <2>2 DEF GetOnDemandPrice
  <2>. QED BY <1>6, <2>0, <2>1, <2>3
<1>9. CASE EndTick
  <2>1. /\ pc' = "idle" /\ prices' = [k \in Key |-> NoQuote]
        /\ UNCHANGED <<setting, clock, cache, priceHistory, state>>
    BY <1>9 DEF EndTick, marketVars, memoryVars
  <2>2. \A k \in Key : Sound(prices[k])'
    BY <2>1, Nothing DEF Sound
  <2>3. Own' /\ HistoryCurrent'
    BY <1>0, <2>1, OwnKept, StaysCurrent DEF HistoryInv
  <2>4. \A m \in Market : (cache[m].updated # Never => Ends(cache[m]))'
    BY <2>1 DEF HistoryInv, Ends, Sorted
  <2>. QED BY <2>1, <2>2, <2>3, <2>4 DEF HistoryInv
<1>10. CASE Elapse
  <2>1. /\ pc = "idle" /\ pc' = pc /\ clock' = clock + 1
        /\ UNCHANGED <<setting, cache, priceHistory, prices, state>>
    BY <1>10 DEF Elapse, Passes, memoryVars
  <2>2. \A k \in Key : prices'[k].spot = 0
    BY <2>1, Nothing DEF Inv, GroupInv
  <2>3. \A k \in Key : Sound(prices[k])'
    BY <2>2 DEF Sound
  <2>4. clock' \in Nat /\ clock <= clock'
    BY <1>0, <2>1
  <2>5. Own' /\ HistoryCurrent'
    BY <2>1, <2>4, OwnKept, StaysCurrent DEF HistoryInv
  <2>6. \A m \in Market : (cache[m].updated # Never => Ends(cache[m]))'
    BY <2>1 DEF HistoryInv, Ends, Sorted
  <2>. QED BY <2>1, <2>3, <2>5, <2>6 DEF HistoryInv
<1>. QED
  BY <1>1, <1>2, <1>3, <1>4, <1>5, <1>7, <1>8, <1>9, <1>10 DEF Next

-----------------------------------------------------------------------------
LEMMA InitMore == Init => VerdictInv /\ MemoryInv /\ HistoryInv
<1>. SUFFICES ASSUME Init PROVE VerdictInv /\ MemoryInv /\ HistoryInv
  OBVIOUS
<1>0. /\ pc = "idle" /\ todo = {} /\ verdict = Nobody /\ state = NoState
      /\ prices = [k \in Key |-> NoQuote] /\ cache = [m \in Market |-> NoEntry]
      /\ priceHistory = [k \in Key |-> <<>>] /\ report = <<>> /\ setting \in Scenarios
      /\ driven = [n \in Node |-> NoRatio] /\ drained = [n \in Node |-> Never]
      /\ lastMigration = [k \in Key |-> Never]
  BY DEF Init
<1>1. VerdictInv
  <2>1. DOMAIN report = {}
    BY <1>0
  <2>. QED BY <1>0, <2>1 DEF VerdictInv, GroupsInv, Busy
<1>2. MemoryInv
  <2>1. OwnActionsRemembered
    BY <1>0, Nothing DEF OwnActionsRemembered
  <2>2. \A n \in Node : MigrationKey(n) \in Key
    BY <1>0, ActionKeys
  <2>. QED BY <1>0, <2>1, <2>2 DEF MemoryInv
<1>3. HistoryInv
  <2>1. HistoryCurrent
    BY <1>0, Nothing DEF HistoryCurrent
  <2>2. \A k \in Key : Sound(prices[k])
    BY <1>0, Nothing DEF Sound
  <2>3. \A m \in Market : cache[m].updated = Never
    BY <1>0, Nothing DEF Never
  <2>4. Own
    BY <1>0 DEF Own, Sorted
  <2>. QED BY <1>0, <2>1, <2>2, <2>3, <2>4 DEF HistoryInv
<1>. QED BY <1>1, <1>2, <1>3

(* The invariant holds in every behaviour. *)
THEOREM Invariance == Spec => []Inv
<1>1. Inv /\ [Next]_vars => Inv'
  <2>. SUFFICES ASSUME Inv, [Next]_vars PROVE Inv'
    OBVIOUS
  <2>1. ASSUME NEW r \in setting.reports, NEW ok \in BOOLEAN, BeginTick(r, ok) PROVE Inv'
    <3>1. r \in Reports
      BY InferenceAssumption DEF Inv, TypeOK, Scenario
    <3>. QED BY <2>1, <3>1, StepBeginTick
  <2>2. ASSUME NEW g \in todo, NEW n \in Dominant(g), Take(g, n) PROVE Inv'
    BY <2>2, StepTake
  <2>3. ASSUME NEW n \in Node, NEW r \in Ratios, NEW noted \in BOOLEAN, Execute(n, r, noted)
        PROVE  Inv'
    BY <2>3, StepExecute
  <2>. QED
    BY <2>1, <2>2, <2>3, StepLeave, StepHit, StepDescribe, StepOnDemand, StepDecide, StepAssess,
       StepEndTick, StepElapse, StepStutter
    DEF Next
<1>. QED BY InitInv, <1>1, PTL DEF Spec

(* Every behaviour of a cycle's inference keeps its state in its types.    *)
THEOREM TypeCorrect == Spec => []TypeOK
BY Invariance, PTL DEF Inv

(* However long calls take and however often they fail, no decision rests  *)
(* on a spot price that GetSpotPrice's cache should have let go before the *)
(* cycle began.                                                            *)
THEOREM DecisionsOnFreshPrices == Spec => []PricesFresh
<1>1. Inv => PricesFresh
  <2>. SUFFICES ASSUME Inv, state.spot # 0
                PROVE  state.at - state.spot < CacheTTL + 2 * MaxLatency + (state.at - begun)
    BY DEF PricesFresh
  <2>1. begun - state.spot < Slack
    BY DEF Inv, PriceInv, Recent
  <2>2. begun \in Nat /\ state.spot \in Nat /\ state.at \in Nat
    BY DEF Inv, TypeOK, Time
  <2>3. CacheTTL \in Nat /\ MaxLatency \in Nat
    BY InferenceAssumption
  <2>. QED BY <2>1, <2>2, <2>3 DEF Slack
<1>. QED BY Invariance, <1>1, PTL
(* What was decided, remembered and recorded is sound as well. *)
THEOREM InvarianceMore == Spec => [](VerdictInv /\ MemoryInv /\ HistoryInv)
<1>1. Inv /\ (VerdictInv /\ MemoryInv /\ HistoryInv) /\ [Next]_vars
         => (VerdictInv /\ MemoryInv /\ HistoryInv)'
  BY StepVerdict, StepMemory, StepHistory
<1>. QED BY Invariance, InitMore, <1>1, PTL DEF Spec

(* Whatever the reports and the order of the groups, pool-level inference  *)
(* hands nodes of one workload pool and zone the same action.              *)
THEOREM PoolsActAsOne == Spec => []CoherentActions
<1>1. Inv /\ VerdictInv => CoherentActions
  <2>. SUFFICES ASSUME Inv, VerdictInv, pc = "execute", setting.poolLevel,
                       NEW n \in DOMAIN report, NEW m \in DOMAIN report,
                       Labels[n].pool = Labels[m].pool, Labels[n].zone = Labels[m].zone,
                       SupportsInstanceType(Info(n, TRUE).type),
                       SupportsInstanceType(Info(m, TRUE).type),
                       report[n] # "other", report[m] # "other"
                PROVE  assessed[n] = assessed[m]
    BY DEF CoherentActions
  <2>1. assessed[n] = HandBack(n) /\ assessed[m] = HandBack(m)
    BY DEF VerdictInv
  <2>2. CASE ~listed
    BY <2>1, <2>2 DEF HandBack, Direct
  <2>3. CASE listed
    <3>1. Alike(n, m)
      BY <2>3 DEF Alike, Info, RatioKey, GroupKey
    <3>2. verdict[n] = verdict[m]
      BY <3>1 DEF VerdictInv
    <3>3. listed = TRUE
      BY <2>3 DEF Inv, TypeOK
    <3>. QED BY <2>1, <3>2, <3>3 DEF HandBack, Direct
  <2>. QED BY <2>2, <2>3
<1>. QED BY Invariance, InvarianceMore, <1>1, PTL

(* Nothing is forced off spot but what the contract's scope explains. *)
THEOREM NoStrayExit == Spec => []ExitsJustified
<1>1. Inv /\ VerdictInv => ExitsJustified
  <2>. SUFFICES ASSUME Inv, VerdictInv, pc = "execute",
                       NEW n \in DOMAIN report, assessed[n] = "exit",
                       SupportsInstanceType(Info(n, TRUE).type),
                       ~(~setting.poolLevel /\ ~listed)
                PROVE  /\ setting.poolLevel
                       /\ \E m \in Dominant(With(GroupKey(Info(n, TRUE)), report, TRUE)) :
                             ~SupportsInstanceType(Info(m, TRUE).type)
    BY DEF ExitsJustified
  <2>1. assessed[n] = IF setting.poolLevel THEN HandBack(n) ELSE verdict[n]
    BY DEF VerdictInv
  <2>2. listed = TRUE
    <3>1. setting.poolLevel => listed
      BY <2>1 DEF HandBack, Direct
    <3>. QED BY <3>1 DEF Inv, TypeOK
  <2>3. verdict[n] = "exit"
    BY <2>1, <2>2 DEF HandBack
  <2>4. Outcast(n)
    BY <2>3 DEF VerdictInv
  <2>. QED BY <2>2, <2>4 DEF Outcast, RatioKey
<1>. QED BY Invariance, InvarianceMore, <1>1, PTL

(* A decision in node mode sees the target that the last action on its     *)
(* pool left, and one about a single node with a simple pool id the time   *)
(* of the pool's last drain, whatever came between.  Pool-level targets    *)
(* and extended pool ids are outside of it.                                *)
THEOREM ActionsRemembered == Spec => []OwnActionsRemembered
<1>1. MemoryInv => OwnActionsRemembered
  BY DEF MemoryInv
<1>. QED BY InvarianceMore, <1>1, PTL

(* The forecast's rows end with the decision's price, in order of time,    *)
(* for series of any length and any number of steps.                       *)
THEOREM ForecastsOnCurrentPrices == Spec => []HistoryCurrent
<1>1. HistoryInv => HistoryCurrent
  BY DEF HistoryInv
<1>. QED BY InvarianceMore, <1>1, PTL
=============================================================================
