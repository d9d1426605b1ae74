SPECIFICATION Spec
CONSTANTS
    s1 = s1
    s2 = s2
    d1 = d1
    far = far
    web1 = web1
    web2 = web2
    web3 = web3
    db = db
    agent = agent
    front = front
    store = store
    NoPDB = NoPDB
    Nowhere = Nowhere
    Node <- Nodes
    Labels <- NodeFacts
    PoolKey <- Web
    Pod <- Pods
    Facts <- PodFact
    PDB = {front, store}
    FirstPDB <- Budgets
    InitOn <- Start
    InitAllowed <- StartAllowed
    Allowance = {0, 3}
    Utils = {0, 120}
    Feature <- Features
    UnitFeature <- Features
    OODFeature <- Features
    DefaultRules <- Rules
    DefaultBuckets <- Buckets
    RawConfigs <- Files
    Signals <- Markets
    Shares <- Share
    MaxDrainPct = 20
    MaxCycles = 2
    MaxChurn = 2
INVARIANTS
    TypeOK
    SlackIsWorstCase
    GrowthIsSafe
PROPERTIES
    CapFollowsSafety
CHECK_DEADLOCK FALSE
