SPECIFICATION Spec
CONSTANTS
    n1 = n1
    n2 = n2
    p1 = p1
    p2 = p2
    NoPool = NoPool
    Node <- Nodes
    Pool = {p1, p2}
    Labels <- MixedLabels
    ExtendedIDs = FALSE
    Assessment <- CoreAssessments
    Totals = {2}
    BudgetSpecs <- SomeBudgets
    RiskThreshold = 80
    ConfidenceThreshold = 50
    MaxDrainPct = 100
    MinSpotRatio = 9
    MaxSpotRatio = 10
    SeedRatios = {10}
    KarpenterEnabled = TRUE
    ASGEnabled = TRUE
    ManagedPools = {p1, p2}
    Modes = {"live", "dry-run"}
    InitLabels <- StartLabels
    InitDesired = 2
    MaxTicks = 1
    MaxChurn = 1
INVARIANTS
    TypeOK
    DrainsWithinLimit
    EmergenciesFirst
    OnlyManagedDrained
    DrainDirection
    TerminatedWereEmptied
    CapacityAccounted
PROPERTIES
    UsesContract
CHECK_DEADLOCK FALSE
