SPECIFICATION Spec
CONSTANTS
    n1 = n1
    n2 = n2
    p1 = p1
    p2 = p2
    NoPool = NoPool
    Node <- Nodes
    Pool = {p1}
    Labels <- TwinLabels
    ExtendedIDs = FALSE
    Assessment <- TwinAssessments
    Totals = {2}
    BudgetSpecs <- NoBudgets
    RiskThreshold = 80
    ConfidenceThreshold = 50
    MaxDrainPct = 100
    MinSpotRatio = 2
    MaxSpotRatio = 8
    SeedRatios = {5}
    KarpenterEnabled = FALSE
    ASGEnabled = TRUE
    ManagedPools = {p1}
    Modes = {"live"}
    InitLabels <- StartLabels
    InitDesired = 2
    MaxTicks = 1
    MaxChurn = 0
INVARIANTS
    ReplacementBeforeDrain
CHECK_DEADLOCK FALSE
