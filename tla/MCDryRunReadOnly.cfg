SPECIFICATION Spec
CONSTANTS
    n1 = n1
    n2 = n2
    p1 = p1
    p2 = p2
    NoPool = NoPool
    Node <- Nodes
    Pool = {p1}
    Labels <- TwinLabels
    ExtendedIDs = FALSE
    Assessment <- TwinAssessments
    Totals = {2}
    BudgetSpecs <- NoBudgets
    RiskThreshold = 80
    ConfidenceThreshold = 50
    MaxDrainPct = 100
    MinSpotRatio = 2
    MaxSpotRatio = 8
    SeedRatios = {5}
    KarpenterEnabled = TRUE
    ASGEnabled = TRUE
    ManagedPools = {p1}
    Modes = {"dry-run"}
    InitLabels <- StartLabels
    InitDesired = 2
    MaxTicks = 1
    MaxChurn = 1
PROPERTIES
    DryRunReadOnly
CHECK_DEADLOCK FALSE
