SPECIFICATION Spec
CONSTANTS
    Feature <- Features
    UnitFeature <- Ratios
    OODFeature <- Ratios
    DefaultRules <- BuiltInRules
    DefaultBuckets <- BuiltInBuckets
    MaxNodes = 4
    OtherNodes = 4
    OtherSpot = 2
    MaxDrainPct = 25
    RiskThreshold = 80
    ConfidenceThreshold = 50
    RawConfigs <- ConfigFiles
    Signals <- AllSignals
INVARIANTS
    TypeOK
    RiskMonotone

    
    
