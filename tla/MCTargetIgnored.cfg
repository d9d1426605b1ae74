SPECIFICATION Spec
CONSTANTS
    n1 = n1
    n2 = n2
    n3 = n3
    n4 = n4
    Node = {n1, n2, n3, n4}
    Labels <- NodeLabels4
    NoPool = ""
    Reports <- SomeReports
    Scenarios <- PoolLevelOnly
    HistorySteps = 4
    TFTHistorySteps = 2
    CacheTTL = 2
    MaxLatency = 1
    MaxResults = 2
    Ratios = {20, 70}
INVARIANT ActionDrivenTarget
