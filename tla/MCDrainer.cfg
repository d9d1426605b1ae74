SPECIFICATION Spec
CONSTANTS
    web = web
    db = db
    agent = agent
    queued = queued
    Pod <- Pods
    Kind <- Kinds
    Budgeted = {web, db}
    MaxAllowed = 1
    InitHere = {web, db, agent}
    GracePeriod = TRUE
    Modes = {"live", "dry-run"}
    IgnoreDaemonSets = TRUE
    ForceDrain = FALSE
    MaxDrains = 2
    MaxChanges = 3
INVARIANTS
    TypeOK
    EvacuatedOnSuccess
    DryRunInert
    StraysWereRecreated
PROPERTIES
    DrainReturns
CHECK_DEADLOCK FALSE
