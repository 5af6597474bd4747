SPECIFICATION Spec
CONSTANTS
    handler = handler
    scheduler = scheduler
    Revokes = {handler, scheduler}
    Configs <- MCDefaultConfigs
    LocalProvider <- MCLocalProvider
    Wanted = "postgres"
    MaxFaults = 3
INVARIANTS TypeOK RevokedMeansRemoved
PROPERTIES MeetsContract
CHECK_DEADLOCK FALSE
