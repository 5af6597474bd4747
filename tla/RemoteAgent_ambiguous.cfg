SPECIFICATION Spec
CONSTANTS
    handler = handler
    scheduler = scheduler
    Revokes = {handler, scheduler}
    Configs <- MCTwoDatabases
    LocalProvider <- MCLocalProvider
    Wanted = "postgres"
    MaxFaults = 0
INVARIANTS RevokedMeansRemoved
CHECK_DEADLOCK FALSE
