SPECIFICATION Spec
CONSTANTS
    handler = handler
    scheduler = scheduler
    Revokes = {handler, scheduler}
    MaxBackends = 2
    MaxFaults = 2
    RepliesGetLost = TRUE
INVARIANTS TypeOK HandedOutWorks SurvivorsCameLate
PROPERTIES MeetsContract
CHECK_DEADLOCK FALSE
