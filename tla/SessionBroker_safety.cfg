SPECIFICATION FairSpec
CONSTANTS
    s1 = s1
    s2 = s2
    Sessions = {s1}
    Scheduler = Scheduler
    Roles <- MCRoles
    Resources <- MCResources
    Globs <- MCGlobs
    GlobMatches <- MCGlobMatches
    Users <- MCUsers
    RolesOf <- MCRolesOf
    Clients <- MCClients
    UserOf <- MCUserOf
    Policies <- MCPolicies
    Enabled <- MCEnabled
    ProviderOf <- MCProviderOf
    Requests <- MCManyRequests
    MaxTime = 2
    TicksPerSecond = 2
    RedisConfigured = TRUE
    FaultKinds = {"store", "queue", "target", "lost", "cancel", "crash"}
    MaxFaults = 2
INVARIANTS TypeOK ClosedMeansGone AccessIsAllowed AuditTellsTruth
PROPERTIES OnlyEntitledEarly RevokedStands KeepsLedger NoneForgotten
