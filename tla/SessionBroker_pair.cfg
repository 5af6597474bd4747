SPECIFICATION FairSpec
CONSTANTS
    s1 = s1
    s2 = s2
    Sessions = {s1, s2}
    Scheduler = Scheduler
    Roles <- MCRoles
    Resources <- MCResources
    Globs <- MCGlobs
    GlobMatches <- MCGlobMatches
    Users <- MCUsers
    RolesOf <- MCRolesOf
    Clients <- MCOwnClients
    UserOf <- MCOwnUserOf
    Policies <- MCPolicies
    Enabled <- MCEnabled
    ProviderOf <- MCProviderOf
    Requests <- MCOneRequest
    MaxTime = 1
    TicksPerSecond = 1
    RedisConfigured = TRUE
    FaultKinds = {"target", "queue"}
    MaxFaults = 1
INVARIANTS LiveIsTracked RevocationIsAudited
PROPERTIES NoneForgotten
