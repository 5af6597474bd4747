SPECIFICATION FairSpec
CONSTANTS
    s1 = s1
    s2 = s2
    Sessions = {s1}
    Scheduler = Scheduler
    Roles <- MCRoles
    Resources <- MCResources
    Globs <- MCGlobs
    GlobMatches <- MCGlobMatches
    Users <- MCUsers
    RolesOf <- MCRolesOf
    Clients <- MCOwnClients
    UserOf <- MCOwnUserOf
    Policies <- MCPolicies
    Enabled <- MCEnabled
    ProviderOf <- MCProviderOf
    Requests <- MCRequests
    MaxTime = 3
    TicksPerSecond = 1
    RedisConfigured = TRUE
    FaultKinds = {}
    MaxFaults = 0
PROPERTIES ExpiryIsRecorded
