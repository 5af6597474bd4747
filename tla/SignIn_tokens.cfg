SPECIFICATION FairSpec
CONSTANTS
    tab1 = tab1
    tab2 = tab2
    terminal1 = terminal1
    ann = ann
    Visits = {tab1, tab2}
    Emails = {ann}
    Roles = {"guest", "developer"}
    DefaultRole = "guest"
    Fallback = "developer"
    Nobody = Nobody
    MaxFaults = 1
    MaxChanges = 1
    Terminals = {terminal1}
    Stale = Stale
    NoToken = NoToken
    Torn = Torn
    OidcEnabled = TRUE
INVARIANTS TypeOK SavedTokenIsOwn TokensAreEarned
PROPERTIES DefaultGivenOnce LoginEnds GetsIn
