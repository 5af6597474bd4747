SPECIFICATION MCSpec
CONSTANTS
    Roles <- MCRoles
    Resources <- MCResources
    Globs <- MCGlobs
    GlobMatches <- MCGlobMatches
    Tables <- MCTables
INVARIANTS DenyTakesPrecedence
CHECK_DEADLOCK FALSE
