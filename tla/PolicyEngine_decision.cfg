SPECIFICATION MCFairSpec
CONSTANTS
    Roles <- MCRoles
    Resources <- MCResources
    Globs <- MCGlobs
    GlobMatches <- MCGlobMatches
    Tables <- MCTables
INVARIANTS TypeOK AnswerIsJustified
PROPERTIES Returns
CHECK_DEADLOCK FALSE
