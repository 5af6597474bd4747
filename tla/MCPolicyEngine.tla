--------------------------- MODULE MCPolicyEngine ----------------------------
(***************************************************************************)
(* PolicyEngine for TLC: every table of at most three rows taken from six, *)
(* every set of two roles, two resources and two durations.                *)
(***************************************************************************)
EXTENDS PolicyEngine, FiniteSets

MCRoles == {"developer", "dba"}
MCResources == {"staging", "production"}
MCGlobs == {"*", "production", "[malformed"}
MCGlobMatches == [g \in MCGlobs |-> CASE g = "*" -> MCResources
                                      [] g = "production" -> {"production"}
                                      [] OTHER -> {}]

MCRows == {
    [role |-> "developer", glob |-> "*", effect |-> "ALLOW", maxDuration |-> {1}],
    [role |-> "developer", glob |-> "production", effect |-> "DENY", maxDuration |-> {}],
    [role |-> "dba", glob |-> "production", effect |-> "ALLOW", maxDuration |-> {}],
    [role |-> "dba", glob |-> "[malformed", effect |-> "DENY", maxDuration |-> {}],
    [role |-> "dba", glob |-> "*", effect |-> "ALLOW", maxDuration |-> {2}],
    [role |-> "dba", glob |-> "*", effect |-> "AUDIT", maxDuration |-> {}] }

MCTables == {t \in SUBSET MCRows : Cardinality(t) <= 3}

MCDurations == 1 .. 2

\* The calls TLC enumerates: PolicyEngine's Init over the small durations.
MCInit == /\ call \in [roles: SUBSET Roles, resource: Resources, duration: MCDurations]
          /\ Init

MCSpec == MCInit /\ [][Next]_vars

MCFairSpec == MCSpec /\ WF_vars(Next)
=============================================================================
