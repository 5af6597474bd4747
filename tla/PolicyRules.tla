----------------------------- MODULE PolicyRules -----------------------------
(***************************************************************************)
(* The rules of internal/policy/engine.go: what one policy row says of a   *)
(* request, and the answers the rows of a table may give to it.  Constant  *)
(* level only; PolicyEngine walks the rows, SessionBroker asks the         *)
(* question.                                                               *)
(*                                                                         *)
(* A row is [role, glob, effect, maxDuration].  maxDuration is the set of  *)
(* limits its conditions hold: {} when conditions is NULL, is not JSON,    *)
(* has no max_duration, or one that ParseDuration rejects, else {d}.       *)
(***************************************************************************)
EXTENDS Integers

CONSTANTS
    Roles,          \* the role names of the roles table
    Resources,      \* the resource names
    Globs,          \* the patterns used in policies.resource_glob
    GlobMatches     \* what filepath.Match accepts: glob -> set of resources

\* A malformed glob matches nothing: Evaluate skips the row.
ASSUME GlobsAssumption == GlobMatches \in [Globs -> SUBSET Resources]

Rules == [role: Roles, glob: Globs, effect: STRING, maxDuration: SUBSET Int]

\* A call of Evaluate.
Calls == [roles: SUBSET Roles, resource: Resources, duration: Int]

-----------------------------------------------------------------------------
\* The rows the query returns, in no particular order.
RowsFor(table, c) == {r \in table : r.role \in c.roles}

Matches(r, c) == c.resource \in GlobMatches[r.glob]

Denies(r, c) == Matches(r, c) /\ r.effect = "DENY"

\* An ALLOW row whose limit is shorter than the request is an error.
Exceeds(r, c) == /\ Matches(r, c)
                 /\ r.effect = "ALLOW"
                 /\ \E limit \in r.maxDuration : c.duration > limit

Allows(r, c) == Matches(r, c) /\ r.effect = "ALLOW" /\ ~Exceeds(r, c)

\* Every answer Evaluate may give to call c over the rows of a table: the
\* first row that denies or is exceeded decides, and the rows come in any
\* order.
Outcomes(table, c) ==
    LET rows     == RowsFor(table, c)
        denied   == \E r \in rows : Denies(r, c)
        exceeded == \E r \in rows : Exceeds(r, c)
        allowed  == \E r \in rows : Allows(r, c)
    IN  (IF denied THEN {"deny"} ELSE {})
          \union (IF exceeded THEN {"error"} ELSE {})
          \union (IF denied \/ exceeded THEN {}
                  ELSE IF allowed THEN {"allow"} ELSE {"deny"})
=============================================================================
