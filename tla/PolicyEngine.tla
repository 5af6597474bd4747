---------------------------- MODULE PolicyEngine -----------------------------
(***************************************************************************)
(* One call of Engine.Evaluate (internal/policy/engine.go): the query over *)
(* the policies table, the scan of its rows in whatever order the database *)
(* delivers them, and the loop that matches them one at a time.            *)
(***************************************************************************)
EXTENDS PolicyRules, Sequences

CONSTANT Tables     \* the contents of the policies table considered

ASSUME TablesAssumption == Tables \subseteq SUBSET Rules

VARIABLES
    table,      \* the policies table
    call,       \* the arguments of Evaluate
    pc,         \* "query", "scan", "match" or "done"
    unread,     \* rows of the result not delivered yet
    policies,   \* the slice the loop walks
    i,          \* index of the row the loop is at
    hasAllow,
    result,     \* "none" until Evaluate returns
    failed      \* history: the connection was lost or the context ended
                \* before all rows had arrived

vars == <<table, call, pc, unread, policies, i, hasAllow, result, failed>>

Rows == RowsFor(table, call)

Init == /\ table \in Tables
        /\ call \in Calls
        /\ pc = "query"
        /\ unread = {}
        /\ policies = <<>>
        /\ i = 1
        /\ hasAllow = FALSE
        /\ result = "none"
        /\ failed = FALSE

Leave(answer) == /\ pc' = "done"
                 /\ result' = answer
                 /\ UNCHANGED <<table, call, unread, policies, i, hasAllow>>

Return(answer) == Leave(answer) /\ UNCHANGED failed

\* A failure of the store that Evaluate notices.
Breaks == Leave("error") /\ failed' = TRUE

\* A caller without roles is refused before the query.
NoRoles == pc = "query" /\ call.roles = {} /\ Return("deny")

\* Mutant: the JOIN with the caller's roles is dropped.
QueryAllRoles == /\ pc = "query"
                 /\ call.roles # {}
                 /\ pc' = "scan"
                 /\ unread' = table
                 /\ UNCHANGED <<table, call, policies, i, hasAllow, result, failed>>

Query == /\ pc = "query"
         /\ call.roles # {}
         /\ pc' = "scan"
         /\ unread' = Rows
         /\ UNCHANGED <<table, call, policies, i, hasAllow, result, failed>>

QueryFails == pc = "query" /\ call.roles # {} /\ Breaks

\* rows.Next and rows.Scan, one row at a time.
Scan == /\ pc = "scan"
        /\ \E r \in unread : /\ policies' = Append(policies, r)
                             /\ unread' = unread \ {r}
        /\ UNCHANGED <<table, call, pc, i, hasAllow, result, failed>>

\* The context ends after rows.Next has found a row: rows.Scan is refused, and
\* Evaluate with it, however many rows have arrived before.
ScanFails == pc = "scan" /\ unread # {} /\ Breaks

\* rows.Next returns FALSE at the end of the rows, and also when the read
\* fails: rows.Err is never asked, so the loop runs over what arrived.
ScanEnds == /\ pc = "scan"
            /\ failed' = (unread # {})
            /\ pc' = "match"
            /\ UNCHANGED <<table, call, unread, policies, i, hasAllow, result>>

\* Mutant: a DENY row is noted and the loop goes on.
MatchLastWins == /\ pc = "match"
                 /\ i <= Len(policies)
                 /\ \/ Exceeds(policies[i], call) /\ Return("error")
                    \/ /\ ~Exceeds(policies[i], call)
                       /\ hasAllow' = /\ ~Denies(policies[i], call)
                                      /\ hasAllow \/ Allows(policies[i], call)
                       /\ i' = i + 1
                       /\ UNCHANGED <<table, call, pc, unread, policies, result, failed>>

Match == /\ pc = "match"
         /\ i <= Len(policies)
         /\ LET p == policies[i] IN
              \/ Denies(p, call) /\ Return("deny")
              \/ Exceeds(p, call) /\ Return("error")
              \/ /\ ~Denies(p, call) /\ ~Exceeds(p, call)
                 /\ hasAllow' = (hasAllow \/ Allows(p, call))
                 /\ i' = i + 1
                 /\ UNCHANGED <<table, call, pc, unread, policies, result, failed>>

\* Mutant: the loop looks for one row more than there is.
LoopEndsLate == pc = "match" /\ i > Len(policies) + 1
                  /\ Return(IF hasAllow THEN "allow" ELSE "deny")

LoopEnds == /\ pc = "match"
            /\ i > Len(policies)
            /\ Return(IF hasAllow THEN "allow" ELSE "deny")

Next == \/ NoRoles \/ Query \/ QueryFails
        \/ Scan \/ ScanFails \/ ScanEnds \/ Match \/ LoopEnds

Spec == Init /\ [][Next]_vars

\* The handler's goroutine keeps running.
FairSpec == Spec /\ WF_vars(Next)

-----------------------------------------------------------------------------
(***************************************************************************)
(* Properties.                                                             *)
(***************************************************************************)

\* Every variable keeps the type the Go code gives it.
TypeOK == /\ table \in Tables
          /\ call \in Calls
          /\ pc \in {"query", "scan", "match", "done"}
          /\ unread \subseteq Rows
          /\ policies \in Seq(Rows)
          /\ i \in 1 .. Len(policies) + 1
          /\ hasAllow \in BOOLEAN
          /\ result \in {"none", "allow", "deny", "error"}
          /\ failed \in BOOLEAN

\* The answer does not depend on the order of the rows or on the point where
\* the loop stops early: it is one that the table justifies (allowed only if
\* some row allows, none denies, none is exceeded).  Only a failure of the store
\* makes it an error no row gives reason for, or an answer of the rows which
\* arrived, taken as a table.
AnswerIsJustified ==
    result # "none" =>
        IF failed THEN result \in {"error"} \union Outcomes(table \ unread, call)
                  ELSE result \in Outcomes(table, call)

\* Any matching DENY rule denies access (the comment at engine.go:67): a
\* call that some DENY row matches is not allowed.
DenyTakesPrecedence ==
    (\E r \in Rows : Denies(r, call)) => result # "allow"

\* Evaluate returns.
Returns == <>(result # "none")
=============================================================================
