-------------------------- MODULE ProviderContract ---------------------------
(***************************************************************************)
(* What the broker takes for granted of a provider (the interface of       *)
(* internal/provider/provider.go) and one credential: IssueSession that    *)
(* answers without an error has made it; RevokeSession that answers        *)
(* without an error leaves it gone, for good, whoever removed it; after an *)
(* error either may or may not have happened, or happen later.             *)
(***************************************************************************)
CONSTANT Revokes    \* the calls of RevokeSession

VARIABLES
    cred,       \* "none", "live", "removed"
    issue,      \* "running", "ok", "error"
    revoke      \* for each call: "idle", "running", "ok", "error"

contractVars == <<cred, issue, revoke>>

Init == /\ cred = "none"
        /\ issue = "running"
        /\ revoke = [r \in Revokes |-> "idle"]

Make == /\ issue # "ok" /\ cred = "none"
        /\ cred' = "live"
        /\ issue' \in {issue, "error"}
        /\ UNCHANGED revoke

Undo == /\ issue # "ok" /\ cred = "live"
        /\ cred' = "removed"
        /\ issue' \in {issue, "error"}
        /\ UNCHANGED revoke

AnswerIssue == /\ issue = "running"
               /\ issue' \in (IF cred = "live" THEN {"ok", "error"} ELSE {"error"})
               /\ UNCHANGED <<cred, revoke>>

Start(r) == /\ issue = "ok" /\ revoke[r] # "running"
            /\ revoke' = [revoke EXCEPT ![r] = "running"]
            /\ UNCHANGED <<cred, issue>>

\* A call may take the credential away, and says "ok" only when it is gone.
Answer(r) == /\ revoke[r] = "running"
             /\ cred' \in {cred, "removed"}
             /\ \/ cred' # "live" /\ revoke' = [revoke EXCEPT ![r] = "ok"]
                \/ revoke' = [revoke EXCEPT ![r] = "error"]
             /\ UNCHANGED issue

\* The effect of a call that has not answered yet, or answered too early.
Act(r) == /\ revoke[r] \in {"running", "error"}
          /\ cred = "live"
          /\ cred' = "removed"
          /\ UNCHANGED <<issue, revoke>>

Next == \/ Make \/ Undo \/ AnswerIssue
        \/ \E r \in Revokes : Start(r) \/ Act(r) \/ Answer(r)

Spec == Init /\ [][Next]_contractVars
=============================================================================
