--------------------------- MODULE PostgresTarget ----------------------------
(***************************************************************************)
(* One temporary role on a PostgreSQL target, statement by statement:      *)
(* IssueSession creates and grants, RevokeSession terminates, drops what   *)
(* is owned and drops the role (internal/provider/postgres.go).  The       *)
(* handler and the scheduler may run RevokeSession for the same role at    *)
(* the same time, and the user of the role connects whenever the server    *)
(* lets him.                                                               *)
(*                                                                         *)
(* A statement is one step.  MaxFaults times in all it ends in an error,   *)
(* and when RepliesGetLost it may have been executed all the same.         *)
(***************************************************************************)
EXTENDS Naturals

CONSTANTS
    Revokes,            \* calls of RevokeSession for this role
    MaxBackends,        \* bound: connections the user opens at a time
    MaxFaults,          \* bound: statements that end in an error
    RepliesGetLost      \* may a statement that was executed end in an error?

ASSUME TargetAssumption == /\ MaxBackends \in Nat
                           /\ MaxFaults \in Nat
                           /\ RepliesGetLost \in BOOLEAN

VARIABLES
    role,       \* pg_roles: "none", "present", "dropped"
    grants,     \* the privileges the role holds
    lapsed,     \* VALID UNTIL has passed
    backends,   \* connections of the role in pg_stat_activity
    early,      \* history: how many of them were opened while no revoke stood
                \* between its first statement and its last
    ipc,        \* where IssueSession is
    rpc,        \* where each RevokeSession is
    faults      \* errors so far

vars == <<role, grants, lapsed, backends, early, ipc, rpc, faults>>

Privileges == {"connect", "usage", "select"}

Init == /\ role = "none"
        /\ grants = {}
        /\ lapsed = FALSE
        /\ backends = 0
        /\ early = 0
        /\ ipc = "create"
        /\ rpc = [r \in Revokes |-> "idle"]
        /\ faults = 0

Fine == UNCHANGED faults

Error == faults < MaxFaults /\ faults' = faults + 1

\* A statement that ends in an error leaves v as it was or, when the reply
\* was lost, as the statement would have left it.
After(v, effect) == IF RepliesGetLost THEN {v, effect} ELSE {v}

\* The server refuses to drop a role that still holds privileges; IF EXISTS
\* makes a role that is not there no error.
CanDrop == role # "present" \/ grants = {}

Dropped == IF role = "present" /\ CanDrop THEN "dropped" ELSE role

-----------------------------------------------------------------------------
(***************************************************************************)
(* IssueSession.                                                           *)
(***************************************************************************)
CreateRole ==
    /\ ipc = "create"
    /\ \/ Fine /\ role' = "present" /\ ipc' = "connect"
       \/ Error /\ role' \in After(role, "present") /\ ipc' = "error"
    /\ UNCHANGED <<grants, lapsed, backends, early, rpc>>

\* Mutant: the answer after the last GRANT is one no caller knows.
NextStepUnknown == [connect |-> "usage", usage |-> "select", select |-> "granted"]

NextStep == [connect |-> "usage", usage |-> "select", select |-> "ok"]

\* Mutant: the error of a GRANT is ignored.
GrantUnchecked(p) ==
    /\ ipc = p
    /\ \/ Fine /\ grants' = grants \union {p}
       \/ Error /\ grants' \in After(grants, grants \union {p})
    /\ ipc' = NextStep[p]
    /\ UNCHANGED <<role, lapsed, backends, early, rpc>>

\* GRANT CONNECT, then USAGE, then SELECT.
Grant(p) ==
    /\ ipc = p
    /\ \/ Fine /\ grants' = grants \union {p} /\ ipc' = NextStep[p]
       \/ Error /\ grants' \in After(grants, grants \union {p}) /\ ipc' = "cleanUp"
    /\ UNCHANGED <<role, lapsed, backends, early, rpc>>

\* DROP ROLE IF EXISTS after a GRANT that failed; its error is ignored.
CleanUp ==
    /\ ipc = "cleanUp"
    /\ \/ Fine /\ role' = Dropped
       \/ Error /\ role' \in After(role, Dropped)
    /\ ipc' = "error"
    /\ UNCHANGED <<grants, lapsed, backends, early, rpc>>

-----------------------------------------------------------------------------
(***************************************************************************)
(* RevokeSession, called when the session has a row.                       *)
(***************************************************************************)
GotoR(r, step) == rpc' = [rpc EXCEPT ![r] = step]

Revoke(r) ==
    /\ ipc = "ok"
    /\ rpc[r] \in {"idle", "ok", "error"}
    /\ GotoR(r, "terminate")
    /\ UNCHANGED <<role, grants, lapsed, backends, early, ipc, faults>>

\* Mutant: the query selects no connection.
TerminateNone(r) ==
    /\ rpc[r] = "terminate"
    /\ Fine
    /\ GotoR(r, "dropOwned")
    /\ UNCHANGED <<role, grants, lapsed, backends, early, ipc>>

\* pg_terminate_backend for every connection; its error is ignored.
Terminate(r) ==
    /\ rpc[r] = "terminate"
    /\ \/ Fine /\ backends' = 0
       \/ Error /\ backends' \in After(backends, 0)
    /\ early' = IF backends' = 0 THEN 0 ELSE early
    /\ GotoR(r, "dropOwned")
    /\ UNCHANGED <<role, grants, lapsed, ipc>>

\* DROP OWNED BY revokes every grant; its error is ignored.
DropOwned(r) ==
    /\ rpc[r] = "dropOwned"
    /\ \/ Fine /\ grants' = {}
       \/ Error /\ grants' \in After(grants, {})
    /\ GotoR(r, "dropRole")
    /\ UNCHANGED <<role, lapsed, backends, early, ipc>>

\* Mutant: the error of DROP ROLE is ignored, like the two before it.
DropRoleUnchecked(r) ==
    /\ rpc[r] = "dropRole"
    /\ \/ Fine /\ role' = Dropped
       \/ Error /\ role' \in After(role, Dropped)
    /\ GotoR(r, "ok")
    /\ UNCHANGED <<grants, lapsed, backends, early, ipc>>

DropRole(r) ==
    /\ rpc[r] = "dropRole"
    /\ \/ Fine /\ CanDrop /\ role' = Dropped /\ GotoR(r, "ok")
       \/ Fine /\ ~CanDrop /\ UNCHANGED role /\ GotoR(r, "error")
       \/ Error /\ role' \in After(role, Dropped) /\ GotoR(r, "error")
    /\ UNCHANGED <<grants, lapsed, backends, early, ipc>>

-----------------------------------------------------------------------------
(***************************************************************************)
(* The user of the role and the server's clock.                            *)
(***************************************************************************)
\* A revoke has terminated the connections and has yet to drop the role.
Between(r) == rpc[r] \in {"dropOwned", "dropRole"}

Connect == /\ ipc = "ok" /\ role = "present" /\ ~lapsed
           /\ backends < MaxBackends
           /\ backends' = backends + 1
           /\ early' = IF \A r \in Revokes : ~Between(r) THEN early + 1 ELSE early
           /\ UNCHANGED <<role, grants, lapsed, ipc, rpc, faults>>

Disconnect == /\ backends > 0
              /\ backends' = backends - 1
              /\ early' \in {early, early - 1} \cap 0 .. backends'
              /\ UNCHANGED <<role, grants, lapsed, ipc, rpc, faults>>

Lapse == /\ role = "present" /\ ~lapsed
         /\ lapsed' = TRUE
         /\ UNCHANGED <<role, grants, backends, early, ipc, rpc, faults>>

IssueStep == CreateRole \/ CleanUp \/ \E p \in Privileges : Grant(p)

RevokeStep(r) == Terminate(r) \/ DropOwned(r) \/ DropRole(r)

Next == \/ IssueStep
        \/ \E r \in Revokes : Revoke(r) \/ RevokeStep(r)
        \/ Connect \/ Disconnect \/ Lapse

Spec == Init /\ [][Next]_vars

-----------------------------------------------------------------------------
(***************************************************************************)
(* Properties.                                                             *)
(***************************************************************************)

\* Every variable keeps its type.
TypeOK ==
    /\ role \in {"none", "present", "dropped"}
    /\ grants \subseteq Privileges
    /\ lapsed \in BOOLEAN
    /\ backends \in 0 .. MaxBackends
    /\ early \in 0 .. backends
    /\ ipc \in {"create", "connect", "usage", "select", "cleanUp", "ok", "error"}
    /\ rpc \in [Revokes -> {"idle", "terminate", "dropOwned", "dropRole", "ok", "error"}]
    /\ faults \in 0 .. MaxFaults

\* A credential that was handed out works until a revoke has begun: the role
\* is there with every privilege.
HandedOutWorks ==
    (ipc = "ok" /\ \A r \in Revokes : rpc[r] = "idle")
        => role = "present" /\ grants = Privileges

\* A revoke that found nothing wrong leaves no role and no privilege behind,
\* although the errors of its first two statements are ignored and another
\* revoke of the same role may run between any two of its statements.
RevokedMeansDropped ==
    \A r \in Revokes : rpc[r] = "ok" => role = "dropped" /\ grants = {}

\* A connection outlives its role only if its user came back between the
\* pg_terminate_backend (postgres.go:178) and the DROP ROLE of a call, however
\* many calls interleave; or a statement has failed.
SurvivorsCameLate == role = "dropped" /\ faults = 0 => early = 0

\* The statements implement what the broker takes for granted.
Cred == CASE role = "none" -> "none" [] role = "present" -> "live" [] OTHER -> "removed"

Contract == INSTANCE ProviderContract
              WITH cred <- Cred,
                   issue <- IF ipc \in {"ok", "error"} THEN ipc ELSE "running",
                   revoke <- [r \in Revokes |->
                                IF rpc[r] \in {"idle", "ok", "error"} THEN rpc[r]
                                ELSE "running"]

\* Every behaviour of the statements, seen from the broker, is one the
\* provider contract allows.
MeetsContract == Contract!Spec
=============================================================================
