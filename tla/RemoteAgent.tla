----------------------------- MODULE RemoteAgent -----------------------------
(***************************************************************************)
(* One session on a resource behind an agent: the calls of RemoteProvider  *)
(* (internal/provider/remote.go) and the handlers of agentServer           *)
(* (cmd/ephem-agent/main.go) that answer them over gRPC.                   *)
(*                                                                         *)
(* The handlers run on the agent's side.  A caller whose context ends gets *)
(* its error at once, while a handler that has begun goes on.  The agent   *)
(* finds the target by the name of a local provider alone, and takes the   *)
(* first of its resources that has it, in the order of a Go map.           *)
(***************************************************************************)
EXTENDS Naturals

CONSTANTS
    Configs,        \* the resources of agent_config.json
    LocalProvider,  \* resource -> its provider
    Wanted,         \* the provider named in the broker's configuration
    Revokes,        \* calls of RevokeSession for this session
    MaxFaults       \* bound: calls that fail, are lost or are given up

ASSUME AgentAssumption == /\ LocalProvider \in [Configs -> STRING]
                          /\ MaxFaults \in Nat

VARIABLES
    cred,       \* the credential at the target of each resource
    ipc,        \* where RemoteProvider.IssueSession is
    iserv,      \* where the agent's IssueSession is
    rpc,        \* where each RemoteProvider.RevokeSession is
    rserv,      \* where the agent's RevokeSession of each call is
    late,       \* a RevokeSession runs on the agent and nobody waits for it
    faults      \* failures so far

vars == <<cred, ipc, iserv, rpc, rserv, late, faults>>

Fault == faults < MaxFaults /\ faults' = faults + 1

\* The resources the lookup loop may stop at.
Matching == {c \in Configs : LocalProvider[c] = Wanted}

Init == /\ cred = [c \in Configs |-> "none"]
        /\ ipc = "dial"
        /\ iserv = "none"
        /\ rpc = [r \in Revokes |-> "idle"]
        /\ rserv = [r \in Revokes |-> "none"]
        /\ late = FALSE
        /\ faults = 0

-----------------------------------------------------------------------------
(***************************************************************************)
(* IssueSession.                                                           *)
(***************************************************************************)
DialIssue ==
    /\ ipc = "dial"
    /\ \/ ipc' = "waiting" /\ iserv' = "running" /\ UNCHANGED faults
       \/ Fault /\ ipc' = "error" /\ UNCHANGED iserv
    /\ UNCHANGED <<cred, rpc, rserv, late>>

Make(c) == cred' = [cred EXCEPT ![c] = "live"]

\* The local provider makes the credential or reports an error, which does
\* not say that nothing was made.
AgentIssue ==
    /\ iserv = "running"
    /\ \/ /\ Matching = {}
          /\ iserv' = "error" /\ UNCHANGED <<cred, faults>>
       \/ \E c \in Matching :
            \/ iserv' = "ok" /\ Make(c) /\ UNCHANGED faults
            \/ iserv' = "error" /\ Fault /\ (Make(c) \/ UNCHANGED cred)
    /\ UNCHANGED <<ipc, rpc, rserv, late>>

IssueAnswer ==
    /\ ipc = "waiting"
    /\ iserv \in {"ok", "error"}
    /\ ipc' = iserv
    /\ UNCHANGED <<cred, iserv, rpc, rserv, late, faults>>

\* The caller's context ends or the connection breaks.
IssueGivenUp ==
    /\ ipc = "waiting"
    /\ Fault
    /\ ipc' = "error"
    /\ UNCHANGED <<cred, iserv, rpc, rserv, late>>

-----------------------------------------------------------------------------
(***************************************************************************)
(* RevokeSession.                                                          *)
(***************************************************************************)
Gone(c) == [cred EXCEPT ![c] = IF @ = "live" THEN "removed" ELSE @]

StartRevoke(r) ==
    /\ ipc = "ok"
    /\ rpc[r] \in {"idle", "ok", "error"}
    /\ rpc' = [rpc EXCEPT ![r] = "dial"]
    /\ UNCHANGED <<cred, ipc, iserv, rserv, late, faults>>

DialRevoke(r) ==
    /\ rpc[r] = "dial"
    /\ \/ /\ rpc' = [rpc EXCEPT ![r] = "waiting"]
          /\ rserv' = [rserv EXCEPT ![r] = "running"]
          /\ UNCHANGED faults
       \/ /\ Fault
          /\ rpc' = [rpc EXCEPT ![r] = "error"]
          /\ UNCHANGED rserv
    /\ UNCHANGED <<cred, ipc, iserv, late>>

\* The local provider is asked to remove a user by name; that there is no
\* such user at the chosen target is no error.
AgentRevoke(r) ==
    /\ rserv[r] = "running"
    /\ \/ /\ Matching = {}
          /\ rserv' = [rserv EXCEPT ![r] = "error"]
          /\ UNCHANGED <<cred, faults>>
       \/ \E c \in Matching :
            \/ /\ cred' = Gone(c)
               /\ rserv' = [rserv EXCEPT ![r] = "ok"]
               /\ UNCHANGED faults
            \/ /\ Fault
               /\ cred' \in {cred, Gone(c)}
               /\ rserv' = [rserv EXCEPT ![r] = "error"]
    /\ UNCHANGED <<ipc, iserv, rpc, late>>

\* Mutant: Success is not looked at, only the error of the call.
RevokeAnswerUnchecked(r) ==
    /\ rpc[r] = "waiting"
    /\ rserv[r] \in {"ok", "error"}
    /\ rpc' = [rpc EXCEPT ![r] = "ok"]
    /\ rserv' = [rserv EXCEPT ![r] = "none"]
    /\ UNCHANGED <<cred, ipc, iserv, late, faults>>

\* Mutant: the answer is passed on as the agent words it.
RevokeAnswerRaw(r) ==
    /\ rpc[r] = "waiting"
    /\ rserv[r] \in {"ok", "error"}
    /\ rpc' = [rpc EXCEPT ![r] = IF rserv[r] = "ok" THEN "ok" ELSE "failed"]
    /\ rserv' = [rserv EXCEPT ![r] = "none"]
    /\ UNCHANGED <<cred, ipc, iserv, late, faults>>

\* An error of the agent comes back as Success = false, not as a gRPC error.
RevokeAnswer(r) ==
    /\ rpc[r] = "waiting"
    /\ rserv[r] \in {"ok", "error"}
    /\ rpc' = [rpc EXCEPT ![r] = rserv[r]]
    /\ rserv' = [rserv EXCEPT ![r] = "none"]
    /\ UNCHANGED <<cred, ipc, iserv, late, faults>>

\* The caller goes, and a handler that is still running is left alone.
RevokeGivenUp(r) ==
    /\ rpc[r] = "waiting"
    /\ Fault
    /\ rpc' = [rpc EXCEPT ![r] = "error"]
    /\ rserv' = [rserv EXCEPT ![r] = "none"]
    /\ late' = (late \/ rserv[r] = "running")
    /\ UNCHANGED <<cred, ipc, iserv>>

\* It removes the credential, or ends without having done so.
LateRevoke ==
    /\ late
    /\ \E c \in Matching : cred' \in {cred, Gone(c)}
    /\ late' \in BOOLEAN
    /\ UNCHANGED <<ipc, iserv, rpc, rserv, faults>>

-----------------------------------------------------------------------------
IssueStep == DialIssue \/ AgentIssue \/ IssueAnswer \/ IssueGivenUp

RevokeStep(r) == \/ StartRevoke(r) \/ DialRevoke(r) \/ AgentRevoke(r)
                 \/ RevokeAnswer(r) \/ RevokeGivenUp(r)

Next == IssueStep \/ LateRevoke \/ \E r \in Revokes : RevokeStep(r)

Spec == Init /\ [][Next]_vars

-----------------------------------------------------------------------------
(***************************************************************************)
(* Properties.                                                             *)
(***************************************************************************)

\* Every variable keeps its type.
TypeOK ==
    /\ cred \in [Configs -> {"none", "live", "removed"}]
    /\ ipc \in {"dial", "waiting", "ok", "error"}
    /\ iserv \in {"none", "running", "ok", "error"}
    /\ rpc \in [Revokes -> {"idle", "dial", "waiting", "ok", "error"}]
    /\ rserv \in [Revokes -> {"none", "running", "ok", "error"}]
    /\ late \in BOOLEAN
    /\ faults \in 0 .. MaxFaults

Live == \E c \in Configs : cred[c] = "live"

\* When an expired session is popped the agent removes its credential
\* (README.md:192): a revoke that answered without an error has left none at
\* any target of the agent.
RevokedMeansRemoved == \A r \in Revokes : rpc[r] = "ok" => ~Live

\* What the broker was told was issued exists until somebody revokes it.
IssuedMeansMade == (ipc = "ok" /\ \A r \in Revokes : rpc[r] = "idle") => Live

Cred == IF Live THEN "live"
        ELSE IF \E c \in Configs : cred[c] = "removed" THEN "removed" ELSE "none"

Contract == INSTANCE ProviderContract
              WITH cred <- Cred,
                   issue <- IF ipc \in {"ok", "error"} THEN ipc ELSE "running",
                   revoke <- [r \in Revokes |->
                                IF rpc[r] \in {"idle", "ok", "error"} THEN rpc[r]
                                ELSE "running"]

\* Calls over the wire, with all that is lost or comes too late, keep the
\* contract of a provider (when the lookup has one resource to find).
MeetsContract == Contract!Spec
=============================================================================
