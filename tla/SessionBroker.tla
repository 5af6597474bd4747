---------------------------- MODULE SessionBroker ----------------------------
(***************************************************************************)
(* The life of a session in the broker: HandleRequestSession and           *)
(* HandleRevokeSession (internal/api/session.go), the expiry scheduler     *)
(* (internal/scheduler/scheduler.go) and its Redis queue (queue.go), over  *)
(* the sessions table, the audit log and the targets the providers act on. *)
(*                                                                         *)
(* Every call that leaves the process is a step of its own.  A step fails  *)
(* in the ways FaultKinds allows, MaxFaults times in all:                  *)
(*   "store"   the broker's database answers with an error;                *)
(*   "queue"   the Redis queue answers with an error;                      *)
(*   "target"  a provider fails and has changed nothing;                   *)
(*   "lost"    a provider reports an error, yet the target changes, at     *)
(*             once or later, when nobody waits for it any more (a lost    *)
(*             reply, a failed clean-up, a call given up);                 *)
(*   "cancel"  a context ends: the client of a request goes away, or the   *)
(*             30 seconds of a poll run out;                               *)
(*   "crash"   the process dies and is started again.                      *)
(* Faults a code path survives without leaving a trace are not steps.      *)
(***************************************************************************)
EXTENDS PolicyRules, FiniteSets

CONSTANTS
    Users,              \* subjects of the tokens
    RolesOf,            \* the roles a user's token carries
    Clients,            \* who calls the API to revoke, one call per session
    UserOf,             \* each client's token; a user may have many clients
    Sessions,           \* one session identifier for each access request
    Requests,           \* what a request may ask: [user, resource, duration]
    Policies,           \* the policies table
    Enabled,            \* the resources that are enabled
    ProviderOf,         \* resource -> provider
    TicksPerSecond,     \* resolution of time.Now against Unix seconds
    MaxTime,            \* bound: the clock stops here
    RedisConfigured,    \* REDIS_HOST is set
    Scheduler,          \* names the context of a poll
    FaultKinds,         \* which faults occur
    MaxFaults           \* bound: how many

Providers == {"postgres", "redis", "remote", "ssh"}

ASSUME BrokerAssumption ==
    /\ RolesOf \in [Users -> SUBSET Roles]
    /\ UserOf \in [Clients -> Users]
    /\ Requests \subseteq [user: Users, resource: Resources, duration: Int]
    /\ Policies \subseteq Rules
    /\ Enabled \subseteq Resources
    /\ ProviderOf \in [Resources -> Providers]
    /\ TicksPerSecond \in Nat \ {0}
    /\ MaxTime \in Nat
    /\ RedisConfigured \in BOOLEAN
    /\ FaultKinds \subseteq {"store", "queue", "target", "lost", "cancel", "crash"}
    /\ MaxFaults \in Nat

Revokers == Clients \X Sessions

VARIABLES
    now,        \* the clock, in ticks
    useRedis,   \* decided once, when the process starts
    req,        \* what each request asks for
    pc,         \* where HandleRequestSession is
    rpc,        \* where HandleRevokeSession is, for each client and session
    phase,      \* where the scheduler is
    sweep,      \* the poll's batch, and where the loop is with each session
    popped,     \* the identifiers the poll got from Redis
    cred,       \* the credential at the target: "none", "live", "removed"
    lateIssue,  \* the sessions whose failed issue may still reach the target
    lateRevoke, \* <<who, session>> of the failed revokes that still may
    expires,    \* IssueResponse.ExpiresAt
    status,     \* sessions.status, "NONE" without a row
    queue,      \* the sorted set session_revocation_queue
    audit,      \* audit_logs: <<session, action, result>>
    cancelled,  \* the contexts that have ended
    faults      \* faults so far

apiVars   == <<pc, rpc>>
pollVars  == <<phase, sweep, popped>>
targetVars == <<cred, lateIssue, lateRevoke>>
storeVars == <<status, queue, audit>>
vars == <<now, useRedis, req, pc, rpc, phase, sweep, popped, cred, lateIssue,
          lateRevoke, expires, status, queue, audit, cancelled, faults>>

-----------------------------------------------------------------------------
(***************************************************************************)
(* Time, providers and faults.                                             *)
(***************************************************************************)
Unix(t) == t \div TicksPerSecond

Provider(s) == ProviderOf[req[s].resource]

\* A certificate is signed in the process and cannot be taken back.
Local(s) == Provider(s) = "ssh"

\* int64(Duration.Seconds()) drops the fraction, towards zero.
Seconds(d) == IF d >= 0 THEN Unix(d) ELSE -Unix(-d)

\* The agent gets whole seconds and answers in whole seconds.
Expiry(s) ==
    IF Provider(s) = "remote"
    THEN Unix(now + Seconds(req[s].duration) * TicksPerSecond) * TicksPerSecond
    ELSE now + req[s].duration

Owner(s) == req[s].user

\* The check before a revoke.
Entitled(c, s) == UserOf[c] = Owner(s) \/ "admin" \in RolesOf[UserOf[c]]

CanFail(kind) == kind \in FaultKinds /\ faults < MaxFaults

Fault(kind) == CanFail(kind) /\ faults' = faults + 1

Works(ctx) == ctx \notin cancelled /\ UNCHANGED faults

Fails(kind, ctx) == \/ ctx \in cancelled /\ UNCHANGED faults
                    \/ Fault(kind)

\* Mutant: a target that cannot be reached counts as revoked.
RevokeUnchecked(s, ctx) ==
    /\ IF Local(s) THEN UNCHANGED <<cred, faults>>
       ELSE \/ Works(ctx) /\ cred' = [cred EXCEPT ![s] = "removed"]
            \/ Fails("target", ctx) /\ UNCHANGED cred
    /\ UNCHANGED <<lateIssue, lateRevoke>>

\* RevokeSession at the provider.  It is idempotent on every target and does
\* nothing at all for ssh, where it cannot fail either.
RevokeWorks(s, ctx) ==
    /\ IF Local(s) THEN UNCHANGED <<cred, faults>>
       ELSE Works(ctx) /\ cred' = [cred EXCEPT ![s] = "removed"]
    /\ UNCHANGED <<lateIssue, lateRevoke>>

RevokeFails(s, who, ctx) ==
    /\ ~Local(s)
    /\ \/ Fails("target", ctx) /\ UNCHANGED lateRevoke
       \/ Fails("lost", ctx) /\ lateRevoke' = lateRevoke \union {<<who, s>>}
    /\ UNCHANGED <<cred, lateIssue>>

\* Mutant: every audit row carries the action of the other handler.
AuditAsRequest(s, action, result, ctx) ==
    \/ Works(ctx) /\ audit' = audit \union {<<s, "request_session", result>>}
    \/ Fails("store", ctx) /\ UNCHANGED audit

\* INSERT INTO audit_logs; its error is ignored.
AuditAs(s, action, result, ctx) ==
    \/ Works(ctx) /\ audit' = audit \union {<<s, action, result>>}
    \/ Fails("store", ctx) /\ UNCHANGED audit

\* Mutant: a status no reader of the table knows.
SetUnknownStatus(s, st) == status' = [status EXCEPT ![s] = "CLOSED"]

\* A statement that sets the status of a row, when the driver accepts it.
SetStatus(s, st) == status' = [status EXCEPT ![s] = st]

\* A failed statement was executed or was not.
MaybeSetStatus(s, st) == SetStatus(s, st) \/ UNCHANGED status

-----------------------------------------------------------------------------
(***************************************************************************)
(* POST /v1/sessions/request.                                              *)
(***************************************************************************)
Goto(s, step) == pc' = [pc EXCEPT ![s] = step]

\* The arguments of Evaluate.
Asked(s) == [roles |-> RolesOf[Owner(s)], resource |-> req[s].resource,
             duration |-> req[s].duration]

\* What Evaluate answers: over all the rows, or over those that arrived
\* before the read failed.
Answers(s, rows) == Outcomes(rows, Asked(s))

\* Mutant: only a refusal stops the request, an error of Evaluate does not.
DecideUnlessDenied(s, rows) ==
    \E answer \in Answers(s, rows) :
        Goto(s, IF answer = "deny" THEN "auditDenied" ELSE "issue")

Decide(s, rows) ==
    \E answer \in Answers(s, rows) :
        Goto(s, CASE answer = "allow" -> "issue"
                  [] answer = "deny"  -> "auditDenied"
                  [] answer = "error" -> "done")

\* The checks before anything is issued.  A disabled resource, and an error
\* of Evaluate, are refused without an audit row.
Authorize(s) ==
    /\ pc[s] = "new"
    /\ \/ /\ req[s].resource \notin Enabled
          /\ Goto(s, "done") /\ UNCHANGED faults
       \/ /\ req[s].resource \in Enabled
          /\ \/ Works(s) /\ Decide(s, Policies)
             \/ /\ Fails("store", s)
                /\ \/ Goto(s, "done")
                   \/ \E rows \in SUBSET Policies : Decide(s, rows)
    /\ UNCHANGED <<now, useRedis, req, rpc, pollVars, targetVars, expires, storeVars, cancelled>>

\* Mutant: a failed issue is not cleaned up.
LeftBehind(s) == cred' = [cred EXCEPT ![s] = "live"] /\ UNCHANGED lateIssue

\* A failed issue is cleaned up.
NotIssued(s) == UNCHANGED <<cred, lateIssue>>

Issue(s) ==
    /\ pc[s] = "issue"
    /\ Local(s) \/ s \notin cancelled
    /\ cred' = [cred EXCEPT ![s] = "live"]
    /\ expires' = [expires EXCEPT ![s] = Expiry(s)]
    /\ Goto(s, "save")
    /\ UNCHANGED <<now, useRedis, req, rpc, pollVars, lateIssue, lateRevoke, storeVars,
                   cancelled, faults>>

\* The provider reports an error; a target may create the credential still.
IssueFails(s) ==
    /\ pc[s] = "issue"
    /\ \/ Local(s) /\ Fault("target") /\ NotIssued(s)
       \/ ~Local(s) /\ Fails("target", s) /\ NotIssued(s)
       \/ ~Local(s) /\ Fails("lost", s) /\ lateIssue' = lateIssue \union {s}
            /\ UNCHANGED cred
    /\ Goto(s, "auditError")
    /\ UNCHANGED <<now, useRedis, req, rpc, pollVars, lateRevoke, expires, storeVars,
                   cancelled>>

\* Mutant: the request goes on although the INSERT has failed.
SaveUnchecked(s) ==
    /\ pc[s] = "save"
    /\ \/ Works(s) /\ SetStatus(s, "ACTIVE")
       \/ Fails("store", s) /\ MaybeSetStatus(s, "ACTIVE")
    /\ Goto(s, "auditSuccess")
    /\ UNCHANGED <<now, useRedis, req, rpc, pollVars, targetVars, expires, queue, audit, cancelled>>

\* INSERT INTO sessions.  On an error the handler answers 500 and leaves the
\* credential where it is.
SaveSession(s) ==
    /\ pc[s] = "save"
    /\ \/ Works(s) /\ SetStatus(s, "ACTIVE") /\ Goto(s, "auditSuccess")
       \/ Fails("store", s) /\ MaybeSetStatus(s, "ACTIVE") /\ Goto(s, "done")
    /\ UNCHANGED <<now, useRedis, req, rpc, pollVars, targetVars, expires, queue, audit, cancelled>>

AuditRequest(s) ==
    /\ \/ /\ pc[s] = "auditDenied"
          /\ AuditAs(s, "request_session", "DENIED", s) /\ Goto(s, "done")
       \/ /\ pc[s] = "auditError"
          /\ AuditAs(s, "request_session", "ERROR", s) /\ Goto(s, "done")
       \/ /\ pc[s] = "auditSuccess"
          /\ AuditAs(s, "request_session", "SUCCESS", s) /\ Goto(s, "schedule")
    /\ UNCHANGED <<now, useRedis, req, rpc, pollVars, targetVars, expires, status, queue, cancelled>>

\* scheduler.ScheduleRevocation, its error ignored, and the response.
ScheduleRevocation(s) ==
    /\ pc[s] = "schedule"
    /\ \/ ~useRedis /\ UNCHANGED <<queue, faults>>
       \/ useRedis /\ Works(s) /\ queue' = queue \union {s}
       \/ useRedis /\ Fails("queue", s) /\ UNCHANGED queue
    /\ Goto(s, "done")
    /\ UNCHANGED <<now, useRedis, req, rpc, pollVars, targetVars, expires, status, audit, cancelled>>

-----------------------------------------------------------------------------
(***************************************************************************)
(* POST /v1/sessions/revoke.                                               *)
(***************************************************************************)
GotoR(c, s, step) == rpc' = [rpc EXCEPT ![<<c, s>>] = step]

\* The SELECT and the checks after it; every refusal leaves no trace.
LoadSession(c, s) ==
    /\ rpc[<<c, s>>] = "idle"
    /\ status[s] \notin {"NONE", "REVOKED"}
    /\ Entitled(c, s)
    /\ GotoR(c, s, "revoke")
    /\ cancelled' = cancelled \ {<<c, s>>}
    /\ UNCHANGED <<now, useRedis, req, pc, pollVars, targetVars, expires, storeVars, faults>>

RevokeAtProvider(c, s) ==
    /\ rpc[<<c, s>>] = "revoke"
    /\ \/ RevokeWorks(s, <<c, s>>) /\ GotoR(c, s, "update")
       \/ RevokeFails(s, c, <<c, s>>) /\ GotoR(c, s, "auditError")
    /\ UNCHANGED <<now, useRedis, req, pc, pollVars, expires, storeVars, cancelled>>

UpdateRevoked(c, s) ==
    /\ rpc[<<c, s>>] = "update"
    /\ \/ Works(<<c, s>>) /\ SetStatus(s, "REVOKED") /\ GotoR(c, s, "auditSuccess")
       \/ Fails("store", <<c, s>>) /\ MaybeSetStatus(s, "REVOKED") /\ GotoR(c, s, "idle")
    /\ UNCHANGED <<now, useRedis, req, pc, pollVars, targetVars, expires, queue, audit, cancelled>>

AuditRevoke(c, s) ==
    /\ \/ /\ rpc[<<c, s>>] = "auditSuccess"
          /\ AuditAs(s, "revoke_session", "SUCCESS", <<c, s>>)
       \/ /\ rpc[<<c, s>>] = "auditError"
          /\ AuditAs(s, "revoke_session", "ERROR", <<c, s>>)
    /\ GotoR(c, s, "idle")
    /\ UNCHANGED <<now, useRedis, req, pc, pollVars, targetVars, expires, status, queue, cancelled>>

-----------------------------------------------------------------------------
(***************************************************************************)
(* pollAndRevokeExpired.                                                   *)
(***************************************************************************)
HasRow(s) == status[s] # "NONE"

\* Mutant: ZRANGEBYSCORE without an upper bound.
DueAnyTime == queue

Due == {s \in queue : Unix(expires[s]) <= Unix(now)}

\* A poll starts: a new context, and ZRANGEBYSCORE when Redis is in use.
\* The error of PopExpiredSessions is ignored.
Poll ==
    /\ phase = "idle"
    /\ cancelled' = cancelled \ {Scheduler}
    /\ \/ ~useRedis /\ popped' = {} /\ UNCHANGED faults
       \/ useRedis /\ popped' = Due /\ UNCHANGED faults
       \/ useRedis /\ Fault("queue") /\ popped' = {}
    /\ phase' = IF popped' = {} THEN "query" ELSE "remove"
    /\ UNCHANGED <<now, useRedis, req, apiVars, sweep, targetVars, expires, storeVars>>

\* ZREM.  When it fails, executed or not, no identifier is returned.
RemoveFromQueue ==
    /\ phase = "remove"
    /\ \/ Works(Scheduler) /\ queue' = queue \ popped /\ UNCHANGED popped
       \/ Fails("queue", Scheduler) /\ queue' \in {queue, queue \ popped} /\ popped' = {}
    /\ phase' = "query"
    /\ UNCHANGED <<now, useRedis, req, apiVars, sweep, targetVars, expires, status, audit, cancelled>>

\* Mutant: SQL polling only where Redis is not in use.
ExpiredNoFallback ==
    IF useRedis THEN {s \in popped : HasRow(s)}
    ELSE {s \in Sessions : status[s] = "ACTIVE" /\ expires[s] <= now}

\* Mutant: the SQL query forgets the expiry time.
ExpiredWhileActive ==
    IF popped # {} THEN {s \in popped : HasRow(s)}
    ELSE {s \in Sessions : status[s] = "ACTIVE"}

\* The rows of the poll: those of the popped identifiers, whatever their
\* status, or the active ones that have expired.
Expired == IF popped # {} THEN {s \in popped : HasRow(s)}
           ELSE {s \in Sessions : status[s] = "ACTIVE" /\ expires[s] <= now}

\* The SELECT; a read that fails leaves the rows that arrived before.
QueryExpired ==
    /\ phase = "query"
    /\ \E rows \in SUBSET Expired :
         /\ \/ Works(Scheduler) /\ rows = Expired
            \/ Fails("store", Scheduler)
         /\ sweep' = [s \in Sessions |-> IF s \in rows THEN "listed" ELSE "out"]
    /\ popped' = {}
    /\ phase' = "sweep"
    /\ UNCHANGED <<now, useRedis, req, apiVars, targetVars, expires, storeVars, cancelled>>

\* The loop takes one session at a time, in any order.
AtLoopHead == phase = "sweep" /\ \A x \in Sessions : sweep[x] \in {"out", "listed"}

Sweep(s, step) == sweep' = [sweep EXCEPT ![s] = step]

SweepRevoke(s) ==
    /\ AtLoopHead
    /\ sweep[s] = "listed"
    /\ \/ RevokeWorks(s, Scheduler) /\ Sweep(s, "markExpired")
       \/ RevokeFails(s, Scheduler, Scheduler) /\ Sweep(s, "auditError")
    /\ UNCHANGED <<now, useRedis, req, apiVars, phase, popped, expires, storeVars, cancelled>>

SweepAudit(s) ==
    /\ sweep[s] = "auditError"
    /\ AuditAs(s, "revoke_session", "ERROR", Scheduler)
    /\ Sweep(s, "markFailed")
    /\ UNCHANGED <<now, useRedis, req, apiVars, phase, popped, targetVars, expires, status, queue, cancelled>>

\* updateSessionStatus always passes two arguments.  The statement for
\* EXPIRED has one placeholder, and lib/pq refuses a statement whose
\* placeholders and arguments differ in number.
Placeholders == [EXPIRED |-> 1, FAILED |-> 2]
Arguments == 2

Accepted(st) == Placeholders[st] = Arguments

\* It runs without a context, and its error ends the work on this session.
SweepMarkFailed(s) ==
    /\ sweep[s] = "markFailed"
    /\ \/ SetStatus(s, "FAILED") /\ UNCHANGED faults
       \/ Fault("store") /\ MaybeSetStatus(s, "FAILED")
    /\ Sweep(s, "out")
    /\ UNCHANGED <<now, useRedis, req, apiVars, phase, popped, targetVars, expires, queue, audit, cancelled>>

\* The UPDATE and the audit row after it are one step here: no run takes that
\* branch, because the statement is refused.
SweepMarkExpired(s) ==
    /\ sweep[s] = "markExpired"
    /\ IF Accepted("EXPIRED")
       THEN /\ SetStatus(s, "EXPIRED")
            /\ audit' = audit \union {<<s, "revoke_session", "SUCCESS">>}
       ELSE UNCHANGED <<status, audit>>
    /\ Sweep(s, "out")
    /\ UNCHANGED <<now, useRedis, req, apiVars, phase, popped, targetVars, expires, queue, cancelled, faults>>

SweepEnds ==
    /\ phase = "sweep"
    /\ \A s \in Sessions : sweep[s] = "out"
    /\ phase' = "idle"
    /\ UNCHANGED <<now, useRedis, req, apiVars, sweep, popped, targetVars, expires, storeVars,
                   cancelled, faults>>

-----------------------------------------------------------------------------
(***************************************************************************)
(* The world around the handlers.                                          *)
(***************************************************************************)
Tick == /\ now < MaxTime
        /\ now' = now + 1
        /\ UNCHANGED <<useRedis, req, apiVars, pollVars, targetVars, expires, storeVars,
                       cancelled, faults>>

\* The client of a request goes away, or the deadline of a poll passes.
Running == {s \in Sessions : pc[s] # "done"}
             \union {c \in Revokers : rpc[c] # "idle"}
             \union (IF phase = "idle" THEN {} ELSE {Scheduler})

Cancel == /\ Fault("cancel")
          /\ \E ctx \in Running \ cancelled : cancelled' = cancelled \union {ctx}
          /\ UNCHANGED <<now, useRedis, req, apiVars, pollVars, targetVars, expires, storeVars>>

\* What a target was asked to do by a call that ended in an error happens
\* after all, whatever has become of the broker since.
IssuedLate(s) ==
    /\ s \in lateIssue
    /\ cred' = [cred EXCEPT ![s] = "live"]
    /\ lateIssue' = lateIssue \ {s}
    /\ UNCHANGED <<now, useRedis, req, apiVars, pollVars, lateRevoke, expires, storeVars,
                   cancelled, faults>>

RevokedLate(who, s) ==
    /\ <<who, s>> \in lateRevoke
    /\ cred' = [cred EXCEPT ![s] = "removed"]
    /\ lateRevoke' = lateRevoke \ {<<who, s>>}
    /\ UNCHANGED <<now, useRedis, req, apiVars, pollVars, lateIssue, expires, storeVars,
                   cancelled, faults>>

LateEffect == \E s \in Sessions : \/ IssuedLate(s)
                                 \/ \E who \in Clients \union {Scheduler} : RevokedLate(who, s)

\* queue.go's init asks Redis once; an answer is not guaranteed.
RedisChosen == IF RedisConfigured THEN BOOLEAN ELSE {FALSE}

\* The process dies with all it was doing and starts again.
Crash == /\ Fault("crash")
         /\ useRedis' \in RedisChosen
         /\ pc' = [s \in Sessions |-> IF pc[s] = "new" THEN "new" ELSE "done"]
         /\ rpc' = [c \in Revokers |-> "idle"]
         /\ phase' = "idle"
         /\ sweep' = [s \in Sessions |-> "out"]
         /\ popped' = {}
         /\ cancelled' = {}
         /\ UNCHANGED <<now, req, targetVars, expires, storeVars>>

-----------------------------------------------------------------------------
Init == /\ now = 0
        /\ useRedis \in RedisChosen
        /\ req \in [Sessions -> Requests]
        /\ pc = [s \in Sessions |-> "new"]
        /\ rpc = [c \in Revokers |-> "idle"]
        /\ phase = "idle"
        /\ sweep = [s \in Sessions |-> "out"]
        /\ popped = {}
        /\ cred = [s \in Sessions |-> "none"]
        /\ lateIssue = {}
        /\ lateRevoke = {}
        /\ expires = [s \in Sessions |-> 0]
        /\ status = [s \in Sessions |-> "NONE"]
        /\ queue = {}
        /\ audit = {}
        /\ cancelled = {}
        /\ faults = 0

FinishRequest(s) == \/ Issue(s) \/ IssueFails(s) \/ SaveSession(s)
                    \/ AuditRequest(s) \/ ScheduleRevocation(s)

RequestStep(s) == Authorize(s) \/ FinishRequest(s)

FinishRevoke(c, s) == RevokeAtProvider(c, s) \/ UpdateRevoked(c, s) \/ AuditRevoke(c, s)

RevokeStep(c, s) == LoadSession(c, s) \/ FinishRevoke(c, s)

SweepStep(s) == \/ SweepRevoke(s) \/ SweepAudit(s)
                \/ SweepMarkFailed(s) \/ SweepMarkExpired(s)

SchedulerStep == \/ Poll \/ RemoveFromQueue \/ QueryExpired \/ SweepEnds
                 \/ \E s \in Sessions : SweepStep(s)

Next == \/ \E s \in Sessions : RequestStep(s)
        \/ \E c \in Clients, s \in Sessions : RevokeStep(c, s)
        \/ SchedulerStep
        \/ Tick \/ Cancel \/ LateEffect \/ Crash

Spec == Init /\ [][Next]_vars

\* The clock runs, the ticker of Scheduler.Start keeps polling, and a handler
\* that has begun goes on; nobody has to send a request.
Fairness == /\ WF_vars(Tick)
            /\ WF_vars(SchedulerStep)
            /\ \A s \in Sessions : WF_vars(FinishRequest(s))
            /\ \A c \in Clients, s \in Sessions : WF_vars(FinishRevoke(c, s))

FairSpec == Spec /\ Fairness

-----------------------------------------------------------------------------
(***************************************************************************)
(* Properties.                                                             *)
(***************************************************************************)

\* Every variable keeps the type the Go code and the schema give it.
TypeOK ==
    /\ now \in 0 .. MaxTime
    /\ useRedis \in BOOLEAN
    /\ req \in [Sessions -> Requests]
    /\ pc \in [Sessions -> {"new", "issue", "save", "auditDenied", "auditError",
                            "auditSuccess", "schedule", "done"}]
    /\ rpc \in [Revokers -> {"idle", "revoke", "update", "auditSuccess", "auditError"}]
    /\ phase \in {"idle", "remove", "query", "sweep"}
    /\ sweep \in [Sessions -> {"out", "listed", "auditError", "markFailed", "markExpired"}]
    /\ popped \subseteq Sessions
    /\ cred \in [Sessions -> {"none", "live", "removed"}]
    /\ lateIssue \subseteq Sessions
    /\ lateRevoke \subseteq (Clients \union {Scheduler}) \X Sessions
    /\ expires \in [Sessions -> Int]
    /\ status \in [Sessions -> {"NONE", "ACTIVE", "FAILED", "REVOKED", "EXPIRED"}]
    /\ queue \subseteq Sessions
    /\ audit \subseteq Sessions \X {"request_session", "revoke_session"}
                             \X {"SUCCESS", "DENIED", "ERROR"}
    /\ cancelled \subseteq Sessions \union Revokers \union {Scheduler}
    /\ faults \in 0 .. MaxFaults

Live(s) == cred[s] = "live" /\ ~Local(s)

Closed(s) == status[s] \in {"REVOKED", "EXPIRED"}

\* A row that says REVOKED or EXPIRED is the truth about the target: no path
\* closes a session whose role, user or key can still be used, however the
\* two handlers and the scheduler race, fail, are cancelled or crash.
ClosedMeansGone == \A s \in Sessions : Closed(s) => ~Live(s)

\* A credential is taken away before the second in which it expires only by
\* a revoke call of its owner or of an admin, or by what such a call has left
\* on its way; the scheduler never does, neither in time nor late.
OnlyEntitledEarly ==
    [][\A s \in Sessions :
         (cred[s] = "live" /\ cred'[s] = "removed" /\ Unix(expires[s]) > Unix(now))
           => \E c \in Clients : /\ Entitled(c, s)
                                 /\ \/ rpc[<<c, s>>] = "revoke" /\ rpc'[<<c, s>>] # "revoke"
                                    \/ <<c, s>> \in lateRevoke]_vars

\* Nobody gets in unasked: behind every credential there is an enabled resource
\* and a row of the table that allows one of the owner's roles just that, and,
\* if nothing has failed so far, no row that denies or limits it.  A session
\* never lasts longer than was asked, hence than that row allows.
AccessIsAllowed ==
    \A s \in Sessions :
        /\ cred[s] # "none" =>
             /\ req[s].resource \in Enabled
             /\ \E r \in RowsFor(Policies, Asked(s)) : Allows(r, Asked(s))
             /\ faults = 0 => Answers(s, Policies) = {"allow"}
        /\ HasRow(s) => expires[s] <= now + (IF req[s].duration > 0 THEN req[s].duration ELSE 0)

\* No orphan: a live credential has a row that is still open, or its request
\* is about to insert it (session.go:147-174; checked and proved for the
\* faults that do not separate the target from the store).
LiveIsTracked ==
    \A s \in Sessions :
        Live(s) => status[s] \in {"ACTIVE", "FAILED"} \/ pc[s] = "save"

\* A session that a user or an admin has closed is in the audit log as soon
\* as no revoke call for it is under way, whichever of its clients closed it
\* (checked where the store answers: the error of the INSERT is ignored).
RevocationIsAudited ==
    \A s \in Sessions :
        (status[s] = "REVOKED" /\ \A c \in Clients : rpc[<<c, s>>] = "idle")
            => <<s, "revoke_session", "SUCCESS">> \in audit

\* The audit log does not lie, and what it says stays true: a request it calls
\* denied has no credential, now or later; one it calls failed never gets a
\* row; one it calls successful has a row; and a session it calls revoked is
\* not active, nor can its credential be used, whoever else is working on it.
AuditTellsTruth ==
    \A s \in Sessions :
        /\ <<s, "request_session", "DENIED">> \in audit => cred[s] = "none"
        /\ <<s, "request_session", "ERROR">> \in audit => ~HasRow(s)
        /\ <<s, "request_session", "SUCCESS">> \in audit => HasRow(s)
        /\ <<s, "revoke_session", "SUCCESS">> \in audit => status[s] # "ACTIVE" /\ ~Live(s)

\* What a revoke call has closed stays closed at least until the second in
\* which it would have expired, whatever a poll holds of it: its identifier
\* stays in the Redis queue, the query for popped identifiers does not look at
\* the status, a row may have been read before the revoke.  From then on a poll
\* may write over it, with FAILED when something has failed (session.go:318-320
\* against scheduler.go:136-150); it never becomes active again.
RevokedStands ==
    [][\A s \in Sessions :
         (status[s] = "REVOKED" /\ status'[s] # "REVOKED") =>
             /\ Unix(expires[s]) <= Unix(now)
             /\ \/ status'[s] = "EXPIRED"
                \/ status'[s] = "FAILED" /\ faults > 0]_vars

\* Whatever fails, no active session is forgotten: its credential is taken
\* away or its row says FAILED.
AccessEndsOrFails(s) == (status[s] = "ACTIVE" /\ Live(s) /\ expires[s] <= MaxTime)
                           ~> ~Live(s) \/ status[s] = "FAILED"

NoneForgotten == \A s \in Sessions : AccessEndsOrFails(s)

(***************************************************************************)
(* The sessions table and the targets implement the ledger.                *)
(***************************************************************************)
AccessOf(s) == IF cred[s] = "live" /\ Local(s) THEN "lapsing"
               ELSE IF cred[s] = "live" THEN "granted" ELSE cred[s]

BookOf(s) == IF status[s] = "NONE" THEN "unknown"
             ELSE IF Closed(s) THEN "closed" ELSE "open"

Ledger == INSTANCE AccessLedger
            WITH access <- [s \in Sessions |-> AccessOf(s)],
                 book   <- [s \in Sessions |-> BookOf(s)]

\* Every behaviour of the handlers and the scheduler, faults included, keeps
\* the ledger: nothing is given twice or taken from a session without a row,
\* and no row is closed while there is something left to take away.
KeepsLedger == Ledger!Spec

(***************************************************************************)
(* What the documents say and the code does not do.                        *)
(***************************************************************************)

\* ACTIVE --> EXPIRED when the TTL is reached (docs/architecture.md:337).
ExpiryIsRecorded ==
    \A s \in Sessions :
        (status[s] = "ACTIVE" /\ expires[s] <= MaxTime) ~> status[s] # "ACTIVE"
=============================================================================
