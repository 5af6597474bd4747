------------------------- MODULE SessionBrokerProofs -------------------------
(***************************************************************************)
(* Theorems about SessionBroker, for every value of its constants: any     *)
(* number of users, sessions and faults, any policies and any bound on the *)
(* clock.                                                                  *)
(***************************************************************************)
EXTENDS SessionBroker, TLAPS

\* A tuple that stands for its variables in every UNCHANGED.
USE DEF targetVars

\* What the steps of the two handlers and of the scheduler rely on.
RequestInv(s) ==
    /\ pc[s] \in {"new", "issue", "auditDenied"} => cred[s] = "none"
    /\ pc[s] \in {"new", "issue", "auditDenied", "auditError", "save"} => status[s] = "NONE"
    /\ pc[s] = "save" => cred[s] = "live"
    /\ pc[s] \in {"auditSuccess", "schedule"} => status[s] # "NONE"

RowInv(s) ==
    /\ status[s] = "NONE" => cred[s] # "removed"
    /\ status[s] # "NONE" => cred[s] # "none"
    /\ Closed(s) => ~Live(s)

RevokeInv(s) ==
    \A c \in Clients : /\ rpc[<<c, s>>] # "idle" => status[s] # "NONE"
                       /\ rpc[<<c, s>>] = "update" => ~Live(s)
                       /\ rpc[<<c, s>>] # "idle" => Entitled(c, s)

SweepInv(s) ==
    /\ sweep[s] # "out" => status[s] # "NONE"
    /\ sweep[s] = "markExpired" => ~Live(s)

\* The scheduler holds only identifiers of rows that have expired.
DueInv(s) ==
    /\ s \in queue \union popped => status[s] # "NONE"
    /\ s \in popped \/ sweep[s] # "out" => Unix(expires[s]) <= Unix(now)

\* What may still reach a target has a place there: an issue nobody knows of,
\* or a removal that was ordered by somebody entitled, or after the expiry.
LateInv(s) ==
    /\ s \in lateIssue => /\ pc[s] \in {"auditError", "done"}
                          /\ cred[s] = "none" /\ status[s] = "NONE"
    /\ \A who \in Clients \union {Scheduler} : <<who, s>> \in lateRevoke =>
         /\ status[s] # "NONE" /\ ~Local(s)
         /\ \/ who \in Clients /\ Entitled(who, s)
            \/ Unix(expires[s]) <= Unix(now)

SessionInv(s) == /\ RequestInv(s)
                 /\ RowInv(s)
                 /\ RevokeInv(s)
                 /\ SweepInv(s)
                 /\ DueInv(s)

Inv == TypeOK /\ \A s \in Sessions : SessionInv(s) /\ LateInv(s)

-----------------------------------------------------------------------------
(***************************************************************************)
(* Lemmas about the operators.                                             *)
(***************************************************************************)

\* Seconds are integers.
LEMMA UnixType == ASSUME NEW t \in Int PROVE Unix(t) \in Int
  BY BrokerAssumption DEF Unix

\* What has expired to the tick has expired to the second: the score of the
\* queue and the comparison of the SQL poll agree on everything the SQL poll
\* selects.
LEMMA UnixMonotone ==
  ASSUME NEW a \in Int, NEW b \in Int, a <= b
  PROVE  Unix(a) <= Unix(b)
  BY BrokerAssumption DEF Unix

\* Evaluate gives one of the three answers HandleRequestSession knows.
LEMMA AnswersType ==
  ASSUME NEW s, NEW rows
  PROVE  Answers(s, rows) \subseteq {"allow", "deny", "error"}
  BY DEF Answers, Outcomes

\* So are the whole seconds of a duration, which are not more than it.
LEMMA SecondsType ==
  ASSUME NEW d \in Int
  PROVE  /\ Seconds(d) \in Int
         /\ Seconds(d) * TicksPerSecond <= (IF d > 0 THEN d ELSE 0)
<1>1. \A t \in Int : Unix(t) \in Int /\ Unix(t) * TicksPerSecond <= t
  BY BrokerAssumption DEF Unix
<1>2. CASE d >= 0
  BY <1>1, <1>2 DEF Seconds
<1>3. CASE d < 0
  <2>1. PICK u \in Nat : u = Unix(-d)
    BY <1>3, BrokerAssumption DEF Unix
  <2>2. (-u) * TicksPerSecond <= 0
    BY BrokerAssumption
  <2> QED
    BY <1>3, <2>1, <2>2 DEF Seconds
<1> QED
  BY <1>2, <1>3

\* A provider's expiry is a time, and never later than was asked: an agent that
\* counts in seconds rounds down, twice.
LEMMA ExpiryType ==
  ASSUME TypeOK, NEW s \in Sessions
  PROVE  /\ Expiry(s) \in Int
         /\ Expiry(s) <= now + (IF req[s].duration > 0 THEN req[s].duration ELSE 0)
<1> DEFINE d == req[s].duration
<1>1. d \in Int /\ now \in Int /\ TicksPerSecond \in Int
  BY BrokerAssumption DEF TypeOK
<1>2. Seconds(d) \in Int /\ Seconds(d) * TicksPerSecond <= (IF d > 0 THEN d ELSE 0)
  BY <1>1, SecondsType
<1>3. \A t \in Int : Unix(t) \in Int /\ Unix(t) * TicksPerSecond <= t
  BY BrokerAssumption DEF Unix
<1>4. PICK w \in Int : w = Seconds(d) * TicksPerSecond
  BY <1>1, <1>2
<1>5. /\ Unix(now + w) * TicksPerSecond \in Int
      /\ Unix(now + w) * TicksPerSecond <= now + w
  BY <1>1, <1>3, <1>4
<1> QED
  BY <1>1, <1>2, <1>4, <1>5 DEF Expiry

-----------------------------------------------------------------------------
(***************************************************************************)
(* Type correctness.                                                       *)
(***************************************************************************)

\* The process starts with every variable in its type.
LEMMA InitType == Init => TypeOK
<1> SUFFICES ASSUME Init PROVE TypeOK
  OBVIOUS
<1>1. useRedis \in BOOLEAN
  BY Zenon DEF Init, RedisChosen
<1>2. 0 \in 0 .. MaxTime /\ 0 \in 0 .. MaxFaults
  BY BrokerAssumption
<1> QED
  BY <1>1, <1>2 DEF Init, TypeOK

\* The steps of HandleRequestSession keep the types.
LEMMA RequestType ==
  ASSUME TypeOK, NEW s \in Sessions, RequestStep(s)
  PROVE  TypeOK'
<1>0. MaxFaults \in Nat /\ faults \in Nat
  BY BrokerAssumption DEF TypeOK
<1>1. CASE Authorize(s)
  <2>1. ASSUME NEW rows, Decide(s, rows)
        PROVE  pc' \in [Sessions -> {"new", "issue", "save", "auditDenied", "auditError",
                                     "auditSuccess", "schedule", "done"}]
    BY <2>1, AnswersType DEF Decide, Goto, TypeOK
  <2>2. pc' \in [Sessions -> {"new", "issue", "save", "auditDenied", "auditError",
                              "auditSuccess", "schedule", "done"}]
    BY <1>1, <2>1 DEF Authorize, Goto, TypeOK
  <2>3. faults' \in 0 .. MaxFaults
    BY <1>0, <1>1 DEF Authorize, Works, Fails, Fault, CanFail, TypeOK
  <2> QED
    BY <1>1, <2>2, <2>3 DEF Authorize, TypeOK, pollVars, storeVars
<1>2. CASE Issue(s)
  BY <1>2, ExpiryType DEF Issue, Goto, TypeOK, pollVars, storeVars
<1>3. CASE IssueFails(s)
  <2>1. faults' \in 0 .. MaxFaults
    BY <1>0, <1>3 DEF IssueFails, Fails, Fault, CanFail, TypeOK
  <2>2. UNCHANGED cred /\ lateIssue' \subseteq Sessions
    BY <1>3 DEF IssueFails, NotIssued, TypeOK
  <2> QED
    BY <1>3, <2>1, <2>2 DEF IssueFails, Goto, TypeOK, pollVars, storeVars
<1>4. CASE SaveSession(s)
  <2>1. faults' \in 0 .. MaxFaults
    BY <1>0, <1>4 DEF SaveSession, Works, Fails, Fault, CanFail, TypeOK
  <2>2. status' \in [Sessions -> {"NONE", "ACTIVE", "FAILED", "REVOKED", "EXPIRED"}]
    BY <1>4 DEF SaveSession, SetStatus, MaybeSetStatus, TypeOK
  <2> QED
    BY <1>4, <2>1, <2>2 DEF SaveSession, Goto, TypeOK, pollVars
<1>5. CASE AuditRequest(s)
  <2>1. faults' \in 0 .. MaxFaults
    BY <1>0, <1>5 DEF AuditRequest, AuditAs, Works, Fails, Fault, CanFail, TypeOK
  <2>2. audit' \subseteq Sessions \X {"request_session", "revoke_session"}
                                  \X {"SUCCESS", "DENIED", "ERROR"}
    BY <1>5 DEF AuditRequest, AuditAs, TypeOK
  <2> QED
    BY <1>5, <2>1, <2>2 DEF AuditRequest, Goto, TypeOK, pollVars
<1>6. CASE ScheduleRevocation(s)
  <2>1. faults' \in 0 .. MaxFaults
    BY <1>0, <1>6 DEF ScheduleRevocation, Works, Fails, Fault, CanFail, TypeOK
  <2> QED
    BY <1>6, <2>1 DEF ScheduleRevocation, Goto, TypeOK, pollVars
<1> QED
  BY <1>1, <1>2, <1>3, <1>4, <1>5, <1>6 DEF RequestStep, FinishRequest

\* The steps of HandleRevokeSession keep the types.
LEMMA RevokeType ==
  ASSUME TypeOK, NEW c \in Clients, NEW s \in Sessions, RevokeStep(c, s)
  PROVE  TypeOK'
<1>0. MaxFaults \in Nat /\ faults \in Nat /\ <<c, s>> \in Revokers
  BY BrokerAssumption DEF TypeOK, Revokers
<1>1. CASE LoadSession(c, s)
  BY <1>0, <1>1 DEF LoadSession, GotoR, TypeOK, pollVars, storeVars
<1>2. CASE RevokeAtProvider(c, s)
  <2>1. faults' \in 0 .. MaxFaults
    BY <1>0, <1>2 DEF RevokeAtProvider, RevokeWorks, RevokeFails, Works, Fails, Fault,
                      CanFail, TypeOK
  <2>2. /\ cred' \in [Sessions -> {"none", "live", "removed"}]
        /\ lateIssue' = lateIssue
        /\ lateRevoke' \subseteq (Clients \union {Scheduler}) \X Sessions
    BY <1>2 DEF RevokeAtProvider, RevokeWorks, RevokeFails, TypeOK
  <2> QED
    BY <1>0, <1>2, <2>1, <2>2 DEF RevokeAtProvider, GotoR, TypeOK, pollVars, storeVars
<1>3. CASE UpdateRevoked(c, s)
  <2>1. faults' \in 0 .. MaxFaults
    BY <1>0, <1>3 DEF UpdateRevoked, Works, Fails, Fault, CanFail, TypeOK
  <2>2. status' \in [Sessions -> {"NONE", "ACTIVE", "FAILED", "REVOKED", "EXPIRED"}]
    BY <1>3 DEF UpdateRevoked, SetStatus, MaybeSetStatus, TypeOK
  <2> QED
    BY <1>0, <1>3, <2>1, <2>2 DEF UpdateRevoked, GotoR, TypeOK, pollVars
<1>4. CASE AuditRevoke(c, s)
  <2>1. faults' \in 0 .. MaxFaults
    BY <1>0, <1>4 DEF AuditRevoke, AuditAs, Works, Fails, Fault, CanFail, TypeOK
  <2>2. audit' \subseteq Sessions \X {"request_session", "revoke_session"}
                                  \X {"SUCCESS", "DENIED", "ERROR"}
    BY <1>4 DEF AuditRevoke, AuditAs, TypeOK
  <2> QED
    BY <1>0, <1>4, <2>1, <2>2 DEF AuditRevoke, GotoR, TypeOK, pollVars
<1> QED
  BY <1>1, <1>2, <1>3, <1>4 DEF RevokeStep, FinishRevoke

\* The steps of the scheduler keep the types.
LEMMA SchedulerType ==
  ASSUME TypeOK, SchedulerStep
  PROVE  TypeOK'
<1>0. MaxFaults \in Nat /\ faults \in Nat
  BY BrokerAssumption DEF TypeOK
<1>1. CASE Poll
  <2>1. faults' \in 0 .. MaxFaults
    BY <1>0, <1>1 DEF Poll, Fault, CanFail, TypeOK
  <2> QED
    BY <1>1, <2>1 DEF Poll, Due, TypeOK, apiVars, storeVars
<1>2. CASE RemoveFromQueue
  <2>1. faults' \in 0 .. MaxFaults
    BY <1>0, <1>2 DEF RemoveFromQueue, Works, Fails, Fault, CanFail, TypeOK
  <2> QED
    BY <1>2, <2>1 DEF RemoveFromQueue, TypeOK, apiVars
<1>3. CASE QueryExpired
  <2>1. faults' \in 0 .. MaxFaults
    BY <1>0, <1>3 DEF QueryExpired, Works, Fails, Fault, CanFail, TypeOK
  <2> QED
    BY <1>3, <2>1 DEF QueryExpired, TypeOK, apiVars, storeVars
<1>4. CASE SweepEnds
  BY <1>4 DEF SweepEnds, TypeOK, apiVars, storeVars
<1>5. ASSUME NEW s \in Sessions, SweepRevoke(s)
      PROVE  TypeOK'
  <2>1. faults' \in 0 .. MaxFaults
    BY <1>0, <1>5 DEF SweepRevoke, RevokeWorks, RevokeFails, Works, Fails, Fault,
                      CanFail, TypeOK
  <2>2. /\ cred' \in [Sessions -> {"none", "live", "removed"}]
        /\ lateIssue' = lateIssue
        /\ lateRevoke' \subseteq (Clients \union {Scheduler}) \X Sessions
    BY <1>5 DEF SweepRevoke, RevokeWorks, RevokeFails, TypeOK
  <2> QED
    BY <1>5, <2>1, <2>2 DEF SweepRevoke, Sweep, TypeOK, apiVars, storeVars
<1>6. ASSUME NEW s \in Sessions, SweepAudit(s)
      PROVE  TypeOK'
  <2>1. faults' \in 0 .. MaxFaults
    BY <1>0, <1>6 DEF SweepAudit, AuditAs, Works, Fails, Fault, CanFail, TypeOK
  <2>2. audit' \subseteq Sessions \X {"request_session", "revoke_session"}
                                  \X {"SUCCESS", "DENIED", "ERROR"}
    BY <1>6 DEF SweepAudit, AuditAs, TypeOK
  <2> QED
    BY <1>6, <2>1, <2>2 DEF SweepAudit, Sweep, TypeOK, apiVars
<1>7. ASSUME NEW s \in Sessions, SweepMarkFailed(s)
      PROVE  TypeOK'
  <2>1. faults' \in 0 .. MaxFaults
    BY <1>0, <1>7 DEF SweepMarkFailed, Fault, CanFail, TypeOK
  <2>2. status' \in [Sessions -> {"NONE", "ACTIVE", "FAILED", "REVOKED", "EXPIRED"}]
    BY <1>7 DEF SweepMarkFailed, SetStatus, MaybeSetStatus, TypeOK
  <2> QED
    BY <1>7, <2>1, <2>2 DEF SweepMarkFailed, Sweep, TypeOK, apiVars
<1>8. ASSUME NEW s \in Sessions, SweepMarkExpired(s)
      PROVE  TypeOK'
  BY <1>8 DEF SweepMarkExpired, SetStatus, Sweep, TypeOK, apiVars
<1> QED
  BY <1>1, <1>2, <1>3, <1>4, <1>5, <1>6, <1>7, <1>8 DEF SchedulerStep, SweepStep

\* What comes late keeps the types.
LEMMA LateEffectType ==
  ASSUME TypeOK, LateEffect
  PROVE  TypeOK'
<1>1. /\ cred' \in [Sessions -> {"none", "live", "removed"}]
      /\ lateIssue' \subseteq Sessions
      /\ lateRevoke' \subseteq (Clients \union {Scheduler}) \X Sessions
  BY DEF LateEffect, IssuedLate, RevokedLate, TypeOK
<1>2. UNCHANGED <<now, useRedis, req, apiVars, pollVars, expires, storeVars, cancelled, faults>>
  BY DEF LateEffect, IssuedLate, RevokedLate
<1> QED
  BY <1>1, <1>2 DEF TypeOK, apiVars, pollVars, storeVars

\* Every step keeps the types.
LEMMA NextType == TypeOK /\ [Next]_vars => TypeOK'
<1> SUFFICES ASSUME TypeOK, [Next]_vars PROVE TypeOK'
  OBVIOUS
<1>0. MaxFaults \in Nat /\ faults \in Nat /\ MaxTime \in Nat
  BY BrokerAssumption DEF TypeOK
<1>1. CASE Tick
  BY <1>0, <1>1 DEF Tick, TypeOK, apiVars, pollVars, storeVars
<1>2. CASE Cancel
  <2>1. Running \subseteq Sessions \union Revokers \union {Scheduler}
    BY DEF Running
  <2> QED
    BY <1>0, <1>2, <2>1 DEF Cancel, Fault, CanFail, TypeOK, apiVars, pollVars, storeVars
<1>3. CASE Crash
  <2>1. useRedis' \in BOOLEAN
    BY <1>3, Zenon DEF Crash, RedisChosen
  <2>2. faults' \in 0 .. MaxFaults
    BY <1>0, <1>3 DEF Crash, Fault, CanFail
  <2> QED
    BY <1>3, <2>1, <2>2 DEF Crash, TypeOK, storeVars
<1>4. CASE UNCHANGED vars
  BY <1>4 DEF vars, TypeOK
<1> QED
  BY <1>1, <1>2, <1>3, <1>4, RequestType, RevokeType, SchedulerType, LateEffectType DEF Next

\* The variables of the broker keep their types in every behaviour.
THEOREM TypeCorrect == Spec => []TypeOK
  BY InitType, NextType, PTL DEF Spec

-----------------------------------------------------------------------------
(***************************************************************************)
(* The inductive invariant.                                                *)
(***************************************************************************)

\* The invariant holds when the process starts: nothing exists.
LEMMA InitInv == Init => Inv
<1> SUFFICES ASSUME Init, NEW s \in Sessions
             PROVE  SessionInv(s) /\ LateInv(s)
  BY InitType DEF Inv
<1>1. LateInv(s)
  BY DEF Init, LateInv
<1> QED
  BY <1>1 DEF Init, Revokers, SessionInv, RequestInv, RowInv, RevokeInv, SweepInv, DueInv, Closed

\* HandleRequestSession: the row is inserted after the credential exists and
\* before anybody can know the identifier.
LEMMA RequestStepInv ==
  ASSUME Inv, NEW s \in Sessions, RequestStep(s), NEW x \in Sessions
  PROVE  SessionInv(x)'
<1> USE DEF Inv, SessionInv, RequestInv, RowInv, RevokeInv, SweepInv, DueInv, Closed,
            Live, Local, Provider, Entitled, Owner, Goto
<1>1. CASE Authorize(s)
  <2>1. pc'[s] \in {"issue", "auditDenied", "done"} /\ pc' = [pc EXCEPT ![s] = pc'[s]]
    BY <1>1, AnswersType DEF Authorize, Decide, TypeOK
  <2> QED
    BY <1>1, <2>1 DEF Authorize, TypeOK, pollVars, storeVars
<1>2. CASE Issue(s)
  BY <1>2 DEF Issue, TypeOK, pollVars, storeVars
<1>3. CASE IssueFails(s)
  <2>1. /\ UNCHANGED <<now, req, rpc, sweep, popped, cred, expires, status, queue>>
        /\ pc' = [pc EXCEPT ![s] = "auditError"] /\ status[s] = "NONE"
    BY <1>3 DEF IssueFails, NotIssued, pollVars, storeVars
  <2>2. DOMAIN pc = Sessions
    BY DEF TypeOK
  <2> QED
    BY <2>1, <2>2
<1>4. CASE SaveSession(s)
  BY <1>4 DEF SaveSession, SetStatus, MaybeSetStatus, TypeOK, pollVars
<1>5. CASE AuditRequest(s)
  BY <1>5 DEF AuditRequest, TypeOK, pollVars
<1>6. CASE ScheduleRevocation(s)
  BY <1>6 DEF ScheduleRevocation, TypeOK, pollVars
<1> QED
  BY <1>1, <1>2, <1>3, <1>4, <1>5, <1>6 DEF RequestStep, FinishRequest

\* HandleRevokeSession: the row is closed only after the provider answered.
LEMMA RevokeStepInv ==
  ASSUME Inv, NEW c \in Clients, NEW s \in Sessions, RevokeStep(c, s), NEW x \in Sessions
  PROVE  SessionInv(x)'
<1> USE DEF Inv, SessionInv, RequestInv, RowInv, RevokeInv, SweepInv, DueInv, Closed,
            Live, Local, Provider, Entitled, Owner, GotoR, Revokers
<1>1. CASE LoadSession(c, s)
  BY <1>1 DEF LoadSession, TypeOK, pollVars, storeVars
<1>2. CASE RevokeAtProvider(c, s)
  <2>1. /\ UNCHANGED <<req, pc, sweep, popped, expires, status, queue, now>>
        /\ cred[s] # "none" /\ status[s] # "NONE"
        /\ rpc[<<c, s>>] = "revoke" /\ <<c, s>> \in Revokers
    BY <1>2 DEF RevokeAtProvider, pollVars, storeVars
  <2>2. \/ /\ ~Local(s) /\ cred' = [cred EXCEPT ![s] = "removed"]
           /\ rpc' = [rpc EXCEPT ![<<c, s>>] = "update"]
        \/ Local(s) /\ cred' = cred /\ rpc' = [rpc EXCEPT ![<<c, s>>] = "update"]
        \/ cred' = cred /\ rpc' = [rpc EXCEPT ![<<c, s>>] = "auditError"]
    BY <1>2 DEF RevokeAtProvider, RevokeWorks, RevokeFails
  <2>3. rpc \in [Revokers -> {"idle", "revoke", "update", "auditSuccess", "auditError"}]
        /\ cred \in [Sessions -> {"none", "live", "removed"}]
    BY DEF TypeOK
  <2>4. RequestInv(x)' /\ RowInv(x)'
    BY <2>1, <2>2, <2>3
  <2>5. RevokeInv(x)'
    BY <2>1, <2>2, <2>3
  <2>6. SweepInv(x)' /\ DueInv(x)'
    BY <2>1, <2>2, <2>3
  <2> QED
    BY <2>4, <2>5, <2>6
<1>3. CASE UpdateRevoked(c, s)
  <2>1. /\ UNCHANGED <<now, req, pc, sweep, popped, cred, expires, queue>>
        /\ rpc[<<c, s>>] = "update" /\ <<c, s>> \in Revokers
    BY <1>3 DEF UpdateRevoked, pollVars
  <2>2. /\ status' = [status EXCEPT ![s] = "REVOKED"] \/ status' = status
        /\ \E step \in {"auditSuccess", "idle"} : rpc' = [rpc EXCEPT ![<<c, s>>] = step]
    BY <1>3 DEF UpdateRevoked, SetStatus, MaybeSetStatus
  <2>3. DOMAIN rpc = Revokers /\ DOMAIN status = Sessions
    BY DEF TypeOK
  <2>4. status[s] # "NONE" /\ ~Live(s)
    BY <2>1
  <2>5. RequestInv(x)' /\ RowInv(x)' /\ SweepInv(x)' /\ DueInv(x)'
    BY <2>1, <2>2, <2>3, <2>4
  <2>6. RevokeInv(x)'
    BY <2>1, <2>2, <2>3, <2>4
  <2> QED
    BY <2>5, <2>6
<1>4. CASE AuditRevoke(c, s)
  BY <1>4 DEF AuditRevoke, TypeOK, pollVars
<1> QED
  BY <1>1, <1>2, <1>3, <1>4 DEF RevokeStep, FinishRevoke

\* The scheduler works on rows that exist and have expired.
LEMMA SchedulerStepInv ==
  ASSUME Inv, SchedulerStep, NEW x \in Sessions
  PROVE  SessionInv(x)'
<1> USE DEF Inv, SessionInv, RequestInv, RowInv, RevokeInv, SweepInv, DueInv, Closed,
            Live, Local, Provider, Entitled, Owner
<1>1. CASE Poll
  BY <1>1 DEF Poll, Due, TypeOK, apiVars, storeVars
<1>2. CASE RemoveFromQueue
  BY <1>2 DEF RemoveFromQueue, TypeOK, apiVars
<1>3. CASE QueryExpired
  <2>1. \A s \in Expired : s \in Sessions /\ HasRow(s) /\ Unix(expires[s]) <= Unix(now)
    <3>1. \A s \in Sessions : expires[s] \in Int /\ now \in Int
      BY BrokerAssumption DEF TypeOK
    <3> QED
      BY <3>1, UnixMonotone DEF Expired, HasRow, TypeOK
  <2>2. sweep'[x] # "out" => x \in Expired /\ sweep'[x] = "listed"
    BY <1>3 DEF QueryExpired
  <2> QED
    BY <1>3, <2>1, <2>2 DEF QueryExpired, HasRow, TypeOK, apiVars, storeVars
<1>4. CASE SweepEnds
  BY <1>4 DEF SweepEnds, TypeOK, apiVars, storeVars
<1>5. ASSUME NEW s \in Sessions, SweepRevoke(s)
      PROVE  SessionInv(x)'
  BY <1>5 DEF SweepRevoke, Sweep, RevokeWorks, RevokeFails, TypeOK, apiVars, storeVars
<1>6. ASSUME NEW s \in Sessions, SweepAudit(s)
      PROVE  SessionInv(x)'
  BY <1>6 DEF SweepAudit, Sweep, TypeOK, apiVars
<1>7. ASSUME NEW s \in Sessions, SweepMarkFailed(s)
      PROVE  SessionInv(x)'
  BY <1>7 DEF SweepMarkFailed, Sweep, SetStatus, MaybeSetStatus, TypeOK, apiVars
<1>8. ASSUME NEW s \in Sessions, SweepMarkExpired(s)
      PROVE  SessionInv(x)'
  BY <1>8 DEF SweepMarkExpired, Sweep, SetStatus, TypeOK, apiVars
<1> QED
  BY <1>1, <1>2, <1>3, <1>4, <1>5, <1>6, <1>7, <1>8 DEF SchedulerStep, SweepStep

\* What comes late finds the session as the call that ordered it left it, or
\* closed by another.
LEMMA LateEffectInv ==
  ASSUME Inv, LateEffect, NEW x \in Sessions
  PROVE  SessionInv(x)'
<1> USE DEF Inv, SessionInv, RequestInv, RowInv, RevokeInv, SweepInv, DueInv, LateInv, Closed,
            Live, Local, Provider, Entitled, Owner, TypeOK
<1>1. ASSUME NEW s \in Sessions, IssuedLate(s)
      PROVE  SessionInv(x)'
  <2>1. /\ UNCHANGED <<now, req, pc, rpc, sweep, popped, expires, status, queue>>
        /\ pc[s] \in {"auditError", "done"} /\ status[s] = "NONE"
        /\ cred' = [cred EXCEPT ![s] = "live"]
    BY <1>1 DEF IssuedLate, apiVars, pollVars, storeVars
  <2> QED
    BY <2>1
<1>2. ASSUME NEW s \in Sessions, NEW who \in Clients \union {Scheduler}, RevokedLate(who, s)
      PROVE  SessionInv(x)'
  <2>1. /\ UNCHANGED <<now, req, pc, rpc, sweep, popped, expires, status, queue>>
        /\ status[s] # "NONE" /\ ~Local(s)
        /\ cred' = [cred EXCEPT ![s] = "removed"]
    BY <1>2 DEF RevokedLate, apiVars, pollVars, storeVars
  <2> QED
    BY <2>1
<1> QED
  BY <1>1, <1>2 DEF LateEffect

\* A step that orders nothing and leaves the late calls where they belong.
LEMMA LateInvKept ==
  ASSUME Inv, NEW x \in Sessions, req' = req, lateIssue' \subseteq lateIssue,
         lateRevoke' \subseteq lateRevoke,
         x \in lateIssue' => /\ pc'[x] \in {pc[x], "done"}
                             /\ cred'[x] = cred[x] /\ status'[x] = status[x],
         status[x] # "NONE" => expires'[x] = expires[x] /\ status'[x] # "NONE",
         Unix(now') \in Int, Unix(now) <= Unix(now')
  PROVE  LateInv(x)'
<1>1. Unix(now) \in Int /\ Unix(expires[x]) \in Int
  BY BrokerAssumption, UnixType DEF Inv, TypeOK
<1> QED
  BY <1>1 DEF Inv, LateInv, Local, Provider, Entitled, Owner

\* HandleRequestSession leaves an issue on its way only when it gives up.
LEMMA RequestLate ==
  ASSUME Inv, NEW s \in Sessions, RequestStep(s), NEW x \in Sessions
  PROVE  LateInv(x)'
<1> USE DEF Inv, TypeOK, Goto
<1>0. Unix(now) \in Int
  BY BrokerAssumption, UnixType
<1>1. CASE Authorize(s)
  BY <1>0, <1>1, LateInvKept DEF Authorize, Decide, LateInv, storeVars
<1>2. CASE Issue(s)
  BY <1>0, <1>2, LateInvKept DEF Issue, LateInv, SessionInv, RequestInv, storeVars
<1>3. CASE IssueFails(s)
  <2>1. /\ UNCHANGED <<cred, lateRevoke, now, req, expires, status>>
        /\ lateIssue' \subseteq lateIssue \union {s}
        /\ cred[s] = "none" /\ status[s] = "NONE"
        /\ pc' = [pc EXCEPT ![s] = "auditError"]
    BY <1>3 DEF IssueFails, NotIssued, SessionInv, RequestInv, storeVars
  <2> QED
    BY <2>1 DEF LateInv, Local, Provider, Entitled, Owner
<1>4. CASE SaveSession(s)
  BY <1>0, <1>4, LateInvKept DEF SaveSession, SetStatus, MaybeSetStatus, LateInv
<1>5. CASE AuditRequest(s) \/ ScheduleRevocation(s)
  BY <1>0, <1>5, LateInvKept DEF AuditRequest, ScheduleRevocation, LateInv
<1> QED
  BY <1>1, <1>2, <1>3, <1>4, <1>5 DEF RequestStep, FinishRequest

\* A revoke call leaves a removal on its way after it has passed the check.
LEMMA RevokeLate ==
  ASSUME Inv, NEW c \in Clients, NEW s \in Sessions, RevokeStep(c, s), NEW x \in Sessions
  PROVE  LateInv(x)'
<1> USE DEF Inv, TypeOK
<1>0. Unix(now) \in Int
  BY BrokerAssumption, UnixType
<1>1. CASE RevokeAtProvider(c, s)
  <2>1. /\ UNCHANGED <<lateIssue, pc, req, now, expires, status>>
        /\ status[s] # "NONE" /\ Entitled(c, s)
    BY <1>1 DEF RevokeAtProvider, RevokeWorks, RevokeFails, SessionInv, RevokeInv, storeVars
  <2>2. \/ lateRevoke' = lateRevoke
        \/ ~Local(s) /\ lateRevoke' = lateRevoke \union {<<c, s>>}
    BY <1>1 DEF RevokeAtProvider, RevokeWorks, RevokeFails
  <2>3. x \in lateIssue => cred'[x] = cred[x]
    BY <1>1, <2>1 DEF RevokeAtProvider, RevokeWorks, RevokeFails, LateInv
  <2> QED
    BY <2>1, <2>2, <2>3 DEF LateInv, Local, Provider, Entitled, Owner
<1>2. CASE LoadSession(c, s) \/ AuditRevoke(c, s)
  BY <1>0, <1>2, LateInvKept DEF LoadSession, AuditRevoke, LateInv, storeVars
<1>3. CASE UpdateRevoked(c, s)
  <2>1. status[s] # "NONE"
    BY <1>3 DEF UpdateRevoked, SessionInv, RevokeInv
  <2> QED
    BY <1>0, <1>3, <2>1, LateInvKept DEF UpdateRevoked, SetStatus, MaybeSetStatus, LateInv
<1> QED
  BY <1>1, <1>2, <1>3 DEF RevokeStep, FinishRevoke

\* A poll leaves a removal on its way when the session has expired.
LEMMA SchedulerLate ==
  ASSUME Inv, SchedulerStep, NEW x \in Sessions
  PROVE  LateInv(x)'
<1> USE DEF Inv, TypeOK
<1>0. Unix(now) \in Int
  BY BrokerAssumption, UnixType
<1>1. CASE Poll \/ RemoveFromQueue \/ QueryExpired \/ SweepEnds
  BY <1>0, <1>1, LateInvKept
     DEF Poll, RemoveFromQueue, QueryExpired, SweepEnds, LateInv, apiVars, storeVars
<1>2. ASSUME NEW s \in Sessions, SweepRevoke(s)
      PROVE  LateInv(x)'
  <2>1. /\ UNCHANGED <<lateIssue, pc, req, now, expires, status>>
        /\ status[s] # "NONE" /\ Unix(expires[s]) <= Unix(now)
    BY <1>2 DEF SweepRevoke, RevokeWorks, RevokeFails, SessionInv, SweepInv, DueInv,
                apiVars, storeVars
  <2>2. \/ lateRevoke' = lateRevoke
        \/ ~Local(s) /\ lateRevoke' = lateRevoke \union {<<Scheduler, s>>}
    BY <1>2 DEF SweepRevoke, RevokeWorks, RevokeFails
  <2>3. x \in lateIssue => cred'[x] = cred[x]
    BY <1>2, <2>1 DEF SweepRevoke, RevokeWorks, RevokeFails, LateInv
  <2> QED
    BY <2>1, <2>2, <2>3 DEF LateInv, Local, Provider, Entitled, Owner
<1>3. ASSUME NEW s \in Sessions, SweepAudit(s) \/ SweepMarkFailed(s) \/ SweepMarkExpired(s)
      PROVE  LateInv(x)'
  <2>1. status[s] # "NONE"
    BY <1>3 DEF SweepAudit, SweepMarkFailed, SweepMarkExpired, SessionInv, SweepInv
  <2> QED
    BY <1>0, <1>3, <2>1, LateInvKept
       DEF SweepAudit, SweepMarkFailed, SweepMarkExpired, SetStatus, MaybeSetStatus, LateInv,
           apiVars
<1> QED
  BY <1>1, <1>2, <1>3 DEF SchedulerStep, SweepStep

\* Every step leaves on its way only what has a place at the target.
LEMMA LateInvStep ==
  ASSUME Inv, [Next]_vars, NEW x \in Sessions
  PROVE  LateInv(x)'
<1> USE DEF Inv, TypeOK
<1>0. Unix(now) \in Int
  BY BrokerAssumption, UnixType
<1>1. CASE Tick
  <2>1. Unix(now') \in Int /\ Unix(now) <= Unix(now')
    BY <1>1, BrokerAssumption, UnixType, UnixMonotone DEF Tick
  <2> QED
    BY <1>1, <2>1, LateInvKept DEF Tick, apiVars, storeVars
<1>2. CASE Cancel \/ UNCHANGED vars
  BY <1>0, <1>2, LateInvKept DEF Cancel, vars, apiVars, storeVars
<1>3. CASE Crash
  BY <1>0, <1>3, LateInvKept DEF Crash, LateInv, storeVars
<1>4. ASSUME NEW s \in Sessions, IssuedLate(s)
      PROVE  LateInv(x)'
  BY <1>0, <1>4, LateInvKept DEF IssuedLate, apiVars, storeVars
<1>5. ASSUME NEW s \in Sessions, NEW who \in Clients \union {Scheduler}, RevokedLate(who, s)
      PROVE  LateInv(x)'
  <2>1. status[s] # "NONE" /\ s \notin lateIssue
    BY <1>5 DEF RevokedLate, LateInv
  <2> QED
    BY <1>0, <1>5, <2>1, LateInvKept DEF RevokedLate, apiVars, storeVars
<1> QED
  BY <1>1, <1>2, <1>3, <1>4, <1>5, RequestLate, RevokeLate, SchedulerLate
     DEF Next, LateEffect

\* Every step of the broker, of the clock and of the faults keeps it.
LEMMA NextInv == Inv /\ [Next]_vars => Inv'
<1> SUFFICES ASSUME Inv, [Next]_vars, NEW x \in Sessions PROVE SessionInv(x)'
  BY NextType, LateInvStep DEF Inv
<1> USE DEF Inv, SessionInv, RequestInv, RowInv, RevokeInv, SweepInv, DueInv, Closed,
            Live, Local, Provider, Entitled, Owner
<1>1. CASE Tick
  <2>1. Unix(expires[x]) \in Int /\ Unix(now) \in Int /\ Unix(now') \in Int
    BY <1>1, BrokerAssumption, UnixType DEF Tick, TypeOK
  <2>2. Unix(now) <= Unix(now')
    BY <1>1, BrokerAssumption, UnixMonotone DEF Tick, TypeOK
  <2> QED
    BY <1>1, <2>1, <2>2 DEF Tick, apiVars, pollVars, storeVars
<1>2. CASE Cancel
  BY <1>2 DEF Cancel, apiVars, pollVars, storeVars
<1>3. CASE Crash
  BY <1>3 DEF Crash, TypeOK, Revokers, storeVars
<1>4. CASE UNCHANGED vars
  BY <1>4 DEF vars
<1> QED
  BY <1>1, <1>2, <1>3, <1>4, RequestStepInv, RevokeStepInv, SchedulerStepInv,
     LateEffectInv DEF Next

\* The invariant holds in every behaviour.
THEOREM Invariance == Spec => []Inv
  BY InitInv, NextInv, PTL DEF Spec

\* A closed row is the truth: no session is marked REVOKED or EXPIRED while
\* the credential it stands for can still be used.
THEOREM ClosedSessionsAreGone == Spec => []ClosedMeansGone
<1>1. Inv => ClosedMeansGone
  BY DEF Inv, SessionInv, RowInv, ClosedMeansGone
<1> QED
  BY <1>1, Invariance, PTL

-----------------------------------------------------------------------------
(***************************************************************************)
(* Early removal.                                                          *)
(***************************************************************************)

\* The excuse of a removal: the step is the revoke call of an entitled
\* client, or what such a call has left on its way.
Excused(c, s) ==
    /\ Entitled(c, s)
    /\ \/ rpc[<<c, s>>] = "revoke" /\ rpc'[<<c, s>>] # "revoke"
       \/ <<c, s>> \in lateRevoke

\* One step: the scheduler's loop holds only sessions that have expired, what
\* it left on its way was ordered then, and an early removal goes back to a
\* revoke call, which checked its caller.
LEMMA StepEntitled ==
  ASSUME Inv, [Next]_vars, NEW x \in Sessions,
         cred[x] = "live", cred'[x] = "removed"
  PROVE  Unix(expires[x]) <= Unix(now) \/ \E c \in Clients : Excused(c, x)
<1> USE DEF Inv, TypeOK
<1>1. ASSUME NEW s \in Sessions, RequestStep(s)
      PROVE  FALSE
  BY <1>1 DEF RequestStep, FinishRequest, Authorize, Issue, IssueFails, NotIssued, SaveSession,
              AuditRequest, ScheduleRevocation
<1>2. ASSUME NEW c \in Clients, NEW s \in Sessions, RevokeStep(c, s)
      PROVE  Excused(c, x)
  <2>1. RevokeAtProvider(c, s)
    BY <1>2 DEF RevokeStep, FinishRevoke, LoadSession, UpdateRevoked, AuditRevoke
  <2>2. s = x
    BY <2>1 DEF RevokeAtProvider, RevokeWorks, RevokeFails
  <2> QED
    BY <2>1, <2>2 DEF RevokeAtProvider, GotoR, SessionInv, RevokeInv, Revokers, Excused
<1>3. CASE SchedulerStep
  <2>1. PICK s \in Sessions : SweepRevoke(s)
    BY <1>3 DEF SchedulerStep, SweepStep, Poll, RemoveFromQueue, QueryExpired, SweepEnds,
                SweepAudit, SweepMarkFailed, SweepMarkExpired
  <2>2. s = x
    BY <2>1 DEF SweepRevoke, RevokeWorks, RevokeFails
  <2> QED
    BY <2>1, <2>2 DEF SweepRevoke, SessionInv, DueInv
<1>4. CASE LateEffect
  <2>1. PICK who \in Clients \union {Scheduler} : RevokedLate(who, x)
    BY <1>4 DEF LateEffect, IssuedLate, RevokedLate
  <2>2. <<who, x>> \in lateRevoke
    BY <2>1 DEF RevokedLate
  <2>3. (who \in Clients /\ Entitled(who, x)) \/ Unix(expires[x]) <= Unix(now)
    BY <2>2 DEF LateInv
  <2> QED
    BY <2>2, <2>3 DEF Excused
<1>5. CASE Tick \/ Cancel \/ Crash \/ UNCHANGED vars
  BY <1>5 DEF Tick, Cancel, Crash, vars
<1> QED
  BY <1>1, <1>2, <1>3, <1>4, <1>5 DEF Next

\* Before the second of its expiry a credential is taken away only by a
\* revoke call of the session's owner or of an admin, at once or late.
THEOREM EarlyRemovalIsEntitled == Spec => OnlyEntitledEarly
<1>1. Inv /\ [Next]_vars =>
        [\A s \in Sessions :
           (cred[s] = "live" /\ cred'[s] = "removed" /\ Unix(expires[s]) > Unix(now))
             => \E c \in Clients : /\ Entitled(c, s)
                                   /\ \/ rpc[<<c, s>>] = "revoke" /\ rpc'[<<c, s>>] # "revoke"
                                      \/ <<c, s>> \in lateRevoke]_vars
  <2> SUFFICES ASSUME Inv, [Next]_vars, NEW s \in Sessions,
                      cred[s] = "live", cred'[s] = "removed", Unix(expires[s]) > Unix(now)
               PROVE  \E c \in Clients : Excused(c, s)
    BY DEF Excused
  <2>1. Unix(expires[s]) \in Int /\ Unix(now) \in Int
    BY UnixType, BrokerAssumption DEF Inv, TypeOK
  <2> QED
    BY <2>1, StepEntitled
<1> QED
  BY <1>1, Invariance, PTL DEF Spec, OnlyEntitledEarly

-----------------------------------------------------------------------------
(***************************************************************************)
(* Nobody gets in unasked.                                                 *)
(***************************************************************************)

\* The request has passed the checks, or its credential is there.
Granted(s) == pc[s] \in {"issue", "save"} \/ s \in lateIssue \/ cred[s] # "none"

\* Nothing has come between Evaluate and the policies table: nothing has
\* failed yet, or the table always answers and no client goes away.
Undisturbed == faults = 0 \/ FaultKinds \intersect {"store", "cancel"} = {}

\* What the checks have found, for as long as it matters.
Permitted(s) ==
    /\ req[s].resource \in Enabled
    /\ \E r \in RowsFor(Policies, Asked(s)) : Allows(r, Asked(s))
    /\ Undisturbed => Answers(s, Policies) = {"allow"}

\* The session has an expiry, and it is not later than was asked.
Timed(s) == pc[s] = "save" \/ HasRow(s)

Bounded(s) == expires[s] <= now + (IF req[s].duration > 0 THEN req[s].duration ELSE 0)

PermitInv ==
    /\ Undisturbed => cancelled = {}
    /\ \A s \in Sessions : (Granted(s) => Permitted(s)) /\ (Timed(s) => Bounded(s))

\* A request that is allowed over some of the rows has one among them that
\* allows it.
LEMMA AllowedByARow ==
  ASSUME NEW s, NEW rows, "allow" \in Answers(s, rows)
  PROVE  /\ \E r \in RowsFor(rows, Asked(s)) : Allows(r, Asked(s))
         /\ Answers(s, rows) = {"allow"}
  BY DEF Answers, Outcomes

\* The rows that arrived are rows of the table.
LEMMA SomeRowsAreRows ==
  ASSUME NEW s, NEW rows \in SUBSET Policies
  PROVE  RowsFor(rows, Asked(s)) \subseteq RowsFor(Policies, Asked(s))
  BY DEF RowsFor

\* What no step changes, and what only grows.
LEMMA StepGrows ==
  ASSUME TypeOK, [Next]_vars
  PROVE  /\ req' = req
         /\ faults' \in Nat /\ faults <= faults'
         /\ now' \in Nat /\ now <= now'
<1>0. faults \in Nat /\ now \in Nat
  BY BrokerAssumption DEF TypeOK
<1>1. req' = req
  BY DEF Next, RequestStep, FinishRequest, Authorize, Issue, IssueFails, SaveSession,
         AuditRequest, ScheduleRevocation, RevokeStep, FinishRevoke, LoadSession,
         RevokeAtProvider, UpdateRevoked, AuditRevoke, SchedulerStep, Poll, RemoveFromQueue,
         QueryExpired, SweepEnds, SweepStep, SweepRevoke, SweepAudit, SweepMarkFailed,
         SweepMarkExpired, Tick, Cancel, LateEffect, IssuedLate, RevokedLate, Crash, vars
<1>2. faults' = faults \/ faults' = faults + 1
  <2> USE DEF Works, Fails, Fault
  <2>1. ASSUME NEW s \in Sessions, RequestStep(s)
        PROVE  faults' = faults \/ faults' = faults + 1
    BY <2>1 DEF RequestStep, FinishRequest, Authorize, Issue, IssueFails, SaveSession,
                AuditRequest, AuditAs, ScheduleRevocation
  <2>2. ASSUME NEW c \in Clients, NEW s \in Sessions, RevokeStep(c, s)
        PROVE  faults' = faults \/ faults' = faults + 1
    BY <2>2 DEF RevokeStep, FinishRevoke, LoadSession, RevokeAtProvider, RevokeWorks,
                RevokeFails, UpdateRevoked, AuditRevoke, AuditAs
  <2>3. CASE SchedulerStep
    BY <2>3 DEF SchedulerStep, Poll, RemoveFromQueue, QueryExpired, SweepEnds, SweepStep,
                SweepRevoke, RevokeWorks, RevokeFails, SweepAudit, AuditAs, SweepMarkFailed,
                SweepMarkExpired
  <2>4. CASE Tick \/ Cancel \/ LateEffect \/ Crash \/ UNCHANGED vars
    BY <2>4 DEF Tick, Cancel, LateEffect, IssuedLate, RevokedLate, Crash, vars
  <2> QED
    BY <2>1, <2>2, <2>3, <2>4 DEF Next
<1>3. now' = now \/ now' = now + 1
  BY DEF Next, RequestStep, FinishRequest, Authorize, Issue, IssueFails, SaveSession,
         AuditRequest, ScheduleRevocation, RevokeStep, FinishRevoke, LoadSession,
         RevokeAtProvider, UpdateRevoked, AuditRevoke, SchedulerStep, Poll, RemoveFromQueue,
         QueryExpired, SweepEnds, SweepStep, SweepRevoke, SweepAudit, SweepMarkFailed,
         SweepMarkExpired, Tick, Cancel, LateEffect, IssuedLate, RevokedLate, Crash, vars
<1> QED
  BY <1>0, <1>1, <1>2, <1>3

\* A step after which nothing has come between was undisturbed itself.
LEMMA UndisturbedStep ==
  ASSUME TypeOK, [Next]_vars, Undisturbed'
  PROVE  Undisturbed /\ ~Fault("store") /\ ~Fault("cancel")
<1>1. faults \in Nat /\ faults' \in Nat /\ faults <= faults'
  BY StepGrows, BrokerAssumption DEF TypeOK
<1> QED
  BY <1>1 DEF Undisturbed, Fault, CanFail

\* Contexts end by Cancel alone.
LEMMA CancelledStep ==
  ASSUME TypeOK, PermitInv, [Next]_vars, Undisturbed'
  PROVE  cancelled' = {}
<1>1. cancelled = {} /\ ~Cancel
  BY UndisturbedStep DEF PermitInv, Cancel
<1> QED
  BY <1>1 DEF Next, RequestStep, FinishRequest, Authorize, Issue, IssueFails, SaveSession,
         AuditRequest, ScheduleRevocation, RevokeStep, FinishRevoke, LoadSession,
         RevokeAtProvider, UpdateRevoked, AuditRevoke, SchedulerStep, Poll, RemoveFromQueue,
         QueryExpired, SweepEnds, SweepStep, SweepRevoke, SweepAudit, SweepMarkFailed,
         SweepMarkExpired, Tick, LateEffect, IssuedLate, RevokedLate, Crash, vars

\* A step that grants nothing new and sets no expiry.
LEMMA PermitKept ==
  ASSUME TypeOK, PermitInv, [Next]_vars, NEW x \in Sessions,
         Granted(x)' => Granted(x),
         Timed(x)' => Timed(x) /\ expires'[x] = expires[x]
  PROVE  (Granted(x) => Permitted(x))' /\ (Timed(x) => Bounded(x))'
<1>1. /\ req' = req /\ now \in Nat /\ now' \in Nat /\ now <= now'
      /\ req[x].duration \in Int /\ expires[x] \in Int
  BY StepGrows, BrokerAssumption DEF TypeOK
<1>2. Permitted(x) => Permitted(x)'
  BY <1>1, UndisturbedStep DEF Permitted, Asked, Answers, Owner
<1>3. Bounded(x) /\ expires'[x] = expires[x] => Bounded(x)'
  BY <1>1 DEF Bounded
<1> QED
  BY <1>2, <1>3 DEF PermitInv

\* Only a request that Evaluate allowed goes on to the provider.
LEMMA AuthorizePermits ==
  ASSUME Inv, PermitInv, NEW s \in Sessions, Authorize(s), pc'[s] = "issue"
  PROVE  Permitted(s)'
<1>1. Next
  BY DEF Next, RequestStep
<1>2. req' = req
  BY DEF Authorize
<1>3. ASSUME NEW rows, Decide(s, rows)
      PROVE  "allow" \in Answers(s, rows)
  <2>1. s \in DOMAIN pc
    BY DEF Inv, TypeOK
  <2> QED
    BY <1>3, <2>1, AnswersType DEF Decide, Goto
<1>4. ~Goto(s, "done")
  BY DEF Goto, Inv, TypeOK
<1>5. req[s].resource \in Enabled
  BY <1>4 DEF Authorize
<1>6. \/ Decide(s, Policies)
      \/ Fails("store", s) /\ \E rows \in SUBSET Policies : Decide(s, rows)
  BY <1>4 DEF Authorize
<1>7. PICK rows \in SUBSET Policies : "allow" \in Answers(s, rows)
  BY <1>3, <1>6
<1>8. \E r \in RowsFor(Policies, Asked(s)) : Allows(r, Asked(s))
  BY <1>7, AllowedByARow, SomeRowsAreRows
<1>9. Undisturbed' => Answers(s, Policies) = {"allow"}
  <2> SUFFICES ASSUME Undisturbed' PROVE "allow" \in Answers(s, Policies)
    BY AllowedByARow
  <2>1. Undisturbed /\ ~Fault("store")
    BY <1>1, UndisturbedStep DEF Inv
  <2>2. ~Fails("store", s)
    BY <2>1 DEF PermitInv, Fails
  <2> QED
    BY <1>3, <1>6, <2>2
<1> QED
  BY <1>2, <1>5, <1>8, <1>9 DEF Permitted, Asked, Answers, Owner

\* Every step of HandleRequestSession.
LEMMA RequestPermits ==
  ASSUME Inv, PermitInv, NEW s \in Sessions, RequestStep(s), NEW x \in Sessions
  PROVE  (Granted(x) => Permitted(x))' /\ (Timed(x) => Bounded(x))'
<1>0. [Next]_vars
  BY DEF Next
<1> USE DEF Inv, Granted, Timed, HasRow, Goto
<1>1. CASE Authorize(s)
  <2>1. /\ UNCHANGED <<cred, lateIssue, expires, status>>
        /\ pc'[s] \in {"issue", "auditDenied", "done"} /\ pc' = [pc EXCEPT ![s] = pc'[s]]
    BY <1>1, AnswersType DEF Authorize, Decide, TypeOK, storeVars
  <2>2. CASE x = s /\ pc'[s] = "issue"
    <3>1. Permitted(x)'
      BY <1>1, <2>2, AuthorizePermits
    <3>2. ~Timed(x)'
      BY <1>1, <2>1, <2>2 DEF Authorize, SessionInv, RequestInv
    <3> QED
      BY <3>1, <3>2
  <2>3. CASE x # s \/ pc'[s] # "issue"
    BY <1>0, <1>1, <2>1, <2>3, PermitKept DEF TypeOK, Authorize
  <2> QED
    BY <2>2, <2>3
<1>2. CASE Issue(s)
  <2>1. /\ pc[s] = "issue" /\ pc' = [pc EXCEPT ![s] = "save"]
        /\ expires' = [expires EXCEPT ![s] = Expiry(s)]
        /\ cred' = [cred EXCEPT ![s] = "live"]
        /\ UNCHANGED <<now, req, lateIssue, status>>
    BY <1>2 DEF Issue, storeVars
  <2>2. CASE x = s
    <3>1. Permitted(x)'
      <4>1. Permitted(x)
        BY <2>1, <2>2 DEF PermitInv
      <4>2. Undisturbed' => Undisturbed
        BY <1>0, UndisturbedStep
      <4> QED
        BY <2>1, <4>1, <4>2 DEF Permitted, Asked, Answers, Owner
    <3>2. Bounded(x)'
      BY <2>1, <2>2, ExpiryType DEF Bounded, TypeOK
    <3> QED
      BY <3>1, <3>2
  <2>3. CASE x # s
    BY <1>0, <2>1, <2>3, PermitKept DEF TypeOK
  <2> QED
    BY <2>2, <2>3
<1>3. CASE IssueFails(s)
  BY <1>0, <1>3, PermitKept DEF IssueFails, NotIssued, TypeOK, storeVars
<1>4. CASE SaveSession(s)
  BY <1>0, <1>4, PermitKept DEF SaveSession, SetStatus, MaybeSetStatus, TypeOK
<1>5. CASE AuditRequest(s) \/ ScheduleRevocation(s)
  BY <1>0, <1>5, PermitKept DEF AuditRequest, ScheduleRevocation, TypeOK
<1> QED
  BY <1>1, <1>2, <1>3, <1>4, <1>5 DEF RequestStep, FinishRequest

\* Nothing else grants anything: a revoke and a poll find the credential
\* there, and what comes late was granted before.
LEMMA OthersPermit ==
  ASSUME Inv, PermitInv, [Next]_vars, NEW x \in Sessions,
         \A s \in Sessions : ~RequestStep(s)
  PROVE  (Granted(x) => Permitted(x))' /\ (Timed(x) => Bounded(x))'
<1> USE DEF Inv, TypeOK, Granted, Timed, HasRow
<1>1. ASSUME NEW c \in Clients, NEW s \in Sessions, RevokeStep(c, s)
      PROVE  /\ Granted(x)' => Granted(x)
             /\ Timed(x)' => Timed(x) /\ expires'[x] = expires[x]
  <2>1. rpc[<<c, s>>] # "idle" => cred[s] # "none" /\ status[s] # "NONE"
    BY DEF SessionInv, RevokeInv, RowInv
  <2> QED
    BY <1>1, <2>1 DEF RevokeStep, FinishRevoke, LoadSession, RevokeAtProvider, RevokeWorks,
                RevokeFails, UpdateRevoked, SetStatus, MaybeSetStatus, AuditRevoke, storeVars
<1>2. CASE SchedulerStep
  <2>1. CASE Poll \/ RemoveFromQueue \/ QueryExpired \/ SweepEnds
    BY <2>1, PermitKept
       DEF Poll, RemoveFromQueue, QueryExpired, SweepEnds, apiVars, storeVars
  <2>2. ASSUME NEW s \in Sessions, SweepStep(s)
        PROVE  /\ Granted(x)' => Granted(x)
               /\ Timed(x)' => Timed(x) /\ expires'[x] = expires[x]
    <3>1. sweep[s] # "out" => cred[s] # "none" /\ status[s] # "NONE"
      BY DEF SessionInv, SweepInv, RowInv
    <3> QED
      BY <2>2, <3>1 DEF SweepStep, SweepRevoke, RevokeWorks, RevokeFails, SweepAudit,
                        SweepMarkFailed, SweepMarkExpired, SetStatus, MaybeSetStatus,
                        apiVars, storeVars
  <2> QED
    BY <1>2, <2>1, <2>2, PermitKept DEF SchedulerStep
<1>3. CASE LateEffect
  <2>1. ASSUME NEW s \in Sessions, IssuedLate(s)
        PROVE  /\ Granted(x)' => Granted(x)
               /\ Timed(x)' => Timed(x) /\ expires'[x] = expires[x]
    BY <2>1 DEF IssuedLate, apiVars, storeVars
  <2>2. ASSUME NEW s \in Sessions, NEW who \in Clients \union {Scheduler}, RevokedLate(who, s)
        PROVE  /\ Granted(x)' => Granted(x)
               /\ Timed(x)' => Timed(x) /\ expires'[x] = expires[x]
    <3>1. cred[s] # "none"
      BY <2>2 DEF RevokedLate, LateInv, SessionInv, RowInv
    <3> QED
      BY <2>2, <3>1 DEF RevokedLate, apiVars, storeVars
  <2> QED
    BY <1>3, <2>1, <2>2, PermitKept DEF LateEffect
<1>4. CASE Tick \/ Cancel \/ Crash \/ UNCHANGED vars
  BY <1>4, PermitKept DEF Tick, Cancel, Crash, vars, apiVars, storeVars
<1> QED
  BY <1>1, <1>2, <1>3, <1>4, PermitKept DEF Next

\* Every step keeps what the checks found.
LEMMA PermitStep == Inv /\ PermitInv /\ [Next]_vars => PermitInv'
<1> SUFFICES ASSUME Inv, PermitInv, [Next]_vars PROVE PermitInv'
  OBVIOUS
<1>1. Undisturbed' => cancelled' = {}
  BY CancelledStep DEF Inv
<1>2. ASSUME NEW x \in Sessions
      PROVE  (Granted(x) => Permitted(x))' /\ (Timed(x) => Bounded(x))'
  BY RequestPermits, OthersPermit
<1> QED
  BY <1>1, <1>2 DEF PermitInv

\* What the checks found holds in every behaviour.
THEOREM Permission == Spec => []PermitInv
<1>1. Init => PermitInv
  BY DEF Init, PermitInv, Granted, Timed, HasRow
<1> QED
  BY <1>1, PermitStep, Invariance, PTL DEF Spec

\* Whatever fails, races or comes late, a credential stands on an enabled
\* resource and on a row that allows its owner just what was asked; while
\* nothing has failed, no row of the table says otherwise.  No session
\* outlasts what was asked.
THEOREM AccessIsAllowedAlways == Spec => []AccessIsAllowed
<1>1. PermitInv => AccessIsAllowed
  BY DEF PermitInv, Granted, Permitted, Undisturbed, Timed, Bounded, AccessIsAllowed
<1> QED
  BY <1>1, Permission, PTL

\* The rows that refuse a request.
Refuses(r, c) == Denies(r, c) \/ Exceeds(r, c)

\* As long as the policies table answers and no client goes away, providers,
\* the queue and the process may fail at will: no credential ever exists that
\* a row of the table refuses its owner.
THEOREM NoRefusedAccess ==
  ASSUME FaultKinds \intersect {"store", "cancel"} = {}
  PROVE  Spec => [](\A s \in Sessions : cred[s] # "none" =>
                      \A r \in RowsFor(Policies, Asked(s)) : ~Refuses(r, Asked(s)))
<1>1. PermitInv => \A s \in Sessions : cred[s] # "none" =>
                      \A r \in RowsFor(Policies, Asked(s)) : ~Refuses(r, Asked(s))
  <2> SUFFICES ASSUME PermitInv, NEW s \in Sessions, cred[s] # "none"
               PROVE  \A r \in RowsFor(Policies, Asked(s)) : ~Refuses(r, Asked(s))
    OBVIOUS
  <2>1. Answers(s, Policies) = {"allow"}
    BY DEF PermitInv, Granted, Permitted, Undisturbed
  <2> QED
    BY <2>1 DEF Answers, Outcomes, Refuses
<1> QED
  BY <1>1, Permission, PTL

-----------------------------------------------------------------------------
(***************************************************************************)
(* The broker implements the ledger.                                       *)
(***************************************************************************)

\* The entry of session s moves as the ledger allows, or stays.
Moves(s) ==
    \/ /\ AccessOf(s) = "none" /\ BookOf(s) = "unknown"
       /\ AccessOf(s)' \in {"granted", "lapsing"} /\ BookOf(s)' = BookOf(s)
    \/ /\ BookOf(s) = "unknown" /\ AccessOf(s) # "none"
       /\ BookOf(s)' = "open" /\ AccessOf(s)' = AccessOf(s)
    \/ /\ AccessOf(s) = "granted" /\ BookOf(s) = "open"
       /\ AccessOf(s)' = "removed" /\ BookOf(s)' = BookOf(s)
    \/ /\ BookOf(s) = "open" /\ AccessOf(s) # "granted"
       /\ BookOf(s)' = "closed" /\ AccessOf(s)' = AccessOf(s)
    \/ /\ BookOf(s) = "closed" /\ AccessOf(s) # "granted"
       /\ BookOf(s)' = "open" /\ AccessOf(s)' = AccessOf(s)
    \/ AccessOf(s)' = AccessOf(s) /\ BookOf(s)' = BookOf(s)

Stays(s) == AccessOf(s)' = AccessOf(s) /\ BookOf(s)' = BookOf(s)

\* A step that moves the entry of one session is a step of the ledger.
LEMMA MoveIsLedgerStep ==
  ASSUME NEW s \in Sessions, Moves(s), \A x \in Sessions : x # s => Stays(x)
  PROVE  [Ledger!Next]_(Ledger!ledgerVars)
<1> DEFINE access == [x \in Sessions |-> AccessOf(x)]
           book   == [x \in Sessions |-> BookOf(x)]
<1>1. \A kind : AccessOf(s)' = kind => access' = [access EXCEPT ![s] = kind]
  BY DEF Stays
<1>2. \A entry : BookOf(s)' = entry => book' = [book EXCEPT ![s] = entry]
  BY DEF Stays
<1>3. AccessOf(s)' = AccessOf(s) => access' = access
  BY DEF Stays
<1>4. BookOf(s)' = BookOf(s) => book' = book
  BY DEF Stays
<1>5. access[s] = AccessOf(s) /\ book[s] = BookOf(s)
  OBVIOUS
<1> HIDE DEF access, book
<1>6. \/ Ledger!Grant(s) \/ Ledger!Open(s) \/ Ledger!Withdraw(s)
      \/ Ledger!Close(s) \/ Ledger!Reopen(s)
      \/ access' = access /\ book' = book
  BY <1>1, <1>2, <1>3, <1>4, <1>5
     DEF Moves, access, book, Ledger!Grant, Ledger!Open, Ledger!Withdraw, Ledger!Close,
         Ledger!Reopen
<1> QED
  BY <1>6 DEF access, book, Ledger!Next, Ledger!ledgerVars

\* A step that leaves the rows and the targets alone.
LEMMA StaysIsLedgerStep ==
  ASSUME UNCHANGED <<req, cred, status>>
  PROVE  [Ledger!Next]_(Ledger!ledgerVars)
<1>1. \A x \in Sessions : Stays(x)
  BY DEF Stays, AccessOf, BookOf, Closed, Local, Provider
<1> QED
  BY <1>1 DEF Stays, Ledger!ledgerVars

\* HandleRequestSession gives access once and then opens the row.
LEMMA RequestKeepsLedger ==
  ASSUME Inv, NEW s \in Sessions, RequestStep(s)
  PROVE  [Ledger!Next]_(Ledger!ledgerVars)
<1> USE DEF Inv, TypeOK, SessionInv, RequestInv, RowInv
<1>1. CASE Issue(s) \/ IssueFails(s)
  <2>1. \A x \in Sessions : x # s => Stays(x)
    BY <1>1 DEF Issue, IssueFails, NotIssued, Stays, AccessOf, BookOf, Closed,
                Local, Provider, storeVars
  <2>2. Moves(s)
    BY <1>1 DEF Issue, IssueFails, NotIssued, Moves, AccessOf, BookOf, Closed,
                Local, Provider, storeVars
  <2> QED
    BY <2>1, <2>2, MoveIsLedgerStep
<1>2. CASE SaveSession(s)
  <2>1. \A x \in Sessions : x # s => Stays(x)
    BY <1>2 DEF SaveSession, SetStatus, MaybeSetStatus, Stays, AccessOf, BookOf, Closed,
                Local, Provider
  <2>2. Moves(s)
    BY <1>2 DEF SaveSession, SetStatus, MaybeSetStatus, Moves, AccessOf, BookOf, Closed,
                Local, Provider
  <2> QED
    BY <2>1, <2>2, MoveIsLedgerStep
<1>3. CASE Authorize(s) \/ AuditRequest(s) \/ ScheduleRevocation(s)
  BY <1>3, StaysIsLedgerStep DEF Authorize, AuditRequest, ScheduleRevocation, storeVars
<1> QED
  BY <1>1, <1>2, <1>3 DEF RequestStep, FinishRequest

\* A credential that is taken away has a row, which is open.
LEMMA RemovalKeepsLedger ==
  ASSUME Inv, NEW s \in Sessions, status[s] # "NONE", ~Local(s), UNCHANGED <<req, status>>,
         cred' = [cred EXCEPT ![s] = "removed"]
  PROVE  [Ledger!Next]_(Ledger!ledgerVars)
<1> USE DEF Inv, TypeOK, SessionInv, RowInv, Live, Local, Provider
<1>1. \A x \in Sessions : x # s => Stays(x)
  BY DEF Stays, AccessOf, BookOf, Closed
<1>2. Moves(s)
  BY DEF Moves, AccessOf, BookOf, Closed
<1> QED
  BY <1>1, <1>2, MoveIsLedgerStep

\* A row that exists is closed, or opened again, only without live access.
LEMMA StatusKeepsLedger ==
  ASSUME Inv, NEW s \in Sessions, NEW st \in {"REVOKED", "EXPIRED", "FAILED"},
         status[s] # "NONE", UNCHANGED <<req, cred>>, MaybeSetStatus(s, st),
         st # "FAILED" => ~Live(s)
  PROVE  [Ledger!Next]_(Ledger!ledgerVars)
<1> USE DEF Inv, TypeOK, SessionInv, RowInv, Live, Local, Provider
<1>1. \A x \in Sessions : x # s => Stays(x)
  BY DEF MaybeSetStatus, SetStatus, Stays, AccessOf, BookOf, Closed
<1>2. Moves(s)
  BY DEF MaybeSetStatus, SetStatus, Moves, AccessOf, BookOf, Closed
<1> QED
  BY <1>1, <1>2, MoveIsLedgerStep

\* HandleRevokeSession takes access away and then closes the row.
LEMMA RevokeKeepsLedger ==
  ASSUME Inv, NEW c \in Clients, NEW s \in Sessions, RevokeStep(c, s)
  PROVE  [Ledger!Next]_(Ledger!ledgerVars)
<1> USE DEF Inv, SessionInv, RevokeInv
<1>1. CASE RevokeAtProvider(c, s)
  BY <1>1, RemovalKeepsLedger, StaysIsLedgerStep
     DEF RevokeAtProvider, RevokeWorks, RevokeFails, storeVars
<1>2. CASE UpdateRevoked(c, s)
  BY <1>2, StatusKeepsLedger DEF UpdateRevoked, MaybeSetStatus
<1>3. CASE LoadSession(c, s) \/ AuditRevoke(c, s)
  BY <1>3, StaysIsLedgerStep DEF LoadSession, AuditRevoke, storeVars
<1> QED
  BY <1>1, <1>2, <1>3 DEF RevokeStep, FinishRevoke

\* So does the scheduler.
LEMMA SchedulerKeepsLedger ==
  ASSUME Inv, SchedulerStep
  PROVE  [Ledger!Next]_(Ledger!ledgerVars)
<1> USE DEF Inv, SessionInv, SweepInv
<1>1. CASE Poll \/ RemoveFromQueue \/ QueryExpired \/ SweepEnds
  BY <1>1, StaysIsLedgerStep
     DEF Poll, RemoveFromQueue, QueryExpired, SweepEnds, storeVars
<1>2. ASSUME NEW s \in Sessions, SweepStep(s)
      PROVE  [Ledger!Next]_(Ledger!ledgerVars)
  <2>1. CASE SweepRevoke(s)
    BY <2>1, RemovalKeepsLedger, StaysIsLedgerStep
       DEF SweepRevoke, RevokeWorks, RevokeFails, storeVars
  <2>2. CASE SweepAudit(s)
    BY <2>2, StaysIsLedgerStep DEF SweepAudit
  <2>3. CASE SweepMarkFailed(s)
    BY <2>3, StatusKeepsLedger DEF SweepMarkFailed, MaybeSetStatus
  <2>4. CASE SweepMarkExpired(s)
    BY <2>4, StatusKeepsLedger DEF SweepMarkExpired, MaybeSetStatus
  <2> QED
    BY <1>2, <2>1, <2>2, <2>3, <2>4 DEF SweepStep
<1> QED
  BY <1>1, <1>2 DEF SchedulerStep

\* What comes late gives access to a session that will never have a row, or
\* takes it from one that has.
LEMMA LateEffectKeepsLedger ==
  ASSUME Inv, LateEffect
  PROVE  [Ledger!Next]_(Ledger!ledgerVars)
<1> USE DEF Inv, TypeOK, SessionInv, LateInv
<1>1. ASSUME NEW s \in Sessions, IssuedLate(s)
      PROVE  [Ledger!Next]_(Ledger!ledgerVars)
  <2>1. \A x \in Sessions : x # s => Stays(x)
    BY <1>1 DEF IssuedLate, Stays, AccessOf, BookOf, Closed, Local, Provider, storeVars
  <2>2. Moves(s)
    BY <1>1 DEF IssuedLate, Moves, AccessOf, BookOf, Closed, Local, Provider, storeVars
  <2> QED
    BY <2>1, <2>2, MoveIsLedgerStep
<1>2. ASSUME NEW s \in Sessions, NEW who \in Clients \union {Scheduler}, RevokedLate(who, s)
      PROVE  [Ledger!Next]_(Ledger!ledgerVars)
  BY <1>2, RemovalKeepsLedger DEF RevokedLate, storeVars
<1> QED
  BY <1>1, <1>2 DEF LateEffect

\* The handlers, the scheduler and every fault keep the ledger: access is
\* given once, taken away only from a session with an open row, and no row is
\* closed while there is access to take away.
THEOREM BrokerKeepsLedger == Spec => KeepsLedger
<1>1. Init => Ledger!Init
  BY DEF Init, Ledger!Init, AccessOf, BookOf
<1>2. Inv /\ [Next]_vars => [Ledger!Next]_(Ledger!ledgerVars)
  <2> SUFFICES ASSUME Inv, [Next]_vars PROVE [Ledger!Next]_(Ledger!ledgerVars)
    OBVIOUS
  <2>1. CASE Tick \/ Cancel \/ Crash \/ UNCHANGED vars
    BY <2>1, StaysIsLedgerStep DEF Tick, Cancel, Crash, vars, storeVars
  <2> QED
    BY <2>1, RequestKeepsLedger, RevokeKeepsLedger, SchedulerKeepsLedger,
       LateEffectKeepsLedger DEF Next
<1> QED
  BY <1>1, <1>2, Invariance, PTL DEF Spec, KeepsLedger, Ledger!Spec

-----------------------------------------------------------------------------
(***************************************************************************)
(* No orphan, as long as the broker's database answers.                    *)
(***************************************************************************)

\* The faults after which a credential may be left without a row.
OrphaningFaults == {"store", "lost", "cancel", "crash"}

TrackedInv == cancelled = {} /\ lateIssue = {} /\ LiveIsTracked

\* If the database answers, no reply is lost, no client goes away and the
\* process lives, then a live credential always has an open row, or its
\* request is about to insert it: providers and the queue may fail at will.
THEOREM NoOrphanWithoutTheseFaults ==
  ASSUME FaultKinds \intersect OrphaningFaults = {}
  PROVE  Spec => []LiveIsTracked
<1>1. Init => TrackedInv
  BY DEF Init, TrackedInv, LiveIsTracked, Live
<1>2. Inv /\ TrackedInv /\ [Next]_vars => TrackedInv'
  <2> SUFFICES ASSUME Inv, TrackedInv, [Next]_vars PROVE TrackedInv'
    OBVIOUS
  <2>0. \A kind \in OrphaningFaults : ~Fault(kind)
    BY DEF Fault, CanFail
  <2> USE DEF TrackedInv, LiveIsTracked, Live, Local, Provider, OrphaningFaults, Inv,
              TypeOK, Fails
  <2>1. ASSUME NEW s \in Sessions, RequestStep(s)
        PROVE  TrackedInv'
    <3>1. CASE Authorize(s)
      BY <2>0, <3>1 DEF Authorize, Decide, Goto, SessionInv, RequestInv, storeVars
    <3>2. CASE Issue(s)
      BY <3>2 DEF Issue, Goto, storeVars
    <3>3. CASE IssueFails(s)
      BY <2>0, <3>3 DEF IssueFails, NotIssued, Goto, SessionInv, RequestInv, RowInv,
                        storeVars
    <3>4. CASE SaveSession(s)
      BY <2>0, <3>4 DEF SaveSession, SetStatus, Goto
    <3>5. CASE AuditRequest(s) \/ ScheduleRevocation(s)
      BY <3>5 DEF AuditRequest, ScheduleRevocation, Goto
    <3> QED
      BY <2>1, <3>1, <3>2, <3>3, <3>4, <3>5 DEF RequestStep, FinishRequest
  <2>2. ASSUME NEW c \in Clients, NEW s \in Sessions, RevokeStep(c, s)
        PROVE  TrackedInv'
    BY <2>0, <2>2 DEF RevokeStep, FinishRevoke, LoadSession, RevokeAtProvider, RevokeWorks, RevokeFails,
                      UpdateRevoked, SetStatus, AuditRevoke, SessionInv, RevokeInv, storeVars
  <2>3. CASE SchedulerStep
    <3>1. CASE Poll \/ RemoveFromQueue \/ QueryExpired \/ SweepEnds
      BY <3>1 DEF Poll, RemoveFromQueue, QueryExpired, SweepEnds, apiVars, storeVars
    <3>2. ASSUME NEW s \in Sessions, SweepStep(s)
          PROVE  TrackedInv'
      BY <2>0, <3>2 DEF SweepStep, SweepRevoke, RevokeWorks, RevokeFails, SweepAudit,
                        SweepMarkFailed, SweepMarkExpired, SetStatus, MaybeSetStatus,
                        SessionInv, SweepInv, apiVars, storeVars
    <3> QED
      BY <2>3, <3>1, <3>2 DEF SchedulerStep
  <2>4. CASE Tick \/ UNCHANGED vars
    BY <2>4 DEF Tick, vars, apiVars, storeVars
  <2>5. CASE LateEffect
    BY <2>5 DEF LateEffect, IssuedLate, RevokedLate, apiVars, pollVars, storeVars
  <2>6. ~Cancel /\ ~Crash
    BY <2>0 DEF Cancel, Crash
  <2> QED
    BY <2>1, <2>2, <2>3, <2>4, <2>5, <2>6 DEF Next
<1>3. TrackedInv => LiveIsTracked
  BY DEF TrackedInv
<1> QED
  BY <1>1, <1>2, <1>3, Invariance, PTL DEF Spec

-----------------------------------------------------------------------------
(***************************************************************************)
(* What has become of a REVOKED row.                                       *)
(***************************************************************************)

\* A poll gives a session up only because something has failed.
BlameInv == \A s \in Sessions : sweep[s] \in {"auditError", "markFailed"} => faults > 0

\* A revocation fails at the target, or because the context of its poll has
\* ended, and that was a fault already.
LEMMA BlameStep == Inv /\ PermitInv /\ BlameInv /\ [Next]_vars => BlameInv'
<1> SUFFICES ASSUME Inv, PermitInv, BlameInv, [Next]_vars, NEW x \in Sessions,
                    sweep'[x] \in {"auditError", "markFailed"}
             PROVE  faults' > 0
  BY DEF BlameInv
<1>1. faults \in Nat /\ faults' \in Nat /\ faults <= faults'
  BY StepGrows, BrokerAssumption DEF Inv, TypeOK
<1>2. CASE sweep[x] \in {"auditError", "markFailed"}
  BY <1>1, <1>2 DEF BlameInv
<1>3. CASE sweep[x] \notin {"auditError", "markFailed"}
  <2>0. SchedulerStep
    BY <1>3 DEF Inv, TypeOK, Next, RequestStep, FinishRequest, Authorize, Issue, IssueFails,
                SaveSession, AuditRequest, ScheduleRevocation, RevokeStep, FinishRevoke,
                LoadSession, RevokeAtProvider, UpdateRevoked, AuditRevoke, Tick, Cancel,
                LateEffect, IssuedLate, RevokedLate, Crash, vars, pollVars
  <2>1. \E s \in Sessions : SweepRevoke(s) /\ sweep'[s] = "auditError"
    BY <1>3, <2>0 DEF Inv, TypeOK, SchedulerStep, Poll, RemoveFromQueue, QueryExpired,
                SweepEnds, SweepStep, SweepRevoke, SweepAudit, SweepMarkFailed,
                SweepMarkExpired, Sweep
  <2>2. Fails("target", Scheduler) \/ Fails("lost", Scheduler)
    BY <2>1 DEF Inv, TypeOK, SweepRevoke, Sweep, RevokeFails
  <2> QED
    BY <1>1, <2>2 DEF Fails, Fault, PermitInv, Undisturbed
<1> QED
  BY <1>2, <1>3

\* A row that says REVOKED says so at least until the second of its expiry;
\* after that only the scheduler changes it, to FAILED only if something has
\* failed, and nothing makes it active again.  The theorem does not look at
\* what the driver refuses (Accepted): it holds as well where EXPIRED is
\* written.
THEOREM RevokedSessionsStand == Spec => RevokedStands
<1>1. Init => PermitInv /\ BlameInv
  BY DEF Init, PermitInv, Granted, Timed, HasRow, BlameInv
<1>2. Inv /\ PermitInv /\ BlameInv /\ [Next]_vars =>
        [\A s \in Sessions :
           (status[s] = "REVOKED" /\ status'[s] # "REVOKED") =>
               /\ Unix(expires[s]) <= Unix(now)
               /\ \/ status'[s] = "EXPIRED"
                  \/ status'[s] = "FAILED" /\ faults > 0]_vars
  <2> SUFFICES ASSUME Inv, BlameInv, [Next]_vars, NEW x \in Sessions,
                      status[x] = "REVOKED", status'[x] # "REVOKED"
               PROVE  /\ Unix(expires[x]) <= Unix(now)
                      /\ \/ status'[x] = "EXPIRED"
                         \/ status'[x] = "FAILED" /\ faults > 0
    OBVIOUS
  <2> USE DEF Inv, TypeOK
  <2>1. ASSUME NEW s \in Sessions
        PROVE  ~RequestStep(s)
    <3>1. CASE SaveSession(s)
      <4>1. s # x
        BY <3>1 DEF SaveSession, SessionInv, RequestInv
      <4> QED
        BY <3>1, <4>1 DEF SaveSession, SetStatus, MaybeSetStatus
    <3>2. CASE ~SaveSession(s)
      BY <3>2 DEF RequestStep, FinishRequest, Authorize, Issue, IssueFails, AuditRequest,
                  ScheduleRevocation, storeVars
    <3> QED
      BY <3>1, <3>2
  <2>2. ASSUME NEW c \in Clients, NEW s \in Sessions
        PROVE  ~RevokeStep(c, s)
    BY DEF RevokeStep, FinishRevoke, LoadSession, RevokeAtProvider, UpdateRevoked, SetStatus,
           MaybeSetStatus, AuditRevoke, storeVars
  <2>3. ~(Tick \/ Cancel \/ LateEffect \/ Crash \/ UNCHANGED vars)
    BY DEF Tick, Cancel, LateEffect, IssuedLate, RevokedLate, Crash, vars, storeVars
  <2>4. SchedulerStep
    BY <2>1, <2>2, <2>3 DEF Next
  <2>5. SweepMarkFailed(x) \/ SweepMarkExpired(x)
    BY <2>4 DEF SchedulerStep, Poll, RemoveFromQueue, QueryExpired, SweepEnds, SweepStep,
                SweepRevoke, SweepAudit, SweepMarkFailed, SweepMarkExpired, SetStatus,
                MaybeSetStatus, storeVars
  <2>6. Unix(expires[x]) <= Unix(now)
    BY <2>5 DEF SweepMarkFailed, SweepMarkExpired, SessionInv, DueInv
  <2>7. status'[x] = "EXPIRED" \/ (status'[x] = "FAILED" /\ faults > 0)
    BY <2>5 DEF SweepMarkFailed, SweepMarkExpired, SetStatus, MaybeSetStatus, BlameInv
  <2> QED
    BY <2>6, <2>7
<1> QED
  BY <1>1, <1>2, BlameStep, PermitStep, Invariance, PTL DEF Spec, RevokedStands

-----------------------------------------------------------------------------
(***************************************************************************)
(* EXPIRED is never written, and the log tells the truth.                  *)
(***************************************************************************)

\* docs/architecture.md:337 lets an ACTIVE session become EXPIRED.  None ever
\* does, on any path: the only statement that says so is refused.
THEOREM NothingIsMarkedExpired == Spec => [](\A s \in Sessions : status[s] # "EXPIRED")
<1> DEFINE Unmarked == \A s \in Sessions : status[s] # "EXPIRED"
<1>1. Init => Unmarked
  BY DEF Init
<1>2. TypeOK /\ Unmarked /\ [Next]_vars => Unmarked'
  <2> SUFFICES ASSUME TypeOK, Unmarked, [Next]_vars PROVE Unmarked'
    OBVIOUS
  <2> USE DEF TypeOK
  <2>1. ASSUME NEW s \in Sessions, RequestStep(s)
        PROVE  Unmarked'
    BY <2>1 DEF RequestStep, FinishRequest, Authorize, Issue, IssueFails, SaveSession,
                SetStatus, MaybeSetStatus, AuditRequest, ScheduleRevocation, storeVars
  <2>2. ASSUME NEW c \in Clients, NEW s \in Sessions, RevokeStep(c, s)
        PROVE  Unmarked'
    BY <2>2 DEF RevokeStep, FinishRevoke, LoadSession, RevokeAtProvider, UpdateRevoked,
                SetStatus, MaybeSetStatus, AuditRevoke, storeVars
  <2>3. CASE SchedulerStep
    <3>1. ~Accepted("EXPIRED")
      BY DEF Accepted, Placeholders, Arguments
    <3> QED
      BY <2>3, <3>1 DEF SchedulerStep, Poll, RemoveFromQueue, QueryExpired, SweepEnds,
                        SweepStep, SweepRevoke, SweepAudit, SweepMarkFailed, SetStatus,
                        MaybeSetStatus, SweepMarkExpired, storeVars
  <2>4. CASE Tick \/ Cancel \/ LateEffect \/ Crash \/ UNCHANGED vars
    BY <2>4 DEF Tick, Cancel, LateEffect, IssuedLate, RevokedLate, Crash, vars, storeVars
  <2> QED
    BY <2>1, <2>2, <2>3, <2>4 DEF Next
<1> QED
  BY <1>1, <1>2, TypeCorrect, PTL DEF Spec

\* The row has been worked on and nothing can be used any more.
Over(s) == status[s] \notin {"NONE", "ACTIVE"} /\ ~Live(s)

\* What each entry of the log, and each handler about to write one, stands on.
TruthInv(s) ==
    /\ <<s, "request_session", "DENIED">> \in audit => pc[s] = "done" /\ cred[s] = "none"
                                                         /\ s \notin lateIssue
    /\ <<s, "request_session", "ERROR">> \in audit => pc[s] = "done" /\ status[s] = "NONE"
    /\ <<s, "request_session", "SUCCESS">> \in audit => status[s] # "NONE"
    /\ <<s, "revoke_session", "SUCCESS">> \in audit => Over(s)
    /\ \A c \in Clients : rpc[<<c, s>>] = "auditSuccess" => Over(s)

Truth == \A s \in Sessions : TruthInv(s)

\* What is over stays over, and what has a row keeps it.
LEMMA OverStays ==
  ASSUME Inv, [Next]_vars, NEW x \in Sessions
  PROVE  /\ Over(x) => Over(x)'
         /\ status[x] # "NONE" => status'[x] # "NONE"
<1> USE DEF Inv, TypeOK, Over, Live, Local, Provider
<1>1. ASSUME NEW s \in Sessions, RequestStep(s)
      PROVE  /\ Over(x) => Over(x)'
             /\ status[x] # "NONE" => status'[x] # "NONE"
  <2>1. pc[s] \in {"new", "issue", "save"} => status[s] = "NONE"
    BY DEF SessionInv, RequestInv
  <2> QED
    BY <1>1, <2>1 DEF RequestStep, FinishRequest, Authorize, Issue, IssueFails, NotIssued,
                SaveSession, SetStatus, MaybeSetStatus, AuditRequest, ScheduleRevocation, storeVars
<1>2. ASSUME NEW c \in Clients, NEW s \in Sessions, RevokeStep(c, s)
      PROVE  /\ Over(x) => Over(x)'
             /\ status[x] # "NONE" => status'[x] # "NONE"
  BY <1>2 DEF RevokeStep, FinishRevoke, LoadSession, RevokeAtProvider, RevokeWorks,
              RevokeFails, UpdateRevoked, SetStatus, MaybeSetStatus, AuditRevoke, storeVars
<1>3. CASE SchedulerStep
  BY <1>3 DEF SchedulerStep, Poll, RemoveFromQueue, QueryExpired, SweepEnds, SweepStep,
              SweepRevoke, RevokeWorks, RevokeFails, SweepAudit, SweepMarkFailed, SetStatus,
              MaybeSetStatus, SweepMarkExpired, apiVars, storeVars
<1>4. CASE LateEffect
  BY <1>4 DEF LateEffect, IssuedLate, RevokedLate, LateInv, storeVars
<1>5. CASE Tick \/ Cancel \/ Crash \/ UNCHANGED vars
  BY <1>5 DEF Tick, Cancel, Crash, vars, storeVars
<1> QED
  BY <1>1, <1>2, <1>3, <1>4, <1>5 DEF Next

\* A request that was refused or failed is left alone for good.
LEMMA DoneStays ==
  ASSUME Inv, [Next]_vars, NEW x \in Sessions, pc[x] = "done", status[x] = "NONE"
  PROVE  /\ pc'[x] = "done" /\ status'[x] = "NONE"
         /\ cred[x] = "none" /\ x \notin lateIssue => cred'[x] = "none" /\ x \notin lateIssue'
<1> USE DEF Inv, TypeOK
<1>1. ASSUME NEW s \in Sessions, RequestStep(s)
      PROVE  /\ pc'[x] = "done" /\ status'[x] = "NONE"
             /\ UNCHANGED <<cred[x]>> /\ (x \in lateIssue' => x \in lateIssue)
  <2>1. s # x
    BY <1>1 DEF RequestStep, FinishRequest, Authorize, Issue, IssueFails, SaveSession,
                AuditRequest, ScheduleRevocation
  <2>2. pc'[x] = pc[x]
    BY <1>1, <2>1 DEF RequestStep, FinishRequest, Authorize, Decide, Issue, IssueFails,
                SaveSession, AuditRequest, ScheduleRevocation, Goto
  <2> QED
    BY <1>1, <2>1, <2>2 DEF RequestStep, FinishRequest, Authorize, Issue, IssueFails, NotIssued,
                SaveSession, SetStatus, MaybeSetStatus, AuditRequest, ScheduleRevocation, storeVars
<1>2. ASSUME NEW c \in Clients, NEW s \in Sessions, RevokeStep(c, s)
      PROVE  UNCHANGED <<pc, status[x], cred[x], lateIssue>>
  <2>1. s # x
    BY <1>2 DEF RevokeStep, FinishRevoke, LoadSession, RevokeAtProvider, UpdateRevoked,
                AuditRevoke, SessionInv, RevokeInv
  <2> QED
    BY <1>2, <2>1 DEF RevokeStep, FinishRevoke, LoadSession, RevokeAtProvider, RevokeWorks,
              RevokeFails, UpdateRevoked, SetStatus, MaybeSetStatus, AuditRevoke, storeVars
<1>3. CASE SchedulerStep
  <2>1. sweep[x] = "out"
    BY DEF SessionInv, SweepInv
  <2> QED
    BY <1>3, <2>1 DEF SchedulerStep, Poll, RemoveFromQueue, QueryExpired, SweepEnds, SweepStep,
              SweepRevoke, RevokeWorks, RevokeFails, SweepAudit, SweepMarkFailed, SetStatus,
              MaybeSetStatus, SweepMarkExpired, apiVars, storeVars
<1>4. CASE LateEffect
  BY <1>4 DEF LateEffect, IssuedLate, RevokedLate, LateInv, apiVars, storeVars
<1>5. CASE Tick \/ Cancel \/ Crash \/ UNCHANGED vars
  BY <1>5 DEF Tick, Cancel, Crash, vars, apiVars, storeVars
<1> QED
  BY <1>1, <1>2, <1>3, <1>4, <1>5 DEF Next

\* A step that writes no entry and brings no revoke handler to its own.
LEMMA TruthKept ==
  ASSUME Inv, Truth, [Next]_vars, NEW x \in Sessions,
         \A action, result : <<x, action, result>> \in audit' => <<x, action, result>> \in audit,
         \A c \in Clients : rpc'[<<c, x>>] = "auditSuccess" => rpc[<<c, x>>] = "auditSuccess"
  PROVE  TruthInv(x)'
<1>1. TruthInv(x)
  BY DEF Truth
<1>2. <<x, "request_session", "DENIED">> \in audit => status[x] = "NONE"
  BY <1>1 DEF Inv, SessionInv, RowInv, TruthInv
<1> QED
  BY <1>1, <1>2, OverStays, DoneStays DEF TruthInv

\* HandleRequestSession writes what it has just found.
LEMMA RequestTruth ==
  ASSUME Inv, Truth, NEW s \in Sessions, RequestStep(s), NEW x \in Sessions
  PROVE  TruthInv(x)'
<1>0. [Next]_vars
  BY DEF Next
<1>1. CASE AuditRequest(s)
  <2>1. UNCHANGED <<rpc, cred, lateIssue, status>>
    BY <1>1 DEF AuditRequest
  <2>2. CASE x = s
    <3>1. TruthInv(x)
      BY DEF Truth
    <3>2. \/ audit' = audit
          \/ /\ pc[s] = "auditDenied" /\ pc'[s] = "done"
             /\ audit' = audit \union {<<s, "request_session", "DENIED">>}
          \/ /\ pc[s] = "auditError" /\ pc'[s] = "done"
             /\ audit' = audit \union {<<s, "request_session", "ERROR">>}
          \/ /\ pc[s] = "auditSuccess"
             /\ audit' = audit \union {<<s, "request_session", "SUCCESS">>}
      BY <1>1 DEF AuditRequest, AuditAs, Goto, Inv, TypeOK
    <3>3. /\ pc[s] # "done"
          /\ pc[s] = "auditDenied" => cred[s] = "none" /\ s \notin lateIssue
          /\ pc[s] = "auditError" => status[s] = "NONE"
          /\ pc[s] = "auditSuccess" => status[s] # "NONE"
      BY <1>1 DEF AuditRequest, Inv, SessionInv, RequestInv, LateInv
    <3>4. Over(x) => Over(x)'
      BY <1>0, OverStays
    <3>5. CASE audit' = audit
      BY <1>0, <2>1, <3>5, TruthKept
    <3> QED
      BY <2>1, <2>2, <3>1, <3>2, <3>3, <3>4, <3>5 DEF TruthInv
  <2>3. CASE x # s
    BY <1>0, <1>1, <2>1, <2>3, TruthKept DEF AuditRequest, AuditAs
  <2> QED
    BY <2>2, <2>3
<1>2. CASE ~AuditRequest(s)
  <2>1. UNCHANGED <<rpc, audit>>
    BY <1>2 DEF RequestStep, FinishRequest, Authorize, Issue, IssueFails, SaveSession,
                ScheduleRevocation, storeVars
  <2> QED
    BY <1>0, <2>1, TruthKept
<1> QED
  BY <1>1, <1>2

\* HandleRevokeSession writes SUCCESS after the provider and the UPDATE.
LEMMA RevokeTruth ==
  ASSUME Inv, Truth, NEW c \in Clients, NEW s \in Sessions, RevokeStep(c, s), NEW x \in Sessions
  PROVE  TruthInv(x)'
<1>0. /\ [Next]_vars /\ <<c, s>> \in Revokers /\ TruthInv(x) /\ TruthInv(s)
      /\ rpc \in [Revokers -> {"idle", "revoke", "update", "auditSuccess", "auditError"}]
      /\ status \in [Sessions -> {"NONE", "ACTIVE", "FAILED", "REVOKED", "EXPIRED"}]
  BY DEF Next, Revokers, Truth, Inv, TypeOK
<1>1. CASE LoadSession(c, s) \/ RevokeAtProvider(c, s)
  <2>1. /\ audit' = audit
        /\ \E step \in {"revoke", "update", "auditError"} : rpc' = [rpc EXCEPT ![<<c, s>>] = step]
    BY <1>1 DEF LoadSession, RevokeAtProvider, GotoR, storeVars
  <2>2. \A d \in Clients : rpc'[<<d, x>>] = "auditSuccess" => rpc[<<d, x>>] = "auditSuccess"
    BY <1>0, <2>1 DEF Revokers
  <2> QED
    BY <1>0, <2>1, <2>2, TruthKept
<1>2. CASE UpdateRevoked(c, s)
  <2>1. /\ audit' = audit /\ UNCHANGED <<req, cred>>
        /\ rpc[<<c, s>>] = "update"
        /\ \/ /\ status' = [status EXCEPT ![s] = "REVOKED"]
              /\ rpc' = [rpc EXCEPT ![<<c, s>>] = "auditSuccess"]
           \/ rpc' = [rpc EXCEPT ![<<c, s>>] = "idle"]
    BY <1>2 DEF UpdateRevoked, SetStatus, GotoR
  <2>2. CASE x = s /\ status' = [status EXCEPT ![s] = "REVOKED"]
    <3>1. ~Live(s) /\ status[s] # "NONE" /\ cred[s] # "none"
      BY <2>1 DEF Inv, SessionInv, RevokeInv, RowInv
    <3>2. Over(x)'
      BY <1>0, <2>1, <2>2, <3>1 DEF Over, Live, Local, Provider
    <3> QED
      BY <1>0, <2>1, <2>2, <3>1, <3>2 DEF TruthInv
  <2>3. CASE ~(x = s /\ status' = [status EXCEPT ![s] = "REVOKED"])
    <3>1. \A d \in Clients : rpc'[<<d, x>>] = "auditSuccess" => rpc[<<d, x>>] = "auditSuccess"
      BY <1>0, <2>1, <2>3 DEF Revokers
    <3> QED
      BY <1>0, <2>1, <3>1, TruthKept
  <2> QED
    BY <2>2, <2>3
<1>3. CASE AuditRevoke(c, s)
  <2>1. /\ UNCHANGED <<req, pc, cred, lateIssue, status>>
        /\ rpc' = [rpc EXCEPT ![<<c, s>>] = "idle"]
        /\ \/ audit' = audit
           \/ audit' = audit \union {<<s, "revoke_session", "ERROR">>}
           \/ /\ rpc[<<c, s>>] = "auditSuccess"
              /\ audit' = audit \union {<<s, "revoke_session", "SUCCESS">>}
    BY <1>3 DEF AuditRevoke, AuditAs, GotoR
  <2>2. \A d \in Clients : rpc'[<<d, x>>] = "auditSuccess" => rpc[<<d, x>>] = "auditSuccess"
    BY <1>0, <2>1 DEF Revokers
  <2>3. Over(x)' <=> Over(x)
    BY <2>1 DEF Over, Live, Local, Provider
  <2>4. rpc[<<c, s>>] = "auditSuccess" => Over(s)
    BY <1>0 DEF TruthInv
  <2> QED
    BY <1>0, <2>1, <2>2, <2>3, <2>4 DEF TruthInv
<1> QED
  BY <1>1, <1>2, <1>3 DEF RevokeStep, FinishRevoke

\* The scheduler writes ERROR, or SUCCESS after the provider has answered.
LEMMA SchedulerTruth ==
  ASSUME Inv, Truth, SchedulerStep, NEW x \in Sessions
  PROVE  TruthInv(x)'
<1>0. [Next]_vars /\ TruthInv(x)
  BY DEF Next, Truth
<1>1. UNCHANGED <<req, pc, rpc, lateIssue>>
  BY DEF SchedulerStep, Poll, RemoveFromQueue, QueryExpired, SweepEnds, SweepStep, SweepRevoke,
         RevokeWorks, RevokeFails, SweepAudit, SweepMarkFailed, SweepMarkExpired, apiVars
<1>2. ASSUME NEW s \in Sessions, SweepAudit(s)
      PROVE  TruthInv(x)'
  <2>1. /\ UNCHANGED <<cred, status>>
        /\ audit' = audit \/ audit' = audit \union {<<s, "revoke_session", "ERROR">>}
    BY <1>2 DEF SweepAudit, AuditAs
  <2>2. Over(x)' <=> Over(x)
    BY <1>1, <2>1 DEF Over, Live, Local, Provider
  <2> QED
    BY <1>0, <1>1, <2>1, <2>2 DEF TruthInv
<1>3. ASSUME NEW s \in Sessions, SweepMarkExpired(s)
      PROVE  TruthInv(x)'
  <2>1. \/ audit' = audit
        \/ /\ sweep[s] = "markExpired" /\ cred' = cred
           /\ status' = [status EXCEPT ![s] = "EXPIRED"]
           /\ audit' = audit \union {<<s, "revoke_session", "SUCCESS">>}
    BY <1>3 DEF SweepMarkExpired, SetStatus
  <2>2. CASE x = s /\ audit' # audit
    <3>1. ~Live(s) /\ status[s] # "NONE" /\ cred[s] # "none" /\ s \in DOMAIN status
      BY <2>1, <2>2 DEF Inv, TypeOK, SessionInv, SweepInv, RowInv
    <3>2. Over(x)'
      BY <1>1, <2>1, <2>2, <3>1 DEF Over, Live, Local, Provider
    <3> QED
      BY <1>0, <1>1, <2>1, <2>2, <3>1, <3>2 DEF TruthInv, Inv, SessionInv, RequestInv, RowInv
  <2>3. CASE x # s \/ audit' = audit
    BY <1>0, <1>1, <2>1, <2>3, TruthKept
  <2> QED
    BY <2>2, <2>3
<1>4. CASE \A s \in Sessions : ~SweepAudit(s) /\ ~SweepMarkExpired(s)
  <2>1. audit' = audit
    BY <1>4 DEF SchedulerStep, Poll, RemoveFromQueue, QueryExpired, SweepEnds, SweepStep,
                SweepRevoke, SweepMarkFailed, storeVars
  <2> QED
    BY <1>0, <1>1, <2>1, TruthKept
<1> QED
  BY <1>2, <1>3, <1>4

\* Every step keeps the log true.
LEMMA TruthStep == Inv /\ Truth /\ [Next]_vars => Truth'
<1> SUFFICES ASSUME Inv, Truth, [Next]_vars, NEW x \in Sessions PROVE TruthInv(x)'
  BY DEF Truth
<1>1. CASE Tick \/ Cancel \/ LateEffect \/ UNCHANGED vars
  <2>1. UNCHANGED <<rpc, audit>>
    BY <1>1 DEF Tick, Cancel, LateEffect, IssuedLate, RevokedLate, vars, apiVars, storeVars
  <2> QED
    BY <2>1, TruthKept
<1>2. CASE Crash
  <2>1. audit' = audit /\ \A c \in Clients : rpc'[<<c, x>>] = "idle"
    BY <1>2 DEF Crash, storeVars, Revokers
  <2> QED
    BY <2>1, TruthKept
<1> QED
  BY <1>1, <1>2, RequestTruth, RevokeTruth, SchedulerTruth DEF Next

\* What the audit log says is true and stays true, for any number of clients
\* and sessions and whatever fails, comes late or dies; repairing the
\* statement for EXPIRED would not change it.
THEOREM AuditIsTrue == Spec => []AuditTellsTruth
<1>1. Init => Truth
  BY DEF Init, Truth, TruthInv, Revokers
<1>2. Inv /\ Truth => AuditTellsTruth
  BY DEF Inv, TypeOK, Truth, TruthInv, Over, AuditTellsTruth, HasRow
<1> QED
  BY <1>1, <1>2, TruthStep, Invariance, PTL DEF Spec

-----------------------------------------------------------------------------
(***************************************************************************)
(* The audit log of revocations.                                           *)
(***************************************************************************)

\* The faults after which a handler may close a row and not say so.
SilencingFaults == {"store", "cancel", "crash"}

\* A row that says REVOKED is in the log, or somebody is about to write it.
AuditInv ==
    /\ cancelled = {}
    /\ \A s \in Sessions : status[s] = "REVOKED" =>
         \/ <<s, "revoke_session", "SUCCESS">> \in audit
         \/ \E c \in Clients : rpc[<<c, s>>] = "auditSuccess"

\* A step that sets no row to REVOKED and leaves the revoke handlers alone.
LEMMA QuietStep ==
  ASSUME AuditInv, UNCHANGED rpc, cancelled' \subseteq cancelled, audit \subseteq audit',
         \A s \in Sessions : status'[s] = "REVOKED" => status[s] = "REVOKED"
  PROVE  AuditInv'
  BY DEF AuditInv

\* If the database answers, no client goes away and the process lives, every
\* revocation is in the audit log once the revoke calls for it have ended,
\* however many of them ran at once.
THEOREM RevocationsAreAudited ==
  ASSUME FaultKinds \intersect SilencingFaults = {}
  PROVE  Spec => []RevocationIsAudited
<1>1. Init => AuditInv
  BY DEF Init, AuditInv
<1>2. TypeOK /\ AuditInv /\ [Next]_vars => AuditInv'
  <2> SUFFICES ASSUME TypeOK, AuditInv, [Next]_vars PROVE AuditInv'
    OBVIOUS
  <2>0. \A kind \in SilencingFaults : ~Fault(kind)
    BY DEF Fault, CanFail
  <2>1. ASSUME NEW s \in Sessions, RequestStep(s)
        PROVE  AuditInv'
    <3>1. UNCHANGED <<rpc, cancelled>>
      BY <2>1 DEF RequestStep, FinishRequest, Authorize, Issue, IssueFails, SaveSession,
                  AuditRequest, ScheduleRevocation
    <3>2. audit \subseteq audit'
      BY <2>1 DEF RequestStep, FinishRequest, Authorize, Issue, IssueFails, SaveSession,
                  AuditRequest, AuditAs, ScheduleRevocation, storeVars
    <3>3. \A x \in Sessions : status'[x] = "REVOKED" => status[x] = "REVOKED"
      BY <2>1 DEF RequestStep, FinishRequest, Authorize, Issue, IssueFails, SaveSession,
                  SetStatus, MaybeSetStatus, AuditRequest, ScheduleRevocation, storeVars, TypeOK
    <3> QED
      BY <3>1, <3>2, <3>3, QuietStep
  <2>2. ASSUME NEW c \in Clients, NEW s \in Sessions, RevokeStep(c, s)
        PROVE  AuditInv'
    <3> USE DEF AuditInv, GotoR, TypeOK
    <3>0. /\ rpc \in [Revokers -> {"idle", "revoke", "update", "auditSuccess", "auditError"}]
          /\ <<c, s>> \in Revokers
      BY DEF Revokers
    <3>1. CASE LoadSession(c, s) \/ RevokeAtProvider(c, s)
      <4>1. /\ rpc[<<c, s>>] # "auditSuccess" /\ UNCHANGED <<status, audit>>
            /\ cancelled' = {}
        BY <3>1 DEF LoadSession, RevokeAtProvider, storeVars
      <4>2. \A k \in Revokers : rpc[k] = "auditSuccess" => rpc'[k] = "auditSuccess"
        BY <3>0, <3>1, <4>1 DEF LoadSession, RevokeAtProvider
      <4> QED
        BY <4>1, <4>2 DEF Revokers
    <3>2. CASE UpdateRevoked(c, s)
      <4>1. /\ status' = [status EXCEPT ![s] = "REVOKED"]
            /\ rpc' = [rpc EXCEPT ![<<c, s>>] = "auditSuccess"]
            /\ UNCHANGED <<audit, cancelled>>
        BY <2>0, <3>2 DEF UpdateRevoked, SetStatus, Fails, SilencingFaults
      <4>2. \A k \in Revokers : rpc[k] = "auditSuccess" => rpc'[k] = "auditSuccess"
        BY <3>0, <4>1
      <4>3. rpc'[<<c, s>>] = "auditSuccess"
        BY <3>0, <4>1
      <4> QED
        BY <4>1, <4>2, <4>3 DEF Revokers
    <3>3. CASE AuditRevoke(c, s)
      <4>1. /\ audit \subseteq audit'
            /\ rpc[<<c, s>>] = "auditSuccess" => <<s, "revoke_session", "SUCCESS">> \in audit'
            /\ rpc' = [rpc EXCEPT ![<<c, s>>] = "idle"]
            /\ UNCHANGED <<status, cancelled>>
        BY <2>0, <3>3 DEF AuditRevoke, AuditAs, Fails, SilencingFaults
      <4>2. \A x \in Sessions, d \in Clients :
               rpc[<<d, x>>] = "auditSuccess" =>
                  \/ rpc'[<<d, x>>] = "auditSuccess"
                  \/ x = s /\ <<s, "revoke_session", "SUCCESS">> \in audit'
        BY <3>0, <4>1 DEF Revokers
      <4> QED
        BY <4>1, <4>2
    <3> QED
      BY <2>2, <3>1, <3>2, <3>3 DEF RevokeStep, FinishRevoke
  <2>3. CASE SchedulerStep
    <3>1. UNCHANGED rpc /\ cancelled' \subseteq cancelled
      BY <2>3 DEF SchedulerStep, Poll, RemoveFromQueue, QueryExpired, SweepEnds, SweepStep,
                  SweepRevoke, SweepAudit, SweepMarkFailed, SweepMarkExpired, apiVars
    <3>2. audit \subseteq audit'
      BY <2>3 DEF SchedulerStep, Poll, RemoveFromQueue, QueryExpired, SweepEnds, SweepStep,
                  SweepRevoke, SweepAudit, AuditAs, SweepMarkFailed, SweepMarkExpired, storeVars
    <3>3. \A x \in Sessions : status'[x] = "REVOKED" => status[x] = "REVOKED"
      BY <2>3 DEF SchedulerStep, Poll, RemoveFromQueue, QueryExpired, SweepEnds, SweepStep,
                  SweepRevoke, SweepAudit, SweepMarkFailed, SweepMarkExpired, SetStatus,
                  MaybeSetStatus, storeVars, TypeOK
    <3> QED
      BY <3>1, <3>2, <3>3, QuietStep
  <2>4. CASE Tick \/ LateEffect \/ UNCHANGED vars
    BY <2>4, QuietStep DEF Tick, LateEffect, IssuedLate, RevokedLate, vars, apiVars, storeVars
  <2>5. ~Cancel /\ ~Crash
    BY <2>0 DEF Cancel, Crash, SilencingFaults
  <2> QED
    BY <2>1, <2>2, <2>3, <2>4, <2>5 DEF Next
<1>3. AuditInv => RevocationIsAudited
  BY DEF AuditInv, RevocationIsAudited
<1> QED
  BY <1>1, <1>2, <1>3, TypeCorrect, PTL DEF Spec
=============================================================================
