# Verification of the ephem access broker

TLA+ models of the broker in this repository, the TLC runs that check them on
small instances, and proofs, checked by TLAPS, for every instance.

The system hands out short-lived credentials: a client asks the API for a
session on a resource, the policy engine decides, a provider makes a role, a
user or a certificate on the target, a row in `sessions` keeps track of it, and
a revoke call or the expiry scheduler takes it away again. What makes it hard is
that the target, the `sessions` table, the Redis queue and the audit log change
in separate steps, by handlers and a scheduler that run at the same time, none
of them in a transaction with another. Around that, people get their tokens
through a browser that may come back late or twice, and a command line that has
to give a session back whatever happens to the command it runs.

- [Inventory](#inventory)
- [Modules](#modules)
- [Runs](#runs)
- [Proofs](#proofs)
- [What disagrees with the documents](#what-disagrees-with-the-documents)
- [Assumptions and limits](#assumptions-and-limits)
- [Plan](#plan)

## Inventory

| Part | State | Operations | Talks to | Hard behaviour | Correct when |
|---|---|---|---|---|---|
| Policy engine `internal/policy/engine.go` | none (reads `policies`) | `Evaluate` | broker database | rows in any order, early return, a read that ends early | the answer is one that the rows which arrived justify |
| Session handlers `internal/api/session.go` | `sessions`, `audit_logs` | request, revoke | engine, registry, provider, queue | a credential exists before its row; client goes away; two revokes at once; process dies | no live credential without an open row; a closed row is the truth; every call is in the log |
| Scheduler `internal/scheduler/scheduler.go` | the batch of a poll | poll every 10 s, revoke, mark | queue, database, providers | one context for a whole batch; races the revoke handler; marks rows it read earlier | every expired session is revoked or FAILED; nobody's access ends early |
| Revocation queue `internal/scheduler/queue.go` | a Redis sorted set, `useRedis` | schedule, pop | Redis | range and remove are two calls; whole seconds; Redis asked once at start | an identifier that gets lost does not lose the session |
| PostgreSQL provider `internal/provider/postgres.go` | role, grants, connections | issue, revoke | target | several statements, errors ignored, half-finished issues | an answer without an error is the truth |
| Redis provider `redis.go` | an ACL user | issue, revoke | target | one statement each | as above |
| Remote provider and agent `remote.go`, `cmd/ephem-agent` | credential at the agent's target | issue, revoke over gRPC | agent, local provider | calls given up while the handler goes on; the target looked up twice | as above |
| SSH provider `ssh.go` | CA key pair on disk | issue; revoke does nothing | file system | the start-up goroutine and a request make the CA key; crash between its two files | certificates match the published CA |
| mTLS material `internal/mtls` | six files | generate if missing | file system | API and agent generate into one directory | the files belong together |
| Tokens `internal/auth/jwt.go`, `api/jwks.go` | key pair in memory | sign, verify, publish | clients | a restart makes a new key under the same identifier | only a lost key or a day's age makes a token useless |
| Login `api/auth.go`, `auth/oidc.go` | `users`, `roles`, `user_roles`, a cookie | login, callback | OIDC provider, database, browser | statements outside a transaction, two first logins, a cookie shared by all tabs | roles in the token are those of the table; nobody is locked out half enrolled |
| CLI login `cli/login.go`, `config.go` | token file, a listener and its channels | login, logout | browser, API | select over token, error and timeout; late tabs meet later listeners | the token in the file is of this login; login ends |
| CLI exec `cli/exec.go` | key files, child, `sigChan` | exec | API, child process | signals at any time, exits that skip deferred calls, a token that went bad meanwhile | the session is given back after the child, not before |
| Admin console, doctor, `db.go`, generated gRPC code | none | read, print | – | – | not modelled, see [below](#not-modelled) |

How they interact: the handlers and the scheduler run in one process and share
nothing but the database, Redis and the targets. The CLI and the agent are
separate processes; terminals share the token file in the home directory, and
all tabs of a browser share the API's cookie. The scheduler's goroutine runs one poll at a time; every
HTTP request has a goroutine and a context of its own, and `r.Context()` is
passed to every statement and provider call of a session handler, so a client
that goes away makes the rest of its request fail wherever it is. The login
handlers use no context in their statements and run to their end.

`PROJECT.json` lists the hazards of the code at their lines, with the property
that would catch each.

## Modules

| Module | Models | Abstract specification it implements |
|---|---|---|
| `PolicyRules` | what one row of `policies` says of a call, and the outcomes a table allows | |
| `PolicyEngine` | `Engine.Evaluate`, row by row | outcomes of `PolicyRules` |
| `AccessLedger` | what the broker promises of a session, without saying how | |
| `SessionBroker` | the two handlers, the scheduler, the queue, `sessions`, `audit_logs`, the targets | `AccessLedger` |
| `ProviderContract` | what the broker takes for granted of a provider and one credential | |
| `PostgresTarget` | `PostgresProvider`, statement by statement | `ProviderContract` |
| `RemoteAgent` | `RemoteProvider` and `agentServer`, call by call | `ProviderContract` |
| `KeyFiles` | a directory of key files that is filled if its marks are missing | |
| `CertDirectory` | the mTLS files: `KeyFiles`, the functions that load them, the processes | |
| `SSHAuthority` | the SSH CA key pair: `KeyFiles`, the requests that sign, the target's copy | |
| `Enrolment` | `HandleLogin` and `HandleCallback`: who may come in, new users and their role, the token | |
| `SignIn` | `ephem login` and `logout`, the browser and the token file, composed with `Enrolment` | |
| `ExecCommand` | `ephem exec`: session, key files, child, signals; which tokens the API accepts | |

`MC*` modules give the constants their values for TLC, `*Proofs` modules hold the
theorems.

### PolicyEngine

`table` and `call` are the arguments; `unread` are the rows the database still
has to deliver, `policies`, `i` and `hasAllow` are the locals of `Evaluate`.
`Query` runs the SELECT, `Scan` appends a row, `ScanEnds` is `rows.Next`
returning false, `Match` is one turn of the loop with its two early returns,
`LoopEnds` is the last return. The read may fail between two rows, when the
connection is lost or the request's context ends, and it depends on the moment
what comes of it: inside `rows.Next` it looks like the end of the rows, because
`rows.Err` is never called (`ScanEnds` with rows outstanding); between `rows.Next`
and `rows.Scan` it is an error of `Evaluate` (`ScanFails`), however many rows have
arrived. `failed` is a history variable that records either, and a failing query. Globs are a relation (`GlobMatches`, a malformed pattern matches
nothing), durations are integers, and the text of a condition is the set of
limits it holds, empty whenever the code ignores it.

### SessionBroker

One session identifier stands for one access request. For each session, `pc` is
where `HandleRequestSession` is; for each client and session, `rpc` is where
`HandleRevokeSession` is. A client is whoever holds a token (`UserOf`): a user has
as many as the constants give, so two terminals of one owner and an admin may all
revoke one session at once. `phase`, `sweep` and `popped` are the locals of
`pollAndRevokeExpired`. `cred` is the target, `status` the row, `queue` the sorted
set, `audit` the log. `lateIssue` and `lateRevoke` are the provider calls that
ended in an error and may still be carried out.

| Code | Actions |
|---|---|
| `HandleRequestSession` | `Authorize`, `Issue` or `IssueFails`, `SaveSession`, `AuditRequest`, `ScheduleRevocation` |
| `HandleRevokeSession` | `LoadSession`, `RevokeAtProvider`, `UpdateRevoked`, `AuditRevoke` |
| `pollAndRevokeExpired` | `Poll` (ZRANGEBYSCORE), `RemoveFromQueue` (ZREM), `QueryExpired`, then per session `SweepRevoke`, `SweepAudit`, `SweepMarkFailed` or `SweepMarkExpired`, and `SweepEnds` |
| `init` of queue.go, restart | `RedisChosen`, `Crash` |
| the target, after its caller has left | `IssuedLate`, `RevokedLate` |

Every call that leaves the process is a step, so anything can happen between two
of them. A step fails as `FaultKinds` allows, `MaxFaults` times in all: the
database (`store`), Redis (`queue`), a provider that has changed nothing
(`target`) or whose target acts in spite of its error (`lost`), at once or at any
later time, after a restart of the broker too, a context that ends (`cancel`),
the death of the process (`crash`). A statement that ends in an error may have
been executed. Once a context is cancelled everything that
uses it fails, which costs no further fault; `updateSessionStatus` uses no
context and the model keeps that.

Time is in ticks, `TicksPerSecond` of them in a second, because `time.Now` is
finer than the scores of the queue and the seconds the agent answers in.

`Authorize` does not walk the rows: it takes an answer out of `Outcomes`, of the
whole table or, when the read fails, of the rows that arrived. That this leaves
out no answer of `Evaluate` is `AuthorizeTakesEveryAnswer` in `PolicyEngineProofs`.

A certificate (`ssh`) is `Local`: it is signed in the process, `RevokeSession`
does nothing, and it ends by itself. `Live` excludes it.

### AccessLedger

Access of a session is given once and taken away for good; its entry in the book
is opened for access that was given, access is taken away only while the entry is
open, and the entry is closed only when nothing is left to take away. A closed
entry may be reopened (a second revocation that fails writes FAILED over
REVOKED). `KeepsLedger` maps `cred` to the ledger's access and `status` to its
book.

### PostgresTarget

One role. `CreateRole`, `Grant(p)` and `CleanUp` are the statements of
`IssueSession`; `Terminate`, `DropOwned` and `DropRole` those of each running
`RevokeSession`; `Connect`, `Disconnect` and `Lapse` are the user of the role and
the server's clock. The server refuses to drop a role that holds privileges, and
`IF EXISTS` makes a role that is gone no error. The connection set-up before the
first statement can only fail without an effect, like that statement.

### RemoteAgent

The caller and the agent's handlers are separate: `DialIssue`, `AgentIssue`,
`IssueAnswer`, `IssueGivenUp`, and the same four for a revoke. A revoke handler
whose caller has left runs on as `LateRevoke`, beside whatever the caller tries
next. `Matching` is what the lookup loop over the agent's map may stop at.

### KeyFiles, CertDirectory, SSHAuthority

`GenerateKeysAndCerts` and `ensureCAKey` do the same thing: ask for some of the
files (`Marks`) and, if one is missing, draw new keys and write all files in
order, in place, without a lock. `KeyFiles` is that, with the list, the marks and
the writers as constants: `Check` (which draws, `Draw`), then `Open` (the
truncation) and `Write` for each file, or `Fail`. A file is `Missing`, `Torn`, or
of a generation, the number of the run that drew its keys. `pem.Encode` makes
several writes, so two writers of one PEM file may leave a mixture (`Piecemeal`);
`os.WriteFile` of a short public key makes one.

`CertDirectory` adds who runs it (`Start`: `main` of the agent, `GetRegistry` of
the API; `Dies`, `Exits`) and who loads the files: `ReadFile`, `Configure`,
`LoadFails` are `GetServerTLSConfig`, once in an agent's life, and
`GetClientTLSConfig`, for each call of the API, file by file. A certificate is
accepted with a key of its generation. An API ignores an error of the generation
and goes on; an agent exits. `GetRegistry` runs once in the agent too, later; it
then finds the marks and changes nothing.

`SSHAuthority` adds the goroutine of `NewSSHProvider`, the requests, which sign
(`Sign`) with the key they made or read, the entry point of the target, which
copies the public file once (`CopyPublic`), and the API's `Restart`.

*What these properties depend on.* `overlap` is a history variable: it becomes
true when a process begins to write while another one has begun and not ended.
Then generations mix, for good: `docker-compose.yml` starts the API and the agent
on one directory, and a first start of both can leave certificates that do not
belong together, in files that exist and so are never written again. The safety
properties say what holds as long as this has not happened. `AgentServes` goes
further: also when the two have written at once, an agent that loaded too early
and ended gets there after restarts, unless the files it needs have stayed
`Mixed`. `OneGeneration` and `OneAuthority` say exactly which files may be torn or missing
after a crash: `client.crt`, whose existence is a mark, and the SSH public file,
which is not one and is written last. No later start repairs those.

### Enrolment, SignIn

A visit is a browser tab. `pc` is where the callback of the visit is, `email` and
`roles` are its locals, `log` is the row it left in `audit_logs`. Each statement is
an action: `CheckDomain`, `LookupUser`, then for a new user `InsertUser`,
`FindRole`, perhaps `MakeRole`, and `GiveRole`; for a known one `LoadRoles`; then
`SignToken`. `HandleLogin` sends the browser to the identity provider and
`Identify` is its return with an e-mail address, which is all the model keeps of
the provider's endpoints. `StatementFails` is an error of any statement, executed
or not; `ApiDies` ends all callbacks; `AdminChanges` edits `user_roles`, with SQL,
since the API has no call for it. A read that ends early gives some of the
roles, because `rows.Err` is not asked here either.

`SignIn` EXTENDS `Enrolment`: its variables are the other side's. `cli[t]` is a login
that waits in `select`, with what its two channels hold, `link[c]` the login whose
port and state are in the address of a tab, `cookie` the tab opened last, `file`
the token file.

| Code | Actions |
|---|---|
| `loginCmd` up to `select` | `Login` (removes the file, listens), `ListenFails` |
| the cases of `select` | `TakeToken` or `SaveFails`, `TakeError`, `Timeout` (and ^C) |
| the listener's handler | `Redirect` by way of `Receive`: compares the state, fills a channel |
| `server.Serve` ending in an error | `ServeFails` |
| `logoutCmd` | `Logout` |
| browser and provider | `OpenTab` (in time or late), `ComesBack` (meets the cookie) |

The port of a login that is over may be given to a later one, so a stale tab may
reach a listener that does not belong to it; only the state tells.

### ExecCommand

For each run of the command, `run` is where `execCmd` is, its token, the type of its
credentials, its signal channel and its exit code; `sess`, `keys` and `child` are
its session, key files and child.

| Code | Actions |
|---|---|
| token and request | `LoadToken`, `Request`, `RequestDenied`, `RequestLost` |
| key files | `WriteKey`, twice |
| `signal.Notify`, `Start`, `Wait` | `Notify`, `StartChild`, `StartFails`, `Wait` |
| the forwarding goroutine | `Forward` |
| `revokeSession` | `Revoke` |
| return, or `os.Exit` | `ReturnOrExit` |
| from outside | `Signal`, `Killed`, `ChildEnds`, `SessionExpires`, `ApiRestarts`, `TokensExpire`, `LogInOrOut` |

The token is read once. It is `good` as long as the API would accept it:
`ApiRestarts` without `RSA_PRIVATE_KEY_PATH` draws a new key, and 24 hours end all
tokens. A run that dies while a call is under way leaves it to the API whether
the call has its effect. `GivesBack` lists the only ways out with a live
session; after those the scheduler has to take it away, which is
`SessionBroker`'s matter.

## Runs

| Run | Instance and bounds | Shows |
|---|---|---|
| `policy_decision` | every table of at most 3 of 6 rows, 2 roles, 2 resources, 2 durations, 3 globs (one malformed), a query or a read that may fail at any row | the answer is one the table justifies, whatever the order of its rows; after a failure of the store it may be an error, or one the rows that arrived justify; `Evaluate` returns |
| `policy_truncated` | the same | *violated*: a DENY row that was not delivered does not deny |
| `broker_safety` | 1 session out of 6 kinds of request (postgres, remote, ssh, too long, disabled, denied), an owner and an admin, a client of each, 2 ticks of half a second, any 2 faults of all kinds with effects at any later time, fair | types; a closed row is the truth; nobody gets in unasked or for longer than asked; the log does not lie; early removal only by those entitled; a REVOKED row stands until its expiry and is never made active; the ledger; no active session is forgotten, crashes and failing statements included |
| `broker_pair` | 2 sessions in one poll, their owner and one client, 1 fault of the target or the queue, fair | no orphan, revocations are in the log, none is forgotten because of the other |
| `broker_expiry` | 1 session, no fault, fair | *violated*: an expired session becomes other than ACTIVE |
| `postgres_contract` | 2 concurrent revokes, 2 connections, 2 errors, replies may be lost | the contract; issued roles work; revoked roles are gone; a connection outlives its role only if its user came back between two statements of a revoke |
| `agent_contract` | the configuration the agent seeds, 2 revokes, 3 failures | the contract, late handlers included |
| `agent_ambiguous` | two databases on one agent, no failure | *violated*: a revoke without an error has removed the credential |
| `cert_files` | one API, one agent, six files, 1 death or failing write, fair | files of one generation; the two accept each other; complete files stay; the agent gets to serve, early loads included |
| `ssh_keys` | the start-up goroutine, 2 requests, 2 deaths or failing writes | certificates, files and the target's copy are of one key |
| `sign_in` | 1 terminal that logs in again and again, 2 tabs, 1 person, 1 fault, 1 change by the administrator, fair | the saved token is of this login; its roles were earned; the default role is given once; a login ends; who keeps trying gets in |
| `exec_command` | 1 run of either kind, any signals and kills, 2 faults, restarts of the API, fair | the session is given back, and not before the child ends; a clean exit leaves no key files; signals arrive |

Why the bounds are enough to matter. Sessions do not share state except through
a poll: the batch and the queue. One session with every fault covers the races
of the handlers and the scheduler on one row, two sessions in one poll cover what
sharing adds. Two faults are enough for the combinations the code has to
survive: a failure and the failure of its clean-up, a lost answer and a failing
retry. For the key files one API and one agent are what `docker-compose.yml`
runs; one death, at any of the thirteen points of a filling, is enough for a second
start over a half-filled directory, and the SSH key adds a second death and a
second request, so that a request that found a key meets one that made it.
Two tabs are two first logins of one person, and a late tab beside a present one;
logins of one terminal follow each other without a bound, so a tab of any earlier
one may turn up. One fault falls between any two statements of the enrolment, and
the second login meets what it left. Runs of `exec` share the token file and
nothing else, and `LogInOrOut` does to the file what other terminals can do.
Half-second ticks are the least that tells a session popped in its last
second from one that has expired. Beyond these instances the proofs take over:
they hold for any number of sessions, users, faults and ticks.

*Fairness.* `FairSpec` of `SessionBroker` asks that the clock runs, that the
scheduler's goroutine goes on (the ticker of `Scheduler.Start` never stops while
the process lives), and that a handler that has begun goes on. It does not ask
that anyone sends a request, or that the client revokes. `policy_decision` asks
that the goroutine of `Evaluate` runs. `FairSpec` of `CertDirectory` asks that
each process runs, and starts again after it has ended, as `restart: always`
does; that a write fails or a process dies is never required. `FairSpec` of
`SignIn` asks that the goroutine of a callback goes on and that `select` takes
something that is ready, the timer in the end; nobody has to sign in, and
`GetsIn` speaks only of a person who keeps coming back from the provider.
`FairSpec` of `ExecCommand` asks that the main goroutine and the one that forwards
signals go on, and that a call of the API is answered or its connection breaks:
the revoke's HTTP client has no time limit of its own (`exec.go:223`), so nothing
less makes it return. The child may run for ever.

`CHECK_DEADLOCK FALSE` stands where the system ends by itself: one call of
`Evaluate`, one role, one remote session. `SessionBroker` has no end, since the
scheduler polls for ever, and deadlock is checked there, as it is for the key
files, the sign-in and `exec`: the API loads its configuration again for each call,
requests go on, and there may always be another login.

Each property of a passing run has a mutant in `PROJECT.json`: a definition of
the model changed the way a bug would change the code, which breaks it.

## Proofs

All by TLAPS, for every value of the constants that meets the named assumptions
(`GlobsAssumption`, `TablesAssumption`, `BrokerAssumption`, `TargetAssumption`,
`AgentAssumption`, `CertAssumption`, `AuthorityAssumption`, `EnrolmentAssumption`,
`SignInAssumption`, `ExecAssumption`: types of the constants, and that markers such
as `Missing` are none of the values they stand beside; no more).

*PolicyEngine.* `AnswersAreJustified`: an answer is an outcome of the table unless
the store has failed (`failed`); then it may also be an error, after any number of
rows, or an outcome of the rows that arrived. The invariant says that the slice
holds exactly the rows that have arrived (`Arrived`), that after the
read nothing is outstanding unless the store has failed (`WholeRead`), and that the rows the loop has passed
neither deny nor are exceeded, with `hasAllow` true exactly when one of them
allows (`Walked`). At the end of the loop they give `Outcomes` (`Justified`). From it
`AuthorizeTakesEveryAnswer` (the step of `SessionBroker` is not smaller than
`Evaluate`, errors between two rows included) and `DenyTakesPrecedenceInWholeReads`:
the comment at `engine.go:67` holds unless the store fails during the read, and
`policy_truncated` shows that it needs the condition.
Two theorems are about the table itself: rows that deny only ever take access away
(`DenyRowsOnlyRestrict`), and who is allowed for a time is allowed for less
(`ShorterIsAllowedToo`). Both rest on `AllowedMeans`: to be allowed is to have a row
that allows and none that denies or is exceeded.

*SessionBroker.* `ClosedMeansGone` is not inductive: that a row may be closed
after a revocation depends on where the handler stands. `Inv` says so for each
session: nothing exists before `issue`, the credential is live at `save` and the
row is missing until then (`RequestInv`); a row has a credential behind it and a
closed row no live one (`RowInv`); whoever is about to write REVOKED or EXPIRED
has seen the credential go, and passed the check of owner or admin
(`RevokeInv`, `SweepInv`); what the poll holds has a row and has reached its
second (`DueInv`). What is still on its way to a target has a place there
(`LateInv`): an issue only of a session that has no credential and will never have
a row, a removal only of one that has a row, ordered by somebody entitled or after
the expiry. Without it a late issue could revive a session that was closed. From
`Inv` follow

- `ClosedSessionsAreGone`, for all races, cancelled contexts and crashes;
- `EarlyRemovalIsEntitled`: the poll holds only sessions whose second has come, so
  an early removal is a step of a revoke call, or what such a call left behind;
- `AccessIsAllowedAlways`: a second layer, `PermitInv`, carries what the checks found
  from `Authorize` to the provider, to a late issue and to the row: the resource is
  enabled, some row allows the owner just this, the expiry is not later than
  asked, rounding to whole seconds included (`ExpiryType`). That *no* row refuses it
  needs a table that was read whole: `Undisturbed` says when, and `NoRefusedAccess`
  states the result for any fault of targets, queue and process;
- `AuditIsTrue`: `TruthInv` ties each entry of the log to where its session can
  still go. A denied or failed request is left alone for good (`DoneStays`), and what
  has been revoked stays so, whoever still works on it (`OverStays`);
- `NothingIsMarkedExpired`: what `broker_expiry` shows of one session is true of all,
  on every path;
- `BrokerKeepsLedger`: every step is a step of `AccessLedger` or a stutter;
- `NoOrphanWithoutTheseFaults`: `LiveIsTracked` as long as no fault falls between
  the target and the INSERT. With a failing store, a lost answer, a cancelled
  context or a crash it does not hold, and the code does nothing about it;
- `RevokedSessionsStand`: until its second has come no poll holds a session (`DueInv`),
  so nothing writes over REVOKED before; later a poll may, with FAILED only if
  something has failed, which `BlameInv` and `PermitInv` carry from the fault, or the
  end of the poll's context, to the UPDATE. The proof does not use the driver's
  refusal (`Accepted`), so it stands when the statement for EXPIRED is repaired;
  then a poll may write EXPIRED over REVOKED, since the query for popped
  identifiers does not ask for the status;
- `RevocationsAreAudited`: a REVOKED row has its audit row, or a revoke call that
  still has to write it, for any number of callers, as long as the database
  answers, no context is cancelled and the process lives. The UPDATE and the
  INSERT are two statements, so none of the three conditions can go. `AuditInv`
  keeps, for every REVOKED row without an entry, a call that stands before its
  INSERT.

*PostgresTarget.* `TypeCorrect`, `RevokeIsThorough` and `TargetMeetsContract`, for any
number of concurrent revokes; what `RevokeIsThorough` says of the role the run checks
as part of the contract. A role that is not there has no privileges, and only
DROP ROLE's answer is believed. `HandedOutRolesWork` adds what the loop over the
grants has given so far (`Given`): when it ends that is everything, and nothing
takes a privilege away before a revoke begins. `SurvivorsAreLate`: without errors, a
role is dropped only by a call that has terminated its connections before
(`LateInv`), whatever other calls do in between.

*RemoteAgent.* `RevokeReachesTarget` and `RemoteMeetsContract` under
`Unambiguous`: the lookup finds at most one resource. The invariant orders the
calls (nothing on the agent before the call, no revoke before the issue has
answered) and says that a revoke that went well found nothing live. Without
`Unambiguous` the run `agent_ambiguous` is a counterexample. `TypeCorrect` and
`IssuedCredentialsExist` need no such condition: whichever resource the lookup
found, the credential is there when the answer arrives.

*CertDirectory.* `OneGenerationHolds`, `PeersAgreeHolds` and `KeysAreKeptHolds`, for
any number of agents and APIs. The invariant `Inv` (`DirInv` while `overlap` is
false): at most one process is filling, it has written every file before its
present one and not the last; while the last file is missing nobody has been told
of the files, read one or configured anything; once it exists the other five are
of one generation (`Settled`), and what anyone has read or configured is of that
generation or torn. All of it hangs on the last file being a mark: the marks can
only all exist after the last file was opened, and before that all others were
written. `NothingIsRepaired` needs no condition on `overlap`: once the marks exist and nobody
is filling the directory, nobody ever fills it again, whatever the files hold. It is
the other side of `KeysAreKept`: the test that keeps good files keeps bad ones too.

*SSHAuthority.* `TypeCorrect` and `OneAuthorityHolds`, for any number of requests,
restarts and failing writes. The private file is the mark and is written first, so
here the argument is another one: once the file exists nobody draws a key, hence it
changes only while the one caller who makes it (`Alone`) has not finished, before
anything was signed, published or copied (`SignedOK`, `PublicOK`). That a request
which found the file signs with what is in it is already part of `Types`: files
are never removed.

*SignIn.* `Inv` has two halves. `EnrolmentInv` says what each visit has established on
its way (`VisitInv`), and that at most one visit enrols a person (`OneEnrols`), which
is what the unique e-mail gives and the reason why `DefaultIsGivenOnce` holds for
two first logins at once. `ClientInv` says that a channel holds a token of its own
login or none (`LoginInv`), which only the comparison of the states gives;
`SavedTokensAreOwn` follows. `TokensAreEarnedAlways` is about
any number of people, tabs, faults and changes by the administrator.

*ExecCommand.* `SessionInv` orders session and child, `EndInv` says why a session is
still live after the call that should have ended it, `KeysInv` follows the two files
to the deferred removal, and `TokenInv` that only a process without a key file
forgets its key. From them `SessionsAreGivenBack`, `ChildrenKeepAccess` and
`ExitsAreClean`, for any number of runs and faults.

Only model-checked: liveness (`Returns`, `NoneForgotten`, `AgentServes`, `LoginEnds`,
`GetsIn`, `SignalsArrive`). Liveness under fairness is out of the prover's reach.
Every invariant and safety property of the passing runs is a theorem.

## What disagrees with the documents

1. `policy_truncated`: `rows.Err` is not checked, and the comment at
   `engine.go:67` (DENY takes precedence) does not hold when a read fails midway.
2. `broker_expiry`: `updateSessionStatus` passes two arguments to a statement with
   one placeholder. The row stays ACTIVE, every poll revokes again, and the
   expiry is never logged, against `docs/architecture.md:337`.
3. `agent_ambiguous`: `main.go:113` speaks of a lookup by resource name, which
   the calls do not carry.

Also noticed, and plain from the code without a run:

- FAILED is final: one poll that cannot reach the target is the last that tries,
  against `README.md:29`.
- REVOKED is not final (`docs/architecture.md:340` ends there): its identifier stays in
  the queue, a poll that meets it after the expiry revokes again, and if that fails the
  row becomes FAILED. `RevokedStands` says how far the code goes: not before the
  expiry, and never back to ACTIVE.
- A SIGINT or SIGTERM after the API has answered and before `signal.Notify`
  (`exec.go:177`) ends the process at once, without the revoke of
  `docs/architecture.md:427`: the scheduler has to take the session away. `GivesBack`
  lists it among its excuses.
- The clean-up of an issue that failed after a GRANT (`postgres.go:101`, `:108`) is a
  DROP ROLE, which the server refuses for a role that holds privileges.
- A request refused because the resource is unknown or disabled, or because
  `Evaluate` ends in an error (a duration above the limit of a policy is one),
  returns before the INSERT into `audit_logs`, against `README.md:35`.
- The key files stay when the child ends with an error or the run is killed, because
  `os.Exit` (`exec.go:202`) skips the deferred removal, against `README.md:104`.
- A user without rows in `user_roles` signs in as `developer` (`auth.go:466`), beside
  the "database-managed roles" of `README.md:74`: taking a user's last role away
  gives him that one.
- The listing of `audit_logs` for the console scans columns that may be NULL into
  strings (`admin.go`).
- The names of Postgres roles and Redis users are made of the first eight hex digits
  of the session's identifier; the models take names for unique.

## Assumptions and limits

- One API process at a time, and one clock for it and its database.
- `lib/pq` accepts a slice for `ANY($1)` and refuses a statement whose placeholders
  and arguments differ in number.
- A client has one revoke call per session under way; a second one of the same user
  is another client.
- A provider call that reports success has had its effect; one that reports an error
  may have it at any time, once. A removal asked for several times by one client and
  still on its way counts once.
- The provider named in a row is always in the registry.
- A poll that cannot connect to the database is a poll that did nothing.
- `pg_terminate_backend` takes effect at once. A user who reconnects before DROP
  ROLE keeps that connection: the code does nothing about it, and
  `SurvivorsCameLate` says that no other connection is left.
- Audit rows are a set: how often an entry is repeated is not told apart.
- Body parsing, payloads, user names and passwords are left out; in `SessionBroker`
  the constants `RolesOf` and `Requests` stand for what they and the token yield.
  Which tokens verify is in `ExecCommand`, what they carry in `Enrolment`.
- A visit leaves at most one row in `audit_logs`. Changes to `user_roles` by the
  administrator are SQL from outside: no handler makes them.
- The random states of logins do not collide, and nobody but the browser's tabs
  calls the listener.
- The key file of the API, when set, can be read.

### Not modelled

- The admin console and its API (`console_html.go`, `admin.go`) read and render; they
  change no state.
- `db.go` opens the connection; a failure refuses a call before it changes anything.
- `ephem doctor` and `whoami` print; `ephem ssh`, `postgres` and `redis` start `exec`
  and pass on its exit code.
- The gRPC code is generated from `agent.proto`; `RemoteAgent` models how it is used.
- The Redis provider issues one ACL SETUSER and one ACL DELUSER; in `SessionBroker`
  it is a target like any other, and a module of its own would have two states.
- `HandleJWKS` publishes the key of the process and keeps no state, and nothing in
  the repository reads it.
- `Scheduler.Stop` is reached only when the server ends; routing, flags and the
  reading of `agent_config.json` happen once, before anything modelled here.

## Plan

Done: the decision, the life of a session with crashes and liveness, the two
providers with several steps and their contract, the key files, login and
enrolment, `exec`; and a proof of every safety property that is checked. Left, in
this order:

1. *ExecCommand over SessionBroker*: a refinement that makes the session of a run
   one of the broker's, so that `GivesBack` and `NoneForgotten` join into one
   statement about the command line.
2. *ProviderContract over SessionBroker*: what `RevokeWorks`, `RevokeFails` and the late
   effects do to one credential, as an implementation of the contract that
   `PostgresTarget` and `RemoteAgent` meet.
3. *Key files*: a run that shows how two fillings at once leave certificates that do
   not belong together. That no later start repairs them is proved
   (`NothingIsRepaired`).

To keep a full check short the project stays at twelve runs: a new module joins a
run that asks the same question, or takes the place of the run that shows least.
