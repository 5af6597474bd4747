----------------------------- MODULE Enrolment ------------------------------
(***************************************************************************)
(* What the API does when a browser comes back from the identity provider *)
(* (HandleLogin and HandleCallback, internal/api/auth.go): it checks the   *)
(* domain, enrols a new user, and answers with a token that carries roles. *)
(* Every statement is a step of its own, outside any transaction, and is   *)
(* run without the context of the request: a visitor who goes away does    *)
(* not stop it.                                                            *)
(***************************************************************************)
EXTENDS Naturals

CONSTANTS
    Visits,       \* the browser tabs in which people sign in
    Emails,       \* the people
    Roles,        \* names of roles
    DefaultRole,  \* OIDC_DEFAULT_ROLE
    Fallback,     \* the role of a user without roles, "developer"
    Nobody,       \* no e-mail
    MaxFaults,    \* bound: failing statements and deaths of the API
    MaxChanges    \* bound: changes an administrator makes to user_roles

ASSUME EnrolmentAssumption == /\ Nobody \notin Emails
                              /\ {DefaultRole, Fallback} \subseteq Roles
                              /\ {MaxFaults, MaxChanges} \subseteq Nat

VARIABLES
    jit,      \* OIDC_ALLOW_JIT_PROVISIONING
    allowed,  \* those whose domain is in OIDC_ALLOWED_DOMAINS
    users,    \* table users
    roles,    \* table roles
    grants,   \* table user_roles
    visit,    \* per visit: where the handler is, its locals email and dbRoles,
              \* and the row it has left in audit_logs
    held,     \* history: the roles a person has ever had
    given,    \* history: those who were users at the start, or were given
              \* the default role by a login
    faults, changes

evars == <<jit, allowed, users, roles, grants, visit, held, given, faults, changes>>

\* Nothing runs for the visit: it has not begun, or it has its answer.
Rest == {"none", "failed", "refused", "token"}

PCs == Rest \cup {"provider", "domain", "lookup", "insert", "find_role",
                  "make_role", "give_role", "load", "sign"}

Locals == [pc : PCs, email : Emails \cup {Nobody}, roles : SUBSET Roles,
           log : {"none", "DENIED", "SUCCESS"}]

NoVisit == [pc |-> "none", email |-> Nobody, roles |-> {}, log |-> "none"]

\* The schema seeds the fallback role (migrations/01_init.sql:92), and there may
\* be users, with roles or without.
EnrolmentInit ==
    /\ jit \in BOOLEAN
    /\ allowed \in SUBSET Emails
    /\ users \in SUBSET Emails
    /\ roles \in {R \in SUBSET Roles : Fallback \in R}
    /\ grants \in [Emails -> SUBSET Roles]
    /\ \A e \in Emails : grants[e] \subseteq (IF e \in users THEN roles ELSE {})
    /\ visit = [c \in Visits |-> NoVisit]
    /\ held = grants
    /\ given = users
    /\ faults = 0
    /\ changes = 0

Fault == faults < MaxFaults /\ faults' = faults + 1

Go(c, pc) == visit' = [visit EXCEPT ![c].pc = pc]

\* Visit c stands at pc and belongs to e.
At(c, pc, e) == visit[c].pc = pc /\ visit[c].email = e

-----------------------------------------------------------------------------
(***************************************************************************)
(* Who is it?                                                              *)
(***************************************************************************)

\* HandleLogin sends the browser to the identity provider.
HandleLogin(c) ==
    /\ visit[c].pc \in Rest
    /\ visit' = [visit EXCEPT ![c] = [NoVisit EXCEPT !.pc = "provider"]]
    /\ UNCHANGED <<jit, allowed, users, roles, grants, held, given, faults, changes>>

\* The callback, and the exchange of its code for an e-mail.
Identify(c) ==
    /\ visit[c].pc = "provider"
    /\ \E e \in Emails :
          visit' = [visit EXCEPT ![c] = [visit[c] EXCEPT !.pc = "domain", !.email = e]]
    /\ UNCHANGED <<jit, allowed, users, roles, grants, held, given, faults, changes>>

\* No database, parameters missing, no cookie, or no answer of the provider.
IdentifyFails(c) ==
    /\ visit[c].pc = "provider"
    /\ Go(c, "failed")
    /\ UNCHANGED <<jit, allowed, users, roles, grants, held, given, faults, changes>>

-----------------------------------------------------------------------------
(***************************************************************************)
(* May he come in?                                                         *)
(***************************************************************************)

\* The visit ends at pc with the given row in audit_logs, or none.
Ends(c, pc, log) == visit' = [visit EXCEPT ![c] = [visit[c] EXCEPT !.pc = pc, !.log = log]]

\* An error of the INSERT INTO audit_logs is ignored.
Answer(c, pc, log) ==
    \/ Ends(c, pc, log) /\ UNCHANGED faults
    \/ Fault /\ (Ends(c, pc, log) \/ Ends(c, pc, "none"))

Refuse(c) == Answer(c, "refused", "DENIED")

\* An address that has no domain is refused without a row in the log.
CheckDomain(c) ==
    /\ visit[c].pc = "domain"
    /\ \/ visit[c].email \in allowed /\ Go(c, "lookup") /\ UNCHANGED faults
       \/ visit[c].email \notin allowed /\ Refuse(c)
       \/ visit[c].email \notin allowed /\ Go(c, "failed") /\ UNCHANGED faults
    /\ UNCHANGED <<jit, allowed, users, roles, grants, held, given, changes>>

LookupUser(c) ==
    /\ visit[c].pc = "lookup"
    /\ \/ visit[c].email \in users /\ Go(c, "load") /\ UNCHANGED faults
       \/ visit[c].email \notin users /\ jit /\ Go(c, "insert") /\ UNCHANGED faults
       \/ visit[c].email \notin users /\ ~jit /\ Refuse(c)
    /\ UNCHANGED <<jit, allowed, users, roles, grants, held, given, changes>>

-----------------------------------------------------------------------------
(***************************************************************************)
(* A new user: three statements, or four.                                  *)
(***************************************************************************)

\* Mutant: a user who exists already is taken over (ON CONFLICT DO UPDATE).
InsertOrUpdateUser(c) ==
    /\ visit[c].pc = "insert"
    /\ users' = users \cup {visit[c].email}
    /\ Go(c, "find_role")
    /\ UNCHANGED <<jit, allowed, roles, grants, held, given, faults, changes>>

\* The e-mail is unique: a user who has come into being since is an error.
InsertUser(c) ==
    /\ visit[c].pc = "insert"
    /\ users' = users \cup {visit[c].email}
    /\ Go(c, IF visit[c].email \in users THEN "failed" ELSE "find_role")
    /\ UNCHANGED <<jit, allowed, roles, grants, held, given, faults, changes>>

\* Mutant: the default role is taken to exist.
FindRoleAssumed(c) ==
    /\ visit[c].pc = "find_role"
    /\ Go(c, "give_role")
    /\ UNCHANGED <<jit, allowed, users, roles, grants, held, given, faults, changes>>

\* Any error of the query is taken for a role that does not exist.
FindRole(c) ==
    /\ visit[c].pc = "find_role"
    /\ \/ Go(c, IF DefaultRole \in roles THEN "give_role" ELSE "make_role") /\ UNCHANGED faults
       \/ Go(c, "make_role") /\ Fault
    /\ UNCHANGED <<jit, allowed, users, roles, grants, held, given, changes>>

MakeRole(c) ==
    /\ visit[c].pc = "make_role"
    /\ roles' = roles \cup {DefaultRole}
    /\ Go(c, "give_role")
    /\ UNCHANGED <<jit, allowed, users, grants, held, given, faults, changes>>

\* The effect of INSERT INTO user_roles: e has the default role.
HasDefault(e) ==
    /\ grants' = [grants EXCEPT ![e] = @ \cup {DefaultRole}]
    /\ held' = [held EXCEPT ![e] = @ \cup {DefaultRole}]
    /\ given' = given \cup {e}

\* dbRoles is R, and the token is signed next.
ToSign(c, R) == visit' = [visit EXCEPT ![c] = [visit[c] EXCEPT !.pc = "sign", !.roles = R]]

GiveRole(c) ==
    /\ visit[c].pc = "give_role"
    /\ HasDefault(visit[c].email)
    /\ ToSign(c, {DefaultRole})
    /\ UNCHANGED <<jit, allowed, users, roles, faults, changes>>

-----------------------------------------------------------------------------
(***************************************************************************)
(* A known user, and the token.                                            *)
(***************************************************************************)

\* Mutant: no fallback, a user without roles is turned away.
LoadedOrRefused(c, R) == IF R = {} THEN Go(c, "failed") ELSE ToSign(c, R)

\* No role at all means the fallback.
Loaded(c, R) == ToSign(c, IF R = {} THEN {Fallback} ELSE R)

\* Mutant: the query forgets whose roles it asks for.
LoadAllRoles(c) ==
    /\ visit[c].pc = "load"
    /\ Loaded(c, roles)
    /\ UNCHANGED <<jit, allowed, users, roles, grants, held, given, faults, changes>>

\* A read that ends early (rows.Err is not asked) yields some of the roles.
LoadRoles(c) ==
    /\ visit[c].pc = "load"
    /\ \E R \in SUBSET grants[visit[c].email] :
          /\ \/ R = grants[visit[c].email] /\ UNCHANGED faults
             \/ Fault
          /\ Loaded(c, R)
    /\ UNCHANGED <<jit, allowed, users, roles, grants, held, given, changes>>

\* The token is signed, the login logged, and the browser redirected with it.
SignToken(c) ==
    /\ visit[c].pc = "sign"
    /\ Answer(c, "token", "SUCCESS")
    /\ UNCHANGED <<jit, allowed, users, roles, grants, held, given, changes>>

-----------------------------------------------------------------------------
(***************************************************************************)
(* Failures, and the administrator.                                        *)
(***************************************************************************)

\* A statement ends in an error, executed or not, and so does the visit.
StatementFails(c) ==
    /\ Fault
    /\ Go(c, "failed")
    /\ \/ /\ visit[c].pc \in {"lookup", "insert", "make_role", "give_role", "load"}
          /\ UNCHANGED <<users, roles, grants, held, given>>
       \/ /\ visit[c].pc = "insert"
          /\ users' = users \cup {visit[c].email}
          /\ UNCHANGED <<roles, grants, held, given>>
       \/ /\ visit[c].pc = "make_role"
          /\ roles' = roles \cup {DefaultRole}
          /\ UNCHANGED <<users, grants, held, given>>
       \/ /\ visit[c].pc = "give_role"
          /\ HasDefault(visit[c].email)
          /\ UNCHANGED <<users, roles>>
    /\ UNCHANGED <<jit, allowed, changes>>

\* The API dies: whatever it was answering has failed.
ApiDies ==
    /\ Fault
    /\ visit' = [c \in Visits |->
                   IF visit[c].pc \in Rest \cup {"provider"} THEN visit[c]
                   ELSE [visit[c] EXCEPT !.pc = "failed"]]
    /\ UNCHANGED <<jit, allowed, users, roles, grants, held, given, changes>>

\* An administrator edits user_roles, with SQL: the API has no call for it.
AdminChanges(e) ==
    /\ changes < MaxChanges
    /\ changes' = changes + 1
    /\ e \in users
    /\ \E r \in roles : \/ /\ grants' = [grants EXCEPT ![e] = @ \cup {r}]
                           /\ held' = [held EXCEPT ![e] = @ \cup {r}]
                        \/ /\ grants' = [grants EXCEPT ![e] = @ \ {r}]
                           /\ UNCHANGED held
    /\ UNCHANGED <<jit, allowed, users, roles, visit, given, faults>>

\* What the goroutine of a callback does by itself.
Callback(c) ==
    \/ CheckDomain(c) \/ LookupUser(c)
    \/ InsertUser(c) \/ FindRole(c) \/ MakeRole(c) \/ GiveRole(c)
    \/ LoadRoles(c) \/ SignToken(c)

EnrolmentNext ==
    \/ \E c \in Visits : \/ HandleLogin(c) \/ Identify(c) \/ IdentifyFails(c)
                         \/ Callback(c) \/ StatementFails(c)
    \/ \E e \in Emails : AdminChanges(e)
    \/ ApiDies

EnrolmentSpec == EnrolmentInit /\ [][EnrolmentNext]_evars

-----------------------------------------------------------------------------
(***************************************************************************)
(* Properties.                                                             *)
(***************************************************************************)

\* Every variable keeps its type, and user_roles refers to rows that exist.
EnrolmentTypeOK ==
    /\ jit \in BOOLEAN
    /\ allowed \subseteq Emails
    /\ users \subseteq Emails
    /\ roles \subseteq Roles
    /\ grants \in [Emails -> SUBSET Roles]
    /\ \A e \in Emails : grants[e] \subseteq (IF e \in users THEN roles ELSE {})
    /\ visit \in [Visits -> Locals]
    /\ held \in [Emails -> SUBSET Roles]
    /\ given \subseteq users
    /\ faults \in 0 .. MaxFaults
    /\ changes \in 0 .. MaxChanges

\* A token is earned, whatever fails and whoever signs in at the same time:
\* its owner is in the table and of an allowed domain, each of its roles has
\* been his in user_roles or is the fallback of those found without roles
\* (auth.go:466), and the login is in the log unless the log has failed.
TokensAreEarned ==
    \A c \in Visits : visit[c].pc = "token" =>
        /\ visit[c].email \in users \cap allowed
        /\ visit[c].roles # {}
        /\ \/ visit[c].roles \subseteq held[visit[c].email]
           \/ visit[c].roles = {Fallback}
        /\ faults = 0 => visit[c].log = "SUCCESS"

\* A login gives a user the default role once, at his first login: afterwards
\* user_roles is the administrator's, and no login brings back a role he has
\* taken away, also when two first logins run at the same time.
DefaultGivenOnce ==
    [][\A e \in given : grants'[e] \subseteq grants[e] \/ changes' # changes]_<<grants, changes>>

\* Somebody who may come in and keeps signing in gets in: no half-finished
\* enrolment, no lost race and no death of the API locks him out for good.
GetsIn ==
    \A c \in Visits, e \in Emails :
        /\ e \in allowed
        /\ jit \/ e \in users
        /\ []<>At(c, "domain", e)
        => []<>At(c, "token", e)
=============================================================================
