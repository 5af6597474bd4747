---------------------------- MODULE SignInProofs ----------------------------
(***************************************************************************)
(* Theorems about SignIn and the enrolment in it, for any number of        *)
(* people, tabs, terminals, roles and faults.                              *)
(***************************************************************************)
EXTENDS SignIn, TLAPS

\* A visit that has inserted its user and not yet given him his role.
Enrolling == {"find_role", "make_role", "give_role"}

\* What a visit has established on its way to the token.
VisitInv(c) ==
    /\ visit[c].pc \in Enrolling \cup {"domain", "lookup", "insert", "load", "sign", "token"}
          => visit[c].email \in Emails
    /\ visit[c].pc \in Enrolling \cup {"lookup", "insert", "load", "sign", "token"}
          => visit[c].email \in allowed
    /\ visit[c].pc \in Enrolling \cup {"load", "sign", "token"} => visit[c].email \in users
    /\ visit[c].pc \in Enrolling => visit[c].email \notin given
    /\ visit[c].pc = "give_role" => DefaultRole \in roles
    /\ visit[c].pc \in {"sign", "token"} =>
          /\ visit[c].roles # {}
          /\ visit[c].roles \subseteq held[visit[c].email] \/ visit[c].roles = {Fallback}
    /\ visit[c].pc = "token" /\ faults = 0 => visit[c].log = "SUCCESS"

\* The unique e-mail lets one visit only enrol a person.
OneEnrols == \A c, d \in Visits : /\ visit[c].pc \in Enrolling /\ visit[d].pc \in Enrolling
                                  /\ visit[c].email = visit[d].email
                                  => c = d

EnrolmentInv == /\ EnrolmentTypeOK
                /\ OneEnrols
                /\ \A e \in Emails : grants[e] \subseteq held[e]
                /\ \A c \in Visits : VisitInv(c)

\* A login that is not under way holds nothing, and the channel of one that is
\* holds a token of its own.
LoginInv(t) == /\ cli[t].tokenChan \in {NoToken, t}
               /\ ~cli[t].waiting => cli[t].tokenChan = NoToken

\* The side of the command and the browser.
ClientInv == /\ cli \in [Terminals -> Logins]
             /\ link \in [Visits -> Tokens]
             /\ cookie \in Visits \cup {NoToken}
             /\ file \in Files
             /\ \A t \in Terminals : LoginInv(t)
             /\ SavedTokenIsOwn

Inv == EnrolmentInv /\ ClientInv

-----------------------------------------------------------------------------
(***************************************************************************)
(* What the assignments to a visit leave in it.                            *)
(***************************************************************************)

\* Of visit c only the program counter changes, to pc.
LEMMA GoFields ==
  ASSUME NEW c \in Visits, NEW pc \in PCs, visit \in [Visits -> Locals], Go(c, pc)
  PROVE  /\ visit' \in [Visits -> Locals]
         /\ \A d \in Visits : d # c => visit'[d] = visit[d]
         /\ visit'[c].pc = pc /\ visit'[c].email = visit[c].email
         /\ visit'[c].roles = visit[c].roles /\ visit'[c].log = visit[c].log
<1> DEFINE n == [visit[c] EXCEPT !.pc = pc]
<1>1. visit' = [visit EXCEPT ![c] = n] /\ visit[c] \in Locals
  BY DEF Go
<1>2. /\ n \in Locals /\ n.pc = pc
      /\ n.email = visit[c].email /\ n.roles = visit[c].roles /\ n.log = visit[c].log
  BY <1>1 DEF Locals, PCs, Rest
<1> HIDE DEF n
<1> QED
  BY <1>1, <1>2

LEMMA EndsFields ==
  ASSUME NEW c \in Visits, NEW pc \in PCs, NEW log \in {"none", "DENIED", "SUCCESS"},
         visit \in [Visits -> Locals], Ends(c, pc, log)
  PROVE  /\ visit' \in [Visits -> Locals]
         /\ \A d \in Visits : d # c => visit'[d] = visit[d]
         /\ visit'[c].pc = pc /\ visit'[c].email = visit[c].email
         /\ visit'[c].roles = visit[c].roles /\ visit'[c].log = log
<1> DEFINE n == [visit[c] EXCEPT !.pc = pc, !.log = log]
<1>1. visit' = [visit EXCEPT ![c] = n] /\ visit[c] \in Locals
  BY DEF Ends
<1>2. /\ n \in Locals /\ n.pc = pc
      /\ n.email = visit[c].email /\ n.roles = visit[c].roles /\ n.log = log
  BY <1>1 DEF Locals, PCs, Rest
<1> HIDE DEF n
<1> QED
  BY <1>1, <1>2

LEMMA SignFields ==
  ASSUME NEW c \in Visits, NEW R \in SUBSET Roles, visit \in [Visits -> Locals], ToSign(c, R)
  PROVE  /\ visit' \in [Visits -> Locals]
         /\ \A d \in Visits : d # c => visit'[d] = visit[d]
         /\ visit'[c].pc = "sign" /\ visit'[c].email = visit[c].email
         /\ visit'[c].roles = R
<1> DEFINE n == [visit[c] EXCEPT !.pc = "sign", !.roles = R]
<1>1. visit' = [visit EXCEPT ![c] = n] /\ visit[c] \in Locals
  BY DEF ToSign
<1>2. /\ n \in Locals /\ n.pc = "sign"
      /\ n.email = visit[c].email /\ n.roles = R
  BY <1>1 DEF Locals, PCs, Rest
<1> HIDE DEF n
<1> QED
  BY <1>1, <1>2

LEMMA FaultFields ==
  ASSUME faults \in 0 .. MaxFaults, Fault
  PROVE  faults' \in 0 .. MaxFaults /\ faults' # 0
  BY EnrolmentAssumption DEF Fault

\* A log that fails costs a fault.
LEMMA AnswerFields ==
  ASSUME NEW c \in Visits, NEW pc \in PCs, NEW log \in {"DENIED", "SUCCESS"},
         visit \in [Visits -> Locals], faults \in 0 .. MaxFaults, Answer(c, pc, log)
  PROVE  /\ visit' \in [Visits -> Locals]
         /\ \A d \in Visits : d # c => visit'[d] = visit[d]
         /\ visit'[c].pc = pc /\ visit'[c].email = visit[c].email
         /\ visit'[c].roles = visit[c].roles
         /\ faults' \in 0 .. MaxFaults
         /\ \/ visit'[c].log = log /\ faults' = faults
            \/ faults' # 0
<1>1. CASE Ends(c, pc, log) /\ UNCHANGED faults
  BY <1>1, EndsFields
<1>2. CASE Fault /\ (Ends(c, pc, log) \/ Ends(c, pc, "none"))
  BY <1>2, EndsFields, FaultFields
<1> QED
  BY <1>1, <1>2 DEF Answer

LEMMA LoginFields ==
  ASSUME NEW c \in Visits, visit \in [Visits -> Locals], HandleLogin(c)
  PROVE  /\ visit' \in [Visits -> Locals]
         /\ \A d \in Visits : d # c => visit'[d] = visit[d]
         /\ visit'[c].pc = "provider"
<1> DEFINE n == [NoVisit EXCEPT !.pc = "provider"]
<1>1. visit' = [visit EXCEPT ![c] = n]
  BY DEF HandleLogin
<1>2. n \in Locals /\ n.pc = "provider"
  BY DEF NoVisit, Locals, PCs, Rest
<1> HIDE DEF n
<1> QED
  BY <1>1, <1>2

LEMMA IdentifyFields ==
  ASSUME NEW c \in Visits, visit \in [Visits -> Locals], Identify(c)
  PROVE  /\ visit' \in [Visits -> Locals]
         /\ \A d \in Visits : d # c => visit'[d] = visit[d]
         /\ visit'[c].pc = "domain" /\ visit'[c].email \in Emails
<1>1. PICK e \in Emails :
         visit' = [visit EXCEPT ![c] = [visit[c] EXCEPT !.pc = "domain", !.email = e]]
  BY DEF Identify
<1> DEFINE n == [visit[c] EXCEPT !.pc = "domain", !.email = e]
<1>2. visit' = [visit EXCEPT ![c] = n] /\ visit[c] \in Locals
  BY <1>1
<1>3. n \in Locals /\ n.pc = "domain" /\ n.email = e
  BY <1>2 DEF Locals, PCs, Rest
<1> HIDE DEF n
<1> QED
  BY <1>2, <1>3

\* Everything that runs for an identified visit is over when the API dies.
LEMMA DiesFields ==
  ASSUME visit \in [Visits -> Locals], ApiDies
  PROVE  /\ visit' \in [Visits -> Locals]
         /\ \A d \in Visits : visit'[d] = visit[d] \/ visit'[d].pc = "failed"
         /\ \A d \in Visits : visit[d].pc \notin Rest \cup {"provider"} => visit'[d].pc = "failed"
<1>1. ASSUME NEW d \in Visits
      PROVE  /\ [visit[d] EXCEPT !.pc = "failed"] \in Locals
             /\ [visit[d] EXCEPT !.pc = "failed"].pc = "failed"
  <2>1. visit[d] \in Locals
    OBVIOUS
  <2> QED
    BY <2>1 DEF Locals, PCs, Rest
<1>2. visit' = [d \in Visits |-> IF visit[d].pc \in Rest \cup {"provider"} THEN visit[d]
                                ELSE [visit[d] EXCEPT !.pc = "failed"]]
  BY DEF ApiDies
<1> QED
  BY <1>1, <1>2

-----------------------------------------------------------------------------
(***************************************************************************)
(* The enrolment.                                                          *)
(***************************************************************************)

LEMMA EnrolmentStarts == EnrolmentInit => EnrolmentInv
  BY EnrolmentAssumption
   DEF EnrolmentInit, EnrolmentInv, EnrolmentTypeOK, VisitInv, OneEnrols, Enrolling,
       NoVisit, Locals, PCs, Rest

\* What all steps share: the tables of users and roles grow, and so do the
\* histories and the number of faults.
Grows == /\ allowed' = allowed /\ jit' = jit
         /\ users \subseteq users' /\ roles \subseteq roles' /\ given \subseteq given'
         /\ \A e \in Emails : held[e] \subseteq held'[e]
         /\ faults' = 0 => faults = 0

\* A step of another visit leaves a visit what it has established, unless it
\* enrols the same person.
LEMMA OtherVisit ==
  ASSUME NEW d \in Visits, VisitInv(d), visit'[d] = visit[d], Grows,
         visit[d].pc \in Enrolling => visit[d].email \notin given'
  PROVE  VisitInv(d)'
  BY DEF VisitInv, Enrolling, Grows

\* HasDefault, for a person who is in the table, when the role exists.
LEMMA DefaultStep ==
  ASSUME EnrolmentInv, NEW e \in users, DefaultRole \in roles, HasDefault(e)
  PROVE  /\ grants' \in [Emails -> SUBSET Roles] /\ held' \in [Emails -> SUBSET Roles]
         /\ grants'[e] \subseteq roles
         /\ DefaultRole \in held'[e]
         /\ \A f \in Emails : f # e => grants'[f] = grants[f]
         /\ \A f \in Emails : held[f] \subseteq held'[f] /\ grants'[f] \subseteq held'[f]
         /\ given' = given \cup {e}
<1>1. e \in Emails /\ DefaultRole \in Roles /\ roles \subseteq Roles
  BY DEF EnrolmentInv, EnrolmentTypeOK
<1>2. /\ grants \in [Emails -> SUBSET Roles] /\ held \in [Emails -> SUBSET Roles]
      /\ grants[e] \subseteq roles
      /\ \A f \in Emails : grants[f] \subseteq held[f]
  BY <1>1 DEF EnrolmentInv, EnrolmentTypeOK
<1> QED
  BY <1>1, <1>2 DEF HasDefault

\* A step for visit c keeps the invariant if it keeps the types and what c
\* itself has established, enrols nobody who is in the table, and gives the
\* default role only to the person c enrols.
LEMMA VisitStep ==
  ASSUME EnrolmentInv, NEW c \in Visits, Grows, EnrolmentTypeOK', VisitInv(c)',
         \A d \in Visits : d # c => visit'[d] = visit[d],
         \A e \in Emails : grants'[e] \subseteq held'[e],
         visit'[c].pc \in Enrolling =>
            \/ visit[c].pc \in Enrolling /\ visit'[c].email = visit[c].email
            \/ visit'[c].email \notin users,
         \/ given' = given
         \/ visit[c].pc \in Enrolling /\ given' = given \cup {visit[c].email}
  PROVE  EnrolmentInv'
<1>1. OneEnrols'
  BY DEF EnrolmentInv, OneEnrols, VisitInv
<1>2. ASSUME NEW d \in Visits, d # c PROVE VisitInv(d)'
  <2>1. VisitInv(d) /\ visit'[d] = visit[d]
    BY <1>2 DEF EnrolmentInv
  <2>2. visit[d].pc \in Enrolling => visit[d].email \notin given'
    BY <1>2, <2>1 DEF EnrolmentInv, OneEnrols, VisitInv
  <2> QED
    BY <2>1, <2>2, OtherVisit
<1> QED
  BY <1>1, <1>2 DEF EnrolmentInv

\* The same for a step that leaves the tables alone.
LEMMA QuietStep ==
  ASSUME EnrolmentInv, NEW c \in Visits, VisitInv(c)', visit' \in [Visits -> Locals],
         \A d \in Visits : d # c => visit'[d] = visit[d],
         UNCHANGED <<jit, allowed, users, roles, grants, held, given, changes>>,
         faults' \in 0 .. MaxFaults, faults' = faults \/ faults' # 0,
         visit'[c].pc \in Enrolling =>
            visit[c].pc \in Enrolling /\ visit'[c].email = visit[c].email
  PROVE  EnrolmentInv'
<1>1. Grows
  BY DEF Grows
<1>2. EnrolmentTypeOK' /\ \A e \in Emails : grants'[e] \subseteq held'[e]
  BY DEF EnrolmentInv, EnrolmentTypeOK
<1> QED
  BY <1>1, <1>2, VisitStep

LEMMA CallbackStep ==
  ASSUME EnrolmentInv, NEW c \in Visits, Callback(c)
  PROVE  EnrolmentInv'
<1>0. /\ visit \in [Visits -> Locals] /\ visit[c] \in Locals /\ VisitInv(c)
      /\ faults \in 0 .. MaxFaults /\ users \subseteq Emails /\ roles \subseteq Roles
      /\ given \subseteq users
  BY DEF EnrolmentInv, EnrolmentTypeOK
<1>p. {"lookup", "refused", "load", "insert", "failed", "find_role", "give_role", "make_role",
       "sign", "token"} \subseteq PCs
  BY DEF PCs, Rest
<1>1. CASE CheckDomain(c)
  <2>1. CASE visit[c].email \in allowed /\ Go(c, "lookup") /\ UNCHANGED faults
    BY <1>0, <1>p, <1>1, <2>1, GoFields, QuietStep DEF CheckDomain, VisitInv, Enrolling
  <2>2. CASE Refuse(c)
    BY <1>0, <1>p, <1>1, <2>2, AnswerFields, QuietStep DEF CheckDomain, Refuse, VisitInv, Enrolling
  <2>3. CASE Go(c, "failed") /\ UNCHANGED faults
    BY <1>0, <1>p, <1>1, <2>3, GoFields, QuietStep DEF CheckDomain, VisitInv, Enrolling
  <2> QED
    BY <1>1, <2>1, <2>2, <2>3 DEF CheckDomain
<1>2. CASE LookupUser(c)
  <2>1. CASE visit[c].email \in users /\ Go(c, "load") /\ UNCHANGED faults
    BY <1>0, <1>p, <1>2, <2>1, GoFields, QuietStep DEF LookupUser, VisitInv, Enrolling
  <2>2. CASE Go(c, "insert") /\ UNCHANGED faults
    BY <1>0, <1>p, <1>2, <2>2, GoFields, QuietStep DEF LookupUser, VisitInv, Enrolling
  <2>3. CASE Refuse(c)
    BY <1>0, <1>p, <1>2, <2>3, AnswerFields, QuietStep DEF LookupUser, Refuse, VisitInv, Enrolling
  <2> QED
    BY <1>2, <2>1, <2>2, <2>3 DEF LookupUser
<1>3. CASE InsertUser(c)
  <2>1. /\ visit[c].pc = "insert" /\ users' = users \cup {visit[c].email}
        /\ UNCHANGED <<jit, allowed, roles, grants, held, given, faults, changes>>
        /\ visit[c].email \in Emails /\ visit[c].email \in allowed
    BY <1>0, <1>3 DEF InsertUser, VisitInv
  <2>2. /\ visit' \in [Visits -> Locals]
        /\ \A d \in Visits : d # c => visit'[d] = visit[d]
        /\ visit'[c].email = visit[c].email
        /\ \/ visit'[c].pc = "failed"
           \/ visit'[c].pc = "find_role" /\ visit[c].email \notin users
    <3>1. CASE visit[c].email \in users
      BY <1>0, <1>p, <1>3, <3>1, GoFields DEF InsertUser
    <3>2. CASE visit[c].email \notin users
      BY <1>0, <1>p, <1>3, <3>2, GoFields DEF InsertUser
    <3> QED
      BY <3>1, <3>2
  <2>3. EnrolmentTypeOK' /\ \A e \in Emails : grants'[e] \subseteq held'[e]
    BY <2>1, <2>2 DEF EnrolmentInv, EnrolmentTypeOK
  <2>4. VisitInv(c)'
    BY <1>0, <2>1, <2>2 DEF VisitInv, Enrolling
  <2>5. Grows
    BY <2>1 DEF Grows
  <2> QED
    BY <2>1, <2>2, <2>3, <2>4, <2>5, VisitStep DEF Enrolling
<1>4. CASE FindRole(c)
  <2>1. faults' \in 0 .. MaxFaults /\ (faults' = faults \/ faults' # 0)
    BY <1>0, <1>4, FaultFields DEF FindRole
  <2>2. Go(c, "make_role") \/ (Go(c, "give_role") /\ DefaultRole \in roles)
    BY <1>4 DEF FindRole
  <2> QED
    BY <1>0, <1>p, <1>4, <2>1, <2>2, GoFields, QuietStep DEF FindRole, VisitInv, Enrolling
<1>5. CASE MakeRole(c)
  <2>1. /\ visit[c].pc = "make_role" /\ roles' = roles \cup {DefaultRole}
        /\ UNCHANGED <<jit, allowed, users, grants, held, given, faults, changes>>
        /\ DefaultRole \in Roles
    BY <1>5, EnrolmentAssumption DEF MakeRole
  <2>2. /\ visit' \in [Visits -> Locals]
        /\ \A d \in Visits : d # c => visit'[d] = visit[d]
        /\ visit'[c].email = visit[c].email /\ visit'[c].pc = "give_role"
    BY <1>0, <1>p, <1>5, GoFields DEF MakeRole
  <2>3. EnrolmentTypeOK' /\ \A e \in Emails : grants'[e] \subseteq held'[e]
    BY <2>1, <2>2 DEF EnrolmentInv, EnrolmentTypeOK
  <2>4. VisitInv(c)'
    BY <1>0, <2>1, <2>2 DEF VisitInv, Enrolling
  <2>5. Grows
    BY <2>1 DEF Grows
  <2> QED
    BY <2>1, <2>2, <2>3, <2>4, <2>5, VisitStep DEF Enrolling
<1>6. CASE GiveRole(c)
  <2>1. /\ visit[c].pc = "give_role" /\ HasDefault(visit[c].email)
        /\ UNCHANGED <<jit, allowed, users, roles, faults, changes>>
        /\ visit[c].email \in users /\ visit[c].email \in Emails
        /\ visit[c].email \in allowed
        /\ DefaultRole \in roles /\ {DefaultRole} \in SUBSET Roles
    BY <1>0, <1>6 DEF GiveRole, VisitInv, Enrolling
  <2>2. /\ visit' \in [Visits -> Locals]
        /\ \A d \in Visits : d # c => visit'[d] = visit[d]
        /\ visit'[c].email = visit[c].email /\ visit'[c].pc = "sign"
        /\ visit'[c].roles = {DefaultRole}
    BY <1>0, <1>6, <2>1, SignFields DEF GiveRole
  <2>3. EnrolmentTypeOK' /\ \A e \in Emails : grants'[e] \subseteq held'[e]
    BY <2>1, <2>2, DefaultStep DEF EnrolmentInv, EnrolmentTypeOK
  <2>4. VisitInv(c)'
    BY <1>0, <2>1, <2>2, DefaultStep DEF VisitInv, Enrolling
  <2>5. Grows
    BY <2>1, DefaultStep DEF Grows
  <2> QED
    BY <2>1, <2>2, <2>3, <2>4, <2>5, VisitStep, DefaultStep DEF Enrolling
<1>7. CASE LoadRoles(c)
  <2>1. PICK R \in SUBSET grants[visit[c].email] :
           /\ (R = grants[visit[c].email] /\ UNCHANGED faults) \/ Fault
           /\ Loaded(c, R)
    BY <1>7 DEF LoadRoles
  <2>2. /\ visit[c].pc = "load" /\ visit[c].email \in Emails
        /\ visit[c].email \in users /\ visit[c].email \in allowed
        /\ UNCHANGED <<jit, allowed, users, roles, grants, held, given, changes>>
    BY <1>0, <1>7 DEF LoadRoles, VisitInv
  <2> DEFINE S == IF R = {} THEN {Fallback} ELSE R
  <2>3. /\ S \in SUBSET Roles /\ S # {}
        /\ S \subseteq held[visit[c].email] \/ S = {Fallback}
    BY <2>1, <2>2, EnrolmentAssumption DEF EnrolmentInv, EnrolmentTypeOK
  <2>4. ToSign(c, S)
    BY <2>1 DEF Loaded
  <2> HIDE DEF S
  <2>5. faults' \in 0 .. MaxFaults /\ (faults' = faults \/ faults' # 0)
    BY <1>0, <2>1, FaultFields
  <2>6. /\ visit' \in [Visits -> Locals]
        /\ \A d \in Visits : d # c => visit'[d] = visit[d]
        /\ visit'[c].email = visit[c].email /\ visit'[c].pc = "sign"
        /\ visit'[c].roles = S
    BY <1>0, <2>3, <2>4, SignFields
  <2>7. VisitInv(c)'
    BY <2>2, <2>3, <2>6 DEF VisitInv, Enrolling
  <2> QED
    BY <2>2, <2>5, <2>6, <2>7, QuietStep DEF Enrolling
<1>8. CASE SignToken(c)
  BY <1>0, <1>p, <1>8, AnswerFields, QuietStep DEF SignToken, VisitInv, Enrolling
<1> QED
  BY <1>1, <1>2, <1>3, <1>4, <1>5, <1>6, <1>7, <1>8 DEF Callback

LEMMA FailureStep ==
  ASSUME EnrolmentInv, NEW c \in Visits, StatementFails(c)
  PROVE  EnrolmentInv'
<1>1. /\ visit \in [Visits -> Locals] /\ VisitInv(c) /\ "failed" \in PCs
      /\ faults \in 0 .. MaxFaults /\ UNCHANGED <<jit, allowed, changes>>
      /\ Fault /\ Go(c, "failed")
  BY DEF EnrolmentInv, EnrolmentTypeOK, StatementFails, PCs, Rest
<1>2. /\ visit' \in [Visits -> Locals]
      /\ \A d \in Visits : d # c => visit'[d] = visit[d]
      /\ visit'[c].pc = "failed" /\ visit'[c].email = visit[c].email
  BY <1>1, GoFields
<1>3. faults' \in 0 .. MaxFaults /\ faults' # 0
  BY <1>1, FaultFields
<1>4. VisitInv(c)'
  BY <1>2 DEF VisitInv, Enrolling
<1>5. CASE UNCHANGED <<users, roles, grants, held, given>>
  BY <1>1, <1>2, <1>3, <1>4, <1>5, QuietStep DEF Enrolling
<1>6. CASE /\ visit[c].pc = "insert" /\ users' = users \cup {visit[c].email}
           /\ UNCHANGED <<roles, grants, held, given>>
  <2>1. EnrolmentTypeOK' /\ \A e \in Emails : grants'[e] \subseteq held'[e]
    BY <1>1, <1>2, <1>3, <1>6 DEF EnrolmentInv, EnrolmentTypeOK, VisitInv
  <2>2. Grows
    BY <1>1, <1>3, <1>6 DEF Grows
  <2> QED
    BY <1>2, <1>4, <1>6, <2>1, <2>2, VisitStep DEF Enrolling
<1>7. CASE /\ visit[c].pc = "make_role" /\ roles' = roles \cup {DefaultRole}
           /\ UNCHANGED <<users, grants, held, given>>
  <2>1. EnrolmentTypeOK' /\ \A e \in Emails : grants'[e] \subseteq held'[e]
    BY <1>1, <1>2, <1>3, <1>7, EnrolmentAssumption DEF EnrolmentInv, EnrolmentTypeOK
  <2>2. Grows
    BY <1>1, <1>3, <1>7 DEF Grows
  <2> QED
    BY <1>2, <1>4, <1>7, <2>1, <2>2, VisitStep DEF Enrolling
<1>8. CASE /\ visit[c].pc = "give_role" /\ HasDefault(visit[c].email)
           /\ UNCHANGED <<users, roles>>
  <2>1. /\ visit[c].email \in users /\ visit[c].email \in Emails
        /\ DefaultRole \in roles
    BY <1>1, <1>8 DEF VisitInv, Enrolling
  <2>2. EnrolmentTypeOK' /\ \A e \in Emails : grants'[e] \subseteq held'[e]
    BY <1>1, <1>2, <1>3, <1>8, <2>1, DefaultStep DEF EnrolmentInv, EnrolmentTypeOK
  <2>3. Grows
    BY <1>1, <1>3, <1>8, <2>1, DefaultStep DEF Grows
  <2> QED
    BY <1>2, <1>4, <1>8, <2>1, <2>2, <2>3, VisitStep, DefaultStep DEF Enrolling
<1> QED
  BY <1>5, <1>6, <1>7, <1>8 DEF StatementFails

LEMMA BrowserStep ==
  ASSUME EnrolmentInv, NEW c \in Visits, HandleLogin(c) \/ Identify(c) \/ IdentifyFails(c)
  PROVE  EnrolmentInv'
<1>1. /\ visit \in [Visits -> Locals] /\ VisitInv(c) /\ "failed" \in PCs
      /\ faults \in 0 .. MaxFaults
  BY DEF EnrolmentInv, EnrolmentTypeOK, PCs, Rest
<1>2. CASE HandleLogin(c)
  BY <1>1, <1>2, LoginFields, QuietStep DEF HandleLogin, VisitInv, Enrolling
<1>3. CASE Identify(c)
  BY <1>1, <1>3, IdentifyFields, QuietStep DEF Identify, VisitInv, Enrolling
<1>4. CASE IdentifyFails(c)
  BY <1>1, <1>4, GoFields, QuietStep DEF IdentifyFails, VisitInv, Enrolling
<1> QED
  BY <1>2, <1>3, <1>4

LEMMA DeathStep ==
  ASSUME EnrolmentInv, ApiDies
  PROVE  EnrolmentInv'
<1>1. /\ visit' \in [Visits -> Locals]
      /\ \A d \in Visits : visit'[d] = visit[d] \/ visit'[d].pc = "failed"
      /\ faults' \in 0 .. MaxFaults /\ faults' # 0
      /\ UNCHANGED <<jit, allowed, users, roles, grants, held, given, changes>>
  BY DiesFields, FaultFields DEF EnrolmentInv, EnrolmentTypeOK, ApiDies
<1>2. EnrolmentTypeOK' /\ \A e \in Emails : grants'[e] \subseteq held'[e]
  BY <1>1 DEF EnrolmentInv, EnrolmentTypeOK
<1>3. OneEnrols'
  BY <1>1 DEF EnrolmentInv, OneEnrols, Enrolling
<1>4. ASSUME NEW d \in Visits PROVE VisitInv(d)'
  <2>1. CASE visit'[d].pc = "failed"
    BY <2>1 DEF VisitInv, Enrolling
  <2>2. CASE visit'[d] = visit[d]
    BY <1>1, <2>2 DEF EnrolmentInv, VisitInv, Enrolling
  <2> QED
    BY <1>1, <2>1, <2>2
<1> QED
  BY <1>2, <1>3, <1>4 DEF EnrolmentInv

\* Steps that leave the visits alone: the administrator, and a failure of a
\* terminal, which only counts.
LEMMA BesideStep ==
  ASSUME EnrolmentInv, (\E e \in Emails : AdminChanges(e)) \/ CliFault \/ UNCHANGED evars
  PROVE  EnrolmentInv'
<1>1. EnrolmentTypeOK' /\ \A e \in Emails : grants'[e] \subseteq held'[e]
  <2>1. ASSUME NEW e \in Emails, AdminChanges(e)
        PROVE EnrolmentTypeOK' /\ \A f \in Emails : grants'[f] \subseteq held'[f]
    <3>1. PICK r \in roles :
             \/ /\ grants' = [grants EXCEPT ![e] = @ \cup {r}]
                /\ held' = [held EXCEPT ![e] = @ \cup {r}]
             \/ /\ grants' = [grants EXCEPT ![e] = @ \ {r}]
                /\ UNCHANGED held
      BY <2>1 DEF AdminChanges
    <3>2. /\ r \in Roles /\ e \in users
          /\ UNCHANGED <<jit, allowed, users, roles, visit, given, faults>>
          /\ changes' \in 0 .. MaxChanges
      BY <2>1, EnrolmentAssumption DEF AdminChanges, EnrolmentInv, EnrolmentTypeOK
    <3>3. /\ grants' \in [Emails -> SUBSET Roles] /\ held' \in [Emails -> SUBSET Roles]
          /\ \A f \in Emails : grants'[f] \subseteq held'[f]
          /\ \A f \in Emails : grants'[f] \subseteq (IF f \in users THEN roles ELSE {})
      BY <3>1, <3>2 DEF EnrolmentInv, EnrolmentTypeOK
    <3> QED
      BY <3>2, <3>3 DEF EnrolmentInv, EnrolmentTypeOK
  <2>2. CASE CliFault
    <3>1. faults' \in 0 .. MaxFaults
      BY <2>2, FaultFields DEF CliFault, EnrolmentInv, EnrolmentTypeOK
    <3> QED
      BY <2>2, <3>1 DEF CliFault, EnrolmentInv, EnrolmentTypeOK
  <2>3. CASE UNCHANGED evars
    BY <2>3 DEF evars, EnrolmentInv, EnrolmentTypeOK
  <2> QED
    BY <2>1, <2>2, <2>3
<1>2. /\ visit' = visit /\ users' = users /\ allowed' = allowed /\ roles' = roles
      /\ given' = given /\ \A e \in Emails : held[e] \subseteq held'[e]
      /\ faults' = faults \/ faults' # 0
  <2>1. ASSUME NEW e \in Emails, AdminChanges(e)
        PROVE \A f \in Emails : held[f] \subseteq held'[f]
    BY <2>1 DEF AdminChanges, EnrolmentInv, EnrolmentTypeOK
  <2>2. CASE CliFault
    BY <2>2, FaultFields DEF CliFault, EnrolmentInv, EnrolmentTypeOK
  <2>3. CASE UNCHANGED evars
    BY <2>3 DEF evars
  <2> QED
    BY <2>1, <2>2, <2>3 DEF AdminChanges
<1>3. OneEnrols'
  BY <1>2 DEF EnrolmentInv, OneEnrols
<1>4. ASSUME NEW d \in Visits PROVE VisitInv(d)'
  BY <1>2 DEF EnrolmentInv, VisitInv, Enrolling
<1> QED
  BY <1>1, <1>3, <1>4 DEF EnrolmentInv

\* Every step of SignIn is one of these for the tables of the API.
LEMMA Steps ==
  ASSUME [Next]_vars
  PROVE  \/ \E c \in Visits : \/ Callback(c) \/ StatementFails(c)
                               \/ HandleLogin(c) \/ Identify(c) \/ IdentifyFails(c)
         \/ ApiDies
         \/ (\E e \in Emails : AdminChanges(e)) \/ CliFault \/ UNCHANGED evars
<1>1. CASE \E t \in Terminals : Terminal(t)
  BY <1>1 DEF Terminal, Login, ListenFails, Select, TakeToken, TakeError, Timeout,
              SaveFails, ServeFails
<1>2. CASE \E c \in Visits : Browser(c)
  BY <1>2 DEF Browser, OpenTab, ComesBack, Redirect
<1>3. CASE Api \/ Administrator
  BY <1>3 DEF Api, Administrator
<1>4. CASE Logout \/ UNCHANGED vars
  BY <1>4 DEF Logout, vars
<1> QED
  BY <1>1, <1>2, <1>3, <1>4 DEF Next

LEMMA EnrolmentStep == EnrolmentInv /\ [Next]_vars => EnrolmentInv'
  BY Steps, CallbackStep, FailureStep, BrowserStep, DeathStep, BesideStep

-----------------------------------------------------------------------------
(***************************************************************************)
(* The command.                                                            *)
(***************************************************************************)

LEMMA IdleFields ==
  Idle \in Logins /\ ~Idle.waiting /\ Idle.tokenChan = NoToken
  BY DEF Idle, Logins

LEMMA NoFileFields ==
  /\ NoFile \in Files /\ NoFile.token = NoToken
  /\ [NoFile EXCEPT !.token = Torn] \in Files /\ [NoFile EXCEPT !.token = Torn].token = Torn
  BY DEF NoFile, Files

LEMMA ClientInit == Init => ClientInv
  BY IdleFields, NoFileFields
     DEF Init, ClientInv, LoginInv, Tokens, SavedTokenIsOwn, Saved

LEMMA LeaveFields ==
  ASSUME ClientInv, NEW t \in Terminals, Leave(t)
  PROVE  /\ cli' \in [Terminals -> Logins] /\ link' \in [Visits -> Tokens]
         /\ cookie' = cookie
         /\ cli'[t] = Idle /\ \A u \in Terminals : u # t => cli'[u] = cli[u]
         /\ \A u \in Terminals : LoginInv(u)'
<1>1. /\ cli' \in [Terminals -> Logins] /\ link' \in [Visits -> Tokens]
      /\ cookie' = cookie
      /\ cli'[t] = Idle /\ \A u \in Terminals : u # t => cli'[u] = cli[u]
  BY IdleFields DEF ClientInv, Leave, Tokens
<1>2. ASSUME NEW u \in Terminals PROVE LoginInv(u)'
  BY <1>1, IdleFields DEF ClientInv, LoginInv
<1> QED
  BY <1>1, <1>2

\* A login that ends, with the file as it was or with none that could be used,
\* changes nothing that is known of the file.
LEMMA LeaveStep ==
  ASSUME ClientInv, NEW t \in Terminals, Leave(t),
         file' = file \/ file' = [NoFile EXCEPT !.token = Torn]
  PROVE  ClientInv'
<1>1. file' \in Files /\ (file' = file \/ ~Saved')
  BY NoFileFields DEF ClientInv, Saved
<1>2. SavedTokenIsOwn'
  BY <1>1, LeaveFields, IdleFields DEF ClientInv, SavedTokenIsOwn, Saved
<1> QED
  BY <1>1, <1>2, LeaveFields DEF ClientInv

LEMMA LoginStep ==
  ASSUME ClientInv, NEW t \in Terminals, Login(t)
  PROVE  ClientInv'
<1> DEFINE n == [Idle EXCEPT !.waiting = TRUE]
<1>1. n \in Logins /\ n.waiting /\ n.tokenChan = NoToken
  BY DEF Idle, Logins
<1>2. cli' = [cli EXCEPT ![t] = n] /\ UNCHANGED <<link, cookie>>
  BY DEF Login
<1> HIDE DEF n
<1>3. /\ cli' \in [Terminals -> Logins]
      /\ cli'[t] = n /\ \A u \in Terminals : u # t => cli'[u] = cli[u]
  BY <1>1, <1>2 DEF ClientInv
<1>4. ASSUME NEW u \in Terminals PROVE LoginInv(u)'
  BY <1>1, <1>3 DEF ClientInv, LoginInv
<1>5. file' \in Files /\ SavedTokenIsOwn'
  BY NoFileFields DEF Login, ClientInv, SavedTokenIsOwn, Saved
<1> QED
  BY <1>2, <1>3, <1>4, <1>5 DEF ClientInv

LEMMA TakeStep ==
  ASSUME ClientInv, NEW t \in Terminals, TakeToken(t)
  PROVE  ClientInv'
<1>1. /\ cli[t].tokenChan = t /\ t # NoToken /\ Leave(t)
      /\ file' = [token |-> t, by |-> t]
  BY SignInAssumption DEF TakeToken, ClientInv, LoginInv
<1>2. file' \in Files /\ file'.token = t /\ file'.by = t
  BY <1>1 DEF Files, Tokens
<1> QED
  BY <1>1, <1>2, LeaveFields DEF ClientInv, SavedTokenIsOwn

LEMMA ErrorStep ==
  ASSUME ClientInv, NEW t \in Terminals,
         \/ cli' = [cli EXCEPT ![t].errChan = TRUE]
         \/ cli[t].waiting /\ cli' = [cli EXCEPT ![t].tokenChan = t],
         UNCHANGED <<link, cookie, file>>
  PROVE  ClientInv'
<1>1. PICK n \in Logins : /\ cli' = [cli EXCEPT ![t] = n]
                          /\ n.waiting = cli[t].waiting
                          /\ \/ n.tokenChan = cli[t].tokenChan
                             \/ n.tokenChan = t /\ n.waiting
  <2>1. cli[t] \in Logins
    BY DEF ClientInv
  <2>2. CASE cli' = [cli EXCEPT ![t].errChan = TRUE]
    <3> DEFINE n == [cli[t] EXCEPT !.errChan = TRUE]
    <3>1. /\ n \in Logins /\ n.waiting = cli[t].waiting
          /\ n.tokenChan = cli[t].tokenChan
      BY <2>1 DEF Logins, Tokens
    <3>2. cli' = [cli EXCEPT ![t] = n]
      BY <2>2
    <3> HIDE DEF n
    <3> QED
      BY <2>2, <3>1, <3>2
  <2>3. CASE cli[t].waiting /\ cli' = [cli EXCEPT ![t].tokenChan = t]
    <3> DEFINE n == [cli[t] EXCEPT !.tokenChan = t]
    <3>1. /\ n \in Logins /\ n.waiting = cli[t].waiting
          /\ n.tokenChan = t
      BY <2>1 DEF Logins, Tokens
    <3>2. cli' = [cli EXCEPT ![t] = n]
      BY <2>3
    <3> HIDE DEF n
    <3> QED
      BY <2>3, <3>1, <3>2
  <2> QED
    BY <2>2, <2>3
<1>2. /\ cli' \in [Terminals -> Logins]
      /\ cli'[t] = n /\ \A u \in Terminals : u # t => cli'[u] = cli[u]
  BY <1>1 DEF ClientInv
<1>3. ASSUME NEW u \in Terminals PROVE LoginInv(u)'
  BY <1>1, <1>2 DEF ClientInv, LoginInv
<1> QED
  BY <1>2, <1>3 DEF ClientInv, SavedTokenIsOwn, Saved

\* Steps that leave the logins alone.
LEMMA FileStep ==
  ASSUME ClientInv, cli' = cli, link' \in [Visits -> Tokens], cookie' \in Visits \cup {NoToken},
         file' = file \/ file' = NoFile
  PROVE  ClientInv'
<1>1. \A t \in Terminals : LoginInv(t)'
  BY DEF ClientInv, LoginInv
<1>2. file' \in Files /\ (file' = file \/ ~Saved')
  BY NoFileFields DEF ClientInv, Saved
<1> QED
  BY <1>1, <1>2 DEF ClientInv, SavedTokenIsOwn, Saved

LEMMA ClientStep == ClientInv /\ [Next]_vars => ClientInv'
<1> SUFFICES ASSUME ClientInv, [Next]_vars PROVE ClientInv'
  OBVIOUS
<1>0. link \in [Visits -> Tokens] /\ cookie \in Visits \cup {NoToken}
  BY DEF ClientInv
<1>1. ASSUME NEW t \in Terminals, Login(t) PROVE ClientInv'
  BY <1>1, LoginStep
<1>2. ASSUME NEW t \in Terminals, ListenFails(t) PROVE ClientInv'
  BY <1>0, <1>2, FileStep DEF ListenFails
<1>3. ASSUME NEW t \in Terminals, Select(t) PROVE ClientInv'
  BY <1>3, TakeStep, LeaveStep DEF Select, TakeError, Timeout
<1>4. ASSUME NEW t \in Terminals, SaveFails(t) PROVE ClientInv'
  BY <1>4, LeaveStep DEF SaveFails
<1>5. ASSUME NEW t \in Terminals, ServeFails(t) PROVE ClientInv'
  BY <1>5, ErrorStep DEF ServeFails
<1>6. ASSUME NEW c \in Visits, OpenTab(c) PROVE ClientInv'
  <2>1. link' \in [Visits -> Tokens]
    BY <1>0, <1>6 DEF OpenTab, Tokens
  <2> QED
    BY <1>6, <2>1, FileStep DEF OpenTab
<1>7. ASSUME NEW c \in Visits, NEW t \in Terminals, Redirect(c, t) PROVE ClientInv'
  BY <1>7, ErrorStep DEF Redirect, Receive
<1>8. CASE Logout
  BY <1>0, <1>8, FileStep DEF Logout
<1>9. CASE UNCHANGED cvars
  BY <1>0, <1>9, FileStep DEF cvars
<1> QED
  BY <1>1, <1>2, <1>3, <1>4, <1>5, <1>6, <1>7, <1>8, <1>9
     DEF Next, Terminal, Browser, ComesBack, vars, cvars

-----------------------------------------------------------------------------
\* The inductive invariant: how far each visit has got and what it may rely on,
\* what each login holds, and whose token is in the file.
THEOREM Invariance == Spec => []Inv
<1>1. Init => Inv
  BY EnrolmentStarts, ClientInit DEF Init, Inv
<1>2. Inv /\ [Next]_vars => Inv'
  BY EnrolmentStep, ClientStep DEF Inv
<1> QED
  BY <1>1, <1>2, PTL DEF Spec

\* Every variable of the API, the terminals and the browser keeps its type, and
\* user_roles never refers to a user or a role that does not exist.
THEOREM TypeCorrect == Spec => []TypeOK
<1>1. Inv => TypeOK
  BY DEF Inv, EnrolmentInv, ClientInv, TypeOK
<1> QED
  BY <1>1, Invariance, PTL

\* Every token belongs to a user of an allowed domain and carries roles that
\* have been his, or the fallback, whatever fails between the statements.
THEOREM TokensAreEarnedAlways == Spec => []TokensAreEarned
<1>1. Inv => TokensAreEarned
  BY DEF Inv, EnrolmentInv, VisitInv, Enrolling, TokensAreEarned
<1> QED
  BY <1>1, Invariance, PTL

\* The token in the file was made for the login that saved it: the state keeps
\* every other tab out, for any number of terminals and tabs.
THEOREM SavedTokensAreOwn == Spec => []SavedTokenIsOwn
<1>1. Inv => SavedTokenIsOwn
  BY DEF Inv, ClientInv
<1> QED
  BY <1>1, Invariance, PTL

\* No login gives the default role to somebody who has been given it before,
\* however many first logins of one person interleave.
THEOREM DefaultIsGivenOnce == Spec => DefaultGivenOnce
<1> DEFINE Kept == \A e \in given : grants'[e] \subseteq grants[e] \/ changes' # changes
<1>1. Inv /\ [Next]_vars => [Kept]_<<grants, changes>>
  <2> SUFFICES ASSUME Inv, [Next]_vars, NEW e \in given
               PROVE  \/ grants'[e] \subseteq grants[e] \/ changes' # changes
                      \/ UNCHANGED <<grants, changes>>
    OBVIOUS
  <2>1. ASSUME NEW c \in Visits, HasDefault(visit[c].email), visit[c].pc = "give_role"
        PROVE  grants'[e] = grants[e]
    <3>1. visit[c].email # e /\ grants \in [Emails -> SUBSET Roles] /\ e \in Emails
      BY <2>1 DEF Inv, EnrolmentInv, EnrolmentTypeOK, VisitInv, Enrolling
    <3> QED
      BY <2>1, <3>1 DEF HasDefault
  <2>2. ASSUME NEW c \in Visits, Callback(c) PROVE grants'[e] = grants[e]
    BY <2>1, <2>2 DEF Callback, CheckDomain, LookupUser, InsertUser, FindRole, MakeRole,
                      GiveRole, LoadRoles, SignToken
  <2>3. ASSUME NEW c \in Visits, StatementFails(c) PROVE grants'[e] = grants[e]
    BY <2>1, <2>3 DEF StatementFails
  <2>4. ASSUME NEW c \in Visits, HandleLogin(c) \/ Identify(c) \/ IdentifyFails(c)
        PROVE  grants'[e] = grants[e]
    BY <2>4 DEF HandleLogin, Identify, IdentifyFails
  <2>5. ASSUME NEW f \in Emails, AdminChanges(f) PROVE changes' # changes
    BY <2>5 DEF AdminChanges, Inv, EnrolmentInv, EnrolmentTypeOK
  <2>6. CASE ApiDies \/ CliFault \/ UNCHANGED evars
    BY <2>6 DEF ApiDies, CliFault, evars
  <2> QED
    BY <2>2, <2>3, <2>4, <2>5, <2>6, Steps
<1> QED
  BY <1>1, Invariance, PTL DEF Spec, DefaultGivenOnce
=============================================================================
