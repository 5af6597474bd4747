------------------------------- MODULE SignIn -------------------------------
(***************************************************************************)
(* `ephem login' (internal/cli/login.go, config.go) beside the callbacks   *)
(* of Enrolment: a listener on the loopback interface, a browser that      *)
(* comes back to it with a token, and a select over a token, an error and  *)
(* a timeout.  Several terminals share one home directory, hence one token *)
(* file, and one browser, hence one cookie of the API.                     *)
(***************************************************************************)
EXTENDS Enrolment

CONSTANTS
    Terminals,
    Stale,          \* what a tab is linked to when its login is over
    NoToken, Torn,  \* no file or an empty channel; a file not wholly written
    OidcEnabled     \* OIDC_ENABLED: a provider and its cookie, or the mock page

ASSUME SignInAssumption == /\ {Stale, NoToken, Torn} \cap Terminals = {}
                           /\ Stale # NoToken /\ Stale # Torn /\ NoToken # Torn
                           /\ NoToken \notin Visits
                           /\ OidcEnabled \in BOOLEAN

VARIABLES
    cli,     \* per terminal: is a login waiting in select, and what do its
             \* channels hold
    link,    \* per tab: the login whose port and state its address holds
    cookie,  \* ephem_oauth_state: the tab opened last
    file     \* ~/.ephem/token, and the terminal that saved it

cvars == <<cli, link, cookie, file>>
vars == <<evars, cvars>>

\* A token is told by the login its tab was opened for.
Tokens == Terminals \cup {Stale}

Idle == [waiting |-> FALSE, tokenChan |-> NoToken, errChan |-> FALSE]

Logins == [waiting : BOOLEAN, tokenChan : Tokens \cup {NoToken}, errChan : BOOLEAN]

Files == [token : Tokens \cup {NoToken, Torn}, by : Terminals \cup {NoToken}]

NoFile == [token |-> NoToken, by |-> NoToken]

Init ==
    /\ EnrolmentInit
    /\ cli = [t \in Terminals |-> Idle]
    /\ link = [c \in Visits |-> Stale]
    /\ cookie = NoToken
    /\ file = NoFile

\* A failure of the command leaves the API's side alone.
CliFault ==
    /\ Fault
    /\ UNCHANGED <<jit, allowed, users, roles, grants, visit, held, given, changes>>

-----------------------------------------------------------------------------
(***************************************************************************)
(* The command.                                                            *)
(***************************************************************************)

\* The old token goes, then the listener opens with a new state.  An error of
\* the removal is ignored.
Login(t) ==
    /\ ~cli[t].waiting
    /\ \/ file' = NoFile /\ UNCHANGED evars
       \/ CliFault /\ UNCHANGED file
    /\ cli' = [cli EXCEPT ![t] = [Idle EXCEPT !.waiting = TRUE]]
    /\ UNCHANGED <<link, cookie>>

\* The listener cannot be opened: the old token is gone all the same.
ListenFails(t) ==
    /\ ~cli[t].waiting
    /\ CliFault
    /\ file' = NoFile
    /\ UNCHANGED <<cli, link, cookie>>

\* The command leaves select.  Nobody knows its state any more, its listener
\* and, after two seconds at most, its handlers are gone.
Leave(t) ==
    /\ cli' = [cli EXCEPT ![t] = Idle]
    /\ link' = [c \in Visits |-> IF link[c] = t THEN Stale ELSE link[c]]
    /\ UNCHANGED cookie

\* SaveToken of what the channel holds.
TakeToken(t) ==
    /\ cli[t].tokenChan # NoToken
    /\ file' = [token |-> cli[t].tokenChan, by |-> t]
    /\ Leave(t)
    /\ UNCHANGED evars

\* The write fails, before it has truncated the file or after.
SaveFails(t) ==
    /\ cli[t].tokenChan # NoToken
    /\ CliFault
    /\ file' \in {file, [NoFile EXCEPT !.token = Torn]}
    /\ Leave(t)

TakeError(t) == cli[t].errChan /\ Leave(t) /\ UNCHANGED <<evars, file>>

\* Mutant: the login waits for as long as it takes.
TimeoutNever(t) == cli[t].waiting /\ cli[t].errChan /\ Leave(t) /\ UNCHANGED <<evars, file>>

\* Three minutes are over, or the user presses ^C, which is not caught.
Timeout(t) == cli[t].waiting /\ Leave(t) /\ UNCHANGED <<evars, file>>

\* The server breaks down, and says so in the channel of the handlers.
ServeFails(t) ==
    /\ cli[t].waiting
    /\ CliFault
    /\ cli' = [cli EXCEPT ![t].errChan = TRUE]
    /\ UNCHANGED <<link, cookie, file>>

\* `ephem logout'.
Logout ==
    /\ file # NoFile
    /\ file' = NoFile
    /\ UNCHANGED <<evars, cli, link, cookie>>

-----------------------------------------------------------------------------
(***************************************************************************)
(* The browser.                                                            *)
(***************************************************************************)

\* The address of a login is opened, in time or when the login is over.
OpenTab(c) ==
    /\ HandleLogin(c)
    /\ \E l \in {t \in Terminals : cli[t].waiting} \cup {Stale} :
          link' = [link EXCEPT ![c] = l]
    /\ cookie' = c
    /\ UNCHANGED <<cli, file>>

\* With a provider, the cookie must be the one set for this very tab.
ComesBack(c) ==
    /\ Identify(c)
    /\ OidcEnabled => cookie = c
    /\ UNCHANGED cvars

\* Mutant: the state is not compared.
ReceiveAny(c, t) == cli' = [cli EXCEPT ![t].tokenChan = link[c]]

\* The command's own callback handler.  A stale tab may meet a later login that
\* was given the same port: only the state tells them apart.  A handler that
\* finds its channel full waits until the command ends.
Receive(c, t) ==
    cli' = IF link[c] = t THEN [cli EXCEPT ![t].tokenChan = link[c]]
                          ELSE [cli EXCEPT ![t].errChan = TRUE]

\* The browser follows the redirect; reloading the page does it again.
Redirect(c, t) ==
    /\ visit[c].pc = "token"
    /\ cli[t].waiting
    /\ link[c] \in {t, Stale}
    /\ Receive(c, t)
    /\ UNCHANGED <<evars, link, cookie, file>>

-----------------------------------------------------------------------------
Select(t) == TakeToken(t) \/ TakeError(t) \/ Timeout(t)

Terminal(t) == \/ Login(t) \/ ListenFails(t)
               \/ Select(t) \/ SaveFails(t) \/ ServeFails(t)

Browser(c) == OpenTab(c) \/ ComesBack(c) \/ \E t \in Terminals : Redirect(c, t)

Api == \/ \E c \in Visits : IdentifyFails(c) \/ Callback(c) \/ StatementFails(c)
       \/ ApiDies

Administrator == \E e \in Emails : AdminChanges(e)

Next ==
    \/ \E t \in Terminals : Terminal(t)
    \/ \E c \in Visits : Browser(c)
    \/ (Api \/ Administrator) /\ UNCHANGED cvars
    \/ Logout

Spec == Init /\ [][Next]_vars

\* The goroutines of the API run, and so does a command that has begun; its
\* timer goes off.  Nobody has to sign in.
FairSpec == /\ Spec
            /\ \A c \in Visits : WF_vars(Callback(c) /\ UNCHANGED cvars)
            /\ \A t \in Terminals : WF_vars(Select(t))

-----------------------------------------------------------------------------
(***************************************************************************)
(* Properties.                                                             *)
(***************************************************************************)

\* Every variable keeps its type.
TypeOK ==
    /\ EnrolmentTypeOK
    /\ cli \in [Terminals -> Logins]
    /\ link \in [Visits -> Tokens]
    /\ cookie \in Visits \cup {NoToken}
    /\ file \in Files

Saved == file.token \notin {NoToken, Torn}

\* The token in the file was made for a sign-in in a tab of the login that
\* saved it: the tab of another terminal, or of a login that is over, whose
\* port the system has given away again, does not sign anybody in
\* (login.go:58, README.md:75).
SavedTokenIsOwn == Saved => file.token = file.by

\* A login comes to its end, although nobody signs in, or a second tab of the
\* same browser has taken the cookie (login.go:149).
LoginEnds == \A t \in Terminals : cli[t].waiting ~> ~cli[t].waiting
=============================================================================
