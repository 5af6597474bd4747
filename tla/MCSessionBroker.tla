--------------------------- MODULE MCSessionBroker ---------------------------
(***************************************************************************)
(* SessionBroker for TLC: a developer who asks, an admin who may revoke,   *)
(* and requests for a role (postgres), for an account behind an agent      *)
(* (remote) and for a certificate (ssh).                                   *)
(***************************************************************************)
EXTENDS SessionBroker

CONSTANTS s1, s2

MCRoles == {"developer", "admin"}
MCResources == {"db", "branch", "host", "retired"}
MCGlobs == {"*", "host"}
MCGlobMatches == [g \in MCGlobs |-> IF g = "*" THEN MCResources ELSE {"host"}]

\* Users who share a role the policies name, one of them an admin, who may be
\* denied what a developer is allowed; a client of each, or of the owner alone.
MCUsers == {"dev", "root"}
MCRolesOf == [u \in MCUsers |-> IF u = "root" THEN {"admin", "developer"} ELSE {"developer"}]
MCClients == {"laptop", "console"}
MCUserOf == [c \in MCClients |-> IF c = "console" THEN "root" ELSE "dev"]
MCOwnClients == {"laptop"}
MCOwnUserOf == [c \in MCOwnClients |-> "dev"]

MCPolicies == {
    [role |-> "developer", glob |-> "*", effect |-> "ALLOW", maxDuration |-> {4}],
    [role |-> "admin", glob |-> "host", effect |-> "DENY", maxDuration |-> {}] }

MCEnabled == MCResources \ {"retired"}
MCProviderOf == [db |-> "postgres", branch |-> "remote", host |-> "ssh",
                 retired |-> "redis"]

Ask(u, r, d) == [user |-> u, resource |-> r, duration |-> d]

\* A short and a longer session on one target; one request only; and every
\* kind of provider with every way to be refused (too long, disabled, denied).
MCRequests == {Ask("dev", "db", 1), Ask("dev", "db", 3)}
MCOneRequest == {Ask("dev", "db", 1)}
MCManyRequests == {Ask("dev", "db", 1), Ask("dev", "branch", 3),
                   Ask("dev", "host", 2), Ask("dev", "db", 5),
                   Ask("dev", "retired", 1), Ask("root", "host", 1)}
=============================================================================
