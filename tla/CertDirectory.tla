--------------------------- MODULE CertDirectory ---------------------------
(***************************************************************************)
(* The mTLS files of internal/mtls/mtls.go, in a directory that the API    *)
(* and the agents share (docker-compose.yml mounts it into both), and the  *)
(* two functions that load them.  A generation is one certificate          *)
(* authority and the two certificates it signed.                           *)
(***************************************************************************)
EXTENDS Naturals, Sequences

CONSTANTS
    Agents, Apis,   \* the processes
    Missing, Torn,  \* see KeyFiles
    NoConfig,
    MaxFaults       \* bound: processes killed and files not written

ASSUME CertAssumption == /\ {Missing, Torn} \cap Nat = {}
                         /\ Missing # Torn
                         /\ Agents \cap Apis = {}
                         /\ MaxFaults \in Nat

VARIABLES
    disk, writer, made, overlap,    \* see KeyFiles
    reads,      \* what each process has read of the three files it loads
    config,     \* the TLS configuration in use, of an API the latest one
    faults      \* failures so far

Parties == Agents \cup Apis

CertFiles == <<"ca.key", "ca.crt", "server.key", "server.crt",
               "client.key", "client.crt">>

Keys == INSTANCE KeyFiles
          WITH Files <- CertFiles,
               Marks <- {"ca.crt", "server.crt", "client.crt"},
               Writers <- Parties, Piecemeal <- TRUE

vars == <<disk, writer, made, overlap, reads, config, faults>>
loading == <<reads, config>>

Init == /\ Keys!Init
        /\ reads = [p \in Parties |-> <<>>]
        /\ config = [p \in Parties |-> NoConfig]
        /\ faults = 0

Fault == faults < MaxFaults /\ faults' = faults + 1

-----------------------------------------------------------------------------
\* main begins, which for the API means GetRegistry.
Start(p) == Keys!Call(p) /\ UNCHANGED <<loading, faults>>

GenerateKeysAndCerts(p) == Keys!Step(p) /\ UNCHANGED <<loading, faults>>

WriteFails(p) == Fault /\ Keys!Fail(p) /\ UNCHANGED loading

\* The process ends; its files stay as they are.
Ends(p) == /\ writer' = [writer EXCEPT ![p] = Keys!Idle]
           /\ reads' = [reads EXCEPT ![p] = <<>>]
           /\ config' = [config EXCEPT ![p] = NoConfig]
           /\ UNCHANGED <<disk, made, overlap>>

Dies(p) == Fault /\ writer[p].pc # "idle" /\ Ends(p)

\* An error of the generation ends the agent; the API ignores it.
Exits(p) == p \in Agents /\ writer[p].pc = "error" /\ Ends(p) /\ UNCHANGED faults

-----------------------------------------------------------------------------
(***************************************************************************)
(* GetServerTLSConfig, once at the start of an agent, and                  *)
(* GetClientTLSConfig, for each call of the API.                           *)
(***************************************************************************)
LoadOrder(p) == IF p \in Agents THEN <<"server.crt", "server.key", "ca.crt">>
                                ELSE <<"client.crt", "client.key", "ca.crt">>

MayLoad(p) == \/ p \in Agents /\ Keys!Returned(p) /\ config[p] = NoConfig
              \/ p \in Apis /\ (Keys!Returned(p) \/ writer[p].pc = "error")

NextFile(p) == disk[LoadOrder(p)[Len(reads[p]) + 1]]

\* Mutant: a file that is not there is not noticed.
ReadFileUnchecked(p) ==
    /\ MayLoad(p)
    /\ Len(reads[p]) < 3
    /\ reads' = [reads EXCEPT ![p] = Append(@, NextFile(p))]
    /\ UNCHANGED <<disk, writer, made, overlap, config, faults>>

ReadFile(p) ==
    /\ MayLoad(p)
    /\ Len(reads[p]) < 3
    /\ NextFile(p) # Missing
    /\ reads' = [reads EXCEPT ![p] = Append(@, NextFile(p))]
    /\ UNCHANGED <<disk, writer, made, overlap, config, faults>>

\* The certificate belongs to the key, and the authority can be parsed.
Usable(r) == Torn \notin {r[1], r[3]} /\ r[1] = r[2]

Configure(p) ==
    /\ MayLoad(p)
    /\ Len(reads[p]) = 3
    /\ Usable(reads[p])
    /\ config' = [config EXCEPT ![p] = [cert |-> reads[p][1], ca |-> reads[p][3]]]
    /\ reads' = [reads EXCEPT ![p] = <<>>]
    /\ UNCHANGED <<disk, writer, made, overlap, faults>>

\* An agent ends; a call of the API fails.
LoadFails(p) ==
    /\ MayLoad(p)
    /\ \/ Len(reads[p]) < 3 /\ NextFile(p) = Missing
       \/ Len(reads[p]) = 3 /\ ~Usable(reads[p])
    /\ IF p \in Agents THEN Ends(p)
       ELSE /\ reads' = [reads EXCEPT ![p] = <<>>]
            /\ UNCHANGED <<disk, writer, made, overlap, config>>
    /\ UNCHANGED faults

ProcessStep(p) == \/ Start(p) \/ GenerateKeysAndCerts(p) \/ Exits(p)
                  \/ ReadFile(p) \/ Configure(p) \/ LoadFails(p)

Next == \E p \in Parties : ProcessStep(p) \/ WriteFails(p) \/ Dies(p)

Spec == Init /\ [][Next]_vars

\* Each process runs, and is started again when it has ended (restart: always
\* in docker-compose.yml).
FairSpec == Spec /\ \A p \in Parties : WF_vars(ProcessStep(p))

-----------------------------------------------------------------------------
(***************************************************************************)
(* Properties.  Two processes that fill the directory at the same time mix *)
(* their files; what is said here is what holds as long as none do.        *)
(***************************************************************************)

\* Every variable keeps its type.
TypeOK ==
    /\ Keys!TypeOK
    /\ faults \in 0 .. MaxFaults
    /\ reads \in [Parties -> Seq({Torn} \cup 1 .. made)]
    /\ \A p \in Parties : Len(reads[p]) <= 3
    /\ config \in [Parties -> {NoConfig} \cup [cert : 1 .. made, ca : 1 .. made]]

\* Whoever is told that the files exist (mtls.go:31-34) finds six files of one
\* generation, whatever crashed before: a start repairs what an earlier one
\* left, except the last file, which may be torn.
OneGeneration ==
    (~overlap /\ \E p \in Parties : Keys!Returned(p)) =>
       \E g \in 1 .. made :
          /\ \A f \in Keys!Names \ {"client.crt"} : disk[f] = g
          /\ disk["client.crt"] \in {g, Torn}

\* Certificates are signed by a shared authority and both sides verify each
\* other (README.md:186): an agent that serves and an API that calls accept
\* each other, though they read the files at different times.
PeersAgree ==
    ~overlap => \A a \in Agents, b \in Apis :
       (config[a] # NoConfig /\ config[b] # NoConfig) =>
          config[a].ca = config[b].cert /\ config[b].ca = config[a].cert

\* Files that are complete are never written again, whoever restarts: the
\* agent keeps the configuration it loaded for as long as it lives.
KeysAreKept == [][(Keys!Complete /\ ~overlap) => UNCHANGED disk]_vars

\* Two processes have filled the directory at once, and what the others load
\* is not of one generation.
Mixed == /\ overlap
         /\ ~\E g \in 1 .. made : \A f \in Keys!Names \ {"client.crt"} : disk[f] = g

\* An agent gets to serve in the end, after any crashes and failures, and
\* after loads that came while the API was writing the same files
\* (cmd/ephem-agent/main.go:84), unless the two have left a mixture behind.
AgentServes == <>[](Mixed \/ \A a \in Agents : config[a] # NoConfig)
=============================================================================
