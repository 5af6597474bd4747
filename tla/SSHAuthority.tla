---------------------------- MODULE SSHAuthority ----------------------------
(***************************************************************************)
(* The CA key pair of the SSH provider (internal/provider/ssh.go): made by *)
(* the goroutine that NewSSHProvider starts, or by the first request for a *)
(* certificate, whichever comes first.  The target host copies the public  *)
(* file when it starts (Dockerfile.ssh).                                   *)
(***************************************************************************)
EXTENDS Naturals, Sequences

CONSTANTS
    Starter,        \* the goroutine of NewSSHProvider
    Requests,       \* requests for a certificate, served one after the other
    Missing, Torn,  \* see KeyFiles
    MaxFaults       \* bound: deaths of the API and files not written

ASSUME AuthorityAssumption == /\ {Missing, Torn} \cap Nat = {}
                              /\ Missing # Torn
                              /\ Starter \notin Requests
                              /\ MaxFaults \in Nat

VARIABLES
    disk, writer, made, overlap,    \* see KeyFiles
    issued,     \* the generations whose key has signed a certificate
    trusted,    \* the target's copy of the public file
    faults      \* failures so far

Callers == {Starter} \cup Requests

Keys == INSTANCE KeyFiles
          WITH Files <- <<"ssh_ca.key", "ssh_ca.pub">>,
               Marks <- {"ssh_ca.key"},
               Writers <- Callers, Piecemeal <- FALSE

vars == <<disk, writer, made, overlap, issued, trusted, faults>>

Init == Keys!Init /\ issued = {} /\ trusted = Missing /\ faults = 0

Fault == faults < MaxFaults /\ faults' = faults + 1

-----------------------------------------------------------------------------
Call(c) == Keys!Call(c) /\ UNCHANGED <<issued, trusted, faults>>

EnsureCAKey(c) == Keys!Step(c) /\ UNCHANGED <<issued, trusted, faults>>

WriteFails(c) == Fault /\ Keys!Fail(c) /\ UNCHANGED <<issued, trusted>>

\* The key in hand: the one just made, or what the file holds.
KeyOf(c) == IF writer[c].pc = "made" THEN writer[c].key ELSE disk["ssh_ca.key"]

\* Mutant: a key that cannot be parsed is not noticed.
SignUnparsed(c) ==
    /\ c \in Requests
    /\ writer[c].pc \in {"found", "made", "error"}
    /\ issued' = issued \cup (IF Keys!Returned(c) THEN {KeyOf(c)} ELSE {})
    /\ writer' = [writer EXCEPT ![c] = Keys!Idle]
    /\ UNCHANGED <<disk, made, overlap, trusted, faults>>

\* The rest of IssueSession: a key that cannot be parsed is an error.
Sign(c) ==
    /\ c \in Requests
    /\ writer[c].pc \in {"found", "made", "error"}
    /\ issued' = issued \cup (IF Keys!Returned(c) THEN {KeyOf(c)} \ {Torn} ELSE {})
    /\ writer' = [writer EXCEPT ![c] = Keys!Idle]
    /\ UNCHANGED <<disk, made, overlap, trusted, faults>>

\* The entry point of the target waits until the public file exists.
CopyPublic ==
    /\ trusted = Missing
    /\ disk["ssh_ca.pub"] # Missing
    /\ trusted' = disk["ssh_ca.pub"]
    /\ UNCHANGED <<disk, writer, made, overlap, issued, faults>>

\* The API process ends and is started again; its files stay as they are.
Restart ==
    /\ Fault
    /\ writer' = [c \in Callers |-> Keys!Idle]
    /\ UNCHANGED <<disk, made, overlap, issued, trusted>>

CallerStep(c) == Call(c) \/ EnsureCAKey(c) \/ Sign(c) \/ WriteFails(c)

Next == (\E c \in Callers : CallerStep(c)) \/ CopyPublic \/ Restart

Spec == Init /\ [][Next]_vars

-----------------------------------------------------------------------------
(***************************************************************************)
(* Properties.                                                             *)
(***************************************************************************)

\* Every variable keeps its type.
TypeOK ==
    /\ Keys!TypeOK
    /\ faults \in 0 .. MaxFaults
    /\ issued \subseteq 1 .. made
    /\ trusted \in {Missing, Torn} \cup 1 .. made

\* The target trusts the broker's CA (README.md:31): every certificate was
\* signed with the key on disk, and neither the public file nor the target's
\* copy of it is of another key, unless two callers made keys at the same
\* time.  They may be missing or torn after a crash.
OneAuthority ==
    ~overlap => \A g \in issued :
       /\ disk["ssh_ca.key"] = g
       /\ disk["ssh_ca.pub"] \in {g, Missing, Torn}
       /\ trusted \in {g, Missing, Torn}
=============================================================================
