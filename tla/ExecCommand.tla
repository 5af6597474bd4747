---------------------------- MODULE ExecCommand ----------------------------
(***************************************************************************)
(* `ephem exec' (internal/cli/exec.go): it asks the API for a session, runs *)
(* a command with the credentials, passes signals on to it, and gives the  *)
(* session back when the command has ended.  Beside it the API restarts,   *)
(* perhaps with a new signing key (internal/auth/jwt.go), sessions expire, *)
(* and other terminals log in and out.                                     *)
(***************************************************************************)
EXTENDS Naturals

CONSTANTS
    Execs,      \* runs of the command
    MaxFaults   \* bound: failing calls, writes and removals

ASSUME ExecAssumption == MaxFaults \in Nat

VARIABLES
    keyFile, \* RSA_PRIVATE_KEY_PATH is set
    file,    \* ~/.ephem/token: is there a token, and would the API accept it
    run,     \* per run: where it is and its locals, see Fresh
    sess,    \* its session at the API
    keys,    \* its key files, ssh_temp_<session> and -cert.pub
    child,   \* its child process
    faults,
    hit,     \* history: the runs that have met a fault,
    signalled, told  \* that have caught a signal, that have sent one on since

vars == <<keyFile, file, run, sess, keys, child, faults, hit, signalled, told>>

\* A token the API accepts, one of a key that is gone, one that is too old.
Tokens == {"good", "unknown_key", "too_old"}

\* queue: how many signals sigChan holds.
Locals == [pc : {"idle", "request", "key", "cert", "notify", "start",
                 "wait", "revoke", "exit", "ended"},
           token : Tokens \cup {"none"},
           type : {"none", "db_credentials", "ssh_cert"},
           queue : 0 .. 1,
           code : {"none", "ok", "failed", "killed"}]

Fresh == [pc |-> "idle", token |-> "none", type |-> "none", queue |-> 0, code |-> "none"]

Init ==
    /\ keyFile \in BOOLEAN
    /\ file \in {"none", "good"}
    /\ run = [x \in Execs |-> Fresh]
    /\ sess = [x \in Execs |-> "none"]
    /\ keys = [x \in Execs |-> {}]
    /\ child = [x \in Execs |-> "none"]
    /\ faults = 0
    /\ hit = {} /\ signalled = {} /\ told = {}

Go(x, pc) == run' = [run EXCEPT ![x].pc = pc]

\* os.Exit, or the end of main: no goroutine of the run is left.
Exits(x, code) == run' = [run EXCEPT ![x] = [run[x] EXCEPT !.pc = "ended", !.code = code]]

NoFault == UNCHANGED <<faults, hit>>

Fault(x) == faults < MaxFaults /\ faults' = faults + 1 /\ hit' = hit \cup {x}

-----------------------------------------------------------------------------
(***************************************************************************)
(* The session.                                                            *)
(***************************************************************************)

\* LoadToken, once: the run keeps this token to its end.
LoadToken(x) ==
    /\ run[x].pc = "idle"
    /\ IF file = "none" THEN Exits(x, "failed")
       ELSE run' = [run EXCEPT ![x] = [run[x] EXCEPT !.pc = "request", !.token = file]]
    /\ UNCHANGED <<keyFile, file, sess, keys, child, signalled, told>> /\ NoFault

\* VerifyToken: the signature, with the key of the process, and the time.
Accepts(x) == run[x].token = "good"

\* The API opens a session, of either kind.
Request(x) ==
    /\ run[x].pc = "request"
    /\ Accepts(x)
    /\ sess' = [sess EXCEPT ![x] = "live"]
    /\ run' \in {[run EXCEPT ![x] = [run[x] EXCEPT !.pc = "key", !.type = "ssh_cert"]],
                [run EXCEPT ![x] = [run[x] EXCEPT !.pc = "notify", !.type = "db_credentials"]]}
    /\ UNCHANGED <<keyFile, file, keys, child, signalled, told>> /\ NoFault

\* No token, no policy, or any other refusal.
RequestDenied(x) ==
    /\ run[x].pc = "request"
    /\ Exits(x, "failed")
    /\ UNCHANGED <<keyFile, file, sess, keys, child, signalled, told>> /\ NoFault

\* The answer gets lost, or cannot be read: nobody knows the session's name.
RequestLost(x) ==
    /\ run[x].pc = "request"
    /\ Accepts(x)
    /\ Fault(x)
    /\ sess' = [sess EXCEPT ![x] = "live"]
    /\ Exits(x, "failed")
    /\ UNCHANGED <<keyFile, file, keys, child, signalled, told>>

\* os.WriteFile of the private key, then of the certificate; errors ignored.
WriteKey(x) ==
    /\ run[x].pc \in {"key", "cert"}
    /\ \/ /\ keys' = [keys EXCEPT ![x] = @ \cup {run[x].pc}]
          /\ NoFault
       \/ Fault(x) /\ UNCHANGED keys
    /\ Go(x, IF run[x].pc = "key" THEN "cert" ELSE "notify")
    /\ UNCHANGED <<keyFile, file, sess, child, signalled, told>>

-----------------------------------------------------------------------------
(***************************************************************************)
(* The child.                                                              *)
(***************************************************************************)

\* From here on SIGINT and SIGTERM go to sigChan, which holds one.
Notify(x) ==
    /\ run[x].pc = "notify"
    /\ Go(x, "start")
    /\ UNCHANGED <<keyFile, file, sess, keys, child, signalled, told>> /\ NoFault

StartChild(x) ==
    /\ run[x].pc = "start"
    /\ child' = [child EXCEPT ![x] = "running"]
    /\ Go(x, "wait")
    /\ UNCHANGED <<keyFile, file, sess, keys, signalled, told>> /\ NoFault

\* Mutant: the run ends without giving the session back.
StartFailsSilently(x) ==
    /\ run[x].pc = "start"
    /\ child' = [child EXCEPT ![x] = "failed"]
    /\ Go(x, "exit")
    /\ UNCHANGED <<keyFile, file, sess, keys, signalled, told>> /\ NoFault

\* No such program: the session goes back at once, then os.Exit(1).
StartFails(x) ==
    /\ run[x].pc = "start"
    /\ child' = [child EXCEPT ![x] = "failed"]
    /\ Go(x, "revoke")
    /\ UNCHANGED <<keyFile, file, sess, keys, signalled, told>> /\ NoFault

\* The child ends, well or with an error, whenever it likes.
ChildEnds(x) ==
    /\ child[x] = "running"
    /\ \E result \in {"ok", "failed"} : child' = [child EXCEPT ![x] = result]
    /\ UNCHANGED <<keyFile, file, run, sess, keys, signalled, told>> /\ NoFault

Caught(x) == run[x].pc \in {"start", "wait", "revoke", "exit"}

\* Mutant: every signal is kept.
EnqueueAll(x) == run' = [run EXCEPT ![x].queue = run[x].queue + 1]

\* Mutant: a channel without a buffer, which takes what somebody waits for.
EnqueueIfRead(x) == run' = [run EXCEPT ![x].queue = IF run[x].pc = "wait" THEN 1 ELSE 0]

\* A signal that finds the channel full is dropped.
Enqueue(x) == run' = [run EXCEPT ![x].queue = 1]

\* What a call that is under way may do at the API.
Effect(x) == {sess[x]} \cup
    (IF Accepts(x) /\ run[x].pc = "request" THEN {"live"} ELSE {}) \cup
    (IF Accepts(x) /\ run[x].pc = "revoke" THEN {"revoked"} ELSE {})

\* The run is over; a call it has made may still be answered.
Dies(x) == Exits(x, "killed") /\ \E s \in Effect(x) : sess' = [sess EXCEPT ![x] = s]

\* SIGINT or SIGTERM: before Notify it is the end of the run.
Signal(x) ==
    /\ run[x].pc \notin {"idle", "ended"}
    /\ \/ /\ Caught(x)
          /\ Enqueue(x)
          /\ signalled' = signalled \cup {x}
          /\ told' = told \ {x}
          /\ UNCHANGED sess
       \/ ~Caught(x) /\ Dies(x) /\ UNCHANGED <<signalled, told>>
    /\ UNCHANGED <<keyFile, file, keys, child>> /\ NoFault

\* The goroutine that reads sigChan, there once the child has been started.
Forward(x) ==
    /\ run[x].pc \in {"wait", "revoke", "exit"} /\ child[x] # "none"
    /\ run[x].queue = 1
    /\ run' = [run EXCEPT ![x].queue = 0]
    /\ told' = IF child[x] = "running" THEN told \cup {x} ELSE told
    /\ UNCHANGED <<keyFile, file, sess, keys, child, signalled>> /\ NoFault

\* SIGKILL, or SIGHUP when the terminal is closed: neither is caught.
Killed(x) ==
    /\ run[x].pc \notin {"idle", "ended"}
    /\ Dies(x)
    /\ UNCHANGED <<keyFile, file, keys, child, signalled, told>> /\ NoFault

-----------------------------------------------------------------------------
(***************************************************************************)
(* The end.                                                                *)
(***************************************************************************)

\* Mutant: a signal is the end of the session.
WaitOrSignal(x) ==
    /\ run[x].pc = "wait"
    /\ child[x] \in {"ok", "failed"} \/ run[x].queue = 1
    /\ Go(x, "revoke")
    /\ UNCHANGED <<keyFile, file, sess, keys, child, signalled, told>> /\ NoFault

\* child.Wait: nothing but the end of the child lets the run go on.
Wait(x) ==
    /\ run[x].pc = "wait"
    /\ child[x] \in {"ok", "failed"}
    /\ Go(x, "revoke")
    /\ UNCHANGED <<keyFile, file, sess, keys, child, signalled, told>> /\ NoFault

\* revokeSession: a refusal and an error are printed, and that is all.
Revoke(x) ==
    /\ run[x].pc = "revoke"
    /\ \/ /\ sess' = IF Accepts(x) THEN [sess EXCEPT ![x] = "revoked"] ELSE sess
          /\ NoFault
       \/ /\ \E s \in Effect(x) : sess' = [sess EXCEPT ![x] = s]
          /\ Fault(x)
    /\ Go(x, "exit")
    /\ UNCHANGED <<keyFile, file, keys, child, signalled, told>>

\* Mutant: os.Exit at the end of every run, with the code of the child.
ExitAlways(x) ==
    /\ run[x].pc = "exit"
    /\ Exits(x, child[x])
    /\ UNCHANGED <<keyFile, file, sess, keys, child, signalled, told>> /\ NoFault

\* The deferred removal of the key files runs when Run returns, which it does
\* after a child that ended well; os.Exit skips it.
ReturnOrExit(x) ==
    /\ run[x].pc = "exit"
    /\ \/ /\ child[x] = "ok"
          /\ \E left \in SUBSET keys[x] :
                /\ keys' = [keys EXCEPT ![x] = left]
                /\ \/ left = {} /\ NoFault
                   \/ Fault(x)
          /\ Exits(x, "ok")
       \/ /\ child[x] = "failed"
          /\ Exits(x, "failed")
          /\ UNCHANGED keys /\ NoFault
    /\ UNCHANGED <<keyFile, file, sess, child, signalled, told>>

-----------------------------------------------------------------------------
(***************************************************************************)
(* Everything else.                                                        *)
(***************************************************************************)

\* The tokens that were good are so no longer, for the reason why.
Outdate(why) ==
    /\ file' = IF file = "good" THEN why ELSE file
    /\ run' = [x \in Execs |-> IF Accepts(x) THEN [run[x] EXCEPT !.token = why] ELSE run[x]]
    /\ UNCHANGED <<keyFile, sess, keys, child, signalled, told>> /\ NoFault

\* ensureKeys of a new process: without a key file it draws a new key, and
\* gives it the same identifier.
ApiRestarts == ~keyFile /\ Outdate("unknown_key")

\* 24 hours have passed since the tokens were made.
TokensExpire == Outdate("too_old")

\* `ephem login' and `ephem logout' in another terminal.
LogInOrOut ==
    /\ file' \in {"none", "good"} \ {file}
    /\ UNCHANGED <<keyFile, run, sess, keys, child, signalled, told>> /\ NoFault

\* The scheduler of the API revokes what has expired.
SessionExpires(x) ==
    /\ sess[x] = "live"
    /\ sess' = [sess EXCEPT ![x] = "expired"]
    /\ UNCHANGED <<keyFile, file, run, keys, child, signalled, told>> /\ NoFault

-----------------------------------------------------------------------------
\* What the run does by itself, once it has begun.
Step(x) == \/ Request(x) \/ RequestDenied(x) \/ WriteKey(x)
           \/ Notify(x) \/ StartChild(x) \/ StartFails(x)
           \/ Wait(x) \/ Revoke(x) \/ ReturnOrExit(x)

Run(x) == \/ LoadToken(x) \/ Step(x) \/ Forward(x) \/ RequestLost(x)
          \/ ChildEnds(x) \/ Signal(x) \/ Killed(x) \/ SessionExpires(x)

Next == (\E x \in Execs : Run(x)) \/ ApiRestarts \/ TokensExpire \/ LogInOrOut

Spec == Init /\ [][Next]_vars

\* The run's two goroutines go on, and the API answers, or its connection
\* breaks: the client of the revocation has no time limit (exec.go:223).
FairSpec == /\ Spec
            /\ \A x \in Execs : WF_vars(Step(x)) /\ WF_vars(Forward(x))

-----------------------------------------------------------------------------
(***************************************************************************)
(* Properties.                                                             *)
(***************************************************************************)

\* Every variable keeps its type.
TypeOK ==
    /\ keyFile \in BOOLEAN
    /\ file \in Tokens \cup {"none"}
    /\ run \in [Execs -> Locals]
    /\ sess \in [Execs -> {"none", "live", "revoked", "expired"}]
    /\ keys \in [Execs -> SUBSET {"key", "cert"}]
    /\ child \in [Execs -> {"none", "running", "ok", "failed"}]
    /\ faults \in 0 .. MaxFaults
    /\ hit \subseteq Execs /\ signalled \subseteq Execs /\ told \subseteq Execs

\* The exits after which a session is still live are these: the run was killed,
\* a call failed, or the API refuses the token by now, because it is a day old
\* or because a restart without a key file has changed the key (jwt.go:74).
GivesBack ==
    \A x \in Execs : run[x].pc = "ended" /\ sess[x] = "live" =>
        \/ run[x].code = "killed"
        \/ x \in hit
        \/ run[x].token = "too_old"
        \/ run[x].token = "unknown_key" /\ ~keyFile

\* The run does not take the session from a child that is still running,
\* whatever signals arrive (exec.go:189), and the child has its key files.
ChildKeepsAccess ==
    \A x \in Execs : child[x] = "running" =>
        /\ sess[x] # "revoked"
        /\ run[x].type = "ssh_cert" /\ x \notin hit => keys[x] = {"key", "cert"}

\* A run that reports success has removed its key files (README.md:104), unless
\* the removal, or another call of the run, has failed.
CleanExit ==
    \A x \in Execs : run[x].code = "ok" => child[x] = "ok" /\ (keys[x] = {} \/ x \in hit)

\* A signal that was caught reaches the child, also one that came before the
\* child had been started, unless the child or the run is over first.
SignalsArrive ==
    \A x \in Execs : x \in signalled ~>
        x \in told \/ child[x] \in {"ok", "failed"} \/ run[x].pc = "ended"
=============================================================================
