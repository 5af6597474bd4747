------------------------- MODULE ExecCommandProofs -------------------------
(***************************************************************************)
(* Theorems about ExecCommand, for any number of runs and of faults.       *)
(***************************************************************************)
EXTENDS ExecCommand, TLAPS

\* Why the API would refuse the token of a run, or a call of it has failed.
Excused(x) == \/ x \in hit
              \/ run[x].token = "too_old"
              \/ run[x].token = "unknown_key" /\ ~keyFile

\* Nothing exists before the answer to the request; from then on there is a
\* session, which only the revocation at the end takes away, after the child.
SessionInv(x) ==
    /\ run[x].pc \in {"idle", "request"} => sess[x] = "none" /\ child[x] = "none"
    /\ run[x].pc \in {"key", "cert", "notify", "start", "wait", "revoke"}
          => sess[x] \in {"live", "expired"}
    /\ run[x].pc \in {"key", "cert", "notify", "start"} => child[x] = "none"
    /\ run[x].pc \in {"revoke", "exit"} => child[x] \in {"ok", "failed"}
    /\ child[x] = "running" => run[x].pc \in {"wait", "ended"} /\ sess[x] # "revoked"

\* A run has a token until it ends, and its code is killed if it does not get
\* past the revocation.
EndInv(x) ==
    /\ run[x].pc \notin {"idle", "ended"} => run[x].token # "none"
    /\ run[x].pc # "ended" => run[x].code = "none"
    /\ run[x].pc = "exit" \/ (run[x].pc = "ended" /\ run[x].code # "killed")
          => (sess[x] = "live" => Excused(x))

\* The key files of a run without faults are written one after the other, and
\* all there when the child starts.
KeysInv(x) ==
    /\ run[x].pc \in {"idle", "request"} => keys[x] = {} /\ run[x].type = "none"
    /\ run[x].type = "ssh_cert" /\ x \notin hit =>
          /\ run[x].pc = "key" => keys[x] = {}
          /\ run[x].pc = "cert" => keys[x] = {"key"}
          /\ run[x].pc \in {"notify", "start", "wait", "revoke", "exit"} \/ child[x] = "running"
                => keys[x] = {"key", "cert"}
    /\ run[x].code = "ok" => child[x] = "ok" /\ (keys[x] = {} \/ x \in hit)

\* Only a process without a key file forgets its key.
TokenInv == /\ file = "unknown_key" => ~keyFile
            /\ \A x \in Execs : run[x].token = "unknown_key" => ~keyFile

Inv == /\ TypeOK
       /\ TokenInv
       /\ \A x \in Execs : SessionInv(x) /\ EndInv(x) /\ KeysInv(x)

-----------------------------------------------------------------------------
LEMMA InitInv == Init => Inv
  BY ExecAssumption DEF Init, Inv, TypeOK, TokenInv, SessionInv, EndInv, KeysInv, Fresh, Locals, Tokens, Excused

Pcs == {"request", "key", "cert", "notify", "start", "wait", "revoke", "exit", "ended"}

LEMMA PcStep == \A r \in Locals, pc \in Pcs : [r EXCEPT !.pc = pc] \in Locals
  BY DEF Locals, Pcs

LEMMA CodeStep == \A r \in Locals, code \in {"ok", "failed", "killed"} :
                     [r EXCEPT !.pc = "ended", !.code = code] \in Locals
  BY DEF Locals

LEMMA TokenStep == \A r \in Locals, token \in Tokens \cup {"none"} :
                      /\ [r EXCEPT !.pc = "request", !.token = token] \in Locals
                      /\ [r EXCEPT !.token = token] \in Locals
  BY DEF Locals

LEMMA QueueStep == \A r \in Locals : /\ [r EXCEPT !.queue = 0] \in Locals
                                     /\ [r EXCEPT !.queue = 1] \in Locals
  BY DEF Locals

LEMMA TypeStep == TypeOK /\ [Next]_vars => TypeOK'
<1> SUFFICES ASSUME TypeOK, [Next]_vars PROVE TypeOK'
  OBVIOUS
<1> USE ExecAssumption DEF TypeOK, NoFault
<1>1. ASSUME NEW x \in Execs, LoadToken(x) PROVE TypeOK'
  <2>1. run[x] \in Locals
    OBVIOUS
  <2>2. [run[x] EXCEPT !.pc = "ended", !.code = "failed"] \in Locals
    BY <2>1, CodeStep
  <2>3. [run[x] EXCEPT !.pc = "request", !.token = file] \in Locals
    BY <2>1, TokenStep DEF Tokens
  <2> QED
    BY <1>1, <2>1, <2>2, <2>3 DEF LoadToken, Exits
<1>2. ASSUME NEW x \in Execs, Request(x) PROVE TypeOK'
  <2>1. run[x] \in Locals
    OBVIOUS
  <2>2. [run[x] EXCEPT !.pc = "key", !.type = "ssh_cert"] \in Locals
    BY <2>1 DEF Locals
  <2>3. [run[x] EXCEPT !.pc = "notify", !.type = "db_credentials"] \in Locals
    BY <2>1 DEF Locals
  <2> QED
    BY <1>2, <2>1, <2>2, <2>3 DEF Request, Accepts
<1>3. ASSUME NEW x \in Execs, RequestDenied(x) PROVE TypeOK'
  <2>1. run[x] \in Locals
    OBVIOUS
  <2>2. [run[x] EXCEPT !.pc = "ended", !.code = "failed"] \in Locals
    BY <2>1, CodeStep
  <2> QED
    BY <1>3, <2>1, <2>2 DEF RequestDenied, Exits
<1>4. ASSUME NEW x \in Execs, WriteKey(x) PROVE TypeOK'
  <2>1. /\ (IF run[x].pc = "key" THEN "cert" ELSE "notify") \in Pcs
        /\ run' \in [Execs -> Locals]
    BY <1>4, PcStep DEF Pcs, WriteKey, Go
  <2>2. keys' \in [Execs -> SUBSET {"key", "cert"}]
    BY <1>4 DEF WriteKey
  <2> QED
    BY <1>4, <2>1, <2>2 DEF WriteKey, Fault
<1>5. ASSUME NEW x \in Execs, Notify(x) PROVE TypeOK'
  BY <1>5, PcStep, TokenStep, QueueStep DEF Pcs, Notify, Go
<1>6. ASSUME NEW x \in Execs, StartChild(x) PROVE TypeOK'
  BY <1>6, PcStep, TokenStep, QueueStep DEF Pcs, StartChild, Go
<1>7. ASSUME NEW x \in Execs, StartFails(x) PROVE TypeOK'
  BY <1>7, PcStep, TokenStep, QueueStep DEF Pcs, StartFails, Go
<1>8. ASSUME NEW x \in Execs, Wait(x) PROVE TypeOK'
  BY <1>8, PcStep, TokenStep, QueueStep DEF Pcs, Wait, Go
<1>9. ASSUME NEW x \in Execs, Revoke(x) PROVE TypeOK'
  <2>1. run' \in [Execs -> Locals]
    BY <1>9, PcStep DEF Pcs, Revoke, Go
  <2>2. Effect(x) \subseteq {"none", "live", "revoked", "expired"}
    BY DEF Effect
  <2>3. sess' \in [Execs -> {"none", "live", "revoked", "expired"}]
    BY <1>9, <2>2 DEF Revoke
  <2> QED
    BY <1>9, <2>1, <2>3 DEF Revoke, Fault
<1>10. ASSUME NEW x \in Execs, ReturnOrExit(x) PROVE TypeOK'
  <2>1. run[x] \in Locals
    OBVIOUS
  <2>2. [run[x] EXCEPT !.pc = "ended", !.code = "ok"] \in Locals
    BY <2>1, CodeStep
  <2>3. [run[x] EXCEPT !.pc = "ended", !.code = "failed"] \in Locals
    BY <2>1, CodeStep
  <2> QED
    BY <1>10, <2>1, <2>2, <2>3 DEF ReturnOrExit, Exits, Fault
<1>11. ASSUME NEW x \in Execs, Forward(x) PROVE TypeOK'
  <2>1. [run[x] EXCEPT !.queue = 0] \in Locals
    BY QueueStep
  <2>2. run' \in [Execs -> Locals]
    BY <1>11, <2>1 DEF Forward
  <2> QED
    BY <1>11, <2>2 DEF Forward
<1>12. ASSUME NEW x \in Execs, RequestLost(x) PROVE TypeOK'
  <2>1. run[x] \in Locals
    OBVIOUS
  <2>2. [run[x] EXCEPT !.pc = "ended", !.code = "failed"] \in Locals
    BY <2>1, CodeStep
  <2> QED
    BY <1>12, <2>1, <2>2 DEF RequestLost, Exits, Accepts, Fault
<1>13. ASSUME NEW x \in Execs, ChildEnds(x) PROVE TypeOK'
  BY <1>13 DEF ChildEnds
<1>14. ASSUME NEW x \in Execs, Signal(x) PROVE TypeOK'
  <2>1. [run[x] EXCEPT !.pc = "ended", !.code = "killed"] \in Locals
    BY CodeStep
  <2>2. [run[x] EXCEPT !.queue = 1] \in Locals
    BY QueueStep
  <2>3. run' \in [Execs -> Locals]
    BY <1>14, <2>1, <2>2 DEF Signal, Enqueue, Dies, Exits
  <2>4. Effect(x) \subseteq {"none", "live", "revoked", "expired"}
    BY DEF Effect
  <2>5. sess' \in [Execs -> {"none", "live", "revoked", "expired"}]
    BY <1>14, <2>4 DEF Signal, Dies
  <2> QED
    BY <1>14, <2>3, <2>5 DEF Signal
<1>15. ASSUME NEW x \in Execs, Killed(x) PROVE TypeOK'
  <2>1. run[x] \in Locals
    OBVIOUS
  <2>2. [run[x] EXCEPT !.pc = "ended", !.code = "killed"] \in Locals
    BY <2>1, CodeStep
  <2> QED
    BY <1>15, <2>1, <2>2 DEF Killed, Dies, Exits, Effect, Accepts
<1>16. ASSUME NEW x \in Execs, SessionExpires(x) PROVE TypeOK'
  BY <1>16, PcStep, TokenStep, QueueStep DEF Pcs, SessionExpires
<1>17. CASE ApiRestarts
  BY <1>17, PcStep, TokenStep, QueueStep DEF Pcs, ApiRestarts, Outdate, Accepts, Tokens
<1>18. CASE TokensExpire
  BY <1>18, PcStep, TokenStep, QueueStep DEF Pcs, TokensExpire, Outdate, Accepts, Tokens
<1>19. CASE LogInOrOut
  BY <1>19, PcStep, TokenStep, QueueStep DEF Pcs, LogInOrOut, Tokens
<1>20. CASE UNCHANGED vars
  BY <1>20, PcStep, TokenStep, QueueStep DEF Pcs, vars
<1> QED
  BY <1>1, <1>2, <1>3, <1>4, <1>5, <1>6, <1>7, <1>8, <1>9, <1>10, <1>11, <1>12, <1>13, <1>14, <1>15, <1>16, <1>17, <1>18, <1>19, <1>20 DEF Next, Run, Step

\* What is about one run.
RunInv(x) == SessionInv(x) /\ EndInv(x) /\ KeysInv(x)

\* A step that leaves everything of a run alone keeps what is about it.
LEMMA FrameStep ==
  ASSUME NEW y \in Execs, RunInv(y),
         run'[y] = run[y], sess'[y] = sess[y], keys'[y] = keys[y], child'[y] = child[y],
         keyFile' = keyFile, y \in hit' <=> y \in hit
  PROVE  RunInv(y)'
  BY DEF RunInv, SessionInv, EndInv, KeysInv, Excused

\* What the assignments to the locals of a run leave in them.
LEMMA Fields ==
  ASSUME NEW r \in Locals
  PROVE  /\ \A c : LET n == [r EXCEPT !.pc = "ended", !.code = c]
                 IN  n.pc = "ended" /\ n.code = c /\ n.token = r.token /\ n.type = r.type
         /\ \A t : LET n == [r EXCEPT !.pc = "request", !.token = t]
                 IN  n.pc = "request" /\ n.code = r.code /\ n.token = t /\ n.type = r.type
         /\ \A p, k : LET n == [r EXCEPT !.pc = p, !.type = k]
                    IN  n.pc = p /\ n.code = r.code /\ n.token = r.token /\ n.type = k
  BY DEF Locals

LEMMA ExitsFields ==
  ASSUME NEW x \in Execs, NEW c, run \in [Execs -> Locals], Exits(x, c)
  PROVE  /\ run'[x].pc = "ended" /\ run'[x].code = c
         /\ run'[x].token = run[x].token /\ run'[x].type = run[x].type
         /\ \A y \in Execs : y # x => run'[y] = run[y]
<1>1. run'[x] = [run[x] EXCEPT !.pc = "ended", !.code = c]
  BY DEF Exits
<1>2. run[x] \in Locals
  OBVIOUS
<1> QED
  BY <1>1, <1>2, Fields DEF Exits

LEMMA EnqueueFields ==
  ASSUME NEW x \in Execs, run \in [Execs -> Locals], Enqueue(x)
  PROVE  /\ run'[x].pc = run[x].pc /\ run'[x].code = run[x].code
         /\ run'[x].token = run[x].token /\ run'[x].type = run[x].type
         /\ \A y \in Execs : y # x => run'[y] = run[y]
  BY DEF Enqueue, Locals

LEMMA LoadFields ==
  ASSUME NEW x \in Execs, run \in [Execs -> Locals], LoadToken(x)
  PROVE  /\ run[x].pc = "idle" /\ run'[x].type = run[x].type
         /\ \/ /\ file = "none" /\ run'[x].pc = "ended"
               /\ run'[x].code = "failed" /\ run'[x].token = run[x].token
            \/ /\ file # "none" /\ run'[x].pc = "request"
               /\ run'[x].code = run[x].code /\ run'[x].token = file
         /\ \A y \in Execs : y # x => run'[y] = run[y]
<1>1. CASE file = "none"
  BY <1>1, ExitsFields DEF LoadToken
<1>2. CASE file # "none"
  <2>1. run' = [run EXCEPT ![x] = [run[x] EXCEPT !.pc = "request", !.token = file]]
    BY <1>2 DEF LoadToken
  <2>2. run'[x] = [run[x] EXCEPT !.pc = "request", !.token = file] /\ run[x] \in Locals
    BY <2>1
  <2> QED
    BY <1>2, <2>1, <2>2, Fields DEF LoadToken
<1> QED
  BY <1>1, <1>2

LEMMA RequestFields ==
  ASSUME NEW x \in Execs, run \in [Execs -> Locals], Request(x)
  PROVE  /\ run[x].pc = "request"
         /\ run'[x].token = run[x].token /\ run'[x].code = run[x].code
         /\ \/ run'[x].pc = "key" /\ run'[x].type = "ssh_cert"
            \/ run'[x].pc = "notify" /\ run'[x].type = "db_credentials"
         /\ \A y \in Execs : y # x => run'[y] = run[y]
<1>1. PICK p, k : /\ run' = [run EXCEPT ![x] = [run[x] EXCEPT !.pc = p, !.type = k]]
                  /\ \/ p = "key" /\ k = "ssh_cert"
                     \/ p = "notify" /\ k = "db_credentials"
  BY DEF Request
<1>2. run'[x] = [run[x] EXCEPT !.pc = p, !.type = k] /\ run[x] \in Locals
  BY <1>1
<1> QED
  BY <1>1, <1>2, Fields DEF Request

LEMMA KeyStep == Inv /\ [Next]_vars => TokenInv'
<1> SUFFICES ASSUME Inv, [Next]_vars PROVE TokenInv'
  OBVIOUS
<1> USE ExecAssumption DEF Inv, TypeOK, TokenInv, NoFault
<1>1. ASSUME NEW x \in Execs, LoadToken(x) PROVE TokenInv'
  <2>1. keyFile' = keyFile /\ file' = file
    BY <1>1 DEF LoadToken
  <2>2. \A y \in Execs : run'[y].token \in {run[y].token, file}
    BY <1>1, LoadFields
  <2> QED
    BY <2>1, <2>2
<1>2. ASSUME NEW x \in Execs, Request(x) PROVE TokenInv'
  <2>1. keyFile' = keyFile /\ file' = file
    BY <1>2 DEF Request
  <2>2. \A y \in Execs : run'[y].token = run[y].token
    BY <1>2, RequestFields
  <2> QED
    BY <2>1, <2>2
<1>3. ASSUME NEW x \in Execs, RequestDenied(x) PROVE TokenInv'
  BY <1>3 DEF RequestDenied, Exits, Locals
<1>4. ASSUME NEW x \in Execs, WriteKey(x) PROVE TokenInv'
  BY <1>4 DEF WriteKey, Go, Fault, Locals
<1>5. ASSUME NEW x \in Execs, Notify(x) PROVE TokenInv'
  BY <1>5 DEF Notify, Go, Locals
<1>6. ASSUME NEW x \in Execs, StartChild(x) PROVE TokenInv'
  BY <1>6 DEF StartChild, Go, Locals
<1>7. ASSUME NEW x \in Execs, StartFails(x) PROVE TokenInv'
  BY <1>7 DEF StartFails, Go, Locals
<1>8. ASSUME NEW x \in Execs, Wait(x) PROVE TokenInv'
  BY <1>8 DEF Wait, Go, Locals
<1>9. ASSUME NEW x \in Execs, Revoke(x) PROVE TokenInv'
  BY <1>9 DEF Revoke, Go, Fault, Effect, Accepts, Locals
<1>10. ASSUME NEW x \in Execs, ReturnOrExit(x) PROVE TokenInv'
  <2>1. keyFile' = keyFile /\ file' = file
    BY <1>10 DEF ReturnOrExit
  <2>2. \A y \in Execs : run'[y].token = run[y].token
    <3>1. Exits(x, "ok") \/ Exits(x, "failed")
      BY <1>10 DEF ReturnOrExit
    <3> QED
      BY <3>1, ExitsFields
  <2> QED
    BY <2>1, <2>2
<1>11. ASSUME NEW x \in Execs, Forward(x) PROVE TokenInv'
  BY <1>11 DEF Forward, Locals
<1>12. ASSUME NEW x \in Execs, RequestLost(x) PROVE TokenInv'
  BY <1>12 DEF RequestLost, Exits, Accepts, Fault, Locals
<1>13. ASSUME NEW x \in Execs, ChildEnds(x) PROVE TokenInv'
  BY <1>13 DEF ChildEnds, Locals
<1>14. ASSUME NEW x \in Execs, Signal(x) PROVE TokenInv'
  <2>1. keyFile' = keyFile /\ file' = file
    BY <1>14 DEF Signal
  <2>2. \A y \in Execs : run'[y].token = run[y].token
    <3>1. Enqueue(x) \/ Exits(x, "killed")
      BY <1>14 DEF Signal, Dies
    <3> QED
      BY <3>1, ExitsFields, EnqueueFields
  <2> QED
    BY <2>1, <2>2
<1>15. ASSUME NEW x \in Execs, Killed(x) PROVE TokenInv'
  BY <1>15 DEF Killed, Dies, Exits, Effect, Accepts, Locals
<1>16. ASSUME NEW x \in Execs, SessionExpires(x) PROVE TokenInv'
  BY <1>16 DEF SessionExpires, Locals
<1>17. CASE ApiRestarts
  BY <1>17 DEF ApiRestarts, Outdate, Accepts, Locals
<1>18. CASE TokensExpire
  BY <1>18 DEF TokensExpire, Outdate, Accepts, Locals
<1>19. CASE LogInOrOut
  BY <1>19 DEF LogInOrOut
<1>20. CASE UNCHANGED vars
  BY <1>20 DEF vars
<1> QED
  BY <1>1, <1>2, <1>3, <1>4, <1>5, <1>6, <1>7, <1>8, <1>9, <1>10, <1>11, <1>12, <1>13, <1>14, <1>15, <1>16, <1>17, <1>18, <1>19, <1>20 DEF Next, Run, Step

LEMMA RunStep == Inv /\ [Next]_vars => \A y \in Execs : RunInv(y)'
<1> SUFFICES ASSUME Inv, [Next]_vars, NEW y \in Execs PROVE RunInv(y)'
  OBVIOUS
<1>0. RunInv(y) /\ TypeOK /\ run[y] \in Locals
  BY DEF Inv, RunInv, TypeOK
<1>1. ASSUME NEW x \in Execs, LoadToken(x) PROVE RunInv(y)'
  <2>1. CASE y # x
    BY <1>0, <1>1, <2>1, FrameStep DEF TypeOK, LoadToken, Exits, NoFault
  <2>2. CASE y = x
    <3>1. /\ run[y].pc = "idle" /\ run'[y].type = run[y].type
          /\ \/ /\ file = "none" /\ run'[y].pc = "ended"
                /\ run'[y].code = "failed" /\ run'[y].token = run[y].token
             \/ /\ file # "none" /\ run'[y].pc = "request"
                /\ run'[y].code = run[y].code /\ run'[y].token = file
      BY <1>0, <1>1, <2>2, LoadFields DEF TypeOK
    <3>2. SessionInv(y)'
      BY <1>0, <1>1, <2>2, <3>1 DEF TypeOK, LoadToken, NoFault, RunInv, SessionInv
    <3>3. EndInv(y)'
      BY <1>0, <1>1, <2>2, <3>1 DEF TypeOK, LoadToken, NoFault, RunInv, SessionInv, EndInv, Excused
    <3>4. KeysInv(y)'
      BY <1>0, <1>1, <2>2, <3>1 DEF TypeOK, LoadToken, NoFault, RunInv, SessionInv, EndInv, KeysInv
    <3> QED
      BY <3>2, <3>3, <3>4 DEF RunInv
  <2> QED
    BY <2>1, <2>2
<1>2. ASSUME NEW x \in Execs, Request(x) PROVE RunInv(y)'
  <2>1. CASE y # x
    BY <1>0, <1>2, <2>1, FrameStep DEF TypeOK, Request, Accepts, NoFault
  <2>2. CASE y = x
    <3>1. /\ run[y].pc = "request"
          /\ run'[y].token = run[y].token /\ run'[y].code = run[y].code
          /\ \/ run'[y].pc = "key" /\ run'[y].type = "ssh_cert"
             \/ run'[y].pc = "notify" /\ run'[y].type = "db_credentials"
      BY <1>0, <1>2, <2>2, RequestFields DEF TypeOK
    <3>2. SessionInv(y)'
      BY <1>0, <1>2, <2>2, <3>1 DEF TypeOK, Request, NoFault, RunInv, SessionInv
    <3>3. EndInv(y)'
      BY <1>0, <1>2, <2>2, <3>1 DEF TypeOK, Request, NoFault, RunInv, SessionInv, EndInv, Excused
    <3>4. KeysInv(y)'
      BY <1>0, <1>2, <2>2, <3>1 DEF TypeOK, Request, NoFault, RunInv, SessionInv, EndInv, KeysInv
    <3> QED
      BY <3>2, <3>3, <3>4 DEF RunInv
  <2> QED
    BY <2>1, <2>2
<1>3. ASSUME NEW x \in Execs, RequestDenied(x) PROVE RunInv(y)'
  <2>1. CASE y # x
    BY <1>0, <1>3, <2>1, FrameStep DEF TypeOK, RequestDenied, Exits, NoFault
  <2>2. CASE y = x
    BY <1>0, <1>3, <2>2 DEF TypeOK, Locals, RequestDenied, Exits, NoFault, RunInv, SessionInv, EndInv, KeysInv, Excused
  <2> QED
    BY <2>1, <2>2
<1>4. ASSUME NEW x \in Execs, WriteKey(x) PROVE RunInv(y)'
  <2>1. CASE y # x
    BY <1>0, <1>4, <2>1, FrameStep DEF TypeOK, WriteKey, Go, Fault, NoFault
  <2>2. CASE y = x
    BY <1>0, <1>4, <2>2 DEF TypeOK, Locals, WriteKey, Go, Fault, NoFault, RunInv, SessionInv, EndInv, KeysInv, Excused
  <2> QED
    BY <2>1, <2>2
<1>5. ASSUME NEW x \in Execs, Notify(x) PROVE RunInv(y)'
  <2>1. CASE y # x
    BY <1>0, <1>5, <2>1, FrameStep DEF TypeOK, Notify, Go, NoFault
  <2>2. CASE y = x
    BY <1>0, <1>5, <2>2 DEF TypeOK, Locals, Notify, Go, NoFault, RunInv, SessionInv, EndInv, KeysInv, Excused
  <2> QED
    BY <2>1, <2>2
<1>6. ASSUME NEW x \in Execs, StartChild(x) PROVE RunInv(y)'
  <2>1. CASE y # x
    BY <1>0, <1>6, <2>1, FrameStep DEF TypeOK, StartChild, Go, NoFault
  <2>2. CASE y = x
    BY <1>0, <1>6, <2>2 DEF TypeOK, Locals, StartChild, Go, NoFault, RunInv, SessionInv, EndInv, KeysInv, Excused
  <2> QED
    BY <2>1, <2>2
<1>7. ASSUME NEW x \in Execs, StartFails(x) PROVE RunInv(y)'
  <2>1. CASE y # x
    BY <1>0, <1>7, <2>1, FrameStep DEF TypeOK, StartFails, Go, NoFault
  <2>2. CASE y = x
    BY <1>0, <1>7, <2>2 DEF TypeOK, Locals, StartFails, Go, NoFault, RunInv, SessionInv, EndInv, KeysInv, Excused
  <2> QED
    BY <2>1, <2>2
<1>8. ASSUME NEW x \in Execs, Wait(x) PROVE RunInv(y)'
  <2>1. CASE y # x
    BY <1>0, <1>8, <2>1, FrameStep DEF TypeOK, Wait, Go, NoFault
  <2>2. CASE y = x
    BY <1>0, <1>8, <2>2 DEF TypeOK, Locals, Wait, Go, NoFault, RunInv, SessionInv, EndInv, KeysInv, Excused
  <2> QED
    BY <2>1, <2>2
<1>9. ASSUME NEW x \in Execs, Revoke(x) PROVE RunInv(y)'
  <2>1. CASE y # x
    BY <1>0, <1>9, <2>1, FrameStep DEF TypeOK, Revoke, Go, Fault, Effect, Accepts, NoFault
  <2>2. CASE y = x
    <3>1. /\ run[y].pc = "revoke" /\ run'[y].pc = "exit"
          /\ run'[y].token = run[y].token /\ run'[y].code = run[y].code
          /\ run'[y].type = run[y].type
      BY <1>0, <1>9, <2>2 DEF TypeOK, Locals, Revoke, Go
    <3>2. SessionInv(y)'
      BY <1>0, <1>9, <2>2, <3>1 DEF TypeOK, Revoke, Fault, Effect, Accepts, Tokens, NoFault, Locals, RunInv, SessionInv
    <3>3. EndInv(y)'
      <4>1. /\ run[y].token \in Tokens
            /\ run[y].token = "unknown_key" => ~keyFile
        BY <1>0, <3>1 DEF RunInv, EndInv, Inv, TokenInv, Locals
      <4> QED
        BY <1>0, <1>9, <2>2, <3>1, <4>1 DEF TypeOK, Revoke, Fault, Accepts, Tokens, NoFault, RunInv, EndInv, Excused
    <3>4. KeysInv(y)'
      BY <1>0, <1>9, <2>2, <3>1 DEF TypeOK, Revoke, Fault, Effect, Accepts, Tokens, NoFault, Locals, RunInv, SessionInv, EndInv, KeysInv
    <3> QED
      BY <3>2, <3>3, <3>4 DEF RunInv
  <2> QED
    BY <2>1, <2>2
<1>10. ASSUME NEW x \in Execs, ReturnOrExit(x) PROVE RunInv(y)'
  <2>1. CASE y # x
    BY <1>0, <1>10, <2>1, FrameStep DEF TypeOK, ReturnOrExit, Exits, Fault, NoFault
  <2>2. CASE y = x
    <3>1. /\ run[y].pc = "exit" /\ run'[y].pc = "ended"
          /\ run'[y].token = run[y].token /\ run'[y].type = run[y].type
          /\ \/ child[y] = "ok" /\ run'[y].code = "ok"
             \/ child[y] = "failed" /\ run'[y].code = "failed" /\ keys' = keys
      BY <1>0, <1>10, <2>2, ExitsFields DEF TypeOK, ReturnOrExit
    <3>2. SessionInv(y)'
      BY <1>0, <1>10, <2>2, <3>1 DEF TypeOK, ReturnOrExit, Fault, NoFault, RunInv, SessionInv
    <3>3. EndInv(y)'
      BY <1>0, <1>10, <2>2, <3>1 DEF TypeOK, ReturnOrExit, Fault, NoFault, RunInv, SessionInv, EndInv, Excused
    <3>4. KeysInv(y)'
      BY <1>0, <1>10, <2>2, <3>1 DEF TypeOK, ReturnOrExit, Fault, NoFault, RunInv, SessionInv, EndInv, KeysInv
    <3> QED
      BY <3>2, <3>3, <3>4 DEF RunInv
  <2> QED
    BY <2>1, <2>2
<1>11. ASSUME NEW x \in Execs, Forward(x) PROVE RunInv(y)'
  <2>1. CASE y # x
    BY <1>0, <1>11, <2>1, FrameStep DEF TypeOK, Forward, NoFault
  <2>2. CASE y = x
    BY <1>0, <1>11, <2>2 DEF TypeOK, Locals, Forward, NoFault, RunInv, SessionInv, EndInv, KeysInv, Excused
  <2> QED
    BY <2>1, <2>2
<1>12. ASSUME NEW x \in Execs, RequestLost(x) PROVE RunInv(y)'
  <2>1. CASE y # x
    BY <1>0, <1>12, <2>1, FrameStep DEF TypeOK, RequestLost, Exits, Accepts, Fault, NoFault
  <2>2. CASE y = x
    BY <1>0, <1>12, <2>2 DEF TypeOK, Locals, RequestLost, Exits, Accepts, Fault, NoFault, RunInv, SessionInv, EndInv, KeysInv, Excused
  <2> QED
    BY <2>1, <2>2
<1>13. ASSUME NEW x \in Execs, ChildEnds(x) PROVE RunInv(y)'
  <2>1. CASE y # x
    BY <1>0, <1>13, <2>1, FrameStep DEF TypeOK, ChildEnds, NoFault
  <2>2. CASE y = x
    BY <1>0, <1>13, <2>2 DEF TypeOK, Locals, ChildEnds, NoFault, RunInv, SessionInv, EndInv, KeysInv, Excused
  <2> QED
    BY <2>1, <2>2
<1>14. ASSUME NEW x \in Execs, Signal(x) PROVE RunInv(y)'
  <2>1. CASE y # x
    BY <1>0, <1>14, <2>1, FrameStep DEF TypeOK, Signal, Caught, Enqueue, Dies, Exits, Effect, Accepts, NoFault
  <2>2. CASE y = x
    <3>1. /\ run'[y].token = run[y].token /\ run'[y].type = run[y].type
          /\ \/ /\ run'[y].pc = run[y].pc /\ run'[y].code = run[y].code
                /\ sess'[y] = sess[y]
             \/ /\ run[y].pc \notin {"idle", "ended", "wait", "exit", "start", "revoke"}
                /\ run'[y].pc = "ended" /\ run'[y].code = "killed"
                /\ sess'[y] \in Effect(y)
      BY <1>0, <1>14, <2>2, ExitsFields, EnqueueFields DEF TypeOK, Signal, Caught, Dies
    <3>2. SessionInv(y)'
      BY <1>0, <1>14, <2>2, <3>1 DEF TypeOK, Signal, Effect, Accepts, NoFault, RunInv, SessionInv
    <3>3. EndInv(y)'
      BY <1>0, <1>14, <2>2, <3>1 DEF TypeOK, Signal, Effect, Accepts, NoFault, RunInv, SessionInv, EndInv, Excused
    <3>4. KeysInv(y)'
      BY <1>0, <1>14, <2>2, <3>1 DEF TypeOK, Signal, Effect, Accepts, NoFault, RunInv, SessionInv, EndInv, KeysInv
    <3> QED
      BY <3>2, <3>3, <3>4 DEF RunInv
  <2> QED
    BY <2>1, <2>2
<1>15. ASSUME NEW x \in Execs, Killed(x) PROVE RunInv(y)'
  <2>1. CASE y # x
    BY <1>0, <1>15, <2>1, FrameStep DEF TypeOK, Killed, Dies, Exits, Effect, Accepts, NoFault
  <2>2. CASE y = x
    BY <1>0, <1>15, <2>2 DEF TypeOK, Locals, Killed, Dies, Exits, Effect, Accepts, NoFault, RunInv, SessionInv, EndInv, KeysInv, Excused
  <2> QED
    BY <2>1, <2>2
<1>16. ASSUME NEW x \in Execs, SessionExpires(x) PROVE RunInv(y)'
  <2>1. CASE y # x
    BY <1>0, <1>16, <2>1, FrameStep DEF TypeOK, SessionExpires, NoFault
  <2>2. CASE y = x
    BY <1>0, <1>16, <2>2 DEF TypeOK, Locals, SessionExpires, NoFault, RunInv, SessionInv, EndInv, KeysInv, Excused
  <2> QED
    BY <2>1, <2>2
<1>17. CASE ApiRestarts
  BY <1>0, <1>17 DEF TypeOK, Locals, Tokens, ApiRestarts, Outdate, Accepts, NoFault, RunInv, SessionInv, EndInv, KeysInv, Excused
<1>18. CASE TokensExpire
  BY <1>0, <1>18 DEF TypeOK, Locals, Tokens, TokensExpire, Outdate, Accepts, NoFault, RunInv, SessionInv, EndInv, KeysInv, Excused
<1>19. CASE LogInOrOut
  BY <1>0, <1>19, FrameStep DEF LogInOrOut, NoFault
<1>20. CASE UNCHANGED vars
  BY <1>0, <1>20, FrameStep DEF vars, NoFault
<1> QED
  BY <1>1, <1>2, <1>3, <1>4, <1>5, <1>6, <1>7, <1>8, <1>9, <1>10, <1>11, <1>12, <1>13, <1>14, <1>15, <1>16, <1>17, <1>18, <1>19, <1>20 DEF Next, Run, Step

LEMMA StepInv == Inv /\ [Next]_vars => Inv'
  BY TypeStep, KeyStep, RunStep DEF Inv, RunInv

-----------------------------------------------------------------------------
\* What is known of every run, between any two of its steps, whatever fails.
THEOREM Invariance == Spec => []Inv
  BY InitInv, StepInv, PTL DEF Spec

\* Every variable keeps its type; sigChan never holds more than one signal.
THEOREM TypeCorrect == Spec => []TypeOK
<1>1. Inv => TypeOK
  BY DEF Inv
<1> QED
  BY <1>1, Invariance, PTL

\* A session that is live after its run has ended has one of the excuses the
\* code leaves: a kill, a failed call, or a token the API refuses by then.
THEOREM SessionsAreGivenBack == Spec => []GivesBack
<1>1. Inv => GivesBack
  <2> SUFFICES ASSUME Inv, NEW x \in Execs, run[x].pc = "ended", sess[x] = "live"
               PROVE  \/ run[x].code = "killed"
                      \/ x \in hit
                      \/ run[x].token = "too_old"
                      \/ run[x].token = "unknown_key" /\ ~keyFile
    BY DEF GivesBack
  <2> QED
    BY DEF Inv, EndInv, Excused
<1> QED
  BY <1>1, Invariance, PTL

\* No interleaving of signals, of the end of the child and of the revocation
\* takes the session, or the key files, from a child that is still running.
THEOREM ChildrenKeepAccess == Spec => []ChildKeepsAccess
<1>1. Inv => ChildKeepsAccess
  BY DEF Inv, SessionInv, KeysInv, ChildKeepsAccess
<1> QED
  BY <1>1, Invariance, PTL

\* A run that reports success has left no key file behind, unless a removal or
\* another call of it has failed.
THEOREM ExitsAreClean == Spec => []CleanExit
<1>1. Inv => CleanExit
  BY DEF Inv, KeysInv, CleanExit
<1> QED
  BY <1>1, Invariance, PTL
=============================================================================
