-------------------------- MODULE RemoteAgentProofs --------------------------
(***************************************************************************)
(* Theorems about RemoteAgent: any configuration, any number of revokes    *)
(* and of calls that fail, are lost or are given up.  What the contract    *)
(* asks of a revoke holds when the lookup has at most one resource to      *)
(* find; the run RemoteAgent_ambiguous shows why that is needed.           *)
(***************************************************************************)
EXTENDS RemoteAgent, TLAPS

Unambiguous == \A c, d \in Matching : c = d

\* The agent touches only what its lookup can find, and touches it only for
\* the call that is under way.
IssueInv ==
    /\ \A c \in Configs : cred[c] # "none" => c \in Matching /\ iserv \in {"ok", "error"}
    /\ iserv = "ok" => \E c \in Configs : cred[c] # "none"
    /\ ipc = "dial" => iserv = "none"
    /\ ipc = "ok" => iserv = "ok"

\* Revokes begin after the answer of the issue.
Idle == \A r \in Revokes : rpc[r] = "idle"

StartInv ==
    /\ ipc # "ok" => Idle
    /\ Idle => ~late /\ \A c \in Configs : cred[c] # "removed"
    /\ \A r \in Revokes : rserv[r] # "none" => rpc[r] = "waiting"

\* A revoke that has said, or is about to say, that all went well.
DoneInv == \A r \in Revokes : rpc[r] = "ok" \/ rserv[r] = "ok" => ~Live

TypedInv == TypeOK /\ IssueInv /\ StartInv

Inv == TypedInv /\ DoneInv

-----------------------------------------------------------------------------
\* The counter of faults stays within its bound.
LEMMA FaultsType ==
  ASSUME TypeOK, Fault \/ UNCHANGED faults
  PROVE  faults' \in 0 .. MaxFaults
  BY AgentAssumption DEF TypeOK, Fault

\* What removing one credential does to the others.
LEMMA GoneType ==
  ASSUME TypeOK, NEW c \in Configs
  PROVE  /\ Gone(c) \in [Configs -> {"none", "live", "removed"}]
         /\ Gone(c)[c] # "live"
         /\ \A d \in Configs : /\ d # c => Gone(c)[d] = cred[d]
                               /\ Gone(c)[d] = "none" <=> cred[d] = "none"
                               /\ Gone(c)[d] = "live" => cred[d] = "live"
  BY DEF TypeOK, Gone

\* Nothing exists at the start.
LEMMA InitInv == Init => Inv
<1>1. 0 \in 0 .. MaxFaults
  BY AgentAssumption
<1> QED
  BY <1>1 DEF Init, Inv, TypedInv, TypeOK, IssueInv, StartInv, Idle, DoneInv, Live

\* Every step keeps the types and the order of the calls.
LEMMA NextTyped == TypedInv /\ [Next]_vars => TypedInv'
<1> SUFFICES ASSUME TypedInv, [Next]_vars PROVE TypedInv'
  OBVIOUS
<1> USE DEF TypedInv, TypeOK, IssueInv, StartInv, Idle
<1>0. Fault \/ UNCHANGED faults => faults' \in 0 .. MaxFaults
  BY FaultsType
<1>m. Matching' = Matching /\ Matching \subseteq Configs
  BY DEF Matching
<1>1. CASE DialIssue
  BY <1>0, <1>1, <1>m DEF DialIssue
<1>2. CASE AgentIssue
  <2>1. CASE UNCHANGED cred
    BY <1>0, <1>2, <1>m, <2>1 DEF AgentIssue, Make
  <2>2. ASSUME NEW c \in Matching, Make(c)
        PROVE  TypedInv'
    <3>1. /\ cred' \in [Configs -> {"none", "live", "removed"}]
          /\ cred'[c] = "live" /\ c \in Configs
          /\ \A d \in Configs : d # c => cred'[d] = cred[d]
      BY <2>2, <1>m DEF Make
    <3>2. /\ iserv = "running" /\ iserv' \in {"ok", "error"}
          /\ faults' \in 0 .. MaxFaults
          /\ UNCHANGED <<ipc, rpc, rserv, late>>
      BY <1>0, <1>2, <2>2 DEF AgentIssue
    <3> QED
      BY <3>1, <3>2, <1>m
  <2> QED
    BY <1>2, <2>1, <2>2 DEF AgentIssue
<1>3. CASE IssueAnswer \/ IssueGivenUp
  BY <1>0, <1>3, <1>m DEF IssueAnswer, IssueGivenUp
<1>4. ASSUME NEW r \in Revokes, StartRevoke(r) \/ DialRevoke(r)
      PROVE  TypedInv'
  <2>1. /\ rpc' \in [Revokes -> {"idle", "dial", "waiting", "ok", "error"}]
        /\ rserv' \in [Revokes -> {"none", "running", "ok", "error"}]
        /\ rpc'[r] # "idle" /\ ipc = "ok"
        /\ faults' \in 0 .. MaxFaults
        /\ UNCHANGED <<cred, ipc, iserv, late>>
    BY <1>0, <1>4 DEF StartRevoke, DialRevoke
  <2>2. \A q \in Revokes : rserv'[q] # "none" => rpc'[q] = "waiting"
    BY <1>4 DEF StartRevoke, DialRevoke
  <2> QED
    BY <2>1, <2>2, <1>m
<1>5. ASSUME NEW r \in Revokes, AgentRevoke(r)
      PROVE  TypedInv'
  <2>1. /\ rserv[r] = "running" /\ rpc[r] = "waiting"
        /\ rserv' \in [Revokes -> {"none", "running", "ok", "error"}]
        /\ \A q \in Revokes : rserv'[q] # "none" => rserv[q] # "none"
        /\ faults' \in 0 .. MaxFaults
        /\ UNCHANGED <<ipc, iserv, rpc, late>>
    BY <1>0, <1>5 DEF AgentRevoke
  <2>2. cred' = cred \/ \E c \in Configs : cred' = Gone(c)
    BY <1>5, <1>m DEF AgentRevoke
  <2>3. /\ cred' \in [Configs -> {"none", "live", "removed"}]
        /\ \A d \in Configs : cred'[d] = "none" <=> cred[d] = "none"
    BY <2>2, GoneType
  <2> QED
    BY <2>1, <2>3, <1>m
<1>6. ASSUME NEW r \in Revokes, RevokeAnswer(r) \/ RevokeGivenUp(r)
      PROVE  TypedInv'
  <2>1. /\ rpc[r] = "waiting" /\ rpc'[r] # "idle"
        /\ rpc' \in [Revokes -> {"idle", "dial", "waiting", "ok", "error"}]
        /\ rserv' = [rserv EXCEPT ![r] = "none"]
        /\ \A q \in Revokes : q # r => rpc'[q] = rpc[q]
        /\ late' \in BOOLEAN
        /\ faults' \in 0 .. MaxFaults
        /\ UNCHANGED <<cred, ipc, iserv>>
    BY <1>0, <1>6 DEF RevokeAnswer, RevokeGivenUp
  <2> QED
    BY <2>1, <1>m
<1>7. CASE LateRevoke
  <2>1. /\ ~Idle /\ late' \in BOOLEAN
        /\ UNCHANGED <<ipc, iserv, rpc, rserv, faults>>
    BY <1>7 DEF LateRevoke
  <2>2. cred' = cred \/ \E c \in Configs : cred' = Gone(c)
    BY <1>7, <1>m DEF LateRevoke
  <2>3. /\ cred' \in [Configs -> {"none", "live", "removed"}]
        /\ \A d \in Configs : cred'[d] = "none" <=> cred[d] = "none"
    BY <2>2, GoneType
  <2> QED
    BY <2>1, <2>3, <1>m
<1>8. CASE UNCHANGED vars
  BY <1>8, <1>m DEF vars
<1> QED
  BY <1>1, <1>2, <1>3, <1>4, <1>5, <1>6, <1>7, <1>8 DEF Next, IssueStep, RevokeStep

\* With one resource to find, the one the agent removes at is the one it has
\* issued at, so nothing is left.
LEMMA GoneIsNotLive ==
  ASSUME Unambiguous, TypedInv, NEW c \in Matching, NEW d \in Configs
  PROVE  Gone(c)[d] # "live"
<1>1. c \in Configs
  BY DEF Matching
<1>2. CASE d = c
  BY <1>1, <1>2, GoneType DEF TypedInv
<1>3. CASE d # c
  BY <1>1, <1>3, GoneType DEF TypedInv, TypeOK, IssueInv, Unambiguous
<1> QED
  BY <1>2, <1>3

\* Once a revoke went well, no step brings a credential back.
LEMMA NextDone ==
  ASSUME Unambiguous
  PROVE  Inv /\ [Next]_vars => DoneInv'
<1> SUFFICES ASSUME Inv, [Next]_vars PROVE DoneInv'
  OBVIOUS
<1> USE DEF Inv, DoneInv
<1>t. TypeOK /\ IssueInv /\ StartInv
  BY DEF TypedInv
<1>1. CASE IssueStep
  <2>1. ~(ipc = "ok")
    BY <1>1, <1>t DEF IssueStep, DialIssue, AgentIssue, IssueAnswer, IssueGivenUp, IssueInv
  <2>2. Idle /\ UNCHANGED <<rpc, rserv>>
    BY <1>1, <1>t, <2>1
       DEF IssueStep, DialIssue, AgentIssue, IssueAnswer, IssueGivenUp, StartInv
  <2>3. \A r \in Revokes : rpc[r] = "idle" /\ rserv[r] = "none"
    BY <1>t, <2>2 DEF Idle, StartInv
  <2> QED
    BY <2>2, <2>3
<1>2. ASSUME NEW r \in Revokes, StartRevoke(r) \/ DialRevoke(r) \/ RevokeGivenUp(r)
      PROVE  DoneInv'
  <2>1. UNCHANGED cred
    BY <1>2 DEF StartRevoke, DialRevoke, RevokeGivenUp
  <2>2. \A q \in Revokes : rpc'[q] = "ok" \/ rserv'[q] = "ok"
                             => rpc[q] = "ok" \/ rserv[q] = "ok"
    BY <1>2, <1>t DEF StartRevoke, DialRevoke, RevokeGivenUp, TypeOK
  <2> QED
    BY <2>1, <2>2 DEF Live
<1>3. ASSUME NEW r \in Revokes, RevokeAnswer(r)
      PROVE  DoneInv'
  BY <1>3, <1>t DEF RevokeAnswer, TypeOK, Live
<1>4. ASSUME NEW r \in Revokes, AgentRevoke(r)
      PROVE  DoneInv'
  <2>1. CASE cred' = cred /\ rserv'[r] # "ok"
    <3>1. \A q \in Revokes : rserv'[q] = "ok" => rserv[q] = "ok"
      BY <1>4, <1>t, <2>1 DEF AgentRevoke, TypeOK
    <3> QED
      BY <1>4, <2>1, <3>1 DEF AgentRevoke, Live
  <2>2. CASE \E c \in Matching : cred' = Gone(c)
    BY <2>2, GoneIsNotLive DEF Live
  <2> QED
    BY <1>4, <1>t, <2>1, <2>2 DEF AgentRevoke, TypeOK
<1>5. CASE LateRevoke
  <2>1. UNCHANGED <<rpc, rserv>>
    BY <1>5 DEF LateRevoke
  <2>2. CASE cred' = cred
    BY <2>1, <2>2 DEF Live
  <2>3. CASE \E c \in Matching : cred' = Gone(c)
    BY <2>3, GoneIsNotLive DEF Live
  <2> QED
    BY <1>5, <2>2, <2>3 DEF LateRevoke
<1>6. CASE UNCHANGED vars
  BY <1>6 DEF vars, Live
<1> QED
  BY <1>1, <1>2, <1>3, <1>4, <1>5, <1>6 DEF Next, RevokeStep

\* The type invariant, for every configuration.
THEOREM TypeCorrect == Spec => []TypeOK
<1>1. Init => TypedInv
  BY InitInv DEF Inv
<1>2. TypedInv => TypeOK
  BY DEF TypedInv
<1> QED
  BY <1>1, <1>2, NextTyped, PTL DEF Spec

\* What the broker was told was issued exists until a revoke begins, for every
\* configuration: an answer without an error was given by a handler that made
\* the credential, and no handler of an earlier call is left to remove it.
THEOREM IssuedCredentialsExist == Spec => []IssuedMeansMade
<1>1. Init => TypedInv
  BY InitInv DEF Inv
<1>2. TypedInv => IssuedMeansMade
  BY DEF TypedInv, TypeOK, IssueInv, StartInv, Idle, IssuedMeansMade, Live
<1> QED
  BY <1>1, <1>2, NextTyped, PTL DEF Spec

\* With one resource to find, the invariant holds in every behaviour.
THEOREM Invariance ==
  ASSUME Unambiguous
  PROVE  Spec => []Inv
<1>1. Inv /\ [Next]_vars => Inv'
  BY NextTyped, NextDone DEF Inv
<1> QED
  BY <1>1, InitInv, PTL DEF Spec

\* With one resource to find, a revoke that answers without an error has left
\* no credential at any target of the agent.
THEOREM RevokeReachesTarget ==
  ASSUME Unambiguous
  PROVE  Spec => []RevokedMeansRemoved
<1>1. Inv => RevokedMeansRemoved
  BY DEF Inv, DoneInv, RevokedMeansRemoved
<1> QED
  BY <1>1, Invariance, PTL

-----------------------------------------------------------------------------
\* What a step does to the credential as the broker sees it.
LEMMA CredStays ==
  ASSUME UNCHANGED cred
  PROVE  UNCHANGED Cred
  BY DEF Cred, Live

LEMMA CredGone ==
  ASSUME Unambiguous, TypedInv, NEW c \in Matching, cred' = Gone(c)
  PROVE  UNCHANGED Cred \/ (Cred = "live" /\ Cred' = "removed")
<1>1. c \in Configs /\ ~Live'
  BY GoneIsNotLive DEF Matching, Live
<1>2. CASE Live
  <2>1. PICK d \in Configs : cred[d] = "live"
    BY <1>2 DEF Live
  <2>2. cred'[d] = "removed"
    BY <1>1, <2>1, GoneType DEF TypedInv, TypeOK, Live
  <2> QED
    BY <1>1, <1>2, <2>2 DEF Cred
<1>3. CASE ~Live
  <2>1. \A d \in Configs : cred'[d] = "removed" <=> cred[d] = "removed"
    BY <1>1, <1>3, GoneType DEF TypedInv, TypeOK, Live
  <2> QED
    BY <1>1, <1>3, <2>1 DEF Cred
<1> QED
  BY <1>2, <1>3

\* With one resource to find, the remote provider implements the contract the
\* broker relies on, late handlers included.
THEOREM RemoteMeetsContract ==
  ASSUME Unambiguous
  PROVE  Spec => MeetsContract
<1>1. Init => Contract!Init
  BY DEF Init, Contract!Init, Cred, Live
<1>2. Inv /\ [Next]_vars => [Contract!Next]_(Contract!contractVars)
  <2> SUFFICES ASSUME Inv, [Next]_vars
               PROVE  [Contract!Next]_(Contract!contractVars)
    OBVIOUS
  <2>t. TypedInv /\ TypeOK /\ IssueInv /\ StartInv /\ DoneInv
    BY DEF Inv, TypedInv
  <2>1. CASE DialIssue \/ IssueGivenUp
    <3>1. UNCHANGED <<Cred, rpc>>
      BY <2>1, CredStays DEF DialIssue, IssueGivenUp
    <3> QED
      BY <2>1, <3>1 DEF DialIssue, IssueGivenUp, Contract!contractVars, Contract!Next,
                        Contract!AnswerIssue
  <2>2. CASE AgentIssue
    <3>1. CASE UNCHANGED cred
      <4>1. UNCHANGED <<Cred, ipc, rpc>>
        BY <2>2, <3>1, CredStays DEF AgentIssue
      <4> QED
        BY <4>1 DEF Contract!contractVars
    <3>2. ASSUME NEW c \in Matching, Make(c)
          PROVE  [Contract!Next]_(Contract!contractVars)
      <4>1. Cred = "none"
        BY <2>2, <2>t DEF AgentIssue, IssueInv, Cred, Live
      <4>2. Cred' = "live"
        BY <3>2, <2>t DEF Make, Matching, TypeOK, Cred, Live
      <4>3. ipc # "ok" /\ UNCHANGED <<ipc, rpc>>
        BY <2>2, <2>t DEF AgentIssue, IssueInv
      <4> QED
        BY <4>1, <4>2, <4>3 DEF Contract!Next, Contract!Make
    <3> QED
      BY <2>2, <3>1, <3>2 DEF AgentIssue
  <2>3. CASE IssueAnswer
    <3>1. UNCHANGED <<Cred, rpc>>
      BY <2>3, CredStays DEF IssueAnswer
    <3>2. iserv = "ok" => Cred = "live"
      BY <2>3, <2>t DEF IssueAnswer, IssueInv, StartInv, TypeOK, Cred, Live
    <3> QED
      BY <2>3, <3>1, <3>2 DEF IssueAnswer, Contract!Next, Contract!AnswerIssue
  <2>4. ASSUME NEW r \in Revokes, StartRevoke(r)
        PROVE  [Contract!Next]_(Contract!contractVars)
    <3>1. UNCHANGED Cred
      BY <2>4, CredStays DEF StartRevoke
    <3> QED
      BY <2>4, <2>t, <3>1 DEF StartRevoke, TypeOK, Contract!Next, Contract!Start
  <2>5. ASSUME NEW r \in Revokes, DialRevoke(r) \/ RevokeGivenUp(r)
        PROVE  [Contract!Next]_(Contract!contractVars)
    <3>1. UNCHANGED <<Cred, ipc>>
      BY <2>5, CredStays DEF DialRevoke, RevokeGivenUp
    <3>2. Cred \in {"none", "live", "removed"}
      BY DEF Cred
    <3> QED
      BY <2>5, <2>t, <3>1, <3>2 DEF DialRevoke, RevokeGivenUp, TypeOK,
                                    Contract!contractVars, Contract!Next, Contract!Answer
  <2>6. ASSUME NEW r \in Revokes, RevokeAnswer(r)
        PROVE  [Contract!Next]_(Contract!contractVars)
    <3>1. UNCHANGED <<Cred, ipc>>
      BY <2>6, CredStays DEF RevokeAnswer
    <3>2. rserv[r] = "ok" => Cred # "live"
      BY <2>t DEF DoneInv, Cred
    <3> QED
      BY <2>6, <2>t, <3>1, <3>2 DEF RevokeAnswer, TypeOK, Contract!Next, Contract!Answer
  <2>7. ASSUME NEW r \in Revokes, AgentRevoke(r)
        PROVE  [Contract!Next]_(Contract!contractVars)
    <3>1. rpc[r] = "waiting" /\ UNCHANGED <<ipc, rpc>>
      BY <2>7, <2>t DEF AgentRevoke, StartInv
    <3>2. UNCHANGED Cred \/ (Cred = "live" /\ Cred' = "removed")
      BY <2>7, <2>t, CredStays, CredGone DEF AgentRevoke
    <3> QED
      BY <3>1, <3>2 DEF Contract!contractVars, Contract!Next, Contract!Act
  <2>8. CASE LateRevoke
    <3>1. UNCHANGED <<ipc, rpc>>
      BY <2>8 DEF LateRevoke
    <3>2. UNCHANGED Cred \/ (Cred = "live" /\ Cred' = "removed")
      BY <2>8, <2>t, CredStays, CredGone DEF LateRevoke
    <3>3. PICK r \in Revokes : rpc[r] # "idle"
      BY <2>8, <2>t DEF LateRevoke, StartInv, Idle
    <3>4. Cred = "live" => rpc[r] # "ok"
      BY <2>t, <3>3 DEF DoneInv, Cred
    <3> QED
      BY <2>t, <3>1, <3>2, <3>3, <3>4 DEF TypeOK, Contract!contractVars, Contract!Next,
                                          Contract!Act
  <2>9. CASE UNCHANGED vars
    <3>1. UNCHANGED <<Cred, ipc, rpc>>
      BY <2>9, CredStays DEF vars
    <3> QED
      BY <3>1 DEF Contract!contractVars
  <2> QED
    BY <2>1, <2>2, <2>3, <2>4, <2>5, <2>6, <2>7, <2>8, <2>9
       DEF Next, IssueStep, RevokeStep
<1> QED
  BY <1>1, <1>2, Invariance, PTL DEF Spec, MeetsContract, Contract!Spec
=============================================================================
