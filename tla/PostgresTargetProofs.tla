------------------------ MODULE PostgresTargetProofs -------------------------
(***************************************************************************)
(* Theorems about PostgresTarget: any number of concurrent revokes, any    *)
(* number of failing statements and lost replies.                          *)
(***************************************************************************)
EXTENDS PostgresTarget, TLAPS

\* The role exists while it is being granted to, holds privileges only while
\* it exists, and is revoked only after it was handed out.
RoleInv ==
    /\ ipc = "create" => role = "none"
    /\ ipc \in Privileges \union {"cleanUp"} => role = "present"
    /\ ipc = "ok" => role # "none"
    /\ role # "present" => grants = {}

RevokeInv ==
    \A r \in Revokes : /\ rpc[r] # "idle" => ipc = "ok"
                       /\ rpc[r] = "ok" => role = "dropped"

Inv == TypeOK /\ RoleInv /\ RevokeInv

\* Nobody connects before the answer; without errors, a revoke that has
\* terminated the connections has left none that was opened before, and only
\* then is a role dropped.
LateInv == /\ ipc # "ok" => early = 0
           /\ faults = 0 => /\ \A r \in Revokes : Between(r) => early = 0
                            /\ role = "dropped" => early = 0

-----------------------------------------------------------------------------
\* The counter of errors stays within its bound.
LEMMA FaultsType ==
  ASSUME TypeOK, Fine \/ Error
  PROVE  faults' \in 0 .. MaxFaults
  BY TargetAssumption DEF TypeOK, Fine, Error

\* After an error a statement has had its effect or none.
LEMMA AfterIsEither ==
  ASSUME NEW v, NEW effect, NEW w \in After(v, effect)
  PROVE  w = v \/ w = effect
  BY DEF After

\* Nothing exists before IssueSession.
LEMMA InitInv == Init => Inv
<1> SUFFICES ASSUME Init PROVE Inv
  OBVIOUS
<1>1. 0 \in 0 .. MaxBackends /\ 0 \in 0 .. MaxFaults
  BY TargetAssumption
<1>2. TypeOK
  <2>1. early \in 0 .. backends
    BY DEF Init
  <2>2. rpc \in [Revokes -> {"idle", "terminate", "dropOwned", "dropRole", "ok", "error"}]
    BY DEF Init
  <2> QED
    BY <1>1, <2>1, <2>2 DEF Init, TypeOK, Privileges
<1>3. RoleInv /\ RevokeInv
  BY DEF Init, RoleInv, RevokeInv, Privileges
<1> QED
  BY <1>2, <1>3 DEF Inv

\* Every statement, and everything the user of the role does, keeps the
\* invariant.
LEMMA NextInv == Inv /\ [Next]_vars => Inv'
<1> SUFFICES ASSUME Inv, [Next]_vars PROVE Inv'
  OBVIOUS
<1> USE DEF Inv, TypeOK, RoleInv, RevokeInv, Privileges
<1>0. MaxBackends \in Nat /\ (Fine \/ Error => faults' \in 0 .. MaxFaults)
  BY TargetAssumption, FaultsType
<1>1. CASE CreateRole
  <2>1. role' \in {role, "present"} /\ (ipc' = "connect" => role' = "present")
    BY <1>1, AfterIsEither DEF CreateRole
  <2>2. faults' \in 0 .. MaxFaults /\ ipc' \in {"connect", "error"}
    BY <1>0, <1>1 DEF CreateRole
  <2> QED
    BY <1>1, <2>1, <2>2 DEF CreateRole
<1>2. ASSUME NEW p \in Privileges, Grant(p)
      PROVE  Inv'
  <2>1. grants' \in {grants, grants \union {p}}
    BY <1>2, AfterIsEither DEF Grant
  <2>2. faults' \in 0 .. MaxFaults
    BY <1>0, <1>2 DEF Grant
  <2>3. ipc' \in {"usage", "select", "ok", "cleanUp"}
    BY <1>2 DEF Grant, NextStep
  <2> QED
    BY <1>2, <2>1, <2>2, <2>3 DEF Grant
<1>3. CASE CleanUp
  <2>1. role' = role \/ (role' = "dropped" /\ grants = {})
    BY <1>3, AfterIsEither DEF CleanUp, Dropped, CanDrop
  <2>2. faults' \in 0 .. MaxFaults /\ ipc' = "error"
    BY <1>0, <1>3 DEF CleanUp
  <2> QED
    BY <1>3, <2>1, <2>2 DEF CleanUp
<1>4. ASSUME NEW r \in Revokes, Revoke(r)
      PROVE  Inv'
  BY <1>4 DEF Revoke, GotoR
<1>5. ASSUME NEW r \in Revokes, Terminate(r)
      PROVE  Inv'
  <2>1. backends' \in {backends, 0} /\ early' = (IF backends' = 0 THEN 0 ELSE early)
    BY <1>5, AfterIsEither DEF Terminate
  <2>2. backends' \in 0 .. MaxBackends /\ early' \in 0 .. backends'
    BY <1>0, <2>1
  <2>3. faults' \in 0 .. MaxFaults
    BY <1>0, <1>5 DEF Terminate
  <2> QED
    BY <1>5, <2>2, <2>3 DEF Terminate, GotoR
<1>6. ASSUME NEW r \in Revokes, DropOwned(r)
      PROVE  Inv'
  BY <1>0, <1>6 DEF DropOwned, GotoR, After
<1>7. ASSUME NEW r \in Revokes, DropRole(r)
      PROVE  Inv'
  BY <1>0, <1>7 DEF DropRole, GotoR, After, Dropped, CanDrop
<1>8. CASE Connect \/ Disconnect \/ Lapse
  <2>1. backends' \in 0 .. MaxBackends /\ early' \in 0 .. backends'
    BY <1>0, <1>8 DEF Connect, Disconnect, Lapse
  <2>2. lapsed' \in BOOLEAN /\ UNCHANGED <<role, grants, ipc, rpc, faults>>
    BY <1>8 DEF Connect, Disconnect, Lapse
  <2> QED
    BY <2>1, <2>2
<1>9. CASE UNCHANGED vars
  BY <1>9 DEF vars
<1> QED
  BY <1>1, <1>2, <1>3, <1>4, <1>5, <1>6, <1>7, <1>8, <1>9
     DEF Next, IssueStep, RevokeStep

\* The invariant holds in every behaviour.
THEOREM Invariance == Spec => []Inv
  BY InitInv, NextInv, PTL DEF Spec

\* A revoke that answers without an error has left no role and no privilege,
\* however many revokes run at once and whatever errors were ignored.
THEOREM RevokeIsThorough == Spec => []RevokedMeansDropped
<1>1. Inv => RevokedMeansDropped
  BY DEF Inv, RoleInv, RevokeInv, RevokedMeansDropped
<1> QED
  BY <1>1, Invariance, PTL

\* Types, for any number of revokes and errors.
THEOREM TypeCorrect == Spec => []TypeOK
<1>1. Inv => TypeOK
  BY DEF Inv
<1> QED
  BY <1>1, Invariance, PTL

-----------------------------------------------------------------------------
\* The privileges given so far, and all of them until a revoke begins.
Given == /\ ipc = "usage" => "connect" \in grants
         /\ ipc = "select" => {"connect", "usage"} \subseteq grants
         /\ HandedOutWorks

\* Only a revoke takes a privilege or the role away from a user who has been
\* given it.
LEMMA NextGiven == Inv /\ Given /\ [Next]_vars => Given'
<1> SUFFICES ASSUME Inv, Given, [Next]_vars PROVE Given'
  OBVIOUS
<1> USE DEF Inv, TypeOK, RoleInv, RevokeInv, Privileges, Given, HandedOutWorks
<1>1. CASE CreateRole
  BY <1>1 DEF CreateRole
<1>2. ASSUME NEW p \in Privileges, Grant(p)
      PROVE  Given'
  <2>1. CASE Fine /\ grants' = grants \union {p} /\ ipc' = NextStep[p]
    <3>1. ipc = p /\ ipc' = NextStep[p] /\ UNCHANGED <<role, rpc>>
      BY <1>2, <2>1 DEF Grant
    <3>2. CASE p = "connect"
      <4>1. "connect" \in grants' /\ ipc' = "usage"
        BY <2>1, <3>1, <3>2 DEF NextStep
      <4> QED
        BY <4>1
    <3>3. CASE p = "usage"
      <4>1. {"connect", "usage"} \subseteq grants' /\ ipc' = "select"
        BY <2>1, <3>1, <3>3 DEF NextStep
      <4> QED
        BY <4>1
    <3>4. CASE p = "select"
      <4>1. /\ {"connect", "usage"} \subseteq grants /\ role = "present"
            /\ grants \subseteq {"connect", "usage", "select"}
        BY <3>1, <3>4
      <4>2. grants' = grants \union {"select"} /\ role' = "present"
        BY <2>1, <3>1, <3>4, <4>1
      <4>3. grants' = Privileges
        BY ONLY <4>1, <4>2 DEF Privileges
      <4>4. ipc' = "ok"
        BY <3>1, <3>4 DEF NextStep
      <4> QED
        BY <4>2, <4>3, <4>4
    <3> QED
      BY <3>2, <3>3, <3>4
  <2>2. CASE ipc' = "cleanUp"
    BY <2>2
  <2> QED
    BY <1>2, <2>1, <2>2 DEF Grant
<1>3. CASE CleanUp
  BY <1>3 DEF CleanUp
<1>4. ASSUME NEW r \in Revokes, Revoke(r)
      PROVE  Given'
  BY <1>4 DEF Revoke, GotoR
<1>5. ASSUME NEW r \in Revokes, Terminate(r) \/ DropOwned(r) \/ DropRole(r)
      PROVE  Given'
  <2>1. rpc[r] # "idle" /\ rpc'[r] # "idle" /\ ipc = "ok" /\ ipc' = "ok"
    BY <1>5 DEF Terminate, DropOwned, DropRole, GotoR
  <2> QED
    BY <2>1
<1>6. CASE Connect \/ Disconnect \/ Lapse \/ UNCHANGED vars
  BY <1>6 DEF Connect, Disconnect, Lapse, vars
<1> QED
  BY <1>1, <1>2, <1>3, <1>4, <1>5, <1>6 DEF Next, IssueStep, RevokeStep

\* A role that was handed out is there with every privilege until a revoke
\* begins, whatever statements failed on the way.
THEOREM HandedOutRolesWork == Spec => []HandedOutWorks
<1>1. Init => Given
  BY DEF Init, Given, HandedOutWorks
<1>2. Given => HandedOutWorks
  BY DEF Given
<1> QED
  BY <1>1, <1>2, Invariance, NextGiven, PTL DEF Spec

-----------------------------------------------------------------------------
\* A new connection is early only while no revoke has terminated the others,
\* and only a revoke that has done so drops a role that was handed out.
LEMMA NextLate == Inv /\ LateInv /\ [Next]_vars => LateInv'
<1> SUFFICES ASSUME Inv, LateInv, [Next]_vars PROVE LateInv'
  OBVIOUS
<1> USE DEF Inv, TypeOK, RoleInv, RevokeInv, LateInv, Between
<1>0. Error => faults' # 0
  BY DEF Error
<1>1. CASE IssueStep
  <2>1. early = 0 /\ early' = 0
    BY <1>1 DEF IssueStep, CreateRole, Grant, CleanUp, Privileges
  <2> QED
    BY <2>1
<1>2. ASSUME NEW r \in Revokes, Revoke(r)
      PROVE  LateInv'
  BY <1>2 DEF Revoke, GotoR
<1>3. ASSUME NEW r \in Revokes, Terminate(r)
      PROVE  LateInv'
  <2>1. UNCHANGED <<role, ipc>> /\ ipc = "ok"
    BY <1>3 DEF Terminate
  <2>2. faults' = 0 => early' = 0
    BY <1>0, <1>3 DEF Terminate
  <2> QED
    BY <2>1, <2>2
<1>4. ASSUME NEW r \in Revokes, DropOwned(r) \/ DropRole(r)
      PROVE  LateInv'
  <2>1. early' = early /\ ipc' = ipc /\ Between(r)
    BY <1>4 DEF DropOwned, DropRole
  <2>2. faults' = 0 => faults = 0
    BY <1>0, <1>4 DEF DropOwned, DropRole, Fine
  <2> QED
    BY <2>1, <2>2
<1>5. CASE Connect
  BY <1>5 DEF Connect
<1>6. CASE Disconnect
  BY <1>6 DEF Disconnect
<1>7. CASE Lapse \/ UNCHANGED vars
  BY <1>7 DEF Lapse, vars
<1> QED
  BY <1>1, <1>2, <1>3, <1>4, <1>5, <1>6, <1>7 DEF Next, RevokeStep

\* Only a connection opened between the first and the last statement of a call
\* outlives the role, for any number of calls and connections.
THEOREM SurvivorsAreLate == Spec => []SurvivorsCameLate
<1>1. Init => LateInv
  BY DEF Init, LateInv
<1>2. LateInv => SurvivorsCameLate
  BY DEF LateInv, SurvivorsCameLate
<1> QED
  BY <1>1, <1>2, Invariance, NextLate, PTL DEF Spec

-----------------------------------------------------------------------------
\* The statements of one target implement the contract the broker relies on.
THEOREM TargetMeetsContract == Spec => MeetsContract
<1> USE DEF Cred
<1>1. Init => Contract!Init
  BY DEF Init, Contract!Init
<1>2. Inv /\ [Next]_vars => [Contract!Next]_(Contract!contractVars)
  <2> SUFFICES ASSUME Inv, [Next]_vars
               PROVE  [Contract!Next]_(Contract!contractVars)
    OBVIOUS
  <2> USE DEF Inv, TypeOK, RoleInv, RevokeInv, Privileges
  <2>1. CASE CreateRole
    BY <2>1 DEF CreateRole, After, Contract!contractVars, Contract!Next, Contract!Make,
                Contract!AnswerIssue
  <2>2. ASSUME NEW p \in Privileges, Grant(p)
        PROVE  [Contract!Next]_(Contract!contractVars)
    BY <2>2 DEF Grant, NextStep, Contract!contractVars, Contract!Next, Contract!AnswerIssue
  <2>3. CASE CleanUp
    BY <2>3 DEF CleanUp, After, Dropped, Contract!contractVars, Contract!Next,
                Contract!Undo, Contract!AnswerIssue
  <2>4. ASSUME NEW r \in Revokes, Revoke(r)
        PROVE  [Contract!Next]_(Contract!contractVars)
    BY <2>4 DEF Revoke, GotoR, Contract!Next, Contract!Start
  <2>5. ASSUME NEW r \in Revokes, Terminate(r) \/ DropOwned(r)
        PROVE  [Contract!Next]_(Contract!contractVars)
    BY <2>5 DEF Terminate, DropOwned, GotoR, Contract!contractVars
  <2>6. ASSUME NEW r \in Revokes, DropRole(r)
        PROVE  [Contract!Next]_(Contract!contractVars)
    BY <2>6 DEF DropRole, GotoR, After, Dropped, CanDrop, Contract!Next, Contract!Answer
  <2>7. CASE Connect \/ Disconnect \/ Lapse \/ UNCHANGED vars
    BY <2>7 DEF Connect, Disconnect, Lapse, vars, Contract!contractVars
  <2> QED
    BY <2>1, <2>2, <2>3, <2>4, <2>5, <2>6, <2>7 DEF Next, IssueStep, RevokeStep
<1> QED
  BY <1>1, <1>2, Invariance, PTL DEF Spec, MeetsContract, Contract!Spec
=============================================================================
