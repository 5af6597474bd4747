------------------------- MODULE PolicyEngineProofs --------------------------
(***************************************************************************)
(* Theorems about PolicyEngine, for every table of policies and every      *)
(* call.                                                                   *)
(***************************************************************************)
EXTENDS PolicyEngine, TLAPS

\* The rows that have arrived.
Read == Rows \ unread

\* They are the rows of the slice.
Arrived == Read = {policies[j] : j \in 1 .. Len(policies)}

\* The rows before row i neither decide nor are forgotten.
Walked ==
    /\ \A j \in 1 .. i - 1 : ~Denies(policies[j], call) /\ ~Exceeds(policies[j], call)
    /\ hasAllow <=> \E j \in 1 .. i - 1 : Allows(policies[j], call)

\* The answer is one that the rows which arrived justify, or an error of the
\* store.
Justified == \/ result = "none"
             \/ result \in Outcomes(table \ unread, call)
             \/ failed /\ result = "error"

Inv == /\ TypeOK
       /\ pc = "query" => policies = <<>> /\ unread = {}
       /\ pc \in {"query", "scan"} => i = 1 /\ ~hasAllow
       /\ pc # "done" => result = "none"
       /\ pc \in {"scan", "match"} => Arrived
       /\ pc = "match" => Walked
       /\ pc \in {"query", "scan"} => ~failed
       /\ pc # "scan" /\ ~failed => unread = {}
       /\ Justified

-----------------------------------------------------------------------------
\* Evaluate starts with every variable in its type.
LEMMA InitType == Init => TypeOK
<1> SUFFICES ASSUME Init PROVE TypeOK
  OBVIOUS
<1>1. policies = <<>> /\ policies \in Seq(Rows) /\ Len(policies) = 0
  BY DEF Init
<1>2. hasAllow \in BOOLEAN /\ failed \in BOOLEAN
  BY DEF Init
<1> QED
  BY <1>1, <1>2 DEF Init, TypeOK

\* Every step of Evaluate keeps the types.
LEMMA NextType == TypeOK /\ [Next]_vars => TypeOK'
<1> SUFFICES ASSUME TypeOK, [Next]_vars PROVE TypeOK'
  OBVIOUS
<1> USE DEF TypeOK, Rows, Return, Leave, Breaks
<1>1. CASE NoRoles \/ QueryFails \/ ScanFails
  BY <1>1 DEF NoRoles, QueryFails, ScanFails
<1>2. CASE Query
  BY <1>2 DEF Query
<1>3. CASE Scan
  <2>1. PICK r \in unread : policies' = Append(policies, r) /\ unread' = unread \ {r}
    BY <1>3 DEF Scan
  <2>2. policies' \in Seq(Rows) /\ Len(policies') = Len(policies) + 1
    BY <2>1
  <2>3. i \in 1 .. Len(policies') + 1
    BY <2>2
  <2> QED
    BY <1>3, <2>1, <2>2, <2>3 DEF Scan
<1>4. CASE ScanEnds
  BY <1>4 DEF ScanEnds
<1>5. CASE Match
  <2>1. CASE Return("deny") \/ Return("error")
    BY <2>1
  <2>2. CASE /\ hasAllow' = (hasAllow \/ Allows(policies[i], call))
             /\ i <= Len(policies) /\ i' = i + 1
             /\ UNCHANGED <<table, call, pc, unread, policies, result, failed>>
    <3>1. hasAllow' \in BOOLEAN
      BY <2>2, Zenon DEF Allows
    <3>2. i' \in 1 .. Len(policies) + 1
      BY <2>2
    <3> QED
      BY <2>2, <3>1, <3>2
  <2> QED
    BY <1>5, <2>1, <2>2 DEF Match
<1>6. CASE LoopEnds
  <2>1. Return("allow") \/ Return("deny")
    BY <1>6 DEF LoopEnds
  <2> QED
    BY <2>1
<1>7. CASE UNCHANGED vars
  BY <1>7 DEF vars
<1> QED
  BY <1>1, <1>2, <1>3, <1>4, <1>5, <1>6, <1>7 DEF Next

\* The variables of Evaluate keep their types.
THEOREM TypeCorrect == Spec => []TypeOK
  BY InitType, NextType, PTL DEF Spec

-----------------------------------------------------------------------------
(***************************************************************************)
(* The answers of a set of rows.                                           *)
(***************************************************************************)

\* There is an answer, and it is one of three.
LEMMA SomeOutcome ==
  ASSUME NEW rows, NEW c
  PROVE  /\ Outcomes(rows, c) # {}
         /\ Outcomes(rows, c) \subseteq {"allow", "deny", "error"}
<1>1. "deny" \in Outcomes(rows, c) \/ "error" \in Outcomes(rows, c) \/ "allow" \in Outcomes(rows, c)
  BY DEF Outcomes
<1>2. Outcomes(rows, c) \subseteq {"allow", "deny", "error"}
  BY DEF Outcomes
<1> QED
  BY <1>1, <1>2

\* To be allowed is to have a row that allows and none that denies or limits.
LEMMA AllowedMeans ==
  ASSUME NEW rows, NEW c
  PROVE  "allow" \in Outcomes(rows, c) <=>
           /\ \E r \in RowsFor(rows, c) : Allows(r, c)
           /\ \A r \in RowsFor(rows, c) : ~Denies(r, c) /\ ~Exceeds(r, c)
  BY DEF Outcomes

\* An administrator who adds DENY rows only takes access away: whoever is
\* allowed with them is allowed without them, whatever else the table holds.
THEOREM DenyRowsOnlyRestrict ==
  ASSUME NEW rows \in SUBSET Rules, NEW more \in SUBSET Rules,
         \A r \in more : r.effect = "DENY",
         NEW c \in Calls, "allow" \in Outcomes(rows \union more, c)
  PROVE  "allow" \in Outcomes(rows, c)
<1>1. PICK r \in RowsFor(rows \union more, c) : Allows(r, c)
  BY AllowedMeans
<1>2. r \in RowsFor(rows, c)
  BY <1>1 DEF RowsFor, Allows
<1>3. \A x \in RowsFor(rows, c) : ~Denies(x, c) /\ ~Exceeds(x, c)
  BY AllowedMeans DEF RowsFor
<1> QED
  BY <1>1, <1>2, <1>3, AllowedMeans

\* Whoever is allowed for a time is allowed for a shorter one.
THEOREM ShorterIsAllowedToo ==
  ASSUME NEW rows \in SUBSET Rules, NEW c \in Calls, NEW d \in Int, d <= c.duration,
         "allow" \in Outcomes(rows, c)
  PROVE  "allow" \in Outcomes(rows, [c EXCEPT !.duration = d])
<1> DEFINE short == [c EXCEPT !.duration = d]
<1>1. /\ short.roles = c.roles /\ short.resource = c.resource /\ short.duration = d
      /\ c.duration \in Int
  BY DEF Calls
<1> HIDE DEF short
<1>2. RowsFor(rows, short) = RowsFor(rows, c)
  BY <1>1 DEF RowsFor
<1>3. ASSUME NEW r \in RowsFor(rows, c)
      PROVE  /\ Denies(r, short) => Denies(r, c)
             /\ Exceeds(r, short) => Exceeds(r, c)
             /\ Allows(r, c) => Allows(r, short)
  <2>1. Matches(r, short) <=> Matches(r, c)
    BY <1>1 DEF Matches
  <2>2. r.maxDuration \subseteq Int
    BY DEF RowsFor, Rules
  <2>3. Exceeds(r, short) => Exceeds(r, c)
    BY <1>1, <2>1, <2>2 DEF Exceeds
  <2> QED
    BY <2>1, <2>3 DEF Denies, Allows
<1>4. "allow" \in Outcomes(rows, short)
  BY <1>2, <1>3, AllowedMeans
<1> QED
  BY <1>4 DEF short

-----------------------------------------------------------------------------
(***************************************************************************)
(* The answer of Evaluate.                                                 *)
(***************************************************************************)

\* The rows that have arrived, taken as a table.
LEMMA ReadRows == RowsFor(table \ unread, call) = Read
  BY DEF RowsFor, Read, Rows

\* A row that denies, or one that is exceeded, justifies its answer.
LEMMA RowDecides ==
  ASSUME NEW r \in Read
  PROVE  /\ Denies(r, call) => "deny" \in Outcomes(table \ unread, call)
         /\ Exceeds(r, call) => "error" \in Outcomes(table \ unread, call)
  BY ReadRows DEF Outcomes

\* Without such rows the answer is that of the rows that allow.
LEMMA NoRowDecides ==
  ASSUME \A r \in Read : ~Denies(r, call) /\ ~Exceeds(r, call)
  PROVE  /\ (\E r \in Read : Allows(r, call)) => "allow" \in Outcomes(table \ unread, call)
         /\ ~(\E r \in Read : Allows(r, call)) => "deny" \in Outcomes(table \ unread, call)
  BY ReadRows DEF Outcomes

\* At the end of the loop the slice stands for all that has arrived.
LEMMA LoopEndJustified ==
  ASSUME Inv, LoopEnds
  PROVE  Justified'
<1>1. Outcomes(table \ unread, call)' = Outcomes(table \ unread, call)
  BY DEF LoopEnds, Return, Leave
<1>2. Arrived /\ Walked /\ 1 .. i - 1 = 1 .. Len(policies)
  BY DEF Inv, LoopEnds, TypeOK
<1>3. \A r \in Read : ~Denies(r, call) /\ ~Exceeds(r, call)
  BY <1>2 DEF Arrived, Walked
<1>4. hasAllow <=> \E r \in Read : Allows(r, call)
  BY <1>2 DEF Arrived, Walked
<1>5. (IF hasAllow THEN "allow" ELSE "deny") \in Outcomes(table \ unread, call)
  BY <1>3, <1>4, NoRowDecides
<1> QED
  BY <1>1, <1>5 DEF LoopEnds, Return, Leave, Justified

\* The invariant holds when Evaluate is called.
LEMMA InitInv == Init => Inv
  BY InitType DEF Init, Inv, Justified

\* Every step keeps it, wherever the read of the rows may be cut short.
LEMMA NextInv == Inv /\ [Next]_vars => Inv'
<1> SUFFICES ASSUME Inv, [Next]_vars PROVE Inv'
  OBVIOUS
<1>0. TypeOK /\ TypeOK'
  BY NextType DEF Inv
<1>1. CASE NoRoles \/ QueryFails \/ ScanFails
  <2>1. NoRoles => "deny" \in Outcomes(table \ unread, call)
    BY DEF NoRoles, Outcomes, RowsFor
  <2> QED
    BY <1>0, <1>1, <2>1 DEF NoRoles, QueryFails, ScanFails, Return,
                                   Leave, Breaks, Inv, Justified
<1>2. CASE Query
  <2>1. Arrived'
    <3>1. Read' = {} /\ Len(policies') = 0
      BY <1>2 DEF Query, Inv, Read, Rows
    <3> QED
      BY <3>1 DEF Arrived
  <2> QED
    BY <1>0, <1>2, <2>1 DEF Query, Inv, Justified
<1>3. CASE Scan
  <2>1. PICK r \in unread : policies' = Append(policies, r) /\ unread' = unread \ {r}
    BY <1>3 DEF Scan
  <2>2. /\ Len(policies') = Len(policies) + 1 /\ Len(policies) \in Nat
        /\ policies'[Len(policies) + 1] = r
        /\ \A j \in 1 .. Len(policies) : policies'[j] = policies[j]
    BY <1>0, <2>1 DEF TypeOK
  <2>3. Read' = Read \union {r}
    BY <1>0, <1>3, <2>1 DEF Scan, TypeOK, Read, Rows
  <2>4. 1 .. Len(policies') = (1 .. Len(policies)) \union {Len(policies) + 1}
    BY <2>2
  <2>5. Arrived
    BY <1>3 DEF Scan, Inv
  <2>6. Arrived'
    BY <2>2, <2>3, <2>4, <2>5 DEF Arrived
  <2> QED
    BY <1>0, <1>3, <2>6 DEF Scan, Inv, Justified
<1>4. CASE ScanEnds
  <2>1. Arrived' /\ Walked'
    BY <1>4 DEF ScanEnds, Inv, Arrived, Read, Rows, Walked
  <2> QED
    BY <1>0, <1>4, <2>1 DEF ScanEnds, Inv, Justified
<1>5. CASE Match
  <2>1. policies[i] \in Read /\ i \in 1 .. Len(policies)
    BY <1>0, <1>5 DEF Match, Inv, TypeOK, Arrived
  <2>2. CASE \/ Denies(policies[i], call) /\ Return("deny")
             \/ Exceeds(policies[i], call) /\ Return("error")
    <3>1. pc' = "done" /\ UNCHANGED <<table, call, unread, policies, i, hasAllow, failed>>
      BY <2>2 DEF Return, Leave
    <3>2. result' \in Outcomes(table \ unread, call)
      BY <2>1, <2>2, RowDecides DEF Return, Leave
    <3>3. Outcomes(table \ unread, call)' = Outcomes(table \ unread, call)
      BY <3>1
    <3>4. Justified'
      BY <3>2, <3>3 DEF Justified
    <3>5. ~failed => unread = {}
      BY <1>5 DEF Match, Inv
    <3> QED
      BY <1>0, <3>1, <3>4, <3>5 DEF Inv
  <2>3. CASE /\ ~Denies(policies[i], call) /\ ~Exceeds(policies[i], call)
             /\ hasAllow' = (hasAllow \/ Allows(policies[i], call))
             /\ i' = i + 1
             /\ UNCHANGED <<table, call, pc, unread, policies, result, failed>>
    <3>1. Walked
      BY <1>5 DEF Match, Inv
    <3>2. 1 .. i' - 1 = (1 .. i - 1) \union {i}
      BY <2>1, <2>3
    <3>3. Walked'
      BY <2>3, <3>1, <3>2 DEF Walked
    <3> QED
      BY <1>0, <1>5, <2>3, <3>3 DEF Match, Inv, Arrived, Read, Rows, Justified
  <2> QED
    BY <1>5, <2>2, <2>3 DEF Match
<1>6. CASE LoopEnds
  BY <1>0, <1>6, LoopEndJustified DEF LoopEnds, Return, Leave, Inv
<1>7. CASE UNCHANGED vars
  BY <1>0, <1>7 DEF vars, Inv, Arrived, Read, Walked, Rows, Justified
<1> QED
  BY <1>1, <1>2, <1>3, <1>4, <1>5, <1>6, <1>7 DEF Next

\* The invariant holds in every behaviour.
THEOREM Invariance == Spec => []Inv
  BY InitInv, NextInv, PTL DEF Spec

\* If nothing has failed all rows have arrived when there is an answer.
LEMMA WholeRead ==
  ASSUME Inv, result # "none", ~failed
  PROVE  unread = {} /\ table \ unread = table
<1>1. unread = {}
  BY DEF Inv
<1> QED
  BY <1>1

\* Whatever the order of the rows, their number and their limits, and wherever
\* the read is cut short or refused, the answer is one that the table
\* justifies, or the store has failed.
THEOREM AnswersAreJustified == Spec => []AnswerIsJustified
<1>1. Inv => AnswerIsJustified
  BY WholeRead DEF Inv, Justified, AnswerIsJustified
<1> QED
  BY <1>1, Invariance, PTL

\* The choices of SessionBroker's Authorize, which asks the question in one
\* step: if the store works an answer of the whole table, else an error, at
\* whatever row, or an answer of some of the rows.
AnsweredAsAuthorized ==
    result # "none" =>
        \/ ~failed /\ result \in Outcomes(table, call)
        \/ failed /\ \/ result = "error"
                     \/ \E rows \in SUBSET table : result \in Outcomes(rows, call)

\* Authorize leaves out no answer of Evaluate, and one that is not of the whole
\* table takes a failure of the store.
THEOREM AuthorizeTakesEveryAnswer == Spec => []AnsweredAsAuthorized
<1>1. Inv => AnsweredAsAuthorized
  <2> SUFFICES ASSUME Inv, result # "none" PROVE AnsweredAsAuthorized
    BY DEF AnsweredAsAuthorized
  <2>1. CASE ~failed
    BY <2>1, WholeRead DEF Inv, Justified, AnsweredAsAuthorized
  <2>2. CASE failed
    <3>1. table \ unread \in SUBSET table
      OBVIOUS
    <3> QED
      BY <2>2, <3>1 DEF Inv, Justified, AnsweredAsAuthorized
  <2> QED
    BY <2>1, <2>2
<1> QED
  BY <1>1, Invariance, PTL

\* What the comment at engine.go:67 promises, and the condition without which
\* the code does not keep it: a call that some DENY row matches is not allowed,
\* unless the store has failed while the rows were read.
THEOREM DenyTakesPrecedenceInWholeReads == Spec => [](~failed => DenyTakesPrecedence)
<1>1. Inv => (~failed => DenyTakesPrecedence)
  <2> SUFFICES ASSUME Inv, ~failed, NEW r \in Rows, Denies(r, call), result = "allow"
               PROVE  FALSE
    BY DEF DenyTakesPrecedence
  <2>1. unread = {} /\ failed = FALSE
    BY WholeRead DEF Inv, TypeOK
  <2>2. "allow" \in Outcomes(table \ unread, call) /\ r \in Read
    BY <2>1 DEF Inv, Justified, Read
  <2> QED
    BY <2>2, ReadRows, AllowedMeans
<1> QED
  BY <1>1, Invariance, PTL
=============================================================================
