---------------------------- MODULE AccessLedger -----------------------------
(***************************************************************************)
(* What the broker promises of each session, without saying how: access is *)
(* given once and taken away for good, the book (the sessions table) is    *)
(* opened for access that was given, access is taken away only while its   *)
(* entry is open, and an entry is closed only when no access is left that  *)
(* somebody would have to take away.                                       *)
(***************************************************************************)
CONSTANT Sessions

VARIABLES
    access,     \* "none", "granted", "lapsing" (ends by itself), "removed"
    book        \* "unknown", "open", "closed"

ledgerVars == <<access, book>>

Init == /\ access = [s \in Sessions |-> "none"]
        /\ book = [s \in Sessions |-> "unknown"]

Grant(s) == /\ access[s] = "none"
            /\ book[s] = "unknown"
            /\ \E kind \in {"granted", "lapsing"} : access' = [access EXCEPT ![s] = kind]
            /\ UNCHANGED book

Open(s) == /\ book[s] = "unknown"
           /\ access[s] # "none"
           /\ book' = [book EXCEPT ![s] = "open"]
           /\ UNCHANGED access

Withdraw(s) == /\ access[s] = "granted"
               /\ book[s] = "open"
               /\ access' = [access EXCEPT ![s] = "removed"]
               /\ UNCHANGED book

Close(s) == /\ book[s] = "open"
            /\ access[s] # "granted"
            /\ book' = [book EXCEPT ![s] = "closed"]
            /\ UNCHANGED access

\* A second, failing removal puts a closed entry back among the open ones.
Reopen(s) == /\ book[s] = "closed"
             /\ access[s] # "granted"
             /\ book' = [book EXCEPT ![s] = "open"]
             /\ UNCHANGED access

Next == \E s \in Sessions : Grant(s) \/ Open(s) \/ Withdraw(s) \/ Close(s) \/ Reopen(s)

Spec == Init /\ [][Next]_ledgerVars
=============================================================================
