------------------------------ MODULE KeyFiles ------------------------------
(***************************************************************************)
(* A directory of key files, filled once and kept: a process that does not *)
(* find the marks writes all files in order.  GenerateKeysAndCerts         *)
(* (internal/mtls/mtls.go) and ensureCAKey (internal/provider/ssh.go) both *)
(* do it, without a lock and without renaming a finished file into place.  *)
(*                                                                         *)
(* A file is missing, or torn (opened and truncated, its content not there *)
(* yet, or a mixture), or it belongs to a generation of keys, a number:    *)
(* everything one run writes is made from the keys it drew.                *)
(***************************************************************************)
EXTENDS Naturals, Sequences

CONSTANTS
    Files,      \* the files, in the order in which they are written
    Marks,      \* the files whose existence says that there is nothing to do
    Writers,    \* whoever may fill the directory
    Piecemeal,  \* a content is written by more than one system call
    Missing, Torn

VARIABLES
    disk,       \* file -> its content
    writer,     \* where each writer is
    made,       \* generations drawn so far
    overlap     \* history: two writers have been filling it at the same time

Names == {Files[i] : i \in 1 .. Len(Files)}

At(pc, file, key) == [pc |-> pc, file |-> file, key |-> key, shared |-> FALSE]

Idle == At("idle", 1, 0)

Filling(w) == writer[w].pc \in {"open", "write"}

Init == /\ disk = [f \in Names |-> Missing]
        /\ writer = [w \in Writers |-> Idle]
        /\ made = 0
        /\ overlap = FALSE

-----------------------------------------------------------------------------
Call(w) ==
    /\ writer[w].pc = "idle"
    /\ writer' = [writer EXCEPT ![w].pc = "check"]
    /\ UNCHANGED <<disk, made, overlap>>

Draw(w) ==
    /\ made' = made + 1
    /\ writer' = [writer EXCEPT ![w] = At("open", 1, made')]
    /\ overlap' = (overlap \/ \E v \in Writers \ {w} : Filling(v))
    /\ UNCHANGED disk

\* Mutant: one of the marks is taken for all of them.
CheckOneMark(w) ==
    /\ writer[w].pc = "check"
    /\ IF \E f \in Marks : disk[f] # Missing
         THEN /\ writer' = [writer EXCEPT ![w].pc = "found"]
              /\ UNCHANGED <<disk, made, overlap>>
         ELSE Draw(w)

\* Mutant: files that exist are written again.
CheckNever(w) == writer[w].pc = "check" /\ Draw(w)

\* Files are never removed and the first one that is missing decides, so the
\* calls of Stat are one step.
Check(w) ==
    /\ writer[w].pc = "check"
    /\ IF \A f \in Marks : disk[f] # Missing
         THEN /\ writer' = [writer EXCEPT ![w].pc = "found"]
              /\ UNCHANGED <<disk, made, overlap>>
         ELSE Draw(w)

\* O_TRUNC empties the file also for those who have it open.
Open(w) ==
    /\ writer[w].pc = "open"
    /\ disk' = [disk EXCEPT ![Files[writer[w].file]] = Torn]
    /\ writer' = [v \in Writers |->
         IF v = w THEN [writer[w] EXCEPT !.pc = "write"]
         ELSE IF writer[v].pc = "write" /\ writer[v].file = writer[w].file
           THEN [writer[v] EXCEPT !.shared = TRUE]
           ELSE writer[v]]
    /\ UNCHANGED <<made, overlap>>

\* A writer whose file was opened by another one meanwhile goes on at its own
\* offset: written piecemeal, the result may be a mixture.
Write(w) ==
    /\ writer[w].pc = "write"
    /\ \E c \in {writer[w].key} \cup (IF Piecemeal /\ writer[w].shared THEN {Torn} ELSE {}) :
          disk' = [disk EXCEPT ![Files[writer[w].file]] = c]
    /\ writer' = [writer EXCEPT ![w] =
         IF writer[w].file = Len(Files) THEN At("made", writer[w].file, writer[w].key)
         ELSE At("open", writer[w].file + 1, writer[w].key)]
    /\ UNCHANGED <<made, overlap>>

\* The directory or a file cannot be made or written: the rest is left.
Fail(w) ==
    /\ Filling(w) \/ writer[w].pc = "check"
    /\ writer' = [writer EXCEPT ![w] = At("error", 1, 0)]
    /\ UNCHANGED <<disk, made, overlap>>

Step(w) == Check(w) \/ Open(w) \/ Write(w)

-----------------------------------------------------------------------------
Returned(w) == writer[w].pc \in {"found", "made"}

Complete == \E g \in 1 .. made : \A f \in Names : disk[f] = g

TypeOK ==
    /\ disk \in [Names -> {Missing, Torn} \cup 1 .. made]
    /\ writer \in [Writers -> [pc : {"idle", "check", "open", "write", "found", "made", "error"},
                               file : 1 .. Len(Files), key : 0 .. made, shared : BOOLEAN]]
    /\ \A w \in Writers : Filling(w) => writer[w].key # 0
    /\ made \in Nat
    /\ overlap \in BOOLEAN
=============================================================================
