------------------------- MODULE SSHAuthorityProofs -------------------------
(***************************************************************************)
(* Theorems about SSHAuthority, for any number of requests, restarts and   *)
(* failing writes.                                                         *)
(***************************************************************************)
EXTENDS SSHAuthority, TLAPS

Private == "ssh_ca.key"
Public == "ssh_ca.pub"

(***************************************************************************)
(* The type invariant, with the two files by name.  A generation can be    *)
(* signed with because whoever found the private file found one that       *)
(* exists, and files are never removed.                                    *)
(***************************************************************************)
Pcs == {"idle", "check", "open", "write", "found", "made", "error"}

WriterType(m) == {w \in [pc : Pcs, file : 1 .. 2, key : 0 .. m, shared : BOOLEAN] :
                    w.pc \in {"open", "write", "made"} => w.key # 0}

Contents(m) == {Missing, Torn} \cup 1 .. m

Types ==
    /\ disk \in [{Private, Public} -> Contents(made)]
    /\ writer \in [Callers -> WriterType(made)]
    /\ made \in Nat
    /\ overlap \in BOOLEAN
    /\ faults \in 0 .. MaxFaults
    /\ issued \subseteq 1 .. made
    /\ trusted \in Contents(made)
    /\ \A c \in Callers : writer[c].pc = "found" => disk[Private] # Missing

(***************************************************************************)
(* As long as no two callers have made keys at the same time, one of them  *)
(* does, and the private file is what every other key is compared with:    *)
(* once it exists it is never drawn again, so it changes only before       *)
(* anything was signed with it, published or copied.                       *)
(***************************************************************************)
Alone == \A c, d \in Callers : Keys!Filling(c) /\ Keys!Filling(d) => c = d

FillOK(c) ==
    LET w == writer[c] IN
    /\ w.key \in 1 .. made
    /\ ~w.shared
    /\ disk[Private] = IF w.file = 2 THEN w.key
                       ELSE IF w.pc = "write" THEN Torn ELSE Missing
    /\ disk[Public] = IF w.file = 2 /\ w.pc = "write" THEN Torn ELSE Missing

SignedOK == /\ \A c \in Callers : writer[c].pc = "made" => disk[Private] = writer[c].key
            /\ \A g \in issued : disk[Private] = g

PublicOK == /\ disk[Public] \in {disk[Private], Torn, Missing}
            /\ disk[Private] = Missing => disk[Public] = Missing
            /\ trusted \in {disk[Private], Torn, Missing}
            /\ disk[Public] = Missing => trusted = Missing

AuthorityInv == /\ Alone
                /\ \A c \in Callers : Keys!Filling(c) => FillOK(c)
                /\ SignedOK
                /\ PublicOK

Inv == Types /\ (~overlap => AuthorityInv)

-----------------------------------------------------------------------------
LEMMA PairFact ==
    LET pair == <<"ssh_ca.key", "ssh_ca.pub">>
    IN  Len(pair) = 2 /\ pair[1] = Private /\ pair[2] = Public
  BY DEF Private, Public

LEMMA NamesFact == Keys!Names = {Private, Public}
<1>1. Len(<<"ssh_ca.key", "ssh_ca.pub">>) = 2
  OBVIOUS
<1> QED
  BY <1>1 DEF Keys!Names, Private, Public

LEMMA TypeFact == Types => TypeOK
<1> SUFFICES ASSUME Types PROVE TypeOK
  OBVIOUS
<1>1. Len(<<"ssh_ca.key", "ssh_ca.pub">>) = 2
  OBVIOUS
<1>2. Keys!TypeOK
  BY <1>1, NamesFact DEF Types, Keys!TypeOK, Keys!Filling, WriterType, Contents, Pcs
<1> QED
  BY <1>2 DEF Types, TypeOK, Contents

\* No content is two things at once.
LEMMA Apart ==
  ASSUME Types
  PROVE  /\ Missing # Torn
         /\ \A g \in 1 .. made : g # Missing /\ g # Torn
<1>1. 1 .. made \subseteq Nat
  BY DEF Types
<1> QED
  BY <1>1, AuthorityAssumption

LEMMA FaultsType ==
  ASSUME Types, Fault \/ UNCHANGED faults
  PROVE  faults' \in 0 .. MaxFaults
  BY AuthorityAssumption DEF Types, Fault

\* The state of the directory before anything has run.
LEMMA InitInv == Init => Inv
<1> SUFFICES ASSUME Init PROVE Inv
  OBVIOUS
<1>1. /\ disk \in [{Private, Public} -> {Missing}]
      /\ made = 0 /\ overlap = FALSE
      /\ writer = [c \in Callers |-> Keys!Idle]
      /\ issued = {} /\ trusted = Missing /\ faults \in 0 .. MaxFaults
  BY NamesFact, AuthorityAssumption DEF Init, Keys!Init
<1>2. Keys!Idle \in WriterType(0) /\ Keys!Idle.pc = "idle"
  BY DEF Keys!Idle, Keys!At, WriterType, Pcs
<1>3. Types
  BY <1>1, <1>2 DEF Types, Contents
<1>4. AuthorityInv
  BY <1>1, <1>2 DEF AuthorityInv, Alone, SignedOK, PublicOK, Keys!Filling
<1> QED
  BY <1>3, <1>4 DEF Inv

-----------------------------------------------------------------------------
(***************************************************************************)
(* Steps of one writer.                                                    *)
(***************************************************************************)
\* A change of the writers alone that begins no filling and hands out no key.
LEMMA CalmStep ==
  ASSUME Types, UNCHANGED <<disk, made, overlap, issued, trusted>>,
         faults' \in 0 .. MaxFaults,
         writer' \in [Callers -> WriterType(made)],
         \A c \in Callers : \/ writer'[c] = writer[c]
                            \/ writer'[c].pc \in {"idle", "check", "error"}
                            \/ writer'[c].pc = "found" /\ disk[Private] # Missing
  PROVE  Types' /\ (AuthorityInv => AuthorityInv')
<1>1. Types'
  BY DEF Types
<1>2. \A c \in Callers : /\ Keys!Filling(c)' => Keys!Filling(c) /\ writer'[c] = writer[c]
                         /\ writer'[c].pc = "made" => writer'[c] = writer[c]
  BY DEF Keys!Filling
<1>3. ASSUME AuthorityInv PROVE AuthorityInv'
  BY <1>2, <1>3 DEF AuthorityInv, Alone, FillOK, SignedOK, PublicOK
<1> QED
  BY <1>1, <1>3

\* New keys are drawn: the private file is missing, so nobody has signed,
\* published or copied anything.
LEMMA DrawStep ==
  ASSUME Types, NEW c \in Callers, Keys!Draw(c), disk[Private] = Missing,
         UNCHANGED <<issued, trusted, faults>>
  PROVE  /\ Types'
         /\ ~overlap' /\ (~overlap => AuthorityInv) => AuthorityInv'
<1>1. /\ made' = made + 1 /\ made' \in Nat \ {0} /\ disk' = disk
      /\ issued' = issued /\ trusted' = trusted /\ faults' = faults
      /\ overlap' = (overlap \/ \E d \in Callers \ {c} : Keys!Filling(d))
  BY DEF Keys!Draw, Types
<1> DEFINE n == Keys!At("open", 1, made')
<1>2. /\ n.pc = "open" /\ n.file = 1 /\ n.key = made' /\ n.shared = FALSE
      /\ n \in WriterType(made')
  BY <1>1 DEF Keys!At, WriterType, Pcs
<1>3. writer' = [writer EXCEPT ![c] = n]
  BY DEF Keys!Draw
<1> HIDE DEF n
<1>4. /\ Contents(made) \subseteq Contents(made')
      /\ WriterType(made) \subseteq WriterType(made')
      /\ 1 .. made \subseteq 1 .. made'
  BY <1>1 DEF Types, Contents, WriterType
<1>5. /\ writer' \in [Callers -> WriterType(made')] /\ writer'[c] = n
      /\ \A d \in Callers \ {c} : writer'[d] = writer[d]
  <2>1. writer \in [Callers -> WriterType(made')]
    BY <1>4 DEF Types
  <2> QED
    BY <1>2, <1>3, <2>1
<1>6. Types'
  <2>1. \A d \in Callers : writer'[d].pc = "found" => disk'[Private] # Missing
    BY <1>1, <1>2, <1>5 DEF Types
  <2> QED
    BY <1>1, <1>4, <1>5, <2>1 DEF Types
<1>7. ASSUME ~overlap', AuthorityInv PROVE AuthorityInv'
  <2>1. \A d \in Callers : Keys!Filling(d)' => d = c
    BY <1>1, <1>5, <1>7 DEF Keys!Filling
  <2>2. issued = {} /\ disk[Public] = Missing /\ trusted = Missing
    BY <1>7, Apart DEF AuthorityInv, SignedOK, PublicOK, Types
  <2>3. \A d \in Callers : writer'[d].pc # "made"
    <3> SUFFICES ASSUME NEW d \in Callers, writer[d].pc = "made", d # c PROVE FALSE
      BY <1>2, <1>5
    <3>1. writer[d].key \in 1 .. made
      BY DEF Types, WriterType
    <3> QED
      BY <3>1, <1>7, Apart DEF AuthorityInv, SignedOK
  <2>4. made' \in 1 .. made'
    BY <1>1 DEF Types
  <2>5. FillOK(c)'
    BY <1>1, <1>2, <1>5, <2>2, <2>4 DEF FillOK
  <2> QED
    BY <1>1, <2>1, <2>2, <2>3, <2>5 DEF AuthorityInv, Alone, SignedOK, PublicOK
<1> QED
  BY <1>1, <1>6, <1>7

\* A file is opened, and empty from then on.
LEMMA OpenStep ==
  ASSUME Types, NEW c \in Callers, Keys!Open(c), UNCHANGED <<issued, trusted, faults>>
  PROVE  Types' /\ (AuthorityInv => AuthorityInv')
<1> DEFINE w == writer[c]
<1> DEFINE f == IF w.file = 1 THEN Private ELSE Public
<1>1. /\ w \in WriterType(made) /\ w.pc = "open" /\ w.file \in {1, 2}
      /\ UNCHANGED <<made, overlap>>
  BY DEF Types, WriterType, Keys!Open
<1>2. disk' = [disk EXCEPT ![f] = Torn]
  <2>1. <<"ssh_ca.key", "ssh_ca.pub">>[w.file] = f
    BY <1>1, PairFact
  <2> QED
    BY <2>1 DEF Keys!Open
<1>3. writer' = [d \in Callers |->
         IF d = c THEN [w EXCEPT !.pc = "write"]
         ELSE IF writer[d].pc = "write" /\ writer[d].file = w.file
           THEN [writer[d] EXCEPT !.shared = TRUE]
           ELSE writer[d]]
  BY DEF Keys!Open
<1>4. disk' \in [{Private, Public} -> Contents(made)] /\ disk'[f] = Torn
  BY <1>2 DEF Types, Contents
<1>5. writer' \in [Callers -> WriterType(made)]
  BY <1>1, <1>3 DEF Types, WriterType, Pcs
<1>6. \A d \in Callers : /\ Keys!Filling(d)' => Keys!Filling(d)
                         /\ writer'[d].pc \in {"found", "made"} =>
                              writer'[d] = writer[d]
  BY <1>1, <1>3 DEF Keys!Filling, Types, WriterType
<1>7. Types'
  <2>1. \A d \in Callers : writer'[d].pc = "found" => disk'[Private] # Missing
    BY <1>2, <1>6, Apart DEF Types
  <2> QED
    BY <1>1, <1>4, <1>5, <2>1 DEF Types
<1>8. ASSUME AuthorityInv PROVE AuthorityInv'
  <2>1. Keys!Filling(c) /\ FillOK(c)
    BY <1>1, <1>8 DEF AuthorityInv, Keys!Filling
  <2>2. \A d \in Callers : Keys!Filling(d)' => d = c
    BY <1>6, <1>8, <2>1 DEF AuthorityInv, Alone
  <2>3. /\ writer'[c].pc = "write" /\ writer'[c].file = w.file
        /\ writer'[c].key = w.key /\ writer'[c].shared = w.shared
    BY <1>1, <1>3 DEF WriterType
  <2>4. disk[Public] = Missing /\ trusted = Missing
    BY <1>1, <1>8, <2>1 DEF FillOK, AuthorityInv, PublicOK
  <2>5. CASE w.file = 1
    <3>1. disk[Private] = Missing /\ disk'[Private] = Torn /\ disk'[Public] = Missing
      BY <1>1, <1>2, <1>4, <2>1, <2>4, <2>5 DEF FillOK, Private, Public, Types
    <3>2. issued = {}
      BY <1>8, <3>1, Apart DEF AuthorityInv, SignedOK, Types
    <3>3. \A d \in Callers : writer[d].pc # "made"
      BY <1>8, <3>1, Apart DEF AuthorityInv, SignedOK, Types, WriterType
    <3>4. SignedOK'
      BY <1>6, <3>2, <3>3 DEF SignedOK
    <3>5. FillOK(c)'
      BY <1>1, <2>1, <2>3, <2>5, <3>1 DEF FillOK
    <3> QED
      BY <2>2, <2>4, <3>1, <3>4, <3>5, Apart DEF AuthorityInv, Alone, PublicOK
  <2>6. CASE w.file = 2
    <3>1. disk[Private] = w.key /\ disk'[Private] = w.key /\ disk'[Public] = Torn
      BY <1>1, <1>2, <1>4, <2>1, <2>6 DEF FillOK, Private, Public, Types
    <3>2. SignedOK'
      BY <1>6, <1>8, <3>1 DEF AuthorityInv, SignedOK
    <3>3. FillOK(c)'
      BY <1>1, <2>1, <2>3, <2>6, <3>1 DEF FillOK
    <3>4. w.key # Missing
      BY <2>1, Apart DEF FillOK
    <3> QED
      BY <2>2, <2>4, <3>1, <3>2, <3>3, <3>4, Apart DEF AuthorityInv, Alone, PublicOK
  <2> QED
    BY <1>1, <2>5, <2>6
<1> QED
  BY <1>7, <1>8

\* A file gets its content, which is of one generation, and the writer goes on
\* to the next one or is done.
LEMMA WriteStep ==
  ASSUME Types, NEW c \in Callers, Keys!Write(c), UNCHANGED <<issued, trusted, faults>>
  PROVE  Types' /\ (AuthorityInv => AuthorityInv')
<1> DEFINE w == writer[c]
<1> DEFINE f == IF w.file = 1 THEN Private ELSE Public
<1> DEFINE n == IF w.file = 2 THEN Keys!At("made", 2, w.key) ELSE Keys!At("open", 2, w.key)
<1>1. /\ w \in WriterType(made) /\ w.pc = "write" /\ w.file \in {1, 2}
      /\ w.key \in 1 .. made /\ UNCHANGED <<made, overlap>>
  BY DEF Types, WriterType, Keys!Write
<1>2. disk' = [disk EXCEPT ![f] = w.key]
  <2>1. <<"ssh_ca.key", "ssh_ca.pub">>[w.file] = f
    BY <1>1, PairFact
  <2>2. disk' = [disk EXCEPT ![<<"ssh_ca.key", "ssh_ca.pub">>[w.file]] = w.key]
    BY DEF Keys!Write
  <2> QED
    BY <2>1, <2>2
<1>3. writer' = [writer EXCEPT ![c] = n]
  <2>1. CASE w.file = 2
    BY <2>1, PairFact DEF Keys!Write
  <2>2. CASE w.file = 1
    BY <2>2, PairFact DEF Keys!Write
  <2> QED
    BY <1>1, <2>1, <2>2
<1>4. /\ n.pc = (IF w.file = 2 THEN "made" ELSE "open")
      /\ n.file = 2 /\ n.key = w.key /\ n.shared = FALSE /\ n \in WriterType(made)
  BY <1>1 DEF Keys!At, WriterType, Pcs, Types
<1> HIDE DEF n
<1>5. disk' \in [{Private, Public} -> Contents(made)] /\ disk'[f] = w.key
  BY <1>1, <1>2 DEF Types, Contents
<1>6. /\ writer' \in [Callers -> WriterType(made)] /\ writer'[c] = n
      /\ \A d \in Callers \ {c} : writer'[d] = writer[d]
  BY <1>3, <1>4 DEF Types
<1>7. Types'
  <2>1. \A d \in Callers : writer'[d].pc = "found" => disk'[Private] # Missing
    BY <1>1, <1>2, <1>4, <1>5, <1>6, Apart DEF Types
  <2> QED
    BY <1>1, <1>5, <1>6, <2>1 DEF Types
<1>8. ASSUME AuthorityInv PROVE AuthorityInv'
  <2>1. Keys!Filling(c) /\ FillOK(c)
    BY <1>1, <1>8 DEF AuthorityInv, Keys!Filling
  <2>2. \A d \in Callers : Keys!Filling(d)' => d = c
    BY <1>6, <1>8, <2>1 DEF AuthorityInv, Alone, Keys!Filling
  <2>3. CASE w.file = 1
    <3>1. /\ disk[Private] = Torn /\ disk[Public] = Missing /\ trusted = Missing
          /\ disk'[Private] = w.key /\ disk'[Public] = Missing
      BY <1>1, <1>2, <1>5, <1>8, <2>1, <2>3
         DEF FillOK, Private, Public, Types, AuthorityInv, PublicOK
    <3>2. issued = {}
      BY <1>8, <3>1, Apart DEF AuthorityInv, SignedOK, Types
    <3>3. \A d \in Callers : writer[d].pc # "made"
      BY <1>8, <3>1, Apart DEF AuthorityInv, SignedOK, Types, WriterType
    <3>4. SignedOK'
      BY <1>4, <1>6, <2>3, <3>2, <3>3 DEF SignedOK
    <3>5. FillOK(c)'
      BY <1>1, <1>4, <1>6, <2>3, <3>1 DEF FillOK
    <3> QED
      BY <2>2, <3>1, <3>4, <3>5, <1>1, Apart DEF AuthorityInv, Alone, PublicOK
  <2>4. CASE w.file = 2
    <3>1. disk[Private] = w.key /\ disk'[Private] = w.key /\ disk'[Public] = w.key
      BY <1>1, <1>2, <1>5, <2>1, <2>4 DEF FillOK, Private, Public, Types
    <3>2. SignedOK'
      BY <1>4, <1>6, <1>8, <3>1 DEF AuthorityInv, SignedOK
    <3>3. ~Keys!Filling(c)'
      BY <1>4, <1>6, <2>4 DEF Keys!Filling
    <3> QED
      BY <1>1, <1>8, <2>2, <3>1, <3>2, <3>3, Apart DEF AuthorityInv, Alone, PublicOK
  <2> QED
    BY <1>1, <2>3, <2>4
<1> QED
  BY <1>7, <1>8

-----------------------------------------------------------------------------
\* Every step keeps the invariant.
LEMMA NextInv == Inv /\ [Next]_vars => Inv'
<1> SUFFICES ASSUME Inv, [Next]_vars PROVE Inv'
  OBVIOUS
<1>t. Types /\ (~overlap => AuthorityInv)
  BY DEF Inv
<1>k. /\ \A c \in Callers : writer[c] \in WriterType(made)
      /\ writer \in [Callers -> WriterType(made)]
  BY <1>t DEF Types
<1>1. ASSUME NEW c \in Callers, Call(c) PROVE Inv'
  <2>1. writer' = [writer EXCEPT ![c].pc = "check"]
    BY <1>1 DEF Call, Keys!Call
  <2>2. writer' \in [Callers -> WriterType(made)]
    BY <1>k, <2>1 DEF WriterType, Pcs
  <2>3. \A d \in Callers : writer'[d] = writer[d] \/ writer'[d].pc = "check"
    BY <1>k, <2>1 DEF WriterType
  <2>4. UNCHANGED <<disk, made, overlap, issued, trusted>> /\ faults' \in 0 .. MaxFaults
    BY <1>1, <1>t DEF Call, Keys!Call, Types
  <2> QED
    BY <1>t, <2>2, <2>3, <2>4, CalmStep DEF Inv
<1>2. ASSUME NEW c \in Callers, EnsureCAKey(c) PROVE Inv'
  <2>u. UNCHANGED <<issued, trusted, faults>>
    BY <1>2 DEF EnsureCAKey
  <2>1. CASE Keys!Check(c) /\ disk[Private] = Missing
    <3>1. Keys!Draw(c)
      BY <2>1 DEF Keys!Check, Private
    <3>2. overlap => overlap'
      BY <3>1 DEF Keys!Draw
    <3> QED
      BY <1>t, <2>1, <2>u, <3>1, <3>2, DrawStep DEF Inv
  <2>2. CASE Keys!Check(c) /\ disk[Private] # Missing
    <3>1. /\ writer' = [writer EXCEPT ![c].pc = "found"]
          /\ UNCHANGED <<disk, made, overlap>>
      BY <2>2 DEF Keys!Check, Private
    <3>2. writer' \in [Callers -> WriterType(made)]
      BY <1>k, <3>1 DEF WriterType, Pcs
    <3>3. \A d \in Callers : writer'[d] = writer[d] \/ writer'[d].pc = "found"
      BY <1>k, <3>1 DEF WriterType
    <3>4. faults' \in 0 .. MaxFaults
      BY <1>t, <2>u DEF Types
    <3> QED
      BY <1>t, <2>2, <2>u, <3>1, <3>2, <3>3, <3>4, CalmStep DEF Inv
  <2>3. CASE Keys!Open(c)
    BY <1>t, <2>3, <2>u, OpenStep DEF Inv, Keys!Open
  <2>4. CASE Keys!Write(c)
    BY <1>t, <2>4, <2>u, WriteStep DEF Inv, Keys!Write
  <2> QED
    BY <1>2, <2>1, <2>2, <2>3, <2>4 DEF EnsureCAKey, Keys!Step
<1>3. ASSUME NEW c \in Callers, WriteFails(c) PROVE Inv'
  <2>1. Keys!At("error", 1, 0) \in WriterType(made) /\ Keys!At("error", 1, 0).pc = "error"
    BY <1>t DEF Keys!At, WriterType, Pcs, Types
  <2>2. /\ writer' = [writer EXCEPT ![c] = Keys!At("error", 1, 0)]
        /\ UNCHANGED <<disk, made, overlap, issued, trusted>> /\ faults' \in 0 .. MaxFaults
    BY <1>3, <1>t, FaultsType DEF WriteFails, Keys!Fail
  <2>3. /\ writer' \in [Callers -> WriterType(made)]
        /\ \A d \in Callers : writer'[d] = writer[d] \/ writer'[d].pc = "error"
    BY <1>k, <2>1, <2>2
  <2> QED
    BY <1>t, <2>2, <2>3, CalmStep DEF Inv
<1>i. Keys!Idle \in WriterType(made) /\ Keys!Idle.pc = "idle"
  BY <1>t DEF Keys!Idle, Keys!At, WriterType, Pcs, Types
<1>4. ASSUME NEW c \in Callers, Sign(c) PROVE Inv'
  <2>1. /\ writer' = [writer EXCEPT ![c] = Keys!Idle]
        /\ UNCHANGED <<disk, made, overlap, trusted, faults>>
        /\ issued' = issued \/ (Keys!Returned(c) /\ issued' = issued \cup ({KeyOf(c)} \ {Torn}))
    BY <1>4 DEF Sign
  <2>2. /\ writer' \in [Callers -> WriterType(made)]
        /\ \A d \in Callers : writer'[d] = writer[d] \/ writer'[d].pc = "idle"
    BY <1>k, <1>i, <2>1
  <2>3. issued' \subseteq 1 .. made
    <3>1. Keys!Returned(c) => {KeyOf(c)} \ {Torn} \subseteq 1 .. made
      BY <1>t, <1>k DEF Keys!Returned, KeyOf, Types, WriterType, Contents, Private
    <3> QED
      BY <1>t, <2>1, <3>1 DEF Types
  <2>4. Types'
    BY <1>t, <2>1, <2>2, <2>3 DEF Types
  <2>5. ASSUME AuthorityInv PROVE AuthorityInv'
    <3>1. Keys!Returned(c) => KeyOf(c) = disk[Private]
      BY <2>5 DEF Keys!Returned, KeyOf, AuthorityInv, SignedOK, Private
    <3>2. \A g \in issued' : disk'[Private] = g
      BY <2>1, <2>5, <3>1 DEF AuthorityInv, SignedOK
    <3>3. \A d \in Callers : /\ Keys!Filling(d)' => Keys!Filling(d) /\ writer'[d] = writer[d]
                             /\ writer'[d].pc = "made" => writer'[d] = writer[d]
      BY <2>2 DEF Keys!Filling
    <3> QED
      BY <2>1, <2>5, <3>2, <3>3 DEF AuthorityInv, Alone, FillOK, SignedOK, PublicOK
  <2> QED
    BY <1>t, <2>1, <2>4, <2>5 DEF Inv
<1>5. CASE CopyPublic
  <2>1. /\ trusted' = disk[Public] /\ disk[Public] # Missing
        /\ UNCHANGED <<disk, writer, made, overlap, issued, faults>>
    BY <1>5 DEF CopyPublic, Public
  <2>2. Types'
    BY <1>t, <2>1 DEF Types
  <2>3. ASSUME AuthorityInv PROVE AuthorityInv'
    BY <2>1, <2>3 DEF AuthorityInv, Alone, FillOK, SignedOK, PublicOK, Keys!Filling
  <2> QED
    BY <1>t, <2>1, <2>2, <2>3 DEF Inv
<1>6. CASE Restart
  <2>1. /\ writer' = [c \in Callers |-> Keys!Idle]
        /\ UNCHANGED <<disk, made, overlap, issued, trusted>> /\ faults' \in 0 .. MaxFaults
    BY <1>6, <1>t, FaultsType DEF Restart
  <2>2. /\ writer' \in [Callers -> WriterType(made)]
        /\ \A c \in Callers : writer'[c].pc = "idle"
    BY <1>i, <2>1
  <2> QED
    BY <1>t, <2>1, <2>2, CalmStep DEF Inv
<1>7. CASE UNCHANGED vars
  BY <1>7, <1>t
     DEF vars, Inv, Types, AuthorityInv, Alone, FillOK, SignedOK, PublicOK, Keys!Filling
<1> QED
  BY <1>1, <1>2, <1>3, <1>4, <1>5, <1>6, <1>7 DEF Next, CallerStep

\* The invariant holds in every behaviour.
THEOREM Invariance == Spec => []Inv
  BY InitInv, NextInv, PTL DEF Spec

\* Types, for any number of requests: in particular only generations that were
\* drawn are ever signed with, and never a file that was torn or not there.
THEOREM TypeCorrect == Spec => []TypeOK
<1>1. Inv => TypeOK
  BY TypeFact DEF Inv
<1> QED
  BY <1>1, Invariance, PTL

\* Certificates, the private file, the public file and the target's copy are
\* of one key as long as no two callers have made keys at the same time,
\* through any number of restarts and failing writes.
THEOREM OneAuthorityHolds == Spec => []OneAuthority
<1>1. Inv => OneAuthority
  BY DEF Inv, AuthorityInv, SignedOK, PublicOK, OneAuthority, Private, Public
<1> QED
  BY <1>1, Invariance, PTL
=============================================================================
