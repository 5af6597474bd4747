------------------------ MODULE CertDirectoryProofs ------------------------
(***************************************************************************)
(* Theorems about CertDirectory, for any number of agents and APIs, and    *)
(* any number of deaths and failing writes.                                *)
(***************************************************************************)
EXTENDS CertDirectory, SequenceTheorems, TLAPS

Last == "client.crt"
First == {"ca.key", "ca.crt", "server.key", "server.crt", "client.key"}

(***************************************************************************)
(* The type invariant, with the files by name.                             *)
(***************************************************************************)
Pcs == {"idle", "check", "open", "write", "found", "made", "error"}

WriterType(m) == {w \in [pc : Pcs, file : 1 .. 6, key : 0 .. m, shared : BOOLEAN] :
                    w.pc \in {"open", "write"} => w.key # 0}

Contents(m) == {Missing, Torn} \cup 1 .. m

Configs(m) == {NoConfig} \cup [cert : 1 .. m, ca : 1 .. m]

Types ==
    /\ disk \in [First \cup {Last} -> Contents(made)]
    /\ writer \in [Parties -> WriterType(made)]
    /\ made \in Nat
    /\ overlap \in BOOLEAN
    /\ faults \in 0 .. MaxFaults
    /\ reads \in [Parties -> Seq({Torn} \cup 1 .. made)]
    /\ \A p \in Parties : Len(reads[p]) <= 3
    /\ config \in [Parties -> Configs(made)]

(***************************************************************************)
(* The inductive invariant.  As long as no two processes have filled the   *)
(* directory at the same time, whoever fills it has written the files      *)
(* before its present one and not the last; while the last is missing      *)
(* nobody has been told that the files exist, and once it exists the       *)
(* others are of one generation and are not touched again.                 *)
(***************************************************************************)
Settled == \E g \in 1 .. made : /\ \A f \in First : disk[f] = g
                                /\ disk[Last] \in {g, Torn}

FillOK(p) ==
    /\ writer[p].key \in 1 .. made
    /\ ~writer[p].shared
    /\ \A i \in 1 .. 5 : i < writer[p].file => disk[CertFiles[i]] = writer[p].key
    /\ disk[Last] = IF writer[p].file = 6 /\ writer[p].pc = "write" THEN Torn
                                                                  ELSE Missing

Known(p) == Keys!Returned(p) \/ reads[p] # <<>> \/ config[p] # NoConfig

Alone == \A p, q \in Parties : Keys!Filling(p) /\ Keys!Filling(q) => p = q

ReadOK(p) == \A i \in 1 .. Len(reads[p]) : reads[p][i] \in {disk["ca.crt"], Torn}

ConfigOK(p) == config[p] # NoConfig =>
                  config[p].cert = disk["ca.crt"] /\ config[p].ca = disk["ca.crt"]

DirInv ==
    /\ Alone
    /\ \A p \in Parties : Keys!Filling(p) => FillOK(p)
    /\ disk[Last] = Missing \/ Settled
    /\ \A p \in Parties : Known(p) => disk[Last] # Missing
    /\ \A p \in Parties : ReadOK(p) /\ ConfigOK(p)

Inv == Types /\ (~overlap => DirInv)

-----------------------------------------------------------------------------
LEMMA FilesFact ==
    /\ Len(CertFiles) = 6
    /\ CertFiles[1] = "ca.key" /\ CertFiles[2] = "ca.crt"
    /\ CertFiles[3] = "server.key" /\ CertFiles[4] = "server.crt"
    /\ CertFiles[5] = "client.key" /\ CertFiles[6] = "client.crt"
  BY DEF CertFiles

LEMMA NamesFact == Keys!Names = First \cup {Last}
<1>1. ASSUME NEW f \in Keys!Names PROVE f \in First \cup {Last}
  BY FilesFact DEF Keys!Names, First, Last
<1>2. ASSUME NEW f \in First \cup {Last} PROVE f \in Keys!Names
  <2>1. \E i \in 1 .. 6 : f = CertFiles[i]
    BY FilesFact DEF First, Last
  <2> QED BY <2>1, FilesFact DEF Keys!Names
<1> QED BY <1>1, <1>2

-----------------------------------------------------------------------------
LEMMA TypeFact == TypeOK <=> Types
  BY FilesFact, NamesFact
     DEF Types, TypeOK, Keys!TypeOK, Keys!Filling, WriterType, Contents, Configs, Pcs

\* What was of the right type stays so when a generation is drawn.
LEMMA DrawType ==
  ASSUME Types
  PROVE  /\ Contents(made) \subseteq Contents(made + 1)
         /\ WriterType(made) \subseteq WriterType(made + 1)
         /\ Configs(made) \subseteq Configs(made + 1)
         /\ reads \in [Parties -> Seq({Torn} \cup 1 .. (made + 1))]
<1>1. 1 .. made \subseteq 1 .. (made + 1) /\ 0 .. made \subseteq 0 .. (made + 1)
  BY DEF Types
<1>2. reads \in [Parties -> Seq({Torn} \cup 1 .. (made + 1))]
  BY <1>1 DEF Types
<1> QED
  BY <1>1, <1>2 DEF Contents, WriterType, Configs

\* The state of the directory before anything has run.
LEMMA InitInv == Init => Inv
<1> SUFFICES ASSUME Init PROVE Inv
  OBVIOUS
<1>1. Types
  <2>1. disk \in [First \cup {Last} -> Contents(made)]
    BY NamesFact DEF Init, Keys!Init, Contents
  <2>2. made = 0 /\ overlap = FALSE
    BY DEF Init, Keys!Init
  <2>5. Keys!Idle \in WriterType(0)
    BY DEF Keys!Idle, Keys!At, WriterType, Pcs
  <2>6. writer \in [Parties -> WriterType(made)]
    BY <2>2, <2>5 DEF Init, Keys!Init
  <2>3. /\ reads \in [Parties -> Seq({Torn} \cup 1 .. made)]
        /\ \A p \in Parties : Len(reads[p]) <= 3
        /\ config \in [Parties -> Configs(made)]
    BY DEF Init, Configs
  <2>4. faults \in 0 .. MaxFaults
    BY CertAssumption DEF Init
  <2> QED BY <2>1, <2>2, <2>3, <2>4, <2>6 DEF Types
<1>2. DirInv
  <2>1. disk[Last] = Missing
    BY NamesFact DEF Init, Keys!Init
  <2>2. \A p \in Parties : /\ writer[p].pc = "idle"
                           /\ reads[p] = <<>> /\ config[p] = NoConfig
    BY DEF Init, Keys!Init, Keys!Idle, Keys!At
  <2> QED
    BY <2>1, <2>2 DEF DirInv, Alone, Known, ReadOK, ConfigOK,
                      Keys!Filling, Keys!Returned
<1> QED BY <1>1, <1>2 DEF Inv

-----------------------------------------------------------------------------
(***************************************************************************)
(* Types are kept.                                                         *)
(***************************************************************************)
LEMMA FaultsType ==
  ASSUME Types, Fault \/ UNCHANGED faults
  PROVE  faults' \in 0 .. MaxFaults
  BY CertAssumption DEF Types, Fault

\* A step of the writer p that leaves the rest as it was.
LEMMA WriterStepType ==
  ASSUME Types, NEW p \in Parties, UNCHANGED loading, Fault \/ UNCHANGED faults,
         Keys!Call(p) \/ Keys!Step(p) \/ Keys!Fail(p)
  PROVE  Types'
<1> USE DEF Types
<1> DEFINE w == writer[p]
<1>0. /\ faults' \in 0 .. MaxFaults
      /\ w \in WriterType(made)
      /\ reads' = reads /\ config' = config
  BY FaultsType DEF loading
<1>f. w.file \in 1 .. 6 /\ CertFiles[w.file] \in First \cup {Last}
  BY <1>0, FilesFact DEF WriterType, First, Last
<1>1. CASE Keys!Call(p)
  <2>1. writer' \in [Parties -> WriterType(made)]
    BY <1>1 DEF Keys!Call, WriterType, Pcs
  <2> QED BY <1>0, <1>1, <2>1 DEF Keys!Call
<1>2. CASE Keys!Check(p)
  <2>1. CASE Keys!Draw(p)
    <3>1. made' = made + 1 /\ made' \in Nat /\ overlap' \in BOOLEAN /\ disk' = disk
      BY <2>1 DEF Keys!Draw
    <3>2. Keys!At("open", 1, made') \in WriterType(made')
      BY <3>1 DEF Keys!At, WriterType, Pcs
    <3>3. writer' \in [Parties -> WriterType(made')]
      BY <2>1, <3>1, <3>2, DrawType DEF Keys!Draw
    <3> QED
      BY <1>0, <3>1, <3>3, DrawType
  <2>2. CASE /\ writer[p].pc = "check" /\ UNCHANGED <<disk, made, overlap>>
             /\ writer' = [writer EXCEPT ![p].pc = "found"]
    <3>1. writer' \in [Parties -> WriterType(made)]
      BY <2>2 DEF WriterType, Pcs
    <3> QED BY <1>0, <2>2, <3>1
  <2> QED BY <1>2, <2>1, <2>2 DEF Keys!Check
<1>3. CASE Keys!Open(p)
  <2>1. disk' \in [First \cup {Last} -> Contents(made)]
    BY <1>3, <1>f DEF Keys!Open, Contents
  <2>2. writer' \in [Parties -> WriterType(made)]
    <3>1. [w EXCEPT !.pc = "write"] \in WriterType(made)
      BY <1>0, <1>3 DEF Keys!Open, WriterType, Pcs
    <3>2. ASSUME NEW v \in Parties PROVE [writer[v] EXCEPT !.shared = TRUE] \in WriterType(made)
      <4>1. writer[v] \in WriterType(made)
        OBVIOUS
      <4> QED BY <4>1 DEF WriterType
    <3> HIDE DEF Types
    <3>3. writer \in [Parties -> WriterType(made)]
      BY DEF Types
    <3> QED BY <1>3, <3>1, <3>2, <3>3 DEF Keys!Open
  <2> QED BY <1>0, <1>3, <2>1, <2>2 DEF Keys!Open
<1>4. CASE Keys!Write(p)
  <2>1. disk' \in [First \cup {Last} -> Contents(made)]
    <3>1. w.key \in Contents(made) /\ Torn \in Contents(made)
      BY <1>0, <1>4 DEF Keys!Write, WriterType, Contents
    <3> QED BY <1>4, <1>f, <3>1 DEF Keys!Write
  <2>2. writer' \in [Parties -> WriterType(made)]
    <3>1. /\ w.pc = "write" /\ w.key \in 1 .. made
      BY <1>0, <1>4 DEF Keys!Write, WriterType
    <3>2. /\ Keys!At("made", w.file, w.key) \in WriterType(made)
          /\ w.file # 6 => Keys!At("open", w.file + 1, w.key) \in WriterType(made)
      BY <1>f, <3>1 DEF Keys!At, WriterType, Pcs
    <3> QED BY <1>4, <3>2, FilesFact DEF Keys!Write
  <2> QED BY <1>0, <1>4, <2>1, <2>2 DEF Keys!Write
<1>5. CASE Keys!Fail(p)
  <2>1. Keys!At("error", 1, 0) \in WriterType(made)
    BY DEF Keys!At, WriterType, Pcs
  <2>2. writer' \in [Parties -> WriterType(made)]
    BY <1>5, <2>1 DEF Keys!Fail
  <2> QED BY <1>0, <1>5, <2>2 DEF Keys!Fail
<1> QED
  BY <1>1, <1>2, <1>3, <1>4, <1>5 DEF Keys!Step

\* What a process reads of the directory.
LEMMA LoadFact ==
  ASSUME Types, NEW p \in Parties, Len(reads[p]) < 3
  PROVE  /\ NextFile(p) \in Contents(made)
         /\ NextFile(p) \in {disk[f] : f \in First \cup {Last}}
         /\ p \notin Agents /\ reads[p] = <<>> => NextFile(p) = disk[Last]
         /\ reads'[p] = Append(reads[p], NextFile(p)) => reads'[p] # <<>>
<1>1. Len(reads[p]) + 1 \in 1 .. 3
  BY DEF Types
<1>2. \A i \in 1 .. 3 : LoadOrder(p)[i] \in First \cup {Last}
  BY DEF LoadOrder, First, Last
<1>3. p \notin Agents => LoadOrder(p)[1] = Last
  BY DEF LoadOrder, Last
<1>4. Append(reads[p], NextFile(p)) # <<>>
  BY DEF Types
<1> QED
  BY <1>1, <1>2, <1>3, <1>4 DEF NextFile, Types

\* A process ends.
LEMMA EndsType ==
  ASSUME Types, NEW p \in Parties, Ends(p), Fault \/ UNCHANGED faults
  PROVE  Types'
<1> USE DEF Types
<1>1. faults' \in 0 .. MaxFaults
  BY FaultsType
<1>2. Keys!Idle \in WriterType(made)
  BY DEF Keys!Idle, Keys!At, WriterType, Pcs
<1>3. writer' \in [Parties -> WriterType(made)]
  BY <1>2 DEF Ends
<1>4. /\ reads' \in [Parties -> Seq({Torn} \cup 1 .. made)]
      /\ \A q \in Parties : Len(reads'[q]) <= 3
  BY DEF Ends
<1>5. config' \in [Parties -> Configs(made)]
  BY DEF Ends, Configs
<1> QED
  BY <1>1, <1>3, <1>4, <1>5 DEF Ends

\* A process loads its files.
LEMMA LoadType ==
  ASSUME Types, NEW p \in Parties, ReadFile(p) \/ Configure(p) \/ LoadFails(p)
  PROVE  Types'
<1> USE DEF Types
<1>1. CASE ReadFile(p)
  <2>1. NextFile(p) \in {Torn} \cup 1 .. made
    BY <1>1, LoadFact DEF ReadFile, Contents
  <2>2. /\ reads' \in [Parties -> Seq({Torn} \cup 1 .. made)]
        /\ \A q \in Parties : Len(reads'[q]) <= 3
    BY <1>1, <2>1 DEF ReadFile
  <2> QED BY <1>1, <2>2 DEF ReadFile
<1>2. CASE Configure(p)
  <2>1. reads[p][1] \in 1 .. made /\ reads[p][3] \in 1 .. made
    <3>1. /\ reads[p] \in Seq({Torn} \cup 1 .. made) /\ Len(reads[p]) = 3
          /\ reads[p][1] # Torn /\ reads[p][3] # Torn
      BY <1>2 DEF Configure, Usable
    <3>2. \A i \in 1 .. 3 : reads[p][i] \in {Torn} \cup 1 .. made
      BY <3>1, ElementOfSeq
    <3> QED BY <3>1, <3>2
  <2>2. config' \in [Parties -> Configs(made)]
    BY <1>2, <2>1 DEF Configure, Configs
  <2>3. /\ reads' \in [Parties -> Seq({Torn} \cup 1 .. made)]
        /\ \A q \in Parties : Len(reads'[q]) <= 3
    BY <1>2 DEF Configure
  <2> QED BY <1>2, <2>2, <2>3 DEF Configure
<1>3. CASE LoadFails(p)
  <2>1. CASE p \in Agents
    BY <1>3, <2>1, EndsType DEF LoadFails
  <2>2. CASE p \notin Agents
    <3>1. reads' = [reads EXCEPT ![p] = <<>>]
      BY <1>3, <2>2 DEF LoadFails
    <3>2. /\ reads' \in [Parties -> Seq({Torn} \cup 1 .. made)]
          /\ \A q \in Parties : Len(reads'[q]) <= 3
      BY <3>1
    <3> QED BY <1>3, <2>2, <3>2 DEF LoadFails
  <2> QED BY <2>1, <2>2
<1> QED
  BY <1>1, <1>2, <1>3

-----------------------------------------------------------------------------
(***************************************************************************)
(* The directory is kept in order.                                         *)
(***************************************************************************)
MarkFiles == {"ca.crt", "server.crt", "client.crt"}

\* Once the last file exists every mark does, and no file is missing.
LEMMA SettledMarks ==
  ASSUME Types, Settled
  PROVE  /\ \A f \in First \cup {Last} : disk[f] # Missing
         /\ \A f \in First : disk[f] = disk["ca.crt"]
         /\ disk[Last] \in {disk["ca.crt"], Torn}
<1>1. PICK g \in 1 .. made : /\ \A f \in First : disk[f] = g
                             /\ disk[Last] \in {g, Torn}
  BY DEF Settled
<1>2. "ca.crt" \in First /\ Torn # Missing
  BY CertAssumption DEF First
<1>3. g # Missing
  <2>1. g \in Nat /\ Missing \notin Nat
    BY CertAssumption DEF Types
  <2> QED BY <2>1
<1> QED
  BY <1>1, <1>2, <1>3

\* A change of the writers alone that begins no filling.
LEMMA CalmStep ==
  ASSUME Types, DirInv, UNCHANGED <<disk, made>>,
         \A q \in Parties : Keys!Filling(q)' => Keys!Filling(q) /\ writer'[q] = writer[q],
         \A q \in Parties : Known(q)' => Known(q) \/ disk[Last] # Missing,
         \A q \in Parties : ReadOK(q)' /\ ConfigOK(q)'
  PROVE  DirInv'
<1>1. Alone'
  BY DEF DirInv, Alone
<1>2. \A q \in Parties : Keys!Filling(q)' => FillOK(q)'
  BY DEF DirInv, FillOK
<1>3. disk'[Last] = Missing \/ Settled'
  BY DEF DirInv, Settled
<1>4. \A q \in Parties : Known(q)' => disk'[Last] # Missing
  BY DEF DirInv
<1> QED
  BY <1>1, <1>2, <1>3, <1>4 DEF DirInv

\* A start: nothing is read or filled yet.
LEMMA CallDir ==
  ASSUME Types, DirInv, NEW p \in Parties, Keys!Call(p), UNCHANGED loading
  PROVE  DirInv'
<1>1. /\ writer[p].pc = "idle" /\ writer'[p].pc = "check"
      /\ \A q \in Parties \ {p} : writer'[q] = writer[q]
  BY DEF Keys!Call, Types, WriterType
<1>2. UNCHANGED <<disk, made, reads, config>>
  BY DEF Keys!Call, loading
<1> QED
  BY <1>1, <1>2, CalmStep
     DEF DirInv, Keys!Filling, Known, Keys!Returned, ReadOK, ConfigOK

\* The marks are there, or a new generation is drawn while nobody fills the
\* directory and nobody knows of it.
LEMMA CheckDir ==
  ASSUME Types, DirInv, NEW p \in Parties, Keys!Check(p), UNCHANGED loading, ~overlap'
  PROVE  DirInv'
<1>u. UNCHANGED <<disk, reads, config>>
  BY DEF Keys!Check, Keys!Draw, loading
<1>1. CASE \A f \in MarkFiles : disk[f] # Missing
  <2>1. /\ writer[p].pc = "check" /\ writer'[p].pc = "found" /\ made' = made
        /\ \A q \in Parties \ {p} : writer'[q] = writer[q]
    BY <1>1 DEF Keys!Check, MarkFiles, Types, WriterType
  <2>2. disk[Last] # Missing
    BY <1>1 DEF MarkFiles, Last
  <2> QED
    BY <1>u, <2>1, <2>2, CalmStep
       DEF DirInv, Keys!Filling, Known, Keys!Returned, ReadOK, ConfigOK
<1>2. CASE ~(\A f \in MarkFiles : disk[f] # Missing)
  <2>1. Keys!Draw(p) /\ writer[p].pc = "check"
    BY <1>2 DEF Keys!Check, MarkFiles
  <2>2. /\ made' = made + 1 /\ made \in Nat
        /\ writer'[p] = Keys!At("open", 1, made + 1)
        /\ \A q \in Parties \ {p} : writer'[q] = writer[q] /\ ~Keys!Filling(q)
    BY <2>1 DEF Keys!Draw, Types
  <2>3. disk[Last] = Missing
    BY <1>2, SettledMarks DEF DirInv, MarkFiles, First, Last
  <2>4. Keys!Filling(p)' /\ \A q \in Parties \ {p} : ~Keys!Filling(q)'
    BY <2>2 DEF Keys!Filling, Keys!At
  <2>5. Alone'
    BY <2>4 DEF Alone
  <2>6. FillOK(p)'
    BY <1>u, <2>2, <2>3 DEF FillOK, Keys!At
  <2>7. \A q \in Parties : Known(q)' => disk'[Last] # Missing
    BY <1>u, <2>1, <2>2 DEF DirInv, Known, Keys!Returned, Keys!At
  <2> QED
    BY <1>u, <2>3, <2>4, <2>5, <2>6, <2>7 DEF DirInv, ReadOK, ConfigOK
<1> QED
  BY <1>1, <1>2

\* While a process fills the directory and has not opened the last file,
\* nobody knows of any file.
LEMMA NobodyKnows ==
  ASSUME Types, DirInv, disk[Last] = Missing
  PROVE  \A q \in Parties : /\ ~Keys!Returned(q)
                            /\ reads[q] = <<>>
                            /\ config[q] = NoConfig
  BY DEF DirInv, Known

\* The next file is emptied.
LEMMA OpenDir ==
  ASSUME Types, DirInv, NEW p \in Parties, Keys!Open(p), UNCHANGED loading
  PROVE  DirInv'
<1> DEFINE k == writer[p].file
<1>1. /\ writer[p].pc = "open" /\ k \in 1 .. 6
      /\ made' = made /\ reads' = reads /\ config' = config
      /\ disk' = [disk EXCEPT ![CertFiles[k]] = Torn]
  BY DEF Keys!Open, Types, WriterType, loading
<1>2. FillOK(p) /\ \A q \in Parties \ {p} : ~Keys!Filling(q)
  BY <1>1 DEF DirInv, Alone, Keys!Filling
<1>3. /\ writer'[p] = [writer[p] EXCEPT !.pc = "write"]
      /\ \A q \in Parties \ {p} : writer'[q] = writer[q]
  BY <1>2 DEF Keys!Open, Keys!Filling
<1>4. /\ writer'[p].pc = "write" /\ writer'[p].file = k
      /\ writer'[p].key = writer[p].key /\ ~writer'[p].shared
  BY <1>2, <1>3 DEF FillOK, Types, WriterType
<1>5. disk[Last] = Missing /\ disk \in [First \cup {Last} -> Contents(made)]
  BY <1>1, <1>2 DEF FillOK, Types
<1>6. \A q \in Parties : /\ ~Keys!Returned(q)
                         /\ reads[q] = <<>> /\ config[q] = NoConfig
  BY <1>5, NobodyKnows
<1>7. \A i \in 1 .. 5 : i < k => disk'[CertFiles[i]] = writer[p].key
  <2> SUFFICES ASSUME NEW i \in 1 .. 5, i < k
               PROVE  disk'[CertFiles[i]] = writer[p].key
    OBVIOUS
  <2>1. CertFiles[i] \in First \cup {Last} /\ CertFiles[i] # CertFiles[k]
    BY <1>1, FilesFact DEF First
  <2>2. disk[CertFiles[i]] = writer[p].key
    BY <1>2 DEF FillOK
  <2> QED BY <1>1, <1>5, <2>1, <2>2
<1>8. disk'[Last] = IF k = 6 THEN Torn ELSE Missing
  <2>1. CertFiles[k] = Last <=> k = 6
    BY <1>1, FilesFact DEF Last
  <2> QED BY <1>1, <1>5, <2>1
<1>9. FillOK(p)'
  BY <1>1, <1>2, <1>4, <1>7, <1>8 DEF FillOK
<1>10. disk'[Last] = Missing \/ Settled'
  <2>1. CASE k = 6
    <3>1. \A f \in First : disk'[f] = writer[p].key
      BY <1>7, <2>1, FilesFact DEF First
    <3> QED BY <1>1, <1>2, <1>8, <2>1, <3>1 DEF Settled, FillOK
  <2>2. CASE k # 6
    BY <1>8, <2>2
  <2> QED BY <2>1, <2>2
<1>11. Alone' /\ \A q \in Parties : Keys!Filling(q)' => q = p
  BY <1>2, <1>3 DEF Alone, Keys!Filling
<1>12. \A q \in Parties : ~Known(q)' /\ ReadOK(q)' /\ ConfigOK(q)'
  <2>1. \A q \in Parties \ {p} : writer'[q] = writer[q]
    BY <1>3
  <2> QED BY <1>1, <1>4, <1>6, <2>1 DEF Known, Keys!Returned, ReadOK, ConfigOK
<1> QED
  BY <1>9, <1>10, <1>11, <1>12 DEF DirInv

\* The opened file gets its content.
LEMMA WriteDir ==
  ASSUME Types, DirInv, NEW p \in Parties, Keys!Write(p), UNCHANGED loading
  PROVE  DirInv'
<1> DEFINE k == writer[p].file
           g == writer[p].key
<1>1. /\ writer[p].pc = "write" /\ k \in 1 .. 6 /\ Keys!Filling(p)
      /\ made' = made /\ reads' = reads /\ config' = config
  BY DEF Keys!Write, Types, WriterType, loading, Keys!Filling
<1>2. FillOK(p) /\ \A q \in Parties \ {p} : ~Keys!Filling(q)
  BY <1>1 DEF DirInv, Alone
<1>3. disk' = [disk EXCEPT ![CertFiles[k]] = g]
  BY <1>2 DEF Keys!Write, FillOK
<1>4. /\ writer'[p] = IF k = 6 THEN Keys!At("made", k, g)
                               ELSE Keys!At("open", k + 1, g)
      /\ \A q \in Parties \ {p} : writer'[q] = writer[q]
  BY FilesFact DEF Keys!Write, Types
<1>5. disk \in [First \cup {Last} -> Contents(made)]
  BY DEF Types
<1>6. \A i \in 1 .. 5 : i <= k => disk'[CertFiles[i]] = g
  <2> SUFFICES ASSUME NEW i \in 1 .. 5, i <= k PROVE disk'[CertFiles[i]] = g
    OBVIOUS
  <2>1. CertFiles[i] \in First \cup {Last} /\ (i # k => CertFiles[i] # CertFiles[k])
    BY <1>1, FilesFact DEF First
  <2>2. i # k => disk[CertFiles[i]] = g
    BY <1>1, <1>2 DEF FillOK
  <2> QED BY <1>3, <1>5, <2>1, <2>2
<1>7. Alone' /\ \A q \in Parties : Keys!Filling(q)' => q = p
  BY <1>2, <1>4 DEF Alone, Keys!Filling
<1>8. CASE k # 6
  <2>1. disk[Last] = Missing /\ disk'[Last] = Missing
    <3>1. CertFiles[k] # Last
      BY <1>1, <1>8, FilesFact DEF Last
    <3> QED BY <1>2, <1>3, <1>5, <1>8, <3>1 DEF FillOK
  <2>2. \A q \in Parties : /\ ~Keys!Returned(q)
                           /\ reads[q] = <<>> /\ config[q] = NoConfig
    BY <2>1, NobodyKnows
  <2>3. /\ writer'[p].pc = "open" /\ writer'[p].file = k + 1
        /\ writer'[p].key = g /\ ~writer'[p].shared
    BY <1>4, <1>8 DEF Keys!At
  <2>4. FillOK(p)'
    BY <1>1, <1>2, <1>6, <2>1, <2>3 DEF FillOK
  <2>5. \A q \in Parties : ~Known(q)' /\ ReadOK(q)' /\ ConfigOK(q)'
    BY <1>1, <1>4, <2>2, <2>3 DEF Known, Keys!Returned, ReadOK, ConfigOK
  <2> QED
    BY <1>7, <2>1, <2>4, <2>5 DEF DirInv
<1>9. CASE k = 6
  <2>1. CertFiles[k] = Last /\ Last \notin First /\ "ca.crt" \in First
    BY <1>9, FilesFact DEF Last, First
  <2>2. disk'[Last] = g /\ \A f \in First : disk'[f] = disk[f]
    BY <1>3, <1>5, <2>1
  <2>3. \A f \in First : disk'[f] = g
    BY <1>6, <1>9, FilesFact DEF First
  <2>4. g \in 1 .. made
    BY <1>2 DEF FillOK
  <2>5. Settled'
    BY <1>1, <2>2, <2>3, <2>4 DEF Settled
  <2>6. disk'[Last] # Missing
    <3>1. g \in Nat /\ Missing \notin Nat
      BY <2>4, CertAssumption DEF Types
    <3> QED BY <2>2, <3>1
  <2>7. ~Keys!Filling(p)'
    BY <1>4, <1>9 DEF Keys!Filling, Keys!At
  <2>8. \A q \in Parties : ReadOK(q)' /\ ConfigOK(q)'
    BY <1>1, <2>1, <2>2 DEF DirInv, ReadOK, ConfigOK
  <2> QED
    BY <1>7, <2>5, <2>6, <2>7, <2>8 DEF DirInv
<1> QED
  BY <1>8, <1>9

\* A filling that fails leaves what it has written.
LEMMA FailDir ==
  ASSUME Types, DirInv, NEW p \in Parties, Keys!Fail(p), UNCHANGED loading
  PROVE  DirInv'
<1>1. /\ writer'[p].pc = "error"
      /\ \A q \in Parties \ {p} : writer'[q] = writer[q]
  BY DEF Keys!Fail, Keys!At, Types
<1>2. UNCHANGED <<disk, made, reads, config>>
  BY DEF Keys!Fail, loading
<1> QED
  BY <1>1, <1>2, CalmStep
     DEF DirInv, Keys!Filling, Known, Keys!Returned, ReadOK, ConfigOK

\* A process that ends leaves the files and forgets what it has read.
LEMMA EndsDir ==
  ASSUME Types, DirInv, NEW p \in Parties, Ends(p)
  PROVE  DirInv'
<1>1. /\ writer'[p].pc = "idle" /\ reads'[p] = <<>> /\ config'[p] = NoConfig
      /\ \A q \in Parties \ {p} : /\ writer'[q] = writer[q]
                                  /\ reads'[q] = reads[q]
                                  /\ config'[q] = config[q]
  BY DEF Ends, Keys!Idle, Keys!At, Types
<1>2. UNCHANGED <<disk, made>>
  BY DEF Ends
<1>3. \A q \in Parties : ReadOK(q)' /\ ConfigOK(q)'
  BY <1>1, <1>2 DEF DirInv, ReadOK, ConfigOK
<1>4. \A q \in Parties : Known(q)' => Known(q)
  BY <1>1 DEF Known, Keys!Returned
<1>5. \A q \in Parties : Keys!Filling(q)' => Keys!Filling(q) /\ writer'[q] = writer[q]
  BY <1>1 DEF Keys!Filling
<1> QED
  BY <1>2, <1>3, <1>4, <1>5, CalmStep

\* What is read is of the generation of the directory, or torn.
LEMMA ReadDir ==
  ASSUME Types, DirInv, NEW p \in Parties, ReadFile(p)
  PROVE  DirInv'
<1> DEFINE n == NextFile(p)
<1>1. /\ UNCHANGED <<disk, writer, made, config>>
      /\ MayLoad(p) /\ Len(reads[p]) < 3 /\ n # Missing
      /\ reads'[p] = Append(reads[p], n)
      /\ \A q \in Parties \ {p} : reads'[q] = reads[q]
  BY DEF ReadFile, Types
<1>2. disk[Last] # Missing
  <2>1. CASE Known(p)
    BY <2>1 DEF DirInv
  <2>2. CASE ~Known(p)
    BY <1>1, <2>2, LoadFact, CertAssumption DEF Known, MayLoad
  <2> QED BY <2>1, <2>2
<1>3. n \in {disk["ca.crt"], Torn}
  <2>1. Settled
    BY <1>2 DEF DirInv
  <2>2. n \in {disk[f] : f \in First \cup {Last}}
    BY <1>1, LoadFact
  <2> QED BY <2>1, <2>2, SettledMarks
<1>4. ReadOK(p)'
  <2>1. reads[p] \in Seq({Torn} \cup 1 .. made)
    BY DEF Types
  <2>2. ReadOK(p)
    BY DEF DirInv
  <2> QED BY <1>1, <1>3, <2>1, <2>2 DEF ReadOK
<1>5. \A q \in Parties : ReadOK(q)' /\ ConfigOK(q)'
  <2>1. \A q \in Parties : ConfigOK(q)'
    BY <1>1 DEF DirInv, ConfigOK
  <2>2. \A q \in Parties \ {p} : ReadOK(q)'
    BY <1>1 DEF DirInv, ReadOK
  <2> QED BY <1>4, <2>1, <2>2
<1> QED
  BY <1>1, <1>2, <1>5, CalmStep DEF Keys!Filling

\* A configuration that is taken into use is of that generation.
LEMMA ConfigureDir ==
  ASSUME Types, DirInv, NEW p \in Parties, Configure(p)
  PROVE  DirInv'
<1>1. /\ UNCHANGED <<disk, writer, made>>
      /\ Len(reads[p]) = 3 /\ Usable(reads[p])
      /\ reads'[p] = <<>>
      /\ config'[p] = [cert |-> reads[p][1], ca |-> reads[p][3]]
      /\ \A q \in Parties \ {p} : reads'[q] = reads[q] /\ config'[q] = config[q]
  BY DEF Configure, Types
<1>2. reads[p][1] = disk["ca.crt"] /\ reads[p][3] = disk["ca.crt"]
  BY <1>1 DEF DirInv, ReadOK, Usable
<1>3. reads[p] # <<>>
  BY <1>1
<1>4. \A q \in Parties : Known(q)' => Known(q)
  BY <1>1, <1>3 DEF Known, Keys!Returned
<1>5. \A q \in Parties : ReadOK(q)' /\ ConfigOK(q)'
  BY <1>1, <1>2 DEF DirInv, ReadOK, ConfigOK
<1> QED
  BY <1>1, <1>4, <1>5, CalmStep DEF Keys!Filling

\* Loading, whatever comes of it.
LEMMA LoadDir ==
  ASSUME Types, DirInv, NEW p \in Parties, ReadFile(p) \/ Configure(p) \/ LoadFails(p)
  PROVE  DirInv'
<1>1. CASE LoadFails(p) /\ p \notin Agents
  <2>1. /\ UNCHANGED <<disk, writer, made, config>> /\ reads'[p] = <<>>
        /\ \A q \in Parties \ {p} : reads'[q] = reads[q]
    BY <1>1 DEF LoadFails, Types
  <2>2. \A q \in Parties : ReadOK(q)' /\ ConfigOK(q)'
    BY <2>1 DEF DirInv, ReadOK, ConfigOK
  <2>3. \A q \in Parties : Known(q)' => Known(q)
    BY <2>1 DEF Known, Keys!Returned
  <2> QED BY <2>1, <2>2, <2>3, CalmStep DEF Keys!Filling
<1>2. CASE LoadFails(p) /\ p \in Agents
  BY <1>2, EndsDir DEF LoadFails
<1> QED
  BY <1>1, <1>2, ReadDir, ConfigureDir

-----------------------------------------------------------------------------
(***************************************************************************)
(* The invariant, and what follows from it.                                *)
(***************************************************************************)

\* Every step of Next keeps the invariant.
LEMMA NextInv == Inv /\ [Next]_vars => Inv'
<1> SUFFICES ASSUME Inv, [Next]_vars PROVE Inv'
  OBVIOUS
<1>t. Types /\ (~overlap => DirInv)
  BY DEF Inv
<1>1. CASE UNCHANGED vars
  BY <1>1, <1>t DEF vars, Inv, Types, DirInv, Alone, FillOK, Settled, Known, ReadOK,
                    ConfigOK, Keys!Filling, Keys!Returned
<1>2. ASSUME NEW p \in Parties, UNCHANGED loading, Fault \/ UNCHANGED faults,
             Keys!Call(p) \/ Keys!Step(p) \/ Keys!Fail(p)
      PROVE  Inv'
  <2>1. Types'
    BY <1>t, <1>2, WriterStepType
  <2>2. ASSUME ~overlap' PROVE DirInv'
    <3>1. ~overlap
      BY <1>2, <2>2 DEF Keys!Call, Keys!Step, Keys!Fail, Keys!Check, Keys!Draw,
                        Keys!Open, Keys!Write
    <3> QED
      BY <1>t, <1>2, <2>2, <3>1, CallDir, CheckDir, OpenDir, WriteDir, FailDir
         DEF Keys!Step
  <2> QED BY <2>1, <2>2 DEF Inv
<1>3. ASSUME NEW p \in Parties, Ends(p), Fault \/ UNCHANGED faults
      PROVE  Inv'
  <2>1. overlap' = overlap
    BY <1>3 DEF Ends
  <2> QED BY <1>t, <1>3, <2>1, EndsType, EndsDir DEF Inv
<1>4. ASSUME NEW p \in Parties, ReadFile(p) \/ Configure(p) \/ LoadFails(p)
      PROVE  Inv'
  <2>1. overlap' = overlap
    BY <1>4 DEF ReadFile, Configure, LoadFails, Ends
  <2> QED BY <1>t, <1>4, <2>1, LoadType, LoadDir DEF Inv
<1>5. CASE Next
  <2>1. PICK p \in Parties : ProcessStep(p) \/ WriteFails(p) \/ Dies(p)
    BY <1>5 DEF Next
  <2>2. CASE Start(p)
    BY <1>2, <2>2 DEF Start
  <2>3. CASE GenerateKeysAndCerts(p)
    BY <1>2, <2>3 DEF GenerateKeysAndCerts
  <2>4. CASE WriteFails(p)
    BY <1>2, <2>4 DEF WriteFails
  <2>5. CASE Exits(p)
    BY <1>3, <2>5 DEF Exits
  <2>6. CASE Dies(p)
    BY <1>3, <2>6 DEF Dies
  <2>7. CASE ReadFile(p) \/ Configure(p) \/ LoadFails(p)
    BY <1>4, <2>7
  <2> QED
    BY <2>1, <2>2, <2>3, <2>4, <2>5, <2>6, <2>7 DEF ProcessStep
<1> QED
  BY <1>1, <1>5

\* The inductive invariant holds in every reachable state.
THEOREM Invariance == Spec => []Inv
  BY InitInv, NextInv, PTL DEF Spec

\* Every variable keeps its type.
THEOREM TypeCorrect == Spec => []TypeOK
<1>1. Inv => TypeOK
  BY TypeFact DEF Inv
<1> QED
  BY <1>1, Invariance, PTL

\* Whoever is told that the files exist finds them of one generation
\* (mtls.go:31-34), though earlier writers died or failed at any point.
THEOREM OneGenerationHolds == Spec => []OneGeneration
<1>1. Inv => OneGeneration
  <2> SUFFICES ASSUME Inv, ~overlap, NEW p \in Parties, Keys!Returned(p)
               PROVE  \E g \in 1 .. made :
                         /\ \A f \in Keys!Names \ {"client.crt"} : disk[f] = g
                         /\ disk["client.crt"] \in {g, Torn}
    BY DEF OneGeneration
  <2>1. Settled
    BY DEF Inv, DirInv, Known
  <2> QED BY <2>1, NamesFact DEF Settled, Last
<1> QED
  BY <1>1, Invariance, PTL

\* The agent and the API accept each other's certificate (README.md:186).
THEOREM PeersAgreeHolds == Spec => []PeersAgree
<1>1. Inv => PeersAgree
  <2> SUFFICES ASSUME Inv, ~overlap, NEW a \in Agents, NEW b \in Apis,
                      config[a] # NoConfig, config[b] # NoConfig
               PROVE  config[a].ca = config[b].cert /\ config[b].ca = config[a].cert
    BY DEF PeersAgree
  <2>1. ConfigOK(a) /\ ConfigOK(b)
    BY DEF Inv, DirInv, Parties
  <2> QED BY <2>1 DEF ConfigOK
<1> QED
  BY <1>1, Invariance, PTL

\* Complete files are never written again.
THEOREM KeysAreKeptHolds == Spec => KeysAreKept
<1>1. Inv /\ [Next]_vars => [(Keys!Complete /\ ~overlap) => UNCHANGED disk]_vars
  <2> SUFFICES ASSUME Inv, Next, Keys!Complete, ~overlap PROVE UNCHANGED disk
    OBVIOUS
  <2>1. disk[Last] # Missing /\ disk[Last] # Torn
    <3>1. PICK g \in 1 .. made : \A f \in Keys!Names : disk[f] = g
      BY DEF Keys!Complete
    <3>2. disk[Last] = g
      BY <3>1, NamesFact
    <3>3. g \in Nat /\ Missing \notin Nat /\ Torn \notin Nat
      BY CertAssumption DEF Inv, Types
    <3> QED BY <3>2, <3>3
  <2>2. \A p \in Parties : ~Keys!Filling(p)
    BY <2>1 DEF Inv, DirInv, FillOK
  <2>3. \A p \in Parties : ~Keys!Open(p) /\ ~Keys!Write(p)
    BY <2>2 DEF Keys!Open, Keys!Write, Keys!Filling
  <2> QED
    BY <2>3 DEF Next, ProcessStep, Start, GenerateKeysAndCerts, WriteFails, Dies, Exits,
                Ends, ReadFile, Configure, LoadFails, Keys!Call, Keys!Step, Keys!Check,
                Keys!Draw, Keys!Fail
<1> QED
  BY <1>1, Invariance, PTL DEF Spec, KeysAreKept

(***************************************************************************)
(* What holds without a condition on overlap.  The directory is at rest    *)
(* when the marks exist and nobody is filling it.                          *)
(***************************************************************************)
AtRest == /\ \A f \in MarkFiles : disk[f] # Missing
          /\ \A p \in Parties : ~Keys!Filling(p)

\* A process moves to a state in which it does not fill the directory.
LEMMA NobodyBegins ==
  ASSUME AtRest, NEW p \in Parties, Types, UNCHANGED disk,
         \A q \in Parties \ {p} : writer'[q] = writer[q],
         ~Keys!Filling(p)'
  PROVE  AtRest'
  BY DEF AtRest, Keys!Filling

\* Whatever the files at rest hold, also a mixture of generations or a torn
\* file that two writers or a crash left, no step of any process writes to them
\* again or draws other keys: restarts do not repair them (mtls.go:31-34 looks
\* only at whether the certificates exist).
THEOREM NothingIsRepaired == Spec => [][AtRest => AtRest' /\ UNCHANGED <<disk, made>>]_vars
<1>1. Inv /\ [Next]_vars => [AtRest => AtRest' /\ UNCHANGED <<disk, made>>]_vars
  <2> SUFFICES ASSUME Inv, Next, AtRest PROVE AtRest' /\ UNCHANGED <<disk, made>>
    OBVIOUS
  <2>t. Types
    BY DEF Inv
  <2>1. PICK p \in Parties : ProcessStep(p) \/ WriteFails(p) \/ Dies(p)
    BY DEF Next
  <2>2. ~Keys!Open(p) /\ ~Keys!Write(p)
    BY DEF AtRest, Keys!Open, Keys!Write, Keys!Filling
  <2>3. CASE Keys!Call(p)
    <3>1. /\ writer'[p].pc = "check" /\ UNCHANGED <<disk, made>>
          /\ \A q \in Parties \ {p} : writer'[q] = writer[q]
      BY <2>t, <2>3 DEF Keys!Call, Types, WriterType
    <3> QED BY <2>t, <3>1, NobodyBegins DEF Keys!Filling
  <2>4. CASE Keys!Check(p)
    <3>1. /\ writer'[p].pc = "found" /\ UNCHANGED <<disk, made>>
          /\ \A q \in Parties \ {p} : writer'[q] = writer[q]
      BY <2>t, <2>4 DEF Keys!Check, AtRest, MarkFiles, Types, WriterType
    <3> QED BY <2>t, <3>1, NobodyBegins DEF Keys!Filling
  <2>5. CASE Keys!Fail(p)
    <3>1. /\ writer'[p].pc = "error" /\ UNCHANGED <<disk, made>>
          /\ \A q \in Parties \ {p} : writer'[q] = writer[q]
      BY <2>t, <2>5 DEF Keys!Fail, Keys!At, Types, WriterType
    <3> QED BY <2>t, <3>1, NobodyBegins DEF Keys!Filling
  <2>6. CASE Ends(p)
    <3>1. /\ writer'[p].pc = "idle" /\ UNCHANGED <<disk, made>>
          /\ \A q \in Parties \ {p} : writer'[q] = writer[q]
      BY <2>t, <2>6 DEF Ends, Keys!Idle, Keys!At, Types, WriterType
    <3> QED BY <2>t, <3>1, NobodyBegins DEF Keys!Filling
  <2>7. CASE UNCHANGED <<disk, writer, made>>
    BY <2>7 DEF AtRest, Keys!Filling
  <2> QED
    BY <2>1, <2>2, <2>3, <2>4, <2>5, <2>6, <2>7
       DEF ProcessStep, Start, GenerateKeysAndCerts, Keys!Step, WriteFails, Dies, Exits,
           ReadFile, Configure, LoadFails
<1> QED
  BY <1>1, Invariance, PTL DEF Spec
=============================================================================
