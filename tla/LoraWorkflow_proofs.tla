------------------------ MODULE LoraWorkflow_proofs ------------------------
(***************************************************************************)
(* Proofs about LoraNormalize, LoraFold, BakeAudit and FoldOracle as       *)
(* LoraWorkflow composes them, for any adapters, plans, commands, edits    *)
(* and casts.                                                              *)
(***************************************************************************)
EXTENDS LoraWorkflow, SequenceLemmas, FiniteSetTheorems, TLAPS

-----------------------------------------------------------------------------
(* The inductive invariant.                                                *)

(* Stamps and inodes are numbers the clock has given, so a file that was   *)
(* left behind never comes back.                                           *)
Given(f) == f = Absent \/ (f.inode \in 1..clock /\ f.stamp \in 1..clock)

FilesOK ==
  /\ clock \in Nat /\ cast \in Casts
  /\ DOMAIN file = Paths
  /\ Given(file[SourcePath]) /\ Given(file[NormalPath])
  /\ Exists(SourcePath) => IsAdapter(file[SourcePath].data)

ConvFields == {"phase", "profile", "held", "head", "parts", "staged"}

(* A conversion that has a staging file; nobody has seen that inode yet.   *)
Stages(n) == conv[n].phase \in {"copying", "verified"}
Read(n) == conv[n].phase \in {"copying", "verified", "returned"}

Copied(n) ==
  LET held == conv[n].held
  IN /\ conv[n].head = held.data.head
     /\ conv[n].parts \in Seq({held.data.body})

ConvOf(n) ==
  LET c == conv[n]
  IN /\ DOMAIN c = ConvFields
     /\ c.profile \in Profiles
     /\ c.phase # "idle" => n \in cast
     /\ Given(c.held)
     /\ c.phase \in {"idle", "resolved", "opened", "bound"} => c.parts = <<>>
     /\ c.phase \in {"opened", "bound"} \/ Read(n) => c.held # Absent /\ IsAdapter(c.held.data)
     /\ Read(n) => c.staged \in 1..clock /\ c.head.id \in DOMAIN Adapters /\ SourceAccepted(c.profile, HeaderOf(c.head))
     /\ c.phase = "copying" /\ SourceUnchanged(n) => Copied(n)
     /\ c.phase \in {"verified", "returned"} => Copied(n) /\ Len(c.parts) = 2

ConvOK == DOMAIN conv = Converters /\ \A n \in Converters : ConvOf(n)

(* No file and no session has the stamp of an unpublished staging file.    *)
StagedOK ==
  \A n \in Converters : Stages(n) =>
    /\ file[NormalPath].stamp # conv[n].staged
    /\ \A s \in Sessions : session[s].held.stamp # conv[n].staged
    /\ \A o \in Converters : o # n /\ Read(o) => conv[o].staged # conv[n].staged

SessionFields == {"phase", "held", "saved", "module", "row", "reads", "folds", "exact", "reported"}

(* While the path has the file that was opened, that is what was read.     *)
Same(s) ==
  /\ file[NormalPath].inode = session[s].held.inode
  /\ file[NormalPath].stamp = session[s].held.stamp

SessionOf(s) ==
  LET x == session[s]
  IN /\ DOMAIN x = SessionFields
     /\ Given(x.held)
     /\ x.phase \in {"idle", "opening"} \/ x.held = Absent => x.reads = {} /\ x.folds = [m \in AllModules |-> 0]
     /\ x.phase \in {"opening", "open"} => x.held # Absent
     /\ Same(s) => file[NormalPath].data = x.held.data /\ (~x.reported => x.reads \subseteq {x.held.data})
     /\ x.folds \in [AllModules -> {0, 1}]
     /\ \A m \in AllModules \ Target(s) : x.folds[m] = 0
     /\ x.module # NoModule =>
          x.module \in Target(s) /\ x.folds[x.module] = 0 /\ x.reads # {} /\ x.phase = "open"
     /\ \A m \in AllModules : x.folds[m] # 0 => x.reads # {}
     /\ x.exact = TRUE /\ x.reported \in BOOLEAN
     /\ x.reported =>
          /\ x.module = NoModule /\ x.reads = {Expected[s]}
          /\ \A m \in Target(s) : x.folds[m] = 1

SessionsOK == DOMAIN session = Sessions /\ \A s \in Sessions : SessionOf(s)

OracleFields ==
  {"phase", "bound", "path", "plan", "executor", "held", "read", "staged", "opened", "results"}

(* Where a run of the oracle may put a file.                               *)
OraclesOK ==
  /\ DOMAIN oracle = Oracles
  /\ \A o \in Oracles :
       /\ DOMAIN oracle[o] = OracleFields
       /\ oracle[o].results \in Seq(Range(oracle[o].results))
       /\ oracle[o].phase = "staged" => Current(o) \in 1..Len(MicroTargets)

WorkflowInv == FilesOK /\ ConvOK /\ StagedOK /\ SessionsOK /\ OraclesOK

(* Others leave the output alone while a conversion runs, which else is    *)
(* theirs to change.                                                       *)
OutputSpared == \A c \in Casts : c \cap Converters # {} => NormalPath \notin c

-----------------------------------------------------------------------------
(* Steps that change the files but no conversion and no session.           *)

(* What a path may have next: the same, nothing, or what is new.           *)
Fresh(p) ==
  \/ file'[p] = file[p]
  \/ file'[p] = Absent
  \/ file'[p].stamp = clock + 1 /\ clock' = clock + 1

OthersMove ==
  /\ clock' \in {clock, clock + 1}
  /\ Fresh(SourcePath) /\ Fresh(NormalPath)
  /\ UNCHANGED <<conv, session, cast>>

LEMMA GivenStays ==
  ASSUME clock \in Nat, clock' \in {clock, clock + 1}, NEW f, Given(f)
  PROVE  f = Absent \/ (f.inode \in 1..clock' /\ f.stamp \in 1..clock')
BY DEF Given

LEMMA AbsentFields == Absent.inode = 0 /\ Absent.stamp = 0 /\ Absent.data = NoData
BY DEF Absent

LEMMA OthersKeep ==
  ASSUME WorkflowInv, FilesOK', OthersMove
  PROVE  ConvOK' /\ StagedOK' /\ SessionsOK'
<1>0. clock \in Nat /\ clock' \in Nat /\ clock <= clock'
  BY DEF WorkflowInv, FilesOK, OthersMove
<1>1. ASSUME NEW n \in Converters
      PROVE  ConvOf(n)'
  <2>1. ConvOf(n) /\ conv' = conv /\ cast' = cast
    BY DEF WorkflowInv, ConvOK, OthersMove
  <2>2. SourceUnchanged(n)' /\ conv[n].held # Absent => SourceUnchanged(n)
    BY <1>0, <2>1, AbsentFields DEF ConvOf, SourceUnchanged, OthersMove, Fresh, Given
  <2>3. Given(conv[n].held)'
    BY <1>0, <2>1, GivenStays DEF ConvOf, OthersMove, Given
  <2>4. Copied(n)' <=> Copied(n)
    BY <2>1 DEF Copied
  <2>5. Read(n)' <=> Read(n)
    BY <2>1 DEF Read
  <2>6. Read(n) => conv[n].held # Absent /\ conv[n].staged \in 1..clock'
    BY <1>0, <2>1 DEF ConvOf
  <2>7. QED
    BY <2>1, <2>2, <2>3, <2>4, <2>5, <2>6 DEF ConvOf, Read
<1>2. StagedOK'
  <2> SUFFICES ASSUME NEW n \in Converters, Stages(n)
               PROVE  (/\ file[NormalPath].stamp # conv[n].staged
                       /\ \A s \in Sessions : session[s].held.stamp # conv[n].staged
                       /\ \A o \in Converters : o # n /\ Read(o) => conv[o].staged # conv[n].staged)'
    BY DEF StagedOK, Stages, OthersMove
  <2>1. /\ file[NormalPath].stamp # conv[n].staged
        /\ \A s \in Sessions : session[s].held.stamp # conv[n].staged
        /\ \A o \in Converters : o # n /\ Read(o) => conv[o].staged # conv[n].staged
        /\ conv[n].staged \in 1..clock
    BY DEF WorkflowInv, StagedOK, ConvOK, ConvOf, Stages, Read
  <2>2. file'[NormalPath].stamp # conv[n].staged
    BY <1>0, <2>1, AbsentFields DEF OthersMove, Fresh
  <2>3. QED
    BY <2>1, <2>2 DEF OthersMove, Read
<1>3. ASSUME NEW s \in Sessions
      PROVE  SessionOf(s)'
  <2>1. SessionOf(s) /\ session' = session
    BY DEF WorkflowInv, SessionsOK, OthersMove
  <2>2. Given(session[s].held)'
    BY <1>0, <2>1, GivenStays DEF SessionOf, OthersMove, Given
  <2>3. Same(s)' => \/ file'[NormalPath] = file[NormalPath] /\ Same(s)
                    \/ file'[NormalPath] = Absent /\ session[s].held = Absent
    BY <1>0, <2>1, AbsentFields DEF SessionOf, Same, OthersMove, Fresh, Given
  <2>4. session[s].held = Absent => session[s].held.data = NoData
    BY AbsentFields
  <2>5. QED
    BY <2>1, <2>2, <2>3, <2>4, AbsentFields DEF SessionOf, Target
<1>4. QED
  BY <1>1, <1>2, <1>3 DEF WorkflowInv, ConvOK, SessionsOK, OthersMove

(* What another process writes.                                            *)
LEMMA EditMoves ==
  ASSUME WorkflowInv, NEW p \in Paths, EditFile(p)
  PROVE  FilesOK' /\ OthersMove
<1>0. clock \in Nat /\ clock' = clock + 1 /\ DOMAIN file = Paths /\ SourcePath \in Paths /\ NormalPath \in Paths
  BY LoraNormalizeAssumption DEF EditFile, WorkflowInv, FilesOK
<1>1. PICK data \in EditData[p], inode \in {file[p].inode, clock + 1} :
        file' = [file EXCEPT ![p] =
                   IF data = NoData THEN Absent
                   ELSE [inode |-> IF Exists(p) THEN inode ELSE clock + 1, stamp |-> clock + 1, data |-> data]]
  BY DEF EditFile
<1>2. /\ DOMAIN file' = Paths
      /\ \A q \in Paths \ {p} : file'[q] = file[q]
      /\ data = NoData => file'[p] = Absent
      /\ data # NoData => /\ file'[p].inode = IF Exists(p) THEN inode ELSE clock + 1
                          /\ file'[p].stamp = clock + 1 /\ file'[p].data = data
  BY <1>0, <1>1
<1>3. ASSUME NEW q \in {SourcePath, NormalPath}
      PROVE  Given(file[q])' /\ Fresh(q)
  <2>1. CASE q # p
    <3>1. file'[q] = file[q] /\ Given(file[q])
      BY <1>0, <1>2, <2>1 DEF WorkflowInv, FilesOK
    <3>2. QED
      BY <1>0, <3>1, GivenStays DEF Fresh, Given
  <2>2. CASE q = p
    <3>1. CASE data = NoData
      BY <1>2, <2>2, <3>1 DEF Fresh, Given
    <3>2. CASE data # NoData
      <4>1. Given(file[p])
        BY <2>2 DEF WorkflowInv, FilesOK
      <4>2. file'[p].inode \in 1..clock' /\ file'[p].stamp \in 1..clock'
        BY <1>0, <1>2, <3>2, <4>1 DEF Given, Exists
      <4>3. QED
        BY <1>0, <1>2, <2>2, <3>2, <4>2 DEF Fresh, Given
    <3>3. QED
      BY <3>1, <3>2
  <2>3. QED
    BY <2>1, <2>2
<1>4. Exists(SourcePath)' => IsAdapter(file'[SourcePath].data)
  <2>1. CASE SourcePath # p
    BY <1>0, <1>2, <2>1 DEF WorkflowInv, FilesOK, Exists
  <2>2. CASE SourcePath = p
    BY <1>2, <2>2, LoraWorkflowAssumption DEF Exists
  <2>3. QED
    BY <2>1, <2>2
<1>5. UNCHANGED <<conv, session, cast>>
  BY DEF EditFile
<1>6. QED
  BY <1>0, <1>2, <1>3, <1>4, <1>5 DEF FilesOK, WorkflowInv, OthersMove

(* A step that leaves both adapters where they are.                        *)
Spares ==
  /\ clock' \in {clock, clock + 1}
  /\ DOMAIN file' = DOMAIN file
  /\ file'[SourcePath] = file[SourcePath] /\ file'[NormalPath] = file[NormalPath]
  /\ UNCHANGED <<conv, session, cast>>

LEMMA SparesMove ==
  ASSUME WorkflowInv, Spares
  PROVE  FilesOK' /\ OthersMove
<1>1. Given(file[SourcePath])' /\ Given(file[NormalPath])'
  BY GivenStays DEF WorkflowInv, FilesOK, Spares, Given
<1>2. QED
  BY <1>1 DEF WorkflowInv, FilesOK, Spares, OthersMove, Fresh, Exists

LEMMA DirectorySpares ==
  ASSUME WorkflowInv, NEW d \in DOMAIN Inside, ReplaceDirectory(d)
  PROVE  Spares /\ UNCHANGED oracle
<1>1. SourcePath \notin Inside[d] /\ NormalPath \notin Inside[d]
  BY LoraWorkflowAssumption
<1>2. file' = [p \in Paths |-> IF p \in Inside[d] THEN Absent ELSE file[p]]
  BY DEF ReplaceDirectory
<1>3. QED
  BY <1>1, <1>2, LoraNormalizeAssumption DEF ReplaceDirectory, Spares, WorkflowInv, FilesOK

LEMMA AppendRange ==
  ASSUME NEW r, r \in Seq(Range(r)), NEW x
  PROVE  /\ Append(r, x) \in Seq(Range(Append(r, x)))
         /\ Len(r) \in Nat
<1> DEFINE S == Range(r) \cup {x}
           new == Append(r, x)
<1>1. Len(r) \in Nat /\ DOMAIN r = 1..Len(r)
  OBVIOUS
<1>2. r \in Seq(S)
  <2>1. \A i \in 1..Len(r) : r[i] \in S
    BY <1>1 DEF Range
  <2>2. QED
    BY <1>1, <2>1
<1>3. /\ new \in Seq(S) /\ Len(new) = Len(r) + 1 /\ DOMAIN new = 1..Len(new)
      /\ \A i \in 1..Len(new) : new[i] \in Range(new)
  BY <1>2 DEF Range
<1>4. QED
  BY <1>1, <1>3

LEMMA OracleSpares ==
  ASSUME WorkflowInv, NEW o \in Oracles, OracleStep(o), UNCHANGED <<conv, session, cast>>
  PROVE  Spares
<1>1. TempOf[o] \in DOMAIN Inside /\ "evidence" \in DOMAIN Inside
  BY FoldOracleAssumption DEF Inside
<1>2. ReceiptPath \notin {SourcePath, NormalPath}
  BY <1>1, LoraWorkflowAssumption DEF Inside
<1>3. oracle[o].phase = "staged" => Candidate(o, Current(o)) \notin {SourcePath, NormalPath}
  <2>1. SUFFICES ASSUME oracle[o].phase = "staged"
                 PROVE  Candidate(o, Current(o)) \in Inside[TempOf[o]]
    BY <1>1, LoraWorkflowAssumption
  <2>2. Current(o) \in 1..Len(Candidates[TempOf[o]]) /\ TempOf[o] # "evidence"
    BY <2>1, FoldOracleAssumption DEF WorkflowInv, OraclesOK
  <2>3. Inside[TempOf[o]] = {Candidates[TempOf[o]][k] : k \in 1..Len(Candidates[TempOf[o]])}
    BY <1>1, <2>2 DEF Inside
  <2>4. QED
    BY <2>2, <2>3 DEF Candidate
<1>4. SourcePath \in DOMAIN file /\ NormalPath \in DOMAIN file
  BY LoraNormalizeAssumption DEF WorkflowInv, FilesOK
<1>5. /\ clock' \in {clock, clock + 1}
      /\ \/ UNCHANGED file
         \/ \E path : path \notin {SourcePath, NormalPath} /\ file' = [file EXCEPT ![path] = oracle[o].staged]
  <2>1. CASE OracleLink(o)
    BY <1>3, <2>1 DEF OracleLink, LinkInto, Fails
  <2>2. CASE OracleReturn(o)
    BY <1>2, <2>2 DEF OracleReturn, LinkInto, Fails
  <2>3. CASE ~OracleLink(o) /\ ~OracleReturn(o)
    BY <2>3 DEF OracleStep, OracleBind, OracleLoad, OracleRehash, OracleReference, OracleExecutor, OracleOpen,
                OracleFold, OracleConfirm, OracleReread, OracleReload, OracleClose, OracleReceipt,
                OracleConfirmReceipt, Confirm, Fails
  <2>4. QED
    BY <2>1, <2>2, <2>3
<1>6. QED
  BY <1>4, <1>5 DEF Spares

LEMMA OracleStays ==
  ASSUME WorkflowInv, NEW o \in Oracles, OracleStep(o)
  PROVE  OraclesOK'
<1>1. /\ DOMAIN oracle = Oracles /\ oracle[o].results \in Seq(Range(oracle[o].results))
      /\ oracle[o].phase = "staged" => Current(o) \in 1..Len(MicroTargets)
      /\ Len(oracle[o].results) \in Nat
  BY DEF WorkflowInv, OraclesOK
<1>2. /\ DOMAIN oracle' = Oracles
      /\ \A q \in Oracles \ {o} : oracle'[q] = oracle[q]
  BY <1>1 DEF OracleStep, OracleBind, OracleLoad, OracleRehash, OracleReference, OracleExecutor, OracleOpen, OracleFold,
           OracleLink, OracleConfirm, OracleReread, OracleReload, OracleClose, OracleReceipt, OracleReturn,
           OracleConfirmReceipt, LinkInto, Confirm, Turn, Fails
<1>3. /\ DOMAIN oracle'[o] = OracleFields
      /\ \/ oracle'[o].results = oracle[o].results
         \/ \E x : oracle'[o].results = Append(oracle[o].results, x)
      /\ oracle'[o].phase = "staged" =>
           oracle'[o].results = oracle[o].results /\ Len(oracle[o].results) + 1 <= Len(MicroTargets)
  <2>0. DOMAIN oracle[o] = OracleFields
    BY DEF WorkflowInv, OraclesOK
  <2>1. ASSUME NEW phase, Turn(o, phase)
        PROVE  /\ DOMAIN oracle'[o] = OracleFields /\ oracle'[o].results = oracle[o].results
               /\ oracle'[o].phase = phase
    BY <1>1, <2>0, <2>1 DEF Turn, OracleFields
  <2>2. CASE OracleFold(o)
    <3>1. CASE Turn(o, "failed")
      BY <2>1, <3>1
    <3>2. CASE ~Turn(o, "failed")
      <4>1. Len(oracle[o].results) + 1 <= Len(MicroTargets)
        BY <2>2 DEF OracleFold, Current
      <4> DEFINE k == CHOOSE k \in 1..Len(OracleInputs) : OracleInputs[k] = Operation(o).shard
                 base == HeldData(OracleInputs[k], oracle[o].held[k])
                 lora == HeldData(NormalPath, oracle[o].held[Len(OracleInputs)])
                 read == [base |-> base, lora |-> lora]
                 rows == ToSerialized(Operation(o), CandidateFold(Operation(o), base.body, lora.body))
                 staged == Staging(CandidateData(o, rows))
      <4>2. oracle' = [oracle EXCEPT ![o].phase = "staged", ![o].read = read, ![o].staged = staged]
        BY <2>2, <3>2 DEF OracleFold, Fails
      <4> HIDE DEF read, staged
      <4>3. QED
        BY <1>1, <2>0, <4>1, <4>2 DEF OracleFields
    <3>3. QED
      BY <3>1, <3>2
  <2>3. CASE OracleReload(o)
    <3>1. CASE Turn(o, "failed")
      BY <2>1, <3>1
    <3>2. CASE ~Turn(o, "failed")
      <4>1. PICK x : oracle' = [oracle EXCEPT ![o].phase = "folding", ![o].results = Append(@, x)]
        BY <2>3, <3>2 DEF OracleReload, Fails
      <4>2. QED
        BY <1>1, <2>0, <4>1 DEF OracleFields
    <3>3. QED
      BY <3>1, <3>2
  <2> DEFINE Turned == \E phase \in {"planned", "referenced", "linked", "published", "closed", "signed", "returned",
                                     "left", "failed"} : Turn(o, phase)
  <2>4. CASE Turned
    BY <2>1, <2>4
  <2>5. CASE ~Turned
    <3>1. CASE OracleBind(o)
      BY <1>1, <2>0, <2>5, <3>1 DEF OracleBind, Fails, OracleFields
    <3>2. CASE OracleLoad(o)
      BY <1>1, <2>0, <2>5, <3>2 DEF OracleLoad, Fails, OracleFields
    <3>3. CASE OracleExecutor(o)
      BY <1>1, <2>0, <2>5, <3>3 DEF OracleExecutor, Fails, OracleFields
    <3>4. CASE OracleOpen(o)
      BY <1>1, <2>0, <2>5, <3>4 DEF OracleOpen, Fails, OracleFields
    <3>5. CASE OracleReceipt(o)
      BY <1>1, <2>0, <2>5, <3>5 DEF OracleReceipt, Fails, OracleFields
    <3>6. CASE OracleRehash(o) \/ OracleReference(o) \/ OracleLink(o) \/ OracleClose(o) \/ OracleReturn(o)
      BY <2>5, <3>6 DEF OracleRehash, OracleReference, OracleLink, OracleClose, OracleReturn, LinkInto, Fails
    <3>7. CASE OracleConfirm(o) \/ OracleConfirmReceipt(o)
      BY <2>5, <3>7 DEF OracleConfirm, OracleConfirmReceipt, Confirm
    <3>8. CASE OracleReread(o)
      BY <1>1, <2>0, <2>5, <3>8 DEF OracleReread, Fails, OracleFields
    <3>9. QED
      BY <2>2, <2>3, <3>1, <3>2, <3>3, <3>4, <3>5, <3>6, <3>7, <3>8 DEF OracleStep
  <2>6. QED
    BY <2>4, <2>5
<1>4. /\ oracle'[o].results \in Seq(Range(oracle'[o].results))
      /\ oracle'[o].phase = "staged" => (Current(o) \in 1..Len(MicroTargets))'
  <2>1. oracle'[o].results \in Seq(Range(oracle'[o].results))
    BY <1>1, <1>3, AppendRange
  <2>2. oracle'[o].phase = "staged" => (Current(o) \in 1..Len(MicroTargets))'
    BY <1>1, <1>3 DEF Current
  <2>3. QED
    BY <2>1, <2>2
<1>5. ASSUME NEW q \in Oracles \ {o}
      PROVE  /\ DOMAIN oracle'[q] = OracleFields
             /\ oracle'[q].results \in Seq(Range(oracle'[q].results))
             /\ oracle'[q].phase = "staged" => (Current(q) \in 1..Len(MicroTargets))'
  BY <1>2 DEF WorkflowInv, OraclesOK, Current
<1>6. QED
  BY <1>2, <1>3, <1>4, <1>5 DEF OraclesOK

-----------------------------------------------------------------------------
(* Conversions.                                                            *)

(* A step of conversion n that writes nothing others see.                  *)
LEMMA ConvUpdate ==
  ASSUME WorkflowInv, NEW n \in Converters,
         UNCHANGED <<file, session, cast, oracle>>, clock' \in {clock, clock + 1},
         DOMAIN conv' = Converters, \A o \in Converters \ {n} : conv'[o] = conv[o],
         ConvOf(n)',
         Read(n)' => \/ Read(n) /\ conv'[n].staged = conv[n].staged /\ (Stages(n)' => Stages(n))
                     \/ conv'[n].staged = clock + 1
  PROVE  WorkflowInv'
<1>0. clock \in Nat /\ clock' \in Nat /\ clock <= clock'
  BY DEF WorkflowInv, FilesOK
<1>1. FilesOK'
  BY <1>0, GivenStays DEF WorkflowInv, FilesOK, Given, Exists
<1>3. ASSUME NEW o \in Converters
      PROVE  ConvOf(o)'
  <2>1. CASE o = n
    BY <2>1
  <2>2. CASE o # n
    <3>1. ConvOf(o) /\ conv'[o] = conv[o]
      BY <2>2 DEF WorkflowInv, ConvOK
    <3>2. Given(conv[o].held)'
      BY <1>0, <3>1, GivenStays DEF ConvOf, Given
    <3>3. Read(o) => conv[o].staged \in 1..clock'
      BY <1>0, <3>1 DEF ConvOf
    <3>4. QED
      BY <3>1, <3>2, <3>3 DEF ConvOf, Read, SourceUnchanged, Copied
  <2>3. QED
    BY <2>1, <2>2
<1>4. StagedOK'
  <2>1. ASSUME NEW o \in Converters, Read(o)
        PROVE  conv[o].staged \in 1..clock
    BY <2>1 DEF WorkflowInv, ConvOK, ConvOf
  <2>2. /\ Given(file[NormalPath])
        /\ \A t \in Sessions : Given(session[t].held)
    BY DEF WorkflowInv, FilesOK, SessionsOK, SessionOf
  <2>3. /\ file[NormalPath].stamp # clock + 1
        /\ \A t \in Sessions : session[t].held.stamp # clock + 1
    BY <1>0, <2>2, AbsentFields DEF Given
  <2> SUFFICES ASSUME NEW m \in Converters, Stages(m)'
               PROVE  (/\ file[NormalPath].stamp # conv[m].staged
                       /\ \A t \in Sessions : session[t].held.stamp # conv[m].staged
                       /\ \A o \in Converters : o # m /\ Read(o) => conv[o].staged # conv[m].staged)'
    BY DEF StagedOK
  <2>4. CASE m # n
    <3>1. Stages(m) /\ conv'[m] = conv[m] /\ Read(m)
      BY <2>4 DEF Stages, Read
    <3>2. ASSUME NEW o \in Converters, o # m, Read(o)'
          PROVE  conv'[o].staged # conv'[m].staged
      BY <1>0, <2>1, <3>1, <3>2 DEF WorkflowInv, StagedOK, Read
    <3>3. QED
      BY <3>1, <3>2 DEF WorkflowInv, StagedOK
  <2>5. CASE m = n
    <3>1. Read(n)' /\ \A o \in Converters \ {n} : Read(o)' => Read(o) /\ conv'[o] = conv[o]
      BY <2>5 DEF Stages, Read
    <3>2. CASE conv'[n].staged = clock + 1
      BY <1>0, <2>1, <2>3, <2>5, <3>1, <3>2
    <3>3. CASE Stages(n) /\ conv'[n].staged = conv[n].staged
      BY <2>5, <3>1, <3>3 DEF WorkflowInv, StagedOK
    <3>4. QED
      BY <2>5, <3>1, <3>2, <3>3
  <2>6. QED
    BY <2>4, <2>5
<1>5. ASSUME NEW t \in Sessions
      PROVE  SessionOf(t)'
  <2>1. SessionOf(t)
    BY DEF WorkflowInv, SessionsOK
  <2>2. Given(session[t].held)'
    BY <1>0, <2>1, GivenStays DEF SessionOf, Given
  <2>3. QED
    BY <2>1, <2>2 DEF SessionOf, Same, Target
<1>6. QED
  BY <1>1, <1>3, <1>4, <1>5 DEF WorkflowInv, ConvOK, SessionsOK, OraclesOK, Current

(* What a conversion knows of what it reads from the source.               *)
LEMMA ReadsAdapter ==
  ASSUME WorkflowInv, NEW h, Given(h), h # Absent, IsAdapter(h.data)
  PROVE  IsAdapter(HeldData(SourcePath, h))
<1>1. file[SourcePath].inode = h.inode => Exists(SourcePath)
  BY AbsentFields DEF Given, Exists, WorkflowInv, FilesOK
<1>2. QED
  BY <1>1 DEF HeldData, WorkflowInv, FilesOK

LEMMA ConvBegins ==
  ASSUME WorkflowInv, NEW n \in Converters, n \in cast,
         Begin(n) \/ OpenAdapter(n) \/ Snapshot(n), UNCHANGED <<session, cast, oracle>>
  PROVE  WorkflowInv'
<1>0. ConvOf(n) /\ DOMAIN conv = Converters /\ UNCHANGED <<file, clock>>
  BY DEF WorkflowInv, ConvOK, Begin, OpenAdapter, Snapshot
<1>1. DOMAIN conv' = Converters /\ \A o \in Converters \ {n} : conv'[o] = conv[o]
  BY <1>0 DEF Begin, OpenAdapter, Snapshot, To
<1>2. ConvOf(n)' /\ ~Read(n)'
  <2>1. CASE Begin(n)
    <3>1. PICK profile \in Profiles :
            conv' = [conv EXCEPT ![n].phase = IF Exists(NormalPath) THEN "refused" ELSE "resolved",
                                 ![n].profile = profile]
      BY <2>1 DEF Begin
    <3>2. /\ DOMAIN conv'[n] = ConvFields /\ conv'[n].profile = profile
          /\ conv'[n].phase \in {"refused", "resolved"} /\ conv'[n].held = conv[n].held
          /\ conv'[n].parts = conv[n].parts /\ conv[n].phase = "idle"
      BY <1>0, <2>1, <3>1 DEF ConvOf, ConvFields, Begin
    <3>3. QED
      BY <1>0, <3>2 DEF ConvOf, Read, Given
  <2>2. ASSUME NEW phase, To(n, phase), phase \in {"failed", "refused"}
        PROVE  ConvOf(n)' /\ ~Read(n)'
    <3>1. /\ DOMAIN conv'[n] = ConvFields /\ conv'[n].profile = conv[n].profile
          /\ conv'[n].phase = phase /\ conv'[n].held = conv[n].held
      BY <1>0, <2>2 DEF ConvOf, ConvFields, To
    <3>2. QED
      BY <1>0, <2>2, <3>1 DEF ConvOf, Read, Given
  <2>3. ASSUME Exists(SourcePath), NEW phase \in {"opened", "bound"}, conv[n].phase \in {"resolved", "opened"},
               conv' = [conv EXCEPT ![n].phase = phase, ![n].held = file[SourcePath]]
        PROVE  ConvOf(n)' /\ ~Read(n)'
    <3>1. /\ DOMAIN conv'[n] = ConvFields /\ conv'[n].profile = conv[n].profile
          /\ conv'[n].phase = phase /\ conv'[n].held = file[SourcePath]
          /\ conv'[n].parts = conv[n].parts
      BY <1>0, <2>3 DEF ConvOf, ConvFields
    <3>2. Given(file[SourcePath]) /\ file[SourcePath] # Absent /\ IsAdapter(file[SourcePath].data)
      BY <2>3 DEF WorkflowInv, FilesOK, Exists
    <3>3. QED
      BY <1>0, <2>3, <3>1, <3>2 DEF ConvOf, Read, Given
  <2>4. CASE OpenAdapter(n)
    BY <2>2, <2>3, <2>4 DEF OpenAdapter
  <2>5. CASE Snapshot(n)
    BY <2>2, <2>3, <2>5 DEF Snapshot
  <2>6. QED
    BY <2>1, <2>4, <2>5
<1>3. QED
  BY <1>0, <1>1, <1>2, ConvUpdate

(* A run that fails keeps nothing that matters.                            *)
LEMMA ConvFails ==
  ASSUME WorkflowInv, NEW n \in Converters, n \in cast, To(n, "failed"), conv[n].phase # "idle",
         UNCHANGED <<file, clock, session, cast, oracle>>
  PROVE  WorkflowInv'
<1>0. ConvOf(n) /\ DOMAIN conv = Converters
  BY DEF WorkflowInv, ConvOK
<1>1. /\ DOMAIN conv'[n] = ConvFields /\ conv'[n].profile = conv[n].profile
      /\ conv'[n].phase = "failed" /\ conv'[n].held = conv[n].held
      /\ DOMAIN conv' = Converters /\ \A o \in Converters \ {n} : conv'[o] = conv[o]
  BY <1>0 DEF ConvOf, ConvFields, To
<1>2. ConvOf(n)' /\ ~Read(n)'
  BY <1>0, <1>1 DEF ConvOf, Read, Given
<1>3. QED
  BY <1>0, <1>1, <1>2, ConvUpdate

LEMMA ConvReads ==
  ASSUME WorkflowInv, NEW n \in Converters, n \in cast, ReadHeader(n), UNCHANGED <<session, cast, oracle>>
  PROVE  WorkflowInv'
<1> DEFINE read == HeldData(SourcePath, conv[n].held)
<1>0. ConvOf(n) /\ DOMAIN conv = Converters /\ UNCHANGED file /\ conv[n].phase = "bound" /\ clock \in Nat
  BY DEF WorkflowInv, ConvOK, FilesOK, ReadHeader
<1>1. IsAdapter(read)
  BY <1>0, ReadsAdapter DEF ConvOf
<1>2. SourceUnchanged(n) => read = conv[n].held.data
  BY DEF SourceUnchanged, HeldData
<1> HIDE DEF read
<1>3. CASE To(n, "failed") /\ UNCHANGED clock
  BY <1>0, <1>3, ConvFails
<1>4. CASE ~(To(n, "failed") /\ UNCHANGED clock)
  <2>1. /\ SourceAccepted(conv[n].profile, HeaderOf(read.head))
        /\ conv' = [conv EXCEPT ![n].phase = "copying", ![n].head = read.head, ![n].staged = clock + 1]
        /\ clock' = clock + 1
    BY <1>4 DEF ReadHeader, read
  <2>2. /\ DOMAIN conv'[n] = ConvFields /\ conv'[n].profile = conv[n].profile
        /\ conv'[n].phase = "copying" /\ conv'[n].held = conv[n].held /\ conv'[n].parts = conv[n].parts
        /\ conv'[n].head = read.head /\ conv'[n].staged = clock + 1
        /\ DOMAIN conv' = Converters /\ \A o \in Converters \ {n} : conv'[o] = conv[o]
    BY <1>0, <2>1 DEF ConvOf, ConvFields
  <2>3. Given(conv[n].held)'
    BY <1>0, <2>1, GivenStays DEF ConvOf, Given
  <2>4. SourceUnchanged(n)' => SourceUnchanged(n)
    BY <1>0, <2>2 DEF SourceUnchanged
  <2>5. SourceUnchanged(n)' => Copied(n)'
    <3>1. <<>> \in Seq({conv[n].held.data.body}) /\ conv[n].parts = <<>>
      <4>1. \A S : <<>> \in Seq(S)
        OBVIOUS
      <4>2. QED
        BY <1>0, <4>1, Zenon DEF ConvOf
    <3>2. QED
      BY <1>2, <2>2, <2>4, <3>1 DEF Copied
  <2>6. ConvOf(n)'
    BY <1>0, <1>1, <2>1, <2>2, <2>3, <2>5 DEF ConvOf, Read, IsAdapter
  <2>7. QED
    BY <1>0, <2>1, <2>2, <2>6, ConvUpdate DEF Read
<1>5. QED
  BY <1>3, <1>4

LEMMA ConvCopies ==
  ASSUME WorkflowInv, NEW n \in Converters, n \in cast, CopyPart(n), UNCHANGED <<session, cast, oracle>>
  PROVE  WorkflowInv'
<1> DEFINE body == HeldData(SourcePath, conv[n].held).body
<1>0. /\ ConvOf(n) /\ DOMAIN conv = Converters /\ UNCHANGED <<file, clock>>
      /\ conv[n].phase = "copying" /\ Len(conv[n].parts) < 2
  BY DEF WorkflowInv, ConvOK, CopyPart
<1>1. SourceUnchanged(n) => body = conv[n].held.data.body
  BY DEF SourceUnchanged, HeldData
<1> HIDE DEF body
<1>2. CASE To(n, "failed")
  BY <1>0, <1>2, ConvFails
<1>3. CASE ~To(n, "failed")
  <2>1. conv' = [conv EXCEPT ![n].parts = Append(@, body)]
    BY <1>3 DEF CopyPart, body
  <2>2. /\ DOMAIN conv'[n] = ConvFields /\ conv'[n].profile = conv[n].profile
        /\ conv'[n].phase = "copying" /\ conv'[n].held = conv[n].held
        /\ conv'[n].parts = Append(conv[n].parts, body)
        /\ conv'[n].head = conv[n].head /\ conv'[n].staged = conv[n].staged
        /\ DOMAIN conv' = Converters /\ \A o \in Converters \ {n} : conv'[o] = conv[o]
    BY <1>0, <2>1 DEF ConvOf, ConvFields
  <2>3. SourceUnchanged(n)' => Copied(n)'
    <3>1. SUFFICES ASSUME SourceUnchanged(n)'
                   PROVE  Copied(n)'
      OBVIOUS
    <3>2. Copied(n) /\ body = conv[n].held.data.body
      BY <1>0, <1>1, <2>2, <3>1 DEF SourceUnchanged, ConvOf
    <3>3. Append(conv[n].parts, body) \in Seq({body})
      BY <3>2 DEF Copied
    <3>4. QED
      BY <2>2, <3>2, <3>3 DEF Copied
  <2>4. ConvOf(n)' /\ Stages(n) /\ Read(n)
    BY <1>0, <2>2, <2>3 DEF ConvOf, Read, Given, Stages
  <2>5. QED
    BY <1>0, <2>2, <2>4, ConvUpdate
<1>4. QED
  BY <1>2, <1>3

LEMMA ConvVerifies ==
  ASSUME WorkflowInv, NEW n \in Converters, n \in cast, VerifySource(n), UNCHANGED <<session, cast, oracle>>
  PROVE  WorkflowInv'
<1>0. /\ ConvOf(n) /\ DOMAIN conv = Converters /\ UNCHANGED <<file, clock>>
      /\ conv[n].phase = "copying" /\ Len(conv[n].parts) = 2
  BY DEF WorkflowInv, ConvOK, VerifySource
<1>1. CASE ~SourceUnchanged(n)
  <2>1. To(n, "failed")
    BY <1>1 DEF VerifySource, SourceUnchanged
  <2>2. QED
    BY <1>0, <2>1, ConvFails
<1>2. CASE SourceUnchanged(n)
  <2>1. /\ DOMAIN conv'[n] = ConvFields /\ conv'[n].profile = conv[n].profile
        /\ conv'[n].phase = "verified" /\ conv'[n].held = conv[n].held
        /\ conv'[n].parts = conv[n].parts
        /\ conv'[n].head = conv[n].head /\ conv'[n].staged = conv[n].staged
        /\ DOMAIN conv' = Converters /\ \A o \in Converters \ {n} : conv'[o] = conv[o]
    BY <1>0, <1>2 DEF ConvOf, ConvFields, VerifySource, To, SourceUnchanged
  <2>2. ConvOf(n)' /\ Stages(n) /\ Read(n)
    BY <1>0, <1>2, <2>1 DEF ConvOf, Read, Given, Stages, Copied
  <2>3. QED
    BY <1>0, <2>1, <2>2, ConvUpdate
<1>3. QED
  BY <1>1, <1>2

(* The staging file becomes the output.                                    *)
LEMMA PublishMoves ==
  ASSUME WorkflowInv, NEW n \in Converters, Publish(n), ~Exists(NormalPath)
  PROVE  /\ DOMAIN conv' = Converters /\ \A o \in Converters \ {n} : conv'[o] = conv[o]
         /\ DOMAIN conv'[n] = ConvFields /\ conv'[n].phase = "returned"
         /\ conv'[n].profile = conv[n].profile /\ conv'[n].held = conv[n].held
         /\ conv'[n].head = conv[n].head /\ conv'[n].parts = conv[n].parts
         /\ conv'[n].staged = conv[n].staged
         /\ DOMAIN file' = Paths /\ file'[SourcePath] = file[SourcePath]
         /\ file'[NormalPath].inode = conv[n].staged /\ file'[NormalPath].stamp = conv[n].staged
         /\ file'[NormalPath].data = StagedData(n)
<1>1. DOMAIN conv = Converters /\ DOMAIN conv[n] = ConvFields /\ DOMAIN file = Paths
  BY DEF WorkflowInv, ConvOK, ConvOf, FilesOK
<1>2. conv' = [conv EXCEPT ![n].phase = "returned"]
  BY DEF Publish, To
<1>3. file' = [file EXCEPT ![NormalPath] = [inode |-> conv[n].staged, stamp |-> conv[n].staged,
                                            data |-> StagedData(n)]]
  BY DEF Publish
<1>4. /\ DOMAIN conv' = Converters /\ \A o \in Converters \ {n} : conv'[o] = conv[o]
      /\ DOMAIN conv'[n] = ConvFields /\ conv'[n].phase = "returned"
      /\ conv'[n].profile = conv[n].profile /\ conv'[n].held = conv[n].held
      /\ conv'[n].head = conv[n].head /\ conv'[n].parts = conv[n].parts
      /\ conv'[n].staged = conv[n].staged
  BY <1>1, <1>2 DEF ConvFields
<1>5. /\ DOMAIN file' = Paths /\ file'[SourcePath] = file[SourcePath]
      /\ file'[NormalPath].inode = conv[n].staged /\ file'[NormalPath].stamp = conv[n].staged
      /\ file'[NormalPath].data = StagedData(n)
  BY <1>1, <1>3, LoraNormalizeAssumption
<1>6. QED
  BY <1>4, <1>5

LEMMA ConvPublishes ==
  ASSUME WorkflowInv, NEW n \in Converters, n \in cast, Publish(n), UNCHANGED <<session, cast, oracle>>
  PROVE  WorkflowInv'
<1>0. ConvOf(n) /\ DOMAIN conv = Converters /\ conv[n].phase = "verified" /\ UNCHANGED clock
  BY DEF WorkflowInv, ConvOK, Publish
<1>1. CASE Exists(NormalPath)
  BY <1>0, <1>1, ConvFails DEF Publish
<1>2. CASE ~Exists(NormalPath)
  <2>1. Given(file[SourcePath]) /\ Given(file'[NormalPath]) /\ clock \in Nat
    <3>1. conv[n].staged \in 1..clock
      BY <1>0 DEF ConvOf, Read
    <3>2. QED
      BY <1>2, <3>1, PublishMoves DEF Given, WorkflowInv, FilesOK
  <2>2. FilesOK'
    BY <1>0, <1>2, <2>1, PublishMoves DEF FilesOK, WorkflowInv, Given, Exists
  <2>3. ASSUME NEW o \in Converters
        PROVE  ConvOf(o)'
    <3>1. file'[SourcePath] = file[SourcePath] /\ ConvOf(o) /\ (o # n => conv'[o] = conv[o])
      BY <1>2, PublishMoves DEF WorkflowInv, ConvOK
    <3>2. CASE o # n
      BY <1>0, <3>1, <3>2 DEF ConvOf, Read, SourceUnchanged, Copied, Given
    <3>3. CASE o = n
      BY <1>0, <1>2, <3>1, <3>3, PublishMoves DEF ConvOf, Read, SourceUnchanged, Copied, Given
    <3>4. QED
      BY <3>2, <3>3
  <2>4. StagedOK'
    <3> SUFFICES ASSUME NEW m \in Converters, Stages(m)'
                 PROVE  (/\ file[NormalPath].stamp # conv[m].staged
                         /\ \A t \in Sessions : session[t].held.stamp # conv[m].staged
                         /\ \A o \in Converters : o # m /\ Read(o) => conv[o].staged # conv[m].staged)'
      BY DEF StagedOK
    <3>1. m # n /\ conv'[m] = conv[m] /\ Stages(m) /\ Read(n)
      BY <1>0, <1>2, PublishMoves DEF Stages, Read
    <3>2. /\ \A t \in Sessions : session[t].held.stamp # conv[m].staged
          /\ \A o \in Converters : o # m /\ Read(o) => conv[o].staged # conv[m].staged
      BY <3>1 DEF WorkflowInv, StagedOK
    <3>3. file'[NormalPath].stamp # conv'[m].staged
      BY <1>2, <3>1, <3>2, PublishMoves
    <3>4. ASSUME NEW o \in Converters, o # m, Read(o)'
          PROVE  conv'[o].staged # conv'[m].staged
      BY <1>2, <3>1, <3>2, <3>4, PublishMoves DEF Read
    <3>5. QED
      BY <3>1, <3>2, <3>3, <3>4
  <2>5. ASSUME NEW t \in Sessions
        PROVE  SessionOf(t)'
    <3>1. SessionOf(t) /\ session[t].held.stamp # conv[n].staged
      BY <1>0 DEF WorkflowInv, SessionsOK, StagedOK, Stages
    <3>2. ~Same(t)'
      BY <1>2, <3>1, PublishMoves DEF Same
    <3>3. QED
      BY <1>0, <3>1, <3>2 DEF SessionOf, Target, Given
  <2>6. QED
    BY <1>2, <2>2, <2>3, <2>4, <2>5, PublishMoves DEF WorkflowInv, ConvOK, SessionsOK, OraclesOK, Current
<1>3. QED
  BY <1>1, <1>2

LEMMA ConvStays ==
  ASSUME WorkflowInv, NEW n \in Converters, n \in cast, ConvStep(n), UNCHANGED <<session, cast, oracle>>
  PROVE  WorkflowInv'
BY ConvBegins, ConvReads, ConvCopies, ConvVerifies, ConvPublishes DEF ConvStep

-----------------------------------------------------------------------------
(* Sessions.                                                               *)

(* A session that changes nothing but itself.                              *)
LEMMA SessionUpdate ==
  ASSUME WorkflowInv, NEW s \in Sessions,
         UNCHANGED <<file, clock, conv, cast, oracle>>,
         DOMAIN session' = Sessions, \A t \in Sessions \ {s} : session'[t] = session[t],
         SessionOf(s)', session'[s].held \in {session[s].held, file[NormalPath]}
  PROVE  WorkflowInv'
<1>1. ASSUME NEW t \in Sessions
      PROVE  SessionOf(t)'
  <2>1. CASE t = s
    BY <2>1
  <2>2. CASE t # s
    <3>1. SessionOf(t) /\ session'[t] = session[t]
      BY <2>2 DEF WorkflowInv, SessionsOK
    <3>2. QED
      BY <3>1 DEF SessionOf, Same, Target, Given
  <2>3. QED
    BY <2>1, <2>2
<1>2. StagedOK'
  <2>1. \A t \in Sessions : session'[t].held \in {session[t].held, file[NormalPath]}
    OBVIOUS
  <2>2. QED
    BY <2>1 DEF WorkflowInv, StagedOK, Stages, Read
<1>3. FilesOK' /\ ConvOK'
  BY DEF WorkflowInv, FilesOK, ConvOK, ConvOf, Read, SourceUnchanged, Copied, Given, Exists
<1>4. QED
  BY <1>1, <1>2, <1>3 DEF WorkflowInv, SessionsOK, OraclesOK, Current

LEMMA TargetModules == \A s \in Sessions : Target(s) \subseteq AllModules /\ Target(s) # {}
<1>1. Backbone \subseteq AllModules
  BY DEF Backbone, AllModules, ExpectedModules
<1>2. QED
  BY <1>1, LoraFoldAssumption DEF Target

(* A session that only changes its phase.                                  *)
LEMMA SessionMoves ==
  ASSUME WorkflowInv, NEW s \in Sessions, NEW phase, Moves(s, phase),
         phase \notin {"idle", "opening"}, phase = "open" => session[s].held # Absent,
         session[s].module = NoModule,
         UNCHANGED <<file, clock, conv, cast, oracle>>
  PROVE  WorkflowInv'
<1>0. SessionOf(s) /\ DOMAIN session = Sessions
  BY DEF WorkflowInv, SessionsOK
<1>1. /\ DOMAIN session' = Sessions /\ \A t \in Sessions \ {s} : session'[t] = session[t]
      /\ DOMAIN session'[s] = SessionFields /\ session'[s].phase = phase
      /\ session'[s].held = session[s].held /\ session'[s].module = NoModule
      /\ session'[s].reads = session[s].reads /\ session'[s].folds = session[s].folds
      /\ session'[s].exact = session[s].exact /\ session'[s].reported = session[s].reported
  BY <1>0 DEF Moves, SessionOf, SessionFields
<1>2. SessionOf(s)'
  BY <1>0, <1>1 DEF SessionOf, Same, Target, Given
<1>3. QED
  BY <1>1, <1>2, SessionUpdate

LEMMA SessionOpens ==
  ASSUME WorkflowInv, NEW s \in Sessions, FoldOpen(s), UNCHANGED <<conv, cast, oracle>>
  PROVE  WorkflowInv'
<1>0. /\ SessionOf(s) /\ DOMAIN session = Sessions /\ UNCHANGED <<file, clock>>
      /\ session[s].phase = "idle" /\ Given(file[NormalPath])
  BY DEF WorkflowInv, SessionsOK, FilesOK, FoldOpen
<1>1. /\ session[s].module = NoModule /\ session[s].reads = {} /\ session[s].reported = FALSE
      /\ session[s].folds = [m \in AllModules |-> 0]
  BY <1>0 DEF SessionOf
<1>2. CASE Moves(s, "refused")
  BY <1>0, <1>1, <1>2, SessionMoves
<1>3. CASE ~Moves(s, "refused")
  <2>1. /\ session' = [session EXCEPT ![s].phase = "opening", ![s].held = file[NormalPath], ![s].saved = precision]
        /\ file[NormalPath] # Absent
    BY <1>3 DEF FoldOpen, Exists
  <2>2. /\ DOMAIN session' = Sessions /\ \A t \in Sessions \ {s} : session'[t] = session[t]
        /\ DOMAIN session'[s] = SessionFields /\ session'[s].phase = "opening"
        /\ session'[s].held = file[NormalPath] /\ session'[s].module = NoModule
        /\ session'[s].reads = {} /\ session'[s].folds = [m \in AllModules |-> 0]
        /\ session'[s].exact = session[s].exact /\ session'[s].reported = FALSE
    BY <1>0, <1>1, <2>1 DEF SessionOf, SessionFields
  <2>3. SessionOf(s)'
    BY <1>0, <2>1, <2>2 DEF SessionOf, Same, Target, Given
  <2>4. QED
    BY <1>0, <2>2, <2>3, SessionUpdate
<1>4. QED
  BY <1>2, <1>3

LEMMA SessionBinds ==
  ASSUME WorkflowInv, NEW s \in Sessions, FoldBind(s), UNCHANGED <<conv, cast, oracle>>
  PROVE  WorkflowInv'
<1>1. /\ SessionOf(s) /\ session[s].phase = "opening" /\ UNCHANGED <<file, clock>>
      /\ \/ Moves(s, "open")
         \/ Moves(s, "refused")
  BY DEF WorkflowInv, SessionsOK, FoldBind
<1>2. session[s].module = NoModule /\ session[s].held # Absent
  BY <1>1 DEF SessionOf
<1>3. CASE Moves(s, "open")
  BY <1>1, <1>2, <1>3, SessionMoves
<1>4. CASE Moves(s, "refused")
  BY <1>1, <1>2, <1>4, SessionMoves
<1>5. QED
  BY <1>1, <1>3, <1>4

(* What a session reads while the path has the file that was opened.       *)
LEMMA SessionReads ==
  ASSUME NEW s \in Sessions, SessionOf(s), Same(s)
  PROVE  HeldData(NormalPath, session[s].held) = session[s].held.data
BY DEF HeldData, Same, SessionOf

LEMMA SessionCalls ==
  ASSUME WorkflowInv, NEW s \in Sessions, FoldCall(s), UNCHANGED <<conv, cast, oracle>>
  PROVE  WorkflowInv'
<1> DEFINE read == HeldData(NormalPath, session[s].held)
<1>0. /\ SessionOf(s) /\ DOMAIN session = Sessions /\ UNCHANGED <<file, clock>>
      /\ session[s].phase = "open" /\ session[s].module = NoModule
  BY DEF WorkflowInv, SessionsOK, FoldCall, NobodyInside
<1>1. Same(s) => read = session[s].held.data
  BY <1>0, SessionReads
<1> HIDE DEF read
<1>2. CASE Moves(s, "poisoned")
  BY <1>0, <1>2, SessionMoves
<1>3. CASE ~Moves(s, "poisoned")
  <2>1. PICK m \in Target(s) :
          /\ session[s].folds[m] = 0 /\ PrecisionHeld
          /\ session' = [session EXCEPT ![s].module = m, ![s].row = 0,
                            ![s].reads = @ \cup {read}, ![s].exact = @ /\ precision = "highest"]
    BY <1>3 DEF FoldCall, read
  <2>2. /\ DOMAIN session' = Sessions /\ \A t \in Sessions \ {s} : session'[t] = session[t]
        /\ DOMAIN session'[s] = SessionFields /\ session'[s].phase = "open"
        /\ session'[s].held = session[s].held /\ session'[s].module = m
        /\ session'[s].reads = session[s].reads \cup {read} /\ session'[s].folds = session[s].folds
        /\ session'[s].reported = session[s].reported
    BY <1>0, <2>1 DEF SessionOf, SessionFields
  <2>3. session'[s].exact = TRUE
    BY <1>0, <2>1 DEF SessionOf, SessionFields, PrecisionHeld
  <2>4. session[s].reported = FALSE
    BY <1>0, <2>1 DEF SessionOf
  <2>5. SessionOf(s)'
    BY <1>0, <1>1, <2>1, <2>2, <2>3, <2>4 DEF SessionOf, Same, Target, Given
  <2>6. QED
    BY <1>0, <2>2, <2>5, SessionUpdate
<1>4. QED
  BY <1>2, <1>3

LEMMA SessionRows ==
  ASSUME WorkflowInv, NEW s \in Sessions, FoldRows(s), UNCHANGED <<conv, cast, oracle>>
  PROVE  WorkflowInv'
<1> DEFINE read == HeldData(NormalPath, session[s].held)
           m == session[s].module
           next == session[s].row + ChunkRows
           bad == read.body \in Truncated \cup NonFinite
           last == next >= Dim(m).out
<1>0. /\ SessionOf(s) /\ DOMAIN session = Sessions /\ UNCHANGED <<file, clock>>
      /\ session[s].module # NoModule
  BY DEF WorkflowInv, SessionsOK, FoldRows
<1>1. Same(s) => read = session[s].held.data
  BY <1>0, SessionReads
<1>2. session' = [session EXCEPT
        ![s].phase = IF bad THEN "poisoned" ELSE @,
        ![s].module = IF bad \/ last THEN NoModule ELSE @,
        ![s].row = next,
        ![s].reads = @ \cup {read},
        ![s].folds = IF ~bad /\ last THEN [@ EXCEPT ![m] = @ + 1] ELSE @]
  BY DEF FoldRows
<1> HIDE DEF read, next, bad, last
<1>3. /\ DOMAIN session' = Sessions /\ \A t \in Sessions \ {s} : session'[t] = session[t]
      /\ DOMAIN session'[s] = SessionFields /\ session'[s].phase = IF bad THEN "poisoned" ELSE session[s].phase
      /\ session'[s].held = session[s].held /\ session'[s].module = IF bad \/ last THEN NoModule ELSE m
      /\ session'[s].reads = session[s].reads \cup {read}
      /\ session'[s].folds = IF ~bad /\ last THEN [session[s].folds EXCEPT ![m] = @ + 1] ELSE session[s].folds
      /\ session'[s].exact = session[s].exact /\ session'[s].reported = session[s].reported
  BY <1>0, <1>2 DEF SessionOf, SessionFields
<1>4. /\ m \in Target(s) /\ m \in AllModules /\ session[s].folds[m] = 0
      /\ session[s].phase = "open" /\ session[s].reported = FALSE
      /\ session[s].folds \in [AllModules -> {0, 1}]
  BY <1>0, TargetModules DEF SessionOf
<1>5. /\ session'[s].folds \in [AllModules -> {0, 1}]
      /\ \A q \in AllModules \ {m} : session'[s].folds[q] = session[s].folds[q]
      /\ ~bad /\ ~last => session'[s].folds = session[s].folds
  BY <1>3, <1>4
<1>6. SessionOf(s)'
  BY <1>0, <1>1, <1>3, <1>4, <1>5 DEF SessionOf, Same, Target, Given
<1>7. QED
  BY <1>0, <1>3, <1>6, SessionUpdate

LEMMA SessionReports ==
  ASSUME WorkflowInv, NEW s \in Sessions, FoldReport(s), UNCHANGED <<conv, cast, oracle>>
  PROVE  WorkflowInv'
<1>0. /\ SessionOf(s) /\ DOMAIN session = Sessions /\ UNCHANGED <<file, clock>>
      /\ session[s].phase = "open" /\ session[s].module = NoModule
      /\ \A m \in Target(s) : session[s].folds[m] # 0
      /\ VerifyUnchanged(s)
  BY DEF WorkflowInv, SessionsOK, FoldReport, NobodyInside
<1>1. /\ DOMAIN session' = Sessions /\ \A t \in Sessions \ {s} : session'[t] = session[t]
      /\ DOMAIN session'[s] = SessionFields /\ session'[s].phase = session[s].phase
      /\ session'[s].held = session[s].held /\ session'[s].module = NoModule
      /\ session'[s].reads = session[s].reads /\ session'[s].folds = session[s].folds
      /\ session'[s].exact = session[s].exact /\ session'[s].reported = TRUE
  BY <1>0 DEF FoldReport, SessionOf, SessionFields
<1>2. session[s].reads = {Expected[s]} /\ \A m \in Target(s) : session[s].folds[m] = 1
  <2>1. Same(s) /\ file[NormalPath].data = Expected[s]
    BY <1>0 DEF VerifyUnchanged, Same
  <2>2. PICK m \in Target(s) : m \in AllModules /\ session[s].folds[m] # 0
    BY <1>0, TargetModules
  <2>3. session[s].reads # {}
    BY <1>0, <2>2 DEF SessionOf
  <2>4. session[s].reads \subseteq {Expected[s]}
    BY <1>0, <2>1 DEF SessionOf
  <2>5. QED
    BY <1>0, <2>3, <2>4, TargetModules DEF SessionOf
<1>3. SessionOf(s)'
  <2>1. (Same(s)' <=> Same(s)) /\ Target(s)' = Target(s) /\ (Given(session[s].held)' <=> Given(session[s].held))
    BY <1>0, <1>1 DEF Same, Target, Given
  <2>2. /\ Given(session[s].held) /\ session[s].held # Absent
        /\ Same(s) => file[NormalPath].data = session[s].held.data
        /\ session[s].folds \in [AllModules -> {0, 1}]
        /\ \A m \in AllModules \ Target(s) : session[s].folds[m] = 0
        /\ \A m \in AllModules : session[s].folds[m] # 0 => session[s].reads # {}
        /\ session[s].exact = TRUE
    BY <1>0 DEF SessionOf
  <2>3. QED
    BY <1>0, <1>1, <1>2, <2>1, <2>2 DEF SessionOf
<1>4. QED
  BY <1>0, <1>1, <1>3, SessionUpdate

LEMMA SessionEnds ==
  ASSUME WorkflowInv, NEW s \in Sessions, FoldBadBase(s) \/ FoldClose(s), UNCHANGED <<conv, cast, oracle>>
  PROVE  WorkflowInv'
<1>0. SessionOf(s) /\ DOMAIN session = Sessions /\ UNCHANGED <<file, clock>>
  BY DEF WorkflowInv, SessionsOK, FoldBadBase, FoldClose
<1>1. CASE FoldClose(s)
  <2>1. session[s].module = NoModule /\ Moves(s, "closed")
    BY <1>1 DEF FoldClose, NobodyInside
  <2>2. QED
    BY <1>0, <2>1, SessionMoves
<1>2. CASE FoldBadBase(s)
  <2>1. /\ DOMAIN session' = Sessions /\ \A t \in Sessions \ {s} : session'[t] = session[t]
        /\ DOMAIN session'[s] = SessionFields /\ session'[s].phase = "poisoned"
        /\ session'[s].held = session[s].held /\ session'[s].module = NoModule
        /\ session'[s].reads = session[s].reads /\ session'[s].folds = session[s].folds
        /\ session'[s].exact = session[s].exact /\ session'[s].reported = session[s].reported
    BY <1>0, <1>2 DEF FoldBadBase, SessionOf, SessionFields
  <2>2. SessionOf(s)'
    BY <1>0, <2>1 DEF SessionOf, Same, Target, Given
  <2>3. QED
    BY <1>0, <2>1, <2>2, SessionUpdate
<1>3. QED
  BY <1>1, <1>2

LEMMA SessionStays ==
  ASSUME WorkflowInv, NEW s \in Sessions, FoldStep(s), UNCHANGED <<conv, cast, oracle>>
  PROVE  WorkflowInv'
BY SessionOpens, SessionBinds, SessionCalls, SessionRows, SessionReports, SessionEnds DEF FoldStep

-----------------------------------------------------------------------------
(* The whole workflow.                                                     *)

LEMMA WorkflowInit == LoraInit => WorkflowInv
<1> SUFFICES ASSUME LoraInit PROVE WorkflowInv
  OBVIOUS
<1>1. FilesOK
  <2>1. clock = 10 /\ cast \in Casts /\ SourcePath \in Paths /\ NormalPath \in Paths
    BY LoraNormalizeAssumption DEF LoraInit
  <2>2. PICK start \in Starts :
          file = [p \in Paths |-> IF start[p] = NoData THEN Absent
                                  ELSE [inode |-> 1, stamp |-> 1, data |-> start[p]]]
    BY DEF LoraInit
  <2>3. \A p \in Paths : /\ start[p] = NoData => file[p] = Absent
                         /\ start[p] # NoData => /\ file[p].inode = 1 /\ file[p].stamp = 1
                                                 /\ file[p].data = start[p]
    BY <2>2
  <2>4. \A p \in {SourcePath, NormalPath} : Given(file[p])
    BY <2>1, <2>3 DEF Given
  <2>5. Exists(SourcePath) => IsAdapter(file[SourcePath].data)
    BY <2>1, <2>3, LoraWorkflowAssumption DEF Exists
  <2>6. QED
    BY <2>1, <2>2, <2>4, <2>5 DEF FilesOK
<1>2. ConvOK /\ StagedOK
  <2>1. /\ DOMAIN conv = Converters
        /\ \A n \in Converters : /\ DOMAIN conv[n] = ConvFields /\ conv[n].phase = "idle"
                                 /\ conv[n].profile = "turbo" /\ conv[n].held = Absent
                                 /\ conv[n].parts = <<>>
    BY DEF LoraInit, ConvInit, ConvFields
  <2>2. \A n \in Converters : ConvOf(n) /\ ~Stages(n)
    BY <2>1 DEF ConvOf, Stages, Read, Given, Profiles
  <2>3. QED
    BY <2>1, <2>2 DEF ConvOK, StagedOK
<1>3. SessionsOK
  <2>1. /\ DOMAIN session = Sessions
        /\ \A s \in Sessions : /\ DOMAIN session[s] = SessionFields /\ session[s].phase = "idle"
                               /\ session[s].held = Absent /\ session[s].module = NoModule
                               /\ session[s].reads = {} /\ session[s].folds = [m \in AllModules |-> 0]
                               /\ session[s].exact = TRUE /\ session[s].reported = FALSE
    BY DEF LoraInit, FoldInit, SessionFields
  <2>2. Given(file[NormalPath])
    BY <1>1 DEF FilesOK
  <2>3. ASSUME NEW s \in Sessions
        PROVE  SessionOf(s)
    <3>1. Same(s) => file[NormalPath].data = session[s].held.data
      BY <2>1, <2>2, AbsentFields DEF Same, Given
    <3>2. session[s].folds \in [AllModules -> {0, 1}] /\ \A m \in AllModules : session[s].folds[m] = 0
      BY <2>1
    <3>3. session[s].held.data = NoData /\ Given(session[s].held) /\ session[s].held = Absent
      BY <2>1, AbsentFields DEF Given
    <3>4. QED
      BY <2>1, <3>1, <3>2, <3>3 DEF SessionOf
  <2>4. QED
    BY <2>1, <2>3 DEF SessionsOK
<1>4. OraclesOK
  <2>1. /\ DOMAIN oracle = Oracles
        /\ \A o \in Oracles : /\ DOMAIN oracle[o] = OracleFields /\ oracle[o].phase = "idle"
                              /\ oracle[o].results = <<>>
    BY DEF LoraInit, OracleInit, OracleFields
  <2>2. \A S : <<>> \in Seq(S)
    OBVIOUS
  <2>3. QED
    BY <2>1, <2>2 DEF OraclesOK
<1>5. QED
  BY <1>1, <1>2, <1>3, <1>4 DEF WorkflowInv

LEMMA WorkflowStays ==
  ASSUME WorkflowInv, [LoraNext]_loraVars
  PROVE  WorkflowInv'
<1>1. ASSUME NEW n \in Converters \cap cast, ConvStep(n), UNCHANGED <<cast, session, oracle>>
      PROVE  WorkflowInv'
  BY <1>1, ConvStays
<1>2. ASSUME NEW s \in Sessions \cap cast, FoldStep(s), UNCHANGED <<cast, conv, oracle>>
      PROVE  WorkflowInv'
  BY <1>2, SessionStays
<1>3. ASSUME Spares, OraclesOK'
      PROVE  WorkflowInv'
  BY <1>3, SparesMove, OthersKeep DEF WorkflowInv
<1>4. ASSUME UNCHANGED <<file, clock, cast, conv, session, oracle>>
      PROVE  WorkflowInv'
  <2>1. Spares /\ OraclesOK'
    BY <1>4 DEF Spares, WorkflowInv, OraclesOK, Current
  <2>2. QED
    BY <1>3, <2>1
<1>5. ASSUME NEW o \in Oracles \cap cast, OracleStep(o), UNCHANGED <<cast, conv, session>>
      PROVE  WorkflowInv'
  BY <1>3, <1>5, OracleSpares, OracleStays
<1>6. ASSUME NEW p \in Paths, EditFile(p)
      PROVE  WorkflowInv'
  <2>1. FilesOK' /\ ConvOK' /\ StagedOK' /\ SessionsOK'
    BY <1>6, EditMoves, OthersKeep
  <2>2. OraclesOK'
    BY <1>6 DEF EditFile, WorkflowInv, OraclesOK, Current
  <2>3. QED
    BY <2>1, <2>2 DEF WorkflowInv
<1>7. ASSUME NEW d \in DOMAIN Inside, ReplaceDirectory(d)
      PROVE  WorkflowInv'
  <2>1. Spares /\ UNCHANGED oracle
    BY <1>7, DirectorySpares
  <2>2. OraclesOK'
    BY <2>1 DEF WorkflowInv, OraclesOK, Current
  <2>3. QED
    BY <1>3, <2>1, <2>2
<1>8. ASSUME \/ \E p \in Planners : PlanStep(p) /\ UNCHANGED <<cast, conv, session, oracle>>
             \/ \E w \in Workers : AuditStep(w) /\ UNCHANGED <<cast, conv, session, oracle>>
             \/ \E a \in Aggregators : Aggregate(a) /\ UNCHANGED <<cast, conv, session, oracle>>
             \/ HostPrecision \/ UNCHANGED loraVars
      PROVE  WorkflowInv'
  <2>1. ASSUME NEW p \in Planners, PlanStep(p)
        PROVE  UNCHANGED <<file, clock>>
    BY <2>1 DEF PlanStep, PlanStart, PlanOpen, PlanHash, PlanBuild
  <2>2. ASSUME NEW w \in Workers, AuditStep(w)
        PROVE  UNCHANGED <<file, clock>>
    BY <2>2 DEF AuditStep, AuditStart, AuditOpen, AuditOperation, AuditReturn
  <2>3. ASSUME NEW a \in Aggregators, Aggregate(a)
        PROVE  UNCHANGED <<file, clock>>
    BY <2>3 DEF Aggregate
  <2>4. UNCHANGED <<file, clock, cast, conv, session, oracle>>
    BY <1>8, <2>1, <2>2, <2>3 DEF HostPrecision, loraVars
  <2>5. QED
    BY <1>4, <2>4
<1>9. QED
  BY <1>1, <1>2, <1>5, <1>6, <1>7, <1>8 DEF LoraNext

LEMMA WorkflowHolds == LoraSpec => []WorkflowInv
<1>1. LoraInit => WorkflowInv
  BY WorkflowInit
<1>2. WorkflowInv /\ [LoraNext]_loraVars => WorkflowInv'
  BY WorkflowStays
<1>3. QED
  BY <1>1, <1>2, PTL DEF LoraSpec

(* A report stands for one complete fold of the expected content at the    *)
(* highest precision, for any adapters, sessions and edits (comfy_bake.py  *)
(* TurboV4ComfyLoraBake).                                                  *)
THEOREM FoldsReportWhole == LoraSpec => []ReportIsWholeFold
<1>1. WorkflowInv => ReportIsWholeFold
  BY DEF WorkflowInv, SessionsOK, SessionOf, ReportIsWholeFold
<1>2. QED
  BY <1>1, WorkflowHolds, PTL

-----------------------------------------------------------------------------
(* What a conversion publishes.                                            *)

(* The header that is written keeps every tensor but its prefix.           *)
LEMMA EncodedCovers ==
  ASSUME NEW profile, NEW id \in DOMAIN Adapters,
         Covers(profile, Adapters[id].tensors)
  PROVE  NormalizedAccepted(profile, Encoded(profile, Adapters[id]))
<1> DEFINE tensors == Adapters[id].tensors
           written == Encoded(profile, Adapters[id]).tensors
<1>1. /\ Len(tensors) \in Nat /\ DOMAIN tensors = 1..Len(tensors)
      /\ \A k \in 1..Len(tensors) : DOMAIN tensors[k] = {"prefixed", "module", "side", "dtype", "shape"}
  BY AdaptersAssumption
<1>2. /\ Encoded(profile, Adapters[id]).meta = [of |-> profile, by |-> "normalized"]
      /\ written = [k \in 1..Len(tensors) |-> [tensors[k] EXCEPT !.prefixed = FALSE]]
  BY DEF Encoded
<1>3. Len(written) = Len(tensors)
  BY <1>1, <1>2
<1>4. \A k \in 1..Len(tensors) :
        /\ written[k].prefixed = FALSE
        /\ written[k].module = tensors[k].module /\ written[k].side = tensors[k].side
        /\ written[k].dtype = tensors[k].dtype /\ written[k].shape = tensors[k].shape
  BY <1>1, <1>2
<1> HIDE DEF written
<1>5. Covers(profile, written)
  <2>1. {<<written[k].module, written[k].side>> : k \in 1..Len(written)} =
          {<<tensors[k].module, tensors[k].side>> : k \in 1..Len(tensors)}
    BY <1>3, <1>4
  <2>2. /\ Len(tensors) = 2 * Cardinality(ExpectedModules(profile))
        /\ {<<tensors[k].module, tensors[k].side>> : k \in 1..Len(tensors)} = ExpectedModules(profile) \X {"A", "B"}
        /\ \A k \in 1..Len(tensors) :
             /\ tensors[k].dtype = "BF16"
             /\ tensors[k].shape = LoraShape(profile, tensors[k].module, tensors[k].side)
    BY DEF Covers
  <2>3. \A k \in 1..Len(written) :
          /\ written[k].dtype = "BF16"
          /\ written[k].shape = LoraShape(profile, written[k].module, written[k].side)
    BY <1>3, <1>4, <2>2
  <2>4. QED
    BY <1>3, <2>1, <2>2, <2>3 DEF Covers
<1>6. QED
  BY <1>2, <1>3, <1>4, <1>5 DEF NormalizedAccepted, written

(* A header the source contract accepts is a source adapter's own.         *)
LEMMA AcceptedIsSource ==
  ASSUME NEW profile \in Profiles, NEW head, head.id \in DOMAIN Adapters,
         SourceAccepted(profile, HeaderOf(head))
  PROVE  NormalizedAccepted(profile, HeaderOf([id |-> head.id, as |-> profile]))
<1>1. head.as = "source"
  <2>1. SUFFICES ASSUME head.as # "source" PROVE FALSE
    OBVIOUS
  <2>2. HeaderOf(head).meta.by = "normalized"
    BY <2>1 DEF HeaderOf, Encoded
  <2>3. HeaderOf(head).meta.by = "source"
    BY DEF SourceAccepted
  <2>4. QED
    BY <2>2, <2>3
<1>2. Covers(profile, Adapters[head.id].tensors)
  BY <1>1 DEF HeaderOf, SourceAccepted
<1>3. HeaderOf([id |-> head.id, as |-> profile]) = Encoded(profile, Adapters[head.id])
  BY DEF HeaderOf, Profiles
<1>4. QED
  BY <1>2, <1>3, EncodedCovers

(* What a run that returned published is still there, and its own.         *)
OutputOK ==
  \A n \in Converters : conv[n].phase = "returned" =>
    file[NormalPath].inode = conv[n].staged /\ file[NormalPath].data = StagedData(n)

LEMMA OutputStays ==
  ASSUME OutputSpared, WorkflowInv, OutputOK, [LoraNext]_loraVars
  PROVE  OutputOK'
<1>1. ASSUME conv' = conv, file'[NormalPath] = file[NormalPath]
      PROVE  OutputOK'
  BY <1>1 DEF OutputOK, StagedData
<1>2. ASSUME NEW n \in Converters, ConvStep(n)
      PROVE  OutputOK'
  <2>1. CASE Publish(n) /\ ~Exists(NormalPath)
    <3>1. ASSUME NEW o \in Converters, conv'[o].phase = "returned"
          PROVE  o = n
      <4>1. SUFFICES ASSUME o # n PROVE FALSE
        OBVIOUS
      <4>2. conv[o].phase = "returned"
        BY <2>1, <3>1, <4>1, PublishMoves
      <4>3. file[NormalPath].inode = conv[o].staged /\ conv[o].staged \in 1..clock
        BY <4>2 DEF OutputOK, WorkflowInv, ConvOK, ConvOf, Read
      <4>4. QED
        BY <2>1, <4>3, AbsentFields DEF Exists, WorkflowInv, FilesOK
    <3>2. file'[NormalPath].inode = conv'[n].staged /\ file'[NormalPath].data = StagedData(n)'
      BY <2>1, PublishMoves DEF StagedData
    <3>3. QED
      BY <3>1, <3>2 DEF OutputOK
  <2>2. CASE ~(Publish(n) /\ ~Exists(NormalPath))
    <3>1. file' = file
      BY <1>2, <2>2 DEF ConvStep, Begin, OpenAdapter, Snapshot, ReadHeader, CopyPart, VerifySource, Publish
    <3>2. DOMAIN conv = Converters /\ DOMAIN conv[n] = ConvFields
      BY DEF WorkflowInv, ConvOK, ConvOf
    <3>3. /\ \A o \in Converters \ {n} : conv'[o] = conv[o]
          /\ conv'[n].phase # "returned"
      BY <1>2, <2>2, <3>2 DEF ConvStep, Begin, OpenAdapter, Snapshot, ReadHeader, CopyPart, VerifySource, Publish, To,
                              ConvFields, SourceUnchanged
    <3>4. QED
      BY <3>1, <3>3 DEF OutputOK, StagedData
  <2>3. QED
    BY <2>1, <2>2
<1>3. ASSUME NEW s \in Sessions, FoldStep(s), UNCHANGED conv
      PROVE  OutputOK'
  <2>1. UNCHANGED file
    BY <1>3 DEF FoldStep, FoldOpen, FoldBind, FoldCall, FoldRows, FoldBadBase, FoldReport, FoldClose
  <2>2. QED
    BY <1>1, <1>3, <2>1
<1>4. ASSUME NEW o \in Oracles, OracleStep(o), UNCHANGED <<conv, session, cast>>
      PROVE  OutputOK'
  BY <1>1, <1>4, OracleSpares DEF Spares
<1>5. ASSUME NEW p \in Paths, EditFile(p)
      PROVE  OutputOK'
  <2>1. CASE p = NormalPath
    <3>1. p \in cast /\ cast \in Casts /\ UNCHANGED conv
      BY <1>5 DEF EditFile, WorkflowInv, FilesOK
    <3>2. cast \cap Converters = {}
      BY <2>1, <3>1 DEF OutputSpared
    <3>3. \A n \in Converters : conv[n].phase = "idle"
      BY <3>2 DEF WorkflowInv, ConvOK, ConvOf
    <3>4. QED
      BY <3>1, <3>3 DEF OutputOK
  <2>2. CASE p # NormalPath
    <3>1. file'[NormalPath] = file[NormalPath] /\ UNCHANGED conv
      BY <1>5, <2>2, LoraNormalizeAssumption DEF EditFile, WorkflowInv, FilesOK
    <3>2. QED
      BY <1>1, <3>1
  <2>3. QED
    BY <2>1, <2>2
<1>6. ASSUME NEW d \in DOMAIN Inside, ReplaceDirectory(d)
      PROVE  OutputOK'
  BY <1>1, <1>6, DirectorySpares DEF Spares
<1>7. ASSUME \/ \E p \in Planners : PlanStep(p) /\ UNCHANGED conv
             \/ \E w \in Workers : AuditStep(w) /\ UNCHANGED conv
             \/ \E a \in Aggregators : Aggregate(a) /\ UNCHANGED conv
             \/ HostPrecision \/ UNCHANGED loraVars
      PROVE  OutputOK'
  <2>1. ASSUME NEW p \in Planners, PlanStep(p)
        PROVE  UNCHANGED file
    BY <2>1 DEF PlanStep, PlanStart, PlanOpen, PlanHash, PlanBuild
  <2>2. ASSUME NEW w \in Workers, AuditStep(w)
        PROVE  UNCHANGED file
    BY <2>2 DEF AuditStep, AuditStart, AuditOpen, AuditOperation, AuditReturn
  <2>3. ASSUME NEW a \in Aggregators, Aggregate(a)
        PROVE  UNCHANGED file
    BY <2>3 DEF Aggregate
  <2>4. UNCHANGED <<file, conv>>
    BY <1>7, <2>1, <2>2, <2>3 DEF HostPrecision, loraVars
  <2>5. QED
    BY <1>1, <2>4
<1>8. QED
  BY <1>2, <1>3, <1>4, <1>5, <1>6, <1>7 DEF LoraNext

LEMMA OutputIsNormalized ==
  ASSUME WorkflowInv, OutputOK
  PROVE  PublishedIsNormalized
<1> SUFFICES ASSUME NEW n \in Converters, conv[n].phase = "returned"
             PROVE  /\ file[NormalPath].inode = conv[n].staged
                    /\ file[NormalPath].data = Normalized(conv[n].profile, conv[n].held.data)
                    /\ NormalizedAccepted(conv[n].profile, HeaderOf(file[NormalPath].data.head))
  BY DEF PublishedIsNormalized
<1> DEFINE held == conv[n].held.data
<1>1. /\ conv[n].head = held.head /\ conv[n].parts \in Seq({held.body}) /\ Len(conv[n].parts) = 2
      /\ conv[n].profile \in Profiles /\ conv[n].head.id \in DOMAIN Adapters
      /\ SourceAccepted(conv[n].profile, HeaderOf(conv[n].head))
  BY DEF WorkflowInv, ConvOK, ConvOf, Read, Copied
<1>2. conv[n].parts[1] = held.body /\ conv[n].parts[2] = held.body
  BY <1>1
<1>3. StagedData(n) = [head |-> [id |-> held.head.id, as |-> conv[n].profile], body |-> held.body]
  BY <1>1, <1>2 DEF StagedData
<1>4. NormalizedAccepted(conv[n].profile, HeaderOf([id |-> held.head.id, as |-> conv[n].profile]))
  BY <1>1, AcceptedIsSource
<1>5. QED
  BY <1>3, <1>4 DEF OutputOK, Normalized

(* A run of normalization that returned published the normalization of one *)
(* content the source had, accepted by its profile, and it stays: for any  *)
(* number of runs racing for the output and any edits of the source, while *)
(* nobody else writes the output path (normalize.py 345-430).              *)
THEOREM PublishesNormalized ==
  ASSUME OutputSpared
  PROVE  LoraSpec => []PublishedIsNormalized
<1>1. LoraInit => OutputOK
  BY DEF LoraInit, ConvInit, OutputOK
<1>2. WorkflowInv /\ OutputOK /\ [LoraNext]_loraVars => OutputOK'
  BY OutputStays
<1>3. WorkflowInv /\ OutputOK => PublishedIsNormalized
  BY OutputIsNormalized
<1>4. QED
  BY <1>1, <1>2, <1>3, WorkflowHolds, PTL DEF LoraSpec

-----------------------------------------------------------------------------
(* The rows an audit reads.                                                *)

(* Where the windows of an audit cut the rows of a partition               *)
(* (_audit_operation, bake_audit.py 591).                                  *)
WindowCut(first, last, chunk) ==
  [k \in 0..((last - first + chunk - 1) \div chunk) |->
     IF first + k * chunk < last THEN first + k * chunk ELSE last]

(* How many windows those are.                                             *)
WindowCount(first, last, chunk) == (last - first + chunk - 1) \div chunk

(* The windows are the tiles of that cut.                                  *)
WindowsTile(N, first, last, chunk, n, cut) ==
  /\ n \in Nat /\ Tiles(cut, n, N) /\ cut[0] = first /\ cut[n] = last
  /\ Windows(first, last, chunk) = [k \in 1..n |-> [first |-> cut[k - 1], last |-> cut[k]]]

(* The windows of a partition divide it, for any chunk.                    *)
LEMMA WindowTiles ==
  ASSUME NEW N \in Nat, NEW first \in 0..N, NEW last \in first..N, NEW chunk \in Nat \ {0}
  PROVE  WindowsTile(N, first, last, chunk, WindowCount(first, last, chunk), WindowCut(first, last, chunk))
<1> DEFINE d == last - first
           n == WindowCount(first, last, chunk)
           cut == WindowCut(first, last, chunk)
<1>1. d \in Nat /\ n = (d + chunk - 1) \div chunk
  BY DEF WindowCount
<1>c. cut = [k \in 0..n |-> IF first + k * chunk < last THEN first + k * chunk ELSE last]
  BY DEF WindowCut, WindowCount
<1> HIDE DEF n, cut
<1>2. n \in Nat /\ n * chunk >= d /\ \A k \in 1..n : (k - 1) * chunk < d
  <2> HIDE DEF d
  <2>1. QED
    BY <1>1, CeilingDivision
<1>3. \A k \in 0..n : cut[k] = IF first + k * chunk < last THEN first + k * chunk ELSE last
  BY <1>c
<1>4. \A k \in 0..n : k * chunk \in Nat
  BY <1>2
<1>5. \A k \in 1..n : cut[k - 1] = first + (k - 1) * chunk
  <2> SUFFICES ASSUME NEW k \in 1..n PROVE cut[k - 1] = first + (k - 1) * chunk
    OBVIOUS
  <2>1. k - 1 \in 0..n /\ (k - 1) * chunk < d
    BY <1>2
  <2>2. (k - 1) * chunk \in Nat
    BY <1>4, <2>1
  <2>3. first + (k - 1) * chunk < last
    BY <2>1, <2>2
  <2>4. QED
    BY <1>3, <2>1, <2>3
<1>6. \A k \in 0..n : cut[k] \in first..last
  BY <1>3, <1>4
<1>7. cut[0] = first
  <2>1. cut[0] = IF first + 0 * chunk < last THEN first + 0 * chunk ELSE last
    BY <1>2, <1>3
  <2>2. 0 * chunk = 0
    OBVIOUS
  <2>3. QED
    BY <2>1, <2>2
<1>8. cut[n] = last
  <2>1. cut[n] = IF first + n * chunk < last THEN first + n * chunk ELSE last
    BY <1>2, <1>3
  <2>2. n * chunk \in Nat /\ n * chunk >= last - first
    BY <1>2, <1>4
  <2>3. QED
    BY <2>1, <2>2
<1>9. \A k \in 1..n : cut[k - 1] <= cut[k]
  <2> SUFFICES ASSUME NEW k \in 1..n PROVE cut[k - 1] <= cut[k]
    OBVIOUS
  <2>0. k - 1 \in 0..n
    BY <1>2
  <2>1. cut[k - 1] = first + (k - 1) * chunk /\ cut[k - 1] \in first..last
    BY <1>5, <1>6, <2>0
  <2>2. cut[k] = IF first + k * chunk < last THEN first + k * chunk ELSE last
    BY <1>3
  <2>3. (k - 1) * chunk + chunk = k * chunk /\ (k - 1) * chunk \in Nat /\ k * chunk \in Nat
    BY <1>4
  <2>4. QED
    BY <2>1, <2>2, <2>3
<1>10. Tiles(cut, n, N)
  <2>1. cut = [k \in 0..n |-> cut[k]]
    BY <1>c
  <2>2. \A k \in 0..n : cut[k] \in 0..N
    BY <1>6
  <2>3. QED
    BY <1>9, <2>1, <2>2 DEF Tiles
<1>11. Windows(first, last, chunk) = [k \in 1..n |-> [first |-> cut[k - 1], last |-> cut[k]]]
  <2>1. Windows(first, last, chunk) =
          [k \in 1..n |-> [first |-> first + (k - 1) * chunk,
                           last |-> IF first + k * chunk < last THEN first + k * chunk ELSE last]]
    BY <1>1 DEF Windows
  <2>2. \A k \in 1..n : k \in 0..n
    OBVIOUS
  <2>3. QED
    BY <1>3, <1>5, <2>1, <2>2
<1>12. QED
  BY <1>2, <1>7, <1>8, <1>10, <1>11 DEF WindowsTile, n, cut

(* The base row of every row of B, in the order of B.                      *)
RowOrder(op) ==
  IF op.layout = "grouped-qkv" THEN BaseOrder ELSE [i \in 1..op.shape[1] |-> i - 1]

(* The partitions divide the rows of op.                                   *)
PartOK(op, part, a, b) ==
  /\ part.first = a /\ part.last = b
  /\ part.rows = IF op.layout = "grouped-qkv" THEN Piece(BaseOrder, a, b) ELSE <<>>
  /\ op.layout = "grouped-qkv" => a < b

(* The partitions of op are tiles of its rows, in order, all of them.      *)
PartsTile(op, specs, cut, n) ==
  /\ Len(specs) = n /\ n \in Nat
  /\ Tiles(cut, n, op.shape[1]) /\ cut[0] = 0 /\ cut[n] = op.shape[1]
  /\ \A p \in 1..n : PartOK(op, specs[p], cut[p - 1], cut[p])

(* An operation has rows, a fused one those of the layout.                 *)
OpOK(op) ==
  /\ op.shape[1] \in Nat \ {0}
  /\ op.layout = "grouped-qkv" => op.shape[1] = QkvRows(Layout)

(* That order has every row of the operation.                              *)
LEMMA RowOrderIs ==
  ASSUME NEW op, OpOK(op)
  PROVE  RowOrder(op) \in Seq(Nat) /\ Len(RowOrder(op)) = op.shape[1]
<1>1. CASE op.layout = "grouped-qkv"
  <2>1. Layout \in Layouts
    BY DimsAssumption DEF Layouts
  <2>2. BaseOrder \in Seq(Nat) /\ Len(BaseOrder) = QkvRows(Layout)
    BY <2>1, ForwardIs DEF BaseOrder
  <2>3. QED
    BY <1>1, <2>2 DEF RowOrder, OpOK
<1>2. CASE op.layout # "grouped-qkv"
  <2> DEFINE out == op.shape[1]
  <2>1. out \in Nat
    BY DEF OpOK
  <2>2. RowOrder(op) = [i \in 1..out |-> i - 1]
    BY <1>2 DEF RowOrder
  <2> HIDE DEF out
  <2>3. RowOrder(op) \in Seq(Nat) /\ Len(RowOrder(op)) = out
    BY <2>1, <2>2
  <2>4. QED
    BY <2>3 DEF out
<1>3. QED
  BY <1>1, <1>2

(* A window of a partition is that piece of the order.                     *)
LEMMA WindowIsPiece ==
  ASSUME NEW op, OpOK(op), NEW part, NEW a \in Nat, NEW b \in a..op.shape[1], PartOK(op, part, a, b),
         NEW w, NEW c \in a..b, NEW d \in c..b, w.first = c, w.last = d
  PROVE  WindowRows(part, w) = Piece(RowOrder(op), c, d)
<1>1. part.first = a /\ part.last = b
  BY DEF PartOK
<1>2. CASE op.layout = "grouped-qkv"
  <2> DEFINE N == Len(BaseOrder)
  <2>1. BaseOrder \in Seq(Nat) /\ N = op.shape[1] /\ RowOrder(op) = BaseOrder
    BY <1>2, RowOrderIs DEF RowOrder
  <2>2. part.rows = Piece(BaseOrder, a, b) /\ a < b
    BY <1>2 DEF PartOK
  <2>3. part.rows \in Seq(Nat) /\ Len(part.rows) = b - a
    <3>1. N \in Nat /\ Lists(BaseOrder, Nat, N)
      BY <2>1 DEF Lists
    <3>2. a \in 0..N /\ b \in a..N
      BY <2>1
    <3> HIDE DEF N
    <3>3. QED
      BY <2>2, <3>1, <3>2, PieceSeq
  <2>4. part.rows # <<>>
    BY <2>2, <2>3
  <2>5. WindowRows(part, w) = SubSeq(part.rows, (c - a) + 1, d - a)
    BY <1>1, <2>4 DEF WindowRows
  <2>6. SubSeq(part.rows, (c - a) + 1, d - a) = Piece(part.rows, c - a, d - a)
    <3> DEFINE x == c - a  y == d - a  rows == part.rows
    <3>1. rows \in Seq(Nat) /\ x \in 0..Len(rows) /\ y \in x..Len(rows)
      BY <2>3
    <3> HIDE DEF x, y, rows
    <3>2. SubSeq(rows, x + 1, y) = Piece(rows, x, y)
      BY <3>1, SubSeqIs
    <3>3. QED
      BY <3>2 DEF x, y, rows
  <2>7. Piece(part.rows, c - a, d - a) = Piece(BaseOrder, c, d)
    <3>1. (d - a) - (c - a) = d - c
      OBVIOUS
    <3>2. \A i \in 1..d - c : (c - a) + i \in 1..b - a /\ a + ((c - a) + i) = c + i
      OBVIOUS
    <3>3. \A i \in 1..b - a : part.rows[i] = BaseOrder[a + i]
      BY <2>2 DEF Piece
    <3>4. \A i \in 1..d - c : part.rows[(c - a) + i] = BaseOrder[c + i]
      BY <3>2, <3>3
    <3>5. QED
      BY <3>1, <3>4 DEF Piece
  <2>8. QED
    BY <2>1, <2>5, <2>6, <2>7
<1>3. CASE op.layout # "grouped-qkv"
  <2>1. part.rows = <<>>
    BY <1>3 DEF PartOK
  <2>2. WindowRows(part, w) = [i \in 1..d - c |-> c + i - 1]
    BY <2>1 DEF WindowRows
  <2>3. \A i \in 1..d - c : c + i \in 1..op.shape[1] /\ RowOrder(op)[c + i] = c + i - 1
    BY <1>3 DEF RowOrder, OpOK
  <2>4. QED
    BY <2>2, <2>3 DEF Piece
<1>4. QED
  BY <1>2, <1>3

(* The windows of a partition, put together, read its piece of the order.  *)
LEMMA PartIsPiece ==
  ASSUME NEW op, OpOK(op), NEW part, NEW a \in Nat, NEW b \in a..op.shape[1], PartOK(op, part, a, b),
         NEW chunk \in Nat \ {0}, NEW windows, windows = Windows(part.first, part.last, chunk)
  PROVE  FlattenSeq([k \in 1..Len(windows) |-> WindowRows(part, windows[k])]) = Piece(RowOrder(op), a, b)
<1> DEFINE N == op.shape[1]
           n == WindowCount(a, b, chunk)
           cut == WindowCut(a, b, chunk)
           s == [k \in 1..Len(windows) |-> WindowRows(part, windows[k])]
<1>0. N \in Nat /\ a \in 0..N /\ b \in a..N /\ part.first = a /\ part.last = b
  BY DEF OpOK, PartOK
<1>1. /\ n \in Nat /\ Tiles(cut, n, N) /\ cut[0] = a /\ cut[n] = b
      /\ windows = [k \in 1..n |-> [first |-> cut[k - 1], last |-> cut[k]]]
  <2>1. windows = Windows(a, b, chunk)
    BY <1>0
  <2>a. WindowsTile(N, a, b, chunk, n, cut)
    <3> HIDE DEF N
    <3>1. QED
      BY <1>0, WindowTiles
  <2> HIDE DEF N, n, cut
  <2>2. /\ n \in Nat /\ Tiles(cut, n, N) /\ cut[0] = a /\ cut[n] = b
        /\ Windows(a, b, chunk) = [k \in 1..n |-> [first |-> cut[k - 1], last |-> cut[k]]]
    BY <2>a DEF WindowsTile
  <2>3. QED
    BY <2>1, <2>2
<1>2. Len(windows) = n
  BY <1>1
<1>w. \A k \in 0..n : cut[k] \in a..b
  <2>1. cut = [k \in 0..n |-> IF a + k * chunk < b THEN a + k * chunk ELSE b]
    BY DEF WindowCut, WindowCount
  <2>2. \A k \in 0..n : k * chunk \in Nat
    BY <1>1
  <2> HIDE DEF n
  <2>3. QED
    BY <2>1, <2>2
<1> HIDE DEF N, n, cut
<1>3. ASSUME NEW k \in 1..n
      PROVE  WindowRows(part, windows[k]) = Piece(RowOrder(op), cut[k - 1], cut[k])
  <2>1. windows[k].first = cut[k - 1] /\ windows[k].last = cut[k]
    BY <1>1
  <2>2. cut[k - 1] <= cut[k] /\ k - 1 \in 0..n /\ k \in 0..n
    BY <1>1 DEF Tiles
  <2>3. cut[k - 1] \in a..b /\ cut[k] \in cut[k - 1]..b
    BY <1>w, <2>2
  <2>4. QED
    BY <1>0, <2>1, <2>3, WindowIsPiece DEF N
<1>4. TilesOf(s, RowOrder(op), cut, n)
  <2>1. s = [k \in 1..n |-> WindowRows(part, windows[k])]
    BY <1>2
  <2> HIDE DEF s
  <2>2. QED
    BY <1>3, <2>1 DEF TilesOf
<1>5. Lists(RowOrder(op), Nat, N)
  BY RowOrderIs DEF N, Lists
<1> HIDE DEF s
<1>6. FlattenSeq(s) = Piece(RowOrder(op), cut[0], cut[n])
  BY <1>0, <1>1, <1>4, <1>5, FlattenTiles
<1>7. QED
  BY <1>1, <1>6 DEF s

(* Partitions that tile an operation are read as its whole row order.      *)
LEMMA ReadsRowOrder ==
  ASSUME NEW op, OpOK(op), NEW chunk \in Nat \ {0},
         NEW n, NEW cut, PartsTile(op, PartitionSpecs(op), cut, n)
  PROVE  ReadsBase(op, chunk)
<1> DEFINE specs == PartitionSpecs(op)
           N == op.shape[1]
           row(p) == LET part == specs[p]
                         windows == Windows(part.first, part.last, chunk)
                     IN FlattenSeq([k \in 1..Len(windows) |-> WindowRows(part, windows[k])])
           s == [p \in 1..Len(specs) |-> row(p)]
<1>0. /\ Len(specs) = n /\ n \in Nat /\ N \in Nat
      /\ Tiles(cut, n, N) /\ cut[0] = 0 /\ cut[n] = N
      /\ \A p \in 1..n : PartOK(op, specs[p], cut[p - 1], cut[p])
  BY DEF PartsTile, OpOK
<1>1. BaseRowsRead(op, chunk) = FlattenSeq(s)
  BY DEF BaseRowsRead
<1>2. ASSUME NEW p \in 1..n
      PROVE  row(p) = Piece(RowOrder(op), cut[p - 1], cut[p])
  <2>1. p - 1 \in 0..n /\ p \in 0..n
    BY <1>0
  <2>2. cut[p - 1] \in 0..N /\ cut[p] \in 0..N /\ cut[p - 1] <= cut[p]
    BY <1>0, <2>1 DEF Tiles
  <2>3. cut[p - 1] \in Nat /\ cut[p] \in cut[p - 1]..N /\ PartOK(op, specs[p], cut[p - 1], cut[p])
    BY <1>0, <2>2
  <2> DEFINE part == specs[p]
             windows == Windows(part.first, part.last, chunk)
  <2>4. FlattenSeq([k \in 1..Len(windows) |-> WindowRows(part, windows[k])]) = Piece(RowOrder(op), cut[p - 1], cut[p])
    <3> DEFINE a == cut[p - 1]  b == cut[p]
    <3>1. a \in Nat /\ b \in a..op.shape[1] /\ PartOK(op, part, a, b)
      BY <2>3
    <3> HIDE DEF specs, part, a, b
    <3>2. FlattenSeq([k \in 1..Len(windows) |-> WindowRows(part, windows[k])]) = Piece(RowOrder(op), a, b)
      BY <3>1, PartIsPiece
    <3>3. QED
      BY <3>2 DEF a, b
  <2>5. QED
    BY <2>4
<1> HIDE DEF row
<1>3. TilesOf(s, RowOrder(op), cut, n)
  <2>1. s = [p \in 1..n |-> row(p)]
    BY <1>0
  <2> HIDE DEF s
  <2>2. QED
    BY <1>2, <2>1 DEF TilesOf
<1>4. RowOrder(op) \in Seq(Nat) /\ Len(RowOrder(op)) = N
  BY RowOrderIs
<1>5. Lists(RowOrder(op), Nat, N)
  BY <1>0, <1>4 DEF Lists
<1> HIDE DEF s, N
<1>6. FlattenSeq(s) = Piece(RowOrder(op), cut[0], cut[n])
  BY <1>0, <1>3, <1>5, FlattenTiles
<1>7. Piece(RowOrder(op), 0, N) = RowOrder(op)
  <2>1. RowOrder(op) = [i \in 1..N |-> RowOrder(op)[i]]
    BY <1>4
  <2>2. N - 0 = N /\ \A i \in 1..N : 0 + i = i
    BY <1>0
  <2>3. QED
    BY <2>1, <2>2 DEF Piece
<1>8. BaseRowsRead(op, chunk) = RowOrder(op)
  BY <1>0, <1>1, <1>6, <1>7
<1>9. QED
  BY <1>8 DEF ReadsBase, RowOrder

(* Equal partitions tile the rows that their number divides.               *)
LEMMA EqualTiles ==
  ASSUME NEW op, OpOK(op), op.layout # "grouped-qkv", NEW names, NEW n \in Nat \ {0}, Len(names) = n,
         op.shape[1] % n = 0
  PROVE  PartsTile(op, Equal(names, op.shape[1]), [k \in 0..n |-> k * (op.shape[1] \div n)], n)
<1> DEFINE out == op.shape[1]
           width == out \div n
           cut == [k \in 0..n |-> k * width]
           specs == Equal(names, out)
<1>0. out \in Nat \ {0} /\ out % n = 0
  BY DEF OpOK
<1>1. width \in Nat /\ n * width = out
  <2> HIDE DEF out
  <2>1. out = n * (out \div n) + (out % n)
    BY <1>0
  <2>2. out \div n \in Nat
    BY <1>0
  <2>3. QED
    BY <1>0, <2>1, <2>2
<1>2. specs = [k \in 1..n |-> Partition(names[k], (k - 1) * width, k * width, <<>>)]
  BY DEF Equal
<1> HIDE DEF width, specs, out
<1>3. \A k \in 0..n : cut[k] = k * width
  OBVIOUS
<1>4. \A k \in 0..n : k * width \in 0..out
  <2> SUFFICES ASSUME NEW k \in 0..n PROVE k * width \in 0..out
    OBVIOUS
  <2>1. k * width \in Nat
    BY <1>1
  <2>2. (n - k) * width \in Nat
    BY <1>1
  <2>3. k * width + (n - k) * width = n * width
    BY <1>1
  <2>4. QED
    BY <1>0, <1>1, <2>1, <2>2, <2>3
<1>5. ASSUME NEW k \in 1..n
      PROVE  cut[k - 1] = (k - 1) * width /\ cut[k] = k * width /\ cut[k - 1] <= cut[k]
  <2>1. k - 1 \in 0..n /\ k \in 0..n
    OBVIOUS
  <2>2. cut[k - 1] = (k - 1) * width /\ cut[k] = k * width
    BY <1>3, <2>1
  <2>3. (k - 1) * width + width = k * width
    BY <1>1
  <2>4. (k - 1) * width \in Nat
    BY <1>1
  <2>5. QED
    BY <1>1, <2>2, <2>3, <2>4
<1>6. Tiles(cut, n, out)
  <2>1. cut \in [0..n -> 0..out]
    BY <1>4
  <2>2. \A k \in 1..n : cut[k - 1] <= cut[k]
    BY <1>5
  <2> HIDE DEF cut
  <2>3. QED
    BY <2>1, <2>2 DEF Tiles
<1>7. cut[0] = 0 /\ cut[n] = out
  <2>1. cut[0] = 0 * width /\ cut[n] = n * width
    BY <1>3
  <2>2. 0 * width = 0
    BY <1>1
  <2>3. QED
    BY <1>1, <2>1, <2>2
<1>8. ASSUME NEW k \in 1..n
      PROVE  PartOK(op, specs[k], cut[k - 1], cut[k])
  <2>1. /\ specs[k].first = (k - 1) * width /\ specs[k].last = k * width /\ specs[k].rows = <<>>
    BY <1>2 DEF Partition
  <2> HIDE DEF cut
  <2>2. QED
    BY <1>5, <2>1 DEF PartOK
<1>9. Len(specs) = n
  BY <1>2
<1> HIDE DEF cut
<1>10. PartsTile(op, specs, cut, n)
  BY <1>6, <1>7, <1>8, <1>9 DEF PartsTile, out
<1>11. QED
  BY <1>10 DEF cut, specs, out, width

(* One partition of everything is a tile.                                  *)
LEMMA WholeTiles ==
  ASSUME NEW op, OpOK(op), op.layout # "grouped-qkv"
  PROVE  PartsTile(op, <<Partition("all", 0, op.shape[1], <<>>)>>, [k \in 0..1 |-> IF k = 0 THEN 0 ELSE op.shape[1]], 1)
<1> DEFINE out == op.shape[1]
           cut == [k \in 0..1 |-> IF k = 0 THEN 0 ELSE out]
           specs == <<Partition("all", 0, out, <<>>)>>
<1>0. out \in Nat \ {0}
  BY DEF OpOK
<1> HIDE DEF out
<1>1. cut[0] = 0 /\ cut[1] = out /\ cut \in [0..1 -> 0..out]
  BY <1>0
<1>2. Tiles(cut, 1, out)
  <2> HIDE DEF cut
  <2>1. QED
    BY <1>0, <1>1 DEF Tiles
<1>3. Len(specs) = 1 /\ specs[1].first = 0 /\ specs[1].last = out /\ specs[1].rows = <<>>
  BY DEF Partition
<1> HIDE DEF cut, specs
<1>4. \A p \in 1..1 : PartOK(op, specs[p], cut[p - 1], cut[p])
  BY <1>1, <1>3 DEF PartOK
<1>5. PartsTile(op, specs, cut, 1)
  BY <1>1, <1>2, <1>3, <1>4 DEF PartsTile, out
<1>6. QED
  BY <1>5 DEF cut, specs, out

(* The query, key and value rows tile a fused matrix.                      *)
LEMMA QkvTiles ==
  ASSUME NEW op, OpOK(op), op.layout = "grouped-qkv",
         op.module[3] = "attn.qkv_proj", op.module[1] # "final_layer"
  PROVE  \E cut : PartsTile(op, PartitionSpecs(op), cut, 3)
<1> DEFINE out == op.shape[1]
           queries == Layout.groups * Layout.heads * Layout.dim
           keys == Layout.groups * Layout.dim
           cut == [k \in 0..3 |-> CASE k = 0 -> 0 [] k = 1 -> queries [] k = 2 -> queries + keys [] k = 3 -> out]
           qkv(name, first, last) == Partition(name, first, last, SubSeq(BaseOrder, first + 1, last))
           specs == <<qkv("q", 0, queries), qkv("k", queries, queries + keys), qkv("v", queries + keys, out)>>
<1>1. PartitionSpecs(op) = specs
  <2>1. specs = <<qkv("q", 0, queries), qkv("k", queries, queries + keys), qkv("v", queries + keys, out)>>
    OBVIOUS
  <2> HIDE DEF queries, keys
  <2>2. QED
    BY DEF PartitionSpecs, queries, keys, IsAdaln, Adaln
<1>2. queries \in Nat \ {0} /\ keys \in Nat \ {0} /\ out = queries + keys + keys
  <2> DEFINE G == Layout.groups  H == Layout.heads  D == Layout.dim
  <2>1. G \in Nat \ {0} /\ H \in Nat \ {0} /\ D \in Nat \ {0}
    BY DimsAssumption
  <2>2. out = G * ((H + 2) * D)
    BY DEF OpOK, QkvRows, PerGroup
  <2>3. queries = G * H * D /\ keys = G * D
    OBVIOUS
  <2> HIDE DEF G, H, D, queries, keys, out
  <2>4. G * H * D \in Nat \ {0} /\ G * D \in Nat \ {0}
    BY <2>1
  <2>5. G * ((H + 2) * D) = G * H * D + G * D + G * D
    BY <2>1
  <2>6. QED
    BY <2>2, <2>3, <2>4, <2>5
<1>3. BaseOrder \in Seq(Nat) /\ Len(BaseOrder) = out
  BY RowOrderIs DEF RowOrder
<1> HIDE DEF queries, keys, out
<1>4. cut[0] = 0 /\ cut[1] = queries /\ cut[2] = queries + keys /\ cut[3] = out
  OBVIOUS
<1>5. cut = [k \in 0..3 |-> cut[k]]
  OBVIOUS
<1> HIDE DEF cut
<1>6. Tiles(cut, 3, out)
  <2>1. \A k \in 0..3 : cut[k] \in 0..out
    BY <1>2, <1>4
  <2>2. \A k \in 1..3 : cut[k - 1] <= cut[k]
    BY <1>2, <1>4
  <2>3. QED
    BY <1>5, <2>1, <2>2 DEF Tiles
<1>7. ASSUME NEW name, NEW a \in 0..out, NEW b \in a..out, a < b
      PROVE  PartOK(op, qkv(name, a, b), a, b)
  <2>1. SubSeq(BaseOrder, a + 1, b) = Piece(BaseOrder, a, b)
    BY <1>3, SubSeqIs
  <2>2. qkv(name, a, b).first = a /\ qkv(name, a, b).last = b /\ qkv(name, a, b).rows = SubSeq(BaseOrder, a + 1, b)
    BY DEF Partition
  <2>3. QED
    BY <1>7, <2>1, <2>2 DEF PartOK
<1>8. Len(specs) = 3 /\ specs[1] = qkv("q", 0, queries) /\ specs[2] = qkv("k", queries, queries + keys)
      /\ specs[3] = qkv("v", queries + keys, out)
  OBVIOUS
<1> HIDE DEF specs, qkv
<1>9. \A p \in 1..3 : PartOK(op, specs[p], cut[p - 1], cut[p])
  <2>1. PartOK(op, specs[1], cut[0], cut[1])
    BY <1>2, <1>4, <1>7, <1>8
  <2>2. PartOK(op, specs[2], cut[1], cut[2])
    BY <1>2, <1>4, <1>7, <1>8
  <2>3. PartOK(op, specs[3], cut[2], cut[3])
    BY <1>2, <1>4, <1>7, <1>8
  <2>4. QED
    BY <2>1, <2>2, <2>3
<1>10. PartsTile(op, specs, cut, 3)
  BY <1>4, <1>6, <1>8, <1>9 DEF PartsTile, out
<1>11. QED
  BY <1>1, <1>10

(* What an operation is, for any of the adapted modules.                   *)
LEMMA OperationOK ==
  ASSUME NEW m \in AllModules, NEW shard, NEW op, op = BakeOperation(m, shard)
  PROVE  OpOK(op) /\ (op.layout = "grouped-qkv" <=> m[3] = "attn.qkv_proj")
         /\ op.module = m /\ op.shard = shard /\ op.shape[1] = Dim(m).out
BY DimsAssumption DEF OpOK, BakeOperation

(* The final layer adapts its modulation only.                             *)
LEMMA FinalIsAdaln ==
  ASSUME NEW m \in AllModules, m[1] = "final_layer"
  PROVE  m[3] = Adaln
BY DEF AllModules, ExpectedModules

(* The partitions of every operation tile it (_partition_specs,            *)
(* bake_audit.py 290).                                                     *)
LEMMA OperationTiles ==
  ASSUME NEW m \in AllModules, NEW shard, NEW op, op = BakeOperation(m, shard)
  PROVE  \E n, cut : PartsTile(op, PartitionSpecs(op), cut, n)
<1> DEFINE out == op.shape[1]
           channels == <<"shift_msa", "scale_msa", "gate_msa", "shift_mlp", "scale_mlp", "gate_mlp">>
           names == FlattenSeq([k \in 1..3 |-> channels])
           grouped == op.layout = "grouped-qkv"
           fc1 == m[3] = "mlp.fc1"
           final == m[1] = "final_layer"
           adaln == m[3] = Adaln /\ m[1] # "final_layer"
<1>0. /\ OpOK(op) /\ (grouped <=> m[3] = "attn.qkv_proj") /\ op.module = m /\ op.shape[1] = Dim(m).out
      /\ final => m[3] = Adaln
  BY OperationOK, FinalIsAdaln
<1>1. /\ fc1 \/ final => out % 2 = 0
      /\ adaln => out % 18 = 0
  BY <1>0, DimsAssumption DEF IsAdaln
<1>2. CASE grouped
  <2>1. op.module[3] = "attn.qkv_proj" /\ op.module[1] # "final_layer"
    BY <1>0, <1>2 DEF Adaln
  <2>2. \E cut : PartsTile(op, PartitionSpecs(op), cut, 3)
    BY <1>0, <1>2, <2>1, QkvTiles
  <2>3. QED
    BY <2>2
<1>3. CASE ~grouped /\ fc1
  <2>1. PartitionSpecs(op) = Equal(<<"gate", "up">>, out)
    BY <1>0, <1>3 DEF PartitionSpecs, Adaln, IsAdaln
  <2>2. Len(<<"gate", "up">>) = 2 /\ out % 2 = 0 /\ 2 \in Nat \ {0}
    BY <1>1, <1>3
  <2>3. PartsTile(op, Equal(<<"gate", "up">>, out), [k \in 0..2 |-> k * (out \div 2)], 2)
    BY <1>0, <1>3, <2>2, EqualTiles
  <2>4. QED
    BY <2>1, <2>3
<1>4. CASE ~grouped /\ final
  <2>1. PartitionSpecs(op) = Equal(<<"shift", "scale">>, out)
    BY <1>0, <1>4 DEF PartitionSpecs, Adaln, IsAdaln
  <2>2. Len(<<"shift", "scale">>) = 2 /\ out % 2 = 0 /\ 2 \in Nat \ {0}
    BY <1>1, <1>4
  <2>3. PartsTile(op, Equal(<<"shift", "scale">>, out), [k \in 0..2 |-> k * (out \div 2)], 2)
    BY <1>0, <1>4, <2>2, EqualTiles
  <2>4. QED
    BY <2>1, <2>3
<1>5. CASE ~grouped /\ adaln
  <2>1. PartitionSpecs(op) = Equal(names, out)
    BY <1>0, <1>5 DEF PartitionSpecs, Adaln, IsAdaln
  <2>2. Len(names) = 18
    <3> DEFINE s == [k \in 1..3 |-> channels]
    <3> DEFINE S == {"shift_msa", "scale_msa", "gate_msa", "shift_mlp", "scale_mlp", "gate_mlp"}
    <3>1. channels \in Seq(S) /\ Len(channels) = 6
      OBVIOUS
    <3>2. \A k \in 1..3 : s[k] = channels
      OBVIOUS
    <3>3. s = [k \in 1..3 |-> s[k]]
      OBVIOUS
    <3> HIDE DEF s, channels, S
    <3>4. SeqsOfLen(s, S, 3, 6)
      BY <3>1, <3>2, <3>3 DEF SeqsOfLen, SeqsOf
    <3>5. LaidOut(FlattenSeq(s), s, S, 3, 6)
      BY <3>4, FlattenUniform
    <3>6. Len(FlattenSeq(s)) = 18
      BY <3>5 DEF LaidOut
    <3>7. QED
      BY <3>6 DEF s
  <2> HIDE DEF names
  <2>3. out % 18 = 0 /\ 18 \in Nat \ {0}
    BY <1>1, <1>5
  <2>4. PartsTile(op, Equal(names, out), [k \in 0..18 |-> k * (out \div 18)], 18)
    BY <1>0, <1>5, <2>2, <2>3, EqualTiles
  <2>5. QED
    BY <2>1, <2>4
<1>6. CASE ~grouped /\ ~fc1 /\ ~final /\ ~adaln
  <2>1. PartitionSpecs(op) = <<Partition("all", 0, out, <<>>)>>
    BY <1>0, <1>6 DEF PartitionSpecs, Adaln, IsAdaln
  <2>2. QED
    BY <1>0, <1>6, <2>1, WholeTiles
<1>7. QED
  BY <1>2, <1>3, <1>4, <1>5, <1>6

(* An audit reads for every row of B its own base row, and all of them,    *)
(* for any chunk of rows (bake_audit.py 581-653).                          *)
LEMMA AuditReadsBase ==
  ASSUME NEW i \in 1..Len(PlanOperations)
  PROVE  ReadsBase(PlanOperations[i], AuditRows)
<1> DEFINE m == ModuleOrder[i]
           op == BakeOperation(m, WeightMap[m])
<1>1. PlanOperations[i] = op /\ m \in AllModules
  BY OrderAssumption DEF PlanOperations, Operations
<1> HIDE DEF op
<1>2. OpOK(op)
  BY <1>1, OperationOK DEF op
<1>3. PICK n, cut : PartsTile(op, PartitionSpecs(op), cut, n)
  BY <1>1, OperationTiles DEF op
<1>4. QED
  BY <1>1, <1>2, <1>3, ReadsRowOrder, BakeAuditAssumption

-----------------------------------------------------------------------------
(* Files that are held open.                                               *)

(* The paths an audit or a run of the oracle holds open.                   *)
Watched == Range(Inputs) \cup Range(OracleInputs)

(* A file the clock has given that no conversion is still to publish.      *)
SeenBy(h, now, convs) ==
  /\ h = Absent \/ (h.inode \in 1..now /\ h.stamp \in 1..now)
  /\ \A n \in Converters : convs[n].phase \in {"copying", "verified"} => h.stamp # convs[n].staged

(* A path that still has the file h, or h was no file.                     *)
KeptIn(p, h, files) == h = Absent \/ files[p] = h

(* No watched path has a file the clock has yet to give.                   *)
WatchedOK == \A p \in Watched : SeenBy(file[p], clock, conv)

(* What a step may do to a watched path.                                   *)
Changed(p) ==
  \/ file'[p] = file[p]
  \/ file'[p] = Absent
  \/ /\ clock' = clock + 1
     /\ file'[p].stamp = clock + 1 /\ file'[p].inode \in 1..clock'
  \/ \E n \in Converters :
       /\ Stages(n)
       /\ file'[p].stamp = conv[n].staged /\ file'[p].inode = conv[n].staged
       /\ \A m \in Converters : Stages(m)' => Stages(m) /\ conv'[m].staged = conv[m].staged /\ conv[m].staged # conv[n].staged

(* A staging file that a conversion has next is one it had, or is new.     *)
StagesMove ==
  \A n \in Converters : Stages(n)' =>
    \/ Stages(n) /\ conv'[n].staged = conv[n].staged
    \/ clock' = clock + 1 /\ conv'[n].staged = clock + 1 /\ UNCHANGED file

(* What any step may do to files and staging files.                        *)
FilesMove ==
  /\ clock \in Nat /\ clock' \in {clock, clock + 1}
  /\ \A n \in Converters : Stages(n) => conv[n].staged \in 1..clock
  /\ StagesMove
  /\ \A p \in Watched : Changed(p)

(* A file somebody has seen stays one that is not to be published, and     *)
(* once it is gone from a path it never comes back.                        *)
Onward ==
  \A h : SeenBy(h, clock, conv) =>
    /\ SeenBy(h, clock', conv')
    /\ \A p \in Watched : KeptIn(p, h, file') => KeptIn(p, h, file)

(* Such a step goes onward.                                                *)
LEMMA MoveOnward ==
  ASSUME FilesMove, NEW h, SeenBy(h, clock, conv)
  PROVE  /\ SeenBy(h, clock', conv')
         /\ \A p \in Watched : KeptIn(p, h, file') => KeptIn(p, h, file)
<1>1. clock \in Nat /\ clock' \in Nat /\ clock <= clock'
  BY DEF FilesMove
<1>2. SeenBy(h, clock', conv')
  <2>1. h = Absent \/ (h.inode \in 1..clock' /\ h.stamp \in 1..clock')
    BY <1>1 DEF SeenBy
  <2>2. ASSUME NEW n \in Converters, Stages(n)'
        PROVE  h.stamp # conv'[n].staged
    <3>1. CASE Stages(n) /\ conv'[n].staged = conv[n].staged
      BY <3>1 DEF SeenBy, Stages
    <3>2. CASE clock' = clock + 1 /\ conv'[n].staged = clock + 1
      <4>1. h.stamp \in 0..clock
        BY <1>1, AbsentFields DEF SeenBy
      <4>2. QED
        BY <1>1, <3>2, <4>1
    <3>3. QED
      BY <2>2, <3>1, <3>2 DEF FilesMove, StagesMove
  <2>3. QED
    BY <2>1, <2>2 DEF SeenBy, Stages
<1>3. ASSUME NEW p \in Watched, KeptIn(p, h, file')
      PROVE  KeptIn(p, h, file)
  <2>1. SUFFICES ASSUME h # Absent, file'[p] = h, file[p] # h
                 PROVE  FALSE
    BY <1>3 DEF KeptIn
  <2>2. h.inode \in 1..clock /\ h.stamp \in 1..clock
    BY <2>1 DEF SeenBy
  <2>3. CASE file'[p].stamp = clock + 1
    BY <1>1, <2>1, <2>2, <2>3
  <2>4. CASE \E n \in Converters : Stages(n) /\ file'[p].stamp = conv[n].staged
    BY <2>1, <2>4 DEF SeenBy, Stages
  <2>5. QED
    BY <2>1, <2>3, <2>4 DEF FilesMove, Changed
<1>4. QED
  BY <1>2, <1>3

(* And the watched paths stay as they should.                              *)
LEMMA MoveWatched ==
  ASSUME FilesMove, WatchedOK
  PROVE  Onward /\ WatchedOK'
<1>1. Onward
  BY MoveOnward DEF Onward
<1>2. clock \in Nat /\ clock' \in Nat /\ clock <= clock'
  BY DEF FilesMove
<1>3. ASSUME NEW p \in Watched
      PROVE  SeenBy(file'[p], clock', conv')
  <2>0. SeenBy(file[p], clock, conv)
    BY DEF WatchedOK
  <2>1. CASE file'[p] = file[p]
    BY <1>1, <2>0, <2>1 DEF Onward
  <2>2. CASE file'[p] = Absent
    <3>1. SeenBy(file'[p], clock, conv)
      BY <2>2, AbsentFields DEF SeenBy, Stages, FilesMove
    <3>2. QED
      BY <1>1, <2>0, <2>2, <3>1 DEF Onward
  <2>3. CASE clock' = clock + 1 /\ file'[p].stamp = clock + 1 /\ file'[p].inode \in 1..clock' /\ file'[p] # file[p]
    <3>1. ASSUME NEW n \in Converters, Stages(n)'
          PROVE  file'[p].stamp # conv'[n].staged
      <4>1. UNCHANGED file \/ conv'[n].staged \in 1..clock
        BY <3>1 DEF FilesMove, StagesMove
      <4>2. QED
        BY <1>2, <2>3, <4>1
    <3>2. file'[p].stamp \in 1..clock'
      BY <1>2, <2>3
    <3>3. QED
      BY <2>3, <3>1, <3>2 DEF SeenBy, Stages
  <2>4. CASE \E n \in Converters :
               /\ Stages(n)
               /\ file'[p].stamp = conv[n].staged /\ file'[p].inode = conv[n].staged
               /\ \A m \in Converters : Stages(m)' => Stages(m) /\ conv'[m].staged = conv[m].staged /\ conv[m].staged # conv[n].staged
    BY <1>2, <2>4 DEF SeenBy, Stages, FilesMove
  <2>5. QED
    BY <2>1, <2>2, <2>3, <2>4 DEF FilesMove, Changed
<1>4. QED
  BY <1>1, <1>3 DEF WatchedOK

(* What is held open is a path, the adapter last.                          *)
LEMMA InputPaths ==
  /\ Len(Shards) \in Nat /\ Len(Inputs) = Len(Shards) + 1 /\ Inputs[Len(Inputs)] = NormalPath
  /\ \A k \in 1..Len(Shards) : Inputs[k] = Shards[k]
  /\ \A k \in 1..Len(Inputs) : Inputs[k] \in Watched
  /\ \A k \in 1..Len(OracleInputs) : OracleInputs[k] \in Watched
  /\ NormalPath \in Watched /\ Watched \subseteq Paths
<1>1. Shards \in Seq(Paths) /\ <<NormalPath>> \in Seq(Paths) /\ OracleInputs \in Seq(Paths)
  BY BakeAuditAssumption, OracleFilesAssumption
<1>2. /\ Inputs \in Seq(Paths) /\ Len(Shards) \in Nat /\ Len(Inputs) = Len(Shards) + 1
      /\ Inputs[Len(Inputs)] = NormalPath
      /\ \A k \in 1..Len(Shards) : Inputs[k] = Shards[k]
  BY <1>1 DEF Inputs
<1>3. \A k \in 1..Len(Inputs) : Inputs[k] \in Range(Inputs)
  BY <1>2 DEF Range
<1>4. \A k \in 1..Len(OracleInputs) : OracleInputs[k] \in Range(OracleInputs)
  BY <1>1 DEF Range
<1>5. Range(Inputs) \subseteq Paths /\ Range(OracleInputs) \subseteq Paths
  BY <1>1, <1>2 DEF Range
<1>6. QED
  BY <1>2, <1>3, <1>4, <1>5 DEF Watched

(* The directories of the oracle hold no watched path, and only one of     *)
(* them the receipt.                                                       *)
LEMMA InsidePaths ==
  /\ \A d \in DOMAIN Inside : Inside[d] \cap Watched = {}
  /\ "evidence" \in DOMAIN Inside /\ Inside["evidence"] = {ReceiptPath}
  /\ ReceiptPath \notin Watched /\ ReceiptPath \in Paths
  /\ \A d \in DOMAIN Inside : d # "evidence" => ReceiptPath \notin Inside[d]
<1>1. \A d \in DOMAIN Inside : Inside[d] \cap Watched = {}
  BY LoraWorkflowAssumption DEF Watched
<1>2. "evidence" \in DOMAIN Inside /\ Inside["evidence"] = {ReceiptPath}
  BY DEF Inside
<1>3. ASSUME NEW d \in DOMAIN Inside, d # "evidence"
      PROVE  ReceiptPath \notin Inside[d]
  <2>1. d \in DOMAIN Candidates \ {"evidence"} /\ Inside[d] = {Candidates[d][k] : k \in 1..Len(Candidates[d])}
    BY <1>3 DEF Inside
  <2>2. Candidates[d] \in Seq(Paths) /\ ReceiptPath \notin Range(Candidates[d])
    BY <2>1, OracleFilesAssumption
  <2>3. \A k \in 1..Len(Candidates[d]) : Candidates[d][k] \in Range(Candidates[d])
    BY <2>2 DEF Range
  <2>4. QED
    BY <2>1, <2>2, <2>3
<1>4. QED
  BY <1>1, <1>2, <1>3, OracleFilesAssumption

(* What a run of the oracle writes: a candidate of its own, or the         *)
(* receipt.                                                                *)
OracleWrites(o) ==
  /\ clock' \in {clock, clock + 1}
  /\ \/ UNCHANGED file
     \/ \E path \in Inside[TempOf[o]] : file' = [file EXCEPT ![path] = oracle[o].staged]
     \/ OracleReturn(o) /\ ~Exists(ReceiptPath) /\ file' = [file EXCEPT ![ReceiptPath] = oracle[o].staged]

(* A run writes nothing else.                                              *)
LEMMA OracleWritesOnly ==
  ASSUME WorkflowInv, NEW o \in Oracles, OracleStep(o)
  PROVE  OracleWrites(o)
<1>1. TempOf[o] \in DOMAIN Inside
  BY FoldOracleAssumption DEF Inside
<1>2. oracle[o].phase = "staged" => Candidate(o, Current(o)) \in Inside[TempOf[o]]
  <2>1. SUFFICES ASSUME oracle[o].phase = "staged"
                 PROVE  Candidate(o, Current(o)) \in Inside[TempOf[o]]
    OBVIOUS
  <2>2. Current(o) \in 1..Len(Candidates[TempOf[o]]) /\ TempOf[o] # "evidence"
    BY <2>1, FoldOracleAssumption DEF WorkflowInv, OraclesOK
  <2>3. Inside[TempOf[o]] = {Candidates[TempOf[o]][k] : k \in 1..Len(Candidates[TempOf[o]])}
    BY <1>1, <2>2 DEF Inside
  <2>4. QED
    BY <2>2, <2>3 DEF Candidate
<1>3. CASE OracleLink(o)
  BY <1>2, <1>3 DEF OracleLink, LinkInto, Fails, OracleWrites
<1>4. CASE OracleReturn(o)
  BY <1>4 DEF OracleReturn, LinkInto, Fails, OracleWrites
<1>5. CASE ~OracleLink(o) /\ ~OracleReturn(o)
  BY <1>5 DEF OracleStep, OracleBind, OracleLoad, OracleRehash, OracleReference, OracleExecutor, OracleOpen,
              OracleFold, OracleConfirm, OracleReread, OracleReload, OracleClose, OracleReceipt,
              OracleConfirmReceipt, Confirm, Fails, OracleWrites
<1>6. QED
  BY <1>3, <1>4, <1>5

(* A step that changes no conversion and no watched file.                  *)
LEMMA StillMoves ==
  ASSUME WorkflowInv, clock' \in {clock, clock + 1}, UNCHANGED conv, \A p \in Watched : file'[p] = file[p]
  PROVE  FilesMove
<1>1. \A n \in Converters : Stages(n)' => Stages(n) /\ conv'[n].staged = conv[n].staged
  BY DEF Stages
<1>2. \A n \in Converters : Stages(n) => conv[n].staged \in 1..clock
  BY DEF WorkflowInv, ConvOK, ConvOf, Stages, Read
<1>3. QED
  BY <1>1, <1>2 DEF FilesMove, StagesMove, Changed, WorkflowInv, FilesOK

(* The oracle leaves the watched files alone.                              *)
LEMMA OracleMovesFiles ==
  ASSUME WorkflowInv, NEW o \in Oracles, OracleStep(o), UNCHANGED conv
  PROVE  FilesMove
<1>1. OracleWrites(o)
  BY OracleWritesOnly
<1>2. TempOf[o] \in DOMAIN Inside
  BY FoldOracleAssumption DEF Inside
<1>3. \A path : path \in Inside[TempOf[o]] \cup {ReceiptPath} => path \notin Watched
  BY <1>2, InsidePaths
<1>4. DOMAIN file = Paths
  BY DEF WorkflowInv, FilesOK
<1>5. \A p \in Watched : file'[p] = file[p]
  BY <1>1, <1>3, <1>4, InputPaths DEF OracleWrites
<1>6. QED
  BY <1>1, <1>5, StillMoves DEF OracleWrites

(* So does a replaced directory.                                           *)
LEMMA DirectoryMovesFiles ==
  ASSUME WorkflowInv, NEW d \in DOMAIN Inside, ReplaceDirectory(d)
  PROVE  FilesMove
<1>1. file' = [p \in Paths |-> IF p \in Inside[d] THEN Absent ELSE file[p]]
      /\ clock' = clock + 1 /\ UNCHANGED conv
  BY DEF ReplaceDirectory
<1>2. \A p \in Watched : file'[p] = file[p]
  BY <1>1, InsidePaths, InputPaths
<1>3. QED
  BY <1>1, <1>2, StillMoves

(* An edit puts something new at a path, or nothing.                       *)
LEMMA EditMovesFiles ==
  ASSUME WorkflowInv, WatchedOK, NEW p \in Paths, EditFile(p)
  PROVE  FilesMove
<1>0. clock \in Nat /\ clock' = clock + 1 /\ DOMAIN file = Paths /\ UNCHANGED conv
  BY DEF EditFile, WorkflowInv, FilesOK
<1>1. PICK data \in EditData[p], inode \in {file[p].inode, clock + 1} :
        file' = [file EXCEPT ![p] =
                   IF data = NoData THEN Absent
                   ELSE [inode |-> IF Exists(p) THEN inode ELSE clock + 1, stamp |-> clock + 1, data |-> data]]
  BY DEF EditFile
<1>2. /\ \A q \in Paths \ {p} : file'[q] = file[q]
      /\ data = NoData => file'[p] = Absent
      /\ data # NoData => /\ file'[p].inode = IF Exists(p) THEN inode ELSE clock + 1
                          /\ file'[p].stamp = clock + 1
  BY <1>0, <1>1
<1>3. ASSUME NEW q \in Watched
      PROVE  Changed(q)
  <2>1. CASE q # p
    BY <1>2, <2>1, InputPaths DEF Changed
  <2>2. CASE q = p /\ data = NoData
    BY <1>2, <2>2 DEF Changed
  <2>3. CASE q = p /\ data # NoData
    <3>1. SeenBy(file[p], clock, conv)
      BY <2>3 DEF WatchedOK
    <3>2. file'[p].inode \in 1..clock'
      BY <1>0, <1>2, <2>3, <3>1 DEF SeenBy, Exists
    <3>3. QED
      BY <1>0, <1>2, <2>3, <3>2 DEF Changed
  <2>4. QED
    BY <2>1, <2>2, <2>3
<1>4. \A n \in Converters : Stages(n)' => Stages(n) /\ conv'[n].staged = conv[n].staged
  BY <1>0 DEF Stages
<1>5. \A n \in Converters : Stages(n) => conv[n].staged \in 1..clock
  BY DEF WorkflowInv, ConvOK, ConvOf, Stages, Read
<1>6. QED
  BY <1>0, <1>3, <1>4, <1>5 DEF FilesMove, StagesMove

(* A conversion publishes what it staged and no other conversion has.      *)
LEMMA ConvMovesFiles ==
  ASSUME WorkflowInv, NEW n \in Converters, ConvStep(n)
  PROVE  FilesMove
<1>0. /\ clock \in Nat /\ DOMAIN file = Paths /\ DOMAIN conv = Converters /\ DOMAIN conv[n] = ConvFields
      /\ \A m \in Converters : Stages(m) => conv[m].staged \in 1..clock
  BY DEF WorkflowInv, FilesOK, ConvOK, ConvOf, Stages, Read
<1>1. CASE Publish(n) /\ ~Exists(NormalPath)
  <2>1. conv[n].phase = "verified" /\ clock' = clock /\ Stages(n)
    BY <1>1 DEF Publish, Stages
  <2>2. \A m \in Converters : Stages(m)' => Stages(m) /\ conv'[m].staged = conv[m].staged /\ m # n
    BY <1>1, PublishMoves DEF Stages
  <2>3. \A m \in Converters : Stages(m) /\ m # n => conv[m].staged # conv[n].staged
    BY <2>1 DEF WorkflowInv, StagedOK, Stages, Read
  <2>4. file'[NormalPath].stamp = conv[n].staged /\ file'[NormalPath].inode = conv[n].staged
    BY <1>1, PublishMoves
  <2>5. file' = [file EXCEPT ![NormalPath] = [inode |-> conv[n].staged, stamp |-> conv[n].staged,
                                              data |-> StagedData(n)]]
    BY <1>1 DEF Publish
  <2>6. \A p \in Watched \ {NormalPath} : file'[p] = file[p]
    BY <1>0, <2>5, InputPaths
  <2>7. Changed(NormalPath)
    BY <2>1, <2>2, <2>3, <2>4 DEF Changed
  <2>8. \A p \in Watched : Changed(p)
    BY <2>6, <2>7 DEF Changed
  <2>9. QED
    BY <1>0, <2>1, <2>2, <2>8 DEF FilesMove, StagesMove
<1>2. CASE ~(Publish(n) /\ ~Exists(NormalPath))
  <2>1. UNCHANGED file /\ clock' \in {clock, clock + 1}
    BY <1>0, <1>2 DEF ConvStep, Begin, OpenAdapter, Snapshot, ReadHeader, CopyPart, VerifySource, Publish
  <2>2. \A m \in Converters \ {n} : conv'[m] = conv[m]
    BY <1>0 DEF ConvStep, Begin, OpenAdapter, Snapshot, ReadHeader, CopyPart, VerifySource, Publish, To
  <2>3. Stages(n)' => \/ Stages(n) /\ conv'[n].staged = conv[n].staged
                      \/ clock' = clock + 1 /\ conv'[n].staged = clock + 1
    BY <1>0, <1>2 DEF ConvStep, Begin, OpenAdapter, Snapshot, ReadHeader, CopyPart, VerifySource, Publish, To,
                     Stages, ConvFields
  <2>4. StagesMove
    BY <2>1, <2>2, <2>3 DEF StagesMove, Stages
  <2>5. QED
    BY <1>0, <2>1, <2>4 DEF FilesMove, Changed
<1>3. QED
  BY <1>1, <1>2

(* So every step of the workflow is one that goes onward.                  *)
LEMMA NextMovesFiles ==
  ASSUME WorkflowInv, WatchedOK, [LoraNext]_loraVars
  PROVE  FilesMove
<1>1. ASSUME UNCHANGED <<file, clock, conv>>
      PROVE  FilesMove
  BY <1>1, StillMoves
<1>2. ASSUME NEW s \in Sessions, FoldStep(s), UNCHANGED conv
      PROVE  FilesMove
  BY <1>1, <1>2 DEF FoldStep, FoldOpen, FoldBind, FoldCall, FoldRows, FoldBadBase, FoldReport, FoldClose
<1>3. ASSUME \/ \E p \in Planners : PlanStep(p) /\ UNCHANGED conv
             \/ \E w \in Workers : AuditStep(w) /\ UNCHANGED conv
             \/ \E a \in Aggregators : Aggregate(a) /\ UNCHANGED conv
             \/ HostPrecision \/ UNCHANGED loraVars
      PROVE  FilesMove
  <2>1. ASSUME NEW p \in Planners, PlanStep(p)
        PROVE  UNCHANGED <<file, clock>>
    BY <2>1 DEF PlanStep, PlanStart, PlanOpen, PlanHash, PlanBuild
  <2>2. ASSUME NEW w \in Workers, AuditStep(w)
        PROVE  UNCHANGED <<file, clock>>
    BY <2>2 DEF AuditStep, AuditStart, AuditOpen, AuditOperation, AuditReturn
  <2>3. UNCHANGED <<file, clock, conv>>
    BY <1>3, <2>1, <2>2 DEF HostPrecision, loraVars, Aggregate
  <2>4. QED
    BY <1>1, <2>3
<1>4. QED
  BY <1>2, <1>3, ConvMovesFiles, OracleMovesFiles, DirectoryMovesFiles, EditMovesFiles DEF LoraNext

(* The first files are old enough.                                         *)
LEMMA WatchedInit == LoraInit => WatchedOK
<1> SUFFICES ASSUME LoraInit, NEW p \in Watched
             PROVE  SeenBy(file[p], clock, conv)
  BY DEF WatchedOK
<1>1. clock = 10 /\ p \in Paths
  BY InputPaths DEF LoraInit
<1>2. PICK start \in Starts :
        file = [q \in Paths |-> IF start[q] = NoData THEN Absent
                                ELSE [inode |-> 1, stamp |-> 1, data |-> start[q]]]
  BY DEF LoraInit
<1>3. file[p] = Absent \/ (file[p].inode = 1 /\ file[p].stamp = 1)
  BY <1>1, <1>2
<1>4. \A n \in Converters : conv[n].phase = "idle"
  BY DEF LoraInit, ConvInit
<1>5. QED
  BY <1>1, <1>3, <1>4 DEF SeenBy

(* What a descriptor opened as h reads, if the path still has h in the     *)
(* end.                                                                    *)
LEMMA HeldIs ==
  ASSUME NEW p \in Watched, SeenBy(file[p], clock, conv), NEW h, SeenBy(h, clock, conv), KeptIn(p, h, file)
  PROVE  HeldData(p, h) = h.data
BY AbsentFields DEF SeenBy, KeptIn, HeldData

-----------------------------------------------------------------------------
(* Workers and aggregates.                                                 *)

(* The fields of a worker.                                                 *)
WorkerFields == {"phase", "planner", "count", "index", "terms", "held", "results"}

(* What worker w found of operation i, if it kept what it had opened.      *)
BaseOf(w, i) == worker[w].held[ShardIndex(PlanOperations[i])]

LoraOf(w) == worker[w].held[Len(Inputs)]

(* A result is of an operation of the share, and of the bytes held if      *)
(* their path has them in the end.                                         *)
ResultOf(w, i) ==
  LET r == worker[w].results[i][1]
  IN /\ i \in Share(w)
     /\ KeptIn(Shards[ShardIndex(PlanOperations[i])], BaseOf(w, i), file) => r.base = BaseOf(w, i).data
     /\ KeptIn(NormalPath, LoraOf(w), file) => r.lora = LoraOf(w).data
     /\ r.passed = OperationPasses(PlanOperations[i], r.base, r.lora, worker[w].terms.thresholds)

(* The result was read from exactly what the worker had opened.            *)
ReadAsHeld(w, i) ==
  LET r == worker[w].results[i][1]
  IN r.base = BaseOf(w, i).data /\ r.lora = LoraOf(w).data

(* What holds of a worker in every phase.                                  *)
WorkerShape(x) ==
  /\ DOMAIN x = WorkerFields
  /\ DOMAIN x.results = 1..Len(ModuleOrder)
  /\ x.held \in Seq(Range(x.held))
  /\ \A k \in 1..Len(x.held) : SeenBy(x.held[k], clock, conv)
  /\ x.phase = "idle" => x.held = <<>>
  /\ x.phase \in {"idle", "opening"} => \A i \in 1..Len(ModuleOrder) : x.results[i] = <<>>

(* A worker audits a plan that was built, with inputs of the digests it    *)
(* names.                                                                  *)
HasPlan(x) ==
  /\ x.planner \in Planners /\ planner[x.planner].phase = "planned"
  /\ x.count \in 1..Len(ModuleOrder) /\ x.index \in 0..x.count - 1
  /\ \A k \in 1..Len(x.held) : x.held[k].data = Digest(Plan(x.planner), k)

(* What each phase of a worker adds (audit_bf16_bake_plan).                *)
WorkerOf(w) ==
  LET x == worker[w]
  IN /\ WorkerShape(x)
     /\ x.phase \in {"opening", "auditing", "returned"} => HasPlan(x)
     /\ x.phase \in {"auditing", "returned"} =>
          /\ Len(x.held) = Len(Inputs)
          /\ \A i \in 1..Len(ModuleOrder) : x.results[i] # <<>> => ResultOf(w, i)
     /\ x.phase = "returned" =>
          /\ Pending(w) = {}
          /\ \A i \in 1..Len(ModuleOrder) : x.results[i] # <<>> => ReadAsHeld(w, i)

(* All of them.                                                            *)
WorkersOK == DOMAIN worker = Workers /\ \A w \in Workers : WorkerOf(w)

(* A plan stays as it was built.                                           *)
PlansStay ==
  /\ DOMAIN planner = Planners
  /\ \A p \in Planners : planner[p].phase = "planned" => planner'[p] = planner[p]

(* Every operation of a plan is of one of its shards.                      *)
LEMMA PlanIndices ==
  ASSUME NEW i \in 1..Len(ModuleOrder)
  PROVE  /\ Len(PlanOperations) = Len(ModuleOrder) /\ Len(ModuleOrder) \in Nat
         /\ ShardIndex(PlanOperations[i]) \in 1..Len(Shards)
         /\ Shards[ShardIndex(PlanOperations[i])] = PlanOperations[i].shard
<1>1. Len(PlanOperations) = Len(ModuleOrder) /\ Len(ModuleOrder) \in Nat /\ ModuleOrder[i] \in AllModules
      /\ PlanOperations[i] = BakeOperation(ModuleOrder[i], WeightMap[ModuleOrder[i]])
  BY OrderAssumption DEF PlanOperations, Operations
<1>2. PlanOperations[i].shard \in Range(Shards) /\ Shards \in Seq(Paths)
  BY <1>1, BakeAuditAssumption DEF BakeOperation
<1>3. \E k \in 1..Len(Shards) : Shards[k] = PlanOperations[i].shard
  BY <1>2 DEF Range
<1>4. QED
  BY <1>1, <1>3 DEF ShardIndex

(* A worker that does not move stays as it is, whatever others do.         *)
LEMMA WorkerWaits ==
  ASSUME Onward, PlansStay, NEW w \in Workers, WorkerOf(w), worker'[w] = worker[w]
  PROVE  WorkerOf(w)'
<1> DEFINE x == worker[w]
<1>1. WorkerShape(x)'
  BY DEF WorkerShape, Onward, WorkerOf
<1>2. ASSUME HasPlan(x)
      PROVE  HasPlan(x)' /\ Plan(x.planner)' = Plan(x.planner)
  BY <1>2 DEF HasPlan, PlansStay, Plan, Digest
<1>3. ASSUME NEW i \in 1..Len(ModuleOrder), Len(x.held) = Len(Inputs), WorkerShape(x), ResultOf(w, i)
      PROVE  ResultOf(w, i)'
  <2> DEFINE k == ShardIndex(PlanOperations[i])
  <2>1. k \in 1..Len(Inputs) /\ Len(Inputs) \in 1..Len(Inputs) /\ Shards[k] \in Watched /\ NormalPath \in Watched
    BY PlanIndices, InputPaths
  <2>2. SeenBy(BaseOf(w, i), clock, conv) /\ SeenBy(LoraOf(w), clock, conv)
    BY <1>3, <2>1 DEF WorkerShape, BaseOf, LoraOf
  <2>3. /\ KeptIn(Shards[k], BaseOf(w, i), file') => KeptIn(Shards[k], BaseOf(w, i), file)
        /\ KeptIn(NormalPath, LoraOf(w), file') => KeptIn(NormalPath, LoraOf(w), file)
    BY <2>1, <2>2 DEF Onward
  <2>4. BaseOf(w, i)' = BaseOf(w, i) /\ LoraOf(w)' = LoraOf(w) /\ Share(w)' = Share(w)
    BY DEF BaseOf, LoraOf, Share
  <2>5. QED
    BY <1>3, <2>3, <2>4 DEF ResultOf
<1>4. \A i \in 1..Len(ModuleOrder) : ReadAsHeld(w, i)' <=> ReadAsHeld(w, i)
  BY DEF ReadAsHeld, BaseOf, LoraOf
<1>5. Pending(w)' = Pending(w)
  BY DEF Pending, Share
<1>6. QED
  BY <1>1, <1>2, <1>3, <1>4, <1>5 DEF WorkerOf

(* A worker that takes a plan.                                             *)
LEMMA WorkerStarts ==
  ASSUME WorkersOK, UNCHANGED conv, NEW w \in Workers, AuditStart(w)
  PROVE  WorkerOf(w)'
<1>1. /\ DOMAIN worker = Workers /\ WorkerShape(worker[w]) /\ worker[w].phase = "idle"
      /\ UNCHANGED <<file, clock, planner, conv>>
  BY DEF WorkersOK, WorkerOf, AuditStart
<1>2. PICK p \in Planners, count \in 1..MaxWorkers, index \in 0..(MaxWorkers - 1), t \in Terms :
        /\ planner[p].phase = "planned"
        /\ index < count /\ count <= Len(PlanOperations)
        /\ worker' = [worker EXCEPT ![w].phase = "opening", ![w].planner = p, ![w].count = count,
                                    ![w].index = index, ![w].terms = t]
  BY DEF AuditStart
<1>3. /\ DOMAIN worker'[w] = WorkerFields /\ worker'[w].phase = "opening" /\ worker'[w].planner = p
      /\ worker'[w].count = count /\ worker'[w].index = index
      /\ worker'[w].held = worker[w].held /\ worker'[w].results = worker[w].results
  BY <1>1, <1>2 DEF WorkerShape, WorkerFields
<1>4. worker[w].held = <<>> /\ \A i \in 1..Len(ModuleOrder) : worker[w].results[i] = <<>>
  BY <1>1 DEF WorkerShape
<1>5. Len(PlanOperations) = Len(ModuleOrder) /\ Len(ModuleOrder) \in Nat
  BY OrderAssumption DEF PlanOperations, Operations
<1>6. WorkerShape(worker[w])'
  BY <1>1, <1>3, <1>4 DEF WorkerShape
<1>7. HasPlan(worker[w])'
  BY <1>1, <1>2, <1>3, <1>4, <1>5, BakeAuditAssumption DEF HasPlan
<1>8. QED
  BY <1>3, <1>6, <1>7 DEF WorkerOf

(* A worker that fails.                                                    *)
LEMMA WorkerFails ==
  ASSUME WorkersOK, UNCHANGED <<file, clock, conv>>, NEW w \in Workers, worker[w].phase # "idle", WorkMoves(w, "failed")
  PROVE  WorkerOf(w)'
<1>1. DOMAIN worker = Workers /\ WorkerShape(worker[w])
  BY DEF WorkersOK, WorkerOf
<1>2. /\ DOMAIN worker'[w] = WorkerFields /\ worker'[w].phase = "failed"
      /\ worker'[w].held = worker[w].held /\ worker'[w].results = worker[w].results
  BY <1>1 DEF WorkMoves, WorkerShape, WorkerFields
<1>3. QED
  BY <1>1, <1>2 DEF WorkerOf, WorkerShape

(* A worker that opens the next input, and finds its digest or fails.      *)
LEMMA WorkerOpens ==
  ASSUME WorkersOK, WatchedOK, UNCHANGED conv, NEW w \in Workers, AuditOpen(w)
  PROVE  WorkerOf(w)'
<1> DEFINE x == worker[w]
           k == Len(x.held) + 1
           h == file[Inputs[k]]
           held == Append(x.held, h)
<1>1. /\ DOMAIN worker = Workers /\ WorkerShape(x) /\ HasPlan(x) /\ x.phase = "opening"
      /\ UNCHANGED <<file, clock, planner, conv>> /\ k <= Len(Inputs)
  BY DEF WorkersOK, WorkerOf, AuditOpen
<1>2. x.held \in Seq(Range(x.held)) /\ Len(x.held) \in Nat /\ k \in 1..Len(Inputs)
  BY <1>1, InputPaths DEF WorkerShape
<1>3. SeenBy(h, clock, conv)
  BY <1>2, InputPaths DEF WatchedOK
<1>4. CASE WorkMoves(w, "failed")
  BY <1>1, <1>4, WorkerFails
<1>5. CASE ~WorkMoves(w, "failed")
  <2>1. /\ h.data = Digest(PlanOf(w), k)
        /\ worker' = [worker EXCEPT ![w].held = held,
                                    ![w].phase = IF k = Len(Inputs) THEN "auditing" ELSE @]
    BY <1>5 DEF AuditOpen
  <2>2. /\ held \in Seq(Range(held)) /\ Len(held) = k /\ held[k] = h
        /\ \A j \in 1..Len(x.held) : held[j] = x.held[j]
    <3>1. held \in Seq(Range(held))
      BY <1>2, AppendRange
    <3>2. x.held \in Seq(Range(x.held) \cup {h})
      <4>1. \A j \in 1..Len(x.held) : x.held[j] \in Range(x.held) \cup {h}
        BY <1>2
      <4>2. QED
        BY <1>2, <4>1
    <3>3. QED
      BY <3>1, <3>2
  <2> HIDE DEF held, k, h
  <2>3. /\ DOMAIN worker'[w] = WorkerFields /\ worker'[w].phase = IF k = Len(Inputs) THEN "auditing" ELSE "opening"
        /\ worker'[w].planner = x.planner /\ worker'[w].count = x.count /\ worker'[w].index = x.index
        /\ worker'[w].held = held /\ worker'[w].results = x.results
    BY <1>1, <2>1 DEF WorkerShape, WorkerFields
  <2>4. \A i \in 1..Len(ModuleOrder) : x.results[i] = <<>>
    BY <1>1 DEF WorkerShape
  <2>5. \A j \in 1..Len(held) : j = k \/ j \in 1..Len(x.held)
    BY <1>2, <2>2 DEF k
  <2>6. WorkerShape(worker[w])'
    <3>1. \A j \in 1..Len(held) : SeenBy(held[j], clock, conv)
      BY <1>1, <1>3, <2>2, <2>5 DEF WorkerShape
    <3>2. QED
      BY <1>1, <2>2, <2>3, <2>4, <3>1 DEF WorkerShape
  <2>7. HasPlan(worker[w])'
    <3>1. \A j \in 1..Len(held) : held[j].data = Digest(Plan(x.planner), j)
      BY <1>1, <2>1, <2>2, <2>5 DEF HasPlan, PlanOf
    <3>2. Plan(x.planner)' = Plan(x.planner)
      BY <1>1, <2>3 DEF Plan
    <3>3. QED
      BY <1>1, <2>3, <3>1, <3>2 DEF HasPlan, Digest
  <2>8. QED
    BY <2>2, <2>3, <2>4, <2>6, <2>7 DEF WorkerOf
<1>6. QED
  BY <1>4, <1>5

(* There is a first operation while any is pending.                        *)
LEMMA FirstPending ==
  ASSUME NEW w \in Workers, Pending(w) # {}
  PROVE  (CHOOSE i \in Pending(w) : \A j \in Pending(w) : i <= j) \in Pending(w)
<1>1. Pending(w) \subseteq Nat
  BY DEF Pending, Share, Selected
<1>2. \E i \in Pending(w) : \A j \in Pending(w) : i <= j
  BY <1>1, LeastNatural
<1>3. QED
  BY <1>2

(* A worker that audits its next operation.                                *)
LEMMA WorkerAudits ==
  ASSUME WorkersOK, WatchedOK, UNCHANGED conv, NEW w \in Workers, AuditOperation(w)
  PROVE  WorkerOf(w)'
<1> DEFINE x == worker[w]
           first == CHOOSE i \in Pending(w) : \A j \in Pending(w) : i <= j
<1>1. /\ DOMAIN worker = Workers /\ WorkerOf(w) /\ WorkerShape(x) /\ HasPlan(x) /\ x.phase = "auditing"
      /\ UNCHANGED <<file, clock, planner, conv>> /\ Pending(w) # {}
      /\ Len(x.held) = Len(Inputs)
  BY DEF WorkersOK, WorkerOf, AuditOperation
<1>2. PICK i : i = first /\ i \in Share(w) /\ i \in 1..Len(ModuleOrder)
  <2>1. first \in Pending(w)
    BY <1>1, FirstPending
  <2>2. Len(PlanOperations) = Len(ModuleOrder)
    BY OrderAssumption DEF PlanOperations, Operations
  <2>3. QED
    BY <2>1, <2>2 DEF Pending, Share, Selected
<1> DEFINE op == PlanOperations[i]
           k == ShardIndex(op)
           base == HeldData(Shards[k], x.held[k])
           lora == HeldData(NormalPath, x.held[Len(Inputs)])
           passed == OperationPasses(op, base, lora, x.terms.thresholds)
<1>3. CASE WorkMoves(w, "failed")
  BY <1>1, <1>3, WorkerFails
<1>4. CASE ~WorkMoves(w, "failed")
  <2> DEFINE r == [base |-> base, lora |-> lora, passed |-> passed]
  <2>1. worker' = [worker EXCEPT ![w].results[i] = <<r>>]
    BY <1>2, <1>4 DEF AuditOperation
  <2>2. r.base = base /\ r.lora = lora /\ r.passed = passed
    OBVIOUS
  <2> HIDE DEF r
  <2>3. /\ DOMAIN worker'[w] = WorkerFields /\ worker'[w].phase = "auditing"
        /\ worker'[w].planner = x.planner /\ worker'[w].count = x.count /\ worker'[w].index = x.index
        /\ worker'[w].terms = x.terms /\ worker'[w].held = x.held
        /\ worker'[w].results = [x.results EXCEPT ![i] = <<r>>]
    BY <1>1, <2>1 DEF WorkerShape, WorkerFields
  <2>4. /\ DOMAIN worker'[w].results = 1..Len(ModuleOrder) /\ worker'[w].results[i][1] = r
        /\ \A j \in 1..Len(ModuleOrder) : j # i => worker'[w].results[j] = x.results[j]
    BY <1>1, <1>2, <2>3 DEF WorkerShape
  <2>5. k \in 1..Len(Shards) /\ k \in 1..Len(Inputs) /\ Len(Inputs) \in 1..Len(Inputs)
        /\ Shards[k] \in Watched /\ NormalPath \in Watched
    BY <1>2, PlanIndices, InputPaths
  <2>6. SeenBy(x.held[k], clock, conv) /\ SeenBy(x.held[Len(Inputs)], clock, conv)
        /\ SeenBy(file[Shards[k]], clock, conv) /\ SeenBy(file[NormalPath], clock, conv)
    BY <1>1, <2>5 DEF WorkerShape, WatchedOK
  <2>7. /\ KeptIn(Shards[k], x.held[k], file) => base = x.held[k].data
        /\ KeptIn(NormalPath, x.held[Len(Inputs)], file) => lora = x.held[Len(Inputs)].data
    BY <2>5, <2>6, HeldIs
  <2>8. ResultOf(w, i)'
    <3>1. i \in Share(w)'
      BY <1>2, <2>3 DEF Share
    <3>2. BaseOf(w, i)' = x.held[k] /\ LoraOf(w)' = x.held[Len(Inputs)]
      BY <2>3 DEF BaseOf, LoraOf
    <3> HIDE DEF base, lora, passed
    <3>3. QED
      BY <1>1, <2>2, <2>3, <2>4, <2>7, <3>1, <3>2 DEF ResultOf, passed
  <2>9. ASSUME NEW j \in 1..Len(ModuleOrder), j # i, x.results[j] # <<>>
        PROVE  ResultOf(w, j)'
    <3>1. ResultOf(w, j)
      BY <1>1, <2>9 DEF WorkerOf
    <3>2. BaseOf(w, j)' = BaseOf(w, j) /\ LoraOf(w)' = LoraOf(w) /\ Share(w)' = Share(w)
      BY <2>3 DEF BaseOf, LoraOf, Share
    <3>3. QED
      BY <1>1, <2>3, <2>4, <2>9, <3>1, <3>2 DEF ResultOf
  <2>10. WorkerShape(worker[w])'
    BY <1>1, <2>3, <2>4 DEF WorkerShape
  <2>11. HasPlan(worker[w])'
    BY <1>1, <2>3 DEF HasPlan, Plan, Digest
  <2>12. QED
    BY <1>1, <2>3, <2>4, <2>8, <2>9, <2>10, <2>11 DEF WorkerOf
<1>5. QED
  BY <1>3, <1>4

(* A worker that closes its inputs: unchanged, they were read as they had  *)
(* been opened.                                                            *)
LEMMA WorkerReturns ==
  ASSUME WorkersOK, UNCHANGED conv, NEW w \in Workers, AuditReturn(w)
  PROVE  WorkerOf(w)'
<1> DEFINE x == worker[w]
<1>1. /\ DOMAIN worker = Workers /\ WorkerOf(w) /\ WorkerShape(x) /\ HasPlan(x) /\ x.phase = "auditing"
      /\ UNCHANGED <<file, clock, planner, conv>> /\ Pending(w) = {} /\ Len(x.held) = Len(Inputs)
  BY DEF WorkersOK, WorkerOf, AuditReturn
<1>2. CASE ~InputsUnchanged(w)
  <2>1. WorkMoves(w, "failed")
    BY <1>2 DEF AuditReturn
  <2>2. QED
    BY <1>1, <2>1, WorkerFails
<1>3. CASE InputsUnchanged(w)
  <2>1. WorkMoves(w, "returned")
    BY <1>3 DEF AuditReturn
  <2>2. /\ DOMAIN worker'[w] = WorkerFields /\ worker'[w].phase = "returned"
        /\ worker'[w].planner = x.planner /\ worker'[w].count = x.count /\ worker'[w].index = x.index
        /\ worker'[w].terms = x.terms /\ worker'[w].held = x.held /\ worker'[w].results = x.results
    BY <1>1, <2>1 DEF WorkerShape, WorkerFields, WorkMoves
  <2>3. WorkerShape(worker[w])' /\ HasPlan(worker[w])'
    BY <1>1, <2>2 DEF WorkerShape, HasPlan, Plan, Digest
  <2>4. ASSUME NEW i \in 1..Len(ModuleOrder), x.results[i] # <<>>
        PROVE  ResultOf(w, i)' /\ ReadAsHeld(w, i)'
    <3> DEFINE k == ShardIndex(PlanOperations[i])
    <3>1. ResultOf(w, i)
      BY <1>1, <2>4 DEF WorkerOf
    <3>2. BaseOf(w, i)' = BaseOf(w, i) /\ LoraOf(w)' = LoraOf(w) /\ Share(w)' = Share(w)
      BY <2>2 DEF BaseOf, LoraOf, Share
    <3>3. k \in 1..Len(Shards) /\ k \in 1..Len(Inputs) /\ Inputs[k] = Shards[k] /\ Len(Inputs) \in 1..Len(Inputs)
          /\ Inputs[Len(Inputs)] = NormalPath
      BY PlanIndices, InputPaths
    <3>4. KeptIn(Shards[k], BaseOf(w, i), file) /\ KeptIn(NormalPath, LoraOf(w), file)
      BY <1>3, <3>3 DEF InputsUnchanged, KeptIn, BaseOf, LoraOf
    <3>5. ReadAsHeld(w, i)
      BY <3>1, <3>4 DEF ResultOf, ReadAsHeld
    <3>6. QED
      BY <1>1, <2>2, <3>1, <3>2, <3>5 DEF ResultOf, ReadAsHeld
  <2>5. Pending(w)' = {}
    BY <1>1, <2>2 DEF Pending, Share
  <2>6. QED
    BY <1>1, <2>2, <2>3, <2>4, <2>5 DEF WorkerOf
<1>4. QED
  BY <1>2, <1>3

(* Whatever a worker does, only its own state moves, and stays right.      *)
LEMMA WorkerSteps ==
  ASSUME WorkersOK, WatchedOK, UNCHANGED conv, NEW w \in Workers, AuditStep(w)
  PROVE  WorkerOf(w)' /\ DOMAIN worker' = Workers /\ \A v \in Workers \ {w} : worker'[v] = worker[v]
<1>1. WorkerOf(w)'
  BY WorkerStarts, WorkerOpens, WorkerAudits, WorkerReturns DEF AuditStep
<1>2. DOMAIN worker = Workers
  BY DEF WorkersOK
<1>3. DOMAIN worker' = Workers /\ \A v \in Workers \ {w} : worker'[v] = worker[v]
  BY <1>2 DEF AuditStep, AuditStart, AuditOpen, AuditOperation, AuditReturn, WorkMoves
<1>4. QED
  BY <1>1, <1>3

(* What an aggregate that passed was given.                                *)
PassedBy(given) ==
  \E n \in 2..MaxWorkers :
    /\ given \in [1..n -> Workers]
    /\ \A j \in 1..n : worker[given[j]].phase = "returned" /\ WorkerStatus(given[j]) = "PASS"
    /\ Accepted(given)

(* A verdict passes only what was accepted, with no failure.               *)
VerdictsOK ==
  /\ DOMAIN verdict = Aggregators
  /\ \A a \in Aggregators : verdict[a].decision = "PASS" => PassedBy(verdict[a].given)

(* Receipts stay as they were returned, and so do their plans.             *)
ReceiptsStay == \A w \in Workers : worker[w].phase = "returned" => worker'[w] = worker[w]

(* What passed stays passed.                                               *)
LEMMA PassStays ==
  ASSUME WorkersOK, PlansStay, ReceiptsStay, NEW given, PassedBy(given)
  PROVE  PassedBy(given)'
<1>1. PICK n \in 2..MaxWorkers :
        /\ given \in [1..n -> Workers]
        /\ \A j \in 1..n : worker[given[j]].phase = "returned" /\ WorkerStatus(given[j]) = "PASS"
        /\ Accepted(given)
  BY DEF PassedBy
<1>2. Len(given) = n /\ n >= 2
  BY <1>1
<1>3. ASSUME NEW j \in 1..n
      PROVE  /\ worker'[given[j]] = worker[given[j]]
             /\ PlanOf(given[j])' = PlanOf(given[j])
             /\ WorkerStatus(given[j])' = WorkerStatus(given[j])
             /\ Share(given[j])' = Share(given[j])
             /\ Contract(given[j])' = Contract(given[j])
  <2> DEFINE w == given[j]
  <2>1. w \in Workers /\ worker[w].phase = "returned" /\ HasPlan(worker[w])
    BY <1>1 DEF WorkersOK, WorkerOf
  <2>2. worker'[w] = worker[w] /\ worker[w].planner \in Planners
        /\ planner'[worker[w].planner] = planner[worker[w].planner]
    BY <2>1 DEF ReceiptsStay, PlansStay, HasPlan
  <2>3. PlanOf(w)' = PlanOf(w)
    BY <2>2 DEF PlanOf, Plan
  <2>4. QED
    BY <2>2, <2>3 DEF WorkerStatus, Share, Contract
<1>4. Accepted(given)'
  <2>1. /\ worker[given[1]].count >= 2 /\ Len(given) = worker[given[1]].count
        /\ SharesContract(given) /\ DistinctIndices(given) /\ CoversPlan(given) /\ DistinctDevices(given)
    BY <1>1 DEF Accepted
  <2>2. 1 \in 1..n
    BY <1>2
  <2>3. SharesContract(given)'
    BY <1>2, <1>3, <2>1, <2>2 DEF SharesContract
  <2>4. DistinctIndices(given)' /\ DistinctDevices(given)'
    <3>1. DistinctIndices(given)'
      BY <1>2, <1>3, <2>1, <2>2 DEF DistinctIndices
    <3>2. DistinctDevices(given)'
      BY <1>2, <1>3, <2>1, <2>2 DEF DistinctDevices
    <3>3. QED
      BY <3>1, <3>2
  <2>5. CoversPlan(given)'
    <3>1. {Share(given[j])' : j \in 1..n} = {Share(given[j]) : j \in 1..n}
      BY <1>3
    <3>2. QED
      BY <1>2, <2>1, <3>1 DEF CoversPlan
  <2>6. QED
    BY <1>2, <1>3, <2>1, <2>2, <2>3, <2>4, <2>5 DEF Accepted
<1>5. QED
  BY <1>1, <1>3, <1>4 DEF PassedBy

(* An aggregate decides by what it accepts.                                *)
LEMMA AggregateMoves ==
  ASSUME WorkersOK, VerdictsOK, NEW a \in Aggregators, Aggregate(a)
  PROVE  VerdictsOK'
<1> DEFINE Decides(n, given) ==
             /\ \A j \in 1..n : worker[given[j]].phase = "returned"
             /\ verdict' = [verdict EXCEPT ![a] = [given |-> given, decision |->
                  IF ~Accepted(given) THEN "refused"
                  ELSE IF \A j \in 1..n : WorkerStatus(given[j]) = "PASS" THEN "PASS" ELSE "FAIL"]]
<1>0. PICK n \in 2..MaxWorkers : \E given \in [1..n -> Workers] : Decides(n, given)
  BY DEF Aggregate
<1>1. PICK given \in [1..n -> Workers] : Decides(n, given)
  BY <1>0
<1>2. UNCHANGED <<worker, planner>> /\ DOMAIN verdict = Aggregators
  BY DEF Aggregate, VerdictsOK
<1>3. /\ DOMAIN verdict' = Aggregators /\ verdict'[a].given = given
      /\ verdict'[a].decision = "PASS" => Accepted(given) /\ \A j \in 1..n : WorkerStatus(given[j]) = "PASS"
      /\ \A b \in Aggregators : b # a => verdict'[b] = verdict[b]
  <2> DEFINE decision == IF ~Accepted(given) THEN "refused"
                         ELSE IF \A j \in 1..n : WorkerStatus(given[j]) = "PASS" THEN "PASS" ELSE "FAIL"
  <2>1. decision = "PASS" => Accepted(given) /\ \A j \in 1..n : WorkerStatus(given[j]) = "PASS"
    OBVIOUS
  <2>2. verdict' = [verdict EXCEPT ![a] = [given |-> given, decision |-> decision]]
    BY <1>1
  <2> HIDE DEF decision
  <2>3. QED
    BY <1>2, <2>1, <2>2
<1>4. verdict'[a].decision = "PASS" => PassedBy(given)
  BY <1>1, <1>3 DEF PassedBy
<1>5. \A g : PassedBy(g)' <=> PassedBy(g)
  BY <1>2 DEF PassedBy, WorkerStatus, Accepted, SharesContract, Contract, PlanOf, Plan, DistinctIndices, CoversPlan,
             Share, DistinctDevices
<1>6. ASSUME NEW b \in Aggregators, verdict'[b].decision = "PASS"
      PROVE  PassedBy(verdict'[b].given)
  BY <1>3, <1>4, <1>6 DEF VerdictsOK
<1>7. QED
  BY <1>3, <1>5, <1>6 DEF VerdictsOK

(* The inductive invariant of plans, workers and verdicts.                 *)
AuditInv == WatchedOK /\ DOMAIN planner = Planners /\ WorkersOK /\ VerdictsOK

(* Every step of the workflow keeps it.                                    *)
LEMMA AuditStays ==
  ASSUME WorkflowInv, AuditInv, [LoraNext]_loraVars
  PROVE  AuditInv'
<1>1. Onward /\ WatchedOK'
  BY NextMovesFiles, MoveWatched DEF AuditInv
<1>2. PlansStay /\ DOMAIN planner' = Planners
  <2>1. CASE \E p \in Planners : PlanStep(p)
    BY <2>1 DEF AuditInv, PlanStep, PlanStart, PlanOpen, PlanHash, PlanBuild, PlanMoves, PlansStay
  <2>2. CASE UNCHANGED planner
    BY <2>2 DEF AuditInv, PlansStay
  <2>3. UNCHANGED planner \/ \E p \in Planners : PlanStep(p)
    BY DEF LoraNext, loraVars, AuditStep, AuditStart, AuditOpen, AuditOperation, AuditReturn, Aggregate, EditFile,
           HostPrecision, ReplaceDirectory
  <2>4. QED
    BY <2>1, <2>2, <2>3
<1>3. UNCHANGED worker \/ \E w \in Workers : AuditStep(w) /\ UNCHANGED conv
  BY DEF LoraNext, loraVars, PlanStep, PlanStart, PlanOpen, PlanHash, PlanBuild, Aggregate, EditFile,
         HostPrecision, ReplaceDirectory
<1>4. ReceiptsStay
  <2>1. ASSUME NEW w \in Workers, AuditStep(w)
        PROVE  /\ \A v \in Workers \ {w} : worker'[v] = worker[v]
               /\ worker[w].phase # "returned"
    BY <2>1 DEF AuditInv, WorkersOK, AuditStep, AuditStart, AuditOpen, AuditOperation, AuditReturn, WorkMoves
  <2>2. QED
    BY <1>3, <2>1 DEF ReceiptsStay
<1>5. WorkersOK'
  <2>1. ASSUME NEW w \in Workers, worker'[w] = worker[w]
        PROVE  WorkerOf(w)'
    BY <1>1, <1>2, <2>1, WorkerWaits DEF AuditInv, WorkersOK
  <2>2. CASE UNCHANGED worker
    BY <2>1, <2>2 DEF AuditInv, WorkersOK
  <2>3. ASSUME NEW w \in Workers, AuditStep(w), UNCHANGED conv
        PROVE  WorkersOK'
    <3>1. WorkerOf(w)' /\ DOMAIN worker' = Workers /\ \A v \in Workers \ {w} : worker'[v] = worker[v]
      BY <2>3, WorkerSteps DEF AuditInv
    <3>2. QED
      BY <2>1, <3>1 DEF WorkersOK
  <2>4. QED
    BY <1>3, <2>2, <2>3
<1>6. VerdictsOK'
  <2>1. CASE \E a \in Aggregators : Aggregate(a)
    BY <2>1, AggregateMoves DEF AuditInv
  <2>2. CASE UNCHANGED verdict
    BY <1>2, <1>4, <2>2, PassStays DEF AuditInv, VerdictsOK
  <2>3. UNCHANGED verdict \/ \E a \in Aggregators : Aggregate(a)
    BY DEF LoraNext, loraVars, PlanStep, PlanStart, PlanOpen, PlanHash, PlanBuild,
           AuditStep, AuditStart, AuditOpen, AuditOperation, AuditReturn, EditFile, HostPrecision, ReplaceDirectory
  <2>4. QED
    BY <2>1, <2>2, <2>3
<1>7. QED
  BY <1>1, <1>2, <1>5, <1>6 DEF AuditInv

(* It holds at first.                                                      *)
LEMMA AuditStarts == LoraInit => AuditInv
<1> SUFFICES ASSUME LoraInit PROVE AuditInv
  OBVIOUS
<1>1. WatchedOK
  BY WatchedInit
<1>2. DOMAIN planner = Planners /\ VerdictsOK
  BY DEF LoraInit, AuditInit, VerdictsOK
<1>3. WorkersOK
  <2>1. /\ DOMAIN worker = Workers
        /\ \A w \in Workers :
             /\ DOMAIN worker[w] = WorkerFields /\ worker[w].phase = "idle" /\ worker[w].held = <<>>
             /\ worker[w].results = [i \in 1..Len(ModuleOrder) |-> <<>>]
    BY DEF LoraInit, AuditInit, WorkerFields
  <2>2. \A S : <<>> \in Seq(S)
    OBVIOUS
  <2>3. \A w \in Workers : DOMAIN worker[w].results = 1..Len(ModuleOrder)
                            /\ \A i \in 1..Len(ModuleOrder) : worker[w].results[i] = <<>>
    BY <2>1
  <2>4. \A w \in Workers : WorkerShape(worker[w])
    <3> SUFFICES ASSUME NEW w \in Workers PROVE WorkerShape(worker[w])
      OBVIOUS
    <3>1. worker[w].held \in Seq(Range(worker[w].held))
      BY <2>1, <2>2, Zenon
    <3>2. \A k \in 1..Len(worker[w].held) : SeenBy(worker[w].held[k], clock, conv)
      BY <2>1
    <3>3. QED
      BY <2>1, <2>3, <3>1, <3>2 DEF WorkerShape
  <2>5. QED
    BY <2>1, <2>4 DEF WorkersOK, WorkerOf
<1>4. QED
  BY <1>1, <1>2, <1>3 DEF AuditInv

(* The worker of operation i is the one whose index its number leaves.     *)
LEMMA OneAuditor ==
  ASSUME WorkersOK, NEW n \in 2..MaxWorkers, NEW given \in [1..n -> Workers],
         \A j \in 1..n : worker[given[j]].phase = "returned", Accepted(given),
         NEW i \in 1..Len(ModuleOrder)
  PROVE  Cardinality({j \in 1..Len(given) : worker[given[j]].results[i] # <<>>}) = 1
<1> DEFINE auditors == {j \in 1..Len(given) : worker[given[j]].results[i] # <<>>}
<1>1. Len(given) = n /\ n \in Nat
  OBVIOUS
<1>2. /\ \A j \in 1..n : worker[given[j]].count = worker[given[1]].count
      /\ DistinctIndices(given) /\ CoversPlan(given)
  BY <1>1 DEF Accepted, SharesContract, Contract
<1>3. Len(PlanOperations) = Len(ModuleOrder)
  BY PlanIndices
<1>4. PICK j \in 1..n : i \in Share(given[j])
  BY <1>1, <1>2, <1>3 DEF CoversPlan
<1>5. \A m \in 1..n : worker[given[m]].results[i] # <<>> => i \in Share(given[m])
  BY DEF WorkersOK, WorkerOf, ResultOf
<1>6. worker[given[j]].results[i] # <<>>
  BY <1>4 DEF WorkersOK, WorkerOf, Pending
<1>7. \A m \in 1..n : i \in Share(given[m]) => worker[given[m]].index = (i - 1) % worker[given[1]].count
  BY <1>2 DEF Share, Selected
<1>8. \A m \in 1..n : i \in Share(given[m]) => m = j
  BY <1>1, <1>2, <1>4, <1>7 DEF DistinctIndices
<1>9. auditors = {j}
  BY <1>1, <1>5, <1>6, <1>8
<1>10. QED
  BY <1>9, FS_Singleton

(* It says that a pass covers its plan.                                    *)
LEMMA PassCovers == AuditInv => PassCoversPlan
<1> SUFFICES ASSUME AuditInv, NEW a \in Aggregators, verdict[a].decision = "PASS"
             PROVE  LET given == verdict[a].given
                        plan == PlanOf(given[1])
                        auditors(i) == {j \in 1..Len(given) : worker[given[j]].results[i] # <<>>}
                    IN \A i \in 1..Len(plan.operations) :
                         /\ Cardinality(auditors(i)) = 1
                         /\ ReadsBase(plan.operations[i], AuditRows)
                         /\ \A j \in auditors(i) :
                              LET result == worker[given[j]].results[i][1]
                              IN /\ result.base = plan.shards[ShardIndex(plan.operations[i])]
                                 /\ result.lora = plan.lora
                                 /\ OperationPasses(plan.operations[i], result.base, result.lora,
                                                    worker[given[1]].terms.thresholds)
  BY DEF PassCoversPlan
<1> DEFINE given == verdict[a].given
           plan == PlanOf(given[1])
<1>0. WorkersOK
  BY DEF AuditInv
<1>1. PICK n \in 2..MaxWorkers :
        /\ given \in [1..n -> Workers]
        /\ \A j \in 1..n : worker[given[j]].phase = "returned" /\ WorkerStatus(given[j]) = "PASS"
        /\ Accepted(given)
  BY DEF AuditInv, VerdictsOK, PassedBy
<1>2. Len(given) = n /\ 1 \in 1..n
  BY <1>1
<1>3. plan.operations = PlanOperations /\ \A k \in 1..Len(Shards) : plan.shards[k] = Digest(plan, k)
      /\ plan.lora = Digest(plan, Len(Inputs))
  <2>1. plan.operations = PlanOperations
    BY DEF PlanOf, Plan
  <2>2. ASSUME NEW k \in 1..Len(Shards)
        PROVE  plan.shards[k] = Digest(plan, k)
    BY InputPaths DEF Digest
  <2>3. plan.lora = Digest(plan, Len(Inputs))
    BY InputPaths DEF Digest
  <2>4. QED
    BY <2>1, <2>2, <2>3
<1>4. \A j \in 1..n : PlanOf(given[j]) = plan /\ worker[given[j]].terms.thresholds = worker[given[1]].terms.thresholds
  BY <1>1, <1>2 DEF Accepted, SharesContract, Contract
<1> HIDE DEF given, plan
<1>5. ASSUME NEW i \in 1..Len(ModuleOrder), NEW j \in 1..n, worker[given[j]].results[i] # <<>>
      PROVE  LET result == worker[given[j]].results[i][1]
             IN /\ result.base = plan.shards[ShardIndex(PlanOperations[i])]
                /\ result.lora = plan.lora
                /\ OperationPasses(PlanOperations[i], result.base, result.lora, worker[given[1]].terms.thresholds)
  <2> DEFINE w == given[j]
             result == worker[w].results[i][1]
             k == ShardIndex(PlanOperations[i])
  <2>1. w \in Workers /\ worker[w].phase = "returned"
    BY <1>1
  <2>2. /\ HasPlan(worker[w]) /\ Len(worker[w].held) = Len(Inputs)
        /\ ResultOf(w, i) /\ ReadAsHeld(w, i)
    BY <1>0, <1>5, <2>1 DEF WorkersOK, WorkerOf
  <2>3. k \in 1..Len(Shards) /\ k \in 1..Len(Inputs) /\ Len(Inputs) \in 1..Len(Inputs)
    BY PlanIndices, InputPaths
  <2>4. result.base = Digest(plan, k) /\ result.lora = Digest(plan, Len(Inputs))
    BY <1>4, <2>2, <2>3 DEF ReadAsHeld, BaseOf, LoraOf, HasPlan, PlanOf
  <2>5. result.passed
    BY <1>1, <2>2 DEF WorkerStatus, ResultOf
  <2>6. OperationPasses(PlanOperations[i], result.base, result.lora, worker[given[1]].terms.thresholds)
    BY <1>4, <2>2, <2>5 DEF ResultOf
  <2>7. QED
    BY <1>3, <2>3, <2>4, <2>6
<1>6. ASSUME NEW i \in 1..Len(ModuleOrder)
      PROVE  /\ Cardinality({j \in 1..Len(given) : worker[given[j]].results[i] # <<>>}) = 1
             /\ ReadsBase(PlanOperations[i], AuditRows)
  BY <1>0, <1>1, OneAuditor, AuditReadsBase, PlanIndices
<1>7. Len(plan.operations) = Len(ModuleOrder)
  BY <1>3, OrderAssumption DEF PlanOperations, Operations
<1>8. QED
  BY <1>2, <1>3, <1>5, <1>6, <1>7 DEF given, plan

(* An aggregate PASS speaks for one whole plan: every operation audited by *)
(* exactly one worker, on the bytes whose digests the plan names, over     *)
(* every row, within the thresholds all of them share; for any plan,       *)
(* workers and edits of the inputs between two reads                       *)
(* (aggregate_bake_audit_receipts, bake_audit.py 1012-1225).               *)
THEOREM PassSpeaksForThePlan == LoraSpec => []PassCoversPlan
<1>1. LoraInit => AuditInv
  BY AuditStarts
<1>2. WorkflowInv /\ AuditInv /\ [LoraNext]_loraVars => AuditInv'
  BY AuditStays
<1>3. AuditInv => PassCoversPlan
  BY PassCovers
<1>4. QED
  BY <1>1, <1>2, <1>3, WorkflowHolds, PTL DEF LoraSpec

-----------------------------------------------------------------------------
(* Rows written and read back.                                             *)

(* Rows 1 to N and no others.                                              *)
RowsOf(rows, N) == rows = [i \in 1..N |-> rows[i]]

(* They are N rows.                                                        *)
LEMMA RowsLen ==
  ASSUME NEW N \in Nat, NEW rows, RowsOf(rows, N)
  PROVE  Len(rows) = N
BY DEF RowsOf

(* Permuting rows leaves as many.                                          *)
LEMMA PermutedIs ==
  ASSUME NEW N \in Nat, NEW rows, RowsOf(rows, N), NEW order
  PROVE  /\ RowsOf(Permuted(rows, order), N)
         /\ \A i \in 1..N : Permuted(rows, order)[i] = rows[order[i] + 1]
<1>1. Permuted(rows, order) = [i \in 1..N |-> rows[order[i] + 1]]
  BY RowsLen DEF Permuted
<1>2. QED
  BY <1>1 DEF RowsOf

(* What is written as serialized rows reads back as it was.                *)
LEMMA ReloadIs ==
  ASSUME NEW m \in AllModules, NEW shard, NEW op, op = BakeOperation(m, shard),
         NEW rows, RowsOf(rows, op.shape[1])
  PROVE  Reloaded(op, ToSerialized(op, rows)) = rows
<1>1. OpOK(op) /\ op.layout \in {"direct", "grouped-qkv"}
  BY OperationOK DEF BakeOperation
<1>2. CASE op.layout = "direct"
  BY <1>2 DEF Reloaded, ToSerialized, ToRuntime
<1>3. CASE op.layout = "grouped-qkv"
  <2> DEFINE N == op.shape[1]
             written == Permuted(rows, SerializedOrder)
             back == Permuted(written, BaseOrder)
  <2>1. N \in Nat /\ N = QkvRows(Layout) /\ Layout \in Layouts
    BY <1>1, <1>3, DimsAssumption DEF OpOK, Layouts
  <2>2. Reloaded(op, ToSerialized(op, rows)) = back
    BY <1>3 DEF Reloaded, ToSerialized, ToRuntime
  <2> HIDE DEF N
  <2>3. RowsOf(written, N) /\ \A i \in 1..N : written[i] = rows[SerializedOrder[i] + 1]
    BY <2>1, PermutedIs DEF N
  <2> HIDE DEF written
  <2>4. RowsOf(back, N) /\ \A i \in 1..N : back[i] = written[BaseOrder[i] + 1]
    BY <2>1, <2>3, PermutedIs
  <2>5. ASSUME NEW i \in 1..N
        PROVE  back[i] = rows[i]
    <3> DEFINE j == BaseOrder[i] + 1
    <3>1. j \in 1..N
      BY <2>1, ForwardInRange DEF BaseOrder
    <3>2. SerializedOrder[j] = RuntimeRow(Layout, j - 1)
      BY <2>1, <3>1, QkvRoundTrip DEF SerializedOrder
    <3>3. RuntimeRow(Layout, BaseOrder[i]) = i - 1
      BY <2>1, RuntimeRowOfForward DEF BaseOrder
    <3>4. BaseOrder[i] \in Nat
      <4>1. BaseOrder \in Seq(Nat) /\ Len(BaseOrder) = N
        BY <2>1, ForwardIs DEF BaseOrder
      <4>2. QED
        BY <4>1
    <3>5. j - 1 = BaseOrder[i]
      BY <3>4
    <3>6. back[i] = written[j]
      BY <2>4
    <3> HIDE DEF j, back
    <3>7. written[j] = rows[SerializedOrder[j] + 1]
      BY <2>3, <3>1
    <3>8. SerializedOrder[j] + 1 = i
      BY <2>1, <3>2, <3>3, <3>5
    <3>9. QED
      BY <3>6, <3>7, <3>8
  <2> HIDE DEF back
  <2>6. back = rows
    <3>1. RowsOf(rows, N)
      BY DEF N
    <3>2. QED
      BY <2>4, <2>5, <3>1 DEF RowsOf
  <2>7. QED
    BY <2>2, <2>6
<1>4. QED
  BY <1>1, <1>2, <1>3

(* The two folds of a target are equal where they round alike.             *)
LEMMA FoldsAgree ==
  ASSUME NEW m \in AllModules, NEW shard, NEW op, op = BakeOperation(m, shard), NEW b, NEW l
  PROVE  ReferenceFold(op, b, l) = Reloaded(op, ToSerialized(op, CandidateFold(op, b, l)))
           <=> <<b, l>> \in Parity
<1> DEFINE N == op.shape[1]
           runtime == ToRuntime(op, [i \in 1..N |-> <<b, i>>])
           rounding == IF <<b, l>> \in Parity THEN "reference" ELSE "candidate"
           R == ReferenceFold(op, b, l)
           C == CandidateFold(op, b, l)
<1>1. N \in Nat \ {0}
  BY OperationOK DEF OpOK
<1>2. R = [i \in 1..N |-> <<runtime[i], <<l, i>>, "reference">>]
      /\ C = [i \in 1..N |-> <<runtime[i], <<l, i>>, rounding>>]
  BY DEF ReferenceFold, CandidateFold, Fold
<1> HIDE DEF runtime, R, C
<1>3. RowsOf(C, N)
  BY <1>2 DEF RowsOf
<1>4. Reloaded(op, ToSerialized(op, C)) = C
  BY <1>3, ReloadIs
<1>5. R = C <=> <<b, l>> \in Parity
  <2>1. CASE <<b, l>> \in Parity
    BY <1>2, <2>1
  <2>2. CASE <<b, l>> \notin Parity
    <3>1. 1 \in 1..N
      BY <1>1
    <3>2. R[1][3] = "reference" /\ C[1][3] = "candidate"
      BY <1>2, <2>2, <3>1
    <3>3. QED
      BY <2>2, <3>2
  <2>3. QED
    BY <2>1, <2>2
<1>6. QED
  BY <1>4, <1>5 DEF R, C

-----------------------------------------------------------------------------
(* Runs of the oracle.                                                     *)

(* The phases of a run from one of its steps on.                           *)
SignedPhases == {"signed", "returned", "left"}

ClosedPhases == {"closed", "receipted"} \cup SignedPhases
WrittenPhases == {"staged", "linked", "published", "reread"}
FoldingPhases == {"folding"} \cup WrittenPhases \cup ClosedPhases
OpenPhases == {"opening"} \cup FoldingPhases
PlannedPhases == {"planned", "referenced"} \cup OpenPhases
LoadedPhases == {"loaded"} \cup PlannedPhases

(* The input that target k of a run is folded into, and what it held of    *)
(* it.                                                                     *)
OpAt(x, k) == x.plan.operations[MicroTargets[k].index]

SlotAt(x, k) == CHOOSE j \in 1..Len(OracleInputs) : OracleInputs[j] = OpAt(x, k).shard
BaseHeld(x, k) == x.held[SlotAt(x, k)]
LoraHeld(x) == x.held[Len(OracleInputs)]

(* What was read is what was held, where its path still has that file.     *)
ReadWhenKept(x, read, k, files) ==
  /\ read = [base |-> read.base, lora |-> read.lora]
  /\ KeptIn(OpAt(x, k).shard, BaseHeld(x, k), files) => read.base = BaseHeld(x, k).data
  /\ KeptIn(NormalPath, LoraHeld(x), files) => read.lora = LoraHeld(x).data

(* A target that is compared: read from what was held, and found the same  *)
(* where both folds round alike.                                           *)
Compared(x, k, files) ==
  LET r == x.results[k]
  IN /\ ReadWhenKept(x, r.read, k, files)
     /\ r.same \in BOOLEAN /\ r.equal \in BOOLEAN /\ (r.equal => r.same)
     /\ r.same <=> <<r.read.base.body, r.read.lora.body>> \in Parity

(* The target a run has folded, written and not yet compared.              *)
Folded(x, k, files) ==
  /\ k <= Len(MicroTargets)
  /\ ReadWhenKept(x, x.read, k, files)
  /\ x.staged.data.rows =
       ToSerialized(OpAt(x, k), CandidateFold(OpAt(x, k), x.read.base.body, x.read.lora.body))

(* The inputs a run holds: seen, and of the bytes its plan names.          *)
InputsAt(x, now, convs) ==
  /\ x.held \in Seq(Range(x.held))
  /\ \A k \in 1..Len(x.held) : SeenBy(x.held[k], now, convs)
  /\ x.phase \in {"idle", "bound", "loaded", "planned", "referenced"} => x.held = <<>>
  /\ x.phase = "opening" => Len(x.held) < Len(OracleInputs)
  /\ x.phase \in OpenPhases => \A k \in 1..Len(x.held) : x.held[k].data = Named(x.plan, k)
  /\ x.phase \in FoldingPhases => Len(x.held) = Len(OracleInputs)

(* The plan of a run is one that some text says, accepted, for the pinned  *)
(* reference.                                                              *)
PlanAt(x) ==
  /\ x.phase \in LoadedPhases => \E text \in DOMAIN PlanText : x.plan = PlanText[text]
  /\ x.phase \in PlannedPhases => MicroAccepted(x.plan)
  /\ x.phase \in OpenPhases => x.executor = Reference

(* A target read from exactly what the run had opened.                     *)
ReadAsNamed(x, k) ==
  x.results[k].read.base = BaseHeld(x, k).data /\ x.results[k].read.lora = LoraHeld(x).data

(* The targets compared so far; once the inputs are closed unchanged, all  *)
(* of them, of those inputs.                                               *)
ResultsAt(x, files) ==
  /\ x.results \in Seq(Range(x.results))
  /\ x.phase \in {"idle", "bound", "loaded", "planned", "referenced", "opening"} => x.results = <<>>
  /\ x.phase \in FoldingPhases =>
       /\ Len(x.results) <= Len(MicroTargets)
       /\ \A k \in 1..Len(x.results) : Compared(x, k, files)
  /\ x.phase \in WrittenPhases => Folded(x, Len(x.results) + 1, files)
  /\ x.phase = "reread" => x.opened = x.staged
  /\ x.phase \in ClosedPhases =>
       /\ Len(x.results) = Len(MicroTargets)
       /\ \A k \in 1..Len(x.results) : ReadAsNamed(x, k)

(* The receipt a run has written is its own and its verdict.               *)
ReceiptAt(o, x) ==
  x.phase \in {"receipted"} \cup SignedPhases =>
    /\ \A k \in 1..Len(x.results) : x.results[k].equal = x.results[k].same
    /\ x.staged # Absent /\ x.staged.data.head.id = o /\ x.staged.data.body = Decision(x.results)

(* What holds of a run.                                                    *)
OracleOf(o) ==
  LET x == oracle[o]
  IN /\ DOMAIN x = OracleFields /\ (x.phase # "idle" => o \in cast)
     /\ InputsAt(x, clock, conv) /\ PlanAt(x) /\ ResultsAt(x, file) /\ ReceiptAt(o, x)

(* And of all of them.                                                     *)
RunsOK == DOMAIN oracle = Oracles /\ \A o \in Oracles : OracleOf(o)

(* Every target is of one shard of the plan, held in its slot.             *)
LEMMA OracleSlots ==
  ASSUME NEW x, x.phase \in PlannedPhases, PlanAt(x), NEW k \in 1..Len(MicroTargets)
  PROVE  LET s == SlotAt(x, k)
         IN /\ x.plan.shards \in Seq(Range(x.plan.shards))
            /\ Len(x.plan.shards) = Len(OracleInputs) - 1 /\ Len(OracleInputs) \in Nat
            /\ s \in 1..Len(x.plan.shards) /\ OracleInputs[s] = OpAt(x, k).shard
            /\ s \in 1..Len(OracleInputs) /\ Len(OracleInputs) \in 1..Len(OracleInputs)
            /\ OracleInputs[s] \in Watched /\ OracleInputs[Len(OracleInputs)] = NormalPath
            /\ s = CHOOSE j \in 1..Len(x.plan.shards) : OracleInputs[j] = OpAt(x, k).shard
            /\ Named(x.plan, s) = x.plan.shards[s]
            /\ Named(x.plan, Len(OracleInputs)) = x.plan.lora
            /\ MicroTargets[k].module \in AllModules
            /\ OpAt(x, k) = BakeOperation(MicroTargets[k].module, OpAt(x, k).shard)
<1> DEFINE N == Len(OracleInputs)
           op == OpAt(x, k)
           s == SlotAt(x, k)
<1>1. MicroTargets[k].index \in 1..Len(ModuleOrder) /\ MicroTargets[k].module \in AllModules
  <2> DEFINE S == [index : 1..Len(ModuleOrder), module : AllModules]
  <2>1. MicroTargets \in Seq(S)
    BY OracleFilesAssumption
  <2> HIDE DEF S
  <2>3. MicroTargets[k] \in S
    BY <2>1
  <2> USE DEF S
  <2>2. MicroTargets[k] \in [index : 1..Len(ModuleOrder), module : AllModules]
    BY <2>3
  <2>4. QED
    BY <2>2
<1>2. PICK text \in DOMAIN PlanText : x.plan = PlanText[text]
  BY DEF PlanAt, LoadedPhases
<1>3. /\ x.plan.shards \in Seq(Range(x.plan.shards)) /\ Len(x.plan.shards) = N - 1
      /\ \E j \in 1..Len(x.plan.shards) : op.shard = OracleInputs[j]
  <2> DEFINE plan == PlanText[text]
  <2>1. /\ plan.shards \in Seq(Range(plan.shards)) /\ Len(plan.shards) = N - 1
        /\ \A i \in 1..Len(ModuleOrder) :
             \E j \in 1..Len(plan.shards) : plan.operations[i].shard = OracleInputs[j]
    BY OracleFilesAssumption
  <2>2. \E j \in 1..Len(plan.shards) : plan.operations[MicroTargets[k].index].shard = OracleInputs[j]
    BY <1>1, <2>1
  <2>3. QED
    BY <1>2, <2>1, <2>2 DEF OpAt
<1>4. /\ OracleInputs \in Seq(Paths) /\ N \in Nat /\ N >= 1 /\ OracleInputs[N] = NormalPath
      /\ \A i, j \in 1..N : OracleInputs[i] = OracleInputs[j] => i = j
  BY OracleFilesAssumption
<1>5. PICK j \in 1..Len(x.plan.shards) : op.shard = OracleInputs[j]
  BY <1>3
<1> HIDE DEF op
<1>6. j \in 1..N
  BY <1>3, <1>4, <1>5
<1>7. s \in 1..N /\ OracleInputs[s] = op.shard
  BY <1>5, <1>6 DEF SlotAt, op
<1> HIDE DEF s
<1>8. s = j
  BY <1>4, <1>5, <1>6, <1>7
<1>9. s = CHOOSE i \in 1..Len(x.plan.shards) : OracleInputs[i] = op.shard
  <2> DEFINE c == CHOOSE i \in 1..Len(x.plan.shards) : OracleInputs[i] = op.shard
  <2>1. c \in 1..Len(x.plan.shards) /\ OracleInputs[c] = op.shard
    BY <1>5
  <2> HIDE DEF c
  <2>2. c \in 1..N
    BY <1>3, <1>4, <2>1
  <2>3. c = s
    BY <1>4, <1>7, <2>1, <2>2
  <2>4. QED
    BY <2>3 DEF c
<1>10. Named(x.plan, s) = x.plan.shards[s] /\ Named(x.plan, N) = x.plan.lora
  BY <1>3, <1>4, <1>5, <1>8 DEF Named
<1>11. op = BakeOperation(MicroTargets[k].module, op.shard)
  BY DEF PlanAt, MicroAccepted, OpAt, op
<1>12. OracleInputs[s] \in Watched
  BY <1>7, InputPaths
<1>13. QED
  BY <1>1, <1>3, <1>4, <1>5, <1>7, <1>8, <1>9, <1>10, <1>11, <1>12 DEF op, s

(* What a run has read stays what it read, whatever others do.             *)
LEMMA ReadStays ==
  ASSUME Onward, NEW x, x.phase \in FoldingPhases, PlanAt(x), InputsAt(x, clock, conv), NEW k \in 1..Len(MicroTargets),
         NEW read, ReadWhenKept(x, read, k, file), NEW y, y.plan = x.plan, y.held = x.held
  PROVE  ReadWhenKept(y, read, k, file')
<1>1. x.phase \in PlannedPhases
  BY DEF PlannedPhases, OpenPhases
<1>2. SeenBy(BaseHeld(x, k), clock, conv) /\ SeenBy(LoraHeld(x), clock, conv)
  BY <1>1, OracleSlots DEF InputsAt, BaseHeld, LoraHeld
<1>3. OpAt(x, k).shard \in Watched /\ NormalPath \in Watched
  BY <1>1, OracleSlots, InputPaths
<1>4. OpAt(y, k) = OpAt(x, k) /\ BaseHeld(y, k) = BaseHeld(x, k) /\ LoraHeld(y) = LoraHeld(x)
  BY DEF OpAt, BaseHeld, LoraHeld, SlotAt
<1>5. QED
  BY <1>2, <1>3, <1>4 DEF ReadWhenKept, Onward

(* A compared target stays compared.                                       *)
LEMMA ComparedStays ==
  ASSUME Onward, NEW x, x.phase \in FoldingPhases, PlanAt(x), InputsAt(x, clock, conv), ResultsAt(x, file),
         NEW k \in 1..Len(x.results),
         NEW y, y.plan = x.plan, y.held = x.held, y.results[k] = x.results[k]
  PROVE  Compared(y, k, file') /\ k \in 1..Len(MicroTargets)
<1>1. Len(x.results) \in Nat /\ Len(MicroTargets) \in Nat
  BY OracleFilesAssumption DEF ResultsAt
<1>2. Compared(x, k, file) /\ k \in 1..Len(MicroTargets)
  BY <1>1 DEF ResultsAt
<1>3. ReadWhenKept(y, x.results[k].read, k, file')
  BY <1>2, ReadStays DEF Compared
<1>4. QED
  BY <1>2, <1>3 DEF Compared

(* A folded one stays folded.                                              *)
LEMMA FoldedStays ==
  ASSUME Onward, NEW x, x.phase \in WrittenPhases, PlanAt(x), InputsAt(x, clock, conv), ResultsAt(x, file),
         NEW y, y.plan = x.plan, y.held = x.held, y.read = x.read, y.staged = x.staged, y.results = x.results
  PROVE  Folded(y, Len(y.results) + 1, file')
<1>1. Len(x.results) \in Nat /\ Len(MicroTargets) \in Nat
  BY OracleFilesAssumption DEF ResultsAt
<1> DEFINE k == Len(x.results) + 1
<1>2. Folded(x, k, file) /\ k \in 1..Len(MicroTargets)
  BY <1>1 DEF ResultsAt, Folded
<1>3. x.phase \in FoldingPhases
  BY DEF FoldingPhases
<1>4. ReadWhenKept(y, x.read, k, file')
  BY <1>2, <1>3, ReadStays DEF Folded
<1>5. OpAt(y, k) = OpAt(x, k)
  BY DEF OpAt
<1>6. QED
  BY <1>2, <1>4, <1>5 DEF Folded

(* A run that gives its inputs away to nobody, in the same or a later      *)
(* phase.                                                                  *)
LEMMA InputsStay ==
  ASSUME Onward, NEW x, InputsAt(x, clock, conv)
  PROVE  x.held \in Seq(Range(x.held)) /\ \A k \in 1..Len(x.held) : SeenBy(x.held[k], clock', conv')
BY DEF InputsAt, Onward

(* A run that does not move stays right, whatever others do.               *)
LEMMA RunWaits ==
  ASSUME Onward, NEW o \in Oracles, OracleOf(o), oracle'[o] = oracle[o], cast' = cast
  PROVE  OracleOf(o)'
<1> DEFINE x == oracle[o]
<1>0. InputsAt(x, clock, conv) /\ PlanAt(x) /\ ResultsAt(x, file) /\ ReceiptAt(o, x)
  BY DEF OracleOf
<1>1. InputsAt(x, clock', conv')
  BY <1>0, InputsStay DEF InputsAt
<1>2. ResultsAt(x, file')
  <2>1. x.phase \in FoldingPhases => \A k \in 1..Len(x.results) : Compared(x, k, file')
    BY <1>0, ComparedStays
  <2>2. x.phase \in WrittenPhases => Folded(x, Len(x.results) + 1, file')
    BY <1>0, FoldedStays
  <2>3. QED
    BY <1>0, <2>1, <2>2 DEF ResultsAt
<1>3. QED
  BY <1>0, <1>1, <1>2 DEF OracleOf

(* A run that only changes its phase.                                      *)
LEMMA TurnFields ==
  ASSUME RunsOK, NEW o \in Oracles, NEW next, Turn(o, next)
  PROVE  LET x == oracle[o]
             y == oracle'[o]
         IN /\ DOMAIN y = OracleFields /\ y.phase = next
            /\ y.plan = x.plan /\ y.executor = x.executor /\ y.held = x.held /\ y.read = x.read
            /\ y.staged = x.staged /\ y.opened = x.opened /\ y.results = x.results
BY DEF RunsOK, OracleOf, OracleFields, Turn

(* What a run goes to without reading or writing anything of its own.      *)
Allowed(x, next) ==
  \/ next = "failed"
  \/ x.phase = "loaded" /\ next = "planned" /\ MicroAccepted(x.plan)
  \/ x.phase = "planned" /\ next = "referenced"
  \/ x.phase = "staged" /\ next = "linked"
  \/ x.phase = "linked" /\ next = "published"
  \/ /\ x.phase = "folding" /\ next = "closed"
     /\ Len(x.results) = Len(MicroTargets) /\ \A k \in 1..Len(x.results) : ReadAsNamed(x, k)
  \/ x.phase = "receipted" /\ next = "signed"
  \/ x.phase = "signed" /\ next \in {"returned", "left"}

(* It stays right, in each phase it may go to.                             *)
LEMMA RunTurns ==
  ASSUME Onward, RunsOK, NEW o \in Oracles, o \in cast, cast' = cast, NEW next, Turn(o, next), Allowed(oracle[o], next)
  PROVE  OracleOf(o)'
<1> DEFINE x == oracle[o]
           y == oracle'[o]
<1>0. InputsAt(x, clock, conv) /\ PlanAt(x) /\ ResultsAt(x, file) /\ ReceiptAt(o, x)
  BY DEF OracleOf, RunsOK
<1>1. /\ DOMAIN y = OracleFields /\ y.phase = next
      /\ y.plan = x.plan /\ y.executor = x.executor /\ y.held = x.held /\ y.read = x.read
      /\ y.staged = x.staged /\ y.opened = x.opened /\ y.results = x.results
  BY TurnFields
<1> HIDE DEF x, y
<1>a. Allowed(x, next)
  BY DEF x
<1>2. InputsAt(y, clock', conv')
  <2>1. x.held \in Seq(Range(x.held)) /\ \A k \in 1..Len(x.held) : SeenBy(x.held[k], clock', conv')
    BY <1>0, InputsStay
  <2>2. QED
    BY <1>0, <1>1, <1>a, <2>1 DEF InputsAt, Allowed, OpenPhases, FoldingPhases, ClosedPhases,
                                  SignedPhases, WrittenPhases
<1>3. PlanAt(y)
  BY <1>0, <1>1, <1>a DEF PlanAt, Allowed, LoadedPhases, PlannedPhases, OpenPhases, FoldingPhases, ClosedPhases,
                          SignedPhases, WrittenPhases
<1>4. ResultsAt(y, file')
  <2>1. x.phase \in FoldingPhases => \A k \in 1..Len(x.results) : Compared(y, k, file')
    BY <1>0, <1>1, ComparedStays
  <2>2. x.phase \in WrittenPhases => Folded(y, Len(y.results) + 1, file')
    BY <1>0, <1>1, FoldedStays
  <2>3. \A k \in 1..Len(x.results) : ReadAsNamed(x, k) => ReadAsNamed(y, k)
    BY <1>1 DEF ReadAsNamed, BaseHeld, LoraHeld, SlotAt, OpAt
  <2>4. QED
    BY <1>0, <1>1, <1>a, <2>1, <2>2, <2>3 DEF ResultsAt, Allowed, FoldingPhases, ClosedPhases,
                                              SignedPhases, WrittenPhases
<1>5. ReceiptAt(o, y)
  BY <1>0, <1>1, <1>a DEF ReceiptAt, Allowed, SignedPhases
<1>6. QED
  BY <1>1, <1>2, <1>3, <1>4, <1>5 DEF OracleOf, y

(* A run that binds its directories.                                       *)
LEMMA RunBinds ==
  ASSUME Onward, RunsOK, NEW o \in Oracles, o \in cast, UNCHANGED <<cast, conv>>, OracleBind(o)
  PROVE  OracleOf(o)'
<1> DEFINE x == oracle[o]
           y == oracle'[o]
<1>0. InputsAt(x, clock, conv) /\ PlanAt(x) /\ ResultsAt(x, file) /\ ReceiptAt(o, x) /\ DOMAIN x = OracleFields
      /\ DOMAIN oracle = Oracles /\ x.phase = "idle"
  BY DEF OracleOf, RunsOK, OracleBind
<1>1. CASE Turn(o, "failed")
  BY <1>1, RunTurns DEF Allowed
<1>2. CASE ~Turn(o, "failed")
  <2>1. oracle' = [oracle EXCEPT ![o].phase = "bound", ![o].bound = [d \in DOMAIN dirs |-> dirs[d].inode]]
    BY <1>2 DEF OracleBind, Fails
  <2>2. DOMAIN y = OracleFields /\ y.phase = "bound" /\ y.held = x.held /\ y.results = x.results
    BY <1>0, <2>1 DEF OracleFields
  <2>3. x.held \in Seq(Range(x.held)) /\ \A k \in 1..Len(x.held) : SeenBy(x.held[k], clock', conv')
    BY <1>0, InputsStay
  <2> HIDE DEF x, y
  <2>4. InputsAt(y, clock', conv') /\ PlanAt(y) /\ ResultsAt(y, file') /\ ReceiptAt(o, y)
    BY <1>0, <2>2, <2>3 DEF InputsAt, PlanAt, ResultsAt, ReceiptAt, LoadedPhases, PlannedPhases, OpenPhases,
                            FoldingPhases, ClosedPhases, SignedPhases, WrittenPhases
  <2>5. QED
    BY <2>2, <2>4 DEF OracleOf, y
<1>3. QED
  BY <1>1, <1>2

(* A run that loads its plan.                                              *)
LEMMA RunLoads ==
  ASSUME Onward, RunsOK, NEW o \in Oracles, o \in cast, UNCHANGED <<cast, conv>>, OracleLoad(o)
  PROVE  OracleOf(o)'
<1> DEFINE x == oracle[o]
           y == oracle'[o]
<1>0. InputsAt(x, clock, conv) /\ PlanAt(x) /\ ResultsAt(x, file) /\ ReceiptAt(o, x) /\ DOMAIN x = OracleFields
      /\ DOMAIN oracle = Oracles /\ x.phase = "bound"
  BY DEF OracleOf, RunsOK, OracleLoad
<1>1. CASE Turn(o, "failed")
  BY <1>1, RunTurns DEF Allowed
<1>2. CASE ~Turn(o, "failed")
  <2>1. PICK path \in PlanPaths, text \in DOMAIN PlanText :
          oracle' = [oracle EXCEPT ![o].phase = "loaded", ![o].path = path, ![o].plan = PlanText[text]]
    BY <1>2 DEF OracleLoad, Fails
  <2>2. /\ DOMAIN y = OracleFields /\ y.phase = "loaded" /\ y.held = x.held /\ y.results = x.results
        /\ y.plan = PlanText[text]
    BY <1>0, <2>1 DEF OracleFields
  <2>3. x.held \in Seq(Range(x.held)) /\ \A k \in 1..Len(x.held) : SeenBy(x.held[k], clock', conv')
    BY <1>0, InputsStay
  <2> HIDE DEF x, y
  <2>4. InputsAt(y, clock', conv') /\ PlanAt(y) /\ ResultsAt(y, file') /\ ReceiptAt(o, y)
    BY <1>0, <2>2, <2>3 DEF InputsAt, PlanAt, ResultsAt, ReceiptAt, LoadedPhases, PlannedPhases, OpenPhases,
                            FoldingPhases, ClosedPhases, SignedPhases, WrittenPhases
  <2>5. QED
    BY <2>2, <2>4 DEF OracleOf, y
<1>3. QED
  BY <1>1, <1>2

(* A run that takes the reference source it will execute.                  *)
LEMMA RunExecutes ==
  ASSUME Onward, RunsOK, NEW o \in Oracles, o \in cast, UNCHANGED <<cast, conv>>, OracleExecutor(o)
  PROVE  OracleOf(o)'
<1> DEFINE x == oracle[o]
           y == oracle'[o]
<1>0. InputsAt(x, clock, conv) /\ PlanAt(x) /\ ResultsAt(x, file) /\ ReceiptAt(o, x) /\ DOMAIN x = OracleFields
      /\ DOMAIN oracle = Oracles /\ x.phase = "referenced"
  BY DEF OracleOf, RunsOK, OracleExecutor
<1>1. CASE Turn(o, "failed")
  BY <1>1, RunTurns DEF Allowed
<1>2. CASE ~Turn(o, "failed")
  <2>1. /\ file[ReferencePath].data = Reference
        /\ oracle' = [oracle EXCEPT ![o].phase = "opening", ![o].executor = file[ReferencePath].data]
    BY <1>2 DEF OracleExecutor, Fails
  <2>2. /\ DOMAIN y = OracleFields /\ y.phase = "opening" /\ y.held = x.held /\ y.results = x.results
        /\ y.plan = x.plan /\ y.executor = Reference
    BY <1>0, <2>1 DEF OracleFields
  <2>3. x.held = <<>> /\ Len(OracleInputs) >= 1
    BY <1>0, OracleFilesAssumption DEF InputsAt
  <2> HIDE DEF x, y
  <2>4. InputsAt(y, clock', conv')
    <3>1. y.held \in Seq(Range(y.held))
      BY <1>0, <2>2 DEF InputsAt
    <3>2. Len(y.held) = 0 /\ Len(OracleInputs) \in Nat
      BY <2>2, <2>3, OracleFilesAssumption
    <3>3. QED
      BY <2>2, <2>3, <3>1, <3>2 DEF InputsAt, FoldingPhases, ClosedPhases, SignedPhases, WrittenPhases
  <2>5. PlanAt(y) /\ ResultsAt(y, file') /\ ReceiptAt(o, y)
    BY <1>0, <2>2 DEF PlanAt, ResultsAt, ReceiptAt, LoadedPhases, PlannedPhases, OpenPhases,
                            FoldingPhases, ClosedPhases, SignedPhases, WrittenPhases
  <2>6. QED
    BY <2>2, <2>4, <2>5 DEF OracleOf, y
<1>3. QED
  BY <1>1, <1>2

(* A run that opens the next input of its plan.                            *)
LEMMA RunOpens ==
  ASSUME Onward, WatchedOK, RunsOK, NEW o \in Oracles, o \in cast, UNCHANGED <<cast, conv>>, OracleOpen(o)
  PROVE  OracleOf(o)'
<1> DEFINE x == oracle[o]
           y == oracle'[o]
           k == Len(x.held) + 1
           h == file[OracleInputs[k]]
           held == Append(x.held, h)
<1>0. InputsAt(x, clock, conv) /\ PlanAt(x) /\ ResultsAt(x, file) /\ ReceiptAt(o, x) /\ DOMAIN x = OracleFields
      /\ DOMAIN oracle = Oracles /\ x.phase = "opening"
  BY DEF OracleOf, RunsOK, OracleOpen
<1>1. CASE Turn(o, "failed")
  BY <1>1, RunTurns DEF Allowed
<1>2. CASE ~Turn(o, "failed")
  <2>1. /\ h.data = Named(x.plan, k)
        /\ oracle' = [oracle EXCEPT ![o].held = held,
                                    ![o].phase = IF k = Len(OracleInputs) THEN "folding" ELSE @]
    BY <1>2 DEF OracleOpen, Fails
  <2>2. /\ x.held \in Seq(Range(x.held)) /\ Len(x.held) \in Nat /\ Len(OracleInputs) \in Nat
        /\ k \in 1..Len(OracleInputs) /\ x.results = <<>>
    BY <1>0, OracleFilesAssumption DEF InputsAt, ResultsAt
  <2>3. SeenBy(h, clock', conv')
    BY <2>2, InputPaths DEF WatchedOK, Onward
  <2>4. /\ held \in Seq(Range(held)) /\ Len(held) = k /\ held[k] = h
        /\ \A j \in 1..Len(x.held) : held[j] = x.held[j]
    <3>1. held \in Seq(Range(held))
      BY <2>2, AppendRange
    <3>2. x.held \in Seq(Range(x.held) \cup {h})
      <4>1. \A j \in 1..Len(x.held) : x.held[j] \in Range(x.held) \cup {h}
        BY <2>2
      <4>2. QED
        BY <2>2, <4>1
    <3>3. QED
      BY <3>1, <3>2
  <2> HIDE DEF held, k, h
  <2>5. /\ DOMAIN y = OracleFields /\ y.phase = IF k = Len(OracleInputs) THEN "folding" ELSE "opening"
        /\ y.held = held /\ y.results = x.results /\ y.plan = x.plan /\ y.executor = x.executor
    BY <1>0, <2>1 DEF OracleFields
  <2>6. \A j \in 1..Len(held) : j = k \/ j \in 1..Len(x.held)
    BY <2>2, <2>4 DEF k
  <2>7. x.held \in Seq(Range(x.held)) /\ \A j \in 1..Len(x.held) : SeenBy(x.held[j], clock', conv')
    BY <1>0, InputsStay
  <2>8. \A j \in 1..Len(held) : SeenBy(held[j], clock', conv') /\ held[j].data = Named(x.plan, j)
    BY <1>0, <2>1, <2>3, <2>4, <2>6, <2>7 DEF InputsAt, OpenPhases
  <2> HIDE DEF x, y
  <2>9. InputsAt(y, clock', conv')
    BY <2>2, <2>4, <2>5, <2>8 DEF InputsAt, OpenPhases, FoldingPhases, ClosedPhases, SignedPhases, WrittenPhases
  <2>10. PlanAt(y) /\ ReceiptAt(o, y)
    BY <1>0, <2>5 DEF PlanAt, ReceiptAt, LoadedPhases, PlannedPhases, OpenPhases, FoldingPhases, ClosedPhases,
                      SignedPhases, WrittenPhases
  <2>11. ResultsAt(y, file')
    <3>1. \A S : <<>> \in Seq(S)
      OBVIOUS
    <3>2. y.results = <<>> /\ Len(y.results) = 0 /\ Len(MicroTargets) \in Nat /\ y.results \in Seq(Range(y.results))
      BY <2>2, <2>5, <3>1, OracleFilesAssumption
    <3>3. QED
      BY <2>5, <3>2 DEF ResultsAt, ClosedPhases, SignedPhases, WrittenPhases
  <2>12. QED
    BY <2>5, <2>9, <2>10, <2>11 DEF OracleOf, y
<1>3. QED
  BY <1>1, <1>2

(* A run that only checks something, or links what it has staged.          *)
LEMMA RunChecks ==
  ASSUME Onward, RunsOK, NEW o \in Oracles, o \in cast, UNCHANGED <<cast, conv>>,
         \/ OracleRehash(o) \/ OracleReference(o) \/ OracleLink(o) \/ OracleConfirm(o)
         \/ OracleReturn(o) \/ OracleConfirmReceipt(o)
  PROVE  OracleOf(o)'
<1>1. CASE OracleRehash(o)
  <2>1. PICK next : Turn(o, next) /\ Allowed(oracle[o], next)
    BY <1>1 DEF OracleRehash, Fails, Allowed
  <2>2. QED
    BY <2>1, RunTurns
<1>2. CASE OracleReference(o)
  <2>1. PICK next : Turn(o, next) /\ Allowed(oracle[o], next)
    BY <1>2 DEF OracleReference, Fails, Allowed
  <2>2. QED
    BY <2>1, RunTurns
<1>3. CASE OracleLink(o)
  <2>1. PICK next : Turn(o, next) /\ Allowed(oracle[o], next)
    BY <1>3 DEF OracleLink, LinkInto, Fails, Allowed
  <2>2. QED
    BY <2>1, RunTurns
<1>4. CASE OracleReturn(o)
  <2>1. PICK next : Turn(o, next) /\ Allowed(oracle[o], next)
    BY <1>4 DEF OracleReturn, LinkInto, Fails, Allowed
  <2>2. QED
    BY <2>1, RunTurns
<1>5. CASE OracleConfirm(o)
  <2>1. PICK next : Turn(o, next) /\ Allowed(oracle[o], next)
    BY <1>5 DEF OracleConfirm, Confirm, Allowed
  <2>2. QED
    BY <2>1, RunTurns
<1>6. CASE OracleConfirmReceipt(o)
  <2>1. PICK next : Turn(o, next) /\ Allowed(oracle[o], next)
    BY <1>6 DEF OracleConfirmReceipt, Confirm, Allowed
  <2>2. QED
    BY <2>1, RunTurns
<1>7. QED
  BY <1>1, <1>2, <1>3, <1>4, <1>5, <1>6

(* A run whose inputs are all still what it opened has read what its plan  *)
(* names.                                                                  *)
LEMMA RunCloses ==
  ASSUME Onward, RunsOK, NEW o \in Oracles, o \in cast, UNCHANGED <<cast, conv>>, OracleClose(o)
  PROVE  OracleOf(o)'
<1> DEFINE x == oracle[o]
<1>0. InputsAt(x, clock, conv) /\ PlanAt(x) /\ ResultsAt(x, file) /\ x.phase = "folding"
  BY DEF OracleOf, RunsOK, OracleClose
<1>1. CASE Turn(o, "failed")
  BY <1>1, RunTurns DEF Allowed
<1>2. CASE ~Turn(o, "failed")
  <2>1. /\ \A k \in 1..Len(OracleInputs) : file[OracleInputs[k]] = x.held[k]
        /\ Turn(o, "closed") /\ Len(x.results) + 1 > Len(MicroTargets)
    BY <1>2 DEF OracleClose, Fails, Current
  <2> HIDE DEF x
  <2>2. /\ Len(x.results) \in Nat /\ Len(MicroTargets) \in Nat /\ Len(x.results) <= Len(MicroTargets)
        /\ \A k \in 1..Len(x.results) : Compared(x, k, file)
    <3>1. Len(MicroTargets) \in Nat
      BY OracleFilesAssumption
    <3>2. x.results \in Seq(Range(x.results))
      BY <1>0 DEF ResultsAt
    <3>3. x.phase \in FoldingPhases
      BY <1>0 DEF FoldingPhases, WrittenPhases
    <3>4. /\ Len(x.results) <= Len(MicroTargets)
          /\ \A k \in 1..Len(x.results) : Compared(x, k, file)
      BY <1>0, <3>3 DEF ResultsAt
    <3>5. QED
      BY <3>1, <3>2, <3>4
  <2>3. Len(x.results) = Len(MicroTargets)
    BY <2>1, <2>2
  <2>4. ASSUME NEW k \in 1..Len(x.results)
        PROVE  ReadAsNamed(x, k)
    <3>1. x.phase \in PlannedPhases /\ k \in 1..Len(MicroTargets)
      BY <1>0, <2>3 DEF PlannedPhases, OpenPhases, FoldingPhases
    <3>2. /\ SlotAt(x, k) \in 1..Len(OracleInputs) /\ Len(OracleInputs) \in 1..Len(OracleInputs)
          /\ OracleInputs[SlotAt(x, k)] = OpAt(x, k).shard /\ OracleInputs[Len(OracleInputs)] = NormalPath
      BY <1>0, <3>1, OracleSlots
    <3>3. KeptIn(OpAt(x, k).shard, BaseHeld(x, k), file) /\ KeptIn(NormalPath, LoraHeld(x), file)
      BY <2>1, <3>2 DEF KeptIn, BaseHeld, LoraHeld
    <3>4. Compared(x, k, file)
      BY <2>2
    <3>5. QED
      BY <3>3, <3>4 DEF Compared, ReadWhenKept, ReadAsNamed
  <2>5. Allowed(x, "closed")
    BY <1>0, <2>3, <2>4 DEF Allowed
  <2>6. QED
    BY <2>1, <2>5, RunTurns DEF x
<1>3. QED
  BY <1>1, <1>2

(* A run that reads and folds its next target.                             *)
LEMMA RunFolds ==
  ASSUME Onward, WatchedOK, RunsOK, NEW o \in Oracles, o \in cast, UNCHANGED <<cast, conv>>, OracleFold(o)
  PROVE  OracleOf(o)'
<1> DEFINE x == oracle[o]
           y == oracle'[o]
           k == Len(x.results) + 1
           op == Operation(o)
           slot == CHOOSE j \in 1..Len(OracleInputs) : OracleInputs[j] = op.shard
           base == HeldData(OracleInputs[slot], x.held[slot])
           lora == HeldData(NormalPath, x.held[Len(OracleInputs)])
           rows == ToSerialized(op, CandidateFold(op, base.body, lora.body))
<1>0. InputsAt(x, clock, conv) /\ PlanAt(x) /\ ResultsAt(x, file) /\ ReceiptAt(o, x) /\ DOMAIN x = OracleFields
      /\ DOMAIN oracle = Oracles /\ x.phase = "folding" /\ k <= Len(MicroTargets)
  BY DEF OracleOf, RunsOK, OracleFold, Current
<1>1. CASE Turn(o, "failed")
  BY <1>1, RunTurns DEF Allowed
<1>2. CASE ~Turn(o, "failed")
  <2>1. /\ oracle' = [oracle EXCEPT ![o].phase = "staged", ![o].read = [base |-> base, lora |-> lora],
                                    ![o].staged = Staging(CandidateData(o, rows))]
        /\ UNCHANGED file
    BY <1>2 DEF OracleFold, Fails
  <2>2. /\ op = OpAt(x, k) /\ slot = SlotAt(x, k)
    BY DEF Operation, Current, OpAt, SlotAt
  <2>a. base = HeldData(OracleInputs[SlotAt(x, k)], BaseHeld(x, k)) /\ lora = HeldData(NormalPath, LoraHeld(x))
    BY <2>2 DEF BaseHeld, LoraHeld
  <2> HIDE DEF base, lora, slot
  <2>b. rows = ToSerialized(OpAt(x, k), CandidateFold(OpAt(x, k), base.body, lora.body))
    BY <2>2
  <2> HIDE DEF op, rows
  <2>3. /\ DOMAIN y = OracleFields /\ y.phase = "staged" /\ y.plan = x.plan /\ y.executor = x.executor
        /\ y.held = x.held /\ y.results = x.results /\ y.read = [base |-> base, lora |-> lora]
        /\ y.staged.data.rows = rows
    BY <1>0, <2>1 DEF OracleFields, Staging, CandidateData
  <2> HIDE DEF x, y
  <2>4. Len(x.results) \in Nat /\ Len(MicroTargets) \in Nat /\ k \in 1..Len(MicroTargets)
    BY <1>0, OracleFilesAssumption DEF ResultsAt
  <2> HIDE DEF k
  <2>5. x.phase \in PlannedPhases /\ x.phase \in FoldingPhases
    BY <1>0 DEF PlannedPhases, OpenPhases, FoldingPhases
  <2>6. /\ SlotAt(x, k) \in 1..Len(OracleInputs) /\ Len(OracleInputs) \in 1..Len(OracleInputs)
        /\ OracleInputs[SlotAt(x, k)] = OpAt(x, k).shard /\ OpAt(x, k).shard \in Watched
        /\ NormalPath \in Watched
    BY <1>0, <2>4, <2>5, OracleSlots, InputPaths
  <2>7. SeenBy(BaseHeld(x, k), clock, conv) /\ SeenBy(LoraHeld(x), clock, conv)
    BY <1>0, <2>5, <2>6 DEF InputsAt, BaseHeld, LoraHeld
  <2>8. ReadWhenKept(x, y.read, k, file)
    <3>1. KeptIn(OpAt(x, k).shard, BaseHeld(x, k), file) => base = BaseHeld(x, k).data
      BY <2>a, <2>6, <2>7, HeldIs DEF WatchedOK
    <3>2. KeptIn(NormalPath, LoraHeld(x), file) => lora = LoraHeld(x).data
      BY <2>a, <2>6, <2>7, HeldIs DEF WatchedOK
    <3>3. QED
      BY <2>3, <3>1, <3>2 DEF ReadWhenKept
  <2>9. InputsAt(y, clock', conv')
    <3>1. x.held \in Seq(Range(x.held)) /\ \A j \in 1..Len(x.held) : SeenBy(x.held[j], clock', conv')
      BY <1>0, InputsStay
    <3>2. QED
      BY <1>0, <2>3, <3>1 DEF InputsAt, OpenPhases, FoldingPhases, ClosedPhases, SignedPhases, WrittenPhases
  <2>10. PlanAt(y) /\ ReceiptAt(o, y)
    BY <1>0, <2>3 DEF PlanAt, ReceiptAt, LoadedPhases, PlannedPhases, OpenPhases, FoldingPhases, ClosedPhases,
                      SignedPhases, WrittenPhases
  <2>11. ResultsAt(y, file')
    <3>1. \A j \in 1..Len(x.results) : Compared(y, j, file')
      BY <1>0, <2>3, <2>5, ComparedStays
    <3>2. ReadWhenKept(y, y.read, k, file')
      BY <1>0, <2>3, <2>4, <2>5, <2>8, ReadStays
    <3>3. OpAt(y, k) = OpAt(x, k)
      BY <2>3 DEF OpAt
    <3>4. y.staged.data.rows = ToSerialized(OpAt(y, k), CandidateFold(OpAt(y, k), y.read.base.body, y.read.lora.body))
      BY <2>3, <2>b, <3>3
    <3>5. Folded(y, Len(y.results) + 1, file')
      BY <2>3, <2>4, <3>2, <3>4 DEF Folded, k
    <3>6. QED
      BY <1>0, <2>3, <2>4, <3>1, <3>5 DEF ResultsAt, FoldingPhases, ClosedPhases, SignedPhases, WrittenPhases, k
  <2>12. QED
    BY <2>3, <2>9, <2>10, <2>11 DEF OracleOf, y
<1>3. QED
  BY <1>1, <1>2

(* A run that opens the candidate it has published.                        *)
LEMMA RunRereads ==
  ASSUME Onward, RunsOK, NEW o \in Oracles, o \in cast, UNCHANGED <<cast, conv>>, OracleReread(o)
  PROVE  OracleOf(o)'
<1> DEFINE x == oracle[o]
           y == oracle'[o]
<1>0. InputsAt(x, clock, conv) /\ PlanAt(x) /\ ResultsAt(x, file) /\ ReceiptAt(o, x) /\ DOMAIN x = OracleFields
      /\ DOMAIN oracle = Oracles /\ x.phase = "published"
  BY DEF OracleOf, RunsOK, OracleReread
<1>1. CASE Turn(o, "failed")
  BY <1>1, RunTurns DEF Allowed
<1>2. CASE ~Turn(o, "failed")
  <2>1. /\ oracle' = [oracle EXCEPT ![o].phase = "reread", ![o].opened = file[Candidate(o, Current(o))]]
        /\ file[Candidate(o, Current(o))] = x.staged
    BY <1>2 DEF OracleReread, IsPublished, Fails
  <2>2. /\ DOMAIN y = OracleFields /\ y.phase = "reread" /\ y.plan = x.plan /\ y.executor = x.executor
        /\ y.held = x.held /\ y.read = x.read /\ y.staged = x.staged /\ y.results = x.results
        /\ y.opened = y.staged
    BY <1>0, <2>1 DEF OracleFields
  <2> HIDE DEF x, y
  <2>3. x.phase \in FoldingPhases /\ x.phase \in WrittenPhases
    BY <1>0 DEF FoldingPhases, WrittenPhases
  <2>4. InputsAt(y, clock', conv')
    <3>1. x.held \in Seq(Range(x.held)) /\ \A k \in 1..Len(x.held) : SeenBy(x.held[k], clock', conv')
      BY <1>0, InputsStay
    <3>2. QED
      BY <1>0, <2>2, <3>1 DEF InputsAt, OpenPhases, FoldingPhases, ClosedPhases, SignedPhases, WrittenPhases
  <2>5. PlanAt(y) /\ ReceiptAt(o, y)
    BY <1>0, <2>2 DEF PlanAt, ReceiptAt, LoadedPhases, PlannedPhases, OpenPhases, FoldingPhases, ClosedPhases,
                      SignedPhases, WrittenPhases
  <2>6. ResultsAt(y, file')
    <3>1. \A k \in 1..Len(x.results) : Compared(y, k, file')
      BY <1>0, <2>2, <2>3, ComparedStays
    <3>2. Folded(y, Len(y.results) + 1, file')
      BY <1>0, <2>2, <2>3, FoldedStays
    <3>3. QED
      BY <1>0, <2>2, <2>3, <3>1, <3>2 DEF ResultsAt, FoldingPhases, ClosedPhases, SignedPhases, WrittenPhases
  <2>7. QED
    BY <2>2, <2>4, <2>5, <2>6 DEF OracleOf, y
<1>3. QED
  BY <1>1, <1>2

(* A run that reads a candidate back and compares it.                      *)
LEMMA RunReloads ==
  ASSUME Onward, RunsOK, NEW o \in Oracles, o \in cast, UNCHANGED <<cast, conv>>, OracleReload(o)
  PROVE  OracleOf(o)'
<1> DEFINE x == oracle[o]
           y == oracle'[o]
           n == Len(x.results) + 1
           op == Operation(o)
           read == x.read
           reference == ReferenceFold(op, read.base.body, read.lora.body)
           payload == HeldData(Candidate(o, Current(o)), x.opened)
           reloaded == Reloaded(op, payload.rows)
           same == reference = reloaded
           nan == read.base.body \in NonFinite \/ read.lora.body \in NonFinite
           result == [read |-> read, same |-> same, equal |-> same /\ ~nan]
           results == Append(x.results, result)
<1>0. InputsAt(x, clock, conv) /\ PlanAt(x) /\ ResultsAt(x, file) /\ ReceiptAt(o, x) /\ DOMAIN x = OracleFields
      /\ DOMAIN oracle = Oracles /\ x.phase = "reread"
  BY DEF OracleOf, RunsOK, OracleReload
<1>1. CASE Turn(o, "failed")
  BY <1>1, RunTurns DEF Allowed
<1>2. CASE ~Turn(o, "failed")
  <2>1. /\ oracle' = [oracle EXCEPT ![o].phase = "folding", ![o].results = results]
        /\ IsPublished(o)
    BY <1>2 DEF OracleReload, Fails
  <2>2. op = OpAt(x, n)
    BY DEF Operation, Current, OpAt
  <2>3. x.phase \in PlannedPhases /\ x.phase \in FoldingPhases
    BY <1>0 DEF PlannedPhases, OpenPhases, FoldingPhases, WrittenPhases
  <2>4. Folded(x, n, file) /\ n \in 1..Len(MicroTargets) /\ Len(x.results) \in Nat /\ Len(MicroTargets) \in Nat
    BY <1>0, OracleFilesAssumption DEF ResultsAt, Folded, WrittenPhases
  <2>5. MicroTargets[n].module \in AllModules /\ op = BakeOperation(MicroTargets[n].module, op.shard)
    BY <1>0, <2>2, <2>3, <2>4, OracleSlots
  <2>6. payload.rows = ToSerialized(op, CandidateFold(op, read.base.body, read.lora.body))
    <3>1. payload = x.staged.data
      BY <1>0, <2>1 DEF IsPublished, ResultsAt, HeldData
    <3>2. QED
      BY <2>2, <2>4, <3>1 DEF Folded
  <2>7. same \in BOOLEAN /\ (same <=> <<read.base.body, read.lora.body>> \in Parity)
    <3> HIDE DEF op, payload
    <3>1. \A b, l : ReferenceFold(op, b, l) = Reloaded(op, ToSerialized(op, CandidateFold(op, b, l)))
                      <=> <<b, l>> \in Parity
      BY <2>5, FoldsAgree
    <3>2. QED
      BY <2>6, <3>1
  <2> HIDE DEF same, nan, op, payload
  <2>8. /\ result.read = read /\ result.same \in BOOLEAN /\ result.equal \in BOOLEAN
        /\ (result.equal => result.same)
        /\ result.same <=> <<read.base.body, read.lora.body>> \in Parity
    BY <2>7
  <2> HIDE DEF result
  <2>9. /\ results \in Seq(Range(results)) /\ Len(results) = n /\ results[n] = result
        /\ \A j \in 1..Len(x.results) : results[j] = x.results[j]
    <3>1. x.results \in Seq(Range(x.results))
      BY <1>0 DEF ResultsAt
    <3>2. results \in Seq(Range(results))
      BY <3>1, AppendRange
    <3>3. x.results \in Seq(Range(x.results) \cup {result})
      <4>1. \A j \in 1..Len(x.results) : x.results[j] \in Range(x.results) \cup {result}
        BY <3>1
      <4>2. QED
        BY <3>1, <4>1
    <3>4. QED
      BY <3>2, <3>3
  <2> HIDE DEF results
  <2>10. /\ DOMAIN y = OracleFields /\ y.phase = "folding" /\ y.plan = x.plan /\ y.executor = x.executor
         /\ y.held = x.held /\ y.results = results
    BY <1>0, <2>1 DEF OracleFields
  <2> HIDE DEF x, y
  <2>11. InputsAt(y, clock', conv')
    <3>1. x.held \in Seq(Range(x.held)) /\ \A j \in 1..Len(x.held) : SeenBy(x.held[j], clock', conv')
      BY <1>0, InputsStay
    <3>2. QED
      BY <1>0, <2>10, <3>1 DEF InputsAt, OpenPhases, FoldingPhases, ClosedPhases, SignedPhases, WrittenPhases
  <2>12. PlanAt(y) /\ ReceiptAt(o, y)
    BY <1>0, <2>10 DEF PlanAt, ReceiptAt, LoadedPhases, PlannedPhases, OpenPhases, FoldingPhases, ClosedPhases,
                       SignedPhases, WrittenPhases
  <2>13. ResultsAt(y, file')
    <3>1. \A j \in 1..Len(x.results) : Compared(y, j, file')
      BY <1>0, <2>3, <2>9, <2>10, ComparedStays
    <3>2. ReadWhenKept(x, read, n, file)
      BY <2>4 DEF Folded
    <3>3. ReadWhenKept(y, read, n, file')
      BY <1>0, <2>3, <2>4, <2>10, <3>2, ReadStays
    <3>4. Compared(y, n, file')
      BY <2>8, <2>9, <2>10, <3>3 DEF Compared
    <3>5. \A j \in 1..n : j = n \/ j \in 1..Len(x.results)
      BY <2>4
    <3>6. \A j \in 1..Len(y.results) : Compared(y, j, file')
      BY <2>9, <2>10, <3>1, <3>4, <3>5
    <3>7. Len(y.results) <= Len(MicroTargets) /\ y.results \in Seq(Range(y.results))
      BY <2>4, <2>9, <2>10
    <3>8. QED
      BY <2>10, <3>6, <3>7 DEF ResultsAt, ClosedPhases, SignedPhases, WrittenPhases
  <2>14. QED
    BY <2>10, <2>11, <2>12, <2>13 DEF OracleOf, y
<1>3. QED
  BY <1>1, <1>2

(* A run that stages its receipt.                                          *)
LEMMA RunReceipts ==
  ASSUME WorkflowInv, Onward, RunsOK, NEW o \in Oracles, o \in cast, UNCHANGED <<cast, conv>>, OracleReceipt(o)
  PROVE  OracleOf(o)'
<1> DEFINE x == oracle[o]
           y == oracle'[o]
           receipt == Staging(ReceiptData(o, Decision(x.results)))
<1>0. InputsAt(x, clock, conv) /\ PlanAt(x) /\ ResultsAt(x, file) /\ ReceiptAt(o, x) /\ DOMAIN x = OracleFields
      /\ DOMAIN oracle = Oracles /\ x.phase = "closed" /\ clock \in Nat
  BY DEF OracleOf, RunsOK, OracleReceipt, WorkflowInv, FilesOK
<1>1. CASE Turn(o, "failed")
  BY <1>1, RunTurns DEF Allowed
<1>2. CASE ~Turn(o, "failed")
  <2>1. /\ oracle' = [oracle EXCEPT ![o].phase = "receipted", ![o].staged = receipt]
        /\ \A k \in 1..Len(MicroTargets) : x.results[k].equal = x.results[k].same
    BY <1>2 DEF OracleReceipt, Fails
  <2>2. receipt.stamp = clock + 1 /\ receipt.data.head.id = o /\ receipt.data.body = Decision(x.results)
    BY DEF Staging, ReceiptData
  <2> HIDE DEF receipt
  <2>3. /\ DOMAIN y = OracleFields /\ y.phase = "receipted" /\ y.plan = x.plan /\ y.executor = x.executor
        /\ y.held = x.held /\ y.results = x.results /\ y.staged = receipt
    BY <1>0, <2>1 DEF OracleFields
  <2> HIDE DEF x, y
  <2>4. x.phase \in FoldingPhases /\ Len(x.results) = Len(MicroTargets)
    BY <1>0 DEF FoldingPhases, ClosedPhases, ResultsAt
  <2>5. InputsAt(y, clock', conv')
    <3>1. x.held \in Seq(Range(x.held)) /\ \A j \in 1..Len(x.held) : SeenBy(x.held[j], clock', conv')
      BY <1>0, InputsStay
    <3>2. QED
      BY <1>0, <2>3, <3>1 DEF InputsAt, OpenPhases, FoldingPhases, ClosedPhases, SignedPhases, WrittenPhases
  <2>6. PlanAt(y)
    BY <1>0, <2>3 DEF PlanAt, LoadedPhases, PlannedPhases, OpenPhases, FoldingPhases, ClosedPhases,
                      SignedPhases, WrittenPhases
  <2>7. ResultsAt(y, file')
    <3>1. \A k \in 1..Len(x.results) : Compared(y, k, file')
      BY <1>0, <2>3, <2>4, ComparedStays
    <3>2. \A k \in 1..Len(x.results) : ReadAsNamed(x, k) => ReadAsNamed(y, k)
      BY <2>3 DEF ReadAsNamed, BaseHeld, LoraHeld, SlotAt, OpAt
    <3>3. QED
      BY <1>0, <2>3, <3>1, <3>2 DEF ResultsAt, FoldingPhases, ClosedPhases, SignedPhases, WrittenPhases
  <2>8. ReceiptAt(o, y)
    <3>1. receipt # Absent
      BY <1>0, <2>2, AbsentFields
    <3>2. QED
      BY <2>1, <2>2, <2>3, <2>4, <3>1 DEF ReceiptAt
  <2>9. QED
    BY <2>3, <2>5, <2>6, <2>7, <2>8 DEF OracleOf, y
<1>3. QED
  BY <1>1, <1>2

(* Nobody but a run writes the receipt; and where others may replace its   *)
(* directory, one run only.                                                *)
OneReceipt ==
  \A c \in Casts :
    /\ ReceiptPath \notin c
    /\ "evidence" \in c => \A o, q \in Oracles \cap c : o = q

(* The receipt of a run stays, or goes with its directory.                 *)
PublishedOK ==
  \A o \in Oracles : oracle[o].phase \in SignedPhases =>
    \/ file[ReceiptPath] = oracle[o].staged
    \/ file[ReceiptPath] = Absent /\ "evidence" \in cast

(* The inductive invariant of the runs of the oracle.                      *)
OracleInv == WatchedOK /\ RunsOK /\ PublishedOK

(* How a run comes to have signed.                                         *)
Signs(o) ==
  \/ /\ OracleReturn(o) /\ ~Exists(ReceiptPath)
     /\ file' = [file EXCEPT ![ReceiptPath] = oracle[o].staged]
  \/ oracle[o].phase \in SignedPhases /\ UNCHANGED file

(* A step of a run moves that run only, and signs only by linking the      *)
(* receipt where there is none; what it does after that moves no file.     *)
LEMMA OracleMoves ==
  ASSUME RunsOK, NEW o \in Oracles, OracleStep(o)
  PROVE  /\ DOMAIN oracle' = Oracles
         /\ \A q \in Oracles \ {o} : oracle'[q] = oracle[q]
         /\ oracle'[o].phase \in SignedPhases => oracle'[o].staged = oracle[o].staged /\ Signs(o)
<1>0. DOMAIN oracle = Oracles /\ DOMAIN oracle[o] = OracleFields
  BY DEF RunsOK, OracleOf
<1>f. ASSUME NEW next, Turn(o, next)
      PROVE  /\ DOMAIN oracle' = Oracles /\ oracle'[o].phase = next /\ oracle'[o].staged = oracle[o].staged
             /\ \A q \in Oracles \ {o} : oracle'[q] = oracle[q]
  BY <1>0, <1>f DEF Turn, OracleFields
<1>g. ASSUME NEW next, Turn(o, next), next \notin SignedPhases
      PROVE  /\ DOMAIN oracle' = Oracles /\ oracle'[o].phase \notin SignedPhases
             /\ \A q \in Oracles \ {o} : oracle'[q] = oracle[q]
  BY <1>f, <1>g
<1>a. CASE OracleRehash(o) \/ OracleReference(o) \/ OracleClose(o) \/ OracleLink(o) \/ OracleConfirm(o)
  <2>1. \E next : Turn(o, next) /\ next \notin SignedPhases
    BY <1>a DEF OracleRehash, OracleReference, OracleClose, OracleLink, OracleConfirm, LinkInto, Confirm, Fails,
                SignedPhases
  <2>2. QED
    BY <1>g, <2>1
<1>1. CASE OracleBind(o) /\ ~Turn(o, "failed")
  BY <1>0, <1>1 DEF OracleBind, Fails, OracleFields, SignedPhases
<1>2. CASE OracleExecutor(o) /\ ~Turn(o, "failed")
  BY <1>0, <1>2 DEF OracleExecutor, Fails, OracleFields, SignedPhases
<1>b. CASE OracleLoad(o) /\ ~Turn(o, "failed")
  <2>1. PICK path \in PlanPaths, text \in DOMAIN PlanText :
          oracle' = [oracle EXCEPT ![o].phase = "loaded", ![o].path = path, ![o].plan = PlanText[text]]
    BY <1>b DEF OracleLoad, Fails
  <2>2. QED
    BY <1>0, <2>1 DEF OracleFields, SignedPhases
<1>c. CASE Turn(o, "failed")
  BY <1>c, <1>g DEF SignedPhases
<1> USE DEF OracleFields, SignedPhases
<1>3. CASE OracleOpen(o) /\ ~Turn(o, "failed")
  BY <1>0, <1>3 DEF OracleOpen, Fails
<1>4. CASE OracleFold(o) /\ ~Turn(o, "failed")
  <2> DEFINE op == Operation(o)
             slot == CHOOSE k \in 1..Len(OracleInputs) : OracleInputs[k] = op.shard
             base == HeldData(OracleInputs[slot], oracle[o].held[slot])
             lora == HeldData(NormalPath, oracle[o].held[Len(OracleInputs)])
             read == [base |-> base, lora |-> lora]
             rows == ToSerialized(op, CandidateFold(op, base.body, lora.body))
             staged == Staging(CandidateData(o, rows))
  <2>1. oracle' = [oracle EXCEPT ![o].phase = "staged", ![o].read = read, ![o].staged = staged]
    BY <1>4 DEF OracleFold, Fails
  <2> HIDE DEF read, staged
  <2>2. QED
    BY <1>0, <2>1
<1>5. CASE OracleReload(o) /\ ~Turn(o, "failed")
  <2>1. PICK results : oracle' = [oracle EXCEPT ![o].phase = "folding", ![o].results = results]
    BY <1>5 DEF OracleReload, Fails
  <2>2. QED
    BY <1>0, <2>1
<1>6. CASE OracleReceipt(o) /\ ~Turn(o, "failed")
  BY <1>0, <1>6 DEF OracleReceipt, Fails
<1>7. CASE OracleReread(o) /\ ~Turn(o, "failed")
  BY <1>0, <1>7 DEF OracleReread, Fails
<1>8. CASE OracleReturn(o) /\ ~Turn(o, "failed")
  <2>1. /\ Turn(o, "signed") /\ ~Exists(ReceiptPath)
        /\ file' = [file EXCEPT ![ReceiptPath] = oracle[o].staged]
    BY <1>8 DEF OracleReturn, LinkInto, Fails
  <2>2. QED
    BY <1>8, <1>f, <2>1 DEF Signs
<1>9. CASE OracleConfirmReceipt(o)
  <2>1. /\ Turn(o, "returned") \/ Turn(o, "left")
        /\ oracle[o].phase = "signed" /\ UNCHANGED file
    BY <1>9 DEF OracleConfirmReceipt, Confirm
  <2>2. QED
    BY <1>f, <2>1 DEF Signs
<1>10. QED
  BY <1>a, <1>b, <1>c, <1>1, <1>2, <1>3, <1>4, <1>5, <1>6, <1>7, <1>8, <1>9 DEF OracleStep

(* Whatever a run does, all of them stay right.                            *)
LEMMA RunSteps ==
  ASSUME WorkflowInv, Onward, WatchedOK, RunsOK, NEW o \in Oracles, o \in cast, OracleStep(o), UNCHANGED <<cast, conv>>
  PROVE  RunsOK'
<1>1. DOMAIN oracle' = Oracles /\ \A q \in Oracles \ {o} : oracle'[q] = oracle[q]
  BY OracleMoves
<1>2. OracleOf(o)'
  BY RunBinds, RunLoads, RunChecks, RunExecutes, RunOpens, RunFolds, RunRereads, RunReloads, RunCloses, RunReceipts
     DEF OracleStep
<1>3. ASSUME NEW q \in Oracles \ {o}
      PROVE  OracleOf(q)'
  BY <1>1, RunWaits DEF RunsOK
<1>4. QED
  BY <1>1, <1>2, <1>3 DEF RunsOK

(* A run that signs finds no receipt of another one.                       *)
LEMMA PublishedStays ==
  ASSUME WorkflowInv, OneReceipt, RunsOK, PublishedOK, NEW o \in Oracles, o \in cast, OracleStep(o), cast' = cast
  PROVE  PublishedOK'
<1> DEFINE Returns == /\ OracleReturn(o) /\ ~Exists(ReceiptPath)
                      /\ file' = [file EXCEPT ![ReceiptPath] = oracle[o].staged]
<1>0. /\ DOMAIN file = Paths /\ cast \in Casts
      /\ \A q \in Oracles : oracle[q].phase \in SignedPhases => q \in cast
  BY DEF WorkflowInv, FilesOK, RunsOK, OracleOf, SignedPhases
<1>1. /\ \A q \in Oracles \ {o} : oracle'[q] = oracle[q]
      /\ oracle'[o].phase \in SignedPhases =>
           /\ oracle'[o].staged = oracle[o].staged
           /\ Returns \/ (oracle[o].phase \in SignedPhases /\ UNCHANGED file)
  BY OracleMoves DEF Signs
<1>2. CASE Returns
  <2>1. file'[ReceiptPath] = oracle[o].staged
    BY <1>0, <1>2, InsidePaths
  <2>2. ASSUME NEW q \in Oracles \ {o}, oracle[q].phase \in SignedPhases
        PROVE  FALSE
    <3>1. file[ReceiptPath] = Absent \/ file[ReceiptPath] = oracle[q].staged
      BY <2>2 DEF PublishedOK
    <3>2. oracle[q].staged # Absent /\ file[ReceiptPath] = Absent
      BY <1>2, <2>2 DEF Exists, RunsOK, OracleOf, ReceiptAt
    <3>3. "evidence" \in cast
      BY <2>2, <3>2 DEF PublishedOK
    <3>4. QED
      BY <1>0, <2>2, <3>3 DEF OneReceipt
  <2>3. ASSUME NEW q \in Oracles, oracle'[q].phase \in SignedPhases
        PROVE  file'[ReceiptPath] = oracle'[q].staged
    BY <1>1, <2>1, <2>2, <2>3
  <2>4. QED
    BY <2>3 DEF PublishedOK
<1>3. CASE ~Returns
  <2>1. TempOf[o] \in DOMAIN Inside /\ ReceiptPath \notin Inside[TempOf[o]] /\ ReceiptPath \in DOMAIN file
    BY <1>0, FoldOracleAssumption, InsidePaths DEF Inside
  <2>2. file'[ReceiptPath] = file[ReceiptPath]
    <3>1. UNCHANGED file \/ \E path \in Inside[TempOf[o]] : file' = [file EXCEPT ![path] = oracle[o].staged]
      BY <1>3, OracleWritesOnly DEF OracleWrites
    <3>2. QED
      BY <2>1, <3>1
  <2>3. oracle'[o].phase \in SignedPhases =>
          oracle[o].phase \in SignedPhases /\ oracle'[o].staged = oracle[o].staged
    BY <1>1, <1>3
  <2>4. QED
    BY <1>1, <2>2, <2>3 DEF PublishedOK
<1>4. QED
  BY <1>2, <1>3

(* Nobody but a run touches the receipt, except with its directory.        *)
LEMMA ReceiptKept ==
  ASSUME WorkflowInv, OneReceipt, RunsOK, PublishedOK, [LoraNext]_loraVars,
         ~ \E o \in Oracles \cap cast : OracleStep(o) /\ UNCHANGED <<cast, conv>>
  PROVE  PublishedOK' /\ cast' = cast /\ oracle' = oracle
<1>0. DOMAIN file = Paths /\ cast \in Casts /\ DOMAIN conv = Converters
  BY DEF WorkflowInv, FilesOK, ConvOK
<1>1. cast' = cast /\ oracle' = oracle
  BY DEF LoraNext, loraVars, PlanStep, PlanStart, PlanOpen, PlanHash, PlanBuild, AuditStep, AuditStart, AuditOpen,
         AuditOperation, AuditReturn, Aggregate, EditFile, HostPrecision, ReplaceDirectory
<1>2. CASE file'[ReceiptPath] = file[ReceiptPath]
  BY <1>1, <1>2 DEF PublishedOK
<1>3. ASSUME NEW d \in DOMAIN Inside, ReplaceDirectory(d)
      PROVE  PublishedOK'
  <2>1. file' = [p \in Paths |-> IF p \in Inside[d] THEN Absent ELSE file[p]] /\ d \in cast
    BY <1>3 DEF ReplaceDirectory
  <2>2. CASE d = "evidence"
    <3>1. file'[ReceiptPath] = Absent
      BY <2>1, <2>2, InsidePaths
    <3>2. QED
      BY <1>1, <2>1, <2>2, <3>1 DEF PublishedOK
  <2>3. CASE d # "evidence"
    <3>1. file'[ReceiptPath] = file[ReceiptPath]
      BY <2>1, <2>3, InsidePaths
    <3>2. QED
      BY <1>2, <3>1
  <2>4. QED
    BY <2>2, <2>3
<1>4. ASSUME NEW p \in Paths, EditFile(p)
      PROVE  PublishedOK'
  <2>1. p # ReceiptPath
    BY <1>0, <1>4 DEF EditFile, OneReceipt
  <2>2. file'[ReceiptPath] = file[ReceiptPath]
    BY <1>0, <1>4, <2>1, InsidePaths DEF EditFile
  <2>3. QED
    BY <1>2, <2>2
<1>5. ASSUME NEW n \in Converters, ConvStep(n)
      PROVE  PublishedOK'
  <2>1. ReceiptPath # NormalPath /\ ReceiptPath \in Paths
    BY InsidePaths, InputPaths
  <2>2. file'[ReceiptPath] = file[ReceiptPath]
    BY <1>0, <1>5, <2>1 DEF ConvStep, Begin, OpenAdapter, Snapshot, ReadHeader, CopyPart, VerifySource, Publish
  <2>3. QED
    BY <1>2, <2>2
<1>6. ASSUME NEW s \in Sessions, FoldStep(s)
      PROVE  PublishedOK'
  BY <1>2, <1>6 DEF FoldStep, FoldOpen, FoldBind, FoldCall, FoldRows, FoldBadBase, FoldReport, FoldClose
<1>7. ASSUME \/ \E p \in Planners : PlanStep(p)
             \/ \E w \in Workers : AuditStep(w)
             \/ \E a \in Aggregators : Aggregate(a)
             \/ HostPrecision \/ UNCHANGED loraVars
      PROVE  PublishedOK'
  <2>1. ASSUME NEW p \in Planners, PlanStep(p)
        PROVE  UNCHANGED file
    BY <2>1 DEF PlanStep, PlanStart, PlanOpen, PlanHash, PlanBuild
  <2>2. ASSUME NEW w \in Workers, AuditStep(w)
        PROVE  UNCHANGED file
    BY <2>2 DEF AuditStep, AuditStart, AuditOpen, AuditOperation, AuditReturn
  <2>3. UNCHANGED file
    BY <1>7, <2>1, <2>2 DEF HostPrecision, loraVars, Aggregate
  <2>4. QED
    BY <1>2, <2>3
<1>8. PublishedOK'
  BY <1>3, <1>4, <1>5, <1>6, <1>7 DEF LoraNext
<1>9. QED
  BY <1>1, <1>8

(* Every step of the workflow keeps the invariant.                         *)
LEMMA OracleHolds ==
  ASSUME OneReceipt, WorkflowInv, OracleInv, [LoraNext]_loraVars
  PROVE  OracleInv'
<1>1. Onward /\ WatchedOK'
  BY NextMovesFiles, MoveWatched DEF OracleInv
<1>2. CASE \E o \in Oracles \cap cast : OracleStep(o) /\ UNCHANGED <<cast, conv>>
  BY <1>1, <1>2, RunSteps, PublishedStays DEF OracleInv
<1>3. CASE ~ \E o \in Oracles \cap cast : OracleStep(o) /\ UNCHANGED <<cast, conv>>
  <2>1. PublishedOK' /\ cast' = cast /\ oracle' = oracle
    BY <1>3, ReceiptKept DEF OracleInv
  <2>2. RunsOK'
    BY <1>1, <2>1, RunWaits DEF RunsOK, OracleInv
  <2>3. QED
    BY <1>1, <2>1, <2>2 DEF OracleInv
<1>4. QED
  BY <1>2, <1>3

(* It holds at first.                                                      *)
LEMMA OracleStarts == LoraInit => OracleInv
<1> SUFFICES ASSUME LoraInit PROVE OracleInv
  OBVIOUS
<1>1. WatchedOK
  BY WatchedInit
<1>2. /\ DOMAIN oracle = Oracles
      /\ \A o \in Oracles : /\ DOMAIN oracle[o] = OracleFields /\ oracle[o].phase = "idle"
                            /\ oracle[o].held = <<>> /\ oracle[o].results = <<>>
  BY DEF LoraInit, OracleInit, OracleFields
<1>3. ASSUME NEW o \in Oracles
      PROVE  OracleOf(o)
  <2> DEFINE x == oracle[o]
  <2>1. /\ DOMAIN x = OracleFields /\ x.phase = "idle" /\ x.held = <<>> /\ x.results = <<>>
    BY <1>2
  <2> HIDE DEF x
  <2>2. \A S : <<>> \in Seq(S)
    OBVIOUS
  <2>3. x.held \in Seq(Range(x.held)) /\ x.results \in Seq(Range(x.results))
    BY <2>1, <2>2, Zenon
  <2>4. Len(x.held) = 0 /\ Len(x.results) = 0
    BY <2>1
  <2>5. InputsAt(x, clock, conv) /\ PlanAt(x) /\ ResultsAt(x, file) /\ ReceiptAt(o, x)
    BY <2>1, <2>3, <2>4 DEF InputsAt, PlanAt, ResultsAt, ReceiptAt, LoadedPhases, PlannedPhases, OpenPhases,
                            FoldingPhases, ClosedPhases, SignedPhases, WrittenPhases
  <2>6. QED
    BY <2>1, <2>5 DEF OracleOf, x
<1>4. RunsOK /\ PublishedOK
  BY <1>2, <1>3 DEF RunsOK, PublishedOK, SignedPhases
<1>5. QED
  BY <1>1, <1>4 DEF OracleInv

(* It says that a receipt compares its plan.                               *)
LEMMA ReceiptCompares == OracleInv => ReceiptComparesThePlan
<1> SUFFICES ASSUME OracleInv, NEW o \in Oracles, oracle[o].phase \in SignedPhases
             PROVE  LET plan == oracle[o].plan
                        results == oracle[o].results
                        base(k) == plan.shards[CHOOSE s \in 1..Len(plan.shards) :
                                     OracleInputs[s] = plan.operations[MicroTargets[k].index].shard]
                    IN /\ oracle[o].executor = Reference
                       /\ Len(results) = Len(MicroTargets)
                       /\ \A k \in 1..Len(results) : results[k].read = [base |-> base(k), lora |-> plan.lora]
                       /\ Decision(results) = "INCOMPLETE"
                            <=> \A k \in 1..Len(results) : <<base(k).body, plan.lora.body>> \in Parity
                       /\ Exists(ReceiptPath) =>
                            /\ file[ReceiptPath].data.head.id = o
                            /\ file[ReceiptPath].data.body = Decision(results)
  BY DEF ReceiptComparesThePlan, SignedPhases
<1> DEFINE x == oracle[o]
           base(k) == x.plan.shards[CHOOSE s \in 1..Len(x.plan.shards) :
                                      OracleInputs[s] = x.plan.operations[MicroTargets[k].index].shard]
<1>1. /\ InputsAt(x, clock, conv) /\ PlanAt(x) /\ ResultsAt(x, file) /\ ReceiptAt(o, x)
      /\ x.phase \in SignedPhases
      /\ file[ReceiptPath] = x.staged \/ file[ReceiptPath] = Absent
  BY DEF OracleInv, RunsOK, OracleOf, PublishedOK
<1> HIDE DEF x
<1>2. /\ x.phase \in PlannedPhases /\ x.phase \in OpenPhases /\ x.phase \in FoldingPhases
      /\ x.phase \in ClosedPhases
  BY <1>1 DEF PlannedPhases, OpenPhases, FoldingPhases, ClosedPhases, SignedPhases, WrittenPhases
<1>3. /\ x.executor = Reference /\ Len(x.results) = Len(MicroTargets) /\ Len(x.held) = Len(OracleInputs)
      /\ \A k \in 1..Len(x.held) : x.held[k].data = Named(x.plan, k)
  BY <1>1, <1>2 DEF PlanAt, ResultsAt, InputsAt
<1>4. ASSUME NEW k \in 1..Len(x.results)
      PROVE  /\ x.results[k].read = [base |-> base(k), lora |-> x.plan.lora]
             /\ x.results[k].equal \in BOOLEAN
             /\ x.results[k].equal <=> <<base(k).body, x.plan.lora.body>> \in Parity
  <2>1. Compared(x, k, file) /\ ReadAsNamed(x, k) /\ x.results[k].equal = x.results[k].same
    BY <1>1, <1>2 DEF ResultsAt, ReceiptAt
  <2>2. LET s == SlotAt(x, k)
        IN /\ s \in 1..Len(OracleInputs) /\ Len(OracleInputs) \in 1..Len(OracleInputs)
           /\ s = CHOOSE j \in 1..Len(x.plan.shards) : OracleInputs[j] = OpAt(x, k).shard
           /\ Named(x.plan, s) = x.plan.shards[s]
           /\ Named(x.plan, Len(OracleInputs)) = x.plan.lora
    BY <1>1, <1>2, <1>3, OracleSlots
  <2>3. base(k) = x.plan.shards[SlotAt(x, k)]
    BY <2>2 DEF OpAt
  <2> HIDE DEF base
  <2>4. BaseHeld(x, k).data = base(k) /\ LoraHeld(x).data = x.plan.lora
    BY <1>3, <2>2, <2>3 DEF BaseHeld, LoraHeld
  <2>5. x.results[k].read.base = base(k) /\ x.results[k].read.lora = x.plan.lora
    BY <2>1, <2>4 DEF ReadAsNamed
  <2>6. x.results[k].read = [base |-> base(k), lora |-> x.plan.lora]
    BY <2>1, <2>5 DEF Compared, ReadWhenKept
  <2>7. QED
    BY <2>1, <2>5, <2>6 DEF Compared
<1> HIDE DEF base
<1>5. Decision(x.results) = "INCOMPLETE" <=> \A k \in 1..Len(x.results) : x.results[k].equal
  BY DEF Decision
<1>6. Decision(x.results) = "INCOMPLETE"
        <=> \A k \in 1..Len(x.results) : <<base(k).body, x.plan.lora.body>> \in Parity
  BY <1>4, <1>5
<1>7. Exists(ReceiptPath) => /\ file[ReceiptPath].data.head.id = o
                             /\ file[ReceiptPath].data.body = Decision(x.results)
  BY <1>1 DEF Exists, ReceiptAt
<1>8. QED
  BY <1>3, <1>4, <1>6, <1>7 DEF x, base

(* A receipt in the evidence directory is the verdict of the run that      *)
(* wrote it, on exactly the bytes its plan names and the pinned reference: *)
(* every target compared once, and a mismatch reported iff the folds round *)
(* differently somewhere, also when the run fails after it linked the      *)
(* receipt; for any plan, targets and layout, any runs and edits between   *)
(* two steps, while nobody but a run writes a receipt and a directory      *)
(* others replace has one run                                              *)
(* (run_local_comfy_reference_fold_oracle, comfy_oracle.py 1624-1828).     *)
THEOREM ReceiptIsTheVerdict ==
  ASSUME OneReceipt
  PROVE  LoraSpec => []ReceiptComparesThePlan
<1>1. LoraInit => OracleInv
  BY OracleStarts
<1>2. WorkflowInv /\ OracleInv /\ [LoraNext]_loraVars => OracleInv'
  BY OracleHolds
<1>3. OracleInv => ReceiptComparesThePlan
  BY ReceiptCompares
<1>4. QED
  BY <1>1, <1>2, <1>3, WorkflowHolds, PTL DEF LoraSpec
=============================================================================
