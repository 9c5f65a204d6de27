------------------------- MODULE NativeExport_proofs -------------------------
(***************************************************************************)
(* Proofs about NativeExport, for any number of runs, sources, artifacts,  *)
(* source writes and foreign changes.                                      *)
(***************************************************************************)
EXTENDS NativeExport, TLAPS

-----------------------------------------------------------------------------
(* Function updates that keep a type.                                      *)

LEMMA SetUpdate ==
  ASSUME NEW S, NEW T, NEW f \in [S -> SUBSET T], NEW x \in S, NEW y \in T
  PROVE  /\ [f EXCEPT ![x] = @ \cup {y}] \in [S -> SUBSET T]
         /\ [f EXCEPT ![x] = @ \ {y}] \in [S -> SUBSET T]
<1>1. f[x] \cup {y} \in SUBSET T /\ f[x] \ {y} \in SUBSET T
  OBVIOUS
<1>2. QED
  BY <1>1

LEMMA EntryUpdate ==
  ASSUME NEW S, NEW T, NEW V, NEW f \in [S -> [T -> V]], NEW x \in S, NEW y \in T, NEW v \in V
  PROVE  [f EXCEPT ![x][y] = v] \in [S -> [T -> V]]
<1>1. [f[x] EXCEPT ![y] = v] \in [T -> V]
  OBVIOUS
<1>2. QED
  BY <1>1

LEMMA CellUpdate ==
  ASSUME NEW S, NEW T, NEW U, NEW V, NEW f \in [S -> [T -> [U -> V]]],
         NEW x \in S, NEW y \in T, NEW z \in U, NEW v \in V
  PROVE  [f EXCEPT ![x][y][z] = v] \in [S -> [T -> [U -> V]]]
<1>1. [f[x] EXCEPT ![y][z] = v] \in [T -> [U -> V]]
  BY EntryUpdate
<1>2. QED
  BY <1>1

-----------------------------------------------------------------------------
(* The inductive invariant.  Its core: as long as the inode a run holds    *)
(* still carries the stamp recorded when it was opened, the inode still    *)
(* carries the bytes recorded then, and so does everything read from it;   *)
(* a stamp that was left behind never comes back.                          *)

Reading == {"write", "claim", "pin", "link", "hash", "inputs"}

HeldOK ==
  \A r \in Runs : pc[r] \in Reading =>
    \A s \in Sources : held[r][s] \in Pin /\ held[r][s].data = Good

TargetOK == \A r \in Runs : pc[r] = "unlink" => target[r] \in Artifacts

StampsOK ==
  /\ \A s \in Sources : cur[s] <= writes
  /\ \A s \in Sources, i \in Inodes : disk[s][i].stamp <= writes
  /\ \A r \in Runs, s \in Sources : held[r][s] \in Pin =>
       held[r][s].ino <= writes /\ held[r][s].stamp <= writes

SameStamp(r, s) == held[r][s] \in Pin /\ disk[s][held[r][s].ino].stamp = held[r][s].stamp

StampPinsBytes ==
  \A r \in Runs, s \in Sources :
    SameStamp(r, s) => disk[s][held[r][s].ino].data = held[r][s].data

ReadOK ==
  \A r \in Runs, s \in Sources, a \in Artifacts : read[r][a][s] # NoData =>
    /\ held[r][s] \in Pin
    /\ held[r][s].data = Good
    /\ SameStamp(r, s) => read[r][a][s] = Good

StagedOK ==
  \A r \in Runs, a \in Artifacts :
    (pc[r] = "write" /\ a \in done[r]) \/ pc[r] \in Reading \ {"write"} => Staged(r, a)

DoneOK == \A r \in Runs : pc[r] \in {"idle", "open"} => done[r] = {}

CheckedOK ==
  \A r \in Runs, s \in Sources : s \in checked[r] =>
    \A a \in Artifacts : read[r][a][s] = Good

CommitOK ==
  \A r \in Runs :
    pc[r] \in {"commit", "fill", "readback"} \/ manifest[r] # "none" => checked[r] = Sources

TypeInv == TypeOK /\ HeldOK /\ TargetOK

IInv == TypeInv /\ StampsOK /\ StampPinsBytes /\ ReadOK /\ DoneOK /\ StagedOK /\ CheckedOK /\ CommitOK

-----------------------------------------------------------------------------
(* Which step of a run changes what.                                       *)

LEMMA RunFrame ==
  ASSUME NEW r \in Runs, RunStep(r)
  PROVE  /\ UNCHANGED sourceVars
         /\ (\E s \in Sources : OpenSource(r, s)) \/ UNCHANGED held
         /\ (\E a \in Artifacts, s \in Sources : WriteChunk(r, a, s)) \/ UNCHANGED read
         /\ (\E s \in Sources : VerifySource(r, s)) \/ UNCHANGED checked
         /\ CreateManifest(r) \/ FillManifest(r) \/ UNCHANGED manifest
         /\ (\E a \in Artifacts : CleanCheck(r, a)) \/ UNCHANGED target
         /\ (\E a \in Artifacts : HashPublished(r, a)) \/ UNCHANGED <<published, touched>>
BY DEF RunStep, sourceVars, fsVars, runVars, Prepare, Validate, EnterPublish, Claim,
       PinOutput, CheckLinked, BeginInputCheck, Recheck, CreateManifest, FillManifest,
       ReadBack, CleanDir, CleanUnlink, CleanEmpty, CleanRmdir, Stop, Interrupt,
       OpenSource, VerifySource, VerifyStaged, Link, HashPublished, CleanCheck, WriteChunk

LEMMA LabelFrame ==
  ASSUME pc \in [Runs -> Labels], NEW r \in Runs, RunStep(r)
  PROVE  /\ pc' \in [Runs -> Labels]
         /\ \A q \in Runs \ {r} : pc'[q] = pc[q]
         /\ pc'[r] \in Reading => pc[r] \in Reading \/ Validate(r)
         /\ pc'[r] \in Reading \ {"write"} => pc[r] \in Reading \ {"write"} \/ EnterPublish(r)
         /\ pc'[r] = "write" => pc[r] = "write" \/ Validate(r)
         /\ pc'[r] \in {"idle", "open"} => pc[r] \in {"idle", "open"} /\ UNCHANGED done
         /\ pc'[r] = "unlink" => \E a \in Artifacts : CleanCheck(r, a)
         /\ pc'[r] = "commit" => Recheck(r)
         /\ pc'[r] = "fill" => CreateManifest(r)
         /\ pc'[r] = "readback" => FillManifest(r)
BY ZenonT(40) DEF RunStep, Goto, Reading, Labels, Terminal, sourceVars, fsVars, runVars, Prepare, Validate, EnterPublish, Claim,
       PinOutput, CheckLinked, BeginInputCheck, Recheck, CreateManifest, FillManifest,
       ReadBack, CleanDir, CleanUnlink, CleanEmpty, CleanRmdir, Stop, Interrupt,
       OpenSource, VerifySource, VerifyStaged, Link, HashPublished, CleanCheck, WriteChunk

-----------------------------------------------------------------------------
(* Type correctness.                                                       *)

LEMMA InitTypeOK == Init => TypeOK
BY NativeExportAssumption
DEF Init, TypeOK, SourcesTypeOK, RunsTypeOK, OutputTypeOK, Labels, Terminal, Inodes,
    FileVersion, NoEntries, DirIds, Names, Files

(* A run never touches the source files.                                   *)
LEMMA RunSourcesType ==
  ASSUME TypeInv, NEW r \in Runs, RunStep(r)
  PROVE  SourcesTypeOK'
BY RunFrame DEF TypeInv, TypeOK, SourcesTypeOK, sourceVars

LEMMA RunRunsType ==
  ASSUME TypeInv, NEW r \in Runs, RunStep(r)
  PROVE  RunsTypeOK'
<1>1. RunsTypeOK /\ pc' \in [Runs -> Labels]
  BY LabelFrame DEF TypeInv, TypeOK, RunsTypeOK
<1>2. held' \in [Runs -> [Sources -> Pin \cup {NoPin}]]
  <2>1. ASSUME NEW s \in Sources, OpenSource(r, s)
        PROVE  held' \in [Runs -> [Sources -> Pin \cup {NoPin}]]
    <3>1. cur[s] \in Inodes /\ disk[s][cur[s]] \in FileVersion
      BY DEF TypeInv, TypeOK, SourcesTypeOK
    <3>2. [ino |-> cur[s], stamp |-> disk[s][cur[s]].stamp, data |-> disk[s][cur[s]].data] \in Pin
      BY <3>1 DEF Pin, FileVersion
    <3>3. QED
      BY <1>1, <2>1, <3>2, EntryUpdate DEF OpenSource, RunsTypeOK
  <2>2. QED
    BY <1>1, <2>1, RunFrame DEF RunsTypeOK
<1>3. read' \in [Runs -> [Artifacts -> [Sources -> Contents \cup {NoData}]]]
  <2>1. ASSUME NEW a \in Artifacts, NEW s \in Sources, WriteChunk(r, a, s)
        PROVE  read' \in [Runs -> [Artifacts -> [Sources -> Contents \cup {NoData}]]]
    <3>1. held[r][s] \in Pin
      BY <2>1 DEF TypeInv, HeldOK, Reading, WriteChunk
    <3>2. disk[s][held[r][s].ino].data \in Contents
      BY <3>1 DEF TypeInv, TypeOK, SourcesTypeOK, Pin, FileVersion
    <3>3. QED
      BY <1>1, <2>1, <3>2, CellUpdate DEF WriteChunk, RunsTypeOK
  <2>2. QED
    BY <1>1, <2>1, RunFrame DEF RunsTypeOK
<1>4. done' \in [Runs -> SUBSET Artifacts]
  <2>1. target[r] \in Artifacts \/ ~CleanUnlink(r)
    BY DEF TypeInv, TargetOK, CleanUnlink
  <2>2. \/ UNCHANGED done
        \/ done' = [done EXCEPT ![r] = {}]
        \/ \E a \in Artifacts : Handled(r, a)
    BY <2>1 DEF RunStep, sourceVars, fsVars, runVars, Prepare, Validate, EnterPublish, Claim,
       PinOutput, CheckLinked, BeginInputCheck, Recheck, CreateManifest, FillManifest,
       ReadBack, CleanDir, CleanUnlink, CleanEmpty, CleanRmdir, Stop, Interrupt,
       OpenSource, VerifySource, VerifyStaged, Link, HashPublished, CleanCheck, WriteChunk
  <2>3. ASSUME NEW a \in Artifacts, Handled(r, a)
        PROVE  done' \in [Runs -> SUBSET Artifacts]
    BY <1>1, <2>3, SetUpdate DEF Handled, RunsTypeOK
  <2>4. QED
    BY <1>1, <2>2, <2>3 DEF RunsTypeOK
<1>5. checked' \in [Runs -> SUBSET Sources]
  <2>1. ASSUME NEW s \in Sources, VerifySource(r, s)
        PROVE  checked' \in [Runs -> SUBSET Sources]
    <3>1. UNCHANGED checked \/ checked' = [checked EXCEPT ![r] = @ \cup {s}]
      BY <2>1 DEF VerifySource
    <3>2. checked \in [Runs -> SUBSET Sources]
      BY <1>1 DEF RunsTypeOK
    <3>3. QED
      BY <3>1, <3>2, SetUpdate
  <2>2. QED
    BY <1>1, <2>1, RunFrame DEF RunsTypeOK
<1>6. home' \in [Runs -> Parents] /\ outId' \in [Runs -> DirIds \cup {NoDir}]
  <2>1. parent \in Parents /\ out[parent] \in DirIds \cup {NoDir}
    BY DEF TypeInv, TypeOK, OutputTypeOK
  <2>2. /\ UNCHANGED home \/ home' = [home EXCEPT ![r] = parent]
        /\ UNCHANGED outId \/ outId' = [outId EXCEPT ![r] = out[parent]]
    BY DEF RunStep, Cur, sourceVars, fsVars, runVars, Prepare, Validate, EnterPublish, Claim,
       PinOutput, CheckLinked, BeginInputCheck, Recheck, CreateManifest, FillManifest,
       ReadBack, CleanDir, CleanUnlink, CleanEmpty, CleanRmdir, Stop, Interrupt,
       OpenSource, VerifySource, VerifyStaged, Link, HashPublished, CleanCheck, WriteChunk
  <2>3. home \in [Runs -> Parents] /\ outId \in [Runs -> DirIds \cup {NoDir}]
    BY <1>1 DEF RunsTypeOK
  <2>4. home' \in [Runs -> Parents]
    <3>1. [home EXCEPT ![r] = parent] \in [Runs -> Parents]
      BY <2>1, <2>3
    <3>2. QED
      BY <2>2, <2>3, <3>1
  <2>5. outId' \in [Runs -> DirIds \cup {NoDir}]
    <3>1. [outId EXCEPT ![r] = out[parent]] \in [Runs -> DirIds \cup {NoDir}]
      BY <2>1, <2>3
    <3>2. QED
      BY <2>2, <2>3, <3>1
  <2>6. QED
    BY <2>4, <2>5
<1>7. target' \in [Runs -> Artifacts \cup {NoFile}]
  BY ZenonT(40), <1>1, RunFrame DEF RunsTypeOK, CleanCheck
<1>8. manifest' \in [Runs -> {"none", "partial", "full"}]
  BY <1>1, RunFrame DEF RunsTypeOK, CreateManifest, FillManifest
<1>9. published' \in [Runs -> [Artifacts -> Runs \cup Copies \cup {NoFile}]]
  <2>1. ASSUME NEW a \in Artifacts, HashPublished(r, a), ~UNCHANGED published
        PROVE  published' \in [Runs -> [Artifacts -> Runs \cup Copies \cup {NoFile}]]
    <3>1. At(a) \in Runs \cup Copies \cup {NoFile} /\ published' = [published EXCEPT ![r][a] = At(a)]
      BY <2>1 DEF HashPublished, SameBytes
    <3>2. QED
      BY <1>1, <3>1, EntryUpdate DEF RunsTypeOK
  <2>2. QED
    BY <1>1, <2>1, RunFrame DEF RunsTypeOK
<1>10. QED
  BY <1>1, <1>2, <1>3, <1>4, <1>5, <1>6, <1>7, <1>8, <1>9 DEF RunsTypeOK

LEMMA RunOutputType ==
  ASSUME TypeInv, NEW r \in Runs, RunStep(r)
  PROVE  OutputTypeOK'
<1>1. OutputTypeOK /\ RunsTypeOK
  BY DEF TypeInv, TypeOK
<1>2. target[r] \in Artifacts \/ ~CleanUnlink(r)
  BY DEF TypeInv, TargetOK, CleanUnlink
<1>3. /\ UNCHANGED <<parent, tampered, foreign, moved>>
      /\ UNCHANGED out \/ out' = [out EXCEPT ![parent] = r] \/ out' = [out EXCEPT ![parent] = NoDir]
      /\ \/ UNCHANGED dirs
         \/ \E n \in Names, f \in {r, NoFile} : Cur # NoDir /\ dirs' = [dirs EXCEPT ![Cur][n] = f]
      /\ UNCHANGED touched \/ \E a \in Artifacts : touched' = [touched EXCEPT ![r] = @ \ {a}]
  BY <1>2 DEF RunStep, At, Names, sourceVars, fsVars, runVars, Prepare, Validate, EnterPublish, Claim,
       PinOutput, CheckLinked, BeginInputCheck, Recheck, CreateManifest, FillManifest,
       ReadBack, CleanDir, CleanUnlink, CleanEmpty, CleanRmdir, Stop, Interrupt,
       OpenSource, VerifySource, VerifyStaged, Link, HashPublished, CleanCheck, WriteChunk
<1>4. out' \in [Parents -> DirIds \cup {NoDir}]
  BY <1>1, <1>3 DEF OutputTypeOK, DirIds
<1>5. dirs' \in [DirIds -> [Names -> Files \cup {NoFile}]]
  <2>1. ASSUME NEW n \in Names, NEW f \in {r, NoFile}, Cur # NoDir, dirs' = [dirs EXCEPT ![Cur][n] = f]
        PROVE  dirs' \in [DirIds -> [Names -> Files \cup {NoFile}]]
    <3>1. Cur \in DirIds /\ f \in Files \cup {NoFile}
      BY <1>1, <2>1 DEF OutputTypeOK, Cur, DirIds, Files
    <3>2. QED
      BY <1>1, <2>1, <3>1, EntryUpdate DEF OutputTypeOK
  <2>2. QED
    BY <1>1, <1>3, <2>1 DEF OutputTypeOK
<1>6. touched' \in [Runs -> SUBSET Artifacts]
  BY SMTT(30), <1>1, <1>3, SetUpdate DEF OutputTypeOK
<1>7. QED
  BY <1>1, <1>3, <1>4, <1>5, <1>6 DEF OutputTypeOK

LEMMA SourceStepType ==
  ASSUME TypeInv, SourceStep
  PROVE  SourcesTypeOK' /\ UNCHANGED <<fsVars, runVars, pc>>
<1>1. SourcesTypeOK
  BY DEF TypeInv, TypeOK
<1>2. writes < MaxWrites => writes + 1 \in Inodes
  BY <1>1, NativeExportAssumption DEF SourcesTypeOK, Inodes
<1>3. ASSUME NEW s \in Sources, NEW c \in Contents, WriteSource(s, c)
      PROVE  SourcesTypeOK' /\ UNCHANGED <<fsVars, runVars, pc>>
  <2>1. cur[s] \in Inodes /\ [data |-> c, stamp |-> writes + 1] \in FileVersion
    BY <1>1, <1>2, <1>3 DEF WriteSource, SourcesTypeOK, FileVersion
  <2>2. disk' \in [Sources -> [Inodes -> FileVersion]]
    BY <1>1, <1>3, <2>1, EntryUpdate DEF WriteSource, SourcesTypeOK
  <2>3. QED
    BY <1>1, <1>2, <1>3, <2>2 DEF WriteSource, SourcesTypeOK
<1>4. ASSUME NEW s \in Sources, NEW c \in Contents, ReplaceSource(s, c)
      PROVE  SourcesTypeOK' /\ UNCHANGED <<fsVars, runVars, pc>>
  <2>1. writes + 1 \in Inodes /\ [data |-> c, stamp |-> writes + 1] \in FileVersion
    BY <1>2, <1>4 DEF ReplaceSource, FileVersion
  <2>2. disk' \in [Sources -> [Inodes -> FileVersion]]
    BY <1>1, <1>4, <2>1, EntryUpdate DEF ReplaceSource, SourcesTypeOK
  <2>3. QED
    BY <1>1, <1>2, <1>4, <2>2 DEF ReplaceSource, SourcesTypeOK
<1>5. QED
  BY <1>3, <1>4 DEF SourceStep

LEMMA ForeignStepType ==
  ASSUME TypeInv, ForeignStep
  PROVE  OutputTypeOK' /\ UNCHANGED <<sourceVars, runVars, pc>>
<1>1. OutputTypeOK /\ pc \in [Runs -> Labels]
  BY DEF TypeInv, TypeOK, RunsTypeOK
<1>2. ASSUME Disturb
      PROVE  /\ UNCHANGED <<sourceVars, runVars, pc>>
             /\ foreign' \in 0..MaxForeign
             /\ moved' \in [Runs -> SUBSET {"commit", "pin", "entry", "hash", "unlink", "clean"}]
  <2>1. \A r \in Runs : Window(r) \subseteq {"commit", "pin", "entry", "hash", "unlink", "clean"}
    BY DEF Window
  <2>2. moved' \in [Runs -> SUBSET {"commit", "pin", "entry", "hash", "unlink", "clean"}]
    BY <1>1, <1>2, <2>1 DEF Disturb, OutputTypeOK
  <2>3. QED
    BY <1>1, <1>2, <2>2, NativeExportAssumption DEF Disturb, OutputTypeOK
<1>3. ASSUME NEW d \in {NoDir, Foreign}, NEW S \in SUBSET Artifacts, ForeignDirectory(d, S)
      PROVE  OutputTypeOK' /\ UNCHANGED <<sourceVars, runVars, pc>>
  <2>1. d \in DirIds \cup {NoDir}
    BY DEF DirIds
  <2>2. [n \in Names |-> IF n \in S THEN Foreign ELSE NoFile] \in [Names -> Files \cup {NoFile}]
    BY DEF Files
  <2>3. dirs' \in [DirIds -> [Names -> Files \cup {NoFile}]]
    BY <1>1, <1>3, <2>2 DEF ForeignDirectory, OutputTypeOK
  <2>4. QED
    BY <1>1, <1>2, <1>3, <2>1, <2>3 DEF ForeignDirectory, OutputTypeOK
<1>4. ASSUME NEW n \in Names, NEW f \in Files \cup {NoFile}, ForeignEntry(n, f)
      PROVE  OutputTypeOK' /\ UNCHANGED <<sourceVars, runVars, pc>>
  <2>1. Cur \in DirIds
    BY <1>1, <1>4 DEF ForeignEntry, OutputTypeOK, Cur
  <2>2. dirs' \in [DirIds -> [Names -> Files \cup {NoFile}]]
    BY <1>1, <1>4, <2>1, EntryUpdate DEF ForeignEntry, OutputTypeOK
  <2>3. QED
    BY <1>1, <1>2, <1>4, <2>2 DEF ForeignEntry, OutputTypeOK
<1>5. ASSUME NEW p \in Parents, ForeignParent(p)
      PROVE  OutputTypeOK' /\ UNCHANGED <<sourceVars, runVars, pc>>
  BY <1>1, <1>2, <1>5 DEF ForeignParent, OutputTypeOK
<1>6. ASSUME NEW f \in Runs \cup Copies, NEW a \in Artifacts, ForeignBytes(f, a)
      PROVE  OutputTypeOK' /\ UNCHANGED <<sourceVars, runVars, pc>>
  <2>1. tampered \in [Files -> SUBSET Artifacts] /\ touched \in [Runs -> SUBSET Artifacts] /\ f \in Files
    BY <1>1 DEF OutputTypeOK, Files
  <2>2. /\ [tampered EXCEPT ![f] = @ \cup {a}] \in [Files -> SUBSET Artifacts]
        /\ [tampered EXCEPT ![f] = @ \ {a}] \in [Files -> SUBSET Artifacts]
    BY <2>1, SetUpdate
  <2>3. tampered' \in [Files -> SUBSET Artifacts]
    BY <1>6, <2>2 DEF ForeignBytes
  <2>4. touched' \in [Runs -> SUBSET Artifacts]
    BY <1>6, <2>1 DEF ForeignBytes
  <2>5. QED
    BY <1>1, <1>2, <1>6, <2>3, <2>4 DEF ForeignBytes, OutputTypeOK
<1>7. ASSUME NEW a \in Artifacts, ForeignEntry(a, foreign + 1)
      PROVE  OutputTypeOK' /\ UNCHANGED <<sourceVars, runVars, pc>>
  <2>1. foreign + 1 \in Files /\ a \in Names
    BY <1>1, <1>7, NativeExportAssumption
    DEF ForeignEntry, Disturb, OutputTypeOK, Files, Copies, Names
  <2>2. QED
    BY <1>4, <1>7, <2>1
<1>8. Foreign \in Files
  BY DEF Files
<1>9. QED
  BY <1>3, <1>4, <1>5, <1>6, <1>7, <1>8 DEF ForeignStep

(* What Validate lets through stays held until the run ends.               *)
LEMMA RunHeld ==
  ASSUME TypeInv, NEW r \in Runs, RunStep(r)
  PROVE  HeldOK' /\ TargetOK'
<1>1. pc \in [Runs -> Labels] /\ held \in [Runs -> [Sources -> Pin \cup {NoPin}]]
      /\ target \in [Runs -> Artifacts \cup {NoFile}]
  BY DEF TypeInv, TypeOK, RunsTypeOK
<1>2. ASSUME NEW q \in Runs, pc'[q] \in Reading, NEW s \in Sources
      PROVE  held'[q][s] \in Pin /\ held'[q][s].data = Good
  <2>1. CASE pc[q] \in Reading
    <3>1. held[q][s] \in Pin /\ held[q][s].data = Good
      BY <2>1 DEF TypeInv, HeldOK
    <3>2. held'[q] = held[q]
      BY <1>1, <2>1, RunFrame DEF OpenSource, Reading
    <3>3. QED
      BY <3>1, <3>2
  <2>2. CASE pc[q] \notin Reading
    <3>1. q = r /\ Validate(r)
      BY <1>1, <1>2, <2>2, LabelFrame
    <3>2. held[r][s] # NoPin /\ held[r][s].data = Good /\ held' = held
      BY <1>1, <1>2, <3>1 DEF Validate, Goto, Reading, runVars
    <3>3. QED
      BY <1>1, <3>1, <3>2
  <2>3. QED
    BY <2>1, <2>2
<1>3. ASSUME NEW q \in Runs, pc'[q] = "unlink"
      PROVE  target'[q] \in Artifacts
  <2>1. CASE q = r
    <3>1. PICK a \in Artifacts : CleanCheck(r, a)
      BY <1>1, <1>3, <2>1, LabelFrame
    <3>2. QED
      BY <1>1, <1>3, <2>1, <3>1 DEF CleanCheck, Handled
  <2>2. CASE q # r
    <3>1. pc[q] = "unlink"
      BY <1>1, <1>3, <2>2, LabelFrame
    <3>2. target'[q] = target[q]
      BY <1>1, <2>2, RunFrame DEF CleanCheck
    <3>3. QED
      BY <3>1, <3>2 DEF TypeInv, TargetOK
  <2>3. QED
    BY <2>1, <2>2
<1>4. QED
  BY <1>2, <1>3 DEF HeldOK, TargetOK

LEMMA TypeInvStep == TypeInv /\ [Next]_vars => TypeInv'
<1> SUFFICES ASSUME TypeInv, [Next]_vars
             PROVE  TypeInv'
  OBVIOUS
<1>1. ASSUME NEW r \in Runs, RunStep(r)
      PROVE  TypeInv'
  BY <1>1, RunSourcesType, RunRunsType, RunOutputType, RunHeld DEF TypeInv, TypeOK
<1>2. CASE SourceStep
  BY <1>2, SourceStepType
  DEF TypeInv, TypeOK, HeldOK, TargetOK, RunsTypeOK, OutputTypeOK, fsVars, runVars
<1>3. CASE ForeignStep
  BY <1>3, ForeignStepType
  DEF TypeInv, TypeOK, HeldOK, TargetOK, RunsTypeOK, SourcesTypeOK, sourceVars, runVars
<1>4. CASE UNCHANGED vars
  BY <1>4 DEF TypeInv, TypeOK, HeldOK, TargetOK, RunsTypeOK, SourcesTypeOK, OutputTypeOK,
              vars, sourceVars, fsVars, runVars
<1>5. QED
  BY <1>1, <1>2, <1>3, <1>4 DEF Next

LEMMA InitTypeInv == Init => TypeInv
BY InitTypeOK DEF Init, TypeInv, HeldOK, TargetOK, Reading

(* Every reachable state of every instance is well typed.                  *)
THEOREM TypeCorrect == Spec => []TypeOK
<1>1. TypeInv => TypeOK
  BY DEF TypeInv
<1>2. QED
  BY <1>1, InitTypeInv, TypeInvStep, PTL DEF Spec

-----------------------------------------------------------------------------
(* Source binding.                                                         *)

LEMMA TypeFacts ==
  ASSUME TypeInv
  PROVE  /\ disk \in [Sources -> [Inodes -> FileVersion]]
         /\ cur \in [Sources -> Inodes]
         /\ writes \in Nat
         /\ pc \in [Runs -> Labels]
         /\ held \in [Runs -> [Sources -> Pin \cup {NoPin}]]
         /\ read \in [Runs -> [Artifacts -> [Sources -> Contents \cup {NoData}]]]
         /\ done \in [Runs -> SUBSET Artifacts]
         /\ checked \in [Runs -> SUBSET Sources]
         /\ manifest \in [Runs -> {"none", "partial", "full"}]
BY NativeExportAssumption DEF TypeInv, TypeOK, SourcesTypeOK, RunsTypeOK, Inodes

(* What OpenSource records is what the inode carries at that moment.       *)
LEMMA RunStamps ==
  ASSUME IInv, NEW r \in Runs, RunStep(r)
  PROVE  StampsOK' /\ StampPinsBytes'
<1>1. TypeInv /\ StampsOK /\ StampPinsBytes
  BY DEF IInv
<1>2. UNCHANGED <<disk, cur, writes>>
  BY RunFrame DEF sourceVars
<1>3. CASE UNCHANGED held
  BY <1>1, <1>2, <1>3 DEF StampsOK, StampPinsBytes, SameStamp
<1>4. ASSUME NEW s \in Sources, OpenSource(r, s)
      PROVE  StampsOK' /\ StampPinsBytes'
  <2>1. /\ held'[r][s].ino = cur[s]
        /\ held'[r][s].stamp = disk[s][cur[s]].stamp
        /\ held'[r][s].data = disk[s][cur[s]].data
        /\ cur[s] \in Inodes
    BY <1>1, <1>4, TypeFacts DEF OpenSource
  <2>2. \A q \in Runs, t \in Sources : <<q, t>> # <<r, s>> => held'[q][t] = held[q][t]
    BY <1>1, <1>4, TypeFacts DEF OpenSource
  <2>3. StampsOK'
    BY <1>1, <1>2, <2>1, <2>2 DEF StampsOK
  <2>4. StampPinsBytes'
    BY <1>1, <1>2, <2>1, <2>2 DEF StampPinsBytes, SameStamp
  <2>5. QED
    BY <2>3, <2>4
<1>5. QED
  BY <1>3, <1>4, RunFrame

LEMMA RunRead ==
  ASSUME IInv, NEW r \in Runs, RunStep(r)
  PROVE  ReadOK'
<1>1. TypeInv /\ StampPinsBytes /\ ReadOK
  BY DEF IInv
<1>2. UNCHANGED disk
  BY RunFrame DEF sourceVars
<1>3. SUFFICES ASSUME NEW q \in Runs, NEW t \in Sources, NEW b \in Artifacts,
                      read'[q][b][t] # NoData
               PROVE  /\ held'[q][t] \in Pin
                      /\ held'[q][t].data = Good
                      /\ SameStamp(q, t)' => read'[q][b][t] = Good
  BY DEF ReadOK
<1>4. CASE read'[q][b][t] = read[q][b][t]
  <2>1. held[q][t] \in Pin /\ held[q][t].data = Good
        /\ (SameStamp(q, t) => read[q][b][t] = Good)
    BY <1>1, <1>3, <1>4 DEF ReadOK
  <2>2. held[q][t] # NoPin
    BY <2>1, NativeExportAssumption
  <2>3. held'[q][t] = held[q][t]
    <3>1. ASSUME NEW s \in Sources, OpenSource(r, s)
          PROVE  held'[q][t] = held[q][t]
      BY <1>1, <2>2, <3>1, TypeFacts DEF OpenSource
    <3>2. QED
      BY <3>1, RunFrame
  <2>4. QED
    BY <1>2, <1>4, <2>1, <2>3 DEF SameStamp
<1>5. CASE read'[q][b][t] # read[q][b][t]
  <2>1. PICK a \in Artifacts, s \in Sources : WriteChunk(r, a, s)
    BY <1>5, RunFrame
  <2>2. q = r /\ b = a /\ t = s
    BY <1>1, <1>5, <2>1, TypeFacts DEF WriteChunk
  <2>3. UNCHANGED held /\ pc[r] \in Reading
        /\ read'[q][b][t] = disk[t][held[q][t].ino].data
    BY <1>1, <2>1, <2>2, TypeFacts DEF WriteChunk, Reading
  <2>4. held[q][t] \in Pin /\ held[q][t].data = Good
    BY <1>1, <2>2, <2>3 DEF TypeInv, HeldOK
  <2>5. QED
    BY <1>1, <1>2, <2>3, <2>4 DEF StampPinsBytes, SameStamp
<1>6. QED
  BY <1>4, <1>5

LEMMA DoneFrame ==
  ASSUME TypeInv, NEW r \in Runs, RunStep(r)
  PROVE  \A q \in Runs \ {r} : done'[q] = done[q]
BY TypeFacts
DEF RunStep, Goto, Handled, sourceVars, fsVars, runVars, Prepare, Validate, EnterPublish,
    Claim, PinOutput, CheckLinked, BeginInputCheck, Recheck, CreateManifest, FillManifest,
    ReadBack, CleanDir, CleanUnlink, CleanEmpty, CleanRmdir, Stop, Interrupt,
    OpenSource, VerifySource, VerifyStaged, Link, HashPublished, CleanCheck, WriteChunk

LEMMA RunStaged ==
  ASSUME IInv, NEW r \in Runs, RunStep(r)
  PROVE  DoneOK' /\ StagedOK'
<1>0. DoneOK'
  BY LabelFrame, TypeFacts, DoneFrame DEF IInv, DoneOK
<1>1. TypeInv /\ DoneOK /\ StagedOK
  BY DEF IInv
<1>2. \A q \in Runs, a \in Artifacts : Staged(q, a) => Staged(q, a)'
  <2>1. ASSUME NEW b \in Artifacts, NEW t \in Sources, WriteChunk(r, b, t)
        PROVE  \A q \in Runs, a \in Artifacts : Staged(q, a) => Staged(q, a)'
    BY <1>1, <2>1, TypeFacts DEF WriteChunk, Staged
  <2>2. QED
    BY <2>1, RunFrame DEF Staged
<1>3. SUFFICES ASSUME NEW q \in Runs, NEW a \in Artifacts,
                      (pc'[q] = "write" /\ a \in done'[q]) \/ pc'[q] \in Reading \ {"write"}
               PROVE  Staged(q, a)'
  BY <1>0 DEF StagedOK
<1>4. CASE pc'[q] \in Reading \ {"write"}
  <2>1. pc[q] \in Reading \ {"write"} \/ (q = r /\ EnterPublish(r))
    BY <1>1, <1>4, TypeFacts, LabelFrame
  <2>2. EnterPublish(r) => pc[r] = "write" /\ done[r] = Artifacts
    BY DEF EnterPublish
  <2>3. QED
    BY <1>1, <1>2, <2>1, <2>2 DEF StagedOK
<1>5. CASE pc'[q] = "write" /\ a \in done'[q]
  <2>1. pc[q] = "write" \/ (q = r /\ Validate(r))
    BY <1>1, <1>5, TypeFacts, LabelFrame
  <2>2. CASE q = r /\ Validate(r)
    <3>1. pc[r] = "open" /\ done' = done
      BY <2>2 DEF Validate, runVars
    <3>2. done'[q] = {}
      BY <1>1, <2>2, <3>1 DEF DoneOK
    <3>3. QED
      BY <1>5, <3>2
  <2>3. CASE pc[q] = "write"
    <3>1. a \in done[q] \/ (q = r /\ VerifyStaged(r, a))
      BY <1>1, <1>5, <2>3, TypeFacts
      DEF RunStep, Goto, Handled, sourceVars, fsVars, runVars, Prepare, Validate, EnterPublish,
          Claim, PinOutput, CheckLinked, BeginInputCheck, Recheck, CreateManifest, FillManifest,
          ReadBack, CleanDir, CleanUnlink, CleanEmpty, CleanRmdir, Stop, Interrupt,
          OpenSource, VerifySource, VerifyStaged, Link, HashPublished, CleanCheck, WriteChunk
    <3>2. VerifyStaged(r, a) => Staged(r, a)
      BY DEF VerifyStaged
    <3>3. QED
      BY <1>1, <1>2, <2>3, <3>1, <3>2 DEF StagedOK
  <2>4. QED
    BY <2>1, <2>2, <2>3
<1>6. QED
  BY <1>3, <1>4, <1>5

LEMMA RunChecked ==
  ASSUME IInv, NEW r \in Runs, RunStep(r)
  PROVE  CheckedOK' /\ CommitOK'
<1>1. TypeInv /\ ReadOK /\ StagedOK /\ CheckedOK /\ CommitOK
  BY DEF IInv
<1>2. CheckedOK'
  <2>1. SUFFICES ASSUME NEW q \in Runs, NEW t \in Sources, t \in checked'[q], NEW a \in Artifacts
                 PROVE  read'[q][a][t] = Good
    BY DEF CheckedOK
  <2>2. read[q][a][t] = Good => read'[q][a][t] = Good
    <3>1. ASSUME NEW b \in Artifacts, NEW s \in Sources, WriteChunk(r, b, s), read[q][a][t] = Good
          PROVE  read'[q][a][t] = Good
      BY <1>1, <3>1, TypeFacts, NativeExportAssumption DEF WriteChunk
    <3>2. QED
      BY <3>1, RunFrame
  <2>3. CASE t \in checked[q]
    BY <1>1, <2>2, <2>3 DEF CheckedOK
  <2>4. CASE t \notin checked[q]
    <3>1. q = r /\ VerifySource(r, t) /\ SourceUnchanged(r, t)
      BY <1>1, <2>1, <2>4, RunFrame, TypeFacts DEF VerifySource
    <3>2. pc[q] = "inputs"
      BY <3>1 DEF VerifySource
    <3>3. Staged(q, a)
      BY <1>1, <3>2 DEF StagedOK, Reading
    <3>4. read[q][a][t] # NoData
      BY <3>3 DEF Staged
    <3>5. SameStamp(q, t)
      BY <1>1, <3>1, <3>4 DEF ReadOK, SourceUnchanged, SameStamp
    <3>6. QED
      BY <1>1, <2>2, <3>4, <3>5 DEF ReadOK
  <2>5. QED
    BY <2>3, <2>4
<1>3. CommitOK'
  <2>1. SUFFICES ASSUME NEW q \in Runs,
                        pc'[q] \in {"commit", "fill", "readback"} \/ manifest'[q] # "none"
                 PROVE  checked'[q] = Sources
    BY DEF CommitOK
  <2>2. checked[q] = Sources => checked'[q] = Sources
    BY <1>1, RunFrame, TypeFacts DEF VerifySource
  <2>3. CASE checked[q] = Sources
    BY <2>2, <2>3
  <2>4. CASE checked[q] # Sources
    <3>1. pc[q] \notin {"commit", "fill", "readback"} /\ manifest[q] = "none"
      BY <1>1, <2>4 DEF CommitOK
    <3>2. q = r /\ Recheck(r)
      BY <1>1, <2>1, <3>1, LabelFrame, RunFrame, TypeFacts DEF CreateManifest, FillManifest
    <3>3. QED
      BY <2>4, <3>2 DEF Recheck
  <2>5. QED
    BY <2>3, <2>4
<1>4. QED
  BY <1>2, <1>3

(* A write or a replacement gives the inode a stamp no run has recorded.   *)
LEMMA SourceStepInv ==
  ASSUME IInv, SourceStep
  PROVE  StampsOK' /\ StampPinsBytes' /\ ReadOK' /\ DoneOK' /\ StagedOK' /\ CheckedOK' /\ CommitOK'
<1>1. TypeInv /\ StampsOK /\ StampPinsBytes /\ ReadOK /\ DoneOK /\ StagedOK /\ CheckedOK /\ CommitOK
  BY DEF IInv
<1>2. UNCHANGED <<held, read, done, checked, manifest, pc>>
  BY <1>1, SourceStepType DEF runVars
<1>3. /\ writes' = writes + 1 /\ writes + 1 \in Inodes
      /\ \A s \in Sources : cur'[s] <= writes'
      /\ \A s \in Sources, i \in Inodes :
           disk'[s][i] = disk[s][i] \/ disk'[s][i].stamp = writes + 1
  <2>1. PICK s \in Sources, c \in Contents : WriteSource(s, c) \/ ReplaceSource(s, c)
    BY DEF SourceStep
  <2>2. writes \in Nat /\ writes + 1 \in Inodes /\ writes' = writes + 1
    BY <1>1, <2>1, TypeFacts, NativeExportAssumption DEF WriteSource, ReplaceSource, Inodes
  <2>3. \A t \in Sources : cur[t] \in Nat /\ cur[t] <= writes
    BY <1>1, TypeFacts DEF StampsOK, Inodes
  <2>4. CASE WriteSource(s, c)
    BY <1>1, <2>2, <2>3, <2>4, TypeFacts DEF WriteSource, FileVersion
  <2>5. CASE ReplaceSource(s, c)
    BY <1>1, <2>2, <2>3, <2>5, TypeFacts DEF ReplaceSource, FileVersion
  <2>6. QED
    BY <2>1, <2>4, <2>5
<1>4. StampsOK'
  <2>1. writes \in Nat
    BY <1>1, TypeFacts
  <2>2. ASSUME NEW s \in Sources, NEW i \in Inodes
        PROVE  disk'[s][i].stamp <= writes'
    <3>1. disk[s][i] \in FileVersion
      BY <1>1, TypeFacts
    <3>2. disk[s][i].stamp \in Nat
      BY <3>1 DEF FileVersion, Inodes
    <3>3. disk[s][i].stamp <= writes
      BY <1>1 DEF StampsOK
    <3>4. QED
      BY <1>3, <2>1, <3>2, <3>3
  <2>3. ASSUME NEW r \in Runs, NEW s \in Sources, held'[r][s] \in Pin
        PROVE  held'[r][s].ino <= writes' /\ held'[r][s].stamp <= writes'
    <3>1. held[r][s] \in Pin /\ held[r][s].ino <= writes /\ held[r][s].stamp <= writes
      BY <1>1, <1>2, <2>3 DEF StampsOK
    <3>2. held[r][s].ino \in Nat /\ held[r][s].stamp \in Nat
      BY <3>1 DEF Pin, Inodes
    <3>3. QED
      BY <1>2, <1>3, <2>1, <3>1, <3>2
  <2>4. QED
    BY <1>3, <2>2, <2>3 DEF StampsOK
<1>5. ASSUME NEW r \in Runs, NEW s \in Sources, SameStamp(r, s)'
      PROVE  SameStamp(r, s) /\ disk'[s][held[r][s].ino] = disk[s][held[r][s].ino]
  <2>1. held[r][s] \in Pin /\ held[r][s].ino \in Inodes /\ held[r][s].stamp <= writes
    BY <1>1, <1>2, <1>5 DEF SameStamp, StampsOK, Pin
  <2>2. held[r][s].stamp \in Nat /\ writes \in Nat
    BY <1>1, <2>1, TypeFacts DEF Pin, Inodes
  <2>3. disk'[s][held[r][s].ino].stamp # writes + 1
    BY <1>2, <1>5, <2>1, <2>2 DEF SameStamp
  <2>4. QED
    BY <1>2, <1>3, <1>5, <2>1, <2>3 DEF SameStamp
<1>6. StampPinsBytes' /\ ReadOK'
  BY <1>1, <1>2, <1>5 DEF StampPinsBytes, ReadOK
<1>7. DoneOK' /\ StagedOK' /\ CheckedOK' /\ CommitOK'
  BY <1>1, <1>2 DEF DoneOK, StagedOK, Staged, CheckedOK, CommitOK
<1>8. QED
  BY <1>4, <1>6, <1>7

LEMMA IInvStep == IInv /\ [Next]_vars => IInv'
<1> SUFFICES ASSUME IInv, [Next]_vars
             PROVE  IInv'
  OBVIOUS
<1>1. TypeInv'
  BY TypeInvStep DEF IInv
<1>2. ASSUME NEW r \in Runs, RunStep(r)
      PROVE  IInv'
  BY <1>1, <1>2, RunStamps, RunRead, RunStaged, RunChecked DEF IInv
<1>3. CASE SourceStep
  BY <1>1, <1>3, SourceStepInv DEF IInv
<1>4. CASE ForeignStep \/ UNCHANGED vars
  <2>1. UNCHANGED <<sourceVars, runVars, pc>>
    BY <1>4, ForeignStepType DEF IInv, vars
  <2>2. QED
    BY <1>1, <2>1 DEF IInv, StampsOK, StampPinsBytes, ReadOK, DoneOK, StagedOK, CheckedOK, CommitOK,
                      SameStamp, Staged, sourceVars, runVars
<1>5. QED
  BY <1>2, <1>3, <1>4 DEF Next

LEMMA InitIInv == Init => IInv
<1> SUFFICES ASSUME Init
             PROVE  IInv
  OBVIOUS
<1>1. TypeInv
  BY InitTypeInv
<1>2. /\ \A r \in Runs, s \in Sources : held[r][s] \notin Pin
      /\ \A r \in Runs, a \in Artifacts, s \in Sources : read[r][a][s] = NoData
  BY NativeExportAssumption DEF Init
<1>3. StampsOK
  BY <1>2, NativeExportAssumption DEF Init, StampsOK, Inodes
<1>4. QED
  BY <1>1, <1>2, <1>3
  DEF Init, IInv, StampPinsBytes, SameStamp, ReadOK, DoneOK, StagedOK, Reading, CheckedOK, CommitOK

(* However often and whenever the sources are rewritten, restored or       *)
(* replaced, a manifest only ever binds the bytes the plan pinned.         *)
THEOREM SourcesBound == Spec => []SourceBinding
<1>1. IInv => SourceBinding
  BY DEF IInv, CommitOK, CheckedOK, SourceBinding
<1>2. QED
  BY <1>1, InitIInv, IInvStep, PTL DEF Spec

-----------------------------------------------------------------------------
(* The output directory: a committed output is whole, a cleanup removes    *)
(* all of its own and only its own.  The inductive invariant.              *)

(* Nothing run r made is in the output path, or in r's directory.          *)
Nowhere(r) == \A p \in Parents : out[p] # r
Swept(r)   == \A a \in Artifacts : dirs[r][a] # r

SingleOK == \A r \in Runs, p, q \in Parents : out[p] = r /\ out[q] = r => p = q

EarlyOK ==
  \A r \in Runs : pc[r] \in {"idle", "open", "write", "claim"} => Nowhere(r) /\ Swept(r)

(* The lstat after the claim finds the run's own directory, or the run's   *)
(* directory is gone for good and never received a link.                   *)
ClaimOK ==
  \A r \in Runs : "pin" \notin moved[r] =>
    /\ pc[r] = "pin" => (Cur = r \/ Nowhere(r)) /\ Swept(r)
    /\ pc[r] \in {"link", "hash", "inputs", "guard"} => outId[r] = r \/ (Nowhere(r) /\ Swept(r))

(* What of r's links is left in r's directory is what r recorded there.    *)
Recorded(r, a) == dirs[r][a] = r => published[r][a] = r

RecordOK ==
  \A r \in Runs : moved[r] \cap {"pin", "hash"} = {} =>
    /\ pc[r] = "hash" => (Cur = r \/ Swept(r)) /\ \A a \in done[r] : Recorded(r, a)
    /\ pc[r] \in {"inputs", "guard", "clean", "unlink"} => \A a \in Artifacts : Recorded(r, a)

SweepOK ==
  \A r \in Runs : moved[r] \cap {"pin", "hash", "clean"} = {} =>
    /\ pc[r] \in {"clean", "unlink"} =>
         (Cur = r \/ Swept(r)) /\ \A a \in done[r] : dirs[r][a] # r
    /\ pc[r] \in {"rmdir", "cleaned"} => Swept(r)

(* With no claim and no cleanup misled, a run works in its own directory,  *)
(* and what it is about to unlink there is still what it checked: no two   *)
(* cleanups meet in one directory.                                         *)
OwnDirOK ==
  NoneMoved => \A r \in Runs :
    /\ pc[r] \in {"pin", "clean", "unlink", "rmdir"} => Cur = r
    /\ pc[r] \in {"link", "hash", "inputs", "guard", "commit", "fill"} => outId[r] = r

UnlinkOK ==
  NoneMoved => \A r \in Runs : pc[r] = "unlink" =>
    At(target[r]) # NoFile /\ At(target[r]) = published[r][target[r]]

(* With no entry exchanged either, one run at a time links and rehashes,   *)
(* and what it finds and records are its own links.                        *)
EntryOK ==
  /\ \A r \in Runs : pc[r] \in {"claim", "pin"} => done[r] = {}
  /\ NoneMoved /\ NoneSwapped => \A r \in Runs :
       /\ pc[r] \in {"link", "hash"} => Cur = r
       /\ pc[r] = "link" => \A a \in done[r] : At(a) = r
       /\ pc[r] = "hash" => \A a \in Artifacts : At(a) = r /\ (a \in done[r] => published[r][a] = r)
       /\ pc[r] \in {"inputs", "guard", "clean", "unlink", "commit", "fill"} =>
            \A a \in Artifacts : published[r][a] = r

(* An inode recorded and not touched since has the bytes the run staged.   *)
HashedOK ==
  \A r \in Runs :
    /\ pc[r] \in {"hash", "inputs"} =>
         \A a \in done[r] : a \notin touched[r] => SameBytes(r, a, published[r][a])
    /\ pc[r] = "inputs" => done[r] = Artifacts

(* From the last recheck to the completed manifest nobody but a foreigner  *)
(* can empty, replace or extend the output.                                *)
WholeSoFar(r) ==
  /\ parent = home[r]
  /\ Cur = outId[r]
  /\ \A a \in Artifacts : At(a) = published[r][a] /\ SameBytes(r, a, published[r][a])
  /\ Present \subseteq Artifacts \cup {Manifest}
  /\ pc[r] = "fill" => At(Manifest) # NoFile

WholeOK ==
  NoneMoved => \A r \in Runs :
    pc[r] \in {"commit", "fill"} /\ "commit" \notin moved[r] => WholeSoFar(r)

OutputInv == /\ IInv
             /\ SingleOK /\ EarlyOK /\ ClaimOK /\ RecordOK /\ SweepOK
             /\ OwnDirOK /\ UnlinkOK /\ EntryOK /\ HashedOK /\ WholeOK

-----------------------------------------------------------------------------
(* Which step changes what.                                                *)

LEMMA OutputFacts ==
  ASSUME TypeInv
  PROVE  /\ parent \in Parents
         /\ out \in [Parents -> DirIds \cup {NoDir}]
         /\ dirs \in [DirIds -> [Names -> Files \cup {NoFile}]]
         /\ tampered \in [Files -> SUBSET Artifacts]
         /\ published \in [Runs -> [Artifacts -> Runs \cup Copies \cup {NoFile}]]
         /\ touched \in [Runs -> SUBSET Artifacts]
         /\ moved \in [Runs -> SUBSET {"commit", "pin", "entry", "hash", "unlink", "clean"}]
         /\ pc \in [Runs -> Labels]
         /\ done \in [Runs -> SUBSET Artifacts]
         /\ home \in [Runs -> Parents]
         /\ outId \in [Runs -> DirIds \cup {NoDir}]
         /\ target \in [Runs -> Artifacts \cup {NoFile}]
         /\ \A r \in Runs : pc[r] = "unlink" => target[r] \in Artifacts
BY DEF TypeInv, TypeOK, OutputTypeOK, RunsTypeOK, TargetOK

(* Runs, directories, files and absence are told apart.                    *)
LEMMA Apart ==
  /\ \A r \in Runs : r # NoDir /\ r # NoFile /\ r # Foreign /\ r \in DirIds /\ r \notin Copies
  /\ NoDir # Foreign /\ NoFile # Foreign /\ NoDir \notin DirIds /\ NoFile \notin Copies
  /\ Artifacts \subseteq Names /\ Manifest \in Names /\ Manifest \notin Artifacts
BY NativeExportAssumption DEF DirIds, Names, Manifest, Copies

runLocal == <<home, outId, published>>
Claims(r) == Claim(r) /\ pc[r] = "claim" /\ Cur = NoDir /\ out' = [out EXCEPT ![parent] = r]
Removes(r) ==
  pc[r] = "rmdir" /\ Cur # NoDir /\ Present = {} /\ out' = [out EXCEPT ![parent] = NoDir]
Adds(r, n) ==
  /\ (pc[r] = "link" /\ n \in Artifacts) \/ (pc[r] = "commit" /\ n = Manifest)
  /\ Cur # NoDir /\ At(n) = NoFile /\ dirs' = [dirs EXCEPT ![Cur][n] = r]
Deletes(r) ==
  /\ pc[r] = "unlink" /\ pc'[r] = "clean" /\ At(target[r]) # NoFile
  /\ dirs' = [dirs EXCEPT ![Cur][target[r]] = NoFile]

LEMMA RunOutput ==
  ASSUME TypeInv, NEW r \in Runs, RunStep(r)
  PROVE  /\ UNCHANGED <<parent, tampered, moved>>
         /\ \/ UNCHANGED <<out, dirs>>
            \/ Claims(r) /\ UNCHANGED dirs
            \/ Removes(r) /\ UNCHANGED dirs
            \/ (\E n \in Names : Adds(r, n)) /\ UNCHANGED out
            \/ Deletes(r) /\ UNCHANGED out
<1>1. ASSUME \/ Prepare(r) \/ Validate(r) \/ EnterPublish(r) \/ PinOutput(r)
             \/ CheckLinked(r) \/ BeginInputCheck(r) \/ Recheck(r) \/ FillManifest(r)
             \/ ReadBack(r) \/ CleanDir(r) \/ CleanEmpty(r) \/ Stop(r) \/ Interrupt(r)
             \/ \E s \in Sources : OpenSource(r, s) \/ VerifySource(r, s)
             \/ \E a \in Artifacts : VerifyStaged(r, a) \/ HashPublished(r, a) \/ CleanCheck(r, a)
             \/ \E a \in Artifacts, s \in Sources : WriteChunk(r, a, s)
      PROVE  UNCHANGED <<parent, tampered, moved, out, dirs>>
  <2>1. ASSUME NEW a \in Artifacts, HashPublished(r, a)
        PROVE  UNCHANGED <<parent, tampered, moved, out, dirs>>
    BY <2>1 DEF HashPublished
  <2>2. CASE UNCHANGED fsVars
    BY <2>2 DEF fsVars
  <2>3. QED
    BY <1>1, <2>1, <2>2 DEF Prepare, Validate,
      EnterPublish, PinOutput, CheckLinked, BeginInputCheck, Recheck, FillManifest,
      ReadBack, CleanDir, CleanEmpty, Stop, Interrupt,
      OpenSource, VerifySource, VerifyStaged, CleanCheck, WriteChunk
<1>2. ASSUME Claim(r)
      PROVE  UNCHANGED <<parent, tampered, moved, dirs>> /\ (Claims(r) \/ UNCHANGED out)
  BY <1>2 DEF Claim, Claims
<1>3. ASSUME CleanRmdir(r)
      PROVE  UNCHANGED <<parent, tampered, moved, dirs>> /\ (Removes(r) \/ UNCHANGED out)
  BY <1>3 DEF CleanRmdir, Removes
<1>4. ASSUME NEW a \in Artifacts, Link(r, a)
      PROVE  UNCHANGED <<parent, tampered, moved, out>> /\ (Adds(r, a) \/ UNCHANGED dirs)
  BY <1>4 DEF Link, Adds
<1>5. ASSUME CreateManifest(r)
      PROVE  UNCHANGED <<parent, tampered, moved, out>> /\ (Adds(r, Manifest) \/ UNCHANGED dirs)
  BY <1>5 DEF CreateManifest, Adds
<1>6. ASSUME CleanUnlink(r)
      PROVE  UNCHANGED <<parent, tampered, moved, out>> /\ (Deletes(r) \/ UNCHANGED dirs)
  BY <1>6, OutputFacts DEF CleanUnlink, Deletes, Goto
<1>7. QED
  BY <1>1, <1>2, <1>3, <1>4, <1>5, <1>6, Apart DEF RunStep

(* A step of run r leaves the locals of every other run alone.             *)
LEMMA OthersFrame ==
  ASSUME TypeInv, NEW r \in Runs, RunStep(r), NEW q \in Runs, q # r
  PROVE  /\ pc'[q] = pc[q] /\ done'[q] = done[q] /\ outId'[q] = outId[q]
         /\ target'[q] = target[q] /\ touched'[q] = touched[q] /\ home'[q] = home[q]
         /\ published'[q] = published[q]
<1>1. pc'[q] = pc[q] /\ done'[q] = done[q]
  BY LabelFrame, DoneFrame, OutputFacts
<1>2. /\ outId'[q] = outId[q] /\ target'[q] = target[q] /\ touched'[q] = touched[q] /\ home'[q] = home[q]
      /\ published'[q] = published[q]
  BY OutputFacts
  DEF RunStep, Goto, sourceVars, fsVars, runVars, Prepare, Validate,
    EnterPublish, Claim, PinOutput, CheckLinked, BeginInputCheck, Recheck, CreateManifest,
    FillManifest, ReadBack, CleanDir, CleanUnlink, CleanEmpty, CleanRmdir, Stop, Interrupt,
    OpenSource, VerifySource, VerifyStaged, Link, HashPublished, CleanCheck, WriteChunk
<1>3. QED
  BY <1>1, <1>2

(* Other processes put nothing of a run's anywhere, and every change they  *)
(* make is recorded for the windows it fell in.                            *)
LEMMA ForeignFrame ==
  ASSUME TypeInv, ForeignStep
  PROVE  /\ UNCHANGED <<pc, done, outId, target, home, published, read>>
         /\ \A q \in Runs : moved'[q] = moved[q] \cup Window(q)
         /\ \A p \in Parents : out'[p] = out[p] \/ out'[p] \in {NoDir, Foreign}
         /\ \A d \in DirIds, n \in Names : dirs'[d][n] = dirs[d][n] \/ dirs'[d][n] \notin Runs
         /\ \A q \in Runs, a \in Artifacts :
              \/ a \in touched'[q]
              \/ /\ a \notin touched[q]
                 /\ published[q][a] \in Files =>
                      (a \in tampered'[published[q][a]] <=> a \in tampered[published[q][a]])
<1>1. /\ UNCHANGED <<pc, done, outId, target, home, published, read>>
      /\ moved' = [q \in Runs |-> moved[q] \cup Window(q)]
  BY DEF ForeignStep, Disturb, ForeignDirectory, ForeignEntry, ForeignParent, ForeignBytes, runVars
<1>2. \A p \in Parents : out'[p] = out[p] \/ out'[p] \in {NoDir, Foreign}
  BY OutputFacts DEF ForeignStep, ForeignDirectory, ForeignEntry, ForeignParent, ForeignBytes
<1>3. \A d \in DirIds, n \in Names : dirs'[d][n] = dirs[d][n] \/ dirs'[d][n] \notin Runs
  <2>1. foreign + 1 \notin Runs
    BY NativeExportAssumption DEF TypeInv, TypeOK, OutputTypeOK
  <2>2. Foreign \notin Runs /\ NoFile \notin Runs
    BY Apart
  <2>3. ASSUME NEW n \in Names, NEW f \in {Foreign, NoFile, foreign + 1}, ForeignEntry(n, f)
        PROVE  \A d \in DirIds, m \in Names : dirs'[d][m] = dirs[d][m] \/ dirs'[d][m] \notin Runs
    BY <2>1, <2>2, <2>3, OutputFacts DEF ForeignEntry
  <2>4. ASSUME NEW e \in {NoDir, Foreign}, NEW S \in SUBSET Artifacts, ForeignDirectory(e, S)
        PROVE  \A d \in DirIds, m \in Names : dirs'[d][m] = dirs[d][m] \/ dirs'[d][m] \notin Runs
    BY <2>2, <2>4, OutputFacts DEF ForeignDirectory
  <2>5. UNCHANGED dirs => \A d \in DirIds, m \in Names : dirs'[d][m] = dirs[d][m]
    OBVIOUS
  <2>6. Artifacts \subseteq Names
    BY Apart
  <2>7. QED
    BY <2>3, <2>4, <2>5, <2>6 DEF ForeignStep, ForeignParent, ForeignBytes
<1>4. \A q \in Runs, a \in Artifacts :
        \/ a \in touched'[q]
        \/ /\ a \notin touched[q]
           /\ published[q][a] \in Files =>
                (a \in tampered'[published[q][a]] <=> a \in tampered[published[q][a]])
  <2>1. CASE UNCHANGED <<tampered, touched>>
    BY <2>1
  <2>2. ASSUME NEW f \in Runs \cup Copies, NEW b \in Artifacts, ForeignBytes(f, b),
               NEW q \in Runs, NEW a \in Artifacts, a \notin touched'[q]
        PROVE  /\ a \notin touched[q]
               /\ published[q][a] \in Files =>
                    (a \in tampered'[published[q][a]] <=> a \in tampered[published[q][a]])
    <3>1. touched'[q] = IF published[q][b] = f THEN touched[q] \cup {b} ELSE touched[q]
      BY <2>2 DEF ForeignBytes
    <3>2. a \notin touched[q] /\ (a = b => published[q][a] # f)
      BY <2>2, <3>1
    <3>3. \A g \in Files : (g # f \/ a # b) => (a \in tampered'[g] <=> a \in tampered[g])
      BY <2>2, OutputFacts DEF ForeignBytes
    <3>4. QED
      BY <3>2, <3>3
  <2>3. QED
    BY <2>1, <2>2 DEF ForeignStep, ForeignDirectory, ForeignEntry, ForeignParent
<1>5. QED
  BY <1>1, <1>2, <1>3, <1>4

(* The way into each label from the claim on, and what r's locals become.  *)
LEMMA OwnFrame ==
  ASSUME TypeInv, NEW r \in Runs, RunStep(r)
  PROVE  /\ pc'[r] \in {"idle", "open", "write", "claim"} =>
              pc[r] \in {"idle", "open", "write", "claim"} /\ UNCHANGED <<out, dirs>>
         /\ pc'[r] = "pin" => Claims(r) /\ UNCHANGED dirs
         /\ pc'[r] \in {"link", "hash", "inputs", "guard"} =>
              \/ pc[r] = "pin" /\ outId'[r] = Cur /\ Cur # NoDir /\ UNCHANGED <<out, dirs>>
              \/ pc[r] \in {"link", "hash", "inputs"} /\ outId'[r] = outId[r]
         /\ pc'[r] \in {"hash", "inputs"} => pc[r] \in {"link", "hash", "inputs"}
         /\ pc'[r] = "commit" => Recheck(r)
         /\ pc'[r] = "fill" => pc[r] = "commit" /\ Adds(r, Manifest) /\ UNCHANGED <<out, runLocal>>
         /\ pc'[r] = "unlink" =>
              \E a \in Artifacts : /\ CleanCheck(r, a) /\ target'[r] = a
                                  /\ At(a) # NoFile /\ At(a) = published[r][a]
         /\ pc'[r] = "clean" =>
              \/ CleanDir(r)
              \/ \E a \in Artifacts : CleanCheck(r, a) /\ (At(a) = NoFile \/ At(a) # published[r][a])
              \/ Deletes(r) /\ done'[r] = done[r] \cup {target[r]}
         /\ pc'[r] = "rmdir" => CleanEmpty(r)
         /\ pc'[r] = "cleaned" => CleanEmpty(r) \/ pc[r] = "rmdir"
BY ZenonT(40), OutputFacts
DEF RunStep, Goto, Claims, Adds, Deletes, Labels, Terminal, sourceVars, fsVars, runVars, runLocal,
    Prepare, Validate, EnterPublish, Claim, PinOutput, CheckLinked, BeginInputCheck, Recheck,
    CreateManifest, FillManifest, ReadBack, CleanDir, CleanUnlink, CleanEmpty, CleanRmdir, Stop,
    Interrupt, OpenSource, VerifySource, VerifyStaged, Link, HashPublished, CleanCheck, WriteChunk,
    Handled

-----------------------------------------------------------------------------
(* A step of a run keeps the invariant.                                    *)

(* Only run r puts r anywhere, and only its claim makes it reachable.      *)
LEMMA OwnPlaces ==
  ASSUME TypeInv, NEW r \in Runs, RunStep(r), NEW q \in Runs
  PROVE  /\ Nowhere(q) => Nowhere(q)' \/ (q = r /\ Claims(r))
         /\ \A n \in Names : dirs[q][n] # q =>
              dirs'[q][n] # q \/ (q = r /\ Adds(r, n) /\ Cur = r)
<1>1. CASE UNCHANGED <<out, dirs>>
  BY <1>1 DEF Nowhere
<1>2. CASE Claims(r) /\ UNCHANGED dirs
  BY <1>2, OutputFacts, Apart DEF Nowhere, Claims
<1>3. CASE Removes(r) /\ UNCHANGED dirs
  BY <1>3, OutputFacts, Apart DEF Nowhere, Removes
<1>4. ASSUME NEW n \in Names, Adds(r, n), UNCHANGED out
      PROVE  \A m \in Names : dirs[q][m] # q =>
                dirs'[q][m] # q \/ (q = r /\ Adds(r, m) /\ Cur = r)
  <2>1. Cur \in DirIds /\ q \in DirIds /\ dirs' = [dirs EXCEPT ![Cur][n] = r]
    BY <1>4, OutputFacts, Apart DEF Adds, Cur
  <2>2. \A m \in Names : dirs'[q][m] = dirs[q][m] \/ (m = n /\ q = Cur /\ dirs'[q][m] = r)
    BY <2>1, OutputFacts
  <2>3. QED
    BY <1>4, <2>2
<1>5. ASSUME Deletes(r), UNCHANGED out
      PROVE  \A m \in Names : dirs[q][m] # q => dirs'[q][m] # q
  BY <1>5, OutputFacts, Apart DEF Deletes
<1>6. QED
  BY <1>1, <1>2, <1>3, <1>4, <1>5, RunOutput DEF Nowhere

LEMMA RunEarly ==
  ASSUME OutputInv, NEW r \in Runs, RunStep(r)
  PROVE  SingleOK' /\ EarlyOK'
<1>1. TypeInv /\ SingleOK /\ EarlyOK
  BY DEF OutputInv, IInv
<1>2. SingleOK'
  <2>1. CASE UNCHANGED out
    BY <1>1, <2>1 DEF SingleOK
  <2>2. CASE Claims(r)
    <3>1. Nowhere(r)
      BY <1>1, <2>2 DEF EarlyOK, Claims
    <3>2. QED
      BY <1>1, <2>2, <3>1, OutputFacts DEF SingleOK, Claims, Nowhere
  <2>3. CASE Removes(r)
    BY <1>1, <2>3, OutputFacts, Apart DEF SingleOK, Removes
  <2>4. QED
    BY <1>1, <2>1, <2>2, <2>3, RunOutput
<1>3. EarlyOK'
  <2>1. SUFFICES ASSUME NEW q \in Runs, pc'[q] \in {"idle", "open", "write", "claim"}
                 PROVE  Nowhere(q)' /\ Swept(q)'
    BY DEF EarlyOK
  <2>2. CASE q = r
    BY <1>1, <2>1, <2>2, OwnFrame DEF EarlyOK, Nowhere, Swept
  <2>3. CASE q # r
    BY <1>1, <2>1, <2>3, OthersFrame, OwnPlaces, Apart DEF EarlyOK, Swept
  <2>4. QED
    BY <2>2, <2>3
<1>4. QED
  BY <1>2, <1>3

LEMMA RunClaim ==
  ASSUME OutputInv, NEW r \in Runs, RunStep(r)
  PROVE  ClaimOK'
<1>1. TypeInv /\ SingleOK /\ EarlyOK /\ ClaimOK /\ UNCHANGED <<parent, moved>>
  BY RunOutput DEF OutputInv, IInv
<1>2. SUFFICES ASSUME NEW q \in Runs, "pin" \notin moved[q]
               PROVE  /\ pc'[q] = "pin" => (Cur' = q \/ Nowhere(q)') /\ Swept(q)'
                      /\ pc'[q] \in {"link", "hash", "inputs", "guard"} =>
                           outId'[q] = q \/ (Nowhere(q)' /\ Swept(q)')
  BY <1>1 DEF ClaimOK
<1>3. CASE q = r /\ pc'[q] = "pin"
  <2>1. Claims(r) /\ UNCHANGED dirs /\ pc[r] = "claim"
    BY <1>1, <1>3, OwnFrame DEF Claims
  <2>2. Cur' = r /\ Swept(r)'
    BY <1>1, <2>1, OutputFacts DEF Cur, Claims, EarlyOK, Swept
  <2>3. QED
    BY <1>3, <2>2
<1>4. CASE q = r /\ pc'[q] \in {"link", "hash", "inputs", "guard"}
  <2>1. CASE pc[r] = "pin" /\ outId'[r] = Cur /\ UNCHANGED <<out, dirs>>
    BY <1>1, <1>2, <1>4, <2>1 DEF ClaimOK, Nowhere, Swept
  <2>2. CASE pc[r] \in {"link", "hash", "inputs"} /\ outId'[r] = outId[r]
    <3>1. outId[r] = r \/ (Nowhere(r) /\ Swept(r))
      BY <1>1, <1>2, <1>4, <2>2 DEF ClaimOK
    <3>2. Nowhere(r) => Cur # r /\ ~Claims(r)
      BY <1>1, <2>2, OutputFacts DEF Nowhere, Cur, Claims
    <3>3. QED
      BY <1>1, <1>4, <2>2, <3>1, <3>2, OwnPlaces, Apart DEF Swept
  <2>3. QED
    BY <1>1, <1>4, <2>1, <2>2, OwnFrame
<1>5. CASE q # r
  <2>1. pc'[q] = pc[q] /\ outId'[q] = outId[q]
    BY <1>1, <1>5, OthersFrame
  <2>2. (Nowhere(q) => Nowhere(q)') /\ (Swept(q) => Swept(q)')
    BY <1>1, <1>5, OwnPlaces, Apart DEF Swept
  <2>3. Cur = q => Cur' = q \/ Nowhere(q)'
    <3>1. CASE UNCHANGED out
      BY <1>1, <3>1 DEF Cur
    <3>2. CASE Claims(r)
      BY <3>2, Apart DEF Claims
    <3>3. ASSUME Removes(r), Cur = q
          PROVE  Nowhere(q)'
      BY <1>1, <3>3, OutputFacts, Apart DEF Removes, Cur, SingleOK, Nowhere
    <3>4. QED
      BY <1>1, <3>1, <3>2, <3>3, RunOutput
  <2>4. QED
    BY <1>1, <1>2, <2>1, <2>2, <2>3 DEF ClaimOK
<1>6. QED
  BY <1>3, <1>4, <1>5

(* What a run leaves of the directory another run claimed.                 *)
LEMMA DirKept ==
  ASSUME OutputInv, NEW r \in Runs, RunStep(r), NEW q \in Runs, q # r
  PROVE  Cur = q \/ Swept(q) => Cur' = q \/ Swept(q)'
<1>1. TypeInv /\ UNCHANGED parent
  BY RunOutput DEF OutputInv, IInv
<1>2. Swept(q) => Swept(q)'
  BY <1>1, OwnPlaces, Apart DEF Swept
<1>3. Cur = q => Cur' = q \/ Swept(q)'
  <2>1. CASE UNCHANGED out
    BY <1>1, <2>1 DEF Cur
  <2>2. CASE Claims(r)
    BY <2>2, Apart DEF Claims
  <2>3. ASSUME Removes(r), UNCHANGED dirs, Cur = q
        PROVE  Swept(q)'
    BY <1>1, <2>3, OutputFacts, Apart DEF Removes, Present, At, Swept
  <2>4. QED
    BY <1>1, <2>1, <2>2, <2>3, RunOutput
<1>4. QED
  BY <1>2, <1>3

(* A rehash that nobody disturbed records the run's own links.             *)
LEMMA RunRecord ==
  ASSUME OutputInv, NEW r \in Runs, RunStep(r)
  PROVE  RecordOK'
<1>1. TypeInv /\ ClaimOK /\ RecordOK /\ HashedOK /\ UNCHANGED <<parent, moved>>
  BY RunOutput DEF OutputInv, IInv
<1>2. SUFFICES ASSUME NEW q \in Runs, moved[q] \cap {"pin", "hash"} = {}
               PROVE  /\ pc'[q] = "hash" => (Cur' = q \/ Swept(q)') /\ \A a \in done'[q] : Recorded(q, a)'
                      /\ pc'[q] \in {"inputs", "guard", "clean", "unlink"} =>
                           \A a \in Artifacts : Recorded(q, a)'
  BY <1>1 DEF RecordOK
<1>3. CASE q # r
  <2>1. /\ pc'[q] = pc[q] /\ done'[q] = done[q] /\ published'[q] = published[q]
        /\ done[q] \in SUBSET Artifacts
    BY <1>1, <1>3, OthersFrame, OutputFacts
  <2>2. \A a \in Artifacts : dirs[q][a] # q => dirs'[q][a] # q
    BY <1>1, <1>3, OwnPlaces, Apart
  <2>3. \A a \in Artifacts : Recorded(q, a) => Recorded(q, a)'
    BY <2>1, <2>2 DEF Recorded
  <2>4. QED
    BY <1>1, <1>2, <1>3, <2>1, <2>3, DirKept DEF RecordOK
<1>4. CASE q = r /\ pc'[r] = "hash"
  <2>1. CheckLinked(r) \/ \E a \in Artifacts : HashPublished(r, a)
    BY <1>1, <1>4, OutputFacts
    DEF RunStep, Goto, Labels, Terminal, sourceVars, fsVars, runVars,
      Prepare, Validate, EnterPublish, Claim, PinOutput, CheckLinked, BeginInputCheck, Recheck,
      CreateManifest, FillManifest, ReadBack, CleanDir, CleanUnlink, CleanEmpty, CleanRmdir, Stop,
      Interrupt, OpenSource, VerifySource, VerifyStaged, Link, HashPublished, CleanCheck, WriteChunk
  <2>2. CASE CheckLinked(r)
    <3>1. pc[r] = "link" /\ Cur = outId[r] /\ done'[r] = {} /\ UNCHANGED <<out, dirs>>
      BY <1>1, <1>4, <2>2, OutputFacts DEF CheckLinked, Goto, fsVars
    <3>2. QED
      BY <1>1, <1>2, <1>4, <3>1 DEF ClaimOK, Cur, Swept
  <2>3. ASSUME NEW a \in Artifacts, HashPublished(r, a)
        PROVE  (Cur' = r \/ Swept(r)') /\ \A b \in done'[r] : Recorded(r, b)'
    <3>1. /\ pc[r] = "hash" /\ UNCHANGED <<out, dirs>> /\ done'[r] = done[r] \cup {a}
          /\ published' = [published EXCEPT ![r][a] = At(a)]
      BY <1>1, <1>4, <2>3, OutputFacts DEF HashPublished, Handled, Goto
    <3>2. published'[r][a] = At(a) /\ \A b \in Artifacts : b # a => published'[r][b] = published[r][b]
      BY <1>1, <3>1, OutputFacts
    <3>3. (Cur = r \/ Swept(r)) /\ \A b \in done[r] : Recorded(r, b)
      BY <1>1, <1>2, <1>4, <3>1 DEF RecordOK
    <3>4. dirs[r][a] = r => At(a) = r
      BY <3>3, Apart DEF Swept, At
    <3>5. \A b \in done[r] \cup {a} : dirs[r][b] = r => published'[r][b] = r
      BY <1>1, <3>2, <3>3, <3>4, OutputFacts DEF Recorded
    <3>6. QED
      BY <1>1, <3>1, <3>3, <3>5 DEF Recorded, Cur, Swept
  <2>4. QED
    BY <1>4, <2>1, <2>2, <2>3
<1>5. CASE q = r /\ pc'[r] \in {"inputs", "guard", "clean", "unlink"}
  <2>1. /\ \/ pc[r] \in {"inputs", "guard", "clean", "unlink"}
           \/ pc[r] = "hash" /\ done[r] = Artifacts
        /\ UNCHANGED published
    BY <1>1, <1>5, OutputFacts
    DEF RunStep, Goto, Labels, Terminal, sourceVars, fsVars, runVars,
      Prepare, Validate, EnterPublish, Claim, PinOutput, CheckLinked, BeginInputCheck, Recheck,
      CreateManifest, FillManifest, ReadBack, CleanDir, CleanUnlink, CleanEmpty, CleanRmdir, Stop,
      Interrupt, OpenSource, VerifySource, VerifyStaged, Link, HashPublished, CleanCheck, WriteChunk
  <2>2. \A a \in Artifacts : Recorded(r, a)
    BY <1>1, <1>2, <1>5, <2>1 DEF RecordOK
  <2>3. \A n \in Artifacts : ~Adds(r, n)
    BY <2>1, Apart DEF Adds
  <2>4. \A a \in Artifacts : dirs[r][a] # r => dirs'[r][a] # r
    BY <1>1, <2>3, OwnPlaces, Apart
  <2>5. QED
    BY <1>5, <2>1, <2>2, <2>4 DEF Recorded
<1>6. QED
  BY <1>3, <1>4, <1>5

(* A run that removes the output directory found nothing in it.            *)
LEMMA RunSweep ==
  ASSUME OutputInv, NEW r \in Runs, RunStep(r)
  PROVE  SweepOK'
<1>1. TypeInv /\ ClaimOK /\ RecordOK /\ SweepOK /\ UNCHANGED <<parent, moved>>
  BY RunOutput DEF OutputInv, IInv
<1>2. SUFFICES ASSUME NEW q \in Runs, moved[q] \cap {"pin", "hash", "clean"} = {}
               PROVE  /\ pc'[q] \in {"clean", "unlink"} =>
                           (Cur' = q \/ Swept(q)') /\ \A a \in done'[q] : dirs'[q][a] # q
                      /\ pc'[q] \in {"rmdir", "cleaned"} => Swept(q)'
  BY <1>1 DEF SweepOK
<1>3. CASE q # r
  <2>1. pc'[q] = pc[q] /\ done'[q] = done[q] /\ done[q] \in SUBSET Artifacts
    BY <1>1, <1>3, OthersFrame, OutputFacts
  <2>2. \A a \in Artifacts : dirs[q][a] # q => dirs'[q][a] # q
    BY <1>1, <1>3, OwnPlaces, Apart
  <2>3. QED
    BY <1>1, <1>2, <1>3, <2>1, <2>2, DirKept DEF SweepOK, Swept
<1>4. CASE q = r /\ pc'[r] = "clean"
  <2>1. CASE CleanDir(r)
    <3>1. pc[r] = "guard" /\ Cur = outId[r] /\ done'[r] = {} /\ UNCHANGED <<out, dirs>>
      BY <1>1, <1>4, <2>1, OutputFacts DEF CleanDir, Goto, fsVars
    <3>2. outId[r] = r \/ Swept(r)
      BY <1>1, <1>2, <1>4, <3>1 DEF ClaimOK
    <3>3. QED
      BY <1>1, <1>4, <3>1, <3>2 DEF Cur, Swept
  <2>2. ASSUME NEW a \in Artifacts, CleanCheck(r, a), At(a) = NoFile \/ At(a) # published[r][a]
        PROVE  (Cur' = r \/ Swept(r)') /\ \A b \in done'[r] : dirs'[r][b] # r
    <3>1. pc[r] = "clean" /\ done'[r] = done[r] \cup {a} /\ UNCHANGED <<out, dirs>>
      BY <1>1, <2>2, OutputFacts DEF CleanCheck, Handled, fsVars
    <3>2. dirs[r][a] = r => published[r][a] = r
      BY <1>1, <1>2, <1>4, <3>1 DEF RecordOK, Recorded
    <3>3. dirs[r][a] # r
      <4>1. CASE Cur = r
        BY <2>2, <3>2, <4>1, Apart DEF At
      <4>2. CASE Swept(r)
        BY <4>2 DEF Swept
      <4>3. QED
        BY <1>1, <1>2, <1>4, <3>1, <4>1, <4>2 DEF SweepOK
    <3>4. QED
      BY <1>1, <1>2, <1>4, <3>1, <3>3 DEF SweepOK, Cur, Swept
  <2>3. CASE Deletes(r) /\ done'[r] = done[r] \cup {target[r]}
    <3>1. pc[r] = "unlink" /\ target[r] \in Artifacts /\ Cur # NoDir /\ UNCHANGED out
      <4>1. pc[r] = "unlink" /\ target[r] \in Artifacts /\ Cur # NoDir
        BY <1>1, <2>3, OutputFacts DEF Deletes, At
      <4>2. ~Claims(r) /\ ~Removes(r)
        BY <4>1 DEF Claims, Removes
      <4>3. QED
        BY <1>1, <4>1, <4>2, RunOutput
    <3>2. dirs' = [dirs EXCEPT ![Cur][target[r]] = NoFile] /\ Cur \in DirIds
      BY <1>1, <2>3, <3>1, OutputFacts DEF Deletes, Cur
    <3>3. /\ \A a \in Artifacts : dirs[r][a] # r => dirs'[r][a] # r
          /\ Cur = r => dirs'[r][target[r]] # r
      BY <1>1, <3>1, <3>2, OutputFacts, Apart
    <3>4. (Cur = r \/ Swept(r)) /\ \A a \in done[r] : dirs[r][a] # r
      BY <1>1, <1>2, <1>4, <3>1 DEF SweepOK
    <3>5. Cur' = Cur /\ done[r] \in SUBSET Artifacts
      BY <1>1, <3>1, OutputFacts DEF Cur
    <3>6. QED
      BY <1>4, <2>3, <3>1, <3>3, <3>4, <3>5 DEF Swept
  <2>4. QED
    BY <1>1, <1>4, <2>1, <2>2, <2>3, OwnFrame
<1>5. CASE q = r /\ pc'[r] = "unlink"
  <2>1. PICK a \in Artifacts : CleanCheck(r, a) /\ target'[r] = a
    BY <1>1, <1>5, OwnFrame
  <2>2. pc[r] = "clean" /\ UNCHANGED <<out, dirs, done>>
    BY <1>5, <2>1 DEF CleanCheck, fsVars
  <2>3. QED
    BY <1>1, <1>2, <1>5, <2>2 DEF SweepOK, Cur, Swept
<1>6. CASE q = r /\ pc'[r] \in {"rmdir", "cleaned"}
  <2>1. CASE CleanEmpty(r)
    <3>1. pc[r] = "clean" /\ done[r] = Artifacts /\ UNCHANGED <<out, dirs>>
      BY <2>1 DEF CleanEmpty, fsVars
    <3>2. QED
      BY <1>1, <1>2, <1>6, <3>1 DEF SweepOK, Swept
  <2>2. CASE pc[r] = "rmdir"
    <3>1. Swept(r) /\ \A n \in Names : ~Adds(r, n)
      BY <1>1, <1>2, <1>6, <2>2 DEF SweepOK, Adds
    <3>2. QED
      BY <1>1, <1>6, <2>2, <3>1, OwnPlaces, Apart DEF Swept
  <2>3. QED
    BY <1>1, <1>6, <2>1, <2>2, OwnFrame
<1>7. QED
  BY <1>3, <1>4, <1>5, <1>6

(* What a run makes of the name another run looks at: an entry that is     *)
(* there changes only under the cleanup of a run, and then it goes.        *)
LEMMA AtKept ==
  ASSUME TypeInv, NEW r \in Runs, RunStep(r), NEW n \in Names, At(n) # NoFile
  PROVE  \/ Deletes(r) /\ n = target[r] /\ target[r] \in Artifacts /\ UNCHANGED out
         \/ At(n)' = At(n) /\ Cur' = Cur
<1>1. Cur # NoDir /\ Cur \in DirIds /\ Present # {} /\ UNCHANGED parent
  BY RunOutput, OutputFacts DEF At, Cur, Present
<1>2. ~Claims(r) /\ ~Removes(r)
  BY <1>1 DEF Claims, Removes
<1>3. UNCHANGED out /\ Cur' = Cur
  BY <1>1, <1>2, RunOutput DEF Cur
<1>4. CASE UNCHANGED dirs
  BY <1>1, <1>3, <1>4 DEF At
<1>5. ASSUME NEW m \in Names, Adds(r, m)
      PROVE  At(n)' = At(n)
  <2>1. m # n /\ dirs' = [dirs EXCEPT ![Cur][m] = r]
    BY <1>5 DEF Adds
  <2>2. dirs'[Cur][n] = dirs[Cur][n]
    BY <1>1, <2>1, OutputFacts
  <2>3. QED
    BY <1>1, <1>3, <2>2 DEF At
<1>6. CASE Deletes(r)
  <2>1. target[r] \in Artifacts /\ dirs' = [dirs EXCEPT ![Cur][target[r]] = NoFile]
    BY <1>6, OutputFacts DEF Deletes
  <2>2. n # target[r] => dirs'[Cur][n] = dirs[Cur][n]
    BY <1>1, <2>1, OutputFacts
  <2>3. QED
    BY <1>1, <1>3, <1>6, <2>1, <2>2 DEF At
<1>7. QED
  BY <1>2, <1>3, <1>4, <1>5, <1>6, RunOutput

LEMMA RunUnlink ==
  ASSUME OutputInv, NEW r \in Runs, RunStep(r)
  PROVE  UnlinkOK'
<1>1. TypeInv /\ OwnDirOK /\ UnlinkOK /\ UNCHANGED <<parent, moved>>
  BY RunOutput DEF OutputInv, IInv
<1>2. SUFFICES ASSUME NoneMoved, NEW q \in Runs, pc'[q] = "unlink"
               PROVE  At(target[q])' # NoFile /\ At(target[q])' = published'[q][target'[q]]
  BY <1>1 DEF UnlinkOK, NoneMoved
<1>3. CASE q = r
  <2>1. PICK a \in Artifacts : CleanCheck(r, a) /\ target'[r] = a /\ At(a) # NoFile /\ At(a) = published[r][a]
    BY <1>1, <1>2, <1>3, OwnFrame
  <2>2. UNCHANGED <<parent, out, dirs, published>>
    BY <2>1 DEF CleanCheck, fsVars
  <2>3. QED
    BY <1>3, <2>1, <2>2 DEF At, Cur
<1>4. CASE q # r
  <2>1. pc[q] = "unlink" /\ target'[q] = target[q] /\ published'[q] = published[q]
    BY <1>1, <1>2, <1>4, OthersFrame
  <2>2. /\ At(target[q]) # NoFile /\ At(target[q]) = published[q][target[q]] /\ Cur = q
        /\ target[q] \in Names
    BY <1>1, <1>2, <2>1, OutputFacts, Apart DEF UnlinkOK, OwnDirOK
  <2>3. ~Deletes(r)
    BY <1>1, <1>2, <1>4, <2>2 DEF OwnDirOK, Deletes
  <2>4. \A n \in Names : At(n) # NoFile => At(n)' = At(n)
    BY <1>1, <2>3, AtKept
  <2>5. ASSUME NEW n \in Names, n = target[q]
        PROVE  At(target[q])' = At(target[q])
    BY <2>1, <2>2, <2>4, <2>5 DEF At
  <2>6. QED
    BY <2>1, <2>2, <2>5
<1>5. QED
  BY <1>3, <1>4

(* Between the claim and the last rehash no other run gets at the entries. *)
LEMMA RunEntry ==
  ASSUME OutputInv, NEW r \in Runs, RunStep(r)
  PROVE  EntryOK'
<1>1. TypeInv /\ OwnDirOK /\ EntryOK /\ UNCHANGED <<parent, moved>>
  BY RunOutput DEF OutputInv, IInv
<1>2. ASSUME NEW q \in Runs, pc'[q] \in {"claim", "pin"}
      PROVE  done'[q] = {}
  <2>1. CASE q # r
    BY <1>1, <1>2, <2>1, OthersFrame DEF EntryOK
  <2>2. CASE q = r
    BY <1>1, <1>2, <2>2, OutputFacts, SMTT(30)
    DEF EntryOK, RunStep, Goto, Labels, Terminal, sourceVars, fsVars, runVars,
      Prepare, Validate, EnterPublish, Claim, PinOutput, CheckLinked, BeginInputCheck, Recheck,
      CreateManifest, FillManifest, ReadBack, CleanDir, CleanUnlink, CleanEmpty, CleanRmdir, Stop,
      Interrupt, OpenSource, VerifySource, VerifyStaged, Link, HashPublished, CleanCheck, WriteChunk
  <2>3. QED
    BY <2>1, <2>2
<1>3. SUFFICES ASSUME NoneMoved, NoneSwapped, NEW q \in Runs
               PROVE  /\ pc'[q] \in {"link", "hash"} => Cur' = q
                      /\ pc'[q] = "link" => \A a \in done'[q] : At(a)' = q
                      /\ pc'[q] = "hash" =>
                           \A a \in Artifacts : At(a)' = q /\ (a \in done'[q] => published'[q][a] = q)
                      /\ pc'[q] \in {"inputs", "guard", "clean", "unlink", "commit", "fill"} =>
                           \A a \in Artifacts : published'[q][a] = q
  BY <1>1, <1>2 DEF EntryOK, NoneMoved, NoneSwapped
<1>4. CASE q # r
  <2>1. /\ pc'[q] = pc[q] /\ done'[q] = done[q] /\ published'[q] = published[q]
        /\ done[q] \in SUBSET Artifacts
    BY <1>1, <1>4, OthersFrame, OutputFacts
  <2>2. ASSUME Cur = q
        PROVE  Cur' = q /\ \A a \in Artifacts : At(a) = q => At(a)' = q
    <3>1. ~Claims(r) /\ ~Removes(r) /\ ~Deletes(r)
      BY <1>1, <1>3, <1>4, <2>2, Apart DEF Claims, Removes, Deletes, OwnDirOK
    <3>2. Cur' = q
      BY <1>1, <2>2, <3>1, RunOutput DEF Cur
    <3>3. QED
      BY <1>1, <3>1, <3>2, AtKept, Apart
  <2>3. QED
    BY <1>1, <1>3, <2>1, <2>2 DEF EntryOK
<1>5. CASE q = r /\ pc'[r] = "link"
  <2>1. PinOutput(r) \/ \E a \in Artifacts : Link(r, a)
    BY <1>1, <1>5, OutputFacts
    DEF RunStep, Goto, Labels, Terminal, sourceVars, fsVars, runVars,
      Prepare, Validate, EnterPublish, Claim, PinOutput, CheckLinked, BeginInputCheck, Recheck,
      CreateManifest, FillManifest, ReadBack, CleanDir, CleanUnlink, CleanEmpty, CleanRmdir, Stop,
      Interrupt, OpenSource, VerifySource, VerifyStaged, Link, HashPublished, CleanCheck, WriteChunk
  <2>2. CASE PinOutput(r)
    <3>1. pc[r] = "pin" /\ UNCHANGED <<out, done>>
      BY <2>2 DEF PinOutput, fsVars
    <3>2. QED
      BY <1>1, <1>3, <1>5, <3>1 DEF EntryOK, OwnDirOK, Cur
  <2>3. ASSUME NEW a \in Artifacts, Link(r, a)
        PROVE  Cur' = r /\ \A b \in done'[r] : At(b)' = r
    <3>1. /\ pc[r] = "link" /\ UNCHANGED <<parent, out>> /\ At(a) = NoFile
          /\ dirs' = [dirs EXCEPT ![Cur][a] = r] /\ done'[r] = done[r] \cup {a}
      BY <1>1, <1>5, <2>3, OutputFacts DEF Link, Handled, Goto
    <3>2. Cur = r /\ Cur' = r /\ \A b \in done[r] : At(b) = r
      BY <1>1, <1>3, <3>1 DEF EntryOK, Cur
    <3>3. /\ dirs'[r][a] = r
          /\ \A b \in Names : b # a => dirs'[r][b] = dirs[r][b]
      BY <1>1, <3>1, <3>2, OutputFacts, Apart
    <3>4. \A b \in done[r] : b \in Names /\ dirs[r][b] = r
      BY <1>1, <3>2, OutputFacts, Apart DEF At
    <3>5. QED
      BY <3>1, <3>2, <3>3, <3>4, Apart DEF At
  <2>4. QED
    BY <1>5, <2>1, <2>2, <2>3
<1>6. CASE q = r /\ pc'[r] = "hash"
  <2>1. CheckLinked(r) \/ \E a \in Artifacts : HashPublished(r, a)
    BY <1>1, <1>6, OutputFacts
    DEF RunStep, Goto, Labels, Terminal, sourceVars, fsVars, runVars,
      Prepare, Validate, EnterPublish, Claim, PinOutput, CheckLinked, BeginInputCheck, Recheck,
      CreateManifest, FillManifest, ReadBack, CleanDir, CleanUnlink, CleanEmpty, CleanRmdir, Stop,
      Interrupt, OpenSource, VerifySource, VerifyStaged, Link, HashPublished, CleanCheck, WriteChunk
  <2>2. CASE CheckLinked(r)
    <3>1. /\ pc[r] = "link" /\ done[r] = Artifacts /\ done'[r] = {}
          /\ UNCHANGED <<parent, out, dirs>>
      BY <1>1, <2>2, OutputFacts DEF CheckLinked, fsVars
    <3>2. QED
      BY <1>1, <1>3, <1>6, <3>1 DEF EntryOK, At, Cur
  <2>3. ASSUME NEW a \in Artifacts, HashPublished(r, a)
        PROVE  Cur' = r /\ \A b \in Artifacts : At(b)' = r /\ (b \in done'[r] => published'[r][b] = r)
    <3>1. /\ pc[r] = "hash" /\ UNCHANGED <<parent, out, dirs>> /\ done'[r] = done[r] \cup {a}
          /\ published' = [published EXCEPT ![r][a] = At(a)]
      BY <1>1, <1>6, <2>3, OutputFacts DEF HashPublished, Handled, Goto
    <3>2. published'[r][a] = At(a) /\ \A b \in Artifacts : b # a => published'[r][b] = published[r][b]
      BY <1>1, <3>1, OutputFacts
    <3>3. Cur = r /\ \A b \in Artifacts : At(b) = r /\ (b \in done[r] => published[r][b] = r)
      BY <1>1, <1>3, <3>1 DEF EntryOK
    <3>4. QED
      BY <3>1, <3>2, <3>3 DEF At, Cur
  <2>4. QED
    BY <1>6, <2>1, <2>2, <2>3
<1>7. CASE q = r /\ pc'[r] \in {"inputs", "guard", "clean", "unlink", "commit", "fill"}
  <2>1. /\ \/ pc[r] \in {"inputs", "guard", "clean", "unlink", "commit", "fill"}
           \/ pc[r] = "hash" /\ done[r] = Artifacts
        /\ UNCHANGED published
    BY <1>1, <1>7, OutputFacts
    DEF RunStep, Goto, Labels, Terminal, sourceVars, fsVars, runVars,
      Prepare, Validate, EnterPublish, Claim, PinOutput, CheckLinked, BeginInputCheck, Recheck,
      CreateManifest, FillManifest, ReadBack, CleanDir, CleanUnlink, CleanEmpty, CleanRmdir, Stop,
      Interrupt, OpenSource, VerifySource, VerifyStaged, Link, HashPublished, CleanCheck, WriteChunk
  <2>2. QED
    BY <1>1, <1>3, <1>7, <2>1 DEF EntryOK
<1>8. QED
  BY <1>4, <1>5, <1>6, <1>7

LEMMA RunOwnDir ==
  ASSUME OutputInv, NEW r \in Runs, RunStep(r)
  PROVE  OwnDirOK'
<1>1. TypeInv /\ OwnDirOK /\ UNCHANGED <<parent, moved>>
  BY RunOutput DEF OutputInv, IInv
<1>2. SUFFICES ASSUME NoneMoved, NEW q \in Runs
               PROVE  /\ pc'[q] \in {"pin", "clean", "unlink", "rmdir"} => Cur' = q
                      /\ pc'[q] \in {"link", "hash", "inputs", "guard", "commit", "fill"} => outId'[q] = q
  BY <1>1 DEF OwnDirOK, NoneMoved
<1>3. CASE q # r
  <2>1. pc'[q] = pc[q] /\ outId'[q] = outId[q]
    BY <1>1, <1>3, OthersFrame
  <2>2. ASSUME Cur = q
        PROVE  Cur' = q
    <3>1. ~Claims(r)
      BY <2>2, Apart DEF Claims
    <3>2. ~Removes(r)
      BY <1>1, <1>2, <1>3, <2>2 DEF Removes, OwnDirOK
    <3>3. QED
      BY <1>1, <2>2, <3>1, <3>2, RunOutput DEF Cur
  <2>3. QED
    BY <1>1, <1>2, <2>1, <2>2 DEF OwnDirOK
<1>4. CASE q = r /\ pc'[r] = "pin"
  BY <1>1, <1>4, OwnFrame, OutputFacts DEF Claims, Cur
<1>5. CASE q = r /\ pc'[r] \in {"link", "hash", "inputs", "guard"}
  BY <1>1, <1>2, <1>5, OwnFrame DEF OwnDirOK
<1>6. CASE q = r /\ pc'[r] \in {"clean", "unlink", "rmdir"}
  <2>1. Cur = r
    <3>1. CASE CleanDir(r)
      BY <1>1, <1>2, <1>6, <3>1, OutputFacts DEF OwnDirOK, CleanDir, Goto
    <3>2. ~CleanDir(r) => pc[r] \in {"clean", "unlink"}
      BY <1>1, <1>6, OwnFrame DEF CleanCheck, Deletes, CleanEmpty
    <3>3. QED
      BY <1>1, <1>2, <3>1, <3>2 DEF OwnDirOK
  <2>2. ~Claims(r)
    BY <2>1, Apart DEF Claims
  <2>3. ~Removes(r)
    BY <1>1, <1>6, OwnFrame DEF Removes, CleanDir, CleanCheck, Deletes, CleanEmpty
  <2>4. QED
    BY <1>1, <1>6, <2>1, <2>2, <2>3, RunOutput DEF Cur
<1>7. CASE q = r /\ pc'[r] \in {"commit", "fill"}
  <2>1. pc[r] \in {"inputs", "commit"} /\ outId'[r] = outId[r]
    <3>1. Recheck(r) => pc[r] = "inputs" /\ outId'[r] = outId[r]
      BY DEF Recheck, runVars
    <3>2. QED
      BY <1>1, <1>7, <3>1, OwnFrame DEF runLocal
  <2>2. QED
    BY <1>1, <1>2, <1>7, <2>1 DEF OwnDirOK
<1>8. QED
  BY <1>3, <1>4, <1>5, <1>6, <1>7

(* A chunk is written once: what was staged is not staged again.           *)
LEMMA ReadKept ==
  ASSUME TypeInv, NEW r \in Runs, RunStep(r)
  PROVE  \A q \in Runs, a \in Artifacts, s \in Sources :
           read[q][a][s] # NoData => read'[q][a][s] = read[q][a][s]
<1>1. ASSUME NEW b \in Artifacts, NEW t \in Sources, WriteChunk(r, b, t)
      PROVE  \A q \in Runs, a \in Artifacts, s \in Sources :
               read[q][a][s] # NoData => read'[q][a][s] = read[q][a][s]
  BY <1>1, TypeFacts DEF WriteChunk
<1>2. QED
  BY <1>1, RunFrame

(* What has the bytes of a staged artifact keeps them.                     *)
LEMMA SameKept ==
  ASSUME TypeInv, NEW r \in Runs, RunStep(r), NEW q \in Runs, NEW a \in Artifacts, Staged(q, a), NEW f,
         SameBytes(q, a, f)
  PROVE  /\ f \in Runs \cup Copies /\ a \notin tampered'[f]
         /\ \A s \in Sources : read'[q][a][s] = IF f \in Runs THEN read'[f][a][s] ELSE Good
<1>1. f \in Runs \cup Copies /\ a \notin tampered'[f]
  BY RunOutput DEF SameBytes
<1>2. ASSUME NEW s \in Sources
      PROVE  read'[q][a][s] = IF f \in Runs THEN read'[f][a][s] ELSE Good
  <2>1. read[q][a][s] # NoData /\ read[q][a][s] = IF f \in Runs THEN read[f][a][s] ELSE Good
    BY DEF Staged, SameBytes
  <2>2. read'[q][a][s] = read[q][a][s]
    BY <2>1, ReadKept
  <2>3. f \in Runs => read'[f][a][s] = read[f][a][s]
    BY <2>1, ReadKept
  <2>4. QED
    BY <2>1, <2>2, <2>3
<1>3. QED
  BY <1>1, <1>2

(* A rehash vouches for what it recorded.                                  *)
LEMMA RunHashed ==
  ASSUME OutputInv, NEW r \in Runs, RunStep(r)
  PROVE  HashedOK'
<1>1. TypeInv /\ StagedOK /\ HashedOK
  BY DEF OutputInv, IInv
<1>2. SUFFICES ASSUME NEW q \in Runs
               PROVE  /\ pc'[q] \in {"hash", "inputs"} =>
                           \A a \in done'[q] : a \notin touched'[q] => SameBytes(q, a, published[q][a])'
                      /\ pc'[q] = "inputs" => done'[q] = Artifacts
  BY DEF HashedOK
<1>3. ASSUME NEW a \in Artifacts, NEW f, SameBytes(q, a, f), pc[q] \in {"hash", "inputs"},
             published'[q][a] = f
      PROVE  SameBytes(q, a, published[q][a])'
  <2>1. Staged(q, a)
    BY <1>1, <1>3 DEF StagedOK, Reading
  <2>2. QED
    BY <1>1, <1>3, <2>1, SameKept DEF SameBytes
<1>4. CASE q # r
  <2>1. /\ pc'[q] = pc[q] /\ done'[q] = done[q] /\ touched'[q] = touched[q]
        /\ published'[q] = published[q] /\ done[q] \in SUBSET Artifacts
    BY <1>1, <1>4, OthersFrame, OutputFacts
  <2>2. ASSUME NEW a \in done[q], a \notin touched[q], pc[q] \in {"hash", "inputs"}
        PROVE  SameBytes(q, a, published[q][a])'
    BY <1>1, <1>3, <2>1, <2>2 DEF HashedOK
  <2>3. QED
    BY <1>1, <2>1, <2>2 DEF HashedOK
<1>5. CASE q = r /\ pc'[r] \in {"hash", "inputs"}
  <2>1. \/ CheckLinked(r) \/ BeginInputCheck(r) \/ \E s \in Sources : VerifySource(r, s)
        \/ \E a \in Artifacts : HashPublished(r, a)
    BY <1>1, <1>5, OutputFacts
    DEF RunStep, Goto, Labels, Terminal, sourceVars, fsVars, runVars,
      Prepare, Validate, EnterPublish, Claim, PinOutput, CheckLinked, BeginInputCheck, Recheck,
      CreateManifest, FillManifest, ReadBack, CleanDir, CleanUnlink, CleanEmpty, CleanRmdir, Stop,
      Interrupt, OpenSource, VerifySource, VerifyStaged, Link, HashPublished, CleanCheck, WriteChunk
  <2>2. CASE CheckLinked(r)
    BY <1>1, <1>5, <2>2, OutputFacts DEF CheckLinked, Goto
  <2>3. ASSUME BeginInputCheck(r) \/ \E s \in Sources : VerifySource(r, s)
        PROVE  /\ \A a \in done'[r] : a \notin touched'[r] => SameBytes(r, a, published[r][a])'
               /\ done'[r] = Artifacts
    <3>1. /\ pc[r] \in {"hash", "inputs"} /\ UNCHANGED <<done, touched, published>>
          /\ done[r] = Artifacts
      BY <1>1, <2>3 DEF BeginInputCheck, VerifySource, HashedOK, runVars, fsVars
    <3>2. \A a \in done[r] : a \notin touched[r] => SameBytes(r, a, published[r][a])
      BY <1>1, <3>1 DEF HashedOK
    <3>3. ASSUME NEW a \in Artifacts, a \notin touched[r]
          PROVE  SameBytes(r, a, published[r][a])'
      BY <1>3, <1>5, <3>1, <3>2, <3>3
    <3>4. QED
      BY <3>1, <3>3
  <2>4. ASSUME NEW a \in Artifacts, HashPublished(r, a)
        PROVE  /\ \A b \in done'[r] : b \notin touched'[r] => SameBytes(r, b, published[r][b])'
               /\ pc'[r] # "inputs"
    <3>1. pc[r] = "hash" /\ SameBytes(r, a, At(a)) /\ UNCHANGED pc
      BY <1>1, <1>5, <2>4, OutputFacts DEF HashPublished, Goto
    <3>2. /\ done'[r] = done[r] \cup {a} /\ touched'[r] = touched[r] \ {a}
          /\ published' = [published EXCEPT ![r][a] = At(a)]
      BY <1>1, <2>4, <3>1, OutputFacts DEF HashPublished, Handled, Goto
    <3>3. published'[r][a] = At(a) /\ \A b \in Artifacts : b # a => published'[r][b] = published[r][b]
      BY <1>1, <3>2, OutputFacts
    <3>4. SameBytes(r, a, published[r][a])'
      BY <1>3, <1>5, <3>1, <3>3
    <3>5. ASSUME NEW b \in Artifacts, b # a, b \in done[r], b \notin touched[r]
          PROVE  SameBytes(r, b, published[r][b])'
      <4>1. SameBytes(r, b, published[r][b])
        BY <1>1, <3>1, <3>5 DEF HashedOK
      <4>2. QED
        BY <1>3, <1>5, <3>1, <3>3, <3>5, <4>1
    <3>6. done[r] \in SUBSET Artifacts
      BY <1>1, OutputFacts
    <3>7. QED
      BY <3>1, <3>2, <3>4, <3>5, <3>6
  <2>5. QED
    BY <1>5, <2>1, <2>2, <2>3, <2>4
<1>6. QED
  BY <1>4, <1>5

(* An entry appears only by a link or as a manifest.                       *)
LEMMA AtNew ==
  ASSUME TypeInv, NEW r \in Runs, RunStep(r), Cur' = Cur,
         NEW n \in Names, At(n) = NoFile, At(n)' # NoFile
  PROVE  n \in Artifacts \cup {Manifest}
<1>1. Cur # NoDir /\ Cur \in DirIds /\ dirs[Cur][n] = NoFile /\ dirs'[Cur][n] # NoFile
  BY OutputFacts DEF At, Cur
<1>2. CASE Deletes(r)
  BY <1>1, <1>2, OutputFacts DEF Deletes
<1>3. ASSUME NEW m \in Names, Adds(r, m)
      PROVE  n = m
  BY <1>1, <1>3, OutputFacts DEF Adds
<1>4. QED
  BY <1>1, <1>2, <1>3, RunOutput DEF Adds

LEMMA RunWhole ==
  ASSUME OutputInv, NEW r \in Runs, RunStep(r)
  PROVE  WholeOK'
<1>1. /\ TypeInv /\ CheckedOK /\ CommitOK /\ OwnDirOK /\ HashedOK /\ WholeOK
      /\ UNCHANGED <<parent, tampered, moved>>
  BY RunOutput DEF OutputInv, IInv
<1>2. SUFFICES ASSUME NoneMoved, NEW q \in Runs, pc'[q] \in {"commit", "fill"},
                      "commit" \notin moved[q]
               PROVE  WholeSoFar(q)'
  BY <1>1 DEF WholeOK, NoneMoved
<1>3. CASE q = r /\ pc'[r] = "commit"
  <2>1. Recheck(r) /\ UNCHANGED <<parent, out, dirs, tampered, home, outId, published, read>>
    BY <1>1, <1>3, OwnFrame DEF Recheck, fsVars, runVars
  <2>2. pc[r] = "inputs" /\ OutputUnchanged(r)
    BY <1>1, <1>3, <2>1, OutputFacts DEF Recheck, Goto
  <2>3. \A a \in Artifacts : At(a) = published[r][a] /\ SameBytes(r, a, published[r][a])
    BY <1>1, <2>2 DEF HashedOK, OutputUnchanged
  <2>4. \A a \in Artifacts : At(a)' = published'[r][a] /\ SameBytes(r, a, published[r][a])'
    BY <2>1, <2>3 DEF SameBytes, At, Cur
  <2>5. QED
    BY <1>3, <2>1, <2>2, <2>4 DEF OutputUnchanged, WholeSoFar, Cur, At, Present
<1>4. ASSUME pc[q] \in {"commit", "fill"}, UNCHANGED <<home, outId, published>> \/ q # r,
             pc'[q] = "fill" => pc[q] = "fill" \/ Adds(r, Manifest)
      PROVE  WholeSoFar(q)'
  <2>1. WholeSoFar(q)
    BY <1>1, <1>2, <1>4 DEF WholeOK
  <2>2. home'[q] = home[q] /\ outId'[q] = outId[q] /\ published'[q] = published[q]
    BY <1>1, <1>4, OthersFrame
  <2>3. \A a \in Artifacts : At(a) # NoFile /\ At(a) = published[q][a] /\ SameBytes(q, a, published[q][a])
    BY <2>1, Apart DEF WholeSoFar, SameBytes
  <2>4. ~Deletes(r)
    <3>1. SUFFICES ASSUME Deletes(r)
                   PROVE  FALSE
      OBVIOUS
    <3>2. Cur = r /\ Cur = q /\ pc[r] = "unlink"
      BY <1>1, <1>2, <1>4, <2>1, <3>1 DEF Deletes, OwnDirOK, WholeSoFar
    <3>3. QED
      BY <1>4, <3>2
  <2>5. \A n \in Names : At(n) # NoFile => At(n)' = At(n) /\ Cur' = Cur
    BY <1>1, <2>4, AtKept
  <2>6. Cur' = Cur /\ \A a \in Artifacts : At(a)' = At(a)
    BY <2>3, <2>5, Apart, NativeExportAssumption
  <2>7. ASSUME NEW a \in Artifacts
         PROVE  At(a)' = published'[q][a] /\ SameBytes(q, a, published[q][a])'
    <3>1. Staged(q, a)
      BY <1>1, <1>4, NativeExportAssumption DEF CommitOK, CheckedOK, Staged
    <3>2. SameBytes(q, a, published[q][a]) /\ At(a)' = published'[q][a]
      BY <2>2, <2>3, <2>6
    <3>3. QED
      BY <1>1, <2>2, <3>1, <3>2, SameKept DEF SameBytes
  <2>8. \A n \in Names : At(n)' # NoFile => n \in Artifacts \cup {Manifest}
    BY <1>1, <2>1, <2>6, AtNew DEF WholeSoFar, Present
  <2>9. ASSUME pc'[q] = "fill"
        PROVE  At(Manifest)' # NoFile
    <3>1. CASE pc[q] = "fill"
      BY <2>1, <2>5, <3>1, Apart DEF WholeSoFar, At, Manifest
    <3>2. CASE Adds(r, Manifest)
      <4>1. Cur # NoDir /\ Cur \in DirIds /\ dirs' = [dirs EXCEPT ![Cur][Manifest] = r]
        BY <1>1, <3>2, OutputFacts DEF Adds, Cur
      <4>2. dirs'[Cur][Manifest] = r
        BY <1>1, <4>1, OutputFacts, Apart
      <4>3. QED
        BY <2>6, <4>1, <4>2, Apart DEF At, Manifest
    <3>3. QED
      BY <1>4, <2>9, <3>1, <3>2
  <2>10. QED
    BY <1>1, <2>1, <2>2, <2>6, <2>7, <2>8, <2>9 DEF WholeSoFar, Present
<1>5. CASE q = r /\ pc'[r] = "fill"
  BY <1>1, <1>4, <1>5, OwnFrame DEF runLocal
<1>6. CASE q # r
  BY <1>1, <1>2, <1>4, <1>6, OthersFrame
<1>7. QED
  BY <1>2, <1>3, <1>5, <1>6

-----------------------------------------------------------------------------
(* A step of anybody else keeps the invariant.                             *)

LEMMA ForeignOutput ==
  ASSUME OutputInv, ForeignStep
  PROVE  /\ SingleOK' /\ EarlyOK' /\ ClaimOK' /\ RecordOK' /\ SweepOK'
         /\ OwnDirOK' /\ UnlinkOK' /\ EntryOK' /\ HashedOK' /\ WholeOK'
<1>1. /\ TypeInv /\ SingleOK /\ EarlyOK /\ ClaimOK /\ RecordOK /\ SweepOK
      /\ OwnDirOK /\ UnlinkOK /\ EntryOK /\ HashedOK /\ WholeOK
  BY DEF OutputInv, IInv
<1>2. /\ UNCHANGED <<pc, done, outId, target, home, published, read>>
      /\ \A q \in Runs : moved'[q] = moved[q] \cup Window(q)
  BY <1>1, ForeignFrame
<1>3. \A q \in Runs : /\ Nowhere(q) => Nowhere(q)'
                      /\ \A a \in Artifacts : dirs[q][a] # q => dirs'[q][a] # q
  BY <1>1, ForeignFrame, Apart DEF Nowhere
<1>4. \A q \in Runs : Swept(q) => Swept(q)'
  BY <1>3 DEF Swept
<1>5. SingleOK' /\ EarlyOK'
  BY <1>1, <1>2, <1>3, <1>4, ForeignFrame, Apart DEF SingleOK, EarlyOK
<1>6. \A q \in Runs :
        /\ pc[q] = "pin" => "pin" \in moved'[q]
        /\ pc[q] \in {"link", "hash"} => "entry" \in moved'[q]
        /\ pc[q] = "hash" => "hash" \in moved'[q]
        /\ pc[q] \in {"clean", "unlink", "rmdir"} => "clean" \in moved'[q]
        /\ pc[q] \in {"commit", "fill"} => "commit" \in moved'[q]
        /\ moved[q] \subseteq moved'[q]
  BY <1>2 DEF Window
<1>7. ClaimOK'
  BY <1>1, <1>2, <1>3, <1>4, <1>6 DEF ClaimOK
<1>8. \A q \in Runs, a \in Artifacts : Recorded(q, a) => Recorded(q, a)'
  BY <1>2, <1>3 DEF Recorded
<1>9. RecordOK'
  BY <1>1, <1>2, <1>6, <1>8 DEF RecordOK
<1>10. SweepOK'
  BY <1>1, <1>2, <1>4, <1>6 DEF SweepOK
<1>11. (NoneMoved' => NoneMoved) /\ (NoneSwapped' => NoneSwapped)
  BY <1>6 DEF NoneMoved, NoneSwapped
<1>12. UnlinkOK' /\ WholeOK'
  BY <1>1, <1>2, <1>6, <1>11 DEF UnlinkOK, WholeOK, NoneMoved
<1>13. OwnDirOK'
  BY <1>1, <1>2, <1>6, <1>11 DEF OwnDirOK, NoneMoved
<1>14. EntryOK'
  <2>1. \A r \in Runs : pc'[r] \in {"claim", "pin"} => done'[r] = {}
    BY <1>1, <1>2 DEF EntryOK
  <2>2. ASSUME NoneMoved', NoneSwapped', NEW r \in Runs
        PROVE  /\ pc'[r] \notin {"link", "hash"}
               /\ pc'[r] \in {"inputs", "guard", "clean", "unlink", "commit", "fill"} =>
                    \A a \in Artifacts : published'[r][a] = r
    BY <1>1, <1>2, <1>6, <1>11, <2>2 DEF EntryOK, NoneSwapped
  <2>3. QED
    BY <2>1, <2>2 DEF EntryOK
<1>15. HashedOK'
  <2>1. SUFFICES ASSUME NEW q \in Runs, pc[q] \in {"hash", "inputs"}, NEW a \in done[q], a \notin touched'[q]
                 PROVE  SameBytes(q, a, published[q][a])'
    BY <1>1, <1>2 DEF HashedOK
  <2>2. a \in Artifacts
    BY <1>1, OutputFacts
  <2>3. /\ a \notin touched[q]
        /\ published[q][a] \in Files =>
             (a \in tampered'[published[q][a]] <=> a \in tampered[published[q][a]])
    BY <1>1, <2>1, <2>2, ForeignFrame
  <2>4. SameBytes(q, a, published[q][a])
    BY <1>1, <2>1, <2>3 DEF HashedOK
  <2>5. QED
    BY <1>2, <2>3, <2>4 DEF SameBytes, Files
<1>16. QED
  BY <1>5, <1>7, <1>9, <1>10, <1>12, <1>13, <1>14, <1>15

LEMMA InitOutputInv == Init => OutputInv
<1> SUFFICES ASSUME Init
             PROVE  OutputInv
  OBVIOUS
<1>1. \A r \in Runs : pc[r] = "idle" /\ Nowhere(r) /\ Swept(r)
  BY Apart DEF Init, Nowhere, Swept, NoEntries
<1>2. SingleOK
  BY <1>1 DEF SingleOK, Nowhere
<1>3. QED
  BY <1>1, <1>2, InitIInv
  DEF OutputInv, EarlyOK, ClaimOK, RecordOK, SweepOK, UnlinkOK, OwnDirOK, EntryOK, HashedOK, WholeOK

LEMMA OutputInvStep == OutputInv /\ [Next]_vars => OutputInv'
<1> SUFFICES ASSUME OutputInv, [Next]_vars
             PROVE  OutputInv'
  OBVIOUS
<1>1. IInv' /\ TypeInv
  BY IInvStep DEF OutputInv, IInv
<1>2. ASSUME NEW r \in Runs, RunStep(r)
      PROVE  OutputInv'
  BY <1>1, <1>2, RunEarly, RunClaim, RunRecord, RunSweep, RunUnlink, RunOwnDir, RunEntry, RunHashed, RunWhole
  DEF OutputInv
<1>3. CASE ForeignStep
  BY <1>1, <1>3, ForeignOutput DEF OutputInv
<1>4. CASE SourceStep \/ UNCHANGED vars
  <2>1. UNCHANGED <<parent, out, dirs, tampered, touched, moved, pc, done, outId, target, home, published, read>>
    BY <1>1, <1>4, SourceStepType DEF vars, fsVars, runVars
  <2>2. UNCHANGED <<NoneMoved, NoneSwapped>>
    BY <2>1 DEF NoneMoved, NoneSwapped
  <2>3. SingleOK' /\ EarlyOK' /\ ClaimOK' /\ RecordOK' /\ SweepOK'
    BY <2>1 DEF OutputInv, SingleOK, EarlyOK, ClaimOK, RecordOK, SweepOK, Recorded, Nowhere, Swept, Cur
  <2>4. UnlinkOK' /\ OwnDirOK' /\ EntryOK'
    BY <2>1, <2>2 DEF OutputInv, UnlinkOK, OwnDirOK, EntryOK, Cur, At
  <2>5. HashedOK' /\ WholeOK'
    BY <2>1, <2>2 DEF OutputInv, HashedOK, WholeOK, WholeSoFar, SameBytes, Cur, At, Present
  <2>6. QED
    BY <1>1, <2>3, <2>4, <2>5 DEF OutputInv
<1>5. QED
  BY <1>2, <1>3, <1>4 DEF Next

LEMMA OutputInvAlways == Spec => []OutputInv
BY InitOutputInv, OutputInvStep, PTL DEF Spec

-----------------------------------------------------------------------------
(* What the invariant gives.                                               *)

(* A cleanup that ran to its end undisturbed left none of its links: other *)
(* exports racing for the same path cannot make it leave one behind.       *)
THEOREM CleanupTakesAllBack == Spec => []CleanupComplete
<1>1. OutputInv => CleanupComplete
  BY DEF OutputInv, SweepOK, CleanupComplete, Swept
<1>2. QED
  BY <1>1, OutputInvAlways, PTL

(* A manifest is only completed over a whole output: every artifact with   *)
(* its planned bytes, whichever inode the rehash adopted, and nothing else,*)
(* unless an outsider interferes after the last recheck or has misled a    *)
(* claim or a cleanup.                                                     *)
THEOREM CommittedOutputIsWhole == Spec => CommitIsWhole
<1>1. ASSUME OutputInv, [Next]_vars
      PROVE  [\A r \in Runs :
                /\ manifest[r] = "partial" /\ manifest'[r] = "full"
                /\ "commit" \notin moved[r]
                /\ NoneMoved
                => WholeAtOutput(r)]_vars
  <2>1. SUFFICES ASSUME NEW r \in Runs, manifest[r] # "full", manifest'[r] = "full",
                        "commit" \notin moved[r], NoneMoved
                 PROVE  WholeAtOutput(r)
    OBVIOUS
  <2>2. TypeInv /\ CheckedOK /\ CommitOK /\ WholeOK /\ manifest \in [Runs -> {"none", "partial", "full"}]
    BY <1>1, TypeFacts DEF OutputInv, IInv
  <2>3. UNCHANGED manifest \/ \E q \in Runs : RunStep(q)
    BY <1>1, <2>2, SourceStepType, ForeignStepType DEF Next, vars, runVars
  <2>4. PICK q \in Runs : RunStep(q)
    BY <2>1, <2>3
  <2>5. FillManifest(r)
    BY <2>1, <2>2, <2>4, RunFrame DEF CreateManifest, FillManifest
  <2>6. pc[r] = "fill" /\ WholeSoFar(r) /\ At(Manifest) # NoFile
    BY <2>1, <2>2, <2>5 DEF FillManifest, WholeOK, WholeSoFar
  <2>7. ASSUME NEW a \in Artifacts
        PROVE  PlannedBytes(a, At(a)) /\ At(a) # NoFile
    <3>1. SameBytes(r, a, At(a))
      BY <2>6 DEF WholeSoFar
    <3>2. \A s \in Sources : read[r][a][s] = Good
      BY <2>2, <2>6 DEF CommitOK, CheckedOK
    <3>3. QED
      BY <3>1, <3>2, Apart DEF SameBytes, PlannedBytes
  <2>8. Present = Artifacts \cup {Manifest}
    BY <2>6, <2>7, Apart DEF WholeSoFar, Present
  <2>9. QED
    BY <2>6, <2>7, <2>8 DEF WholeSoFar, WholeAtOutput
<1>2. QED
  BY <1>1, OutputInvAlways, PTL DEF Spec, CommitIsWhole

(* Unless a claim or a cleanup was misled, a cleanup deletes only files    *)
(* its rehash recorded, in the directory its run created; and only links   *)
(* of its own if no entry was exchanged before a rehash, however many      *)
(* exports clean up around one another.                                    *)
THEOREM CleanupRemovesOnlyOwn == Spec => CleanupOnlyOwn
<1>1. ASSUME OutputInv, [Next]_vars
      PROVE  [\A r \in Runs : pc[r] \in {"unlink", "rmdir"} /\ pc'[r] # pc[r] /\ NoneMoved =>
                /\ \A d \in DirIds, n \in Names : dirs[d][n] # NoFile /\ dirs'[d][n] = NoFile =>
                     /\ d = r /\ n \in Artifacts /\ dirs[d][n] = published[r][n]
                     /\ NoneSwapped => dirs[d][n] = r
                /\ \A p \in Parents : out[p] # NoDir /\ out'[p] = NoDir => out[p] = r]_vars
  <2>1. SUFFICES ASSUME NEW r \in Runs, pc[r] \in {"unlink", "rmdir"}, pc'[r] # pc[r], NoneMoved
                 PROVE  /\ \A d \in DirIds, n \in Names : dirs[d][n] # NoFile /\ dirs'[d][n] = NoFile =>
                             /\ d = r /\ n \in Artifacts /\ dirs[d][n] = published[r][n]
                             /\ NoneSwapped => dirs[d][n] = r
                        /\ \A p \in Parents : out[p] # NoDir /\ out'[p] = NoDir => out[p] = r
    OBVIOUS
  <2>2. TypeInv /\ UnlinkOK /\ OwnDirOK /\ EntryOK
    BY <1>1 DEF OutputInv, IInv
  <2>3. \E q \in Runs : RunStep(q)
    BY <1>1, <2>1, <2>2, SourceStepType, ForeignStepType DEF Next, vars
  <2>4. RunStep(r)
    BY <2>1, <2>2, <2>3, OthersFrame
  <2>5. ~Claims(r) /\ \A n \in Names : ~Adds(r, n)
    BY <2>1 DEF Claims, Adds
  <2>6. ASSUME NEW d \in DirIds, NEW n \in Names, dirs[d][n] # NoFile, dirs'[d][n] = NoFile
        PROVE  /\ d = r /\ n \in Artifacts /\ dirs[d][n] = published[r][n]
               /\ NoneSwapped => dirs[d][n] = r
    <3>1. Deletes(r) /\ pc[r] = "unlink"
      BY <2>2, <2>4, <2>5, <2>6, RunOutput DEF Deletes
    <3>2. /\ At(target[r]) # NoFile /\ At(target[r]) = published[r][target[r]]
          /\ target[r] \in Artifacts /\ Cur = r
          /\ dirs' = [dirs EXCEPT ![Cur][target[r]] = NoFile]
      BY <2>1, <2>2, <3>1, OutputFacts DEF Deletes, UnlinkOK, OwnDirOK
    <3>3. d = r /\ n = target[r]
      BY <2>2, <2>6, <3>2, OutputFacts, Apart
    <3>4. dirs[d][n] = published[r][n]
      BY <3>2, <3>3, Apart DEF At
    <3>5. NoneSwapped => published[r][n] = r
      BY <2>1, <2>2, <3>1, <3>2, <3>3 DEF EntryOK
    <3>6. QED
      BY <3>2, <3>3, <3>4, <3>5
  <2>7. ASSUME NEW p \in Parents, out[p] # NoDir, out'[p] = NoDir
        PROVE  out[p] = r
    <3>1. Removes(r)
      BY <2>2, <2>4, <2>5, <2>7, RunOutput
    <3>2. Cur = r /\ out' = [out EXCEPT ![parent] = NoDir]
      BY <2>1, <2>2, <2>7, <3>1 DEF Removes, OwnDirOK
    <3>3. QED
      BY <2>2, <2>7, <3>2, OutputFacts DEF Cur
  <2>8. QED
    BY <2>6, <2>7
<1>2. QED
  BY <1>1, OutputInvAlways, PTL DEF Spec, CleanupOnlyOwn

-----------------------------------------------------------------------------
(* The exports among themselves, with no outsider at the output path,      *)
(* implement AtomicPublication: who has completed a manifest keeps the     *)
(* output path, so no second run ever reaches its commit.                  *)

Committing == {"readback", "published"}

ManifestOK ==
  \A r \in Runs :
    /\ pc[r] \in Committing => manifest[r] = "full"
    /\ manifest[r] = "full" => pc[r] \in Committing \cup {"failed"} /\ \A a \in Artifacts : At(a) = r

Undisturbed == foreign = 0 /\ \A q \in Runs : moved[q] = {}

AloneInv == OutputInv /\ ManifestOK /\ Undisturbed

LEMMA ManifestFrame ==
  ASSUME TypeInv, NEW r \in Runs, RunStep(r)
  PROVE  /\ \A q \in Runs \ {r} : manifest'[q] = manifest[q]
         /\ \/ manifest'[r] = manifest[r]
            \/ pc[r] = "commit" /\ pc'[r] = "fill" /\ manifest'[r] = "partial"
            \/ FillManifest(r) /\ pc[r] = "fill" /\ pc'[r] = "readback" /\ manifest'[r] = "full"
         /\ pc'[r] = "readback" => FillManifest(r)
         /\ pc'[r] = "published" => pc[r] = "readback"
         /\ pc[r] \in Committing \cup {"failed"} => pc'[r] \in Committing \cup {"failed"}
<1>1. pc \in [Runs -> Labels] /\ manifest \in [Runs -> {"none", "partial", "full"}]
  BY TypeFacts
<1>2. \/ UNCHANGED manifest
      \/ CreateManifest(r)
      \/ FillManifest(r)
  BY RunFrame
<1>3. /\ \A q \in Runs \ {r} : manifest'[q] = manifest[q]
      /\ \/ manifest'[r] = manifest[r]
         \/ pc[r] = "commit" /\ pc'[r] = "fill" /\ manifest'[r] = "partial"
         \/ FillManifest(r) /\ pc[r] = "fill" /\ pc'[r] = "readback" /\ manifest'[r] = "full"
  BY <1>1, <1>2 DEF CreateManifest, FillManifest, Goto
<1>4. pc'[r] = "readback" => FillManifest(r)
  BY <1>1, LabelFrame
<1>5. /\ pc'[r] = "published" => pc[r] = "readback"
      /\ pc[r] \in Committing \cup {"failed"} => pc'[r] \in Committing \cup {"failed"}
  BY <1>1
  DEF RunStep, Goto, Labels, Terminal, Committing, sourceVars, fsVars, runVars, Prepare, Validate,
    EnterPublish, Claim, PinOutput, CheckLinked, BeginInputCheck, Recheck, CreateManifest,
    FillManifest, ReadBack, CleanDir, CleanUnlink, CleanEmpty, CleanRmdir, Stop, Interrupt,
    OpenSource, VerifySource, VerifyStaged, Link, HashPublished, CleanCheck, WriteChunk
<1>6. QED
  BY <1>3, <1>4, <1>5

LEMMA RunManifest ==
  ASSUME AloneInv, NEW r \in Runs, RunStep(r)
  PROVE  ManifestOK'
<1>1. /\ TypeInv /\ UnlinkOK /\ EntryOK /\ WholeOK /\ ManifestOK
      /\ NoneMoved /\ NoneSwapped /\ \A q \in Runs : moved[q] = {}
  BY DEF AloneInv, OutputInv, IInv, Undisturbed, NoneMoved, NoneSwapped
<1>2. SUFFICES ASSUME NEW q \in Runs
               PROVE  /\ pc'[q] \in Committing => manifest'[q] = "full"
                      /\ manifest'[q] = "full" =>
                           pc'[q] \in Committing \cup {"failed"} /\ \A a \in Artifacts : At(a)' = q
  BY DEF ManifestOK
<1>3. ASSUME \A a \in Artifacts : At(a) = q, q # r \/ pc[r] # "unlink"
      PROVE  \A a \in Artifacts : At(a)' = q
  <2>1. ~Deletes(r)
    <3>1. SUFFICES ASSUME Deletes(r)
                   PROVE  FALSE
      OBVIOUS
    <3>2. pc[r] = "unlink" /\ target[r] \in Artifacts /\ At(target[r]) = r
      BY <1>1, <3>1, OutputFacts DEF Deletes, UnlinkOK, EntryOK
    <3>3. QED
      BY <1>3, <3>2
  <2>2. QED
    BY <1>1, <1>3, <2>1, AtKept, Apart
<1>4. CASE q # r
  <2>1. pc'[q] = pc[q] /\ manifest'[q] = manifest[q]
    BY <1>1, <1>4, OthersFrame, ManifestFrame
  <2>2. QED
    BY <1>1, <1>3, <1>4, <2>1 DEF ManifestOK
<1>5. CASE q = r
  <2>1. pc'[r] \in Committing => manifest'[r] = "full"
    <3>1. pc'[r] = "readback" => manifest'[r] = "full"
      BY <1>1, ManifestFrame, TypeFacts DEF FillManifest
    <3>2. pc'[r] = "published" => manifest'[r] = "full"
      BY <1>1, ManifestFrame DEF ManifestOK, Committing
    <3>3. QED
      BY <3>1, <3>2 DEF Committing
  <2>2. CASE manifest'[r] = "full" /\ manifest[r] = "full"
    BY <1>1, <1>3, <1>5, <2>1, <2>2, ManifestFrame DEF ManifestOK, Committing
  <2>3. CASE manifest'[r] = "full" /\ manifest[r] # "full"
    <3>1. FillManifest(r) /\ pc[r] = "fill" /\ pc'[r] = "readback"
      BY <1>1, <2>3, ManifestFrame
    <3>2. \A a \in Artifacts : At(a) = r
      BY <1>1, <3>1 DEF WholeOK, WholeSoFar, EntryOK
    <3>3. QED
      BY <1>3, <1>5, <2>1, <3>1, <3>2 DEF Committing
  <2>4. QED
    BY <1>5, <2>1, <2>2, <2>3
<1>6. QED
  BY <1>4, <1>5

LEMMA AloneInvStep ==
  ASSUME MaxForeign = 0
  PROVE  AloneInv /\ [Next]_vars => AloneInv'
<1> SUFFICES ASSUME AloneInv, [Next]_vars
             PROVE  AloneInv'
  OBVIOUS
<1>1. OutputInv' /\ TypeInv
  BY OutputInvStep DEF AloneInv, OutputInv, IInv
<1>2. ~ForeignStep
  BY DEF AloneInv, Undisturbed, ForeignStep, ForeignDirectory, ForeignEntry, ForeignParent,
         ForeignBytes, Disturb
<1>3. ASSUME NEW r \in Runs, RunStep(r)
      PROVE  AloneInv'
  <2>1. UNCHANGED foreign
    BY <1>3
    DEF RunStep, sourceVars, fsVars, runVars, Prepare, Validate, EnterPublish, Claim, PinOutput,
      CheckLinked, BeginInputCheck, Recheck, CreateManifest, FillManifest, ReadBack, CleanDir,
      CleanUnlink, CleanEmpty, CleanRmdir, Stop, Interrupt, OpenSource, VerifySource,
      VerifyStaged, Link, HashPublished, CleanCheck, WriteChunk
  <2>2. QED
    BY <1>1, <1>3, <2>1, RunManifest, RunOutput DEF AloneInv, Undisturbed
<1>4. CASE SourceStep \/ UNCHANGED vars
  <2>1. UNCHANGED <<fsVars, pc, manifest>>
    BY <1>1, <1>4, SourceStepType DEF vars, runVars
  <2>2. QED
    BY <1>1, <2>1 DEF AloneInv, ManifestOK, Undisturbed, At, Cur, fsVars
<1>5. QED
  BY <1>2, <1>3, <1>4 DEF Next

(* Two completed manifests would both hold every artifact of the output.   *)
LEMMA WinnerIs ==
  ASSUME ManifestOK
  PROVE  /\ \A r \in Runs : manifest[r] = "full" => Winner = r
         /\ (\A r \in Runs : manifest[r] # "full") => Winner = NoRun
<1>1. \A r, q \in Runs : manifest[r] = "full" /\ manifest[q] = "full" => r = q
  BY NativeExportAssumption DEF ManifestOK
<1>2. QED
  BY <1>1 DEF Winner

LEMMA ExportRefines ==
  ASSUME AloneInv, AloneInv', NEW r \in Runs, RunStep(r)
  PROVE  [Publication!Next]_(Publication!vars)
<1>1. TypeInv /\ EntryOK /\ WholeOK /\ ManifestOK /\ ManifestOK' /\ NoneMoved /\ NoneSwapped /\ moved[r] = {}
  BY DEF AloneInv, OutputInv, IInv, Undisturbed, NoneMoved, NoneSwapped
<1>2. \A q \in Runs \ {r} : pc'[q] = pc[q] /\ manifest'[q] = manifest[q]
  BY <1>1, OthersFrame, ManifestFrame
<1>3. /\ \A q \in Runs : manifest'[q] = "full" => Winner' = q
      /\ (\A q \in Runs : manifest'[q] # "full") => Winner' = NoRun
  <2>1. \A q, p \in Runs : manifest'[q] = "full" /\ manifest'[p] = "full" => q = p
    BY <1>1, NativeExportAssumption DEF ManifestOK
  <2>2. QED
    BY <2>1 DEF Winner
<1>4. CASE FillManifest(r)
  <2>1. pc[r] = "fill" /\ pc'[r] = "readback" /\ manifest'[r] = "full"
    BY <1>1, <1>4, TypeFacts DEF FillManifest, Goto
  <2>2. \A q \in Runs : manifest[q] # "full"
    <3>1. \A a \in Artifacts : At(a) = r
      BY <1>1, <2>1 DEF WholeOK, WholeSoFar, EntryOK
    <3>2. manifest[r] # "full"
      BY <1>1, <2>1 DEF ManifestOK, Committing
    <3>3. QED
      BY <1>1, <3>1, <3>2, NativeExportAssumption DEF ManifestOK
  <2>3. Winner = NoRun /\ Winner' = r
    BY <1>1, <1>3, <2>1, <2>2, WinnerIs
  <2>4. UNCHANGED Outcome
    BY <1>2, <2>1 DEF Outcome
  <2>5. Outcome[r] = "running"
    BY <2>1 DEF Outcome
  <2>6. QED
    BY <2>3, <2>4, <2>5 DEF Publication!Next, Publication!Commit
<1>5. CASE ~FillManifest(r)
  <2>1. \A q \in Runs : manifest'[q] = "full" <=> manifest[q] = "full"
    <3>1. pc[r] = "commit" => manifest[r] # "full"
      BY <1>1 DEF ManifestOK, Committing
    <3>2. QED
      BY <1>1, <1>2, <1>5, <3>1, ManifestFrame
  <2>2. UNCHANGED Winner
    BY <1>1, <1>3, <2>1, WinnerIs
  <2>3. CASE pc'[r] = pc[r]
    <3>1. UNCHANGED Outcome
      BY <1>2, <2>3 DEF Outcome
    <3>2. QED
      BY <2>2, <3>1 DEF Publication!vars
  <2>4. CASE pc'[r] = "published" /\ pc[r] # "published"
    <3>1. pc[r] = "readback" /\ Winner = r
      BY <1>1, <2>4, ManifestFrame, WinnerIs DEF ManifestOK, Committing
    <3>2. Outcome[r] = "running" /\ Outcome' = [Outcome EXCEPT ![r] = "published"]
      BY <1>2, <2>4, <3>1 DEF Outcome
    <3>3. QED
      BY <2>2, <3>1, <3>2 DEF Publication!Next, Publication!Succeed
  <2>5. CASE pc'[r] \in {"failed", "cleaned"} /\ pc[r] \notin Terminal
    <3>1. Outcome[r] = "running" /\ Outcome' = [Outcome EXCEPT ![r] = "refused"]
      BY <1>2, <2>5 DEF Outcome, Terminal
    <3>2. QED
      BY <2>2, <3>1 DEF Publication!Next, Publication!Refuse
  <2>6. CASE pc'[r] \notin Terminal /\ pc[r] \notin Terminal
    <3>1. UNCHANGED Outcome
      BY <1>2, <2>6 DEF Outcome, Terminal
    <3>2. QED
      BY <2>2, <3>1 DEF Publication!vars
  <2>7. pc[r] \in Terminal => pc'[r] = pc[r]
    BY <1>1, TypeFacts
    DEF RunStep, Goto, Labels, Terminal, sourceVars, fsVars, runVars, Prepare, Validate,
      EnterPublish, Claim, PinOutput, CheckLinked, BeginInputCheck, Recheck, CreateManifest,
      FillManifest, ReadBack, CleanDir, CleanUnlink, CleanEmpty, CleanRmdir, Stop, Interrupt,
      OpenSource, VerifySource, VerifyStaged, Link, HashPublished, CleanCheck, WriteChunk
  <2>8. QED
    BY <2>3, <2>4, <2>5, <2>6, <2>7 DEF Terminal
<1>6. QED
  BY <1>4, <1>5

(* Any number of exports aimed at one path, crashing and interrupted at    *)
(* will while their sources change, and nobody else at the path: at most   *)
(* one commits, nothing takes its commit back, and a call reports success  *)
(* only for its own commit.                                                *)
THEOREM ExportsPublishAtomically ==
  ASSUME MaxForeign = 0
  PROVE  Spec => PublishesAtomically
<1>1. Init => AloneInv
  BY InitOutputInv DEF Init, AloneInv, ManifestOK, Committing, Undisturbed
<1>2. Init => Publication!Init
  BY DEF Init, Publication!Init, Winner, Outcome
<1>3. AloneInv /\ AloneInv' /\ [Next]_vars => [Publication!Next]_(Publication!vars)
  <2> SUFFICES ASSUME AloneInv, AloneInv', [Next]_vars
               PROVE  [Publication!Next]_(Publication!vars)
    OBVIOUS
  <2>1. CASE \E r \in Runs : RunStep(r)
    BY <2>1, ExportRefines
  <2>2. CASE SourceStep \/ ForeignStep \/ UNCHANGED vars
    <3>1. UNCHANGED <<pc, manifest>>
      BY <2>2, SourceStepType, ForeignStepType DEF AloneInv, OutputInv, IInv, vars, runVars
    <3>2. UNCHANGED Winner
      BY <3>1 DEF Winner
    <3>3. UNCHANGED Outcome
      BY <3>1 DEF Outcome
    <3>4. QED
      BY <3>2, <3>3 DEF Publication!vars
  <2>3. QED
    BY <2>1, <2>2 DEF Next
<1>4. QED
  BY <1>1, <1>2, <1>3, AloneInvStep, PTL DEF Spec, PublishesAtomically, Publication!Spec
=============================================================================
