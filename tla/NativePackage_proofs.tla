------------------------ MODULE NativePackage_proofs ------------------------
(***************************************************************************)
(* Proofs about NativePackage, for any number of components, files,        *)
(* materializations, publications, validations and changes by others.      *)
(***************************************************************************)
EXTENDS NativePackage, TLAPS

-----------------------------------------------------------------------------
(* The inductive invariant.  A publication past its write of a file has    *)
(* the whole file in its stage, and exclusive creation keeps it whole; the *)
(* output path, once it names a stage, names it for good; so a second      *)
(* rename would need an output path that names no stage.                   *)

PubType ==
  /\ ppc \in [Pubs -> PubLabels]
  /\ handle \in [Pubs -> Mats \cup {NoMat}]
  /\ renamed \in [Pubs -> BOOLEAN]
  /\ index \in [Mats -> StageStates]
  /\ manifest \in [Mats -> StageStates]
  /\ output \in Mats \cup {"absent", "empty", "foreign"}

Publishing == {"hash", "manifest", "check", "rename"}

HandleOK == \A p \in Pubs : ppc[p] \in Publishing => handle[p] \in Mats

WrittenOK ==
  \A p \in Pubs :
    /\ ppc[p] \in {"manifest", "check", "rename"} => index[handle[p]] = "full"
    /\ ppc[p] \in {"check", "rename"} => manifest[handle[p]] = "full"

RenamedOK ==
  /\ \A p \in Pubs : renamed[p] =>
       output \in Mats /\ output = handle[p] /\ ppc[p] \in {"renamed", "published", "failed"}
  /\ \A p, q \in Pubs : renamed[p] /\ renamed[q] => p = q
  /\ \A p \in Pubs : ppc[p] \in {"renamed", "published"} => renamed[p]

OutputOK == output \in Mats => \E p \in Pubs : renamed[p] /\ handle[p] = output

IInv == PubType /\ HandleOK /\ WrittenOK /\ NoPartialPackage /\ RenamedOK /\ OutputOK

-----------------------------------------------------------------------------
(* What the steps of everybody but the publications leave alone.           *)

LEMMA ReceiptFrame ==
  ASSUME \/ \E c \in Components, d \in Dirs, tool \in Tools : HashComponent(c, d, tool)
         \/ \E c \in Components : VerifyUnchanged(c)
         \/ Plan
  PROVE  UNCHANGED <<ppc, handle, renamed, index, manifest, output>>
BY DEF HashComponent, VerifyUnchanged, Plan, pubVars, diskVars

LEMMA MatFrame ==
  ASSUME NEW m \in Mats, MatStep(m)
  PROVE  UNCHANGED <<ppc, handle, renamed, index, manifest, output>>
BY DEF MatStep, Prepare, VerifySources, MakeStage, CopyFile, FinishStage, pubVars, diskVars

LEMMA ReadFrame ==
  ASSUME NEW v \in Readers, ReadStep(v)
  PROVE  UNCHANGED <<ppc, handle, renamed, index, manifest, output>>
BY DEF ReadStep, ReadIndex, ReadManifest, CheckCensus, HashPackaged, Accept, pubVars, diskVars

(* Others touch neither index nor manifest, and use the output path only   *)
(* while it names no package.                                              *)
LEMMA OtherFrame ==
  ASSUME OtherStep
  PROVE  /\ UNCHANGED <<ppc, handle, renamed, index, manifest>>
         /\ output' # output => output \notin Mats /\ output' \in {"absent", "empty", "foreign"}
BY DEF OtherStep, Others, WriteSource, ReplaceSource, EditStage, EditManifest, RemoveStage, UseOutput

(* A step of one publication leaves the others where they are, writes only *)
(* files that do not exist, and renames only over no package.              *)
LEMMA PubFrame ==
  ASSUME PubType, HandleOK, NEW p \in Pubs, PubStep(p)
  PROVE  /\ PubType'
         /\ \A q \in Pubs \ {p} :
              ppc'[q] = ppc[q] /\ handle'[q] = handle[q] /\ renamed'[q] = renamed[q]
         /\ \A m \in Mats : index[m] = "full" => index'[m] = "full"
         /\ \A m \in Mats : manifest[m] = "full" => manifest'[m] = "full"
<1>1. CASE \E m \in Mats : BeginPublish(p, m)
  BY <1>1 DEF PubType, BeginPublish, PGoto, PubLabels, diskVars
<1>2. CASE (\E t \in Targets : HashStaged(p, t)) \/ CheckOutput(p) \/ Publish(p)
  BY <1>2 DEF PubType, HashStaged, CheckOutput, Publish, PGoto, PubLabels, diskVars
<1>3. CASE WriteIndex(p)
  BY <1>3 DEF PubType, WriteIndex, PGoto, PubLabels, StageStates
<1>4. CASE WriteManifest(p)
  BY <1>4 DEF PubType, WriteManifest, PGoto, PubLabels, StageStates
<1>5. CASE Rename(p)
  <2>1. handle[p] \in Mats
    BY <1>5 DEF Rename, HandleOK, Publishing
  <2>2. PubType'
    BY <1>5, <2>1 DEF PubType, Rename, PGoto, PubLabels
  <2>3. QED
    BY <1>5, <2>2 DEF PubType, Rename, PGoto
<1>6. QED
  BY <1>1, <1>2, <1>3, <1>4, <1>5 DEF PubStep

-----------------------------------------------------------------------------
(* The invariant.                                                          *)

LEMMA InitIInv == Init => IInv
BY NativePackageAssumption
DEF Init, IInv, PubType, HandleOK, Publishing, WrittenOK, NoPartialPackage, RenamedOK,
    OutputOK, PubLabels, StageStates

LEMMA PubHandle ==
  ASSUME IInv, NEW p \in Pubs, PubStep(p)
  PROVE  HandleOK'
<1>1. ppc'[p] \in Publishing => handle'[p] \in Mats
  <2>1. CASE \E m \in Mats : BeginPublish(p, m)
    BY <2>1 DEF IInv, PubType, BeginPublish
  <2>2. CASE ~\E m \in Mats : BeginPublish(p, m)
    <3>1. ppc[p] \in Publishing \/ ppc'[p] \notin Publishing
      BY <2>2 DEF PubStep, IInv, PubType, WriteIndex, WriteManifest, CheckOutput, Rename,
                  Publish, HashStaged, PGoto, Publishing
    <3>2. UNCHANGED handle
      BY <2>2 DEF PubStep, WriteIndex, WriteManifest, CheckOutput, Rename, Publish, HashStaged
    <3>3. QED
      BY <3>1, <3>2 DEF IInv, HandleOK
  <2>3. QED
    BY <2>1, <2>2
<1>2. QED
  BY <1>1, PubFrame DEF IInv, HandleOK

(* A publication gets past a write only with the file whole.               *)
LEMMA PubWritten ==
  ASSUME IInv, NEW p \in Pubs, PubStep(p)
  PROVE  WrittenOK'
<1>1. /\ ppc'[p] \in {"manifest", "check", "rename"} => index'[handle'[p]] = "full"
      /\ ppc'[p] \in {"check", "rename"} => manifest'[handle'[p]] = "full"
  <2>1. CASE WriteIndex(p)
    BY <2>1 DEF IInv, PubType, HandleOK, Publishing, WriteIndex, PGoto
  <2>2. CASE WriteManifest(p)
    BY <2>2 DEF IInv, PubType, HandleOK, Publishing, WrittenOK, WriteManifest, PGoto
  <2>3. CASE CheckOutput(p)
    BY <2>3 DEF IInv, PubType, WrittenOK, CheckOutput, PGoto, diskVars
  <2>4. CASE Rename(p) \/ Publish(p)
    BY <2>4 DEF IInv, PubType, Rename, Publish, PGoto
  <2>5. CASE \E m \in Mats : BeginPublish(p, m)
    BY <2>5 DEF IInv, PubType, BeginPublish, PGoto
  <2>6. CASE \E t \in Targets : HashStaged(p, t)
    BY <2>6 DEF IInv, PubType, HashStaged, PGoto
  <2>7. QED
    BY <2>1, <2>2, <2>3, <2>4, <2>5, <2>6 DEF PubStep
<1>2. ASSUME NEW q \in Pubs \ {p}
      PROVE  /\ ppc'[q] \in {"manifest", "check", "rename"} => index'[handle'[q]] = "full"
             /\ ppc'[q] \in {"check", "rename"} => manifest'[handle'[q]] = "full"
  <2>1. ppc'[q] = ppc[q] /\ handle'[q] = handle[q]
    BY PubFrame DEF IInv
  <2>2. ppc[q] \in {"manifest", "check", "rename"} => handle[q] \in Mats
    BY DEF IInv, HandleOK, Publishing
  <2>3. QED
    BY <2>1, <2>2, PubFrame DEF IInv, WrittenOK
<1>3. QED
  BY <1>1, <1>2 DEF WrittenOK

LEMMA PubOutput ==
  ASSUME IInv, NEW p \in Pubs, PubStep(p)
  PROVE  NoPartialPackage' /\ RenamedOK' /\ OutputOK'
<1>1. CASE Rename(p) /\ output' # output
  <2>1. /\ ppc[p] = "rename" /\ handle[p] \in Mats
        /\ output \notin Mats
        /\ output' = handle[p]
        /\ renamed' = [renamed EXCEPT ![p] = TRUE]
        /\ ppc' = [ppc EXCEPT ![p] = "renamed"]
        /\ UNCHANGED <<handle, index, manifest>>
    BY <1>1, NativePackageAssumption
    DEF Rename, RenameAllowed, PGoto, IInv, HandleOK, Publishing
  <2>2. NoPartialPackage'
    BY <2>1 DEF IInv, WrittenOK, NoPartialPackage
  <2>3. \A q \in Pubs : ~renamed[q]
    BY <2>1 DEF IInv, RenamedOK
  <2>4. RenamedOK'
    BY <2>1, <2>3 DEF IInv, PubType, RenamedOK
  <2>5. OutputOK'
    BY <2>1 DEF IInv, PubType, OutputOK
  <2>6. QED
    BY <2>2, <2>4, <2>5
<1>2. CASE ~(Rename(p) /\ output' # output)
  <2>1. UNCHANGED <<output, renamed>>
    <3>1. CASE Rename(p)
      BY <1>2, <3>1, NativePackageAssumption
      DEF Rename, RenameAllowed, IInv, HandleOK, Publishing
    <3>2. CASE ~Rename(p)
      BY <3>2 DEF PubStep, BeginPublish, HashStaged, WriteIndex, WriteManifest, CheckOutput,
                  Publish, diskVars
    <3>3. QED
      BY <3>1, <3>2
  <2>2. NoPartialPackage'
    BY <2>1, PubFrame DEF IInv, PubType, NoPartialPackage
  <2>3. /\ renamed[p] => ppc'[p] \in {"renamed", "published", "failed"} /\ handle'[p] = handle[p]
        /\ ppc'[p] \in {"renamed", "published"} => ppc[p] = "renamed"
    BY <1>2, NativePackageAssumption
    DEF IInv, PubType, RenamedOK, HandleOK, Publishing, PubStep, BeginPublish, HashStaged, WriteIndex,
        WriteManifest, CheckOutput, Rename, RenameAllowed, Publish, PGoto
  <2>4. RenamedOK'
    BY <2>1, <2>3, PubFrame DEF IInv, RenamedOK
  <2>5. OutputOK'
    BY <2>1, <2>3, PubFrame DEF IInv, OutputOK
  <2>6. QED
    BY <2>2, <2>4, <2>5
<1>3. QED
  BY <1>1, <1>2

LEMMA IInvStep == IInv /\ [Next]_vars => IInv'
<1> SUFFICES ASSUME IInv, [Next]_vars
             PROVE  IInv'
  OBVIOUS
<1>1. ASSUME NEW p \in Pubs, PubStep(p)
      PROVE  IInv'
  BY <1>1, PubFrame, PubHandle, PubWritten, PubOutput DEF IInv
<1>2. ASSUME UNCHANGED <<ppc, handle, renamed, index, manifest, output>>
      PROVE  IInv'
  BY <1>2 DEF IInv, PubType, HandleOK, WrittenOK, NoPartialPackage, RenamedOK, OutputOK
<1>3. CASE OtherStep
  <2>1. /\ UNCHANGED <<ppc, handle, renamed, index, manifest>>
        /\ output' # output => output \notin Mats /\ output' \in {"absent", "empty", "foreign"}
    BY <1>3, OtherFrame
  <2>2. CASE output' = output
    BY <1>2, <2>1, <2>2
  <2>3. CASE output' # output
    <3>1. output' \notin Mats /\ \A p \in Pubs : ~renamed[p]
      BY <2>1, <2>3, NativePackageAssumption DEF IInv, RenamedOK
    <3>2. QED
      BY <2>1, <2>3, <3>1 DEF IInv, PubType, HandleOK, WrittenOK, NoPartialPackage, RenamedOK, OutputOK
  <2>4. QED
    BY <2>2, <2>3
<1>4. CASE UNCHANGED vars
  BY <1>2, <1>4 DEF vars, pubVars, diskVars
<1>5. QED
  BY <1>1, <1>2, <1>3, <1>4, ReceiptFrame, MatFrame, ReadFrame DEF Next

(* No kill, failed write or race ever shows a package without its whole    *)
(* index and its whole manifest.                                           *)
THEOREM NeverPartial == Spec => []NoPartialPackage
<1>1. IInv => NoPartialPackage
  BY DEF IInv
<1>2. QED
  BY <1>1, InitIInv, IInvStep, PTL DEF Spec

-----------------------------------------------------------------------------
(* The refinement.  The rename is the commit point; every other step of a  *)
(* publication reports, refuses or stutters, and nobody else's is seen.    *)

LEMMA WinnerIsRenamed ==
  ASSUME RenamedOK, NEW p \in Pubs, renamed[p]
  PROVE  Winner = p
BY DEF RenamedOK, Winner

LEMMA OutcomeStep ==
  ASSUME IInv, NEW p \in Pubs, PubStep(p)
  PROVE  Outcome' = [Outcome EXCEPT ![p] = Told(ppc'[p])]
<1>1. \A q \in Pubs \ {p} : ppc'[q] = ppc[q]
  BY PubFrame DEF IInv
<1>2. Outcome' = [q \in Pubs |-> Told(ppc'[q])]
  BY DEF Outcome
<1>3. QED
  BY <1>1, <1>2 DEF Outcome

LEMMA PubRefines ==
  ASSUME IInv, NEW p \in Pubs, PubStep(p)
  PROVE  [Publication!Next]_(Publication!vars)
<1>1. Outcome' = [Outcome EXCEPT ![p] = Told(ppc'[p])] /\ Outcome[p] = Told(ppc[p])
  BY OutcomeStep DEF Outcome
<1>2. CASE Rename(p) /\ output' # output
  <2>1. /\ ppc[p] = "rename" /\ ppc'[p] = "renamed"
        /\ output \notin Mats
        /\ renamed' = [renamed EXCEPT ![p] = TRUE]
    BY <1>2, NativePackageAssumption DEF Rename, RenameAllowed, PGoto, IInv, PubType
  <2>2. Winner = NoPub
    BY <2>1 DEF IInv, RenamedOK, Winner
  <2>3. renamed'[p] /\ \A q \in Pubs : renamed'[q] => q = p
    BY <2>1 DEF IInv, PubType, RenamedOK
  <2>4. Winner' = p
    BY <2>3 DEF Winner
  <2>5. Outcome[p] = "running" /\ Outcome' = Outcome
    BY <1>1, <2>1 DEF Told, Outcome
  <2>6. QED
    BY <2>2, <2>4, <2>5 DEF Publication!Next, Publication!Commit
<1>3. CASE ~(Rename(p) /\ output' # output)
  <2>1. UNCHANGED renamed
    <3>1. CASE Rename(p)
      BY <1>3, <3>1, NativePackageAssumption
      DEF Rename, RenameAllowed, IInv, HandleOK, Publishing
    <3>2. CASE ~Rename(p)
      BY <3>2 DEF PubStep, BeginPublish, HashStaged, WriteIndex, WriteManifest, CheckOutput, Publish
    <3>3. QED
      BY <3>1, <3>2
  <2>2. Winner' = Winner
    BY <2>1 DEF Winner
  <2>3. /\ ppc[p] \notin {"published", "failed"}
        /\ ppc'[p] = "published" => ppc[p] = "renamed"
    BY <1>3 DEF IInv, PubType, PubStep, BeginPublish, HashStaged, WriteIndex, WriteManifest,
                CheckOutput, Rename, Publish, PGoto
  <2>4. CASE ppc'[p] = "published"
    <3>1. renamed[p]
      BY <2>3, <2>4 DEF IInv, RenamedOK
    <3>2. Winner = p
      BY <3>1, WinnerIsRenamed DEF IInv
    <3>3. QED
      BY <1>1, <2>2, <2>3, <2>4, <3>2 DEF Told, Publication!Next, Publication!Succeed
  <2>5. CASE ppc'[p] = "failed"
    BY <1>1, <2>2, <2>3, <2>5 DEF Told, Publication!Next, Publication!Refuse
  <2>6. CASE ppc'[p] \notin {"published", "failed"}
    <3>1. Outcome' = Outcome
      BY <1>1, <2>3, <2>6 DEF Told, Outcome
    <3>2. QED
      BY <2>2, <3>1 DEF Publication!vars
  <2>7. QED
    BY <2>4, <2>5, <2>6
<1>4. QED
  BY <1>2, <1>3

(* At most one publication of an output ever commits, nothing undoes it,   *)
(* and none reports success but for its own commit, whatever others do to  *)
(* sources, stages and the output path meanwhile.                          *)
THEOREM RefinesPublication == Spec => PublishesAtomically
<1>1. Init => Publication!Init
  BY DEF Init, Publication!Init, Winner, Outcome, Told
<1>2. IInv /\ [Next]_vars => [Publication!Next]_(Publication!vars)
  <2> SUFFICES ASSUME IInv, [Next]_vars
               PROVE  [Publication!Next]_(Publication!vars)
    OBVIOUS
  <2>1. ASSUME NEW p \in Pubs, PubStep(p)
        PROVE  [Publication!Next]_(Publication!vars)
    BY <2>1, PubRefines
  <2>2. ASSUME UNCHANGED <<ppc, renamed>>
        PROVE  [Publication!Next]_(Publication!vars)
    BY <2>2 DEF Publication!vars, Winner, Outcome
  <2>3. QED
    BY <2>1, <2>2, ReceiptFrame, MatFrame, ReadFrame, OtherFrame DEF Next, vars, pubVars
<1>3. QED
  BY <1>1, <1>2, InitIInv, IInvStep, PTL DEF Spec, PublishesAtomically, Publication!Spec

-----------------------------------------------------------------------------
(* The data.  Once the plan exists the receipts it is made of stay; a call *)
(* that has a handle has it of a finished stage, which no call changes any *)
(* more; what a publication has hashed is the plan's unless others changed *)
(* it since; what a validation has hashed is the plan's.                   *)

PlanOK ==
  /\ planned = "yes" => \A c \in Components : rpc[c] = "done"
  /\ \A c \in Components : rpc[c] \in {"hashed", "done"} => receipts[c] \in Receipt
  /\ \A m \in Mats : mpc[m] # "idle" => planned = "yes"
  /\ \A p \in Pubs : ppc[p] # "idle" => handle[p] \in Mats /\ mpc[handle[p]] = "staged"
  /\ \A v \in Readers : vpc[v] # "idle" => reading[v] \in Mats

PlanInv == TypeOK /\ PlanOK

(* What publication p has hashed is the plan's, and its stage has no file  *)
(* the plan does not have.                                                 *)
Intact(p) ==
  /\ Census(handle[p]) \subseteq Files
  /\ \A t \in hashed[p] : Bytes(t, stage[handle[p]]) = Planned(t)

HashedOK(p) ==
  /\ ppc[p] = "idle" => hashed[p] = {}
  /\ ppc[p] \in Publishing => hashed[p] \subseteq Files /\ (~late[p] => Intact(p))
  /\ ppc[p] \in Publishing \ {"hash"} => hashed[p] = Files

SeenOK(v) ==
  /\ vpc[v] \in {"idle", "manifest"} => seen[v] = EmptyStage
  /\ vpc[v] # "idle" =>
       /\ planned = "yes"
       /\ \E p \in Pubs : renamed[p] /\ handle[p] = reading[v]
       /\ \A t \in Targets : seen[v][t] \in {NoFile, record[v][t]}
  /\ vpc[v] \in {"census", "hash", "accepted"} => reading[v] \in relisted \/ record[v] = PlannedFiles
  /\ vpc[v] = "accepted" => \A t \in Recorded(v) : seen[v][t] # NoFile

(* A whole manifest lists the plan's files unless others have rewritten    *)
(* it.                                                                     *)
ListedOK(m) ==
  manifest[m] = "full" => planned = "yes" /\ (m \in relisted \/ listed[m] = PlannedFiles)

DataInv ==
  /\ \A p \in Pubs : HashedOK(p)
  /\ \A v \in Readers : SeenOK(v)
  /\ \A m \in Mats : ListedOK(m)

LEMMA InitPlan == Init => PlanInv /\ DataInv
<1> SUFFICES ASSUME Init PROVE PlanInv /\ DataInv
  OBVIOUS
<1> USE NativePackageAssumption DEF Init
<1>1. TypeOK
  <2>1. PICK c \in Contents :
          tree = [d \in Dirs |-> [n \in Names |-> IF n \in Delivered THEN c ELSE NoFile]]
    OBVIOUS
  <2>2. tree \in [Dirs -> Tree]
    BY <2>1 DEF Tree
  <2>3. EmptyStage \in [Targets -> Entry \cup {NoFile}] /\ EmptyStage \in FileLists
    BY DEF EmptyStage, FileLists
  <2>4. QED
    BY <2>2, <2>3 DEF TypeOK, MatLabels, PubLabels, ReadLabels, StageStates
<1>2. PlanOK
  BY DEF PlanOK
<1>3. DataInv
  BY DEF DataInv, HashedOK, SeenOK, ListedOK, Publishing
<1>4. QED
  BY <1>1, <1>2, <1>3 DEF PlanInv

-----------------------------------------------------------------------------
(* Types, receipts and handles, step by step.                              *)

LEMMA PlanReceipt ==
  ASSUME PlanInv,
         \/ \E c \in Components, d \in Dirs, tool \in Tools : HashComponent(c, d, tool)
         \/ \E c \in Components : VerifyUnchanged(c)
         \/ Plan
  PROVE  PlanInv' /\ (planned = "yes" => UNCHANGED <<receipts, planned>>)
<1>0. UNCHANGED <<matVars, diskVars, pubVars, readVars, changes>>
  BY DEF HashComponent, VerifyUnchanged, Plan
<1>1. UNCHANGED <<mpc, verified, tree, place, stage, index, manifest, listed, relisted, output, ppc, handle, hashed,
                  renamed, late, vpc, reading, record, seen, changes>>
  BY <1>0 DEF matVars, diskVars, listVars, pubVars, readVars
<1>2. ASSUME NEW c \in Components, NEW d \in Dirs, NEW tool \in Tools, HashComponent(c, d, tool)
      PROVE  PlanInv' /\ planned # "yes"
  <2> DEFINE new == [dir |-> d, tool |-> tool, files |-> tree[d]]
  <2>1. new \in Receipt
    BY DEF PlanInv, TypeOK, Receipt
  <2>2. rpc[c] = "idle" /\ planned # "yes" /\ UNCHANGED planned
    BY <1>2 DEF HashComponent, PlanInv, PlanOK
  <2>3. \/ receipts' = [receipts EXCEPT ![c] = new] /\ rpc' = [rpc EXCEPT ![c] = "hashed"]
        \/ receipts' = receipts /\ rpc' = [rpc EXCEPT ![c] = "refused"]
    BY <1>2 DEF HashComponent
  <2> HIDE DEF new
  <2>4. TypeOK'
    BY <1>1, <2>1, <2>2, <2>3 DEF PlanInv, TypeOK
  <2>5. PlanOK'
    BY <1>1, <2>1, <2>2, <2>3 DEF PlanInv, TypeOK, PlanOK
  <2>6. QED
    BY <2>2, <2>4, <2>5 DEF PlanInv
<1>3. ASSUME NEW c \in Components, VerifyUnchanged(c)
      PROVE  PlanInv' /\ UNCHANGED <<receipts, planned>>
  <2>1. PICK label \in {"done", "refused"} :
          rpc' = [rpc EXCEPT ![c] = label] /\ rpc[c] = "hashed" /\ UNCHANGED <<receipts, planned>>
    BY <1>3 DEF VerifyUnchanged
  <2>2. QED
    BY <1>1, <2>1 DEF PlanInv, TypeOK, PlanOK
<1>4. CASE Plan
  <2>1. /\ UNCHANGED <<rpc, receipts>> /\ planned = "no" /\ planned' \in {"yes", "refused"}
        /\ planned' = "yes" => \A c \in Components : rpc[c] = "done"
    BY <1>4 DEF Plan
  <2>2. QED
    BY <1>1, <2>1 DEF PlanInv, TypeOK, PlanOK
<1>5. QED
  BY <1>2, <1>3, <1>4

(* A target of the plan has a receipt, and its digest is of some bytes.    *)
LEMMA PlannedType ==
  ASSUME PlanInv, planned = "yes", NEW t \in Targets
  PROVE  /\ t[1] \in Components /\ t[2] \in Names /\ receipts[t[1]] \in Receipt
         /\ Planned(t) \in Contents \cup {NoFile}
<1>1. t[1] \in Components /\ t[2] \in Names
  BY DEF Targets
<1>2. receipts[t[1]] \in Receipt
  BY <1>1 DEF PlanInv, PlanOK
<1>3. QED
  BY <1>1, <1>2 DEF Planned, Receipt, Tree

LEMMA PlanMat ==
  ASSUME PlanInv, NEW m \in Mats, MatStep(m)
  PROVE  PlanInv' /\ UNCHANGED <<receipts, planned>>
<1>1. UNCHANGED <<rpc, receipts, planned, tree, index, manifest, listed, relisted, output, ppc, handle, hashed,
                  renamed, late, vpc, reading, record, seen, changes>>
  BY DEF MatStep, Prepare, VerifySources, MakeStage, CopyFile, FinishStage, receiptVars, diskVars, listVars, pubVars,
         readVars
<1>2. /\ mpc' \in [Mats -> MatLabels] /\ \A q \in Mats \ {m} : mpc'[q] = mpc[q]
      /\ mpc[m] # "staged" /\ planned = "yes"
  <2>1. mpc \in [Mats -> MatLabels] /\ (mpc[m] # "idle" => planned = "yes")
    BY DEF PlanInv, TypeOK, PlanOK
  <2>2. PICK label \in MatLabels : mpc' = mpc \/ mpc' = [mpc EXCEPT ![m] = label]
    BY DEF MatStep, Prepare, VerifySources, MakeStage, CopyFile, FinishStage, MGoto, MatLabels
  <2>3. mpc[m] # "staged" /\ (mpc[m] = "idle" => planned = "yes")
    BY DEF MatStep, Prepare, VerifySources, MakeStage, CopyFile, FinishStage
  <2>4. QED
    BY <2>1, <2>2, <2>3
<1>3. verified' \in [Mats -> SUBSET Components] /\ place' \in [Mats -> {"none", "stage", "output", "gone"}]
  <2>1. CASE \E c \in Components : VerifySources(m, c)
    BY SMTT(30), <2>1 DEF VerifySources, PlanInv, TypeOK, diskVars
  <2>2. CASE ~\E c \in Components : VerifySources(m, c)
    BY <2>2 DEF MatStep, Prepare, MakeStage, CopyFile, FinishStage, PlanInv, TypeOK, diskVars
  <2>3. QED
    BY <2>1, <2>2
<1>4. stage' \in [Mats -> [Targets -> Entry \cup {NoFile}]]
  <2>1. ASSUME NEW t \in Targets, CopyFile(m, t), stage' # stage
        PROVE  stage' \in [Mats -> [Targets -> Entry \cup {NoFile}]]
    <3> DEFINE d    == receipts[t[1]].dir
               data == tree[d][t[2]]
               new  == [data |-> data, from |-> IF m \in Reusing /\ d \in Local THEN d ELSE Private]
    <3>1. d \in Dirs /\ t[2] \in Names
      BY <1>2, PlannedType DEF Receipt
    <3>2. data # NoFile /\ stage' = [stage EXCEPT ![m][t] = new]
      BY <2>1 DEF CopyFile
    <3>3. new \in Entry
      BY <3>1, <3>2 DEF PlanInv, TypeOK, Tree, Entry
    <3> HIDE DEF new
    <3>4. QED
      BY <3>2, <3>3 DEF PlanInv, TypeOK
  <2>2. CASE stage' = stage
    BY <2>2 DEF PlanInv, TypeOK
  <2>3. QED
    BY <2>1, <2>2 DEF MatStep, Prepare, VerifySources, MakeStage, FinishStage, diskVars
<1>5. TypeOK'
  BY <1>1, <1>2, <1>3, <1>4 DEF PlanInv, TypeOK
<1>6. PlanOK'
  BY <1>1, <1>2 DEF PlanInv, PlanOK
<1>7. QED
  BY <1>1, <1>5, <1>6 DEF PlanInv

(* Only the step that writes a manifest lists files, and it lists the      *)
(* plan's.                                                                 *)
LEMMA ListedStep ==
  ASSUME PlanInv, NEW p \in Pubs, PubStep(p)
  PROVE  /\ listed' \in [Mats -> FileLists]
         /\ \A m \in Mats : manifest'[m] = "full" =>
              \/ manifest[m] = "full" /\ listed'[m] = listed[m]
              \/ planned = "yes" /\ listed'[m] = PlannedFiles
<1>1. CASE WriteManifest(p)
  <2>1. handle[p] \in Mats /\ planned = "yes"
    BY <1>1 DEF WriteManifest, PlanInv, PlanOK
  <2>2. PlannedFiles \in FileLists
    BY <2>1, PlannedType DEF PlannedFiles, FileLists
  <2>3. \/ /\ manifest[handle[p]] = "none"
           /\ manifest' = [manifest EXCEPT ![handle[p]] = "full"]
           /\ listed' = [listed EXCEPT ![handle[p]] = PlannedFiles]
        \/ manifest' = [manifest EXCEPT ![handle[p]] = "partial"] /\ UNCHANGED listed
        \/ UNCHANGED <<manifest, listed>>
    BY <1>1 DEF WriteManifest, FilesListed
  <2>4. manifest \in [Mats -> StageStates] /\ listed \in [Mats -> FileLists]
    BY DEF PlanInv, TypeOK
  <2>5. QED
    BY <2>1, <2>2, <2>3, <2>4
<1>2. CASE ~WriteManifest(p)
  <2>1. UNCHANGED <<manifest, listed>>
    BY <1>2 DEF PubStep, BeginPublish, HashStaged, WriteIndex, CheckOutput, Rename, Publish, diskVars, listVars
  <2>2. QED
    BY <2>1 DEF PlanInv, TypeOK
<1>3. QED
  BY <1>1, <1>2

LEMMA PlanPub ==
  ASSUME PlanInv, IInv, NEW p \in Pubs, PubStep(p)
  PROVE  PlanInv' /\ UNCHANGED <<receipts, planned>>
<1>1. UNCHANGED <<rpc, receipts, planned, mpc, verified, tree, stage, relisted, late, vpc, reading, record, seen,
                  changes>>
  BY DEF PubStep, BeginPublish, HashStaged, WriteIndex, WriteManifest, CheckOutput, Rename, Publish, receiptVars,
         matVars, diskVars, listVars, readVars
<1>2. PubType'
  BY PubFrame DEF IInv
<1>3. place' \in [Mats -> {"none", "stage", "output", "gone"}]
  <2>1. place' = place \/ place' = [place EXCEPT ![handle[p]] = "output"]
    BY DEF PubStep, BeginPublish, HashStaged, WriteIndex, WriteManifest, CheckOutput, Rename, Publish, diskVars
  <2>2. QED
    BY <2>1 DEF PlanInv, TypeOK
<1>4. hashed' \in [Pubs -> SUBSET Targets]
  <2>1. CASE \E t \in Targets : HashStaged(p, t)
    <3>1. PICK t \in Targets : HashStaged(p, t)
      BY <2>1
    <3>2. hashed' = hashed \/ hashed' = [hashed EXCEPT ![p] = @ \cup {t}]
      BY <3>1 DEF HashStaged
    <3>3. hashed \in [Pubs -> SUBSET Targets]
      BY DEF PlanInv, TypeOK
    <3>4. QED
      BY <3>2, <3>3
  <2>2. CASE ~\E t \in Targets : HashStaged(p, t)
    BY <2>2 DEF PubStep, BeginPublish, WriteIndex, WriteManifest, CheckOutput, Rename, Publish, PlanInv, TypeOK
  <2>3. QED
    BY <2>1, <2>2
<1>5. TypeOK'
  BY <1>1, <1>2, <1>3, <1>4, ListedStep DEF PlanInv, TypeOK, PubType
<1>6. ASSUME NEW q \in Pubs, ppc'[q] # "idle"
      PROVE  handle'[q] \in Mats /\ mpc'[handle'[q]] = "staged"
  <2>1. CASE q # p
    BY <1>1, <1>6, <2>1, PubFrame DEF IInv, PlanInv, PlanOK
  <2>2. CASE q = p /\ \E m \in Mats : BeginPublish(p, m)
    BY <1>1, <2>2 DEF BeginPublish, PlanInv, TypeOK
  <2>3. CASE q = p /\ ~\E m \in Mats : BeginPublish(p, m)
    <3>1. ppc[p] # "idle" /\ UNCHANGED handle
      BY <2>3 DEF PubStep, HashStaged, WriteIndex, WriteManifest, CheckOutput, Rename, Publish
    <3>2. QED
      BY <1>1, <2>3, <3>1 DEF PlanInv, PlanOK
  <2>4. QED
    BY <2>1, <2>2, <2>3
<1>7. PlanOK'
  BY <1>1, <1>6 DEF PlanInv, PlanOK
<1>8. QED
  BY <1>1, <1>5, <1>7 DEF PlanInv

LEMMA PlanRead ==
  ASSUME PlanInv, NEW v \in Readers, ReadStep(v)
  PROVE  PlanInv' /\ UNCHANGED <<receipts, planned>>
<1>1. UNCHANGED <<rpc, receipts, planned, mpc, verified, tree, place, stage, index, manifest, listed, relisted, output,
                  ppc, handle, hashed, renamed, late, changes>>
  BY DEF ReadStep, ReadIndex, ReadManifest, CheckCensus, HashPackaged, Accept, receiptVars, matVars, diskVars,
         listVars, pubVars
<1>2. vpc' \in [Readers -> ReadLabels] /\ reading' \in [Readers -> Mats \cup {NoMat}]
  BY DEF ReadStep, ReadIndex, ReadManifest, CheckCensus, HashPackaged, Accept, VGoto, PlanInv, TypeOK, ReadLabels
<1>3. seen' \in [Readers -> FileLists]
  <2>1. ASSUME NEW t \in Targets, HashPackaged(v, t), seen' # seen
        PROVE  seen' \in [Readers -> FileLists]
    <3>1. /\ seen' = [seen EXCEPT ![v][t] = stage[reading[v]][t].data]
          /\ record[v][t] # NoFile /\ Bytes(t, stage[reading[v]]) = record[v][t]
      BY <2>1 DEF HashPackaged, Recorded
    <3>2. seen' = [seen EXCEPT ![v][t] = record[v][t]]
      BY <3>1 DEF Bytes
    <3>3. record[v] \in FileLists /\ seen \in [Readers -> FileLists]
      BY DEF PlanInv, TypeOK
    <3>4. record[v][t] \in Contents \cup {NoFile}
      BY <3>3 DEF FileLists
    <3>5. QED
      BY <3>2, <3>3, <3>4 DEF FileLists
  <2>2. CASE seen' = seen
    BY <2>2 DEF PlanInv, TypeOK
  <2>3. QED
    BY <2>1, <2>2 DEF ReadStep, ReadIndex, ReadManifest, CheckCensus, Accept
<1>4. record' \in [Readers -> FileLists]
  <2>1. CASE ReadManifest(v) /\ record' # record
    <3>1. vpc[v] = "manifest" /\ record' = [record EXCEPT ![v] = listed[reading[v]]]
      BY <2>1 DEF ReadManifest
    <3>2. reading[v] \in Mats
      BY <3>1 DEF PlanInv, PlanOK
    <3>3. QED
      BY <3>1, <3>2 DEF PlanInv, TypeOK
  <2>2. CASE record' = record
    BY <2>2 DEF PlanInv, TypeOK
  <2>3. QED
    BY <2>1, <2>2 DEF ReadStep, ReadIndex, HashPackaged, CheckCensus, Accept
<1>5. TypeOK'
  BY <1>1, <1>2, <1>3, <1>4 DEF PlanInv, TypeOK
<1>6. \A w \in Readers : vpc'[w] # "idle" => reading'[w] \in Mats
  <2>1. CASE ReadIndex(v)
    BY <2>1 DEF ReadIndex, VGoto, PlanInv, TypeOK, PlanOK
  <2>2. CASE ~ReadIndex(v)
    <3>1. UNCHANGED reading /\ vpc[v] # "idle"
      BY <2>2 DEF ReadStep, ReadManifest, CheckCensus, HashPackaged, Accept
    <3>2. \A w \in Readers \ {v} : vpc'[w] = vpc[w]
      BY DEF ReadStep, ReadIndex, ReadManifest, CheckCensus, HashPackaged, Accept, VGoto, PlanInv, TypeOK
    <3>3. QED
      BY <3>1, <3>2 DEF PlanInv, PlanOK
  <2>3. QED
    BY <2>1, <2>2
<1>7. PlanOK'
  BY <1>1, <1>6 DEF PlanInv, PlanOK
<1>8. QED
  BY <1>1, <1>5, <1>7 DEF PlanInv

(* Others change the bytes of a stage or where its files come from, never  *)
(* whether a file is linked or copied into it.                             *)
LEMMA PlanOther ==
  ASSUME PlanInv, OtherStep
  PROVE  PlanInv' /\ UNCHANGED <<receipts, planned>>
<1>1. /\ UNCHANGED <<rpc, receipts, planned, mpc, verified, index, manifest, ppc, handle, hashed, renamed, vpc,
                     reading, record, seen>>
      /\ changes < MaxChanges /\ changes' = changes + 1
      /\ late' \in [Pubs -> BOOLEAN]
  <2>1. PICK S : Others(S)
    BY DEF OtherStep, WriteSource, ReplaceSource, EditStage, EditManifest, RemoveStage, UseOutput
  <2>2. UNCHANGED <<receiptVars, matVars, index, manifest, ppc, handle, hashed, renamed, readVars>>
    BY <2>1 DEF Others
  <2>3. late' \in [Pubs -> BOOLEAN]
    BY <2>1 DEF Others, PlanInv, TypeOK
  <2>4. QED
    BY <2>1, <2>2, <2>3 DEF Others, receiptVars, matVars, readVars
<1>2. tree' \in [Dirs -> Tree]
  <2>1. \/ tree' = tree
        \/ \E d \in Dirs, n \in Names, data \in Contents \cup {NoFile} : tree' = [tree EXCEPT ![d][n] = data]
    BY DEF OtherStep, WriteSource, ReplaceSource, EditStage, EditManifest, RemoveStage, UseOutput
  <2>2. ASSUME NEW d \in Dirs, NEW n \in Names, NEW data \in Contents \cup {NoFile}
        PROVE  [tree EXCEPT ![d][n] = data] \in [Dirs -> Tree]
    <3>1. tree \in [Dirs -> Tree] /\ tree[d] \in Tree
      BY DEF PlanInv, TypeOK
    <3>2. [tree[d] EXCEPT ![n] = data] \in Tree
      BY <3>1 DEF Tree
    <3>3. QED
      BY <3>1, <3>2
  <2>3. CASE tree' = tree
    BY <2>3 DEF PlanInv, TypeOK
  <2>4. CASE tree' # tree
    <3>1. PICK d \in Dirs, n \in Names, data \in Contents \cup {NoFile} : tree' = [tree EXCEPT ![d][n] = data]
      BY <2>1, <2>4
    <3>2. [tree EXCEPT ![d][n] = data] \in [Dirs -> Tree]
      BY <2>2
    <3>3. QED
      BY <3>1, <3>2
  <2>5. QED
    BY <2>3, <2>4
<1>3. /\ place' \in [Mats -> {"none", "stage", "output", "gone"}]
      /\ output' \in Mats \cup {"absent", "empty", "foreign"}
  BY DEF OtherStep, WriteSource, ReplaceSource, EditStage, EditManifest, RemoveStage, UseOutput, PlanInv, TypeOK
<1>4. stage' \in [Mats -> [Targets -> Entry \cup {NoFile}]]
  <2>1. ASSUME NEW d \in Dirs, NEW n \in Names, NEW data \in Contents, WriteSource(d, n, data)
        PROVE  stage' \in [Mats -> [Targets -> Entry \cup {NoFile}]]
    <3>1. stage' = [m \in Mats |-> [t \in Targets |->
            IF <<m, t>> \in Links(d, n) THEN [data |-> data, from |-> d] ELSE stage[m][t]]]
      BY <2>1 DEF WriteSource
    <3>2. [data |-> data, from |-> d] \in Entry
      BY DEF Entry
    <3>3. QED
      BY <3>1, <3>2 DEF PlanInv, TypeOK
  <2>2. ASSUME NEW d \in Dirs, NEW n \in Names, NEW data \in Contents \cup {NoFile}, ReplaceSource(d, n, data)
        PROVE  stage' \in [Mats -> [Targets -> Entry \cup {NoFile}]]
    <3>1. stage' = [m \in Mats |-> [t \in Targets |->
            IF <<m, t>> \in Links(d, n) THEN [stage[m][t] EXCEPT !.from = Private] ELSE stage[m][t]]]
      BY <2>2 DEF ReplaceSource
    <3>2. ASSUME NEW m \in Mats, NEW t \in Targets, <<m, t>> \in Links(d, n)
          PROVE  [stage[m][t] EXCEPT !.from = Private] \in Entry
      <4>1. stage[m][t] # NoFile
        BY <3>2 DEF Links
      <4>2. stage[m][t] \in Entry
        BY <4>1 DEF PlanInv, TypeOK
      <4>3. QED
        BY <4>2 DEF Entry
    <3>3. QED
      BY <3>1, <3>2 DEF PlanInv, TypeOK
  <2>3. ASSUME NEW m \in Mats, NEW t \in Targets, NEW e \in [data : Contents, from : {Private}] \cup {NoFile},
               EditStage(m, t, e)
        PROVE  stage' \in [Mats -> [Targets -> Entry \cup {NoFile}]]
    <3>1. e \in Entry \cup {NoFile}
      BY DEF Entry
    <3>2. QED
      BY <2>3, <3>1 DEF EditStage, PlanInv, TypeOK
  <2>4. CASE stage' = stage
    BY <2>4 DEF PlanInv, TypeOK
  <2>5. QED
    BY <2>1, <2>2, <2>3, <2>4 DEF OtherStep, EditManifest, RemoveStage, UseOutput
<1>5. changes' \in 0..MaxChanges
  BY <1>1, NativePackageAssumption DEF PlanInv, TypeOK
<1>6. listed' \in [Mats -> FileLists] /\ relisted' \in SUBSET Mats
  <2>1. ASSUME NEW m \in Mats, NEW t \in Targets, NEW data \in Contents \cup {NoFile}, EditManifest(m, t, data)
        PROVE  listed' \in [Mats -> FileLists] /\ relisted' \in SUBSET Mats
    <3>1. listed \in [Mats -> FileLists] /\ relisted \subseteq Mats
      BY DEF PlanInv, TypeOK
    <3>2. [listed[m] EXCEPT ![t] = data] \in FileLists
      BY <3>1 DEF FileLists
    <3>3. QED
      BY <2>1, <3>1, <3>2 DEF EditManifest
  <2>2. CASE UNCHANGED listVars
    BY <2>2 DEF listVars, PlanInv, TypeOK
  <2>3. QED
    BY <2>1, <2>2 DEF OtherStep, WriteSource, ReplaceSource, EditStage, RemoveStage, UseOutput, listVars
<1>7. TypeOK'
  BY <1>1, <1>2, <1>3, <1>4, <1>5, <1>6 DEF PlanInv, TypeOK
<1>8. PlanOK'
  BY <1>1 DEF PlanInv, PlanOK
<1>9. QED
  BY <1>1, <1>7, <1>8 DEF PlanInv

-----------------------------------------------------------------------------
(* What publications have hashed and what validations have seen.           *)

(* With the receipts, what the plan has for a target stays.                *)
LEMMA PlanStays ==
  ASSUME UNCHANGED receipts
  PROVE  /\ Files' = Files /\ PlannedFiles' = PlannedFiles
         /\ \A t \in Targets : Planned(t)' = Planned(t)
BY DEF Files, PlannedFiles, Planned

LEMMA DataReceipt ==
  ASSUME PlanInv, DataInv,
         UNCHANGED <<stage, manifest, listed, relisted, ppc, handle, hashed, renamed, late, vpc, reading, record, seen,
                     mpc>>,
         planned = "yes" => UNCHANGED <<receipts, planned>>
  PROVE  DataInv'
<1>1. ASSUME NEW p \in Pubs
      PROVE  HashedOK(p)'
  <2>1. CASE ppc[p] = "idle"
    BY <2>1 DEF DataInv, HashedOK, Publishing
  <2>2. CASE ppc[p] # "idle"
    <3>1. UNCHANGED receipts
      BY <2>2 DEF PlanInv, PlanOK
    <3>2. QED
      BY <3>1, PlanStays DEF DataInv, HashedOK, Intact, Census, Bytes, Planned
  <2>3. QED
    BY <2>1, <2>2
<1>2. ASSUME NEW v \in Readers
      PROVE  SeenOK(v)'
  <2>1. CASE vpc[v] = "idle"
    BY <2>1 DEF DataInv, SeenOK
  <2>2. CASE vpc[v] # "idle"
    <3>1. UNCHANGED <<receipts, planned>>
      BY <2>2 DEF DataInv, SeenOK
    <3>2. QED
      BY <2>2, <3>1, PlanStays DEF DataInv, SeenOK, Recorded
  <2>3. QED
    BY <2>1, <2>2
<1>3. ASSUME NEW m \in Mats
      PROVE  ListedOK(m)'
  <2>1. CASE manifest[m] = "full"
    <3>1. UNCHANGED <<receipts, planned>>
      BY <2>1 DEF DataInv, ListedOK
    <3>2. QED
      BY <3>1, PlanStays DEF DataInv, ListedOK
  <2>2. CASE manifest[m] # "full"
    BY <2>2 DEF ListedOK
  <2>3. QED
    BY <2>1, <2>2
<1>4. QED
  BY <1>1, <1>2, <1>3 DEF DataInv

(* A finished stage is out of the reach of materialize_package.            *)
LEMMA DataMat ==
  ASSUME PlanInv, DataInv, NEW m \in Mats, MatStep(m)
  PROVE  DataInv'
<1>1. UNCHANGED <<receipts, planned, manifest, listed, relisted, ppc, handle, hashed, renamed, late, vpc, reading,
                  record, seen>>
  BY DEF MatStep, Prepare, VerifySources, MakeStage, CopyFile, FinishStage, receiptVars, diskVars, listVars, pubVars,
         readVars
<1>2. mpc[m] # "staged" /\ \A q \in Mats \ {m} : stage'[q] = stage[q]
  <2>1. CASE \E t \in Targets : CopyFile(m, t)
    BY <2>1 DEF CopyFile, PlanInv, TypeOK
  <2>2. CASE ~\E t \in Targets : CopyFile(m, t)
    BY <2>2 DEF MatStep, Prepare, VerifySources, MakeStage, FinishStage, diskVars
  <2>3. QED
    BY <2>1, <2>2
<1>3. ASSUME NEW p \in Pubs
      PROVE  HashedOK(p)'
  <2>1. CASE ppc[p] = "idle"
    BY <1>1, <2>1 DEF DataInv, HashedOK, Publishing
  <2>2. CASE ppc[p] # "idle"
    <3>1. stage'[handle[p]] = stage[handle[p]]
      BY <1>2, <2>2 DEF PlanInv, PlanOK
    <3>2. QED
      BY <1>1, <3>1, PlanStays DEF DataInv, HashedOK, Intact, Census, Bytes, Planned
  <2>3. QED
    BY <2>1, <2>2
<1>4. ASSUME NEW v \in Readers
      PROVE  SeenOK(v)'
  BY <1>1, PlanStays DEF DataInv, SeenOK, Recorded
<1>5. ASSUME NEW q \in Mats
      PROVE  ListedOK(q)'
  BY <1>1, PlanStays DEF DataInv, ListedOK
<1>6. QED
  BY <1>3, <1>4, <1>5 DEF DataInv

LEMMA DataPub ==
  ASSUME PlanInv, IInv, DataInv, NEW p \in Pubs, PubStep(p)
  PROVE  DataInv'
<1>1. UNCHANGED <<receipts, planned, stage, relisted, late, vpc, reading, record, seen>>
  BY DEF PubStep, BeginPublish, HashStaged, WriteIndex, WriteManifest, CheckOutput, Rename, Publish, receiptVars,
         diskVars, listVars, readVars
<1>2. \A q \in Pubs \ {p} : ppc'[q] = ppc[q] /\ handle'[q] = handle[q] /\ renamed'[q] = renamed[q]
  BY PubFrame DEF IInv
<1>3. \A q \in Pubs \ {p} : hashed'[q] = hashed[q]
  <2>1. CASE \E t \in Targets : HashStaged(p, t)
    BY <2>1 DEF HashStaged, PlanInv, TypeOK
  <2>2. CASE ~\E t \in Targets : HashStaged(p, t)
    BY <2>2 DEF PubStep, BeginPublish, WriteIndex, WriteManifest, CheckOutput, Rename, Publish
  <2>3. QED
    BY <2>1, <2>2
<1>4. ASSUME NEW q \in Pubs \ {p}
      PROVE  HashedOK(q)'
  BY <1>1, <1>2, <1>3, PlanStays DEF DataInv, HashedOK, Intact, Census, Bytes, Planned
<1>5. HashedOK(p)'
  <2>1. CASE \E m \in Mats : BeginPublish(p, m)
    <3>1. PICK m \in Mats : BeginPublish(p, m)
      BY <2>1
    <3>2. /\ handle'[p] = m /\ ppc[p] = "idle" /\ UNCHANGED hashed /\ hashed[p] = {}
          /\ \/ ppc'[p] = "hash" /\ Census(m) = Files
             \/ ppc'[p] = "failed"
      BY <3>1 DEF BeginPublish, PGoto, PlanInv, TypeOK, DataInv, HashedOK
    <3>3. Census(m)' = Census(m)
      BY <1>1 DEF Census
    <3>4. QED
      BY <1>1, <3>2, <3>3, PlanStays DEF HashedOK, Intact, Census, Publishing
  <2>2. CASE \E t \in Targets : HashStaged(p, t)
    <3>1. PICK t \in Targets : HashStaged(p, t)
      BY <2>2
    <3>2. UNCHANGED handle /\ ppc[p] = "hash" /\ t \in Files
      BY <3>1 DEF HashStaged
    <3>3. \/ ppc' = ppc /\ hashed'[p] = hashed[p] \cup {t} /\ Bytes(t, stage[handle[p]]) = Planned(t)
          \/ ppc'[p] = "failed"
      BY <3>1 DEF HashStaged, PGoto, PlanInv, TypeOK
    <3>4. QED
      BY <1>1, <3>2, <3>3, PlanStays DEF DataInv, HashedOK, Intact, Census, Bytes, Planned, Publishing
  <2>3. CASE WriteIndex(p) \/ WriteManifest(p) \/ CheckOutput(p) \/ Rename(p) \/ Publish(p)
    <3>1. /\ UNCHANGED <<handle, hashed>> /\ ppc[p] \in Publishing \cup {"renamed"}
          /\ ppc'[p] \in Publishing => ppc[p] \in Publishing
          /\ ppc'[p] # "idle" /\ ppc'[p] # "hash"
          /\ ppc'[p] \in Publishing => hashed[p] = Files
      BY <2>3 DEF WriteIndex, WriteManifest, CheckOutput, Rename, Publish, PGoto, PlanInv, TypeOK, Publishing, DataInv,
                  HashedOK
    <3>2. QED
      BY <1>1, <3>1, PlanStays DEF DataInv, HashedOK, Intact, Census, Bytes, Planned
  <2>4. QED
    BY <2>1, <2>2, <2>3 DEF PubStep
<1>6. ASSUME NEW q \in Pubs, renamed[q]
      PROVE  renamed'[q] /\ handle'[q] = handle[q]
  <2>1. CASE q # p
    BY <1>2, <1>6, <2>1
  <2>2. CASE q = p
    <3>1. ppc[p] # "idle"
      BY <1>6, <2>2 DEF IInv, RenamedOK
    <3>2. UNCHANGED handle
      BY <3>1 DEF PubStep, BeginPublish, HashStaged, WriteIndex, WriteManifest, CheckOutput, Rename, Publish
    <3>3. renamed'[p]
      BY <1>6, <2>2 DEF PubStep, BeginPublish, HashStaged, WriteIndex, WriteManifest, CheckOutput, Rename, Publish,
                        PlanInv, TypeOK
    <3>4. QED
      BY <2>2, <3>2, <3>3
  <2>3. QED
    BY <2>1, <2>2
<1>7. ASSUME NEW v \in Readers
      PROVE  SeenOK(v)'
  BY <1>1, <1>6, PlanStays DEF DataInv, SeenOK, Recorded
<1>8. ASSUME NEW m \in Mats
      PROVE  ListedOK(m)'
  BY <1>1, ListedStep, PlanStays DEF DataInv, ListedOK
<1>9. QED
  BY <1>4, <1>5, <1>7, <1>8 DEF DataInv

LEMMA DataRead ==
  ASSUME PlanInv, IInv, DataInv, NEW v \in Readers, ReadStep(v)
  PROVE  DataInv'
<1>1. UNCHANGED <<receipts, planned, stage, manifest, listed, relisted, ppc, handle, hashed, renamed, late>>
  BY DEF ReadStep, ReadIndex, ReadManifest, CheckCensus, HashPackaged, Accept, receiptVars, diskVars, listVars, pubVars
<1>2. ASSUME NEW p \in Pubs
      PROVE  HashedOK(p)'
  BY <1>1, PlanStays DEF DataInv, HashedOK, Intact, Census, Bytes, Planned
<1>3. ASSUME NEW w \in Readers \ {v}
      PROVE  SeenOK(w)'
  <2>1. vpc'[w] = vpc[w] /\ reading'[w] = reading[w]
    BY DEF ReadStep, ReadIndex, ReadManifest, CheckCensus, HashPackaged, Accept, VGoto, PlanInv, TypeOK
  <2>2. seen'[w] = seen[w] /\ record'[w] = record[w]
    <3>1. CASE \E t \in Targets : HashPackaged(v, t)
      BY <3>1 DEF HashPackaged, PlanInv, TypeOK
    <3>2. CASE ~\E t \in Targets : HashPackaged(v, t)
      BY <3>2 DEF ReadStep, ReadIndex, ReadManifest, CheckCensus, Accept, PlanInv, TypeOK
    <3>3. QED
      BY <3>1, <3>2
  <2>3. QED
    BY <1>1, <2>1, <2>2, PlanStays DEF DataInv, SeenOK, Recorded
<1>4. SeenOK(v)'
  <2>1. CASE ReadIndex(v)
    <3>1. /\ output \in Mats /\ reading'[v] = output /\ seen' = seen /\ seen[v] = EmptyStage
          /\ vpc'[v] \in {"manifest", "refused"}
      BY <2>1 DEF ReadIndex, VGoto, PlanInv, TypeOK, DataInv, SeenOK
    <3>2. PICK p \in Pubs : renamed[p] /\ handle[p] = output
      BY <3>1 DEF IInv, OutputOK
    <3>3. planned = "yes"
      BY <3>2 DEF IInv, RenamedOK, PlanInv, PlanOK
    <3>4. QED
      BY <1>1, <3>1, <3>2, <3>3 DEF SeenOK, EmptyStage
  <2>2. CASE ReadManifest(v)
    <3>1. /\ UNCHANGED <<reading, seen>> /\ vpc[v] = "manifest" /\ vpc'[v] \in {"census", "refused"}
          /\ vpc'[v] = "census" => manifest[reading[v]] = "full" /\ record'[v] = listed[reading[v]]
      BY <2>2 DEF ReadManifest, VGoto, PlanInv, TypeOK
    <3>2. reading[v] \in Mats /\ \A t \in Targets : seen[v][t] = NoFile
      BY <3>1 DEF PlanInv, PlanOK, DataInv, SeenOK, EmptyStage
    <3>3. vpc'[v] = "census" => reading[v] \in relisted \/ record'[v] = PlannedFiles
      BY <3>1, <3>2 DEF DataInv, ListedOK
    <3>4. planned = "yes" /\ \E p \in Pubs : renamed[p] /\ handle[p] = reading[v]
      BY <3>1 DEF DataInv, SeenOK
    <3>5. QED
      BY <1>1, <3>1, <3>2, <3>3, <3>4, PlanStays DEF SeenOK
  <2>3. CASE CheckCensus(v)
    <3>1. UNCHANGED <<reading, record, seen>> /\ vpc[v] = "census" /\ vpc'[v] \in {"hash", "refused"}
      BY <2>3 DEF CheckCensus, VGoto, PlanInv, TypeOK
    <3>2. QED
      BY <1>1, <3>1, PlanStays DEF DataInv, SeenOK
  <2>4. CASE \E t \in Targets : HashPackaged(v, t)
    <3>1. PICK t \in Targets : HashPackaged(v, t)
      BY <2>4
    <3>2. UNCHANGED <<reading, record>> /\ vpc[v] = "hash" /\ record[v][t] # NoFile
      BY <3>1 DEF HashPackaged, Recorded
    <3>3. \/ seen' = seen /\ vpc'[v] = "refused"
          \/ /\ vpc' = vpc /\ Bytes(t, stage[reading[v]]) = record[v][t]
             /\ seen' = [seen EXCEPT ![v][t] = stage[reading[v]][t].data]
      BY <3>1 DEF HashPackaged, VGoto, PlanInv, TypeOK
    <3>4. CASE seen' = seen /\ vpc'[v] = "refused"
      BY <1>1, <3>2, <3>4, PlanStays DEF DataInv, SeenOK
    <3>5. CASE /\ vpc' = vpc /\ Bytes(t, stage[reading[v]]) = record[v][t]
               /\ seen' = [seen EXCEPT ![v][t] = stage[reading[v]][t].data]
      <4>1. stage[reading[v]][t].data = record[v][t]
        BY <3>2, <3>5 DEF Bytes
      <4>2. seen'[v][t] = record[v][t] /\ \A u \in Targets \ {t} : seen'[v][u] = seen[v][u]
        BY <3>5, <4>1 DEF PlanInv, TypeOK, FileLists
      <4>3. QED
        BY <1>1, <3>2, <3>5, <4>2, PlanStays DEF DataInv, SeenOK
    <3>6. QED
      BY <3>3, <3>4, <3>5
  <2>5. CASE Accept(v)
    <3>1. UNCHANGED <<reading, record, seen>> /\ vpc[v] = "hash" /\ vpc'[v] \in {"accepted", "refused"}
          /\ \A t \in Recorded(v) : seen[v][t] # NoFile
      BY <2>5 DEF Accept, VGoto, PlanInv, TypeOK
    <3>2. QED
      BY <1>1, <3>1, PlanStays DEF DataInv, SeenOK, Recorded
  <2>6. QED
    BY <2>1, <2>2, <2>3, <2>4, <2>5 DEF ReadStep
<1>5. ASSUME NEW m \in Mats
      PROVE  ListedOK(m)'
  BY <1>1, PlanStays DEF DataInv, ListedOK
<1>6. QED
  BY <1>2, <1>3, <1>4, <1>5 DEF DataInv

(* Whoever changes what a publication has hashed, or adds a file after its *)
(* census, makes it late.                                                  *)
LEMMA DataOther ==
  ASSUME PlanInv, IInv, DataInv, OtherStep
  PROVE  DataInv'
<1>0. relisted \subseteq relisted' /\ \A m \in Mats : m \in relisted' \/ listed'[m] = listed[m]
  <2>1. CASE UNCHANGED listVars
    BY <2>1 DEF listVars
  <2>2. CASE \E m \in Mats, t \in Targets, data \in Contents \cup {NoFile} : EditManifest(m, t, data)
    BY <2>2 DEF EditManifest, PlanInv, TypeOK
  <2>3. QED
    BY <2>1, <2>2 DEF OtherStep, WriteSource, ReplaceSource, EditStage, RemoveStage, UseOutput, listVars
<1>1. UNCHANGED <<receipts, planned, manifest, ppc, handle, hashed, renamed, vpc, reading, record, seen>>
  BY DEF OtherStep, WriteSource, ReplaceSource, EditStage, EditManifest, RemoveStage, UseOutput, Others, receiptVars,
         readVars
<1>2. /\ \A v \in Readers : SeenOK(v)'
      /\ \A m \in Mats : ListedOK(m)'
  BY <1>0, <1>1, PlanStays DEF DataInv, SeenOK, ListedOK, Recorded
<1>3. ASSUME NEW p \in Pubs, ppc[p] \in Publishing, ~late'[p]
      PROVE  /\ ~late[p]
             /\ \A t \in Targets : /\ t \in hashed[p] => Bytes(t, stage'[handle[p]]) = Bytes(t, stage[handle[p]])
                                   /\ t \notin Files /\ stage[handle[p]][t] = NoFile => stage'[handle[p]][t] = NoFile
  <2>0. handle[p] \in Mats
    BY <1>3 DEF PlanInv, PlanOK, Publishing
  <2>1. ASSUME NEW S, Others(S)
        PROVE  ~late[p] /\ \A t \in Targets : <<handle[p], t>> \in S => t \notin hashed[p] /\ t \in Files
    BY <1>3, <2>1 DEF Others, Publishing
  <2>2. ASSUME NEW d \in Dirs, NEW n \in Names, NEW data \in Contents, WriteSource(d, n, data)
        PROVE  /\ ~late[p]
               /\ \A t \in Targets : /\ t \in hashed[p] => stage'[handle[p]][t] = stage[handle[p]][t]
                                     /\ t \notin Files => stage'[handle[p]][t] = stage[handle[p]][t]
    <3>1. Others(Links(d, n))
      BY <2>2 DEF WriteSource
    <3>2. stage' = [m \in Mats |-> [t \in Targets |->
            IF <<m, t>> \in Links(d, n) THEN [data |-> data, from |-> d] ELSE stage[m][t]]]
      BY <2>2 DEF WriteSource
    <3>3. QED
      BY <2>0, <2>1, <3>1, <3>2
  <2>3. ASSUME NEW d \in Dirs, NEW n \in Names, NEW data \in Contents \cup {NoFile}, ReplaceSource(d, n, data)
        PROVE  /\ ~late[p]
               /\ \A t \in Targets : /\ Bytes(t, stage'[handle[p]]) = Bytes(t, stage[handle[p]])
                                     /\ stage[handle[p]][t] = NoFile => stage'[handle[p]][t] = NoFile
    <3>1. Others({})
      BY <2>3 DEF ReplaceSource
    <3>2. stage' = [m \in Mats |-> [t \in Targets |->
            IF <<m, t>> \in Links(d, n) THEN [stage[m][t] EXCEPT !.from = Private] ELSE stage[m][t]]]
      BY <2>3 DEF ReplaceSource
    <3>3. ASSUME NEW t \in Targets
          PROVE  /\ Bytes(t, stage'[handle[p]]) = Bytes(t, stage[handle[p]])
                 /\ stage[handle[p]][t] = NoFile => stage'[handle[p]][t] = NoFile
      <4>1. CASE <<handle[p], t>> \in Links(d, n)
        <5>1. stage[handle[p]][t] # NoFile
          BY <4>1 DEF Links
        <5>2. stage[handle[p]][t] \in Entry
          BY <2>0, <5>1 DEF PlanInv, TypeOK
        <5>3. stage'[handle[p]][t] = [stage[handle[p]][t] EXCEPT !.from = Private]
          BY <2>0, <3>2, <4>1
        <5>4. stage'[handle[p]][t].data = stage[handle[p]][t].data /\ stage'[handle[p]][t] \in Entry
          BY <5>2, <5>3 DEF Entry
        <5>5. stage'[handle[p]][t] # NoFile \/ stage[handle[p]][t].data = NoFile
          BY <5>4, NativePackageAssumption DEF Entry
        <5>6. QED
          BY <5>1, <5>4, <5>5 DEF Bytes
      <4>2. CASE <<handle[p], t>> \notin Links(d, n)
        BY <2>0, <3>2, <4>2 DEF Bytes
      <4>3. QED
        BY <4>1, <4>2
    <3>4. QED
      BY <2>1, <3>1, <3>3
  <2>4. ASSUME NEW m \in Mats, NEW u \in Targets, NEW e \in [data : Contents, from : {Private}] \cup {NoFile},
               EditStage(m, u, e)
        PROVE  /\ ~late[p]
               /\ \A t \in Targets : /\ t \in hashed[p] => stage'[handle[p]][t] = stage[handle[p]][t]
                                     /\ t \notin Files => stage'[handle[p]][t] = stage[handle[p]][t]
    <3>1. Others({<<m, u>>}) /\ stage' = [stage EXCEPT ![m][u] = e]
      BY <2>4 DEF EditStage
    <3>2. ~late[p] /\ (handle[p] = m => u \notin hashed[p] /\ u \in Files)
      BY <2>1, <3>1
    <3>3. QED
      BY <2>0, <3>1, <3>2 DEF PlanInv, TypeOK
  <2>5. ASSUME stage' = stage, NEW S, Others(S)
        PROVE  ~late[p]
    BY <2>1, <2>5
  <2>6. QED
    BY <2>2, <2>3, <2>4, <2>5 DEF OtherStep, EditManifest, RemoveStage, UseOutput, Bytes
<1>4. ASSUME NEW p \in Pubs
      PROVE  HashedOK(p)'
  <2>1. CASE ppc[p] \in Publishing /\ ~late'[p]
    <3>1. /\ ~late[p] /\ Intact(p) /\ hashed[p] \subseteq Files
          /\ ppc[p] # "idle" /\ (ppc[p] # "hash" => hashed[p] = Files)
      BY <1>3, <2>1 DEF DataInv, HashedOK, Publishing
    <3>2. Census(handle[p])' \subseteq Files
      BY <1>1, <1>3, <2>1, <3>1 DEF Intact, Census
    <3>3. Files \subseteq Targets
      BY DEF Files
    <3>4. \A t \in hashed[p] : Bytes(t, stage'[handle[p]]) = Planned(t)
      BY <1>3, <2>1, <3>1, <3>3 DEF Intact
    <3>5. Intact(p)'
      BY <1>1, <3>1, <3>2, <3>3, <3>4, PlanStays DEF Intact, Bytes
    <3>6. QED
      BY <1>1, <2>1, <3>1, <3>5, PlanStays DEF HashedOK
  <2>2. CASE ~(ppc[p] \in Publishing /\ ~late'[p])
    BY <1>1, <2>2, PlanStays DEF DataInv, HashedOK
  <2>3. QED
    BY <2>1, <2>2
<1>5. QED
  BY <1>2, <1>4 DEF DataInv

LEMMA DataStep == PlanInv /\ IInv /\ DataInv /\ [Next]_vars => PlanInv' /\ DataInv'
<1> SUFFICES ASSUME PlanInv, IInv, DataInv, [Next]_vars
             PROVE  PlanInv' /\ DataInv'
  OBVIOUS
<1>1. CASE \/ \E c \in Components, d \in Dirs, tool \in Tools : HashComponent(c, d, tool)
           \/ \E c \in Components : VerifyUnchanged(c)
           \/ Plan
  <2>1. UNCHANGED <<stage, manifest, listed, relisted, ppc, handle, hashed, renamed, late, vpc, reading, record, seen,
                    mpc>>
    BY <1>1 DEF HashComponent, VerifyUnchanged, Plan, matVars, diskVars, listVars, pubVars, readVars
  <2>2. QED
    BY <1>1, <2>1, PlanReceipt, DataReceipt
<1>2. ASSUME NEW m \in Mats, MatStep(m)
      PROVE  PlanInv' /\ DataInv'
  BY <1>2, PlanMat, DataMat
<1>3. ASSUME NEW p \in Pubs, PubStep(p)
      PROVE  PlanInv' /\ DataInv'
  BY <1>3, PlanPub, DataPub
<1>4. ASSUME NEW v \in Readers, ReadStep(v)
      PROVE  PlanInv' /\ DataInv'
  BY <1>4, PlanRead, DataRead
<1>5. CASE OtherStep
  BY <1>5, PlanOther, DataOther
<1>6. CASE UNCHANGED vars
  <2>1. UNCHANGED <<receiptVars, matVars, diskVars, pubVars, readVars, changes>>
    BY <1>6 DEF vars
  <2>2. UNCHANGED <<rpc, receipts, planned, mpc, verified, tree, place, stage, index, manifest, listed, relisted,
                    output, ppc, handle, hashed, renamed, late, vpc, reading, record, seen, changes>>
    BY <2>1 DEF receiptVars, matVars, diskVars, listVars, pubVars, readVars
  <2>3. PlanInv'
    BY <2>2 DEF PlanInv, TypeOK, PlanOK
  <2>4. DataInv'
    BY <2>2, DataReceipt
  <2>5. QED
    BY <2>3, <2>4
<1>7. QED
  BY <1>1, <1>2, <1>3, <1>4, <1>5, <1>6 DEF Next

LEMMA PackageSafe == Spec => [](PlanInv /\ IInv /\ DataInv)
BY InitPlan, InitIInv, IInvStep, DataStep, PTL DEF Spec

(* Every reachable state of every instance is well typed.                  *)
THEOREM PackageTyped == Spec => []TypeOK
<1>1. PlanInv => TypeOK
  BY DEF PlanInv
<1>2. QED
  BY <1>1, PackageSafe, PTL

(* A reader is only ever handed a package that some publication put in     *)
(* place and whose every file it hashed to the digest of the receipts, as  *)
(* long as nobody has rewritten that package's manifest; afterwards, to    *)
(* the digest the manifest it read records.                                *)
THEOREM AcceptedPackageIsPlanned == Spec => []AcceptedIsPlanned
<1>1. PlanInv /\ DataInv => AcceptedIsPlanned
  <2> SUFFICES ASSUME PlanInv, DataInv, NEW v \in Readers, vpc[v] = "accepted"
               PROVE  /\ \E p \in Pubs : renamed[p] /\ handle[p] = reading[v]
                      /\ seen[v] = IF reading[v] \in relisted THEN record[v] ELSE PlannedFiles
    BY DEF AcceptedIsPlanned
  <2>1. SeenOK(v)
    BY DEF DataInv
  <2>2. seen[v] \in [Targets -> Contents \cup {NoFile}] /\ record[v] \in [Targets -> Contents \cup {NoFile}]
    BY DEF PlanInv, TypeOK, FileLists
  <2>3. \A t \in Targets : seen[v][t] = record[v][t]
    BY <2>1 DEF SeenOK, Recorded
  <2>4. seen[v] = record[v]
    BY <2>2, <2>3
  <2>5. QED
    BY <2>1, <2>4 DEF SeenOK
<1>2. QED
  BY <1>1, PackageSafe, PTL

(* What a rename publishes is the plan, byte for byte, unless somebody     *)
(* changed a file this publication had hashed or added one after its       *)
(* census.                                                                 *)
THEOREM PublishedIsThePlan == Spec => PublishesThePlan
<1>1. PlanInv /\ IInv /\ DataInv /\ [Next]_vars =>
        [\A p \in Pubs : renamed'[p] /\ ~renamed[p] /\ ~late[p] => PlannedPackage(handle[p])]_vars
  <2> SUFFICES ASSUME PlanInv, IInv, DataInv, [Next]_vars, NEW p \in Pubs, renamed'[p], ~renamed[p], ~late[p]
               PROVE  PlannedPackage(handle[p])
    OBVIOUS
  <2>1. PubStep(p)
    <3>1. \A q \in Pubs \ {p} : ~PubStep(q)
      BY PubFrame DEF IInv
    <3>2. renamed' # renamed
      OBVIOUS
    <3>3. QED
      BY <3>1, <3>2, ReceiptFrame, MatFrame, ReadFrame, OtherFrame DEF Next, vars, pubVars
  <2>2. ppc[p] = "rename"
    BY <2>1 DEF PubStep, BeginPublish, HashStaged, WriteIndex, WriteManifest, CheckOutput, Rename, Publish
  <2>3. hashed[p] = Files /\ Intact(p)
    BY <2>2 DEF DataInv, HashedOK, Publishing
  <2>4. ASSUME NEW t \in Files
        PROVE  stage[handle[p]][t] # NoFile /\ stage[handle[p]][t].data = Planned(t)
    BY <2>3 DEF Intact, Bytes, Files
  <2>5. Files \subseteq Census(handle[p])
    BY <2>4 DEF Census, Files
  <2>6. QED
    BY <2>3, <2>4, <2>5 DEF PlannedPackage, Intact
<1>2. QED
  BY <1>1, PackageSafe, PTL DEF Spec, PublishesThePlan
=============================================================================
