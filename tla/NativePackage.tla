---------------------------- MODULE NativePackage ----------------------------
(***************************************************************************)
(* Assembly of a native package: receipts over the component directories,  *)
(* a plan over the receipts, materialization into private stages by copy   *)
(* or hard link, publication of a stage by one rename with the manifest    *)
(* written last, and validation of what the output path names.  Source     *)
(* owners, other users of the output path and kills come in between.       *)
(*                                                                         *)
(* A file is its bytes; sha256_file_pinned and the two copying primitives  *)
(* linearize, and sizes go with the bytes.  A hard link shares the bytes   *)
(* with its source.  The plan is a value: it is the receipts it was        *)
(* computed from.  A call that is killed, or that sees a file move while   *)
(* it reads it, takes no further step: nothing is ever undone here.        *)
(***************************************************************************)
EXTENDS Naturals, FiniteSets

CONSTANTS Components,  \* the package's component names
          Dirs,        \* component source directories
          Names,       \* file names a directory may hold
          Delivered,   \* ... those it holds at first
          Contents,    \* possible bytes of a file
          Tools,       \* comfy-omni builds that may produce a receipt
          Mats,        \* calls of materialize_package, and their stages
          Reusing,     \* ... those with reuse_immutable
          Local,       \* source directories on the mount of the output
          Pubs,        \* calls of publish_package
          Readers,     \* calls of validate_runtime_package
          MaxChanges,  \* bound on what others do to sources, stages, output
          Private, NoFile, NoReceipt, NoMat

ASSUME NativePackageAssumption ==
  /\ Delivered \subseteq Names /\ Delivered # {}
  /\ MaxChanges \in Nat
  /\ NoFile \notin Contents \cup [data : Contents, from : Dirs \cup {Private}]
  /\ Private \notin Dirs
  /\ NoMat \notin Mats /\ Reusing \subseteq Mats /\ Local \subseteq Dirs
  /\ Mats \cap {"absent", "empty", "foreign"} = {}

Targets == Components \X Names                       \* Ref2VA/<component>/<name>
Tree    == [Names -> Contents \cup {NoFile}]
Receipt == [dir : Dirs, tool : Tools, files : Tree]
Entry   == [data : Contents, from : Dirs \cup {Private}]

VARIABLES
  tree,      \* tree[d][n]: bytes of file n of source directory d
  rpc, receipts,        \* parse_component_receipt per component
  planned,   \* "no", "yes" or "refused"
  mpc,       \* mpc[m]: where materialize_package call m is
  verified,  \* verified[m]: components verify_package_sources has passed
  place,     \* place[m]: where the stage directory of m is
  stage,     \* stage[m][t]: entry of the stage, wherever it is
  index, manifest,      \* model_index.json and the manifest of stage m
  listed,    \* listed[m]: digest per file in the manifest of stage m, once it is full
  relisted,  \* stages and packages whose manifest somebody else has rewritten
  output,    \* what the output path names
  ppc, handle, hashed,  \* publish_package call p: step, stage, files hashed
  renamed,   \* renamed[p]: the rename of p has happened
  late,      \* late[p]: others changed what p had already checked
  vpc, reading,         \* validation v: step, package
  record, seen,         \* ... file list of the manifest it read, bytes it hashed
  changes    \* changes by others so far

receiptVars == <<rpc, receipts, planned>>
matVars     == <<mpc, verified>>
listVars    == <<listed, relisted>>
diskVars    == <<tree, place, stage, index, manifest, listVars, output>>
pubVars     == <<ppc, handle, hashed, renamed, late>>
readVars    == <<vpc, reading, record, seen>>
vars        == <<receiptVars, matVars, diskVars, pubVars, readVars, changes>>

EmptyStage == [t \in Targets |-> NoFile]

Init ==
  /\ \E c \in Contents :
       tree = [d \in Dirs |-> [n \in Names |-> IF n \in Delivered THEN c ELSE NoFile]]
  /\ rpc = [c \in Components |-> "idle"]
  /\ receipts = [c \in Components |-> NoReceipt]
  /\ planned = "no"
  /\ mpc = [m \in Mats |-> "idle"]
  /\ verified = [m \in Mats |-> {}]
  /\ place = [m \in Mats |-> "none"]
  /\ stage = [m \in Mats |-> EmptyStage]
  /\ index = [m \in Mats |-> "none"]
  /\ manifest = [m \in Mats |-> "none"]
  /\ listed = [m \in Mats |-> EmptyStage]
  /\ relisted = {}
  /\ output = "absent"
  /\ ppc = [p \in Pubs |-> "idle"]
  /\ handle = [p \in Pubs |-> NoMat]
  /\ hashed = [p \in Pubs |-> {}]
  /\ renamed = [p \in Pubs |-> FALSE]
  /\ late = [p \in Pubs |-> FALSE]
  /\ vpc = [v \in Readers |-> "idle"]
  /\ reading = [v \in Readers |-> NoMat]
  /\ record = [v \in Readers |-> EmptyStage]
  /\ seen = [v \in Readers |-> EmptyStage]
  /\ changes = 0

MGoto(m, label) == mpc' = [mpc EXCEPT ![m] = label]
PGoto(p, label) == ppc' = [ppc EXCEPT ![p] = label]
VGoto(v, label) == vpc' = [vpc EXCEPT ![v] = label]

-----------------------------------------------------------------------------
(* Receipts and the plan.                                                  *)

(* parse_component_receipt: the census and the hash of every file.         *)
HashComponent(c, d, tool) ==
  /\ rpc[c] = "idle"
  /\ IF \E n \in Names : tree[d][n] # NoFile
     THEN /\ receipts' = [receipts EXCEPT ![c] = [dir |-> d, tool |-> tool, files |-> tree[d]]]
          /\ rpc' = [rpc EXCEPT ![c] = "hashed"]
     ELSE rpc' = [rpc EXCEPT ![c] = "refused"] /\ UNCHANGED receipts
  /\ UNCHANGED <<planned, matVars, diskVars, pubVars, readVars, changes>>

(* _verify_unchanged: the second census and the second hash.               *)
VerifyUnchanged(c) ==
  /\ rpc[c] = "hashed"
  /\ rpc' = [rpc EXCEPT ![c] = IF tree[receipts[c].dir] = receipts[c].files
                               THEN "done" ELSE "refused"]
  /\ UNCHANGED <<receipts, planned, matVars, diskVars, pubVars, readVars, changes>>

(* plan_native_package: exact census, one producer, no directory twice.    *)
Plan ==
  /\ planned = "no"
  /\ \A c \in Components : rpc[c] \in {"done", "refused"}
  /\ planned' = IF /\ \A c \in Components : rpc[c] = "done"
                   /\ \A b, c \in Components :
                        /\ receipts[b].tool = receipts[c].tool
                        /\ b # c => receipts[b].dir # receipts[c].dir
                THEN "yes" ELSE "refused"
  /\ UNCHANGED <<rpc, receipts, matVars, diskVars, pubVars, readVars, changes>>

Planned(t) == receipts[t[1]].files[t[2]]          \* the digest the plan has for t
Files == {t \in Targets : Planned(t) # NoFile}    \* plan.files
Bytes(t, e) == IF e[t] = NoFile THEN NoFile ELSE e[t].data
Census(m) == {t \in Targets : stage[m][t] # NoFile}

-----------------------------------------------------------------------------
(* materialize_package.                                                    *)

Prepare(m) ==
  /\ mpc[m] = "idle" /\ planned = "yes"
  /\ MGoto(m, IF output = "absent" THEN "verify" ELSE "failed")
  /\ UNCHANGED <<receiptVars, verified, diskVars, pubVars, readVars, changes>>

(* verify_package_sources, one component: its tree is what the plan says.  *)
VerifySources(m, c) ==
  /\ mpc[m] = "verify"
  /\ c \notin verified[m]
  /\ IF tree[receipts[c].dir] = receipts[c].files
     THEN verified' = [verified EXCEPT ![m] = @ \cup {c}] /\ UNCHANGED mpc
     ELSE MGoto(m, "failed") /\ UNCHANGED verified
  /\ UNCHANGED <<receiptVars, diskVars, pubVars, readVars, changes>>

MakeStage(m) ==
  /\ mpc[m] = "verify"
  /\ verified[m] = Components
  /\ IF output = "absent"
     THEN place' = [place EXCEPT ![m] = "stage"] /\ MGoto(m, "copy")
     ELSE MGoto(m, "failed") /\ UNCHANGED place
  /\ UNCHANGED <<receiptVars, verified, tree, stage, index, manifest, listVars, output,
                 pubVars, readVars, changes>>

(* One file: an exclusive copy or, with reuse_immutable on the same mount, *)
(* a hard link; its digest must be the plan's.                             *)
CopyFile(m, t) ==
  LET d    == receipts[t[1]].dir
      data == tree[d][t[2]]
      from == IF m \in Reusing /\ d \in Local THEN d ELSE Private
  IN /\ mpc[m] = "copy" /\ t \in Files
     /\ IF place[m] = "stage" /\ stage[m][t] = NoFile /\ data # NoFile
        THEN /\ stage' = [stage EXCEPT ![m][t] = [data |-> data, from |-> from]]
             /\ IF data = Planned(t) THEN UNCHANGED mpc ELSE MGoto(m, "failed")
        ELSE MGoto(m, "failed") /\ UNCHANGED stage
     /\ UNCHANGED <<receiptVars, verified, tree, place, index, manifest, listVars, output,
                    pubVars, readVars, changes>>

(* Census of the stage, the two directories, and the output once more.     *)
FinishStage(m) ==
  /\ mpc[m] = "copy"
  /\ Files \subseteq Census(m)
  /\ MGoto(m, IF Census(m) = Files /\ place[m] = "stage" /\ output = "absent"
              THEN "staged" ELSE "failed")
  /\ UNCHANGED <<receiptVars, verified, diskVars, pubVars, readVars, changes>>

-----------------------------------------------------------------------------
(* publish_package.                                                        *)

(* Mutant: trusts the handle and skips the census of the stage.            *)
BeginPublishNoCensus(p, m) ==
  /\ ppc[p] = "idle" /\ mpc[m] = "staged"
  /\ handle' = [handle EXCEPT ![p] = m]
  /\ PGoto(p, IF place[m] = "stage" /\ output = "absent" THEN "hash" ELSE "failed")
  /\ UNCHANGED <<receiptVars, matVars, diskVars, hashed, renamed, late, readVars, changes>>

(* The stage is still there, the output absent, and the census of the      *)
(* stage is the plan's: no index or manifest of an earlier attempt either. *)
BeginPublish(p, m) ==
  /\ ppc[p] = "idle" /\ mpc[m] = "staged"
  /\ handle' = [handle EXCEPT ![p] = m]
  /\ PGoto(p, IF /\ place[m] = "stage" /\ output = "absent"
                 /\ Census(m) = Files
                 /\ index[m] = "none" /\ manifest[m] = "none"
              THEN "hash" ELSE "failed")
  /\ UNCHANGED <<receiptVars, matVars, diskVars, hashed, renamed, late, readVars, changes>>

HashStaged(p, t) ==
  LET m == handle[p] IN
  /\ ppc[p] = "hash" /\ t \in Files \ hashed[p]
  /\ IF place[m] = "stage" /\ Bytes(t, stage[m]) = Planned(t)
     THEN hashed' = [hashed EXCEPT ![p] = @ \cup {t}] /\ UNCHANGED ppc
     ELSE PGoto(p, "failed") /\ UNCHANGED hashed
  /\ UNCHANGED <<receiptVars, matVars, diskVars, handle, renamed, late, readVars, changes>>

(* write_exclusive(model_index.json); a failed write leaves a part of it.  *)
WriteIndex(p) ==
  LET m == handle[p] IN
  /\ ppc[p] = "hash" /\ hashed[p] = Files
  /\ IF place[m] = "stage" /\ index[m] = "none"
     THEN \/ index' = [index EXCEPT ![m] = "full"] /\ PGoto(p, "manifest")
          \/ index' = [index EXCEPT ![m] = "partial"] /\ PGoto(p, "failed")
     ELSE PGoto(p, "failed") /\ UNCHANGED index
  /\ UNCHANGED <<receiptVars, matVars, tree, place, stage, manifest, listVars, output,
                 handle, hashed, renamed, late, readVars, changes>>

(* The file list of the manifest is the plan's, whatever the stage holds.  *)
PlannedFiles == [t \in Targets |-> Planned(t)]

(* Mutant: lists what the stage holds when the manifest is written.        *)
ListStaged(m) == [t \in Targets |-> Bytes(t, stage[m])]

FilesListed(m) == PlannedFiles

(* Mutant: goes on after a failed write of the manifest.                   *)
WriteManifestRegardless(p) ==
  LET m == handle[p] IN
  /\ ppc[p] = "manifest"
  /\ PGoto(p, "check")
  /\ IF place[m] = "stage" /\ manifest[m] = "none"
     THEN \E w \in {"full", "partial"} :
            /\ manifest' = [manifest EXCEPT ![m] = w]
            /\ listed' = IF w = "full" THEN [listed EXCEPT ![m] = PlannedFiles] ELSE listed
     ELSE UNCHANGED <<manifest, listed>>
  /\ UNCHANGED <<receiptVars, matVars, tree, place, stage, index, relisted, output,
                 handle, hashed, renamed, late, readVars, changes>>

WriteManifest(p) ==
  LET m == handle[p] IN
  /\ ppc[p] = "manifest"
  /\ IF place[m] = "stage" /\ manifest[m] = "none"
     THEN \/ /\ manifest' = [manifest EXCEPT ![m] = "full"]
             /\ listed' = [listed EXCEPT ![m] = FilesListed(m)]
             /\ PGoto(p, "check")
          \/ /\ manifest' = [manifest EXCEPT ![m] = "partial"] /\ UNCHANGED listed
             /\ PGoto(p, "failed")
     ELSE PGoto(p, "failed") /\ UNCHANGED <<manifest, listed>>
  /\ UNCHANGED <<receiptVars, matVars, tree, place, stage, index, relisted, output,
                 handle, hashed, renamed, late, readVars, changes>>

CheckOutput(p) ==
  /\ ppc[p] = "check"
  /\ PGoto(p, IF output = "absent" THEN "rename" ELSE "failed")
  /\ UNCHANGED <<receiptVars, matVars, diskVars, handle, hashed, renamed, late, readVars, changes>>

(* Mutant: a move that replaces whatever the output path names.            *)
ReplacesAnything == TRUE

(* rename(2) of a directory replaces nothing but an empty directory.       *)
RenameAllowed == output \in {"absent", "empty"}

Rename(p) ==
  LET m == handle[p] IN
  /\ ppc[p] = "rename"
  /\ IF place[m] = "stage" /\ RenameAllowed
     THEN /\ output' = m
          /\ place' = [place EXCEPT ![m] = "output"]
          /\ renamed' = [renamed EXCEPT ![p] = TRUE]
          /\ PGoto(p, "renamed")
     ELSE PGoto(p, "failed") /\ UNCHANGED <<output, place, renamed>>
  /\ UNCHANGED <<receiptVars, matVars, tree, stage, index, manifest, listVars,
                 handle, hashed, late, readVars, changes>>

(* fsync of the parent, which may fail after the fact, and the return.     *)
Publish(p) ==
  /\ ppc[p] = "renamed"
  /\ \E result \in {"published", "failed"} : PGoto(p, result)
  /\ UNCHANGED <<receiptVars, matVars, diskVars, handle, hashed, renamed, late, readVars, changes>>

-----------------------------------------------------------------------------
(* validate_runtime_package.                                               *)

(* Mutant: takes what the output path names for a package.                 *)
ReadIndexAnywhere(v) ==
  /\ vpc[v] = "idle"
  /\ reading' = [reading EXCEPT ![v] = output]
  /\ VGoto(v, "manifest")
  /\ UNCHANGED <<receiptVars, matVars, diskVars, pubVars, record, seen, changes>>

(* A validation that finds no package leaves no trace and is left out.     *)
ReadIndex(v) ==
  /\ vpc[v] = "idle"
  /\ output \in Mats
  /\ reading' = [reading EXCEPT ![v] = output]
  /\ VGoto(v, IF index[output] = "full" THEN "manifest" ELSE "refused")
  /\ UNCHANGED <<receiptVars, matVars, diskVars, pubVars, record, seen, changes>>

(* The package's own manifest says which files it has, and their digests;  *)
(* it must name one and bind the index, and it is read once.               *)
ReadManifest(v) ==
  LET m == reading[v] IN
  /\ vpc[v] = "manifest"
  /\ IF manifest[m] = "full" /\ \E t \in Targets : listed[m][t] # NoFile
     THEN record' = [record EXCEPT ![v] = listed[m]] /\ VGoto(v, "census")
     ELSE UNCHANGED record /\ VGoto(v, "refused")
  /\ UNCHANGED <<receiptVars, matVars, diskVars, pubVars, reading, seen, changes>>

Recorded(v) == {t \in Targets : record[v][t] # NoFile}

(* The tree must be exactly the files the manifest records.                *)
CheckCensus(v) ==
  /\ vpc[v] = "census"
  /\ VGoto(v, IF Census(reading[v]) = Recorded(v) THEN "hash" ELSE "refused")
  /\ UNCHANGED <<receiptVars, matVars, diskVars, pubVars, reading, record, seen, changes>>

(* Each file, by then, must have the digest the manifest recorded.         *)
HashPackaged(v, t) ==
  LET m == reading[v] IN
  /\ vpc[v] = "hash" /\ t \in Recorded(v) /\ seen[v][t] = NoFile
  /\ IF Bytes(t, stage[m]) = record[v][t]
     THEN seen' = [seen EXCEPT ![v][t] = stage[m][t].data] /\ UNCHANGED vpc
     ELSE VGoto(v, "refused") /\ UNCHANGED seen
  /\ UNCHANGED <<receiptVars, matVars, diskVars, pubVars, reading, record, changes>>

(* Every component must have a file; the contract is returned.             *)
Accept(v) ==
  /\ vpc[v] = "hash"
  /\ \A t \in Recorded(v) : seen[v][t] # NoFile
  /\ VGoto(v, IF {t[1] : t \in Recorded(v)} = Components THEN "accepted" ELSE "refused")
  /\ UNCHANGED <<receiptVars, matVars, diskVars, pubVars, reading, record, seen, changes>>

-----------------------------------------------------------------------------
(* Others.                                                                 *)

(* S: the stage entries <<m, t>> changed.  Late is what a publication has  *)
(* hashed, or what was not in its census.                                  *)
Others(S) ==
  /\ changes < MaxChanges
  /\ changes' = changes + 1
  /\ late' = [p \in Pubs |-> late[p] \/
       /\ ppc[p] \in {"hash", "manifest", "check", "rename"}
       /\ \E x \in S : x[1] = handle[p] /\ (x[2] \in hashed[p] \/ x[2] \notin Files)]
  /\ UNCHANGED <<receiptVars, matVars, index, manifest, ppc, handle, hashed, renamed, readVars>>

Links(d, n) ==
  {x \in Mats \X Targets : /\ x[2][2] = n /\ stage[x[1]][x[2]] # NoFile
                           /\ stage[x[1]][x[2]].from = d}

(* Rewrite a source in place: every hard link of it changes with it.       *)
WriteSource(d, n, data) ==
  /\ tree[d][n] # NoFile
  /\ Others(Links(d, n))
  /\ tree' = [tree EXCEPT ![d][n] = data]
  /\ stage' = [m \in Mats |-> [t \in Targets |->
       IF <<m, t>> \in Links(d, n) THEN [data |-> data, from |-> d] ELSE stage[m][t]]]
  /\ UNCHANGED <<place, listVars, output>>

(* Create, replace or delete a source: its hard links keep the old file.   *)
ReplaceSource(d, n, data) ==
  /\ Others({})
  /\ tree' = [tree EXCEPT ![d][n] = data]
  /\ stage' = [m \in Mats |-> [t \in Targets |->
       IF <<m, t>> \in Links(d, n) THEN [stage[m][t] EXCEPT !.from = Private] ELSE stage[m][t]]]
  /\ UNCHANGED <<place, listVars, output>>

(* Put, rewrite or delete a file of a stage or of the published package.   *)
EditStage(m, t, e) ==
  /\ place[m] \in {"stage", "output"}
  /\ Others({<<m, t>>})
  /\ stage' = [stage EXCEPT ![m][t] = e]
  /\ UNCHANGED <<tree, place, listVars, output>>

(* Rewrite a record of the manifest, and its digest of itself with it.     *)
EditManifest(m, t, data) ==
  /\ place[m] \in {"stage", "output"} /\ manifest[m] = "full"
  /\ Others({})
  /\ listed' = [listed EXCEPT ![m][t] = data]
  /\ relisted' = relisted \cup {m}
  /\ UNCHANGED <<tree, place, stage, output>>

RemoveStage(m) ==
  /\ place[m] = "stage"
  /\ Others({})
  /\ place' = [place EXCEPT ![m] = "gone"]
  /\ UNCHANGED <<tree, stage, listVars, output>>

(* Somebody else uses the output path, or leaves it.                       *)
UseOutput(what) ==
  /\ output \notin Mats
  /\ Others({})
  /\ output' = what
  /\ UNCHANGED <<tree, place, stage, listVars>>

-----------------------------------------------------------------------------
MatStep(m) ==
  \/ Prepare(m) \/ MakeStage(m) \/ FinishStage(m)
  \/ \E c \in Components : VerifySources(m, c)
  \/ \E t \in Targets : CopyFile(m, t)
PubStep(p) ==
  \/ WriteIndex(p) \/ WriteManifest(p) \/ CheckOutput(p) \/ Rename(p) \/ Publish(p)
  \/ \E m \in Mats : BeginPublish(p, m)
  \/ \E t \in Targets : HashStaged(p, t)
ReadStep(v) ==
  \/ ReadIndex(v) \/ ReadManifest(v) \/ CheckCensus(v) \/ Accept(v)
  \/ \E t \in Targets : HashPackaged(v, t)
OtherStep ==
  \/ \E d \in Dirs, n \in Names, data \in Contents : WriteSource(d, n, data)
  \/ \E d \in Dirs, n \in Names, data \in Contents \cup {NoFile} : ReplaceSource(d, n, data)
  \/ \E m \in Mats, t \in Targets, e \in [data : Contents, from : {Private}] \cup {NoFile} : EditStage(m, t, e)
  \/ \E m \in Mats, t \in Targets, data \in Contents \cup {NoFile} : EditManifest(m, t, data)
  \/ \E m \in Mats : RemoveStage(m)
  \/ \E what \in {"absent", "empty", "foreign"} : UseOutput(what)

Next ==
  \/ \E c \in Components, d \in Dirs, tool \in Tools : HashComponent(c, d, tool)
  \/ \E c \in Components : VerifyUnchanged(c)
  \/ Plan
  \/ \E m \in Mats : MatStep(m)
  \/ \E p \in Pubs : PubStep(p)
  \/ \E v \in Readers : ReadStep(v)
  \/ OtherStep

Spec == Init /\ [][Next]_vars

-----------------------------------------------------------------------------
(* Properties.                                                             *)

FileLists   == [Targets -> Contents \cup {NoFile}]
StageStates == {"none", "partial", "full"}
MatLabels   == {"idle", "verify", "copy", "staged", "failed"}
PubLabels   == {"idle", "hash", "manifest", "check", "rename", "renamed", "published", "failed"}
ReadLabels  == {"idle", "manifest", "census", "hash", "accepted", "refused"}

(* Every variable keeps the shape its declaration gives it.                *)
TypeOK ==
  /\ tree \in [Dirs -> Tree]
  /\ rpc \in [Components -> {"idle", "hashed", "done", "refused"}]
  /\ receipts \in [Components -> Receipt \cup {NoReceipt}]
  /\ planned \in {"no", "yes", "refused"}
  /\ mpc \in [Mats -> MatLabels]
  /\ verified \in [Mats -> SUBSET Components]
  /\ place \in [Mats -> {"none", "stage", "output", "gone"}]
  /\ stage \in [Mats -> [Targets -> Entry \cup {NoFile}]]
  /\ index \in [Mats -> StageStates] /\ manifest \in [Mats -> StageStates]
  /\ listed \in [Mats -> FileLists] /\ relisted \in SUBSET Mats
  /\ output \in Mats \cup {"absent", "empty", "foreign"}
  /\ ppc \in [Pubs -> PubLabels]
  /\ handle \in [Pubs -> Mats \cup {NoMat}]
  /\ hashed \in [Pubs -> SUBSET Targets]
  /\ renamed \in [Pubs -> BOOLEAN] /\ late \in [Pubs -> BOOLEAN]
  /\ vpc \in [Readers -> ReadLabels]
  /\ reading \in [Readers -> Mats \cup {NoMat}]
  /\ record \in [Readers -> FileLists] /\ seen \in [Readers -> FileLists]
  /\ changes \in 0..MaxChanges

(* No kill, failed write or race shows a partial package: what the output  *)
(* path names has its whole index and its whole manifest (publication.py   *)
(* writes both into the stage, and renames it last).                       *)
NoPartialPackage ==
  output \in Mats => index[output] = "full" /\ manifest[output] = "full"

PlannedPackage(m) ==
  Census(m) = Files /\ \A t \in Files : stage[m][t].data = Planned(t)

(* What a rename publishes is the plan, byte for byte, whatever happened   *)
(* to sources, stage and output since the receipts were taken -- unless    *)
(* somebody changed a file this very publication had already hashed, or    *)
(* added one after its census.                                             *)
PublishesThePlan ==
  [][\A p \in Pubs : renamed'[p] /\ ~renamed[p] /\ ~late[p] => PlannedPackage(handle[p])]_vars

(* A reader is only ever handed a package that some publication put in     *)
(* place and whose every file had, when it hashed it, the digest of the    *)
(* receipts, however sources, stage and package have changed since those   *)
(* were taken: the manifest is the one witness a package carries of its    *)
(* plan (package_contract.py:356), so this holds until somebody rewrites   *)
(* the manifest itself; then what is accepted is what the new one records. *)
AcceptedIsPlanned ==
  \A v \in Readers : vpc[v] = "accepted" =>
    /\ \E p \in Pubs : renamed[p] /\ handle[p] = reading[v]
    /\ seen[v] = IF reading[v] \in relisted THEN record[v] ELSE PlannedFiles

(* A stage is never renamed by one publication under the feet of another:  *)
(* at most one publication of one output commits, nothing undoes it, and   *)
(* success is only reported for one's own.                                 *)
NoPub == NoMat
Winner == IF \E p \in Pubs : renamed[p] THEN CHOOSE p \in Pubs : renamed[p] ELSE NoPub
Told(label) == IF label \in {"published", "failed"}
               THEN IF label = "failed" THEN "refused" ELSE "published"
               ELSE "running"
Outcome == [p \in Pubs |-> Told(ppc[p])]
Publication == INSTANCE AtomicPublication
  WITH Runs <- Pubs, NoRun <- NoPub, winner <- Winner, outcome <- Outcome

PublishesAtomically == Publication!Spec
=============================================================================
