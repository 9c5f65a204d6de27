---------------------------- MODULE NativeExport ----------------------------
(***************************************************************************)
(* The transaction behind `execute_native_export`: hold the sources, write *)
(* every artifact into a private stage, claim the output directory, link   *)
(* and rehash the artifacts, reread the sources, and write manifest.json   *)
(* last.  Several runs aim at one output path while other processes write  *)
(* the sources, replace the output or parent directory and touch its files;*)
(* a run may be killed between any two steps.                              *)
(*                                                                         *)
(* Bytes are abstracted to what the digests tell apart: Good stands for the*)
(* bytes whose SHA-256 the plan records for a source.  A stamp stands for  *)
(* the (size, mtime, ctime) part of `fd_identity`; every write gets a fresh*)
(* one.  A retry is one more run.  A file of the output is named by whoever*)
(* made it: the run whose staged inode it links, Foreign for a file of     *)
(* another process, or the number of the foreign change that put a copy of *)
(* the planned artifact there, one left by an earlier export for instance. *)
(***************************************************************************)
EXTENDS Naturals

CONSTANTS Runs,         \* calls of execute_native_export for one output_dir
          Sources,      \* the plan's source files
          Artifacts,    \* the staged artifact names
          Contents,     \* possible bytes of a source file
          Good,         \* the bytes the plan's source digests pin
          Parents,      \* directories the parent path may come to name
          Home,         \* ... the one it names at first
          MaxWrites,    \* bound on writes to the source files
          MaxForeign,   \* bound on foreign changes around the output path
          Foreign,      \* a directory or file no run created
          NoDir, NoFile, NoData, NoPin

Inodes == 0..MaxWrites                                    \* of one source path
Pin    == [ino : Inodes, stamp : Inodes, data : Contents]  \* an opened source

ASSUME NativeExportAssumption ==
  /\ Good \in Contents /\ NoData \notin Contents
  /\ Home \in Parents
  /\ MaxWrites \in Nat /\ MaxForeign \in Nat
  /\ Foreign \notin Runs /\ NoDir \notin Runs \cup {Foreign}
  /\ (Runs \cup {Foreign, NoFile}) \cap Nat = {} /\ NoFile \notin Runs \cup {Foreign}
  /\ NoPin \notin Pin
  /\ Artifacts # {}            \* the index, the plan and the config are always staged
  /\ "manifest.json" \notin Artifacts /\ "extra" \notin Artifacts

Manifest == "manifest.json"
Names    == Artifacts \cup {Manifest, "extra"}
DirIds   == Runs \cup {Foreign}
Copies   == 1..MaxForeign
Files    == Runs \cup Copies \cup {Foreign}
FileVersion == [data : Contents, stamp : Inodes]

VARIABLES
  disk,      \* disk[s][i]: bytes and stamp of inode i of source s
  cur,       \* cur[s]: the inode the path of source s names
  writes,    \* writes made to the sources so far; stamps the next one
  pc,        \* pc[r]: where run r is
  held,      \* held[r][s]: what SafeTensorSources recorded when it opened s
  read,      \* read[r][a][s]: bytes of s that went into staged artifact a
  done,      \* done[r]: artifacts the current loop of r has handled
  checked,   \* checked[r]: sources verify_unchanged has passed
  home,      \* home[r]: the parent directory r resolved and staged in
  outId,     \* outId[r]: output_identity, the directory r lstat-ed
  target,    \* target[r]: artifact the cleanup of r is about to unlink
  published, \* published[r][a]: the file r recorded in published_identities
  manifest,  \* manifest[r]: r's manifest file: "none", "partial" or "full"
  parent,    \* the directory the parent path names now
  out,       \* out[p]: the directory the output name denotes inside p
  dirs,      \* dirs[d][n]: the file named n in directory d
  tampered,  \* tampered[f]: artifacts of f whose bytes left their digest
  touched,   \* touched[r]: recorded inodes changed since r recorded them
  foreign,   \* foreign changes made so far
  moved      \* moved[r]: check-to-use windows of r a foreign change fell in

sourceVars == <<disk, cur, writes>>
fsVars     == <<parent, out, dirs, tampered, touched, foreign, moved>>
runVars    == <<held, read, done, checked, home, outId, target, published, manifest>>
vars       == <<sourceVars, fsVars, runVars, pc>>

-----------------------------------------------------------------------------
(* The output path and what it names now.                                  *)
Cur == out[parent]
At(n) == IF Cur = NoDir THEN NoFile ELSE dirs[Cur][n]
Present == {n \in Names : At(n) # NoFile}
NoEntries == [n \in Names |-> NoFile]

Goto(r, label) == pc' = [pc EXCEPT ![r] = label]
Handled(r, a) == done' = [done EXCEPT ![r] = @ \cup {a}]

Terminal == {"published", "failed", "cleaned"}

Init ==
  /\ disk \in [Sources -> {[i \in Inodes |-> [data |-> c, stamp |-> 0]] : c \in Contents}]
  /\ cur = [s \in Sources |-> 0]
  /\ writes = 0
  /\ pc = [r \in Runs |-> "idle"]
  /\ held = [r \in Runs |-> [s \in Sources |-> NoPin]]
  /\ read = [r \in Runs |-> [a \in Artifacts |-> [s \in Sources |-> NoData]]]
  /\ done = [r \in Runs |-> {}]
  /\ checked = [r \in Runs |-> {}]
  /\ home = [r \in Runs |-> Home]
  /\ outId = [r \in Runs |-> NoDir]
  /\ target = [r \in Runs |-> NoFile]
  /\ published = [r \in Runs |-> [a \in Artifacts |-> NoFile]]
  /\ manifest = [r \in Runs |-> "none"]
  /\ parent = Home
  /\ out = [p \in Parents |-> NoDir]
  /\ dirs = [d \in DirIds |-> NoEntries]
  /\ tampered = [f \in Files |-> {}]
  /\ touched = [r \in Runs |-> {}]
  /\ foreign = 0
  /\ moved = [r \in Runs |-> {}]

-----------------------------------------------------------------------------
(* Staging.                                                                *)

(* Mutant: pins the output path's directory in place of its parent's.      *)
PrepareWrongParent(r) ==
  /\ pc[r] = "idle"
  /\ home' = [home EXCEPT ![r] = Cur]
  /\ Goto(r, IF Cur = NoDir THEN "open" ELSE "failed")
  /\ UNCHANGED <<sourceVars, fsVars, held, read, done, checked, outId, target, published, manifest>>

(* prepare_native_export: the output must be absent; the parent is pinned. *)
Prepare(r) ==
  /\ pc[r] = "idle"
  /\ home' = [home EXCEPT ![r] = parent]
  /\ Goto(r, IF Cur = NoDir THEN "open" ELSE "failed")
  /\ UNCHANGED <<sourceVars, fsVars, held, read, done, checked, outId, target, published, manifest>>

(* SafeTensorSources._open_all: open, header, hash; identity rechecked.    *)
OpenSource(r, s) ==
  /\ pc[r] = "open"
  /\ held[r][s] = NoPin
  /\ LET f == disk[s][cur[s]]
     IN held' = [held EXCEPT ![r][s] = [ino |-> cur[s], stamp |-> f.stamp, data |-> f.data]]
  /\ UNCHANGED <<sourceVars, fsVars, pc, read, done, checked, home, outId, target, published, manifest>>

(* _validate_plan: the held digests must be the plan's.                    *)
Validate(r) ==
  /\ pc[r] = "open"
  /\ \A s \in Sources : held[r][s] # NoPin
  /\ Goto(r, IF \A s \in Sources : held[r][s].data = Good THEN "write" ELSE "failed")
  /\ UNCHANGED <<sourceVars, fsVars, runVars>>

(* One bounded chunk through the held descriptor into a staged artifact.   *)
WriteChunk(r, a, s) ==
  /\ pc[r] = "write"
  /\ read[r][a][s] = NoData
  /\ read' = [read EXCEPT ![r][a][s] = disk[s][held[r][s].ino].data]
  /\ UNCHANGED <<sourceVars, fsVars, pc, held, done, checked, home, outId, target, published, manifest>>

Staged(r, a) == \A s \in Sources : read[r][a][s] # NoData

(* verify_safetensors_file: the staged file reopened against its digest.   *)
VerifyStaged(r, a) ==
  /\ pc[r] = "write"
  /\ a \notin done[r]
  /\ Staged(r, a)
  /\ IF a \in tampered[r]
     THEN Goto(r, "failed") /\ UNCHANGED done
     ELSE Handled(r, a) /\ UNCHANGED pc
  /\ UNCHANGED <<sourceVars, fsVars, held, read, checked, home, outId, target, published, manifest>>

-----------------------------------------------------------------------------
(* publish_native_export.                                                  *)

(* The parent must still be the pinned one and the output path absent.     *)
EnterPublish(r) ==
  /\ pc[r] = "write"
  /\ done[r] = Artifacts
  /\ done' = [done EXCEPT ![r] = {}]
  /\ Goto(r, IF parent = home[r] /\ Cur = NoDir THEN "claim" ELSE "failed")
  /\ UNCHANGED <<sourceVars, fsVars, held, read, checked, home, outId, target, published, manifest>>

(* mkdir is the claim: it fails if the name exists.                        *)
Claim(r) ==
  /\ pc[r] = "claim"
  /\ IF Cur = NoDir
     THEN out' = [out EXCEPT ![parent] = r] /\ Goto(r, "pin")
     ELSE Goto(r, "failed") /\ UNCHANGED out
  /\ UNCHANGED <<sourceVars, parent, dirs, tampered, touched, foreign, moved, runVars>>

(* lstat of the claimed path gives output_identity.                        *)
PinOutput(r) ==
  /\ pc[r] = "pin"
  /\ IF Cur = NoDir
     THEN Goto(r, "failed") /\ UNCHANGED outId
     ELSE outId' = [outId EXCEPT ![r] = Cur] /\ Goto(r, "link")
  /\ UNCHANGED <<sourceVars, fsVars, held, read, done, checked, home, target, published, manifest>>

(* os.link resolves both paths again and never replaces an entry.          *)
Link(r, a) ==
  /\ pc[r] = "link"
  /\ a \notin done[r]
  /\ IF parent = home[r] /\ Cur # NoDir /\ At(a) = NoFile
     THEN /\ dirs' = [dirs EXCEPT ![Cur][a] = r]
          /\ Handled(r, a)
          /\ UNCHANGED pc
     ELSE Goto(r, "failed") /\ UNCHANGED <<dirs, done>>
  /\ UNCHANGED <<sourceVars, parent, out, tampered, touched, foreign, moved,
                 held, read, checked, home, outId, target, published, manifest>>

CheckLinked(r) ==
  /\ pc[r] = "link"
  /\ done[r] = Artifacts
  /\ done' = [done EXCEPT ![r] = {}]
  /\ Goto(r, IF Cur = outId[r] THEN "hash" ELSE "failed")
  /\ UNCHANGED <<sourceVars, fsVars, held, read, checked, home, outId, target, published, manifest>>

(* File f has the digest and the size run r recorded for artifact a.       *)
SameBytes(r, a, f) ==
  /\ f \in Runs \cup Copies
  /\ a \notin tampered[f]
  /\ \A s \in Sources : read[r][a][s] = IF f \in Runs THEN read[f][a][s] ELSE Good

(* Mutant: records what a linked name denotes without rereading its bytes. *)
RecordPublished(r, a) ==
  /\ pc[r] = "hash"
  /\ a \notin done[r]
  /\ IF At(a) # NoFile
     THEN /\ Handled(r, a)
          /\ published' = [published EXCEPT ![r][a] = At(a)]
          /\ touched' = [touched EXCEPT ![r] = @ \ {a}]
          /\ UNCHANGED pc
     ELSE Goto(r, "failed") /\ UNCHANGED <<done, published, touched>>
  /\ UNCHANGED <<sourceVars, parent, out, dirs, tampered, foreign, moved,
                 held, read, checked, home, outId, target, manifest>>

(* Pinned rehash of a published file.  Only digest and size are compared:  *)
(* whatever inode the name denotes is recorded as published.               *)
HashPublished(r, a) ==
  /\ pc[r] = "hash"
  /\ a \notin done[r]
  /\ IF At(a) # NoFile /\ SameBytes(r, a, At(a))
     THEN /\ Handled(r, a)
          /\ published' = [published EXCEPT ![r][a] = At(a)]
          /\ touched' = [touched EXCEPT ![r] = @ \ {a}]
          /\ UNCHANGED pc
     ELSE Goto(r, "failed") /\ UNCHANGED <<done, published, touched>>
  /\ UNCHANGED <<sourceVars, parent, out, dirs, tampered, foreign, moved,
                 held, read, checked, home, outId, target, manifest>>

BeginInputCheck(r) ==
  /\ pc[r] = "hash"
  /\ done[r] = Artifacts
  /\ Goto(r, "inputs")
  /\ UNCHANGED <<sourceVars, fsVars, runVars>>

(* Mutant: only rehashes the source, so bytes restored in time pass.       *)
SourceSameDigest(r, s) ==
  LET p == held[r][s]
  IN disk[s][p.ino].data = p.data /\ cur[s] = p.ino

(* SafeTensorSources.verify_unchanged for one source: descriptor identity, *)
(* digest, and the file the path names.  Stamps only grow, so an equal one *)
(* at the end stands for the four comparisons of the code.                 *)
SourceUnchanged(r, s) ==
  LET p == held[r][s]  f == disk[s][p.ino]
  IN f.stamp = p.stamp /\ f.data = p.data /\ cur[s] = p.ino

VerifySource(r, s) ==
  /\ pc[r] = "inputs"
  /\ s \notin checked[r]
  /\ IF SourceUnchanged(r, s)
     THEN checked' = [checked EXCEPT ![r] = @ \cup {s}] /\ UNCHANGED pc
     ELSE Goto(r, "guard") /\ UNCHANGED checked
  /\ UNCHANGED <<sourceVars, fsVars, held, read, done, home, outId, target, published, manifest>>

(* After before_manifest(): parent, output, file census, file identities.  *)
OutputUnchanged(r) ==
  /\ parent = home[r]
  /\ Cur = outId[r]
  /\ Present = Artifacts
  /\ \A a \in Artifacts : At(a) = published[r][a] /\ a \notin touched[r]

Recheck(r) ==
  /\ pc[r] = "inputs"
  /\ checked[r] = Sources
  /\ Goto(r, IF OutputUnchanged(r) THEN "commit" ELSE "guard")
  /\ UNCHANGED <<sourceVars, fsVars, runVars>>

(* Mutant: reports success once the file exists, before its bytes do.      *)
CreateManifestOnly(r) ==
  /\ pc[r] = "commit"
  /\ IF Cur # NoDir /\ At(Manifest) = NoFile
     THEN /\ dirs' = [dirs EXCEPT ![Cur][Manifest] = r]
          /\ manifest' = [manifest EXCEPT ![r] = "partial"]
          /\ Goto(r, "readback")
     ELSE Goto(r, "failed") /\ UNCHANGED <<dirs, manifest>>
  /\ UNCHANGED <<sourceVars, parent, out, tampered, touched, foreign, moved,
                 held, read, done, checked, home, outId, target, published>>

(* write_exclusive(manifest_path): create the file, then its bytes.        *)
CreateManifest(r) ==
  /\ pc[r] = "commit"
  /\ IF Cur # NoDir /\ At(Manifest) = NoFile
     THEN /\ dirs' = [dirs EXCEPT ![Cur][Manifest] = r]
          /\ manifest' = [manifest EXCEPT ![r] = "partial"]
          /\ Goto(r, "fill")
     ELSE Goto(r, "failed") /\ UNCHANGED <<dirs, manifest>>
  /\ UNCHANGED <<sourceVars, parent, out, tampered, touched, foreign, moved,
                 held, read, done, checked, home, outId, target, published>>

FillManifest(r) ==
  /\ pc[r] = "fill"
  /\ manifest' = [manifest EXCEPT ![r] = "full"]
  /\ Goto(r, "readback")
  /\ UNCHANGED <<sourceVars, fsVars, held, read, done, checked, home, outId, target, published>>

ReadBack(r) ==
  /\ pc[r] = "readback"
  /\ Goto(r, IF At(Manifest) = r THEN "published" ELSE "failed")
  /\ UNCHANGED <<sourceVars, fsVars, runVars>>

-----------------------------------------------------------------------------
(* The cleanup of the guarded block (`except BaseException`).              *)

CleanDir(r) ==
  /\ pc[r] = "guard"
  /\ done' = [done EXCEPT ![r] = {}]
  /\ Goto(r, IF Cur = outId[r] THEN "clean" ELSE "failed")
  /\ UNCHANGED <<sourceVars, fsVars, held, read, checked, home, outId, target, published, manifest>>

(* Mutant: unlinks by name, whatever inode the name denotes.               *)
CleanByName(r, a) ==
  /\ pc[r] = "clean"
  /\ a \notin done[r]
  /\ IF At(a) # NoFile
     THEN target' = [target EXCEPT ![r] = a] /\ Goto(r, "unlink") /\ UNCHANGED done
     ELSE Handled(r, a) /\ UNCHANGED <<target, pc>>
  /\ UNCHANGED <<sourceVars, fsVars, held, read, checked, home, outId, published, manifest>>

(* Mutant: compares the whole fd identity, so a touched file is kept.      *)
CleanIfUntouched(r, a) ==
  /\ pc[r] = "clean"
  /\ a \notin done[r]
  /\ IF At(a) # NoFile /\ At(a) = published[r][a] /\ a \notin touched[r]
     THEN target' = [target EXCEPT ![r] = a] /\ Goto(r, "unlink") /\ UNCHANGED done
     ELSE Handled(r, a) /\ UNCHANGED <<target, pc>>
  /\ UNCHANGED <<sourceVars, fsVars, held, read, checked, home, outId, published, manifest>>

(* lstat of one target: only an inode recorded as published is unlinked.   *)
CleanCheck(r, a) ==
  /\ pc[r] = "clean"
  /\ a \notin done[r]
  /\ IF At(a) # NoFile /\ At(a) = published[r][a]
     THEN target' = [target EXCEPT ![r] = a] /\ Goto(r, "unlink") /\ UNCHANGED done
     ELSE Handled(r, a) /\ UNCHANGED <<target, pc>>
  /\ UNCHANGED <<sourceVars, fsVars, held, read, checked, home, outId, published, manifest>>

CleanUnlink(r) ==
  /\ pc[r] = "unlink"
  /\ IF At(target[r]) # NoFile
     THEN /\ dirs' = [dirs EXCEPT ![Cur][target[r]] = NoFile]
          /\ Handled(r, target[r])
          /\ Goto(r, "clean")
     ELSE Goto(r, "failed") /\ UNCHANGED <<dirs, done>>
  /\ UNCHANGED <<sourceVars, parent, out, tampered, touched, foreign, moved,
                 held, read, checked, home, outId, target, published, manifest>>

CleanEmpty(r) ==
  /\ pc[r] = "clean"
  /\ done[r] = Artifacts
  /\ Goto(r, IF Cur = NoDir THEN "failed" ELSE IF Present = {} THEN "rmdir" ELSE "cleaned")
  /\ UNCHANGED <<sourceVars, fsVars, runVars>>

CleanRmdir(r) ==
  /\ pc[r] = "rmdir"
  /\ IF Cur # NoDir /\ Present = {}
     THEN out' = [out EXCEPT ![parent] = NoDir] /\ Goto(r, "cleaned")
     ELSE Goto(r, "failed") /\ UNCHANGED out
  /\ UNCHANGED <<sourceVars, parent, dirs, tampered, touched, foreign, moved, runVars>>

-----------------------------------------------------------------------------
(* A killed process, or an error outside the guarded block: nothing more   *)
(* of the run happens and nothing is undone.                               *)
Stop(r) ==
  /\ pc[r] \notin Terminal \cup {"idle"}
  /\ Goto(r, "failed")
  /\ UNCHANGED <<sourceVars, fsVars, runVars>>

(* An error or interrupt raised inside the guarded block.                  *)
Interrupt(r) ==
  /\ pc[r] = "inputs"
  /\ Goto(r, "guard")
  /\ UNCHANGED <<sourceVars, fsVars, runVars>>

-----------------------------------------------------------------------------
(* Other processes.                                                        *)

WriteSource(s, c) ==
  /\ writes < MaxWrites
  /\ writes' = writes + 1
  /\ disk' = [disk EXCEPT ![s][cur[s]] = [data |-> c, stamp |-> writes + 1]]
  /\ UNCHANGED <<cur, fsVars, runVars, pc>>

ReplaceSource(s, c) ==
  /\ writes < MaxWrites
  /\ writes' = writes + 1
  /\ cur' = [cur EXCEPT ![s] = writes + 1]
  /\ disk' = [disk EXCEPT ![s][writes + 1] = [data |-> c, stamp |-> writes + 1]]
  /\ UNCHANGED <<fsVars, runVars, pc>>

(* The windows between a check of run r and the path operation it covers.  *)
Window(r) ==
  CASE pc[r] \in {"commit", "fill"} -> {"commit"}
    [] pc[r] = "pin"                -> {"pin"}
    [] pc[r] = "link"               -> {"entry"}
    [] pc[r] = "hash"               -> {"entry", "hash"}
    [] pc[r] = "unlink"             -> {"unlink", "clean"}
    [] pc[r] \in {"clean", "rmdir"} -> {"clean"}
    [] OTHER                        -> {}

Disturb ==
  /\ foreign < MaxForeign
  /\ foreign' = foreign + 1
  /\ moved' = [r \in Runs |-> moved[r] \cup Window(r)]
  /\ UNCHANGED <<sourceVars, runVars, pc>>

(* Move whatever the output path names away, perhaps putting a directory   *)
(* holding the foreign files S in its place.                               *)
ForeignDirectory(d, S) ==
  /\ Disturb
  /\ \A p \in Parents : out[p] # Foreign
  /\ out' = [out EXCEPT ![parent] = d]
  /\ dirs' = IF d = Foreign
             THEN [dirs EXCEPT ![Foreign] = [n \in Names |-> IF n \in S THEN Foreign ELSE NoFile]]
             ELSE dirs
  /\ UNCHANGED <<parent, tampered, touched>>

(* Create, replace or delete one entry of the output directory; the file   *)
(* put there may be a copy of the artifact.                                *)
ForeignEntry(n, f) ==
  /\ Disturb
  /\ Cur # NoDir
  /\ dirs' = [dirs EXCEPT ![Cur][n] = f]
  /\ UNCHANGED <<parent, out, tampered, touched>>

ForeignParent(p) ==
  /\ Disturb
  /\ parent' = p
  /\ UNCHANGED <<out, dirs, tampered, touched>>

(* Write a staged inode or a copy in place, or put its bytes back.         *)
ForeignBytes(f, a) ==
  /\ Disturb
  /\ IF f \in Runs THEN Staged(f, a) ELSE \E d \in DirIds : dirs[d][a] = f
  /\ \/ tampered' = [tampered EXCEPT ![f] = @ \cup {a}]
     \/ tampered' = [tampered EXCEPT ![f] = @ \ {a}]
  /\ touched' = [r \in Runs |-> IF published[r][a] = f THEN touched[r] \cup {a} ELSE touched[r]]
  /\ UNCHANGED <<parent, out, dirs>>

-----------------------------------------------------------------------------
RunStep(r) ==
  \/ Prepare(r) \/ Validate(r) \/ EnterPublish(r) \/ Claim(r) \/ PinOutput(r)
  \/ CheckLinked(r) \/ BeginInputCheck(r) \/ Recheck(r)
  \/ CreateManifest(r) \/ FillManifest(r) \/ ReadBack(r)
  \/ CleanDir(r) \/ CleanUnlink(r) \/ CleanEmpty(r) \/ CleanRmdir(r)
  \/ Stop(r) \/ Interrupt(r)
  \/ \E s \in Sources : OpenSource(r, s) \/ VerifySource(r, s)
  \/ \E a \in Artifacts : VerifyStaged(r, a) \/ Link(r, a) \/ HashPublished(r, a) \/ CleanCheck(r, a)
  \/ \E a \in Artifacts, s \in Sources : WriteChunk(r, a, s)

SourceStep == \E s \in Sources, c \in Contents : WriteSource(s, c) \/ ReplaceSource(s, c)

ForeignStep ==
  \/ ForeignDirectory(NoDir, {})
  \/ \E S \in SUBSET Artifacts : ForeignDirectory(Foreign, S)
  \/ \E n \in Names, f \in {Foreign, NoFile} : ForeignEntry(n, f)
  \/ \E a \in Artifacts : ForeignEntry(a, foreign + 1)
  \/ \E p \in Parents : ForeignParent(p)
  \/ \E f \in Runs \cup Copies, a \in Artifacts : ForeignBytes(f, a)

Next ==
  \/ \E r \in Runs : RunStep(r)
  \/ SourceStep
  \/ ForeignStep

Spec == Init /\ [][Next]_vars

-----------------------------------------------------------------------------
(* Properties.                                                             *)

Labels == {"idle", "open", "write", "claim", "pin", "link", "hash", "inputs", "commit", "fill",
           "readback", "guard", "clean", "unlink", "rmdir"} \cup Terminal

SourcesTypeOK ==
  /\ disk \in [Sources -> [Inodes -> FileVersion]]
  /\ cur \in [Sources -> Inodes]
  /\ writes \in Inodes

RunsTypeOK ==
  /\ pc \in [Runs -> Labels]
  /\ held \in [Runs -> [Sources -> Pin \cup {NoPin}]]
  /\ read \in [Runs -> [Artifacts -> [Sources -> Contents \cup {NoData}]]]
  /\ done \in [Runs -> SUBSET Artifacts]
  /\ checked \in [Runs -> SUBSET Sources]
  /\ home \in [Runs -> Parents]
  /\ outId \in [Runs -> DirIds \cup {NoDir}]
  /\ target \in [Runs -> Artifacts \cup {NoFile}]
  /\ published \in [Runs -> [Artifacts -> Runs \cup Copies \cup {NoFile}]]
  /\ manifest \in [Runs -> {"none", "partial", "full"}]

OutputTypeOK ==
  /\ parent \in Parents
  /\ out \in [Parents -> DirIds \cup {NoDir}]
  /\ dirs \in [DirIds -> [Names -> Files \cup {NoFile}]]
  /\ tampered \in [Files -> SUBSET Artifacts]
  /\ touched \in [Runs -> SUBSET Artifacts]
  /\ foreign \in 0..MaxForeign
  /\ moved \in [Runs -> SUBSET {"commit", "pin", "entry", "hash", "unlink", "clean"}]

(* Every variable keeps the shape its declaration gives it.                *)
TypeOK == SourcesTypeOK /\ RunsTypeOK /\ OutputTypeOK

(* A manifest, even a truncated one, exists only if every byte that went   *)
(* into every staged artifact is the byte the plan pinned, however the     *)
(* sources were rewritten, restored or replaced while the run read them    *)
(* (the purpose of before_manifest=sources.verify_unchanged).              *)
SourceBinding ==
  \A r \in Runs : manifest[r] # "none" =>
    \A a \in Artifacts, s \in Sources : read[r][a][s] = Good

(* File f of artifact a holds the bytes the plan pins.                     *)
PlannedBytes(a, f) ==
  /\ f \in Runs \cup Copies
  /\ a \notin tampered[f]
  /\ f \in Runs => \A s \in Sources : read[f][a][s] = Good

(* The output path names what r identified, holding every artifact of the  *)
(* plan with its planned bytes, whoever wrote them, and nothing else.      *)
WholeAtOutput(r) ==
  /\ parent = home[r]
  /\ Cur = outId[r]
  /\ Present = Artifacts \cup {Manifest}
  /\ \A a \in Artifacts : PlannedBytes(a, At(a))

(* Nobody changed anything around a claim or during a cleanup, of any run; *)
(* nor between a claim and the last rehash.  One change is enough for      *)
(* every run: a run misled by it may itself exchange what another run has  *)
(* checked.                                                                *)
NoneMoved == \A q \in Runs : moved[q] \cap {"clean", "pin"} = {}
NoneSwapped == \A q \in Runs : "entry" \notin moved[q]

(* When a manifest is completed, the output path names the directory the   *)
(* run identified, which holds the artifacts with the bytes the plan pins  *)
(* and nothing else, even where a file was replaced by an identical one    *)
(* and adopted by the rehash -- unless somebody changed the output after   *)
(* the last recheck of the run, or misled a claim or a cleanup of some run *)
(* (publish_native_export, lines 129-195).                                 *)
CommitIsWhole ==
  [][\A r \in Runs :
       /\ manifest[r] = "partial" /\ manifest'[r] = "full"
       /\ "commit" \notin moved[r]
       /\ NoneMoved
       => WholeAtOutput(r)]_vars

(* Unless somebody misled a claim or a cleanup, a run removes only the     *)
(* directory it created, and in it only a file it recorded at the rehash;  *)
(* and unless somebody put a file there before a rehash, whose identical   *)
(* bytes the rehash takes for the run's own, that file is the one the run  *)
(* linked (publish_native_export, lines 171-189).                          *)
CleanupOnlyOwn ==
  [][\A r \in Runs : pc[r] \in {"unlink", "rmdir"} /\ pc'[r] # pc[r] /\ NoneMoved =>
       /\ \A d \in DirIds, n \in Names : dirs[d][n] # NoFile /\ dirs'[d][n] = NoFile =>
            /\ d = r /\ n \in Artifacts /\ dirs[d][n] = published[r][n]
            /\ NoneSwapped => dirs[d][n] = r
       /\ \A p \in Parents : out[p] # NoDir /\ out'[p] = NoDir => out[p] = r]_vars

(* A refused final check takes back everything the run linked: when the    *)
(* cleanup ran to its end and nobody exchanged anything around the claim,  *)
(* the rehash or the cleanup of the run, no artifact of the run is left in *)
(* the directory it had claimed.  (A file exchanged before the rehash is   *)
(* recorded in its place, and the run's own then stays behind.)            *)
CleanupComplete ==
  \A r \in Runs : pc[r] = "cleaned" /\ moved[r] \cap {"pin", "hash", "clean"} = {} =>
    \A a \in Artifacts : dirs[r][a] # r

(* "A foreign replacement must never be removed during failure cleanup"    *)
(* (native_export.py:173): no cleanup step removes a file or directory     *)
(* that the run did not create.                                            *)
NeverRemovesForeign ==
  [][\A r \in Runs : pc[r] \in {"unlink", "rmdir"} /\ pc'[r] # pc[r] =>
       /\ \A d \in DirIds, n \in Names :
            dirs[d][n] = Foreign => dirs'[d][n] = Foreign
       /\ \A p \in Parents : out[p] = Foreign => out'[p] = Foreign]_vars

-----------------------------------------------------------------------------
(* Without foreign changes the transaction implements AtomicPublication:   *)
(* the commit point is the step that completes the manifest.               *)
NoRun == NoDir
Winner == IF \E r \in Runs : manifest[r] = "full"
          THEN CHOOSE r \in Runs : manifest[r] = "full" ELSE NoRun
Outcome == [r \in Runs |-> CASE pc[r] = "published"           -> "published"
                             [] pc[r] \in {"failed", "cleaned"} -> "refused"
                             [] OTHER                           -> "running"]
Publication == INSTANCE AtomicPublication WITH winner <- Winner, outcome <- Outcome

(* Every step of every run commits, reports, refuses or stutters: at most  *)
(* one run ever commits, nothing undoes it, success implies commitment.    *)
PublishesAtomically == Publication!Spec
=============================================================================
