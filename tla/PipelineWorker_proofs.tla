----------------------- MODULE PipelineWorker_proofs -----------------------
(***************************************************************************)
(* Proofs about PipelineWorker, for any number of threads, packages,       *)
(* documents, shards, slots, requests and changes of the exported files.   *)
(***************************************************************************)
EXTENDS PipelineWorker, SequenceLemmas, TLAPS, FiniteSetTheorems

-----------------------------------------------------------------------------
(* The files of Beta4Binding: what a verification knows of those it has    *)
(* read, hashed and bound, for any export and any changes of it.           *)

Content == Exports \cup {Torn, NoData} \cup {Recorded[k] : k \in Packages}
FileRec == [inode : Nat, stamp : Nat, data : Content]
Phases == {"none", "census", "hashing", "detecting", "detected", "documents", "opening", "binding",
           "sources", "files", "bound", "undeclared", "refused"}

CheckRec == [phase : Phases, pkg : Packages, at : Nat \ {0}, attempted : BOOLEAN,
             bound : [FileNames -> FileRec], held : Seq(FileRec)]

FileType ==
  /\ clock \in Nat \ {0}
  /\ file \in [Paths -> FileRec]
  /\ check \in [Threads -> CheckRec]

(* An inode with a stamp that was left behind never comes back, so while a *)
(* path has the identity a record was taken with, it has the data as well. *)
Same(p, f) == file[p].inode = f.inode /\ file[p].stamp = f.stamp

Pinned(p, f) ==
  /\ f.inode \in 1..clock /\ f.stamp <= clock
  /\ Same(p, f) => file[p].data = f.data

FilesOK ==
  \A p \in Paths :
    /\ file[p].inode <= clock /\ file[p].stamp <= clock
    /\ file[p].inode = 0 => file[p] = Absent

LastOf(phase) ==
  CASE phase \in {"hashing", "files"} -> Len(Files)
    [] phase \in {"detecting", "documents"} -> Len(Documents)
    [] phase \in {"opening", "binding", "sources"} -> Len(Shards)
    [] OTHER -> 1

DocumentPinned(t, i) == Pinned(Path(t, Documents[i]), check[t].bound[Documents[i]])
ShardPinned(t, i) == Pinned(Path(t, Shards[i]), check[t].bound[Shards[i]])
HeldPinned(t, i) == Pinned(Path(t, Shards[i]), check[t].held[i])

(* A shard is bound with the digest of what was opened and the identity of *)
(* what is there now: the same file as long as the one opened is there.    *)
ShardBound(t, i) ==
  Same(Path(t, Shards[i]), check[t].held[i]) => check[t].bound[Shards[i]] = check[t].held[i]

AtOK(t) == check[t].at <= LastOf(check[t].phase)

DocumentsOK(t) ==
  \A i \in 1..Len(Documents) :
    \/ check[t].phase = "documents" /\ i < check[t].at
    \/ check[t].phase \in {"opening", "binding", "sources", "files", "bound"}
    => DocumentPinned(t, i)

HeldOK(t) ==
  /\ check[t].phase \in {"census", "hashing", "detecting", "detected", "documents"} => check[t].held = <<>>
  /\ check[t].phase = "opening" => Len(check[t].held) = check[t].at - 1
  /\ check[t].phase \in {"binding", "sources"} => Len(check[t].held) = Len(Shards)
  /\ check[t].phase \in {"opening", "binding", "sources"} =>
       \A i \in 1..Len(check[t].held) : HeldPinned(t, i)

ShardsOK(t) ==
  \A i \in 1..Len(Shards) :
    /\ \/ check[t].phase = "binding" /\ i < check[t].at
       \/ check[t].phase = "sources"
       => ShardBound(t, i)
    /\ \/ check[t].phase = "sources" /\ i < check[t].at
       \/ check[t].phase \in {"files", "bound"}
       => ShardPinned(t, i)

OneExport(t) == \E x \in Exports : \A name \in FileNames : check[t].bound[name].data = x

ExportOK(t) ==
  /\ check[t].phase \in {"opening", "binding"} => Agreed(check[t].bound)
  /\ check[t].phase \in {"sources", "files", "bound"} => OneExport(t)

CheckOK(t) == AtOK(t) /\ DocumentsOK(t) /\ HeldOK(t) /\ ShardsOK(t) /\ ExportOK(t)

FileInv == FileType /\ FilesOK /\ \A t \in Threads : CheckOK(t)

-----------------------------------------------------------------------------
(* Lemmas about names and lists.                                           *)

LEMMA DocumentNames ==
  /\ Len(Documents) \in Nat \ {0} /\ Len(Shards) \in Nat \ {0} /\ Len(Files) = Len(Documents) + Len(Shards)
  /\ \A i \in 1..Len(Documents) : Documents[i] \in FileNames
  /\ \A i, j \in 1..Len(Documents) : Documents[i] = Documents[j] => i = j
<1>0. Documents \in Seq(STRING) /\ Shards \in Seq(STRING) /\ Documents # <<>> /\ Shards # <<>>
  BY Beta4BindingAssumption
<1>1. Len(Documents) \in Nat \ {0} /\ Len(Shards) \in Nat \ {0} /\ Len(Files) = Len(Documents) + Len(Shards)
  BY <1>0 DEF Files
<1>2. \A i \in 1..Len(Documents) : i \in 1..Len(Files) /\ Files[i] = Documents[i]
  BY <1>0, <1>1 DEF Files
<1>3. \A i, j \in 1..Len(Files) : Files[i] = Files[j] => i = j
  BY Beta4BindingAssumption DEF Files
<1>4. QED
  BY <1>1, <1>2, <1>3 DEF FileNames

LEMMA ShardNames ==
  /\ \A i \in 1..Len(Shards) : Shards[i] \in FileNames
  /\ \A i, j \in 1..Len(Shards) : Shards[i] = Shards[j] => i = j
  /\ \A i \in 1..Len(Documents), j \in 1..Len(Shards) : Documents[i] # Shards[j]
<1>0. Documents \in Seq(STRING) /\ Shards \in Seq(STRING)
  BY Beta4BindingAssumption
<1>1. Len(Files) = Len(Documents) + Len(Shards) /\ Len(Documents) \in Nat /\ Len(Shards) \in Nat
  BY DocumentNames
<1>2. \A i \in 1..Len(Shards) : i + Len(Documents) \in 1..Len(Files) /\ Files[i + Len(Documents)] = Shards[i]
  BY <1>0, <1>1 DEF Files
<1>3. \A i \in 1..Len(Documents) : i \in 1..Len(Files) /\ Files[i] = Documents[i]
  BY <1>0, <1>1 DEF Files
<1>4. \A i, j \in 1..Len(Files) : Files[i] = Files[j] => i = j
  BY Beta4BindingAssumption DEF Files
<1>5. \A i \in 1..Len(Shards) : Shards[i] \in FileNames
  BY <1>2 DEF FileNames
<1>6. ASSUME NEW i \in 1..Len(Shards), NEW j \in 1..Len(Shards), Shards[i] = Shards[j]
      PROVE  i = j
  <2>1. i + Len(Documents) = j + Len(Documents)
    BY <1>2, <1>4, <1>6
  <2>2. QED
    BY <1>1, <2>1
<1>7. ASSUME NEW i \in 1..Len(Documents), NEW j \in 1..Len(Shards), Documents[i] = Shards[j]
      PROVE  FALSE
  <2>1. i = j + Len(Documents)
    BY <1>2, <1>3, <1>4, <1>7
  <2>2. QED
    BY <1>1, <2>1
<1>8. QED
  BY <1>5, <1>6, <1>7

LEMMA EveryName ==
  ASSUME NEW name \in FileNames
  PROVE  \/ \E i \in 1..Len(Documents) : name = Documents[i]
         \/ \E i \in 1..Len(Shards) : name = Shards[i]
<1>0. Documents \in Seq(STRING) /\ Shards \in Seq(STRING)
  BY Beta4BindingAssumption
<1>1. Len(Files) = Len(Documents) + Len(Shards) /\ Len(Documents) \in Nat /\ Len(Shards) \in Nat
  BY DocumentNames
<1>2. PICK i \in 1..Len(Files) : name = Files[i]
  BY DEF FileNames
<1>3. CASE i <= Len(Documents)
  BY <1>0, <1>1, <1>2, <1>3 DEF Files
<1>4. CASE i > Len(Documents)
  <2>1. i - Len(Documents) \in 1..Len(Shards) /\ name = Shards[i - Len(Documents)]
    BY <1>0, <1>1, <1>2, <1>4 DEF Files
  <2>2. QED
    BY <2>1
<1>5. QED
  BY <1>1, <1>3, <1>4

LEMMA PathIsPath ==
  ASSUME FileType, NEW t \in Threads, NEW name \in FileNames
  PROVE  Path(t, name) \in Paths
BY Beta4BindingAssumption DEF FileType, CheckRec, Path, FileNames, Files

LEMMA DeclaringNames == Declaring \subseteq FileNames /\ Declaring # {}
BY Beta4BindingAssumption, DocumentNames
-----------------------------------------------------------------------------
(* Lemmas about steps.                                                     *)

LEMMA FileInit ==
  ASSUME BindingInit
  PROVE  FileInv
<1> DEFINE some == CHOOSE k \in Packages : TRUE
<1>0. some \in Packages
  BY Beta4BindingAssumption
<1>1. \A p \in Paths : p[1] \in Packages
  BY Beta4BindingAssumption
<1>2. Absent \in FileRec
  BY DEF Absent, FileRec, Content
<1>3. NoCheck(some) \in CheckRec
  BY <1>0, <1>2 DEF NoCheck, CheckRec, Phases, Unbound
<1>4. FileType
  BY <1>1, <1>3 DEF BindingInit, FileType, FileRec, Content
<1>5. FilesOK
  <2>1. clock = 1 /\ 1 \in Nat
    BY DEF BindingInit
  <2>2. ASSUME NEW p \in Paths
        PROVE  file[p].inode <= clock /\ file[p].stamp <= clock /\ (file[p].inode = 0 => file[p] = Absent)
    <3>1. file[p].inode = 1 /\ file[p].stamp = 1
      BY DEF BindingInit
    <3>2. QED
      BY <2>1, <3>1
  <2>3. QED
    BY <2>2 DEF FilesOK
<1>6. ASSUME NEW t \in Threads
      PROVE  CheckOK(t)
  <2>1. check[t].phase = "none" /\ check[t].at = 1
    BY DEF BindingInit, NoCheck
  <2>2. AtOK(t)
    BY <2>1 DEF AtOK, LastOf
  <2>3. QED
    BY <2>1, <2>2 DEF CheckOK, DocumentsOK, HeldOK, ShardsOK, ExportOK
<1>7. QED
  BY <1>4, <1>5, <1>6 DEF FileInv

(* A change of files: what a path loses in it never comes back.            *)
FilesChange ==
  /\ clock' = clock + 1 /\ file' \in [Paths -> FileRec]
  /\ \A p \in Paths : \/ file'[p] = file[p] \/ file'[p] = Absent
                      \/ file'[p].stamp = clock + 1 /\ file'[p].inode \in 1..clock + 1

LEMMA EditKeeps ==
  ASSUME FileType, FilesChange, NEW p \in Paths, NEW f \in FileRec, Pinned(p, f)
  PROVE  Pinned(p, f)' /\ (Same(p, f)' => Same(p, f))
BY DEF FileType, FilesChange, Pinned, Same, FileRec, Absent

LEMMA FileEdit ==
  ASSUME FileInv, FilesChange, UNCHANGED check
  PROVE  FileInv'
<1>0. clock \in Nat \ {0} /\ check \in [Threads -> CheckRec] /\ file \in [Paths -> FileRec]
  BY DEF FileInv, FileType, FilesChange
<1>1. FileType'
  BY <1>0 DEF FileType, FilesChange
<1>2. FilesOK'
  <2>1. ASSUME NEW p \in Paths
        PROVE  file'[p].inode <= clock' /\ file'[p].stamp <= clock' /\ (file'[p].inode = 0 => file'[p] = Absent)
    BY <1>0 DEF FileInv, FilesOK, FilesChange, FileRec, Absent
  <2>2. QED
    BY <2>1 DEF FilesOK
<1>3. ASSUME NEW p \in Paths, NEW f \in FileRec, Pinned(p, f)
      PROVE  Pinned(p, f)' /\ (Same(p, f)' => Same(p, f))
  BY <1>3, EditKeeps DEF FileInv
<1>4. ASSUME NEW t \in Threads
      PROVE  CheckOK(t)'
  <2>0. /\ check[t] \in CheckRec /\ check'[t] = check[t] /\ CheckOK(t)
        /\ \A name \in FileNames : Path(t, name) \in Paths /\ Path(t, name)' = Path(t, name)
        /\ \A name \in FileNames : check[t].bound[name] \in FileRec
        /\ \A i \in 1..Len(check[t].held) : check[t].held[i] \in FileRec
    BY <1>0, PathIsPath DEF FileInv, CheckRec, Path
  <2>1. AtOK(t)' /\ ExportOK(t)'
    BY <2>0 DEF CheckOK, AtOK, ExportOK, OneExport
  <2>2. DocumentsOK(t)'
    BY <1>3, <2>0, DocumentNames DEF CheckOK, DocumentsOK, DocumentPinned
  <2>3. HeldOK(t)'
    <3>1. ASSUME NEW i \in 1..Len(check[t].held), HeldPinned(t, i), i \in 1..Len(Shards)
          PROVE  HeldPinned(t, i)'
      BY <1>3, <2>0, <3>1, ShardNames DEF HeldPinned
    <3>2. check[t].phase \in {"opening", "binding", "sources"} => Len(check[t].held) <= Len(Shards)
      BY <2>0, DocumentNames DEF CheckOK, HeldOK, AtOK, LastOf, CheckRec
    <3>3. QED
      BY <2>0, <3>1, <3>2, DocumentNames, SMTT(30) DEF CheckOK, HeldOK
  <2>4. ShardsOK(t)'
    <3>1. ASSUME NEW i \in 1..Len(Shards), ShardPinned(t, i)
          PROVE  ShardPinned(t, i)'
      BY <1>3, <2>0, <3>1, ShardNames DEF ShardPinned
    <3>2. ASSUME NEW i \in 1..Len(Shards), ShardBound(t, i), check[t].phase \in {"binding", "sources"}
          PROVE  ShardBound(t, i)'
      <4>1. i \in 1..Len(check[t].held) /\ HeldPinned(t, i)
        BY <2>0, <3>2 DEF CheckOK, HeldOK
      <4>2. Same(Path(t, Shards[i]), check[t].held[i])' => Same(Path(t, Shards[i]), check[t].held[i])
        BY <1>3, <2>0, <4>1, ShardNames DEF HeldPinned
      <4>3. QED
        BY <2>0, <3>2, <4>2 DEF ShardBound
    <3>3. QED
      BY <2>0, <3>1, <3>2 DEF CheckOK, ShardsOK
  <2>5. QED
    BY <2>1, <2>2, <2>3, <2>4 DEF CheckOK
<1>5. QED
  BY <1>1, <1>2, <1>4 DEF FileInv

(* A step of one verification.                                             *)
LEMMA CheckUpdate ==
  ASSUME FileInv, NEW t \in Threads, NEW new \in CheckRec, UNCHANGED <<file, clock>>,
         check' = [check EXCEPT ![t] = new], CheckOK(t)'
  PROVE  FileInv'
<1>1. /\ check' \in [Threads -> CheckRec]
      /\ \A u \in Threads \ {t} : check'[u] = check[u]
  BY DEF FileInv, FileType
<1>2. FileType' /\ FilesOK'
  BY <1>1 DEF FileInv, FileType, FilesOK
<1>3. ASSUME NEW u \in Threads \ {t}
      PROVE  CheckOK(u)'
  <2>1. CheckOK(u) /\ check'[u] = check[u]
    BY <1>1 DEF FileInv
  <2>2. AtOK(u)' /\ DocumentsOK(u)'
    BY <2>1 DEF CheckOK, AtOK, DocumentsOK, DocumentPinned, Pinned, Same, Path
  <2>3. HeldOK(u)'
    BY <2>1 DEF CheckOK, HeldOK, HeldPinned, Pinned, Same, Path
  <2>4. ShardsOK(u)'
    BY <2>1 DEF CheckOK, ShardsOK, ShardPinned, ShardBound, Pinned, Same, Path
  <2>5. ExportOK(u)'
    BY <2>1 DEF CheckOK, ExportOK, OneExport
  <2>6. QED
    BY <2>2, <2>3, <2>4, <2>5 DEF CheckOK
<1>4. QED
  BY <1>2, <1>3 DEF FileInv

LEMMA PhaseUpdate ==
  ASSUME NEW t \in Threads, NEW phase, check \in [Threads -> CheckRec], Phase(t, phase)
  PROVE  check' = [check EXCEPT ![t] = [check[t] EXCEPT !.phase = phase, !.at = 1]]
<1> DEFINE f == check
<1>1. f \in [Threads -> CheckRec] /\ check' = [f EXCEPT ![t].phase = phase, ![t].at = 1]
  BY DEF Phase
<1> SUFFICES check' = [f EXCEPT ![t] = [f[t] EXCEPT !.phase = phase, !.at = 1]]
  OBVIOUS
<1> HIDE DEF f
<1>2. QED
  BY <1>1
(* Another phase or place of the same record.                              *)
SameRecord(to, new) ==
  to.pkg = new.pkg /\ to.attempted = new.attempted /\ to.bound = new.bound /\ to.held = new.held

LEMMA Moved ==
  ASSUME NEW new \in CheckRec, NEW phase \in Phases, NEW at \in Nat \ {0}
  PROVE  LET to == [new EXCEPT !.phase = phase, !.at = at]
         IN  to \in CheckRec /\ to.phase = phase /\ to.at = at /\ SameRecord(to, new)
BY DEF CheckRec, SameRecord

(* One more of a list done.                                                *)
LEMMA Advanced ==
  ASSUME NEW t \in Threads, NEW last \in Nat \ {0}, NEW phase \in Phases, NEW new \in CheckRec,
         Advance(t, last, phase, new), new.at <= last
  PROVE  \E to \in CheckRec :
           /\ check' = [check EXCEPT ![t] = to] /\ SameRecord(to, new)
           /\ \/ new.at = last /\ to.phase = phase /\ to.at = 1
              \/ new.at < last /\ to.phase = new.phase /\ to.at = new.at + 1
<1> DEFINE a == IF new.at = last THEN phase ELSE new.phase
           b == IF new.at = last THEN 1 ELSE new.at + 1
           to == [new EXCEPT !.phase = a, !.at = b]
<1>1. check' = [check EXCEPT ![t] = to]
  BY DEF Advance
<1>2. a \in Phases /\ b \in Nat \ {0}
  BY DEF CheckRec
<1>3. \/ new.at = last /\ a = phase /\ b = 1
      \/ new.at < last /\ a = new.phase /\ b = new.at + 1
  BY DEF CheckRec
<1> HIDE DEF a, b
<1>4. to \in CheckRec /\ to.phase = a /\ to.at = b /\ SameRecord(to, new)
  BY <1>2, Moved
<1>5. QED
  <2> HIDE DEF to
  <2>1. QED
    BY <1>1, <1>3, <1>4

(* Where a verification stops or has read nothing yet.                     *)
LEMMA EarlyOK ==
  ASSUME FileType', NEW t \in Threads, AtOK(t)',
         \/ check'[t].phase \in {"none", "undeclared", "refused"}
         \/ /\ check'[t].phase \in {"census", "hashing", "detecting", "detected", "documents"}
            /\ check'[t].held = <<>>
            /\ check'[t].phase = "documents" => check'[t].at = 1
  PROVE  CheckOK(t)'
<1>1. check'[t] \in CheckRec
  BY DEF FileType
<1>2. HeldOK(t)' /\ ShardsOK(t)' /\ ExportOK(t)'
  BY <1>1 DEF HeldOK, ShardsOK, ExportOK
<1>3. DocumentsOK(t)'
  BY <1>1, DocumentNames DEF DocumentsOK
<1>4. QED
  BY <1>2, <1>3 DEF CheckOK

LEMMA FileEarly ==
  ASSUME FileInv, NEW t \in Threads, NEW new \in CheckRec, UNCHANGED <<file, clock>>,
         check' = [check EXCEPT ![t] = new], new.at <= LastOf(new.phase),
         \/ new.phase \in {"none", "undeclared", "refused"}
         \/ /\ new.phase \in {"census", "hashing", "detecting", "detected", "documents"}
            /\ new.held = <<>>
            /\ new.phase = "documents" => new.at = 1
  PROVE  FileInv'
<1>1. check'[t] = new /\ FileType' /\ AtOK(t)'
  BY DEF FileInv, FileType, AtOK
<1>2. CheckOK(t)'
  BY <1>1, EarlyOK
<1>3. QED
  BY <1>2, CheckUpdate
(* A phase that begins, and a refusal.                                     *)
LEMMA FilePhase ==
  ASSUME FileInv, NEW t \in Threads, UNCHANGED <<file, clock>>, NEW phase, Phase(t, phase),
         \/ phase \in {"undeclared", "refused"}
         \/ phase \in {"hashing", "documents"} /\ check[t].held = <<>>
  PROVE  FileInv'
<1> DEFINE new == [check[t] EXCEPT !.phase = phase, !.at = 1]
<1>1. check[t] \in CheckRec /\ check \in [Threads -> CheckRec]
  BY DEF FileInv, FileType
<1>2. new \in CheckRec /\ new.phase = phase /\ new.at = 1 /\ new.held = check[t].held
  <2>1. phase \in Phases /\ 1 \in Nat \ {0}
    BY DEF Phases
  <2>2. QED
    BY <1>1, <2>1 DEF CheckRec
<1>3. check' = [check EXCEPT ![t] = new]
  BY <1>1, PhaseUpdate
<1>4. 1 <= LastOf(phase)
  BY DocumentNames DEF LastOf
<1>5. QED
  <2> HIDE DEF new
  <2>1. QED
    BY <1>2, <1>3, <1>4, FileEarly

LEMMA FileRefuses ==
  ASSUME FileInv, NEW t \in Threads, UNCHANGED <<file, clock>>, Refuses(t)
  PROVE  FileInv'
BY FilePhase DEF Refuses

LEMMA FileStart ==
  ASSUME FileInv, NEW t \in Threads, NEW k \in Packages, UNCHANGED <<file, clock>>, BindingStart(t, k)
  PROVE  FileInv'
<1> DEFINE new == [NoCheck(k) EXCEPT !.phase = "census"]
<1>1. Absent \in FileRec
  BY DEF Absent, FileRec, Content
<1>2. NoCheck(k) \in CheckRec
  BY <1>1 DEF NoCheck, CheckRec, Phases, Unbound
<1>3. new \in CheckRec /\ new.phase = "census" /\ new.at = 1 /\ new.held = <<>>
  BY <1>2 DEF NoCheck, CheckRec, Phases
<1>4. 1 <= LastOf("census")
  BY DEF LastOf
<1>5. check' = [check EXCEPT ![t] = new]
  BY DEF BindingStart
<1>6. QED
  <2> HIDE DEF new
  <2>1. QED
    BY <1>3, <1>4, <1>5, FileEarly

(* Nothing is read into the record before the documents are.               *)
LEMMA FileBefore ==
  ASSUME FileInv, NEW t \in Threads, ListPackage(t) \/ HashFile(t) \/ Detect(t) \/ ListTree(t)
  PROVE  FileInv'
<1>0. /\ check[t] \in CheckRec /\ check \in [Threads -> CheckRec] /\ CheckOK(t) /\ FileType
      /\ UNCHANGED <<file, clock>>
  BY DEF FileInv, FileType, ListPackage, HashFile, Detect, ListTree
<1>1. CASE ListPackage(t)
  BY <1>0, <1>1, FilePhase DEF ListPackage, CheckOK, HeldOK
<1>2. CASE HashFile(t)
  <2>1. CASE Refuses(t)
    BY <1>0, <2>1, FileRefuses
  <2>2. CASE ~Refuses(t)
    <3>1. Advance(t, Len(Files), "detecting", check[t]) /\ check[t].at <= Len(Files)
          /\ check[t].phase = "hashing" /\ check[t].held = <<>>
      BY <1>0, <1>2, <2>2 DEF HashFile, CheckOK, AtOK, HeldOK, LastOf
    <3>2. PICK to \in CheckRec :
            /\ check' = [check EXCEPT ![t] = to] /\ SameRecord(to, check[t])
            /\ \/ check[t].at = Len(Files) /\ to.phase = "detecting" /\ to.at = 1
               \/ check[t].at < Len(Files) /\ to.phase = check[t].phase /\ to.at = check[t].at + 1
      BY <1>0, <3>1, DocumentNames, Advanced, "detecting" \in Phases DEF Phases
    <3>3. to.held = <<>> /\ to.phase \in {"hashing", "detecting"} /\ to.at <= LastOf(to.phase)
      BY <1>0, <3>1, <3>2, DocumentNames DEF LastOf, CheckRec, SameRecord
    <3>4. QED
      BY <1>0, <3>2, <3>3, FileEarly
  <2>3. QED
    BY <2>1, <2>2
<1>3. CASE Detect(t)
  <2>1. CASE Refuses(t)
    BY <1>0, <2>1, FileRefuses
  <2>2. CASE ~Refuses(t)
    <3> DEFINE hit == Documents[check[t].at] \in Declaring
                        /\ file[Path(t, Documents[check[t].at])].data \in Exports
               new == [check[t] EXCEPT !.attempted = @ \/ hit]
    <3>1. /\ Advance(t, Len(Documents), "detected", new) /\ check[t].at <= Len(Documents)
          /\ check[t].phase = "detecting" /\ check[t].held = <<>>
      BY <1>0, <1>3, <2>2 DEF Detect, CheckOK, AtOK, HeldOK, LastOf
    <3>2. new \in CheckRec /\ new.at = check[t].at /\ new.phase = check[t].phase /\ new.held = check[t].held
      BY <1>0 DEF CheckRec
    <3> HIDE DEF new
    <3>3. PICK to \in CheckRec :
            /\ check' = [check EXCEPT ![t] = to] /\ SameRecord(to, new)
            /\ \/ new.at = Len(Documents) /\ to.phase = "detected" /\ to.at = 1
               \/ new.at < Len(Documents) /\ to.phase = new.phase /\ to.at = new.at + 1
      BY <1>0, <3>1, <3>2, DocumentNames, Advanced, "detected" \in Phases DEF Phases
    <3>4. to.held = <<>> /\ to.phase \in {"detecting", "detected"} /\ to.at <= LastOf(to.phase)
      BY <3>1, <3>2, <3>3, DocumentNames DEF LastOf, CheckRec, SameRecord
    <3>5. QED
      BY <1>0, <3>3, <3>4, FileEarly
  <2>3. QED
    BY <2>1, <2>2
<1>4. CASE ListTree(t)
  <2>1. check[t].held = <<>>
    BY <1>0, <1>4 DEF ListTree, CheckOK, HeldOK
  <2>2. PICK phase \in {"undeclared", "documents", "refused"} : Phase(t, phase)
    BY <1>4 DEF ListTree
  <2>3. QED
    BY <1>0, <2>1, <2>2, FilePhase
<1>5. QED
  BY <1>1, <1>2, <1>3, <1>4
(* A document is bound as it is now.                                       *)
LEMMA FileDocument ==
  ASSUME FileInv, NEW t \in Threads, ReadDocument(t)
  PROVE  FileInv'
<1> DEFINE i == check[t].at
           name == Documents[i]
           new == [check[t] EXCEPT !.bound[name] = file[Path(t, name)]]
<1>0. /\ check[t] \in CheckRec /\ check \in [Threads -> CheckRec] /\ CheckOK(t) /\ FileType
      /\ UNCHANGED <<file, clock>> /\ check[t].phase = "documents"
  BY DEF FileInv, FileType, ReadDocument
<1>1. CASE Refuses(t)
  BY <1>0, <1>1, FileRefuses
<1>2. CASE ~Refuses(t)
  <2>1. i \in 1..Len(Documents) /\ check[t].held = <<>>
    BY <1>0, DocumentNames DEF CheckOK, AtOK, HeldOK, LastOf, CheckRec
  <2>2. name \in FileNames /\ Path(t, name) \in Paths
    BY <1>0, <2>1, DocumentNames, PathIsPath
  <2>3. /\ Advance(t, Len(Documents), "opening", new) /\ Exists(Path(t, name))
        /\ i = Len(Documents) => Agreed(new.bound)
    BY <1>0, <1>2 DEF ReadDocument
  <2>4. Pinned(Path(t, name), file[Path(t, name)]) /\ file[Path(t, name)] \in FileRec
    BY <1>0, <2>2, <2>3 DEF FileInv, FileType, FilesOK, FileRec, Pinned, Exists
  <2>5. /\ new \in CheckRec /\ new.at = i /\ new.phase = "documents" /\ new.pkg = check[t].pkg
        /\ new.held = <<>> /\ new.bound = [check[t].bound EXCEPT ![name] = file[Path(t, name)]]
    BY <1>0, <2>1, <2>2, <2>4 DEF CheckRec
  <2>6. \A j \in 1..i : Pinned(Path(t, Documents[j]), new.bound[Documents[j]])
    <3>1. ASSUME NEW j \in 1..i - 1
          PROVE  Pinned(Path(t, Documents[j]), new.bound[Documents[j]])
      <4>1. j \in 1..Len(Documents) /\ j < i /\ Documents[j] # name /\ Documents[j] \in FileNames
        BY <2>1, DocumentNames
      <4>2. new.bound[Documents[j]] = check[t].bound[Documents[j]]
        BY <1>0, <2>5, <4>1 DEF CheckRec
      <4>3. DocumentPinned(t, j)
        BY <1>0, <4>1 DEF CheckOK, DocumentsOK
      <4>4. QED
        BY <4>2, <4>3 DEF DocumentPinned
    <3>2. Pinned(Path(t, name), new.bound[name])
      BY <1>0, <2>2, <2>4, <2>5 DEF CheckRec
    <3>3. QED
      <4> HIDE DEF new
      <4>1. QED
        BY <2>1, <3>1, <3>2
  <2> HIDE DEF new
  <2>7. PICK to \in CheckRec :
          /\ check' = [check EXCEPT ![t] = to] /\ SameRecord(to, new)
          /\ \/ new.at = Len(Documents) /\ to.phase = "opening" /\ to.at = 1
             \/ new.at < Len(Documents) /\ to.phase = new.phase /\ to.at = new.at + 1
    BY <2>1, <2>3, <2>5, DocumentNames, Advanced, "opening" \in Phases DEF Phases
  <2>8. /\ check'[t] = to /\ to.bound = new.bound /\ to.held = <<>>
        /\ \A p, f : Pinned(p, f)' = Pinned(p, f)
        /\ \A n \in FileNames : Path(t, n)' = Path(t, n)
    BY <1>0, <2>5, <2>7 DEF Pinned, Same, Path, SameRecord
  <2>9. AtOK(t)'
    BY <2>5, <2>7, <2>8, <2>1, DocumentNames DEF AtOK, LastOf
  <2>10. DocumentsOK(t)'
    <3>1. ASSUME NEW j \in 1..i, j <= Len(Documents)
          PROVE  DocumentPinned(t, j)'
      BY <2>6, <2>8, <3>1, DocumentNames DEF DocumentPinned
    <3>2. \/ to.phase = "opening" /\ i = Len(Documents)
          \/ to.phase = "documents" /\ to.at = i + 1
      BY <2>1, <2>5, <2>7
    <3>3. QED
      BY <2>1, <2>8, <3>1, <3>2, DocumentNames DEF DocumentsOK
  <2>11. HeldOK(t)' /\ ShardsOK(t)'
    BY <2>5, <2>7, <2>8 DEF HeldOK, ShardsOK
  <2>12. ExportOK(t)'
    BY <2>3, <2>5, <2>7, <2>8 DEF ExportOK
  <2>13. QED
    BY <1>0, <2>7, <2>9, <2>10, <2>11, <2>12, CheckUpdate DEF CheckOK
<1>3. QED
  BY <1>1, <1>2

(* A shard is held as it is now.                                           *)
LEMMA FileOpen ==
  ASSUME FileInv, NEW t \in Threads, OpenShard(t)
  PROVE  FileInv'
<1> DEFINE i == check[t].at
           f == file[Path(t, Shards[i])]
           new == [check[t] EXCEPT !.held = Append(@, f)]
<1>0. /\ check[t] \in CheckRec /\ check \in [Threads -> CheckRec] /\ CheckOK(t) /\ FileType
      /\ UNCHANGED <<file, clock>> /\ check[t].phase = "opening"
  BY DEF FileInv, FileType, OpenShard
<1>1. CASE Refuses(t)
  BY <1>0, <1>1, FileRefuses
<1>2. CASE ~Refuses(t)
  <2>1. i \in 1..Len(Shards) /\ Len(check[t].held) = i - 1 /\ check[t].held \in Seq(FileRec)
    BY <1>0, DocumentNames DEF CheckOK, AtOK, HeldOK, LastOf, CheckRec
  <2>2. Shards[i] \in FileNames /\ Path(t, Shards[i]) \in Paths
    BY <1>0, <2>1, ShardNames, PathIsPath
  <2>3. Advance(t, Len(Shards), "binding", new) /\ f # Absent
    BY <1>0, <1>2 DEF OpenShard
  <2>4. Pinned(Path(t, Shards[i]), f) /\ f \in FileRec
    BY <1>0, <2>2, <2>3 DEF FileInv, FileType, FilesOK, FileRec, Pinned
  <2>5. /\ new \in CheckRec /\ new.at = i /\ new.phase = "opening" /\ new.pkg = check[t].pkg
        /\ new.held = Append(check[t].held, f) /\ new.bound = check[t].bound
    <3>1. Append(check[t].held, f) \in Seq(FileRec)
      BY <2>1, <2>4
    <3>2. new = [check[t] EXCEPT !.held = Append(check[t].held, f)]
      OBVIOUS
    <3> HIDE DEF f, new
    <3>3. QED
      BY <1>0, <3>1, <3>2 DEF CheckRec
  <2>6. Len(new.held) = i /\ \A j \in 1..i : Pinned(Path(t, Shards[j]), new.held[j])
    <3>1. Len(new.held) = i /\ new.held[i] = f /\ \A j \in 1..i - 1 : new.held[j] = check[t].held[j]
      BY SMTT(30), <2>1, <2>4, <2>5
    <3>2. \A j \in 1..i - 1 : HeldPinned(t, j)
      BY <1>0, <2>1 DEF CheckOK, HeldOK
    <3>3. QED
      <4> HIDE DEF new
      <4>1. QED
        BY <2>1, <2>4, <3>1, <3>2 DEF HeldPinned
  <2> HIDE DEF new
  <2>7. PICK to \in CheckRec :
          /\ check' = [check EXCEPT ![t] = to] /\ SameRecord(to, new)
          /\ \/ new.at = Len(Shards) /\ to.phase = "binding" /\ to.at = 1
             \/ new.at < Len(Shards) /\ to.phase = new.phase /\ to.at = new.at + 1
    BY <2>1, <2>3, <2>5, DocumentNames, Advanced, "binding" \in Phases DEF Phases
  <2>8. /\ check'[t] = to /\ to.bound = check[t].bound /\ to.held = new.held
        /\ \A p, g : Pinned(p, g)' = Pinned(p, g)
        /\ \A n \in FileNames : Path(t, n)' = Path(t, n)
    BY <1>0, <2>5, <2>7 DEF Pinned, Same, Path, SameRecord
  <2>9. AtOK(t)'
    BY <2>5, <2>7, <2>8, <2>1, DocumentNames DEF AtOK, LastOf
  <2>10. DocumentsOK(t)'
    <3>1. \A j \in 1..Len(Documents) : DocumentPinned(t, j)
      BY <1>0 DEF CheckOK, DocumentsOK
    <3>2. QED
      BY <2>5, <2>8, <3>1, DocumentNames DEF DocumentsOK, DocumentPinned
  <2>11. HeldOK(t)'
    <3>1. ASSUME NEW j \in 1..i
          PROVE  HeldPinned(t, j)'
      BY <2>1, <2>6, <2>8, <3>1, ShardNames DEF HeldPinned
    <3>2. /\ \/ to.phase = "binding" /\ i = Len(Shards)
             \/ to.phase = "opening" /\ to.at = i + 1
          /\ Len(to.held) = i
      BY <2>1, <2>5, <2>6, <2>7, <2>8
    <3>3. QED
      BY <2>1, <2>8, <3>1, <3>2 DEF HeldOK
  <2>12. ShardsOK(t)'
    BY <2>5, <2>7, <2>8, DocumentNames DEF ShardsOK
  <2>13. ExportOK(t)'
    BY <1>0, <2>5, <2>7, <2>8 DEF ExportOK, CheckOK
  <2>14. QED
    BY <1>0, <2>7, <2>9, <2>10, <2>11, <2>12, <2>13, CheckUpdate DEF CheckOK
<1>3. QED
  BY <1>1, <1>2
(* Documents of one export and files as they list are files of one export. *)
LEMMA ListedAgrees ==
  ASSUME NEW bound, Agreed(bound), Listed(bound)
  PROVE  \E x \in Exports : \A name \in FileNames : bound[name].data = x
<1>1. PICK x \in Exports : \A name \in Declaring : bound[name].data = x
  BY DEF Agreed
<1>2. PICK name \in Declaring : name \in FileNames
  BY DeclaringNames
<1>3. \A n \in FileNames : bound[n].data = x
  BY <1>1, <1>2 DEF Listed
<1>4. QED
  BY <1>3

(* A shard is bound with the digest it was opened with.                    *)
LEMMA FileBind ==
  ASSUME FileInv, NEW t \in Threads, BindShard(t)
  PROVE  FileInv'
<1> DEFINE i == check[t].at
           now == file[Path(t, Shards[i])]
           record == [now EXCEPT !.data = check[t].held[i].data]
           new == [check[t] EXCEPT !.bound[Shards[i]] = record]
<1>0. /\ check[t] \in CheckRec /\ check \in [Threads -> CheckRec] /\ CheckOK(t) /\ FileType
      /\ UNCHANGED <<file, clock>> /\ check[t].phase = "binding"
  BY DEF FileInv, FileType, BindShard
<1>1. CASE Refuses(t)
  BY <1>0, <1>1, FileRefuses
<1>2. CASE ~Refuses(t)
  <2>1. /\ i \in 1..Len(Shards) /\ Len(check[t].held) = Len(Shards) /\ check[t].held[i] \in FileRec
        /\ HeldPinned(t, i)
    BY <1>0, DocumentNames DEF CheckOK, AtOK, HeldOK, LastOf, CheckRec
  <2>2. Shards[i] \in FileNames /\ Path(t, Shards[i]) \in Paths /\ now \in FileRec
    <3>1. Shards[i] \in FileNames
      BY <2>1, ShardNames
    <3>2. QED
      BY <1>0, <3>1, PathIsPath DEF FileType
  <2>3. /\ Advance(t, Len(Shards), "sources", new)
        /\ i = Len(Shards) => Listed(new.bound)
    BY <1>0, <1>2 DEF BindShard
  <2>4. record \in FileRec /\ (Same(Path(t, Shards[i]), check[t].held[i]) => record = check[t].held[i])
    BY <2>1, <2>2 DEF FileRec, Same
  <2>5. /\ new \in CheckRec /\ new.at = i /\ new.phase = "binding" /\ new.pkg = check[t].pkg
        /\ new.held = check[t].held /\ new.bound = [check[t].bound EXCEPT ![Shards[i]] = record]
    <3> HIDE DEF record
    <3>1. QED
      BY <1>0, <2>1, <2>2, <2>4 DEF CheckRec
  <2>6. /\ new.bound[Shards[i]] = record
        /\ \A n \in FileNames \ {Shards[i]} : new.bound[n] = check[t].bound[n]
    <3> HIDE DEF record, new
    <3>1. QED
      BY <1>0, <2>2, <2>5 DEF CheckRec
  <2> HIDE DEF new, record
  <2>7. PICK to \in CheckRec :
          /\ check' = [check EXCEPT ![t] = to] /\ SameRecord(to, new)
          /\ \/ new.at = Len(Shards) /\ to.phase = "sources" /\ to.at = 1
             \/ new.at < Len(Shards) /\ to.phase = new.phase /\ to.at = new.at + 1
    BY <2>1, <2>3, <2>5, DocumentNames, Advanced, "sources" \in Phases DEF Phases
  <2>8. /\ check'[t] = to /\ to.bound = new.bound /\ to.held = check[t].held
        /\ \A p, g : Pinned(p, g)' = Pinned(p, g) /\ Same(p, g)' = Same(p, g)
        /\ \A n \in FileNames : Path(t, n)' = Path(t, n)
    BY <1>0, <2>5, <2>7 DEF Pinned, Same, Path, SameRecord
  <2>9. AtOK(t)'
    BY <2>5, <2>7, <2>8, <2>1, DocumentNames DEF AtOK, LastOf
  <2>10. DocumentsOK(t)'
    <3>1. ASSUME NEW j \in 1..Len(Documents)
          PROVE  DocumentPinned(t, j)'
      <4>1. DocumentPinned(t, j) /\ Documents[j] \in FileNames \ {Shards[i]}
        BY <1>0, <2>1, DocumentNames, ShardNames DEF CheckOK, DocumentsOK
      <4>2. QED
        BY <2>6, <2>8, <4>1 DEF DocumentPinned
    <3>2. QED
      BY <3>1 DEF DocumentsOK
  <2>11. HeldOK(t)'
    <3>1. ASSUME NEW j \in 1..Len(Shards)
          PROVE  HeldPinned(t, j)'
      <4>1. HeldPinned(t, j) /\ Shards[j] \in FileNames
        BY <1>0, <2>1, ShardNames DEF CheckOK, HeldOK
      <4>2. QED
        BY <2>8, <4>1 DEF HeldPinned
    <3>2. QED
      BY <2>1, <2>5, <2>7, <2>8, <3>1 DEF HeldOK
  <2>12. ShardsOK(t)'
    <3>1. ASSUME NEW j \in 1..i
          PROVE  ShardBound(t, j)'
      <4>1. CASE j = i
        BY <2>1, <2>2, <2>4, <2>6, <2>8, <4>1 DEF ShardBound
      <4>2. CASE j # i
        <5>1. j \in 1..Len(Shards) /\ j < i /\ Shards[j] \in FileNames \ {Shards[i]} /\ ShardBound(t, j)
          BY <1>0, <2>1, <4>2, ShardNames DEF CheckOK, ShardsOK
        <5>2. QED
          BY <2>6, <2>8, <5>1 DEF ShardBound
      <4>3. QED
        BY <4>1, <4>2
    <3>2. \/ to.phase = "sources" /\ i = Len(Shards) /\ to.at = 1
          \/ to.phase = "binding" /\ to.at = i + 1
      BY <2>1, <2>5, <2>7
    <3>3. QED
      BY <2>1, <2>8, <3>1, <3>2 DEF ShardsOK
  <2>13. ExportOK(t)'
    <3>1. Agreed(new.bound)
      <4>1. Agreed(check[t].bound) /\ \A n \in Declaring : n \in FileNames \ {Shards[i]}
        BY <1>0, <2>1, DeclaringNames, ShardNames, Beta4BindingAssumption DEF CheckOK, ExportOK
      <4>2. QED
        BY <2>6, <4>1 DEF Agreed
    <3>2. QED
      BY <2>3, <2>5, <2>7, <2>8, <3>1, ListedAgrees DEF ExportOK, OneExport
  <2>14. QED
    BY <1>0, <2>7, <2>9, <2>10, <2>11, <2>12, <2>13, CheckUpdate DEF CheckOK
<1>3. QED
  BY <1>1, <1>2

(* What was opened is still there, so the digest goes with the identity.   *)
LEMMA FileSource ==
  ASSUME FileInv, NEW t \in Threads, VerifyShard(t)
  PROVE  FileInv'
<1> DEFINE i == check[t].at
           p == Path(t, Shards[i])
           h == check[t].held[i]
           new == [check[t] EXCEPT !.held = IF i = Len(Shards) THEN <<>> ELSE @]
<1>0. /\ check[t] \in CheckRec /\ check \in [Threads -> CheckRec] /\ CheckOK(t) /\ FileType
      /\ UNCHANGED <<file, clock>> /\ check[t].phase = "sources"
  BY DEF FileInv, FileType, VerifyShard
<1>1. CASE Refuses(t)
  BY <1>0, <1>1, FileRefuses
<1>2. CASE ~Refuses(t)
  <2>1. /\ i \in 1..Len(Shards) /\ Len(check[t].held) = Len(Shards)
        /\ HeldPinned(t, i) /\ ShardBound(t, i)
    BY <1>0, DocumentNames DEF CheckOK, AtOK, HeldOK, ShardsOK, LastOf, CheckRec
  <2>2. /\ Advance(t, Len(Shards), "files", new)
        /\ HeldStamp(p, h) = h.stamp /\ file[p].inode = h.inode
    BY <1>0, <1>2 DEF VerifyShard
  <2>3. ShardPinned(t, i)
    BY <2>1, <2>2 DEF ShardPinned, ShardBound, HeldPinned, Same, HeldStamp
  <2>4. /\ new \in CheckRec /\ new.at = i /\ new.phase = "sources" /\ new.pkg = check[t].pkg
        /\ new.bound = check[t].bound /\ (i # Len(Shards) => new.held = check[t].held)
    <3> DEFINE held == IF i = Len(Shards) THEN <<>> ELSE check[t].held
    <3>1. held \in Seq(FileRec) /\ new = [check[t] EXCEPT !.held = held]
      BY <1>0 DEF CheckRec
    <3>2. i # Len(Shards) => held = check[t].held
      OBVIOUS
    <3> HIDE DEF held, new
    <3>3. QED
      BY <1>0, <3>1, <3>2 DEF CheckRec
  <2> HIDE DEF new
  <2>5. PICK to \in CheckRec :
          /\ check' = [check EXCEPT ![t] = to] /\ SameRecord(to, new)
          /\ \/ new.at = Len(Shards) /\ to.phase = "files" /\ to.at = 1
             \/ new.at < Len(Shards) /\ to.phase = new.phase /\ to.at = new.at + 1
    BY <2>1, <2>2, <2>4, DocumentNames, Advanced, "files" \in Phases DEF Phases
  <2>6. /\ check'[t] = to /\ to.bound = check[t].bound /\ (to.phase = "sources" => to.held = check[t].held)
        /\ \A q, g : Pinned(q, g)' = Pinned(q, g) /\ Same(q, g)' = Same(q, g)
        /\ \A n \in FileNames : Path(t, n)' = Path(t, n)
    BY <1>0, <2>1, <2>4, <2>5 DEF Pinned, Same, Path, SameRecord
  <2>7. \/ to.phase = "files" /\ i = Len(Shards) /\ to.at = 1
        \/ to.phase = "sources" /\ to.at = i + 1 /\ i < Len(Shards)
    BY <2>1, <2>4, <2>5
  <2>8. AtOK(t)'
    BY <2>6, <2>7, <2>1, DocumentNames DEF AtOK, LastOf
  <2>9. DocumentsOK(t)'
    <3>1. ASSUME NEW j \in 1..Len(Documents)
          PROVE  DocumentPinned(t, j)'
      <4>1. DocumentPinned(t, j) /\ Documents[j] \in FileNames
        BY <1>0, DocumentNames DEF CheckOK, DocumentsOK
      <4>2. QED
        BY <2>6, <4>1 DEF DocumentPinned
    <3>2. QED
      BY <3>1 DEF DocumentsOK
  <2>10. ASSUME NEW j \in 1..Len(Shards)
         PROVE  /\ HeldPinned(t, j) /\ ShardBound(t, j) /\ Shards[j] \in FileNames
                /\ j < i => ShardPinned(t, j)
    BY <1>0, <2>1, ShardNames DEF CheckOK, HeldOK, ShardsOK
  <2>11. HeldOK(t)'
    BY <2>1, <2>6, <2>7, <2>10 DEF HeldOK, HeldPinned
  <2>12. ShardsOK(t)'
    <3>1. ASSUME NEW j \in 1..Len(Shards)
          PROVE  /\ to.phase = "sources" => ShardBound(t, j)'
                 /\ j <= i => ShardPinned(t, j)'
      BY <2>1, <2>3, <2>6, <2>10 DEF ShardBound, ShardPinned
    <3>2. QED
      BY <2>1, <2>6, <2>7, <3>1, DocumentNames DEF ShardsOK
  <2>13. ExportOK(t)'
    BY <1>0, <2>6, <2>7 DEF ExportOK, OneExport, CheckOK
  <2>14. QED
    BY <1>0, <2>5, <2>8, <2>9, <2>11, <2>12, <2>13, CheckUpdate DEF CheckOK
<1>3. QED
  BY <1>1, <1>2

LEMMA FileVerify ==
  ASSUME FileInv, NEW t \in Threads, VerifyFile(t)
  PROVE  FileInv'
<1>0. /\ check[t] \in CheckRec /\ check \in [Threads -> CheckRec] /\ CheckOK(t) /\ FileType
      /\ UNCHANGED <<file, clock>> /\ check[t].phase = "files"
  BY DEF FileInv, FileType, VerifyFile
<1>1. CASE Refuses(t)
  BY <1>0, <1>1, FileRefuses
<1>2. CASE ~Refuses(t)
  <2>1. Advance(t, Len(Files), "bound", check[t]) /\ check[t].at <= Len(Files)
    BY <1>0, <1>2 DEF VerifyFile, CheckOK, AtOK, LastOf
  <2>2. PICK to \in CheckRec :
          /\ check' = [check EXCEPT ![t] = to] /\ SameRecord(to, check[t])
          /\ \/ check[t].at = Len(Files) /\ to.phase = "bound" /\ to.at = 1
             \/ check[t].at < Len(Files) /\ to.phase = check[t].phase /\ to.at = check[t].at + 1
    BY <1>0, <2>1, DocumentNames, Advanced, "bound" \in Phases DEF Phases
  <2>3. /\ check'[t] = to /\ to.bound = check[t].bound /\ to.phase \in {"files", "bound"}
        /\ \A q, g : Pinned(q, g)' = Pinned(q, g)
        /\ \A n \in FileNames : Path(t, n)' = Path(t, n)
    BY <1>0, <2>2 DEF Pinned, Same, Path, SameRecord
  <2>4. AtOK(t)'
    BY <1>0, <2>2, <2>3, DocumentNames DEF AtOK, LastOf, CheckRec
  <2>5. DocumentsOK(t)'
    BY <1>0, <2>3, DocumentNames DEF CheckOK, DocumentsOK, DocumentPinned
  <2>6. HeldOK(t)'
    BY <2>3 DEF HeldOK
  <2>7. ShardsOK(t)'
    BY <1>0, <2>3, ShardNames DEF CheckOK, ShardsOK, ShardPinned
  <2>8. ExportOK(t)'
    BY <1>0, <2>3 DEF ExportOK, OneExport, CheckOK
  <2>9. QED
    BY <1>0, <2>2, <2>4, <2>5, <2>6, <2>7, <2>8, CheckUpdate DEF CheckOK
<1>3. QED
  BY <1>1, <1>2

(* Every step of a verification.                                           *)
LEMMA FileBindingStep ==
  ASSUME FileInv, NEW t \in Threads, BindingStep(t)
  PROVE  FileInv'
BY FileBefore, FileDocument, FileOpen, FileBind, FileSource, FileVerify DEF BindingStep
(* The edits are such changes.                                             *)
LEMMA PathChange ==
  ASSUME FileType, clock' = clock + 1, NEW p \in Paths, NEW f \in FileRec, file' = [file EXCEPT ![p] = f],
         f = Absent \/ (f.stamp = clock + 1 /\ f.inode \in 1..clock + 1)
  PROVE  FilesChange
<1>1. file' \in [Paths -> FileRec] /\ file'[p] = f /\ \A q \in Paths \ {p} : file'[q] = file[q]
  BY DEF FileType
<1>2. \A q \in Paths : \/ file'[q] = file[q] \/ file'[q] = Absent
                       \/ file'[q].stamp = clock + 1 /\ file'[q].inode \in 1..clock + 1
  BY <1>1
<1>3. QED
  BY <1>1, <1>2, Zenon DEF FilesChange

LEMMA EditChanges ==
  ASSUME FileInv, NEW k \in Packages, clock' = clock + 1,
         \/ \E name \in FileNames, data \in Exports \cup {Torn} :
               RewriteFile(<<k, name>>, data) \/ ReplaceFile(<<k, name>>, data)
         \/ \E name \in FileNames : ReplaceFile(<<k, name>>, NoData)
         \/ \E data \in Exports : ExchangeExport(k, data)
  PROVE  FilesChange
<1>0. /\ clock \in Nat \ {0} /\ file \in [Paths -> FileRec] /\ FilesOK
      /\ \A name \in FileNames : <<k, name>> \in Paths
      /\ Absent \in FileRec /\ Exports \cup {Torn, NoData} \subseteq Content
  BY Beta4BindingAssumption DEF FileInv, FileType, FileNames, Files, Absent, FileRec, Content
<1>1. ASSUME NEW name \in FileNames, NEW data \in Exports \cup {Torn}, RewriteFile(<<k, name>>, data)
      PROVE  FilesChange
  <2> DEFINE p == <<k, name>>
             f == [file[p] EXCEPT !.stamp = clock + 1, !.data = data]
  <2>1. p \in Paths /\ file[p] \in FileRec /\ file[p].inode \in 1..clock
    BY <1>0, <1>1 DEF FilesOK, RewriteFile, Exists, FileRec
  <2>2. f \in FileRec /\ f.stamp = clock + 1 /\ f.inode \in 1..clock + 1
    <3>1. data \in Content /\ clock + 1 \in Nat
      BY <1>0
    <3>2. f \in FileRec /\ f.stamp = clock + 1 /\ f.inode = file[p].inode
      BY <2>1, <3>1 DEF FileRec
    <3>3. file[p].inode \in 1..clock + 1
      BY <1>0, <2>1
    <3>4. QED
      BY <3>2, <3>3
  <2>3. file' = [file EXCEPT ![p] = f]
    <3> DEFINE g == file
    <3>1. g \in [Paths -> FileRec] /\ file' = [g EXCEPT ![p].stamp = clock + 1, ![p].data = data]
      BY <1>0, <1>1 DEF RewriteFile
    <3> SUFFICES file' = [g EXCEPT ![p] = [g[p] EXCEPT !.stamp = clock + 1, !.data = data]]
      OBVIOUS
    <3> HIDE DEF g
    <3>2. QED
      BY <3>1
  <2>4. QED
    <3> HIDE DEF f, p
    <3>1. QED
      BY <2>1, <2>2, <2>3, PathChange DEF FileInv
<1>2. ASSUME NEW name \in FileNames, NEW data \in Exports \cup {Torn, NoData}, ReplaceFile(<<k, name>>, data)
      PROVE  FilesChange
  <2> DEFINE p == <<k, name>>
             f == IF data = NoData THEN Absent
                  ELSE [inode |-> clock + 1, stamp |-> clock + 1, data |-> data]
  <2>1. p \in Paths /\ file' = [file EXCEPT ![p] = f]
    BY <1>0, <1>2 DEF ReplaceFile
  <2>2. f \in FileRec /\ (f = Absent \/ (f.stamp = clock + 1 /\ f.inode \in 1..clock + 1))
    <3>1. data \in Content /\ clock + 1 \in Nat /\ clock + 1 \in 1..clock + 1
      BY <1>0
    <3>2. CASE data = NoData
      BY <1>0, <3>2
    <3>3. CASE data # NoData
      BY <3>1, <3>3 DEF FileRec
    <3>4. QED
      BY <3>2, <3>3
  <2>3. QED
    <3> HIDE DEF f, p
    <3>1. QED
      BY <2>1, <2>2, PathChange DEF FileInv
<1>3. ASSUME NEW data \in Exports, ExchangeExport(k, data)
      PROVE  FilesChange
  <2> DEFINE f == [inode |-> clock + 1, stamp |-> clock + 1, data |-> data]
  <2>1. file' = [p \in Paths |-> IF p[1] = k THEN f ELSE file[p]]
    BY <1>3 DEF ExchangeExport
  <2>2. f \in FileRec /\ f.stamp = clock + 1 /\ f.inode \in 1..clock + 1
    BY <1>0 DEF FileRec, Content
  <2>3. QED
    <3> HIDE DEF f
    <3>1. ASSUME NEW p \in Paths
          PROVE  file'[p] \in FileRec /\ (file'[p] = file[p] \/ file'[p] = f)
      BY <1>0, <2>1, <2>2
    <3>2. file' \in [Paths -> FileRec]
      BY <2>1, <3>1
    <3>3. \A p \in Paths : \/ file'[p] = file[p] \/ file'[p] = Absent
                           \/ file'[p].stamp = clock + 1 /\ file'[p].inode \in 1..clock + 1
      BY <2>2, <3>1
    <3>4. QED
      BY <3>2, <3>3, Zenon DEF FilesChange
<1>4. QED
  BY <1>1, <1>2, <1>3

(* A verification that runs keeps its package; one that is over stays.     *)
LEMMA BindingStepKeeps ==
  ASSUME FileType, NEW t \in Threads, BindingStep(t)
  PROVE  /\ check[t].phase \notin {"none", "bound", "undeclared", "refused"}
         /\ check'[t].pkg = check[t].pkg /\ \A u \in Threads \ {t} : check'[u] = check[u]
         /\ UNCHANGED <<file, clock>>
<1>0. check \in [Threads -> CheckRec] /\ check[t] \in CheckRec
  BY DEF FileType
<1> DEFINE Kept == check'[t].pkg = check[t].pkg /\ \A u \in Threads \ {t} : check'[u] = check[u]
<1> SUFFICES Kept
  BY DEF BindingStep, ListPackage, HashFile, Detect, ListTree, ReadDocument, OpenShard, BindShard, VerifyShard,
         VerifyFile
<1>1. ASSUME NEW phase, Phase(t, phase)
      PROVE  Kept
  <2>1. check' = [check EXCEPT ![t] = [check[t] EXCEPT !.phase = phase, !.at = 1]]
    BY <1>0, <1>1, PhaseUpdate
  <2>2. QED
    BY <1>0, <2>1 DEF CheckRec
<1>2. ASSUME NEW last, NEW phase, NEW new, Advance(t, last, phase, new),
             "pkg" \in DOMAIN new, new.pkg = check[t].pkg
      PROVE  Kept
  BY <1>0, <1>2 DEF Advance
<1>3. CASE ListPackage(t) \/ ListTree(t)
  BY <1>1, <1>3 DEF ListPackage, ListTree
<1>4. CASE HashFile(t) \/ VerifyFile(t)
  <2>1. "pkg" \in DOMAIN check[t]
    BY <1>0 DEF CheckRec
  <2>2. \/ \E phase : Phase(t, phase)
        \/ \E last, phase : Advance(t, last, phase, check[t])
    BY <1>4 DEF HashFile, VerifyFile, Refuses
  <2>3. ASSUME NEW last, NEW phase, Advance(t, last, phase, check[t])
        PROVE  Kept
    BY <1>2, <2>1, <2>3
  <2>4. QED
    BY <1>1, <2>2, <2>3
<1>5. CASE Detect(t)
  <2>1. \/ \E phase : Phase(t, phase)
        \/ \E last, phase, hit : Advance(t, last, phase, [check[t] EXCEPT !.attempted = hit])
    BY <1>5 DEF Detect, Refuses
  <2>2. ASSUME NEW last, NEW phase, NEW hit, Advance(t, last, phase, [check[t] EXCEPT !.attempted = hit])
        PROVE  Kept
    <3> DEFINE new == [check[t] EXCEPT !.attempted = hit]
    <3>1. "pkg" \in DOMAIN new /\ new.pkg = check[t].pkg
      BY <1>0 DEF CheckRec
    <3>2. QED
      BY <1>2, <2>2, <3>1
  <2>3. QED
    BY <1>1, <2>1, <2>2
<1>6. CASE ReadDocument(t)
  BY <1>0, <1>1, <1>2, <1>6 DEF ReadDocument, Refuses, CheckRec
<1>7. CASE OpenShard(t)
  BY <1>0, <1>1, <1>2, <1>7 DEF OpenShard, Refuses, CheckRec
<1>8. CASE BindShard(t)
  BY SMTT(30), <1>0, <1>1, <1>2, <1>8 DEF BindShard, Refuses, CheckRec
<1>9. CASE VerifyShard(t)
  BY <1>0, <1>1, <1>2, <1>9 DEF VerifyShard, Refuses, CheckRec
<1>10. QED
  BY <1>3, <1>4, <1>5, <1>6, <1>7, <1>8, <1>9 DEF BindingStep
(* Once documents are read, a verification goes on to bind or refuses.     *)
ReadingPhases == {"documents", "opening", "binding", "sources", "files"}

LEMMA BindingStepReads ==
  ASSUME FileType, NEW t \in Threads, BindingStep(t), check[t].phase \in ReadingPhases
  PROVE  check'[t].phase \in ReadingPhases \cup {"bound", "refused"}
<1>0. check \in [Threads -> CheckRec] /\ check[t] \in CheckRec
  BY DEF FileType
<1>1. CASE Refuses(t)
  <2>1. check' = [check EXCEPT ![t] = [check[t] EXCEPT !.phase = "refused", !.at = 1]]
    BY <1>0, <1>1, PhaseUpdate DEF Refuses
  <2>2. check'[t].phase = "refused"
    BY <1>0, <2>1 DEF CheckRec
  <2>3. QED
    BY <2>2
<1>2. ASSUME NEW last, NEW phase \in ReadingPhases \cup {"bound"}, NEW new, Advance(t, last, phase, new),
             "phase" \in DOMAIN new, new.phase = check[t].phase
      PROVE  check'[t].phase \in ReadingPhases \cup {"bound", "refused"}
  <2>1. check'[t].phase = IF new.at = last THEN phase ELSE check[t].phase
    BY <1>0, <1>2 DEF Advance
  <2>2. QED
    BY <2>1
<1>3. CASE ~Refuses(t)
  <2>1. CASE ReadDocument(t)
    <3> DEFINE new == [check[t] EXCEPT !.bound[Documents[check[t].at]] = file[Path(t, Documents[check[t].at])]]
    <3>1. Advance(t, Len(Documents), "opening", new)
      BY <1>3, <2>1 DEF ReadDocument
    <3>2. "phase" \in DOMAIN new /\ new.phase = check[t].phase
      BY <1>0 DEF CheckRec
    <3> HIDE DEF new
    <3>3. QED
      BY <1>2, <3>1, <3>2, "opening" \in ReadingPhases DEF ReadingPhases
  <2>2. CASE OpenShard(t)
    <3> DEFINE new == [check[t] EXCEPT !.held = Append(@, file[Path(t, Shards[check[t].at])])]
    <3>1. Advance(t, Len(Shards), "binding", new)
      BY <1>3, <2>2 DEF OpenShard
    <3>2. "phase" \in DOMAIN new /\ new.phase = check[t].phase
      BY <1>0 DEF CheckRec
    <3> HIDE DEF new
    <3>3. QED
      BY <1>2, <3>1, <3>2, "binding" \in ReadingPhases DEF ReadingPhases
  <2>3. CASE BindShard(t)
    <3> DEFINE new == [check[t] EXCEPT !.bound[Shards[check[t].at]] =
                             [file[Path(t, Shards[check[t].at])] EXCEPT !.data = check[t].held[check[t].at].data]]
    <3>1. Advance(t, Len(Shards), "sources", new)
      BY <1>3, <2>3 DEF BindShard
    <3>2. "phase" \in DOMAIN new /\ new.phase = check[t].phase
      BY <1>0 DEF CheckRec
    <3> HIDE DEF new
    <3>3. QED
      BY <1>2, <3>1, <3>2, "sources" \in ReadingPhases DEF ReadingPhases
  <2>4. CASE VerifyShard(t)
    <3> DEFINE new == [check[t] EXCEPT !.held = IF check[t].at = Len(Shards) THEN <<>> ELSE @]
    <3>1. Advance(t, Len(Shards), "files", new)
      BY <1>3, <2>4 DEF VerifyShard
    <3>2. "phase" \in DOMAIN new /\ new.phase = check[t].phase
      BY <1>0 DEF CheckRec
    <3> HIDE DEF new
    <3>3. QED
      BY <1>2, <3>1, <3>2, "files" \in ReadingPhases DEF ReadingPhases
  <2>5. CASE VerifyFile(t)
    <3>1. Advance(t, Len(Files), "bound", check[t]) /\ "phase" \in DOMAIN check[t]
      BY <1>0, <1>3, <2>5 DEF VerifyFile, CheckRec
    <3>2. QED
      BY <1>2, <3>1
  <2>6. QED
    BY <2>1, <2>2, <2>3, <2>4, <2>5
    DEF BindingStep, ReadingPhases, ListPackage, HashFile, Detect, ListTree
<1>4. QED
  BY <1>1, <1>3

-----------------------------------------------------------------------------
(* The inductive invariant, in parts that are proved one after the other:  *)
(* the construction scope, the requests, the files that a verification     *)
(* binds (above), the load, and the route.                                 *)

Kinds == {"beta4", "curve", "official"}
Labels == {"idle", "resolving", "verified", "host", "parts", "unwind", "rest", "constructed", "raised"}
Classes == [model : Kinds, parts : Kinds]
SomePackage == Packages \cup {NoPackage}

ThreadRec == [pc : Labels, pkg : SomePackage, kind : Kinds \cup {"none"}, saved : {Official},
              model : Kinds \cup {"none"}, parts : Kinds \cup {"none"}, bound : SomePackage]

ConstructionType ==
  /\ lock \in Threads \cup {NoThread}
  /\ latch \in [model : BOOLEAN, pipeline : BOOLEAN]
  /\ host \in Classes
  /\ binding \in [beta4 : SomePackage, curve : SomePackage, build : SomePackage]
  /\ thread \in [Threads -> ThreadRec]
  /\ built \in Nat

(* The construction scope.  Who is inside a constructor holds the lock,    *)
(* and what the host's modules name follows from where it is.              *)
InScope(t) == thread[t].pc \in {"host", "parts", "unwind", "rest"}

ScopeHost(t) ==
  [model |-> Kind(t), parts |-> IF At(t, "parts") THEN Kind(t) ELSE "official"]

ScopeBinding(t) ==
  [beta4 |-> IF Kind(t) = "beta4" THEN thread[t].pkg ELSE NoPackage,
   curve |-> IF Kind(t) = "curve" THEN thread[t].pkg ELSE NoPackage,
   build |-> IF Kind(t) = "curve" /\ At(t, "parts") THEN thread[t].pkg ELSE NoPackage]

LockAt(t) == InScope(t) <=> lock = t

ScopeAt(t) == InScope(t) => host = ScopeHost(t) /\ binding = ScopeBinding(t)

RouteAt(t) ==
  /\ thread[t].pc \in {"idle", "resolving"} => thread[t].kind = "none"
  /\ thread[t].pc # "idle" => thread[t].pkg \in Packages
  /\ thread[t].pc \in {"verified", "constructed"} \/ InScope(t) => Kind(t) \in Kinds
  /\ thread[t].pc \in {"idle", "resolving", "verified", "host"} => thread[t].bound = NoPackage
  /\ thread[t].pc \in {"parts", "rest", "constructed"} =>
       /\ thread[t].model = Kind(t)
       /\ thread[t].bound = IF Kind(t) = "official" THEN NoPackage ELSE thread[t].pkg
  /\ thread[t].pc \in {"rest", "constructed"} => thread[t].parts = Kind(t)
  /\ thread[t].pc = "parts" => Kind(t) # "official"

LatchOK ==
  /\ built = IF latch.model THEN 1 ELSE 0
  /\ \A t \in Threads : At(t, "parts") => ~latch.model

ConstructionInv ==
  /\ ConstructionType /\ HostRestored /\ LatchOK
  /\ \A t \in Threads : LockAt(t) /\ ScopeAt(t) /\ RouteAt(t)

(* What the verification bound goes with the thread, and a slot that was   *)
(* read is of the bound file while that is still there.                    *)
LoadType ==
  /\ slot \in [Threads -> [Slots -> Content]]
  /\ load \in [Threads -> {"none", "reading", "ready", "failed"}]

KindAt(t) ==
  /\ At(t, "resolving") => check[t].pkg = thread[t].pkg
  /\ Kind(t) = "beta4" => check[t].phase = "bound" /\ check[t].pkg = thread[t].pkg

SlotOK(t, s) ==
  SameIdentity(t, SlotFile[s]) /\ slot[t][s] # NoData => slot[t][s] = check[t].bound[SlotFile[s]].data

LoadAt(t) ==
  /\ load[t] # "none" => At(t, "constructed")
  /\ load[t] = "reading" => Kind(t) = "beta4"
  /\ \A s \in Slots : /\ load[t] = "none" => slot[t][s] = NoData
                      /\ load[t] = "reading" => SlotOK(t, s)

OfOneExport(t) ==
  \E x \in Exports :
    /\ \A name \in FileNames : check[t].bound[name].data = x
    /\ \A s \in Slots : slot[t][s] = x

ReadyAt(t) == Has(t, "beta4") /\ load[t] = "ready" => OfOneExport(t)

LoadInv == LoadType /\ \A t \in Threads : KindAt(t) /\ LoadAt(t) /\ ReadyAt(t)

(* A document that declares the profile is read as one that does not only  *)
(* after it was changed, and each change makes one document silent.        *)
Silent(k) == {d \in Declaring : file[<<k, d>>].data \notin Exports}
Passed(t) == {d \in Declaring : \E i \in 1..check[t].at - 1 : d = Documents[i]}

SilentOK == \A k \in Packages : Route[k] = "beta4" => Cardinality(Silent(k)) < clock

UntouchedOK == clock = 1 => \A p \in Paths : file[p].data = Recorded[p[1]]

DetectOK(t) ==
  LET k == check[t].pkg
  IN  /\ Route[k] = "beta4" /\ ~check[t].attempted =>
           /\ check[t].phase = "detecting" => Cardinality(Silent(k) \cup Passed(t)) < clock
           /\ check[t].phase = "detected" => Cardinality(Declaring) < clock
      /\ Route[k] = "beta4" /\ check[t].phase = "undeclared" => Cardinality(Declaring) < clock
      /\ Route[k] = "official" /\ clock = 1 =>
           /\ check[t].phase \in {"census", "hashing", "detecting", "detected"} => ~check[t].attempted
           /\ check[t].phase \notin {"documents", "opening", "binding", "sources", "files", "bound"}
      /\ check[t].phase \in {"census", "hashing"} => ~check[t].attempted

ResolvedAt(t) ==
  LET k == thread[t].pkg
  IN  /\ At(t, "resolving") => k \in Packages /\ Route[k] # "curve"
      /\ Kind(t) = "curve" => Route[k] = "curve"
      /\ Kind(t) = "beta4" => Route[k] # "curve" /\ (Route[k] = "official" => clock > 1)
      /\ Kind(t) = "official" =>
           Route[k] # "curve" /\ (Route[k] = "beta4" => Cardinality(Declaring) < clock)

DetectInv == SilentOK /\ UntouchedOK /\ \A t \in Threads : DetectOK(t) /\ ResolvedAt(t)

(* Requests: the plan indices are active only for the request that holds   *)
(* the lock.                                                               *)
RequestRec == [pc : {"idle", "admitted", "denoise", "uncompiled", "invalid", "error", "overlap", "answered"},
               asked : Requests \cup {NoReq}, mode : Modes \cup {NoMode}, step : Nat]

RequestType ==
  /\ request_lock \in Reqs \cup {NoReq}
  /\ request \in [Reqs -> RequestRec]

RequestLockOK ==
  \A r \in Reqs : request[r].pc \in {"admitted", "denoise"} <=> request_lock = r

ActiveOK ==
  \A r \in Reqs : active # NoMode /\ request_lock = r => request[r].pc = "denoise"

ActiveHeld == active # NoMode => request_lock # NoReq

RequestInv ==
  RequestType /\ RequestLockOK /\ ActiveOK /\ ActiveHeld /\ NeverOverlap /\ AdmittedAsCompiled

-----------------------------------------------------------------------------
(* Lemmas: the construction scope.                                         *)

OthersStay(t) == \A u \in Threads \ {t} : thread'[u] = thread[u]

LEMMA OneScope ==
  ASSUME ConstructionInv, NEW t \in Threads, InScope(t)
  PROVE  lock = t /\ lock # NoThread /\ \A u \in Threads \ {t} : ~InScope(u)
BY PipelineWorkerAssumption DEF ConstructionInv, LockAt

LEMMA ConstructionInit == WorkerInit => ConstructionInv
BY PipelineWorkerAssumption
DEF WorkerInit, ConstructionInv, ConstructionType, HostRestored, LockAt, ScopeAt, RouteAt, LatchOK,
    Official, NoBinding, Classes, Kinds, SomePackage, ThreadRec, Labels, InScope, Kind, At

(* A step of one thread outside the scope.                                 *)
LEMMA OutsideStep ==
  ASSUME ConstructionInv, NEW t \in Threads, OthersStay(t), RouteAt(t)',
         thread' \in [Threads -> ThreadRec], ~InScope(t), ~InScope(t)',
         UNCHANGED <<lock, latch, host, binding, built>>
  PROVE  ConstructionInv'
<1>1. ConstructionType' /\ HostRestored'
  BY DEF ConstructionInv, ConstructionType, HostRestored
<1>2. LatchOK'
  BY DEF ConstructionInv, LatchOK, OthersStay, At, InScope
<1>3. ASSUME NEW u \in Threads
      PROVE  LockAt(u)' /\ ScopeAt(u)' /\ RouteAt(u)'
  <2>1. CASE u = t
    BY <2>1 DEF ConstructionInv, LockAt, ScopeAt
  <2>2. CASE u # t
    <3>1. LockAt(u) /\ ScopeAt(u) /\ RouteAt(u) /\ thread'[u] = thread[u]
      BY <2>2 DEF ConstructionInv, OthersStay
    <3>2. QED
      BY <3>1 DEF LockAt, ScopeAt, RouteAt, InScope, ScopeHost, ScopeBinding, Kind, At
  <2>3. QED
    BY <2>1, <2>2
<1>4. QED
  BY <1>1, <1>2, <1>3 DEF ConstructionInv

(* A step of the thread that holds the lock, or that takes it when free.   *)
LEMMA InsideStep ==
  ASSUME ConstructionInv, NEW t \in Threads, OthersStay(t), RouteAt(t)',
         lock \in {t, NoThread}, LockAt(t)', ScopeAt(t)', lock' \in {t, NoThread},
         ConstructionType', HostRestored', LatchOK'
  PROVE  ConstructionInv'
<1>1. ASSUME NEW u \in Threads \ {t}
      PROVE  LockAt(u)' /\ ScopeAt(u)' /\ RouteAt(u)'
  <2>1. LockAt(u) /\ RouteAt(u) /\ thread'[u] = thread[u]
    BY DEF ConstructionInv, OthersStay
  <2>2. ~InScope(u) /\ ~InScope(u)'
    BY <2>1, PipelineWorkerAssumption DEF LockAt, InScope
  <2>3. QED
    BY <2>1, <2>2, PipelineWorkerAssumption DEF LockAt, ScopeAt, RouteAt, InScope, Kind
<1>2. QED
  BY <1>1 DEF ConstructionInv

LEMMA ThreadUpdate ==
  ASSUME ConstructionInv, NEW t \in Threads, NEW new \in ThreadRec,
         thread' = [thread EXCEPT ![t] = new]
  PROVE  thread' \in [Threads -> ThreadRec] /\ thread'[t] = new /\ OthersStay(t)
BY DEF ConstructionInv, ConstructionType, OthersStay

LEMMA ConstructionResolve ==
  ASSUME ConstructionInv, NEW t \in Threads,
         Resolved(t) \/ \E k \in Packages : ResolvePackage(t, k)
  PROVE  ConstructionInv'
<1> DEFINE old == thread[t]
<1>0. old \in ThreadRec
  BY DEF ConstructionInv, ConstructionType
<1>1. CASE Resolved(t)
  <2> DEFINE pc == IF check[t].phase = "refused" THEN "raised" ELSE "verified"
             kind == CASE check[t].phase = "bound" -> "beta4"
                       [] check[t].phase = "undeclared" -> "official"
                       [] check[t].phase = "refused" -> "none"
             new == [old EXCEPT !.pc = pc, !.kind = kind]
  <2>1. /\ old.pc = "resolving"
        /\ pc \in {"raised", "verified"}
        /\ kind \in Kinds \cup {"none"} /\ (pc = "verified" => kind \in Kinds)
    BY <1>1 DEF Resolved, At, Kinds
  <2>2. new \in ThreadRec
    BY <1>0, <2>1 DEF ThreadRec, Labels
  <2>3. thread' = [thread EXCEPT ![t] = new]
    BY <1>1 DEF Resolved, ConstructionInv, ConstructionType
  <2>4. thread' \in [Threads -> ThreadRec] /\ thread'[t] = new /\ OthersStay(t)
    BY <2>2, <2>3, ThreadUpdate
  <2>5. RouteAt(t)' /\ ~InScope(t) /\ ~InScope(t)'
    BY <1>0, <2>1, <2>4 DEF ConstructionInv, RouteAt, InScope, Kind, ThreadRec
  <2>6. QED
    BY <1>1, <2>4, <2>5, OutsideStep DEF Resolved
<1>2. ASSUME NEW k \in Packages, ResolvePackage(t, k)
      PROVE  ConstructionInv'
  <2> DEFINE new == IF Route[k] = "curve"
                    THEN [old EXCEPT !.pc = "verified", !.pkg = k, !.kind = "curve"]
                    ELSE [old EXCEPT !.pc = "resolving", !.pkg = k]
  <2>1. new \in ThreadRec /\ old.pc = "idle"
    BY <1>0, <1>2 DEF ThreadRec, Labels, Kinds, SomePackage, ResolvePackage, At
  <2>2. thread' = [thread EXCEPT ![t] = new]
    BY <1>2 DEF ResolvePackage, ConstructionInv, ConstructionType
  <2>3. thread' \in [Threads -> ThreadRec] /\ thread'[t] = new /\ OthersStay(t)
    BY <2>1, <2>2, ThreadUpdate
  <2>4. RouteAt(t)' /\ ~InScope(t) /\ ~InScope(t)'
    BY <1>0, <2>1, <2>3 DEF ConstructionInv, RouteAt, InScope, Kind, Kinds, ThreadRec
  <2>5. QED
    BY <1>2, <2>3, <2>4, OutsideStep DEF ResolvePackage
<1>3. QED
  BY <1>1, <1>2

LEMMA ConstructionEnter ==
  ASSUME ConstructionInv, NEW t \in Threads, NEW ok \in BOOLEAN, Enter(t, ok)
  PROVE  ConstructionInv'
<1> DEFINE old == thread[t]
           host_ == [old EXCEPT !.pc = "host"]
           adapted == [old EXCEPT !.pc = "host", !.saved.model = host.model]
           raised == [old EXCEPT !.pc = "raised"]
<1>0. /\ old \in ThreadRec /\ old.pc = "verified" /\ old.kind \in Kinds /\ old.pkg \in Packages
      /\ old.bound = NoPackage /\ old.saved = Official
      /\ lock = NoThread /\ host = Official /\ binding = NoBinding
  BY DEF Enter, At, MayConstruct, TakesLock, HostRestored, ConstructionInv, ConstructionType, ThreadRec,
         RouteAt, Kind
<1>1. host_ \in ThreadRec /\ raised \in ThreadRec /\ adapted = host_
  BY <1>0 DEF ThreadRec, Labels, Official
<1>2. CASE UNCHANGED lock
  <2>1. thread' = [thread EXCEPT ![t] = raised] /\ UNCHANGED <<host, binding>>
    BY <1>2, <1>0, PipelineWorkerAssumption DEF Enter, ConstructionInv, ConstructionType
  <2>2. thread' \in [Threads -> ThreadRec] /\ thread'[t] = raised /\ OthersStay(t)
    BY <1>1, <2>1, ThreadUpdate
  <2>3. RouteAt(t)' /\ ~InScope(t) /\ ~InScope(t)'
    BY <1>0, <2>2 DEF RouteAt, InScope, ThreadRec
  <2>4. QED
    BY <1>2, <2>1, <2>2, <2>3, OutsideStep DEF Enter
<1>3. CASE lock' = t
  <2>1. /\ thread' = [thread EXCEPT ![t] = host_]
        /\ host' = [host EXCEPT !.model = Kind(t)]
        /\ binding' = IF Kind(t) = "official" THEN binding ELSE [binding EXCEPT ![Kind(t)] = old.pkg]
    BY <1>0, <1>1, <1>3, PipelineWorkerAssumption
    DEF Enter, ConstructionInv, ConstructionType, Kind, Official, Kinds
  <2>2. thread' \in [Threads -> ThreadRec] /\ thread'[t] = host_ /\ OthersStay(t)
    BY <1>1, <2>1, ThreadUpdate
  <2>3. LockAt(t)' /\ RouteAt(t)'
    BY <1>0, <1>3, <2>2 DEF LockAt, RouteAt, InScope, ThreadRec, Kind
  <2>4. ScopeAt(t)'
    BY <1>0, <2>1, <2>2 DEF ScopeAt, ScopeHost, ScopeBinding, Kind, Kinds, At, Official, NoBinding, ThreadRec
  <2>5. ConstructionType'
    BY <1>0, <1>3, <2>1, <2>2
    DEF Enter, ConstructionInv, ConstructionType, Classes, Kinds, Kind, Official, NoBinding, SomePackage
  <2>6. HostRestored' /\ LatchOK'
    BY <1>0, <1>3, <2>2, PipelineWorkerAssumption DEF Enter, HostRestored, ConstructionInv, LatchOK, OthersStay, At, ThreadRec
  <2>7. QED
    BY <1>0, <1>3, <2>2, <2>3, <2>4, <2>5, <2>6, InsideStep
<1>4. QED
  BY <1>2, <1>3 DEF Enter

(* Leaving restores what entering substituted.                             *)
LEMMA ConstructionLeave ==
  ASSUME ConstructionInv, NEW t \in Threads, NEW pc \in {"raised", "constructed"}, Leave(t, pc),
         thread[t].pc \in {"host", "unwind", "rest"},
         pc = "constructed" => thread[t].pc = "rest",
         UNCHANGED built, latch' \in [model : BOOLEAN, pipeline : BOOLEAN], latch'.model = latch.model
  PROVE  ConstructionInv'
<1> DEFINE old == thread[t]
           new == [old EXCEPT !.pc = pc]
<1>0. /\ old \in ThreadRec /\ old.kind \in Kinds /\ old.pkg \in Packages /\ old.saved = Official
      /\ RouteAt(t) /\ lock = t /\ host = ScopeHost(t) /\ binding = ScopeBinding(t)
  BY DEF ConstructionInv, ConstructionType, ThreadRec, RouteAt, LockAt, ScopeAt, InScope, Kind
<1>1. new \in ThreadRec /\ thread' = [thread EXCEPT ![t] = new]
  BY <1>0 DEF ThreadRec, Labels, Leave
<1>2. thread' \in [Threads -> ThreadRec] /\ thread'[t] = new /\ OthersStay(t)
  BY <1>1, ThreadUpdate
<1>3. host' = Official /\ binding' = NoBinding
  BY <1>0 DEF Leave, Restored, RestoreModel, ScopeHost, ScopeBinding, Official, NoBinding, Kind, Kinds, At
<1>4. LockAt(t)' /\ ScopeAt(t)' /\ RouteAt(t)'
  BY <1>0, <1>2, PipelineWorkerAssumption DEF Leave, LockAt, ScopeAt, RouteAt, InScope, ThreadRec, Kind
<1>5. ConstructionType'
  BY <1>2, <1>3 DEF Leave, ConstructionInv, ConstructionType, Classes, Kinds, Official, NoBinding, SomePackage
<1>6. HostRestored' /\ LatchOK'
  BY <1>0, <1>2, <1>3 DEF HostRestored, ConstructionInv, LatchOK, OthersStay, At, ThreadRec
<1>7. QED
  BY <1>0, <1>2, <1>4, <1>5, <1>6, InsideStep DEF Leave

LEMMA RecordUpdate ==
  ASSUME NEW t \in Threads, thread \in [Threads -> ThreadRec]
  PROVE  [thread EXCEPT ![t].pc = "parts", ![t].model = thread[t].kind, ![t].bound = thread[t].pkg,
                        ![t].saved.parts = host.parts]
           = [thread EXCEPT ![t] = [thread[t] EXCEPT !.pc = "parts", !.model = thread[t].kind,
                                                     !.bound = thread[t].pkg, !.saved.parts = host.parts]]
<1> DEFINE f == thread
           kind == thread[t].kind
           pkg == thread[t].pkg
           parts == host.parts
<1>1. f \in [Threads -> ThreadRec]
  OBVIOUS
<1> SUFFICES [f EXCEPT ![t].pc = "parts", ![t].model = kind, ![t].bound = pkg, ![t].saved.parts = parts]
               = [f EXCEPT ![t] = [f[t] EXCEPT !.pc = "parts", !.model = kind, !.bound = pkg,
                                               !.saved.parts = parts]]
  OBVIOUS
<1> HIDE DEF f, kind, pkg, parts
<1>2. QED
  BY <1>1

LEMMA ConstructionBuild ==
  ASSUME ConstructionInv, NEW t \in Threads, BuildOfficial(t) \/ BuildAdapted(t)
  PROVE  ConstructionInv'
<1> DEFINE old == thread[t]
           official == [old EXCEPT !.pc = "rest", !.model = "official", !.parts = host.parts]
           adapted == [old EXCEPT !.pc = "parts", !.model = host.model, !.bound = binding[host.model],
                                  !.saved.parts = host.parts]
           built_ == [old EXCEPT !.pc = "parts", !.model = old.kind, !.bound = old.pkg]
<1>0. /\ old \in ThreadRec /\ old.pc = "host" /\ old.kind \in Kinds /\ old.pkg \in Packages
      /\ old.bound = NoPackage /\ old.saved = Official
      /\ lock = t /\ host = ScopeHost(t) /\ binding = ScopeBinding(t)
      /\ host.model = old.kind /\ host.parts = "official"
  BY DEF BuildOfficial, BuildAdapted, ConstructionInv, ConstructionType, ThreadRec, RouteAt, LockAt,
         ScopeAt, ScopeHost, InScope, Kind, At
<1>1. CASE BuildOfficial(t)
  <2>1. official \in ThreadRec /\ thread' = [thread EXCEPT ![t] = official]
    BY <1>0, <1>1 DEF BuildOfficial, ThreadRec, Labels, Kinds
  <2>2. thread' \in [Threads -> ThreadRec] /\ thread'[t] = official /\ OthersStay(t)
    BY <2>1, ThreadUpdate
  <2>3. LockAt(t)' /\ ScopeAt(t)' /\ RouteAt(t)'
    BY ZenonT(40), <1>0, <1>1, <2>2
    DEF BuildOfficial, LockAt, ScopeAt, RouteAt, ScopeHost, ScopeBinding, InScope, ThreadRec, Kind, At
  <2>4. ConstructionType' /\ HostRestored' /\ LatchOK'
    BY <1>1, <2>2
    DEF BuildOfficial, ConstructionInv, ConstructionType, HostRestored, LatchOK, OthersStay, At, ThreadRec
  <2>5. QED
    BY <1>0, <1>1, <2>2, <2>3, <2>4, InsideStep DEF BuildOfficial
<1>2. CASE BuildAdapted(t)
  <2>0. /\ old.kind \in {"beta4", "curve"} /\ binding[host.model] = old.pkg
        /\ binding' = IF old.kind = "curve" THEN [binding EXCEPT !.build = old.pkg] ELSE binding
        /\ host' = [host EXCEPT !.parts = old.kind]
        /\ ~latch.model /\ UNCHANGED <<lock, latch, built>>
    BY <1>0, <1>2 DEF BuildAdapted, Kinds, ScopeBinding, Kind, ModelAllowed, LatchFree
  <2>1. [old.saved EXCEPT !.parts = host.parts] = old.saved
    BY <1>0 DEF Official
  <2>2. built_ \in ThreadRec /\ thread' = [thread EXCEPT ![t] = built_]
    <3>1. built_ \in ThreadRec
      BY <1>0, <2>0 DEF ThreadRec, Labels, SomePackage
    <3>2. thread' = [thread EXCEPT ![t].pc = "parts", ![t].model = old.kind, ![t].bound = old.pkg,
                                   ![t].saved.parts = host.parts]
      BY <1>0, <1>2, <2>0 DEF BuildAdapted
    <3>3. thread' = [thread EXCEPT ![t] = [old EXCEPT !.pc = "parts", !.model = old.kind, !.bound = old.pkg,
                                                     !.saved.parts = host.parts]]
      <4>1. thread \in [Threads -> ThreadRec]
        BY DEF ConstructionInv, ConstructionType
      <4>2. QED
        BY <3>2, <4>1, RecordUpdate, Zenon
    <3>4. [old EXCEPT !.pc = "parts", !.model = old.kind, !.bound = old.pkg, !.saved.parts = host.parts] = built_
      BY <1>0, <2>1 DEF ThreadRec
    <3>5. QED
      BY <3>1, <3>3, <3>4
  <2>3. thread' \in [Threads -> ThreadRec] /\ thread'[t] = built_ /\ OthersStay(t)
    BY <2>2, ThreadUpdate
  <2>4. LockAt(t)' /\ RouteAt(t)'
    BY <1>0, <2>0, <2>3 DEF LockAt, RouteAt, InScope, ThreadRec, Kind
  <2>5. ScopeAt(t)'
    BY <1>0, <2>0, <2>3 DEF ScopeAt, ScopeHost, ScopeBinding, ThreadRec, Kind, At
  <2>6. ConstructionType'
    BY <1>0, <2>0, <2>3 DEF ConstructionInv, ConstructionType, Classes, Kinds, SomePackage
  <2>7. HostRestored' /\ LatchOK'
    BY <1>0, <2>0, PipelineWorkerAssumption DEF HostRestored, ConstructionInv, LatchOK
  <2>8. QED
    BY <1>0, <2>0, <2>3, <2>4, <2>5, <2>6, <2>7, InsideStep
<1>3. QED
  BY <1>1, <1>2

LEMMA ConstructionParts ==
  ASSUME ConstructionInv, NEW t \in Threads, PartsBuilt(t) \/ PartsFail(t)
  PROVE  ConstructionInv'
<1> DEFINE old == thread[t]
           new(pc) == [old EXCEPT !.pc = pc, !.parts = host.parts]
<1>1. PICK pc \in {"rest", "unwind"}, done \in BOOLEAN : FinishParts(t, pc, done)
  BY DEF PartsBuilt, PartsFail
<1>2. /\ old \in ThreadRec /\ old.pc = "parts" /\ old.kind \in {"beta4", "curve"} /\ old.pkg \in Packages
      /\ old.saved = Official /\ RouteAt(t)
      /\ lock = t /\ host = ScopeHost(t) /\ binding = ScopeBinding(t) /\ host.parts = old.kind
  BY <1>1 DEF FinishParts, ConstructionInv, ConstructionType, ThreadRec, RouteAt, LockAt,
         ScopeAt, ScopeHost, InScope, Kind, Kinds, At
<1>3. new(pc) \in ThreadRec /\ thread' = [thread EXCEPT ![t] = new(pc)]
  BY <1>1, <1>2 DEF FinishParts, ThreadRec, Labels, Kinds
<1>4. thread' \in [Threads -> ThreadRec] /\ thread'[t] = new(pc) /\ OthersStay(t)
  BY <1>3, ThreadUpdate
<1>5. LockAt(t)' /\ RouteAt(t)'
  BY <1>1, <1>2, <1>4 DEF FinishParts, LockAt, RouteAt, InScope, ThreadRec, Kind
<1>6. ScopeAt(t)'
  BY <1>1, <1>2, <1>4 DEF FinishParts, ScopeAt, ScopeHost, ScopeBinding, ThreadRec, Kind, At, Official
<1>7. ConstructionType'
  BY <1>1, <1>2, <1>4
  DEF FinishParts, ConstructionInv, ConstructionType, Classes, Kinds, SomePackage, Official
<1>8. HostRestored' /\ LatchOK'
  <2>1. ~latch.model /\ built = 0
    BY <1>2 DEF ConstructionInv, LatchOK, At
  <2>2. \A u \in Threads : ~At(u, "parts")'
    <3>1. \A u \in Threads \ {t} : ~InScope(u)
      BY <1>2, OneScope DEF InScope
    <3>2. QED
      <4>1. thread'[t].pc = pc
        BY <1>2, <1>4 DEF ThreadRec
      <4>2. QED
        BY <1>1, <1>4, <3>1, <4>1 DEF At, InScope, OthersStay
  <2>3. built' = IF latch'.model THEN 1 ELSE 0
    <3>1. latch' = [latch EXCEPT !.model = @ \/ done] /\ built' = IF done THEN 1 ELSE 0
      BY <1>1, <2>1 DEF FinishParts
    <3>2. latch'.model = done
      BY <2>1, <3>1 DEF ConstructionInv, ConstructionType
    <3>3. QED
      BY <3>1, <3>2
  <2>4. QED
    BY <1>1, <1>2, <2>2, <2>3, PipelineWorkerAssumption DEF FinishParts, HostRestored, LatchOK
<1>9. QED
  BY <1>1, <1>2, <1>4, <1>5, <1>6, <1>7, <1>8, InsideStep DEF FinishParts

LEMMA ConstructionHost ==
  ASSUME ConstructionInv, NEW t \in Threads,
         HostFails(t) \/ \E ok \in BOOLEAN : HostBuilt(t, ok)
  PROVE  ConstructionInv'
<1>1. CASE HostFails(t)
  BY <1>1, ConstructionLeave DEF HostFails, ConstructionInv, ConstructionType
<1>2. ASSUME NEW ok \in BOOLEAN, HostBuilt(t, ok)
      PROVE  ConstructionInv'
  <2>1. latch' \in [model : BOOLEAN, pipeline : BOOLEAN] /\ latch'.model = latch.model
    BY <1>2 DEF HostBuilt, ConstructionInv, ConstructionType
  <2>2. PICK pc \in {"raised", "constructed"} : Leave(t, pc)
    BY <1>2 DEF HostBuilt
  <2>3. QED
    BY <1>2, <2>1, <2>2, ConstructionLeave DEF HostBuilt, At
<1>3. QED
  BY <1>1, <1>2

(* Every other step leaves the construction alone.                         *)
LEMMA ConstructionFrame ==
  ASSUME ConstructionInv, UNCHANGED constructionVars
  PROVE  ConstructionInv'
BY DEF constructionVars, ConstructionInv, ConstructionType, HostRestored, LatchOK, LockAt, ScopeAt, RouteAt,
       InScope, ScopeHost, ScopeBinding, Kind, At

LEMMA ConstructionNext ==
  ASSUME ConstructionInv, [WorkerNext]_workerVars
  PROVE  ConstructionInv'
<1>1. ASSUME NEW t \in Threads,
             \/ \E ok \in BOOLEAN : Enter(t, ok) \/ HostBuilt(t, ok)
             \/ Resolved(t) \/ \E k \in Packages : ResolvePackage(t, k)
             \/ HostFails(t) \/ BuildOfficial(t) \/ BuildAdapted(t) \/ PartsBuilt(t) \/ PartsFail(t)
      PROVE  ConstructionInv'
  BY <1>1, ConstructionEnter, ConstructionHost, ConstructionResolve, ConstructionBuild, ConstructionParts
<1>2. ASSUME NEW t \in Threads,
             Verify(t) \/ BeginLoad(t) \/ EndLoad(t) \/ Eval(t) \/ \E s \in Slots : ReadSlot(t, s)
      PROVE  UNCHANGED constructionVars
  BY <1>2 DEF Verify, BeginLoad, EndLoad, Eval, ReadSlot
<1>3. ASSUME NEW r \in Reqs, Forward(r) \/ Activate(r) \/ Denoise(r) \/ EndDiffuse(r)
      PROVE  UNCHANGED constructionVars
  BY <1>3 DEF Forward, Activate, Denoise, EndDiffuse
<1>4. ASSUME NEW k \in Packages, EditPackage(k)
      PROVE  UNCHANGED constructionVars
  BY <1>4 DEF EditPackage
<1>5. CASE UNCHANGED workerVars
  BY <1>5, ConstructionFrame DEF workerVars
<1>6. QED
  BY <1>1, <1>2, <1>3, <1>4, <1>5, ConstructionFrame DEF WorkerNext, WorkerStep

(* The construction lock, the latch, what the host's modules name and what *)
(* each construction has built agree, in every reachable state.            *)
THEOREM ConstructionSafe == WorkerSpec => []ConstructionInv
BY ConstructionInit, ConstructionNext, PTL DEF WorkerSpec

(* While nobody constructs, the host's modules name its own classes and no *)
(* package is bound, whatever failed before (scoped_construction.py).      *)
THEOREM HostIsRestored == WorkerSpec => []HostRestored
BY ConstructionSafe, PTL DEF ConstructionInv

(* A process completes at most one adapted model, with any number of       *)
(* threads that construct (worker_lifecycle.py).                           *)
THEOREM OneModelBuilt == WorkerSpec => []OneModel
<1>1. ConstructionInv => OneModel
  BY DEF ConstructionInv, LatchOK, OneModel
<1>2. QED
  BY ConstructionSafe, <1>1, PTL
-----------------------------------------------------------------------------
(* Requests.                                                               *)

(* What a request that is admitted can have asked for.                     *)
LEMMA AdmittedAsks ==
  ASSUME NEW q \in Requests, Admission(q) = 200
  PROVE  Range(q.canonical) \cup Range(q.legacy) \cup {q.fixed} \subseteq {"absent", "compiled"}
<1>1. ~IsMalformed(q) /\ ~Conflicts(q) /\ "other" \notin Wanted(q)
  BY DEF Admission, Contradicts
<1>2. /\ q.canonical \in [Aliased -> Given] /\ q.legacy \in [Aliased -> Given] /\ q.fixed \in Given
  BY DEF Requests
<1>3. ASSUME NEW f \in Aliased
      PROVE  q.canonical[f] \in {"absent", "compiled"} /\ q.legacy[f] \in {"absent", "compiled"}
  <2>1. q.canonical[f] # "malformed" /\ q.legacy[f] # "malformed"
    BY <1>1, <1>2 DEF IsMalformed, Range
  <2>2. (IF q.canonical[f] = "absent" THEN q.legacy[f] ELSE q.canonical[f]) # "other"
    BY <1>1 DEF Wanted
  <2>3. q.canonical[f] = "absent" \/ q.legacy[f] = "absent" \/ q.canonical[f] = q.legacy[f]
    BY <1>1 DEF Conflicts
  <2>4. QED
    BY <1>2, <2>1, <2>2, <2>3 DEF Given
<1>4. q.fixed \in {"absent", "compiled"}
  BY <1>1, <1>2 DEF IsMalformed, Wanted, Given
<1>5. QED
  BY <1>2, <1>3, <1>4 DEF Range

LEMMA AdmissionStatus == \A q : Admission(q) \in {200, 400, 409}
BY DEF Admission

LEMMA CacheModesAreModes == CacheModes \subseteq Modes
BY DEF CacheModes, CacheMode, Modes, MODE_FIELDS

LEMMA RequestInit == WorkerInit => RequestInv
BY PipelineWorkerAssumption
DEF WorkerInit, RequestInv, RequestType, RequestRec, RequestLockOK, ActiveOK, ActiveHeld, NeverOverlap,
    AdmittedAsCompiled

LEMMA RequestFrame ==
  ASSUME RequestInv, UNCHANGED requestVars
  PROVE  RequestInv'
BY DEF requestVars, RequestInv, RequestType, RequestLockOK, ActiveOK, ActiveHeld, NeverOverlap,
       AdmittedAsCompiled
(* A step of one request, from the lock free or held by it.                *)
LEMMA RequestStep ==
  ASSUME RequestInv, NEW r \in Reqs, NEW new \in RequestRec, request' = [request EXCEPT ![r] = new],
         request_lock \in {r, NoReq}, request_lock' \in {r, NoReq},
         request_lock' = r <=> new.pc \in {"admitted", "denoise"},
         active' # NoMode => new.pc = "denoise",
         new.pc # "overlap",
         new.pc = "admitted" =>
           Range(new.asked.canonical) \cup Range(new.asked.legacy) \cup {new.asked.fixed}
             \subseteq {"absent", "compiled"}
  PROVE  RequestInv'
<1>1. /\ request' \in [Reqs -> RequestRec] /\ request'[r] = new
      /\ \A u \in Reqs \ {r} : request'[u] = request[u]
  BY DEF RequestInv, RequestType
<1>2. RequestType'
  BY <1>1 DEF RequestType
<1>3. RequestLockOK'
  BY <1>1, PipelineWorkerAssumption DEF RequestInv, RequestLockOK
<1>4. ActiveOK' /\ ActiveHeld'
  BY <1>1, PipelineWorkerAssumption DEF ActiveOK, ActiveHeld
<1>5. NeverOverlap'
  BY <1>1 DEF RequestInv, NeverOverlap
<1>6. AdmittedAsCompiled'
  <2>1. ASSUME NEW u \in Reqs, request'[u].pc = "admitted"
        PROVE  LET q == request'[u].asked
               IN  Range(q.canonical) \cup Range(q.legacy) \cup {q.fixed} \subseteq {"absent", "compiled"}
    BY <1>1, <2>1 DEF RequestInv, AdmittedAsCompiled
  <2>2. QED
    BY <2>1 DEF AdmittedAsCompiled
<1>7. QED
  BY <1>2, <1>3, <1>4, <1>5, <1>6 DEF RequestInv

LEMMA RequestForward ==
  ASSUME RequestInv, NEW r \in Reqs, Forward(r)
  PROVE  RequestInv'
<1> DEFINE old == request[r]
<1>0. /\ old \in RequestRec /\ old.pc = "idle" /\ request_lock = NoReq /\ active = NoMode /\ active' = NoMode
      /\ request \in [Reqs -> RequestRec]
  BY DEF Forward, MayForward, LockIsFree, RequestInv, RequestType, ActiveHeld
<1>1. PICK q \in Requests :
        \/ /\ Admission(q) = 200 /\ request_lock' = r
           /\ request' = [request EXCEPT ![r].pc = "admitted", ![r].asked = q]
        \/ \E pc \in {"uncompiled", "invalid"} :
             request_lock' = NoReq /\ request' = [request EXCEPT ![r].pc = pc]
  <2>1. PICK q \in Requests :
          CASE Admission(q) = 200 -> /\ request_lock' = r
                                     /\ request' = [request EXCEPT ![r].pc = "admitted", ![r].asked = q]
            [] Admission(q) = 409 -> UNCHANGED request_lock /\ Answer(r, "uncompiled")
            [] Admission(q) = 400 -> UNCHANGED request_lock /\ Answer(r, "invalid")
    BY DEF Forward
  <2>2. CASE Admission(q) = 200
    BY <2>1, <2>2
  <2>3. CASE Admission(q) = 409
    BY <1>0, <2>1, <2>3 DEF Answer
  <2>4. CASE Admission(q) = 400
    BY <1>0, <2>1, <2>4 DEF Answer
  <2>5. QED
    BY <2>2, <2>3, <2>4, AdmissionStatus
<1>2. CASE /\ Admission(q) = 200 /\ request_lock' = r
           /\ request' = [request EXCEPT ![r].pc = "admitted", ![r].asked = q]
  <2> DEFINE new == [old EXCEPT !.pc = "admitted", !.asked = q]
  <2>1. new \in RequestRec /\ new.pc = "admitted" /\ new.asked = q
    BY <1>0 DEF RequestRec
  <2>2. request' = [request EXCEPT ![r] = new]
    <3> DEFINE f == request
    <3>1. f \in [Reqs -> RequestRec] /\ request' = [f EXCEPT ![r].pc = "admitted", ![r].asked = q]
      BY <1>0, <1>2
    <3> SUFFICES request' = [f EXCEPT ![r] = [f[r] EXCEPT !.pc = "admitted", !.asked = q]]
      OBVIOUS
    <3> HIDE DEF f
    <3>2. QED
      BY <3>1
  <2>3. QED
    <3> HIDE DEF new
    <3>1. QED
      BY ZenonT(40), <1>0, <1>2, <2>1, <2>2, AdmittedAsks, RequestStep
<1>3. ASSUME NEW pc \in {"uncompiled", "invalid"}, request_lock' = NoReq,
             request' = [request EXCEPT ![r].pc = pc]
      PROVE  RequestInv'
  <2> DEFINE new == [old EXCEPT !.pc = pc]
  <2>1. new \in RequestRec /\ request' = [request EXCEPT ![r] = new] /\ new.pc = pc
    BY <1>0, <1>3 DEF RequestRec
  <2>2. QED
    BY <1>0, <1>3, <2>1, PipelineWorkerAssumption, RequestStep
<1>4. QED
  BY <1>1, <1>2, <1>3

LEMMA RequestActivate ==
  ASSUME RequestInv, NEW r \in Reqs, Activate(r)
  PROVE  RequestInv'
<1> DEFINE old == request[r]
<1>0. /\ old \in RequestRec /\ old.pc = "admitted" /\ request_lock = r /\ active = NoMode
      /\ request \in [Reqs -> RequestRec]
  BY PipelineWorkerAssumption DEF Activate, RequestInv, RequestType, RequestLockOK, ActiveOK, ActiveHeld
<1>1. CASE ~Resident
  <2> DEFINE new == [old EXCEPT !.pc = "error"]
  <2>1. new \in RequestRec /\ request' = [request EXCEPT ![r] = new] /\ new.pc = "error"
    BY <1>0, <1>1 DEF RequestRec, Activate, Answer
  <2>2. request_lock' = NoReq /\ active' = NoMode
    BY <1>0, <1>1 DEF Activate
  <2>3. QED
    BY <1>0, <2>1, <2>2, PipelineWorkerAssumption, RequestStep
<1>2. CASE Resident
  <2>1. PICK mode \in CacheModes :
          /\ request' = [request EXCEPT ![r] =
                           [pc |-> "denoise", asked |-> NoReq, mode |-> mode, step |-> 1]]
          /\ active' = mode /\ UNCHANGED request_lock
    BY <1>0, <1>2 DEF Activate
  <2> DEFINE new == [pc |-> "denoise", asked |-> NoReq, mode |-> mode, step |-> 1]
  <2>2. new \in RequestRec /\ new.pc = "denoise"
    BY CacheModesAreModes DEF RequestRec
  <2>3. QED
    BY <1>0, <2>1, <2>2, RequestStep
<1>3. QED
  BY <1>1, <1>2

LEMMA RequestDiffuse ==
  ASSUME RequestInv, NEW r \in Reqs, Denoise(r) \/ EndDiffuse(r)
  PROVE  RequestInv'
<1> DEFINE old == request[r]
<1>0. /\ old \in RequestRec /\ old.pc = "denoise" /\ request_lock = r
      /\ request \in [Reqs -> RequestRec]
  BY DEF Denoise, EndDiffuse, RequestInv, RequestType, RequestLockOK
<1>1. CASE Denoise(r)
  <2> DEFINE new == [old EXCEPT !.step = @ + 1]
  <2>1. new \in RequestRec /\ request' = [request EXCEPT ![r] = new] /\ new.pc = "denoise"
    BY <1>0, <1>1 DEF RequestRec, Denoise
  <2>2. UNCHANGED <<request_lock, active>>
    BY <1>1 DEF Denoise
  <2>3. QED
    BY <1>0, <2>1, <2>2, RequestStep
<1>2. CASE EndDiffuse(r)
  <2>1. PICK pc \in {"answered", "error"} : request' = [request EXCEPT ![r].pc = pc]
    BY <1>2 DEF EndDiffuse, Answer
  <2> DEFINE new == [old EXCEPT !.pc = pc]
  <2>2. new \in RequestRec /\ request' = [request EXCEPT ![r] = new] /\ new.pc = pc
    BY <1>0, <2>1 DEF RequestRec
  <2>3. request_lock' = NoReq /\ active' = NoMode
    BY <1>2 DEF EndDiffuse
  <2>4. QED
    BY <1>0, <2>2, <2>3, PipelineWorkerAssumption, RequestStep
<1>3. QED
  BY <1>1, <1>2

LEMMA RequestNext ==
  ASSUME RequestInv, [WorkerNext]_workerVars
  PROVE  RequestInv'
<1>1. ASSUME NEW r \in Reqs, Forward(r) \/ Activate(r) \/ Denoise(r) \/ EndDiffuse(r)
      PROVE  RequestInv'
  BY <1>1, RequestForward, RequestActivate, RequestDiffuse
<1>2. ASSUME NEW t \in Threads,
             \/ \E ok \in BOOLEAN : Enter(t, ok) \/ HostBuilt(t, ok)
             \/ Verify(t) \/ Resolved(t) \/ \E k \in Packages : ResolvePackage(t, k)
             \/ HostFails(t) \/ BuildOfficial(t) \/ BuildAdapted(t) \/ PartsBuilt(t) \/ PartsFail(t)
             \/ BeginLoad(t) \/ EndLoad(t) \/ Eval(t) \/ \E s \in Slots : ReadSlot(t, s)
      PROVE  UNCHANGED requestVars
  BY <1>2 DEF Enter, HostBuilt, Verify, Resolved, ResolvePackage, HostFails, BuildOfficial, BuildAdapted,
              PartsBuilt, PartsFail, FinishParts, BeginLoad, EndLoad, Eval, ReadSlot
<1>3. ASSUME NEW k \in Packages, EditPackage(k)
      PROVE  UNCHANGED requestVars
  BY <1>3 DEF EditPackage
<1>4. CASE UNCHANGED workerVars
  BY <1>4, RequestFrame DEF workerVars
<1>5. QED
  BY <1>1, <1>2, <1>3, <1>4, RequestFrame DEF WorkerNext, WorkerStep

(* The request lock, the active mode and where each request is agree.      *)
THEOREM RequestsSafe == WorkerSpec => []RequestInv
BY RequestInit, RequestNext, PTL DEF WorkerSpec

(* No request meets the plan indices of another (CurveCachePipeline's      *)
(* request lock and activate()).                                           *)
THEOREM RequestsNeverOverlap == WorkerSpec => []NeverOverlap
BY RequestsSafe, PTL DEF RequestInv

(* What is run was asked for with the compiled schedule, in both forms a   *)
(* value has (normalize_h3_request).                                       *)
THEOREM RequestsAsCompiled == WorkerSpec => []AdmittedAsCompiled
BY RequestsSafe, PTL DEF RequestInv
-----------------------------------------------------------------------------
(* The files and the load.                                                 *)

Constructs(t) ==
  \/ \E ok \in BOOLEAN : Enter(t, ok) \/ HostBuilt(t, ok)
  \/ HostFails(t) \/ BuildOfficial(t) \/ BuildAdapted(t) \/ PartsBuilt(t) \/ PartsFail(t)

LoadsWeights(t) == BeginLoad(t) \/ EndLoad(t) \/ Eval(t) \/ \E s \in Slots : ReadSlot(t, s)

Serves(r) == Forward(r) \/ Activate(r) \/ Denoise(r) \/ EndDiffuse(r)

LEMMA WorkerCases ==
  ASSUME [WorkerNext]_workerVars
  PROVE  \/ \E t \in Threads :
              \/ Constructs(t) \/ Verify(t) \/ Resolved(t) \/ LoadsWeights(t)
              \/ \E k \in Packages : ResolvePackage(t, k)
         \/ \E r \in Reqs : Serves(r)
         \/ \E k \in Packages : EditPackage(k)
         \/ UNCHANGED workerVars
BY DEF WorkerNext, WorkerStep, Constructs, LoadsWeights, Serves

LEMMA FileFrame ==
  ASSUME FileInv, UNCHANGED <<file, clock, check>>
  PROVE  FileInv'
<1>1. FileType' /\ FilesOK'
  BY DEF FileInv, FileType, FilesOK
<1>2. ASSUME NEW t \in Threads
      PROVE  CheckOK(t)'
  <2>0. CheckOK(t)
    BY DEF FileInv
  <2>1. AtOK(t)'
    BY <2>0 DEF CheckOK, AtOK
  <2>2. DocumentsOK(t)'
    BY <2>0 DEF CheckOK, DocumentsOK, DocumentPinned, Pinned, Same, Path
  <2>3. HeldOK(t)'
    BY <2>0 DEF CheckOK, HeldOK, HeldPinned, Pinned, Same, Path
  <2>4. ShardsOK(t)'
    BY <2>0 DEF CheckOK, ShardsOK, ShardPinned, ShardBound, Pinned, Same, Path
  <2>5. ExportOK(t)'
    BY <2>0 DEF CheckOK, ExportOK, OneExport
  <2>6. QED
    BY <2>1, <2>2, <2>3, <2>4, <2>5 DEF CheckOK
<1>3. QED
  BY <1>1, <1>2 DEF FileInv

LEMMA ConstructsFiles ==
  ASSUME NEW t \in Threads, Constructs(t) \/ Resolved(t) \/ LoadsWeights(t)
  PROVE  UNCHANGED <<file, clock, check>>
BY DEF Constructs, LoadsWeights, Enter, HostBuilt, HostFails, BuildOfficial, BuildAdapted, PartsBuilt, PartsFail,
       FinishParts, Resolved, BeginLoad, EndLoad, Eval, ReadSlot, fileVars

LEMMA ServesFiles ==
  ASSUME NEW r \in Reqs, Serves(r)
  PROVE  UNCHANGED <<file, clock, check, constructionVars, slot, load>>
BY DEF Serves, Forward, Activate, Denoise, EndDiffuse, fileVars

LEMMA FileNext ==
  ASSUME FileInv, [WorkerNext]_workerVars
  PROVE  FileInv'
<1>1. ASSUME NEW t \in Threads, Constructs(t) \/ Resolved(t) \/ LoadsWeights(t)
      PROVE  FileInv'
  BY <1>1, ConstructsFiles, FileFrame
<1>2. ASSUME NEW t \in Threads, Verify(t)
      PROVE  FileInv'
  BY <1>2, FileBindingStep DEF Verify
<1>3. ASSUME NEW t \in Threads, NEW k \in Packages, ResolvePackage(t, k)
      PROVE  FileInv'
  BY <1>3, FileStart, FileFrame DEF ResolvePackage
<1>4. ASSUME NEW r \in Reqs, Serves(r)
      PROVE  FileInv'
  BY <1>4, ServesFiles, FileFrame
<1>5. ASSUME NEW k \in Packages, EditPackage(k)
      PROVE  FileInv'
  <2>1. FilesChange /\ UNCHANGED check
    BY <1>5, EditChanges DEF EditPackage
  <2>2. QED
    BY <2>1, FileEdit
<1>6. CASE UNCHANGED workerVars
  BY <1>6, FileFrame DEF workerVars, fileVars
<1>7. QED
  BY <1>1, <1>2, <1>3, <1>4, <1>5, <1>6, WorkerCases

(* A record that a verification took of a file describes it for as long as *)
(* the file is there, and what is bound is of one export                   *)
(* (runtime/h3/beta4_binding.py).                                          *)
THEOREM FilesSafe == WorkerSpec => []FileInv
<1>1. WorkerInit => FileInv
  BY FileInit DEF WorkerInit
<1>2. QED
  BY <1>1, FileNext, PTL DEF WorkerSpec

LEMMA ConstructsKeeps ==
  ASSUME ConstructionInv, NEW t \in Threads, Constructs(t)
  PROVE  /\ OthersStay(t) /\ UNCHANGED <<slot, load>>
         /\ thread'[t].pkg = thread[t].pkg /\ thread'[t].kind = thread[t].kind
         /\ thread[t].pc \notin {"idle", "resolving", "constructed"}
         /\ thread'[t].pc \notin {"idle", "resolving"}
<1>0. thread \in [Threads -> ThreadRec]
  BY DEF ConstructionInv, ConstructionType
<1>1. CASE \E ok \in BOOLEAN : Enter(t, ok)
  BY <1>0, <1>1 DEF Enter, At, OthersStay, ThreadRec
<1>2. CASE HostFails(t) \/ \E ok \in BOOLEAN : HostBuilt(t, ok)
  BY <1>0, <1>2 DEF HostFails, HostBuilt, Leave, At, OthersStay, ThreadRec
<1>3. CASE BuildOfficial(t) \/ BuildAdapted(t)
  BY <1>0, <1>3 DEF BuildOfficial, BuildAdapted, At, OthersStay, ThreadRec
<1>4. CASE PartsBuilt(t) \/ PartsFail(t)
  BY <1>0, <1>4 DEF PartsBuilt, PartsFail, FinishParts, At, OthersStay, ThreadRec
<1>5. QED
  BY <1>1, <1>2, <1>3, <1>4 DEF Constructs

(* A thread's part of the load, when nothing of it changes.                *)
LEMMA LoadStays ==
  ASSUME LoadInv, NEW t \in Threads, check'[t] = check[t], slot'[t] = slot[t], load'[t] = load[t],
         thread'[t] = thread[t], \A name \in FileNames : SameIdentity(t, name)' => SameIdentity(t, name)
  PROVE  KindAt(t)' /\ LoadAt(t)' /\ ReadyAt(t)'
<1>1. KindAt(t)' /\ ReadyAt(t)'
  BY DEF LoadInv, KindAt, ReadyAt, OfOneExport, Has, At, Kind
<1>2. LoadAt(t)'
  <2>1. \A s \in Slots : SlotFile[s] \in FileNames
    BY PipelineWorkerAssumption, ShardNames
  <2>2. \A s \in Slots : SlotOK(t, s) => SlotOK(t, s)'
    BY <2>1 DEF SlotOK
  <2>3. QED
    BY <2>2 DEF LoadInv, LoadAt, At, Kind
<1>3. QED
  BY <1>1, <1>2
LEMMA LoadFrame ==
  ASSUME LoadInv, UNCHANGED <<file, check, thread, slot, load>>
  PROVE  LoadInv'
<1>1. ASSUME NEW t \in Threads
      PROVE  KindAt(t)' /\ LoadAt(t)' /\ ReadyAt(t)'
  BY LoadStays DEF SameIdentity, Path
<1>2. QED
  BY <1>1 DEF LoadInv, LoadType

LEMMA LoadConstructs ==
  ASSUME LoadInv, ConstructionInv, NEW t \in Threads, Constructs(t)
  PROVE  LoadInv'
<1>0. UNCHANGED <<file, clock, check, slot, load>>
  BY ConstructsFiles, ConstructsKeeps
<1>1. LoadType'
  BY <1>0 DEF LoadInv, LoadType
<1>2. ASSUME NEW u \in Threads \ {t}
      PROVE  KindAt(u)' /\ LoadAt(u)' /\ ReadyAt(u)'
  BY <1>0, ConstructsKeeps, LoadStays DEF SameIdentity, Path, OthersStay
<1>3. load[t] = "none" /\ KindAt(t) /\ LoadAt(t)
  BY ConstructsKeeps DEF LoadInv, LoadAt, At
<1>4. KindAt(t)'
  BY <1>0, <1>3, ConstructsKeeps DEF KindAt, Kind, At
<1>5. LoadAt(t)' /\ ReadyAt(t)'
  BY <1>0, <1>3 DEF LoadAt, ReadyAt
<1>6. QED
  BY <1>1, <1>2, <1>4, <1>5 DEF LoadInv

(* The route of a construction is what its verification came to.           *)
LEMMA ResolvedResult ==
  ASSUME ConstructionInv, NEW t \in Threads, Resolved(t)
  PROVE  /\ UNCHANGED <<fileVars, slot, load>> /\ OthersStay(t) /\ thread[t].pc = "resolving"
         /\ thread'[t].pkg = thread[t].pkg /\ thread'[t].pc \in {"verified", "raised"}
         /\ \/ thread'[t].kind = "beta4" /\ check[t].phase = "bound"
            \/ thread'[t].kind = "official" /\ check[t].phase = "undeclared"
            \/ thread'[t].kind = "none" /\ check[t].phase = "refused"
<1>0. thread \in [Threads -> ThreadRec]
  BY DEF ConstructionInv, ConstructionType
<1>1. UNCHANGED <<fileVars, slot, load>> /\ thread[t].pc = "resolving"
  BY DEF Resolved, At
<1>2. PICK pc \in {"verified", "raised"}, kind \in {"beta4", "official", "none"} :
        /\ thread' = [thread EXCEPT ![t].pc = pc, ![t].kind = kind]
        /\ \/ kind = "beta4" /\ check[t].phase = "bound"
           \/ kind = "official" /\ check[t].phase = "undeclared"
           \/ kind = "none" /\ check[t].phase = "refused"
  <2>1. CASE check[t].phase = "bound"
    <3>1. thread' = [thread EXCEPT ![t].pc = "verified", ![t].kind = "beta4"]
      BY <2>1 DEF Resolved
    <3>2. QED
      BY <2>1, <3>1
  <2>2. CASE check[t].phase = "undeclared"
    <3>1. thread' = [thread EXCEPT ![t].pc = "verified", ![t].kind = "official"]
      BY <2>2 DEF Resolved
    <3>2. QED
      BY <2>2, <3>1
  <2>3. CASE check[t].phase = "refused"
    <3>1. thread' = [thread EXCEPT ![t].pc = "raised", ![t].kind = "none"]
      BY <2>3 DEF Resolved
    <3>2. QED
      BY <2>3, <3>1
  <2>4. QED
    BY <2>1, <2>2, <2>3 DEF Resolved
<1>3. OthersStay(t) /\ thread'[t].pkg = thread[t].pkg /\ thread'[t].pc = pc /\ thread'[t].kind = kind
  BY <1>0, <1>2 DEF OthersStay, ThreadRec
<1>4. QED
  BY <1>1, <1>2, <1>3

LEMMA ResolvePackageResult ==
  ASSUME ConstructionInv, FileInv, NEW t \in Threads, NEW k \in Packages, ResolvePackage(t, k)
  PROVE  /\ UNCHANGED <<file, clock, slot, load>> /\ OthersStay(t) /\ thread[t].pc = "idle"
         /\ \A u \in Threads \ {t} : check'[u] = check[u]
         /\ thread'[t].pkg = k
         /\ \/ Route[k] = "curve" /\ thread'[t].pc = "verified" /\ thread'[t].kind = "curve" /\ UNCHANGED check
            \/ /\ Route[k] # "curve" /\ thread'[t].pc = "resolving" /\ thread'[t].kind = "none"
               /\ check'[t] = [NoCheck(k) EXCEPT !.phase = "census"]
<1>0. thread \in [Threads -> ThreadRec] /\ check \in [Threads -> CheckRec]
  BY DEF ConstructionInv, ConstructionType, FileInv, FileType
<1>1. UNCHANGED <<file, clock, slot, load>> /\ thread[t].pc = "idle" /\ thread[t].kind = "none"
  BY DEF ResolvePackage, At, ConstructionInv, RouteAt
<1>2. CASE Route[k] = "curve"
  <2>1. UNCHANGED check /\ thread' = [thread EXCEPT ![t].pc = "verified", ![t].pkg = k, ![t].kind = "curve"]
    BY <1>2 DEF ResolvePackage
  <2>2. /\ OthersStay(t) /\ thread'[t].pkg = k
        /\ thread'[t].pc = "verified" /\ thread'[t].kind = "curve"
    BY <1>0, <2>1 DEF OthersStay, ThreadRec
  <2>3. QED
    BY <1>1, <1>2, <2>1, <2>2
<1>3. CASE Route[k] # "curve"
  <2>1. /\ thread' = [thread EXCEPT ![t].pc = "resolving", ![t].pkg = k]
        /\ check' = [check EXCEPT ![t] = [NoCheck(k) EXCEPT !.phase = "census"]]
    BY <1>3 DEF ResolvePackage, BindingStart
  <2>2. /\ OthersStay(t) /\ thread'[t].pkg = k
        /\ thread'[t].pc = "resolving" /\ thread'[t].kind = "none"
    BY <1>0, <1>1, <2>1 DEF OthersStay, ThreadRec
  <2>3. /\ \A u \in Threads \ {t} : check'[u] = check[u]
        /\ check'[t] = [NoCheck(k) EXCEPT !.phase = "census"]
    BY <1>0, <2>1
  <2>4. QED
    BY <1>1, <1>3, <2>2, <2>3
<1>4. QED
  BY <1>2, <1>3

LEMMA LoadResolve ==
  ASSUME LoadInv, FileInv, ConstructionInv, NEW t \in Threads,
         Resolved(t) \/ \E k \in Packages : ResolvePackage(t, k)
  PROVE  LoadInv'
<1>1. /\ UNCHANGED <<file, slot, load>> /\ OthersStay(t) /\ thread[t].pc \in {"idle", "resolving"}
      /\ \A u \in Threads \ {t} : check'[u] = check[u]
      /\ KindAt(t)'
  <2>1. CASE Resolved(t)
    <3>1. UNCHANGED check /\ KindAt(t)
      BY <2>1, ResolvedResult DEF fileVars, LoadInv
    <3>2. QED
      BY <2>1, <3>1, ResolvedResult DEF fileVars, KindAt, Kind, At
  <2>2. ASSUME NEW k \in Packages, ResolvePackage(t, k)
        PROVE  /\ UNCHANGED <<file, slot, load>> /\ OthersStay(t) /\ thread[t].pc \in {"idle", "resolving"}
               /\ \A u \in Threads \ {t} : check'[u] = check[u]
               /\ KindAt(t)'
    <3>1. [NoCheck(k) EXCEPT !.phase = "census"].pkg = k
      BY DEF NoCheck
    <3>2. QED
      BY <2>2, <3>1, ResolvePackageResult DEF KindAt, Kind, At
  <2>3. QED
    BY <2>1, <2>2
<1>2. load[t] = "none" /\ LoadAt(t)
  BY <1>1 DEF LoadInv, LoadAt, At
<1>3. LoadAt(t)' /\ ReadyAt(t)'
  BY <1>1, <1>2 DEF LoadAt, ReadyAt
<1>4. ASSUME NEW u \in Threads \ {t}
      PROVE  KindAt(u)' /\ LoadAt(u)' /\ ReadyAt(u)'
  BY <1>1, LoadStays DEF SameIdentity, Path, OthersStay
<1>5. LoadType'
  BY <1>1 DEF LoadInv, LoadType
<1>6. QED
  BY <1>1, <1>3, <1>4, <1>5 DEF LoadInv

(* A verification that goes on is of a thread that waits for it, or of     *)
(* none; the ones that constructions rest on are over.                     *)
LEMMA LoadVerify ==
  ASSUME LoadInv, FileInv, NEW t \in Threads, Verify(t)
  PROVE  LoadInv'
<1>0. /\ UNCHANGED <<file, thread, slot, load>> /\ check'[t].pkg = check[t].pkg /\ check[t].phase # "bound"
      /\ \A u \in Threads \ {t} : check'[u] = check[u]
  BY BindingStepKeeps DEF Verify, constructionVars, FileInv
<1>1. KindAt(t) /\ LoadAt(t) /\ Kind(t) # "beta4"
  BY <1>0 DEF LoadInv, KindAt
<1>2. KindAt(t)' /\ LoadAt(t)' /\ ReadyAt(t)'
  BY <1>0, <1>1 DEF KindAt, LoadAt, ReadyAt, Has, Kind, At
<1>3. ASSUME NEW u \in Threads \ {t}
      PROVE  KindAt(u)' /\ LoadAt(u)' /\ ReadyAt(u)'
  BY <1>0, LoadStays DEF SameIdentity, Path
<1>4. LoadType'
  BY <1>0 DEF LoadInv, LoadType
<1>5. QED
  BY <1>2, <1>3, <1>4 DEF LoadInv

(* Everything that was bound is pinned: an identity that is there after a  *)
(* change was there before.                                                *)
LEMMA BoundPinned ==
  ASSUME FileInv, NEW t \in Threads, check[t].phase = "bound", NEW name \in FileNames
  PROVE  /\ Path(t, name) \in Paths /\ check[t].bound[name] \in FileRec
         /\ Pinned(Path(t, name), check[t].bound[name])
<1>1. Path(t, name) \in Paths /\ check[t].bound[name] \in FileRec
  BY PathIsPath DEF FileInv, FileType, CheckRec
<1>2. CheckOK(t)
  BY DEF FileInv
<1>3. QED
  BY <1>1, <1>2, EveryName DEF CheckOK, DocumentsOK, ShardsOK, DocumentPinned, ShardPinned

LEMMA LoadEdit ==
  ASSUME LoadInv, FileInv, NEW k \in Packages, EditPackage(k)
  PROVE  LoadInv'
<1>0. FilesChange /\ UNCHANGED <<check, thread, slot, load>>
  BY EditChanges DEF EditPackage, constructionVars
<1>1. ASSUME NEW t \in Threads
      PROVE  KindAt(t)' /\ LoadAt(t)' /\ ReadyAt(t)'
  <2>1. KindAt(t)' /\ ReadyAt(t)'
    BY <1>0 DEF LoadInv, KindAt, ReadyAt, OfOneExport, Has, At, Kind
  <2>2. LoadAt(t)'
    <3>1. ASSUME NEW s \in Slots, load[t] = "reading"
          PROVE  SlotOK(t, s)'
      <4>1. SlotOK(t, s) /\ check[t].phase = "bound" /\ SlotFile[s] \in FileNames
        BY <3>1, PipelineWorkerAssumption, ShardNames DEF LoadInv, LoadAt, KindAt
      <4>2. Same(Path(t, SlotFile[s]), check[t].bound[SlotFile[s]])' => Same(Path(t, SlotFile[s]), check[t].bound[SlotFile[s]])
        BY <1>0, <4>1, BoundPinned, EditKeeps DEF FileInv, Path
      <4>3. QED
        BY <1>0, <4>1, <4>2 DEF SlotOK, SameIdentity, Same
    <3>2. QED
      BY <1>0, <3>1 DEF LoadInv, LoadAt, At, Kind
  <2>3. QED
    BY <2>1, <2>2
<1>2. QED
  BY <1>0, <1>1 DEF LoadInv, LoadType

LEMMA LoadStep ==
  ASSUME LoadInv, FileInv, NEW t \in Threads, LoadsWeights(t)
  PROVE  LoadInv'
<1>0. /\ UNCHANGED <<file, clock, check, thread>> /\ KindAt(t) /\ LoadAt(t)
      /\ slot \in [Threads -> [Slots -> Content]]
      /\ load \in [Threads -> {"none", "reading", "ready", "failed"}]
  BY ConstructsFiles DEF LoadsWeights, BeginLoad, EndLoad, Eval, ReadSlot, constructionVars, LoadInv, LoadType
<1>1. SUFFICES /\ LoadType' /\ LoadAt(t)' /\ ReadyAt(t)'
               /\ \A u \in Threads \ {t} : slot'[u] = slot[u] /\ load'[u] = load[u]
  <2>1. ASSUME NEW u \in Threads \ {t}
        PROVE  KindAt(u)' /\ LoadAt(u)' /\ ReadyAt(u)'
    BY <1>0, <1>1, LoadStays DEF SameIdentity, Path
  <2>2. KindAt(t)'
    BY <1>0 DEF KindAt, Kind, At
  <2>3. QED
    BY <1>1, <2>1, <2>2 DEF LoadInv
<1>2. ASSUME NEW to \in {"reading", "ready", "failed"}, Loads(t, to), UNCHANGED slot, At(t, "constructed"),
             to = "reading" => Kind(t) = "beta4" /\ \A s \in Slots : SlotOK(t, s),
             to = "ready" /\ Kind(t) = "beta4" => OfOneExport(t)
      PROVE  /\ LoadType' /\ LoadAt(t)' /\ ReadyAt(t)'
             /\ \A u \in Threads \ {t} : slot'[u] = slot[u] /\ load'[u] = load[u]
  <2>1. /\ load' \in [Threads -> {"none", "reading", "ready", "failed"}] /\ load'[t] = to
        /\ \A u \in Threads \ {t} : load'[u] = load[u]
    BY <1>0, <1>2 DEF Loads
  <2>2. \A s \in Slots : SlotOK(t, s)' = SlotOK(t, s)
    BY <1>0, <1>2 DEF SlotOK, SameIdentity, Path
  <2>3. OfOneExport(t)' = OfOneExport(t)
    BY <1>0, <1>2 DEF OfOneExport
  <2>4. LoadAt(t)'
    BY <1>0, <1>2, <2>1, <2>2 DEF LoadAt, At, Kind
  <2>5. ReadyAt(t)'
    BY <1>0, <1>2, <2>1, <2>3 DEF ReadyAt, Has, At, Kind
  <2>6. QED
    BY <1>0, <1>2, <2>1, <2>4, <2>5 DEF LoadType
<1>3. CASE BeginLoad(t)
  <2>1. \A s \in Slots : SlotOK(t, s)
    BY <1>0, <1>3 DEF BeginLoad, LoadAt, SlotOK
  <2>2. QED
    BY <1>2, <1>3, <2>1 DEF BeginLoad, Has
<1>4. CASE Eval(t)
  BY <1>2, <1>4 DEF Eval, Has
<1>5. CASE EndLoad(t)
  <2>1. At(t, "constructed") /\ check[t].phase = "bound" /\ \A s \in Slots : SlotOK(t, s)
    BY <1>0, <1>5 DEF EndLoad, LoadAt, KindAt
  <2>2. CASE MayServe(t)
    <3>1. OneExport(t)
      BY <2>1 DEF FileInv, CheckOK, ExportOK
    <3>2. \A s \in Slots : slot[t][s] = check[t].bound[SlotFile[s]].data /\ SlotFile[s] \in FileNames
      BY <2>1, <2>2, PipelineWorkerAssumption, ShardNames
      DEF MayServe, LoadComplete, BindingUnchanged, SlotOK
    <3>3. OfOneExport(t)
      BY <3>1, <3>2 DEF OneExport, OfOneExport
    <3>4. QED
      BY <1>2, <1>5, <2>1, <2>2, <3>3 DEF EndLoad
  <2>3. CASE ~MayServe(t)
    BY <1>2, <1>5, <2>1, <2>3 DEF EndLoad
  <2>4. QED
    BY <2>2, <2>3
<1>6. ASSUME NEW s \in Slots, ReadSlot(t, s)
      PROVE  /\ LoadType' /\ LoadAt(t)' /\ ReadyAt(t)'
             /\ \A u \in Threads \ {t} : slot'[u] = slot[u] /\ load'[u] = load[u]
  <2> DEFINE p == Path(t, SlotFile[s])
  <2>1. At(t, "constructed") /\ Kind(t) = "beta4" /\ check[t].phase = "bound" /\ load[t] = "reading"
    BY <1>0, <1>6 DEF ReadSlot, LoadAt, KindAt
  <2>2. CASE Loads(t, "failed") /\ UNCHANGED slot
    BY <1>2, <2>1, <2>2
  <2>3. CASE slot' = [slot EXCEPT ![t][s] = file[p].data] /\ UNCHANGED load
    <3>1. SlotFile[s] \in FileNames
      BY PipelineWorkerAssumption, ShardNames
    <3>2. p \in Paths /\ Pinned(p, check[t].bound[SlotFile[s]])
      BY <2>1, <3>1, BoundPinned
    <3>3. file[p].data \in Content
      BY <3>2 DEF FileInv, FileType, FileRec
    <3>4. LoadType' /\ \A u \in Threads \ {t} : slot'[u] = slot[u]
      BY <1>0, <2>3, <3>3 DEF LoadType
    <3>5. slot'[t][s] = file[p].data /\ \A r \in Slots \ {s} : slot'[t][r] = slot[t][r]
      BY <1>0, <2>3
    <3>6. ASSUME NEW r \in Slots
          PROVE  SlotOK(t, r)'
      <4>1. CASE r = s
        BY <1>0, <3>2, <3>5, <4>1 DEF SlotOK, SameIdentity, Path, Pinned, Same
      <4>2. CASE r # s
        BY <1>0, <2>1, <3>5, <4>2 DEF LoadAt, SlotOK, SameIdentity, Path
      <4>3. QED
        BY <4>1, <4>2
    <3>7. LoadAt(t)' /\ ReadyAt(t)'
      BY <1>0, <2>1, <2>3, <3>6 DEF LoadAt, ReadyAt, At, Kind
    <3>8. QED
      BY <2>3, <3>4, <3>7
  <2>4. QED
    BY <1>6, <2>2, <2>3 DEF ReadSlot
<1>7. QED
  BY <1>3, <1>4, <1>5, <1>6 DEF LoadsWeights

LEMMA LoadNext ==
  ASSUME LoadInv, FileInv, ConstructionInv, [WorkerNext]_workerVars
  PROVE  LoadInv'
<1>1. ASSUME NEW r \in Reqs, Serves(r)
      PROVE  LoadInv'
  BY <1>1, ServesFiles, LoadFrame DEF constructionVars
<1>2. CASE UNCHANGED workerVars
  BY <1>2, LoadFrame DEF workerVars, fileVars, constructionVars
<1>3. QED
  BY <1>1, <1>2, WorkerCases, LoadConstructs, LoadResolve, LoadVerify, LoadEdit, LoadStep

LEMMA LoadInit == WorkerInit => LoadInv
BY DEF WorkerInit, LoadInv, LoadType, KindAt, LoadAt, ReadyAt, Has, At, Kind, Content

(* The documents a beta4 model was accepted by, the digests of its shards  *)
(* and every slot it loaded are of one committed export, whatever other    *)
(* processes change between any two reads (beta4_binding.py).              *)
THEOREM ReadyModelIsVerified == WorkerSpec => []ReadyIsVerified
<1>1. WorkerSpec => []LoadInv
  BY LoadInit, LoadNext, FilesSafe, ConstructionSafe, PTL DEF WorkerSpec
<1>2. LoadInv => ReadyIsVerified
  BY DEF LoadInv, ReadyAt, OfOneExport, ReadyIsVerified
<1>3. QED
  BY <1>1, <1>2, PTL
-----------------------------------------------------------------------------
(* The route.                                                              *)

LEMMA DeclaringFinite == IsFiniteSet(Declaring) /\ Cardinality(Declaring) \in Nat \ {0}
<1> DEFINE f == [i \in 1..Len(Documents) |-> Documents[i]]
           T == {Documents[i] : i \in 1..Len(Documents)}
<1>1. Len(Documents) \in Nat
  BY DocumentNames
<1>2. IsFiniteSet(1..Len(Documents))
  BY <1>1, FS_Interval
<1>3. f \in Surjection(1..Len(Documents), T)
  BY DEF Surjection
<1>4. IsFiniteSet(T)
  <2> HIDE DEF f, T
  <2>1. QED
    BY <1>2, <1>3, FS_Surjection
<1>5. Declaring \in SUBSET T /\ Declaring # {}
  BY Beta4BindingAssumption
<1>6. IsFiniteSet(Declaring)
  <2> HIDE DEF T
  <2>1. QED
    BY <1>4, <1>5, FS_Subset
<1>7. QED
  BY <1>5, <1>6, FS_CardinalityType, FS_EmptySet

LEMMA FewIn ==
  ASSUME NEW S, IsFiniteSet(S), NEW T \in SUBSET S, NEW n \in Nat, Cardinality(S) < n
  PROVE  Cardinality(T) < n
BY FS_Subset, FS_CardinalityType

LEMMA OneMore ==
  ASSUME NEW S, IsFiniteSet(S), NEW x, NEW T \in SUBSET (S \cup {x}), NEW n \in Nat, Cardinality(S) < n
  PROVE  Cardinality(T) < n + 1
<1>1. IsFiniteSet(S \cup {x}) /\ Cardinality(S) \in Nat
      /\ Cardinality(S \cup {x}) \in {Cardinality(S), Cardinality(S) + 1}
  BY FS_AddElement, FS_CardinalityType
<1>2. IsFiniteSet(T) /\ Cardinality(T) <= Cardinality(S \cup {x}) /\ Cardinality(T) \in Nat
  BY <1>1, FS_Subset, FS_CardinalityType
<1>3. QED
  BY <1>1, <1>2

LEMMA SilentFinite ==
  ASSUME NEW k
  PROVE  /\ Silent(k) \subseteq Declaring /\ IsFiniteSet(Silent(k))
         /\ \A t : Silent(k) \cup Passed(t) \subseteq Declaring /\ IsFiniteSet(Silent(k) \cup Passed(t))
<1>1. Silent(k) \subseteq Declaring /\ \A t : Passed(t) \subseteq Declaring
  BY DEF Silent, Passed
<1>2. \A T \in SUBSET Declaring : IsFiniteSet(T)
  BY DeclaringFinite, FS_Subset
<1>3. QED
  BY <1>1, <1>2

(* An edit makes one document silent at most.                              *)
LEMMA EditSilences ==
  ASSUME FileInv, NEW k \in Packages, EditPackage(k), NEW j \in Packages
  PROVE  \E d : Silent(j)' \subseteq Silent(j) \cup {d}
<1>0. file \in [Paths -> FileRec] /\ \A d \in Declaring : <<j, d>> \in Paths
  BY DeclaringNames, Beta4BindingAssumption DEF FileInv, FileType, FileNames, Files
<1>1. ASSUME NEW name \in FileNames, \A p \in Paths \ {<<k, name>>} : file'[p] = file[p]
      PROVE  Silent(j)' \subseteq Silent(j) \cup {name}
  <2>1. \A d \in Declaring \ {name} : file'[<<j, d>>] = file[<<j, d>>]
    BY <1>0, <1>1
  <2>2. QED
    BY <2>1 DEF Silent
<1>2. ASSUME NEW name \in FileNames, NEW data, RewriteFile(<<k, name>>, data) \/ ReplaceFile(<<k, name>>, data)
      PROVE  \E d : Silent(j)' \subseteq Silent(j) \cup {d}
  <2>1. \A p \in Paths \ {<<k, name>>} : file'[p] = file[p]
    BY <1>0, <1>2 DEF RewriteFile, ReplaceFile
  <2>2. QED
    BY <1>1, <2>1
<1>3. ASSUME NEW data \in Exports, ExchangeExport(k, data)
      PROVE  \E d : Silent(j)' \subseteq Silent(j) \cup {d}
  <2>1. \A d \in Declaring : file'[<<j, d>>].data \in Exports \/ file'[<<j, d>>] = file[<<j, d>>]
    BY <1>0, <1>3 DEF ExchangeExport
  <2>2. QED
    BY <2>1 DEF Silent
<1>4. QED
  BY <1>2, <1>3 DEF EditPackage

LEMMA DetectEdit ==
  ASSUME FileInv, DetectInv, NEW k \in Packages, EditPackage(k)
  PROVE  DetectInv'
<1>0. UNCHANGED <<check, thread>> /\ clock' = clock + 1 /\ clock \in Nat \ {0} /\ check \in [Threads -> CheckRec]
  BY DEF EditPackage, constructionVars, FileInv, FileType
<1>1. SilentOK'
  <2>1. ASSUME NEW j \in Packages, Route[j] = "beta4"
        PROVE  Cardinality(Silent(j)') < clock'
    <3>1. PICK d : Silent(j)' \subseteq Silent(j) \cup {d}
      BY EditSilences
    <3>2. Cardinality(Silent(j)) < clock /\ IsFiniteSet(Silent(j))
      BY <2>1, SilentFinite DEF DetectInv, SilentOK
    <3>3. QED
      BY <1>0, <3>1, <3>2, OneMore
  <2>2. QED
    BY <2>1 DEF SilentOK
<1>2. UntouchedOK'
  BY <1>0 DEF UntouchedOK
<1>3. ASSUME NEW t \in Threads
      PROVE  DetectOK(t)' /\ ResolvedAt(t)'
  <2>0. PICK j \in Packages : j = check[t].pkg
    BY <1>0 DEF CheckRec
  <2>1. DetectOK(t) /\ ResolvedAt(t) /\ Cardinality(Declaring) \in Nat
    BY DeclaringFinite DEF DetectInv
  <2>2. ASSUME Cardinality(Silent(j) \cup Passed(t)) < clock
        PROVE  Cardinality((Silent(j) \cup Passed(t))') < clock'
    <3>1. PICK d : Silent(j)' \subseteq Silent(j) \cup {d}
      BY EditSilences
    <3>2. Passed(t)' = Passed(t) /\ (Silent(j) \cup Passed(t))' \subseteq (Silent(j) \cup Passed(t)) \cup {d}
      BY <1>0, <3>1 DEF Passed
    <3> DEFINE S == Silent(j) \cup Passed(t)
               T == (Silent(j) \cup Passed(t))'
    <3>3. IsFiniteSet(S) /\ T \in SUBSET (S \cup {d}) /\ Cardinality(S) < clock /\ clock \in Nat
      BY <1>0, <2>2, <3>2, SilentFinite
    <3> HIDE DEF S, T
    <3>4. Cardinality(T) < clock + 1
      BY <3>3, OneMore
    <3>5. QED
      BY <1>0, <3>4 DEF T
  <2>3. DetectOK(t)'
    BY <1>0, <2>0, <2>1, <2>2 DEF DetectOK
  <2>4. ResolvedAt(t)'
    BY <1>0, <2>1 DEF ResolvedAt, At, Kind
  <2>5. QED
    BY <2>3, <2>4
<1>4. QED
  BY <1>1, <1>2, <1>3 DEF DetectInv
(* What a step of a verification makes of one that nobody declared yet.    *)
DetectResult(t, new) ==
  LET k == check[t].pkg
  IN  /\ new.pkg = k
      /\ Route[k] = "beta4" /\ ~new.attempted /\ new.phase = "detecting" =>
           Cardinality(Silent(k) \cup {d \in Declaring : \E i \in 1..new.at - 1 : d = Documents[i]}) < clock
      /\ Route[k] = "beta4" /\ ~new.attempted /\ new.phase = "detected" => Cardinality(Declaring) < clock
      /\ Route[k] = "beta4" /\ new.phase = "undeclared" => Cardinality(Declaring) < clock
      /\ Route[k] = "official" /\ clock = 1 =>
           /\ new.phase \in {"census", "hashing", "detecting", "detected"} => ~new.attempted
           /\ new.phase \notin {"documents", "opening", "binding", "sources", "files", "bound"}
      /\ new.phase \in {"census", "hashing"} => ~new.attempted

LEMMA DetectUpdate ==
  ASSUME FileType, DetectInv, NEW t \in Threads, NEW new, UNCHANGED <<file, clock, thread>>,
         check' = [check EXCEPT ![t] = new], DetectResult(t, new)
  PROVE  DetectInv'
<1>0. check'[t] = new /\ \A u \in Threads \ {t} : check'[u] = check[u]
  BY DEF FileType
<1>1. SilentOK' /\ UntouchedOK'
  BY DEF DetectInv, SilentOK, UntouchedOK, Silent
<1>2. \A u \in Threads : ResolvedAt(u)'
  BY DEF DetectInv, ResolvedAt, At, Kind
<1>3. ASSUME NEW u \in Threads \ {t}
      PROVE  DetectOK(u)'
  BY <1>0 DEF DetectInv, DetectOK, Silent, Passed
<1>4. DetectOK(t)'
  BY <1>0 DEF DetectResult, DetectOK, Silent, Passed
<1>5. QED
  BY <1>1, <1>2, <1>3, <1>4 DEF DetectInv

LEMMA DetectRefuses ==
  ASSUME FileType, DetectInv, NEW t \in Threads, UNCHANGED <<file, clock, thread>>, Refuses(t)
  PROVE  DetectInv'
<1> DEFINE new == [check[t] EXCEPT !.phase = "refused", !.at = 1]
<1>1. check \in [Threads -> CheckRec] /\ check[t] \in CheckRec
  BY DEF FileType
<1>2. check' = [check EXCEPT ![t] = new]
  BY <1>1, PhaseUpdate DEF Refuses
<1>3. new.pkg = check[t].pkg /\ new.phase = "refused"
  BY <1>1 DEF CheckRec
<1>4. QED
  <2> HIDE DEF new
  <2>1. QED
    BY <1>2, <1>3, DetectUpdate DEF DetectResult

(* Nothing was passed before the first document is read.                   *)
LEMMA NonePassed ==
  ASSUME DetectInv, NEW t \in Threads, check[t].pkg \in Packages, Route[check[t].pkg] = "beta4"
  PROVE  Cardinality(Silent(check[t].pkg) \cup {d \in Declaring : \E i \in 1..1 - 1 : d = Documents[i]}) < clock
<1>1. {d \in Declaring : \E i \in 1..1 - 1 : d = Documents[i]} = {}
  OBVIOUS
<1>2. QED
  BY <1>1 DEF DetectInv, SilentOK

LEMMA DetectHash ==
  ASSUME FileInv, DetectInv, NEW t \in Threads, UNCHANGED thread, ListPackage(t) \/ HashFile(t)
  PROVE  DetectInv'
<1>0. /\ check[t] \in CheckRec /\ check \in [Threads -> CheckRec] /\ FileType /\ CheckOK(t) /\ DetectOK(t)
      /\ UNCHANGED <<file, clock>> /\ check[t].pkg \in Packages /\ check[t].phase \in {"census", "hashing"}
      /\ ~check[t].attempted
  BY DEF FileInv, FileType, ListPackage, HashFile, DetectInv, DetectOK, CheckRec
<1>1. CASE Refuses(t)
  BY <1>0, <1>1, DetectRefuses
<1>2. CASE ListPackage(t) /\ ~Refuses(t)
  <2> DEFINE new == [check[t] EXCEPT !.phase = "hashing", !.at = 1]
  <2>1. check' = [check EXCEPT ![t] = new]
    BY <1>0, <1>2, PhaseUpdate DEF ListPackage, Refuses
  <2>2. new.pkg = check[t].pkg /\ new.phase = "hashing" /\ new.attempted = check[t].attempted
    BY <1>0 DEF CheckRec
  <2>3. QED
    <3> HIDE DEF new
    <3>1. QED
      BY <1>0, <2>1, <2>2, DetectUpdate DEF DetectResult
<1>3. CASE HashFile(t) /\ ~Refuses(t)
  <2>1. Advance(t, Len(Files), "detecting", check[t]) /\ check[t].at <= Len(Files)
    BY <1>0, <1>3 DEF HashFile, CheckOK, AtOK, LastOf
  <2>2. PICK to \in CheckRec :
          /\ check' = [check EXCEPT ![t] = to] /\ SameRecord(to, check[t])
          /\ \/ check[t].at = Len(Files) /\ to.phase = "detecting" /\ to.at = 1
             \/ check[t].at < Len(Files) /\ to.phase = check[t].phase /\ to.at = check[t].at + 1
    BY <1>0, <2>1, DocumentNames, Advanced, "detecting" \in Phases DEF Phases
  <2>3. /\ to.pkg = check[t].pkg /\ ~to.attempted
        /\ to.phase = "hashing" \/ (to.phase = "detecting" /\ to.at = 1)
    BY <1>0, <1>3, <2>2 DEF SameRecord, HashFile
  <2>4. DetectResult(t, to)
    BY <1>0, <2>3, NonePassed DEF DetectResult
  <2>5. QED
    BY <1>0, <2>2, <2>4, DetectUpdate
<1>4. QED
  BY <1>1, <1>2, <1>3

LEMMA DetectDocument ==
  ASSUME FileInv, DetectInv, NEW t \in Threads, UNCHANGED thread, Detect(t)
  PROVE  DetectInv'
<1> DEFINE i == check[t].at
           k == check[t].pkg
           name == Documents[i]
           hit == name \in Declaring /\ file[Path(t, name)].data \in Exports
           new == [check[t] EXCEPT !.attempted = @ \/ hit]
           Past(n) == {d \in Declaring : \E j \in 1..n : d = Documents[j]}
<1>0. /\ check[t] \in CheckRec /\ check \in [Threads -> CheckRec] /\ FileType /\ CheckOK(t) /\ DetectOK(t)
      /\ UNCHANGED <<file, clock>> /\ check[t].pkg \in Packages /\ check[t].phase = "detecting"
      /\ clock \in Nat
  BY DEF FileInv, FileType, Detect, DetectInv, CheckRec
<1>1. CASE Refuses(t)
  BY <1>0, <1>1, DetectRefuses
<1>2. CASE ~Refuses(t)
  <2>1. Advance(t, Len(Documents), "detected", new) /\ i \in 1..Len(Documents)
    BY <1>0, <1>2, DocumentNames DEF Detect, CheckOK, AtOK, LastOf, CheckRec
  <2>2. /\ new \in CheckRec /\ new.at = i /\ new.phase = "detecting" /\ new.pkg = k
        /\ new.attempted <=> check[t].attempted \/ hit
    BY <1>0 DEF CheckRec
  <2> HIDE DEF new
  <2>3. PICK to \in CheckRec :
          /\ check' = [check EXCEPT ![t] = to] /\ SameRecord(to, new)
          /\ \/ i = Len(Documents) /\ to.phase = "detected" /\ to.at = 1
             \/ i < Len(Documents) /\ to.phase = "detecting" /\ to.at = i + 1
    BY <2>1, <2>2, DocumentNames, Advanced, "detected" \in Phases DEF Phases
  <2>4. to.pkg = k /\ (to.attempted <=> check[t].attempted \/ hit)
    BY <2>2, <2>3 DEF SameRecord
  <2>5. ASSUME Route[k] = "beta4", ~to.attempted
        PROVE  Cardinality(Silent(k) \cup Past(i)) < clock
    <3>1. Cardinality(Silent(k) \cup Past(i - 1)) < clock
      BY <1>0, <2>4, <2>5 DEF DetectOK, Passed
    <3>2. name \in Declaring => name \in Silent(k)
      BY <2>4, <2>5 DEF Silent, Path
    <3>3. Past(i) \subseteq Past(i - 1) \cup {name}
      BY <2>1, DocumentNames
    <3>4. Past(i - 1) \subseteq Past(i) /\ Past(i) \subseteq Declaring
      BY <2>1, DocumentNames
    <3>5. Silent(k) \cup Past(i) = Silent(k) \cup Past(i - 1)
      BY <3>2, <3>3, <3>4
    <3>6. QED
      BY <3>1, <3>5
  <2>6. ASSUME Route[k] = "beta4", ~to.attempted, i = Len(Documents)
        PROVE  Cardinality(Declaring) < clock
    <3>1. Declaring \subseteq Silent(k) \cup Past(i)
      BY <2>6, Beta4BindingAssumption
    <3>2. Silent(k) \cup Past(i) \subseteq Declaring
      BY DEF Silent
    <3>3. QED
      BY <2>5, <2>6, <3>1, <3>2
  <2>7. ASSUME Route[k] = "official", clock = 1
        PROVE  ~to.attempted
    <3>1. ~check[t].attempted
      BY <1>0, <2>7 DEF DetectOK
    <3>2. Recorded[k] \notin Exports
      BY <1>0, <2>7, PipelineWorkerAssumption
    <3>3. name \in Declaring => file[Path(t, name)].data = Recorded[k]
      <4>1. Path(t, name) \in Paths /\ Path(t, name)[1] = k
        BY <1>0, <2>1, DocumentNames, PathIsPath DEF Path
      <4>2. QED
        BY <2>7, <4>1 DEF DetectInv, UntouchedOK
    <3>4. QED
      BY <2>4, <3>1, <3>2, <3>3
  <2>8. to.at - 1 = i \/ to.phase = "detected"
    BY <2>1, <2>3
  <2>9. DetectResult(t, to)
    BY <2>3, <2>4, <2>5, <2>6, <2>7, <2>8 DEF DetectResult
  <2>10. QED
    BY <1>0, <2>3, <2>9, DetectUpdate
<1>3. QED
  BY <1>1, <1>2
LEMMA DetectTree ==
  ASSUME FileInv, DetectInv, NEW t \in Threads, UNCHANGED thread, ListTree(t)
  PROVE  DetectInv'
<1>0. /\ check[t] \in CheckRec /\ check \in [Threads -> CheckRec] /\ FileType /\ DetectOK(t)
      /\ UNCHANGED <<file, clock>> /\ check[t].phase = "detected"
  BY DEF FileInv, FileType, ListTree, DetectInv
<1>1. PICK phase \in {"undeclared", "documents", "refused"} :
        /\ Phase(t, phase)
        /\ phase = "undeclared" => ~check[t].attempted
        /\ phase = "documents" => check[t].attempted
  BY DEF ListTree
<1> DEFINE new == [check[t] EXCEPT !.phase = phase, !.at = 1]
<1>2. check' = [check EXCEPT ![t] = new]
  BY <1>0, <1>1, PhaseUpdate
<1>3. new.pkg = check[t].pkg /\ new.phase = phase
  BY <1>0 DEF CheckRec
<1>4. DetectResult(t, new)
  <2> HIDE DEF new
  <2>1. QED
    BY <1>0, <1>1, <1>3 DEF DetectResult, DetectOK
<1>5. QED
  <2> HIDE DEF new
  <2>1. QED
    BY <1>0, <1>2, <1>4, DetectUpdate

LEMMA DetectVerify ==
  ASSUME FileInv, DetectInv, NEW t \in Threads, Verify(t)
  PROVE  DetectInv'
<1>0. /\ BindingStep(t) /\ UNCHANGED <<file, clock, thread>> /\ FileType /\ FileInv'
      /\ check'[t].pkg = check[t].pkg /\ \A u \in Threads \ {t} : check'[u] = check[u]
  BY BindingStepKeeps, FileBindingStep DEF Verify, constructionVars, FileInv
<1>1. CASE check[t].phase \in {"census", "hashing", "detecting", "detected"}
  BY <1>0, <1>1, DetectHash, DetectDocument, DetectTree
  DEF BindingStep, ReadDocument, OpenShard, BindShard, VerifyShard, VerifyFile
<1>2. CASE check[t].phase \in ReadingPhases
  <2>1. check'[t].phase \in ReadingPhases \cup {"bound", "refused"}
    BY <1>0, <1>2, BindingStepReads
  <2>2. check' = [check EXCEPT ![t] = check'[t]]
    BY <1>0 DEF FileInv, FileType
  <2>3. DetectOK(t)
    BY DEF DetectInv
  <2>4. DetectResult(t, check'[t])
    BY <1>0, <1>2, <2>1, <2>3 DEF DetectResult, DetectOK, ReadingPhases
  <2>5. QED
    BY <1>0, <2>2, <2>4, DetectUpdate
<1>3. QED
  BY <1>0, <1>1, <1>2
  DEF BindingStep, ReadingPhases, ListPackage, HashFile, Detect, ListTree, ReadDocument, OpenShard, BindShard,
      VerifyShard, VerifyFile

LEMMA DetectResolve ==
  ASSUME FileInv, LoadInv, ConstructionInv, DetectInv, NEW t \in Threads,
         Resolved(t) \/ \E k \in Packages : ResolvePackage(t, k)
  PROVE  DetectInv'
<1>1. CASE Resolved(t)
  <2>1. /\ UNCHANGED <<file, clock, check>> /\ OthersStay(t) /\ thread[t].pc = "resolving"
        /\ thread'[t].pkg = thread[t].pkg /\ thread'[t].pc \in {"verified", "raised"}
        /\ \/ thread'[t].kind = "beta4" /\ check[t].phase = "bound"
           \/ thread'[t].kind = "official" /\ check[t].phase = "undeclared"
           \/ thread'[t].kind = "none" /\ check[t].phase = "refused"
    BY <1>1, ResolvedResult DEF fileVars
  <2>2. SilentOK' /\ UntouchedOK' /\ \A u \in Threads : DetectOK(u)'
    BY <2>1 DEF DetectInv, SilentOK, UntouchedOK, Silent, DetectOK, Passed
  <2>3. \A u \in Threads \ {t} : ResolvedAt(u)'
    BY <2>1 DEF DetectInv, ResolvedAt, OthersStay, At, Kind
  <2>4. /\ check[t].pkg = thread[t].pkg /\ DetectOK(t) /\ ResolvedAt(t) /\ clock \in Nat \ {0}
    BY <2>1 DEF LoadInv, KindAt, At, DetectInv, FileInv, FileType
  <2>5. ResolvedAt(t)'
    BY <2>1, <2>4 DEF ResolvedAt, DetectOK, At, Kind
  <2>6. QED
    BY <2>2, <2>3, <2>5 DEF DetectInv
<1>2. ASSUME NEW k \in Packages, ResolvePackage(t, k)
      PROVE  DetectInv'
  <2>1. /\ UNCHANGED <<file, clock>> /\ OthersStay(t)
        /\ \A u \in Threads \ {t} : check'[u] = check[u]
        /\ thread'[t].pkg = k
        /\ \/ Route[k] = "curve" /\ thread'[t].pc = "verified" /\ thread'[t].kind = "curve" /\ UNCHANGED check
           \/ /\ Route[k] # "curve" /\ thread'[t].pc = "resolving" /\ thread'[t].kind = "none"
              /\ check'[t] = [NoCheck(k) EXCEPT !.phase = "census"]
    BY <1>2, ResolvePackageResult
  <2>2. SilentOK' /\ UntouchedOK'
    BY <2>1 DEF DetectInv, SilentOK, UntouchedOK, Silent
  <2>3. ASSUME NEW u \in Threads \ {t}
        PROVE  DetectOK(u)' /\ ResolvedAt(u)'
    <3>1. UNCHANGED <<file, clock>> /\ check'[u] = check[u] /\ thread'[u] = thread[u]
      BY <2>1 DEF OthersStay
    <3>2. DetectOK(u) /\ ResolvedAt(u)
      BY DEF DetectInv
    <3>3. DetectOK(u)'
      BY <3>1, <3>2 DEF DetectOK, Silent, Passed
    <3>4. ResolvedAt(u)'
      BY <3>1, <3>2 DEF ResolvedAt, At, Kind
    <3>5. QED
      BY <3>3, <3>4
  <2>4. DetectOK(t)'
    <3>1. CASE UNCHANGED check
      BY <2>1, <3>1 DEF DetectInv, DetectOK, Silent, Passed
    <3>2. CASE check'[t] = [NoCheck(k) EXCEPT !.phase = "census"]
      <4>1. check'[t].phase = "census" /\ ~check'[t].attempted
        BY <3>2 DEF NoCheck
      <4>2. QED
        BY <4>1 DEF DetectOK
    <3>3. QED
      BY <2>1, <3>1, <3>2
  <2>5. ResolvedAt(t)'
    BY <2>1 DEF ResolvedAt, At, Kind
  <2>6. QED
    BY <2>2, <2>3, <2>4, <2>5 DEF DetectInv
<1>3. QED
  BY <1>1, <1>2

(* What else is done keeps the packages and the routes.                    *)
LEMMA DetectOther ==
  ASSUME DetectInv, UNCHANGED <<file, clock, check>>,
         \A t \in Threads : /\ thread'[t].pkg = thread[t].pkg /\ thread'[t].kind = thread[t].kind
                            /\ thread'[t].pc = "resolving" => thread[t].pc = "resolving"
  PROVE  DetectInv'
<1>1. SilentOK' /\ UntouchedOK'
  BY DEF DetectInv, SilentOK, UntouchedOK, Silent
<1>2. ASSUME NEW t \in Threads
      PROVE  DetectOK(t)' /\ ResolvedAt(t)'
  BY DEF DetectInv, DetectOK, Silent, Passed, ResolvedAt, At, Kind
<1>3. QED
  BY <1>1, <1>2 DEF DetectInv

LEMMA DetectNext ==
  ASSUME DetectInv, LoadInv, FileInv, ConstructionInv, [WorkerNext]_workerVars
  PROVE  DetectInv'
<1>1. ASSUME NEW t \in Threads, Constructs(t)
      PROVE  DetectInv'
  BY <1>1, ConstructsFiles, ConstructsKeeps, DetectOther DEF OthersStay
<1>2. ASSUME NEW t \in Threads, LoadsWeights(t)
      PROVE  DetectInv'
  <2>1. UNCHANGED thread
    BY <1>2 DEF LoadsWeights, BeginLoad, EndLoad, Eval, ReadSlot, constructionVars
  <2>2. QED
    BY <1>2, <2>1, ConstructsFiles, DetectOther
<1>3. ASSUME NEW r \in Reqs, Serves(r)
      PROVE  DetectInv'
  BY <1>3, ServesFiles, DetectOther DEF constructionVars
<1>4. CASE UNCHANGED workerVars
  BY <1>4, DetectOther DEF workerVars, fileVars, constructionVars
<1>5. QED
  BY <1>1, <1>2, <1>3, <1>4, WorkerCases, DetectVerify, DetectResolve, DetectEdit

LEMMA DetectInit == WorkerInit => DetectInv
<1> SUFFICES ASSUME WorkerInit
             PROVE  DetectInv
  OBVIOUS
<1>1. /\ clock = 1 /\ \A p \in Paths : file[p].data = Recorded[p[1]]
      /\ \A t \in Threads : check[t].phase = "none" /\ thread[t].kind = "none" /\ thread[t].pc = "idle"
  BY DEF WorkerInit, BindingInit, NoCheck
<1>2. SilentOK
  <2>1. ASSUME NEW k \in Packages, Route[k] = "beta4"
        PROVE  Cardinality(Silent(k)) < clock
    <3>1. \A d \in Declaring : <<k, d>> \in Paths /\ <<k, d>>[1] = k
      BY DeclaringNames, Beta4BindingAssumption DEF FileNames, Files
    <3>2. Silent(k) = {}
      BY <1>1, <2>1, <3>1, PipelineWorkerAssumption DEF Silent
    <3>3. QED
      BY <1>1, <3>2, FS_EmptySet
  <2>2. QED
    BY <2>1 DEF SilentOK
<1>3. UntouchedOK
  BY <1>1 DEF UntouchedOK
<1>4. \A t \in Threads : DetectOK(t) /\ ResolvedAt(t)
  BY <1>1 DEF DetectOK, ResolvedAt, At, Kind
<1>5. QED
  BY <1>2, <1>3, <1>4 DEF DetectInv

(* A pipeline that was constructed is of one kind in its model, its parts  *)
(* and the package they are bound to, and of the kind of its package while *)
(* one of the documents that declare it is untouched                       *)
(* (optional_beta4_binding, H3ComfyMiniMaxH3Pipeline).                     *)
THEOREM RouteIsHonoured == WorkerSpec => []RouteHonoured
<1>1. WorkerSpec => []LoadInv
  BY LoadInit, LoadNext, FilesSafe, ConstructionSafe, PTL DEF WorkerSpec
<1>2. WorkerSpec => []DetectInv
  BY <1>1, DetectInit, DetectNext, FilesSafe, ConstructionSafe, PTL DEF WorkerSpec
<1>3. ConstructionInv /\ FileInv /\ DetectInv => RouteHonoured
  <2> SUFFICES ASSUME ConstructionInv, FileInv, DetectInv, NEW t \in Threads, At(t, "constructed")
               PROVE  LET k == thread[t].pkg
                      IN  /\ thread[t].model = Kind(t) /\ thread[t].parts = Kind(t)
                          /\ thread[t].bound = IF Kind(t) = "official" THEN NoPackage ELSE k
                          /\ clock = 1 => Kind(t) = Route[k]
                          /\ Route[k] = "beta4" /\ clock <= Cardinality(Declaring) => Kind(t) = "beta4"
    BY DEF RouteHonoured
  <2> DEFINE k == thread[t].pkg
  <2>1. /\ thread[t].model = Kind(t) /\ thread[t].parts = Kind(t)
        /\ thread[t].bound = IF Kind(t) = "official" THEN NoPackage ELSE k
        /\ Kind(t) \in Kinds /\ k \in Packages
    BY DEF ConstructionInv, RouteAt, At
  <2>2. ResolvedAt(t) /\ clock \in Nat \ {0} /\ Cardinality(Declaring) \in Nat \ {0}
    BY DeclaringFinite DEF DetectInv, FileInv, FileType
  <2>3. Route[k] \in {"beta4", "curve", "official"}
    BY <2>1, PipelineWorkerAssumption
  <2>4. clock = 1 => Kind(t) = Route[k]
    BY <2>1, <2>2, <2>3 DEF ResolvedAt, Kinds
  <2>5. Route[k] = "beta4" /\ clock <= Cardinality(Declaring) => Kind(t) = "beta4"
    BY <2>1, <2>2 DEF ResolvedAt, Kinds
  <2>6. QED
    BY <2>1, <2>4, <2>5
<1>4. QED
  BY <1>2, <1>3, FilesSafe, ConstructionSafe, PTL

-----------------------------------------------------------------------------
(* Lemmas: the compiled schedule, and the rows of its plans in the cache.  *)

(* Modes and steps in order: every pair of them is evaluated.             *)
LEMMA ModePlaces ==
  /\ Len(ModeOrder) = 5
  /\ \A m \in 1..5 : ModeOrder[m] \in Modes
  /\ \A mode \in Modes : \E m \in 1..5 : ModeOrder[m] = mode
BY DEF ModeOrder, Modes, MODE_FIELDS

LEMMA EvaluationCount == 5 * Steps \in Nat /\ Len(Evaluations) = 5 * Steps /\ Steps \in Nat \ {0}
<1>1. Steps \in Nat \ {0} /\ 5 * Steps \in Nat
  BY H3ScheduleAssumption
<1>2. QED
  BY <1>1, ModePlaces DEF Evaluations

LEMMA EvaluationIs ==
  ASSUME NEW n \in 1..5 * Steps
  PROVE  Evaluations[n].mode \in Modes /\ Evaluations[n].step \in 1..Steps
<1>1. n - 1 \in 0..5 * Steps - 1 /\ Steps \in Nat \ {0}
  BY EvaluationCount
<1>20. (n - 1) \div Steps \in 0..5 - 1 /\ (n - 1) % Steps \in 0..Steps - 1
  <2>1. 5 \in Nat
    OBVIOUS
  <2>2. QED
    BY <1>1, <2>1, DivisionRange
<1>2. (n - 1) \div Steps \in 0..4 /\ (n - 1) % Steps \in 0..Steps - 1
  BY <1>20
<1>3. ((n - 1) \div Steps) + 1 \in 1..5 /\ ((n - 1) % Steps) + 1 \in 1..Steps
  BY <1>2, <1>1
<1>4. Evaluations[n] = [mode |-> ModeOrder[((n - 1) \div Steps) + 1], step |-> ((n - 1) % Steps) + 1]
  BY ModePlaces DEF Evaluations
<1>5. ModeOrder[((n - 1) \div Steps) + 1] \in Modes
  BY <1>3, ModePlaces, Zenon
<1>6. QED
  BY <1>3, <1>4, <1>5

LEMMA EvaluationOf ==
  ASSUME NEW mode \in Modes, NEW s \in 1..Steps
  PROVE  \E n \in 1..5 * Steps : Evaluations[n] = [mode |-> mode, step |-> s]
<1>1. PICK m \in 1..5 : ModeOrder[m] = mode
  BY ModePlaces
<1> DEFINE n == (m - 1) * Steps + (s - 1) + 1
<1>2. Steps \in Nat \ {0} /\ m - 1 \in Nat /\ s - 1 \in 0..Steps - 1
  BY EvaluationCount
<1>3. (m - 1) * Steps + (s - 1) \in 0..5 * Steps - 1
  BY <1>2
<1>4. n \in 1..5 * Steps /\ n - 1 = (m - 1) * Steps + (s - 1)
  BY <1>3, <1>2, EvaluationCount
<1>5. (n - 1) \div Steps = m - 1 /\ (n - 1) % Steps = s - 1
  BY <1>2, <1>4, Division
<1> HIDE DEF n
<1>6. Evaluations[n] = [mode |-> ModeOrder[((n - 1) \div Steps) + 1], step |-> ((n - 1) % Steps) + 1]
  BY <1>4, ModePlaces DEF Evaluations
<1>7. (m - 1) + 1 = m /\ (s - 1) + 1 = s
  OBVIOUS
<1>8. QED
  BY <1>1, <1>4, <1>5, <1>6, <1>7, Zenon

LEMMA CandidatesNonempty ==
  ASSUME NEW mode \in Modes, NEW s \in 1..Steps
  PROVE  /\ Candidates(mode, s) \in SUBSET Nat
         /\ Cardinality(Candidates(mode, s)) \in Nat \ {0}
<1> DEFINE value == [video |-> VideoT[s], audio |-> AudioT[s],
                     image |-> Later(VideoT[s], ImageT), audio_ref |-> Later(AudioT[s], AudioRefT)]
           fields == MODE_FIELDS[mode]
           S == {value[f] : f \in fields}
<1>1. fields \subseteq {"video", "audio", "image", "audio_ref"} /\ "video" \in fields
  BY DEF Modes, MODE_FIELDS
<1>2. VideoT[s] \in Nat /\ AudioT[s] \in Nat /\ ImageT \in Nat /\ AudioRefT \in Nat
  BY H3ScheduleAssumption
<1>3. \A f \in {"video", "audio", "image", "audio_ref"} : value[f] \in Nat
  BY <1>2 DEF Later
<1>4. IsFiniteSet(fields)
  <2>1. IsFiniteSet({"video", "audio", "image", "audio_ref"})
    <3>1. IsFiniteSet({}) /\ \A T, x : IsFiniteSet(T) => IsFiniteSet(T \cup {x})
      BY FS_EmptySet, FS_AddElement, Zenon
    <3>2. IsFiniteSet({} \cup {"video"} \cup {"audio"} \cup {"image"} \cup {"audio_ref"})
      BY <3>1, Zenon
    <3>3. {} \cup {"video"} \cup {"audio"} \cup {"image"} \cup {"audio_ref"}
            = {"video", "audio", "image", "audio_ref"}
      OBVIOUS
    <3>4. QED
      BY <3>2, <3>3
  <2>2. QED
    BY <1>1, <2>1, FS_Subset
<1> HIDE DEF value, fields
<1>5. IsFiniteSet(S)
  <2> DEFINE g == [f \in fields |-> value[f]]
  <2>1. g \in Surjection(fields, S)
    BY DEF Surjection
  <2>2. QED
    BY <1>4, <2>1, FS_Surjection
<1>6. S \subseteq Nat /\ S # {}
  BY <1>1, <1>3
<1>7. Cardinality(S) \in Nat \ {0}
  BY <1>5, <1>6, FS_CardinalityType, FS_EmptySet
<1>8. QED
  BY <1>6, <1>7 DEF value, fields, Candidates

(* The plans, one evaluation after the other.                              *)
PlanSeqs == Seq(SUBSET Nat)

LEMMA AddPlanType ==
  ASSUME NEW plans \in PlanSeqs, NEW n \in 1..5 * Steps
  PROVE  AddPlan(plans, Evaluations[n]) \in PlanSeqs
<1>1. Candidates(Evaluations[n].mode, Evaluations[n].step) \in SUBSET Nat
  BY EvaluationIs, CandidatesNonempty
<1>2. QED
  BY <1>1 DEF AddPlan, PlanSeqs

LEMMA PlansAfterIs ==
  /\ PlansAfter = [n \in 0..5 * Steps |->
                     IF n = 0 THEN <<>> ELSE AddPlan(PlansAfter[n - 1], Evaluations[n])]
  /\ \A n \in 0..5 * Steps : PlansAfter[n] \in PlanSeqs
<1> DEFINE N == 5 * Steps
           step == [p \in (1..N) \X PlanSeqs |-> AddPlan(p[2], Evaluations[p[1]])]
<1>1. \A i \in 1..N, x \in PlanSeqs : step[<<i, x>>] = AddPlan(x, Evaluations[i])
  OBVIOUS
<1>2. step \in [(1..N) \X PlanSeqs -> PlanSeqs]
  BY AddPlanType
<1>3. N \in Nat /\ <<>> \in PlanSeqs /\ Len(Evaluations) = N
  BY EvaluationCount DEF PlanSeqs
<1> HIDE DEF step, N
<1>40. PICK g : Unrolls(g, PlanSeqs, <<>>, N, step)
  <2>1. Recursion(PlanSeqs, <<>>, N, step)
    BY <1>2, <1>3 DEF Recursion
  <2>2. QED
    BY <2>1, RecursionExists
<1>4. g \in [0..N -> PlanSeqs] /\ g[0] = <<>> /\ \A i \in 1..N : g[i] = step[<<i, g[i - 1]>>]
  BY <1>40 DEF Unrolls
<1>5. \A i \in 1..N : i - 1 \in 0..N /\ g[i - 1] \in PlanSeqs
  BY <1>3, <1>4
<1>6. \A i \in 0..N : g[i] = IF i = 0 THEN <<>> ELSE AddPlan(g[i - 1], Evaluations[i])
  <2> TAKE i \in 0..N
  <2>1. CASE i = 0
    BY <1>4, <2>1
  <2>2. CASE i # 0
    <3>1. i \in 1..N
      BY <1>3, <2>2
    <3>2. QED
      BY <1>1, <1>4, <1>5, <2>2, <3>1
  <2>3. QED
    BY <2>1, <2>2
<1> DEFINE h == [i \in 0..N |-> IF i = 0 THEN <<>> ELSE AddPlan(g[i - 1], Evaluations[i])]
<1>7. h = [i \in 0..N |-> h[i]] /\ \A i \in 0..N : g[i] = h[i]
  BY <1>6
<1>8. g = [i \in 0..N |-> g[i]]
  BY <1>4
<1>9. g = h
  <2> HIDE DEF h
  <2>1. QED
    BY <1>7, <1>8, SameFunction
<1>10. g = [n \in 0..Len(Evaluations) |-> IF n = 0 THEN <<>> ELSE AddPlan(g[n - 1], Evaluations[n])]
  BY <1>3, <1>9, Zenon
<1>11. PlansAfter = [n \in 0..Len(Evaluations) |->
                       IF n = 0 THEN <<>> ELSE AddPlan(PlansAfter[n - 1], Evaluations[n])]
  BY <1>10, Zenon DEF PlansAfter
<1>12. PlansAfter[0] = <<>> /\ \A i \in 1..N : PlansAfter[i] = AddPlan(PlansAfter[i - 1], Evaluations[i])
  <2>1. \A i \in 0..N : PlansAfter[i] = IF i = 0 THEN <<>> ELSE AddPlan(PlansAfter[i - 1], Evaluations[i])
    BY <1>3, <1>11, Zenon
  <2>2. 0 \in 0..N /\ \A i \in 1..N : i \in 0..N /\ i # 0
    BY <1>3
  <2>3. QED
    BY <2>1, <2>2, Zenon
<1> DEFINE T == {n \in Nat : n \in 0..N => PlansAfter[n] \in PlanSeqs}
<1>13. 0 \in T
  BY <1>3, <1>12
<1>14. ASSUME NEW n \in Nat, n \in T PROVE n + 1 \in T
  <2> SUFFICES ASSUME n + 1 \in 0..N PROVE PlansAfter[n + 1] \in PlanSeqs
    OBVIOUS
  <2>1. n \in 0..N /\ n + 1 \in 1..N /\ (n + 1) - 1 = n
    BY <1>3
  <2>2. PlansAfter[n + 1] = AddPlan(PlansAfter[n], Evaluations[n + 1])
    BY <1>12, <2>1
  <2>3. QED
    BY <1>14, <2>1, <2>2, AddPlanType DEF N
<1>15. Nat \subseteq T
  <2> HIDE DEF T
  <2>1. QED
    BY <1>13, <1>14, Induction
<1>16. \A n \in 0..N : PlansAfter[n] \in PlanSeqs
  BY <1>3, <1>15
<1>17. QED
  BY <1>3, <1>11, <1>16, Zenon DEF N

LEMMA PlansAfterAt ==
  /\ PlansAfter[0] = <<>>
  /\ \A n \in 1..5 * Steps : PlansAfter[n] = AddPlan(PlansAfter[n - 1], Evaluations[n])
<1>1. 0 \in 0..5 * Steps /\ \A i \in 1..5 * Steps : i \in 0..5 * Steps /\ i # 0
  BY EvaluationCount
<1>2. \A i \in 0..5 * Steps :
        PlansAfter[i] = IF i = 0 THEN <<>> ELSE AddPlan(PlansAfter[i - 1], Evaluations[i])
  BY PlansAfterIs, Zenon
<1>3. QED
  BY <1>1, <1>2, Zenon

TimesOf(n) == Candidates(Evaluations[n].mode, Evaluations[n].step)

(* Every evaluation so far has its plan, every plan an evaluation.        *)
PlanFor(plans, n) ==
  /\ \A e \in 1..n : \E i \in DOMAIN plans : plans[i] = TimesOf(e)
  /\ \A i \in DOMAIN plans : \E e \in 1..n : plans[i] = TimesOf(e)

LEMMA PlansCover == PlanFor(Plans, 5 * Steps) /\ Plans \in PlanSeqs
<1> DEFINE N == 5 * Steps
           T == {n \in Nat : n \in 0..N => PlanFor(PlansAfter[n], n)}
<1>1. 0 \in T
  BY PlansAfterAt DEF PlanFor
<1>2. ASSUME NEW n \in Nat, n \in T PROVE n + 1 \in T
  <2> SUFFICES ASSUME n + 1 \in 0..N PROVE PlanFor(PlansAfter[n + 1], n + 1)
    OBVIOUS
  <2> DEFINE old == PlansAfter[n]
             new == PlansAfter[n + 1]
             c == TimesOf(n + 1)
  <2>1. n \in 0..N /\ n + 1 \in 1..N /\ (n + 1) - 1 = n
    BY EvaluationCount
  <2>2. PlanFor(old, n) /\ old \in PlanSeqs
    BY <1>2, <2>1, PlansAfterIs, Zenon
  <2>3. new = AddPlan(old, Evaluations[n + 1])
    BY <2>1, PlansAfterAt
  <2>4. new = IF \E i \in DOMAIN old : old[i] = c THEN old ELSE Append(old, c)
    BY <2>3 DEF AddPlan, IsPlan, SamePlan, TimesOf
  <2> HIDE DEF old, new, c, N
  <2>5. CASE \E i \in DOMAIN old : old[i] = c
    <3>1. new = old
      BY <2>4, <2>5
    <3>2. \A e \in 1..n + 1 : e \in 1..n \/ e = n + 1
      OBVIOUS
    <3>3. QED
      BY <2>2, <2>5, <3>1, <3>2 DEF PlanFor, c, new
  <2>6. CASE ~\E i \in DOMAIN old : old[i] = c
    <3>1. new = Append(old, c) /\ DOMAIN old = 1..Len(old) /\ Len(old) \in Nat
      BY <2>2, <2>4, <2>6 DEF PlanSeqs
    <3>2. /\ DOMAIN new = 1..Len(old) + 1 /\ new[Len(old) + 1] = c
          /\ \A i \in 1..Len(old) : new[i] = old[i]
      BY <2>2, <3>1 DEF PlanSeqs
    <3>3. ASSUME NEW e \in 1..n + 1 PROVE \E i \in DOMAIN new : new[i] = TimesOf(e)
      <4>1. CASE e = n + 1
        BY <3>1, <3>2, <4>1 DEF c
      <4>2. CASE e # n + 1
        <5>1. PICK i \in DOMAIN old : old[i] = TimesOf(e)
          BY <2>2, <4>2 DEF PlanFor
        <5>2. QED
          BY <3>1, <3>2, <5>1
      <4>3. QED
        BY <4>1, <4>2
    <3>4. ASSUME NEW i \in DOMAIN new PROVE \E e \in 1..n + 1 : new[i] = TimesOf(e)
      <4>1. CASE i = Len(old) + 1
        BY <3>2, <4>1 DEF c
      <4>2. CASE i # Len(old) + 1
        <5>1. i \in DOMAIN old /\ new[i] = old[i]
          BY <3>1, <3>2, <4>2
        <5>2. QED
          BY <2>2, <5>1 DEF PlanFor
      <4>3. QED
        BY <4>1, <4>2
    <3>5. QED
      BY <3>3, <3>4 DEF PlanFor, new
  <2>7. QED
    BY <2>5, <2>6
<1>3. Nat \subseteq T
  <2> HIDE DEF T
  <2>1. QED
    BY <1>1, <1>2, Induction
<1>4. N \in 0..N
  BY EvaluationCount
<1>5. Plans = PlansAfter[N]
  BY EvaluationCount DEF Plans
<1>6. QED
  BY <1>3, <1>4, <1>5, PlansAfterIs, EvaluationCount

(* The rows of the plans lie one after the other, none of them empty.     *)
LEMMA WidthPositive ==
  /\ DOMAIN Plans = 1..Len(Plans) /\ Len(Plans) \in Nat
  /\ \A i \in 1..Len(Plans) : Width[i] \in Nat \ {0}
<1>1. DOMAIN Plans = 1..Len(Plans) /\ Len(Plans) \in Nat
  BY PlansCover DEF PlanSeqs
<1>2. ASSUME NEW i \in 1..Len(Plans) PROVE Width[i] \in Nat \ {0}
  <2>1. PICK e \in 1..5 * Steps : Plans[i] = TimesOf(e)
    BY <1>1, PlansCover DEF PlanFor
  <2>2. Cardinality(TimesOf(e)) \in Nat \ {0}
    BY EvaluationIs, CandidatesNonempty DEF TimesOf
  <2>3. QED
    BY <1>1, <2>1, <2>2 DEF Width
<1>3. QED
  BY <1>1, <1>2

LEMMA OffsetIs ==
  \A i \in 1..Len(Plans) : /\ Offset[i] = IF i = 1 THEN 0 ELSE Offset[i - 1] + Width[i - 1]
                           /\ Offset[i] \in Nat
<1> DEFINE N == Len(Plans)
           step == [p \in (1..N) \X Nat |-> p[2] + Width[p[1]]]
<1>1. \A i \in 1..N, x \in Nat : step[<<i, x>>] = x + Width[i]
  OBVIOUS
<1>2. step \in [(1..N) \X Nat -> Nat]
  BY WidthPositive
<1>3. N \in Nat /\ DOMAIN Plans = 1..N
  BY WidthPositive
<1> HIDE DEF step, N
<1>40. PICK g : Unrolls(g, Nat, 0, N, step)
  <2>1. Recursion(Nat, 0, N, step)
    BY <1>2, <1>3 DEF Recursion
  <2>2. QED
    BY <2>1, RecursionExists
<1>4. g \in [0..N -> Nat] /\ g[0] = 0 /\ \A i \in 1..N : g[i] = step[<<i, g[i - 1]>>]
  BY <1>40 DEF Unrolls
<1>5. \A i \in 1..N : i - 1 \in 0..N /\ g[i - 1] \in Nat /\ g[i] = g[i - 1] + Width[i]
  <2> TAKE i \in 1..N
  <2>1. i - 1 \in 0..N
    BY <1>3
  <2>2. g[i - 1] \in Nat
    BY <1>4, <2>1
  <2>3. QED
    BY <1>1, <1>4, <2>1, <2>2
<1> DEFINE f == [i \in 1..N |-> g[i - 1]]
           h == [i \in 1..N |-> IF i = 1 THEN 0 ELSE f[i - 1] + Width[i - 1]]
<1>6. \A i \in 1..N : f[i] = IF i = 1 THEN 0 ELSE f[i - 1] + Width[i - 1]
  <2> TAKE i \in 1..N
  <2>1. CASE i = 1
    BY <1>4, <2>1
  <2>2. CASE i # 1
    <3>1. i - 1 \in 1..N
      BY <1>3, <2>2
    <3>2. f[i - 1] = g[(i - 1) - 1] /\ f[i] = g[i - 1]
      BY <3>1
    <3>3. QED
      BY <1>5, <2>2, <3>1, <3>2
  <2>3. QED
    BY <2>1, <2>2
<1>7. f = [i \in 1..N |-> f[i]] /\ h = [i \in 1..N |-> h[i]] /\ \A i \in 1..N : f[i] \in Nat
  BY <1>5
<1> HIDE DEF f
<1>8. f = h
  <2>1. \A i \in 1..N : f[i] = h[i]
    BY <1>6
  <2> HIDE DEF h
  <2>2. QED
    BY <1>7, <2>1, SameFunction
<1>9. f = [i \in DOMAIN Plans |-> IF i = 1 THEN 0 ELSE f[i - 1] + Width[i - 1]]
  BY <1>3, <1>8, Zenon
<1>10. Offset = [i \in DOMAIN Plans |-> IF i = 1 THEN 0 ELSE Offset[i - 1] + Width[i - 1]]
  BY <1>9, Zenon DEF Offset
<1>11. \A i \in 1..N : Offset[i] = IF i = 1 THEN 0 ELSE Offset[i - 1] + Width[i - 1]
  BY <1>3, <1>10, Zenon
<1> DEFINE T == {n \in Nat : n \in 1..N => Offset[n] \in Nat}
<1>12. 0 \in T
  OBVIOUS
<1>13. ASSUME NEW n \in Nat, n \in T PROVE n + 1 \in T
  <2> SUFFICES ASSUME n + 1 \in 1..N PROVE Offset[n + 1] \in Nat
    OBVIOUS
  <2>1. n + 1 = 1 => Offset[n + 1] = 0
    BY <1>11
  <2>2. n + 1 # 1 => n \in 1..N /\ Offset[n + 1] = Offset[n] + Width[n]
    BY <1>3, <1>11
  <2>3. QED
    BY <1>13, <2>1, <2>2, WidthPositive DEF N
<1>14. Nat \subseteq T
  <2> HIDE DEF T
  <2>1. QED
    BY <1>12, <1>13, Induction
<1>15. QED
  BY <1>3, <1>11, <1>14 DEF N

LEMMA OffsetIncreases ==
  \A j \in 1..Len(Plans) : \A i \in 1..j - 1 : Offset[i] < Offset[j]
<1> DEFINE N == Len(Plans)
           T == {n \in Nat : n \in 1..N => \A i \in 1..n - 1 : Offset[i] < Offset[n]}
<1>0. N \in Nat
  BY WidthPositive
<1>1. 0 \in T
  OBVIOUS
<1>2. ASSUME NEW n \in Nat, n \in T PROVE n + 1 \in T
  <2> SUFFICES ASSUME n + 1 \in 1..N, NEW i \in 1..(n + 1) - 1 PROVE Offset[i] < Offset[n + 1]
    OBVIOUS
  <2>1. n \in 1..N /\ n + 1 # 1 /\ (n + 1) - 1 = n /\ i \in 1..N
    BY <1>0
  <2>2. Offset[n + 1] = Offset[n] + Width[n] /\ Offset[n] \in Nat /\ Offset[i] \in Nat
    BY <2>1, OffsetIs DEF N
  <2>3. Width[n] \in Nat \ {0}
    BY <2>1, WidthPositive DEF N
  <2>4. i # n => Offset[i] < Offset[n]
    BY <1>2, <2>1
  <2>5. QED
    BY <2>2, <2>3, <2>4
<1>3. Nat \subseteq T
  <2> HIDE DEF T
  <2>1. QED
    BY <1>1, <1>2, Induction
<1>4. QED
  BY <1>0, <1>3

(* A token names one plan: its span is found back without ambiguity.      *)
LEMMA SpanIsOne ==
  ASSUME NEW i \in DOMAIN Plans
  PROVE  SpanOf(Token(i)) = {i}
<1>1. i \in 1..Len(Plans) /\ Len(Plans) \in Nat
  BY WidthPositive
<1>2. ASSUME NEW j \in DOMAIN Plans, j # i PROVE Offset[j] # Offset[i]
  <2>1. j \in 1..Len(Plans)
    BY WidthPositive
  <2>2. Offset[i] \in Nat /\ Offset[j] \in Nat
    BY <1>1, <2>1, OffsetIs
  <2>3. (j \in 1..i - 1) \/ (i \in 1..j - 1)
    BY <1>1, <1>2, <2>1
  <2>4. QED
    BY <1>1, <2>1, <2>2, <2>3, OffsetIncreases
<1>3. QED
  BY <1>2 DEF SpanOf, Token

(* The index kept for a mode and a step is that of a plan of their times. *)
LEMMA SelectedPlan ==
  ASSUME NEW mode \in Modes, NEW s \in 1..Steps
  PROVE  /\ PlanIndex[mode][s] \in DOMAIN Plans
         /\ Plans[PlanIndex[mode][s]] = Candidates(mode, s)
<1>1. PICK n \in 1..5 * Steps : Evaluations[n] = [mode |-> mode, step |-> s]
  BY EvaluationOf
<1>2. TimesOf(n) = Candidates(mode, s)
  BY <1>1 DEF TimesOf
<1>3. \E i \in DOMAIN Plans : Plans[i] = Candidates(mode, s)
  BY <1>2, PlansCover DEF PlanFor
<1>4. PlanIndex[mode][s] = CHOOSE i \in DOMAIN Plans : Plans[i] = Candidates(mode, s)
  BY DEF PlanIndex, IsPlan, SamePlan
<1>5. QED
  BY <1>3, <1>4

(* A request under way denoises with its own mode active.                  *)
DenoiseOK ==
  \A r \in Reqs : request[r].pc = "denoise" =>
    active = request[r].mode /\ request[r].mode \in Modes /\ request[r].step \in Nat \ {0}

LEMMA DenoiseInit == WorkerInit => DenoiseOK
BY DEF WorkerInit, DenoiseOK

LEMMA DenoiseStep ==
  ASSUME RequestInv, DenoiseOK, NEW r \in Reqs,
         Forward(r) \/ Activate(r) \/ Denoise(r) \/ EndDiffuse(r)
  PROVE  DenoiseOK'
<1>0. /\ request \in [Reqs -> RequestRec]
      /\ \A u \in Reqs \ {r} : request[u].pc \in {"admitted", "denoise"} => request_lock # r
  BY DEF RequestInv, RequestType, RequestLockOK
<1>1. CASE Forward(r)
  <2>1. /\ active' = active
        /\ \A u \in Reqs \ {r} : request'[u] = request[u]
        /\ request'[r].pc # "denoise"
    <3>1. PICK q \in Requests :
            CASE Admission(q) = 200 -> /\ request_lock' = r
                                       /\ request' = [request EXCEPT ![r].pc = "admitted", ![r].asked = q]
              [] Admission(q) = 409 -> UNCHANGED request_lock /\ Answer(r, "uncompiled")
              [] Admission(q) = 400 -> UNCHANGED request_lock /\ Answer(r, "invalid")
      BY <1>1 DEF Forward
    <3>2. \/ request' = [request EXCEPT ![r].pc = "admitted", ![r].asked = q]
          \/ request' = [request EXCEPT ![r].pc = "uncompiled"]
          \/ request' = [request EXCEPT ![r].pc = "invalid"]
      <4>1. CASE Admission(q) = 200
        BY <3>1, <4>1
      <4>2. CASE Admission(q) = 409
        BY <3>1, <4>2 DEF Answer
      <4>3. CASE Admission(q) = 400
        BY <3>1, <4>3 DEF Answer
      <4>4. QED
        BY <4>1, <4>2, <4>3, AdmissionStatus
    <3>3. active' = active
      BY <1>1 DEF Forward
    <3>4. \A u \in Reqs : request[u] \in RequestRec
      BY <1>0
    <3>5. QED
      BY <1>0, <3>2, <3>3, <3>4 DEF RequestRec
  <2>2. \A u \in Reqs : request'[u].pc = "denoise" => request'[u] = request[u]
    BY <2>1
  <2>3. QED
    BY <2>1, <2>2 DEF DenoiseOK
<1>2. CASE Activate(r)
  <2>1. request[r].pc = "admitted" /\ request_lock = r
    BY <1>2 DEF Activate, RequestInv, RequestLockOK
  <2>2. \A u \in Reqs \ {r} : request'[u] = request[u] /\ request[u].pc # "denoise"
    BY <1>0, <1>2, <2>1 DEF Activate, Answer, RequestInv, RequestLockOK
  <2>3. request'[r].pc = "denoise" =>
          active' = request'[r].mode /\ request'[r].mode \in Modes /\ request'[r].step \in Nat \ {0}
    <3>1. CASE request' = [request EXCEPT ![r].pc = IF Resident THEN "overlap" ELSE "error"]
      BY <1>0, <3>1 DEF RequestRec
    <3>2. ASSUME NEW mode \in CacheModes, active' = mode,
                 request' = [request EXCEPT ![r] =
                               [pc |-> "denoise", asked |-> NoReq, mode |-> mode, step |-> 1]]
          PROVE  request'[r].mode = mode /\ request'[r].step = 1 /\ active' = request'[r].mode
      BY <1>0, <3>2
    <3>3. QED
      BY <1>2, <3>1, <3>2, CacheModesAreModes DEF Activate, Answer
  <2>4. QED
    BY <2>2, <2>3 DEF DenoiseOK
<1>3. CASE Denoise(r)
  <2>1. /\ active' = active
        /\ \A u \in Reqs \ {r} : request'[u] = request[u]
        /\ request'[r].mode = request[r].mode /\ request[r].pc = "denoise"
        /\ request'[r].step = request[r].step + 1
    BY <1>0, <1>3 DEF Denoise, RequestRec
  <2>2. request[r].step + 1 \in Nat \ {0}
    BY <2>1 DEF DenoiseOK
  <2>3. QED
    BY <2>1, <2>2 DEF DenoiseOK
<1>4. CASE EndDiffuse(r)
  <2>1. request[r].pc = "denoise" /\ request_lock = r
    BY <1>4 DEF EndDiffuse, RequestInv, RequestLockOK
  <2>2. \A u \in Reqs \ {r} : request'[u] = request[u] /\ request[u].pc # "denoise"
    BY <1>0, <1>4, <2>1 DEF EndDiffuse, Answer, RequestInv, RequestLockOK
  <2>3. request'[r].pc # "denoise"
    BY <1>0, <1>4 DEF EndDiffuse, Answer
  <2>4. QED
    BY <2>2, <2>3 DEF DenoiseOK
<1>5. QED
  BY <1>1, <1>2, <1>3, <1>4

LEMMA RequestOrNot ==
  ASSUME [WorkerNext]_workerVars
  PROVE  \/ UNCHANGED requestVars
         \/ \E r \in Reqs : Forward(r) \/ Activate(r) \/ Denoise(r) \/ EndDiffuse(r)
<1>2. ASSUME NEW t \in Threads,
             \/ \E ok \in BOOLEAN : Enter(t, ok) \/ HostBuilt(t, ok)
             \/ Verify(t) \/ Resolved(t) \/ \E k \in Packages : ResolvePackage(t, k)
             \/ HostFails(t) \/ BuildOfficial(t) \/ BuildAdapted(t) \/ PartsBuilt(t) \/ PartsFail(t)
             \/ BeginLoad(t) \/ EndLoad(t) \/ Eval(t) \/ \E s \in Slots : ReadSlot(t, s)
      PROVE  UNCHANGED requestVars
  BY <1>2 DEF Enter, HostBuilt, Verify, Resolved, ResolvePackage, HostFails, BuildOfficial, BuildAdapted,
              PartsBuilt, PartsFail, FinishParts, BeginLoad, EndLoad, Eval, ReadSlot
<1>3. ASSUME NEW k \in Packages, EditPackage(k)
      PROVE  UNCHANGED requestVars
  BY <1>3 DEF EditPackage
<1>4. CASE UNCHANGED workerVars
  BY <1>4 DEF workerVars
<1>5. QED
  BY <1>2, <1>3, <1>4 DEF WorkerNext, WorkerStep

LEMMA DenoiseNext ==
  ASSUME RequestInv, DenoiseOK, [WorkerNext]_workerVars
  PROVE  DenoiseOK'
<1>1. ASSUME NEW r \in Reqs, Forward(r) \/ Activate(r) \/ Denoise(r) \/ EndDiffuse(r)
      PROVE  DenoiseOK'
  BY <1>1, DenoiseStep
<1>2. UNCHANGED requestVars => DenoiseOK'
  BY DEF requestVars, DenoiseOK
<1>3. QED
  BY <1>1, <1>2, RequestOrNot

(* The cached rows that an evaluation uses are those compiled for the      *)
(* timesteps of this request's mode and step, and their token finds no     *)
(* other span (CurveCachePipeline.selection, token_span), for every number *)
(* of steps and every pair of shifted schedules.                           *)
THEOREM SelectsWhatWasComputed == WorkerSpec => []SelectsComputed
<1>1. WorkerSpec => []DenoiseOK
  BY RequestsSafe, DenoiseInit, DenoiseNext, PTL DEF WorkerSpec
<1>2. DenoiseOK => SelectsComputed
  <2> SUFFICES ASSUME DenoiseOK, NEW r \in Reqs, request[r].pc = "denoise", request[r].step <= Steps
               PROVE  SpanFound(r) /\ Plans[Selected(r)] = Candidates(request[r].mode, request[r].step)
    BY DEF SelectsComputed
  <2>1. active = request[r].mode /\ active \in Modes /\ request[r].step \in 1..Steps
    BY EvaluationCount DEF DenoiseOK
  <2>2. Selected(r) \in DOMAIN Plans /\ Plans[Selected(r)] = Candidates(request[r].mode, request[r].step)
    BY <2>1, SelectedPlan DEF Selected
  <2>3. QED
    BY <2>2, SpanIsOne DEF SpanFound
<1>3. QED
  BY <1>1, <1>2, PTL
=============================================================================
