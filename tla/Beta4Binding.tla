---------------------------- MODULE Beta4Binding ----------------------------
(***************************************************************************)
(* The binding of a beta4 export before it is served (runtime/h3/          *)
(* beta4_binding.py, after the file hashes of integrations/vllm_omni/      *)
(* package_contract.py), by threads, while other processes change the      *)
(* export.  A file's data names the export that wrote it, so a document    *)
(* and a shard agree, digest by digest, iff their data are equal.          *)
(***************************************************************************)
EXTENDS HeldFiles, Sequences

CONSTANTS
  Threads,      \* who verifies
  Packages,
  Documents,    \* _JSON_NAMES, in the order they are read
  Declaring,    \* those that can declare the beta4 profile
  Shards,       \* the weight shards, in order
  Exports,      \* committed beta4 exports: the contents that declare it
  Torn,         \* beta4 content that does not parse
  Recorded      \* [Packages -> content]: what the package's manifest lists

ASSUME Beta4BindingAssumption ==
  LET files == Documents \o Shards
  IN  /\ Packages # {}
      /\ Documents \in Seq(STRING) /\ Shards \in Seq(STRING)
      /\ Documents # <<>> /\ Shards # <<>>
      /\ \A i, j \in 1..Len(files) : files[i] = files[j] => i = j
      /\ Declaring \subseteq {Documents[i] : i \in 1..Len(Documents)} /\ Declaring # {}
      /\ Paths = Packages \X {files[i] : i \in 1..Len(files)}
      /\ Torn \notin Exports /\ NoData \notin Exports \cup {Torn}

VARIABLE check    \* [Threads -> the progress of one validation]

Files == Documents \o Shards
FileNames == {Files[i] : i \in 1..Len(Files)}
Path(t, name) == <<check[t].pkg, name>>
Unbound == [name \in FileNames |-> Absent]

NoCheck(k) == [phase |-> "none", pkg |-> k, at |-> 1, attempted |-> FALSE,
               bound |-> Unbound, held |-> <<>>]

Phase(t, phase) == check' = [check EXCEPT ![t].phase = phase, ![t].at = 1]
Refuses(t) == Phase(t, "refused")

(* One more of a list done: the next, or the next phase. *)
Advance(t, last, phase, new) ==
  check' = [check EXCEPT ![t] =
              [new EXCEPT !.phase = IF new.at = last THEN phase ELSE @,
                          !.at = IF new.at = last THEN 1 ELSE @ + 1]]

Tree(k) == {name \in FileNames : Exists(<<k, name>>)}

BindingStart(t, k) == check' = [check EXCEPT ![t] = [NoCheck(k) EXCEPT !.phase = "census"]]

-----------------------------------------------------------------------------
(* validate_runtime_package: the tree is the one the manifest lists. *)
ListPackage(t) ==
  /\ check[t].phase = "census"
  /\ Phase(t, IF Tree(check[t].pkg) = FileNames THEN "hashing" ELSE "refused")
  /\ UNCHANGED <<file, clock>>

(* validate_runtime_package hashes every file against the package manifest. *)
HashFile(t) ==
  /\ check[t].phase = "hashing"
  /\ IF file[Path(t, Files[check[t].at])].data = Recorded[check[t].pkg]
     THEN Advance(t, Len(Files), "detecting", check[t])
     ELSE Refuses(t)
  /\ UNCHANGED <<file, clock>>

(* optional_beta4_binding: one document that declares beta4 is enough, and  *)
(* one that is torn refuses.                                               *)
Detect(t) ==
  LET name == Documents[check[t].at]
      data == file[Path(t, name)].data
  IN /\ check[t].phase = "detecting"
     /\ IF name \in Declaring /\ data = Torn THEN Refuses(t)
        ELSE Advance(t, Len(Documents), "detected",
                     [check[t] EXCEPT !.attempted = @ \/ (name \in Declaring /\ data \in Exports)])
     /\ UNCHANGED <<file, clock>>

(* Another route where nothing was declared; else the tree is listed. *)
ListTree(t) ==
  /\ check[t].phase = "detected"
  /\ Phase(t, CASE ~check[t].attempted -> "undeclared"
                [] check[t].attempted /\ Tree(check[t].pkg) = FileNames -> "documents"
                [] OTHER -> "refused")
  /\ UNCHANGED <<file, clock>>

(* _check_documents: manifest, plan and patch of one committed export. *)
Agreed(bound) == \E x \in Exports : \A name \in Declaring : bound[name].data = x

(* _document, a pinned read with its identity. *)
ReadDocument(t) ==
  LET name == Documents[check[t].at]
      read == [check[t] EXCEPT !.bound[name] = file[Path(t, name)]]
  IN /\ check[t].phase = "documents"
     /\ IF Exists(Path(t, name)) /\ (check[t].at = Len(Documents) => Agreed(read.bound))
        THEN Advance(t, Len(Documents), "opening", read)
        ELSE Refuses(t)
     /\ UNCHANGED <<file, clock>>

(* SafeTensorSources: every shard opened and hashed. *)
OpenShard(t) ==
  LET f == file[Path(t, Shards[check[t].at])]
  IN /\ check[t].phase = "opening"
     /\ IF f # Absent
        THEN Advance(t, Len(Shards), "binding", [check[t] EXCEPT !.held = Append(@, f)])
        ELSE Refuses(t)
     /\ UNCHANGED <<file, clock>>

(* Index and files are as the manifest lists them. *)
Listed(bound) == \A name \in FileNames : bound[name].data = bound[Documents[1]].data

(* The digest taken when the shard was opened, the identity its path has   *)
(* now.                                                                    *)
BindShard(t) ==
  LET i == check[t].at
      now == file[Path(t, Shards[i])]
      new == [check[t] EXCEPT !.bound[Shards[i]] = [now EXCEPT !.data = check[t].held[i].data]]
  IN /\ check[t].phase = "binding"
     /\ IF now # Absent /\ (i = Len(Shards) => Listed(new.bound))
        THEN Advance(t, Len(Shards), "sources", new)
        ELSE Refuses(t)
     /\ UNCHANGED <<file, clock>>

(* verify_unchanged, through the held descriptor and by path. *)
VerifyShard(t) ==
  LET p == Path(t, Shards[check[t].at])
      h == check[t].held[check[t].at]
  IN /\ check[t].phase = "sources"
     /\ IF HeldStamp(p, h) = h.stamp /\ HeldData(p, h) = h.data /\ file[p].inode = h.inode
        THEN Advance(t, Len(Shards), "files",
                     [check[t] EXCEPT !.held = IF check[t].at = Len(Shards) THEN <<>> ELSE @])
        ELSE Refuses(t)
     /\ UNCHANGED <<file, clock>>

SameIdentity(t, name) ==
  LET now == file[Path(t, name)]
      then == check[t].bound[name]
  IN now.inode = then.inode /\ now.stamp = then.stamp

(* verify_beta4_binding_unchanged and the tree once more. *)
VerifyFile(t) ==
  /\ check[t].phase = "files"
  /\ IF SameIdentity(t, Files[check[t].at]) /\ Tree(check[t].pkg) = FileNames
     THEN Advance(t, Len(Files), "bound", check[t])
     ELSE Refuses(t)
  /\ UNCHANGED <<file, clock>>

(* The same comparison later, as one step. *)
BindingUnchanged(t) == \A name \in FileNames : SameIdentity(t, name)

BindingStep(t) ==
  \/ ListPackage(t) \/ HashFile(t) \/ Detect(t) \/ ListTree(t) \/ ReadDocument(t)
  \/ OpenShard(t) \/ BindShard(t) \/ VerifyShard(t) \/ VerifyFile(t)

BindingInit ==
  /\ clock = 1
  /\ file = [p \in Paths |-> [inode |-> 1, stamp |-> 1, data |-> Recorded[p[1]]]]
  /\ check = [t \in Threads |-> NoCheck(CHOOSE k \in Packages : TRUE)]
-----------------------------------------------------------------------------
(* Another process rewrites a file in place, replaces or removes it. *)
RewriteFile(p, data) ==
  /\ Exists(p) /\ file[p].data # data
  /\ file' = [file EXCEPT ![p].stamp = clock + 1, ![p].data = data]

ReplaceFile(p, data) ==
  file' = [file EXCEPT ![p] =
             IF data = NoData THEN Absent ELSE [inode |-> clock + 1, stamp |-> clock + 1, data |-> data]]

(* Another export in the place of this one, at once. *)
ExchangeExport(k, data) ==
  file' = [p \in Paths |-> IF p[1] = k THEN [inode |-> clock + 1, stamp |-> clock + 1, data |-> data]
                           ELSE file[p]]
=============================================================================
