-------------------------- MODULE ContractStore --------------------------
(* The contract workflow over files that change: a draft of a checkpoint,  *)
(* pins of that draft into a content-addressed snapshot store, and an      *)
(* export that loads the store and converts a checkpoint under one of its  *)
(* contracts (comfy_omni.conversion.contract_workflows, artifacts.         *)
(* snapshot_store, application.contracts and application.conversion).      *)
(* A checkpoint may be the artifact a normalization publishes meanwhile.   *)
(* What a command concludes from the bytes it read is in CheckpointCensus  *)
(* and ExportPlan; here is when it reads them and what it checks again.    *)
EXTENDS ExportPlan, ArtifactNormalization

CONSTANTS
  Content,       \* [tensors, marks] of every checkpoint content
  ScanInputs,    \* [paths, dir, index]: a shard list, or a directory with its index
  Starts,        \* contents of the paths at first
  EditData,      \* contents another process may give a source; other paths are ours
  MaxEdits,      \* how many times it does so
  Pinners, Names,
  Exporters,
  Casts          \* the commands, and the sources others write, that run together

(* Others write sources, never the artifact or its receipt; the receipt is *)
(* written by the normalizations that run here.                            *)
ASSUME StoreAssumption ==
  /\ \A input \in ScanInputs : input.paths \in Seq(Paths)
  /\ DOMAIN EditData \subseteq Paths \ {Destination, Receipt}
  /\ \A start \in Starts : start[Receipt] = NoData
  /\ \A x \in DOMAIN Content : \A n \in DOMAIN Content[x].tensors :
       n \in Range(TensorOrder) /\ Content[x].tensors[n].shape \in Seq(Nat)

VARIABLES edits, cast, draft, doc, pin, store, export

storeVars == <<file, clock, faults, norm, edits, cast, draft, doc, pin, store, export>>

NoDoc == [state |-> "none"]
Garbled == [readable |-> FALSE, exact |-> FALSE, format |-> "", convrot |-> FALSE, size |-> 0]
-----------------------------------------------------------------------------
(* Scanning: SafeTensorSources and CensusEngine *)

Idle == [phase |-> "idle", input |-> <<>>, head |-> <<>>, ids |-> <<>>]

(* The checkpoint whose descriptors are those of heads and whose marker    *)
(* payloads are those of marks; equal unless a shard changed between.      *)
Checkpoint(heads, marks) ==
  LET holder(n) == CHOOSE k \in 1..Len(heads) : n \in DOMAIN Content[heads[k]].tensors
      names == UNION {DOMAIN Content[heads[k]].tensors : k \in 1..Len(heads)}
      marked == {n[1] : n \in {m \in names : m[2] = "comfy_quant"}}
      payload(p) == LET data == marks[holder(<<p, "comfy_quant">>)]
                    IN IF data \in DOMAIN Content THEN Content[data].marks ELSE <<>>
  IN [tensors |-> [n \in names |-> Content[heads[holder(n)]].tensors[n]],
      marks |-> [p \in marked |-> IF p \in DOMAIN payload(p) THEN payload(p)[p] ELSE Garbled]]

Whole(ids) == Checkpoint(ids, ids)

Disjoint(heads) ==
  \A j, k \in 1..Len(heads) :
    j # k => DOMAIN Content[heads[j]].tensors \cap DOMAIN Content[heads[k]].tensors = {}

(* Every tensor is in the shard the index names, and in the index. *)
IndexCovers(input, heads) ==
  LET names(k) == DOMAIN Content[heads[k]].tensors
  IN input.index # <<>> =>
       /\ DOMAIN input.index = UNION {names(k) : k \in 1..Len(heads)}
       /\ \A k \in 1..Len(heads) : \A n \in names(k) : input.index[n] = input.paths[k]

(* The boundary of a directory: its index declares every shard in it. *)
Resolvable(input) ==
  /\ \A k \in 1..Len(input.paths) : Exists(input.paths[k])
  /\ \A p \in input.dir : Exists(p) => \E k \in 1..Len(input.paths) : input.paths[k] = p

(* One shard: open, header, hash; the same bytes or the scan is refused. *)
OpenNext(scan) ==
  [scan EXCEPT !.head = Append(@, file[scan.input.paths[Len(@) + 1]])]

Opened(scan) == Len(scan.head) = Len(scan.input.paths)

(* It is there, and has the header of a checkpoint. *)
CanOpen(scan) ==
  LET path == scan.input.paths[Len(scan.head) + 1]
  IN Exists(path) /\ file[path].data \in DOMAIN Content

Heads(scan) == [k \in 1..Len(scan.head) |-> scan.head[k].data]
HeldNow(scan) ==
  [k \in 1..Len(scan.head) |-> HeldData(scan.input.paths[k], scan.head[k])]

(* verify_unchanged: descriptor identity, content and path once more. *)
Unchanged(scan) ==
  \A k \in 1..Len(scan.head) : file[scan.input.paths[k]] = scan.head[k]

-----------------------------------------------------------------------------
(* Drafting *)

DraftStart ==
  /\ draft.phase = "idle"
  /\ \E input \in ScanInputs :
       draft' = [draft EXCEPT !.phase = IF Resolvable(input) THEN "opening" ELSE "refused",
                              !.input = input]
  /\ UNCHANGED <<file, clock, faults, norm, edits, cast, doc, pin, store, export>>

DraftOpen ==
  /\ draft.phase = "opening"
  /\ draft' = IF ~Opened(draft) /\ CanOpen(draft) THEN OpenNext(draft)
              ELSE [draft EXCEPT !.phase =
                      IF /\ Opened(draft) /\ Disjoint(Heads(draft))
                         /\ IndexCovers(draft.input, Heads(draft))
                      THEN "opened" ELSE "refused"]
  /\ UNCHANGED <<file, clock, faults, norm, edits, cast, doc, pin, store, export>>

(* The marker payloads, through the held descriptors. *)
DraftRead ==
  /\ draft.phase = "opened"
  /\ draft' = [draft EXCEPT !.phase = "read", !.ids = HeldNow(draft)]
  /\ UNCHANGED <<file, clock, faults, norm, edits, cast, doc, pin, store, export>>

(* The census, verify_unchanged, the match and the draft built from it. *)
DraftBuild ==
  /\ draft.phase = "read"
  /\ draft' = [draft EXCEPT !.phase =
                 IF Draftable(Checkpoint(Heads(draft), draft.ids)) /\ Unchanged(draft)
                 THEN "built" ELSE "refused"]
  /\ UNCHANGED <<file, clock, faults, norm, edits, cast, doc, pin, store, export>>

(* The draft of the checkpoint c that was read from input. *)
Document(input, ids, c) ==
  LET t == CHOOSE t \in Matching(c) : TRUE
  IN [state |-> "whole", input |-> input, ids |-> ids,
      candidate |-> Candidate(c, t), nearest |-> Nearest(t)]

(* write_exclusive: created, then written once; nothing reads it back, so  *)
(* a write that stops short is reported as success.                        *)
DraftCreate ==
  /\ draft.phase = "built"
  /\ doc.state = "none"
  /\ doc' = [state |-> "partial"]
  /\ draft' = [draft EXCEPT !.phase = "writing"]
  /\ UNCHANGED <<file, clock, faults, norm, edits, cast, pin, store, export>>

DraftWrite ==
  /\ draft.phase = "writing"
  /\ \/ /\ doc' = Document(draft.input, Heads(draft), Checkpoint(Heads(draft), draft.ids))
        /\ UNCHANGED faults
     \/ Fault /\ UNCHANGED doc
  /\ draft' = Idle
  /\ UNCHANGED <<file, clock, norm, edits, cast, pin, store, export>>
-----------------------------------------------------------------------------
(* Pinning *)

Addresses == Names \X {"inherited-enforced-pin", "observed-frozen", "census-only"}
Block(a) == ContractBlock(doc.candidate, a[2])

PinMoves(k, phase) == pin' = [pin EXCEPT ![k].phase = phase]

(* load_draft_document and _validate_candidate. *)
PinLoad(k) ==
  /\ pin[k].phase = "idle"
  /\ doc.state # "none"
  /\ \E name \in Names, enforce \in BOOLEAN :
       pin' = [pin EXCEPT ![k] =
                 [phase |-> IF doc.state = "whole" /\ Pinnable(doc.candidate) THEN "hashing" ELSE "refused",
                  name |-> name, enforce |-> enforce, hashed |-> 0, address |-> <<>>]]
  /\ UNCHANGED <<file, clock, faults, norm, edits, cast, draft, doc, store, export>>

(* _verify_source_digests: every recorded source again, one at a time. *)
PinHash(k) ==
  LET next == pin[k].hashed + 1
  IN /\ pin[k].phase = "hashing"
     /\ next <= Len(doc.ids)
     /\ IF file[doc.input.paths[next]].data = doc.ids[next]
        THEN pin' = [pin EXCEPT ![k].hashed = next]
        ELSE PinMoves(k, "refused")
     /\ UNCHANGED <<file, clock, faults, norm, edits, cast, draft, doc, store, export>>

(* The promotion decision, the name, and O_EXCL at the content address. *)
PinCreate(k) ==
  LET decisions == Decisions(doc.candidate, doc.nearest, pin[k].enforce)
  IN /\ pin[k].phase = "hashing" /\ pin[k].hashed = Len(doc.ids)
     /\ \/ /\ decisions = {} \/ pin[k].name \in DOMAIN Known
           /\ PinMoves(k, "refused") /\ UNCHANGED store
        \/ /\ pin[k].name \notin DOMAIN Known
           /\ \E d \in decisions :
                LET address == <<pin[k].name, d>>
                IN IF store[address] = "absent"
                   THEN /\ store' = [store EXCEPT ![address] = "partial"]
                        /\ pin' = [pin EXCEPT ![k].phase = "created", ![k].address = address]
                   ELSE PinMoves(k, "refused") /\ UNCHANGED store
     /\ UNCHANGED <<file, clock, faults, norm, edits, cast, draft, doc, export>>

(* One unbuffered write: whole, short, or an error that leaves the file. *)
PinWrite(k) ==
  /\ pin[k].phase = "created"
  /\ \/ /\ store' = [store EXCEPT ![pin[k].address] = "whole"]
        /\ PinMoves(k, "written") /\ UNCHANGED faults
     \/ Fault /\ PinMoves(k, "written") /\ UNCHANGED store
     \/ Fault /\ PinMoves(k, "failed") /\ UNCHANGED store
  /\ UNCHANGED <<file, clock, norm, edits, cast, draft, doc, export>>

(* The mutant of PinVerify: success is what write_exclusive returned. *)
PinReturns(k) ==
  /\ pin[k].phase = "written"
  /\ PinMoves(k, "returned")
  /\ UNCHANGED <<file, clock, faults, norm, edits, cast, draft, doc, store, export>>

(* _verify_publish, and _discard_owned where it refuses. *)
PinVerify(k) ==
  /\ pin[k].phase = "written"
  /\ IF store[pin[k].address] = "whole"
     THEN PinMoves(k, "returned") /\ UNCHANGED store
     ELSE /\ PinMoves(k, "failed")
          /\ store' = [store EXCEPT ![pin[k].address] = "absent"]
  /\ UNCHANGED <<file, clock, faults, norm, edits, cast, draft, doc, export>>

CrashPinner(k) ==
  /\ pin[k].phase \in {"hashing", "created", "written"} /\ Fault
  /\ PinMoves(k, "crashed")
  /\ UNCHANGED <<file, clock, norm, edits, cast, draft, doc, store, export>>
-----------------------------------------------------------------------------
(* Exporting: load_contract_catalog, plan_native_export, execute *)

ExportMoves(e, phase) == export' = [export EXCEPT ![e].phase = phase]

(* load_store lists the directory once. *)
ExportList(e) ==
  /\ export[e].phase = "idle"
  /\ export' = [export EXCEPT ![e].phase = "loading",
                              ![e].listed = {a \in Addresses : store[a] # "absent"}]
  /\ UNCHANGED <<file, clock, faults, norm, edits, cast, draft, doc, pin, store>>

(* One listed snapshot: load_snapshot, then no name twice. *)
ExportLoad(e) ==
  /\ export[e].phase = "loading"
  /\ \E a \in export[e].listed \ export[e].loaded :
       IF /\ store[a] = "whole" /\ Loads(Block(a), a[2])
          /\ \A b \in export[e].loaded : b[1] # a[1]
       THEN export' = [export EXCEPT ![e].loaded = @ \cup {a}]
       ELSE ExportMoves(e, "refused")
  /\ UNCHANGED <<file, clock, faults, norm, edits, cast, draft, doc, pin, store>>

RecordOf(e) ==
  IF export[e].contract \in DOMAIN Known THEN Known[export[e].contract]
  ELSE Block(CHOOSE a \in export[e].loaded : a[1] = export[e].contract)

(* The catalog is complete: pick a contract and the sources. *)
ExportResolve(e) ==
  /\ export[e].phase = "loading" /\ export[e].loaded = export[e].listed
  /\ \E name \in DOMAIN Known \cup {a[1] : a \in export[e].loaded}, input \in ScanInputs :
       export' = [export EXCEPT ![e].phase = IF Resolvable(input) THEN "planning" ELSE "refused",
                                ![e].contract = name, ![e].scan.input = input]
  /\ UNCHANGED <<file, clock, faults, norm, edits, cast, draft, doc, pin, store>>

(* Opens every shard for the plan's scan, later for the execution. *)
ExportOpen(e) ==
  /\ export[e].phase \in {"planning", "executing"}
  /\ ~Opened(export[e].scan)
  /\ IF CanOpen(export[e].scan)
     THEN export' = [export EXCEPT ![e].scan = OpenNext(@)]
     ELSE ExportMoves(e, "refused")
  /\ UNCHANGED <<file, clock, faults, norm, edits, cast, draft, doc, pin, store>>

ExportRead(e) ==
  /\ export[e].phase \in {"planning", "executing"}
  /\ Opened(export[e].scan)
  /\ export' = [export EXCEPT ![e].phase = IF @ = "planning" THEN "scanned" ELSE "validating",
                              ![e].scan.ids = HeldNow(export[e].scan)]
  /\ UNCHANGED <<file, clock, faults, norm, edits, cast, draft, doc, pin, store>>

PlanOf(e) ==
  LET scan == export[e].scan
      c == Checkpoint(Heads(scan), scan.ids)
      actions == Actions(c)
  IN [files |-> Heads(scan), record |-> RecordOf(e), actions |-> actions,
      shards |-> AssignShards(actions)]

(* build_native_export_plan, once the scan ended unchanged. *)
ExportPlanned(e) ==
  LET scan == export[e].scan
      c == Checkpoint(Heads(scan), scan.ids)
  IN /\ export[e].phase = "scanned"
     /\ IF /\ Disjoint(Heads(scan)) /\ IndexCovers(scan.input, Heads(scan)) /\ Unchanged(scan)
           /\ Observable(c) /\ Authorizes(RecordOf(e), c) /\ Plannable(c)
        THEN export' = [export EXCEPT ![e].phase = "executing", ![e].plan = PlanOf(e),
                                      ![e].scan.head = <<>>, ![e].scan.ids = <<>>]
        ELSE ExportMoves(e, "refused")
     /\ UNCHANGED <<file, clock, faults, norm, edits, cast, draft, doc, pin, store>>

(* _bind_snapshot before the sources are opened; a whole snapshot never    *)
(* changes, so its digests are the plan's. _bind_sources and _validate_plan *)
(* on the reopened sources; then nothing is written yet.                   *)
ExportValidate(e) ==
  LET scan == export[e].scan
      plan == export[e].plan
  IN /\ export[e].phase = "validating"
     /\ IF Heads(scan) = plan.files /\ PlanFits(plan, Checkpoint(Heads(scan), scan.ids))
        THEN export' = [export EXCEPT ![e].phase = "writing",
                                      ![e].scan.ids = [k \in 1..Len(scan.head) |-> NoData]]
        ELSE ExportMoves(e, "refused")
     /\ UNCHANGED <<file, clock, faults, norm, edits, cast, draft, doc, pin, store>>

(* The payload of the targets from one source, through its descriptor.     *)
ExportWrite(e) ==
  LET scan == export[e].scan
  IN /\ export[e].phase = "writing"
     /\ \E k \in 1..Len(scan.head) :
          /\ scan.ids[k] = NoData
          /\ export' = [export EXCEPT ![e].scan.ids[k] =
                          HeldData(scan.input.paths[k], scan.head[k])]
     /\ UNCHANGED <<file, clock, faults, norm, edits, cast, draft, doc, pin, store>>

Written(scan) == \A k \in 1..Len(scan.head) : scan.ids[k] # NoData

(* The mutant of ExportCommit: the sources are not verified again.         *)
ExportPublishes(e) ==
  /\ export[e].phase = "writing" /\ Written(export[e].scan)
  /\ ExportMoves(e, "committed")
  /\ UNCHANGED <<file, clock, faults, norm, edits, cast, draft, doc, pin, store>>

(* verify_unchanged before the manifest commits the shards.                *)
ExportCommit(e) ==
  /\ export[e].phase = "writing" /\ Written(export[e].scan)
  /\ ExportMoves(e, IF Unchanged(export[e].scan) THEN "committed" ELSE "refused")
  /\ UNCHANGED <<file, clock, faults, norm, edits, cast, draft, doc, pin, store>>
-----------------------------------------------------------------------------
(* Another process rewrites a source in place, or replaces or removes it. *)
Edit(p) ==
  /\ edits < MaxEdits /\ edits' = edits + 1
  /\ \E data \in EditData[p] \ {file[p].data} :
       file' = [file EXCEPT ![p] =
                  IF data = NoData THEN Absent
                  ELSE [inode |-> clock + 1, stamp |-> clock + 1, data |-> data]]
  /\ clock' = clock + 1
  /\ UNCHANGED <<faults, norm, cast, draft, doc, pin, store, export>>

Rewrite(p) ==
  /\ Exists(p)
  /\ edits < MaxEdits /\ edits' = edits + 1
  /\ \E data \in EditData[p] \ {file[p].data, NoData} :
       file' = [file EXCEPT ![p].stamp = clock + 1, ![p].data = data]
  /\ clock' = clock + 1
  /\ UNCHANGED <<faults, norm, cast, draft, doc, pin, store, export>>

(* What a draft command that ran before has written. *)
EarlierDrafts ==
  LET now(input) == [k \in 1..Len(input.paths) |-> file[input.paths[k]].data]
  IN {Document(i, now(i), Whole(now(i))) :
        i \in {j \in ScanInputs : Resolvable(j) /\ Draftable(Whole(now(j)))}}

StoreInit ==
  /\ clock = 1 /\ faults = 0 /\ edits = 0
  /\ cast \in Casts
  /\ \E start \in Starts :
       file = [p \in Paths |-> IF start[p] = NoData THEN Absent
                               ELSE [inode |-> 1, stamp |-> 1, data |-> start[p]]]
  /\ NormInit
  /\ draft = Idle
  /\ doc \in {NoDoc} \cup IF "draft" \in cast THEN {} ELSE EarlierDrafts
  /\ pin = [k \in Pinners |-> [phase |-> "idle", name |-> "", enforce |-> FALSE,
                               hashed |-> 0, address |-> <<>>]]
  /\ store = [a \in Addresses |-> "absent"]
  /\ export = [e \in Exporters |-> [phase |-> "idle", listed |-> {}, loaded |-> {},
                                    contract |-> "", scan |-> Idle, plan |-> <<>>]]

NormalizerNext(n) == NormStep(n) /\ UNCHANGED <<edits, cast, draft, doc, pin, store, export>>

DraftNext == DraftStart \/ DraftOpen \/ DraftRead \/ DraftBuild \/ DraftCreate \/ DraftWrite

PinNext(k) == PinLoad(k) \/ PinHash(k) \/ PinCreate(k) \/ PinWrite(k) \/ PinVerify(k) \/ CrashPinner(k)

ExportNext(e) ==
  \/ ExportList(e) \/ ExportLoad(e) \/ ExportResolve(e) \/ ExportOpen(e) \/ ExportRead(e)
  \/ ExportPlanned(e) \/ ExportValidate(e) \/ ExportWrite(e) \/ ExportCommit(e)

StoreNext ==
  \/ \E n \in Normalizers \cap cast : NormalizerNext(n)
  \/ "draft" \in cast /\ DraftNext
  \/ \E k \in Pinners \cap cast : PinNext(k)
  \/ \E e \in Exporters \cap cast : ExportNext(e)
  \/ \E p \in DOMAIN EditData \cap cast : Edit(p) \/ Rewrite(p)

StoreSpec == StoreInit /\ [][StoreNext]_storeVars
-----------------------------------------------------------------------------
(* Correctness *)

(* A complete snapshot is true of the bytes whose digests it records:      *)
(* template, storage, counts and any enforced schema are those of exactly  *)
(* that content, and a schema the known contract enforces is never dropped *)
(* (drafting.py and pinning.py, verify_unchanged and the binding chain).   *)
SnapshotDescribesSource ==
  \A a \in Addresses : store[a] = "whole" =>
    LET c == Whole(doc.ids)
        t == TemplateOf(Block(a))
    IN /\ Observable(c) /\ Matching(c) = {t}
       /\ Block(a) = [Candidate(c, t) EXCEPT !.schema = Block(a).schema]
       /\ Block(a).schema \in {NoSchema, Schema(c)}
       /\ \A k \in KnownFor(t) : Known[k].schema # NoSchema => Block(a).schema = Known[k].schema

(* The pin product is loadable, not a write-only dead file (pinning.py:    *)
(* 221): once a pin returned, its snapshot is complete and load_snapshot   *)
(* accepts it, whatever writes stopped short.                              *)
ReturnedPinLoads ==
  \A k \in Pinners : pin[k].phase = "returned" =>
    /\ store[pin[k].address] = "whole"
    /\ Loads(Block(pin[k].address), pin[k].address[2])

(* A committed export converted exactly what its contract authorizes: a    *)
(* known contract or a complete snapshot, never one still being written;   *)
(* what it wrote was read from the bytes the plan was made of, however     *)
(* much later it ran, and those have the enforced schema, the ConvRot      *)
(* groups and group sizes the template lists, every tensor but the scale   *)
(* and the marker of those groups, and every QKV matrix in the row order   *)
(* of the official loader.                                                 *)
ExportedIsAuthorized ==
  \A e \in Exporters : export[e].phase = "committed" =>
    LET plan == export[e].plan
        c == Whole(plan.files)
        out == Output(plan)
    IN /\ \/ export[e].contract \in DOMAIN Known
          \/ \E a \in export[e].loaded : a[1] = export[e].contract /\ store[a] = "whole"
       /\ export[e].scan.ids = plan.files
       /\ Schema(c) = plan.record.schema
       /\ Storage(c) = "int8-convrot" /\ GroupTable(c) = TemplateOf(plan.record).table
       /\ DOMAIN out = {n \in DOMAIN c.tensors :
                          ~(n[1] \in Marked(c) /\ n[2] \in {"weight_scale", "comfy_quant"})}
       /\ \A n \in DOMAIN out :
            out[n] = [i \in 1..c.tensors[n].shape[1] |->
                        IF IsQkv(n) THEN GroupedRow(i - 1) ELSE i - 1]
=============================================================================
