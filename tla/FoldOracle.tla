---------------------------- MODULE FoldOracle ----------------------------
(* run_local_comfy_reference_fold_oracle: a run folds a few targets of a   *)
(* plan twice, by the pinned reference source and by the candidate, writes *)
(* every candidate tensor into a temporary directory, reads it back, and   *)
(* publishes one receipt with the verdict. Runs share the directories, and *)
(* another process may rewrite inputs or candidates, or replace a          *)
(* directory. What a run has staged or published it never removes, and     *)
(* between a link and its confirmation others may move. Each run is a      *)
(* process, so the matmul precision it sets and restores is its own.       *)
EXTENDS LoraAdapter, HeldFiles

CONSTANTS
  Oracles,
  PlanPaths,       \* paths of plan JSON files
  PlanText,        \* plan a JSON payload says: [target, shards, lora, operations]
  ReferencePath, Reference,   \* the reference source and its pinned content
  OracleInputs,    \* the shards in name order, then the normalized adapter
  MicroTargets,    \* the fixed targets: [index, module]
  TempOf,          \* the temp directory each run is given; all share "evidence"
  Candidates,      \* temp directory -> candidate path of each target
  ReceiptPath,     \* in the evidence directory
  Parity           \* base and adapter payloads on which both folds round alike

VARIABLES oracle, dirs

oracleVars == <<oracle, dirs>>

Inside == [d \in DOMAIN Candidates \cup {"evidence"} |->
  IF d = "evidence" THEN {ReceiptPath} ELSE {Candidates[d][k] : k \in 1..Len(Candidates[d])}]
Candidate(o, k) == Candidates[TempOf[o]][k]

ASSUME FoldOracleAssumption ==
  \A o \in Oracles : /\ TempOf[o] \in DOMAIN Candidates \ {"evidence"}
                     /\ Len(Candidates[TempOf[o]]) = Len(MicroTargets)

(* No temp directory is the evidence directory, no shard has two names, and *)
(* a plan that parses names every shard and no other.                       *)
ASSUME OracleFilesAssumption ==
  /\ ReceiptPath \in Paths
  /\ \A d \in DOMAIN Candidates \ {"evidence"} :
       Candidates[d] \in Seq(Paths) /\ ReceiptPath \notin Range(Candidates[d])
  /\ OracleInputs \in Seq(Paths) /\ Len(OracleInputs) >= 1
  /\ OracleInputs[Len(OracleInputs)] = NormalPath
  /\ \A i, j \in 1..Len(OracleInputs) : OracleInputs[i] = OracleInputs[j] => i = j
  /\ MicroTargets \in Seq([index : 1..Len(ModuleOrder), module : AllModules])
  /\ \A text \in DOMAIN PlanText :
       LET plan == PlanText[text]
       IN /\ plan.shards \in Seq(Range(plan.shards)) /\ Len(plan.shards) = Len(OracleInputs) - 1
          /\ \A i \in 1..Len(ModuleOrder) :
               \E k \in 1..Len(plan.shards) : plan.operations[i].shard = OracleInputs[k]

(* A file that run o has filled: a candidate has rows, a receipt a body. *)
Staging(data) == [inode |-> clock + 1, stamp |-> clock + 1, data |-> data]
CandidateData(o, rows) == [head |-> [id |-> o, as |-> "oracle"], rows |-> rows]
ReceiptData(o, verdict) == [head |-> [id |-> o, as |-> "oracle"], body |-> verdict]

Turn(o, phase) == oracle' = [oracle EXCEPT ![o].phase = phase]
Fails(o) == Turn(o, "failed") /\ UNCHANGED <<file, clock, dirs>>
-----------------------------------------------------------------------------
(* A tensor as its rows; a folded row names the base row and the row of B  *)
(* that went into it, and how it was rounded.                              *)

Permuted(rows, order) == [i \in 1..Len(rows) |-> rows[order[i] + 1]]
ToRuntime(op, rows) ==
  IF op.layout = "direct" THEN rows ELSE Permuted(rows, BaseOrder)
ToSerialized(op, rows) ==
  IF op.layout = "direct" THEN rows ELSE Permuted(rows, SerializedOrder)

(* The base is mapped to run-time rows, B is in that order already. *)
Fold(op, base, lora, rounding) ==
  LET runtime == ToRuntime(op, [i \in 1..op.shape[1] |-> <<base, i>>])
  IN [i \in 1..op.shape[1] |-> <<runtime[i], <<lora, i>>, rounding>>]

ReferenceFold(op, base, lora) == Fold(op, base, lora, "reference")
CandidateFold(op, base, lora) ==
  Fold(op, base, lora, IF <<base, lora>> \in Parity THEN "reference" ELSE "candidate")

(* read_candidate_runtime: the rows of the file, mapped as a base. *)
Reloaded(op, rows) == ToRuntime(op, rows)
-----------------------------------------------------------------------------
(* Before any tensor is read *)

(* _validate_output_directories, and the receipt must not be there yet. *)
OracleBind(o) ==
  /\ oracle[o].phase = "idle"
  /\ IF /\ ~dirs[TempOf[o]].used /\ \A p \in Inside[TempOf[o]] : ~Exists(p)
        /\ ~Exists(ReceiptPath)
     THEN /\ oracle' = [oracle EXCEPT ![o].phase = "bound",
                          ![o].bound = [d \in DOMAIN dirs |-> dirs[d].inode]]
          /\ UNCHANGED <<file, clock, dirs>>
     ELSE Fails(o)

OracleLoad(o) ==
  /\ oracle[o].phase = "bound"
  /\ \E path \in PlanPaths :
       LET text == file[path].data.body
       IN IF text \in DOMAIN PlanText
          THEN /\ oracle' = [oracle EXCEPT ![o].phase = "loaded", ![o].path = path,
                                           ![o].plan = PlanText[text]]
               /\ UNCHANGED <<file, clock, dirs>>
          ELSE Fails(o)

MicroAccepted(plan) ==
  /\ plan.target = "BF16"
  /\ \A k \in 1..Len(MicroTargets) :
       LET op == plan.operations[MicroTargets[k].index]
       IN op = BakeOperation(MicroTargets[k].module, op.shard)

(* The JSON hashed again, then validate_micro_operations. *)
OracleRehash(o) ==
  /\ oracle[o].phase = "loaded"
  /\ IF /\ file[oracle[o].path].data.body \in DOMAIN PlanText
        /\ PlanText[file[oracle[o].path].data.body] = oracle[o].plan
        /\ MicroAccepted(oracle[o].plan)
     THEN Turn(o, "planned") /\ UNCHANGED <<file, clock, dirs>>
     ELSE Fails(o)

(* validate_reference_source, then fold.py once more, the bytes hashed     *)
(* being the bytes executed.                                               *)
OracleReference(o) ==
  /\ oracle[o].phase = "planned"
  /\ IF file[ReferencePath].data = Reference
     THEN Turn(o, "referenced") /\ UNCHANGED <<file, clock, dirs>>
     ELSE Fails(o)

OracleExecutor(o) ==
  /\ oracle[o].phase = "referenced"
  /\ IF file[ReferencePath].data = Reference
     THEN /\ oracle' = [oracle EXCEPT ![o].phase = "opening",
                                      ![o].executor = file[ReferencePath].data]
          /\ UNCHANGED <<file, clock, dirs>>
     ELSE Fails(o)

Named(plan, k) == IF k < Len(OracleInputs) THEN plan.shards[k] ELSE plan.lora

(* _verify_plan_sources: the next input opened, hashed and held open. *)
OracleOpen(o) ==
  LET k == Len(oracle[o].held) + 1
  IN /\ oracle[o].phase = "opening"
     /\ IF file[OracleInputs[k]].data = Named(oracle[o].plan, k)
        THEN /\ oracle' = [oracle EXCEPT ![o].held = Append(@, file[OracleInputs[k]]),
                             ![o].phase = IF k = Len(OracleInputs) THEN "folding" ELSE @]
             /\ UNCHANGED <<file, clock, dirs>>
        ELSE Fails(o)
-----------------------------------------------------------------------------
(* One target after the other *)

Current(o) == Len(oracle[o].results) + 1
Operation(o) == oracle[o].plan.operations[MicroTargets[Current(o)].index]

(* Base, A and B read and folded twice; then write_candidate_tensor_atomic *)
(* binds the directory, looks for the name and fills a staging file.       *)
OracleFold(o) ==
  LET op == Operation(o)
      k == CHOOSE k \in 1..Len(OracleInputs) : OracleInputs[k] = op.shard
      base == HeldData(OracleInputs[k], oracle[o].held[k])
      lora == HeldData(NormalPath, oracle[o].held[Len(OracleInputs)])
  IN /\ oracle[o].phase = "folding" /\ Current(o) <= Len(MicroTargets)
     /\ IF \/ base.body \in Truncated \/ lora.body \in Truncated
           \/ dirs[TempOf[o]].inode # oracle[o].bound[TempOf[o]] \/ Exists(Candidate(o, Current(o)))
        THEN Fails(o)
        ELSE /\ oracle' = [oracle EXCEPT ![o].phase = "staged",
                  ![o].read = [base |-> base, lora |-> lora],
                  ![o].staged = Staging(CandidateData(o,
                     ToSerialized(op, CandidateFold(op, base.body, lora.body))))]
             /\ dirs' = [dirs EXCEPT ![TempOf[o]].used = TRUE]
             /\ clock' = clock + 1
             /\ UNCHANGED file

(* _link_no_replace, up to the link. *)
LinkInto(o, d, path, phase) ==
  IF dirs[d].inode # oracle[o].bound[d] \/ Exists(path) THEN Fails(o)
  ELSE /\ file' = [file EXCEPT ![path] = oracle[o].staged]
       /\ Turn(o, phase)
       /\ UNCHANGED <<clock, dirs>>

(* The directory once more, what the name has now, and the directory       *)
(* synced, which may fail; then the file stays where it is.                *)
Confirm(o, d, path, phase, failed) ==
  /\ \/ /\ dirs[d].inode = oracle[o].bound[d] /\ file[path] = oracle[o].staged
        /\ Turn(o, phase)
     \/ Turn(o, failed)
  /\ UNCHANGED <<file, clock, dirs>>

OracleLink(o) ==
  /\ oracle[o].phase = "staged"
  /\ LinkInto(o, TempOf[o], Candidate(o, Current(o)), "linked")

OracleConfirm(o) ==
  /\ oracle[o].phase = "linked"
  /\ Confirm(o, TempOf[o], Candidate(o, Current(o)), "published", "failed")

(* The mutant of IsPublished: the name is there. *)
IsAnyCandidate(o) == Exists(Candidate(o, Current(o)))

(* Device, inode, size and mtime under the name are those published. *)
IsPublished(o) == file[Candidate(o, Current(o))] = oracle[o].staged

(* read_candidate_runtime opens the name and hashes what it opened. *)
OracleReread(o) ==
  /\ oracle[o].phase = "published"
  /\ IF IsPublished(o)
     THEN /\ oracle' = [oracle EXCEPT ![o].phase = "reread",
                                      ![o].opened = file[Candidate(o, Current(o))]]
          /\ UNCHANGED <<file, clock, dirs>>
     ELSE Fails(o)

(* The payload read, the name looked at again; then the two folds compared. *)
OracleReload(o) ==
  LET op == Operation(o)
      read == oracle[o].read
      payload == HeldData(Candidate(o, Current(o)), oracle[o].opened)
      reference == ReferenceFold(op, read.base.body, read.lora.body)
      same == reference = Reloaded(op, payload.rows)
      nan == read.base.body \in NonFinite \/ read.lora.body \in NonFinite
  IN /\ oracle[o].phase = "reread"
     /\ IF ~IsPublished(o) THEN Fails(o)
        ELSE /\ oracle' = [oracle EXCEPT ![o].phase = "folding",
                  ![o].results = Append(@, [read |-> read, same |-> same, equal |-> same /\ ~nan])]
             /\ UNCHANGED <<file, clock, dirs>>
-----------------------------------------------------------------------------
(* Verdict *)

(* Every reader is closed on what it opened, descriptor and path. *)
OracleClose(o) ==
  /\ oracle[o].phase = "folding" /\ Current(o) > Len(MicroTargets)
  /\ IF \A k \in 1..Len(OracleInputs) : file[OracleInputs[k]] = oracle[o].held[k]
     THEN Turn(o, "closed") /\ UNCHANGED <<file, clock, dirs>>
     ELSE Fails(o)

Decision(results) ==
  IF \A k \in 1..Len(results) : results[k].equal THEN "INCOMPLETE"
  ELSE "REFERENCE_FOLD_PARITY_MISMATCH"

(* build_local_receipt refuses a comparison its two digests contradict;    *)
(* write_receipt_atomic binds the directory and stages the receipt.        *)
OracleReceipt(o) ==
  /\ oracle[o].phase = "closed"
  /\ IF \/ \E k \in 1..Len(MicroTargets) : oracle[o].results[k].equal # oracle[o].results[k].same
        \/ dirs["evidence"].inode # oracle[o].bound["evidence"] \/ Exists(ReceiptPath)
     THEN Fails(o)
     ELSE /\ oracle' = [oracle EXCEPT ![o].phase = "receipted",
               ![o].staged = Staging(ReceiptData(o, Decision(oracle[o].results)))]
          /\ dirs' = [dirs EXCEPT !["evidence"].used = TRUE]
          /\ clock' = clock + 1
          /\ UNCHANGED file

OracleReturn(o) ==
  /\ oracle[o].phase = "receipted"
  /\ LinkInto(o, "evidence", ReceiptPath, "signed")

(* A run that raises here has left its receipt. *)
OracleConfirmReceipt(o) ==
  /\ oracle[o].phase = "signed"
  /\ Confirm(o, "evidence", ReceiptPath, "returned", "left")

OracleInit ==
  /\ oracle = [o \in Oracles |->
       [phase |-> "idle", bound |-> <<>>, path |-> "none", plan |-> <<>>, executor |-> NoData,
        held |-> <<>>, read |-> <<>>, staged |-> Absent, opened |-> Absent, results |-> <<>>]]
  /\ dirs = [d \in DOMAIN Inside |-> [inode |-> 1, used |-> FALSE]]

OracleStep(o) ==
  \/ OracleBind(o) \/ OracleLoad(o) \/ OracleRehash(o) \/ OracleReference(o)
  \/ OracleExecutor(o) \/ OracleOpen(o) \/ OracleFold(o) \/ OracleLink(o)
  \/ OracleConfirm(o) \/ OracleReread(o) \/ OracleReload(o) \/ OracleClose(o)
  \/ OracleReceipt(o) \/ OracleReturn(o) \/ OracleConfirmReceipt(o)

(* A receipt in the evidence directory is the verdict of the run that      *)
(* wrote it, on exactly the bytes its plan names and the pinned reference: *)
(* every target compared once, and mismatch reported iff the two folds     *)
(* round differently somewhere; whichever runs share the directories and   *)
(* whatever is rewritten or replaced between the steps, also a receipt     *)
(* that is in place while its run goes on to fail.                         *)
ReceiptComparesThePlan ==
  \A o \in Oracles : oracle[o].phase \in {"signed", "returned", "left"} =>
    LET plan == oracle[o].plan
        results == oracle[o].results
        base(k) == plan.shards[CHOOSE s \in 1..Len(plan.shards) :
                     OracleInputs[s] = plan.operations[MicroTargets[k].index].shard]
    IN /\ oracle[o].executor = Reference
       /\ Len(results) = Len(MicroTargets)
       /\ \A k \in 1..Len(results) : results[k].read = [base |-> base(k), lora |-> plan.lora]
       /\ Decision(results) = "INCOMPLETE"
            <=> \A k \in 1..Len(results) : <<base(k).body, plan.lora.body>> \in Parity
       /\ Exists(ReceiptPath) =>
            /\ file[ReceiptPath].data.head.id = o
            /\ file[ReceiptPath].data.body = Decision(results)
=============================================================================
