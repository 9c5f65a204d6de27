---------------------------- MODULE BakeAudit ----------------------------
(* The bake diagnostic: planners hash the base shards and the adapter into *)
(* a content-bound plan, workers each audit their share of a plan over the *)
(* files they find later, and an aggregator combines worker receipts into  *)
(* one verdict (comfy_omni.conversion.lora.bake_plan and bake_audit). The  *)
(* steps of different commands interleave with another process's writes.   *)
(* A plan, as its digest, is the record itself; so is a receipt.           *)
EXTENDS LoraAdapter, HeldFiles

CONSTANTS
  Planners, Workers, Aggregators,
  Shards,          \* shard paths in name order
  WeightMap,       \* module -> shard, as the index says
  OfficialHeads,   \* the official header of every shard
  Multiplier,      \* the user scale each planner is given
  Terms,           \* [thresholds, device] a worker may be given
  Sums,            \* metric sums by <<base payload, adapter payload>> and partition
  MaxWorkers,      \* receipts of one aggregation
  AuditRows        \* rows per window under the working-set limit

(* The index names a shard for every module. *)
ASSUME BakeAuditAssumption ==
  /\ Shards \in Seq(Paths) /\ NormalPath \in Paths
  /\ \A m \in AllModules : WeightMap[m] \in Range(Shards)
  /\ MaxWorkers \in Nat /\ AuditRows \in Nat \ {0}

VARIABLES planner, worker, verdict

auditVars == <<planner, worker, verdict>>

Inputs == Shards \o <<NormalPath>>
-----------------------------------------------------------------------------
(* Planning *)

PlanMoves(p, phase) == planner' = [planner EXCEPT ![p].phase = phase]

PlanStart(p) ==
  /\ planner[p].phase = "idle"
  /\ PlanMoves(p, "reading")
  /\ UNCHANGED <<file, clock, worker, verdict>>

(* The next input: descriptor, size and header. *)
PlanOpen(p) ==
  LET k == Len(planner[p].digests) + 1
      path == Inputs[k]
  IN /\ planner[p].phase = "reading" /\ Len(planner[p].held) < k
     /\ k <= Len(Inputs)
     /\ IF Exists(path)
        THEN planner' = [planner EXCEPT ![p].held = Append(@, file[path])]
        ELSE PlanMoves(p, "refused")
     /\ UNCHANGED <<file, clock, worker, verdict>>

(* Its digest, then the identity of descriptor and path once more. *)
PlanHash(p) ==
  LET k == Len(planner[p].held)
      path == Inputs[k]
      opened == planner[p].held[k]
  IN /\ planner[p].phase = "reading" /\ Len(planner[p].digests) < k
     /\ IF file[path].inode = opened.inode /\ file[path].stamp = opened.stamp
        THEN planner' = [planner EXCEPT ![p].digests = Append(@, HeldData(path, opened))]
        ELSE PlanMoves(p, "refused")
     /\ UNCHANGED <<file, clock, worker, verdict>>

(* The catalog digest pins every shard's names, dtypes and shapes. *)
BaseAccepted(digests) ==
  \A k \in 1..Len(Shards) : digests[k].head = OfficialHeads[Shards[k]]

AdapterAccepted(data) == IsAdapter(data) /\ NormalizedAccepted("turbo", HeaderOf(data.head))

PlanOperations == Operations(WeightMap)

Plan(p) ==
  [shards |-> [k \in 1..Len(Shards) |-> planner[p].digests[k]],
   lora |-> planner[p].digests[Len(Inputs)],
   multiplier |-> Multiplier[p],
   operations |-> PlanOperations]

PlanBuild(p) ==
  LET digests == planner[p].digests
  IN /\ planner[p].phase = "reading" /\ Len(digests) = Len(Inputs)
     /\ PlanMoves(p, IF BaseAccepted(digests) /\ AdapterAccepted(digests[Len(Inputs)])
                     THEN "planned" ELSE "refused")
     /\ UNCHANGED <<file, clock, worker, verdict>>
-----------------------------------------------------------------------------
(* Auditing *)

WorkMoves(w, phase) == worker' = [worker EXCEPT ![w].phase = phase]
PlanOf(w) == Plan(worker[w].planner)

(* The share, the thresholds and the device a worker is started with. *)
AuditStart(w) ==
  /\ worker[w].phase = "idle"
  /\ \E p \in Planners, count \in 1..MaxWorkers, index \in 0..(MaxWorkers - 1), t \in Terms :
       /\ planner[p].phase = "planned"
       /\ index < count /\ count <= Len(PlanOperations)
       /\ worker' = [worker EXCEPT ![w].phase = "opening", ![w].planner = p, ![w].count = count,
                                   ![w].index = index, ![w].terms = t]
  /\ UNCHANGED <<file, clock, planner, verdict>>

Digest(plan, k) == IF k <= Len(Shards) THEN plan.shards[k] ELSE plan.lora

(* The next input: opened, hashed against the plan with its identity       *)
(* checked after the last byte, and held open.                             *)
AuditOpen(w) ==
  LET k == Len(worker[w].held) + 1
  IN /\ worker[w].phase = "opening" /\ k <= Len(Inputs)
     /\ IF file[Inputs[k]].data = Digest(PlanOf(w), k)
        THEN worker' = [worker EXCEPT ![w].held = Append(@, file[Inputs[k]]),
                                      ![w].phase = IF k = Len(Inputs) THEN "auditing" ELSE @]
        ELSE WorkMoves(w, "failed")
     /\ UNCHANGED <<file, clock, planner, verdict>>

Share(w) == Selected(Len(PlanOperations), worker[w].index, worker[w].count)
Pending(w) == {i \in Share(w) : worker[w].results[i] = <<>>}
ShardIndex(op) == CHOOSE k \in 1..Len(Shards) : Shards[k] = op.shard

(* Which gates the sums of one partition fail; thresholds in percent.      *)
Failures(sums, t) ==
  {gate \in {"empty_partition", "delta_has_no_energy", "nonzero_survival", "residual_relative_l2",
             "residual_cosine", "residual_energy_ratio", "nonfinite_count", "sign_flip_count"} :
     CASE gate = "empty_partition" -> sums.elements = 0
       [] gate = "delta_has_no_energy" -> sums.nonzero = 0 \/ sums.delta = 0
       [] gate = "nonzero_survival" ->
            IF sums.nonzero = 0 THEN t.survival > 0
            ELSE 100 * sums.survived < t.survival * sums.nonzero
       [] gate = "residual_relative_l2" -> sums.delta # 0 /\ 100 * sums.error > t.error * sums.delta
       [] gate = "residual_cosine" ->
            \/ sums.delta = 0 \/ sums.effective = 0
            \/ 100 * sums.dot < t.cosine * sums.delta * sums.effective
       [] gate = "residual_energy_ratio" ->
            \/ sums.delta = 0
            \/ 100 * sums.effective \notin (t.low * sums.delta)..(t.high * sums.delta)
       [] gate = "nonfinite_count" -> sums.nonfinite > t.nonfinite
       [] gate = "sign_flip_count" -> sums.flips > 0}

OperationPasses(op, base, lora, t) ==
  \A k \in 1..Len(PartitionSpecs(op)) :
    Failures(Sums[<<base.body, lora.body>>][PartitionSpecs(op)[k].name], t) = {}

(* One operation: A, then every window of the base and of B.               *)
AuditOperation(w) ==
  LET i == CHOOSE i \in Pending(w) : \A j \in Pending(w) : i <= j
      op == PlanOperations[i]
      k == ShardIndex(op)
      base == HeldData(Shards[k], worker[w].held[k])
      lora == HeldData(NormalPath, worker[w].held[Len(Inputs)])
  IN /\ worker[w].phase = "auditing" /\ Pending(w) # {}
     /\ IF base.body \in Truncated \/ lora.body \in Truncated THEN WorkMoves(w, "failed")
        ELSE worker' = [worker EXCEPT ![w].results[i] =
               <<[base |-> base, lora |-> lora,
                  passed |-> OperationPasses(op, base, lora, worker[w].terms.thresholds)]>>]
     /\ UNCHANGED <<file, clock, planner, verdict>>

(* The mutant of InputsUnchanged: close collects errors and drops them. *)
InputsClosed(w) == TRUE

(* close of every reader: descriptor and path still what was opened. *)
InputsUnchanged(w) ==
  \A k \in 1..Len(Inputs) : file[Inputs[k]] = worker[w].held[k]

AuditReturn(w) ==
  /\ worker[w].phase = "auditing" /\ Pending(w) = {}
  /\ WorkMoves(w, IF InputsUnchanged(w) THEN "returned" ELSE "failed")
  /\ UNCHANGED <<file, clock, planner, verdict>>

WorkerStatus(w) ==
  IF \A i \in Share(w) : worker[w].results[i][1].passed THEN "PASS" ELSE "FAIL"
-----------------------------------------------------------------------------
(* Aggregating: a sequence of receipts, any of which may be given twice *)

(* What common_fields compares. *)
Contract(w) ==
  [plan |-> PlanOf(w), thresholds |-> worker[w].terms.thresholds,
   cuda |-> worker[w].terms.device # "cpu", count |-> worker[w].count]

SharesContract(given) == \A j \in 1..Len(given) : Contract(given[j]) = Contract(given[1])

DistinctIndices(given) ==
  \A j, k \in 1..Len(given) : j # k => worker[given[j]].index # worker[given[k]].index

CoversPlan(given) ==
  UNION {Share(given[j]) : j \in 1..Len(given)} = 1..Len(PlanOperations)

DistinctDevices(given) ==
  worker[given[1]].terms.device # "cpu" =>
    \A j, k \in 1..Len(given) : j # k => worker[given[j]].terms.device # worker[given[k]].terms.device

Accepted(given) ==
  /\ worker[given[1]].count >= 2 /\ Len(given) = worker[given[1]].count
  /\ SharesContract(given) /\ DistinctIndices(given)
  /\ CoversPlan(given) /\ DistinctDevices(given)

Aggregate(a) ==
  /\ verdict[a].decision = "none"
  /\ \E n \in 2..MaxWorkers : \E given \in [1..n -> Workers] :
       /\ \A j \in 1..n : worker[given[j]].phase = "returned"
       /\ verdict' = [verdict EXCEPT ![a] = [given |-> given, decision |->
            IF ~Accepted(given) THEN "refused"
            ELSE IF \A j \in 1..n : WorkerStatus(given[j]) = "PASS" THEN "PASS" ELSE "FAIL"]]
  /\ UNCHANGED <<file, clock, planner, worker>>

AuditInit ==
  /\ planner = [p \in Planners |-> [phase |-> "idle", held |-> <<>>, digests |-> <<>>]]
  /\ worker = [w \in Workers |->
       [phase |-> "idle", planner |-> "none", count |-> 0, index |-> 0,
        terms |-> [device |-> "none"], held |-> <<>>, results |-> [i \in 1..Len(ModuleOrder) |-> <<>>]]]
  /\ verdict = [a \in Aggregators |-> [given |-> <<>>, decision |-> "none"]]

PlanStep(p) == PlanStart(p) \/ PlanOpen(p) \/ PlanHash(p) \/ PlanBuild(p)
AuditStep(w) == AuditStart(w) \/ AuditOpen(w) \/ AuditOperation(w) \/ AuditReturn(w)

(* An aggregate PASS speaks for one plan as a whole: every operation was   *)
(* audited by exactly one of the receipts, over exactly the bytes that     *)
(* plan names, each base row against the row of B it is added to at run    *)
(* time, under the same thresholds, and passed; whatever was rewritten     *)
(* between planning, the workers' runs and their reads, and whichever      *)
(* receipts were given, in whatever order.                                 *)
PassCoversPlan ==
  \A a \in Aggregators : verdict[a].decision = "PASS" =>
    LET given == verdict[a].given
        plan == PlanOf(given[1])
        auditors(i) == {j \in 1..Len(given) : worker[given[j]].results[i] # <<>>}
    IN \A i \in 1..Len(plan.operations) :
         /\ Cardinality(auditors(i)) = 1
         /\ ReadsBase(plan.operations[i], AuditRows)
         /\ \A j \in auditors(i) :
              LET result == worker[given[j]].results[i][1]
              IN /\ result.base = plan.shards[ShardIndex(plan.operations[i])]
                 /\ result.lora = plan.lora
                 /\ OperationPasses(plan.operations[i], result.base, result.lora,
                                    worker[given[1]].terms.thresholds)
=============================================================================
