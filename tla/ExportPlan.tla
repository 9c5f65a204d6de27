--------------------------- MODULE ExportPlan ---------------------------
(* The plan of a dense native export and the bytes its execution produces  *)
(* (comfy_omni.conversion.exporters.planning, execution and payloads,      *)
(* comfy_omni.domain.qkv): which contract authorizes a checkpoint, the     *)
(* operation and target of every tensor, the shards, what an execution     *)
(* checks again, and the order in which the rows of a tensor are written.  *)
EXTENDS CheckpointCensus, QkvLayout

CONSTANTS
  TensorOrder,    \* every tensor name, in the order Python sorts them
  QkvPrefixes,    \* prefixes ending in .attn.qkv_proj
  Layout,         \* QKV layout: [groups, heads, dim]
  MaxRows,        \* rows per produced chunk
  ShardLimit      \* bytes of target payload per shard

(* domain/qkv.py and payloads.py refuse any other layout and chunk size;   *)
(* a tensor name is <<prefix, part>>.                                      *)
ASSUME ExportPlanAssumption ==
  /\ Layout \in [groups : Nat \ {0}, heads : Nat \ {0}, dim : Nat \ {0}]
  /\ MaxRows \in Nat \ {0}
  /\ TensorOrder \in Seq(Range(TensorOrder))
  /\ \A n \in Range(TensorOrder) : n = <<n[1], n[2]>>

ProfileComponent == "transformer"
ProfileStorage == "int8-convrot"
Width == [BF16 |-> 2, F32 |-> 4, I8 |-> 1, U8 |-> 1]

Volume(shape) == IF Len(shape) = 2 THEN shape[1] * shape[2] ELSE shape[1]
SourceBytes(c, n) == Volume(c.tensors[n].shape) * Width[c.tensors[n].dtype]
-----------------------------------------------------------------------------
(* The order rows are written in *)

(* One row more: to the last run if it follows it and there is room. *)
AddRow(runs, row) ==
  LET last == runs[Len(runs)]
      follows == row = last.start + last.count /\ last.count < MaxRows
  IN IF runs # <<>> /\ follows
     THEN [runs EXCEPT ![Len(runs)].count = @ + 1]
     ELSE Append(runs, [start |-> row, count |-> 1])

(* Maximal runs of consecutive rows, at most MaxRows each. *)
BoundedRuns(order) ==
  LET runs[k \in 0..Len(order)] == IF k = 0 THEN <<>> ELSE AddRow(runs[k - 1], order[k])
  IN runs[Len(order)]

RunRows(runs) == FlattenSeq([k \in 1..Len(runs) |->
                               [i \in 1..runs[k].count |-> runs[k].start + i - 1]])
-----------------------------------------------------------------------------
(* The plan *)

RoleOf(c, n) ==
  IF n[1] \notin Marked(c) THEN "copy"
  ELSE CASE n[2] = "weight" -> "weight"
         [] n[2] = "weight_scale" -> "scale"
         [] n[2] = "comfy_quant" -> "marker"
         [] OTHER -> "copy"

IsQkv(n) == n[1] \in QkvPrefixes /\ n[2] = "weight"

OperationFor(c, n) ==
  CASE RoleOf(c, n) = "marker" -> "omit-marker"
    [] RoleOf(c, n) = "scale" -> "omit-scale"
    [] RoleOf(c, n) = "weight" -> IF IsQkv(n) THEN "inverse-qkv" ELSE "inverse"
    [] OTHER -> IF IsQkv(n) THEN "copy-qkv" ELSE "copy"

TargetBytes(c, n) ==
  CASE OperationFor(c, n) \in {"omit-marker", "omit-scale"} -> 0
    [] OperationFor(c, n) \in {"inverse", "inverse-qkv"} -> 2 * Volume(c.tensors[n].shape)
    [] OTHER -> SourceBytes(c, n)

ActionFor(c, n) ==
  [operation |-> OperationFor(c, n), descriptor |-> c.tensors[n],
   size |-> IF RoleOf(c, n) = "copy" THEN 0 ELSE DeclaredSize(c, n[1]),
   bytes |-> TargetBytes(c, n)]

(* The targets, in name order. *)
Kept(actions) ==
  LET target(n) == n \in DOMAIN actions /\ actions[n].operation \notin {"omit-marker", "omit-scale"}
  IN FlattenSeq([k \in 1..Len(TensorOrder) |->
                   IF target(TensorOrder[k]) THEN <<TensorOrder[k]>> ELSE <<>>])

(* First fit in name order. *)
AssignShards(actions) ==
  LET place(shards, n) ==
        LET last == shards[Len(shards)]
        IN IF last.names # <<>> /\ last.bytes + actions[n].bytes > ShardLimit
           THEN Append(shards, [names |-> <<n>>, bytes |-> actions[n].bytes])
           ELSE [shards EXCEPT ![Len(shards)] =
                   [names |-> Append(last.names, n), bytes |-> last.bytes + actions[n].bytes]]
  IN FoldLeft(place, <<[names |-> <<>>, bytes |-> 0]>>, Kept(actions))

Actions(c) == [n \in DOMAIN c.tensors |-> ActionFor(c, n)]

(* _validate_authority: the record speaks for exactly this checkpoint. *)
Authorizes(record, c) ==
  LET t == TemplateOf(record)
  IN /\ record.schema # NoSchema
     /\ record.storage = ProfileStorage /\ Storage(c) = ProfileStorage
     /\ record.component = t.component /\ record.component = ProfileComponent
     /\ record.tensors = Cardinality(DOMAIN c.tensors)
     /\ record.groups = Cardinality(Marked(c))
     /\ record.schema = Schema(c)
     /\ Level3(c, t)

Plannable(c) ==
  LET actions == Actions(c)
  IN /\ \A n \in DOMAIN actions : SourceBytes(c, n) > 0
     /\ \A n \in DOMAIN actions :
          IsQkv(n) => Len(c.tensors[n].shape) = 2 /\ c.tensors[n].shape[1] = QkvRows(Layout)
     /\ Len(Kept(actions)) = Cardinality(DOMAIN c.tensors) - 2 * Cardinality(Marked(c))
     /\ \A n \in DOMAIN actions : actions[n].bytes <= ShardLimit
-----------------------------------------------------------------------------
(* The execution *)

(* _validate_action, _validate_convrot_groups and _validate_plan, on the   *)
(* sources as the execution opened them.                                   *)
PlanFits(plan, c) ==
  LET groups == {n[1] : n \in {m \in DOMAIN plan.actions : plan.actions[m].operation = "omit-marker"}}
  IN /\ DOMAIN plan.actions = DOMAIN c.tensors
     /\ \A n \in DOMAIN plan.actions : plan.actions[n].descriptor = c.tensors[n]
     /\ \A p \in groups :
          /\ TripletOK(c, p, plan.actions[<<p, "comfy_quant">>].size)
          /\ ParsesAs(c.marks[p], plan.actions[<<p, "comfy_quant">>].size)
     /\ FlattenSeq([k \in 1..Len(plan.shards) |-> plan.shards[k].names]) = Kept(plan.actions)

(* The rows of target n in the order they are written. *)
RowsWritten(plan, n) ==
  LET rows == plan.actions[n].descriptor.shape[1]
      natural == [i \in 1..rows |-> i - 1]
      order == IF plan.actions[n].operation \in {"copy-qkv", "inverse-qkv"}
               THEN QkvToGrouped(Layout) ELSE natural
  IN IF plan.actions[n].operation = "copy" THEN natural ELSE RunRows(BoundedRuns(order))

Output(plan) ==
  LET kept == FlattenSeq([k \in 1..Len(plan.shards) |-> plan.shards[k].names])
  IN [n \in {kept[k] : k \in 1..Len(kept)} |-> RowsWritten(plan, n)]

(* What the official loader expects: row r of group g is one of its own    *)
(* queries, its key or its value in the Q|K|V source.                      *)
GroupedRow(r) ==
  LET group == r \div PerGroup(Layout)
      within == r % PerGroup(Layout)
      queries == Layout.heads * Layout.dim
  IN CASE within < queries -> group * queries + within
       [] within \in queries..(queries + Layout.dim - 1) ->
            Layout.groups * queries + group * Layout.dim + (within - queries)
       [] OTHER -> Layout.groups * (queries + Layout.dim) + group * Layout.dim
                     + (within - queries - Layout.dim)
=============================================================================
