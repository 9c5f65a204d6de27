--------------------------- MODULE LoraAdapter ---------------------------
(* A LoRA adapter and the base it is baked into: the modules a profile     *)
(* covers, the contract of a source adapter and of a normalized one, the   *)
(* operations of a bake plan and the rows each reads                       *)
(* (comfy_omni.conversion.lora.normalize, comfy_bake, bake_plan,           *)
(* bake_audit). Pure operators, no state.                                  *)
(*                                                                         *)
(* A module is <<stack, block, part>>. A header is [meta, tensors], a      *)
(* tensor [prefixed, module, side, dtype, shape] with tensors in payload   *)
(* order; the content of a file is [head, body], where head names the      *)
(* adapter and the profile that normalized it, and body is its payload.    *)
EXTENDS QkvLayout, FiniteSets

CONSTANTS
  Blocks, Refiners,           \* transformer blocks and token refiner blocks
  BlockParts, RefinerParts,   \* the projections of one block that carry an adapter
  Dims,                       \* part -> [rank, in, out]; "final" for the final layer
  CombatRank,
  ModuleOrder,                \* the modules as Python sorts their names
  Layout,                     \* QKV layout of the base
  Adapters,                   \* header of every source adapter, by name
  NormalPath,                 \* where normalization publishes, and folds and audits read
  Truncated,                  \* payloads shorter, or longer, than the header says
  NonFinite                   \* payloads holding a NaN or an infinity

Profiles == {"turbo", "combat"}
Adaln == "adaln_proj.linear"
IsAdaln(m) == m[3] = Adaln

ExpectedModules(profile) ==
  LET all == {<<"blocks", i, part>> : i \in 0..(Blocks - 1), part \in BlockParts}
               \cup {<<"token_refiner", i, part>> : i \in 0..(Refiners - 1), part \in RefinerParts}
               \cup {<<"final_layer", 0, Adaln>>}
  IN IF profile = "turbo" THEN all ELSE {m \in all : ~IsAdaln(m)}

AllModules == ExpectedModules("turbo")
Backbone == ExpectedModules("combat")
Quantized == {m \in Backbone : m[1] = "blocks"}

Dim(m) == IF m[1] = "final_layer" THEN Dims["final"] ELSE Dims[m[3]]
Rank(profile, m) == IF profile = "turbo" THEN Dim(m).rank ELSE CombatRank
LoraShape(profile, m, side) ==
  IF side = "A" THEN <<Rank(profile, m), Dim(m).in>> ELSE <<Dim(m).out, Rank(profile, m)>>

(* A header is a sequence of records of tensors. *)
ASSUME AdaptersAssumption ==
  \A id \in DOMAIN Adapters :
    LET tensors == Adapters[id].tensors
    IN /\ tensors \in Seq(Range(tensors))
       /\ \A k \in 1..Len(tensors) :
            DOMAIN tensors[k] = {"prefixed", "module", "side", "dtype", "shape"}

ASSUME OrderAssumption ==
  /\ ModuleOrder \in Seq(AllModules)
  /\ {ModuleOrder[i] : i \in 1..Len(ModuleOrder)} = AllModules

(* Rows that _partition_specs divides evenly. *)
ASSUME DimsAssumption ==
  /\ Layout \in [groups : Nat \ {0}, heads : Nat \ {0}, dim : Nat \ {0}]
  /\ \A m \in AllModules :
       LET out == Dim(m).out
       IN /\ out \in Nat \ {0}
          /\ m[3] = "attn.qkv_proj" => out = QkvRows(Layout)
          /\ m[3] = "mlp.fc1" \/ m[1] = "final_layer" => out % 2 = 0
          /\ IsAdaln(m) /\ m[1] # "final_layer" => out % 18 = 0
-----------------------------------------------------------------------------
(* Contracts *)

(* Every expected module once with its A and its B, nothing else. *)
Covers(profile, tensors) ==
  LET sides == {<<tensors[k].module, tensors[k].side>> : k \in 1..Len(tensors)}
  IN /\ Len(tensors) = 2 * Cardinality(ExpectedModules(profile))
     /\ sides = ExpectedModules(profile) \X {"A", "B"}
     /\ \A k \in 1..Len(tensors) :
          /\ tensors[k].dtype = "BF16"
          /\ tensors[k].shape = LoraShape(profile, tensors[k].module, tensors[k].side)

SourceAccepted(profile, header) ==
  /\ header.meta = [of |-> profile, by |-> "source"]
  /\ \A k \in 1..Len(header.tensors) : header.tensors[k].prefixed
  /\ Covers(profile, header.tensors)

(* The header written for it: the prefix dropped, offsets and payload kept. *)
Encoded(profile, header) ==
  [meta |-> [of |-> profile, by |-> "normalized"],
   tensors |-> [k \in 1..Len(header.tensors) |-> [header.tensors[k] EXCEPT !.prefixed = FALSE]]]

HeaderOf(head) ==
  IF head.as = "source" THEN Adapters[head.id] ELSE Encoded(head.as, Adapters[head.id])

NormalizedAccepted(profile, header) ==
  /\ header.meta = [of |-> profile, by |-> "normalized"]
  /\ \A k \in 1..Len(header.tensors) : ~header.tensors[k].prefixed
  /\ Covers(profile, header.tensors)

IsAdapter(data) == data.head.id \in DOMAIN Adapters

(* What normalizing the content data under profile publishes. *)
Normalized(profile, data) == [head |-> [id |-> data.head.id, as |-> profile], body |-> data.body]
-----------------------------------------------------------------------------
(* The operations of a plan *)

BakeOperation(m, shard) ==
  [module |-> m, shard |-> shard, shape |-> <<Dim(m).out, Dim(m).in>>, rank |-> Dim(m).rank,
   layout |-> IF m[3] = "attn.qkv_proj" THEN "grouped-qkv" ELSE "direct"]

Operations(weightMap) ==
  [i \in 1..Len(ModuleOrder) |-> BakeOperation(ModuleOrder[i], weightMap[ModuleOrder[i]])]

(* Operation i of the plan is audited by the worker index of count. *)
Selected(operations, index, count) == {i \in 1..operations : (i - 1) % count = index}

(* The base row of every run-time QKV row, and the reverse. *)
BaseOrder == GroupedToQkv(Layout)
SerializedOrder == QkvToGrouped(Layout)

(* Runtime rows first..last-1 of a metric; rows: where the base keeps them. *)
Partition(name, first, last, rows) == [name |-> name, first |-> first, last |-> last, rows |-> rows]

Equal(names, out) ==
  LET width == out \div Len(names)
  IN [k \in 1..Len(names) |-> Partition(names[k], (k - 1) * width, k * width, <<>>)]

PartitionSpecs(op) ==
  LET out == op.shape[1]
      queries == Layout.groups * Layout.heads * Layout.dim
      keys == Layout.groups * Layout.dim
      qkv(name, first, last) ==
        Partition(name, first, last, SubSeq(BaseOrder, first + 1, last))
      channels == <<"shift_msa", "scale_msa", "gate_msa", "shift_mlp", "scale_mlp", "gate_mlp">>
  IN CASE op.layout = "grouped-qkv" ->
            <<qkv("q", 0, queries), qkv("k", queries, queries + keys),
              qkv("v", queries + keys, out)>>
       [] op.module[3] = "mlp.fc1" -> Equal(<<"gate", "up">>, out)
       [] op.module[1] = "final_layer" -> Equal(<<"shift", "scale">>, out)
       [] IsAdaln(op.module) /\ op.module[1] # "final_layer" ->
            Equal(FlattenSeq([k \in 1..3 |-> channels]), out)
       [] OTHER -> <<Partition("all", 0, out, <<>>)>>

(* The windows of at most chunk rows a partition is read in. *)
Windows(first, last, chunk) ==
  [k \in 1..((last - first + chunk - 1) \div chunk) |->
     [first |-> first + (k - 1) * chunk,
      last |-> IF first + k * chunk < last THEN first + k * chunk ELSE last]]

(* Rows of the base read for one window of a partition. *)
WindowRows(part, w) ==
  IF part.rows # <<>> THEN SubSeq(part.rows, w.first - part.first + 1, w.last - part.first)
  ELSE [i \in 1..(w.last - w.first) |-> w.first + i - 1]

(* Every base row an audit of op reads, in the order of B's rows. *)
BaseRowsRead(op, chunk) ==
  FlattenSeq([p \in 1..Len(PartitionSpecs(op)) |->
    LET part == PartitionSpecs(op)[p]
        windows == Windows(part.first, part.last, chunk)
    IN FlattenSeq([k \in 1..Len(windows) |-> WindowRows(part, windows[k])])])

(* Row r of B is added to the base row that run time calls r. *)
ReadsBase(op, chunk) ==
  BaseRowsRead(op, chunk) =
    IF op.layout = "grouped-qkv" THEN BaseOrder
    ELSE [i \in 1..op.shape[1] |-> i - 1]
=============================================================================
