------------------------ MODULE MCContractStore ------------------------
(* Small checkpoints for ContractStore: an INT8 ConvRot transformer with   *)
(* two QKV matrices (A), the same with one tensor retyped (A2), with one   *)
(* marker's group size changed, which no schema shows (A3), and with other *)
(* weights only (A4), a text encoder (T, T2), a dense transformer in two   *)
(* shards (D1, D2) and a shard whose only marker cannot be parsed (B);     *)
(* junk is no checkpoint.                                                  *)
EXTENDS ContractStore

MCLayout == [groups |-> 2, heads |-> 2, dim |-> 1]
MCQkvPrefixes == {"q", "r"}

Tensor(dtype, shape) == [dtype |-> dtype, shape |-> shape]
Mark(size) == [readable |-> TRUE, exact |-> TRUE, format |-> "int8_tensorwise",
               convrot |-> TRUE, size |-> size]
Triple(p, rows, columns) ==
  (<<p, "weight">> :> Tensor("I8", <<rows, columns>>))
    @@ (<<p, "weight_scale">> :> Tensor("F32", <<rows, 1>>))
    @@ (<<p, "comfy_quant">> :> Tensor("U8", <<9>>))

Transformer(dtype, size) ==
  [tensors |-> Triple("q", 8, 2) @@ Triple("w", 2, 2)
                 @@ (<<"r", "weight">> :> Tensor("BF16", <<8, 1>>))
                 @@ (<<"n", "weight">> :> Tensor(dtype, <<2>>)),
   marks |-> ("q" :> Mark(2)) @@ ("w" :> Mark(size))]

TextEncoder(rows) ==
  [tensors |-> Triple("w", 2, 2) @@ (<<"n", "weight">> :> Tensor("F32", <<rows>>)),
   marks |-> ("w" :> Mark(2))]

Dense(p) == [tensors |-> <<p, "weight">> :> Tensor("BF16", <<2>>), marks |-> <<>>]

Broken ==
  [tensors |-> <<"n", "weight">> :> Tensor("BF16", <<2>>) @@ Triple("w", 2, 2),
   marks |-> "w" :> Garbled]

MCContent ==
  [A |-> Transformer("F32", 2), A2 |-> Transformer("BF16", 2), A3 |-> Transformer("F32", 1),
   A4 |-> Transformer("F32", 2),
   T |-> TextEncoder(2), T2 |-> TextEncoder(3),
   D1 |-> Dense("n"), D2 |-> Dense("r"), B |-> Broken]

TableOf(c) == GroupTable(c)
MCTemplates ==
  LET a == Transformer("F32", 2)
      t == TextEncoder(2)
      d == Dense("n").tensors @@ Dense("r").tensors
      none == [x \in {} |-> 0]
  IN {[name |-> "hybrid", component |-> "transformer", table |-> TableOf(a),
       scales |-> ScaleCensus(a), curve |-> {"w"}, inventory |-> none],
      [name |-> "encoder", component |-> "text_encoder", table |-> TableOf(t),
       scales |-> ScaleCensus(t), curve |-> {}, inventory |-> none],
      [name |-> "dense", component |-> "transformer", table |-> none,
       scales |-> none, curve |-> {}, inventory |-> d]}

MCKnown ==
  [int8 |-> [component |-> "transformer", tensors |-> 8, groups |-> 2,
             schema |-> Schema(Transformer("F32", 2)), adaln |-> TRUE, adalnSize |-> 2,
             storage |-> "int8-convrot", template |-> "hybrid"],
   te |-> [component |-> "text_encoder", tensors |-> 4, groups |-> 1, schema |-> NoSchema,
           adaln |-> FALSE, adalnSize |-> 0, storage |-> "int8-convrot", template |-> "encoder"]]

(* sorted(tensors): by prefix, then comfy_quant, weight, weight_scale. *)
MCTensorOrder ==
  <<<<"n", "weight">>, <<"q", "comfy_quant">>, <<"q", "weight">>, <<"q", "weight_scale">>,
    <<"r", "weight">>, <<"w", "comfy_quant">>, <<"w", "weight">>, <<"w", "weight_scale">>>>

MCPaths == {"raw", "dst", "rcp", "src", "s1", "s2"}
MCScanInputs ==
  {[paths |-> <<"src">>, dir |-> {}, index |-> <<>>],
   [paths |-> <<"dst">>, dir |-> {}, index |-> <<>>],
   [paths |-> <<"s1", "s2">>, dir |-> {"s1", "s2", "dst"},
    index |-> (<<"n", "weight">> :> "s1") @@ (<<"r", "weight">> :> "s2")]}

MCStarts ==
  {[raw |-> "R", dst |-> "none", rcp |-> "none", src |-> data, s1 |-> "D1", s2 |-> "D2"] :
     data \in {"A", "T"}}
MCEditData ==
  [raw |-> {"R", "A"}, src |-> {"A", "A2", "A3", "A4", "T2"}, s1 |-> {"B", "junk"}, s2 |-> {"D2", "none"}]

(* Who runs together: two normalizations over a source that changes, or   *)
(* under a draft; two pins, a sharded draft, or an export, over sources    *)
(* that change.                                                            *)
CONSTANTS n1, n2, k1, k2, k3
MCCasts ==
  {{n1, n2, "raw"}, {n1, n2, "draft"}, {"draft", k3, "src"}, {"draft", k3, "s1", "s2"},
   {k1, k2, "e1", "src"}}
MCSymmetry == Permutations({n1, n2}) \cup Permutations({k1, k2})
=============================================================================
