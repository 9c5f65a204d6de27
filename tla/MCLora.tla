----------------------------- MODULE MCLora -----------------------------
(* A small transformer for LoraWorkflow: one block and one refiner block,  *)
(* five adapted modules of every kind, a base in two shards; of it two   *)
(* modules are the targets of the fold oracle.                            *)
EXTENDS LoraWorkflow, TLC

MCDims == [final |-> [rank |-> 1, in |-> 2, out |-> 4]]
  @@ ("adaln_proj.linear" :> [rank |-> 1, in |-> 2, out |-> 36])
  @@ ("attn.qkv_proj" :> [rank |-> 2, in |-> 3, out |-> 12])
  @@ ("attn.out_proj" :> [rank |-> 2, in |-> 3, out |-> 5])
  @@ ("mlp.fc1" :> [rank |-> 2, in |-> 3, out |-> 6])

MCModuleOrder ==
  <<<<"blocks", 0, "adaln_proj.linear">>, <<"blocks", 0, "attn.qkv_proj">>,
    <<"blocks", 0, "mlp.fc1">>, <<"final_layer", 0, "adaln_proj.linear">>,
    <<"token_refiner", 0, "attn.out_proj">>>>

MCLayout == [groups |-> 2, heads |-> 1, dim |-> 2]

(* T and C are accepted; in X two modules have exchanged their shapes. *)
Tensors(profile, modules) ==
  FlattenSeq([k \in 1..Len(modules) |->
    [i \in 1..2 |-> [prefixed |-> TRUE, module |-> modules[k], side |-> <<"A", "B">>[i],
                     dtype |-> "BF16",
                     shape |-> LoraShape(profile, modules[k], <<"A", "B">>[i])]]])
SourceHeader(profile, tensors) == [meta |-> [of |-> profile, by |-> "source"], tensors |-> tensors]
MCAdapters ==
  [T |-> SourceHeader("turbo", Tensors("turbo", MCModuleOrder)),
   C |-> SourceHeader("combat", Tensors("combat", SelectSeq(MCModuleOrder, LAMBDA m : ~IsAdaln(m)))),
   X |-> SourceHeader("turbo", [k \in 1..10 |->
           [Tensors("turbo", MCModuleOrder)[k] EXCEPT !.module = IF k = 2 THEN MCModuleOrder[3] ELSE @]])]

Data(id, as, body) == [head |-> [id |-> id, as |-> as], body |-> body]
MCNoData == Data("none", "source", "none")
MCNormal == Data("T", "turbo", "v1")

MCPlans == {"pa", "pb", "pc"}
MCCandidates == [temp1 |-> <<"t11", "t12">>, temp2 |-> <<"t21", "t22">>]
MCPaths ==
  {"raw", "norm", "b1", "b2", "ref", "receipt", "t11", "t12", "t21", "t22"} \cup MCPlans
MCOracleInputs == <<"b1", "b2", "norm">>
MCReference == Data("ref", "source", "pinned")
MCShards == <<"b1", "b2">>
MCWeightMap == [m \in AllModules |-> IF m[1] = "blocks" THEN "b1" ELSE "b2"]
MCOfficialHeads == [s \in {"b1", "b2"} |-> [id |-> s, as |-> "source"]]

Start(raw, norm) ==
  [p \in MCPaths |->
     CASE p = "raw" -> raw
       [] p = "norm" -> norm
       [] p \in {"b1", "b2"} -> Data(p, "source", "w1")
       [] p = "ref" -> MCReference
       [] p \in MCPlans -> Data("plan", "source", p)
       [] OTHER -> MCNoData]
MCStarts == {Start(Data("T", "source", "v1"), MCNoData), Start(Data("C", "source", "v1"), MCNoData),
             Start(Data("T", "source", "v1"), MCNormal)}
MCOtherRows == [i \in 1..12 |-> <<<<"w1", i>>, <<"v2", i>>, "candidate">>]
MCEditData ==
  [raw |-> {Data("T", "source", "v2"), Data("C", "source", "v1"), Data("X", "source", "v1"),
            Data("T", "source", "short"), MCNoData},
   norm |-> {MCNormal, Data("T", "turbo", "v2"), Data("T", "turbo", "nan"),
             Data("T", "turbo", "short"), Data("C", "combat", "v1"), MCNoData},
   b1 |-> {Data("b1", "source", "w2"), Data("b1", "source", "short"), Data("x", "source", "w1")},
   ref |-> {Data("ref", "source", "pinned"), Data("ref", "source", "other")},
   pa |-> {Data("plan", "source", "pb"), Data("plan", "source", "half")},
   t11 |-> {[head |-> [id |-> "t", as |-> "oracle"], rows |-> MCOtherRows], MCNoData}]

(* Base payload w2 loses the residual of the K rows and of the output      *)
(* projection to the cast; a non-finite adapter counts as such.            *)
Exact == [elements |-> 8, nonzero |-> 8, survived |-> 8, delta |-> 4, effective |-> 4,
          error |-> 0, dot |-> 16, nonfinite |-> 0, flips |-> 0]
Lost == [Exact EXCEPT !.survived = 6, !.error = 1, !.effective = 3, !.dot = 12]
MCPartitions ==
  UNION {{PartitionSpecs(op)[k].name : k \in 1..Len(PartitionSpecs(op))} :
           op \in {BakeOperation(m, "b1") : m \in AllModules}}
MCSums ==
  [bodies \in {"w1", "w2"} \X {"v1", "v2", "nan"} |-> [part \in MCPartitions |->
     IF bodies[2] = "nan" THEN [Exact EXCEPT !.nonfinite = 8, !.nonzero = 0, !.delta = 0]
     ELSE IF bodies[1] = "w2" /\ part \in {"k", "all"} THEN Lost ELSE Exact]]
Strict == [survival |-> 99, error |-> 1, cosine |-> 99, low |-> 99, high |-> 101, nonfinite |-> 0]
Lax == [survival |-> 50, error |-> 50, cosine |-> 50, low |-> 50, high |-> 150, nonfinite |-> 0]

(* Plans of the start, of a non-finite adapter, of one the folds round     *)
(* differently on; and of another target dtype.                            *)
PlanOn(target, body) ==
  [target |-> target, shards |-> <<Data("b1", "source", "w1"), Data("b2", "source", "w1")>>,
   lora |-> Data("T", "turbo", body), operations |-> Operations(MCWeightMap)]
MCPlanText ==
  [pa |-> PlanOn("BF16", "v1"), pb |-> PlanOn("BF16", "nan"), pc |-> PlanOn("BF16", "v2"),
   half |-> PlanOn("FP16", "v1")]
MCMicroTargets ==
  <<[index |-> 2, module |-> MCModuleOrder[2]], [index |-> 5, module |-> MCModuleOrder[5]]>>
MCParity == {<<"w1", "v1">>, <<"w1", "nan">>}

CONSTANTS o1, o2, o3, n1, n2, s1, s2, s3, p1, p2, w1, w2, a1
MCTempOf == [o \in {o1, o2, o3} |-> IF o = o3 THEN "temp2" ELSE "temp1"]
MCMultiplier == [p \in {p1, p2} |-> IF p = p1 THEN 1 ELSE 2]
MCTerms == {[thresholds |-> Strict, device |-> "cpu"], [thresholds |-> Lax, device |-> "cpu"],
            [thresholds |-> Strict, device |-> "gpu"]}
MCExpected == [s \in {s1, s2, s3} |-> IF s = s3 THEN Data("T", "turbo", "v2") ELSE MCNormal]
MCCasts ==
  {{n1, n2, "raw"}, {n1, s1, "raw"}, {s1, "norm", "host"}, {s2, "norm"}, {s3, "norm"}, {s1, s2},
   {p1, w1, w2, a1, "b1", "norm"}, {p1, p2, w1, w2, a1}, {o1, o2}, {o1, o3, "norm"},
   {o1, "b1", "norm", "ref", "pa", "t11", "temp1", "evidence"}}
MCSymmetry == Permutations({n1, n2}) \cup Permutations({w1, w2})
=============================================================================
