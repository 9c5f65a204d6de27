------------------------ MODULE CheckpointCensus ------------------------
(* What the contract workflow concludes from the tensors of one            *)
(* checkpoint: storage kind, ConvRot groups, the template it matches, the  *)
(* contract a draft proposes for it, and what a pin and the loading of a   *)
(* snapshot accept (comfy_omni.conversion.contract_workflows and           *)
(* comfy_omni.artifacts.snapshot_schema). Pure operators, no state.        *)
(*                                                                         *)
(* A checkpoint is [tensors, marks]: tensors maps a name <<prefix, part>>  *)
(* to its dtype and shape, marks maps the prefix of every comfy_quant      *)
(* marker to what its payload says. A schema digest is the set of pairs it *)
(* is computed from; no enforced schema is the empty set.                  *)
EXTENDS Integers, Sequences, FiniteSets

CONSTANTS
  Templates,     \* architecture templates: [name, component, table, scales, curve, inventory]
  Known,         \* compile-time contracts by name
  DefaultSize    \* ConvRot group size where a marker declares none

NoSchema == {}
NoContract == "none"

(* The registry finds a template by its name; no contract is no name. *)
ASSUME CensusAssumption ==
  /\ \A s, t \in Templates : s.name = t.name => s = t
  /\ NoContract \notin DOMAIN Known

PrefixesOf(c, part) == {n[1] : n \in {m \in DOMAIN c.tensors : m[2] = part}}
Marked(c) == PrefixesOf(c, "comfy_quant")
Triplet(p) == {<<p, "weight">>, <<p, "weight_scale">>, <<p, "comfy_quant">>}

(* A payload the lenient pre-read cannot use leaves the default in force. *)
DeclaredSize(c, p) == IF c.marks[p].readable THEN c.marks[p].size ELSE DefaultSize

ConvRotMark(mark) == mark.format = "int8_tensorwise" /\ mark.convrot

Unsupported(c) ==
  /\ \A p \in Marked(c) : c.marks[p].readable
  /\ \E p \in Marked(c) : ~ConvRotMark(c.marks[p])

(* The strict decoder: exact keys, format, flag and the expected size. *)
ParsesAs(mark, size) == mark.readable /\ mark.exact /\ ConvRotMark(mark) /\ mark.size = size

(* A group size of 0 fails the division itself: no draft comes of it. *)
TripletOK(c, p, size) ==
  /\ Triplet(p) \subseteq DOMAIN c.tensors
  /\ LET weight == c.tensors[<<p, "weight">>]
         scale == c.tensors[<<p, "weight_scale">>]
         marker == c.tensors[<<p, "comfy_quant">>]
     IN /\ marker.dtype = "U8" /\ Len(marker.shape) = 1
        /\ weight.dtype = "I8" /\ Len(weight.shape) = 2
        /\ weight.shape[1] > 0 /\ weight.shape[2] > 0
        /\ size # 0 /\ weight.shape[2] % size = 0
        /\ scale.dtype = "F32" /\ scale.shape = <<weight.shape[1], 1>>

(* INT8 matrices, and scales beside one, that no triplet claims. *)
Orphans(c) ==
  LET quantized == {p \in PrefixesOf(c, "weight") :
                      c.tensors[<<p, "weight">>].dtype = "I8"}
  IN {p \in quantized \ Marked(c) :
        Len(c.tensors[<<p, "weight">>].shape) = 2 \/ <<p, "weight_scale">> \in DOMAIN c.tensors}

MarkerFree(c) ==
  \A n \in DOMAIN c.tensors : n[2] # "weight_scale" /\ c.tensors[n].dtype # "I8"

GroupsAs(c, sizes) ==
  /\ \A p \in Marked(c) : TripletOK(c, p, sizes[p]) /\ ParsesAs(c.marks[p], sizes[p])
  /\ Orphans(c) = {}

Storage(c) ==
  CASE Marked(c) = {} /\ MarkerFree(c) -> "bf16-plain"
    [] /\ Marked(c) # {} /\ ~Unsupported(c)
       /\ GroupsAs(c, [p \in Marked(c) |-> DeclaredSize(c, p)]) -> "int8-convrot"
    [] OTHER -> "refused"

Observable(c) == DOMAIN c.tensors # {} /\ Storage(c) # "refused"

GroupTable(c) ==
  [p \in Marked(c) |-> [shape |-> c.tensors[<<p, "weight">>].shape, size |-> DeclaredSize(c, p)]]

ScaleCensus(c) ==
  LET shape(p) == c.tensors[<<p, "weight_scale">>].shape
  IN [s \in {shape(p) : p \in Marked(c)} |-> Cardinality({p \in Marked(c) : shape(p) = s})]

Unquantized(c) ==
  [n \in DOMAIN c.tensors \ UNION {Triplet(p) : p \in Marked(c)} |-> c.tensors[n]]

Schema(c) == {<<n, c.tensors[n]>> : n \in DOMAIN c.tensors}
-----------------------------------------------------------------------------
(* Matching and drafting *)

Level3(c, t) ==
  /\ GroupTable(c) = t.table
  /\ ScaleCensus(c) = t.scales
  /\ DOMAIN t.inventory = {} \/ Unquantized(c) = t.inventory

(* Only templates with as many groups are compared item by item. *)
Screened(c) == {t \in Templates : Cardinality(DOMAIN t.table) = Cardinality(Marked(c))}
Matching(c) == {t \in Screened(c) : Level3(c, t)}

AdalnSizes(c, t) == {DeclaredSize(c, p) : p \in t.curve \cap Marked(c)}
AdalnSize(c, t) == IF t.curve = {} THEN 0 ELSE CHOOSE s \in AdalnSizes(c, t) : TRUE

Candidate(c, t) ==
  [component |-> t.component, tensors |-> Cardinality(DOMAIN c.tensors),
   groups |-> Cardinality(Marked(c)), schema |-> Schema(c), adaln |-> t.curve # {},
   adalnSize |-> AdalnSize(c, t), storage |-> Storage(c), template |-> t.name]

Structure(x) == <<x.component, x.tensors, x.groups, x.adaln, x.adalnSize>>
KnownFor(t) == {k \in DOMAIN Known : Known[k].template = t.name}
Nearest(t) == IF KnownFor(t) = {} THEN NoContract ELSE CHOOSE k \in KnownFor(t) : TRUE

(* A dense checkpoint may do without a known contract: its template lists *)
(* every tensor.                                                          *)
DenseException(c, t) ==
  /\ KnownFor(t) = {} /\ Storage(c) = "bf16-plain"
  /\ DOMAIN t.table = {} /\ DOMAIN t.inventory # {}

AgreesWith(c, t, k) ==
  /\ Structure(Candidate(c, t)) = Structure(Known[k])
  /\ Known[k].schema \in {NoSchema, Schema(c)}

DraftsAs(c, t) ==
  /\ Matching(c) = {t}
  /\ t.curve = {} \/ Cardinality(AdalnSizes(c, t)) = 1
  /\ \/ DenseException(c, t)
     \/ \E k \in DOMAIN Known : KnownFor(t) = {k} /\ AgreesWith(c, t, k)

Draftable(c) == Observable(c) /\ \E t \in Templates : DraftsAs(c, t)
-----------------------------------------------------------------------------
(* Pinning a candidate and loading the snapshot of it *)

TemplateOf(x) == CHOOSE t \in Templates : t.name = x.template

(* Storage kind, group count and AdaLN flags against the template tables. *)
StorageCoheres(x) ==
  LET t == TemplateOf(x)
  IN \/ x.storage = "int8-convrot" /\ x.groups > 0 /\ DOMAIN t.table # {}
     \/ /\ x.storage = "bf16-plain" /\ x.groups = 0 /\ DOMAIN t.table = {}
        /\ ~x.adaln /\ x.adalnSize = 0 /\ DOMAIN t.inventory # {}

Pinnable(x) ==
  /\ x.component \in {"transformer", "text_encoder"} /\ x.tensors > 0
  /\ \E t \in Templates : t.name = x.template
  /\ x.groups = Cardinality(DOMAIN TemplateOf(x).table)
  /\ StorageCoheres(x)

(* The mutant of Decisions: the flag decides, an enforced pin is not inherited. *)
DecisionsByFlag(x, nearest, enforce) ==
  LET unpinned == IF enforce THEN {"observed-frozen"} ELSE {"census-only"}
  IN IF nearest = NoContract
     THEN IF x.storage = "bf16-plain" THEN unpinned ELSE {}
     ELSE IF nearest \notin DOMAIN Known \/ Structure(Known[nearest]) # Structure(x) THEN {}
     ELSE unpinned

(* The decisions a pin may record: none where it is refused. *)
Decisions(x, nearest, enforce) ==
  LET unpinned == IF enforce THEN {"observed-frozen"} ELSE {"census-only"}
  IN IF nearest = NoContract
     THEN IF x.storage = "bf16-plain" THEN unpinned ELSE {}
     ELSE IF nearest \notin DOMAIN Known \/ Structure(Known[nearest]) # Structure(x) THEN {}
     ELSE IF Known[nearest].schema = NoSchema THEN unpinned
     ELSE IF Known[nearest].schema = x.schema THEN {"inherited-enforced-pin"} ELSE {}

(* The contract block of the snapshot of candidate x. *)
ContractBlock(x, decision) ==
  [x EXCEPT !.schema = IF decision = "census-only" THEN NoSchema ELSE x.schema]

Loads(block, decision) ==
  /\ Pinnable(block)
  /\ (decision = "census-only") <=> (block.schema = NoSchema)
=============================================================================
