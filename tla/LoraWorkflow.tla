--------------------------- MODULE LoraWorkflow ---------------------------
(* The LoRA commands over one set of files: an adapter is normalized, the *)
(* normalized file is folded by sessions of a conversion process, planned  *)
(* against a base and audited by workers, while other processes rewrite,   *)
(* replace or remove what is being read and other code of the conversion   *)
(* process lowers its matmul precision between two calls.                  *)
EXTENDS LoraNormalize, LoraFold, BakeAudit, FoldOracle

CONSTANTS
  Starts,      \* contents of the paths at first
  EditData,    \* contents another process may give a path
  MaxEdits,
  Casts        \* the commands, and the paths others write, that run together

(* The directories of the oracle hold neither an adapter nor a shard, and  *)
(* the source path only ever has an adapter.                               *)
ASSUME LoraWorkflowAssumption ==
  /\ \A d \in DOMAIN Inside :
       Inside[d] \cap ({SourcePath, NormalPath} \cup Range(Inputs) \cup Range(OracleInputs)) = {}
  /\ \A start \in Starts : start[SourcePath] = NoData \/ IsAdapter(start[SourcePath])
  /\ \A data \in EditData[SourcePath] : data = NoData \/ IsAdapter(data)

VARIABLES edits, cast

loraVars == <<file, clock, edits, cast, conv, precision, session, planner, worker, verdict, oracle, dirs>>

EditFile(p) ==
  /\ p \in cast /\ edits < MaxEdits
  /\ \E data \in EditData[p] \ {file[p].data}, inode \in {file[p].inode, clock + 1} :
       file' = [file EXCEPT ![p] =
                  IF data = NoData THEN Absent
                  ELSE [inode |-> IF Exists(p) THEN inode ELSE clock + 1, stamp |-> clock + 1,
                        data |-> data]]
  /\ clock' = clock + 1
  /\ edits' = edits + 1
  /\ UNCHANGED <<cast, conv, precision, session, planner, worker, verdict, oracle, dirs>>

(* set_float32_matmul_precision by other code, between two calls. *)
HostPrecision ==
  /\ "host" \in cast /\ edits < MaxEdits
  /\ NobodyInside /\ precision = "highest"
  /\ precision' = "medium"
  /\ edits' = edits + 1
  /\ UNCHANGED <<file, clock, cast, conv, session, planner, worker, verdict, oracle, dirs>>

(* Another process puts a fresh directory in place of one; a removed       *)
(* directory's inode number may return once no run holds it open.          *)
ReplaceDirectory(d) ==
  /\ d \in cast /\ edits < MaxEdits
  /\ \E inode \in {dirs[d].inode, clock + 1} :
       /\ inode = dirs[d].inode => \A o \in Oracles :
            oracle[o].phase \notin {"staged", "linked", "receipted", "signed"}
       /\ dirs' = [dirs EXCEPT ![d] = [inode |-> inode, used |-> FALSE]]
  /\ file' = [p \in Paths |-> IF p \in Inside[d] THEN Absent ELSE file[p]]
  /\ clock' = clock + 1
  /\ edits' = edits + 1
  /\ UNCHANGED <<cast, conv, precision, session, planner, worker, verdict, oracle>>

LoraInit ==
  /\ cast \in Casts /\ edits = 0 /\ clock = 10
  /\ \E start \in Starts :
       file = [p \in Paths |-> IF start[p] = NoData THEN Absent
                               ELSE [inode |-> 1, stamp |-> 1, data |-> start[p]]]
  /\ ConvInit /\ FoldInit /\ AuditInit /\ OracleInit

LoraNext ==
  \/ \E n \in Converters \cap cast :
       ConvStep(n) /\ UNCHANGED <<edits, cast, precision, session, planner, worker, verdict, oracle, dirs>>
  \/ \E s \in Sessions \cap cast :
       FoldStep(s) /\ UNCHANGED <<edits, cast, conv, planner, worker, verdict, oracle, dirs>>
  \/ \E p \in Planners \cap cast :
       PlanStep(p) /\ UNCHANGED <<edits, cast, conv, precision, session, oracle, dirs>>
  \/ \E w \in Workers \cap cast :
       AuditStep(w) /\ UNCHANGED <<edits, cast, conv, precision, session, oracle, dirs>>
  \/ \E a \in Aggregators \cap cast :
       Aggregate(a) /\ UNCHANGED <<edits, cast, conv, precision, session, oracle, dirs>>
  \/ \E o \in Oracles \cap cast :
       OracleStep(o) /\ UNCHANGED <<edits, cast, conv, precision, session, planner, worker, verdict>>
  \/ \E p \in Paths : EditFile(p)
  \/ \E d \in DOMAIN Inside : ReplaceDirectory(d)
  \/ HostPrecision

LoraSpec == LoraInit /\ [][LoraNext]_loraVars
=============================================================================
