----------------------------- MODULE LoraFold -----------------------------
(* TurboV4ComfyLoraBake: sessions of one process that fold a normalized    *)
(* adapter into decoded weights, module by module, from a descriptor held  *)
(* open, under a matmul precision that belongs to the whole process. Calls *)
(* of a process do not overlap; another process may change the adapter     *)
(* between any two reads. A call that is refused before it reads changes   *)
(* nothing and is not an action.                                           *)
EXTENDS LoraAdapter, HeldFiles

CONSTANTS
  Sessions,
  Expected,      \* the digest each session is given
  UsesCache,     \* sessions opened with use_adaln_cache
  ChunkRows,     \* rows per window of B
  NoModule

ASSUME LoraFoldAssumption ==
  NormalPath \in Paths /\ NoModule \notin AllModules /\ Backbone # {}

VARIABLES precision, session

foldVars == <<precision, session>>

Moves(s, phase) == session' = [session EXCEPT ![s].phase = phase]
Target(s) == IF s \in UsesCache THEN Backbone ELSE AllModules

(* One call at a time in a process. *)
NobodyInside == \A t \in Sessions : session[t].phase # "opening" /\ session[t].module = NoModule

(* Saves and raises the precision, then opens the reader: stat and path. *)
FoldOpen(s) ==
  /\ session[s].phase = "idle" /\ NobodyInside
  /\ IF Exists(NormalPath)
     THEN /\ session' = [session EXCEPT ![s].phase = "opening", ![s].held = file[NormalPath],
                                        ![s].saved = precision]
          /\ precision' = "highest"
     ELSE Moves(s, "refused") /\ UNCHANGED precision
  /\ UNCHANGED <<file, clock>>

(* Header and digest through the descriptor; a failure restores. *)
FoldBind(s) ==
  LET read == HeldData(NormalPath, session[s].held)
  IN /\ session[s].phase = "opening"
     /\ IF /\ IsAdapter(read) /\ NormalizedAccepted("turbo", HeaderOf(read.head))
           /\ read = Expected[s]
        THEN Moves(s, "open") /\ UNCHANGED precision
        ELSE Moves(s, "refused") /\ precision' = session[s].saved
     /\ UNCHANGED <<file, clock>>

(* The mutant of PrecisionHeld: the constructor has set it. *)
PrecisionAssumed == TRUE

PrecisionHeld == precision = "highest"

(* __call__: the guards, then the reads of A; until the last window the    *)
(* session is poisoned, and stays so when anything raises.                 *)
FoldCall(s) ==
  LET read == HeldData(NormalPath, session[s].held)
  IN /\ session[s].phase = "open" /\ NobodyInside
     /\ \E m \in Target(s) :
          /\ session[s].folds[m] = 0
          /\ IF PrecisionHeld /\ read.body \notin Truncated \cup NonFinite
             THEN session' = [session EXCEPT ![s].module = m, ![s].row = 0,
                                ![s].reads = @ \cup {read}, ![s].exact = @ /\ precision = "highest"]
             ELSE Moves(s, "poisoned")
     /\ UNCHANGED <<file, clock, precision>>

(* The next rows of B, added to the decoded weight and cast once. *)
FoldRows(s) ==
  LET m == session[s].module
      read == HeldData(NormalPath, session[s].held)
      next == session[s].row + ChunkRows
  IN /\ m # NoModule
     /\ session' = [session EXCEPT
          ![s].phase = IF read.body \in Truncated \cup NonFinite THEN "poisoned" ELSE @,
          ![s].module = IF read.body \in Truncated \cup NonFinite \/ next >= Dim(m).out
                        THEN NoModule ELSE @,
          ![s].row = next,
          ![s].reads = @ \cup {read},
          ![s].folds = IF read.body \notin Truncated \cup NonFinite /\ next >= Dim(m).out
                       THEN [@ EXCEPT ![m] = @ + 1] ELSE @]
     /\ UNCHANGED <<file, clock, precision>>

(* The decoded base a caller hands over is not finite. *)
FoldBadBase(s) ==
  /\ session[s].module # NoModule
  /\ session' = [session EXCEPT ![s].phase = "poisoned", ![s].module = NoModule]
  /\ UNCHANGED <<file, clock, precision>>

(* verify_unchanged: descriptor and path still the file that was bound,    *)
(* and its digest once more.                                               *)
VerifyUnchanged(s) ==
  /\ file[NormalPath].inode = session[s].held.inode
  /\ file[NormalPath].stamp = session[s].held.stamp
  /\ file[NormalPath].data = Expected[s]

FoldReport(s) ==
  /\ session[s].phase = "open" /\ NobodyInside
  /\ ~session[s].reported
  /\ \A m \in Target(s) : session[s].folds[m] # 0
  /\ VerifyUnchanged(s)
  /\ session' = [session EXCEPT ![s].reported = TRUE]
  /\ UNCHANGED <<file, clock, precision>>

(* close, also from __exit__ after an error: the saved precision returns. *)
FoldClose(s) ==
  /\ session[s].phase \in {"open", "poisoned"} /\ NobodyInside
  /\ Moves(s, "closed")
  /\ precision' = session[s].saved
  /\ UNCHANGED <<file, clock>>

FoldInit ==
  /\ precision = "medium"
  /\ session = [s \in Sessions |->
       [phase |-> "idle", held |-> Absent, saved |-> "medium", module |-> NoModule, row |-> 0,
        reads |-> {}, folds |-> [m \in AllModules |-> 0], exact |-> TRUE, reported |-> FALSE]]

FoldStep(s) ==
  \/ FoldOpen(s) \/ FoldBind(s) \/ FoldCall(s) \/ FoldRows(s) \/ FoldBadBase(s)
  \/ FoldReport(s) \/ FoldClose(s)

(* A report stands for one complete fold: every target module once, none   *)
(* else, every A and every window of B read from the content the digest    *)
(* names, at the highest precision, whatever happened to the file, to      *)
(* other sessions and to the process between the calls.                    *)
ReportIsWholeFold ==
  \A s \in Sessions : session[s].reported =>
    /\ \A m \in AllModules : session[s].folds[m] = IF m \in Target(s) THEN 1 ELSE 0
    /\ session[s].reads = {Expected[s]}
    /\ session[s].exact
=============================================================================
