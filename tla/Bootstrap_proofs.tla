--------------------------- MODULE Bootstrap_proofs ---------------------------
(***************************************************************************)
(* Proofs about the registration coordinator: its invariants hold for any  *)
(* number of imports, calls of register(), finders, unloads and forks.     *)
(*                                                                         *)
(* The argument is a token's.  A waiting API phase is one token, and at    *)
(* each moment exactly one place has it: a call of after_import that has   *)
(* not decided yet, the registered finder, or the actor about to run the   *)
(* callback.  The token passes on only in steps that retire the finder it  *)
(* was in, and what keeps a stale complete() from retiring the finder of a *)
(* later arming is that a finder is only installed while no module is      *)
(* ready: whoever still works for an older finder then works for a module  *)
(* that is not the resident one.                                           *)
(***************************************************************************)
EXTENDS Bootstrap, TLAPS

(* The labels of an import that holds importlib's lock.                    *)
Loading == {"found", "body", "complete", "call", "failed", "executed", "popped", "finally"}

(* An import's labels, its module's two flags, and whose turn it is; the   *)
(* finder that wraps a loader stays registered until that loader's         *)
(* exec_module completes it.                                               *)
ImportOK(i) ==
  /\ at[i] \in {"idle", "gone", "done"} \cup Loading
  /\ at[i] \in {"idle", "found"} => body[i] = "none" /\ ~initializing[i]
  /\ at[i] = "body" => body[i] = "running"
  /\ at[i] \in {"complete", "call", "executed", "popped"} => body[i] = "finished"
  /\ at[i] = "finally" => body[i] = "finished" \/ resident # i
  /\ at[i] \in Loading => importing = i /\ resident \in {NoModule, i}
  /\ at[i] \in Loading \ {"found"} => initializing[i]
  /\ at[i] \in {"found", "body"} => loader[i] \in {NoFinder, registry}
  /\ at[i] = "complete" => task[i].mod = i /\ task[i].finder = registry /\ registry # NoFinder

ImportsOK == \A i \in Importers : ImportOK(i)

(* A module in sys.modules is initializing or has finished its body.       *)
ResidentOK == resident # NoModule => initializing[resident] \/ body[resident] = "finished"

(* Who delivers for a module has seen it finished, and ready unless it is  *)
(* the import itself.                                                      *)
SeenOK(x) ==
  /\ at[x] \in {"complete", "fire", "call"} =>
       task[x].mod \in Importers /\ body[task[x].mod] = "finished"
  /\ at[x] \in {"complete", "fire"} /\ x \notin Importers => ~initializing[task[x].mod]

(* Who completes a finder for the resident module completes the registered *)
(* finder, if there is one.                                                *)
AimedOK(x) ==
  at[x] = "complete" =>
    task[x].finder \in Finders /\ (resident = task[x].mod => registry \in {NoFinder, task[x].finder})

ActorsOK == \A x \in Actors : SeenOK(x) /\ AimedOK(x)

(* A call of register(): where it is in after_import, and the two locks.   *)
(* Between its two checks a finder may be installed, for nobody is         *)
(* completing one for the module that is resident.                         *)
CallerOK(c) ==
  /\ at[c] \in {"install", "recheck"} => lock = c
  /\ at[c] = "install" /\ registry = NoFinder =>
       \A x \in Actors : at[x] = "complete" => task[x].mod # resident
  /\ at[c] = "recheck" => registry = task[c].finder /\ registry # NoFinder
  /\ phase[c] \in {"idle", "runtime", "arm"} => at[c] = "idle"
  /\ phase[c] \in {"runtime", "arm", "armed"} => registration_lock = c
  /\ at[c] \in {"check", "install", "recheck", "complete", "fire", "call"} => phase[c] = "armed"
  /\ phase[c] = "armed" /\ at[c] = "raised" => api_state = "new"

CallersOK == \A c \in Callers : CallerOK(c)

KindOK ==
  \A x \in Actors : at[x] \in {"check", "install", "recheck", "fire", "returned", "raised"} => x \in Callers

(* The registered finder is the one on sys.meta_path, and has the callback.*)
RegistryOK ==
  /\ meta_path = {registry} \ {NoFinder}
  /\ \A f \in Finders : callbacks[f] <=> f = registry

(* Who mounts holds the lock, in a root process.                           *)
MountOK ==
  /\ api_state = "registering" <=> mounting # NoOne
  /\ mounting # NoOne => registration_lock = mounting /\ at[mounting] = "call"
  /\ api_state # "new" => root

(* The token: a waiting phase has exactly one holder.                      *)
Holds(x) == (at[x] = "call" /\ mounting # x) \/ at[x] \in {"check", "install", "fire"}

TokenOK ==
  /\ \A x, y \in Actors : Holds(x) /\ Holds(y) => x = y
  /\ registry # NoFinder => \A x \in Actors : ~Holds(x)
  /\ api_state = "waiting" <=> registry # NoFinder \/ \E x \in Actors : Holds(x)

IInv ==
  /\ TypeOK /\ MountsFinishedModule
  /\ ImportsOK /\ ResidentOK /\ ActorsOK /\ CallersOK /\ KindOK
  /\ RegistryOK /\ MountOK /\ TokenOK

-----------------------------------------------------------------------------
(* Lemmas.                                                                 *)

LEMMA Distinct ==
  /\ \A i \in Importers : i \notin Callers /\ i \notin Finders /\ i # Unrelated /\ i # NoModule /\ i \in Actors
  /\ \A c \in Callers : c \notin Finders /\ c # Unrelated /\ c \in Actors
  /\ \A f \in Finders : f # Unrelated /\ f # NoFinder /\ f \in Actors
  /\ \A x \in Actors : x # NoOne
  /\ Unrelated \in Actors
BY DeferredImportAssumption DEF Actors

LEMMA GotoUpdate ==
  ASSUME TypeOK, NEW x \in Actors, NEW label \in Labels, Goto(x, label)
  PROVE  /\ at' \in [Actors -> Labels]
         /\ at'[x] = label /\ \A y \in Actors \ {x} : at'[y] = at[y]
BY DEF TypeOK, Goto

LEMMA TakeUpdate ==
  ASSUME TypeOK, NEW x \in Actors, NEW m \in Importers \cup {NoModule},
         NEW f \in Finders \cup {NoFinder}, Take(x, m, f)
  PROVE  /\ task' \in [Actors -> [mod : Importers \cup {NoModule}, finder : Finders \cup {NoFinder}]]
         /\ task'[x] = [mod |-> m, finder |-> f]
         /\ \A y \in Actors \ {x} : task'[y] = task[y]
BY DEF TypeOK, Take

LEMMA InitialState == Init => IInv
<1> SUFFICES ASSUME Init PROVE IInv
  OBVIOUS
<1> USE DeferredImportAssumption, Distinct DEF Init, DeferredInit, NoTask
<1>1. TypeOK
  BY DEF TypeOK, Labels, States
<1>2. MountsFinishedModule /\ ResidentOK /\ RegistryOK /\ MountOK
  BY DEF MountsFinishedModule, ResidentOK, RegistryOK, MountOK
<1>3. \A x \in Actors : at[x] \in {"idle", "unused"} /\ (x \in Importers \cup Callers => at[x] = "idle")
  OBVIOUS
<1>4. ImportsOK /\ ActorsOK /\ CallersOK /\ KindOK /\ TokenOK
  BY <1>3 DEF ImportsOK, ImportOK, Loading, ActorsOK, SeenOK, AimedOK, CallersOK, CallerOK, KindOK, TokenOK, Holds
<1>5. QED
  BY <1>1, <1>2, <1>4 DEF IInv

-----------------------------------------------------------------------------
(* Imports.  A step of importlib leaves the hook and the coordinator as    *)
(* they are, and the import in no place where it has the token.            *)

LEMMA ImportFrame ==
  ASSUME IInv, UNCHANGED <<hookVars, coordVars, unloads, forks>>, NEW i \in Importers,
         at' \in [Actors -> Labels],
         at[i] \in {"idle"} \cup (Loading \ {"complete", "call"}),
         at'[i] \in {"done"} \cup (Loading \ {"call"}),
         \A y \in Actors \ {i} : at'[y] = at[y] /\ task'[y] = task[y]
  PROVE  KindOK' /\ RegistryOK' /\ MountOK' /\ TokenOK'
<1>1. UNCHANGED <<meta_path, registry, callbacks, api_state, mounting, root, registration_lock>>
  BY DEF hookVars, coordVars
<1>2. \A x \in Actors : Holds(x)' <=> Holds(x)
  BY <1>1, Distinct DEF Holds, Loading
<1>3. TokenOK'
  BY <1>1, <1>2 DEF IInv, TokenOK
<1>4. KindOK'
  BY DEF IInv, KindOK, Loading
<1>5. RegistryOK'
  BY <1>1 DEF IInv, RegistryOK
<1>6. MountOK'
  BY <1>1 DEF IInv, MountOK, TypeOK, Loading
<1>7. QED
  BY <1>3, <1>4, <1>5, <1>6

LEMMA ImportFindSpec ==
  ASSUME IInv, NEW i \in Importers, FindSpec(i), UNCHANGED coordVars
  PROVE  IInv'
<1>1. /\ UNCHANGED <<hookVars, coordVars, unloads, forks, resident, initializing, body, task>>
      /\ at[i] = "idle" /\ importing = NoOne /\ resident = NoModule /\ importing' = i
  BY DEF FindSpec
<1>2. at' \in [Actors -> Labels] /\ at'[i] = "found" /\ \A y \in Actors \ {i} : at'[y] = at[y]
  BY GotoUpdate, Distinct DEF IInv, FindSpec, Labels
<1>3. PICK f \in {NoFinder, registry} : loader' = [loader EXCEPT ![i] = f]
  BY DEF FindSpec, IInv, RegistryOK
<1>4. KindOK' /\ RegistryOK' /\ MountOK' /\ TokenOK'
  BY <1>1, <1>2, ImportFrame DEF Loading
<1>5. TypeOK'
  BY <1>1, <1>2, <1>3, Distinct DEF IInv, TypeOK, hookVars, coordVars
<1>6. ImportsOK'
  BY <1>1, <1>2, <1>3, Distinct DEF IInv, ImportsOK, ImportOK, Loading, hookVars, TypeOK
<1>7. ResidentOK' /\ MountsFinishedModule'
  BY <1>1 DEF IInv, ResidentOK, MountsFinishedModule, coordVars
<1>8. ActorsOK'
  BY <1>1, <1>2 DEF IInv, ActorsOK, SeenOK, AimedOK, hookVars
<1>9. CallersOK'
  BY <1>1, <1>2, Distinct DEF IInv, CallersOK, CallerOK, hookVars, coordVars
<1>10. QED
  BY <1>4, <1>5, <1>6, <1>7, <1>8, <1>9 DEF IInv
LEMMA ImportInsert ==
  ASSUME IInv, NEW i \in Importers, Insert(i), UNCHANGED coordVars
  PROVE  IInv'
<1>1. /\ UNCHANGED <<hookVars, coordVars, unloads, forks, task, loader, importing>>
      /\ at[i] = "found" /\ resident' = i
      /\ initializing' = [initializing EXCEPT ![i] = TRUE]
      /\ body' = [body EXCEPT ![i] = "running"]
  BY DEF Insert
<1>2. at' \in [Actors -> Labels] /\ at'[i] = "body" /\ \A y \in Actors \ {i} : at'[y] = at[y]
  BY GotoUpdate, Distinct DEF IInv, Insert, Labels
<1>3. ImportOK(i) /\ importing = i /\ resident \in {NoModule, i}
  BY <1>1 DEF IInv, ImportsOK, ImportOK, Loading
<1>4. KindOK' /\ RegistryOK' /\ MountOK' /\ TokenOK'
  BY <1>1, <1>2, ImportFrame DEF Loading
<1>5. TypeOK'
  BY <1>1, <1>2, Distinct DEF IInv, TypeOK, hookVars, coordVars
<1>6. ImportsOK'
  BY <1>1, <1>2, <1>3, Distinct DEF IInv, ImportsOK, ImportOK, Loading, hookVars, TypeOK
<1>7. ResidentOK' /\ MountsFinishedModule'
  BY <1>1, <1>3 DEF IInv, ResidentOK, MountsFinishedModule, ImportOK, TypeOK, coordVars
<1>8. ActorsOK'
  BY <1>1, <1>2, <1>3, Distinct
  DEF IInv, ActorsOK, SeenOK, AimedOK, ImportsOK, ImportOK, Loading, TypeOK, hookVars
<1>9. CallersOK'
  <2>1. ASSUME NEW x \in Actors, at'[x] = "complete"
        PROVE  task'[x].mod # resident'
    <3>1. x # i /\ at[x] = "complete" /\ task'[x] = task[x]
      BY <1>1, <1>2, <2>1
    <3>2. task[x].mod \in Importers /\ body[task[x].mod] = "finished" /\ x \notin Importers /\ ~initializing[task[x].mod]
      BY <1>3, <3>1 DEF IInv, ActorsOK, SeenOK, ImportsOK, ImportOK, Loading
    <3>3. QED
      BY <1>1, <1>3, <3>1, <3>2, Distinct DEF ImportOK, Loading
  <2>2. QED
    BY <1>1, <1>2, <2>1, Distinct DEF IInv, CallersOK, CallerOK, hookVars, coordVars
<1>10. QED
  BY <1>4, <1>5, <1>6, <1>7, <1>8, <1>9 DEF IInv

LEMMA ImportDeleteFailed ==
  ASSUME IInv, NEW i \in Importers, DeleteFailed(i), UNCHANGED coordVars
  PROVE  IInv'
<1>1. /\ UNCHANGED <<hookVars, coordVars, unloads, forks, task, loader, importing, initializing, body>>
      /\ at[i] = "failed" /\ resident' = NoModule
  BY DEF DeleteFailed
<1>2. at' \in [Actors -> Labels] /\ at'[i] = "finally" /\ \A y \in Actors \ {i} : at'[y] = at[y]
  BY GotoUpdate, Distinct DEF IInv, DeleteFailed, Labels
<1>3. ImportOK(i) /\ importing = i /\ resident \in {NoModule, i}
  BY <1>1 DEF IInv, ImportsOK, ImportOK, Loading
<1>4. KindOK' /\ RegistryOK' /\ MountOK' /\ TokenOK'
  BY <1>1, <1>2, ImportFrame DEF Loading
<1>5. TypeOK'
  BY <1>1, <1>2, Distinct DEF IInv, TypeOK, hookVars, coordVars
<1>6. ImportsOK'
  BY <1>1, <1>2, <1>3, Distinct DEF IInv, ImportsOK, ImportOK, Loading, hookVars, TypeOK
<1>7. ResidentOK' /\ MountsFinishedModule'
  BY <1>1, <1>3 DEF IInv, ResidentOK, MountsFinishedModule, ImportOK, TypeOK, coordVars
<1>8. ActorsOK'
  BY <1>1, <1>2, <1>3, Distinct
  DEF IInv, ActorsOK, SeenOK, AimedOK, ImportsOK, ImportOK, Loading, TypeOK, hookVars
<1>9. CallersOK'
  <2>1. ASSUME NEW x \in Actors, at'[x] = "complete"
        PROVE  task'[x].mod # resident'
    <3>1. x # i /\ at[x] = "complete" /\ task'[x] = task[x]
      BY <1>1, <1>2, <2>1
    <3>2. task[x].mod \in Importers /\ body[task[x].mod] = "finished" /\ x \notin Importers /\ ~initializing[task[x].mod]
      BY <1>3, <3>1 DEF IInv, ActorsOK, SeenOK, ImportsOK, ImportOK, Loading
    <3>3. QED
      BY <1>1, <1>3, <3>1, <3>2, Distinct DEF ImportOK, Loading
  <2>2. QED
    BY <1>1, <1>2, <2>1, Distinct DEF IInv, CallersOK, CallerOK, hookVars, coordVars
<1>10. QED
  BY <1>4, <1>5, <1>6, <1>7, <1>8, <1>9 DEF IInv

LEMMA ImportPop ==
  ASSUME IInv, NEW i \in Importers, Pop(i), UNCHANGED coordVars
  PROVE  IInv'
<1>1. /\ UNCHANGED <<hookVars, coordVars, unloads, forks, task, loader, importing, initializing, body>>
      /\ at[i] = "executed" /\ resident' = NoModule
  BY DEF Pop
<1>2. at' \in [Actors -> Labels] /\ at'[i] = "popped" /\ \A y \in Actors \ {i} : at'[y] = at[y]
  BY GotoUpdate, Distinct DEF IInv, Pop, Labels
<1>3. ImportOK(i) /\ importing = i /\ resident \in {NoModule, i}
  BY <1>1 DEF IInv, ImportsOK, ImportOK, Loading
<1>4. KindOK' /\ RegistryOK' /\ MountOK' /\ TokenOK'
  BY <1>1, <1>2, ImportFrame DEF Loading
<1>5. TypeOK'
  BY <1>1, <1>2, Distinct DEF IInv, TypeOK, hookVars, coordVars
<1>6. ImportsOK'
  BY <1>1, <1>2, <1>3, Distinct DEF IInv, ImportsOK, ImportOK, Loading, hookVars, TypeOK
<1>7. ResidentOK' /\ MountsFinishedModule'
  BY <1>1, <1>3 DEF IInv, ResidentOK, MountsFinishedModule, ImportOK, TypeOK, coordVars
<1>8. ActorsOK'
  BY <1>1, <1>2, <1>3, Distinct
  DEF IInv, ActorsOK, SeenOK, AimedOK, ImportsOK, ImportOK, Loading, TypeOK, hookVars
<1>9. CallersOK'
  <2>1. ASSUME NEW x \in Actors, at'[x] = "complete"
        PROVE  task'[x].mod # resident'
    <3>1. x # i /\ at[x] = "complete" /\ task'[x] = task[x]
      BY <1>1, <1>2, <2>1
    <3>2. task[x].mod \in Importers /\ body[task[x].mod] = "finished" /\ x \notin Importers /\ ~initializing[task[x].mod]
      BY <1>3, <3>1 DEF IInv, ActorsOK, SeenOK, ImportsOK, ImportOK, Loading
    <3>3. QED
      BY <1>1, <1>3, <3>1, <3>2, Distinct DEF ImportOK, Loading
  <2>2. QED
    BY <1>1, <1>2, <2>1, Distinct DEF IInv, CallersOK, CallerOK, hookVars, coordVars
<1>10. QED
  BY <1>4, <1>5, <1>6, <1>7, <1>8, <1>9 DEF IInv

LEMMA ImportReinsert ==
  ASSUME IInv, NEW i \in Importers, Reinsert(i), UNCHANGED coordVars
  PROVE  IInv'
<1>1. /\ UNCHANGED <<hookVars, coordVars, unloads, forks, task, loader, importing, initializing, body>>
      /\ at[i] = "popped" /\ resident' = i
  BY DEF Reinsert
<1>2. at' \in [Actors -> Labels] /\ at'[i] = "finally" /\ \A y \in Actors \ {i} : at'[y] = at[y]
  BY GotoUpdate, Distinct DEF IInv, Reinsert, Labels
<1>3. ImportOK(i) /\ importing = i /\ resident \in {NoModule, i}
  BY <1>1 DEF IInv, ImportsOK, ImportOK, Loading
<1>4. KindOK' /\ RegistryOK' /\ MountOK' /\ TokenOK'
  BY <1>1, <1>2, ImportFrame DEF Loading
<1>5. TypeOK'
  BY <1>1, <1>2, Distinct DEF IInv, TypeOK, hookVars, coordVars
<1>6. ImportsOK'
  BY <1>1, <1>2, <1>3, Distinct DEF IInv, ImportsOK, ImportOK, Loading, hookVars, TypeOK
<1>7. ResidentOK' /\ MountsFinishedModule'
  BY <1>1, <1>3 DEF IInv, ResidentOK, MountsFinishedModule, ImportOK, TypeOK, coordVars
<1>8. ActorsOK'
  BY <1>1, <1>2, <1>3, Distinct
  DEF IInv, ActorsOK, SeenOK, AimedOK, ImportsOK, ImportOK, Loading, TypeOK, hookVars
<1>9. CallersOK'
  <2>1. ASSUME NEW x \in Actors, at'[x] = "complete"
        PROVE  task'[x].mod # resident'
    <3>1. x # i /\ at[x] = "complete" /\ task'[x] = task[x]
      BY <1>1, <1>2, <2>1
    <3>2. task[x].mod \in Importers /\ body[task[x].mod] = "finished" /\ x \notin Importers /\ ~initializing[task[x].mod]
      BY <1>3, <3>1 DEF IInv, ActorsOK, SeenOK, ImportsOK, ImportOK, Loading
    <3>3. QED
      BY <1>1, <1>3, <3>1, <3>2, Distinct DEF ImportOK, Loading
  <2>2. QED
    BY <1>1, <1>2, <2>1, Distinct DEF IInv, CallersOK, CallerOK, hookVars, coordVars
<1>10. QED
  BY <1>4, <1>5, <1>6, <1>7, <1>8, <1>9 DEF IInv

LEMMA ImportClearInitializing ==
  ASSUME IInv, NEW i \in Importers, ClearInitializing(i), UNCHANGED coordVars
  PROVE  IInv'
<1>1. /\ UNCHANGED <<hookVars, coordVars, unloads, forks, task, loader, resident, body>>
      /\ at[i] = "finally" /\ importing' = NoOne
      /\ initializing' = [initializing EXCEPT ![i] = FALSE]
  BY DEF ClearInitializing
<1>2. at' \in [Actors -> Labels] /\ at'[i] = "done" /\ \A y \in Actors \ {i} : at'[y] = at[y]
  BY GotoUpdate, Distinct DEF IInv, ClearInitializing, Labels
<1>3. ImportOK(i) /\ importing = i /\ resident \in {NoModule, i}
  BY <1>1 DEF IInv, ImportsOK, ImportOK, Loading
<1>4. KindOK' /\ RegistryOK' /\ MountOK' /\ TokenOK'
  BY <1>1, <1>2, ImportFrame DEF Loading
<1>5. TypeOK'
  BY <1>1, <1>2, Distinct DEF IInv, TypeOK, hookVars, coordVars
<1>6. ImportsOK'
  BY <1>1, <1>2, <1>3, Distinct DEF IInv, ImportsOK, ImportOK, Loading, hookVars, TypeOK
<1>7. ResidentOK' /\ MountsFinishedModule'
  BY <1>1, <1>3 DEF IInv, ResidentOK, MountsFinishedModule, ImportOK, TypeOK, coordVars
<1>8. ActorsOK'
  BY <1>1, <1>2, <1>3, Distinct
  DEF IInv, ActorsOK, SeenOK, AimedOK, ImportsOK, ImportOK, Loading, TypeOK, hookVars
<1>9. CallersOK'
  <2>1. ASSUME NEW x \in Actors, at'[x] = "complete"
        PROVE  task'[x].mod # resident'
    <3>1. x # i /\ at[x] = "complete" /\ task'[x] = task[x]
      BY <1>1, <1>2, <2>1
    <3>2. task[x].mod \in Importers /\ body[task[x].mod] = "finished" /\ x \notin Importers /\ ~initializing[task[x].mod]
      BY <1>3, <3>1 DEF IInv, ActorsOK, SeenOK, ImportsOK, ImportOK, Loading
    <3>3. QED
      BY <1>1, <1>3, <3>1, <3>2, Distinct DEF ImportOK, Loading
  <2>2. QED
    BY <1>1, <1>2, <2>1, Distinct DEF IInv, CallersOK, CallerOK, hookVars, coordVars
<1>10. QED
  BY <1>4, <1>5, <1>6, <1>7, <1>8, <1>9 DEF IInv

LEMMA ImportExecModule ==
  ASSUME IInv, NEW i \in Importers, ExecModule(i), UNCHANGED coordVars
  PROVE  IInv'
<1>1. /\ UNCHANGED <<hookVars, coordVars, unloads, forks, resident, initializing, importing, loader>>
      /\ at[i] = "body"
  BY DEF ExecModule
<1>2. ImportOK(i) /\ importing = i /\ resident \in {NoModule, i} /\ initializing[i] /\ body[i] = "running"
  BY <1>1 DEF IInv, ImportsOK, ImportOK, Loading
<1>3. PICK label \in {"executed", "complete", "failed"} :
        /\ at' = [at EXCEPT ![i] = label]
        /\ body' = [body EXCEPT ![i] = IF label = "failed" THEN "failed" ELSE "finished"]
        /\ label # "complete" => UNCHANGED task
        /\ label = "complete" => Take(i, i, loader[i]) /\ loader[i] # NoFinder
  BY DEF ExecModule, Goto
<1>4. at' \in [Actors -> Labels] /\ at'[i] = label /\ \A y \in Actors \ {i} : at'[y] = at[y]
  BY <1>3, GotoUpdate, Distinct DEF IInv, Goto, Labels
<1>5. loader[i] \in Finders \cup {NoFinder} /\ registry \in Finders \cup {NoFinder}
  BY DEF IInv, TypeOK
<1>6. /\ task' \in [Actors -> [mod : Importers \cup {NoModule}, finder : Finders \cup {NoFinder}]]
      /\ \A y \in Actors \ {i} : task'[y] = task[y]
      /\ label = "complete" => task'[i].mod = i /\ task'[i].finder = loader[i]
  <2>1. CASE label = "complete"
    <3>1. Take(i, i, loader[i]) /\ TypeOK /\ i \in Actors
      BY <1>3, <2>1, Distinct DEF IInv
    <3>2. task' = [task EXCEPT ![i] = [mod |-> i, finder |-> loader[i]]]
      BY <3>1 DEF Take
    <3>3. task \in [Actors -> [mod : Importers \cup {NoModule}, finder : Finders \cup {NoFinder}]]
      BY DEF IInv, TypeOK
    <3>4. [mod |-> i, finder |-> loader[i]] \in [mod : Importers \cup {NoModule}, finder : Finders \cup {NoFinder}]
      BY <1>5
    <3>5. QED
      BY <3>2, <3>3, <3>4, Distinct
  <2>2. CASE label # "complete"
    BY <1>3, <2>2 DEF IInv, TypeOK
  <2>3. QED
    BY <2>1, <2>2
<1>7. label = "complete" => loader[i] = registry /\ registry # NoFinder
  BY <1>1, <1>2, <1>3 DEF ImportOK
<1>8. KindOK' /\ RegistryOK' /\ MountOK' /\ TokenOK'
  BY <1>1, <1>4, <1>6, ImportFrame DEF Loading
<1>9. TypeOK'
  BY <1>1, <1>3, <1>4, <1>6, Distinct DEF IInv, TypeOK, hookVars, coordVars
<1>10. /\ body'[i] = IF label = "failed" THEN "failed" ELSE "finished"
       /\ \A j \in Importers \ {i} : body'[j] = body[j]
  BY <1>3 DEF IInv, TypeOK
<1>11. ImportsOK'
  BY <1>1, <1>2, <1>4, <1>6, <1>7, <1>10, Distinct DEF IInv, ImportsOK, ImportOK, Loading, hookVars
<1>12. ResidentOK' /\ MountsFinishedModule'
  BY <1>1, <1>2, <1>10 DEF IInv, ResidentOK, MountsFinishedModule, TypeOK, coordVars
<1>13. ActorsOK'
  BY <1>1, <1>2, <1>4, <1>5, <1>6, <1>7, <1>10, Distinct DEF IInv, ActorsOK, SeenOK, AimedOK, hookVars
<1>14. CallersOK'
  BY SMTT(30), <1>1, <1>4, <1>6, <1>7, Distinct DEF IInv, CallersOK, CallerOK, hookVars, coordVars
<1>15. QED
  BY <1>8, <1>9, <1>11, <1>12, <1>13, <1>14 DEF IInv

LEMMA ModuleUnload ==
  ASSUME IInv, Unload, UNCHANGED coordVars
  PROVE  IInv'
<1>1. /\ UNCHANGED <<hookVars, coordVars, forks, initializing, body, importing, loader, at, task>>
      /\ unloads < MaxUnloads /\ unloads' = unloads + 1 /\ resident' = NoModule
      /\ resident # NoModule /\ ~initializing[resident]
  BY DEF Unload, Ready
<1>2. UNCHANGED <<meta_path, registry, callbacks, lock, registration_lock, registration_state, api_state, phase,
                  mounting, mounted, root>>
  BY <1>1 DEF hookVars, coordVars
<1>3. TypeOK'
  BY <1>1, <1>2, DeferredImportAssumption DEF IInv, TypeOK
<1>4. ImportsOK' /\ ResidentOK' /\ MountsFinishedModule'
  BY <1>1, <1>2, Distinct DEF IInv, ImportsOK, ImportOK, ResidentOK, MountsFinishedModule
<1>5. ActorsOK' /\ KindOK' /\ CallersOK'
  BY <1>1, <1>2, Distinct DEF IInv, ActorsOK, SeenOK, AimedOK, KindOK, CallersOK, CallerOK
<1>6. RegistryOK' /\ MountOK' /\ TokenOK'
  BY <1>1, <1>2 DEF IInv, RegistryOK, MountOK, TokenOK, Holds
<1>7. QED
  BY <1>3, <1>4, <1>5, <1>6 DEF IInv

LEMMA ImportStepKeeps ==
  ASSUME IInv, ImportStep, UNCHANGED coordVars
  PROVE  IInv'
BY ImportFindSpec, ImportInsert, ImportExecModule, ImportDeleteFailed, ImportPop, ImportReinsert,
   ImportClearInitializing DEF ImportStep

-----------------------------------------------------------------------------
(* after_import and the deliveries.                                        *)

LEMMA CallerChecks ==
  ASSUME IInv, NEW c \in Callers, Check(c), UNCHANGED coordVars
  PROVE  IInv'
<1>1. /\ UNCHANGED <<importVars, coordVars, meta_path, registry, unloads, forks>>
      /\ at[c] = "check" /\ lock = NoOne
  BY DEF Check
<1>2. registry = NoFinder /\ phase[c] = "armed" /\ Holds(c)
  BY <1>1, Distinct DEF IInv, TokenOK, Holds, CallersOK, CallerOK
<1>3. PICK label \in {"install", "fire"} :
        /\ at' = [at EXCEPT ![c] = label]
        /\ label = "install" <=> ~Ready
        /\ Take(c, resident, NoFinder) /\ UNCHANGED callbacks
        /\ lock' = IF label = "install" THEN c ELSE NoOne
  BY <1>1, <1>2 DEF Check, Goto
<1>4. at' \in [Actors -> Labels] /\ at'[c] = label /\ \A y \in Actors \ {c} : at'[y] = at[y]
  BY <1>3, GotoUpdate, Distinct DEF IInv, Goto, Labels
<1>5. /\ task' \in [Actors -> [mod : Importers \cup {NoModule}, finder : Finders \cup {NoFinder}]]
      /\ task'[c] = [mod |-> resident, finder |-> NoFinder] /\ \A y \in Actors \ {c} : task'[y] = task[y]
  BY <1>3, TakeUpdate, Distinct DEF IInv, TypeOK
<1>6. UNCHANGED <<resident, initializing, body, importing, loader, registration_lock, registration_state,
                  api_state, phase, mounting, mounted, root>>
  BY <1>1 DEF importVars, coordVars
<1>7. TypeOK'
  BY <1>1, <1>3, <1>4, <1>5, <1>6, Distinct DEF IInv, TypeOK
<1>8. ImportsOK' /\ ResidentOK' /\ MountsFinishedModule'
  BY <1>1, <1>4, <1>5, <1>6, Distinct DEF IInv, ImportsOK, ImportOK, ResidentOK, MountsFinishedModule
<1>9. ActorsOK'
  <2>1. label = "fire" => resident \in Importers /\ body[resident] = "finished" /\ ~initializing[resident]
    BY <1>3 DEF Ready, IInv, ResidentOK, TypeOK
  <2>2. QED
    BY <1>1, <1>4, <1>5, <1>6, <2>1 DEF IInv, ActorsOK, SeenOK, AimedOK
<1>10. KindOK' /\ RegistryOK' /\ MountOK'
  BY <1>1, <1>3, <1>4, <1>6 DEF IInv, KindOK, RegistryOK, MountOK, TypeOK
<1>11. CallersOK'
  <2>1. label = "install" => \A x \in Actors : at[x] = "complete" => task[x].mod # resident
    <3> SUFFICES ASSUME ~Ready, NEW x \in Actors, at[x] = "complete", task[x].mod = resident
                 PROVE  FALSE
      BY <1>3
    <3>1. x \in Importers
      BY Distinct DEF Ready, IInv, ActorsOK, SeenOK
    <3>2. QED
      BY <1>2, <3>1 DEF IInv, ImportsOK, ImportOK
  <2>2. QED
    BY <1>1, <1>2, <1>3, <1>4, <1>5, <1>6, <2>1, Distinct DEF IInv, CallersOK, CallerOK
<1>12. TokenOK'
  <2>1. \A x \in Actors : Holds(x)' <=> Holds(x)
    BY <1>1, <1>2, <1>4, <1>6 DEF Holds
  <2>2. QED
    BY <1>1, <1>6, <2>1 DEF IInv, TokenOK
<1>13. QED
  BY <1>7, <1>8, <1>9, <1>10, <1>11, <1>12 DEF IInv

(* Here the token goes to the finder: a new one, for none is registered.   *)
LEMMA CallerInstalls ==
  ASSUME IInv, NEW c \in Callers, Install(c), UNCHANGED coordVars
  PROVE  IInv'
<1>1. /\ UNCHANGED <<importVars, coordVars, lock, unloads, forks>> /\ at[c] = "install"
  BY DEF Install
<1>2. registry = NoFinder /\ phase[c] = "armed" /\ Holds(c) /\ lock = c
  BY <1>1, Distinct DEF IInv, TokenOK, Holds, CallersOK, CallerOK
<1>3. PICK f \in Finders :
        /\ at[f] = "unused" /\ registry' = f /\ meta_path' = meta_path \cup {f}
        /\ callbacks' = [callbacks EXCEPT ![f] = TRUE]
        /\ Take(c, task[c].mod, f)
        /\ at' = [at EXCEPT ![c] = "recheck", ![f] = "made"]
  BY <1>2 DEF Install
<1>4. /\ at' \in [Actors -> Labels] /\ at'[c] = "recheck" /\ at'[f] = "made"
      /\ \A y \in Actors \ {c, f} : at'[y] = at[y]
  BY <1>3, Distinct DEF IInv, TypeOK, Labels
<1>5. /\ task' \in [Actors -> [mod : Importers \cup {NoModule}, finder : Finders \cup {NoFinder}]]
      /\ task'[c].finder = f /\ \A y \in Actors \ {c} : task'[y] = task[y]
  <2>1. task[c].mod \in Importers \cup {NoModule}
    BY Distinct DEF IInv, TypeOK
  <2>2. task' = [task EXCEPT ![c] = [mod |-> task[c].mod, finder |-> f]]
    BY <1>3 DEF Take
  <2>3. QED
    BY <2>1, <2>2, Distinct DEF IInv, TypeOK
<1>6. UNCHANGED <<resident, initializing, body, importing, loader, registration_lock, registration_state,
                  api_state, phase, mounting, mounted, root>>
  BY <1>1 DEF importVars, coordVars
<1>7. TypeOK'
  BY <1>1, <1>3, <1>4, <1>5, <1>6, Distinct DEF IInv, TypeOK
<1>8. ImportsOK' /\ ResidentOK' /\ MountsFinishedModule'
  <2>1. ASSUME NEW i \in Importers
        PROVE  ImportOK(i)'
    <3>1. ImportOK(i) /\ at'[i] = at[i] /\ task'[i] = task[i]
      BY <1>4, <1>5, Distinct DEF IInv, ImportsOK
    <3>2. QED
      BY <1>2, <1>6, <3>1 DEF ImportOK
  <2>2. QED
    BY <1>6, <2>1 DEF IInv, ImportsOK, ResidentOK, MountsFinishedModule
<1>9. \A x \in Actors : at'[x] = "complete" => task'[x].mod # resident
  BY <1>1, <1>2, <1>4, <1>5, Distinct DEF IInv, CallersOK, CallerOK
<1>10. ActorsOK'
  BY <1>4, <1>5, <1>6, <1>9, Distinct DEF IInv, ActorsOK, SeenOK, AimedOK
<1>11. KindOK' /\ RegistryOK' /\ MountOK'
  <2>1. KindOK'
    BY <1>4 DEF IInv, KindOK
  <2>2. RegistryOK'
    BY <1>2, <1>3, Distinct DEF IInv, RegistryOK, TypeOK
  <2>3. MountOK'
    BY <1>1, <1>3, <1>4, <1>6 DEF IInv, MountOK, TypeOK
  <2>4. QED
    BY <2>1, <2>2, <2>3
<1>12. CallersOK'
  BY <1>1, <1>2, <1>3, <1>4, <1>5, <1>6, Distinct DEF IInv, CallersOK, CallerOK
<1>13. TokenOK'
  <2>1. \A x \in Actors : ~Holds(x)'
    BY <1>2, <1>3, <1>4, <1>6, Distinct DEF Holds, IInv, TokenOK
  <2>2. QED
    BY <1>2, <1>3, <1>6, <2>1, Distinct DEF IInv, TokenOK
<1>14. QED
  BY <1>7, <1>8, <1>10, <1>11, <1>12, <1>13 DEF IInv

LEMMA CallerRechecks ==
  ASSUME IInv, NEW c \in Callers, Recheck(c), UNCHANGED coordVars
  PROVE  IInv'
<1> DEFINE absent == task[c].mod = NoModule
           loaded == IF absent THEN resident ELSE task[c].mod
           done   == absent /\ Ready
<1>1. /\ UNCHANGED <<importVars, coordVars, meta_path, registry, callbacks, unloads, forks>>
      /\ at[c] = "recheck" /\ lock' = NoOne /\ Take(c, loaded, task[c].finder)
      /\ IF done
         THEN Goto(c, "complete")
         ELSE at' = [at EXCEPT ![c] = "returned",
                               ![task[c].finder] = IF loaded # NoModule /\ @ = "made" THEN "watch" ELSE @]
  BY DEF Recheck
<1>2. /\ lock = c /\ phase[c] = "armed" /\ registry = task[c].finder /\ registry \in Finders
      /\ \A x \in Actors : ~Holds(x)
  BY <1>1, Distinct DEF IInv, CallersOK, CallerOK, TokenOK, TypeOK
<1>3. PICK label \in {"complete", "returned"} :
        /\ label = "complete" <=> done
        /\ at' \in [Actors -> Labels] /\ at'[c] = label
        /\ at'[registry] \in {at[registry], "watch"}
        /\ \A y \in Actors \ {c, registry} : at'[y] = at[y]
        /\ at'[registry] # at[registry] => at[registry] = "made"
  <2>1. CASE done
    <3>1. Goto(c, "complete") /\ TypeOK /\ c \in Actors /\ "complete" \in Labels /\ registry \in Actors
      BY <1>1, <1>2, <2>1, Distinct DEF IInv, Labels
    <3>2. at' \in [Actors -> Labels] /\ at'[c] = "complete" /\ \A y \in Actors \ {c} : at'[y] = at[y]
      BY <3>1, GotoUpdate
    <3>3. registry # c
      BY <1>2, Distinct
    <3>4. QED
      BY <2>1, <3>1, <3>2, <3>3
  <2>2. CASE ~done
    <3>1. /\ at' = [at EXCEPT ![c] = "returned",
                              ![registry] = IF loaded # NoModule /\ @ = "made" THEN "watch" ELSE @]
          /\ registry # c /\ registry \in Actors /\ c \in Actors /\ at \in [Actors -> Labels]
      BY <1>1, <1>2, <2>2, Distinct DEF IInv, TypeOK
    <3> HIDE DEF loaded, done
    <3>2. QED
      BY <2>2, <3>1 DEF Labels
  <2>3. QED
    BY <2>1, <2>2
<1>4. loaded \in Importers \cup {NoModule}
  BY Distinct DEF IInv, TypeOK
<1>5. /\ task' \in [Actors -> [mod : Importers \cup {NoModule}, finder : Finders \cup {NoFinder}]]
      /\ task'[c] = [mod |-> loaded, finder |-> registry] /\ \A y \in Actors \ {c} : task'[y] = task[y]
  <2> HIDE DEF loaded
  <2>1. QED
    BY <1>1, <1>2, <1>4, TakeUpdate, Distinct DEF IInv
<1>6. UNCHANGED <<resident, initializing, body, importing, loader, registration_lock, registration_state,
                  api_state, phase, mounting, mounted, root>>
  BY <1>1 DEF importVars, coordVars
<1>7. label = "complete" => /\ task'[c].mod = resident /\ resident \in Importers
                            /\ body[resident] = "finished" /\ ~initializing[resident]
  BY <1>3, <1>5 DEF Ready, IInv, ResidentOK, TypeOK
<1> HIDE DEF absent, loaded, done
<1>8. TypeOK'
  BY <1>1, <1>3, <1>5, <1>6 DEF IInv, TypeOK
<1>9. ImportsOK' /\ ResidentOK' /\ MountsFinishedModule'
  <2>1. ASSUME NEW i \in Importers
        PROVE  ImportOK(i)'
    <3>1. ImportOK(i) /\ at'[i] = at[i] /\ task'[i] = task[i]
      BY <1>2, <1>3, <1>5, Distinct DEF IInv, ImportsOK
    <3>2. QED
      BY <1>1, <1>6, <3>1 DEF ImportOK
  <2>2. QED
    BY <1>6, <2>1 DEF IInv, ImportsOK, ResidentOK, MountsFinishedModule
<1>10. ActorsOK'
  <2>1. ASSUME NEW x \in Actors \ {c}
        PROVE  SeenOK(x)' /\ AimedOK(x)'
    <3>1. at'[x] \in {at[x], "watch"} /\ task'[x] = task[x] /\ SeenOK(x) /\ AimedOK(x)
      BY <1>2, <1>3, <1>5 DEF IInv, ActorsOK
    <3>2. QED
      BY <1>1, <1>6, <3>1 DEF SeenOK, AimedOK
  <2>2. SeenOK(c)' /\ AimedOK(c)'
    BY <1>1, <1>2, <1>3, <1>5, <1>6, <1>7, Distinct DEF SeenOK, AimedOK
  <2>3. QED
    BY <2>1, <2>2 DEF ActorsOK
<1>11. KindOK' /\ RegistryOK' /\ MountOK'
  BY <1>1, <1>2, <1>3, <1>6, Distinct DEF IInv, KindOK, RegistryOK, MountOK, TypeOK
<1>12. CallersOK'
  <2>1. ASSUME NEW d \in Callers \ {c}
        PROVE  CallerOK(d)'
    <3>1. /\ at'[d] = at[d] /\ task'[d] = task[d] /\ CallerOK(d) /\ at[d] \notin {"install", "recheck"}
          /\ phase'[d] = phase[d]
      BY <1>2, <1>3, <1>5, <1>6, Distinct DEF IInv, CallersOK, CallerOK
    <3>2. QED
      BY <1>6, <3>1 DEF CallerOK
  <2>2. CallerOK(c)'
    BY <1>2, <1>3, <1>6 DEF IInv, CallersOK, CallerOK
  <2>3. QED
    BY <2>1, <2>2 DEF CallersOK
<1>13. TokenOK'
  <2>1. \A x \in Actors : ~Holds(x)'
    BY <1>2, <1>3, <1>6, Distinct DEF Holds, IInv, TokenOK
  <2>2. QED
    BY <1>1, <1>2, <1>6, <2>1 DEF IInv, TokenOK
<1>14. QED
  BY <1>8, <1>9, <1>10, <1>11, <1>12, <1>13 DEF IInv

LEMMA CallerFires ==
  ASSUME IInv, NEW c \in Callers, Fire(c), UNCHANGED coordVars
  PROVE  IInv'
<1>1. /\ UNCHANGED <<importVars, hookVars, coordVars, task, unloads, forks>> /\ at[c] = "fire"
  BY DEF Fire
<1>2. PICK label \in {"call", "check"} : at' = [at EXCEPT ![c] = label]
  BY DEF Fire, Goto
<1>3. at' \in [Actors -> Labels] /\ at'[c] = label /\ \A y \in Actors \ {c} : at'[y] = at[y]
  BY <1>2, GotoUpdate, Distinct DEF IInv, Goto, Labels
<1>4. UNCHANGED <<resident, initializing, body, importing, loader, meta_path, registry, callbacks, lock,
                  registration_lock, registration_state, api_state, phase, mounting, mounted, root>>
  BY <1>1 DEF importVars, hookVars, coordVars
<1>5. TypeOK' /\ KindOK' /\ RegistryOK' /\ MountOK' /\ ResidentOK' /\ MountsFinishedModule'
  BY <1>1, <1>3, <1>4 DEF IInv, TypeOK, KindOK, RegistryOK, MountOK, ResidentOK, MountsFinishedModule
<1>6. ImportsOK'
  BY <1>1, <1>3, <1>4, Distinct DEF IInv, ImportsOK, ImportOK
<1>7. ActorsOK'
  BY <1>1, <1>3, <1>4 DEF IInv, ActorsOK, SeenOK, AimedOK
<1>8. CallersOK'
  BY <1>1, <1>3, <1>4, Distinct DEF IInv, CallersOK, CallerOK
<1>9. mounting # c
  BY <1>1, Distinct DEF IInv, MountOK
<1>10. \A x \in Actors : Holds(x)' <=> Holds(x)
  BY <1>1, <1>3, <1>4, <1>9 DEF Holds
<1>11. TokenOK'
  BY <1>4, <1>10 DEF IInv, TokenOK
<1>12. QED
  BY <1>5, <1>6, <1>7, <1>8, <1>11 DEF IInv

-----------------------------------------------------------------------------
(* What the watcher and an unrelated import aim at is the registered       *)
(* finder and a ready module.                                              *)
LEMMA Aims ==
  ASSUME IInv, NEW x \in Actors \ (Importers \cup Callers), at[x] \notin {"call"},
         NEW m \in Importers, m = resident, Ready,
         NEW f \in Finders, f = registry,
         UNCHANGED <<importVars, hookVars, coordVars, unloads, forks>>,
         Take(x, m, f), Goto(x, "complete")
  PROVE  IInv'
<1>1. /\ UNCHANGED <<resident, initializing, body, importing, loader, meta_path, registry, callbacks, lock, unloads,
                     forks, registration_lock, registration_state, api_state, phase, mounting, mounted, root>>
      /\ body[m] = "finished" /\ ~initializing[m]
  BY DEF importVars, hookVars, coordVars, Ready, IInv, ResidentOK
<1>2. at' \in [Actors -> Labels] /\ at'[x] = "complete" /\ \A y \in Actors \ {x} : at'[y] = at[y]
  BY GotoUpdate DEF IInv, Labels
<1>3. /\ task' \in [Actors -> [mod : Importers \cup {NoModule}, finder : Finders \cup {NoFinder}]]
      /\ task'[x] = [mod |-> m, finder |-> f] /\ \A y \in Actors \ {x} : task'[y] = task[y]
  BY TakeUpdate DEF IInv
<1>4. TypeOK' /\ ResidentOK' /\ MountsFinishedModule' /\ RegistryOK'
  BY <1>1, <1>2, <1>3 DEF IInv, TypeOK, ResidentOK, MountsFinishedModule, RegistryOK
<1>5. ImportsOK'
  BY <1>1, <1>2, <1>3, Distinct DEF IInv, ImportsOK, ImportOK
<1>6. ActorsOK'
  BY <1>1, <1>2, <1>3 DEF IInv, ActorsOK, SeenOK, AimedOK
<1>7. KindOK' /\ MountOK'
  BY <1>1, <1>2 DEF IInv, KindOK, MountOK, TypeOK
<1>8. CallersOK'
  <2>1. registry # NoFinder
    BY Distinct
  <2>2. QED
    BY <1>1, <1>2, <1>3, <2>1, Distinct DEF IInv, CallersOK, CallerOK
<1>9. \A y \in Actors : ~Holds(y) /\ ~Holds(y)'
  BY <1>1, <1>2, Distinct DEF IInv, TokenOK, Holds
<1>10. TokenOK'
  BY <1>1, <1>9 DEF IInv, TokenOK
<1>11. QED
  BY <1>4, <1>5, <1>6, <1>7, <1>8, <1>10 DEF IInv

LEMMA WatcherPolls ==
  ASSUME IInv, NEW f \in Finders, Watch(f), UNCHANGED coordVars
  PROVE  IInv'
<1>1. UNCHANGED <<importVars, hookVars, coordVars, unloads, forks>> /\ at[f] = "watch" /\ f \in Actors
  BY Distinct DEF Watch
<1>2. CASE resident = NoModule \/ registry = NoFinder
  <2>1. UNCHANGED <<resident, initializing, body, importing, loader, meta_path, registry, callbacks, lock, unloads,
                    forks, registration_lock, registration_state, api_state, phase, mounting, mounted, root, task>>
    BY <1>1, <1>2 DEF importVars, hookVars, coordVars, Watch
  <2>2. at' \in [Actors -> Labels] /\ at'[f] = "done" /\ \A y \in Actors \ {f} : at'[y] = at[y]
    BY <1>1, <1>2, GotoUpdate DEF IInv, Watch, Labels
  <2>3. TypeOK' /\ ResidentOK' /\ MountsFinishedModule' /\ RegistryOK' /\ KindOK' /\ MountOK'
    BY <1>1, <2>1, <2>2 DEF IInv, TypeOK, ResidentOK, MountsFinishedModule, RegistryOK, KindOK, MountOK
  <2>4. ImportsOK' /\ CallersOK'
    BY <2>1, <2>2, Distinct DEF IInv, ImportsOK, ImportOK, CallersOK, CallerOK
  <2>5. ActorsOK'
    BY <2>1, <2>2 DEF IInv, ActorsOK, SeenOK, AimedOK
  <2>6. \A y \in Actors : Holds(y)' <=> Holds(y)
    BY <1>1, <2>1, <2>2 DEF Holds
  <2>7. TokenOK'
    BY <2>1, <2>6 DEF IInv, TokenOK
  <2>8. QED
    BY <2>3, <2>4, <2>5, <2>7 DEF IInv
<1>3. CASE resident # NoModule /\ registry # NoFinder
  <2>1. /\ Ready /\ Take(f, resident, registry) /\ Goto(f, "complete")
        /\ resident \in Importers /\ registry \in Finders
    BY <1>3 DEF Watch, IInv, TypeOK
  <2>2. QED
    BY <1>1, <2>1, Aims, Distinct
<1>4. QED
  BY <1>2, <1>3

LEMMA UnrelatedImports ==
  ASSUME IInv, NEW f \in Finders, UnrelatedImport(f), UNCHANGED coordVars
  PROVE  IInv'
<1>1. /\ UNCHANGED <<importVars, hookVars, coordVars, unloads, forks>> /\ at[Unrelated] = "idle"
      /\ Ready /\ Take(Unrelated, resident, f) /\ Goto(Unrelated, "complete")
  BY DEF UnrelatedImport
<1>2. f = registry /\ resident \in Importers
  BY DEF UnrelatedImport, IInv, RegistryOK, Ready, TypeOK
<1>3. Unrelated \in Actors \ (Importers \cup Callers)
  BY Distinct
<1>4. QED
  BY <1>1, <1>2, <1>3, Aims

(* complete() for a module that was replaced, or of a finder whose callback *)
(* another has taken, only goes on.                                        *)
LEMMA CompleteIdle ==
  ASSUME IInv, NEW x \in Actors, at[x] = "complete", Goto(x, AfterCallback(x, FALSE)),
         UNCHANGED <<importVars, hookVars, coordVars, task, unloads, forks>>
  PROVE  IInv'
<1>1. UNCHANGED <<resident, initializing, body, importing, loader, meta_path, registry, callbacks, lock, unloads,
                  forks, registration_lock, registration_state, api_state, phase, mounting, mounted, root, task>>
  BY DEF importVars, hookVars, coordVars
<1>2. PICK label \in {"executed", "returned", "done", "idle"} :
        /\ Goto(x, label)
        /\ label = "executed" <=> x \in Importers
        /\ label = "returned" <=> x \in Callers
  BY Distinct DEF AfterCallback, Actors
<1>3. at' \in [Actors -> Labels] /\ at'[x] = label /\ \A y \in Actors \ {x} : at'[y] = at[y]
  BY <1>2, GotoUpdate DEF IInv, Labels
<1>4. TypeOK' /\ ResidentOK' /\ MountsFinishedModule' /\ RegistryOK' /\ MountOK'
  BY <1>1, <1>3 DEF IInv, TypeOK, ResidentOK, MountsFinishedModule, RegistryOK, MountOK
<1>5. ImportsOK'
  BY <1>1, <1>2, <1>3, Distinct DEF IInv, ImportsOK, ImportOK, Loading
<1>6. KindOK' /\ CallersOK'
  BY <1>1, <1>2, <1>3, Distinct DEF IInv, KindOK, CallersOK, CallerOK
<1>7. ActorsOK'
  BY <1>1, <1>3 DEF IInv, ActorsOK, SeenOK, AimedOK
<1>8. \A y \in Actors : Holds(y)' <=> Holds(y)
  BY <1>1, <1>3 DEF Holds
<1>9. TokenOK'
  BY <1>1, <1>8 DEF IInv, TokenOK
<1>10. QED
  BY <1>4, <1>5, <1>6, <1>7, <1>9 DEF IInv

LEMMA CompleteTakes ==
  ASSUME IInv, NEW x \in Actors, Complete(x), UNCHANGED coordVars,
         resident = task[x].mod, callbacks[task[x].finder]
  PROVE  IInv'
<1>1. /\ UNCHANGED <<importVars, coordVars, lock, task, unloads, forks>> /\ at[x] = "complete" /\ lock = NoOne
      /\ registry' = NoFinder /\ Goto(x, "call")
      /\ meta_path' = meta_path \ {task[x].finder}
      /\ callbacks' = [callbacks EXCEPT ![task[x].finder] = FALSE]
  BY DEF Complete
<1>2. /\ task[x].finder = registry /\ registry \in Finders
      /\ resident \in Importers /\ body[resident] = "finished"
      /\ x \notin Importers => ~initializing[resident]
  BY <1>1 DEF IInv, ActorsOK, AimedOK, SeenOK, RegistryOK
<1>3. UNCHANGED <<resident, initializing, body, importing, loader, lock, unloads, forks, registration_lock,
                  registration_state, api_state, phase, mounting, mounted, root, task>>
  BY <1>1 DEF importVars, coordVars
<1>4. at' \in [Actors -> Labels] /\ at'[x] = "call" /\ \A y \in Actors \ {x} : at'[y] = at[y]
  BY <1>1, GotoUpdate DEF IInv, Labels
<1>5. TypeOK' /\ ResidentOK' /\ MountsFinishedModule'
  BY <1>1, <1>3, <1>4, Distinct DEF IInv, TypeOK, ResidentOK, MountsFinishedModule
<1>6. RegistryOK' /\ MountOK' /\ KindOK'
  <2>1. RegistryOK'
    BY <1>1, <1>2, Distinct DEF IInv, RegistryOK, TypeOK
  <2>2. MountOK' /\ KindOK'
    BY <1>3, <1>4 DEF IInv, MountOK, KindOK, TypeOK
  <2>3. QED
    BY <2>1, <2>2
<1>7. ImportsOK'
  <2>1. ASSUME NEW i \in Importers \ {x}, at[i] \in Loading
        PROVE  FALSE
    <3>1. importing = i /\ resident \in {NoModule, i} /\ ImportOK(i)
      BY <2>1 DEF IInv, ImportsOK, ImportOK
    <3>2. x \notin Importers
      BY <1>1, <2>1, <3>1 DEF IInv, ImportsOK, ImportOK, Loading
    <3>3. resident = i /\ ~initializing[i] /\ body[i] = "finished"
      BY <1>2, <3>1, <3>2, Distinct
    <3>4. QED
      BY <2>1, <3>1, <3>3 DEF ImportOK
  <2>2. ASSUME NEW i \in Importers
        PROVE  ImportOK(i)'
    <3>1. CASE i # x
      <4>1. at[i] \notin Loading /\ ImportOK(i) /\ at'[i] = at[i]
        BY <1>4, <2>1, <3>1, Distinct DEF IInv, ImportsOK
      <4>2. QED
        BY <1>3, <4>1 DEF ImportOK, Loading
    <3>2. CASE i = x
      BY <1>1, <1>3, <1>4, <3>2 DEF IInv, ImportsOK, ImportOK, Loading
    <3>3. QED
      BY <3>1, <3>2
  <2>3. QED
    BY <2>2 DEF ImportsOK
<1>8. ActorsOK'
  BY <1>1, <1>2, <1>3, <1>4 DEF IInv, ActorsOK, SeenOK, AimedOK
<1>9. CallersOK'
  <2>1. \A c \in Callers : at[c] \notin {"install", "recheck"}
    BY <1>1, Distinct DEF IInv, CallersOK, CallerOK
  <2>2. QED
    BY <1>1, <1>3, <1>4, <2>1, Distinct DEF IInv, CallersOK, CallerOK
<1>10. TokenOK'
  <2>1. /\ mounting # x /\ \A y \in Actors : ~Holds(y)
        /\ api_state = "waiting"
    BY <1>1, <1>2, Distinct DEF IInv, MountOK, TokenOK
  <2>2. \A y \in Actors : Holds(y)' <=> y = x
    BY <1>3, <1>4, <2>1 DEF Holds
  <2>3. QED
    BY <1>1, <1>3, <2>1, <2>2 DEF TokenOK
<1>11. QED
  BY <1>5, <1>6, <1>7, <1>8, <1>9, <1>10 DEF IInv

LEMMA ActorCompletes ==
  ASSUME IInv, NEW x \in Actors, Complete(x), UNCHANGED coordVars
  PROVE  IInv'
<1>1. CASE resident = task[x].mod /\ callbacks[task[x].finder]
  BY <1>1, CompleteTakes
<1>2. CASE resident # task[x].mod
  <2>1. /\ UNCHANGED <<importVars, hookVars, coordVars, task, unloads, forks>> /\ at[x] = "complete"
        /\ Goto(x, AfterCallback(x, FALSE))
    BY <1>2 DEF Complete, hookVars
  <2>2. QED
    BY <2>1, CompleteIdle
<1>3. CASE resident = task[x].mod /\ ~callbacks[task[x].finder]
  <2>1. /\ UNCHANGED <<importVars, coordVars, lock, task, unloads, forks>> /\ at[x] = "complete"
        /\ registry' = NoFinder /\ Goto(x, AfterCallback(x, FALSE))
        /\ meta_path' = meta_path \ {task[x].finder}
        /\ callbacks' = [callbacks EXCEPT ![task[x].finder] = FALSE]
    BY <1>3 DEF Complete
  <2>2. task[x].finder \in Finders /\ registry = NoFinder /\ meta_path = {}
    BY <1>3, <2>1 DEF IInv, ActorsOK, AimedOK, RegistryOK
  <2>3. registry' = registry /\ meta_path' = meta_path /\ callbacks' = callbacks
    BY <1>3, <2>1, <2>2 DEF IInv, TypeOK
  <2>4. UNCHANGED <<importVars, hookVars, coordVars, task, unloads, forks>>
    BY <2>1, <2>3 DEF hookVars
  <2>5. QED
    BY <2>1, <2>4, CompleteIdle
<1>4. QED
  BY <1>1, <1>2, <1>3

LEMMA HookStepKeeps ==
  ASSUME IInv, HookStep \/ Unload, UNCHANGED coordVars
  PROVE  IInv'
BY ImportStepKeeps, ModuleUnload, CallerChecks, CallerInstalls, CallerRechecks, CallerFires, WatcherPolls,
   UnrelatedImports, ActorCompletes DEF HookStep, CallerStep, DeliveryStep

-----------------------------------------------------------------------------
(* register().                                                             *)

LEMMA HookSame ==
  ASSUME IInv, UNCHANGED diVars, UNCHANGED mounted
  PROVE  ImportsOK' /\ ResidentOK' /\ ActorsOK' /\ KindOK' /\ RegistryOK' /\ MountsFinishedModule'
<1>1. UNCHANGED <<resident, initializing, body, importing, loader, meta_path, registry, callbacks, lock, at, task>>
  BY DEF diVars, importVars, hookVars
<1>2. QED
  BY <1>1 DEF IInv, ImportsOK, ImportOK, ResidentOK, ActorsOK, SeenOK, AimedOK, KindOK, RegistryOK,
              MountsFinishedModule

LEMMA RegisterEnters ==
  ASSUME IInv, NEW c \in Callers, Enter(c) \/ Runtime(c)
  PROVE  IInv'
<1>1. /\ UNCHANGED <<diVars, api_state, mounting, mounted, root>>
      /\ phase[c] \in {"idle", "runtime"} /\ registration_lock \in {NoOne, c}
  BY DEF Enter, Runtime, IInv, CallersOK, CallerOK
<1>2. PICK label \in {"arm", "runtime", "done"} :
        /\ phase' = [phase EXCEPT ![c] = label]
        /\ registration_lock' = IF label = "done" THEN NoOne ELSE c
        /\ registration_state' \in States
  BY DEF Enter, Runtime, Phase, IInv, TypeOK, States, CallersOK, CallerOK
<1>3. /\ phase'[c] = label /\ \A d \in Callers \ {c} : phase'[d] = phase[d]
      /\ UNCHANGED <<resident, initializing, body, importing, loader, meta_path, registry, callbacks, lock, at, task,
                     unloads, forks>>
  BY <1>1, <1>2 DEF IInv, TypeOK, diVars, importVars, hookVars
<1>4. TypeOK'
  BY <1>1, <1>2, <1>3, Distinct DEF IInv, TypeOK
<1>5. at[c] = "idle"
  BY <1>1 DEF IInv, CallersOK, CallerOK
<1>6. CallersOK'
  <2>1. \A d \in Callers \ {c} : phase[d] \notin {"runtime", "arm", "armed"}
    BY <1>1, Distinct DEF IInv, CallersOK, CallerOK
  <2>2. QED
    BY <1>1, <1>2, <1>3, <1>5, <2>1 DEF IInv, CallersOK, CallerOK
<1>7. MountOK'
  BY <1>1, <1>3, <1>5, Distinct DEF IInv, MountOK, TypeOK
<1>8. TokenOK'
  BY <1>1, <1>3 DEF IInv, TokenOK, Holds
<1>9. QED
  BY <1>1, <1>4, <1>6, <1>7, <1>8, HookSame DEF IInv

LEMMA RegisterArms ==
  ASSUME IInv, NEW c \in Callers, ArmApi(c)
  PROVE  IInv'
<1>1. /\ phase[c] = "arm" /\ at[c] = "idle" /\ registration_lock = c
      /\ UNCHANGED <<registration_state, mounting, mounted, root>>
      /\ \A d \in Callers \ {c} : phase[d] \notin {"runtime", "arm", "armed"}
  BY DEF ArmApi, IInv, CallersOK, CallerOK
<1>2. mounting = NoOne
  BY <1>1, Distinct DEF IInv, MountOK, TypeOK
<1>3. CASE ~(api_state = "new" /\ root)
  <2>1. /\ UNCHANGED <<diVars, api_state>> /\ phase' = [phase EXCEPT ![c] = "done"] /\ registration_lock' = NoOne
    BY <1>3 DEF ArmApi, Phase
  <2>2. /\ phase'[c] = "done" /\ \A d \in Callers \ {c} : phase'[d] = phase[d]
        /\ UNCHANGED <<resident, initializing, body, importing, loader, meta_path, registry, callbacks, lock, at, task,
                       unloads, forks>>
    BY <2>1 DEF IInv, TypeOK, diVars, importVars, hookVars
  <2>3. TypeOK'
    BY <1>1, <2>1, <2>2, Distinct DEF IInv, TypeOK
  <2>4. CallersOK'
    BY <1>1, <2>1, <2>2 DEF IInv, CallersOK, CallerOK
  <2>5. MountOK' /\ TokenOK'
    BY <1>1, <1>2, <2>1, <2>2 DEF IInv, MountOK, TokenOK, Holds
  <2>6. QED
    BY <1>1, <2>1, <2>3, <2>4, <2>5, HookSame DEF IInv
<1>4. CASE api_state = "new" /\ root
  <2>1. /\ UNCHANGED <<importVars, hookVars, task, unloads, forks, registration_lock>>
        /\ api_state' = "waiting" /\ phase' = [phase EXCEPT ![c] = "armed"] /\ Goto(c, "check")
    BY <1>4 DEF ArmApi, Phase, AfterImport
  <2>2. at' \in [Actors -> Labels] /\ at'[c] = "check" /\ \A y \in Actors \ {c} : at'[y] = at[y]
    BY <2>1, GotoUpdate, Distinct DEF IInv, Labels
  <2>3. /\ phase'[c] = "armed" /\ \A d \in Callers \ {c} : phase'[d] = phase[d]
        /\ UNCHANGED <<resident, initializing, body, importing, loader, meta_path, registry, callbacks, lock>>
    BY <2>1 DEF IInv, TypeOK, importVars, hookVars
  <2>4. TypeOK' /\ ResidentOK' /\ RegistryOK' /\ MountsFinishedModule'
    BY <1>1, <2>1, <2>2, <2>3 DEF IInv, TypeOK, ResidentOK, RegistryOK, MountsFinishedModule
  <2>5. ImportsOK' /\ ActorsOK' /\ KindOK'
    BY <2>1, <2>2, <2>3, Distinct DEF IInv, ImportsOK, ImportOK, ActorsOK, SeenOK, AimedOK, KindOK
  <2>6. CallersOK'
    BY <1>1, <2>1, <2>2, <2>3, Distinct DEF IInv, CallersOK, CallerOK
  <2>7. MountOK'
    BY <1>1, <1>2, <1>4, <2>1 DEF MountOK
  <2>8. registry = NoFinder /\ \A y \in Actors : ~Holds(y)
    BY <1>4 DEF IInv, TokenOK
  <2>9. \A y \in Actors : Holds(y)' <=> y = c
    BY <1>1, <2>2, <2>8 DEF Holds
  <2>10. TokenOK'
    BY <2>1, <2>3, <2>8, <2>9, Distinct DEF TokenOK
  <2>11. QED
    BY <2>4, <2>5, <2>6, <2>7, <2>10 DEF IInv
<1>5. QED
  BY <1>3, <1>4

LEMMA RegisterReturnsFrom ==
  ASSUME IInv, NEW c \in Callers, Return(c)
  PROVE  IInv'
<1>1. /\ phase[c] = "armed" /\ at[c] \in {"returned", "raised"} /\ registration_lock = c
      /\ UNCHANGED <<diVars, registration_state, mounting, mounted, root>> /\ registration_lock' = NoOne
      /\ \A d \in Callers \ {c} : phase[d] \notin {"runtime", "arm", "armed"}
  BY DEF Return, IInv, CallersOK, CallerOK
<1>2. api_state' = api_state
  BY <1>1 DEF Return, IInv, CallersOK, CallerOK
<1>3. mounting = NoOne
  BY <1>1, Distinct DEF IInv, MountOK, TypeOK
<1>4. phase' = [phase EXCEPT ![c] = "done"]
  BY DEF Return, Phase
<1>5. /\ phase'[c] = "done" /\ \A d \in Callers \ {c} : phase'[d] = phase[d]
      /\ UNCHANGED <<resident, initializing, body, importing, loader, meta_path, registry, callbacks, lock, at, task,
                     unloads, forks>>
  BY <1>1, <1>4 DEF IInv, TypeOK, diVars, importVars, hookVars
<1>6. TypeOK'
  BY <1>1, <1>2, <1>4, <1>5, Distinct DEF IInv, TypeOK
<1>7. CallersOK'
  BY <1>1, <1>2, <1>5 DEF IInv, CallersOK, CallerOK
<1>8. MountOK' /\ TokenOK'
  BY <1>1, <1>2, <1>3, <1>5 DEF IInv, MountOK, TokenOK, Holds
<1>9. QED
  BY <1>1, <1>6, <1>7, <1>8, HookSame DEF IInv

-----------------------------------------------------------------------------
(* _register_apis.                                                         *)

LEMMA ApisBegin ==
  ASSUME IInv, NEW x \in Actors, BeginApis(x)
  PROVE  IInv'
<1>1. /\ UNCHANGED <<diVars, registration_state, phase, mounted, root>> /\ at[x] = "call" /\ mounting # x
      /\ registration_lock \in {NoOne, x} /\ root /\ api_state' = "registering"
      /\ mounting' = x /\ registration_lock' = x
  BY DEF BeginApis, HasLock
<1>2. UNCHANGED <<resident, initializing, body, importing, loader, meta_path, registry, callbacks, lock, at, task,
                  unloads, forks>>
  BY <1>1 DEF diVars, importVars, hookVars
<1>3. mounting = NoOne
  BY <1>1, Distinct DEF IInv, MountOK, TypeOK
<1>4. TypeOK'
  BY <1>1, <1>2 DEF IInv, TypeOK, States
<1>5. CallersOK'
  BY <1>1, <1>2, Distinct DEF IInv, CallersOK, CallerOK
<1>6. MountOK'
  BY <1>1, <1>2, Distinct DEF MountOK
<1>7. Holds(x) /\ registry = NoFinder /\ \A y \in Actors \ {x} : ~Holds(y)
  BY <1>1 DEF Holds, IInv, TokenOK
<1>8. \A y \in Actors : ~Holds(y)'
  BY <1>1, <1>2, <1>3, <1>7, Distinct DEF Holds
<1>9. TokenOK'
  BY <1>1, <1>2, <1>7, <1>8 DEF TokenOK
<1>10. QED
  BY <1>1, <1>4, <1>5, <1>6, <1>9, HookSame DEF IInv

LEMMA ApisEnd ==
  ASSUME IInv, NEW x \in Actors, MountApis(x) \/ FailApis(x)
  PROVE  IInv'
<1>1. /\ UNCHANGED <<importVars, hookVars, task, unloads, forks, registration_state, phase, root>>
      /\ mounting = x /\ at[x] = "call" /\ mounting' = NoOne
      /\ registration_lock' = IF x \in Callers THEN x ELSE NoOne
      /\ mounted' \in {mounted, mounted \cup {task[x].mod}}
      /\ \/ api_state' = "registered" /\ Goto(x, AfterCallback(x, FALSE))
         \/ api_state' = "new" /\ Goto(x, AfterCallback(x, TRUE))
  BY DEF MountApis, FailApis, CallbackReturns, Release
<1>2. /\ UNCHANGED <<resident, initializing, body, importing, loader, meta_path, registry, callbacks, lock>>
      /\ api_state = "registering" /\ registration_lock = x /\ root
      /\ \A d \in Callers \ {x} : phase[d] \notin {"runtime", "arm", "armed"}
  BY <1>1, Distinct DEF importVars, hookVars, IInv, MountOK, CallersOK, CallerOK
<1>3. PICK label \in {"executed", "failed", "returned", "raised", "done", "idle"} :
        /\ Goto(x, label)
        /\ label \in {"executed", "failed"} <=> x \in Importers
        /\ label \in {"returned", "raised"} <=> x \in Callers
        /\ label = "raised" => api_state' = "new"
  BY <1>1, Distinct DEF AfterCallback, Actors
<1>4. at' \in [Actors -> Labels] /\ at'[x] = label /\ \A y \in Actors \ {x} : at'[y] = at[y]
  BY <1>3, GotoUpdate DEF IInv, Labels
<1>5. task[x].mod \in Importers /\ body[task[x].mod] = "finished"
  BY <1>1 DEF IInv, ActorsOK, SeenOK
<1>6. TypeOK' /\ MountsFinishedModule'
  BY <1>1, <1>2, <1>4, <1>5, Distinct DEF IInv, TypeOK, States, MountsFinishedModule
<1>7. ResidentOK' /\ RegistryOK' /\ MountOK'
  BY <1>1, <1>2, Distinct DEF IInv, ResidentOK, RegistryOK, MountOK
<1>8. ImportsOK'
  BY <1>1, <1>2, <1>3, <1>4, Distinct DEF IInv, ImportsOK, ImportOK, Loading
<1>9. ActorsOK'
  BY <1>1, <1>2, <1>3, <1>4 DEF IInv, ActorsOK, SeenOK, AimedOK
<1>10. KindOK'
  BY <1>3, <1>4 DEF IInv, KindOK
<1>11. CallersOK'
  BY <1>1, <1>2, <1>3, <1>4, Distinct DEF IInv, CallersOK, CallerOK
<1>12. registry = NoFinder /\ \A y \in Actors : ~Holds(y)
  BY <1>2 DEF IInv, TokenOK
<1>13. \A y \in Actors : ~Holds(y)'
  BY <1>1, <1>3, <1>4, <1>12 DEF Holds
<1>14. TokenOK'
  BY <1>1, <1>2, <1>12, <1>13 DEF TokenOK
<1>15. QED
  BY <1>6, <1>7, <1>8, <1>9, <1>10, <1>11, <1>14 DEF IInv

LEMMA ProcessForks ==
  ASSUME IInv, ForkProcess
  PROVE  IInv'
<1>1. /\ UNCHANGED <<resident, initializing, body, importing, loader, task, unloads, mounted>>
      /\ forks < MaxForks /\ forks' = forks + 1 /\ meta_path' = meta_path \ {registry}
      /\ registry' = NoFinder /\ callbacks' = [f \in Finders |-> callbacks[f] /\ f # registry]
      /\ lock' = NoOne /\ at' = [x \in Actors |-> AfterFork(x)]
      /\ registration_lock' = NoOne /\ registration_state' \in {registration_state, "new"}
      /\ api_state' = "new" /\ mounting' = NoOne /\ root' \in {root, FALSE}
      /\ phase' = [c \in Callers |-> IF phase[c] = "idle" THEN "idle" ELSE "done"]
  BY DEF ForkProcess, Fork, importVars
<1>2. \A x \in Actors : /\ at'[x] \in {"idle", "unused", "gone"}
                        /\ x # Unrelated /\ at'[x] \in {"idle", "unused"} => at[x] = at'[x]
                        /\ x # Unrelated /\ at[x] = "idle" => at'[x] = "idle"
  BY <1>1 DEF AfterFork
<1>3. at' \in [Actors -> Labels]
  BY <1>1, <1>2 DEF Labels
<1>4. \A c \in Callers : phase'[c] \in {"idle", "done"} /\ (phase'[c] = "idle" => phase[c] = "idle")
  BY <1>1
<1>5. TypeOK'
  <2>1. forks' \in 0..MaxForks
    BY <1>1, DeferredImportAssumption DEF IInv, TypeOK
  <2>2. phase' \in [Callers -> {"idle", "runtime", "arm", "armed", "done"}]
    BY <1>1
  <2>3. callbacks' \in [Finders -> BOOLEAN]
    BY <1>1
  <2>4. QED
    BY <1>1, <1>3, <2>1, <2>2, <2>3 DEF IInv, TypeOK, States
<1>6. ResidentOK' /\ MountsFinishedModule'
  BY <1>1 DEF IInv, ResidentOK, MountsFinishedModule
<1>7. RegistryOK'
  BY <1>1, Distinct DEF IInv, RegistryOK
<1>8. ImportsOK'
  BY <1>1, <1>2, Distinct DEF IInv, ImportsOK, ImportOK, Loading
<1>9. ActorsOK' /\ KindOK'
  BY <1>2 DEF ActorsOK, SeenOK, AimedOK, KindOK
<1>10. CallersOK'
  BY <1>2, <1>4, Distinct DEF IInv, CallersOK, CallerOK
<1>11. MountOK' /\ TokenOK'
  BY <1>1, <1>2 DEF MountOK, TokenOK, Holds
<1>12. QED
  BY <1>5, <1>6, <1>7, <1>8, <1>9, <1>10, <1>11 DEF IInv

-----------------------------------------------------------------------------
(* Theorems.                                                               *)

LEMMA Inductive == IInv /\ [Next]_vars => IInv'
<1>1. ASSUME IInv, Next
      PROVE  IInv'
  BY <1>1, HookStepKeeps, RegisterEnters, RegisterArms, RegisterReturnsFrom, ApisBegin, ApisEnd, ProcessForks
  DEF Next, RegisterStep, ApiStep
<1>2. ASSUME IInv, UNCHANGED vars
      PROVE  IInv'
  <2>1. UNCHANGED <<diVars, coordVars>>
    BY <1>2 DEF vars
  <2>2. UNCHANGED <<resident, initializing, body, importing, loader, meta_path, registry, callbacks, lock, at, task,
                    unloads, forks, registration_lock, registration_state, api_state, phase, mounting, mounted, root>>
    BY <2>1 DEF diVars, importVars, hookVars, coordVars
  <2>3. TypeOK' /\ CallersOK' /\ MountOK' /\ TokenOK'
    BY <1>2, <2>2 DEF IInv, TypeOK, CallersOK, CallerOK, MountOK, TokenOK, Holds
  <2>4. QED
    BY <1>2, <2>1, <2>2, <2>3, HookSame DEF IInv
<1>3. QED
  BY <1>1, <1>2

(* The coordinator's invariant holds in every reachable state, for any     *)
(* number of imports, register() calls, finders, unloads and forks.        *)
THEOREM CoordinatorSafe == Spec => []IInv
BY InitialState, Inductive, PTL DEF Spec

(* Every variable of the hook and of the coordinator keeps its type.       *)
THEOREM CoordinatorTyped == Spec => []TypeOK
<1>1. IInv => TypeOK
  BY DEF IInv
<1>2. QED
  BY <1>1, CoordinatorSafe, PTL

(* Routes are mounted only on a module whose body has finished, whoever    *)
(* delivers: the wrapped loader, a watcher, an unrelated import or the     *)
(* call of after_import itself.                                            *)
THEOREM RoutesOnFinishedModule == Spec => []MountsFinishedModule
<1>1. IInv => MountsFinishedModule
  BY DEF IInv
<1>2. QED
  BY <1>1, CoordinatorSafe, PTL

(* A waiting API phase always has somebody who will deliver it.            *)
THEOREM WaitingHasDeliverer == Spec => []WaitingIsArmed
<1>1. IInv => WaitingIsArmed
  <2>1. SUFFICES ASSUME IInv, api_state = "waiting"
                 PROVE  \/ registry # NoFinder /\ registry \in meta_path /\ callbacks[registry]
                        \/ \E x \in Actors : at[x] = "call"
                        \/ \E c \in Callers : phase[c] = "armed" /\ at[c] \in {"check", "install", "fire"}
    BY DEF WaitingIsArmed
  <2>2. CASE registry # NoFinder
    BY <2>1, <2>2 DEF IInv, RegistryOK, TypeOK
  <2>3. CASE registry = NoFinder
    <3>1. PICK x \in Actors : Holds(x)
      BY <2>1, <2>3 DEF IInv, TokenOK
    <3>2. CASE at[x] = "call"
      BY <3>2
    <3>3. CASE at[x] \in {"check", "install", "fire"}
      BY <2>1, <3>3 DEF IInv, KindOK, CallersOK, CallerOK
    <3>4. QED
      BY <3>1, <3>2, <3>3 DEF Holds
  <2>4. QED
    BY <2>2, <2>3
<1>2. QED
  BY <1>1, CoordinatorSafe, PTL

(* Who is about to run the callback runs it for a root process that waits  *)
(* for it, so no delivery is a second one.                                 *)
THEOREM DeliveryWanted == Spec => []DeliveryIsWanted
<1>1. IInv => DeliveryIsWanted
  BY DEF IInv, DeliveryIsWanted, TokenOK, Holds, MountOK
<1>2. QED
  BY <1>1, CoordinatorSafe, PTL

(* A worker carries no finder and no pending API phase, whichever thread   *)
(* forked it and whatever the parent was doing.                            *)
THEOREM WorkerClean == Spec => []WorkerIsClean
<1>1. IInv => WorkerIsClean
  <2>1. SUFFICES ASSUME IInv, ~root
                 PROVE  meta_path = {} /\ registry = NoFinder /\ api_state = "new"
    BY DEF WorkerIsClean
  <2>2. api_state = "new"
    BY <2>1 DEF IInv, MountOK
  <2>3. registry = NoFinder
    BY <2>1, <2>2 DEF IInv, TokenOK
  <2>4. QED
    BY <2>1, <2>2, <2>3 DEF IInv, RegistryOK
<1>2. QED
  BY <1>1, CoordinatorSafe, PTL
=============================================================================
