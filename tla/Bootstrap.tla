------------------------------ MODULE Bootstrap ------------------------------
(***************************************************************************)
(* The registration coordinator of the host plugin: `register()` runs the  *)
(* runtime phase once, then arms the root-only API phase through           *)
(* after_import; the API phase mounts the component routes.  Callers hold  *)
(* _registration_lock across after_import, and the callback takes it.      *)
(***************************************************************************)
EXTENDS DeferredImport

VARIABLES
  registration_lock,   \* holder of _registration_lock
  registration_state,
  api_state,
  phase,               \* phase[c]: where call c of register() is
  mounting,            \* the actor inside _register_apis, or NoOne
  mounted,             \* modules whose router got the component routes
  root                 \* _is_root_process()

coordVars == <<registration_lock, registration_state, api_state, phase, mounting, mounted, root>>
vars      == <<diVars, coordVars>>

Init ==
  /\ DeferredInit
  /\ registration_lock = NoOne
  /\ registration_state = "new"
  /\ api_state = "new"
  /\ phase = [c \in Callers |-> "idle"]
  /\ mounting = NoOne
  /\ mounted = {}
  /\ root = TRUE

Phase(c, label) == phase' = [phase EXCEPT ![c] = label]

-----------------------------------------------------------------------------
(* register().                                                             *)

Enter(c) ==
  /\ phase[c] = "idle"
  /\ registration_lock = NoOne
  /\ registration_lock' = c
  /\ IF registration_state = "registered"
     THEN Phase(c, "arm") /\ UNCHANGED registration_state
     ELSE Phase(c, "runtime") /\ registration_state' = "registering"
  /\ UNCHANGED <<diVars, api_state, mounting, mounted, root>>

(* Mutant: a deferred runtime phase takes the state of a deferred API phase.*)
RuntimeWaiting(c) ==
  /\ phase[c] = "runtime"
  /\ \/ registration_state' = "registered" /\ Phase(c, "arm") /\ UNCHANGED registration_lock
     \/ registration_state' = "waiting" /\ Phase(c, "done") /\ registration_lock' = NoOne
  /\ UNCHANGED <<diVars, api_state, mounting, mounted, root>>

(* The architectures are registered, or the host is absent or partial, or  *)
(* it raises: both leave the phase to a later call.                        *)
Runtime(c) ==
  /\ phase[c] = "runtime"
  /\ \/ registration_state' = "registered" /\ Phase(c, "arm") /\ UNCHANGED registration_lock
     \/ registration_state' = "new" /\ Phase(c, "done") /\ registration_lock' = NoOne
  /\ UNCHANGED <<diVars, api_state, mounting, mounted, root>>

(* _arm_api_phase, up to the call of after_import.                         *)
ArmApi(c) ==
  /\ phase[c] = "arm"
  /\ IF api_state = "new" /\ root
     THEN /\ api_state' = "waiting"
          /\ AfterImport(c)
          /\ Phase(c, "armed")
          /\ UNCHANGED registration_lock
     ELSE /\ Phase(c, "done")
          /\ registration_lock' = NoOne
          /\ UNCHANGED <<api_state, diVars>>
  /\ UNCHANGED <<registration_state, mounting, mounted, root>>

Return(c) ==
  /\ phase[c] = "armed"
  /\ at[c] \in {"returned", "raised"}
  /\ Phase(c, "done")
  /\ registration_lock' = NoOne
  /\ api_state' = IF at[c] = "raised" THEN "new" ELSE api_state
  /\ UNCHANGED <<diVars, registration_state, mounting, mounted, root>>

-----------------------------------------------------------------------------
(* _register_apis, the callback.                                           *)

(* Mutant: a plain Lock, which its own holder cannot take again.           *)
HasPlainLock(x) == registration_lock = NoOne /\ x \in Actors

(* The RLock is free or held by the very thread that is inside register(). *)
HasLock(x) == registration_lock \in {NoOne, x}
Release(x) == registration_lock' = IF x \in Callers THEN x ELSE NoOne

(* A second delivery and a worker would return without mounting; neither   *)
(* happens (DeliveryIsWanted), so the step that begins is the only one.    *)
BeginApis(x) ==
  /\ at[x] = "call" /\ mounting # x
  /\ HasLock(x)
  /\ root
  /\ api_state \notin {"registering", "registered"}
  /\ api_state' = "registering"
  /\ mounting' = x
  /\ registration_lock' = x
  /\ UNCHANGED <<diVars, registration_state, phase, mounted, root>>

MountApis(x) ==
  /\ mounting = x
  /\ api_state' = "registered"
  /\ mounted' = mounted \cup {task[x].mod}
  /\ mounting' = NoOne
  /\ Release(x)
  /\ CallbackReturns(x, FALSE)
  /\ UNCHANGED <<registration_state, phase, root>>

(* A contribution raises: the phase can be armed again.                    *)
FailApis(x) ==
  /\ mounting = x
  /\ api_state' = "new"
  /\ mounting' = NoOne
  /\ Release(x)
  /\ CallbackReturns(x, TRUE)
  /\ UNCHANGED <<registration_state, phase, mounted, root>>

-----------------------------------------------------------------------------
(* _reset_after_fork of both modules: a worker, or a plain os.fork child.  *)
ForkProcess ==
  /\ Fork
  /\ registration_lock' = NoOne
  /\ registration_state' = IF registration_state = "registering" THEN "new" ELSE registration_state
  /\ api_state' = "new"
  /\ phase' = [c \in Callers |-> IF phase[c] = "idle" THEN "idle" ELSE "done"]
  /\ mounting' = NoOne
  /\ root' \in {root, FALSE}
  /\ UNCHANGED mounted

RegisterStep(c) == Enter(c) \/ Runtime(c) \/ ArmApi(c) \/ Return(c)
ApiStep(x) == BeginApis(x) \/ MountApis(x) \/ FailApis(x)

Next ==
  \/ \E c \in Callers : RegisterStep(c)
  \/ \E x \in Actors : ApiStep(x)
  \/ (HookStep \/ Unload) /\ UNCHANGED coordVars
  \/ ForkProcess

(* Threads run: an import, a started call and a watcher go on while they   *)
(* can, and other modules keep being imported.                             *)
Fairness ==
  /\ \A c \in Callers :
       WF_vars(Runtime(c) \/ ArmApi(c) \/ Return(c) \/ (CallerStep(c) /\ UNCHANGED coordVars))
  /\ \A x \in Actors : WF_vars(ApiStep(x) \/ (Complete(x) /\ UNCHANGED coordVars))
  /\ \A i \in Importers :
       WF_vars((Insert(i) \/ ExecModule(i) \/ DeleteFailed(i) \/ Pop(i) \/ Reinsert(i)
                \/ ClearInitializing(i)) /\ UNCHANGED coordVars)
  /\ \A f \in Finders : WF_vars(Watch(f) /\ UNCHANGED coordVars)
  /\ \A f \in Finders : WF_vars(UnrelatedImport(f) /\ UNCHANGED coordVars)

Spec == Init /\ [][Next]_vars /\ Fairness

-----------------------------------------------------------------------------
(* Properties.                                                             *)

Labels == {"idle", "unused", "found", "body", "executed", "popped", "failed", "finally", "done",
           "check", "install", "recheck", "fire", "returned", "raised", "made", "watch",
           "complete", "call", "gone"}
States == {"new", "registering", "registered"}

(* Every variable keeps the shape its declaration gives it.                *)
TypeOK ==
  /\ resident \in Importers \cup {NoModule}
  /\ initializing \in [Importers -> BOOLEAN]
  /\ body \in [Importers -> {"none", "running", "finished", "failed"}]
  /\ importing \in Importers \cup {NoOne}
  /\ loader \in [Importers -> Finders \cup {NoFinder}]
  /\ meta_path \subseteq Finders
  /\ registry \in Finders \cup {NoFinder}
  /\ callbacks \in [Finders -> BOOLEAN]
  /\ lock \in Callers \cup {NoOne}
  /\ at \in [Actors -> Labels]
  /\ task \in [Actors -> [mod : Importers \cup {NoModule}, finder : Finders \cup {NoFinder}]]
  /\ unloads \in 0..MaxUnloads /\ forks \in 0..MaxForks
  /\ registration_lock \in Actors \cup {NoOne}
  /\ registration_state \in States /\ api_state \in States \cup {"waiting"}
  /\ phase \in [Callers -> {"idle", "runtime", "arm", "armed", "done"}]
  /\ mounting \in Actors \cup {NoOne}
  /\ mounted \subseteq Importers
  /\ root \in BOOLEAN

(* Routes are only mounted on a module whose body has finished: "not       *)
(* merely present in sys.modules" (deferred_import.py:161).                *)
MountsFinishedModule == \A m \in mounted : body[m] = "finished"

(* A process that waits for the API module has somebody who will deliver:  *)
(* a registered finder that holds the callback, a thread about to run it,  *)
(* or the call of after_import itself.  A lost registration would be final,*)
(* for register() never arms a waiting phase again (bootstrap.py:120).     *)
WaitingIsArmed ==
  api_state = "waiting" =>
    \/ registry # NoFinder /\ registry \in meta_path /\ callbacks[registry]
    \/ \E x \in Actors : at[x] = "call"
    \/ \E c \in Callers : phase[c] = "armed" /\ at[c] \in {"check", "install", "fire"}

(* Who runs the callback runs it for a root process that waits for it: the *)
(* early returns of _register_apis (bootstrap.py:101-106) are never taken, *)
(* so the API phase runs once per arming.                                  *)
DeliveryIsWanted ==
  \A x \in Actors : at[x] = "call" /\ mounting # x => api_state = "waiting" /\ root

(* "No process carries a finder residue" (deferred_import.py:190): a       *)
(* worker has no finder and no pending API phase.                          *)
WorkerIsClean == ~root => meta_path = {} /\ registry = NoFinder /\ api_state = "new"

(* A call of register() returns, whatever deliveries and imports run with  *)
(* it: the two locks are never waited for in opposite orders.              *)
RegisterReturns == \A c \in Callers : phase[c] # "idle" ~> phase[c] = "done"

(* A waiting phase does not wait for a module that is there: as long as    *)
(* some import goes through sys.meta_path, it is delivered.                *)
DeliveredOnceReady == (api_state = "waiting" /\ Ready) ~> (api_state # "waiting" \/ ~Ready)
=============================================================================
