--------------------------- MODULE DeferredImport ---------------------------
(***************************************************************************)
(* `after_import`: run a callback once a host module's body has finished,  *)
(* without importing the module.  Threads that import the module, callers  *)
(* of after_import, watcher threads, unrelated imports and a fork meet at  *)
(* sys.modules, sys.meta_path and the finder registry.                     *)
(*                                                                         *)
(* One target module and the one callback the program registers for it.    *)
(* A module object is named by the import that creates it.  `_LOCK` guards *)
(* the registry; sys.modules and sys.meta_path are read without it.        *)
(***************************************************************************)
EXTENDS Naturals

CONSTANTS Importers,   \* executions of `import target` that find it absent
          Callers,     \* calls of after_import
          Finders,     \* finder objects, at least one per caller
          Unrelated,   \* the thread that imports something else
          NoOne, NoModule, NoFinder,
          MaxUnloads,  \* bound on removals of the loaded module
          MaxForks     \* bound on forks

Actors == Importers \cup Callers \cup Finders \cup {Unrelated}

(* Imports, calls and finders are different things, and so are the absent  *)
(* actor, module and finder.                                               *)
ASSUME DeferredImportAssumption ==
  /\ Importers \cap (Callers \cup Finders \cup {Unrelated}) = {}
  /\ Callers \cap (Finders \cup {Unrelated}) = {}
  /\ Unrelated \notin Finders
  /\ NoOne \notin Actors /\ NoModule \notin Importers /\ NoFinder \notin Finders
  /\ MaxUnloads \in Nat /\ MaxForks \in Nat

NoTask == [mod |-> NoModule, finder |-> NoFinder]

VARIABLES
  resident,      \* sys.modules[target]
  initializing,  \* initializing[m]: m.__spec__._initializing
  body,          \* body[m]: how far the module body of m got
  importing,     \* holder of importlib's lock for the target
  loader,        \* loader[i]: the finder whose loader wraps import i
  meta_path,     \* finders on sys.meta_path
  registry,      \* _FINDERS[target]
  callbacks,     \* callbacks[f]: finder f holds the undelivered callback
  lock,          \* holder of _LOCK
  at,            \* at[x]: where actor x is; a finder acts as its watcher
  task,          \* task[x]: module and finder x works on
  unloads, forks

importVars == <<resident, initializing, body, importing, loader>>
hookVars   == <<meta_path, registry, callbacks, lock>>
diVars     == <<importVars, hookVars, at, task, unloads, forks>>

DeferredInit ==
  /\ resident = NoModule
  /\ initializing = [m \in Importers |-> FALSE]
  /\ body = [m \in Importers |-> "none"]
  /\ importing = NoOne
  /\ loader = [i \in Importers |-> NoFinder]
  /\ meta_path = {}
  /\ registry = NoFinder
  /\ callbacks = [f \in Finders |-> FALSE]
  /\ lock = NoOne
  /\ at = [x \in Actors |-> IF x \in Finders THEN "unused" ELSE "idle"]
  /\ task = [x \in Actors |-> NoTask]
  /\ unloads = 0 /\ forks = 0

Goto(x, label) == at' = [at EXCEPT ![x] = label]
Take(x, m, f)  == task' = [task EXCEPT ![x] = [mod |-> m, finder |-> f]]

(* Mutant: presence in sys.modules counts as imported.                     *)
ReadyIfResident == resident # NoModule

(* _module_ready of the resident module: its body has finished.            *)
Ready == resident # NoModule /\ ~initializing[resident]

(* What x does when complete() or the callback returns, or raises.         *)
AfterCallback(x, raised) ==
  CASE x \in Importers -> IF raised THEN "failed" ELSE "executed"
    [] x \in Callers   -> IF raised THEN "raised" ELSE "returned"
    [] x \in Finders   -> "done"
    [] OTHER           -> "idle"

-----------------------------------------------------------------------------
(* importlib, as the hook meets it.                                        *)

(* find_spec under the module lock: the finder wraps the loader.           *)
FindSpec(i) ==
  /\ at[i] = "idle"
  /\ importing = NoOne /\ resident = NoModule
  /\ importing' = i
  /\ \E f \in IF meta_path = {} THEN {NoFinder} ELSE meta_path :
       loader' = [loader EXCEPT ![i] = f]
  /\ Goto(i, "found")
  /\ UNCHANGED <<resident, initializing, body, hookVars, task, unloads, forks>>

(* The module object is inserted before its body runs.                     *)
Insert(i) ==
  /\ at[i] = "found"
  /\ resident' = i
  /\ initializing' = [initializing EXCEPT ![i] = TRUE]
  /\ body' = [body EXCEPT ![i] = "running"]
  /\ Goto(i, "body")
  /\ UNCHANGED <<importing, loader, hookVars, task, unloads, forks>>

(* The wrapped exec_module completes its finder after the body.            *)
ExecModule(i) ==
  /\ at[i] = "body"
  /\ \/ /\ body' = [body EXCEPT ![i] = "finished"]
        /\ IF loader[i] = NoFinder
           THEN Goto(i, "executed") /\ UNCHANGED task
           ELSE Goto(i, "complete") /\ Take(i, i, loader[i])
     \/ /\ body' = [body EXCEPT ![i] = "failed"]
        /\ Goto(i, "failed")
        /\ UNCHANGED task
  /\ UNCHANGED <<resident, initializing, importing, loader, hookVars, unloads, forks>>

DeleteFailed(i) ==
  /\ at[i] = "failed"
  /\ resident' = NoModule
  /\ Goto(i, "finally")
  /\ UNCHANGED <<initializing, body, importing, loader, hookVars, task, unloads, forks>>

(* _load_unlocked pops the module and inserts it again.                    *)
Pop(i) ==
  /\ at[i] = "executed"
  /\ resident' = NoModule
  /\ Goto(i, "popped")
  /\ UNCHANGED <<initializing, body, importing, loader, hookVars, task, unloads, forks>>

Reinsert(i) ==
  /\ at[i] = "popped"
  /\ resident' = i
  /\ Goto(i, "finally")
  /\ UNCHANGED <<initializing, body, importing, loader, hookVars, task, unloads, forks>>

ClearInitializing(i) ==
  /\ at[i] = "finally"
  /\ initializing' = [initializing EXCEPT ![i] = FALSE]
  /\ importing' = NoOne
  /\ Goto(i, "done")
  /\ UNCHANGED <<resident, body, loader, hookVars, task, unloads, forks>>

(* Somebody deletes the loaded module from sys.modules.                    *)
Unload ==
  /\ unloads < MaxUnloads
  /\ Ready
  /\ unloads' = unloads + 1
  /\ resident' = NoModule
  /\ UNCHANGED <<initializing, body, importing, loader, hookVars, at, task, forks>>

-----------------------------------------------------------------------------
(* after_import.                                                           *)

AfterImport(c) ==
  /\ at[c] = "idle"
  /\ Goto(c, "check")
  /\ UNCHANGED <<importVars, hookVars, task, unloads, forks>>

(* First check, under _LOCK, which is kept only on the installing path.    *)
Check(c) ==
  /\ at[c] = "check"
  /\ lock = NoOne
  /\ IF ~Ready
     THEN /\ lock' = c /\ Take(c, resident, NoFinder) /\ Goto(c, "install")
          /\ UNCHANGED callbacks
     ELSE /\ UNCHANGED lock
          /\ Take(c, resident, registry)
          /\ IF registry # NoFinder
             THEN /\ callbacks' = [callbacks EXCEPT ![registry] = TRUE]
                  /\ Goto(c, "complete")
             ELSE UNCHANGED callbacks /\ Goto(c, "fire")
  /\ UNCHANGED <<importVars, meta_path, registry, unloads, forks>>

(* Reuse the armed finder or put a new one first on sys.meta_path.         *)
Install(c) ==
  /\ at[c] = "install"
  /\ \/ /\ registry # NoFinder
        /\ callbacks' = [callbacks EXCEPT ![registry] = TRUE]
        /\ Take(c, task[c].mod, registry)
        /\ Goto(c, "recheck")
        /\ UNCHANGED <<meta_path, registry>>
     \/ /\ registry = NoFinder
        /\ \E f \in {g \in Finders : at[g] = "unused"} :
             /\ registry' = f
             /\ meta_path' = meta_path \cup {f}
             /\ callbacks' = [callbacks EXCEPT ![f] = TRUE]
             /\ Take(c, task[c].mod, f)
             /\ at' = [at EXCEPT ![c] = "recheck", ![f] = "made"]
  /\ UNCHANGED <<importVars, lock, unloads, forks>>

(* Recheck: the module may have come since; start the watcher if it is     *)
(* there but not ready, and release _LOCK.                                 *)
Recheck(c) ==
  LET f      == task[c].finder
      absent == task[c].mod = NoModule
      loaded == IF absent THEN resident ELSE task[c].mod
      done   == absent /\ Ready
  IN /\ at[c] = "recheck"
     /\ lock' = NoOne
     /\ Take(c, loaded, f)
     /\ IF done
        THEN Goto(c, "complete")
        ELSE at' = [at EXCEPT ![c] = "returned",
                              ![f] = IF loaded # NoModule /\ @ = "made" THEN "watch" ELSE @]
     /\ UNCHANGED <<importVars, meta_path, registry, callbacks, unloads, forks>>

(* No finder was armed: fire now, unless the module was replaced.          *)
Fire(c) ==
  /\ at[c] = "fire"
  /\ Goto(c, IF resident = task[c].mod THEN "call" ELSE "check")
  /\ UNCHANGED <<importVars, hookVars, task, unloads, forks>>

-----------------------------------------------------------------------------
(* Delivery.                                                               *)

(* One poll of _await_initialization that decides something.               *)
Watch(f) ==
  /\ at[f] = "watch"
  /\ resident = NoModule \/ Ready
  /\ IF resident = NoModule \/ registry = NoFinder
     THEN Goto(f, "done") /\ UNCHANGED task
     ELSE Take(f, resident, registry) /\ Goto(f, "complete")
  /\ UNCHANGED <<importVars, hookVars, unloads, forks>>

(* Mutant: an unrelated import retires nothing.                            *)
UnrelatedIgnored(f) == FALSE /\ f \in meta_path /\ UNCHANGED diVars

(* find_spec of an armed finder for another module's import.               *)
UnrelatedImport(f) ==
  /\ at[Unrelated] = "idle"
  /\ f \in meta_path
  /\ Ready
  /\ Take(Unrelated, resident, f)
  /\ Goto(Unrelated, "complete")
  /\ UNCHANGED <<importVars, hookVars, unloads, forks>>

(* Mutant: delivers for a module that is no longer the resident one.       *)
CompleteStale(x) ==
  LET f == task[x].finder IN
  /\ at[x] = "complete"
  /\ lock = NoOne
  /\ meta_path' = meta_path \ {f}
  /\ registry' = NoFinder
  /\ callbacks' = [callbacks EXCEPT ![f] = FALSE]
  /\ Goto(x, IF callbacks[f] THEN "call" ELSE AfterCallback(x, FALSE))
  /\ UNCHANGED <<importVars, lock, task, unloads, forks>>

(* Mutant: the callbacks are copied but not cleared.                       *)
CompleteKeeping(x) ==
  LET f == task[x].finder IN
  /\ at[x] = "complete"
  /\ lock = NoOne
  /\ IF resident = task[x].mod
     THEN /\ meta_path' = meta_path \ {f}
          /\ registry' = NoFinder
          /\ Goto(x, IF callbacks[f] THEN "call" ELSE AfterCallback(x, FALSE))
     ELSE /\ Goto(x, AfterCallback(x, FALSE))
          /\ UNCHANGED <<meta_path, registry>>
  /\ UNCHANGED <<importVars, lock, callbacks, task, unloads, forks>>

(* complete(): retire the finder and take its callback, under _LOCK; the   *)
(* callback runs after the lock is released.                               *)
Complete(x) ==
  LET f == task[x].finder IN
  /\ at[x] = "complete"
  /\ lock = NoOne
  /\ IF resident = task[x].mod
     THEN /\ meta_path' = meta_path \ {f}
          /\ registry' = NoFinder
          /\ callbacks' = [callbacks EXCEPT ![f] = FALSE]
          /\ Goto(x, IF callbacks[f] THEN "call" ELSE AfterCallback(x, FALSE))
     ELSE /\ Goto(x, AfterCallback(x, FALSE))
          /\ UNCHANGED <<meta_path, registry, callbacks>>
  /\ UNCHANGED <<importVars, lock, task, unloads, forks>>

CallbackReturns(x, raised) ==
  /\ at[x] = "call"
  /\ Goto(x, AfterCallback(x, raised))
  /\ UNCHANGED <<importVars, hookVars, task, unloads, forks>>

-----------------------------------------------------------------------------
AfterFork(x) ==
  CASE x = Unrelated -> "idle"
    [] at[x] \in {"idle", "unused"} -> at[x]
    [] OTHER -> "gone"

(* Mutant: the child keeps the inherited finder on sys.meta_path.          *)
ForkKeepingFinder ==
  /\ forks < MaxForks
  /\ forks' = forks + 1
  /\ registry' = NoFinder
  /\ callbacks' = [f \in Finders |-> callbacks[f] /\ f # registry]
  /\ lock' = NoOne
  /\ at' = [x \in Actors |-> AfterFork(x)]
  /\ UNCHANGED <<importVars, meta_path, task, unloads>>

(* _reset_after_fork in the child, where no other thread lives on; an      *)
(* import that was under way keeps its module lock and its half module.    *)
Fork ==
  /\ forks < MaxForks
  /\ forks' = forks + 1
  /\ meta_path' = meta_path \ {registry}
  /\ registry' = NoFinder
  /\ callbacks' = [f \in Finders |-> callbacks[f] /\ f # registry]
  /\ lock' = NoOne
  /\ at' = [x \in Actors |-> AfterFork(x)]
  /\ UNCHANGED <<importVars, task, unloads>>

ImportStep ==
  \E i \in Importers : FindSpec(i) \/ Insert(i) \/ ExecModule(i) \/ DeleteFailed(i)
                       \/ Pop(i) \/ Reinsert(i) \/ ClearInitializing(i)
CallerStep(c) == Check(c) \/ Install(c) \/ Recheck(c) \/ Fire(c)
DeliveryStep ==
  \/ \E f \in Finders : Watch(f) \/ UnrelatedImport(f)
  \/ \E x \in Actors : Complete(x)

(* What happens between a call of after_import and a call of the callback. *)
HookStep == ImportStep \/ (\E c \in Callers : CallerStep(c)) \/ DeliveryStep

DeferredNext ==
  \/ HookStep \/ Unload \/ Fork
  \/ \E c \in Callers : AfterImport(c)
  \/ \E x \in Actors, raised \in BOOLEAN : CallbackReturns(x, raised)

DeferredSpec == DeferredInit /\ [][DeferredNext]_diVars

-----------------------------------------------------------------------------
(* "No interleaving can strand a pending callback or leak a resident       *)
(* finder" (deferred_import.py:180): when every thread that imports or     *)
(* observes the module has finished, a module that is fully imported has   *)
(* no finder left waiting for it.                                          *)
NeverStranded ==
  (\A x \in Actors : at[x] \in {"idle", "unused", "made", "done", "returned", "raised"}) /\ Ready
    => meta_path = {}
=============================================================================
