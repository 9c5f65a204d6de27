--------------------------- MODULE PipelineWorker ---------------------------
(***************************************************************************)
(* One worker process of the host: the construction of pipelines over      *)
(* verified packages (integrations/vllm_omni/pipelines), the load of the   *)
(* beta4 weights, and the requests that the curve-cache pipeline serves.   *)
(*                                                                         *)
(* Constructing swaps classes of the host's modules, so it happens under   *)
(* one lock, with a latch that allows one adapted model and one adapted    *)
(* pipeline per process.  Threads may construct at the same time, and may  *)
(* fail at every step; the files of a package may change under them.       *)
(***************************************************************************)
EXTENDS H3Schedule, Beta4Binding

CONSTANTS Slots, Reqs,
          SlotFile,             \* [Slots -> the shard a slot is read from]
          Route,                \* what a package's contract selects: "beta4", "curve", "official"
          NoThread, NoPackage, NoMode, NoReq,
          Casts                 \* bound: what may happen together in a behaviour

ASSUME PipelineWorkerAssumption ==
  /\ Route \in [Packages -> {"beta4", "curve", "official"}]
  /\ \A k \in Packages : Route[k] = "beta4" <=> Recorded[k] \in Exports
  /\ SlotFile \in [Slots -> {Shards[i] : i \in 1..Len(Shards)}]
  /\ NoThread \notin Threads /\ NoPackage \notin Packages /\ NoMode \notin Modes
  /\ NoReq \notin Reqs
  /\ Casts \subseteq [packages : [Threads -> SUBSET Packages], edits : Nat, requests : BOOLEAN]

VARIABLES
  cast,         \* which packages each thread opens, how many edits, whether requests
  lock,         \* CONSTRUCTION_LOCK
  latch,        \* WorkerConstructionState, the *_constructed half
  host,         \* what the host's modules name: the DiT class and its parts
  binding,      \* _PACKAGE_BINDING of the two pipeline modules, _BUILD_STATE
  thread,       \* a construction and what it has built
  built,        \* adapted models that were completed in this process
  slot,         \* the data each loaded slot was read from
  load,         \* "none", "reading", "ready", "failed", for beta4 and for curve
  request_lock, request, active

constructionVars == <<lock, latch, host, binding, thread, built>>
requestVars == <<request_lock, request, active>>
fileVars == <<cast, file, clock, check>>
workerVars == <<fileVars, constructionVars, slot, load, requestVars>>

Official == [model |-> "official", parts |-> "official"]
NoBinding == [beta4 |-> NoPackage, curve |-> NoPackage, build |-> NoPackage]

WorkerInit ==
  /\ cast \in Casts
  /\ BindingInit
  /\ lock = NoThread
  /\ latch = [model |-> FALSE, pipeline |-> FALSE]
  /\ host = Official
  /\ binding = NoBinding
  /\ thread = [t \in Threads |-> [pc |-> "idle", pkg |-> NoPackage, kind |-> "none", saved |-> Official,
                                  model |-> "none", parts |-> "none", bound |-> NoPackage]]
  /\ built = 0
  /\ slot = [t \in Threads |-> [s \in Slots |-> NoData]]
  /\ load = [t \in Threads |-> "none"]
  /\ request_lock = NoReq
  /\ request = [r \in Reqs |-> [pc |-> "idle", asked |-> NoReq, mode |-> NoMode, step |-> 0]]
  /\ active = NoMode

Kind(t) == thread[t].kind
At(t, pc) == thread[t].pc = pc

(***************************************************************************)
(* H3ComfyMiniMaxH3Pipeline.__new__: the package behind the model path is  *)
(* verified whole, outside the lock; what the verification bound selects   *)
(* the route. A legacy package is a curve-cache one by its manifest.       *)
(***************************************************************************)
ResolvePackage(t, k) ==
  /\ At(t, "idle") /\ k \in cast.packages[t]
  /\ IF Route[k] = "curve"
     THEN /\ thread' = [thread EXCEPT ![t].pc = "verified", ![t].pkg = k, ![t].kind = "curve"]
          /\ UNCHANGED check
     ELSE /\ thread' = [thread EXCEPT ![t].pc = "resolving", ![t].pkg = k]
          /\ BindingStart(t, k)
  /\ UNCHANGED <<cast, file, clock, lock, latch, host, binding, built, slot, load, requestVars>>

Verify(t) ==
  /\ BindingStep(t)
  /\ UNCHANGED <<cast, constructionVars, slot, load, requestVars>>

Resolved(t) ==
  /\ At(t, "resolving") /\ check[t].phase \in {"bound", "undeclared", "refused"}
  /\ thread' = [thread EXCEPT ![t].pc = IF check[t].phase = "refused" THEN "raised" ELSE "verified",
                              ![t].kind = CASE check[t].phase = "bound" -> "beta4"
                                            [] check[t].phase = "undeclared" -> "official"
                                            [] check[t].phase = "refused" -> "none"]
  /\ UNCHANGED <<fileVars, lock, latch, host, binding, built, slot, load, requestVars>>

(***************************************************************************)
(* The pipeline's constructor up to the host's own: the latch, the checks, *)
(* the binding, the substituted DiT class.  The official pipeline only     *)
(* takes the lock.                                                         *)
(***************************************************************************)
TakesLock(t) == lock = NoThread

TakesLockIfAdapted(t) == lock = NoThread \/ Kind(t) = "official"   \* Mutant: the official one does not wait

MayConstruct(t) == TakesLock(t)

\* accepted: the host's configuration and model path suit the route.
Enter(t, accepted) ==
  /\ At(t, "verified") /\ MayConstruct(t)
  /\ IF Kind(t) = "official"
     THEN /\ lock' = t /\ thread' = [thread EXCEPT ![t].pc = "host"] /\ UNCHANGED <<host, binding>>
     ELSE IF latch.pipeline \/ ~accepted \/ binding[Kind(t)] # NoPackage
     THEN /\ thread' = [thread EXCEPT ![t].pc = "raised"] /\ UNCHANGED <<lock, host, binding>>
     ELSE /\ lock' = t
          /\ thread' = [thread EXCEPT ![t].pc = "host", ![t].saved.model = host.model]
          /\ binding' = [binding EXCEPT ![Kind(t)] = thread[t].pkg]
          /\ host' = [host EXCEPT !.model = Kind(t)]
  /\ UNCHANGED <<fileVars, latch, built, slot, load, requestVars>>

\* Leaving the constructor, one way or the other, undoes what Enter did.
RestoreModel(t) == [host EXCEPT !.model = thread[t].saved.model]
ForgetModel(t) == host          \* Mutant: the class stays substituted after a failure

Restored(t) == RestoreModel(t)

Leave(t, pc) ==
  /\ lock' = NoThread
  /\ IF Kind(t) = "official" THEN UNCHANGED <<host, binding>>
     ELSE host' = Restored(t) /\ binding' = [binding EXCEPT ![Kind(t)] = NoPackage]
  /\ thread' = [thread EXCEPT ![t].pc = pc]

\* Anything may raise in the host's constructor: the guards of the model's
\* constructor, a second transformer that meets the latch, a missing file.
HostFails(t) ==
  /\ thread[t].pc \in {"host", "unwind", "rest"}
  /\ Leave(t, "raised")
  /\ UNCHANGED <<fileVars, latch, built, slot, load, requestVars>>

(***************************************************************************)
(* The host's constructor builds the DiT by the name it finds.  An adapted *)
(* one latches, takes the binding, checks that the beta4 export is as it   *)
(* was verified, and substitutes the parts around the official one.        *)
(***************************************************************************)
LatchFree == ~latch.model
LatchAny == TRUE        \* Mutant: the model's latch is not consulted

ModelAllowed == LatchFree

BuildOfficial(t) ==
  /\ At(t, "host") /\ host.model = "official"
  /\ thread' = [thread EXCEPT ![t].pc = "rest", ![t].model = "official", ![t].parts = host.parts]
  /\ UNCHANGED <<fileVars, lock, latch, host, binding, built, slot, load, requestVars>>

BuildAdapted(t) ==
  LET kind == host.model
      bound == binding[kind]
  IN
  /\ At(t, "host") /\ kind # "official"
  /\ ModelAllowed /\ bound # NoPackage /\ binding.build = NoPackage
  /\ kind = "beta4" => BindingUnchanged(t)
  /\ thread' = [thread EXCEPT ![t].pc = "parts", ![t].model = kind, ![t].bound = bound,
                              ![t].saved.parts = host.parts]
  /\ host' = [host EXCEPT !.parts = kind]
  /\ binding' = IF kind = "curve" THEN [binding EXCEPT !.build = bound] ELSE binding
  /\ UNCHANGED <<fileVars, lock, latch, built, slot, load, requestVars>>

\* The parts are built, the classes put back, and the layout checked: then
\* the model is latched, whatever becomes of its pipeline.
FinishParts(t, pc, done) ==
  /\ At(t, "parts")
  /\ thread' = [thread EXCEPT ![t].pc = pc, ![t].parts = host.parts]
  /\ host' = [host EXCEPT !.parts = thread[t].saved.parts]
  /\ binding' = [binding EXCEPT !.build = NoPackage]
  /\ latch' = [latch EXCEPT !.model = @ \/ done]
  /\ built' = IF done THEN built + 1 ELSE built
  /\ UNCHANGED <<fileVars, lock, slot, load, requestVars>>

PartsBuilt(t) == FinishParts(t, "rest", TRUE)
PartsFail(t) == FinishParts(t, "unwind", FALSE)

(***************************************************************************)
(* The rest of the host's constructor, then the checks that follow it: the *)
(* adapted class was built, for the one Ref2VA partition.                  *)
(***************************************************************************)
HostBuilt(t, ref2va) ==
  /\ At(t, "rest")
  /\ LET good == Kind(t) = "official" \/ (thread[t].model = Kind(t) /\ ref2va)
     IN  /\ Leave(t, IF good THEN "constructed" ELSE "raised")
         /\ latch' = [latch EXCEPT !.pipeline = @ \/ (good /\ Kind(t) # "official")]
  /\ UNCHANGED <<fileVars, built, slot, load, requestVars>>

(***************************************************************************)
(* H3Beta4DiTModel.load_weights: the export is compared before the first   *)
(* and after the last slot is read; every slot once, no other.             *)
(***************************************************************************)
Has(t, kind) == At(t, "constructed") /\ Kind(t) = kind
Loads(t, to) == load' = [load EXCEPT ![t] = to]

BeginLoad(t) ==
  /\ Has(t, "beta4") /\ load[t] = "none"
  /\ Loads(t, IF BindingUnchanged(t) THEN "reading" ELSE "failed")
  /\ UNCHANGED <<fileVars, constructionVars, slot, requestVars>>

ReadSlot(t, s) ==
  /\ load[t] = "reading"
  /\ IF slot[t][s] = NoData /\ Exists(Path(t, SlotFile[s]))
     THEN slot' = [slot EXCEPT ![t][s] = file[Path(t, SlotFile[s])].data] /\ UNCHANGED load
     ELSE Loads(t, "failed") /\ UNCHANGED slot
  /\ UNCHANGED <<fileVars, constructionVars, requestVars>>

LoadComplete(t) == (\A s \in Slots : slot[t][s] # NoData) /\ BindingUnchanged(t)
LoadCounted(t) == \A s \in Slots : slot[t][s] # NoData   \* Mutant: no comparison after the last slot

MayServe(t) == LoadComplete(t)

\* The stream of weights ends, complete or not.
EndLoad(t) ==
  /\ load[t] = "reading"
  /\ Loads(t, IF MayServe(t) THEN "ready" ELSE "failed")
  /\ UNCHANGED <<fileVars, constructionVars, slot, requestVars>>

\* H3CurveCachePipeline.eval: the cache made resident
Eval(t) ==
  /\ Has(t, "curve") /\ load[t] = "none"
  /\ Loads(t, "ready")
  /\ UNCHANGED <<fileVars, constructionVars, slot, requestVars>>

(***************************************************************************)
(* H3CurveCachePipeline.forward and diffuse: one request at a time; its    *)
(* plan indices are active from activate() to the end of the denoising,    *)
(* however that ends.                                                      *)
(***************************************************************************)
Tasks == {"t2va", "fl2va", "ref2va"}
BlockKinds == {"image", "video", "audio", "video_audio"}

CacheModes == {CacheMode(task, blocks) : task \in Tasks, blocks \in SUBSET BlockKinds}

Serving == \E t \in Threads : Has(t, "curve")
Resident == \E t \in Threads : Has(t, "curve") /\ load[t] = "ready"
Answer(r, pc) == request' = [request EXCEPT ![r].pc = pc]

LockIsFree == request_lock = NoReq
LockIsAny == TRUE      \* Mutant: requests are not serialized

MayForward == LockIsFree

\* Under the lock the request is normalized; extra copies are all that changes.
Forward(r) ==
  /\ Serving /\ cast.requests /\ request[r].pc = "idle" /\ MayForward
  /\ \E q \in Requests :
       CASE Admission(q) = 200 -> /\ request_lock' = r
                                  /\ request' = [request EXCEPT ![r].pc = "admitted", ![r].asked = q]
         [] Admission(q) = 409 -> UNCHANGED request_lock /\ Answer(r, "uncompiled")
         [] Admission(q) = 400 -> UNCHANGED request_lock /\ Answer(r, "invalid")
  /\ UNCHANGED <<fileVars, constructionVars, slot, load, active>>

\* diffuse, with the task and the reference blocks the host made of it
Activate(r) ==
  /\ request[r].pc = "admitted"
  /\ IF ~Resident \/ active # NoMode
     THEN /\ Answer(r, IF Resident THEN "overlap" ELSE "error")
          /\ request_lock' = NoReq /\ UNCHANGED active
     ELSE \E mode \in CacheModes :
            /\ request' = [request EXCEPT ![r] =
                             [pc |-> "denoise", asked |-> NoReq, mode |-> mode, step |-> 1]]
            /\ active' = mode /\ UNCHANGED request_lock
  /\ UNCHANGED <<fileVars, constructionVars, slot, load>>

\* selection(): the plan of the active schedule at the host's step.
Selected(r) == PlanIndex[active][request[r].step]
SpanFound(r) == SpanOf(Token(Selected(r))) = {Selected(r)}

Denoise(r) ==
  /\ request[r].pc = "denoise" /\ active # NoMode /\ request[r].step <= Steps
  /\ SpanFound(r)
  /\ request' = [request EXCEPT ![r].step = @ + 1]
  /\ UNCHANGED <<fileVars, constructionVars, slot, load, request_lock, active>>

EndDiffuse(r) ==
  /\ request[r].pc = "denoise"
  /\ Answer(r, IF request[r].step > Steps THEN "answered" ELSE "error")
  /\ active' = NoMode /\ request_lock' = NoReq
  /\ UNCHANGED <<fileVars, constructionVars, slot, load>>

\* Another process changes the exported files of a package: nobody looks
\* again at those of the other routes.
EditPackage(k) ==
  /\ Route[k] # "curve" /\ clock <= cast.edits
  /\ \E t \in Threads : k \in cast.packages[t]
  /\ clock' = clock + 1
  /\ \/ \E name \in FileNames, data \in Exports \cup {Torn} :
          RewriteFile(<<k, name>>, data) \/ ReplaceFile(<<k, name>>, data)
     \/ \E name \in FileNames : ReplaceFile(<<k, name>>, NoData)
     \/ \E data \in Exports : ExchangeExport(k, data)
  /\ UNCHANGED <<cast, check, constructionVars, slot, load, requestVars>>

\* What threads, requests and other processes do on their own.
WorkerStep ==
  \/ \E t \in Threads :
       \/ \E ok \in BOOLEAN : Enter(t, ok) \/ HostBuilt(t, ok)
       \/ Verify(t) \/ Resolved(t)
       \/ HostFails(t) \/ BuildOfficial(t) \/ BuildAdapted(t) \/ PartsBuilt(t) \/ PartsFail(t)
       \/ BeginLoad(t) \/ EndLoad(t) \/ Eval(t)
       \/ \E s \in Slots : ReadSlot(t, s)
  \/ \E r \in Reqs :
       \/ Forward(r) \/ Activate(r)
       \/ Denoise(r) \/ EndDiffuse(r)
  \/ \E k \in Packages : EditPackage(k)

WorkerNext == WorkerStep \/ \E t \in Threads, k \in Packages : ResolvePackage(t, k)

WorkerSpec == WorkerInit /\ [][WorkerNext]_workerVars

-----------------------------------------------------------------------------
(* Properties.                                                             *)

(* Whatever fails, the host's modules are as they were when nobody         *)
(* constructs: no later pipeline meets a substituted class or a binding of *)
(* another's ("restore the exact original objects even when host           *)
(* construction raises", scoped_construction.py:51).                       *)
HostRestored == lock = NoThread => host = Official /\ binding = NoBinding

(* A pipeline that was constructed is of one kind, in its model, the parts *)
(* of it and the package they are bound to: the kind its package has, and  *)
(* for a beta4 package still that one while one of the documents that      *)
(* declare it is untouched ("an attempted beta4 policy cannot fall         *)
(* through", beta4_binding.py:376).                                        *)
RouteHonoured ==
  \A t \in Threads : At(t, "constructed") =>
    LET k == thread[t].pkg
    IN  /\ thread[t].model = Kind(t) /\ thread[t].parts = Kind(t)
        /\ thread[t].bound = IF Kind(t) = "official" THEN NoPackage ELSE k
        /\ clock = 1 => Kind(t) = Route[k]
        /\ Route[k] = "beta4" /\ clock <= Cardinality(Declaring) => Kind(t) = "beta4"

(* One adapted model per worker process, counting one whose pipeline       *)
(* failed after it.                                                        *)
OneModel == built <= 1

(* A beta4 model serves one committed export: the documents it was        *)
(* accepted by, the digests of its shards and every slot are of the same   *)
(* one, although another process rewrites, replaces, removes or exchanges  *)
(* files between any two reads of the verification, the construction and   *)
(* the load.                                                               *)
ReadyIsVerified ==
  \A t \in Threads : Has(t, "beta4") /\ load[t] = "ready" =>
    \E x \in Exports :
      /\ \A name \in FileNames : check[t].bound[name].data = x
      /\ \A s \in Slots : slot[t][s] = x

(* No request is refused because of another: the scope of a request is     *)
(* over, and forgotten, before the next may begin.                         *)
NeverOverlap == \A r \in Reqs : request[r].pc # "overlap"

(* The cached rows that an evaluation uses are those compiled for exactly  *)
(* the timesteps of this request's mode and step, though selection()       *)
(* compares no more of them than their number (cache_pipeline.py:199).     *)
SelectsComputed ==
  \A r \in Reqs : request[r].pc = "denoise" /\ request[r].step <= Steps =>
    /\ SpanFound(r)
    /\ Plans[Selected(r)] = Candidates(request[r].mode, request[r].step)

(* A request that asks, in any of its two forms, for another schedule than *)
(* the compiled one is not run.                                            *)
AdmittedAsCompiled ==
  \A r \in Reqs : request[r].pc = "admitted" =>
    LET q == request[r].asked
    IN  Range(q.canonical) \cup Range(q.legacy) \cup {q.fixed} \subseteq {"absent", "compiled"}
=============================================================================
