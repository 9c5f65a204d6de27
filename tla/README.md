# comfy-omni in TLA+

A verification project for the Python package `src/src/comfy_omni` (paths below
are relative to that directory). It models the parts of the system in which
order, failure and other processes matter, checks them with TLC on small
instances, and proves the results that matter most with TLAPS for every value of
the constants.

## 1. The system

comfy-omni turns ComfyUI checkpoints of one model family (H3) into packages that
an external host (vLLM-Omni) serves, and plugs the model and a component
API into that host. Everything it writes follows one discipline: hold the inputs
open and remember their identity, write into a private place, publish without
overwriting, put a receipt or manifest last, refuse on any doubt.

| Component | State it keeps | Operations | Interacts with | What is hard |
|---|---|---|---|---|
| Native export (`conversion/packaging/native_export.py`, `conversion/exporters/execution.py`) | private stage, output directory, published inodes, manifest | prepare, stage, publish, clean up | sources, writer, other exports through the output path | races for the path, foreign changes between check and use, crash before the manifest, partial cleanup |
| Pinned sources (`artifacts/sources.py`) | open descriptors with identity and digest | open, read ranges, `verify_unchanged` | owners of the checkpoint files | a file rewritten, restored or replaced while it is read |
| File primitives (`artifacts/fileops.py`, `safetensors_writer.py`, `immutable_links.py`) | none | pinned read and hash, exclusive copy and write, link or copy | everything that reads or writes | partial files after a failed write, shared inodes |
| Package pipeline (`conversion/packaging/{receipts,planning,verification,materialization,publication}.py`) | receipts, plan, stage, package | receipt, plan, verify, materialize, publish | component owners, runtime contract | sources that move between the steps, two publications, failure after the first written file |
| Runtime contract and serving layout (`integrations/vllm_omni/{package_contract,serving}.py`) | a symlink view in a work directory | validate, prepare, clear | published packages, the host | validation of a changing tree, two prepares of one directory |
| Deferred import hook (`integrations/vllm_omni/deferred_import.py`) | finder registry, `sys.meta_path`, watcher threads | `after_import`, `find_spec`, `complete`, fork reset | importlib, importing threads, forks | delivery exactly when the module is ready, never lost, never twice |
| Bootstrap (`integrations/vllm_omni/{bootstrap,api_phase}.py`) | registration state and API state under an RLock | `register`, arm, mount | hook, host registry | lock order with the hook, failure and retry of either phase |
| Snapshot store, normalization (`artifacts/{snapshot_store,normalization}.py`) | content-addressed files; artifact and receipt | write, load; stage, link twice | crash, concurrent readers | a short write or crash between create and fill, between the two links |
| Contract workflow (`conversion/contract_workflows/`) | census, draft, review, pinned contract | census, draft, match, pin | snapshot store, templates | pinning a draft whose inputs moved on |
| Export planning, TE NVFP4 (`conversion/exporters/`) | plan values | classify tensors, group quantisation | contracts, headers, the store | every tensor exactly once, a plan executed on reopened sources |
| LoRA (`conversion/lora/`) | normalized adapter, bake plan, open sessions, worker and oracle receipts | normalize, plan, fold each module, audit, aggregate, compare | files others rewrite, shared directories, the process-wide matmul precision | one content from header to last row, every planned module exactly once, receipts that belong together |
| Component catalog and routes (`runtime/components/catalog.py`, `api/routes/components.py`) | a global catalog, its lock | build, scan, list | concurrent requests | an older scan published over a newer one, reset races |
| Pipelines, H3 runtime (`integrations/vllm_omni/pipelines/`, `runtime/h3/`) | construction latches, package binding, request lock, active schedule | construct, bind, load, admit requests, select rows | host, packages | one-shot latches after a failure, files that change during a load, rows compiled for another schedule |
| Checkpoint oracles, numerics, CLI, scripts | none that persists | | | floating point, external processes |

What makes each correct, in one line: an export or a package that can be seen is
whole and is what its plan pinned; a refusal takes back what it made and nothing
else; a registration is delivered once, to a module that is ready, or stays
armed; a store or receipt never names what is not completely there; a workflow
only pins what was reviewed; a catalog answer is some complete scan, no older
than one already shown.

`PROJECT.json` lists every component with what is modelled of it, and under
`hazards` each place where the code could go wrong in a way a test would hardly
reach, with the properties that would catch it.

## 2. The modules

| Module | Models |
|---|---|
| `AtomicPublication` | abstract: what a no-overwrite, receipt-last publisher promises about one output |
| `NativeExport` | the native export transaction with its sources, other processes and crashes |
| `NativeExport_proofs` | theorems about its sources, then about its output directory, with the refinement of `AtomicPublication` |
| `NativePackage` | receipts, plan, materialization, publication and validation of a package |
| `NativePackage_proofs` | theorems about it, with the refinement of `AtomicPublication` |
| `DeferredImport` | the import hook between importlib's own steps |
| `Bootstrap` | `register()` and the API phase, composed with `DeferredImport` (it extends it and conjoins its actions) |
| `Bootstrap_proofs` | theorems about both |
| `ServingLayout` | the view of a package in a work directory: prepare and clear |
| `H3Schedule` | operators: the compiled denoise schedule and the admission of requests against it |
| `Beta4Binding` | the verification of a package's files and the binding of its beta4 export, file by file |
| `PipelineWorker` | a worker process: construction of pipelines, load of beta4 weights, requests of the curve cache (it extends `H3Schedule` and `Beta4Binding`) |
| `PipelineWorker_proofs` | theorems about both: the files a verification binds, then construction, requests, load and route |
| `ComponentCatalog` | the catalog of the API server behind its three routes |
| `HostServing_proofs` | theorems about the view and the catalog, what the host is started and asked with |
| `HeldFiles` | files that others rewrite or replace while a command holds them open |
| `QkvLayout` | operators: rows of a fused QKV matrix, grouped and Q, K, V |
| `CheckpointCensus` | operators: what the contract workflow concludes from one checkpoint |
| `ExportPlan` | operators: the plan of a dense export and the rows its execution writes |
| `ArtifactNormalization` | normalizations racing for one artifact and receipt |
| `ContractStore` | draft, pin, snapshot store and export over changing checkpoints, composed with `ArtifactNormalization`, `CheckpointCensus` and `ExportPlan` |
| `SequenceLemmas` | lemmas: induction as sets of naturals, functions defined by their own values, concatenations and pieces, and the round trip of the rows of `QkvLayout` |
| `ContractStore_proofs` | theorems about normalization, drafts, pins, the store and exports |
| `LoraAdapter` | operators: contracts of an adapter, bake operations, partitions and windows of rows |
| `LoraNormalize`, `LoraFold`, `BakeAudit`, `FoldOracle` | the LoRA commands, one module each |
| `LoraWorkflow` | their composition over one set of files |
| `LoraWorkflow_proofs` | theorems about normalization, fold sessions, audits and the oracle, whoever else runs |
| `MC*` | small instances: model values, symmetry, small checkpoints |

In every module an action is one step of the code between two points at which
another process or thread can intervene, and carries the name of the function or
the step it stands for. Definitions marked *Mutant* are not part of the
specification: each is the form a plausible bug would give the definition that
follows it, and shows that the property named in `PROJECT.json` would notice.

### NativeExport

`pc[r]` walks a run through `prepare_native_export` (Prepare), the sources
(OpenSource, Validate), staging (WriteChunk, VerifyStaged), and
`publish_native_export`: EnterPublish, Claim (the `mkdir`), PinOutput (the
`lstat` after it), Link, CheckLinked, HashPublished, VerifySource
(`before_manifest`), Recheck, CreateManifest, FillManifest, ReadBack, and the
`except BaseException` cleanup (CleanDir to CleanRmdir). Directories are named
by the run that made them, files by the run that linked them. Other processes
rewrite or replace sources, move the output directory away or exchange it, add,
replace or delete entries, put a copy of an artifact in its place (another file
with the same bytes, such as an earlier export left), move the parent, or write
into staged files. Stop is a kill or an error outside the guarded block, Interrupt
an exception inside it. HashPublished compares digest and size only and records
whatever file the name denotes: one that is identical is from then on the run's own,
to commit or to take back, be it a copy or a file another run has linked.

Assumed: every write to a source changes what `fd_identity` compares (a write
within the timestamp granularity of the file system is not modelled); a foreign
file is a copy of an artifact or has another digest; inode numbers are not reused,
except that the foreign directory is one identity; a retry of a failed export is
another run. The order of chunks and of artifacts is left open. A property that
excepts changes in a check-to-use window names the windows (`Window`).

### NativePackage

One plan for all components (HashComponent and VerifyUnchanged are the two
passes of `parse_component_receipt`; Plan checks the census, the producer and
that no directory is used twice). A materialization verifies the sources again,
makes a stage, and copies or hard-links every file: a staged entry remembers the
source directory it shares its inode with, so a later write to the source
changes the stage and the package too. A publication checks the stage and its
census (no index or manifest of an earlier attempt), hashes every file, writes
the index, then the manifest, each of which may be left partial, checks the
output path once more and renames. `RenameAllowed` is what rename(2) does: an
empty directory at the output path *is* replaced. A validation reads the index,
the manifest, the census and every file's digest. It has no plan to compare with:
`listed` is what the manifest in the package says of the files, `record` what one
validation has read there, and EditManifest rewrites it (with the digest the
manifest has of itself, which anybody can compute).

Assumed: a pinned hash and a pinned copy are one step (if the file moves
meanwhile they refuse); a stage or parent directory is not exchanged under a
running call (a stage may vanish); the published package is not moved away; the
copy budget, sizes, and the syntax of paths, digests and JSON are abstracted. A
kill needs no action: a call without fairness may stop for ever, and nothing in
this code is undone.

### DeferredImport and Bootstrap

One target module and the one callback the program registers
(`_register_apis` for the host's API server module). A module object is named
by the import that creates it. importlib's steps are actions of their own
because the hook depends on them: FindSpec, Insert (into `sys.modules`),
ExecModule (the wrapped loader), Pop and Reinsert (`_load_unlocked`),
DeleteFailed, ClearInitializing. `after_import` is AfterImport, Check, Install,
Recheck, Fire; the watcher is Watch; the opportunistic retirement by imports of
other modules is UnrelatedImport; `complete()` is Complete, which takes the
callback under `_LOCK`, and CallbackReturns. `Bootstrap` adds the
`_registration_lock` (an RLock: `HasLock`), the two phases and the mount.
ForkProcess switches the model to the child: other threads are gone, the two
`_reset_after_fork` handlers have run, importlib's module lock of a thread that
no longer exists stays held.

Assumed: `_module_ready` is one atomic read; only a ready module is unloaded;
one thread at a time imports something else; the callback does not itself import
through the armed finder; import locks taken by `register()` for the host's
registry are not modelled. The early returns of `_register_apis`
(`bootstrap.py:101-106`) are not actions: `DeliveryIsWanted` shows they are never
taken.

### ServingLayout

One step per system call of `prepare_serving_layout` (Validate, Exists,
InspectEntries, InspectLink for a layout that is there; Mkdir, OpenMarker,
FillMarker, MakeView, Link, VerifyView for a new one; RemoveLink, RemoveView,
RollBackMarker, RemoveWork for the rollback) and of `clear_serving_layout`.
Every entry of the work directory remembers who made it, which the code does not
know; only properties look at it. `Creates` is the shape all creating calls share:
succeed, or fail and go to the rollback with what was made so far. `Removes` is
that of the rollback's: succeed, or fail and go on all the same, for the code passes
over the error; `stuck` remembers the entry for the property. A removal that fails
in a clear refuses it where it stands (`Unmakes`). LoseEntry removes an entry of a
package, Kill ends a prepare anywhere. `Overlapping` says whether two prepares
may work at the same time: the run with FALSE shows what holds for the command
as it is used, one at a time, the run with TRUE the claim that needs it.

### PipelineWorker, Beta4Binding and H3Schedule

A thread resolves its package: `validate_runtime_package` compares the tree with
the manifest and hashes each file, `optional_beta4_binding` reads the documents
that may declare the profile, and `verify_beta4_component` reads them again,
opens, hashes and binds the shards and compares everything once more, each file
in a step of its own, `check[t]` being how far it has come. Between any two steps another process may
rewrite a file, replace or remove it, or exchange the whole export. What the
verification bound decides the route. `data` names the export a file belongs to,
so that two files agree, by their digests, iff their data are equal.
`ReadyIsVerified` says that one committed export is served, not that it is the one
the package's manifest lists: an export exchanged as a whole between the hashing
and the binding is bound as it is, for the binding is not compared with the
manifest of the package.

The thread then enters the construction under `CONSTRUCTION_LOCK`, substitutes,
lets the host build model and parts, and leaves; HostFails may strike at any step of the host's
constructor, and the scopes unwind innermost first. The latches
(`model_constructed`, `pipeline_constructed`) are one record. A beta4 load
compares the binding (`BindingUnchanged`), reads the slots one by one, each from
its shard, and compares again. Requests of the curve pipeline are
admitted (`Admission`, from `runtime/h3/requests.py`), take the request lock,
activate the plan indices of their mode, and select rows per step. `H3Schedule`
builds the plans the way the compiler does, in order, equal plans merged; a
timestep is a whole number with the order and equality of its FP32 value.

### ComponentCatalog

A request arrives, takes or builds the catalog under `_BUILD_LOCK` (Unconfigured
is the refusal and the reset), scans root by root outside any lock, publishes
under the catalog's lock, lists. Disk, mounted roots and environment change
between any two steps. A catalog object is named by the request that built it.
`began`, `scanned`, `floor` and `alone` are history: when the scan of an index
began, the newest scan of the catalog in use (`InUse`) that no overlapping scan
disputes, what `scanned` was when a request arrived, and whether a request met
no other. A file lies below one root: roots are not nested.

### HeldFiles, ContractStore and its parts

`HeldFiles` is the file system of the workflow modules: a rewrite moves the
stamp, a replacement the inode as well, and who holds a descriptor still reads
the old inode. `ContractStore` has a draft command (DraftStart to DraftWrite),
pins of its document (PinLoad, one PinHash per source, PinCreate with O_EXCL,
PinWrite which may stop short or fail, PinVerify which removes what is not
whole), an export that lists and loads the store, plans, reopens its sources,
copies the payload of one after the other through its descriptor (ExportWrite),
verifies them once more and commits, and the normalizations whose artifact may be what is drafted. A content
address is the pair of the name and of the promotion decision, all a snapshot of
one draft can differ in. What a command concludes from bytes it read is computed
by `CheckpointCensus` (storage kind, ConvRot groups, templates, candidate,
pinnable, loadable) and `ExportPlan` (authorization, operations, targets,
shards, order of rows); both speak about small checkpoints with real tables of
dtypes, shapes and markers. `cast` names who takes part in a behaviour.

### LoRA

A module of an adapter is stack, block and part; a file is a header (which adapter,
normalized by which profile) and an opaque body. `LoraNormalize` copies header
and payload in two reads into a staged file and links it. `LoraFold` is a
conversion process with several sessions: open and digest, one FoldCall per
module and one FoldRows per chunk, the report, close; what a fold computes is
recorded as what it read. `BakeAudit` has planners that hash shards one by one,
workers that hash them again, audit their share by windows of rows and close, and
an aggregator given any sequence of receipts. `FoldOracle` folds its targets by
the reference and by the candidate, links the candidate under its name and
confirms that the name has it, opens it again, reads it back and looks at the name
once more, and publishes the receipt the same way. Between any two of these steps
others move; a run that fails leaves what it has linked, receipt included
(`_safe_unlink_identity` removes nothing); permutations of rows are computed (`QkvLayout`), arithmetic is not:
which contents the two folds round equally is the constant `Parity`.
`LoraWorkflow` adds the world: edits of files, replacement of a directory, other
code that lowers the matmul precision.

Assumed in these modules: one read, stat or hash of one file is one step; the
workers of an audit are processes, each with a precision of its own; a rewrite
moves what a stat compares; JSON documents are read whole or refused.

## 3. What is checked

| Run | Instance | Shows |
|---|---|---|
| `export_sources` | 2 runs, 2 sources, 2 source writes | `SourceBinding`: no manifest, whole or truncated, exists unless every byte in every staged artifact is the one the plan pinned; `PublishesAtomically`: the export implements `AtomicPublication` |
| `export_foreign` | 2 runs, 2 artifacts, 2 parents, 2 foreign changes | `CommitIsWhole`, `CleanupOnlyOwn`, `CleanupComplete`: a committed output is whole, whoever wrote its files; a refused one is taken back as the rehash recorded it, nothing else is |
| `export_cleanup_claim` | 1 run, 1 foreign change | violation of `NeverRemovesForeign` (section 6) |
| `package` | 2 components, 2 stages (one sharing inodes), 2 publications, 1 validation, 1 change by others | `NoPartialPackage`, `PublishesThePlan`, `AcceptedIsPlanned`, `PublishesAtomically` |
| `bootstrap` | 2 `register()` calls, 2 imports, 2 finders, 1 unload, 1 fork, with fairness | `MountsFinishedModule`, `WaitingIsArmed`, `WorkerIsClean`, `DeliveryIsWanted`; `RegisterReturns`, `DeliveredOnceReady` |
| `deferred_strand` | 2 calls, 2 imports, the hook alone | violation of `NeverStranded` (section 6) |
| `serving` | 3 prepares one at a time, 1 clear, 2 packages, 3 faults | `ReturnedIsWhole`, `RefusedLeavesStuck`: a returned view is whole and of its own package, a refused prepare leaves only what its rollback could not remove |
| `serving_claim` | 2 overlapping prepares | violation of `RollbackOnlyOwn` (section 6) |
| `worker` | 2 threads, a package of each route, 3 documents, 2 shards and slots, 2 exports, 1 change of a file or an export (2 when one thread works alone), 2 requests, 2 steps in 5 modes | `HostRestored`, `RouteHonoured`, `OneModel`, `ReadyIsVerified`, `NeverOverlap`, `SelectsComputed`, `AdmittedAsCompiled` |
| `catalog` | 3 requests, 3 roots, 6 files of which 2 change, 2 edits | `AnswersWholeScan`, `FreshAnswers`, `RetryIsServed` |
| `contracts` | a draft, 3 pins, an export, 2 normalizations, by the casts of `MCContractStore`; 9 small checkpoints, 1 edit, 1 fault | `SnapshotDescribesSource`, `ReturnedPinLoads`, `ExportedIsAuthorized`, `ReceiptMarksWhole` |
| `lora` | 2 conversions, 3 sessions, 2 planners, 2 workers, 1 aggregator, 3 oracle runs, by the casts of `MCLora`; 5 adapted modules, 2 shards, 1 edit | `PublishedIsNormalized`, `ReportIsWholeFold`, `PassCoversPlan`, `ReceiptComparesThePlan` |

Bounds. Two source writes are what it takes to change a byte, let a chunk be
read, and restore it. Two runs are a race, and a third would only find the path
taken. Two foreign changes allow one
to undo the other between two checks, or to put a file in place of one and let it
be adopted. For the package, one change is enough to break every check: a
publication compares each file with the plan and a validation with the manifest it
has read once, neither with an earlier reading of the same file. What takes two
changes, a package accepted because a file and its record in the manifest were both
rewritten, is covered by the theorem and not by the run. Two stages and two publications give both races (of
two stages for the path, of two calls for one stage). For the hook, two imports
give a failed or unloaded module followed by another, two calls a registration
that meets an armed one, and a fork in any state; one unload, since a module that
keeps disappearing is never delivered.

For the serving view, three prepares are a killed one, one that meets its remains
and one for the other package; three faults are the failure that starts a rollback
and two inside it, which leave an entry and the directory below it or apart from it. For the worker, two threads give a construction during and
after another, and a retry after a failure is the second one; the schedule has
the five modes of the code and values chosen so that plans of the same width
differ and plans of different modes coincide. One change meets every pair of reads; a second one
could undo the first, and no exchange puts an export back in its old inodes
(section 5). For the catalog, three requests are
two overlapping scans and one that judges what they left; two edits change a file
and change it back, or lose a root.

`contracts` and `lora` compose many commands, of which not every subset has
anything to say to each other. `Casts` lists who runs together: commands of one
kind that race, a command and the one whose product it reads, and each of them
with those who change its files. One edit suffices: a rewrite moves a stamp for
good, so a second one could not hide the first. The checkpoints and adapters are
small but complete: every storage kind, a fused matrix with two groups, a matrix
of more rows than a chunk, both profiles, all kinds of adapted modules.
`MaxFaults` counts system calls that fail, short writes and crashes.

Deadlock is not checked where calls and changes are bounded, for then the system
stops. `RegisterReturns` states what a deadlock between the two locks would
break.

Fairness. `Bootstrap!Fairness` asks that a thread that can run does: started
calls, imports under way, watchers and deliveries. It also asks that imports
of other modules continue, which `DeliveredOnceReady` needs when the target was
imported past the finder: that is the code's own third way of delivery
(`_AfterImportFinder.find_spec`). No one is obliged to call `register()`, to
import the target, to unload it, or to fork. `NativeExport` and `NativePackage`
have no fairness: their properties are about what is visible at every
moment, including when a call never takes its next step.

## 4. What is proved

Every theorem holds for any number of runs, threads, files and commands and any
bounds. The ones that state a property of a run:

| Theorem | Property | From |
|---|---|---|
| `NativeExport_proofs!TypeCorrect`, `SourcesBound` | `TypeOK`, `SourceBinding` | |
| `NativeExport_proofs!CleanupTakesAllBack`, `CommittedOutputIsWhole`, `CleanupRemovesOnlyOwn` | `CleanupComplete`, `CommitIsWhole`, `CleanupOnlyOwn` | |
| `NativeExport_proofs!ExportsPublishAtomically` | `PublishesAtomically` | `MaxForeign = 0` |
| `NativePackage_proofs!PackageTyped`, `NeverPartial`, `AcceptedPackageIsPlanned`, `PublishedIsThePlan` | `TypeOK`, `NoPartialPackage`, `AcceptedIsPlanned`, `PublishesThePlan` | |
| `NativePackage_proofs!RefinesPublication` | `PublishesAtomically` | |
| `Bootstrap_proofs!CoordinatorTyped`, `RoutesOnFinishedModule`, `WaitingHasDeliverer`, `DeliveryWanted`, `WorkerClean` | `TypeOK`, `MountsFinishedModule`, `WaitingIsArmed`, `DeliveryIsWanted`, `WorkerIsClean` | |
| `HostServing_proofs!ReturnedViewIsWhole`, `FailureLeavesStuck` | `ReturnedIsWhole`, `RefusedLeavesStuck` | `~Overlapping` |
| `PipelineWorker_proofs!HostIsRestored`, `OneModelBuilt` | `HostRestored`, `OneModel` | |
| `PipelineWorker_proofs!ReadyModelIsVerified`, `RouteIsHonoured` | `ReadyIsVerified`, `RouteHonoured` | |
| `PipelineWorker_proofs!RequestsNeverOverlap`, `RequestsAsCompiled`, `SelectsWhatWasComputed` | `NeverOverlap`, `AdmittedAsCompiled`, `SelectsComputed` | |
| `HostServing_proofs!CatalogTyped`, `AnswersAreFresh`, `RetriesAreServed` | `CatalogTypeOK`, `FreshAnswers`, `RetryIsServed` | |
| `HostServing_proofs!AnswersAreWhole` | `AnswersWholeScan` | `DistinctRoots` |
| `LoraWorkflow_proofs!FoldsReportWhole` | `ReportIsWholeFold` | |
| `LoraWorkflow_proofs!PublishesNormalized` | `PublishedIsNormalized` | `OutputSpared` |
| `LoraWorkflow_proofs!PassSpeaksForThePlan` | `PassCoversPlan` | |
| `LoraWorkflow_proofs!ReceiptIsTheVerdict` | `ReceiptComparesThePlan` | `OneReceipt` |
| `ContractStore_proofs!ReceiptCommits`, `ReturnedPinsLoad`, `SnapshotsAreTrue`, `ExportsAreAuthorized` | `ReceiptMarksWhole`, `ReturnedPinLoads`, `SnapshotDescribesSource`, `ExportedIsAuthorized` | |

`CoordinatorSafe`, `ConstructionSafe`, `FilesSafe`, `StoreInvariant` and
`ExportInvariant` state the inductive invariants of their modules. With these,
every invariant and every safety action property that a passing run checks is a
theorem.

**Assumptions.** The named assumptions on constants (`NativeExportAssumption`,
`StoreAssumption` and so on) say that the model's special values are distinct
from ordinary ones, that tables have the shape the code gives them (every export
has artifacts, a template is found by its name, a schedule ascends, a
tensor's name is a prefix and a part, dimensions are positive and those that
`_partition_specs` splits are divisible, every operation of a plan that parses is of
one of its shards, as `_parse_operations` and the index of the base require), and
which paths belong to whom (an artifact is not its own receipt, others write sources
only, no directory of the oracle holds an adapter or a shard). TLC evaluates each on
the instances. Five hypotheses are stated in the theorems because the property is
false without them, and each is how the code is meant to be used:

* `MaxForeign = 0`: nobody but exports touches the output path. An outsider can
  remove what an export has committed, which is the window of section 6.
* `~Overlapping`: one `prepare_serving_layout` of a work directory at a time.
  With two, TLC refutes both properties.
* `DistinctRoots`: no component root is configured twice. Such a root is scanned
  twice, and a file removed between the scans stays in the index, beside what the
  second scan says.
* `OutputSpared`: while a conversion runs, only conversions write the path of
  the normalized adapter. The file is anybody's to change afterwards, and
  `FoldsReportWhole` needs no such hypothesis.
* `OneReceipt`: nobody but a run of the oracle writes the receipt, and where others
  replace the evidence directory, one run at a time uses it. A directory that
  was emptied accepts the receipt of another run, which then is not that of the
  first.

**The arguments.** Each invariant was checked by TLC on the instance of its run
before it was proved.

*Held files never come back.* `SourceBinding`, `ReadyIsVerified`,
`ReportIsWholeFold`, `PublishedIsNormalized`, `PassCoversPlan`,
`ReceiptComparesThePlan`, `SnapshotDescribesSource` say nothing of the steps
before the end, so none is inductive, and all rest on one idea: stamps and
inodes are given once, so while a path still has the stamp that was recorded
when it was opened, it has the bytes of then, and all that was read since is of
those bytes. The invariants state that conditional for every file held
(`StampPinsBytes` and `ReadOK` in the export; `DocumentsOK`, `HeldOK`,
`ShardsOK` in the binding; `SessionOf`, `ConvOf`, `ResultOf` and `ReadWhenKept`
in LoRA; `DraftOK` in the contract workflow), and the comparison the code makes
last discharges its condition (`VerifySource`, `VerifyShard` and `VerifyFile`,
`FoldReport`, `InputsUnchanged`, `OracleClose`, `VerifyStaged`, `Unchanged`).
The stamp is needed: with digests alone, bytes that are restored after a chunk
was read would pass. That is the mutant of `SourceBinding`.

*Export output (`OutputInv`).* A run's directory is in one place or nowhere, and
where it is nowhere its links are gone (`SingleOK`, `EarlyOK`, `ClaimOK`,
`SweepOK`). What a cleanup is about to unlink is the file it has checked, as long
as nobody changed anything around some claim or under some cleanup
(`NoneMoved`; `UnlinkOK`, `OwnDirOK`): with three runs, one that was misled exchanges
what a third has checked, so the hypothesis speaks of every run. What the rehash
recorded is of the planned bytes (`HashedOK`), and it is what the run linked as long
as nobody changed anything before a rehash (`NoneSwapped`, `EntryOK`). From the last
recheck to the full manifest nobody else can empty or extend a claimed directory
(`WholeOK`). The refinement (`AloneInv`) adds that nothing disturbs a run when there are no
outsiders, and maps FillManifest, the write that completes the manifest, to the
commit of `AtomicPublication`.

*Package.* A publication past a write has the whole file in its stage
(`WrittenOK`): exclusive creation keeps another publication of the same stage
from touching it. Once the output path names a stage it names it for good
(`RenamedOK`). The commit is the rename; Publish maps to Succeed or, if the fsync
fails after the fact, to Refuse. `PlanInv` and `DataInv` follow what a
publication and a reader have hashed so far (`HashedOK`, `SeenOK`), and that a whole
manifest lists the plan until somebody else rewrites it (`ListedOK`).

*Bootstrap (`IInv`).* A waiting API phase is one token. It is held by a deciding
call of `after_import`, by the registered finder, or by the actor about to run the
callback, and by exactly one of them (`TokenOK`). The rest says where each actor
is: who is about to deliver has seen the module finished (`SeenOK`), and completes
the registered finder or none (`AimedOK`); the finder installed between the two
checks of `after_import` is one nobody is completing (`CallerOK`).

*Serving layout (`IInv`).* With one prepare at work, what it has made, found or
undone is a function of its place (`StageOK`), unless it was disturbed by a clear;
the tree has no entry below one that is gone (`TreeOK`).

*Worker.* Whoever is inside a constructor holds the lock, and what the host's
modules name is determined by where that thread is and its kind (`LockAt`,
`ScopeAt`); the latch counts models (`LatchOK`). The route follows from the
documents: each change silences at most one declaring document (`SilentOK`), so
detection misses a declaration only after as many changes as there are
declaring documents.

*Catalog.* Whoever scans began no earlier than any scan that counts (`FreshOf`);
a catalog without roots is in the hands of a request that will reset it
(`NeverLeft`); the roots still to scan and those in the index are all roots, each
once (`Left`, `Found`).

*Contract store (`StoreInv`).* A staging inode has been seen by nobody
(`UnseenOK`), so linking it cannot restore what a draft has opened. A receipt
belongs to a run that has not begun to undo its artifact (`PublishedOK`): the
receipt is linked last and unlinked first. An address belongs to one pin until
that pin is refused (`PinsOK`), so PinVerify discards its own file and nobody
else's. A draft is the candidate of the bytes it records (`DocOK`), a snapshot has
a decision that draft allows (`StoreOK`), and where the known contract enforces a
schema that decision is to inherit it.

*Exports (`ExportInv`).* The two scans of an export are held files again
(`ReadOK`), what is copied of a source still unchanged is what it held
(`WritingOK`), the snapshots it loaded are complete and stay so (`LoadedOK`), and
its plan is made of the tables of one content (`PlanOK`), so what is written is a matter of operators alone: the names kept are every tensor but the
quantization ones, once each (`Kept`), the shards list them in that order, and
the bounded runs of an order are read back as that order (`AddRow`). A fused
matrix is then in the rows of `QkvToGrouped`, which is `GroupedRow` by the
division of a row number into group, part and rest.

*Schedule.* The plans are built one evaluation after the other; every evaluation
so far has its plan and every plan an evaluation (`PlanFor`). No plan is empty, so
the offsets increase and the span a token names is found back without ambiguity
(`SpanIsOne`), and a request under way denoises with its own mode active
(`DenoiseOK`).

*Audit and oracle (`AuditInv`, `OracleInv`).* What every step of the workflow does
to the files that somebody holds is stated once (`FilesMove`): a path keeps its
file, loses it, or gets one nobody has seen, so a file that is gone does not come
back (`Onward`), and everything said of a file held stays true while others move
(`WorkerWaits`, `RunWaits`). A worker's result is of the bytes its plan names
when its close finds the inputs unchanged; indices that differ below one count
share no operation (`OneAuditor`). Partitions tile an operation and windows tile a
partition, so what an audit reads, put together, is the whole row order
(`FlattenTiles`, `AuditReadsBase`). In the oracle, rows that are written in
serialized order read back as they were (`ReloadIs`, by `QkvRoundTrip`), so the two
folds differ exactly where they round differently (`FoldsAgree`); and a receipt
stays the one its run has staged or goes with its directory (`PublishedOK`).

*Induction over data.* The library's induction rule takes an operator and no
backend can apply it. `SequenceLemmas` states it for sets instead (a set of
naturals with 0 that is closed under successor is all of them), from the least
element of `WellFoundedInduction`, and derives what the proofs above need: a
function given by its own earlier values is determined, and what `FlattenSeq`
yields at each place.

**Only model-checked**, of the properties of the runs:

* `RegisterReturns` and `DeliveredOnceReady`: liveness under fairness is out of
  the prover's reach.

## 5. What is not modelled, and the plan

The plan of the proofs is done: what is left to prove of the runs' properties is
liveness. Next would be to model more of what is listed here, first the TE NVFP4
export, for its own tables and arithmetic.

Not modelled, and why:

* Numerics: the inverse ConvRot transformation, NVFP4, the folds themselves, the
  computation of sigmas. Floating point is out of reach of both tools; where two
  computations are compared, a constant says which contents agree.
* The safetensors header and the other parsers: a document or a header is taken
  as parsed or refused. The checks on one file by itself are sequential code with
  good tests.
* TE NVFP4 export: it goes through the same prepare and publish as the export that
  is modelled; what is its own is fixed tables and arithmetic.
* Checkpoint oracles, the acceptance and policy scripts, the CLI: one-shot
  validation, evidence and printing, without state of their own. Legacy packages
  and VAE views: lookups of a frozen profile.
* Link and reparse-point checks on paths (`conversion/lora/security.py`,
  `fileops.reject_linked_ancestors`).
* In the LoRA modules: the self-digest of a plan file, device identities, memory
  and disk budgets, the re-derivation of a receipt by `validate_local_receipt`;
  in the oracle, an input directory apart from the files in it.
* A rewrite that leaves size and mtime as they were: every check of the code that
  compares stats is blind to it, and so are the models. The same holds for an
  export that is moved away and moved back between two comparisons of
  `Beta4Binding`.

## 6. Where code and comments disagree

* `native_export.py:173` says that a foreign replacement must never be removed
  during failure cleanup. The cleanup compares an `lstat` and then unlinks, or
  removes the directory, by path (`:186`); what is exchanged in between is removed
  (`export_cleanup_claim`). What does hold is `CleanupOnlyOwn`: when
  nothing was changed in such a window, of this run or of another, a run
  removes only its own directory and, in it, the files it recorded at the rehash,
  which are its own links unless something was changed before a rehash: an
  identical file put there by somebody else is recorded, and removed, like its own. The hypothesis has to speak of every run: with
  three of them, the one misled by an exchange removes and relinks by path, and
  so exchanges what a third has just checked.
* `deferred_import.py:180` says that no interleaving can strand a pending callback
  or leak a resident finder. An import that resolved its loader before the finder
  was installed, and is between Pop and Reinsert when the recheck looks, leaves
  nobody who would deliver (`deferred_strand`), until some other import passes the
  finder. What does hold is `DeliveredOnceReady`, which needs exactly that import;
  `tests/contract/test_h3_deferred_import.py:213` describes the fallback.
* `serving.py:98` says that `_remove_created` removes only the entries the failed
  call made. It removes by path; when two prepares of one work directory overlap,
  the loser of the `mkdir` rolls back what the winner has made
  (`serving_claim`). What holds, one prepare at a time, is `RefusedLeavesStuck`:
  the promise of `:139`, that a refusal leaves no partial layout, as far as the
  removals of the rollback succeed. The code passes over their errors, so after two
  failures a partial layout does stay, which the next prepare refuses.
* `docs/migration/contract-workflows-e9cb011.md:52` says that snapshots are
  flushed, re-opened and verified before they become loadable. A snapshot is
  created at its content address, under which `load_store` lists it, and verified
  afterwards (`snapshot_store.py:72`); a load in between refuses the whole store
  with an error. `ContractStore` contains that order; what holds are
  `ReturnedPinLoads` (a pin that returned can be loaded) and
  `ExportedIsAuthorized`. No run is devoted to the sentence.
* `docs/migration/h3-component-api.md:22` says that a successfully constructed
  catalog retains its snapshot and that later GET requests reuse it. Two requests
  that found an unconfigured catalog both reset it (`components.py:80-82`), and the
  second reset may come after another request has built and scanned a configured
  one, which it drops with its snapshot. It takes five requests, and the next GET
  scans again, so no run is devoted to it. What holds is `FreshAnswers`, which
  counts the scans of the catalog in use, and `RetryIsServed`.
