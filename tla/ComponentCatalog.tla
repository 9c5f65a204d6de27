-------------------------- MODULE ComponentCatalog --------------------------
(***************************************************************************)
(* The component catalog of the API server (runtime/components/catalog.py) *)
(* behind its three routes (api/routes/components.py).                     *)
(*                                                                         *)
(* A request takes the process-wide catalog, or builds it, scan included,  *)
(* under _BUILD_LOCK; POST /scan then scans again, outside any lock, root  *)
(* by root, and publishes the finished index under the catalog's own lock. *)
(* A catalog is named by the request that built it.                        *)
(***************************************************************************)
EXTENDS Functions, Integers, Sequences

CONSTANTS
  Reqs,                \* requests to the routes
  Roots, Zone, Name,   \* component roots, in the order of the zones; their zones and names
  Files,               \* the files that may be there: [root, dirs, stem, hidden]
  ChangingFiles, ChangingRoots,   \* bound: what others add and remove
  Audio,               \* the stems with "audio" in them
  Schedules,           \* ids of the schedule entries
  NoReq,
  MaxEdits             \* bound: changes of the disk and of the environment

ASSUME ComponentCatalogAssumption ==
  /\ Roots \in Seq(Range(Roots))
  /\ Zone \in [Range(Roots) -> {"comfy", "official", "servable"}]
  /\ \A f \in Files : f.root \in Range(Roots) /\ f.dirs \in Seq(STRING) /\ f.hidden \in BOOLEAN
  /\ ChangingFiles \subseteq Files /\ ChangingRoots \subseteq Range(Roots)
  /\ NoReq \notin Reqs /\ MaxEdits \in Nat

VARIABLES
  disk,        \* the files and the roots that are there
  env,         \* H3_FORGE_COMPONENT_ROOTS: "unset", "malformed" or "roots"
  build_lock, catalog,       \* _BUILD_LOCK, _CATALOG
  object,      \* the catalogs: whether roots are configured, and the index
  req,         \* the requests
  scanned,     \* the newest scan of the catalog in use that none overlapped; for properties
  edits

catalogVars == <<disk, env, build_lock, catalog, object, req, scanned, edits>>

(***************************************************************************)
(* What a scan of one root finds.                                          *)
(***************************************************************************)
ComfyKinds == [diffusion_models |-> "dit", text_encoders |-> "text_encoder",
               loras |-> "lora", latent_upscale_models |-> "tool"]

PackageKinds == [transformer |-> "dit", transformer_ref |-> "dit", text_encoder |-> "text_encoder",
                 video_vae |-> "video_vae", audio_vae |-> "audio_vae"]

FileKind(f) ==
  IF f.dirs[1] # "vae" THEN ComfyKinds[f.dirs[1]] ELSE IF f.stem \in Audio THEN "audio_vae" ELSE "video_vae"

\* every visible file below the directories of the known kinds, by its stem
ComfyEntries(root, files) ==
  {[kind |-> FileKind(f), zone |-> Zone[root], id |-> <<f.stem>>, path |-> f, locked |-> FALSE] :
     f \in {g \in files : /\ g.root = root /\ ~g.hidden /\ g.dirs # <<>>
                          /\ g.dirs[1] \in DOMAIN ComfyKinds \cup {"vae"}}}

\* every directory of a known name that holds any file, at the first level
\* or below a directory of another name
ComponentDirs(root, files) ==
  LET dirs == {g.dirs : g \in {f \in files : f.root = root /\ f.dirs # <<>>}}
  IN  {SubSeq(d, 1, 1) : d \in {e \in dirs : e[1] \in DOMAIN PackageKinds}}
        \cup {SubSeq(d, 1, 2) : d \in {e \in dirs : /\ Len(e) > 1 /\ e[1] \notin DOMAIN PackageKinds
                                                    /\ e[2] \in DOMAIN PackageKinds}}

PackageEntries(root, files) ==
  LET dirs == ComponentDirs(root, files)
      Kind(d) == PackageKinds[d[Len(d)]]
      onlyDit == \A d, e \in dirs : Kind(d) = "dit" /\ Kind(e) = "dit" => d = e
      Id(d) == <<Name[root]>> \o IF Kind(d) # "dit" THEN d ELSE IF onlyDit THEN <<>> ELSE <<d[1]>>
  IN  {[kind |-> Kind(d), zone |-> Zone[root], id |-> Id(d), path |-> [root |-> root, dirs |-> d],
        locked |-> Zone[root] = "official"] : d \in dirs}

RootEntries(root, files) ==
  IF Zone[root] = "comfy" THEN ComfyEntries(root, files) ELSE PackageEntries(root, files)

ScheduleEntries ==
  {[kind |-> "schedule", zone |-> "none", id |-> <<s>>, path |-> "none", locked |-> FALSE] : s \in Schedules}

SameKey(a, b) == a.kind = b.kind /\ a.id = b.id

\* Two paths of one kind and id make the scan fail.
ClashOf(entries) == \E a, b \in entries : SameKey(a, b) /\ a.path # b.path

ClashNever(entries) == FALSE      \* Mutant: the later entry silently wins

Clash(entries) == ClashOf(entries)

\* fresh[key] = entry
Overlay(fresh, entries) == {a \in fresh : \A b \in entries : ~SameKey(a, b)} \cup entries

(***************************************************************************)
(* An index remembers what was seen of each root, and when its scan began: *)
(* only properties look at that.                                           *)
(***************************************************************************)
Unseen == [r \in {} |-> {}]
Seen(seen, root, files) ==
  [x \in {root} \cup DOMAIN seen |-> IF x = root THEN {f \in files : f.root = root} ELSE seen[x]]

Static == [entries |-> ScheduleEntries, seen |-> Unseen, began |-> 0]

NoObject == [configured |-> FALSE, index |-> Static]

Idle == [pc |-> "idle", op |-> "list", cat |-> NoReq, todo |-> <<>>, fresh |-> Static, clean |-> FALSE,
         answer |-> Static, status |-> 0, alone |-> FALSE, floor |-> 0]

CatalogInit ==
  /\ disk = [files |-> Files, mounted |-> Range(Roots)]
  /\ env \in {"unset", "malformed", "roots"}
  /\ build_lock = NoReq /\ catalog = NoReq
  /\ object = [r \in Reqs |-> NoObject]
  /\ req = [r \in Reqs |-> Idle]
  /\ scanned = 0
  /\ edits = 0

InFlight(r) == req[r].pc \notin {"idle", "answered"}
Scanning(r) == req[r].pc \in {"build", "scan"}

Advances(r, pc) == req' = [req EXCEPT ![r].pc = pc]
Answers(r, status, answer) ==
  req' = [req EXCEPT ![r] = [Idle EXCEPT !.pc = "answered", !.status = status, !.answer = answer,
                                         !.alone = req[r].alone, !.floor = req[r].floor]]
Fails(r, status) == Answers(r, status, Static)

\* A scan that begins while another is under way spoils both.
BeginsScan(r, pc, todo, cat) ==
  LET clean == \A o \in Reqs : ~Scanning(o)
  IN  req' = [o \in Reqs |->
                IF o = r
                THEN [req[r] EXCEPT !.pc = pc, !.todo = todo, !.cat = cat, !.clean = clean,
                                    !.fresh = [Static EXCEPT !.began = edits]]
                ELSE [req[o] EXCEPT !.clean = @ /\ ~Scanning(o)]]

Arrive(r, op) ==
  /\ req[r].pc = "idle"
  /\ req' = [req EXCEPT ![r].pc = "catalog", ![r].op = op, ![r].floor = scanned,
                        ![r].alone = env = "roots" /\ \A o \in Reqs : ~InFlight(o)]
  /\ UNCHANGED <<disk, env, build_lock, catalog, object, scanned, edits>>

(***************************************************************************)
(* _catalog(): the catalog that is there, or a new one, built and scanned  *)
(* before the lock is given back.                                          *)
(***************************************************************************)
Unlocked == build_lock = NoReq

UnlockedOrUnbuilt == build_lock = NoReq \/ catalog = NoReq   \* Mutant: whoever finds none builds one

MayTake == Unlocked

TakeCatalog(r) ==
  /\ req[r].pc = "catalog" /\ MayTake
  /\ IF catalog # NoReq
     THEN /\ req' = [req EXCEPT ![r].pc = "roots", ![r].cat = catalog]
          /\ UNCHANGED <<build_lock, object>>
     ELSE IF env = "malformed"
     THEN Fails(r, 500) /\ UNCHANGED <<build_lock, object>>
     ELSE /\ build_lock' = r
          /\ object' = [object EXCEPT ![r].configured = env = "roots"]
          /\ BeginsScan(r, "build", IF env = "roots" THEN Roots ELSE <<>>, r)
  /\ UNCHANGED <<disk, env, catalog, scanned, edits>>

\* _scan_root of the next root and the merge of what it returned
ScanRoot(r) ==
  /\ Scanning(r) /\ req[r].todo # <<>>
  /\ LET root == Head(req[r].todo)
         found == RootEntries(root, disk.files)
         fresh == req[r].fresh
     IN  IF root \notin disk.mounted \/ Clash(fresh.entries \cup found)
         THEN /\ Fails(r, 500)
              /\ build_lock' = IF req[r].pc = "build" THEN NoReq ELSE build_lock
         ELSE /\ req' = [req EXCEPT ![r].todo = Tail(@),
                                    ![r].fresh = [entries |-> Overlay(fresh.entries, found), began |-> fresh.began,
                                                  seen |-> Seen(fresh.seen, root, disk.files)]]
              /\ UNCHANGED build_lock
  /\ UNCHANGED <<disk, env, catalog, object, scanned, edits>>

\* The finished index replaces the catalog's; the last completion wins.
Replace(r) == [object EXCEPT ![req[r].cat].index = req[r].fresh]

ReplaceFirst(r) ==      \* Mutant: an index that is there stays
  IF object[req[r].cat].index.seen = Unseen THEN Replace(r) ELSE object

Published(r) == Replace(r)

InUse(r) == req[r].pc = "build" \/ req[r].cat = catalog

Publish(r) ==
  /\ Scanning(r) /\ req[r].todo = <<>>
  /\ object' = Published(r)
  /\ IF req[r].pc = "build"
     THEN catalog' = r /\ build_lock' = NoReq
     ELSE UNCHANGED <<catalog, build_lock>>
  /\ req' = [req EXCEPT ![r].pc = IF @ = "build" THEN "roots" ELSE "list", ![r].fresh = Static,
                         ![r].floor = IF req[r].pc = "scan" /\ req[r].clean THEN req[r].fresh.began ELSE @]
  /\ scanned' = IF InUse(r) /\ req[r].clean /\ req[r].fresh.began > scanned
                THEN req[r].fresh.began ELSE scanned
  /\ UNCHANGED <<disk, env, edits>>

\* _configured_catalog: one without roots is dropped, whichever is there now.
Drop(r) == Advances(r, "reset")

Keep(r) == Fails(r, 503)         \* Mutant: the catalog without roots stays

Unconfigured(r) == Drop(r)

CheckRoots(r) ==
  /\ req[r].pc = "roots"
  /\ IF ~object[req[r].cat].configured THEN Unconfigured(r)
     ELSE IF req[r].op = "scan" THEN BeginsScan(r, "scan", Roots, req[r].cat)
     ELSE Advances(r, "list")
  /\ UNCHANGED <<disk, env, build_lock, catalog, object, scanned, edits>>

Reset(r) ==
  /\ req[r].pc = "reset" /\ build_lock = NoReq
  /\ catalog' = NoReq
  /\ Fails(r, 503)
  /\ UNCHANGED <<disk, env, build_lock, object, scanned, edits>>

\* list() or snapshot(): the whole index of one moment
Answer(r) ==
  /\ req[r].pc = "list"
  /\ Answers(r, 200, object[req[r].cat].index)
  /\ UNCHANGED <<disk, env, build_lock, catalog, object, scanned, edits>>

(***************************************************************************)
(* Others write and delete files, roots come and go, and the environment   *)
(* is changed.                                                             *)
(***************************************************************************)
EditDisk(f) ==
  /\ disk' = [disk EXCEPT !.files = IF f \in @ THEN @ \ {f} ELSE @ \cup {f}]
  /\ UNCHANGED <<env, req>>

MoveRoot(root) ==
  /\ disk' = [disk EXCEPT !.mounted = IF root \in @ THEN @ \ {root} ELSE @ \cup {root}]
  /\ UNCHANGED <<env, req>>

SetEnv(to) ==
  /\ env' = to
  /\ req' = [r \in Reqs |-> [req[r] EXCEPT !.alone = @ /\ to = "roots"]]
  /\ UNCHANGED disk

Edit ==
  /\ edits < MaxEdits /\ edits' = edits + 1
  /\ \/ \E f \in ChangingFiles : EditDisk(f)
     \/ \E root \in ChangingRoots : MoveRoot(root)
     \/ \E to \in {"unset", "malformed", "roots"} : SetEnv(to)
  /\ UNCHANGED <<build_lock, catalog, object, scanned>>

CatalogNext ==
  \/ \E r \in Reqs :
       \/ \E op \in {"list", "scan"} : Arrive(r, op)
       \/ TakeCatalog(r) \/ ScanRoot(r) \/ Publish(r) \/ CheckRoots(r) \/ Reset(r) \/ Answer(r)
  \/ Edit

CatalogSpec == CatalogInit /\ [][CatalogNext]_catalogVars

-----------------------------------------------------------------------------
(* Properties.                                                             *)

\* The shapes of this module's variables; the lock is held while building.
CatalogTypeOK ==
  /\ disk \in [files : SUBSET Files, mounted : SUBSET Range(Roots)]
  /\ env \in {"unset", "malformed", "roots"}
  /\ catalog \in Reqs \cup {NoReq}
  /\ build_lock \in Reqs \cup {NoReq}
  /\ \A r \in Reqs :
       /\ req[r].pc \in {"idle", "catalog", "build", "roots", "scan", "list", "reset", "answered"}
       /\ req[r].status \in {0, 200, 500, 503}
       /\ req[r].cat \in Reqs \cup {NoReq}
       /\ req[r].pc = "build" <=> build_lock = r
       /\ req[r].pc \in {"list", "scan"} => object[req[r].cat].configured

(* An answer is the result of one whole scan of every root: nothing that   *)
(* the scan saw is missing or doubled, and nothing of another generation   *)
(* is mixed in ("never across generations", catalog.py:110).               *)
AnswersWholeScan ==
  \A r \in Reqs : req[r].status = 200 =>
    LET index == req[r].answer
    IN  /\ DOMAIN index.seen = Range(Roots)
        /\ index.entries = ScheduleEntries \cup UNION {RootEntries(x, index.seen[x]) : x \in Range(Roots)}
        /\ ~ClashOf(index.entries)

(* What a scan that no other overlapped has found is never answered with   *)
(* an older index, neither to the request that scanned nor, when it        *)
(* scanned the catalog in use, to any that arrives after it.  A scan of a  *)
(* catalog that was dropped under it is lost to later requests: two        *)
(* requests that found a catalog without roots reset twice, and the second *)
(* reset drops the configured catalog built between them                   *)
(* (components.py:80-82).                                                  *)
FreshAnswers == \A r \in Reqs : req[r].status = 200 => req[r].answer.began >= req[r].floor

(* After "point it at the component roots ... then retry"                  *)
(* (components.py:61), a request that meets no other is not refused for    *)
(* missing roots: no catalog without roots is left behind.                 *)
RetryIsServed == \A r \in Reqs : req[r].alone => req[r].status # 503
=============================================================================
