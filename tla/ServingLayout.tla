---------------------------- MODULE ServingLayout ----------------------------
(***************************************************************************)
(* The serving view of a package (integrations/vllm_omni/serving.py): a    *)
(* work directory with a marker file and a real directory Ref2VA of links  *)
(* into one package.  prepare_serving_layout builds it or accepts one that *)
(* is there, clear_serving_layout takes it apart.  Both work by path, with *)
(* nothing between two calls of theirs to keep others out.                 *)
(*                                                                         *)
(* An entry remembers the call that made it, which the code does not; only *)
(* properties look at it.                                                  *)
(***************************************************************************)
EXTENDS FiniteSets, Naturals

CONSTANTS Prepares, Clears,     \* calls of prepare_ and clear_serving_layout
          Packages,
          Names,                \* entries of a view: the index and the components
          NoOne, NoPackage,
          Overlapping,          \* whether two prepares may work at one time
          MaxFaults             \* bound: system calls that fail, calls that are killed

\* The other entries a prepare makes, by the name a failing removal has for them.
View    == "Ref2VA"
Marker  == ".comfy-omni-serving"
WorkDir == "work_dir"

ASSUME ServingLayoutAssumption ==
  /\ NoOne \notin Prepares /\ NoPackage \notin Packages
  /\ Names \cap {View, Marker, WorkDir} = {}
  /\ Overlapping \in BOOLEAN /\ MaxFaults \in Nat

VARIABLES
  work,       \* the directory: its own maker, the marker's, the view's; links
  prepare,    \* the local state of each prepare
  clear,      \* and of each clear
  gone,       \* entries that packages have lost
  faults

layoutVars == <<work, prepare, clear, gone, faults>>

NoLink == [to |-> NoPackage, by |-> NoOne]
Nothing == [dir |-> NoOne, marker |-> NoOne, text |-> FALSE, view |-> NoOne,
            link |-> [n \in Names |-> NoLink]]

Linked == {n \in Names : work.link[n] # NoLink}

LayoutInit ==
  /\ work = Nothing
  /\ prepare = [p \in Prepares |-> [pc |-> "idle", pkg |-> NoPackage, todo |-> {},
                               stuck |-> {}, disturbed |-> FALSE]]
  /\ clear = [c \in Clears |-> [pc |-> "idle", todo |-> {}]]
  /\ gone = [k \in Packages |-> {}]
  /\ faults = 0

\* prepare p goes on at pc, with names still to be handled.
Goes(p, pc, todo) == prepare' = [prepare EXCEPT ![p].pc = pc, ![p].todo = todo]

Working(p) == prepare[p].pc \notin {"idle", "returned", "refused", "failed", "killed"}
Clearing(c) == clear[c].pc \notin {"idle", "cleared", "refused"}

(***************************************************************************)
(* prepare_serving_layout                                                  *)
(***************************************************************************)
\* validate_runtime_package: a package that lacks an entry is refused.
Validate(p, k) ==
  /\ prepare[p].pc = "idle"
  /\ Overlapping \/ \A o \in Prepares : ~Working(o)
  /\ prepare' = [prepare EXCEPT ![p] =
       [pc |-> IF gone[k] = {} THEN "exists" ELSE "refused", pkg |-> k, todo |-> {},
        stuck |-> {}, disturbed |-> \E c \in Clears : Clearing(c)]]
  /\ UNCHANGED <<work, clear, gone, faults>>

\* work.exists()
Exists(p) ==
  /\ prepare[p].pc = "exists"
  /\ Goes(p, IF work.dir = NoOne THEN "mkdir" ELSE "inspect", {})
  /\ UNCHANGED <<work, clear, gone, faults>>

\* _is_correct_layout, up to the listing of the view
InspectEntries(p) ==
  /\ prepare[p].pc = "inspect"
  /\ IF work.dir # NoOne /\ work.text /\ work.view # NoOne /\ Linked = Names
     THEN Goes(p, "compare", Names)
     ELSE Goes(p, "refused", {})
  /\ UNCHANGED <<work, clear, gone, faults>>

\* ... and one link of it, which must resolve to the same package's entry
LinkIsOf(n, k) == work.link[n].to = k /\ n \notin gone[k]

LinkIsOfAny(n, k) == work.link[n].to # NoPackage    \* Mutant: the root is not compared

LinkMatches(n, k) == LinkIsOf(n, k)

InspectLink(p) ==
  /\ prepare[p].pc = "compare"
  /\ \E n \in prepare[p].todo :
       IF ~LinkMatches(n, prepare[p].pkg) THEN Goes(p, "refused", {})
       ELSE LET left == prepare[p].todo \ {n}
            IN  Goes(p, IF left = {} THEN "returned" ELSE "compare", left)
  /\ UNCHANGED <<work, clear, gone, faults>>

\* A creating call succeeds, or raises OSError and the rollback begins.
Creates(p, possible, next, todo, made) ==
  \/ possible /\ work' = made /\ Goes(p, next, todo) /\ UNCHANGED faults
  \/ ~possible /\ UNCHANGED <<work, faults>> /\ Goes(p, "unlink", Names)
  \/ possible /\ faults < MaxFaults /\ faults' = faults + 1 /\ UNCHANGED work /\ Goes(p, "unlink", Names)

Mkdir(p) ==
  /\ prepare[p].pc = "mkdir"
  /\ Creates(p, work.dir = NoOne, "mark", {}, [work EXCEPT !.dir = p])
  /\ UNCHANGED <<clear, gone>>

\* write_text creates or truncates the marker, then fills it.
OpenMarker(p) ==
  /\ prepare[p].pc = "mark"
  /\ Creates(p, work.dir # NoOne, "text", {}, [work EXCEPT !.marker = p, !.text = FALSE])
  /\ UNCHANGED <<clear, gone>>

\* An open file can be written when its name is gone.
FillMarker(p) ==
  /\ prepare[p].pc = "text"
  /\ Creates(p, TRUE, "mkview", {}, IF work.marker = p THEN [work EXCEPT !.text = TRUE] ELSE work)
  /\ UNCHANGED <<clear, gone>>

MakeView(p) ==
  /\ prepare[p].pc = "mkview"
  /\ Creates(p, work.dir # NoOne /\ work.view = NoOne, "link", Names, [work EXCEPT !.view = p])
  /\ UNCHANGED <<clear, gone>>

Link(p) ==
  /\ prepare[p].pc = "link"
  /\ \E n \in prepare[p].todo :
       LET left == prepare[p].todo \ {n} IN
       Creates(p, work.view # NoOne /\ work.link[n] = NoLink,
               IF left = {} THEN "expose" ELSE "link", IF left = {} THEN Names ELSE left,
               [work EXCEPT !.link[n] = [to |-> prepare[p].pkg, by |-> p]])
  /\ UNCHANGED <<clear, gone>>

\* The finished view must expose every entry.
Exposed(n) == work.link[n].to # NoPackage /\ n \notin gone[work.link[n].to]

VerifyView(p) ==
  /\ prepare[p].pc = "expose"
  /\ \E n \in prepare[p].todo :
       IF ~Exposed(n) THEN Goes(p, "unlink", Names)
       ELSE LET left == prepare[p].todo \ {n}
            IN  Goes(p, IF left = {} THEN "returned" ELSE "expose", left)
  /\ UNCHANGED <<work, clear, gone, faults>>

(***************************************************************************)
(* _remove_created: every step by path, whoever made the entry, and every  *)
(* error passed over.  The code does not remember what it could not        *)
(* remove; stuck does, for the properties.                                 *)
(***************************************************************************)
\* A removing call succeeds, or raises OSError and its entry is left.
Removes(p, entry, next, todo, without) ==
  \/ work' = without /\ Goes(p, next, todo) /\ UNCHANGED faults
  \/ /\ faults < MaxFaults /\ faults' = faults + 1
     /\ prepare' = [prepare EXCEPT ![p].pc = next, ![p].todo = todo, ![p].stuck = @ \cup {entry}]
     /\ UNCHANGED work

RemoveLink(p) ==
  /\ prepare[p].pc = "unlink"
  /\ \E n \in prepare[p].todo :
       LET left == prepare[p].todo \ {n} IN
       Removes(p, n, IF left = {} THEN "rmview" ELSE "unlink", left, [work EXCEPT !.link[n] = NoLink])
  /\ UNCHANGED <<clear, gone>>

\* rmdir: a directory with something left in it is left, too.
RemoveView(p) ==
  /\ prepare[p].pc = "rmview"
  /\ Removes(p, View, "unmark", {}, IF Linked = {} THEN [work EXCEPT !.view = NoOne] ELSE work)
  /\ UNCHANGED <<clear, gone>>

WithoutMarker == [work EXCEPT !.marker = NoOne, !.text = FALSE]

RemoveMarker(p) ==
  /\ prepare[p].pc = "unmark"
  /\ Removes(p, Marker, "rmwork", {}, WithoutMarker)
  /\ UNCHANGED <<clear, gone>>

RemoveMarkerNever(p) ==       \* Mutant: the rollback forgets the marker
  /\ prepare[p].pc = "unmark"
  /\ UNCHANGED work
  /\ Goes(p, "rmwork", {})
  /\ UNCHANGED <<clear, gone, faults>>

RollBackMarker(p) == RemoveMarker(p)

IsEmpty == work.marker = NoOne /\ work.view = NoOne

RemoveWork(p) ==
  /\ prepare[p].pc = "rmwork"
  /\ Removes(p, WorkDir, "failed", {}, IF IsEmpty THEN Nothing ELSE work)
  /\ UNCHANGED <<clear, gone>>

(***************************************************************************)
(* clear_serving_layout                                                    *)
(***************************************************************************)
ClearGoes(c, pc, todo) == clear' = [clear EXCEPT ![c] = [pc |-> pc, todo |-> todo]]

Scanned == Linked

\* A clear disturbs the prepares that are at work, or have returned.
BeginClear(c) ==
  /\ clear[c].pc = "idle"
  /\ IF work.marker # NoOne /\ work.view # NoOne
     THEN /\ ClearGoes(c, IF Scanned = {} THEN "rmview" ELSE "unlink", Scanned)
          /\ prepare' = [p \in Prepares |-> [prepare[p] EXCEPT !.disturbed = (@ \/ prepare[p].pc # "idle")]]
     ELSE ClearGoes(c, "refused", {}) /\ UNCHANGED prepare
  /\ UNCHANGED <<work, gone, faults>>

\* A removing call succeeds, or raises OSError and the clear is refused where
\* it stands: a listed entry that is gone when its turn comes is an error.
Unmakes(c, possible, next, todo, without) ==
  \/ possible /\ work' = without /\ ClearGoes(c, next, todo) /\ UNCHANGED faults
  \/ ~possible /\ ClearGoes(c, "refused", {}) /\ UNCHANGED <<work, faults>>
  \/ /\ possible /\ faults < MaxFaults /\ faults' = faults + 1
     /\ ClearGoes(c, "refused", {}) /\ UNCHANGED work

ClearLink(c) ==
  /\ clear[c].pc = "unlink"
  /\ \E n \in clear[c].todo :
       LET left == clear[c].todo \ {n} IN
       Unmakes(c, work.link[n] # NoLink, IF left = {} THEN "rmview" ELSE "unlink", left,
               [work EXCEPT !.link[n] = NoLink])
  /\ UNCHANGED <<prepare, gone>>

ClearView(c) ==
  /\ clear[c].pc = "rmview"
  /\ Unmakes(c, work.view # NoOne /\ Linked = {}, "unmark", {}, [work EXCEPT !.view = NoOne])
  /\ UNCHANGED <<prepare, gone>>

ClearMarker(c) ==
  /\ clear[c].pc = "unmark"
  /\ Unmakes(c, work.marker # NoOne, "rmwork", {}, WithoutMarker)
  /\ UNCHANGED <<prepare, gone>>

ClearWork(c) ==
  /\ clear[c].pc = "rmwork"
  /\ Unmakes(c, work.dir # NoOne /\ IsEmpty, "cleared", {}, Nothing)
  /\ UNCHANGED <<prepare, gone>>

(***************************************************************************)
(* Kill ends a prepare where it stands; LoseEntry is somebody removing an  *)
(* entry of a published package.                                           *)
(***************************************************************************)
Kill(p) ==
  /\ Working(p) /\ faults < MaxFaults /\ faults' = faults + 1
  /\ Goes(p, "killed", {})
  /\ UNCHANGED <<work, clear, gone>>

LoseEntry(k, n) ==
  /\ n \notin gone[k] /\ faults < MaxFaults /\ faults' = faults + 1
  /\ gone' = [gone EXCEPT ![k] = @ \cup {n}]
  /\ UNCHANGED <<work, prepare, clear>>

LayoutNext ==
  \/ \E p \in Prepares, k \in Packages : Validate(p, k)
  \/ \E p \in Prepares :
       \/ Exists(p) \/ InspectEntries(p) \/ InspectLink(p)
       \/ Mkdir(p) \/ OpenMarker(p) \/ FillMarker(p) \/ MakeView(p) \/ Link(p) \/ VerifyView(p)
       \/ RemoveLink(p) \/ RemoveView(p) \/ RollBackMarker(p) \/ RemoveWork(p)
       \/ Kill(p)
  \/ \E c \in Clears :
       BeginClear(c) \/ ClearLink(c) \/ ClearView(c) \/ ClearMarker(c) \/ ClearWork(c)
  \/ \E k \in Packages, n \in Names : LoseEntry(k, n)

LayoutSpec == LayoutInit /\ [][LayoutNext]_layoutVars

-----------------------------------------------------------------------------
(* Properties.                                                             *)

(* A prepare that returned the path left or found there the whole view of  *)
(* its own package, and it stays until somebody clears it: in particular   *)
(* what a killed prepare left behind, or the view of another package, is   *)
(* never taken for it (serving.py:137-139).                                *)
ReturnedIsWhole ==
  \A p \in Prepares :
    prepare[p].pc = "returned" /\ ~prepare[p].disturbed =>
      /\ work.dir # NoOne /\ work.text /\ work.view # NoOne
      /\ \A n \in Names : work.link[n].to = prepare[p].pkg

(* "Creation failures are refused (stage layout) leaving no partial        *)
(* layout" (serving.py:139), as far as the rollback's own calls succeed:   *)
(* while one prepare works at a time and nobody clears, a failed prepare   *)
(* leaves what it could not remove, the directories that hold it, and      *)
(* nothing else; nothing at all when every removal succeeded.              *)
RefusedLeavesStuck ==
  [][\A p \in Prepares :
       prepare[p].pc = "rmwork" /\ prepare'[p].pc = "failed" /\ ~prepare[p].disturbed =>
         /\ Linked' \subseteq prepare'[p].stuck
         /\ work'.view # NoOne => View \in prepare'[p].stuck \/ Linked' # {}
         /\ work'.marker # NoOne => Marker \in prepare'[p].stuck
         /\ work' # Nothing =>
              WorkDir \in prepare'[p].stuck \/ work'.view # NoOne \/ work'.marker # NoOne
    ]_layoutVars

(* What the comment at serving.py:98 says of _remove_created: it removes   *)
(* only the entries the failed call made.                                  *)
RollbackOnlyOwn ==
  [][\A p \in Prepares :
       prepare[p].pc \in {"unlink", "rmview", "unmark", "rmwork"} /\ prepare'[p] # prepare[p] =>
         /\ \A n \in Names : work'.link[n] # work.link[n] => work.link[n].by = p
         /\ work'.view # work.view => work.view = p
         /\ work'.marker # work.marker => work.marker = p
         /\ work'.dir # work.dir => work.dir = p
    ]_layoutVars
=============================================================================
