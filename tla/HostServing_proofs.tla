------------------------ MODULE HostServing_proofs ------------------------
(***************************************************************************)
(* Proofs about what a host serves: ServingLayout, for any number of       *)
(* calls, packages, entries, failing system calls and kills, and           *)
(* ComponentCatalog, for any number of requests, roots, files and edits.   *)
(* Neither uses the other.  What prepare_serving_layout promises holds     *)
(* while one prepare works at a time (~Overlapping), so that is a          *)
(* hypothesis of its theorems; with two at work it does not hold.          *)
(***************************************************************************)
EXTENDS ServingLayout, ComponentCatalog, TLAPS

-----------------------------------------------------------------------------
(* ServingLayout: the inductive invariant.                                 *)

Labels == {"idle", "exists", "inspect", "compare", "mkdir", "mark", "text", "mkview", "link",
           "expose", "unlink", "rmview", "unmark", "rmwork", "returned", "refused", "failed", "killed"}
ClearLabels == {"idle", "unlink", "rmview", "unmark", "rmwork", "cleared", "refused"}

Makers == Prepares \cup {NoOne}
Links  == [to : Packages \cup {NoPackage}, by : Makers]

Entries == Names \cup {View, Marker, WorkDir}

PrepareType == [pc : Labels, pkg : Packages \cup {NoPackage}, todo : SUBSET Names,
                stuck : SUBSET Entries, disturbed : BOOLEAN]

LayoutTypeOK ==
  /\ work \in [dir : Makers, marker : Makers, text : BOOLEAN, view : Makers, link : [Names -> Links]]
  /\ prepare \in [Prepares -> PrepareType]
  /\ clear \in [Clears -> [pc : ClearLabels, todo : SUBSET Names]]

(* A directory tree: nothing is in a directory that is not there.          *)
TreeOK ==
  /\ work.dir = NoOne => work = Nothing
  /\ work.view = NoOne => Linked = {}
  /\ work.marker = NoOne => ~work.text

(* Who can be at work at one time.  After a prepare has returned, another  *)
(* one finds the directory and only looks at it.                           *)
AloneOK ==
  /\ \A p, o \in Prepares : Working(p) /\ Working(o) => p = o
  /\ \A p \in Prepares : prepare[p].pc = "idle" => ~prepare[p].disturbed
  /\ \A p \in Prepares, c \in Clears :
       prepare[p].pc # "idle" /\ ~prepare[p].disturbed => ~Clearing(c)
  /\ \A p, o \in Prepares : prepare[p].pc = "returned" /\ ~prepare[p].disturbed /\ Working(o) =>
       prepare[o].pc \in {"exists", "inspect", "compare"}

(* What an undisturbed prepare has made, found or undone so far.           *)
Made(p, S) ==
  /\ work.dir # NoOne /\ work.text /\ work.view # NoOne
  /\ \A n \in S : work.link[n].to = prepare[p].pkg

Stage(p) ==
  /\ prepare[p].pc \in {"mark", "text", "mkview"} => work.dir # NoOne
  /\ prepare[p].pc = "text" => work.marker = p
  /\ prepare[p].pc = "mkview" => work.text
  /\ prepare[p].pc \in {"link", "compare"} => Made(p, Names \ prepare[p].todo)
  /\ prepare[p].pc \in {"expose", "returned"} => Made(p, Names)
  /\ prepare[p].pc = "unlink" => Linked \subseteq prepare[p].todo \cup prepare[p].stuck
  /\ prepare[p].pc \in {"rmview", "unmark", "rmwork"} => Linked \subseteq prepare[p].stuck
  /\ prepare[p].pc \in {"unmark", "rmwork"} =>
       (work.view # NoOne => View \in prepare[p].stuck \/ Linked # {})
  /\ prepare[p].pc = "rmwork" => (work.marker # NoOne => Marker \in prepare[p].stuck)

StageOK == \A p \in Prepares : ~prepare[p].disturbed => Stage(p)

IInv == LayoutTypeOK /\ TreeOK /\ AloneOK /\ StageOK

-----------------------------------------------------------------------------
(* A step of a prepare that has begun.                                     *)

Acts(p) ==
  \/ Exists(p) \/ InspectEntries(p) \/ InspectLink(p)
  \/ Mkdir(p) \/ OpenMarker(p) \/ FillMarker(p) \/ MakeView(p) \/ Link(p) \/ VerifyView(p)
  \/ RemoveLink(p) \/ RemoveView(p) \/ RollBackMarker(p) \/ RemoveWork(p)
  \/ Kill(p)

(* Where a step takes prepare p: to label x with the names t to be handled *)
(* and the entries u that could not be removed.                            *)
Moves(p, x, t, u) ==
  /\ prepare'[p].pc = x /\ prepare'[p].todo = t /\ prepare'[p].stuck = u
  /\ prepare'[p].pkg = prepare[p].pkg /\ prepare'[p].disturbed = prepare[p].disturbed
  /\ \A q \in Prepares \ {p} : prepare'[q] = prepare[q]

(* A step that says where p goes leaves what could not be removed alone;   *)
(* a removal that fails adds its entry.                                    *)
LEMMA GoesTo ==
  ASSUME LayoutTypeOK, NEW p \in Prepares, NEW x, NEW t, Goes(p, x, t)
  PROVE  /\ Moves(p, x, t, prepare[p].stuck)
         /\ x \in Labels /\ t \in SUBSET Names => prepare' \in [Prepares -> PrepareType]
<1>1. prepare[p] \in PrepareType /\ prepare' = [prepare EXCEPT ![p] = [prepare[p] EXCEPT !.pc = x, !.todo = t]]
  BY DEF LayoutTypeOK, Goes
<1>2. prepare'[p] = [prepare[p] EXCEPT !.pc = x, !.todo = t] /\ \A q \in Prepares \ {p} : prepare'[q] = prepare[q]
  BY <1>1 DEF LayoutTypeOK
<1>3. Moves(p, x, t, prepare[p].stuck)
  BY <1>1, <1>2 DEF Moves, PrepareType
<1>4. ASSUME x \in Labels, t \in SUBSET Names
      PROVE  prepare' \in [Prepares -> PrepareType]
  <2>1. [prepare[p] EXCEPT !.pc = x, !.todo = t] \in PrepareType
    BY <1>1, <1>4 DEF PrepareType
  <2>2. QED
    BY <1>1, <2>1 DEF LayoutTypeOK
<1>5. QED
  BY <1>3, <1>4

LEMMA StuckTo ==
  ASSUME LayoutTypeOK, NEW p \in Prepares, NEW x, NEW t, NEW e,
         prepare' = [prepare EXCEPT ![p].pc = x, ![p].todo = t, ![p].stuck = @ \cup {e}]
  PROVE  /\ Moves(p, x, t, prepare[p].stuck \cup {e})
         /\ x \in Labels /\ t \in SUBSET Names /\ e \in Entries => prepare' \in [Prepares -> PrepareType]
<1>1. /\ prepare[p] \in PrepareType
      /\ prepare' = [prepare EXCEPT ![p] = [prepare[p] EXCEPT !.pc = x, !.todo = t, !.stuck = @ \cup {e}]]
  BY DEF LayoutTypeOK
<1>2. /\ prepare'[p] = [prepare[p] EXCEPT !.pc = x, !.todo = t, !.stuck = @ \cup {e}]
      /\ \A q \in Prepares \ {p} : prepare'[q] = prepare[q]
  BY <1>1 DEF LayoutTypeOK
<1>3. Moves(p, x, t, prepare[p].stuck \cup {e})
  BY <1>1, <1>2 DEF Moves, PrepareType
<1>4. ASSUME x \in Labels, t \in SUBSET Names, e \in Entries
      PROVE  prepare' \in [Prepares -> PrepareType]
  <2>1. [prepare[p] EXCEPT !.pc = x, !.todo = t, !.stuck = @ \cup {e}] \in PrepareType
    BY <1>1, <1>4 DEF PrepareType
  <2>2. QED
    BY <1>1, <2>1 DEF LayoutTypeOK
<1>5. QED
  BY <1>3, <1>4

(* A removing call: it takes its entry away, or notes that it could not.   *)
LEMMA RemovesTo ==
  ASSUME LayoutTypeOK, NEW p \in Prepares, NEW e \in Entries, NEW x \in Labels, NEW t \in SUBSET Names, NEW w,
         Removes(p, e, x, t, w)
  PROVE  /\ \/ work' = w /\ Moves(p, x, t, prepare[p].stuck)
            \/ UNCHANGED work /\ Moves(p, x, t, prepare[p].stuck \cup {e})
         /\ prepare' \in [Prepares -> PrepareType]
<1>1. CASE work' = w /\ Goes(p, x, t)
  BY <1>1, GoesTo
<1>2. CASE /\ UNCHANGED work
           /\ prepare' = [prepare EXCEPT ![p].pc = x, ![p].todo = t, ![p].stuck = @ \cup {e}]
  BY <1>2, StuckTo
<1>3. QED
  BY <1>1, <1>2 DEF Removes

(* What every step of p leaves alone.                                      *)
LEMMA ActsFrame ==
  ASSUME LayoutTypeOK, NEW p \in Prepares, Acts(p)
  PROVE  /\ Working(p) /\ UNCHANGED clear
         /\ \A q \in Prepares \ {p} : prepare'[q] = prepare[q]
         /\ prepare'[p].pc # "idle"
         /\ prepare'[p].pkg = prepare[p].pkg /\ prepare'[p].disturbed = prepare[p].disturbed
         /\ prepare' \in [Prepares -> PrepareType]
<1>1. prepare[p].todo \in SUBSET Names
  BY DEF LayoutTypeOK, PrepareType
<1>2. Working(p) /\ UNCHANGED clear
  BY DEF Acts, Exists, InspectEntries, InspectLink, Mkdir, OpenMarker, FillMarker, MakeView, Link,
      VerifyView, RemoveLink, RemoveView, RollBackMarker, RemoveMarker, RemoveWork, Kill, Working
<1>3. ASSUME NEW x \in Labels \ {"idle"}, NEW t \in SUBSET Names, Goes(p, x, t)
      PROVE  /\ \A q \in Prepares \ {p} : prepare'[q] = prepare[q]
             /\ prepare'[p].pc # "idle"
             /\ prepare'[p].pkg = prepare[p].pkg /\ prepare'[p].disturbed = prepare[p].disturbed
             /\ prepare' \in [Prepares -> PrepareType]
  BY <1>3, GoesTo DEF Moves
<1>4. ASSUME NEW x \in Labels \ {"idle"}, NEW t \in SUBSET Names, NEW e \in Entries, NEW w,
             Removes(p, e, x, t, w)
      PROVE  /\ \A q \in Prepares \ {p} : prepare'[q] = prepare[q]
             /\ prepare'[p].pc # "idle"
             /\ prepare'[p].pkg = prepare[p].pkg /\ prepare'[p].disturbed = prepare[p].disturbed
             /\ prepare' \in [Prepares -> PrepareType]
  BY <1>4, RemovesTo DEF Moves
<1>5. CASE \/ Exists(p) \/ InspectEntries(p) \/ InspectLink(p) \/ Mkdir(p) \/ OpenMarker(p) \/ FillMarker(p)
           \/ MakeView(p) \/ Link(p) \/ VerifyView(p) \/ Kill(p)
  <2>1. \E x \in Labels \ {"idle"}, t \in SUBSET Names : Goes(p, x, t)
    BY <1>1, <1>5
    DEF Exists, InspectEntries, InspectLink, Mkdir, OpenMarker, FillMarker, MakeView, Link,
        VerifyView, Kill, Creates, Labels
  <2>2. QED
    BY <1>2, <1>3, <2>1
<1>6. CASE RemoveLink(p)
  <2>1. PICK n \in prepare[p].todo :
          Removes(p, n, IF prepare[p].todo \ {n} = {} THEN "rmview" ELSE "unlink", prepare[p].todo \ {n},
                  [work EXCEPT !.link[n] = NoLink])
    BY <1>6 DEF RemoveLink
  <2>2. n \in Entries /\ prepare[p].todo \ {n} \in SUBSET Names
        /\ (IF prepare[p].todo \ {n} = {} THEN "rmview" ELSE "unlink") \in Labels \ {"idle"}
    BY <1>1 DEF Entries, Labels
  <2>3. QED
    BY <1>2, <1>4, <2>1, <2>2
<1>7. CASE RemoveView(p) \/ RollBackMarker(p) \/ RemoveWork(p)
  <2>1. /\ {View, Marker, WorkDir} \subseteq Entries /\ {} \in SUBSET Names
        /\ {"unmark", "rmwork", "failed"} \subseteq Labels \ {"idle"}
    BY DEF Entries, Labels
  <2>2. QED
    BY <1>2, <1>4, <1>7, <2>1 DEF RemoveView, RollBackMarker, RemoveMarker, RemoveWork
<1>8. QED
  BY <1>5, <1>6, <1>7 DEF Acts

(* What a step makes of the directory.                                     *)
Shrinks ==
  \/ UNCHANGED work
  \/ \E n \in Names : work' = [work EXCEPT !.link[n] = NoLink]
  \/ Linked = {} /\ work' = [work EXCEPT !.view = NoOne]
  \/ work' = WithoutMarker
  \/ work' = Nothing

LEMMA ActsWork ==
  ASSUME LayoutTypeOK, NEW p \in Prepares, Acts(p)
  PROVE  \/ work.dir = NoOne /\ work' = [work EXCEPT !.dir = p]
         \/ work.dir # NoOne /\ work' = [work EXCEPT !.marker = p, !.text = FALSE]
         \/ work.marker = p /\ work' = [work EXCEPT !.text = TRUE]
         \/ work.dir # NoOne /\ work.view = NoOne /\ work' = [work EXCEPT !.view = p]
         \/ \E n \in Names :
              /\ work.view # NoOne /\ work.link[n] = NoLink
              /\ work' = [work EXCEPT !.link[n] = [to |-> prepare[p].pkg, by |-> p]]
         \/ Shrinks
BY DEF Shrinks, LayoutTypeOK, Acts, Exists, InspectEntries, InspectLink, Mkdir, OpenMarker, FillMarker, MakeView, Link,
      VerifyView, RemoveLink, RemoveView, RollBackMarker, RemoveMarker, RemoveWork, Kill, Creates, Removes, PrepareType

(* Any change of the tree that calls make keeps its type and its shape.    *)
WorkType == [dir : Makers, marker : Makers, text : BOOLEAN, view : Makers, link : [Names -> Links]]

LEMMA NothingType == Nothing \in WorkType /\ NoLink \in Links
BY DEF Nothing, WorkType, Makers, Links, NoLink

LEMMA SetLink ==
  ASSUME work \in WorkType, NEW n \in Names, NEW l \in Links
  PROVE  /\ [work EXCEPT !.link[n] = l] \in WorkType
         /\ [work EXCEPT !.link[n] = l].link = [work.link EXCEPT ![n] = l]
         /\ [work EXCEPT !.link[n] = l].dir = work.dir
         /\ [work EXCEPT !.link[n] = l].marker = work.marker
         /\ [work EXCEPT !.link[n] = l].text = work.text
         /\ [work EXCEPT !.link[n] = l].view = work.view
<1>1. work.link \in [Names -> Links] /\ [work.link EXCEPT ![n] = l] \in [Names -> Links]
  BY DEF WorkType
<1>2. QED
  BY <1>1 DEF WorkType

LEMMA SameTree ==
  ASSUME NEW v \in WorkType, NEW w \in WorkType, v.dir = w.dir, v.marker = w.marker,
         v.text = w.text, v.view = w.view, v.link = w.link
  PROVE  v = w
BY DEF WorkType

(* Taking away what is not there changes nothing.                          *)
LEMMA TakeAway ==
  ASSUME work \in WorkType, NEW w \in WorkType, w.dir = work.dir, w.link = work.link,
         w.marker = work.marker \/ w.marker = NoOne, w.view = work.view \/ w.view = NoOne,
         w.text = work.text \/ w.text = FALSE, work = Nothing
  PROVE  w = work
BY SameTree DEF Nothing

LEMMA ShrinkTree ==
  ASSUME work \in WorkType, TreeOK, Shrinks
  PROVE  work' \in WorkType /\ TreeOK'
<1>1. NoOne \in Makers
  BY DEF Makers
<1>2. ASSUME NEW n \in Names, work' = [work EXCEPT !.link[n] = NoLink]
      PROVE  work' \in WorkType /\ TreeOK'
  <2>1. work' \in WorkType /\ work'.link = [work.link EXCEPT ![n] = NoLink]
        /\ work'.dir = work.dir /\ work'.marker = work.marker
        /\ work'.text = work.text /\ work'.view = work.view
    BY <1>1, <1>2, SetLink, NothingType
  <2>2. work.view = NoOne => Linked' = {}
    BY <1>1, <2>1 DEF TreeOK, Linked, WorkType
  <2>3. work.dir = NoOne => work' = Nothing
    <3>1. ASSUME work = Nothing
          PROVE  work' = work
      <4>1. work.link[n] = NoLink /\ work.link \in [Names -> Links]
        BY <1>1, <3>1 DEF Nothing, WorkType
      <4>2. [work.link EXCEPT ![n] = NoLink] = work.link
        BY <4>1
      <4>3. QED
        BY <1>1, <1>2, <2>1, <4>2 DEF WorkType
    <3>2. QED
      BY <3>1 DEF TreeOK
  <2>4. QED
    BY <2>1, <2>2, <2>3 DEF TreeOK
<1>3. CASE Linked = {} /\ work' = [work EXCEPT !.view = NoOne]
  <2>1. /\ work' \in WorkType /\ work'.dir = work.dir /\ work'.link = work.link
        /\ work'.marker = work.marker /\ work'.text = work.text /\ work'.view = NoOne
    BY <1>1, <1>3 DEF WorkType
  <2>2. QED
    BY <1>1, <1>3, <2>1, TakeAway DEF TreeOK, Linked
<1>4. CASE work' = WithoutMarker
  <2>1. /\ work' \in WorkType /\ work'.dir = work.dir /\ work'.link = work.link
        /\ work'.marker = NoOne /\ work'.text = FALSE /\ work'.view = work.view
    BY <1>1, <1>4 DEF WorkType, WithoutMarker
  <2>2. QED
    BY <1>1, <1>4, <2>1, TakeAway DEF TreeOK, Linked
<1>5. CASE work' = Nothing
  BY <1>1, <1>5, NothingType DEF TreeOK, Linked, Nothing
<1>6. CASE UNCHANGED work
  BY <1>1, <1>6 DEF TreeOK, Linked
<1>7. QED
  BY <1>2, <1>3, <1>4, <1>5, <1>6 DEF Shrinks

LEMMA ActsTree ==
  ASSUME LayoutTypeOK, TreeOK, NEW p \in Prepares, Acts(p)
  PROVE  work' \in WorkType /\ TreeOK'
<1>1. work \in WorkType /\ p \in Makers /\ NoOne \in Makers /\ p # NoOne
  BY ServingLayoutAssumption DEF LayoutTypeOK, WorkType, Makers
<1>2. ASSUME NEW n \in Names, work.view # NoOne, work.link[n] = NoLink,
             work' = [work EXCEPT !.link[n] = [to |-> prepare[p].pkg, by |-> p]]
      PROVE  work' \in WorkType /\ TreeOK'
  <2>1. [to |-> prepare[p].pkg, by |-> p] \in Links
    BY <1>1 DEF LayoutTypeOK, PrepareType, Links
  <2>2. work.dir # NoOne
    BY <1>2 DEF TreeOK, Nothing
  <2>3. QED
    BY <1>1, <1>2, <2>1, <2>2, SetLink DEF TreeOK
<1>3. CASE work.dir = NoOne /\ work' = [work EXCEPT !.dir = p]
  BY <1>1, <1>3 DEF TreeOK, WorkType, Linked
<1>4. CASE work.dir # NoOne /\ work' = [work EXCEPT !.marker = p, !.text = FALSE]
  BY <1>1, <1>4 DEF TreeOK, WorkType, Linked
<1>5. CASE work.marker = p /\ work' = [work EXCEPT !.text = TRUE]
  <2>1. work.dir # NoOne
    BY <1>1, <1>5 DEF TreeOK, Nothing
  <2>2. QED
    BY <1>1, <1>5, <2>1 DEF TreeOK, WorkType, Linked
<1>6. CASE work.dir # NoOne /\ work.view = NoOne /\ work' = [work EXCEPT !.view = p]
  BY <1>1, <1>6 DEF TreeOK, WorkType, Linked
<1>7. QED
  BY <1>1, <1>2, <1>3, <1>4, <1>5, <1>6, ActsWork, ShrinkTree

LEMMA ActsType ==
  ASSUME LayoutTypeOK, TreeOK, NEW p \in Prepares, Acts(p)
  PROVE  LayoutTypeOK'
<1>1. work' \in WorkType
  BY ActsTree
<1>2. QED
  BY <1>1, ActsFrame DEF LayoutTypeOK, WorkType

(* A prepare that found a directory only looks at it.                      *)
LEMMA ActsLook ==
  ASSUME LayoutTypeOK, NEW p \in Prepares, Acts(p), prepare[p].pc \in {"exists", "inspect", "compare"}
  PROVE  /\ UNCHANGED work
         /\ \/ prepare'[p].pc \in {"inspect", "compare", "returned", "refused", "killed"}
            \/ prepare'[p].pc = "mkdir" /\ work.dir = NoOne
<1>1. Exists(p) \/ InspectEntries(p) \/ InspectLink(p) \/ Kill(p)
  BY DEF Acts, Mkdir, OpenMarker, FillMarker, MakeView, Link, VerifyView, RemoveLink, RemoveView,
         RollBackMarker, RemoveMarker, RemoveWork
<1>2. /\ UNCHANGED work
      /\ \/ \E x \in {"inspect", "compare", "returned", "refused", "killed"}, t \in SUBSET Names : Goes(p, x, t)
         \/ Goes(p, "mkdir", {}) /\ work.dir = NoOne
  BY <1>1 DEF LayoutTypeOK, PrepareType, Exists, InspectEntries, InspectLink, Kill
<1>3. QED
  BY <1>2, GoesTo DEF Moves

LEMMA ActsAlone ==
  ASSUME IInv, NEW p \in Prepares, Acts(p)
  PROVE  AloneOK'
<1>1. LayoutTypeOK /\ AloneOK /\ StageOK
  BY DEF IInv
<1>2. /\ Working(p) /\ UNCHANGED clear
      /\ \A q \in Prepares \ {p} : prepare'[q] = prepare[q]
      /\ prepare'[p].disturbed = prepare[p].disturbed /\ prepare'[p].pc # "idle"
  BY <1>1, ActsFrame
<1>3. prepare[p].pc # "idle"
  BY <1>2 DEF Working
<1>4. \A q \in Prepares : Working(q)' => q = p
  BY <1>1, <1>2 DEF AloneOK, Working
<1>5. /\ \A q \in Prepares : prepare'[q].pc = "idle" => ~prepare'[q].disturbed
      /\ \A q \in Prepares, c \in Clears :
           prepare'[q].pc # "idle" /\ ~prepare'[q].disturbed => ~Clearing(c)'
  BY <1>1, <1>2, <1>3 DEF AloneOK, Clearing
<1>6. ASSUME NEW q \in Prepares, prepare'[q].pc = "returned", ~prepare'[q].disturbed, Working(p)'
      PROVE  prepare'[p].pc \in {"exists", "inspect", "compare"}
  <2>1. q # p
    BY <1>6 DEF Working
  <2>2. prepare[q].pc = "returned" /\ ~prepare[q].disturbed
    BY <1>2, <1>6, <2>1
  <2>3. prepare[p].pc \in {"exists", "inspect", "compare"} /\ work.dir # NoOne
    BY <1>1, <1>2, <2>2 DEF AloneOK, StageOK, Stage, Made
  <2>4. QED
    BY <1>1, <1>6, <2>3, ActsLook DEF Working
<1>7. QED
  BY <1>4, <1>5, <1>6 DEF AloneOK

(* What the prepare at work has got so far.                                *)
LEMMA OwnStage ==
  ASSUME LayoutTypeOK, TreeOK, NEW p \in Prepares, Acts(p), Stage(p)
  PROVE  Stage(p)'
<1>1. work \in WorkType /\ p # NoOne /\ NoPackage \notin Packages
  BY ServingLayoutAssumption DEF LayoutTypeOK, WorkType
<1>2. CASE Exists(p)
  <2>1. Goes(p, "mkdir", {}) \/ Goes(p, "inspect", {})
    BY <1>2 DEF Exists
  <2>2. QED
    BY <2>1, GoesTo DEF Moves, Stage
<1>3. CASE InspectEntries(p)
  <2>1. CASE Goes(p, "refused", {})
    BY <2>1, GoesTo DEF Moves, Stage
  <2>2. CASE work.dir # NoOne /\ work.text /\ work.view # NoOne /\ Goes(p, "compare", Names) /\ UNCHANGED work
    BY <2>2, GoesTo DEF Moves, Stage, Made
  <2>3. QED
    BY <1>3, <2>1, <2>2 DEF InspectEntries
<1>4. CASE InspectLink(p)
  <2>1. PICK n \in prepare[p].todo :
          IF ~LinkMatches(n, prepare[p].pkg) THEN Goes(p, "refused", {})
          ELSE LET left == prepare[p].todo \ {n}
               IN  Goes(p, IF left = {} THEN "returned" ELSE "compare", left)
    BY <1>4 DEF InspectLink
  <2>2. CASE Goes(p, "refused", {})
    BY <2>2, GoesTo DEF Moves, Stage
  <2>3. CASE /\ work.link[n].to = prepare[p].pkg
             /\ Goes(p, IF prepare[p].todo \ {n} = {} THEN "returned" ELSE "compare", prepare[p].todo \ {n})
    <3>1. Made(p, Names \ prepare[p].todo) /\ UNCHANGED work
      BY <1>4 DEF InspectLink, Stage
    <3>2. /\ prepare'[p].pc = IF prepare[p].todo \ {n} = {} THEN "returned" ELSE "compare"
          /\ prepare'[p].todo = prepare[p].todo \ {n} /\ prepare'[p].pkg = prepare[p].pkg
      BY <2>3, GoesTo DEF Moves
    <3>3. QED
      BY <2>3, <3>1, <3>2 DEF Stage, Made
  <2>4. QED
    BY <2>1, <2>2, <2>3 DEF LinkMatches, LinkIsOf
<1>5. ASSUME Goes(p, "unlink", Names)
      PROVE  Stage(p)'
  <2>1. Linked' \subseteq Names
    BY DEF Linked
  <2>2. QED
    BY <1>5, <2>1, GoesTo DEF Moves, Stage
<1>6. CASE Mkdir(p)
  <2>1. CASE work' = [work EXCEPT !.dir = p] /\ Goes(p, "mark", {})
    BY <1>1, <2>1, GoesTo DEF Moves, Stage, WorkType
  <2>2. QED
    BY <1>5, <1>6, <2>1 DEF Mkdir, Creates
<1>7. CASE OpenMarker(p)
  <2>1. CASE work.dir # NoOne /\ work' = [work EXCEPT !.marker = p, !.text = FALSE] /\ Goes(p, "text", {})
    BY <1>1, <2>1, GoesTo DEF Moves, Stage, WorkType
  <2>2. QED
    BY <1>5, <1>7, <2>1 DEF OpenMarker, Creates
<1>8. CASE FillMarker(p)
  <2>1. CASE work' = [work EXCEPT !.text = TRUE] /\ Goes(p, "mkview", {})
    <3>1. work.dir # NoOne
      BY <1>8 DEF FillMarker, Stage
    <3>2. QED
      BY <1>1, <2>1, <3>1, GoesTo DEF Moves, Stage, WorkType
  <2>2. work.marker = p
    BY <1>8 DEF FillMarker, Stage
  <2>3. QED
    BY <1>5, <1>8, <2>1, <2>2 DEF FillMarker, Creates
<1>9. CASE MakeView(p)
  <2>1. CASE work.dir # NoOne /\ work' = [work EXCEPT !.view = p] /\ Goes(p, "link", Names)
    <3>1. work.text
      BY <1>9 DEF MakeView, Stage
    <3>2. work'.dir # NoOne /\ work'.text /\ work'.view # NoOne
      BY <1>1, <2>1, <3>1 DEF WorkType
    <3>3. QED
      BY <2>1, <3>2, GoesTo DEF Moves, Stage, Made
  <2>2. QED
    BY <1>5, <1>9, <2>1 DEF MakeView, Creates
<1>10. CASE Link(p)
  <2>1. PICK n \in prepare[p].todo :
          LET left == prepare[p].todo \ {n} IN
          Creates(p, work.view # NoOne /\ work.link[n] = NoLink,
               IF left = {} THEN "expose" ELSE "link", IF left = {} THEN Names ELSE left,
               [work EXCEPT !.link[n] = [to |-> prepare[p].pkg, by |-> p]])
    BY <1>10 DEF Link
  <2>2. CASE /\ work' = [work EXCEPT !.link[n] = [to |-> prepare[p].pkg, by |-> p]]
             /\ Goes(p, IF prepare[p].todo \ {n} = {} THEN "expose" ELSE "link",
                        IF prepare[p].todo \ {n} = {} THEN Names ELSE prepare[p].todo \ {n})
    <3>1. Made(p, Names \ prepare[p].todo) /\ prepare[p].todo \in SUBSET Names
      BY <1>10 DEF Link, Stage, LayoutTypeOK, PrepareType
    <3>2. [to |-> prepare[p].pkg, by |-> p] \in Links
      BY DEF LayoutTypeOK, PrepareType, Links, Makers
    <3>3. /\ work'.link = [work.link EXCEPT ![n] = [to |-> prepare[p].pkg, by |-> p]]
          /\ work'.dir = work.dir /\ work'.text = work.text /\ work'.view = work.view
      BY <1>1, <2>2, <3>1, <3>2, SetLink
    <3>4. work'.link[n].to = prepare[p].pkg /\ \A m \in Names \ {n} : work'.link[m] = work.link[m]
      BY <1>1, <3>1, <3>3 DEF WorkType
    <3>5. /\ prepare'[p].pc = IF prepare[p].todo \ {n} = {} THEN "expose" ELSE "link"
          /\ prepare'[p].todo = IF prepare[p].todo \ {n} = {} THEN Names ELSE prepare[p].todo \ {n}
          /\ prepare'[p].pkg = prepare[p].pkg
      BY <2>2, GoesTo DEF Moves
    <3>6. \A m \in Names \ (prepare[p].todo \ {n}) : work'.link[m].to = prepare[p].pkg
      BY <3>1, <3>4 DEF Made
    <3>7. work'.dir # NoOne /\ work'.text /\ work'.view # NoOne
      BY <3>1, <3>3 DEF Made
    <3>8. QED
      BY <3>5, <3>6, <3>7 DEF Stage, Made
  <2>3. QED
    BY <1>5, <2>1, <2>2 DEF Creates
<1>11. CASE VerifyView(p)
  <2>1. CASE \E t : Goes(p, "returned", t) \/ Goes(p, "expose", t)
    <3>1. Made(p, Names) /\ UNCHANGED work
      BY <1>11 DEF VerifyView, Stage
    <3>2. QED
      BY <2>1, <3>1, GoesTo DEF Moves, Stage, Made
  <2>2. QED
    BY <1>5, <1>11, <2>1 DEF VerifyView
<1>12. CASE RemoveLink(p)
  <2>1. PICK n \in prepare[p].todo :
          Removes(p, n, IF prepare[p].todo \ {n} = {} THEN "rmview" ELSE "unlink", prepare[p].todo \ {n},
                  [work EXCEPT !.link[n] = NoLink])
    BY <1>12 DEF RemoveLink
  <2> DEFINE left == prepare[p].todo \ {n}
             next == IF left = {} THEN "rmview" ELSE "unlink"
  <2>2. /\ prepare[p].todo \in SUBSET Names /\ n \in Names /\ n \in Entries
        /\ left \in SUBSET Names /\ next \in Labels
        /\ Linked \subseteq prepare[p].todo \cup prepare[p].stuck
    BY <1>12 DEF RemoveLink, Stage, LayoutTypeOK, PrepareType, Entries, Labels
  <2> HIDE DEF next
  <2>3. \/ work' = [work EXCEPT !.link[n] = NoLink] /\ Moves(p, next, left, prepare[p].stuck)
        \/ UNCHANGED work /\ Moves(p, next, left, prepare[p].stuck \cup {n})
    BY <2>1, <2>2, RemovesTo DEF next
  <2>4. CASE work' = [work EXCEPT !.link[n] = NoLink] /\ Moves(p, next, left, prepare[p].stuck)
    <3>1. work'.link = [work.link EXCEPT ![n] = NoLink]
      BY <1>1, <2>2, <2>4, SetLink, NothingType
    <3>2. Linked' \subseteq Linked \ {n}
      BY <1>1, <2>2, <3>1 DEF WorkType, Linked
    <3>3. Linked' \subseteq left \cup prepare[p].stuck
      BY <2>2, <3>2
    <3>4. QED
      BY <2>4, <3>3 DEF Moves, Stage, next
  <2>5. CASE UNCHANGED work /\ Moves(p, next, left, prepare[p].stuck \cup {n})
    <3>1. Linked' \subseteq left \cup (prepare[p].stuck \cup {n})
      BY <2>2, <2>5 DEF Linked
    <3>2. QED
      BY <2>5, <3>1 DEF Moves, Stage, next
  <2>6. QED
    BY <2>3, <2>4, <2>5
<1>13. CASE RemoveView(p)
  <2>1. Linked \subseteq prepare[p].stuck
    BY <1>13 DEF RemoveView, Stage
  <2>2. View \in Entries /\ "unmark" \in Labels /\ {} \in SUBSET Names
    BY DEF Entries, Labels
  <2>3. \/ /\ work' = IF Linked = {} THEN [work EXCEPT !.view = NoOne] ELSE work
           /\ Moves(p, "unmark", {}, prepare[p].stuck)
        \/ UNCHANGED work /\ Moves(p, "unmark", {}, prepare[p].stuck \cup {View})
    BY <1>13, <2>2, RemovesTo DEF RemoveView
  <2>4. Linked' = Linked /\ (work'.view # NoOne => Linked # {} \/ View \in prepare'[p].stuck)
    BY <1>1, <2>3 DEF WorkType, Linked, Moves
  <2>5. QED
    BY <2>1, <2>3, <2>4 DEF Stage, Moves
<1>14. CASE RollBackMarker(p)
  <2>1. /\ Linked \subseteq prepare[p].stuck
        /\ work.view # NoOne => View \in prepare[p].stuck \/ Linked # {}
    BY <1>14 DEF RollBackMarker, RemoveMarker, Stage
  <2>2. Marker \in Entries /\ "rmwork" \in Labels /\ {} \in SUBSET Names
    BY DEF Entries, Labels
  <2>3. \/ work' = WithoutMarker /\ Moves(p, "rmwork", {}, prepare[p].stuck)
        \/ UNCHANGED work /\ Moves(p, "rmwork", {}, prepare[p].stuck \cup {Marker})
    BY <1>14, <2>2, RemovesTo DEF RollBackMarker, RemoveMarker
  <2>4. CASE work' = WithoutMarker
    <3>1. work'.link = work.link /\ work'.view = work.view /\ work'.marker = NoOne
      BY <1>1, <2>4 DEF WorkType, WithoutMarker
    <3>2. Linked' = Linked
      BY <3>1 DEF Linked
    <3>3. QED
      BY <2>1, <2>3, <3>1, <3>2 DEF Stage, Moves
  <2>5. CASE UNCHANGED work /\ Moves(p, "rmwork", {}, prepare[p].stuck \cup {Marker})
    <3>1. Linked' = Linked
      BY <2>5 DEF Linked
    <3>2. QED
      BY <2>1, <2>5, <3>1 DEF Stage, Moves
  <2>6. QED
    BY <2>3, <2>4, <2>5
<1>15. CASE RemoveWork(p)
  <2>1. WorkDir \in Entries /\ "failed" \in Labels /\ {} \in SUBSET Names
    BY DEF Entries, Labels
  <2>2. \E u : Moves(p, "failed", {}, u)
    BY <1>15, <2>1, RemovesTo DEF RemoveWork
  <2>3. QED
    BY <2>2 DEF Moves, Stage
<1>16. CASE Kill(p)
  BY <1>16, GoesTo DEF Moves, Kill, Stage
<1>17. QED
  BY <1>2, <1>3, <1>4, <1>6, <1>7, <1>8, <1>9, <1>10, <1>11, <1>12, <1>13, <1>14, <1>15, <1>16 DEF Acts

LEMMA ActsStage ==
  ASSUME IInv, NEW p \in Prepares, Acts(p)
  PROVE  StageOK'
<1>1. LayoutTypeOK /\ TreeOK /\ AloneOK /\ StageOK
  BY DEF IInv
<1>2. Working(p) /\ prepare'[p].disturbed = prepare[p].disturbed
      /\ \A q \in Prepares \ {p} : prepare'[q] = prepare[q]
  BY <1>1, ActsFrame
<1>3. SUFFICES ASSUME NEW q \in Prepares, ~prepare'[q].disturbed
               PROVE  Stage(q)'
  BY DEF StageOK
<1>4. CASE q = p
  BY <1>1, <1>2, <1>3, <1>4, OwnStage DEF StageOK
<1>5. CASE q # p
  <2>1. prepare'[q] = prepare[q] /\ Stage(q) /\ ~Working(q)
    BY <1>1, <1>2, <1>3, <1>5 DEF StageOK, AloneOK
  <2>2. CASE prepare[q].pc = "returned"
    <3>1. UNCHANGED work
      BY <1>1, <1>2, <1>3, <2>1, <2>2, ActsLook DEF AloneOK
    <3>2. QED
      BY <2>1, <2>2, <3>1 DEF Stage, Made
  <2>3. CASE prepare[q].pc # "returned"
    BY <2>1, <2>3 DEF Stage, Working
  <2>4. QED
    BY <2>2, <2>3
<1>6. QED
  BY <1>4, <1>5

-----------------------------------------------------------------------------
(* A prepare begins, while no other is at work.                            *)
LEMMA ValidateInv ==
  ASSUME ~Overlapping, IInv, NEW p \in Prepares, NEW k \in Packages, Validate(p, k)
  PROVE  IInv'
<1>1. LayoutTypeOK /\ TreeOK /\ AloneOK /\ StageOK
  BY DEF IInv
<1>2. UNCHANGED <<work, clear>> /\ prepare[p].pc = "idle" /\ \A o \in Prepares : ~Working(o)
  BY DEF Validate
<1>3. PICK x \in {"exists", "refused"}, d \in BOOLEAN :
        /\ prepare' = [prepare EXCEPT ![p] = [pc |-> x, pkg |-> k, todo |-> {}, stuck |-> {}, disturbed |-> d]]
        /\ d <=> \E c \in Clears : Clearing(c)
  <2>1. prepare' = [prepare EXCEPT ![p] =
          [pc |-> IF gone[k] = {} THEN "exists" ELSE "refused", pkg |-> k, todo |-> {}, stuck |-> {},
           disturbed |-> \E c \in Clears : Clearing(c)]]
    BY DEF Validate
  <2>2. CASE gone[k] = {}
    BY <2>1, <2>2 DEF Validate
  <2>3. CASE gone[k] # {}
    BY <2>1, <2>3 DEF Validate
  <2>4. QED
    BY <2>2, <2>3
<1>4. LayoutTypeOK'
  <2>1. [pc |-> x, pkg |-> k, todo |-> {}, stuck |-> {}, disturbed |-> d] \in
          PrepareType
    BY DEF Labels, PrepareType
  <2>2. QED
    BY <1>1, <1>2, <1>3, <2>1 DEF LayoutTypeOK
<1>5. /\ prepare'[p] = [pc |-> x, pkg |-> k, todo |-> {}, stuck |-> {}, disturbed |-> d]
      /\ \A q \in Prepares \ {p} : prepare'[q] = prepare[q]
  BY <1>1, <1>3 DEF LayoutTypeOK
<1>6. prepare'[p].pc = x /\ (prepare'[p].disturbed <=> d)
  BY <1>5
<1>7. TreeOK'
  BY <1>1, <1>2 DEF TreeOK, Linked
<1>8. AloneOK'
  <2>1. \A q \in Prepares : Working(q)' => q = p
    BY <1>2, <1>5 DEF Working
  <2>2. \A c \in Clears : Clearing(c)' <=> Clearing(c)
    BY <1>2 DEF Clearing
  <2>3. \A q \in Prepares : prepare'[q].pc = "idle" => ~prepare'[q].disturbed
    BY <1>1, <1>5, <1>6 DEF AloneOK
  <2>4. \A q \in Prepares, c \in Clears :
          prepare'[q].pc # "idle" /\ ~prepare'[q].disturbed => ~Clearing(c)'
    BY <1>1, <1>3, <1>5, <1>6, <2>2 DEF AloneOK
  <2>5. Working(p)' => prepare'[p].pc = "exists"
    BY <1>6 DEF Working
  <2>6. QED
    BY <2>1, <2>3, <2>4, <2>5 DEF AloneOK
<1>9. StageOK'
  <2>1. Stage(p)'
    BY <1>6 DEF Stage
  <2>2. ASSUME NEW q \in Prepares \ {p}, ~prepare'[q].disturbed
        PROVE  Stage(q)'
    BY <1>1, <1>2, <1>5, <2>2 DEF StageOK, Stage, Made, Linked
  <2>3. QED
    BY <2>1, <2>2 DEF StageOK
<1>10. QED
  BY <1>4, <1>7, <1>8, <1>9 DEF IInv

-----------------------------------------------------------------------------
(* A step of a clear: it disturbs every prepare that has begun.            *)

ClearActs(c) == BeginClear(c) \/ ClearLink(c) \/ ClearView(c) \/ ClearMarker(c) \/ ClearWork(c)

LEMMA ClearFrame ==
  ASSUME LayoutTypeOK, NEW c \in Clears, ClearActs(c)
  PROVE  /\ clear' \in [Clears -> [pc : ClearLabels, todo : SUBSET Names]]
         /\ \A d \in Clears \ {c} : clear'[d] = clear[d]
         /\ Shrinks
         /\ \/ UNCHANGED prepare /\ Clearing(c)
            \/ UNCHANGED <<prepare, work>> /\ ~Clearing(c) /\ ~Clearing(c)'
            \/ /\ UNCHANGED work /\ ~Clearing(c)
               /\ prepare' = [p \in Prepares |-> [prepare[p] EXCEPT !.disturbed = (@ \/ prepare[p].pc # "idle")]]
<1>1. clear[c].todo \in SUBSET Names /\ Linked \in SUBSET Names
  BY DEF LayoutTypeOK, Linked
<1>2. \E x \in ClearLabels, t \in SUBSET Names : ClearGoes(c, x, t)
  BY <1>1 DEF ClearActs, BeginClear, ClearLink, ClearView, ClearMarker, ClearWork, Unmakes, Scanned, ClearLabels
<1>3. PICK x \in ClearLabels, t \in SUBSET Names : ClearGoes(c, x, t)
  BY <1>2
<1>4. /\ clear' \in [Clears -> [pc : ClearLabels, todo : SUBSET Names]]
      /\ \A d \in Clears \ {c} : clear'[d] = clear[d]
  BY <1>3 DEF LayoutTypeOK, ClearGoes
<1>5. Shrinks
  BY <1>1 DEF ClearActs, BeginClear, ClearLink, ClearView, ClearMarker, ClearWork, Unmakes, Shrinks
<1>6. CASE ~BeginClear(c)
  BY <1>4, <1>5, <1>6 DEF ClearActs, ClearLink, ClearView, ClearMarker, ClearWork, Clearing
<1>7. CASE BeginClear(c)
  <2>1. ~Clearing(c) /\ UNCHANGED work
    BY <1>7 DEF BeginClear, Clearing
  <2>2. ClearGoes(c, "refused", {}) => ~Clearing(c)'
    BY DEF LayoutTypeOK, ClearGoes, Clearing
  <2>3. QED
    BY <1>4, <1>5, <1>7, <2>1, <2>2 DEF BeginClear
<1>8. QED
  BY <1>4, <1>5, <1>6, <1>7

LEMMA ClearInv ==
  ASSUME IInv, NEW c \in Clears, ClearActs(c)
  PROVE  IInv'
<1>1. LayoutTypeOK /\ TreeOK /\ AloneOK /\ StageOK
  BY DEF IInv
<1>2. work' \in WorkType /\ TreeOK'
  BY <1>1, ClearFrame, ShrinkTree DEF LayoutTypeOK, WorkType
<1>3. CASE UNCHANGED prepare /\ Clearing(c)
  <2>1. \A p \in Prepares : prepare[p].pc = "idle" \/ prepare[p].disturbed
    BY <1>1, <1>3 DEF AloneOK
  <2>2. LayoutTypeOK'
    BY <1>1, <1>2, <1>3, ClearFrame DEF LayoutTypeOK, WorkType
  <2>3. AloneOK'
    BY <1>1, <1>3, <2>1 DEF AloneOK, Working
  <2>4. StageOK'
    BY <1>1, <1>3, <2>1, ClearFrame DEF StageOK, Stage
  <2>5. QED
    BY <1>2, <2>2, <2>3, <2>4 DEF IInv
<1>4. CASE UNCHANGED <<prepare, work>> /\ ~Clearing(c) /\ ~Clearing(c)'
  <2>1. \A d \in Clears : Clearing(d)' => Clearing(d)
    BY <1>1, <1>4, ClearFrame DEF Clearing
  <2>2. LayoutTypeOK'
    BY <1>1, <1>2, <1>4, ClearFrame DEF LayoutTypeOK, WorkType
  <2>3. AloneOK'
    BY <1>1, <1>4, <2>1 DEF AloneOK, Working
  <2>4. StageOK'
    BY <1>1, <1>4, ClearFrame DEF StageOK, Stage, Made, Linked
  <2>5. QED
    BY <1>2, <2>2, <2>3, <2>4 DEF IInv
<1>5. CASE /\ UNCHANGED work /\ ~Clearing(c)
           /\ prepare' = [p \in Prepares |-> [prepare[p] EXCEPT !.disturbed = (@ \/ prepare[p].pc # "idle")]]
  <2>1. \A p \in Prepares :
          /\ prepare'[p].pc = prepare[p].pc /\ prepare'[p].pkg = prepare[p].pkg
          /\ prepare'[p].todo = prepare[p].todo
          /\ prepare'[p].disturbed <=> (prepare[p].disturbed \/ prepare[p].pc # "idle")
    BY ZenonT(40), <1>1, <1>5 DEF LayoutTypeOK, PrepareType
  <2>2. LayoutTypeOK'
    <3>1. ASSUME NEW p \in Prepares
          PROVE  [prepare[p] EXCEPT !.disturbed = (@ \/ prepare[p].pc # "idle")] \in
                   PrepareType
      <4>1. prepare[p] \in PrepareType
        BY <1>1 DEF LayoutTypeOK
      <4>2. (prepare[p].disturbed \/ prepare[p].pc # "idle") \in BOOLEAN
        OBVIOUS
      <4>3. QED
        BY <4>1, <4>2 DEF PrepareType
    <3>2. QED
      BY <1>1, <1>2, <1>5, <3>1, ClearFrame DEF LayoutTypeOK, WorkType
  <2>3. AloneOK'
    BY <1>1, <2>1 DEF AloneOK, Working
  <2>4. StageOK'
    BY <1>1, <2>1 DEF StageOK, Stage
  <2>5. QED
    BY <1>2, <2>2, <2>3, <2>4 DEF IInv
<1>6. QED
  BY <1>1, <1>3, <1>4, <1>5, ClearFrame

LEMMA InitIInv == LayoutInit => IInv
<1> SUFFICES ASSUME LayoutInit
             PROVE  IInv
  OBVIOUS
<1>1. LayoutTypeOK
  BY NothingType DEF LayoutInit, LayoutTypeOK, PrepareType, WorkType, Labels, ClearLabels
<1>2. TreeOK
  BY DEF LayoutInit, TreeOK, Linked, Nothing
<1>3. \A p \in Prepares : prepare[p].pc = "idle" /\ ~prepare[p].disturbed
  BY DEF LayoutInit
<1>4. AloneOK /\ StageOK
  BY <1>3 DEF AloneOK, StageOK, Stage, Working
<1>5. QED
  BY <1>1, <1>2, <1>4 DEF IInv

LEMMA IInvStep ==
  ASSUME ~Overlapping
  PROVE  IInv /\ [LayoutNext]_layoutVars => IInv'
<1> SUFFICES ASSUME IInv, [LayoutNext]_layoutVars
             PROVE  IInv'
  OBVIOUS
<1>1. ASSUME NEW p \in Prepares, Acts(p)
      PROVE  IInv'
  <2>1. LayoutTypeOK /\ TreeOK
    BY DEF IInv
  <2>2. QED
    BY <1>1, <2>1, ActsTree, ActsType, ActsAlone, ActsStage DEF IInv
<1>2. ASSUME NEW p \in Prepares, NEW k \in Packages, Validate(p, k)
      PROVE  IInv'
  BY <1>2, ValidateInv
<1>3. ASSUME NEW c \in Clears, ClearActs(c)
      PROVE  IInv'
  BY <1>3, ClearInv
<1>4. CASE (\E k \in Packages, n \in Names : LoseEntry(k, n)) \/ UNCHANGED layoutVars
  <2>1. UNCHANGED <<work, prepare, clear>>
    BY <1>4 DEF LoseEntry, layoutVars
  <2>2. QED
    BY <2>1 DEF IInv, LayoutTypeOK, TreeOK, AloneOK, StageOK, Stage, Made, Linked, Working, Clearing
<1>5. QED
  BY <1>1, <1>2, <1>3, <1>4 DEF LayoutNext, Acts, ClearActs

LEMMA IInvAlways == ASSUME ~Overlapping PROVE LayoutSpec => []IInv
BY InitIInv, IInvStep, PTL DEF LayoutSpec

-----------------------------------------------------------------------------
(* What the invariant gives.                                               *)

(* While one prepare works at a time, a returned path is the whole view of *)
(* the package it was asked for, whatever failed or was killed before it,  *)
(* until somebody clears it.                                               *)
THEOREM ReturnedViewIsWhole == ASSUME ~Overlapping PROVE LayoutSpec => []ReturnedIsWhole
<1>1. IInv => ReturnedIsWhole
  BY DEF IInv, StageOK, Stage, Made, ReturnedIsWhole
<1>2. QED
  BY <1>1, IInvAlways, PTL

(* ... and what a prepare that could not finish leaves, wherever it failed *)
(* and whatever fails in its rollback, is what it could not remove and the *)
(* directories that hold it.                                               *)
THEOREM FailureLeavesStuck == ASSUME ~Overlapping PROVE LayoutSpec => RefusedLeavesStuck
<1>1. ASSUME IInv, [LayoutNext]_layoutVars
      PROVE  [\A p \in Prepares :
                prepare[p].pc = "rmwork" /\ prepare'[p].pc = "failed" /\ ~prepare[p].disturbed =>
                  /\ Linked' \subseteq prepare'[p].stuck
                  /\ work'.view # NoOne => View \in prepare'[p].stuck \/ Linked' # {}
                  /\ work'.marker # NoOne => Marker \in prepare'[p].stuck
                  /\ work' # Nothing =>
                       WorkDir \in prepare'[p].stuck \/ work'.view # NoOne \/ work'.marker # NoOne
             ]_layoutVars
  <2>1. SUFFICES ASSUME NEW p \in Prepares, prepare[p].pc = "rmwork", prepare'[p].pc = "failed",
                        ~prepare[p].disturbed
                 PROVE  /\ Linked' \subseteq prepare'[p].stuck
                        /\ work'.view # NoOne => View \in prepare'[p].stuck \/ Linked' # {}
                        /\ work'.marker # NoOne => Marker \in prepare'[p].stuck
                        /\ work' # Nothing =>
                             WorkDir \in prepare'[p].stuck \/ work'.view # NoOne \/ work'.marker # NoOne
    OBVIOUS
  <2>2. LayoutTypeOK /\ AloneOK /\ Stage(p)
    BY <1>1, <2>1 DEF IInv, StageOK
  <2>3. /\ Linked \subseteq prepare[p].stuck
        /\ work.view # NoOne => View \in prepare[p].stuck \/ Linked # {}
        /\ work.marker # NoOne => Marker \in prepare[p].stuck
    BY <2>1, <2>2 DEF Stage
  <2>4. Working(p)
    BY <2>1 DEF Working
  <2>5. RemoveWork(p)
    <3>1. ASSUME NEW q \in Prepares, Acts(q)
          PROVE  q = p
      BY <2>2, <2>4, <3>1, ActsFrame DEF AloneOK
    <3>2. ASSUME NEW q \in Prepares, NEW k \in Packages, Validate(q, k)
          PROVE  FALSE
      BY <2>1, <2>2, <3>2 DEF Validate, LayoutTypeOK, PrepareType
    <3>3. ASSUME NEW c \in Clears, ClearActs(c)
          PROVE  FALSE
      <4>1. \/ UNCHANGED prepare
            \/ prepare' = [o \in Prepares |->
                            [prepare[o] EXCEPT !.disturbed = (@ \/ prepare[o].pc # "idle")]]
        BY <2>2, <3>3, ClearFrame
      <4>2. prepare[p] \in PrepareType
        BY <2>2 DEF LayoutTypeOK
      <4>3. CASE prepare' = [o \in Prepares |->
                              [prepare[o] EXCEPT !.disturbed = (@ \/ prepare[o].pc # "idle")]]
        <5>1. prepare'[p] = [prepare[p] EXCEPT !.disturbed = (@ \/ prepare[p].pc # "idle")]
          BY <4>3
        <5>2. prepare'[p].pc = prepare[p].pc
          BY <4>2, <5>1 DEF PrepareType
        <5>3. QED
          BY <2>1, <5>2
      <4>4. QED
        BY <2>1, <4>1, <4>3
    <3>4. Acts(p)
      BY <1>1, <2>1, <3>1, <3>2, <3>3
      DEF LayoutNext, Acts, ClearActs, LoseEntry, layoutVars
    <3>5. ~Kill(p)
      BY <2>1, <2>2, GoesTo DEF Kill, Moves
    <3>6. QED
      BY <2>1, <3>4, <3>5
      DEF Acts, Exists, InspectEntries, InspectLink, Mkdir, OpenMarker, FillMarker, MakeView, Link,
          VerifyView, RemoveLink, RemoveView, RollBackMarker, RemoveMarker
  <2>6. \/ /\ work' = IF IsEmpty THEN Nothing ELSE work
           /\ Moves(p, "failed", {}, prepare[p].stuck)
        \/ UNCHANGED work /\ Moves(p, "failed", {}, prepare[p].stuck \cup {WorkDir})
    <3>1. WorkDir \in Entries /\ "failed" \in Labels /\ {} \in SUBSET Names
      BY DEF Entries, Labels
    <3>2. QED
      BY <2>2, <2>5, <3>1, RemovesTo DEF RemoveWork
  <2>7. CASE UNCHANGED work
    BY <2>3, <2>6, <2>7 DEF Moves, Linked, IsEmpty
  <2>8. CASE work' = Nothing
    BY <2>8 DEF Nothing, Linked
  <2>9. QED
    BY <2>6, <2>7, <2>8
<1>2. QED
  BY <1>1, IInvAlways, PTL DEF LayoutSpec, RefusedLeavesStuck

-----------------------------------------------------------------------------
(* ComponentCatalog: the inductive invariant.                              *)

RequestLabels == {"idle", "catalog", "build", "roots", "scan", "list", "reset", "answered"}

Timed(index) == index.began \in 0..edits

RequestOK(r) ==
  /\ DOMAIN req[r] = {"pc", "op", "cat", "todo", "fresh", "clean", "answer", "status", "alone", "floor"}
  /\ req[r].pc \in RequestLabels
  /\ req[r].op \in {"list", "scan"}
  /\ req[r].status \in {0, 200, 500, 503}
  /\ req[r].cat \in Reqs \cup {NoReq}
  /\ req[r].clean \in BOOLEAN /\ req[r].alone \in BOOLEAN
  /\ req[r].floor \in 0..edits
  /\ Timed(req[r].fresh) /\ Timed(req[r].answer)
  /\ req[r].status # 0 => req[r].pc = "answered"
  /\ req[r].pc = "idle" => ~req[r].alone
  /\ req[r].pc \in {"build", "roots", "scan", "list", "reset"} => req[r].cat \in Reqs

(* A catalog that is held by anyone was built by a request that is past    *)
(* taking one.                                                             *)
Past(c) == c # NoReq => req[c].pc \notin {"idle", "catalog"}

ShapeOK ==
  /\ edits \in Nat /\ scanned \in 0..edits
  /\ DOMAIN req = Reqs /\ DOMAIN object = Reqs
  /\ \A r \in Reqs : RequestOK(r) /\ Past(req[r].cat)
  /\ \A r \in Reqs : /\ DOMAIN object[r] = {"configured", "index"}
                     /\ object[r].configured \in BOOLEAN /\ Timed(object[r].index)
  /\ \A r \in Reqs : req[r].pc = "build" => req[r].cat = r /\ catalog = NoReq
  /\ Past(catalog)

(* A catalog without roots is dropped by a request that has it; a request  *)
(* that arrived alone finds none and sees none built.                      *)
NeverLeft ==
  catalog # NoReq /\ ~object[catalog].configured =>
    \E r \in Reqs : req[r].pc \in {"roots", "reset"} /\ req[r].cat = catalog

Served ==
  /\ env = "roots"
  /\ catalog # NoReq => object[catalog].configured
  /\ \A o \in Reqs : /\ req[o].pc \in {"build", "roots"} => object[req[o].cat].configured
                     /\ req[o].pc # "reset"

RetryOK ==
  /\ NeverLeft
  /\ \A r \in Reqs : req[r].alone /\ InFlight(r) => Served

(* Whoever scans began no earlier than any scan that counts.               *)
FreshOf(r) ==
  /\ Scanning(r) => /\ scanned <= req[r].fresh.began
                    /\ \A o \in Reqs : req[o].floor <= req[r].fresh.began
                    /\ req[r].clean => \A o \in Reqs : Scanning(o) => o = r
  /\ req[r].pc = "catalog" => req[r].floor <= scanned
  /\ req[r].pc \in {"roots", "scan", "list"} => req[r].floor <= object[req[r].cat].index.began
  /\ req[r].status = 200 => req[r].floor <= req[r].answer.began

FreshOK ==
  /\ \A r \in Reqs : FreshOf(r)
  /\ catalog # NoReq => scanned <= object[catalog].index.began

(* What the scan of some roots has put together.                           *)
Found(index) ==
  /\ index.entries = ScheduleEntries \cup UNION {RootEntries(x, index.seen[x]) : x \in DOMAIN index.seen}
  /\ ~ClashOf(index.entries)

Whole(index) == DOMAIN index.seen = Range(Roots) /\ Found(index)

Left(todo, seen) ==
  /\ todo \in Seq(Range(Roots))
  /\ \A i, j \in 1..Len(todo) : todo[i] = todo[j] => i = j
  /\ Range(todo) \cap DOMAIN seen = {}
  /\ Range(todo) \cup DOMAIN seen = Range(Roots)
  /\ \A x \in DOMAIN seen : seen[x] \in SUBSET Files

WholeOf(r) ==
  /\ Scanning(r) /\ object[req[r].cat].configured =>
       Left(req[r].todo, req[r].fresh.seen) /\ Found(req[r].fresh)
  /\ req[r].pc \in {"roots", "scan", "list"} /\ object[req[r].cat].configured =>
       Whole(object[req[r].cat].index)
  /\ req[r].status = 200 => Whole(req[r].answer)

WholeOK ==
  /\ \A r \in Reqs : WholeOf(r)
  /\ catalog # NoReq /\ object[catalog].configured => Whole(object[catalog].index)

BaseInv == CatalogTypeOK /\ ShapeOK

-----------------------------------------------------------------------------
(* Shapes.                                                                 *)

Fields == {"pc", "op", "cat", "todo", "fresh", "clean", "answer", "status", "alone", "floor"}

(* What a step of request r leaves to the others.                          *)
Spared(r) ==
  /\ DOMAIN req' = Reqs
  /\ \A o \in Reqs : o # r =>
       /\ DOMAIN req'[o] = DOMAIN req[o]
       /\ req'[o].pc = req[o].pc /\ req'[o].op = req[o].op /\ req'[o].cat = req[o].cat
       /\ req'[o].todo = req[o].todo /\ req'[o].fresh = req[o].fresh
       /\ req'[o].answer = req[o].answer /\ req'[o].status = req[o].status
       /\ req'[o].alone = req[o].alone /\ req'[o].floor = req[o].floor
       /\ req'[o].clean \in BOOLEAN /\ (req'[o].clean => req[o].clean)

LEMMA BaseInit == CatalogInit => BaseInv
<1> SUFFICES ASSUME CatalogInit PROVE BaseInv
  OBVIOUS
<1>1. /\ DOMAIN Idle = Fields
      /\ Idle.pc = "idle" /\ Idle.op = "list" /\ Idle.cat = NoReq /\ Idle.fresh = Static
      /\ Idle.clean = FALSE /\ Idle.answer = Static /\ Idle.status = 0 /\ Idle.alone = FALSE /\ Idle.floor = 0
  BY DEF Idle, Fields
<1>2. Static.began = 0
  BY DEF Static
<1>3. DOMAIN NoObject = {"configured", "index"} /\ NoObject.configured = FALSE /\ NoObject.index = Static
  BY DEF NoObject
<1>4. CatalogTypeOK
  BY <1>1, ComponentCatalogAssumption DEF CatalogInit, CatalogTypeOK
<1>5. /\ edits = 0 /\ scanned = 0 /\ catalog = NoReq /\ DOMAIN req = Reqs /\ DOMAIN object = Reqs
      /\ \A r \in Reqs : req[r] = Idle /\ object[r] = NoObject
  BY DEF CatalogInit
<1>6. ASSUME NEW r \in Reqs
      PROVE  RequestOK(r) /\ Past(req[r].cat)
  <2>1. req[r] = Idle
    BY <1>5
  <2>2. req[r].clean \in BOOLEAN /\ req[r].alone \in BOOLEAN /\ ~req[r].alone
    BY <1>1, <2>1
  <2>3. Timed(req[r].fresh) /\ Timed(req[r].answer) /\ req[r].floor \in 0..edits
    BY <1>1, <1>2, <1>5, <2>1 DEF Timed
  <2>4. QED
    BY <1>1, <2>1, <2>2, <2>3 DEF RequestOK, Past, RequestLabels, Fields
<1>7. ShapeOK
  <2>1. \A r \in Reqs : Timed(object[r].index)
    BY <1>2, <1>3, <1>5 DEF Timed
  <2>2. \A r \in Reqs : req[r].pc = "idle"
    BY <1>1, <1>5
  <2>3. \A r \in Reqs : object[r].configured \in BOOLEAN /\ DOMAIN object[r] = {"configured", "index"}
    BY <1>3, <1>5
  <2>4. \A r \in Reqs : RequestOK(r) /\ Past(req[r].cat)
    BY <1>6
  <2>5. edits \in Nat /\ scanned \in 0..edits /\ Past(catalog)
    BY <1>5 DEF Past
  <2>6. \A r \in Reqs : req[r].pc = "build" => req[r].cat = r /\ catalog = NoReq
    BY <2>2
  <2> HIDE DEF Past
  <2>7. QED
    BY <1>5, <2>1, <2>3, <2>4, <2>5, <2>6 DEF ShapeOK
<1>8. QED
  BY <1>4, <1>7 DEF BaseInv

LEMMA AnswersMoves ==
  ASSUME BaseInv, NEW r \in Reqs, NEW status, NEW answer, Answers(r, status, answer)
  PROVE  /\ Spared(r)
         /\ DOMAIN req'[r] = Fields
         /\ req'[r].pc = "answered" /\ req'[r].op = "list" /\ req'[r].cat = NoReq
         /\ req'[r].fresh = Static /\ req'[r].clean = FALSE /\ req'[r].answer = answer
         /\ req'[r].status = status /\ req'[r].alone = req[r].alone /\ req'[r].floor = req[r].floor
  BY DEF Answers, Idle, Spared, BaseInv, ShapeOK, RequestOK, Fields

LEMMA AdvanceMoves ==
  ASSUME BaseInv, NEW r \in Reqs, NEW pc, Advances(r, pc)
  PROVE  /\ Spared(r)
         /\ DOMAIN req'[r] = Fields
         /\ req'[r].pc = pc /\ req'[r].op = req[r].op /\ req'[r].cat = req[r].cat
         /\ req'[r].todo = req[r].todo /\ req'[r].fresh = req[r].fresh /\ req'[r].clean = req[r].clean /\ req'[r].answer = req[r].answer
         /\ req'[r].status = req[r].status /\ req'[r].alone = req[r].alone /\ req'[r].floor = req[r].floor
  BY DEF Advances, Spared, BaseInv, ShapeOK, RequestOK, Fields

Quiet == \A o \in Reqs : ~Scanning(o)

LEMMA BeginsMoves ==
  ASSUME BaseInv, NEW r \in Reqs, NEW pc, NEW todo, NEW cat, BeginsScan(r, pc, todo, cat)
  PROVE  /\ Spared(r)
         /\ \A o \in Reqs : o # r /\ Scanning(o) => ~req'[o].clean
         /\ DOMAIN req'[r] = Fields
         /\ req'[r].pc = pc /\ req'[r].op = req[r].op /\ req'[r].cat = cat /\ req'[r].todo = todo
         /\ req'[r].fresh.entries = ScheduleEntries /\ req'[r].fresh.seen = Unseen
         /\ req'[r].fresh.began = edits
         /\ req'[r].clean = Quiet /\ req'[r].answer = req[r].answer
         /\ req'[r].status = req[r].status /\ req'[r].alone = req[r].alone /\ req'[r].floor = req[r].floor
<1> USE DEF BeginsScan, BaseInv, ShapeOK, RequestOK, Fields
<1>1. DOMAIN req' = Reqs
  OBVIOUS
<1>2. ASSUME NEW o \in Reqs, o # r
      PROVE  req'[o] = [req[o] EXCEPT !.clean = @ /\ ~Scanning(o)]
  BY <1>2
<1>3. Spared(r)
  <2> SUFFICES ASSUME NEW o \in Reqs, o # r
               PROVE  /\ DOMAIN req'[o] = DOMAIN req[o]
                      /\ req'[o].pc = req[o].pc /\ req'[o].op = req[o].op /\ req'[o].cat = req[o].cat
                      /\ req'[o].todo = req[o].todo /\ req'[o].fresh = req[o].fresh
                      /\ req'[o].answer = req[o].answer /\ req'[o].status = req[o].status
                      /\ req'[o].alone = req[o].alone /\ req'[o].floor = req[o].floor
                      /\ req'[o].clean \in BOOLEAN /\ (req'[o].clean => req[o].clean)
    BY <1>1 DEF Spared
  <2> HIDE DEF BeginsScan
  <2>1. req'[o] = [req[o] EXCEPT !.clean = req[o].clean /\ ~Scanning(o)]
    BY <1>2
  <2>2. DOMAIN req[o] = Fields
    OBVIOUS
  <2>3. req'[o].clean = (req[o].clean /\ ~Scanning(o))
    BY <2>1, <2>2
  <2>4. QED
    BY <2>1, <2>2, <2>3
<1>4. \A o \in Reqs : o # r /\ Scanning(o) => ~req'[o].clean
  <2> HIDE DEF BeginsScan
  <2> SUFFICES ASSUME NEW o \in Reqs, o # r, Scanning(o)
               PROVE  ~req'[o].clean
    OBVIOUS
  <2>1. req'[o] = [req[o] EXCEPT !.clean = req[o].clean /\ ~Scanning(o)]
    BY <1>2
  <2>2. DOMAIN req[o] = Fields
    OBVIOUS
  <2>3. req'[o].clean = (req[o].clean /\ ~Scanning(o))
    BY <2>1, <2>2
  <2>4. QED
    BY <2>3
<1>5. req'[r] = [req[r] EXCEPT !.pc = pc, !.todo = todo, !.cat = cat, !.clean = Quiet,
                               !.fresh = [Static EXCEPT !.began = edits]]
  BY Zenon DEF Quiet
<1> HIDE DEF BeginsScan
<1>6. DOMAIN req[r] = Fields
  OBVIOUS
<1>7. req'[r].fresh = [Static EXCEPT !.began = edits]
  BY <1>5, <1>6
<1>8. /\ DOMAIN req'[r] = Fields
      /\ req'[r].pc = pc /\ req'[r].op = req[r].op /\ req'[r].cat = cat /\ req'[r].todo = todo
      /\ req'[r].clean = Quiet /\ req'[r].answer = req[r].answer
      /\ req'[r].status = req[r].status /\ req'[r].alone = req[r].alone /\ req'[r].floor = req[r].floor
  BY <1>5, <1>6
<1>9. QED
  BY <1>3, <1>4, <1>7, <1>8 DEF Static

(* One request moves on, in a well-formed way.                             *)
LEMMA BaseOne ==
  ASSUME BaseInv, NEW r \in Reqs, Spared(r), UNCHANGED <<disk, env, edits>>,
         scanned' \in 0..edits, RequestOK(r)', Past(req[r].cat)',
         req'[r].pc # "idle", req'[r].pc = "catalog" => req[r].pc = "idle",
         DOMAIN object' = Reqs,
         \A c \in Reqs : /\ DOMAIN object'[c] = {"configured", "index"}
                         /\ object'[c].configured \in BOOLEAN /\ Timed(object'[c].index)
                         /\ object[c].configured /\ Past(c) => object'[c].configured,
         req'[r].pc = "build" => req'[r].cat = r /\ catalog = NoReq /\ catalog' = NoReq,
         catalog' # catalog => catalog' \in {r, NoReq} /\ build_lock \in {r, NoReq},
         catalog' = r => req'[r].pc # "catalog",
         build_lock' \in Reqs \cup {NoReq},
         \A o \in Reqs : req'[o].pc = "build" <=> build_lock' = o,
         req'[r].pc \in {"list", "scan"} => object'[req'[r].cat].configured
  PROVE  BaseInv'
<1> USE ComponentCatalogAssumption
<1>1. /\ CatalogTypeOK /\ DOMAIN req = Reqs /\ Past(catalog) /\ edits \in Nat
      /\ \A o \in Reqs : /\ RequestOK(o) /\ Past(req[o].cat)
                         /\ req[o].pc = "build" => req[o].cat = o /\ catalog = NoReq
  BY DEF BaseInv, ShapeOK
<1>2. ASSUME NEW o \in Reqs
      PROVE  RequestOK(o)'
  <2>1. CASE o = r
    BY <2>1
  <2>2. CASE o # r
    BY <1>1, <2>2 DEF RequestOK, Timed, Spared
  <2>3. QED
    BY <2>1, <2>2
<1>3. \A o \in Reqs : req[o].pc \notin {"idle", "catalog"} => req'[o].pc \notin {"idle", "catalog"}
  BY DEF Spared
<1>4. \A o \in Reqs : Past(o) => Past(o)'
  BY <1>3 DEF Past
<1>5. ASSUME NEW o \in Reqs
      PROVE  Past(req[o].cat)'
  <2>1. CASE o = r
    BY <2>1
  <2>2. CASE o # r
    BY <1>1, <1>3, <2>2 DEF Past, RequestOK, Spared
  <2>3. QED
    BY <2>1, <2>2
<1>6. catalog' \in Reqs \cup {NoReq} /\ Past(catalog)'
  BY <1>1, <1>3 DEF Past, CatalogTypeOK
<1>7. ASSUME NEW o \in Reqs, req'[o].pc = "build"
      PROVE  req'[o].cat = o /\ catalog' = NoReq
  BY <1>1, <1>7 DEF CatalogTypeOK, Spared
<1>8. ASSUME NEW o \in Reqs, req'[o].pc \in {"list", "scan"}
      PROVE  object'[req'[o].cat].configured
  <2>1. CASE o = r
    BY <1>8, <2>1
  <2>2. CASE o # r
    <3>1. req[o].pc \in {"list", "scan"} /\ req'[o].cat = req[o].cat
      BY <1>8, <2>2 DEF Spared
    <3>2. req[o].cat \in Reqs /\ Past(req[o].cat) /\ object[req[o].cat].configured
      BY <1>1, <3>1 DEF CatalogTypeOK, RequestOK
    <3>3. QED
      BY <3>1, <3>2
  <2>3. QED
    BY <2>1, <2>2
<1>9. CatalogTypeOK'
  BY <1>1, <1>2, <1>6, <1>8 DEF CatalogTypeOK, RequestOK, RequestLabels
<1>10. QED
  BY <1>1, <1>2, <1>5, <1>6, <1>7, <1>9, DOMAIN req' = Reqs DEF BaseInv, ShapeOK, Timed, Spared

LEMMA StaticShape == Static.entries = ScheduleEntries /\ Static.seen = Unseen /\ Static.began = 0
  BY DEF Static

LEMMA BaseArrive ==
  ASSUME BaseInv, NEW r \in Reqs, NEW op \in {"list", "scan"}, Arrive(r, op)
  PROVE  /\ Spared(r) /\ BaseInv'
         /\ req'[r].pc = "catalog" /\ req'[r].floor = scanned /\ req'[r].status = req[r].status
         /\ req'[r].answer = req[r].answer
         /\ req'[r].alone => env = "roots" /\ \A o \in Reqs : ~InFlight(o)
<1>1. DOMAIN req[r] = Fields
  BY DEF BaseInv, ShapeOK, RequestOK, Fields
<1> DEFINE alone == env = "roots" /\ \A o \in Reqs : ~InFlight(o)
<1>2. req' = [req EXCEPT ![r] = [req[r] EXCEPT !.pc = "catalog", !.op = op, !.floor = scanned, !.alone = alone]]
  BY Zenon DEF Arrive
<1> HIDE DEF alone
<1>3. /\ Spared(r)
      /\ DOMAIN req'[r] = Fields
      /\ req'[r].pc = "catalog" /\ req'[r].op = op /\ req'[r].floor = scanned
      /\ req'[r].cat = req[r].cat /\ req'[r].fresh = req[r].fresh /\ req'[r].clean = req[r].clean
      /\ req'[r].answer = req[r].answer /\ req'[r].status = req[r].status
      /\ req'[r].alone = alone
  BY <1>1, <1>2 DEF Spared, BaseInv, ShapeOK, RequestOK
<1>4. alone \in BOOLEAN
  BY DEF alone
<1>5. RequestOK(r)'
  BY <1>3, <1>4 DEF Arrive, BaseInv, ShapeOK, RequestOK, Timed, RequestLabels, Fields
<1>6. BaseInv'
  <2>1. CatalogTypeOK /\ ShapeOK
    BY DEF BaseInv
  <2>2. Past(req[r].cat)' /\ catalog # r
    BY <1>3, <2>1, ComponentCatalogAssumption DEF Arrive, ShapeOK, RequestOK, CatalogTypeOK, Past, Spared
  <2>3. \A o \in Reqs : req'[o].pc = "build" <=> build_lock' = o
    BY <1>3, <2>1 DEF Arrive, CatalogTypeOK, Spared
  <2>4. QED
    BY <1>3, <1>5, <2>1, <2>2, <2>3, BaseOne DEF Arrive, ShapeOK, CatalogTypeOK, Timed
<1>7. QED
  BY <1>3, <1>6 DEF alone

LEMMA BaseTakeCatalog ==
  ASSUME BaseInv, NEW r \in Reqs, TakeCatalog(r)
  PROVE  /\ Spared(r) /\ BaseInv'
         /\ \/ /\ catalog # NoReq /\ UNCHANGED <<disk, env, build_lock, catalog, object, scanned, edits>>
               /\ req'[r].pc = "roots" /\ req'[r].cat = catalog
               /\ req'[r].answer = req[r].answer /\ req'[r].status = req[r].status
               /\ req'[r].alone = req[r].alone /\ req'[r].floor = req[r].floor
            \/ Answers(r, 500, Static) /\ UNCHANGED <<disk, env, build_lock, catalog, object, scanned, edits>>
            \/ /\ catalog = NoReq /\ UNCHANGED <<disk, env, catalog, scanned, edits>>
               /\ BeginsScan(r, "build", IF env = "roots" THEN Roots ELSE <<>>, r)
               /\ DOMAIN object' = Reqs /\ \A c \in Reqs : c # r => object'[c] = object[c]
               /\ object'[r].configured = (env = "roots")
<1> USE ComponentCatalogAssumption
<1>1. CatalogTypeOK /\ ShapeOK /\ RequestOK(r) /\ build_lock = NoReq /\ req[r].pc = "catalog"
  BY DEF BaseInv, ShapeOK, TakeCatalog, MayTake, Unlocked
<1>2. CASE catalog # NoReq
  <2>1. req' = [req EXCEPT ![r] = [req[r] EXCEPT !.pc = "roots", !.cat = catalog]]
    BY <1>1, <1>2 DEF TakeCatalog
  <2>2. /\ Spared(r)
        /\ DOMAIN req'[r] = Fields
        /\ req'[r].pc = "roots" /\ req'[r].cat = catalog /\ req'[r].op = req[r].op
        /\ req'[r].fresh = req[r].fresh /\ req'[r].clean = req[r].clean /\ req'[r].answer = req[r].answer
        /\ req'[r].status = req[r].status /\ req'[r].alone = req[r].alone /\ req'[r].floor = req[r].floor
    BY <2>1 DEF Spared, BaseInv, ShapeOK, RequestOK, Fields
  <2>3. RequestOK(r)'
    BY <1>1, <1>2, <2>2 DEF TakeCatalog, CatalogTypeOK, RequestOK, Timed, RequestLabels, Fields
  <2>4. Past(req[r].cat)'
    BY <1>1, <1>2, <2>2 DEF ShapeOK, Past, CatalogTypeOK, Spared
  <2>5. \A o \in Reqs : req'[o].pc = "build" <=> build_lock' = o
    BY <1>1, <1>2, <2>2 DEF TakeCatalog, CatalogTypeOK, Spared
  <2>6. UNCHANGED <<disk, env, build_lock, catalog, object, scanned, edits>>
    BY <1>2 DEF TakeCatalog
  <2>7. BaseInv'
    BY <1>1, <1>2, <2>2, <2>3, <2>4, <2>5, <2>6, BaseOne DEF ShapeOK, CatalogTypeOK, Timed
  <2>8. QED
    BY <1>2, <2>2, <2>6, <2>7
<1>3. CASE catalog = NoReq /\ env = "malformed"
  <2>1. Answers(r, 500, Static) /\ UNCHANGED <<build_lock, object>>
    BY <1>3 DEF TakeCatalog, Fails
  <2>2. /\ Spared(r)
        /\ DOMAIN req'[r] = Fields
        /\ req'[r].pc = "answered" /\ req'[r].op = "list" /\ req'[r].cat = NoReq
        /\ req'[r].fresh = Static /\ req'[r].clean = FALSE /\ req'[r].answer = Static
        /\ req'[r].status = 500 /\ req'[r].alone = req[r].alone /\ req'[r].floor = req[r].floor
    BY <2>1, AnswersMoves
  <2>3. RequestOK(r)'
    <3>1. req'[r].clean \in BOOLEAN /\ req'[r].alone \in BOOLEAN
      BY <1>1, <2>2 DEF RequestOK
    <3>2. Timed(req[r].fresh)' /\ Timed(req[r].answer)' /\ (req[r].floor \in 0..edits)'
      BY <1>1, <2>2, StaticShape DEF TakeCatalog, ShapeOK, RequestOK, Timed
    <3>3. QED
      BY <1>1, <2>2, <3>1, <3>2 DEF RequestOK, RequestLabels, Fields
  <2>4. Past(req[r].cat)'
    BY <2>2 DEF Past
  <2>5. \A o \in Reqs : req'[o].pc = "build" <=> build_lock' = o
    BY <1>1, <2>1, <2>2 DEF CatalogTypeOK, Spared
  <2>6. BaseInv'
    BY <1>1, <1>3, <2>1, <2>2, <2>3, <2>4, <2>5, BaseOne DEF TakeCatalog, ShapeOK, CatalogTypeOK, Timed
  <2>7. UNCHANGED <<disk, env, build_lock, catalog, object, scanned, edits>>
    BY <2>1 DEF TakeCatalog
  <2>8. QED
    BY <2>1, <2>2, <2>6, <2>7
<1>4. CASE catalog = NoReq /\ env # "malformed"
  <2> DEFINE todo == IF env = "roots" THEN Roots ELSE <<>>
  <2>1. /\ BeginsScan(r, "build", todo, r) /\ build_lock' = r
        /\ object' = [object EXCEPT ![r].configured = (env = "roots")]
    BY <1>4 DEF TakeCatalog
  <2> HIDE DEF todo
  <2>2. /\ Spared(r)
        /\ DOMAIN req'[r] = Fields
        /\ req'[r].pc = "build" /\ req'[r].op = req[r].op /\ req'[r].cat = r
        /\ req'[r].fresh.began = edits
        /\ req'[r].clean = Quiet /\ req'[r].answer = req[r].answer
        /\ req'[r].status = req[r].status /\ req'[r].alone = req[r].alone /\ req'[r].floor = req[r].floor
    BY <2>1, BeginsMoves
  <2>3. RequestOK(r)'
    <3>1. req'[r].clean \in BOOLEAN
      BY <2>2 DEF Quiet
    <3>2. req'[r].alone \in BOOLEAN
      BY <1>1, <2>2 DEF RequestOK
    <3>3. Timed(req[r].fresh)' /\ Timed(req[r].answer)' /\ (req[r].floor \in 0..edits)'
      BY <1>1, <2>2 DEF TakeCatalog, ShapeOK, RequestOK, Timed
    <3>4. QED
      BY <1>1, <2>2, <3>1, <3>2, <3>3 DEF RequestOK, RequestLabels, Fields
  <2>4. Past(req[r].cat)'
    BY <2>2 DEF Past
  <2>5. \A o \in Reqs : req'[o].pc = "build" <=> build_lock' = o
    BY <1>1, <2>1, <2>2 DEF CatalogTypeOK, Spared
  <2>6. /\ DOMAIN object' = Reqs
        /\ \A c \in Reqs : c # r => object'[c] = object[c]
        /\ DOMAIN object'[r] = {"configured", "index"}
        /\ object'[r].configured \in BOOLEAN /\ object'[r].index = object[r].index
        /\ object'[r].configured = (env = "roots")
    BY <1>1, <2>1 DEF ShapeOK
  <2>7. ~Past(r)
    BY <1>1 DEF Past
  <2>8. \A c \in Reqs : /\ DOMAIN object'[c] = {"configured", "index"}
                        /\ object'[c].configured \in BOOLEAN /\ Timed(object'[c].index)
                        /\ object[c].configured /\ Past(c) => object'[c].configured
    BY <1>1, <2>6, <2>7 DEF ShapeOK, Timed
  <2>9. BaseInv'
    BY <1>1, <1>4, <2>1, <2>2, <2>3, <2>4, <2>5, <2>6, <2>8, BaseOne DEF TakeCatalog, ShapeOK, CatalogTypeOK
  <2>10. UNCHANGED <<disk, env, catalog, scanned, edits>>
    BY DEF TakeCatalog
  <2>11. QED
    BY <1>4, <2>1, <2>2, <2>6, <2>9, <2>10 DEF todo
<1>5. QED
  BY <1>2, <1>3, <1>4

(* A request that fails or answers leaves the lock if it had it.           *)
LEMMA BaseAnswers ==
  ASSUME BaseInv, NEW r \in Reqs, NEW status \in {200, 500, 503}, NEW answer, Timed(answer),
         Answers(r, status, answer), req[r].pc \notin {"idle", "catalog"},
         UNCHANGED <<disk, env, object, scanned, edits>>,
         catalog' = catalog \/ (catalog' = NoReq /\ build_lock = NoReq),
         build_lock' = IF req[r].pc = "build" THEN NoReq ELSE build_lock
  PROVE  BaseInv'
<1> USE ComponentCatalogAssumption
<1>1. CatalogTypeOK /\ ShapeOK /\ RequestOK(r)
  BY DEF BaseInv, ShapeOK
<1>2. /\ Spared(r)
      /\ DOMAIN req'[r] = Fields
      /\ req'[r].pc = "answered" /\ req'[r].op = "list" /\ req'[r].cat = NoReq
      /\ req'[r].fresh = Static /\ req'[r].clean = FALSE /\ req'[r].answer = answer
      /\ req'[r].status = status /\ req'[r].alone = req[r].alone /\ req'[r].floor = req[r].floor
  BY AnswersMoves
<1>3. RequestOK(r)'
  <2>1. req'[r].clean \in BOOLEAN /\ req'[r].alone \in BOOLEAN
    BY ZenonT(40), <1>1, <1>2 DEF RequestOK
  <2>2. Timed(req[r].fresh)' /\ Timed(req[r].answer)' /\ (req[r].floor \in 0..edits)'
    BY <1>1, <1>2, StaticShape DEF ShapeOK, RequestOK, Timed
  <2>3. QED
    BY <1>1, <1>2, <2>1, <2>2 DEF RequestOK, RequestLabels, Fields
<1>4. Past(req[r].cat)'
  BY <1>2 DEF Past
<1>5. \A o \in Reqs : req'[o].pc = "build" <=> build_lock' = o
  BY <1>1, <1>2 DEF CatalogTypeOK, Spared
<1>6. DOMAIN object' = Reqs /\ scanned' \in 0..edits /\ build_lock' \in Reqs \cup {NoReq}
  BY <1>1 DEF ShapeOK, CatalogTypeOK
<1>7. \A c \in Reqs : /\ DOMAIN object'[c] = {"configured", "index"}
                      /\ object'[c].configured \in BOOLEAN /\ Timed(object'[c].index)
                      /\ object[c].configured /\ Past(c) => object'[c].configured
  BY <1>1 DEF ShapeOK
<1>8. catalog' # catalog => catalog' \in {r, NoReq} /\ build_lock \in {r, NoReq}
  OBVIOUS
<1>9. QED
  BY <1>1, <1>2, <1>3, <1>4, <1>5, <1>6, <1>7, <1>8, BaseOne

LEMMA BaseScanRoot ==
  ASSUME BaseInv, NEW r \in Reqs, ScanRoot(r)
  PROVE  /\ Spared(r) /\ BaseInv' /\ UNCHANGED <<disk, env, catalog, object, scanned, edits>>
         /\ \/ Answers(r, 500, Static)
            \/ /\ req'[r].pc = req[r].pc /\ req'[r].cat = req[r].cat /\ req'[r].todo = Tail(req[r].todo)
               /\ req'[r].fresh.began = req[r].fresh.began
               /\ req'[r].fresh.entries = Overlay(req[r].fresh.entries, RootEntries(Head(req[r].todo), disk.files))
               /\ req'[r].fresh.seen = Seen(req[r].fresh.seen, Head(req[r].todo), disk.files)
               /\ ~Clash(req[r].fresh.entries \cup RootEntries(Head(req[r].todo), disk.files))
               /\ req'[r].clean = req[r].clean /\ req'[r].answer = req[r].answer
               /\ req'[r].status = req[r].status /\ req'[r].alone = req[r].alone /\ req'[r].floor = req[r].floor
<1> USE ComponentCatalogAssumption
<1>1. CatalogTypeOK /\ ShapeOK /\ RequestOK(r) /\ Scanning(r)
  BY DEF BaseInv, ShapeOK, ScanRoot
<1>2. UNCHANGED <<disk, env, catalog, object, scanned, edits>>
  BY DEF ScanRoot
<1> DEFINE root == Head(req[r].todo)
           found == RootEntries(root, disk.files)
           fresh == req[r].fresh
           next == [entries |-> Overlay(fresh.entries, found), began |-> fresh.began,
                    seen |-> Seen(fresh.seen, root, disk.files)]
<1>3. CASE Answers(r, 500, Static) /\ build_lock' = IF req[r].pc = "build" THEN NoReq ELSE build_lock
  <2>1. Timed(Static)
    BY <1>1, StaticShape DEF ShapeOK, Timed
  <2>2. Spared(r)
    BY <1>3, AnswersMoves
  <2>3. BaseInv'
    BY <1>1, <1>2, <1>3, <2>1, BaseAnswers DEF Scanning
  <2>4. QED
    BY <1>2, <1>3, <2>2, <2>3
<1>4. CASE /\ req' = [req EXCEPT ![r] = [req[r] EXCEPT !.todo = Tail(req[r].todo), !.fresh = next]]
           /\ UNCHANGED build_lock /\ ~Clash(fresh.entries \cup found)
  <2> HIDE DEF next
  <2>1. /\ Spared(r)
        /\ DOMAIN req'[r] = Fields
        /\ req'[r].pc = req[r].pc /\ req'[r].cat = req[r].cat /\ req'[r].op = req[r].op
        /\ req'[r].todo = Tail(req[r].todo) /\ req'[r].fresh = next
        /\ req'[r].clean = req[r].clean /\ req'[r].answer = req[r].answer
        /\ req'[r].status = req[r].status /\ req'[r].alone = req[r].alone /\ req'[r].floor = req[r].floor
    BY <1>1, <1>4 DEF Spared, ShapeOK, RequestOK, Fields
  <2>2. next.began = fresh.began /\ next.entries = Overlay(fresh.entries, found)
        /\ next.seen = Seen(fresh.seen, root, disk.files)
    BY DEF next
  <2>3. RequestOK(r)'
    BY <1>1, <1>2, <2>1, <2>2 DEF RequestOK, Timed, Fields
  <2>4. Past(req[r].cat)'
    BY <1>1, <2>1 DEF ShapeOK, RequestOK, Past, Spared, Scanning
  <2>5. \A o \in Reqs : req'[o].pc = "build" <=> build_lock' = o
    BY <1>1, <1>4, <2>1 DEF CatalogTypeOK, Spared
  <2>6. req'[r].pc = "build" => req'[r].cat = r /\ catalog = NoReq
    BY <1>1, <2>1 DEF ShapeOK
  <2>7. BaseInv'
    BY <1>1, <1>2, <1>4, <2>1, <2>3, <2>4, <2>5, <2>6, BaseOne DEF ShapeOK, CatalogTypeOK, Timed, Scanning
  <2>8. QED
    BY <1>2, <1>4, <2>1, <2>2, <2>7
<1>5. QED
  BY <1>3, <1>4 DEF ScanRoot, Fails

LEMMA BasePublish ==
  ASSUME BaseInv, NEW r \in Reqs, Publish(r)
  PROVE  /\ Spared(r) /\ BaseInv' /\ UNCHANGED <<disk, env, edits>>
         /\ req'[r].pc \in {"roots", "list"} /\ req'[r].cat = req[r].cat
         /\ req'[r].status = req[r].status /\ req'[r].answer = req[r].answer /\ req'[r].alone = req[r].alone
         /\ req'[r].floor = IF req[r].pc = "scan" /\ req[r].clean THEN req[r].fresh.began ELSE req[r].floor
         /\ \A c \in Reqs : c # req[r].cat => object'[c] = object[c]
         /\ object'[req[r].cat].index = req[r].fresh
         /\ object'[req[r].cat].configured = object[req[r].cat].configured
         /\ catalog' = IF req[r].pc = "build" THEN r ELSE catalog
<1> USE ComponentCatalogAssumption
<1>1. CatalogTypeOK /\ ShapeOK /\ RequestOK(r) /\ Scanning(r) /\ req[r].cat \in Reqs
  BY DEF BaseInv, ShapeOK, RequestOK, Publish, Scanning
<1> DEFINE pc == IF req[r].pc = "build" THEN "roots" ELSE "list"
           floor == IF req[r].pc = "scan" /\ req[r].clean THEN req[r].fresh.began ELSE req[r].floor
<1>2. req' = [req EXCEPT ![r] = [req[r] EXCEPT !.pc = pc, !.fresh = Static, !.floor = floor]]
  BY DEF Publish
<1>3. pc \in {"roots", "list"} /\ floor \in 0..edits
  BY <1>1 DEF RequestOK, Timed, ShapeOK
<1>4. /\ UNCHANGED <<disk, env, edits>>
      /\ catalog' = IF req[r].pc = "build" THEN r ELSE catalog
      /\ build_lock' = IF req[r].pc = "build" THEN NoReq ELSE build_lock
      /\ scanned' \in 0..edits
  BY <1>1 DEF Publish, Scanning, ShapeOK, RequestOK, Timed
<1> HIDE DEF floor
<1>5. /\ Spared(r)
      /\ DOMAIN req'[r] = Fields
      /\ req'[r].pc = pc /\ req'[r].op = req[r].op /\ req'[r].cat = req[r].cat
      /\ req'[r].fresh = Static /\ req'[r].clean = req[r].clean /\ req'[r].answer = req[r].answer
      /\ req'[r].status = req[r].status /\ req'[r].alone = req[r].alone /\ req'[r].floor = floor
  BY <1>1, <1>2 DEF Spared, ShapeOK, RequestOK, Fields
<1>6. /\ DOMAIN object' = Reqs
      /\ \A c \in Reqs : c # req[r].cat => object'[c] = object[c]
      /\ DOMAIN object'[req[r].cat] = {"configured", "index"}
      /\ object'[req[r].cat].index = req[r].fresh
      /\ object'[req[r].cat].configured = object[req[r].cat].configured
  BY <1>1 DEF Publish, Published, Replace, ShapeOK
<1>7. \A c \in Reqs : /\ DOMAIN object'[c] = {"configured", "index"}
                      /\ object'[c].configured \in BOOLEAN /\ Timed(object'[c].index)
                      /\ object[c].configured /\ Past(c) => object'[c].configured
  BY <1>1, <1>6 DEF ShapeOK, RequestOK, Timed
<1>8. RequestOK(r)'
  <2>1. Timed(req[r].fresh)' /\ Timed(req[r].answer)' /\ (req[r].floor \in 0..edits)'
    BY <1>1, <1>3, <1>4, <1>5, StaticShape DEF ShapeOK, RequestOK, Timed
  <2>2. req'[r].clean \in BOOLEAN /\ req'[r].alone \in BOOLEAN
    BY <1>1, <1>5 DEF RequestOK
  <2>3. QED
    BY <1>1, <1>3, <1>5, <2>1, <2>2 DEF RequestOK, Scanning, RequestLabels, Fields
<1>9. Past(req[r].cat)'
  BY <1>1, <1>3, <1>5 DEF ShapeOK, RequestOK, Past, Spared, Scanning
<1>10. \A o \in Reqs : req'[o].pc = "build" <=> build_lock' = o
  BY <1>1, <1>3, <1>4, <1>5 DEF CatalogTypeOK, Spared, Scanning
<1>11. build_lock' \in Reqs \cup {NoReq} /\ (catalog' # catalog => catalog' \in {r, NoReq} /\ build_lock \in {r, NoReq})
  BY <1>1, <1>4 DEF CatalogTypeOK
<1>12. req'[r].pc \in {"list", "scan"} => object'[req'[r].cat].configured
  BY <1>1, <1>3, <1>5, <1>6 DEF CatalogTypeOK, Scanning
<1>13. BaseInv'
  BY <1>1, <1>3, <1>4, <1>5, <1>6, <1>7, <1>8, <1>9, <1>10, <1>11, <1>12, BaseOne
<1>14. QED
  BY <1>3, <1>4, <1>5, <1>6, <1>13 DEF floor

LEMMA BaseCheckRoots ==
  ASSUME BaseInv, NEW r \in Reqs, CheckRoots(r)
  PROVE  /\ Spared(r) /\ BaseInv' /\ UNCHANGED <<disk, env, build_lock, catalog, object, scanned, edits>>
         /\ req[r].cat \in Reqs
         /\ \/ Advances(r, "reset") /\ ~object[req[r].cat].configured
            \/ Advances(r, "list") /\ object[req[r].cat].configured
            \/ BeginsScan(r, "scan", Roots, req[r].cat) /\ object[req[r].cat].configured
<1> USE ComponentCatalogAssumption
<1>1. /\ CatalogTypeOK /\ ShapeOK /\ RequestOK(r) /\ req[r].pc = "roots" /\ req[r].cat \in Reqs
      /\ UNCHANGED <<disk, env, build_lock, catalog, object, scanned, edits>>
  BY DEF BaseInv, ShapeOK, RequestOK, CheckRoots
<1>2. \/ Advances(r, "reset") /\ ~object[req[r].cat].configured
      \/ Advances(r, "list") /\ object[req[r].cat].configured
      \/ BeginsScan(r, "scan", Roots, req[r].cat) /\ object[req[r].cat].configured
  BY DEF CheckRoots, Unconfigured, Drop
<1> DEFINE Moved ==
      /\ Spared(r)
      /\ DOMAIN req'[r] = Fields
      /\ req'[r].pc \in {"reset", "list", "scan"} /\ req'[r].op = req[r].op /\ req'[r].cat = req[r].cat
      /\ req'[r].answer = req[r].answer /\ req'[r].status = req[r].status
      /\ req'[r].alone = req[r].alone /\ req'[r].floor = req[r].floor
      /\ req'[r].clean \in BOOLEAN /\ req'[r].fresh.began \in 0..edits
      /\ req'[r].pc # "reset" => object[req[r].cat].configured
<1>3. Moved
  <2>1. ASSUME NEW pc \in {"reset", "list"}, Advances(r, pc), pc = "list" => object[req[r].cat].configured
        PROVE  Moved
    BY <1>1, <2>1, AdvanceMoves DEF RequestOK, Timed
  <2>2. CASE BeginsScan(r, "scan", Roots, req[r].cat) /\ object[req[r].cat].configured
    <3>1. BeginsScan(r, "scan", Roots, req[r].cat)
      BY <2>2
    <3>2. edits \in Nat /\ Quiet \in BOOLEAN
      BY <1>1 DEF ShapeOK, Quiet
    <3>3. QED
      BY <2>2, <3>1, <3>2, BeginsMoves
  <2>3. QED
    BY <1>2, <2>1, <2>2
<1>4. RequestOK(r)'
  BY <1>1, <1>3 DEF RequestOK, Timed, RequestLabels, Fields
<1>5. Past(req[r].cat)'
  BY <1>1, <1>3 DEF ShapeOK, RequestOK, Past, Spared
<1>6. \A o \in Reqs : req'[o].pc = "build" <=> build_lock' = o
  BY <1>1, <1>3 DEF CatalogTypeOK, Spared
<1>7. DOMAIN object' = Reqs /\ scanned' \in 0..edits /\ build_lock' \in Reqs \cup {NoReq}
  BY <1>1 DEF ShapeOK, CatalogTypeOK
<1>8. \A c \in Reqs : /\ DOMAIN object'[c] = {"configured", "index"}
                      /\ object'[c].configured \in BOOLEAN /\ Timed(object'[c].index)
                      /\ object[c].configured /\ Past(c) => object'[c].configured
  BY <1>1 DEF ShapeOK
<1>9. req'[r].pc \in {"list", "scan"} => object'[req'[r].cat].configured
  BY <1>1, <1>3
<1>10. BaseInv'
  BY <1>1, <1>3, <1>4, <1>5, <1>6, <1>7, <1>8, <1>9, BaseOne
<1>11. QED
  BY <1>1, <1>2, <1>3, <1>10

LEMMA BaseReset ==
  ASSUME BaseInv, NEW r \in Reqs, Reset(r)
  PROVE  Spared(r) /\ BaseInv' /\ Answers(r, 503, Static)
<1>1. CatalogTypeOK /\ ShapeOK
  BY DEF BaseInv
<1>2. Answers(r, 503, Static)
  BY DEF Reset, Fails
<1>3. Spared(r)
  BY <1>2, AnswersMoves
<1>4. Timed(Static)
  BY <1>1, StaticShape DEF ShapeOK, Timed
<1>5. BaseInv'
  BY <1>2, <1>4, BaseAnswers DEF Reset
<1>6. QED
  BY <1>2, <1>3, <1>5

LEMMA BaseAnswer ==
  ASSUME BaseInv, NEW r \in Reqs, Answer(r)
  PROVE  /\ Spared(r) /\ BaseInv' /\ req[r].cat \in Reqs
         /\ Answers(r, 200, object[req[r].cat].index)
         /\ UNCHANGED <<disk, env, build_lock, catalog, object, scanned, edits>>
<1>1. CatalogTypeOK /\ ShapeOK /\ RequestOK(r)
  BY DEF BaseInv, ShapeOK
<1>2. Answers(r, 200, object[req[r].cat].index)
  BY DEF Answer
<1>3. Spared(r)
  BY <1>2, AnswersMoves
<1>4. req[r].cat \in Reqs /\ Timed(object[req[r].cat].index)
  BY <1>1 DEF ShapeOK, RequestOK, Answer
<1>5. BaseInv'
  BY <1>2, <1>4, BaseAnswers DEF Answer
<1>6. QED
  BY <1>2, <1>3, <1>4, <1>5 DEF Answer

(* What the world's changes leave alone.                                   *)
LEMMA BaseEdit ==
  ASSUME BaseInv, Edit
  PROVE  /\ BaseInv' /\ UNCHANGED <<build_lock, catalog, object, scanned>> /\ edits' = edits + 1
         /\ DOMAIN req' = Reqs
         /\ \A o \in Reqs :
              /\ DOMAIN req'[o] = DOMAIN req[o]
              /\ req'[o].pc = req[o].pc /\ req'[o].op = req[o].op /\ req'[o].cat = req[o].cat
              /\ req'[o].todo = req[o].todo /\ req'[o].fresh = req[o].fresh /\ req'[o].clean = req[o].clean
              /\ req'[o].answer = req[o].answer /\ req'[o].status = req[o].status /\ req'[o].floor = req[o].floor
              /\ req'[o].alone \in BOOLEAN /\ (req'[o].alone => req[o].alone /\ (env' # env => env' = "roots"))
<1> USE ComponentCatalogAssumption
<1> DEFINE Kept(o) ==
      /\ DOMAIN req'[o] = DOMAIN req[o]
      /\ req'[o].pc = req[o].pc /\ req'[o].op = req[o].op /\ req'[o].cat = req[o].cat
      /\ req'[o].todo = req[o].todo /\ req'[o].fresh = req[o].fresh /\ req'[o].clean = req[o].clean
      /\ req'[o].answer = req[o].answer /\ req'[o].status = req[o].status /\ req'[o].floor = req[o].floor
      /\ req'[o].alone \in BOOLEAN /\ (req'[o].alone => req[o].alone /\ (env' # env => env' = "roots"))
<1>1. CatalogTypeOK /\ ShapeOK /\ UNCHANGED <<build_lock, catalog, object, scanned>> /\ edits' = edits + 1
  BY DEF BaseInv, Edit
<1>2. DOMAIN req' = Reqs /\ disk' \in [files : SUBSET Files, mounted : SUBSET Range(Roots)]
      /\ env' \in {"unset", "malformed", "roots"}
  <2>1. ASSUME NEW f \in ChangingFiles, EditDisk(f)
        PROVE  /\ DOMAIN req' = Reqs /\ disk' \in [files : SUBSET Files, mounted : SUBSET Range(Roots)]
               /\ env' = env
    BY <1>1, <2>1 DEF EditDisk, CatalogTypeOK, ShapeOK
  <2>2. ASSUME NEW root \in ChangingRoots, MoveRoot(root)
        PROVE  /\ DOMAIN req' = Reqs /\ disk' \in [files : SUBSET Files, mounted : SUBSET Range(Roots)]
               /\ env' = env
    BY <1>1, <2>2 DEF MoveRoot, CatalogTypeOK, ShapeOK
  <2>3. ASSUME NEW to \in {"unset", "malformed", "roots"}, SetEnv(to)
        PROVE  DOMAIN req' = Reqs /\ disk' = disk /\ env' = to
    BY <2>3 DEF SetEnv
  <2>4. QED
    BY <1>1, <2>1, <2>2, <2>3 DEF Edit, CatalogTypeOK
<1>3. ASSUME NEW o \in Reqs
      PROVE  Kept(o)
  <2>1. CASE UNCHANGED <<env, req>>
    BY <1>1, <2>1 DEF ShapeOK, RequestOK
  <2>2. ASSUME NEW to, SetEnv(to)
        PROVE  Kept(o)
    <3>1. req'[o] = [req[o] EXCEPT !.alone = req[o].alone /\ to = "roots"] /\ env' = to
      BY <2>2 DEF SetEnv
    <3>2. DOMAIN req[o] = Fields
      BY <1>1 DEF ShapeOK, RequestOK, Fields
    <3>3. req'[o].alone = (req[o].alone /\ to = "roots")
      BY <3>1, <3>2 DEF Fields
    <3>4. QED
      BY <3>1, <3>2, <3>3 DEF Fields
  <2>3. QED
    BY <2>1, <2>2 DEF Edit, EditDisk, MoveRoot
<1> HIDE DEF Kept
<1>4. ASSUME NEW o \in Reqs
      PROVE  RequestOK(o)' /\ Past(req[o].cat)'
  BY <1>1, <1>3 DEF Kept, ShapeOK, RequestOK, Past, Timed
<1>5. CatalogTypeOK'
  BY <1>1, <1>2, <1>3 DEF Kept, CatalogTypeOK
<1>6. Past(catalog)' /\ edits' \in Nat /\ scanned' \in 0..edits'
  BY <1>1, <1>3 DEF Kept, ShapeOK, CatalogTypeOK, Past
<1>7. BaseInv'
  BY <1>1, <1>2, <1>3, <1>4, <1>5, <1>6 DEF Kept, BaseInv, ShapeOK, Timed
<1>8. QED
  BY <1>1, <1>2, <1>3, <1>7 DEF Kept

LEMMA BaseNext == BaseInv /\ [CatalogNext]_catalogVars => BaseInv'
<1> SUFFICES ASSUME BaseInv, [CatalogNext]_catalogVars
             PROVE  BaseInv'
  OBVIOUS
<1>1. CASE UNCHANGED catalogVars
  BY <1>1 DEF catalogVars, BaseInv, CatalogTypeOK, ShapeOK, RequestOK, Past, Timed
<1>2. CASE Edit
  BY <1>2, BaseEdit
<1>3. ASSUME NEW r \in Reqs,
             \/ \E op \in {"list", "scan"} : Arrive(r, op)
             \/ TakeCatalog(r) \/ ScanRoot(r) \/ Publish(r) \/ CheckRoots(r) \/ Reset(r) \/ Answer(r)
      PROVE  BaseInv'
  BY <1>3, BaseArrive, BaseTakeCatalog, BaseScanRoot, BasePublish, BaseCheckRoots, BaseReset, BaseAnswer
<1>4. QED
  BY <1>1, <1>2, <1>3 DEF CatalogNext

(* The lock is held by whoever builds, a scan or a listing has a catalog   *)
(* with roots, and the rest is well formed (components.py:45-51).          *)
THEOREM CatalogTyped == CatalogSpec => []CatalogTypeOK
<1>1. BaseInv => CatalogTypeOK
  BY DEF BaseInv
<1>2. QED
  BY <1>1, BaseInit, BaseNext, PTL DEF CatalogSpec

-----------------------------------------------------------------------------
(* No answer is older than a scan that counts for it.                      *)

FreshInv == BaseInv /\ FreshOK

LEMMA FreshAnswersStep ==
  ASSUME FreshInv, NEW r \in Reqs, NEW status \in {200, 500, 503}, NEW answer, Answers(r, status, answer),
         BaseInv', status = 200 => req[r].floor <= answer.began,
         UNCHANGED <<object, scanned>>, catalog' \in {catalog, NoReq}
  PROVE  FreshOK'
<1>1. /\ Spared(r)
      /\ req'[r].pc = "answered" /\ req'[r].status = status
      /\ req'[r].answer = answer /\ req'[r].floor = req[r].floor
  <2>1. BaseInv
    BY DEF FreshInv
  <2>2. Spared(r) /\ req'[r].pc = "answered" /\ req'[r].floor = req[r].floor
    BY ZenonT(40), <2>1, AnswersMoves
  <2>3. req'[r].status = status /\ req'[r].answer = answer
    BY <2>1 DEF Answers, Idle, BaseInv, ShapeOK
  <2>4. QED
    BY <2>2, <2>3
<1>2. ASSUME NEW o \in Reqs
      PROVE  FreshOf(o)'
  <2>1. CASE o = r
    BY <1>1, <2>1 DEF FreshOf, Scanning
  <2>2. CASE o # r
    <3>1. /\ FreshOf(o) /\ \A x \in Reqs : req'[x].floor = req[x].floor /\ (Scanning(x)' => Scanning(x))
          /\ req'[o].pc = req[o].pc /\ req'[o].cat = req[o].cat /\ req'[o].fresh = req[o].fresh
          /\ req'[o].answer = req[o].answer /\ req'[o].status = req[o].status
          /\ (req'[o].clean => req[o].clean) /\ Scanning(o)' = Scanning(o)
      BY <1>1, <2>2 DEF FreshInv, FreshOK, Spared, Scanning
    <3>2. QED
      BY <3>1 DEF FreshOf
  <2>3. QED
    BY <2>1, <2>2
<1>3. QED
  BY <1>2 DEF FreshInv, FreshOK

LEMMA FreshBegins ==
  ASSUME FreshInv, NEW r \in Reqs, NEW pc \in {"build", "scan"}, NEW todo, NEW cat \in Reqs,
         BeginsScan(r, pc, todo, cat), ~Scanning(r), req[r].status = 0,
         UNCHANGED <<edits, scanned, catalog>>,
         \A c \in Reqs : c # r => object'[c] = object[c],
         pc = "scan" => object' = object /\ cat = req[r].cat /\ req[r].pc = "roots",
         pc = "build" => ~Past(r)
  PROVE  FreshOK'
<1>1. /\ Spared(r)
      /\ \A o \in Reqs : o # r /\ Scanning(o) => ~req'[o].clean
      /\ req'[r].pc = pc /\ req'[r].cat = cat /\ req'[r].fresh.began = edits
      /\ req'[r].clean = Quiet /\ req'[r].answer = req[r].answer
      /\ req'[r].status = req[r].status /\ req'[r].floor = req[r].floor
  BY BeginsMoves DEF FreshInv
<1>2. /\ edits \in Nat /\ scanned \in 0..edits
      /\ \A o \in Reqs : req[o].floor \in 0..edits /\ Past(req[o].cat) /\ FreshOf(o) /\ RequestOK(o)
      /\ Past(catalog) /\ catalog \in Reqs \cup {NoReq}
  BY DEF FreshInv, FreshOK, BaseInv, ShapeOK, RequestOK, CatalogTypeOK
<1>3. \A o \in Reqs : req'[o].floor = req[o].floor
  BY <1>1 DEF Spared
<1>4. FreshOf(r)'
  <2>1. req'[r].clean => \A o \in Reqs : Scanning(o)' => o = r
    <3>1. req'[r].clean => Quiet
      BY <1>1
    <3>2. QED
      BY <1>1, <3>1 DEF Quiet, Scanning, Spared
  <2>2. Scanning(r)' => /\ scanned' <= req'[r].fresh.began
                        /\ \A o \in Reqs : req'[o].floor <= req'[r].fresh.began
    BY <1>1, <1>2, <1>3
  <2>3. req'[r].pc \in {"roots", "scan", "list"} => req'[r].floor <= object'[req'[r].cat].index.began
    BY <1>1, <1>2 DEF FreshOf
  <2>4. req'[r].pc # "catalog" /\ req'[r].status # 200
    BY <1>1
  <2>5. QED
    BY <2>1, <2>2, <2>3, <2>4 DEF FreshOf
<1>5. ASSUME NEW o \in Reqs, o # r
      PROVE  FreshOf(o)'
  <2>1. /\ req'[o].pc = req[o].pc /\ req'[o].cat = req[o].cat /\ req'[o].fresh = req[o].fresh
        /\ req'[o].answer = req[o].answer /\ req'[o].status = req[o].status
    BY <1>1, <1>5 DEF Spared
  <2>2. Scanning(o)' => Scanning(o) /\ ~req'[o].clean
    BY <1>1, <1>5, <2>1 DEF Scanning
  <2>3. req[o].pc \in {"roots", "scan", "list"} => object'[req[o].cat] = object[req[o].cat]
    BY <1>2 DEF RequestOK
  <2>4. QED
    BY <1>2, <1>3, <2>1, <2>2, <2>3 DEF FreshOf
<1>6. catalog # NoReq => scanned' <= object'[catalog].index.began
  BY <1>2 DEF FreshInv, FreshOK, Past
<1>7. QED
  BY <1>4, <1>5, <1>6 DEF FreshOK

LEMMA FreshPublish ==
  ASSUME FreshInv, NEW r \in Reqs, Publish(r)
  PROVE  FreshOK'
<1>1. /\ Spared(r) /\ BaseInv' /\ UNCHANGED edits
      /\ req'[r].pc \in {"roots", "list"} /\ req'[r].cat = req[r].cat
      /\ req'[r].status = req[r].status
      /\ req'[r].floor = IF req[r].pc = "scan" /\ req[r].clean THEN req[r].fresh.began ELSE req[r].floor
      /\ \A c \in Reqs : c # req[r].cat => object'[c] = object[c]
      /\ object'[req[r].cat].index = req[r].fresh
      /\ catalog' = IF req[r].pc = "build" THEN r ELSE catalog
  <2>1. BaseInv
    BY DEF FreshInv
  <2>2. QED
    BY <2>1, BasePublish
<1>2. /\ \A o \in Reqs : RequestOK(o) /\ FreshOf(o) /\ req[o].floor \in Nat /\ req[o].fresh.began \in Nat
      /\ \A c \in Reqs : object[c].index.began \in Nat
      /\ scanned \in Nat /\ Scanning(r) /\ catalog \in Reqs \cup {NoReq} /\ req[r].cat \in Reqs
      /\ req[r].pc = "build" => req[r].cat = r
      /\ catalog # NoReq => scanned <= object[catalog].index.began
  BY DEF FreshInv, FreshOK, BaseInv, ShapeOK, RequestOK, Timed, CatalogTypeOK, Publish, Scanning
<1> DEFINE began == req[r].fresh.began
<1>3. /\ scanned <= began /\ \A o \in Reqs : req[o].floor <= began
      /\ req[r].clean => \A o \in Reqs : Scanning(o) => o = r
  BY <1>2 DEF FreshOf
<1>4. scanned' = IF InUse(r) /\ req[r].clean THEN began ELSE scanned
  BY <1>2, <1>3 DEF Publish
<1>5. scanned' <= began /\ \A o \in Reqs : req'[o].floor <= began
  BY <1>1, <1>2, <1>3, <1>4 DEF Spared
<1>6. scanned <= scanned' /\ scanned' \in Nat
  BY <1>2, <1>3, <1>4
<1>7. ~Scanning(r)'
  BY <1>1 DEF Scanning
<1>8. FreshOf(r)'
  <2>1. req'[r].floor <= object'[req'[r].cat].index.began
    BY <1>1, <1>5
  <2>2. req'[r].status # 200
    BY <1>1, <1>2 DEF RequestOK, Scanning
  <2>3. QED
    BY <1>1, <1>7, <2>1, <2>2 DEF FreshOf
<1>9. ASSUME NEW o \in Reqs, o # r
      PROVE  FreshOf(o)'
  <2>1. /\ req'[o].pc = req[o].pc /\ req'[o].cat = req[o].cat /\ req'[o].fresh = req[o].fresh
        /\ req'[o].answer = req[o].answer /\ req'[o].status = req[o].status
        /\ (req'[o].clean => req[o].clean) /\ req'[o].floor = req[o].floor
    BY <1>1, <1>9 DEF Spared
  <2>2. Scanning(o)' => Scanning(o) /\ ~req[r].clean
    BY <1>2, <1>3, <1>9, <2>1 DEF Scanning
  <2>3. \A x \in Reqs : Scanning(x)' => Scanning(x)
    BY <1>1, <1>7 DEF Spared, Scanning
  <2>4. Scanning(o)' => /\ scanned' <= req'[o].fresh.began
                        /\ \A x \in Reqs : req'[x].floor <= req'[o].fresh.began
                        /\ req'[o].clean => \A y \in Reqs : Scanning(y)' => y = o
    <3>1. HAVE Scanning(o)'
    <3>2. scanned' = scanned /\ \A x \in Reqs : req'[x].floor = req[x].floor
      BY <1>1, <1>4, <2>2, <3>1 DEF Spared
    <3>3. QED
      BY <1>2, <2>1, <2>2, <2>3, <3>1, <3>2 DEF FreshOf
  <2>5. req'[o].pc = "catalog" => req'[o].floor <= scanned'
    <3>1. req[o].pc = "catalog" => req[o].floor <= scanned
      BY <1>2 DEF FreshOf
    <3>2. req[o].floor \in Nat
      BY <1>2
    <3>3. QED
      BY <1>2, <1>6, <2>1, <3>1, <3>2
  <2>6. req'[o].pc \in {"roots", "scan", "list"} => req'[o].floor <= object'[req'[o].cat].index.began
    <3>1. CASE req[o].cat = req[r].cat
      BY <1>1, <1>5, <2>1, <3>1
    <3>2. CASE req[o].cat # req[r].cat
      BY <1>1, <1>2, <2>1, <3>2 DEF FreshOf, RequestOK
    <3>3. QED
      BY <3>1, <3>2
  <2>7. req'[o].status = 200 => req'[o].floor <= req'[o].answer.began
    BY ZenonT(40), <1>2, <2>1 DEF FreshOf
  <2>8. QED
    BY <2>4, <2>5, <2>6, <2>7 DEF FreshOf
<1>10. catalog' # NoReq => scanned' <= object'[catalog'].index.began
  <2>1. CASE req[r].pc = "build"
    BY <1>1, <1>2, <1>5, <2>1
  <2>2. CASE req[r].pc # "build" /\ catalog = req[r].cat
    BY <1>1, <1>5, <2>2
  <2>3. CASE req[r].pc # "build" /\ catalog # req[r].cat
    BY <1>1, <1>2, <1>4, <2>3 DEF InUse
  <2>4. QED
    BY <2>1, <2>2, <2>3
<1>11. QED
  BY <1>8, <1>9, <1>10 DEF FreshOK

LEMMA FreshNext == FreshInv /\ [CatalogNext]_catalogVars => FreshInv'
<1> SUFFICES ASSUME FreshInv, [CatalogNext]_catalogVars
             PROVE  FreshOK'
  BY BaseNext DEF FreshInv
<1> USE ComponentCatalogAssumption
<1>1. /\ BaseInv /\ CatalogTypeOK /\ ShapeOK /\ BaseInv'
      /\ \A o \in Reqs : RequestOK(o) /\ FreshOf(o)
      /\ catalog # NoReq => scanned <= object[catalog].index.began
  BY BaseNext DEF FreshInv, FreshOK, BaseInv, ShapeOK
<1>2. ASSUME NEW r \in Reqs, NEW op \in {"list", "scan"}, Arrive(r, op)
      PROVE  FreshOK'
  <2>1. /\ Spared(r) /\ req'[r].pc = "catalog" /\ req'[r].floor = scanned /\ req'[r].status = req[r].status
        /\ req[r].pc = "idle" /\ UNCHANGED <<catalog, object, scanned>>
    BY <1>1, <1>2, BaseArrive DEF Arrive
  <2>2. scanned \in Nat /\ \A o \in Reqs : req[o].floor \in Nat
    BY <1>1 DEF ShapeOK, RequestOK
  <2>3. \A o \in Reqs : Scanning(o)' = Scanning(o)
    BY <2>1 DEF Spared, Scanning
  <2>4. ASSUME NEW o \in Reqs, Scanning(o)
        PROVE  /\ o # r /\ scanned <= req'[o].fresh.began
               /\ \A x \in Reqs : req'[x].floor <= req'[o].fresh.began
               /\ req'[o].clean => \A x \in Reqs : Scanning(x) => x = o
    <3>1. o # r
      BY <2>1, <2>4 DEF Scanning
    <3>2. req'[o].fresh = req[o].fresh /\ (req'[o].clean => req[o].clean)
      BY <2>1, <3>1 DEF Spared
    <3>3. /\ scanned <= req[o].fresh.began /\ \A x \in Reqs : req[x].floor <= req[o].fresh.began
          /\ req[o].clean => \A x \in Reqs : Scanning(x) => x = o
      BY <1>1, <2>4 DEF FreshOf
    <3>4. QED
      BY <2>1, <3>1, <3>2, <3>3 DEF Spared
  <2>5. FreshOf(r)'
    BY <1>1, <2>1, <2>2, <2>3, <2>4 DEF FreshOf, RequestOK
  <2>6. ASSUME NEW o \in Reqs, o # r
        PROVE  FreshOf(o)'
    BY <1>1, <2>1, <2>3, <2>4, <2>6 DEF FreshOf, Spared
  <2>7. QED
    BY <1>1, <2>1, <2>5, <2>6 DEF FreshOK
<1>3. ASSUME NEW r \in Reqs, TakeCatalog(r)
      PROVE  FreshOK'
  <2>1. req[r].pc = "catalog" /\ req[r].status = 0 /\ ~Scanning(r) /\ ~Past(r)
    BY <1>1, <1>3 DEF TakeCatalog, RequestOK, Scanning, Past
  <2>2. CASE /\ catalog # NoReq /\ UNCHANGED <<disk, env, build_lock, catalog, object, scanned, edits>>
             /\ Spared(r) /\ req'[r].pc = "roots" /\ req'[r].cat = catalog
             /\ req'[r].status = req[r].status /\ req'[r].floor = req[r].floor
    <3>1. \A o \in Reqs : req'[o].floor = req[o].floor /\ Scanning(o)' = Scanning(o)
      BY <2>1, <2>2 DEF Spared, Scanning
    <3>2. /\ scanned \in Nat /\ req[r].floor \in Nat /\ object[catalog].index.began \in Nat
          /\ req[r].floor <= scanned /\ scanned <= object[catalog].index.began
      BY <1>1, <2>1, <2>2 DEF ShapeOK, RequestOK, CatalogTypeOK, FreshOf, Timed
    <3>3. FreshOf(r)'
      BY <2>1, <2>2, <3>1, <3>2 DEF FreshOf
    <3>4. ASSUME NEW o \in Reqs, o # r
          PROVE  FreshOf(o)'
      BY <1>1, <2>2, <3>1, <3>4 DEF FreshOf, Spared
    <3>5. QED
      BY <1>1, <2>2, <3>3, <3>4 DEF FreshOK
  <2>3. CASE Answers(r, 500, Static) /\ UNCHANGED <<disk, env, build_lock, catalog, object, scanned, edits>>
    BY <1>1, <2>3, FreshAnswersStep
  <2>4. CASE /\ BeginsScan(r, "build", IF env = "roots" THEN Roots ELSE <<>>, r)
             /\ UNCHANGED <<disk, env, catalog, scanned, edits>>
             /\ \A c \in Reqs : c # r => object'[c] = object[c]
    BY <2>1, <2>4, FreshBegins
  <2>5. QED
    BY <1>1, <1>3, <2>2, <2>3, <2>4, BaseTakeCatalog
<1>4. ASSUME NEW r \in Reqs, ScanRoot(r)
      PROVE  FreshOK'
  <2>1. /\ Spared(r) /\ UNCHANGED <<disk, env, catalog, object, scanned, edits>>
        /\ \/ Answers(r, 500, Static)
           \/ /\ req'[r].pc = req[r].pc /\ req'[r].cat = req[r].cat
              /\ req'[r].fresh.began = req[r].fresh.began /\ req'[r].clean = req[r].clean
              /\ req'[r].answer = req[r].answer /\ req'[r].status = req[r].status
              /\ req'[r].floor = req[r].floor
    BY <1>1, <1>4, BaseScanRoot
  <2>2. CASE Answers(r, 500, Static)
    BY <1>1, <2>1, <2>2, FreshAnswersStep
  <2>3. CASE ~Answers(r, 500, Static)
    <3>1. \A o \in Reqs : /\ req'[o].floor = req[o].floor /\ Scanning(o)' = Scanning(o)
                          /\ req'[o].pc = req[o].pc /\ req'[o].cat = req[o].cat
                          /\ req'[o].fresh.began = req[o].fresh.began /\ (req'[o].clean => req[o].clean)
                          /\ req'[o].answer = req[o].answer /\ req'[o].status = req[o].status
      BY <2>1, <2>3 DEF Spared, Scanning
    <3>2. ASSUME NEW o \in Reqs
          PROVE  FreshOf(o)'
      BY <1>1, <2>1, <3>1 DEF FreshOf
    <3>3. QED
      BY <1>1, <2>1, <3>2 DEF FreshOK
  <2>4. QED
    BY <2>2, <2>3
<1>5. ASSUME NEW r \in Reqs, Publish(r)
      PROVE  FreshOK'
  BY <1>5, FreshPublish
<1>6. ASSUME NEW r \in Reqs, CheckRoots(r)
      PROVE  FreshOK'
  <2>1. /\ req[r].pc = "roots" /\ req[r].cat \in Reqs /\ req[r].status = 0 /\ ~Scanning(r)
        /\ UNCHANGED <<disk, env, build_lock, catalog, object, scanned, edits>>
    BY <1>1, <1>6, BaseCheckRoots DEF CheckRoots, RequestOK, Scanning
  <2>2. ASSUME NEW pc \in {"reset", "list"}, Advances(r, pc)
        PROVE  FreshOK'
    <3>1. /\ Spared(r)
          /\ req'[r].pc = pc /\ req'[r].cat = req[r].cat /\ req'[r].status = req[r].status
          /\ req'[r].floor = req[r].floor
      BY <1>1, <2>2, AdvanceMoves
    <3>2. \A o \in Reqs : req'[o].floor = req[o].floor /\ Scanning(o)' = Scanning(o)
      BY <2>1, <3>1 DEF Spared, Scanning
    <3>3. FreshOf(r)'
      BY <1>1, <2>1, <3>1, <3>2 DEF FreshOf
    <3>4. ASSUME NEW o \in Reqs, o # r
          PROVE  FreshOf(o)'
      BY <1>1, <2>1, <3>1, <3>2, <3>4 DEF FreshOf, Spared
    <3>5. QED
      BY <1>1, <2>1, <3>3, <3>4 DEF FreshOK
  <2>3. CASE BeginsScan(r, "scan", Roots, req[r].cat)
    BY <2>1, <2>3, FreshBegins
  <2>4. QED
    BY <1>1, <1>6, <2>2, <2>3, BaseCheckRoots
<1>7. ASSUME NEW r \in Reqs, Reset(r)
      PROVE  FreshOK'
  BY <1>1, <1>7, BaseReset, FreshAnswersStep DEF Reset
<1>8. ASSUME NEW r \in Reqs, Answer(r)
      PROVE  FreshOK'
  <2>1. /\ req[r].floor <= object[req[r].cat].index.began
        /\ Answers(r, 200, object[req[r].cat].index) /\ UNCHANGED <<catalog, object, scanned>>
    BY <1>1, <1>8 DEF Answer, FreshOf
  <2>2. QED
    BY <1>1, <2>1, FreshAnswersStep
<1>9. CASE Edit
  <2>1. ASSUME NEW o \in Reqs
        PROVE  FreshOf(o)'
    BY <1>1, <1>9, BaseEdit DEF FreshOf, Scanning
  <2>2. QED
    BY <1>1, <1>9, <2>1, BaseEdit DEF FreshOK
<1>10. CASE UNCHANGED catalogVars
  BY <1>1, <1>10 DEF catalogVars, FreshOK, FreshOf, Scanning
<1>11. QED
  BY <1>2, <1>3, <1>4, <1>5, <1>6, <1>7, <1>8, <1>9, <1>10 DEF CatalogNext

(* No request is answered with less than what a scan had found that ended  *)
(* before it arrived, or that it made itself, however requests, scans and  *)
(* resets interleave (catalog.py:81-82, components.py:156-157).            *)
THEOREM AnswersAreFresh == CatalogSpec => []FreshAnswers
<1>1. CatalogInit => FreshInv
  <2> SUFFICES ASSUME CatalogInit PROVE FreshInv
    OBVIOUS
  <2>1. BaseInv /\ catalog = NoReq /\ \A r \in Reqs : req[r].pc = "idle" /\ req[r].status = 0
    BY BaseInit DEF CatalogInit, Idle
  <2>2. QED
    BY <2>1 DEF FreshInv, FreshOK, FreshOf, Scanning
<1>2. FreshInv => FreshAnswers
  <2> SUFFICES ASSUME FreshInv, NEW r \in Reqs, req[r].status = 200
               PROVE  req[r].answer.began >= req[r].floor
    BY DEF FreshAnswers
  <2>1. req[r].floor <= req[r].answer.began /\ RequestOK(r) /\ edits \in Nat
    BY DEF FreshInv, FreshOK, FreshOf, BaseInv, ShapeOK
  <2>2. QED
    BY <2>1 DEF RequestOK, Timed
<1>3. QED
  BY <1>1, <1>2, FreshNext, PTL DEF CatalogSpec

-----------------------------------------------------------------------------
(* A retry is served once roots are configured.                            *)

RetryInv == BaseInv /\ RetryOK /\ RetryIsServed

(* Who arrives alone finds the system clear of catalogs without roots.     *)
LEMMA AloneIsServed ==
  ASSUME RetryInv, env = "roots", \A o \in Reqs : ~InFlight(o)
  PROVE  Served
<1>1. \A o \in Reqs : req[o].pc \in {"idle", "answered"}
  BY DEF InFlight
<1>2. catalog # NoReq => object[catalog].configured
  BY <1>1 DEF RetryInv, RetryOK, NeverLeft
<1>3. QED
  BY <1>1, <1>2 DEF Served

LEMMA RetryNext == RetryInv /\ [CatalogNext]_catalogVars => RetryInv'
<1> SUFFICES ASSUME RetryInv, [CatalogNext]_catalogVars
             PROVE  RetryOK' /\ RetryIsServed'
  BY BaseNext DEF RetryInv
<1> USE ComponentCatalogAssumption
<1>1. /\ BaseInv /\ CatalogTypeOK /\ ShapeOK /\ BaseInv' /\ NeverLeft
      /\ \A o \in Reqs : RequestOK(o) /\ Past(req[o].cat)
      /\ \A o \in Reqs : req[o].alone /\ InFlight(o) => Served
      /\ \A o \in Reqs : req[o].alone => req[o].status # 503
      /\ catalog \in Reqs \cup {NoReq} /\ Past(catalog)
      /\ \A o \in Reqs : object[o].configured \in BOOLEAN
  BY BaseNext DEF RetryInv, RetryOK, RetryIsServed, BaseInv, ShapeOK, CatalogTypeOK
<1>2. ASSUME NEW r \in Reqs, NEW op \in {"list", "scan"}, Arrive(r, op)
      PROVE  RetryOK' /\ RetryIsServed'
  <2>1. /\ Spared(r) /\ req'[r].pc = "catalog" /\ req'[r].status = req[r].status /\ req[r].pc = "idle"
        /\ req'[r].alone => env = "roots" /\ \A o \in Reqs : ~InFlight(o)
        /\ UNCHANGED <<env, catalog, object>>
    <3>1. req[r].pc = "idle" /\ UNCHANGED <<env, catalog, object>>
      BY <1>2 DEF Arrive
    <3>2. BaseInv
      BY <1>1
    <3>3. QED
      BY <1>2, <3>1, <3>2, BaseArrive, Zenon
  <2>2. Served => Served'
    BY <2>1 DEF Served, Spared
  <2>3. NeverLeft'
    BY <1>1, <2>1 DEF NeverLeft, Spared
  <2>4. req'[r].alone => Served
    BY <2>1, AloneIsServed
  <2>5. \A o \in Reqs : o # r /\ req'[o].alone /\ InFlight(o)' => Served
    BY <1>1, <2>1 DEF Spared, InFlight
  <2>6. RetryIsServed'
    BY <1>1, <2>1 DEF RetryIsServed, Spared, RequestOK
  <2>7. QED
    BY <2>2, <2>3, <2>4, <2>5, <2>6 DEF RetryOK
<1>3. ASSUME NEW r \in Reqs, NEW status \in {200, 500, 503}, NEW answer, Answers(r, status, answer),
             UNCHANGED <<env, object>>, req[r].pc \notin {"roots", "reset"} \/ catalog' = NoReq,
             catalog' \in {catalog, NoReq}, req[r].alone /\ InFlight(r) => status # 503, InFlight(r)
      PROVE  RetryOK' /\ RetryIsServed'
  <2>1. Spared(r) /\ req'[r].pc = "answered" /\ req'[r].alone = req[r].alone
    <3>1. BaseInv /\ Answers(r, status, answer)
      BY <1>1, <1>3
    <3>2. QED
      BY <3>1, AnswersMoves, ZenonT(30)
  <2>2. req'[r].status = status
    BY <1>1, <1>3 DEF Answers, Idle, BaseInv, ShapeOK
  <2>3. Served => Served'
    BY <1>3, <2>1 DEF Served, Spared
  <2>4. NeverLeft'
    BY <1>1, <1>3, <2>1 DEF NeverLeft, Spared
  <2>5. \A o \in Reqs : req'[o].alone /\ InFlight(o)' => Served
    BY <1>1, <2>1 DEF Spared, InFlight
  <2>6. RetryIsServed'
    BY <1>1, <1>3, <2>1, <2>2 DEF RetryIsServed, Spared
  <2>7. QED
    BY <2>3, <2>4, <2>5, <2>6 DEF RetryOK
<1>4. ASSUME NEW r \in Reqs, TakeCatalog(r)
      PROVE  RetryOK' /\ RetryIsServed'
  <2>1. req[r].pc = "catalog" /\ req[r].status = 0 /\ InFlight(r) /\ ~Past(r)
    BY <1>1, <1>4 DEF TakeCatalog, RequestOK, InFlight, Past
  <2>2. CASE /\ catalog # NoReq /\ UNCHANGED <<disk, env, build_lock, catalog, object, scanned, edits>>
             /\ Spared(r) /\ req'[r].pc = "roots" /\ req'[r].cat = catalog
             /\ req'[r].status = req[r].status /\ req'[r].alone = req[r].alone
    <3>1. Served => Served'
      BY <2>2 DEF Served, Spared
    <3>2. NeverLeft'
      BY <1>1, <2>1, <2>2 DEF NeverLeft, Spared
    <3>3. \A o \in Reqs : req'[o].alone /\ InFlight(o)' => Served
      BY <1>1, <2>1, <2>2 DEF Spared, InFlight
    <3>4. RetryIsServed'
      BY <1>1, <2>1, <2>2 DEF RetryIsServed, Spared
    <3>5. QED
      BY <3>1, <3>2, <3>3, <3>4 DEF RetryOK
  <2>3. CASE Answers(r, 500, Static) /\ UNCHANGED <<disk, env, build_lock, catalog, object, scanned, edits>>
    BY <1>3, <2>1, <2>3
  <2>4. CASE /\ BeginsScan(r, "build", IF env = "roots" THEN Roots ELSE <<>>, r)
             /\ catalog = NoReq /\ UNCHANGED <<disk, env, catalog, scanned, edits>>
             /\ \A c \in Reqs : c # r => object'[c] = object[c]
             /\ object'[r].configured = (env = "roots")
    <3>1. /\ Spared(r) /\ req'[r].pc = "build" /\ req'[r].cat = r
          /\ req'[r].status = req[r].status /\ req'[r].alone = req[r].alone
      BY <1>1, <2>4, BeginsMoves
    <3>2. \A o \in Reqs : o # r => req[o].cat # r
      BY <1>1, <2>1
    <3>3. Served => object'[r].configured
      BY <2>4 DEF Served
    <3>4. Served => Served'
      <4>1. SUFFICES ASSUME Served, NEW o \in Reqs
                     PROVE  /\ req'[o].pc \in {"build", "roots"} => object'[req'[o].cat].configured
                            /\ req'[o].pc # "reset"
        BY <2>4 DEF Served
      <4>2. CASE o = r
        BY <3>1, <3>3, <4>1, <4>2
      <4>3. CASE o # r
        BY <1>1, <2>4, <3>1, <3>2, <4>1, <4>3 DEF Served, Spared, RequestOK
      <4>4. QED
        BY <4>2, <4>3
    <3>5. NeverLeft'
      BY <2>4 DEF NeverLeft
    <3>6. \A o \in Reqs : req'[o].alone /\ InFlight(o)' => Served
      BY <1>1, <2>1, <3>1 DEF Spared, InFlight
    <3>7. RetryIsServed'
      BY <1>1, <2>1, <3>1 DEF RetryIsServed, Spared
    <3>8. QED
      BY <3>4, <3>5, <3>6, <3>7 DEF RetryOK
  <2>5. QED
    BY <1>1, <1>4, <2>2, <2>3, <2>4, BaseTakeCatalog
<1>5. ASSUME NEW r \in Reqs, ScanRoot(r)
      PROVE  RetryOK' /\ RetryIsServed'
  <2>1. /\ Spared(r) /\ UNCHANGED <<disk, env, catalog, object, scanned, edits>>
        /\ \/ Answers(r, 500, Static)
           \/ /\ req'[r].pc = req[r].pc /\ req'[r].cat = req[r].cat
              /\ req'[r].status = req[r].status /\ req'[r].alone = req[r].alone
    <3>1. BaseInv
      BY <1>1
    <3>2. QED
      BY <1>5, <3>1, BaseScanRoot, Zenon
  <2>2. req[r].pc \in {"build", "scan"} /\ InFlight(r)
    BY <1>5 DEF ScanRoot, Scanning, InFlight
  <2>3. CASE Answers(r, 500, Static)
    BY <1>3, <2>1, <2>2, <2>3
  <2>4. CASE ~Answers(r, 500, Static)
    <3>1. \A o \in Reqs : /\ req'[o].pc = req[o].pc /\ req'[o].cat = req[o].cat
                          /\ req'[o].status = req[o].status /\ req'[o].alone = req[o].alone
      BY <2>1, <2>4 DEF Spared
    <3>2. QED
      BY <1>1, <2>1, <3>1 DEF RetryOK, RetryIsServed, NeverLeft, Served, InFlight
  <2>5. QED
    BY <2>3, <2>4
<1>6. ASSUME NEW r \in Reqs, Publish(r)
      PROVE  RetryOK' /\ RetryIsServed'
  <2>1. /\ Spared(r) /\ UNCHANGED <<disk, env, edits>>
        /\ req'[r].pc \in {"roots", "list"} /\ req'[r].cat = req[r].cat
        /\ req'[r].status = req[r].status /\ req'[r].alone = req[r].alone
        /\ \A c \in Reqs : c # req[r].cat => object'[c] = object[c]
        /\ object'[req[r].cat].configured = object[req[r].cat].configured
        /\ catalog' = IF req[r].pc = "build" THEN r ELSE catalog
    BY <1>1, <1>6, BasePublish
  <2>2. /\ req[r].pc \in {"build", "scan"} /\ req[r].cat \in Reqs
        /\ req[r].pc = "build" => req[r].cat = r
        /\ req[r].pc = "scan" => object[req[r].cat].configured
    BY <1>1, <1>6 DEF Publish, Scanning, RequestOK, ShapeOK, CatalogTypeOK
  <2>3. req'[r].pc = IF req[r].pc = "build" THEN "roots" ELSE "list"
    BY <1>1, <1>6 DEF Publish, BaseInv, ShapeOK, RequestOK
  <2>4. \A c \in Reqs : object'[c].configured = object[c].configured
    BY <2>1
  <2>5. Served => Served'
    BY <1>1, <2>1, <2>2, <2>3, <2>4 DEF Served, Spared, RequestOK
  <2>6. NeverLeft'
    <3>1. CASE req[r].pc = "build"
      BY <2>1, <2>2, <2>3, <3>1 DEF NeverLeft
    <3>2. CASE req[r].pc # "build"
      BY <1>1, <2>1, <2>2, <2>4, <3>2 DEF NeverLeft, Spared
    <3>3. QED
      BY <3>1, <3>2
  <2>7. \A o \in Reqs : req'[o].alone /\ InFlight(o)' => Served
    BY <1>1, <2>1, <2>2 DEF Spared, InFlight
  <2>8. RetryIsServed'
    BY <1>1, <2>1 DEF RetryIsServed, Spared
  <2>9. QED
    BY <2>5, <2>6, <2>7, <2>8 DEF RetryOK
<1>7. ASSUME NEW r \in Reqs, CheckRoots(r)
      PROVE  RetryOK' /\ RetryIsServed'
  <2>1. /\ req[r].pc = "roots" /\ req[r].cat \in Reqs /\ InFlight(r) /\ Spared(r)
        /\ UNCHANGED <<disk, env, build_lock, catalog, object, scanned, edits>>
    BY <1>1, <1>7, BaseCheckRoots DEF CheckRoots, InFlight
  <2>2. /\ req'[r].pc \in {"reset", "list", "scan"} /\ req'[r].cat = req[r].cat
        /\ req'[r].status = req[r].status /\ req'[r].alone = req[r].alone
        /\ req'[r].pc = "reset" <=> ~object[req[r].cat].configured
    BY <1>1, <1>7, BaseCheckRoots, AdvanceMoves, BeginsMoves
  <2>3. Served => Served'
    BY <2>1, <2>2 DEF Served, Spared
  <2>4. NeverLeft'
    BY <1>1, <2>1, <2>2 DEF NeverLeft, Spared
  <2>5. \A o \in Reqs : req'[o].alone /\ InFlight(o)' => Served
    BY <1>1, <2>1, <2>2 DEF Spared, InFlight
  <2>6. RetryIsServed'
    BY <1>1, <2>1, <2>2 DEF RetryIsServed, Spared
  <2>7. QED
    BY <2>3, <2>4, <2>5, <2>6 DEF RetryOK
<1>8. ASSUME NEW r \in Reqs, Reset(r)
      PROVE  RetryOK' /\ RetryIsServed'
  <2>1. Answers(r, 503, Static) /\ InFlight(r) /\ ~(req[r].alone /\ InFlight(r))
    BY <1>1, <1>8 DEF Reset, Fails, InFlight, Served
  <2>2. QED
    BY <1>3, <1>8, <2>1 DEF Reset
<1>9. ASSUME NEW r \in Reqs, Answer(r)
      PROVE  RetryOK' /\ RetryIsServed'
  <2>1. Answers(r, 200, object[req[r].cat].index) /\ InFlight(r) /\ req[r].pc = "list"
        /\ UNCHANGED <<env, object, catalog>>
    BY <1>9 DEF Answer, InFlight
  <2>2. QED
    BY <1>3, <2>1
<1>10. CASE Edit
  <2>1. /\ UNCHANGED <<build_lock, catalog, object>>
        /\ \A o \in Reqs : /\ req'[o].pc = req[o].pc /\ req'[o].cat = req[o].cat
                           /\ req'[o].status = req[o].status
                           /\ req'[o].alone => req[o].alone /\ (env' # env => env' = "roots")
    BY <1>1, <1>10, BaseEdit
  <2>2. NeverLeft'
    BY <1>1, <2>1 DEF NeverLeft
  <2>3. \A o \in Reqs : req'[o].alone /\ InFlight(o)' => Served'
    BY <1>1, <2>1 DEF Served, InFlight
  <2>4. RetryIsServed'
    BY <1>1, <2>1 DEF RetryIsServed
  <2>5. QED
    BY <2>2, <2>3, <2>4 DEF RetryOK
<1>11. CASE UNCHANGED catalogVars
  BY <1>1, <1>11 DEF catalogVars, RetryOK, RetryIsServed, NeverLeft, Served, InFlight
<1>12. QED
  BY <1>2, <1>4, <1>5, <1>6, <1>7, <1>8, <1>9, <1>10, <1>11 DEF CatalogNext

(* A request that meets no other is never refused for missing roots once   *)
(* the environment names some: no catalog without roots outlives the       *)
(* requests that hold it (components.py:61, 80-82).                        *)
THEOREM RetriesAreServed == CatalogSpec => []RetryIsServed
<1>1. CatalogInit => RetryInv
  <2> SUFFICES ASSUME CatalogInit PROVE RetryInv
    OBVIOUS
  <2>1. BaseInv /\ catalog = NoReq /\ \A r \in Reqs : req[r].pc = "idle" /\ req[r].status = 0
    BY BaseInit DEF CatalogInit, Idle
  <2>2. QED
    BY <2>1 DEF RetryInv, RetryOK, RetryIsServed, NeverLeft, InFlight
<1>2. RetryInv => RetryIsServed
  BY DEF RetryInv
<1>3. QED
  BY <1>1, <1>2, RetryNext, PTL DEF CatalogSpec

-----------------------------------------------------------------------------
(* An index is one whole scan of every root.                               *)

(* A root that is configured twice is scanned twice, and a file removed    *)
(* between stays in the index: the theorem is about distinct roots.        *)
DistinctRoots == \A i, j \in 1..Len(Roots) : Roots[i] = Roots[j] => i = j

WholeInv == BaseInv /\ WholeOK

(* What a scan of a root finds depends only on the files below it.         *)
LEMMA EntriesOfRoot ==
  ASSUME NEW root \in Range(Roots), NEW files
  PROVE  RootEntries(root, {f \in files : f.root = root}) = RootEntries(root, files)
<1> DEFINE own == {f \in files : f.root = root}
<1>1. ComfyEntries(root, own) = ComfyEntries(root, files)
  <2>1. {g \in own : /\ g.root = root /\ ~g.hidden /\ g.dirs # <<>>
                     /\ g.dirs[1] \in DOMAIN ComfyKinds \cup {"vae"}}
        = {g \in files : /\ g.root = root /\ ~g.hidden /\ g.dirs # <<>>
                         /\ g.dirs[1] \in DOMAIN ComfyKinds \cup {"vae"}}
    OBVIOUS
  <2>2. QED
    BY <2>1 DEF ComfyEntries
<1>2. {f \in own : f.root = root /\ f.dirs # <<>>} = {f \in files : f.root = root /\ f.dirs # <<>>}
  OBVIOUS
<1>3. ComponentDirs(root, own) = ComponentDirs(root, files)
  BY <1>2 DEF ComponentDirs
<1>4. PackageEntries(root, own) = PackageEntries(root, files)
  BY <1>3 DEF PackageEntries
<1>5. QED
  BY <1>1, <1>4 DEF RootEntries

LEMMA ComponentDirShape ==
  ASSUME NEW root \in Range(Roots), NEW files \in SUBSET Files, NEW d \in ComponentDirs(root, files)
  PROVE  d[Len(d)] \in DOMAIN PackageKinds
<1>1. PICK f \in files : /\ f.dirs # <<>>
                         /\ \/ f.dirs[1] \in DOMAIN PackageKinds /\ d = SubSeq(f.dirs, 1, 1)
                            \/ /\ Len(f.dirs) > 1 /\ f.dirs[2] \in DOMAIN PackageKinds
                               /\ d = SubSeq(f.dirs, 1, 2)
  BY DEF ComponentDirs
<1>2. f.dirs \in Seq(STRING) /\ Len(f.dirs) \in Nat /\ Len(f.dirs) >= 1
  <2>1. f.dirs \in Seq(STRING)
    BY ComponentCatalogAssumption
  <2>2. QED
    BY <1>1, <2>1
<1>3. CASE d = SubSeq(f.dirs, 1, 1) /\ f.dirs[1] \in DOMAIN PackageKinds
  <2>1. Len(d) = 1 /\ d[1] = f.dirs[1]
    BY <1>2, <1>3
  <2>2. QED
    BY <1>3, <2>1
<1>4. CASE d = SubSeq(f.dirs, 1, 2) /\ Len(f.dirs) > 1 /\ f.dirs[2] \in DOMAIN PackageKinds
  <2>1. Len(d) = 2 /\ d[2] = f.dirs[2]
    BY <1>2, <1>4
  <2>2. QED
    BY <1>4, <2>1
<1>5. QED
  BY <1>1, <1>3, <1>4

(* What is found below a root says so, and is never a schedule.            *)
LEMMA EntryShape ==
  ASSUME NEW root \in Range(Roots), NEW files \in SUBSET Files, NEW a \in RootEntries(root, files)
  PROVE  a.path.root = root /\ a.kind # "schedule"
<1>1. CASE a \in ComfyEntries(root, files)
  <2>1. PICK f \in files : /\ f.root = root /\ f.dirs[1] \in DOMAIN ComfyKinds \cup {"vae"}
                           /\ a.path = f /\ a.kind = FileKind(f)
    BY <1>1 DEF ComfyEntries
  <2>2. FileKind(f) # "schedule"
    BY <2>1 DEF FileKind, ComfyKinds
  <2>3. QED
    BY <2>1, <2>2
<1>2. CASE a \in PackageEntries(root, files)
  <2>1. \E d \in ComponentDirs(root, files) : \E id :
           a = [kind |-> PackageKinds[d[Len(d)]], zone |-> Zone[root], id |-> id,
                path |-> [root |-> root, dirs |-> d], locked |-> Zone[root] = "official"]
    BY <1>2, Zenon DEF PackageEntries
  <2>2. PICK d \in ComponentDirs(root, files) : /\ a.kind = PackageKinds[d[Len(d)]]
                                                /\ a.path = [root |-> root, dirs |-> d]
    BY <2>1
  <2>3. d[Len(d)] \in DOMAIN PackageKinds
    BY ComponentDirShape
  <2>4. QED
    BY <2>2, <2>3 DEF PackageKinds
<1>3. QED
  BY <1>1, <1>2 DEF RootEntries

LEMMA ScheduleShape == ~ClashOf(ScheduleEntries) /\ \A a \in ScheduleEntries : a.kind = "schedule"
  BY DEF ClashOf, ScheduleEntries

(* One more root: what it adds, and what is left.                          *)
LEMMA FoundMore ==
  ASSUME NEW index, NEW next, NEW root \in Range(Roots) \ DOMAIN index.seen, NEW files \in SUBSET Files,
         Found(index), DOMAIN index.seen \subseteq Range(Roots),
         \A x \in DOMAIN index.seen : index.seen[x] \in SUBSET Files,
         ~Clash(index.entries \cup RootEntries(root, files)),
         next.entries = Overlay(index.entries, RootEntries(root, files)),
         next.seen = Seen(index.seen, root, files)
  PROVE  Found(next)
<1> DEFINE found == RootEntries(root, files)
           own == {f \in files : f.root = root}
<1>1. \A a \in index.entries : a.kind = "schedule" \/ a.path.root \in DOMAIN index.seen
  <2> SUFFICES ASSUME NEW a \in index.entries, a \notin ScheduleEntries
               PROVE  a.path.root \in DOMAIN index.seen
    BY ScheduleShape
  <2>1. PICK x \in DOMAIN index.seen : a \in RootEntries(x, index.seen[x])
    BY DEF Found
  <2>2. a.path.root = x
    BY <2>1, EntryShape
  <2>3. QED
    BY <2>2
<1>2. \A b \in found : b.kind # "schedule" /\ b.path.root = root
  BY EntryShape
<1>3. ~ClashOf(index.entries \cup found)
  BY DEF Clash
<1>4. ASSUME NEW a \in index.entries, NEW b \in found, SameKey(a, b)
      PROVE  FALSE
  <2>1. a.path = b.path
    BY <1>3, <1>4 DEF ClashOf
  <2>2. a.kind = b.kind
    BY <1>4 DEF SameKey
  <2>3. QED
    BY <1>1, <1>2, <2>1, <2>2
<1>5. next.entries = index.entries \cup found
  BY <1>4 DEF Overlay
<1>6. /\ DOMAIN next.seen = {root} \cup DOMAIN index.seen
      /\ next.seen[root] = own
      /\ \A x \in DOMAIN index.seen : next.seen[x] = index.seen[x]
  BY DEF Seen
<1>7. RootEntries(root, next.seen[root]) = found
  BY <1>6, EntriesOfRoot
<1>8. UNION {RootEntries(x, next.seen[x]) : x \in DOMAIN next.seen}
      = found \cup UNION {RootEntries(x, index.seen[x]) : x \in DOMAIN index.seen}
  BY <1>6, <1>7
<1>9. QED
  BY <1>3, <1>5, <1>8 DEF Found

LEMMA LeftLess ==
  ASSUME NEW todo, NEW seen, NEW files \in SUBSET Files, Left(todo, seen), todo # <<>>
  PROVE  /\ Head(todo) \in Range(Roots) \ DOMAIN seen
         /\ Left(Tail(todo), Seen(seen, Head(todo), files))
<1>1. /\ todo \in Seq(Range(Roots)) /\ Len(todo) \in Nat /\ Len(todo) >= 1
      /\ \A i, j \in 1..Len(todo) : todo[i] = todo[j] => i = j
      /\ Range(todo) \cap DOMAIN seen = {} /\ Range(todo) \cup DOMAIN seen = Range(Roots)
      /\ \A x \in DOMAIN seen : seen[x] \in SUBSET Files
  BY DEF Left
<1>2. /\ Tail(todo) \in Seq(Range(Roots)) /\ Len(Tail(todo)) = Len(todo) - 1
      /\ \A i \in 1..Len(Tail(todo)) : Tail(todo)[i] = todo[i + 1]
      /\ Head(todo) = todo[1]
  <2>1. todo \in Seq(Range(Roots)) /\ Len(todo) >= 1
    BY <1>1
  <2>2. Tail(todo) \in Seq(Range(Roots)) /\ Len(Tail(todo)) = Len(todo) - 1 /\ Head(todo) = todo[1]
    BY <2>1
  <2>3. \A i \in 1..Len(Tail(todo)) : Tail(todo)[i] = todo[i + 1]
    BY <2>1, <2>2
  <2>4. QED
    BY <2>2, <2>3
<1>3. Range(todo) = {todo[i] : i \in 1..Len(todo)} /\ Range(Tail(todo)) = {Tail(todo)[i] : i \in 1..Len(Tail(todo))}
  <2>1. DOMAIN todo = 1..Len(todo) /\ DOMAIN Tail(todo) = 1..Len(Tail(todo))
    BY <1>1, <1>2
  <2>2. QED
    BY <2>1 DEF Range
<1>4. Head(todo) \in Range(todo)
  BY <1>1, <1>2, <1>3
<1>5. Range(todo) = {Head(todo)} \cup Range(Tail(todo))
  <2>1. ASSUME NEW x \in Range(todo), x # Head(todo)
        PROVE  x \in Range(Tail(todo))
    <3>1. PICK i \in 1..Len(todo) : x = todo[i]
      BY <1>3
    <3>2. i # 1 /\ i - 1 \in 1..Len(Tail(todo)) /\ Tail(todo)[i - 1] = x
      BY <1>1, <1>2, <2>1, <3>1
    <3>3. QED
      BY <1>3, <3>2
  <2>2. ASSUME NEW x \in Range(Tail(todo))
        PROVE  x \in Range(todo)
    <3>1. PICK i \in 1..Len(Tail(todo)) : x = Tail(todo)[i]
      BY <1>3
    <3>2. i + 1 \in 1..Len(todo) /\ x = todo[i + 1]
      BY <1>1, <1>2, <3>1
    <3>3. QED
      BY <1>3, <3>2
  <2>3. QED
    BY <1>4, <2>1, <2>2
<1>6. Head(todo) \notin Range(Tail(todo))
  <2> SUFFICES ASSUME NEW i \in 1..Len(Tail(todo)), Head(todo) = Tail(todo)[i]
               PROVE  FALSE
    BY <1>3
  <2>1. i + 1 \in 1..Len(todo) /\ 1 \in 1..Len(todo) /\ todo[1] = todo[i + 1] /\ i + 1 # 1
    BY <1>1, <1>2
  <2>2. QED
    BY <1>1, <2>1
<1>7. \A i, j \in 1..Len(Tail(todo)) : Tail(todo)[i] = Tail(todo)[j] => i = j
  <2> SUFFICES ASSUME NEW i \in 1..Len(Tail(todo)), NEW j \in 1..Len(Tail(todo)),
                      Tail(todo)[i] = Tail(todo)[j]
               PROVE  i = j
    OBVIOUS
  <2>1. i + 1 \in 1..Len(todo) /\ j + 1 \in 1..Len(todo) /\ todo[i + 1] = todo[j + 1]
    BY <1>1, <1>2
  <2>2. i + 1 = j + 1
    BY <1>1, <2>1
  <2>3. QED
    BY <2>2
<1>8. /\ DOMAIN Seen(seen, Head(todo), files) = {Head(todo)} \cup DOMAIN seen
      /\ \A x \in DOMAIN Seen(seen, Head(todo), files) : Seen(seen, Head(todo), files)[x] \in SUBSET Files
  BY <1>1 DEF Seen
<1>9. QED
  BY <1>1, <1>2, <1>4, <1>5, <1>6, <1>7, <1>8 DEF Left

LEMMA NothingLeft ==
  ASSUME NEW index, Left(<<>>, index.seen), Found(index)
  PROVE  Whole(index)
<1>1. Range(<<>>) = {}
  BY DEF Range
<1>2. QED
  BY <1>1 DEF Left, Whole

LEMMA AllLeft ==
  ASSUME DistinctRoots, NEW index, index.seen = Unseen, index.entries = ScheduleEntries
  PROVE  Left(Roots, index.seen) /\ Found(index)
<1>1. DOMAIN index.seen = {}
  BY DEF Unseen
<1>2. UNION {RootEntries(x, index.seen[x]) : x \in DOMAIN index.seen} = {}
  BY <1>1
<1>3. QED
  BY <1>1, <1>2, ScheduleShape, ComponentCatalogAssumption DEF Left, Found, DistinctRoots

LEMMA WholeNext == DistinctRoots /\ WholeInv /\ [CatalogNext]_catalogVars => WholeInv'
<1> SUFFICES ASSUME DistinctRoots, WholeInv, [CatalogNext]_catalogVars
             PROVE  WholeOK'
  BY BaseNext DEF WholeInv
<1> USE ComponentCatalogAssumption
<1>1. /\ BaseInv /\ CatalogTypeOK /\ ShapeOK
      /\ \A o \in Reqs : RequestOK(o) /\ WholeOf(o) /\ Past(req[o].cat)
      /\ catalog # NoReq /\ object[catalog].configured => Whole(object[catalog].index)
      /\ catalog \in Reqs \cup {NoReq} /\ Past(catalog) /\ disk.files \in SUBSET Files
  BY DEF WholeInv, WholeOK, BaseInv, ShapeOK, CatalogTypeOK
<1>2. ASSUME NEW r \in Reqs, NEW op \in {"list", "scan"}, Arrive(r, op)
      PROVE  WholeOK'
  <2>1. /\ Spared(r) /\ req'[r].pc = "catalog" /\ req'[r].status = req[r].status
        /\ req[r].status # 200 /\ UNCHANGED <<catalog, object>>
    <3>1. req[r].status # 200 /\ UNCHANGED <<catalog, object>>
      BY <1>1, <1>2 DEF Arrive, RequestOK
    <3>2. BaseInv
      BY <1>1
    <3>3. QED
      BY <1>2, <3>1, <3>2, BaseArrive, Zenon
  <2>2. ASSUME NEW o \in Reqs
        PROVE  WholeOf(o)'
    <3>1. CASE o = r
      BY <2>1, <3>1 DEF WholeOf, Scanning
    <3>2. CASE o # r
      BY <1>1, <2>1, <3>2 DEF WholeOf, Spared, Scanning
    <3>3. QED
      BY <3>1, <3>2
  <2>3. QED
    BY <1>1, <2>1, <2>2 DEF WholeOK
<1>3. ASSUME NEW r \in Reqs, NEW status \in {200, 500, 503}, NEW answer, Answers(r, status, answer),
             status = 200 => Whole(answer), UNCHANGED object, catalog' \in {catalog, NoReq}
      PROVE  WholeOK'
  <2>1. Spared(r) /\ req'[r].pc = "answered"
    BY ZenonT(40), <1>1, <1>3, AnswersMoves
  <2>2. req'[r].status = status /\ req'[r].answer = answer
    BY <1>1, <1>3 DEF Answers, Idle, BaseInv, ShapeOK
  <2>3. ASSUME NEW o \in Reqs
        PROVE  WholeOf(o)'
    <3>1. CASE o = r
      BY <1>3, <2>1, <2>2, <3>1 DEF WholeOf, Scanning
    <3>2. CASE o # r
      BY <1>1, <1>3, <2>1, <3>2 DEF WholeOf, Spared, Scanning
    <3>3. QED
      BY <3>1, <3>2
  <2>4. QED
    BY <1>1, <1>3, <2>3 DEF WholeOK
<1>4. ASSUME NEW r \in Reqs, NEW pc \in {"build", "scan"}, NEW todo, NEW cat \in Reqs,
             BeginsScan(r, pc, todo, cat), req[r].status = 0, UNCHANGED catalog,
             object'[cat].configured => todo = Roots,
             \A c \in Reqs : c # r => object'[c] = object[c],
             pc = "scan" => object' = object /\ cat = req[r].cat /\ req[r].pc = "roots",
             pc = "build" => ~Past(r)
      PROVE  WholeOK'
  <2>1. /\ Spared(r)
        /\ req'[r].pc = pc /\ req'[r].cat = cat /\ req'[r].todo = todo
        /\ req'[r].fresh.entries = ScheduleEntries /\ req'[r].fresh.seen = Unseen
        /\ req'[r].status = req[r].status
    BY <1>1, <1>4, BeginsMoves
  <2>2. Left(Roots, req'[r].fresh.seen) /\ Found(req'[r].fresh)
    BY <2>1, AllLeft
  <2>3. pc = "scan" /\ object[cat].configured => Whole(object[cat].index)
    BY <1>1, <1>4 DEF WholeOf
  <2>4. WholeOf(r)'
    BY <1>4, <2>1, <2>2, <2>3 DEF WholeOf, Scanning
  <2>5. ASSUME NEW o \in Reqs, o # r
        PROVE  WholeOf(o)'
    <3>1. /\ req'[o].pc = req[o].pc /\ req'[o].cat = req[o].cat /\ req'[o].fresh = req[o].fresh
          /\ req'[o].todo = req[o].todo /\ req'[o].answer = req[o].answer /\ req'[o].status = req[o].status
      BY <2>1, <2>5 DEF Spared
    <3>2. req[o].pc \in {"build", "roots", "scan", "list"} => object'[req[o].cat] = object[req[o].cat]
      BY <1>1, <1>4 DEF RequestOK
    <3>3. QED
      BY <1>1, <3>1, <3>2 DEF WholeOf, Scanning
  <2>6. catalog # NoReq => object'[catalog] = object[catalog]
    BY <1>1, <1>4 DEF Past
  <2>7. QED
    BY <1>1, <1>4, <2>4, <2>5, <2>6 DEF WholeOK
<1>5. ASSUME NEW r \in Reqs, TakeCatalog(r)
      PROVE  WholeOK'
  <2>1. req[r].pc = "catalog" /\ req[r].status = 0 /\ ~Past(r)
    BY <1>1, <1>5 DEF TakeCatalog, RequestOK, Past
  <2>2. CASE /\ catalog # NoReq /\ UNCHANGED <<disk, env, build_lock, catalog, object, scanned, edits>>
             /\ Spared(r) /\ req'[r].pc = "roots" /\ req'[r].cat = catalog
             /\ req'[r].status = req[r].status
    <3>1. WholeOf(r)'
      BY <1>1, <2>1, <2>2 DEF WholeOf, Scanning
    <3>2. ASSUME NEW o \in Reqs, o # r
          PROVE  WholeOf(o)'
      BY <1>1, <2>2, <3>2 DEF WholeOf, Spared, Scanning
    <3>3. QED
      BY <1>1, <2>2, <3>1, <3>2 DEF WholeOK
  <2>3. CASE Answers(r, 500, Static) /\ UNCHANGED <<disk, env, build_lock, catalog, object, scanned, edits>>
    BY <1>3, <2>3
  <2>4. CASE /\ BeginsScan(r, "build", IF env = "roots" THEN Roots ELSE <<>>, r)
             /\ UNCHANGED <<disk, env, catalog, scanned, edits>>
             /\ \A c \in Reqs : c # r => object'[c] = object[c]
             /\ object'[r].configured = (env = "roots")
    BY <1>4, <2>1, <2>4
  <2>5. QED
    BY <1>1, <1>5, <2>2, <2>3, <2>4, BaseTakeCatalog
<1>6. ASSUME NEW r \in Reqs, ScanRoot(r)
      PROVE  WholeOK'
  <2> DEFINE root == Head(req[r].todo)
  <2>1. /\ Spared(r) /\ UNCHANGED <<disk, env, catalog, object, scanned, edits>>
        /\ \/ Answers(r, 500, Static)
           \/ /\ req'[r].pc = req[r].pc /\ req'[r].cat = req[r].cat /\ req'[r].todo = Tail(req[r].todo)
              /\ req'[r].fresh.entries = Overlay(req[r].fresh.entries, RootEntries(root, disk.files))
              /\ req'[r].fresh.seen = Seen(req[r].fresh.seen, root, disk.files)
              /\ ~Clash(req[r].fresh.entries \cup RootEntries(root, disk.files))
              /\ req'[r].answer = req[r].answer /\ req'[r].status = req[r].status
    BY <1>1, <1>6, BaseScanRoot
  <2>2. CASE Answers(r, 500, Static)
    BY <1>3, <2>1, <2>2
  <2>3. CASE ~Answers(r, 500, Static)
    <3>1. req[r].todo # <<>> /\ Scanning(r)
      BY <1>6 DEF ScanRoot
    <3>2. ASSUME object[req[r].cat].configured
          PROVE  Left(req'[r].todo, req'[r].fresh.seen) /\ Found(req'[r].fresh)
      <4>1. Left(req[r].todo, req[r].fresh.seen) /\ Found(req[r].fresh)
        BY <1>1, <3>1, <3>2 DEF WholeOf
      <4>2. root \in Range(Roots) \ DOMAIN req[r].fresh.seen
            /\ Left(Tail(req[r].todo), Seen(req[r].fresh.seen, root, disk.files))
        BY <1>1, <3>1, <4>1, LeftLess
      <4>3. /\ DOMAIN req[r].fresh.seen \subseteq Range(Roots)
            /\ \A x \in DOMAIN req[r].fresh.seen : req[r].fresh.seen[x] \in SUBSET Files
        BY <4>1 DEF Left
      <4>4. Found(req'[r].fresh)
        BY <1>1, <2>1, <2>3, <4>1, <4>2, <4>3, FoundMore
      <4>5. QED
        BY <2>1, <2>3, <4>2, <4>4
    <3>3. WholeOf(r)'
      BY <1>1, <2>1, <2>3, <3>1, <3>2 DEF WholeOf, Scanning
    <3>4. ASSUME NEW o \in Reqs, o # r
          PROVE  WholeOf(o)'
      BY <1>1, <2>1, <3>4 DEF WholeOf, Spared, Scanning
    <3>5. QED
      BY <1>1, <2>1, <3>3, <3>4 DEF WholeOK
  <2>4. QED
    BY <2>2, <2>3
<1>7. ASSUME NEW r \in Reqs, Publish(r)
      PROVE  WholeOK'
  <2>1. /\ Spared(r)
        /\ req'[r].pc \in {"roots", "list"} /\ req'[r].cat = req[r].cat
        /\ req'[r].status = req[r].status
        /\ \A c \in Reqs : c # req[r].cat => object'[c] = object[c]
        /\ object'[req[r].cat].index = req[r].fresh
        /\ object'[req[r].cat].configured = object[req[r].cat].configured
        /\ catalog' = IF req[r].pc = "build" THEN r ELSE catalog
    BY <1>1, <1>7, BasePublish
  <2>2. /\ Scanning(r) /\ req[r].todo = <<>> /\ req[r].cat \in Reqs /\ req[r].status = 0
        /\ req[r].pc = "build" => req[r].cat = r
    BY <1>1, <1>7 DEF Publish, Scanning, RequestOK, ShapeOK
  <2>3. object[req[r].cat].configured => Whole(req[r].fresh)
    BY <1>1, <2>2, NothingLeft DEF WholeOf
  <2>4. ASSUME NEW c \in Reqs, object'[c].configured,
               object[c].configured => Whole(object[c].index) \/ c = req[r].cat
        PROVE  Whole(object'[c].index)
    BY <2>1, <2>3, <2>4
  <2>5. WholeOf(r)'
    BY <2>1, <2>2, <2>4 DEF WholeOf, Scanning
  <2>6. \A c \in Reqs : object'[c].configured = object[c].configured
    BY <2>1
  <2>7. ASSUME NEW o \in Reqs, o # r
        PROVE  WholeOf(o)'
    <3>1. /\ req'[o].pc = req[o].pc /\ req'[o].cat = req[o].cat /\ req'[o].fresh = req[o].fresh
          /\ req'[o].todo = req[o].todo /\ req'[o].answer = req[o].answer /\ req'[o].status = req[o].status
      BY <2>1, <2>7 DEF Spared
    <3>2. req[o].pc \in {"build", "roots", "scan", "list"} => req[o].cat \in Reqs
      BY <1>1 DEF RequestOK
    <3>3. QED
      BY <1>1, <2>4, <2>6, <3>1, <3>2 DEF WholeOf, Scanning
  <2>8. catalog' # NoReq /\ object'[catalog'].configured => Whole(object'[catalog'].index)
    BY <1>1, <2>1, <2>2, <2>4, <2>6
  <2>9. QED
    BY <2>5, <2>7, <2>8 DEF WholeOK
<1>8. ASSUME NEW r \in Reqs, CheckRoots(r)
      PROVE  WholeOK'
  <2>1. /\ req[r].pc = "roots" /\ req[r].cat \in Reqs /\ req[r].status = 0
        /\ UNCHANGED <<disk, env, build_lock, catalog, object, scanned, edits>>
    BY <1>1, <1>8, BaseCheckRoots DEF CheckRoots, RequestOK
  <2>2. ASSUME NEW pc \in {"reset", "list"}, Advances(r, pc)
        PROVE  WholeOK'
    <3>1. /\ Spared(r)
          /\ req'[r].pc = pc /\ req'[r].cat = req[r].cat /\ req'[r].status = req[r].status
      BY <1>1, <2>2, AdvanceMoves
    <3>2. WholeOf(r)'
      BY <1>1, <2>1, <3>1 DEF WholeOf, Scanning
    <3>3. ASSUME NEW o \in Reqs, o # r
          PROVE  WholeOf(o)'
      BY <1>1, <2>1, <3>1, <3>3 DEF WholeOf, Spared, Scanning
    <3>4. QED
      BY <1>1, <2>1, <3>2, <3>3 DEF WholeOK
  <2>3. CASE BeginsScan(r, "scan", Roots, req[r].cat)
    BY <1>4, <2>1, <2>3
  <2>4. QED
    BY <1>1, <1>8, <2>2, <2>3, BaseCheckRoots
<1>9. ASSUME NEW r \in Reqs, Reset(r)
      PROVE  WholeOK'
  BY <1>1, <1>3, <1>9, BaseReset DEF Reset
<1>10. ASSUME NEW r \in Reqs, Answer(r)
      PROVE  WholeOK'
  <2>1. /\ Answers(r, 200, object[req[r].cat].index) /\ UNCHANGED <<catalog, object>>
        /\ object[req[r].cat].configured
    BY <1>1, <1>10 DEF Answer, CatalogTypeOK
  <2>2. Whole(object[req[r].cat].index)
    BY <1>1, <1>10, <2>1 DEF Answer, WholeOf
  <2>3. QED
    BY <1>3, <2>1, <2>2
<1>11. CASE Edit
  <2>1. ASSUME NEW o \in Reqs
        PROVE  WholeOf(o)'
    BY <1>1, <1>11, BaseEdit DEF WholeOf, Scanning
  <2>2. QED
    BY <1>1, <1>11, <2>1, BaseEdit DEF WholeOK
<1>12. CASE UNCHANGED catalogVars
  BY <1>1, <1>12 DEF catalogVars, WholeOK, WholeOf, Scanning
<1>13. QED
  BY <1>2, <1>5, <1>6, <1>7, <1>8, <1>9, <1>10, <1>11, <1>12 DEF CatalogNext

(* With roots configured once each, every answer is exactly what one scan  *)
(* found below each of them, none missing, doubled or shadowed             *)
(* (catalog.py:65-82, 110).                                                *)
THEOREM AnswersAreWhole ==
  ASSUME DistinctRoots
  PROVE  CatalogSpec => []AnswersWholeScan
<1>1. CatalogInit => WholeInv
  <2> SUFFICES ASSUME CatalogInit PROVE WholeInv
    OBVIOUS
  <2>1. BaseInv /\ catalog = NoReq /\ \A r \in Reqs : req[r].pc = "idle" /\ req[r].status = 0
    BY BaseInit DEF CatalogInit, Idle
  <2>2. QED
    BY <2>1 DEF WholeInv, WholeOK, WholeOf, Scanning
<1>2. WholeInv => AnswersWholeScan
  BY DEF WholeInv, WholeOK, WholeOf, Whole, Found, AnswersWholeScan
<1>3. WholeInv /\ [CatalogNext]_catalogVars => WholeInv'
  BY WholeNext
<1>4. QED
  BY <1>1, <1>2, <1>3, PTL DEF CatalogSpec
=============================================================================
