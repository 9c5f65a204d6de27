------------------------ MODULE ContractStore_proofs ------------------------
(***************************************************************************)
(* Proofs about ArtifactNormalization and ContractStore: racing            *)
(* normalizations, drafts and pins over files that change, for any         *)
(* checkpoints, templates, known contracts, commands and edits.            *)
(***************************************************************************)
EXTENDS ContractStore, SequenceLemmas, TLAPS

-----------------------------------------------------------------------------
(* The inductive invariant.                                                *)

(* Stamps and inodes are numbers the clock has given.                      *)
Given(f) == f = Absent \/ (f.inode \in 1..clock /\ f.stamp \in 1..clock)

FileFields == {"inode", "stamp", "data"}

FilesOK ==
  /\ clock \in Nat /\ DOMAIN file = Paths
  /\ \A p \in Paths : DOMAIN file[p] = FileFields /\ Given(file[p])

NormFields == {"phase", "source", "prefix", "artifact", "receipt"}

(* A run whose artifact, or receipt, is staged and not linked yet.         *)
HasArtifact(n) == norm[n].phase \in {"opened", "copied", "verified", "staged"}
HasReceipt(n) == norm[n].phase \in {"staged", "linked"}
Linked(n) == norm[n].phase \in {"linked", "published", "returned"}
Undoes(n) == norm[n].phase \in {"undo receipt", "undo artifact"}

(* The inodes of a run's staging files are its own.                        *)
NormOK ==
  /\ DOMAIN norm = Normalizers
  /\ \A n \in Normalizers :
       /\ DOMAIN norm[n] = NormFields
       /\ norm[n].artifact \in 0..clock /\ norm[n].receipt \in 0..clock
       /\ HasArtifact(n) \/ Linked(n) \/ Undoes(n) => norm[n].artifact # 0
       /\ HasReceipt(n) \/ Linked(n) \/ Undoes(n) => norm[n].receipt # 0
  /\ \A n, o \in Normalizers :
       /\ n # o /\ norm[n].artifact # 0 => norm[n].artifact # norm[o].artifact
       /\ n # o /\ norm[n].receipt # 0 => norm[n].receipt # norm[o].receipt
       /\ norm[n].artifact # 0 => norm[n].artifact # norm[o].receipt

(* Nobody else has seen the staging inode i.                               *)
Unseen(i) ==
  /\ \A p \in Paths : file[p].stamp # i
  /\ \A k \in 1..Len(draft.head) : draft.head[k].stamp # i

UnseenOK ==
  \A n \in Normalizers : /\ HasArtifact(n) => Unseen(norm[n].artifact)
                         /\ HasReceipt(n) => Unseen(norm[n].receipt)

(* A run that has linked its artifact finds it at the destination, and a   *)
(* receipt is that of a run that does not undo its artifact yet.           *)
PublishedOK ==
  /\ \A n \in Normalizers :
       /\ Linked(n) => file[Destination].inode = norm[n].artifact /\ file[Destination].data = Derived
       /\ norm[n].phase \in {"published", "returned"} => file[Receipt].inode = norm[n].receipt
  /\ Exists(Receipt) => \E n \in Normalizers :
       /\ norm[n].phase \in {"published", "returned", "undo receipt", "crashed"}
       /\ norm[n].receipt = file[Receipt].inode
       /\ norm[n].artifact # 0 /\ norm[n].artifact = file[Destination].inode
       /\ file[Destination].data = Derived

(* What a draft has opened; while a path still has that file, the payload  *)
(* read through the descriptor is its content.                             *)
DraftOK ==
  /\ DOMAIN draft = {"phase", "input", "head", "ids"}
  /\ draft.head \in Seq(Range(draft.head))
  /\ \A k \in 1..Len(draft.head) : Given(draft.head[k]) /\ draft.head[k] # Absent
  /\ draft.phase = "idle" => draft.head = <<>>
  /\ draft.phase # "idle" => draft.input \in ScanInputs /\ Len(draft.head) <= Len(draft.input.paths)
  /\ draft.phase = "read" =>
       /\ draft.ids = [k \in 1..Len(draft.head) |-> draft.ids[k]]
       /\ \A k \in 1..Len(draft.head) :
            file[draft.input.paths[k]] = draft.head[k] => draft.ids[k] = draft.head[k].data
  /\ draft.phase \in {"built", "writing"} =>
       draft.ids = Heads(draft) /\ Draftable(Whole(Heads(draft)))
  /\ draft.phase = "writing" => doc.state = "partial"

(* A whole draft is that of the bytes whose digests it records.            *)
Describes(t) ==
  LET c == Whole(doc.ids)
  IN /\ Observable(c) /\ DraftsAs(c, t)
     /\ doc.candidate = Candidate(c, t) /\ doc.nearest = Nearest(t)

DocOK == doc.state = "whole" => \E t \in Templates : Describes(t)

PinFields == {"phase", "name", "enforce", "hashed", "address"}
Owns(k) == pin[k].phase \in {"created", "written", "returned"}

(* An address belongs to one pin at a time.                                *)
PinsOK ==
  /\ DOMAIN pin = Pinners
  /\ \A k \in Pinners :
       /\ DOMAIN pin[k] = PinFields
       /\ pin[k].phase = "hashing" =>
            /\ pin[k].name \in Names /\ pin[k].enforce \in BOOLEAN
            /\ doc.state = "whole" /\ Pinnable(doc.candidate)
       /\ Owns(k) => pin[k].address \in Addresses /\ store[pin[k].address] # "absent"
       /\ pin[k].phase = "returned" => store[pin[k].address] = "whole"
       /\ \A j \in Pinners : j # k /\ Owns(j) /\ Owns(k) => pin[j].address # pin[k].address

(* A snapshot is of the draft, with a decision its promotion allows.       *)
StoreOK ==
  /\ DOMAIN store = Addresses
  /\ \A a \in Addresses : store[a] # "absent" =>
       /\ doc.state = "whole" /\ Pinnable(doc.candidate)
       /\ \E enforce \in BOOLEAN : a[2] \in Decisions(doc.candidate, doc.nearest, enforce)

StoreInv == FilesOK /\ NormOK /\ UnseenOK /\ PublishedOK /\ DraftOK /\ DocOK /\ PinsOK /\ StoreOK

LEMMA GivenStays ==
  ASSUME clock \in Nat, clock' \in {clock, clock + 1}, NEW f, Given(f)
  PROVE  f = Absent \/ (f.inode \in 1..clock' /\ f.stamp \in 1..clock')
BY DEF Given

LEMMA AbsentFields ==
  Absent.inode = 0 /\ Absent.stamp = 0 /\ Absent.data = NoData /\ DOMAIN Absent = FileFields
BY DEF Absent, FileFields

LEMMA AppendRange ==
  ASSUME NEW r, r \in Seq(Range(r)), NEW x
  PROVE  /\ Append(r, x) \in Seq(Range(Append(r, x)))
         /\ Len(r) \in Nat /\ Len(Append(r, x)) = Len(r) + 1
         /\ \A i \in 1..Len(r) : Append(r, x)[i] = r[i]
         /\ Append(r, x)[Len(r) + 1] = x
<1> DEFINE S == Range(r) \cup {x}
           new == Append(r, x)
<1>1. Len(r) \in Nat /\ DOMAIN r = 1..Len(r)
  OBVIOUS
<1>2. r \in Seq(S)
  <2>1. \A i \in 1..Len(r) : r[i] \in S
    BY <1>1 DEF Range
  <2>2. QED
    BY <1>1, <2>1
<1>3. /\ new \in Seq(S) /\ Len(new) = Len(r) + 1 /\ DOMAIN new = 1..Len(new)
      /\ \A i \in 1..Len(new) : new[i] \in Range(new)
      /\ \A i \in 1..Len(r) : new[i] = r[i]
      /\ new[Len(r) + 1] = x
  BY <1>2 DEF Range
<1>4. QED
  BY <1>1, <1>3

(* The draft, when files are left behind or replaced by ones it never saw. *)
LEMMA DraftStays ==
  ASSUME StoreInv, UNCHANGED <<draft, doc>>, clock' \in {clock, clock + 1},
         \A p \in Paths : \/ file'[p] = file[p]
                          \/ file'[p] = Absent
                          \/ \A k \in 1..Len(draft.head) : draft.head[k].stamp # file'[p].stamp
  PROVE  DraftOK' /\ DocOK'
<1>1. /\ DraftOK /\ draft' = draft /\ doc' = doc /\ clock \in Nat
      /\ Len(draft.head) \in Nat
  BY DEF StoreInv, FilesOK, DraftOK
<1>2. ASSUME NEW k \in 1..Len(draft.head)
      PROVE  Given(draft.head[k])'
  BY <1>1, GivenStays DEF DraftOK, Given
<1>3. ASSUME draft.phase = "read", NEW k \in 1..Len(draft.head),
             file'[draft.input.paths[k]] = draft.head[k]
      PROVE  draft.ids[k] = draft.head[k].data
  <2>1. draft.input.paths \in Seq(Paths) /\ k \in 1..Len(draft.input.paths)
    BY <1>1, <1>3, StoreAssumption DEF DraftOK
  <2>2. draft.input.paths[k] \in Paths
    BY <2>1
  <2>3. file[draft.input.paths[k]] = draft.head[k]
    BY <1>1, <1>3, <2>2 DEF DraftOK
  <2>4. QED
    BY <1>1, <1>3, <2>3 DEF DraftOK
<1>4. DraftOK'
  BY <1>1, <1>2, <1>3 DEF DraftOK, Heads
<1>5. DocOK'
  BY <1>1 DEF DocOK, Describes, StoreInv
<1>6. QED
  BY <1>4, <1>5

LEMMA PinsStay ==
  ASSUME StoreInv, UNCHANGED <<doc, pin, store>>
  PROVE  PinsOK' /\ StoreOK'
BY DEF StoreInv, PinsOK, StoreOK, Owns

-----------------------------------------------------------------------------
(* Normalizations.                                                         *)

Stands(phase) == phase \in {"published", "returned", "undo receipt", "crashed"}

(* A step of run n that changes no file; at most one new staging inode.    *)
LEMMA NormUpdate ==
  ASSUME StoreInv, NEW n \in Normalizers, UNCHANGED <<file, draft, doc, pin, store>>,
         DOMAIN norm' = Normalizers, \A o \in Normalizers \ {n} : norm'[o] = norm[o],
         DOMAIN norm'[n] = NormFields,
         \/ /\ clock' = clock
            /\ norm'[n].artifact = norm[n].artifact /\ norm'[n].receipt = norm[n].receipt
            /\ HasArtifact(n)' => HasArtifact(n)
            /\ HasReceipt(n)' => HasReceipt(n)
         \/ /\ clock' = clock + 1 /\ norm[n].phase = "resolved" /\ norm'[n].artifact = clock'
            /\ norm'[n].receipt = norm[n].receipt /\ norm'[n].phase = "opened"
         \/ /\ clock' = clock + 1 /\ norm[n].phase = "verified" /\ norm'[n].receipt = clock'
            /\ norm'[n].artifact = norm[n].artifact /\ norm'[n].phase = "staged",
         HasArtifact(n)' \/ Linked(n)' \/ Undoes(n)' => norm'[n].artifact # 0,
         HasReceipt(n)' \/ Linked(n)' \/ Undoes(n)' => norm'[n].receipt # 0,
         Linked(n)' => Linked(n),
         norm'[n].phase \in {"published", "returned"} => norm[n].phase \in {"published", "returned"},
         Stands(norm[n].phase) => /\ Stands(norm'[n].phase)
                                  /\ norm'[n].artifact = norm[n].artifact
                                  /\ norm'[n].receipt = norm[n].receipt
  PROVE  StoreInv'
<1>0. clock \in Nat /\ clock' \in {clock, clock + 1}
  BY DEF StoreInv, FilesOK
<1>1. ASSUME NEW p \in Paths
      PROVE  Given(file[p]) /\ Given(file[p])'
  BY <1>0, GivenStays DEF StoreInv, FilesOK, Given
<1>2. FilesOK'
  BY <1>0, <1>1 DEF FilesOK, StoreInv
<1>3. \A i \in Normalizers : norm[i].artifact \in 0..clock /\ norm[i].receipt \in 0..clock
  BY DEF StoreInv, NormOK
<1>4. NormOK'
  <2>1. ASSUME NEW o \in Normalizers
        PROVE  /\ DOMAIN norm'[o] = NormFields
               /\ norm'[o].artifact \in 0..clock' /\ norm'[o].receipt \in 0..clock'
               /\ HasArtifact(o)' \/ Linked(o)' \/ Undoes(o)' => norm'[o].artifact # 0
               /\ HasReceipt(o)' \/ Linked(o)' \/ Undoes(o)' => norm'[o].receipt # 0
    <3>1. CASE o = n
      BY <1>0, <1>3, <3>1
    <3>2. CASE o # n
      <4>1. /\ DOMAIN norm[o] = NormFields
            /\ HasArtifact(o) \/ Linked(o) \/ Undoes(o) => norm[o].artifact # 0
            /\ HasReceipt(o) \/ Linked(o) \/ Undoes(o) => norm[o].receipt # 0
        BY DEF StoreInv, NormOK
      <4>2. norm[o].artifact \in 0..clock' /\ norm[o].receipt \in 0..clock'
        BY <1>0, <1>3
      <4>3. norm'[o] = norm[o]
        BY <3>2
      <4>4. QED
        BY <4>1, <4>2, <4>3 DEF HasArtifact, HasReceipt, Linked, Undoes
    <3>3. QED
      BY <3>1, <3>2
  <2>2. ASSUME NEW i \in Normalizers, NEW j \in Normalizers
        PROVE  /\ i # j /\ norm[i].artifact # 0 => norm[i].artifact # norm[j].artifact
               /\ i # j /\ norm[i].receipt # 0 => norm[i].receipt # norm[j].receipt
               /\ norm[i].artifact # 0 => norm[i].artifact # norm[j].receipt
    BY DEF StoreInv, NormOK
  <2>3. ASSUME NEW i \in Normalizers, NEW j \in Normalizers
        PROVE  /\ i # j /\ norm'[i].artifact # 0 => norm'[i].artifact # norm'[j].artifact
               /\ i # j /\ norm'[i].receipt # 0 => norm'[i].receipt # norm'[j].receipt
               /\ norm'[i].artifact # 0 => norm'[i].artifact # norm'[j].receipt
    <3>1. norm[i].artifact \in 0..clock /\ norm[j].artifact \in 0..clock
          /\ norm[i].receipt \in 0..clock /\ norm[j].receipt \in 0..clock
      BY <1>3
    <3>2. QED
      BY <1>0, <2>2, <3>1
  <2>4. QED
    BY <2>1, <2>3 DEF NormOK
<1>5. ASSUME NEW i, Unseen(i)
      PROVE  /\ \A p \in Paths : file'[p].stamp # i
             /\ \A k \in 1..Len(draft'.head) : draft'.head[k].stamp # i
  BY <1>5 DEF Unseen
<1>6. /\ \A p \in Paths : file'[p].stamp # clock + 1
      /\ \A k \in 1..Len(draft'.head) : draft'.head[k].stamp # clock + 1
  BY <1>0, <1>1, AbsentFields DEF StoreInv, DraftOK, Given
<1>7. UnseenOK'
  <2>1. ASSUME NEW o \in Normalizers, HasArtifact(o)'
        PROVE  Unseen(norm[o].artifact)'
    <3>1. CASE HasArtifact(o) /\ norm'[o].artifact = norm[o].artifact
      BY <1>5, <3>1 DEF Unseen, StoreInv, UnseenOK
    <3>2. CASE norm'[o].artifact = clock + 1
      BY <1>6, <3>2 DEF Unseen
    <3>3. QED
      BY <2>1, <3>1, <3>2 DEF HasArtifact
  <2>2. ASSUME NEW o \in Normalizers, HasReceipt(o)'
        PROVE  Unseen(norm[o].receipt)'
    <3>1. CASE HasReceipt(o) /\ norm'[o].receipt = norm[o].receipt
      BY <1>5, <3>1 DEF Unseen, StoreInv, UnseenOK
    <3>2. CASE norm'[o].receipt = clock + 1
      BY <1>6, <3>2 DEF Unseen
    <3>3. QED
      BY <2>2, <3>1, <3>2 DEF HasReceipt
  <2>3. QED
    BY <2>1, <2>2 DEF UnseenOK
<1>8. PublishedOK'
  <2>1. ASSUME NEW o \in Normalizers
        PROVE  /\ Linked(o)' => file'[Destination].inode = norm'[o].artifact /\ file'[Destination].data = Derived
               /\ norm'[o].phase \in {"published", "returned"} => file'[Receipt].inode = norm'[o].receipt
    <3>1. CASE o = n
      BY <3>1 DEF StoreInv, PublishedOK, Linked
    <3>2. CASE o # n
      BY <3>2 DEF StoreInv, PublishedOK, Linked
    <3>3. QED
      BY <3>1, <3>2
  <2>2. ASSUME Exists(Receipt)'
        PROVE  \E o \in Normalizers :
                 /\ norm'[o].phase \in {"published", "returned", "undo receipt", "crashed"}
                 /\ norm'[o].receipt = file'[Receipt].inode
                 /\ norm'[o].artifact # 0 /\ norm'[o].artifact = file'[Destination].inode
                 /\ file'[Destination].data = Derived
    <3>1. Exists(Receipt)
      BY <2>2 DEF Exists
    <3>2. PICK o \in Normalizers :
            /\ Stands(norm[o].phase) /\ norm[o].receipt = file[Receipt].inode
            /\ norm[o].artifact # 0 /\ norm[o].artifact = file[Destination].inode
            /\ file[Destination].data = Derived
      BY <3>1 DEF StoreInv, PublishedOK, Stands
    <3>3. /\ Stands(norm'[o].phase) /\ norm'[o].receipt = norm[o].receipt
          /\ norm'[o].artifact = norm[o].artifact
      BY <3>2
    <3>4. QED
      BY <3>2, <3>3 DEF Stands
  <2>3. QED
    BY <2>1, <2>2 DEF PublishedOK
<1>9. QED
  BY <1>0, <1>2, <1>4, <1>7, <1>8, DraftStays, PinsStay DEF StoreInv

(* A step of run n that moves its phase alone.                             *)
LEMMA NormMoves ==
  ASSUME StoreInv, NEW n \in Normalizers, NEW phase, To(n, phase),
         UNCHANGED <<file, clock, draft, doc, pin, store>>,
         <<norm[n].phase, phase>> \in
           {<<"idle", "resolved">>, <<"idle", "refused">>, <<"resolved", "failed">>,
            <<"copied", "verified">>, <<"copied", "failed">>, <<"staged", "undo receipt">>,
            <<"linked", "undo receipt">>, <<"published", "returned">>, <<"published", "undo receipt">>}
         \/ phase = "crashed"
  PROVE  StoreInv'
<1>1. DOMAIN norm = Normalizers /\ DOMAIN norm[n] = NormFields
  BY DEF StoreInv, NormOK
<1>2. /\ DOMAIN norm' = Normalizers /\ \A o \in Normalizers \ {n} : norm'[o] = norm[o]
      /\ DOMAIN norm'[n] = NormFields /\ norm'[n].phase = phase
      /\ norm'[n].artifact = norm[n].artifact /\ norm'[n].receipt = norm[n].receipt
  BY <1>1 DEF To, NormFields
<1>3. /\ HasArtifact(n)' => HasArtifact(n)
      /\ HasReceipt(n)' => HasReceipt(n)
      /\ HasArtifact(n)' \/ Linked(n)' \/ Undoes(n)' => HasArtifact(n) \/ Linked(n) \/ Undoes(n)
      /\ HasReceipt(n)' \/ Linked(n)' \/ Undoes(n)' => HasReceipt(n) \/ Linked(n) \/ Undoes(n)
      /\ Linked(n)' => Linked(n)
      /\ norm'[n].phase \in {"published", "returned"} => norm[n].phase \in {"published", "returned"}
      /\ Stands(norm[n].phase) => Stands(norm'[n].phase)
  BY <1>2 DEF HasArtifact, HasReceipt, Linked, Undoes, Stands
<1>4. /\ HasArtifact(n) \/ Linked(n) \/ Undoes(n) => norm[n].artifact # 0
      /\ HasReceipt(n) \/ Linked(n) \/ Undoes(n) => norm[n].receipt # 0
  BY DEF StoreInv, NormOK
<1>5. QED
  BY <1>2, <1>3, <1>4, NormUpdate

LEMMA NormQuiet ==
  ASSUME StoreInv, NEW n \in Normalizers, UNCHANGED <<draft, doc, pin, store>>,
         \/ Resolve(n) \/ OpenSource(n) \/ CopyPrefix(n) \/ VerifyStaged(n) \/ StageReceipt(n)
         \/ LinkFails(n, Destination) /\ norm[n].phase = "staged"
         \/ LinkFails(n, Receipt) /\ norm[n].phase = "linked"
         \/ SyncDirectory(n) \/ CrashNormalizer(n)
  PROVE  StoreInv'
<1>1. /\ DOMAIN norm = Normalizers /\ DOMAIN norm[n] = NormFields
      /\ clock \in Nat /\ norm[n].artifact \in 0..clock /\ norm[n].receipt \in 0..clock
      /\ HasArtifact(n) => norm[n].artifact # 0
  BY DEF StoreInv, NormOK, FilesOK
<1>2. CASE Resolve(n)
  <2>1. CASE To(n, "resolved")
    BY <1>2, <2>1, NormMoves DEF Resolve
  <2>2. CASE To(n, "refused")
    BY <1>2, <2>2, NormMoves DEF Resolve
  <2>3. To(n, "resolved") \/ To(n, "refused")
    BY <1>2 DEF Resolve
  <2>4. QED
    BY <2>1, <2>2, <2>3
<1>3. CASE OpenSource(n)
  <2>1. CASE To(n, "failed") /\ UNCHANGED clock
    BY <1>3, <2>1, NormMoves DEF OpenSource
  <2>2. CASE ~(To(n, "failed") /\ UNCHANGED clock)
    <3>1. /\ norm' = [norm EXCEPT ![n].phase = "opened", ![n].source = file[Raw], ![n].artifact = clock + 1]
          /\ clock' = clock + 1 /\ norm[n].phase = "resolved"
      BY <1>3, <2>2 DEF OpenSource
    <3>2. /\ DOMAIN norm' = Normalizers /\ \A o \in Normalizers \ {n} : norm'[o] = norm[o]
          /\ DOMAIN norm'[n] = NormFields /\ norm'[n].phase = "opened"
          /\ norm'[n].artifact = clock + 1 /\ norm'[n].receipt = norm[n].receipt
      BY <1>1, <3>1 DEF NormFields
    <3>3. ~Linked(n)' /\ ~Undoes(n)' /\ ~HasReceipt(n)' /\ ~Stands(norm[n].phase) /\ clock' # 0
      BY <1>1, <3>1, <3>2 DEF HasReceipt, Linked, Undoes, Stands
    <3>4. QED
      BY <1>3, <3>1, <3>2, <3>3, NormUpdate DEF OpenSource
  <2>3. QED
    BY <2>1, <2>2
<1>4. CASE CopyPrefix(n)
  <2> DEFINE prefix == HeldData(Raw, norm[n].source)
  <2>1. norm' = [norm EXCEPT ![n].phase = "copied", ![n].prefix = prefix] /\ norm[n].phase = "opened"
    BY <1>4 DEF CopyPrefix
  <2> HIDE DEF prefix
  <2>2. /\ DOMAIN norm' = Normalizers /\ \A o \in Normalizers \ {n} : norm'[o] = norm[o]
        /\ DOMAIN norm'[n] = NormFields /\ norm'[n].phase = "copied"
        /\ norm'[n].artifact = norm[n].artifact /\ norm'[n].receipt = norm[n].receipt
    BY <1>1, <2>1 DEF NormFields
  <2>3. QED
    BY <1>1, <1>4, <2>1, <2>2, NormUpdate DEF CopyPrefix, HasArtifact, HasReceipt, Linked, Undoes, Stands
<1>5. CASE VerifyStaged(n)
  <2>1. To(n, "verified") \/ To(n, "failed")
    BY <1>5 DEF VerifyStaged
  <2>2. UNCHANGED <<file, clock>> /\ norm[n].phase = "copied"
    BY <1>5 DEF VerifyStaged
  <2>3. CASE To(n, "verified")
    BY <2>2, <2>3, NormMoves
  <2>4. CASE To(n, "failed")
    BY <2>2, <2>4, NormMoves
  <2>5. QED
    BY <2>1, <2>3, <2>4
<1>6. CASE StageReceipt(n)
  <2>1. /\ norm' = [norm EXCEPT ![n].phase = "staged", ![n].receipt = clock + 1] /\ clock' = clock + 1
        /\ norm[n].phase = "verified" /\ UNCHANGED file
    BY <1>6 DEF StageReceipt
  <2>2. /\ DOMAIN norm' = Normalizers /\ \A o \in Normalizers \ {n} : norm'[o] = norm[o]
        /\ DOMAIN norm'[n] = NormFields /\ norm'[n].phase = "staged"
        /\ norm'[n].artifact = norm[n].artifact /\ norm'[n].receipt = clock + 1
    BY <1>1, <2>1 DEF NormFields
  <2>3. HasArtifact(n) /\ ~Linked(n)' /\ ~Undoes(n)' /\ ~Stands(norm[n].phase) /\ clock' # 0
    BY <1>1, <2>1, <2>2 DEF HasArtifact, Linked, Undoes, Stands
  <2>4. QED
    BY <1>1, <2>1, <2>2, <2>3, NormUpdate
<1>7. CASE LinkFails(n, Destination) /\ norm[n].phase = "staged"
  BY <1>7, NormMoves DEF LinkFails
<1>8. CASE LinkFails(n, Receipt) /\ norm[n].phase = "linked"
  BY <1>8, NormMoves DEF LinkFails
<1>9. CASE SyncDirectory(n)
  <2>1. CASE To(n, "returned")
    BY <1>9, <2>1, NormMoves DEF SyncDirectory
  <2>2. CASE To(n, "undo receipt")
    BY <1>9, <2>2, NormMoves DEF SyncDirectory
  <2>3. QED
    BY <1>9, <2>1, <2>2 DEF SyncDirectory
<1>10. CASE CrashNormalizer(n)
  BY <1>10, NormMoves DEF CrashNormalizer
<1>11. QED
  BY <1>2, <1>3, <1>4, <1>5, <1>6, <1>7, <1>8, <1>9, <1>10

(* A step of run n that gives the artifact or receipt path the file f.     *)
LEMMA NormWrites ==
  ASSUME StoreInv, NEW n \in Normalizers, NEW phase, To(n, phase), NEW p \in {Destination, Receipt}, NEW f,
         file' = [file EXCEPT ![p] = f], DOMAIN f = FileFields, UNCHANGED <<clock, draft, doc, pin, store>>,
         \/ Undoes(n) /\ phase \in {"undo artifact", "failed"} /\ f \in {Absent, file[p]}
         \/ /\ norm[n].phase = "staged" /\ phase = "linked"
            /\ f.inode = norm[n].artifact /\ f.stamp = norm[n].artifact
         \/ /\ norm[n].phase = "linked" /\ phase = "published"
            /\ f.inode = norm[n].receipt /\ f.stamp = norm[n].receipt,
         PublishedOK'
  PROVE  StoreInv'
<1>1. /\ DOMAIN norm = Normalizers /\ DOMAIN norm[n] = NormFields /\ DOMAIN file = Paths /\ p \in Paths
      /\ clock \in Nat /\ clock' = clock
      /\ \A q \in Paths : Given(file[q]) /\ DOMAIN file[q] = FileFields
  BY NormalizationAssumption DEF StoreInv, NormOK, FilesOK
<1>2. /\ DOMAIN norm' = Normalizers /\ \A o \in Normalizers \ {n} : norm'[o] = norm[o]
      /\ DOMAIN norm'[n] = NormFields /\ norm'[n].phase = phase
      /\ norm'[n].artifact = norm[n].artifact /\ norm'[n].receipt = norm[n].receipt
      /\ DOMAIN file' = Paths /\ file'[p] = f /\ \A q \in Paths \ {p} : file'[q] = file[q]
  BY <1>1 DEF To, NormFields
<1>3. /\ norm[n].artifact \in 0..clock /\ norm[n].receipt \in 0..clock
      /\ HasArtifact(n) \/ Linked(n) \/ Undoes(n) => norm[n].artifact # 0
      /\ HasReceipt(n) \/ Linked(n) \/ Undoes(n) => norm[n].receipt # 0
  BY DEF StoreInv, NormOK
<1>4. FilesOK'
  <2>0. \A x \in 0..clock : x # 0 => x \in 1..clock
    <3>1. clock \in Nat
      BY <1>1
    <3>2. QED
      BY ONLY <3>1
  <2>1. f \in {Absent, file[p]} => Given(f)
    BY <1>1 DEF Given
  <2>2. ASSUME HasArtifact(n), f.inode = norm[n].artifact, f.stamp = norm[n].artifact
        PROVE  Given(f)
    <3>1. norm[n].artifact \in 1..clock
      BY <1>3, <2>0, <2>2, Zenon
    <3>2. QED
      BY <2>2, <3>1 DEF Given
  <2>3. ASSUME HasReceipt(n), f.inode = norm[n].receipt, f.stamp = norm[n].receipt
        PROVE  Given(f)
    <3>1. norm[n].receipt \in 1..clock
      BY <1>3, <2>0, <2>3, Zenon
    <3>2. QED
      BY <2>3, <3>1 DEF Given
  <2>4. Given(f)
    BY <2>1, <2>2, <2>3 DEF HasArtifact, HasReceipt
  <2>5. QED
    BY <1>1, <1>2, <2>4 DEF FilesOK, Given
<1>5. NormOK'
  <2>1. ASSUME NEW o \in Normalizers
        PROVE  /\ DOMAIN norm'[o] = NormFields
               /\ norm'[o].artifact = norm[o].artifact /\ norm'[o].receipt = norm[o].receipt
               /\ HasArtifact(o)' \/ Linked(o)' \/ Undoes(o)' => HasArtifact(o) \/ Linked(o) \/ Undoes(o)
               /\ HasReceipt(o)' \/ Linked(o)' \/ Undoes(o)' => HasReceipt(o) \/ Linked(o) \/ Undoes(o)
    <3>1. CASE o = n
      BY <1>2, <3>1 DEF HasArtifact, HasReceipt, Linked, Undoes
    <3>2. CASE o # n
      BY <1>2, <3>2 DEF HasArtifact, HasReceipt, Linked, Undoes, StoreInv, NormOK
    <3>3. QED
      BY <3>1, <3>2
  <2>2. ASSUME NEW o \in Normalizers
        PROVE  /\ norm[o].artifact \in 0..clock /\ norm[o].receipt \in 0..clock
               /\ HasArtifact(o) \/ Linked(o) \/ Undoes(o) => norm[o].artifact # 0
               /\ HasReceipt(o) \/ Linked(o) \/ Undoes(o) => norm[o].receipt # 0
    BY DEF StoreInv, NormOK
  <2>3. ASSUME NEW i \in Normalizers, NEW j \in Normalizers
        PROVE  /\ i # j /\ norm[i].artifact # 0 => norm[i].artifact # norm[j].artifact
               /\ i # j /\ norm[i].receipt # 0 => norm[i].receipt # norm[j].receipt
               /\ norm[i].artifact # 0 => norm[i].artifact # norm[j].receipt
    BY DEF StoreInv, NormOK
  <2>4. ASSUME NEW i \in Normalizers, NEW j \in Normalizers
        PROVE  /\ i # j /\ norm'[i].artifact # 0 => norm'[i].artifact # norm'[j].artifact
               /\ i # j /\ norm'[i].receipt # 0 => norm'[i].receipt # norm'[j].receipt
               /\ norm'[i].artifact # 0 => norm'[i].artifact # norm'[j].receipt
    <3>1. /\ norm'[i].artifact = norm[i].artifact /\ norm'[i].receipt = norm[i].receipt
          /\ norm'[j].artifact = norm[j].artifact /\ norm'[j].receipt = norm[j].receipt
      BY <2>1
    <3>2. /\ i # j /\ norm[i].artifact # 0 => norm[i].artifact # norm[j].artifact
          /\ i # j /\ norm[i].receipt # 0 => norm[i].receipt # norm[j].receipt
          /\ norm[i].artifact # 0 => norm[i].artifact # norm[j].receipt
      BY <2>3
    <3>3. QED
      BY <3>1, <3>2
  <2>5. ASSUME NEW o \in Normalizers
        PROVE  /\ DOMAIN norm'[o] = NormFields
               /\ norm'[o].artifact \in 0..clock' /\ norm'[o].receipt \in 0..clock'
               /\ HasArtifact(o)' \/ Linked(o)' \/ Undoes(o)' => norm'[o].artifact # 0
               /\ HasReceipt(o)' \/ Linked(o)' \/ Undoes(o)' => norm'[o].receipt # 0
    <3>1. clock' = clock /\ norm'[o].artifact = norm[o].artifact /\ norm'[o].receipt = norm[o].receipt
      BY <1>1, <2>1
    <3>2. QED
      BY <2>1, <2>2, <3>1
  <2>6. QED
    BY <1>2, <2>4, <2>5 DEF NormOK
<1>6. \A o \in Normalizers \ {n} :
        /\ norm[n].artifact # 0 => norm[n].artifact # norm[o].artifact /\ norm[n].artifact # norm[o].receipt
        /\ norm[n].receipt # 0 => norm[n].receipt # norm[o].receipt
        /\ norm[o].artifact # 0 => norm[o].artifact # norm[n].receipt
  BY DEF StoreInv, NormOK
<1>7. norm[n].artifact # 0 => norm[n].artifact # norm[n].receipt
  BY DEF StoreInv, NormOK
<1>8. \A q \in Paths : file'[q] \in {file[q], Absent, f}
  BY <1>2
<1>9. UnseenOK'
  <2>1. ASSUME NEW o \in Normalizers, HasArtifact(o)'
        PROVE  Unseen(norm[o].artifact)'
    <3>1. o # n /\ norm'[o] = norm[o]
      BY <1>2, <2>1 DEF HasArtifact, Undoes
    <3>2. HasArtifact(o) /\ Unseen(norm[o].artifact) /\ norm[o].artifact # 0
      BY <2>1, <3>1 DEF HasArtifact, StoreInv, UnseenOK, NormOK
    <3>3. f \in {Absent, file[p]} \/ f.stamp # norm[o].artifact
      BY <1>3, <1>6, <3>1, <3>2 DEF HasArtifact, HasReceipt
    <3>4. \A q \in Paths : file'[q].stamp # norm[o].artifact
      BY <1>1, <1>8, <3>2, <3>3, AbsentFields DEF Unseen
    <3>5. \A k \in 1..Len(draft'.head) : draft'.head[k].stamp # norm[o].artifact
      BY <3>2 DEF Unseen
    <3>6. QED
      BY <3>1, <3>4, <3>5 DEF Unseen
  <2>2. ASSUME NEW o \in Normalizers, HasReceipt(o)'
        PROVE  Unseen(norm[o].receipt)'
    <3>1. norm'[o].receipt = norm[o].receipt /\ HasReceipt(o) /\ (o = n => phase = "linked")
      <4>1. CASE o = n
        BY <1>2, <2>2, <4>1 DEF HasReceipt, Undoes
      <4>2. CASE o # n
        BY <1>2, <2>2, <4>2 DEF HasReceipt
      <4>3. QED
        BY <4>1, <4>2
    <3>2. Unseen(norm[o].receipt) /\ norm[o].receipt # 0
      BY <3>1 DEF StoreInv, UnseenOK, NormOK
    <3>3. f \in {Absent, file[p]} \/ f.stamp # norm[o].receipt
      BY <1>3, <1>6, <1>7, <3>1, <3>2 DEF HasArtifact, HasReceipt
    <3>4. \A q \in Paths : file'[q].stamp # norm[o].receipt
      BY <1>1, <1>8, <3>2, <3>3, AbsentFields DEF Unseen
    <3>5. \A k \in 1..Len(draft'.head) : draft'.head[k].stamp # norm[o].receipt
      BY <3>2 DEF Unseen
    <3>6. QED
      BY <3>1, <3>4, <3>5 DEF Unseen
  <2>3. QED
    BY <2>1, <2>2 DEF UnseenOK
<1>10. f \in {Absent, file[p]} \/ \A k \in 1..Len(draft.head) : draft.head[k].stamp # f.stamp
  BY DEF StoreInv, UnseenOK, Unseen, HasArtifact, HasReceipt
<1>11. \A q \in Paths : \/ file'[q] = file[q]
                        \/ file'[q] = Absent
                        \/ \A k \in 1..Len(draft.head) : draft.head[k].stamp # file'[q].stamp
  BY <1>2, <1>10
<1>12. DraftOK' /\ DocOK'
  BY <1>1, <1>11, DraftStays
<1>13. QED
  BY <1>4, <1>5, <1>9, <1>12, PinsStay DEF StoreInv

LEMMA NormLinks ==
  ASSUME StoreInv, NEW n \in Normalizers, UNCHANGED <<draft, doc, pin, store>>,
         \/ norm[n].phase = "staged" /\ Link(n, Destination, norm[n].artifact, Derived, "linked")
         \/ norm[n].phase = "linked" /\ Link(n, Receipt, norm[n].receipt, ReceiptData, "published")
  PROVE  StoreInv'
<1>1. /\ DOMAIN norm = Normalizers /\ DOMAIN norm[n] = NormFields /\ DOMAIN file = Paths
      /\ Destination \in Paths /\ Receipt \in Paths /\ Destination # Receipt
  BY NormalizationAssumption DEF StoreInv, NormOK, FilesOK
<1>2. \A o \in Normalizers :
        /\ Linked(o) => /\ norm[o].artifact # 0 /\ norm[o].receipt # 0
                        /\ file[Destination].inode = norm[o].artifact /\ file[Destination].data = Derived
        /\ norm[o].phase \in {"published", "returned"} => file[Receipt].inode = norm[o].receipt
  BY DEF StoreInv, NormOK, PublishedOK
<1>3. CASE norm[n].phase = "staged" /\ Link(n, Destination, norm[n].artifact, Derived, "linked")
  <2> DEFINE f == [inode |-> norm[n].artifact, stamp |-> norm[n].artifact, data |-> Derived]
  <2>1. /\ ~Exists(Destination) /\ file' = [file EXCEPT ![Destination] = f]
        /\ To(n, "linked") /\ UNCHANGED clock
    BY <1>3 DEF Link
  <2>2. /\ norm'[n].phase = "linked" /\ norm'[n].artifact = norm[n].artifact
        /\ \A o \in Normalizers \ {n} : norm'[o] = norm[o]
        /\ file'[Destination].inode = norm[n].artifact /\ file'[Destination].data = Derived
        /\ file'[Receipt] = file[Receipt]
    BY <1>1, <2>1 DEF To, NormFields
  <2>3. \A o \in Normalizers : ~Linked(o)
    BY <1>2, <2>1, AbsentFields DEF Exists
  <2>4. ~Exists(Receipt)
    BY <2>1, AbsentFields DEF StoreInv, PublishedOK, Exists
  <2>5. PublishedOK'
    BY <2>2, <2>3, <2>4 DEF PublishedOK, Linked, Exists
  <2>6. f.inode = norm[n].artifact /\ f.stamp = norm[n].artifact /\ DOMAIN f = FileFields
    BY DEF FileFields
  <2> HIDE DEF f
  <2>7. QED
    BY <1>3, <2>1, <2>5, <2>6, NormWrites
<1>4. CASE norm[n].phase = "linked" /\ Link(n, Receipt, norm[n].receipt, ReceiptData, "published")
  <2> DEFINE f == [inode |-> norm[n].receipt, stamp |-> norm[n].receipt, data |-> ReceiptData]
  <2>1. /\ ~Exists(Receipt) /\ file' = [file EXCEPT ![Receipt] = f]
        /\ To(n, "published") /\ UNCHANGED clock
    BY <1>4 DEF Link
  <2>2. /\ norm'[n].phase = "published" /\ norm'[n].artifact = norm[n].artifact
        /\ norm'[n].receipt = norm[n].receipt
        /\ \A o \in Normalizers \ {n} : norm'[o] = norm[o]
        /\ file'[Receipt].inode = norm[n].receipt
        /\ file'[Destination] = file[Destination]
    BY <1>1, <2>1 DEF To, NormFields
  <2>3. \A o \in Normalizers : norm[o].phase \notin {"published", "returned"}
    BY <1>2, <2>1, AbsentFields DEF Exists, Linked
  <2>4. /\ norm'[n].artifact # 0 /\ file'[Destination].inode = norm'[n].artifact
        /\ file'[Destination].data = Derived /\ norm'[n].receipt = file'[Receipt].inode
    BY <1>2, <1>4, <2>2 DEF Linked
  <2>5. PublishedOK'
    <3>1. ASSUME NEW o \in Normalizers
          PROVE  /\ Linked(o)' => file'[Destination].inode = norm'[o].artifact /\ file'[Destination].data = Derived
                 /\ norm'[o].phase \in {"published", "returned"} => file'[Receipt].inode = norm'[o].receipt
      <4>1. CASE o = n
        BY <2>2, <2>4, <4>1
      <4>2. CASE o # n
        BY <1>2, <2>2, <2>3, <4>2 DEF Linked
      <4>3. QED
        BY <4>1, <4>2
    <3>2. QED
      BY <2>2, <2>4, <3>1 DEF PublishedOK
  <2>6. f.inode = norm[n].receipt /\ f.stamp = norm[n].receipt /\ DOMAIN f = FileFields
    BY DEF FileFields
  <2> HIDE DEF f
  <2>7. QED
    BY <1>4, <2>1, <2>5, <2>6, NormWrites
<1>5. QED
  BY <1>3, <1>4

(* A run takes back what it linked, and nothing of another run.            *)
LEMMA NormUndoes ==
  ASSUME StoreInv, NEW n \in Normalizers, UndoReceipt(n) \/ UndoArtifact(n), UNCHANGED <<draft, doc, pin, store>>
  PROVE  StoreInv'
<1>1. /\ DOMAIN norm = Normalizers /\ DOMAIN norm[n] = NormFields /\ DOMAIN file = Paths
      /\ Destination \in Paths /\ Receipt \in Paths /\ Destination # Receipt
      /\ Undoes(n) /\ norm[n].artifact # 0 /\ norm[n].receipt # 0 /\ UNCHANGED clock
  BY NormalizationAssumption DEF StoreInv, NormOK, FilesOK, UndoReceipt, UndoArtifact, Undoes
<1>2. \A o \in Normalizers :
        /\ Linked(o) => /\ norm[o].artifact # 0 /\ norm[o].receipt # 0
                        /\ file[Destination].inode = norm[o].artifact /\ file[Destination].data = Derived
        /\ norm[o].phase \in {"published", "returned"} => file[Receipt].inode = norm[o].receipt
        /\ o # n => norm[o].artifact # norm[n].artifact /\ norm[o].receipt # norm[n].receipt
  BY <1>1 DEF StoreInv, NormOK, PublishedOK
<1>3. CASE UndoReceipt(n)
  <2> DEFINE f == IF file[Receipt].inode = norm[n].receipt THEN Absent ELSE file[Receipt]
  <2>1. To(n, "undo artifact") /\ file' = [file EXCEPT ![Receipt] = f]
    BY <1>3 DEF UndoReceipt, UnlinkIfOwned
  <2>2. /\ norm'[n].phase = "undo artifact" /\ \A o \in Normalizers \ {n} : norm'[o] = norm[o]
        /\ file'[Receipt] = f /\ file'[Destination] = file[Destination]
    BY <1>1, <2>1 DEF To, NormFields
  <2>3. ASSUME NEW o \in Normalizers
        PROVE  /\ Linked(o)' => file'[Destination].inode = norm'[o].artifact /\ file'[Destination].data = Derived
               /\ norm'[o].phase \in {"published", "returned"} => file'[Receipt].inode = norm'[o].receipt
    BY <1>2, <2>2 DEF Linked
  <2>4. ASSUME Exists(Receipt)'
        PROVE  \E o \in Normalizers :
                 /\ norm'[o].phase \in {"published", "returned", "undo receipt", "crashed"}
                 /\ norm'[o].receipt = file'[Receipt].inode
                 /\ norm'[o].artifact # 0 /\ norm'[o].artifact = file'[Destination].inode
                 /\ file'[Destination].data = Derived
    <3>1. file'[Receipt] = file[Receipt] /\ file[Receipt].inode # norm[n].receipt /\ Exists(Receipt)
      BY <2>2, <2>4 DEF Exists
    <3>2. PICK o \in Normalizers :
            /\ norm[o].phase \in {"published", "returned", "undo receipt", "crashed"}
            /\ norm[o].receipt = file[Receipt].inode
            /\ norm[o].artifact # 0 /\ norm[o].artifact = file[Destination].inode
            /\ file[Destination].data = Derived
      BY <3>1 DEF StoreInv, PublishedOK
    <3>3. norm'[o] = norm[o]
      BY <2>2, <3>1, <3>2
    <3>4. QED
      BY <2>2, <3>1, <3>2, <3>3
  <2>5. PublishedOK'
    BY <2>3, <2>4 DEF PublishedOK
  <2>6. f \in {Absent, file[Receipt]} /\ DOMAIN f = FileFields
    BY <1>1, AbsentFields DEF StoreInv, FilesOK
  <2> HIDE DEF f
  <2>7. QED
    BY <1>1, <2>1, <2>5, <2>6, NormWrites
<1>4. CASE UndoArtifact(n)
  <2> DEFINE f == IF file[Destination].inode = norm[n].artifact THEN Absent ELSE file[Destination]
  <2>1. To(n, "failed") /\ file' = [file EXCEPT ![Destination] = f] /\ norm[n].phase = "undo artifact"
    BY <1>4 DEF UndoArtifact, UnlinkIfOwned
  <2>2. /\ norm'[n].phase = "failed" /\ \A o \in Normalizers \ {n} : norm'[o] = norm[o]
        /\ file'[Destination] = f /\ file'[Receipt] = file[Receipt]
    BY <1>1, <2>1 DEF To, NormFields
  <2>3. ASSUME NEW o \in Normalizers
        PROVE  /\ Linked(o)' => file'[Destination].inode = norm'[o].artifact /\ file'[Destination].data = Derived
               /\ norm'[o].phase \in {"published", "returned"} => file'[Receipt].inode = norm'[o].receipt
    BY <1>2, <2>2 DEF Linked
  <2>4. ASSUME Exists(Receipt)'
        PROVE  \E o \in Normalizers :
                 /\ norm'[o].phase \in {"published", "returned", "undo receipt", "crashed"}
                 /\ norm'[o].receipt = file'[Receipt].inode
                 /\ norm'[o].artifact # 0 /\ norm'[o].artifact = file'[Destination].inode
                 /\ file'[Destination].data = Derived
    <3>1. Exists(Receipt)
      BY <2>2, <2>4 DEF Exists
    <3>2. PICK o \in Normalizers :
            /\ norm[o].phase \in {"published", "returned", "undo receipt", "crashed"}
            /\ norm[o].receipt = file[Receipt].inode
            /\ norm[o].artifact # 0 /\ norm[o].artifact = file[Destination].inode
            /\ file[Destination].data = Derived
      BY <3>1 DEF StoreInv, PublishedOK
    <3>3. o # n /\ norm'[o] = norm[o] /\ norm[o].artifact # norm[n].artifact
      BY <1>2, <2>1, <2>2, <3>2
    <3>4. file'[Destination] = file[Destination]
      BY <2>2, <3>2, <3>3
    <3>5. QED
      BY <2>2, <3>2, <3>3, <3>4
  <2>5. PublishedOK'
    BY <2>3, <2>4 DEF PublishedOK
  <2>6. f \in {Absent, file[Destination]} /\ DOMAIN f = FileFields
    BY <1>1, AbsentFields DEF StoreInv, FilesOK
  <2> HIDE DEF f
  <2>7. QED
    BY <1>1, <2>1, <2>5, <2>6, NormWrites
<1>5. QED
  BY <1>3, <1>4

LEMMA NormStays ==
  ASSUME StoreInv, NEW n \in Normalizers, NormStep(n), UNCHANGED <<draft, doc, pin, store>>
  PROVE  StoreInv'
BY NormQuiet, NormLinks, NormUndoes DEF NormStep, LinkArtifact, LinkReceipt

-----------------------------------------------------------------------------
(* Sources that others change.                                             *)

LEMMA EditStays ==
  ASSUME StoreInv, NEW p \in DOMAIN EditData, Edit(p) \/ Rewrite(p)
  PROVE  StoreInv'
<1>0. /\ clock \in Nat /\ clock' = clock + 1 /\ DOMAIN file = Paths /\ p \in Paths
      /\ p # Destination /\ p # Receipt /\ UNCHANGED <<norm, draft, doc, pin, store>>
      /\ \A q \in Paths : Given(file[q]) /\ DOMAIN file[q] = FileFields
  BY StoreAssumption DEF StoreInv, FilesOK, Edit, Rewrite
<1>1. /\ DOMAIN file' = Paths /\ \A q \in Paths \ {p} : file'[q] = file[q]
      /\ DOMAIN file'[p] = FileFields
      /\ \/ file'[p] = Absent
         \/ file'[p].stamp = clock' /\ file'[p].inode \in 1..clock'
  <2>1. CASE Edit(p)
    <3>1. PICK data : file' = [file EXCEPT ![p] = IF data = NoData THEN Absent
                                 ELSE [inode |-> clock + 1, stamp |-> clock + 1, data |-> data]]
      BY <2>1 DEF Edit
    <3>2. \/ file'[p] = Absent
          \/ file'[p] = [inode |-> clock + 1, stamp |-> clock + 1, data |-> data]
      BY <1>0, <3>1
    <3>3. QED
      BY <1>0, <3>1, <3>2, AbsentFields DEF FileFields
  <2>2. CASE Rewrite(p)
    <3>1. PICK data : file' = [file EXCEPT ![p].stamp = clock + 1, ![p].data = data]
      BY <2>2 DEF Rewrite
    <3>2. file[p].inode \in 1..clock'
      <4>1. Given(file[p]) /\ file[p] # Absent
        BY <1>0, <2>2 DEF Rewrite, Exists
      <4>2. file[p].inode \in 1..clock
        BY <4>1 DEF Given
      <4>3. QED
        BY <1>0, <4>2
    <3>3. QED
      BY <1>0, <3>1, <3>2 DEF FileFields
  <2>3. QED
    BY <2>1, <2>2
<1>2. ASSUME NEW q \in Paths
      PROVE  Given(file[q])' /\ DOMAIN file'[q] = FileFields
  <2>1. CASE q = p
    BY <1>0, <1>1, <2>1 DEF Given
  <2>2. CASE q # p
    BY <1>0, <1>1, <2>2, GivenStays DEF Given
  <2>3. QED
    BY <2>1, <2>2
<1>3. FilesOK'
  BY <1>0, <1>1, <1>2 DEF FilesOK
<1>4. ASSUME NEW n \in Normalizers
      PROVE  norm[n].artifact \in 0..clock /\ norm[n].receipt \in 0..clock
  BY DEF StoreInv, NormOK
<1>5. NormOK'
  <2>1. \A n \in Normalizers : norm'[n].artifact \in 0..clock' /\ norm'[n].receipt \in 0..clock'
    BY <1>0, <1>4
  <2>2. QED
    BY <1>0, <2>1 DEF StoreInv, NormOK, HasArtifact, HasReceipt, Linked, Undoes
<1>6. ASSUME NEW i \in 1..clock, Unseen(i)
      PROVE  \A q \in Paths : file'[q].stamp # i
  BY <1>0, <1>1, <1>6, AbsentFields DEF Unseen
<1>7. UnseenOK'
  <2>1. ASSUME NEW n \in Normalizers, HasArtifact(n)
        PROVE  Unseen(norm[n].artifact)'
    <3>1. Unseen(norm[n].artifact) /\ norm[n].artifact \in 1..clock
      BY <1>0, <1>4, <2>1 DEF StoreInv, UnseenOK, NormOK
    <3>2. \A q \in Paths : file'[q].stamp # norm[n].artifact
      BY <1>6, <3>1
    <3>3. QED
      BY <1>0, <3>1, <3>2 DEF Unseen
  <2>2. ASSUME NEW n \in Normalizers, HasReceipt(n)
        PROVE  Unseen(norm[n].receipt)'
    <3>1. Unseen(norm[n].receipt) /\ norm[n].receipt \in 1..clock
      BY <1>0, <1>4, <2>2 DEF StoreInv, UnseenOK, NormOK
    <3>2. \A q \in Paths : file'[q].stamp # norm[n].receipt
      BY <1>6, <3>1
    <3>3. QED
      BY <1>0, <3>1, <3>2 DEF Unseen
  <2>3. QED
    BY <1>0, <2>1, <2>2 DEF UnseenOK, HasArtifact, HasReceipt
<1>8. PublishedOK'
  <2>1. file'[Destination] = file[Destination] /\ file'[Receipt] = file[Receipt]
    BY <1>0, <1>1, NormalizationAssumption
  <2>2. QED
    BY <1>0, <2>1 DEF StoreInv, PublishedOK, Linked, Exists
<1>9. \A q \in Paths : \/ file'[q] = file[q]
                       \/ file'[q] = Absent
                       \/ \A k \in 1..Len(draft.head) : draft.head[k].stamp # file'[q].stamp
  <2>1. \A k \in 1..Len(draft.head) : draft.head[k].stamp # clock'
    BY <1>0 DEF StoreInv, DraftOK, Given
  <2>2. QED
    BY <1>1, <2>1
<1>10. QED
  BY <1>0, <1>3, <1>5, <1>7, <1>8, <1>9, DraftStays, PinsStay DEF StoreInv

-----------------------------------------------------------------------------
(* The draft.                                                              *)

(* A step of the draft command; it may only write a document that nobody   *)
(* has used yet.                                                           *)
LEMMA DraftUpdate ==
  ASSUME StoreInv, UNCHANGED <<file, clock, norm, pin, store>>, DraftOK', DocOK',
         \A k \in 1..Len(draft'.head) : \/ k \in 1..Len(draft.head) /\ draft'.head[k] = draft.head[k]
                                        \/ \E q \in Paths : draft'.head[k] = file[q],
         doc' = doc \/ doc.state # "whole"
  PROVE  StoreInv'
<1>1. UnseenOK'
  BY DEF StoreInv, UnseenOK, Unseen, HasArtifact, HasReceipt
<1>2. PinsOK' /\ StoreOK'
  <2>1. CASE doc' = doc
    BY <2>1, PinsStay
  <2>2. CASE doc.state # "whole"
    <3>1. \A a \in Addresses : store[a] = "absent"
      BY <2>2 DEF StoreInv, StoreOK
    <3>2. \A k \in Pinners : ~Owns(k) /\ pin[k].phase \notin {"hashing", "returned"}
      BY <2>2, <3>1 DEF StoreInv, PinsOK, Owns
    <3>3. QED
      BY <3>1, <3>2 DEF StoreInv, PinsOK, StoreOK, Owns
  <2>3. QED
    BY <2>1, <2>2
<1>3. FilesOK' /\ NormOK' /\ PublishedOK'
  BY DEF StoreInv, FilesOK, NormOK, PublishedOK, Given, HasArtifact, HasReceipt, Linked, Undoes, Exists
<1>4. QED
  BY <1>1, <1>2, <1>3 DEF StoreInv

DraftFields == {"phase", "input", "head", "ids"}

(* What is unchanged since it was opened was read as it was opened.        *)
LEMMA UnchangedIsWhole ==
  ASSUME DraftOK, draft.phase = "read", Unchanged(draft)
  PROVE  draft.ids = Heads(draft)
<1>1. \A k \in 1..Len(draft.head) : draft.ids[k] = draft.head[k].data
  BY DEF DraftOK, Unchanged
<1>2. draft.ids = [k \in 1..Len(draft.head) |-> draft.ids[k]]
  BY DEF DraftOK
<1>3. [k \in 1..Len(draft.head) |-> draft.ids[k]] = Heads(draft)
  BY <1>1 DEF Heads
<1>4. QED
  BY <1>2, <1>3

LEMMA DocumentDescribes ==
  ASSUME NEW input, NEW ids, Draftable(Whole(ids))
  PROVE  /\ Document(input, ids, Whole(ids)).state = "whole"
         /\ Document(input, ids, Whole(ids)).ids = ids
         /\ \E t \in Templates :
              /\ Observable(Whole(ids)) /\ DraftsAs(Whole(ids), t)
              /\ Document(input, ids, Whole(ids)).candidate = Candidate(Whole(ids), t)
              /\ Document(input, ids, Whole(ids)).nearest = Nearest(t)
<1> DEFINE c == Whole(ids)
<1>1. PICK t \in Templates : DraftsAs(c, t) /\ Observable(c)
  BY DEF Draftable
<1>2. Matching(c) = {t}
  BY <1>1 DEF DraftsAs
<1>3. (CHOOSE u \in Matching(c) : TRUE) = t
  BY <1>2
<1> HIDE DEF c
<1>4. Document(input, ids, c) = [state |-> "whole", input |-> input, ids |-> ids,
                                 candidate |-> Candidate(c, t), nearest |-> Nearest(t)]
  BY <1>3 DEF Document
<1>5. QED
  BY <1>1, <1>4 DEF c

(* A draft that only moves its phase, or is refused.                       *)
LEMMA DraftMoves ==
  ASSUME StoreInv, UNCHANGED <<file, clock, norm, doc, pin, store>>, NEW phase,
         draft' = [draft EXCEPT !.phase = phase], draft.phase # "idle",
         phase \in {"opened", "refused"}
         \/ /\ phase = "built" /\ draft.ids = Heads(draft) /\ Draftable(Whole(Heads(draft)))
  PROVE  StoreInv'
<1>1. /\ DOMAIN draft' = DraftFields /\ draft'.phase = phase /\ draft'.input = draft.input
      /\ draft'.head = draft.head /\ draft'.ids = draft.ids
  BY DEF StoreInv, DraftOK, DraftFields
<1>2. Heads(draft') = Heads(draft)
  BY <1>1 DEF Heads
<1>3. DraftOK'
  BY <1>1, <1>2 DEF StoreInv, DraftOK, DraftFields, Given
<1>4. DocOK'
  BY DEF StoreInv, DocOK, Describes
<1>5. QED
  BY <1>1, <1>3, <1>4, DraftUpdate

LEMMA DraftOpens ==
  ASSUME StoreInv, DraftStart \/ DraftOpen, UNCHANGED <<norm, pin, store>>
  PROVE  StoreInv'
<1>0. /\ DOMAIN draft = DraftFields /\ draft.head \in Seq(Range(draft.head)) /\ Len(draft.head) \in Nat
      /\ UNCHANGED <<file, clock, doc>>
      /\ \A k \in 1..Len(draft.head) : Given(draft.head[k]) /\ draft.head[k] # Absent
  <2>1. DraftOK
    BY DEF StoreInv
  <2>2. /\ DOMAIN draft = DraftFields /\ draft.head \in Seq(Range(draft.head))
        /\ \A k \in 1..Len(draft.head) : Given(draft.head[k]) /\ draft.head[k] # Absent
    BY <2>1 DEF DraftOK, DraftFields
  <2>3. Len(draft.head) \in Nat
    BY <2>2
  <2>4. UNCHANGED <<file, clock, doc>>
    BY DEF DraftStart, DraftOpen
  <2>5. QED
    BY <2>2, <2>3, <2>4
<1>1. DocOK'
  BY <1>0 DEF StoreInv, DocOK, Describes
<1>2. CASE DraftStart
  <2>1. PICK input \in ScanInputs :
          draft' = [draft EXCEPT !.phase = IF Resolvable(input) THEN "opening" ELSE "refused", !.input = input]
    BY <1>2 DEF DraftStart
  <2>2. /\ DOMAIN draft' = DraftFields /\ draft'.phase \in {"opening", "refused"}
        /\ draft'.input = input /\ draft'.head = draft.head
    BY <1>0, <2>1 DEF DraftFields
  <2>3. draft.head = <<>>
    BY <1>2 DEF DraftStart, StoreInv, DraftOK
  <2>4. Len(draft.head) <= Len(input.paths)
    <3>1. input.paths \in Seq(Paths)
      BY StoreAssumption
    <3>2. Len(input.paths) \in Nat /\ Len(<<>>) = 0
      BY <3>1
    <3>3. QED
      BY <2>3, <3>2
  <2>5. DraftOK'
    BY <1>0, <2>2, <2>4 DEF DraftOK, DraftFields, Given
  <2>6. QED
    BY <1>0, <1>1, <2>2, <2>5, DraftUpdate
<1>3. CASE DraftOpen
  <2>0. draft.phase = "opening" /\ draft.input \in ScanInputs /\ Len(draft.head) <= Len(draft.input.paths)
    BY <1>3 DEF DraftOpen, StoreInv, DraftOK
  <2>1. CASE ~Opened(draft) /\ CanOpen(draft)
    <3> DEFINE q == draft.input.paths[Len(draft.head) + 1]
    <3>1. draft' = [draft EXCEPT !.head = Append(@, file[q])]
      BY <1>3, <2>1 DEF DraftOpen, OpenNext
    <3>2. draft.input.paths \in Seq(Paths) /\ Len(draft.head) + 1 <= Len(draft.input.paths)
      BY <1>0, <2>0, <2>1, StoreAssumption DEF Opened
    <3>3. q \in Paths
      BY <1>0, <3>2
    <3>4. Given(file[q]) /\ file[q] # Absent
      BY <2>1, <3>3 DEF StoreInv, FilesOK, CanOpen, Exists
    <3> HIDE DEF q
    <3>5. /\ DOMAIN draft' = DraftFields /\ draft'.phase = "opening" /\ draft'.input = draft.input
          /\ draft'.head = Append(draft.head, file[q])
      BY <1>0, <2>0, <3>1 DEF DraftFields
    <3>6. /\ draft'.head \in Seq(Range(draft'.head)) /\ Len(draft'.head) = Len(draft.head) + 1
          /\ \A k \in 1..Len(draft.head) : draft'.head[k] = draft.head[k]
          /\ draft'.head[Len(draft.head) + 1] = file[q]
      BY <1>0, <3>5, AppendRange
    <3>7. \A k \in 1..Len(draft'.head) : k \in 1..Len(draft.head) \/ k = Len(draft.head) + 1
      BY <1>0, <3>6
    <3>8. ASSUME NEW k \in 1..Len(draft'.head)
          PROVE  Given(draft'.head[k]) /\ draft'.head[k] # Absent
      BY <1>0, <3>4, <3>6, <3>7
    <3>9. DraftOK'
      BY <1>0, <2>0, <3>2, <3>5, <3>6, <3>8 DEF DraftOK, DraftFields, Given
    <3>10. QED
      BY <1>0, <1>1, <3>3, <3>6, <3>7, <3>9, DraftUpdate
  <2>2. CASE ~(~Opened(draft) /\ CanOpen(draft))
    <3>1. PICK phase \in {"opened", "refused"} : draft' = [draft EXCEPT !.phase = phase]
      BY <1>3, <2>2 DEF DraftOpen
    <3>2. QED
      BY <1>0, <2>0, <3>1, DraftMoves
  <2>3. QED
    BY <2>1, <2>2
<1>4. QED
  BY <1>2, <1>3

LEMMA DraftReads ==
  ASSUME StoreInv, DraftRead \/ DraftBuild, UNCHANGED <<norm, pin, store>>
  PROVE  StoreInv'
<1>0. UNCHANGED <<file, clock, doc>> /\ DraftOK /\ DOMAIN draft = DraftFields
  BY DEF StoreInv, DraftOK, DraftFields, DraftRead, DraftBuild
<1>1. CASE DraftRead
  <2> DEFINE ids == HeldNow(draft)
  <2>1. draft' = [draft EXCEPT !.phase = "read", !.ids = ids] /\ draft.phase = "opened"
    BY <1>1 DEF DraftRead
  <2>2. /\ ids = [k \in 1..Len(draft.head) |-> ids[k]]
        /\ \A k \in 1..Len(draft.head) :
             file[draft.input.paths[k]] = draft.head[k] => ids[k] = draft.head[k].data
    BY DEF HeldNow, HeldData
  <2> HIDE DEF ids
  <2>3. /\ DOMAIN draft' = DraftFields /\ draft'.phase = "read" /\ draft'.input = draft.input
        /\ draft'.head = draft.head /\ draft'.ids = ids
    BY <1>0, <2>1 DEF DraftFields
  <2>4. DraftOK'
    BY <1>0, <2>1, <2>2, <2>3 DEF DraftOK, DraftFields, Given
  <2>5. DocOK'
    BY <1>0 DEF StoreInv, DocOK, Describes
  <2>6. QED
    BY <1>0, <2>3, <2>4, <2>5, DraftUpdate
<1>2. CASE DraftBuild
  <2>1. draft.phase = "read"
    BY <1>2 DEF DraftBuild
  <2>2. CASE Draftable(Checkpoint(Heads(draft), draft.ids)) /\ Unchanged(draft)
    <3>1. draft' = [draft EXCEPT !.phase = "built"]
      BY <1>2, <2>2 DEF DraftBuild
    <3>2. draft.ids = Heads(draft)
      BY <1>0, <2>1, <2>2, UnchangedIsWhole
    <3>3. Draftable(Whole(Heads(draft)))
      BY <2>2, <3>2 DEF Whole
    <3>4. QED
      BY <1>0, <2>1, <3>1, <3>2, <3>3, DraftMoves
  <2>3. CASE ~(Draftable(Checkpoint(Heads(draft), draft.ids)) /\ Unchanged(draft))
    <3>1. draft' = [draft EXCEPT !.phase = "refused"]
      BY <1>2, <2>3 DEF DraftBuild
    <3>2. QED
      BY <1>0, <2>1, <3>1, DraftMoves
  <2>4. QED
    BY <2>2, <2>3
<1>3. QED
  BY <1>1, <1>2

LEMMA DraftWrites ==
  ASSUME StoreInv, DraftCreate \/ DraftWrite, UNCHANGED <<norm, pin, store>>
  PROVE  StoreInv'
<1>0. UNCHANGED <<file, clock>> /\ DraftOK /\ DOMAIN draft = DraftFields
  BY DEF StoreInv, DraftOK, DraftFields, DraftCreate, DraftWrite
<1>1. CASE DraftCreate
  <2>1. /\ draft' = [draft EXCEPT !.phase = "writing"] /\ draft.phase = "built"
        /\ doc.state = "none" /\ doc' = [state |-> "partial"]
    BY <1>1 DEF DraftCreate
  <2>2. doc'.state = "partial"
    BY <2>1
  <2>3. /\ DOMAIN draft' = DraftFields /\ draft'.phase = "writing" /\ draft'.input = draft.input
        /\ draft'.head = draft.head /\ draft'.ids = draft.ids
    BY <1>0, <2>1 DEF DraftFields
  <2>4. Heads(draft') = Heads(draft)
    BY <2>3 DEF Heads
  <2>5. DraftOK'
    BY <1>0, <2>1, <2>2, <2>3, <2>4 DEF DraftOK, DraftFields, Given
  <2>6. DocOK'
    BY <2>2 DEF DocOK
  <2>7. QED
    BY <1>0, <2>1, <2>3, <2>5, <2>6, DraftUpdate
<1>2. CASE DraftWrite
  <2>1. draft.phase = "writing" /\ draft' = Idle
    BY <1>2 DEF DraftWrite
  <2>2. /\ doc.state = "partial" /\ draft.ids = Heads(draft) /\ Draftable(Whole(Heads(draft)))
    BY <1>0, <2>1 DEF DraftOK
  <2>3. /\ DOMAIN draft' = DraftFields /\ draft'.phase = "idle" /\ draft'.head = <<>>
        /\ Len(draft'.head) = 0 /\ draft'.head \in Seq(Range(draft'.head))
    <3>1. \A S : <<>> \in Seq(S)
      OBVIOUS
    <3>2. DOMAIN draft' = DraftFields /\ draft'.phase = "idle" /\ draft'.head = <<>>
      BY <2>1 DEF Idle, DraftFields
    <3>3. Len(draft'.head) = 0
      BY <3>2
    <3>4. draft'.head \in Seq(Range(draft'.head))
      BY <3>1, <3>2, Zenon
    <3>5. QED
      BY <3>2, <3>3, <3>4
  <2>4. DraftOK'
    BY <2>3 DEF DraftOK, DraftFields
  <2>5. CASE doc' = doc
    <3>1. DocOK'
      BY <2>5 DEF StoreInv, DocOK, Describes
    <3>2. QED
      BY <1>0, <2>3, <2>4, <2>5, <3>1, DraftUpdate
  <2>6. CASE doc' = Document(draft.input, Heads(draft), Whole(Heads(draft)))
    <3>1. DocOK'
      BY <2>2, <2>6, DocumentDescribes DEF DocOK, Describes
    <3>2. QED
      BY <1>0, <2>2, <2>3, <2>4, <3>1, DraftUpdate
  <2>7. QED
    BY <1>2, <2>2, <2>5, <2>6 DEF DraftWrite, Whole
<1>3. QED
  BY <1>1, <1>2

LEMMA DraftStepStays ==
  ASSUME StoreInv, DraftNext
  PROVE  StoreInv'
BY DraftOpens, DraftReads, DraftWrites
   DEF DraftNext, DraftStart, DraftOpen, DraftRead, DraftBuild, DraftCreate, DraftWrite

-----------------------------------------------------------------------------
(* The pins.                                                               *)

LEMMA FilesStay ==
  ASSUME StoreInv, UNCHANGED <<file, clock, norm, draft>>
  PROVE  FilesOK' /\ NormOK' /\ UnseenOK' /\ PublishedOK'
<1>1. FilesOK'
  BY DEF StoreInv, FilesOK, Given
<1>2. NormOK'
  BY DEF StoreInv, NormOK, HasArtifact, HasReceipt, Linked, Undoes
<1>3. UnseenOK'
  BY DEF StoreInv, UnseenOK, Unseen, HasArtifact, HasReceipt
<1>4. PublishedOK'
  BY DEF StoreInv, PublishedOK, Linked, Exists
<1>5. QED
  BY <1>1, <1>2, <1>3, <1>4

(* A step of pin k that touches the snapshots no other pin owns.           *)
LEMMA PinUpdate ==
  ASSUME StoreInv, NEW k \in Pinners, UNCHANGED <<file, clock, norm, draft, doc>>,
         DOMAIN pin' = Pinners, DOMAIN pin'[k] = PinFields, \A j \in Pinners \ {k} : pin'[j] = pin[j],
         pin'[k].phase = "hashing" =>
           /\ pin'[k].name \in Names /\ pin'[k].enforce \in BOOLEAN
           /\ doc.state = "whole" /\ Pinnable(doc.candidate),
         DOMAIN store' = Addresses,
         \A a \in Addresses : \/ store'[a] = store[a]
                              \/ \A j \in Pinners \ {k} : Owns(j) => pin[j].address # a,
         \A a \in Addresses : store'[a] # "absent" =>
           \/ store[a] # "absent"
           \/ /\ doc.state = "whole" /\ Pinnable(doc.candidate)
              /\ \E enforce \in BOOLEAN : a[2] \in Decisions(doc.candidate, doc.nearest, enforce),
         Owns(k)' => /\ pin'[k].address \in Addresses /\ store'[pin'[k].address] # "absent"
                     /\ \A j \in Pinners \ {k} : Owns(j) => pin[j].address # pin'[k].address,
         pin'[k].phase = "returned" => store'[pin'[k].address] = "whole"
  PROVE  StoreInv'
<1>1. DraftOK' /\ DocOK'
  BY DraftStays DEF StoreInv, FilesOK
<1>2. FilesOK' /\ NormOK' /\ UnseenOK' /\ PublishedOK'
  BY FilesStay
<1>3. StoreOK'
  <2>1. ASSUME NEW a \in Addresses, store'[a] # "absent"
        PROVE  /\ doc.state = "whole" /\ Pinnable(doc.candidate)
               /\ \E enforce \in BOOLEAN : a[2] \in Decisions(doc.candidate, doc.nearest, enforce)
    <3>1. CASE store[a] # "absent"
      BY <3>1 DEF StoreInv, StoreOK
    <3>2. CASE store[a] = "absent"
      BY <2>1, <3>2, Zenon
    <3>3. QED
      BY <3>1, <3>2
  <2>2. doc' = doc /\ DOMAIN store' = Addresses
    OBVIOUS
  <2>3. QED
    BY <2>1, <2>2, Zenon DEF StoreOK
<1>4. ASSUME NEW j \in Pinners
      PROVE  /\ DOMAIN pin'[j] = PinFields
             /\ pin'[j].phase = "hashing" =>
                  /\ pin'[j].name \in Names /\ pin'[j].enforce \in BOOLEAN
                  /\ doc.state = "whole" /\ Pinnable(doc.candidate)
             /\ Owns(j)' => pin'[j].address \in Addresses /\ store'[pin'[j].address] # "absent"
             /\ pin'[j].phase = "returned" => store'[pin'[j].address] = "whole"
  <2>1. CASE j = k
    BY <2>1
  <2>2. CASE j # k
    <3>1. pin'[j] = pin[j] /\ (Owns(j)' <=> Owns(j))
      BY <2>2 DEF Owns
    <3>2. Owns(j) => /\ pin[j].address \in Addresses /\ store[pin[j].address] # "absent"
                     /\ store'[pin[j].address] = store[pin[j].address]
      BY <2>2 DEF StoreInv, PinsOK
    <3>3. pin[j].phase = "returned" => Owns(j)
      BY DEF Owns
    <3>4. QED
      BY <3>1, <3>2, <3>3 DEF StoreInv, PinsOK
  <2>3. QED
    BY <2>1, <2>2
<1>5. ASSUME NEW i \in Pinners, NEW j \in Pinners, j # i, Owns(j)', Owns(i)'
      PROVE  pin'[j].address # pin'[i].address
  <2>1. CASE i = k
    BY <1>5, <2>1 DEF Owns
  <2>2. CASE j = k
    BY <1>5, <2>2 DEF Owns
  <2>3. CASE i # k /\ j # k
    BY <1>5, <2>3 DEF Owns, StoreInv, PinsOK
  <2>4. QED
    BY <2>1, <2>2, <2>3
<1>6. PinsOK'
  BY <1>4, <1>5 DEF PinsOK
<1>7. QED
  BY <1>1, <1>2, <1>3, <1>6 DEF StoreInv

(* A pin that only moves its phase, to one that owns no more.              *)
LEMMA PinRefused ==
  ASSUME StoreInv, NEW k \in Pinners, NEW phase, PinMoves(k, phase),
         UNCHANGED <<file, clock, norm, draft, doc, store>>,
         \/ phase \in {"refused", "failed", "crashed"}
         \/ phase = "written" /\ pin[k].phase = "created"
         \/ phase = "returned" /\ pin[k].phase = "written" /\ store[pin[k].address] = "whole"
  PROVE  StoreInv'
<1>1. DOMAIN pin = Pinners /\ DOMAIN pin[k] = PinFields /\ DOMAIN store = Addresses
  BY DEF StoreInv, PinsOK, StoreOK
<1>2. /\ DOMAIN pin' = Pinners /\ DOMAIN pin'[k] = PinFields
      /\ \A j \in Pinners \ {k} : pin'[j] = pin[j]
      /\ pin'[k].phase = phase /\ pin'[k].address = pin[k].address
  BY <1>1 DEF PinMoves, PinFields
<1>3. Owns(k)' => Owns(k)
  BY <1>2 DEF Owns
<1>4. Owns(k) => /\ pin[k].address \in Addresses /\ store[pin[k].address] # "absent"
                 /\ \A j \in Pinners \ {k} : Owns(j) => pin[j].address # pin[k].address
  BY DEF StoreInv, PinsOK
<1>5. QED
  BY <1>1, <1>2, <1>3, <1>4, PinUpdate

LEMMA PinHashes ==
  ASSUME StoreInv, NEW k \in Pinners, PinLoad(k) \/ PinHash(k), UNCHANGED norm
  PROVE  StoreInv'
<1>0. /\ DOMAIN pin = Pinners /\ DOMAIN pin[k] = PinFields /\ DOMAIN store = Addresses
      /\ UNCHANGED <<file, clock, draft, doc, store>>
  BY DEF StoreInv, PinsOK, StoreOK, PinLoad, PinHash
<1>1. CASE PinLoad(k)
  <2>1. PICK name \in Names, enforce \in BOOLEAN :
          pin' = [pin EXCEPT ![k] =
                    [phase |-> IF doc.state = "whole" /\ Pinnable(doc.candidate) THEN "hashing" ELSE "refused",
                     name |-> name, enforce |-> enforce, hashed |-> 0, address |-> <<>>]]
    BY <1>1 DEF PinLoad
  <2>2. /\ DOMAIN pin' = Pinners /\ DOMAIN pin'[k] = PinFields
        /\ \A j \in Pinners \ {k} : pin'[j] = pin[j]
        /\ pin'[k].phase \in {"hashing", "refused"}
        /\ pin'[k].phase = "hashing" => doc.state = "whole" /\ Pinnable(doc.candidate)
        /\ pin'[k].name = name /\ pin'[k].enforce = enforce
    BY <1>0, <2>1 DEF PinFields
  <2>3. ~Owns(k)' /\ pin'[k].phase # "returned"
    BY <2>2 DEF Owns
  <2>4. QED
    BY <1>0, <2>2, <2>3, PinUpdate
<1>2. CASE PinHash(k)
  <2>1. CASE PinMoves(k, "refused")
    BY <1>0, <2>1, PinRefused
  <2>2. CASE pin' = [pin EXCEPT ![k].hashed = pin[k].hashed + 1]
    <3>1. pin[k].phase = "hashing"
      BY <1>2 DEF PinHash
    <3>2. /\ DOMAIN pin' = Pinners /\ DOMAIN pin'[k] = PinFields
          /\ \A j \in Pinners \ {k} : pin'[j] = pin[j]
          /\ pin'[k].phase = "hashing" /\ pin'[k].name = pin[k].name /\ pin'[k].enforce = pin[k].enforce
      BY <1>0, <2>2, <3>1 DEF PinFields
    <3>3. ~Owns(k)'
      BY <3>2 DEF Owns
    <3>4. /\ pin[k].name \in Names /\ pin[k].enforce \in BOOLEAN
          /\ doc.state = "whole" /\ Pinnable(doc.candidate)
      BY <3>1 DEF StoreInv, PinsOK
    <3>5. QED
      BY <1>0, <3>2, <3>3, <3>4, PinUpdate
  <2>3. QED
    BY <1>2, <2>1, <2>2 DEF PinHash
<1>3. QED
  BY <1>1, <1>2

LEMMA PinCreates ==
  ASSUME StoreInv, NEW k \in Pinners, PinCreate(k), UNCHANGED norm
  PROVE  StoreInv'
<1> DEFINE decisions == Decisions(doc.candidate, doc.nearest, pin[k].enforce)
<1>0. /\ DOMAIN pin = Pinners /\ DOMAIN pin[k] = PinFields /\ DOMAIN store = Addresses
      /\ UNCHANGED <<file, clock, draft, doc>> /\ pin[k].phase = "hashing"
      /\ pin[k].name \in Names /\ pin[k].enforce \in BOOLEAN
      /\ doc.state = "whole" /\ Pinnable(doc.candidate)
  BY DEF StoreInv, PinsOK, StoreOK, PinCreate
<1>1. CASE PinMoves(k, "refused") /\ UNCHANGED store
  BY <1>0, <1>1, PinRefused
<1>2. CASE ~(PinMoves(k, "refused") /\ UNCHANGED store)
  <2>1. PICK d \in decisions :
          /\ store[<<pin[k].name, d>>] = "absent"
          /\ store' = [store EXCEPT ![<<pin[k].name, d>>] = "partial"]
          /\ pin' = [pin EXCEPT ![k].phase = "created", ![k].address = <<pin[k].name, d>>]
    BY <1>2 DEF PinCreate
  <2>2. d \in {"inherited-enforced-pin", "observed-frozen", "census-only"}
    BY <2>1 DEF Decisions
  <2> DEFINE address == <<pin[k].name, d>>
  <2>3. address \in Addresses /\ address[2] = d
    BY <1>0, <2>2 DEF Addresses
  <2>4. address[2] \in decisions
    BY <2>3
  <2>5. /\ store[address] = "absent" /\ store' = [store EXCEPT ![address] = "partial"]
        /\ pin' = [pin EXCEPT ![k].phase = "created", ![k].address = address]
    BY <2>1
  <2> HIDE DEF address
  <2>6. /\ DOMAIN pin' = Pinners /\ DOMAIN pin'[k] = PinFields
        /\ \A j \in Pinners \ {k} : pin'[j] = pin[j]
        /\ pin'[k].phase = "created" /\ pin'[k].address = address
    BY <1>0, <2>5 DEF PinFields
  <2>7. /\ DOMAIN store' = Addresses /\ store'[address] = "partial"
        /\ \A a \in Addresses \ {address} : store'[a] = store[a]
    BY <1>0, <2>3, <2>5
  <2>8. \A j \in Pinners \ {k} : Owns(j) => pin[j].address # address
    BY <2>5 DEF StoreInv, PinsOK
  <2>9. QED
    BY <1>0, <2>3, <2>4, <2>6, <2>7, <2>8, PinUpdate
<1>3. QED
  BY <1>1, <1>2

LEMMA PinWrites ==
  ASSUME StoreInv, NEW k \in Pinners, PinWrite(k) \/ PinVerify(k), UNCHANGED norm
  PROVE  StoreInv'
<1> DEFINE address == pin[k].address
<1>0. /\ DOMAIN pin = Pinners /\ DOMAIN pin[k] = PinFields /\ DOMAIN store = Addresses
      /\ UNCHANGED <<file, clock, draft, doc>> /\ pin[k].phase \in {"created", "written"}
      /\ address \in Addresses /\ store[address] # "absent"
      /\ \A j \in Pinners \ {k} : Owns(j) => pin[j].address # address
  BY DEF StoreInv, PinsOK, StoreOK, PinWrite, PinVerify, Owns
<1>1. ASSUME NEW phase \in {"written", "failed"}, PinMoves(k, phase),
             \/ store' = [store EXCEPT ![address] = "whole"]
             \/ phase = "failed" /\ store' = [store EXCEPT ![address] = "absent"]
      PROVE  StoreInv'
  <2>1. /\ DOMAIN pin' = Pinners /\ DOMAIN pin'[k] = PinFields
        /\ \A j \in Pinners \ {k} : pin'[j] = pin[j]
        /\ pin'[k].phase = phase /\ pin'[k].address = address
    BY <1>0, <1>1 DEF PinMoves, PinFields
  <2> HIDE DEF address
  <2>2. /\ DOMAIN store' = Addresses /\ \A a \in Addresses \ {address} : store'[a] = store[a]
        /\ store'[address] = "whole" \/ phase = "failed"
    BY <1>0, <1>1
  <2>3. Owns(k)' => store'[address] = "whole"
    BY <2>1, <2>2 DEF Owns
  <2>4. ASSUME NEW a \in Addresses, store'[a] # "absent"
        PROVE  store[a] # "absent"
    BY <1>0, <2>2, <2>4
  <2>5. QED
    BY <1>0, <1>1, <2>1, <2>2, <2>3, <2>4, PinUpdate
<1>2. CASE PinWrite(k)
  <2>1. CASE PinMoves(k, "written") /\ store' = [store EXCEPT ![address] = "whole"]
    BY <1>1, <2>1
  <2>2. CASE PinMoves(k, "written") /\ UNCHANGED store
    BY <1>0, <1>2, <2>2, PinRefused DEF PinWrite
  <2>3. CASE PinMoves(k, "failed") /\ UNCHANGED store
    BY <1>0, <2>3, PinRefused
  <2>4. QED
    BY <1>2, <2>1, <2>2, <2>3 DEF PinWrite
<1>3. CASE PinVerify(k)
  <2>1. CASE store[address] = "whole"
    BY <1>0, <1>3, <2>1, PinRefused DEF PinVerify
  <2>2. CASE store[address] # "whole"
    <3>1. PinMoves(k, "failed") /\ store' = [store EXCEPT ![address] = "absent"]
      BY <1>3, <2>2 DEF PinVerify
    <3>2. QED
      BY <1>1, <3>1
  <2>3. QED
    BY <2>1, <2>2
<1>4. QED
  BY <1>2, <1>3

LEMMA PinStepStays ==
  ASSUME StoreInv, NEW k \in Pinners, PinNext(k), UNCHANGED norm
  PROVE  StoreInv'
<1>1. CASE CrashPinner(k)
  BY <1>1, PinRefused DEF CrashPinner
<1>2. QED
  BY <1>1, PinHashes, PinCreates, PinWrites DEF PinNext

LEMMA ExportStepStays ==
  ASSUME StoreInv, UNCHANGED <<file, clock, norm, draft, doc, pin, store>>
  PROVE  StoreInv'
<1>1. FilesOK' /\ NormOK' /\ UnseenOK' /\ PublishedOK'
  BY FilesStay
<1>2. DraftOK' /\ DocOK'
  BY DraftStays DEF StoreInv, FilesOK
<1>3. PinsOK' /\ StoreOK'
  BY PinsStay
<1>4. QED
  BY <1>1, <1>2, <1>3 DEF StoreInv

LEMMA InitialStore == StoreInit => StoreInv
<1> SUFFICES ASSUME StoreInit PROVE StoreInv
  OBVIOUS
<1>1. PICK start \in Starts :
        file = [p \in Paths |-> IF start[p] = NoData THEN Absent
                                ELSE [inode |-> 1, stamp |-> 1, data |-> start[p]]]
  BY DEF StoreInit
<1>2. /\ clock = 1 /\ draft = Idle
      /\ norm = [n \in Normalizers |-> [phase |-> "idle", source |-> Absent, prefix |-> NoData,
                                        artifact |-> 0, receipt |-> 0]]
      /\ pin = [k \in Pinners |-> [phase |-> "idle", name |-> "", enforce |-> FALSE,
                                   hashed |-> 0, address |-> <<>>]]
      /\ store = [a \in Addresses |-> "absent"]
  BY DEF StoreInit, NormInit
<1>0. 0 \in 0..clock /\ 1 \in 1..clock /\ clock \in Nat
  <2>1. clock = 1
    BY <1>2
  <2>2. QED
    BY ONLY <2>1
<1>3. FilesOK
  <2>1. ASSUME NEW p \in Paths
        PROVE  DOMAIN file[p] = FileFields /\ Given(file[p])
    <3>1. CASE file[p] = Absent
      BY <3>1, AbsentFields DEF Given
    <3>2. CASE file[p] = [inode |-> 1, stamp |-> 1, data |-> start[p]]
      <4>1. file[p].inode = 1 /\ file[p].stamp = 1 /\ DOMAIN file[p] = FileFields
        BY <3>2 DEF FileFields
      <4>2. QED
        BY <1>0, <4>1 DEF Given
    <3>3. QED
      BY <1>1, <3>1, <3>2
  <2>2. QED
    BY <1>0, <1>1, <2>1 DEF FilesOK
<1>4. /\ DOMAIN norm = Normalizers
      /\ \A n \in Normalizers : /\ DOMAIN norm[n] = NormFields /\ norm[n].phase = "idle"
                                /\ norm[n].artifact = 0 /\ norm[n].receipt = 0
  BY <1>2 DEF NormFields
<1>5. NormOK /\ UnseenOK
  <2>1. \A n \in Normalizers : ~HasArtifact(n) /\ ~HasReceipt(n) /\ ~Linked(n) /\ ~Undoes(n)
    BY <1>4 DEF HasArtifact, HasReceipt, Linked, Undoes
  <2>2. QED
    BY <1>0, <1>4, <2>1 DEF NormOK, UnseenOK
<1>6. PublishedOK
  <2>1. ~Exists(Receipt)
    BY <1>1, StoreAssumption, NormalizationAssumption DEF Exists
  <2>2. QED
    BY <1>4, <2>1 DEF PublishedOK, Linked
<1>7. DraftOK
  <2>1. \A S : <<>> \in Seq(S)
    OBVIOUS
  <2>2. draft.head = <<>> /\ draft.phase = "idle" /\ DOMAIN draft = DraftFields
    BY <1>2 DEF Idle, DraftFields
  <2>3. draft.head \in Seq(Range(draft.head))
    BY <2>1, <2>2, Zenon
  <2>4. Len(draft.head) = 0
    BY <2>2
  <2>5. QED
    BY <2>2, <2>3, <2>4 DEF DraftOK, DraftFields
<1>8. DocOK
  <2>1. CASE doc = NoDoc
    BY <2>1 DEF NoDoc, DocOK
  <2>2. CASE doc \in EarlierDrafts
    <3>1. \E input \in ScanInputs : \E ids : doc = Document(input, ids, Whole(ids)) /\ Draftable(Whole(ids))
      BY <2>2 DEF EarlierDrafts
    <3>2. QED
      BY <3>1, DocumentDescribes DEF DocOK, Describes
  <2>3. QED
    BY <2>1, <2>2 DEF StoreInit
<1>9. PinsOK
  <2>1. DOMAIN pin = Pinners /\ \A k \in Pinners : DOMAIN pin[k] = PinFields /\ pin[k].phase = "idle"
    BY <1>2 DEF PinFields
  <2>2. QED
    BY <2>1 DEF PinsOK, Owns
<1>10. StoreOK
  BY <1>2 DEF StoreOK
<1>11. QED
  BY <1>3, <1>5, <1>6, <1>7, <1>8, <1>9, <1>10 DEF StoreInv

(* What the contract workflow holds is invariant, whoever runs beside it.  *)
THEOREM StoreInvariant == StoreSpec => []StoreInv
<1>1. StoreInv /\ [StoreNext]_storeVars => StoreInv'
  <2> SUFFICES ASSUME StoreInv, [StoreNext]_storeVars PROVE StoreInv'
    OBVIOUS
  <2>1. ASSUME NEW n \in Normalizers, NormalizerNext(n)
        PROVE  StoreInv'
    BY <2>1, NormStays DEF NormalizerNext
  <2>2. ASSUME DraftNext
        PROVE  StoreInv'
    BY <2>2, DraftStepStays
  <2>3. ASSUME NEW k \in Pinners, PinNext(k)
        PROVE  StoreInv'
    <3>1. UNCHANGED norm
      BY <2>3 DEF PinNext, PinLoad, PinHash, PinCreate, PinWrite, PinVerify, CrashPinner
    <3>2. QED
      BY <2>3, <3>1, PinStepStays
  <2>4. ASSUME NEW e \in Exporters, ExportNext(e)
        PROVE  StoreInv'
    <3>1. UNCHANGED <<file, clock, norm, draft, doc, pin, store>>
      BY <2>4 DEF ExportNext, ExportList, ExportLoad, ExportResolve, ExportOpen, ExportRead,
                  ExportPlanned, ExportValidate, ExportWrite, ExportCommit
    <3>2. QED
      BY <3>1, ExportStepStays
  <2>5. ASSUME NEW p \in DOMAIN EditData, Edit(p) \/ Rewrite(p)
        PROVE  StoreInv'
    BY <2>5, EditStays
  <2>6. CASE UNCHANGED storeVars
    BY <2>6, ExportStepStays DEF storeVars
  <2>7. QED
    BY <2>1, <2>2, <2>3, <2>4, <2>5, <2>6 DEF StoreNext
<1>2. QED
  BY <1>1, InitialStore, PTL DEF StoreSpec

-----------------------------------------------------------------------------
(* The properties.                                                         *)

(* Whenever a receipt is there, the artifact beside it is complete and of  *)
(* the same run, and what a returned run published stays: _publish_staging *)
(* links the artifact first, _unlink_if_owned removes only its own inode.  *)
THEOREM ReceiptCommits == StoreSpec => []ReceiptMarksWhole
<1>1. StoreInv => ReceiptMarksWhole
  BY DEF StoreInv, PublishedOK, ReceiptMarksWhole
<1>2. QED
  BY <1>1, StoreInvariant, PTL

(* A block differs from the candidate it was made of in its schema only.   *)
LEMMA BlockFields ==
  ASSUME NEW c, NEW t, NEW decision
  PROVE  LET x == Candidate(c, t)
             block == ContractBlock(x, decision)
         IN /\ block.template = t.name /\ x.schema = Schema(c) /\ x.template = t.name
            /\ block.schema = (IF decision = "census-only" THEN NoSchema ELSE Schema(c))
            /\ block = [x EXCEPT !.schema = block.schema]
            /\ block.component = x.component /\ block.tensors = x.tensors /\ block.groups = x.groups
            /\ block.storage = x.storage /\ block.adaln = x.adaln /\ block.adalnSize = x.adalnSize
<1> DEFINE schema == IF decision = "census-only" THEN NoSchema ELSE Schema(c)
           x == Candidate(c, t)
<1>1. /\ x.schema = Schema(c) /\ x.template = t.name
      /\ "schema" \in DOMAIN x /\ "template" \in DOMAIN x
      /\ {"component", "tensors", "groups", "storage", "adaln", "adalnSize"} \subseteq DOMAIN x
  BY DEF Candidate
<1>2. ContractBlock(x, decision) = [x EXCEPT !.schema = schema]
  BY <1>1 DEF ContractBlock
<1> HIDE DEF x, schema
<1>3. /\ [x EXCEPT !.schema = schema].schema = schema
      /\ [x EXCEPT !.schema = schema].template = t.name
      /\ [x EXCEPT !.schema = schema].component = x.component
      /\ [x EXCEPT !.schema = schema].tensors = x.tensors
      /\ [x EXCEPT !.schema = schema].groups = x.groups
      /\ [x EXCEPT !.schema = schema].storage = x.storage
      /\ [x EXCEPT !.schema = schema].adaln = x.adaln
      /\ [x EXCEPT !.schema = schema].adalnSize = x.adalnSize
  BY <1>1
<1>4. QED
  BY <1>1, <1>2, <1>3 DEF x, schema

(* Whether a block can be pinned does not depend on its schema.            *)
LEMMA SamePinnable ==
  ASSUME NEW x, NEW y, Pinnable(x), x.component = y.component, x.tensors = y.tensors,
         x.groups = y.groups, x.storage = y.storage, x.template = y.template,
         x.adaln = y.adaln, x.adalnSize = y.adalnSize
  PROVE  Pinnable(y)
<1>1. TemplateOf(x) = TemplateOf(y)
  BY DEF TemplateOf
<1>2. QED
  BY <1>1 DEF Pinnable, StorageCoheres

LEMMA OwnTemplate ==
  ASSUME NEW x, NEW t \in Templates, x.template = t.name
  PROVE  TemplateOf(x) = t
BY CensusAssumption DEF TemplateOf

(* A pin that returned left a complete snapshot that load_snapshot takes:  *)
(* nobody else owns its address, and what it froze was pinnable.           *)
THEOREM ReturnedPinsLoad == StoreSpec => []ReturnedPinLoads
<1>1. StoreInv => ReturnedPinLoads
  <2> SUFFICES ASSUME StoreInv, NEW k \in Pinners, pin[k].phase = "returned"
               PROVE  /\ store[pin[k].address] = "whole"
                      /\ Loads(Block(pin[k].address), pin[k].address[2])
    BY DEF ReturnedPinLoads
  <2> DEFINE a == pin[k].address
  <2>1. store[a] = "whole" /\ a \in Addresses
    BY DEF StoreInv, PinsOK, Owns
  <2>2. doc.state = "whole" /\ Pinnable(doc.candidate)
    BY <2>1 DEF StoreInv, StoreOK
  <2>3. PICK t \in Templates : Describes(t)
    BY <2>2 DEF StoreInv, DocOK
  <2> DEFINE c == Whole(doc.ids)
  <2>4. doc.candidate = Candidate(c, t) /\ DOMAIN c.tensors # {}
    BY <2>3 DEF Describes, Observable
  <2>5. Schema(c) # NoSchema
    BY <2>4 DEF Schema, NoSchema
  <2> HIDE DEF a, c
  <2>6. Block(a) = ContractBlock(Candidate(c, t), a[2])
    BY <2>4 DEF Block
  <2>7. Block(a).schema = (IF a[2] = "census-only" THEN NoSchema ELSE Schema(c))
    BY <2>6, BlockFields
  <2>8. Pinnable(Block(a))
    BY <2>2, <2>4, <2>6, BlockFields, SamePinnable
  <2>9. Loads(Block(a), a[2])
    BY <2>5, <2>7, <2>8 DEF Loads
  <2>10. QED
    BY <2>1, <2>9 DEF a
<1>2. QED
  BY <1>1, StoreInvariant, PTL

(* A contract that pins a schema hands it down: whatever the flag says, a  *)
(* decision for its template is to inherit it.                             *)
LEMMA PinIsInherited ==
  ASSUME NEW c, NEW t, DraftsAs(c, t), NEW enforce, NEW k \in KnownFor(t), Known[k].schema # NoSchema,
         NEW decision \in Decisions(Candidate(c, t), Nearest(t), enforce)
  PROVE  decision = "inherited-enforced-pin" /\ Known[k].schema = Schema(c)
<1>1. KnownFor(t) = {k}
  <2>1. ~DenseException(c, t)
    BY DEF DenseException
  <2>2. QED
    BY <2>1 DEF DraftsAs
<1>2. k \in DOMAIN Known /\ k # NoContract
  BY CensusAssumption DEF KnownFor
<1>3. Nearest(t) = k
  BY <1>1 DEF Nearest
<1>4. Candidate(c, t).schema = Schema(c)
  BY DEF Candidate
<1>5. QED
  BY <1>2, <1>3, <1>4 DEF Decisions

(* A complete snapshot is true of the bytes whose digests it records, and  *)
(* keeps the schema the known contract of its template enforces: what was  *)
(* unchanged after the census is what it was taken of (drafting.py), and a *)
(* pin copies the candidate (pinning.py).                                  *)
THEOREM SnapshotsAreTrue == StoreSpec => []SnapshotDescribesSource
<1>1. StoreInv => SnapshotDescribesSource
  <2> DEFINE c == Whole(doc.ids)
  <2> SUFFICES ASSUME StoreInv, NEW a \in Addresses, store[a] = "whole"
               PROVE  LET u == TemplateOf(Block(a))
                      IN /\ Observable(c) /\ Matching(c) = {u}
                         /\ Block(a) = [Candidate(c, u) EXCEPT !.schema = Block(a).schema]
                         /\ Block(a).schema \in {NoSchema, Schema(c)}
                         /\ \A k \in KnownFor(u) : Known[k].schema # NoSchema => Block(a).schema = Known[k].schema
    BY DEF SnapshotDescribesSource
  <2>1. doc.state = "whole" /\ \E enforce \in BOOLEAN : a[2] \in Decisions(doc.candidate, doc.nearest, enforce)
    BY DEF StoreInv, StoreOK
  <2>2. PICK t \in Templates : Describes(t)
    BY <2>1 DEF StoreInv, DocOK
  <2>3. /\ Observable(c) /\ DraftsAs(c, t)
        /\ doc.candidate = Candidate(c, t) /\ doc.nearest = Nearest(t)
    BY <2>2 DEF Describes
  <2> HIDE DEF c
  <2>4. Block(a) = ContractBlock(Candidate(c, t), a[2])
    BY <2>3 DEF Block
  <2>5. /\ Block(a).template = t.name
        /\ Block(a) = [Candidate(c, t) EXCEPT !.schema = Block(a).schema]
        /\ Block(a).schema = (IF a[2] = "census-only" THEN NoSchema ELSE Schema(c))
    BY <2>4, BlockFields
  <2>6. TemplateOf(Block(a)) = t
    BY <2>5, OwnTemplate
  <2>7. ASSUME NEW k \in KnownFor(t), Known[k].schema # NoSchema
        PROVE  Block(a).schema = Known[k].schema
    <3>1. PICK enforce \in BOOLEAN : a[2] \in Decisions(Candidate(c, t), Nearest(t), enforce)
      BY <2>1, <2>3
    <3>2. a[2] = "inherited-enforced-pin" /\ Known[k].schema = Schema(c)
      BY <2>3, <2>7, <3>1, PinIsInherited
    <3>3. QED
      BY <2>5, <3>2
  <2>8. Matching(c) = {t}
    BY <2>3 DEF DraftsAs
  <2>9. Block(a).schema \in {NoSchema, Schema(c)}
    BY <2>5
  <2>10. QED
    BY <2>3, <2>5, <2>6, <2>7, <2>8, <2>9
<1>2. QED
  BY <1>1, StoreInvariant, PTL

-----------------------------------------------------------------------------
(* Rows in bounded runs.                                                   *)


RunSet == [start : Nat, count : Nat \ {0}]
RunSeqs == Seq(RunSet)

RowsOfRun(r) == [i \in 1..r.count |-> r.start + i - 1]

(* The rows of a run, as many as it counts.                                *)
LEMMA RowsOfRunIs ==
  ASSUME NEW r \in RunSet
  PROVE  RowsOfRun(r) \in Seq(Nat) /\ Len(RowsOfRun(r)) = r.count
<1>1. r.start \in Nat /\ r.count \in Nat
  BY DEF RunSet
<1>2. \A i \in 1..r.count : r.start + i - 1 \in Nat
  BY <1>1
<1>3. QED
  BY <1>1, <1>2 DEF RowsOfRun

(* An element more at the end of a concatenation.                          *)
LEMMA ConcatAssociative ==
  ASSUME NEW S, NEW a \in Seq(S), NEW b \in Seq(S), NEW x \in S
  PROVE  a \o (b \o <<x>>) = (a \o b) \o <<x>>
OBVIOUS

(* One run more, or one longer. *)
LEMMA AppendIs ==
  ASSUME NEW S, NEW s \in Seq(S), NEW x \in S
  PROVE  /\ Len(s) \in Nat /\ Append(s, x) \in Seq(S) /\ Len(Append(s, x)) = Len(s) + 1
         /\ \A i \in 1..Len(s) : Append(s, x)[i] = s[i] /\ s[i] \in S
         /\ Append(s, x)[Len(s) + 1] = x
         /\ \A i \in 1..Len(s) + 1 : Append(s, x)[i] \in S
OBVIOUS

(* Everything but the last, and the last. *)
LEMMA FrontIs ==
  ASSUME NEW S, NEW s \in Seq(S), s # <<>>, NEW m, m = Len(s) - 1
  PROVE  /\ m \in Nat /\ m + 1 = Len(s) /\ s[Len(s)] \in S
         /\ [k \in 1..m |-> s[k]] \in Seq(S) /\ Len([k \in 1..m |-> s[k]]) = m
         /\ s = Append([k \in 1..m |-> s[k]], s[Len(s)])
         /\ \A y \in S : [s EXCEPT ![Len(s)] = y] = Append([k \in 1..m |-> s[k]], y)
<1>1. Len(s) \in Nat /\ Len(s) # 0
  OBVIOUS
<1>2. m \in Nat /\ m + 1 = Len(s) /\ Len(s) \in 1..Len(s)
  BY <1>1
<1>3. \A k \in 1..m : k \in 1..Len(s)
  BY <1>2
<1>4. [k \in 1..m |-> s[k]] \in Seq(S) /\ Len([k \in 1..m |-> s[k]]) = m /\ s[Len(s)] \in S
  BY <1>2, <1>3
<1>5. s = Append([k \in 1..m |-> s[k]], s[Len(s)])
  BY <1>2, <1>4
<1>6. \A y \in S : [s EXCEPT ![Len(s)] = y] = Append([k \in 1..m |-> s[k]], y)
  BY <1>2, <1>4
<1>7. QED
  BY <1>2, <1>4, <1>5, <1>6

(* One run more is its rows at the end.                                    *)
LEMMA RunRowsNext ==
  ASSUME NEW runs \in RunSeqs, NEW r \in RunSet
  PROVE  /\ Append(runs, r) \in RunSeqs
         /\ RunRows(runs) \in Seq(Nat)
         /\ RunRows(Append(runs, r)) = RunRows(runs) \o RowsOfRun(r)
<1> DEFINE n == Len(runs)
           new == Append(runs, r)
           s == [k \in 1..n + 1 |-> RowsOfRun(new[k])]
<1>1. /\ n \in Nat /\ new \in RunSeqs /\ Len(new) = n + 1 /\ new[n + 1] = r
      /\ \A k \in 1..n : new[k] = runs[k]
      /\ \A k \in 1..n : runs[k] \in RunSet
      /\ \A k \in 1..n + 1 : new[k] \in RunSet
  BY AppendIs DEF RunSeqs
<1> HIDE DEF n, new
<1>2. \A k \in 1..n + 1 : s[k] = RowsOfRun(new[k]) /\ s[k] \in Seq(Nat)
  BY <1>1, RowsOfRunIs
<1>3. [k \in 1..n + 1 |-> s[k]] = s
  OBVIOUS
<1>4. RunRows(new) = FlattenSeq(s)
  BY <1>1, Zenon DEF RunRows, RowsOfRun
<1>5. [k \in 1..n |-> s[k]] = [k \in 1..n |-> RowsOfRun(runs[k])]
  <2>1. \A k \in 1..n : k \in 1..n + 1
    BY <1>1
  <2> HIDE DEF s
  <2>2. \A k \in 1..n : s[k] = RowsOfRun(runs[k])
    BY <1>1, <1>2, <2>1
  <2>3. QED
    BY <2>2
<1>6. RunRows(runs) = FlattenSeq([k \in 1..n |-> s[k]])
  <2>1. RunRows(runs) = FlattenSeq([k \in 1..n |-> RowsOfRun(runs[k])])
    BY DEF RunRows, RowsOfRun, n
  <2>2. QED
    BY <1>5, <2>1, Zenon
<1> HIDE DEF s
<1>7. FlattenSeq(s) = FlattenSeq([k \in 1..n |-> s[k]]) \o s[n + 1]
  <2>1. FlattenSeq([k \in 1..n + 1 |-> s[k]]) = FlattenSeq([k \in 1..n |-> s[k]]) \o s[n + 1]
    BY <1>1, <1>2, FlattenNext
  <2>2. QED
    BY <1>3, <2>1, Zenon
<1>8. s[n + 1] = RowsOfRun(r)
  <2>1. n + 1 \in 1..n + 1
    BY <1>1
  <2>2. QED
    BY <1>1, <1>2, <2>1, Zenon
<1>9. RunRows(runs) \in Seq(Nat)
  <2> DEFINE t == [k \in 1..n |-> s[k]]
  <2>1. \A k \in 1..n : t[k] = s[k] /\ k \in 1..n + 1
    BY <1>1
  <2>2. t = [k \in 1..n |-> t[k]]
    OBVIOUS
  <2>3. RunRows(runs) = FlattenSeq(t)
    BY <1>6
  <2> HIDE DEF t
  <2>4. SeqsOf(t, Nat, n)
    BY <1>2, <2>1, <2>2 DEF SeqsOf
  <2>5. QED
    BY <1>1, <2>3, <2>4, FlattenRange
<1>10. RunRows(new) = RunRows(runs) \o RowsOfRun(r)
  BY <1>4, <1>6, <1>7, <1>8, Zenon
<1>11. QED
  BY <1>1, <1>9, <1>10 DEF new

(* One row more is that row at the end.                                    *)
LEMMA AddRowIs ==
  ASSUME NEW runs \in RunSeqs, NEW row \in Nat
  PROVE  AddRow(runs, row) \in RunSeqs /\ RunRows(AddRow(runs, row)) = RunRows(runs) \o <<row>>
<1> DEFINE last == runs[Len(runs)]
           follows == row = last.start + last.count /\ last.count < MaxRows
<1>1. CASE runs # <<>> /\ follows
  <2> DEFINE m == Len(runs) - 1
             front == [k \in 1..m |-> runs[k]]
             longer == [last EXCEPT !.count = @ + 1]
  <2>1. m \in Nat /\ last \in RunSet /\ front \in RunSeqs /\ runs = Append(front, last)
    BY <1>1, FrontIs DEF RunSeqs
  <2>2. last.start \in Nat /\ last.count \in Nat
    <3> HIDE DEF last
    <3>1. QED
      BY <2>1 DEF RunSet
  <2>3. longer \in RunSet /\ longer.start = last.start /\ longer.count = last.count + 1
    <3> HIDE DEF last
    <3>1. QED
      BY <2>1 DEF RunSet
  <2>4. AddRow(runs, row) = [runs EXCEPT ![Len(runs)] = longer]
    BY <1>1 DEF AddRow
  <2>5. \A y \in RunSet : [runs EXCEPT ![Len(runs)] = y] = Append(front, y)
    BY <1>1, FrontIs DEF RunSeqs
  <2>6. AddRow(runs, row) = Append(front, longer)
    <3> HIDE DEF longer, front
    <3>1. QED
      BY <2>3, <2>4, <2>5
  <2> HIDE DEF front, m
  <2>7. RowsOfRun(longer) = RowsOfRun(last) \o <<row>> /\ RowsOfRun(last) \in Seq(Nat)
    <3>1. row = last.start + last.count /\ last.start \in Nat /\ last.count \in Nat
      BY <1>1, <2>2
    <3>2. RowsOfRun(last) \in Seq(Nat) /\ Len(RowsOfRun(last)) = last.count
          /\ RowsOfRun(longer) \in Seq(Nat) /\ Len(RowsOfRun(longer)) = last.count + 1
      BY <2>1, <2>3, RowsOfRunIs
    <3>3. \A i \in 1..last.count : RowsOfRun(last)[i] = last.start + i - 1
      BY <3>1 DEF RowsOfRun
    <3>4. \A i \in 1..last.count + 1 : RowsOfRun(longer)[i] = last.start + i - 1
      BY <2>3, <3>1 DEF RowsOfRun
    <3> DEFINE a == RowsOfRun(last)
               b == RowsOfRun(longer)
               c == last.count
               z == last.start
    <3>5. /\ a \in Seq(Nat) /\ Len(a) = c /\ b \in Seq(Nat) /\ Len(b) = c + 1 /\ c \in Nat /\ z \in Nat /\ row = z + c
          /\ \A i \in 1..c : a[i] = z + i - 1
          /\ \A i \in 1..c + 1 : b[i] = z + i - 1
      BY <3>1, <3>2, <3>3, <3>4
    <3> HIDE DEF a, b, c, z
    <3>6. b[c + 1] = row /\ \A i \in 1..c : b[i] = a[i]
      BY <3>5
    <3>7. b = a \o <<row>>
      <4>1. <<row>> \in Seq(Nat) /\ Len(<<row>>) = 1 /\ <<row>>[1] = row
        OBVIOUS
      <4>2. Joins(a \o <<row>>, Nat, a, <<row>>)
        BY <3>5, <4>1, ConcatIs
      <4> DEFINE t == a \o <<row>>
      <4>3. t \in Seq(Nat) /\ Len(t) = c + 1 /\ (\A i \in 1..c : t[i] = a[i]) /\ t[c + 1] = row
        <5> HIDE DEF t
        <5>1. /\ t \in Seq(Nat) /\ Len(t) = Len(a) + Len(<<row>>)
              /\ (\A i \in 1..Len(a) : t[i] = a[i]) /\ (\A i \in 1..Len(<<row>>) : t[Len(a) + i] = <<row>>[i])
          BY <4>2, Zenon DEF Joins, t
        <5>2. 1 \in 1..1 /\ Len(a) = c
          BY <3>5
        <5>3. t[Len(a) + 1] = <<row>>[1]
          BY <4>1, <5>1, <5>2, Zenon
        <5>4. QED
          BY <3>5, <4>1, <5>1, <5>3
      <4> HIDE DEF t
      <4>4. b = t
        BY <3>5, <3>6, <4>3
      <4>5. QED
        BY <4>4 DEF t
    <3>8. QED
      BY <3>5, <3>7 DEF a, b
  <2> HIDE DEF longer, last
  <2>8. /\ RunRows(runs) = RunRows(front) \o RowsOfRun(last)
        /\ RunRows(AddRow(runs, row)) = RunRows(front) \o RowsOfRun(longer)
        /\ AddRow(runs, row) \in RunSeqs /\ RunRows(front) \in Seq(Nat)
    BY <2>1, <2>3, <2>6, RunRowsNext
  <2>9. RunRows(front) \o (RowsOfRun(last) \o <<row>>) = (RunRows(front) \o RowsOfRun(last)) \o <<row>>
    BY <2>7, <2>8, ConcatAssociative
  <2>10. QED
    BY <2>7, <2>8, <2>9, Zenon
<1>2. CASE ~(runs # <<>> /\ follows)
  <2> DEFINE r == [start |-> row, count |-> 1]
  <2>1. AddRow(runs, row) = Append(runs, r)
    BY <1>2 DEF AddRow
  <2>2. r \in RunSet /\ RowsOfRun(r) = <<row>>
    <3>1. [i \in 1..1 |-> row + i - 1] = <<row>>
      OBVIOUS
    <3>2. QED
      BY <3>1 DEF RowsOfRun, RunSet
  <2> HIDE DEF r
  <2>3. QED
    BY <2>1, <2>2, RunRowsNext
<1>3. QED
  BY <1>1, <1>2

(* The runs after each row of an order. *)
Bounds(f, order, n) ==
  f = [k \in 0..n |-> IF k = 0 THEN <<>> ELSE AddRow(f[k - 1], order[k])]

(* The function BoundedRuns chooses exists.                                *)
LEMMA BoundsExist ==
  ASSUME NEW order \in Seq(Nat)
  PROVE  \E f : Bounds(f, order, Len(order))
<1> DEFINE N == Len(order)
           step == [p \in (1..N) \X RunSeqs |-> AddRow(p[2], order[p[1]])]
<1>1. \A i \in 1..N, x \in RunSeqs : step[<<i, x>>] = AddRow(x, order[i])
  OBVIOUS
<1>2. step \in [(1..N) \X RunSeqs -> RunSeqs]
  <2>1. \A i \in 1..N : order[i] \in Nat
    OBVIOUS
  <2>2. QED
    BY <2>1, AddRowIs
<1>3. N \in Nat /\ <<>> \in RunSeqs
  BY DEF RunSeqs
<1> HIDE DEF step, N
<1>4. PICK g : Unrolls(g, RunSeqs, <<>>, N, step)
  <2>1. Recursion(RunSeqs, <<>>, N, step)
    BY <1>2, <1>3 DEF Recursion
  <2>2. QED
    BY <2>1, RecursionExists
<1>5. g \in [0..N -> RunSeqs] /\ g[0] = <<>> /\ \A i \in 1..N : g[i] = step[<<i, g[i - 1]>>]
  BY <1>4 DEF Unrolls
<1>6. \A i \in 1..N : i - 1 \in 0..N /\ g[i - 1] \in RunSeqs
  BY <1>3, <1>5
<1>7. \A i \in 0..N : g[i] = IF i = 0 THEN <<>> ELSE AddRow(g[i - 1], order[i])
  <2> TAKE i \in 0..N
  <2>1. CASE i = 0
    BY <1>5, <2>1
  <2>2. CASE i # 0
    <3>1. i \in 1..N
      BY <1>3, <2>2
    <3>2. QED
      BY <1>1, <1>5, <1>6, <2>2, <3>1
  <2>3. QED
    BY <2>1, <2>2
<1> DEFINE h == [i \in 0..N |-> IF i = 0 THEN <<>> ELSE AddRow(g[i - 1], order[i])]
<1>8. h = [i \in 0..N |-> h[i]] /\ \A i \in 0..N : g[i] = h[i]
  BY <1>7
<1>9. g = [i \in 0..N |-> g[i]]
  BY <1>5
<1>10. g = h
  <2> HIDE DEF h
  <2>1. QED
    BY <1>8, <1>9, SameFunction
<1>11. Bounds(g, order, N)
  BY <1>10, Zenon DEF Bounds
<1>12. QED
  BY <1>11 DEF N

(* What Bounds says of one row.                                            *)
LEMMA BoundsAt ==
  ASSUME NEW f, NEW order, NEW n, Bounds(f, order, n)
  PROVE  \A k \in 0..n : f[k] = IF k = 0 THEN <<>> ELSE AddRow(f[k - 1], order[k])
BY Zenon DEF Bounds

(* Runs of rows, read one after the other, are the order they were made of. *)
LEMMA RowsOfBoundedRuns ==
  ASSUME NEW order \in Seq(Nat)
  PROVE  RunRows(BoundedRuns(order)) = order
<1> DEFINE N == Len(order)
           f == CHOOSE f : Bounds(f, order, N)
<1>1. Bounds(f, order, N)
  BY BoundsExist
<1>2. BoundedRuns(order) = f[N]
  BY DEF BoundedRuns, Bounds
<1>3. N \in Nat /\ \A i \in 1..N : order[i] \in Nat
  OBVIOUS
<1> HIDE DEF f, N
<1>4. /\ f[0] = <<>>
      /\ \A k \in 1..N : f[k] = AddRow(f[k - 1], order[k])
  <2>1. \A k \in 0..N : f[k] = IF k = 0 THEN <<>> ELSE AddRow(f[k - 1], order[k])
    BY <1>1, BoundsAt
  <2>2. 0 \in 0..N /\ \A k \in 1..N : k \in 0..N /\ k # 0
    BY <1>3
  <2>3. QED
    BY <2>1, <2>2, Zenon
<1> DEFINE first(n) == [i \in 1..n |-> order[i]]
           T == {n \in Nat : n <= N => f[n] \in RunSeqs /\ RunRows(f[n]) = first(n)}
<1>5. 0 \in T
  <2>1. RunRows(<<>>) = <<>> /\ first(0) = <<>> /\ <<>> \in RunSeqs
    <3>1. RunRows(<<>>) = FlattenSeq([k \in 1..0 |-> RowsOfRun(<<>>[k])])
      <4>1. Len(<<>>) = 0
        OBVIOUS
      <4>2. QED
        BY <4>1, Zenon DEF RunRows, RowsOfRun
    <3> DEFINE e == [k \in 1..0 |-> RowsOfRun(<<>>[k])]
    <3>2. e = [k \in 1..0 |-> e[k]]
      OBVIOUS
    <3>3. RunRows(<<>>) = <<>>
      <4>1. RunRows(<<>>) = FlattenSeq(e)
        BY <3>1
      <4> HIDE DEF e
      <4>2. QED
        BY <3>2, <4>1, FlattenEmpty, Zenon
    <3>4. first(0) = <<>> /\ <<>> \in RunSeqs
      BY DEF RunSeqs
    <3>5. QED
      BY <3>3, <3>4
  <2>2. QED
    BY <1>4, <2>1, Zenon, 0 \in Nat
<1>6. ASSUME NEW n \in Nat, n \in T PROVE n + 1 \in T
  <2> SUFFICES ASSUME n + 1 <= N PROVE f[n + 1] \in RunSeqs /\ RunRows(f[n + 1]) = first(n + 1)
    OBVIOUS
  <2>1. n <= N /\ n + 1 \in 1..N /\ (n + 1) - 1 = n
    BY <1>3
  <2>2. f[n] \in RunSeqs /\ RunRows(f[n]) = first(n)
    BY <1>6, <2>1
  <2>3. f[n + 1] = AddRow(f[n], order[n + 1]) /\ order[n + 1] \in Nat
    BY <1>3, <1>4, <2>1
  <2>4. f[n + 1] \in RunSeqs /\ RunRows(f[n + 1]) = first(n) \o <<order[n + 1]>>
    <3> HIDE DEF first
    <3>1. QED
      BY <2>2, <2>3, AddRowIs
  <2>5. first(n) \o <<order[n + 1]>> = first(n + 1)
    OBVIOUS
  <2>6. QED
    BY <2>4, <2>5, Zenon
<1>7. Nat \subseteq T
  <2> HIDE DEF T
  <2>1. QED
    BY <1>5, <1>6, Induction
<1>8. RunRows(f[N]) = first(N)
  BY <1>3, <1>7
<1>9. first(N) = order
  BY DEF N
<1>10. QED
  BY <1>2, <1>8, <1>9

-----------------------------------------------------------------------------
(* What an export has opened, planned and written.                         *)


(* What an export has opened; a scan that was read while its files had not *)
(* changed has read what it opened.                                        *)
ScanOK(scan) ==
  /\ DOMAIN scan = {"phase", "input", "head", "ids"}
  /\ scan.head \in Seq(Range(scan.head))
  /\ \A k \in 1..Len(scan.head) :
       Given(scan.head[k]) /\ scan.head[k] # Absent /\ scan.head[k].data \in DOMAIN Content

ReadOK(scan) ==
  /\ scan.ids = [k \in 1..Len(scan.head) |-> scan.ids[k]]
  /\ \A k \in 1..Len(scan.head) :
       file[scan.input.paths[k]] = scan.head[k] => scan.ids[k] = scan.head[k].data

(* What was written so far is what was opened, of files still unchanged.    *)
WritingOK(scan) ==
  /\ scan.ids = [k \in 1..Len(scan.head) |-> scan.ids[k]]
  /\ \A k \in 1..Len(scan.head) :
       file[scan.input.paths[k]] = scan.head[k] => scan.ids[k] \in {NoData, scan.head[k].data}

Resolved(phase) == phase \in {"planning", "scanned", "executing", "validating", "writing", "committed"}
Executes(phase) == phase \in {"executing", "validating", "writing", "committed"}

Tabled(c) ==
  \A n \in DOMAIN c.tensors : n \in Range(TensorOrder) /\ c.tensors[n].shape \in Seq(Nat)

(* The plan is that of one content, which its contract authorizes.         *)
PlanOK(plan) ==
  LET c == Whole(plan.files)
  IN /\ plan.actions = Actions(c)
     /\ Tabled(c) /\ Observable(c) /\ Authorizes(plan.record, c) /\ Plannable(c)

ShardsOK(plan) == FlattenSeq([k \in 1..Len(plan.shards) |-> plan.shards[k].names]) = Kept(plan.actions)

ExportFields == {"phase", "listed", "loaded", "contract", "scan", "plan"}

ExportOK(e) ==
  LET x == export[e]
  IN /\ DOMAIN x = ExportFields
     /\ ScanOK(x.scan)
     /\ x.phase \in {"idle", "loading"} => x.scan.head = <<>>
     /\ Resolved(x.phase) => x.scan.input \in ScanInputs /\ Len(x.scan.head) <= Len(x.scan.input.paths)
     /\ x.phase = "scanned" => ReadOK(x.scan)
     /\ Executes(x.phase) => PlanOK(x.plan)
     /\ x.phase \in {"writing", "committed"} => ShardsOK(x.plan)
     /\ x.phase = "writing" => WritingOK(x.scan) /\ Heads(x.scan) = x.plan.files
     /\ x.phase = "committed" => x.scan.ids = x.plan.files

(* No export has seen the staging inode i.                                 *)
NotOpened(i) ==
  \A e \in Exporters : \A k \in 1..Len(export[e].scan.head) : export[e].scan.head[k].stamp # i

NotOpenedOK ==
  \A n \in Normalizers : /\ HasArtifact(n) => NotOpened(norm[n].artifact)
                         /\ HasReceipt(n) => NotOpened(norm[n].receipt)

ExportInv ==
  /\ DOMAIN export = Exporters
  /\ \A e \in Exporters : ExportOK(e)
  /\ NotOpenedOK

(* What others do to the files leaves the exports as they were.            *)
LEMMA ExportStays ==
  ASSUME StoreInv, ExportInv, UNCHANGED export, clock' \in {clock, clock + 1},
         \A p \in Paths : \/ file'[p] = file[p]
                          \/ file'[p] = Absent
                          \/ file'[p].stamp = clock + 1
                          \/ \E n \in Normalizers :
                               \/ HasArtifact(n) /\ file'[p].stamp = norm[n].artifact
                               \/ HasReceipt(n) /\ file'[p].stamp = norm[n].receipt,
         \A n \in Normalizers :
           /\ HasArtifact(n)' => \/ HasArtifact(n) /\ norm'[n].artifact = norm[n].artifact
                                 \/ norm'[n].artifact = clock + 1
           /\ HasReceipt(n)' => \/ HasReceipt(n) /\ norm'[n].receipt = norm[n].receipt
                                \/ norm'[n].receipt = clock + 1
  PROVE  ExportInv'
<1>0. clock \in Nat /\ export' = export
  BY DEF StoreInv, FilesOK
<1>1. ASSUME NEW e \in Exporters, NEW k \in 1..Len(export[e].scan.head)
      PROVE  /\ Given(export[e].scan.head[k]) /\ export[e].scan.head[k] # Absent
             /\ export[e].scan.head[k].stamp # clock + 1
  <2>1. Given(export[e].scan.head[k]) /\ export[e].scan.head[k] # Absent
    BY DEF ExportInv, ExportOK, ScanOK
  <2>2. export[e].scan.head[k].stamp \in 1..clock
    BY <2>1 DEF Given
  <2>3. QED
    BY <1>0, <2>1, <2>2
<1>2. NotOpened(clock + 1)
  BY <1>1 DEF NotOpened
<1>3. ASSUME NEW p \in Paths, file'[p] # file[p], file'[p] # Absent
      PROVE  NotOpened(file'[p].stamp)
  BY <1>2, <1>3 DEF ExportInv, NotOpenedOK
<1>4. NotOpenedOK'
  <2>1. ASSUME NEW n \in Normalizers, HasArtifact(n)'
        PROVE  NotOpened(norm'[n].artifact)
    BY <1>2, <2>1 DEF ExportInv, NotOpenedOK
  <2>2. ASSUME NEW n \in Normalizers, HasReceipt(n)'
        PROVE  NotOpened(norm'[n].receipt)
    BY <1>2, <2>2 DEF ExportInv, NotOpenedOK
  <2>3. QED
    BY <1>0, <2>1, <2>2 DEF NotOpenedOK, NotOpened
<1>5. ASSUME NEW e \in Exporters
      PROVE  ExportOK(e)'
  <2> DEFINE x == export[e]
  <2>1. /\ DOMAIN x = ExportFields /\ ScanOK(x.scan)
        /\ x.phase \in {"idle", "loading"} => x.scan.head = <<>>
        /\ Resolved(x.phase) => x.scan.input \in ScanInputs /\ Len(x.scan.head) <= Len(x.scan.input.paths)
        /\ x.phase = "scanned" => ReadOK(x.scan)
        /\ Executes(x.phase) => PlanOK(x.plan)
        /\ x.phase \in {"writing", "committed"} => ShardsOK(x.plan)
        /\ x.phase = "writing" => WritingOK(x.scan) /\ Heads(x.scan) = x.plan.files
        /\ x.phase = "committed" => x.scan.ids = x.plan.files
    BY DEF ExportInv, ExportOK
  <2>2. ScanOK(x.scan)'
    <3>1. \A k \in 1..Len(x.scan.head) : Given(x.scan.head[k])'
      BY <1>0, <1>1, GivenStays DEF Given
    <3>2. QED
      BY <1>0, <2>1, <3>1 DEF ScanOK
  <2>3. ASSUME Resolved(x.phase), NEW k \in 1..Len(x.scan.head), file'[x.scan.input.paths[k]] = x.scan.head[k]
        PROVE  file[x.scan.input.paths[k]] = x.scan.head[k]
    <3>1. x.scan.input \in ScanInputs /\ Len(x.scan.head) <= Len(x.scan.input.paths) /\ Len(x.scan.head) \in Nat
      BY <2>1, <2>3 DEF ScanOK
    <3>2. x.scan.input.paths \in Seq(Paths) /\ k \in 1..Len(x.scan.input.paths)
      BY <3>1, StoreAssumption
    <3>3. x.scan.input.paths[k] \in Paths
      BY <3>2
    <3>4. file'[x.scan.input.paths[k]] # Absent /\ ~NotOpened(file'[x.scan.input.paths[k]].stamp)
      BY <1>1, <2>3 DEF NotOpened
    <3>5. QED
      BY <1>3, <2>3, <3>3, <3>4
  <2>4. x.phase = "scanned" => ReadOK(x.scan)'
    <3> SUFFICES ASSUME x.phase = "scanned" PROVE ReadOK(x.scan)'
      OBVIOUS
    <3>1. ReadOK(x.scan)
      BY <2>1
    <3>2. QED
      BY <1>0, <2>3, <3>1 DEF ReadOK, Resolved
  <2>5. x.phase = "writing" => WritingOK(x.scan)'
    <3> SUFFICES ASSUME x.phase = "writing" PROVE WritingOK(x.scan)'
      OBVIOUS
    <3>1. WritingOK(x.scan)
      BY <2>1
    <3>2. QED
      BY <1>0, <2>3, <3>1 DEF WritingOK, Resolved
  <2>6. QED
    BY <1>0, <2>1, <2>2, <2>4, <2>5 DEF ExportOK, Heads
<1>6. QED
  BY <1>0, <1>4, <1>5 DEF ExportInv

(* What the files and staging inodes of a normalization may become.        *)
LEMMA NormFiles ==
  ASSUME StoreInv, NEW n \in Normalizers, NormStep(n)
  PROVE  /\ clock' \in {clock, clock + 1}
         /\ \A p \in Paths : \/ file'[p] = file[p]
                             \/ file'[p] = Absent
                             \/ \E o \in Normalizers :
                                  \/ HasArtifact(o) /\ file'[p].stamp = norm[o].artifact
                                  \/ HasReceipt(o) /\ file'[p].stamp = norm[o].receipt
         /\ \A o \in Normalizers :
              /\ HasArtifact(o)' => \/ HasArtifact(o) /\ norm'[o].artifact = norm[o].artifact
                                    \/ norm'[o].artifact = clock + 1
              /\ HasReceipt(o)' => \/ HasReceipt(o) /\ norm'[o].receipt = norm[o].receipt
                                   \/ norm'[o].receipt = clock + 1
<1>0. DOMAIN norm = Normalizers /\ DOMAIN norm[n] = NormFields /\ DOMAIN file = Paths
  BY DEF StoreInv, NormOK, FilesOK
<1> DEFINE Keeps(o) ==
             /\ HasArtifact(o)' => \/ HasArtifact(o) /\ norm'[o].artifact = norm[o].artifact
                                   \/ norm'[o].artifact = clock + 1
             /\ HasReceipt(o)' => \/ HasReceipt(o) /\ norm'[o].receipt = norm[o].receipt
                                  \/ norm'[o].receipt = clock + 1
<1>1. ASSUME NEW phase, To(n, phase),
             phase \in {"opened", "copied", "verified", "staged"} => HasArtifact(n),
             phase \in {"staged", "linked"} => HasReceipt(n)
      PROVE  \A o \in Normalizers : Keeps(o)
  <2>1. /\ norm'[n].phase = phase /\ norm'[n].artifact = norm[n].artifact /\ norm'[n].receipt = norm[n].receipt
        /\ \A o \in Normalizers \ {n} : norm'[o] = norm[o]
    BY <1>0, <1>1 DEF To, NormFields
  <2>2. QED
    BY <1>1, <2>1 DEF HasArtifact, HasReceipt
<1>2. ASSUME UNCHANGED file
      PROVE  \A p \in Paths : file'[p] = file[p]
  BY <1>2
<1>3. CASE Resolve(n)
  BY <1>1, <1>2, <1>3 DEF Resolve
<1>4. CASE OpenSource(n)
  <2>1. UNCHANGED file
    BY <1>4 DEF OpenSource
  <2>2. CASE Exists(Raw)
    <3>1. /\ norm' = [norm EXCEPT ![n].phase = "opened", ![n].source = file[Raw], ![n].artifact = clock + 1]
          /\ clock' = clock + 1
      BY <1>4, <2>2 DEF OpenSource
    <3>2. /\ norm'[n].phase = "opened" /\ norm'[n].artifact = clock + 1
          /\ \A o \in Normalizers \ {n} : norm'[o] = norm[o]
      BY <1>0, <3>1 DEF NormFields
    <3>3. \A o \in Normalizers : Keeps(o)
      BY <3>2 DEF HasArtifact, HasReceipt
    <3>4. QED
      BY <1>2, <2>1, <3>1, <3>3
  <2>3. CASE ~Exists(Raw)
    BY <1>1, <1>2, <1>4, <2>1, <2>3 DEF OpenSource
  <2>4. QED
    BY <2>2, <2>3
<1>5. CASE CopyPrefix(n)
  <2>1. /\ UNCHANGED <<file, clock>> /\ norm[n].phase = "opened"
        /\ norm' = [norm EXCEPT ![n].phase = "copied", ![n].prefix = HeldData(Raw, norm[n].source)]
    BY <1>5 DEF CopyPrefix
  <2>2. /\ norm'[n].phase = "copied" /\ norm'[n].artifact = norm[n].artifact
        /\ \A o \in Normalizers \ {n} : norm'[o] = norm[o]
    BY <1>0, <2>1 DEF NormFields
  <2>3. \A o \in Normalizers : Keeps(o)
    BY <2>1, <2>2 DEF HasArtifact, HasReceipt
  <2>4. QED
    BY <1>2, <2>1, <2>3
<1>6. CASE VerifyStaged(n)
  <2>1. HasArtifact(n) /\ UNCHANGED <<file, clock>> /\ (To(n, "verified") \/ To(n, "failed"))
    BY <1>6 DEF VerifyStaged, HasArtifact
  <2>2. QED
    BY <1>1, <1>2, <2>1
<1>7. CASE StageReceipt(n)
  <2>1. /\ UNCHANGED file /\ clock' = clock + 1 /\ norm[n].phase = "verified"
        /\ norm' = [norm EXCEPT ![n].phase = "staged", ![n].receipt = clock + 1]
    BY <1>7 DEF StageReceipt
  <2>2. /\ norm'[n].phase = "staged" /\ norm'[n].artifact = norm[n].artifact /\ norm'[n].receipt = clock + 1
        /\ \A o \in Normalizers \ {n} : norm'[o] = norm[o]
    BY <1>0, <2>1 DEF NormFields
  <2>3. \A o \in Normalizers : Keeps(o)
    BY <2>1, <2>2 DEF HasArtifact, HasReceipt
  <2>4. QED
    BY <1>2, <2>1, <2>3
<1>8. CASE LinkArtifact(n)
  <2>1. HasArtifact(n) /\ HasReceipt(n) /\ UNCHANGED clock
    BY <1>8 DEF LinkArtifact, Link, LinkFails, HasArtifact, HasReceipt
  <2>2. CASE Link(n, Destination, norm[n].artifact, Derived, "linked")
    <3>1. \A p \in Paths : file'[p] = file[p] \/ file'[p].stamp = norm[n].artifact
      BY <1>0, <2>2 DEF Link
    <3>2. \A o \in Normalizers : Keeps(o)
      BY <1>1, <2>1, <2>2 DEF Link
    <3>3. QED
      BY <2>1, <3>1, <3>2
  <2>3. CASE LinkFails(n, Destination)
    BY <1>1, <1>2, <2>1, <2>3 DEF LinkFails
  <2>4. QED
    BY <1>8, <2>2, <2>3 DEF LinkArtifact
<1>9. CASE LinkReceipt(n)
  <2>1. HasReceipt(n) /\ UNCHANGED clock
    BY <1>9 DEF LinkReceipt, Link, LinkFails, HasReceipt
  <2>2. CASE Link(n, Receipt, norm[n].receipt, ReceiptData, "published")
    <3>1. \A p \in Paths : file'[p] = file[p] \/ file'[p].stamp = norm[n].receipt
      BY <1>0, <2>2 DEF Link
    <3>2. \A o \in Normalizers : Keeps(o)
      BY <1>1, <2>1, <2>2 DEF Link
    <3>3. QED
      BY <2>1, <3>1, <3>2
  <2>3. CASE LinkFails(n, Receipt)
    BY <1>1, <1>2, <2>1, <2>3 DEF LinkFails
  <2>4. QED
    BY <1>9, <2>2, <2>3 DEF LinkReceipt
<1>10. CASE SyncDirectory(n)
  BY <1>1, <1>2, <1>10 DEF SyncDirectory
<1>11. CASE UndoReceipt(n)
  <2>1. \A p \in Paths : file'[p] = file[p] \/ file'[p] = Absent
    BY <1>0, <1>11 DEF UndoReceipt, UnlinkIfOwned
  <2>2. \A o \in Normalizers : Keeps(o)
    BY <1>1, <1>11 DEF UndoReceipt
  <2>3. QED
    BY <1>11, <2>1, <2>2 DEF UndoReceipt
<1>12. CASE UndoArtifact(n)
  <2>1. \A p \in Paths : file'[p] = file[p] \/ file'[p] = Absent
    BY <1>0, <1>12 DEF UndoArtifact, UnlinkIfOwned
  <2>2. \A o \in Normalizers : Keeps(o)
    BY <1>1, <1>12 DEF UndoArtifact
  <2>3. QED
    BY <1>12, <2>1, <2>2 DEF UndoArtifact
<1>13. CASE CrashNormalizer(n)
  BY <1>1, <1>2, <1>13 DEF CrashNormalizer
<1>14. QED
  BY <1>3, <1>4, <1>5, <1>6, <1>7, <1>8, <1>9, <1>10, <1>11, <1>12, <1>13 DEF NormStep

(* Steps of everyone but the exports.                                      *)
LEMMA OthersKeepExports ==
  ASSUME StoreInv, ExportInv, UNCHANGED export,
         \/ \E n \in Normalizers : NormStep(n)
         \/ \E p \in DOMAIN EditData : Edit(p) \/ Rewrite(p)
         \/ UNCHANGED <<file, clock, norm>>
  PROVE  ExportInv'
<1>1. ASSUME NEW n \in Normalizers, NormStep(n)
      PROVE  ExportInv'
  BY <1>1, NormFiles, ExportStays
<1>2. ASSUME NEW p \in DOMAIN EditData, Edit(p) \/ Rewrite(p)
      PROVE  ExportInv'
  <2>1. /\ clock \in Nat /\ clock' = clock + 1 /\ DOMAIN file = Paths /\ p \in Paths /\ UNCHANGED norm
        /\ DOMAIN file[p] = FileFields
    BY <1>2, StoreAssumption DEF StoreInv, FilesOK, Edit, Rewrite
  <2>2. \A q \in Paths : file'[q] = file[q] \/ file'[q] = Absent \/ file'[q].stamp = clock + 1
    <3>1. CASE Edit(p)
      BY <2>1, <3>1 DEF Edit
    <3>2. CASE Rewrite(p)
      BY <2>1, <3>2 DEF Rewrite, FileFields
    <3>3. QED
      BY <1>2, <3>1, <3>2
  <2>3. QED
    BY <2>1, <2>2, ExportStays DEF HasArtifact, HasReceipt
<1>3. CASE UNCHANGED <<file, clock, norm>>
  BY <1>3, ExportStays DEF HasArtifact, HasReceipt
<1>4. QED
  BY <1>1, <1>2, <1>3

-----------------------------------------------------------------------------
(* The exports.                                                            *)

(* A step of export e, which opens nothing but what is there.              *)
LEMMA ExportUpdate ==
  ASSUME StoreInv, ExportInv, NEW e \in Exporters, UNCHANGED <<file, clock, norm>>,
         DOMAIN export' = Exporters, \A d \in Exporters \ {e} : export'[d] = export[d], ExportOK(e)',
         \A k \in 1..Len(export'[e].scan.head) :
           \/ k \in 1..Len(export[e].scan.head) /\ export'[e].scan.head[k] = export[e].scan.head[k]
           \/ \E q \in Paths : export'[e].scan.head[k] = file[q]
  PROVE  ExportInv'
<1>1. ASSUME NEW d \in Exporters \ {e}
      PROVE  ExportOK(d)'
  <2>1. ExportOK(d) /\ export'[d] = export[d]
    BY DEF ExportInv
  <2>2. ScanOK(export[d].scan)'
    BY <2>1 DEF ExportOK, ScanOK, Given
  <2>3. (export[d].phase = "scanned" => ReadOK(export[d].scan))'
    BY <2>1 DEF ExportOK, ReadOK
  <2>4. (export[d].phase = "writing" => WritingOK(export[d].scan))'
    BY <2>1 DEF ExportOK, WritingOK
  <2>5. QED
    BY <2>1, <2>2, <2>3, <2>4 DEF ExportOK, Heads
<1>2. ASSUME NEW i, NotOpened(i), Unseen(i)
      PROVE  NotOpened(i)'
  <2>1. ASSUME NEW d \in Exporters, NEW k \in 1..Len(export'[d].scan.head)
        PROVE  export'[d].scan.head[k].stamp # i
    <3>1. CASE d = e
      BY <1>2, <3>1 DEF NotOpened, Unseen
    <3>2. CASE d # e
      BY <1>2, <3>2 DEF NotOpened
    <3>3. QED
      BY <3>1, <3>2
  <2>2. QED
    BY <2>1 DEF NotOpened
<1>3. NotOpenedOK'
  <2>1. ASSUME NEW n \in Normalizers, HasArtifact(n)
        PROVE  NotOpened(norm[n].artifact)'
    BY <1>2, <2>1 DEF ExportInv, NotOpenedOK, StoreInv, UnseenOK
  <2>2. ASSUME NEW n \in Normalizers, HasReceipt(n)
        PROVE  NotOpened(norm[n].receipt)'
    BY <1>2, <2>2 DEF ExportInv, NotOpenedOK, StoreInv, UnseenOK
  <2>3. QED
    BY <2>1, <2>2 DEF NotOpenedOK, HasArtifact, HasReceipt, NotOpened
<1>4. QED
  BY <1>1, <1>3 DEF ExportInv

(* The parts of the invariant, for one export.                             *)
LEMMA ExportParts ==
  ASSUME ExportInv, NEW e \in Exporters
  PROVE  /\ DOMAIN export = Exporters /\ DOMAIN export[e] = ExportFields
         /\ ScanOK(export[e].scan)
         /\ export[e].phase \in {"idle", "loading"} => export[e].scan.head = <<>>
         /\ Resolved(export[e].phase) =>
              export[e].scan.input \in ScanInputs /\ Len(export[e].scan.head) <= Len(export[e].scan.input.paths)
         /\ export[e].phase = "scanned" => ReadOK(export[e].scan)
         /\ Executes(export[e].phase) => PlanOK(export[e].plan)
         /\ export[e].phase \in {"writing", "committed"} => ShardsOK(export[e].plan)
         /\ export[e].phase = "writing" =>
              WritingOK(export[e].scan) /\ Heads(export[e].scan) = export[e].plan.files
BY DEF ExportInv, ExportOK

(* An export that only moves its phase.                                    *)
LEMMA ExportPhase ==
  ASSUME StoreInv, ExportInv, NEW e \in Exporters, UNCHANGED <<file, clock, norm>>,
         NEW phase, ExportMoves(e, phase),
         \/ phase = "refused"
         \/ phase = "committed" /\ export[e].phase = "writing" /\ export[e].scan.ids = export[e].plan.files
  PROVE  ExportInv'
<1>1. /\ DOMAIN export' = Exporters /\ \A d \in Exporters \ {e} : export'[d] = export[d]
      /\ DOMAIN export'[e] = ExportFields /\ export'[e].phase = phase
      /\ export'[e].scan = export[e].scan /\ export'[e].plan = export[e].plan
  BY ExportParts DEF ExportMoves, ExportFields
<1>2. ScanOK(export[e].scan)'
  BY <1>1, ExportParts DEF ScanOK, Given
<1>3. ExportOK(e)'
  BY <1>1, <1>2, ExportParts DEF ExportOK, Resolved, Executes
<1>4. QED
  BY <1>1, <1>3, ExportUpdate

(* The steps before the sources are opened.                                *)
LEMMA ExportLoads ==
  ASSUME StoreInv, ExportInv, NEW e \in Exporters, ExportList(e) \/ ExportLoad(e) \/ ExportResolve(e),
         UNCHANGED norm
  PROVE  ExportInv'
<1>0. UNCHANGED <<file, clock>> /\ export[e].phase \in {"idle", "loading"}
  BY DEF ExportList, ExportLoad, ExportResolve
<1>1. ASSUME DOMAIN export' = Exporters, \A d \in Exporters \ {e} : export'[d] = export[d],
             DOMAIN export'[e] = ExportFields, DOMAIN export'[e].scan = DOMAIN export[e].scan,
             export'[e].scan.head = export[e].scan.head,
             \/ export'[e].phase = "loading"
             \/ export'[e].phase \in {"planning", "refused"} /\ export'[e].scan.input \in ScanInputs
      PROVE  ExportInv'
  <2>1. export[e].scan.head = <<>> /\ ScanOK(export[e].scan)
    BY <1>0, ExportParts
  <2>2. ScanOK(export[e].scan)'
    BY <1>0, <1>1, <2>1 DEF ScanOK, Given
  <2>3. Len(export'[e].scan.head) = 0
    BY <1>1, <2>1
  <2>4. export'[e].scan.input \in ScanInputs => Len(export'[e].scan.head) <= Len(export'[e].scan.input.paths)
    <3>1. \A input \in ScanInputs : Len(input.paths) \in Nat
      BY StoreAssumption
    <3>2. QED
      BY <2>3, <3>1
  <2>5. ExportOK(e)'
    BY <1>1, <2>1, <2>2, <2>4 DEF ExportOK, Resolved, Executes
  <2>6. QED
    BY <1>0, <1>1, <2>5, ExportUpdate
<1>2. CASE ExportList(e)
  BY <1>1, <1>2, ExportParts DEF ExportList, ExportFields
<1>3. CASE ExportLoad(e)
  <2>1. CASE ExportMoves(e, "refused")
    BY <1>0, <2>1, ExportPhase
  <2>2. CASE ~ExportMoves(e, "refused")
    <3>1. PICK a : export' = [export EXCEPT ![e].loaded = @ \cup {a}]
      BY <1>3, <2>2 DEF ExportLoad
    <3>2. export[e].phase = "loading"
      BY <1>3 DEF ExportLoad
    <3>3. QED
      BY <1>1, <3>1, <3>2, ExportParts DEF ExportFields
  <2>3. QED
    BY <2>1, <2>2
<1>4. CASE ExportResolve(e)
  <2>1. PICK name \in DOMAIN Known \cup {a[1] : a \in export[e].loaded}, input \in ScanInputs :
          export' = [export EXCEPT ![e].phase = IF Resolvable(input) THEN "planning" ELSE "refused",
                                   ![e].contract = name, ![e].scan.input = input]
    BY <1>4 DEF ExportResolve
  <2>2. DOMAIN export[e].scan = {"phase", "input", "head", "ids"}
    BY ExportParts DEF ScanOK
  <2>3. /\ DOMAIN export' = Exporters /\ \A d \in Exporters \ {e} : export'[d] = export[d]
        /\ DOMAIN export'[e] = ExportFields /\ DOMAIN export'[e].scan = DOMAIN export[e].scan
        /\ export'[e].scan.head = export[e].scan.head
        /\ export'[e].phase \in {"planning", "refused"} /\ export'[e].scan.input = input
    BY <2>1, <2>2, ExportParts DEF ExportFields
  <2>4. QED
    BY <1>1, <2>3
<1>5. QED
  BY <1>2, <1>3, <1>4

(* An element of a sequence over a set is in it.                           *)
LEMMA ElementIn ==
  ASSUME NEW S, NEW s \in Seq(S), NEW i \in 1..Len(s)
  PROVE  s[i] \in S
OBVIOUS

(* A shard is opened as the file that is there now.                        *)
LEMMA ExportOpens ==
  ASSUME StoreInv, ExportInv, NEW e \in Exporters, ExportOpen(e), UNCHANGED norm
  PROVE  ExportInv'
<1> DEFINE scan == export[e].scan
           q == scan.input.paths[Len(scan.head) + 1]
<1>0. /\ UNCHANGED <<file, clock>> /\ export[e].phase \in {"planning", "executing"} /\ ~Opened(scan)
      /\ ScanOK(scan) /\ scan.input \in ScanInputs /\ Len(scan.head) <= Len(scan.input.paths)
  BY ExportParts DEF ExportOpen, Resolved
<1>1. CASE ExportMoves(e, "refused")
  BY <1>0, <1>1, ExportPhase
<1>2. CASE ~ExportMoves(e, "refused")
  <2>1. CanOpen(scan) /\ export' = [export EXCEPT ![e].scan = OpenNext(@)]
    BY <1>2 DEF ExportOpen
  <2>2. /\ DOMAIN export' = Exporters /\ \A d \in Exporters \ {e} : export'[d] = export[d]
        /\ DOMAIN export'[e] = ExportFields /\ export'[e].phase = export[e].phase
        /\ export'[e].plan = export[e].plan /\ export'[e].scan = OpenNext(scan)
    BY <2>1, ExportParts DEF ExportFields
  <2>3. /\ DOMAIN OpenNext(scan) = DOMAIN scan /\ OpenNext(scan).head = Append(scan.head, file[q])
        /\ OpenNext(scan).input = scan.input
    BY <1>0 DEF OpenNext, ScanOK
  <2>4. scan.input.paths \in Seq(Paths) /\ Len(scan.head) \in Nat /\ Len(scan.head) + 1 <= Len(scan.input.paths)
    BY <1>0, StoreAssumption DEF Opened, ScanOK
  <2>5. q \in Paths
    <3>1. Len(scan.head) + 1 \in 1..Len(scan.input.paths)
      BY <2>4
    <3>2. QED
      BY <2>4, <3>1, ElementIn
  <2>6. Given(file[q]) /\ file[q] # Absent /\ file[q].data \in DOMAIN Content
    BY <2>1, <2>5 DEF StoreInv, FilesOK, CanOpen, Exists
  <2> HIDE DEF q
  <2> DEFINE new == OpenNext(scan)
  <2>7. /\ new.head \in Seq(Range(new.head)) /\ Len(new.head) = Len(scan.head) + 1
        /\ \A k \in 1..Len(scan.head) : new.head[k] = scan.head[k]
        /\ new.head[Len(scan.head) + 1] = file[q]
    BY <1>0, <2>3, AppendRange DEF ScanOK
  <2>8. \A k \in 1..Len(new.head) : k \in 1..Len(scan.head) \/ k = Len(scan.head) + 1
    BY <2>4, <2>7
  <2>9. ScanOK(new)
    <3>1. ASSUME NEW k \in 1..Len(new.head)
          PROVE  Given(new.head[k]) /\ new.head[k] # Absent /\ new.head[k].data \in DOMAIN Content
      BY <1>0, <2>6, <2>7, <2>8 DEF ScanOK
    <3>2. QED
      BY <1>0, <2>3, <2>7, <3>1 DEF ScanOK
  <2>10. export'[e].scan = new /\ new.input = scan.input
    BY <2>2, <2>3
  <2>11. \A k \in 1..Len(new.head) :
           \/ k \in 1..Len(scan.head) /\ new.head[k] = scan.head[k]
           \/ \E p \in Paths : new.head[k] = file[p]
    BY <2>5, <2>7, <2>8
  <2> HIDE DEF new
  <2>12. ScanOK(export[e].scan)'
    BY <1>0, <2>9, <2>10 DEF ScanOK, Given
  <2>13. Len(new.head) <= Len(scan.input.paths)
    BY <2>4, <2>7
  <2>14. ExportOK(e)'
    BY <1>0, <2>2, <2>10, <2>12, <2>13, ExportParts DEF ExportOK, Resolved, Executes
  <2>15. QED
    BY <1>0, <2>2, <2>10, <2>11, <2>14, ExportUpdate
<1>3. QED
  BY <1>1, <1>2

(* The tensors of a checkpoint are those of its shards.                    *)
LEMMA WholeTabled ==
  ASSUME NEW ids, \A k \in 1..Len(ids) : ids[k] \in DOMAIN Content
  PROVE  Tabled(Whole(ids))
<1> DEFINE holder(n) == CHOOSE k \in 1..Len(ids) : n \in DOMAIN Content[ids[k]].tensors
           names == UNION {DOMAIN Content[ids[k]].tensors : k \in 1..Len(ids)}
           tensors == Whole(ids).tensors
<1>1. tensors = [n \in names |-> Content[ids[holder(n)]].tensors[n]]
  BY DEF Whole, Checkpoint
<1>2. ASSUME NEW n \in names
      PROVE  n \in Range(TensorOrder) /\ tensors[n].shape \in Seq(Nat)
  <2>1. holder(n) \in 1..Len(ids) /\ n \in DOMAIN Content[ids[holder(n)]].tensors
    <3>1. \E k \in 1..Len(ids) : n \in DOMAIN Content[ids[k]].tensors
      OBVIOUS
    <3>2. QED
      BY <3>1
  <2> DEFINE h == holder(n)
  <2>2. tensors[n] = Content[ids[h]].tensors[n]
    BY <1>1
  <2>3. h \in 1..Len(ids) /\ n \in DOMAIN Content[ids[h]].tensors /\ ids[h] \in DOMAIN Content
    BY <2>1
  <2> HIDE DEF h, tensors
  <2>4. QED
    BY <2>2, <2>3, StoreAssumption
<1>3. DOMAIN tensors = names
  BY <1>1
<1>4. QED
  BY <1>2, <1>3, Zenon DEF Tabled

(* A scan that ended unchanged read one content.                           *)
LEMMA ScannedIsWhole ==
  ASSUME NEW scan, ScanOK(scan), ReadOK(scan), Unchanged(scan)
  PROVE  scan.ids = Heads(scan)
<1>1. \A k \in 1..Len(scan.head) : scan.ids[k] = scan.head[k].data
  BY DEF ReadOK, Unchanged
<1>2. scan.ids = [k \in 1..Len(scan.head) |-> scan.ids[k]]
  BY DEF ReadOK
<1>3. [k \in 1..Len(scan.head) |-> scan.ids[k]] = Heads(scan)
  BY <1>1 DEF Heads
<1>4. QED
  BY <1>2, <1>3

(* The payloads are read where the headers were.                           *)
LEMMA ExportReads ==
  ASSUME StoreInv, ExportInv, NEW e \in Exporters, ExportRead(e), UNCHANGED norm
  PROVE  ExportInv'
<1> DEFINE scan == export[e].scan
           ids == HeldNow(scan)
<1>0. /\ UNCHANGED <<file, clock>> /\ export[e].phase \in {"planning", "executing"}
      /\ ScanOK(scan) /\ scan.input \in ScanInputs /\ Len(scan.head) <= Len(scan.input.paths)
      /\ export[e].phase = "executing" => PlanOK(export[e].plan)
  BY ExportParts DEF ExportRead, Resolved, Executes
<1>1. export' = [export EXCEPT ![e].phase = IF @ = "planning" THEN "scanned" ELSE "validating", ![e].scan.ids = ids]
  BY DEF ExportRead
<1>2. /\ ids = [k \in 1..Len(scan.head) |-> ids[k]]
      /\ \A k \in 1..Len(scan.head) :
           file[scan.input.paths[k]] = scan.head[k] => ids[k] = scan.head[k].data
  BY DEF HeldNow, HeldData
<1> HIDE DEF ids
<1>3. /\ DOMAIN export' = Exporters /\ \A d \in Exporters \ {e} : export'[d] = export[d]
      /\ DOMAIN export'[e] = ExportFields /\ export'[e].plan = export[e].plan
      /\ DOMAIN export'[e].scan = DOMAIN scan /\ export'[e].scan.head = scan.head
      /\ export'[e].scan.input = scan.input /\ export'[e].scan.ids = ids
      /\ \/ export'[e].phase = "scanned" /\ export[e].phase = "planning"
         \/ export'[e].phase = "validating" /\ export[e].phase = "executing"
  BY <1>0, <1>1, ExportParts DEF ExportFields, ScanOK
<1>4. ScanOK(export[e].scan)'
  BY <1>0, <1>3 DEF ScanOK, Given
<1>5. ReadOK(export[e].scan)'
  BY <1>0, <1>2, <1>3 DEF ReadOK
<1>6. ExportOK(e)'
  BY <1>0, <1>3, <1>4, <1>5 DEF ExportOK, Resolved, Executes
<1>7. QED
  BY <1>0, <1>3, <1>6, ExportUpdate

(* A plan is made of one content, which its contract authorizes.           *)
LEMMA ExportPlans ==
  ASSUME StoreInv, ExportInv, NEW e \in Exporters, ExportPlanned(e), UNCHANGED norm
  PROVE  ExportInv'
<1> DEFINE scan == export[e].scan
           c == Checkpoint(Heads(scan), scan.ids)
<1>0. /\ UNCHANGED <<file, clock>> /\ export[e].phase = "scanned"
      /\ ScanOK(scan) /\ ReadOK(scan) /\ scan.input \in ScanInputs
  BY ExportParts DEF ExportPlanned, Resolved
<1>1. CASE ExportMoves(e, "refused")
  BY <1>0, <1>1, ExportPhase
<1>2. CASE ~ExportMoves(e, "refused")
  <2>1. /\ Unchanged(scan) /\ Observable(c) /\ Authorizes(RecordOf(e), c) /\ Plannable(c)
        /\ export' = [export EXCEPT ![e].phase = "executing", ![e].plan = PlanOf(e),
                                    ![e].scan.head = <<>>, ![e].scan.ids = <<>>]
    BY <1>2 DEF ExportPlanned
  <2>2. c = Whole(Heads(scan))
    BY <1>0, <2>1, ScannedIsWhole DEF Whole
  <2>3. Tabled(Whole(Heads(scan)))
    <3>1. Len(Heads(scan)) = Len(scan.head) /\ \A k \in 1..Len(scan.head) : Heads(scan)[k] = scan.head[k].data
      <4>1. Len(scan.head) \in Nat
        BY <1>0 DEF ScanOK
      <4>2. QED
        BY <4>1 DEF Heads
    <3>2. \A k \in 1..Len(scan.head) : scan.head[k].data \in DOMAIN Content
      BY <1>0 DEF ScanOK
    <3>3. \A k \in 1..Len(Heads(scan)) : Heads(scan)[k] \in DOMAIN Content
      BY <3>1, <3>2
    <3>4. QED
      BY <3>3, WholeTabled
  <2> DEFINE plan == PlanOf(e)
  <2>4. plan.files = Heads(scan) /\ plan.record = RecordOf(e) /\ plan.actions = Actions(c)
    BY DEF PlanOf
  <2>5. PlanOK(plan)
    <3> HIDE DEF plan, c
    <3>1. QED
      BY <2>1, <2>2, <2>3, <2>4 DEF PlanOK
  <2>6. export' = [export EXCEPT ![e].phase = "executing", ![e].plan = plan,
                                 ![e].scan.head = <<>>, ![e].scan.ids = <<>>]
    BY <2>1
  <2> HIDE DEF plan, c
  <2>7. /\ DOMAIN export' = Exporters /\ \A d \in Exporters \ {e} : export'[d] = export[d]
        /\ DOMAIN export'[e] = ExportFields /\ export'[e].plan = plan /\ export'[e].phase = "executing"
        /\ DOMAIN export'[e].scan = DOMAIN scan /\ export'[e].scan.head = <<>>
        /\ export'[e].scan.input = scan.input
    BY <1>0, <2>6, ExportParts DEF ExportFields, ScanOK
  <2>8. Len(export'[e].scan.head) = 0
    BY <2>7
  <2>9. ScanOK(export[e].scan)'
    <3>1. \A S : <<>> \in Seq(S)
      OBVIOUS
    <3>2. export'[e].scan.head \in Seq(Range(export'[e].scan.head))
      BY <2>7, <3>1, Zenon
    <3>3. QED
      BY <1>0, <2>7, <2>8, <3>2 DEF ScanOK
  <2>10. Len(export'[e].scan.head) <= Len(scan.input.paths)
    <3>1. Len(scan.input.paths) \in Nat
      BY <1>0, StoreAssumption
    <3>2. QED
      BY <2>8, <3>1
  <2>11. ExportOK(e)'
    BY <1>0, <2>5, <2>7, <2>9, <2>10 DEF ExportOK, Resolved, Executes
  <2>12. QED
    BY <1>0, <2>7, <2>8, <2>11, ExportUpdate
<1>3. QED
  BY <1>1, <1>2

(* Nothing is written when the reopened sources are found to be the plan's. *)
LEMMA ExportValidates ==
  ASSUME StoreInv, ExportInv, NEW e \in Exporters, ExportValidate(e), UNCHANGED norm
  PROVE  ExportInv'
<1> DEFINE scan == export[e].scan
           none == [k \in 1..Len(scan.head) |-> NoData]
<1>0. /\ UNCHANGED <<file, clock>> /\ export[e].phase = "validating"
      /\ ScanOK(scan) /\ scan.input \in ScanInputs /\ Len(scan.head) <= Len(scan.input.paths)
      /\ PlanOK(export[e].plan)
  BY ExportParts DEF ExportValidate, Resolved, Executes
<1>1. CASE ExportMoves(e, "refused")
  BY <1>0, <1>1, ExportPhase
<1>2. CASE ~ExportMoves(e, "refused")
  <2>1. /\ Heads(scan) = export[e].plan.files
        /\ PlanFits(export[e].plan, Checkpoint(Heads(scan), scan.ids))
        /\ export' = [export EXCEPT ![e].phase = "writing", ![e].scan.ids = none]
    BY <1>2 DEF ExportValidate
  <2>2. ShardsOK(export[e].plan)
    BY <2>1 DEF PlanFits, ShardsOK
  <2>3. none = [k \in 1..Len(scan.head) |-> none[k]] /\ \A k \in 1..Len(scan.head) : none[k] = NoData
    OBVIOUS
  <2> HIDE DEF none
  <2>4. /\ DOMAIN export' = Exporters /\ \A d \in Exporters \ {e} : export'[d] = export[d]
        /\ DOMAIN export'[e] = ExportFields /\ export'[e].plan = export[e].plan
        /\ export'[e].phase = "writing"
        /\ DOMAIN export'[e].scan = DOMAIN scan /\ export'[e].scan.head = scan.head
        /\ export'[e].scan.input = scan.input /\ export'[e].scan.ids = none
    BY <1>0, <2>1, ExportParts DEF ExportFields, ScanOK
  <2>5. ScanOK(export[e].scan)'
    BY <1>0, <2>4 DEF ScanOK, Given
  <2>6. WritingOK(export[e].scan)'
    BY <2>3, <2>4 DEF WritingOK
  <2>7. Heads(export[e].scan)' = export[e].plan.files
    BY <2>1, <2>4 DEF Heads
  <2>8. ExportOK(e)'
    BY <1>0, <2>2, <2>4, <2>5, <2>6, <2>7 DEF ExportOK, Resolved, Executes
  <2>9. QED
    BY <1>0, <2>4, <2>8, ExportUpdate
<1>3. QED
  BY <1>1, <1>2

(* What is written of a source is what its descriptor reads now.           *)
LEMMA ExportWrites ==
  ASSUME StoreInv, ExportInv, NEW e \in Exporters, ExportWrite(e), UNCHANGED norm
  PROVE  ExportInv'
<1> DEFINE scan == export[e].scan
<1>0. /\ UNCHANGED <<file, clock>> /\ export[e].phase = "writing"
      /\ ScanOK(scan) /\ scan.input \in ScanInputs /\ Len(scan.head) <= Len(scan.input.paths)
      /\ PlanOK(export[e].plan) /\ ShardsOK(export[e].plan)
      /\ WritingOK(scan) /\ Heads(scan) = export[e].plan.files
  BY ExportParts DEF ExportWrite, Resolved, Executes
<1>1. PICK k \in 1..Len(scan.head) :
        export' = [export EXCEPT ![e].scan.ids[k] = HeldData(scan.input.paths[k], scan.head[k])]
  BY DEF ExportWrite
<1> DEFINE read == HeldData(scan.input.paths[k], scan.head[k])
           ids == [scan.ids EXCEPT ![k] = read]
<1>2. file[scan.input.paths[k]] = scan.head[k] => read = scan.head[k].data
  BY DEF HeldData
<1> HIDE DEF read
<1>3. /\ ids = [j \in 1..Len(scan.head) |-> ids[j]]
      /\ ids[k] = read /\ \A j \in 1..Len(scan.head) \ {k} : ids[j] = scan.ids[j]
  BY <1>0 DEF WritingOK
<1> HIDE DEF ids
<1>4. /\ DOMAIN export' = Exporters /\ \A d \in Exporters \ {e} : export'[d] = export[d]
      /\ DOMAIN export'[e] = ExportFields /\ export'[e].plan = export[e].plan
      /\ export'[e].phase = "writing"
      /\ DOMAIN export'[e].scan = DOMAIN scan /\ export'[e].scan.head = scan.head
      /\ export'[e].scan.input = scan.input /\ export'[e].scan.ids = ids
  BY <1>0, <1>1, ExportParts DEF ExportFields, ScanOK, ids, read
<1>5. ScanOK(export[e].scan)'
  BY <1>0, <1>4 DEF ScanOK, Given
<1>6. WritingOK(export[e].scan)'
  BY <1>0, <1>2, <1>3, <1>4 DEF WritingOK
<1>7. Heads(export[e].scan)' = export[e].plan.files
  BY <1>0, <1>4 DEF Heads
<1>8. ExportOK(e)'
  BY <1>0, <1>4, <1>5, <1>6, <1>7 DEF ExportOK, Resolved, Executes
<1>9. QED
  BY <1>0, <1>4, <1>8, ExportUpdate

(* What was written of sources still unchanged is what they held when they *)
(* were opened.                                                            *)
LEMMA WrittenIsWhole ==
  ASSUME NEW scan, WritingOK(scan), Written(scan), Unchanged(scan)
  PROVE  scan.ids = Heads(scan)
<1>1. \A k \in 1..Len(scan.head) : scan.ids[k] = scan.head[k].data
  BY DEF WritingOK, Written, Unchanged
<1>2. scan.ids = [k \in 1..Len(scan.head) |-> scan.ids[k]]
  BY DEF WritingOK
<1>3. [k \in 1..Len(scan.head) |-> scan.ids[k]] = Heads(scan)
  BY <1>1 DEF Heads
<1>4. QED
  BY <1>2, <1>3

(* Every step of an export.                                                *)
LEMMA ExportStepKeeps ==
  ASSUME StoreInv, ExportInv, NEW e \in Exporters, ExportNext(e), UNCHANGED norm
  PROVE  ExportInv'
<1>1. CASE ExportCommit(e)
  <2>1. UNCHANGED <<file, clock>> /\ export[e].phase = "writing" /\ Written(export[e].scan)
    BY <1>1 DEF ExportCommit
  <2>2. CASE ExportMoves(e, "refused")
    BY <2>1, <2>2, ExportPhase
  <2>3. CASE ~ExportMoves(e, "refused")
    <3>1. ExportMoves(e, "committed") /\ Unchanged(export[e].scan)
      BY <1>1, <2>3 DEF ExportCommit
    <3>2. export[e].scan.ids = export[e].plan.files
      BY <2>1, <3>1, ExportParts, WrittenIsWhole
    <3>3. QED
      BY <2>1, <3>1, <3>2, ExportPhase
  <2>4. QED
    BY <2>2, <2>3
<1>2. QED
  BY <1>1, ExportLoads, ExportOpens, ExportReads, ExportPlans, ExportValidates, ExportWrites DEF ExportNext

(* It holds at first.                                                      *)
LEMMA InitialExports == StoreInit => ExportInv
<1> SUFFICES ASSUME StoreInit PROVE ExportInv
  OBVIOUS
<1>1. export = [e \in Exporters |-> [phase |-> "idle", listed |-> {}, loaded |-> {},
                                     contract |-> "", scan |-> Idle, plan |-> <<>>]]
  BY DEF StoreInit
<1>2. Idle.head = <<>> /\ DOMAIN Idle = {"phase", "input", "head", "ids"}
  BY DEF Idle
<1>3. ScanOK(Idle)
  <2>1. \A S : <<>> \in Seq(S)
    OBVIOUS
  <2>2. Idle.head \in Seq(Range(Idle.head))
    BY <1>2, <2>1, Zenon
  <2>3. Len(Idle.head) = 0
    BY <1>2
  <2>4. QED
    BY <1>2, <2>2, <2>3 DEF ScanOK
<1>4. ASSUME NEW e \in Exporters
      PROVE  /\ export[e].phase = "idle" /\ export[e].scan = Idle /\ DOMAIN export[e] = ExportFields
             /\ Len(export[e].scan.head) = 0
  BY <1>1, <1>2 DEF ExportFields
<1>5. \A e \in Exporters : ExportOK(e)
  BY <1>2, <1>3, <1>4 DEF ExportOK, Resolved, Executes
<1>6. NotOpenedOK
  BY <1>4 DEF NotOpenedOK, NotOpened
<1>7. QED
  BY <1>1, <1>5, <1>6 DEF ExportInv

(* What an export holds is invariant too.                                  *)
THEOREM ExportInvariant == StoreSpec => []ExportInv
<1>1. StoreInv /\ ExportInv /\ [StoreNext]_storeVars => ExportInv'
  <2> SUFFICES ASSUME StoreInv, ExportInv, [StoreNext]_storeVars PROVE ExportInv'
    OBVIOUS
  <2>1. ASSUME NEW n \in Normalizers, NormalizerNext(n)
        PROVE  ExportInv'
    BY <2>1, OthersKeepExports DEF NormalizerNext
  <2>2. ASSUME DraftNext
        PROVE  ExportInv'
    BY <2>2, OthersKeepExports
       DEF DraftNext, DraftStart, DraftOpen, DraftRead, DraftBuild, DraftCreate, DraftWrite
  <2>3. ASSUME NEW k \in Pinners, PinNext(k)
        PROVE  ExportInv'
    BY <2>3, OthersKeepExports DEF PinNext, PinLoad, PinHash, PinCreate, PinWrite, PinVerify, CrashPinner
  <2>4. ASSUME NEW e \in Exporters, ExportNext(e)
        PROVE  ExportInv'
    <3>1. UNCHANGED norm
      BY <2>4 DEF ExportNext, ExportList, ExportLoad, ExportResolve, ExportOpen, ExportRead,
                  ExportPlanned, ExportValidate, ExportWrite, ExportCommit
    <3>2. QED
      BY <2>4, <3>1, ExportStepKeeps
  <2>5. ASSUME NEW p \in DOMAIN EditData, Edit(p) \/ Rewrite(p)
        PROVE  ExportInv'
    BY <2>5, OthersKeepExports DEF Edit, Rewrite
  <2>6. CASE UNCHANGED storeVars
    BY <2>6, OthersKeepExports DEF storeVars
  <2>7. QED
    BY <2>1, <2>2, <2>3, <2>4, <2>5, <2>6 DEF StoreNext
<1>2. QED
  BY <1>1, InitialExports, StoreInvariant, PTL DEF StoreSpec

-----------------------------------------------------------------------------
(* What a plan authorizes.                                                 *)


Omits(c, n) == n[1] \in Marked(c) /\ n[2] \in {"weight_scale", "comfy_quant"}

(* The operation of a tensor, by its role and its name.                    *)
LEMMA Operations ==
  ASSUME NEW c, NEW n
  PROVE  /\ OperationFor(c, n) \in {"omit-marker", "omit-scale"} <=> Omits(c, n)
         /\ OperationFor(c, n) \in {"omit-marker", "omit-scale", "inverse", "inverse-qkv", "copy", "copy-qkv"}
         /\ OperationFor(c, n) \in {"copy-qkv", "inverse-qkv"} => IsQkv(n)
         /\ ~Omits(c, n) /\ IsQkv(n) => OperationFor(c, n) \in {"copy-qkv", "inverse-qkv"}
         /\ OperationFor(c, n) = "inverse" => n[1] \in Marked(c) /\ n[2] = "weight"
<1>1. /\ RoleOf(c, n) \in {"copy", "weight", "scale", "marker"}
      /\ RoleOf(c, n) = "weight" => n[1] \in Marked(c) /\ n[2] = "weight"
      /\ RoleOf(c, n) \in {"scale", "marker"} <=> Omits(c, n)
  <2>1. CASE n[1] \notin Marked(c)
    BY <2>1 DEF RoleOf, Omits
  <2>2. CASE n[1] \in Marked(c)
    <3>1. RoleOf(c, n) = CASE n[2] = "weight" -> "weight"
                           [] n[2] = "weight_scale" -> "scale"
                           [] n[2] = "comfy_quant" -> "marker"
                           [] OTHER -> "copy"
      BY <2>2 DEF RoleOf
    <3>2. CASE n[2] = "weight"
      BY <2>2, <3>1, <3>2 DEF Omits
    <3>3. CASE n[2] = "weight_scale"
      BY <2>2, <3>1, <3>3 DEF Omits
    <3>4. CASE n[2] = "comfy_quant"
      BY <2>2, <3>1, <3>4 DEF Omits
    <3>5. CASE n[2] \notin {"weight", "weight_scale", "comfy_quant"}
      BY <2>2, <3>1, <3>5 DEF Omits
    <3>6. QED
      BY <3>2, <3>3, <3>4, <3>5
  <2>3. QED
    BY <2>1, <2>2
<1>2. CASE RoleOf(c, n) = "copy"
  BY <1>1, <1>2 DEF OperationFor
<1>3. CASE RoleOf(c, n) = "weight"
  BY <1>1, <1>3 DEF OperationFor
<1>4. CASE RoleOf(c, n) = "scale"
  BY <1>1, <1>4 DEF OperationFor
<1>5. CASE RoleOf(c, n) = "marker"
  BY <1>1, <1>5 DEF OperationFor
<1>6. QED
  BY <1>1, <1>2, <1>3, <1>4, <1>5

(* The targets of a plan are every tensor it does not omit.                *)
LEMMA KeptNames ==
  ASSUME NEW actions, DOMAIN actions \subseteq Range(TensorOrder)
  PROVE  LET kept == Kept(actions)
         IN /\ kept \in Seq(Range(TensorOrder))
            /\ {kept[k] : k \in 1..Len(kept)} =
                 {n \in DOMAIN actions : actions[n].operation \notin {"omit-marker", "omit-scale"}}
<1> DEFINE S == Range(TensorOrder)
           N == Len(TensorOrder)
           target(n) == n \in DOMAIN actions /\ actions[n].operation \notin {"omit-marker", "omit-scale"}
           s == [k \in 1..N |-> IF target(TensorOrder[k]) THEN <<TensorOrder[k]>> ELSE <<>>]
           kept == Kept(actions)
<1>1. N \in Nat /\ DOMAIN TensorOrder = 1..N
  BY ExportPlanAssumption
<1>2. kept = FlattenSeq(s)
  BY DEF Kept
<1>3. \A k \in 1..N : TensorOrder[k] \in S
  BY <1>1 DEF Range
<1>4. \A x \in S : <<x>> \in Seq(S) /\ Range(<<x>>) = {x}
  BY DEF Range
<1>5. <<>> \in Seq(S) /\ Range(<<>>) = {}
  BY DEF Range
<1>6. \A k \in 1..N : s[k] = IF target(TensorOrder[k]) THEN <<TensorOrder[k]>> ELSE <<>>
  OBVIOUS
<1>7. s = [k \in 1..N |-> s[k]]
  OBVIOUS
<1> HIDE DEF s, N, S, target
<1>8. \A k \in 1..N : s[k] \in Seq(S) /\ Range(s[k]) = IF target(TensorOrder[k]) THEN {TensorOrder[k]} ELSE {}
  BY <1>3, <1>4, <1>5, <1>6
<1>9. SeqsOf(s, S, N)
  BY <1>7, <1>8 DEF SeqsOf
<1>10. FlattenSeq(s) \in Seq(S) /\ Range(FlattenSeq(s)) = UNION {Range(s[i]) : i \in 1..N}
  BY <1>1, <1>9, FlattenRange
<1>11. UNION {Range(s[i]) : i \in 1..N} = {n \in S : target(n)}
  <2>1. \A n \in S : \E k \in 1..N : TensorOrder[k] = n
    BY <1>1 DEF Range, S
  <2>2. ASSUME NEW n, target(n), n \in S PROVE n \in UNION {Range(s[i]) : i \in 1..N}
    <3>1. PICK k \in 1..N : TensorOrder[k] = n
      BY <2>1, <2>2
    <3>2. n \in Range(s[k])
      BY <1>8, <2>2, <3>1
    <3>3. QED
      BY <3>2
  <2>3. ASSUME NEW i \in 1..N, NEW n \in Range(s[i]) PROVE n \in S /\ target(n)
    BY <1>3, <1>8, <2>3
  <2>4. QED
    BY <2>2, <2>3
<1>12. {n \in S : target(n)} = {n \in DOMAIN actions : actions[n].operation \notin {"omit-marker", "omit-scale"}}
  BY DEF S, target
<1>13. kept \in Seq(S)
  BY <1>2, <1>10
<1> HIDE DEF kept
<1>14. Range(kept) = {kept[k] : k \in 1..Len(kept)}
  BY <1>13 DEF Range
<1>15. QED
  BY <1>2, <1>10, <1>11, <1>12, <1>13, <1>14 DEF kept, S

Natural(n) == [i \in 1..n |-> i - 1]

(* The rows of a tensor in their own order.                                *)
LEMMA NaturalIs ==
  ASSUME NEW n \in Nat PROVE Natural(n) \in Seq(Nat)
<1>1. \A i \in 1..n : i - 1 \in Nat
  OBVIOUS
<1>2. QED
  BY <1>1 DEF Natural

(* Rows in the order of the official loader, whatever the chunks.          *)
LEMMA QkvRowsWritten ==
  /\ QkvToGrouped(Layout) \in Seq(Nat)
  /\ RunRows(BoundedRuns(QkvToGrouped(Layout))) = [i \in 1..QkvRows(Layout) |-> GroupedRow(i - 1)]
<1> DEFINE order == QkvToGrouped(Layout)
           N == QkvRows(Layout)
<1>1. Layout \in Layouts
  BY ExportPlanAssumption DEF Layouts
<1>2. order \in Seq(Nat) /\ Len(order) = N /\ \A i \in 1..N : order[i] = RuntimeRow(Layout, i - 1)
  BY <1>1, QkvRoundTrip
<1>3. \A r : RuntimeRow(Layout, r) = GroupedRow(r)
  BY Zenon DEF RuntimeRow, GroupedRow
<1> HIDE DEF order, N
<1>4. order = [i \in 1..N |-> order[i]]
  BY <1>2
<1>5. order = [i \in 1..N |-> GroupedRow(i - 1)]
  BY <1>2, <1>3, <1>4
<1>6. RunRows(BoundedRuns(order)) = order
  BY <1>2, RowsOfBoundedRuns
<1>7. QED
  BY <1>2, <1>5, <1>6, Zenon DEF order, N

(* The weight of a ConvRot group is a matrix.                              *)
LEMMA MarkedWeights ==
  ASSUME NEW c, Storage(c) = "int8-convrot", NEW n, n[1] \in Marked(c), NEW w, w = <<n[1], "weight">>
  PROVE  Len(c.tensors[w].shape) = 2
<1>1. GroupsAs(c, [p \in Marked(c) |-> DeclaredSize(c, p)])
  BY DEF Storage
<1>2. QED
  BY <1>1 DEF GroupsAs, TripletOK

(* The rows of a target in the order they are expected in.                 *)
LEMMA AuthorizedRows ==
  ASSUME NEW plan, PlanOK(plan), NEW n \in DOMAIN Whole(plan.files).tensors, ~Omits(Whole(plan.files), n),
         n = <<n[1], n[2]>>
  PROVE  RowsWritten(plan, n) = [i \in 1..Whole(plan.files).tensors[n].shape[1] |->
                                   IF IsQkv(n) THEN GroupedRow(i - 1) ELSE i - 1]
<1> DEFINE c == Whole(plan.files)
           shape == c.tensors[n].shape
           op == plan.actions[n].operation
<1>1. /\ plan.actions = Actions(c) /\ Tabled(c) /\ Authorizes(plan.record, c) /\ Plannable(c)
      /\ n \in DOMAIN c.tensors /\ ~Omits(c, n)
  BY DEF PlanOK
<1> HIDE DEF c
<1>2. /\ op = OperationFor(c, n) /\ plan.actions[n].descriptor = c.tensors[n]
      /\ DOMAIN Actions(c) = DOMAIN c.tensors
  BY <1>1 DEF Actions, ActionFor
<1>3. shape \in Seq(Nat)
  BY <1>1 DEF Tabled
<1> HIDE DEF shape
<1>4. RowsWritten(plan, n) =
        IF op = "copy" THEN Natural(shape[1])
        ELSE RunRows(BoundedRuns(IF op \in {"copy-qkv", "inverse-qkv"} THEN QkvToGrouped(Layout) ELSE Natural(shape[1])))
  BY <1>2, Zenon DEF RowsWritten, Natural, shape
<1>5. CASE IsQkv(n)
  <2>1. op \in {"copy-qkv", "inverse-qkv"}
    BY <1>1, <1>2, <1>5, Operations
  <2>2. RowsWritten(plan, n) = RunRows(BoundedRuns(QkvToGrouped(Layout)))
    BY <1>4, <2>1
  <2>3. shape[1] = QkvRows(Layout)
    BY <1>1, <1>2, <1>5 DEF Plannable, shape
  <2>4. RowsWritten(plan, n) = [i \in 1..shape[1] |-> GroupedRow(i - 1)]
    BY <2>2, <2>3, QkvRowsWritten, Zenon
  <2>5. QED
    BY <1>5, <2>4, Zenon DEF shape, c
<1>6. CASE ~IsQkv(n)
  <2>1. op \in {"copy", "inverse"}
    BY <1>1, <1>2, <1>6, Operations
  <2>2. op = "inverse" => RunRows(BoundedRuns(Natural(shape[1]))) = Natural(shape[1])
    <3> SUFFICES ASSUME op = "inverse" PROVE RunRows(BoundedRuns(Natural(shape[1]))) = Natural(shape[1])
      OBVIOUS
    <3>1. n[1] \in Marked(c) /\ n = <<n[1], "weight">>
      BY <1>2, Operations
    <3>2. Storage(c) = "int8-convrot"
      BY <1>1 DEF Authorizes, ProfileStorage
    <3>3. Len(shape) = 2
      BY <3>1, <3>2, MarkedWeights DEF shape
    <3>4. shape[1] \in Nat
      <4>1. 1 \in 1..Len(shape)
        BY <3>3
      <4>2. QED
        BY <1>3, <4>1, ElementIn
    <3>5. QED
      BY <3>4, NaturalIs, RowsOfBoundedRuns
  <2>3. RowsWritten(plan, n) = Natural(shape[1])
    BY <1>4, <2>1, <2>2
  <2>4. QED
    BY <1>6, <2>3, Zenon DEF Natural, shape, c
<1>7. QED
  BY <1>5, <1>6

(* The shards of a plan hold its targets, each once its rows.              *)
LEMMA CommittedIsAuthorized ==
  ASSUME NEW plan, PlanOK(plan), ShardsOK(plan)
  PROVE  LET c == Whole(plan.files)
             out == Output(plan)
         IN /\ Schema(c) = plan.record.schema
            /\ Storage(c) = "int8-convrot" /\ GroupTable(c) = TemplateOf(plan.record).table
            /\ DOMAIN out = {n \in DOMAIN c.tensors :
                               ~(n[1] \in Marked(c) /\ n[2] \in {"weight_scale", "comfy_quant"})}
            /\ \A n \in DOMAIN out :
                 out[n] = [i \in 1..c.tensors[n].shape[1] |->
                             IF IsQkv(n) THEN GroupedRow(i - 1) ELSE i - 1]
<1> DEFINE c == Whole(plan.files)
           kept == Kept(plan.actions)
           targets == {kept[k] : k \in 1..Len(kept)}
           out == Output(plan)
<1>1. plan.actions = Actions(c) /\ Tabled(c) /\ Authorizes(plan.record, c)
  BY DEF PlanOK
<1>2. FlattenSeq([k \in 1..Len(plan.shards) |-> plan.shards[k].names]) = kept
  BY DEF ShardsOK
<1>3. out = [n \in targets |-> RowsWritten(plan, n)]
  BY <1>2, Zenon DEF Output
<1> HIDE DEF c, out, kept
<1>4. DOMAIN plan.actions = DOMAIN c.tensors
  BY <1>1 DEF Actions
<1>5. \A n \in DOMAIN c.tensors : plan.actions[n].operation = OperationFor(c, n)
  BY <1>1 DEF Actions, ActionFor
<1>6. DOMAIN plan.actions \subseteq Range(TensorOrder)
  BY <1>1, <1>4 DEF Tabled
<1>7. targets = {n \in DOMAIN plan.actions : plan.actions[n].operation \notin {"omit-marker", "omit-scale"}}
  BY <1>6, KeptNames DEF kept
<1>8. targets = {n \in DOMAIN c.tensors : ~Omits(c, n)}
  BY <1>4, <1>5, <1>7, Operations
<1>9. ASSUME NEW n \in targets
      PROVE  out[n] = [i \in 1..c.tensors[n].shape[1] |-> IF IsQkv(n) THEN GroupedRow(i - 1) ELSE i - 1]
  <2>1. n \in DOMAIN c.tensors /\ ~Omits(c, n)
    BY <1>8
  <2>2. n = <<n[1], n[2]>>
    BY <1>4, <1>6, <2>1, ExportPlanAssumption
  <2>3. out[n] = RowsWritten(plan, n)
    BY <1>3
  <2>4. QED
    BY <2>1, <2>2, <2>3, AuthorizedRows, Zenon DEF c
<1>10. /\ Schema(c) = plan.record.schema
       /\ Storage(c) = "int8-convrot" /\ GroupTable(c) = TemplateOf(plan.record).table
  BY <1>1 DEF Authorizes, ProfileStorage, Level3
<1>11. DOMAIN out = targets
  BY <1>3
<1>12. DOMAIN out = {n \in DOMAIN c.tensors :
                       ~(n[1] \in Marked(c) /\ n[2] \in {"weight_scale", "comfy_quant"})}
  BY <1>8, <1>11 DEF Omits
<1>13. \A n \in DOMAIN out :
         out[n] = [i \in 1..c.tensors[n].shape[1] |-> IF IsQkv(n) THEN GroupedRow(i - 1) ELSE i - 1]
  BY <1>9, <1>11
<1>14. QED
  BY <1>10, <1>12, <1>13, Zenon DEF c, out

(* A complete snapshot stays.                                              *)
LEMMA WholeStays ==
  ASSUME StoreInv, [StoreNext]_storeVars, NEW a \in Addresses, store[a] = "whole"
  PROVE  store'[a] = "whole"
<1>0. DOMAIN store = Addresses
  BY DEF StoreInv, StoreOK
<1>1. ASSUME NEW k \in Pinners, PinNext(k)
      PROVE  store'[a] = "whole"
  <2>1. CASE UNCHANGED store
    BY <2>1
  <2>2. CASE PinCreate(k)
    <3>1. UNCHANGED store \/ \E address : store[address] = "absent" /\ store' = [store EXCEPT ![address] = "partial"]
      BY <2>2 DEF PinCreate
    <3>2. QED
      BY <1>0, <3>1
  <2>3. CASE PinWrite(k)
    <3>1. UNCHANGED store \/ store' = [store EXCEPT ![pin[k].address] = "whole"]
      BY <2>3 DEF PinWrite
    <3>2. QED
      BY <1>0, <3>1
  <2>4. CASE PinVerify(k)
    <3>1. \/ UNCHANGED store
          \/ store[pin[k].address] # "whole" /\ store' = [store EXCEPT ![pin[k].address] = "absent"]
      BY <2>4 DEF PinVerify
    <3>2. QED
      BY <1>0, <3>1
  <2>5. QED
    BY <1>1, <2>1, <2>2, <2>3, <2>4 DEF PinNext, PinLoad, PinHash, CrashPinner
<1>2. CASE UNCHANGED store
  BY <1>2
<1>3. QED
  BY <1>1, <1>2 DEF StoreNext, storeVars, NormalizerNext, Edit, Rewrite,
       DraftNext, DraftStart, DraftOpen, DraftRead, DraftBuild, DraftCreate, DraftWrite,
       ExportNext, ExportList, ExportLoad, ExportResolve, ExportOpen, ExportRead,
       ExportPlanned, ExportValidate, ExportWrite, ExportCommit

(* What an export loaded is complete, and its contract is of the catalog.  *)
LoadedOK(e) ==
  /\ export[e].listed \subseteq Addresses
  /\ \A a \in export[e].loaded : a \in Addresses /\ store[a] = "whole"
  /\ Resolved(export[e].phase) =>
       export[e].contract \in DOMAIN Known \cup {a[1] : a \in export[e].loaded}

(* A step that leaves what was listed, loaded and chosen.                  *)
LEMMA LoadedKept ==
  ASSUME StoreInv, [StoreNext]_storeVars, NEW e \in Exporters, LoadedOK(e),
         export'[e].listed = export[e].listed, export'[e].loaded = export[e].loaded,
         export'[e].contract = export[e].contract,
         Resolved(export'[e].phase) => Resolved(export[e].phase)
  PROVE  LoadedOK(e)'
<1>1. \A a \in export[e].loaded : a \in Addresses /\ store'[a] = "whole"
  BY WholeStays DEF LoadedOK
<1>2. Resolved(export[e].phase)' => Resolved(export[e].phase)
  BY DEF Resolved
<1>3. Addresses' = Addresses
  BY DEF Addresses
<1>4. QED
  BY <1>1, <1>2, <1>3 DEF LoadedOK

(* What was loaded stays complete.                                         *)
LEMMA LoadedStays ==
  ASSUME StoreInv, ExportInv, [StoreNext]_storeVars, NEW e \in Exporters, LoadedOK(e)
  PROVE  LoadedOK(e)'
<1>0. DOMAIN export = Exporters /\ DOMAIN export[e] = ExportFields
  BY ExportParts
<1>1. CASE export'[e] = export[e]
  BY <1>1, LoadedKept
<1>2. CASE \E d \in Exporters : ExportNext(d) /\ export'[e] # export[e]
  <2>1. ExportNext(e)
    <3>1. PICK d \in Exporters : ExportNext(d) /\ export'[e] # export[e]
      BY <1>2
    <3>2. d = e
      <4> SUFFICES ASSUME d # e PROVE export'[e] = export[e]
        BY <3>1
      <4>1. CASE \E phase : ExportMoves(d, phase)
        BY <1>0, <4>1 DEF ExportMoves
      <4>2. CASE ~\E phase : ExportMoves(d, phase)
        BY <1>0, <3>1, <4>2 DEF ExportNext, ExportList, ExportLoad, ExportResolve, ExportOpen, ExportRead,
             ExportPlanned, ExportValidate, ExportWrite, ExportCommit
      <4>3. QED
        BY <4>1, <4>2
    <3>3. QED
      BY <3>1, <3>2
  <2>2. CASE ExportMoves(e, "refused")
    BY <1>0, <2>2, LoadedKept DEF ExportMoves, ExportFields, Resolved
  <2>3. CASE ExportList(e)
    <3>1. /\ export'[e].listed \subseteq Addresses /\ export'[e].loaded = export[e].loaded
          /\ export'[e].phase = "loading" /\ UNCHANGED store
      BY <1>0, <2>3 DEF ExportList, ExportFields
    <3>2. QED
      BY <3>1 DEF LoadedOK, Resolved, Addresses
  <2>4. CASE ExportLoad(e) /\ ~ExportMoves(e, "refused")
    <3>1. PICK a \in export[e].listed : store[a] = "whole" /\ export' = [export EXCEPT ![e].loaded = @ \cup {a}]
      BY <2>4 DEF ExportLoad
    <3>2. /\ export'[e].listed = export[e].listed /\ export'[e].loaded = export[e].loaded \cup {a}
          /\ export'[e].phase = "loading" /\ UNCHANGED store
      BY <1>0, <2>4, <3>1 DEF ExportLoad, ExportFields
    <3>3. QED
      BY <3>1, <3>2 DEF LoadedOK, Resolved, Addresses
  <2>5. CASE ExportResolve(e)
    <3>1. PICK name \in DOMAIN Known \cup {a[1] : a \in export[e].loaded}, input \in ScanInputs :
            export' = [export EXCEPT ![e].phase = IF Resolvable(input) THEN "planning" ELSE "refused",
                                     ![e].contract = name, ![e].scan.input = input]
      BY <2>5 DEF ExportResolve
    <3>2. /\ export'[e].listed = export[e].listed /\ export'[e].loaded = export[e].loaded
          /\ export'[e].contract = name /\ UNCHANGED store
      BY <1>0, <2>5, <3>1 DEF ExportResolve, ExportFields
    <3>3. QED
      BY <3>2 DEF LoadedOK, Addresses
  <2>6. CASE ~ExportMoves(e, "refused") /\ (\/ ExportOpen(e) \/ ExportRead(e) \/ ExportPlanned(e)
                                           \/ ExportValidate(e) \/ ExportWrite(e))
    <3>1. /\ export'[e].listed = export[e].listed /\ export'[e].loaded = export[e].loaded
          /\ export'[e].contract = export[e].contract /\ Resolved(export[e].phase)
      BY <1>0, <2>6 DEF ExportOpen, ExportRead, ExportPlanned, ExportValidate, ExportWrite, ExportFields, Resolved
    <3>2. QED
      BY <3>1, LoadedKept
  <2>7. CASE ~ExportMoves(e, "refused") /\ ExportCommit(e)
    <3>1. ExportMoves(e, "committed") /\ Resolved(export[e].phase)
      BY <2>7 DEF ExportCommit, Resolved
    <3>2. /\ export'[e].listed = export[e].listed /\ export'[e].loaded = export[e].loaded
          /\ export'[e].contract = export[e].contract
      BY <1>0, <3>1 DEF ExportMoves, ExportFields
    <3>3. QED
      BY <3>1, <3>2, LoadedKept
  <2>8. QED
    BY <2>1, <2>2, <2>3, <2>4, <2>5, <2>6, <2>7 DEF ExportNext
<1>3. UNCHANGED export \/ \E d \in Exporters : ExportNext(d)
  BY DEF StoreNext, storeVars, NormalizerNext, Edit, Rewrite,
       DraftNext, DraftStart, DraftOpen, DraftRead, DraftBuild, DraftCreate, DraftWrite,
       PinNext, PinLoad, PinHash, PinCreate, PinWrite, PinVerify, CrashPinner
<1>4. QED
  BY <1>1, <1>2, <1>3

(* Whatever is rewritten, drafted, pinned or normalized meanwhile, a       *)
(* committed export holds what its contract authorizes: the contract is a  *)
(* known one or a complete snapshot, everything was read from the bytes of *)
(* the plan, and every QKV matrix is in the row order of the official      *)
(* loader.                                                                 *)
THEOREM ExportsAreAuthorized == StoreSpec => []ExportedIsAuthorized
<1> DEFINE Inv == \A e \in Exporters : LoadedOK(e)
<1>1. StoreInit => Inv
  <2> SUFFICES ASSUME StoreInit, NEW e \in Exporters PROVE LoadedOK(e)
    OBVIOUS
  <2>1. export[e].listed = {} /\ export[e].loaded = {} /\ export[e].phase = "idle"
    BY DEF StoreInit
  <2>2. QED
    BY <2>1 DEF LoadedOK, Resolved
<1>2. StoreInv /\ ExportInv /\ Inv /\ [StoreNext]_storeVars => Inv'
  BY LoadedStays
<1>3. ExportInv /\ Inv => ExportedIsAuthorized
  <2> SUFFICES ASSUME ExportInv, Inv, NEW e \in Exporters, export[e].phase = "committed"
               PROVE  /\ PlanOK(export[e].plan) /\ ShardsOK(export[e].plan)
                      /\ export[e].scan.ids = export[e].plan.files
                      /\ \/ export[e].contract \in DOMAIN Known
                         \/ \E a \in export[e].loaded : a[1] = export[e].contract /\ store[a] = "whole"
    BY CommittedIsAuthorized, Zenon DEF ExportedIsAuthorized
  <2>1. PlanOK(export[e].plan) /\ ShardsOK(export[e].plan) /\ export[e].scan.ids = export[e].plan.files
    BY DEF ExportInv, ExportOK, Executes
  <2>2. Resolved(export[e].phase) /\ LoadedOK(e)
    BY DEF Resolved
  <2>3. QED
    BY <2>1, <2>2 DEF LoadedOK
<1>4. QED
  BY <1>1, <1>2, <1>3, StoreInvariant, ExportInvariant, PTL DEF StoreSpec
=============================================================================
