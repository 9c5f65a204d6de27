---------------------- MODULE ArtifactNormalization ----------------------
(* Normalizations racing for one destination (comfy_omni.artifacts.         *)
(* normalization, normalize_digest_pinned_prefix): copy the authorized      *)
(* prefix of a source into a private staging file, hash prefix and suffix   *)
(* on the way, compare with the profile, and publish by two hard links,     *)
(* artifact first. The receipt is the commit marker.                        *)
EXTENDS HeldFiles

CONSTANTS
  Normalizers,     \* runs of the command
  Raw,             \* source path of the normalizations
  Destination,     \* their artifact path
  Receipt,         \* the receipt beside it
  PinnedSource,    \* content the profile pins as source
  Derived,         \* content the profile pins as derived artifact
  ReceiptData,     \* content of a receipt
  MaxFaults        \* crashes and failing writes, links and syncs

(* A source is not its own artifact, nor is the receipt either of them. *)
ASSUME NormalizationAssumption ==
  /\ {Raw, Destination, Receipt} \subseteq Paths
  /\ Raw # Destination /\ Receipt \notin {Raw, Destination}

VARIABLES faults, norm

Fault == faults < MaxFaults /\ faults' = faults + 1

Active(n) == norm[n].phase \notin {"idle", "refused", "failed", "returned", "crashed"}
To(n, phase) == norm' = [norm EXCEPT ![n].phase = phase]

(* _resolve_paths: neither artifact nor receipt may exist yet. *)
Resolve(n) ==
  /\ norm[n].phase = "idle"
  /\ To(n, IF Exists(Raw) /\ ~Exists(Destination) /\ ~Exists(Receipt) THEN "resolved" ELSE "refused")
  /\ UNCHANGED <<file, clock, faults>>

(* The source descriptor, its fstat and the private staging file. *)
OpenSource(n) ==
  /\ norm[n].phase = "resolved"
  /\ IF Exists(Raw)
     THEN /\ norm' = [norm EXCEPT ![n].phase = "opened", ![n].source = file[Raw],
                                  ![n].artifact = clock + 1]
          /\ clock' = clock + 1
     ELSE To(n, "failed") /\ UNCHANGED clock
  /\ UNCHANGED <<file, faults>>

CopyPrefix(n) ==
  /\ norm[n].phase = "opened"
  /\ norm' = [norm EXCEPT ![n].phase = "copied", ![n].prefix = HeldData(Raw, norm[n].source)]
  /\ UNCHANGED <<file, clock, faults>>

(* _require_identity: source, suffix and derived digests against the pins. *)
Matches(prefix, suffix) == prefix = PinnedSource /\ suffix = PinnedSource

(* The suffix, the second fstat, the digests and the strict reread. *)
VerifyStaged(n) ==
  LET source == norm[n].source
  IN /\ norm[n].phase = "copied"
     /\ To(n, IF /\ HeldStamp(Raw, source) = source.stamp
                 /\ Matches(norm[n].prefix, HeldData(Raw, source))
              THEN "verified" ELSE "failed")
     /\ UNCHANGED <<file, clock, faults>>

StageReceipt(n) ==
  /\ norm[n].phase = "verified"
  /\ norm' = [norm EXCEPT ![n].phase = "staged", ![n].receipt = clock + 1]
  /\ clock' = clock + 1
  /\ UNCHANGED <<file, faults>>

Link(n, p, inode, data, next) ==
  /\ ~Exists(p)
  /\ file' = [file EXCEPT ![p] = [inode |-> inode, stamp |-> inode, data |-> data]]
  /\ To(n, next)
  /\ UNCHANGED <<clock, faults>>

(* os.link refuses an existing name; any other OSError is a fault. *)
LinkFails(n, p) ==
  /\ \/ Exists(p) /\ UNCHANGED faults
     \/ ~Exists(p) /\ Fault
  /\ To(n, "undo receipt")
  /\ UNCHANGED <<file, clock>>

LinkArtifact(n) ==
  /\ norm[n].phase = "staged"
  /\ \/ Link(n, Destination, norm[n].artifact, Derived, "linked")
     \/ LinkFails(n, Destination)

LinkReceipt(n) ==
  /\ norm[n].phase = "linked"
  /\ \/ Link(n, Receipt, norm[n].receipt, ReceiptData, "published")
     \/ LinkFails(n, Receipt)

SyncDirectory(n) ==
  /\ norm[n].phase = "published"
  /\ \/ To(n, "returned") /\ UNCHANGED faults
     \/ To(n, "undo receipt") /\ Fault
  /\ UNCHANGED <<file, clock>>

(* The mutant of UnlinkIfOwned: removes whatever has the name. *)
UnlinkByName(p, staged) == file' = [file EXCEPT ![p] = Absent]

(* _unlink_if_owned: only while the path still is the staged inode. *)
UnlinkIfOwned(p, staged) ==
  file' = [file EXCEPT ![p] = IF file[p].inode = staged THEN Absent ELSE @]

UndoReceipt(n) ==
  /\ norm[n].phase = "undo receipt"
  /\ UnlinkIfOwned(Receipt, norm[n].receipt)
  /\ To(n, "undo artifact")
  /\ UNCHANGED <<clock, faults>>

UndoArtifact(n) ==
  /\ norm[n].phase = "undo artifact"
  /\ UnlinkIfOwned(Destination, norm[n].artifact)
  /\ To(n, "failed")
  /\ UNCHANGED <<clock, faults>>

(* The process dies: staging files and links stay as they are. *)
CrashNormalizer(n) ==
  /\ Active(n) /\ Fault
  /\ To(n, "crashed")
  /\ UNCHANGED <<file, clock>>

NormInit ==
  norm = [n \in Normalizers |-> [phase |-> "idle", source |-> Absent, prefix |-> NoData,
                                 artifact |-> 0, receipt |-> 0]]

NormStep(n) ==
  \/ Resolve(n) \/ OpenSource(n) \/ CopyPrefix(n) \/ VerifyStaged(n) \/ StageReceipt(n)
  \/ LinkArtifact(n) \/ LinkReceipt(n) \/ SyncDirectory(n)
  \/ UndoReceipt(n) \/ UndoArtifact(n) \/ CrashNormalizer(n)

(* The receipt is the commit marker of _publish_staging: whenever a reader *)
(* finds one, the artifact beside it is complete and of the same run, and  *)
(* what a returned run published stays, whatever a losing run rolls back.  *)
ReceiptMarksWhole ==
  /\ Exists(Receipt) => \E n \in Normalizers :
       /\ norm[n].receipt = file[Receipt].inode /\ norm[n].artifact = file[Destination].inode
       /\ file[Destination].data = Derived
  /\ \A n \in Normalizers : norm[n].phase = "returned" => file[Receipt].inode = norm[n].receipt
=============================================================================
