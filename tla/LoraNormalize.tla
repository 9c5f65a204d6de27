-------------------------- MODULE LoraNormalize --------------------------
(* normalize_registered_lora: conversions of one source adapter racing for *)
(* one output path, while another process rewrites or replaces the source. *)
(* The payload is copied in two reads into a private staging file that is  *)
(* published by a hard link, which refuses an existing name.               *)
EXTENDS LoraAdapter, HeldFiles

CONSTANTS
  Converters,    \* runs of the command
  SourcePath     \* the source adapter; the output is NormalPath

ASSUME LoraNormalizeAssumption == {SourcePath, NormalPath} \subseteq Paths /\ SourcePath # NormalPath

VARIABLE conv

To(n, phase) == conv' = [conv EXCEPT ![n].phase = phase]

(* The mutant of SourceUnchanged: the source is still there. *)
SourceRemains(n) == Exists(SourcePath)

(* fstat of the descriptor, then the path: both still the snapshot. *)
SourceUnchanged(n) == file[SourcePath] = conv[n].held

Begin(n) ==
  /\ conv[n].phase = "idle"
  /\ \E profile \in Profiles :
       conv' = [conv EXCEPT ![n].phase = IF Exists(NormalPath) THEN "refused" ELSE "resolved",
                            ![n].profile = profile]
  /\ UNCHANGED <<file, clock>>

OpenAdapter(n) ==
  /\ conv[n].phase = "resolved"
  /\ IF Exists(SourcePath)
     THEN conv' = [conv EXCEPT ![n].phase = "opened", ![n].held = file[SourcePath]]
     ELSE To(n, "failed")
  /\ UNCHANGED <<file, clock>>

(* The path's stat against the descriptor's: refused once replaced. *)
Snapshot(n) ==
  /\ conv[n].phase = "opened"
  /\ IF Exists(SourcePath) /\ file[SourcePath].inode = conv[n].held.inode
     THEN conv' = [conv EXCEPT ![n].phase = "bound", ![n].held = file[SourcePath]]
     ELSE To(n, "failed")
  /\ UNCHANGED <<file, clock>>

(* Header, contract, the new header, and the private staging file. *)
ReadHeader(n) ==
  LET read == HeldData(SourcePath, conv[n].held)
  IN /\ conv[n].phase = "bound"
     /\ IF SourceAccepted(conv[n].profile, HeaderOf(read.head))
        THEN /\ conv' = [conv EXCEPT ![n].phase = "copying", ![n].head = read.head,
                                     ![n].staged = clock + 1]
             /\ clock' = clock + 1
        ELSE To(n, "failed") /\ UNCHANGED clock
     /\ UNCHANGED file

(* _copy_exact: a short source fails the run, which unlinks its staging. *)
CopyPart(n) ==
  LET body == HeldData(SourcePath, conv[n].held).body
  IN /\ conv[n].phase = "copying"
     /\ Len(conv[n].parts) < 2
     /\ IF body \in Truncated THEN To(n, "failed")
        ELSE conv' = [conv EXCEPT ![n].parts = Append(@, body)]
     /\ UNCHANGED <<file, clock>>

VerifySource(n) ==
  /\ conv[n].phase = "copying"
  /\ Len(conv[n].parts) = 2
  /\ To(n, IF SourceUnchanged(n) THEN "verified" ELSE "failed")
  /\ UNCHANGED <<file, clock>>

StagedData(n) ==
  [head |-> [id |-> conv[n].head.id, as |-> conv[n].profile],
   body |-> IF conv[n].parts[1] = conv[n].parts[2] THEN conv[n].parts[1] ELSE "mixed"]

(* _verify_output of the staging nobody else writes, then os.link. *)
Publish(n) ==
  /\ conv[n].phase = "verified"
  /\ IF Exists(NormalPath) THEN To(n, "failed") /\ UNCHANGED file
     ELSE /\ file' = [file EXCEPT ![NormalPath] = [inode |-> conv[n].staged,
                                                   stamp |-> conv[n].staged,
                                                   data |-> StagedData(n)]]
          /\ To(n, "returned")
  /\ UNCHANGED clock

ConvInit ==
  conv = [n \in Converters |-> [phase |-> "idle", profile |-> "turbo", held |-> Absent,
                                head |-> NoData.head, parts |-> <<>>, staged |-> 0]]

ConvStep(n) ==
  \/ Begin(n) \/ OpenAdapter(n) \/ Snapshot(n) \/ ReadHeader(n) \/ CopyPart(n)
  \/ VerifySource(n) \/ Publish(n)

(* A run that returned published the normalization of one content the     *)
(* source really had, accepted by the profile, and no other run replaces   *)
(* it: never a header of one adapter over the payload of another, nor a    *)
(* payload that changed while it was copied (normalize.py 345-430).        *)
PublishedIsNormalized ==
  \A n \in Converters : conv[n].phase = "returned" =>
    /\ file[NormalPath].inode = conv[n].staged
    /\ file[NormalPath].data = Normalized(conv[n].profile, conv[n].held.data)
    /\ NormalizedAccepted(conv[n].profile, HeaderOf(file[NormalPath].data.head))
=============================================================================
