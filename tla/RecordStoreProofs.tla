------------------------- MODULE RecordStoreProofs -------------------------
(* What the record store guarantees for any number of logs, segments,        *)
(* faults, pins and passes: the inductive invariant, that every step of the  *)
(* recorder, the labels, the pins and the pruner keeps it, and the           *)
(* properties that follow.  Two locks are at work: the flock, under which a  *)
(* sidecar is read and replaced and a log unlinked, and the open set, which  *)
(* a recorder enters with a name that nobody had before.                     *)
EXTENDS RecordStore, TLAPS

Sidecar == [state : {"ok", "absent", "corrupt"}, pod : Bucket, pinned : BOOLEAN,
            segments : Seq(WakeClass)]
Tier == {"Ungated", "Positive"}
Label == [path : Path, seg : Nat, class : WakeClass]
Entry == [path : Path, sidecar : BOOLEAN, corrupt : BOOLEAN, tier : Tier, pinned : BOOLEAN,
          age_key : Nat, pod : Bucket, open : BOOLEAN]

RecorderStates == {"off", "starting", "open", "renaming", "renamed", "rolling", "rolled",
                   "writing", "unreadable"}
PrunerStates == {"idle", "list", "openness", "drain", "lock", "unlink_sidecar", "unlink_framelog"}
Naming == {"renaming", "renamed", "rolling", "rolled"}
Unlinking == {"unlink_sidecar", "unlink_framelog"}

TypeOK ==
  /\ used \in 0..MaxPath
  /\ framelogs \subseteq 1..used /\ open_logs \subseteq 1..used
  /\ sidecar \in [Path -> Sidecar] /\ buf \in Sidecar /\ mem \in Sidecar
  /\ lock \in {"free", "recorder", "label", "pin", "pruner"}
  /\ rpc \in RecorderStates /\ ppc \in PrunerStates
  /\ log_name \in 0..used /\ new_name \in 0..used /\ pin \in 0..used
  /\ recorded \in [Path -> Nat]

LabelInv ==
  /\ lab.path \in 0..used /\ lab.seg \in Nat /\ lab.class \in WakeClass
  /\ recent \subseteq Label /\ \A r \in recent : r.path \in 1..used

(* Who holds the flock is at the step that it guards. *)
LockInv ==
  /\ lock = "recorder" <=> rpc \in {"writing", "unreadable"}
  /\ lock = "pin" <=> pin # NoPath
  /\ lock = "pruner" <=> ppc \in Unlinking
  /\ lock = "label" => lab.path # NoPath

(* The names in use are open, and a name about to be taken is new. *)
NameInv ==
  /\ rpc # "off" => log_name \in open_logs
  /\ rpc \in Naming => new_name \in open_logs /\ new_name # log_name
  /\ rpc \in {"renamed", "rolled"} => new_name \in framelogs
  /\ rpc \in {"open", "renaming", "rolling", "rolled", "writing", "unreadable"} => log_name \in framelogs

(* A path enters the inventory with a log, and leaves it for deletion only   *)
(* when no recorder has it.                                                  *)
PrunerInv ==
  /\ listing \subseteq 1..used
  /\ \A e \in inv \cup left : e.path \in 1..used
  /\ ppc = "openness" => entry \in Entry /\ entry.path \in 1..used
  /\ ppc \in {"lock"} \cup Unlinking => entry.path \in (1..used) \ open_logs
  /\ ppc \in Unlinking => entry.path \notin pins
  /\ ppc = "unlink_sidecar" => TierLeq(TierOf(sidecar[entry.path]), entry.tier)

(* What a writer has read and will put in place. *)
Replaces(p, n) ==
  /\ buf.state = "ok"
  /\ sidecar[p].state # "corrupt"
  /\ sidecar[p].pinned => buf.pinned
  /\ Len(buf.segments) >= n

BufInv ==
  /\ rpc = "writing" => Replaces(log_name, recorded[log_name] + 1)
  /\ lock = "label" => Replaces(lab.path, recorded[lab.path])
  /\ lock = "pin" => buf.pinned /\ Replaces(pin, recorded[pin])

(* The recorder's own list and the file agree on how many segments there are. *)
CountInv ==
  /\ \A p \in Path : p > used => recorded[p] = 0
  /\ \A p \in Path : sidecar[p].state = "absent" => sidecar[p] = NoSidecar
  /\ mem = NoSidecar \/ mem.state = "ok"
  /\ rpc \in {"starting", "renaming"} => mem = NoSidecar
  /\ rpc \in Naming => recorded[new_name] = 0
  /\ rpc \in {"starting", "open", "renaming", "rolling"} => Len(mem.segments) = recorded[log_name]
  /\ rpc = "writing" => Len(mem.segments) = recorded[log_name] + 1
  /\ \A p \in Path : sidecar[p].state # "corrupt" => Len(sidecar[p].segments) >= recorded[p]

IInv == TypeOK /\ LabelInv /\ LockInv /\ NameInv /\ PrunerInv /\ BufInv /\ CountInv /\ PinnedIsKept

-----------------------------------------------------------------------------
(* The sidecars the writers make. *)

LEMMA SidecarTypes ==
  /\ NoSidecar \in Sidecar /\ Corrupt \in Sidecar
  /\ Len(NoSidecar.segments) = 0 /\ Corrupt.state = "corrupt"
  /\ \A b \in Bucket : /\ NewSidecar(b) \in Sidecar /\ NewSidecar(b).state = "ok"
                       /\ Len(NewSidecar(b).segments) = 0
BY DEF NoSidecar, Corrupt, NewSidecar, Sidecar, Bucket, WakeClass

(* write_within_lock keeps the pin and the length of the list. *)
LEMMA MergedKeeps ==
  ASSUME NEW self \in Sidecar, NEW disk \in Sidecar
  PROVE  /\ Merged(self, disk) \in Sidecar
         /\ Merged(self, disk).state = self.state
         /\ Merged(self, disk).pinned <=> self.pinned \/ disk.pinned
         /\ Len(Merged(self, disk).segments) = Len(self.segments)
<1> DEFINE segs == [i \in DOMAIN self.segments |->
              IF i \in DOMAIN disk.segments /\ self.segments[i] = "Ungated"
              THEN disk.segments[i] ELSE self.segments[i]]
<1>1. /\ self.segments \in Seq(WakeClass) /\ disk.segments \in Seq(WakeClass)
      /\ self.pinned \in BOOLEAN /\ disk.pinned \in BOOLEAN
  BY Zenon DEF Sidecar
<1>2. segs \in [1..Len(self.segments) -> WakeClass]
  BY <1>1
<1>3. segs \in Seq(WakeClass) /\ Len(segs) = Len(self.segments)
  BY <1>1, <1>2
<1> HIDE DEF segs
<1>4. Merged(self, disk) = [state |-> self.state, pod |-> self.pod,
                            pinned |-> self.pinned \/ disk.pinned, segments |-> segs]
  BY Zenon DEF Merged, segs
<1>. QED  BY <1>1, <1>3, <1>4 DEF Sidecar

LEMMA InitEstablishes == Init => IInv
BY StoreAssumption, SidecarTypes
   DEF Init, IInv, TypeOK, LabelInv, LockInv, NameInv, PrunerInv, BufInv, CountInv, PinnedIsKept, NoLabel,
       NoPath, RecorderStates, PrunerStates, Naming, Unlinking, WakeClass, Path, NoSidecar, NoEntry

-----------------------------------------------------------------------------
(* What each part of the invariant is about: a step that leaves those         *)
(* variables alone keeps the part.                                            *)

LEMMA TypeFrame ==
  ASSUME TypeOK, UNCHANGED <<used, framelogs, open_logs, sidecar, buf, mem, lock, rpc, ppc, log_name, new_name, pin, recorded>>
  PROVE  TypeOK'
BY Zenon DEF TypeOK

LEMMA LabelFrame ==
  ASSUME LabelInv, UNCHANGED <<lab, recent, used>>
  PROVE  LabelInv'
BY Zenon DEF LabelInv

LEMMA LockFrame ==
  ASSUME LockInv, UNCHANGED <<lock, rpc, pin, ppc, lab>>
  PROVE  LockInv'
BY Zenon DEF LockInv

LEMMA NameFrame ==
  ASSUME NameInv, UNCHANGED <<rpc, log_name, new_name, open_logs, framelogs>>
  PROVE  NameInv'
BY Zenon DEF NameInv

LEMMA PrunerFrame ==
  ASSUME PrunerInv, UNCHANGED <<listing, inv, left, ppc, entry, open_logs, pins, used, sidecar>>
  PROVE  PrunerInv'
BY Zenon DEF PrunerInv

LEMMA BufFrame ==
  ASSUME BufInv, UNCHANGED <<rpc, lock, buf, sidecar, log_name, lab, pin, recorded>>
  PROVE  BufInv'
BY Zenon DEF BufInv, Replaces

LEMMA CountFrame ==
  ASSUME CountInv, UNCHANGED <<used, recorded, sidecar, mem, rpc, new_name, log_name>>
  PROVE  CountInv'
BY Zenon DEF CountInv

LEMMA PinnedFrame ==
  ASSUME PinnedIsKept, UNCHANGED <<pins, framelogs, sidecar>>
  PROVE  PinnedIsKept'
BY Zenon DEF PinnedIsKept

-----------------------------------------------------------------------------
(* A name that nobody had. *)
LEMMA StartRecordingPreserves ==
  ASSUME IInv, StartRecording PROVE IInv'
<1>1. /\ used' = used + 1 /\ used' \in 1..MaxPath /\ used \in 0..MaxPath
      /\ 1..used \subseteq 1..used' /\ 0..used \subseteq 0..used'
  BY StoreAssumption DEF IInv, TypeOK, StartRecording
<1>2. UNCHANGED <<framelogs, sidecar, lock, new_name, lab, recent, pin, ppc, listing, entry,
          inv, left, buf, pins, recorded>>
  BY Zenon DEF StartRecording, pipeline, pruner, history
<1>3. TypeOK'
  BY <1>1, <1>2, StoreAssumption, SidecarTypes
     DEF IInv, TypeOK, NoPath, RecorderStates, PrunerStates, Path, StartRecording
<1>4. LabelInv'
  BY <1>1, <1>2, StoreAssumption, Zenon
     DEF IInv, TypeOK, LabelInv, NoPath, StartRecording
<1>5. LockInv'
  BY <1>1, <1>2, Zenon
     DEF IInv, LockInv, TypeOK, NoPath, Unlinking, StartRecording
<1>6. NameInv'
  BY <1>1, <1>2, Zenon
     DEF IInv, TypeOK, NameInv, Naming, StartRecording
<1>7. PrunerInv'
  BY <1>1, <1>2, StoreAssumption
     DEF IInv, TypeOK, NameInv, LockInv, PrunerInv, Unlinking, StartRecording
<1>8. BufInv'
  BY <1>1, <1>2, StoreAssumption, SidecarTypes, Zenon
     DEF IInv, TypeOK, LabelInv, LockInv, NameInv, BufInv, CountInv, Replaces, NoPath, Path, Naming, StartRecording
<1>9. CountInv'
  BY <1>1, <1>2, StoreAssumption, SidecarTypes
     DEF IInv, TypeOK, LabelInv, NameInv, LockInv, BufInv, CountInv, Replaces, Naming, NoPath, Path, StartRecording
<1>10. PinnedIsKept'
  BY <1>2, PinnedFrame, Zenon DEF IInv
<1>. QED  BY <1>3, <1>4, <1>5, <1>6, <1>7, <1>8, <1>9, <1>10, Zenon DEF IInv

(* The next name, for a log that is renamed or followed by another. *)
LEMMA TakeNamePreserves ==
  ASSUME IInv, NEW next \in {"renaming", "rolling"}, TakeName(next),
         next = "renaming" => mem = NoSidecar
  PROVE  IInv'
<1>1. /\ used' = used + 1 /\ used' \in 1..MaxPath /\ used \in 0..MaxPath
      /\ 1..used \subseteq 1..used' /\ 0..used \subseteq 0..used'
  BY StoreAssumption DEF IInv, TypeOK, TakeName
<1>2. UNCHANGED <<framelogs, sidecar, lock, log_name, mem, lab, recent, pin, ppc, listing,
          entry, inv, left, buf, pins, recorded>>
  BY Zenon DEF TakeName, pipeline, pruner, history
<1>3. TypeOK'
  BY <1>1, <1>2, StoreAssumption, SidecarTypes
     DEF IInv, TypeOK, NoPath, RecorderStates, PrunerStates, Path, TakeName
<1>4. LabelInv'
  BY <1>1, <1>2, StoreAssumption, Zenon
     DEF IInv, TypeOK, LabelInv, NoPath, TakeName
<1>5. LockInv'
  BY <1>1, <1>2, Zenon
     DEF IInv, LockInv, TypeOK, NoPath, Unlinking, TakeName
<1>6. NameInv'
  BY <1>1, <1>2
     DEF IInv, TypeOK, NameInv, Naming, TakeName
<1>7. PrunerInv'
  BY <1>1, <1>2, StoreAssumption
     DEF IInv, TypeOK, NameInv, LockInv, PrunerInv, Unlinking, TakeName
<1>8. BufInv'
  BY <1>1, <1>2, StoreAssumption, SidecarTypes, Zenon
     DEF IInv, TypeOK, LabelInv, LockInv, NameInv, BufInv, CountInv, Replaces, NoPath, Path, Naming, TakeName
<1>9. CountInv'
  BY <1>1, <1>2, StoreAssumption, SidecarTypes
     DEF IInv, TypeOK, LabelInv, NameInv, LockInv, BufInv, CountInv, Replaces, Naming, NoPath, Path, TakeName
<1>10. PinnedIsKept'
  BY <1>2, PinnedFrame, Zenon DEF IInv
<1>. QED  BY <1>3, <1>4, <1>5, <1>6, <1>7, <1>8, <1>9, <1>10, Zenon DEF IInv

(* The recorder goes on under the new name. *)
LEMMA AdoptPreserves ==
  ASSUME IInv, rpc \in {"renamed", "rolled"}, Adopt,
         UNCHANGED <<framelogs, sidecar, lock, used, pipeline, pin, pruner, buf, history>>
  PROVE  IInv'
<1>1. NewSidecar("Pod") \in Sidecar /\ NewSidecar("Pod").state = "ok" /\ Len(NewSidecar("Pod").segments) = 0
  BY SidecarTypes, Zenon DEF Bucket
<1>2. UNCHANGED <<framelogs, sidecar, lock, used, lab, recent, pin, ppc, listing, entry,
          inv, left, buf, pins, recorded>>
  BY Zenon DEF pipeline, pruner, history
<1>3. TypeOK'
  BY <1>1, <1>2, StoreAssumption, SidecarTypes
     DEF IInv, TypeOK, NoPath, RecorderStates, PrunerStates, Path, Adopt
<1>4. LabelInv'
  BY <1>2, LabelFrame, Zenon DEF IInv
<1>5. LockInv'
  BY <1>1, <1>2, Zenon
     DEF IInv, LockInv, TypeOK, NoPath, Unlinking, Adopt
<1>6. NameInv'
  BY <1>1, <1>2, Zenon
     DEF IInv, TypeOK, NameInv, Naming, Adopt
<1>7. PrunerInv'
  BY <1>1, <1>2, StoreAssumption, Zenon
     DEF IInv, TypeOK, NameInv, LockInv, PrunerInv, Unlinking, Adopt
<1>8. BufInv'
  BY <1>1, <1>2, StoreAssumption, SidecarTypes, Zenon
     DEF IInv, TypeOK, LabelInv, LockInv, NameInv, BufInv, CountInv, Replaces, NoPath, Path, Naming, Adopt
<1>9. CountInv'
  BY <1>1, <1>2, StoreAssumption, SidecarTypes, Zenon
     DEF IInv, TypeOK, LabelInv, NameInv, LockInv, BufInv, CountInv, Replaces, Naming, NoPath, Path, Adopt
<1>10. PinnedIsKept'
  BY <1>2, PinnedFrame, Zenon DEF IInv
<1>. QED  BY <1>3, <1>4, <1>5, <1>6, <1>7, <1>8, <1>9, <1>10, Zenon DEF IInv

(* A rename that the disk refuses. *)
LEMMA RenameFailsPreserves ==
  ASSUME IInv, RenameFails PROVE IInv'
<1>1. NewSidecar("Pod") \in Sidecar /\ NewSidecar("Pod").state = "ok" /\ Len(NewSidecar("Pod").segments) = 0
  BY SidecarTypes, Zenon DEF Bucket
<1>2. UNCHANGED <<framelogs, sidecar, lock, log_name, used, lab, recent, pin, ppc, listing,
          entry, inv, left, buf, pins, recorded>>
  BY Zenon DEF RenameFails, pipeline, pruner, history
<1>3. TypeOK'
  BY <1>1, <1>2, StoreAssumption, SidecarTypes
     DEF IInv, TypeOK, NoPath, RecorderStates, PrunerStates, Path, RenameFails, Fault
<1>4. LabelInv'
  BY <1>2, LabelFrame, Zenon DEF IInv
<1>5. LockInv'
  BY <1>1, <1>2, Zenon
     DEF IInv, LockInv, TypeOK, NoPath, Unlinking, RenameFails, Fault
<1>6. NameInv'
  BY <1>1, <1>2, Zenon
     DEF IInv, TypeOK, NameInv, Naming, RenameFails, Fault
<1>7. PrunerInv'
  BY <1>1, <1>2, StoreAssumption, Zenon
     DEF IInv, TypeOK, NameInv, LockInv, PrunerInv, Unlinking, RenameFails, Fault
<1>8. BufInv'
  BY <1>1, <1>2, StoreAssumption, SidecarTypes, Zenon
     DEF IInv, TypeOK, LabelInv, LockInv, NameInv, BufInv, CountInv, Replaces, NoPath, Path, Naming, RenameFails, Fault
<1>9. CountInv'
  BY <1>1, <1>2, StoreAssumption, SidecarTypes, Zenon
     DEF IInv, TypeOK, LabelInv, NameInv, LockInv, BufInv, CountInv, Replaces, Naming, NoPath, Path, RenameFails, Fault
<1>10. PinnedIsKept'
  BY <1>2, PinnedFrame, Zenon DEF IInv
<1>. QED  BY <1>3, <1>4, <1>5, <1>6, <1>7, <1>8, <1>9, <1>10, Zenon DEF IInv

(* A recorder lets go of its log. *)
LEMMA StoppedPreserves ==
  ASSUME IInv, NEW closed, Stopped(closed), rpc \notin {"writing", "unreadable"},
         UNCHANGED <<framelogs, sidecar, lock, pipeline, pin, pruner, buf, history>>
  PROVE  IInv'
<1>1. /\ rpc' = "off" /\ log_name' = NoPath /\ new_name' = NoPath /\ mem' = NoSidecar
      /\ used' = used /\ open_logs' \subseteq open_logs
  BY Zenon DEF Stopped
<1>2. UNCHANGED <<framelogs, sidecar, lock, lab, recent, pin, ppc, listing, entry, inv,
          left, buf, pins, recorded>>
  BY Zenon DEF pipeline, pruner, history
<1>3. TypeOK'
  BY <1>1, <1>2, StoreAssumption, SidecarTypes
     DEF IInv, TypeOK, NoPath, RecorderStates, PrunerStates, Path
<1>4. LabelInv'
  BY <1>1, <1>2, StoreAssumption, Zenon
     DEF IInv, TypeOK, LabelInv, NoPath
<1>5. LockInv'
  BY <1>1, <1>2, Zenon
     DEF IInv, LockInv, TypeOK, NoPath, Unlinking
<1>6. NameInv'
  BY <1>1, <1>2, Zenon
     DEF IInv, TypeOK, NameInv, Naming
<1>7. PrunerInv'
  BY <1>1, <1>2, StoreAssumption, Zenon
     DEF IInv, TypeOK, NameInv, LockInv, PrunerInv, Unlinking
<1>8. BufInv'
  BY <1>1, <1>2, StoreAssumption, SidecarTypes, Zenon
     DEF IInv, TypeOK, LabelInv, LockInv, NameInv, BufInv, CountInv, Replaces, NoPath, Path, Naming
<1>9. CountInv'
  BY <1>1, <1>2, StoreAssumption, SidecarTypes, Zenon
     DEF IInv, TypeOK, LabelInv, NameInv, LockInv, BufInv, CountInv, Replaces, Naming, NoPath, Path
<1>10. PinnedIsKept'
  BY <1>2, PinnedFrame, Zenon DEF IInv
<1>. QED  BY <1>3, <1>4, <1>5, <1>6, <1>7, <1>8, <1>9, <1>10, Zenon DEF IInv

(* Nothing of all this happens. *)
LEMMA SamePreserves ==
  ASSUME IInv, UNCHANGED <<framelogs, sidecar, lock, open_logs, rpc, log_name, new_name, mem, used,
                            pipeline, pin, pruner, buf, history>>
  PROVE  IInv'
<1>1. UNCHANGED <<framelogs, sidecar, lock, open_logs, rpc, log_name, new_name, mem, used,
          lab, recent, pin, ppc, listing, entry, inv, left, buf, pins, recorded>>
  BY Zenon DEF pipeline, pruner, history
<1>2. TypeOK'
  BY <1>1, TypeFrame, Zenon DEF IInv
<1>3. LabelInv'
  BY <1>1, LabelFrame, Zenon DEF IInv
<1>4. LockInv'
  BY <1>1, LockFrame, Zenon DEF IInv
<1>5. NameInv'
  BY <1>1, NameFrame, Zenon DEF IInv
<1>6. PrunerInv'
  BY <1>1, PrunerFrame, Zenon DEF IInv
<1>7. BufInv'
  BY <1>1, BufFrame, Zenon DEF IInv
<1>8. CountInv'
  BY <1>1, CountFrame, Zenon DEF IInv
<1>9. PinnedIsKept'
  BY <1>1, PinnedFrame, Zenon DEF IInv
<1>. QED  BY <1>2, <1>3, <1>4, <1>5, <1>6, <1>7, <1>8, <1>9, Zenon DEF IInv

(* The log file is there. *)
LEMMA CreateLogPreserves ==
  ASSUME IInv, CreateLog PROVE IInv'
<1>1. UNCHANGED <<sidecar, lock, open_logs, log_name, new_name, mem, used, lab, recent, pin,
          ppc, listing, entry, inv, left, buf, pins, recorded>>
  BY Zenon DEF CreateLog, pipeline, pruner, history
<1>2. TypeOK'
  BY <1>1, StoreAssumption, SidecarTypes, Zenon
     DEF IInv, TypeOK, NameInv, Naming, NoPath, RecorderStates, PrunerStates, Path, CreateLog
<1>3. LabelInv'
  BY <1>1, LabelFrame, Zenon DEF IInv
<1>4. LockInv'
  BY <1>1, Zenon
     DEF IInv, LockInv, TypeOK, NoPath, Unlinking, CreateLog
<1>5. NameInv'
  BY <1>1, Zenon
     DEF IInv, TypeOK, NameInv, Naming, CreateLog
<1>6. PrunerInv'
  BY <1>1, PrunerFrame, Zenon DEF IInv
<1>7. BufInv'
  BY <1>1, StoreAssumption, SidecarTypes, Zenon
     DEF IInv, TypeOK, LabelInv, LockInv, NameInv, BufInv, CountInv, Replaces, NoPath, Path, Naming, CreateLog
<1>8. CountInv'
  BY <1>1, StoreAssumption, SidecarTypes, Zenon
     DEF IInv, TypeOK, LabelInv, NameInv, LockInv, BufInv, CountInv, Replaces, Naming, NoPath, Path, CreateLog
<1>9. PinnedIsKept'
  BY <1>1, StoreAssumption, Zenon
     DEF IInv, TypeOK, NameInv, LockInv, BufInv, PrunerInv, Replaces, PinnedIsKept, NoPath, Path, Unlinking, CreateLog
<1>. QED  BY <1>2, <1>3, <1>4, <1>5, <1>6, <1>7, <1>8, <1>9, Zenon DEF IInv

(* The frame log takes its new name. *)
LEMMA RenameLogPreserves ==
  ASSUME IInv, RenameLog PROVE IInv'
<1>1. UNCHANGED <<sidecar, lock, open_logs, log_name, new_name, mem, used, lab, recent, pin,
          ppc, listing, entry, inv, left, buf, recorded>>
  BY Zenon DEF RenameLog, pipeline, pruner
<1>2. TypeOK'
  BY <1>1, StoreAssumption, SidecarTypes, Zenon
     DEF IInv, TypeOK, NameInv, Naming, NoPath, RecorderStates, PrunerStates, Path, RenameLog
<1>3. LabelInv'
  BY <1>1, LabelFrame, Zenon DEF IInv
<1>4. LockInv'
  BY <1>1, Zenon
     DEF IInv, LockInv, TypeOK, NoPath, Unlinking, RenameLog
<1>5. NameInv'
  BY <1>1, Zenon
     DEF IInv, TypeOK, NameInv, Naming, RenameLog
<1>6. PrunerInv'
  BY <1>1, StoreAssumption, Zenon
     DEF IInv, TypeOK, NameInv, LockInv, PrunerInv, Unlinking, RenameLog
<1>7. BufInv'
  BY <1>1, StoreAssumption, SidecarTypes, Zenon
     DEF IInv, TypeOK, LabelInv, LockInv, NameInv, BufInv, CountInv, Replaces, NoPath, Path, Naming, RenameLog
<1>8. CountInv'
  BY <1>1, StoreAssumption, SidecarTypes, Zenon
     DEF IInv, TypeOK, LabelInv, NameInv, LockInv, BufInv, CountInv, Replaces, Naming, NoPath, Path, RenameLog
<1>9. PinnedIsKept'
  BY <1>1, StoreAssumption, Zenon
     DEF IInv, TypeOK, NameInv, LockInv, BufInv, PrunerInv, Replaces, PinnedIsKept, NoPath, Path, Unlinking, RenameLog
<1>. QED  BY <1>2, <1>3, <1>4, <1>5, <1>6, <1>7, <1>8, <1>9, Zenon DEF IInv

(* The next log file is there. *)
LEMMA RollToPreserves ==
  ASSUME IInv, RollTo PROVE IInv'
<1>1. UNCHANGED <<sidecar, lock, open_logs, log_name, new_name, mem, used, lab, recent, pin,
          ppc, listing, entry, inv, left, buf, pins, recorded>>
  BY Zenon DEF RollTo, pipeline, pruner, history
<1>2. TypeOK'
  BY <1>1, StoreAssumption, SidecarTypes, Zenon
     DEF IInv, TypeOK, NameInv, Naming, NoPath, RecorderStates, PrunerStates, Path, RollTo
<1>3. LabelInv'
  BY <1>1, LabelFrame, Zenon DEF IInv
<1>4. LockInv'
  BY <1>1, Zenon
     DEF IInv, LockInv, TypeOK, NoPath, Unlinking, RollTo
<1>5. NameInv'
  BY <1>1, Zenon
     DEF IInv, TypeOK, NameInv, Naming, RollTo
<1>6. PrunerInv'
  BY <1>1, PrunerFrame, Zenon DEF IInv
<1>7. BufInv'
  BY <1>1, StoreAssumption, SidecarTypes, Zenon
     DEF IInv, TypeOK, LabelInv, LockInv, NameInv, BufInv, CountInv, Replaces, NoPath, Path, Naming, RollTo
<1>8. CountInv'
  BY <1>1, StoreAssumption, SidecarTypes, Zenon
     DEF IInv, TypeOK, LabelInv, NameInv, LockInv, BufInv, CountInv, Replaces, Naming, NoPath, Path, RollTo
<1>9. PinnedIsKept'
  BY <1>1, StoreAssumption, Zenon
     DEF IInv, TypeOK, NameInv, LockInv, BufInv, PrunerInv, Replaces, PinnedIsKept, NoPath, Path, Unlinking, RollTo
<1>. QED  BY <1>2, <1>3, <1>4, <1>5, <1>6, <1>7, <1>8, <1>9, Zenon DEF IInv

(* The sidecar is read, and the rewrite made from it. *)
LEMMA RecordSegmentPreserves ==
  ASSUME IInv, RecordSegment PROVE IInv'
<1> DEFINE pushed == [mem EXCEPT !.segments = Append(@, "Ungated")]
           merged == Merged(pushed, sidecar[log_name])
<1>1. log_name \in Path /\ sidecar[log_name] \in Sidecar /\ mem \in Sidecar
  BY StoreAssumption DEF RecordSegment, IInv, TypeOK, NameInv, Path
<1>2. pushed \in Sidecar /\ pushed.state = mem.state /\ Len(pushed.segments) = Len(mem.segments) + 1
  <2>1. mem.segments \in Seq(WakeClass) /\ "Ungated" \in WakeClass
    BY <1>1, Zenon DEF Sidecar, WakeClass
  <2>2. /\ Append(mem.segments, "Ungated") \in Seq(WakeClass)
        /\ Len(Append(mem.segments, "Ungated")) = Len(mem.segments) + 1
    BY <2>1
  <2>. QED  BY <1>1, <2>2, Zenon DEF Sidecar
<1>3. /\ merged \in Sidecar /\ merged.state = mem.state
      /\ sidecar[log_name].pinned => merged.pinned
      /\ Len(merged.segments) = Len(mem.segments) + 1
  <2> HIDE DEF pushed
  <2>. QED  BY <1>1, <1>2, MergedKeeps, Zenon
<1>4. IF sidecar[log_name].state = "corrupt"
      THEN mem' = pushed /\ rpc' = "unreadable" /\ UNCHANGED buf
      ELSE mem' = merged /\ rpc' = "writing" /\ buf' = merged
  BY Zenon DEF RecordSegment
<1>5. rpc = "open" /\ mem # NoSidecar /\ lock = "free" /\ lock' = "recorder"
  BY Zenon DEF RecordSegment, LockStore
<1> HIDE DEF pushed, merged
<1>6. UNCHANGED <<framelogs, sidecar, open_logs, log_name, new_name, used, lab, recent, pin,
          ppc, listing, entry, inv, left, pins, recorded>>
  BY Zenon DEF RecordSegment, pipeline, pruner, history
<1>7. TypeOK'
  BY <1>1, <1>2, <1>3, <1>4, <1>5, <1>6, StoreAssumption, SidecarTypes, Zenon
     DEF IInv, TypeOK, NoPath, RecorderStates, PrunerStates, Path
<1>8. LabelInv'
  BY <1>6, LabelFrame, Zenon DEF IInv
<1>9. LockInv'
  BY <1>1, <1>2, <1>3, <1>4, <1>5, <1>6, Zenon
     DEF IInv, LockInv, TypeOK, NoPath, Unlinking
<1>10. NameInv'
  BY <1>1, <1>2, <1>3, <1>4, <1>5, <1>6, Zenon
     DEF IInv, TypeOK, NameInv, Naming
<1>11. PrunerInv'
  BY <1>6, PrunerFrame, Zenon DEF IInv
<1>12. BufInv'
  BY <1>1, <1>2, <1>3, <1>4, <1>5, <1>6, StoreAssumption, SidecarTypes, SMTT(20)
     DEF IInv, TypeOK, LabelInv, LockInv, NameInv, BufInv, CountInv, Replaces, NoPath, Path, Naming
<1>13. CountInv'
  BY <1>1, <1>2, <1>3, <1>4, <1>5, <1>6, StoreAssumption, SidecarTypes, Zenon
     DEF IInv, TypeOK, LabelInv, NameInv, LockInv, BufInv, CountInv, Replaces, Naming, NoPath, Path
<1>14. PinnedIsKept'
  BY <1>6, PinnedFrame, Zenon DEF IInv
<1>. QED  BY <1>7, <1>8, <1>9, <1>10, <1>11, <1>12, <1>13, <1>14, Zenon DEF IInv

(* The rewritten sidecar lands. *)
LEMMA SegmentWrittenPreserves ==
  ASSUME IInv, SegmentWritten PROVE IInv'
<1>1. Len(mem.segments) \in Nat /\ log_name \in Path /\ log_name \in 1..used
  <2>1. mem.segments \in Seq(WakeClass)
    BY Zenon DEF IInv, TypeOK, Sidecar
  <2>2. log_name \in open_logs /\ open_logs \subseteq 1..used /\ used \in 0..MaxPath
    BY Zenon DEF IInv, TypeOK, NameInv, SegmentWritten
  <2>. QED  BY <2>1, <2>2, StoreAssumption DEF Path
<1>2. recent' \subseteq Label /\ \A r \in recent' : r.path \in 1..used
  BY <1>1 DEF IInv, LabelInv, SegmentWritten, ToPipeline, Label, WakeClass
<1>3. UNCHANGED <<framelogs, open_logs, log_name, new_name, mem, used, lab, pin, ppc,
          listing, entry, inv, left, pins>>
  BY Zenon DEF SegmentWritten, pruner
<1>4. TypeOK'
  BY <1>1, <1>2, <1>3, StoreAssumption, SidecarTypes
     DEF IInv, TypeOK, NoPath, RecorderStates, PrunerStates, Path, SegmentWritten, Renamed
<1>5. LabelInv'
  BY <1>1, <1>2, <1>3, StoreAssumption, Zenon
     DEF IInv, TypeOK, LabelInv, NoPath, SegmentWritten, Renamed
<1>6. LockInv'
  BY <1>1, <1>2, <1>3, Zenon
     DEF IInv, LockInv, TypeOK, NoPath, Unlinking, SegmentWritten, Renamed
<1>7. NameInv'
  BY <1>1, <1>2, <1>3, Zenon
     DEF IInv, TypeOK, NameInv, Naming, SegmentWritten, Renamed
<1>8. PrunerInv'
  BY <1>1, <1>2, <1>3, StoreAssumption, Zenon
     DEF IInv, TypeOK, NameInv, LockInv, PrunerInv, Unlinking, SegmentWritten, Renamed
<1>9. BufInv'
  BY <1>1, <1>2, <1>3, StoreAssumption, SidecarTypes, Zenon
     DEF IInv, TypeOK, LabelInv, LockInv, NameInv, BufInv, CountInv, Replaces, NoPath, Path, Naming, SegmentWritten, Renamed
<1>10. CountInv'
  BY <1>1, <1>2, <1>3, StoreAssumption, SidecarTypes, SMTT(20)
     DEF IInv, TypeOK, LabelInv, NameInv, LockInv, BufInv, CountInv, Replaces, Naming, NoPath, Path, SegmentWritten, Renamed
<1>11. PinnedIsKept'
  BY <1>1, <1>2, <1>3, StoreAssumption
     DEF IInv, TypeOK, NameInv, LockInv, BufInv, PrunerInv, Replaces, PinnedIsKept, NoPath, Path, Unlinking, SegmentWritten, Renamed
<1>. QED  BY <1>4, <1>5, <1>6, <1>7, <1>8, <1>9, <1>10, <1>11, Zenon DEF IInv

(* The rewrite fails, and the recorder with it. *)
LEMMA SidecarWriteFailsPreserves ==
  ASSUME IInv, SidecarWriteFails PROVE IInv'
<1>1. Len(mem.segments) \in Nat /\ log_name \in Path /\ log_name \in 1..used
  <2>1. mem.segments \in Seq(WakeClass)
    BY Zenon DEF IInv, TypeOK, Sidecar
  <2>2. log_name \in open_logs /\ open_logs \subseteq 1..used /\ used \in 0..MaxPath
    BY Zenon DEF IInv, TypeOK, NameInv, SidecarWriteFails
  <2>. QED  BY <2>1, <2>2, StoreAssumption DEF Path
<1>2. recent' \subseteq Label /\ \A r \in recent' : r.path \in 1..used
  BY <1>1 DEF IInv, LabelInv, SidecarWriteFails, ToPipeline, Label, WakeClass
<1>3. UNCHANGED <<framelogs, sidecar, lab, pin, ppc, listing, entry, inv, left, pins,
          recorded>>
  BY Zenon DEF SidecarWriteFails, pruner, history
<1>4. TypeOK'
  BY <1>1, <1>2, <1>3, StoreAssumption, SidecarTypes
     DEF IInv, TypeOK, NoPath, RecorderStates, PrunerStates, Path, SidecarWriteFails, Disable, Stopped
<1>5. LabelInv'
  BY <1>1, <1>2, <1>3, StoreAssumption, Zenon
     DEF IInv, TypeOK, LabelInv, NoPath, SidecarWriteFails, Disable, Stopped
<1>6. LockInv'
  BY <1>1, <1>2, <1>3, Zenon
     DEF IInv, LockInv, TypeOK, NoPath, Unlinking, SidecarWriteFails, Disable, Stopped
<1>7. NameInv'
  BY <1>1, <1>2, <1>3, Zenon
     DEF IInv, TypeOK, NameInv, Naming, SidecarWriteFails, Disable, Stopped
<1>8. PrunerInv'
  BY <1>1, <1>2, <1>3, StoreAssumption, Zenon
     DEF IInv, TypeOK, NameInv, LockInv, PrunerInv, Unlinking, SidecarWriteFails, Disable, Stopped
<1>9. BufInv'
  BY <1>1, <1>2, <1>3, StoreAssumption, SidecarTypes, Zenon
     DEF IInv, TypeOK, LabelInv, LockInv, NameInv, BufInv, CountInv, Replaces, NoPath, Path, Naming, SidecarWriteFails, Disable, Stopped
<1>10. CountInv'
  BY <1>1, <1>2, <1>3, StoreAssumption, SidecarTypes, Zenon
     DEF IInv, TypeOK, LabelInv, NameInv, LockInv, BufInv, CountInv, Replaces, Naming, NoPath, Path, SidecarWriteFails, Disable, Stopped
<1>11. PinnedIsKept'
  BY <1>3, PinnedFrame, Zenon DEF IInv
<1>. QED  BY <1>4, <1>5, <1>6, <1>7, <1>8, <1>9, <1>10, <1>11, Zenon DEF IInv

-----------------------------------------------------------------------------
(* The pruner looks at the store, or decides. *)
LEMMA LooksPreserves ==
  ASSUME IInv, ppc \in PrunerStates \ Unlinking, ppc' \in PrunerStates \ Unlinking, PrunerInv',
         UNCHANGED <<framelogs, sidecar, lock, open_logs, recorder, pipeline, pin, buf, history>>
  PROVE  IInv'
<1>1. UNCHANGED <<framelogs, sidecar, lock, open_logs, rpc, log_name, new_name, mem, used,
          lab, recent, pin, buf, pins, recorded>>
  BY Zenon DEF recorder, pipeline, history
<1>2. TypeOK'
  BY <1>1, StoreAssumption, SidecarTypes, Zenon
     DEF IInv, TypeOK, NoPath, RecorderStates, PrunerStates, Path
<1>3. LabelInv'
  BY <1>1, LabelFrame, Zenon DEF IInv
<1>4. LockInv'
  BY <1>1, Zenon
     DEF IInv, LockInv, TypeOK, NoPath, Unlinking
<1>5. NameInv'
  BY <1>1, NameFrame, Zenon DEF IInv
<1>6. BufInv'
  BY <1>1, BufFrame, Zenon DEF IInv
<1>7. CountInv'
  BY <1>1, CountFrame, Zenon DEF IInv
<1>8. PinnedIsKept'
  BY <1>1, PinnedFrame, Zenon DEF IInv
<1>. QED  BY <1>2, <1>3, <1>4, <1>5, <1>6, <1>7, <1>8, Zenon DEF IInv

(* A verdict on a segment. *)
LEMMA JudgeSegmentPreserves ==
  ASSUME IInv, JudgeSegment PROVE IInv'
<1>1. recent' \subseteq Label /\ \A r \in recent' : r.path \in 1..used
  BY Zenon DEF IInv, LabelInv, JudgeSegment, Label, WakeClass
<1>2. lab'.path \in 0..used /\ lab'.seg \in Nat /\ lab'.class \in WakeClass
  BY DEF IInv, TypeOK, LabelInv, JudgeSegment, Label, Path, WakeClass
<1>3. UNCHANGED <<framelogs, sidecar, lock, open_logs, rpc, log_name, new_name, mem, used,
          pin, ppc, listing, entry, inv, left, buf, pins, recorded>>
  BY Zenon DEF JudgeSegment, recorder, pruner, history
<1>4. TypeOK'
  BY <1>3, TypeFrame, Zenon DEF IInv
<1>5. LabelInv'
  BY <1>1, <1>2, <1>3, StoreAssumption, Zenon
     DEF IInv, TypeOK, LabelInv, NoPath, JudgeSegment
<1>6. LockInv'
  BY <1>1, <1>2, <1>3, Zenon
     DEF IInv, LockInv, TypeOK, NoPath, Unlinking, JudgeSegment
<1>7. NameInv'
  BY <1>3, NameFrame, Zenon DEF IInv
<1>8. PrunerInv'
  BY <1>3, PrunerFrame, Zenon DEF IInv
<1>9. BufInv'
  BY <1>1, <1>2, <1>3, StoreAssumption, SidecarTypes, Zenon
     DEF IInv, TypeOK, LabelInv, LockInv, NameInv, BufInv, CountInv, Replaces, NoPath, Path, Naming, JudgeSegment
<1>10. CountInv'
  BY <1>3, CountFrame, Zenon DEF IInv
<1>11. PinnedIsKept'
  BY <1>3, PinnedFrame, Zenon DEF IInv
<1>. QED  BY <1>4, <1>5, <1>6, <1>7, <1>8, <1>9, <1>10, <1>11, Zenon DEF IInv

(* A label that finds no segment. *)
LEMMA SetWakeClassSkipsPreserves ==
  ASSUME IInv, SetWakeClassSkips PROVE IInv'
<1>1. UNCHANGED <<framelogs, sidecar, lock, open_logs, rpc, log_name, new_name, mem, used,
          recent, pin, ppc, listing, entry, inv, left, buf, pins, recorded>>
  BY Zenon DEF SetWakeClassSkips, recorder, pruner, history
<1>2. TypeOK'
  BY <1>1, TypeFrame, Zenon DEF IInv
<1>3. LabelInv'
  BY <1>1, StoreAssumption
     DEF IInv, TypeOK, LabelInv, NoPath, SetWakeClassSkips, Labelled, NoLabel, WakeClass
<1>4. LockInv'
  BY <1>1, Zenon
     DEF IInv, LockInv, TypeOK, NoPath, Unlinking, SetWakeClassSkips, Labelled, NoLabel, WakeClass
<1>5. NameInv'
  BY <1>1, NameFrame, Zenon DEF IInv
<1>6. PrunerInv'
  BY <1>1, PrunerFrame, Zenon DEF IInv
<1>7. BufInv'
  BY <1>1, StoreAssumption, SidecarTypes, Zenon
     DEF IInv, TypeOK, LabelInv, LockInv, NameInv, BufInv, CountInv, Replaces, NoPath, Path, Naming, SetWakeClassSkips, Labelled, NoLabel, WakeClass
<1>8. CountInv'
  BY <1>1, CountFrame, Zenon DEF IInv
<1>9. PinnedIsKept'
  BY <1>1, PinnedFrame, Zenon DEF IInv
<1>. QED  BY <1>2, <1>3, <1>4, <1>5, <1>6, <1>7, <1>8, <1>9, Zenon DEF IInv

(* The sidecar is read, and the label set in the rewrite. *)
LEMMA SetWakeClassPreserves ==
  ASSUME IInv, SetWakeClass PROVE IInv'
<1> DEFINE disk == sidecar[lab.path]
           self == [disk EXCEPT !.segments = [@ EXCEPT ![lab.seg] = lab.class]]
<1>1. lab.path \in Path /\ disk \in Sidecar /\ lab.class \in WakeClass
  BY StoreAssumption DEF SetWakeClass, IInv, TypeOK, LabelInv, NoPath, Path
<1>2. self \in Sidecar /\ self.state = disk.state /\ Len(self.segments) = Len(disk.segments)
  <2> DEFINE segs == [disk.segments EXCEPT ![lab.seg] = lab.class]
  <2>1. disk.segments \in Seq(WakeClass)
    BY <1>1, Zenon DEF Sidecar
  <2>2. segs \in Seq(WakeClass) /\ Len(segs) = Len(disk.segments)
    <3>1. disk.segments \in [1..Len(disk.segments) -> WakeClass] /\ Len(disk.segments) \in Nat
      BY <2>1
    <3>2. segs \in [1..Len(disk.segments) -> WakeClass]
      BY <3>1, <1>1, Zenon
    <3>. QED  BY <3>1, <3>2
  <2>3. self = [disk EXCEPT !.segments = segs]
    BY Zenon
  <2> HIDE DEF segs, disk, self
  <2>. QED  BY <1>1, <2>2, <2>3, Zenon DEF Sidecar
<1>3. buf' = Merged(self, disk)
  BY Zenon DEF SetWakeClass
<1>4. /\ buf' \in Sidecar /\ buf'.state = disk.state
      /\ disk.pinned => buf'.pinned
      /\ Len(buf'.segments) = Len(disk.segments)
  <2> HIDE DEF self, disk
  <2>. QED  BY <1>1, <1>2, <1>3, MergedKeeps, Zenon
<1>5. lock = "free" /\ lock' = "label" /\ lab.path # NoPath /\ disk.state = "ok"
  BY Zenon DEF SetWakeClass, LockStore
<1> HIDE DEF self
<1>6. UNCHANGED <<framelogs, sidecar, open_logs, rpc, log_name, new_name, mem, used, lab,
          recent, pin, ppc, listing, entry, inv, left, pins, recorded>>
  BY Zenon DEF SetWakeClass, recorder, pipeline, pruner, history
<1>7. TypeOK'
  BY <1>1, <1>4, <1>5, <1>6, StoreAssumption, SidecarTypes, Zenon
     DEF IInv, TypeOK, NoPath, RecorderStates, PrunerStates, Path
<1>8. LabelInv'
  BY <1>6, LabelFrame, Zenon DEF IInv
<1>9. LockInv'
  BY <1>1, <1>4, <1>5, <1>6, Zenon
     DEF IInv, LockInv, TypeOK, NoPath, Unlinking
<1>10. NameInv'
  BY <1>6, NameFrame, Zenon DEF IInv
<1>11. PrunerInv'
  BY <1>6, PrunerFrame, Zenon DEF IInv
<1>12. BufInv'
  BY <1>1, <1>4, <1>5, <1>6, StoreAssumption, SidecarTypes, Zenon
     DEF IInv, TypeOK, LabelInv, LockInv, NameInv, BufInv, CountInv, Replaces, NoPath, Path, Naming
<1>13. CountInv'
  BY <1>6, CountFrame, Zenon DEF IInv
<1>14. PinnedIsKept'
  BY <1>6, PinnedFrame, Zenon DEF IInv
<1>. QED  BY <1>7, <1>8, <1>9, <1>10, <1>11, <1>12, <1>13, <1>14, Zenon DEF IInv

(* The label lands. *)
LEMMA LabelWrittenPreserves ==
  ASSUME IInv, LabelWritten PROVE IInv'
<1>1. lab.path \in Path /\ lab'.path = NoPath /\ lab'.seg \in Nat /\ lab'.class \in WakeClass
  BY StoreAssumption DEF IInv, TypeOK, LabelInv, LockInv, LabelWritten, Renamed, Labelled, NoLabel, NoPath, Path, WakeClass
<1>2. UNCHANGED <<framelogs, open_logs, rpc, log_name, new_name, mem, used, recent, pin,
          ppc, listing, entry, inv, left, pins, recorded>>
  BY Zenon DEF LabelWritten, recorder, pruner, history
<1>3. TypeOK'
  BY <1>1, <1>2, StoreAssumption, SidecarTypes, Zenon
     DEF IInv, TypeOK, NoPath, RecorderStates, PrunerStates, Path, LabelWritten, Renamed
<1>4. LabelInv'
  BY <1>1, <1>2, StoreAssumption
     DEF IInv, TypeOK, LabelInv, NoPath, LabelWritten, Renamed
<1>5. LockInv'
  BY <1>1, <1>2, Zenon
     DEF IInv, LockInv, TypeOK, NoPath, Unlinking, LabelWritten, Renamed
<1>6. NameInv'
  BY <1>2, NameFrame, Zenon DEF IInv
<1>7. PrunerInv'
  BY <1>1, <1>2, StoreAssumption, Zenon
     DEF IInv, TypeOK, NameInv, LockInv, PrunerInv, Unlinking, LabelWritten, Renamed
<1>8. BufInv'
  BY <1>1, <1>2, StoreAssumption, SidecarTypes, Zenon
     DEF IInv, TypeOK, LabelInv, LockInv, NameInv, BufInv, CountInv, Replaces, NoPath, Path, Naming, LabelWritten, Renamed
<1>9. CountInv'
  BY <1>1, <1>2, StoreAssumption, SidecarTypes, Zenon
     DEF IInv, TypeOK, LabelInv, NameInv, LockInv, BufInv, CountInv, Replaces, Naming, NoPath, Path, LabelWritten, Renamed
<1>10. PinnedIsKept'
  BY <1>1, <1>2, StoreAssumption
     DEF IInv, TypeOK, NameInv, LockInv, BufInv, PrunerInv, Replaces, PinnedIsKept, NoPath, Path, Unlinking, LabelWritten, Renamed
<1>. QED  BY <1>3, <1>4, <1>5, <1>6, <1>7, <1>8, <1>9, <1>10, Zenon DEF IInv

(* The sidecar is read or begun, and the pin set in the rewrite. *)
LEMMA SetPinnedPreserves ==
  ASSUME IInv, SetPinned PROVE IInv'
<1>1. PICK p \in 1..used :
        /\ sidecar[p].state # "corrupt"
        /\ pin' = p
        /\ LET self == IF sidecar[p].state = "absent" THEN NewSidecar("Unattributed") ELSE sidecar[p]
           IN buf' = Merged([self EXCEPT !.pinned = TRUE], sidecar[p])
  BY Zenon DEF SetPinned
<1> DEFINE self == IF sidecar[p].state = "absent" THEN NewSidecar("Unattributed") ELSE sidecar[p]
           pinned == [self EXCEPT !.pinned = TRUE]
<1>2. p \in Path /\ p \in 1..used /\ sidecar[p] \in Sidecar
  BY StoreAssumption, SMTT(20) DEF IInv, TypeOK, Path
<1>3. self \in Sidecar /\ self.state = "ok" /\ Len(self.segments) >= recorded[p]
  <2>1. CASE sidecar[p].state = "absent"
    <3>1. self = NewSidecar("Unattributed") /\ sidecar[p] = NoSidecar
      BY <2>1, <1>2, Zenon DEF IInv, CountInv
    <3>2. recorded[p] \in Nat /\ Len(NoSidecar.segments) >= recorded[p]
      BY <3>1, <1>2, <2>1, <1>1, Zenon DEF IInv, TypeOK, CountInv
    <3> HIDE DEF self
    <3>. QED  BY <3>1, <3>2, SidecarTypes, Zenon DEF Bucket
  <2>2. CASE sidecar[p].state # "absent"
    BY <2>2, <1>1, <1>2, Zenon DEF Sidecar, IInv, CountInv
  <2>. QED  BY <2>1, <2>2, Zenon
<1> HIDE DEF self
<1>4. pinned \in Sidecar /\ pinned.state = "ok" /\ pinned.pinned /\ pinned.segments = self.segments
  BY <1>3, Zenon DEF Sidecar
<1>5. buf' = Merged(pinned, sidecar[p])
  BY <1>1, Zenon DEF self
<1>6. buf' \in Sidecar /\ buf'.state = "ok" /\ buf'.pinned /\ Len(buf'.segments) >= recorded[p]
  <2> HIDE DEF pinned
  <2>. QED  BY <1>2, <1>3, <1>4, <1>5, MergedKeeps
<1>7. pin = NoPath /\ lock = "free" /\ lock' = "pin" /\ pin' = p /\ sidecar[p].state # "corrupt"
  BY <1>1, Zenon DEF SetPinned, LockStore
<1> HIDE DEF pinned
<1>8. UNCHANGED <<framelogs, sidecar, open_logs, rpc, log_name, new_name, mem, used, lab,
          recent, ppc, listing, entry, inv, left, pins, recorded>>
  BY Zenon DEF SetPinned, recorder, pipeline, pruner, history
<1>9. TypeOK'
  BY <1>2, <1>6, <1>7, <1>8, StoreAssumption, SidecarTypes
     DEF IInv, TypeOK, NoPath, RecorderStates, PrunerStates, Path
<1>10. LabelInv'
  BY <1>8, LabelFrame, Zenon DEF IInv
<1>11. LockInv'
  BY <1>2, <1>6, <1>7, <1>8
     DEF IInv, LockInv, TypeOK, NoPath, Unlinking
<1>12. NameInv'
  BY <1>8, NameFrame, Zenon DEF IInv
<1>13. PrunerInv'
  BY <1>8, PrunerFrame, Zenon DEF IInv
<1>14. BufInv'
  BY <1>2, <1>6, <1>7, <1>8, StoreAssumption, SidecarTypes, Zenon
     DEF IInv, TypeOK, LabelInv, LockInv, NameInv, BufInv, CountInv, Replaces, NoPath, Path, Naming
<1>15. CountInv'
  BY <1>8, CountFrame, Zenon DEF IInv
<1>16. PinnedIsKept'
  BY <1>8, PinnedFrame, Zenon DEF IInv
<1>. QED  BY <1>9, <1>10, <1>11, <1>12, <1>13, <1>14, <1>15, <1>16, Zenon DEF IInv

(* The pin lands. *)
LEMMA PinWrittenPreserves ==
  ASSUME IInv, PinWritten PROVE IInv'
<1>1. pin \in Path /\ pin <= used
  BY StoreAssumption DEF IInv, TypeOK, PinWritten, NoPath, Path
<1>2. UNCHANGED <<framelogs, open_logs, rpc, log_name, new_name, mem, used, lab, recent,
          ppc, listing, entry, inv, left, recorded>>
  BY Zenon DEF PinWritten, recorder, pipeline, pruner
<1>3. TypeOK'
  BY <1>1, <1>2, StoreAssumption, SidecarTypes
     DEF IInv, TypeOK, NoPath, RecorderStates, PrunerStates, Path, PinWritten, Renamed
<1>4. LabelInv'
  BY <1>2, LabelFrame, Zenon DEF IInv
<1>5. LockInv'
  BY <1>1, <1>2, Zenon
     DEF IInv, LockInv, TypeOK, NoPath, Unlinking, PinWritten, Renamed
<1>6. NameInv'
  BY <1>2, NameFrame, Zenon DEF IInv
<1>7. PrunerInv'
  BY <1>1, <1>2, StoreAssumption, Zenon
     DEF IInv, TypeOK, NameInv, LockInv, PrunerInv, Unlinking, PinWritten, Renamed
<1>8. BufInv'
  BY <1>1, <1>2, StoreAssumption, SidecarTypes, Zenon
     DEF IInv, TypeOK, LabelInv, LockInv, NameInv, BufInv, CountInv, Replaces, NoPath, Path, Naming, PinWritten, Renamed
<1>9. CountInv'
  BY <1>1, <1>2, StoreAssumption, SidecarTypes, Zenon
     DEF IInv, TypeOK, LabelInv, NameInv, LockInv, BufInv, CountInv, Replaces, Naming, NoPath, Path, PinWritten, Renamed
<1>10. PinnedIsKept'
  BY <1>1, <1>2, StoreAssumption
     DEF IInv, TypeOK, NameInv, LockInv, BufInv, PrunerInv, Replaces, PinnedIsKept, NoPath, Path, Unlinking, PinWritten, Renamed
<1>. QED  BY <1>3, <1>4, <1>5, <1>6, <1>7, <1>8, <1>9, <1>10, Zenon DEF IInv

(* The pin subcommand dies with the lock. *)
LEMMA PinKilledPreserves ==
  ASSUME IInv, PinKilled PROVE IInv'
<1>1. UNCHANGED <<framelogs, sidecar, open_logs, rpc, log_name, new_name, mem, used, lab,
          recent, ppc, listing, entry, inv, left, pins, recorded>>
  BY Zenon DEF PinKilled, recorder, pipeline, pruner, history
<1>2. TypeOK'
  BY <1>1, StoreAssumption, SidecarTypes
     DEF IInv, TypeOK, NoPath, RecorderStates, PrunerStates, Path, PinKilled, Fault
<1>3. LabelInv'
  BY <1>1, LabelFrame, Zenon DEF IInv
<1>4. LockInv'
  BY <1>1, Zenon
     DEF IInv, LockInv, TypeOK, NoPath, Unlinking, PinKilled, Fault
<1>5. NameInv'
  BY <1>1, NameFrame, Zenon DEF IInv
<1>6. PrunerInv'
  BY <1>1, PrunerFrame, Zenon DEF IInv
<1>7. BufInv'
  BY <1>1, StoreAssumption, SidecarTypes, Zenon
     DEF IInv, TypeOK, LabelInv, LockInv, NameInv, BufInv, CountInv, Replaces, NoPath, Path, Naming, PinKilled, Fault
<1>8. CountInv'
  BY <1>1, CountFrame, Zenon DEF IInv
<1>9. PinnedIsKept'
  BY <1>1, PinnedFrame, Zenon DEF IInv
<1>. QED  BY <1>2, <1>3, <1>4, <1>5, <1>6, <1>7, <1>8, <1>9, Zenon DEF IInv

(* A pass lists the logs. *)
LEMMA BeginPassPreserves == ASSUME IInv, BeginPass PROVE IInv'
<1>1. ppc \in PrunerStates \ Unlinking /\ ppc' \in PrunerStates \ Unlinking
  BY Zenon DEF IInv, TypeOK, PrunerStates, Unlinking, BeginPass
<1>2. PrunerInv'
  BY Zenon DEF IInv, TypeOK, PrunerInv, Unlinking, BeginPass, recorder, history
<1>. QED  BY <1>1, <1>2, LooksPreserves, Zenon DEF BeginPass

(* A log of the listing is looked at. *)
LEMMA InspectPreserves == ASSUME IInv, Inspect PROVE IInv'
<1> DEFINE seen(p) == [path |-> p, sidecar |-> sidecar[p].state # "absent",
                       corrupt |-> sidecar[p].state = "corrupt",
                       tier |-> TierOf(sidecar[p]), pinned |-> sidecar[p].pinned,
                       age_key |-> IF sidecar[p].segments = <<>> THEN 0 ELSE p,
                       pod |-> sidecar[p].pod, open |-> FALSE]
<1>1. ASSUME NEW p \in listing PROVE seen(p) \in Entry /\ seen(p).path \in 1..used
  <2>1. p \in Path /\ p \in 1..used /\ sidecar[p] \in Sidecar
    BY <1>1, StoreAssumption DEF IInv, TypeOK, PrunerInv, Path
  <2>2. TierOf(sidecar[p]) \in Tier
    BY Zenon DEF TierOf, Tier
  <2>3. /\ sidecar[p].pinned \in BOOLEAN /\ sidecar[p].pod \in Bucket
        /\ (sidecar[p].state # "absent") \in BOOLEAN /\ (sidecar[p].state = "corrupt") \in BOOLEAN
    BY <2>1, Zenon DEF Sidecar
  <2>4. (IF sidecar[p].segments = <<>> THEN 0 ELSE p) \in Nat
    BY <2>1, SMTT(20) DEF Path
  <2>. QED  BY <2>1, <2>2, <2>3, <2>4, Zenon DEF Entry
<1> HIDE DEF seen
<1>2. ppc' = "openness" => (ppc = "openness" /\ entry' = entry) \/ \E p \in listing : entry' = seen(p)
  BY Zenon DEF Inspect, seen
<1>3. /\ ppc = "list" /\ ppc' \in {"list", "openness"} /\ listing' \subseteq listing
      /\ UNCHANGED <<framelogs, sidecar, lock, open_logs, recorder, pipeline, pin, inv, left,
                     attempted, deleted, phase, passes, buf, faults, npins, history>>
  BY Zenon DEF Inspect
<1>4. ppc \in PrunerStates \ Unlinking /\ ppc' \in PrunerStates \ Unlinking
  BY Zenon DEF IInv, TypeOK, PrunerStates, Unlinking, Inspect
<1>5. PrunerInv'
  BY <1>1, <1>2, <1>3, Zenon DEF IInv, TypeOK, PrunerInv, Unlinking, Inspect, recorder, history
<1>. QED  BY <1>4, <1>5, LooksPreserves, Zenon DEF Inspect

(* ... and asked whether it is open. *)
LEMMA InspectOpenPreserves == ASSUME IInv, InspectOpen PROVE IInv'
<1>1. entry \in Entry /\ entry.path \in 1..used
  BY Zenon DEF IInv, TypeOK, PrunerInv, InspectOpen, Entry, Path
<1>2. [entry EXCEPT !.open = entry.path \in open_logs].path = entry.path
  BY <1>1, Zenon DEF Entry
<1>3. \A e \in inv' : e \in inv \/ e.path = entry.path
  BY <1>2, Zenon DEF InspectOpen
<1>4. ppc \in PrunerStates \ Unlinking /\ ppc' \in PrunerStates \ Unlinking
  BY Zenon DEF IInv, TypeOK, PrunerStates, Unlinking, InspectOpen
<1>5. PrunerInv'
  BY <1>1, <1>2, <1>3, Zenon DEF IInv, TypeOK, PrunerInv, Unlinking, InspectOpen, recorder, history
<1>. QED  BY <1>4, <1>5, LooksPreserves, Zenon DEF InspectOpen

(* Nothing is over its quota, or the drain begins. *)
LEMMA InventoryDonePreserves == ASSUME IInv, InventoryDone PROVE IInv'
<1>1. ppc \in PrunerStates \ Unlinking /\ ppc' \in PrunerStates \ Unlinking
  BY Zenon DEF IInv, TypeOK, PrunerStates, Unlinking, InventoryDone, PassEnds
<1>2. PrunerInv'
  BY Zenon DEF IInv, TypeOK, PrunerInv, Unlinking, InventoryDone, PassEnds, recorder, history
<1>. QED  BY <1>1, <1>2, LooksPreserves, Zenon DEF InventoryDone, PassEnds

(* The quotas are met, or the cap. *)
LEMMA NextPhasePreserves == ASSUME IInv, NextPhase PROVE IInv'
<1>1. ppc \in PrunerStates \ Unlinking /\ ppc' \in PrunerStates \ Unlinking
  BY Zenon DEF IInv, TypeOK, PrunerStates, Unlinking, NextPhase, PassEnds
<1>2. PrunerInv'
  BY Zenon DEF IInv, TypeOK, PrunerInv, Unlinking, NextPhase, PassEnds, recorder, history
<1>. QED  BY <1>1, <1>2, LooksPreserves, Zenon DEF NextPhase, PassEnds

(* A log is left alone. *)
LEMMA PassOverPreserves == ASSUME IInv, PassOver PROVE IInv'
<1>1. ppc \in PrunerStates \ Unlinking /\ ppc' \in PrunerStates \ Unlinking
  BY Zenon DEF IInv, TypeOK, PrunerStates, Unlinking, PassOver, First
<1>2. PrunerInv'
  BY Zenon DEF IInv, TypeOK, PrunerInv, Unlinking, PassOver, First, recorder, history
<1>. QED  BY <1>1, <1>2, LooksPreserves, Zenon DEF PassOver

(* A log that was not open is chosen. *)
LEMMA TryDeletePreserves == ASSUME IInv, TryDelete PROVE IInv'
<1>1. ppc \in PrunerStates \ Unlinking /\ ppc' \in PrunerStates \ Unlinking
  BY Zenon DEF IInv, TypeOK, PrunerStates, Unlinking, TryDelete, First, Skipped
<1>2. PrunerInv'
  BY Zenon DEF IInv, TypeOK, PrunerInv, Unlinking, TryDelete, First, Skipped, recorder, history
<1>. QED  BY <1>1, <1>2, LooksPreserves, Zenon DEF TryDelete

(* The live sidecar decides, under the lock. *)
LEMMA RecheckPreserves ==
  ASSUME IInv, Recheck PROVE IInv'
<1>1. UNCHANGED <<framelogs, sidecar, open_logs, rpc, log_name, new_name, mem, used, lab,
          recent, pin, listing, entry, inv, left, buf, pins, recorded>>
  BY Zenon DEF Recheck, recorder, pipeline, history
<1>2. /\ ppc = "lock" /\ lock = "free"
      /\ \/ ppc' = "drain" /\ lock' = "free"
         \/ Prunable(entry) /\ ppc' \in Unlinking /\ lock' = "pruner"
  BY Zenon DEF Recheck, LockStore, Unlinking
<1>3. TypeOK'
  BY <1>1, <1>2, Zenon DEF IInv, TypeOK, PrunerStates, Unlinking
<1>4. LabelInv'
  BY <1>1, LabelFrame, Zenon DEF IInv
<1>5. LockInv'
  BY <1>1, <1>2, Zenon DEF IInv, LockInv, Unlinking
<1>6. NameInv'
  BY <1>1, NameFrame, Zenon DEF IInv
<1>7. PrunerInv'
  <2>1. /\ listing \subseteq 1..used
        /\ \A e \in inv \cup left : e.path \in 1..used
        /\ entry.path \in (1..used) \ open_logs
    BY <1>2, Zenon DEF IInv, PrunerInv
  <2>2. ASSUME Prunable(entry)
        PROVE  entry.path \notin pins /\ TierLeq(TierOf(sidecar[entry.path]), entry.tier)
    BY <2>2, Zenon DEF IInv, PinnedIsKept, Prunable
  <2>3. ppc' # "openness" /\ (ppc' \in {"lock"} \cup Unlinking => Prunable(entry))
    BY <1>2, Zenon DEF Unlinking
  <2>4. ppc' = "unlink_sidecar" => ppc' \in Unlinking
    BY Zenon DEF Unlinking
  <2>. QED  BY <1>1, <2>1, <2>2, <2>3, <2>4, Zenon DEF PrunerInv
<1>8. BufInv'
  BY <1>1, <1>2, Zenon DEF IInv, LockInv, BufInv
<1>9. CountInv'
  BY <1>1, CountFrame, Zenon DEF IInv
<1>10. PinnedIsKept'
  BY <1>1, PinnedFrame, Zenon DEF IInv
<1>. QED  BY <1>3, <1>4, <1>5, <1>6, <1>7, <1>8, <1>9, <1>10, Zenon DEF IInv

(* The sidecar of a log that nobody has pinned goes. *)
LEMMA UnlinkSidecarPreserves ==
  ASSUME IInv, UnlinkSidecar PROVE IInv'
<1>1. entry.path \in Path /\ entry.path \notin open_logs /\ entry.path \notin pins
  BY StoreAssumption DEF IInv, TypeOK, PrunerInv, Unlinking, UnlinkSidecar, Path
<1>2. UNCHANGED <<framelogs, lock, open_logs, rpc, log_name, new_name, mem, used, lab,
          recent, pin, listing, entry, inv, left, buf, pins>>
  BY Zenon DEF UnlinkSidecar, recorder, pipeline
<1>3. ppc = "unlink_sidecar" /\ ppc' = "unlink_framelog"
  BY Zenon DEF UnlinkSidecar
<1>4. lock = "pruner" /\ rpc \notin {"writing", "unreadable"}
  BY <1>3, Zenon DEF IInv, LockInv, Unlinking
<1>5. /\ sidecar' \in [Path -> Sidecar] /\ sidecar'[entry.path] = NoSidecar
      /\ recorded' \in [Path -> Nat] /\ recorded'[entry.path] = 0
      /\ \A q \in Path : q # entry.path => sidecar'[q] = sidecar[q] /\ recorded'[q] = recorded[q]
  BY <1>1, SidecarTypes, Zenon DEF IInv, TypeOK, UnlinkSidecar
<1>6. TypeOK'
  BY <1>2, <1>3, <1>5, Zenon DEF IInv, TypeOK, PrunerStates
<1>7. LabelInv'
  BY <1>2, LabelFrame, Zenon DEF IInv
<1>8. LockInv'
  BY <1>2, <1>3, Zenon DEF IInv, LockInv, Unlinking
<1>9. NameInv'
  BY <1>2, NameFrame, Zenon DEF IInv
<1>10. PrunerInv'
  BY <1>2, <1>3, Zenon DEF IInv, PrunerInv, Unlinking
<1>11. BufInv'
  BY <1>2, <1>4, Zenon DEF BufInv
<1>12. CountInv'
  <2>1. /\ \A p \in Path : p > used' => recorded'[p] = 0
        /\ \A p \in Path : sidecar'[p].state = "absent" => sidecar'[p] = NoSidecar
        /\ mem' = NoSidecar \/ mem'.state = "ok"
        /\ rpc' \in {"starting", "renaming"} => mem' = NoSidecar
    BY <1>2, <1>5, Zenon DEF IInv, CountInv
  <2>2. /\ rpc # "off" => log_name \in Path /\ log_name # entry.path
        /\ rpc \in Naming => new_name \in Path /\ new_name # entry.path
    BY <1>1, StoreAssumption DEF IInv, TypeOK, NameInv, Path
  <2>3. /\ rpc' \in Naming => recorded'[new_name'] = 0
        /\ rpc' \in {"starting", "open", "renaming", "rolling"} => Len(mem'.segments) = recorded'[log_name']
        /\ rpc' # "writing"
    BY <2>2, <1>2, <1>4, <1>5, Zenon DEF IInv, CountInv
  <2>4. \A p \in Path : sidecar'[p].state # "corrupt" => Len(sidecar'[p].segments) >= recorded'[p]
    BY <1>5, SidecarTypes DEF IInv, CountInv
  <2>. QED  BY <2>1, <2>3, <2>4, Zenon DEF CountInv
<1>13. PinnedIsKept'
  <2>1. \A p \in pins : p \in 1..used /\ p # entry.path
    BY <1>1, Zenon DEF IInv, TypeOK, PinnedIsKept
  <2>2. 1..used \subseteq Path
    BY StoreAssumption DEF IInv, TypeOK, Path
  <2>. QED  BY <1>2, <1>5, <2>1, <2>2, Zenon DEF IInv, PinnedIsKept
<1>. QED
  BY <1>6, <1>7, <1>8, <1>9, <1>10, <1>11, <1>12, <1>13, Zenon DEF IInv

(* The log itself goes. *)
LEMMA UnlinkFramelogPreserves ==
  ASSUME IInv, UnlinkFramelog PROVE IInv'
<1>1. UNCHANGED <<sidecar, open_logs, rpc, log_name, new_name, mem, used, lab, recent, pin,
          listing, entry, inv, left, buf, pins, recorded>>
  BY Zenon DEF UnlinkFramelog, recorder, pipeline, history
<1>2. /\ ppc = "unlink_framelog" /\ ppc' = "drain" /\ lock' = "free"
      /\ framelogs' = framelogs \ {entry.path}
  BY Zenon DEF UnlinkFramelog
<1>3. lock = "pruner" /\ entry.path \notin open_logs /\ entry.path \notin pins
  BY <1>2, Zenon DEF IInv, LockInv, PrunerInv, Unlinking
<1>4. TypeOK'
  BY <1>1, <1>2, Zenon DEF IInv, TypeOK, PrunerStates
<1>5. LabelInv'
  BY <1>1, LabelFrame, Zenon DEF IInv
<1>6. LockInv'
  BY <1>1, <1>2, <1>3, Zenon DEF IInv, LockInv, Unlinking
<1>7. NameInv'
  <2>1. rpc \in {"open", "renaming", "rolling", "rolled", "writing", "unreadable"} => rpc # "off"
    OBVIOUS
  <2>2. rpc \in {"renamed", "rolled"} => rpc \in Naming
    BY Zenon DEF Naming
  <2>. QED  BY <1>1, <1>2, <1>3, <2>1, <2>2, Zenon DEF IInv, NameInv
<1>8. PrunerInv'
  BY <1>1, <1>2, Zenon DEF IInv, PrunerInv, Unlinking
<1>9. BufInv'
  BY <1>1, <1>2, <1>3, Zenon DEF IInv, LockInv, BufInv
<1>10. CountInv'
  BY <1>1, CountFrame, Zenon DEF IInv
<1>11. PinnedIsKept'
  BY <1>1, <1>2, <1>3, Zenon DEF IInv, PinnedIsKept
<1>. QED  BY <1>4, <1>5, <1>6, <1>7, <1>8, <1>9, <1>10, <1>11, Zenon DEF IInv

(* The disk refuses, or the log is gone. *)
LEMMA UnlinkFailsPreserves ==
  ASSUME IInv, UnlinkFails PROVE IInv'
<1>1. UNCHANGED <<framelogs, sidecar, open_logs, rpc, log_name, new_name, mem, used, lab,
          recent, pin, listing, entry, inv, left, buf, pins, recorded>>
  BY Zenon DEF UnlinkFails, recorder, pipeline, history
<1>2. ppc \in Unlinking /\ ppc' = "drain" /\ lock' = "free"
  BY Zenon DEF UnlinkFails, Unlinking
<1>3. lock = "pruner"
  BY <1>2, Zenon DEF IInv, LockInv
<1>4. TypeOK'
  BY <1>1, <1>2, Zenon DEF IInv, TypeOK, PrunerStates
<1>5. LabelInv'
  BY <1>1, LabelFrame, Zenon DEF IInv
<1>6. LockInv'
  BY <1>1, <1>2, <1>3, Zenon DEF IInv, LockInv, Unlinking
<1>7. NameInv'
  BY <1>1, NameFrame, Zenon DEF IInv
<1>8. PrunerInv'
  BY <1>1, <1>2, Zenon DEF IInv, PrunerInv, Unlinking
<1>9. BufInv'
  BY <1>1, <1>2, <1>3, Zenon DEF IInv, LockInv, BufInv
<1>10. CountInv'
  BY <1>1, CountFrame, Zenon DEF IInv
<1>11. PinnedIsKept'
  BY <1>1, PinnedFrame, Zenon DEF IInv
<1>. QED  BY <1>4, <1>5, <1>6, <1>7, <1>8, <1>9, <1>10, <1>11, Zenon DEF IInv

(* The daemon dies, whatever it held. *)
LEMMA CrashPreserves ==
  ASSUME IInv, Crash PROVE IInv'
<1>1. UNCHANGED <<framelogs, sidecar, used, pin, pins, recorded>>
  BY Zenon DEF Crash, Stopped, history
<1>2. /\ rpc' = "off" /\ log_name' = 0 /\ new_name' = 0 /\ mem' = NoSidecar
      /\ open_logs' = {} /\ lab' = NoLabel /\ recent' = {}
      /\ ppc' = "idle" /\ listing' = {} /\ inv' = {} /\ left' = {}
  BY Zenon DEF Crash, Stopped, Labelled, PassEnds, NoPath
<1>3. IF lock = "pin" THEN lock' = lock /\ buf' = buf ELSE lock' = "free" /\ buf' = NoSidecar
  BY Zenon DEF Crash
<1>4. used \in Nat /\ 0 \in 0..used
  BY StoreAssumption DEF IInv, TypeOK
<1>5. TypeOK'
  <2>1. buf' \in Sidecar /\ mem' \in Sidecar
    BY <1>2, <1>3, SidecarTypes, Zenon DEF IInv, TypeOK
  <2>2. lock' \in {"free", "recorder", "label", "pin", "pruner"}
    BY <1>3, Zenon
  <2>3. /\ used' \in 0..MaxPath /\ framelogs' \subseteq 1..used' /\ sidecar' \in [Path -> Sidecar]
        /\ pin' \in 0..used' /\ recorded' \in [Path -> Nat]
    BY <1>1, Zenon DEF IInv, TypeOK
  <2>4. open_logs' \subseteq 1..used' /\ log_name' \in 0..used' /\ new_name' \in 0..used'
    BY <1>1, <1>2, <1>4, Zenon
  <2>5. rpc' \in RecorderStates /\ ppc' \in PrunerStates
    BY <1>2, Zenon DEF RecorderStates, PrunerStates
  <2>. QED  BY <2>1, <2>2, <2>3, <2>4, <2>5, Zenon DEF TypeOK
<1>6. LabelInv'
  BY <1>1, <1>2, <1>4, Zenon DEF LabelInv, NoLabel, NoPath, WakeClass
<1>7. LockInv'
  BY <1>1, <1>2, <1>3, Zenon DEF IInv, LockInv, NoPath, Unlinking
<1>8. NameInv'
  BY <1>2, Zenon DEF NameInv, Naming
<1>9. PrunerInv'
  BY <1>2, Zenon DEF PrunerInv, Unlinking
<1>10. BufInv'
  <2>1. CASE lock = "pin"
    <3>1. lock' = "pin" /\ buf' = buf /\ rpc' = "off"
      BY <2>1, <1>2, <1>3, Zenon
    <3>2. buf.pinned /\ Replaces(pin, recorded[pin])
      BY <2>1, Zenon DEF IInv, BufInv
    <3>3. buf'.pinned /\ Replaces(pin, recorded[pin])'
      BY <3>1, <3>2, <1>1, Zenon DEF Replaces
    <3>. QED  BY <3>1, <3>3, Zenon DEF BufInv
  <2>2. CASE lock # "pin"
    BY <2>2, <1>2, <1>3, Zenon DEF BufInv
  <2>. QED  BY <2>1, <2>2, Zenon
<1>11. CountInv'
  BY <1>1, <1>2, Zenon DEF IInv, CountInv, Naming
<1>12. PinnedIsKept'
  BY <1>1, Zenon DEF IInv, PinnedIsKept
<1>. QED  BY <1>5, <1>6, <1>7, <1>8, <1>9, <1>10, <1>11, <1>12, Zenon DEF IInv

(* A sidecar that cannot be read any more protects its log. *)
LEMMA SidecarRotsPreserves ==
  ASSUME IInv, SidecarRots PROVE IInv'
<1>1. PICK p \in Path : sidecar[p].state = "ok" /\ sidecar' = [sidecar EXCEPT ![p] = Corrupt]
  BY Zenon DEF SidecarRots
<1>2. UNCHANGED <<framelogs, lock, open_logs, rpc, log_name, new_name, mem, used, lab,
          recent, pin, ppc, listing, entry, inv, left, buf, pins, recorded>>
  BY Zenon DEF SidecarRots, recorder, pipeline, pruner, history
<1>3. /\ sidecar' \in [Path -> Sidecar] /\ sidecar'[p].state = "corrupt"
      /\ \A q \in Path : q # p => sidecar'[q] = sidecar[q]
  BY <1>1, SidecarTypes, Zenon DEF IInv, TypeOK
<1>4. lock = "free"
  BY Zenon DEF SidecarRots
<1>5. TypeOK'
  BY <1>2, <1>3, Zenon DEF IInv, TypeOK
<1>6. LabelInv' /\ LockInv' /\ NameInv'
  BY <1>2, Zenon DEF IInv, LabelInv, LockInv, NameInv
<1>7. ppc \notin Unlinking /\ rpc # "writing"
  BY <1>4, Zenon DEF IInv, LockInv
<1>8. PrunerInv'
  BY <1>2, <1>7, Zenon DEF IInv, PrunerInv, Unlinking
<1>9. BufInv'
  BY <1>2, <1>4, <1>7, Zenon DEF BufInv
<1>10. CountInv'
  BY <1>2, <1>3, Zenon DEF IInv, CountInv
<1>11. PinnedIsKept'
  <2>1. framelogs \subseteq 1..used /\ used \in 0..MaxPath
    BY Zenon DEF IInv, TypeOK
  <2>2. 1..used \subseteq Path
    BY <2>1, StoreAssumption, SMTT(20) DEF Path
  <2>. QED  BY <1>2, <1>3, <2>1, <2>2, Zenon DEF IInv, PinnedIsKept
<1>. QED  BY <1>5, <1>6, <1>8, <1>9, <1>10, <1>11, Zenon DEF IInv

LEMMA StepPreserves == IInv /\ [Next]_vars => IInv'
<1> SUFFICES ASSUME IInv, [Next]_vars PROVE IInv'
  OBVIOUS
<1>1. CASE RecorderFails
  BY <1>1, StoppedPreserves, Zenon DEF RecorderFails, Disable
<1>2. CASE HonorLatch
  BY <1>2, StoppedPreserves, Zenon DEF HonorLatch
<1>3. CASE OtherRecorderFails
  BY <1>3, SamePreserves, Zenon DEF OtherRecorderFails
<1>4. CASE OnHello
  BY <1>4, TakeNamePreserves, Zenon DEF OnHello
<1>5. CASE HelloDone
  BY <1>5, AdoptPreserves, Zenon DEF HelloDone
<1>6. CASE Roll
  BY <1>6, TakeNamePreserves, Zenon DEF Roll
<1>7. CASE RollDone
  BY <1>7, AdoptPreserves, Zenon DEF RollDone
<1>8. CASE RollFails
  BY <1>8, StoppedPreserves, Zenon DEF RollFails, Disable
<1>9. CASE FinishRecording
  BY <1>9, StoppedPreserves, Zenon DEF FinishRecording
<1>10. CASE UNCHANGED vars
  BY <1>10, SamePreserves, Zenon DEF vars, recorder
<1>. QED
  BY <1>1, <1>2, <1>3, <1>4, <1>5, <1>6, <1>7, <1>8, <1>9, <1>10, StartRecordingPreserves,
     CreateLogPreserves, RenameLogPreserves, RenameFailsPreserves, RollToPreserves,
     RecordSegmentPreserves, SegmentWrittenPreserves, SidecarWriteFailsPreserves,
     JudgeSegmentPreserves, SetWakeClassSkipsPreserves, SetWakeClassPreserves,
     LabelWrittenPreserves, SetPinnedPreserves, PinWrittenPreserves, PinKilledPreserves,
     BeginPassPreserves, InspectPreserves, InspectOpenPreserves, InventoryDonePreserves,
     NextPhasePreserves, PassOverPreserves, TryDeletePreserves, RecheckPreserves,
     UnlinkSidecarPreserves, UnlinkFramelogPreserves, UnlinkFailsPreserves, CrashPreserves,
     SidecarRotsPreserves, Zenon
     DEF Next, RecorderStep, PipelineStep, PinStep, PrunerStep

-----------------------------------------------------------------------------
(* The store keeps its inductive invariant, whatever its size: the flock has *)
(* one holder, who is at the step it guards, what a writer will rename into  *)
(* place is made from the file it replaces, the names in use are in the open *)
(* set, and the recorder's list is as long as the file's.                    *)
THEOREM StoreInvariance == Spec => []IInv
BY InitEstablishes, StepPreserves, PTL DEF Spec

(* A pin is kept: no order of a recorder's rewrites, the labels, the passes  *)
(* of the pruner, crashes and disk faults loses the pin or the pinned log    *)
(* (write_within_lock's merge, try_delete's check under the lock).           *)
THEOREM PinsAreKept == Spec => []PinnedIsKept
<1>1. IInv => PinnedIsKept
  BY Zenon DEF IInv
<1>. QED  BY <1>1, StoreInvariance, PTL

(* No log is unlinked while a recorder writes it: a path in the open set     *)
(* stays there while its recorder lives, and no path comes back to it.       *)
THEOREM OpenLogsStay == Spec => []OpenIsNeverUnlinked
<1>1. IInv => OpenIsNeverUnlinked
  BY Zenon DEF IInv, NameInv, OpenIsNeverUnlinked
<1>. QED  BY <1>1, StoreInvariance, PTL

(* No rewrite, by the daemon, a label or a pin, drops a segment from a       *)
(* sidecar: each is made under the lock from the file it replaces.           *)
THEOREM SegmentsAreKept == Spec => []SegmentsKept
<1>1. IInv => SegmentsKept
  BY Zenon DEF IInv, CountInv, SegmentsKept
<1>. QED  BY <1>1, StoreInvariance, PTL

(* A verdict that lands between the inventory and the deletion spares its    *)
(* log: on_disk_prunable looks again under the lock, and the lock is kept    *)
(* until the sidecar is gone.                                                *)
THEOREM LateVerdictsSpare == Spec => LateVerdictSpares
<1> DEFINE A == \A p \in Path : (UnlinkSidecar /\ p = entry.path) =>
                  (TierOf(sidecar[p]) = "Positive" => entry.tier = "Positive")
<1>1. IInv /\ [Next]_vars => A
  BY Zenon DEF IInv, PrunerInv, UnlinkSidecar, TierLeq
<1> HIDE DEF A
<1>2. Spec => [][A]_vars
  BY <1>1, StoreInvariance, PTL DEF Spec
<1>. QED  BY <1>2, Zenon DEF LateVerdictSpares, A

=============================================================================
