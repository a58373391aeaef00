---------------------------- MODULE RecordStore ----------------------------
(* The record store of the host: frame logs, their sidecars, and the four   *)
(* who touch them.  The recorder of a connection writes (recorder.rs); the  *)
(* pipeline labels segments with the wake verdict (set_wake_class); an      *)
(* operator pins a log from another process (set_pinned); the pruner        *)
(* deletes whole logs to stay under the quotas (prune.rs).                  *)
(* Logs are numbered in the order their names sort; every log weighs one.   *)
EXTENDS Naturals, Sequences, FiniteSets

CONSTANTS
  MaxPath,        \* how many log names the run may use
  MaxSegs,        \* segments of one log
  PodCapBytes, CapBytes,  \* the quota of a pod and of the store, in logs
  MaxFaults, MaxPins, MaxPasses   \* crashes and disk faults, pins, passes

ASSUME StoreAssumption ==
  /\ MaxPath \in Nat /\ MaxSegs \in Nat /\ PodCapBytes \in Nat /\ CapBytes \in Nat
  /\ MaxFaults \in Nat /\ MaxPins \in Nat /\ MaxPasses \in Nat

Path == 1..MaxPath
NoPath == 0
WakeClass == {"Ungated", "Negative", "Positive"}
Bucket == {"Pod", "Unattributed"}

VARIABLES
  framelogs,   \* the frame logs on disk
  sidecar,     \* the sidecar file of each path
  lock,        \* who holds the flock on the store directory
  open_logs,   \* the process-wide set of open paths
  rpc, log_name, new_name, mem, latched, used,   \* the recorder
  lab, recent,           \* the pipeline's labelling and its recent segments
  pin,                   \* the pin subcommand
  ppc, phase, listing, entry, inv, left, attempted, deleted,   \* the pruner
  buf,                   \* what the writer under the lock will rename into place
  faults, npins, passes,
  pins, recorded \* history: the pins and the segments that landed

recorder == <<rpc, log_name, new_name, mem, latched, used>>
pipeline == <<lab, recent>>
pruner   == <<ppc, phase, listing, entry, inv, left, attempted, deleted, passes>>
history  == <<pins, recorded>>
vars == <<framelogs, sidecar, lock, open_logs, recorder, pipeline, pin, pruner,
          buf, faults, npins, history>>

-----------------------------------------------------------------------------
(* The sidecar file *)

NewSidecar(pod) == [state |-> "ok", pod |-> pod, pinned |-> FALSE, segments |-> <<>>]
NoSidecar == [state |-> "absent", pod |-> "Unattributed", pinned |-> FALSE, segments |-> <<>>]
Corrupt   == [state |-> "corrupt", pod |-> "Unattributed", pinned |-> FALSE, segments |-> <<>>]

MergedFromMemory(self, disk) ==
  [self EXCEPT !.segments = [i \in DOMAIN @ |->
     IF i \in DOMAIN disk.segments /\ self.segments[i] = "Ungated"
     THEN disk.segments[i] ELSE self.segments[i]]]
MergedZipped(self, disk) ==
  [self EXCEPT !.pinned = @ \/ disk.pinned,
               !.segments = SubSeq(@, 1, Len(disk.segments))]

(* write_within_lock: the pin and the labels on disk carried forward. *)
Merged(self, disk) ==
  [state |-> self.state, pod |-> self.pod,
   pinned |-> self.pinned \/ disk.pinned,
   segments |-> [i \in DOMAIN self.segments |->
      IF i \in DOMAIN disk.segments /\ self.segments[i] = "Ungated"
      THEN disk.segments[i] ELSE self.segments[i]]]

TierOf(sc) == IF \E i \in DOMAIN sc.segments : sc.segments[i] = "Positive"
              THEN "Positive" ELSE "Ungated"

TierLeq(a, b) == a = "Ungated" \/ b = "Positive"

(* The first half of a locked read-modify-write: the lock is taken and the *)
(* new file made from what is on disk; Renamed is the second half.         *)
LockStore(who) == lock = "free" /\ lock' = who

Renamed(who, p) ==
  /\ lock = who /\ lock' = "free"
  /\ sidecar' = [sidecar EXCEPT ![p] = buf]
  /\ buf' = NoSidecar

NoLabel == [path |-> NoPath, seg |-> 0, class |-> "Ungated"]

(* What the inventory knows of a log. *)
NoEntry == [path |-> NoPath, sidecar |-> FALSE, corrupt |-> FALSE, tier |-> "Ungated",
            pinned |-> FALSE, age_key |-> 0, pod |-> "Unattributed", open |-> FALSE]

-----------------------------------------------------------------------------
Init ==
  /\ framelogs = {} /\ sidecar = [p \in Path |-> NoSidecar]
  /\ lock = "free" /\ open_logs = {}
  /\ rpc = "off" /\ log_name = NoPath /\ new_name = NoPath /\ mem = NoSidecar
  /\ latched = FALSE /\ used = 0
  /\ lab = NoLabel /\ recent = {}
  /\ pin = NoPath
  /\ ppc = "idle" /\ phase = "quota" /\ listing = {} /\ entry = NoEntry /\ inv = {}
  /\ left = {} /\ attempted = {} /\ deleted = {}
  /\ buf = NoSidecar
  /\ faults = 0 /\ npins = 0 /\ passes = 0
  /\ pins = {} /\ recorded = [p \in Path |-> 0]

-----------------------------------------------------------------------------
(* The recorder *)

Fault == faults < MaxFaults /\ faults' = faults + 1

(* A path enters the open set before its file exists under that name. *)
StartRecording ==
  /\ rpc = "off" /\ ~latched /\ used < MaxPath
  /\ used' = used + 1 /\ log_name' = used + 1
  /\ open_logs' = open_logs \cup {used + 1}
  /\ mem' = NoSidecar /\ rpc' = "starting"
  /\ UNCHANGED <<framelogs, sidecar, lock, new_name, latched, pipeline, pin, pruner, buf,
                 faults, npins, history>>

CreateLog ==
  /\ rpc = "starting"
  /\ framelogs' = framelogs \cup {log_name} /\ rpc' = "open"
  /\ UNCHANGED <<sidecar, lock, open_logs, log_name, new_name, mem, latched, used,
                 pipeline, pin, pruner, buf, faults, npins, history>>

(* Without its writer a recorder does nothing more. *)
Stopped(closed) ==
  /\ rpc' = "off" /\ log_name' = NoPath /\ new_name' = NoPath /\ mem' = NoSidecar
  /\ open_logs' = open_logs \ closed
  /\ UNCHANGED used

(* disable: the writer goes, the latch is set for every connection. *)
Disable(also) == latched' = TRUE /\ Stopped({log_name} \cup also)

RecorderFails ==
  /\ rpc \in {"starting", "open"} /\ Fault
  /\ Disable({})
  /\ UNCHANGED <<framelogs, sidecar, lock, pipeline, pin, pruner, buf, npins, history>>

HonorLatch ==
  /\ rpc = "open" /\ latched
  /\ Stopped({log_name})
  /\ UNCHANGED <<framelogs, sidecar, lock, latched, pipeline, pin, pruner, buf, faults,
                 npins, history>>

(* The recorder of another connection fails and latches this one off. *)
OtherRecorderFails ==
  /\ ~latched /\ Fault /\ latched' = TRUE
  /\ UNCHANGED <<framelogs, sidecar, lock, open_logs, rpc, log_name, new_name, mem, used,
                 pipeline, pin, pruner, buf, npins, history>>

(* on_hello and maybe_roll announce the new path first, and let go of the   *)
(* old one when the frame log has the new name.                              *)
TakeName(next) ==
  /\ rpc = "open" /\ used < MaxPath
  /\ used' = used + 1 /\ new_name' = used + 1
  /\ open_logs' = open_logs \cup {used + 1}
  /\ rpc' = next
  /\ UNCHANGED <<framelogs, sidecar, lock, log_name, mem, latched, pipeline, pin, pruner, buf,
                 faults, npins, history>>

AdoptWrongName ==
  /\ open_logs' = open_logs \ {new_name}
  /\ log_name' = new_name /\ new_name' = NoPath /\ mem' = NewSidecar("Pod") /\ rpc' = "open"

Adopt ==
  /\ open_logs' = open_logs \ {log_name}
  /\ log_name' = new_name /\ new_name' = NoPath /\ mem' = NewSidecar("Pod") /\ rpc' = "open"

OnHello == mem = NoSidecar /\ TakeName("renaming")

(* rename_to takes the frame log, and only it, to its new name.  A pin made *)
(* under the old name stays there.                                          *)
RenameLog ==
  /\ rpc = "renaming"
  /\ framelogs' = (framelogs \ {log_name}) \cup {new_name}
  /\ pins' = pins \ {log_name}
  /\ rpc' = "renamed"
  /\ UNCHANGED <<sidecar, lock, open_logs, log_name, new_name, mem, latched, used, pipeline,
                 pin, pruner, buf, faults, npins, recorded>>

HelloDone ==
  /\ rpc = "renamed"
  /\ Adopt
  /\ UNCHANGED <<framelogs, sidecar, lock, latched, used, pipeline, pin, pruner, buf,
                 faults, npins, history>>

RenameFails ==
  /\ rpc = "renaming" /\ Fault
  /\ open_logs' = open_logs \ {new_name}
  /\ new_name' = NoPath /\ mem' = NewSidecar("Pod") /\ rpc' = "open"
  /\ UNCHANGED <<framelogs, sidecar, lock, log_name, latched, used, pipeline, pin,
                 pruner, buf, npins, history>>

Roll == mem # NoSidecar /\ TakeName("rolling")

RollTo ==
  /\ rpc = "rolling"
  /\ framelogs' = framelogs \cup {new_name} /\ rpc' = "rolled"
  /\ UNCHANGED <<sidecar, lock, open_logs, log_name, new_name, mem, latched, used, pipeline,
                 pin, pruner, buf, faults, npins, history>>

RollDone ==
  /\ rpc = "rolled"
  /\ Adopt
  /\ UNCHANGED <<framelogs, sidecar, lock, latched, used, pipeline, pin, pruner, buf,
                 faults, npins, history>>

RollFails ==
  /\ rpc = "rolling" /\ Fault
  /\ Disable({new_name})
  /\ UNCHANGED <<framelogs, sidecar, lock, pipeline, pin, pruner, buf, npins, history>>

(* record_segment: the entry is pushed, then the sidecar rewritten under   *)
(* the lock.  A sidecar that cannot be read is an error and disables.      *)
RecordSegment ==
  /\ rpc = "open" /\ mem # NoSidecar /\ Len(mem.segments) < MaxSegs
  /\ LockStore("recorder")
  /\ LET pushed == [mem EXCEPT !.segments = Append(@, "Ungated")]
         merged == Merged(pushed, sidecar[log_name])
     IN IF sidecar[log_name].state = "corrupt"
        THEN mem' = pushed /\ rpc' = "unreadable" /\ UNCHANGED buf
        ELSE mem' = merged /\ rpc' = "writing" /\ buf' = merged
  /\ UNCHANGED <<framelogs, sidecar, open_logs, log_name, new_name, latched, used, pipeline,
                 pin, pruner, faults, npins, history>>

(* finalize_segment hands the segment to the pipeline once it is written. *)
ToPipeline ==
  recent' = recent \cup {[path |-> log_name, seg |-> Len(mem.segments), class |-> "Ungated"]}

SegmentWritten ==
  /\ rpc = "writing"
  /\ Renamed("recorder", log_name)
  /\ ToPipeline
  /\ recorded' = [recorded EXCEPT ![log_name] = @ + 1]
  /\ rpc' = "open"
  /\ UNCHANGED <<framelogs, open_logs, log_name, new_name, mem, latched, used, lab, pin, pruner,
                 faults, npins, pins>>

SidecarWriteFails ==
  /\ rpc = "unreadable" \/ (rpc = "writing" /\ faults < MaxFaults)
  /\ faults' = IF rpc = "writing" THEN faults + 1 ELSE faults
  /\ lock' = "free" /\ buf' = NoSidecar
  /\ Disable({})
  /\ ToPipeline
  /\ UNCHANGED <<framelogs, sidecar, lab, pin, pruner, npins, history>>

FinishRecording ==
  /\ rpc = "open"
  /\ Stopped({log_name})
  /\ UNCHANGED <<framelogs, sidecar, lock, latched, pipeline, pin, pruner, buf, faults,
                 npins, history>>

-----------------------------------------------------------------------------
(* The pipeline labels a segment when it arrives, and lifts a Negative when *)
(* the wake detection comes late.                                           *)
JudgeSegment ==
  /\ lab.path = NoPath
  /\ \E r \in recent, c \in {"Negative", "Positive"} :
       /\ r.class = "Ungated" \/ (r.class = "Negative" /\ c = "Positive")
       /\ recent' = (recent \ {r}) \cup {[r EXCEPT !.class = c]}
       /\ lab' = [path |-> r.path, seg |-> r.seg, class |-> c]
  /\ UNCHANGED <<framelogs, sidecar, lock, open_logs, recorder, pin, pruner, buf, faults, npins, history>>

Labelled == lab' = NoLabel

(* set_wake_class: no sidecar, no such segment, an unreadable file: nothing *)
(* is written.                                                              *)
SetWakeClassSkips ==
  /\ lab.path # NoPath /\ lock = "free"
  /\ sidecar[lab.path].state # "ok" \/ lab.seg \notin DOMAIN sidecar[lab.path].segments
  /\ Labelled
  /\ UNCHANGED <<framelogs, sidecar, lock, open_logs, recorder, recent, pin, pruner, buf,
                 faults, npins, history>>

SetWakeClass ==
  /\ lab.path # NoPath /\ LockStore("label")
  /\ sidecar[lab.path].state = "ok" /\ lab.seg \in DOMAIN sidecar[lab.path].segments
  /\ LET disk == sidecar[lab.path]
         self == [disk EXCEPT !.segments = [@ EXCEPT ![lab.seg] = lab.class]]
     IN buf' = Merged(self, disk)
  /\ UNCHANGED <<framelogs, sidecar, open_logs, recorder, pipeline, pin, pruner, faults, npins, history>>

LabelWritten ==
  /\ Renamed("label", lab.path)
  /\ Labelled
  /\ UNCHANGED <<framelogs, open_logs, recorder, recent, pin, pruner, faults,
                 npins, history>>

-----------------------------------------------------------------------------
(* set_pinned, in the operator's process: nothing asks whether the log that is *)
(* named is there, or still there.                                             *)

SetPinned ==
  /\ pin = NoPath /\ npins < MaxPins
  /\ LockStore("pin")
  /\ \E p \in 1..used :
       /\ sidecar[p].state # "corrupt"
       /\ pin' = p
       /\ LET self == IF sidecar[p].state = "absent" THEN NewSidecar("Unattributed") ELSE sidecar[p]
          IN buf' = Merged([self EXCEPT !.pinned = TRUE], sidecar[p])
  /\ npins' = npins + 1
  /\ UNCHANGED <<framelogs, sidecar, open_logs, recorder, pipeline, pruner, faults,
                 history>>

(* The pin counts for the log that still has the name. *)
PinWritten ==
  /\ pin # NoPath
  /\ Renamed("pin", pin)
  /\ pins' = pins \cup ({pin} \cap framelogs)
  /\ pin' = NoPath
  /\ UNCHANGED <<framelogs, open_logs, recorder, pipeline, pruner, faults, npins,
                 recorded>>

PinKilled ==
  /\ pin # NoPath /\ Fault
  /\ pin' = NoPath /\ lock' = "free" /\ buf' = NoSidecar
  /\ UNCHANGED <<framelogs, sidecar, open_logs, recorder, pipeline, pruner, npins,
                 history>>

-----------------------------------------------------------------------------
(* The pruner *)

PassEnds ==
  /\ ppc' = "idle" /\ phase' = "quota" /\ listing' = {} /\ entry' = NoEntry /\ inv' = {}
  /\ left' = {} /\ attempted' = {} /\ deleted' = {}

(* The inventory is made without the lock. *)
BeginPass ==
  /\ ppc = "idle" /\ passes < MaxPasses
  /\ passes' = passes + 1
  /\ listing' = framelogs /\ ppc' = "list"
  /\ UNCHANGED <<framelogs, sidecar, lock, open_logs, recorder, pipeline, pin, phase, entry, inv,
                 left, attempted, deleted, buf, faults, npins, history>>

(* One log of the listing: stat it, stat and read its sidecar. *)
Inspect ==
  /\ ppc = "list" /\ listing # {}
  /\ \E p \in listing :
       /\ listing' = listing \ {p}
       /\ IF p \notin framelogs THEN UNCHANGED <<ppc, entry>>
          ELSE /\ ppc' = "openness"
               /\ entry' = [path |-> p, sidecar |-> sidecar[p].state # "absent",
                            corrupt |-> sidecar[p].state = "corrupt",
                            tier |-> TierOf(sidecar[p]), pinned |-> sidecar[p].pinned,
                            age_key |-> IF sidecar[p].segments = <<>> THEN 0 ELSE p,
                            pod |-> sidecar[p].pod, open |-> FALSE]
  /\ UNCHANGED <<framelogs, sidecar, lock, open_logs, recorder, pipeline, pin, inv, left,
                 attempted, deleted, phase, passes, buf, faults, npins, history>>

(* ... and only then ask whether it is open. *)
InspectOpen ==
  /\ ppc = "openness"
  /\ inv' = inv \cup {[entry EXCEPT !.open = entry.path \in open_logs]}
  /\ entry' = NoEntry /\ ppc' = "list"
  /\ UNCHANGED <<framelogs, sidecar, lock, open_logs, recorder, pipeline, pin, listing, left,
                 attempted, deleted, phase, passes, buf, faults, npins, history>>

Total(entries) == Cardinality(entries \ deleted)
OfBucket(b) == {e \in inv : e.pod = b}

(* Nothing over its quota: the pass ends before it sorts. *)
InventoryDone ==
  /\ ppc = "list" /\ listing = {}
  /\ IF /\ Cardinality(inv) <= CapBytes
        /\ \A b \in Bucket : Cardinality(OfBucket(b)) <= PodCapBytes
     THEN PassEnds
     ELSE /\ ppc' = "drain" /\ left' = inv
          /\ UNCHANGED <<phase, listing, entry, inv, attempted, deleted>>
  /\ UNCHANGED <<framelogs, sidecar, lock, open_logs, recorder, pipeline, pin, passes, buf,
                 faults, npins, history>>

(* The deletion order: tier, then age, then path. *)
Before(e, f) ==
  \/ e.tier = "Ungated" /\ f.tier = "Positive"
  \/ /\ e.tier = f.tier
     /\ e.age_key < f.age_key \/ (e.age_key = f.age_key /\ e.path <= f.path)

First(e) == e \in left /\ \A f \in left : Before(e, f)

(* Phase 1 drains each bucket over its quota, phase 2 the store; phase 2   *)
(* passes over what phase 1 has tried.                                     *)
Due(e) == IF phase = "quota" THEN Total(OfBucket(e.pod)) > PodCapBytes
                             ELSE e.path \notin attempted

PhaseEnds == left = {} \/ (phase = "cap" /\ Total(inv) <= CapBytes)

NextPhase ==
  /\ ppc = "drain" /\ PhaseEnds
  /\ IF phase = "quota"
     THEN phase' = "cap" /\ left' = inv /\ UNCHANGED <<ppc, listing, entry, inv, attempted, deleted>>
     ELSE PassEnds
  /\ UNCHANGED <<framelogs, sidecar, lock, open_logs, recorder, pipeline, pin, passes, buf,
                 faults, npins, history>>

(* try_delete's first look, before the lock. *)
Skipped(e) == e.corrupt \/ e.path \in open_logs \/ e.open \/ e.pinned

PassOver ==
  /\ ppc = "drain" /\ ~PhaseEnds
  /\ \E e \in left :
       /\ First(e) /\ (~Due(e) \/ Skipped(e))
       /\ left' = left \ {e}
       /\ attempted' = IF phase = "quota" /\ Due(e) THEN attempted \cup {e.path} ELSE attempted
  /\ UNCHANGED <<framelogs, sidecar, lock, open_logs, recorder, pipeline, pin, ppc, listing,
                 entry, inv, deleted, phase, passes, buf, faults, npins, history>>

TryDelete ==
  /\ ppc = "drain" /\ ~PhaseEnds
  /\ \E e \in left :
       /\ First(e) /\ Due(e) /\ ~Skipped(e)
       /\ entry' = e
       /\ left' = left \ {e}
       /\ attempted' = IF phase = "quota" THEN attempted \cup {e.path} ELSE attempted
  /\ ppc' = "lock"
  /\ UNCHANGED <<framelogs, sidecar, lock, open_logs, recorder, pipeline, pin, listing, inv,
                 deleted, phase, passes, buf, faults, npins, history>>

PrunableIfUnpinned(e) == sidecar[e.path].state # "corrupt" /\ ~sidecar[e.path].pinned

(* on_disk_prunable: the live sidecar, under the lock. *)
Prunable(e) ==
  LET disk == sidecar[e.path]
  IN disk.state # "corrupt" /\ ~disk.pinned /\ TierLeq(TierOf(disk), e.tier)

Recheck ==
  /\ ppc = "lock"
  /\ IF Prunable(entry)
     THEN /\ LockStore("pruner")
          /\ ppc' = IF entry.sidecar THEN "unlink_sidecar" ELSE "unlink_framelog"
     ELSE lock = "free" /\ UNCHANGED lock /\ ppc' = "drain"
  /\ UNCHANGED <<framelogs, sidecar, open_logs, recorder, pipeline, pin, listing, entry, inv,
                 left, attempted, deleted, phase, passes, buf, faults, npins, history>>

(* Nobody else removes a sidecar the inventory has seen. *)
UnlinkSidecar ==
  /\ ppc = "unlink_sidecar"
  /\ sidecar' = [sidecar EXCEPT ![entry.path] = NoSidecar]
  /\ recorded' = [recorded EXCEPT ![entry.path] = 0]
  /\ ppc' = "unlink_framelog"
  /\ UNCHANGED <<framelogs, lock, open_logs, recorder, pipeline, pin, listing, entry, inv, left,
                 attempted, deleted, phase, passes, buf, faults, npins, pins>>

UnlinkFramelog ==
  /\ ppc = "unlink_framelog" /\ entry.path \in framelogs
  /\ framelogs' = framelogs \ {entry.path}
  /\ deleted' = deleted \cup {entry}
  /\ lock' = "free" /\ ppc' = "drain"
  /\ UNCHANGED <<sidecar, open_logs, recorder, pipeline, pin, listing, entry, inv, left,
                 attempted, phase, passes, buf, faults, npins, history>>

(* A file that is gone, or that the disk refuses, is recorded and skipped. *)
UnlinkFails ==
  /\ \/ ppc = "unlink_framelog" /\ entry.path \notin framelogs /\ UNCHANGED faults
     \/ ppc \in {"unlink_sidecar", "unlink_framelog"} /\ Fault
  /\ lock' = "free" /\ ppc' = "drain"
  /\ UNCHANGED <<framelogs, sidecar, open_logs, recorder, pipeline, pin, listing, entry, inv,
                 left, attempted, deleted, phase, passes, buf, npins, history>>

-----------------------------------------------------------------------------
(* The environment: the daemon dies and comes back, a sidecar rots. *)

Crash ==
  /\ Fault
  /\ latched' = FALSE /\ Stopped(open_logs)
  /\ recent' = {} /\ Labelled
  /\ PassEnds
  /\ IF lock = "pin" THEN UNCHANGED <<lock, buf>> ELSE lock' = "free" /\ buf' = NoSidecar
  /\ UNCHANGED <<framelogs, sidecar, pin, passes, npins, history>>

SidecarRots ==
  /\ Fault
  /\ lock = "free"
  /\ \E p \in Path : sidecar[p].state = "ok" /\ sidecar' = [sidecar EXCEPT ![p] = Corrupt]
  /\ UNCHANGED <<framelogs, lock, open_logs, recorder, pipeline, pin, pruner, buf, npins, history>>

-----------------------------------------------------------------------------
RecorderStep ==
  \/ StartRecording \/ CreateLog \/ RecorderFails \/ HonorLatch \/ OtherRecorderFails
  \/ OnHello \/ RenameLog \/ HelloDone \/ RenameFails
  \/ Roll \/ RollTo \/ RollDone \/ RollFails
  \/ RecordSegment \/ SegmentWritten \/ SidecarWriteFails \/ FinishRecording

PipelineStep == JudgeSegment \/ SetWakeClassSkips \/ SetWakeClass \/ LabelWritten
PinStep == SetPinned \/ PinWritten \/ PinKilled

PrunerStep ==
  \/ BeginPass \/ Inspect \/ InspectOpen \/ InventoryDone \/ NextPhase \/ PassOver
  \/ TryDelete \/ Recheck \/ UnlinkSidecar \/ UnlinkFramelog \/ UnlinkFails

Next == RecorderStep \/ PipelineStep \/ PinStep \/ PrunerStep \/ Crash \/ SidecarRots

Spec == Init /\ [][Next]_vars

-----------------------------------------------------------------------------
(* A pin keeps its log: once set_pinned has returned, whatever the recorder, *)
(* the labels, the pruner and a crash do, the frame log is on disk under    *)
(* that name and its sidecar says pinned (or cannot be read, and protects). *)
PinnedIsKept ==
  \A p \in pins : /\ p \in framelogs
                  /\ sidecar[p].pinned \/ sidecar[p].state = "corrupt"

(* The log a recorder is writing is never unlinked under it (the open set). *)
OpenIsNeverUnlinked ==
  rpc \in {"open", "renaming", "rolling", "writing", "unreadable"} => log_name \in framelogs

(* No rewrite erases a segment that another had appended: a sidecar lists   *)
(* every segment the recorder has written to it, whoever wrote it last.     *)
SegmentsKept ==
  \A p \in Path : sidecar[p].state = "ok" /\ p \in framelogs =>
     Len(sidecar[p].segments) >= recorded[p]

(* A log the wake gate has lifted to Positive is deleted only by a pass     *)
(* that knew: a verdict that lands after the inventory spares its log.      *)
LateVerdictSpares ==
  [][\A p \in Path :
       (UnlinkSidecar /\ p = entry.path) =>
          (TierOf(sidecar[p]) = "Positive" => entry.tier = "Positive")]_vars

=============================================================================
