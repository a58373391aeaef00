------------------------------- MODULE VadGate -------------------------------
(***************************************************************************)
(* The telemetry thread of pod-streamer telemetry.rs: the VAD state        *)
(* machine of vad.rs, fed once per tick, and the three shared things by    *)
(* which it tells the streamer about an utterance: the bounded channel,    *)
(* the closed flag, and the write head published with an onset.  The flag  *)
(* and the channel are touched one at a time, so the streamer may run in   *)
(* between.                                                                *)
(***************************************************************************)
EXTENDS Integers, Sequences

CONSTANTS ChanCap,        \* STREAMER_CHAN_CAPACITY
          OnsetCount,     \* VAD_ONSET_COUNT
          HangoverTicks,  \* VadStateMachine::hangover_ticks
          DoaEveryN,      \* DOA_EVERY_N_TICKS
          MaxOnsets       \* bound on onsets

ASSUME GateAssumption ==
  /\ ChanCap \in Nat \ {0} /\ OnsetCount \in Nat \ {0}
  /\ HangoverTicks \in Nat /\ DoaEveryN \in Nat \ {0} /\ MaxOnsets \in Nat

VARIABLES vad,          \* [open, n]: Closed{consecutive_above}/Open{below_ticks}
          segment_open, \* TelemetryCore::segment_open
          tick,         \* TelemetryCore::tick modulo DoaEveryN
          tpc,          \* where the thread is inside poll_tick
          onset,        \* the write head read at the latest onset
          flag,         \* vad_closed_flag
          chan,         \* the StreamerMsg channel
          onsets,       \* ghost: how many onsets there were
          released      \* ghost: the head when each onset's gate released

gate == <<vad, segment_open, tick, tpc, onset, onsets, released>>

NotReleased == -1

VadOpened(head, n) == [type |-> "VadOpened", write_head |-> head, onset |-> n]
VadClosed(n)       == [type |-> "VadClosed", onset |-> n]
Telemetry          == [type |-> "Telemetry"]

Message == [type : {"VadOpened"}, write_head : Nat, onset : Nat]
             \cup [type : {"VadClosed"}, onset : Nat]
             \cup {Telemetry}

GateInit ==
  /\ vad = [open |-> FALSE, n |-> 0]
  /\ segment_open = FALSE
  /\ tick = 0
  /\ tpc = "rest"
  /\ onset = 0
  /\ flag = FALSE
  /\ chan = <<>>
  /\ onsets = 0
  /\ released = [n \in 1..MaxOnsets |-> NotReleased]

-----------------------------------------------------------------------------
(* VadStateMachine::update *)

Opens(above)  == ~vad.open /\ above /\ vad.n + 1 >= OnsetCount
Closes(above) == vad.open /\ ~above /\ vad.n + 1 >= HangoverTicks

VadAfter(above) ==
  CASE Opens(above)  -> [open |-> TRUE, n |-> 0]
    [] Closes(above) -> [open |-> FALSE, n |-> 0]
    [] OTHER -> [vad EXCEPT !.n = IF vad.open = above THEN 0 ELSE vad.n + 1]

(* SyncSender::try_send: a full channel loses the message. *)
HasRoom == Len(chan) < ChanCap

TrySend(m) == chan' = IF HasRoom THEN Append(chan, m) ELSE chan

-----------------------------------------------------------------------------
(* poll_tick, up to its first message.  A failed SPENERGY read leaves the  *)
(* machine alone; quiesced capture reads as silence.                       *)

(* With no segment open the rest of the tick offers nothing. *)
EndsTick(pc) ==
  IF segment_open THEN tpc' = pc /\ UNCHANGED tick
                  ELSE tpc' = "rest" /\ tick' = (tick + 1) % DoaEveryN

(* The variant sends the onset while the old release is still flagged. *)
FlagKept == flag

FlagAtOnset == FALSE

NoteVadOpened(above, head) ==
  /\ tpc = "rest" /\ Opens(above) /\ onsets < MaxOnsets
  /\ vad' = VadAfter(above)
  /\ onset' = head
  /\ flag' = FlagAtOnset
  /\ segment_open' = TRUE
  /\ onsets' = onsets + 1
  /\ tpc' = "opened"
  /\ UNCHANGED <<tick, chan, released>>

NoteVadClosed(above, head) ==
  /\ tpc = "rest" /\ Closes(above)
  /\ vad' = VadAfter(above)
  /\ segment_open' = FALSE
  /\ flag' = TRUE
  /\ released' = [released EXCEPT ![onsets] = head]
  /\ tpc' = "closed"
  /\ UNCHANGED <<tick, onset, chan, onsets>>

Unchanged(above) ==
  /\ tpc = "rest" /\ ~Opens(above) /\ ~Closes(above)
  /\ vad' = VadAfter(above)
  /\ EndsTick("forward")
  /\ UNCHANGED <<segment_open, onset, flag, chan, onsets, released>>

ReadFails ==
  /\ tpc = "rest"
  /\ EndsTick("doa")
  /\ UNCHANGED <<vad, segment_open, onset, flag, chan, onsets, released>>

(* The rest of note_vad_opened: deliver the onset, or undo it. *)
SendOpened ==
  /\ tpc = "opened"
  /\ TrySend(VadOpened(onset, onsets))
  /\ tpc' = IF HasRoom THEN "forward" ELSE "undo"
  /\ segment_open' = HasRoom
  /\ UNCHANGED <<vad, tick, onset, flag, onsets, released>>

FlagRestored == TRUE

UndoOpened ==
  /\ tpc = "undo"
  /\ flag' = FlagRestored
  /\ EndsTick("forward")
  /\ UNCHANGED <<vad, segment_open, onset, chan, onsets, released>>

SendClosed ==
  /\ tpc = "closed"
  /\ TrySend(VadClosed(onsets))
  /\ EndsTick("forward")
  /\ UNCHANGED <<vad, segment_open, onset, flag, onsets, released>>

(* A segment is open: SPENERGY, then azimuths on their own cadence. *)
ForwardEnergy ==
  /\ tpc = "forward"
  /\ TrySend(Telemetry)
  /\ tpc' = "doa"
  /\ UNCHANGED <<vad, segment_open, tick, onset, flag, onsets, released>>

ForwardAzimuths ==
  /\ tpc = "doa"
  /\ \E read \in BOOLEAN :
       IF tick = 0 /\ read THEN TrySend(Telemetry)
                                           ELSE UNCHANGED chan
  /\ tick' = (tick + 1) % DoaEveryN
  /\ tpc' = "rest"
  /\ UNCHANGED <<vad, segment_open, onset, flag, onsets, released>>

(* The thread is gone: its end of the channel is dropped. *)
GateDies ==
  /\ tpc = "rest"
  /\ tpc' = "dead"
  /\ UNCHANGED <<vad, segment_open, tick, onset, flag, chan, onsets, released>>

GateStep(head) ==
  \/ \E above \in BOOLEAN :
       NoteVadOpened(above, head) \/ NoteVadClosed(above, head) \/ Unchanged(above)
  \/ ReadFails
  \/ SendOpened \/ UndoOpened \/ SendClosed
  \/ ForwardEnergy \/ ForwardAzimuths

GateTypeOK ==
  /\ vad \in [open : BOOLEAN, n : Nat]
  /\ segment_open \in BOOLEAN /\ flag \in BOOLEAN
  /\ tick \in 0..(DoaEveryN - 1)
  /\ tpc \in {"rest", "opened", "closed", "undo", "forward", "doa", "dead"}
  /\ onset \in Nat
  /\ chan \in Seq(Message) /\ Len(chan) <= ChanCap
  /\ onsets \in 0..MaxOnsets
  /\ released \in [1..MaxOnsets -> Nat \cup {NotReleased}]

=============================================================================
