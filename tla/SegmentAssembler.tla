--------------------------- MODULE SegmentAssembler ---------------------------
(***************************************************************************)
(* The per-connection assembler of speech-pipeline assembler.rs: OnEvent   *)
(* folds one session event into the part being accumulated and returns the *)
(* part it finishes, if any.  PCM and telemetry are counted; clocks,       *)
(* preroll and the log reference are left out.  contract_violations is     *)
(* kept as violated and gap_count as gaps: "not zero".                      *)
(***************************************************************************)
EXTENDS Integers, Sequences

CONSTANTS MaxSegmentSamples,     \* max_segment_samples
          MaxTelemetryReadings   \* max_telemetry_readings

NoPart == [open |-> FALSE, id |-> -1, part |-> 0, base |-> 0, len |-> 0,
           is_resume |-> FALSE, gaps |-> FALSE, telemetry |-> 0]

NewAssembler == [cur |-> NoPart, violated |-> FALSE]

OpenPart(id, part, base, is_resume) ==
  [NoPart EXCEPT !.open = TRUE, !.id = id, !.part = part, !.base = base,
                 !.is_resume = is_resume]

(* build_segment: the finished part, its end cause (VadRelease, Overrun and
   InternalError are told apart by no property: Completed) and cross-check. *)
BuildSegment(p, cause, cross) ==
  [id |-> p.id, part |-> p.part, base |-> p.base, len |-> p.len,
   is_resume |-> p.is_resume, gaps |-> p.gaps, cause |-> cause,
   cross |-> cross]

EndOf(close) == IF close = "Truncated" THEN "Truncated" ELSE "Completed"

Result(a, segments) == [asm |-> a, segments |-> segments]

Broken(a) == Result([a EXCEPT !.violated = TRUE], <<>>)

OpenOn(a, id) == a.cur.open /\ a.cur.id = id

OnOpened(a, ev) ==
  Result([cur |-> OpenPart(ev.id, 0, ev.base, ev.is_resume),
          violated |-> a.violated \/ a.cur.open], <<>>)

(* The variant anchors the successor on the samples accumulated, not on the
   capping chunk. *)
SuccessorByLength(p, ev) == OpenPart(p.id, p.part + 1, p.base + p.len, FALSE)

Successor(p, ev) == OpenPart(p.id, p.part + 1, ev.first + ev.n, FALSE)

OnAudioEvent(a, ev) ==
  LET p == [a.cur EXCEPT !.len = @ + ev.n, !.gaps = @ \/ ev.gap]
  IN  IF p.len >= MaxSegmentSamples
        THEN Result([a EXCEPT !.cur = Successor(p, ev)],
                    <<BuildSegment(p, "HostCapped", "None")>>)
        ELSE Result([a EXCEPT !.cur = p], <<>>)

OnTelemetry(a) ==
  Result(IF a.cur.telemetry < MaxTelemetryReadings
           THEN [a EXCEPT !.cur.telemetry = @ + 1] ELSE a, <<>>)

OnClosed(a, ev) ==
  Result([a EXCEPT !.cur = NoPart],
         <<BuildSegment(a.cur, EndOf(ev.close),
                        IF ev.close = "Truncated" THEN "None" ELSE ev.close)>>)

OnEvent(a, ev) ==
  CASE ev.type = "SegmentOpened" -> OnOpened(a, ev)
    [] ev.type = "Audio" -> IF OpenOn(a, ev.id) THEN OnAudioEvent(a, ev) ELSE Broken(a)
    [] ev.type = "Telemetry" -> IF OpenOn(a, ev.id) THEN OnTelemetry(a) ELSE Broken(a)
    [] ev.type = "SegmentClosed" -> IF OpenOn(a, ev.id) THEN OnClosed(a, ev) ELSE Broken(a)
    [] OTHER -> Result(a, <<>>)
=============================================================================
