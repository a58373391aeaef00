---------------------------- MODULE UplinkProtocol ----------------------------
(***************************************************************************)
(* What a pod promises the host on the wire (audio-pipeline wire.rs), with *)
(* no thread, ring or socket in sight.  A connection opens with Hello.     *)
(* Segments follow one another: SegmentStart, audio frames that continue   *)
(* where the last one stopped, telemetry in between, and SegmentEnd with   *)
(* the number of samples sent.  A segment may be abandoned: the connection *)
(* goes, or the next SegmentStart comes without a SegmentEnd.              *)
(***************************************************************************)
EXTENDS Integers, Sequences

CONSTANT MayResume      \* a segment may be taken up again after a loss

VARIABLES up,           \* a connection is held
          sess,         \* what has been sent: [phase, id, next, count]
          half,         \* the frame the wire holds the beginning of
          out           \* the frame sent last

vars == <<up, sess, half, out>>

NoFrame == [type |-> "none"]
Hello == [type |-> "Hello"]
SegmentStart(id, base)  == [type |-> "SegmentStart", id |-> id, base |-> base]
Audio(id, first, pcm)   == [type |-> "Audio", id |-> id, first |-> first, pcm |-> pcm]
TelemetryFrame          == [type |-> "Telemetry"]
SegmentEnd(id, samples, reason) ==
  [type |-> "SegmentEnd", id |-> id, samples |-> samples, reason |-> reason]

NoSession == [phase |-> "none", id |-> -1, next |-> 0, count |-> 0]

(* What the connection state is once f was sent. *)
SessAfter(s, f) ==
  CASE f.type = "Hello"        -> [s EXCEPT !.phase = "idle"]
    [] f.type = "SegmentStart" -> [phase |-> "open", id |-> f.id,
                                   next |-> f.base, count |-> 0]
    [] f.type = "Audio"        -> [s EXCEPT !.next = @ + Len(f.pcm),
                                            !.count = @ + Len(f.pcm)]
    [] f.type = "Telemetry"    -> s
    [] f.type = "SegmentEnd"   -> [s EXCEPT !.phase = "idle"]

(* The samples of a frame are the ones its index names. *)
TrueSamples(f) == \A k \in DOMAIN f.pcm : f.pcm[k] = f.first + k - 1

(* The order of frames a host may rely on. *)
MayFollow(s, f) ==
  CASE f.type = "Hello"        -> s.phase = "none"
    [] f.type = "SegmentStart" -> /\ s.phase # "none"
                                  /\ f.id > s.id \/ (MayResume /\ f.id = s.id)
    [] f.type = "Audio"        -> /\ s.phase = "open" /\ f.id = s.id
                                  /\ f.first = s.next /\ f.pcm # <<>>
                                  /\ TrueSamples(f)
    [] f.type = "Telemetry"    -> s.phase = "open"
    [] f.type = "SegmentEnd"   -> /\ s.phase = "open" /\ f.id = s.id
                                  /\ f.samples = s.count
    [] OTHER                   -> FALSE

Init == up = FALSE /\ sess = NoSession /\ half = NoFrame /\ out = Hello

(* A frame may go out in pieces; until it is whole nothing else does. *)
Begin(f) ==
  /\ up /\ half = NoFrame
  /\ MayFollow(sess, f)
  /\ half' = f
  /\ UNCHANGED <<up, sess, out>>

Send(f) ==
  /\ up /\ half \in {NoFrame, f}
  /\ MayFollow(sess, f)
  /\ sess' = SessAfter(sess, f)
  /\ half' = NoFrame
  /\ out' = f
  /\ UNCHANGED up

Connect ==
  /\ ~up
  /\ up' = TRUE
  /\ sess' = [sess EXCEPT !.phase = "idle"]
  /\ half' = NoFrame
  /\ out' = Hello

Lose ==
  /\ up
  /\ up' = FALSE
  /\ sess' = [sess EXCEPT !.phase = "none"]
  /\ half' = NoFrame
  /\ UNCHANGED out

Next == Connect \/ Lose \/ Begin(half') \/ Send(out')

Spec == Init /\ [][Next]_vars
=============================================================================
