------------------------------- MODULE Frames -------------------------------
(***************************************************************************)
(* The frame stream of the capture service: _tee_to_same hands every frame *)
(* first to SAMEMonitor (wxparser/same.py), which decodes a header burst   *)
(* once it is over, and then to segment_stream (wxparser/segment.py),      *)
(* which cuts the speech into segments.                                    *)
(*                                                                         *)
(* A frame is quiet, voice, or a transmission of a header; the spectrum is *)
(* reduced to which of the two is the louder part of a window.  Left out:  *)
(* the offsets of a segment, noise that hides a header.                    *)
(***************************************************************************)
EXTENDS Integers, Sequences, FiniteSets, Functions

CONSTANTS
  Header,       \* SAME headers
  PadFrames, MinSilenceFrames, MaxSegFrames, MinSpeechFrames,  \* config.vad_*
  BufferFrames, DetectFrames, SilenceFrames,                   \* config.same_*
  RecentRaw,    \* depth of the monitor's memory of headers (32)
  MaxFrames     \* bound: frames of the stream

Frame == {"quiet", "voice"} \cup Header

ASSUME FramesAssumption ==
  /\ Header \cap {"quiet", "voice"} = {} /\ IsFiniteSet(Header)
  /\ PadFrames \in Nat /\ {MinSilenceFrames, MaxSegFrames} \subseteq Nat \ {0}
  /\ MinSpeechFrames \in Nat /\ {DetectFrames, SilenceFrames, RecentRaw} \subseteq Nat \ {0}
  /\ BufferFrames \in Nat /\ DetectFrames + SilenceFrames <= BufferFrames
  /\ MaxFrames \in Nat

VARIABLES
  air,         \* the frames so far
  ended,       \* the stream has ended
  capturing, quiet, recent,     \* SAMEMonitor: _capturing, _quiet_s in frames, _recent_raw
  inSpeech, pre, buf, silence,  \* segment_stream: in_speech, and numbers of frames in pre, buf
  log,         \* what reached the service, in order: alerts and segments
  dropped      \* auxiliary: frames of segments too short to be emitted

monitor   == <<capturing, quiet, recent>>
segmenter == <<inSpeech, pre, buf, silence>>
vars      == <<air, ended, monitor, segmenter, log, dropped>>

Init ==
  /\ air = <<>> /\ ended = FALSE
  /\ capturing = FALSE /\ quiet = 0 /\ recent = <<>>
  /\ inSpeech = FALSE /\ pre = <<>> /\ buf = <<>> /\ silence = 0
  /\ log = <<>> /\ dropped = {}

LastOf(s, n) == SubSeq(s, IF Len(s) > n THEN Len(s) - n + 1 ELSE 1, Len(s))

-----------------------------------------------------------------------------
(* SAMEMonitor. *)

Count(window, kinds) == Cardinality({i \in DOMAIN window : window[i] \in kinds})

\* looks_like_same: enough of the energy of the window is in the two tones.
LooksLikeSame(window) ==
  LET tones == Count(window, Header) IN 20 * tones > 7 * (tones + Count(window, {"voice"}))

IsBurst(frames) == Len(frames) >= DetectFrames /\ LooksLikeSame(LastOf(frames, DetectFrames))

\* The frames of the buffer that transmit a header, and the first header they transmit.
InBuffer(frames)    == {i \in DOMAIN frames : i > Len(frames) - BufferFrames /\ frames[i] \in Header}
FirstHeader(frames) == frames[CHOOSE i \in InBuffer(frames) : \A j \in InBuffer(frames) : i <= j]

Orderings(S) == Bijection(1..Cardinality(S), S)

\* decode reads the first header of each of the bit alignments it tries: the first one
\* in the buffer is always found, another one unless an earlier one shares all of its
\* alignments; they come in the order of the alignments.
Decodings(frames) ==
  LET sent == {frames[i] : i \in InBuffer(frames)}
  IN  IF sent = {} THEN {<<>>}
      ELSE UNION {Orderings(S) : S \in {T \in SUBSET sent : FirstHeader(frames) \in T}}

Remember(memory, header) == LastOf(Append(memory, header), RecentRaw)

Alert(h) == [is |-> "alert", header |-> h, frames |-> <<>>]

\* _flush: on_alert for each header found that is not remembered.
Raise(s, h) ==
  IF h \in Range(s.recent) THEN s
  ELSE [recent |-> Remember(s.recent, h), alerts |-> Append(s.alerts, Alert(h))]
Flush(found) ==
  LET after[i \in 0..Len(found)] ==
        IF i = 0 THEN [recent |-> recent, alerts |-> <<>>] ELSE Raise(after[i - 1], found[i])
  IN  after[Len(found)]

\* The burst the monitor is capturing has been over for long enough.
IsComplete(frames) ==
  Len(frames) >= DetectFrames /\ ~IsBurst(frames) /\ capturing /\ quiet + 1 >= SilenceFrames

\* feed, on the frames up to the present one.  (The code leaves _quiet_s when a burst is
\* over; the next one clears it before it is read again.)
Feed(frames) ==
  /\ capturing' = (IsBurst(frames) \/ (capturing /\ ~IsComplete(frames)))
  /\ quiet' = IF IsBurst(frames) \/ IsComplete(frames) THEN 0 ELSE IF capturing THEN quiet + 1 ELSE quiet

-----------------------------------------------------------------------------
(* segment_stream. *)

IsSpeech(frame) == frame # "quiet"

Segment(frames) == [is |-> "segment", header |-> "quiet", frames |-> frames]

\* _finish: what becomes of the buffered frames.
Finished(frames) ==
  IF frames = <<>> \/ Len(frames) < MinSpeechFrames THEN <<>> ELSE <<Segment(frames)>>

\* Mutant of Roll: the pre-roll ends before the present frame.
RollBehind(roll, n) == LastOf(roll, PadFrames)
Roll(roll, n) == LastOf(Append(roll, n), PadFrames)

\* A quiet frame between two segments only goes to the pre-roll.
Wait(n, f) ==
  /\ ~inSpeech
  /\ LET roll == Roll(pre, n)
     IN  IF IsSpeech(f) THEN inSpeech' = TRUE /\ buf' = roll /\ pre' = <<>> /\ silence' = 0
         ELSE pre' = roll /\ UNCHANGED <<inSpeech, buf, silence>>

\* Mutant of IsOver: one quiet frame too many.
IsOverLate(held, hush) == hush > MinSilenceFrames \/ Len(held) >= MaxSegFrames
IsOver(held, hush) == hush >= MinSilenceFrames \/ Len(held) >= MaxSegFrames

Hush(f) == IF IsSpeech(f) THEN 0 ELSE silence + 1

Collect(n, f) ==
  /\ inSpeech
  /\ IF IsOver(Append(buf, n), Hush(f))
       THEN inSpeech' = FALSE /\ buf' = <<>> /\ pre' = <<>> /\ silence' = 0
       ELSE buf' = Append(buf, n) /\ silence' = Hush(f) /\ UNCHANGED <<inSpeech, pre>>

Cut(n, f) ==
  IF inSpeech /\ IsOver(Append(buf, n), Hush(f)) THEN Finished(Append(buf, n)) ELSE <<>>

Lost(n, f) ==
  IF inSpeech /\ IsOver(Append(buf, n), Hush(f)) /\ Cut(n, f) = <<>> THEN Range(Append(buf, n)) ELSE {}

-----------------------------------------------------------------------------

\* Mutant of Order: the segmenter sees a frame before the monitor does.
SegmentsFirst(alerts, segments) == segments \o alerts
\* _tee_to_same feeds the monitor before it yields the frame.
Order(alerts, segments) == alerts \o segments

Hear(f) ==
  LET frames == Append(air, f)
      n == Len(frames)
  IN  /\ ~ended /\ Len(air) < MaxFrames
      /\ air' = frames
      /\ Feed(frames)
      /\ \E found \in IF IsComplete(frames) THEN Decodings(frames) ELSE {<<>>} :
           /\ recent' = Flush(found).recent
           /\ log' = log \o Order(Flush(found).alerts, Cut(n, f))
      /\ Wait(n, f) \/ Collect(n, f)
      /\ dropped' = dropped \cup Lost(n, f)
      /\ UNCHANGED ended

\* The stream ends: the segmenter flushes its buffer, the monitor does not.
End ==
  /\ ~ended
  /\ ended' = TRUE
  /\ log' = log \o (IF inSpeech THEN Finished(buf) ELSE <<>>)
  /\ dropped' = dropped \cup (IF inSpeech /\ Finished(buf) = <<>> THEN Range(buf) ELSE {})
  /\ buf' = <<>> /\ inSpeech' = FALSE
  /\ UNCHANGED <<air, monitor, pre, silence>>

Next == End \/ \E f \in Frame : Hear(f)

Spec == Init /\ [][Next]_vars

-----------------------------------------------------------------------------
(* Properties. *)

Frames   == 1..Len(air)
Entry    == [is : {"alert"}, header : Header, frames : {<<>>}]
            \cup [is : {"segment"}, header : {"quiet"}, frames : Seq(Frames) \ {<<>>}]
Segments == {i \in DOMAIN log : log[i].is = "segment"}

\* Every variable stays in its range; frames are held only while
\* speech is on, and the silence at their end is shorter than vad_min_silence_s.
TypeOK ==
  /\ air \in Seq(Frame) /\ Len(air) <= MaxFrames /\ {ended, capturing, inSpeech} \subseteq BOOLEAN
  /\ quiet \in 0..SilenceFrames-1 /\ recent \in Seq(Header) /\ Len(recent) <= RecentRaw
  /\ {Range(pre), Range(buf), dropped} \subseteq SUBSET Frames /\ Len(pre) <= PadFrames
  /\ silence \in 0..MinSilenceFrames-1 /\ (~inSpeech => buf = <<>>)
  /\ log \in Seq(Entry)

\* No speech is lost or doubled between the microphone and the worker: every loud frame
\* of the stream is in exactly one segment, or still buffered, or in a stretch too short
\* to be one; and segments are runs of consecutive frames, in order, none longer than
\* vad_max_segment_s (segment_stream; a pre-roll of no frame would lose the onset, one
\* as long as a segment would make a longer one).
SpeechIsKept ==
  0 < PadFrames /\ PadFrames < MaxSegFrames =>
    /\ \A n \in Frames : IsSpeech(air[n]) =>
         Cardinality({i \in Segments : n \in Range(log[i].frames)})
           + (IF n \in Range(buf) THEN 1 ELSE 0) + (IF n \in dropped THEN 1 ELSE 0) = 1
    /\ \A i \in Segments :
         LET run == log[i].frames
         IN  /\ Len(run) <= MaxSegFrames /\ \A k \in DOMAIN run : run[k] = run[1] + k - 1
             /\ \A j \in Segments : i < j => run[Len(run)] < log[j].frames[1]
             /\ buf # <<>> => run[Len(run)] < buf[1]

\* When a burst was over, told from the stream alone: SilenceFrames windows without the
\* tones after one with them.
Heard(t)   == SubSeq(air, 1, t)
OverAt(t)  == /\ t - SilenceFrames >= DetectFrames /\ IsBurst(Heard(t - SilenceFrames))
              /\ \A u \in t - SilenceFrames + 1 .. t : ~IsBurst(Heard(u))
RaisedAt(h) == {i \in DOMAIN log : log[i] = Alert(h)}

\* "Each distinct header fires on_alert once" (SAMEMonitor), and before the speech that
\* follows it: when a burst is over, the first header in the buffer has been raised, ahead
\* of every segment that ends at that frame or later, and none is ever raised twice while
\* the memory of headers is deep enough.
HeadersAreRaised ==
  /\ \A t \in Frames : OverAt(t) /\ InBuffer(Heard(t)) # {} =>
       \E i \in RaisedAt(FirstHeader(Heard(t))) :
         \A j \in DOMAIN log :
           log[j].is = "segment" /\ log[j].frames[Len(log[j].frames)] >= t => i < j
  /\ Cardinality(Header) <= RecentRaw => \A h \in Header : Cardinality(RaisedAt(h)) <= 1

=============================================================================
