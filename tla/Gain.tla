-------------------------------- MODULE Gain --------------------------------
(***************************************************************************)
(* The control loop that keeps the radio audible: stream_frames of         *)
(* wxparser/capture.py with its retry budget, the segments that clear the  *)
(* VAD floor, the heartbeat they are published in, and deploy/agc.py,      *)
(* which reads it every few minutes and turns the mixer.                   *)
(*                                                                         *)
(* A step of the clock is a minute; levels are in tenths of a decibel.     *)
(* The heartbeat is written whole (module Heartbeat has its races); a      *)
(* card that fails is one on which arecord ends without a frame.           *)
(***************************************************************************)
EXTENDS Integers, Sequences, FiniteSetsExt, Functions, TLC

CONSTANTS
  Programmes,    \* what a station may sound like: peak level at no gain
  Crest,         \* peak above RMS
  CapDb, BoostDb,    \* the gain of the whole Capture range, and of one step of Boost
  VadFloor,      \* WX_VAD_DBFS
  PEAK_CLIP, RMS_LOW, PEAK_HEADROOM,  \* WX_AGC_*
  SILENT_MIN, STALE_MIN,
  Period,        \* minutes between two runs of the gain control
  MaxRetries,    \* capture_max_retries
  MaxBacklog,    \* bound: segments waiting for STT
  MaxSamples,    \* bound: segments within a sampling window
  MaxDrift,      \* bound: settings of the mixer that were not the gain control's
  Patience,      \* what "within a few runs" allows, in minutes
  None

CAP_MIN == 0
CAP_MAX == 31
CAP_STEP == 3
CAP_MID == 18
BOOST_MIN == 0
BOOST_MAX == 3

ASSUME GainAssumption ==
  /\ Programmes # {} /\ Programmes \subseteq Int /\ {Crest, CapDb, BoostDb} \subseteq Nat
  /\ {VadFloor, PEAK_CLIP, RMS_LOW, PEAK_HEADROOM} \subseteq Int
  /\ {SILENT_MIN, STALE_MIN, MaxRetries, MaxBacklog, MaxDrift, Patience} \subseteq Nat
  /\ Period \in Nat \ {0} /\ MaxSamples \in Nat \ {0} /\ None \notin Int
ASSUME NoneAssumption == None \notin {"raise", "lower"}

VARIABLES
  programme, \* the station's level
  playing,   \* it speaks this minute
  card,      \* the capture device works
  capture,   \* "reading", "spawn" (after a failure: the backoff), "down"
  failures,  \* stream_frames' failures
  backlog,   \* segments waiting for STT
  health,    \* health.json: the ages of updated_at and last_segment_at, and its peak
  cap, boost,    \* the mixer
  drift,     \* settings so far that were not the gain control's
  due,       \* minutes until the gain control runs
  sampling,  \* the peaks it has sampled, or None if it is not sampling
  fruitless, \* auxiliary: arecords in a row that delivered nothing
  measured,  \* auxiliary: the published level (while sampling: the first one sampled) was
             \* measured at the present gain
  trend,     \* auxiliary: the directions the gain control has taken since the last drift
  hasty,     \* auxiliary: it took a step on a level measured at another gain, or raised
             \* blindly a station that is loud enough to be heard
  deafFor    \* auxiliary: minutes the station has been inaudible, though it need not be

service == <<capture, failures, backlog, health>>
mixer   == <<cap, boost, drift>>
control == <<due, sampling>>
aux     == <<fruitless, measured, trend, hasty, deafFor>>
vars    == <<programme, playing, card, service, mixer, control, aux>>

Old    == (IF SILENT_MIN < STALE_MIN THEN STALE_MIN ELSE SILENT_MIN) + 1  \* ages beyond are alike
Older(age) == IF age < Old THEN age + 1 ELSE Old
Booted == [updated |-> 0, segment |-> Old, peak |-> None]  \* no segment yet counts as an old one

Amplified(c, b) == programme + b * BoostDb + (c * CapDb) \div CAP_MAX
Peak      == Amplified(cap, boost)
Hears(c, b) == Amplified(c, b) - Crest > VadFloor

Init ==
  /\ programme \in Programmes /\ playing = TRUE /\ card = TRUE
  /\ capture = "spawn" /\ failures = 0 /\ backlog = 0 /\ health = Booted
  /\ cap = CAP_MID /\ boost \in BOOST_MIN..BOOST_MAX /\ drift = 0
  /\ due \in 0..(Period - 1) /\ sampling = None
  /\ fruitless = 0 /\ measured = FALSE /\ trend = {} /\ hasty = FALSE /\ deafFor = 0

-----------------------------------------------------------------------------
(* stream_frames. *)

\* Mutant of Read: the budget is for the life of the process.
ReadKeepsBudget ==
  /\ capture = "spawn" /\ card
  /\ capture' = "reading"
  /\ fruitless' = 0
  /\ UNCHANGED <<programme, playing, card, failures, backlog, health, mixer, control, measured, trend,
                 hasty, deafFor>>
\* A healthy read resets the budget.
Read ==
  /\ capture = "spawn" /\ card
  /\ capture' = "reading"
  /\ failures' = 0 /\ fruitless' = 0
  /\ UNCHANGED <<programme, playing, card, backlog, health, mixer, control, measured, trend, hasty,
                 deafFor>>

\* arecord ends, after some frames or before the first: another one after the backoff,
\* or stream_frames raises and the service goes down.
Ends ==
  /\ capture \in {"reading", "spawn"} /\ (capture = "spawn" => ~card)
  /\ failures' = failures + 1
  /\ fruitless' = IF capture = "spawn" THEN fruitless + 1 ELSE 0
  /\ capture' = IF failures' > MaxRetries THEN "down" ELSE "spawn"
  /\ UNCHANGED <<programme, playing, card, backlog, health, mixer, control, measured, trend, hasty,
                 deafFor>>

\* systemd restarts the service, which publishes a heartbeat at once.
Restart ==
  /\ capture = "down"
  /\ capture' = "spawn" /\ failures' = 0 /\ backlog' = 0 /\ health' = Booted
  /\ fruitless' = 0 /\ measured' = FALSE
  /\ UNCHANGED <<programme, playing, card, mixer, control, trend, hasty, deafFor>>

-----------------------------------------------------------------------------
(* The rest of the service, as far as it reaches the heartbeat. *)

\* collect_levels: within the sampling window, each new level is one more sample.
Sampled(peak) ==
  IF sampling = None \/ Len(sampling) = MaxSamples THEN sampling ELSE Append(sampling, peak)

\* A segment clears the VAD floor; it is published whether it is queued, repeated or shed.
Segment ==
  /\ capture = "reading" /\ playing /\ Hears(cap, boost)
  /\ health' = [updated |-> 0, segment |-> 0, peak |-> Peak]
  /\ measured' = (measured \/ sampling = None)
  /\ backlog' \in {backlog, IF backlog < MaxBacklog THEN backlog + 1 ELSE backlog}
  /\ sampling' = Sampled(Peak)
  /\ UNCHANGED <<programme, playing, card, capture, failures, mixer, due, fruitless, trend, hasty,
                 deafFor>>

\* The worker publishes the heartbeat after each transcription.
Transcribed ==
  /\ capture # "down" /\ backlog > 0
  /\ backlog' = backlog - 1
  /\ health' = [health EXCEPT !.updated = 0]
  /\ UNCHANGED <<programme, playing, card, capture, failures, mixer, control, aux>>

-----------------------------------------------------------------------------
(* agc.py. *)

\* Mutant of raise_gain: no end stop at the last full step.
raise_gainPastEnd(c, b) ==
  IF b < BOOST_MAX THEN <<CAP_MID, b + 1>>
  ELSE IF c <= CAP_MAX THEN <<c + CAP_STEP, b>> ELSE <<c, b>>
raise_gain(c, b) ==
  IF b < BOOST_MAX THEN <<CAP_MID, b + 1>>
  ELSE IF c + CAP_STEP <= CAP_MAX THEN <<c + CAP_STEP, b>> ELSE <<c, b>>

lower_gain(c, b) ==
  IF b > BOOST_MIN THEN <<CAP_MID, b - 1>>
  ELSE IF c - CAP_STEP >= CAP_MIN THEN <<c - CAP_STEP, b>> ELSE <<c, b>>

\* Twice the median of the RMS levels that go with some peaks.
RmsMedian(peaks) ==
  LET s == SortSeq(peaks, <)
  IN  s[(Len(s) + 1) \div 2] + s[Len(s) \div 2 + 1] - 2 * Crest

\* Mutant of decide: quiet speech is raised whatever headroom the peaks leave.
decideByRms(peaks) ==
  IF Max(Range(peaks)) > PEAK_CLIP THEN "lower"
  ELSE IF RmsMedian(peaks) < 2 * RMS_LOW THEN "raise" ELSE None
decide(peaks) ==
  IF Max(Range(peaks)) > PEAK_CLIP THEN "lower"
  ELSE IF RmsMedian(peaks) < 2 * RMS_LOW /\ Max(Range(peaks)) < PEAK_HEADROOM THEN "raise" ELSE None

Turned(target) == target # <<cap, boost>>

\* amixer sset: Boost and Capture, if they change.
Turn(target, way) ==
  /\ cap' = target[1] /\ boost' = target[2]
  /\ measured' = (measured /\ ~Turned(target))
  /\ trend' = IF Turned(target) THEN trend \cup {way} ELSE trend
  /\ hasty' = (hasty \/ (Turned(target) /\ IF sampling = None THEN Hears(cap, boost) ELSE ~measured))
  /\ deafFor' = IF Turned(target) THEN 0 ELSE deafFor
  /\ UNCHANGED <<programme, playing, card, service, drift, fruitless>>

\* A run begins: nothing is done if the heartbeat is old; without a recent segment the
\* gain is raised blindly; else levels are sampled, the published one first.
Run ==
  /\ due = 0 /\ sampling = None
  /\ due' = Period
  /\ IF health.updated > STALE_MIN
       THEN sampling' = None /\ UNCHANGED <<programme, playing, card, service, mixer, aux>>
       ELSE IF health.segment > SILENT_MIN
         THEN sampling' = None /\ Turn(raise_gain(cap, boost), "up")
         ELSE /\ sampling' = <<health.peak>>
              /\ UNCHANGED <<programme, playing, card, service, mixer, aux>>

Decide ==
  /\ sampling # None
  /\ sampling' = None
  /\ CASE decide(sampling) = "raise" -> Turn(raise_gain(cap, boost), "up")
       [] decide(sampling) = "lower" -> Turn(lower_gain(cap, boost), "down")
       [] OTHER -> UNCHANGED <<programme, playing, card, service, mixer, aux>>
  /\ UNCHANGED due

-----------------------------------------------------------------------------
(* The surroundings. *)

\* A minute passes; the station pauses or goes on.
Tick ==
  /\ due > 0 /\ sampling = None
  /\ due' = due - 1
  /\ playing' \in BOOLEAN
  /\ health' = [health EXCEPT !.updated = Older(@), !.segment = Older(@)]
  /\ deafFor' = IF capture # "reading" \/ Hears(cap, boost) \/ ~Hears(CAP_MID, BOOST_MAX) THEN 0
                ELSE IF deafFor > Patience THEN deafFor ELSE deafFor + 1
  /\ UNCHANGED <<programme, card, capture, failures, backlog, mixer, sampling, fruitless, measured,
                 trend, hasty>>

CardChanges ==
  /\ card' = ~card
  /\ UNCHANGED <<programme, playing, service, mixer, control, aux>>

\* A card reset, or a hand, sets the mixer.
Drift ==
  /\ drift < MaxDrift /\ sampling = None
  /\ drift' = drift + 1
  /\ boost' \in BOOST_MIN..BOOST_MAX /\ cap' = CAP_MID
  /\ measured' = FALSE /\ trend' = {} /\ hasty' = FALSE /\ deafFor' = 0
  /\ UNCHANGED <<programme, playing, card, service, control, fruitless>>

Next ==
  \/ Read \/ Ends \/ Restart \/ Segment \/ Transcribed
  \/ Run \/ Decide \/ Tick \/ CardChanges \/ Drift

Spec == Init /\ [][Next]_vars

-----------------------------------------------------------------------------
(* Properties. *)

\* Every variable stays in its range: the mixer within its rails, in the steps it turns.
TypeOK ==
  /\ programme \in Programmes /\ playing \in BOOLEAN /\ card \in BOOLEAN
  /\ capture \in {"reading", "spawn", "down"} /\ failures \in 0..(MaxRetries + 1)
  /\ backlog \in 0..MaxBacklog
  /\ health \in [updated : 0..Old, segment : 0..Old, peak : Int \cup {None}]
  /\ health.segment < Old => health.peak # None
  /\ cap \in CAP_MIN..CAP_MAX /\ (cap - CAP_MID) % CAP_STEP = 0
  /\ boost \in BOOST_MIN..BOOST_MAX /\ drift \in 0..MaxDrift
  /\ due \in 0..Period
  /\ sampling = None \/ (sampling \in Seq(Int) /\ Len(sampling) \in 1..MaxSamples)
  /\ fruitless \in 0..(MaxRetries + 1) /\ measured \in BOOLEAN /\ hasty \in BOOLEAN
  /\ trend \subseteq {"up", "down"} /\ deafFor \in 0..(Patience + 1)

\* stream_frames gives the capture up only after capture_max_retries arecords in a row
\* that delivered nothing, however often it recovered before.
GivesUpOnBudget == [][Ends /\ capture' = "down" => fruitless' >= MaxRetries]_vars

\* The most that one step on the way up or down changes the level: a step of Boost, or one
\* of Capture, rounded up.
Step == IF BoostDb > (3 * CapDb) \div CAP_MAX THEN BoostDb ELSE (3 * CapDb) \div CAP_MAX + 1

\* "A wide dead band": between the levels that are raised, quiet speech or none at all, and
\* those that are lowered, there is room for a step.  With the defaults of agc.py this asks
\* for a crest of 23 dB at most.
DeadBand == PEAK_HEADROOM + Step <= PEAK_CLIP /\ VadFloor + Crest + Step <= PEAK_CLIP

\* "One small step per run + a wide dead band => stable, no oscillation": on a station of
\* constant level that pauses now and then, the gain control never goes both ways,
\* unless it acted on a level from before its last step (nothing was heard since), or
\* raised the gain of a station that was merely pausing, or not yet heard.
NoHunting == trend = {"up", "down"} => hasty

\* The timer's comment: "a deaf feed recovers within a few runs".
DeafRecovers == deafFor <= Patience

=============================================================================
