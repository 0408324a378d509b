----------------------------- MODULE GainProofs -----------------------------
(***************************************************************************)
(* Theorems about Gain: for every station, card, budget and period, the    *)
(* mixer stays within its rails and the capture gives up on its budget and *)
(* not before.                                                             *)
(***************************************************************************)
EXTENDS Gain, TLAPS

\* raise_gain and lower_gain stay within the rails and in the steps they turn by.
Rails == {c \in CAP_MIN..CAP_MAX : (c - CAP_MID) % CAP_STEP = 0} \X (BOOST_MIN..BOOST_MAX)

LEMMA TurnsWithinRails ==
  ASSUME NEW c, NEW b, <<c, b>> \in Rails
  PROVE  raise_gain(c, b) \in Rails /\ lower_gain(c, b) \in Rails
<1> USE DEF Rails, CAP_MIN, CAP_MAX, CAP_STEP, CAP_MID, BOOST_MIN, BOOST_MAX
<1>1. c \in 0..31 /\ (c - 18) % 3 = 0 /\ b \in 0..3
  OBVIOUS
<1>2. raise_gain(c, b) \in Rails
  BY <1>1 DEF raise_gain
<1>3. lower_gain(c, b) \in Rails
  BY <1>1 DEF lower_gain
<1> QED
  BY <1>2, <1>3

-----------------------------------------------------------------------------
(* The ranges of the variables. *)

ServiceType ==
  /\ capture \in {"reading", "spawn", "down"} /\ failures \in 0..(MaxRetries + 1)
  /\ backlog \in 0..MaxBacklog
  /\ health \in [updated : 0..Old, segment : 0..Old, peak : Int \cup {None}]
  /\ health.segment < Old => health.peak # None
  /\ fruitless \in 0..(MaxRetries + 1)
  /\ capture = "down" => failures = MaxRetries + 1
  /\ capture # "down" => failures <= MaxRetries
  /\ fruitless <= failures
MixerType ==
  /\ <<cap, boost>> \in Rails /\ drift \in 0..MaxDrift
  /\ due \in 0..Period
  /\ sampling = None \/ (sampling \in Seq(Int) /\ Len(sampling) \in 1..MaxSamples)
RestType ==
  /\ programme \in Programmes /\ playing \in BOOLEAN /\ card \in BOOLEAN
  /\ measured \in BOOLEAN /\ hasty \in BOOLEAN
  /\ trend \subseteq {"up", "down"} /\ deafFor \in 0..(Patience + 1)

\* The inductive invariant: besides the ranges, what the budget allows in each state.
TypeInv == ServiceType /\ MixerType /\ RestType

LEMMA Ages == Old \in Nat /\ \A a \in 0..Old : Older(a) \in 0..Old
<1>1. Old \in Nat
  BY GainAssumption DEF Old
<1> QED
  BY <1>1 DEF Older

LEMMA PeakType == RestType /\ MixerType => Peak \in Int /\ Peak # None
<1> SUFFICES ASSUME RestType, MixerType PROVE Peak \in Int
  BY GainAssumption
<1>1. programme \in Int /\ BoostDb \in Int /\ CapDb \in Int
  BY GainAssumption DEF RestType
<1>2. cap \in Int /\ boost \in Int
  BY DEF MixerType, Rails, CAP_MIN, CAP_MAX, BOOST_MIN, BOOST_MAX
<1>3. boost * BoostDb \in Int /\ cap * CapDb \in Int
  BY <1>1, <1>2
<1>4. (cap * CapDb) \div 31 \in Int
  BY <1>3
<1> QED
  BY <1>1, <1>3, <1>4 DEF Peak, Amplified, CAP_MAX

LEMMA TypeInit == Init => TypeInv
<1> SUFFICES ASSUME Init PROVE TypeInv
  OBVIOUS
<1>1. ServiceType
  BY GainAssumption, Ages DEF Init, ServiceType, Booted
<1>2. MixerType
  BY GainAssumption DEF Init, MixerType, Rails, CAP_MIN, CAP_MAX, CAP_MID, CAP_STEP, BOOST_MIN, BOOST_MAX
<1>3. RestType
  <2>1. /\ playing \in BOOLEAN /\ card \in BOOLEAN
        /\ measured \in BOOLEAN /\ hasty \in BOOLEAN
    BY Zenon DEF Init
  <2>2. deafFor \in 0..(Patience + 1)
    BY GainAssumption DEF Init
  <2> QED
    BY <2>1, <2>2, Zenon DEF Init, RestType
<1> QED
  BY <1>1, <1>2, <1>3 DEF TypeInv

\* The steps of the service.
LEMMA ServiceStep ==
  ASSUME TypeInv, Read \/ Ends \/ Restart \/ Segment \/ Transcribed
  PROVE  TypeInv'
<1>1. ServiceType /\ MixerType /\ RestType
  BY DEF TypeInv
<1>2. ServiceType'
  <2>1. CASE Read
    BY <1>1, <2>1, GainAssumption DEF Read, ServiceType
  <2>2. CASE Ends
    BY <1>1, <2>2, GainAssumption DEF Ends, ServiceType
  <2>3. CASE Restart
    BY <1>1, <2>3, GainAssumption, Ages DEF Restart, ServiceType, Booted
  <2>4. CASE Segment
    <3>1. health' \in [updated : 0..Old, segment : 0..Old, peak : Int \cup {None}]
          /\ health'.peak # None
      BY <1>1, <2>4, PeakType, Ages DEF Segment
    <3>2. backlog' \in 0..MaxBacklog
      BY <1>1, <2>4, GainAssumption DEF Segment, ServiceType
    <3> QED
      BY <1>1, <2>4, <3>1, <3>2 DEF Segment, ServiceType
  <2>5. CASE Transcribed
    <3>1. health' \in [updated : 0..Old, segment : 0..Old, peak : Int \cup {None}]
          /\ health'.peak = health.peak /\ health'.segment = health.segment
      BY <1>1, <2>5, Ages DEF Transcribed, ServiceType
    <3> QED
      BY <1>1, <2>5, <3>1, GainAssumption DEF Transcribed, ServiceType, aux
  <2> QED
    BY <2>1, <2>2, <2>3, <2>4, <2>5
<1>3. MixerType'
  <2>1. CASE Segment
    <3>1. sampling' = None \/ (sampling' \in Seq(Int) /\ Len(sampling') \in 1..MaxSamples)
      <4>1. Peak \in Int /\ sampling' = Sampled(Peak)
        BY <1>1, <2>1, PeakType DEF Segment
      <4> HIDE DEF Peak
      <4>2. CASE sampling = None \/ Len(sampling) = MaxSamples
        BY <1>1, <4>1, <4>2 DEF Sampled, MixerType
      <4>3. CASE ~(sampling = None \/ Len(sampling) = MaxSamples)
        BY <1>1, <4>1, <4>3, GainAssumption DEF Sampled, MixerType
      <4> QED
        BY <4>2, <4>3
    <3> QED
      BY <1>1, <2>1, <3>1 DEF Segment, MixerType, mixer
  <2>2. CASE Read \/ Ends \/ Restart \/ Transcribed
    BY <1>1, <2>2 DEF Read, Ends, Restart, Transcribed, MixerType, mixer, control
  <2> QED
    BY <2>1, <2>2
<1>4. RestType'
  <2>1. CASE Segment
    <3>1. measured' \in BOOLEAN
      BY <2>1, Zenon DEF Segment
    <3> QED
      BY <1>1, <2>1, <3>1 DEF Segment, RestType
  <2>2. CASE Read \/ Ends \/ Restart \/ Transcribed
    BY <1>1, <2>2 DEF Read, Ends, Restart, Transcribed, RestType, aux
  <2> QED
    BY <2>1, <2>2
<1> QED
  BY <1>2, <1>3, <1>4 DEF TypeInv

\* The mixer is turned.
LEMMA TurnStep ==
  ASSUME ServiceType, MixerType, RestType,
         NEW target \in Rails, NEW way \in {"up", "down"}, Turn(target, way)
  PROVE  /\ ServiceType' /\ RestType'
         /\ <<cap', boost'>> \in Rails /\ UNCHANGED drift
<1>1. ServiceType'
  BY DEF Turn, ServiceType, service
<1>2. measured' \in BOOLEAN /\ hasty' \in BOOLEAN
  <2>1. measured' \in BOOLEAN
    BY Zenon DEF Turn
  <2>2. hasty' \in BOOLEAN
    BY Zenon DEF Turn
  <2> QED
    BY <2>1, <2>2
<1>3. deafFor' \in 0..(Patience + 1) /\ trend' \subseteq {"up", "down"}
  BY GainAssumption DEF Turn, RestType
<1>4. RestType'
  BY <1>2, <1>3 DEF Turn, RestType
<1>5. <<cap', boost'>> \in Rails /\ UNCHANGED drift
  BY DEF Turn, Rails
<1> QED
  BY <1>1, <1>4, <1>5

\* The runs of the gain control.
LEMMA ControlStep ==
  ASSUME TypeInv, Run \/ Decide
  PROVE  TypeInv'
<1>1. ServiceType /\ MixerType /\ RestType
  BY DEF TypeInv
<1>2. raise_gain(cap, boost) \in Rails /\ lower_gain(cap, boost) \in Rails
  BY <1>1, TurnsWithinRails DEF MixerType
<1>3. /\ due' \in 0..Period
      /\ sampling' = None \/ (sampling' \in Seq(Int) /\ Len(sampling') \in 1..MaxSamples)
  <2>1. CASE Run
    <3>1. due' \in 0..Period
      BY <2>1, GainAssumption DEF Run
    <3>2. CASE health.segment <= SILENT_MIN
      <4>1. health.segment < Old
        BY <1>1, <3>2, GainAssumption DEF Old, ServiceType
      <4>2. health.peak \in Int
        BY <1>1, <4>1 DEF ServiceType
      <4>3. <<health.peak>> \in Seq(Int) /\ Len(<<health.peak>>) \in 1..MaxSamples
        BY <4>2, GainAssumption
      <4>4. ~(health.segment > SILENT_MIN)
        BY <1>1, <3>2, Ages, GainAssumption DEF ServiceType
      <4>5. sampling' = None \/ sampling' = <<health.peak>>
        BY <2>1, <4>4, Zenon DEF Run
      <4> QED
        BY <3>1, <4>3, <4>5
    <3>3. CASE health.segment > SILENT_MIN
      BY <2>1, <3>1, <3>3 DEF Run
    <3> QED
      BY <1>1, <3>2, <3>3, GainAssumption DEF ServiceType
  <2>2. CASE Decide
    BY <1>1, <2>2 DEF Decide, MixerType
  <2> QED
    BY <2>1, <2>2
<1>4. \/ \E target \in Rails, way \in {"up", "down"} : Turn(target, way)
      \/ UNCHANGED <<programme, playing, card, service, mixer, aux>>
  <2>1. CASE Run
    BY <1>2, <2>1, Zenon DEF Run
  <2>2. CASE Decide
    BY <1>2, <2>2, Zenon DEF Decide
  <2> QED
    BY <2>1, <2>2
<1>5. CASE \E target \in Rails, way \in {"up", "down"} : Turn(target, way)
  <2>1. ServiceType' /\ RestType' /\ <<cap', boost'>> \in Rails /\ UNCHANGED drift
    BY <1>1, <1>5, TurnStep
  <2>2. MixerType'
    BY <1>1, <1>3, <2>1 DEF MixerType
  <2> QED
    BY <2>1, <2>2 DEF TypeInv
<1>6. CASE UNCHANGED <<programme, playing, card, service, mixer, aux>>
  <2>1. ServiceType'
    BY <1>1, <1>6 DEF ServiceType, service, aux
  <2>2. MixerType'
    BY <1>1, <1>3, <1>6 DEF MixerType, mixer
  <2>3. RestType'
    BY <1>1, <1>6 DEF RestType, aux
  <2> QED
    BY <2>1, <2>2, <2>3 DEF TypeInv
<1> QED
  BY <1>4, <1>5, <1>6

\* What happens around them.
LEMMA OutsideStep ==
  ASSUME TypeInv, Tick \/ CardChanges \/ Drift \/ UNCHANGED vars
  PROVE  TypeInv'
<1>1. ServiceType /\ MixerType /\ RestType
  BY DEF TypeInv
<1>2. CASE Tick
  <2>1. health' \in [updated : 0..Old, segment : 0..Old, peak : Int \cup {None}]
        /\ health'.peak = health.peak /\ health'.segment = Older(health.segment)
    BY <1>1, <1>2, Ages DEF Tick, ServiceType
  <2>2. ServiceType'
    <3>1. health'.segment < Old => health.segment < Old
      BY <1>1, <2>1, Ages DEF Older, ServiceType
    <3> QED
      BY <1>1, <1>2, <2>1, <3>1 DEF Tick, ServiceType
  <2>3. MixerType'
    BY <1>1, <1>2, GainAssumption DEF Tick, MixerType, mixer
  <2>4. deafFor' \in 0..(Patience + 1)
    BY <1>1, <1>2, GainAssumption DEF Tick, RestType
  <2>5. RestType'
    BY <1>1, <1>2, <2>4 DEF Tick, RestType
  <2> QED
    BY <2>2, <2>3, <2>5 DEF TypeInv
<1>3. CASE CardChanges
  <2>1. card' \in BOOLEAN
    BY <1>3, Zenon DEF CardChanges
  <2>2. ServiceType' /\ MixerType' /\ RestType'
    BY <1>1, <1>3, <2>1 DEF CardChanges, ServiceType, MixerType, RestType, service, mixer, control, aux
  <2> QED
    BY <2>2 DEF TypeInv
<1>4. CASE Drift
  <2>1. ServiceType'
    BY <1>1, <1>4 DEF Drift, ServiceType, service
  <2>2. MixerType'
    BY <1>1, <1>4, GainAssumption
    DEF Drift, MixerType, control, Rails, CAP_MIN, CAP_MAX, CAP_MID, CAP_STEP
  <2>3. deafFor' \in 0..(Patience + 1) /\ trend' \subseteq {"up", "down"}
    BY <1>4, GainAssumption DEF Drift
  <2>4. measured' \in BOOLEAN /\ hasty' \in BOOLEAN
    BY <1>4, Zenon DEF Drift
  <2>5. RestType'
    BY <1>1, <1>4, <2>3, <2>4, Zenon DEF Drift, RestType
  <2> QED
    BY <2>1, <2>2, <2>5 DEF TypeInv
<1>5. CASE UNCHANGED vars
  BY <1>1, <1>5
  DEF TypeInv, vars, ServiceType, MixerType, RestType, service, mixer, control, aux
<1> QED
  BY <1>2, <1>3, <1>4, <1>5

LEMMA TypeStep == TypeInv /\ [Next]_vars => TypeInv'
BY ServiceStep, ControlStep, OutsideStep DEF Next

\* Every reachable state is well-typed: the mixer between its end stops, in whole
\* steps, and the samples those of one window.
THEOREM TypeCorrect == Spec => []TypeOK
<1>1. TypeInv /\ [Next]_vars => TypeInv'
  BY TypeStep
<1>2. TypeInv => TypeOK
  BY Zenon DEF TypeInv, TypeOK, ServiceType, MixerType, RestType, Rails
<1> QED
  BY TypeInit, <1>1, <1>2, PTL DEF Spec

-----------------------------------------------------------------------------
(* The retry budget of stream_frames. *)

\* A failure is counted while arecords fail in a row, and once for the one that
\* delivered frames before it ended.
BudgetInv ==
  /\ failures \in Nat /\ fruitless \in Nat
  /\ failures <= fruitless + 1
  /\ capture = "reading" => failures = 0

LEMMA BudgetStep == BudgetInv /\ [Next]_vars => BudgetInv'
<1> SUFFICES ASSUME BudgetInv, [Next]_vars PROVE BudgetInv'
  OBVIOUS
<1> USE DEF BudgetInv
<1>1. CASE Read
  BY <1>1 DEF Read
<1>2. CASE Ends
  BY <1>2 DEF Ends
<1>3. CASE Restart
  BY <1>3 DEF Restart
<1>4. CASE Segment
  BY <1>4 DEF Segment
<1>5. CASE Transcribed
  BY <1>5 DEF Transcribed, aux
<1>6. ASSUME NEW target, NEW way, Turn(target, way) PROVE BudgetInv'
  BY <1>6 DEF Turn, service
<1>7. CASE Run
  BY <1>6, <1>7 DEF Run, service, aux
<1>8. CASE Decide
  BY <1>6, <1>8 DEF Decide, service, aux
<1>9. CASE Tick
  BY <1>9 DEF Tick
<1>10. CASE CardChanges
  BY <1>10 DEF CardChanges, service, aux
<1>11. CASE Drift
  BY <1>11 DEF Drift, service
<1>12. CASE UNCHANGED vars
  BY <1>12 DEF vars, service, aux
<1> QED
  BY <1>1, <1>2, <1>3, <1>4, <1>5, <1>7, <1>8, <1>9, <1>10, <1>11, <1>12 DEF Next

\* The capture is given up only after capture_max_retries arecords in a row that
\* delivered nothing (capture.py:92-113), whatever it recovered from before.
THEOREM GivesUpOnlyOnBudget == Spec => GivesUpOnBudget
<1>1. Init => BudgetInv
  BY DEF Init, BudgetInv
<1>2. BudgetInv /\ [Next]_vars => [Ends /\ capture' = "down" => fruitless' >= MaxRetries]_vars
  <2> SUFFICES ASSUME BudgetInv, Ends, capture' = "down" PROVE fruitless' >= MaxRetries
    OBVIOUS
  <2>1. MaxRetries \in Nat
    BY GainAssumption
  <2>2. failures' > MaxRetries /\ failures' = failures + 1
    BY DEF Ends
  <2>3. CASE capture = "spawn"
    BY <2>1, <2>2, <2>3 DEF Ends, BudgetInv
  <2>4. CASE capture = "reading"
    BY <2>1, <2>2, <2>4 DEF Ends, BudgetInv
  <2> QED
    BY <2>3, <2>4 DEF Ends
<1> QED
  BY <1>1, <1>2, BudgetStep, PTL DEF Spec, GivesUpOnBudget

-----------------------------------------------------------------------------
(* The dead band of the gain control. *)

\* The rungs of the mixer on one ladder: none below the middle, none above it.
NotBelow(c, b) == c >= CAP_MID /\ (c > CAP_MID => b = BOOST_MAX)
NotAbove(c, b) == c <= CAP_MID /\ (c < CAP_MID => b = BOOST_MIN)
GainOf(c, b)   == b * BoostDb + (c * CapDb) \div CAP_MAX

LEMMA Numbers ==
  /\ BoostDb \in Nat /\ CapDb \in Nat /\ Crest \in Nat /\ Step \in Nat
  /\ BoostDb <= Step /\ (3 * CapDb) \div 31 + 1 <= Step
  /\ VadFloor \in Int /\ PEAK_CLIP \in Int /\ PEAK_HEADROOM \in Int
<1>1. BoostDb \in Nat /\ CapDb \in Nat /\ Crest \in Nat
  BY GainAssumption
<1> DEFINE x == (3 * CapDb) \div 31
<1>2. x \in Nat
  BY <1>1
<1>3. Step = IF BoostDb > x THEN BoostDb ELSE x + 1
  BY DEF Step, CAP_MAX
<1> HIDE DEF x
<1>4. Step \in Nat /\ BoostDb <= Step /\ x + 1 <= Step
  BY <1>1, <1>2, <1>3
<1> QED
  BY <1>1, <1>4, GainAssumption DEF x

\* Three units of the Capture range.
LEMMA CaptureStep ==
  ASSUME NEW c \in 0..28
  PROVE  /\ (c * CapDb) \div 31 \in Int /\ ((c + 3) * CapDb) \div 31 \in Int
         /\ (c * CapDb) \div 31 <= ((c + 3) * CapDb) \div 31
         /\ ((c + 3) * CapDb) \div 31 <= (c * CapDb) \div 31 + Step
<1> DEFINE y == c * CapDb
           x == 3 * CapDb
<1>1. x \in Nat /\ y \in Nat /\ (c + 3) * CapDb = y + x
  BY Numbers
<1>2. x \div 31 + 1 <= Step /\ Step \in Nat
  BY Numbers
<1> HIDE DEF x, y
<1>3. /\ y \div 31 \in Int /\ (y + x) \div 31 \in Int /\ y \div 31 <= (y + x) \div 31
      /\ (y + x) \div 31 <= y \div 31 + x \div 31 + 1
  BY <1>1
<1>4. (y + x) \div 31 <= y \div 31 + Step
  BY <1>1, <1>2, <1>3
<1> QED
  BY <1>1, <1>3, <1>4 DEF y

\* Neighbours on the ladder are one step apart at most.
LEMMA RaiseStep ==
  ASSUME NEW c, NEW b, <<c, b>> \in Rails, NotBelow(c, b),
         NEW d, NEW e, <<d, e>> = raise_gain(c, b)
  PROVE  /\ NotBelow(d, e) /\ GainOf(c, b) \in Int /\ GainOf(d, e) \in Int
         /\ GainOf(d, e) <= GainOf(c, b) + Step
<1> USE DEF CAP_MIN, CAP_MAX, CAP_STEP, CAP_MID, BOOST_MIN, BOOST_MAX
<1>1. c \in 0..31 /\ b \in 0..3 /\ c >= 18 /\ (c > 18 => b = 3)
  BY DEF Rails, NotBelow
<1>2. BoostDb \in Nat /\ BoostDb <= Step /\ Step \in Nat /\ CapDb \in Nat
  BY Numbers
<1> DEFINE g == (c * CapDb) \div 31
           u == b * BoostDb
<1>3. g \in Int /\ u \in Int
  BY <1>1, <1>2
<1>4. GainOf(c, b) = u + g
  BY DEF GainOf
<1>5. CASE b < 3
  <2>1. c = 18 /\ d = 18 /\ e = b + 1
    BY <1>1, <1>5 DEF raise_gain
  <2>2. e * BoostDb = u + BoostDb
    <3>1. (b + 1) * BoostDb = b * BoostDb + BoostDb
      BY <1>1, <1>2
    <3> QED
      BY <2>1, <3>1
  <2>3. GainOf(d, e) = e * BoostDb + g
    BY <2>1 DEF GainOf
  <2>4. NotBelow(d, e)
    BY <2>1 DEF NotBelow
  <2> HIDE DEF g, u
  <2> QED
    BY <1>2, <1>3, <1>4, <2>2, <2>3, <2>4
<1>6. CASE b = 3 /\ c + 3 <= 31
  <2>1. d = c + 3 /\ e = b
    BY <1>6 DEF raise_gain
  <2>2. (d * CapDb) \div 31 \in Int /\ (d * CapDb) \div 31 <= g + Step
    BY <1>1, <1>6, <2>1, CaptureStep
  <2>3. GainOf(d, e) = u + (d * CapDb) \div 31
    BY <2>1 DEF GainOf
  <2>4. NotBelow(d, e)
    BY <1>1, <1>6, <2>1 DEF NotBelow
  <2> DEFINE h == (d * CapDb) \div 31
  <2> HIDE DEF g, u, h
  <2> QED
    BY <1>2, <1>3, <1>4, <2>2, <2>3, <2>4 DEF h
<1>7. CASE b = 3 /\ c + 3 > 31
  <2>1. d = c /\ e = b
    BY <1>1, <1>7 DEF raise_gain
  <2> HIDE DEF g, u
  <2> QED
    BY <1>2, <1>3, <1>4, <2>1
<1> QED
  BY <1>1, <1>5, <1>6, <1>7

LEMMA LowerStep ==
  ASSUME NEW c, NEW b, <<c, b>> \in Rails, NotAbove(c, b),
         NEW d, NEW e, <<d, e>> = lower_gain(c, b)
  PROVE  /\ NotAbove(d, e) /\ GainOf(c, b) \in Int /\ GainOf(d, e) \in Int
         /\ GainOf(d, e) >= GainOf(c, b) - Step
<1> USE DEF CAP_MIN, CAP_MAX, CAP_STEP, CAP_MID, BOOST_MIN, BOOST_MAX
<1>1. c \in 0..31 /\ b \in 0..3 /\ c <= 18 /\ (c < 18 => b = 0)
  BY DEF Rails, NotAbove
<1>2. BoostDb \in Nat /\ BoostDb <= Step /\ Step \in Nat /\ CapDb \in Nat
  BY Numbers
<1> DEFINE g == (c * CapDb) \div 31
           u == b * BoostDb
<1>3. g \in Int /\ u \in Int
  BY <1>1, <1>2
<1>4. GainOf(c, b) = u + g
  BY DEF GainOf
<1>5. CASE b > 0
  <2>1. c = 18 /\ d = 18 /\ e = b - 1
    BY <1>1, <1>5 DEF lower_gain
  <2>2. e * BoostDb = u - BoostDb
    <3>1. (b - 1) * BoostDb = b * BoostDb - BoostDb
      BY <1>1, <1>2
    <3> QED
      BY <2>1, <3>1
  <2>3. GainOf(d, e) = e * BoostDb + g
    BY <2>1 DEF GainOf
  <2>4. NotAbove(d, e)
    BY <2>1 DEF NotAbove
  <2> HIDE DEF g, u
  <2> QED
    BY <1>2, <1>3, <1>4, <2>2, <2>3, <2>4
<1>6. CASE b = 0 /\ c - 3 >= 0
  <2>1. d = c - 3 /\ e = b /\ d \in 0..28 /\ c = d + 3
    BY <1>1, <1>6 DEF lower_gain
  <2> DEFINE h == (d * CapDb) \div 31
  <2>2. h \in Int /\ g <= h + Step
    BY <2>1, CaptureStep
  <2>3. GainOf(d, e) = u + h
    BY <2>1 DEF GainOf
  <2>4. NotAbove(d, e)
    BY <1>1, <1>6, <2>1 DEF NotAbove
  <2> HIDE DEF g, u, h
  <2> QED
    BY <1>2, <1>3, <1>4, <2>2, <2>3, <2>4
<1>7. CASE b = 0 /\ c - 3 < 0
  <2>1. d = c /\ e = b
    BY <1>1, <1>7 DEF lower_gain
  <2> HIDE DEF g, u
  <2> QED
    BY <1>2, <1>3, <1>4, <2>1
<1> QED
  BY <1>1, <1>5, <1>6, <1>7

\* What is measured is the level at the present gain, and so is every sample of it.
MeasuredInv ==
  measured => /\ health.peak = Peak
              /\ sampling # None => \A i \in DOMAIN sampling : sampling[i] = Peak

\* A gain that has gone up only, on levels that were measured, is not above what is lowered;
\* one that has gone down only is not below what is raised.
HuntInv ==
  ~hasty => /\ "down" \notin trend => NotBelow(cap, boost)
            /\ "up" \notin trend => NotAbove(cap, boost)
            /\ "up" \in trend => "down" \notin trend /\ Peak <= PEAK_CLIP
            /\ "down" \in trend => Peak >= PEAK_HEADROOM /\ Peak - Crest > VadFloor

\* On samples of one level the decision is about that level.
LEMMA DecideIs ==
  ASSUME NEW peaks \in Seq(Int), Len(peaks) >= 1, NEW v \in Int, \A i \in DOMAIN peaks : peaks[i] = v
  PROVE  /\ decide(peaks) = "raise" => v < PEAK_HEADROOM
         /\ decide(peaks) = "lower" => v > PEAK_CLIP
<1>1. 1 \in DOMAIN peaks
  OBVIOUS
<1>2. Range(peaks) = {v}
  BY <1>1 DEF Range
<1>3. Max({v}) = v
  BY DEF Max
<1>4. None # "raise" /\ None # "lower"
  BY NoneAssumption
<1>5. decide(peaks) = IF v > PEAK_CLIP THEN "lower"
                      ELSE IF RmsMedian(peaks) < 2 * RMS_LOW /\ v < PEAK_HEADROOM THEN "raise" ELSE None
  BY <1>2, <1>3, Zenon DEF decide
<1> QED
  BY <1>4, <1>5, Zenon

LEMMA LevelIs ==
  ASSUME NEW p \in Int, NEW c, NEW b, <<c, b>> \in Rails
  PROVE  /\ GainOf(c, b) \in Int
         /\ p + b * BoostDb + (c * CapDb) \div CAP_MAX = p + GainOf(c, b)
<1> USE DEF CAP_MIN, CAP_MAX, BOOST_MIN, BOOST_MAX
<1>1. c \in Int /\ b \in Int
  BY DEF Rails
<1>2. b * BoostDb \in Int /\ (c * CapDb) \div 31 \in Int
  BY <1>1, Numbers
<1> DEFINE g == (c * CapDb) \div 31
           u == b * BoostDb
<1>3. GainOf(c, b) = u + g
  BY DEF GainOf
<1>4. g \in Int /\ u \in Int
  BY <1>2
<1> HIDE DEF g, u
<1>5. u + g \in Int /\ p + u + g = p + (u + g)
  BY <1>4
<1> QED
  BY <1>3, <1>5 DEF g, u

LEMMA PeakIs ==
  ASSUME MixerType, RestType
  PROVE  programme \in Int /\ Peak = programme + GainOf(cap, boost) /\ GainOf(cap, boost) \in Int
<1>1. programme \in Int /\ <<cap, boost>> \in Rails
  BY GainAssumption DEF RestType, MixerType
<1>2. Peak = programme + boost * BoostDb + (cap * CapDb) \div CAP_MAX
  BY DEF Peak, Amplified
<1> QED
  BY <1>1, <1>2, LevelIs

\* The mixer is turned up for a level that leaves room for it.
LEMMA RaiseHunt ==
  ASSUME DeadBand, TypeInv, HuntInv, Turn(raise_gain(cap, boost), "up"),
         Turned(raise_gain(cap, boost)) /\ ~hasty' => Peak < PEAK_HEADROOM \/ Peak - Crest <= VadFloor
  PROVE  HuntInv'
<1>1. MixerType /\ RestType
  BY DEF TypeInv
<1>2. CASE ~Turned(raise_gain(cap, boost))
  <2>1. cap' = cap /\ boost' = boost /\ programme' = programme /\ trend' = trend
    BY <1>2 DEF Turn, Turned
  <2>2. hasty => hasty'
    BY Zenon DEF Turn
  <2>3. Peak' = Peak
    BY <2>1 DEF Peak, Amplified
  <2> QED
    BY <2>1, <2>2, <2>3 DEF HuntInv
<1>3. CASE Turned(raise_gain(cap, boost))
  <2>1. trend' = trend \cup {"up"} /\ programme' = programme
    BY <1>3 DEF Turn
  <2>2. hasty => hasty'
    BY Zenon DEF Turn
  <2> SUFFICES ASSUME ~hasty'
               PROVE  "down" \notin trend /\ NotBelow(cap', boost') /\ Peak' <= PEAK_CLIP
    BY <2>1, Zenon DEF HuntInv
  <2>3. Peak \in Int /\ VadFloor \in Int /\ PEAK_CLIP \in Int /\ PEAK_HEADROOM \in Int /\ Crest \in Nat /\ Step \in Nat
    BY <1>1, PeakType, Numbers
  <2>4. Peak < PEAK_HEADROOM \/ Peak - Crest <= VadFloor
    BY <1>3
  <2>5. ~hasty
    BY <2>2
  <2>6. "down" \notin trend /\ NotBelow(cap, boost)
    <3>1. ~ (Peak >= PEAK_HEADROOM /\ Peak - Crest > VadFloor)
      BY <2>3, <2>4
    <3> QED
      BY <2>5, <3>1 DEF HuntInv
  <2>7. <<cap, boost>> \in Rails /\ <<cap', boost'>> = raise_gain(cap, boost)
    <3>1. <<cap, boost>> \in Rails
      BY <1>1 DEF MixerType
    <3>2. raise_gain(cap, boost) \in Rails
      BY <3>1, TurnsWithinRails
    <3>3. cap' = raise_gain(cap, boost)[1] /\ boost' = raise_gain(cap, boost)[2]
      BY Zenon DEF Turn
    <3> QED
      BY <3>1, <3>2, <3>3 DEF Rails
  <2>8. NotBelow(cap', boost') /\ GainOf(cap', boost') \in Int /\ GainOf(cap', boost') <= GainOf(cap, boost) + Step
    BY <2>6, <2>7, RaiseStep
  <2>9. programme \in Int /\ Peak = programme + GainOf(cap, boost) /\ GainOf(cap, boost) \in Int
    BY <1>1, PeakIs
  <2>10. Peak' = programme + boost' * BoostDb + (cap' * CapDb) \div CAP_MAX
    BY <2>1 DEF Peak, Amplified
  <2>11. <<cap', boost'>> \in Rails
    BY <2>7, TurnsWithinRails
  <2>12. Peak' = programme + GainOf(cap', boost')
    BY <2>1, <2>10, <2>9, <2>11, LevelIs
  <2> DEFINE g == GainOf(cap, boost)
             h == GainOf(cap', boost')
  <2>13. programme + h <= PEAK_CLIP
    <3>1. g \in Int /\ h \in Int /\ h <= g + Step /\ Peak = programme + g
      BY <2>8, <2>9
    <3> HIDE DEF g, h
    <3>2. Peak + Step <= PEAK_CLIP
      <4>1. CASE Peak < PEAK_HEADROOM
        BY <2>3, <4>1 DEF DeadBand
      <4>2. CASE Peak - Crest <= VadFloor
        BY <2>3, <4>2 DEF DeadBand
      <4> QED
        BY <2>4, <4>1, <4>2
    <3> QED
      BY <2>3, <2>9, <3>1, <3>2
  <2> QED
    BY <2>6, <2>8, <2>12, <2>13
<1> QED
  BY <1>2, <1>3

\* The mixer is turned down for a level that clips.
LEMMA LowerHunt ==
  ASSUME DeadBand, TypeInv, HuntInv, Turn(lower_gain(cap, boost), "down"),
         Turned(lower_gain(cap, boost)) /\ ~hasty' => Peak > PEAK_CLIP
  PROVE  HuntInv'
<1>1. MixerType /\ RestType
  BY DEF TypeInv
<1>2. CASE ~Turned(lower_gain(cap, boost))
  <2>1. cap' = cap /\ boost' = boost /\ programme' = programme /\ trend' = trend
    BY <1>2 DEF Turn, Turned
  <2>2. hasty => hasty'
    BY Zenon DEF Turn
  <2>3. Peak' = Peak
    BY <2>1 DEF Peak, Amplified
  <2> QED
    BY <2>1, <2>2, <2>3 DEF HuntInv
<1>3. CASE Turned(lower_gain(cap, boost))
  <2>1. trend' = trend \cup {"down"} /\ programme' = programme
    BY <1>3 DEF Turn
  <2>2. hasty => hasty'
    BY Zenon DEF Turn
  <2> SUFFICES ASSUME ~hasty'
               PROVE  "up" \notin trend /\ NotAbove(cap', boost') /\ Peak' >= PEAK_HEADROOM /\ Peak' - Crest > VadFloor
    BY <2>1, Zenon DEF HuntInv
  <2>3. Peak \in Int /\ VadFloor \in Int /\ PEAK_CLIP \in Int /\ PEAK_HEADROOM \in Int /\ Crest \in Nat /\ Step \in Nat
    BY <1>1, PeakType, Numbers
  <2>4. Peak > PEAK_CLIP
    BY <1>3
  <2>5. ~hasty
    BY <2>2
  <2>6. "up" \notin trend /\ NotAbove(cap, boost)
    <3>1. ~ (Peak <= PEAK_CLIP)
      BY <2>3, <2>4
    <3> QED
      BY <2>5, <3>1 DEF HuntInv
  <2>7. <<cap, boost>> \in Rails /\ <<cap', boost'>> = lower_gain(cap, boost)
    <3>1. <<cap, boost>> \in Rails
      BY <1>1 DEF MixerType
    <3>2. lower_gain(cap, boost) \in Rails
      BY <3>1, TurnsWithinRails
    <3>3. cap' = lower_gain(cap, boost)[1] /\ boost' = lower_gain(cap, boost)[2]
      BY Zenon DEF Turn
    <3> QED
      BY <3>1, <3>2, <3>3 DEF Rails
  <2>8. NotAbove(cap', boost') /\ GainOf(cap', boost') \in Int /\ GainOf(cap', boost') >= GainOf(cap, boost) - Step
    BY <2>6, <2>7, LowerStep
  <2>9. programme \in Int /\ Peak = programme + GainOf(cap, boost) /\ GainOf(cap, boost) \in Int
    BY <1>1, PeakIs
  <2>10. Peak' = programme + boost' * BoostDb + (cap' * CapDb) \div CAP_MAX
    BY <2>1 DEF Peak, Amplified
  <2>11. <<cap', boost'>> \in Rails
    BY <2>7, TurnsWithinRails
  <2>12. Peak' = programme + GainOf(cap', boost')
    BY <2>1, <2>10, <2>9, <2>11, LevelIs
  <2> DEFINE g == GainOf(cap, boost)
             h == GainOf(cap', boost')
  <2>13. programme + h >= PEAK_HEADROOM /\ (programme + h) - Crest > VadFloor
    <3>1. g \in Int /\ h \in Int /\ h >= g - Step /\ Peak = programme + g
      BY <2>8, <2>9
    <3> HIDE DEF g, h
    <3>2. Peak > PEAK_HEADROOM + Step
      BY <2>3, <2>4 DEF DeadBand
    <3>3. Peak > VadFloor + Step + Crest
      BY <2>3, <2>4 DEF DeadBand
    <3> DEFINE q == programme + h
    <3>4. q \in Int /\ q >= Peak - Step
      BY <2>3, <2>9, <3>1
    <3> HIDE DEF q
    <3>5. q >= PEAK_HEADROOM
      BY <2>3, <3>2, <3>4
    <3>6. q > VadFloor + Crest
      BY <2>3, <3>3, <3>4
    <3>7. q - Crest > VadFloor
      BY <2>3, <3>4, <3>6
    <3> QED
      BY <3>5, <3>7 DEF q
  <2>14. Peak' >= PEAK_HEADROOM
    BY ONLY <2>12, <2>13
  <2>15. Peak' - Crest > VadFloor
    BY ONLY <2>12, <2>13
  <2> QED
    BY <2>6, <2>8, <2>14, <2>15, Zenon
<1> QED
  BY <1>2, <1>3

LEMMA MeasuredStep ==
  ASSUME TypeInv, MeasuredInv, [Next]_vars
  PROVE  MeasuredInv'
<1> SUFFICES ASSUME measured'
             PROVE  /\ health'.peak = Peak'
                    /\ sampling' # None => \A i \in DOMAIN sampling' : sampling'[i] = Peak'
  BY Zenon DEF MeasuredInv
<1>1. ASSUME UNCHANGED <<programme, cap, boost>> PROVE Peak' = Peak
  BY <1>1 DEF Peak, Amplified
<1>2. ASSUME measured, health'.peak = health.peak, sampling' = sampling \/ sampling' = None,
             UNCHANGED <<programme, cap, boost>>
      PROVE  /\ health'.peak = Peak'
             /\ sampling' # None => \A i \in DOMAIN sampling' : sampling'[i] = Peak'
  BY <1>1, <1>2 DEF MeasuredInv
<1>3. CASE Segment
  <2>1. /\ health'.peak = Peak /\ sampling' = Sampled(Peak)
        /\ UNCHANGED <<programme, cap, boost>>
    BY <1>3 DEF Segment, mixer
  <2>2. measured \/ sampling = None
    BY <1>3, Zenon DEF Segment
  <2>3. Peak' = Peak /\ Peak \in Int
    BY <1>1, <2>1, PeakType DEF TypeInv
  <2>4. CASE sampling = None
    BY <2>1, <2>3, <2>4 DEF Sampled
  <2>5. CASE sampling # None
    <3>1. sampling \in Seq(Int) /\ \A i \in DOMAIN sampling : sampling[i] = Peak
      BY <2>2, <2>5 DEF MeasuredInv, TypeInv, MixerType
    <3> DEFINE p == Peak
    <3>2. p \in Int /\ \A i \in DOMAIN sampling : sampling[i] = p
      BY <2>3, <3>1
    <3> HIDE DEF p
    <3>3. \A i \in DOMAIN Append(sampling, p) : Append(sampling, p)[i] = p
      BY <3>1, <3>2
    <3>4. \A i \in DOMAIN sampling' : sampling'[i] = p
      BY <2>1, <3>2, <3>3 DEF Sampled, p
    <3> QED
      BY <2>1, <2>3, <3>4 DEF p
  <2> QED
    BY <2>4, <2>5
<1>4. CASE Run \/ Decide
  <2>1. \/ \E target, way : Turn(target, way)
        \/ UNCHANGED <<programme, playing, card, service, mixer, aux>>
    <3>1. CASE Run
      BY <3>1, Zenon DEF Run
    <3>2. CASE Decide
      BY <3>2, Zenon DEF Decide
    <3> QED
      BY <1>4, <3>1, <3>2
  <2>2. measured /\ UNCHANGED <<programme, cap, boost, health>>
    <3>1. CASE UNCHANGED <<programme, playing, card, service, mixer, aux>>
      BY <3>1 DEF service, mixer, aux
    <3>2. ASSUME NEW target, NEW way, Turn(target, way)
          PROVE  measured /\ UNCHANGED <<programme, cap, boost, health>>
      <4>1. measured /\ ~Turned(target)
        BY <3>2, Zenon DEF Turn
      <4>2. cap' = cap /\ boost' = boost
        BY <3>2, <4>1 DEF Turn, Turned
      <4>3. programme' = programme /\ health' = health
        BY <3>2 DEF Turn, service
      <4> QED
        BY <4>1, <4>2, <4>3
    <3> QED
      BY <2>1, <3>1, <3>2
  <2>3. sampling' = None \/ sampling' = <<health.peak>>
    <3>1. CASE Run
      BY <3>1, Zenon DEF Run
    <3>2. CASE Decide
      BY <3>2 DEF Decide
    <3> QED
      BY <1>4, <3>1, <3>2
  <2>4. Peak' = Peak /\ health.peak = Peak
    BY <1>1, <2>2 DEF MeasuredInv
  <2> QED
    BY <2>2, <2>3, <2>4
<1>5. CASE Read \/ Ends \/ CardChanges \/ UNCHANGED vars
  <2>1. measured /\ UNCHANGED <<programme, cap, boost, health, sampling>>
    <3>1. CASE Read
      BY <3>1 DEF Read, mixer, control
    <3>2. CASE Ends
      BY <3>2 DEF Ends, mixer, control
    <3>3. CASE CardChanges
      BY <3>3 DEF CardChanges, service, mixer, control, aux
    <3>4. CASE UNCHANGED vars
      BY <3>4 DEF vars, service, mixer, control, aux
    <3> QED
      BY <1>5, <3>1, <3>2, <3>3, <3>4
  <2> QED
    BY <1>2, <2>1
<1>6. CASE Transcribed \/ Tick
  <2>1. health \in [updated : 0..Old, segment : 0..Old, peak : Int \cup {None}]
    BY DEF TypeInv, ServiceType
  <2>2. CASE Transcribed
    <3>1. health'.peak = health.peak
      BY <2>1, <2>2 DEF Transcribed
    <3>2. measured /\ UNCHANGED <<programme, cap, boost, sampling>>
      BY <2>2 DEF Transcribed, mixer, control, aux
    <3> QED
      BY <1>2, <3>1, <3>2
  <2>3. CASE Tick
    <3>1. health'.peak = health.peak
      BY <2>1, <2>3 DEF Tick
    <3>2. measured /\ UNCHANGED <<programme, cap, boost, sampling>>
      BY <2>3 DEF Tick, mixer
    <3> QED
      BY <1>2, <3>1, <3>2
  <2> QED
    BY <1>6, <2>2, <2>3
<1>7. CASE Restart \/ Drift
  BY <1>7, Zenon DEF Restart, Drift
<1> QED
  BY <1>3, <1>4, <1>5, <1>6, <1>7 DEF Next

LEMMA HuntStep ==
  ASSUME DeadBand, TypeInv, MeasuredInv, HuntInv, [Next]_vars
  PROVE  HuntInv'
<1>1. MixerType /\ RestType
  BY DEF TypeInv
<1>2. ASSUME UNCHANGED <<programme, cap, boost, trend, hasty>> PROVE HuntInv'
  <2>1. Peak' = Peak
    BY <1>2 DEF Peak, Amplified
  <2> QED
    BY <1>2, <2>1 DEF HuntInv
<1>3. CASE Read \/ Ends \/ Restart \/ Segment \/ Transcribed
  <2>1. UNCHANGED <<programme, cap, boost, trend, hasty>>
    BY <1>3 DEF Read, Ends, Restart, Segment, Transcribed, mixer, aux
  <2> QED
    BY <1>2, <2>1
<1>4. CASE Tick \/ CardChanges \/ UNCHANGED vars
  <2>1. UNCHANGED <<programme, cap, boost, trend, hasty>>
    BY <1>4 DEF Tick, CardChanges, vars, mixer, aux
  <2> QED
    BY <1>2, <2>1
<1>5. CASE Drift
  <2>1. cap' = CAP_MID /\ trend' = {}
    BY <1>5 DEF Drift
  <2>2. NotBelow(cap', boost') /\ NotAbove(cap', boost')
    BY <2>1 DEF NotBelow, NotAbove, CAP_MID
  <2> QED
    BY <2>1, <2>2 DEF HuntInv
<1>6. ASSUME UNCHANGED <<programme, playing, card, service, mixer, aux>> PROVE HuntInv'
  <2>1. UNCHANGED <<programme, cap, boost, trend, hasty>>
    BY <1>6 DEF mixer, aux
  <2> QED
    BY <1>2, <2>1
<1>7. CASE Run
  <2>1. CASE Turn(raise_gain(cap, boost), "up")
    <3>1. sampling = None
      BY <1>7 DEF Run
    <3>2. Turned(raise_gain(cap, boost)) /\ ~hasty' => ~Hears(cap, boost)
      BY <2>1, <3>1, Zenon DEF Turn
    <3>3. ~Hears(cap, boost) => Peak - Crest <= VadFloor
      BY <1>1, PeakType, Numbers DEF Hears, Peak
    <3> QED
      BY <2>1, <3>2, <3>3, RaiseHunt
  <2> QED
    BY <1>6, <1>7, <2>1, Zenon DEF Run
<1>8. CASE Decide
  <2>1. sampling \in Seq(Int) /\ Len(sampling) >= 1 /\ sampling # None
    BY <1>1, <1>8 DEF MixerType, Decide
  <2>2. ASSUME measured
        PROVE  /\ decide(sampling) = "raise" => Peak < PEAK_HEADROOM
               /\ decide(sampling) = "lower" => Peak > PEAK_CLIP
    <3>1. Peak \in Int /\ \A i \in DOMAIN sampling : sampling[i] = Peak
      BY <1>1, <2>1, <2>2, PeakType DEF MeasuredInv
    <3> QED
      BY <2>1, <3>1, DecideIs
  <2>3. CASE decide(sampling) = "raise" /\ Turn(raise_gain(cap, boost), "up")
    <3>1. Turned(raise_gain(cap, boost)) /\ ~hasty' => measured
      BY <2>1, <2>3, Zenon DEF Turn
    <3> QED
      BY <2>2, <2>3, <3>1, RaiseHunt
  <2>4. CASE decide(sampling) = "lower" /\ Turn(lower_gain(cap, boost), "down")
    <3>1. Turned(lower_gain(cap, boost)) /\ ~hasty' => measured
      BY <2>1, <2>4, Zenon DEF Turn
    <3> QED
      BY <2>2, <2>4, <3>1, LowerHunt
  <2> QED
    BY <1>6, <1>8, <2>3, <2>4, Zenon DEF Decide
<1> QED
  BY <1>3, <1>4, <1>5, <1>7, <1>8 DEF Next

\* With a dead band wide enough the gain control never goes both ways on a station of
\* constant level, but on a level from before its last step or for a station that was
\* merely pausing: for every station, range of the mixer, window and period.
THEOREM NeverHunts == DeadBand => (Spec => []NoHunting)
<1> SUFFICES ASSUME DeadBand PROVE Spec => []NoHunting
  OBVIOUS
<1>1. Init => TypeInv /\ MeasuredInv /\ HuntInv
  <2> SUFFICES ASSUME Init PROVE MeasuredInv /\ HuntInv
    BY TypeInit
  <2>1. MeasuredInv
    BY Zenon DEF Init, MeasuredInv
  <2>2. NotBelow(cap, boost) /\ NotAbove(cap, boost) /\ trend = {}
    BY DEF Init, NotBelow, NotAbove, CAP_MID
  <2> QED
    BY <2>1, <2>2 DEF HuntInv
<1>2. TypeInv /\ MeasuredInv /\ HuntInv /\ [Next]_vars => TypeInv' /\ MeasuredInv' /\ HuntInv'
  BY TypeStep, MeasuredStep, HuntStep
<1>3. HuntInv => NoHunting
  BY DEF HuntInv, NoHunting
<1> QED
  BY <1>1, <1>2, <1>3, PTL DEF Spec

=============================================================================
