--------------------------- MODULE PipelineProofs ---------------------------
(***************************************************************************)
(* Theorems about Pipeline, for every value of its constants.              *)
(***************************************************************************)
EXTENDS Pipeline, FiniteSetTheorems, TLAPS

USE PipelineAssumption

-----------------------------------------------------------------------------
(* Lemmas about the operators. *)

\* A deque holds what was in it and what is appended.
LEMMA PushType ==
  ASSUME NEW S, NEW s \in Seq(S), NEW x \in S, NEW n \in Nat \ {0}
  PROVE  Push(s, x, n) \in Seq(S)
BY DEF Push

\* Replacing one element of a sequence by another of its set keeps it a sequence.
LEMMA ReplaceType ==
  ASSUME NEW S, NEW s \in Seq(S), NEW i \in DOMAIN s, NEW x \in S
  PROVE  /\ [s EXCEPT ![i] = x] \in Seq(S)
         /\ DOMAIN [s EXCEPT ![i] = x] = DOMAIN s
OBVIOUS

\* Settling changes the fate of the segment in hand and nothing else.
LEMMA SettleType ==
  ASSUME AiredType, hand \in DOMAIN aired, NEW f \in Fate, Settle(f)
  PROVE  AiredType' /\ DOMAIN aired' = DOMAIN aired
<1>1. aired[hand] \in Heard /\ aired \in Seq(Heard)
  BY DEF AiredType
<1>2. [aired[hand] EXCEPT !.fate = f] \in Heard
  BY <1>1 DEF Heard
<1>3. aired' = [aired EXCEPT ![hand] = [aired[hand] EXCEPT !.fate = f]]
  BY DEF Settle
<1>. QED  BY <1>1, <1>2, <1>3, ReplaceType DEF AiredType

\* Logging a segment appends one entry.
LEMMA LogType ==
  ASSUME AiredType, HostType, NEW t \in Text, NEW r \in Route, NEW f \in Fate,
         Log(t, r, f)
  PROVE  AiredType' /\ DOMAIN aired = 1..Len(aired) /\ Len(aired) \in Nat
                    /\ DOMAIN aired' = 1..(Len(aired) + 1)
<1>1. [text |-> t, at |-> time, life |-> life, route |-> r, fate |-> f] \in Heard
  BY DEF HostType, Heard
<1>. HIDE DEF Heard
<1>. QED  BY <1>1 DEF Log, AiredType

\* The end of the process turns open segments into lost ones.
LEMMA LostType ==
  ASSUME AiredType, ProcessEnds
  PROVE  AiredType' /\ DOMAIN aired' = DOMAIN aired
<1>. DEFINE Lost(i) == [aired[i] EXCEPT !.fate = IF @ = "open" THEN "lost" ELSE @]
<1>1. ASSUME NEW i \in 1..Len(aired) PROVE Lost(i) \in Heard
  <2>1. aired[i] \in Heard
    BY DEF AiredType
  <2>. QED  BY <2>1 DEF Heard, Fate
<1>2. aired' = [i \in 1..Len(aired) |-> Lost(i)]
  BY DEF ProcessEnds, AiredType
<1>. HIDE DEF Lost
<1>. QED  BY <1>1, <1>2 DEF AiredType

\* The counters stay counters.
LEMMA CountType ==
  ASSUME counts \in [{"seg", "new", "repeat", "shed", "errors"} -> Nat],
         NEW b \in {"new", "repeat", "shed"}, Count(b)
  PROVE  counts' \in [{"seg", "new", "repeat", "shed", "errors"} -> Nat]
<1>. DEFINE C == {"seg", "new", "repeat", "shed", "errors"}
            once == [counts EXCEPT !["seg"] = @ + 1]
<1>1. once \in [C -> Nat]
  OBVIOUS
<1>2. counts' = [once EXCEPT ![b] = @ + 1]
  BY Zenon DEF Count
<1>3. b \in C
  OBVIOUS
<1>. HIDE DEF once, C
<1>4. counts' \in [C -> Nat]
  BY <1>1, <1>2, <1>3
<1>. QED  BY <1>4 DEF C

LEMMA ErrorsType ==
  ASSUME counts \in [{"seg", "new", "repeat", "shed", "errors"} -> Nat],
         counts' = [counts EXCEPT !["errors"] = @ + 1]
  PROVE  counts' \in [{"seg", "new", "repeat", "shed", "errors"} -> Nat]
OBVIOUS

\* What the worker holds has a text.
LEMMA HandText ==
  ASSUME AiredType, hand \in DOMAIN aired
  PROVE  aired[hand].text \in Text
<1>1. aired[hand] \in Heard
  BY DEF AiredType
<1>. QED  BY <1>1 DEF Heard

\* A new entry keeps the queue a finite set of entries.
LEMMA PutType ==
  ASSUME SharedType, NEW e \in [prio : Prio, seq : Nat, seg : Nat],
         queue' = queue \cup {e}
  PROVE  queue' \subseteq [prio : Prio, seq : Nat, seg : Nat] /\ IsFiniteSet(queue')
BY FS_AddElement DEF SharedType

\* Everything the process holds in memory is typed after it was cleared.
LEMMA ClearType ==
  ASSUME NEW p \in {"capture", "down"}, NEW w \in {"check", "none"}, Clear(p, w),
         history' \subseteq [at : Nat, text : Text]
  PROVE  ProdType' /\ WorkerType' /\ SharedType' /\ Pointers'
<1>1. NoCounts \in [{"seg", "new", "repeat", "shed", "errors"} -> Nat]
  BY DEF NoCounts
<1>2. counts' \in [{"seg", "new", "repeat", "shed", "errors"} -> Nat]
  BY <1>1 DEF Clear
<1>3. queue' = {} /\ IsFiniteSet(queue') /\ stop' \in BOOLEAN
  BY FS_EmptySet DEF Clear
<1>4. SharedType'
  BY <1>2, <1>3 DEF SharedType
<1>5. ProdType'
  BY DEF Clear, ProdType
<1>6. WorkerType' /\ Pointers'
  BY <1>3 DEF Clear, WorkerType, Pointers
<1>. QED  BY <1>4, <1>5, <1>6

-----------------------------------------------------------------------------
(* Type correctness. *)

\* What a step leaves alone stays typed.
LEMMA Frame ==
  ASSUME TypeOK
  PROVE  /\ UNCHANGED hostVars => HostType'
         /\ UNCHANGED prodVars => ProdType'
         /\ UNCHANGED workerVars => WorkerType'
         /\ UNCHANGED shared => SharedType'
         /\ UNCHANGED store => StoreType'
         /\ UNCHANGED aired => AiredType'
         /\ UNCHANGED <<workerVars, queue>> /\ DOMAIN aired \subseteq DOMAIN aired' => Pointers'
BY DEF TypeOK, HostType, ProdType, WorkerType, SharedType, StoreType, AiredType, Pointers,
       hostVars, prodVars, workerVars, shared, store

LEMMA TypeInit == Init => TypeOK
<1>. SUFFICES ASSUME Init PROVE TypeOK
  OBVIOUS
<1>1. NoCounts \in [{"seg", "new", "repeat", "shed", "errors"} -> Nat]
  BY DEF NoCounts
<1>2. SharedType
  BY <1>1, FS_EmptySet DEF Init, SharedType
<1>3. HostType /\ ProdType /\ WorkerType
  BY DEF Init, HostType, ProdType, WorkerType
<1>4. StoreType /\ AiredType
  BY DEF Init, StoreType, AiredType
<1>5. Pointers
  BY DEF Init, Pointers
<1>. QED  BY <1>2, <1>3, <1>4, <1>5 DEF TypeOK

\* The producer's steps.
LEMMA HearType == TypeOK /\ Hear => TypeOK'
<1>. SUFFICES ASSUME TypeOK, NEW t \in Text, HearRepeat(t) \/ HearShed(t) \/ HearNovel(t)
              PROVE  TypeOK'
  BY DEF Hear
<1>. USE DEF TypeOK
<1>1. CASE HearRepeat(t)
  <2>1. Count("repeat") /\ Log(t, "repeat", "dropped")
    BY <1>1 DEF HearRepeat
  <2>2. SharedType'
    BY <1>1, <2>1, CountType DEF HearRepeat, SharedType
  <2>3. AiredType' /\ DOMAIN aired \subseteq DOMAIN aired'
    BY <2>1, LogType DEF Route, Fate
  <2>. QED  BY <1>1, <2>2, <2>3, Frame DEF HearRepeat
<1>2. CASE HearShed(t)
  <2>1. Count("shed") /\ Log(t, "shed", "dropped")
    BY <1>2 DEF HearShed
  <2>2. SharedType'
    BY <1>2, <2>1, CountType DEF HearShed, SharedType
  <2>3. AiredType' /\ DOMAIN aired \subseteq DOMAIN aired'
    BY <2>1, LogType DEF Route, Fate
  <2>. QED  BY <1>2, <2>2, <2>3, Frame DEF HearShed
<1>3. CASE HearNovel(t)
  <2>. DEFINE e == [prio |-> Priority, seq |-> nextSeq, seg |-> Len(aired) + 1]
  <2>1. Count("new") /\ queue' = queue \cup {e}
    BY <1>3 DEF HearNovel
  <2>2. PICK r \in Route : Log(t, r, "open")
    BY <1>3 DEF HearNovel, Route
  <2>3. AiredType' /\ Len(aired) \in Nat /\ DOMAIN aired = 1..Len(aired)
        /\ DOMAIN aired' = 1..(Len(aired) + 1)
    BY <2>2, LogType DEF Fate
  <2>4. e \in [prio : Prio, seq : Nat, seg : Nat]
    BY <2>3 DEF ProdType, Priority, Prio
  <2>5. SharedType'
    BY <1>3, <2>1, <2>4, CountType, PutType DEF HearNovel, SharedType
  <2>6. Pointers'
    BY <1>3, <2>1, <2>3 DEF HearNovel, Pointers, workerVars
  <2>7. gate' \in Seq([text : Text, at : Nat])
    <3>1. [text |-> t, at |-> time] \in [text : Text, at : Nat]
      BY DEF HostType
    <3>. QED  BY <1>3, <3>1, PushType DEF HearNovel, ProdType
  <2>8. ProdType'
    BY <1>3, <2>7 DEF HearNovel, ProdType
  <2>. QED  BY <1>3, <2>3, <2>5, <2>6, <2>8, Frame DEF HearNovel
<1>. QED  BY <1>1, <1>2, <1>3

LEMMA AlertType == TypeOK /\ ((\E h \in Header : EmitRaw(h)) \/ EmitAlert) => TypeOK'
<1>. SUFFICES ASSUME TypeOK, (\E h \in Header : EmitRaw(h)) \/ EmitAlert PROVE TypeOK'
  OBVIOUS
<1>. USE DEF TypeOK
<1>1. CASE \E h \in Header : EmitRaw(h)
  <2>1. PICK h \in Header : EmitRaw(h)
    BY <1>1
  <2>2. burst' \in [at : Nat, text : Header] /\ burst' \in Id
    BY <2>1 DEF EmitRaw, HostType, Id
  <2>3. ProdType'
    BY <2>1, <2>2 DEF EmitRaw, ProdType
  <2>4. [id |-> burst', sup |-> None] \in [id : Id, sup : Id \cup {None}]
    BY <2>2
  <2>5. StoreType'
    BY <2>1, <2>4 DEF EmitRaw, StoreType, Upsert
  <2>. QED  BY <2>1, <2>3, <2>5, Frame DEF EmitRaw, shared
<1>2. CASE EmitAlert
  <2>1. [id |-> burst, life |-> life] \in [id : [at : Nat, text : Header], life : Nat]
    BY <1>2 DEF EmitAlert, ProdType, HostType
  <2>2. StoreType'
    BY <1>2, <2>1 DEF EmitAlert, StoreType
  <2>3. ProdType'
    BY <1>2 DEF EmitAlert, ProdType, HostType
  <2>. QED  BY <1>2, <2>2, <2>3, Frame DEF EmitAlert, shared
<1>. QED  BY <1>1, <1>2

LEMMA UnwindType == TypeOK /\ Unwind => TypeOK'
<1>. SUFFICES ASSUME TypeOK, Unwind PROVE TypeOK'
  OBVIOUS
<1>. USE DEF TypeOK
<1>. DEFINE pill == [prio |-> PRIO_PILL, seq |-> nextSeq, seg |-> 0]
<1>1. queue' = queue \cup {pill} /\ pill \in [prio : Prio, seq : Nat, seg : Nat]
  BY DEF Unwind, ProdType, Prio
<1>2. SharedType'
  BY <1>1, PutType DEF Unwind, SharedType
<1>3. ProdType'
  BY DEF Unwind, ProdType
<1>4. Pointers'
  BY <1>1 DEF Unwind, Pointers, workerVars
<1>. QED  BY <1>2, <1>3, <1>4, Frame DEF Unwind

\* The worker's steps.
LEMMA QueueType == TypeOK /\ (WorkerLoop \/ GetTimesOut \/ GetPill \/ GetSegment) => TypeOK'
<1>. SUFFICES ASSUME TypeOK, WorkerLoop \/ GetTimesOut \/ GetPill \/ GetSegment
              PROVE  TypeOK'
  OBVIOUS
<1>. USE DEF TypeOK
<1>1. CASE WorkerLoop \/ GetTimesOut
  <2>1. WorkerType' /\ Pointers'
    BY <1>1 DEF WorkerLoop, GetTimesOut, WorkerType, Pointers, shared
  <2>. QED  BY <1>1, <2>1, Frame DEF WorkerLoop, GetTimesOut
<1>2. CASE GetPill \/ GetSegment
  <2>1. PICK e \in queue :
          /\ queue' = queue \ {e}
          /\ \/ GetPill /\ worker' = "exited" /\ UNCHANGED hand
             \/ GetSegment /\ e.prio # PRIO_PILL /\ hand' = e.seg /\ worker' = "stt"
    BY <1>2 DEF GetPill, GetSegment
  <2>2. UNCHANGED <<hostVars, prodVars, todo, report, history, stop, counts, store, aired>>
    BY <1>2 DEF GetPill, GetSegment
  <2>3. SharedType'
    BY <2>1, <2>2, FS_RemoveElement DEF SharedType
  <2>4. WorkerType'
    BY <2>1, <2>2 DEF WorkerType, SharedType
  <2>5. Pointers'
    BY <2>1, <2>2 DEF Pointers
  <2>. QED  BY <2>2, <2>3, <2>4, <2>5, Frame
<1>. QED  BY <1>1, <1>2

LEMMA SttType == TypeOK /\ (Stt \/ DropDuplicate \/ InsertReport) => TypeOK'
<1>. SUFFICES ASSUME TypeOK, Stt \/ DropDuplicate \/ InsertReport PROVE TypeOK'
  OBVIOUS
<1>. USE DEF TypeOK
<1>1. CASE SttFails \/ SttBlank \/ DropDuplicate
  <2>1. PICK f \in Fate : Settle(f)
    BY <1>1 DEF SttFails, SttBlank, DropDuplicate, Fate
  <2>2. hand \in DOMAIN aired
    BY <1>1 DEF SttFails, SttBlank, DropDuplicate, Considering, Pointers
  <2>3. AiredType' /\ DOMAIN aired' = DOMAIN aired
    BY <2>1, <2>2, SettleType
  <2>4. WorkerType'
    BY <1>1 DEF SttFails, SttBlank, DropDuplicate, WorkerType
  <2>5. SharedType'
    <3>1. UNCHANGED <<stop, queue>>
      BY <1>1 DEF SttFails, SttBlank, DropDuplicate, shared
    <3>2. UNCHANGED counts \/ counts' = [counts EXCEPT !["errors"] = @ + 1]
      BY <1>1 DEF SttFails, SttBlank, DropDuplicate, shared
    <3>3. counts' \in [{"seg", "new", "repeat", "shed", "errors"} -> Nat]
      BY <3>2, ErrorsType DEF SharedType
    <3>. QED  BY <3>1, <3>3 DEF SharedType
  <2>6. Pointers'
    BY <1>1, <2>3 DEF SttFails, SttBlank, DropDuplicate, Pointers, shared
  <2>. QED  BY <1>1, <2>3, <2>4, <2>5, <2>6, Frame DEF SttFails, SttBlank, DropDuplicate
<1>2. ASSUME NEW c \in BOOLEAN, SttText(c) PROVE TypeOK'
  <2>1. aired[hand].text \in Text
    BY <1>2, HandText DEF SttText, Pointers
  <2>2. todo' \in Seq(Field)
    BY <1>2, <2>1 DEF SttText
  <2>3. WorkerType' /\ Pointers'
    BY <1>2, <2>2 DEF SttText, WorkerType, Pointers, shared
  <2>. QED  BY <1>2, <2>3, Frame DEF SttText
<1>3. CASE InsertReport
  <2>1. Settle("stored") /\ "stored" \in Fate /\ hand \in DOMAIN aired
    BY <1>3 DEF InsertReport, Fate, Pointers
  <2>2. AiredType' /\ DOMAIN aired' = DOMAIN aired
    BY <2>1, SettleType
  <2>3. report \in [id : Id, sup : Id \cup {None}]
    BY <1>3 DEF InsertReport, WorkerType, Report, Id
  <2>4. StoreType'
    BY <1>3, <2>3 DEF InsertReport, StoreType, Upsert
  <2>5. WorkerType' /\ Pointers'
    BY <1>3, <2>2 DEF InsertReport, WorkerType, Pointers, shared
  <2>. QED  BY <1>3, <2>2, <2>4, <2>5, Frame DEF InsertReport
<1>. QED  BY <1>1, <1>2, <1>3 DEF Stt

LEMMA HandleType == TypeOK /\ (WriteReading \/ BuildReport \/ FinishReport) => TypeOK'
<1>. SUFFICES ASSUME TypeOK, WriteReading \/ BuildReport \/ FinishReport PROVE TypeOK'
  OBVIOUS
<1>. USE DEF TypeOK
<1>1. CASE WriteReading
  <2>1. aired[hand].text \in Text
    BY <1>1, HandText DEF WriteReading, Pointers
  <2>2. served' \in [Field -> Text \cup {None}]
    BY <1>1, <2>1 DEF WriteReading, StoreType
  <2>3. StoreType'
    BY <1>1, <2>2 DEF WriteReading, StoreType
  <2>4. WorkerType' /\ Pointers'
    BY <1>1 DEF WriteReading, WorkerType, Pointers, shared
  <2>. QED  BY <1>1, <2>3, <2>4, Frame DEF WriteReading
<1>2. CASE BuildReport
  <2>. DEFINE t == aired[hand].text
              id == [at |-> time, text |-> t]
  <2>1. PICK sup \in Supersedes(t) : report' = [id |-> id, sup |-> sup] /\ Remember(id)
    BY <1>2 DEF BuildReport
  <2>2. t \in Text
    BY <1>2, HandText DEF BuildReport, Considering, Pointers
  <2>3. id \in [at : Nat, text : Text]
    BY <2>2 DEF HostType
  <2>4. history' \subseteq [at : Nat, text : Text]
    BY <2>1, <2>3 DEF Remember, WorkerType
  <2>5. sup \in Id \cup {None}
    BY <2>1 DEF Supersedes, Closest, WorkerType, Id
  <2>6. report' \in Report
    BY <2>1, <2>3, <2>5 DEF Report
  <2>7. WorkerType' /\ Pointers'
    BY <1>2, <2>4, <2>6 DEF BuildReport, Considering, WorkerType, Pointers, shared
  <2>. QED  BY <1>2, <2>7, Frame DEF BuildReport
<1>3. CASE FinishReport
  <2>1. IsNarrative => report.id \in [at : Nat, text : Text]
    BY <1>3 DEF FinishReport, WorkerType, Report
  <2>2. StoreType'
    BY <1>3, <2>1 DEF FinishReport, StoreType
  <2>3. WorkerType' /\ Pointers'
    BY <1>3 DEF FinishReport, WorkerType, Pointers, shared
  <2>. QED  BY <1>3, <2>2, <2>3, Frame DEF FinishReport
<1>. QED  BY <1>1, <1>2, <1>3

\* The process and the clock.
LEMMA EndType == TypeOK /\ ProcessEnds => TypeOK'
<1>. SUFFICES ASSUME TypeOK, ProcessEnds PROVE TypeOK'
  OBVIOUS
<1>. USE DEF TypeOK
<1>1. Clear("down", "none") /\ history' \subseteq [at : Nat, text : Text]
  BY DEF ProcessEnds
<1>2. ProdType' /\ WorkerType' /\ SharedType' /\ Pointers'
  BY <1>1, ClearType
<1>. QED  BY <1>2, LostType, Frame DEF ProcessEnds

LEMMA RestartType == TypeOK /\ (Told \/ Restart \/ Tick) => TypeOK'
<1>. SUFFICES ASSUME TypeOK, Told \/ Restart \/ Tick PROVE TypeOK'
  OBVIOUS
<1>. USE DEF TypeOK
<1>1. CASE Told
  <2>1. CASE Signalled
    <3>1. SharedType' /\ Pointers'
      BY <2>1 DEF Signalled, SharedType, Pointers, workerVars
    <3>. QED  BY <2>1, <3>1, Frame DEF Signalled
  <2>2. CASE StopService
    <3>1. queue' = queue /\ counts' = counts /\ hand' = hand /\ aired' = aired
      BY <2>2 DEF StopService, workerVars
    <3>2. stop' \in BOOLEAN
      BY <2>2, Zenon DEF StopService
    <3>6. Pointers'
      BY <2>2, Frame DEF StopService
    <3>7. /\ queue' \subseteq [prio : Prio, seq : Nat, seg : Nat] /\ IsFiniteSet(queue')
          /\ counts' \in [{"seg", "new", "repeat", "shed", "errors"} -> Nat]
      BY <3>1 DEF SharedType
    <3>3. SharedType'
      BY <3>2, <3>7, Zenon DEF SharedType
    <3>4. time' = time /\ life' = life /\ wanted' = FALSE
      BY <2>2 DEF StopService
    <3>5. HostType'
      BY <3>4 DEF HostType
    <3>. QED  BY <2>2, <3>3, <3>6, <3>5, Frame DEF StopService
  <2>3. CASE StartService
    <3>1. time' = time /\ life' = life /\ wanted' = TRUE
      BY <2>3 DEF StartService
    <3>2. HostType'
      BY <3>1 DEF HostType
    <3>. QED  BY <2>3, <3>2, Frame DEF StartService, shared
  <2>. QED  BY <1>1, <2>1, <2>2, <2>3 DEF Told
<1>2. CASE Restart
  <2>1. Clear("capture", "check") /\ history' \subseteq [at : Nat, text : Text]
    BY <1>2 DEF Restart
  <2>2. ProdType' /\ WorkerType' /\ SharedType' /\ Pointers'
    BY <2>1, ClearType
  <2>3. HostType'
    BY <1>2 DEF Restart, HostType
  <2>. QED  BY <1>2, <2>2, <2>3, Frame DEF Restart
<1>3. CASE Tick
  <2>1. HostType'
    BY <1>3 DEF Tick, HostType
  <2>. QED  BY <1>3, <2>1, Frame DEF Tick, shared
<1>. QED  BY <1>1, <1>2, <1>3

\* Every step keeps the types.
LEMMA TypeStep == TypeOK /\ [Next]_vars => TypeOK'
<1>. SUFFICES ASSUME TypeOK, [Next]_vars PROVE TypeOK'
  OBVIOUS
<1>1. CASE Hear
  BY <1>1, HearType
<1>2. CASE (\E h \in Header : EmitRaw(h)) \/ EmitAlert
  BY <1>2, AlertType
<1>3. CASE StopSeen \/ ProducerRaises
  BY <1>3, UnwindType DEF StopSeen, ProducerRaises
<1>4. CASE WorkerStep
  BY <1>4, QueueType, SttType, HandleType DEF WorkerStep
<1>5. CASE JoinReturns \/ WorkerDies \/ Killed
  BY <1>5, EndType DEF JoinReturns, WorkerDies, Killed
<1>6. CASE Told \/ Restart \/ Tick
  BY <1>6, RestartType
<1>7. CASE UNCHANGED vars
  BY <1>7, Frame DEF vars, TypeOK, shared
<1>. QED  BY <1>1, <1>2, <1>3, <1>4, <1>5, <1>6, <1>7 DEF Next

\* Type correctness: no step of either thread, no crash and no restart leaves a
\* variable of main.py outside its range, or makes the worker hold a segment that
\* was never heard.
THEOREM TypeCorrect == Spec => []TypeOK
BY TypeInit, TypeStep, PTL DEF Spec

-----------------------------------------------------------------------------
(* The bounded backlog, and the worker that never dies alone. *)

\* Only a novel segment and the end of the producer's loop put into the queue.
LEMMA QueueSteps ==
  ASSUME [Next]_vars
  PROVE  \/ queue' \subseteq queue
         \/ \E t \in Text : HearNovel(t)
         \/ Unwind
BY DEF Next, vars, shared, Hear, HearRepeat, HearShed, EmitRaw, EmitAlert, StopSeen,
       ProducerRaises, JoinReturns, ProcessEnds, Clear, WorkerStep, WorkerLoop, GetTimesOut,
       GetPill, GetSegment, Stt, SttFails, SttBlank, SttText, WriteReading, DropDuplicate,
       BuildReport, InsertReport, FinishReport, WorkerDies, Killed, Told, Signalled, StopService, StartService, Restart, Tick

RoutineQueued == {e \in queue : e.prio = PRIO_NORMAL}

LEMMA BacklogStep ==
  ASSUME TypeOK, RoutineBacklogBounded, [Next]_vars
  PROVE  RoutineBacklogBounded'
<1>1. IsFiniteSet(queue) /\ IsFiniteSet(RoutineQueued)
  BY FS_Subset DEF TypeOK, SharedType, RoutineQueued
<1>2. Cardinality(RoutineQueued) \in Nat /\ Cardinality(RoutineQueued) <= SttMaxQueue
  BY <1>1, FS_CardinalityType DEF RoutineBacklogBounded, RoutineQueued
<1>3. SUFFICES Cardinality(RoutineQueued') <= SttMaxQueue
  BY DEF RoutineBacklogBounded, RoutineQueued
<1>4. ASSUME RoutineQueued' \subseteq RoutineQueued
      PROVE  Cardinality(RoutineQueued') <= SttMaxQueue
  <2>1. Cardinality(RoutineQueued') \in Nat
        /\ Cardinality(RoutineQueued') <= Cardinality(RoutineQueued)
    BY <1>1, <1>4, FS_Subset, FS_CardinalityType
  <2>. QED  BY <1>2, <2>1
<1>5. CASE queue' \subseteq queue
  BY <1>4, <1>5 DEF RoutineQueued
<1>6. CASE Unwind
  BY <1>4, <1>6 DEF Unwind, RoutineQueued, PRIO_PILL, PRIO_NORMAL
<1>7. ASSUME NEW t \in Text, HearNovel(t)
      PROVE  Cardinality(RoutineQueued') <= SttMaxQueue
  <2>. DEFINE e == [prio |-> Priority, seq |-> nextSeq, seg |-> Len(aired) + 1]
  <2>1. queue' = queue \cup {e}
    BY <1>7 DEF HearNovel
  <2>2. CASE Priority = PRIO_ALERT
    BY <1>4, <2>1, <2>2 DEF RoutineQueued, PRIO_ALERT, PRIO_NORMAL
  <2>3. CASE ~Saturated
    <3>1. Cardinality(queue) \in Nat /\ Cardinality(queue) < SttMaxQueue
      BY <1>1, <2>3, FS_CardinalityType DEF Saturated
    <3>. HIDE DEF e
    <3>2. IsFiniteSet(queue \cup {e}) /\ Cardinality(queue \cup {e}) <= Cardinality(queue) + 1
      <4>1. /\ IsFiniteSet(queue \cup {e})
            /\ \/ Cardinality(queue \cup {e}) = Cardinality(queue)
               \/ Cardinality(queue \cup {e}) = Cardinality(queue) + 1
        BY <1>1, FS_AddElement
      <4>. QED  BY <3>1, <4>1
    <3>3. Cardinality(RoutineQueued') <= Cardinality(queue \cup {e})
          /\ Cardinality(RoutineQueued') \in Nat /\ Cardinality(queue \cup {e}) \in Nat
      BY <2>1, <3>2, FS_Subset, FS_CardinalityType DEF RoutineQueued
    <3>. QED  BY <3>1, <3>2, <3>3
  <2>. QED  BY <1>7, <2>2, <2>3 DEF HearNovel
<1>. QED  BY <1>5, <1>6, <1>7, QueueSteps

\* Backpressure: however alert narratives and routine segments mix, never more
\* than stt_max_queue routine segments wait for the worker of run_live.
THEOREM BacklogIsBounded == Spec => []RoutineBacklogBounded
<1>1. Init => RoutineBacklogBounded
  <2>. SUFFICES ASSUME Init PROVE Cardinality({e \in queue : e.prio = PRIO_NORMAL}) <= SttMaxQueue
    BY DEF RoutineBacklogBounded
  <2>1. {e \in queue : e.prio = PRIO_NORMAL} = {}
    BY DEF Init
  <2>2. Cardinality({}) = 0
    BY FS_EmptySet
  <2>3. Cardinality({e \in queue : e.prio = PRIO_NORMAL}) = 0
    BY <2>1, <2>2, Zenon
  <2>. QED  BY <2>3
<1>. QED  BY <1>1, BacklogStep, TypeCorrect, PTL DEF Spec

\* The pill is queued only after the stop flag was set, so a worker that takes it
\* ends a process that is ending.
PillMeansStop == \A e \in queue : e.prio = PRIO_PILL => stop

LEMMA DeathStep ==
  ASSUME TypeOK, NoSilentWorkerDeath, PillMeansStop, [Next]_vars
  PROVE  NoSilentWorkerDeath' /\ PillMeansStop'
<1>1. CASE Hear
  <2>1. PICK t \in Text : HearRepeat(t) \/ HearShed(t) \/ HearNovel(t)
    BY <1>1 DEF Hear
  <2>2. UNCHANGED <<worker, stop>>
    BY <2>1 DEF HearRepeat, HearShed, HearNovel, workerVars
  <2>3. \A e \in queue' : e \in queue \/ e.prio # PRIO_PILL
    BY <2>1 DEF HearRepeat, HearShed, HearNovel, Priority, PRIO_ALERT, PRIO_NORMAL, PRIO_PILL
  <2>. QED  BY <2>2, <2>3 DEF NoSilentWorkerDeath, PillMeansStop
<1>2. CASE WorkerStep
  <2>1. UNCHANGED stop /\ queue' \subseteq queue
    BY <1>2 DEF WorkerStep, shared, WorkerLoop, GetTimesOut, GetPill, GetSegment, Stt,
       SttFails, SttBlank, SttText, WriteReading, DropDuplicate, BuildReport, InsertReport,
       FinishReport
  <2>2. worker' = "exited" => stop
    BY <1>2 DEF WorkerStep, WorkerLoop, GetTimesOut, GetPill, GetSegment, Stt, SttFails,
       SttBlank, SttText, WriteReading, DropDuplicate, BuildReport, InsertReport,
       FinishReport, PillMeansStop
  <2>. QED  BY <2>1, <2>2 DEF NoSilentWorkerDeath, PillMeansStop
<1>3. CASE StopSeen \/ ProducerRaises \/ Signalled
  <2>1. stop' = TRUE
    BY <1>3 DEF StopSeen, ProducerRaises, Signalled, Unwind
  <2>. QED  BY <2>1 DEF NoSilentWorkerDeath, PillMeansStop
<1>4. CASE JoinReturns \/ WorkerDies \/ Killed \/ Restart
  <2>1. queue' = {} /\ worker' # "exited"
    BY <1>4 DEF JoinReturns, WorkerDies, Killed, Restart, ProcessEnds, Clear
  <2>. QED  BY <2>1 DEF NoSilentWorkerDeath, PillMeansStop
<1>5. CASE (\E h \in Header : EmitRaw(h)) \/ EmitAlert \/ StartService \/ Tick \/ UNCHANGED vars
  <2>1. UNCHANGED <<worker, stop, queue>>
    BY <1>5 DEF EmitRaw, EmitAlert, StartService, Tick, vars, workerVars, shared
  <2>. QED  BY <2>1 DEF NoSilentWorkerDeath, PillMeansStop
<1>6. CASE StopService
  <2>1. worker' = worker /\ queue' = queue /\ (stop => stop')
    BY <1>6 DEF StopService, workerVars
  <2>. QED  BY <2>1 DEF NoSilentWorkerDeath, PillMeansStop
<1>. QED  BY <1>1, <1>2, <1>3, <1>4, <1>5, <1>6 DEF Next, Told

\* The worker thread never dies inside a live process: _stt_worker returns only
\* once the process was told to stop, an exception takes the process with it.
THEOREM WorkerOutlivesService == Spec => []NoSilentWorkerDeath
<1>1. Init => NoSilentWorkerDeath /\ PillMeansStop
  BY DEF Init, NoSilentWorkerDeath, PillMeansStop
<1>. QED  BY <1>1, DeathStep, TypeCorrect, PTL DEF Spec

-----------------------------------------------------------------------------
(* The alert priority window. *)

\* Steps that hear nothing keep what the log says of a segment, its fate apart.
SameLog ==
  /\ DOMAIN aired' = DOMAIN aired
  /\ \A i \in DOMAIN aired : /\ aired'[i].at = aired[i].at /\ aired'[i].life = aired[i].life
                             /\ aired'[i].route = aired[i].route /\ aired'[i].text = aired[i].text

LEMMA SettleKeepsLog ==
  ASSUME AiredType, hand \in DOMAIN aired, NEW f \in Fate, Settle(f)
  PROVE  SameLog
<1>1. aired' = [aired EXCEPT ![hand] = [aired[hand] EXCEPT !.fate = f]]
      /\ aired[hand] \in Heard /\ aired \in Seq(Heard)
  BY DEF Settle, AiredType
<1>. DEFINE h == [aired[hand] EXCEPT !.fate = f]
<1>2. h.at = aired[hand].at /\ h.life = aired[hand].life /\ h.route = aired[hand].route
      /\ h.text = aired[hand].text
  BY <1>1 DEF Heard
<1>. HIDE DEF h
<1>. QED  BY <1>1, <1>2 DEF SameLog, h

LEMMA EndKeepsLog ==
  ASSUME AiredType, ProcessEnds
  PROVE  SameLog
<1>. DEFINE Lost(i) == [aired[i] EXCEPT !.fate = IF @ = "open" THEN "lost" ELSE @]
<1>1. aired' = [i \in DOMAIN aired |-> Lost(i)]
  BY DEF ProcessEnds
<1>2. ASSUME NEW i \in DOMAIN aired
      PROVE  /\ Lost(i).at = aired[i].at /\ Lost(i).life = aired[i].life
             /\ Lost(i).route = aired[i].route /\ Lost(i).text = aired[i].text
  <2>1. aired[i] \in Heard
    BY DEF AiredType
  <2>. QED  BY <2>1 DEF Heard
<1>. HIDE DEF Lost
<1>. QED  BY <1>1, <1>2 DEF SameLog

LEMMA OnlyHearLogs ==
  ASSUME TypeOK, [Next]_vars, ~Hear
  PROVE  SameLog
<1>. USE DEF TypeOK
<1>1. CASE UNCHANGED aired
  BY <1>1 DEF SameLog
<1>2. CASE SttFails \/ SttBlank \/ DropDuplicate \/ InsertReport
  <2>1. PICK f \in Fate : Settle(f)
    BY <1>2 DEF SttFails, SttBlank, DropDuplicate, InsertReport, Fate
  <2>2. hand \in DOMAIN aired
    BY <1>2 DEF SttFails, SttBlank, DropDuplicate, InsertReport, Considering, Pointers
  <2>. QED  BY <2>1, <2>2, SettleKeepsLog
<1>3. CASE JoinReturns \/ WorkerDies \/ Killed
  BY <1>3, EndKeepsLog DEF JoinReturns, WorkerDies, Killed
<1>. QED
  BY <1>1, <1>2, <1>3
  DEF Next, vars, EmitRaw, EmitAlert, StopSeen, ProducerRaises, Unwind, WorkerStep, WorkerLoop,
      GetTimesOut, GetPill, GetSegment, Stt, SttText, WriteReading, BuildReport, FinishReport,
      Told, Signalled, StopService, StartService, Restart, Tick

\* The window of every alert this process stored is still inside alertUntil, and
\* nothing is heard between storing an alert's report and opening its window.
WindowOpen ==
  /\ \A i \in DOMAIN aired : aired[i].at <= time /\ aired[i].life <= life
  /\ \A a \in alerts : /\ a.id.at <= time /\ a.life <= life
                       /\ a.life = life /\ prod # "down" => a.id.at + AlertWindow <= alertUntil
  /\ prod = "emit" => burst.at <= time /\ \A i \in DOMAIN aired : aired[i].at <= burst.at

NotShedInv == NarrativeNotShed /\ WindowOpen

\* A step that hears nothing and stores no alert keeps the invariant, if it keeps
\* the window, and the process that opened it, or ends both.
LEMMA WindowFrame ==
  ASSUME TypeOK, NotShedInv, SameLog, UNCHANGED alerts,
         time' \in Nat, time <= time',
         \/ UNCHANGED <<life, prod, alertUntil, burst>>
         \/ UNCHANGED <<life, alertUntil>> /\ prod # "down" /\ prod' = "join"
         \/ UNCHANGED life /\ prod' = "down"
         \/ life' = life + 1 /\ prod' = "capture"
  PROVE  NotShedInv'
<1>1. \A i \in DOMAIN aired : aired[i].at \in Nat /\ aired[i].life \in Nat
  <2>1. \A i \in DOMAIN aired : aired[i] \in Heard
    BY DEF TypeOK, AiredType
  <2>. QED  BY <2>1 DEF Heard
<1>2. \A a \in alerts : a.id.at \in Nat /\ a.life \in Nat
  BY DEF TypeOK, StoreType
<1>3. NarrativeNotShed'
  BY DEF NarrativeNotShed, SameLog, NotShedInv
<1>4. WindowOpen'
  <2>0. time \in Nat /\ life \in Nat /\ life' \in Nat /\ time <= time' /\ life <= life'
    BY DEF TypeOK, HostType
  <2>1. ASSUME NEW i \in DOMAIN aired'
        PROVE  aired'[i].at <= time' /\ aired'[i].life <= life'
    <3>1. i \in DOMAIN aired /\ aired'[i].at = aired[i].at /\ aired'[i].life = aired[i].life
      BY <2>1 DEF SameLog
    <3>2. aired[i].at <= time /\ aired[i].life <= life
      BY <3>1 DEF NotShedInv, WindowOpen
    <3>. QED  BY <1>1, <2>0, <3>1, <3>2
  <2>2. ASSUME NEW a \in alerts'
        PROVE  /\ a.id.at <= time' /\ a.life <= life'
               /\ a.life = life' /\ prod' # "down" => a.id.at + AlertWindow <= alertUntil'
    <3>1. /\ a \in alerts /\ a.id.at <= time /\ a.life <= life
          /\ a.life = life /\ prod # "down" => a.id.at + AlertWindow <= alertUntil
      BY <2>2 DEF NotShedInv, WindowOpen
    <3>2. a.id.at \in Nat /\ a.life \in Nat
      BY <1>2, <3>1
    <3>3. a.id.at <= time' /\ a.life <= life'
      BY <2>0, <3>1, <3>2
    <3>4. ASSUME a.life = life', prod' # "down"
          PROVE  a.id.at + AlertWindow <= alertUntil'
      <4>1. life' # life + 1
        BY <2>0, <3>1, <3>2, <3>4
      <4>2. life' = life /\ prod # "down" /\ UNCHANGED alertUntil
        BY <3>4, <4>1
      <4>. QED  BY <3>1, <3>4, <4>2
    <3>. QED  BY <3>3, <3>4
  <2>3. prod' = "emit" => burst'.at <= time' /\ \A i \in DOMAIN aired' : aired'[i].at <= burst'.at
    <3>1. prod' = "emit" => prod = "emit" /\ UNCHANGED burst /\ burst.at \in Nat
      BY DEF TypeOK, ProdType
    <3>. QED  BY <1>1, <3>1 DEF NotShedInv, WindowOpen, SameLog, TypeOK, HostType
  <2>. QED  BY <2>1, <2>2, <2>3 DEF WindowOpen
<1>. QED  BY <1>3, <1>4 DEF NotShedInv

LEMMA HearKeepsWindow ==
  ASSUME TypeOK, NotShedInv, Hear
  PROVE  NotShedInv'
<1>1. PICK t \in Text, r \in Route, f \in Fate :
        /\ Log(t, r, f)
        /\ r = "shed" => time >= alertUntil
  BY DEF Hear, HearRepeat, HearShed, HearNovel, Route, Fate, Priority, PRIO_ALERT, PRIO_NORMAL,
         TypeOK, HostType, ProdType
<1>2. prod = "capture" /\ UNCHANGED <<time, life, prod, alertUntil, alerts>>
  BY DEF Hear, HearRepeat, HearShed, HearNovel, Hearing, hostVars, prodVars, store
<1>. DEFINE n == Len(aired) + 1
<1>3. /\ n \in Nat /\ DOMAIN aired = 1..(n - 1) /\ DOMAIN aired' = 1..n
      /\ \A i \in 1..(n - 1) : aired'[i] = aired[i]
      /\ aired'[n].at = time /\ aired'[n].life = life /\ aired'[n].route = r
  BY <1>1 DEF Log, TypeOK, AiredType
<1>. HIDE DEF n
<1>4. NarrativeNotShed'
  <2>. SUFFICES ASSUME NEW i \in DOMAIN aired', aired'[i].route = "shed",
                       NEW a \in alerts', a.life = aired'[i].life, a.id.at < aired'[i].at
                PROVE  aired'[i].at >= a.id.at + AlertWindow
    BY DEF NarrativeNotShed
  <2>1. CASE i \in 1..(n - 1)
    BY <1>2, <1>3, <2>1 DEF NotShedInv, NarrativeNotShed
  <2>2. CASE i = n
    <3>1. a \in alerts /\ a.life = life /\ time >= alertUntil /\ a.id.at \in Nat
      BY <1>1, <1>2, <1>3, <2>2 DEF TypeOK, StoreType
    <3>2. a.id.at + AlertWindow <= alertUntil
      BY <1>2, <3>1 DEF NotShedInv, WindowOpen
    <3>3. aired'[i].at = time
      BY <1>3, <2>2
    <3>4. time \in Nat /\ alertUntil \in Nat /\ AlertWindow \in Nat
      BY DEF TypeOK, HostType, ProdType
    <3>. QED  BY <3>1, <3>2, <3>3, <3>4
  <2>. QED  BY <1>3, <2>1, <2>2
<1>5. \A i \in DOMAIN aired' : aired'[i].at <= time' /\ aired'[i].life <= life'
  <2>1. \A i \in 1..(n - 1) : aired'[i].at <= time' /\ aired'[i].life <= life'
    BY <1>2, <1>3 DEF NotShedInv, WindowOpen
  <2>2. aired'[n].at <= time' /\ aired'[n].life <= life'
    BY <1>2, <1>3 DEF TypeOK, HostType
  <2>. QED  BY <1>3, <2>1, <2>2
<1>6. WindowOpen'
  BY <1>2, <1>5 DEF NotShedInv, WindowOpen
<1>. QED  BY <1>4, <1>6 DEF NotShedInv

LEMMA EmitKeepsWindow ==
  ASSUME TypeOK, NotShedInv, EmitAlert
  PROVE  NotShedInv'
<1>1. /\ prod = "emit" /\ prod' = "capture" /\ UNCHANGED <<time, life, aired>>
      /\ alertUntil' = time + AlertWindow
      /\ \A a \in alerts' : a \in alerts \/ (a.id = burst /\ a.life = life)
  <2>1. alerts' \subseteq alerts \cup {[id |-> burst, life |-> life]}
    BY DEF EmitAlert
  <2>2. \A a \in alerts' : a \in alerts \/ (a.id = burst /\ a.life = life)
    BY <2>1
  <2>3. /\ prod = "emit" /\ prod' = "capture" /\ UNCHANGED <<time, life, aired>>
        /\ alertUntil' = time + AlertWindow
    BY DEF EmitAlert, hostVars
  <2>. QED  BY <2>2, <2>3
<1>2. burst.at \in Nat /\ burst.at <= time /\ \A i \in DOMAIN aired : aired[i].at <= burst.at
  BY <1>1 DEF TypeOK, ProdType, NotShedInv, WindowOpen
<1>3. \A i \in DOMAIN aired : aired[i].at \in Nat
  <2>1. \A i \in DOMAIN aired : aired[i] \in Heard
    BY DEF TypeOK, AiredType
  <2>. QED  BY <2>1 DEF Heard
<1>4. NarrativeNotShed'
  <2>. SUFFICES ASSUME NEW i \in DOMAIN aired, aired[i].route = "shed",
                       NEW a \in alerts', a.life = aired[i].life, a.id.at < aired[i].at
                PROVE  aired[i].at >= a.id.at + AlertWindow
    BY <1>1 DEF NarrativeNotShed
  <2>1. a \in alerts
    BY <1>1, <1>2, <1>3
  <2>. QED  BY <2>1 DEF NotShedInv, NarrativeNotShed
<1>5. \A a \in alerts' : /\ a.id.at <= time /\ a.life <= life
                         /\ a.id.at + AlertWindow <= time + AlertWindow
  <2>. SUFFICES ASSUME NEW a \in alerts' PROVE a.id.at \in Nat /\ a.id.at <= time /\ a.life <= life
    BY DEF TypeOK, HostType
  <2>. QED  BY <1>1, <1>2 DEF NotShedInv, WindowOpen, TypeOK, StoreType, HostType
<1>6. WindowOpen'
  BY <1>1, <1>5 DEF NotShedInv, WindowOpen
<1>. QED  BY <1>4, <1>6 DEF NotShedInv

LEMMA RawKeepsWindow ==
  ASSUME TypeOK, NotShedInv, NEW h \in Header, EmitRaw(h)
  PROVE  NotShedInv'
<1>1. UNCHANGED <<time, life, alertUntil, alerts, aired>> /\ prod = "capture" /\ burst'.at = time
  BY DEF EmitRaw, hostVars
<1>2. NarrativeNotShed'
  BY <1>1 DEF NotShedInv, NarrativeNotShed
<1>3. WindowOpen'
  BY <1>1 DEF NotShedInv, WindowOpen, TypeOK, HostType
<1>. QED  BY <1>2, <1>3 DEF NotShedInv

LEMMA WindowStep ==
  ASSUME TypeOK, NotShedInv, [Next]_vars
  PROVE  NotShedInv'
<1>1. CASE Hear
  BY <1>1, HearKeepsWindow
<1>2. CASE EmitAlert
  BY <1>2, EmitKeepsWindow
<1>3. CASE \E h \in Header : EmitRaw(h)
  BY <1>3, RawKeepsWindow
<1>4. CASE ~Hear /\ ~EmitAlert /\ ~\E h \in Header : EmitRaw(h)
  <2>1. SameLog
    BY <1>4, OnlyHearLogs
  <2>2. CASE WorkerStep \/ Told \/ Tick \/ UNCHANGED vars
    <3>1. UNCHANGED <<life, prod, alertUntil, burst, alerts>>
      BY <2>2 DEF WorkerStep, WorkerLoop, GetTimesOut, GetPill, GetSegment, Stt, SttFails,
         SttBlank, SttText, WriteReading, DropDuplicate, BuildReport, InsertReport,
         FinishReport, Told, Signalled, StopService, StartService, Tick, vars, hostVars, prodVars, store
    <3>2. time' = time \/ time' = time + 1
      BY <2>2 DEF WorkerStep, WorkerLoop, GetTimesOut, GetPill, GetSegment, Stt, SttFails,
         SttBlank, SttText, WriteReading, DropDuplicate, BuildReport, InsertReport,
         FinishReport, Told, Signalled, StopService, StartService, Tick, vars, hostVars
    <3>. QED  BY <2>1, <3>1, <3>2, WindowFrame DEF TypeOK, HostType
  <2>3. CASE StopSeen \/ ProducerRaises
    <3>1. /\ UNCHANGED <<time, life, alertUntil, alerts>>
          /\ prod # "down" /\ prod' = "join"
      BY <2>3 DEF StopSeen, ProducerRaises, Unwind, hostVars, store
    <3>. QED  BY <2>1, <3>1, WindowFrame DEF TypeOK, HostType
  <2>4. CASE JoinReturns \/ WorkerDies \/ Killed
    <3>1. UNCHANGED <<time, life, alerts>> /\ prod' = "down"
      BY <2>4 DEF JoinReturns, WorkerDies, Killed, ProcessEnds, Clear, hostVars, store
    <3>. QED  BY <2>1, <3>1, WindowFrame DEF TypeOK, HostType
  <2>5. CASE Restart
    <3>1. UNCHANGED alerts /\ time' = time + 1 /\ life' = life + 1 /\ prod' = "capture"
      BY <2>5 DEF Restart, Clear, store
    <3>. QED  BY <2>1, <3>1, WindowFrame DEF TypeOK, HostType
  <2>. QED  BY <1>4, <2>2, <2>3, <2>4, <2>5 DEF Next
<1>. QED  BY <1>1, <1>2, <1>3, <1>4

\* The spoken narrative is not shed: once the process has stored an alert, no
\* segment it hears within alert_priority_window_s of it is dropped for backlog.
THEOREM NarrativeIsNotShed == Spec => []NarrativeNotShed
<1>1. Init => NotShedInv
  BY DEF Init, NotShedInv, NarrativeNotShed, WindowOpen
<1>2. NotShedInv => NarrativeNotShed
  BY DEF NotShedInv
<1>. QED  BY <1>1, <1>2, WindowStep, TypeCorrect, PTL DEF Spec

-----------------------------------------------------------------------------
(* Referential integrity. *)

LinkIsSound(r) ==
  r.sup # None => /\ r.sup \in RawIds
                  /\ r.sup.at <= r.id.at /\ r.sup # r.id
                  /\ Product[r.sup.text] = Product[r.id.text]

\* RowsHaveReports, and what the threads hold between two statements: the alert
\* record and the report a row is about to refer to are stored, and the dedup window
\* knows stored reports only, but for the one the worker is inserting.
RowsInv ==
  /\ RowsHaveReports
  /\ \A i \in RawIds : i.at <= time
  /\ prod = "emit" => burst \in RawIds
  /\ worker = "detail" => report.id \in RawIds
  /\ worker = "insert" => /\ history \subseteq RawIds \cup {report.id}
                          /\ report.id.at <= time
                          /\ LinkIsSound(report)
  /\ worker # "insert" => history \subseteq RawIds

\* A step that writes no table keeps the invariant, if it keeps what the threads are
\* about to refer to or drops it.
LEMMA RowsFrame ==
  ASSUME TypeOK, RowsInv, UNCHANGED <<raw, alerts, details>>,
         time' = time \/ time' = time + 1,
         UNCHANGED <<prod, burst>> \/ prod' # "emit",
         \/ UNCHANGED <<worker, report, history>>
         \/ worker' \notin {"insert", "detail"} /\ history' \subseteq RawIds
  PROVE  RowsInv'
<1>1. RawIds' = RawIds /\ RowsHaveReports'
  BY DEF RowsInv, RowsHaveReports, RawIds
<1>2. \A i \in RawIds : i.at \in Nat
  BY DEF TypeOK, StoreType, RawIds, Id
<1>3. \A i \in RawIds' : i.at <= time'
  BY <1>1, <1>2 DEF RowsInv, TypeOK, HostType
<1>4. prod' = "emit" => burst' \in RawIds'
  BY <1>1 DEF RowsInv
<1>5. CASE UNCHANGED <<worker, report, history>>
  <2>1. worker = "insert" => report.id.at \in Nat
    BY DEF TypeOK, WorkerType, Report
  <2>2. worker' = "insert" => report'.id.at <= time'
    BY <1>5, <2>1 DEF RowsInv, TypeOK, HostType
  <2>3. worker' = "insert" => LinkIsSound(report)'
    BY <1>1, <1>5 DEF RowsInv, LinkIsSound
  <2>. QED  BY <1>1, <1>3, <1>4, <1>5, <2>2, <2>3 DEF RowsInv
<1>6. CASE worker' \notin {"insert", "detail"} /\ history' \subseteq RawIds
  BY <1>1, <1>3, <1>4, <1>6 DEF RowsInv
<1>. QED  BY <1>5, <1>6

\* insert_raw_report adds the row's id to those stored and removes none.
LEMMA UpsertIds ==
  ASSUME NEW row, raw' = Upsert(raw, row)
  PROVE  /\ RawIds' = RawIds \cup {row.id}
         /\ \A r \in raw' : r \in raw \/ r = row
BY DEF RawIds, Upsert

LEMMA AlertKeepsRows ==
  ASSUME TypeOK, RowsInv, (\E h \in Header : EmitRaw(h)) \/ EmitAlert
  PROVE  RowsInv'
<1>1. ASSUME NEW h \in Header, EmitRaw(h) PROVE RowsInv'
  <2>. DEFINE row == [id |-> burst', sup |-> None]
  <2>1. raw' = Upsert(raw, row) /\ row.id = burst' /\ row.sup = None /\ burst'.at = time
    BY <1>1 DEF EmitRaw
  <2>2. /\ UNCHANGED <<time, alerts, details, worker, report, history>>
    BY <1>1 DEF EmitRaw, hostVars, workerVars
  <2>. HIDE DEF row
  <2>3. RawIds' = RawIds \cup {burst'} /\ \A r \in raw' : r \in raw \/ r = row
    BY <2>1, UpsertIds
  <2>4. RowsHaveReports'
    BY <2>1, <2>2, <2>3 DEF RowsInv, RowsHaveReports
  <2>5. \A i \in RawIds' : i.at <= time'
    BY <2>1, <2>2, <2>3 DEF RowsInv, TypeOK, HostType
  <2>6. worker = "insert" => LinkIsSound(report)'
    BY <2>2, <2>3 DEF RowsInv, LinkIsSound
  <2>. QED  BY <2>2, <2>3, <2>4, <2>5, <2>6 DEF RowsInv
<1>2. CASE EmitAlert
  <2>1. /\ prod = "emit" /\ prod' = "capture"
        /\ UNCHANGED <<time, raw, details, worker, report, history>>
        /\ alerts' \subseteq alerts \cup {[id |-> burst, life |-> life]}
    BY <1>2 DEF EmitAlert, hostVars, workerVars
  <2>2. RawIds' = RawIds
    BY <2>1 DEF RawIds
  <2>3. \A a \in alerts' : a \in alerts \/ a.id = burst
    BY <2>1
  <2>4. RowsHaveReports'
    BY <2>1, <2>2, <2>3 DEF RowsInv, RowsHaveReports
  <2>5. worker = "insert" => LinkIsSound(report)'
    BY <2>1, <2>2 DEF RowsInv, LinkIsSound
  <2>. QED  BY <2>1, <2>2, <2>4, <2>5 DEF RowsInv
<1>. QED  BY <1>1, <1>2

\* TextDeduper.consider links to the report it matched, which is a stored one of the
\* same product and not the new one: that would have been a duplicate of itself.
LEMMA BuildKeepsRows ==
  ASSUME TypeOK, RowsInv, BuildReport
  PROVE  RowsInv'
<1>. DEFINE t == aired[hand].text
            id == [at |-> time, text |-> t]
<1>1. PICK sup \in Supersedes(t) : report' = [id |-> id, sup |-> sup] /\ Remember(id)
  BY DEF BuildReport
<1>2. /\ worker = "vote" /\ worker' = "insert" /\ ~IsDuplicate
      /\ UNCHANGED <<time, prod, burst, raw, alerts, details, aired, hand>>
  BY DEF BuildReport, Considering, hostVars, prodVars, store
<1>3. t \in Text
  BY <1>2, HandText DEF TypeOK, Pointers
<1>4. RawIds' = RawIds /\ RowsHaveReports'
  BY <1>2 DEF RowsInv, RowsHaveReports, RawIds
<1>5. history \subseteq RawIds /\ history \subseteq [at : Nat, text : Text]
  BY <1>2 DEF RowsInv, TypeOK, WorkerType
<1>6. history' \subseteq RawIds \cup {id}
  BY <1>1, <1>5 DEF Remember
<1>7. time \in Nat
  BY DEF TypeOK, HostType
<1>8. report'.id = id /\ report'.sup = sup /\ id.at = time /\ id.text = t
  BY <1>1
<1>9. ASSUME sup # None
      PROVE  /\ sup \in RawIds /\ sup.at <= time /\ sup # id
             /\ Product[sup.text] = Product[t]
  <2>1. sup \in history /\ Sim(sup) >= TextUpdate /\ Product[sup.text] = Product[t]
    BY <1>1, <1>9 DEF Supersedes, Closest
  <2>2. sup \in RawIds /\ sup.at <= time
    BY <1>5, <2>1 DEF RowsInv
  <2>3. ASSUME sup = id PROVE FALSE
    <3>1. Sim(sup) = Ratio[<<t, t>>] /\ Ratio[<<t, t>>] \in Nat
      BY <1>3, <1>8, <2>3 DEF Sim
    <3>2. Sim(sup) >= TextDup
      BY <1>3, <2>1, <3>1, SelfSimilar
    <3>. QED  BY <1>2, <2>1, <3>2 DEF IsDuplicate
  <2>. QED  BY <2>1, <2>2, <2>3
<1>. HIDE DEF id, t
<1>10. LinkIsSound(report)'
  BY <1>4, <1>8, <1>9 DEF LinkIsSound
<1>11. \A i \in RawIds' : i.at <= time'
  BY <1>2, <1>4 DEF RowsInv
<1>12. report'.id.at <= time'
  BY <1>2, <1>7, <1>8
<1>. QED  BY <1>2, <1>4, <1>6, <1>8, <1>10, <1>11, <1>12 DEF RowsInv

LEMMA StoreKeepsRows ==
  ASSUME TypeOK, RowsInv, InsertReport \/ FinishReport
  PROVE  RowsInv'
<1>1. CASE InsertReport
  <2>1. /\ worker = "insert" /\ worker' = "detail" /\ raw' = Upsert(raw, report)
        /\ UNCHANGED <<time, prod, burst, alerts, details, report, history>>
    BY <1>1 DEF InsertReport, hostVars, prodVars
  <2>2. RawIds' = RawIds \cup {report.id} /\ \A r \in raw' : r \in raw \/ r = report
    BY <2>1, UpsertIds
  <2>3. LinkIsSound(report) /\ report.id.at <= time /\ history \subseteq RawIds \cup {report.id}
    BY <2>1 DEF RowsInv
  <2>4. RowsHaveReports'
    BY <2>1, <2>2, <2>3 DEF RowsInv, RowsHaveReports, LinkIsSound
  <2>5. \A i \in RawIds' : i.at <= time'
    BY <2>1, <2>2, <2>3 DEF RowsInv
  <2>. QED  BY <2>1, <2>2, <2>3, <2>4, <2>5 DEF RowsInv
<1>2. CASE FinishReport
  <2>1. /\ worker = "detail" /\ worker' = "check"
        /\ UNCHANGED <<time, prod, burst, raw, alerts, history>>
        /\ details' \subseteq details \cup {report.id}
    BY <1>2 DEF FinishReport, hostVars, prodVars
  <2>2. RawIds' = RawIds /\ report.id \in RawIds
    BY <2>1 DEF RowsInv, RawIds
  <2>3. RowsHaveReports'
    BY <2>1, <2>2 DEF RowsInv, RowsHaveReports
  <2>. QED  BY <2>1, <2>2, <2>3 DEF RowsInv
<1>. QED  BY <1>1, <1>2

LEMMA RowsStep ==
  ASSUME TypeOK, RowsInv, [Next]_vars
  PROVE  RowsInv'
<1>1. CASE (\E h \in Header : EmitRaw(h)) \/ EmitAlert
  BY <1>1, AlertKeepsRows
<1>2. CASE BuildReport \/ InsertReport \/ FinishReport
  BY <1>2, BuildKeepsRows, StoreKeepsRows
<1>3. CASE Hear \/ StopSeen \/ ProducerRaises \/ Told \/ Tick \/ UNCHANGED vars
  <2>1. /\ UNCHANGED <<raw, alerts, details, worker, report, history>>
        /\ time' = time \/ time' = time + 1
        /\ UNCHANGED <<prod, burst>> \/ prod' # "emit"
    BY <1>3 DEF Hear, HearRepeat, HearShed, HearNovel, StopSeen, ProducerRaises, Unwind,
       Told, Signalled, StopService, StartService, Tick, vars, hostVars, prodVars, workerVars, store
  <2>. QED  BY <2>1, RowsFrame
<1>4. CASE \/ WorkerLoop \/ GetTimesOut \/ GetPill \/ GetSegment \/ Stt \/ WriteReading
           \/ DropDuplicate
  <2>1. /\ UNCHANGED <<time, raw, alerts, details, prod, burst, history>>
        /\ worker # "insert" /\ worker' \notin {"insert", "detail"}
    BY <1>4 DEF WorkerLoop, GetTimesOut, GetPill, GetSegment, Stt, SttFails, SttBlank, SttText,
       WriteReading, DropDuplicate, Considering, hostVars, prodVars, store
  <2>2. history' \subseteq RawIds
    BY <2>1 DEF RowsInv
  <2>. QED  BY <2>1, <2>2, RowsFrame
<1>5. CASE JoinReturns \/ WorkerDies \/ Killed
  <2>1. /\ UNCHANGED <<time, raw, alerts, details>> /\ prod' = "down"
        /\ worker' = "none" /\ history' = {}
    BY <1>5 DEF JoinReturns, WorkerDies, Killed, ProcessEnds, Clear, hostVars, store
  <2>. QED  BY <2>1, RowsFrame
<1>6. CASE Restart
  <2>1. /\ UNCHANGED <<raw, alerts, details>> /\ time' = time + 1 /\ prod' = "capture"
        /\ worker' = "check" /\ history' \subseteq RawIds
    BY <1>6 DEF Restart, Clear, store, RawIds
  <2>. QED  BY <2>1, RowsFrame
<1>. QED  BY <1>1, <1>2, <1>3, <1>4, <1>5, <1>6 DEF Next, WorkerStep

\* Referential integrity: wherever the process ends between two statements of
\* _emit_alert or _handle_transcript, and whatever it primes itself with, every alert,
\* every detail and every supersedes link points at a stored report, and a link at
\* another, no later one of the same product.
THEOREM RowsReferToReports == Spec => []RowsHaveReports
<1>1. Init => RowsInv
  BY DEF Init, RowsInv, RowsHaveReports, RawIds
<1>2. RowsInv => RowsHaveReports
  BY DEF RowsInv
<1>. QED  BY <1>1, <1>2, RowsStep, TypeCorrect, PTL DEF Spec

-----------------------------------------------------------------------------
(* What is dropped as a duplicate is in the store. *)

\* The step settles no further segment as a duplicate.
NoNewDuplicate ==
  \A i \in DOMAIN aired' : aired'[i].fate = "duplicate" =>
    i \in DOMAIN aired /\ aired[i].fate = "duplicate" /\ aired'[i].text = aired[i].text

LEMMA SettledFates ==
  ASSUME AiredType, hand \in DOMAIN aired, NEW f \in Fate, Settle(f)
  PROVE  \A i \in DOMAIN aired' :
           /\ i \in DOMAIN aired /\ aired'[i].text = aired[i].text
           /\ aired'[i].fate = IF i = hand THEN f ELSE aired[i].fate
<1>1. aired' = [aired EXCEPT ![hand] = [aired[hand] EXCEPT !.fate = f]]
      /\ aired[hand] \in Heard /\ aired \in Seq(Heard)
  BY DEF Settle, AiredType
<1>. DEFINE h == [aired[hand] EXCEPT !.fate = f]
<1>2. h.fate = f /\ h.text = aired[hand].text
  BY <1>1 DEF Heard
<1>. HIDE DEF h
<1>. QED  BY <1>1, <1>2 DEF h

LEMMA OnlyDropsDuplicate ==
  ASSUME TypeOK, [Next]_vars, ~DropDuplicate
  PROVE  NoNewDuplicate
<1>. USE DEF TypeOK
<1>1. CASE UNCHANGED aired
  BY <1>1 DEF NoNewDuplicate
<1>2. CASE SttFails \/ SttBlank \/ InsertReport
  <2>1. PICK f \in Fate : Settle(f) /\ f # "duplicate"
    BY <1>2 DEF SttFails, SttBlank, InsertReport, Fate
  <2>2. hand \in DOMAIN aired
    BY <1>2 DEF SttFails, SttBlank, InsertReport, Pointers
  <2>. QED  BY <2>1, <2>2, SettledFates DEF NoNewDuplicate
<1>3. CASE JoinReturns \/ WorkerDies \/ Killed
  <2>. DEFINE Lost(i) == [aired[i] EXCEPT !.fate = IF @ = "open" THEN "lost" ELSE @]
  <2>1. aired' = [i \in DOMAIN aired |-> Lost(i)]
    BY <1>3 DEF JoinReturns, WorkerDies, Killed, ProcessEnds
  <2>2. ASSUME NEW i \in DOMAIN aired, Lost(i).fate = "duplicate"
        PROVE  aired[i].fate = "duplicate" /\ Lost(i).text = aired[i].text
    <3>1. aired[i] \in Heard
      BY DEF AiredType
    <3>. QED  BY <2>2, <3>1 DEF Heard
  <2>. HIDE DEF Lost
  <2>. QED  BY <2>1, <2>2 DEF NoNewDuplicate
<1>4. CASE Hear
  <2>1. PICK t \in Text, r \in Route, f \in Fate : Log(t, r, f) /\ f # "duplicate"
    BY <1>4 DEF Hear, HearRepeat, HearShed, HearNovel, Route, Fate
  <2>. DEFINE n == Len(aired) + 1
  <2>2. /\ n \in Nat /\ DOMAIN aired = 1..(n - 1) /\ DOMAIN aired' = 1..n
        /\ \A i \in 1..(n - 1) : aired'[i] = aired[i]
        /\ aired'[n].fate = f
    BY <2>1 DEF Log, AiredType
  <2>. HIDE DEF n
  <2>. QED  BY <2>1, <2>2 DEF NoNewDuplicate
<1>. QED
  BY <1>1, <1>2, <1>3, <1>4
  DEF Next, vars, EmitRaw, EmitAlert, StopSeen, ProducerRaises, Unwind, WorkerStep, WorkerLoop,
      GetTimesOut, GetPill, GetSegment, Stt, SttText, WriteReading, BuildReport, FinishReport,
      Told, Signalled, StopService, StartService, Restart, Tick

LEMMA StoredStaysStored ==
  ASSUME [Next]_vars
  PROVE  RawIds \subseteq RawIds'
<1>1. CASE UNCHANGED raw
  BY <1>1 DEF RawIds
<1>2. ASSUME NEW row, raw' = Upsert(raw, row) PROVE RawIds \subseteq RawIds'
  BY <1>2, UpsertIds
<1>3. UNCHANGED raw \/ \E row : raw' = Upsert(raw, row)
  BY DEF Next, vars, store, Hear, HearRepeat, HearShed, HearNovel, EmitRaw, EmitAlert, StopSeen,
     ProducerRaises, Unwind, JoinReturns, ProcessEnds, WorkerStep, WorkerLoop, GetTimesOut,
     GetPill, GetSegment, Stt, SttFails, SttBlank, SttText, WriteReading, DropDuplicate,
     BuildReport, InsertReport, FinishReport, WorkerDies, Killed, Told, Signalled, StopService, StartService, Restart, Tick
<1>. QED  BY <1>1, <1>2, <1>3

LEMMA DuplicateStep ==
  ASSUME TypeOK, RowsInv, DuplicateIsStored, [Next]_vars
  PROVE  DuplicateIsStored'
<1>. DEFINE Match(t, ids) == \E id \in ids : id.text \in Text /\ Ratio[<<t, id.text>>] >= TextDup
<1>1. DuplicateIsStored <=> \A i \in DOMAIN aired :
                              aired[i].fate = "duplicate" => Match(aired[i].text, RawIds)
  BY DEF DuplicateIsStored, RawIds
<1>2. DuplicateIsStored' <=> \A i \in DOMAIN aired' :
                               aired'[i].fate = "duplicate" => Match(aired'[i].text, RawIds')
  <2>1. \A t : Match(t, RawIds') <=> \E r \in raw' : r.id.text \in Text
                                                  /\ Ratio[<<t, r.id.text>>] >= TextDup
    BY DEF RawIds
  <2>. HIDE DEF Match
  <2>. QED  BY <2>1 DEF DuplicateIsStored
<1>3. \A t : Match(t, RawIds) => Match(t, RawIds')
  BY StoredStaysStored
<1>4. CASE DropDuplicate
  <2>1. PICK h \in history : Ratio[<<aired[hand].text, h.text>>] >= TextDup
    BY <1>4 DEF DropDuplicate, IsDuplicate, Sim
  <2>2. h \in RawIds /\ h.text \in Text
    BY <1>4 DEF DropDuplicate, Considering, RowsInv, TypeOK, WorkerType
  <2>3. Match(aired[hand].text, RawIds)
    BY <2>1, <2>2
  <2>4. hand \in DOMAIN aired /\ Settle("duplicate") /\ "duplicate" \in Fate /\ AiredType
    BY <1>4 DEF DropDuplicate, Considering, TypeOK, Pointers, Fate
  <2>. HIDE DEF Match
  <2>5. \A i \in DOMAIN aired' :
          /\ i \in DOMAIN aired /\ aired'[i].text = aired[i].text
          /\ i = hand \/ aired'[i].fate = aired[i].fate
    BY <2>4, SettledFates
  <2>. QED  BY <1>1, <1>2, <1>3, <2>3, <2>5
<1>5. CASE ~DropDuplicate
  <2>1. NoNewDuplicate
    BY <1>5, OnlyDropsDuplicate
  <2>. HIDE DEF Match
  <2>. QED  BY <1>1, <1>2, <1>3, <2>1 DEF NoNewDuplicate
<1>. QED  BY <1>4, <1>5

\* TextDeduper drops nothing for the sake of a report that was lost: whatever insert
\* failed and wherever the process was killed, what a duplicate repeats is stored.
THEOREM DropsOnlyStored == Spec => []DuplicateIsStored
<1>1. Init => RowsInv /\ DuplicateIsStored
  BY DEF Init, RowsInv, RowsHaveReports, RawIds, DuplicateIsStored
<1>. QED  BY <1>1, RowsStep, DuplicateStep, TypeCorrect, PTL DEF Spec

-----------------------------------------------------------------------------
(* Every segment is settled once, and in air order. *)

\* The worker has a segment it has not settled.
Holding == worker \in {"stt", "vote", "insert"}

IsQueued(i) == \E e \in queue : e.prio # PRIO_PILL /\ e.seg = i

\* SegmentsConserved, segment by segment; the pill is no segment and comes last.
ConservedInv ==
  /\ \A i \in DOMAIN aired : aired[i].fate = "open" <=> IsQueued(i) \/ (Holding /\ hand = i)
  /\ Holding => \A e \in queue : e.seg # hand
  /\ \A e, f \in queue : e.seg = f.seg => e = f
  /\ \A e \in queue : e.prio = PRIO_PILL => e.seg = 0 /\ prod = "join"
  /\ prod = "down" => queue = {} /\ worker = "none"

\* What Log does, entry by entry.
LEMMA LogEntries ==
  ASSUME AiredType, NEW t \in Text, NEW r \in Route, NEW f \in Fate, Log(t, r, f)
  PROVE  LET n == Len(aired) + 1
         IN  /\ n \in Nat \ {0} /\ DOMAIN aired = 1..(n - 1) /\ DOMAIN aired' = 1..n
             /\ \A i \in 1..(n - 1) : aired'[i] = aired[i]
             /\ aired'[n].fate = f /\ aired'[n].route = r /\ aired'[n].life = life
BY DEF Log, AiredType

LEMMA HearConserves ==
  ASSUME TypeOK, ConservedInv, Hear
  PROVE  ConservedInv'
<1>1. PICK t \in Text : HearRepeat(t) \/ HearShed(t) \/ HearNovel(t)
  BY DEF Hear
<1>. DEFINE n == Len(aired) + 1
<1>2. /\ UNCHANGED <<worker, hand, prod>> /\ prod = "capture"
      /\ AiredType /\ Pointers
      /\ Holding => hand \in DOMAIN aired
  BY <1>1 DEF HearRepeat, HearShed, HearNovel, Hearing, prodVars, workerVars, TypeOK, Pointers,
              Holding
<1>3. \A e \in queue : e.prio # PRIO_PILL /\ e.seg \in DOMAIN aired
  BY <1>2 DEF ConservedInv, Pointers
<1>4. Holding' <=> Holding
  BY <1>2 DEF Holding
<1>5. CASE HearRepeat(t) \/ HearShed(t)
  <2>1. queue' = queue
    BY <1>5 DEF HearRepeat, HearShed
  <2>2. PICK r \in Route, f \in Fate : Log(t, r, f) /\ f # "open"
    BY <1>5 DEF HearRepeat, HearShed, Route, Fate
  <2>3. /\ n \in Nat \ {0} /\ DOMAIN aired = 1..(n - 1) /\ DOMAIN aired' = 1..n
        /\ \A i \in 1..(n - 1) : aired'[i] = aired[i]
        /\ aired'[n].fate # "open"
    BY <1>2, <2>2, LogEntries
  <2>. HIDE DEF n
  <2>4. \A i : IsQueued(i)' <=> IsQueued(i)
    BY <2>1 DEF IsQueued
  <2>5. ~IsQueued(n) /\ ~(Holding /\ hand = n)
    BY <1>2, <1>3, <2>3 DEF IsQueued
  <2>6. ASSUME NEW i \in DOMAIN aired'
        PROVE  aired'[i].fate = "open" <=> IsQueued(i)' \/ (Holding' /\ hand' = i)
    <3>1. CASE i = n
      BY <1>2, <1>4, <2>3, <2>4, <2>5, <3>1
    <3>2. CASE i \in 1..(n - 1)
      BY <1>2, <1>4, <2>3, <2>4, <3>2 DEF ConservedInv
    <3>. QED  BY <2>3, <3>1, <3>2
  <2>. QED  BY <1>2, <1>4, <2>1, <2>6 DEF ConservedInv
<1>6. CASE HearNovel(t)
  <2>. DEFINE new == [prio |-> Priority, seq |-> nextSeq, seg |-> n]
  <2>1. queue' = queue \cup {new} /\ new.seg = n /\ new.prio # PRIO_PILL
    BY <1>6 DEF HearNovel, Priority, PRIO_PILL, PRIO_ALERT, PRIO_NORMAL
  <2>2. PICK r \in Route : Log(t, r, "open") /\ "open" \in Fate
    BY <1>6 DEF HearNovel, Route, Fate
  <2>3. /\ n \in Nat \ {0} /\ DOMAIN aired = 1..(n - 1) /\ DOMAIN aired' = 1..n
        /\ \A i \in 1..(n - 1) : aired'[i] = aired[i]
        /\ aired'[n].fate = "open"
    BY <1>2, <2>2, LogEntries
  <2>. HIDE DEF n, new
  <2>4. \A i : IsQueued(i)' <=> IsQueued(i) \/ i = n
    BY <2>1 DEF IsQueued
  <2>5. ASSUME NEW i \in DOMAIN aired'
        PROVE  aired'[i].fate = "open" <=> IsQueued(i)' \/ (Holding' /\ hand' = i)
    <3>1. CASE i = n
      BY <2>3, <2>4, <3>1
    <3>2. CASE i \in 1..(n - 1)
      BY <1>2, <1>4, <2>3, <2>4, <3>2 DEF ConservedInv
    <3>. QED  BY <2>3, <3>1, <3>2
  <2>6. \A e \in queue : e.seg # n
    BY <1>3, <2>3
  <2>7. Holding => hand # n
    BY <1>2, <2>3
  <2>. QED  BY <1>2, <1>3, <1>4, <2>1, <2>5, <2>6, <2>7 DEF ConservedInv
<1>. QED  BY <1>1, <1>5, <1>6

LEMMA TakeConserves ==
  ASSUME TypeOK, ConservedInv, GetPill \/ GetSegment
  PROVE  ConservedInv'
<1>1. worker = "wait" /\ ~Holding /\ UNCHANGED <<prod, aired>>
  BY DEF GetPill, GetSegment, Holding, prodVars
<1>2. prod # "down"
  BY <1>1 DEF ConservedInv
<1>3. CASE GetPill
  <2>1. PICK e \in queue : e.prio = PRIO_PILL /\ queue' = queue \ {e}
    BY <1>3 DEF GetPill
  <2>2. \A i : IsQueued(i)' <=> IsQueued(i)
    BY <2>1 DEF IsQueued
  <2>3. ~Holding'
    BY <1>3 DEF GetPill, Holding
  <2>. QED  BY <1>1, <1>2, <2>1, <2>2, <2>3 DEF ConservedInv
<1>4. CASE GetSegment
  <2>1. PICK e \in queue : e.prio # PRIO_PILL /\ queue' = queue \ {e} /\ hand' = e.seg
    BY <1>4 DEF GetSegment
  <2>2. Holding'
    BY <1>4 DEF GetSegment, Holding
  <2>3. \A i : IsQueued(i) <=> IsQueued(i)' \/ i = e.seg
    BY <2>1 DEF IsQueued
  <2>. QED  BY <1>1, <1>2, <2>1, <2>2, <2>3 DEF ConservedInv
<1>. QED  BY <1>3, <1>4

LEMMA WorkConserves ==
  ASSUME TypeOK, ConservedInv, WorkerStep, ~GetPill, ~GetSegment
  PROVE  ConservedInv'
<1>1. UNCHANGED <<prod, queue>> /\ \A i : IsQueued(i)' <=> IsQueued(i)
  BY DEF WorkerStep, WorkerLoop, GetTimesOut, Stt, SttFails, SttBlank, SttText, WriteReading,
         DropDuplicate, BuildReport, InsertReport, FinishReport, shared, prodVars, IsQueued
<1>2. worker # "none" /\ prod # "down"
  BY DEF WorkerStep, WorkerLoop, GetTimesOut, Stt, SttFails, SttBlank, SttText, WriteReading,
         DropDuplicate, Considering, BuildReport, InsertReport, FinishReport, ConservedInv
<1>3. CASE SttFails \/ SttBlank \/ DropDuplicate \/ InsertReport
  <2>1. PICK f \in Fate : Settle(f) /\ f # "open"
    BY <1>3 DEF SttFails, SttBlank, DropDuplicate, InsertReport, Fate
  <2>2. Holding /\ ~Holding' /\ hand \in DOMAIN aired /\ AiredType
    BY <1>3 DEF SttFails, SttBlank, DropDuplicate, InsertReport, Considering, Holding, TypeOK,
                Pointers
  <2>3. \A i \in DOMAIN aired' :
          /\ i \in DOMAIN aired /\ aired'[i].text = aired[i].text
          /\ aired'[i].fate = IF i = hand THEN f ELSE aired[i].fate
    BY <2>1, <2>2, SettledFates
  <2>4. ~IsQueued(hand)
    BY <2>2 DEF ConservedInv, IsQueued
  <2>5. \A i \in DOMAIN aired : aired[i].fate = "open" <=> IsQueued(i) \/ hand = i
    BY <2>2 DEF ConservedInv
  <2>6. ASSUME NEW i \in DOMAIN aired'
        PROVE  aired'[i].fate = "open" <=> IsQueued(i)'
    <3>1. CASE i = hand
      BY <1>1, <2>1, <2>3, <2>4, <3>1
    <3>2. CASE i # hand
      BY <1>1, <2>3, <2>5, <3>2
    <3>. QED  BY <3>1, <3>2
  <2>7. \A i \in DOMAIN aired' : aired'[i].fate = "open" <=> IsQueued(i)' \/ (Holding' /\ hand' = i)
    BY <2>2, <2>6
  <2>. QED  BY <1>1, <1>2, <2>2, <2>7 DEF ConservedInv
<1>4. CASE (\E c \in BOOLEAN : SttText(c)) \/ WriteReading \/ BuildReport
  <2>1. Holding /\ Holding' /\ UNCHANGED <<hand, aired>>
    BY <1>4 DEF SttText, WriteReading, BuildReport, Considering, Holding
  <2>. QED  BY <1>1, <1>2, <2>1 DEF ConservedInv
<1>5. CASE WorkerLoop \/ GetTimesOut \/ FinishReport
  <2>1. ~Holding /\ ~Holding' /\ UNCHANGED aired
    BY <1>5 DEF WorkerLoop, GetTimesOut, FinishReport, Holding
  <2>. QED  BY <1>1, <1>2, <2>1 DEF ConservedInv
<1>. QED  BY <1>3, <1>4, <1>5 DEF WorkerStep, Stt

LEMMA ProcessConserves ==
  ASSUME TypeOK, ConservedInv,
         \/ StopSeen \/ ProducerRaises \/ JoinReturns \/ WorkerDies \/ Killed \/ Restart
         \/ (\E h \in Header : EmitRaw(h)) \/ EmitAlert \/ Told \/ Tick \/ UNCHANGED vars
  PROVE  ConservedInv'
<1>1. CASE StopSeen \/ ProducerRaises
  <2>. DEFINE pill == [prio |-> PRIO_PILL, seq |-> nextSeq, seg |-> 0]
  <2>1. /\ queue' = queue \cup {pill} /\ prod' = "join" /\ UNCHANGED <<worker, hand, aired>>
        /\ prod \in {"capture", "emit"}
    BY <1>1 DEF StopSeen, ProducerRaises, Unwind, workerVars
  <2>2. pill.prio = PRIO_PILL /\ pill.seg = 0
    OBVIOUS
  <2>. HIDE DEF pill
  <2>3. \A e \in queue : e.prio # PRIO_PILL /\ e.seg \in DOMAIN aired
    BY <2>1 DEF ConservedInv, TypeOK, Pointers
  <2>4. 0 \notin DOMAIN aired
    BY DEF TypeOK, AiredType
  <2>5. (Holding' <=> Holding) /\ (Holding => hand \in DOMAIN aired)
    BY <2>1 DEF Holding, TypeOK, Pointers
  <2>6. \A i : IsQueued(i)' <=> IsQueued(i)
    BY <2>1, <2>2 DEF IsQueued
  <2>. QED  BY <2>1, <2>2, <2>3, <2>4, <2>5, <2>6 DEF ConservedInv
<1>2. CASE JoinReturns \/ WorkerDies \/ Killed
  <2>. DEFINE Lost(i) == [aired[i] EXCEPT !.fate = IF @ = "open" THEN "lost" ELSE @]
  <2>1. /\ queue' = {} /\ worker' = "none" /\ aired' = [i \in DOMAIN aired |-> Lost(i)]
    BY <1>2 DEF JoinReturns, WorkerDies, Killed, ProcessEnds, Clear
  <2>2. ASSUME NEW i \in DOMAIN aired PROVE Lost(i).fate # "open"
    <3>1. aired[i] \in Heard
      BY DEF TypeOK, AiredType
    <3>. QED  BY <3>1 DEF Heard
  <2>. HIDE DEF Lost
  <2>3. ~Holding' /\ \A i : ~IsQueued(i)'
    BY <2>1 DEF Holding, IsQueued
  <2>. QED  BY <2>1, <2>2, <2>3 DEF ConservedInv
<1>3. CASE Restart
  <2>1. /\ queue' = {} /\ worker' = "check" /\ prod' = "capture" /\ UNCHANGED aired
        /\ queue = {} /\ worker = "none"
    BY <1>3 DEF Restart, Clear, ConservedInv
  <2>2. ~Holding /\ ~Holding' /\ \A i : ~IsQueued(i) /\ ~IsQueued(i)'
    BY <2>1 DEF Holding, IsQueued
  <2>. QED  BY <2>1, <2>2 DEF ConservedInv
<1>4. CASE (\E h \in Header : EmitRaw(h)) \/ EmitAlert \/ Told \/ Tick \/ UNCHANGED vars
  <2>1. /\ UNCHANGED <<queue, worker, hand, aired>>
        /\ \/ UNCHANGED prod
           \/ prod \in {"capture", "emit"} /\ prod' \in {"capture", "emit"}
    BY <1>4 DEF EmitRaw, EmitAlert, Told, Signalled, StopService, StartService, Tick, vars, shared, workerVars, prodVars
  <2>2. (Holding' <=> Holding) /\ \A i : IsQueued(i)' <=> IsQueued(i)
    BY <2>1 DEF Holding, IsQueued
  <2>. QED  BY <2>1, <2>2 DEF ConservedInv
<1>. QED  BY <1>1, <1>2, <1>3, <1>4

LEMMA ConservedStep ==
  ASSUME TypeOK, ConservedInv, [Next]_vars
  PROVE  ConservedInv'
BY HearConserves, TakeConserves, WorkConserves, ProcessConserves DEF Next, WorkerStep

\* Each segment the producer queues is settled exactly once: it waits in the queue or
\* is in the worker's hand, never both and never twice, until it is stored, dropped, given
\* up on, or lost with its process.
THEOREM SegmentsAreConserved == Spec => []SegmentsConserved
<1>1. Init => ConservedInv
  BY DEF Init, ConservedInv, Holding
<1>2. TypeOK /\ ConservedInv => SegmentsConserved
  <2>. SUFFICES ASSUME TypeOK, ConservedInv PROVE SegmentsConserved
    OBVIOUS
  <2>. DEFINE Queued == {e.seg : e \in {f \in queue : f.prio # PRIO_PILL}}
              Held   == IF worker \in {"stt", "vote", "insert"} THEN {hand} ELSE {}
  <2>1. Queued \subseteq DOMAIN aired /\ Held \subseteq DOMAIN aired
    BY DEF TypeOK, Pointers
  <2>2. \A i : (i \in Queued <=> IsQueued(i)) /\ (i \in Held <=> Holding /\ hand = i)
    BY DEF IsQueued, Holding
  <2>3. {i \in DOMAIN aired : aired[i].fate = "open"} = Queued \cup Held
    <3>. HIDE DEF Queued, Held
    <3>. QED  BY <2>1, <2>2 DEF ConservedInv
  <2>. QED  BY <2>3 DEF ConservedInv, SegmentsConserved, Holding
<1>. QED  BY <1>1, <1>2, ConservedStep, TypeCorrect, PTL DEF Spec

\* Within a priority the queue's counter follows the air, and the worker takes the lowest.
OrderInv ==
  /\ AirOrderKept
  /\ \A e \in queue : e.seq < nextSeq
  /\ \A e \in queue : e.prio # PRIO_PILL =>
       e.prio = IF aired[e.seg].route = "alert" THEN PRIO_ALERT ELSE PRIO_NORMAL
  /\ \A e, f \in queue :
       e.prio # PRIO_PILL /\ f.prio # PRIO_PILL /\ e.seg < f.seg => e.seq < f.seq

LEMMA HearKeepsOrder ==
  ASSUME TypeOK, ConservedInv, OrderInv, Hear
  PROVE  OrderInv'
<1>1. PICK t \in Text : HearRepeat(t) \/ HearShed(t) \/ HearNovel(t)
  BY DEF Hear
<1>. DEFINE n == Len(aired) + 1
<1>2. AiredType /\ prod = "capture" /\ nextSeq \in Nat
  BY <1>1 DEF HearRepeat, HearShed, HearNovel, Hearing, TypeOK, ProdType
<1>3. \A e \in queue : /\ e.prio # PRIO_PILL /\ e.seg \in DOMAIN aired
                       /\ e.seq \in Nat /\ e.seq < nextSeq
  BY <1>2 DEF ConservedInv, OrderInv, TypeOK, Pointers, SharedType
<1>4. CASE HearRepeat(t) \/ HearShed(t)
  <2>1. UNCHANGED <<queue, nextSeq>>
    BY <1>4 DEF HearRepeat, HearShed, prodVars
  <2>2. PICK r \in {"repeat", "shed"}, f \in Fate : Log(t, r, f)
    BY <1>4 DEF HearRepeat, HearShed, Fate
  <2>3. /\ n \in Nat \ {0} /\ DOMAIN aired = 1..(n - 1) /\ DOMAIN aired' = 1..n
        /\ \A i \in 1..(n - 1) : aired'[i] = aired[i]
        /\ aired'[n].route \in {"repeat", "shed"}
    <3>1. r \in Route
      BY <2>2 DEF Route
    <3>. QED  BY <1>2, <2>2, <3>1, LogEntries
  <2>. HIDE DEF n
  <2>4. AirOrderKept'
    <3>. SUFFICES ASSUME NEW i \in 1..n, NEW j \in 1..n, i < j,
                         aired'[i].life = aired'[j].life, aired'[i].route = aired'[j].route,
                         aired'[j].route \in {"alert", "routine"},
                         \E e \in queue : e.seg = i
                  PROVE  \E e \in queue : e.seg = j
      BY <2>1, <2>3 DEF AirOrderKept
    <3>1. i \in 1..(n - 1) /\ j \in 1..(n - 1)
      BY <2>3
    <3>2. /\ i \in DOMAIN aired /\ aired[i] = aired'[i]
          /\ j \in DOMAIN aired /\ aired[j] = aired'[j]
      BY <2>3, <3>1
    <3>3. AirOrderKept
      BY DEF OrderInv
    <3>. QED  BY <3>2, <3>3 DEF AirOrderKept
  <2>. QED  BY <1>3, <2>1, <2>3, <2>4 DEF OrderInv
<1>5. CASE HearNovel(t)
  <2>. DEFINE new == [prio |-> Priority, seq |-> nextSeq, seg |-> n]
              route == IF Priority = PRIO_ALERT THEN "alert" ELSE "routine"
  <2>1. /\ queue' = queue \cup {new} /\ nextSeq' = nextSeq + 1
        /\ Log(t, route, "open") /\ "open" \in Fate /\ route \in Route
    BY <1>5 DEF HearNovel, Fate, Route
  <2>2. /\ new.seg = n /\ new.seq = nextSeq /\ new.prio # PRIO_PILL
        /\ new.prio = IF route = "alert" THEN PRIO_ALERT ELSE PRIO_NORMAL
    BY DEF Priority, PRIO_PILL, PRIO_ALERT, PRIO_NORMAL
  <2>3. /\ n \in Nat \ {0} /\ DOMAIN aired = 1..(n - 1) /\ DOMAIN aired' = 1..n
        /\ \A i \in 1..(n - 1) : aired'[i] = aired[i]
        /\ aired'[n].route = route
    BY <1>2, <2>1, LogEntries
  <2>. HIDE DEF n, new, route
  <2>4. AirOrderKept'
    <3>. SUFFICES ASSUME NEW i \in 1..n, NEW j \in 1..n, i < j,
                         aired'[i].life = aired'[j].life, aired'[i].route = aired'[j].route,
                         aired'[j].route \in {"alert", "routine"},
                         \E e \in queue' : e.seg = i
                  PROVE  \E e \in queue' : e.seg = j
      BY <2>3 DEF AirOrderKept
    <3>1. CASE j = n
      BY <2>1, <2>2, <3>1
    <3>2. CASE j \in 1..(n - 1)
      <4>1. i \in 1..(n - 1) /\ i # n
        BY <2>3, <3>2
      <4>2. \E e \in queue : e.seg = i
        BY <2>1, <2>2, <4>1
      <4>3. /\ i \in DOMAIN aired /\ aired[i] = aired'[i]
            /\ j \in DOMAIN aired /\ aired[j] = aired'[j]
        BY <2>3, <3>2, <4>1
      <4>4. AirOrderKept
        BY DEF OrderInv
      <4>5. \E f \in queue : f.seg = j
        BY <4>2, <4>3, <4>4 DEF AirOrderKept
      <4>. QED  BY <2>1, <4>5
    <3>. QED  BY <2>3, <3>1, <3>2
  <2>5. \A e \in queue' : e.seq < nextSeq'
    BY <1>2, <1>3, <2>1, <2>2
  <2>6. ASSUME NEW e \in queue'
        PROVE  e.prio = IF aired'[e.seg].route = "alert" THEN PRIO_ALERT ELSE PRIO_NORMAL
    BY <1>3, <2>1, <2>2, <2>3 DEF OrderInv
  <2>7. ASSUME NEW e \in queue', NEW f \in queue', e.seg < f.seg
        PROVE  e.seq < f.seq
    <3>1. CASE e \in queue /\ f \in queue
      BY <1>3, <2>7, <3>1 DEF OrderInv
    <3>2. CASE e \in queue /\ f = new
      BY <1>3, <2>2, <3>2
    <3>3. CASE e = new
      <4>1. f.seg \in 1..n
        BY <1>3, <2>1, <2>2, <2>3
      <4>. QED  BY <2>2, <2>3, <2>7, <3>3, <4>1
    <3>. QED  BY <2>1, <3>1, <3>2, <3>3
  <2>. QED  BY <2>4, <2>5, <2>6, <2>7 DEF OrderInv
<1>. QED  BY <1>1, <1>4, <1>5

\* The entry taken is the first of its priority, so the earliest of it on the air.
LEMMA TakeKeepsOrder ==
  ASSUME TypeOK, ConservedInv, OrderInv, GetPill \/ GetSegment
  PROVE  OrderInv'
<1>1. PICK e \in queue : IsFirst(e) /\ queue' = queue \ {e}
  BY DEF GetPill, GetSegment
<1>2. UNCHANGED <<aired, nextSeq>>
  BY DEF GetPill, GetSegment, prodVars
<1>3. AirOrderKept'
  <2>. SUFFICES ASSUME NEW i \in DOMAIN aired, NEW j \in DOMAIN aired, i < j,
                       aired[i].life = aired[j].life, aired[i].route = aired[j].route,
                       aired[j].route \in {"alert", "routine"},
                       NEW g \in queue \ {e}, g.seg = i
                PROVE  \E f \in queue \ {e} : f.seg = j
    BY <1>1, <1>2 DEF AirOrderKept
  <2>1. PICK f \in queue : f.seg = j
    BY DEF OrderInv, AirOrderKept
  <2>2. ASSUME f = e PROVE FALSE
    <3>1. i # 0 /\ j # 0
      BY DEF TypeOK, AiredType
    <3>2. e.prio # PRIO_PILL /\ g.prio # PRIO_PILL
      BY <2>1, <2>2, <3>1 DEF ConservedInv
    <3>3. e.prio = g.prio /\ g.seq < e.seq
      BY <2>1, <2>2, <3>2 DEF OrderInv
    <3>4. e.prio < g.prio \/ (e.prio = g.prio /\ e.seq < g.seq)
      BY <1>1 DEF IsFirst, Before
    <3>5. queue \subseteq [prio : Prio, seq : Nat, seg : Nat]
      BY DEF TypeOK, SharedType
    <3>6. e.seq \in Int /\ g.seq \in Int /\ e.prio \in Int
      <4>1. Prio \subseteq Int
        BY DEF Prio, PRIO_PILL, PRIO_ALERT, PRIO_NORMAL
      <4>. QED  BY <3>5, <4>1
    <3>. QED  BY <3>3, <3>4, <3>6
  <2>. QED  BY <2>1, <2>2
<1>. QED  BY <1>1, <1>2, <1>3 DEF OrderInv

LEMMA OrderStep ==
  ASSUME TypeOK, ConservedInv, OrderInv, [Next]_vars
  PROVE  OrderInv'
<1>1. CASE Hear
  BY <1>1, HearKeepsOrder
<1>2. CASE GetPill \/ GetSegment
  BY <1>2, TakeKeepsOrder
<1>3. CASE StopSeen \/ ProducerRaises
  <2>. DEFINE pill == [prio |-> PRIO_PILL, seq |-> nextSeq, seg |-> 0]
  <2>1. queue' = queue \cup {pill} /\ nextSeq' = nextSeq + 1 /\ UNCHANGED aired
    BY <1>3 DEF StopSeen, ProducerRaises, Unwind
  <2>2. pill.prio = PRIO_PILL /\ pill.seg = 0 /\ pill.seq = nextSeq
    OBVIOUS
  <2>. HIDE DEF pill
  <2>3. 0 \notin DOMAIN aired /\ nextSeq \in Nat /\ \A e \in queue : e.seq \in Nat
    BY DEF TypeOK, AiredType, ProdType, SharedType
  <2>4. \A i \in DOMAIN aired : (\E e \in queue' : e.seg = i) <=> (\E e \in queue : e.seg = i)
    BY <2>1, <2>2, <2>3
  <2>5. AirOrderKept'
    BY <2>1, <2>4 DEF OrderInv, AirOrderKept
  <2>6. \A e \in queue' : e.seq < nextSeq'
    BY <2>1, <2>2, <2>3 DEF OrderInv
  <2>7. \A e \in queue' : e.prio # PRIO_PILL => e \in queue
    BY <2>1, <2>2
  <2>. QED  BY <2>1, <2>5, <2>6, <2>7 DEF OrderInv
<1>4. CASE JoinReturns \/ WorkerDies \/ Killed \/ Restart
  <2>1. queue' = {}
    BY <1>4 DEF JoinReturns, WorkerDies, Killed, Restart, ProcessEnds, Clear
  <2>. QED  BY <2>1 DEF OrderInv, AirOrderKept
<1>5. CASE ~Hear /\ UNCHANGED <<queue, nextSeq>>
  <2>1. SameLog
    BY <1>5, OnlyHearLogs
  <2>2. \A e \in queue : e.prio # PRIO_PILL => e.seg \in DOMAIN aired
    BY DEF TypeOK, Pointers
  <2>3. AirOrderKept'
    BY <1>5, <2>1 DEF OrderInv, AirOrderKept, SameLog
  <2>. QED  BY <1>5, <2>1, <2>2, <2>3 DEF OrderInv, SameLog
<1>6. \/ Hear \/ GetPill \/ GetSegment \/ StopSeen \/ ProducerRaises
      \/ JoinReturns \/ WorkerDies \/ Killed \/ Restart
      \/ ~Hear /\ UNCHANGED <<queue, nextSeq>>
  BY DEF Next, vars, shared, prodVars, EmitRaw, EmitAlert, WorkerStep, WorkerLoop, GetTimesOut,
     Stt, SttFails, SttBlank, SttText, WriteReading, DropDuplicate, BuildReport, InsertReport,
     FinishReport, Told, Signalled, StopService, StartService, Tick
<1>. QED  BY <1>1, <1>2, <1>3, <1>4, <1>5, <1>6

\* Within a priority class the worker of run_live transcribes in air order, however alerts
\* and routine segments mix in the queue: no update is overtaken by what it replaces.
THEOREM AirOrderIsKept == Spec => []AirOrderKept
<1>1. Init => ConservedInv /\ OrderInv
  BY DEF Init, ConservedInv, Holding, OrderInv, AirOrderKept
<1>2. OrderInv => AirOrderKept
  BY DEF OrderInv
<1>. QED  BY <1>1, <1>2, ConservedStep, OrderStep, TypeCorrect, PTL DEF Spec

=============================================================================
