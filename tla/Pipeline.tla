------------------------------ MODULE Pipeline ------------------------------
(***************************************************************************)
(* The capture service, wxparser/main.py, in its service mode: a producer  *)
(* thread (capture, novelty gate, SAME alerts) and an STT worker thread    *)
(* joined by one priority queue, and the database rows the two of them     *)
(* write, statement by statement.  The process may be killed between any   *)
(* two steps; systemd starts it again and it primes itself from the store. *)
(*                                                                         *)
(* A spoken product is a member of Text.  What matters of an utterance is  *)
(* whether the fingerprint gate takes it for another one (Alike), how      *)
(* close the two transcripts are (Ratio), its product type and the fields  *)
(* it states.                                                              *)
(***************************************************************************)
EXTENDS Integers, Sequences, FiniteSets

CONSTANTS
  Text,            \* the products the station can read
  Header,          \* the SAME headers it can send
  Field,           \* the fields of the serving tables
  Readings,        \* [Text -> Seq(Field)]: the rows one transcript writes, in order
  Product,         \* the product type of a text
  Narratives,      \* the texts whose details write_alert_detail_if_any stores
  Alike,           \* pairs of texts whose fingerprints reach fp_similarity_threshold
  Ratio,           \* [Text \X Text -> Nat]: transcript similarity, in percent
  TextDup,         \* text_dup_threshold, in percent
  TextUpdate,      \* text_update_threshold, in percent
  TextHistory,     \* text_history: depth of the text-dedup window
  GateHistory,     \* gate_history: depth of the fingerprint gate
  GateTTL,         \* gate_ttl_min, in ticks (0: entries never expire)
  SttMaxQueue,     \* stt_max_queue
  AlertWindow,     \* alert_priority_window_s, in ticks
  MaxTime,         \* bound: last tick
  MaxAired,        \* bound: segments heard
  MaxLives,        \* bound: starts of the process; the last one is not faulted
  None             \* no value

ASSUME PipelineAssumption ==
  /\ Readings \in [Text -> Seq(Field)]
  /\ Ratio \in [Text \X Text -> Nat]
  /\ Alike \subseteq Text \X Text
  /\ Narratives \subseteq Text
  /\ Text \cap Header = {} /\ None \notin Text
  /\ None \notin [at : Nat, text : Text \cup Header]
  /\ TextDup \in Nat \ {0} /\ TextUpdate \in Nat \ {0}
  /\ TextHistory \in Nat \ {0}
  /\ GateHistory \in Nat \ {0}
  /\ GateTTL \in Nat
  /\ SttMaxQueue \in Nat \ {0}
  /\ AlertWindow \in Nat \ {0}
  /\ MaxTime \in Nat /\ MaxAired \in Nat /\ MaxLives \in Nat \ {0}

\* A transcript equals itself: similarity is 1, or 0 for one normalize leaves empty.
ASSUME SelfSimilar ==
  \A t \in Text : Ratio[<<t, t>>] = 0 \/ Ratio[<<t, t>>] >= TextDup

PRIO_PILL   == -1
PRIO_ALERT  == 0
PRIO_NORMAL == 10

\* A report id is its second-resolution stamp and a hash of what was said.
Id == [at : Nat, text : Text \cup Header]

VARIABLES
  time,        \* wall clock and monotonic clock, in ticks
  life,        \* how often the process was started
  wanted,      \* systemd keeps the service running: it was not stopped by hand
  \* the producer thread and what it owns
  prod,        \* "capture", "emit" or "join"; "down": there is no process
  burst,       \* the alert record being emitted, None outside "emit"
  gate,        \* NoveltyGate.history, oldest first
  nextSeq,     \* the PriorityQueue's tie-breaking counter
  alertUntil,  \* end of the alert priority window
  recentRaw,   \* SAMEMonitor._recent_raw
  \* the worker thread and what it owns
  worker,      \* where it stands in its loop; "exited": the thread has ended
  hand,        \* the segment it holds (0: none)
  todo,        \* the readings of its transcript not yet written
  report,      \* the report it is about to insert, None otherwise
  history,     \* TextDeduper.history: ids of the reports it compares with
  \* shared by the threads
  stop,        \* the _STOP event
  queue,       \* the PriorityQueue
  counts,      \* the segment counters published on /health
  \* the database
  raw,         \* table raw_reports: [id, sup]
  alerts,      \* table alerts: [id, life]; life is auxiliary
  details,     \* table alert_details, by report id
  served,      \* latest value per field: city_conditions, forecasts, almanac
  \* auxiliary
  aired        \* every segment heard, how it was routed, what became of it

hostVars   == <<time, life, wanted>>
prodVars   == <<prod, burst, gate, nextSeq, alertUntil, recentRaw>>
workerVars == <<worker, hand, todo, report, history>>
shared     == <<stop, queue, counts>>
store      == <<raw, alerts, details, served>>
vars       == <<hostVars, prodVars, workerVars, shared, store, aired>>

RawIds   == {r.id : r \in raw}
NoCounts == [seg |-> 0, new |-> 0, repeat |-> 0, shed |-> 0, errors |-> 0]

\* Append x to a deque(maxlen=n).
Push(s, x, n) == IF Len(s) < n THEN Append(s, x) ELSE Append(Tail(s), x)

\* insert_raw_report: an upsert by id.
Upsert(table, row) == {r \in table : r.id # row.id} \cup {row}

\* What the process holds in memory while there is none (p = "down") and, the
\* primed text-dedup window apart, when it starts (p = "capture").
Clear(p, w) ==
  /\ prod' = p /\ burst' = None /\ gate' = <<>> /\ nextSeq' = 0
  /\ alertUntil' = 0 /\ recentRaw' = {}
  /\ worker' = w /\ hand' = 0 /\ todo' = <<>> /\ report' = None
  /\ stop' = FALSE /\ queue' = {} /\ counts' = NoCounts

Init ==
  /\ time = 0 /\ life = 1 /\ wanted = TRUE
  /\ prod = "capture" /\ burst = None /\ gate = <<>> /\ nextSeq = 0
  /\ alertUntil = 0 /\ recentRaw = {}
  /\ worker = "check" /\ hand = 0 /\ todo = <<>> /\ report = None /\ history = {}
  /\ stop = FALSE /\ queue = {} /\ counts = NoCounts
  /\ raw = {} /\ alerts = {} /\ details = {}
  /\ served = [f \in Field |-> None]
  /\ aired = <<>>

-----------------------------------------------------------------------------
(* The producer: one action per branch of run_live's segment loop. *)

GateLive(g) == GateTTL = 0 \/ time - g.at <= GateTTL
IsRepeat(t) == \E i \in DOMAIN gate : GateLive(gate[i]) /\ <<gate[i].text, t>> \in Alike
Priority    == IF time < alertUntil THEN PRIO_ALERT ELSE PRIO_NORMAL
\* Mutant of Saturated: an off-by-one at the cap.
SaturatedLate == Cardinality(queue) > SttMaxQueue
Saturated   == Cardinality(queue) >= SttMaxQueue
Hearing     == prod = "capture" /\ ~stop /\ Len(aired) < MaxAired

Log(t, route, fate) ==
  aired' = Append(aired, [text |-> t, at |-> time, life |-> life,
                          route |-> route, fate |-> fate])

Count(branch) == counts' = [counts EXCEPT !.seg = @ + 1, ![branch] = @ + 1]

HearRepeat(t) ==
  /\ Hearing /\ IsRepeat(t)
  /\ Count("repeat")
  /\ Log(t, "repeat", "dropped")
  /\ UNCHANGED <<hostVars, prodVars, workerVars, stop, queue, store>>

\* Mutant of HearShed: priority does not protect.
HearShedRegardless(t) ==
  /\ Hearing /\ ~IsRepeat(t) /\ Saturated
  /\ Count("shed") /\ Log(t, "shed", "dropped")
  /\ UNCHANGED <<hostVars, prodVars, workerVars, stop, queue, store>>

HearShed(t) ==
  /\ Hearing /\ ~IsRepeat(t)
  /\ Priority # PRIO_ALERT /\ Saturated
  /\ Count("shed")
  /\ Log(t, "shed", "dropped")
  /\ UNCHANGED <<hostVars, prodVars, workerVars, stop, queue, store>>

HearNovel(t) ==
  /\ Hearing /\ ~IsRepeat(t)
  /\ Priority = PRIO_ALERT \/ ~Saturated
  /\ gate' = Push(gate, [text |-> t, at |-> time], GateHistory)
  /\ queue' = queue \cup {[prio |-> Priority, seq |-> nextSeq, seg |-> Len(aired) + 1]}
  /\ nextSeq' = nextSeq + 1
  /\ Count("new")
  /\ Log(t, IF Priority = PRIO_ALERT THEN "alert" ELSE "routine", "open")
  /\ UNCHANGED <<hostVars, prod, burst, alertUntil, recentRaw, workerVars, stop, store>>

\* SAMEMonitor._flush decodes a header this process has not seen and calls
\* _on_alert, which stores the raw report first ...
EmitRaw(h) ==
  /\ prod = "capture" /\ h \notin recentRaw
  /\ recentRaw' = recentRaw \cup {h}
  /\ burst' = [at |-> time, text |-> h]
  /\ raw' = Upsert(raw, [id |-> burst', sup |-> None])
  /\ prod' = "emit"
  /\ UNCHANGED <<hostVars, gate, nextSeq, alertUntil, workerVars, shared,
                 alerts, details, served, aired>>

\* ... then the row /alerts serves; only then does the priority window open.
EmitAlert ==
  /\ prod = "emit"
  /\ alerts' = IF burst \in {a.id : a \in alerts}
                 THEN alerts ELSE alerts \cup {[id |-> burst, life |-> life]}
  /\ alertUntil' = time + AlertWindow
  /\ prod' = "capture" /\ burst' = None
  /\ UNCHANGED <<hostVars, gate, nextSeq, recentRaw, workerVars, shared,
                 raw, details, served, aired>>

\* The finally block: however the loop ends, the worker is told to stop and a
\* pill that sorts before every segment is queued.
Unwind ==
  /\ stop' = TRUE
  /\ queue' = queue \cup {[prio |-> PRIO_PILL, seq |-> nextSeq, seg |-> 0]}
  /\ nextSeq' = nextSeq + 1
  /\ prod' = "join" /\ burst' = None
  /\ UNCHANGED <<hostVars, gate, alertUntil, recentRaw, workerVars, counts, store, aired>>

\* Mutant of StopSeen: the flag is looked at only when the next segment arrives.
StopSeenAtSegment == prod = "capture" /\ stop /\ Len(aired) < MaxAired /\ Unwind

StopSeen       == prod = "capture" /\ stop /\ Unwind
\* arecord failed once too often, or a database write of _emit_alert raised.
ProducerRaises == prod \in {"capture", "emit"} /\ life < MaxLives /\ Unwind

-----------------------------------------------------------------------------
(* The worker: _stt_worker and _handle_transcript. *)

Settle(fate) == aired' = [aired EXCEPT ![hand].fate = fate]

WorkerLoop ==
  /\ worker = "check"
  /\ worker' = IF stop THEN "exited" ELSE "wait"
  /\ UNCHANGED <<hostVars, prodVars, hand, todo, report, history, shared, store, aired>>

GetTimesOut ==
  /\ worker = "wait" /\ queue = {}
  /\ worker' = "check"
  /\ UNCHANGED <<hostVars, prodVars, hand, todo, report, history, shared, store, aired>>

\* Mutant of Before: no tie-breaker.
BeforeNoTieBreak(e, f) == e.prio <= f.prio

Before(e, f) == e.prio < f.prio \/ (e.prio = f.prio /\ e.seq < f.seq)
IsFirst(e)   == e \in queue /\ \A f \in queue \ {e} : Before(e, f)

GetPill ==
  /\ worker = "wait"
  /\ \E e \in queue : IsFirst(e) /\ e.prio = PRIO_PILL /\ queue' = queue \ {e}
  /\ worker' = "exited"
  /\ UNCHANGED <<hostVars, prodVars, hand, todo, report, history, stop, counts, store, aired>>

\* Mutant of GetSegment: looks at the entry without taking it.
GetSegmentPeeks ==
  /\ worker = "wait"
  /\ \E e \in queue : IsFirst(e) /\ e.prio # PRIO_PILL /\ hand' = e.seg
  /\ worker' = "stt"
  /\ UNCHANGED <<hostVars, prodVars, todo, report, history, shared, store, aired>>

GetSegment ==
  /\ worker = "wait"
  /\ \E e \in queue : IsFirst(e) /\ e.prio # PRIO_PILL
                     /\ queue' = queue \ {e} /\ hand' = e.seg
  /\ worker' = "stt"
  /\ UNCHANGED <<hostVars, prodVars, todo, report, history, stop, counts, store, aired>>

\* whisper-cli failed, or ran into its wall-clock bound.
SttFails ==
  /\ worker = "stt"
  /\ counts' = [counts EXCEPT !.errors = @ + 1]
  /\ Settle("error")
  /\ worker' = "check" /\ hand' = 0
  /\ UNCHANGED <<hostVars, prodVars, todo, report, history, stop, queue, store>>

SttBlank ==
  /\ worker = "stt"
  /\ Settle("blank")
  /\ worker' = "check" /\ hand' = 0
  /\ UNCHANGED <<hostVars, prodVars, todo, report, history, shared, store>>

\* A transcript.  Below the confidence floor it is stored but not voted.
SttText(confident) ==
  /\ worker = "stt"
  /\ todo' = IF confident THEN Readings[aired[hand].text] ELSE <<>>
  /\ worker' = "vote"
  /\ UNCHANGED <<hostVars, prodVars, hand, report, history, shared, store, aired>>

\* apply_readings: one autocommitted write after another.
WriteReading ==
  /\ worker = "vote" /\ todo # <<>>
  /\ served' = [served EXCEPT ![Head(todo)] = aired[hand].text]
  /\ todo' = Tail(todo)
  /\ UNCHANGED <<hostVars, prodVars, worker, hand, report, history, shared,
                 raw, alerts, details, aired>>

Sim(id) == Ratio[<<aired[hand].text, id.text>>]
IsDuplicate == \E h \in history : Sim(h) >= TextDup
\* The best match; of equally good ones the deque's first, which is the oldest.
Closest == {h \in history : \A g \in history :
              Sim(g) < Sim(h) \/ (Sim(g) = Sim(h) /\ h.at <= g.at)}

\* Append to the deque(maxlen=text_history): a full one loses its oldest entry.
Remember(id) ==
  \/ /\ Cardinality(history) < TextHistory
     /\ history' = history \cup {id}
  \/ /\ Cardinality(history) >= TextHistory
     /\ \E old \in history : /\ \A h \in history : old.at <= h.at
                             /\ history' = (history \ {old}) \cup {id}

Considering == worker = "vote" /\ todo = <<>>

DropDuplicate ==
  /\ Considering /\ IsDuplicate
  /\ Settle("duplicate")
  /\ worker' = "check" /\ hand' = 0
  /\ UNCHANGED <<hostVars, prodVars, todo, report, history, shared, store>>

\* Mutant of Supersedes: the text of the matched report instead of its id.
SupersedesText(t) ==
  LET updated == {h \in Closest : Sim(h) >= TextUpdate /\ Product[h.text] = Product[t]}
  IN  IF updated = {} THEN {None} ELSE {h.text : h \in updated}

Supersedes(t) ==
  LET updated == {h \in Closest : Sim(h) >= TextUpdate /\ Product[h.text] = Product[t]}
  IN  IF updated = {} THEN {None} ELSE updated

\* build_report stamps the report and TextDeduper.consider remembers it, both
\* before anything is stored.
BuildReport ==
  /\ Considering /\ ~IsDuplicate
  /\ LET t == aired[hand].text
         id == [at |-> time, text |-> t] IN
       /\ \E sup \in Supersedes(t) : report' = [id |-> id, sup |-> sup]
       /\ Remember(id)
  /\ worker' = "insert"
  /\ UNCHANGED <<hostVars, prodVars, hand, todo, shared, store, aired>>

InsertReport ==
  /\ worker = "insert"
  /\ raw' = Upsert(raw, report)
  /\ Settle("stored")
  /\ worker' = "detail"
  /\ UNCHANGED <<hostVars, prodVars, hand, todo, report, history, shared,
                 alerts, details, served>>

IsNarrative == aired[hand].text \in Narratives

FinishReport ==
  /\ worker = "detail"
  /\ details' = IF IsNarrative THEN details \cup {report.id} ELSE details
  /\ worker' = "check" /\ hand' = 0 /\ report' = None
  /\ UNCHANGED <<hostVars, prodVars, todo, history, shared, raw, alerts, served, aired>>

-----------------------------------------------------------------------------
(* The process: its end, its start, and time. *)

\* The process is gone with everything it had not written.
ProcessEnds ==
  /\ Clear("down", "none")
  /\ history' = {}
  /\ aired' = [i \in DOMAIN aired |->
                 [aired[i] EXCEPT !.fate = IF @ = "open" THEN "lost" ELSE @]]
  /\ UNCHANGED <<hostVars, store>>

\* join(timeout=5) returned, the worker done or not, and main returns.
JoinReturns == prod = "join" /\ ProcessEnds

\* Mutants of WorkerDies: the exception is swallowed; it ends the thread alone.
WorkerCarriesOn ==
  /\ life < MaxLives /\ worker = "insert"
  /\ Settle("lost")
  /\ worker' = "check" /\ hand' = 0 /\ report' = None
  /\ UNCHANGED <<hostVars, prodVars, todo, history, shared, store>>
WorkerThreadDies ==
  /\ life < MaxLives /\ worker = "insert"
  /\ worker' = "exited"
  /\ UNCHANGED <<hostVars, prodVars, hand, todo, report, history, shared, store, aired>>

\* A write in _handle_transcript raised: _STOP.set(), then os._exit(1).
WorkerDies ==
  /\ life < MaxLives
  /\ \/ worker = "vote" /\ todo # <<>>
     \/ worker = "insert"
     \/ worker = "detail" /\ IsNarrative
  /\ ProcessEnds

\* Power loss, SIGKILL.
Killed == prod # "down" /\ life < MaxLives /\ ProcessEnds

\* SIGTERM or SIGINT, from anyone but systemctl: the handler sets _STOP.
Signalled ==
  /\ prod # "down" /\ ~stop /\ life < MaxLives
  /\ stop' = TRUE
  /\ UNCHANGED <<hostVars, prodVars, workerVars, queue, counts, store, aired>>

\* systemctl stop: a SIGTERM to the process, if there is one, and no restart after it.
StopService ==
  /\ wanted /\ life < MaxLives
  /\ wanted' = FALSE
  /\ stop' = (stop \/ prod # "down")
  /\ UNCHANGED <<time, life, prodVars, workerVars, queue, counts, store, aired>>

\* systemctl start waits for a stop under way; systemctl restart is the one and the other.
StartService ==
  /\ ~wanted /\ prod = "down"
  /\ wanted' = TRUE
  /\ UNCHANGED <<time, life, prodVars, workerVars, shared, store, aired>>

\* recent_raw_reports(text_history): the newest rows, alert records among them.
IsNewest(rows) ==
  /\ Cardinality(rows) <= TextHistory
  /\ rows = raw \/ Cardinality(rows) = TextHistory
  /\ \A r \in rows, s \in raw \ rows : s.id.at <= r.id.at

\* Restart=always, unless systemctl stopped it: run_live from the top, TextDeduper.prime skipping the alerts.
\* RestartSec is longer than the resolution of a stamp.
Restart ==
  /\ prod = "down" /\ wanted
  /\ life' = life + 1 /\ time' = time + 1
  /\ Clear("capture", "check")
  /\ \E rows \in SUBSET raw : /\ IsNewest(rows)
                              /\ history' = {r.id : r \in rows} \cap [at : Nat, text : Text]
  /\ UNCHANGED <<wanted, store, aired>>

Tick ==
  /\ time < MaxTime
  /\ time' = time + 1
  /\ UNCHANGED <<life, wanted, prodVars, workerVars, shared, store, aired>>

Told == Signalled \/ StopService \/ StartService
Hear == \E t \in Text : HearRepeat(t) \/ HearShed(t) \/ HearNovel(t)
Stt  == SttFails \/ SttBlank \/ \E c \in BOOLEAN : SttText(c)

WorkerStep ==
  \/ WorkerLoop \/ GetTimesOut \/ GetPill \/ GetSegment \/ Stt \/ WriteReading
  \/ DropDuplicate \/ BuildReport \/ InsertReport \/ FinishReport

Next ==
  \/ Hear \/ (\E h \in Header : EmitRaw(h)) \/ EmitAlert
  \/ StopSeen \/ ProducerRaises \/ JoinReturns
  \/ WorkerStep \/ WorkerDies
  \/ Killed \/ Told \/ Restart \/ Tick

Spec == Init /\ [][Next]_vars

\* The threads are scheduled, transcription ends (its subprocess has a wall-clock
\* bound), arecord delivers frames or fails, and systemd restarts a service that was not
\* stopped by hand.  Nothing that fails, nothing the station sends and nothing the
\* operator does is fair.
FairSpec ==
  /\ Spec
  /\ WF_vars(EmitAlert \/ StopSeen \/ JoinReturns \/ Restart)
  /\ WF_vars(WorkerStep)

-----------------------------------------------------------------------------
(* Properties. *)

Prio  == {PRIO_PILL, PRIO_ALERT, PRIO_NORMAL}
Route == {"repeat", "shed", "alert", "routine"}
Fate  == {"dropped", "open", "stored", "duplicate", "blank", "error", "lost"}
Report == [id : [at : Nat, text : Text], sup : Id \cup {None}]
Heard  == [text : Text, at : Nat, life : Nat, route : Route, fate : Fate]

HostType == time \in Nat /\ life \in Nat \ {0} /\ wanted \in BOOLEAN
ProdType ==
  /\ prod \in {"capture", "emit", "join", "down"}
  /\ burst \in [at : Nat, text : Header] \cup {None}
  /\ prod = "emit" => burst \in [at : Nat, text : Header]
  /\ gate \in Seq([text : Text, at : Nat])
  /\ nextSeq \in Nat /\ alertUntil \in Nat /\ recentRaw \subseteq Header
WorkerType ==
  /\ worker \in {"check", "wait", "stt", "vote", "insert", "detail", "exited", "none"}
  /\ hand \in Nat /\ todo \in Seq(Field)
  /\ report \in Report \cup {None}
  /\ worker \in {"insert", "detail"} => report \in Report
  /\ history \subseteq [at : Nat, text : Text]
SharedType ==
  /\ stop \in BOOLEAN
  /\ queue \subseteq [prio : Prio, seq : Nat, seg : Nat] /\ IsFiniteSet(queue)
  /\ counts \in [{"seg", "new", "repeat", "shed", "errors"} -> Nat]
StoreType ==
  /\ raw \subseteq [id : Id, sup : Id \cup {None}]
  /\ alerts \subseteq [id : [at : Nat, text : Header], life : Nat]
  /\ details \subseteq [at : Nat, text : Text]
  /\ served \in [Field -> Text \cup {None}]
AiredType == aired \in Seq(Heard)
\* Queue entries and the worker's hand point at segments that were heard.
Pointers ==
  /\ \A e \in queue : e.prio # PRIO_PILL => e.seg \in DOMAIN aired
  /\ worker \in {"stt", "vote", "insert", "detail"} => hand \in DOMAIN aired

\* Every variable stays in its range, and what a step is about to use exists.
TypeOK ==
  HostType /\ ProdType /\ WorkerType /\ SharedType /\ StoreType /\ AiredType /\ Pointers

\* Backpressure: however alert narratives and routine segments mix, never more
\* than stt_max_queue routine segments wait (main.py, the comment above the shed).
RoutineBacklogBounded ==
  Cardinality({e \in queue : e.prio = PRIO_NORMAL}) <= SttMaxQueue

\* No segment is lost, doubled or forgotten while the process lives: those let
\* through and not yet settled are exactly the queued ones and the one in hand.
SegmentsConserved ==
  /\ {i \in DOMAIN aired : aired[i].fate = "open"}
       = {e.seg : e \in {f \in queue : f.prio # PRIO_PILL}}
         \cup (IF worker \in {"stt", "vote", "insert"} THEN {hand} ELSE {})
  /\ worker = "stt" => \A e \in queue : e.seg # hand
  /\ \A e, f \in queue : e.seg = f.seg => e = f

\* Transcription order: within one priority class a segment is settled only after
\* every earlier one of the same process was taken (NWR updates must not be
\* overtaken by the version they replace).
AirOrderKept ==
  \A i, j \in DOMAIN aired :
    /\ i < j /\ aired[i].life = aired[j].life /\ aired[i].route = aired[j].route
    /\ aired[j].route \in {"alert", "routine"}
    /\ \E e \in queue : e.seg = i
    => \E e \in queue : e.seg = j

\* The spoken narrative is not shed: no segment heard within the priority window
\* of an alert this process has put in the alerts table was shed.
NarrativeNotShed ==
  \A i \in DOMAIN aired : aired[i].route = "shed" =>
    \A a \in alerts : /\ a.life = aired[i].life
                      /\ a.id.at < aired[i].at
                     => aired[i].at >= a.id.at + AlertWindow

\* Nothing is dropped as a duplicate of a report that is not in the store, across
\* failed inserts, crashes and priming.
DuplicateIsStored ==
  \A i \in DOMAIN aired : aired[i].fate = "duplicate" =>
    \E r \in raw : r.id.text \in Text /\ Ratio[<<aired[i].text, r.id.text>>] >= TextDup

\* Referential integrity under a crash at any point: alerts, alert details and
\* supersedes links point at stored reports, and a report supersedes an earlier
\* one of its own product type.
RowsHaveReports ==
  /\ {a.id : a \in alerts} \cup details \subseteq RawIds
  /\ \A r \in raw : r.sup # None =>
       /\ r.sup \in RawIds
       /\ r.sup.at <= r.id.at /\ r.sup # r.id
       /\ Product[r.sup.text] = Product[r.id.text]

\* The worker thread never dies inside a live process (the comment in
\* _stt_worker): it ends only once the process has been told to stop.
NoSilentWorkerDeath == worker = "exited" => stop

IsOpen(i) == i \in DOMAIN aired /\ aired[i].fate = "open"

\* Whatever reached the queue is settled in the end: transcribed, given up on, or
\* lost with its process.  (An outcome is final and MaxAired bounds the segments, so
\* this is the same as settling every one of them.)
QueuedIsSettled == <>[](\A i \in 1..MaxAired : ~IsOpen(i))

\* A process told to stop ends, even if the worker is in the middle of a transcription
\* or gone; then a fresh one hears again, unless the service was stopped by hand.
StopMeansRestart ==
  stop ~> \/ prod = "capture" /\ ~stop
          \/ prod = "down" /\ ~wanted

=============================================================================
