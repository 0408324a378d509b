# wxparser in TLA+

Models, model-checking runs and machine-checked proofs for wxparser, the offline
NOAA-weather-radio server in this repository. Every definition is translated from the
source; `PROJECT.json` ("map") names the lines behind each one.

To repeat the checks, in this directory: `tlc -config <X>.cfg <MC module>` for a run,
`tlapm <Y>Proofs.tla` for the proofs.

## 1. The system

Two long-running services share one PostgreSQL database; timers edit it from outside.

| Component | State it keeps | Operations | Talks to |
|---|---|---|---|
| frame stream (`capture.py`, `same.py`, `segment.py`) | retry budget; the SAME monitor's buffer, quiet count and memory of headers; the segmenter's pre-roll and buffer | restart arecord, tee each frame to the monitor and then to the segmenter, decode a burst once it is over, cut segments | producer thread, by one generator |
| capture service, producer thread (`main.py`, `fingerprint.py`) | novelty gate, segment counters, queue counter, alert priority window | drop repeats, shed, queue; store alerts | worker by a `PriorityQueue` and the `_STOP` event; database |
| capture service, STT worker (`main.py`, `stt.py`, `dedup.py`, `pipeline.py`, `store.py`) | segment in hand, text-dedup window, aggregators | transcribe, vote readings, drop duplicates, store the report, store an alert's details | database; `os._exit` on an unrecoverable error |
| aggregators (`extract.py`) | voters per field; the period in progress and the readout count of the forecast | majority vote over a bounded, ageing window | worker, rebuild |
| systemd (`deploy/wxparser.service`) | whether the service is wanted | `Restart=always`, but not after `systemctl stop` | starts the service, which primes itself from the database |
| database (`db.py`) | raw_reports (the source of truth), alerts, alert_details, city_conditions and its history, forecasts, almanac, heartbeat | autocommitted statements under one lock per process; a statement whose connection failed is repeated | everyone |
| query API (`api.py`) | none (reads only) | `/alerts`, `/conditions`, `/export`, `/stream`, `/health` ... | database |
| a mirror (`docs/USAGE.md` section 5) | its watermark, the rows it got | pages through `/export` | query API |
| rebuild (`reprocess.py`, nightly timer or `deploy/reprocess.sh`) | the records it read, its own aggregators | read the store, TRUNCATE the structured tables, replay | database, while the capture service is live |
| heartbeat (`health.py`) | counters and stamps | set, touch, flush from both threads; assess | file, database, gain control |
| gain control (`deploy/agc.py`, a timer) | none between runs | read the heartbeat, sample levels, turn the mixer one step | heartbeat file, sound card |
| tidying jobs (`deploy/`) | none | merge misspelt cities, delete junk, prune stale rows, fix terms, deploy | database, git |

What is hard about it: two threads around one queue with priorities, shedding and
shutdown; autocommitted statements with a process that may end between any two, and may
be repeated; a restart that rebuilds its memory from the store; a feed that pages six
tables by one watermark under a concurrent writer; jobs that rewrite the tables under
that same writer; a readout that loops, arrives in pieces and is voted on; a control loop
that sees the radio only through a heartbeat the radio itself keeps alive.
`PROJECT.json` ("hazards") lists these places line by line, with the properties that
cover them or the reason none does.

What makes each part correct: no frame of speech is lost or doubled, and a header is
raised once, before the speech that follows it; a segment is settled exactly once, in air
order per priority, and a spoken warning is neither delayed by routine audio nor shed;
whatever a crash interrupts, rows refer to stored reports and nothing is dropped as a
duplicate of a report that was lost; a process told to stop ends, and systemd's restart
brings a new one unless the service was stopped by hand; a mirror gets every row once and is told truthfully when it is done; the
structured tables are a function of the transcript store; what is served was lately on
the air, for the city and the period it was said of; `/health` never says ok of a service
that is not; the gain control finds a level and stays there.

## 2. Modules

| Module | Models | Proofs |
|---|---|---|
| `Frames` | one frame stream through the SAME monitor and the segmenter | `FramesProofs` |
| `Pipeline` | the capture service: producer, queue, worker, database writes, crash and restart | `PipelineProofs` |
| `SyncFeed` | abstract: what a sync feed promises | |
| `Export` | `/export`, the since-readers, the mirror, the concurrent writers; implements `SyncFeed` | `ExportProofs` |
| `Voter` | `_FieldVoter`: the rolling majority vote | `BestLeads`, in the modules of its users |
| `Forecast` | `ForecastAggregator` and the forecast table, over `Voter` | `ForecastProofs` |
| `Conditions` | `CityConditionsAggregator`, city_conditions, and the jobs that tidy it, over `Voter` | `ConditionsProofs` |
| `Rebuild` | `reprocess.py` against the live service, over `Voter` | `RebuildProofs` |
| `Heartbeat` | the heartbeat both threads flush, its file and its row, the verdict of `/health` | `HeartbeatProofs` |
| `Gain` | arecord's retry budget, the heartbeat, the gain control and the mixer | `GainProofs` |
| `MC...` | instances for TLC | |

How they fit together. `Frames` produces what `Pipeline` hears: a segment, or a header
(`EmitRaw`), in an order `HeadersAreRaised` fixes. `Pipeline` writes one row per field;
what is voted into the row is in `Conditions`, `Forecast` and, with the rebuild's replay,
in `Rebuild`, all three over `Voter`. `Export` reads what the two threads write, in
the order of their stamps. `Heartbeat` has the races of the flush that `Gain` takes for
one step.

### Frames

One action per frame (`Hear`) and one for the end of the stream. `_tee_to_same` is the
order in which `log` grows: the monitor's alerts, then the segment that ends at that
frame. A frame is quiet, voice, or a transmission of a header. `LooksLikeSame` keeps the
ratio test of the code (`20 * tones > 7 * all`). `Decodings` is the nondeterminism of
`decode`: it returns the first header of each bit alignment, so the first header of the
buffer and any of the others; an empty buffer has none, and is decoded to nothing. The
segmenter keeps frame numbers where the code keeps samples, which is what lets
`SpeechIsKept` follow each frame. That property supposes a pre-roll that is not empty and
shorter than the longest segment: without one the first loud frame is dropped, and a
pre-roll as long as a segment is cut before the speech it announces.

### Pipeline

One action per branch of `run_live`'s loop (`HearRepeat`, `HearShed`, `HearNovel`), per
statement of `_emit_alert` (`EmitRaw`, `EmitAlert`), per step of `_stt_worker` and
`_handle_transcript` (`WorkerLoop` ... `FinishReport`), and per way the process ends
(`JoinReturns`, `WorkerDies`, `Killed`). A database statement is one step, and the
process may end between any two. `Restart` is `run_live` from the top: everything in
memory is lost and the dedup window is primed from the newest rows.

`Signalled` is a SIGTERM or SIGINT from anyone but systemctl. `StopService` is `systemctl
stop` (`deploy/reprocess.sh` begins with it): the same signal to the process, but the
service is no longer `wanted`, and `Restart` needs it to be. `StartService` is the
operator's next command, which may never come; `systemctl restart` is the two in a row.

Abstractions. An utterance is a member of `Text`: whether the fingerprint gate takes it
for another (`Alike`), how similar the transcripts are (`Ratio`), its product type and
the fields it states are constants. The segmenter can deliver any text at any time.
Two reports of one text in one second share an id, as in the code. A gate entry
carries the time of the step, as `seen_at` does. `aired`, and the `life` of an alert row,
are auxiliary: nothing reads them but properties and the segment an entry points at.
Left out: `--once`, `process_wav`, heartbeat flushes (module `Heartbeat`; their errors are
swallowed, so they cannot disturb the rest), the webhook (likewise), printing.

### SyncFeed and Export

`Request`, one `ReadSection` per table in the code's order, `Respond` (`_sync_window`),
and the writers' steps between them. A page is any set the SQL may return: oldest
first, ties in any order, one lookahead row. Writers follow the order of stamps in the
code: the readings and the alert detail of a transcript carry the time its handling
began, the report the time it was built, and each row is inserted later than it is
stamped. `late` (auxiliary) holds the rows inserted behind the watermark or behind a
read; `Limit` is the page size per section (`/stream` reads alerts in smaller pages than
the rest). `/stream` is the same loop with the watermark in the server. Offsets, and the
forecasts and almanac sections, whose writes look like those of the observations, are left
out of the instances, not of the module: `Section` and `Order` are constants.

`SyncFeed` is what all this amounts to: rows are published, and a delivery moves the
mirror's watermark at one instant over everything up to it. Under the mapping that leaves
`store`, `late`, `since` and `got` as they are and forgets requests and pages, `Respond`
is a delivery, `InsertRow` a publication, and everything else a stutter (`IsSyncFeed`).

### Voter, Forecast and Conditions

`Voter` has `add` and `best` of `_FieldVoter`, with depth, staleness and the tie-break.

In `Forecast` the station reads a text of clauses in a loop (`Readouts`), which may be
revised; the worker gets any cut of it, and some cuts are lost (`Lose` stands for the gate,
shedding, failed transcription and the confidence floor). `BeginsSpan` and `PeriodAt` are
`_split_spans`, `Routes` is `_route_fields`, `Hear` is `update`, and an issuance is written
with one `WriteRow` per period, under the area the station named last. That name may be
misheard: a new name alone is no change of the forecast, so the votes may go on being
served under the old one, and an issuance once written under a misheard name stays in
the table. A value carries the period it was said of, which the code does not
know: that is how `OwnPeriod` tells a value on the wrong day. `silence`, `gap` and `torn`
are auxiliary; `torn` marks the values a restart could not prime, because the process died
while it wrote them or had written them under another area.

In `Conditions` a segment is a home observation or a roundup of (name, temperature) pairs.
`Names` folds and resolves the names, `Peers` drops outliers, and only then is the home
city, which the service measures itself, left out (`IsHome`): its own temperature helps to
find the outliers. `Update` votes what is left, `Record` is one upsert, applied once or, after a lost connection, twice (`_run`). The merge of a
misspelt city is one step per statement (`MergeUpdate`, `MergeDelete`, `MergeRename`), the
good and the misspelt row both being written by the service meanwhile; the running service
knows fewer spellings (`Folds`) than the job (`Corrections`). `DropJunk` and `Prune` are
single statements. `recent`, `truth` and `split` are auxiliary. The code does go wrong in
small ways, and the model says by how much instead of looking away. `truth` has, beside the
readings recorded and the newest of them, the `drift` of the count: one more for a repeated
statement, one fewer for a reading in the merge's gap (between UPDATE and DELETE), the
misspelt row once more for a job that dies there or a good row pruned there (`Learn`,
`Rejoined`). The tables must be off by exactly that much. `split` is set while a wind stands
without its speed because the process died between the two, and is cleared by the next
speed.

The rebuild is no writer of this module. It truncates city_conditions and refills it with
votes of its own while the service goes on, and an upsert sets value and `last_seen`
unconditionally (`db.py:347-350`). `Rebuild` has that for the one row of a field. What two
rows do to each other is in neither: the wind and the speed of the replay may cross the
service's, and then disagree until the next wind is aired; the sightings of a city after a
rebuild are those of the replay. The properties of `Conditions` are about the time between two
rebuilds.

### Rebuild

One field with its voters (live and replayed), of the conditions or of the almanac
(`field`: the almanac's votes are not timed), spoken warnings and SAME headers; `alerts`
and `alert_details`, both keyed by the record's id, are one variable `keyed`. The rebuild
is `ReadStore`, `ClearTables` (one TRUNCATE), `Replay` record by record, `Finish`; it may
die at any point, and so may the service. By hand the service is stopped first. `exposed`
and `quiet` are auxiliary. Left out: `--into`, `correct_terms`, the forecast table (module
`Forecast` has its writer), a second rebuild at the same time (a oneshot unit does not
overlap with itself).

### Heartbeat

The two threads are reduced to the calls that reach the heartbeat; each `flush` is one
step per statement (`ReadSize` ... `WriteRow`), because only the copy is taken under the
lock. `health.json.tmp` and `health.json` are inodes: opening the temporary file empties
what the other thread has written (`OpenTmp`), a descriptor follows its file through
`os.replace` (`Moved`), the second replace finds nothing, and a shorter copy written
over a longer one leaves its tail (`Over`). `Status` is `assess` behind `_ep_health`'s
choice of row or file. The nightly rebuild truncates `pipeline_health` with the other tables
(`Truncate`), beside the live service, and its replay may leave the temperature's `last_seen`
at any time of the past (`ReplayRecord`; in which order is the business of `Rebuild`). Until the
next flush there is then no row and the file counts, which may be torn or older than the
row was. `truth` and `stuck` are auxiliary: what happened (`swept`: a TRUNCATE since the last
segment), against which the verdict is judged. `HeardIsNotDown` excepts the time from a
TRUNCATE to the next row; `OkIsTrue` and `WedgedIsLoud` need no exception. Timing assumptions, in `Tick`: the lock is never held for a tick,
a flush takes `FlushTicks` at most. Left out: the counters and audio levels that
`assess` does not read.

### Gain

A loop through four programs: `stream_frames` with its budget (`Read`, `Ends`), a segment
that clears the VAD floor only if the gain is high enough (`Segment`), the published
heartbeat with the ages of its two stamps, and `agc.py` (`Run`, `Decide`, `Turn`) on its
timer. A tick is a minute, levels are tenths of a decibel. The mixer is set by someone else
up to `MaxDrift` times (`Drift`). `measured`, `trend`, `hasty`, `deafFor` and `fruitless`
are auxiliary. A missing mixer control and `--dry-run` are left out.

## 3. Runs

All bounds are constants named in the configurations and in the guards.

| Run | Configuration | Shows |
|---|---|---|
| routing | `PipelineRouting` | `RoutineBacklogBounded`, `SegmentsConserved`, `AirOrderKept`, `NarrativeNotShed` |
| crash | `PipelineCrash` | `TypeOK`, `DuplicateIsStored`, `RowsHaveReports`, `QueuedIsSettled`, `StopMeansRestart` |
| pages | `ExportPages` | `TypeOK`, `OnlyLateRowsMissed`, `DrainedMeansAll`, `MorePagesAdvance`, `CatchesUp`, `IsSyncFeed` |
| never_miss (violation) | `ExportNeverMiss` | `NeverMiss` does not hold under a concurrent writer |
| night | `RebuildNight` | `TypeOK`, `OnlyExposedMissing`, `NoDoubleCount`, `RebuiltIsProjection`, `HealsNightly` |
| live_rebuild (violation) | `RebuildLive` | `RebuildKeepsAlerts` does not hold when capture is live |
| pulse | `HeartbeatPulse` | `TypeOK`, `OkIsTrue`, `WedgedIsLoud`, `HeardIsNotDown` |
| forecast | `ForecastVotes` | `TypeOK`, `ServedIsVoted`, `RestartKeepsForecast`, `StoppedValuesAgeOut`, `OwnPeriod` |
| upkeep | `ConditionsUpkeep` | `TypeOK`, `SightingsAreAirings`, `NewestSurvives`, `RecordedWasAired`, `WindAgrees` |
| gain | `GainLoop` | `TypeOK`, `NoHunting`, `GivesUpOnBudget` |
| gain_deaf (violation) | `GainDeaf` | `DeafRecovers` does not hold with the default limits |
| frames | `FramesStream` | `TypeOK`, `SpeechIsKept`, `HeadersAreRaised` |

Why the bounds suffice.

* *routing*: a queue cap of one and three segments fill the queue, shed, and still mix
  an alert with a routine segment; three ticks let the gate's TTL (1) and the priority
  window (2) both open and close. No restarts, which the routing does not depend on.
* *crash*: three segments are an original, an update and a repeat; a dedup window of one
  evicts; two lives allow one crash, signal or stop by hand anywhere and everything after
  it. The clock moves
  with the restart only, as reports of one second are the hard case for ids.
* *pages*: three tables, pages of two rows and of one, both writers, three products over two
  seconds: truncated pages of different tables in one response, seconds wider than a
  page, several pages per drain. *never_miss* adds the readings, in pages of one.
* *night*: four utterances with a voter of depth three and staleness two: votes fall out
  of the window by depth and by age, ties occur, and one death hits either process
  anywhere.
* *pulse*: two segments let both threads flush at once, in every interleaving, and leave
  one segment in hand and one waiting; three ticks exceed every threshold (one or two);
  the one upset is a failed write of either leg, a death with its restart, or a rebuild. The
  theorems cover any number of them together.
* *forecast*: the morning and the evening text of one day share a period and state it
  differently, and the evening's area is misheard; cuts of up to three clauses of five split
  every paragraph; one segment lost, one death anywhere; values outlive one readout, and
  the loop goes on without bound.
* *upkeep*: a city with a spelling the service knows and one it does not, a slot city, a name
  that is none, an outlier and an impossible value; three segments over four instants, with
  votes stale after one and rows pruned after one; one death or repeated statement, anywhere,
  and readings and prunes in the gap of every merge.
* *gain*: stations from inaudible at any gain to clipping at the lowest, with the real steps
  and the real decision thresholds; windows of three samples; one drift. *gain_deaf* has
  one audible station and the real limits, five minutes and five minutes, with a run every
  three.
* *frames*: nine frames are longer than a burst with its pauses, a whole buffer and two
  segments; every stream of quiet, voice and two headers of that length is tried. The two
  headers are interchangeable, so their symmetry is sound.

Fairness, and why the code justifies it.

* `Pipeline`: on `WorkerStep`, `EmitAlert`, `StopSeen`, `JoinReturns` and `Restart`. Threads
  are scheduled, transcription has a wall-clock bound (`stt.py:122`), arecord
  delivers frames or fails, and `Restart=always` restarts a service that was not stopped by
  hand. Hearing, failing, signals, the operator's stop and start, and the clock are not fair:
  `StopMeansRestart` promises a process that hears again, or one that is gone because the
  service is not wanted. The last life is not faulted, so that the run can settle.
* `Export`: the mirror polls for ever, the clock runs, and a product begun is written.
  Requests may fail up to the last second of the clock and not after it: `CatchesUp`
  speaks of a network that recovers.
* `Rebuild`: the timer's and the rebuild's own progress, and that a thread writes the row
  whose record it has stored. Nobody has to hear, die or be restarted.

Three runs end in a counterexample; each states a sentence of the repository and is
listed under "findings".

* `NeverMiss`: `docs/USAGE.md:242` promises that a mirror never misses a row. A row
  inserted after its table was read, or stamped before the watermark it is inserted
  behind, is missed. `OnlyLateRowsMissed` says that nothing else is.
* `RebuildKeepsAlerts`: the unit file says a live rebuild exposes only counters. An alert
  stored between the read and the TRUNCATE is gone from `/alerts` until the next night.
  `OnlyExposedMissing` and `HealsNightly` say what does hold.
* `DeafRecovers`: `deploy/wxparser-agc.timer:5` says that a deaf feed recovers within a
  few runs. Only segments and transcriptions flush the heartbeat; when it is old enough for
  the feed to count as deaf it is old enough to be ignored, so the gain is never raised.

Deadlock is checked except in three runs: *pulse*, *upkeep* and *frames* end when their
clock, segments or frames run out.

## 4. Proofs

TLAPS proves the following for every value of the constants that satisfies the named
assumptions of the module: types of the parameters, caps that are at least one, no value
called `None`; `LimitAssumption` (every page holds a row); `SelfSimilar` (a transcript is a
duplicate of itself, unless `normalize` leaves nothing of it); and, in
`HeartbeatAssumption`, that the heartbeat goes stale no later than the worker counts as
wedged.

* `Pipeline`. `TypeCorrect`: `Spec => []TypeOK`. `Pointers`, its last conjunct, is what
  makes it more than types: queue entries and the worker's hand point at segments heard.
  `BacklogIsBounded`: the priority of the entry `HearNovel` adds
  decides whether the cap was tested, and no other action adds a routine entry.
  `WorkerOutlivesService`: with the strengthening that a pill in the queue means the stop
  flag is set (`PillMeansStop`), since the pill is one of the two ways the worker ends.
  `NarrativeIsNotShed`: with the strengthening that every alert of this process keeps the
  window open long enough (`WindowOpen`) and that none of them lies in the future.
  `RowsReferToReports`: `RowsInv` adds what the threads hold between two statements: the
  record an alert row or a detail is about to refer to is stored, and the dedup window
  knows stored reports only, but for the one being inserted. It needs `SelfSimilar`: a report
  that superseded itself would have been dropped as a duplicate of itself.
  `DropsOnlyStored`: from the same invariant, since the window is what a transcript is
  compared with, and rows are never deleted.
  `SegmentsAreConserved`: `ConservedInv` is the property segment by segment, with what the
  pill needs: it is no segment, and it is queued after the last one, when the producer has
  left its loop. `AirOrderIsKept`: `OrderInv` says that among the segments queued the
  tie-breaking counter grows with the order on the air, and that the priority of an entry
  is still the one its segment was routed by; so the entry the worker takes is the earliest
  of its priority.
* `Export`. `TypeCorrect`, `FeedIsLossless`, `FeedNeverRepeats`, `FeedDrains`,
  `FeedAdvances`: from one inductive
  invariant `FeedInv`: types, `Complete` (what a section's page and lookahead say about
  the rows not read), rows received lie at or behind the watermark, and
  `OnlyLateRowsMissed` itself. `Complete` is needed because the writers go on between
  the reads: it speaks of the rows that are not late. `ExportIsSyncFeed`: initial states
  map to initial states and, under `FeedInv` and the numbering of rows, every step to a
  step of `SyncFeed` or a stutter.
* `Rebuild`. `NothingElseIsMissing`: inductive with the ranges of five variables and the
  fact that the worker has no row to write while it holds a transcript.
  `AiringsCountOnce`: `CountInv` says that what the tables count and what the replay has
  yet to count are different airings: sightings plus uncounted records never exceed the
  votes cast, and stored readings plus the one in hand do not either. `TypeCorrect`: both
  deques stay within their depth (`Deques`). `RebuildProjects`, an action property: the
  `Finish` of an undisturbed rebuild leaves a function of the store. `Undisturbed` says of
  the replay half done that it is the oldest records that are done, that the tables hold
  what these say, and that the deque holds their latest, newest last (`Matches`); `Stamps`,
  that no two readings are of one instant, so that "latest" is one record. At the end,
  `BestLeads` says which value wins, and the vote by position is the vote by stamp.
* `Heartbeat`. `OkNeverLies`: `OkIsTrue` from `BackedInv`: a copy in a thread's hand, in
  either file or in the row claims nothing later than the truth (`AllBacked`), the truth
  lies in the past, and a thread runs only in a running process. The invariant says nothing
  of which copy is published, so it stands however the copies race. `TypeCorrect` says
  that a thread that writes has a copy to write. `WedgedIsReported`: `StuckInv` says of a
  backlog stuck since an earlier tick that any size or depth on its way into a copy was
  read in this tick and is large, and that no copy tells of a transcription after that
  moment; it uses `HeartbeatStale <= SttWedged`, without which the recent copy could be one
  of before the backlog. `HeardIsNotCalledDown`: `HeardInv` bounds the age of the copy a
  thread writes by `FlushTicks`, and puts the producer's after the last segment; a TRUNCATE takes
  the row away, and the next one written is such a copy again.
* `Gain`. `TypeCorrect`: the mixer stays between its end stops, in whole steps
  (`TurnsWithinRails`), with what the budget allows in each state. `GivesUpOnlyOnBudget`:
  `BudgetInv` says that failures exceed the fruitless arecords in a row by at most the one
  that delivered frames before it ended. `NeverHunts`: under the named hypothesis `DeadBand`,
  that between the levels that are raised and those that are lowered there is room for one
  step of the mixer. The defaults of `agc.py` meet it for programme with a crest of up to
  23 dB; without it the claim is false. `MeasuredInv`: between two changes of the gain every
  sample is of the present level. `HuntInv`: a gain that has only gone up is not above what is
  lowered, one that has only gone down is not below what is raised. A step up or down is two
  rungs of one ladder (Boost first, Capture between its limits), so a step back is decided
  on a level the first step cannot have reached.
* `Frames`. `TypeCorrect`. `SpeechKept`: `SpeechInv` says that the frames held, in the
  pre-roll or in the segment in the making, are the latest ones without a hole
  (`HeldInv`), that segments are runs of frames before those, one after another
  (`RunsInv`), that a dropped frame is in none of them (`DroppedInv`), and that no loud
  frame is missing (`LoudInv`). `HeadersRaised`: `BurstInv` relates the monitor's quiet count
  to the stream itself: since the last window with the tones, while `same_silence_s` has
  not passed, it is capturing and has counted every frame; `RaisedInv` relates its memory
  to the log.
* `Conditions`. One invariant in five parts for five theorems. `TypeInv`. `CountInv`
  (`SightingsCounted`): between the UPDATE and the DELETE of a merge the misspelt row counts
  in the good one and not beside it (`InMerge`), so that what a reading or a prune in the gap
  takes away, and what a job that dies there brings back, is its sightings. `NewestInv`
  (`NewestKeeps`): no row that counts is newer than the newest reading of its city, and one as
  new has a value read then; a row in the gap is not among them, and when it comes to count
  again the newest reading is the newer of the two (`NewestRejoins`). `AiredInv` (`RecordedAired`): every vote young enough to count
  was aired, with its value and at its time; a primed vote is dated before any broadcast and
  counts beside none. `WindInv` (`WindsAgree`): wind and speed come last in what is to be recorded, and
  while the wind is recorded and its speed is not, the speed to come is that of the wind
  in the table; a death in between sets `split`.
* `Forecast`. `TypeCorrect`; `ServesVotes` from `IssuedInv`: while an issuance is written, the
  rows written are what the votes say and the others are missing, and before the first
  row all of what they say is still to be written. `RestartKeeps` from `KeptInv`: a value stated
  lately has a vote that the aggregator takes for no older than it is, or is `torn`; a
  restart primes the votes from the rows and thereby makes every value younger.
  `StoppedAgeOut` from `AgedInv`: in the first life the age the aggregator keeps is the age.
  `OwnPeriodKept`: under the named hypothesis `TextsInOrder`, values land on the period they
  were said of. The hypothesis is what the code relies on and the texts of one day have:
  a text begins with the area, a value stands under the header of its period, and before
  a header stands that of its predecessor, or the predecessor has a name no text uses
  ("Tonight" comes before "Thursday", whose predecessor is called "Wednesday Night"). TLC
  checks that the two readouts of the run meet it. `PlaceInv`: the period in progress is one
  of the texts', and unless a segment was lost it is the one opened last before the place
  the station is at. `OwnValue` puts a clause of a segment at its place in the looping text
  (remainder arithmetic) and finds its header there; `FewRouted` carries "no vote more for
  a foreign period" through the recursion of the routing.
* `_FieldVoter`. `BestLeads`: whatever the deque, its depth and the staleness, the value
  given was voted by a sample that counts, none has more such votes, and no sample of a
  value with as many was heard after it. A deque may be of any length, so this rests on
  induction, which is reached through the least element of a set of numbers
  (`LeastNat`, `SetInduction`, `BoundedInduction`); `Recursion` turns it into the existence
  of the recursive functions and folds of the models, so that what they yield can be
  unrolled. Each of `RebuildProofs`, `ConditionsProofs`, `ForecastProofs` and `FramesProofs`
  begins with those of these lemmas that it cites.

Only model-checked: the liveness properties `QueuedIsSettled`, `StopMeansRestart`,
`CatchesUp` and `HealsNightly`, for fairness is beyond TLAPS here. Every invariant and every
action property of a passing run is a theorem. Two of them have a hypothesis beyond the
assumptions on the constants, `DeadBand` and `TextsInOrder`; both are defined beside the
property, and the runs that check it evaluate them (`MCGain`, `MCForecast`).

What the proofs changed in the models. In `Forecast` a second area showed that an issuance
under a misheard name outlives its text, so `ServedIsVoted` speaks of some area and
`StoppedValuesAgeOut` of one. In `Conditions` the home city takes part in the outlier test
before it is left out. In `Frames` an empty buffer decodes to nothing.

## 5. Not modelled

* Query readers of `api.py` other than the feed, and the readers of `db.py` behind them:
  stateless selections.
* Signal processing (fingerprints, AFSK, DSP), whisper, the regular expressions and lookup
  tables of the extractors: text and numbers in the large. Their outcomes are constants or
  nondeterministic choices of the models.
* `trust.py`, `verify.py`, `formats.py`, the audits: pure functions and reports.
* `notify.py`: a best-effort POST whose errors are swallowed.
* Configuration, profiles, term tables: the CONSTANTS of the modules.
* `fix_stt_terms.py`, `revote_forecast.py`: text replacement over stored rows and a one-off
  repair. `auto_deploy.sh`, `install.sh`, `setup-postgres.sh`: shell around git and systemctl.
* The dates of forecast periods: `period_window` dates a period when it is read, by the
  local date of its issuance. "Thursday" in an issuance written on Thursday is next
  week's, also when the station still reads Wednesday evening's text and meant that day.
  The rows of `Forecast` carry the period's name, not its date.
* A rebuild beside `Conditions`: see there.
* The depth of the almanac's vote in days: fifteen untimed votes outlast a daily value
  by as many airings as it takes to outvote it. `Rebuild` has the untimed vote, not the days.

## 6. Plan

Done, in this order: `Pipeline`, `Export`, `Voter` and `Rebuild`, `Heartbeat`, `SyncFeed`,
`Forecast`, `Conditions`, `Gain`, `Frames`, with the proofs above.

Left:

1. That a lost segment does no more than its gap: what `OwnPeriod` excludes, bounded by the
   number of segments lost.
2. Texts of several days, which `TextsInOrder` leaves out: when one text's "Tonight" is
   another's "Wednesday Night", `_period_predecessor` names a period the station has not
   opened in this text, and what stands before the header is voted there.
