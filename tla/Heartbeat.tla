------------------------------ MODULE Heartbeat ------------------------------
(***************************************************************************)
(* wxparser/health.py: the liveness state that the producer and the STT    *)
(* worker of the capture service share, how each flushes it to             *)
(* out_dir/health.json and to the database, and the verdict /health makes  *)
(* of it.                                                                  *)
(*                                                                         *)
(* flush copies the state under the lock and writes the copy outside it,   *)
(* so that the two threads meet in the temporary file and in the row.      *)
(* What the threads do otherwise is reduced to the calls that reach the    *)
(* heartbeat; counters and levels that assess does not read are left out.  *)
(* The nightly rebuild truncates the row and the readings beside them; the *)
(* order of its replay is the business of Rebuild.                         *)
(* Times are in ticks of the clock, an age is a difference of two.         *)
(***************************************************************************)
EXTENDS Integers

CONSTANTS
  HeartbeatStale, AudioSilent, NovelStale, SttWedged, ReadingsStale,  \* config.health_*_min
  WedgedQueue,  \* config.health_stt_wedged_queue
  MaxQueue,     \* config.stt_max_queue
  FlushTicks,   \* timing assumption: the longest a flush takes
  MaxTime,      \* bound: the clock
  MaxSegments,  \* bound: segments heard
  MaxUpsets,    \* bound: failed writes, deaths of the process and rebuilds, together
  None,         \* JSON null, no file, no row
  Empty,        \* content of a file just opened for writing
  Torn          \* content of a file that is no JSON

Thread  == {"producer", "worker"}
Stage   == {"off", "ready", "stt", "handle", "size", "set", "flush", "open", "write", "replace", "row"}
Stamp   == Nat \cup {None}
State   == [start : Nat, segment : Stamp, novel : Stamp, stt : Stamp, depth : Nat]
Copy    == [at : Nat, state : State]
Content == Copy \cup {None, Empty, Torn}

Writing == {"open", "write", "replace", "row"}   \* the stages after the copy

ASSUME HeartbeatAssumption ==
  /\ {HeartbeatStale, AudioSilent, NovelStale, SttWedged, ReadingsStale, WedgedQueue} \subseteq Nat
  /\ {FlushTicks, MaxTime, MaxSegments, MaxUpsets} \subseteq Nat /\ MaxQueue \in Nat \ {0}
  /\ HeartbeatStale <= SttWedged
  /\ {None, Empty, Torn} \cap (Nat \cup Copy) = {} /\ None # Empty /\ None # Torn

VARIABLES
  now, segments,
  faults,   \* failed writes and deaths
  rebuilds,
  up,       \* the capture process runs
  pc,       \* per thread, what it does next
  queue,    \* segments waiting for STT
  size,     \* per thread, the queue size it read
  mem,      \* Heartbeat._d
  copy,     \* per thread, the copy it is flushing
  target,   \* per thread, the file it has open: "tmp", "file" or "gone"
  tmp,      \* content of health.json.tmp
  file,     \* content of health.json
  row,      \* table pipeline_health
  reading,  \* last_seen of the primary city's temperature
  truth,    \* auxiliary: when the process last ran, what was last heard, and whether the
            \*   tables were truncated since
  stuck     \* auxiliary: since when the backlog exceeds WedgedQueue and nothing was transcribed

bounds == <<now, segments, faults, rebuilds>>
tables == <<row, reading>>
disk   == <<target, tmp, file>>
vars   == <<bounds, up, pc, queue, size, mem, copy, target, tmp, file, row, reading,
            truth, stuck>>

Fresh(t) == [start |-> t, segment |-> None, novel |-> None, stt |-> None, depth |-> 0]

Init ==
  /\ now = 0 /\ segments = 0 /\ faults = 0 /\ rebuilds = 0
  /\ up = TRUE
  /\ pc = [producer |-> "flush", worker |-> "off"]
  /\ queue = 0 /\ size = [t \in Thread |-> 0]
  /\ mem = Fresh(0)
  /\ copy = [t \in Thread |-> None]
  /\ target = [t \in Thread |-> "gone"]
  /\ tmp = None /\ file = None /\ row = None
  /\ reading = None
  /\ truth = [alive |-> 0, heard |-> None, novel |-> 0, swept |-> FALSE]
  /\ stuck = 0

Goto(t, stage) == pc' = [pc EXCEPT ![t] = stage]

-----------------------------------------------------------------------------
(* The calls on the shared state: touch, set, and the copy flush takes, each *)
(* under the lock.                                                           *)

\* The producer, per segment; a routine segment is shed when the queue is full.
Hear(queued) ==
  /\ pc["producer"] = "ready" /\ segments < MaxSegments
  /\ segments' = segments + 1
  /\ mem' = [mem EXCEPT !.segment = now, !.novel = IF queued THEN now ELSE @]
  /\ truth' = [truth EXCEPT !.heard = now, !.novel = IF queued THEN now ELSE @, !.swept = FALSE]
  /\ queue' = queue + (IF queued THEN 1 ELSE 0)
  /\ Goto("producer", "size")
  /\ UNCHANGED <<now, faults, rebuilds, up, size, copy, disk, tables>>

HearRepeat == Hear(FALSE)
HearShed   == queue >= MaxQueue /\ Hear(FALSE)
HearNovel  == Hear(TRUE)    \* whatever the size: it may be an alert's narrative

Idle == <<bounds, up, size, copy, disk, row, truth>>

GetSegment ==
  /\ pc["worker"] = "ready" /\ queue > 0
  /\ queue' = queue - 1
  /\ Goto("worker", "stt")
  /\ UNCHANGED <<Idle, mem, reading>>

SttFails ==
  /\ pc["worker"] = "stt"
  /\ Goto("worker", "size")
  /\ UNCHANGED <<Idle, queue, mem, reading>>

SttOk ==
  /\ pc["worker"] = "stt"
  /\ mem' = [mem EXCEPT !.stt = now]
  /\ Goto("worker", "handle")
  /\ UNCHANGED <<Idle, queue, reading>>

\* _handle_transcript, or nothing for a blank one
Handle ==
  /\ pc["worker"] = "handle"
  /\ reading' \in {reading, now}
  /\ Goto("worker", "size")
  /\ UNCHANGED <<Idle, queue, mem>>

\* (a bug: the size without the segment just queued)
ReadSizeBehind(t) ==
  /\ pc[t] = "size"
  /\ size' = [size EXCEPT ![t] = queue - 1]
  /\ Goto(t, "set")
  /\ UNCHANGED <<bounds, up, queue, mem, copy, disk, tables, truth>>

\* the argument of hb.set(queue_depth=q.qsize())
ReadSize(t) ==
  /\ pc[t] = "size"
  /\ size' = [size EXCEPT ![t] = queue]
  /\ Goto(t, "set")
  /\ UNCHANGED <<bounds, up, queue, mem, copy, disk, tables, truth>>

SetDepth(t) ==
  /\ pc[t] = "set"
  /\ mem' = [mem EXCEPT !.depth = size[t]]
  /\ size' = [size EXCEPT ![t] = 0]
  /\ Goto(t, "flush")
  /\ UNCHANGED <<bounds, up, queue, copy, disk, tables, truth>>

TakeCopy(t) ==
  /\ pc[t] = "flush"
  /\ copy' = [copy EXCEPT ![t] = [at |-> now, state |-> mem]]
  /\ Goto(t, "open")
  /\ UNCHANGED <<bounds, up, queue, size, mem, disk, tables, truth>>

-----------------------------------------------------------------------------
(* The writes, outside the lock.  An open file is an inode: os.replace moves *)
(* the one the other thread may be writing to.                               *)

Flushing == <<bounds, up, queue, size, mem, reading, truth>>

OpenTmp(t) ==
  /\ pc[t] = "open"
  /\ tmp' = Empty
  /\ target' = [target EXCEPT ![t] = "tmp"]
  /\ Goto(t, "write")
  /\ UNCHANGED <<Flushing, copy, file, row>>

\* Both write from offset 0: what a shorter copy leaves of a longer one stays.
Over(old, new) == IF old = Empty THEN {new} ELSE {new, Torn}

WriteTmp(t) ==
  /\ pc[t] = "write"
  /\ \/ target[t] = "tmp" /\ tmp' \in Over(tmp, copy[t]) /\ UNCHANGED file
     \/ target[t] = "file" /\ file' \in Over(file, copy[t]) /\ UNCHANGED tmp
     \/ target[t] = "gone" /\ UNCHANGED <<tmp, file>>
  /\ target' = [target EXCEPT ![t] = "gone"]
  /\ Goto(t, "replace")
  /\ UNCHANGED <<Flushing, copy, row>>

Moved(where) == IF where = "tmp" THEN "file" ELSE "gone"

\* The file is gone when the other thread has replaced it first: an OSError.
Replace(t) ==
  /\ pc[t] = "replace"
  /\ \/ /\ tmp # None
        /\ file' = tmp /\ tmp' = None
        /\ target' = [u \in Thread |-> Moved(target[u])]
     \/ tmp = None /\ UNCHANGED disk
  /\ Goto(t, "row")
  /\ UNCHANGED <<Flushing, copy, row>>

\* The worker thread is started after the first flush.
Return(t) ==
  /\ copy' = [copy EXCEPT ![t] = None]
  /\ IF pc["worker"] = "off" THEN pc' = [u \in Thread |-> "ready"] ELSE Goto(t, "ready")

WriteRow(t) ==
  /\ pc[t] = "row"
  /\ row' = copy[t]
  /\ Return(t)
  /\ UNCHANGED <<Flushing, disk>>

Failing == faults + rebuilds < MaxUpsets /\ faults' = faults + 1

FileFails(t) ==
  /\ pc[t] \in {"open", "write", "replace"} /\ Failing
  /\ target' = [target EXCEPT ![t] = "gone"]
  /\ Goto(t, "row")
  /\ UNCHANGED <<now, segments, rebuilds, up, queue, size, mem, copy, tmp, file, tables, truth>>

RowFails(t) ==
  /\ pc[t] = "row" /\ Failing
  /\ Return(t)
  /\ UNCHANGED <<now, segments, rebuilds, up, queue, size, mem, disk, tables, truth>>

Flush(t) ==
  \/ ReadSize(t) \/ SetDepth(t) \/ TakeCopy(t)
  \/ OpenTmp(t) \/ WriteTmp(t) \/ Replace(t) \/ WriteRow(t) \/ FileFails(t) \/ RowFails(t)

-----------------------------------------------------------------------------
(* The process and the clock. *)

Dies ==
  /\ up /\ Failing
  /\ up' = FALSE
  /\ pc' = [t \in Thread |-> "off"]
  /\ queue' = 0 /\ size' = [t \in Thread |-> 0]
  /\ copy' = [t \in Thread |-> None] /\ target' = [t \in Thread |-> "gone"]
  /\ UNCHANGED <<now, segments, rebuilds, mem, tmp, file, tables, truth>>

Restart ==
  /\ ~up
  /\ up' = TRUE
  /\ pc' = [producer |-> "flush", worker |-> "off"]
  /\ mem' = Fresh(now)
  /\ truth' = [truth EXCEPT !.alive = now, !.novel = now]
  /\ UNCHANGED <<bounds, queue, size, copy, disk, tables>>

\* No time passes between reading the size and taking the copy, which waits for
\* nothing but the lock; the writes take FlushTicks at most.
Punctual(t) ==
  /\ pc[t] \notin {"size", "set", "flush"}
  /\ pc[t] \in Writing => now < copy[t].at + FlushTicks

Tick ==
  /\ now < MaxTime
  /\ \A t \in Thread : Punctual(t)
  /\ now' = now + 1
  /\ truth' = [truth EXCEPT !.alive = IF up THEN now + 1 ELSE @]
  /\ UNCHANGED <<segments, faults, rebuilds, up, pc, queue, size, mem, copy, disk, tables>>

-----------------------------------------------------------------------------
(* A rebuild, run nightly beside the service or by hand. *)

Elsewhere == <<now, segments, faults, up, pc, queue, size, mem, copy, disk>>

\* db.clear(): one TRUNCATE, of pipeline_health too
Truncate ==
  /\ faults + rebuilds < MaxUpsets /\ rebuilds' = rebuilds + 1
  /\ row' = None /\ reading' = None
  /\ truth' = [truth EXCEPT !.swept = TRUE]
  /\ UNCHANGED Elsewhere

\* Some record of the past: its reading sets last_seen, be the stored one newer.
ReplayRecord ==
  /\ rebuilds > 0
  /\ reading' \in 0..now
  /\ UNCHANGED <<Elsewhere, rebuilds, row, truth>>

Rebuild == Truncate \/ ReplayRecord

Step ==
  \/ HearRepeat \/ HearShed \/ HearNovel
  \/ GetSegment \/ SttFails \/ SttOk \/ Handle
  \/ \E t \in Thread : Flush(t)
  \/ Dies \/ Restart \/ Rebuild \/ Tick

\* A backlog is stuck from the last moment it was small or something was transcribed.
Watch == stuck' = IF up' /\ queue' > WedgedQueue /\ mem'.stt = mem.stt THEN stuck ELSE now'

Next == Step /\ Watch

Spec == Init /\ [][Next]_vars

-----------------------------------------------------------------------------
(* GET /health. *)

Older(stamp, limit) == stamp = None \/ now - stamp > limit

Since(stamp, start) == IF stamp = None THEN start ELSE stamp

\* Heartbeat.read: what is not JSON is no heartbeat
Readable(content) == IF content \in {Empty, Torn} THEN None ELSE content

\* (a bug: the file first)
PublishedFileFirst == IF file # None THEN Readable(file) ELSE row

Published == IF row # None THEN row ELSE Readable(file)

Dead == Published = None \/ Older(Published.at, HeartbeatStale)

\* (bugs: the boot counts as audio; a worker that never succeeded is not wedged)
SilentSinceStart == Older(Since(Published.state.segment, Published.state.start), AudioSilent)
WedgedAfterSuccess ==
  /\ Published.state.depth > WedgedQueue
  /\ Published.state.stt # None /\ Older(Published.state.stt, SttWedged)

Silent  == Older(Published.state.segment, AudioSilent)
Drought == Older(Since(Published.state.novel, Published.state.start), NovelStale)
Wedged  ==
  /\ Published.state.depth > WedgedQueue
  /\ Older(Since(Published.state.stt, Published.state.start), SttWedged)
Flatlined == reading # None /\ Older(reading, ReadingsStale)

Status ==
  IF Dead THEN "down" ELSE IF Silent \/ Drought \/ Wedged \/ Flatlined THEN "degraded" ELSE "ok"

-----------------------------------------------------------------------------
(* Properties. *)

\* Types; a thread that has a copy to write has taken it, and one that writes has opened a file.
TypeOK ==
  /\ now \in Nat /\ segments \in Nat /\ faults \in Nat /\ rebuilds \in Nat /\ queue \in Nat /\ stuck \in Nat
  /\ up \in BOOLEAN
  /\ pc \in [Thread -> Stage]
  /\ size \in [Thread -> Nat]
  /\ mem \in State
  /\ copy \in [Thread -> Copy \cup {None}]
  /\ target \in [Thread -> {"tmp", "file", "gone"}]
  /\ tmp \in Content /\ file \in Content /\ row \in Copy \cup {None}
  /\ reading \in Stamp
  /\ truth \in [alive : Nat, heard : Stamp, novel : Nat, swept : BOOLEAN]
  /\ \A t \in Thread : pc[t] \in Writing => copy[t] # None

\* /health never says ok of a service that is dead, deaf or fed with noise, beyond
\* the configured delays: whatever copies race, fail, are torn or outlive the
\* process that took them (health.py:99, "fail-loud").
OkIsTrue ==
  Status = "ok" =>
    /\ now - truth.alive <= HeartbeatStale
    /\ truth.heard # None /\ now - truth.heard <= AudioSilent
    /\ now - truth.novel <= NovelStale

\* A worker that has transcribed nothing for SttWedged while a backlog was waiting is
\* never reported ok, although both threads set the queue depth from sizes they
\* read earlier and an older copy may be the one published.
WedgedIsLoud == now - stuck > SttWedged => Status # "ok"

\* While nothing fails, a service whose producer has published a recent segment is
\* not reported dead: the copy another thread writes late sets the row back, by
\* the time of a flush at most.  Only the TRUNCATE of a rebuild since that segment
\* leaves no row, until the next flush: then the file counts, which may be torn or old.
HeardIsNotDown ==
  faults = 0 /\ pc["producer"] = "ready" /\ truth.heard # None /\ (truth.swept => row # None)
    => (now - truth.heard + FlushTicks <= HeartbeatStale => Status # "down")

=============================================================================
