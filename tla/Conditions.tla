----------------------------- MODULE Conditions -----------------------------
(***************************************************************************)
(* Current conditions: CityConditionsAggregator of wxparser/extract.py,    *)
(* the rows of city_conditions it is recorded in, and the jobs that tidy   *)
(* them while the service runs: the merge of misspelt cities, one          *)
(* statement after another, the junk list and the prune.                   *)
(*                                                                         *)
(* Left out: the other fields of an observation (handled like temperature  *)
(* and wind), the history table (module Rebuild), lead-in phrases, and the *)
(* rebuild (Rebuild too, for one field), which truncates the table and     *)
(* fills it with votes of its own beside the service: no writer here.      *)
(***************************************************************************)
EXTENDS Voter, TLC

CONSTANTS
  Segments,     \* what the station may say
  City,         \* canonical names
  Primary,      \* the station's home city
  Garble,       \* misspelt and invented names
  Folds,        \* the running service's corrections: per name, what _norm_city makes of it
  Slot,         \* slot_anchors: per city, the one the roundup names next, or None
  Corrections,  \* the merge job's, newer perhaps: per garble a city, or None if it is junk
  SpeedOf,      \* _wind_speed_from_phrase: per wind phrase, the speed it states
  PeerMin, PeerMaxDev,   \* the quorum of the outlier test, and the deviation it allows
  MaxLen,       \* per condition, the depth of a voter
  Stale,        \* the age at which a sighting leaves the vote
  PruneAfter,   \* WX_STALE_PRUNE_HOURS
  MaxTime,      \* bound: the clock
  MaxHeard,     \* bound: segments
  MaxFaults,    \* bound: deaths and repeated statements
  None

Name == City \cup Garble
Cond == {"temp", "wind", "speed"}
Wind == DOMAIN SpeedOf
Value == Int \cup Wind
Entry == [name : Name, temp : Int]
Row   == [value : Value, seen : Nat, sightings : Nat]
Job   == [bad : Garble, step : {"update", "delete", "rename"}]
\* A segment: the city of its observation header, what the observation states of each
\* condition, whether it is a climate recap, and the roundup after it.
Segment == [header : Name \cup {None}, temp : Int \cup {None}, wind : Wind \cup {None},
            recap : BOOLEAN, roundup : Seq(Entry)]

ASSUME ConditionsAssumption ==
  /\ \A s \in Segments : s \in Segment
  /\ Primary \in City /\ City \cap Garble = {} /\ IsFiniteSet(Name) /\ None \notin Name \cup Wind \cup Int
  /\ None \notin Row \cup Job
  /\ Folds \in [Name -> Name] /\ \A c \in City : Folds[c] = c
  /\ \A n \in Name : Folds[n] # n => Folds[n] \in City
  /\ Slot \in [City -> City \cup {None}] /\ Corrections \in [Garble -> City \cup {None}]
  /\ SpeedOf \in [Wind -> Nat] /\ Wind \cap Int = {}
  /\ PeerMin \in Nat \ {0} /\ PeerMaxDev \in Nat /\ MaxLen \in [Cond -> Nat \ {0}]
  /\ Stale \in Nat /\ PruneAfter \in Nat
  /\ MaxTime \in Nat /\ MaxHeard \in Nat /\ MaxFaults \in Nat

VARIABLES
  now,      \* the clock; epoch seconds are far above Stale
  heard,    \* segments so far
  faults,   \* faults so far
  voters,   \* per name and condition, the votes
  pending,  \* the readings of the present segment that are still to be recorded
  rows,     \* city_conditions: per name and condition, the row, or None
  job,      \* the statement the merge job is at: [bad, step], or None
  recent,   \* auxiliary: the airings that are not older than Stale
  truth,    \* auxiliary: per city and condition, the readings recorded, by how much faults and
            \*   races have moved the count away from them, and the newest
  split     \* auxiliary: the process died between a wind and its speed, and no speed came since

service == <<voters, pending, recent>>
vars    == <<now, heard, faults, service, rows, job, truth, split>>

NoRows  == [n \in Name |-> [k \in Cond |-> None]]
Unheard == [count |-> 0, drift |-> 0, at |-> 0, values |-> {}]

Init ==
  /\ now = Stale + 1 /\ heard = 0 /\ faults = 0
  /\ voters = [n \in Name |-> [k \in Cond |-> <<>>]] /\ pending = <<>> /\ recent = {}
  /\ rows = NoRows /\ job = None
  /\ truth = [c \in City |-> [k \in Cond |-> Unheard]] /\ split = FALSE

Tick ==
  /\ now < MaxTime /\ pending = <<>>
  /\ now' = now + 1
  /\ recent' = {a \in recent : now' - a.at <= Stale}
  /\ UNCHANGED <<heard, faults, voters, pending, rows, job, truth, split>>

-----------------------------------------------------------------------------
(* CityConditionsAggregator. *)

\* resolve_slot: a name that is no city of the roster is recovered from the city before.
Resolved(n, before) ==
  IF n \notin City /\ before \in City /\ Slot[before] # None THEN Slot[before] ELSE n

\* The names of a roundup, each folded, then resolved.
Names(roundup) ==
  LET named[i \in 0..Len(roundup)] ==
        IF i = 0 THEN None ELSE Resolved(Folds[roundup[i].name], named[i - 1])
  IN  [i \in 1..Len(roundup) |-> named[i]]

\* Twice the median.
Median(temps) ==
  LET s == SortSeq(temps, <) IN s[(Len(s) + 1) \div 2] + s[Len(s) \div 2 + 1]

Temps(seg) == [i \in 1..Len(seg.roundup) |-> seg.roundup[i].temp]

\* _drop_peer_outliers: the entries of the roundup that stay.
Peers(seg) ==
  {i \in 1..Len(seg.roundup) : \/ Len(seg.roundup) < PeerMin
                               \/ 2 * Temps(seg)[i] - Median(Temps(seg)) \in (-2 * PeerMaxDev)..(2 * PeerMaxDev)}

\* The observation is taken for the home city's if its header says so, or if there is no
\* roundup at all; a header that names another city does not count.
IsHome(seg) == (seg.header # None /\ Folds[seg.header] = Primary) \/ Peers(seg) = {}

Observed(seg) ==
  LET Says(k, v) == IF v = None THEN <<>> ELSE <<[name |-> Primary, cond |-> k, value |-> v]>>
  IN  IF IsHome(seg) /\ ~seg.recap THEN Says("temp", seg.temp) \o Says("wind", seg.wind) ELSE <<>>

\* All that a segment states: _nearby_temps, then the observation.
Said(seg) ==
  [i \in 1..Len(seg.roundup) |->
     [name |-> Names(seg.roundup)[i], cond |-> "temp", value |-> seg.roundup[i].temp]]
  \o Observed(seg)

\* What update takes of it.  A city's temperature repeated in a roundup is one airing.
Airings(seg) ==
  LET said == Said(seg)
  IN  {i \in DOMAIN said :
         i \in 1..Len(seg.roundup) =>
           /\ i \in Peers(seg) /\ said[i].value \in -60..130
           /\ ~\E j \in Peers(seg) : j < i /\ said[j] = said[i]}

\* _reading: the vote, and the value that leads after it.
Voted(state, airing) ==
  LET pool == Cast(state.voters[airing.name][airing.cond], airing.value, now, MaxLen[airing.cond])
  IN  [voters |-> [state.voters EXCEPT ![airing.name][airing.cond] = pool],
       out |-> Append(state.out, [airing EXCEPT !.value = Best(pool, Stale)])]

\* Every airing of the segment is one vote, in the order of the text.
Vote(seg) ==
  LET said == Said(seg)
      airings == Airings(seg)
      after[i \in 0..Len(said)] ==
        IF i = 0 THEN [voters |-> voters, out |-> <<>>]
        ELSE IF i \in airings THEN Voted(after[i - 1], said[i]) ELSE after[i - 1]
  IN  after[Len(said)]

\* Mutant of Derived: the speed of what was said just now.
DerivedFromAiring(out, seg) ==
  IF seg.wind = None \/ ~\E i \in DOMAIN out : out[i].cond = "wind" THEN <<>>
  ELSE <<[name |-> Primary, cond |-> "speed", value |-> SpeedOf[seg.wind]]>>
\* The speed of the wind that leads the vote.
Derived(out, seg) ==
  LET winds == {i \in DOMAIN out : out[i].cond = "wind"}
  IN  IF winds = {} THEN <<>>
      ELSE LET i == CHOOSE w \in winds : \A x \in winds : w <= x
           IN  <<[name |-> Primary, cond |-> "speed", value |-> SpeedOf[out[i].value]]>>

Update(seg) ==
  LET done == Vote(seg)
      said == Said(seg)
  IN  /\ voters' = done.voters
      /\ pending' = done.out \o Derived(done.out, seg)
      /\ recent' = recent \cup {[name |-> said[i].name, cond |-> said[i].cond,
                                 value |-> said[i].value, at |-> now] : i \in Airings(seg)}

Hear(seg) ==
  /\ heard < MaxHeard /\ pending = <<>>
  /\ heard' = heard + 1
  /\ Update(seg)
  /\ UNCHANGED <<now, faults, rows, job, truth, split>>

-----------------------------------------------------------------------------
(* city_conditions. *)

\* The city a name stands for in the end.
Canon(n)   == IF n \in City THEN n ELSE Corrections[n]
IsReal(n)  == Canon(n) # None
Spellings(c) == {n \in Name : Canon(n) = c}

Upsert(old, reading, times) ==
  [value |-> reading.value, seen |-> now,
   sightings |-> (IF old = None THEN 0 ELSE old.sightings) + times]

\* Between the merge's UPDATE and its DELETE, a misspelt row counts in the good one already.
InGap(n)      == job # None /\ job.step = "delete" /\ n = job.bad
InMerge(n, k) == InGap(n) /\ rows[Corrections[n]][k] # None

\* The sightings of the rows of a set of names: of every n of them there is one pair
\* for each sighting.
Sightings(n, k) == IF rows[n][k] = None \/ InMerge(n, k) THEN 0 ELSE rows[n][k].sightings
Tally(names, k) == Cardinality(UNION {{n} \X (1..Sightings(n, k)) : n \in names})

\* What the DELETE will take although nobody merged it: a reading of the misspelling, or,
\* once the good spelling gets its first row, the misspelt one beside it.
Lost(r, times) ==
  IF InMerge(r.name, r.cond) THEN times
  ELSE IF job # None /\ InGap(job.bad) /\ r.name = Corrections[job.bad] /\ rows[r.name][r.cond] = None
       THEN Sightings(job.bad, r.cond)
  ELSE 0

Learn(r, times) ==
  LET t == truth[Canon(r.name)][r.cond]
      counted == [t EXCEPT !.count = @ + 1, !.drift = @ + times - 1 - Lost(r, times)]
  IN  IF InMerge(r.name, r.cond) THEN counted
      ELSE [counted EXCEPT !.at = now, !.values = (IF t.at = now THEN @ ELSE {}) \cup {r.value}]

\* record_reading's upsert.  _run repeats a statement whose connection failed, though it
\* may have been committed: then it is applied twice.
Record(times) ==
  /\ pending # <<>>
  /\ times = 2 => faults < MaxFaults
  /\ faults' = faults + times - 1
  /\ LET r == Head(pending)
     IN  /\ rows' = [rows EXCEPT ![r.name][r.cond] = Upsert(@, r, times)]
         /\ truth' = IF IsReal(r.name) THEN [truth EXCEPT ![Canon(r.name)][r.cond] = Learn(r, times)] ELSE truth
         /\ split' = (split /\ r.cond # "speed")
  /\ pending' = Tail(pending)
  /\ UNCHANGED <<now, heard, voters, recent, job>>

\* prime: the stored value is one vote, cast before any broadcast.
Primed(row) == IF row = None THEN <<>> ELSE <<[value |-> row.value, at |-> 0]>>

\* The process ends between two statements, and the next one primes from the rows.
Restart ==
  /\ faults < MaxFaults
  /\ faults' = faults + 1
  /\ voters' = [n \in Name |-> [k \in Cond |-> Primed(rows[n][k])]]
  /\ pending' = <<>>
  /\ split' = (split \/ (pending # <<>> /\ Head(pending).cond = "speed"))
  /\ UNCHANGED <<now, heard, recent, rows, job, truth>>

-----------------------------------------------------------------------------
(* The merge job: COUNT, UPDATE, DELETE, UPDATE for a misspelt name, each statement in a
   transaction of its own; of junk, a DELETE. *)

BeginMerge(bad) ==
  /\ job = None /\ IsReal(bad)
  /\ \E k \in Cond : rows[bad][k] # None
  /\ job' = [bad |-> bad, step |-> "update"]
  /\ UNCHANGED <<now, heard, faults, service, rows, truth, split>>

\* Mutant of Merged: the good row's value stays.
MergedCounts(g, b) == [g EXCEPT !.sightings = @ + b.sightings]
\* Mutant of Merged: the newer row is taken as it is.
MergedNewer(g, b) == IF b.seen > g.seen THEN b ELSE g
\* The sightings add up, the newer value stays.
Merged(g, b) ==
  [value |-> IF b.seen > g.seen THEN b.value ELSE g.value,
   seen |-> IF b.seen > g.seen THEN b.seen ELSE g.seen,
   sightings |-> g.sightings + b.sightings]

MergeUpdate ==
  /\ job # None /\ job.step = "update"
  /\ LET b == rows[job.bad]
     IN  rows' = [rows EXCEPT ![Corrections[job.bad]] = [k \in Cond |->
                    IF @[k] # None /\ b[k] # None THEN Merged(@[k], b[k]) ELSE @[k]]]
  /\ job' = [job EXCEPT !.step = "delete"]
  /\ UNCHANGED <<now, heard, faults, service, truth, split>>

MergeDelete ==
  /\ job # None /\ job.step = "delete"
  /\ LET g == rows[Corrections[job.bad]]
     IN  rows' = [rows EXCEPT ![job.bad] = [k \in Cond |-> IF g[k] # None THEN None ELSE @[k]]]
  /\ job' = [job EXCEPT !.step = "rename"]
  /\ UNCHANGED <<now, heard, faults, service, truth, split>>

\* If the service has recorded the good spelling meanwhile, the statement fails on the
\* primary key and the job ends with it.
MergeRename ==
  /\ job # None /\ job.step = "rename"
  /\ LET b == rows[job.bad]
         g == rows[Corrections[job.bad]]
     IN  rows' = IF \E k \in Cond : b[k] # None /\ g[k] # None THEN rows
                 ELSE [rows EXCEPT ![job.bad] = NoRows[job.bad],
                                   ![Corrections[job.bad]] =
                                     [k \in Cond |-> IF b[k] # None THEN b[k] ELSE g[k]]]
  /\ job' = None
  /\ UNCHANGED <<now, heard, faults, service, truth, split>>

\* A misspelt row that ceases to count in the good one counts again, and so does its reading.
Rejoined(t, row) ==
  [t EXCEPT !.drift = @ + row.sightings,
            !.at = IF row.seen > @ THEN row.seen ELSE @,
            !.values = IF row.seen > t.at THEN {row.value}
                       ELSE IF row.seen = t.at /\ @ # {} THEN @ \cup {row.value} ELSE @]

\* The city and condition of such a row.
Shadows(c, k) == job # None /\ c = Corrections[job.bad] /\ InMerge(job.bad, k) /\ rows[job.bad][k] # None

\* Between UPDATE and DELETE this leaves sightings that the next run, a minute later,
\* adds once more.
MergeDies ==
  /\ job # None /\ faults < MaxFaults
  /\ faults' = faults + 1
  /\ truth' = [c \in City |-> [k \in Cond |->
                 IF Shadows(c, k) THEN Rejoined(truth[c][k], rows[job.bad][k]) ELSE truth[c][k]]]
  /\ job' = None
  /\ UNCHANGED <<now, heard, service, rows, split>>

DropJunk(n) ==
  /\ job = None /\ ~IsReal(n) /\ rows[n] # NoRows[n]
  /\ rows' = [rows EXCEPT ![n] = NoRows[n]]
  /\ UNCHANGED <<now, heard, faults, service, job, truth, split>>

-----------------------------------------------------------------------------
(* prune_stale_readings. *)

IsOld(n, k) == n # Primary /\ rows[n][k] # None /\ rows[n][k].seen < now - PruneAfter

Forget(t, c, k) ==
  LET gone == {n \in Spellings(c) : IsOld(n, k)}
  IN  [t EXCEPT !.count = @ - Tally(gone, k),
                !.values = IF \E n \in gone : rows[n][k].seen = t.at THEN {} ELSE @]

Prune ==
  /\ \E n \in Name, k \in Cond : IsOld(n, k)
  /\ rows' = [n \in Name |-> [k \in Cond |-> IF IsOld(n, k) THEN None ELSE rows[n][k]]]
  /\ truth' = [c \in City |-> [k \in Cond |->
                 LET t == Forget(truth[c][k], c, k)
                 IN  IF Shadows(c, k) /\ IsOld(c, k) /\ ~IsOld(job.bad, k)
                     THEN Rejoined(t, rows[job.bad][k]) ELSE t]]
  /\ UNCHANGED <<now, heard, faults, service, job, split>>

Merge ==
  \/ \E n \in Garble : BeginMerge(n) \/ DropJunk(n)
  \/ MergeUpdate \/ MergeDelete \/ MergeRename \/ MergeDies

Next ==
  \/ Tick \/ Restart \/ Merge \/ Prune
  \/ \E seg \in Segments : Hear(seg)
  \/ \E times \in 1..2 : Record(times)

Spec == Init /\ [][Next]_vars

-----------------------------------------------------------------------------
(* Properties. *)

Reading == [name : Name, cond : Cond, value : Value]
ServiceType ==
  /\ now \in Nat /\ heard \in 0..MaxHeard /\ faults \in 0..MaxFaults
  /\ \A n \in Name, k \in Cond :
       /\ voters[n][k] \in Seq([value : Value, at : 0..now]) /\ Len(voters[n][k]) <= MaxLen[k]
  /\ pending \in Seq(Reading)
  /\ recent \subseteq [name : Name, cond : Cond, value : Value, at : 0..now]
TableType ==
  /\ rows \in [Name -> [Cond -> Row \cup {None}]]
  /\ \A n \in Name, k \in Cond : rows[n][k] # None => rows[n][k].seen <= now
  /\ job \in Job \cup {None}
  /\ job # None => IsReal(job.bad)
AuxType ==
  /\ truth \in [City -> [Cond -> [count : Int, drift : Int, at : 0..now, values : SUBSET Value]]]
  /\ split \in BOOLEAN

\* Every variable stays in its range, no voter outgrows its depth, and the merge works
\* on names that have a correction.
TypeOK == ServiceType /\ TableType /\ AuxType

\* When no merge is under way, the sightings of a city, over all its spellings, are the
\* readings recorded of it and not pruned since: no merge, in whatever order with the
\* service's upserts and the prune, counts an airing twice or not at all.  A statement that
\* _run repeats adds one, a reading in the merge's gap is lost, a job that dies in it
\* leaves what it merged there twice: by just so much, and for good, the count is off.
SightingsAreAirings ==
  job = None => \A c \in City, k \in Cond :
    Tally(Spellings(c), k) = truth[c][k].count + truth[c][k].drift

\* The newest reading of a city outlives every merge of its spellings, with the value and
\* the time it was recorded with; only what was recorded in the merge's gap does not.
NewestSurvives ==
  job = None => \A c \in City, k \in Cond :
    \/ truth[c][k].values = {}
    \/ \E n \in Spellings(c) : /\ rows[n][k] # None /\ rows[n][k].seen = truth[c][k].at
                               /\ rows[n][k].value \in truth[c][k].values

\* What is recorded was on the air within Stale, whatever a restart primed the votes with
\* and however deep they reach.
RecordedWasAired ==
  \A i \in DOMAIN pending : pending[i].cond = "speed" \/
    \E a \in recent : /\ a.name = pending[i].name /\ a.cond = pending[i].cond
                      /\ a.value = pending[i].value

\* Between two segments the wind speed in the table is that of the wind in the table,
\* however the vote went, unless the process died between the two: then until the next
\* speed.  (A rebuild beside the service, which writes both too, is not in this module.)
WindAgrees ==
  LET row == rows[Primary]
  IN  pending = <<>> /\ row["wind"] # None /\ ~split =>
        row["speed"] # None /\ row["speed"].value = SpeedOf[row["wind"].value]

=============================================================================
