------------------------------- MODULE Rebuild -------------------------------
(***************************************************************************)
(* wxparser/reprocess.py: the structured tables are wiped and replayed     *)
(* from the transcript store, nightly while the capture service keeps      *)
(* writing (deploy/wxparser-reprocess.service), or by hand with the        *)
(* service stopped (deploy/reprocess.sh).  Either process may be killed    *)
(* between any two statements.                                             *)
(*                                                                         *)
(* A station says readings (one field, of which the voted value is         *)
(* served: a current condition or one of the almanac), spoken warnings (an *)
(* alert_details row) and SAME headers (an alerts row).  The last two      *)
(* tables are keyed by the id of the raw record, a stamp and what was      *)
(* said, and modelled as one.                                              *)
(***************************************************************************)
EXTENDS Integers, Sequences, FiniteSets, Voter

CONSTANTS
  Fields,     \* what the field may be: a "condition" or of the "almanac"
  Value,      \* the readings of the field
  Warning,    \* spoken warnings: transcripts without readings
  Header,     \* SAME headers
  Depth,      \* _FieldVoter.maxlen
  Stale,      \* vote_stale_min, in ticks
  MaxTime,    \* bound: last tick in which anything is heard
  MaxHeard,   \* bound: what the station says
  MaxFaults,  \* bound: deaths of either process, and stops by hand
  None        \* no value

Said   == Value \cup Warning \cup Header
Record == [at : Nat, said : Said]

ASSUME RebuildAssumption ==
  /\ Fields # {} /\ Fields \subseteq {"condition", "almanac"}
  /\ Value \cap Warning = {} /\ Value \cap Header = {} /\ Warning \cap Header = {}
  /\ Depth \in Nat \ {0} /\ Stale \in Nat
  /\ MaxTime \in Nat /\ MaxHeard \in Nat /\ MaxFaults \in Nat
  /\ None \notin Said /\ None \notin Record

Thread == {"producer", "worker"}

VARIABLES
  field,     \* what the readings are of
  now, heard, faults,
  \* the capture service
  live,      \* "up", "down" (systemd starts it again) or "stopped" (by hand)
  voter,     \* the aggregator's voter of the field
  hand,      \* the transcript the worker has voted and not yet stored
  row,       \* per thread, the record whose keyed row it has yet to write
  \* the rebuild
  phase,     \* "idle", "read" or "replay"
  records,   \* the records not yet replayed
  tally,     \* the rebuild's own voter
  \* the database
  raw,       \* table raw_reports
  keyed,     \* tables alerts and alert_details, by record
  latest,    \* table city_conditions, or almanac: [value, sightings]
  obs,       \* city_observations, or almanac_observations: [at, value]
  \* auxiliary
  votes,     \* readings the service ever voted
  quiet,     \* the service has written nothing since the rebuild read the store
  exposed    \* records whose keyed row nobody is going to write

clock   == <<field, now, heard, faults>>
service == <<live, voter, hand, row>>
rebuild == <<phase, records, tally>>
tables  == <<keyed, latest, obs>>
vars    == <<clock, service, rebuild, raw, tables, votes, quiet, exposed>>

Nothing == [value |-> None, sightings |-> 0]
NoRows  == [t \in Thread |-> None]

\* The clock is far beyond the pre-broadcast clock 0 of a primed vote.
Init ==
  /\ field \in Fields
  /\ now = Stale + 1 /\ heard = 0 /\ faults = 0
  /\ live = "up" /\ voter = <<>> /\ hand = None /\ row = NoRows
  /\ phase = "idle" /\ records = {} /\ tally = <<>>
  /\ raw = {} /\ keyed = {} /\ latest = Nothing /\ obs = {}
  /\ votes = 0 /\ quiet = TRUE /\ exposed = {}

-----------------------------------------------------------------------------
(* The capture service, as far as it writes.  Transcribing takes time. *)

Hears == live = "up" /\ heard < MaxHeard /\ heard' = heard + 1

Idle == hand = None /\ row["worker"] = None

\* The clock a sighting is cast at: the almanac's votes are not timed.
Clock(at) == IF field = "almanac" THEN 0 ELSE at

\* update: the aggregator hears one more reading.
Heard(samples, v, at) == Cast(samples, v, Clock(at), Depth)

\* The first row of an instant stays.
History(value, at) == IF \E o \in obs : o.at = at THEN obs ELSE obs \cup {[at |-> at, value |-> value]}

\* record_reading, record_almanac: the latest value and its sightings, and a history row.
RecordReading(value, at) ==
  /\ latest' = [value |-> value, sightings |-> latest.sightings + 1]
  /\ obs' = History(value, at)

\* A transcript with a reading is voted first ...
Vote(v) ==
  /\ Idle /\ now < MaxTime /\ Hears
  /\ now' = now + 1
  /\ voter' = Heard(voter, v, now')
  /\ RecordReading(Best(voter', Stale), now')
  /\ hand' = v
  /\ votes' = votes + 1 /\ quiet' = FALSE
  /\ UNCHANGED <<field, faults, live, row, rebuild, raw, keyed, exposed>>

HearWarning(w) ==
  /\ Idle /\ now < MaxTime /\ Hears
  /\ now' = now + 1
  /\ hand' = w
  /\ UNCHANGED <<field, faults, live, voter, row, rebuild, raw, tables, votes, quiet, exposed>>

\* ... and stored only then, unless it repeats a stored one;
DropDuplicate ==
  /\ hand # None
  /\ \E r \in raw : r.said = hand
  /\ hand' = None
  /\ UNCHANGED <<clock, live, voter, row, rebuild, raw, tables, votes, quiet, exposed>>

\* Mutant of Store: a SAME header gets its alerts row without a raw record.
StoreRowOnly(t, record) ==
  /\ raw' = IF record.said \in Header THEN raw ELSE raw \cup {record}
  /\ row' = IF record.said \in Value THEN row ELSE [row EXCEPT ![t] = record]
Store(t, record) ==
  /\ raw' = raw \cup {record}
  /\ row' = IF record.said \in Value THEN row ELSE [row EXCEPT ![t] = record]

StoreTranscript ==
  /\ hand # None
  /\ Store("worker", [at |-> now, said |-> hand])
  /\ hand' = None /\ quiet' = FALSE
  /\ UNCHANGED <<clock, live, voter, rebuild, tables, votes, exposed>>

\* a SAME header is stored by the producer.
StoreHeader(h) ==
  /\ row["producer"] = None /\ [at |-> now, said |-> h] \notin raw /\ Hears
  /\ Store("producer", [at |-> now, said |-> h])
  /\ quiet' = FALSE
  /\ UNCHANGED <<field, now, faults, live, voter, hand, rebuild, tables, votes, exposed>>

\* write_alert, write_alert_detail: upserts by the record's id.
WriteRow(t) ==
  /\ row[t] # None
  /\ keyed' = keyed \cup {row[t]}
  /\ row' = [row EXCEPT ![t] = None]
  /\ quiet' = FALSE
  /\ UNCHANGED <<clock, live, voter, hand, rebuild, raw, latest, obs, votes, exposed>>

Pending == {row[t] : t \in Thread} \ {None}

\* The process ends between two statements.
Ends(state) ==
  /\ faults < MaxFaults /\ faults' = faults + 1
  /\ live' = state
  /\ voter' = <<>> /\ hand' = None /\ row' = NoRows
  /\ exposed' = exposed \cup Pending
  /\ UNCHANGED <<field, now, heard, rebuild, raw, tables, votes, quiet>>

ServiceDies == live = "up" /\ Ends("down")
StopByHand  == live # "stopped" /\ phase = "idle" /\ Ends("stopped")

\* prime: the latest value is one vote, cast at clock 0.
Primed == IF latest.value = None THEN <<>> ELSE Cast(<<>>, latest.value, 0, Depth)

\* Restart=always; reprocess.sh or the operator, once the rebuild has ended.
Start ==
  /\ live = "down" \/ (live = "stopped" /\ phase = "idle")
  /\ live' = "up"
  /\ voter' = Primed
  /\ UNCHANGED <<clock, hand, row, rebuild, raw, tables, votes, quiet, exposed>>

-----------------------------------------------------------------------------
(* The rebuild. *)

\* iter_raw_reports: the whole store, at this moment.
ReadStore ==
  /\ phase = "idle"
  /\ phase' = "read" /\ records' = raw /\ quiet' = TRUE
  /\ UNCHANGED <<clock, service, tally, raw, tables, votes, exposed>>

\* Mutant of ClearTables: the TRUNCATE forgets the city tables.
ClearAlertTables ==
  /\ phase = "read"
  /\ phase' = "replay" /\ tally' = <<>>
  /\ keyed' = {}
  /\ exposed' = raw \ (records \cup Pending)
  /\ UNCHANGED <<clock, service, records, raw, latest, obs, votes, quiet>>

\* clear: one TRUNCATE of every structured table.
ClearTables ==
  /\ phase = "read"
  /\ phase' = "replay" /\ tally' = <<>>
  /\ keyed' = {} /\ latest' = Nothing /\ obs' = {}
  /\ exposed' = raw \ (records \cup Pending)
  /\ UNCHANGED <<clock, service, records, raw, votes, quiet>>

\* Mutant of Earliest: newest first, as the readers of the API have it.
EarliestLast == {r \in records : \A q \in records : q.at <= r.at}
Earliest == {r \in records : \A q \in records : r.at <= q.at}

\* Mutant of Replay: only transcripts are replayed.
ReplayTranscripts ==
  /\ phase = "replay"
  /\ \E r \in Earliest :
       /\ records' = records \ {r}
       /\ IF r.said \in Value
            THEN /\ tally' = Heard(tally, r.said, r.at)
                 /\ RecordReading(Best(tally', Stale), r.at)
                 /\ UNCHANGED keyed
            ELSE /\ keyed' = IF r.said \in Warning THEN keyed \cup {r} ELSE keyed
                 /\ UNCHANGED <<tally, latest, obs>>
  /\ UNCHANGED <<clock, service, phase, raw, votes, quiet, exposed>>

Replay ==
  /\ phase = "replay"
  /\ \E r \in Earliest :
       /\ records' = records \ {r}
       /\ IF r.said \in Value
            THEN /\ tally' = Heard(tally, r.said, r.at)
                 /\ RecordReading(Best(tally', Stale), r.at)
                 /\ UNCHANGED keyed
            ELSE keyed' = keyed \cup {r} /\ UNCHANGED <<tally, latest, obs>>
  /\ UNCHANGED <<clock, service, phase, raw, votes, quiet, exposed>>

Finish ==
  /\ phase = "replay" /\ records = {}
  /\ phase' = "idle" /\ tally' = <<>>
  /\ UNCHANGED <<clock, service, records, raw, tables, votes, quiet, exposed>>

\* Killed, or a statement failed: whatever is replayed so far is what there is.
RebuildDies ==
  /\ phase # "idle" /\ faults < MaxFaults /\ faults' = faults + 1
  /\ phase' = "idle" /\ records' = {} /\ tally' = <<>>
  /\ exposed' = IF phase = "replay" THEN exposed \cup records ELSE exposed
  /\ UNCHANGED <<field, now, heard, service, raw, tables, votes, quiet>>

Serve ==
  \/ (\E v \in Value : Vote(v)) \/ (\E w \in Warning : HearWarning(w))
  \/ (\E h \in Header : StoreHeader(h))
  \/ DropDuplicate \/ StoreTranscript \/ (\E t \in Thread : WriteRow(t))
  \/ ServiceDies \/ StopByHand \/ Start

RebuildStep == ReadStore \/ ClearTables \/ Replay \/ Finish

Next == Serve \/ RebuildStep \/ RebuildDies

Spec == Init /\ [][Next]_vars

\* The timer comes round every night and the rebuild gets on; a thread that has
\* stored a record writes its row.  Nobody has to hear, die or be restarted.
FairSpec ==
  /\ Spec
  /\ WF_vars(RebuildStep)
  /\ \A t \in Thread : WF_vars(WriteRow(t))

-----------------------------------------------------------------------------
(* Properties. *)

Latest == [value : Value \cup {None}, sightings : Nat]
Samples == Seq([value : Value, at : Nat])

ServiceType ==
  /\ live \in {"up", "down", "stopped"}
  /\ voter \in Samples
  /\ hand \in Value \cup Warning \cup {None}
  /\ row \in [Thread -> Record \cup {None}]
  /\ live # "up" => voter = <<>> /\ hand = None /\ row = NoRows
RebuildType ==
  /\ phase \in {"idle", "read", "replay"}
  /\ records \subseteq raw /\ tally \in Samples
TableType ==
  /\ raw \subseteq Record /\ keyed \subseteq raw /\ exposed \subseteq raw /\ Pending \subseteq raw
  /\ latest \in Latest
  /\ obs \subseteq [at : Nat, value : Value]

\* Every variable stays in its range; a keyed row has its record, now and after
\* the rebuild, whoever dies when.
TypeOK ==
  /\ field \in Fields /\ now \in Nat /\ heard \in Nat /\ faults \in Nat /\ votes \in Nat /\ quiet \in BOOLEAN
  /\ ServiceType /\ RebuildType /\ TableType

Keyed    == {r \in raw : r.said \notin Value}
Readings == {r \in raw : r.said \in Value}

\* An alert, or the detail of a warning, that is stored is served, with these
\* exceptions only: its thread is about to write it, the running replay is about
\* to, the process died between the two statements, the record came between the
\* rebuild's read and its TRUNCATE, or the replay died before it.
OnlyExposedMissing ==
  Keyed \subseteq keyed \cup Pending \cup exposed
                 \cup (IF phase = "replay" THEN records ELSE {})

\* However votes, TRUNCATE, replay and deaths interleave, no airing is counted
\* twice: not in the sightings that gate a city, not in the history.
NoDoubleCount == latest.sightings <= votes /\ Cardinality(obs) <= votes

\* The reference: the last Depth readings of the store vote, none of a condition older
\* than Stale.
Recent == {r \in Readings : /\ Cardinality({q \in Readings : q.at > r.at}) < Depth
                            /\ field = "condition" => \A q \in Readings : q.at - r.at <= Stale}
Support(v) == {r \in Recent : r.said = v}
Wins(v) ==
  /\ Support(v) # {}
  /\ \A u \in Value \ {v} :
       \/ Cardinality(Support(u)) < Cardinality(Support(v))
       \/ /\ Cardinality(Support(u)) = Cardinality(Support(v))
          /\ \E r \in Support(v) : \A q \in Support(u) : q.at < r.at

IsProjection ==
  /\ keyed = Keyed
  /\ latest.sightings = Cardinality(Readings)
  /\ IF Readings = {} THEN latest.value = None ELSE Wins(latest.value)
  /\ {o.at : o \in obs} = {r.at : r \in Readings}

\* What the module's name promises: if the service wrote nothing meanwhile, the
\* tables are afterwards a function of the transcript store alone, whatever was in
\* them before and whatever deaths had left there.
RebuiltIsProjection == [][Finish /\ quiet => IsProjection]_vars

\* What a crash, a race or a failed rebuild has cost is back after a later night.
HealsNightly == []<>(Keyed \subseteq keyed)

\* What the unit file says: besides the counters a live rebuild exposes nothing.
RebuildKeepsAlerts == phase = "idle" => Keyed \subseteq keyed \cup Pending

=============================================================================
