------------------------------ MODULE Forecast ------------------------------
(***************************************************************************)
(* ForecastAggregator of wxparser/extract.py and the forecast leg of the   *)
(* capture service around it: a readout that loops on the air and reaches  *)
(* the worker cut into segments, some of them lost; the votes; the         *)
(* issuance written row by row; the latest one served, and primed from     *)
(* after a restart.                                                        *)
(*                                                                         *)
(* Left out: sky (handled like precip), the confidence of a value.         *)
(***************************************************************************)
EXTENDS Voter, TLC

CONSTANTS
  Readouts,    \* what the station reads in a loop: sequences of clauses
  Period,      \* the names of forecast periods
  Night,       \* those of them that are nights
  Pred,        \* _period_predecessor: per period, the one before it, or None
  Area,        \* the areas a readout may name
  BootArea,    \* the area ForecastAggregator is constructed with
  MaxLen,      \* maxlen of its voters
  StalePasses, \* stale_passes: readouts a value outlives its last airing
  MaxClauses,  \* bound: clauses of a segment
  MaxLost,     \* bound: segments lost
  MaxDeaths,   \* bound: restarts
  None

Field == {"high", "low", "precip"}

\* A clause names the area, begins a recap, opens a period, or states a field; the
\* value of a field says which period the station was speaking of.
ValueOf == [of : Period, v : Nat]
Clause  == [kind : {"area"}, x : Area] \cup [kind : {"recap"}, x : {None}]
           \cup [kind : {"header"}, x : Period]
           \cup [kind : Field \cup {"steady"}, x : ValueOf]

ASSUME ForecastAssumption ==
  /\ Readouts # {} /\ \A r \in Readouts : r \in Seq(Clause) /\ r # <<>>
  /\ Night \subseteq Period /\ Pred \in [Period -> Period \cup {None}]
  /\ BootArea \in Area /\ None \notin Period \cup Area \cup ValueOf
  /\ MaxLen \in Nat \ {0} /\ StalePasses \in Nat /\ MaxClauses \in Nat \ {0}
  /\ MaxLost \in Nat /\ MaxDeaths \in Nat

VARIABLES
  readout,   \* what the station reads at present
  pos,       \* the clause it is at
  losses,    \* segments lost so far
  deaths,    \* restarts so far
  current,   \* _current: the period in progress, or None
  voters,    \* per period and field, the votes
  age,       \* per period and field, _pass - _last_pass, up to StalePasses + 1
  city,      \* the area of the forecast
  writing,   \* the periods whose rows of the new issuance are still to be written
  opened,    \* a row of it was written
  latest,    \* per area, the rows of the newest issuance in the table
  gap,       \* auxiliary: a segment was lost since current was set
  silence,   \* auxiliary: per period and field, readouts heard since it was last stated,
             \* up to Never, whatever process heard them
  torn       \* auxiliary: values a restart could not prime: the process died while it wrote
             \* them, or had written them under another area

station    == <<readout, pos, losses>>
aggregator == <<current, voters, age, city>>
table      == <<writing, opened, latest>>
vars       == <<station, deaths, aggregator, table, gap, silence, torn>>

Slots       == Period \X Field
Blank       == [p \in Period |-> [f \in Field |-> None]]
NoVotes     == [p \in Period |-> [f \in Field |-> <<>>]]
Zeros       == [p \in Period |-> [f \in Field |-> 0]]
Never       == StalePasses + 1
Older(a)    == IF a < Never THEN a + 1 ELSE a

Init ==
  /\ readout \in Readouts /\ pos = 1 /\ losses = 0 /\ deaths = 0
  /\ current = None /\ voters = NoVotes /\ age = Zeros /\ city = BootArea
  /\ writing = {} /\ opened = FALSE /\ latest = [a \in Area |-> Blank]
  /\ gap = FALSE /\ silence = [p \in Period |-> [f \in Field |-> Never]] /\ torn = {}

-----------------------------------------------------------------------------
(* The station. *)

Clauses(from, n) == [k \in 1..n |-> readout[((from + k - 2) % Len(readout)) + 1]]
Advance(n)       == pos' = ((pos + n - 1) % Len(readout)) + 1

\* The forecast office issues a new text; it is read from the next readout on.
Revise ==
  /\ pos = 1
  /\ \E r \in Readouts \ {readout} : readout' = r
  /\ UNCHANGED <<pos, losses, deaths, aggregator, table, gap, silence, torn>>

\* A segment that never reaches the aggregator: dropped by the gate, shed, failed in
\* transcription, below the confidence floor, or taken for a climate outlook.
Lose(n) ==
  /\ losses < MaxLost
  /\ losses' = losses + 1
  /\ Advance(n)
  /\ gap' = TRUE
  /\ UNCHANGED <<readout, deaths, aggregator, table, silence, torn>>

-----------------------------------------------------------------------------
(* ForecastAggregator. *)

Headers(seg)      == {i \in DOMAIN seg : seg[i].kind = "header"}
Kinds(seg)        == {seg[i].kind : i \in DOMAIN seg}
FirstOf(S)        == CHOOSE i \in S : \A j \in S : i <= j
LastOf(S)         == CHOOSE i \in S : \A j \in S : j <= i

\* A new readout and a recap close the period in progress.
Carried(seg) == IF Kinds(seg) \cap {"area", "recap"} # {} THEN None ELSE current

\* Mutant of PeriodAt: text before the first header continues whatever was open.
PeriodAtAnyTail(seg, i) ==
  LET before == {h \in Headers(seg) : h <= i}
  IN  IF before # {} THEN seg[LastOf(before)].x ELSE Carried(seg)

\* The period clause i belongs to: the last one opened; text before the first header
\* closes that header's predecessor and no other period.
PeriodAt(seg, i) ==
  LET before == {h \in Headers(seg) : h <= i} IN
  IF before # {} THEN seg[LastOf(before)].x
  ELSE IF Headers(seg) = {} \/ Carried(seg) = Pred[seg[FirstOf(Headers(seg))].x]
    THEN Carried(seg) ELSE None

\* A span begins with the segment and at every header.
BeginsSpan(seg, i) == i = 1 \/ i \in Headers(seg)

\* What the span that begins at s states of field f: its first value, if any.
Stated(seg, s, f) ==
  LET inSpan == {i \in s..Len(seg) : /\ \A h \in Headers(seg) : h <= s \/ i < h
                                     /\ seg[i].kind = f}
  IN  IF inSpan = {} THEN {} ELSE {seg[FirstOf(inSpan)].x}

\* _route_fields, per field: a night has no high, a day no low; a temperature without a
\* label goes to the slot the period has, if that was neither stated nor voted on.
Routes(vs, seg, s) ==
  LET p    == PeriodAt(seg, s)
      slot == IF p \in Night THEN "low" ELSE "high"
      temp == IF Stated(seg, s, "high") \cup Stated(seg, s, "low") = {} /\ vs[p][slot] = <<>>
                THEN Stated(seg, s, "steady") ELSE Stated(seg, s, slot)
  IN  [f \in Field |-> IF f = slot THEN temp ELSE IF f = "precip" THEN Stated(seg, s, f) ELSE {}]

\* _vote, of the value stated, if any.
CastVote(votes, values) ==
  IF values = {} THEN votes ELSE Cast(votes, CHOOSE v \in values : TRUE, 0, MaxLen)

\* A span's votes, and the slots that got one.
RouteSpan(done, seg, s) ==
  LET p    == PeriodAt(seg, s)
      cast == Routes(done.votes, seg, s)
  IN  IF p = None THEN done
      ELSE [votes |-> [done.votes EXCEPT ![p] = [f \in Field |-> CastVote(@[f], cast[f])]],
            slots |-> done.slots \cup {<<p, f>> : f \in {g \in Field : cast[g] # {}}}]

\* The votes of a segment, span after span.
Routed(seg) ==
  LET after[i \in 0..Len(seg)] ==
        IF i = 0 THEN [votes |-> voters, slots |-> {}]
        ELSE IF BeginsSpan(seg, i) THEN RouteSpan(after[i - 1], seg, i) ELSE after[i - 1]
  IN  after[Len(seg)]

\* Mutant of Fresh: a period is fresh as a whole.
FreshPeriod(ages, p, f) == \E g \in Field : ages[p][g] <= StalePasses
Fresh(ages, p, f) == ages[p][f] <= StalePasses

\* _values, and the rows snapshot makes of them.
Values(vs, ages) ==
  [p \in Period |-> [f \in Field |->
     IF vs[p][f] # <<>> /\ Fresh(ages, p, f) THEN Best(vs[p][f], 0) ELSE None]]
Current == Values(voters, age)
Rows(values) == {p \in Period : values[p] # Blank[p]}

\* Mutant of Changed: compared once the new readout is counted.
ChangedInVotes(vs, ages) == Values(voters, ages) # Values(vs, ages)
\* update returns whether a value changed, and only then is an issuance written.
Changed(vs, ages) == Current # Values(vs, ages)

\* A segment reaches update, and apply_readings begins an issuance.
Hear(n) ==
  /\ writing = {}
  /\ \E seg \in {Clauses(pos, n)} : \E done \in {Routed(seg)} :
       LET passed == "area" \in Kinds(seg)
           After(a) == [p \in Period |-> [f \in Field |->
             IF <<p, f>> \in done.slots THEN 0
             ELSE IF passed /\ voters[p][f] # <<>> THEN Older(a[p][f]) ELSE a[p][f]]]
           ages == After(age)
       IN  /\ voters' = done.votes /\ age' = ages
           /\ silence' = After(silence) /\ torn' = torn \ done.slots
           /\ current' = IF Headers(seg) = {} THEN Carried(seg) ELSE seg[LastOf(Headers(seg))].x
           /\ gap' = (gap /\ Kinds(seg) \cap {"area", "recap", "header"} = {})
           /\ city' = IF passed THEN seg[FirstOf({i \in DOMAIN seg : seg[i].kind = "area"})].x ELSE city
           /\ writing' = IF Changed(done.votes, ages) THEN Rows(Values(done.votes, ages)) ELSE {}
  /\ Advance(n)
  /\ UNCHANGED <<readout, losses, deaths, opened, latest>>

-----------------------------------------------------------------------------
(* The table. *)

\* write_forecast, one statement per period; the first one makes the issuance the
\* latest.  In which order the periods come is left open.
WriteRow(p) ==
  /\ p \in writing
  /\ latest' = [latest EXCEPT ![city] = [(IF opened THEN @ ELSE Blank) EXCEPT ![p] = Current[p]]]
  /\ writing' = writing \ {p}
  /\ opened' = (writing # {p})
  /\ UNCHANGED <<station, deaths, aggregator, gap, silence, torn>>

\* Mutant of Primed: a restart restores the temperatures only.
PrimedTemps(row, f) == IF f = "precip" \/ row[f] = None THEN <<>> ELSE Cast(<<>>, row[f], 0, MaxLen)
\* prime: the served value is one vote.
Primed(row, f) == IF row[f] = None THEN <<>> ELSE Cast(<<>>, row[f], 0, MaxLen)

\* The process ends at any point, and the next one primes from the latest issuance of
\* the area it is constructed with.
Restart ==
  /\ deaths < MaxDeaths
  /\ deaths' = deaths + 1
  /\ voters' = [p \in Period |-> [f \in Field |-> Primed(latest[BootArea][p], f)]]
  /\ age' = Zeros /\ current' = None /\ city' = BootArea /\ gap' = FALSE
  /\ LET values == Current
         Unprimed(slot) == values[slot[1]][slot[2]] # None /\ latest[BootArea][slot[1]][slot[2]] = None
     IN  torn' = torn \cup {slot \in Slots : Unprimed(slot)}
  /\ writing' = {} /\ opened' = FALSE
  /\ UNCHANGED <<station, latest, silence>>

Next ==
  \/ Revise \/ Restart
  \/ \E n \in 1..MaxClauses : Lose(n) \/ Hear(n)
  \/ \E p \in Period : WriteRow(p)

Spec == Init /\ [][Next]_vars

-----------------------------------------------------------------------------
(* Properties. *)

StationType ==
  /\ readout \in Readouts /\ pos \in DOMAIN readout /\ losses \in 0..MaxLost
  /\ deaths \in 0..MaxDeaths
Rowss == [Period -> [Field -> ValueOf \cup {None}]]
AggregatorType ==
  /\ current \in Period \cup {None} /\ city \in Area
  /\ \A p \in Period, f \in Field :
       /\ voters[p][f] \in Seq([value : ValueOf, at : {0}]) /\ Len(voters[p][f]) <= MaxLen
       /\ age[p][f] \in 0..Never
TableType ==
  /\ writing \subseteq Rows(Current) /\ opened \in BOOLEAN
  /\ latest \in [Area -> Rowss]
AuxType ==
  /\ gap \in BOOLEAN /\ torn \subseteq Slots
  /\ silence \in [Period -> [Field -> 0..Never]]

\* Every variable stays in its range, no voter outgrows its depth, and only periods
\* with a value are written.
TypeOK == StationType /\ AggregatorType /\ TableType /\ AuxType

\* The API serves the newest issuance of each area.
Served(p, f) == \E a \in Area : latest[a][p][f] # None

\* Whenever no issuance is being written, /forecast serves what the votes say, across
\* restarts too; unless they say nothing any more: then nothing is written, and the last
\* issuance stays.  It is served under the area the station named when it was written: a
\* new name alone is no change.
ServedIsVoted == writing = {} => Rows(Current) = {} \/ \E a \in Area : latest[a] = Current

\* A value stated in the last StalePasses readouts is served, whatever restarts came
\* since ("so a restart keeps /forecast"), unless a process died while it wrote an
\* issuance, or had written it under another area than the one the next process primes
\* from, and the value was not stated again.
RestartKeepsForecast ==
  writing = {} => \A p \in Period, f \in Field :
    silence[p][f] < Never => Served(p, f) \/ <<p, f>> \in torn

\* As long as the aggregator has anything to say, it serves nothing that the station
\* has stopped stating for more than StalePasses readouts (first life: a restart
\* starts the count again; one area: what was written under a misheard name stays).
StoppedValuesAgeOut ==
  /\ writing = {} /\ deaths = 0 /\ Rows(Current) # {}
  /\ \A a \in Area \ {city} : latest[a] = Blank
  => \A p \in Period, f \in Field : Served(p, f) => silence[p][f] < Never

\* The texts of a day.  They begin with the area; a value stands under the header of its
\* period; and where a header follows another one, that is its predecessor, or the
\* predecessor goes by a name that is in no text ("Tonight" stands before "Thursday",
\* whose predecessor _period_predecessor calls "Wednesday Night").
IsHead(r, h) == r[h].kind = "header"
Follows(r, h, i) == h < i /\ IsHead(r, h) /\ \A k \in h + 1 .. i - 1 : ~IsHead(r, k)
Opens(p) == \E r \in Readouts : \E k \in DOMAIN r : IsHead(r, k) /\ r[k].x = p
InOrder(r) ==
  /\ r[1].kind = "area"
  /\ \A i \in DOMAIN r : r[i].kind \in Field \cup {"steady"} =>
       \E h \in 1 .. i - 1 : Follows(r, h, i) /\ r[h].x = r[i].x.of
  /\ \A i \in DOMAIN r : \A h \in 1 .. i - 1 :
       IsHead(r, i) /\ Follows(r, h, i) => Pred[r[i].x] = r[h].x \/ ~Opens(Pred[r[i].x])
TextsInOrder == \A r \in Readouts : InOrder(r)

Foreign(p, f) == {i \in DOMAIN voters[p][f] : voters[p][f][i].value.of # p}

\* A segment with a header never votes a value onto a period the station was not
\* speaking of, nor does one without a header unless a segment was lost before it.
\* (Hearing a header, or a new readout, ends the gap.)
OwnPeriod ==
  [][deaths' = deaths /\ ~(gap /\ gap') =>
       \A p \in Period, f \in Field : Cardinality(Foreign(p, f)') <= Cardinality(Foreign(p, f))]_vars

=============================================================================
