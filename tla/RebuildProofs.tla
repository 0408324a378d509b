---------------------------- MODULE RebuildProofs ----------------------------
(***************************************************************************)
(* Theorems about Rebuild: for every station, every clock and any number   *)
(* of nights, airings and deaths, what the structured tables can lack and  *)
(* what they can count.                                                    *)
(***************************************************************************)
EXTENDS Rebuild, FiniteSetTheorems, SequenceTheorems, TLAPS

-----------------------------------------------------------------------------
(* Induction on the naturals, in the first-order form the provers can use. *)

\* A set of naturals that is not empty has a least element.
LEMMA LeastNat ==
  ASSUME NEW T \in SUBSET Nat, T # {}
  PROVE  \E x \in T : \A y \in T : x <= y
<1>1. PICK x \in T : \A y \in T : ~ (<<y, x>> \in OpToRel(<, Nat))
  BY NatLessThanWellFounded, WFMin
<1>2. \A y \in T : ~ (y < x)
  BY <1>1 DEF OpToRel
<1> QED
  BY <1>2

\* A set of naturals that is not empty and has a bound has a greatest element.
LEMMA GreatestNat ==
  ASSUME NEW n \in Nat, NEW T \in SUBSET (0..n), T # {}
  PROVE  \E x \in T : \A y \in T : y <= x
<1> DEFINE U == {n - t : t \in T}
<1>1. U \in SUBSET Nat /\ U # {}
  <2>1. \A t \in T : n - t \in Nat
    OBVIOUS
  <2> QED
    BY <2>1
<1>2. PICK u \in U : \A y \in U : u <= y
  BY <1>1, LeastNat
<1>3. PICK x \in T : u = n - x
  OBVIOUS
<1>4. \A y \in T : n - x <= n - y
  BY <1>2, <1>3
<1> QED
  BY <1>4

-----------------------------------------------------------------------------
(* The voter: for every deque, depth and staleness. *)

\* The samples of a voter whose values are in V.
SamplesOf(V) == Seq([value : V, at : Nat])

\* add keeps the samples typed, the deque within its depth, and the new sample last.
LEMMA CastKeeps ==
  ASSUME NEW V, NEW samples \in SamplesOf(V), NEW value \in V, NEW at \in Nat,
         NEW maxlen \in Nat \ {0}, Len(samples) <= maxlen,
         NEW cast, cast = Cast(samples, value, at, maxlen)
  PROVE  /\ cast \in SamplesOf(V) /\ Len(cast) \in 1..maxlen
         /\ cast[Len(cast)] = [value |-> value, at |-> at]
         /\ Len(cast) = (IF Len(samples) < maxlen THEN Len(samples) + 1 ELSE maxlen)
         /\ \A k \in 1 .. Len(cast) - 1 : cast[Len(cast) - k] = samples[Len(samples) + 1 - k]
<1> DEFINE s == [value |-> value, at |-> at]
           T == [value : V, at : Nat]
           kept == IF Len(samples) < maxlen THEN samples ELSE Tail(samples)
<1>1. s \in T /\ samples \in Seq(T)
  BY DEF SamplesOf
<1>5. cast = Append(kept, s)
  BY DEF Cast
<1>2. kept \in Seq(T) /\ Len(kept) = (IF Len(samples) < maxlen THEN Len(samples) ELSE maxlen - 1)
  BY <1>1
<1>3. cast \in Seq(T) /\ Len(cast) = Len(kept) + 1 /\ cast[Len(cast)] = s
  BY <1>1, <1>2, <1>5
<1>7. \A j \in 1 .. Len(kept) :
        kept[j] = samples[IF Len(samples) < maxlen THEN j ELSE j + 1]
  <2>1. CASE Len(samples) < maxlen
    BY <2>1
  <2>2. CASE ~ (Len(samples) < maxlen)
    <3>1. kept = Tail(samples) /\ samples \in Seq(T) /\ Len(samples) \in Nat \ {0}
      BY <1>1, <2>2
    <3> HIDE DEF T, kept
    <3> QED
      BY <2>2, <3>1
  <2> QED
    BY <2>1, <2>2
<1> HIDE DEF kept, s, T
<1>8. \A j \in 1 .. Len(kept) : cast[j] = kept[j]
  BY <1>1, <1>2, <1>5
<1>9. Len(samples) \in Nat /\ Len(samples) <= maxlen
  BY <1>1
<1>4. \A k \in 1 .. Len(cast) - 1 : cast[Len(cast) - k] = samples[Len(samples) + 1 - k]
  <2> TAKE k \in 1 .. Len(cast) - 1
  <2> DEFINE j == Len(cast) - k
  <2>1. j \in 1 .. Len(kept) /\ j = Len(kept) + 1 - k
    BY <1>2, <1>3, <1>9
  <2>2. (IF Len(samples) < maxlen THEN j ELSE j + 1) = Len(samples) + 1 - k
    BY <1>2, <1>9, <2>1
  <2> HIDE DEF j
  <2>3. cast[j] = samples[IF Len(samples) < maxlen THEN j ELSE j + 1]
    BY <1>7, <1>8, <2>1
  <2> QED
    BY <2>2, <2>3 DEF j
<1>6. Len(cast) >= 1
  BY <1>2, <1>3
<1> QED
  BY <1>2, <1>3, <1>4, <1>6, <1>9 DEF SamplesOf, s, T

\* The part of it that is about types.
LEMMA CastType ==
  ASSUME NEW V, NEW samples \in SamplesOf(V), NEW value \in V, NEW at \in Nat,
         NEW maxlen \in Nat \ {0}, Len(samples) <= maxlen
  PROVE  /\ Cast(samples, value, at, maxlen) \in SamplesOf(V)
         /\ Len(Cast(samples, value, at, maxlen)) \in 1..maxlen
BY CastKeeps

\* A tally is a number, no greater than the number of samples that vote.
LEMMA VotesBounded ==
  ASSUME NEW samples, NEW n \in Nat, NEW pool \in SUBSET (1..n), NEW v
  PROVE  Votes(samples, pool, v) \in 0..n
<1> DEFINE S == {i \in pool : samples[i].value = v}
<1>1. IsFiniteSet(1..n) /\ Cardinality(1..n) = n
  BY FS_Interval
<1>2. S \in SUBSET (1..n)
  OBVIOUS
<1> HIDE DEF S
<1>3. IsFiniteSet(S) /\ Cardinality(S) <= Cardinality(1..n)
  BY <1>1, <1>2, FS_Subset
<1>4. Cardinality(S) \in Nat
  BY <1>3, FS_CardinalityType
<1> QED
  BY <1>1, <1>3, <1>4 DEF Votes, S

\* at least as many votes as any other, and no sample with as many was heard after it.
THEOREM BestLeads ==
  ASSUME NEW V, NEW samples \in SamplesOf(V), Len(samples) >= 1, NEW stale \in Nat
  PROVE  \E i \in Counted(samples, stale) :
           /\ Best(samples, stale) = samples[i].value
           /\ Leads(samples, Counted(samples, stale), i)
           /\ \A j \in Counted(samples, stale) :
                Leads(samples, Counted(samples, stale), j) => j <= i
<1> DEFINE n == Len(samples)
           pool == Counted(samples, stale)
           V0(i) == Votes(samples, pool, samples[i].value)
<1>0. n \in Nat \ {0} /\ \A i \in 1..n : samples[i] \in [value : V, at : Nat]
  <2> DEFINE T == [value : V, at : Nat]
  <2>1. samples \in Seq(T)
    BY DEF SamplesOf
  <2> HIDE DEF T
  <2>2. n \in Nat \ {0} /\ \A i \in 1..n : samples[i] \in T
    BY <2>1, EmptySeq
  <2> QED
    BY <2>2 DEF T
<1>1. n \in 1..n /\ samples[n].at \in Nat
  BY <1>0
<1>2. pool \in SUBSET (1..n) /\ n \in pool
  BY <1>0, <1>1 DEF Counted, SamplesOf
<1> HIDE DEF n, pool, V0
<1>3. \A i \in pool : V0(i) \in 0..n
  BY <1>0, <1>2, VotesBounded DEF V0
<1> DEFINE counts == {V0(i) : i \in pool}
<1>4. counts \in SUBSET (0..n) /\ counts # {}
  BY <1>2, <1>3
<1> HIDE DEF counts
<1>5. PICK most \in counts : \A c \in counts : c <= most
  BY <1>0, <1>4, GreatestNat
<1> DEFINE leaders == {i \in pool : Leads(samples, pool, i)}
<1>6. leaders # {}
  <2>1. PICK i \in pool : most = V0(i)
    BY <1>5 DEF counts
  <2>2. \A j \in pool : V0(j) <= V0(i)
    BY <1>5, <2>1 DEF counts
  <2>3. Leads(samples, pool, i)
    BY <2>2 DEF Leads, V0
  <2> QED
    BY <2>3
<1>7. leaders \in SUBSET (0..n)
  <2>1. \A i \in 1..n : i \in 0..n
    BY <1>0
  <2> QED
    BY <1>2, <2>1
<1> HIDE DEF leaders
<1>8. PICK i \in leaders : \A j \in leaders : j <= i
  BY <1>0, <1>6, <1>7, GreatestNat
<1> DEFINE Last(k) == Leads(samples, pool, k) /\ \A j \in pool : Leads(samples, pool, j) => j <= k
<1>9. \E k \in pool : Last(k)
  BY <1>8 DEF leaders
<1>10. (CHOOSE k \in pool : Last(k)) \in pool /\ Last(CHOOSE k \in pool : Last(k))
  BY <1>9
<1>11. Best(samples, stale) = samples[CHOOSE k \in pool : Last(k)].value
  BY DEF Best, pool
<1> QED
  BY <1>10, <1>11 DEF pool

\* best returns a value that was heard.
LEMMA BestIsHeard ==
  ASSUME NEW V, NEW samples \in SamplesOf(V), Len(samples) >= 1, NEW stale \in Nat
  PROVE  Best(samples, stale) \in V
<1>1. PICK i \in Counted(samples, stale) : Best(samples, stale) = samples[i].value
  BY BestLeads
<1>2. samples[i] \in [value : V, at : Nat]
  <2> DEFINE T == [value : V, at : Nat]
  <2>1. samples \in Seq(T) /\ i \in DOMAIN samples
    BY DEF Counted, SamplesOf
  <2> HIDE DEF T
  <2>2. samples[i] \in T
    BY <2>1
  <2> QED
    BY <2>2 DEF T
<1> QED
  BY <1>1, <1>2

-----------------------------------------------------------------------------
\* What both theorems need to know of the variables' ranges.
Ranges ==
  /\ now \in Nat
  /\ hand \in Value \cup Warning \cup {None}
  /\ row \in [Thread -> Record \cup {None}]
  /\ hand # None => row["worker"] = None
  /\ records \subseteq raw
  /\ phase \in {"idle", "read", "replay"}

\* The helper invariant holds in every reachable state: the worker has no row to
\* write while it holds a transcript (_handle_transcript is sequential).
LEMMA RangesInvariant == Spec => []Ranges
<1> USE DEF Ranges
<1>1. Init => Ranges
  BY RebuildAssumption DEF Init, NoRows, Thread
<1>2. Ranges /\ [Next]_vars => Ranges'
  <2> SUFFICES ASSUME Ranges, [Next]_vars PROVE Ranges'
    OBVIOUS
  <2>1. ASSUME NEW v \in Value, Vote(v) PROVE Ranges'
    BY <2>1, RebuildAssumption DEF Vote, Idle, rebuild
  <2>2. ASSUME NEW w \in Warning, HearWarning(w) PROVE Ranges'
    BY <2>2, RebuildAssumption DEF HearWarning, Idle, rebuild
  <2>3. ASSUME NEW h \in Header, StoreHeader(h) PROVE Ranges'
    <3>1. [at |-> now, said |-> h] \in Record
      BY DEF Record, Said
    <3> QED
      BY <2>3, <3>1, RebuildAssumption DEF StoreHeader, Store, Thread, rebuild
  <2>4. CASE DropDuplicate
    BY <2>4, RebuildAssumption DEF DropDuplicate, clock, rebuild
  <2>5. CASE StoreTranscript
    <3>1. [at |-> now, said |-> hand] \in Record
      BY <2>5 DEF Record, Said, StoreTranscript
    <3> QED
      BY <2>5, <3>1, RebuildAssumption DEF StoreTranscript, Store, Thread, clock, rebuild
  <2>6. ASSUME NEW t \in Thread, WriteRow(t) PROVE Ranges'
    BY <2>6, RebuildAssumption DEF WriteRow, Thread, clock, rebuild
  <2>7. ASSUME NEW state, Ends(state) PROVE Ranges'
    BY <2>7, RebuildAssumption DEF Ends, NoRows, Thread, rebuild
  <2>8. CASE Start
    BY <2>8 DEF Start, clock, rebuild
  <2>9. CASE ReadStore
    BY <2>9 DEF ReadStore, clock, service
  <2>10. CASE ClearTables
    BY <2>10 DEF ClearTables, clock, service
  <2>11. CASE Replay
    BY <2>11, RebuildAssumption DEF Replay, clock, service
  <2>12. CASE Finish
    BY <2>12 DEF Finish, clock, service
  <2>13. CASE RebuildDies
    BY <2>13 DEF RebuildDies, service
  <2>14. CASE UNCHANGED vars
    BY <2>14 DEF vars, clock, service, rebuild
  <2> QED
    BY <2>1, <2>2, <2>3, <2>4, <2>5, <2>6, <2>7, <2>8, <2>9, <2>10, <2>11, <2>12, <2>13, <2>14
    DEF Next, Serve, RebuildStep, ServiceDies, StopByHand
<1> QED
  BY <1>1, <1>2, PTL DEF Spec

-----------------------------------------------------------------------------
(* Nothing is missing but what is exposed. *)

\* A thread that takes up a new row forgets none: what Pending covered it still covers.
LEMMA StoreKeepsPending ==
  ASSUME Ranges, NEW t \in Thread, row[t] = None, NEW r \in Record,
         Store(t, r)
  PROVE  Pending \subseteq Pending' /\ (r.said \notin Value => r \in Pending')
<1>1. row' \in [Thread -> Record \cup {None}]
  BY DEF Ranges, Store
<1>2. \A u \in Thread : row[u] # None => row'[u] = row[u]
  BY DEF Ranges, Store
<1>3. r.said \notin Value => row'[t] = r /\ r # None
  BY RebuildAssumption DEF Ranges, Store
<1> QED
  BY <1>2, <1>3 DEF Pending

\* An alert or a warning's detail whose record is stored is served, unless a thread
\* or the running replay is about to write it, or its writer died, or it was stored
\* between the rebuild's read (reprocess.py:38) and its TRUNCATE.
THEOREM NothingElseIsMissing == Spec => []OnlyExposedMissing
<1> USE DEF OnlyExposedMissing
<1>1. Init => OnlyExposedMissing
  BY DEF Init, Keyed
<1>2. Ranges /\ OnlyExposedMissing /\ [Next]_vars => OnlyExposedMissing'
  <2> SUFFICES ASSUME Ranges, OnlyExposedMissing, [Next]_vars PROVE OnlyExposedMissing'
    OBVIOUS
  <2> USE DEF Keyed
  <2>1. ASSUME NEW v \in Value, Vote(v) PROVE OnlyExposedMissing'
    BY <2>1 DEF Vote, rebuild, Pending
  <2>2. ASSUME NEW w \in Warning, HearWarning(w) PROVE OnlyExposedMissing'
    BY <2>2 DEF HearWarning, rebuild, tables, Pending
  <2>3. ASSUME NEW h \in Header, StoreHeader(h) PROVE OnlyExposedMissing'
    <3> DEFINE r == [at |-> now, said |-> h]
    <3>1. r \in Record /\ row["producer"] = None /\ Store("producer", r)
      BY <2>3 DEF StoreHeader, Record, Said, Ranges
    <3>2. Pending \subseteq Pending' /\ (r.said \notin Value => r \in Pending')
      BY <3>1, StoreKeepsPending DEF Thread
    <3>3. raw' = raw \cup {r} /\ UNCHANGED <<keyed, exposed, phase, records>>
      BY <2>3 DEF StoreHeader, Store, tables, rebuild
    <3> HIDE DEF r
    <3> QED
      BY <3>2, <3>3
  <2>4. CASE DropDuplicate
    BY <2>4 DEF DropDuplicate, rebuild, tables, Pending
  <2>5. CASE StoreTranscript
    <3> DEFINE r == [at |-> now, said |-> hand]
    <3>1. r \in Record /\ row["worker"] = None /\ Store("worker", r)
      BY <2>5 DEF StoreTranscript, Record, Said, Ranges
    <3>2. Pending \subseteq Pending' /\ (r.said \notin Value => r \in Pending')
      BY <3>1, StoreKeepsPending DEF Thread
    <3>3. raw' = raw \cup {r} /\ UNCHANGED <<keyed, exposed, phase, records>>
      BY <2>5 DEF StoreTranscript, Store, tables, rebuild
    <3> HIDE DEF r
    <3> QED
      BY <3>2, <3>3
  <2>6. ASSUME NEW t \in Thread, WriteRow(t) PROVE OnlyExposedMissing'
    <3>1. keyed' = keyed \cup {row[t]} /\ UNCHANGED <<raw, exposed, phase, records>>
      BY <2>6 DEF WriteRow, rebuild
    <3>2. \A u \in Thread \ {t} : row'[u] = row[u]
      BY <2>6 DEF WriteRow, Ranges
    <3>3. Pending \subseteq Pending' \cup {row[t]}
      BY <3>2 DEF Pending
    <3> QED
      BY <3>1, <3>3
  <2>7. ASSUME NEW state, Ends(state) PROVE OnlyExposedMissing'
    BY <2>7 DEF Ends, rebuild, tables
  <2>8. CASE Start
    BY <2>8 DEF Start, rebuild, tables, Pending
  <2>9. CASE ReadStore
    BY <2>9 DEF ReadStore, service, tables, Pending
  <2>10. CASE ClearTables
    BY <2>10 DEF ClearTables, service, Pending
  <2>11. CASE Replay
    <3>1. PICK r \in records : /\ records' = records \ {r}
                               /\ keyed \subseteq keyed'
                               /\ r.said \notin Value => r \in keyed'
      BY <2>11 DEF Replay, Earliest
    <3>2. phase = "replay" /\ UNCHANGED <<raw, exposed, phase, row>>
      BY <2>11 DEF Replay, service
    <3> QED
      BY <3>1, <3>2 DEF Pending, Thread
  <2>12. CASE Finish
    BY <2>12 DEF Finish, service, tables, Pending
  <2>13. CASE RebuildDies
    BY <2>13 DEF RebuildDies, service, tables, Pending
  <2>14. CASE UNCHANGED vars
    BY <2>14 DEF vars, service, rebuild, tables, Pending
  <2> QED
    BY <2>1, <2>2, <2>3, <2>4, <2>5, <2>6, <2>7, <2>8, <2>9, <2>10, <2>11, <2>12, <2>13, <2>14
    DEF Next, Serve, RebuildStep, ServiceDies, StopByHand
<1> QED
  BY <1>1, <1>2, RangesInvariant, PTL DEF Spec

-----------------------------------------------------------------------------
(* No airing is counted twice. *)

\* The readings the running replay has yet to count, and the one voted but not stored.
Uncounted == IF phase = "replay" THEN {r \in records : r.said \in Value} ELSE {}
InHand    == IF hand \in Value THEN 1 ELSE 0

\* Every stored reading was voted once and is not the one in hand; what the tables
\* count and what the replay has yet to count are different airings.
CountInv ==
  /\ IsFiniteSet(raw) /\ IsFiniteSet(obs)
  /\ votes \in Nat /\ latest.sightings \in Nat
  /\ Cardinality(Readings) + InHand <= votes
  /\ latest.sightings + Cardinality(Uncounted) <= votes
  /\ Cardinality(obs) + Cardinality(Uncounted) <= votes

\* A set grows by at most one element at a time.
LEMMA GrowsByOne ==
  ASSUME NEW S, NEW x, IsFiniteSet(S)
  PROVE  /\ IsFiniteSet(S \cup {x})
         /\ Cardinality(S) \in Nat /\ Cardinality(S \cup {x}) \in Nat
         /\ Cardinality(S \cup {x}) <= Cardinality(S) + 1
<1>1. Cardinality(S) \in Nat
  BY FS_CardinalityType
<1>2. /\ IsFiniteSet(S \cup {x})
      /\ Cardinality(S \cup {x}) = IF x \in S THEN Cardinality(S) ELSE Cardinality(S) + 1
  BY FS_AddElement
<1> QED
  BY <1>1, <1>2

\* A heard reading adds one sighting and at most one row of history.
LEMMA ReadingCountsOnce ==
  ASSUME IsFiniteSet(obs), latest.sightings \in Nat, NEW value, NEW at, RecordReading(value, at)
  PROVE  /\ IsFiniteSet(obs') /\ Cardinality(obs') \in Nat
         /\ Cardinality(obs') <= Cardinality(obs) + 1
         /\ latest'.sightings = latest.sightings + 1
<1>1. latest'.sightings = latest.sightings + 1
  BY DEF RecordReading
<1>2. CASE obs' = obs
  <2>1. Cardinality(obs) \in Nat
    BY FS_CardinalityType
  <2> QED
    BY <1>1, <1>2, <2>1
<1>3. CASE obs' = obs \cup {[at |-> at, value |-> value]}
  BY <1>1, <1>3, GrowsByOne
<1> QED
  BY <1>2, <1>3 DEF RecordReading, History

\* The sets of CountInv are finite, so that their cardinalities are numbers.
LEMMA CountableSets ==
  ASSUME Ranges, CountInv
  PROVE  /\ IsFiniteSet(Readings) /\ Cardinality(Readings) \in Nat
         /\ IsFiniteSet(Uncounted) /\ Cardinality(Uncounted) \in Nat
         /\ Cardinality(obs) \in Nat /\ InHand \in Nat
<1>1. Readings \subseteq raw /\ Uncounted \subseteq raw
  BY DEF Readings, Uncounted, Ranges
<1>2. IsFiniteSet(Readings) /\ IsFiniteSet(Uncounted)
  BY <1>1, FS_Subset DEF CountInv
<1>3. InHand \in Nat
  BY DEF InHand
<1> QED
  BY <1>2, <1>3, FS_CardinalityType DEF CountInv

\* What the rebuild counts is what is stored, and what is stored was voted.
LEMMA CountInvariant == Spec => []CountInv
<1>1. Init => CountInv
  <2> SUFFICES ASSUME Init PROVE CountInv
    OBVIOUS
  <2>1. Readings = {} /\ Uncounted = {} /\ obs = {} /\ raw = {} /\ InHand = 0
    BY RebuildAssumption DEF Init, Readings, Uncounted, InHand, Said
  <2> QED
    BY <2>1, FS_EmptySet DEF Init, CountInv, Nothing
<1>2. Ranges /\ CountInv /\ [Next]_vars => CountInv'
  <2> SUFFICES ASSUME Ranges, CountInv, [Next]_vars PROVE CountInv'
    OBVIOUS
  <2>0. /\ IsFiniteSet(Readings) /\ Cardinality(Readings) \in Nat
        /\ IsFiniteSet(Uncounted) /\ Cardinality(Uncounted) \in Nat
        /\ Cardinality(obs) \in Nat /\ InHand \in Nat
    BY CountableSets
  <2>1. ASSUME NEW v \in Value, Vote(v) PROVE CountInv'
    <3>1. InHand = 0 /\ InHand' = 1
      BY <2>1, RebuildAssumption DEF Vote, Idle, InHand, Said
    <3>2. Readings' = Readings /\ Uncounted' = Uncounted /\ raw' = raw /\ votes' = votes + 1
      BY <2>1 DEF Vote, Readings, Uncounted, rebuild
    <3>3. /\ IsFiniteSet(obs') /\ Cardinality(obs') \in Nat
          /\ Cardinality(obs') <= Cardinality(obs) + 1
          /\ latest'.sightings = latest.sightings + 1
      BY <2>1, ReadingCountsOnce DEF Vote, CountInv
    <3> QED
      BY <2>0, <3>1, <3>2, <3>3 DEF CountInv
  <2>2. ASSUME NEW w \in Warning, HearWarning(w) PROVE CountInv'
    <3>1. InHand' = 0
      BY <2>2, RebuildAssumption DEF HearWarning, InHand
    <3>2. /\ Readings' = Readings /\ Uncounted' = Uncounted
          /\ UNCHANGED <<raw, votes, latest, obs>>
      BY <2>2 DEF HearWarning, Readings, Uncounted, rebuild, tables
    <3> QED
      BY <2>0, <3>1, <3>2 DEF CountInv
  <2>3. ASSUME NEW h \in Header, StoreHeader(h) PROVE CountInv'
    <3>1. raw' = raw \cup {[at |-> now, said |-> h]} /\ h \notin Value
      BY <2>3, RebuildAssumption DEF StoreHeader, Store
    <3>2. Readings' = Readings
      BY <3>1 DEF Readings
    <3>3. UNCHANGED <<Uncounted, InHand, votes, latest, obs>>
      BY <2>3 DEF StoreHeader, Uncounted, InHand, rebuild, tables
    <3>4. IsFiniteSet(raw')
      BY <3>1, FS_AddElement DEF CountInv
    <3> QED
      BY <3>2, <3>3, <3>4 DEF CountInv
  <2>4. CASE DropDuplicate
    <3>1. InHand' = 0
      BY <2>4, RebuildAssumption DEF DropDuplicate, InHand, Said
    <3>2. /\ Readings' = Readings /\ Uncounted' = Uncounted
          /\ UNCHANGED <<raw, votes, latest, obs>>
      BY <2>4 DEF DropDuplicate, Readings, Uncounted, rebuild, tables
    <3> QED
      BY <2>0, <3>1, <3>2 DEF CountInv
  <2>5. CASE StoreTranscript
    <3> DEFINE r == [at |-> now, said |-> hand]
    <3>0. r.said = hand
      OBVIOUS
    <3>1. /\ raw' = raw \cup {r} /\ UNCHANGED <<Uncounted, votes, latest, obs>>
      BY <2>5 DEF StoreTranscript, Store, Uncounted, rebuild, tables
    <3>2. InHand' = 0
      BY <2>5, RebuildAssumption DEF StoreTranscript, InHand, Said
    <3>3. IsFiniteSet(raw')
      BY <3>1, FS_AddElement DEF CountInv
    <3>4. Cardinality(Readings') \in Nat /\ Cardinality(Readings') <= Cardinality(Readings) + InHand
      <4>1. CASE hand \in Value
        <5> HIDE DEF r
        <5>1. Readings' = Readings \cup {r} /\ InHand = 1
          <6>1. r \in raw' /\ r.said \in Value
            BY <3>0, <3>1, <4>1
          <6> QED
            BY <3>1, <4>1, <6>1 DEF Readings, InHand
        <5> QED
          BY <5>1, <2>0, GrowsByOne
      <4>2. CASE hand \notin Value
        <5>1. Readings' = Readings /\ InHand = 0
          BY <3>1, <4>2 DEF Readings, InHand
        <5> QED
          BY <5>1, <2>0
      <4> QED
        BY <4>1, <4>2
    <3> QED
      BY <2>0, <3>1, <3>2, <3>3, <3>4 DEF CountInv
  <2>6. ASSUME NEW t \in Thread, WriteRow(t) PROVE CountInv'
    BY <2>6 DEF WriteRow, CountInv, Readings, Uncounted, InHand, clock, rebuild
  <2>7. ASSUME NEW state, Ends(state) PROVE CountInv'
    <3>1. InHand' = 0
      BY <2>7, RebuildAssumption DEF Ends, InHand, Said
    <3>2. /\ Readings' = Readings /\ Uncounted' = Uncounted
          /\ UNCHANGED <<raw, votes, latest, obs>>
      BY <2>7 DEF Ends, Readings, Uncounted, rebuild, tables
    <3> QED
      BY <2>0, <3>1, <3>2 DEF CountInv
  <2>8. CASE Start
    BY <2>8 DEF Start, CountInv, Readings, Uncounted, InHand, rebuild, tables
  <2>9. CASE ReadStore
    <3>1. Uncounted = {} /\ Uncounted' = {}
      BY <2>9 DEF ReadStore, Uncounted
    <3> QED
      BY <2>9, <3>1 DEF ReadStore, CountInv, Readings, InHand, service, tables
  <2>10. CASE ClearTables
    <3>1. Uncounted' \subseteq Readings
      BY <2>10 DEF ClearTables, Uncounted, Readings, Ranges
    <3>2. Cardinality(Uncounted') \in Nat /\ Cardinality(Uncounted') <= Cardinality(Readings)
      BY <2>0, <3>1, FS_Subset, FS_CardinalityType
    <3>3. latest'.sightings = 0 /\ Cardinality(obs') = 0 /\ IsFiniteSet(obs')
      BY <2>10, FS_EmptySet DEF ClearTables, Nothing
    <3>4. UNCHANGED <<raw, Readings, InHand, votes>>
      BY <2>10 DEF ClearTables, Readings, InHand, service
    <3> QED
      BY <2>0, <3>2, <3>3, <3>4 DEF CountInv
  <2>11. CASE Replay
    <3>1. UNCHANGED <<raw, Readings, InHand, votes, phase>> /\ phase = "replay"
      BY <2>11 DEF Replay, Readings, InHand, service
    <3>2. PICK r \in records :
            /\ records' = records \ {r}
            /\ IF r.said \in Value THEN RecordReading(Best(tally', Stale), r.at)
                                   ELSE UNCHANGED <<latest, obs>>
      BY <2>11 DEF Replay, Earliest
    <3>3. CASE r.said \in Value
      <4>1. Uncounted' = Uncounted \ {r} /\ r \in Uncounted
        BY <3>1, <3>2, <3>3 DEF Uncounted
      <4>2. /\ Cardinality(Uncounted') \in Nat
            /\ Cardinality(Uncounted') = Cardinality(Uncounted) - 1
        BY <2>0, <4>1, FS_RemoveElement, FS_CardinalityType
      <4>3. /\ IsFiniteSet(obs') /\ Cardinality(obs') \in Nat
            /\ Cardinality(obs') <= Cardinality(obs) + 1
            /\ latest'.sightings = latest.sightings + 1
        BY <3>2, <3>3, ReadingCountsOnce DEF CountInv
      <4> QED
        BY <2>0, <3>1, <4>2, <4>3 DEF CountInv
    <3>4. CASE r.said \notin Value
      <4>1. Uncounted' = Uncounted
        BY <3>1, <3>2, <3>4 DEF Uncounted
      <4> QED
        BY <3>1, <3>2, <3>4, <4>1 DEF CountInv
    <3> QED
      BY <3>3, <3>4
  <2>12. CASE Finish
    <3>1. Uncounted = {} /\ Uncounted' = {}
      BY <2>12 DEF Finish, Uncounted
    <3> QED
      BY <2>12, <3>1 DEF Finish, CountInv, Readings, InHand, service, tables
  <2>13. CASE RebuildDies
    <3>1. Uncounted' = {}
      BY <2>13 DEF RebuildDies, Uncounted
    <3>2. Cardinality(Uncounted') = 0
      BY <3>1, FS_EmptySet
    <3> QED
      BY <2>0, <2>13, <3>2 DEF RebuildDies, CountInv, Readings, InHand, service, tables
  <2>14. CASE UNCHANGED vars
    BY <2>14 DEF vars, CountInv, Readings, Uncounted, InHand, service, rebuild, tables
  <2> QED
    BY <2>1, <2>2, <2>3, <2>4, <2>5, <2>6, <2>7, <2>8, <2>9, <2>10, <2>11, <2>12, <2>13, <2>14
    DEF Next, Serve, RebuildStep, ServiceDies, StopByHand
<1> QED
  BY <1>1, <1>2, RangesInvariant, PTL DEF Spec

\* Neither the sightings counter of record_reading nor its history table ever counts
\* an airing twice, although a live rebuild wipes and replays them under the writer.
THEOREM AiringsCountOnce == Spec => []NoDoubleCount
<1>1. Ranges /\ CountInv => NoDoubleCount
  BY CountableSets DEF CountInv, NoDoubleCount
<1> QED
  BY <1>1, RangesInvariant, CountInvariant, PTL

-----------------------------------------------------------------------------
(* Types. *)

\* Neither voter outgrows its deque.
Deques == Len(voter) <= Depth /\ Len(tally) <= Depth

\* A heard reading leaves a typed deque within its depth, whose leader is a reading.
LEMMA HeardKeeps ==
  ASSUME NEW samples \in Samples, Len(samples) <= Depth, NEW v \in Value, NEW at \in Nat
  PROVE  /\ Heard(samples, v, at) \in Samples /\ Len(Heard(samples, v, at)) <= Depth
         /\ Best(Heard(samples, v, at), Stale) \in Value
<1>1. samples \in SamplesOf(Value) /\ Clock(at) \in Nat /\ Depth \in Nat \ {0} /\ Stale \in Nat
  BY RebuildAssumption DEF Samples, SamplesOf, Clock
<1>4. /\ Heard(samples, v, at) \in SamplesOf(Value) /\ Len(Heard(samples, v, at)) \in 1..Depth
  BY <1>1, CastType DEF Heard
<1>3. Best(Heard(samples, v, at), Stale) \in Value
  BY <1>1, <1>4, BestIsHeard
<1> QED
  BY <1>3, <1>4 DEF Samples, SamplesOf

\* record_reading keeps the row and the history typed.
LEMMA RecordKeeps ==
  ASSUME latest \in Latest, obs \subseteq [at : Nat, value : Value],
         NEW value \in Value, NEW at \in Nat, RecordReading(value, at)
  PROVE  latest' \in Latest /\ obs' \subseteq [at : Nat, value : Value]
<1>1. latest' \in Latest
  BY DEF RecordReading, Latest
<1>2. obs' \subseteq obs \cup {[at |-> at, value |-> value]}
  BY DEF RecordReading, History
<1> QED
  BY <1>1, <1>2

\* A row about to be written is that of a stored record, and goes on being so.
LEMMA StoreKeepsRows ==
  ASSUME Ranges, raw \subseteq Record, Pending \subseteq raw,
         NEW t \in Thread, NEW r \in Record, Store(t, r)
  PROVE  /\ raw' \subseteq Record /\ raw \subseteq raw' /\ Pending' \subseteq raw'
         /\ row' \in [Thread -> Record \cup {None}]
<1>1. raw' = raw \cup {r} /\ row' \in [Thread -> Record \cup {None}]
  BY DEF Store, Ranges
<1>2. \A u \in Thread : row'[u] \in {row[u], r}
  BY DEF Store, Ranges
<1>3. Pending' \subseteq Pending \cup {r}
  BY <1>2 DEF Pending
<1> QED
  BY <1>1, <1>3

\* All of TypeOK that is not about the flag of the proof itself.
Typed ==
  /\ field \in Fields /\ now \in Nat /\ heard \in Nat /\ faults \in Nat /\ votes \in Nat
  /\ ServiceType /\ RebuildType /\ TableType

\* Typed and the bound of the deques are inductive together.
LEMMA TypedInvariant == Spec => [](Typed /\ Deques)
<1> USE DEF ServiceType, RebuildType, TableType
<1>1. Init => Typed /\ Deques
  <2> SUFFICES ASSUME Init PROVE Typed /\ Deques
    OBVIOUS
  <2>1. Pending = {}
    BY DEF Init, Pending, NoRows, Thread
  <2>2. <<>> \in Samples /\ Len(<<>>) = 0
    BY EmptySeq DEF Samples
  <2> QED
    BY <2>1, <2>2, RebuildAssumption DEF Init, Typed, Deques, NoRows, Nothing, Latest, Thread
<1>2. Ranges /\ Typed /\ Deques /\ [Next]_vars => Typed' /\ Deques'
  <2> SUFFICES ASSUME Ranges, Typed, Deques, [Next]_vars PROVE Typed' /\ Deques'
    OBVIOUS
  <2>0. Depth \in Nat \ {0} /\ <<>> \in Samples /\ Len(<<>>) = 0
    BY RebuildAssumption, EmptySeq DEF Samples
  <2>1. ASSUME NEW v \in Value, Vote(v) PROVE Typed' /\ Deques'
    <3>1. now' \in Nat /\ voter' = Heard(voter, v, now')
      BY <2>1 DEF Vote, Typed
    <3>2. voter' \in Samples /\ Len(voter') <= Depth /\ Best(voter', Stale) \in Value
      BY <3>1, HeardKeeps DEF Typed, Deques
    <3>3. latest' \in Latest /\ obs' \subseteq [at : Nat, value : Value]
      BY <2>1, <3>1, <3>2, RecordKeeps DEF Vote, Typed
    <3>4. Pending' = Pending /\ live' = "up"
      BY <2>1 DEF Vote, Pending, Hears
    <3> QED
      BY <2>1, <3>1, <3>2, <3>3, <3>4 DEF Vote, Hears, Typed, Deques, rebuild
  <2>2. ASSUME NEW w \in Warning, HearWarning(w) PROVE Typed' /\ Deques'
    <3>1. Pending' = Pending /\ live' = "up"
      BY <2>2 DEF HearWarning, Pending, Hears
    <3> QED
      BY <2>2, <3>1 DEF HearWarning, Hears, Typed, Deques, rebuild, tables
  <2>3. ASSUME NEW h \in Header, StoreHeader(h) PROVE Typed' /\ Deques'
    <3> DEFINE r == [at |-> now, said |-> h]
    <3>1. r \in Record /\ Store("producer", r) /\ live' = "up"
      BY <2>3 DEF StoreHeader, Hears, Record, Said, Ranges
    <3>2. /\ raw' \subseteq Record /\ raw \subseteq raw' /\ Pending' \subseteq raw'
          /\ row' \in [Thread -> Record \cup {None}]
      BY <3>1, StoreKeepsRows DEF Typed, Thread
    <3> HIDE DEF r
    <3> QED
      BY <2>3, <3>1, <3>2 DEF StoreHeader, Hears, Typed, Deques, rebuild, tables
  <2>4. CASE DropDuplicate
    <3>1. Pending' = Pending
      BY <2>4 DEF DropDuplicate, Pending
    <3> QED
      BY <2>4, <3>1 DEF DropDuplicate, Typed, Deques, clock, rebuild, tables
  <2>5. CASE StoreTranscript
    <3> DEFINE r == [at |-> now, said |-> hand]
    <3>1. r \in Record /\ Store("worker", r) /\ live' = "up"
      BY <2>5 DEF StoreTranscript, Record, Said, Ranges, Typed
    <3>2. /\ raw' \subseteq Record /\ raw \subseteq raw' /\ Pending' \subseteq raw'
          /\ row' \in [Thread -> Record \cup {None}]
      BY <3>1, StoreKeepsRows DEF Typed, Thread
    <3> HIDE DEF r
    <3> QED
      BY <2>5, <3>1, <3>2 DEF StoreTranscript, Typed, Deques, clock, rebuild, tables
  <2>6. ASSUME NEW t \in Thread, WriteRow(t) PROVE Typed' /\ Deques'
    <3>1. row[t] \in Pending /\ row' \in [Thread -> Record \cup {None}]
      BY <2>6 DEF WriteRow, Pending, Typed
    <3>2. \A u \in Thread : row'[u] \in {row[u], None}
      BY <2>6 DEF WriteRow, Typed
    <3>3. Pending' \subseteq Pending
      BY <3>2 DEF Pending
    <3>4. live' = "up"
      BY <2>6 DEF WriteRow, Typed, NoRows
    <3> QED
      BY <2>6, <3>1, <3>3, <3>4 DEF WriteRow, Typed, Deques, clock, rebuild
  <2>7. ASSUME NEW state \in {"down", "stopped"}, Ends(state) PROVE Typed' /\ Deques'
    <3>1. Pending' = {} /\ row' \in [Thread -> Record \cup {None}]
      BY <2>7 DEF Ends, Pending, NoRows, Thread
    <3> QED
      BY <2>0, <2>7, <3>1 DEF Ends, Typed, Deques, rebuild, tables
  <2>8. CASE Start
    <3>1. voter' \in Samples /\ Len(voter') <= Depth
      <4>1. CASE latest.value = None
        BY <2>0, <2>8, <4>1 DEF Start, Primed
      <4>2. CASE latest.value # None
        <5>1. latest.value \in Value
          BY <4>2 DEF Typed, Latest
        <5>2. voter' = Cast(<<>>, latest.value, 0, Depth)
          BY <2>8, <4>2 DEF Start, Primed
        <5>3. <<>> \in SamplesOf(Value) /\ Len(<<>>) <= Depth
          BY <2>0 DEF Samples, SamplesOf
        <5>4. voter' \in SamplesOf(Value) /\ Len(voter') \in 1..Depth
          BY <2>0, <5>1, <5>2, <5>3, CastType
        <5> QED
          BY <2>0, <5>4 DEF Samples, SamplesOf
      <4> QED
        BY <4>1, <4>2
    <3>2. Pending' = Pending
      BY <2>8 DEF Start, Pending
    <3> QED
      BY <2>8, <3>1, <3>2 DEF Start, Typed, Deques, clock, rebuild, tables
  <2>9. CASE ReadStore
    <3>1. Pending' = Pending
      BY <2>9 DEF ReadStore, service, Pending
    <3> QED
      BY <2>9, <3>1 DEF ReadStore, Typed, Deques, clock, service, tables
  <2>10. CASE ClearTables
    <3>1. Pending' = Pending
      BY <2>10 DEF ClearTables, service, Pending
    <3>2. Nothing \in Latest
      BY DEF Nothing, Latest
    <3> QED
      BY <2>0, <2>10, <3>1, <3>2 DEF ClearTables, Typed, Deques, clock, service
  <2>11. CASE Replay
    <3>1. PICK r \in records :
            /\ records' = records \ {r}
            /\ IF r.said \in Value
                 THEN /\ tally' = Heard(tally, r.said, r.at)
                      /\ RecordReading(Best(tally', Stale), r.at)
                      /\ UNCHANGED keyed
                 ELSE keyed' = keyed \cup {r} /\ UNCHANGED <<tally, latest, obs>>
      BY <2>11 DEF Replay, Earliest
    <3>2. r \in raw /\ r.at \in Nat
      BY DEF Typed, Record
    <3>3. Pending' = Pending
      BY <2>11 DEF Replay, service, Pending
    <3>4. CASE r.said \in Value
      <4>1. tally' \in Samples /\ Len(tally') <= Depth /\ Best(tally', Stale) \in Value
        BY <3>1, <3>2, <3>4, HeardKeeps DEF Typed, Deques
      <4>2. latest' \in Latest /\ obs' \subseteq [at : Nat, value : Value]
        BY <3>1, <3>2, <3>4, <4>1, RecordKeeps DEF Typed
      <4> QED
        BY <2>11, <3>1, <3>3, <3>4, <4>1, <4>2 DEF Replay, Typed, Deques, clock, service
    <3>5. CASE r.said \notin Value
      BY <2>11, <3>1, <3>2, <3>3, <3>5 DEF Replay, Typed, Deques, clock, service
    <3> QED
      BY <3>4, <3>5
  <2>12. CASE Finish
    <3>1. Pending' = Pending
      BY <2>12 DEF Finish, service, Pending
    <3> QED
      BY <2>0, <2>12, <3>1 DEF Finish, Typed, Deques, clock, service, tables
  <2>13. CASE RebuildDies
    <3>1. Pending' = Pending
      BY <2>13 DEF RebuildDies, service, Pending
    <3>2. exposed' \subseteq raw /\ records' = {}
      BY <2>13 DEF RebuildDies, Typed
    <3> QED
      BY <2>0, <2>13, <3>1, <3>2 DEF RebuildDies, Typed, Deques, service, tables
  <2>14. CASE UNCHANGED vars
    <3>1. Pending' = Pending
      BY <2>14 DEF vars, service, Pending
    <3> QED
      BY <2>14, <3>1 DEF vars, clock, service, rebuild, tables, Typed, Deques
  <2> QED
    BY <2>1, <2>2, <2>3, <2>4, <2>5, <2>6, <2>7, <2>8, <2>9, <2>10, <2>11, <2>12, <2>13, <2>14
    DEF Next, Serve, RebuildStep, ServiceDies, StopByHand
<1> QED
  BY <1>1, <1>2, RangesInvariant, PTL DEF Spec

\* The flag is one.
LEMMA QuietInvariant == Spec => [](quiet \in BOOLEAN)
<1>1. Init => quiet \in BOOLEAN
  BY Zenon DEF Init
<1>2. quiet \in BOOLEAN /\ [Next]_vars => (quiet \in BOOLEAN)'
  <2>1. [Next]_vars => quiet' \in {TRUE, FALSE, quiet}
    BY Zenon DEF Next, Serve, RebuildStep, Vote, HearWarning, StoreHeader, DropDuplicate, StoreTranscript,
       WriteRow, ServiceDies, StopByHand, Ends, Start, ReadStore, ClearTables, Replay, Finish, RebuildDies, vars
  <2> QED
    BY <2>1, Zenon
<1> QED
  BY <1>1, <1>2, PTL DEF Spec

\* Every variable stays in its range: the voted value is always one the station has
\* said, a served or pending row always has its record, and a service that is not up
\* holds no transcript, no row and no vote.
THEOREM TypeCorrect == Spec => []TypeOK
<1>1. Typed /\ quiet \in BOOLEAN => TypeOK
  BY Zenon DEF Typed, TypeOK
<1> QED
  BY <1>1, TypedInvariant, QuietInvariant, PTL

-----------------------------------------------------------------------------
(* A rebuild that nobody disturbs leaves a projection of the store. *)

\* How many records of D are newer than r.
Rank(D, r) == Cardinality({q \in D : q.at > r.at})

\* The vote a record was replayed as.
Sample(r) == [value |-> r.said, at |-> Clock(r.at)]

\* The deque holds the last Depth readings of D, in the order of their stamps.
Matches(samples, D) ==
  /\ Len(samples) <= Depth
  /\ \A r \in D : Rank(D, r) < Depth =>
       Rank(D, r) < Len(samples) /\ samples[Len(samples) - Rank(D, r)] = Sample(r)
  /\ \A i \in 1..Len(samples) : \E r \in D : Rank(D, r) = Len(samples) - i

\* A rank is a number, and an older record has the higher one.
LEMMA RankOrders ==
  ASSUME NEW D \in SUBSET Record, IsFiniteSet(D)
  PROVE  /\ \A r \in D : Rank(D, r) \in Nat
         /\ \A r, q \in D : r.at < q.at => Rank(D, q) < Rank(D, r)
<1> DEFINE Newer(r) == {q \in D : q.at > r.at}
<1>1. \A r \in D : r.at \in Nat
  BY DEF Record
<1>2. \A r \in D : IsFiniteSet(Newer(r)) /\ Cardinality(Newer(r)) \in Nat
  BY FS_Subset, FS_CardinalityType
<1>3. ASSUME NEW r \in D, NEW q \in D, r.at < q.at
      PROVE  Cardinality(Newer(q)) < Cardinality(Newer(r))
  <2>1. Newer(q) \in SUBSET Newer(r) /\ q \in Newer(r) /\ q \notin Newer(q)
    BY <1>1, <1>3
  <2> HIDE DEF Newer
  <2>2. /\ Cardinality(Newer(q)) <= Cardinality(Newer(r))
        /\ Cardinality(Newer(r)) = Cardinality(Newer(q)) => Newer(r) = Newer(q)
    BY <1>2, <2>1, FS_Subset
  <2> QED
    BY <1>2, <2>1, <2>2
<1> QED
  BY <1>2, <1>3 DEF Rank

\* A record newer than all the others pushes each of them back by one.
LEMMA RankShifts ==
  ASSUME NEW D \in SUBSET Record, IsFiniteSet(D), NEW r \in Record, \A q \in D : q.at < r.at
  PROVE  /\ Rank(D \cup {r}, r) = 0
         /\ \A q \in D : Rank(D \cup {r}, q) = Rank(D, q) + 1
<1>0. r.at \in Nat /\ r \notin D /\ \A q \in D : q.at \in Nat
  BY DEF Record
<1>1. {q \in D \cup {r} : q.at > r.at} = {}
  BY <1>0
<1>2. ASSUME NEW q \in D PROVE Rank(D \cup {r}, q) = Rank(D, q) + 1
  <2> DEFINE S == {x \in D : x.at > q.at}
  <2>1. {x \in D \cup {r} : x.at > q.at} = S \cup {r} /\ r \notin S
    BY <1>0
  <2>2. IsFiniteSet(S)
    BY FS_Subset
  <2> HIDE DEF S
  <2>3. Cardinality(S \cup {r}) = Cardinality(S) + 1
    BY <2>1, <2>2, FS_AddElement
  <2> QED
    BY <2>1, <2>3 DEF Rank, S
<1> QED
  BY <1>1, <1>2, FS_EmptySet DEF Rank

\* One more reading is heard: the deque moves on with the set.
LEMMA MatchesHeard ==
  ASSUME NEW D \in SUBSET Record, IsFiniteSet(D), NEW samples \in Samples, Matches(samples, D),
         NEW r \in Record, r.said \in Value, \A q \in D : q.at < r.at
  PROVE  Matches(Heard(samples, r.said, r.at), D \cup {r})
<1> DEFINE cast == Heard(samples, r.said, r.at)
           E == D \cup {r}
<1>0. r.at \in Nat /\ Clock(r.at) \in Nat /\ Depth \in Nat \ {0} /\ samples \in SamplesOf(Value)
      /\ Len(samples) \in Nat /\ Len(samples) <= Depth
  <2>1. Len(samples) \in Nat
    BY LenProperties DEF Samples
  <2> QED
    BY <2>1, RebuildAssumption DEF Record, Clock, Samples, SamplesOf, Matches
<1>1. /\ Len(cast) \in 1..Depth
      /\ cast[Len(cast)] = Sample(r)
      /\ Len(cast) = (IF Len(samples) < Depth THEN Len(samples) + 1 ELSE Depth)
      /\ \A k \in 1 .. Len(cast) - 1 : cast[Len(cast) - k] = samples[Len(samples) + 1 - k]
  <2>1. cast = Cast(samples, r.said, Clock(r.at), Depth)
    BY DEF Heard
  <2> HIDE DEF cast
  <2> QED
    BY <1>0, <2>1, CastKeeps DEF Sample
<1> HIDE DEF cast
<1>2. /\ Rank(E, r) = 0
      /\ \A q \in D : Rank(E, q) = Rank(D, q) + 1 /\ Rank(D, q) \in Nat
  BY RankShifts, RankOrders
<1> HIDE DEF E
<1>3. ASSUME NEW q \in D, Rank(E, q) < Depth
      PROVE  Rank(E, q) < Len(cast) /\ cast[Len(cast) - Rank(E, q)] = Sample(q)
  <2> DEFINE k == Rank(D, q)
  <2>1. k \in Nat /\ Rank(E, q) = k + 1 /\ k < Depth
    BY <1>0, <1>2, <1>3
  <2>2. k < Len(samples) /\ samples[Len(samples) - k] = Sample(q)
    BY <2>1 DEF Matches
  <2> HIDE DEF k
  <2>3. k + 1 \in 1 .. Len(cast) - 1 /\ Len(samples) + 1 - (k + 1) = Len(samples) - k
    BY <1>0, <1>1, <1>3, <2>1, <2>2
  <2>4. cast[Len(cast) - (k + 1)] = samples[Len(samples) + 1 - (k + 1)]
    BY <1>1, <2>3
  <2> QED
    BY <1>1, <2>1, <2>2, <2>3, <2>4
<1>4. ASSUME NEW i \in 1..Len(cast) PROVE \E q \in E : Rank(E, q) = Len(cast) - i
  <2>1. CASE i = Len(cast)
    BY <1>1, <1>2, <2>1 DEF E
  <2>2. CASE i # Len(cast)
    <3> DEFINE j == i + Len(samples) + 1 - Len(cast)
    <3>1. j \in 1..Len(samples)
      BY <1>0, <1>1, <2>2
    <3>2. PICK q \in D : Rank(D, q) = Len(samples) - j
      BY <3>1 DEF Matches
    <3>3. Len(samples) - j + 1 = Len(cast) - i
      BY <1>0, <1>1
    <3> QED
      BY <1>2, <3>2, <3>3 DEF E
  <2> QED
    BY <2>1, <2>2
<1>5. Rank(E, r) < Len(cast) /\ cast[Len(cast) - Rank(E, r)] = Sample(r)
  BY <1>1, <1>2
<1>6. \A q \in E : Rank(E, q) < Depth => Rank(E, q) < Len(cast) /\ cast[Len(cast) - Rank(E, q)] = Sample(q)
  BY <1>3, <1>5 DEF E
<1>7. Len(cast) <= Depth
  BY <1>0, <1>1
<1> QED
  BY <1>4, <1>6, <1>7 DEF Matches, cast, E

\* No two readings of the store have the same stamp, and none is newer than the clock:
\* transcribing takes time, and the worker stores one before it hears the next.
Stamps ==
  /\ IsFiniteSet(raw)
  /\ \A r \in raw : r.at <= now
  /\ hand # None => \A r \in Readings : r.at < now
  /\ \A r, q \in Readings : r.at = q.at => r = q

\* The index of the sample a reading was replayed as.
Position(r) == Len(tally) - Rank(Readings, r)

\* What the lemmas about the end of a replay start from.
Replayed(D) ==
  /\ field \in {"condition", "almanac"} /\ Stale \in Nat
  /\ D \in SUBSET Record /\ IsFiniteSet(D) /\ \A r, q \in D : r.at = q.at => r = q
  /\ tally \in SamplesOf(Value) /\ Len(tally) >= 1 /\ Len(tally) \in Nat
  /\ Matches(tally, D)

\* Positions are in the order of the stamps.
LEMMA PositionsOrdered ==
  ASSUME Replayed(Readings)
  PROVE  \A r, q \in Readings : /\ Position(r) \in Int
                                /\ Position(r) = Position(q) => r = q
                                /\ Position(q) < Position(r) => q.at < r.at
<1>1. \A r \in Readings : Rank(Readings, r) \in Nat /\ r.at \in Nat
  BY RankOrders DEF Replayed, Record
<1>2. \A r, q \in Readings : r.at < q.at => Rank(Readings, q) < Rank(Readings, r)
  BY RankOrders DEF Replayed
<1>3. Len(tally) \in Nat /\ \A r, q \in Readings : r.at = q.at => r = q
  BY DEF Replayed
<1> QED
  BY <1>1, <1>2, <1>3 DEF Position

\* The counted samples are the recent readings.
LEMMA CountedAreRecent ==
  ASSUME Replayed(Readings)
  PROVE  /\ \A r \in Recent : Position(r) \in Counted(tally, Stale) /\ tally[Position(r)].value = r.said
         /\ \A i \in Counted(tally, Stale) : \E r \in Recent : Position(r) = i
<1> DEFINE n == Len(tally)
           R(r) == Rank(Readings, r)
<1>0. n \in Nat /\ n >= 1 /\ n <= Depth /\ DOMAIN tally = 1..n /\ Depth \in Nat \ {0}
  BY RebuildAssumption DEF Replayed, Matches, SamplesOf
<1>1. \A r \in Readings : R(r) \in Nat /\ r.at \in Nat
  BY RankOrders DEF Replayed, Record
<1>2. \A r, q \in Readings : r.at < q.at => R(q) < R(r)
  BY RankOrders DEF Replayed
<1>3. \A r \in Readings : R(r) < Depth => R(r) < n /\ tally[n - R(r)] = Sample(r)
  BY DEF Replayed, Matches
<1>4. \A i \in 1..n : \E r \in Readings : R(r) = n - i
  BY DEF Replayed, Matches
<1> HIDE DEF n, R
<1>5. PICK newest \in Readings : R(newest) = 0
  <2>1. n \in 1..n /\ n - n = 0
    BY <1>0
  <2> QED
    BY <1>4, <2>1
<1>6. \A q \in Readings : q.at <= newest.at
  BY <1>1, <1>2, <1>5
<1>7. tally[n] = Sample(newest)
  BY <1>0, <1>3, <1>5
<1>8. \A r \in Readings :
        (field = "condition" => \A q \in Readings : q.at - r.at <= Stale)
          <=> Sample(newest).at - Sample(r).at <= Stale
  <2>1. CASE field = "condition"
    <3>1. \A r \in Readings : Sample(r).at = r.at
      BY <2>1 DEF Sample, Clock
    <3>2. Stale \in Nat
      BY DEF Replayed
    <3> QED
      BY <1>1, <1>6, <2>1, <3>1, <3>2
  <2>2. CASE field = "almanac"
    <3>1. \A r \in Readings : Sample(r).at = 0
      BY <2>2 DEF Sample, Clock
    <3>2. Stale \in Nat
      BY DEF Replayed
    <3> QED
      BY <2>2, <3>1, <3>2
  <2> QED
    BY <2>1, <2>2 DEF Replayed
<1>9. \A r \in Readings : r \in Recent <=> R(r) < Depth /\ Sample(newest).at - Sample(r).at <= Stale
  BY <1>8 DEF Recent, R, Rank
<1>10. \A r \in Readings : R(r) < n => Position(r) \in 1..n /\ Position(r) = n - R(r)
  BY <1>0, <1>1 DEF Position, n, R
<1>11. \A i \in 1..n : i \in Counted(tally, Stale) <=> tally[n].at - tally[i].at <= Stale
  BY <1>0 DEF Counted, n
<1>12. ASSUME NEW r \in Recent
       PROVE  Position(r) \in Counted(tally, Stale) /\ tally[Position(r)].value = r.said
  <2>1. r \in Readings /\ R(r) < n /\ tally[Position(r)] = Sample(r) /\ Position(r) \in 1..n
    BY <1>3, <1>9, <1>10 DEF Recent
  <2>2. Sample(r).value = r.said
    BY DEF Sample
  <2> QED
    BY <1>7, <1>9, <1>11, <2>1, <2>2
<1>13. ASSUME NEW i \in Counted(tally, Stale) PROVE \E r \in Recent : Position(r) = i
  <2>1. i \in 1..n
    BY <1>0 DEF Counted
  <2>2. PICK r \in Readings : R(r) = n - i
    BY <1>4, <2>1
  <2>3. R(r) < n /\ R(r) < Depth /\ n - R(r) = i
    BY <1>0, <2>1, <2>2
  <2>4. Position(r) = i /\ tally[i] = Sample(r)
    BY <1>3, <1>10, <2>3
  <2>5. tally[n].at - tally[i].at <= Stale
    BY <1>11, <2>1
  <2>6. r \in Recent
    BY <1>7, <1>9, <2>3, <2>4, <2>5
  <2> QED
    BY <2>4, <2>6
<1> QED
  BY <1>12, <1>13

\* So a value has as many votes in the deque as it has support in the store.
LEMMA VotesAreSupport ==
  ASSUME Replayed(Readings), NEW v
  PROVE  /\ Votes(tally, Counted(tally, Stale), v) = Cardinality(Support(v))
         /\ Cardinality(Support(v)) \in Nat /\ IsFiniteSet(Support(v))
<1> DEFINE T == {i \in Counted(tally, Stale) : tally[i].value = v}
           f == [r \in Support(v) |-> Position(r)]
<1>1. Support(v) \subseteq Recent /\ Recent \subseteq Readings /\ \A r \in Support(v) : r.said = v
  BY DEF Support, Recent
<1>2. f \in [Support(v) -> T]
  BY <1>1, CountedAreRecent
<1>3. \A r, q \in Support(v) : f[r] = f[q] => r = q
  <2> TAKE r, q \in Support(v)
  <2>1. f[r] = Position(r) /\ f[q] = Position(q) /\ r \in Readings /\ q \in Readings
    BY <1>1
  <2>2. Position(r) = Position(q) => r = q
    BY <2>1, PositionsOrdered
  <2> QED
    BY <2>1, <2>2
<1>4. \A i \in T : \E r \in Support(v) : f[r] = i
  <2> TAKE i \in T
  <2>1. PICK r \in Recent : Position(r) = i
    BY CountedAreRecent
  <2>2. r.said = v
    BY <2>1, CountedAreRecent
  <2> QED
    BY <2>1, <2>2 DEF Support
<1>5. IsFiniteSet(Support(v))
  <2>1. IsFiniteSet(Readings) /\ Support(v) \in SUBSET Readings
    BY <1>1 DEF Replayed
  <2> QED
    BY <2>1, FS_Subset
<1> HIDE DEF f, T
<1>6. ExistsBijection(Support(v), T)
  <2>1. f \in Injection(Support(v), T)
    BY <1>2, <1>3, Zenon DEF Injection, IsInjective
  <2>2. f \in Surjection(Support(v), T)
    BY <1>2, <1>4, Zenon DEF Surjection
  <2> QED
    BY <2>1, <2>2 DEF ExistsBijection, Bijection
<1>7. Cardinality(T) = Cardinality(Support(v))
  BY <1>5, <1>6, FS_Bijection
<1> QED
  BY <1>5, <1>7, FS_CardinalityType DEF Votes, T

\* The value the replayed voter serves is the one that wins the vote in the store.
LEMMA BestWins ==
  ASSUME Replayed(Readings)
  PROVE  Wins(Best(tally, Stale))
<1> DEFINE pool == Counted(tally, Stale)
<1>1. PICK i \in pool :
        /\ Best(tally, Stale) = tally[i].value
        /\ Leads(tally, pool, i)
        /\ \A j \in pool : Leads(tally, pool, j) => j <= i
  BY BestLeads DEF Replayed
<1> DEFINE v == tally[i].value
<1>2. PICK r \in Recent : Position(r) = i /\ r.said = v
  BY CountedAreRecent
<1>3. r \in Support(v)
  BY <1>2 DEF Support
<1>4. ASSUME NEW u, u # v
      PROVE  \/ Cardinality(Support(u)) < Cardinality(Support(v))
             \/ /\ Cardinality(Support(u)) = Cardinality(Support(v))
                /\ \A q \in Support(u) : q.at < r.at
  <2>0. /\ Votes(tally, pool, u) = Cardinality(Support(u)) /\ Cardinality(Support(u)) \in Nat
        /\ Votes(tally, pool, v) = Cardinality(Support(v)) /\ Cardinality(Support(v)) \in Nat
    BY VotesAreSupport
  <2>1. CASE Support(u) = {}
    <3>1. Cardinality(Support(u)) = 0 /\ Cardinality(Support(v)) # 0
      BY <1>3, <2>1, VotesAreSupport, FS_EmptySet
    <3> QED
      BY <2>0, <3>1
  <2>2. CASE Support(u) # {}
    <3>1. ASSUME NEW q \in Support(u)
          PROVE  q \in Recent /\ Position(q) \in pool /\ tally[Position(q)].value = u
      BY CountedAreRecent DEF Support
    <3>2. Votes(tally, pool, u) <= Votes(tally, pool, v)
      BY <1>1, <2>2, <3>1 DEF Leads
    <3>3. ASSUME NEW q \in Support(u), Cardinality(Support(u)) = Cardinality(Support(v))
          PROVE  q.at < r.at
      <4>1. Leads(tally, pool, Position(q))
        BY <1>1, <2>0, <3>1, <3>3 DEF Leads
      <4>2. Position(q) <= i /\ Position(q) # i
        <5>1. Position(q) \in pool /\ tally[Position(q)].value = u
          BY <3>1, <3>3
        <5>2. Position(q) <= i
          BY <1>1, <4>1, <5>1
        <5> QED
          BY <1>4, <5>1, <5>2
      <4>3. q \in Readings /\ r \in Readings
        BY <3>1 DEF Recent
      <4> QED
        BY <1>2, <4>2, <4>3, PositionsOrdered
    <3> QED
      BY <2>0, <3>2, <3>3
  <2> QED
    BY <2>1, <2>2
<1> HIDE DEF v
<1>5. Best(tally, Stale) = v
  BY <1>1 DEF v
<1> QED
  BY <1>3, <1>4, <1>5 DEF Wins

\* The readings the running replay has counted.
Done == {r \in raw \ records : r.said \in Value}

\* A replay in a quiet night: the tables are those of the records replayed so far,
\* oldest first.
QuietReplay ==
  /\ \A r \in raw \ records, q \in records : r.at <= q.at
  /\ keyed = {r \in raw \ records : r.said \notin Value}
  /\ latest.sightings = Cardinality(Done)
  /\ IF Done = {} THEN latest.value = None ELSE Len(tally) >= 1 /\ latest.value = Best(tally, Stale)
  /\ {o.at : o \in obs} = {r.at : r \in Done}
  /\ Matches(tally, Done)

Undisturbed ==
  /\ phase = "read" /\ quiet => records = raw
  /\ phase = "replay" /\ quiet => QuietReplay

\* The stamps of the readings are all different.
LEMMA StampsInvariant == Spec => []Stamps
<1>1. Init => Stamps
  BY FS_EmptySet DEF Init, Stamps, Readings
<1>2. Ranges /\ Typed /\ Stamps /\ [Next]_vars => Stamps'
  <2> SUFFICES ASSUME Ranges, Typed, Stamps, [Next]_vars PROVE Stamps'
    OBVIOUS
  <2>0. /\ now \in Nat /\ \A r \in raw : r.at \in Nat
        /\ Readings \subseteq raw /\ IsFiniteSet(raw)
    BY DEF Typed, TableType, Record, Readings, Stamps
  <2>1. ASSUME now' = now + 1, raw' = raw PROVE Stamps'
    <3>1. Readings' = Readings /\ \A r \in raw : r.at <= now
      BY <2>1 DEF Readings, Stamps
    <3>2. \A r \in raw : r.at < now + 1
      BY <2>0, <3>1
    <3>3. \A r, q \in Readings : r.at = q.at => r = q
      BY DEF Stamps
    <3>4. \A r \in raw : r.at <= now + 1
      BY <2>0, <3>1
    <3> QED
      BY <2>0, <2>1, <3>1, <3>2, <3>3, <3>4 DEF Stamps
  <2>2. ASSUME UNCHANGED <<now, raw>>, hand' \in {hand, None} PROVE Stamps'
    <3>1. Readings' = Readings
      BY <2>2 DEF Readings
    <3> QED
      BY <2>2, <3>1 DEF Stamps
  <2>3. ASSUME NEW h \in Header, StoreHeader(h) PROVE Stamps'
    <3>1. /\ raw' = raw \cup {[at |-> now, said |-> h]} /\ h \notin Value
          /\ UNCHANGED <<now, hand>>
      BY <2>3, RebuildAssumption DEF StoreHeader, Store
    <3>2. Readings' = Readings
      BY <3>1 DEF Readings
    <3>3. IsFiniteSet(raw')
      BY <2>0, <3>1, FS_AddElement
    <3> QED
      BY <2>0, <3>1, <3>2, <3>3 DEF Stamps
  <2>4. CASE StoreTranscript
    <3> DEFINE r == [at |-> now, said |-> hand]
    <3>1. /\ raw' = raw \cup {r} /\ r.at = now
          /\ now' = now /\ hand # None /\ hand' = None
      BY <2>4 DEF StoreTranscript, Store, clock
    <3> HIDE DEF r
    <3>2. Readings' \subseteq Readings \cup {r}
      BY <3>1 DEF Readings
    <3>3. IsFiniteSet(raw')
      BY <2>0, <3>1, FS_AddElement
    <3>4. \A q \in Readings : q.at < now
      BY <3>1 DEF Stamps
    <3>5. \A p, q \in Readings : p.at = q.at => p = q
      BY DEF Stamps
    <3>6. \A p, q \in Readings \cup {r} : p.at = q.at => p = q
      BY <2>0, <3>1, <3>4, <3>5
    <3>7. \A q \in raw' : q.at <= now
      BY <2>0, <3>1 DEF Stamps
    <3>8. \A p, q \in Readings' : p.at = q.at => p = q
      BY <3>2, <3>6
    <3> QED
      BY <3>1, <3>3, <3>7, <3>8 DEF Stamps
  <2>5. ASSUME NEW v \in Value, Vote(v) PROVE now' = now + 1 /\ raw' = raw
    BY <2>5 DEF Vote
  <2>6. ASSUME NEW w \in Warning, HearWarning(w) PROVE now' = now + 1 /\ raw' = raw
    BY <2>6 DEF HearWarning
  <2>7. DropDuplicate => UNCHANGED <<now, raw>> /\ hand' = None
    BY DEF DropDuplicate, clock
  <2>8. ASSUME NEW t \in Thread, WriteRow(t) PROVE UNCHANGED <<now, raw, hand>>
    BY <2>8 DEF WriteRow, clock
  <2>9. ASSUME NEW state, Ends(state) PROVE UNCHANGED <<now, raw>> /\ hand' = None
    BY <2>9 DEF Ends
  <2>10. Start => UNCHANGED <<now, raw, hand>>
    BY DEF Start, clock
  <2>11. RebuildStep \/ RebuildDies => UNCHANGED <<now, raw, hand>>
    BY DEF RebuildStep, ReadStore, ClearTables, Replay, Finish, RebuildDies, clock, service
  <2>12. UNCHANGED vars => UNCHANGED <<now, raw, hand>>
    BY DEF vars, clock, service
  <2> QED
    BY <2>1, <2>2, <2>3, <2>4, <2>5, <2>6, <2>7, <2>8, <2>9, <2>10, <2>11, <2>12
    DEF Next, Serve, ServiceDies, StopByHand
<1> QED
  BY <1>1, <1>2, RangesInvariant, TypedInvariant, PTL DEF Spec

\* A write of the service ends the claim, and a step that touches neither the store nor
\* the tables nor the rebuild keeps it.
LEMMA ClaimEnds == ASSUME quiet' = FALSE PROVE Undisturbed'
BY Zenon DEF Undisturbed
LEMMA ClaimStays ==
  ASSUME Undisturbed, UNCHANGED <<field, rebuild, raw, tables, quiet>>
  PROVE  Undisturbed'
<1>1. UNCHANGED <<field, phase, records, tally, raw, keyed, latest, obs, quiet>>
  BY DEF rebuild, tables
<1>2. Done' = Done
  BY <1>1 DEF Done
<1>3. Matches(tally, Done)' <=> Matches(tally, Done)
  BY <1>1, <1>2 DEF Matches, Sample, Clock
<1>4. QuietReplay' <=> QuietReplay
  BY <1>1, <1>2, <1>3 DEF QuietReplay
<1>5. phase' = phase /\ records' = records /\ raw' = raw /\ quiet' = quiet
  BY <1>1
<1>6. quiet' => quiet
  BY <1>5
<1>7. phase' = "read" /\ quiet' => records' = raw'
  <2>1. phase = "read" /\ quiet => records = raw
    BY Zenon DEF Undisturbed
  <2> QED
    BY <1>5, <1>6, <2>1
<1>8. phase' = "replay" /\ quiet' => QuietReplay'
  <2>1. phase = "replay" /\ quiet => QuietReplay
    BY Zenon DEF Undisturbed
  <2> QED
    BY <1>4, <1>5, <1>6, <2>1
<1> QED
  BY <1>7, <1>8, Zenon DEF Undisturbed

\* The TRUNCATE: nothing is replayed and nothing is served.
LEMMA ClearedIsQuiet ==
  ASSUME ClearTables, records = raw
  PROVE  QuietReplay'
<1>1. /\ raw' \ records' = {} /\ keyed' = {} /\ obs' = {} /\ tally' = <<>> /\ latest' = Nothing
  BY DEF ClearTables
<1>2. Done' = {}
  BY <1>1 DEF Done
<1>3. Matches(tally, Done)'
  BY <1>1, <1>2, RebuildAssumption DEF Matches
<1> QED
  BY <1>1, <1>2, <1>3, FS_EmptySet DEF QuietReplay, Nothing

\* The replay of one more record.
LEMMA ReplayedIsQuiet ==
  ASSUME Typed, Deques, Stamps, QuietReplay, Replay
  PROVE  QuietReplay'
<1>1. PICK r \in records :
        /\ \A q \in records : r.at <= q.at
        /\ records' = records \ {r}
        /\ IF r.said \in Value
             THEN /\ tally' = Heard(tally, r.said, r.at)
                  /\ RecordReading(Best(tally', Stale), r.at)
                  /\ UNCHANGED keyed
             ELSE keyed' = keyed \cup {r} /\ UNCHANGED <<tally, latest, obs>>
  BY DEF Replay, Earliest
<1>2. UNCHANGED <<field, raw>>
  BY DEF Replay, clock
<1>3. r \in raw /\ r \in Record /\ records \subseteq raw /\ raw \subseteq Record /\ IsFiniteSet(raw)
  BY DEF Typed, RebuildType, TableType, Stamps
<1>4. raw' \ records' = (raw \ records) \cup {r} /\ r \notin raw \ records
  BY <1>1, <1>2, <1>3
<1>5. \A p \in raw' \ records', q \in records' : p.at <= q.at
  BY <1>1, <1>4 DEF QuietReplay
<1>6. Done \in SUBSET Record /\ Done \subseteq Readings /\ Done \subseteq raw \ records /\ IsFiniteSet(Done)
  <2>1. Done \in SUBSET raw /\ Done \subseteq Readings /\ Done \subseteq raw \ records
    BY DEF Done, Readings
  <2> QED
    BY <1>3, <2>1, FS_Subset
<1>7. CASE r.said \notin Value
  <2>1. Done' = Done
    BY <1>4, <1>7 DEF Done
  <2>2. keyed' = {q \in raw' \ records' : q.said \notin Value}
    BY <1>1, <1>4, <1>7 DEF QuietReplay
  <2>3. UNCHANGED <<tally, latest, obs, field>>
    BY <1>1, <1>2, <1>7
  <2>4. Matches(tally, Done)'
    BY <2>1, <2>3 DEF QuietReplay, Matches, Sample, Clock
  <2> QED
    BY <1>5, <2>1, <2>2, <2>3, <2>4 DEF QuietReplay
<1>8. CASE r.said \in Value
  <2>1. Done' = Done \cup {r} /\ r \notin Done
    BY <1>4, <1>8 DEF Done
  <2>2. keyed' = {q \in raw' \ records' : q.said \notin Value}
    BY <1>1, <1>4, <1>8 DEF QuietReplay
  <2>3. \A q \in Done : q.at < r.at
    <3> TAKE q \in Done
    <3>1. q \in raw \ records /\ q \in Readings /\ r \in Readings /\ q # r
      BY <1>3, <1>6, <1>8, <2>1 DEF Readings
    <3>2. q.at <= r.at /\ q.at # r.at
      BY <3>1 DEF QuietReplay, Stamps
    <3>3. q.at \in Nat /\ r.at \in Nat
      BY <1>3, <3>1 DEF Record
    <3> QED
      BY <3>2, <3>3
  <2>4. Matches(Heard(tally, r.said, r.at), Done \cup {r})
    BY <1>3, <1>6, <1>8, <2>3, MatchesHeard DEF QuietReplay, Typed, RebuildType
  <2>5. Matches(tally, Done)'
    BY <1>1, <1>2, <1>8, <2>1, <2>4 DEF Matches, Sample, Clock
  <2>6. Len(tally') >= 1
    <3>1. Rank(Done \cup {r}, r) = 0
      BY <1>3, <1>6, <2>3, RankShifts
    <3>2. r \in Done' /\ Rank(Done', r) = 0 /\ 0 < Depth
      BY <2>1, <3>1, RebuildAssumption
    <3>4. \A q \in Done' : Rank(Done', q) < Depth => Rank(Done', q) < Len(tally')
      BY <2>5 DEF Matches
    <3>3. Len(tally') \in Nat
      BY <1>1, <1>3, <1>8, HeardKeeps, LenProperties DEF Typed, Deques, RebuildType, Samples, Record
    <3> QED
      BY <3>2, <3>3, <3>4
  <2>7. latest'.value = Best(tally', Stale) /\ latest'.sightings = latest.sightings + 1
    BY <1>1, <1>8 DEF RecordReading
  <2>8. Cardinality(Done') = Cardinality(Done) + 1
    BY <1>6, <2>1, FS_AddElement
  <2>9. {o.at : o \in obs'} = {q.at : q \in Done'}
    <3>1. \/ obs' = obs /\ \E o \in obs : o.at = r.at
          \/ obs' = obs \cup {[at |-> r.at, value |-> Best(tally', Stale)]}
      BY <1>1, <1>8 DEF RecordReading, History
    <3>2. {o.at : o \in obs'} = {o.at : o \in obs} \cup {r.at}
      <4>1. CASE obs' = obs /\ \E o \in obs : o.at = r.at
        BY <4>1
      <4>2. CASE obs' = obs \cup {[at |-> r.at, value |-> Best(tally', Stale)]}
        <5> DEFINE new == [at |-> r.at, value |-> Best(tally', Stale)]
        <5>1. obs' = obs \cup {new} /\ new.at = r.at
          BY <4>2
        <5> HIDE DEF new
        <5> QED
          BY <5>1
      <4> QED
        BY <3>1, <4>1, <4>2
    <3>3. {q.at : q \in Done'} = {q.at : q \in Done} \cup {r.at}
      BY <2>1
    <3> QED
      BY <3>2, <3>3 DEF QuietReplay
  <2>10. latest.sightings = Cardinality(Done) /\ Done' # {}
    BY <2>1 DEF QuietReplay
  <2> QED
    BY <1>5, <2>2, <2>5, <2>6, <2>7, <2>8, <2>9, <2>10 DEF QuietReplay
<1> QED
  BY <1>7, <1>8

\* What a quiet replay has done so far is always the projection of what it has read.
LEMMA UndisturbedInvariant == Spec => []Undisturbed
<1>1. Init => Undisturbed
  BY DEF Init, Undisturbed
<1>2. Typed /\ Deques /\ Stamps /\ Undisturbed /\ [Next]_vars => Undisturbed'
  <2> SUFFICES ASSUME Typed, Deques, Stamps, Undisturbed, [Next]_vars PROVE Undisturbed'
    OBVIOUS
  <2>1. ASSUME NEW v \in Value, Vote(v) PROVE Undisturbed'
    BY <2>1, ClaimEnds DEF Vote
  <2>2. ASSUME NEW w \in Warning, HearWarning(w) PROVE Undisturbed'
    BY <2>2, ClaimStays DEF HearWarning
  <2>3. ASSUME NEW h \in Header, StoreHeader(h) PROVE Undisturbed'
    BY <2>3, ClaimEnds DEF StoreHeader
  <2>4. CASE DropDuplicate
    BY <2>4, ClaimStays DEF DropDuplicate, clock
  <2>5. CASE StoreTranscript
    BY <2>5, ClaimEnds DEF StoreTranscript
  <2>6. ASSUME NEW t \in Thread, WriteRow(t) PROVE Undisturbed'
    BY <2>6, ClaimEnds DEF WriteRow
  <2>7. ASSUME NEW state, Ends(state) PROVE Undisturbed'
    BY <2>7, ClaimStays DEF Ends
  <2>8. CASE Start
    BY <2>8, ClaimStays DEF Start, clock
  <2>9. CASE ReadStore
    <3>1. phase' = "read" /\ records' = raw'
      BY <2>9 DEF ReadStore
    <3> QED
      BY <3>1 DEF Undisturbed
  <2>10. CASE ClearTables
    <3>1. phase = "read" /\ phase' = "replay" /\ quiet' = quiet
      BY <2>10 DEF ClearTables
    <3>2. quiet => records = raw
      BY <3>1, Zenon DEF Undisturbed
    <3>3. quiet' => QuietReplay'
      BY <2>10, <3>1, <3>2, ClearedIsQuiet, Zenon
    <3> QED
      BY <3>1, <3>3 DEF Undisturbed
  <2>11. CASE Replay
    <3>1. phase = "replay" /\ phase' = "replay" /\ quiet' = quiet
      BY <2>11 DEF Replay
    <3>2. quiet => QuietReplay
      BY <3>1, Zenon DEF Undisturbed
    <3>3. quiet' => QuietReplay'
      BY <2>11, <3>1, <3>2, ReplayedIsQuiet, Zenon
    <3> QED
      BY <3>1, <3>3 DEF Undisturbed
  <2>12. CASE Finish \/ RebuildDies
    <3>1. phase' = "idle"
      BY <2>12 DEF Finish, RebuildDies
    <3> QED
      BY <3>1 DEF Undisturbed
  <2>13. CASE UNCHANGED vars
    BY <2>13, ClaimStays DEF vars, clock
  <2> QED
    BY <2>1, <2>2, <2>3, <2>4, <2>5, <2>6, <2>7, <2>8, <2>9, <2>10, <2>11, <2>12, <2>13
    DEF Next, Serve, RebuildStep, ServiceDies, StopByHand
<1> QED
  BY <1>1, <1>2, TypedInvariant, StampsInvariant, PTL DEF Spec

\* What the name of reprocess.py promises: a rebuild during which the service wrote
\* nothing leaves the structured tables a function of the transcript store: each stored
\* alert and detail has its row, the field the value that wins the vote of the last
\* Depth readings, one sighting and one stamp of history per reading, whatever the
\* tables held before and whatever has died before.
THEOREM RebuildProjects == Spec => RebuiltIsProjection
<1>1. ASSUME Typed, Stamps, Undisturbed, Finish, quiet PROVE IsProjection
  <2>1. QuietReplay /\ records = {}
    BY <1>1, Zenon DEF Finish, Undisturbed
  <2>2. Done = Readings /\ raw \ records = raw
    BY <2>1 DEF Done, Readings
  <2>3. keyed = Keyed /\ latest.sightings = Cardinality(Readings)
        /\ {o.at : o \in obs} = {r.at : r \in Readings}
    BY <2>1, <2>2 DEF QuietReplay, Keyed
  <2>4. CASE Readings = {}
    BY <2>1, <2>2, <2>3, <2>4 DEF QuietReplay, IsProjection
  <2>5. CASE Readings # {}
    <3>1. Len(tally) >= 1 /\ latest.value = Best(tally, Stale) /\ Matches(tally, Readings)
      BY <2>1, <2>2, <2>5 DEF QuietReplay
    <3>2. tally \in SamplesOf(Value) /\ Len(tally) \in Nat
      <4>1. tally \in Samples
        BY <1>1 DEF Typed, RebuildType
      <4>2. Len(tally) \in Nat
        BY <4>1, LenProperties DEF Samples
      <4> QED
        BY <4>1, <4>2 DEF Samples, SamplesOf
    <3>3. Readings \in SUBSET Record /\ IsFiniteSet(Readings) /\ \A r, q \in Readings : r.at = q.at => r = q
      <4>1. Readings \in SUBSET raw /\ raw \subseteq Record
        BY <1>1 DEF Readings, Typed, TableType
      <4> QED
        BY <1>1, <4>1, FS_Subset DEF Stamps
    <3>4. field \in {"condition", "almanac"} /\ Stale \in Nat
      BY <1>1, RebuildAssumption DEF Typed
    <3>5. Replayed(Readings)
      BY <3>1, <3>2, <3>3, <3>4 DEF Replayed
    <3>6. Wins(latest.value)
      BY <3>1, <3>5, BestWins
    <3> QED
      BY <2>3, <2>5, <3>6 DEF IsProjection
  <2> QED
    BY <2>4, <2>5
<1>2. Typed /\ Stamps /\ Undisturbed => [Finish /\ quiet => IsProjection]_vars
  BY <1>1, Zenon
<1> QED
  BY <1>2, TypedInvariant, StampsInvariant, UndisturbedInvariant, PTL DEF RebuiltIsProjection

=============================================================================
