-------------------------------- MODULE Voter --------------------------------
(***************************************************************************)
(* _FieldVoter of wxparser/extract.py: the majority vote over a rolling,   *)
(* recency-bounded window of sightings.                                    *)
(***************************************************************************)
EXTENDS Integers, Sequences, FiniteSets

\* Mutant of Cast: a deque without maxlen.
CastUnbounded(samples, value, at, maxlen) == Append(samples, [value |-> value, at |-> at])

\* add: append to the deque(maxlen).
Cast(samples, value, at, maxlen) ==
  LET kept == IF Len(samples) < maxlen THEN samples ELSE Tail(samples)
  IN  Append(kept, [value |-> value, at |-> at])

\* Mutant of Counted: the plain mode, bounded by depth only.
CountedEver(samples, stale) == DOMAIN samples

\* best counts the samples at most stale seconds older than the last one added.
Counted(samples, stale) ==
  {i \in DOMAIN samples : samples[Len(samples)].at - samples[i].at <= stale}

Votes(samples, pool, v) == Cardinality({i \in pool : samples[i].value = v})

Leads(samples, pool, i) ==
  \A j \in pool : Votes(samples, pool, samples[j].value) <= Votes(samples, pool, samples[i].value)

\* Mutant of Best: ties go to the value heard first.
BestOldest(samples, stale) ==
  LET pool == Counted(samples, stale)
      i == CHOOSE k \in pool : /\ Leads(samples, pool, k)
                               /\ \A j \in pool : Leads(samples, pool, j) => k <= j
  IN  samples[i].value

\* The value with the most votes; of those tied, the most recently heard.
Best(samples, stale) ==
  LET pool == Counted(samples, stale)
      i == CHOOSE k \in pool : /\ Leads(samples, pool, k)
                               /\ \A j \in pool : Leads(samples, pool, j) => j <= k
  IN  samples[i].value

=============================================================================
