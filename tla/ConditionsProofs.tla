--------------------------- MODULE ConditionsProofs ---------------------------
(***************************************************************************)
(* The invariants of Conditions, proved for every roster, every table of   *)
(* corrections, every station and every bound.                             *)
(***************************************************************************)
EXTENDS Conditions, FiniteSetTheorems, SequenceTheorems, TLAPS

-----------------------------------------------------------------------------
(* Induction on the naturals, in the first-order form the provers can use. *)

\* A set of naturals that is not empty has a least element.
LEMMA LeastNat ==
  ASSUME NEW T \in SUBSET Nat, T # {}
  PROVE  \E x \in T : \A y \in T : x <= y
<1>1. PICK x \in T : \A y \in T : ~ (<<y, x>> \in OpToRel(<, Nat))
  BY NatLessThanWellFounded, WFMin
<1>2. \A y \in T : ~ (y < x)
  BY <1>1 DEF OpToRel
<1> QED
  BY <1>2

\* A set of naturals that is not empty and has a bound has a greatest element.
LEMMA GreatestNat ==
  ASSUME NEW n \in Nat, NEW T \in SUBSET (0..n), T # {}
  PROVE  \E x \in T : \A y \in T : y <= x
<1> DEFINE U == {n - t : t \in T}
<1>1. U \in SUBSET Nat /\ U # {}
  <2>1. \A t \in T : n - t \in Nat
    OBVIOUS
  <2> QED
    BY <2>1
<1>2. PICK u \in U : \A y \in U : u <= y
  BY <1>1, LeastNat
<1>3. PICK x \in T : u = n - x
  OBVIOUS
<1>4. \A y \in T : n - x <= n - y
  BY <1>2, <1>3
<1> QED
  BY <1>4

\* the first-order form of induction, for a set in place of a predicate.
LEMMA SetInduction ==
  ASSUME NEW S, 0 \in S, \A n \in Nat : n \in S => n + 1 \in S
  PROVE  Nat \subseteq S
<1> SUFFICES ASSUME Nat \ S # {} PROVE FALSE
  OBVIOUS
<1>1. PICK x \in Nat \ S : \A y \in Nat \ S : x <= y
  BY LeastNat
<1>2. x # 0 /\ x - 1 \in Nat /\ x - 1 \in S
  BY <1>1
<1>3. (x - 1) + 1 \in S
  BY <1>2
<1> QED
  BY <1>1, <1>3

\* The same up to a bound.
LEMMA BoundedInduction ==
  ASSUME NEW n \in Nat, NEW S, 0 \in S, \A i \in 1..n : i - 1 \in S => i \in S
  PROVE  0..n \subseteq S
<1> DEFINE U == {i \in Nat : i <= n => i \in S}
<1>1. 0 \in U
  OBVIOUS
<1>2. ASSUME NEW i \in Nat, i \in U PROVE i + 1 \in U
  <2>1. CASE i + 1 <= n
    <3>1. i \in S /\ i + 1 \in 1..n /\ (i + 1) - 1 = i
      BY <1>2, <2>1
    <3> QED
      BY <3>1
  <2>2. CASE ~ (i + 1 <= n)
    BY <1>2, <2>2
  <2> QED
    BY <2>1, <2>2
<1> HIDE DEF U
<1>3. Nat \subseteq U
  BY <1>1, <1>2, SetInduction
<1> QED
  BY <1>3 DEF U

\* A recursion on 0..n whose step stays in T has a solution.
Solvable(T, base, n, step) ==
  \E f \in [0..n -> T] : f[0] = base /\ \A i \in 1..n : f[i] = step[<<f[i - 1], i>>]

LEMMA Recursion ==
  ASSUME NEW T, NEW base \in T, NEW n \in Nat, NEW step \in [T \X (1..n) -> T]
  PROVE  Solvable(T, base, n, step)
<1> DEFINE Solves(f, k) == f[0] = base /\ \A i \in 1..k : f[i] = step[<<f[i - 1], i>>]
           S == {k \in 0..n : \E f \in [0..k -> T] : Solves(f, k)}
<1>1. 0 \in S
  <2> DEFINE f == [i \in 0..0 |-> base]
  <2>1. f \in [0..0 -> T] /\ Solves(f, 0)
    OBVIOUS
  <2> HIDE DEF f, Solves
  <2> QED
    BY <2>1
<1>2. ASSUME NEW k \in 1..n, k - 1 \in S PROVE k \in S
  <2>1. PICK f \in [0..(k - 1) -> T] : Solves(f, k - 1)
    BY <1>2
  <2> DEFINE g == [i \in 0..k |-> IF i = k THEN step[<<f[k - 1], k>>] ELSE f[i]]
  <2>2. f[k - 1] \in T /\ step[<<f[k - 1], k>>] \in T
    OBVIOUS
  <2>3. g \in [0..k -> T]
    BY <2>2
  <2>4. \A i \in 0..(k - 1) : g[i] = f[i]
    OBVIOUS
  <2>5. g[k] = step[<<f[k - 1], k>>]
    OBVIOUS
  <2> HIDE DEF g
  <2>6. Solves(g, k)
    <3>1. g[0] = base
      BY <2>1, <2>4
    <3>2. ASSUME NEW i \in 1..k PROVE g[i] = step[<<g[i - 1], i>>]
      <4>1. CASE i = k
        BY <2>4, <2>5, <4>1
      <4>2. CASE i # k
        <5>1. i \in 1..(k - 1) /\ i \in 0..(k - 1) /\ i - 1 \in 0..(k - 1)
          BY <4>2
        <5> QED
          BY <2>1, <2>4, <5>1
      <4> QED
        BY <4>1, <4>2
    <3> QED
      BY <3>1, <3>2
  <2> QED
    BY <2>3, <2>6
<1> HIDE DEF S
<1>3. n \in S
  <2>1. 0..n \subseteq S
    BY <1>1, <1>2, BoundedInduction
  <2> QED
    BY <2>1
<1> QED
  BY <1>3 DEF S, Solvable

-----------------------------------------------------------------------------
(* The voter: for every deque, depth and staleness. *)

\* The samples of a voter whose values are in V.
SamplesOf(V) == Seq([value : V, at : Nat])

\* add keeps the samples typed, the deque within its depth, and the new sample last.
LEMMA CastKeeps ==
  ASSUME NEW V, NEW samples \in SamplesOf(V), NEW value \in V, NEW at \in Nat,
         NEW maxlen \in Nat \ {0}, Len(samples) <= maxlen,
         NEW cast, cast = Cast(samples, value, at, maxlen)
  PROVE  /\ cast \in SamplesOf(V) /\ Len(cast) \in 1..maxlen
         /\ cast[Len(cast)] = [value |-> value, at |-> at]
         /\ Len(cast) = (IF Len(samples) < maxlen THEN Len(samples) + 1 ELSE maxlen)
         /\ \A k \in 1 .. Len(cast) - 1 : cast[Len(cast) - k] = samples[Len(samples) + 1 - k]
<1> DEFINE s == [value |-> value, at |-> at]
           T == [value : V, at : Nat]
           kept == IF Len(samples) < maxlen THEN samples ELSE Tail(samples)
<1>1. s \in T /\ samples \in Seq(T)
  BY DEF SamplesOf
<1>5. cast = Append(kept, s)
  BY DEF Cast
<1>2. kept \in Seq(T) /\ Len(kept) = (IF Len(samples) < maxlen THEN Len(samples) ELSE maxlen - 1)
  BY <1>1
<1>3. cast \in Seq(T) /\ Len(cast) = Len(kept) + 1 /\ cast[Len(cast)] = s
  BY <1>1, <1>2, <1>5
<1>7. \A j \in 1 .. Len(kept) :
        kept[j] = samples[IF Len(samples) < maxlen THEN j ELSE j + 1]
  <2>1. CASE Len(samples) < maxlen
    BY <2>1
  <2>2. CASE ~ (Len(samples) < maxlen)
    <3>1. kept = Tail(samples) /\ samples \in Seq(T) /\ Len(samples) \in Nat \ {0}
      BY <1>1, <2>2
    <3> HIDE DEF T, kept
    <3> QED
      BY <2>2, <3>1
  <2> QED
    BY <2>1, <2>2
<1> HIDE DEF kept, s, T
<1>8. \A j \in 1 .. Len(kept) : cast[j] = kept[j]
  BY <1>1, <1>2, <1>5
<1>9. Len(samples) \in Nat /\ Len(samples) <= maxlen
  BY <1>1
<1>4. \A k \in 1 .. Len(cast) - 1 : cast[Len(cast) - k] = samples[Len(samples) + 1 - k]
  <2> TAKE k \in 1 .. Len(cast) - 1
  <2> DEFINE j == Len(cast) - k
  <2>1. j \in 1 .. Len(kept) /\ j = Len(kept) + 1 - k
    BY <1>2, <1>3, <1>9
  <2>2. (IF Len(samples) < maxlen THEN j ELSE j + 1) = Len(samples) + 1 - k
    BY <1>2, <1>9, <2>1
  <2> HIDE DEF j
  <2>3. cast[j] = samples[IF Len(samples) < maxlen THEN j ELSE j + 1]
    BY <1>7, <1>8, <2>1
  <2> QED
    BY <2>2, <2>3 DEF j
<1>6. Len(cast) >= 1
  BY <1>2, <1>3
<1> QED
  BY <1>2, <1>3, <1>4, <1>6, <1>9 DEF SamplesOf, s, T

\* A tally is a number, no greater than the number of samples that vote.
LEMMA VotesBounded ==
  ASSUME NEW samples, NEW n \in Nat, NEW pool \in SUBSET (1..n), NEW v
  PROVE  Votes(samples, pool, v) \in 0..n
<1> DEFINE S == {i \in pool : samples[i].value = v}
<1>1. IsFiniteSet(1..n) /\ Cardinality(1..n) = n
  BY FS_Interval
<1>2. S \in SUBSET (1..n)
  OBVIOUS
<1> HIDE DEF S
<1>3. IsFiniteSet(S) /\ Cardinality(S) <= Cardinality(1..n)
  BY <1>1, <1>2, FS_Subset
<1>4. Cardinality(S) \in Nat
  BY <1>3, FS_CardinalityType
<1> QED
  BY <1>1, <1>3, <1>4 DEF Votes, S

\* at least as many votes as any other, and no sample with as many was heard after it.
THEOREM BestLeads ==
  ASSUME NEW V, NEW samples \in SamplesOf(V), Len(samples) >= 1, NEW stale \in Nat
  PROVE  \E i \in Counted(samples, stale) :
           /\ Best(samples, stale) = samples[i].value
           /\ Leads(samples, Counted(samples, stale), i)
           /\ \A j \in Counted(samples, stale) :
                Leads(samples, Counted(samples, stale), j) => j <= i
<1> DEFINE n == Len(samples)
           pool == Counted(samples, stale)
           V0(i) == Votes(samples, pool, samples[i].value)
<1>0. n \in Nat \ {0} /\ \A i \in 1..n : samples[i] \in [value : V, at : Nat]
  <2> DEFINE T == [value : V, at : Nat]
  <2>1. samples \in Seq(T)
    BY DEF SamplesOf
  <2> HIDE DEF T
  <2>2. n \in Nat \ {0} /\ \A i \in 1..n : samples[i] \in T
    BY <2>1, EmptySeq
  <2> QED
    BY <2>2 DEF T
<1>1. n \in 1..n /\ samples[n].at \in Nat
  BY <1>0
<1>2. pool \in SUBSET (1..n) /\ n \in pool
  BY <1>0, <1>1 DEF Counted, SamplesOf
<1> HIDE DEF n, pool, V0
<1>3. \A i \in pool : V0(i) \in 0..n
  BY <1>0, <1>2, VotesBounded DEF V0
<1> DEFINE counts == {V0(i) : i \in pool}
<1>4. counts \in SUBSET (0..n) /\ counts # {}
  BY <1>2, <1>3
<1> HIDE DEF counts
<1>5. PICK most \in counts : \A c \in counts : c <= most
  BY <1>0, <1>4, GreatestNat
<1> DEFINE leaders == {i \in pool : Leads(samples, pool, i)}
<1>6. leaders # {}
  <2>1. PICK i \in pool : most = V0(i)
    BY <1>5 DEF counts
  <2>2. \A j \in pool : V0(j) <= V0(i)
    BY <1>5, <2>1 DEF counts
  <2>3. Leads(samples, pool, i)
    BY <2>2 DEF Leads, V0
  <2> QED
    BY <2>3
<1>7. leaders \in SUBSET (0..n)
  <2>1. \A i \in 1..n : i \in 0..n
    BY <1>0
  <2> QED
    BY <1>2, <2>1
<1> HIDE DEF leaders
<1>8. PICK i \in leaders : \A j \in leaders : j <= i
  BY <1>0, <1>6, <1>7, GreatestNat
<1> DEFINE Last(k) == Leads(samples, pool, k) /\ \A j \in pool : Leads(samples, pool, j) => j <= k
<1>9. \E k \in pool : Last(k)
  BY <1>8 DEF leaders
<1>10. (CHOOSE k \in pool : Last(k)) \in pool /\ Last(CHOOSE k \in pool : Last(k))
  BY <1>9
<1>11. Best(samples, stale) = samples[CHOOSE k \in pool : Last(k)].value
  BY DEF Best, pool
<1> QED
  BY <1>10, <1>11 DEF pool

-----------------------------------------------------------------------------
(* The invariant. *)

Good == Corrections[job.bad]

\* The values of a condition.
ValueOf(k) == IF k = "wind" THEN Wind ELSE Int
Truth      == [count : Int, drift : Int, at : Nat, values : SUBSET Value]
Airing     == [name : Name, cond : Cond, value : Value, at : Nat]

ClockInv == now \in Nat /\ now > Stale /\ heard \in 0..MaxHeard /\ faults \in 0..MaxFaults

\* What every variable is.
GoodVoters(v) ==
  /\ v \in [Name -> [Cond -> SamplesOf(Value)]]
  /\ \A n \in Name, k \in Cond :
       /\ Len(v[n][k]) <= MaxLen[k]
       /\ \A i \in DOMAIN v[n][k] : v[n][k][i].value \in ValueOf(k) /\ v[n][k][i].at <= now
GoodReadings(p) ==
  p \in Seq(Reading) /\ \A i \in DOMAIN p : p[i].value \in ValueOf(p[i].cond)
VoteInv    == GoodVoters(voters)
PendingInv == GoodReadings(pending)
RecentInv == recent \subseteq Airing /\ \A a \in recent : a.at <= now
RowsInv ==
  /\ rows \in [Name -> [Cond -> Row \cup {None}]]
  /\ \A n \in Name, k \in Cond :
       rows[n][k] # None => rows[n][k].seen <= now /\ rows[n][k].value \in ValueOf(k)
JobInv == job \in Job \cup {None} /\ (job # None => IsReal(job.bad))
TruthInv ==
  /\ truth \in [City -> [Cond -> Truth]]
  /\ \A c \in City, k \in Cond : truth[c][k].at <= now

TypeInv == ClockInv /\ VoteInv /\ PendingInv /\ RecentInv /\ RowsInv /\ JobInv /\ TruthInv

\* While a merge stands between its UPDATE and its DELETE, the row of the misspelling counts
\* in the good one already and must not be counted beside it.
CountInv ==
  \A c \in City, k \in Cond : Tally(Spellings(c), k) = truth[c][k].count + truth[c][k].drift

\* No row of a city that counts is newer than its newest reading, one as new has a value read
\* then, and there is such a row.
Counts(n, k) == rows[n][k] # None /\ ~InMerge(n, k)
IsNewest(n, k, t) == Counts(n, k) /\ rows[n][k].seen = t.at /\ rows[n][k].value \in t.values
NewestOf(c, k, t) ==
  /\ t.values = {} => t.at < now
  /\ \A n \in Spellings(c) : Counts(n, k) =>
       /\ rows[n][k].seen <= t.at
       /\ rows[n][k].seen = t.at => t.values = {} \/ rows[n][k].value \in t.values
  /\ t.values = {} \/ \E n \in Spellings(c) : IsNewest(n, k, t)
NewestInv == \A c \in City, k \in Cond : NewestOf(c, k, truth[c][k])

\* Every vote that still counts was on the air, and so was what is about to be recorded.
InAir(air, n, k, v) == \E a \in air : a.name = n /\ a.cond = k /\ a.value = v
AsAired(n, k, s) == [name |-> n, cond |-> k, value |-> s.value, at |-> s.at]
VotesAired(v, air) ==
  \A n \in Name, k \in Cond : \A i \in DOMAIN v[n][k] :
    now - v[n][k][i].at <= Stale => AsAired(n, k, v[n][k][i]) \in air
ReadingsAired(p, air) ==
  \A i \in DOMAIN p : p[i].cond = "speed" \/ InAir(air, p[i].name, p[i].cond, p[i].value)
AiredInv == VotesAired(voters, recent) /\ ReadingsAired(pending, recent)

\* A wind is the last reading but one, its speed the last; only the home city has either.
Last(p) == p[Len(p)]
SpeedLast(p) ==
  \A i \in DOMAIN p :
    p[i].cond # "temp" =>
      /\ p[i].name = Primary /\ Last(p).cond = "speed"
      /\ \/ i = Len(p)
         \/ i = Len(p) - 1 /\ p[i].cond = "wind" /\ Last(p).value = SpeedOf[p[i].value]
WindFirst(p) == Len(p) >= 2 /\ Last(p).cond = "speed" => p[Len(p) - 1].cond = "wind"
HomeOnly  == \A n \in Name \ {Primary} : rows[n]["wind"] = None /\ rows[n]["speed"] = None
\* Between the two the speed that is missing is the one to be recorded next.
SpeedPending(p) == p # <<>> /\ Last(p).cond = "speed"
SpeedNext(p)    == Len(p) = 1 /\ SpeedPending(p)
WindInv ==
  /\ SpeedLast(pending) /\ WindFirst(pending) /\ HomeOnly
  /\ LET wind == rows[Primary]["wind"]
         speed == rows[Primary]["speed"]
     IN  /\ wind # None /\ ~split /\ ~SpeedNext(pending) =>
              speed # None /\ speed.value = SpeedOf[wind.value]
         /\ SpeedNext(pending) =>
              wind # None /\ Last(pending).value = SpeedOf[wind.value]

IInv == TypeInv /\ split \in BOOLEAN /\ CountInv /\ NewestInv /\ AiredInv /\ WindInv

-----------------------------------------------------------------------------
(* The constants. *)

LEMMA CondIs == Cond = {"temp", "wind", "speed"} /\ "temp" # "wind" /\ "temp" # "speed" /\ "wind" # "speed"
BY DEF Cond

LEMMA NotNone ==
  /\ None \notin Name /\ None \notin Wind /\ None \notin Int /\ None \notin Value
  /\ None \notin Row /\ None \notin Job
BY ConditionsAssumption, Zenon DEF Value

\* A name stands for one city at most, a city for itself, and a misspelling is none.
LEMMA CanonIs ==
  /\ \A c \in City : c \in Name /\ c \in Spellings(c) /\ Canon(c) = c /\ IsReal(c)
  /\ \A n \in Name : Canon(n) \in City \cup {None}
  /\ \A n \in Name : IsReal(n) <=> Canon(n) \in City
  /\ \A n \in Garble : n \in Name /\ n \notin City /\ Canon(n) = Corrections[n]
  /\ \A c \in City : Spellings(c) \subseteq Name /\ IsFiniteSet(Spellings(c))
  /\ \A c \in City, n \in Name : n \in Spellings(c) <=> Canon(n) = c
<1>1. City \subseteq Name /\ Garble \subseteq Name /\ City \cap Garble = {}
  BY ConditionsAssumption DEF Name
<1>2. \A c \in City : Canon(c) = c /\ c # None
  BY <1>1, NotNone DEF Canon
<1>3. \A n \in Garble : Canon(n) = Corrections[n]
  BY <1>1 DEF Canon
<1>4. \A n \in Name : Canon(n) \in City \cup {None}
  BY <1>1, <1>2, <1>3, ConditionsAssumption DEF Name
<1>5. \A n \in Name : IsReal(n) <=> Canon(n) \in City
  BY <1>2, <1>4 DEF IsReal
<1>6. \A c \in City, n \in Name : n \in Spellings(c) <=> Canon(n) = c
  BY DEF Spellings
<1>7. \A c \in City : Spellings(c) \in SUBSET Name
  BY DEF Spellings
<1>8. \A c \in City : IsFiniteSet(Spellings(c))
  BY <1>7, ConditionsAssumption, FS_Subset
<1> QED
  BY <1>1, <1>2, <1>3, <1>4, <1>5, <1>6, <1>7, <1>8, Zenon

-----------------------------------------------------------------------------
(* What a segment states. *)

\* What a segment is made of.
LEMMA SegmentIs ==
  ASSUME NEW seg \in Segments
  PROVE  /\ seg.temp \in Int \cup {None} /\ seg.wind \in Wind \cup {None}
         /\ seg.roundup \in Seq(Entry) /\ Len(seg.roundup) \in Nat
         /\ \A i \in 1..Len(seg.roundup) :
              seg.roundup[i].name \in Name /\ seg.roundup[i].temp \in Int
<1>1. seg \in Segment
  BY ConditionsAssumption
<1>2. seg.temp \in Int \cup {None} /\ seg.wind \in Wind \cup {None} /\ seg.roundup \in Seq(Entry)
  BY <1>1, Zenon DEF Segment
<1>3. Len(seg.roundup) \in Nat /\ \A i \in 1..Len(seg.roundup) : seg.roundup[i] \in Entry
  BY <1>2, LenProperties, ElementOfSeq
<1> QED
  BY <1>2, <1>3 DEF Entry

LEMMA ResolvedIs ==
  ASSUME NEW n \in Name, NEW before
  PROVE  Resolved(n, before) \in Name
BY ConditionsAssumption, NotNone DEF Resolved, Name

\* The names of a roundup are names.
LEMMA NamesTyped ==
  ASSUME NEW seg \in Segments
  PROVE  \A i \in 1..Len(seg.roundup) : Names(seg.roundup)[i] \in Name
<1> DEFINE r == seg.roundup
           n == Len(r)
           T == Name \cup {None}
           step == [p \in T \X (1..n) |-> Resolved(Folds[r[p[2]].name], p[1])]
           Def(f) == [i \in 0..n |-> IF i = 0 THEN None ELSE Resolved(Folds[r[i].name], f[i - 1])]
           g == CHOOSE a : a = Def(a)
<1>1. n \in Nat /\ \A i \in 1..n : Folds[r[i].name] \in Name
  BY SegmentIs, ConditionsAssumption
<1>2. step \in [T \X (1..n) -> T]
  BY <1>1, ResolvedIs
<1>3. Names(r) = [i \in 1..n |-> g[i]]
  BY DEF Names
<1> HIDE DEF r, n, step
<1>4. PICK f \in [0..n -> T] : f[0] = None /\ \A i \in 1..n : f[i] = step[<<f[i - 1], i>>]
  <2>1. Solvable(T, None, n, step)
    BY <1>1, <1>2, Recursion, Zenon
  <2> QED
    BY <2>1 DEF Solvable
<1>5. f = Def(f)
  <2>1. \A i \in 1..n : f[i] = Resolved(Folds[r[i].name], f[i - 1])
    <3> TAKE i \in 1..n
    <3>1. i - 1 \in 0..n
      BY <1>1
    <3>2. <<f[i - 1], i>> \in T \X (1..n)
      BY <3>1
    <3> QED
      BY <1>4, <3>2 DEF step
  <2>2. \A i \in 0..n : f[i] = Def(f)[i]
    BY <1>1, <1>4, <2>1
  <2> QED
    BY <2>2
<1>6. g = Def(g)
  BY <1>5
<1> HIDE DEF g
<1>7. \A i \in 1..n : g[i] = Resolved(Folds[r[i].name], g[i - 1])
  BY <1>1, <1>6
<1>8. \A i \in 1..n : g[i] \in Name
  BY <1>1, <1>7, ResolvedIs
<1> QED
  BY <1>3, <1>8 DEF r, n

\* The wind is the last thing a segment states, and the home city's.
SaidAt(said, i) ==
  /\ said[i] \in Reading /\ said[i].value \in ValueOf(said[i].cond)
  /\ \/ said[i].cond = "temp"
     \/ said[i].cond = "wind" /\ i = Len(said) /\ said[i].name = Primary

LEMMA ObservedIs ==
  ASSUME NEW seg \in Segments
  PROVE  /\ Observed(seg) \in Seq(Reading)
         /\ \A i \in 1..Len(Observed(seg)) : SaidAt(Observed(seg), i)
<1> DEFINE T == [name |-> Primary, cond |-> "temp", value |-> seg.temp]
           W == [name |-> Primary, cond |-> "wind", value |-> seg.wind]
           ts == IF seg.temp = None THEN <<>> ELSE <<T>>
           ws == IF seg.wind = None THEN <<>> ELSE <<W>>
<1>1. seg.temp # None => T \in Reading /\ T.value \in ValueOf("temp")
  BY SegmentIs, ConditionsAssumption, CondIs DEF Reading, Name, Value, ValueOf
<1>2. seg.wind # None => W \in Reading /\ W.value \in ValueOf("wind")
  BY SegmentIs, ConditionsAssumption, CondIs DEF Reading, Name, Value, ValueOf
<1>3. T.cond = "temp" /\ W.cond = "wind" /\ W.name = Primary
  OBVIOUS
<1>4. Observed(seg) = (IF IsHome(seg) /\ ~seg.recap THEN ts \o ws ELSE <<>>)
  BY DEF Observed
<1> HIDE DEF T, W
<1>5. ts \in Seq(Reading) /\ ws \in Seq(Reading) /\ Len(ws) \in 0..1 /\ Len(ts) \in 0..1
  BY <1>1, <1>2
<1>6. \A i \in 1..Len(ts) : ts[i] = T /\ seg.temp # None
  OBVIOUS
<1>7. \A i \in 1..Len(ws) : ws[i] = W /\ seg.wind # None /\ i = Len(ws)
  OBVIOUS
<1> HIDE DEF ts, ws
<1>8. /\ ts \o ws \in Seq(Reading) /\ Len(ts \o ws) = Len(ts) + Len(ws)
      /\ \A i \in 1..Len(ts) + Len(ws) : (ts \o ws)[i] = IF i <= Len(ts) THEN ts[i] ELSE ws[i - Len(ts)]
  BY <1>5, ConcatProperties
<1>9. ASSUME NEW i \in 1..Len(ts \o ws) PROVE SaidAt(ts \o ws, i)
  <2>1. CASE i <= Len(ts)
    <3>1. i \in 1..Len(ts) /\ (ts \o ws)[i] = T
      BY <1>5, <1>6, <1>8, <1>9, <2>1
    <3> QED
      BY <1>1, <1>3, <1>6, <3>1 DEF SaidAt
  <2>2. CASE ~ (i <= Len(ts))
    <3>1. i - Len(ts) \in 1..Len(ws) /\ (ts \o ws)[i] = ws[i - Len(ts)]
      BY <1>5, <1>8, <1>9, <2>2
    <3>2. (ts \o ws)[i] = W /\ seg.wind # None /\ i - Len(ts) = Len(ws)
      BY <1>7, <3>1
    <3>3. i = Len(ts \o ws)
      BY <1>5, <1>8, <3>2
    <3> QED
      BY <1>2, <1>3, <3>2, <3>3 DEF SaidAt
  <2> QED
    BY <2>1, <2>2
<1>10. CASE IsHome(seg) /\ ~seg.recap
  BY <1>4, <1>8, <1>9, <1>10
<1>11. CASE ~ (IsHome(seg) /\ ~seg.recap)
  BY <1>4, <1>11
<1> QED
  BY <1>10, <1>11

LEMMA SaidIs ==
  ASSUME NEW seg \in Segments
  PROVE  /\ Said(seg) \in Seq(Reading) /\ Len(Said(seg)) \in Nat
         /\ \A i \in 1..Len(Said(seg)) : SaidAt(Said(seg), i)
<1> DEFINE n == Len(seg.roundup)
           A == [i \in 1..n |-> [name |-> Names(seg.roundup)[i], cond |-> "temp", value |-> seg.roundup[i].temp]]
           O == Observed(seg)
<1>1. n \in Nat
  BY SegmentIs
<1>2. \A i \in 1..n : A[i] \in Reading /\ A[i].value \in ValueOf("temp") /\ A[i].cond = "temp"
  BY SegmentIs, NamesTyped, CondIs DEF Reading, Value, ValueOf
<1>3. Said(seg) = A \o O
  BY DEF Said
<1>4. DOMAIN A = 1..n
  OBVIOUS
<1>5. A \in [1..n -> Reading]
  BY <1>2
<1> HIDE DEF n, A, O
<1>6. A \in Seq(Reading) /\ Len(A) = n
  BY <1>1, <1>5
<1>7. O \in Seq(Reading) /\ \A i \in 1..Len(O) : SaidAt(O, i)
  BY ObservedIs DEF O
<1>8. Len(O) \in Nat
  BY <1>7, LenProperties
<1>9. /\ A \o O \in Seq(Reading) /\ Len(A \o O) = n + Len(O)
      /\ \A i \in 1..n + Len(O) : (A \o O)[i] = IF i <= n THEN A[i] ELSE O[i - n]
  BY <1>6, <1>7, ConcatProperties
<1>10. ASSUME NEW i \in 1..Len(A \o O) PROVE SaidAt(A \o O, i)
  <2>1. CASE i <= n
    <3>1. i \in 1..n /\ (A \o O)[i] = A[i]
      BY <1>1, <1>8, <1>9, <1>10, <2>1
    <3> QED
      BY <1>2, <3>1 DEF SaidAt
  <2>2. CASE ~ (i <= n)
    <3>1. i - n \in 1..Len(O) /\ (A \o O)[i] = O[i - n]
      BY <1>1, <1>8, <1>9, <1>10, <2>2
    <3>2. i - n = Len(O) => i = Len(A \o O)
      BY <1>1, <1>8, <1>9, <1>10
    <3> QED
      BY <1>7, <3>1, <3>2 DEF SaidAt
  <2> QED
    BY <2>1, <2>2
<1> QED
  BY <1>1, <1>3, <1>8, <1>9, <1>10

-----------------------------------------------------------------------------
(* The vote. *)

\* A pool holds the new sample and samples of the old one; what leads it is in it, and
\* no more than Stale older than the new sample.
LEMMA PoolIs ==
  ASSUME NEW k \in Cond, NEW old \in SamplesOf(Value), Len(old) <= MaxLen[k],
         NEW v \in Value, NEW t \in Nat,
         NEW pool, pool = Cast(old, v, t, MaxLen[k])
  PROVE  /\ pool \in SamplesOf(Value) /\ Len(pool) <= MaxLen[k]
         /\ \A i \in DOMAIN pool :
              \/ pool[i] = [value |-> v, at |-> t]
              \/ \E j \in DOMAIN old : pool[i] = old[j]
         /\ \E i \in DOMAIN pool : Best(pool, Stale) = pool[i].value /\ t - pool[i].at <= Stale
<1>1. MaxLen[k] \in Nat \ {0} /\ Stale \in Nat
  BY ConditionsAssumption
<1>2. /\ pool \in SamplesOf(Value) /\ Len(pool) \in 1..MaxLen[k]
      /\ pool[Len(pool)] = [value |-> v, at |-> t]
      /\ Len(pool) = (IF Len(old) < MaxLen[k] THEN Len(old) + 1 ELSE MaxLen[k])
      /\ \A d \in 1 .. Len(pool) - 1 : pool[Len(pool) - d] = old[Len(old) + 1 - d]
  BY <1>1, CastKeeps
<1>3. DOMAIN pool = 1..Len(pool) /\ DOMAIN old = 1..Len(old) /\ Len(old) \in Nat
  BY <1>2, LenProperties DEF SamplesOf
<1>4. ASSUME NEW i \in 1..Len(pool), i # Len(pool)
      PROVE  \E j \in 1..Len(old) : pool[i] = old[j]
  <2> DEFINE d == Len(pool) - i
  <2>1. d \in 1 .. Len(pool) - 1 /\ Len(pool) - d = i
    BY <1>1, <1>2, <1>4
  <2>2. Len(old) + 1 = Len(pool) \/ Len(old) = Len(pool)
    <3>1. CASE Len(old) < MaxLen[k]
      BY <1>2, <1>3, <3>1
    <3>2. CASE ~ (Len(old) < MaxLen[k])
      BY <1>1, <1>2, <1>3, <3>2
    <3> QED
      BY <3>1, <3>2
  <2>3. Len(old) + 1 - d \in 1..Len(old)
    BY <1>3, <1>4, <2>1, <2>2
  <2> QED
    BY <1>2, <2>1, <2>3
<1>5. PICK i \in Counted(pool, Stale) : Best(pool, Stale) = pool[i].value
  <2>1. Len(pool) >= 1
    BY <1>1, <1>2
  <2>2. \E i \in Counted(pool, Stale) :
          /\ Best(pool, Stale) = pool[i].value
          /\ Leads(pool, Counted(pool, Stale), i)
          /\ \A j \in Counted(pool, Stale) : Leads(pool, Counted(pool, Stale), j) => j <= i
    BY <1>1, <1>2, <2>1, BestLeads
  <2> QED
    BY <2>2
<1>6. i \in DOMAIN pool /\ pool[Len(pool)].at - pool[i].at <= Stale
  BY <1>5 DEF Counted
<1>7. pool[Len(pool)].at = t
  BY <1>2
<1>8. \A j \in DOMAIN pool : \/ pool[j] = [value |-> v, at |-> t]
                             \/ \E m \in DOMAIN old : pool[j] = old[m]
  BY <1>2, <1>3, <1>4
<1>9. Len(pool) <= MaxLen[k]
  BY <1>1, <1>2
<1> QED
  BY <1>2, <1>5, <1>6, <1>7, <1>8, <1>9

VoteState ==
  {s \in [voters : [Name -> [Cond -> SamplesOf(Value)]], out : Seq(Reading)] :
     GoodVoters(s.voters) /\ GoodReadings(s.out)}

\* What one airing changes: one pool, and one reading more.
LEMMA VotedIs ==
  ASSUME ClockInv, NEW s \in VoteState, NEW a \in Reading, a.value \in ValueOf(a.cond)
  PROVE  /\ Voted(s, a) \in VoteState
         /\ Len(Voted(s, a).out) = Len(s.out) + 1
         /\ \A i \in 1..Len(s.out) : Voted(s, a).out[i] = s.out[i]
         /\ LET new == Voted(s, a).out[Len(s.out) + 1] IN new.name = a.name /\ new.cond = a.cond
         /\ \A air : /\ VotesAired(s.voters, air) /\ ReadingsAired(s.out, air)
                     /\ AsAired(a.name, a.cond, [value |-> a.value, at |-> now]) \in air
                     => VotesAired(Voted(s, a).voters, air) /\ ReadingsAired(Voted(s, a).out, air)
<1> DEFINE n == a.name
           k == a.cond
           old == s.voters[n][k]
           pool == Cast(old, a.value, now, MaxLen[k])
           new == [name |-> n, cond |-> k, value |-> Best(pool, Stale)]
           V == [s.voters EXCEPT ![n][k] = pool]
           O == Append(s.out, new)
<1>1. /\ s.voters \in [Name -> [Cond -> SamplesOf(Value)]] /\ s.out \in Seq(Reading)
      /\ GoodVoters(s.voters) /\ GoodReadings(s.out)
  BY DEF VoteState
<1>2. n \in Name /\ k \in Cond /\ a.value \in Value /\ a.value \in ValueOf(k)
  BY DEF Reading
<1>3. old \in SamplesOf(Value) /\ Len(old) <= MaxLen[k] /\ now \in Nat
  BY <1>1, <1>2 DEF GoodVoters, ClockInv
<1>4. a = [name |-> n, cond |-> k, value |-> a.value]
  BY DEF Reading
<1>5. Voted(s, a) = [voters |-> V, out |-> O]
  <2>1. [a EXCEPT !.value = Best(pool, Stale)] = new
    BY <1>4
  <2> QED
    BY <2>1 DEF Voted
<1>6. /\ pool \in SamplesOf(Value) /\ Len(pool) <= MaxLen[k]
      /\ \A i \in DOMAIN pool :
           \/ pool[i] = [value |-> a.value, at |-> now]
           \/ \E j \in DOMAIN old : pool[i] = old[j]
      /\ \E i \in DOMAIN pool : Best(pool, Stale) = pool[i].value /\ now - pool[i].at <= Stale
  BY <1>2, <1>3, PoolIs
<1>7. \A i \in DOMAIN old : old[i].value \in ValueOf(k) /\ old[i].at <= now
  BY <1>1, <1>2 DEF GoodVoters
<1>8. \A i \in DOMAIN pool : pool[i].value \in ValueOf(k) /\ pool[i].at <= now
  BY <1>2, <1>3, <1>6, <1>7
<1>9. PICK b \in DOMAIN pool : Best(pool, Stale) = pool[b].value /\ now - pool[b].at <= Stale
  BY <1>6
<1> HIDE DEF pool
<1>10. /\ V \in [Name -> [Cond -> SamplesOf(Value)]]
       /\ \A m \in Name, l \in Cond : V[m][l] = IF m = n /\ l = k THEN pool ELSE s.voters[m][l]
  BY <1>1, <1>2, <1>6
<1> HIDE DEF V
<1>11. GoodVoters(V)
  <2> SUFFICES ASSUME NEW m \in Name, NEW l \in Cond
               PROVE  /\ Len(V[m][l]) <= MaxLen[l]
                      /\ \A i \in DOMAIN V[m][l] : V[m][l][i].value \in ValueOf(l) /\ V[m][l][i].at <= now
    BY <1>10 DEF GoodVoters
  <2>1. CASE m = n /\ l = k
    BY <1>6, <1>8, <1>10, <2>1
  <2>2. CASE ~ (m = n /\ l = k)
    BY <1>1, <1>10, <2>2 DEF GoodVoters
  <2> QED
    BY <2>1, <2>2
<1>12. Best(pool, Stale) \in ValueOf(k) /\ ValueOf(k) \subseteq Value
  BY <1>8, <1>9 DEF ValueOf, Value
<1>13. new \in Reading /\ new.name = n /\ new.cond = k /\ new.value = Best(pool, Stale)
  BY <1>2, <1>12 DEF Reading
<1> HIDE DEF new
<1>14. /\ O \in Seq(Reading) /\ Len(O) = Len(s.out) + 1 /\ Len(s.out) \in Nat
       /\ \A i \in 1..Len(s.out) : O[i] = s.out[i]
       /\ O[Len(s.out) + 1] = new /\ DOMAIN O = 1 .. Len(s.out) + 1 /\ DOMAIN s.out = 1..Len(s.out)
  BY <1>1, <1>13, AppendProperties, LenProperties
<1> HIDE DEF O
<1>15. \A i \in DOMAIN O : i = Len(s.out) + 1 \/ i \in DOMAIN s.out
  BY <1>14
<1>16. GoodReadings(O)
  BY <1>1, <1>12, <1>13, <1>14, <1>15 DEF GoodReadings
<1>17. Voted(s, a) \in VoteState
  BY <1>5, <1>10, <1>11, <1>14, <1>16 DEF VoteState
<1>18. ASSUME NEW air, VotesAired(s.voters, air), ReadingsAired(s.out, air),
             AsAired(n, k, [value |-> a.value, at |-> now]) \in air
       PROVE  VotesAired(V, air) /\ ReadingsAired(O, air)
  <2>1. \A i \in DOMAIN old : now - old[i].at <= Stale => AsAired(n, k, old[i]) \in air
    BY <1>2, <1>18 DEF VotesAired
  <2>2. \A i \in DOMAIN pool : now - pool[i].at <= Stale => AsAired(n, k, pool[i]) \in air
    BY <1>6, <1>18, <2>1
  <2>3. VotesAired(V, air)
    <3> SUFFICES ASSUME NEW m \in Name, NEW l \in Cond, NEW i \in DOMAIN V[m][l], now - V[m][l][i].at <= Stale
                 PROVE  AsAired(m, l, V[m][l][i]) \in air
      BY DEF VotesAired
    <3>1. CASE m = n /\ l = k
      BY <1>10, <2>2, <3>1
    <3>2. CASE ~ (m = n /\ l = k)
      BY <1>10, <1>18, <3>2 DEF VotesAired
    <3> QED
      BY <3>1, <3>2
  <2>4. InAir(air, new.name, new.cond, new.value)
    <3>1. AsAired(n, k, pool[b]) \in air
      BY <1>9, <2>2
    <3>2. /\ AsAired(n, k, pool[b]).name = n /\ AsAired(n, k, pool[b]).cond = k
          /\ AsAired(n, k, pool[b]).value = pool[b].value
      BY DEF AsAired
    <3> QED
      BY <1>9, <1>13, <3>1, <3>2 DEF InAir
  <2>5. ReadingsAired(O, air)
    BY <1>14, <1>15, <1>18, <2>4 DEF ReadingsAired
  <2> QED
    BY <2>3, <2>5
<1> QED
  BY <1>5, <1>13, <1>14, <1>17, <1>18

VoteStart == [voters |-> voters, out |-> <<>>]

\* A segment is voted airing by airing.
LEMMA VoteSteps ==
  ASSUME ClockInv, VoteInv, NEW seg \in Segments
  PROVE  \E after \in [0..Len(Said(seg)) -> VoteState] :
           /\ after[0] = VoteStart
           /\ \A i \in 1..Len(Said(seg)) :
                after[i] = IF i \in Airings(seg) THEN Voted(after[i - 1], Said(seg)[i]) ELSE after[i - 1]
           /\ Vote(seg) = after[Len(Said(seg))]
<1> DEFINE said == Said(seg)
           n == Len(said)
           airings == Airings(seg)
           Step(s, i) == IF i \in airings THEN Voted(s, said[i]) ELSE s
           step == [p \in VoteState \X (1..n) |-> Step(p[1], p[2])]
           Def(f) == [i \in 0..n |-> IF i = 0 THEN VoteStart
                                     ELSE IF i \in airings THEN Voted(f[i - 1], said[i]) ELSE f[i - 1]]
           g == CHOOSE a : a = Def(a)
<1>1. n \in Nat /\ \A i \in 1..n : said[i] \in Reading /\ said[i].value \in ValueOf(said[i].cond)
  BY SaidIs DEF SaidAt
<1>2. VoteStart \in VoteState
  <2>1. <<>> \in Seq(Reading) /\ GoodReadings(<<>>)
    BY DEF GoodReadings
  <2> QED
    BY <2>1 DEF VoteState, VoteStart, VoteInv, GoodVoters
<1>3. Vote(seg) = g[n]
  BY DEF Vote, VoteStart
<1> HIDE DEF said, n, airings
<1>4. \A s \in VoteState, i \in 1..n : Step(s, i) \in VoteState
  BY <1>1, VotedIs
<1>5. step \in [VoteState \X (1..n) -> VoteState]
  BY <1>4
<1> HIDE DEF step
<1>6. PICK f \in [0..n -> VoteState] : f[0] = VoteStart /\ \A i \in 1..n : f[i] = step[<<f[i - 1], i>>]
  <2>1. Solvable(VoteState, VoteStart, n, step)
    BY <1>1, <1>2, <1>5, Recursion, Zenon
  <2> QED
    BY <2>1 DEF Solvable
<1>7. f = Def(f)
  <2>1. \A i \in 1..n : f[i] = Step(f[i - 1], i)
    <3> TAKE i \in 1..n
    <3>1. i - 1 \in 0..n
      BY <1>1
    <3>2. <<f[i - 1], i>> \in VoteState \X (1..n)
      BY <3>1
    <3> QED
      BY <1>6, <3>2 DEF step
  <2>2. \A i \in 0..n : f[i] = Def(f)[i]
    BY <1>1, <1>6, <2>1
  <2> QED
    BY <2>2
<1>8. g = Def(g)
  BY <1>7
<1> HIDE DEF g
<1>9. g[0] = VoteStart /\ \A i \in 1..n : g[i] = Step(g[i - 1], i)
  BY <1>1, <1>8
<1>10. g \in [0..n -> VoteState]
  <2> DEFINE S == {i \in 0..n : g[i] \in VoteState}
  <2>1. 0 \in S /\ \A i \in 1..n : i - 1 \in S => i \in S
    BY <1>1, <1>2, <1>4, <1>9
  <2> HIDE DEF S
  <2>2. 0..n \subseteq S
    BY <1>1, <2>1, BoundedInduction
  <2> QED
    BY <1>8, <2>2 DEF S
<1> QED
  BY <1>3, <1>9, <1>10 DEF n, said, airings

\* The airings of a segment join what was on the air.
Air(seg) ==
  recent \cup {[name |-> Said(seg)[i].name, cond |-> Said(seg)[i].cond,
                value |-> Said(seg)[i].value, at |-> now] : i \in Airings(seg)}

\* What a segment leaves: pools and readings that were on the air, a wind at their end only.
WindAtEnd(out) ==
  \A j \in DOMAIN out : \/ out[j].cond = "temp"
                        \/ out[j].cond = "wind" /\ j = Len(out) /\ out[j].name = Primary
AllAired(s, air) == VotesAired(s.voters, air) /\ ReadingsAired(s.out, air)

LEMMA VoteIs ==
  ASSUME ClockInv, VoteInv, VotesAired(voters, recent), NEW seg \in Segments
  PROVE  Vote(seg) \in VoteState /\ WindAtEnd(Vote(seg).out) /\ AllAired(Vote(seg), Air(seg))
<1> DEFINE said == Said(seg)
           n == Len(said)
           airings == Airings(seg)
           air == Air(seg)
<1>1. n \in Nat /\ \A i \in 1..n : SaidAt(said, i)
  BY SaidIs
<1>2. PICK after \in [0..n -> VoteState] :
        /\ after[0] = VoteStart
        /\ \A i \in 1..n : after[i] = IF i \in airings THEN Voted(after[i - 1], said[i]) ELSE after[i - 1]
        /\ Vote(seg) = after[n]
  BY VoteSteps
<1>3. \A i \in airings : AsAired(said[i].name, said[i].cond, [value |-> said[i].value, at |-> now]) \in air
  BY DEF Air, AsAired
<1>4. VotesAired(voters, air)
  BY DEF VotesAired, Air
<1> HIDE DEF said, n, airings, air
<1> DEFINE Temps0(out) == \A j \in DOMAIN out : out[j].cond = "temp"
           S == {i \in 0..n : /\ AllAired(after[i], air) /\ WindAtEnd(after[i].out)
                              /\ i < n => Temps0(after[i].out)}
<1>5. 0 \in S
  <2>1. after[0].voters = voters /\ after[0].out = <<>>
    BY <1>2 DEF VoteStart
  <2>2. DOMAIN after[0].out = {}
    BY <2>1
  <2> QED
    BY <1>1, <1>4, <2>1, <2>2 DEF AllAired, ReadingsAired, WindAtEnd
<1>6. ASSUME NEW i \in 1..n, i - 1 \in S PROVE i \in S
  <2>1. i \in 0..n /\ i - 1 < n /\ i - 1 \in 0..n
    BY <1>1
  <2>2. AllAired(after[i - 1], air) /\ Temps0(after[i - 1].out) /\ WindAtEnd(after[i - 1].out)
    BY <1>6, <2>1
  <2>3. CASE i \notin airings
    BY <1>2, <2>1, <2>2, <2>3
  <2>4. CASE i \in airings
    <3> DEFINE s == after[i - 1]
               a == said[i]
               t == Voted(s, a)
    <3>1. s \in VoteState /\ a \in Reading /\ a.value \in ValueOf(a.cond) /\ after[i] = t
      BY <1>1, <1>2, <2>1, <2>4 DEF SaidAt
    <3>2. \/ a.cond = "temp"
          \/ a.cond = "wind" /\ i = n /\ a.name = Primary
      BY <1>1 DEF SaidAt, n
    <3>3. AsAired(a.name, a.cond, [value |-> a.value, at |-> now]) \in air
      BY <1>3, <2>4
    <3> HIDE DEF s, a
    <3>4. /\ t \in VoteState
          /\ Len(t.out) = Len(s.out) + 1
          /\ \A j \in 1..Len(s.out) : t.out[j] = s.out[j]
          /\ t.out[Len(s.out) + 1].name = a.name /\ t.out[Len(s.out) + 1].cond = a.cond
      BY <3>1, VotedIs
    <3>5. AllAired(t, air)
      BY <2>2, <3>1, <3>3, VotedIs DEF AllAired, s
    <3> HIDE DEF t
    <3>6. /\ Len(s.out) \in Nat /\ DOMAIN s.out = 1..Len(s.out)
          /\ DOMAIN t.out = 1 .. Len(s.out) + 1
      <4>1. s.out \in Seq(Reading) /\ t.out \in Seq(Reading)
        BY <3>1, <3>4 DEF VoteState
      <4> QED
        BY <3>4, <4>1, LenProperties
    <3>7. \A j \in DOMAIN t.out : j = Len(t.out) \/ t.out[j].cond = "temp"
      <4>1. \A j \in DOMAIN t.out : j = Len(t.out) \/ j \in DOMAIN s.out
        BY <3>4, <3>6
      <4> QED
        BY <2>2, <3>4, <3>6, <4>1 DEF s
    <3>8. WindAtEnd(t.out) /\ (i < n => Temps0(t.out))
      <4>1. a.cond = "temp" => Temps0(t.out)
        BY <3>4, <3>7
      <4>2. CASE a.cond = "temp"
        BY <4>1, <4>2 DEF WindAtEnd
      <4>3. CASE a.cond = "wind" /\ i = n /\ a.name = Primary
        BY <1>1, <3>4, <3>7, <4>3 DEF WindAtEnd
      <4> QED
        BY <3>2, <4>2, <4>3
    <3> QED
      BY <2>1, <3>1, <3>5, <3>8
  <2> QED
    BY <2>3, <2>4
<1> HIDE DEF S
<1>7. n \in S
  <2>1. 0..n \subseteq S
    BY <1>1, <1>5, <1>6, BoundedInduction
  <2> QED
    BY <1>1, <2>1
<1>8. AllAired(after[n], air) /\ WindAtEnd(after[n].out)
  BY <1>7 DEF S
<1>9. after[n] \in VoteState
  BY <1>1, <1>2
<1> QED
  BY <1>2, <1>8, <1>9 DEF air

\* What is to be recorded of a segment: what was voted, and behind a wind its speed.
LEMMA DerivedIs ==
  ASSUME NEW seg \in Segments, NEW out \in Seq(Reading), GoodReadings(out), WindAtEnd(out),
         NEW p, p = out \o Derived(out, seg)
  PROVE  /\ GoodReadings(p) /\ SpeedLast(p) /\ WindFirst(p)
         /\ SpeedPending(p) => Len(p) >= 2
         /\ \A air : ReadingsAired(out, air) => ReadingsAired(p, air)
<1> DEFINE winds == {i \in DOMAIN out : out[i].cond = "wind"}
<1>1. Len(out) \in Nat /\ DOMAIN out = 1..Len(out)
  BY LenProperties
<1>2. CASE winds = {}
  <2>1. \A j \in DOMAIN out : out[j].cond = "temp"
    BY <1>2 DEF WindAtEnd
  <2>2. p = out
    BY <1>2, ConcatEmptySeq DEF Derived
  <2>3. out # <<>> => Len(out) \in DOMAIN out
    BY <1>1, EmptySeq
  <2>4. ~SpeedPending(out)
    BY <2>1, <2>3, CondIs DEF SpeedPending, Last
  <2>5. WindFirst(out)
    <3>1. Len(out) >= 2 => Len(out) \in DOMAIN out
      BY <1>1
    <3> QED
      BY <2>1, <3>1, CondIs DEF WindFirst, Last
  <2>6. SpeedLast(out)
    BY <2>1 DEF SpeedLast
  <2> QED
    BY <2>2, <2>4, <2>5, <2>6
<1>3. CASE winds # {}
  <2> DEFINE m == Len(out)
             D == [name |-> Primary, cond |-> "speed", value |-> SpeedOf[out[m].value]]
  <2>1. winds = {m} /\ m \in 1..m /\ out[m].cond = "wind" /\ out[m].name = Primary
    BY <1>1, <1>3, CondIs DEF WindAtEnd
  <2>2. (CHOOSE w \in winds : \A x \in winds : w <= x) = m
    BY <1>1, <2>1
  <2>3. p = out \o <<D>>
    BY <1>3, <2>2 DEF Derived
  <2>4. D \in Reading /\ D.value \in Int /\ D.cond = "speed" /\ D.name = Primary /\ D.value = SpeedOf[out[m].value]
    <3>1. out[m].value \in Wind
      BY <1>1, <2>1 DEF GoodReadings, ValueOf
    <3> QED
      BY <3>1, ConditionsAssumption, CondIs DEF Reading, Value, Name
  <2> HIDE DEF D
  <2>5. /\ p \in Seq(Reading) /\ Len(p) = m + 1 /\ p[m + 1] = D
        /\ \A j \in 1..m : p[j] = out[j]
    BY <1>1, <2>3, <2>4
  <2>6. DOMAIN p = 1 .. m + 1 /\ \A j \in DOMAIN p : j = m + 1 \/ j \in 1..m
    BY <1>1, <2>5, LenProperties
  <2>7. D.value \in ValueOf(D.cond)
    BY <2>4, CondIs DEF ValueOf
  <2>8. GoodReadings(p)
    BY <1>1, <2>5, <2>6, <2>7 DEF GoodReadings
  <2>9. Last(p) = D /\ (m + 1) - 1 = m
    BY <1>1, <2>5 DEF Last
  <2>10. SpeedLast(p)
    <3> SUFFICES ASSUME NEW i \in DOMAIN p, p[i].cond # "temp"
                 PROVE  /\ p[i].name = Primary /\ Last(p).cond = "speed"
                        /\ \/ i = Len(p)
                           \/ i = Len(p) - 1 /\ p[i].cond = "wind" /\ Last(p).value = SpeedOf[p[i].value]
      BY DEF SpeedLast
    <3>1. CASE i = m + 1
      BY <2>4, <2>5, <2>9, <3>1
    <3>2. CASE i \in 1..m
      <4>1. p[i] = out[i] /\ i = m
        BY <1>1, <2>5, <3>2 DEF WindAtEnd
      <4> QED
        BY <2>1, <2>4, <2>5, <2>9, <4>1
    <3> QED
      BY <2>6, <3>1, <3>2
  <2>11. WindFirst(p)
    BY <2>1, <2>5, <2>9 DEF WindFirst
  <2>12. Len(p) >= 2
    BY <2>1, <2>5
  <2>13. ASSUME NEW air, ReadingsAired(out, air) PROVE ReadingsAired(p, air)
    BY <1>1, <2>4, <2>5, <2>6, <2>13 DEF ReadingsAired
  <2> QED
    BY <2>8, <2>10, <2>11, <2>12, <2>13
<1> QED
  BY <1>2, <1>3

\* What hearing a segment does to the votes and the readings.
LEMMA HearIs ==
  ASSUME ClockInv, VoteInv, VotesAired(voters, recent), NEW seg \in Segments, Hear(seg)
  PROVE  /\ GoodVoters(voters') /\ GoodReadings(pending') /\ recent' = Air(seg)
         /\ SpeedLast(pending') /\ WindFirst(pending')
         /\ SpeedPending(pending') => Len(pending') >= 2
         /\ VotesAired(voters', recent') /\ ReadingsAired(pending', recent')
<1> DEFINE out == Vote(seg).out
<1>1. Vote(seg) \in VoteState /\ WindAtEnd(out) /\ AllAired(Vote(seg), Air(seg))
  BY VoteIs
<1>2. /\ GoodVoters(Vote(seg).voters) /\ GoodReadings(out) /\ out \in Seq(Reading)
      /\ VotesAired(Vote(seg).voters, Air(seg)) /\ ReadingsAired(out, Air(seg))
  BY <1>1 DEF VoteState, AllAired
<1>3. voters' = Vote(seg).voters /\ pending' = out \o Derived(out, seg) /\ recent' = Air(seg)
  BY DEF Hear, Update, Air
<1> DEFINE p == out \o Derived(out, seg)
<1>4. /\ GoodReadings(p) /\ SpeedLast(p) /\ WindFirst(p)
      /\ SpeedPending(p) => Len(p) >= 2
      /\ \A air : ReadingsAired(out, air) => ReadingsAired(p, air)
  <2> HIDE DEF out
  <2> QED
    BY <1>1, <1>2, DerivedIs
<1> HIDE DEF p, out
<1> QED
  BY <1>2, <1>3, <1>4 DEF p

-----------------------------------------------------------------------------
(* What each step does to the rows, row by row. *)

RowType == rows \in [Name -> [Cond -> Row \cup {None}]]

LEMMA JobIs ==
  ASSUME JobInv, job # None
  PROVE  /\ job \in Job /\ job.bad \in Garble /\ job.bad \in Name /\ Good \in City /\ Good \in Name
         /\ Good # job.bad /\ Canon(job.bad) = Good /\ Canon(Good) = Good
<1>1. job \in Job /\ job.bad \in Garble /\ IsReal(job.bad)
  BY DEF JobInv, Job
<1>2. job.bad \in Name /\ job.bad \notin City /\ Canon(job.bad) = Good /\ Canon(job.bad) \in City
  BY <1>1, CanonIs DEF Good
<1> QED
  BY <1>1, <1>2, CanonIs

LEMMA RecordIs ==
  ASSUME TypeInv, NEW times \in 1..2, Record(times), NEW r, r = Head(pending)
  PROVE  /\ pending # <<>> /\ r = pending[1]
         /\ r \in Reading /\ r.name \in Name /\ r.cond \in Cond /\ r.value \in Value
         /\ r.value \in ValueOf(r.cond)
         /\ RowType'
         /\ \A n \in Name, k \in Cond :
              rows'[n][k] = IF n = r.name /\ k = r.cond THEN Upsert(rows[n][k], r, times) ELSE rows[n][k]
         /\ Upsert(rows[r.name][r.cond], r, times) \in Row
<1>1. pending # <<>> /\ pending \in Seq(Reading)
  BY DEF Record, TypeInv, PendingInv, GoodReadings
<1>2. r \in Reading /\ r = pending[1] /\ 1 \in DOMAIN pending
  BY <1>1, HeadTailProperties
<1>3. r.name \in Name /\ r.cond \in Cond /\ r.value \in Value /\ r.value \in ValueOf(r.cond)
  BY <1>2 DEF Reading, TypeInv, PendingInv, GoodReadings
<1>4. RowType /\ now \in Nat
  BY DEF TypeInv, RowsInv, RowType, ClockInv
<1> DEFINE old == rows[r.name][r.cond]
           new == Upsert(old, r, times)
<1>5. new \in Row
  <2>1. old \in Row \cup {None}
    BY <1>3, <1>4 DEF RowType
  <2>2. (IF old = None THEN 0 ELSE old.sightings) \in Nat
    BY <2>1 DEF Row
  <2> HIDE DEF old
  <2> QED
    BY <1>3, <1>4, <2>2 DEF Upsert, Row
<1>6. rows' = [rows EXCEPT ![r.name][r.cond] = new]
  BY DEF Record
<1> HIDE DEF new, old
<1>7. RowType' /\ \A n \in Name, k \in Cond :
        rows'[n][k] = IF n = r.name /\ k = r.cond THEN new ELSE rows[n][k]
  BY <1>3, <1>4, <1>5, <1>6 DEF RowType
<1> QED
  BY <1>1, <1>2, <1>3, <1>5, <1>7 DEF new, old

LEMMA MergeUpdateIs ==
  ASSUME TypeInv, MergeUpdate
  PROVE  /\ job # None /\ job.step = "update" /\ job' = [job EXCEPT !.step = "delete"]
         /\ RowType'
         /\ \A n \in Name, k \in Cond :
              rows'[n][k] = IF n = Good /\ rows[n][k] # None /\ rows[job.bad][k] # None
                            THEN Merged(rows[n][k], rows[job.bad][k]) ELSE rows[n][k]
<1>1. job # None /\ job.step = "update" /\ job' = [job EXCEPT !.step = "delete"]
  BY DEF MergeUpdate
<1>2. Good \in Name /\ job.bad \in Name
  BY <1>1, JobIs DEF TypeInv
<1>3. RowType
  BY DEF TypeInv, RowsInv, RowType
<1> DEFINE new == [k \in Cond |-> IF rows[Good][k] # None /\ rows[job.bad][k] # None
                                  THEN Merged(rows[Good][k], rows[job.bad][k]) ELSE rows[Good][k]]
<1>4. rows' = [rows EXCEPT ![Good] = new]
  BY DEF MergeUpdate, Good
<1>5. \A g, b \in Row : Merged(g, b) \in Row
  BY DEF Merged, Row
<1>6. new \in [Cond -> Row \cup {None}]
  BY <1>2, <1>3, <1>5 DEF RowType
<1>7. \A k \in Cond : new[k] = IF rows[Good][k] # None /\ rows[job.bad][k] # None
                               THEN Merged(rows[Good][k], rows[job.bad][k]) ELSE rows[Good][k]
  OBVIOUS
<1> HIDE DEF new
<1>8. RowType' /\ \A n \in Name, k \in Cond : rows'[n][k] = IF n = Good THEN new[k] ELSE rows[n][k]
  BY <1>2, <1>3, <1>4, <1>6 DEF RowType
<1> QED
  BY <1>1, <1>7, <1>8

LEMMA MergeDeleteIs ==
  ASSUME TypeInv, MergeDelete
  PROVE  /\ job # None /\ job.step = "delete" /\ job' = [job EXCEPT !.step = "rename"]
         /\ RowType'
         /\ \A n \in Name, k \in Cond :
              rows'[n][k] = IF n = job.bad /\ rows[Good][k] # None THEN None ELSE rows[n][k]
<1>1. job # None /\ job.step = "delete" /\ job' = [job EXCEPT !.step = "rename"]
  BY DEF MergeDelete
<1>2. Good \in Name /\ job.bad \in Name
  BY <1>1, JobIs DEF TypeInv
<1>3. RowType
  BY DEF TypeInv, RowsInv, RowType
<1> DEFINE new == [k \in Cond |-> IF rows[Good][k] # None THEN None ELSE rows[job.bad][k]]
<1>4. rows' = [rows EXCEPT ![job.bad] = new]
  BY DEF MergeDelete, Good
<1>5. new \in [Cond -> Row \cup {None}]
  BY <1>2, <1>3 DEF RowType
<1>6. \A k \in Cond : new[k] = IF rows[Good][k] # None THEN None ELSE rows[job.bad][k]
  OBVIOUS
<1> HIDE DEF new
<1>7. RowType' /\ \A n \in Name, k \in Cond : rows'[n][k] = IF n = job.bad THEN new[k] ELSE rows[n][k]
  BY <1>2, <1>3, <1>4, <1>5 DEF RowType
<1> QED
  BY <1>1, <1>6, <1>7

\* The rename moves what is left of the misspelling, or fails and moves nothing.
LEMMA MergeRenameIs ==
  ASSUME TypeInv, MergeRename
  PROVE  /\ job # None /\ job.step = "rename" /\ job' = None
         /\ RowType'
         /\ \/ rows' = rows
            \/ /\ \A k \in Cond : rows[job.bad][k] = None \/ rows[Good][k] = None
               /\ \A n \in Name, k \in Cond :
                    rows'[n][k] = IF n = job.bad THEN None
                                  ELSE IF n = Good /\ rows[job.bad][k] # None THEN rows[job.bad][k]
                                  ELSE rows[n][k]
<1>1. job # None /\ job.step = "rename" /\ job' = None
  BY DEF MergeRename
<1>2. Good \in Name /\ job.bad \in Name /\ Good # job.bad
  BY <1>1, JobIs DEF TypeInv
<1>3. RowType
  BY DEF TypeInv, RowsInv, RowType
<1> DEFINE clash == \E k \in Cond : rows[job.bad][k] # None /\ rows[Good][k] # None
           new == [k \in Cond |-> IF rows[job.bad][k] # None THEN rows[job.bad][k] ELSE rows[Good][k]]
           none == NoRows[job.bad]
<1>4. rows' = IF clash THEN rows ELSE [rows EXCEPT ![job.bad] = none, ![Good] = new]
  BY DEF MergeRename, Good
<1>5. new \in [Cond -> Row \cup {None}]
  BY <1>2, <1>3 DEF RowType
<1>6. \A k \in Cond : new[k] = IF rows[job.bad][k] # None THEN rows[job.bad][k] ELSE rows[Good][k]
  OBVIOUS
<1>7. none \in [Cond -> Row \cup {None}] /\ \A k \in Cond : none[k] = None
  BY <1>2 DEF NoRows
<1> HIDE DEF new, none
<1>8. CASE clash
  BY <1>1, <1>3, <1>4, <1>8 DEF RowType
<1>9. CASE ~clash
  <2>1. rows' = [rows EXCEPT ![job.bad] = none, ![Good] = new]
    BY <1>4, <1>9
  <2>2. RowType' /\ \A n \in Name, k \in Cond :
          rows'[n][k] = IF n = Good THEN new[k] ELSE IF n = job.bad THEN none[k] ELSE rows[n][k]
    BY <1>2, <1>3, <1>5, <1>7, <2>1 DEF RowType
  <2>3. \A k \in Cond : rows[job.bad][k] = None \/ rows[Good][k] = None
    BY <1>9
  <2> QED
    BY <1>1, <1>2, <1>6, <1>7, <2>2, <2>3
<1> QED
  BY <1>8, <1>9

LEMMA DropJunkIs ==
  ASSUME TypeInv, NEW j \in Garble, DropJunk(j)
  PROVE  /\ job = None /\ job' = None /\ ~IsReal(j) /\ RowType'
         /\ \A n \in Name, k \in Cond : rows'[n][k] = IF n = j THEN None ELSE rows[n][k]
<1>1. RowType /\ j \in Name /\ rows' = [rows EXCEPT ![j] = NoRows[j]]
  BY CanonIs DEF TypeInv, RowsInv, RowType, DropJunk
<1>2. NoRows[j] \in [Cond -> Row \cup {None}] /\ \A k \in Cond : NoRows[j][k] = None
  BY <1>1 DEF NoRows
<1>3. RowType' /\ \A n \in Name, k \in Cond : rows'[n][k] = IF n = j THEN NoRows[j][k] ELSE rows[n][k]
  BY <1>1, <1>2 DEF RowType
<1> QED
  BY <1>2, <1>3 DEF DropJunk

\* The prune takes the good row, and the misspelt one that was merged into it stays.
Rejoins(c, k) == Shadows(c, k) /\ IsOld(c, k) /\ ~IsOld(job.bad, k)

LEMMA PruneIs ==
  ASSUME TypeInv, Prune
  PROVE  /\ RowType'
         /\ \A n \in Name, k \in Cond : rows'[n][k] = IF IsOld(n, k) THEN None ELSE rows[n][k]
         /\ \A c \in City, k \in Cond :
              truth'[c][k] = IF Rejoins(c, k) THEN Rejoined(Forget(truth[c][k], c, k), rows[job.bad][k])
                             ELSE Forget(truth[c][k], c, k)
BY DEF TypeInv, RowsInv, RowType, Prune, Rejoins

-----------------------------------------------------------------------------
(* Tallies. *)

\* The sum of f over S, as the number of pairs of an element and one of its units.
Units(f, S) == UNION {{n} \X (1..f[n]) : n \in S}
Total(f, S) == Cardinality(Units(f, S))

LEMMA UnitsOfOne ==
  ASSUME NEW n, NEW m \in Nat
  PROVE  IsFiniteSet({n} \X (1..m)) /\ Cardinality({n} \X (1..m)) = m
<1>1. IsFiniteSet(1..m) /\ Cardinality(1..m) = m
  BY FS_Interval
<1>2. IsFiniteSet({n}) /\ Cardinality({n}) = 1
  BY FS_Singleton
<1>3. IsFiniteSet({n} \X (1..m)) /\ Cardinality({n} \X (1..m)) = Cardinality({n}) * Cardinality(1..m)
  BY <1>1, <1>2, FS_Product
<1> QED
  BY <1>1, <1>2, <1>3

LEMMA UnitsFinite ==
  ASSUME NEW S, IsFiniteSet(S), NEW f, \A n \in S : f[n] \in Nat
  PROVE  IsFiniteSet(Units(f, S)) /\ Total(f, S) \in Nat
<1> DEFINE one == [n \in S |-> {n} \X (1..f[n])]
           sets == {one[n] : n \in S}
<1>1. one \in Surjection(S, sets)
  BY DEF Surjection
<1>2. IsFiniteSet(sets)
  BY <1>1, FS_Surjection
<1>3. \A T \in sets : IsFiniteSet(T)
  <2>1. \A n \in S : IsFiniteSet({n} \X (1..f[n]))
    BY UnitsOfOne
  <2> QED
    BY <2>1
<1>4. IsFiniteSet(UNION sets)
  BY <1>2, <1>3, FS_UNION
<1>5. Units(f, S) = UNION sets
  BY DEF Units
<1> QED
  BY <1>4, <1>5, FS_CardinalityType DEF Total

LEMMA TotalSame ==
  ASSUME NEW S, NEW f, NEW g, \A n \in S : f[n] = g[n]
  PROVE  Total(f, S) = Total(g, S)
<1>1. Units(f, S) = Units(g, S)
  BY DEF Units
<1> QED
  BY <1>1 DEF Total

\* A sum splits into those over two parts.
LEMMA TotalSplit ==
  ASSUME NEW S, IsFiniteSet(S), NEW T \in SUBSET S, NEW f, \A n \in S : f[n] \in Nat
  PROVE  Total(f, S) = Total(f, T) + Total(f, S \ T)
<1>1. IsFiniteSet(T) /\ IsFiniteSet(S \ T)
  BY FS_Subset
<1>2. /\ IsFiniteSet(Units(f, T)) /\ Total(f, T) \in Nat
      /\ IsFiniteSet(Units(f, S \ T)) /\ Total(f, S \ T) \in Nat
  BY <1>1, UnitsFinite
<1>3. Units(f, S) = Units(f, T) \cup Units(f, S \ T)
  BY DEF Units
<1>4. Units(f, T) \cap Units(f, S \ T) = {}
  BY DEF Units
<1>5. Cardinality({}) = 0
  BY FS_EmptySet
<1>6. Cardinality(Units(f, T) \cup Units(f, S \ T))
        = Cardinality(Units(f, T)) + Cardinality(Units(f, S \ T)) - Cardinality(Units(f, T) \cap Units(f, S \ T))
  BY <1>2, FS_Union, Zenon
<1>7. Total(f, S) = Total(f, T) + Total(f, S \ T) - 0
  BY <1>3, <1>4, <1>5, <1>6 DEF Total
<1> QED
  BY <1>2, <1>7

LEMMA TotalOne ==
  ASSUME NEW n, NEW f, f[n] \in Nat
  PROVE  Total(f, {n}) = f[n]
<1>1. Units(f, {n}) = {n} \X (1..f[n])
  BY DEF Units
<1> QED
  BY <1>1, UnitsOfOne DEF Total

LEMMA TotalZero ==
  ASSUME NEW S, NEW f, \A n \in S : f[n] = 0
  PROVE  Total(f, S) = 0
<1>1. Units(f, S) = {}
  BY DEF Units
<1> QED
  BY <1>1, FS_EmptySet DEF Total

\* One summand changes.
LEMMA TotalChange ==
  ASSUME NEW S, IsFiniteSet(S), NEW m \in S,
         NEW f, \A n \in S : f[n] \in Nat, NEW g, \A n \in S : g[n] \in Nat,
         \A n \in S : n # m => g[n] = f[n]
  PROVE  Total(g, S) = Total(f, S) - f[m] + g[m]
<1>1. /\ Total(f, S) = Total(f, {m}) + Total(f, S \ {m})
      /\ Total(g, S) = Total(g, {m}) + Total(g, S \ {m})
  BY TotalSplit
<1>2. Total(f, {m}) = f[m] /\ Total(g, {m}) = g[m]
  BY TotalOne
<1>3. Total(g, S \ {m}) = Total(f, S \ {m})
  BY TotalSame
<1>4. Total(f, S \ {m}) \in Nat
  BY UnitsFinite, FS_Subset
<1> QED
  BY <1>1, <1>2, <1>3, <1>4

\* Two summands change.
LEMMA TotalChanges ==
  ASSUME NEW S, IsFiniteSet(S), NEW m \in S, NEW o \in S, m # o,
         NEW f, \A n \in S : f[n] \in Nat, NEW g, \A n \in S : g[n] \in Nat,
         \A n \in S : n # m /\ n # o => g[n] = f[n]
  PROVE  Total(g, S) = Total(f, S) - f[m] - f[o] + g[m] + g[o]
<1> DEFINE h == [n \in S |-> IF n = m THEN g[m] ELSE f[n]]
<1>1. \A n \in S : h[n] \in Nat
  OBVIOUS
<1>2. Total(h, S) = Total(f, S) - f[m] + h[m]
  <2>1. \A n \in S : n # m => h[n] = f[n]
    OBVIOUS
  <2> HIDE DEF h
  <2> QED
    BY <1>1, <2>1, TotalChange
<1>3. Total(g, S) = Total(h, S) - h[o] + g[o]
  <2>1. \A n \in S : n # o => g[n] = h[n]
    OBVIOUS
  <2> HIDE DEF h
  <2> QED
    BY <1>1, <2>1, TotalChange
<1>4. h[m] = g[m] /\ h[o] = f[o]
  OBVIOUS
<1>5. Total(f, S) \in Nat /\ f[m] \in Nat /\ f[o] \in Nat /\ g[m] \in Nat /\ g[o] \in Nat
  BY UnitsFinite
<1> HIDE DEF h
<1> QED
  BY <1>2, <1>3, <1>4, <1>5

\* The tally of some names is the sum of their sightings.
SightingsOf(k) == [n \in Name |-> Sightings(n, k)]

LEMMA TallyIs ==
  ASSUME TypeInv, NEW k \in Cond, NEW names \in SUBSET Name
  PROVE  /\ \A n \in Name : SightingsOf(k)[n] \in Nat /\ SightingsOf(k)[n] = Sightings(n, k)
         /\ Tally(names, k) = Total(SightingsOf(k), names) /\ Tally(names, k) \in Nat
         /\ IsFiniteSet(names)
<1>1. \A n \in Name : rows[n][k] # None => rows[n][k].sightings \in Nat
  BY DEF TypeInv, RowsInv, Row
<1>2. \A n \in Name : Sightings(n, k) \in Nat
  BY <1>1 DEF Sightings
<1>3. \A n \in Name : SightingsOf(k)[n] = Sightings(n, k)
  BY DEF SightingsOf
<1>4. IsFiniteSet(names)
  BY ConditionsAssumption, FS_Subset
<1>5. \A n \in names : SightingsOf(k)[n] \in Nat
  BY <1>2, <1>3
<1>6. UNION {{n} \X (1..Sightings(n, k)) : n \in names} = Units(SightingsOf(k), names)
  BY <1>3 DEF Units
<1>7. Tally(names, k) = Total(SightingsOf(k), names)
  BY <1>6 DEF Tally, Total
<1> QED
  BY <1>2, <1>3, <1>4, <1>5, <1>7, UnitsFinite

-----------------------------------------------------------------------------
(* What the truth of a city learns. *)

LEMMA InMergeIs ==
  \A n, k : InMerge(n, k) <=> /\ job # None /\ job.step = "delete" /\ n = job.bad
                              /\ rows[Corrections[job.bad]][k] # None
BY DEF InMerge, InGap

LEMMA InMergeNext ==
  \A n, k : InMerge(n, k)' <=> /\ job' # None /\ job'.step = "delete" /\ n = job'.bad
                               /\ rows'[Corrections[job'.bad]][k] # None
BY DEF InMerge, InGap

\* The reading gives the good spelling its first row, beside the misspelt one.
FillsGap(r) ==
  job # None /\ job.step = "delete" /\ r.name = Good /\ rows[Good][r.cond] = None

\* What a reading takes away: itself, the misspelt row, or nothing.
LEMMA LostIs ==
  ASSUME TypeInv, NEW times \in 1..2, NEW r \in Reading
  PROVE  /\ Lost(r, times) \in Nat
         /\ InMerge(r.name, r.cond) => Lost(r, times) = times
         /\ FillsGap(r) => ~InMerge(r.name, r.cond) /\ Lost(r, times) = Sightings(job.bad, r.cond)
         /\ ~InMerge(r.name, r.cond) /\ ~FillsGap(r) => Lost(r, times) = 0
<1>1. r.cond \in Cond
  BY DEF Reading
<1>2. ASSUME FillsGap(r) PROVE ~InMerge(r.name, r.cond) /\ job.bad \in Name
  BY <1>2, JobIs, InMergeIs DEF FillsGap, TypeInv
<1>3. job # None /\ InGap(job.bad) /\ r.name = Corrections[job.bad] /\ rows[r.name][r.cond] = None <=> FillsGap(r)
  BY DEF InGap, FillsGap, Good
<1>4. Lost(r, times) = IF InMerge(r.name, r.cond) THEN times
                       ELSE IF FillsGap(r) THEN Sightings(job.bad, r.cond) ELSE 0
  BY <1>3 DEF Lost
<1>5. ASSUME FillsGap(r) PROVE Sightings(job.bad, r.cond) \in Nat
  <2>1. \A n \in Name : SightingsOf(r.cond)[n] \in Nat /\ SightingsOf(r.cond)[n] = Sightings(n, r.cond)
    BY <1>1, TallyIs
  <2> QED
    BY <1>2, <1>5, <2>1
<1> QED
  BY <1>2, <1>4, <1>5

LEMMA LearnIs ==
  ASSUME TypeInv, NEW times \in 1..2, NEW r \in Reading, IsReal(r.name),
         NEW t, t = truth[Canon(r.name)][r.cond]
  PROVE  /\ Learn(r, times) \in Truth
         /\ Learn(r, times).count = t.count + 1
         /\ Learn(r, times).drift = t.drift + times - 1 - Lost(r, times)
         /\ InMerge(r.name, r.cond) => Learn(r, times).at = t.at /\ Learn(r, times).values = t.values
         /\ ~InMerge(r.name, r.cond) =>
              /\ Learn(r, times).at = now
              /\ Learn(r, times).values = (IF t.at = now THEN t.values ELSE {}) \cup {r.value}
<1>1. t \in Truth /\ r.value \in Value /\ now \in Nat /\ Lost(r, times) \in Nat
  <2>1. r.name \in Name /\ r.cond \in Cond /\ r.value \in Value
    BY DEF Reading
  <2>2. Canon(r.name) \in City
    BY <2>1, CanonIs
  <2> QED
    BY <2>1, <2>2, LostIs DEF TypeInv, TruthInv, ClockInv
<1> DEFINE count == t.count + 1
           drift == t.drift + times - 1 - Lost(r, times)
           values == (IF t.at = now THEN t.values ELSE {}) \cup {r.value}
           counted == [t EXCEPT !.count = count, !.drift = drift]
<1>2. count \in Int /\ drift \in Int /\ values \in SUBSET Value
  BY <1>1 DEF Truth
<1>3. Learn(r, times) = IF InMerge(r.name, r.cond) THEN counted ELSE [counted EXCEPT !.at = now, !.values = values]
  <2>1. counted.at = t.at /\ counted.values = t.values
    BY <1>1 DEF Truth
  <2> QED
    BY <2>1 DEF Learn
<1> HIDE DEF count, drift, values
<1>4. /\ counted \in Truth /\ counted.count = count /\ counted.drift = drift
      /\ counted.at = t.at /\ counted.values = t.values
  BY <1>1, <1>2 DEF Truth
<1> HIDE DEF counted
<1>5. CASE InMerge(r.name, r.cond)
  BY <1>3, <1>4, <1>5 DEF count, drift
<1>6. CASE ~InMerge(r.name, r.cond)
  <2>1. Learn(r, times) = [counted EXCEPT !.at = now, !.values = values]
    BY <1>3, <1>6
  <2>2. /\ Learn(r, times) \in Truth /\ Learn(r, times).count = count /\ Learn(r, times).drift = drift
        /\ Learn(r, times).at = now /\ Learn(r, times).values = values
    BY <1>1, <1>2, <1>4, <2>1 DEF Truth
  <2> QED
    BY <1>6, <2>2 DEF count, drift, values
<1> QED
  BY <1>5, <1>6

\* What a truth takes back with a misspelt row.
LEMMA RejoinedIs ==
  ASSUME NEW t \in Truth, NEW row \in Row
  PROVE  /\ Rejoined(t, row) \in Truth
         /\ Rejoined(t, row).count = t.count /\ Rejoined(t, row).drift = t.drift + row.sightings
         /\ Rejoined(t, row).at = (IF row.seen > t.at THEN row.seen ELSE t.at)
<1> DEFINE drift == t.drift + row.sightings
           at == IF row.seen > t.at THEN row.seen ELSE t.at
           values == IF row.seen > t.at THEN {row.value}
                     ELSE IF row.seen = t.at /\ t.values # {} THEN t.values \cup {row.value} ELSE t.values
<1>1. t.drift \in Int /\ t.at \in Nat /\ t.values \in SUBSET Value
      /\ row.sightings \in Nat /\ row.seen \in Nat /\ row.value \in Value
  BY DEF Truth, Row
<1>2. drift \in Int /\ at \in Nat /\ values \in SUBSET Value
  BY <1>1
<1>3. Rejoined(t, row) = [t EXCEPT !.drift = drift, !.at = at, !.values = values]
  BY DEF Rejoined
<1> HIDE DEF drift, at, values
<1>4. /\ Rejoined(t, row) \in Truth /\ Rejoined(t, row).count = t.count /\ Rejoined(t, row).drift = drift
      /\ Rejoined(t, row).at = at
  BY <1>2, <1>3 DEF Truth
<1> QED
  BY <1>4 DEF drift, at

LEMMA RejoinedValues ==
  ASSUME NEW t \in Truth, NEW row \in Row
  PROVE  Rejoined(t, row).values = IF row.seen > t.at THEN {row.value}
                                   ELSE IF row.seen = t.at /\ t.values # {} THEN t.values \cup {row.value}
                                   ELSE t.values
BY DEF Rejoined, Truth

\* What the prune leaves of a truth.
LEMMA ForgetIs ==
  ASSUME TypeInv, NEW t \in Truth, NEW c \in City, NEW k \in Cond,
         NEW gone, gone = {n \in Spellings(c) : IsOld(n, k)}
  PROVE  /\ Forget(t, c, k) \in Truth /\ Tally(gone, k) \in Nat
         /\ Forget(t, c, k).count = t.count - Tally(gone, k) /\ Forget(t, c, k).drift = t.drift
         /\ Forget(t, c, k).at = t.at
         /\ Forget(t, c, k).values = IF \E n \in gone : rows[n][k].seen = t.at THEN {} ELSE t.values
<1> DEFINE count == t.count - Tally(gone, k)
           values == IF \E n \in gone : rows[n][k].seen = t.at THEN {} ELSE t.values
<1>1. Forget(t, c, k) = [t EXCEPT !.count = count, !.values = values]
  BY DEF Forget
<1>2. Tally(gone, k) \in Nat
  <2>1. gone \in SUBSET Name
    BY CanonIs
  <2> QED
    BY <2>1, TallyIs
<1>3. count \in Int /\ values \in SUBSET Value
  BY <1>2 DEF Truth
<1> HIDE DEF count, values
<1>4. /\ Forget(t, c, k) \in Truth /\ Forget(t, c, k).count = count /\ Forget(t, c, k).drift = t.drift
      /\ Forget(t, c, k).at = t.at /\ Forget(t, c, k).values = values
  BY <1>1, <1>3 DEF Truth
<1> QED
  BY <1>2, <1>4 DEF count, values

\* The row that a merge's gap hides.
LEMMA ShadowsAre ==
  ASSUME TypeInv, NEW c \in City, NEW k \in Cond, Shadows(c, k)
  PROVE  /\ job # None /\ c = Good /\ InMerge(job.bad, k)
         /\ job.bad \in Name /\ job.bad \in Spellings(c)
         /\ rows[job.bad][k] # None /\ rows[job.bad][k] \in Row /\ rows[job.bad][k].seen <= now
<1>1. job # None /\ c = Good /\ InMerge(job.bad, k) /\ rows[job.bad][k] # None
  BY DEF Shadows, Good
<1>2. JobInv /\ RowsInv
  BY DEF TypeInv
<1>3. job.bad \in Name /\ Canon(job.bad) = Good
  BY <1>1, <1>2, JobIs
<1>4. job.bad \in Spellings(c)
  BY <1>1, <1>3, CanonIs
<1>5. rows[job.bad][k] \in Row /\ rows[job.bad][k].seen <= now
  BY <1>1, <1>2, <1>3 DEF RowsInv
<1> QED
  BY <1>1, <1>3, <1>4, <1>5

LEMMA ForgetNewest ==
  ASSUME TypeInv, NEW t \in Truth, NEW c \in City, NEW k \in Cond
  PROVE  /\ Forget(t, c, k) \in Truth /\ Forget(t, c, k).at = t.at
         /\ (\E n \in Spellings(c) : IsOld(n, k) /\ rows[n][k].seen = t.at) => Forget(t, c, k).values = {}
         /\ (\A n \in Spellings(c) : IsOld(n, k) => rows[n][k].seen # t.at) => Forget(t, c, k).values = t.values
<1> DEFINE gone == {n \in Spellings(c) : IsOld(n, k)}
<1>1. \A n : n \in gone <=> n \in Spellings(c) /\ IsOld(n, k)
  OBVIOUS
<1>2. PICK s : s = gone
  OBVIOUS
<1>3. /\ Forget(t, c, k) \in Truth /\ Forget(t, c, k).at = t.at
      /\ Forget(t, c, k).values = IF \E n \in s : rows[n][k].seen = t.at THEN {} ELSE t.values
  BY <1>2, ForgetIs
<1>4. \A n : n \in s <=> n \in Spellings(c) /\ IsOld(n, k)
  BY <1>1, <1>2
<1> QED
  BY <1>3, <1>4

-----------------------------------------------------------------------------
(* Types. *)

\* Rows stay what they are when each is kept, dropped, or made of rows of its condition.
LEMMA RowsStay ==
  ASSUME TypeInv, now' = now, RowType',
         \A n \in Name, k \in Cond : rows'[n][k] # None =>
           rows'[n][k].seen <= now /\ rows'[n][k].value \in ValueOf(k)
  PROVE  RowsInv'
BY DEF RowsInv, RowType

LEMMA InitTyped == Init => TypeInv
<1> SUFFICES ASSUME Init PROVE TypeInv
  OBVIOUS
<1>1. Stale \in Nat /\ MaxHeard \in Nat /\ MaxFaults \in Nat /\ MaxLen \in [Cond -> Nat \ {0}]
  BY ConditionsAssumption
<1>2. ClockInv
  BY <1>1 DEF Init, ClockInv
<1>3. VoteInv
  <2>1. <<>> \in SamplesOf(Value) /\ Len(<<>>) = 0 /\ DOMAIN <<>> = {}
    BY DEF SamplesOf
  <2>2. voters \in [Name -> [Cond -> SamplesOf(Value)]] /\ \A n \in Name, k \in Cond : voters[n][k] = <<>>
    BY <2>1 DEF Init
  <2> QED
    BY <1>1, <2>1, <2>2 DEF VoteInv, GoodVoters
<1>4. PendingInv
  BY DEF Init, PendingInv, GoodReadings
<1>5. RecentInv /\ RowsInv
  BY DEF Init, RecentInv, RowsInv, NoRows
<1>6. JobInv
  BY DEF Init, JobInv
<1>7. TruthInv
  <2>1. Unheard \in Truth /\ Unheard.at = 0
    BY DEF Unheard, Truth
  <2> QED
    BY <1>2, <2>1 DEF Init, TruthInv, ClockInv
<1> QED
  BY <1>2, <1>3, <1>4, <1>5, <1>6, <1>7 DEF TypeInv

LEMMA TickTyped == ASSUME TypeInv, Tick PROVE TypeInv'
<1>1. /\ now' = now + 1 /\ now \in Nat /\ now' \in Nat /\ now <= now' /\ now' > Stale /\ Stale \in Nat
      /\ recent' \subseteq recent
      /\ UNCHANGED <<heard, faults, voters, pending, rows, job, truth>>
  BY ConditionsAssumption DEF Tick, TypeInv, ClockInv
<1>2. ClockInv'
  BY <1>1 DEF TypeInv, ClockInv
<1>3. VoteInv'
  <2>1. \A n \in Name, k \in Cond : \A i \in DOMAIN voters[n][k] : voters[n][k][i].at \in Nat
    <3> TAKE n \in Name, k \in Cond
    <3> DEFINE T == [value : Value, at : Nat]
    <3>1. voters[n][k] \in Seq(T)
      BY DEF TypeInv, VoteInv, GoodVoters, SamplesOf
    <3> HIDE DEF T
    <3>2. \A i \in DOMAIN voters[n][k] : voters[n][k][i] \in T
      BY <3>1
    <3> QED
      BY <3>2 DEF T
  <2> QED
    BY <1>1, <2>1 DEF TypeInv, VoteInv, GoodVoters
<1>4. PendingInv'
  BY <1>1 DEF TypeInv, PendingInv, GoodReadings
<1>5. RecentInv'
  BY <1>1 DEF TypeInv, RecentInv, Airing
<1>6. RowsInv'
  <2>1. \A n \in Name, k \in Cond : rows[n][k] # None => rows[n][k].seen \in Nat
    BY DEF TypeInv, RowsInv, Row
  <2> QED
    BY <1>1, <2>1 DEF TypeInv, RowsInv
<1>7. JobInv'
  BY <1>1 DEF TypeInv, JobInv
<1>8. TruthInv'
  <2>1. \A c \in City, k \in Cond : truth[c][k].at \in Nat
    BY DEF TypeInv, TruthInv, Truth
  <2> QED
    BY <1>1, <2>1 DEF TypeInv, TruthInv
<1> QED
  BY <1>2, <1>3, <1>4, <1>5, <1>6, <1>7, <1>8 DEF TypeInv

LEMMA HearTyped == ASSUME TypeInv, AiredInv, NEW seg \in Segments, Hear(seg) PROVE TypeInv'
<1>1. heard < MaxHeard /\ heard' = heard + 1 /\ UNCHANGED <<now, faults, rows, job, truth>>
  BY DEF Hear
<1>2. GoodVoters(voters') /\ GoodReadings(pending') /\ recent' = Air(seg)
  BY HearIs DEF TypeInv, AiredInv
<1>3. ClockInv'
  BY <1>1, ConditionsAssumption DEF TypeInv, ClockInv
<1>4. VoteInv' /\ PendingInv'
  BY <1>1, <1>2 DEF VoteInv, PendingInv, GoodVoters, GoodReadings
<1>5. RecentInv'
  <2>1. \A i \in Airings(seg) : Said(seg)[i] \in Reading
    BY SaidIs, LenProperties DEF Airings, SaidAt
  <2>2. now \in Nat
    BY DEF TypeInv, ClockInv
  <2>3. \A i \in Airings(seg) :
          [name |-> Said(seg)[i].name, cond |-> Said(seg)[i].cond,
           value |-> Said(seg)[i].value, at |-> now] \in Airing
    BY <2>1, <2>2 DEF Reading, Airing
  <2> QED
    BY <1>1, <1>2, <2>2, <2>3 DEF Air, TypeInv, RecentInv
<1>6. RowsInv' /\ JobInv' /\ TruthInv'
  BY <1>1 DEF TypeInv, RowsInv, JobInv, TruthInv
<1> QED
  BY <1>3, <1>4, <1>5, <1>6 DEF TypeInv

LEMMA RecordTyped == ASSUME TypeInv, NEW times \in 1..2, Record(times) PROVE TypeInv'
<1> DEFINE r == Head(pending)
           c == Canon(r.name)
<1>1. /\ times = 2 => faults < MaxFaults
      /\ faults' = faults + times - 1 /\ pending' = Tail(pending)
      /\ UNCHANGED <<now, heard, voters, recent, job>>
  BY DEF Record
<1>2. /\ pending # <<>> /\ r \in Reading /\ r.name \in Name /\ r.cond \in Cond /\ r.value \in Value
      /\ r.value \in ValueOf(r.cond) /\ RowType'
      /\ \A n \in Name, k \in Cond :
           rows'[n][k] = IF n = r.name /\ k = r.cond THEN Upsert(rows[n][k], r, times) ELSE rows[n][k]
  BY RecordIs
<1>3. ClockInv'
  BY <1>1, ConditionsAssumption DEF TypeInv, ClockInv
<1>4. VoteInv' /\ RecentInv' /\ JobInv'
  BY <1>1 DEF TypeInv, VoteInv, GoodVoters, RecentInv, JobInv
<1>5. PendingInv'
  <2>1. /\ pending' \in Seq(Reading) /\ Len(pending') = Len(pending) - 1
        /\ \A i \in 1..Len(pending') : pending'[i] = pending[i + 1]
    BY <1>1, <1>2, HeadTailProperties DEF TypeInv, PendingInv, GoodReadings
  <2>2. Len(pending) \in Nat /\ DOMAIN pending = 1..Len(pending) /\ DOMAIN pending' = 1..Len(pending')
    BY <2>1, LenProperties DEF TypeInv, PendingInv, GoodReadings
  <2>3. \A i \in DOMAIN pending' : i + 1 \in DOMAIN pending
    BY <2>1, <2>2
  <2> QED
    BY <2>1, <2>2, <2>3 DEF TypeInv, PendingInv, GoodReadings
<1>6. RowsInv'
  <2>1. now \in Nat
    BY DEF TypeInv, ClockInv
  <2>2. \A old : Upsert(old, r, times).seen = now /\ Upsert(old, r, times).value = r.value
    BY DEF Upsert
  <2>3. \A n \in Name, k \in Cond : rows'[n][k] # None =>
           rows'[n][k].seen <= now /\ rows'[n][k].value \in ValueOf(k)
    <3> TAKE n \in Name, k \in Cond
    <3>1. CASE n = r.name /\ k = r.cond
      BY <1>2, <2>1, <2>2, <3>1
    <3>2. CASE ~ (n = r.name /\ k = r.cond)
      BY <1>2, <3>2 DEF TypeInv, RowsInv
    <3> QED
      BY <3>1, <3>2
  <2> QED
    BY <1>1, <1>2, <2>3, RowsStay
<1>7. TruthInv'
  <2>1. /\ truth \in [City -> [Cond -> Truth]] /\ now \in Nat
        /\ \A d \in City, k \in Cond : truth[d][k].at <= now
    BY DEF TypeInv, TruthInv, ClockInv
  <2>2. CASE IsReal(r.name)
    <3>1. c \in City
      BY <1>2, <2>2, CanonIs
    <3> DEFINE t == Learn(r, times)
    <3>2. t \in Truth /\ t.at <= now
      <4>1. t \in Truth /\ (t.at = truth[c][r.cond].at \/ t.at = now)
        BY <1>2, <2>2, LearnIs
      <4> QED
        BY <1>2, <2>1, <3>1, <4>1
    <3>3. truth' = [truth EXCEPT ![c][r.cond] = t]
      BY <2>2 DEF Record
    <3> HIDE DEF t, c, r
    <3>4. truth' \in [City -> [Cond -> Truth]]
      BY <1>2, <2>1, <3>1, <3>2, <3>3
    <3>5. \A d \in City, k \in Cond : truth'[d][k].at <= now
      BY <1>2, <2>1, <3>1, <3>2, <3>3
    <3> QED
      BY <1>1, <3>4, <3>5 DEF TruthInv
  <2>3. CASE ~IsReal(r.name)
    <3>1. UNCHANGED <<now, truth>>
      BY <1>1, <2>3 DEF Record
    <3> QED
      BY <3>1 DEF TypeInv, TruthInv
  <2> QED
    BY <2>2, <2>3
<1> QED
  BY <1>3, <1>4, <1>5, <1>6, <1>7 DEF TypeInv

LEMMA RestartTyped == ASSUME TypeInv, Restart PROVE TypeInv'
<1>1. /\ faults < MaxFaults /\ faults' = faults + 1 /\ pending' = <<>>
      /\ voters' = [n \in Name |-> [k \in Cond |-> Primed(rows[n][k])]]
      /\ UNCHANGED <<now, heard, recent, rows, job, truth>>
  BY DEF Restart
<1>2. ClockInv'
  BY <1>1, ConditionsAssumption DEF TypeInv, ClockInv
<1>3. VoteInv'
  <2>1. \A n \in Name, k \in Cond :
          /\ Primed(rows[n][k]) \in SamplesOf(Value) /\ Len(Primed(rows[n][k])) <= 1
          /\ \A i \in DOMAIN Primed(rows[n][k]) :
               Primed(rows[n][k])[i].value \in ValueOf(k) /\ Primed(rows[n][k])[i].at = 0
    <3> TAKE n \in Name, k \in Cond
    <3>1. CASE rows[n][k] = None
      BY <3>1 DEF Primed, SamplesOf
    <3>2. CASE rows[n][k] # None
      <4> DEFINE s == [value |-> rows[n][k].value, at |-> 0]
      <4>1. s \in [value : Value, at : Nat] /\ s.value \in ValueOf(k) /\ s.at = 0
        BY <3>2 DEF TypeInv, RowsInv, Row
      <4>2. Primed(rows[n][k]) = <<s>>
        BY <3>2 DEF Primed
      <4> HIDE DEF s
      <4> QED
        BY <4>1, <4>2 DEF SamplesOf
    <3> QED
      BY <3>1, <3>2
  <2>2. MaxLen \in [Cond -> Nat \ {0}] /\ now \in Nat
    BY ConditionsAssumption DEF TypeInv, ClockInv
  <2>3. \A n \in Name, k \in Cond : voters'[n][k] = Primed(rows[n][k])
    BY <1>1
  <2>4. voters' \in [Name -> [Cond -> SamplesOf(Value)]]
    BY <1>1, <2>1
  <2>5. \A n \in Name, k \in Cond : Len(Primed(rows[n][k])) <= MaxLen[k]
    <3> TAKE n \in Name, k \in Cond
    <3>1. Len(Primed(rows[n][k])) \in Nat
      BY <2>1, LenProperties DEF SamplesOf
    <3> QED
      BY <2>1, <2>2, <3>1
  <2>6. \A n \in Name, k \in Cond :
          /\ Len(voters'[n][k]) <= MaxLen[k]
          /\ \A i \in DOMAIN voters'[n][k] :
               voters'[n][k][i].value \in ValueOf(k) /\ voters'[n][k][i].at <= now'
    <3> TAKE n \in Name, k \in Cond
    <3> DEFINE p == Primed(rows[n][k])
    <3>1. voters'[n][k] = p /\ now' = now
      BY <1>1, <2>3
    <3>2. Len(p) <= MaxLen[k] /\ \A i \in DOMAIN p : p[i].value \in ValueOf(k) /\ p[i].at = 0
      BY <2>1, <2>5
    <3> HIDE DEF p
    <3> QED
      BY <2>2, <3>1, <3>2
  <2> QED
    BY <2>4, <2>6 DEF VoteInv, GoodVoters
<1>4. PendingInv'
  BY <1>1 DEF PendingInv, GoodReadings
<1>5. RecentInv' /\ RowsInv' /\ JobInv'
  BY <1>1 DEF TypeInv, RecentInv, RowsInv, JobInv
<1>6. TruthInv'
  BY <1>1 DEF TypeInv, TruthInv
<1> QED
  BY <1>2, <1>3, <1>4, <1>5, <1>6 DEF TypeInv

\* Steps that leave the service alone.
LEMMA ServiceStays ==
  ASSUME TypeInv, UNCHANGED <<now, heard, voters, pending, recent>>
  PROVE  VoteInv' /\ PendingInv' /\ RecentInv'
BY DEF TypeInv, VoteInv, GoodVoters, PendingInv, GoodReadings, RecentInv

LEMMA MergeTyped == ASSUME TypeInv, Merge PROVE TypeInv'
<1>1. UNCHANGED <<now, heard, voters, pending, recent>> /\ (faults' = faults \/ (faults < MaxFaults /\ faults' = faults + 1))
  <2>1. ASSUME NEW n \in Garble, BeginMerge(n) \/ DropJunk(n)
        PROVE  UNCHANGED <<now, heard, voters, pending, recent>> /\ faults' = faults
    BY <2>1 DEF BeginMerge, DropJunk, service
  <2>2. ASSUME MergeUpdate \/ MergeDelete PROVE UNCHANGED <<now, heard, voters, pending, recent>> /\ faults' = faults
    BY <2>2 DEF MergeUpdate, MergeDelete, service
  <2>3. ASSUME MergeRename PROVE UNCHANGED <<now, heard, voters, pending, recent>> /\ faults' = faults
    BY <2>3 DEF MergeRename, service
  <2>4. ASSUME MergeDies
        PROVE  /\ UNCHANGED <<now, heard, voters, pending, recent>>
               /\ faults < MaxFaults /\ faults' = faults + 1
    BY <2>4 DEF MergeDies, service
  <2>5. CASE \E n \in Garble : BeginMerge(n) \/ DropJunk(n)
    BY <2>1, <2>5
  <2>6. CASE MergeUpdate \/ MergeDelete
    BY <2>2, <2>6
  <2>7. CASE MergeRename
    BY <2>3, <2>7
  <2>8. CASE MergeDies
    BY <2>4, <2>8
  <2> QED
    BY <2>5, <2>6, <2>7, <2>8 DEF Merge
<1>2. ClockInv' /\ VoteInv' /\ PendingInv' /\ RecentInv'
  BY <1>1, ConditionsAssumption, ServiceStays DEF TypeInv, ClockInv
<1>3. (\A n \in Name, k \in Cond : rows'[n][k] = rows[n][k]) /\ RowType' => RowsInv'
  BY <1>1, RowsStay DEF TypeInv, RowsInv
<1>4. UNCHANGED rows => RowsInv'
  BY <1>1 DEF TypeInv, RowsInv
<1>5. UNCHANGED truth => TruthInv'
  BY <1>1 DEF TypeInv, TruthInv
<1>6. ASSUME NEW n \in Garble, BeginMerge(n) PROVE TypeInv'
  <2>1. job' = [bad |-> n, step |-> "update"] /\ IsReal(n) /\ UNCHANGED <<rows, truth>>
    BY <1>6 DEF BeginMerge
  <2>2. JobInv'
    <3>1. IsReal(n)'
      BY <2>1 DEF IsReal, Canon
    <3> QED
      BY <2>1, <3>1 DEF JobInv, Job
  <2> QED
    BY <1>2, <1>4, <1>5, <2>1, <2>2 DEF TypeInv
<1>7. ASSUME NEW n \in Garble, DropJunk(n) PROVE TypeInv'
  <2>1. /\ RowType' /\ \A m \in Name, k \in Cond : rows'[m][k] = IF m = n THEN None ELSE rows[m][k]
        /\ job' = None /\ UNCHANGED truth
    BY <1>7, DropJunkIs DEF DropJunk
  <2>2. RowsInv'
    BY <1>1, <2>1, RowsStay DEF TypeInv, RowsInv
  <2> QED
    BY <1>2, <1>5, <2>1, <2>2 DEF TypeInv, JobInv
<1>8. CASE MergeUpdate
  <2>1. /\ job # None /\ job.step = "update" /\ job' = [job EXCEPT !.step = "delete"]
        /\ RowType'
        /\ \A n \in Name, k \in Cond :
              rows'[n][k] = IF n = Good /\ rows[n][k] # None /\ rows[job.bad][k] # None
                            THEN Merged(rows[n][k], rows[job.bad][k]) ELSE rows[n][k]
    BY <1>8, MergeUpdateIs
  <2>2. job.bad \in Name /\ job \in Job
    BY <2>1, JobIs DEF TypeInv
  <2>3. RowsInv'
    <3>1. \A n \in Name, k \in Cond : rows'[n][k] # None =>
            rows'[n][k].seen <= now /\ rows'[n][k].value \in ValueOf(k)
      <4> TAKE n \in Name, k \in Cond
      <4> DEFINE g == rows[n][k]
                 b == rows[job.bad][k]
      <4>1. /\ g # None => g.seen <= now /\ g.value \in ValueOf(k)
            /\ b # None => b.seen <= now /\ b.value \in ValueOf(k)
        BY <2>2 DEF TypeInv, RowsInv
      <4>2. rows'[n][k] = g \/ (g # None /\ b # None /\ rows'[n][k] = Merged(g, b))
        BY <2>1
      <4>3. /\ Merged(g, b).seen = g.seen \/ Merged(g, b).seen = b.seen
            /\ Merged(g, b).value = g.value \/ Merged(g, b).value = b.value
        BY DEF Merged
      <4> HIDE DEF g, b
      <4> QED
        BY <4>1, <4>2, <4>3
    <3> QED
      BY <1>1, <2>1, <3>1, RowsStay
  <2>4. JobInv'
    <3>1. job' \in Job /\ job'.bad = job.bad /\ IsReal(job.bad)
      BY <2>1, <2>2 DEF Job, TypeInv, JobInv
    <3>2. IsReal(job'.bad)
      BY <3>1
    <3> QED
      BY <3>1, <3>2 DEF JobInv, IsReal, Canon
  <2>5. UNCHANGED truth
    BY <1>8 DEF MergeUpdate
  <2> QED
    BY <1>2, <1>5, <2>3, <2>4, <2>5 DEF TypeInv
<1>9. CASE MergeDelete
  <2>1. /\ job # None /\ job' = [job EXCEPT !.step = "rename"]
        /\ RowType'
        /\ \A n \in Name, k \in Cond :
              rows'[n][k] = IF n = job.bad /\ rows[Good][k] # None THEN None ELSE rows[n][k]
    BY <1>9, MergeDeleteIs
  <2>2. RowsInv'
    BY <1>1, <2>1, RowsStay DEF TypeInv, RowsInv
  <2>3. JobInv'
    <3>1. job' \in Job /\ job'.bad = job.bad /\ IsReal(job.bad)
      BY <2>1, JobIs DEF Job, TypeInv, JobInv
    <3>2. IsReal(job'.bad)
      BY <3>1
    <3> QED
      BY <3>1, <3>2 DEF JobInv, IsReal, Canon
  <2>4. UNCHANGED truth
    BY <1>9 DEF MergeDelete
  <2> QED
    BY <1>2, <1>5, <2>2, <2>3, <2>4 DEF TypeInv
<1>10. CASE MergeRename
  <2>1. /\ job # None /\ job' = None /\ RowType'
        /\ \/ rows' = rows
           \/ \A n \in Name, k \in Cond :
                rows'[n][k] = IF n = job.bad THEN None
                              ELSE IF n = Good /\ rows[job.bad][k] # None THEN rows[job.bad][k]
                              ELSE rows[n][k]
    BY <1>10, MergeRenameIs
  <2>2. job.bad \in Name
    BY <2>1, JobIs DEF TypeInv
  <2>3. RowsInv'
    <3>1. \A n \in Name, k \in Cond : rows'[n][k] # None =>
            rows'[n][k].seen <= now /\ rows'[n][k].value \in ValueOf(k)
      BY <2>1, <2>2 DEF TypeInv, RowsInv
    <3> QED
      BY <1>1, <2>1, <3>1, RowsStay
  <2>4. UNCHANGED truth
    BY <1>10 DEF MergeRename
  <2> QED
    BY <1>2, <1>5, <2>1, <2>3, <2>4 DEF TypeInv, JobInv
<1>11. CASE MergeDies
  <2>1. /\ job # None /\ job' = None /\ UNCHANGED rows
        /\ truth' = [c \in City |-> [k \in Cond |->
                       IF Shadows(c, k) THEN Rejoined(truth[c][k], rows[job.bad][k]) ELSE truth[c][k]]]
    BY <1>11 DEF MergeDies
  <2>2. job.bad \in Name
    BY <2>1, JobIs DEF TypeInv
  <2>3. ASSUME NEW c \in City, NEW k \in Cond
        PROVE  truth'[c][k] \in Truth /\ truth'[c][k].at <= now
    <3>1. truth[c][k] \in Truth /\ truth[c][k].at <= now
      BY DEF TypeInv, TruthInv
    <3>2. CASE Shadows(c, k)
      <4>1. rows[job.bad][k] \in Row /\ rows[job.bad][k].seen <= now
        BY <3>2, ShadowsAre
      <4>2. truth'[c][k] = Rejoined(truth[c][k], rows[job.bad][k])
        BY <2>1, <3>2
      <4> QED
        BY <3>1, <4>1, <4>2, RejoinedIs
    <3>3. CASE ~Shadows(c, k)
      BY <2>1, <3>1, <3>3
    <3> QED
      BY <3>2, <3>3
  <2>4. TruthInv'
    BY <1>1, <2>1, <2>3 DEF TruthInv
  <2> QED
    BY <1>2, <1>4, <2>1, <2>4 DEF TypeInv, JobInv
<1> QED
  BY <1>6, <1>7, <1>8, <1>9, <1>10, <1>11 DEF Merge

LEMMA PruneTyped == ASSUME TypeInv, Prune PROVE TypeInv'
<1>1. UNCHANGED <<now, heard, faults, voters, pending, recent, job>>
  BY DEF Prune, service
<1>2. ClockInv' /\ VoteInv' /\ PendingInv' /\ RecentInv'
  BY <1>1, ServiceStays DEF TypeInv, ClockInv
<1>3. RowsInv'
  BY <1>1, PruneIs, RowsStay DEF TypeInv, RowsInv
<1>4. JobInv'
  BY <1>1 DEF TypeInv, JobInv, IsReal, Canon
<1>5. TruthInv'
  <2>1. ASSUME NEW c \in City, NEW k \in Cond
        PROVE  truth'[c][k] \in Truth /\ truth'[c][k].at <= now
    <3> DEFINE t == Forget(truth[c][k], c, k)
    <3>1. truth[c][k] \in Truth /\ truth[c][k].at <= now
      BY DEF TypeInv, TruthInv
    <3>2. t \in Truth /\ t.at <= now
      BY <3>1, ForgetIs
    <3>3. truth'[c][k] = IF Rejoins(c, k) THEN Rejoined(t, rows[job.bad][k]) ELSE t
      BY PruneIs
    <3> HIDE DEF t
    <3>4. CASE Rejoins(c, k)
      <4>1. rows[job.bad][k] \in Row /\ rows[job.bad][k].seen <= now
        BY <3>4, ShadowsAre DEF Rejoins
      <4> QED
        BY <3>2, <3>3, <3>4, <4>1, RejoinedIs
    <3>5. CASE ~Rejoins(c, k)
      BY <3>2, <3>3, <3>5
    <3> QED
      BY <3>4, <3>5
  <2>2. truth' \in [City -> [Cond -> Truth]]
    <3> DEFINE F(c, k) == IF Rejoins(c, k) THEN Rejoined(Forget(truth[c][k], c, k), rows[job.bad][k])
                          ELSE Forget(truth[c][k], c, k)
    <3>1. truth' = [c \in City |-> [k \in Cond |-> F(c, k)]]
      BY DEF Prune, Rejoins
    <3> HIDE DEF F
    <3> QED
      BY <2>1, <3>1
  <2> QED
    BY <1>1, <2>1, <2>2 DEF TruthInv
<1> QED
  BY <1>2, <1>3, <1>4, <1>5 DEF TypeInv

LEMMA TypeStep == ASSUME TypeInv, AiredInv, [Next]_vars PROVE TypeInv'
<1>1. ASSUME UNCHANGED vars PROVE TypeInv'
  BY <1>1 DEF vars, service, TypeInv, ClockInv, VoteInv, GoodVoters, PendingInv, GoodReadings, RecentInv,
              RowsInv, JobInv, IsReal, Canon, TruthInv
<1> QED
  BY <1>1, TickTyped, HearTyped, RecordTyped, RestartTyped, MergeTyped, PruneTyped DEF Next

-----------------------------------------------------------------------------
(* What is recorded was on the air. *)

LEMMA AiredStays ==
  ASSUME AiredInv, UNCHANGED <<now, voters, pending, recent>>
  PROVE  AiredInv'
BY DEF AiredInv, VotesAired, ReadingsAired, InAir

LEMMA AiredStep == ASSUME TypeInv, AiredInv, [Next]_vars PROVE AiredInv'
<1>1. ASSUME UNCHANGED vars PROVE AiredInv'
  BY <1>1, AiredStays DEF vars, service
<1>2. CASE Tick
  <2>1. now' = now + 1 /\ pending' = <<>> /\ voters' = voters /\ recent' = {a \in recent : now' - a.at <= Stale}
    BY <1>2 DEF Tick
  <2>2. ASSUME NEW n \in Name, NEW k \in Cond, NEW i \in DOMAIN voters[n][k], now' - voters[n][k][i].at <= Stale
        PROVE  AsAired(n, k, voters[n][k][i]) \in recent'
    <3> DEFINE s == voters[n][k][i]
               T == [value : Value, at : Nat]
    <3>1. s \in T
      <4>1. voters[n][k] \in Seq(T)
        BY DEF TypeInv, VoteInv, GoodVoters, SamplesOf
      <4> HIDE DEF T
      <4> QED
        BY <4>1
    <3>2. now - s.at <= Stale
      BY <2>1, <2>2, <3>1, ConditionsAssumption DEF TypeInv, ClockInv
    <3>3. AsAired(n, k, s) \in recent
      BY <3>2 DEF AiredInv, VotesAired
    <3>4. AsAired(n, k, s).at = s.at
      BY DEF AsAired
    <3> QED
      BY <2>1, <2>2, <3>3, <3>4
  <2> QED
    BY <2>1, <2>2 DEF AiredInv, VotesAired, ReadingsAired
<1>3. ASSUME NEW seg \in Segments, Hear(seg) PROVE AiredInv'
  <2>1. VotesAired(voters', recent') /\ ReadingsAired(pending', recent')
    BY <1>3, HearIs DEF TypeInv, AiredInv
  <2>2. now' = now
    BY <1>3 DEF Hear
  <2> QED
    BY <2>1, <2>2 DEF AiredInv, VotesAired, ReadingsAired, InAir
<1>4. ASSUME NEW times \in 1..2, Record(times) PROVE AiredInv'
  <2>1. pending' = Tail(pending) /\ UNCHANGED <<now, voters, recent>>
    BY <1>4 DEF Record
  <2>2. pending # <<>> /\ pending \in Seq(Reading)
    BY <1>4, RecordIs DEF TypeInv, PendingInv, GoodReadings
  <2>3. /\ pending' \in Seq(Reading) /\ Len(pending') = Len(pending) - 1
        /\ \A i \in 1..Len(pending') : pending'[i] = pending[i + 1]
    BY <2>1, <2>2, HeadTailProperties
  <2>4. Len(pending) \in Nat /\ DOMAIN pending = 1..Len(pending) /\ DOMAIN pending' = 1..Len(pending')
    BY <2>2, <2>3, LenProperties
  <2>5. \A i \in DOMAIN pending' : i + 1 \in DOMAIN pending /\ pending'[i] = pending[i + 1]
    BY <2>3, <2>4
  <2>6. ReadingsAired(pending', recent)
    BY <2>5 DEF AiredInv, ReadingsAired
  <2> QED
    BY <2>1, <2>6 DEF AiredInv, VotesAired, ReadingsAired, InAir
<1>5. CASE Restart
  <2>1. pending' = <<>> /\ UNCHANGED <<now, recent>>
        /\ voters' = [n \in Name |-> [k \in Cond |-> Primed(rows[n][k])]]
    BY <1>5 DEF Restart
  <2>2. \A n \in Name, k \in Cond : \A i \in DOMAIN voters'[n][k] : voters'[n][k][i].at = 0
    <3> TAKE n \in Name, k \in Cond
    <3>1. voters'[n][k] = Primed(rows[n][k])
      BY <2>1
    <3> QED
      BY <3>1 DEF Primed
  <2>3. \A n \in Name, k \in Cond : \A i \in DOMAIN voters'[n][k] : ~ (now - voters'[n][k][i].at <= Stale)
    BY <2>2, ConditionsAssumption DEF TypeInv, ClockInv
  <2>4. VotesAired(voters, recent)'
    BY <2>1, <2>3 DEF VotesAired
  <2>5. ReadingsAired(pending, recent)'
    <3>1. DOMAIN pending' = {}
      BY <2>1
    <3> QED
      BY <3>1 DEF ReadingsAired
  <2> QED
    BY <2>4, <2>5 DEF AiredInv
<1>6. CASE Merge
  BY <1>6, AiredStays DEF Merge, BeginMerge, DropJunk, MergeUpdate, MergeDelete, MergeRename, MergeDies, service
<1>7. CASE Prune
  BY <1>7, AiredStays DEF Prune, service
<1> QED
  BY <1>1, <1>2, <1>3, <1>4, <1>5, <1>6, <1>7 DEF Next

-----------------------------------------------------------------------------
(* The wind and its speed. *)

\* No tidying touches a row of wind or speed.
LEMMA TidyKeepsWind ==
  ASSUME TypeInv, HomeOnly, Merge \/ Prune
  PROVE  \A n \in Name, k \in {"wind", "speed"} : rows'[n][k] = rows[n][k]
<1> DEFINE Kept == \A n \in Name, k \in {"wind", "speed"} : rows'[n][k] = rows[n][k]
<1>1. \A n \in Garble : n \in Name \ {Primary} /\ n \in Name
  BY ConditionsAssumption DEF Name
<1>2. \A n \in Garble, k \in {"wind", "speed"} : k \in Cond /\ rows[n][k] = None
  BY <1>1, CondIs DEF HomeOnly
<1>3. {"wind", "speed"} \subseteq Cond
  BY CondIs
<1>4. ASSUME NEW n \in Garble, BeginMerge(n) PROVE Kept
  BY <1>4 DEF BeginMerge
<1>5. ASSUME NEW n \in Garble, DropJunk(n) PROVE Kept
  BY <1>2, <1>3, <1>5, DropJunkIs
<1>6. CASE MergeUpdate
  BY <1>2, <1>3, <1>6, MergeUpdateIs, JobIs DEF TypeInv
<1>7. CASE MergeDelete
  BY <1>2, <1>3, <1>7, MergeDeleteIs, JobIs DEF TypeInv
<1>8. CASE MergeRename
  BY <1>2, <1>3, <1>8, MergeRenameIs, JobIs DEF TypeInv
<1>9. CASE MergeDies
  BY <1>9 DEF MergeDies
<1>10. CASE Prune
  <2>1. \A n \in Name, k \in {"wind", "speed"} : ~IsOld(n, k)
    BY DEF IsOld, HomeOnly
  <2> QED
    BY <1>3, <1>10, <2>1, PruneIs
<1> QED
  BY <1>4, <1>5, <1>6, <1>7, <1>8, <1>9, <1>10 DEF Merge

LEMMA WindStays ==
  ASSUME TypeInv, WindInv, pending' = pending, ~split' => ~split,
         \A n \in Name, k \in {"wind", "speed"} : rows'[n][k] = rows[n][k]
  PROVE  WindInv'
<1>1. Primary \in Name
  BY ConditionsAssumption DEF Name
<1>2. SpeedLast(pending)' /\ WindFirst(pending)' /\ SpeedNext(pending)' = SpeedNext(pending)
  BY DEF WindInv, SpeedLast, WindFirst, SpeedNext, SpeedPending, Last
<1>3. HomeOnly'
  BY DEF WindInv, HomeOnly
<1>4. rows'[Primary]["wind"] = rows[Primary]["wind"] /\ rows'[Primary]["speed"] = rows[Primary]["speed"]
  BY <1>1
<1>5. Last(pending)' = Last(pending)
  BY DEF Last
<1> QED
  BY <1>2, <1>3, <1>4, <1>5 DEF WindInv

LEMMA WindRecord ==
  ASSUME TypeInv, WindInv, NEW times \in 1..2, Record(times)
  PROVE  WindInv'
<1> DEFINE r == Head(pending)
           L == Len(pending)
           W == rows[Primary]["wind"]
           S == rows[Primary]["speed"]
<1>1. /\ pending # <<>> /\ pending \in Seq(Reading) /\ r = pending[1] /\ r \in Reading
      /\ r.name \in Name /\ r.cond \in Cond
      /\ \A n \in Name, k \in Cond :
           rows'[n][k] = IF n = r.name /\ k = r.cond THEN Upsert(rows[n][k], r, times) ELSE rows[n][k]
      /\ Upsert(rows[r.name][r.cond], r, times) \in Row
  BY RecordIs DEF TypeInv, PendingInv, GoodReadings
<1>2. /\ pending' \in Seq(Reading) /\ Len(pending') = L - 1 /\ L \in Nat \ {0}
      /\ \A i \in 1 .. L - 1 : pending'[i] = pending[i + 1]
      /\ DOMAIN pending = 1..L /\ DOMAIN pending' = 1 .. L - 1
  <2>1. pending' = Tail(pending)
    BY DEF Record
  <2>2. pending' \in Seq(Reading) /\ Len(pending') = L - 1 /\ \A i \in 1..Len(pending') : pending'[i] = pending[i + 1]
    BY <1>1, <2>1, HeadTailProperties
  <2>3. L \in Nat \ {0} /\ DOMAIN pending = 1..L /\ DOMAIN pending' = 1..Len(pending')
    BY <1>1, <2>2, LenProperties, EmptySeq
  <2> QED
    BY <2>2, <2>3
<1>3. SpeedLast(pending) /\ WindFirst(pending) /\ HomeOnly
  BY DEF WindInv
<1>4. L >= 2 => /\ Last(pending') = Last(pending) /\ pending' # <<>>
                /\ Len(pending') - 1 = L - 2
  BY <1>2, EmptySeq DEF Last
<1>5. SpeedLast(pending')
  <2> SUFFICES ASSUME NEW i \in DOMAIN pending', pending'[i].cond # "temp"
               PROVE  /\ pending'[i].name = Primary /\ Last(pending').cond = "speed"
                      /\ \/ i = Len(pending')
                         \/ /\ i = Len(pending') - 1 /\ pending'[i].cond = "wind"
                            /\ Last(pending').value = SpeedOf[pending'[i].value]
    BY DEF SpeedLast
  <2>1. i + 1 \in DOMAIN pending /\ pending'[i] = pending[i + 1] /\ L >= 2
    BY <1>2
  <2>2. /\ pending[i + 1].name = Primary /\ Last(pending).cond = "speed"
        /\ \/ i + 1 = Len(pending)
           \/ /\ i + 1 = Len(pending) - 1 /\ pending[i + 1].cond = "wind"
              /\ Last(pending).value = SpeedOf[pending[i + 1].value]
    BY <1>3, <2>1 DEF SpeedLast
  <2> QED
    BY <1>2, <1>4, <2>1, <2>2
<1>6. WindFirst(pending')
  <2> SUFFICES ASSUME Len(pending') >= 2, Last(pending').cond = "speed"
               PROVE  pending'[Len(pending') - 1].cond = "wind"
    BY DEF WindFirst
  <2>1. L >= 3 /\ L - 2 \in 1 .. L - 1 /\ (L - 2) + 1 = L - 1
    BY <1>2
  <2>2. pending[L - 1].cond = "wind"
    <3>1. L >= 2 /\ Last(pending).cond = "speed"
      BY <1>2, <1>4, <2>1
    <3> QED
      BY <1>3, <3>1 DEF WindFirst
  <2> QED
    BY <1>2, <2>1, <2>2
<1>7. HomeOnly'
  <2> SUFFICES ASSUME NEW n \in Name \ {Primary}, NEW k \in {"wind", "speed"}
               PROVE  rows'[n][k] = None
    BY DEF HomeOnly
  <2>1. k \in Cond /\ rows[n][k] = None
    BY <1>3, CondIs DEF HomeOnly
  <2>2. r.cond = k => r.name = Primary
    BY <1>1, <1>2, <1>3, CondIs DEF SpeedLast
  <2> QED
    BY <1>1, <2>1, <2>2
<1>8. Primary \in Name /\ "wind" \in Cond /\ "speed" \in Cond
  BY ConditionsAssumption, CondIs DEF Name
<1>9. \A old : Upsert(old, r, times).value = r.value
  BY DEF Upsert
<1>10. r.cond # "speed" => (~split' => ~split)
  BY Zenon DEF Record
<1>11. /\ W # None /\ ~split /\ ~SpeedNext(pending) => S # None /\ S.value = SpeedOf[W.value]
       /\ SpeedNext(pending) => W # None /\ Last(pending).value = SpeedOf[W.value]
  BY DEF WindInv
<1> DEFINE W1 == rows'[Primary]["wind"]
           S1 == rows'[Primary]["speed"]
<1>12. /\ W1 # None /\ ~split' /\ ~SpeedNext(pending') => S1 # None /\ S1.value = SpeedOf[W1.value]
       /\ SpeedNext(pending') => W1 # None /\ Last(pending').value = SpeedOf[W1.value]
  <2>1. CASE r.cond = "temp"
    <3>1. W1 = W /\ S1 = S
      BY <1>1, <1>8, <2>1, CondIs
    <3>2. ~SpeedNext(pending)
      BY <1>1, <2>1, CondIs DEF SpeedNext, SpeedPending, Last
    <3>3. ~SpeedNext(pending')
      <4> SUFFICES ASSUME Len(pending') = 1, SpeedPending(pending') PROVE FALSE
        BY DEF SpeedNext
      <4>1. L = 2 /\ Last(pending).cond = "speed"
        BY <1>2, <1>4 DEF SpeedPending
      <4>2. pending[1].cond = "wind"
        BY <1>3, <4>1 DEF WindFirst
      <4> QED
        BY <1>1, <2>1, <4>2, CondIs
    <3>4. ~split' => ~split
      BY <1>10, <2>1, CondIs
    <3>5. W # None /\ ~split => S # None /\ S.value = SpeedOf[W.value]
      BY <1>11, <3>2, Zenon
    <3> HIDE DEF W, S, W1, S1
    <3> QED
      BY <3>1, <3>3, <3>4, <3>5
  <2>2. CASE r.cond = "wind"
    <3>1. 1 \in DOMAIN pending /\ pending[1].cond # "temp"
      BY <1>1, <1>2, <2>2, CondIs
    <3>2. r.name = Primary /\ Last(pending).cond = "speed" /\ (1 = L \/ (1 = L - 1 /\ Last(pending).value = SpeedOf[r.value]))
      BY <1>1, <1>3, <3>1 DEF SpeedLast
    <3>3. L # 1
      BY <1>1, <2>2, <3>2, CondIs DEF Last
    <3>4. L = 2 /\ Last(pending').value = SpeedOf[r.value] /\ SpeedNext(pending')
      BY <1>2, <1>4, <3>2, <3>3 DEF SpeedNext, SpeedPending
    <3>5. W1 # None /\ W1.value = r.value
      BY <1>1, <1>8, <1>9, <2>2, <3>2, NotNone
    <3> QED
      BY <3>4, <3>5
  <2>3. CASE r.cond = "speed"
    <3>1. 1 \in DOMAIN pending /\ pending[1].cond # "temp" /\ pending[1].cond # "wind"
      BY <1>1, <1>2, <2>3, CondIs
    <3>2. r.name = Primary /\ Last(pending).cond = "speed" /\ L = 1
      BY <1>1, <1>3, <3>1 DEF SpeedLast
    <3>3. W # None /\ r.value = SpeedOf[W.value]
      BY <1>1, <1>11, <3>2 DEF SpeedNext, SpeedPending, Last
    <3>4. W1 = W
      BY <1>1, <1>8, <2>3, CondIs
    <3>5. S1 # None /\ S1.value = r.value
      BY <1>1, <1>8, <1>9, <2>3, <3>2, NotNone
    <3>6. Len(pending') = 0
      BY <1>2, <3>2
    <3> QED
      BY <3>3, <3>4, <3>5, <3>6 DEF SpeedNext
  <2> QED
    BY <1>1, <2>1, <2>2, <2>3, CondIs
<1> HIDE DEF r, L, W, S
<1> QED
  BY <1>5, <1>6, <1>7, <1>12 DEF WindInv

LEMMA WindStep == ASSUME TypeInv, AiredInv, WindInv, [Next]_vars PROVE WindInv'
<1>1. ASSUME UNCHANGED vars PROVE WindInv'
  BY <1>1, WindStays DEF vars, service
<1>2. CASE Tick
  BY <1>2, WindStays DEF Tick
<1>3. ASSUME NEW seg \in Segments, Hear(seg) PROVE WindInv'
  <2>1. pending = <<>> /\ UNCHANGED <<rows, split>>
    BY <1>3 DEF Hear
  <2>2. /\ SpeedLast(pending') /\ WindFirst(pending')
        /\ SpeedPending(pending') => Len(pending') >= 2
    BY <1>3, HearIs DEF TypeInv, AiredInv
  <2>3. ~SpeedNext(pending)
    BY <2>1 DEF SpeedNext, SpeedPending
  <2>4. HomeOnly'
    BY <2>1 DEF WindInv, HomeOnly
  <2>5. ~SpeedNext(pending')
    <3> SUFFICES ASSUME Len(pending') = 1, SpeedPending(pending') PROVE FALSE
      BY DEF SpeedNext
    <3>1. Len(pending') >= 2
      BY <2>2
    <3> QED
      BY <3>1
  <2>6. rows[Primary]["wind"] # None /\ ~split =>
          rows[Primary]["speed"] # None /\ rows[Primary]["speed"].value = SpeedOf[rows[Primary]["wind"].value]
    BY <2>3 DEF WindInv
  <2> QED
    BY <2>1, <2>2, <2>4, <2>5, <2>6 DEF WindInv
<1>4. CASE Restart
  <2>1. /\ pending' = <<>> /\ UNCHANGED rows
        /\ ~split' => ~split /\ ~ (pending # <<>> /\ Head(pending).cond = "speed")
    BY <1>4, Zenon DEF Restart
  <2>2. ~SpeedNext(pending')
    BY <2>1 DEF SpeedNext
  <2>3. DOMAIN pending' = {} /\ Len(pending') = 0
    BY <2>1
  <2>4. SpeedLast(pending') /\ WindFirst(pending')
    BY <2>3 DEF SpeedLast, WindFirst
  <2>5. SpeedNext(pending) => pending # <<>> /\ Head(pending).cond = "speed"
    <3> SUFFICES ASSUME Len(pending) = 1, SpeedPending(pending)
                 PROVE  pending # <<>> /\ Head(pending).cond = "speed"
      BY DEF SpeedNext
    <3>1. Head(pending) = pending[1]
      BY HeadTailProperties DEF SpeedPending, TypeInv, PendingInv, GoodReadings
    <3> QED
      BY <3>1 DEF SpeedPending, Last
  <2>6. HomeOnly'
    BY <2>1 DEF WindInv, HomeOnly
  <2>7. ~split' => ~split /\ ~SpeedNext(pending)
    BY <2>1, <2>5, Zenon
  <2>8. rows[Primary]["wind"] # None /\ ~split' =>
          rows[Primary]["speed"] # None /\ rows[Primary]["speed"].value = SpeedOf[rows[Primary]["wind"].value]
    BY <2>7 DEF WindInv
  <2> QED
    BY <2>1, <2>2, <2>4, <2>6, <2>8 DEF WindInv
<1>5. CASE Merge
  <2>1. pending' = pending /\ split' = split
    BY <1>5 DEF Merge, BeginMerge, DropJunk, MergeUpdate, MergeDelete, MergeRename, MergeDies, service
  <2> QED
    BY <1>5, <2>1, TidyKeepsWind, WindStays DEF WindInv
<1>6. CASE Prune
  <2>1. pending' = pending /\ split' = split
    BY <1>6 DEF Prune, service
  <2> QED
    BY <1>6, <2>1, TidyKeepsWind, WindStays DEF WindInv
<1>7. ASSUME NEW times \in 1..2, Record(times) PROVE WindInv'
  BY <1>7, WindRecord
<1> QED
  BY <1>1, <1>2, <1>3, <1>4, <1>5, <1>6, <1>7 DEF Next

\* The mark of a wind without its speed is a Boolean.
LEMMA SplitStep == ASSUME split \in BOOLEAN, [Next]_vars PROVE split' \in BOOLEAN
<1>1. CASE UNCHANGED vars \/ Tick \/ Prune
  BY <1>1 DEF vars, Tick, Prune
<1>2. ASSUME NEW seg \in Segments, Hear(seg) PROVE split' \in BOOLEAN
  BY <1>2 DEF Hear
<1>3. CASE Merge
  BY <1>3 DEF Merge, BeginMerge, DropJunk, MergeUpdate, MergeDelete, MergeRename, MergeDies
<1>4. ASSUME NEW times \in 1..2, Record(times) PROVE split' \in BOOLEAN
  BY <1>4, Zenon DEF Record
<1>5. CASE Restart
  BY <1>5, Zenon DEF Restart
<1> QED
  BY <1>1, <1>2, <1>3, <1>4, <1>5 DEF Next

-----------------------------------------------------------------------------
(* Sightings are counted once. *)

\* The tally after a step.
LEMMA TallyNext ==
  ASSUME TypeInv', NEW k \in Cond, NEW names \in SUBSET Name
  PROVE  /\ \A n \in Name : SightingsOf(k)'[n] \in Nat /\ SightingsOf(k)'[n] = Sightings(n, k)'
         /\ Tally(names, k)' = Total(SightingsOf(k)', names)
<1>1. \A n \in Name : rows'[n][k] # None => rows'[n][k].sightings \in Nat
  BY DEF TypeInv, RowsInv, Row
<1>2. \A n \in Name : Sightings(n, k)' \in Nat
  BY <1>1 DEF Sightings
<1>3. \A n \in Name : SightingsOf(k)'[n] = Sightings(n, k)'
  BY DEF SightingsOf
<1>4. UNION {{n} \X (1..Sightings(n, k)') : n \in names} = Units(SightingsOf(k)', names)
  BY <1>3 DEF Units
<1>5. Tally(names, k)' = Total(SightingsOf(k)', names)
  BY <1>4 DEF Tally, Total
<1> QED
  BY <1>2, <1>3, <1>5

LEMMA SightingsAre ==
  ASSUME TypeInv, TypeInv', NEW k \in Cond, NEW n \in Name
  PROVE  Sightings(n, k) \in Nat /\ Sightings(n, k)' \in Nat
<1>1. {n} \in SUBSET Name
  OBVIOUS
<1>2. \A m \in Name : SightingsOf(k)[m] \in Nat /\ SightingsOf(k)[m] = Sightings(m, k)
  BY <1>1, TallyIs
<1>3. \A m \in Name : SightingsOf(k)'[m] \in Nat /\ SightingsOf(k)'[m] = Sightings(m, k)'
  BY <1>1, TallyNext
<1> QED
  BY <1>2, <1>3

LEMMA TallySame ==
  ASSUME TypeInv, TypeInv', NEW k \in Cond, NEW names \in SUBSET Name,
         \A n \in names : Sightings(n, k)' = Sightings(n, k)
  PROVE  Tally(names, k)' = Tally(names, k)
<1> DEFINE f == SightingsOf(k)
           g == SightingsOf(k)'
<1>1. Tally(names, k) = Total(f, names) /\ \A n \in Name : f[n] = Sightings(n, k)
  BY TallyIs
<1>2. Tally(names, k)' = Total(g, names) /\ \A n \in Name : g[n] = Sightings(n, k)'
  BY TallyNext
<1>3. \A n \in names : f[n] = g[n]
  BY <1>1, <1>2
<1> HIDE DEF f, g
<1>4. Total(f, names) = Total(g, names)
  BY <1>3, TotalSame
<1> QED
  BY <1>1, <1>2, <1>4

\* One row's sightings change.
LEMMA TallyChange ==
  ASSUME TypeInv, TypeInv', NEW k \in Cond, NEW names \in SUBSET Name, NEW m \in names,
         \A n \in names : n # m => Sightings(n, k)' = Sightings(n, k)
  PROVE  Tally(names, k)' = Tally(names, k) - Sightings(m, k) + Sightings(m, k)'
<1> DEFINE f == SightingsOf(k)
           g == SightingsOf(k)'
<1>1. /\ Tally(names, k) = Total(f, names) /\ \A n \in Name : f[n] \in Nat /\ f[n] = Sightings(n, k)
      /\ IsFiniteSet(names)
  BY TallyIs
<1>2. Tally(names, k)' = Total(g, names) /\ \A n \in Name : g[n] \in Nat /\ g[n] = Sightings(n, k)'
  BY TallyNext
<1>3. (\A n \in names : n # m => g[n] = f[n]) /\ f[m] = Sightings(m, k) /\ g[m] = Sightings(m, k)'
  BY <1>1, <1>2
<1>4. \A n \in names : f[n] \in Nat /\ g[n] \in Nat
  BY <1>1, <1>2
<1> HIDE DEF f, g
<1>5. Total(g, names) = Total(f, names) - f[m] + g[m]
  BY <1>1, <1>3, <1>4, TotalChange
<1> QED
  BY <1>1, <1>2, <1>3, <1>5

\* Two rows' sightings change.
LEMMA TallyChanges ==
  ASSUME TypeInv, TypeInv', NEW k \in Cond, NEW names \in SUBSET Name,
         NEW m \in names, NEW o \in names, m # o,
         \A n \in names : n # m /\ n # o => Sightings(n, k)' = Sightings(n, k)
  PROVE  Tally(names, k)' = Tally(names, k) - Sightings(m, k) - Sightings(o, k)
                            + Sightings(m, k)' + Sightings(o, k)'
<1> DEFINE f == SightingsOf(k)
           g == SightingsOf(k)'
<1>1. /\ Tally(names, k) = Total(f, names) /\ \A n \in Name : f[n] \in Nat /\ f[n] = Sightings(n, k)
      /\ IsFiniteSet(names)
  BY TallyIs
<1>2. Tally(names, k)' = Total(g, names) /\ \A n \in Name : g[n] \in Nat /\ g[n] = Sightings(n, k)'
  BY TallyNext
<1>3. /\ \A n \in names : n # m /\ n # o => g[n] = f[n]
      /\ f[m] = Sightings(m, k) /\ g[m] = Sightings(m, k)' /\ f[o] = Sightings(o, k) /\ g[o] = Sightings(o, k)'
  BY <1>1, <1>2
<1>4. \A n \in names : f[n] \in Nat /\ g[n] \in Nat
  BY <1>1, <1>2
<1> HIDE DEF f, g
<1>5. Total(g, names) = Total(f, names) - f[m] - f[o] + g[m] + g[o]
  BY <1>1, <1>3, <1>4, TotalChanges
<1> QED
  BY <1>1, <1>2, <1>3, <1>5

\* A step between a misspelling and its city leaves every tally alone.
LEMMA TallyMerged ==
  ASSUME TypeInv, TypeInv', NEW k \in Cond, NEW bad \in Garble, NEW good \in City, Canon(bad) = good,
         \A n \in Name : n # bad /\ n # good => Sightings(n, k)' = Sightings(n, k),
         Sightings(good, k)' + Sightings(bad, k)' = Sightings(good, k) + Sightings(bad, k),
         NEW c \in City
  PROVE  Tally(Spellings(c), k)' = Tally(Spellings(c), k)
<1>1. Spellings(c) \in SUBSET Name
  BY CanonIs
<1>2. CASE c = good
  <2>1. bad \in Spellings(c) /\ good \in Spellings(c) /\ bad # good
    BY <1>2, CanonIs
  <2>2. Tally(Spellings(c), k)' = Tally(Spellings(c), k) - Sightings(bad, k) - Sightings(good, k)
                                  + Sightings(bad, k)' + Sightings(good, k)'
    BY <1>1, <2>1, TallyChanges
  <2>3. Tally(Spellings(c), k) \in Nat
    BY <1>1, TallyIs
  <2>4. /\ Sightings(bad, k) \in Nat /\ Sightings(good, k) \in Nat
        /\ Sightings(bad, k)' \in Nat /\ Sightings(good, k)' \in Nat
    BY <1>1, <2>1, SightingsAre
  <2> QED
    BY <2>2, <2>3, <2>4
<1>3. CASE c # good
  <2>1. bad \notin Spellings(c) /\ good \notin Spellings(c)
    BY <1>3, CanonIs
  <2> QED
    BY <1>1, <2>1, TallySame
<1> QED
  BY <1>2, <1>3

LEMMA CountKept ==
  ASSUME CountInv, truth' = truth,
         \A c \in City, k \in Cond : Tally(Spellings(c), k)' = Tally(Spellings(c), k)
  PROVE  CountInv'
BY DEF CountInv

\* Nothing changes for the rows, and no merge is at its DELETE before or after.
LEMMA CountUntouched ==
  ASSUME TypeInv, TypeInv', CountInv, truth' = truth, rows' = rows,
         \/ job' = job
         \/ ~ (job # None /\ job.step = "delete") /\ ~ (job' # None /\ job'.step = "delete")
  PROVE  CountInv'
<1>1. \A n \in Name, k \in Cond : Sightings(n, k)' = Sightings(n, k)
  BY InMergeIs, InMergeNext DEF Sightings
<1>2. \A c \in City, k \in Cond : Tally(Spellings(c), k)' = Tally(Spellings(c), k)
  BY <1>1, CanonIs, TallySame
<1> QED
  BY <1>2, CountKept

\* A reading adds what it is applied, less what it loses.
LEMMA TallyRecord ==
  ASSUME TypeInv, TypeInv', NEW times \in 1..2, Record(times), NEW r, r = Head(pending),
         NEW c \in City, c = Canon(r.name), NEW k \in Cond, k = r.cond
  PROVE  Tally(Spellings(c), k)' = Tally(Spellings(c), k) + times - Lost(r, times)
<1> DEFINE S == Spellings(c)
           old == rows[r.name][k]
<1>1. /\ r.name \in Name /\ r \in Reading
      /\ \A n \in Name, m \in Cond :
           rows'[n][m] = IF n = r.name /\ m = r.cond THEN Upsert(rows[n][m], r, times) ELSE rows[n][m]
      /\ Upsert(old, r, times) \in Row
  BY RecordIs
<1>2. job' = job
  BY DEF Record
<1>3. Upsert(old, r, times).sightings = (IF old = None THEN 0 ELSE old.sightings) + times
  BY DEF Upsert
<1>4. rows'[r.name][k] # None /\ rows'[r.name][k].sightings = (IF old = None THEN 0 ELSE old.sightings) + times
  BY <1>1, <1>3, NotNone
<1>5. S \in SUBSET Name /\ r.name \in S
  BY <1>1, CanonIs
<1>6. job # None => /\ job.bad \in Name /\ Good \in Name /\ Good # job.bad
                    /\ Canon(job.bad) = Good /\ Canon(Good) = Good
  BY JobIs DEF TypeInv
<1>7. \A n \in Name : n # r.name => rows'[n][k] = rows[n][k]
  BY <1>1
<1>8. Tally(S, k) \in Nat /\ Sightings(r.name, k) \in Nat /\ Sightings(r.name, k)' \in Nat
  BY <1>1, <1>5, TallyIs, SightingsAre
<1>9. old # None => old.sightings \in Nat
  BY <1>1 DEF TypeInv, RowsInv, Row
<1> HIDE DEF S, old
<1>10. CASE InMerge(r.name, k)
  <2>1. /\ job # None /\ job.step = "delete" /\ r.name = job.bad /\ rows[Good][k] # None
    BY <1>10, InMergeIs DEF Good
  <2>2. rows'[Good][k] = rows[Good][k]
    BY <1>6, <1>7, <2>1
  <2>3. \A n \in Name : InMerge(n, k)' <=> InMerge(n, k)
    BY <1>2, <2>1, <2>2, InMergeIs, InMergeNext DEF Good
  <2>4. \A n \in S : Sightings(n, k)' = Sightings(n, k)
    BY <1>5, <1>7, <1>10, <2>3 DEF Sightings
  <2>5. Tally(S, k)' = Tally(S, k)
    BY <1>5, <2>4, TallySame
  <2>6. Lost(r, times) = times
    BY <1>1, <1>10, LostIs
  <2> QED
    BY <1>8, <2>5, <2>6 DEF S
<1>11. CASE FillsGap(r)
  <2>0. PICK bad : bad = job.bad
    OBVIOUS
  <2>1. /\ job # None /\ job.step = "delete" /\ r.name = Good /\ rows[Good][k] = None
    BY <1>11 DEF FillsGap
  <2>2. bad \in S /\ bad # r.name
    BY <1>5, <1>6, <2>0, <2>1, CanonIs DEF S
  <2>3. \A n \in Name : ~InMerge(n, k)
    BY <2>0, <2>1, InMergeIs DEF Good
  <2>4. \A n \in Name : InMerge(n, k)' <=> n = bad
    BY <1>2, <1>4, <2>0, <2>1, InMergeNext DEF Good
  <2>5. \A n \in S : n # r.name /\ n # bad => Sightings(n, k)' = Sightings(n, k)
    BY <1>5, <1>7, <2>3, <2>4 DEF Sightings
  <2>6. Sightings(bad, k)' = 0
    BY <1>6, <2>0, <2>1, <2>4 DEF Sightings
  <2>7. Sightings(r.name, k) = 0
    BY <2>1 DEF Sightings
  <2>8. Sightings(r.name, k)' = times
    BY <1>1, <1>4, <2>1, <2>2, <2>4 DEF Sightings, old
  <2>9. Tally(S, k)' = Tally(S, k) - Sightings(r.name, k) - Sightings(bad, k)
                       + Sightings(r.name, k)' + Sightings(bad, k)'
    BY <1>5, <2>2, <2>5, TallyChanges
  <2>10. Sightings(bad, k) \in Nat
    BY <1>5, <2>2, SightingsAre
  <2>11. Lost(r, times) = Sightings(bad, k)
    BY <1>1, <1>11, <2>0, LostIs
  <2> QED
    BY <1>8, <2>6, <2>7, <2>8, <2>9, <2>10, <2>11 DEF S
<1>12. CASE ~InMerge(r.name, k) /\ ~FillsGap(r)
  <2>1. \A n \in Name : rows[n][k] # None => (InMerge(n, k)' <=> InMerge(n, k))
    <3> SUFFICES ASSUME NEW n \in Name, rows[n][k] # None, job # None, job.step = "delete", n = job.bad
                 PROVE  rows'[Good][k] # None <=> rows[Good][k] # None
      BY <1>2, InMergeIs, InMergeNext DEF Good
    <3>1. r.name = Good => rows[Good][k] # None
      BY <1>12 DEF FillsGap
    <3> QED
      BY <1>4, <1>6, <1>7, <3>1
  <2>2. ~InMerge(r.name, k)'
    <3>1. job # None /\ r.name = job.bad => rows'[Good][k] = rows[Good][k]
      BY <1>6, <1>7
    <3> QED
      BY <1>2, <1>12, <3>1, InMergeIs, InMergeNext DEF Good
  <2>3. ASSUME NEW n \in S, n # r.name PROVE Sightings(n, k)' = Sightings(n, k)
    BY <1>5, <1>7, <2>1, <2>3 DEF Sightings
  <2>4. Sightings(r.name, k) = (IF old = None THEN 0 ELSE old.sightings)
    BY <1>12 DEF Sightings, old
  <2>5. Sightings(r.name, k)' = rows'[r.name][k].sightings
    BY <1>4, <2>2 DEF Sightings
  <2>6. Tally(S, k)' = Tally(S, k) - Sightings(r.name, k) + Sightings(r.name, k)'
    BY <1>5, <2>3, TallyChange
  <2>7. Lost(r, times) = 0
    BY <1>1, <1>12, LostIs
  <2> QED
    BY <1>4, <1>8, <2>4, <2>5, <2>6, <2>7 DEF S
<1>13. FillsGap(r) => ~InMerge(r.name, k)
  BY <1>1, LostIs
<1> QED
  BY <1>10, <1>11, <1>12, <1>13

LEMMA CountRecord ==
  ASSUME TypeInv, TypeInv', CountInv, NEW times \in 1..2, Record(times), NEW r, r = Head(pending)
  PROVE  CountInv'
<1> DEFINE d == Canon(r.name)
<1>1. /\ r \in Reading /\ r.name \in Name /\ r.cond \in Cond
      /\ \A n \in Name, k \in Cond :
           rows'[n][k] = IF n = r.name /\ k = r.cond THEN Upsert(rows[n][k], r, times) ELSE rows[n][k]
  BY RecordIs
<1>2. /\ job' = job
      /\ truth' = IF IsReal(r.name) THEN [truth EXCEPT ![d][r.cond] = Learn(r, times)] ELSE truth
  BY DEF Record
<1>4. IsReal(r.name) <=> d \in City
  BY <1>1, CanonIs
<1>5. truth \in [City -> [Cond -> Truth]]
  BY DEF TypeInv, TruthInv
<1>7. job # None => Canon(job.bad) = Good /\ Canon(Good) = Good /\ Good \in Name /\ job.bad \in Name
  BY JobIs DEF TypeInv
<1> HIDE DEF d
<1> SUFFICES ASSUME NEW c \in City, NEW k \in Cond
             PROVE  Tally(Spellings(c), k)' = truth'[c][k].count + truth'[c][k].drift
  BY DEF CountInv
<1>8. Tally(Spellings(c), k) = truth[c][k].count + truth[c][k].drift /\ Spellings(c) \in SUBSET Name
  BY CanonIs DEF CountInv
<1>9. CASE c = d /\ k = r.cond
  <2>1. IsReal(r.name)
    BY <1>4, <1>9
  <2>2. truth'[c][k] = Learn(r, times)
    BY <1>2, <1>5, <1>9, <2>1
  <2>3. /\ Learn(r, times).count = truth[c][k].count + 1
        /\ Learn(r, times).drift = truth[c][k].drift + times - 1 - Lost(r, times)
    BY <1>1, <1>9, <2>1, LearnIs DEF d
  <2>4. Tally(Spellings(c), k)' = Tally(Spellings(c), k) + times - Lost(r, times)
    BY <1>9, TallyRecord DEF d
  <2>5. Lost(r, times) \in Nat /\ truth[c][k].count \in Int /\ truth[c][k].drift \in Int
    BY <1>1, <1>5, LostIs DEF Truth
  <2> QED
    BY <1>8, <2>2, <2>3, <2>4, <2>5
<1>10. CASE ~ (c = d /\ k = r.cond)
  <2>1. truth'[c][k] = truth[c][k]
    BY <1>1, <1>2, <1>4, <1>5, <1>10
  <2>2. ASSUME NEW n \in Spellings(c) PROVE Sightings(n, k)' = Sightings(n, k)
    <3>1. n \in Name /\ Canon(n) = c
      BY <1>8, CanonIs
    <3>2. rows'[n][k] = rows[n][k]
      BY <1>1, <1>10, <3>1 DEF d
    <3>3. n = job.bad /\ job # None => rows'[Good][k] = rows[Good][k]
      BY <1>1, <1>7, <1>10, <3>1 DEF d
    <3>4. InMerge(n, k)' <=> InMerge(n, k)
      BY <1>2, <3>3, InMergeIs, InMergeNext DEF Good
    <3> QED
      BY <3>2, <3>4 DEF Sightings
  <2>3. Tally(Spellings(c), k)' = Tally(Spellings(c), k)
    BY <1>8, <2>2, TallySame
  <2> QED
    BY <1>8, <2>1, <2>3
<1> QED
  BY <1>9, <1>10

\* The three statements of the merge move sightings from one row to the other.
LEMMA CountUpdate ==
  ASSUME TypeInv, TypeInv', CountInv, MergeUpdate
  PROVE  CountInv'
<1>1. /\ job # None /\ job.step = "update" /\ job' = [job EXCEPT !.step = "delete"]
      /\ \A n \in Name, k \in Cond :
           rows'[n][k] = IF n = Good /\ rows[n][k] # None /\ rows[job.bad][k] # None
                         THEN Merged(rows[n][k], rows[job.bad][k]) ELSE rows[n][k]
  BY MergeUpdateIs
<1>2. /\ job \in Job /\ job.bad \in Garble /\ job.bad \in Name /\ Good \in City /\ Good \in Name
      /\ Good # job.bad /\ Canon(job.bad) = Good
  BY <1>1, JobIs DEF TypeInv
<1>3. truth' = truth
  BY DEF MergeUpdate
<1>4. job' # None /\ job'.step = "delete" /\ job'.bad = job.bad
  BY <1>1, <1>2, NotNone DEF Job
<1>5. ASSUME NEW bad, bad = job.bad, NEW good, good = Good, NEW k \in Cond, NEW c \in City
      PROVE  Tally(Spellings(c), k)' = Tally(Spellings(c), k)
  <2> DEFINE b == rows[bad][k]
             g == rows[good][k]
  <2>1. bad \in Garble /\ bad \in Name /\ good \in City /\ good \in Name /\ good # bad /\ Canon(bad) = good
    BY <1>2, <1>5
  <2>2. b \in Row \cup {None} /\ g \in Row \cup {None} /\ rows'[good][k] \in Row \cup {None}
    BY <2>1 DEF TypeInv, RowsInv
  <2>3. \A n \in Name : ~InMerge(n, k)
    BY <1>1, InMergeIs
  <2>4. \A n \in Name : InMerge(n, k)' <=> n = bad /\ rows'[good][k] # None
    BY <1>4, <1>5, InMergeNext DEF Good
  <2>5. \A n \in Name : n # good => rows'[n][k] = rows[n][k]
    BY <1>1, <1>5
  <2>6. rows'[good][k] = IF g # None /\ b # None THEN Merged(g, b) ELSE g
    BY <1>1, <1>5, <2>1
  <2>7. \/ g = None \/ b = None
        \/ Merged(g, b) # None /\ Merged(g, b).sightings = g.sightings + b.sightings
    <3>1. CASE g # None /\ b # None
      <4>1. g \in Row /\ b \in Row
        BY <2>2, <3>1
      <4>2. Merged(g, b).sightings = g.sightings + b.sightings
        BY DEF Merged
      <4>3. Merged(g, b) \in Row
        BY <4>1 DEF Merged, Row
      <4> QED
        BY <4>2, <4>3, NotNone
    <3> QED
      BY <3>1
  <2>8. \A n \in Name : n # bad /\ n # good => Sightings(n, k)' = Sightings(n, k)
    BY <2>3, <2>4, <2>5 DEF Sightings
  <2>9. /\ Sightings(good, k) = IF g = None THEN 0 ELSE g.sightings
        /\ Sightings(bad, k) = IF b = None THEN 0 ELSE b.sightings
    BY <2>1, <2>3 DEF Sightings
  <2>10. Sightings(good, k)' = IF rows'[good][k] = None THEN 0 ELSE rows'[good][k].sightings
    BY <2>1, <2>4 DEF Sightings
  <2>11. Sightings(bad, k)' = IF b = None \/ rows'[good][k] # None THEN 0 ELSE b.sightings
    BY <2>1, <2>4, <2>5 DEF Sightings
  <2>12. (g # None => g.sightings \in Nat) /\ (b # None => b.sightings \in Nat)
    BY <2>2 DEF Row
  <2> HIDE DEF b, g
  <2>13. Sightings(good, k)' + Sightings(bad, k)' = Sightings(good, k) + Sightings(bad, k)
    <3>1. CASE g = None
      BY <2>6, <2>9, <2>10, <2>11, <2>12, <3>1
    <3>2. CASE g # None /\ b = None
      BY <2>6, <2>9, <2>10, <2>11, <2>12, <3>2
    <3>3. CASE g # None /\ b # None
      BY <2>6, <2>7, <2>9, <2>10, <2>11, <2>12, <3>3
    <3> QED
      BY <3>1, <3>2, <3>3
  <2> QED
    BY <2>1, <2>8, <2>13, TallyMerged
<1>6. \A c \in City, k \in Cond : Tally(Spellings(c), k)' = Tally(Spellings(c), k)
  BY <1>5
<1> QED
  BY <1>3, <1>6, CountKept

LEMMA CountDelete ==
  ASSUME TypeInv, TypeInv', CountInv, MergeDelete
  PROVE  CountInv'
<1>1. /\ job # None /\ job.step = "delete" /\ job' = [job EXCEPT !.step = "rename"]
      /\ \A n \in Name, k \in Cond :
           rows'[n][k] = IF n = job.bad /\ rows[Good][k] # None THEN None ELSE rows[n][k]
  BY MergeDeleteIs
<1>2. job \in Job /\ job.bad \in Name /\ Good \in Name /\ Good # job.bad
  BY <1>1, JobIs DEF TypeInv
<1>3. truth' = truth
  BY DEF MergeDelete
<1>4. job'.step = "rename"
  BY <1>1, <1>2 DEF Job
<1>5. ASSUME NEW n \in Name, NEW k \in Cond PROVE Sightings(n, k)' = Sightings(n, k)
  <2>1. ~InMerge(n, k)'
    BY <1>4, InMergeNext
  <2>2. InMerge(n, k) <=> n = job.bad /\ rows[Good][k] # None
    BY <1>1, InMergeIs DEF Good
  <2>3. CASE InMerge(n, k)
    BY <1>1, <2>2, <2>3 DEF Sightings
  <2>4. CASE ~InMerge(n, k)
    BY <1>1, <2>1, <2>2, <2>4 DEF Sightings
  <2> QED
    BY <2>3, <2>4
<1>6. \A c \in City, k \in Cond : Tally(Spellings(c), k)' = Tally(Spellings(c), k)
  BY <1>5, CanonIs, TallySame
<1> QED
  BY <1>3, <1>6, CountKept

LEMMA CountRename ==
  ASSUME TypeInv, TypeInv', CountInv, MergeRename
  PROVE  CountInv'
<1>1. /\ job # None /\ job.step = "rename" /\ job' = None
      /\ \/ rows' = rows
         \/ /\ \A k \in Cond : rows[job.bad][k] = None \/ rows[Good][k] = None
            /\ \A n \in Name, k \in Cond :
                 rows'[n][k] = IF n = job.bad THEN None
                               ELSE IF n = Good /\ rows[job.bad][k] # None THEN rows[job.bad][k]
                               ELSE rows[n][k]
  BY MergeRenameIs
<1>2. /\ job \in Job /\ job.bad \in Garble /\ job.bad \in Name /\ Good \in City /\ Good \in Name
      /\ Good # job.bad /\ Canon(job.bad) = Good
  BY <1>1, JobIs DEF TypeInv
<1>3. truth' = truth
  BY DEF MergeRename
<1>4. CASE rows' = rows
  BY <1>1, <1>3, <1>4, CountUntouched
<1>5. CASE /\ \A k \in Cond : rows[job.bad][k] = None \/ rows[Good][k] = None
           /\ \A n \in Name, k \in Cond :
                rows'[n][k] = IF n = job.bad THEN None
                              ELSE IF n = Good /\ rows[job.bad][k] # None THEN rows[job.bad][k]
                              ELSE rows[n][k]
  <2>1. ASSUME NEW bad, bad = job.bad, NEW good, good = Good, NEW k \in Cond, NEW c \in City
        PROVE  Tally(Spellings(c), k)' = Tally(Spellings(c), k)
    <3>1. bad \in Garble /\ bad \in Name /\ good \in City /\ good \in Name /\ good # bad /\ Canon(bad) = good
      BY <1>2, <2>1
    <3>2. \A n \in Name : ~InMerge(n, k) /\ ~InMerge(n, k)'
      BY <1>1, InMergeIs, InMergeNext
    <3>3. rows'[bad][k] = None /\ rows'[good][k] = IF rows[bad][k] # None THEN rows[bad][k] ELSE rows[good][k]
      BY <1>5, <2>1, <3>1
    <3>4. \A n \in Name : n # bad /\ n # good => Sightings(n, k)' = Sightings(n, k)
      BY <1>5, <2>1, <3>2 DEF Sightings
    <3>5. rows[bad][k] = None \/ rows[good][k] = None
      BY <1>5, <2>1
    <3>6. /\ Sightings(good, k) = IF rows[good][k] = None THEN 0 ELSE rows[good][k].sightings
          /\ Sightings(bad, k) = IF rows[bad][k] = None THEN 0 ELSE rows[bad][k].sightings
          /\ Sightings(good, k)' = IF rows'[good][k] = None THEN 0 ELSE rows'[good][k].sightings
          /\ Sightings(bad, k)' = 0
      BY <3>1, <3>2, <3>3 DEF Sightings
    <3>7. (rows[good][k] # None => rows[good][k].sightings \in Nat) /\ (rows[bad][k] # None => rows[bad][k].sightings \in Nat)
      BY <3>1 DEF TypeInv, RowsInv, Row
    <3>8. Sightings(good, k)' + Sightings(bad, k)' = Sightings(good, k) + Sightings(bad, k)
      BY <3>3, <3>5, <3>6, <3>7
    <3> QED
      BY <3>1, <3>4, <3>8, TallyMerged
  <2>2. \A c \in City, k \in Cond : Tally(Spellings(c), k)' = Tally(Spellings(c), k)
    BY <2>1
  <2> QED
    BY <1>3, <2>2, CountKept
<1> QED
  BY <1>1, <1>4, <1>5

\* A job that dies before its DELETE leaves both rows to count.
LEMMA CountDies ==
  ASSUME TypeInv, TypeInv', CountInv, MergeDies
  PROVE  CountInv'
<1>1. /\ job # None /\ job' = None /\ rows' = rows
      /\ truth' = [c \in City |-> [k \in Cond |->
                     IF Shadows(c, k) THEN Rejoined(truth[c][k], rows[job.bad][k]) ELSE truth[c][k]]]
  BY DEF MergeDies
<1>2. job.bad \in Name /\ Canon(job.bad) = Good
  BY <1>1, JobIs DEF TypeInv
<1> SUFFICES ASSUME NEW c \in City, NEW k \in Cond
             PROVE  Tally(Spellings(c), k)' = truth'[c][k].count + truth'[c][k].drift
  BY DEF CountInv
<1>3. /\ Tally(Spellings(c), k) = truth[c][k].count + truth[c][k].drift
      /\ Spellings(c) \in SUBSET Name /\ truth[c][k] \in Truth
  BY CanonIs DEF CountInv, TypeInv, TruthInv
<1>4. \A n \in Name : ~InMerge(n, k)'
  BY <1>1, InMergeNext
<1>5. \A n \in Name : n # job.bad => ~InMerge(n, k)
  BY InMergeIs
<1>6. \A n \in Name : n # job.bad => Sightings(n, k)' = Sightings(n, k)
  BY <1>1, <1>4, <1>5 DEF Sightings
<1>7. CASE Shadows(c, k)
  <2>1. PICK bad : bad = job.bad
    OBVIOUS
  <2>2. InMerge(bad, k) /\ bad \in Name /\ bad \in Spellings(c) /\ rows[bad][k] # None /\ rows[bad][k] \in Row
    BY <1>7, <2>1, ShadowsAre
  <2>3. Sightings(bad, k) = 0 /\ Sightings(bad, k)' = rows[bad][k].sightings
    BY <1>1, <1>4, <2>2 DEF Sightings
  <2>4. \A n \in Spellings(c) : n # bad => Sightings(n, k)' = Sightings(n, k)
    BY <1>3, <1>6, <2>1
  <2>5. Tally(Spellings(c), k)' = Tally(Spellings(c), k) - Sightings(bad, k) + Sightings(bad, k)'
    BY <1>3, <2>2, <2>4, TallyChange
  <2>6. truth'[c][k] = Rejoined(truth[c][k], rows[bad][k])
    BY <1>1, <1>7, <2>1
  <2>7. truth'[c][k].count = truth[c][k].count /\ truth'[c][k].drift = truth[c][k].drift + rows[bad][k].sightings
    <3> DEFINE t == truth[c][k]
               row == rows[bad][k]
    <3>1. t \in Truth /\ row \in Row /\ truth'[c][k] = Rejoined(t, row)
      BY <1>3, <2>2, <2>6
    <3> HIDE DEF t, row
    <3>2. truth'[c][k].count = t.count /\ truth'[c][k].drift = t.drift + row.sightings
      BY <3>1, RejoinedIs
    <3> QED
      BY <3>2 DEF t, row
  <2>8. truth[c][k].count \in Int /\ truth[c][k].drift \in Int /\ rows[bad][k].sightings \in Nat
    BY <1>3, <2>2 DEF Truth, Row
  <2>9. Tally(Spellings(c), k) \in Nat
    BY <1>3, TallyIs
  <2> QED
    BY <1>3, <2>3, <2>5, <2>7, <2>8, <2>9
<1>8. CASE ~Shadows(c, k)
  <2>1. truth'[c][k] = truth[c][k]
    BY <1>1, <1>8
  <2>2. ASSUME NEW n \in Spellings(c) PROVE Sightings(n, k)' = Sightings(n, k)
    <3>1. n \in Name /\ Canon(n) = c
      BY CanonIs
    <3>2. CASE n = job.bad
      <4>1. ~InMerge(n, k) \/ rows[n][k] = None
        BY <1>1, <1>2, <1>8, <3>1, <3>2 DEF Shadows, Good
      <4> QED
        BY <1>1, <1>4, <3>1, <4>1 DEF Sightings
    <3> QED
      BY <1>6, <3>1, <3>2
  <2>3. Tally(Spellings(c), k)' = Tally(Spellings(c), k)
    BY <1>3, <2>2, TallySame
  <2> QED
    BY <1>3, <2>1, <2>3
<1> QED
  BY <1>7, <1>8

\* Junk is no city's.
LEMMA CountDrop ==
  ASSUME TypeInv, TypeInv', CountInv, NEW j \in Garble, DropJunk(j)
  PROVE  CountInv'
<1>1. /\ job = None /\ job' = None /\ ~IsReal(j)
      /\ \A n \in Name, k \in Cond : rows'[n][k] = IF n = j THEN None ELSE rows[n][k]
  BY DropJunkIs
<1>2. truth' = truth
  BY DEF DropJunk
<1>3. ASSUME NEW c \in City, NEW k \in Cond, NEW n \in Spellings(c)
      PROVE  Sightings(n, k)' = Sightings(n, k)
  <2>1. n \in Name /\ n # j
    BY <1>1, CanonIs DEF IsReal
  <2>2. ~InMerge(n, k) /\ ~InMerge(n, k)'
    BY <1>1, InMergeIs, InMergeNext
  <2> QED
    BY <1>1, <2>1, <2>2 DEF Sightings
<1>4. \A c \in City, k \in Cond : Tally(Spellings(c), k)' = Tally(Spellings(c), k)
  BY <1>3, CanonIs, TallySame
<1> QED
  BY <1>2, <1>4, CountKept

\* Of the rows that stay, only a misspelt one whose good row goes counts otherwise.
LEMMA PruneKeeps ==
  ASSUME TypeInv, TypeInv', Prune, NEW c \in City, NEW k \in Cond, NEW n \in Spellings(c), ~IsOld(n, k)
  PROVE  /\ rows'[n][k] = rows[n][k]
         /\ Rejoins(c, k) /\ n = job.bad => ~InMerge(n, k)'
         /\ ~ (Rejoins(c, k) /\ n = job.bad) /\ rows[n][k] # None => (InMerge(n, k)' <=> InMerge(n, k))
<1>1. /\ \A m \in Name : rows'[m][k] = IF IsOld(m, k) THEN None ELSE rows[m][k]
      /\ job' = job
  BY PruneIs DEF Prune
<1>2. n \in Name /\ Canon(n) = c
  BY CanonIs
<1>3. InMerge(n, k)' <=> job # None /\ job.step = "delete" /\ n = job.bad /\ rows'[Good][k] # None
  BY <1>1, InMergeNext DEF Good
<1>4. InMerge(n, k) <=> job # None /\ job.step = "delete" /\ n = job.bad /\ rows[Good][k] # None
  BY InMergeIs DEF Good
<1>5. job # None => Good \in Name /\ Canon(job.bad) = Good
  BY JobIs DEF TypeInv
<1>6. ASSUME Rejoins(c, k), n = job.bad PROVE ~InMerge(n, k)'
  <2>1. job # None /\ c = Good /\ IsOld(c, k)
    BY <1>6 DEF Rejoins, Shadows, Good
  <2> QED
    BY <1>1, <1>3, <1>5, <2>1
<1>7. ASSUME ~ (Rejoins(c, k) /\ n = job.bad), rows[n][k] # None PROVE InMerge(n, k)' <=> InMerge(n, k)
  <2> SUFFICES ASSUME job # None, job.step = "delete", n = job.bad
               PROVE  rows'[Good][k] # None <=> rows[Good][k] # None
    BY <1>3, <1>4
  <2>1. c = Good /\ Good \in Name
    BY <1>2, <1>5
  <2>2. ASSUME rows[Good][k] # None PROVE ~IsOld(Good, k)
    <3>1. Shadows(c, k)
      BY <1>4, <1>7, <2>1, <2>2 DEF Shadows, Good
    <3> QED
      BY <1>7, <2>1, <3>1 DEF Rejoins
  <2> QED
    BY <1>1, <2>1, <2>2
<1> QED
  BY <1>1, <1>2, <1>6, <1>7

\* The prune takes from the truth what it takes from the rows.
LEMMA CountPrune ==
  ASSUME TypeInv, TypeInv', CountInv, Prune
  PROVE  CountInv'
<1> SUFFICES ASSUME NEW c \in City, NEW k \in Cond,
                    NEW gone, gone = {n \in Spellings(c) : IsOld(n, k)}
             PROVE  Tally(Spellings(c), k)' = truth'[c][k].count + truth'[c][k].drift
  BY DEF CountInv
<1> DEFINE S == Spellings(c)
           f == SightingsOf(k)
           g == SightingsOf(k)'
           t == truth[c][k]
           kept == Forget(t, c, k)
<1>1. /\ \A n \in Name : rows'[n][k] = IF IsOld(n, k) THEN None ELSE rows[n][k]
      /\ truth'[c][k] = IF Rejoins(c, k) THEN Rejoined(kept, rows[job.bad][k]) ELSE kept
  BY PruneIs
<1>3. S \in SUBSET Name /\ gone \in SUBSET S /\ gone \in SUBSET Name /\ IsFiniteSet(S) /\ S \ gone \in SUBSET S
      /\ IsFiniteSet(S \ gone)
  BY CanonIs, FS_Subset
<1>4. t \in Truth /\ Tally(S, k) = t.count + t.drift
  BY DEF TypeInv, TruthInv, CountInv
<1>5. kept \in Truth /\ kept.count = t.count - Tally(gone, k) /\ kept.drift = t.drift
  BY <1>4, ForgetIs
<1>6. /\ \A n \in Name : f[n] \in Nat /\ f[n] = Sightings(n, k)
      /\ Tally(S, k) = Total(f, S) /\ Tally(gone, k) = Total(f, gone)
      /\ Tally(S, k) \in Nat /\ Tally(gone, k) \in Nat
  BY <1>3, TallyIs
<1>7. /\ \A n \in Name : g[n] \in Nat /\ g[n] = Sightings(n, k)'
      /\ Tally(S, k)' = Total(g, S)
  BY <1>3, TallyNext
<1>8. ASSUME NEW n \in gone PROVE g[n] = 0
  <2>1. n \in Name /\ IsOld(n, k)
    BY <1>3
  <2>2. rows'[n][k] = None
    BY <1>1, <2>1
  <2> QED
    BY <1>7, <2>1, <2>2 DEF Sightings
<1>9. ASSUME NEW n \in S \ gone, ~ (Rejoins(c, k) /\ n = job.bad) PROVE g[n] = f[n]
  <2>1. n \in Name /\ n \in Spellings(c) /\ ~IsOld(n, k)
    BY <1>3
  <2>2. rows'[n][k] = rows[n][k] /\ (rows[n][k] # None => (InMerge(n, k)' <=> InMerge(n, k)))
    BY <1>9, <2>1, PruneKeeps
  <2>3. Sightings(n, k)' = Sightings(n, k)
    BY <2>2 DEF Sightings
  <2> QED
    BY <1>6, <1>7, <2>1, <2>3
<1> HIDE DEF f, g, S
<1>10. Total(f, S) = Total(f, gone) + Total(f, S \ gone)
  BY <1>3, <1>6, TotalSplit
<1>11. Total(g, S) = Total(g, gone) + Total(g, S \ gone)
  BY <1>3, <1>7, TotalSplit
<1>12. Total(g, gone) = 0
  BY <1>8, TotalZero
<1>13. \A n \in S \ gone : f[n] \in Nat /\ g[n] \in Nat
  BY <1>3, <1>6, <1>7
<1>14. Total(f, S \ gone) \in Nat /\ Total(g, S \ gone) \in Nat
  BY <1>3, <1>13, UnitsFinite
<1>15. CASE ~Rejoins(c, k)
  <2>1. Total(f, S \ gone) = Total(g, S \ gone)
    BY <1>9, <1>15, TotalSame
  <2>2. Total(g, S) = Tally(S, k) - Tally(gone, k)
    BY <1>6, <1>10, <1>11, <1>12, <1>14, <2>1
  <2>3. t.count \in Int /\ t.drift \in Int /\ truth'[c][k] = kept
    BY <1>1, <1>4, <1>15 DEF Truth
  <2> QED
    BY <1>4, <1>5, <1>6, <1>7, <2>2, <2>3 DEF S
<1>16. CASE Rejoins(c, k)
  <2>1. PICK b : b = job.bad
    OBVIOUS
  <2> DEFINE row == rows[b][k]
  <2>2. InMerge(b, k) /\ b \in Name /\ b \in S \ gone /\ row # None /\ row \in Row /\ ~IsOld(b, k)
    BY <1>16, <2>1, ShadowsAre DEF S, Rejoins
  <2>3. f[b] = 0
    BY <1>6, <2>2 DEF Sightings
  <2>4. rows'[b][k] = row /\ ~InMerge(b, k)'
    BY <1>16, <2>1, <2>2, PruneKeeps DEF S
  <2>5. g[b] = row.sightings
    BY <1>7, <2>2, <2>4 DEF Sightings
  <2> HIDE DEF row
  <2>6. \A n \in S \ gone : n # b => g[n] = f[n]
    BY <1>9, <2>1
  <2>7. Total(g, S \ gone) = Total(f, S \ gone) - f[b] + g[b]
    BY <1>3, <1>13, <2>2, <2>6, TotalChange
  <2>8. row.sightings \in Nat
    BY <2>2 DEF Row
  <2>9. Total(g, S) = Tally(S, k) - Tally(gone, k) + row.sightings
    BY <1>6, <1>10, <1>11, <1>12, <1>14, <2>3, <2>5, <2>7, <2>8
  <2>10. truth'[c][k].count = kept.count /\ truth'[c][k].drift = kept.drift + row.sightings
    <3>1. truth'[c][k] = Rejoined(kept, row)
      BY <1>1, <1>16, <2>1 DEF row
    <3> HIDE DEF kept
    <3> QED
      BY <1>5, <2>2, <3>1, RejoinedIs
  <2>11. t.count \in Int /\ t.drift \in Int
    BY <1>4 DEF Truth
  <2> HIDE DEF t, kept
  <2> QED
    BY <1>4, <1>5, <1>6, <1>7, <2>8, <2>9, <2>10, <2>11 DEF S
<1> QED
  BY <1>15, <1>16

LEMMA CountStep == ASSUME TypeInv, AiredInv, CountInv, [Next]_vars PROVE CountInv'
<1>1. TypeInv'
  BY TypeStep
<1>2. CASE Tick
  <2>1. truth' = truth /\ rows' = rows /\ job' = job
    BY <1>2 DEF Tick
  <2> QED
    BY <1>1, <2>1, CountUntouched
<1>3. CASE Restart
  <2>1. truth' = truth /\ rows' = rows /\ job' = job
    BY <1>3 DEF Restart
  <2> QED
    BY <1>1, <2>1, CountUntouched
<1>4. ASSUME NEW n \in Garble, BeginMerge(n) PROVE CountInv'
  <2>1. /\ truth' = truth /\ rows' = rows
        /\ job = None /\ job' = [bad |-> n, step |-> "update"]
    BY <1>4 DEF BeginMerge
  <2>2. job'.step # "delete"
    BY <2>1
  <2> QED
    BY <1>1, <2>1, <2>2, CountUntouched
<1>5. ASSUME NEW n \in Garble, DropJunk(n) PROVE CountInv'
  BY <1>1, <1>5, CountDrop
<1>6. CASE MergeUpdate \/ MergeDelete \/ MergeRename \/ MergeDies
  BY <1>1, <1>6, CountUpdate, CountDelete, CountRename, CountDies
<1>7. CASE Prune
  BY <1>1, <1>7, CountPrune
<1>8. ASSUME NEW seg \in Segments, Hear(seg) PROVE CountInv'
  <2>1. truth' = truth /\ rows' = rows /\ job' = job
    BY <1>8 DEF Hear
  <2> QED
    BY <1>1, <2>1, CountUntouched
<1>9. ASSUME NEW times \in 1..2, Record(times) PROVE CountInv'
  BY <1>1, <1>9, CountRecord
<1>10. CASE UNCHANGED vars
  <2>1. truth' = truth /\ rows' = rows /\ job' = job
    BY <1>10 DEF vars
  <2> QED
    BY <1>1, <2>1, CountUntouched
<1> QED
  BY <1>2, <1>3, <1>4, <1>5, <1>6, <1>7, <1>8, <1>9, <1>10 DEF Next, Merge

-----------------------------------------------------------------------------
(* The newest reading. *)

LEMMA NewestNext ==
  ASSUME \A c \in City, k \in Cond :
           /\ truth'[c][k].values = {} => truth'[c][k].at < now'
           /\ \A n \in Spellings(c) : Counts(n, k)' =>
                /\ rows'[n][k].seen <= truth'[c][k].at
                /\ rows'[n][k].seen = truth'[c][k].at =>
                     truth'[c][k].values = {} \/ rows'[n][k].value \in truth'[c][k].values
           /\ \/ truth'[c][k].values = {}
              \/ \E n \in Spellings(c) : /\ Counts(n, k)' /\ rows'[n][k].seen = truth'[c][k].at
                                         /\ rows'[n][k].value \in truth'[c][k].values
  PROVE  NewestInv'
BY DEF NewestInv, NewestOf, IsNewest

LEMMA NewestNow ==
  ASSUME NewestInv, NEW c \in City, NEW k \in Cond, NEW t, t = truth[c][k]
  PROVE  /\ t.values = {} => t.at < now
         /\ \A n \in Spellings(c) : Counts(n, k) =>
              /\ rows[n][k].seen <= t.at
              /\ rows[n][k].seen = t.at => t.values = {} \/ rows[n][k].value \in t.values
         /\ \/ t.values = {}
            \/ \E n \in Spellings(c) : Counts(n, k) /\ rows[n][k].seen = t.at /\ rows[n][k].value \in t.values
BY DEF NewestInv, NewestOf, IsNewest

\* It is enough that every row of a city that counts after the step says what such a row
\* of that city said before it, and that a row with the newest reading leaves one.
LEMMA NewestKept ==
  ASSUME TypeInv, NewestInv, truth' = truth, now' \in Nat, now <= now',
         \A c \in City, k \in Cond : \A n \in Spellings(c) : Counts(n, k)' =>
           \E m \in Spellings(c) : /\ Counts(m, k) /\ rows'[n][k].seen = rows[m][k].seen
                                   /\ rows'[n][k].value = rows[m][k].value,
         \A c \in City, k \in Cond : \A n \in Spellings(c) :
           Counts(n, k) /\ rows[n][k].seen = truth[c][k].at /\ rows[n][k].value \in truth[c][k].values =>
             \E m \in Spellings(c) : /\ Counts(m, k)' /\ rows'[m][k].seen = truth[c][k].at
                                     /\ rows'[m][k].value \in truth[c][k].values
  PROVE  NewestInv'
<1> SUFFICES ASSUME NEW c \in City, NEW k \in Cond, NEW t, t = truth[c][k]
             PROVE  /\ t.values = {} => t.at < now'
                    /\ \A n \in Spellings(c) : Counts(n, k)' =>
                         /\ rows'[n][k].seen <= t.at
                         /\ rows'[n][k].seen = t.at => t.values = {} \/ rows'[n][k].value \in t.values
                    /\ \/ t.values = {}
                       \/ \E n \in Spellings(c) : /\ Counts(n, k)' /\ rows'[n][k].seen = t.at
                                                  /\ rows'[n][k].value \in t.values
  BY NewestNext
<1>1. t.at \in Nat /\ now \in Nat
  BY DEF TypeInv, TruthInv, Truth, ClockInv
<1>2. /\ t.values = {} => t.at < now
      /\ \A n \in Spellings(c) : Counts(n, k) =>
           /\ rows[n][k].seen <= t.at
           /\ rows[n][k].seen = t.at => t.values = {} \/ rows[n][k].value \in t.values
      /\ \/ t.values = {}
         \/ \E n \in Spellings(c) : Counts(n, k) /\ rows[n][k].seen = t.at /\ rows[n][k].value \in t.values
  BY NewestNow
<1>3. ASSUME NEW n \in Spellings(c), Counts(n, k)'
      PROVE  /\ rows'[n][k].seen <= t.at
             /\ rows'[n][k].seen = t.at => t.values = {} \/ rows'[n][k].value \in t.values
  <2>1. PICK m \in Spellings(c) : /\ Counts(m, k) /\ rows'[n][k].seen = rows[m][k].seen
                                  /\ rows'[n][k].value = rows[m][k].value
    BY <1>3
  <2> QED
    BY <1>2, <2>1
<1> QED
  BY <1>1, <1>2, <1>3

\* The rows stay, but for those of no city, and so does the gap of the merge.
LEMMA NewestUntouched ==
  ASSUME TypeInv, NewestInv, truth' = truth, now' \in Nat, now <= now',
         \A n \in Name, k \in Cond : IsReal(n) => rows'[n][k] = rows[n][k],
         \/ job' = job /\ rows' = rows
         \/ ~ (job # None /\ job.step = "delete") /\ ~ (job' # None /\ job'.step = "delete")
  PROVE  NewestInv'
<1>1. \A c \in City, k \in Cond : \A n \in Spellings(c) : rows'[n][k] = rows[n][k]
  BY CanonIs, NotNone DEF Name
<1>2. \A n, k : InMerge(n, k)' <=> InMerge(n, k)
  BY InMergeIs, InMergeNext
<1>3. \A c \in City, k \in Cond : \A n \in Spellings(c) : Counts(n, k)' <=> Counts(n, k)
  BY <1>1, <1>2 DEF Counts
<1> QED
  BY <1>1, <1>3, NewestKept

\* A reading takes the misspelt row out of the count, or none.
LEMMA RecordMerges ==
  ASSUME TypeInv, NEW times \in 1..2, Record(times), NEW r, r = Head(pending)
  PROVE  /\ \A n \in Name, k \in Cond : InMerge(n, k) => InMerge(n, k)'
         /\ ~InMerge(r.name, r.cond) => ~InMerge(r.name, r.cond)'
         /\ InMerge(r.name, r.cond) => \A n \in Name, k \in Cond : InMerge(n, k)' <=> InMerge(n, k)
         /\ \A n \in Name, k \in Cond : Canon(n) # Canon(r.name) \/ k # r.cond => (InMerge(n, k)' <=> InMerge(n, k))
<1>1. /\ r.name \in Name /\ r.cond \in Cond
      /\ \A n \in Name, k \in Cond :
           rows'[n][k] = IF n = r.name /\ k = r.cond THEN Upsert(rows[n][k], r, times) ELSE rows[n][k]
      /\ Upsert(rows[r.name][r.cond], r, times) # None
  BY RecordIs, NotNone
<1>2. job' = job
  BY DEF Record
<1>3. job # None => /\ job.bad \in Name /\ Good \in Name /\ Good # job.bad
                    /\ Canon(job.bad) = Good /\ Canon(Good) = Good
  BY JobIs DEF TypeInv
<1>4. \A n, k : InMerge(n, k) <=> job # None /\ job.step = "delete" /\ n = job.bad /\ rows[Good][k] # None
  BY InMergeIs DEF Good
<1>5. \A n, k : InMerge(n, k)' <=> job # None /\ job.step = "delete" /\ n = job.bad /\ rows'[Good][k] # None
  BY <1>2, InMergeNext DEF Good
<1>6. \A k \in Cond : job # None /\ rows[Good][k] # None => rows'[Good][k] # None
  BY <1>1, <1>3
<1>7. job # None /\ r.name = job.bad => \A k \in Cond : rows'[Good][k] = rows[Good][k]
  BY <1>1, <1>3
<1>8. ASSUME NEW n \in Name, NEW k \in Cond, Canon(n) # Canon(r.name) \/ k # r.cond, job # None, n = job.bad
      PROVE  rows'[Good][k] = rows[Good][k]
  BY <1>1, <1>3, <1>8
<1> QED
  BY <1>1, <1>4, <1>5, <1>6, <1>7, <1>8

LEMMA NewestRecord ==
  ASSUME TypeInv, TypeInv', NewestInv, NEW times \in 1..2, Record(times), NEW r, r = Head(pending)
  PROVE  NewestInv'
<1> DEFINE d == Canon(r.name)
           u == Upsert(rows[r.name][r.cond], r, times)
<1>1. /\ r \in Reading /\ r.name \in Name /\ r.cond \in Cond
      /\ \A n \in Name, k \in Cond :
           rows'[n][k] = IF n = r.name /\ k = r.cond THEN u ELSE rows[n][k]
      /\ u \in Row /\ u.seen = now /\ u.value = r.value
  <2>1. u.seen = now /\ u.value = r.value
    BY DEF Upsert
  <2> QED
    BY <2>1, RecordIs
<1>2. /\ now' = now
      /\ truth' = IF IsReal(r.name) THEN [truth EXCEPT ![d][r.cond] = Learn(r, times)] ELSE truth
  BY DEF Record
<1>3. /\ IsReal(r.name) <=> d \in City
      /\ \A c \in City : r.name \in Spellings(c) <=> d = c
      /\ \A c \in City : Spellings(c) \subseteq Name
  BY <1>1, CanonIs
<1>4. truth \in [City -> [Cond -> Truth]] /\ now \in Nat
  BY DEF TypeInv, TruthInv, ClockInv
<1>5. /\ \A n \in Name, k \in Cond : InMerge(n, k) => InMerge(n, k)'
      /\ ~InMerge(r.name, r.cond) => ~InMerge(r.name, r.cond)'
      /\ InMerge(r.name, r.cond) => \A n \in Name, k \in Cond : InMerge(n, k)' <=> InMerge(n, k)
      /\ \A n \in Name, k \in Cond : Canon(n) # d \/ k # r.cond => (InMerge(n, k)' <=> InMerge(n, k))
  BY RecordMerges
<1>6. u # None
  BY <1>1, NotNone
<1>7. IsReal(r.name) =>
        /\ InMerge(r.name, r.cond) => /\ Learn(r, times).at = truth[d][r.cond].at
                                      /\ Learn(r, times).values = truth[d][r.cond].values
        /\ ~InMerge(r.name, r.cond) =>
             /\ Learn(r, times).at = now
             /\ Learn(r, times).values = (IF truth[d][r.cond].at = now THEN truth[d][r.cond].values ELSE {}) \cup {r.value}
  BY <1>1, LearnIs
<1> HIDE DEF d, u
<1> SUFFICES ASSUME NEW c \in City, NEW k \in Cond, NEW t, t = truth[c][k], NEW s, s = truth'[c][k]
             PROVE  /\ s.values = {} => s.at < now
                    /\ \A n \in Spellings(c) : Counts(n, k)' =>
                         /\ rows'[n][k].seen <= s.at
                         /\ rows'[n][k].seen = s.at => s.values = {} \/ rows'[n][k].value \in s.values
                    /\ \/ s.values = {}
                       \/ \E n \in Spellings(c) : /\ Counts(n, k)' /\ rows'[n][k].seen = s.at
                                                  /\ rows'[n][k].value \in s.values
  BY <1>2, NewestNext
<1>8. /\ t.values = {} => t.at < now
      /\ \A n \in Spellings(c) : Counts(n, k) =>
           /\ rows[n][k].seen <= t.at
           /\ rows[n][k].seen = t.at => t.values = {} \/ rows[n][k].value \in t.values
      /\ \/ t.values = {}
         \/ \E n \in Spellings(c) : Counts(n, k) /\ rows[n][k].seen = t.at /\ rows[n][k].value \in t.values
  BY NewestNow
<1>9. t.at \in Nat /\ t.at <= now
  BY DEF TypeInv, TruthInv, Truth
<1>10. CASE c = d /\ k = r.cond /\ ~InMerge(r.name, k)
  <2>1. s = Learn(r, times) /\ IsReal(r.name)
    BY <1>2, <1>3, <1>4, <1>10
  <2> DEFINE values == IF t.at = now THEN t.values ELSE {}
  <2>2. s.at = now /\ s.values = values \cup {r.value}
    BY <1>7, <1>10, <2>1
  <2>3. r.name \in Spellings(c) /\ rows'[r.name][k] = u
    BY <1>1, <1>3, <1>10
  <2>4. ASSUME NEW n \in Spellings(c), Counts(n, k)'
        PROVE  /\ rows'[n][k].seen <= now
               /\ rows'[n][k].seen = now => rows'[n][k].value \in values \cup {r.value}
    <3>1. CASE n = r.name
      BY <1>1, <1>4, <2>3, <3>1
    <3>2. CASE n # r.name
      <4>1. rows'[n][k] = rows[n][k] /\ n \in Name
        BY <1>1, <1>3, <3>2
      <4>2. Counts(n, k) /\ rows[n][k] # None
        BY <1>5, <2>4, <4>1 DEF Counts
      <4>3. rows[n][k].seen \in Nat /\ rows[n][k].seen <= t.at
        BY <1>8, <4>1, <4>2 DEF TypeInv, RowsInv, Row
      <4>4. rows[n][k].seen <= now
        BY <1>4, <1>9, <4>3
      <4>5. ASSUME rows[n][k].seen = now PROVE rows[n][k].value \in values
        <5>1. t.at = now
          BY <1>4, <1>9, <4>3, <4>5
        <5>2. ~ (t.values = {})
          BY <1>4, <1>8, <5>1
        <5> QED
          BY <1>8, <4>2, <4>5, <5>1, <5>2
      <4> QED
        BY <4>1, <4>4, <4>5
    <3> QED
      BY <3>1, <3>2
  <2>5. Counts(r.name, k)'
    BY <1>5, <1>6, <1>10, <2>3 DEF Counts
  <2>6. rows'[r.name][k].seen = now /\ rows'[r.name][k].value \in values \cup {r.value}
    BY <1>1, <2>3
  <2> HIDE DEF values
  <2> QED
    BY <2>2, <2>3, <2>4, <2>5, <2>6
<1>11. CASE ~ (c = d /\ k = r.cond /\ ~InMerge(r.name, k))
  <2>1. s.at = t.at /\ s.values = t.values
    BY <1>1, <1>2, <1>3, <1>4, <1>7, <1>11
  <2>2. ASSUME NEW n \in Spellings(c)
        PROVE  (Counts(n, k)' <=> Counts(n, k)) /\ (Counts(n, k) => rows'[n][k] = rows[n][k])
    <3>1. n \in Name /\ Canon(n) = c
      BY CanonIs
    <3>2. CASE n = r.name /\ k = r.cond
      <4>1. InMerge(n, k) /\ InMerge(n, k)'
        BY <1>5, <1>11, <3>1, <3>2 DEF d
      <4> QED
        BY <4>1 DEF Counts
    <3>3. CASE ~ (n = r.name /\ k = r.cond)
      <4>1. rows'[n][k] = rows[n][k]
        BY <1>1, <3>1, <3>3
      <4>2. InMerge(n, k)' <=> InMerge(n, k)
        BY <1>5, <1>11, <3>1
      <4> QED
        BY <4>1, <4>2 DEF Counts
    <3> QED
      BY <3>2, <3>3
  <2> QED
    BY <1>8, <2>1, <2>2
<1> QED
  BY <1>10, <1>11

\* What an update, a delete and a rename keep of the newest.
LEMMA NewestUpdate ==
  ASSUME TypeInv, NewestInv, MergeUpdate PROVE NewestInv'
<1>1. /\ job # None /\ job.step = "update" /\ job' = [job EXCEPT !.step = "delete"]
      /\ \A n \in Name, k \in Cond :
           rows'[n][k] = IF n = Good /\ rows[n][k] # None /\ rows[job.bad][k] # None
                         THEN Merged(rows[n][k], rows[job.bad][k]) ELSE rows[n][k]
  BY MergeUpdateIs
<1>2. /\ job \in Job /\ job.bad \in Name /\ Good \in Name /\ Good # job.bad
      /\ Canon(job.bad) = Good /\ Canon(Good) = Good
  BY <1>1, JobIs DEF TypeInv
<1>3. truth' = truth /\ now' = now /\ now \in Nat
  BY DEF MergeUpdate, TypeInv, ClockInv
<1>4. job' # None /\ job'.step = "delete" /\ job'.bad = job.bad
  BY <1>1, <1>2, NotNone DEF Job
<1>5. ASSUME NEW c \in City, NEW k \in Cond,
             NEW bad, bad = job.bad, NEW good, good = Good,
             NEW b, b = rows[bad][k], NEW g, g = rows[good][k], NEW t, t = truth[c][k]
      PROVE  /\ \A n \in Spellings(c) : Counts(n, k)' =>
                  \E m \in Spellings(c) : /\ Counts(m, k) /\ rows'[n][k].seen = rows[m][k].seen
                                          /\ rows'[n][k].value = rows[m][k].value
             /\ \A n \in Spellings(c) :
                  Counts(n, k) /\ rows[n][k].seen = t.at /\ rows[n][k].value \in t.values =>
                    \E m \in Spellings(c) : /\ Counts(m, k)' /\ rows'[m][k].seen = t.at
                                            /\ rows'[m][k].value \in t.values
  <2>1. \A n \in Name : Counts(n, k) <=> rows[n][k] # None
    BY <1>1, InMergeIs DEF Counts
  <2>2. \A n \in Name : InMerge(n, k)' <=> n = bad /\ rows'[good][k] # None
    BY <1>4, <1>5, InMergeNext DEF Good
  <2>3. /\ bad \in Name /\ good \in Name /\ good # bad /\ Spellings(c) \subseteq Name
        /\ good \in Spellings(c) <=> bad \in Spellings(c)
    BY <1>2, <1>5, CanonIs
  <2>4. ASSUME NEW n \in Spellings(c), ~ (n = good /\ g # None /\ b # None)
        PROVE  rows'[n][k] = rows[n][k]
    BY <1>1, <1>5, <2>3, <2>4
  <2>5. CASE g # None /\ b # None
    <3>1. g \in Row /\ b \in Row
      BY <1>5, <2>3, <2>5 DEF TypeInv, RowsInv
    <3>2. Merged(g, b) \in Row
      BY <3>1 DEF Merged, Row
    <3>3. rows'[good][k] = Merged(g, b) /\ rows'[good][k] # None
      BY <1>1, <1>5, <2>3, <2>5, <3>2, NotNone
    <3>4. /\ Merged(g, b).value = IF b.seen > g.seen THEN b.value ELSE g.value
          /\ Merged(g, b).seen = IF b.seen > g.seen THEN b.seen ELSE g.seen
      BY DEF Merged
    <3>5. \A n \in Name : Counts(n, k)' <=> rows'[n][k] # None /\ n # bad
      BY <2>2, <3>3 DEF Counts
    <3>6. b.seen \in Nat /\ g.seen \in Nat /\ t.at \in Nat
      BY <1>5, <3>1 DEF Row, TypeInv, TruthInv, Truth
    <3>7. ASSUME good \in Spellings(c)
          PROVE  /\ b.seen <= t.at /\ g.seen <= t.at
                 /\ b.seen = t.at => t.values = {} \/ b.value \in t.values
                 /\ g.seen = t.at => t.values = {} \/ g.value \in t.values
      <4>1. \A n \in Spellings(c) : Counts(n, k) =>
              /\ rows[n][k].seen <= t.at
              /\ rows[n][k].seen = t.at => t.values = {} \/ rows[n][k].value \in t.values
        BY <1>5, NewestNow
      <4>2. Counts(good, k) /\ Counts(bad, k)
        BY <1>5, <2>1, <2>3, <2>5
      <4> QED
        BY <1>5, <2>3, <3>7, <4>1, <4>2
    <3>8. ASSUME NEW n \in Spellings(c), Counts(n, k)'
          PROVE  \E m \in Spellings(c) : /\ Counts(m, k) /\ rows'[n][k].seen = rows[m][k].seen
                                         /\ rows'[n][k].value = rows[m][k].value
      <4>1. CASE n = good /\ b.seen > g.seen
        BY <1>5, <2>1, <2>3, <2>5, <3>3, <3>4, <4>1
      <4>2. CASE n = good /\ ~ (b.seen > g.seen)
        BY <1>5, <2>1, <2>3, <2>5, <3>3, <3>4, <4>2
      <4>3. CASE n # good
        BY <2>1, <2>3, <2>4, <3>5, <3>8, <4>3
      <4> QED
        BY <4>1, <4>2, <4>3
    <3>9. ASSUME NEW n \in Spellings(c), Counts(n, k), rows[n][k].seen = t.at, rows[n][k].value \in t.values
          PROVE  \E m \in Spellings(c) : /\ Counts(m, k)' /\ rows'[m][k].seen = t.at
                                         /\ rows'[m][k].value \in t.values
      <4>1. CASE n = good \/ n = bad
        <5>1. good \in Spellings(c) /\ Counts(good, k)'
          BY <2>3, <3>3, <3>5, <4>1
        <5>2. (g.seen = t.at /\ g.value \in t.values) \/ (b.seen = t.at /\ b.value \in t.values)
          BY <1>5, <3>9, <4>1
        <5>3. t.values # {}
          BY <3>9
        <5>4. Merged(g, b).seen = t.at /\ Merged(g, b).value \in t.values
          BY <3>4, <3>6, <3>7, <5>1, <5>2, <5>3
        <5> QED
          BY <3>3, <5>1, <5>4
      <4>2. CASE n # good /\ n # bad
        <5>1. rows'[n][k] = rows[n][k] /\ Counts(n, k)'
          BY <2>1, <2>3, <2>4, <3>5, <3>9, <4>2
        <5> QED
          BY <3>9, <5>1
      <4> QED
        BY <4>1, <4>2
    <3> QED
      BY <3>8, <3>9
  <2>6. CASE ~ (g # None /\ b # None)
    <3>1. \A n \in Spellings(c) : rows'[n][k] = rows[n][k]
      BY <2>4, <2>6
    <3>2. \A n \in Spellings(c) : Counts(n, k)' <=> Counts(n, k)
      <4> SUFFICES ASSUME NEW n \in Spellings(c) PROVE Counts(n, k)' <=> Counts(n, k)
        OBVIOUS
      <4>1. CASE n = bad
        <5>1. rows'[good][k] = g
          BY <1>5, <2>3, <3>1, <4>1
        <5> QED
          BY <1>5, <2>1, <2>2, <2>3, <2>6, <3>1, <4>1, <5>1 DEF Counts
      <4>2. CASE n # bad
        BY <2>1, <2>2, <2>3, <3>1, <4>2 DEF Counts
      <4> QED
        BY <4>1, <4>2
    <3> QED
      BY <3>1, <3>2
  <2> QED
    BY <2>5, <2>6
<1>6. /\ \A c \in City, k \in Cond : \A n \in Spellings(c) : Counts(n, k)' =>
           \E m \in Spellings(c) : /\ Counts(m, k) /\ rows'[n][k].seen = rows[m][k].seen
                                   /\ rows'[n][k].value = rows[m][k].value
      /\ \A c \in City, k \in Cond : \A n \in Spellings(c) :
           Counts(n, k) /\ rows[n][k].seen = truth[c][k].at /\ rows[n][k].value \in truth[c][k].values =>
             \E m \in Spellings(c) : /\ Counts(m, k)' /\ rows'[m][k].seen = truth[c][k].at
                                     /\ rows'[m][k].value \in truth[c][k].values
  BY <1>5
<1> QED
  BY <1>3, <1>6, NewestKept

LEMMA NewestDelete ==
  ASSUME TypeInv, NewestInv, MergeDelete PROVE NewestInv'
<1>1. /\ job # None /\ job.step = "delete" /\ job' = [job EXCEPT !.step = "rename"]
      /\ \A n \in Name, k \in Cond :
           rows'[n][k] = IF n = job.bad /\ rows[Good][k] # None THEN None ELSE rows[n][k]
  BY MergeDeleteIs
<1>2. job \in Job
  BY <1>1, JobIs DEF TypeInv
<1>3. truth' = truth /\ now' = now /\ now \in Nat
  BY DEF MergeDelete, TypeInv, ClockInv
<1>4. job'.step = "rename"
  BY <1>1, <1>2 DEF Job
<1>5. ASSUME NEW c \in City, NEW k \in Cond, NEW n \in Spellings(c)
      PROVE  (Counts(n, k)' <=> Counts(n, k)) /\ (Counts(n, k) => rows'[n][k] = rows[n][k])
  <2>1. n \in Name
    BY CanonIs
  <2>2. ~InMerge(n, k)'
    BY <1>4, InMergeNext
  <2>3. InMerge(n, k) <=> n = job.bad /\ rows[Good][k] # None
    BY <1>1, InMergeIs DEF Good
  <2> QED
    BY <1>1, <2>1, <2>2, <2>3 DEF Counts
<1>6. \A c \in City, k \in Cond : \A n \in Spellings(c) :
        (Counts(n, k)' <=> Counts(n, k)) /\ (Counts(n, k) => rows'[n][k] = rows[n][k])
  BY <1>5
<1> QED
  BY <1>3, <1>6, NewestKept

LEMMA NewestRename ==
  ASSUME TypeInv, NewestInv, MergeRename PROVE NewestInv'
<1>1. /\ job # None /\ job.step = "rename" /\ job' = None
      /\ \/ rows' = rows
         \/ /\ \A k \in Cond : rows[job.bad][k] = None \/ rows[Good][k] = None
            /\ \A n \in Name, k \in Cond :
                 rows'[n][k] = IF n = job.bad THEN None
                               ELSE IF n = Good /\ rows[job.bad][k] # None THEN rows[job.bad][k]
                               ELSE rows[n][k]
  BY MergeRenameIs
<1>2. /\ job.bad \in Name /\ Good \in Name /\ Good # job.bad
      /\ Canon(job.bad) = Good /\ Canon(Good) = Good
  BY <1>1, JobIs DEF TypeInv
<1>3. truth' = truth /\ now' = now /\ now \in Nat
  BY DEF MergeRename, TypeInv, ClockInv
<1>4. CASE rows' = rows
  BY <1>1, <1>3, <1>4, NewestUntouched
<1>6. \A n, k : Counts(n, k) <=> rows[n][k] # None
  BY <1>1, InMergeIs DEF Counts
<1>7. \A n, k : Counts(n, k)' <=> rows'[n][k] # None
  BY <1>1, InMergeNext DEF Counts
<1>5. CASE /\ \A k \in Cond : rows[job.bad][k] = None \/ rows[Good][k] = None
           /\ \A n \in Name, k \in Cond :
                rows'[n][k] = IF n = job.bad THEN None
                              ELSE IF n = Good /\ rows[job.bad][k] # None THEN rows[job.bad][k]
                              ELSE rows[n][k]
  <2>1. ASSUME NEW c \in City, NEW k \in Cond, NEW n \in Spellings(c), rows'[n][k] # None
        PROVE  \E m \in Spellings(c) : rows[m][k] # None /\ rows'[n][k] = rows[m][k]
    <3>1. n \in Name /\ Canon(n) = c
      BY CanonIs
    <3>2. n = Good => job.bad \in Spellings(c)
      BY <1>2, <3>1, CanonIs
    <3> QED
      BY <1>5, <2>1, <3>1, <3>2
  <2>2. ASSUME NEW c \in City, NEW k \in Cond, NEW n \in Spellings(c), rows[n][k] # None
        PROVE  \E m \in Spellings(c) : rows'[m][k] = rows[n][k]
    <3>1. n \in Name /\ Canon(n) = c
      BY CanonIs
    <3>2. CASE n = job.bad
      <4>1. Good \in Spellings(c) /\ rows'[Good][k] = rows[n][k]
        BY <1>2, <1>5, <2>2, <3>1, <3>2, CanonIs
      <4> QED
        BY <4>1
    <3>3. CASE n # job.bad
      <4>1. rows'[n][k] = rows[n][k]
        BY <1>5, <2>2, <3>1, <3>3
      <4> QED
        BY <4>1
    <3> QED
      BY <3>2, <3>3
  <2>3. ASSUME NEW c \in City, NEW k \in Cond, NEW n \in Spellings(c),
               Counts(n, k), rows[n][k].seen = truth[c][k].at, rows[n][k].value \in truth[c][k].values
        PROVE  \E m \in Spellings(c) : /\ Counts(m, k)' /\ rows'[m][k].seen = truth[c][k].at
                                       /\ rows'[m][k].value \in truth[c][k].values
    <3>1. PICK m \in Spellings(c) : rows'[m][k] = rows[n][k]
      BY <1>6, <2>2, <2>3
    <3> QED
      BY <1>6, <1>7, <2>3, <3>1
  <2>4. ASSUME NEW c \in City, NEW k \in Cond, NEW n \in Spellings(c), Counts(n, k)'
        PROVE  \E m \in Spellings(c) : /\ Counts(m, k) /\ rows'[n][k].seen = rows[m][k].seen
                                       /\ rows'[n][k].value = rows[m][k].value
    <3>1. PICK m \in Spellings(c) : rows[m][k] # None /\ rows'[n][k] = rows[m][k]
      BY <1>7, <2>1, <2>4
    <3> QED
      BY <1>6, <3>1
  <2> QED
    BY <1>3, <2>3, <2>4, NewestKept
<1> QED
  BY <1>1, <1>4, <1>5

\* A misspelt row that counts again brings its reading back.
LEMMA NewestRejoins ==
  ASSUME now \in Nat, NEW c \in City, NEW k \in Cond, NEW t \in Truth, NEW row \in Row, NEW bad \in Spellings(c),
         NEW u, u = Rejoined(t, row),
         Counts(bad, k)', rows'[bad][k] = row, t.values = {} => t.at < now,
         \A n \in Spellings(c) : n # bad /\ Counts(n, k)' =>
           /\ rows'[n][k].seen \in Nat /\ rows'[n][k].seen <= t.at
           /\ rows'[n][k].seen = t.at => t.values = {} \/ rows'[n][k].value \in t.values,
         \/ t.values = {}
         \/ \E n \in Spellings(c) : Counts(n, k)' /\ rows'[n][k].seen = t.at /\ rows'[n][k].value \in t.values
  PROVE  /\ u.values = {} => u.at < now
         /\ \A n \in Spellings(c) : Counts(n, k)' =>
              /\ rows'[n][k].seen <= u.at
              /\ rows'[n][k].seen = u.at => u.values = {} \/ rows'[n][k].value \in u.values
         /\ \/ u.values = {}
            \/ \E n \in Spellings(c) : Counts(n, k)' /\ rows'[n][k].seen = u.at /\ rows'[n][k].value \in u.values
<1>1. t.at \in Nat /\ row.seen \in Nat
  BY DEF Truth, Row
<1>2. CASE row.seen > t.at
  <2>1. u.at = row.seen /\ u.values = {row.value}
    BY <1>2, RejoinedIs, RejoinedValues
  <2> QED
    BY <1>1, <1>2, <2>1
<1>3. CASE row.seen = t.at /\ t.values # {}
  <2>1. ~ (row.seen > t.at)
    BY <1>1, <1>3
  <2>2. u.at = t.at
    BY <2>1, RejoinedIs, RejoinedValues
  <2>3. u.values = IF row.seen = t.at /\ t.values # {} THEN t.values \cup {row.value} ELSE t.values
    BY <2>1, RejoinedIs, RejoinedValues
  <2>4. u.values = t.values \cup {row.value}
    BY <1>3, <2>3
  <2> QED
    BY <1>1, <1>3, <2>2, <2>4
<1>4. CASE ~ (row.seen > t.at) /\ ~ (row.seen = t.at /\ t.values # {})
  <2>1. u.at = t.at /\ u.values = t.values
    BY <1>4, RejoinedIs, RejoinedValues
  <2> QED
    BY <1>1, <1>4, <2>1
<1> QED
  BY <1>2, <1>3, <1>4

\* A job that dies leaves the misspelt row to count beside the good one.
LEMMA NewestDies ==
  ASSUME TypeInv, NewestInv, MergeDies PROVE NewestInv'
<1>1. /\ job # None /\ job' = None /\ rows' = rows /\ now' = now
      /\ truth' = [c \in City |-> [k \in Cond |->
                     IF Shadows(c, k) THEN Rejoined(truth[c][k], rows[job.bad][k]) ELSE truth[c][k]]]
  BY DEF MergeDies
<1>2. job.bad \in Name /\ Canon(job.bad) = Good /\ now \in Nat
  BY <1>1, JobIs DEF TypeInv, ClockInv
<1>3. \A n, k : Counts(n, k)' <=> rows[n][k] # None
  BY <1>1, InMergeNext DEF Counts
<1>4. \A n, k : n # job.bad => (Counts(n, k) <=> rows[n][k] # None)
  BY InMergeIs DEF Counts
<1> SUFFICES ASSUME NEW c \in City, NEW k \in Cond, NEW t, t = truth[c][k], NEW u, u = truth'[c][k]
             PROVE  /\ u.values = {} => u.at < now
                    /\ \A n \in Spellings(c) : Counts(n, k)' =>
                         /\ rows'[n][k].seen <= u.at
                         /\ rows'[n][k].seen = u.at => u.values = {} \/ rows'[n][k].value \in u.values
                    /\ \/ u.values = {}
                       \/ \E n \in Spellings(c) : /\ Counts(n, k)' /\ rows'[n][k].seen = u.at
                                                  /\ rows'[n][k].value \in u.values
  BY <1>1, NewestNext
<1>5. /\ t.values = {} => t.at < now
      /\ \A n \in Spellings(c) : Counts(n, k) =>
           /\ rows[n][k].seen <= t.at
           /\ rows[n][k].seen = t.at => t.values = {} \/ rows[n][k].value \in t.values
      /\ \/ t.values = {}
         \/ \E n \in Spellings(c) : Counts(n, k) /\ rows[n][k].seen = t.at /\ rows[n][k].value \in t.values
  BY NewestNow
<1>6. t \in Truth /\ Spellings(c) \subseteq Name
  BY CanonIs DEF TypeInv, TruthInv
<1>7. \A n \in Name : Counts(n, k)' => rows[n][k].seen \in Nat
  BY <1>3 DEF TypeInv, RowsInv, Row
<1>8. \A n \in Name : Counts(n, k) => Counts(n, k)'
  BY <1>3 DEF Counts
<1>9. CASE Shadows(c, k)
  <2>1. PICK bad : bad = job.bad
    OBVIOUS
  <2> DEFINE row == rows[bad][k]
  <2>2. bad \in Spellings(c) /\ bad \in Name /\ row # None /\ row \in Row
    BY <1>9, <2>1, ShadowsAre
  <2>3. u = Rejoined(t, row)
    BY <1>1, <1>9, <2>1
  <2>4. Counts(bad, k)' /\ rows'[bad][k] = row
    BY <1>1, <1>3, <2>2
  <2>5. \A n \in Spellings(c) : n # bad /\ Counts(n, k)' =>
           /\ rows'[n][k].seen \in Nat /\ rows'[n][k].seen <= t.at
           /\ rows'[n][k].seen = t.at => t.values = {} \/ rows'[n][k].value \in t.values
    BY <1>1, <1>3, <1>4, <1>5, <1>6, <1>7, <2>1
  <2>6. \/ t.values = {}
        \/ \E n \in Spellings(c) : Counts(n, k)' /\ rows'[n][k].seen = t.at /\ rows'[n][k].value \in t.values
    BY <1>1, <1>5, <1>6, <1>8
  <2> HIDE DEF row
  <2> QED
    BY <1>2, <1>5, <1>6, <2>2, <2>3, <2>4, <2>5, <2>6, NewestRejoins
<1>10. CASE ~Shadows(c, k)
  <2>1. u = t
    BY <1>1, <1>10
  <2>2. ASSUME NEW n \in Spellings(c) PROVE Counts(n, k)' <=> Counts(n, k)
    <3>1. n \in Name /\ Canon(n) = c
      BY CanonIs
    <3>2. CASE n = job.bad
      BY <1>1, <1>2, <1>3, <1>10, <3>1, <3>2 DEF Shadows, Counts, Good
    <3> QED
      BY <1>3, <1>4, <3>1, <3>2
  <2> QED
    BY <1>1, <1>5, <2>1, <2>2
<1> QED
  BY <1>9, <1>10

\* A city whose newest row is pruned has no newest reading any more, unless a misspelt row
\* has a newer one.
LEMMA NewestPrune ==
  ASSUME TypeInv, TypeInv', NewestInv, Prune PROVE NewestInv'
<1>1. /\ \A n \in Name, k \in Cond : rows'[n][k] = IF IsOld(n, k) THEN None ELSE rows[n][k]
      /\ \A c \in City, k \in Cond :
           truth'[c][k] = IF Rejoins(c, k) THEN Rejoined(Forget(truth[c][k], c, k), rows[job.bad][k])
                          ELSE Forget(truth[c][k], c, k)
  BY PruneIs
<1>2. now' = now
  BY DEF Prune
<1> SUFFICES ASSUME NEW c \in City, NEW k \in Cond,
                    NEW gone, gone = {n \in Spellings(c) : IsOld(n, k)},
                    NEW t, t = truth[c][k], NEW s, s = Forget(t, c, k), NEW u, u = truth'[c][k]
             PROVE  /\ u.values = {} => u.at < now
                    /\ \A n \in Spellings(c) : Counts(n, k)' =>
                         /\ rows'[n][k].seen <= u.at
                         /\ rows'[n][k].seen = u.at => u.values = {} \/ rows'[n][k].value \in u.values
                    /\ \/ u.values = {}
                       \/ \E n \in Spellings(c) : /\ Counts(n, k)' /\ rows'[n][k].seen = u.at
                                                  /\ rows'[n][k].value \in u.values
  BY <1>2, NewestNext
<1>3. t \in Truth /\ now \in Nat /\ PruneAfter \in Nat /\ Spellings(c) \subseteq Name
  BY ConditionsAssumption, CanonIs DEF TypeInv, TruthInv, ClockInv
<1>4. /\ s \in Truth /\ s.at = t.at
      /\ (\E n \in gone : rows[n][k].seen = t.at) => s.values = {}
      /\ (\A n \in gone : rows[n][k].seen # t.at) => s.values = t.values
  BY <1>3, ForgetNewest
<1>5. /\ t.values = {} => t.at < now
      /\ \A n \in Spellings(c) : Counts(n, k) =>
           /\ rows[n][k].seen <= t.at
           /\ rows[n][k].seen = t.at => t.values = {} \/ rows[n][k].value \in t.values
      /\ \/ t.values = {}
         \/ \E n \in Spellings(c) : Counts(n, k) /\ rows[n][k].seen = t.at /\ rows[n][k].value \in t.values
  BY NewestNow
<1>6. ASSUME NEW n \in gone, rows[n][k].seen = t.at PROVE t.at < now
  <2>1. n \in Name /\ rows[n][k] # None /\ rows[n][k].seen < now - PruneAfter
    BY <1>3 DEF IsOld
  <2>2. rows[n][k].seen \in Nat
    BY <2>1 DEF TypeInv, RowsInv, Row
  <2> QED
    BY <1>3, <1>6, <2>1, <2>2
<1>7. \A n \in Spellings(c) : rows'[n][k] = IF n \in gone THEN None ELSE rows[n][k]
  BY <1>1, <1>3
<1>8. s.values = {} => s.at < now
  BY <1>4, <1>5, <1>6
<1>9. ASSUME NEW n \in Spellings(c), Counts(n, k)', ~ (Rejoins(c, k) /\ n = job.bad)
      PROVE  /\ rows'[n][k].seen \in Nat /\ rows'[n][k].seen <= s.at
             /\ rows'[n][k].seen = s.at => s.values = {} \/ rows'[n][k].value \in s.values
  <2>1. n \notin gone /\ rows'[n][k] = rows[n][k] /\ rows[n][k] # None /\ n \in Name
    BY <1>3, <1>7, <1>9 DEF Counts
  <2>2. InMerge(n, k)' <=> InMerge(n, k)
    BY <1>9, <2>1, PruneKeeps
  <2>3. Counts(n, k)
    BY <1>9, <2>1, <2>2 DEF Counts
  <2>4. rows[n][k].seen \in Nat
    BY <2>1 DEF TypeInv, RowsInv, Row
  <2> QED
    BY <1>4, <1>5, <2>1, <2>3, <2>4
<1>10. \/ s.values = {}
       \/ \E n \in Spellings(c) : Counts(n, k)' /\ rows'[n][k].seen = s.at /\ rows'[n][k].value \in s.values
  <2> SUFFICES ASSUME s.values # {}
               PROVE  \E n \in Spellings(c) : Counts(n, k)' /\ rows'[n][k].seen = s.at /\ rows'[n][k].value \in s.values
    OBVIOUS
  <2>1. s.values = t.values /\ \A n \in gone : rows[n][k].seen # t.at
    BY <1>4
  <2>2. PICK n \in Spellings(c) : Counts(n, k) /\ rows[n][k].seen = t.at /\ rows[n][k].value \in t.values
    BY <1>5, <2>1
  <2>3. n \notin gone /\ ~IsOld(n, k) /\ rows[n][k] # None /\ ~InMerge(n, k)
    BY <2>1, <2>2 DEF Counts
  <2>4. rows'[n][k] = rows[n][k] /\ ~InMerge(n, k)'
    BY <2>3, PruneKeeps
  <2>5. Counts(n, k)'
    BY <2>3, <2>4 DEF Counts
  <2> QED
    BY <1>4, <2>1, <2>2, <2>4, <2>5
<1>11. CASE ~Rejoins(c, k)
  <2>1. u = s
    BY <1>1, <1>11
  <2> QED
    BY <1>8, <1>9, <1>10, <1>11, <2>1
<1>12. CASE Rejoins(c, k)
  <2>1. PICK bad : bad = job.bad
    OBVIOUS
  <2> DEFINE row == rows[bad][k]
  <2>2. bad \in Spellings(c) /\ bad \in Name /\ row # None /\ row \in Row /\ ~IsOld(bad, k)
    BY <1>12, <2>1, ShadowsAre DEF Rejoins
  <2>3. u = Rejoined(s, row)
    BY <1>1, <1>12, <2>1
  <2>4. rows'[bad][k] = row /\ ~InMerge(bad, k)'
    BY <1>12, <2>1, <2>2, PruneKeeps
  <2>5. Counts(bad, k)'
    BY <2>2, <2>4 DEF Counts
  <2>6. \A n \in Spellings(c) : n # bad /\ Counts(n, k)' =>
           /\ rows'[n][k].seen \in Nat /\ rows'[n][k].seen <= s.at
           /\ rows'[n][k].seen = s.at => s.values = {} \/ rows'[n][k].value \in s.values
    BY <1>9, <2>1
  <2> HIDE DEF row
  <2> QED
    BY <1>3, <1>4, <1>8, <1>10, <2>2, <2>3, <2>4, <2>5, <2>6, NewestRejoins
<1> QED
  BY <1>11, <1>12

LEMMA NewestStep ==
  ASSUME TypeInv, AiredInv, NewestInv, [Next]_vars PROVE NewestInv'
<1>1. TypeInv' /\ now' \in Nat /\ now \in Nat
  BY TypeStep DEF TypeInv, ClockInv
<1>2. CASE Tick \/ Restart \/ UNCHANGED vars
  <2>1. truth' = truth /\ rows' = rows /\ job' = job /\ now <= now'
    <3>1. CASE Tick
      BY <1>1, <3>1 DEF Tick
    <3>2. CASE Restart
      BY <1>1, <3>2 DEF Restart
    <3>3. CASE UNCHANGED vars
      BY <1>1, <3>3 DEF vars
    <3> QED
      BY <1>2, <3>1, <3>2, <3>3
  <2> QED
    BY <1>1, <2>1, NewestUntouched
<1>4. ASSUME NEW n \in Garble, BeginMerge(n) PROVE NewestInv'
  <2>1. /\ truth' = truth /\ rows' = rows /\ now' = now
        /\ job = None /\ job' = [bad |-> n, step |-> "update"]
    BY <1>4 DEF BeginMerge
  <2>2. job'.step # "delete"
    BY <2>1
  <2> QED
    BY <1>1, <2>1, <2>2, NewestUntouched
<1>5. ASSUME NEW j \in Garble, DropJunk(j) PROVE NewestInv'
  <2>1. /\ ~IsReal(j) /\ job = None /\ job' = None
        /\ \A n \in Name, k \in Cond : rows'[n][k] = IF n = j THEN None ELSE rows[n][k]
    BY <1>5, DropJunkIs
  <2>2. truth' = truth /\ now' = now
    BY <1>5 DEF DropJunk
  <2>3. \A n \in Name, k \in Cond : IsReal(n) => rows'[n][k] = rows[n][k]
    BY <2>1
  <2> QED
    BY <1>1, <2>1, <2>2, <2>3, NewestUntouched
<1>6. CASE MergeUpdate \/ MergeDelete \/ MergeRename \/ MergeDies
  BY <1>6, NewestUpdate, NewestDelete, NewestRename, NewestDies
<1>7. CASE Prune
  BY <1>1, <1>7, NewestPrune
<1>8. ASSUME NEW seg \in Segments, Hear(seg) PROVE NewestInv'
  <2>1. truth' = truth /\ rows' = rows /\ job' = job /\ now' = now
    BY <1>8 DEF Hear
  <2> QED
    BY <1>1, <2>1, NewestUntouched
<1>9. ASSUME NEW times \in 1..2, Record(times) PROVE NewestInv'
  BY <1>1, <1>9, NewestRecord
<1> QED
  BY <1>2, <1>4, <1>5, <1>6, <1>7, <1>8, <1>9 DEF Next, Merge

-----------------------------------------------------------------------------
(* The theorems. *)

LEMMA InitHolds == Init => IInv
<1> SUFFICES ASSUME Init PROVE IInv
  OBVIOUS
<1>1. TypeInv
  BY InitTyped
<1>2. /\ pending = <<>> /\ job = None /\ now = Stale + 1
      /\ \A n \in Name, k \in Cond : rows[n][k] = None /\ voters[n][k] = <<>>
      /\ \A c \in City, k \in Cond : truth[c][k].count = 0 /\ truth[c][k].drift = 0
      /\ \A c \in City, k \in Cond : truth[c][k].at = 0 /\ truth[c][k].values = {}
  BY DEF Init, NoRows, Unheard
<1>3. CountInv
  <2> SUFFICES ASSUME NEW c \in City, NEW k \in Cond PROVE Tally(Spellings(c), k) = 0
    BY <1>2 DEF CountInv
  <2>1. Spellings(c) \in SUBSET Name
    BY CanonIs
  <2>2. \A n \in Spellings(c) : SightingsOf(k)[n] = 0
    BY <1>2, <2>1 DEF SightingsOf, Sightings
  <2> QED
    BY <1>1, <2>1, <2>2, TallyIs, TotalZero
<1>4. split \in BOOLEAN
  BY Zenon DEF Init
<1>5. NewestInv
  <2>1. 0 < now
    BY <1>2, ConditionsAssumption
  <2> QED
    BY <1>2, <2>1, CanonIs DEF NewestInv, NewestOf, Counts
<1>6. AiredInv
  BY <1>2 DEF AiredInv, VotesAired, ReadingsAired
<1>7. WindInv
  <2>1. Primary \in Name /\ "wind" \in Cond /\ "speed" \in Cond /\ Len(pending) = 0
    BY <1>2, ConditionsAssumption, CondIs DEF Name
  <2>2. SpeedLast(pending) /\ WindFirst(pending)
    BY <1>2, <2>1 DEF SpeedLast, WindFirst
  <2> QED
    BY <1>2, <1>4, <2>1, <2>2 DEF WindInv, HomeOnly, SpeedNext
<1> QED
  BY <1>1, <1>3, <1>4, <1>5, <1>6, <1>7 DEF IInv

\* The invariant is inductive.
LEMMA Invariance == Spec => []IInv
<1>1. IInv /\ [Next]_vars => IInv'
  BY TypeStep, SplitStep, CountStep, NewestStep, AiredStep, WindStep DEF IInv
<1> QED
  BY InitHolds, <1>1, PTL DEF Spec

\* Every variable stays in its range: no clock of a vote, a row or a reading is ahead of the
\* service's, no voter outgrows its depth, the merge works on names that have a correction.
THEOREM TypeCorrect == Spec => []TypeOK
<1>1. ASSUME IInv PROVE TypeOK
  <2>1. TypeInv
    BY <1>1 DEF IInv
  <2>2. ServiceType
    <3>1. ASSUME NEW n \in Name, NEW k \in Cond
          PROVE  /\ voters[n][k] \in Seq([value : Value, at : 0..now])
                 /\ Len(voters[n][k]) <= MaxLen[k]
      <4> DEFINE v == voters[n][k]
                 T == [value : Value, at : Nat]
                 U == [value : Value, at : 0..now]
      <4>1. v \in Seq(T) /\ Len(v) <= MaxLen[k] /\ \A i \in DOMAIN v : v[i].at <= now
        BY <2>1 DEF TypeInv, VoteInv, GoodVoters, SamplesOf
      <4>2. \A s \in T : s.at <= now => s \in U
        BY <2>1 DEF TypeInv, ClockInv
      <4> HIDE DEF v, T, U
      <4>3. \A i \in 1..Len(v) : v[i] \in U
        BY <4>1, <4>2
      <4>4. v \in Seq(U)
        BY <4>1, <4>3, LenProperties
      <4> QED
        BY <4>1, <4>4 DEF v, U
    <3>2. recent \subseteq [name : Name, cond : Cond, value : Value, at : 0..now]
      BY <2>1 DEF TypeInv, RecentInv, Airing, ClockInv
    <3> QED
      BY <2>1, <3>1, <3>2 DEF ServiceType, TypeInv, ClockInv, PendingInv, GoodReadings
  <2>3. TableType
    BY <2>1 DEF TableType, TypeInv, RowsInv, JobInv
  <2>4. AuxType
    <3>1. ASSUME NEW c \in City, NEW k \in Cond
          PROVE  truth[c][k] \in [count : Int, drift : Int, at : 0..now, values : SUBSET Value]
      BY <2>1 DEF TypeInv, TruthInv, Truth, ClockInv
    <3>2. truth \in [City -> [Cond -> Truth]]
      BY <2>1 DEF TypeInv, TruthInv
    <3>3. truth \in [City -> [Cond -> [count : Int, drift : Int, at : 0..now, values : SUBSET Value]]]
      BY <3>1, <3>2
    <3>4. split \in BOOLEAN
      BY <1>1, Zenon DEF IInv
    <3> QED
      BY <3>3, <3>4, Zenon DEF AuxType
  <2> QED
    BY <2>2, <2>3, <2>4 DEF TypeOK
<1>2. IInv => TypeOK
  BY <1>1
<1> QED
  BY Invariance, <1>2, PTL

\* Whenever no merge is under way, the sightings of a city over all its spellings are its
\* readings recorded and not pruned, off by just as much as repeated statements, readings in
\* a merge's gap and jobs that died there account for: for every order of upserts, merges,
\* junk and prunes.
THEOREM SightingsCounted == Spec => []SightingsAreAirings
<1>1. IInv => SightingsAreAirings
  BY DEF IInv, CountInv, SightingsAreAirings
<1> QED
  BY Invariance, <1>1, PTL

\* The newest reading of a city outlives every merge of its spellings, unless it was recorded
\* in a merge's gap.
THEOREM NewestKeeps == Spec => []NewestSurvives
<1>1. IInv => NewestSurvives
  BY DEF IInv, NewestInv, NewestOf, IsNewest, Counts, NewestSurvives
<1> QED
  BY Invariance, <1>1, PTL

\* What is recorded was on the air within Stale, across restarts that prime the votes.
THEOREM RecordedAired == Spec => []RecordedWasAired
<1>1. IInv => RecordedWasAired
  BY DEF IInv, AiredInv, ReadingsAired, InAir, RecordedWasAired
<1> QED
  BY Invariance, <1>1, PTL

\* Between two segments the wind speed in the table is that of the wind in the table, unless
\* the process died between the two and no speed came since.
THEOREM WindsAgree == Spec => []WindAgrees
<1>1. IInv => WindAgrees
  BY DEF IInv, WindInv, SpeedNext, SpeedPending, WindAgrees
<1> QED
  BY Invariance, <1>1, PTL

=============================================================================
