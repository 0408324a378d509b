---------------------------- MODULE ForecastProofs ----------------------------
(***************************************************************************)
(* Theorems about Forecast, for every text, every list of periods and      *)
(* areas and every bound: what is served is what the votes say, neither a  *)
(* restart nor the age of a value makes it otherwise, and a value is voted *)
(* onto the period it was said of.                                         *)
(***************************************************************************)
EXTENDS Forecast, FiniteSetTheorems, SequenceTheorems, TLAPS

-----------------------------------------------------------------------------
(* Induction on the naturals, in the first-order form the provers can use. *)

\* A set of naturals that is not empty has a least element.
LEMMA LeastNat ==
  ASSUME NEW T \in SUBSET Nat, T # {}
  PROVE  \E x \in T : \A y \in T : x <= y
<1>1. PICK x \in T : \A y \in T : ~ (<<y, x>> \in OpToRel(<, Nat))
  BY NatLessThanWellFounded, WFMin
<1>2. \A y \in T : ~ (y < x)
  BY <1>1 DEF OpToRel
<1> QED
  BY <1>2

\* A set of naturals that is not empty and has a bound has a greatest element.
LEMMA GreatestNat ==
  ASSUME NEW n \in Nat, NEW T \in SUBSET (0..n), T # {}
  PROVE  \E x \in T : \A y \in T : y <= x
<1> DEFINE U == {n - t : t \in T}
<1>1. U \in SUBSET Nat /\ U # {}
  <2>1. \A t \in T : n - t \in Nat
    OBVIOUS
  <2> QED
    BY <2>1
<1>2. PICK u \in U : \A y \in U : u <= y
  BY <1>1, LeastNat
<1>3. PICK x \in T : u = n - x
  OBVIOUS
<1>4. \A y \in T : n - x <= n - y
  BY <1>2, <1>3
<1> QED
  BY <1>4

\* the first-order form of induction, for a set in place of a predicate.
LEMMA SetInduction ==
  ASSUME NEW S, 0 \in S, \A n \in Nat : n \in S => n + 1 \in S
  PROVE  Nat \subseteq S
<1> SUFFICES ASSUME Nat \ S # {} PROVE FALSE
  OBVIOUS
<1>1. PICK x \in Nat \ S : \A y \in Nat \ S : x <= y
  BY LeastNat
<1>2. x # 0 /\ x - 1 \in Nat /\ x - 1 \in S
  BY <1>1
<1>3. (x - 1) + 1 \in S
  BY <1>2
<1> QED
  BY <1>1, <1>3

\* The same up to a bound.
LEMMA BoundedInduction ==
  ASSUME NEW n \in Nat, NEW S, 0 \in S, \A i \in 1..n : i - 1 \in S => i \in S
  PROVE  0..n \subseteq S
<1> DEFINE U == {i \in Nat : i <= n => i \in S}
<1>1. 0 \in U
  OBVIOUS
<1>2. ASSUME NEW i \in Nat, i \in U PROVE i + 1 \in U
  <2>1. CASE i + 1 <= n
    <3>1. i \in S /\ i + 1 \in 1..n /\ (i + 1) - 1 = i
      BY <1>2, <2>1
    <3> QED
      BY <3>1
  <2>2. CASE ~ (i + 1 <= n)
    BY <1>2, <2>2
  <2> QED
    BY <2>1, <2>2
<1> HIDE DEF U
<1>3. Nat \subseteq U
  BY <1>1, <1>2, SetInduction
<1> QED
  BY <1>3 DEF U

\* A recursion on 0..n whose step stays in T has a solution.
Solvable(T, base, n, step) ==
  \E f \in [0..n -> T] : f[0] = base /\ \A i \in 1..n : f[i] = step[<<f[i - 1], i>>]

LEMMA Recursion ==
  ASSUME NEW T, NEW base \in T, NEW n \in Nat, NEW step \in [T \X (1..n) -> T]
  PROVE  Solvable(T, base, n, step)
<1> DEFINE Solves(f, k) == f[0] = base /\ \A i \in 1..k : f[i] = step[<<f[i - 1], i>>]
           S == {k \in 0..n : \E f \in [0..k -> T] : Solves(f, k)}
<1>1. 0 \in S
  <2> DEFINE f == [i \in 0..0 |-> base]
  <2>1. f \in [0..0 -> T] /\ Solves(f, 0)
    OBVIOUS
  <2> HIDE DEF f, Solves
  <2> QED
    BY <2>1
<1>2. ASSUME NEW k \in 1..n, k - 1 \in S PROVE k \in S
  <2>1. PICK f \in [0..(k - 1) -> T] : Solves(f, k - 1)
    BY <1>2
  <2> DEFINE g == [i \in 0..k |-> IF i = k THEN step[<<f[k - 1], k>>] ELSE f[i]]
  <2>2. f[k - 1] \in T /\ step[<<f[k - 1], k>>] \in T
    OBVIOUS
  <2>3. g \in [0..k -> T]
    BY <2>2
  <2>4. \A i \in 0..(k - 1) : g[i] = f[i]
    OBVIOUS
  <2>5. g[k] = step[<<f[k - 1], k>>]
    OBVIOUS
  <2> HIDE DEF g
  <2>6. Solves(g, k)
    <3>1. g[0] = base
      BY <2>1, <2>4
    <3>2. ASSUME NEW i \in 1..k PROVE g[i] = step[<<g[i - 1], i>>]
      <4>1. CASE i = k
        BY <2>4, <2>5, <4>1
      <4>2. CASE i # k
        <5>1. i \in 1..(k - 1) /\ i \in 0..(k - 1) /\ i - 1 \in 0..(k - 1)
          BY <4>2
        <5> QED
          BY <2>1, <2>4, <5>1
      <4> QED
        BY <4>1, <4>2
    <3> QED
      BY <3>1, <3>2
  <2> QED
    BY <2>3, <2>6
<1> HIDE DEF S
<1>3. n \in S
  <2>1. 0..n \subseteq S
    BY <1>1, <1>2, BoundedInduction
  <2> QED
    BY <2>1
<1> QED
  BY <1>3 DEF S, Solvable

-----------------------------------------------------------------------------
(* The voter: for every deque, depth and staleness. *)

\* The samples of a voter whose values are in V.
SamplesOf(V) == Seq([value : V, at : Nat])

\* A tally is a number, no greater than the number of samples that vote.
LEMMA VotesBounded ==
  ASSUME NEW samples, NEW n \in Nat, NEW pool \in SUBSET (1..n), NEW v
  PROVE  Votes(samples, pool, v) \in 0..n
<1> DEFINE S == {i \in pool : samples[i].value = v}
<1>1. IsFiniteSet(1..n) /\ Cardinality(1..n) = n
  BY FS_Interval
<1>2. S \in SUBSET (1..n)
  OBVIOUS
<1> HIDE DEF S
<1>3. IsFiniteSet(S) /\ Cardinality(S) <= Cardinality(1..n)
  BY <1>1, <1>2, FS_Subset
<1>4. Cardinality(S) \in Nat
  BY <1>3, FS_CardinalityType
<1> QED
  BY <1>1, <1>3, <1>4 DEF Votes, S

\* at least as many votes as any other, and no sample with as many was heard after it.
THEOREM BestLeads ==
  ASSUME NEW V, NEW samples \in SamplesOf(V), Len(samples) >= 1, NEW stale \in Nat
  PROVE  \E i \in Counted(samples, stale) :
           /\ Best(samples, stale) = samples[i].value
           /\ Leads(samples, Counted(samples, stale), i)
           /\ \A j \in Counted(samples, stale) :
                Leads(samples, Counted(samples, stale), j) => j <= i
<1> DEFINE n == Len(samples)
           pool == Counted(samples, stale)
           V0(i) == Votes(samples, pool, samples[i].value)
<1>0. n \in Nat \ {0} /\ \A i \in 1..n : samples[i] \in [value : V, at : Nat]
  <2> DEFINE T == [value : V, at : Nat]
  <2>1. samples \in Seq(T)
    BY DEF SamplesOf
  <2> HIDE DEF T
  <2>2. n \in Nat \ {0} /\ \A i \in 1..n : samples[i] \in T
    BY <2>1, EmptySeq
  <2> QED
    BY <2>2 DEF T
<1>1. n \in 1..n /\ samples[n].at \in Nat
  BY <1>0
<1>2. pool \in SUBSET (1..n) /\ n \in pool
  BY <1>0, <1>1 DEF Counted, SamplesOf
<1> HIDE DEF n, pool, V0
<1>3. \A i \in pool : V0(i) \in 0..n
  BY <1>0, <1>2, VotesBounded DEF V0
<1> DEFINE counts == {V0(i) : i \in pool}
<1>4. counts \in SUBSET (0..n) /\ counts # {}
  BY <1>2, <1>3
<1> HIDE DEF counts
<1>5. PICK most \in counts : \A c \in counts : c <= most
  BY <1>0, <1>4, GreatestNat
<1> DEFINE leaders == {i \in pool : Leads(samples, pool, i)}
<1>6. leaders # {}
  <2>1. PICK i \in pool : most = V0(i)
    BY <1>5 DEF counts
  <2>2. \A j \in pool : V0(j) <= V0(i)
    BY <1>5, <2>1 DEF counts
  <2>3. Leads(samples, pool, i)
    BY <2>2 DEF Leads, V0
  <2> QED
    BY <2>3
<1>7. leaders \in SUBSET (0..n)
  <2>1. \A i \in 1..n : i \in 0..n
    BY <1>0
  <2> QED
    BY <1>2, <2>1
<1> HIDE DEF leaders
<1>8. PICK i \in leaders : \A j \in leaders : j <= i
  BY <1>0, <1>6, <1>7, GreatestNat
<1> DEFINE Last(k) == Leads(samples, pool, k) /\ \A j \in pool : Leads(samples, pool, j) => j <= k
<1>9. \E k \in pool : Last(k)
  BY <1>8 DEF leaders
<1>10. (CHOOSE k \in pool : Last(k)) \in pool /\ Last(CHOOSE k \in pool : Last(k))
  BY <1>9
<1>11. Best(samples, stale) = samples[CHOOSE k \in pool : Last(k)].value
  BY DEF Best, pool
<1> QED
  BY <1>10, <1>11 DEF pool

\* best returns a value that was heard.
LEMMA BestIsHeard ==
  ASSUME NEW V, NEW samples \in SamplesOf(V), Len(samples) >= 1, NEW stale \in Nat
  PROVE  Best(samples, stale) \in V
<1>1. PICK i \in Counted(samples, stale) : Best(samples, stale) = samples[i].value
  BY BestLeads
<1>2. samples[i] \in [value : V, at : Nat]
  <2> DEFINE T == [value : V, at : Nat]
  <2>1. samples \in Seq(T) /\ i \in DOMAIN samples
    BY DEF Counted, SamplesOf
  <2> HIDE DEF T
  <2>2. samples[i] \in T
    BY <2>1
  <2> QED
    BY <2>2 DEF T
<1> QED
  BY <1>1, <1>2

-----------------------------------------------------------------------------
(* The invariant. *)

Ballots == Seq([value : ValueOf, at : {0}])

\* The station and the slots.
VoterType(v) ==
  /\ v \in [Period -> [Field -> Ballots]]
  /\ \A p \in Period, f \in Field : Len(v[p][f]) <= MaxLen
Ages == [Period -> [Field -> 0..Never]]
TypeInv ==
  /\ StationType /\ TableType /\ AuxType
  /\ current \in Period \cup {None} /\ city \in Area
  /\ VoterType(voters) /\ age \in Ages

\* While an issuance is written, the rows written are what the votes say, the others are
\* still missing; before the first row the old issuance stands.
IssuedInv ==
  /\ opened => writing # {}
  /\ writing = {} => Rows(Current) = {} \/ \E a \in Area : latest[a] = Current
  /\ writing # {} /\ ~opened => writing = Rows(Current)
  /\ opened => \A p \in Period : latest[city][p] = IF p \in writing THEN Blank[p] ELSE Current[p]

\* A value stated lately has a vote, and the aggregator does not think it older than it is.
KeptInv ==
  \A p \in Period, f \in Field :
    silence[p][f] < Never => \/ <<p, f>> \in torn
                             \/ voters[p][f] # <<>> /\ age[p][f] <= silence[p][f]

\* In its first life it knows the age of every value.
AgedInv ==
  deaths = 0 => \A p \in Period, f \in Field : voters[p][f] # <<>> => age[p][f] = silence[p][f]

IInv == TypeInv /\ IssuedInv /\ KeptInv /\ AgedInv

-----------------------------------------------------------------------------
(* The constants and the clauses of a segment. *)

LEMMA Consts ==
  /\ MaxLen \in Nat \ {0} /\ StalePasses \in Nat /\ MaxLost \in Nat /\ MaxDeaths \in Nat
  /\ Never \in Nat /\ Never = StalePasses + 1
  /\ None \notin Period /\ None \notin Area /\ None \notin ValueOf
  /\ Field = {"high", "low", "precip"} /\ BootArea \in Area
BY ForecastAssumption DEF Never, Field

LEMMA ClauseIs ==
  ASSUME NEW c \in Clause
  PROVE  /\ c.kind = "area" => c.x \in Area
         /\ c.kind = "header" => c.x \in Period
         /\ c.kind \in Field \cup {"steady"} => c.x \in ValueOf
<1>1. /\ "area" \notin Field \cup {"steady"} /\ "recap" \notin Field \cup {"steady"}
      /\ "header" \notin Field \cup {"steady"} /\ "area" # "recap" /\ "area" # "header" /\ "recap" # "header"
  BY DEF Field
<1>2. CASE c \in [kind : {"area"}, x : Area]
  BY <1>1, <1>2
<1>3. CASE c \in [kind : {"recap"}, x : {None}]
  BY <1>1, <1>3
<1>4. CASE c \in [kind : {"header"}, x : Period]
  BY <1>1, <1>4
<1>5. CASE c \in [kind : Field \cup {"steady"}, x : ValueOf]
  <2>1. c.kind \in Field \cup {"steady"} /\ c.x \in ValueOf
    BY <1>5, Zenon
  <2> QED
    BY <1>1, <2>1
<1> QED
  BY <1>2, <1>3, <1>4, <1>5 DEF Clause

\* The loop stays within the text.
LEMMA Wraps ==
  ASSUME NEW n \in Nat \ {0}, NEW i \in Nat
  PROVE  (i % n) + 1 \in 1..n
OBVIOUS

LEMMA TextIs ==
  ASSUME StationType
  PROVE  /\ readout \in Seq(Clause) /\ Len(readout) \in Nat \ {0} /\ pos \in 1..Len(readout)
<1>1. readout \in Seq(Clause) /\ readout # <<>>
  BY ForecastAssumption DEF StationType
<1> QED
  BY <1>1, LenProperties, EmptySeq DEF StationType

LEMMA ClausesTyped ==
  ASSUME StationType, NEW n \in Nat, NEW seg, seg = Clauses(pos, n)
  PROVE  /\ seg \in Seq(Clause) /\ Len(seg) = n /\ DOMAIN seg = 1..n
         /\ \A k \in 1..n : seg[k] \in Clause
<1>1. \A k \in 1..n : readout[((pos + k - 2) % Len(readout)) + 1] \in Clause
  <2> TAKE k \in 1..n
  <2>1. pos + k - 2 \in Nat
    BY TextIs
  <2>2. ((pos + k - 2) % Len(readout)) + 1 \in 1..Len(readout)
    BY <2>1, TextIs, Wraps
  <2> QED
    BY <2>2, TextIs, ElementOfSeq
<1>2. seg \in [1..n -> Clause]
  BY <1>1 DEF Clauses
<1> QED
  BY <1>2

\* The first and the last of a set of positions.
LEMMA FirstIs ==
  ASSUME NEW n \in Nat, NEW S \in SUBSET (1..n), S # {}
  PROVE  FirstOf(S) \in S /\ \A j \in S : FirstOf(S) <= j
<1>1. S \in SUBSET Nat
  OBVIOUS
<1>2. \E i \in S : \A j \in S : i <= j
  BY <1>1, LeastNat
<1> QED
  BY <1>2 DEF FirstOf

LEMMA LastIs ==
  ASSUME NEW n \in Nat, NEW S \in SUBSET (1..n), S # {}
  PROVE  LastOf(S) \in S /\ \A j \in S : j <= LastOf(S)
<1>1. S \in SUBSET (0..n)
  OBVIOUS
<1>2. \E i \in S : \A j \in S : j <= i
  BY <1>1, GreatestNat
<1> QED
  BY <1>2 DEF LastOf

-----------------------------------------------------------------------------
(* The votes of a segment. *)

\* A segment of clauses.
IsSegment(seg) == seg \in Seq(Clause) /\ Len(seg) \in Nat /\ DOMAIN seg = 1..Len(seg)

LEMMA HeaderIs ==
  ASSUME NEW seg, IsSegment(seg), NEW S \in SUBSET Headers(seg), S # {}
  PROVE  /\ S \in SUBSET (1..Len(seg))
         /\ seg[FirstOf(S)].x \in Period /\ seg[LastOf(S)].x \in Period
<1>1. S \in SUBSET (1..Len(seg))
  BY DEF Headers, IsSegment
<1>2. FirstOf(S) \in S /\ LastOf(S) \in S
  BY <1>1, FirstIs, LastIs DEF IsSegment
<1>3. \A i \in S : seg[i] \in Clause /\ seg[i].kind = "header"
  BY <1>1, ElementOfSeq DEF Headers, IsSegment
<1> QED
  BY <1>1, <1>2, <1>3, ClauseIs

LEMMA PeriodAtIs ==
  ASSUME NEW seg, IsSegment(seg), NEW i, current \in Period \cup {None}
  PROVE  Carried(seg) \in Period \cup {None} /\ PeriodAt(seg, i) \in Period \cup {None}
<1>1. Carried(seg) \in Period \cup {None}
  BY DEF Carried
<1> DEFINE before == {h \in Headers(seg) : h <= i}
<1>2. before # {} => seg[LastOf(before)].x \in Period
  <2>1. before \in SUBSET Headers(seg)
    OBVIOUS
  <2> HIDE DEF before
  <2> QED
    BY <2>1, HeaderIs
<1>3. PeriodAt(seg, i) = (IF before # {} THEN seg[LastOf(before)].x
        ELSE IF Headers(seg) = {} \/ Carried(seg) = Pred[seg[FirstOf(Headers(seg))].x]
               THEN Carried(seg) ELSE None)
  BY DEF PeriodAt
<1> HIDE DEF before
<1> QED
  BY <1>1, <1>2, <1>3

LEMMA StatedIs ==
  ASSUME NEW seg, IsSegment(seg), NEW s \in 1..Len(seg), NEW f \in Field \cup {"steady"}
  PROVE  Stated(seg, s, f) \in SUBSET ValueOf
<1> DEFINE S == {i \in s..Len(seg) : /\ \A h \in Headers(seg) : h <= s \/ i < h
                                     /\ seg[i].kind = f}
<1>1. Stated(seg, s, f) = IF S = {} THEN {} ELSE {seg[FirstOf(S)].x}
  BY DEF Stated
<1>2. S \in SUBSET (1..Len(seg)) /\ \A i \in S : seg[i].kind = f
  BY DEF IsSegment
<1> HIDE DEF S
<1>3. S # {} => seg[FirstOf(S)].x \in ValueOf
  <2> HAVE S # {}
  <2>1. FirstOf(S) \in S
    BY <1>2, FirstIs DEF IsSegment
  <2>2. seg[FirstOf(S)] \in Clause /\ seg[FirstOf(S)].kind = f
    BY <1>2, <2>1, ElementOfSeq DEF IsSegment
  <2> QED
    BY <2>2, ClauseIs
<1> QED
  BY <1>1, <1>3

LEMMA RoutesIs ==
  ASSUME NEW vs, NEW seg, IsSegment(seg), NEW s \in 1..Len(seg), NEW f \in Field
  PROVE  Routes(vs, seg, s)[f] \in SUBSET ValueOf
<1>1. /\ Stated(seg, s, "steady") \in SUBSET ValueOf /\ Stated(seg, s, "high") \in SUBSET ValueOf
      /\ Stated(seg, s, "low") \in SUBSET ValueOf /\ Stated(seg, s, "precip") \in SUBSET ValueOf
  BY StatedIs DEF Field
<1> QED
  BY <1>1 DEF Routes

\* One more vote.
LEMMA CastVoteIs ==
  ASSUME NEW votes \in Ballots, Len(votes) <= MaxLen, NEW values \in SUBSET ValueOf
  PROVE  /\ CastVote(votes, values) \in Ballots /\ Len(CastVote(votes, values)) <= MaxLen
         /\ values = {} => CastVote(votes, values) = votes
         /\ values # {} => CastVote(votes, values) # <<>>
<1>1. CASE values = {}
  BY <1>1 DEF CastVote
<1>2. CASE values # {}
  <2> DEFINE v == CHOOSE w \in values : TRUE
             c == Cast(votes, v, 0, MaxLen)
             B == [value : ValueOf, at : {0}]
  <2>1. v \in ValueOf
    BY <1>2
  <2> HIDE DEF v
  <2>2. CastVote(votes, values) = c
    BY <1>2 DEF CastVote, v
  <2>3. [value |-> v, at |-> 0] \in B
    BY <2>1
  <2>4. votes \in Seq(B) /\ Len(votes) \in Nat
    BY LenProperties DEF Ballots
  <2>5. c = Append(IF Len(votes) < MaxLen THEN votes ELSE Tail(votes), [value |-> v, at |-> 0])
    BY DEF Cast
  <2> DEFINE e == [value |-> v, at |-> 0]
             kept == IF Len(votes) < MaxLen THEN votes ELSE Tail(votes)
  <2> HIDE DEF B, c
  <2>6. kept \in Seq(B) /\ Len(kept) \in 0..(MaxLen - 1)
    <3>1. CASE Len(votes) < MaxLen
      BY <2>4, <3>1, Consts
    <3>2. CASE ~ (Len(votes) < MaxLen)
      <4>1. votes # <<>> /\ Len(votes) = MaxLen
        BY <2>4, <3>2, Consts
      <4>2. Tail(votes) \in Seq(B) /\ Len(Tail(votes)) = MaxLen - 1
        BY <2>4, <4>1, HeadTailProperties
      <4> QED
        BY <3>2, <4>2, Consts
    <3> QED
      BY <3>1, <3>2
  <2> HIDE DEF kept, e
  <2>7. c = Append(kept, e) /\ e \in B
    BY <2>3, <2>5 DEF kept, e
  <2>8. c \in Seq(B) /\ Len(c) = Len(kept) + 1
    BY <2>6, <2>7, AppendProperties
  <2>9. Len(c) <= MaxLen /\ c # <<>>
    BY <2>6, <2>8, Consts
  <2> QED
    BY <1>2, <2>2, <2>8, <2>9 DEF Ballots, B
<1> QED
  BY <1>1, <1>2

\* The votes of part of a segment: the slots it names have a vote, the others are as before.
Keeps(done) ==
  /\ VoterType(done.votes)
  /\ \A p \in Period, f \in Field :
       IF <<p, f>> \in done.slots THEN done.votes[p][f] # <<>> ELSE done.votes[p][f] = voters[p][f]
Routings == {done \in [votes : [Period -> [Field -> Ballots]], slots : SUBSET Slots] : Keeps(done)}

LEMMA RouteSpanIs ==
  ASSUME NEW seg, IsSegment(seg), NEW s \in 1..Len(seg), current \in Period \cup {None},
         NEW done \in Routings
  PROVE  RouteSpan(done, seg, s) \in Routings
<1> DEFINE p == PeriodAt(seg, s)
           vs == done.votes
           cast == Routes(vs, seg, s)
           new == [vs EXCEPT ![p] = [f \in Field |-> CastVote(@[f], cast[f])]]
           more == done.slots \cup {<<p, f>> : f \in {g \in Field : cast[g] # {}}}
<1>1. RouteSpan(done, seg, s) = IF p = None THEN done ELSE [votes |-> new, slots |-> more]
  BY DEF RouteSpan
<1>2. p \in Period \cup {None}
  BY PeriodAtIs
<1>3. vs \in [Period -> [Field -> Ballots]] /\ done.slots \in SUBSET Slots /\ Keeps(done)
  BY DEF Routings
<1>4. \A f \in Field : cast[f] \in SUBSET ValueOf
  BY RoutesIs
<1>5. \A q \in Period, f \in Field : vs[q][f] \in Ballots /\ Len(vs[q][f]) <= MaxLen
  BY <1>3 DEF Keeps, VoterType
<1> HIDE DEF p, cast
<1>6. CASE p # None
  <2>1. p \in Period
    BY <1>2, <1>6
  <2> DEFINE voted == [f \in Field |-> CastVote(vs[p][f], cast[f])]
  <2>2. \A f \in Field :
          /\ voted[f] \in Ballots /\ Len(voted[f]) <= MaxLen
          /\ cast[f] = {} => voted[f] = vs[p][f]
          /\ cast[f] # {} => voted[f] # <<>>
    BY <1>4, <1>5, <2>1, CastVoteIs
  <2>3. new = [vs EXCEPT ![p] = voted]
    OBVIOUS
  <2>4. voted \in [Field -> Ballots]
    BY <2>2
  <2> HIDE DEF voted, new
  <2>5. new \in [Period -> [Field -> Ballots]] /\ new[p] = voted /\ \A q \in Period \ {p} : new[q] = vs[q]
    BY <1>3, <2>1, <2>3, <2>4
  <2>6. more \in SUBSET Slots
    BY <1>3, <2>1 DEF Slots
  <2>7. \A q \in Period, f \in Field :
          <<q, f>> \in more <=> <<q, f>> \in done.slots \/ (q = p /\ cast[f] # {})
    OBVIOUS
  <2> HIDE DEF more
  <2>8. VoterType(new)
    <3>1. \A q \in Period, f \in Field : Len(new[q][f]) <= MaxLen
      <4> TAKE q \in Period, f \in Field
      <4>1. CASE q = p
        BY <2>2, <2>5, <4>1
      <4>2. CASE q # p
        BY <1>5, <2>5, <4>2
      <4> QED
        BY <4>1, <4>2
    <3> QED
      BY <2>5, <3>1 DEF VoterType
  <2>9. ASSUME NEW q \in Period, NEW f \in Field
        PROVE  IF <<q, f>> \in more THEN new[q][f] # <<>> ELSE new[q][f] = voters[q][f]
    <3>1. IF <<q, f>> \in done.slots THEN vs[q][f] # <<>> ELSE vs[q][f] = voters[q][f]
      BY <1>3 DEF Keeps
    <3>2. CASE q = p
      <4>1. new[q][f] = voted[f]
        BY <2>5, <3>2
      <4> QED
        BY <2>2, <2>7, <3>1, <3>2, <4>1
    <3>3. CASE q # p
      BY <2>5, <2>7, <3>1, <3>3
    <3> QED
      BY <3>2, <3>3
  <2> DEFINE r == [votes |-> new, slots |-> more]
  <2>10. r \in [votes : [Period -> [Field -> Ballots]], slots : SUBSET Slots] /\ r.votes = new /\ r.slots = more
    BY <2>5, <2>6
  <2>11. RouteSpan(done, seg, s) = r
    BY <1>1, <1>6 DEF new, more
  <2> HIDE DEF r
  <2>12. Keeps(r)
    BY <2>8, <2>9, <2>10 DEF Keeps
  <2> QED
    BY <2>10, <2>11, <2>12 DEF Routings
<1> QED
  BY <1>1, <1>6

\* What every span keeps, the votes of a segment have.
LEMMA RoutedIn ==
  ASSUME NEW seg, IsSegment(seg), NEW T, [votes |-> voters, slots |-> {}] \in T,
         \A done \in T, s \in 1..Len(seg) : BeginsSpan(seg, s) => RouteSpan(done, seg, s) \in T
  PROVE  Routed(seg) \in T
<1> DEFINE n == Len(seg)
           base == [votes |-> voters, slots |-> {}]
           step == [q \in T \X (1..n) |-> IF BeginsSpan(seg, q[2]) THEN RouteSpan(q[1], seg, q[2]) ELSE q[1]]
           Def(f) == [i \in 0..n |-> IF i = 0 THEN base
                        ELSE IF BeginsSpan(seg, i) THEN RouteSpan(f[i - 1], seg, i) ELSE f[i - 1]]
           g == CHOOSE a : a = Def(a)
<1>1. n \in Nat
  BY DEF IsSegment
<1>2. base \in T
  OBVIOUS
<1>3. step \in [T \X (1..n) -> T]
  OBVIOUS
<1>4. Routed(seg) = g[n]
  BY DEF Routed
<1> HIDE DEF n, step, base
<1>5. PICK f \in [0..n -> T] : f[0] = base /\ \A i \in 1..n : f[i] = step[<<f[i - 1], i>>]
  <2>1. Solvable(T, base, n, step)
    BY <1>1, <1>2, <1>3, Recursion, Zenon
  <2> QED
    BY <2>1 DEF Solvable
<1>6. f = Def(f)
  <2>1. \A i \in 1..n : f[i] = IF BeginsSpan(seg, i) THEN RouteSpan(f[i - 1], seg, i) ELSE f[i - 1]
    <3> TAKE i \in 1..n
    <3>1. i - 1 \in 0..n
      BY <1>1
    <3>2. <<f[i - 1], i>> \in T \X (1..n)
      BY <3>1
    <3> QED
      BY <1>5, <3>2 DEF step
  <2>2. \A i \in 0..n : f[i] = Def(f)[i]
    BY <1>1, <1>5, <2>1
  <2> QED
    BY <2>2
<1>7. g = Def(g)
  BY <1>6
<1> HIDE DEF g
<1>8. g[0] = base /\ \A i \in 1..n : g[i] = IF BeginsSpan(seg, i) THEN RouteSpan(g[i - 1], seg, i) ELSE g[i - 1]
  BY <1>1, <1>7
<1>9. 0..n \subseteq {i \in 0..n : g[i] \in T}
  <2> DEFINE S == {i \in 0..n : g[i] \in T}
  <2>1. 0 \in S
    BY <1>1, <1>2, <1>8
  <2>2. ASSUME NEW i \in 1..n, i - 1 \in S PROVE i \in S
    <3>1. g[i - 1] \in T /\ i \in 0..n /\ i \in 1..Len(seg)
      BY <1>1, <2>2 DEF n
    <3>2. BeginsSpan(seg, i) => RouteSpan(g[i - 1], seg, i) \in T
      BY <3>1
    <3> QED
      BY <1>8, <3>1, <3>2
  <2> HIDE DEF S
  <2>3. 0..n \subseteq S
    BY <1>1, <2>1, <2>2, BoundedInduction
  <2> QED
    BY <2>3 DEF S
<1>10. n \in 0..n
  BY <1>1
<1> QED
  BY <1>4, <1>9, <1>10

LEMMA RoutedIs ==
  ASSUME NEW seg, IsSegment(seg), VoterType(voters), current \in Period \cup {None}
  PROVE  Routed(seg) \in Routings
<1> DEFINE base == [votes |-> voters, slots |-> {}]
<1>1. base \in [votes : [Period -> [Field -> Ballots]], slots : SUBSET Slots] /\ Keeps(base)
  BY DEF VoterType, Keeps
<1>2. base \in Routings
  BY <1>1 DEF Routings
<1> HIDE DEF base
<1>3. \A done \in Routings, s \in 1..Len(seg) : RouteSpan(done, seg, s) \in Routings
  BY RouteSpanIs
<1> QED
  BY <1>2, <1>3, RoutedIn DEF base

-----------------------------------------------------------------------------
(* The values. *)

LEMMA BallotsAre ==
  ASSUME NEW votes \in Ballots
  PROVE  votes \in SamplesOf(ValueOf) /\ Len(votes) \in Nat /\ (votes # <<>> => Len(votes) >= 1)
<1>1. votes \in Seq([value : ValueOf, at : {0}]) /\ Len(votes) \in Nat
  BY LenProperties DEF Ballots
<1>2. votes \in [1..Len(votes) -> [value : ValueOf, at : {0}]]
  BY <1>1, LenProperties
<1>3. votes \in [1..Len(votes) -> [value : ValueOf, at : Nat]]
  <2>1. [value : ValueOf, at : {0}] \subseteq [value : ValueOf, at : Nat]
    OBVIOUS
  <2> QED
    BY <1>2, <2>1, Zenon
<1>4. votes \in Seq([value : ValueOf, at : Nat])
  <2> DEFINE n == Len(votes)
             T == [value : ValueOf, at : Nat]
  <2>1. n \in Nat /\ votes \in [1..n -> T]
    BY <1>1, <1>3
  <2> HIDE DEF n, T
  <2>2. votes \in Seq(T)
    BY <2>1
  <2> QED
    BY <2>2 DEF T
<1>5. votes # <<>> => Len(votes) # 0
  BY <1>1, EmptySeq
<1> QED
  BY <1>1, <1>4, <1>5 DEF SamplesOf

\* A voted value is one that was stated; there is one when there are votes, lately cast.
LEMMA ValuesAre ==
  ASSUME NEW vs, VoterType(vs), NEW a \in Ages
  PROVE  /\ Values(vs, a) \in Rowss
         /\ \A p \in Period, f \in Field :
              Values(vs, a)[p][f] # None <=> vs[p][f] # <<>> /\ a[p][f] <= StalePasses
<1>1. ASSUME NEW p \in Period, NEW f \in Field, vs[p][f] # <<>>
      PROVE  Best(vs[p][f], 0) \in ValueOf /\ Best(vs[p][f], 0) # None
  <2>1. vs[p][f] \in Ballots
    BY DEF VoterType
  <2>2. Best(vs[p][f], 0) \in ValueOf
    BY <1>1, <2>1, BallotsAre, BestIsHeard
  <2> QED
    BY <2>2, Consts
<1>2. \A p \in Period, f \in Field :
        Values(vs, a)[p][f] = IF vs[p][f] # <<>> /\ a[p][f] <= StalePasses THEN Best(vs[p][f], 0) ELSE None
  BY DEF Values, Fresh
<1>3. \A p \in Period, f \in Field : Values(vs, a)[p][f] \in ValueOf \cup {None}
  BY <1>1, <1>2
<1>4. Values(vs, a) \in Rowss
  BY <1>3 DEF Values, Rowss
<1> QED
  BY <1>1, <1>2, <1>4

LEMMA RowsAre ==
  ASSUME NEW values \in Rowss
  PROVE  /\ Rows(values) \in SUBSET Period
         /\ \A p \in Period : p \notin Rows(values) => values[p] = Blank[p]
         /\ \A p \in Period, f \in Field : values[p][f] # None => p \in Rows(values)
<1>1. \A p \in Period, f \in Field : Blank[p][f] = None
  BY DEF Blank
<1> QED
  BY <1>1 DEF Rows

\* The vote of one is its value: what is primed is what was served.
LEMMA PrimedIs ==
  ASSUME NEW row \in [Field -> ValueOf \cup {None}], NEW f \in Field
  PROVE  /\ Primed(row, f) \in Ballots /\ Len(Primed(row, f)) <= MaxLen
         /\ Primed(row, f) = <<>> <=> row[f] = None
         /\ row[f] # None => Best(Primed(row, f), 0) = row[f]
<1>1. CASE row[f] = None
  BY <1>1, Consts DEF Primed, Ballots
<1>2. CASE row[f] # None
  <2> DEFINE v == row[f]
             b == <<[value |-> v, at |-> 0]>>
  <2>1. v \in ValueOf
    BY <1>2
  <2> HIDE DEF v
  <2>2. Primed(row, f) = b
    BY <1>2, Consts DEF Primed, Cast, v
  <2>3. b \in Ballots /\ Len(b) = 1 /\ b # <<>> /\ b[1].value = v /\ DOMAIN b = {1}
    BY <2>1 DEF Ballots
  <2> HIDE DEF b
  <2>4. PICK i \in Counted(b, 0) : Best(b, 0) = b[i].value
    BY <2>3, BallotsAre, BestLeads
  <2>5. i = 1
    BY <2>3 DEF Counted
  <2> QED
    BY <1>2, <2>2, <2>3, <2>4, <2>5, Consts DEF v
<1> QED
  BY <1>1, <1>2

-----------------------------------------------------------------------------
(* The steps. *)

\* The ages after a segment.
Aged(done, passed, a) ==
  [p \in Period |-> [f \in Field |->
     IF <<p, f>> \in done.slots THEN 0
     ELSE IF passed /\ voters[p][f] # <<>> THEN Older(a[p][f]) ELSE a[p][f]]]

LEMMA OlderIs ==
  ASSUME NEW a \in 0..Never
  PROVE  /\ Older(a) \in 0..Never /\ Older(a) >= a
         /\ \A b \in 0..Never : a <= b => Older(a) <= Older(b)
BY Consts DEF Older

LEMMA AgedIs ==
  ASSUME NEW done \in Routings, NEW passed \in BOOLEAN, NEW a \in Ages
  PROVE  /\ Aged(done, passed, a) \in Ages
         /\ \A p \in Period, f \in Field :
              Aged(done, passed, a)[p][f] =
                IF <<p, f>> \in done.slots THEN 0
                ELSE IF passed /\ voters[p][f] # <<>> THEN Older(a[p][f]) ELSE a[p][f]
<1>1. \A p \in Period, f \in Field : a[p][f] \in 0..Never /\ Older(a[p][f]) \in 0..Never /\ 0 \in 0..Never
  BY OlderIs, Consts DEF Ages
<1> QED
  BY <1>1 DEF Aged, Ages

\* What a segment does.
LEMMA HearIs ==
  ASSUME TypeInv, NEW n \in 1..MaxClauses, Hear(n)
  PROVE  /\ writing = {} /\ UNCHANGED <<readout, losses, deaths, opened, latest>>
         /\ pos' \in DOMAIN readout /\ current' \in Period \cup {None} /\ city' \in Area
         /\ gap' \in BOOLEAN
         /\ writing' = IF Values(voters, age) # Values(voters', age') THEN Rows(Values(voters', age')) ELSE {}
         /\ \E done \in Routings, passed \in BOOLEAN :
              /\ voters' = done.votes /\ torn' = torn \ done.slots
              /\ age' = Aged(done, passed, age) /\ silence' = Aged(done, passed, silence)
<1>1. n \in Nat /\ StationType
  BY ForecastAssumption DEF TypeInv
<1> DEFINE seg == Clauses(pos, n)
           done == Routed(seg)
           passed == "area" \in Kinds(seg)
<1>2. IsSegment(seg) /\ \A k \in 1..Len(seg) : seg[k] \in Clause
  BY <1>1, ClausesTyped DEF IsSegment
<1>3. /\ voters' = done.votes /\ torn' = torn \ done.slots
      /\ age' = Aged(done, passed, age) /\ silence' = Aged(done, passed, silence)
      /\ writing' = IF Changed(voters', age') THEN Rows(Values(voters', age')) ELSE {}
      /\ current' = IF Headers(seg) = {} THEN Carried(seg) ELSE seg[LastOf(Headers(seg))].x
      /\ gap' = (gap /\ Kinds(seg) \cap {"area", "recap", "header"} = {})
      /\ city' = IF passed THEN seg[FirstOf({i \in DOMAIN seg : seg[i].kind = "area"})].x ELSE city
      /\ Advance(n) /\ writing = {} /\ UNCHANGED <<readout, losses, deaths, opened, latest>>
  <2> DEFINE Does(s, d, b) ==
        /\ voters' = d.votes /\ age' = Aged(d, b, age)
        /\ silence' = Aged(d, b, silence) /\ torn' = torn \ d.slots
        /\ current' = (IF Headers(s) = {} THEN Carried(s) ELSE s[LastOf(Headers(s))].x)
        /\ gap' = (gap /\ Kinds(s) \cap {"area", "recap", "header"} = {})
        /\ city' = (IF b THEN s[FirstOf({i \in DOMAIN s : s[i].kind = "area"})].x ELSE city)
        /\ writing' = (IF Changed(d.votes, Aged(d, b, age)) THEN Rows(Values(d.votes, Aged(d, b, age))) ELSE {})
  <2>1. Does(seg, done, passed)
    BY DEF Hear, Aged
  <2>2. Advance(n) /\ writing = {} /\ UNCHANGED <<readout, losses, deaths, opened, latest>>
    BY DEF Hear
  <2> HIDE DEF seg, done, passed
  <2> QED
    BY <2>1, <2>2, Zenon
<1> HIDE DEF seg, done, passed
<1>4. done \in Routings
  BY <1>2, RoutedIs DEF TypeInv, done
<1>5. pos' \in DOMAIN readout
  <2>1. pos + n - 1 \in Nat
    BY <1>1, TextIs
  <2>2. ((pos + n - 1) % Len(readout)) + 1 \in 1..Len(readout)
    BY <2>1, <1>1, TextIs, Wraps
  <2>3. pos' \in 1..Len(readout)
    BY <1>3, <2>2 DEF Advance
  <2> QED
    BY <1>1, <2>3, TextIs
<1>6. current' \in Period \cup {None}
  BY <1>2, <1>3, PeriodAtIs, HeaderIs DEF TypeInv
<1>7. city' \in Area
  <2>1. CASE passed
    <3> DEFINE S == {i \in DOMAIN seg : seg[i].kind = "area"}
    <3>1. S # {} /\ S \in SUBSET (1..Len(seg))
      BY <1>2, <2>1 DEF passed, Kinds, IsSegment
    <3>2. FirstOf(S) \in S
      BY <1>2, <3>1, FirstIs DEF IsSegment
    <3>3. seg[FirstOf(S)].x \in Area
      BY <1>2, <3>1, <3>2, ClauseIs
    <3> QED
      BY <1>3, <2>1, <3>3
  <2>2. CASE ~passed
    BY <1>3, <2>2 DEF TypeInv
  <2> QED
    BY <2>1, <2>2
<1>8. passed \in BOOLEAN /\ gap' \in BOOLEAN
  <2>1. passed \in BOOLEAN
    BY DEF passed
  <2>2. gap' \in BOOLEAN
    BY <1>3, Zenon DEF TypeInv, AuxType
  <2> QED
    BY <2>1, <2>2
<1>9. writing' = IF Values(voters, age) # Values(voters', age') THEN Rows(Values(voters', age')) ELSE {}
  BY <1>3, Zenon DEF Changed, Current
<1>10. \E d \in Routings, b \in BOOLEAN :
         /\ voters' = d.votes /\ torn' = torn \ d.slots
         /\ age' = Aged(d, b, age) /\ silence' = Aged(d, b, silence)
  BY <1>3, <1>4, <1>8
<1> QED
  BY <1>3, <1>5, <1>6, <1>7, <1>8, <1>9, <1>10

LEMMA CurrentIs ==
  ASSUME TypeInv
  PROVE  /\ Current \in Rowss /\ Current = Values(voters, age)
         /\ \A p \in Period, f \in Field :
              Current[p][f] # None <=> voters[p][f] # <<>> /\ age[p][f] <= StalePasses
BY ValuesAre DEF TypeInv, Current

\* What a restart does: the votes say what was served.
LEMMA RestartIs ==
  ASSUME TypeInv, Restart
  PROVE  /\ VoterType(voters') /\ age' = Zeros /\ age' \in Ages
         /\ \A p \in Period, f \in Field : voters'[p][f] = <<>> <=> latest[BootArea][p][f] = None
         /\ Values(voters', age') = latest[BootArea]
<1> DEFINE row == latest[BootArea]
<1>1. row \in Rowss
  BY Consts DEF TypeInv, TableType
<1>2. \A p \in Period : row[p] \in [Field -> ValueOf \cup {None}]
  BY <1>1 DEF Rowss
<1>3. voters' = [p \in Period |-> [f \in Field |-> Primed(row[p], f)]] /\ age' = Zeros
  BY DEF Restart
<1> HIDE DEF row
<1>4. \A p \in Period, f \in Field :
        /\ voters'[p][f] \in Ballots /\ Len(voters'[p][f]) <= MaxLen
        /\ voters'[p][f] = <<>> <=> row[p][f] = None
        /\ row[p][f] # None => Best(voters'[p][f], 0) = row[p][f]
  BY <1>2, <1>3, PrimedIs
<1>5. voters' \in [Period -> [Field -> Ballots]]
  BY <1>3, <1>4
<1>6. VoterType(voters')
  BY <1>4, <1>5 DEF VoterType
<1>7. age' \in Ages /\ \A p \in Period, f \in Field : age'[p][f] <= StalePasses
  BY <1>3, Consts DEF Zeros, Ages
<1>8. \A p \in Period, f \in Field : Values(voters', age')[p][f] = row[p][f]
  BY <1>4, <1>7 DEF Values, Fresh
<1>9. Values(voters', age') \in Rowss
  BY <1>6, <1>7, ValuesAre
<1>10. Values(voters', age') = row
  <2>1. \A p \in Period : Values(voters', age')[p] = row[p]
    BY <1>1, <1>8, <1>9 DEF Rowss
  <2> QED
    BY <1>1, <1>9, <2>1 DEF Rowss
<1> QED
  BY <1>3, <1>4, <1>6, <1>7, <1>10 DEF row

-----------------------------------------------------------------------------
(* Types. *)

LEMMA InitTyped == Init => TypeInv
<1> SUFFICES ASSUME Init PROVE TypeInv
  OBVIOUS
<1>1. StationType
  <2>1. readout \in Seq(Clause) /\ readout # <<>>
    BY ForecastAssumption DEF Init
  <2>2. 1 \in DOMAIN readout
    BY <2>1, LenProperties, EmptySeq
  <2> QED
    BY <2>2, Consts DEF Init, StationType
<1>2. <<>> \in Ballots /\ Len(<<>>) <= MaxLen /\ 0 \in 0..Never /\ Never \in 0..Never
  BY Consts DEF Ballots
<1>3. VoterType(voters) /\ age \in Ages /\ silence \in Ages
  BY <1>2 DEF Init, VoterType, NoVotes, Zeros, Ages
<1>4. TableType
  BY DEF Init, TableType, Blank, Rowss
<1>5. AuxType
  <2>1. gap \in BOOLEAN
    BY Zenon DEF Init
  <2>2. torn \subseteq Slots /\ silence \in [Period -> [Field -> 0..Never]]
    BY <1>3 DEF Init, Ages
  <2> QED
    BY <2>1, <2>2 DEF AuxType
<1> QED
  BY <1>1, <1>3, <1>4, <1>5, Consts DEF TypeInv, Init

\* A row of the issuance.
LEMMA WriteRowIs ==
  ASSUME TypeInv, NEW p \in Period, WriteRow(p)
  PROVE  /\ p \in writing /\ writing' = writing \ {p} /\ (opened' <=> writing # {p})
         /\ UNCHANGED <<readout, pos, losses, deaths, current, voters, age, city, gap, silence, torn>>
         /\ latest' \in [Area -> Rowss] /\ latest'[city][p] = Current[p]
         /\ \A q \in Period \ {p} : latest'[city][q] = IF opened THEN latest[city][q] ELSE Blank[q]
<1> DEFINE old == IF opened THEN latest[city] ELSE Blank
           new == [old EXCEPT ![p] = Current[p]]
<1>1. old \in Rowss /\ Current[p] \in [Field -> ValueOf \cup {None}]
  BY CurrentIs DEF TypeInv, TableType, Blank, Rowss
<1>2. /\ p \in writing /\ writing' = writing \ {p} /\ opened' = (writing # {p})
      /\ UNCHANGED <<readout, pos, losses, deaths, current, voters, age, city, gap, silence, torn>>
      /\ latest' = [latest EXCEPT ![city] = new]
  BY DEF WriteRow, station, aggregator
<1>3. new \in Rowss /\ new[p] = Current[p] /\ \A q \in Period \ {p} : new[q] = old[q]
  BY <1>1 DEF Rowss
<1> HIDE DEF new
<1>4. latest \in [Area -> Rowss] /\ city \in Area
  BY DEF TypeInv, TableType
<1>5. latest' \in [Area -> Rowss] /\ latest'[city] = new
  BY <1>2, <1>3, <1>4
<1>6. \A q \in Period \ {p} : new[q] = IF opened THEN latest[city][q] ELSE Blank[q]
  BY <1>3
<1> QED
  BY <1>2, <1>3, <1>5, <1>6

LEMMA TypeStep == ASSUME TypeInv, [Next]_vars PROVE TypeInv'
<1>1. ASSUME UNCHANGED <<voters, age>> PROVE Current' = Current
  BY <1>1 DEF Current, Values, Fresh
<1>2. CASE Revise
  <2>1. readout' \in Readouts /\ pos' = 1
    BY <1>2 DEF Revise
  <2>2. readout' \in Seq(Clause) /\ readout' # <<>>
    BY <2>1, ForecastAssumption
  <2>3. 1 \in DOMAIN readout'
    BY <2>2, LenProperties, EmptySeq
  <2>4. UNCHANGED <<losses, deaths, current, voters, age, city, writing, opened, latest, gap, silence, torn>>
    BY <1>2 DEF Revise, aggregator, table
  <2> QED
    BY <1>1, <2>1, <2>3, <2>4 DEF TypeInv, StationType, TableType, AuxType, VoterType
<1>3. ASSUME NEW n \in 1..MaxClauses, Lose(n) PROVE TypeInv'
  <2>1. n \in Nat /\ pos + n - 1 \in Nat
    BY ForecastAssumption, TextIs DEF TypeInv
  <2>2. ((pos + n - 1) % Len(readout)) + 1 \in 1..Len(readout)
    BY <2>1, TextIs, Wraps DEF TypeInv
  <2>3. /\ pos' = ((pos + n - 1) % Len(readout)) + 1 /\ losses < MaxLost /\ losses' = losses + 1
        /\ UNCHANGED <<readout, deaths, current, voters, age, city, writing, opened, latest, silence, torn>>
    BY <1>3 DEF Lose, Advance, aggregator, table
  <2>4. gap' \in BOOLEAN
    BY <1>3, Zenon DEF Lose
  <2>5. StationType'
    <3>1. losses' \in 0..MaxLost
      BY <2>3, Consts DEF TypeInv, StationType
    <3>2. pos' \in DOMAIN readout'
      BY <2>2, <2>3, TextIs DEF TypeInv
    <3> QED
      BY <2>3, <3>1, <3>2 DEF TypeInv, StationType
  <2> QED
    BY <1>1, <2>3, <2>4, <2>5 DEF TypeInv, TableType, AuxType, VoterType
<1>4. ASSUME NEW n \in 1..MaxClauses, Hear(n) PROVE TypeInv'
  <2>1. PICK done \in Routings, passed \in BOOLEAN :
          /\ voters' = done.votes /\ torn' = torn \ done.slots
          /\ age' = Aged(done, passed, age) /\ silence' = Aged(done, passed, silence)
    BY <1>4, HearIs
  <2>2. VoterType(voters') /\ done.slots \in SUBSET Slots
    BY <2>1 DEF Routings, Keeps
  <2>3. age' \in Ages /\ silence' \in Ages
    BY <2>1, AgedIs DEF TypeInv, AuxType, Ages
  <2>4. torn' \subseteq Slots
    BY <2>1 DEF TypeInv, AuxType
  <2>5. Current' = Values(voters', age')
    BY DEF Current
  <2>6. /\ UNCHANGED <<readout, losses, deaths, opened, latest>>
        /\ pos' \in DOMAIN readout /\ current' \in Period \cup {None} /\ city' \in Area /\ gap' \in BOOLEAN
        /\ writing' = IF Values(voters, age) # Values(voters', age') THEN Rows(Values(voters', age')) ELSE {}
    BY <1>4, HearIs
  <2>7. writing' \subseteq Rows(Current')
    BY <2>5, <2>6
  <2>8. Rows(Current') = Rows(Current)'
    BY DEF Rows, Blank
  <2>9. StationType' /\ TableType'
    BY <2>6, <2>7, <2>8 DEF TypeInv, StationType, TableType
  <2>10. AuxType'
    BY <2>3, <2>4, <2>6 DEF AuxType, Ages
  <2> QED
    BY <2>2, <2>3, <2>6, <2>9, <2>10 DEF TypeInv, VoterType
<1>5. ASSUME NEW p \in Period, WriteRow(p) PROVE TypeInv'
  <2>1. /\ writing' = writing \ {p} /\ (opened' <=> writing # {p})
        /\ UNCHANGED <<readout, pos, losses, deaths, current, voters, age, city, gap, silence, torn>>
        /\ latest' \in [Area -> Rowss]
    BY <1>5, WriteRowIs
  <2>2. opened' \in BOOLEAN
    BY <1>5, Zenon DEF WriteRow
  <2> QED
    BY <1>1, <2>1, <2>2 DEF TypeInv, StationType, TableType, AuxType, VoterType
<1>6. CASE Restart
  <2>1. VoterType(voters') /\ age' \in Ages
    BY <1>6, RestartIs
  <2>2. /\ deaths < MaxDeaths /\ deaths' = deaths + 1 /\ current' = None /\ city' = BootArea
        /\ writing' = {} /\ UNCHANGED <<readout, pos, losses, latest, silence>>
    BY <1>6 DEF Restart, station
  <2>3. gap' \in BOOLEAN /\ opened' \in BOOLEAN
    BY <1>6, Zenon DEF Restart
  <2>4. torn' \subseteq Slots
    BY <1>6 DEF Restart, TypeInv, AuxType
  <2>5. StationType'
    BY <2>2, Consts DEF TypeInv, StationType
  <2> QED
    BY <2>1, <2>2, <2>3, <2>4, <2>5, Consts DEF TypeInv, TableType, AuxType, VoterType
<1>7. CASE UNCHANGED vars
  <2>1. UNCHANGED <<readout, pos, losses, deaths, current, voters, age, city, writing, opened, latest,
                    gap, silence, torn>>
    BY <1>7 DEF vars, station, aggregator, table
  <2> QED
    BY <1>1, <2>1 DEF TypeInv, StationType, TableType, AuxType, VoterType
<1> QED
  BY <1>2, <1>3, <1>4, <1>5, <1>6, <1>7 DEF Next

-----------------------------------------------------------------------------
(* What is served. *)

LEMMA IssuedStays ==
  ASSUME IssuedInv, UNCHANGED <<voters, age, city, writing, opened, latest>>
  PROVE  IssuedInv'
<1>1. Current' = Current
  BY DEF Current, Values, Fresh
<1>2. Rows(Current)' = Rows(Current)
  BY <1>1 DEF Rows, Blank
<1> QED
  BY <1>1, <1>2 DEF IssuedInv, Blank

LEMMA IssuedHear ==
  ASSUME TypeInv, IssuedInv, NEW n \in 1..MaxClauses, Hear(n)
  PROVE  IssuedInv'
<1>1. /\ writing = {} /\ UNCHANGED <<opened, latest>>
      /\ writing' = IF Values(voters, age) # Values(voters', age') THEN Rows(Values(voters', age')) ELSE {}
  BY HearIs
<1>2. Current = Values(voters, age) /\ Current' = Values(voters', age')
  BY DEF Current
<1>3. Rows(Current') = Rows(Current)' /\ Rows(Current) = Rows(Values(voters, age))
  BY <1>2 DEF Rows, Blank
<1>4. ~opened /\ ~opened'
  BY <1>1 DEF IssuedInv
<1>5. CASE Current' = Current
  <2>1. writing' = {} /\ Rows(Current)' = Rows(Current)
    BY <1>1, <1>2, <1>3, <1>5
  <2> QED
    BY <1>1, <1>4, <1>5, <2>1 DEF IssuedInv
<1>6. CASE Current' # Current
  <2>1. writing' = Rows(Current)'
    BY <1>1, <1>2, <1>3, <1>6
  <2> QED
    BY <1>4, <2>1 DEF IssuedInv
<1> QED
  BY <1>5, <1>6

LEMMA IssuedWrite ==
  ASSUME TypeInv, IssuedInv, NEW p \in Period, WriteRow(p)
  PROVE  IssuedInv'
<1>1. /\ p \in writing /\ writing' = writing \ {p} /\ (opened' <=> writing # {p})
      /\ UNCHANGED <<voters, age, city>>
      /\ latest' \in [Area -> Rowss] /\ latest'[city][p] = Current[p]
      /\ \A q \in Period \ {p} : latest'[city][q] = IF opened THEN latest[city][q] ELSE Blank[q]
  BY WriteRowIs
<1>2. Current' = Current
  BY <1>1 DEF Current, Values, Fresh
<1>3. Current \in Rowss /\ city \in Area /\ writing \subseteq Period
  BY CurrentIs, RowsAre DEF TypeInv, TableType
<1>4. \A q \in Period : latest'[city][q] = IF q \in writing' THEN Blank[q] ELSE Current[q]
  <2> TAKE q \in Period
  <2>1. CASE q = p
    BY <1>1, <2>1
  <2>2. CASE q # p /\ opened
    <3>1. latest[city][q] = IF q \in writing THEN Blank[q] ELSE Current[q]
      BY <2>2 DEF IssuedInv
    <3> QED
      BY <1>1, <2>2, <3>1
  <2>3. CASE q # p /\ ~opened
    <3>1. latest'[city][q] = Blank[q] /\ writing = Rows(Current)
      BY <1>1, <2>3 DEF IssuedInv
    <3>2. q \notin writing => Current[q] = Blank[q]
      BY <1>3, <3>1, RowsAre
    <3> QED
      BY <1>1, <2>3, <3>1, <3>2
  <2> QED
    BY <2>1, <2>2, <2>3
<1>5. Blank' = Blank /\ Rows(Current)' = Rows(Current)
  BY <1>2 DEF Blank, Rows
<1>6. CASE writing' = {}
  <2>1. ~opened'
    BY <1>1, <1>6
  <2>2. latest'[city] = Current
    <3>1. \A q \in Period : latest'[city][q] = Current[q]
      BY <1>4, <1>6
    <3>2. latest'[city] \in Rowss
      BY <1>1, <1>3
    <3> QED
      BY <1>3, <3>1, <3>2 DEF Rowss
  <2> QED
    BY <1>2, <1>3, <1>6, <2>1, <2>2 DEF IssuedInv
<1>7. CASE writing' # {}
  <2>1. opened'
    BY <1>1, <1>7
  <2> QED
    BY <1>1, <1>2, <1>4, <1>5, <1>7, <2>1 DEF IssuedInv
<1> QED
  BY <1>6, <1>7

LEMMA IssuedStep == ASSUME TypeInv, IssuedInv, [Next]_vars PROVE IssuedInv'
<1>1. CASE Revise
  BY <1>1, IssuedStays DEF Revise, aggregator, table
<1>2. ASSUME NEW n \in 1..MaxClauses, Lose(n) PROVE IssuedInv'
  BY <1>2, IssuedStays DEF Lose, aggregator, table
<1>3. CASE Restart
  <2>1. Current' = latest[BootArea]
    BY <1>3, RestartIs DEF Current
  <2>2. writing' = {} /\ ~opened' /\ latest' = latest
    BY <1>3 DEF Restart
  <2> QED
    BY <2>1, <2>2, Consts DEF IssuedInv
<1>4. CASE UNCHANGED vars
  BY <1>4, IssuedStays DEF vars, aggregator, table
<1> QED
  BY <1>1, <1>2, <1>3, <1>4, IssuedHear, IssuedWrite DEF Next

-----------------------------------------------------------------------------
(* What a recent statement leaves, and how old it is taken to be. *)

LEMMA KeptStep ==
  ASSUME TypeInv, KeptInv, [Next]_vars
  PROVE  KeptInv'
<1>1. CASE UNCHANGED <<voters, age, silence, torn>>
  BY <1>1 DEF KeptInv
<1>2. ASSUME NEW n \in 1..MaxClauses, Hear(n) PROVE KeptInv'
  <2>1. PICK done \in Routings, passed \in BOOLEAN :
          /\ voters' = done.votes /\ torn' = torn \ done.slots
          /\ age' = Aged(done, passed, age) /\ silence' = Aged(done, passed, silence)
    BY <1>2, HearIs
  <2>2. age \in Ages /\ silence \in Ages
    BY DEF TypeInv, AuxType, Ages
  <2>3. SUFFICES ASSUME NEW p \in Period, NEW f \in Field, silence'[p][f] < Never
                 PROVE  \/ <<p, f>> \in torn'
                        \/ voters'[p][f] # <<>> /\ age'[p][f] <= silence'[p][f]
    BY DEF KeptInv
  <2>4. /\ age'[p][f] = IF <<p, f>> \in done.slots THEN 0
                        ELSE IF passed /\ voters[p][f] # <<>> THEN Older(age[p][f]) ELSE age[p][f]
        /\ silence'[p][f] = IF <<p, f>> \in done.slots THEN 0
                            ELSE IF passed /\ voters[p][f] # <<>> THEN Older(silence[p][f]) ELSE silence[p][f]
    BY <2>1, <2>2, AgedIs
  <2>5. IF <<p, f>> \in done.slots THEN voters'[p][f] # <<>> ELSE voters'[p][f] = voters[p][f]
    BY <2>1 DEF Routings, Keeps
  <2>6. /\ age[p][f] \in 0..Never /\ silence[p][f] \in 0..Never
        /\ Older(age[p][f]) \in 0..Never /\ Older(silence[p][f]) \in 0..Never
        /\ Older(silence[p][f]) >= silence[p][f]
        /\ age[p][f] <= silence[p][f] => Older(age[p][f]) <= Older(silence[p][f])
    BY <2>2, OlderIs DEF Ages
  <2>7. CASE <<p, f>> \in done.slots
    BY <2>4, <2>5, <2>7
  <2>8. CASE <<p, f>> \notin done.slots
    <3>1. silence[p][f] <= silence'[p][f]
      BY <2>4, <2>6, <2>8
    <3>2. silence[p][f] < Never
      BY <2>3, <2>4, <2>6, <2>8, <3>1, Consts
    <3>3. <<p, f>> \in torn \/ (voters[p][f] # <<>> /\ age[p][f] <= silence[p][f])
      BY <3>2 DEF KeptInv
    <3>4. <<p, f>> \in torn => <<p, f>> \in torn'
      BY <2>1, <2>8
    <3>5. age[p][f] <= silence[p][f] => age'[p][f] <= silence'[p][f]
      BY <2>4, <2>6, <2>8
    <3> QED
      BY <2>5, <2>8, <3>3, <3>4, <3>5
  <2> QED
    BY <2>7, <2>8
<1>3. CASE Restart
  <2>1. /\ age' = Zeros
        /\ \A p \in Period, f \in Field : voters'[p][f] = <<>> <=> latest[BootArea][p][f] = None
    BY <1>3, RestartIs
  <2>2. /\ silence' = silence
        /\ torn' = torn \cup {slot \in Slots : Current[slot[1]][slot[2]] # None
                                               /\ latest[BootArea][slot[1]][slot[2]] = None}
    BY <1>3 DEF Restart
  <2>3. SUFFICES ASSUME NEW p \in Period, NEW f \in Field, silence[p][f] < Never
                 PROVE  \/ <<p, f>> \in torn'
                        \/ voters'[p][f] # <<>> /\ age'[p][f] <= silence[p][f]
    BY <2>2 DEF KeptInv
  <2>4. <<p, f>> \in torn \/ (voters[p][f] # <<>> /\ age[p][f] <= silence[p][f])
    BY <2>3 DEF KeptInv
  <2>5. age[p][f] \in 0..Never /\ silence[p][f] \in 0..Never
    BY DEF TypeInv, AuxType, Ages
  <2>6. CASE <<p, f>> \in torn
    BY <2>2, <2>6
  <2>7. CASE voters[p][f] # <<>> /\ age[p][f] <= silence[p][f]
    <3>1. age[p][f] <= StalePasses
      BY <2>3, <2>5, <2>7, Consts
    <3>2. Current[p][f] # None
      BY <2>7, <3>1, CurrentIs
    <3>3. CASE latest[BootArea][p][f] = None
      <4> DEFINE slot == <<p, f>>
      <4>1. slot \in Slots /\ slot[1] = p /\ slot[2] = f
        BY DEF Slots
      <4> HIDE DEF slot
      <4>2. slot \in torn'
        BY <2>2, <3>2, <3>3, <4>1
      <4> QED
        BY <4>2 DEF slot
    <3>4. CASE latest[BootArea][p][f] # None
      <4>1. age'[p][f] = 0
        BY <2>1 DEF Zeros
      <4> QED
        BY <2>1, <2>5, <3>4, <4>1
    <3> QED
      BY <3>3, <3>4
  <2> QED
    BY <2>4, <2>6, <2>7
<1>4. CASE Revise
  BY <1>1, <1>4 DEF Revise, aggregator
<1>5. ASSUME NEW n \in 1..MaxClauses, Lose(n) PROVE KeptInv'
  BY <1>1, <1>5 DEF Lose, aggregator
<1>6. ASSUME NEW p \in Period, WriteRow(p) PROVE KeptInv'
  BY <1>1, <1>6 DEF WriteRow, aggregator
<1>7. CASE UNCHANGED vars
  BY <1>1, <1>7 DEF vars, aggregator
<1> QED
  BY <1>2, <1>3, <1>4, <1>5, <1>6, <1>7 DEF Next

LEMMA AgedStep ==
  ASSUME TypeInv, AgedInv, [Next]_vars
  PROVE  AgedInv'
<1>1. CASE UNCHANGED <<deaths, voters, age, silence>>
  BY <1>1 DEF AgedInv
<1>2. ASSUME NEW n \in 1..MaxClauses, Hear(n) PROVE AgedInv'
  <2>1. PICK done \in Routings, passed \in BOOLEAN :
          /\ voters' = done.votes
          /\ age' = Aged(done, passed, age) /\ silence' = Aged(done, passed, silence)
    BY <1>2, HearIs
  <2>2. age \in Ages /\ silence \in Ages /\ deaths' = deaths
    BY <1>2, HearIs DEF TypeInv, AuxType, Ages
  <2>3. SUFFICES ASSUME deaths = 0, NEW p \in Period, NEW f \in Field, voters'[p][f] # <<>>
                 PROVE  age'[p][f] = silence'[p][f]
    BY <2>2 DEF AgedInv
  <2>4. /\ age'[p][f] = IF <<p, f>> \in done.slots THEN 0
                        ELSE IF passed /\ voters[p][f] # <<>> THEN Older(age[p][f]) ELSE age[p][f]
        /\ silence'[p][f] = IF <<p, f>> \in done.slots THEN 0
                            ELSE IF passed /\ voters[p][f] # <<>> THEN Older(silence[p][f]) ELSE silence[p][f]
    BY <2>1, <2>2, AgedIs
  <2>5. <<p, f>> \notin done.slots => voters[p][f] # <<>>
    BY <2>1, <2>3 DEF Routings, Keeps
  <2>6. <<p, f>> \notin done.slots => age[p][f] = silence[p][f]
    BY <2>3, <2>5 DEF AgedInv
  <2> QED
    BY <2>4, <2>6
<1>3. CASE Restart
  <2>1. deaths' = deaths + 1 /\ deaths \in Nat
    BY <1>3, Consts DEF Restart, TypeInv, StationType
  <2>2. deaths' # 0
    BY <2>1
  <2> QED
    BY <2>2 DEF AgedInv
<1>4. CASE Revise
  BY <1>1, <1>4 DEF Revise, aggregator
<1>5. ASSUME NEW n \in 1..MaxClauses, Lose(n) PROVE AgedInv'
  BY <1>1, <1>5 DEF Lose, aggregator
<1>6. ASSUME NEW p \in Period, WriteRow(p) PROVE AgedInv'
  BY <1>1, <1>6 DEF WriteRow, aggregator
<1>7. CASE UNCHANGED vars
  BY <1>1, <1>7 DEF vars, aggregator
<1> QED
  BY <1>2, <1>3, <1>4, <1>5, <1>6, <1>7 DEF Next

-----------------------------------------------------------------------------
(* Votes of the own period. *)

\* The votes of a slot of period p that speak of another one.
ForeignIn(votes, p) == {i \in DOMAIN votes : votes[i].value.of # p}

LEMMA ForeignCounts ==
  ASSUME NEW votes \in Ballots, NEW p
  PROVE  /\ ForeignIn(votes, p) \in SUBSET (1..Len(votes)) /\ IsFiniteSet(ForeignIn(votes, p))
         /\ Cardinality(ForeignIn(votes, p)) \in Nat
<1>1. DOMAIN votes = 1..Len(votes) /\ Len(votes) \in Nat
  BY LenProperties DEF Ballots
<1>2. ForeignIn(votes, p) \in SUBSET (1..Len(votes)) /\ IsFiniteSet(1..Len(votes))
  BY <1>1, FS_Interval DEF ForeignIn
<1>3. IsFiniteSet(ForeignIn(votes, p))
  BY <1>2, FS_Subset
<1> QED
  BY <1>2, <1>3, FS_CardinalityType

\* A vote for the own period may push a foreign one out of the deque, and adds none.
LEMMA ForeignCast ==
  ASSUME NEW votes \in Ballots, Len(votes) <= MaxLen, NEW p,
         NEW values \in SUBSET ValueOf, \A v \in values : v.of = p
  PROVE  Cardinality(ForeignIn(CastVote(votes, values), p)) <= Cardinality(ForeignIn(votes, p))
<1>1. CASE values = {}
  <2>1. CastVote(votes, values) = votes /\ Cardinality(ForeignIn(votes, p)) \in Nat
    BY <1>1, ForeignCounts DEF CastVote
  <2> QED
    BY <2>1
<1>2. CASE values # {}
  <2> DEFINE v == CHOOSE w \in values : TRUE
             e == [value |-> v, at |-> 0]
             kept == IF Len(votes) < MaxLen THEN votes ELSE Tail(votes)
             d == IF Len(votes) < MaxLen THEN 0 ELSE 1
             cast == CastVote(votes, values)
             B == [value : ValueOf, at : {0}]
  <2>1. v \in ValueOf /\ v.of = p
    BY <1>2
  <2> HIDE DEF v
  <2>2. e \in B /\ e.value.of = p
    BY <2>1
  <2>3. cast = Append(kept, e)
    BY <1>2 DEF CastVote, Cast, v
  <2>4. votes \in Seq(B) /\ Len(votes) \in Nat /\ DOMAIN votes = 1..Len(votes)
    BY LenProperties DEF Ballots
  <2> HIDE DEF B, e, cast
  <2>5. kept \in Seq(B) /\ Len(kept) \in Nat /\ d \in {0, 1}
        /\ \A i \in 1..Len(kept) : i + d \in 1..Len(votes) /\ kept[i] = votes[i + d]
    <3>1. CASE Len(votes) < MaxLen
      BY <2>4, <3>1
    <3>2. CASE ~ (Len(votes) < MaxLen)
      <4>1. votes # <<>>
        BY <2>4, <3>2, Consts
      <4>2. Tail(votes) \in Seq(B) /\ Len(Tail(votes)) = Len(votes) - 1 /\ Len(votes) >= 1
            /\ \A i \in 1 .. Len(votes) - 1 : Tail(votes)[i] = votes[i + 1]
        BY <2>4, <4>1, HeadTailProperties, EmptySeq
      <4> QED
        BY <2>4, <3>2, <4>2
    <3> QED
      BY <3>1, <3>2
  <2> HIDE DEF kept, d
  <2>6. DOMAIN cast = 1 .. Len(kept) + 1 /\ cast[Len(kept) + 1] = e
        /\ \A i \in 1..Len(kept) : cast[i] = kept[i]
    BY <2>2, <2>3, <2>5, AppendProperties
  <2>7. ForeignIn(cast, p) \in SUBSET (1..Len(kept))
    BY <2>2, <2>5, <2>6 DEF ForeignIn
  <2>8. \A i \in ForeignIn(cast, p) : i + d \in ForeignIn(votes, p)
    <3> TAKE i \in ForeignIn(cast, p)
    <3>1. i \in 1..Len(kept) /\ cast[i] = votes[i + d] /\ cast[i].value.of # p /\ i + d \in 1..Len(votes)
      BY <2>5, <2>6, <2>7 DEF ForeignIn
    <3> QED
      BY <2>4, <3>1 DEF ForeignIn
  <2> DEFINE shift == [i \in ForeignIn(cast, p) |-> i + d]
  <2>9. shift \in Injection(ForeignIn(cast, p), ForeignIn(votes, p))
    <3>1. shift \in [ForeignIn(cast, p) -> ForeignIn(votes, p)]
      BY <2>8
    <3>2. \A i, j \in ForeignIn(cast, p) : i + d = j + d => i = j
      BY <2>5, <2>7
    <3> QED
      BY <3>1, <3>2 DEF Injection, IsInjective
  <2>10. Cardinality(ForeignIn(cast, p)) <= Cardinality(ForeignIn(votes, p))
    BY <2>9, ForeignCounts, FS_Injection
  <2> QED
    BY <2>10 DEF cast
<1> QED
  BY <1>1, <1>2

\* No slot has more foreign votes than before the segment.
Few(vs) ==
  \A p \in Period, f \in Field :
    Cardinality(ForeignIn(vs[p][f], p)) <= Cardinality(ForeignIn(voters[p][f], p))

\* What the span that begins at s states, it states of the period it is taken for.
OwnSpan(seg, s) ==
  PeriodAt(seg, s) # None =>
    \A f \in Field \cup {"steady"} : \A v \in Stated(seg, s, f) : v.of = PeriodAt(seg, s)

LEMMA FewSpan ==
  ASSUME NEW seg, IsSegment(seg), NEW s \in 1..Len(seg), current \in Period \cup {None},
         VoterType(voters),
         OwnSpan(seg, s), NEW done \in Routings, Few(done.votes)
  PROVE  Few(RouteSpan(done, seg, s).votes)
<1> DEFINE p == PeriodAt(seg, s)
           vs == done.votes
           cast == Routes(vs, seg, s)
           new == [vs EXCEPT ![p] = [f \in Field |-> CastVote(@[f], cast[f])]]
<1>1. CASE p = None
  BY <1>1 DEF RouteSpan
<1>2. CASE p # None
  <2>1. p \in Period
    BY <1>2, PeriodAtIs
  <2>2. \A f \in Field : \A v \in cast[f] : v.of = p
    BY <1>2 DEF OwnSpan, Routes, Field
  <2>3. \A f \in Field : cast[f] \in SUBSET ValueOf
    BY RoutesIs
  <2>4. /\ vs \in [Period -> [Field -> Ballots]]
        /\ \A q \in Period, f \in Field : vs[q][f] \in Ballots /\ Len(vs[q][f]) <= MaxLen
    BY DEF Routings, Keeps, VoterType
  <2>5. RouteSpan(done, seg, s).votes = new
    BY <1>2 DEF RouteSpan
  <2> HIDE DEF p, cast
  <2>6. ASSUME NEW q \in Period, NEW f \in Field
        PROVE  /\ q = p => new[q][f] = CastVote(vs[q][f], cast[f])
               /\ q # p => new[q][f] = vs[q][f]
    BY <2>1, <2>4, <2>6
  <2> HIDE DEF new
  <2>7. ASSUME NEW q \in Period, NEW f \in Field
        PROVE  Cardinality(ForeignIn(new[q][f], q)) <= Cardinality(ForeignIn(voters[q][f], q))
    <3>1. Cardinality(ForeignIn(vs[q][f], q)) <= Cardinality(ForeignIn(voters[q][f], q))
      BY DEF Few
    <3>2. CASE q = p
      <4>1. Cardinality(ForeignIn(new[q][f], q)) <= Cardinality(ForeignIn(vs[q][f], q))
        BY <2>2, <2>3, <2>4, <2>6, <3>2, ForeignCast
      <4>2. /\ Cardinality(ForeignIn(vs[q][f], q)) \in Int
            /\ Cardinality(ForeignIn(new[q][f], q)) \in Int
            /\ Cardinality(ForeignIn(voters[q][f], q)) \in Int
        <5>1. vs[q][f] \in Ballots /\ Len(vs[q][f]) <= MaxLen /\ cast[f] \in SUBSET ValueOf
          BY <2>3, <2>4
        <5>2. new[q][f] \in Ballots
          BY <2>6, <3>2, <5>1, CastVoteIs
        <5>3. voters[q][f] \in Ballots
          BY DEF VoterType
        <5> QED
          BY <5>1, <5>2, <5>3, ForeignCounts
      <4> QED
        BY <3>1, <4>1, <4>2
    <3>3. CASE q # p
      BY <2>6, <3>1, <3>3
    <3> QED
      BY <3>2, <3>3
  <2> QED
    BY <2>5, <2>7 DEF Few
<1> QED
  BY <1>1, <1>2

-----------------------------------------------------------------------------
(* Where a segment is in the text. *)

\* Division, and the uniqueness of the remainder.
LEMMA Division ==
  ASSUME NEW L \in Nat \ {0}, NEW x \in Nat
  PROVE  /\ x \div L \in Nat /\ x % L \in 0 .. L - 1
         /\ x = L * (x \div L) + (x % L)
OBVIOUS

LEMMA UniqueRemainder ==
  ASSUME NEW L \in Nat \ {0}, NEW q \in Nat, NEW r \in 0 .. L - 1, NEW p \in Nat, NEW s \in 0 .. L - 1,
         L * q + r = L * p + s
  PROVE  r = s
<1>1. CASE q = p
  <2>1. L * q = L * p /\ L * q \in Int
    BY <1>1
  <2> QED
    BY <2>1
<1>2. ASSUME NEW a \in Nat, NEW b \in Nat, a < b PROVE L * b >= L * a + L
  <2> DEFINE c == b - a - 1
  <2>1. c \in Nat /\ b = a + 1 + c
    BY <1>2
  <2>2. L * (a + 1 + c) = L * a + L + L * c /\ L * c \in Nat /\ L * a \in Nat
    BY <2>1
  <2> HIDE DEF c
  <2> QED
    BY <2>1, <2>2
<1>3. CASE q < p
  <2>1. L * p >= L * q + L
    BY <1>2, <1>3
  <2>2. L * p \in Int /\ L * q \in Int
    OBVIOUS
  <2> QED
    BY <2>1, <2>2
<1>4. CASE p < q
  <2>1. L * q >= L * p + L
    BY <1>2, <1>4
  <2>2. L * p \in Int /\ L * q \in Int
    OBVIOUS
  <2> QED
    BY <2>1, <2>2
<1> QED
  BY <1>1, <1>3, <1>4

\* Counting back within a round.
LEMMA RemainderBack ==
  ASSUME NEW L \in Nat \ {0}, NEW x \in Nat, NEW d \in Nat, d <= x % L
  PROVE  x - d \in Nat /\ (x - d) % L = (x % L) - d
<1> DEFINE q == x \div L
           r == x % L
<1>1. q \in Nat /\ r \in 0 .. L - 1 /\ x = L * q + r /\ d <= r
  BY Division
<1> HIDE DEF q, r
<1>2. L * q \in Nat
  BY <1>1
<1>3. x - d = L * q + (r - d) /\ r - d \in 0 .. L - 1 /\ x - d \in Nat
  BY <1>1, <1>2
<1> DEFINE y == x - d
           p == y \div L
           s == y % L
<1>4. p \in Nat /\ s \in 0 .. L - 1 /\ y = L * p + s
  BY <1>3, Division
<1>5. L * q + (r - d) = L * p + s
  BY <1>3, <1>4
<1> HIDE DEF y, p, s
<1>6. r - d = s
  BY <1>1, <1>3, <1>4, <1>5, UniqueRemainder
<1> QED
  BY <1>3, <1>6 DEF r, s, y

\* The period in progress is one of the texts', and unless a segment was lost it is the
\* one that was opened last.
PlaceInv ==
  /\ current # None => Opens(current)
  /\ current # None /\ ~gap =>
       \A h \in 1 .. pos - 1 : Follows(readout, h, pos) => readout[h].x = current

\* The place in the text of clause k of a segment.
Place(k) == ((pos + k - 2) % Len(readout)) + 1

LEMMA PlaceIs ==
  ASSUME StationType, NEW n \in Nat, NEW seg, seg = Clauses(pos, n)
  PROVE  \A k \in 1..n : seg[k] = readout[Place(k)] /\ Place(k) \in DOMAIN readout
<1> TAKE k \in 1..n
<1>1. pos + k - 2 \in Nat
  BY TextIs
<1>2. Place(k) \in 1..Len(readout)
  BY <1>1, TextIs, Wraps DEF Place
<1> QED
  BY <1>2, TextIs, LenProperties DEF Clauses, Place

LEMMA PlaceBack ==
  ASSUME StationType, NEW k \in Nat \ {0}, NEW d \in Nat, d < k, d < Place(k)
  PROVE  Place(k - d) = Place(k) - d
<1> DEFINE x == pos + k - 2
           L == Len(readout)
<1>1. x \in Nat /\ L \in Nat \ {0} /\ pos \in Nat
  BY TextIs
<1>2. x % L \in Nat
  BY <1>1, Division
<1>3. d <= x % L
  BY <1>2 DEF Place
<1>4. (x - d) % L = (x % L) - d
  BY <1>1, <1>3, RemainderBack
<1>5. pos + (k - d) - 2 = x - d
  BY <1>1
<1>6. Place(k - d) = ((x - d) % L) + 1 /\ Place(k) = (x % L) + 1
  BY <1>5 DEF Place
<1> HIDE DEF x, L
<1> QED
  BY <1>2, <1>4, <1>6

\* A segment that does not come to the beginning of the text lies within it.
LEMMA NoWrap ==
  ASSUME StationType, NEW n \in Nat \ {0}, \A k \in 1..n : Place(k) # 1
  PROVE  pos >= 2 /\ pos + n - 1 <= Len(readout) /\ \A k \in 1..n : Place(k) = pos + k - 1
<1> DEFINE L == Len(readout)
<1>1. L \in Nat \ {0} /\ pos \in 1..L
  BY TextIs
<1>2. \A x \in 0 .. L - 1 : x % L = x
  BY <1>1
<1>3. L % L = 0
  BY <1>1
<1> HIDE DEF L
<1>4. pos >= 2
  <2> SUFFICES ASSUME pos = 1 PROVE FALSE
    BY <1>1
  <2>1. pos + 1 - 2 = 0 /\ 0 \in 0 .. L - 1
    BY <1>1
  <2>2. Place(1) = 1
    BY <1>2, <2>1 DEF Place, L
  <2> QED
    BY <2>2
<1>5. pos + n - 1 <= L
  <2> SUFFICES ASSUME pos + n - 1 > L PROVE FALSE
    BY <1>1
  <2> DEFINE k == L + 2 - pos
  <2>1. k \in 1..n /\ pos + k - 2 = L
    BY <1>1, <1>4
  <2> HIDE DEF k
  <2>2. Place(k) = 1
    BY <1>3, <2>1 DEF Place, L
  <2> QED
    BY <2>1, <2>2
<1>6. ASSUME NEW k \in 1..n PROVE Place(k) = pos + k - 1
  <2>1. pos + k - 2 \in 0 .. L - 1
    BY <1>1, <1>4, <1>5
  <2>2. Place(k) = (pos + k - 2) + 1
    BY <1>2, <2>1 DEF Place, L
  <2> QED
    BY <1>1, <2>2
<1> QED
  BY <1>4, <1>5, <1>6 DEF L

\* The header that was heard last is the header the text has last.
LEMMA LastHeader ==
  ASSUME StationType, NEW n \in Nat, NEW seg, seg = Clauses(pos, n),
         NEW i \in 1 .. n + 1, NEW k \in 1 .. i - 1, Follows(seg, k, i),
         NEW h \in 1 .. Place(i) - 1, Follows(readout, h, Place(i))
  PROVE  readout[h] = seg[k]
<1> DEFINE at == Place(i)
           d == at - h
<1>1. at \in 1..Len(readout) /\ Len(readout) \in Nat
  <2>1. pos + i - 2 \in Nat
    BY TextIs
  <2> QED
    BY <2>1, TextIs, Wraps DEF Place
<1> HIDE DEF at
<1>2. d \in Nat \ {0} /\ d < at /\ h = at - d
  BY <1>1 DEF at
<1>3. /\ IsHead(readout, h) /\ \A m \in h + 1 .. at - 1 : ~IsHead(readout, m)
      /\ IsHead(seg, k) /\ \A m \in k + 1 .. i - 1 : ~IsHead(seg, m)
  BY DEF Follows, at
<1> HIDE DEF d
<1>4. \A b \in Nat : b < i /\ b < at => Place(i - b) = at - b
  BY PlaceBack DEF at
<1>5. \A m \in 1..n : seg[m] = readout[Place(m)]
  BY PlaceIs
<1>6. ~ (i - k < d)
  <2> SUFFICES ASSUME i - k < d PROVE FALSE
    OBVIOUS
  <2>1. i - k \in Nat \ {0} /\ i - k < i /\ i - k < at /\ i - (i - k) = k
    BY <1>1, <1>2
  <2>2. Place(k) = at - (i - k)
    BY <1>4, <2>1
  <2>3. at - (i - k) \in h + 1 .. at - 1 /\ k \in 1..n
    BY <1>1, <1>2, <2>1
  <2> QED
    BY <1>3, <1>5, <2>2, <2>3 DEF IsHead
<1> DEFINE j == i - d
<1>7. j \in k .. i - 1 /\ j \in 1..n /\ d < i
  BY <1>1, <1>2, <1>6
<1>8. Place(j) = h
  BY <1>2, <1>4, <1>7
<1> HIDE DEF j
<1>9. seg[j] = readout[h]
  BY <1>5, <1>7, <1>8
<1>10. j = k
  BY <1>3, <1>7, <1>9 DEF IsHead
<1> QED
  BY <1>9, <1>10

\* A value is taken for the period it was said of.
LEMMA OwnValue ==
  ASSUME TypeInv, PlaceInv, TextsInOrder, NEW n \in Nat \ {0}, NEW seg, seg = Clauses(pos, n),
         gap => Kinds(seg) \cap {"area", "recap", "header"} # {},
         NEW i \in 1..n, seg[i].kind \in Field \cup {"steady"}, PeriodAt(seg, i) # None
  PROVE  seg[i].x.of = PeriodAt(seg, i)
<1>1. /\ StationType /\ readout \in Readouts /\ InOrder(readout) /\ current \in Period \cup {None}
      /\ Len(seg) = n /\ DOMAIN seg = 1..n /\ pos \in Nat /\ Len(readout) \in Nat
  <2>1. StationType /\ readout \in Readouts /\ InOrder(readout) /\ current \in Period \cup {None}
    BY DEF TypeInv, StationType, TextsInOrder
  <2> QED
    BY <2>1, ClausesTyped, TextIs
<1>2. \A k \in 1..n : seg[k] = readout[Place(k)] /\ Place(k) \in DOMAIN readout
  BY <1>1, PlaceIs
<1> DEFINE at == Place(i)
           before == {h \in Headers(seg) : h <= i}
<1>3. at \in DOMAIN readout /\ seg[i] = readout[at]
  BY <1>2
<1>4. PICK h \in 1 .. at - 1 : Follows(readout, h, at) /\ readout[h].x = seg[i].x.of
  BY <1>1, <1>3 DEF InOrder
<1>5. \A k \in 1..n : k \in Headers(seg) <=> IsHead(seg, k)
  BY <1>1 DEF Headers, IsHead
<1>6. Headers(seg) \in SUBSET (1..n) /\ before \in SUBSET (1..n)
  BY <1>1 DEF Headers
<1>7. ~IsHead(seg, i)
  BY DEF IsHead, Field
<1>8. PeriodAt(seg, i) = (IF before # {} THEN seg[LastOf(before)].x
        ELSE IF Headers(seg) = {} \/ Carried(seg) = Pred[seg[FirstOf(Headers(seg))].x]
               THEN Carried(seg) ELSE None)
  BY DEF PeriodAt
<1>9. CASE before # {}
  <2> DEFINE k == LastOf(before)
  <2>1. k \in before /\ \A j \in before : j <= k
    BY <1>6, <1>9, LastIs
  <2> HIDE DEF k
  <2>2. k \in 1 .. i - 1 /\ IsHead(seg, k)
    BY <1>5, <1>6, <1>7, <2>1
  <2>3. \A j \in k + 1 .. i - 1 : ~IsHead(seg, j)
    BY <1>5, <1>6, <2>1, <2>2
  <2>4. Follows(seg, k, i)
    BY <2>2, <2>3 DEF Follows
  <2>5. readout[h] = seg[k]
    BY <1>1, <1>4, <2>2, <2>4, LastHeader
  <2> QED
    BY <1>4, <1>8, <1>9, <2>5 DEF k
<1>10. CASE before = {}
  <2>1. PeriodAt(seg, i) = Carried(seg) /\ Carried(seg) # None
    BY <1>8, <1>10
  <2>2. Kinds(seg) \cap {"area", "recap"} = {} /\ Carried(seg) = current /\ current # None
    BY <2>1 DEF Carried
  <2>3. \A k \in 1..n : seg[k].kind # "area"
    BY <1>1, <2>2 DEF Kinds
  <2>4. \A k \in 1..n : Place(k) # 1
    BY <1>1, <1>2, <2>3 DEF InOrder
  <2>5. pos + n - 1 <= Len(readout) /\ \A k \in 1..n : Place(k) = pos + k - 1
    BY <1>1, <2>4, NoWrap
  <2>6. at = pos + i - 1
    BY <2>5
  <2> HIDE DEF at
  <2>7. \A k \in 1..i : ~IsHead(readout, pos + k - 1)
    <3> TAKE k \in 1..i
    <3>1. k \in 1..n /\ k \notin Headers(seg)
      BY <1>10
    <3>2. ~IsHead(seg, k) /\ seg[k] = readout[pos + k - 1]
      BY <1>2, <1>5, <2>5, <3>1
    <3> QED
      BY <3>2 DEF IsHead
  <2>8. \A m \in pos .. at : ~IsHead(readout, m)
    <3> TAKE m \in pos .. at
    <3>1. m - pos + 1 \in 1..i /\ pos + (m - pos + 1) - 1 = m
      BY <1>1, <2>6
    <3> QED
      BY <2>7, <3>1
  <2>9. IsHead(readout, h) /\ \A m \in h + 1 .. at - 1 : ~IsHead(readout, m)
    BY <1>4 DEF Follows
  <2>10. h \in 1 .. pos - 1
    BY <1>1, <1>4, <2>6, <2>8, <2>9
  <2>11. CASE Headers(seg) = {}
    <3>1. Follows(readout, h, pos)
      BY <1>1, <2>6, <2>9, <2>10 DEF Follows
    <3>2. ~gap
      <4>1. "header" \notin Kinds(seg)
        BY <1>1, <2>11 DEF Kinds, Headers
      <4> QED
        BY <2>2, <4>1
    <3>3. readout[h].x = current
      BY <2>2, <2>10, <3>1, <3>2 DEF PlaceInv
    <3> QED
      BY <1>4, <2>1, <2>2, <3>3
  <2>12. CASE Headers(seg) # {}
    <3> DEFINE k == FirstOf(Headers(seg))
    <3>1. k \in Headers(seg) /\ \A j \in Headers(seg) : k <= j
      BY <1>6, <2>12, FirstIs
    <3>2. current = Pred[seg[k].x]
      BY <1>8, <1>10, <2>2, <2>12
    <3> HIDE DEF k
    <3>3. k \in 1..n /\ k > i /\ IsHead(seg, k)
      BY <1>5, <1>6, <1>10, <3>1
    <3> DEFINE m == pos + k - 1
    <3>4. m \in DOMAIN readout /\ readout[m] = seg[k] /\ IsHead(readout, m)
      BY <1>2, <2>5, <3>3 DEF IsHead
    <3>5. \A l \in 1 .. k - 1 : ~IsHead(readout, pos + l - 1)
      <4> TAKE l \in 1 .. k - 1
      <4>1. l \in 1..n /\ l \notin Headers(seg)
        BY <3>1, <3>3
      <4>2. ~IsHead(seg, l) /\ seg[l] = readout[pos + l - 1]
        BY <1>2, <1>5, <2>5, <4>1
      <4> QED
        BY <4>2 DEF IsHead
    <3>6. \A l \in h + 1 .. m - 1 : ~IsHead(readout, l)
      <4> TAKE l \in h + 1 .. m - 1
      <4>1. CASE l < pos
        BY <1>1, <2>6, <2>9, <4>1
      <4>2. CASE l >= pos
        <5>1. l - pos + 1 \in 1 .. k - 1 /\ pos + (l - pos + 1) - 1 = l
          BY <1>1, <3>3, <4>2
        <5> QED
          BY <3>5, <5>1
      <4> QED
        BY <1>1, <4>1, <4>2
    <3>7. h \in 1 .. m - 1 /\ h < m
      BY <1>1, <2>10, <3>3
    <3> HIDE DEF m
    <3>8. Follows(readout, h, m)
      BY <2>9, <3>6, <3>7 DEF Follows
    <3>9. Pred[seg[k].x] = readout[h].x
      <4>1. Pred[readout[m].x] = readout[h].x \/ ~Opens(Pred[readout[m].x])
        BY <1>1, <3>4, <3>7, <3>8 DEF InOrder
      <4>2. Opens(current)
        BY <2>2 DEF PlaceInv
      <4> QED
        BY <3>2, <3>4, <4>1, <4>2
    <3> QED
      BY <1>4, <2>1, <2>2, <3>2, <3>9
  <2> QED
    BY <2>11, <2>12
<1> QED
  BY <1>9, <1>10

\* So a segment adds no foreign vote.
LEMMA FewRouted ==
  ASSUME TypeInv, PlaceInv, TextsInOrder, NEW n \in Nat \ {0}, NEW seg, seg = Clauses(pos, n),
         gap => Kinds(seg) \cap {"area", "recap", "header"} # {}
  PROVE  Few(Routed(seg).votes)
<1>1. /\ IsSegment(seg) /\ Len(seg) = n /\ VoterType(voters) /\ current \in Period \cup {None}
  BY ClausesTyped DEF TypeInv, IsSegment
<1>2. ASSUME NEW s \in 1..Len(seg), BeginsSpan(seg, s) PROVE OwnSpan(seg, s)
  <2> SUFFICES ASSUME PeriodAt(seg, s) # None, NEW f \in Field \cup {"steady"}, NEW v \in Stated(seg, s, f)
               PROVE  v.of = PeriodAt(seg, s)
    BY DEF OwnSpan
  <2> DEFINE S == {i \in s..Len(seg) : /\ \A h \in Headers(seg) : h <= s \/ i < h
                                       /\ seg[i].kind = f}
  <2>1. S # {} /\ v = seg[FirstOf(S)].x
    BY DEF Stated
  <2>2. S \in SUBSET (1..Len(seg))
    BY <1>1
  <2> DEFINE i == FirstOf(S)
  <2>3. i \in S
    BY <1>1, <2>1, <2>2, FirstIs
  <2>4. /\ i \in 1..n /\ i \in s..Len(seg) /\ seg[i].kind \in Field \cup {"steady"}
        /\ \A h \in Headers(seg) : h <= s \/ i < h
    BY <1>1, <2>3
  <2> HIDE DEF S
  <2>5. v = seg[i].x
    BY <2>1
  <2> HIDE DEF i
  <2>6. {h \in Headers(seg) : h <= i} = {h \in Headers(seg) : h <= s}
    <3>1. Headers(seg) \in SUBSET (1..n)
      BY <1>1 DEF Headers, IsSegment
    <3> QED
      BY <1>1, <2>4, <3>1
  <2>7. PeriodAt(seg, i) = PeriodAt(seg, s)
    BY <2>6 DEF PeriodAt
  <2> QED
    BY <2>4, <2>5, <2>7, OwnValue
<1> DEFINE T == {done \in Routings : Few(done.votes)}
           base == [votes |-> voters, slots |-> {}]
<1>3. base \in T
  <2>1. base \in [votes : [Period -> [Field -> Ballots]], slots : SUBSET Slots] /\ Keeps(base)
    BY <1>1 DEF VoterType, Keeps
  <2>2. base \in Routings /\ base.votes = voters
    BY <2>1 DEF Routings
  <2>3. Few(voters)
    <3>1. \A p \in Period, f \in Field : Cardinality(ForeignIn(voters[p][f], p)) \in Nat
      BY <1>1, ForeignCounts DEF VoterType
    <3> QED
      BY <3>1 DEF Few
  <2> QED
    BY <2>2, <2>3
<1>4. ASSUME NEW done \in T, NEW s \in 1..Len(seg), BeginsSpan(seg, s)
      PROVE  RouteSpan(done, seg, s) \in T
  BY <1>1, <1>2, <1>4, RouteSpanIs, FewSpan
<1> HIDE DEF base, T
<1>5. Routed(seg) \in T
  BY <1>1, <1>3, <1>4, RoutedIn DEF base
<1> QED
  BY <1>5 DEF T

LEMMA PlaceHear ==
  ASSUME TypeInv, PlaceInv, TextsInOrder, NEW n \in Nat \ {0}, NEW seg, seg = Clauses(pos, n),
         current' = IF Headers(seg) = {} THEN Carried(seg) ELSE seg[LastOf(Headers(seg))].x,
         gap' = (gap /\ Kinds(seg) \cap {"area", "recap", "header"} = {}),
         readout' = readout, Advance(n)
  PROVE  PlaceInv'
<1>1. /\ StationType /\ readout \in Readouts /\ InOrder(readout) /\ current \in Period \cup {None}
      /\ Len(seg) = n /\ DOMAIN seg = 1..n /\ pos \in Nat /\ Len(readout) \in Nat
  <2>1. StationType /\ readout \in Readouts /\ InOrder(readout) /\ current \in Period \cup {None}
    BY DEF TypeInv, StationType, TextsInOrder
  <2> QED
    BY <2>1, ClausesTyped, TextIs
<1>2. \A k \in 1..n : seg[k] = readout[Place(k)] /\ Place(k) \in DOMAIN readout
  BY <1>1, PlaceIs
<1>3. \A k \in 1..n : k \in Headers(seg) <=> IsHead(seg, k)
  BY <1>1 DEF Headers, IsHead
<1>4. Headers(seg) \in SUBSET (1..n)
  BY <1>1 DEF Headers
<1>5. pos' = Place(n + 1)
  <2>1. pos + (n + 1) - 2 = pos + n - 1
    BY <1>1
  <2> QED
    BY <2>1 DEF Advance, Place
<1>6. CASE Headers(seg) # {}
  <2> DEFINE k == LastOf(Headers(seg))
  <2>1. k \in Headers(seg) /\ \A j \in Headers(seg) : j <= k
    BY <1>4, <1>6, LastIs
  <2>2. current' = seg[k].x
    BY <1>6
  <2> HIDE DEF k
  <2>3. k \in 1..n /\ IsHead(seg, k) /\ \A j \in k + 1 .. n : ~IsHead(seg, j)
    BY <1>3, <1>4, <2>1
  <2>4. Opens(current')
    BY <1>1, <1>2, <2>2, <2>3 DEF Opens, IsHead
  <2>5. Follows(seg, k, n + 1)
    BY <2>3 DEF Follows
  <2>6. ASSUME NEW h \in 1 .. pos' - 1, Follows(readout, h, pos') PROVE readout[h].x = current'
    <3>1. n + 1 \in 1 .. n + 1 /\ k \in 1 .. (n + 1) - 1
      BY <2>3
    <3>2. readout[h] = seg[k]
      BY <1>1, <1>5, <2>5, <2>6, <3>1, LastHeader
    <3> QED
      BY <2>2, <3>2
  <2> QED
    BY <2>4, <2>6 DEF PlaceInv, Opens, Follows, IsHead
<1>7. CASE Headers(seg) = {} /\ current' # None
  <2>1. Kinds(seg) \cap {"area", "recap"} = {} /\ current' = current /\ current # None
    BY <1>7 DEF Carried
  <2>2. "header" \notin Kinds(seg)
    BY <1>1, <1>7 DEF Kinds, Headers
  <2>3. Kinds(seg) \cap {"area", "recap", "header"} = {}
    BY <2>1, <2>2
  <2>4. \A k \in 1..n : seg[k].kind # "area"
    BY <1>1, <2>1 DEF Kinds
  <2>5. \A k \in 1..n : Place(k) # 1
    BY <1>1, <1>2, <2>4 DEF InOrder
  <2>6. pos >= 2 /\ pos + n - 1 <= Len(readout) /\ \A k \in 1..n : Place(k) = pos + k - 1
    BY <1>1, <2>5, NoWrap
  <2>7. \A m \in pos .. pos + n - 1 : ~IsHead(readout, m)
    <3> TAKE m \in pos .. pos + n - 1
    <3>1. m - pos + 1 \in 1..n /\ pos + (m - pos + 1) - 1 = m
      BY <1>1
    <3>2. seg[m - pos + 1] = readout[m] /\ ~IsHead(seg, m - pos + 1)
      BY <1>2, <1>3, <1>7, <2>6, <3>1
    <3> QED
      BY <3>2 DEF IsHead
  <2>8. pos' = 1 \/ pos' = pos + n
    <3>1. pos + n - 1 \in Nat /\ Len(readout) \in Nat \ {0} /\ pos + n - 1 <= Len(readout)
      BY <1>1, <2>6, TextIs
    <3>2. pos' = ((pos + n - 1) % Len(readout)) + 1
      BY DEF Advance
    <3> DEFINE x == pos + n - 1
               L == Len(readout)
    <3>3. x \in Nat /\ L \in Nat \ {0} /\ x <= L /\ pos' = (x % L) + 1
      BY <3>1, <3>2
    <3> HIDE DEF L
    <3>4. x = L => pos' = 1
      BY <3>3
    <3>5. x < L => pos' = x + 1
      BY <3>3
    <3> QED
      BY <1>1, <3>3, <3>4, <3>5
  <2>9. ASSUME ~gap', NEW h \in 1 .. pos' - 1, Follows(readout, h, pos') PROVE readout[h].x = current'
    <3>1. ~gap
      BY <2>3, <2>9
    <3>2. pos' = pos + n /\ h \in 1 .. pos + n - 1
      BY <1>1, <2>8, <2>9
    <3>3. IsHead(readout, h) /\ \A m \in h + 1 .. pos + n - 1 : ~IsHead(readout, m)
      BY <1>1, <2>9, <3>2 DEF Follows
    <3>4. h \in 1 .. pos - 1
      BY <1>1, <2>7, <3>2, <3>3
    <3>5. Follows(readout, h, pos)
      BY <1>1, <3>3, <3>4 DEF Follows
    <3> QED
      BY <2>1, <3>1, <3>4, <3>5 DEF PlaceInv
  <2>10. Opens(current)
    BY <2>1 DEF PlaceInv
  <2> QED
    BY <2>1, <2>9, <2>10 DEF PlaceInv, Opens, Follows, IsHead
<1>8. CASE current' = None
  BY <1>8 DEF PlaceInv
<1> QED
  BY <1>6, <1>7, <1>8

\* The parts of Hear that place the aggregator in the text.
LEMMA HearPlaces ==
  ASSUME NEW n \in 1..MaxClauses, Hear(n), NEW seg, seg = Clauses(pos, n)
  PROVE  /\ voters' = Routed(seg).votes /\ readout' = readout /\ Advance(n)
         /\ current' = IF Headers(seg) = {} THEN Carried(seg) ELSE seg[LastOf(Headers(seg))].x
         /\ gap' = (gap /\ Kinds(seg) \cap {"area", "recap", "header"} = {})
<1> DEFINE Does(s, d) ==
      /\ voters' = d.votes /\ current' = (IF Headers(s) = {} THEN Carried(s) ELSE s[LastOf(Headers(s))].x)
      /\ gap' = (gap /\ Kinds(s) \cap {"area", "recap", "header"} = {})
<1>1. Does(Clauses(pos, n), Routed(Clauses(pos, n)))
  BY DEF Hear
<1>2. readout' = readout /\ Advance(n)
  BY DEF Hear
<1> QED
  BY <1>1, <1>2, Zenon

LEMMA PlaceStep ==
  ASSUME TypeInv, PlaceInv, TextsInOrder, [Next]_vars
  PROVE  PlaceInv'
<1>1. CASE UNCHANGED <<current, gap, readout, pos>>
  BY <1>1 DEF PlaceInv, Opens, Follows, IsHead
<1>2. CASE Revise
  <2>1. pos' = 1 /\ current' = current
    BY <1>2 DEF Revise, aggregator
  <2>2. 1 .. pos' - 1 = {}
    BY <2>1
  <2> QED
    BY <2>1, <2>2 DEF PlaceInv, Opens, IsHead
<1>3. ASSUME NEW n \in 1..MaxClauses, Lose(n) PROVE PlaceInv'
  <2>1. gap' /\ current' = current
    BY <1>3 DEF Lose, aggregator
  <2> QED
    BY <2>1 DEF PlaceInv, Opens, IsHead
<1>4. ASSUME NEW n \in 1..MaxClauses, Hear(n) PROVE PlaceInv'
  <2>1. n \in Nat \ {0}
    BY ForecastAssumption
  <2> QED
    BY <1>4, <2>1, HearPlaces, PlaceHear
<1>5. CASE Restart
  BY <1>5 DEF Restart, PlaceInv
<1>6. ASSUME NEW p \in Period, WriteRow(p) PROVE PlaceInv'
  BY <1>1, <1>6 DEF WriteRow, station, aggregator
<1>7. CASE UNCHANGED vars
  BY <1>1, <1>7 DEF vars, station, aggregator
<1> QED
  BY <1>2, <1>3, <1>4, <1>5, <1>6, <1>7 DEF Next

\* What a step may do to the foreign votes.
KeepsOwn ==
  deaths' = deaths /\ ~(gap /\ gap') =>
    \A p \in Period, f \in Field : Cardinality(Foreign(p, f)') <= Cardinality(Foreign(p, f))

LEMMA OwnStep ==
  ASSUME TypeInv, PlaceInv, TextsInOrder, [Next]_vars
  PROVE  KeepsOwn
<1>1. \A p \in Period, f \in Field :
        /\ Foreign(p, f) = ForeignIn(voters[p][f], p) /\ Foreign(p, f)' = ForeignIn(voters'[p][f], p)
        /\ Cardinality(Foreign(p, f)) \in Nat
  <2>1. \A p \in Period, f \in Field :
          Foreign(p, f) = ForeignIn(voters[p][f], p) /\ Foreign(p, f)' = ForeignIn(voters'[p][f], p)
    BY DEF Foreign, ForeignIn
  <2>2. \A p \in Period, f \in Field : voters[p][f] \in Ballots
    BY DEF TypeInv, VoterType
  <2> QED
    BY <2>1, <2>2, ForeignCounts
<1>2. CASE voters' = voters
  BY <1>1, <1>2 DEF KeepsOwn
<1>3. ASSUME NEW n \in 1..MaxClauses, Hear(n) PROVE KeepsOwn
  <2> SUFFICES ASSUME ~(gap /\ gap') PROVE Few(voters')
    BY <1>1 DEF KeepsOwn, Few
  <2>1. n \in Nat \ {0}
    BY ForecastAssumption
  <2> DEFINE seg == Clauses(pos, n)
  <2>2. voters' = Routed(seg).votes /\ gap' = (gap /\ Kinds(seg) \cap {"area", "recap", "header"} = {})
    BY <1>3, HearPlaces
  <2> HIDE DEF seg
  <2>3. gap => Kinds(seg) \cap {"area", "recap", "header"} # {}
    BY <2>2, Zenon
  <2> QED
    BY <2>1, <2>2, <2>3, FewRouted DEF seg
<1>4. CASE Restart
  <2>1. deaths' = deaths + 1 /\ deaths \in Nat
    BY <1>4, Consts DEF Restart, TypeInv, StationType
  <2>2. deaths' # deaths
    BY <2>1
  <2> QED
    BY <2>2 DEF KeepsOwn
<1>5. CASE Revise
  BY <1>2, <1>5 DEF Revise, aggregator
<1>6. ASSUME NEW n \in 1..MaxClauses, Lose(n) PROVE KeepsOwn
  BY <1>2, <1>6 DEF Lose, aggregator
<1>7. ASSUME NEW p \in Period, WriteRow(p) PROVE KeepsOwn
  BY <1>2, <1>7 DEF WriteRow, aggregator
<1>8. CASE UNCHANGED vars
  BY <1>2, <1>8 DEF vars, aggregator
<1> QED
  BY <1>3, <1>4, <1>5, <1>6, <1>7, <1>8 DEF Next

-----------------------------------------------------------------------------
(* The theorems. *)

LEMMA InitIInv == Init => IInv
<1> SUFFICES ASSUME Init PROVE IInv
  OBVIOUS
<1>1. /\ writing = {} /\ ~opened /\ \A p \in Period, f \in Field : voters[p][f] = <<>> /\ silence[p][f] = Never
  BY DEF Init, NoVotes
<1>2. TypeInv
  BY InitTyped
<1>3. Rows(Current) = {}
  <2>1. \A p \in Period, f \in Field : Current[p][f] = None
    BY <1>1, <1>2, CurrentIs
  <2>2. Current = Blank
    BY <1>2, <2>1, CurrentIs DEF Blank, Rowss
  <2> QED
    BY <2>2 DEF Rows
<1>4. IssuedInv
  BY <1>1, <1>3 DEF IssuedInv
<1>5. KeptInv /\ AgedInv
  BY <1>1, Consts DEF KeptInv, AgedInv
<1> QED
  BY <1>2, <1>4, <1>5 DEF IInv

\* The invariant: the ranges; what of an issuance is written and what is missing; what a
\* recent statement leaves in the aggregator; and what it knows of its values' ages.
LEMMA Invariance == Spec => []IInv
<1>1. ASSUME IInv, [Next]_vars PROVE IInv'
  BY <1>1, TypeStep, IssuedStep, KeptStep, AgedStep DEF IInv
<1> QED
  BY InitIInv, <1>1, PTL DEF Spec

\* Every variable stays in its range whatever is heard, lost or restarted: no voter
\* outgrows its deque and write_forecast is only given periods that have a value.
THEOREM TypeCorrect == Spec => []TypeOK
<1>1. ASSUME IInv PROVE TypeOK
  <2>1. AggregatorType
    <3>1. \A p \in Period, f \in Field :
            /\ voters[p][f] \in Ballots /\ Len(voters[p][f]) <= MaxLen /\ age[p][f] \in 0..Never
      BY <1>1 DEF IInv, TypeInv, VoterType, Ages
    <3> QED
      BY <1>1, <3>1 DEF AggregatorType, IInv, TypeInv, Ballots
  <2> QED
    BY <1>1, <2>1 DEF TypeOK, IInv, TypeInv
<1> QED
  BY Invariance, <1>1, PTL

\* Whenever write_forecast is not at work, the newest issuance of some area is what
\* ForecastAggregator's votes say, or they say nothing: for every text, every pattern of
\* lost segments and restarts at any point, also in the middle of an issuance.
THEOREM ServesVotes == Spec => []ServedIsVoted
<1>1. ASSUME IInv PROVE ServedIsVoted
  BY <1>1 DEF IInv, IssuedInv, ServedIsVoted
<1> QED
  BY Invariance, <1>1, PTL

\* The votes say something of a value stated in the last StalePasses readouts, and what
\* they say is served: prime brings back all that a restart needs, except what the torn
\* issuance, or the one written under another area, had not.
THEOREM RestartKeeps == Spec => []RestartKeepsForecast
<1>1. ASSUME IInv PROVE RestartKeepsForecast
  <2> SUFFICES ASSUME writing = {}, NEW p \in Period, NEW f \in Field,
                      silence[p][f] < Never, <<p, f>> \notin torn
               PROVE  Served(p, f)
    BY DEF RestartKeepsForecast
  <2>1. TypeInv
    BY <1>1 DEF IInv
  <2>2. voters[p][f] # <<>> /\ age[p][f] <= silence[p][f]
    BY <1>1 DEF IInv, KeptInv
  <2>3. age[p][f] <= StalePasses
    BY <2>1, <2>2, Consts DEF TypeInv, AuxType, Ages
  <2>4. Current[p][f] # None
    BY <2>1, <2>2, <2>3, CurrentIs
  <2>5. Rows(Current) # {}
    BY <2>1, <2>4, CurrentIs, RowsAre
  <2>6. PICK a \in Area : latest[a] = Current
    BY <1>1, <2>5 DEF IInv, IssuedInv
  <2> QED
    BY <2>4, <2>6 DEF Served
<1> QED
  BY Invariance, <1>1, PTL

\* In the process's first life, and with one area, a value the station has stopped
\* stating for more than StalePasses readouts is no longer served as soon as anything
\* else is: its slot went stale, so the votes say nothing of it, and what is served is
\* what they say.
THEOREM StoppedAgeOut == Spec => []StoppedValuesAgeOut
<1>1. ASSUME IInv PROVE StoppedValuesAgeOut
  <2> SUFFICES ASSUME writing = {}, deaths = 0, Rows(Current) # {},
                      \A a \in Area \ {city} : latest[a] = Blank,
                      NEW p \in Period, NEW f \in Field, Served(p, f)
               PROVE  silence[p][f] < Never
    BY DEF StoppedValuesAgeOut
  <2>1. TypeInv
    BY <1>1 DEF IInv
  <2>2. PICK a \in Area : latest[a] = Current
    BY <1>1 DEF IInv, IssuedInv
  <2>3. Rows(Blank) = {} /\ Blank[p][f] = None
    BY DEF Rows, Blank
  <2>4. latest[city] = Current
    BY <2>2, <2>3
  <2>5. PICK b \in Area : latest[b][p][f] # None
    BY DEF Served
  <2>6. Current[p][f] # None
    BY <2>3, <2>4, <2>5
  <2>7. voters[p][f] # <<>> /\ age[p][f] <= StalePasses
    BY <2>1, <2>6, CurrentIs
  <2>8. silence[p][f] = age[p][f]
    BY <1>1, <2>7 DEF IInv, AgedInv
  <2> QED
    BY <2>1, <2>7, <2>8, Consts DEF TypeInv, Ages
<1> QED
  BY Invariance, <1>1, PTL

\* With texts in order, no segment with a header votes a value onto a period the station
\* was not speaking of, and none without a header does unless a segment was lost before
\* it: wherever the segments are cut, whatever is revised, and however often the text is
\* read.  It rests on what _split_spans and update do with a carried period: PlaceInv.
THEOREM OwnPeriodKept == TextsInOrder => (Spec => OwnPeriod)
<1> SUFFICES ASSUME TextsInOrder PROVE Spec => OwnPeriod
  OBVIOUS
<1>1. Init => PlaceInv
  BY DEF Init, PlaceInv
<1>2. IInv /\ PlaceInv /\ [Next]_vars => PlaceInv'
  BY PlaceStep DEF IInv
<1>3. IInv /\ PlaceInv /\ [Next]_vars =>
        [deaths' = deaths /\ ~(gap /\ gap') =>
           \A p \in Period, f \in Field : Cardinality(Foreign(p, f)') <= Cardinality(Foreign(p, f))]_vars
  BY OwnStep DEF IInv, KeepsOwn
<1> QED
  BY Invariance, <1>1, <1>2, <1>3, PTL DEF Spec, OwnPeriod

=============================================================================
