----------------------------- MODULE FramesProofs -----------------------------
(***************************************************************************)
(* Theorems about Frames: for every stream and every setting of the two    *)
(* windows, what the segmenter keeps of the speech and which headers the   *)
(* monitor raises.                                                         *)
(***************************************************************************)
EXTENDS Frames, FiniteSetTheorems, SequenceTheorems, TLAPS

-----------------------------------------------------------------------------
(* Induction on the naturals, in the first-order form the provers can use. *)

\* A set of naturals that is not empty has a least element.
LEMMA LeastNat ==
  ASSUME NEW T \in SUBSET Nat, T # {}
  PROVE  \E x \in T : \A y \in T : x <= y
<1>1. PICK x \in T : \A y \in T : ~ (<<y, x>> \in OpToRel(<, Nat))
  BY NatLessThanWellFounded, WFMin
<1>2. \A y \in T : ~ (y < x)
  BY <1>1 DEF OpToRel
<1> QED
  BY <1>2

\* the first-order form of induction, for a set in place of a predicate.
LEMMA SetInduction ==
  ASSUME NEW S, 0 \in S, \A n \in Nat : n \in S => n + 1 \in S
  PROVE  Nat \subseteq S
<1> SUFFICES ASSUME Nat \ S # {} PROVE FALSE
  OBVIOUS
<1>1. PICK x \in Nat \ S : \A y \in Nat \ S : x <= y
  BY LeastNat
<1>2. x # 0 /\ x - 1 \in Nat /\ x - 1 \in S
  BY <1>1
<1>3. (x - 1) + 1 \in S
  BY <1>2
<1> QED
  BY <1>1, <1>3

\* The same up to a bound.
LEMMA BoundedInduction ==
  ASSUME NEW n \in Nat, NEW S, 0 \in S, \A i \in 1..n : i - 1 \in S => i \in S
  PROVE  0..n \subseteq S
<1> DEFINE U == {i \in Nat : i <= n => i \in S}
<1>1. 0 \in U
  OBVIOUS
<1>2. ASSUME NEW i \in Nat, i \in U PROVE i + 1 \in U
  <2>1. CASE i + 1 <= n
    <3>1. i \in S /\ i + 1 \in 1..n /\ (i + 1) - 1 = i
      BY <1>2, <2>1
    <3> QED
      BY <3>1
  <2>2. CASE ~ (i + 1 <= n)
    BY <1>2, <2>2
  <2> QED
    BY <2>1, <2>2
<1> HIDE DEF U
<1>3. Nat \subseteq U
  BY <1>1, <1>2, SetInduction
<1> QED
  BY <1>3 DEF U

\* A recursion on 0..n whose step stays in T has a solution.
Solvable(T, base, n, step) ==
  \E f \in [0..n -> T] : f[0] = base /\ \A i \in 1..n : f[i] = step[<<f[i - 1], i>>]

LEMMA Recursion ==
  ASSUME NEW T, NEW base \in T, NEW n \in Nat, NEW step \in [T \X (1..n) -> T]
  PROVE  Solvable(T, base, n, step)
<1> DEFINE Solves(f, k) == f[0] = base /\ \A i \in 1..k : f[i] = step[<<f[i - 1], i>>]
           S == {k \in 0..n : \E f \in [0..k -> T] : Solves(f, k)}
<1>1. 0 \in S
  <2> DEFINE f == [i \in 0..0 |-> base]
  <2>1. f \in [0..0 -> T] /\ Solves(f, 0)
    OBVIOUS
  <2> HIDE DEF f, Solves
  <2> QED
    BY <2>1
<1>2. ASSUME NEW k \in 1..n, k - 1 \in S PROVE k \in S
  <2>1. PICK f \in [0..(k - 1) -> T] : Solves(f, k - 1)
    BY <1>2
  <2> DEFINE g == [i \in 0..k |-> IF i = k THEN step[<<f[k - 1], k>>] ELSE f[i]]
  <2>2. f[k - 1] \in T /\ step[<<f[k - 1], k>>] \in T
    OBVIOUS
  <2>3. g \in [0..k -> T]
    BY <2>2
  <2>4. \A i \in 0..(k - 1) : g[i] = f[i]
    OBVIOUS
  <2>5. g[k] = step[<<f[k - 1], k>>]
    OBVIOUS
  <2> HIDE DEF g
  <2>6. Solves(g, k)
    <3>1. g[0] = base
      BY <2>1, <2>4
    <3>2. ASSUME NEW i \in 1..k PROVE g[i] = step[<<g[i - 1], i>>]
      <4>1. CASE i = k
        BY <2>4, <2>5, <4>1
      <4>2. CASE i # k
        <5>1. i \in 1..(k - 1) /\ i \in 0..(k - 1) /\ i - 1 \in 0..(k - 1)
          BY <4>2
        <5> QED
          BY <2>1, <2>4, <5>1
      <4> QED
        BY <4>1, <4>2
    <3> QED
      BY <3>1, <3>2
  <2> QED
    BY <2>3, <2>6
<1> HIDE DEF S
<1>3. n \in S
  <2>1. 0..n \subseteq S
    BY <1>1, <1>2, BoundedInduction
  <2> QED
    BY <2>1
<1> QED
  BY <1>3 DEF S, Solvable

-----------------------------------------------------------------------------
(* Sequences. *)

\* The last n elements of a sequence.
LEMMA LastOfProperties ==
  ASSUME NEW S, NEW s \in Seq(S), NEW n \in Nat
  PROVE  /\ LastOf(s, n) \in Seq(S)
         /\ Len(LastOf(s, n)) = (IF Len(s) > n THEN n ELSE Len(s))
         /\ \A i \in 1..Len(LastOf(s, n)) : LastOf(s, n)[i] = s[Len(s) - Len(LastOf(s, n)) + i]
<1> DEFINE m == IF Len(s) > n THEN Len(s) - n + 1 ELSE 1
<1>1. Len(s) \in Nat /\ m \in Int /\ m >= 1 /\ \A i \in m..Len(s) : s[i] \in S
  <2>1. Len(s) \in Nat
    BY LenProperties
  <2>2. \A i \in m..Len(s) : i \in 1..Len(s)
    BY <2>1
  <2> QED
    BY <2>1, <2>2, ElementOfSeq
<1>2. LastOf(s, n) = SubSeq(s, m, Len(s))
  BY DEF LastOf
<1>3. Len(s) - m + 1 = (IF Len(s) > n THEN n ELSE Len(s))
  BY <1>1
<1> HIDE DEF m
<1>4. /\ LastOf(s, n) \in Seq(S)
      /\ Len(LastOf(s, n)) = IF m <= Len(s) THEN Len(s) - m + 1 ELSE 0
      /\ \A i \in 1 .. Len(s) - m + 1 : LastOf(s, n)[i] = s[m + i - 1]
  BY <1>1, <1>2, SubSeqProperties
<1>5. Len(LastOf(s, n)) = Len(s) - m + 1
  BY <1>1, <1>3, <1>4
<1>6. \A i \in 1..Len(LastOf(s, n)) : m + i - 1 = Len(s) - Len(LastOf(s, n)) + i
  BY <1>1, <1>5
<1> QED
  BY <1>3, <1>4, <1>5, <1>6

\* What is remembered or about to be raised.
Memory == [recent : Seq(Header), alerts : Seq({Alert(h) : h \in Header})]

\* One more header of a burst keeps the memory typed and within its depth.
LEMMA RaiseKeeps ==
  ASSUME NEW s \in Memory, NEW h \in Header
  PROVE  /\ Raise(s, h) \in Memory
         /\ Len(s.recent) <= RecentRaw => Len(Raise(s, h).recent) <= RecentRaw
<1>1. CASE h \in Range(s.recent)
  BY <1>1 DEF Raise
<1>2. CASE h \notin Range(s.recent)
  <2>1. Append(s.recent, h) \in Seq(Header)
    BY DEF Memory
  <2>2. RecentRaw \in Nat \ {0}
    BY FramesAssumption
  <2>3. Remember(s.recent, h) \in Seq(Header) /\ Len(Remember(s.recent, h)) <= RecentRaw
    <3> DEFINE t == Append(s.recent, h)
    <3>1. t \in Seq(Header) /\ Len(t) \in Nat /\ RecentRaw \in Nat
      BY <2>1, <2>2, LenProperties
    <3> HIDE DEF t
    <3>2. LastOf(t, RecentRaw) \in Seq(Header)
          /\ Len(LastOf(t, RecentRaw)) = (IF Len(t) > RecentRaw THEN RecentRaw ELSE Len(t))
      BY <3>1, LastOfProperties
    <3>3. Len(LastOf(t, RecentRaw)) <= RecentRaw
      BY <3>1, <3>2
    <3> QED
      BY <3>2, <3>3 DEF Remember, t
  <2>4. Append(s.alerts, Alert(h)) \in Seq({Alert(g) : g \in Header})
    BY DEF Memory
  <2> QED
    BY <1>2, <2>3, <2>4 DEF Raise, Memory
<1> QED
  BY <1>1, <1>2

\* A sequence that repeats nothing.
Distinct(s) == \A i, j \in DOMAIN s : s[i] = s[j] => i = j

\* Distinct headers, one of which is missing, are fewer than all of them.
LEMMA RoomForOneMore ==
  ASSUME NEW s \in Seq(Header), Distinct(s), NEW h \in Header \ Range(s)
  PROVE  Len(s) + 1 <= Cardinality(Header)
<1> DEFINE T == Header \ {h}
<1>1. IsFiniteSet(Header)
  BY FramesAssumption
<1>2. IsFiniteSet(T) /\ Cardinality(T) = Cardinality(Header) - 1
  BY <1>1, FS_RemoveElement
<1>3. Len(s) \in Nat /\ DOMAIN s = 1..Len(s) /\ s \in [1..Len(s) -> Header]
  BY LenProperties
<1>4. \A i \in 1..Len(s) : s[i] \in T
  BY <1>3 DEF Range
<1> HIDE DEF T
<1>5. s \in [1..Len(s) -> T]
  BY <1>3, <1>4
<1>6. s \in Injection(1..Len(s), T)
  BY <1>3, <1>5, Zenon DEF Injection, IsInjective, Distinct
<1>7. Cardinality(1..Len(s)) <= Cardinality(T)
  BY <1>2, <1>6, FS_Injection
<1>8. Cardinality(1..Len(s)) = Len(s)
  BY <1>3, FS_Interval
<1>9. Cardinality(Header) \in Nat
  BY <1>1, FS_CardinalityType
<1> QED
  BY <1>2, <1>3, <1>7, <1>8, <1>9

\* What one header changes: nothing when it is remembered; else it is remembered and
\* raised, and nothing is forgotten while there is room for it.
LEMMA RaiseTells ==
  ASSUME NEW s \in Memory, NEW h \in Header, h \notin Range(s.recent)
  PROVE  /\ Raise(s, h).alerts = Append(s.alerts, Alert(h))
         /\ Range(Raise(s, h).recent) \subseteq Range(s.recent) \cup {h}
         /\ Cardinality(Header) <= RecentRaw /\ Distinct(s.recent) =>
              /\ Distinct(Raise(s, h).recent)
              /\ Range(Raise(s, h).recent) = Range(s.recent) \cup {h}
<1> DEFINE t == Append(s.recent, h)
           r == LastOf(t, RecentRaw)
           n == Len(s.recent)
<1>1. s.recent \in Seq(Header) /\ n \in Nat /\ DOMAIN s.recent = 1..n
  BY LenProperties DEF Memory
<1>2. t \in Seq(Header) /\ Len(t) = n + 1 /\ t[n + 1] = h /\ \A i \in 1..n : t[i] = s.recent[i]
  BY <1>1
<1>3. RecentRaw \in Nat
  BY FramesAssumption
<1>4. Raise(s, h) = [recent |-> r, alerts |-> Append(s.alerts, Alert(h))]
  BY DEF Raise, Remember
<1> HIDE DEF t, n
<1>5. /\ r \in Seq(Header) /\ Len(r) = (IF n + 1 > RecentRaw THEN RecentRaw ELSE n + 1)
      /\ \A i \in 1..Len(r) : r[i] = t[n + 1 - Len(r) + i]
  <2>1. /\ r \in Seq(Header)
        /\ Len(r) = (IF Len(t) > RecentRaw THEN RecentRaw ELSE Len(t))
        /\ \A i \in 1..Len(r) : r[i] = t[Len(t) - Len(r) + i]
    BY <1>2, <1>3, LastOfProperties
  <2> HIDE DEF r
  <2>2. Len(r) \in Nat /\ \A i \in 1..Len(r) : Len(t) - Len(r) + i = n + 1 - Len(r) + i
    BY <1>1, <1>2, <1>3, <2>1
  <2>3. \A i \in 1..Len(r) : r[i] = t[n + 1 - Len(r) + i]
    BY <2>1, <2>2
  <2> QED
    BY <1>2, <2>1, <2>3
<1> HIDE DEF r
<1>6. Len(r) \in Nat /\ DOMAIN r = 1..Len(r)
  BY <1>5, LenProperties
<1>7. Range(r) \subseteq Range(s.recent) \cup {h}
  <2>1. ASSUME NEW i \in 1..Len(r) PROVE r[i] \in Range(s.recent) \cup {h}
    <3> DEFINE k == n + 1 - Len(r) + i
    <3>1. k \in 1..n + 1 /\ r[i] = t[k]
      BY <1>1, <1>3, <1>5, <1>6
    <3> HIDE DEF k
    <3>2. CASE k = n + 1
      BY <1>2, <3>1, <3>2
    <3>3. CASE k # n + 1
      <4>1. k \in 1..n
        BY <1>1, <3>1, <3>3
      <4>2. k \in DOMAIN s.recent /\ r[i] = s.recent[k]
        BY <1>1, <1>2, <3>1, <4>1
      <4> QED
        BY <4>2 DEF Range
    <3> QED
      BY <3>2, <3>3
  <2> QED
    BY <1>6, <2>1 DEF Range
<1>8. ASSUME Cardinality(Header) <= RecentRaw, Distinct(s.recent)
      PROVE  Distinct(r) /\ Range(r) = Range(s.recent) \cup {h}
  <2>1. n + 1 <= RecentRaw
    <3>1. n + 1 <= Cardinality(Header)
      BY <1>1, <1>8, RoomForOneMore DEF n
    <3>2. Cardinality(Header) \in Nat
      BY FramesAssumption, FS_CardinalityType
    <3> QED
      BY <1>1, <1>3, <1>8, <3>1, <3>2
  <2>2. Len(r) = n + 1 /\ \A i \in 1..n + 1 : r[i] = t[i]
    BY <1>1, <1>3, <1>5, <2>1
  <2>3. \A i \in 1..n : r[i] = s.recent[i] /\ r[i] # h
    BY <1>1, <1>2, <2>2 DEF Range
  <2>4. r[n + 1] = h
    BY <1>1, <1>2, <2>2
  <2>5. Distinct(r)
    <3> SUFFICES ASSUME NEW i \in 1..n + 1, NEW j \in 1..n + 1, r[i] = r[j] PROVE i = j
      BY <1>6, <2>2 DEF Distinct
    <3>1. CASE i \in 1..n /\ j \in 1..n
      BY <1>1, <1>8, <2>3, <3>1 DEF Distinct
    <3>2. CASE ~ (i \in 1..n /\ j \in 1..n)
      BY <1>1, <2>3, <2>4, <3>2
    <3> QED
      BY <3>1, <3>2
  <2>6. h \in Range(r)
    BY <1>1, <1>6, <2>2, <2>4 DEF Range
  <2>7. Range(s.recent) \subseteq Range(r)
    <3>1. \A i \in 1..n : i \in DOMAIN r
      BY <1>1, <1>6, <2>2
    <3> QED
      BY <1>1, <2>3, <3>1 DEF Range
  <2> QED
    BY <1>7, <2>5, <2>6, <2>7
<1> QED
  BY <1>4, <1>7, <1>8

\* The headers of a burst are taken one after another.
LEMMA FlushSteps ==
  ASSUME recent \in Seq(Header), NEW found \in Seq(Header)
  PROVE  \E after \in [0..Len(found) -> Memory] :
           /\ after[0] = [recent |-> recent, alerts |-> <<>>]
           /\ \A i \in 1..Len(found) : after[i] = Raise(after[i - 1], found[i])
           /\ Flush(found) = after[Len(found)]
<1> DEFINE n == Len(found)
           base == [recent |-> recent, alerts |-> <<>>]
           step == [p \in Memory \X (1..n) |-> Raise(p[1], found[p[2]])]
           Def(f) == [i \in 0..n |-> IF i = 0 THEN base ELSE Raise(f[i - 1], found[i])]
<1>1. n \in Nat /\ \A i \in 1..n : found[i] \in Header
  BY LenProperties, ElementOfSeq
<1>2. base \in Memory
  BY DEF Memory
<1>3. step \in [Memory \X (1..n) -> Memory]
  BY <1>1, RaiseKeeps
<1> HIDE DEF n, base, step
<1>4. \E f \in [0..n -> Memory] : f[0] = base /\ \A i \in 1..n : f[i] = step[<<f[i - 1], i>>]
  <2>1. Solvable(Memory, base, n, step)
    BY <1>1, <1>2, <1>3, Recursion, Zenon
  <2> QED
    BY <2>1 DEF Solvable
<1>10. PICK f \in [0..n -> Memory] : f[0] = base /\ \A i \in 1..n : f[i] = Raise(f[i - 1], found[i])
  <2>1. PICK f \in [0..n -> Memory] : f[0] = base /\ \A i \in 1..n : f[i] = step[<<f[i - 1], i>>]
    BY <1>4
  <2>2. ASSUME NEW i \in 1..n PROVE f[i] = Raise(f[i - 1], found[i])
    <3>1. i - 1 \in 0..n
      BY <1>1
    <3>2. <<f[i - 1], i>> \in Memory \X (1..n)
      BY <3>1
    <3> QED
      BY <2>1, <3>2 DEF step
  <2> QED
    BY <2>1, <2>2
<1>5. f = Def(f)
  <2>1. \A i \in 0..n : f[i] = Def(f)[i]
    BY <1>1, <1>10
  <2> QED
    BY <2>1
<1> DEFINE g == CHOOSE a : a = Def(a)
<1>6. g = Def(g)
  BY <1>5
<1>7. Flush(found) = g[n]
  BY DEF Flush, n, base
<1> HIDE DEF g
<1>8. g[0] = base /\ \A i \in 1..n : g[i] = Raise(g[i - 1], found[i])
  BY <1>1, <1>6
<1>9. g \in [0..n -> Memory]
  <2>1. \A i \in 1..n : g[i - 1] \in Memory => g[i] \in Memory
    BY <1>1, <1>8, RaiseKeeps
  <2> DEFINE S == {i \in 0..n : g[i] \in Memory}
  <2>2. 0 \in S /\ \A i \in 1..n : i - 1 \in S => i \in S
    BY <1>1, <1>2, <1>8, <2>1
  <2> HIDE DEF S
  <2>3. 0..n \subseteq S
    BY <1>1, <2>2, BoundedInduction
  <2> QED
    BY <1>6, <2>3 DEF S
<1> QED
  BY <1>7, <1>8, <1>9 DEF n, base

\* The headers some alerts raise.
RaisedIn(alerts) == {h \in Header : Alert(h) \in Range(alerts)}

\* A memory s that came of raising headers from the one of the monitor: what it remembers
\* was remembered or raised; with room for every header, none was forgotten, and those
\* raised are new and raised once.
Kept(s) ==
  /\ s \in Memory /\ Len(s.recent) <= RecentRaw
  /\ Range(s.recent) \subseteq Range(recent) \cup RaisedIn(s.alerts)
  /\ Cardinality(Header) <= RecentRaw /\ Distinct(recent) =>
       /\ Distinct(s.recent) /\ Distinct(s.alerts)
       /\ Range(recent) \subseteq Range(s.recent)
       /\ RaisedIn(s.alerts) \subseteq Range(s.recent) \ Range(recent)

LEMMA KeptStep ==
  ASSUME NEW s, Kept(s), NEW h \in Header, NEW t, t = Raise(s, h)
  PROVE  /\ Kept(t) /\ h \in Range(recent) \cup RaisedIn(t.alerts)
         /\ RaisedIn(s.alerts) \subseteq RaisedIn(t.alerts)
<1>1. CASE h \in Range(s.recent)
  <2>1. t = s
    BY <1>1 DEF Raise
  <2> QED
    BY <1>1, <2>1 DEF Kept
<1>2. CASE h \notin Range(s.recent)
  <2>1. s \in Memory /\ t \in Memory /\ Len(t.recent) <= RecentRaw
    BY RaiseKeeps DEF Kept
  <2>2. t.alerts = Append(s.alerts, Alert(h)) /\ Range(t.recent) \subseteq Range(s.recent) \cup {h}
    BY <1>2, <2>1, RaiseTells
  <2>3. s.alerts \in Seq({Alert(g) : g \in Header}) /\ Alert(h) \in {Alert(g) : g \in Header}
    BY <2>1 DEF Memory
  <2> DEFINE n == Len(s.alerts)
             A == {Alert(g) : g \in Header}
  <2>4. /\ n \in Nat /\ DOMAIN s.alerts = 1..n /\ DOMAIN t.alerts = 1..n + 1
        /\ t.alerts[n + 1] = Alert(h) /\ \A i \in 1..n : t.alerts[i] = s.alerts[i]
    <3> HIDE DEF A
    <3>1. n \in Nat /\ DOMAIN s.alerts = 1..n
      BY <2>3, LenProperties
    <3>2. /\ t.alerts \in Seq(A) /\ Len(t.alerts) = n + 1 /\ t.alerts[n + 1] = Alert(h)
          /\ \A i \in 1..n : t.alerts[i] = s.alerts[i]
      BY <2>2, <2>3, AppendProperties DEF A
    <3>3. DOMAIN t.alerts = 1..n + 1
      BY <3>2, LenProperties
    <3> QED
      BY <3>1, <3>2, <3>3
  <2> HIDE DEF n, A
  <2>5. \A g \in Header : Alert(g) = Alert(h) => g = h
    <3>1. \A g \in Header : Alert(g).header = g
      BY DEF Alert
    <3> QED
      BY <3>1
  <2>6. Range(t.alerts) = Range(s.alerts) \cup {Alert(h)}
    BY <2>4 DEF Range
  <2>7. RaisedIn(t.alerts) = RaisedIn(s.alerts) \cup {h}
    BY <2>5, <2>6 DEF RaisedIn
  <2>8. ASSUME Cardinality(Header) <= RecentRaw, Distinct(recent)
        PROVE  /\ Distinct(t.recent) /\ Distinct(t.alerts)
               /\ Range(recent) \subseteq Range(t.recent)
               /\ RaisedIn(t.alerts) \subseteq Range(t.recent) \ Range(recent)
    <3>1. /\ Distinct(s.recent) /\ Distinct(s.alerts)
          /\ Range(recent) \subseteq Range(s.recent)
          /\ RaisedIn(s.alerts) \subseteq Range(s.recent) \ Range(recent)
      BY <2>8 DEF Kept
    <3>2. Distinct(t.recent) /\ Range(t.recent) = Range(s.recent) \cup {h}
      BY <1>2, <2>1, <2>8, <3>1, RaiseTells
    <3>3. h \notin RaisedIn(s.alerts)
      BY <1>2, <3>1
    <3>4. Distinct(t.alerts)
      <4> SUFFICES ASSUME NEW i \in 1..n + 1, NEW j \in 1..n + 1, t.alerts[i] = t.alerts[j]
                   PROVE  i = j
        BY <2>4 DEF Distinct
      <4>1. \A k \in 1..n : t.alerts[k] # Alert(h)
        BY <2>4, <3>3 DEF RaisedIn, Range
      <4>2. CASE i \in 1..n /\ j \in 1..n
        BY <2>4, <3>1, <4>2 DEF Distinct
      <4>3. CASE ~ (i \in 1..n /\ j \in 1..n)
        BY <2>4, <4>1, <4>3
      <4> QED
        BY <4>2, <4>3
    <3> QED
      BY <1>2, <2>7, <3>1, <3>2, <3>4
  <2>9. Range(t.recent) \subseteq Range(recent) \cup RaisedIn(t.alerts)
    BY <2>2, <2>7 DEF Kept
  <2> QED
    BY <2>1, <2>7, <2>8, <2>9 DEF Kept
<1> QED
  BY <1>1, <1>2

\* What a burst changes: every header found is remembered or raised.
LEMMA FlushKeeps ==
  ASSUME recent \in Seq(Header), Len(recent) <= RecentRaw, NEW found \in Seq(Header)
  PROVE  /\ Kept(Flush(found))
         /\ Range(found) \subseteq Range(recent) \cup RaisedIn(Flush(found).alerts)
<1> DEFINE n == Len(found)
<1>1. n \in Nat /\ DOMAIN found = 1..n /\ \A i \in 1..n : found[i] \in Header
  BY LenProperties, ElementOfSeq
<1>2. PICK after \in [0..n -> Memory] :
        /\ after[0] = [recent |-> recent, alerts |-> <<>>]
        /\ \A i \in 1..n : after[i] = Raise(after[i - 1], found[i])
        /\ Flush(found) = after[n]
  BY FlushSteps
<1> HIDE DEF n
<1> DEFINE Told(i) == \A j \in 1..i : found[j] \in Range(recent) \cup RaisedIn(after[i].alerts)
           S == {i \in 0..n : Kept(after[i]) /\ Told(i)}
<1>3. 0 \in S
  <2>1. after[0].recent = recent /\ after[0].alerts = <<>> /\ after[0] \in Memory
    BY <1>1, <1>2
  <2>2. RaisedIn(<<>>) = {} /\ Distinct(<<>>)
    BY DEF RaisedIn, Distinct, Range
  <2>3. Kept(after[0])
    BY <2>1, <2>2 DEF Kept
  <2> QED
    BY <1>1, <2>3
<1>4. ASSUME NEW i \in 1..n, i - 1 \in S PROVE i \in S
  <2>1. Kept(after[i - 1]) /\ Told(i - 1) /\ found[i] \in Header /\ after[i] = Raise(after[i - 1], found[i])
    BY <1>1, <1>2, <1>4
  <2>2. /\ Kept(after[i]) /\ found[i] \in Range(recent) \cup RaisedIn(after[i].alerts)
        /\ RaisedIn(after[i - 1].alerts) \subseteq RaisedIn(after[i].alerts)
    BY <2>1, KeptStep
  <2>3. Told(i)
    <3> TAKE j \in 1..i
    <3>1. CASE j = i
      BY <2>2, <3>1
    <3>2. CASE j # i
      <4>1. j \in 1..i - 1
        BY <1>1, <3>2
      <4> QED
        BY <2>1, <2>2, <4>1
    <3> QED
      BY <3>1, <3>2
  <2>4. i \in 0..n
    BY <1>1
  <2> QED
    BY <2>2, <2>3, <2>4
<1> HIDE DEF S
<1>5. n \in S
  <2>1. 0..n \subseteq S
    BY <1>1, <1>3, <1>4, BoundedInduction
  <2> QED
    BY <1>1, <2>1
<1>6. Kept(after[n]) /\ Told(n)
  BY <1>5 DEF S
<1>7. Range(found) \subseteq Range(recent) \cup RaisedIn(after[n].alerts)
  BY <1>1, <1>6 DEF Range
<1> QED
  BY <1>2, <1>6, <1>7

\* A decoding is a sequence of headers, the first one of the buffer among them.
LEMMA DecodingsTyped ==
  ASSUME NEW frames \in Seq(Frame), NEW found \in Decodings(frames)
  PROVE  /\ found \in Seq(Header)
         /\ InBuffer(frames) # {} =>
              FirstHeader(frames) \in Header /\ FirstHeader(frames) \in Range(found)
<1> DEFINE sent == {frames[i] : i \in InBuffer(frames)}
<1>1. Len(frames) \in Nat /\ DOMAIN frames = 1..Len(frames)
  BY LenProperties
<1>2. InBuffer(frames) \in SUBSET Nat /\ \A i \in InBuffer(frames) : frames[i] \in Header
  BY <1>1 DEF InBuffer
<1>3. sent \in SUBSET Header
  BY <1>2
<1>4. CASE InBuffer(frames) = {}
  <2>1. found = <<>>
    BY <1>4 DEF Decodings
  <2> QED
    BY <1>4, <2>1
<1>5. CASE InBuffer(frames) # {}
  <2>1. PICK least \in InBuffer(frames) : \A j \in InBuffer(frames) : least <= j
    BY <1>2, <1>5, LeastNat
  <2>2. FirstHeader(frames) \in Header
    BY <1>2, <2>1 DEF FirstHeader
  <2>3. sent # {}
    BY <1>5
  <2>4. PICK S \in SUBSET sent : FirstHeader(frames) \in S /\ found \in Orderings(S)
    BY <2>3 DEF Decodings
  <2> HIDE DEF sent
  <2>5. S \in SUBSET Header /\ IsFiniteSet(Header)
    BY <1>3, FramesAssumption
  <2>6. Cardinality(S) \in Nat
    BY <2>5, FS_Subset, FS_CardinalityType
  <2>7. found \in [1..Cardinality(S) -> S] /\ \A t \in S : \E i \in 1..Cardinality(S) : found[i] = t
    BY <2>4, Zenon DEF Orderings, Bijection, Surjection
  <2>8. found \in [1..Cardinality(S) -> Header] /\ DOMAIN found = 1..Cardinality(S)
    BY <2>5, <2>7
  <2>9. found \in Seq(Header)
    BY <2>6, <2>8
  <2>10. FirstHeader(frames) \in Range(found)
    BY <2>4, <2>7, <2>8 DEF Range
  <2> QED
    BY <2>2, <2>9, <2>10
<1> QED
  BY <1>4, <1>5

-----------------------------------------------------------------------------
(* Types. *)

\* Entry, with the last frame of the stream as a parameter.
EntryUpTo(n) == [is : {"alert"}, header : Header, frames : {<<>>}]
                \cup [is : {"segment"}, header : {"quiet"}, frames : Seq(1..n) \ {<<>>}]

\* The types, with what keeps them: the frames held are sequences, and a burst is captured
\* only once there was a window to see it in.
TypeInv ==
  /\ TypeOK /\ pre \in Seq(Frames) /\ buf \in Seq(Frames)
  /\ capturing => Len(air) >= DetectFrames

LEMMA EntryGrows ==
  ASSUME NEW n \in Nat, NEW m \in Nat, n <= m
  PROVE  /\ Seq(1..n) \subseteq Seq(1..m) /\ EntryUpTo(n) \subseteq EntryUpTo(m)
         /\ Seq(EntryUpTo(n)) \subseteq Seq(EntryUpTo(m))
<1>1. 1..n \subseteq 1..m
  OBVIOUS
<1>2. Seq(1..n) \subseteq Seq(1..m)
  BY <1>1, SeqMonotonic
<1>3. EntryUpTo(n) \subseteq EntryUpTo(m)
  BY <1>2, Zenon DEF EntryUpTo
<1>4. Seq(EntryUpTo(n)) \subseteq Seq(EntryUpTo(m))
  BY <1>3, SeqMonotonic
<1> QED
  BY <1>2, <1>3, <1>4

\* An alert and a segment are entries of the log.
LEMMA EntryTyped ==
  ASSUME NEW n \in Nat
  PROVE  /\ \A h \in Header : Alert(h) \in EntryUpTo(n)
         /\ \A s \in Seq(1..n) : Len(s) >= 1 => Segment(s) \in EntryUpTo(n)
<1>1. \A h \in Header : Alert(h) \in EntryUpTo(n)
  BY DEF Alert, EntryUpTo
<1>2. ASSUME NEW s \in Seq(1..n), Len(s) >= 1 PROVE Segment(s) \in EntryUpTo(n)
  <2>1. s # <<>>
    BY <1>2, EmptySeq
  <2>2. s \in Seq(1..n) \ {<<>>}
    BY <2>1, Zenon
  <2> QED
    BY <2>2, Zenon DEF Segment, EntryUpTo
<1> QED
  BY <1>1, <1>2

\* What is emitted of a stretch is at most one entry, and is one of its frames.
LEMMA FinishedTyped ==
  ASSUME NEW n \in Nat, NEW s \in Seq(1..n)
  PROVE  Finished(s) \in Seq(EntryUpTo(n))
<1>1. CASE s = <<>> \/ Len(s) < MinSpeechFrames
  BY <1>1 DEF Finished
<1>2. CASE ~ (s = <<>> \/ Len(s) < MinSpeechFrames)
  <2>1. Len(s) \in Nat \ {0}
    BY <1>2, EmptySeq
  <2>2. Segment(s) \in EntryUpTo(n)
    BY <2>1, EntryTyped
  <2> QED
    BY <1>2, <2>2 DEF Finished
<1> QED
  BY <1>1, <1>2

\* The monitor's and the service's part of a frame.
LEMMA HearTells ==
  ASSUME TypeInv, NEW f \in Frame, Hear(f), NEW n, n = Len(air)
  PROVE  /\ n \in Nat /\ air' = Append(air, f) /\ air' \in Seq(Frame) /\ Len(air') = n + 1
         /\ n + 1 <= MaxFrames
         /\ \E found \in Seq(Header) :
              /\ found \in IF IsComplete(air') THEN Decodings(air') ELSE {<<>>}
              /\ recent' = Flush(found).recent /\ Kept(Flush(found))
              /\ Range(found) \subseteq Range(recent) \cup RaisedIn(Flush(found).alerts)
              /\ log' = log \o (Flush(found).alerts \o Cut(n + 1, f))
<1>1. air \in Seq(Frame) /\ n \in Nat /\ n < MaxFrames /\ MaxFrames \in Nat
  BY LenProperties, FramesAssumption DEF TypeInv, TypeOK, Hear
<1>2. air' = Append(air, f)
  BY DEF Hear
<1>3. air' \in Seq(Frame) /\ Len(air') = n + 1
  BY <1>1, <1>2, AppendProperties
<1>4. PICK found \in IF IsComplete(air') THEN Decodings(air') ELSE {<<>>} :
        recent' = Flush(found).recent /\ log' = log \o (Flush(found).alerts \o Cut(n + 1, f))
  BY <1>2, <1>3, Zenon DEF Hear, Order
<1>5. found \in Seq(Header)
  <2>1. CASE IsComplete(air')
    BY <1>3, <1>4, <2>1, DecodingsTyped
  <2>2. CASE ~ IsComplete(air')
    BY <1>4, <2>2
  <2> QED
    BY <2>1, <2>2
<1>6. recent \in Seq(Header) /\ Len(recent) <= RecentRaw
  BY DEF TypeInv, TypeOK
<1>7. /\ Kept(Flush(found))
      /\ Range(found) \subseteq Range(recent) \cup RaisedIn(Flush(found).alerts)
  BY <1>5, <1>6, FlushKeeps
<1>8. \E sent \in Seq(Header) :
        /\ sent \in IF IsComplete(air') THEN Decodings(air') ELSE {<<>>}
        /\ recent' = Flush(sent).recent /\ Kept(Flush(sent))
        /\ Range(sent) \subseteq Range(recent) \cup RaisedIn(Flush(sent).alerts)
        /\ log' = log \o (Flush(sent).alerts \o Cut(n + 1, f))
  BY <1>4, <1>5, <1>7, Zenon
<1>9. n + 1 <= MaxFrames
  BY <1>1
<1> QED
  BY <1>1, <1>2, <1>3, <1>8, <1>9, Zenon

\* The segmenter's part of a frame.
LEMMA SegmenterTyped ==
  ASSUME TypeInv, NEW f \in Frame, Hear(f), NEW n, n = Len(air) + 1
  PROVE  /\ pre' \in Seq(1..n) /\ buf' \in Seq(1..n) /\ Len(pre') <= PadFrames
         /\ silence' \in 0..MinSilenceFrames-1 /\ (~inSpeech' => buf' = <<>>) /\ inSpeech' \in BOOLEAN
         /\ Append(buf, n) \in Seq(1..n) /\ Len(Append(buf, n)) >= 1
         /\ Cut(n, f) \in Seq(EntryUpTo(n)) /\ Lost(n, f) \subseteq 1..n
<1>1. /\ n \in Nat \ {0} /\ pre \in Seq(1..n) /\ buf \in Seq(1..n) /\ n \in 1..n
      /\ MinSilenceFrames \in Nat \ {0} /\ PadFrames \in Nat /\ silence \in 0..MinSilenceFrames-1
  <2>1. Len(air) \in Nat
    BY LenProperties DEF TypeInv, TypeOK
  <2>2. pre \in Seq(1..Len(air)) /\ buf \in Seq(1..Len(air))
    BY DEF TypeInv, Frames
  <2>3. Len(air) <= n
    BY <2>1
  <2> QED
    BY <2>1, <2>2, <2>3, EntryGrows, FramesAssumption DEF TypeInv, TypeOK
<1>2. Append(buf, n) \in Seq(1..n) /\ Len(Append(buf, n)) = Len(buf) + 1 /\ Len(buf) \in Nat
  BY <1>1, AppendProperties, LenProperties
<1>3. Cut(n, f) \in Seq(EntryUpTo(n))
  <2>1. Finished(Append(buf, n)) \in Seq(EntryUpTo(n))
    BY <1>1, <1>2, FinishedTyped
  <2>2. <<>> \in Seq(EntryUpTo(n))
    OBVIOUS
  <2> QED
    BY <2>1, <2>2 DEF Cut
<1>4. Lost(n, f) \subseteq 1..n
  <2>1. Range(Append(buf, n)) \subseteq 1..n
    BY <1>2, RangeOfSeq
  <2> QED
    BY <2>1 DEF Lost
<1>5. Len(air') = n /\ Append(air, f) = air'
  <2>1. n - 1 = Len(air) /\ (n - 1) + 1 = n
    BY <1>1
  <2> QED
    BY <2>1, HearTells
<1>6. CASE Wait(n, f)
  <2> DEFINE roll == Roll(pre, n)
  <2>1. Append(pre, n) \in Seq(1..n)
    BY <1>1, AppendProperties
  <2>2. roll \in Seq(1..n) /\ Len(roll) <= PadFrames
    <3> DEFINE t == Append(pre, n)
    <3>1. t \in Seq(1..n) /\ Len(t) \in Nat
      BY <2>1, LenProperties
    <3>2. roll = LastOf(t, PadFrames)
      BY DEF Roll
    <3> HIDE DEF t, roll
    <3>3. roll \in Seq(1..n) /\ Len(roll) = (IF Len(t) > PadFrames THEN PadFrames ELSE Len(t))
      BY <1>1, <3>1, <3>2, LastOfProperties
    <3> QED
      BY <1>1, <3>1, <3>3
  <2> HIDE DEF roll
  <2>3. CASE IsSpeech(f)
    <3>1. inSpeech' = TRUE /\ buf' = roll /\ pre' = <<>> /\ silence' = 0
      BY <1>6, <2>3 DEF Wait, roll
    <3> QED
      BY <1>1, <1>2, <1>3, <1>4, <2>2, <3>1
  <2>4. CASE ~ IsSpeech(f)
    <3>1. pre' = roll /\ inSpeech' = inSpeech /\ buf' = buf /\ silence' = silence
      BY <1>6, <2>4 DEF Wait, roll
    <3>2. (~inSpeech' => buf' = <<>>) /\ inSpeech' \in BOOLEAN
      BY <3>1, Zenon DEF TypeInv, TypeOK
    <3> QED
      BY <1>1, <1>2, <1>3, <1>4, <2>2, <3>1, <3>2
  <2> QED
    BY <2>3, <2>4
<1>7. CASE Collect(n, f)
  <2>1. CASE IsOver(Append(buf, n), Hush(f))
    <3>1. inSpeech' = FALSE /\ buf' = <<>> /\ pre' = <<>> /\ silence' = 0
      BY <1>7, <2>1 DEF Collect
    <3>2. <<>> \in Seq(1..n) /\ Len(<<>>) <= PadFrames /\ 0 \in 0..MinSilenceFrames - 1
      BY <1>1
    <3>3. Len(Append(buf, n)) >= 1
      BY <1>2
    <3> QED
      BY <1>2, <1>3, <1>4, <3>1, <3>2, <3>3, Zenon
  <2>2. CASE ~ IsOver(Append(buf, n), Hush(f))
    <3>1. /\ buf' = Append(buf, n) /\ silence' = Hush(f) /\ inSpeech /\ pre' = pre
          /\ inSpeech' = inSpeech
      BY <1>7, <2>2 DEF Collect
    <3>2. Hush(f) \in Nat /\ Hush(f) < MinSilenceFrames
      BY <1>1, <2>2 DEF IsOver, Hush
    <3>3. (~inSpeech' => buf' = <<>>) /\ inSpeech' \in BOOLEAN
      BY <3>1, Zenon DEF TypeInv, TypeOK
    <3>4. Len(pre') <= PadFrames
      BY <3>1 DEF TypeInv, TypeOK
    <3>5. Len(Append(buf, n)) >= 1 /\ silence' \in 0..MinSilenceFrames - 1
      BY <1>1, <1>2, <3>1, <3>2
    <3> QED
      BY <1>1, <1>2, <1>3, <1>4, <3>1, <3>3, <3>4, <3>5, Zenon
  <2> QED
    BY <2>1, <2>2
<1>8. Wait(n, f) \/ Collect(n, f)
  BY <1>5 DEF Hear
<1> QED
  BY <1>6, <1>7, <1>8

LEMMA TypeStep ==
  ASSUME TypeInv, [Next]_vars
  PROVE  TypeInv'
<1>1. /\ Len(air) \in Nat /\ air \in Seq(Frame) /\ recent \in Seq(Header)
      /\ pre \in Seq(1..Len(air)) /\ buf \in Seq(1..Len(air)) /\ log \in Seq(EntryUpTo(Len(air)))
  BY LenProperties DEF TypeInv, TypeOK, Frames, Entry, EntryUpTo
<1>2. ASSUME NEW f \in Frame, Hear(f) PROVE TypeInv'
  <2> DEFINE n == Len(air) + 1
  <2>1. n \in Nat /\ air' = Append(air, f) /\ air' \in Seq(Frame) /\ Len(air') = n /\ n <= MaxFrames
    <3>1. /\ Len(air) \in Nat /\ air' = Append(air, f) /\ air' \in Seq(Frame) /\ Len(air') = Len(air) + 1
          /\ Len(air) + 1 <= MaxFrames
      BY <1>2, HearTells
    <3> QED
      BY <3>1
  <2>2. PICK found \in Seq(Header) :
          /\ recent' = Flush(found).recent /\ Kept(Flush(found))
          /\ log' = log \o (Flush(found).alerts \o Cut(n, f))
    BY <1>2, HearTells
  <2>3. /\ pre' \in Seq(1..n) /\ buf' \in Seq(1..n) /\ Len(pre') <= PadFrames
        /\ silence' \in 0..MinSilenceFrames-1 /\ (~inSpeech' => buf' = <<>>) /\ inSpeech' \in BOOLEAN
        /\ Cut(n, f) \in Seq(EntryUpTo(n)) /\ Lost(n, f) \subseteq 1..n
    BY <1>2, SegmenterTyped
  <2>4. recent' \in Seq(Header) /\ Len(recent') <= RecentRaw
    BY <2>2 DEF Kept, Memory
  <2>5. ended' \in BOOLEAN
    BY <1>2, Zenon DEF Hear, TypeInv, TypeOK
  <2>6. dropped' \subseteq 1..n
    <3>1. dropped' = dropped \cup Lost(n, f)
      BY <1>2, <2>1, Zenon DEF Hear
    <3>2. dropped \subseteq 1..Len(air)
      BY DEF TypeInv, TypeOK, Frames
    <3>3. 1..Len(air) \subseteq 1..n
      BY <1>1
    <3> HIDE DEF n
    <3> QED
      BY <2>3, <3>1, <3>2, <3>3, Zenon
  <2>7. log' \in Seq(EntryUpTo(n))
    <3>1. Len(air) <= n
      BY <1>1
    <3>2. log \in Seq(EntryUpTo(n))
      BY <1>1, <2>1, <3>1, EntryGrows
    <3>3. {Alert(h) : h \in Header} \subseteq EntryUpTo(n)
      BY <2>1, EntryTyped
    <3>4. Flush(found).alerts \in Seq(EntryUpTo(n))
      BY <2>2, <3>3, SeqMonotonic DEF Kept, Memory
    <3> HIDE DEF n
    <3>5. Flush(found).alerts \o Cut(n, f) \in Seq(EntryUpTo(n))
      BY <2>3, <3>4, ConcatProperties
    <3> QED
      BY <2>2, <3>2, <3>5, ConcatProperties
  <2>8. capturing' \in BOOLEAN
    BY <1>2, Zenon DEF Hear, Feed
  <2>9. quiet' \in 0..SilenceFrames-1 /\ (capturing' => n >= DetectFrames)
    <3>1. quiet \in 0..SilenceFrames-1 /\ SilenceFrames \in Nat \ {0} /\ DetectFrames \in Nat
      BY FramesAssumption DEF TypeInv, TypeOK
    <3>2. capturing' = (IsBurst(air') \/ (capturing /\ ~IsComplete(air')))
      BY <1>2, <2>1 DEF Hear, Feed
    <3>3. quiet' = IF IsBurst(air') \/ IsComplete(air') THEN 0 ELSE IF capturing THEN quiet + 1 ELSE quiet
      BY <1>2, <2>1 DEF Hear, Feed
    <3>4. CASE IsBurst(air')
      BY <2>1, <3>1, <3>3, <3>4 DEF IsBurst
    <3>5. CASE ~ IsBurst(air') /\ ~capturing
      <4>1. ~capturing'
        BY <3>2, <3>5, Zenon
      <4>2. quiet' = 0 \/ quiet' = quiet
        BY <3>3, <3>5, Zenon
      <4>3. quiet' \in 0..SilenceFrames-1
        BY <3>1, <4>2
      <4> QED
        BY <4>1, <4>3, Zenon
    <3>6. CASE ~ IsBurst(air') /\ capturing
      <4>1. n >= DetectFrames
        BY <1>1, <3>1, <3>6 DEF TypeInv
      <4>2. IsComplete(air') <=> quiet + 1 >= SilenceFrames
        BY <2>1, <3>6, <4>1 DEF IsComplete
      <4> QED
        BY <3>1, <3>3, <3>6, <4>1, <4>2
    <3> QED
      BY <3>4, <3>5, <3>6
  <2>10. {ended', capturing', inSpeech'} \subseteq BOOLEAN
    BY <2>3, <2>5, <2>8, Zenon
  <2>11. Range(pre') \in SUBSET (1..n) /\ Range(buf') \in SUBSET (1..n)
    BY <2>3, RangeOfSeq
  <2> HIDE DEF n
  <2>12. Entry' = EntryUpTo(n) /\ Frames' = 1..n
    BY <2>1 DEF Entry, EntryUpTo, Frames
  <2>13. {Range(pre'), Range(buf'), dropped'} \subseteq SUBSET (1..n)
    BY <2>6, <2>11
  <2> QED
    BY <2>1, <2>3, <2>4, <2>7, <2>9, <2>10, <2>12, <2>13, Zenon DEF TypeInv, TypeOK
<1>3. CASE End
  <2> DEFINE n == Len(air)
  <2>1. /\ air' = air /\ quiet' = quiet /\ recent' = recent /\ capturing' = capturing
        /\ pre' = pre /\ silence' = silence /\ buf' = <<>> /\ inSpeech' = FALSE /\ ended' = TRUE
    BY <1>3 DEF End, monitor
  <2>2. dropped' \subseteq 1..n
    <3>1. Range(buf) \subseteq 1..n /\ dropped \subseteq 1..n
      BY DEF TypeInv, TypeOK, Frames
    <3>2. dropped' = dropped \cup (IF inSpeech /\ Finished(buf) = <<>> THEN Range(buf) ELSE {})
      BY <1>3 DEF End
    <3> QED
      BY <3>1, <3>2
  <2>3. log' \in Seq(EntryUpTo(n))
    <3>1. log' = log \o (IF inSpeech THEN Finished(buf) ELSE <<>>)
      BY <1>3 DEF End
    <3>2. Finished(buf) \in Seq(EntryUpTo(n)) /\ <<>> \in Seq(EntryUpTo(n))
      BY <1>1, FinishedTyped
    <3> QED
      BY <1>1, <3>1, <3>2, ConcatProperties
  <2>4. Entry' = EntryUpTo(n) /\ Frames' = 1..n /\ Range(buf') = {} /\ Len(air') = n
    BY <2>1 DEF Entry, EntryUpTo, Frames, Range
  <2>5. {Range(pre'), Range(buf'), dropped'} \subseteq SUBSET (1..n)
    BY <2>1, <2>2, <2>4 DEF TypeInv, TypeOK, Frames
  <2>6. {ended', capturing', inSpeech'} \subseteq BOOLEAN
    BY <2>1, Zenon DEF TypeInv, TypeOK
  <2>7. pre' \in Seq(1..n) /\ buf' \in Seq(1..n)
    BY <1>1, <2>1
  <2>8. capturing' => Len(air') >= DetectFrames
    BY <2>1, Zenon DEF TypeInv
  <2> HIDE DEF n
  <2>9. /\ air' \in Seq(Frame) /\ Len(air') <= MaxFrames
        /\ quiet' \in 0..SilenceFrames-1 /\ recent' \in Seq(Header) /\ Len(recent') <= RecentRaw
        /\ Len(pre') <= PadFrames /\ silence' \in 0..MinSilenceFrames-1
    BY <2>1 DEF TypeInv, TypeOK
  <2> QED
    BY <2>1, <2>3, <2>4, <2>5, <2>6, <2>7, <2>8, <2>9, Zenon DEF TypeInv, TypeOK
<1>4. CASE UNCHANGED vars
  BY <1>4, Zenon DEF vars, monitor, segmenter, TypeInv, TypeOK, Entry, Frames
<1> QED
  BY <1>2, <1>3, <1>4 DEF Next

LEMMA TypeInit ==
  ASSUME Init
  PROVE  TypeInv
<1>1. /\ air = <<>> /\ ended = FALSE /\ capturing = FALSE /\ quiet = 0 /\ recent = <<>>
      /\ inSpeech = FALSE /\ pre = <<>> /\ buf = <<>> /\ silence = 0 /\ log = <<>> /\ dropped = {}
  BY DEF Init
<1>2. Range(pre) = {} /\ Range(buf) = {}
  BY <1>1 DEF Range
<1>3. {ended, capturing, inSpeech} \subseteq BOOLEAN
  BY <1>1, Zenon
<1>4. {Range(pre), Range(buf), dropped} \subseteq SUBSET Frames
  BY <1>1, <1>2
<1>5. /\ air \in Seq(Frame) /\ recent \in Seq(Header) /\ log \in Seq(Entry)
      /\ pre \in Seq(Frames) /\ buf \in Seq(Frames)
  BY <1>1
<1>6. /\ Len(air) <= MaxFrames /\ quiet \in 0..SilenceFrames-1 /\ Len(recent) <= RecentRaw
      /\ Len(pre) <= PadFrames /\ silence \in 0..MinSilenceFrames-1
  BY <1>1, FramesAssumption
<1> QED
  BY <1>1, <1>3, <1>4, <1>5, <1>6, Zenon DEF TypeInv, TypeOK

\* Every variable stays in its range: no segment is empty, and what a burst is waited for
\* stays under same_silence_s.
THEOREM TypeCorrect == Spec => []TypeOK
<1>1. Init => TypeInv
  BY TypeInit
<1>2. TypeInv /\ [Next]_vars => TypeInv'
  BY TypeStep
<1>3. TypeInv => TypeOK
  BY DEF TypeInv
<1> QED
  BY <1>1, <1>2, <1>3, PTL DEF Spec

-----------------------------------------------------------------------------
(* The segmenter. *)

\* s is the run of consecutive frames that ends with frame n.
RunTo(s, n) == \A k \in 1..Len(s) : s[k] = n - Len(s) + k

\* The frames the segmenter holds, in either of its buffers, and the last frame that is
\* settled: emitted, dropped or forgotten.
Held    == IF inSpeech THEN buf ELSE pre
Settled == Len(air) - Len(Held)

\* The last frame of a segment of the log, and its number of frames.
Last(i) == log[i].frames[Len(log[i].frames)]
Size(i) == Len(log[i].frames)

PadsFit == 0 < PadFrames /\ PadFrames < MaxSegFrames

\* The frames held are the latest ones, and a segment in the making is not yet too long.
HeldInv ==
  /\ RunTo(Held, Len(air)) /\ Len(Held) <= Len(air)
  /\ inSpeech => pre = <<>> /\ Len(buf) \in 1..MaxSegFrames-1
\* Segments are runs of settled frames, one after another.
RunsInv ==
  /\ \A i \in Segments : RunTo(log[i].frames, Last(i)) /\ Size(i) \in 1..MaxSegFrames /\ Last(i) <= Settled
  /\ \A i, j \in Segments : i < j => Last(i) <= Last(j) - Size(j)
\* What is dropped is settled and in no segment.
DroppedInv ==
  \A d \in dropped : d <= Settled /\ \A i \in Segments : d \notin Range(log[i].frames)
\* No loud frame is missing.
LoudInv ==
  \A n \in Frames : IsSpeech(air[n]) =>
    n \in Range(buf) \/ n \in dropped \/ \E i \in Segments : n \in Range(log[i].frames)

SpeechInv == HeldInv /\ RunsInv /\ DroppedInv /\ LoudInv

\* The elements of a run.
LEMMA RangeOfRun ==
  ASSUME NEW s \in Seq(Nat), NEW n \in Nat, RunTo(s, n)
  PROVE  Range(s) = n - Len(s) + 1 .. n
<1>1. Len(s) \in Nat /\ DOMAIN s = 1..Len(s)
  BY LenProperties
<1>2. \A k \in 1..Len(s) : s[k] \in n - Len(s) + 1 .. n
  BY <1>1 DEF RunTo
<1>3. ASSUME NEW m \in n - Len(s) + 1 .. n PROVE \E k \in 1..Len(s) : s[k] = m
  <2> DEFINE k == m - n + Len(s)
  <2>1. k \in 1..Len(s) /\ n - Len(s) + k = m
    BY <1>1
  <2> HIDE DEF k
  <2>2. s[k] = m
    BY <2>1 DEF RunTo
  <2> QED
    BY <2>1, <2>2
<1> QED
  BY <1>1, <1>2, <1>3 DEF Range

\* What a step appends to the log: alerts, then what became of a segment.
LEMMA LogGrows ==
  ASSUME NEW S, NEW l \in Seq(S), NEW a \in Seq(S), NEW c \in Seq(S), NEW m, m = l \o (a \o c)
  PROVE  /\ DOMAIN m = 1 .. Len(l) + Len(a) + Len(c)
         /\ {Len(l), Len(a), Len(c)} \subseteq Nat
         /\ DOMAIN l = 1..Len(l) /\ DOMAIN a = 1..Len(a) /\ DOMAIN c = 1..Len(c)
         /\ \A i \in 1..Len(l) : m[i] = l[i]
         /\ \A i \in 1..Len(a) : m[Len(l) + i] = a[i]
         /\ \A i \in 1..Len(c) : m[Len(l) + Len(a) + i] = c[i]
<1> DEFINE b == a \o c
<1>1. /\ Len(l) \in Nat /\ Len(a) \in Nat /\ Len(c) \in Nat
      /\ DOMAIN l = 1..Len(l) /\ DOMAIN a = 1..Len(a) /\ DOMAIN c = 1..Len(c)
  BY LenProperties
<1>2. /\ b \in Seq(S) /\ Len(b) = Len(a) + Len(c)
      /\ \A i \in 1..Len(a) + Len(c) : b[i] = IF i <= Len(a) THEN a[i] ELSE c[i - Len(a)]
  BY ConcatProperties
<1> HIDE DEF b
<1>3. /\ m \in Seq(S) /\ Len(m) = Len(l) + Len(b)
      /\ \A i \in 1..Len(l) + Len(b) : m[i] = IF i <= Len(l) THEN l[i] ELSE b[i - Len(l)]
  BY <1>2, ConcatProperties DEF b
<1>4. DOMAIN m = 1 .. Len(l) + Len(a) + Len(c)
  <2>1. Len(m) = Len(l) + Len(a) + Len(c)
    BY <1>1, <1>2, <1>3
  <2> QED
    BY <1>3, <2>1, LenProperties
<1>5. \A i \in 1..Len(l) : m[i] = l[i]
  BY <1>1, <1>2, <1>3
<1>6. ASSUME NEW i \in 1..Len(b) PROVE m[Len(l) + i] = b[i]
  <2> DEFINE k == Len(l) + i
  <2>1. k \in 1..Len(l) + Len(b) /\ ~ (k <= Len(l)) /\ k - Len(l) = i
    BY <1>1, <1>2
  <2> HIDE DEF k
  <2>2. m[k] = b[i]
    BY <1>3, <2>1
  <2> QED
    BY <2>2 DEF k
<1>7. \A i \in 1..Len(a) : m[Len(l) + i] = a[i]
  BY <1>1, <1>2, <1>6
<1>8. ASSUME NEW i \in 1..Len(c) PROVE m[Len(l) + Len(a) + i] = c[i]
  <2> DEFINE k == Len(a) + i
  <2>1. k \in 1..Len(b) /\ k \in 1..Len(a) + Len(c) /\ ~ (k <= Len(a)) /\ k - Len(a) = i
        /\ Len(l) + Len(a) + i = Len(l) + k
    BY <1>1, <1>2
  <2> HIDE DEF k
  <2>2. m[Len(l) + k] = b[k] /\ b[k] = c[i]
    BY <1>2, <1>6, <2>1
  <2> QED
    BY <2>1, <2>2
<1> QED
  BY <1>1, <1>4, <1>5, <1>7, <1>8

\* So the segments of the log stay as they are, and at most one is new, after all others.
LEMMA SegmentsGrow ==
  ASSUME NEW n \in Nat, log \in Seq(EntryUpTo(n)), NEW a \in Seq({Alert(g) : g \in Header}),
         NEW c, log' = log \o (a \o c)
  PROVE  /\ c = <<>> => Segments' = Segments
         /\ \A s \in Seq(1..n) : Len(s) >= 1 /\ c = <<Segment(s)>> =>
              \E new \in Nat : /\ Segments' = Segments \cup {new} /\ log'[new] = Segment(s)
                               /\ \A i \in Segments : i < new
         /\ c = <<>> \/ (\E s \in Seq(1..n) : Len(s) >= 1 /\ c = <<Segment(s)>>) =>
              \A i \in Segments : log'[i] = log[i]
<1> DEFINE S == EntryUpTo(n)
<1>1. a \in Seq(S) /\ \A i \in DOMAIN a : a[i].is = "alert"
  <2>1. {Alert(h) : h \in Header} \subseteq S
    BY EntryTyped
  <2>2. \A i \in DOMAIN a : a[i] \in {Alert(h) : h \in Header}
    BY LenProperties, ElementOfSeq
  <2>3. \A i \in DOMAIN a : a[i].is = "alert"
    BY <2>2 DEF Alert
  <2> HIDE DEF S
  <2> QED
    BY <2>1, <2>3, SeqMonotonic
<1>2. CASE c = <<>>
  <2>1. c \in Seq(S) /\ Len(c) = 0
    BY <1>2
  <2> HIDE DEF S
  <2>2. /\ DOMAIN log' = 1 .. Len(log) + Len(a) /\ Len(log) \in Nat /\ Len(a) \in Nat
        /\ DOMAIN log = 1..Len(log) /\ DOMAIN a = 1..Len(a)
        /\ \A i \in 1..Len(log) : log'[i] = log[i]
        /\ \A i \in 1..Len(a) : log'[Len(log) + i] = a[i]
    <3>1. log \in Seq(S)
      BY DEF S
    <3> QED
      BY <1>1, <2>1, <3>1, LogGrows
  <2>3. \A i \in Segments : log'[i] = log[i]
    BY <2>2 DEF Segments
  <2>4. Segments' = Segments
    <3>1. \A i \in 1..Len(log) + Len(a) : i \in 1..Len(log) \/ \E k \in 1..Len(a) : i = Len(log) + k
      <4> TAKE i \in 1..Len(log) + Len(a)
      <4>1. i \in 1..Len(log) \/ (i - Len(log) \in 1..Len(a) /\ i = Len(log) + (i - Len(log)))
        BY <2>2
      <4> QED
        BY <4>1
    <3>2. \A i \in 1..Len(log) : i \in DOMAIN log'
      BY <2>2
    <3>3. \A i \in DOMAIN log' : log'[i].is = "segment" => i \in 1..Len(log)
      BY <1>1, <2>2, <3>1
    <3> QED
      BY <2>2, <3>2, <3>3 DEF Segments
  <2> QED
    BY <1>2, <2>3, <2>4
<1>3. ASSUME NEW s \in Seq(1..n), Len(s) >= 1, c = <<Segment(s)>>
      PROVE  /\ \E new \in Nat : /\ Segments' = Segments \cup {new} /\ log'[new] = Segment(s)
                                 /\ \A i \in Segments : i < new
             /\ \A i \in Segments : log'[i] = log[i]
  <2>1. Segment(s) \in S
    BY <1>3, EntryTyped
  <2>2. c \in Seq(S) /\ Len(c) = 1 /\ c[1] = Segment(s)
    BY <1>3, <2>1
  <2> HIDE DEF S
  <2> DEFINE new == Len(log) + Len(a) + 1
  <2>3. /\ DOMAIN log' = 1 .. new /\ Len(log) \in Nat /\ Len(a) \in Nat
        /\ DOMAIN log = 1..Len(log) /\ DOMAIN a = 1..Len(a)
        /\ \A i \in 1..Len(log) : log'[i] = log[i]
        /\ \A i \in 1..Len(a) : log'[Len(log) + i] = a[i]
        /\ log'[new] = Segment(s)
    <3>1. log \in Seq(S)
      BY DEF S
    <3>4. a \in Seq(S) /\ c \in Seq(S)
      BY <1>1, <2>2
    <3> HIDE DEF new
    <3>2. /\ DOMAIN log' = 1 .. Len(log) + Len(a) + Len(c)
          /\ {Len(log), Len(a), Len(c)} \subseteq Nat
          /\ DOMAIN log = 1..Len(log) /\ DOMAIN a = 1..Len(a)
          /\ \A i \in 1..Len(log) : log'[i] = log[i]
          /\ \A i \in 1..Len(a) : log'[Len(log) + i] = a[i]
          /\ \A i \in 1..Len(c) : log'[Len(log) + Len(a) + i] = c[i]
      BY <3>1, <3>4, LogGrows
    <3> USE DEF new
    <3>3. log'[new] = c[1]
      BY <2>2, <3>2
    <3> QED
      BY <2>2, <3>2, <3>3
  <2>4. new \in Nat /\ \A i \in 1..Len(log) : i < new
    BY <2>3
  <2>5. \A i \in 1..new : i = new \/ i \in 1..Len(log) \/ \E k \in 1..Len(a) : i = Len(log) + k
    <3> TAKE i \in 1..new
    <3>1. i = new \/ i \in 1..Len(log) \/ (i - Len(log) \in 1..Len(a) /\ i = Len(log) + (i - Len(log)))
      BY <2>3
    <3> QED
      BY <3>1
  <2>6. new \in 1..new /\ \A i \in 1..Len(log) : i \in 1..new
    BY <2>3
  <2>7. Segment(s).is = "segment"
    BY DEF Segment
  <2> HIDE DEF new
  <2>8. \A i \in DOMAIN log' : log'[i].is = "segment" => i = new \/ i \in 1..Len(log)
    BY <1>1, <2>3, <2>5
  <2>9. Segments' = Segments \cup {new}
    BY <2>3, <2>6, <2>7, <2>8 DEF Segments
  <2>10. \A i \in Segments : log'[i] = log[i] /\ i < new
    BY <2>3, <2>4 DEF Segments
  <2> QED
    BY <2>3, <2>4, <2>9, <2>10
<1>4. \A s \in Seq(1..n) : Len(s) >= 1 /\ c = <<Segment(s)>> =>
        \E new \in Nat : /\ Segments' = Segments \cup {new} /\ log'[new] = Segment(s)
                         /\ \A i \in Segments : i < new
  BY <1>3
<1>5. c = <<>> => Segments' = Segments /\ \A i \in Segments : log'[i] = log[i]
  BY <1>2
<1>6. (\E s \in Seq(1..n) : Len(s) >= 1 /\ c = <<Segment(s)>>) => \A i \in Segments : log'[i] = log[i]
  BY <1>3
<1> QED
  BY <1>4, <1>5, <1>6

\* A segment of the log is a sequence of frames of the stream.
LEMMA SegmentTyped ==
  ASSUME TypeInv, NEW i \in Segments
  PROVE  /\ log[i].frames \in Seq(1..Len(air)) /\ log[i].frames \in Seq(Nat)
         /\ Size(i) \in Nat \ {0} /\ Last(i) \in 1..Len(air)
         /\ i \in 1..Len(log) /\ Len(log) \in Nat /\ Len(air) \in Nat
<1>1. Len(air) \in Nat /\ log \in Seq(EntryUpTo(Len(air)))
  BY LenProperties DEF TypeInv, TypeOK, Entry, EntryUpTo, Frames
<1>2. Len(log) \in Nat /\ DOMAIN log = 1..Len(log)
  BY <1>1, LenProperties
<1>3. i \in 1..Len(log) /\ log[i].is = "segment"
  BY <1>2 DEF Segments
<1>4. log[i] \in EntryUpTo(Len(air))
  BY <1>1, <1>3, ElementOfSeq
<1>5. log[i].frames \in Seq(1..Len(air)) \ {<<>>}
  BY <1>3, <1>4 DEF EntryUpTo
<1>6. Size(i) \in Nat \ {0}
  BY <1>5, EmptySeq DEF Size
<1>7. Last(i) \in 1..Len(air)
  <2>1. Len(log[i].frames) \in 1..Len(log[i].frames)
    BY <1>6 DEF Size
  <2> QED
    BY <1>5, <2>1, ElementOfSeq DEF Last
<1>8. log[i].frames \in Seq(Nat)
  <2>1. 1..Len(air) \subseteq Nat
    OBVIOUS
  <2> QED
    BY <1>5, <2>1, SeqMonotonic
<1> QED
  BY <1>1, <1>2, <1>3, <1>5, <1>6, <1>7, <1>8

\* The elements of a segment of the log.
LEMMA SegmentRange ==
  ASSUME TypeInv, RunsInv, NEW i \in Segments
  PROVE  Range(log[i].frames) = Last(i) - Size(i) + 1 .. Last(i)
<1>1. log[i].frames \in Seq(Nat) /\ Last(i) \in Nat /\ RunTo(log[i].frames, Last(i))
  <2>1. Last(i) \in 1..Len(air) /\ Len(air) \in Nat
    BY SegmentTyped
  <2> QED
    BY <2>1, SegmentTyped DEF RunsInv
<1> QED
  BY <1>1, RangeOfRun DEF Size

\* The numbers the invariants compare.
LEMMA HeldTyped ==
  ASSUME TypeInv, HeldInv
  PROVE  /\ Len(air) \in Nat /\ Held \in Seq(1..Len(air)) /\ Len(Held) \in Nat
         /\ Settled \in Nat /\ Settled + Len(Held) = Len(air)
         /\ Range(Held) = Settled + 1 .. Len(air)
<1>1. Len(air) \in Nat /\ Held \in Seq(1..Len(air))
  BY LenProperties DEF TypeInv, TypeOK, Frames, Held
<1>2. Len(Held) \in Nat
  BY <1>1, LenProperties
<1>3. Settled \in Nat /\ Settled + Len(Held) = Len(air)
  BY <1>1, <1>2 DEF Settled, HeldInv
<1>4. 1..Len(air) \subseteq Nat
  OBVIOUS
<1>5. Held \in Seq(Nat)
  BY <1>1, <1>4, SeqMonotonic
<1>6. Range(Held) = Settled + 1 .. Len(air)
  BY <1>1, <1>5, RangeOfRun DEF Settled, HeldInv
<1> QED
  BY <1>1, <1>2, <1>3, <1>6

\* A step that cuts nothing keeps the invariant if it settles no frame back.
LEMMA HoldStep ==
  ASSUME TypeInv, TypeInv', SpeechInv, HeldInv',
         NEW a \in Seq({Alert(h) : h \in Header}), log' = log \o (a \o <<>>), dropped' = dropped,
         Settled <= Settled', Len(air) <= Len(air'), \A k \in 1..Len(air) : air'[k] = air[k],
         Range(buf) \subseteq Range(buf'),
         \A k \in Len(air) + 1 .. Len(air') : IsSpeech(air'[k]) => k \in Range(buf')
  PROVE  SpeechInv'
<1>1. /\ Len(air) \in Nat /\ Len(air') \in Nat /\ log \in Seq(EntryUpTo(Len(air)))
      /\ Settled \in Nat /\ Settled' \in Nat
  <2>1. log \in Seq(EntryUpTo(Len(air)))
    BY DEF TypeInv, TypeOK, Entry, EntryUpTo, Frames
  <2>2. air' \in Seq(Frame) /\ Len(Held') <= Len(air')
    BY DEF TypeInv, TypeOK, HeldInv
  <2>3. Len(air') \in Nat
    BY <2>2, LenProperties
  <2>4. Held' \in Seq(1..Len(air'))
    BY DEF Held, TypeInv, Frames
  <2>5. Len(Held') \in Nat
    BY <2>4, LenProperties
  <2>6. Settled' \in Nat
    BY <2>2, <2>3, <2>5 DEF Settled
  <2> QED
    BY <2>1, <2>3, <2>6, HeldTyped DEF SpeechInv
<1>2. Segments' = Segments /\ \A i \in Segments : log'[i] = log[i]
  BY <1>1, SegmentsGrow
<1>3. \A i \in Segments : Last(i)' = Last(i) /\ Size(i)' = Size(i)
  BY <1>2 DEF Last, Size
<1>4. \A i \in Segments : Last(i) \in Nat /\ Size(i) \in Nat
  <2> TAKE i \in Segments
  <2>1. Last(i) \in 1..Len(air) /\ Size(i) \in Nat
    BY SegmentTyped
  <2> QED
    BY <2>1
<1>5. RunsInv'
  <2>1. /\ \A i \in Segments : RunTo(log[i].frames, Last(i)) /\ Size(i) \in 1..MaxSegFrames /\ Last(i) <= Settled
        /\ \A i, j \in Segments : i < j => Last(i) <= Last(j) - Size(j)
    BY DEF SpeechInv, RunsInv
  <2>2. \A i \in Segments : Last(i) <= Settled'
    BY <1>1, <1>4, <2>1
  <2>3. \A i \in Segments : RunTo(log[i].frames, Last(i))'
    BY <1>2, <1>3, <2>1 DEF RunTo
  <2> QED
    BY <1>2, <1>3, <2>1, <2>2, <2>3 DEF RunsInv
<1>6. DroppedInv'
  <2>1. dropped \in SUBSET (1..Len(air))
    BY DEF TypeInv, TypeOK, Frames
  <2>2. \A d \in dropped : d <= Settled'
    <3> TAKE d \in dropped
    <3>1. d \in Nat /\ d <= Settled
      BY <2>1 DEF SpeechInv, DroppedInv
    <3> QED
      BY <1>1, <3>1
  <2> QED
    BY <1>2, <2>2 DEF SpeechInv, DroppedInv
<1>7. LoudInv'
  <2> SUFFICES ASSUME NEW k \in 1..Len(air'), IsSpeech(air'[k])
               PROVE  \/ k \in Range(buf') \/ k \in dropped'
                      \/ \E i \in Segments' : k \in Range(log'[i].frames)
    BY DEF LoudInv, Frames
  <2>1. CASE k \in 1..Len(air)
    <3>1. k \in Range(buf) \/ k \in dropped \/ \E i \in Segments : k \in Range(log[i].frames)
      BY <2>1 DEF SpeechInv, LoudInv, Frames
    <3> QED
      BY <1>2, <3>1
  <2>2. CASE k \notin 1..Len(air)
    <3>1. k \in Len(air) + 1 .. Len(air')
      BY <1>1, <2>2
    <3> QED
      BY <3>1
  <2> QED
    BY <2>1, <2>2
<1> QED
  BY <1>5, <1>6, <1>7 DEF SpeechInv

\* A step that cuts a stretch keeps it, whether the stretch is emitted or too short to be.
LEMMA CutStep ==
  ASSUME TypeInv, TypeInv', SpeechInv, HeldInv', NEW m \in Nat, m = Len(air'), Len(Held') = 0,
         NEW a \in Seq({Alert(h) : h \in Header}), NEW c, log' = log \o (a \o c),
         NEW s \in Seq(1..m), RunTo(s, m), Len(s) \in 1..MaxSegFrames, m - Len(s) = Settled,
         \/ c = <<Segment(s)>> /\ dropped' = dropped
         \/ c = <<>> /\ dropped' = dropped \cup Range(s),
         Len(air) <= m, \A k \in 1..Len(air) : air'[k] = air[k],
         Range(buf) \subseteq Range(s),
         \A k \in Len(air) + 1 .. m : k \in Range(s)
  PROVE  SpeechInv'
<1>1. /\ Len(air) \in Nat /\ log \in Seq(EntryUpTo(m)) /\ Settled \in Nat /\ Settled' = m
      /\ Len(s) \in Nat \ {0} /\ Settled < m /\ MaxSegFrames \in Nat
  <2>1. log \in Seq(EntryUpTo(Len(air))) /\ Len(air) \in Nat /\ Settled \in Nat
    BY HeldTyped DEF TypeInv, TypeOK, Entry, EntryUpTo, Frames, SpeechInv
  <2>2. log \in Seq(EntryUpTo(m))
    BY <2>1, EntryGrows
  <2>3. MaxSegFrames \in Nat
    BY FramesAssumption
  <2>4. Settled' = m
    BY DEF Settled
  <2> QED
    BY <2>1, <2>2, <2>3, <2>4
<1>2. /\ \A i \in Segments : log'[i] = log[i]
      /\ c = <<>> => Segments' = Segments
      /\ c = <<Segment(s)>> =>
           \E new \in Nat : /\ Segments' = Segments \cup {new} /\ log'[new] = Segment(s)
                            /\ \A i \in Segments : i < new
  <2>1. log \in Seq(EntryUpTo(m)) /\ Len(s) >= 1
    BY <1>1
  <2>2. CASE c = <<>>
    <3>1. Segments' = Segments /\ \A i \in Segments : log'[i] = log[i]
      BY <2>1, <2>2, SegmentsGrow
    <3>2. c # <<Segment(s)>>
      BY <2>2
    <3> QED
      BY <3>1, <3>2, Zenon
  <2>3. CASE c = <<Segment(s)>>
    <3>1. /\ \A i \in Segments : log'[i] = log[i]
          /\ \E new \in Nat : /\ Segments' = Segments \cup {new} /\ log'[new] = Segment(s)
                              /\ \A i \in Segments : i < new
      BY <2>1, <2>3, SegmentsGrow, Zenon
    <3>2. c # <<>>
      BY <2>3
    <3> QED
      BY <3>1, <3>2, Zenon
  <2> QED
    BY <2>2, <2>3
<1>12. \A i \in Segments : log'[i] = log[i]
  BY <1>2
<1>3. \A i \in Segments : Last(i)' = Last(i) /\ Size(i)' = Size(i)
  BY <1>12 DEF Last, Size
<1>4. \A i \in Segments : Last(i) \in Nat /\ Size(i) \in Nat /\ i \in Nat
  <2> TAKE i \in Segments
  <2>1. Last(i) \in 1..Len(air) /\ Size(i) \in Nat /\ i \in 1..Len(log)
    BY SegmentTyped
  <2> QED
    BY <2>1
<1>5. Range(s) = Settled + 1 .. m
  <2>1. 1..m \subseteq Nat
    OBVIOUS
  <2>2. s \in Seq(Nat)
    BY <2>1, SeqMonotonic
  <2> QED
    BY <2>2, RangeOfRun
<1>6. /\ \A i \in Segments : RunTo(log[i].frames, Last(i)) /\ Size(i) \in 1..MaxSegFrames /\ Last(i) <= Settled
      /\ \A i, j \in Segments : i < j => Last(i) <= Last(j) - Size(j)
  BY DEF SpeechInv, RunsInv
<1>7. \A i \in Segments : RunTo(log'[i].frames, Last(i)') /\ Last(i) <= m
  <2>1. ASSUME NEW i \in Segments PROVE RunTo(log'[i].frames, Last(i)')
    <3>1. log'[i] = log[i] /\ Last(i)' = Last(i) /\ RunTo(log[i].frames, Last(i))
      BY <1>12, <1>3, <1>6
    <3> QED
      BY <3>1
  <2>2. \A i \in Segments : Last(i) <= m
    BY <1>1, <1>4, <1>6
  <2> QED
    BY <2>1, <2>2
<1>8. \A d \in dropped : d \in Nat /\ d <= Settled /\ d <= m /\ \A i \in Segments : d \notin Range(log'[i].frames)
  <2>1. dropped \in SUBSET (1..Len(air))
    BY DEF TypeInv, TypeOK, Frames
  <2> TAKE d \in dropped
  <2>2. d \in Nat /\ d <= Settled /\ \A i \in Segments : d \notin Range(log[i].frames)
    BY <2>1 DEF SpeechInv, DroppedInv
  <2>3. d <= m
    BY <1>1, <2>2
  <2> QED
    BY <1>12, <2>2, <2>3
<1>9. ASSUME NEW k \in 1..m, IsSpeech(air'[k])
      PROVE  k \in Range(s) \/ k \in dropped \/ \E i \in Segments : k \in Range(log'[i].frames)
  <2>1. CASE k \in 1..Len(air)
    <3>1. k \in Range(buf) \/ k \in dropped \/ \E i \in Segments : k \in Range(log[i].frames)
      BY <1>9, <2>1 DEF SpeechInv, LoudInv, Frames
    <3> QED
      BY <1>2, <3>1
  <2>2. CASE k \notin 1..Len(air)
    <3>1. k \in Len(air) + 1 .. m
      BY <1>1, <2>2
    <3> QED
      BY <3>1
  <2> QED
    BY <2>1, <2>2
<1>10. CASE c = <<Segment(s)>> /\ dropped' = dropped
  <2>1. PICK new \in Nat : /\ Segments' = Segments \cup {new} /\ log'[new] = Segment(s)
                           /\ \A i \in Segments : i < new
    BY <1>2, <1>10
  <2>2. log'[new].frames = s
    BY <2>1 DEF Segment
  <2>3. Last(new)' = m /\ Size(new)' = Len(s) /\ RunTo(log[new].frames, Last(new))'
    <3>1. s[Len(s)] = m
      <4>1. Len(s) \in 1..Len(s) /\ m - Len(s) + Len(s) = m
        BY <1>1
      <4> QED
        BY <4>1 DEF RunTo
    <3>2. Last(new)' = m /\ Size(new)' = Len(s)
      BY <2>2, <3>1 DEF Last, Size
    <3>3. RunTo(s, m)
      OBVIOUS
    <3> QED
      BY <2>2, <3>2, <3>3 DEF RunTo
  <2>4. ASSUME NEW i \in Segments'
        PROVE  RunTo(log[i].frames, Last(i))' /\ Size(i)' \in 1..MaxSegFrames /\ Last(i)' <= Settled'
    <3>1. CASE i \in Segments
      <4>1. RunTo(log'[i].frames, Last(i)') /\ Last(i) <= m /\ Settled' = m
        BY <1>1, <1>7, <3>1
      <4>2. Last(i)' = Last(i) /\ Size(i)' = Size(i) /\ Size(i) \in 1..MaxSegFrames
        BY <1>3, <1>6, <3>1
      <4> QED
        BY <4>1, <4>2
    <3>2. CASE i = new
      <4>1. Last(i)' = m /\ Size(i)' = Len(s) /\ RunTo(log[i].frames, Last(i))'
        BY <2>3, <3>2, Zenon
      <4>2. m <= Settled'
        BY <1>1
      <4> QED
        BY <4>1, <4>2
    <3> QED
      BY <2>1, <3>1, <3>2
  <2>5. ASSUME NEW i \in Segments', NEW j \in Segments', i < j PROVE Last(i)' <= Last(j)' - Size(j)'
    <3>1. i \in Nat /\ j \in Nat /\ i \in Segments
      BY <1>4, <2>1, <2>5
    <3>2. CASE j \in Segments
      BY <1>3, <1>6, <2>5, <3>1, <3>2
    <3>3. CASE j = new
      BY <1>3, <1>6, <2>3, <3>1, <3>3
    <3> QED
      BY <2>1, <3>2, <3>3
  <2>6. RunsInv'
    BY <2>4, <2>5 DEF RunsInv
  <2>7. DroppedInv'
    <3>1. \A d \in dropped : d \notin Range(s)
      BY <1>1, <1>5, <1>8
    <3>2. \A d \in dropped : d <= Settled' /\ \A i \in Segments' : d \notin Range(log'[i].frames)
      BY <1>1, <1>8, <2>1, <2>2, <3>1
    <3> QED
      BY <1>10, <3>2 DEF DroppedInv
  <2>8. LoudInv'
    <3>1. \A k \in 1..m : IsSpeech(air'[k]) =>
            k \in dropped' \/ \E i \in Segments' : k \in Range(log'[i].frames)
      BY <1>9, <1>10, <2>1, <2>2
    <3> QED
      BY <3>1 DEF LoudInv, Frames
  <2> QED
    BY <2>6, <2>7, <2>8 DEF SpeechInv
<1>11. CASE c = <<>> /\ dropped' = dropped \cup Range(s)
  <2>1. Segments' = Segments
    BY <1>2, <1>11
  <2>2. RunsInv'
    BY <1>1, <1>3, <1>6, <1>7, <2>1 DEF RunsInv
  <2>3. DroppedInv'
    <3>1. ASSUME NEW d \in Range(s), NEW i \in Segments PROVE d \notin Range(log'[i].frames)
      <4>1. Range(log[i].frames) = Last(i) - Size(i) + 1 .. Last(i)
        BY SegmentRange DEF SpeechInv
      <4>2. Last(i) <= Settled /\ Last(i) \in Nat /\ log'[i] = log[i]
        BY <1>4, <1>6, <1>12
      <4>3. d \in Settled + 1 .. m
        BY <1>5
      <4>4. d \notin Last(i) - Size(i) + 1 .. Last(i)
        BY <1>1, <1>4, <4>2, <4>3
      <4> QED
        BY <4>1, <4>2, <4>4
    <3>2. \A d \in Range(s) : d <= m
      BY <1>5
    <3> QED
      BY <1>1, <1>8, <1>11, <2>1, <3>1, <3>2 DEF DroppedInv
  <2>4. LoudInv'
    <3>1. \A k \in 1..m : IsSpeech(air'[k]) =>
            k \in dropped' \/ \E i \in Segments' : k \in Range(log'[i].frames)
      BY <1>9, <1>11, <2>1
    <3> QED
      BY <3>1 DEF LoudInv, Frames
  <2> QED
    BY <2>2, <2>3, <2>4 DEF SpeechInv
<1> QED
  BY <1>10, <1>11

\* The pre-roll of one more frame: the latest ones, and the new one if there is room for any.
LEMMA RollProperties ==
  ASSUME NEW n \in Nat, NEW s \in Seq(1..n), RunTo(s, n), NEW roll, roll = Roll(s, n + 1)
  PROVE  /\ roll \in Seq(1..n + 1) /\ RunTo(roll, n + 1) /\ Len(roll) \in 0..PadFrames
         /\ Len(roll) <= Len(s) + 1
         /\ PadFrames > 0 => Len(roll) >= 1 /\ n + 1 \in Range(roll)
<1> DEFINE t == Append(s, n + 1)
<1>1. Len(s) \in Nat /\ PadFrames \in Nat
  BY LenProperties, FramesAssumption
<1>2. /\ t \in Seq(1..n + 1) /\ Len(t) = Len(s) + 1
      /\ t[Len(s) + 1] = n + 1 /\ \A i \in 1..Len(s) : t[i] = s[i]
  <2>1. s \in Seq(1..n + 1)
    BY EntryGrows
  <2> QED
    BY <2>1, AppendProperties
<1>3. roll = LastOf(t, PadFrames)
  BY DEF Roll
<1> HIDE DEF t
<1>4. /\ roll \in Seq(1..n + 1) /\ Len(roll) = (IF Len(t) > PadFrames THEN PadFrames ELSE Len(t))
      /\ \A i \in 1..Len(roll) : roll[i] = t[Len(t) - Len(roll) + i]
  <2> DEFINE S == 1..n + 1
             r == LastOf(t, PadFrames)
  <2>1. t \in Seq(S) /\ PadFrames \in Nat
    BY <1>1, <1>2
  <2> HIDE DEF S
  <2>2. /\ r \in Seq(S) /\ Len(r) = (IF Len(t) > PadFrames THEN PadFrames ELSE Len(t))
        /\ \A i \in 1..Len(r) : r[i] = t[Len(t) - Len(r) + i]
    BY <2>1, LastOfProperties
  <2> HIDE DEF r
  <2>3. roll = r
    BY <1>3 DEF r
  <2> QED
    BY <2>2, <2>3 DEF S
<1>5. Len(roll) \in 0..PadFrames /\ Len(roll) <= Len(s) + 1 /\ (PadFrames > 0 => Len(roll) >= 1)
  BY <1>1, <1>2, <1>4
<1>6. RunTo(roll, n + 1)
  <2> SUFFICES ASSUME NEW k \in 1..Len(roll) PROVE roll[k] = n + 1 - Len(roll) + k
    BY DEF RunTo
  <2> DEFINE j == Len(t) - Len(roll) + k
  <2>1. j \in 1..Len(s) + 1 /\ j = Len(s) + 1 - Len(roll) + k
    BY <1>1, <1>2, <1>5
  <2>2. CASE j = Len(s) + 1
    <3>1. roll[k] = t[j]
      BY <1>4
    <3>2. roll[k] = n + 1
      BY <1>2, <2>2, <3>1
    <3>3. Len(roll) = k
      BY <1>1, <1>5, <2>1, <2>2
    <3> QED
      BY <1>1, <3>2, <3>3
  <2>3. CASE j # Len(s) + 1
    <3>1. j \in 1..Len(s)
      BY <1>1, <2>1, <2>3
    <3>2. roll[k] = t[j]
      BY <1>4
    <3>3. t[j] = s[j] /\ s[j] = n - Len(s) + j
      BY <1>2, <3>1 DEF RunTo
    <3>4. n - Len(s) + j = n + 1 - Len(roll) + k
      BY <1>1, <1>5, <2>1
    <3> QED
      BY <3>2, <3>3, <3>4
  <2> QED
    BY <2>2, <2>3
<1>7. PadFrames > 0 => n + 1 \in Range(roll)
  <2> SUFFICES ASSUME PadFrames > 0 PROVE n + 1 \in Range(roll)
    OBVIOUS
  <2>1. Len(roll) \in 1..Len(roll) /\ DOMAIN roll = 1..Len(roll)
    BY <1>1, <1>4, <1>5, LenProperties
  <2>2. roll[Len(roll)] = n + 1
    BY <1>5, <1>6, <2>1 DEF RunTo
  <2> QED
    BY <2>1, <2>2 DEF Range
<1> QED
  BY <1>4, <1>5, <1>6, <1>7

\* A segment in the making with one more frame.
LEMMA CollectRun ==
  ASSUME NEW n \in Nat, NEW s \in Seq(1..n), RunTo(s, n), NEW t, t = Append(s, n + 1)
  PROVE  t \in Seq(1..n + 1) /\ RunTo(t, n + 1) /\ Len(t) = Len(s) + 1 /\ Len(s) \in Nat
<1>1. s \in Seq(1..n + 1) /\ Len(s) \in Nat /\ DOMAIN s = 1..Len(s)
  BY EntryGrows, LenProperties
<1>2. /\ t \in Seq(1..n + 1) /\ Len(t) = Len(s) + 1
      /\ t[Len(s) + 1] = n + 1 /\ \A i \in 1..Len(s) : t[i] = s[i]
  BY <1>1, AppendProperties
<1>3. RunTo(t, n + 1)
  <2> SUFFICES ASSUME NEW k \in 1..Len(t) PROVE t[k] = n + 1 - Len(t) + k
    BY DEF RunTo
  <2>1. CASE k = Len(s) + 1
    BY <1>1, <1>2, <2>1
  <2>2. CASE k # Len(s) + 1
    <3>1. k \in 1..Len(s)
      BY <1>1, <1>2, <2>2
    <3>2. t[k] = s[k] /\ s[k] = n - Len(s) + k
      BY <1>2, <3>1 DEF RunTo
    <3> QED
      BY <1>1, <1>2, <3>2
  <2> QED
    BY <2>1, <2>2
<1> QED
  BY <1>1, <1>2, <1>3

LEMMA CollectRange ==
  ASSUME NEW S, NEW s \in Seq(S), NEW e \in S
  PROVE  Range(Append(s, e)) = Range(s) \cup {e}
<1> DEFINE t == Append(s, e)
<1>1. Len(s) \in Nat /\ DOMAIN s = 1..Len(s)
  BY LenProperties
<1>2. /\ t \in Seq(S) /\ Len(t) = Len(s) + 1
      /\ t[Len(s) + 1] = e /\ \A i \in 1..Len(s) : t[i] = s[i]
  BY <1>1, AppendProperties
<1> HIDE DEF t
<1>3. DOMAIN t = 1..Len(s) + 1
  BY <1>2, LenProperties
<1>4. Range(t) = Range(s) \cup {e}
  BY <1>1, <1>2, <1>3 DEF Range
<1> QED
  BY <1>4 DEF t

LEMMA SpeechInit ==
  ASSUME Init
  PROVE  SpeechInv
<1>1. air = <<>> /\ ~inSpeech /\ pre = <<>> /\ buf = <<>> /\ log = <<>> /\ dropped = {}
  BY DEF Init
<1>2. Held = <<>> /\ Len(air) = 0 /\ Len(<<>>) = 0
  BY <1>1 DEF Held
<1>3. Segments = {} /\ Frames = {}
  BY <1>1 DEF Segments, Frames
<1>4. HeldInv
  BY <1>1, <1>2 DEF HeldInv, RunTo
<1> QED
  BY <1>1, <1>3, <1>4 DEF SpeechInv, RunsInv, DroppedInv, LoudInv

LEMMA SpeechStep ==
  ASSUME TypeInv, TypeInv', SpeechInv, PadsFit, [Next]_vars
  PROVE  SpeechInv'
<1> DEFINE n == Len(air)
           Alerts == {Alert(h) : h \in Header}
<1>1. /\ n \in Nat /\ Held \in Seq(1..n) /\ Len(Held) \in Nat /\ RunTo(Held, n)
      /\ Settled \in Nat /\ Settled = n - Len(Held) /\ log \in Seq(EntryUpTo(n))
  <2>1. HeldInv
    BY DEF SpeechInv
  <2>2. log \in Seq(EntryUpTo(n))
    BY DEF TypeInv, TypeOK, Entry, EntryUpTo, Frames
  <2> QED
    BY <2>1, <2>2, HeldTyped DEF HeldInv, Settled
<1>2. /\ PadFrames \in Nat /\ MaxSegFrames \in Nat /\ 0 < PadFrames /\ PadFrames < MaxSegFrames
  BY FramesAssumption DEF PadsFit
<1>3. ASSUME NEW f \in Frame, Hear(f) PROVE SpeechInv'
  <2>1. PICK found \in Seq(Header) :
          /\ Kept(Flush(found)) /\ log' = log \o (Flush(found).alerts \o Cut(n + 1, f))
    BY <1>3, HearTells
  <2> DEFINE a == Flush(found).alerts
  <2>2. a \in Seq(Alerts)
    BY <2>1 DEF Kept, Memory
  <2>3. air' = Append(air, f) /\ Len(air') = n + 1 /\ air \in Seq(Frame)
    BY <1>3, HearTells DEF TypeInv, TypeOK
  <2>4. /\ \A k \in 1..n : air'[k] = air[k] /\ air'[n + 1] = f
        /\ \A k \in n + 1 .. n + 1 : k = n + 1
        /\ n <= n + 1
    BY <1>1, <2>3, AppendProperties
  <2>5. dropped' = dropped \cup Lost(n + 1, f) /\ (Wait(n + 1, f) \/ Collect(n + 1, f))
    BY <1>3, <2>3, Zenon DEF Hear
  <2> HIDE DEF n, a
  <2>6. CASE Wait(n + 1, f)
    <3> DEFINE roll == Roll(pre, n + 1)
    <3>1. ~inSpeech /\ Held = pre /\ Range(buf) = {}
      <4>1. ~inSpeech
        BY <2>6 DEF Wait
      <4>2. buf = <<>>
        BY <4>1 DEF TypeInv, TypeOK
      <4> QED
        BY <4>1, <4>2 DEF Held, Range
    <3>2. /\ roll \in Seq(1..n + 1) /\ RunTo(roll, n + 1) /\ Len(roll) \in 0..PadFrames
          /\ Len(roll) <= Len(pre) + 1 /\ Len(roll) >= 1 /\ n + 1 \in Range(roll)
      <4> HIDE DEF roll
      <4>1. n \in Nat /\ pre \in Seq(1..n) /\ RunTo(pre, n)
        BY <1>1, <3>1
      <4> QED
        BY <1>2, <4>1, RollProperties DEF roll
    <3>3. Cut(n + 1, f) = <<>> /\ Lost(n + 1, f) = {}
      BY <3>1 DEF Cut, Lost
    <3>4. log' = log \o (a \o <<>>) /\ dropped' = dropped
      BY <2>1, <2>5, <3>3 DEF a
    <3>5. Held' = roll /\ HeldInv' /\ Range(buf) \subseteq Range(buf') /\ (IsSpeech(f) => n + 1 \in Range(buf'))
      <4>1. CASE IsSpeech(f)
        <5>1. inSpeech' /\ buf' = roll /\ pre' = <<>>
          BY <2>6, <4>1 DEF Wait
        <5>2. Held' = roll
          BY <5>1 DEF Held
        <5>3. Len(roll) \in 1..MaxSegFrames-1 /\ Len(roll) <= n + 1
          BY <1>1, <1>2, <3>1, <3>2
        <5> HIDE DEF roll
        <5>4. HeldInv'
          BY <2>3, <3>2, <5>1, <5>2, <5>3 DEF HeldInv, n
        <5> QED
          BY <3>1, <3>2, <5>1, <5>2, <5>4
      <4>2. CASE ~ IsSpeech(f)
        <5>1. ~inSpeech' /\ buf' = buf /\ pre' = roll
          BY <2>6, <4>2 DEF Wait
        <5>2. Held' = roll
          BY <5>1 DEF Held
        <5>3. Len(roll) <= n + 1
          BY <1>1, <1>2, <3>1, <3>2
        <5> HIDE DEF roll
        <5>4. HeldInv'
          BY <2>3, <3>2, <5>1, <5>2, <5>3 DEF HeldInv, n
        <5> QED
          BY <4>2, <5>1, <5>2, <5>4
      <4> QED
        BY <4>1, <4>2
    <3> HIDE DEF roll
    <3>6. Settled <= Settled'
      <4>1. Settled' = n + 1 - Len(roll)
        BY <2>3, <3>5 DEF Settled, n
      <4> QED
        BY <1>1, <1>2, <3>1, <3>2, <4>1
    <3>7. /\ Len(air) <= Len(air') /\ \A k \in 1..Len(air) : air'[k] = air[k]
          /\ \A k \in Len(air) + 1 .. Len(air') : IsSpeech(air'[k]) => k \in Range(buf')
      BY <2>3, <2>4, <3>5 DEF n
    <3> QED
      BY <2>2, <3>4, <3>5, <3>6, <3>7, HoldStep
  <2>7. CASE Collect(n + 1, f)
    <3> DEFINE t == Append(buf, n + 1)
    <3>1. inSpeech /\ Held = buf /\ Len(buf) \in 1..MaxSegFrames-1 /\ pre = <<>>
      BY <2>7 DEF Collect, Held, SpeechInv, HeldInv
    <3>2. /\ t \in Seq(1..n + 1) /\ RunTo(t, n + 1) /\ Len(t) = Len(buf) + 1
          /\ Range(buf) \subseteq Range(t) /\ n + 1 \in Range(t)
      <4> HIDE DEF t
      <4>1. n \in Nat /\ buf \in Seq(1..n) /\ RunTo(buf, n)
        BY <1>1, <3>1
      <4>2. t = Append(buf, n + 1)
        BY DEF t
      <4>3. /\ t \in Seq(1..n + 1) /\ RunTo(t, n + 1) /\ Len(t) = Len(buf) + 1 /\ Len(buf) \in Nat
            /\ Range(buf) \subseteq Range(t) /\ n + 1 \in Range(t)
        <5>1. PICK k \in Nat : k = n
          BY <4>1
        <5>2. buf \in Seq(1..k) /\ RunTo(buf, k) /\ t = Append(buf, k + 1)
          BY <4>1, <4>2, <5>1
        <5>3. t \in Seq(1..k + 1) /\ RunTo(t, k + 1) /\ Len(t) = Len(buf) + 1 /\ Len(buf) \in Nat
          BY <5>2, CollectRun
        <5>4. buf \in Seq(1..k + 1) /\ k + 1 \in 1..k + 1
          BY <5>2, EntryGrows
        <5>5. Range(t) = Range(buf) \cup {k + 1}
          BY <5>2, <5>4, CollectRange
        <5> QED
          BY <5>1, <5>3, <5>5
      <4> QED
        BY <4>3
    <3>3. CASE ~ IsOver(t, Hush(f))
      <4>1. buf' = t /\ inSpeech' /\ pre' = pre
        BY <2>7, <3>1, <3>3 DEF Collect
      <4>2. Cut(n + 1, f) = <<>> /\ Lost(n + 1, f) = {}
        BY <3>3 DEF Cut, Lost
      <4>3. log' = log \o (a \o <<>>) /\ dropped' = dropped
        BY <2>1, <2>5, <4>2 DEF a
      <4>4. Held' = t
        BY <4>1 DEF Held
      <4>5. Len(t) \in 1..MaxSegFrames-1 /\ Len(t) <= n + 1
        <5>1. Len(t) < MaxSegFrames
          BY <1>2, <3>1, <3>2, <3>3 DEF IsOver
        <5>2. Len(Held) <= n
          BY <1>1
        <5> QED
          BY <1>1, <1>2, <3>1, <3>2, <5>1, <5>2
      <4> HIDE DEF t
      <4>6. HeldInv'
        BY <2>3, <3>1, <3>2, <4>1, <4>4, <4>5 DEF HeldInv, n
      <4>7. Settled <= Settled'
        <5>1. Settled' = n + 1 - Len(t)
          BY <2>3, <4>4 DEF Settled, n
        <5> QED
          BY <1>1, <1>2, <3>1, <3>2, <5>1
      <4>8. /\ Len(air) <= Len(air') /\ \A k \in 1..Len(air) : air'[k] = air[k]
            /\ \A k \in Len(air) + 1 .. Len(air') : IsSpeech(air'[k]) => k \in Range(buf')
        BY <2>3, <2>4, <3>2, <4>1 DEF n
      <4>9. Range(buf) \subseteq Range(buf')
        BY <3>2, <4>1
      <4> QED
        BY <2>2, <4>3, <4>6, <4>7, <4>8, <4>9, HoldStep
    <3>4. CASE IsOver(t, Hush(f))
      <4>1. buf' = <<>> /\ pre' = <<>> /\ ~inSpeech'
        BY <2>7, <3>4 DEF Collect
      <4>2. Held' = <<>> /\ Len(Held') = 0
        BY <4>1 DEF Held
      <4>3. HeldInv'
        <5>1. Len(air') = n + 1 /\ n + 1 \in Nat
          BY <1>1, <2>3
        <5> QED
          BY <4>1, <4>2, <5>1 DEF HeldInv, RunTo
      <4>4. \/ Cut(n + 1, f) = <<Segment(t)>> /\ dropped' = dropped
            \/ Cut(n + 1, f) = <<>> /\ dropped' = dropped \cup Range(t)
        <5>1. Cut(n + 1, f) = Finished(t)
          BY <3>1, <3>4 DEF Cut
        <5>2. CASE Finished(t) = <<>>
          <6>1. Lost(n + 1, f) = Range(t)
            BY <3>1, <3>4, <5>1, <5>2 DEF Lost
          <6> QED
            BY <2>5, <5>1, <5>2, <6>1
        <5>3. CASE Finished(t) = <<Segment(t)>>
          <6>1. Cut(n + 1, f) # <<>>
            <7> DEFINE e == Segment(t)
            <7> HIDE DEF e
            <7>1. <<e>> # <<>>
              OBVIOUS
            <7> QED
              BY <5>1, <5>3, <7>1 DEF e
          <6>2. Lost(n + 1, f) = {}
            BY <6>1, Zenon DEF Lost
          <6> QED
            BY <2>5, <5>1, <5>3, <6>2
        <5> QED
          BY <5>2, <5>3 DEF Finished
      <4>5. log' = log \o (a \o Cut(n + 1, f))
        BY <2>1 DEF a
      <4>6. Len(t) \in 1..MaxSegFrames /\ n + 1 - Len(t) = Settled
        BY <1>1, <1>2, <3>1, <3>2
      <4>7. /\ n + 1 \in Nat /\ n + 1 = Len(air') /\ Len(air) <= n + 1
            /\ \A k \in 1..Len(air) : air'[k] = air[k]
            /\ \A k \in Len(air) + 1 .. n + 1 : k \in Range(t)
        BY <1>1, <2>3, <2>4, <3>2 DEF n
      <4> DEFINE m == n + 1
                 c == Cut(n + 1, f)
      <4>8. /\ m \in Nat /\ m = Len(air') /\ Len(air) <= m /\ \A k \in Len(air) + 1 .. m : k \in Range(t)
            /\ log' = log \o (a \o c) /\ t \in Seq(1..m) /\ RunTo(t, m) /\ m - Len(t) = Settled
            /\ ((c = <<Segment(t)>> /\ dropped' = dropped) \/ (c = <<>> /\ dropped' = dropped \cup Range(t)))
        <5>1. /\ m \in Nat /\ m = Len(air') /\ Len(air) <= m /\ \A k \in Len(air) + 1 .. m : k \in Range(t)
              /\ t \in Seq(1..m) /\ RunTo(t, m) /\ m - Len(t) = Settled
          <6>4. m \in Nat /\ m = Len(air') /\ Len(air) <= m
            BY <4>7, Zenon
          <6>5. m - Len(t) = Settled
            BY <1>1, <3>1, <3>2
          <6>1. m \in Nat /\ m = Len(air') /\ Len(air) <= m /\ m - Len(t) = Settled
            BY <6>4, <6>5, Zenon
          <6>2. t \in Seq(1..m) /\ RunTo(t, m)
            BY <3>2
          <6>3. \A k \in Len(air) + 1 .. m : k \in Range(t)
            BY <4>7
          <6> QED
            BY <6>1, <6>2, <6>3, Zenon
        <5>2. log' = log \o (a \o c)
          BY <4>5
        <5>3. ((c = <<Segment(t)>> /\ dropped' = dropped) \/ (c = <<>> /\ dropped' = dropped \cup Range(t)))
          BY <4>4
        <5> QED
          BY <5>1, <5>2, <5>3, Zenon
      <4> HIDE DEF t, m, c
      <4> QED
        BY <2>2, <3>2, <4>2, <4>3, <4>6, <4>7, <4>8, CutStep
    <3> QED
      BY <3>3, <3>4
  <2> QED
    BY <2>5, <2>6, <2>7
<1>4. CASE End
  <2>1. air' = air /\ pre' = pre /\ buf' = <<>> /\ ~inSpeech'
    BY <1>4 DEF End
  <2>2. log' = log \o (IF inSpeech THEN Finished(buf) ELSE <<>>)
    BY <1>4 DEF End
  <2>3. dropped' = dropped \cup (IF inSpeech /\ Finished(buf) = <<>> THEN Range(buf) ELSE {})
    BY <1>4 DEF End
  <2>4. <<>> \in Seq(Alerts)
    OBVIOUS
  <2>5. \A k \in Len(air) + 1 .. n : FALSE
    BY <1>1
  <2>6. CASE inSpeech
    <3>1. Held = buf /\ Len(buf) \in 1..MaxSegFrames-1 /\ pre = <<>>
      BY <2>6 DEF Held, SpeechInv, HeldInv
    <3>2. Held' = <<>> /\ Len(Held') = 0
      BY <2>1, <3>1 DEF Held
    <3>3. HeldInv'
      BY <1>1, <2>1, <3>2 DEF HeldInv, RunTo
    <3>4. Finished(buf) \in Seq(EntryUpTo(n))
      BY <1>1, <3>1, FinishedTyped
    <3>5. log' = log \o (<<>> \o Finished(buf))
      <4>1. <<>> \o Finished(buf) = Finished(buf)
        BY <3>4, ConcatEmptySeq
      <4> QED
        BY <2>2, <2>6, <4>1
    <3>6. \/ Finished(buf) = <<Segment(buf)>> /\ dropped' = dropped
          \/ Finished(buf) = <<>> /\ dropped' = dropped \cup Range(buf)
      <4>1. CASE Finished(buf) = <<>>
        BY <2>3, <2>6, <4>1
      <4>2. CASE Finished(buf) = <<Segment(buf)>>
        BY <2>3, <4>2
      <4> QED
        BY <4>1, <4>2 DEF Finished
    <3>7. /\ n = Len(air') /\ Len(air) <= n /\ \A k \in 1..Len(air) : air'[k] = air[k]
          /\ buf \in Seq(1..n) /\ RunTo(buf, n) /\ Len(buf) \in 1..MaxSegFrames /\ n - Len(buf) = Settled
      BY <1>1, <1>2, <2>1, <3>1
    <3> DEFINE c == Finished(buf)
    <3> HIDE DEF n, c
    <3>8. n \in Nat /\ ((c = <<Segment(buf)>> /\ dropped' = dropped) \/ (c = <<>> /\ dropped' = dropped \cup Range(buf)))
          /\ log' = log \o (<<>> \o c)
      BY <1>1, <3>5, <3>6, Zenon DEF c
    <3> QED
      BY <2>4, <2>5, <3>2, <3>3, <3>7, <3>8, CutStep
  <2>7. CASE ~inSpeech
    <3>1. Held' = Held /\ buf = <<>> /\ Settled' = Settled
      <4>1. Held' = Held
        BY <2>1, <2>7 DEF Held
      <4> QED
        BY <2>1, <2>7, <4>1 DEF TypeInv, TypeOK, Settled
    <3>2. HeldInv'
      BY <2>1, <3>1 DEF HeldInv, SpeechInv
    <3>3. log' = log \o (<<>> \o <<>>) /\ dropped' = dropped
      <4>1. <<>> \o <<>> = <<>>
        BY <2>4, ConcatEmptySeq
      <4> QED
        BY <2>2, <2>3, <2>7, <4>1
    <3>4. /\ Settled <= Settled' /\ Len(air) <= Len(air') /\ \A k \in 1..Len(air) : air'[k] = air[k]
          /\ Range(buf) \subseteq Range(buf')
      BY <1>1, <2>1, <3>1
    <3>5. \A k \in Len(air) + 1 .. Len(air') : IsSpeech(air'[k]) => k \in Range(buf')
      BY <2>1, <2>5
    <3> QED
      BY <2>4, <3>2, <3>3, <3>4, <3>5, HoldStep
  <2> QED
    BY <2>6, <2>7
<1>5. CASE UNCHANGED vars
  BY <1>5, Zenon DEF vars, segmenter, SpeechInv, HeldInv, RunsInv, DroppedInv, LoudInv, Held, Settled,
     Last, Size, Segments, Frames
<1> QED
  BY <1>3, <1>4, <1>5 DEF Next

\* Every loud frame is accounted for once.
LEMMA LoudOnce ==
  ASSUME TypeInv, SpeechInv, NEW n \in Frames, IsSpeech(air[n])
  PROVE  Cardinality({i \in Segments : n \in Range(log[i].frames)})
           + (IF n \in Range(buf) THEN 1 ELSE 0) + (IF n \in dropped THEN 1 ELSE 0) = 1
<1> DEFINE K == {i \in Segments : n \in Range(log[i].frames)}
<1>1. n \in Nat /\ Settled \in Nat
  <2>1. Len(air) \in Nat /\ Settled \in Nat
    BY HeldTyped DEF SpeechInv
  <2> QED
    BY <2>1 DEF Frames
<1>2. n \in Range(buf) \/ n \in dropped \/ K # {}
  BY DEF SpeechInv, LoudInv
<1>3. \A i \in K : /\ n \in Last(i) - Size(i) + 1 .. Last(i) /\ Last(i) \in Nat /\ Size(i) \in Nat
                   /\ i \in Nat /\ Last(i) <= Settled
  <2> TAKE i \in K
  <2>1. Last(i) \in 1..Len(air) /\ Size(i) \in Nat /\ i \in 1..Len(log) /\ Last(i) <= Settled
    BY SegmentTyped DEF SpeechInv, RunsInv
  <2>2. Range(log[i].frames) = Last(i) - Size(i) + 1 .. Last(i)
    BY SegmentRange DEF SpeechInv
  <2> QED
    BY <2>1, <2>2
<1>4. \A i, j \in K : i = j
  <2>1. \A i, j \in K : ~ (i < j)
    <3> SUFFICES ASSUME NEW i \in K, NEW j \in K, i < j PROVE FALSE
      OBVIOUS
    <3>1. Last(i) <= Last(j) - Size(j)
      BY DEF SpeechInv, RunsInv
    <3>2. /\ n \in Last(i) - Size(i) + 1 .. Last(i) /\ n \in Last(j) - Size(j) + 1 .. Last(j)
          /\ Last(i) \in Nat /\ Last(j) \in Nat /\ Size(i) \in Nat /\ Size(j) \in Nat
      BY <1>3
    <3> QED
      BY <1>1, <3>1, <3>2
  <2> HIDE DEF K
  <2> QED
    BY <1>3, <2>1
<1>5. n \in Range(buf) => K = {} /\ n \notin dropped
  <2> SUFFICES ASSUME n \in Range(buf) PROVE K = {} /\ n \notin dropped
    OBVIOUS
  <2>1. Held = buf
    <3>1. buf # <<>>
      BY DEF Range
    <3> QED
      BY <3>1 DEF Held, TypeInv, TypeOK
  <2>2. n \in Settled + 1 .. Len(air)
    BY <2>1, HeldTyped DEF SpeechInv
  <2>3. n \notin dropped
    BY <1>1, <2>2 DEF SpeechInv, DroppedInv
  <2> HIDE DEF K
  <2> QED
    BY <1>1, <1>3, <2>2, <2>3
<1>6. n \in dropped => K = {}
  BY DEF SpeechInv, DroppedInv
<1> HIDE DEF K
<1>7. CASE K = {}
  <2>1. Cardinality(K) = 0
    BY <1>7, FS_EmptySet
  <2> QED
    BY <1>2, <1>5, <1>7, <2>1 DEF K
<1>8. CASE K # {}
  <2>1. PICK i \in K : K = {i}
    BY <1>4, <1>8
  <2>2. Cardinality(K) = 1
    BY <2>1, FS_Singleton
  <2>3. n \notin Range(buf) /\ n \notin dropped
    BY <1>5, <1>6, <1>8
  <2> QED
    BY <2>2, <2>3 DEF K
<1> QED
  BY <1>7, <1>8

\* The segments are runs in order.
LEMMA RunsInOrder ==
  ASSUME TypeInv, SpeechInv, MaxSegFrames \in Nat, NEW i \in Segments
  PROVE  LET run == log[i].frames
         IN  /\ Len(run) <= MaxSegFrames /\ \A k \in DOMAIN run : run[k] = run[1] + k - 1
             /\ \A j \in Segments : i < j => run[Len(run)] < log[j].frames[1]
             /\ buf # <<>> => run[Len(run)] < buf[1]
<1> DEFINE run == log[i].frames
<1>1. \A j \in Segments : /\ Last(j) \in Nat /\ Size(j) \in Nat \ {0}
                          /\ log[j].frames[1] = Last(j) - Size(j) + 1
  <2> TAKE j \in Segments
  <2>1. Last(j) \in 1..Len(air) /\ Size(j) \in Nat \ {0}
    BY SegmentTyped
  <2>2. RunTo(log[j].frames, Last(j))
    BY DEF SpeechInv, RunsInv
  <2>3. log[j].frames[1] = Last(j) - Size(j) + 1
    BY <2>1, <2>2 DEF RunTo, Size
  <2> QED
    BY <2>1, <2>3
<1>2. Len(run) = Size(i) /\ run[Len(run)] = Last(i)
  BY DEF Size, Last
<1>3. Len(run) <= MaxSegFrames
  BY <1>1, <1>2 DEF SpeechInv, RunsInv
<1>4. \A k \in DOMAIN run : run[k] = run[1] + k - 1
  <2>1. run \in Seq(Nat)
    BY SegmentTyped
  <2>2. DOMAIN run = 1..Size(i)
    BY <1>2, <2>1, LenProperties
  <2>3. RunTo(run, Last(i))
    BY DEF SpeechInv, RunsInv
  <2>4. \A k \in 1..Size(i) : run[k] = Last(i) - Size(i) + k
    BY <1>2, <2>3 DEF RunTo
  <2> QED
    BY <1>1, <2>2, <2>4
<1>5. ASSUME NEW j \in Segments, i < j PROVE run[Len(run)] < log[j].frames[1]
  <2>1. Last(i) <= Last(j) - Size(j)
    BY <1>5 DEF SpeechInv, RunsInv
  <2> QED
    BY <1>1, <1>2, <2>1
<1>6. ASSUME buf # <<>> PROVE run[Len(run)] < buf[1]
  <2>1. Held = buf
    BY <1>6 DEF Held, TypeInv, TypeOK
  <2>2. Settled \in Nat /\ Settled + Len(buf) = Len(air) /\ Len(buf) \in Nat /\ Len(air) \in Nat
    BY <2>1, HeldTyped DEF SpeechInv
  <2>3. Len(buf) >= 1
    BY <1>6, EmptySeq DEF TypeInv
  <2>4. buf[1] = Settled + 1
    <3>1. RunTo(buf, Len(air))
      BY <2>1 DEF SpeechInv, HeldInv
    <3> QED
      BY <2>2, <2>3, <3>1 DEF RunTo
  <2>5. Last(i) <= Settled /\ Last(i) \in Nat
    BY <1>1 DEF SpeechInv, RunsInv
  <2> QED
    BY <1>2, <2>2, <2>4, <2>5
<1> QED
  BY <1>3, <1>4, <1>5, <1>6

\* No speech is lost or doubled between the microphone and the worker.
THEOREM SpeechKept == Spec => []SpeechIsKept
<1> DEFINE Inv == TypeInv /\ (PadsFit => SpeechInv)
<1>1. Init => Inv
  BY TypeInit, SpeechInit
<1>2. Inv /\ [Next]_vars => Inv'
  <2> SUFFICES ASSUME TypeInv, PadsFit => SpeechInv, [Next]_vars
               PROVE  TypeInv' /\ (PadsFit => SpeechInv')
    BY DEF PadsFit
  <2>1. TypeInv'
    BY TypeStep
  <2> QED
    BY <2>1, SpeechStep
<1>3. Inv => SpeechIsKept
  <2> SUFFICES ASSUME TypeInv, SpeechInv PROVE SpeechIsKept
    BY DEF SpeechIsKept, PadsFit
  <2>1. MaxSegFrames \in Nat
    BY FramesAssumption
  <2>2. \A n \in Frames : IsSpeech(air[n]) =>
          Cardinality({i \in Segments : n \in Range(log[i].frames)})
            + (IF n \in Range(buf) THEN 1 ELSE 0) + (IF n \in dropped THEN 1 ELSE 0) = 1
    BY LoudOnce
  <2>3. \A i \in Segments :
          LET run == log[i].frames
          IN  /\ Len(run) <= MaxSegFrames /\ \A k \in DOMAIN run : run[k] = run[1] + k - 1
              /\ \A j \in Segments : i < j => run[Len(run)] < log[j].frames[1]
              /\ buf # <<>> => run[Len(run)] < buf[1]
    BY <2>1, RunsInOrder
  <2> QED
    BY <2>2, <2>3, Zenon DEF SpeechIsKept
<1> HIDE DEF Inv
<1> QED
  BY <1>1, <1>2, <1>3, PTL DEF Spec

-----------------------------------------------------------------------------
(* The monitor. *)

\* The last window with a header in it is still being waited out, for as long as
\* same_silence_s has not passed.
BurstInv ==
  \A b \in Frames :
    /\ IsBurst(Heard(b)) /\ \A u \in b + 1 .. Len(air) : ~IsBurst(Heard(u))
    /\ Len(air) - b < SilenceFrames
    => capturing /\ quiet = Len(air) - b
\* What is remembered was raised; with room for every header, the reverse holds too, and
\* nothing was raised twice.
RaisedInv ==
  /\ Range(recent) \subseteq RaisedIn(log)
  /\ Cardinality(Header) <= RecentRaw =>
       /\ Distinct(recent) /\ RaisedIn(log) \subseteq Range(recent)
       /\ \A h \in Header : \A i, j \in RaisedAt(h) : i = j
\* The part of HeadersAreRaised that is about the first header of a burst.
FirstInv ==
  \A t \in Frames : OverAt(t) /\ InBuffer(Heard(t)) # {} =>
    \E i \in RaisedAt(FirstHeader(Heard(t))) :
      \A j \in DOMAIN log :
        log[j].is = "segment" /\ log[j].frames[Len(log[j].frames)] >= t => i < j

HeaderInv == BurstInv /\ RaisedInv /\ FirstInv

\* The past of the stream stays as it is.
LEMMA HeardStays ==
  ASSUME air \in Seq(Frame), NEW f \in Frame, air' = Append(air, f), NEW n, n = Len(air)
  PROVE  /\ \A t \in 1..n : Heard(t)' = Heard(t)
         /\ Heard(n + 1)' = air'
<1>1. /\ Len(air) \in Nat /\ air' \in Seq(Frame) /\ Len(air') = Len(air) + 1
      /\ \A i \in 1..Len(air) : air'[i] = air[i]
  BY LenProperties, AppendProperties
<1>2. ASSUME NEW t \in 1..Len(air) PROVE SubSeq(air', 1, t) = SubSeq(air, 1, t)
  <2>1. t \in 0..Len(air) /\ t \in 0..Len(air')
    BY <1>1
  <2>2. SubSeq(air, 1, t) = Restrict(air, 1..t) /\ SubSeq(air', 1, t) = Restrict(air', 1..t)
    BY <1>1, <2>1, SubSeqRestrict
  <2>3. \A i \in 1..t : air'[i] = air[i]
    BY <1>1
  <2> QED
    BY <2>2, <2>3 DEF Restrict
<1>3. SubSeq(air', 1, Len(air')) = air'
  BY <1>1, SubSeqFull
<1>4. \A t \in 1..n : Heard(t)' = Heard(t)
  BY <1>2 DEF Heard
<1>5. Heard(n + 1)' = air'
  BY <1>1, <1>3 DEF Heard
<1> QED
  BY <1>4, <1>5

\* Where the alerts and the segments of the grown log are.
LEMMA AlertsGrow ==
  ASSUME NEW n \in Nat, log \in Seq(EntryUpTo(n)), NEW a \in Seq({Alert(g) : g \in Header}),
         NEW c \in Seq(EntryUpTo(n)), \A k \in DOMAIN c : c[k].is = "segment",
         log' = log \o (a \o c)
  PROVE  /\ Len(log) \in Nat /\ DOMAIN log = 1..Len(log) /\ DOMAIN a \subseteq Nat \ {0}
         /\ \A h \in Header :
              RaisedAt(h)' = RaisedAt(h) \cup {Len(log) + k : k \in {l \in DOMAIN a : a[l] = Alert(h)}}
         /\ RaisedIn(log') = RaisedIn(log) \cup RaisedIn(a)
         /\ \A j \in DOMAIN log' : log'[j].is = "segment" =>
              \/ j \in DOMAIN log /\ log'[j] = log[j]
              \/ j \in Nat /\ (\A i \in DOMAIN log : i < j) /\ \A k \in DOMAIN a : Len(log) + k < j
<1> DEFINE S == EntryUpTo(n)
<1>1. a \in Seq(S) /\ \A k \in DOMAIN a : a[k].is = "alert"
  <2>1. {Alert(h) : h \in Header} \subseteq S
    BY EntryTyped
  <2>2. \A i \in DOMAIN a : a[i] \in {Alert(h) : h \in Header}
    BY LenProperties, ElementOfSeq
  <2>3. \A i \in DOMAIN a : a[i].is = "alert"
    BY <2>2 DEF Alert
  <2> HIDE DEF S
  <2> QED
    BY <2>1, <2>3, SeqMonotonic
<1>2. /\ DOMAIN log' = 1 .. Len(log) + Len(a) + Len(c)
      /\ {Len(log), Len(a), Len(c)} \subseteq Nat
      /\ DOMAIN log = 1..Len(log) /\ DOMAIN a = 1..Len(a) /\ DOMAIN c = 1..Len(c)
      /\ \A i \in 1..Len(log) : log'[i] = log[i]
      /\ \A i \in 1..Len(a) : log'[Len(log) + i] = a[i]
      /\ \A i \in 1..Len(c) : log'[Len(log) + Len(a) + i] = c[i]
  <2> HIDE DEF S
  <2>1. log \in Seq(S) /\ c \in Seq(S)
    BY DEF S
  <2> QED
    BY <1>1, <2>1, LogGrows
<1>3. ASSUME NEW j \in DOMAIN log'
      PROVE  \/ j \in DOMAIN log /\ log'[j] = log[j]
             \/ \E k \in DOMAIN a : j = Len(log) + k /\ log'[j] = a[k]
             \/ \E k \in DOMAIN c : j = Len(log) + Len(a) + k /\ log'[j] = c[k]
  <2>1. CASE j <= Len(log)
    BY <1>2, <2>1
  <2>2. CASE j > Len(log) /\ j <= Len(log) + Len(a)
    <3> DEFINE k == j - Len(log)
    <3>1. k \in 1..Len(a) /\ j = Len(log) + k
      BY <1>2, <2>2
    <3> HIDE DEF k
    <3> QED
      BY <1>2, <3>1
  <2>3. CASE j > Len(log) + Len(a)
    <3> DEFINE k == j - (Len(log) + Len(a))
    <3>1. k \in 1..Len(c) /\ j = Len(log) + Len(a) + k
      BY <1>2, <2>3
    <3> HIDE DEF k
    <3> QED
      BY <1>2, <3>1
  <2>4. j \in Nat
    BY <1>2
  <2> QED
    BY <1>2, <2>1, <2>2, <2>3, <2>4
<1>4. /\ \A i \in DOMAIN log : i \in DOMAIN log' /\ log'[i] = log[i]
      /\ \A k \in DOMAIN a : Len(log) + k \in DOMAIN log' /\ log'[Len(log) + k] = a[k]
  BY <1>2
<1>5. \A h \in Header : Alert(h).is = "alert"
  BY DEF Alert
<1>6. ASSUME NEW h \in Header
      PROVE  RaisedAt(h)' = RaisedAt(h) \cup {Len(log) + k : k \in {l \in DOMAIN a : a[l] = Alert(h)}}
  <2>1. \A j \in DOMAIN log' : log'[j] = Alert(h) =>
          \/ j \in DOMAIN log /\ log[j] = Alert(h)
          \/ \E k \in DOMAIN a : j = Len(log) + k /\ a[k] = Alert(h)
    <3> SUFFICES ASSUME NEW j \in DOMAIN log', log'[j] = Alert(h)
                 PROVE  \/ j \in DOMAIN log /\ log[j] = Alert(h)
                        \/ \E k \in DOMAIN a : j = Len(log) + k /\ a[k] = Alert(h)
      OBVIOUS
    <3>1. log'[j].is # "segment"
      BY <1>5
    <3>2. \/ j \in DOMAIN log /\ log'[j] = log[j]
          \/ \E k \in DOMAIN a : j = Len(log) + k /\ log'[j] = a[k]
      BY <1>3, <3>1
    <3> QED
      BY <3>2
  <2> QED
    BY <1>4, <2>1 DEF RaisedAt
<1>7. RaisedIn(log') = RaisedIn(log) \cup RaisedIn(a)
  <2>1. \A h \in Header : Alert(h) \in Range(log') <=> RaisedAt(h)' # {}
    BY DEF Range, RaisedAt
  <2>2. \A h \in Header : Alert(h) \in Range(log) <=> RaisedAt(h) # {}
    BY DEF Range, RaisedAt
  <2>3. \A h \in Header : Alert(h) \in Range(a) <=> {l \in DOMAIN a : a[l] = Alert(h)} # {}
    BY DEF Range
  <2>4. \A h \in Header : Alert(h) \in Range(log') <=> Alert(h) \in Range(log) \/ Alert(h) \in Range(a)
    <3> TAKE h \in Header
    <3> DEFINE K == {l \in DOMAIN a : a[l] = Alert(h)}
               R == {Len(log) + k : k \in K}
    <3>1. R # {} <=> K # {}
      OBVIOUS
    <3>2. RaisedAt(h)' = RaisedAt(h) \cup R
      BY <1>6
    <3> HIDE DEF K, R
    <3>3. RaisedAt(h)' # {} <=> RaisedAt(h) # {} \/ R # {}
      BY <3>2
    <3> QED
      BY <2>1, <2>2, <2>3, <3>1, <3>3 DEF K
  <2> QED
    BY <2>4 DEF RaisedIn
<1>8. ASSUME NEW j \in DOMAIN log', log'[j].is = "segment"
      PROVE  \/ j \in DOMAIN log /\ log'[j] = log[j]
             \/ j \in Nat /\ (\A i \in DOMAIN log : i < j) /\ \A k \in DOMAIN a : Len(log) + k < j
  <2>1. \/ j \in DOMAIN log /\ log'[j] = log[j]
        \/ \E k \in DOMAIN c : j = Len(log) + Len(a) + k
    BY <1>1, <1>3, <1>8
  <2>2. ASSUME NEW k \in DOMAIN c, j = Len(log) + Len(a) + k
        PROVE  j \in Nat /\ (\A i \in DOMAIN log : i < j) /\ \A l \in DOMAIN a : Len(log) + l < j
    BY <1>2, <2>2
  <2> QED
    BY <2>1, <2>2
<1>9. DOMAIN a \subseteq Nat \ {0} /\ Len(log) \in Nat
  BY <1>2
<1> QED
  BY <1>2, <1>6, <1>7, <1>8, <1>9

LEMMA BurstStep ==
  ASSUME TypeInv, BurstInv, NEW f \in Frame, Hear(f)
  PROVE  BurstInv'
<1>1. PICK n \in Nat : n = Len(air) /\ air \in Seq(Frame)
  BY LenProperties DEF TypeInv, TypeOK
<1>2. air' = Append(air, f) /\ air' \in Seq(Frame) /\ Len(air') = n + 1
  BY <1>1, HearTells
<1>3. (\A t \in 1..n : Heard(t)' = Heard(t)) /\ Heard(n + 1)' = air'
  BY <1>1, <1>2, HeardStays
<1>4. /\ capturing' = (IsBurst(air') \/ (capturing /\ ~IsComplete(air')))
      /\ quiet' = IF IsBurst(air') \/ IsComplete(air') THEN 0 ELSE IF capturing THEN quiet + 1 ELSE quiet
  BY <1>2, Zenon DEF Hear, Feed
<1>5. SilenceFrames \in Nat \ {0}
  BY FramesAssumption
<1> SUFFICES ASSUME NEW b \in 1..n + 1, IsBurst(Heard(b)'),
                    \A u \in b + 1 .. n + 1 : ~IsBurst(Heard(u)'), n + 1 - b < SilenceFrames
             PROVE  capturing' /\ quiet' = n + 1 - b
  BY <1>2 DEF BurstInv, Frames
<1>6. CASE IsBurst(air')
  <2>1. b = n + 1
    <3> SUFFICES ASSUME b # n + 1 PROVE FALSE
      OBVIOUS
    <3>1. n + 1 \in b + 1 .. n + 1
      BY <1>1
    <3> QED
      BY <1>3, <1>6, <3>1
  <2>2. capturing'
    BY <1>4, <1>6, Zenon
  <2>3. quiet' = 0
    BY <1>4, <1>6, Zenon
  <2>4. n + 1 - b = 0
    BY <1>1, <2>1
  <2> QED
    BY <2>2, <2>3, <2>4, Zenon
<1>7. CASE ~ IsBurst(air')
  <2>1. b \in 1..n
    <3>1. b # n + 1
      BY <1>3, <1>7
    <3> QED
      BY <1>1, <3>1
  <2>2. IsBurst(Heard(b))
    BY <1>3, <2>1
  <2>3. \A u \in b + 1 .. n : ~IsBurst(Heard(u))
    <3> TAKE u \in b + 1 .. n
    <3>1. u \in 1..n /\ u \in b + 1 .. n + 1
      BY <1>1, <2>1
    <3> QED
      BY <1>3, <3>1
  <2>4. b \in Frames /\ Len(air) - b < SilenceFrames /\ \A u \in b + 1 .. Len(air) : ~IsBurst(Heard(u))
    BY <1>1, <1>5, <2>1, <2>3 DEF Frames
  <2>5. capturing /\ quiet = Len(air) - b
    BY <2>2, <2>4 DEF BurstInv
  <2>6. ~IsComplete(air')
    <3>1. ~ (quiet + 1 >= SilenceFrames)
      BY <1>1, <1>5, <2>1, <2>5
    <3> QED
      BY <3>1, Zenon DEF IsComplete
  <2>7. capturing'
    BY <1>4, <2>5, <2>6, Zenon
  <2>8. quiet' = quiet + 1
    BY <1>4, <1>7, <2>5, <2>6, Zenon
  <2>9. quiet' = n + 1 - b
    BY <1>1, <2>1, <2>5, <2>8
  <2> QED
    BY <2>7, <2>9, Zenon
<1> QED
  BY <1>6, <1>7

\* When a burst is over at this very frame, the monitor decodes it.
LEMMA OverIsComplete ==
  ASSUME TypeInv, BurstInv, NEW f \in Frame, Hear(f), NEW n, n = Len(air), OverAt(n + 1)'
  PROVE  IsComplete(air')
<1>1. n \in Nat /\ air \in Seq(Frame)
  BY LenProperties DEF TypeInv, TypeOK
<1>2. air' = Append(air, f) /\ air' \in Seq(Frame) /\ Len(air') = n + 1
  BY HearTells
<1>3. (\A t \in 1..n : Heard(t)' = Heard(t)) /\ Heard(n + 1)' = air'
  BY <1>1, <1>2, HeardStays
<1>4. SilenceFrames \in Nat \ {0} /\ DetectFrames \in Nat \ {0}
  BY FramesAssumption
<1> DEFINE b == (n + 1) - SilenceFrames
<1>5. b >= DetectFrames /\ IsBurst(Heard(b)') /\ \A u \in b + 1 .. n + 1 : ~IsBurst(Heard(u)')
  <2>1. /\ (n + 1) - SilenceFrames >= DetectFrames /\ IsBurst(Heard((n + 1) - SilenceFrames)')
        /\ \A u \in (n + 1) - SilenceFrames + 1 .. n + 1 : ~IsBurst(Heard(u)')
    BY DEF OverAt
  <2> QED
    BY <2>1
<1>6. b \in 1..n /\ n - b = SilenceFrames - 1 /\ n - b < SilenceFrames
  BY <1>1, <1>4, <1>5
<1>7. n + 1 \in b + 1 .. n + 1
  BY <1>1, <1>6
<1> HIDE DEF b
<1>8. IsBurst(Heard(b)) /\ ~IsBurst(air')
  BY <1>3, <1>5, <1>6, <1>7
<1>9. \A u \in b + 1 .. n : ~IsBurst(Heard(u))
  <2> TAKE u \in b + 1 .. n
  <2>1. u \in 1..n /\ u \in b + 1 .. n + 1
    BY <1>1, <1>6
  <2> QED
    BY <1>3, <1>5, <2>1
<1>10. capturing /\ quiet = SilenceFrames - 1
  BY <1>6, <1>8, <1>9 DEF BurstInv, Frames
<1>11. Len(air') >= DetectFrames /\ quiet + 1 >= SilenceFrames
  BY <1>1, <1>2, <1>4, <1>5, <1>6, <1>10
<1> QED
  BY <1>8, <1>10, <1>11, Zenon DEF IsComplete

LEMMA RaisedStep ==
  ASSUME RaisedInv, NEW s, Kept(s), recent' = s.recent,
         NEW n \in Nat, log \in Seq(EntryUpTo(n)),
         NEW c \in Seq(EntryUpTo(n)), \A k \in DOMAIN c : c[k].is = "segment",
         log' = log \o (s.alerts \o c)
  PROVE  RaisedInv'
<1> DEFINE a == s.alerts
<1>1. a \in Seq({Alert(h) : h \in Header})
  BY DEF Kept, Memory
<1> HIDE DEF a
<1>2. /\ Len(log) \in Nat /\ DOMAIN log = 1..Len(log) /\ DOMAIN a \subseteq Nat \ {0}
      /\ \A h \in Header :
           RaisedAt(h)' = RaisedAt(h) \cup {Len(log) + k : k \in {l \in DOMAIN a : a[l] = Alert(h)}}
      /\ RaisedIn(log') = RaisedIn(log) \cup RaisedIn(a)
  <2>1. log' = log \o (a \o c)
    BY DEF a
  <2> QED
    BY <1>1, <2>1, AlertsGrow
<1>3. Range(recent') \subseteq RaisedIn(log')
  BY <1>2 DEF Kept, RaisedInv, a
<1>4. ASSUME Cardinality(Header) <= RecentRaw
      PROVE  /\ Distinct(recent') /\ RaisedIn(log') \subseteq Range(recent')
             /\ \A h \in Header : \A i, j \in RaisedAt(h)' : i = j
  <2>1. /\ Distinct(recent) /\ RaisedIn(log) \subseteq Range(recent)
        /\ \A h \in Header : \A i, j \in RaisedAt(h) : i = j
    BY <1>4 DEF RaisedInv
  <2>2. /\ Distinct(recent') /\ Distinct(a) /\ Range(recent) \subseteq Range(recent')
        /\ RaisedIn(a) \subseteq Range(recent') \ Range(recent)
    BY <1>4, <2>1 DEF Kept, a
  <2>3. ASSUME NEW h \in Header, NEW i \in RaisedAt(h)', NEW j \in RaisedAt(h)' PROVE i = j
    <3> DEFINE K == {l \in DOMAIN a : a[l] = Alert(h)}
               R == {Len(log) + k : k \in K}
    <3>1. RaisedAt(h)' = RaisedAt(h) \cup R
      BY <1>2
    <3>2. RaisedAt(h) # {} => h \in RaisedIn(log)
      BY DEF RaisedAt, RaisedIn, Range
    <3>3. K # {} => h \in RaisedIn(a)
      BY DEF RaisedIn, Range
    <3>4. RaisedAt(h) = {} \/ K = {}
      BY <2>1, <2>2, <3>2, <3>3
    <3>5. \A k, l \in K : k = l
      BY <2>2 DEF Distinct
    <3>6. \A x, y \in R : x = y
      BY <3>5
    <3>7. K = {} => R = {}
      OBVIOUS
    <3> HIDE DEF K, R
    <3> QED
      BY <2>1, <3>1, <3>4, <3>6, <3>7
  <2> QED
    BY <1>2, <2>1, <2>2, <2>3
<1> QED
  BY <1>3, <1>4 DEF RaisedInv

\* What was raised in time stays so: the log only grows at its end.
LEMMA FirstStays ==
  ASSUME TypeInv, FirstInv, NEW t \in Frames, OverAt(t), InBuffer(Heard(t)) # {},
         NEW h, h = FirstHeader(Heard(t)),
         NEW n \in Nat, log \in Seq(EntryUpTo(n)), NEW a \in Seq({Alert(g) : g \in Header}),
         NEW c \in Seq(EntryUpTo(n)), \A k \in DOMAIN c : c[k].is = "segment",
         log' = log \o (a \o c)
  PROVE  h \in Header /\ \E i \in RaisedAt(h)' :
           \A j \in DOMAIN log' :
             log'[j].is = "segment" /\ log'[j].frames[Len(log'[j].frames)] >= t => i < j
<1>1. h \in Header
  <2>1. Len(air) \in Nat /\ air \in Seq(Frame) /\ t \in 1..Len(air)
    BY LenProperties DEF TypeInv, TypeOK, Frames
  <2>2. \A i \in 1..t : air[i] \in Frame
    BY <2>1, ElementOfSeq
  <2>3. Heard(t) \in Seq(Frame)
    BY <2>1, <2>2, SubSeqProperties DEF Heard
  <2>4. InBuffer(Heard(t)) \in SUBSET Nat
    BY <2>3, LenProperties DEF InBuffer
  <2>5. PICK least \in InBuffer(Heard(t)) : \A j \in InBuffer(Heard(t)) : least <= j
    BY <2>4, LeastNat
  <2> QED
    BY <2>5 DEF FirstHeader, InBuffer
<1>2. PICK i \in RaisedAt(h) :
        \A j \in DOMAIN log :
          log[j].is = "segment" /\ log[j].frames[Len(log[j].frames)] >= t => i < j
  BY DEF FirstInv
<1>3. i \in DOMAIN log
  BY DEF RaisedAt
<1>4. /\ i \in RaisedAt(h)'
      /\ \A j \in DOMAIN log' : log'[j].is = "segment" =>
              \/ j \in DOMAIN log /\ log'[j] = log[j]
              \/ i < j
  <2>1. RaisedAt(h) \subseteq RaisedAt(h)'
    <3>1. \A g \in Header :
            RaisedAt(g)' = RaisedAt(g) \cup {Len(log) + k : k \in {l \in DOMAIN a : a[l] = Alert(g)}}
      BY AlertsGrow
    <3> QED
      BY <1>1, <3>1
  <2>2. \A j \in DOMAIN log' : log'[j].is = "segment" =>
          \/ j \in DOMAIN log /\ log'[j] = log[j]
          \/ j \in Nat /\ (\A l \in DOMAIN log : l < j) /\ \A k \in DOMAIN a : Len(log) + k < j
    BY AlertsGrow
  <2> QED
    BY <1>3, <2>1, <2>2
<1>5. \A j \in DOMAIN log' :
        log'[j].is = "segment" /\ log'[j].frames[Len(log'[j].frames)] >= t => i < j
  BY <1>2, <1>4
<1> QED
  BY <1>1, <1>4, <1>5

\* When it was over is told from the past alone.
LEMMA OverStays ==
  ASSUME TypeInv, NEW n \in Nat, NEW t \in 1..n, \A u \in 1..n : Heard(u)' = Heard(u)
  PROVE  OverAt(t)' => OverAt(t)
<1>1. SilenceFrames \in Nat \ {0} /\ DetectFrames \in Nat \ {0}
  BY FramesAssumption
<1> SUFFICES ASSUME OverAt(t)' PROVE OverAt(t)
  OBVIOUS
<1>2. /\ t - SilenceFrames >= DetectFrames /\ IsBurst(Heard(t - SilenceFrames)')
      /\ \A u \in t - SilenceFrames + 1 .. t : ~IsBurst(Heard(u)')
  BY DEF OverAt
<1>3. t - SilenceFrames \in 1..n /\ \A u \in t - SilenceFrames + 1 .. t : u \in 1..n
  BY <1>1, <1>2
<1> QED
  BY <1>2, <1>3 DEF OverAt

\* The entries a cut adds are segments.
LEMMA FinishedIsSegment ==
  ASSUME NEW s
  PROVE  \A k \in DOMAIN Finished(s) : Finished(s)[k].is = "segment"
<1>1. CASE Finished(s) = <<>>
  BY <1>1
<1>2. CASE Finished(s) = <<Segment(s)>>
  <2>1. Segment(s).is = "segment"
    BY DEF Segment
  <2> DEFINE e == Segment(s)
  <2> HIDE DEF e
  <2>2. \A k \in DOMAIN <<e>> : <<e>>[k] = e
    OBVIOUS
  <2> QED
    BY <1>2, <2>1, <2>2 DEF e
<1> QED
  BY <1>1, <1>2 DEF Finished

LEMMA FirstStep ==
  ASSUME TypeInv, HeaderInv, NEW f \in Frame, Hear(f)
  PROVE  RaisedInv' /\ FirstInv'
<1>1. PICK n \in Nat : n = Len(air) /\ air \in Seq(Frame) /\ log \in Seq(EntryUpTo(n))
  BY LenProperties DEF TypeInv, TypeOK, Entry, EntryUpTo, Frames
<1>2. air' = Append(air, f) /\ air' \in Seq(Frame) /\ Len(air') = n + 1
  BY <1>1, HearTells
<1>3. PICK found \in Seq(Header) :
        /\ found \in IF IsComplete(air') THEN Decodings(air') ELSE {<<>>}
        /\ recent' = Flush(found).recent /\ Kept(Flush(found))
        /\ Range(found) \subseteq Range(recent) \cup RaisedIn(Flush(found).alerts)
        /\ log' = log \o (Flush(found).alerts \o Cut(n + 1, f))
  BY <1>1, HearTells
<1>4. PICK s : s = Flush(found)
  OBVIOUS
<1>5. PICK c : c = Cut(n + 1, f)
  OBVIOUS
<1>6. c \in Seq(EntryUpTo(n + 1)) /\ \A k \in DOMAIN c : c[k].is = "segment"
  <2>1. c \in Seq(EntryUpTo(n + 1))
    BY <1>1, <1>5, SegmenterTyped
  <2>2. \A k \in DOMAIN Finished(Append(buf, n + 1)) : Finished(Append(buf, n + 1))[k].is = "segment"
    BY FinishedIsSegment
  <2>3. c = Finished(Append(buf, n + 1)) \/ c = <<>>
    BY <1>5 DEF Cut
  <2>4. \A k \in DOMAIN c : c[k].is = "segment"
    BY <2>2, <2>3
  <2> QED
    BY <2>1, <2>4
<1> DEFINE m == n + 1
           a == s.alerts
<1>7. /\ m \in Nat /\ log \in Seq(EntryUpTo(m)) /\ c \in Seq(EntryUpTo(m))
      /\ \A k \in DOMAIN c : c[k].is = "segment"
      /\ log' = log \o (a \o c) /\ Kept(s) /\ recent' = s.recent
      /\ a \in Seq({Alert(g) : g \in Header})
  <2>1. n <= m /\ m \in Nat
    BY <1>1
  <2>2. log \in Seq(EntryUpTo(m))
    BY <1>1, <2>1, EntryGrows
  <2>3. a \in Seq({Alert(g) : g \in Header})
    BY <1>3, <1>4 DEF Kept, Memory
  <2> HIDE DEF m
  <2> QED
    BY <1>3, <1>4, <1>5, <1>6, <2>1, <2>2, <2>3 DEF m
<1>8. RaisedInv'
  <2> HIDE DEF m
  <2> QED
    BY <1>7, RaisedStep DEF HeaderInv
<1>9. FirstInv'
  <2>1. (\A t \in 1..n : Heard(t)' = Heard(t)) /\ Heard(n + 1)' = air'
    BY <1>1, <1>2, HeardStays
  <2> SUFFICES ASSUME NEW t \in 1..n + 1, OverAt(t)', InBuffer(Heard(t)') # {},
                      NEW h, h = FirstHeader(Heard(t)')
               PROVE  \E i \in DOMAIN log' : log'[i] = Alert(h) /\
                        \A j \in DOMAIN log' :
                          log'[j].is = "segment" /\ log'[j].frames[Len(log'[j].frames)] >= t => i < j
    BY <1>2 DEF FirstInv, Frames, RaisedAt
  <2> HIDE DEF m, a
  <2>2. CASE t \in 1..n
    <3>1. t \in Frames /\ Heard(t)' = Heard(t) /\ OverAt(t)
      BY <1>1, <2>1, <2>2, OverStays DEF Frames
    <3>2. InBuffer(Heard(t)) # {} /\ h = FirstHeader(Heard(t))
      BY <3>1
    <3>3. \E i \in RaisedAt(h)' :
            \A j \in DOMAIN log' :
              log'[j].is = "segment" /\ log'[j].frames[Len(log'[j].frames)] >= t => i < j
      BY <1>7, <3>1, <3>2, FirstStays DEF HeaderInv
    <3> QED
      BY <3>3 DEF RaisedAt
  <2>3. CASE t = n + 1
    <3>1. IsComplete(air')
      BY <1>1, <2>3, OverIsComplete DEF HeaderInv
    <3>2. found \in Decodings(air')
      BY <1>3, <3>1
    <3>3. h = FirstHeader(air') /\ InBuffer(air') # {}
      BY <2>1, <2>3
    <3>4. h \in Header /\ h \in Range(found)
      BY <1>2, <3>2, <3>3, DecodingsTyped
    <3>5. h \in RaisedIn(log) \/ h \in RaisedIn(a)
      BY <1>3, <1>4, <3>4 DEF HeaderInv, RaisedInv, a
    <3>6. /\ Len(log) \in Nat /\ DOMAIN log = 1..Len(log) /\ DOMAIN a \subseteq Nat \ {0}
          /\ RaisedAt(h)' = RaisedAt(h) \cup {Len(log) + k : k \in {l \in DOMAIN a : a[l] = Alert(h)}}
          /\ \A j \in DOMAIN log' : log'[j].is = "segment" =>
               \/ j \in DOMAIN log /\ log'[j] = log[j]
               \/ j \in Nat /\ (\A i \in DOMAIN log : i < j) /\ \A k \in DOMAIN a : Len(log) + k < j
      BY <1>7, <3>4, AlertsGrow
    <3>7. ASSUME NEW j \in DOMAIN log', log'[j].is = "segment",
                 log'[j].frames[Len(log'[j].frames)] >= t
          PROVE  j \in Nat /\ (\A i \in DOMAIN log : i < j) /\ \A k \in DOMAIN a : Len(log) + k < j
      <4>1. ASSUME j \in DOMAIN log, log'[j] = log[j] PROVE FALSE
        <5>1. j \in Segments
          BY <3>7, <4>1 DEF Segments
        <5>2. Last(j) \in 1..Len(air)
          BY <5>1, SegmentTyped
        <5>3. Last(j) >= t
          BY <3>7, <4>1 DEF Last
        <5> QED
          BY <1>1, <2>3, <5>2, <5>3
      <4> QED
        BY <3>6, <3>7, <4>1
    <3>8. CASE h \in RaisedIn(log)
      <4>1. PICK i \in DOMAIN log : i \in RaisedAt(h)
        BY <3>8 DEF RaisedIn, Range, RaisedAt
      <4>2. i \in RaisedAt(h)'
        BY <3>6, <4>1
      <4>3. \A j \in DOMAIN log' :
              log'[j].is = "segment" /\ log'[j].frames[Len(log'[j].frames)] >= t => i < j
        <5> SUFFICES ASSUME NEW j \in DOMAIN log', log'[j].is = "segment",
                            log'[j].frames[Len(log'[j].frames)] >= t
                     PROVE  i < j
          OBVIOUS
        <5>1. \E k \in DOMAIN log : TRUE
          BY <4>1
        <5> QED
          BY <3>7, <4>1
      <4> QED
        BY <4>2, <4>3 DEF RaisedAt
    <3>9. CASE h \notin RaisedIn(log)
      <4>1. PICK k \in DOMAIN a : a[k] = Alert(h)
        BY <3>5, <3>9 DEF RaisedIn, Range
      <4>2. Len(log) + k \in RaisedAt(h)'
        BY <3>6, <4>1
      <4>3. \A j \in DOMAIN log' :
              log'[j].is = "segment" /\ log'[j].frames[Len(log'[j].frames)] >= t => Len(log) + k < j
        BY <3>7, <4>1
      <4> QED
        BY <4>2, <4>3 DEF RaisedAt
    <3> QED
      BY <3>8, <3>9
  <2>4. t \in 1..n \/ t = n + 1
    BY <1>1
  <2> QED
    BY <2>2, <2>3, <2>4
<1> QED
  BY <1>8, <1>9

LEMMA HeaderInit ==
  ASSUME Init
  PROVE  HeaderInv
<1>1. air = <<>> /\ recent = <<>> /\ log = <<>>
  BY DEF Init
<1>2. Frames = {} /\ Range(recent) = {} /\ RaisedIn(log) = {} /\ Distinct(recent)
  BY <1>1 DEF Frames, Range, RaisedIn, Distinct
<1>3. \A h \in Header : RaisedAt(h) = {}
  BY <1>1 DEF RaisedAt
<1> QED
  BY <1>2, <1>3 DEF HeaderInv, BurstInv, RaisedInv, FirstInv

\* The end of the stream raises nothing, and only a segment follows.
LEMMA HeaderEnd ==
  ASSUME TypeInv, HeaderInv, End
  PROVE  HeaderInv'
<1>1. PICK n \in Nat : n = Len(air) /\ log \in Seq(EntryUpTo(n)) /\ buf \in Seq(1..n)
  BY LenProperties DEF TypeInv, TypeOK, Entry, EntryUpTo, Frames
<1>2. air' = air /\ capturing' = capturing /\ quiet' = quiet /\ recent' = recent
  BY DEF End, monitor
<1>3. PICK c : c = IF inSpeech THEN Finished(buf) ELSE <<>>
  OBVIOUS
<1>4. c \in Seq(EntryUpTo(n)) /\ \A k \in DOMAIN c : c[k].is = "segment"
  <2>1. Finished(buf) \in Seq(EntryUpTo(n)) /\ \A k \in DOMAIN Finished(buf) : Finished(buf)[k].is = "segment"
    <3>1. Finished(buf) \in Seq(EntryUpTo(n))
      BY <1>1, FinishedTyped
    <3>2. \A k \in DOMAIN Finished(buf) : Finished(buf)[k].is = "segment"
      BY FinishedIsSegment
    <3> QED
      BY <3>1, <3>2
  <2>2. CASE c = Finished(buf)
    BY <2>1, <2>2
  <2>3. CASE c = <<>>
    BY <2>3
  <2> QED
    BY <1>3, <2>2, <2>3
<1>5. PICK s : s = [recent |-> recent, alerts |-> <<>>]
  OBVIOUS
<1>6. s.recent = recent /\ s.alerts = <<>> /\ <<>> \in Seq({Alert(g) : g \in Header})
  BY <1>5
<1>7. log' = log \o (<<>> \o c)
  <2>1. <<>> \o c = c
    BY <1>4, ConcatEmptySeq
  <2> QED
    BY <1>3, <2>1 DEF End
<1>8. Kept(s)
  <2>1. recent \in Seq(Header) /\ Len(recent) <= RecentRaw
    BY DEF TypeInv, TypeOK
  <2>2. s \in Memory
    BY <1>5, <2>1 DEF Memory
  <2>3. RaisedIn(<<>>) = {} /\ Distinct(<<>>)
    BY DEF RaisedIn, Distinct, Range
  <2> QED
    BY <1>6, <2>1, <2>2, <2>3 DEF Kept
<1>9. RaisedInv'
  <2>1. recent' = s.recent /\ log' = log \o (s.alerts \o c)
    BY <1>2, <1>6, <1>7
  <2> QED
    BY <1>1, <1>4, <1>8, <2>1, RaisedStep DEF HeaderInv
<1>10. BurstInv'
  BY <1>2 DEF HeaderInv, BurstInv, Frames, Heard
<1>11. FirstInv'
  <2> SUFFICES ASSUME NEW t \in Frames, OverAt(t), InBuffer(Heard(t)) # {},
                      NEW h, h = FirstHeader(Heard(t))
               PROVE  \E i \in DOMAIN log' : log'[i] = Alert(h) /\
                        \A j \in DOMAIN log' :
                          log'[j].is = "segment" /\ log'[j].frames[Len(log'[j].frames)] >= t => i < j
    <3>1. \A t \in Frames : Heard(t)' = Heard(t) /\ OverAt(t)' = OverAt(t)
      BY <1>2 DEF Heard, OverAt
    <3>2. Frames' = Frames
      BY <1>2 DEF Frames
    <3> QED
      BY <3>1, <3>2 DEF FirstInv, RaisedAt
  <2>1. \E i \in RaisedAt(h)' :
          \A j \in DOMAIN log' :
            log'[j].is = "segment" /\ log'[j].frames[Len(log'[j].frames)] >= t => i < j
    BY <1>1, <1>4, <1>6, <1>7, FirstStays DEF HeaderInv
  <2> QED
    BY <2>1 DEF RaisedAt
<1> QED
  BY <1>9, <1>10, <1>11 DEF HeaderInv

\* Each header of a burst is raised once, and before the speech that follows it.
THEOREM HeadersRaised == Spec => []HeadersAreRaised
<1> DEFINE Inv == TypeInv /\ HeaderInv
<1>1. Init => Inv
  BY TypeInit, HeaderInit
<1>2. Inv /\ [Next]_vars => Inv'
  <2> SUFFICES ASSUME TypeInv, HeaderInv, [Next]_vars PROVE HeaderInv'
    BY TypeStep
  <2>1. ASSUME NEW f \in Frame, Hear(f) PROVE HeaderInv'
    <3>1. BurstInv'
      BY <2>1, BurstStep DEF HeaderInv
    <3>2. RaisedInv' /\ FirstInv'
      BY <2>1, FirstStep
    <3> QED
      BY <3>1, <3>2 DEF HeaderInv
  <2>2. CASE End
    BY <2>2, HeaderEnd
  <2>3. CASE UNCHANGED vars
    BY <2>3, Zenon DEF vars, monitor, HeaderInv, BurstInv, RaisedInv, FirstInv, RaisedIn, RaisedAt,
       OverAt, Heard, Frames
  <2> QED
    BY <2>1, <2>2, <2>3 DEF Next
<1>3. Inv => HeadersAreRaised
  <2> SUFFICES ASSUME TypeInv, RaisedInv, FirstInv PROVE HeadersAreRaised
    BY DEF HeaderInv
  <2>1. ASSUME Cardinality(Header) <= RecentRaw, NEW h \in Header
        PROVE  Cardinality(RaisedAt(h)) <= 1
    <3>1. \A i, j \in RaisedAt(h) : i = j
      BY <2>1 DEF RaisedInv
    <3>2. CASE RaisedAt(h) = {}
      <4>1. Cardinality(RaisedAt(h)) = 0
        BY <3>2, FS_EmptySet
      <4> QED
        BY <4>1
    <3>3. CASE RaisedAt(h) # {}
      <4>1. PICK i : RaisedAt(h) = {i}
        BY <3>1, <3>3
      <4>2. Cardinality(RaisedAt(h)) = 1
        BY <4>1, FS_Singleton
      <4> QED
        BY <4>2
    <3> QED
      BY <3>2, <3>3
  <2>2. Cardinality(Header) <= RecentRaw => \A h \in Header : Cardinality(RaisedAt(h)) <= 1
    BY <2>1
  <2> QED
    BY <2>2, Zenon DEF HeadersAreRaised, FirstInv
<1> HIDE DEF Inv
<1> QED
  BY <1>1, <1>2, <1>3, PTL DEF Spec

=============================================================================
