---------------------------- MODULE ExportProofs ----------------------------
(***************************************************************************)
(* Theorems about Export, for every value of its constants.                *)
(***************************************************************************)
EXTENDS Export, FiniteSetTheorems, WellFoundedInduction, TLAPS

USE ExportAssumption

-----------------------------------------------------------------------------
(* Lemmas about the operators. *)

\* A set of naturals that is not empty has a least element ...
LEMMA LeastExists ==
  ASSUME NEW T \in SUBSET Nat, T # {}
  PROVE  \E x \in T : \A y \in T : x <= y
<1>1. IsWellFoundedOn(OpToRel(<, Nat), Nat)
  BY NatLessThanWellFounded
<1>2. PICK x \in T : \A y \in T : <<y, x>> \notin OpToRel(<, Nat)
  BY <1>1, WFMin, Zenon
<1>3. \A y \in T : ~(y < x)
  BY <1>2 DEF OpToRel
<1>. QED  BY <1>3

\* ... and, if it is bounded, a greatest one.
LEMMA GreatestExists ==
  ASSUME NEW T \in SUBSET Nat, T # {}, NEW m \in Nat, \A x \in T : x <= m
  PROVE  Greatest(T) # {}
<1>. DEFINE U == {m - x : x \in T}
<1>1. U \in SUBSET Nat /\ U # {}
  <2>1. \A x \in T : m - x \in Nat
    OBVIOUS
  <2>. QED  BY <2>1
<1>2. PICK u \in U : \A v \in U : u <= v
  BY <1>1, LeastExists
<1>3. PICK x \in T : u = m - x
  OBVIOUS
<1>4. \A y \in T : m - x <= m - y
  BY <1>2, <1>3
<1>5. \A y \in T : x >= y
  BY <1>4
<1>. QED  BY <1>5 DEF Greatest

-----------------------------------------------------------------------------
(* Type correctness. *)

Todo == [sec : Section, at : Nat \cup {None}]

LEMMA ElementType ==
  ASSUME NEW S, NEW q \in Seq(S)
  PROVE  \A i \in 1..Len(q) : q[i] \in S
OBVIOUS

\* The head and the rest of a sequence that is not empty.
LEMMA HeadTail ==
  ASSUME NEW S, NEW q \in Seq(S), q # <<>>
  PROVE  /\ Head(q) \in S /\ Tail(q) \in Seq(S)
         /\ 1 \in DOMAIN q /\ q[1] = Head(q)
         /\ \A x \in S : [q EXCEPT ![1] = x] \in Seq(S)
OBVIOUS

LEMMA TypeInit == Init => TypeOK
<1>. SUFFICES ASSUME Init PROVE TypeOK
  OBVIOUS
<1>1. WriterType /\ StoreType
  BY FS_EmptySet DEF Init, WriterType, StoreType
<1>2. MirrorType
  BY Zenon DEF Init, MirrorType, Unread
<1>. QED  BY <1>1, <1>2 DEF TypeOK

\* Rows that join the store leave the mirror as it was.
LEMMA MirrorFrame ==
  ASSUME MirrorType, UNCHANGED mirror, store \subseteq store'
  PROVE  MirrorType'
<1>1. UNCHANGED <<since, busy, pages, more, got>>
  BY DEF mirror
<1>2. pages \in [Section -> [rows : SUBSET store', over : SUBSET store'] \cup {None}]
  <2>1. [rows : SUBSET store, over : SUBSET store] \cup {None}
          \subseteq [rows : SUBSET store', over : SUBSET store'] \cup {None}
    OBVIOUS
  <2>. QED  BY <2>1 DEF MirrorType
<1>3. got \subseteq store'
  BY DEF MirrorType
<1>. QED  BY <1>1, <1>2, <1>3, Zenon DEF MirrorType, Unread

\* The writers' steps.
LEMMA WriteType ==
  ASSUME TypeOK, NEW w \in Writer,
         Tick \/ StartProduct(w) \/ StampReport(w) \/ InsertRow(w)
  PROVE  TypeOK' /\ UNCHANGED mirror /\ store \subseteq store'
<1>. USE DEF TypeOK
<1>0. pending[w] \in Seq(Todo) /\ pending \in [Writer -> Seq(Todo)] /\ now \in Nat
  BY DEF WriterType, Todo
<1>1. CASE Tick
  <2>1. now' \in Nat
    BY <1>0, <1>1 DEF Tick
  <2>2. UNCHANGED <<products, pending, store, mirror, late>>
    BY <1>1 DEF Tick
  <2>3. WriterType'
    BY <2>1, <2>2 DEF WriterType
  <2>. QED  BY <2>2, <2>3, MirrorFrame DEF StoreType
<1>2. CASE StartProduct(w)
  <2>. DEFINE Job(script) == [i \in DOMAIN script |->
         [sec |-> script[i].sec, at |-> IF script[i].stamp = "own" THEN None ELSE now]]
  <2>1. ASSUME NEW script \in Seq([sec : Section, stamp : {"start", "own"}])
        PROVE  Job(script) \in Seq(Todo)
    <3>1. \A i \in 1..Len(script) : script[i] \in [sec : Section, stamp : {"start", "own"}]
      BY ElementType
    <3>2. \A i \in 1..Len(script) : Job(script)[i] \in Todo
      BY <1>0, <3>1 DEF Todo
    <3>3. Job(script) = [i \in 1..Len(script) |-> Job(script)[i]] /\ Len(script) \in Nat
      OBVIOUS
    <3>. HIDE DEF Job
    <3>. QED  BY <3>2, <3>3
  <2>2. PICK script \in Scripts[w] : pending' = [pending EXCEPT ![w] = Job(script)]
    BY <1>2 DEF StartProduct
  <2>. HIDE DEF Job
  <2>3. pending' \in [Writer -> Seq(Todo)]
    BY <1>0, <2>1, <2>2
  <2>4. UNCHANGED <<now, store, mirror, late>> /\ products' = products + 1
    BY <1>2 DEF StartProduct
  <2>5. products' \in Nat
    BY <2>4 DEF WriterType
  <2>6. WriterType'
    BY <1>0, <2>3, <2>4, <2>5 DEF WriterType, Todo
  <2>. QED  BY <2>4, <2>6, MirrorFrame DEF StoreType
<1>3. CASE StampReport(w)
  <2>. DEFINE first == [pending[w][1] EXCEPT !.at = now]
  <2>1. pending[w][1] \in Todo
    BY <1>0, <1>3, HeadTail DEF StampReport
  <2>2. first \in Todo
    BY <1>0, <2>1 DEF Todo
  <2>3. pending' = [pending EXCEPT ![w] = [pending[w] EXCEPT ![1] = first]]
    BY <1>3 DEF StampReport
  <2>. HIDE DEF first
  <2>4. [pending[w] EXCEPT ![1] = first] \in Seq(Todo)
    BY <1>0, <1>3, <2>2, HeadTail DEF StampReport
  <2>5. pending' \in [Writer -> Seq(Todo)]
    BY <1>0, <2>3, <2>4
  <2>6. UNCHANGED <<now, products, store, mirror, late>>
    BY <1>3 DEF StampReport
  <2>. QED  BY <2>5, <2>6, MirrorFrame DEF WriterType, StoreType, Todo
<1>4. CASE InsertRow(w)
  <2>. DEFINE row == [sec |-> Head(pending[w]).sec, at |-> Head(pending[w]).at,
                      n |-> Cardinality(store) + 1]
  <2>1. Head(pending[w]) \in Todo /\ Tail(pending[w]) \in Seq(Todo)
    BY <1>0, <1>4, HeadTail DEF InsertRow
  <2>2. row \in Row
    BY <1>4, <2>1, FS_CardinalityType DEF InsertRow, StoreType, Row, Todo
  <2>3. /\ store' = store \cup {row} /\ (late' = late \cup {row} \/ late' = late)
        /\ pending' = [pending EXCEPT ![w] = Tail(@)]
        /\ UNCHANGED <<now, products, mirror>>
    BY <1>4 DEF InsertRow
  <2>. HIDE DEF row
  <2>4. StoreType' /\ store \subseteq store'
    BY <2>2, <2>3, FS_AddElement DEF StoreType
  <2>5. pending' \in [Writer -> Seq(Todo)]
    BY <1>0, <2>1, <2>3
  <2>. QED  BY <2>3, <2>4, <2>5, MirrorFrame DEF WriterType, Todo
<1>. QED  BY <1>1, <1>2, <1>3, <1>4

\* The watermark a response carries is a natural number, and never an older one.
LEMMA WatermarkType ==
  ASSUME TypeOK, \A s \in Section : pages[s] # None,
         \A s \in Section : \A r \in pages[s].rows \cup pages[s].over : r.at > since,
         NEW next \in NextSince
  PROVE  next \in Nat /\ since <= next /\ (Truncated => since < next)
<1>1. \A s \in Section : pages[s].rows \subseteq Row /\ pages[s].over \subseteq Row
  BY DEF TypeOK, MirrorType, StoreType
<1>2. since \in Nat
  BY DEF TypeOK, MirrorType
<1>3. \A s \in Section : \A x \in Safe(s) : x \in Nat /\ since < x
  BY <1>1 DEF Safe, Greatest, Stamps, Before, Row
<1>4. CASE Truncated
  BY <1>3, <1>4, <1>2 DEF NextSince, Cutoff, Least, Safes
<1>5. CASE ~Truncated /\ Sent # {}
  <2>1. \A x \in Stamps(Sent) : x \in Nat /\ since < x
    BY <1>1 DEF Stamps, Sent, Kept, Row
  <2>. QED  BY <1>2, <1>5, <2>1 DEF NextSince, Greatest
<1>6. CASE ~Truncated /\ Sent = {}
  BY <1>2, <1>6 DEF NextSince
<1>. QED  BY <1>4, <1>5, <1>6

\* What a request has read of a table: rows newer than the watermark and nothing
\* else, all of them up to the lookahead row, but for rows that came late.
Complete(s) ==
  pages[s] # None =>
    /\ pages[s].rows \cup pages[s].over \subseteq Newer(s)
    /\ pages[s].rows \cap pages[s].over = {}
    /\ \A r \in Newer(s) : \/ r \in pages[s].rows \/ r \in late
                           \/ \E b \in pages[s].over : b.at <= r.at
    /\ pages[s].over # {} =>
         /\ Cardinality(pages[s].rows) = Limit[s]
         /\ \E b \in pages[s].over : /\ pages[s].over = {b}
                                     /\ \A r \in pages[s].rows : r.at <= b.at

FeedInv ==
  /\ TypeOK
  /\ \A s \in Section : Complete(s)
  /\ OnlyLateRowsMissed
  /\ \A r \in got : r.at <= since

LEMMA MirrorStepType ==
  ASSUME FeedInv, Request \/ RequestFails \/ Respond \/ \E s \in Section : ReadSection(s)
  PROVE  TypeOK'
<1>. USE DEF FeedInv, TypeOK
<1>1. UNCHANGED <<writers, store, late>>
  BY DEF Request, RequestFails, Respond, ReadSection
<1>2. WriterType' /\ StoreType'
  BY <1>1 DEF WriterType, StoreType, writers
<1>3. CASE Request \/ RequestFails
  <2>1. UNCHANGED <<since, more, got, store>> /\ busy' \in BOOLEAN /\ pages' = Unread
    BY <1>3 DEF Request, RequestFails
  <2>2. pages' \in [Section -> [rows : SUBSET store', over : SUBSET store'] \cup {None}]
    BY <2>1 DEF Unread
  <2>. QED  BY <1>2, <2>1, <2>2, Zenon DEF MirrorType, Unread
<1>4. CASE Respond
  <2>1. PICK next \in NextSince : since' = next
    BY <1>4 DEF Respond
  <2>2. \A s \in Section : /\ pages[s] # None
                           /\ \A r \in pages[s].rows \cup pages[s].over : r.at > since
    BY <1>4 DEF Respond, Complete, Newer
  <2>3. since' \in Nat
    BY <2>1, <2>2, WatermarkType
  <2>4. got' \subseteq store
    BY <1>4, <2>2 DEF Respond, Sent, Kept, MirrorType
  <2>5. UNCHANGED store /\ busy' = FALSE /\ pages' = Unread /\ more' \in BOOLEAN
    BY <1>4, Zenon DEF Respond, HeldBack
  <2>6. pages' \in [Section -> [rows : SUBSET store', over : SUBSET store'] \cup {None}]
    BY <2>5 DEF Unread
  <2>. QED  BY <1>2, <2>3, <2>4, <2>5, <2>6, Zenon DEF MirrorType, Unread
<1>5. ASSUME NEW s \in Section, ReadSection(s) PROVE TypeOK'
  <2>1. PICK p \in [rows : SUBSET Newer(s), over : SUBSET Newer(s)] :
          pages' = [pages EXCEPT ![s] = p]
    BY <1>5 DEF ReadSection
  <2>2. p \in [rows : SUBSET store, over : SUBSET store]
    BY <2>1 DEF Newer
  <2>3. pages' \in [Section -> [rows : SUBSET store, over : SUBSET store] \cup {None}]
    BY <2>1, <2>2 DEF MirrorType
  <2>4. UNCHANGED <<store, since, busy, more, got>> /\ busy
    BY <1>5 DEF ReadSection
  <2>. QED  BY <1>2, <2>3, <2>4, Zenon DEF MirrorType, Unread
<1>. QED  BY <1>3, <1>4, <1>5

-----------------------------------------------------------------------------
(* What a response delivers. *)

\* A row behind the new watermark is sent, or came late, or is part of a capture
\* wider than a page.
LEMMA ResponseComplete ==
  ASSUME FeedInv, \A s \in Section : pages[s] # None,
         NEW next \in NextSince,
         NEW r \in store, r.at > since, r.at <= next, r \notin late
  PROVE  r \in Sent \/ TooWide(r)
<1>. DEFINE s == r.sec
            p == pages[s]
<1>0. r \in Row /\ s \in Section /\ r.at \in Nat
  BY DEF FeedInv, TypeOK, StoreType, Row
<1>1. /\ p.rows \cup p.over \subseteq Newer(s)
      /\ p.rows \cap p.over = {}
      /\ r \in p.rows \/ \E b \in p.over : b.at <= r.at
      /\ p.over # {} => /\ Cardinality(p.rows) = Limit[s]
                        /\ \E b \in p.over : p.over = {b} /\ \A q \in p.rows : q.at <= b.at
  BY <1>0 DEF FeedInv, Complete, Newer
<1>2. p.rows \subseteq store /\ p.over \subseteq store
      /\ \A q \in p.rows \cup p.over : q.at \in Nat /\ q.sec = s
  BY <1>1 DEF Newer, FeedInv, TypeOK, StoreType, Row
<1>3. ASSUME r \in p.rows PROVE r \in Sent
  <2>1. \A c \in Cutoff : r.at <= c
    <3>1. CASE Truncated
      <4>1. next \in Cutoff
        BY <3>1 DEF NextSince
      <4>2. Safes \subseteq Nat
        <5>1. \A t \in Section : pages[t].rows \subseteq store /\ pages[t].over \subseteq store
          BY DEF FeedInv, Complete, Newer
        <5>2. \A t \in Section : \A x \in Safe(t) : x \in Nat
          BY <5>1 DEF Safe, Greatest, Stamps, Before, FeedInv, TypeOK, StoreType, Row
        <5>. QED  BY <5>2 DEF Safes
      <4>. QED  BY <1>0, <4>1, <4>2 DEF Cutoff, Least
    <3>2. CASE ~Truncated
      <4>1. Safes = {}
        <5>1. \A t \in Section : pages[t].over = {}
          BY <3>2 DEF Truncated
        <5>2. \A t \in Section : Safe(t) = {}
          BY <5>1 DEF Safe, Stamps
        <5>. QED  BY <5>2 DEF Safes
      <4>. QED  BY <4>1 DEF Cutoff, Least
    <3>. QED  BY <3>1, <3>2
  <2>. QED  BY <1>0, <1>3, <2>1 DEF Sent, Kept
<1>4. CASE p.over = {}
  BY <1>1, <1>3, <1>4
<1>5. CASE p.over # {}
  <2>1. PICK b \in p.over : p.over = {b} /\ \A q \in p.rows : q.at <= b.at
    BY <1>1, <1>5
  <2>2. next \in Least(Safes)
    BY <1>0, <1>5 DEF NextSince, Truncated, Cutoff
  <2>3. \A x \in Safe(s) : next <= x
    BY <1>0, <2>2 DEF Least, Safes
  <2>4. CASE Before(s) # {}
    <3>. DEFINE T == Stamps(Before(s))
    <3>1. T \in SUBSET Nat /\ T # {} /\ \A x \in T : x < b.at
      BY <1>2, <2>1, <2>4 DEF Stamps, Before
    <3>2. b.at \in Nat /\ \A x \in T : x <= b.at
      BY <1>2, <3>1
    <3>3. Greatest(T) # {}
      BY <3>1, <3>2, GreatestExists
    <3>4. PICK g \in Greatest(T) : g \in T
      BY <3>3 DEF Greatest
    <3>5. g \in Safe(s)
      BY <1>5, <2>4, <3>4 DEF Safe
    <3>6. next <= g /\ g < b.at /\ g \in Nat
      BY <2>3, <3>1, <3>4, <3>5
    <3>7. next \in Nat
      <4>1. \A t \in Section : \A q \in pages[t].rows \cup pages[t].over : q.at > since
        BY DEF FeedInv, Complete, Newer
      <4>. QED  BY <4>1, WatermarkType DEF FeedInv
    <3>8. r.at < b.at
      BY <1>0, <3>2, <3>6, <3>7
    <3>. QED  BY <1>0, <1>1, <1>3, <2>1, <3>2, <3>8
  <2>5. CASE Before(s) = {}
    <3>1. \A q \in p.rows : q.at = b.at
      BY <1>2, <2>1, <2>5 DEF Before
    <3>2. b.at \in Safe(s)
      BY <2>1, <2>5 DEF Safe, Stamps
    <3>3. next <= b.at /\ next \in Nat
      <4>1. \A t \in Section : \A q \in pages[t].rows \cup pages[t].over : q.at > since
        BY DEF FeedInv, Complete, Newer
      <4>. QED  BY <2>3, <3>2, <4>1, WatermarkType DEF FeedInv
    <3>4. CASE r.at # b.at
      BY <1>0, <1>1, <1>2, <1>3, <2>1, <3>3, <3>4
    <3>5. CASE r.at = b.at
      <4>. DEFINE same == {q \in store : q.sec = r.sec /\ q.at = r.at}
      <4>1. p.rows \cup {b} \subseteq same
        BY <1>2, <2>1, <3>1, <3>5
      <4>2. IsFiniteSet(same) /\ IsFiniteSet(p.rows)
        BY <1>2, FS_Subset DEF FeedInv, TypeOK, StoreType
      <4>3. b \notin p.rows /\ Cardinality(p.rows) = Limit[s]
        BY <1>1, <1>5, <2>1
      <4>4. Cardinality(p.rows \cup {b}) = Limit[s] + 1
        BY <4>2, <4>3, FS_AddElement
      <4>5. Cardinality(p.rows \cup {b}) <= Cardinality(same) /\ Cardinality(same) \in Nat
        BY <4>1, <4>2, FS_Subset, FS_CardinalityType
      <4>6. Limit[s] \in Nat
        BY <1>0, LimitAssumption
      <4>7. Cardinality(same) > Limit[s]
        BY <4>4, <4>5, <4>6
      <4>. QED  BY <4>7 DEF TooWide
    <3>. QED  BY <3>4, <3>5
  <2>. QED  BY <2>4, <2>5
<1>. QED  BY <1>4, <1>5

\* What is sent is newer than the old watermark and not beyond the new one.
LEMMA SentInWindow ==
  ASSUME FeedInv, \A s \in Section : pages[s] # None, NEW next \in NextSince,
         NEW r \in Sent
  PROVE  r \in store /\ r.at > since /\ r.at <= next
<1>1. PICK s \in Section : r \in Kept(s)
  BY DEF Sent
<1>2. r \in Newer(s) /\ \A c \in Cutoff : r.at <= c
  BY <1>1 DEF FeedInv, Complete, Kept
<1>3. CASE Truncated
  BY <1>2, <1>3 DEF NextSince, Newer
<1>4. CASE ~Truncated
  BY <1>2, <1>4 DEF NextSince, Newer, Greatest, Stamps
<1>. QED  BY <1>3, <1>4

-----------------------------------------------------------------------------
(* The invariant of the feed. *)

\* A capture that is too wide stays so.
LEMMA WideStays ==
  ASSUME StoreType', store \subseteq store', NEW r \in store, TooWide(r)
  PROVE  TooWide(r)'
<1>. DEFINE Same(S) == {q \in S : q.sec = r.sec /\ q.at = r.at}
<1>1. Same(store) \subseteq Same(store') /\ IsFiniteSet(Same(store'))
  BY FS_Subset DEF StoreType
<1>2. /\ Cardinality(Same(store)) <= Cardinality(Same(store'))
      /\ Cardinality(Same(store)) \in Nat /\ Cardinality(Same(store')) \in Nat
  BY <1>1, FS_Subset, FS_CardinalityType
<1>3. Limit[r.sec] \in Nat
  BY LimitAssumption DEF StoreType, Row
<1>. QED  BY <1>2, <1>3 DEF TooWide

LEMMA FeedInit == Init => FeedInv
<1>. SUFFICES ASSUME Init PROVE FeedInv
  OBVIOUS
<1>1. TypeOK
  BY TypeInit
<1>2. \A s \in Section : Complete(s)
  BY DEF Init, Unread, Complete
<1>3. OnlyLateRowsMissed /\ \A r \in got : r.at <= since
  BY DEF Init, OnlyLateRowsMissed
<1>. QED  BY <1>1, <1>2, <1>3 DEF FeedInv

LEMMA WriteKeepsFeed ==
  ASSUME FeedInv, NEW w \in Writer,
         Tick \/ StartProduct(w) \/ StampReport(w) \/ InsertRow(w)
  PROVE  FeedInv'
<1>1. TypeOK' /\ UNCHANGED <<since, busy, pages, more, got>> /\ store \subseteq store'
  BY WriteType DEF FeedInv, mirror
<1>2. /\ late \subseteq late'
      /\ \A r \in store' \ store : r \in late' \/ (~(r.at <= since) /\ ~WasRead(r.sec))
  <2>1. CASE InsertRow(w)
    BY <2>1 DEF InsertRow
  <2>2. CASE Tick \/ StartProduct(w) \/ StampReport(w)
    BY <2>2 DEF Tick, StartProduct, StampReport
  <2>. QED  BY <2>1, <2>2
<1>3. OnlyLateRowsMissed'
  <2>. SUFFICES ASSUME NEW r \in store', r.at <= since
                PROVE  r \in got \/ r \in late' \/ TooWide(r)'
    BY <1>1 DEF OnlyLateRowsMissed
  <2>1. CASE r \in store
    BY <1>1, <1>2, <2>1, WideStays DEF FeedInv, OnlyLateRowsMissed, TypeOK
  <2>2. CASE r \notin store
    BY <1>2, <2>2
  <2>. QED  BY <2>1, <2>2
<1>4. ASSUME NEW s \in Section PROVE Complete(s)'
  <2>. SUFFICES ASSUME pages[s] # None PROVE Complete(s)'
    BY <1>1 DEF Complete
  <2>1. busy
    BY DEF FeedInv, TypeOK, MirrorType, Unread
  <2>2. Newer(s) \subseteq Newer(s)'
    BY <1>1 DEF Newer
  <2>3. \A r \in Newer(s)' : r \in Newer(s) \/ r \in late'
    BY <1>1, <1>2, <2>1 DEF Newer, WasRead
  <2>. QED  BY <1>1, <1>2, <2>2, <2>3 DEF FeedInv, Complete
<1>5. \A r \in got' : r.at <= since'
  BY <1>1 DEF FeedInv
<1>. QED  BY <1>1, <1>3, <1>4, <1>5 DEF FeedInv

LEMMA ReadKeepsFeed ==
  ASSUME FeedInv, NEW t \in Section, ReadSection(t)
  PROVE  FeedInv'
<1>1. TypeOK'
  BY MirrorStepType
<1>2. UNCHANGED <<store, since, got, late>>
  BY DEF ReadSection
<1>3. PICK p \in [rows : SUBSET Newer(t), over : SUBSET Newer(t)] :
        IsPage(p, t) /\ pages' = [pages EXCEPT ![t] = p]
  BY DEF ReadSection
<1>4. ASSUME NEW s \in Section PROVE Complete(s)'
  <2>1. Newer(s)' = Newer(s)
    BY <1>2 DEF Newer
  <2>2. CASE s # t
    BY <1>2, <1>3, <2>1, <2>2 DEF FeedInv, TypeOK, MirrorType, Complete
  <2>3. CASE s = t
    <3>1. pages'[s] = p
      BY <1>3, <2>3 DEF FeedInv, TypeOK, MirrorType
    <3>2. p.rows \cup p.over \subseteq Newer(t) /\ p.rows \cap p.over = {}
      BY <1>3 DEF IsPage
    <3>3. CASE p.rows = Newer(t)
      BY <1>2, <2>1, <2>3, <3>1, <3>2, <3>3 DEF Complete
    <3>4. CASE p.rows # Newer(t)
      <4>1. /\ Cardinality(p.rows) = Limit[t] /\ Cardinality(p.over) = 1
            /\ \A b \in p.over : /\ \A r \in p.rows : r.at <= b.at
                                 /\ \A q \in Newer(t) \ p.rows : b.at <= q.at
        BY <1>3, <3>4 DEF IsPage
      <4>2. IsFiniteSet(p.over)
        BY <3>2, FS_Subset DEF Newer, FeedInv, TypeOK, StoreType
      <4>3. PICK b : p.over = {b}
        BY <4>1, <4>2, FS_Singleton
      <4>. QED  BY <1>2, <2>1, <2>3, <3>1, <3>2, <4>1, <4>3 DEF Complete
    <3>. QED  BY <3>3, <3>4
  <2>. QED  BY <2>2, <2>3
<1>5. OnlyLateRowsMissed' /\ \A r \in got' : r.at <= since'
  BY <1>2 DEF FeedInv, OnlyLateRowsMissed, TooWide
<1>. QED  BY <1>1, <1>4, <1>5 DEF FeedInv

LEMMA RespondKeepsFeed ==
  ASSUME FeedInv, Respond
  PROVE  FeedInv'
<1>1. TypeOK'
  BY MirrorStepType
<1>2. /\ UNCHANGED <<store, late>> /\ pages' = Unread /\ got' = got \cup Sent
      /\ \A s \in Section : pages[s] # None
  BY DEF Respond
<1>3. PICK next \in NextSince : since' = next
  BY DEF Respond
<1>4. next \in Nat /\ since <= next /\ since \in Nat
  <2>1. \A t \in Section : \A q \in pages[t].rows \cup pages[t].over : q.at > since
    BY <1>2 DEF FeedInv, Complete, Newer
  <2>. QED  BY <1>2, <2>1, WatermarkType DEF FeedInv, TypeOK, MirrorType
<1>5. \A s \in Section : Complete(s)'
  BY <1>2 DEF Complete, Unread
<1>6. OnlyLateRowsMissed'
  <2>. SUFFICES ASSUME NEW r \in store, r.at <= next
                PROVE  r \in got \cup Sent \/ r \in late \/ TooWide(r)
    BY <1>2, <1>3 DEF OnlyLateRowsMissed, TooWide
  <2>1. CASE r.at <= since
    BY <2>1 DEF FeedInv, OnlyLateRowsMissed
  <2>2. CASE ~(r.at <= since)
    <3>1. r.at \in Nat
      BY DEF FeedInv, TypeOK, StoreType, Row
    <3>. QED  BY <1>2, <1>4, <2>2, <3>1, ResponseComplete
  <2>. QED  BY <2>1, <2>2
<1>7. \A r \in got' : r.at <= since'
  <2>1. \A r \in got : r.at \in Nat /\ r.at <= since
    BY DEF FeedInv, TypeOK, MirrorType, StoreType, Row
  <2>2. \A r \in Sent : r.at <= next
    BY <1>2, SentInWindow
  <2>. QED  BY <1>2, <1>3, <1>4, <2>1, <2>2
<1>. QED  BY <1>1, <1>5, <1>6, <1>7 DEF FeedInv

LEMMA FeedStep == FeedInv /\ [Next]_vars => FeedInv'
<1>. SUFFICES ASSUME FeedInv, [Next]_vars PROVE FeedInv'
  OBVIOUS
<1>1. CASE \E w \in Writer : StartProduct(w) \/ StampReport(w) \/ InsertRow(w)
  BY <1>1, WriteKeepsFeed
<1>2. CASE \E s \in Section : ReadSection(s)
  BY <1>2, ReadKeepsFeed
<1>3. CASE Respond
  BY <1>3, RespondKeepsFeed
<1>4. CASE Request \/ RequestFails
  <2>1. TypeOK'
    BY <1>4, MirrorStepType
  <2>2. UNCHANGED <<store, since, got, late>> /\ pages' = Unread
    BY <1>4 DEF Request, RequestFails
  <2>3. \A s \in Section : Complete(s)'
    BY <2>2 DEF Complete, Unread
  <2>. QED  BY <2>1, <2>2, <2>3 DEF FeedInv, OnlyLateRowsMissed, TooWide
<1>5. CASE Tick \/ UNCHANGED vars
  <2>1. UNCHANGED <<products, pending, store, late, mirror>> /\ now' \in Nat
    BY <1>5 DEF Tick, vars, writers, FeedInv, TypeOK, WriterType
  <2>2. TypeOK'
    BY <2>1, MirrorFrame DEF FeedInv, TypeOK, WriterType, StoreType
  <2>. QED  BY <2>1, <2>2 DEF FeedInv, OnlyLateRowsMissed, TooWide, Complete, Newer, mirror
<1>. QED  BY <1>1, <1>2, <1>3, <1>4, <1>5 DEF Next

LEMMA FeedInvariant == Spec => []FeedInv
BY FeedInit, FeedStep, PTL DEF Spec

\* Every reachable state is well-typed: what _ep_export has read and what the mirror
\* got are rows of the tables, and pages are held only while a request is served.
THEOREM TypeCorrect == Spec => []TypeOK
BY FeedInvariant, PTL DEF FeedInv

\* Lossless: whatever the tables, the page size and the interleaving of reads and
\* writes, _sync_window moves the watermark only past rows the mirror got, rows
\* that came late, and captures wider than a page.
THEOREM FeedIsLossless == Spec => []OnlyLateRowsMissed
<1>1. FeedInv => OnlyLateRowsMissed
  BY DEF FeedInv
<1>. QED  BY <1>1, FeedInvariant, PTL

\* No response of /export repeats a row of an earlier one.
THEOREM FeedNeverRepeats == Spec => NoRefetch
<1>1. FeedInv /\ [Next]_vars => [Respond => Sent \cap got = {}]_vars
  <2>. SUFFICES ASSUME FeedInv, Respond, NEW r \in Sent, r \in got PROVE FALSE
    OBVIOUS
  <2>1. r.at > since
    BY SentInWindow DEF Respond
  <2>2. r.at <= since /\ r.at \in Nat /\ since \in Nat
    BY DEF FeedInv, TypeOK, MirrorType, StoreType, Row
  <2>. QED  BY <2>1, <2>2
<1>. QED  BY <1>1, FeedInvariant, PTL DEF Spec, NoRefetch

\* Of whatever page: when it is not the last one the watermark moves on.
THEOREM FeedAdvances == Spec => MorePagesAdvance
<1>1. FeedInv /\ [Next]_vars => [Respond /\ more' => since' > since]_vars
  <2>. SUFFICES ASSUME FeedInv, Respond, more' PROVE since' > since
    OBVIOUS
  <2>1. HeldBack
    BY Zenon DEF Respond
  <2>2. \A s \in Section : pages[s] # None
    BY DEF Respond
  <2>3. Truncated
    <3>. SUFFICES ASSUME ~Truncated PROVE FALSE
      OBVIOUS
    <3>1. \A s \in Section : pages[s].over = {}
      BY DEF Truncated
    <3>2. \A s \in Section : Safe(s) = {}
      BY <3>1 DEF Safe, Stamps
    <3>3. Cutoff = {}
      BY <3>2 DEF Cutoff, Least, Safes
    <3>. QED  BY <2>1, <3>1, <3>3 DEF HeldBack, Kept
  <2>4. PICK next \in NextSince : since' = next
    BY DEF Respond
  <2>5. \A t \in Section : \A q \in pages[t].rows \cup pages[t].over : q.at > since
    BY <2>2 DEF FeedInv, Complete, Newer
  <2>6. next \in Nat /\ since < next /\ since \in Nat
    BY <2>2, <2>3, <2>5, WatermarkType DEF FeedInv, TypeOK, MirrorType
  <2>. QED  BY <2>4, <2>6
<1>. QED  BY <1>1, FeedInvariant, PTL DEF Spec, MorePagesAdvance

\* "No more" means that the mirror has all there was to be read.
THEOREM FeedDrains == Spec => DrainedMeansAll
<1>1. FeedInv /\ [Next]_vars =>
        [Respond /\ ~more' =>
           \A r \in store : r \in got' \/ r \in late \/ TooWide(r)]_vars
  <2>. SUFFICES ASSUME FeedInv, Respond, ~more', NEW r \in store, r \notin late
                PROVE  r \in got' \/ TooWide(r)
    OBVIOUS
  <2>1. \A s \in Section : Kept(s) = pages[s].rows \cup pages[s].over
    BY Zenon DEF Respond, HeldBack
  <2>2. got' = got \cup Sent /\ \A s \in Section : pages[s] # None
    BY DEF Respond
  <2>3. CASE r.at <= since
    BY <2>2, <2>3 DEF FeedInv, OnlyLateRowsMissed
  <2>4. CASE ~(r.at <= since)
    <3>1. r \in Newer(r.sec) /\ r.sec \in Section
      BY <2>4 DEF Newer, FeedInv, TypeOK, StoreType, MirrorType, Row
    <3>2. pages[r.sec].over = {}
      BY <2>1, <2>2, <3>1 DEF Kept, FeedInv, Complete
    <3>3. r \in pages[r.sec].rows
      BY <2>2, <3>1, <3>2 DEF FeedInv, Complete
    <3>. QED  BY <2>1, <2>2, <3>1, <3>3 DEF Sent
  <2>. QED  BY <2>3, <2>4
<1>. QED  BY <1>1, FeedInvariant, PTL DEF Spec, DrainedMeansAll

-----------------------------------------------------------------------------
(* Export implements SyncFeed. *)

\* Rows are numbered as they come, so that the next one is new.
Numbered == \A r \in store : r.n <= Cardinality(store)

LEMMA InsertStep ==
  ASSUME TypeOK, Numbered, NEW w \in Writer, InsertRow(w)
  PROVE  Numbered' /\ \E row \in Row : /\ row \notin store /\ store' = store \cup {row}
                                       /\ late' \in {late, late \cup {row}}
                                       /\ row.at <= since => row \in late'
<1>. DEFINE row == [sec |-> Head(pending[w]).sec, at |-> Head(pending[w]).at,
                    n |-> Cardinality(store) + 1]
<1>1. Head(pending[w]) \in Todo
  BY HeadTail DEF InsertRow, TypeOK, WriterType, Todo
<1>2. Cardinality(store) \in Nat
  BY FS_CardinalityType DEF TypeOK, StoreType
<1>3. row \in Row /\ row.n = Cardinality(store) + 1
  BY <1>1, <1>2 DEF InsertRow, Row, Todo
<1>4. /\ store' = store \cup {row}
      /\ late' = IF row.at <= since \/ WasRead(row.sec) THEN late \cup {row} ELSE late
  BY DEF InsertRow
<1>. HIDE DEF row
<1>5. row \notin store
  BY <1>2, <1>3 DEF Numbered
<1>6. Cardinality(store') = Cardinality(store) + 1
  BY <1>4, <1>5, FS_AddElement DEF TypeOK, StoreType
<1>7. \A r \in store : r.n \in Nat
  BY DEF TypeOK, StoreType, Row
<1>8. Numbered'
  BY <1>2, <1>3, <1>4, <1>6, <1>7 DEF Numbered
<1>. QED  BY <1>3, <1>4, <1>5, <1>8

LEMMA NumberedInvariant == Spec => []Numbered
<1>1. Init => Numbered
  BY DEF Init, Numbered
<1>2. FeedInv /\ Numbered /\ [Next]_vars => Numbered'
  <2>. SUFFICES ASSUME FeedInv, Numbered, [Next]_vars PROVE Numbered'
    OBVIOUS
  <2>1. CASE \E w \in Writer : InsertRow(w)
    BY <2>1, InsertStep DEF FeedInv
  <2>2. CASE ~\E w \in Writer : InsertRow(w)
    <3>1. UNCHANGED store
      BY <2>2 DEF Next, Tick, StartProduct, StampReport, Request, ReadSection, Respond,
                  RequestFails, vars
    <3>. QED  BY <3>1 DEF Numbered
  <2>. QED  BY <2>1, <2>2
<1>. QED  BY <1>1, <1>2, FeedInvariant, PTL DEF Spec

\* A response is one delivery.
LEMMA RespondDelivers ==
  ASSUME FeedInv, FeedInv', Respond
  PROVE  Feed!Deliver(got' \ got)
<1>1. PICK next \in NextSince : since' = next
  BY DEF Respond
<1>2. \A s \in Section : pages[s] # None
  BY DEF Respond
<1>3. since' \in Nat /\ since' >= since /\ since \in Nat
  <2>1. \A s \in Section : \A q \in pages[s].rows \cup pages[s].over : q.at > since
    BY <1>2 DEF FeedInv, Complete, Newer
  <2>. QED  BY <1>1, <1>2, <2>1, WatermarkType DEF FeedInv, TypeOK, MirrorType
<1>4. UNCHANGED <<store, late>> /\ got' = got \cup Sent
  BY DEF Respond
<1>5. \A r \in Sent : r \in store /\ r.at > since /\ r.at <= since'
  BY <1>1, <1>2, SentInWindow
<1>6. \A r \in got : r.at \in Nat /\ r.at <= since
  BY DEF FeedInv, TypeOK, MirrorType, StoreType, Row
<1>7. got' \ got = Sent
  BY <1>3, <1>4, <1>5, <1>6
<1>8. \A r \in store : r.at > since /\ r.at <= since' => r \in Sent \/ r \in late \/ Feed!TooWide(r)
  <2>1. \A r : TooWide(r) = Feed!TooWide(r)
    BY Zenon DEF TooWide, Feed!TooWide, Cardinality, Feed!Cardinality
  <2>. QED  BY <1>1, <1>2, <2>1, ResponseComplete
<1>. QED  BY <1>3, <1>4, <1>5, <1>7, <1>8 DEF Feed!Deliver

\* The feed behaves like the abstract one, for any tables, page size and interleaving:
\* each response delivers at one instant all rows up to the new watermark, each once, but
\* for late rows and captures wider than a page.
THEOREM ExportIsSyncFeed == Spec => IsSyncFeed
<1>1. Init => Feed!Init
  BY DEF Init, Feed!Init
<1>2. FeedInv /\ FeedInv' /\ Numbered /\ [Next]_vars => [Feed!Next]_(Feed!vars)
  <2>. SUFFICES ASSUME FeedInv, FeedInv', Numbered, [Next]_vars
                PROVE  Feed!Next \/ UNCHANGED <<store, late, since, got>>
    BY DEF Feed!vars
  <2>1. CASE Respond
    BY <2>1, RespondDelivers DEF Feed!Next
  <2>2. ASSUME NEW w \in Writer, InsertRow(w) PROVE Feed!Next
    <3>1. PICK row \in Row : /\ row \notin store /\ store' = store \cup {row}
                             /\ late' \in {late, late \cup {row}}
                             /\ row.at <= since => row \in late'
      BY <2>2, InsertStep DEF FeedInv
    <3>2. UNCHANGED <<since, got>>
      BY <2>2 DEF InsertRow, mirror
    <3>3. Feed!Publish(row)
      BY <3>1, <3>2 DEF Feed!Publish
    <3>. QED  BY <3>1, <3>3 DEF Feed!Next
  <2>3. CASE ~Respond /\ ~\E w \in Writer : InsertRow(w)
    BY <2>3 DEF Next, Tick, StartProduct, StampReport, Request, ReadSection, RequestFails,
                vars, mirror
  <2>. QED  BY <2>1, <2>2, <2>3
<1>. QED  BY <1>1, <1>2, FeedInvariant, NumberedInvariant, PTL DEF Spec, IsSyncFeed, Feed!Spec

=============================================================================
