------------------------------- MODULE Export -------------------------------
(***************************************************************************)
(* The incremental sync feed: /export of wxparser/api.py, the since-readers*)
(* of wxparser/db.py it is built on, a mirror that follows it the way      *)
(* docs/USAGE.md says, and the capture service writing meanwhile.  The     *)
(* live feed /stream is the same loop, with the watermark in the server:   *)
(* its client, too, goes on from the last stamp it has.                    *)
(*                                                                         *)
(* A response covers several sections (tables), read one after another,    *)
(* each cut to a page; _sync_window trims them to one watermark.           *)
(***************************************************************************)
EXTENDS Integers, Sequences, FiniteSets

CONSTANTS
  Section,       \* the tables of the feed
  Order,         \* the sequence in which _ep_export reads them
  Limit,         \* per section, the rows of one page
  Writer,        \* the threads of the capture service that write
  Scripts,       \* per thread, what one product writes: sequences of
                 \* [sec, stamp]: the start of the product, or a stamp of the row's own
  MaxTime,       \* bound: last second
  MaxProducts,   \* bound: products written
  None           \* no value

Row == [sec : Section, at : Nat, n : Nat]

ASSUME LimitAssumption == Limit \in [Section -> Nat \ {0}]

ASSUME ExportAssumption ==
  /\ Order \in Seq(Section) /\ Section = {Order[i] : i \in DOMAIN Order}
  /\ \A w \in Writer : Scripts[w] \subseteq Seq([sec : Section, stamp : {"start", "own"}])
  /\ None \notin Nat /\ None \notin [rows : SUBSET Row, over : SUBSET Row]
  /\ MaxTime \in Nat /\ MaxProducts \in Nat

VARIABLES
  now,       \* the clock, in seconds
  products,  \* how many products were written or begun
  pending,   \* per thread, the rows of its product still to be inserted
  store,     \* the rows of all tables
  since,     \* the watermark the mirror persisted
  busy,      \* a request is in flight
  pages,     \* what it read of each section so far: [rows, over]
  more,      \* the last response said there is more
  got,       \* the rows the mirror received
  late       \* auxiliary: rows inserted behind the watermark, or behind a read

writers == <<now, products, pending>>
mirror  == <<since, busy, pages, more, got>>
vars    == <<writers, store, mirror, late>>

Unread == [s \in Section |-> None]

Init ==
  /\ now = 1 /\ products = 0
  /\ pending = [w \in Writer |-> <<>>]
  /\ store = {} /\ late = {}
  /\ since = 0 /\ busy = FALSE /\ pages = Unread /\ more = FALSE /\ got = {}

-----------------------------------------------------------------------------
(* The capture service. *)

Tick ==
  /\ now < MaxTime
  /\ now' = now + 1
  /\ UNCHANGED <<products, pending, store, mirror, late>>

\* _handle_transcript takes the time for its readings and its alert detail,
\* build_alert the one of both rows of an alert.
StartProduct(w) ==
  /\ pending[w] = <<>> /\ products < MaxProducts
  /\ \E script \in Scripts[w] :
       pending' = [pending EXCEPT ![w] =
         [i \in DOMAIN script |-> [sec |-> script[i].sec,
                                   at  |-> IF script[i].stamp = "own" THEN None ELSE now]]]
  /\ products' = products + 1
  /\ UNCHANGED <<now, store, mirror, late>>

\* build_report takes the time of a transcript once its readings are written.
StampReport(w) ==
  /\ pending[w] # <<>> /\ Head(pending[w]).at = None
  /\ pending' = [pending EXCEPT ![w][1].at = now]
  /\ UNCHANGED <<now, products, store, mirror, late>>

WasRead(s) == busy /\ pages[s] # None

InsertRow(w) ==
  /\ pending[w] # <<>> /\ Head(pending[w]).at # None
  /\ LET row == [sec |-> Head(pending[w]).sec, at |-> Head(pending[w]).at,
                 n |-> Cardinality(store) + 1] IN
       /\ store' = store \cup {row}
       /\ late' = IF row.at <= since \/ WasRead(row.sec) THEN late \cup {row} ELSE late
  /\ pending' = [pending EXCEPT ![w] = Tail(@)]
  /\ UNCHANGED <<now, products, mirror>>

-----------------------------------------------------------------------------
(* One request. *)

Request ==
  /\ ~busy
  /\ busy' = TRUE /\ pages' = Unread
  /\ UNCHANGED <<writers, store, since, more, got, late>>

\* Mutant of Newer: the watermark is inclusive.
NewerOrSame(s) == {r \in store : r.sec = s /\ r.at >= since}
Newer(s) == {r \in store : r.sec = s /\ r.at > since}

\* LIMIT limit + 1 of the newer rows, oldest first (ties in any order): the page,
\* and the lookahead row if there are more.
IsPage(p, s) ==
  /\ p.rows \subseteq Newer(s) /\ p.over \subseteq Newer(s) \ p.rows
  /\ \/ p.rows = Newer(s) /\ Cardinality(p.rows) <= Limit[s]
     \/ /\ Cardinality(p.rows) = Limit[s] /\ Cardinality(p.over) = 1
        /\ \A b \in p.over : /\ \A r \in p.rows : r.at <= b.at
                             /\ \A q \in Newer(s) \ p.rows : b.at <= q.at

IsNextRead(s) ==
  \E i \in DOMAIN Order : /\ Order[i] = s /\ pages[s] = None
                          /\ \A j \in 1..(i - 1) : pages[Order[j]] # None

ReadSection(s) ==
  /\ busy /\ IsNextRead(s)
  /\ \E rows \in SUBSET Newer(s), over \in SUBSET Newer(s) :
       /\ IsPage([rows |-> rows, over |-> over], s)
       /\ pages' = [pages EXCEPT ![s] = [rows |-> rows, over |-> over]]
  /\ UNCHANGED <<writers, store, since, busy, more, got, late>>

\* The request fails; the mirror keeps the watermark it has.  Bound: none fails in the
\* last second.
RequestFails ==
  /\ busy /\ now < MaxTime
  /\ busy' = FALSE /\ pages' = Unread
  /\ UNCHANGED <<writers, store, since, more, got, late>>

Least(S)    == {x \in S : \A y \in S : x <= y}
Greatest(S) == {x \in S : \A y \in S : x >= y}
Stamps(R)   == {r.at : r \in R}

Truncated == \E s \in Section : pages[s].over # {}

\* The stamps of a truncated page that are surely complete lie before its boundary.
Before(s) == {r \in pages[s].rows : \A b \in pages[s].over : r.at < b.at}

\* Mutant of Safe: a page of one single stamp is not passed.
SafeOrStay(s) ==
  IF pages[s].over = {} THEN {}
  ELSE IF Before(s) = {} THEN {since} ELSE Greatest(Stamps(Before(s)))

\* The last complete stamp of a truncated section; none if it is not truncated.  A
\* page of one single stamp is passed as it is.
Safe(s) ==
  IF pages[s].over = {} \/ Before(s) = {}
    THEN Stamps(pages[s].over) ELSE Greatest(Stamps(Before(s)))

Safes == UNION {Safe(s) : s \in Section}

\* Mutant of Cutoff: the greatest instead of the smallest.
CutoffGreatest == Greatest(Safes)
Cutoff == Least(Safes)

\* Mutant of Kept: sections that are not truncated are not trimmed.
KeptIfTruncated(s) ==
  {r \in pages[s].rows : pages[s].over # {} => \A c \in Cutoff : r.at <= c}
Kept(s) == {r \in pages[s].rows : \A c \in Cutoff : r.at <= c}
Sent    == UNION {Kept(s) : s \in Section}

\* Mutant of NextSince: an empty response has no watermark of its own.
NextSinceOfRows ==
  IF Truncated THEN Cutoff
  ELSE IF Sent # {} THEN Greatest(Stamps(Sent)) ELSE {None}
NextSince ==
  IF Truncated THEN Cutoff
  ELSE IF Sent # {} THEN Greatest(Stamps(Sent)) ELSE {since}

\* Mutant of HeldBack: only what was trimmed counts, not the lookahead row.
HeldBackTrimmed == \E s \in Section : Kept(s) # pages[s].rows
HeldBack == \E s \in Section : Kept(s) # pages[s].rows \cup pages[s].over

\* _sync_window; the mirror stores what it gets and the new watermark.
Respond ==
  /\ busy /\ \A s \in Section : pages[s] # None
  /\ \E next \in NextSince : since' = next
  /\ more' = HeldBack
  /\ got' = got \cup Sent
  /\ busy' = FALSE /\ pages' = Unread
  /\ UNCHANGED <<writers, store, late>>

Next ==
  \/ Tick
  \/ \E w \in Writer : StartProduct(w) \/ StampReport(w) \/ InsertRow(w)
  \/ Request \/ (\E s \in Section : ReadSection(s)) \/ Respond \/ RequestFails

Spec == Init /\ [][Next]_vars

\* One round of a mirror that polls /export, and of the loop of _serve_sse.
MirrorStep == Request \/ (\E s \in Section : ReadSection(s)) \/ Respond
WriterStep == \E w \in Writer : StampReport(w) \/ InsertRow(w)

\* The mirror polls for ever, the network recovers by the last second, and a product
\* begun is written.
FairSpec == Spec /\ WF_vars(Tick) /\ WF_vars(MirrorStep) /\ WF_vars(WriterStep)

-----------------------------------------------------------------------------
(* Properties. *)

WriterType ==
  /\ now \in Nat /\ products \in Nat
  /\ pending \in [Writer -> Seq([sec : Section, at : Nat \cup {None}])]
StoreType == store \subseteq Row /\ IsFiniteSet(store) /\ late \subseteq store
MirrorType ==
  /\ since \in Nat /\ busy \in BOOLEAN /\ more \in BOOLEAN
  /\ pages \in [Section -> [rows : SUBSET store, over : SUBSET store] \cup {None}]
  /\ ~busy => pages = Unread
  /\ got \subseteq store

\* Every variable stays in its range, and there are pages only while they are read.
TypeOK == WriterType /\ StoreType /\ MirrorType

\* One capture wider than a page: the loss _sync_window documents.
TooWide(r) == Cardinality({q \in store : q.sec = r.sec /\ q.at = r.at}) > Limit[r.sec]

\* Lossless: behind the watermark, the mirror misses only rows that were inserted
\* behind it (or behind the read of their table in the request that moved it), and
\* captures wider than a page.
OnlyLateRowsMissed ==
  \A r \in store : r.at <= since => r \in got \/ r \in late \/ TooWide(r)

\* No row is fetched twice.
NoRefetch == [][Respond => Sent \cap got = {}]_vars

\* When the feed says there is no more, the mirror has whatever was there to be read.
DrainedMeansAll ==
  [][Respond /\ ~more' =>
       \A r \in store : r \in got' \/ r \in late \/ TooWide(r)]_vars

\* A page that holds something back moves the watermark: no mirror gets stuck on
\* one page (test_sync_window_single_stamp_page_still_advances).
MorePagesAdvance == [][Respond /\ more' => since' > since]_vars

\* The mirror catches up with a service that stops writing.
CatchesUp ==
  <>[](\A r \in store : r \in got \/ r \in late \/ TooWide(r))

Feed == INSTANCE SyncFeed
          WITH Row <- Row, Limit <- Limit, store <- store, late <- late, since <- since, got <- got

\* The abstract feed is what all those reads, trims and watermarks amount to: every
\* response is one step of SyncFeed, and nothing else moves the mirror (_ep_export and
\* _sync_window; "never miss or re-fetch a row", but for late rows and wide captures).
IsSyncFeed == Feed!Spec

\* What docs/USAGE.md promises without a condition: the mirror misses nothing.
NeverMiss == \A r \in store : r.at <= since => r \in got \/ TooWide(r)

=============================================================================
