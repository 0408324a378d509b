------------------------------ MODULE SyncFeed ------------------------------
(***************************************************************************)
(* What /export promises, whatever it takes to keep it: a mirror holds a   *)
(* watermark, and every answer moves it forward at one instant, over all   *)
(* rows up to it.  Only a row that is published behind the mirror's back   *)
(* may be left out, or one of a capture wider than a page.                 *)
(***************************************************************************)
EXTENDS Integers, FiniteSets

CONSTANTS
  Row,     \* what is published: records with the table sec and the time stamp at
  Limit    \* per table, the rows of one page

VARIABLES
  store,   \* the rows published
  late,    \* those of them that were published behind the mirror's back
  since,   \* the mirror's watermark
  got      \* the rows the mirror has

vars == <<store, late, since, got>>

Init == store = {} /\ late = {} /\ since = 0 /\ got = {}

TooWide(r) == Cardinality({q \in store : q.sec = r.sec /\ q.at = r.at}) > Limit[r.sec]

\* A row behind the watermark is late; a newer one may be.
Publish(r) ==
  /\ r \in Row /\ r \notin store
  /\ store' = store \cup {r}
  /\ late' \in {late, late \cup {r}} /\ (r.at <= since => r \in late')
  /\ UNCHANGED <<since, got>>

\* Rows the mirror does not have yet, all of them within the window, and no gap in it.
Deliver(rows) ==
  /\ since' \in Nat /\ since' >= since
  /\ got' = got \cup rows
  /\ rows \subseteq store \ got
  /\ \A r \in rows : r.at > since /\ r.at <= since'
  /\ \A r \in store : r.at > since /\ r.at <= since' => r \in rows \/ r \in late \/ TooWide(r)
  /\ UNCHANGED <<store, late>>

Next ==
  \/ \E r \in store' : Publish(r)
  \/ Deliver(got' \ got)

Spec == Init /\ [][Next]_vars

=============================================================================
