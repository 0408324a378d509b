-------------------------- MODULE HeartbeatProofs --------------------------
(***************************************************************************)
(* Heartbeat: its types, and that /health never calls a dead, deaf or      *)
(* noise-fed service ok.                                                   *)
(***************************************************************************)
EXTENDS Heartbeat, TLAPS

USE DEF Thread

Truth == [alive : Nat, heard : Stamp, novel : Nat, swept : BOOLEAN]

\* The lemmas below are about one step; Watch, which only moves `stuck`, is left aside.
TypeBut ==
  /\ now \in Nat /\ segments \in Nat /\ faults \in Nat /\ rebuilds \in Nat /\ queue \in Nat
  /\ up \in BOOLEAN
  /\ pc \in [Thread -> Stage]
  /\ size \in [Thread -> Nat]
  /\ mem \in State
  /\ copy \in [Thread -> Copy \cup {None}]
  /\ target \in [Thread -> {"tmp", "file", "gone"}]
  /\ tmp \in Content /\ file \in Content /\ row \in Copy \cup {None}
  /\ reading \in Stamp
  /\ truth \in Truth
  /\ \A t \in Thread : pc[t] \in Writing => copy[t] # None

LEMMA CopiesAreReal ==
  ASSUME TypeBut, NEW t \in Thread, pc[t] \in Writing
  PROVE  copy[t] \in Copy
BY DEF TypeBut

\* The calls on the shared state keep the types.
LEMMA CallsKeepTypes ==
  ASSUME TypeBut,
         \/ HearRepeat \/ HearShed \/ HearNovel
         \/ GetSegment \/ SttFails \/ SttOk \/ Handle
  PROVE  TypeBut'
<1>1. CASE HearRepeat \/ HearShed \/ HearNovel
  <2>1. PICK queued \in BOOLEAN : Hear(queued)
    BY <1>1 DEF HearRepeat, HearShed, HearNovel
  <2>2. mem' \in State
    BY <2>1 DEF Hear, TypeBut, State, Stamp
  <2>3. truth' \in Truth
    BY <2>1 DEF Hear, TypeBut, Stamp, Truth
  <2>4. queue' \in Nat /\ segments' \in Nat
    BY <2>1 DEF Hear, TypeBut
  <2>. QED  BY <2>1, <2>2, <2>3, <2>4 DEF Hear, Goto, disk, tables, TypeBut, Stage, Writing
<1>2. CASE GetSegment
  BY <1>2 DEF GetSegment, Goto, Idle, bounds, disk, TypeBut, Stage, Writing
<1>3. CASE SttFails
  BY <1>3 DEF SttFails, Goto, Idle, bounds, disk, TypeBut, Stage, Writing
<1>4. CASE SttOk
  <2>1. mem' \in State
    BY <1>4 DEF SttOk, TypeBut, State, Stamp
  <2>. QED  BY <1>4, <2>1 DEF SttOk, Goto, Idle, bounds, disk, TypeBut, Stage, Writing
<1>5. CASE Handle
  BY <1>5 DEF Handle, Goto, Idle, bounds, disk, TypeBut, Stage, Stamp, Writing
<1>. QED  BY <1>1, <1>2, <1>3, <1>4, <1>5

\* So do the steps of a flush.
LEMMA FlushKeepsTypes ==
  ASSUME TypeBut, NEW t \in Thread, Flush(t)
  PROVE  TypeBut'
<1>1. CASE ReadSize(t)
  BY <1>1 DEF ReadSize, Goto, bounds, disk, tables, TypeBut, Stage, Writing
<1>2. CASE SetDepth(t)
  <2>1. mem' \in State
    BY <1>2 DEF SetDepth, TypeBut, State
  <2>. QED  BY <1>2, <2>1 DEF SetDepth, Goto, bounds, disk, tables, TypeBut, Stage, Writing
<1>3. CASE TakeCopy(t)
  <2>1. [at |-> now, state |-> mem] \in Copy
    BY DEF TypeBut, Copy
  <2>2. [at |-> now, state |-> mem] # None
    BY <2>1, HeartbeatAssumption
  <2>. QED  BY <1>3, <2>1, <2>2 DEF TakeCopy, Goto, bounds, disk, tables, TypeBut, Stage, Writing
<1>4. CASE OpenTmp(t)
  BY <1>4 DEF OpenTmp, Goto, Flushing, bounds, TypeBut, Stage, Content, Writing
<1>5. CASE WriteTmp(t)
  <2>1. copy[t] \in Copy
    BY <1>5, CopiesAreReal DEF WriteTmp, Writing
  <2>2. tmp' \in Content /\ file' \in Content
    BY <1>5, <2>1 DEF WriteTmp, Over, TypeBut, Content
  <2>. QED  BY <1>5, <2>2 DEF WriteTmp, Goto, Flushing, bounds, TypeBut, Stage, Writing
<1>6. CASE Replace(t)
  <2>1. target' \in [Thread -> {"tmp", "file", "gone"}] /\ tmp' \in Content /\ file' \in Content
    BY <1>6 DEF Replace, Moved, TypeBut, disk, Content
  <2>. QED  BY <1>6, <2>1 DEF Replace, Goto, Flushing, bounds, TypeBut, Stage, Writing
<1>7. CASE WriteRow(t)
  <2>1. copy[t] \in Copy
    BY <1>7, CopiesAreReal DEF WriteRow, Writing
  <2>. QED  BY <1>7, <2>1 DEF WriteRow, Return, Goto, Flushing, bounds, disk, TypeBut, Stage, Writing
<1>8. CASE FileFails(t)
  BY <1>8 DEF FileFails, Failing, Goto, tables, TypeBut, Stage, Writing
<1>9. CASE RowFails(t)
  BY <1>9 DEF RowFails, Return, Failing, Goto, disk, tables, TypeBut, Stage, Writing
<1>. QED  BY <1>1, <1>2, <1>3, <1>4, <1>5, <1>6, <1>7, <1>8, <1>9 DEF Flush

\* And the process and the clock.
LEMMA RestKeepsTypes ==
  ASSUME TypeBut, Dies \/ Restart \/ Rebuild \/ Tick
  PROVE  TypeBut'
<1>1. CASE Dies
  <2>0. faults' \in Nat
    BY <1>1 DEF Dies, Failing, TypeBut
  <2>1. up' \in BOOLEAN
    BY <1>1, Zenon DEF Dies
  <2>2. pc' \in [Thread -> Stage] /\ \A t \in Thread : pc'[t] \notin Writing
    BY <1>1 DEF Dies, Stage, Writing
  <2>. QED  BY <1>1, <2>0, <2>1, <2>2 DEF Dies, tables, TypeBut
<1>2. CASE Restart
  <2>1. mem' \in State
    BY <1>2 DEF Restart, Fresh, TypeBut, State, Stamp
  <2>2. up' \in BOOLEAN
    BY <1>2 DEF Restart
  <2>3. pc' \in [Thread -> Stage] /\ \A t \in Thread : pc'[t] \notin Writing
    BY <1>2 DEF Restart, Stage, Writing
  <2>4. truth' \in Truth
    BY <1>2 DEF Restart, TypeBut, Truth
  <2>. QED  BY <1>2, <2>1, <2>2, <2>3, <2>4 DEF Restart, bounds, disk, tables, TypeBut
<1>3. CASE Tick
  BY <1>3 DEF Tick, disk, tables, TypeBut, Truth
<1>4. CASE Truncate
  <2>1. truth' \in Truth
    BY <1>4, Zenon DEF Truncate, TypeBut, Truth
  <2>. QED  BY <1>4, <2>1 DEF Truncate, Elsewhere, disk, TypeBut, Stamp
<1>5. CASE ReplayRecord
  BY <1>5 DEF ReplayRecord, Elsewhere, disk, TypeBut, Stamp
<1>. QED  BY <1>1, <1>2, <1>3, <1>4, <1>5 DEF Rebuild

LEMMA StepKeepsTypes ==
  ASSUME TypeBut, Step
  PROVE  TypeBut'
BY CallsKeepTypes, FlushKeepsTypes, RestKeepsTypes DEF Step

\* Every reachable state is well-typed; in particular a thread that writes the file
\* or the row has a copy to write.
THEOREM TypeCorrect == Spec => []TypeOK
<1>. USE DEF TypeOK, Truth
<1>1. Init => TypeOK
  BY HeartbeatAssumption DEF Init, Fresh, State, Stamp, Stage, Writing, Content
<1>2. TypeOK /\ [Next]_vars => TypeOK'
  <2>. SUFFICES ASSUME TypeOK, [Next]_vars  PROVE TypeOK'
    OBVIOUS
  <2>1. CASE Next
    <3>1. TypeBut /\ Step /\ Watch
      BY <2>1 DEF Next, TypeBut
    <3>2. TypeBut'
      BY <3>1, StepKeepsTypes
    <3>3. stuck' \in Nat
      BY <3>1, <3>2 DEF Watch, TypeBut
    <3>. QED  BY <3>2, <3>3 DEF TypeBut
  <2>2. CASE UNCHANGED vars
    BY <2>2 DEF vars, bounds
  <2>. QED  BY <2>1, <2>2
<1>. QED  BY <1>1, <1>2, PTL DEF Spec

-----------------------------------------------------------------------------
(* What is published is backed by what happened. *)

\* A state of the heartbeat claims nothing later than the truth.
Backed(s, what) ==
  /\ s.start <= what.novel
  /\ s.segment # None => what.heard # None /\ s.segment <= what.heard
  /\ s.novel # None => s.novel <= what.novel

BackedCopy(c, what) == c \in Copy => c.at <= what.alive /\ Backed(c.state, what)

Past ==
  /\ truth.alive <= now /\ truth.novel <= now
  /\ truth.heard # None => truth.heard <= now

Running ==
  /\ \A t \in Thread : pc[t] # "off" => up
  /\ up => truth.alive = now

AllBacked ==
  /\ Backed(mem, truth)
  /\ \A t \in Thread : BackedCopy(copy[t], truth)
  /\ BackedCopy(tmp, truth) /\ BackedCopy(file, truth) /\ BackedCopy(row, truth)

Grows(old, new) ==
  /\ old.alive <= new.alive /\ old.novel <= new.novel
  /\ old.heard # None => new.heard # None /\ old.heard <= new.heard

LEMMA StaysBacked ==
  ASSUME NEW s \in State, NEW old \in Truth, NEW new \in Truth, Grows(old, new), Backed(s, old)
  PROVE  Backed(s, new)
<1>1. /\ s.start \in Nat /\ s.segment \in Nat \cup {None} /\ s.novel \in Nat \cup {None}
      /\ old.novel \in Nat /\ new.novel \in Nat
      /\ old.heard \in Nat \cup {None} /\ new.heard \in Nat \cup {None}
  BY DEF State, Stamp, Truth
<1>. QED  BY <1>1 DEF Grows, Backed

LEMMA StaysBackedCopy ==
  ASSUME NEW c, NEW old \in Truth, NEW new \in Truth, Grows(old, new), BackedCopy(c, old)
  PROVE  BackedCopy(c, new)
<1>. SUFFICES ASSUME c \in Copy  PROVE c.at <= new.alive /\ Backed(c.state, new)
  BY DEF BackedCopy
<1>1. c.at \in Nat /\ c.state \in State
  BY DEF Copy
<1>2. c.at <= old.alive /\ Backed(c.state, old)
  BY DEF BackedCopy
<1>3. old.alive \in Nat /\ new.alive \in Nat /\ old.alive <= new.alive
  BY DEF Truth, Grows
<1>. QED  BY <1>1, <1>2, <1>3, StaysBacked

LEMMA Reflexive ==
  ASSUME NEW what \in Truth
  PROVE  Grows(what, what)
<1>1. what.alive \in Nat /\ what.novel \in Nat /\ what.heard \in Nat \cup {None}
  BY DEF Truth, Stamp
<1>. QED  BY <1>1 DEF Grows

\* A step only adds to the truth, and keeps it in the past.
LEMMA TruthGrows ==
  ASSUME TypeBut, Past, Running, Step
  PROVE  Grows(truth, truth') /\ Past' /\ Running'
<1>. DEFINE a == truth.alive  h == truth.heard  n == truth.novel
<1>1. /\ now \in Nat /\ a \in Nat /\ n \in Nat /\ h \in Nat \cup {None}
      /\ truth \in Truth /\ a <= now /\ n <= now
      /\ h # None => h <= now
  BY DEF TypeBut, Past, Truth, Stamp
<1>2. CASE HearRepeat \/ HearShed \/ HearNovel
  <2>1. PICK queued \in BOOLEAN : Hear(queued)
    BY <1>2 DEF HearRepeat, HearShed, HearNovel
  <2>2. /\ truth'.alive = a /\ truth'.heard = now /\ now' = now /\ up' = up
        /\ truth'.novel = n \/ truth'.novel = now
    BY <2>1 DEF Hear, Truth, TypeBut
  <2>3. now # None
    BY <1>1, HeartbeatAssumption
  <2>4. \A t \in Thread : pc'[t] # "off" => pc[t] # "off"
    BY <2>1 DEF Hear, Goto, TypeBut
  <2>5. Grows(truth, truth')
    BY <1>1, <2>2, <2>3 DEF Grows
  <2>6. \A t \in Thread : pc'[t] # "off" => up'
    BY <2>2, <2>4, Zenon DEF Running
  <2>7. up' => truth'.alive = now'
    BY <2>2, Zenon DEF Running
  <2>8. Past'
    BY <1>1, <2>2 DEF Past
  <2>. QED  BY <2>5, <2>6, <2>7, <2>8, Zenon DEF Running
<1>3. CASE GetSegment \/ SttFails \/ SttOk \/ Handle \/ \E t \in Thread : Flush(t)
  <2>1. UNCHANGED <<truth, now, up>>
    BY <1>3
    DEF GetSegment, SttFails, SttOk, Handle, Idle, Flush, ReadSize, SetDepth, TakeCopy, OpenTmp,
        WriteTmp, Replace, WriteRow, FileFails, RowFails, Flushing, Failing, bounds
  <2>2. \E t \in Thread : pc[t] # "off"
    BY <1>3
    DEF GetSegment, SttFails, SttOk, Handle, Flush, ReadSize, SetDepth, TakeCopy, OpenTmp,
        WriteTmp, Replace, WriteRow, FileFails, RowFails
  <2>3. up
    BY <2>2, Zenon DEF Running
  <2>4. \A t \in Thread : pc'[t] # "off" => up'
    BY <2>1, <2>3, Zenon
  <2>5. Grows(truth, truth') /\ Past'
    BY <1>1, <2>1, Reflexive DEF Past
  <2>. QED  BY <2>1, <2>4, <2>5, Zenon DEF Running
<1>4. CASE Dies
  <2>1. UNCHANGED <<truth, now>> /\ \A t \in Thread : pc'[t] = "off"
    BY <1>4 DEF Dies
  <2>2. up' => truth'.alive = now'
    BY <1>4, Zenon DEF Dies
  <2>3. Grows(truth, truth') /\ Past'
    BY <1>1, <2>1, Reflexive DEF Past
  <2>. QED  BY <2>1, <2>2, <2>3, Zenon DEF Running
<1>5. CASE Restart
  <2>1. truth'.alive = now /\ truth'.heard = h /\ truth'.novel = now /\ now' = now
    BY <1>1, <1>5 DEF Restart, Truth, bounds
  <2>2. \A t \in Thread : pc'[t] # "off" => up'
    BY <1>5, Zenon DEF Restart
  <2>3. Grows(truth, truth') /\ Past'
    BY <1>1, <2>1, HeartbeatAssumption DEF Grows, Past
  <2>4. truth'.alive = now'
    BY <2>1
  <2>. QED  BY <2>2, <2>3, <2>4, Zenon DEF Running
<1>6. CASE Tick
  <2>1. /\ truth'.heard = h /\ truth'.novel = n /\ now' = now + 1
        /\ up => truth'.alive = now + 1
        /\ truth'.alive = a \/ truth'.alive = now + 1
    BY <1>1, <1>6 DEF Tick, Truth
  <2>2. UNCHANGED <<up, pc>>
    BY <1>6 DEF Tick
  <2>3. \A t \in Thread : pc'[t] # "off" => up'
    BY <2>2, Zenon DEF Running
  <2>4. up' => truth'.alive = now'
    BY <2>1, <2>2, Zenon
  <2>5. Grows(truth, truth') /\ Past'
    BY <1>1, <2>1 DEF Grows, Past
  <2>. QED  BY <2>3, <2>4, <2>5, Zenon DEF Running
<1>7. CASE Rebuild
  <2>1. /\ truth'.alive = a /\ truth'.heard = h /\ truth'.novel = n
        /\ UNCHANGED <<now, up, pc>>
    BY <1>1, <1>7 DEF Rebuild, Truncate, ReplayRecord, Elsewhere, Truth
  <2>2. Grows(truth, truth') /\ Past'
    BY <1>1, <2>1 DEF Grows, Past
  <2>. QED  BY <2>1, <2>2, Zenon DEF Running
<1>. QED  BY <1>2, <1>3, <1>4, <1>5, <1>6, <1>7 DEF Step

\* What was backed before a step is backed after it.
LEMMA KeepsBacking ==
  ASSUME TypeBut, TypeBut', Grows(truth, truth')
  PROVE  /\ \A s \in State : Backed(s, truth) => Backed(s, truth')
         /\ \A c : BackedCopy(c, truth) => BackedCopy(c, truth')
BY StaysBacked, StaysBackedCopy DEF TypeBut

LEMMA MemStaysBacked ==
  ASSUME TypeBut, TypeBut', Past, AllBacked, Grows(truth, truth'), Step
  PROVE  Backed(mem', truth')
<1>1. Backed(mem, truth')
  BY KeepsBacking DEF AllBacked, TypeBut
<1>2. CASE HearRepeat \/ HearShed \/ HearNovel
  <2>1. PICK queued \in BOOLEAN : Hear(queued)
    BY <1>2 DEF HearRepeat, HearShed, HearNovel
  <2>2. /\ mem'.start = mem.start /\ mem'.segment = now /\ truth'.heard = now
        /\ \/ mem'.novel = mem.novel
           \/ mem'.novel = now /\ truth'.novel = now
    BY <2>1 DEF Hear, TypeBut, State, Truth
  <2>3. now \in Nat /\ now # None
    BY HeartbeatAssumption DEF TypeBut
  <2>. QED  BY <1>1, <2>2, <2>3 DEF Backed
<1>3. CASE SttOk
  <2>1. mem'.start = mem.start /\ mem'.segment = mem.segment /\ mem'.novel = mem.novel
    BY <1>3 DEF SttOk, TypeBut, State
  <2>. QED  BY <1>1, <2>1 DEF Backed
<1>4. CASE \E t \in Thread : SetDepth(t)
  <2>1. mem'.start = mem.start /\ mem'.segment = mem.segment /\ mem'.novel = mem.novel
    BY <1>4 DEF SetDepth, TypeBut, State
  <2>. QED  BY <1>1, <2>1 DEF Backed
<1>5. CASE Restart
  <2>1. /\ mem'.start = now /\ mem'.segment = None /\ mem'.novel = None
        /\ now \in Nat
    BY <1>5 DEF Restart, Fresh, TypeBut
  <2>2. truth'.novel = now
    BY <1>5 DEF Restart, TypeBut, Truth
  <2>. QED  BY <2>1, <2>2 DEF Backed
<1>6. CASE UNCHANGED mem
  BY <1>1, <1>6
<1>. QED
  BY <1>2, <1>3, <1>4, <1>5, <1>6
  DEF Step, GetSegment, SttFails, Handle, Idle, Flush, ReadSize, TakeCopy, OpenTmp, WriteTmp, Replace,
      WriteRow, FileFails, RowFails, Flushing, Dies, Rebuild, Truncate, ReplayRecord, Elsewhere, Tick

\* What the copies can be after a step that takes none.
OldCopies == {copy[t] : t \in Thread} \cup {tmp, file, row, None, Empty, Torn}

LEMMA CopiesMove ==
  ASSUME TypeBut, Step, ~ \E t \in Thread : TakeCopy(t)
  PROVE  /\ \A t \in Thread : copy'[t] \in OldCopies
         /\ tmp' \in OldCopies /\ file' \in OldCopies /\ row' \in OldCopies
<1>. USE DEF OldCopies
<1>1. copy \in [Thread -> Copy \cup {None}]
  BY DEF TypeBut
<1>2. CASE \E t \in Thread : Flush(t)
  <2>1. PICK t \in Thread : Flush(t)
    BY <1>2
  <2>2. CASE ReadSize(t) \/ SetDepth(t)
    BY <2>2 DEF ReadSize, SetDepth, disk, tables
  <2>3. CASE OpenTmp(t)
    BY <2>3 DEF OpenTmp
  <2>4. CASE WriteTmp(t)
    BY <2>4 DEF WriteTmp, Over
  <2>5. CASE Replace(t)
    BY <2>5 DEF Replace, disk
  <2>6. CASE WriteRow(t)
    BY <1>1, <2>6 DEF WriteRow, Return, disk
  <2>7. CASE FileFails(t)
    BY <2>7 DEF FileFails, tables
  <2>8. CASE RowFails(t)
    BY <1>1, <2>8 DEF RowFails, Return, disk, tables
  <2>. QED  BY <2>1, <2>2, <2>3, <2>4, <2>5, <2>6, <2>7, <2>8 DEF Flush
<1>3. CASE Dies
  BY <1>3 DEF Dies, tables
<1>4. CASE UNCHANGED <<copy, tmp, file, row>>
  BY <1>4
<1>5. CASE Rebuild
  BY <1>5 DEF Rebuild, Truncate, ReplayRecord, Elsewhere, disk
<1>. QED
  BY <1>2, <1>3, <1>4, <1>5
  DEF Step, HearRepeat, HearShed, HearNovel, Hear, GetSegment, SttFails, SttOk, Handle, Idle, Restart,
      Tick, disk, tables

\* A copy is one of the heartbeat as it is, or one that was there before.
LEMMA CopiesStayBacked ==
  ASSUME TypeBut, TypeBut', Past, Running, AllBacked, Grows(truth, truth'), Step
  PROVE  /\ \A t \in Thread : BackedCopy(copy'[t], truth')
         /\ BackedCopy(tmp', truth') /\ BackedCopy(file', truth') /\ BackedCopy(row', truth')
<1>1. \A c \in OldCopies : BackedCopy(c, truth')
  <2>1. \A c \in {None, Empty, Torn} : BackedCopy(c, truth)
    BY HeartbeatAssumption DEF BackedCopy
  <2>. QED  BY <2>1, KeepsBacking DEF AllBacked, OldCopies
<1>2. CASE \E t \in Thread : TakeCopy(t)
  <2>1. PICK t \in Thread : TakeCopy(t)
    BY <1>2
  <2>2. up
    BY <2>1, Zenon DEF TakeCopy, Running
  <2>3. truth.alive = now
    BY <2>2, Zenon DEF Running
  <2>4. BackedCopy([at |-> now, state |-> mem], truth)
    BY <2>3 DEF BackedCopy, AllBacked, TypeBut
  <2>5. /\ copy' = [copy EXCEPT ![t] = [at |-> now, state |-> mem]]
        /\ UNCHANGED <<truth, tmp, file, row>>
    BY <2>1 DEF TakeCopy, disk, tables
  <2>6. copy \in [Thread -> Copy \cup {None}]
    BY DEF TypeBut
  <2>7. \A u \in Thread : copy'[u] \in OldCopies \/ copy'[u] = [at |-> now, state |-> mem]
    BY <2>5, <2>6 DEF OldCopies
  <2>8. \A u \in Thread : BackedCopy(copy'[u], truth')
    BY <1>1, <2>4, <2>5, <2>7
  <2>. QED  BY <1>1, <2>5, <2>8 DEF OldCopies
<1>3. CASE ~ \E t \in Thread : TakeCopy(t)
  BY <1>1, <1>3, CopiesMove
<1>. QED  BY <1>2, <1>3

-----------------------------------------------------------------------------
(* OkIsTrue. *)

BackedInv == TypeOK /\ Past /\ Running /\ AllBacked

\* What is published and recent tells of a service that ran, was heard and had news.
LEMMA BackedIsTrue ==
  ASSUME BackedInv
  PROVE  OkIsTrue
<1>. SUFFICES ASSUME Status = "ok"
              PROVE  /\ now - truth.alive <= HeartbeatStale
                     /\ truth.heard # None /\ now - truth.heard <= AudioSilent
                     /\ now - truth.novel <= NovelStale
  BY DEF OkIsTrue
<1>. DEFINE c == Published
<1>1. ~Dead /\ ~Silent /\ ~Drought
  BY DEF Status
<1>2. c # None /\ ~Older(c.at, HeartbeatStale)
  BY <1>1 DEF Dead
<1>3. c \in Copy /\ BackedCopy(c, truth)
  BY <1>2 DEF BackedInv, TypeOK, AllBacked, Published, Readable, Content
<1>4. c.at <= truth.alive /\ Backed(c.state, truth)
  BY <1>3 DEF BackedCopy
<1>5. /\ c.at \in Nat /\ c.state.start \in Nat
      /\ c.state.segment \in Nat \cup {None} /\ c.state.novel \in Nat \cup {None}
  <2>1. c.at \in Nat /\ c.state \in State
    BY <1>3 DEF Copy
  <2>. QED  BY <2>1 DEF State, Stamp
<1>6. ~Older(c.state.segment, AudioSilent) /\ ~Older(Since(c.state.novel, c.state.start), NovelStale)
  BY <1>1 DEF Silent, Drought
<1>. HIDE DEF c
<1>7. /\ now \in Nat /\ truth.alive \in Nat /\ truth.novel \in Nat /\ truth.heard \in Nat \cup {None}
      /\ HeartbeatStale \in Nat /\ AudioSilent \in Nat /\ NovelStale \in Nat
  BY HeartbeatAssumption DEF BackedInv, TypeOK, Stamp
<1>8. now - truth.alive <= HeartbeatStale
  BY <1>2, <1>4, <1>5, <1>7 DEF Older
<1>9. truth.heard # None /\ now - truth.heard <= AudioSilent
  BY <1>4, <1>5, <1>6, <1>7 DEF Older, Backed
<1>10. now - truth.novel <= NovelStale
  BY <1>4, <1>5, <1>6, <1>7 DEF Older, Backed, Since
<1>. QED  BY <1>8, <1>9, <1>10

\* Whatever copies race, fail, are torn or outlive their process, /health says ok only
\* of a service that lately ran, was heard and had something new.
THEOREM OkNeverLies == Spec => []OkIsTrue
<1>1. Init => Past /\ Running /\ AllBacked
  <2>. SUFFICES ASSUME Init  PROVE Past /\ Running /\ AllBacked
    OBVIOUS
  <2>1. Past /\ Running
    BY DEF Init, Past, Running
  <2>2. Backed(mem, truth)
    BY DEF Init, Fresh, Backed
  <2>3. \A c : c = None => BackedCopy(c, truth)
    BY HeartbeatAssumption DEF BackedCopy
  <2>. QED  BY <2>1, <2>2, <2>3 DEF Init, AllBacked
<1>2. TypeOK /\ TypeOK' /\ Past /\ Running /\ AllBacked /\ [Next]_vars
        => Past' /\ Running' /\ AllBacked'
  <2>. SUFFICES ASSUME TypeOK, TypeOK', Past, Running, AllBacked, [Next]_vars
                PROVE  Past' /\ Running' /\ AllBacked'
    OBVIOUS
  <2>1. CASE Next
    <3>1. TypeBut /\ TypeBut' /\ Step
      BY <2>1 DEF Next, TypeOK, TypeBut, Truth
    <3>2. Grows(truth, truth') /\ Past' /\ Running'
      BY <3>1, TruthGrows
    <3>3. Backed(mem', truth')
      BY <3>1, <3>2, MemStaysBacked
    <3>. QED  BY <3>1, <3>2, <3>3, CopiesStayBacked DEF AllBacked
  <2>2. CASE UNCHANGED vars
    <3>1. Past' /\ AllBacked'
      BY <2>2 DEF vars, bounds, Past, AllBacked
    <3>2. Running'
      BY <2>2, Zenon DEF vars, bounds, Running
    <3>. QED  BY <3>1, <3>2
  <2>. QED  BY <2>1, <2>2
<1>3. TypeOK /\ Past /\ Running /\ AllBacked => OkIsTrue
  BY BackedIsTrue DEF BackedInv
<1>. QED  BY <1>1, <1>2, <1>3, TypeCorrect, PTL DEF Spec

-----------------------------------------------------------------------------
(* WedgedIsLoud. *)

\* What a state tells of the transcriptions, and a copy of the backlog, when nothing
\* was transcribed since `since`.
SttPast(s, since) == s.start <= since /\ (s.stt # None => s.stt <= since)
Waiting(c, since) ==
  c \in Copy => SttPast(c.state, since) /\ (c.at > since => c.state.depth > WedgedQueue)

\* A size or depth about to be copied was read in this very tick, when the backlog was
\* already stuck, or the backlog got stuck in this tick.
StuckInv ==
  /\ stuck <= now
  /\ ~up => stuck = now
  /\ SttPast(mem, stuck)
  /\ stuck < now =>
       /\ queue > WedgedQueue
       /\ \A t \in Thread : pc[t] = "set" => size[t] > WedgedQueue
       /\ \A t \in Thread : pc[t] = "flush" => mem.depth > WedgedQueue
  /\ \A t \in Thread : Waiting(copy[t], stuck)
  /\ Waiting(tmp, stuck) /\ Waiting(file, stuck) /\ Waiting(row, stuck)

LEMMA StaysWaiting ==
  ASSUME NEW a \in Nat, NEW b \in Nat, a <= b
  PROVE  /\ \A s \in State : SttPast(s, a) => SttPast(s, b)
         /\ \A c : Waiting(c, a) => Waiting(c, b)
<1>1. ASSUME NEW s \in State, SttPast(s, a) PROVE SttPast(s, b)
  <2>1. s.start \in Nat /\ s.stt \in Nat \cup {None}
    BY DEF State, Stamp
  <2>. QED  BY <1>1, <2>1 DEF SttPast
<1>2. ASSUME NEW c, Waiting(c, a), c \in Copy
      PROVE  SttPast(c.state, b) /\ (c.at > b => c.state.depth > WedgedQueue)
  <2>1. c.at \in Nat /\ c.state \in State
    BY <1>2 DEF Copy
  <2>2. SttPast(c.state, a) /\ (c.at > a => c.state.depth > WedgedQueue)
    BY <1>2 DEF Waiting
  <2>. QED  BY <1>1, <2>1, <2>2
<1>. QED  BY <1>1, <1>2 DEF Waiting

\* Either the backlog is stuck since this step, or it is and was large and nothing was
\* transcribed.
LEMMA Watched ==
  ASSUME TypeOK, TypeOK', StuckInv, Step, Watch
  PROVE  /\ now' = now \/ (Tick /\ now' = now + 1)
         /\ stuck' = now' \/ (stuck' = stuck /\ queue' > WedgedQueue /\ mem'.stt = mem.stt)
         /\ ~up' => stuck' = now'
         /\ stuck <= stuck' /\ stuck' <= now'
<1>1. now' = now \/ (Tick /\ now' = now + 1)
  BY DEF Step, HearRepeat, HearShed, HearNovel, Hear, GetSegment, SttFails, SttOk, Handle, Idle, Flush,
         ReadSize, SetDepth, TakeCopy, OpenTmp, WriteTmp, Replace, WriteRow, FileFails, RowFails,
         Flushing, Dies, Restart, Rebuild, Truncate, ReplayRecord, Elsewhere, Tick, bounds
<1>2. stuck' = now' \/ (stuck' = stuck /\ queue' > WedgedQueue /\ mem'.stt = mem.stt)
  BY Zenon DEF Watch
<1>3. ~up' => stuck' = now'
  BY Zenon DEF Watch
<1>4. stuck <= now /\ now \in Nat /\ stuck \in Nat
  BY DEF StuckInv, TypeOK
<1>5. stuck <= stuck' /\ stuck' <= now'
  BY <1>1, <1>2, <1>4
<1>. QED  BY <1>1, <1>2, <1>3, <1>5

LEMMA MemStaysPast ==
  ASSUME TypeOK, TypeOK', StuckInv, Step, Watch
  PROVE  SttPast(mem', stuck')
<1>1. /\ now \in Nat /\ stuck \in Nat /\ stuck' \in Nat /\ mem \in State
      /\ mem.start \in Nat /\ mem.stt \in Nat \cup {None}
      /\ mem.start <= stuck /\ (mem.stt # None => mem.stt <= stuck)
  BY DEF TypeOK, StuckInv, SttPast, State, Stamp
<1>2. /\ stuck <= stuck'
      /\ stuck' = now' \/ mem'.stt = mem.stt
  BY Watched
<1>3. CASE SttOk
  <2>1. mem'.start = mem.start /\ mem'.stt = now /\ now' = now
    BY <1>1, <1>3 DEF SttOk, Idle, bounds, State
  <2>. QED  BY <1>1, <1>2, <2>1 DEF SttPast
<1>4. CASE Restart
  <2>1. mem'.start = now /\ mem'.stt = None /\ now' = now
    BY <1>4 DEF Restart, Fresh, bounds
  <2>2. stuck = now
    BY <1>4, Zenon DEF Restart, StuckInv
  <2>. QED  BY <1>1, <1>2, <2>1, <2>2 DEF SttPast
<1>5. CASE ~SttOk /\ ~Restart
  <2>1. mem'.start = mem.start /\ mem'.stt = mem.stt
    BY <1>1, <1>5
    DEF Step, HearRepeat, HearShed, HearNovel, Hear, GetSegment, SttFails, Handle, Idle, Flush,
        ReadSize, SetDepth, TakeCopy, OpenTmp, WriteTmp, Replace, WriteRow, FileFails, RowFails,
        Flushing, Dies, Rebuild, Truncate, ReplayRecord, Elsewhere, Tick, State
  <2>. QED  BY <1>1, <1>2, <2>1 DEF SttPast
<1>. QED  BY <1>3, <1>4, <1>5

\* While the backlog stays stuck, whatever is about to be set or copied shows it.
LEMMA SizesStayLarge ==
  ASSUME TypeOK, TypeOK', StuckInv, Step, Watch, stuck' < now', NEW t \in Thread
  PROVE  /\ pc'[t] = "set" => size'[t] > WedgedQueue
         /\ pc'[t] = "flush" => mem'.depth > WedgedQueue
<1>1. stuck' = stuck /\ queue' > WedgedQueue /\ (now' = now \/ Tick)
  <2>1. now' \in Nat
    BY DEF TypeOK
  <2>. QED  BY <2>1, Watched
<1>2. /\ pc \in [Thread -> Stage] /\ size \in [Thread -> Nat] /\ mem \in State
      /\ now \in Nat /\ stuck \in Nat
  BY DEF TypeOK
<1>3. CASE Tick
  BY <1>2, <1>3 DEF Tick, Punctual
<1>4. CASE now' = now
  <2>1. /\ \A u \in Thread : pc[u] = "set" => size[u] > WedgedQueue
        /\ \A u \in Thread : pc[u] = "flush" => mem.depth > WedgedQueue
    BY <1>1, <1>4 DEF StuckInv
  <2>2. CASE \E u \in Thread : ReadSize(u)
    BY <1>1, <1>2, <2>1, <2>2 DEF ReadSize, Goto
  <2>3. CASE \E u \in Thread : SetDepth(u)
    <3>1. PICK u \in Thread : SetDepth(u)
      BY <2>3
    <3>2. mem'.depth = size[u] /\ pc[u] = "set"
      BY <1>2, <3>1 DEF SetDepth, State
    <3>3. pc'[t] = "set" => t # u /\ pc[t] = "set" /\ size'[t] = size[t]
      BY <1>2, <3>1 DEF SetDepth, Goto
    <3>. QED  BY <2>1, <3>2, <3>3
  <2>4. CASE Restart
    <3>1. stuck = now
      BY <2>4, Zenon DEF Restart, StuckInv
    <3>. QED  BY <1>1, <1>2, <1>4, <3>1
  <2>5. CASE Dies
    BY <2>5 DEF Dies
  <2>6. CASE \/ HearRepeat \/ HearShed \/ HearNovel \/ GetSegment \/ SttFails \/ SttOk \/ Handle
    <3>1. mem'.depth = mem.depth /\ size' = size
      BY <1>2, <2>6
      DEF HearRepeat, HearShed, HearNovel, Hear, GetSegment, SttFails, SttOk, Handle, Idle, State
    <3>2. pc'[t] \in {"set", "flush"} => pc'[t] = pc[t]
      BY <1>2, <2>6
      DEF HearRepeat, HearShed, HearNovel, Hear, GetSegment, SttFails, SttOk, Handle, Goto
    <3>. QED  BY <2>1, <3>1, <3>2
  <2>7. CASE \E u \in Thread : \/ TakeCopy(u) \/ OpenTmp(u) \/ WriteTmp(u) \/ Replace(u)
                              \/ WriteRow(u) \/ FileFails(u) \/ RowFails(u)
    <3>1. mem' = mem /\ size' = size
      BY <2>7 DEF TakeCopy, OpenTmp, WriteTmp, Replace, WriteRow, FileFails, RowFails, Flushing
    <3>2. pc'[t] \in {"set", "flush"} => pc'[t] = pc[t]
      BY <1>2, <2>7
      DEF TakeCopy, OpenTmp, WriteTmp, Replace, WriteRow, FileFails, RowFails, Return, Goto
    <3>. QED  BY <2>1, <3>1, <3>2
  <2>8. CASE Rebuild
    BY <2>1, <2>8 DEF Rebuild, Truncate, ReplayRecord, Elsewhere
  <2>. QED  BY <1>3, <2>2, <2>3, <2>4, <2>5, <2>6, <2>7, <2>8 DEF Step, Flush
<1>. QED  BY <1>1, <1>3, <1>4

LEMMA CopiesStayWaiting ==
  ASSUME TypeOK, TypeOK', StuckInv, Step, Watch
  PROVE  /\ \A t \in Thread : Waiting(copy'[t], stuck')
         /\ Waiting(tmp', stuck') /\ Waiting(file', stuck') /\ Waiting(row', stuck')
<1>1. now \in Nat /\ stuck \in Nat /\ stuck' \in Nat /\ stuck <= stuck'
  BY Watched DEF TypeOK
<1>2. \A c \in OldCopies : Waiting(c, stuck')
  <2>1. \A c \in {None, Empty, Torn} : Waiting(c, stuck)
    BY HeartbeatAssumption DEF Waiting
  <2>. QED  BY <1>1, <2>1, StaysWaiting DEF StuckInv, OldCopies
<1>3. CASE \E t \in Thread : TakeCopy(t)
  <2>. DEFINE new == [at |-> now, state |-> mem]
  <2>1. PICK t \in Thread : TakeCopy(t)
    BY <1>3
  <2>2. new \in Copy /\ new.at = now /\ new.state = mem
    BY DEF Copy, TypeOK
  <2>3. SttPast(mem, stuck')
    BY <1>1, StaysWaiting DEF StuckInv, TypeOK
  <2>4. now > stuck' => mem.depth > WedgedQueue
    BY <1>1, <2>1 DEF TakeCopy, StuckInv
  <2>5. copy' = [copy EXCEPT ![t] = new] /\ UNCHANGED <<tmp, file, row>>
    BY <2>1 DEF TakeCopy, disk, tables
  <2>6. copy \in [Thread -> Copy \cup {None}]
    BY DEF TypeOK
  <2>. HIDE DEF new
  <2>7. Waiting(new, stuck')
    BY <2>2, <2>3, <2>4 DEF Waiting
  <2>8. \A u \in Thread : copy'[u] \in OldCopies \/ copy'[u] = new
    BY <2>5, <2>6 DEF OldCopies
  <2>. QED  BY <1>2, <2>5, <2>7, <2>8 DEF OldCopies
<1>4. CASE ~ \E t \in Thread : TakeCopy(t)
  <2>1. TypeBut
    BY DEF TypeOK, TypeBut, Truth
  <2>. QED  BY <1>2, <1>4, <2>1, CopiesMove
<1>. QED  BY <1>3, <1>4

\* A recent heartbeat shows the backlog, and nothing transcribed since it got stuck.
LEMMA StuckIsLoud ==
  ASSUME TypeOK, StuckInv
  PROVE  WedgedIsLoud
<1>. SUFFICES ASSUME now - stuck > SttWedged, Status = "ok"  PROVE FALSE
  BY DEF WedgedIsLoud
<1>. DEFINE c == Published
<1>1. ~Dead /\ ~Wedged
  BY DEF Status
<1>2. c # None /\ ~Older(c.at, HeartbeatStale)
  BY <1>1 DEF Dead
<1>3. c \in Copy /\ Waiting(c, stuck)
  BY <1>2 DEF TypeOK, StuckInv, Published, Readable, Content
<1>4. /\ c.at \in Nat /\ c.state.start \in Nat /\ c.state.stt \in Nat \cup {None}
  BY <1>3 DEF Copy, State, Stamp
<1>5. /\ now \in Nat /\ stuck \in Nat
      /\ HeartbeatStale \in Nat /\ SttWedged \in Nat /\ HeartbeatStale <= SttWedged
  BY HeartbeatAssumption DEF TypeOK
<1>6. ~(c.state.depth > WedgedQueue /\ Older(Since(c.state.stt, c.state.start), SttWedged))
  BY <1>1 DEF Wedged
<1>. HIDE DEF c
<1>7. c.at > stuck
  BY <1>2, <1>4, <1>5 DEF Older
<1>8. c.state.depth > WedgedQueue /\ SttPast(c.state, stuck)
  BY <1>3, <1>7 DEF Waiting
<1>9. Older(Since(c.state.stt, c.state.start), SttWedged)
  BY <1>4, <1>5, <1>8 DEF SttPast, Since, Older
<1>. QED  BY <1>6, <1>8, <1>9

\* However the two threads' sizes, depths and copies cross, a worker that has transcribed
\* nothing for SttWedged while a backlog was waiting is not reported ok.
THEOREM WedgedIsReported == Spec => []WedgedIsLoud
<1>1. Init => StuckInv
  <2>. SUFFICES ASSUME Init  PROVE StuckInv
    OBVIOUS
  <2>1. SttPast(mem, stuck) /\ \A c : c = None => Waiting(c, stuck)
    BY HeartbeatAssumption DEF Init, Fresh, SttPast, Waiting
  <2>2. up
    BY Zenon DEF Init
  <2>. QED  BY <2>1, <2>2 DEF Init, StuckInv
<1>2. TypeOK /\ TypeOK' /\ StuckInv /\ [Next]_vars => StuckInv'
  <2>. SUFFICES ASSUME TypeOK, TypeOK', StuckInv, [Next]_vars  PROVE StuckInv'
    OBVIOUS
  <2>1. CASE Next
    <3>1. Step /\ Watch
      BY <2>1 DEF Next
    <3>2. stuck' <= now' /\ (~up' => stuck' = now')
      BY <3>1, Watched
    <3>3. stuck' < now' => queue' > WedgedQueue
      <4>1. stuck' = now' \/ queue' > WedgedQueue
        BY <3>1, Watched
      <4>. QED  BY <4>1 DEF TypeOK
    <3>. QED  BY <3>1, <3>2, <3>3, MemStaysPast, SizesStayLarge, CopiesStayWaiting DEF StuckInv
  <2>2. CASE UNCHANGED vars
    BY <2>2 DEF vars, bounds, StuckInv
  <2>. QED  BY <2>1, <2>2
<1>3. TypeOK /\ StuckInv => WedgedIsLoud
  BY StuckIsLoud
<1>. QED  BY <1>1, <1>2, <1>3, TypeCorrect, PTL DEF Spec

-----------------------------------------------------------------------------
(* HeardIsNotDown. *)

\* A copy is at most FlushTicks old while it is written; the producer's is of after
\* the last segment, and so is the row, but for what the worker may have set it back.
HeardInv ==
  /\ truth.heard # None => truth.heard <= now
  /\ \A t \in Thread : pc[t] \in Writing => copy[t].at <= now /\ now <= copy[t].at + FlushTicks
  /\ faults = 0 /\ truth.heard # None =>
       /\ pc["producer"] \in Writing => copy["producer"].at >= truth.heard
       /\ pc["producer"] = "ready" /\ row # None => row.at + FlushTicks >= truth.heard

LEMMA CopiesHaveTimes ==
  ASSUME TypeOK, NEW t \in Thread, pc[t] \in Writing
  PROVE  copy[t] \in Copy /\ copy[t].at \in Nat
BY DEF TypeOK, Copy

\* Calls that neither hear, copy, write nor fail.
LEMMA CallsKeepHeard ==
  ASSUME TypeOK, HeardInv,
         \/ GetSegment \/ SttFails \/ SttOk \/ Handle
         \/ \E t \in Thread : \/ ReadSize(t) \/ SetDepth(t) \/ OpenTmp(t) \/ WriteTmp(t) \/ Replace(t)
  PROVE  HeardInv'
<1>1. UNCHANGED <<now, faults, copy, row, truth>>
  BY DEF GetSegment, SttFails, SttOk, Handle, Idle, bounds, ReadSize, SetDepth, OpenTmp, WriteTmp,
         Replace, Flushing, tables
<1>2. \A t \in Thread : pc'[t] \in Writing => pc[t] \in Writing
  BY DEF GetSegment, SttFails, SttOk, Handle, ReadSize, SetDepth, OpenTmp, WriteTmp, Replace, Goto,
         TypeOK, Writing
<1>3. pc'["producer"] = "ready" => pc["producer"] = "ready"
  BY DEF GetSegment, SttFails, SttOk, Handle, ReadSize, SetDepth, OpenTmp, WriteTmp, Replace, Goto,
         TypeOK
<1>. QED  BY <1>1, <1>2, <1>3 DEF HeardInv

LEMMA StepKeepsHeard ==
  ASSUME TypeOK, TypeOK', HeardInv, Step
  PROVE  HeardInv'
<1>1. /\ now \in Nat /\ faults \in Nat /\ FlushTicks \in Nat
      /\ pc \in [Thread -> Stage] /\ copy \in [Thread -> Copy \cup {None}]
      /\ truth \in Truth /\ truth.heard \in Nat \cup {None}
      /\ \A t \in Thread : pc[t] \in Writing => copy[t] \in Copy /\ copy[t].at \in Nat
  BY CopiesHaveTimes, HeartbeatAssumption DEF TypeOK, Truth, Stamp
<1>2. CASE HearRepeat \/ HearShed \/ HearNovel
  <2>1. PICK queued \in BOOLEAN : Hear(queued)
    BY <1>2 DEF HearRepeat, HearShed, HearNovel
  <2>2. /\ truth'.heard = now /\ UNCHANGED <<now, faults, copy, row>>
        /\ pc' = [pc EXCEPT !["producer"] = "size"]
    BY <1>1, <2>1 DEF Hear, Goto, Truth, tables
  <2>. QED  BY <1>1, <2>2 DEF HeardInv, Writing
<1>3. CASE \E t \in Thread : TakeCopy(t)
  <2>1. PICK t \in Thread : TakeCopy(t)
    BY <1>3
  <2>2. /\ copy' = [copy EXCEPT ![t] = [at |-> now, state |-> mem]]
        /\ pc' = [pc EXCEPT ![t] = "open"] /\ UNCHANGED <<now, faults, row, truth>>
    BY <2>1 DEF TakeCopy, Goto, bounds, tables
  <2>3. copy'[t].at = now /\ \A u \in Thread : u # t => copy'[u] = copy[u] /\ pc'[u] = pc[u]
    BY <1>1, <2>2
  <2>4. pc'[t] = "open"
    BY <1>1, <2>2
  <2>. QED  BY <1>1, <2>2, <2>3, <2>4 DEF HeardInv, Writing
<1>4. CASE \E t \in Thread : WriteRow(t)
  <2>1. PICK t \in Thread : WriteRow(t)
    BY <1>4
  <2>2. /\ row' = copy[t] /\ pc[t] = "row" /\ UNCHANGED <<now, faults, truth>>
        /\ copy' = [copy EXCEPT ![t] = None]
    BY <2>1 DEF WriteRow, Return, Flushing, bounds
  <2>3. \A u \in Thread : pc'[u] \in Writing => u # t /\ pc[u] = pc'[u]
    BY <1>1, <2>1 DEF WriteRow, Return, Goto, Writing
  <2>4. copy[t] \in Copy /\ copy[t].at \in Nat /\ copy[t] # None
        /\ copy[t].at <= now /\ now <= copy[t].at + FlushTicks
    BY <1>1, <2>2, HeartbeatAssumption DEF HeardInv, Writing
  <2>5. truth.heard # None => copy[t].at + FlushTicks >= truth.heard
    BY <1>1, <2>4 DEF HeardInv
  <2>6. \A u \in Thread : pc'[u] \in Writing => copy'[u] = copy[u]
    BY <1>1, <2>2, <2>3
  <2>. QED  BY <2>2, <2>3, <2>4, <2>5, <2>6 DEF HeardInv
<1>5. CASE Dies \/ \E t \in Thread : FileFails(t) \/ RowFails(t)
  <2>1. faults' = faults + 1 /\ UNCHANGED <<now, truth>>
    BY <1>5 DEF Dies, FileFails, RowFails, Failing
  <2>2. \A u \in Thread : pc'[u] \in Writing => pc[u] \in Writing /\ copy'[u] = copy[u]
    BY <1>1, <1>5 DEF Dies, FileFails, RowFails, Return, Goto, Writing
  <2>3. faults' # 0
    BY <1>1, <2>1
  <2>. QED  BY <2>1, <2>2, <2>3 DEF HeardInv
<1>6. CASE Restart
  <2>1. /\ UNCHANGED <<now, faults, copy, row>> /\ truth'.heard = truth.heard
        /\ \A t \in Thread : pc'[t] \notin Writing \cup {"ready"}
    BY <1>1, <1>6 DEF Restart, bounds, tables, Truth, Writing
  <2>. QED  BY <2>1 DEF HeardInv
<1>7. CASE Tick
  <2>1. /\ now' = now + 1 /\ UNCHANGED <<faults, pc, copy, row>> /\ truth'.heard = truth.heard
        /\ \A t \in Thread : pc[t] \in Writing => now < copy[t].at + FlushTicks
    BY <1>1, <1>7 DEF Tick, Punctual, tables, Truth
  <2>. QED  BY <1>1, <2>1 DEF HeardInv
<1>8. CASE Rebuild
  <2>1. /\ UNCHANGED <<now, faults, pc, copy>> /\ truth'.heard = truth.heard
        /\ row' = row \/ row' = None
    BY <1>1, <1>8 DEF Rebuild, Truncate, ReplayRecord, Elsewhere, Truth
  <2>. QED  BY <2>1 DEF HeardInv
<1>. QED  BY <1>2, <1>3, <1>4, <1>5, <1>6, <1>7, <1>8, CallsKeepHeard DEF Step, Flush

\* Once the producer has flushed what it heard there is a row, unless the tables were
\* truncated since.
RowInv ==
  faults = 0 /\ truth.heard # None /\ pc["producer"] = "ready" /\ row = None => truth.swept

LEMMA StepKeepsRow ==
  ASSUME TypeOK, TypeOK', RowInv, Step
  PROVE  RowInv'
<1>. SUFFICES ASSUME faults' = 0, truth'.heard # None, pc'["producer"] = "ready", row' = None
              PROVE  truth'.swept
  BY Zenon DEF RowInv
<1>1. /\ faults \in Nat /\ pc \in [Thread -> Stage]
      /\ copy \in [Thread -> Copy \cup {None}] /\ truth \in Truth
  BY DEF TypeOK, Truth
<1>2. CASE Truncate
  <2>1. truth' = [truth EXCEPT !.swept = TRUE]
    BY <1>2 DEF Truncate
  <2>. QED  BY <1>1, <2>1, Zenon DEF Truth
<1>3. CASE \/ GetSegment \/ SttFails \/ SttOk \/ Handle \/ ReplayRecord
          \/ \E t \in Thread : \/ ReadSize(t) \/ SetDepth(t) \/ TakeCopy(t)
                              \/ OpenTmp(t) \/ WriteTmp(t) \/ Replace(t)
  <2>1. faults = 0 /\ row = None /\ UNCHANGED truth
    BY <1>3 DEF GetSegment, SttFails, SttOk, Handle, Idle, bounds, ReplayRecord, Elsewhere, ReadSize,
                SetDepth, TakeCopy, OpenTmp, WriteTmp, Replace, Flushing, tables
  <2>2. pc["producer"] = "ready"
    BY <1>1, <1>3 DEF GetSegment, SttFails, SttOk, Handle, ReplayRecord, Elsewhere, ReadSize, SetDepth,
                      TakeCopy, OpenTmp, WriteTmp, Replace, Goto
  <2>. QED  BY <2>1, <2>2, Zenon DEF RowInv
<1>4. CASE Tick
  <2>1. truth'.heard = truth.heard /\ faults = 0 /\ row = None /\ pc["producer"] = "ready"
    BY <1>1, <1>4 DEF Tick, tables, Truth
  <2>2. truth'.swept = truth.swept
    BY <1>1, <1>4, Zenon DEF Tick, Truth
  <2>. QED  BY <2>1, <2>2, Zenon DEF RowInv
<1>5. CASE HearRepeat \/ HearShed \/ HearNovel \/ Dies \/ Restart
  <2>1. pc'["producer"] # "ready"
    BY <1>1, <1>5 DEF HearRepeat, HearShed, HearNovel, Hear, Goto, Dies, Restart
  <2>. QED  BY <2>1
<1>6. CASE \E t \in Thread : WriteRow(t) \/ FileFails(t) \/ RowFails(t)
  <2>1. PICK t \in Thread : WriteRow(t) \/ FileFails(t) \/ RowFails(t)
    BY <1>6
  <2>2. CASE WriteRow(t)
    <3>1. copy[t] \in Copy /\ row' = copy[t]
      BY <2>2, CopiesHaveTimes DEF WriteRow, Writing
    <3>. QED  BY <3>1, HeartbeatAssumption
  <2>3. CASE FileFails(t) \/ RowFails(t)
    <3>1. faults' = faults + 1
      BY <2>3 DEF FileFails, RowFails, Failing
    <3>. QED  BY <1>1, <3>1
  <2>. QED  BY <2>1, <2>2, <2>3
<1>. QED  BY <1>2, <1>3, <1>4, <1>5, <1>6 DEF Step, Flush, Rebuild

\* While nothing fails, the copy the worker writes late sets the published heartbeat back
\* by the time of a flush at most: a service that has just been heard is called down only
\* when a rebuild has truncated the table since, and until the next flush.
THEOREM HeardIsNotCalledDown == Spec => []HeardIsNotDown
<1>1. Init => HeardInv /\ RowInv
  BY DEF Init, HeardInv, RowInv, Writing
<1>2. TypeOK /\ TypeOK' /\ HeardInv /\ RowInv /\ [Next]_vars => HeardInv' /\ RowInv'
  <2>1. ASSUME HeardInv, UNCHANGED vars PROVE HeardInv'
    BY <2>1 DEF vars, bounds, HeardInv
  <2>2. ASSUME RowInv, UNCHANGED vars PROVE RowInv'
    BY <2>2, Zenon DEF vars, bounds, RowInv
  <2>. QED  BY <2>1, <2>2, StepKeepsHeard, StepKeepsRow DEF Next
<1>3. TypeOK /\ HeardInv /\ RowInv => HeardIsNotDown
  <2>. SUFFICES ASSUME TypeOK, HeardInv, RowInv, faults = 0, pc["producer"] = "ready",
                       truth.heard # None, truth.swept => row # None
                PROVE  now - truth.heard + FlushTicks <= HeartbeatStale => Status # "down"
    BY Zenon DEF HeardIsNotDown
  <2>0. row # None
    BY Zenon DEF RowInv
  <2>. SUFFICES ASSUME now - truth.heard + FlushTicks <= HeartbeatStale  PROVE ~Dead
    BY DEF Status
  <2>1. row.at + FlushTicks >= truth.heard
    BY <2>0 DEF HeardInv
  <2>2. row \in Copy
    BY <2>0 DEF TypeOK
  <2>3. /\ row.at \in Nat /\ now \in Nat /\ truth.heard \in Nat
        /\ FlushTicks \in Nat /\ HeartbeatStale \in Nat
    BY <2>2, HeartbeatAssumption DEF TypeOK, Copy, Stamp
  <2>4. row.at # None
    BY <2>3, HeartbeatAssumption
  <2>5. now - row.at <= HeartbeatStale
    BY <2>1, <2>3
  <2>. QED  BY <2>0, <2>1, <2>3, <2>4, <2>5 DEF Dead, Published, Older
<1>. QED  BY <1>1, <1>2, <1>3, TypeCorrect, PTL DEF Spec

=============================================================================
