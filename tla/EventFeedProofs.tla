--------------------------- MODULE EventFeedProofs ---------------------------
(***************************************************************************)
(* Proofs about EventFeed, for any number of writers, readers, sessions    *)
(* and events, and for any limit and capacity.                             *)
(***************************************************************************)
EXTENDS EventFeed, FiniteSetTheorems, SequenceTheorems, TLAPS

\* A connection that has inserted holds an id that was handed out.
Inserted == \A w \in Writers : writers[w].pc # "idle" => writers[w].id \in 1 .. clock

\* Of one reader: what its cursor passed it was handed, or it was late.
Passed(r) ==
    \A i \in committed \ readers[r].late :
        i <= readers[r].cursor /\ Shown(r, i) => i \in readers[r].seen

\* What it was handed is behind its cursor.
Handed(r) ==
    \A i \in readers[r].seen : i \in committed /\ i <= readers[r].cursor /\ Shown(r, i)

\* Once a narrowed poll found nothing, what it might be shown committed since.
Covered(r) ==
    /\ readers[r].pc = "mark" => r \in Narrowed
    /\ r \in Narrowed /\ readers[r].pc \in {"empty", "parked", "mark"} =>
         Fresh(r) \subseteq readers[r].late

\* A poll that found nothing, and could find something now, will hear of it.
Hinted(r) ==
    readers[r].pc \in {"empty", "parked"} /\ Fresh(r) # {} /\ ~missed =>
        \/ readers[r].rx # <<>> \/ readers[r].lagged \/ channel # <<>>
        \/ \E w \in Writers : writers[w].pc = "notify"

Inv == /\ TypeOK /\ Inserted
       /\ \A r \in Readers : Passed(r) /\ Handed(r) /\ Covered(r) /\ Hinted(r)

-----------------------------------------------------------------------------
(* Typing                                                                  *)

\* The window of a query is closed downwards within what it was taken from.
LEMMA FirstOfIs ==
  ASSUME NEW n \in Nat, NEW S \in SUBSET (1 .. n), NEW m \in FirstOf(S),
         NEW i \in S, i <= m
  PROVE  i \in FirstOf(S)
  <1> DEFINE A == {j \in S : j <= i}
             B == {j \in S : j <= m}
  <1>0. m \in S /\ Cardinality(B) <= Limit
    BY DEF FirstOf
  <1>1. A \subseteq B
    <2> SUFFICES ASSUME NEW j \in S, j <= i  PROVE j <= m
      OBVIOUS
    <2>1. j \in Int /\ i \in Int /\ m \in Int
      BY <1>0
    <2> QED  BY <2>1
  <1>2. IsFiniteSet(B)
    <2>1. IsFiniteSet(1 .. n)
      BY FS_Interval
    <2>2. B \subseteq 1 .. n
      OBVIOUS
    <2> QED  BY <2>1, <2>2, FS_Subset
  <1>3. Cardinality(A) <= Cardinality(B) /\ Cardinality(A) \in Nat /\ Cardinality(B) \in Nat
    BY <1>1, <1>2, FS_Subset, FS_CardinalityType
  <1>4. Cardinality(A) <= Limit
    BY <1>0, <1>3, FeedAssumption
  <1> QED  BY <1>4 DEF FirstOf

LEMMA FirstOfWithin ==
  ASSUME NEW S  PROVE FirstOf(S) \subseteq S
  BY DEF FirstOf

\* A poll put in a reader's place changes no other reader.
LEMMA PutIs ==
  ASSUME TypeOK, NEW r \in Readers, NEW rec \in Polls, Put(r, rec)
  PROVE  /\ readers' \in [Readers -> Polls]
         /\ readers'[r] = rec
         /\ \A q \in Readers : q # r => readers'[q] = readers[q]
  BY DEF TypeOK, Put

\* The polls the actions put back, field by field.
LEMMA RestIs ==
  ASSUME TypeOK, NEW r \in Readers
  PROVE  /\ Rest(r) \in Polls
         /\ Rest(r).pc = "idle" /\ Rest(r).rx = <<>> /\ Rest(r).lagged = FALSE
         /\ Rest(r).cursor = readers[r].cursor
         /\ Rest(r).seen = readers[r].seen /\ Rest(r).late = readers[r].late
  <1>1. readers[r] \in Polls /\ <<>> \in Seq(Sessions)
    BY DEF TypeOK
  <1> QED  BY <1>1 DEF Rest, Polls

LEMMA LookIs ==
  ASSUME NEW poll \in Polls
  PROVE  /\ Look(poll) \in Polls
         /\ Look(poll).pc = "query" /\ Look(poll).rx = poll.rx
         /\ Look(poll).cursor = poll.cursor /\ Look(poll).seen = poll.seen
         /\ Look(poll).late = {i \in poll.late : i <= poll.cursor}
  BY DEF Look, Polls

\* What Store does to a reader.
LEMMA StoreIs ==
  ASSUME TypeOK, NEW i \in 1 .. clock, Store(i)
  PROVE  /\ committed' \subseteq 1 .. clock /\ committed' = committed \cup {i}
         /\ readers' \in [Readers -> Polls]
         /\ \A r \in Readers :
              /\ readers'[r].pc = readers[r].pc /\ readers'[r].cursor = readers[r].cursor
              /\ readers'[r].rx = readers[r].rx /\ readers'[r].lagged = readers[r].lagged
              /\ readers'[r].seen = readers[r].seen
              /\ readers'[r].late = readers[r].late \cup (IF Behind(r, i) THEN {i} ELSE {})
  <1>1. i \in Ids
    BY FeedAssumption DEF TypeOK, Ids
  <1>2. ASSUME NEW r \in Readers
        PROVE  /\ readers'[r] \in Polls
               /\ readers'[r].pc = readers[r].pc /\ readers'[r].cursor = readers[r].cursor
               /\ readers'[r].rx = readers[r].rx /\ readers'[r].lagged = readers[r].lagged
               /\ readers'[r].seen = readers[r].seen
               /\ readers'[r].late = readers[r].late \cup (IF Behind(r, i) THEN {i} ELSE {})
    <2>1. readers[r] \in Polls
      BY DEF TypeOK
    <2>2. CASE Behind(r, i)
      <3>1. readers'[r] = [readers[r] EXCEPT !.late = @ \cup {i}]
        BY <2>2 DEF Store
      <3> QED  BY <1>1, <2>1, <2>2, <3>1 DEF Polls
    <2>3. CASE ~Behind(r, i)
      <3>1. readers'[r] = readers[r]
        BY <2>3 DEF Store
      <3> QED  BY <2>1, <2>3, <3>1 DEF Polls
    <2> QED  BY <2>2, <2>3
  <1>3. readers' \in [Readers -> Polls]
    BY <1>2 DEF Store
  <1> QED  BY <1>2, <1>3 DEF Store, TypeOK

-----------------------------------------------------------------------------
(* The poll                                                                *)

Others == <<clock, about, writers, committed, channel, listening, missed, drops>>

\* A poll that keeps the invariant of its own reader keeps everybody's.
LEMMA PollFrame ==
  ASSUME Inv, NEW r \in Readers, NEW rec \in Polls, Put(r, rec), UNCHANGED Others,
         rec.cursor <= clock, Len(rec.rx) <= Cap,
         \A i \in committed \ rec.late : i <= rec.cursor /\ Shown(r, i) => i \in rec.seen,
         \A i \in rec.seen : i \in committed /\ i <= rec.cursor /\ Shown(r, i),
         rec.pc = "mark" => r \in Narrowed,
         r \in Narrowed /\ rec.pc \in {"empty", "parked", "mark"} =>
             \A i \in committed : i > rec.cursor /\ Shown(r, i) => i \in rec.late,
         rec.pc \in {"empty", "parked"} =>
             \A i \in committed : i > rec.cursor /\ Shown(r, i) /\ ~missed =>
                 \/ rec.rx # <<>> \/ rec.lagged \/ channel # <<>>
                 \/ \E w \in Writers : writers[w].pc = "notify"
  PROVE  Inv'
  <1>1. /\ readers' \in [Readers -> Polls] /\ readers'[r] = rec
        /\ \A q \in Readers : q # r => readers'[q] = readers[q]
    BY PutIs DEF Inv
  <1>2. TypeOK' /\ Inserted'
    <2>1. \A q \in Readers : readers'[q].cursor <= clock /\ Len(readers'[q].rx) <= Cap
      BY <1>1 DEF Inv, TypeOK
    <2> QED  BY <1>1, <2>1 DEF Inv, TypeOK, Inserted, Others
  <1>3. ASSUME NEW q \in Readers
        PROVE  (Passed(q) /\ Handed(q) /\ Covered(q) /\ Hinted(q))'
    <2>1. CASE q # r
      <3>1. readers'[q] = readers[q]
        BY <1>1, <2>1
      <3>2. Passed(q) /\ Handed(q) /\ Covered(q) /\ Hinted(q)
        BY DEF Inv
      <3> QED  BY <3>1, <3>2 DEF Passed, Handed, Covered, Hinted, Fresh, Shown, Others
    <2>2. CASE q = r
      BY <1>1, <2>2 DEF Passed, Handed, Covered, Hinted, Fresh, Shown, Others
    <2> QED  BY <2>1, <2>2
  <1> QED  BY <1>2, <1>3 DEF Inv

\* What a query hands out, and where it leaves the cursor.
LEMMA LastOf ==
  ASSUME TypeOK, NEW S \in SUBSET committed, NEW m \in Ids, Last(FirstOf(S), m)
  PROVE  /\ m \in S /\ m \in Nat /\ m <= clock
         /\ \A i \in FirstOf(S) : i \in S /\ i <= m
         /\ \A i \in S : i <= m => i \in FirstOf(S)
  <1>1. clock \in Nat /\ S \in SUBSET (1 .. clock)
    BY FeedAssumption DEF TypeOK
  <1>2. m \in FirstOf(S) /\ m \in S
    BY FirstOfWithin DEF Last
  <1>3. \A i \in S : i <= m => i \in FirstOf(S)
    BY <1>1, <1>2, FirstOfIs
  <1> QED  BY <1>1, <1>2, <1>3, FirstOfWithin DEF Last

\* Every step of a poll keeps the invariant.
LEMMA PollStep ==
  ASSUME Inv, NEW r \in Readers, Poll(r)  PROVE Inv'
  <1>0. /\ TypeOK /\ readers[r] \in Polls /\ readers[r].cursor <= clock
        /\ Len(readers[r].rx) <= Cap /\ UNCHANGED Others
        /\ clock \in Nat /\ readers[r].cursor \in Nat /\ Cap \in Nat
    BY FeedAssumption
    DEF Inv, TypeOK, Polls, Poll, subscribe, Query, Park, wait_for, Timeout, watermark, Others
  <1>1. Passed(r) /\ Handed(r) /\ Covered(r) /\ Hinted(r)
    BY DEF Inv
  <1>a. committed \subseteq Ids /\ Ids \subseteq Int
    <2>1. committed \subseteq 1 .. clock /\ clock \in 0 .. MaxEvents /\ MaxEvents \in Nat
      BY <1>0, FeedAssumption DEF TypeOK
    <2> QED  BY <2>1 DEF Ids
  <1> DEFINE idle == Rest(r)
  <1>2. /\ idle \in Polls
        /\ idle.pc = "idle" /\ idle.rx = <<>> /\ idle.lagged = FALSE
        /\ idle.cursor = readers[r].cursor
        /\ idle.seen = readers[r].seen /\ idle.late = readers[r].late
    BY <1>0, RestIs
  <1> HIDE DEF idle
  <1>3. Len(<<>>) <= Cap
    BY <1>0
  <1>4. CASE subscribe(r)
    <2> DEFINE rec == Look(idle)
    <2>1. /\ rec \in Polls /\ rec.pc = "query" /\ rec.rx = <<>>
          /\ rec.cursor = readers[r].cursor /\ rec.seen = readers[r].seen
          /\ rec.late = {i \in readers[r].late : i <= readers[r].cursor}
      BY <1>2, LookIs
    <2>2. Put(r, rec)
      BY <1>4 DEF subscribe, idle
    <2> HIDE DEF rec
    <2>3. \A i \in committed \ rec.late : i <= rec.cursor /\ Shown(r, i) => i \in rec.seen
      BY <1>1, <2>1 DEF Passed
    <2>4. \A i \in rec.seen : i \in committed /\ i <= rec.cursor /\ Shown(r, i)
      BY <1>1, <2>1 DEF Handed
    <2> QED  BY <1>0, <1>3, <2>1, <2>2, <2>3, <2>4, PollFrame
  <1>5. CASE Query(r)
    <2>1. CASE Fresh(r) # {}
      <3>1. PICK m \in Ids : /\ Last(since(r), m)
                             /\ Put(r, [idle EXCEPT !.cursor = m, !.seen = @ \cup since(r)])
        BY <1>5, <2>1 DEF Query, Hand, idle
      <3>2. /\ m \in Fresh(r) /\ m \in Nat /\ m <= clock
            /\ \A i \in since(r) : i \in Fresh(r) /\ i <= m
            /\ \A i \in Fresh(r) : i <= m => i \in since(r)
        <4>1. Fresh(r) \in SUBSET committed
          BY DEF Fresh
        <4> QED  BY <1>0, <3>1, <4>1, LastOf DEF since
      <3>3. since(r) \subseteq Ids
        BY <1>a, <3>2 DEF Fresh
      <3> DEFINE rec == [idle EXCEPT !.cursor = m, !.seen = @ \cup since(r)]
      <3>4. /\ rec \in Polls /\ rec.pc = "idle" /\ rec.rx = <<>> /\ rec.cursor = m
            /\ rec.seen = readers[r].seen \cup since(r) /\ rec.late = readers[r].late
        BY <1>2, <3>2, <3>3 DEF Polls
      <3>5. Put(r, rec)
        BY <3>1
      <3> HIDE DEF rec
      <3>6. m > readers[r].cursor
        BY <3>2 DEF Fresh
      <3>7. ASSUME NEW i \in committed \ rec.late, i <= rec.cursor, Shown(r, i)
            PROVE  i \in rec.seen
        <4>1. CASE i <= readers[r].cursor
          BY <1>1, <3>4, <3>7, <4>1 DEF Passed
        <4>2. CASE i > readers[r].cursor
          BY <3>2, <3>4, <3>7, <4>2 DEF Fresh
        <4>3. i \in Int
          BY <1>a
        <4> QED  BY <1>0, <4>1, <4>2, <4>3
      <3>8. ASSUME NEW i \in rec.seen
            PROVE  i \in committed /\ i <= rec.cursor /\ Shown(r, i)
        <4>1. CASE i \in since(r)
          BY <3>2, <3>4, <4>1 DEF Fresh
        <4>2. CASE i \in readers[r].seen
          <5>1. i \in committed /\ i <= readers[r].cursor /\ Shown(r, i)
            BY <1>1, <4>2 DEF Handed
          <5>2. i \in Int
            BY <1>a, <5>1
          <5> QED  BY <1>0, <3>2, <3>4, <3>6, <5>1, <5>2
        <4> QED  BY <3>4, <4>1, <4>2
      <3> QED  BY <1>0, <1>3, <3>2, <3>4, <3>5, <3>7, <3>8, PollFrame
    <2>2. CASE Fresh(r) = {}
      <3> DEFINE rec == [readers[r] EXCEPT !.pc = "empty"]
      <3>1. /\ rec \in Polls /\ rec.pc = "empty" /\ rec.rx = readers[r].rx
            /\ rec.cursor = readers[r].cursor /\ rec.seen = readers[r].seen
            /\ rec.late = readers[r].late /\ rec.lagged = readers[r].lagged
        BY <1>0 DEF Polls
      <3>2. Put(r, rec)
        BY <1>5, <2>2 DEF Query
      <3> HIDE DEF rec
      <3>3. \A i \in committed : i > rec.cursor => ~Shown(r, i)
        BY <2>2, <3>1 DEF Fresh
      <3>4. \A i \in committed \ rec.late : i <= rec.cursor /\ Shown(r, i) => i \in rec.seen
        BY <1>1, <3>1 DEF Passed
      <3>5. \A i \in rec.seen : i \in committed /\ i <= rec.cursor /\ Shown(r, i)
        BY <1>1, <3>1 DEF Handed
      <3> QED  BY <1>0, <3>1, <3>2, <3>3, <3>4, <3>5, PollFrame
    <2> QED  BY <2>1, <2>2
  <1>6. CASE Park(r)
    <2> DEFINE rec == [readers[r] EXCEPT !.pc = "parked"]
    <2>1. /\ rec \in Polls /\ rec.pc = "parked" /\ rec.rx = readers[r].rx
          /\ rec.cursor = readers[r].cursor /\ rec.seen = readers[r].seen
          /\ rec.late = readers[r].late /\ rec.lagged = readers[r].lagged
      BY <1>0 DEF Polls
    <2>2. Put(r, rec) /\ readers[r].pc = "empty"
      BY <1>6 DEF Park
    <2> HIDE DEF rec
    <2>3. \A i \in committed \ rec.late : i <= rec.cursor /\ Shown(r, i) => i \in rec.seen
      BY <1>1, <2>1 DEF Passed
    <2>4. \A i \in rec.seen : i \in committed /\ i <= rec.cursor /\ Shown(r, i)
      BY <1>1, <2>1 DEF Handed
    <2>5. r \in Narrowed => \A i \in committed : i > rec.cursor /\ Shown(r, i) => i \in rec.late
      BY <1>1, <2>1, <2>2 DEF Covered, Fresh
    <2>6. \A i \in committed : i > rec.cursor /\ Shown(r, i) /\ ~missed =>
             \/ rec.rx # <<>> \/ rec.lagged \/ channel # <<>>
             \/ \E w \in Writers : writers[w].pc = "notify"
      BY <1>1, <2>1, <2>2 DEF Hinted, Fresh
    <2> QED  BY <1>0, <2>1, <2>2, <2>3, <2>4, <2>5, <2>6, PollFrame
  <1>7. CASE wait_for(r)
    <2>1. PICK poll \in Polls : /\ Put(r, Look(poll)) /\ poll.cursor = readers[r].cursor
                                /\ poll.seen = readers[r].seen /\ poll.late = readers[r].late
                                /\ Len(poll.rx) <= Cap
      <3>1. CASE /\ readers[r].lagged
                 /\ Put(r, Look([readers[r] EXCEPT !.lagged = FALSE]))
        <4> DEFINE poll == [readers[r] EXCEPT !.lagged = FALSE]
        <4>1. /\ poll \in Polls /\ poll.cursor = readers[r].cursor /\ poll.seen = readers[r].seen
              /\ poll.late = readers[r].late /\ Len(poll.rx) <= Cap
          BY <1>0 DEF Polls
        <4> QED  BY <3>1, <4>1
      <3>2. CASE /\ ~readers[r].lagged /\ readers[r].rx # <<>>
                 /\ Put(r, Look([readers[r] EXCEPT !.rx = Tail(@)]))
        <4> DEFINE poll == [readers[r] EXCEPT !.rx = Tail(@)]
        <4>0. /\ readers[r].rx \in Seq(Sessions) /\ Tail(readers[r].rx) \in Seq(Sessions)
              /\ Len(Tail(readers[r].rx)) <= Cap
          <5>1. readers[r].rx \in Seq(Sessions) /\ readers[r].rx # <<>>
            BY <1>0, <3>2 DEF Polls
          <5>2. Tail(readers[r].rx) \in Seq(Sessions)
            BY <5>1
          <5>3. Len(Tail(readers[r].rx)) = Len(readers[r].rx) - 1 /\ Len(readers[r].rx) \in Nat
            BY <5>1
          <5> QED  BY <1>0, <5>1, <5>2, <5>3
        <4>1. /\ poll \in Polls /\ poll.cursor = readers[r].cursor /\ poll.seen = readers[r].seen
              /\ poll.late = readers[r].late /\ poll.rx = Tail(readers[r].rx)
          BY <1>0, <4>0 DEF Polls
        <4> QED  BY <3>2, <4>0, <4>1
      <3> QED  BY <1>7, <3>1, <3>2 DEF wait_for
    <2> DEFINE rec == Look(poll)
    <2>2. /\ rec \in Polls /\ rec.pc = "query" /\ rec.rx = poll.rx
          /\ rec.cursor = readers[r].cursor /\ rec.seen = readers[r].seen
          /\ rec.late = {i \in readers[r].late : i <= readers[r].cursor}
      BY <2>1, LookIs
    <2>3. Put(r, rec)
      BY <2>1
    <2> HIDE DEF rec
    <2>4. \A i \in committed \ rec.late : i <= rec.cursor /\ Shown(r, i) => i \in rec.seen
      BY <1>1, <2>2 DEF Passed
    <2>5. \A i \in rec.seen : i \in committed /\ i <= rec.cursor /\ Shown(r, i)
      BY <1>1, <2>2 DEF Handed
    <2> QED  BY <1>0, <2>1, <2>2, <2>3, <2>4, <2>5, PollFrame
  <1>8. CASE Timeout(r)
    <2>1. PICK rec \in Polls :
             /\ Put(r, rec) /\ rec.pc \in {"idle", "mark"} /\ rec.rx = <<>>
             /\ rec.pc = "mark" => r \in Narrowed
             /\ rec.cursor = readers[r].cursor
             /\ rec.seen = readers[r].seen /\ rec.late = readers[r].late
      <3> DEFINE mark == [idle EXCEPT !.pc = "mark"]
      <3>1. /\ mark \in Polls /\ mark.pc = "mark" /\ mark.rx = <<>>
            /\ mark.cursor = readers[r].cursor
            /\ mark.seen = readers[r].seen /\ mark.late = readers[r].late
        BY <1>2 DEF Polls
      <3>2. Put(r, idle) \/ (r \in Narrowed /\ Put(r, mark))
        BY <1>8 DEF Timeout, idle
      <3> QED  BY <1>2, <3>1, <3>2
    <2>2. \A i \in committed \ rec.late : i <= rec.cursor /\ Shown(r, i) => i \in rec.seen
      BY <1>1, <2>1 DEF Passed
    <2>3. \A i \in rec.seen : i \in committed /\ i <= rec.cursor /\ Shown(r, i)
      BY <1>1, <2>1 DEF Handed
    <2>4. readers[r].pc = "parked"
      BY <1>8 DEF Timeout
    <2>5. r \in Narrowed => \A i \in committed : i > rec.cursor /\ Shown(r, i) => i \in rec.late
      BY <1>1, <2>1, <2>4 DEF Covered, Fresh
    <2> QED  BY <1>0, <1>3, <2>1, <2>2, <2>3, <2>5, PollFrame
  <1>9. CASE watermark(r)
    <2> DEFINE newer == {i \in committed : i > readers[r].cursor}
    <2>1. readers[r].pc = "mark"
      BY <1>9 DEF watermark
    <2>2. CASE Put(r, idle)
      <3>1. \A i \in committed \ idle.late : i <= idle.cursor /\ Shown(r, i) => i \in idle.seen
        BY <1>1, <1>2 DEF Passed
      <3>2. \A i \in idle.seen : i \in committed /\ i <= idle.cursor /\ Shown(r, i)
        BY <1>1, <1>2 DEF Handed
      <3> QED  BY <1>0, <1>2, <1>3, <2>2, <3>1, <3>2, PollFrame
    <2>3. CASE \E m \in Ids : Last(FirstOf(newer), m) /\ Put(r, [idle EXCEPT !.cursor = m])
      <3>1. PICK m \in Ids : Last(FirstOf(newer), m) /\ Put(r, [idle EXCEPT !.cursor = m])
        BY <2>3
      <3>2. m \in newer /\ m \in Nat /\ m <= clock
        BY <1>0, <3>1, LastOf
      <3> DEFINE rec == [idle EXCEPT !.cursor = m]
      <3>3. /\ rec \in Polls /\ rec.pc = "idle" /\ rec.rx = <<>> /\ rec.cursor = m
            /\ rec.seen = readers[r].seen /\ rec.late = readers[r].late
        BY <1>2, <3>2 DEF Polls
      <3>4. Put(r, rec)
        BY <3>1
      <3> HIDE DEF rec
      <3>5. m > readers[r].cursor
        BY <3>2
      <3>6. r \in Narrowed
        BY <1>1, <2>1 DEF Covered
      <3>7. ASSUME NEW i \in committed \ rec.late, i <= rec.cursor, Shown(r, i)
            PROVE  i \in rec.seen
        <4>1. CASE i <= readers[r].cursor
          BY <1>1, <3>3, <3>7, <4>1 DEF Passed
        <4>2. CASE i > readers[r].cursor
          BY <1>1, <2>1, <3>3, <3>6, <3>7, <4>2 DEF Covered, Fresh
        <4>3. i \in Int
          BY <1>a
        <4> QED  BY <1>0, <4>1, <4>2, <4>3
      <3>8. ASSUME NEW i \in rec.seen
            PROVE  i \in committed /\ i <= rec.cursor /\ Shown(r, i)
        <4>1. i \in committed /\ i <= readers[r].cursor /\ Shown(r, i)
          BY <1>1, <3>3 DEF Handed
        <4>2. i \in Int
          BY <1>a, <4>1
        <4> QED  BY <1>0, <3>2, <3>3, <3>5, <4>1, <4>2
      <3> QED  BY <1>0, <1>3, <3>2, <3>3, <3>4, <3>7, <3>8, PollFrame
    <2> QED  BY <1>9, <2>2, <2>3 DEF watermark, idle
  <1> QED  BY <1>4, <1>5, <1>6, <1>7, <1>8, <1>9 DEF Poll

-----------------------------------------------------------------------------
(* The writers and the bus                                                 *)

\* A writer's step keeps the invariant: what it makes readable is above every
\* cursor or late, and is announced.
LEMMA WriteStep ==
  ASSUME Inv, NEW w \in Writers, Write(w)  PROVE Inv'
  <1>0. /\ TypeOK /\ Inserted /\ clock \in Nat /\ clock <= MaxEvents /\ MaxEvents \in Nat
        /\ committed \subseteq 1 .. clock
        /\ writers[w].pc \in {"idle", "inserted", "notify"} /\ writers[w].id \in 0 .. MaxEvents
    BY FeedAssumption DEF Inv, TypeOK
  <1>1. ASSUME NEW r \in Readers  PROVE Passed(r) /\ Handed(r) /\ Covered(r) /\ Hinted(r)
    BY DEF Inv
  <1>2. CASE append_on(w)
    <2>1. clock' = clock + 1 /\ clock < MaxEvents /\ UNCHANGED <<committed, channel, missed, readers>>
      BY <1>2 DEF append_on
    <2>2. \A i \in committed : about'[i] = about[i]
      <3>1. PICK s \in Sessions : about' = [about EXCEPT ![clock + 1] = s]
        BY <1>2 DEF append_on
      <3>2. ASSUME NEW i \in committed  PROVE i # clock + 1 /\ i \in Ids
        <4>1. i \in 1 .. clock
          BY <1>0
        <4>2. i \in Int /\ 1 <= i /\ i <= clock
          BY <1>0, <4>1
        <4>3. 1 <= i /\ i <= MaxEvents /\ i # clock + 1
          BY <1>0, <4>2
        <4> QED  BY <1>0, <4>2, <4>3 DEF Ids
      <3> QED  BY <1>0, <3>1, <3>2 DEF TypeOK
    <2>3. TypeOK'
      <3>1. about' \in [Ids -> Sessions]
        BY <1>0, <1>2 DEF append_on, TypeOK
      <3>2. writers' \in [Writers -> [pc : {"idle", "inserted", "notify"}, id : 0 .. MaxEvents]]
        BY <1>0, <1>2, <2>1 DEF append_on, TypeOK
      <3>3. clock' \in 0 .. MaxEvents /\ committed' \subseteq 1 .. clock'
        BY <1>0, <2>1
      <3>4. \A r \in Readers : readers[r].cursor <= clock'
        BY <1>0, <2>1 DEF TypeOK, Polls
      <3> QED  BY <1>0, <1>2, <3>1, <3>2, <3>3, <3>4 DEF append_on, TypeOK
    <2>4. Inserted'
      <3> SUFFICES ASSUME NEW v \in Writers, writers'[v].pc # "idle"
                   PROVE  writers'[v].id \in 1 .. clock'
        BY DEF Inserted
      <3>1. CASE v = w
        BY <1>0, <1>2, <2>1, <3>1 DEF append_on, TypeOK
      <3>2. CASE v # w
        <4>1. writers'[v] = writers[v]
          BY <1>0, <1>2, <3>2 DEF append_on, TypeOK
        <4> QED  BY <1>0, <2>1, <4>1 DEF Inserted
      <3> QED  BY <3>1, <3>2
    <2>5. \A v \in Writers : writers[v].pc = "notify" => writers'[v].pc = "notify"
      BY <1>0, <1>2 DEF append_on, TypeOK
    <2>6. ASSUME NEW r \in Readers
          PROVE  (Passed(r) /\ Handed(r) /\ Covered(r) /\ Hinted(r))'
      <3>1. \A i \in committed : Shown(r, i)' <=> Shown(r, i)
        BY <2>2 DEF Shown
      <3>2. Fresh(r)' = Fresh(r)
        BY <2>1, <3>1 DEF Fresh
      <3>3. Passed(r)' /\ Handed(r)'
        BY <1>1, <2>1, <3>1 DEF Passed, Handed
      <3>4. Covered(r)' /\ Hinted(r)'
        BY <1>1, <2>1, <2>5, <3>2 DEF Covered, Hinted
      <3> QED  BY <3>3, <3>4
    <2> QED  BY <2>3, <2>4, <2>6 DEF Inv
  <1>3. CASE Commit(w) \/ append(w)
    <2> DEFINE i == writers[w].id
    <2>1. i \in 1 .. clock /\ Store(i) /\ UNCHANGED <<clock, about, listening, drops>>
      BY <1>0, <1>3 DEF Commit, append, Inserted
    <2>2. /\ committed' \subseteq 1 .. clock /\ committed' = committed \cup {i}
          /\ readers' \in [Readers -> Polls]
      BY <1>0, <2>1, StoreIs
    <2>3. ASSUME NEW r \in Readers
          PROVE  /\ readers'[r].pc = readers[r].pc /\ readers'[r].cursor = readers[r].cursor
                 /\ readers'[r].rx = readers[r].rx /\ readers'[r].lagged = readers[r].lagged
                 /\ readers'[r].seen = readers[r].seen
                 /\ readers'[r].late = readers[r].late \cup (IF Behind(r, i) THEN {i} ELSE {})
      BY <1>0, <2>1, StoreIs
    <2>4. /\ writers' \in [Writers -> [pc : {"idle", "inserted", "notify"}, id : 0 .. MaxEvents]]
          /\ \A v \in Writers : v # w => writers'[v] = writers[v]
          /\ writers'[w].pc # "idle" => writers'[w].id = i
      <3>1. CASE Commit(w)
        BY <1>0, <3>1 DEF Commit, TypeOK
      <3>2. CASE append(w)
        BY <1>0, <3>2 DEF append, TypeOK
      <3> QED  BY <1>3, <3>1, <3>2
    <2>5. channel' \in Seq(Sessions) /\ missed' \in BOOLEAN
      <3>1. about[i] \in Sessions
        BY <1>0, <2>1 DEF TypeOK, Ids
      <3>2. Append(channel, about[i]) \in Seq(Sessions) /\ channel \in Seq(Sessions)
        BY <1>0, <3>1 DEF TypeOK
      <3>3. missed \in BOOLEAN
        BY <1>0 DEF TypeOK
      <3> QED  BY <1>3, <3>2, <3>3 DEF Commit, append, Notify
    <2>6. missed' \/ channel' # <<>> \/ \E v \in Writers : writers'[v].pc = "notify"
      <3>1. channel \in Seq(Sessions)
        BY <1>0 DEF TypeOK
      <3>2. CASE Commit(w)
        <4>1. Append(channel, about[i]) # <<>>
          BY <3>1
        <4> QED  BY <3>2, <4>1 DEF Commit, Notify
      <3>3. CASE append(w)
        BY <1>0, <3>3 DEF append, TypeOK
      <3> QED  BY <1>3, <3>2, <3>3
    <2> HIDE DEF i
    <2>7. TypeOK'
      <3>1. \A r \in Readers : readers'[r].cursor <= clock /\ Len(readers'[r].rx) <= Cap
        BY <1>0, <2>3 DEF TypeOK
      <3> QED  BY <1>0, <2>1, <2>2, <2>4, <2>5, <3>1 DEF TypeOK
    <2>8. Inserted'
      BY <1>0, <2>1, <2>4 DEF Inserted
    <2>9. ASSUME NEW r \in Readers
          PROVE  (Passed(r) /\ Handed(r) /\ Covered(r) /\ Hinted(r))'
      <3>1. \A j : Shown(r, j)' <=> Shown(r, j)
        BY <2>1 DEF Shown
      <3>2. Behind(r, i) => i \in readers'[r].late
        BY <2>3
      <3>3. readers[r].late \subseteq readers'[r].late
        BY <2>3
      <3>4. Passed(r)'
        <4> SUFFICES ASSUME NEW j \in committed' \ readers'[r].late,
                            j <= readers'[r].cursor, Shown(r, j)'
                     PROVE  j \in readers'[r].seen
          BY DEF Passed
        <4>1. CASE j = i
          BY <2>3, <3>2, <4>1 DEF Behind
        <4>2. CASE j \in committed
          BY <1>1, <2>3, <3>1, <3>3, <4>2 DEF Passed
        <4> QED  BY <2>2, <4>1, <4>2
      <3>5. Handed(r)'
        BY <1>1, <2>2, <2>3, <3>1 DEF Handed
      <3>6. Covered(r)'
        <4>1. readers'[r].pc = "mark" => r \in Narrowed
          BY <1>1, <2>3 DEF Covered
        <4>2. ASSUME r \in Narrowed, readers'[r].pc \in {"empty", "parked", "mark"},
                     NEW j \in Fresh(r)'
              PROVE  j \in readers'[r].late
          <5>1. j \in committed' /\ j > readers[r].cursor /\ Shown(r, j)
            BY <2>3, <3>1, <4>2 DEF Fresh
          <5>2. CASE j = i
            BY <2>3, <3>2, <4>2, <5>2 DEF Behind
          <5>3. CASE j \in committed
            BY <1>1, <2>3, <3>3, <4>2, <5>1, <5>3 DEF Covered, Fresh
          <5> QED  BY <2>2, <5>1, <5>2, <5>3
        <4> QED  BY <4>1, <4>2 DEF Covered
      <3>7. Hinted(r)'
        BY <2>6 DEF Hinted
      <3> QED  BY <3>4, <3>5, <3>6, <3>7
    <2> QED  BY <2>7, <2>8, <2>9 DEF Inv
  <1>4. CASE PgNotify(w) \/ Rollback(w)
    <2>1. UNCHANGED <<clock, about, committed, listening, drops, readers>>
      BY <1>4 DEF PgNotify, Rollback
    <2>2. /\ writers' \in [Writers -> [pc : {"idle", "inserted", "notify"}, id : 0 .. MaxEvents]]
          /\ \A v \in Writers : v # w => writers'[v] = writers[v]
          /\ writers'[w].pc = "idle"
      <3>1. writers' = [writers EXCEPT ![w] = [pc |-> "idle", id |-> 0]]
        BY <1>4 DEF PgNotify, Rollback
      <3> QED  BY <1>0, <3>1 DEF TypeOK
    <2>3. channel' \in Seq(Sessions) /\ missed' \in BOOLEAN
      <3>1. writers[w].pc = "notify" => about[writers[w].id] \in Sessions
        BY <1>0 DEF TypeOK, Ids, Inserted
      <3>2. channel \in Seq(Sessions) /\ missed \in BOOLEAN
        BY <1>0 DEF TypeOK
      <3>3. writers[w].pc = "notify" => Append(channel, about[writers[w].id]) \in Seq(Sessions)
        BY <3>1, <3>2
      <3> QED  BY <1>4, <3>2, <3>3 DEF PgNotify, Rollback, Notify
    <2>4. \/ missed' \/ channel' # <<>>
          \/ writers[w].pc # "notify" /\ UNCHANGED <<channel, missed>>
      <3>1. channel \in Seq(Sessions)
        BY <1>0 DEF TypeOK
      <3>2. Append(channel, about[writers[w].id]) # <<>>
        BY <3>1
      <3> QED  BY <1>4, <3>2 DEF PgNotify, Rollback, Notify
    <2>5. TypeOK' /\ Inserted'
      BY <1>0, <2>1, <2>2, <2>3 DEF TypeOK, Inserted
    <2>6. ASSUME NEW r \in Readers
          PROVE  (Passed(r) /\ Handed(r) /\ Covered(r) /\ Hinted(r))'
      <3>1. Passed(r)' /\ Handed(r)' /\ Covered(r)' /\ Fresh(r)' = Fresh(r)
        BY <1>1, <2>1 DEF Passed, Handed, Covered, Fresh, Shown
      <3>2. Hinted(r)'
        BY <1>1, <2>1, <2>2, <2>4, <3>1 DEF Hinted
      <3> QED  BY <3>1, <3>2
    <2> QED  BY <2>5, <2>6 DEF Inv
  <1> QED  BY <1>2, <1>3, <1>4 DEF Write

\* The listener's connection, and the broadcast to every subscriber: a hint
\* taken off the channel is one in the hands of whoever waits for it.
LEMMA BusStep ==
  ASSUME Inv, Listen \/ Drop \/ listen_loop  PROVE Inv'
  <1>0. /\ TypeOK /\ Inserted /\ channel \in Seq(Sessions) /\ missed \in BOOLEAN
        /\ UNCHANGED <<clock, about, writers, committed>> /\ Cap \in Nat \ {0}
    BY FeedAssumption DEF Inv, TypeOK, Listen, Drop, listen_loop
  <1>1. ASSUME NEW r \in Readers  PROVE Passed(r) /\ Handed(r) /\ Covered(r) /\ Hinted(r)
    BY DEF Inv
  <1>2. CASE Listen \/ Drop
    <2>1. UNCHANGED readers /\ channel' \in Seq(Sessions)
      <3>1. <<>> \in Seq(Sessions)
        OBVIOUS
      <3> QED  BY <1>0, <1>2, <3>1 DEF Listen, Drop
    <2>2. /\ missed' \in BOOLEAN
          /\ missed' = TRUE \/ (missed' = missed /\ channel' = channel)
      <3>1. CASE Listen
        BY <1>0, <3>1 DEF Listen
      <3>2. CASE Drop /\ channel = <<>>
        <4>1. missed' = (missed \/ FALSE) /\ channel' = channel
          BY <3>2 DEF Drop
        <4> QED  BY <1>0, <4>1
      <3>3. CASE Drop /\ channel # <<>>
        <4>1. missed' = (missed \/ TRUE)
          BY <3>3 DEF Drop
        <4> QED  BY <1>0, <4>1
      <3> QED  BY <1>2, <3>1, <3>2, <3>3
    <2>3. TypeOK' /\ Inserted'
      <3>1. listening' \in BOOLEAN /\ missed' \in BOOLEAN /\ drops' \in 0 .. Drops
        <4>1. drops \in 0 .. Drops /\ Drops \in Nat
          BY <1>0, FeedAssumption DEF TypeOK
        <4>2. listening \in BOOLEAN
          BY <1>0 DEF TypeOK
        <4>3. drops' = drops \/ (drops > 0 /\ drops' = drops - 1)
          BY <1>2 DEF Listen, Drop
        <4>4. drops' \in 0 .. Drops
          BY <4>1, <4>3
        <4>5. listening' \in BOOLEAN
          BY <1>2, <4>2 DEF Listen, Drop
        <4> QED  BY <2>2, <4>4, <4>5
      <3> QED  BY <1>0, <2>1, <3>1 DEF TypeOK, Inserted
    <2>4. ASSUME NEW r \in Readers
          PROVE  (Passed(r) /\ Handed(r) /\ Covered(r) /\ Hinted(r))'
      <3>1. Passed(r)' /\ Handed(r)' /\ Covered(r)' /\ Fresh(r)' = Fresh(r)
        BY <1>0, <1>1, <2>1 DEF Passed, Handed, Covered, Fresh, Shown
      <3>2. Hinted(r)'
        BY <1>0, <1>1, <2>1, <2>2, <3>1 DEF Hinted
      <3> QED  BY <3>1, <3>2
    <2> QED  BY <2>3, <2>4 DEF Inv
  <1>3. CASE listen_loop
    <2>0. Head(channel) \in Sessions /\ Tail(channel) \in Seq(Sessions)
      <3>1. channel \in Seq(Sessions) /\ channel # <<>>
        BY <1>0, <1>3 DEF listen_loop
      <3> QED  BY <3>1
    <2>1. ASSUME NEW r \in Readers
          PROVE  /\ readers'[r] \in Polls /\ Len(readers'[r].rx) <= Cap
                 /\ readers'[r].pc = readers[r].pc /\ readers'[r].cursor = readers[r].cursor
                 /\ readers'[r].seen = readers[r].seen /\ readers'[r].late = readers[r].late
                 /\ readers[r].pc \in {"empty", "parked"} => readers'[r].rx # <<>>
      <3> DEFINE hint == Head(channel)
                 rx == readers[r].rx
      <3>1. readers[r] \in Polls /\ rx \in Seq(Sessions) /\ Len(rx) <= Cap /\ Len(rx) \in Nat
        BY <1>0 DEF TypeOK, Polls
      <3>2. CASE ~Subscribed(r)
        <4>1. readers'[r] = readers[r]
          BY <1>3, <3>2 DEF listen_loop
        <4> QED  BY <3>1, <3>2, <4>1 DEF Subscribed
      <3>3. CASE Subscribed(r) /\ Len(rx) = Cap
        <4> DEFINE new == Append(Tail(rx), hint)
        <4>1. readers'[r] = [readers[r] EXCEPT !.rx = new, !.lagged = TRUE]
          BY <1>3, <3>3 DEF listen_loop
        <4>2. rx # <<>>
          BY <1>0, <3>1, <3>3
        <4>3. Tail(rx) \in Seq(Sessions) /\ Len(Tail(rx)) = Len(rx) - 1
          BY <3>1, <4>2
        <4>4. new \in Seq(Sessions) /\ Len(new) = Len(rx) /\ new # <<>>
          <5>1. new \in Seq(Sessions) /\ Len(new) = Len(Tail(rx)) + 1 /\ new # <<>>
            BY <2>0, <4>3, AppendProperties
          <5> QED  BY <3>1, <4>3, <5>1
        <4> HIDE DEF new
        <4> QED  BY <3>1, <4>1, <4>4 DEF Polls
      <3>4. CASE Subscribed(r) /\ Len(rx) # Cap
        <4> DEFINE new == Append(rx, hint)
        <4>1. readers'[r] = [readers[r] EXCEPT !.rx = new]
          BY <1>3, <3>4 DEF listen_loop
        <4>2. new \in Seq(Sessions) /\ Len(new) = Len(rx) + 1 /\ new # <<>>
          BY <2>0, <3>1, AppendProperties
        <4>3. Len(new) <= Cap
          BY <1>0, <3>1, <3>4, <4>2
        <4> HIDE DEF new
        <4> QED  BY <3>1, <4>1, <4>2, <4>3 DEF Polls
      <3> QED  BY <3>2, <3>3, <3>4
    <2>2. TypeOK' /\ Inserted'
      <3>1. readers' \in [Readers -> Polls]
        BY <1>3, <2>1 DEF listen_loop
      <3>2. \A r \in Readers : readers'[r].cursor <= clock
        BY <1>0, <2>1 DEF TypeOK
      <3> QED  BY <1>0, <1>3, <2>0, <2>1, <3>1, <3>2 DEF TypeOK, Inserted, listen_loop
    <2>3. ASSUME NEW r \in Readers
          PROVE  (Passed(r) /\ Handed(r) /\ Covered(r) /\ Hinted(r))'
      <3>1. Passed(r)' /\ Handed(r)' /\ Covered(r)'
        BY <1>0, <1>1, <2>1 DEF Passed, Handed, Covered, Fresh, Shown
      <3>2. Hinted(r)'
        BY <2>1 DEF Hinted
      <3> QED  BY <3>1, <3>2
    <2> QED  BY <2>2, <2>3 DEF Inv
  <1> QED  BY <1>2, <1>3

-----------------------------------------------------------------------------
(* The theorems                                                            *)

\* The inductive invariant holds in every reachable state.
THEOREM Invariance == Spec => []Inv
  <1>1. Init => Inv
    <2> SUFFICES ASSUME Init  PROVE Inv
      OBVIOUS
    <2>1. PICK s \in Sessions : about = [i \in Ids |-> s]
      BY FeedAssumption DEF Init
    <2>2. <<>> \in Seq(Sessions) /\ Len(<<>>) = 0
      OBVIOUS
    <2>3. TypeOK
      <3>1. readers \in [Readers -> Polls]
        BY <2>2 DEF Init, Polls
      <3>2. about \in [Ids -> Sessions]
        BY <2>1
      <3>3. writers \in [Writers -> [pc : {"idle", "inserted", "notify"}, id : 0 .. MaxEvents]]
        BY FeedAssumption DEF Init
      <3>4. \A r \in Readers : readers[r].cursor <= clock /\ Len(readers[r].rx) <= Cap
        BY <2>2, FeedAssumption DEF Init
      <3>5. /\ clock \in 0 .. MaxEvents /\ committed \subseteq 1 .. clock /\ drops \in 0 .. Drops
        BY FeedAssumption DEF Init
      <3>6. channel \in Seq(Sessions) /\ listening \in BOOLEAN /\ missed \in BOOLEAN
        BY <2>2 DEF Init
      <3> QED  BY <3>1, <3>2, <3>3, <3>4, <3>5, <3>6 DEF TypeOK
    <2> QED  BY <2>3 DEF Init, Inv, Inserted, Passed, Handed, Covered, Hinted, Fresh
  <1>2. Inv /\ [Next]_vars => Inv'
    <2> SUFFICES ASSUME Inv, [Next]_vars  PROVE Inv'
      OBVIOUS
    <2>1. CASE UNCHANGED vars
      BY <2>1 DEF vars, Inv, TypeOK, Inserted, Passed, Handed, Covered, Hinted, Fresh, Shown
    <2> QED  BY <2>1, WriteStep, BusStep, PollStep DEF Next
  <1> QED  BY <1>1, <1>2, PTL DEF Spec

\* For any number of writers that commit in any order, of readers and of drops
\* of the listener: a reader's cursor passes only what it was handed, may not
\* see, or what committed where it no longer looked; nothing is handed to it
\* twice; and a poll that sleeps over something it could be handed is hinted at
\* it, unless a notification was lost.
THEOREM Feed == Spec => []FeedSound
  <1>1. Inv => FeedSound
    <2> SUFFICES ASSUME Inv  PROVE FeedSound
      OBVIOUS
    <2>1. \A r \in Readers : since(r) \subseteq Fresh(r)
      BY FirstOfWithin DEF since
    <2>2. HintComing
      BY <2>1 DEF Inv, Hinted, HintComing
    <2> QED  BY <2>2 DEF Inv, FeedSound, NothingSkipped, HandedOnce, Passed, Handed
  <1> QED  BY <1>1, Invariance, PTL
=============================================================================
