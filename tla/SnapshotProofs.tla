--------------------------- MODULE SnapshotProofs ---------------------------
(***************************************************************************)
(* Theorems about the sweep of the navigation snapshot, for pages and      *)
(* sweeps of any length and any number of positions and listings.          *)
(***************************************************************************)
EXTENDS Snapshot, SequenceTheorems, TLAPS

Events == [id : Nat, touches : SUBSET Positions, late : BOOLEAN]

FeedOK ==
    /\ feed \in Seq(Events)
    /\ \A k \in DOMAIN feed : feed[k].id \in 1..Len(feed)
    /\ \A j, k \in DOMAIN feed : feed[j].id = feed[k].id => j = k

\* A new event goes to place m of the feed, the events from there on one place up; it is
\* late if that puts it behind one the refresher has read.
Enters(m) ==
    /\ m \in DOMAIN feed' /\ m >= Len(feed)
    /\ Len(feed') = Len(feed) + 1 /\ DOMAIN feed' = 1..(Len(feed) + 1)
    /\ feed'[m].id = Len(feed) + 1
    /\ \A k \in DOMAIN feed : IF k < m THEN feed'[k] = feed[k] ELSE feed'[k + 1] = feed[k]
    /\ m \in DOMAIN feed /\ feed[m].id \in {cursor, sweep.newestSeen} => feed'[m].late

\* Recording is entering.
LEMMA RecordEnters ==
    ASSUME FeedOK, NEW P \in SUBSET Positions, NEW own \in BOOLEAN, Record(P, own)
    PROVE  FeedOK' /\ \E m \in Nat : Enters(m)
<1> DEFINE n == Len(feed)
<1> DEFINE event(late) == [id |-> n + 1, touches |-> P, late |-> late]
<1>0. feed \in Seq(Events) /\ n \in Nat /\ DOMAIN feed = 1..n
  BY DEF FeedOK
<1>1. CASE feed' = Append(feed, event(FALSE))
  <2>0. event(FALSE) \in Events /\ event(FALSE).id = n + 1
    BY <1>0 DEF Events
  <2>1. /\ feed' \in Seq(Events) /\ Len(feed') = n + 1 /\ DOMAIN feed' = 1..(n + 1)
        /\ feed'[n + 1].id = n + 1 /\ \A k \in 1..n : feed'[k] = feed[k]
    <3>1. PICK e \in Events : e = event(FALSE)
      BY <2>0
    <3> HIDE DEF event, n
    <3>2. feed' = Append(feed, e) /\ e.id = n + 1
      BY <1>1, <2>0, <3>1
    <3>3. /\ feed' \in Seq(Events) /\ Len(feed') = n + 1 /\ feed'[n + 1] = e
          /\ \A k \in 1..n : feed'[k] = feed[k]
      BY <1>0, <3>2, AppendProperties DEF n
    <3> QED BY <1>0, <3>2, <3>3
  <2> HIDE DEF n
  <2>2. FeedOK'
    <3>1. \A k \in 1..n : feed'[k].id \in 1..n
      BY <1>0, <2>1 DEF FeedOK, n
    <3>2. \A j, k \in 1..n : feed'[j].id = feed'[k].id => j = k
      BY <1>0, <2>1 DEF FeedOK
    <3>3. \A j, k \in 1..(n + 1) : feed'[j].id = feed'[k].id => j = k
      BY <1>0, <2>1, <3>1, <3>2
    <3>4. \A k \in 1..(n + 1) : feed'[k].id \in 1..(n + 1)
      BY <1>0, <2>1, <3>1
    <3> QED BY <2>1, <3>3, <3>4 DEF FeedOK
  <2>3. Enters(n + 1)
    BY <1>0, <2>1 DEF Enters, n
  <2> QED BY <1>0, <2>2, <2>3
<1>2. ASSUME n > 0, feed' = [Append(feed, feed[n]) EXCEPT
                                ![n] = event(feed[n].id \in {cursor, sweep.newestSeen})]
      PROVE  FeedOK' /\ \E m \in Nat : Enters(m)
  <2> DEFINE late == feed[n].id \in {cursor, sweep.newestSeen}
  <2> DEFINE e == event(late)
  <2>1. e \in Events /\ e.id = n + 1 /\ e.late = late
    BY <1>0 DEF Events
  <2>2. feed[n] \in Events
    BY <1>0, <1>2
  <2>3. feed' = [Append(feed, feed[n]) EXCEPT ![n] = e]
    BY <1>2
  <2> HIDE DEF e, late, n
  <2>4. /\ Append(feed, feed[n]) \in Seq(Events) /\ Len(Append(feed, feed[n])) = n + 1
        /\ \A k \in 1..n : Append(feed, feed[n])[k] = feed[k]
        /\ Append(feed, feed[n])[n + 1] = feed[n]
    BY <1>0, <2>2, AppendProperties DEF n
  <2> DEFINE longer == Append(feed, feed[n])
  <2> HIDE DEF longer
  <2>5. /\ feed' \in Seq(Events) /\ Len(feed') = n + 1 /\ DOMAIN feed' = 1..(n + 1)
        /\ feed'[n] = e /\ \A k \in 1..(n + 1) : k # n => feed'[k] = longer[k]
    <3>1. longer \in Seq(Events) /\ Len(longer) = n + 1 /\ n \in 1..Len(longer)
      BY <1>0, <1>2, <2>4 DEF longer
    <3>2. feed' = [longer EXCEPT ![n] = e]
      BY <2>3 DEF longer
    <3> QED BY <1>0, <2>1, <3>1, <3>2, ExceptSeq
  <2>6. feed'[n + 1] = feed[n] /\ \A k \in 1..(n - 1) : feed'[k] = feed[k]
    BY <1>0, <1>2, <2>4, <2>5 DEF longer
  <2>7. FeedOK'
    <3>0. \A k \in 1..n : feed[k].id \in 1..n
      BY <1>0 DEF FeedOK, n
    <3>1. \A k \in 1..(n + 1) : k # n => feed'[k].id \in 1..n
      BY <1>0, <1>2, <2>6, <3>0
    <3>2. \A j, k \in 1..(n + 1) : j # n /\ k # n /\ feed'[j].id = feed'[k].id => j = k
      <4>1. \A k \in 1..(n - 1) : feed[k].id # feed[n].id
        BY <1>0, <1>2 DEF FeedOK
      <4>2. \A j, k \in 1..(n - 1) : feed[j].id = feed[k].id => j = k
        BY <1>0, <1>2 DEF FeedOK
      <4> QED BY <1>0, <1>2, <2>6, <4>1, <4>2
    <3>3. \A j, k \in 1..(n + 1) : feed'[j].id = feed'[k].id => j = k
      BY <1>0, <2>1, <2>5, <3>1, <3>2
    <3>4. \A k \in 1..(n + 1) : feed'[k].id \in 1..(n + 1)
      BY <1>0, <2>1, <2>5, <3>1
    <3> QED BY <2>5, <3>3, <3>4 DEF FeedOK
  <2>8. Enters(n)
    <3>1. \A k \in DOMAIN feed : IF k < n THEN feed'[k] = feed[k] ELSE feed'[k + 1] = feed[k]
      BY <1>0, <1>2, <2>6
    <3>2. feed[n].id \in {cursor, sweep.newestSeen} => feed'[n].late
      BY <2>1, <2>5 DEF late
    <3>3. n \in 1..(n + 1) /\ n >= n /\ feed'[n].id = n + 1
      BY <1>0, <1>2, <2>1, <2>5
    <3> QED BY <2>5, <3>1, <3>2, <3>3 DEF Enters, n
  <2> QED BY <1>0, <2>7, <2>8
<1> QED BY <1>1, <1>2 DEF Record

LEMMA MaxIs ==
    ASSUME NEW S \in SUBSET Int, NEW x \in S, \A y \in S : y <= x
    PROVE  Max(S) = x
<1>1. \A y \in S : x >= y
  OBVIOUS
<1>2. \A z \in S : (\A y \in S : z >= y) => z = x
  OBVIOUS
<1> QED BY <1>1, <1>2, Zenon DEF Max
-----------------------------------------------------------------------------
(* The invariant. *)

Sweeps == [page : Nat \ {0}, newestSeen : Nat, touched : SUBSET Positions, reachedCursor : BOOLEAN]

CopiesOK ==
    /\ listing \in [Listings -> [seen : Nat, of : SUBSET Positions]]
    /\ \A p \in DOMAIN snapshot : snapshot[p].seen \in Nat /\ snapshot[p].timely \in BOOLEAN

\* What the refresher holds on to is in the feed; it has its newest event from the first page.
BearingsOK ==
    /\ cursor \in Nat /\ (cursor # None => \E c \in DOMAIN feed : feed[c].id = cursor)
    /\ sweep = Resting \/ sweep \in Sweeps
    /\ sweep # Resting =>
          /\ sweep.reachedCursor => cursor = None
          /\ sweep.page = 1 <=> sweep.newestSeen = None
          /\ sweep.newestSeen # None => \E n \in DOMAIN feed : feed[n].id = sweep.newestSeen
    /\ cursor = None => \A p \in DOMAIN snapshot : ~snapshot[p].timely

\* Place k is between the cursor and an event.
Between(k, newest) ==
    \E c, n \in DOMAIN feed : feed[c].id = cursor /\ feed[n].id = newest /\ c < k /\ k <= n

InOrder(newest) ==
    \A c, n \in DOMAIN feed : feed[c].id = cursor /\ feed[n].id = newest => c <= n

\* Whatever lies between the cursor and the newest event of the sweep came too late to be
\* seen, or has had its positions noted, or is on a page still to be read: pages are counted
\* from an end that only moves away.
Walked ==
    sweep # Resting =>
        /\ InOrder(sweep.newestSeen)
        /\ \A k \in DOMAIN feed : Between(k, sweep.newestSeen) =>
              \/ feed[k].late
              \/ feed[k].touches \subseteq sweep.touched
              \/ k <= Len(feed) - (sweep.page - 1) * PAGE_SIZE

\* A timely copy shows every event at or behind the cursor that was not late.
Current ==
    \A p \in DOMAIN snapshot : snapshot[p].timely =>
        \A c, k \in DOMAIN feed :
            feed[c].id = cursor /\ k <= c /\ p \in feed[k].touches /\ ~feed[k].late =>
                feed[k].id <= snapshot[p].seen

SweepInv == FeedOK /\ CopiesOK /\ BearingsOK /\ Walked /\ Current

\* Current says what SweptIsCurrent says.
LEMMA CurrentIsSwept == SweepInv => SweptIsCurrent
<1> SUFFICES ASSUME SweepInv, NEW p \in DOMAIN snapshot, snapshot[p].timely,
                    NEW k \in Missed(p, Accounted)
             PROVE  FALSE
  BY DEF SweptIsCurrent
<1>1. /\ k \in DOMAIN feed /\ feed[k].id \in Accounted /\ feed[k].id > snapshot[p].seen
      /\ p \in feed[k].touches /\ ~feed[k].late
  BY DEF Missed
<1>2. PICK j \in DOMAIN feed : feed[j].id = feed[k].id /\ \E c \in DOMAIN feed : feed[c].id = cursor /\ j <= c
  BY <1>1 DEF Accounted
<1>3. j = k
  BY <1>1, <1>2 DEF SweepInv, FeedOK
<1>4. feed[k].id <= snapshot[p].seen
  BY <1>1, <1>2, <1>3 DEF SweepInv, Current
<1>5. feed[k].id \in Nat /\ snapshot[p].seen \in Nat
  BY <1>1 DEF SweepInv, FeedOK, CopiesOK
<1> QED BY <1>1, <1>4, <1>5
-----------------------------------------------------------------------------
(* A new event. *)

\* Where an event that was there has gone: the order is kept.
Moved(m, k) == IF k < m THEN k ELSE k + 1

LEMMA EntersOrder ==
    ASSUME FeedOK, NEW m \in Nat, Enters(m)
    PROVE  /\ \A j, k \in DOMAIN feed : j <= k => Moved(m, j) <= Moved(m, k)
           /\ \A k \in DOMAIN feed : Moved(m, k) \in DOMAIN feed' /\ feed'[Moved(m, k)] = feed[k]
           /\ \A k \in DOMAIN feed' : k = m \/ \E j \in DOMAIN feed : k = Moved(m, j)
           /\ \A k \in DOMAIN feed : m < Moved(m, k) => k = m
<1> DEFINE n == Len(feed)
<1>0. n \in Nat /\ DOMAIN feed = 1..n
  BY DEF FeedOK
<1>1. /\ DOMAIN feed' = 1..(n + 1) /\ m \in 1..(n + 1) /\ m >= n
      /\ \A k \in DOMAIN feed : IF k < m THEN feed'[k] = feed[k] ELSE feed'[k + 1] = feed[k]
  BY DEF Enters
<1> HIDE DEF n
<1>2. \A k \in DOMAIN feed : Moved(m, k) \in DOMAIN feed' /\ feed'[Moved(m, k)] = feed[k]
  BY <1>0, <1>1 DEF Moved
<1>3. \A j, k \in DOMAIN feed : j <= k => Moved(m, j) <= Moved(m, k)
  BY <1>0 DEF Moved
<1>4. ASSUME NEW k \in DOMAIN feed', k # m PROVE \E j \in DOMAIN feed : k = Moved(m, j)
  <2>1. CASE k < m
    BY <1>0, <1>1, <1>4, <2>1 DEF Moved
  <2>2. CASE k > m
    <3>1. k - 1 \in DOMAIN feed /\ k = Moved(m, k - 1)
      BY <1>0, <1>1, <1>4, <2>2 DEF Moved
    <3> QED BY <3>1
  <2> QED BY <1>1, <1>4, <2>1, <2>2
<1>5. \A k \in DOMAIN feed : m < Moved(m, k) => k = m
  BY <1>0, <1>1 DEF Moved
<1> QED BY <1>2, <1>3, <1>4, <1>5

\* An identifier that was there names the event it named.
LEMMA EntersNames ==
    ASSUME FeedOK, NEW m \in Nat, Enters(m), NEW id \in 0..Len(feed), NEW c \in DOMAIN feed',
           feed'[c].id = id
    PROVE  \E j \in DOMAIN feed : c = Moved(m, j) /\ feed[j].id = id
<1>1. feed'[m].id = Len(feed) + 1 /\ Len(feed) \in Nat
  BY DEF Enters, FeedOK
<1>2. c # m
  BY <1>1
<1> QED BY <1>2, EntersOrder

LEMMA RecordKeeps ==
    ASSUME SweepInv, NEW P \in SUBSET Positions, NEW own \in BOOLEAN, Record(P, own)
    PROVE  SweepInv' /\ Accounted \subseteq Accounted'
<1>0. /\ FeedOK /\ FeedOK' /\ UNCHANGED <<snapshot, listing, sweep, cursor>>
      /\ Len(feed) \in Nat /\ DOMAIN feed = 1..Len(feed)
  BY RecordEnters DEF SweepInv, Record, FeedOK
<1>1. PICK m \in Nat : Enters(m)
  BY RecordEnters DEF SweepInv
<1>2. /\ \A j, k \in DOMAIN feed : j <= k => Moved(m, j) <= Moved(m, k)
      /\ \A k \in DOMAIN feed : Moved(m, k) \in DOMAIN feed' /\ feed'[Moved(m, k)] = feed[k]
      /\ \A k \in DOMAIN feed' : k = m \/ \E j \in DOMAIN feed : k = Moved(m, j)
      /\ \A k \in DOMAIN feed : m < Moved(m, k) => k = m
  BY <1>0, <1>1, EntersOrder
<1>3. \A j, k \in DOMAIN feed : Moved(m, j) <= Moved(m, k) => j <= k
  BY <1>0 DEF Moved
<1>4. \A id \in 0..Len(feed), c \in DOMAIN feed' : feed'[c].id = id =>
        \E j \in DOMAIN feed : c = Moved(m, j) /\ feed[j].id = id
  BY <1>0, <1>1, EntersNames
<1>5. cursor \in 0..Len(feed) /\ (sweep # Resting => sweep.newestSeen \in 0..Len(feed))
  BY <1>0 DEF SweepInv, BearingsOK, FeedOK, None
<1>6. m \in DOMAIN feed /\ feed[m].id \in {cursor, sweep.newestSeen} => feed'[m].late
  BY <1>1 DEF Enters
<1>7. CopiesOK'
  BY <1>0 DEF SweepInv, CopiesOK
<1>8. BearingsOK'
  <2>1. \A id : (\E c \in DOMAIN feed : feed[c].id = id) => \E c \in DOMAIN feed' : feed'[c].id = id
    BY <1>2
  <2> QED BY <1>0, <2>1 DEF SweepInv, BearingsOK
<1>9. Current'
  <2> SUFFICES ASSUME NEW p \in DOMAIN snapshot, snapshot[p].timely, NEW c \in DOMAIN feed',
                      NEW k \in DOMAIN feed', feed'[c].id = cursor, k <= c, p \in feed'[k].touches,
                      ~feed'[k].late
               PROVE  feed'[k].id <= snapshot[p].seen
    BY <1>0 DEF Current
  <2>1. PICK d \in DOMAIN feed : c = Moved(m, d) /\ feed[d].id = cursor
    BY <1>4, <1>5
  <2>2. k # m
    <3>1. d < m => c = d
      BY <2>1 DEF Moved
    <3>2. ASSUME k = m PROVE FALSE
      <4>1. m < Moved(m, d)
        BY <1>0, <2>1, <3>2 DEF Moved
      <4> QED BY <1>2, <1>6, <2>1, <3>2, <4>1
    <3> QED BY <3>2
  <2>3. PICK j \in DOMAIN feed : k = Moved(m, j)
    BY <1>2, <2>2
  <2>4. feed'[k] = feed[j] /\ j <= d
    BY <1>2, <1>3, <2>1, <2>3
  <2> QED BY <2>1, <2>4 DEF SweepInv, Current
<1>10. Walked'
  <2> SUFFICES ASSUME sweep # Resting
               PROVE  /\ InOrder(sweep.newestSeen)'
                      /\ \A k \in DOMAIN feed' : Between(k, sweep.newestSeen)' =>
                            \/ feed'[k].late
                            \/ feed'[k].touches \subseteq sweep.touched
                            \/ k <= Len(feed') - (sweep.page - 1) * PAGE_SIZE
    BY <1>0 DEF Walked
  <2>1. InOrder(sweep.newestSeen)'
    <3> SUFFICES ASSUME NEW c \in DOMAIN feed', NEW n \in DOMAIN feed', feed'[c].id = cursor,
                        feed'[n].id = sweep.newestSeen
                 PROVE  c <= n
      BY <1>0 DEF InOrder
    <3>1. PICK d \in DOMAIN feed : c = Moved(m, d) /\ feed[d].id = cursor
      BY <1>4, <1>5
    <3>2. PICK e \in DOMAIN feed : n = Moved(m, e) /\ feed[e].id = sweep.newestSeen
      BY <1>4, <1>5
    <3> QED BY <1>2, <3>1, <3>2 DEF SweepInv, Walked, InOrder
  <2>2. ASSUME NEW k \in DOMAIN feed', NEW c \in DOMAIN feed', NEW n \in DOMAIN feed',
               feed'[c].id = cursor, feed'[n].id = sweep.newestSeen, c < k, k <= n
        PROVE  \/ feed'[k].late
               \/ feed'[k].touches \subseteq sweep.touched
               \/ k <= Len(feed') - (sweep.page - 1) * PAGE_SIZE
    <3>1. PICK d \in DOMAIN feed : c = Moved(m, d) /\ feed[d].id = cursor
      BY <1>4, <1>5, <2>2
    <3>2. PICK e \in DOMAIN feed : n = Moved(m, e) /\ feed[e].id = sweep.newestSeen
      BY <1>4, <1>5, <2>2
    <3>3. CASE k = m
      <4>1. m < Moved(m, e)
        BY <1>0, <2>2, <3>2, <3>3 DEF Moved
      <4> QED BY <1>2, <1>6, <3>2, <3>3, <4>1
    <3>4. CASE k # m
      <4>1. PICK j \in DOMAIN feed : k = Moved(m, j)
        BY <1>2, <3>4
      <4>2. feed'[k] = feed[j] /\ j <= e /\ d <= j /\ j # d
        <5>1. feed'[k] = feed[j] /\ j <= e
          BY <1>2, <1>3, <2>2, <3>2, <4>1
        <5>2. j # d
          BY <1>0, <2>2, <3>1, <4>1 DEF Moved
        <5>3. d <= j
          BY <1>0, <2>2, <3>1, <4>1 DEF Moved
        <5> QED BY <5>1, <5>2, <5>3
      <4>3. Between(j, sweep.newestSeen)
        BY <1>0, <3>1, <3>2, <4>2 DEF Between
      <4>4. CASE j <= Len(feed) - (sweep.page - 1) * PAGE_SIZE
        <5> DEFINE read == (sweep.page - 1) * PAGE_SIZE
        <5>1. read \in Int
          <6>1. sweep.page \in Nat
            BY DEF SweepInv, BearingsOK, Sweeps
          <6> QED BY <6>1, SnapshotAssumption
        <5>2. Len(feed') = Len(feed) + 1 /\ k <= j + 1
          BY <1>0, <1>1, <4>1 DEF Enters, Moved
        <5>3. j <= Len(feed) - read
          BY <4>4
        <5> HIDE DEF read
        <5>4. k <= Len(feed') - read
          BY <1>0, <5>1, <5>2, <5>3
        <5> QED BY <5>4 DEF read
      <4> QED BY <4>2, <4>3, <4>4 DEF SweepInv, Walked
    <3> QED BY <3>3, <3>4
  <2> QED BY <1>0, <2>1, <2>2 DEF Between
<1>11. Accounted \subseteq Accounted'
  <2> SUFFICES ASSUME NEW k \in DOMAIN feed, NEW c \in DOMAIN feed, feed[c].id = cursor, k <= c
               PROVE  feed[k].id \in Accounted'
    BY DEF Accounted
  <2>1. /\ Moved(m, k) \in DOMAIN feed' /\ feed'[Moved(m, k)] = feed[k]
        /\ Moved(m, c) \in DOMAIN feed' /\ feed'[Moved(m, c)] = feed[c] /\ Moved(m, k) <= Moved(m, c)
    BY <1>2
  <2> QED BY <1>0, <2>1 DEF Accounted
<1> QED BY <1>0, <1>7, <1>8, <1>9, <1>10, <1>11 DEF SweepInv
-----------------------------------------------------------------------------
(* A page. *)

LEMMA PageCounts ==
    ASSUME NEW page \in Nat \ {0}, NEW size \in Nat \ {0}
    PROVE  /\ (page - 1) * size \in Nat
           /\ page * size = (page - 1) * size + size
           /\ page = 1 => (page - 1) * size = 0
<1>1. PICK q \in Nat : page = q + 1
  <2>1. page - 1 \in Nat /\ page = (page - 1) + 1
    OBVIOUS
  <2> QED BY <2>1
<1>2. q * size \in Nat /\ (q + 1) * size = q * size + size
  OBVIOUS
<1>3. q = 0 => q * size = 0
  OBVIOUS
<1>4. page - 1 = q
  BY <1>1
<1> QED BY <1>1, <1>2, <1>3, <1>4

\* The page the sweep is at holds the places between two ends.
LEMMA PageHolds ==
    ASSUME SweepInv, sweep # Resting
    PROVE  \E read \in Nat :
              /\ read = (sweep.page - 1) * PAGE_SIZE
              /\ sweep.page * PAGE_SIZE = read + PAGE_SIZE
              /\ sweep.page = 1 => read = 0
              /\ recentlyRecorded(sweep.page) =
                    {k \in DOMAIN feed : k <= Len(feed) - read /\ k > Len(feed) - (read + PAGE_SIZE)}
<1>1. sweep.page \in Nat \ {0}
  BY DEF SweepInv, BearingsOK, Sweeps
<1>2. /\ (sweep.page - 1) * PAGE_SIZE \in Nat
      /\ sweep.page * PAGE_SIZE = (sweep.page - 1) * PAGE_SIZE + PAGE_SIZE
      /\ sweep.page = 1 => (sweep.page - 1) * PAGE_SIZE = 0
  BY <1>1, PageCounts, SnapshotAssumption
<1>3. PICK read \in Nat : read = (sweep.page - 1) * PAGE_SIZE
  BY <1>2
<1>4. sweep.page * PAGE_SIZE = read + PAGE_SIZE /\ (sweep.page = 1 => read = 0)
  BY <1>2, <1>3
<1>5. recentlyRecorded(sweep.page) =
        {k \in DOMAIN feed : k <= Len(feed) - read /\ k > Len(feed) - (read + PAGE_SIZE)}
  BY <1>3, <1>4 DEF recentlyRecorded
<1> QED BY <1>3, <1>4, <1>5

\* The newest event of a sweep is the newest of its first page.
LEMMA NewestSeen ==
    ASSUME SweepInv, sweep # Resting
    PROVE  LET done == Turn(recentlyRecorded(sweep.page)) IN
              /\ done.newestSeen \in Nat
              /\ done.newestSeen = None => done.reachedCursor
              /\ done.newestSeen # None => \E n \in DOMAIN feed : feed[n].id = done.newestSeen
              /\ InOrder(done.newestSeen)
              /\ sweep.page # 1 => done.newestSeen = sweep.newestSeen
<1> DEFINE page == recentlyRecorded(sweep.page)
<1>0. FeedOK /\ Len(feed) \in Nat /\ DOMAIN feed = 1..Len(feed)
  BY DEF SweepInv, FeedOK
<1>1. /\ Turn(page).newestSeen = IF sweep.newestSeen = None /\ page # {} THEN feed[Max(page)].id
                                 ELSE sweep.newestSeen
      /\ Turn(page).reachedCursor = (\/ sweep.reachedCursor \/ page = {}
                                     \/ \E k \in page : feed[k].id = cursor)
  BY DEF Turn
<1>2. PICK read \in Nat :
              /\ sweep.page = 1 => read = 0
              /\ page = {k \in DOMAIN feed : k <= Len(feed) - read /\ k > Len(feed) - (read + PAGE_SIZE)}
  BY PageHolds
<1>3. /\ sweep.page = 1 <=> sweep.newestSeen = None
      /\ sweep.newestSeen \in Nat
      /\ sweep.newestSeen # None => \E n \in DOMAIN feed : feed[n].id = sweep.newestSeen
      /\ InOrder(sweep.newestSeen)
  BY DEF SweepInv, BearingsOK, Sweeps, Walked
<1> HIDE DEF page
<1>4. CASE sweep.newestSeen # None
  <2>1. Turn(page).newestSeen = sweep.newestSeen
    BY <1>1, <1>4
  <2> QED BY <1>3, <1>4, <2>1 DEF page
<1>5. CASE sweep.newestSeen = None /\ page = {}
  <2>1. Turn(page).newestSeen = sweep.newestSeen /\ Turn(page).reachedCursor
    BY <1>1, <1>5
  <2> QED BY <1>3, <1>5, <2>1 DEF page
<1>6. CASE sweep.newestSeen = None /\ page # {}
  <2>1. page = {k \in DOMAIN feed : k <= Len(feed) /\ k > Len(feed) - PAGE_SIZE}
    BY <1>0, <1>2, <1>3, <1>6, SnapshotAssumption
  <2>2. page \in SUBSET Int /\ Len(feed) \in page /\ \A k \in page : k <= Len(feed)
    BY <1>0, <1>6, <2>1, SnapshotAssumption
  <2>3. Max(page) = Len(feed)
    BY <2>2, MaxIs
  <2>4. Turn(page).newestSeen = feed[Len(feed)].id /\ Len(feed) \in DOMAIN feed
    BY <1>1, <1>6, <2>1, <2>2, <2>3
  <2>5. Turn(page).newestSeen \in Nat /\ Turn(page).newestSeen # None
    BY <1>0, <2>4 DEF FeedOK, None
  <2>6. InOrder(Turn(page).newestSeen)
    BY <1>0, <2>4 DEF FeedOK, InOrder
  <2> QED BY <1>3, <1>6, <2>4, <2>5, <2>6 DEF page
<1> QED BY <1>4, <1>5, <1>6

\* One more page: what lies between the cursor and the newest event came late, has been
\* noted, or, if the cursor has not been met, is on a later page.
LEMMA PageWalked ==
    ASSUME SweepInv, sweep # Resting, cursor # None, NEW k \in DOMAIN feed,
           Between(k, Turn(recentlyRecorded(sweep.page)).newestSeen)
    PROVE  LET done == Turn(recentlyRecorded(sweep.page)) IN
              \/ feed[k].late
              \/ feed[k].touches \subseteq done.touched
              \/ ~done.reachedCursor /\ k <= Len(feed) - sweep.page * PAGE_SIZE
<1> DEFINE page == recentlyRecorded(sweep.page)
<1>0. /\ FeedOK /\ Len(feed) \in Nat /\ DOMAIN feed = 1..Len(feed)
      /\ PAGE_SIZE \in Nat \ {0} /\ k \in Nat
  BY SnapshotAssumption DEF SweepInv, FeedOK
<1>1. /\ Turn(page).touched = sweep.touched \cup UNION {feed[j].touches : j \in BeforeCursor(page)}
      /\ Turn(page).reachedCursor = (\/ sweep.reachedCursor \/ page = {}
                                     \/ \E j \in page : feed[j].id = cursor)
  BY DEF Turn
<1>2. PICK read \in Nat :
              /\ read = (sweep.page - 1) * PAGE_SIZE
              /\ sweep.page * PAGE_SIZE = read + PAGE_SIZE
              /\ sweep.page = 1 => read = 0
              /\ page = {j \in DOMAIN feed : j <= Len(feed) - read /\ j > Len(feed) - (read + PAGE_SIZE)}
  BY PageHolds
<1>3. PICK c \in DOMAIN feed : feed[c].id = cursor /\ c < k
  BY DEF Between
<1>4. ~sweep.reachedCursor
  BY DEF SweepInv, BearingsOK
<1>5. \/ feed[k].late \/ feed[k].touches \subseteq sweep.touched \/ k <= Len(feed) - read
  <2>1. CASE sweep.page = 1
    BY <1>0, <1>2, <2>1
  <2>2. CASE sweep.page # 1
    <3>1. Between(k, sweep.newestSeen)
      BY <2>2, NewestSeen
    <3> QED BY <1>2, <3>1 DEF SweepInv, Walked
  <2> QED BY <2>1, <2>2
<1>6. \A j \in page : j \in DOMAIN feed /\ (feed[j].id = cursor => j = c)
  BY <1>0, <1>2, <1>3 DEF FeedOK
<1> HIDE DEF page
<1>7. ASSUME k \in page PROVE feed[k].touches \subseteq Turn(page).touched
  <2>1. k \in BeforeCursor(page)
    <3>1. \A j \in page : feed[j].id = cursor => k > j
      BY <1>0, <1>3, <1>6
    <3> QED BY <1>7, <3>1 DEF BeforeCursor
  <2> QED BY <1>1, <2>1
<1>8. ASSUME k <= Len(feed) - (read + PAGE_SIZE) PROVE ~Turn(page).reachedCursor
  <2>1. Len(feed) - read \in page
    <3>1. Len(feed) - read \in 1..Len(feed) /\ Len(feed) - read > Len(feed) - (read + PAGE_SIZE)
      BY <1>0, <1>2, <1>8
    <3>2. Len(feed) - read <= Len(feed) - read
      BY <1>0, <1>2
    <3> QED BY <1>0, <1>2, <3>1, <3>2
  <2>2. c \notin page
    BY <1>0, <1>2, <1>3, <1>8
  <2> QED BY <1>1, <1>4, <1>6, <2>1, <2>2
<1>9. CASE k <= Len(feed) - read
  <2>1. k \in page \/ k <= Len(feed) - (read + PAGE_SIZE)
    BY <1>0, <1>2, <1>9
  <2> QED BY <1>2, <1>7, <1>8, <2>1 DEF page
<1>10. CASE feed[k].late \/ feed[k].touches \subseteq sweep.touched
  BY <1>1, <1>10 DEF page
<1> QED BY <1>5, <1>9, <1>10
-----------------------------------------------------------------------------
(* The refresher. *)

LEMMA ReadPageKeeps ==
    ASSUME SweepInv, ReadPage
    PROVE  SweepInv' /\ Accounted \subseteq Accounted'
<1> DEFINE done == Turn(recentlyRecorded(sweep.page))
<1>0. /\ FeedOK /\ sweep # Resting /\ UNCHANGED <<feed, listing>>
      /\ Len(feed) \in Nat /\ DOMAIN feed = 1..Len(feed)
  BY DEF SweepInv, ReadPage, FeedOK
<1>1. /\ done.newestSeen \in Nat
      /\ done.newestSeen = None => done.reachedCursor
      /\ done.newestSeen # None => \E n \in DOMAIN feed : feed[n].id = done.newestSeen
      /\ InOrder(done.newestSeen)
  BY <1>0, NewestSeen
<1>2. cursor # None => \A k \in DOMAIN feed : Between(k, done.newestSeen) =>
              \/ feed[k].late
              \/ feed[k].touches \subseteq done.touched
              \/ ~done.reachedCursor /\ k <= Len(feed) - sweep.page * PAGE_SIZE
  BY <1>0, PageWalked
<1>3. \/ sweep' = Resting /\ Finish(done)
      \/ /\ ~done.reachedCursor /\ sweep' = [done EXCEPT !.page = @ + 1]
         /\ UNCHANGED <<snapshot, cursor>>
  BY DEF ReadPage
<1>4. /\ done = [page |-> sweep.page, newestSeen |-> done.newestSeen, touched |-> done.touched,
                 reachedCursor |-> done.reachedCursor]
      /\ done.touched \subseteq Positions /\ done.reachedCursor \in BOOLEAN
      /\ sweep.page \in Nat \ {0}
  <2>1. sweep \in Sweeps
    BY <1>0 DEF SweepInv, BearingsOK
  <2>2. \A k \in BeforeCursor(recentlyRecorded(sweep.page)) : feed[k].touches \subseteq Positions
    <3>1. \A k \in DOMAIN feed : feed[k] \in Events
      BY <1>0 DEF FeedOK
    <3>2. \A k \in BeforeCursor(recentlyRecorded(sweep.page)) : k \in DOMAIN feed
      BY DEF BeforeCursor, recentlyRecorded
    <3>3. \A e \in Events : e.touches \subseteq Positions
      BY DEF Events
    <3> QED BY <3>1, <3>2, <3>3
  <2> QED BY <2>1, <2>2 DEF Turn, Sweeps
<1>5. FeedOK'
  BY <1>0 DEF FeedOK
<1>6. \A id \in Nat : (\E n \in DOMAIN feed : feed[n].id = id) => id # None
  BY <1>0 DEF FeedOK, None
<1> HIDE DEF done
<1>7. CASE sweep' = Resting /\ Finish(done)
  <2>1. cursor' = IF done.newestSeen # None THEN done.newestSeen ELSE cursor
    BY <1>7 DEF Finish
  <2>2. /\ cursor = None => snapshot' = snapshot
        /\ cursor # None /\ done.reachedCursor => snapshot' = Without(done.touched)
        /\ cursor # None /\ ~done.reachedCursor => snapshot' = Without(DOMAIN snapshot)
    BY <1>7 DEF Finish
  <2>3. /\ DOMAIN snapshot' \subseteq DOMAIN snapshot
        /\ \A p \in DOMAIN snapshot' : snapshot'[p] = snapshot[p]
    BY <2>2 DEF Without
  <2>4. CopiesOK'
    BY <1>0, <2>3 DEF SweepInv, CopiesOK
  <2>5. BearingsOK'
    <3>1. cursor' \in Nat /\ (cursor' # None => \E c \in DOMAIN feed : feed[c].id = cursor')
      BY <1>1, <2>1 DEF SweepInv, BearingsOK
    <3>2. cursor' = None => cursor = None
      BY <2>1
    <3> QED BY <1>0, <1>7, <2>3, <3>1, <3>2 DEF SweepInv, BearingsOK
  <2>6. Walked'
    BY <1>7 DEF Walked
  <2>7. Current'
    <3> SUFFICES ASSUME NEW p \in DOMAIN snapshot', snapshot'[p].timely, NEW c \in DOMAIN feed,
                        NEW k \in DOMAIN feed, feed[c].id = cursor', k <= c,
                        p \in feed[k].touches, ~feed[k].late
                 PROVE  feed[k].id <= snapshot'[p].seen
      BY <1>0 DEF Current
    <3>1. p \in DOMAIN snapshot /\ snapshot'[p] = snapshot[p] /\ cursor # None
      BY <2>3 DEF SweepInv, BearingsOK
    <3>2. done.reachedCursor /\ p \notin done.touched
      BY <2>2, <3>1 DEF Without
    <3>3. PICK d \in DOMAIN feed : feed[d].id = cursor
      BY <3>1 DEF SweepInv, BearingsOK
    <3>4. CASE k <= d
      BY <3>1, <3>3, <3>4 DEF SweepInv, Current
    <3>5. CASE d < k
      <4>1. cursor' # cursor
        BY <1>0, <3>3, <3>5 DEF FeedOK
      <4>2. feed[c].id = done.newestSeen
        BY <2>1, <4>1
      <4>3. Between(k, done.newestSeen)
        BY <3>3, <3>5, <4>2 DEF Between
      <4> QED BY <1>2, <3>1, <3>2, <4>3
    <3> QED BY <1>0, <3>4, <3>5
  <2>8. Accounted \subseteq Accounted'
    <3> SUFFICES ASSUME NEW k \in DOMAIN feed, NEW c \in DOMAIN feed, feed[c].id = cursor, k <= c
                 PROVE  feed[k].id \in Accounted'
      BY DEF Accounted
    <3>1. CASE done.newestSeen = None
      BY <1>0, <2>1, <3>1 DEF Accounted
    <3>2. CASE done.newestSeen # None
      <4>1. PICK n \in DOMAIN feed : feed[n].id = done.newestSeen
        BY <1>1, <3>2
      <4>2. k <= n
        BY <1>0, <1>1, <4>1 DEF InOrder
      <4> QED BY <1>0, <2>1, <3>2, <4>1, <4>2 DEF Accounted
    <3> QED BY <3>1, <3>2
  <2> QED BY <1>5, <2>4, <2>5, <2>6, <2>7, <2>8 DEF SweepInv
<1>8. CASE /\ ~done.reachedCursor /\ sweep' = [done EXCEPT !.page = @ + 1]
           /\ UNCHANGED <<snapshot, cursor>>
  <2>1. sweep' = [page |-> sweep.page + 1, newestSeen |-> done.newestSeen,
                  touched |-> done.touched, reachedCursor |-> done.reachedCursor]
    <3>1. PICK n, t, r : done = [page |-> sweep.page, newestSeen |-> n, touched |-> t, reachedCursor |-> r]
      BY <1>4
    <3> QED BY <1>8, <3>1
  <2>2. /\ sweep' \in Sweeps /\ sweep'.page = sweep.page + 1 /\ sweep'.newestSeen = done.newestSeen
        /\ sweep'.touched = done.touched /\ ~sweep'.reachedCursor
    BY <1>1, <1>4, <1>8, <2>1 DEF Sweeps
  <2>3. sweep'.newestSeen # None /\ sweep'.page # 1 /\ sweep'.page - 1 = sweep.page
    BY <1>1, <1>4, <1>8, <2>2
  <2>4. BearingsOK'
    BY <1>0, <1>1, <1>8, <2>2, <2>3 DEF SweepInv, BearingsOK
  <2>5. Walked'
    <3>1. InOrder(sweep.newestSeen)'
      BY <1>0, <1>1, <1>8, <2>2 DEF InOrder
    <3>2. ASSUME NEW k \in DOMAIN feed, Between(k, done.newestSeen)
          PROVE  \/ feed[k].late \/ feed[k].touches \subseteq done.touched
                 \/ k <= Len(feed) - sweep.page * PAGE_SIZE
      <4>1. cursor # None
        BY <1>6, <3>2 DEF Between, SweepInv, BearingsOK
      <4> QED BY <1>2, <3>2, <4>1
    <3> QED BY <1>0, <1>8, <2>2, <2>3, <3>1, <3>2 DEF Walked, Between
  <2> QED BY <1>0, <1>5, <1>8, <2>4, <2>5 DEF SweepInv, CopiesOK, Current, Accounted
<1> QED BY <1>3, <1>7, <1>8

LEMMA SweepStartsKeeps ==
    ASSUME SweepInv, SweepStarts
    PROVE  SweepInv' /\ Accounted \subseteq Accounted'
<1>0. UNCHANGED <<feed, snapshot, listing, cursor>> /\ FeedOK
  BY DEF SweepStarts, SweepInv
<1>1. /\ sweep' \in Sweeps /\ sweep'.page = 1 /\ sweep'.newestSeen = None
      /\ sweep'.reachedCursor = (cursor = None)
  <2>1. sweep' = [page |-> 1, newestSeen |-> None, touched |-> {}, reachedCursor |-> (cursor = None)]
    BY DEF SweepStarts, Resting
  <2> QED BY <2>1 DEF Sweeps, None
<1>2. BearingsOK'
  BY <1>0, <1>1 DEF SweepInv, BearingsOK
<1>3. Walked'
  <2>1. \A k \in DOMAIN feed : feed[k].id # None
    BY <1>0 DEF FeedOK, None
  <2> QED BY <1>0, <1>1, <2>1 DEF Walked, InOrder, Between
<1> QED BY <1>0, <1>2, <1>3 DEF SweepInv, FeedOK, CopiesOK, Current, Accounted

LEMMA ReadFailsKeeps ==
    ASSUME SweepInv, ReadFails
    PROVE  SweepInv' /\ Accounted \subseteq Accounted'
<1>0. UNCHANGED <<feed, snapshot, listing, cursor>> /\ sweep' = Resting
  BY DEF ReadFails
<1> QED BY <1>0 DEF SweepInv, FeedOK, CopiesOK, BearingsOK, Walked, Current, Accounted
-----------------------------------------------------------------------------
(* The copies. *)

\* Nothing but copies and answers has changed, and every timely copy is an old one or knew
\* what the cursor accounts for.
LEMMA CopiesKeep ==
    ASSUME SweepInv, UNCHANGED <<feed, sweep, cursor>>, CopiesOK',
           \A p \in DOMAIN snapshot' :
              \/ p \in DOMAIN snapshot /\ snapshot'[p] = snapshot[p]
              \/ snapshot'[p].timely =>
                    cursor # None /\ \A id \in Accounted : id <= snapshot'[p].seen
    PROVE  SweepInv' /\ Accounted \subseteq Accounted'
<1>1. FeedOK' /\ Walked' /\ Accounted' = Accounted
  BY DEF SweepInv, FeedOK, Walked, InOrder, Between, Accounted
<1>2. BearingsOK'
  BY DEF SweepInv, BearingsOK
<1>3. Current'
  <2> SUFFICES ASSUME NEW p \in DOMAIN snapshot', snapshot'[p].timely, NEW c \in DOMAIN feed,
                      NEW k \in DOMAIN feed, feed[c].id = cursor, k <= c,
                      p \in feed[k].touches, ~feed[k].late
               PROVE  feed[k].id <= snapshot'[p].seen
    BY DEF Current
  <2>1. feed[k].id \in Accounted
    BY DEF Accounted
  <2>2. CASE p \in DOMAIN snapshot /\ snapshot'[p] = snapshot[p]
    BY <2>2 DEF SweepInv, Current
  <2> QED BY <2>1, <2>2
<1> QED BY <1>1, <1>2, <1>3 DEF SweepInv

LEMMA HearOwnKeeps ==
    ASSUME SweepInv, NEW id \in unheard, HearOwn(id)
    PROVE  SweepInv' /\ Accounted \subseteq Accounted'
<1>1. UNCHANGED <<feed, listing, sweep, cursor>>
  BY DEF HearOwn
<1>2. /\ DOMAIN snapshot' \subseteq DOMAIN snapshot
      /\ \A p \in DOMAIN snapshot' : snapshot'[p] = snapshot[p]
  BY DEF HearOwn, Without
<1>3. CopiesOK'
  BY <1>1, <1>2 DEF SweepInv, CopiesOK
<1> QED BY <1>1, <1>2, <1>3, CopiesKeep

LEMMA ListReadKeeps ==
    ASSUME SweepInv, NEW l \in Listings, NEW P \in SUBSET Positions, ListRead(l, P)
    PROVE  SweepInv' /\ Accounted \subseteq Accounted'
<1>1. UNCHANGED <<feed, snapshot, sweep, cursor>>
  BY DEF ListRead
<1>2. Len(feed) \in Nat
  BY DEF SweepInv, FeedOK
<1>3. CopiesOK'
  BY <1>1, <1>2 DEF SweepInv, CopiesOK, ListRead
<1> QED BY <1>1, <1>3, CopiesKeep

LEMMA ListReturnsKeeps ==
    ASSUME SweepInv, NEW l \in Listings, ListReturns(l)
    PROVE  SweepInv' /\ Accounted \subseteq Accounted'
<1>1. UNCHANGED <<feed, sweep, cursor>>
  BY DEF ListReturns
<1>2. listing' \in [Listings -> [seen : Nat, of : SUBSET Positions]]
  BY DEF ListReturns, SweepInv, CopiesOK, NoAnswer, None
<1>3. listing[l].seen \in Nat /\ Timely(listing[l]) \in BOOLEAN
  BY DEF SweepInv, CopiesOK, Timely
<1>4. \A p \in DOMAIN snapshot' :
          \/ p \in DOMAIN snapshot /\ snapshot'[p] = snapshot[p]
          \/ snapshot'[p].seen = listing[l].seen /\ snapshot'[p].timely = Timely(listing[l])
  BY DEF ListReturns, remember
<1>5. CopiesOK'
  BY <1>2, <1>3, <1>4 DEF SweepInv, CopiesOK
<1>6. \A p \in DOMAIN snapshot' :
          \/ p \in DOMAIN snapshot /\ snapshot'[p] = snapshot[p]
          \/ snapshot'[p].timely =>
                cursor # None /\ \A id \in Accounted : id <= snapshot'[p].seen
  BY <1>4 DEF Timely
<1> QED BY <1>1, <1>5, <1>6, CopiesKeep
-----------------------------------------------------------------------------
LEMMA SweepInvInit == Init => SweepInv
<1> SUFFICES ASSUME Init PROVE SweepInv
  OBVIOUS
<1>1. FeedOK
  BY DEF Init, FeedOK
<1>2. CopiesOK /\ BearingsOK /\ Walked /\ Current
  BY DEF Init, CopiesOK, BearingsOK, Walked, Current, NoAnswer, None
<1> QED BY <1>1, <1>2 DEF SweepInv

LEMMA SweepInvNext == SweepInv /\ [Next]_vars => SweepInv' /\ Accounted \subseteq Accounted'
<1> SUFFICES ASSUME SweepInv, [Next]_vars
             PROVE  SweepInv' /\ Accounted \subseteq Accounted'
  OBVIOUS
<1>1. CASE \E P \in SUBSET Positions, own \in BOOLEAN : Record(P, own)
  BY <1>1, RecordKeeps
<1>2. CASE \E id \in unheard : HearOwn(id)
  BY <1>2, HearOwnKeeps
<1>3. CASE \E l \in Listings : (\E P \in SUBSET Positions \ {{}} : ListRead(l, P)) \/ ListReturns(l)
  BY <1>3, ListReadKeeps, ListReturnsKeeps
<1>4. CASE SweepStarts \/ ReadPage \/ ReadFails
  BY <1>4, SweepStartsKeeps, ReadPageKeeps, ReadFailsKeeps
<1>5. CASE UNCHANGED vars
  BY <1>5 DEF vars, SweepInv, FeedOK, CopiesOK, BearingsOK, Walked, InOrder, Between, Current, Accounted
<1> QED BY <1>1, <1>2, <1>3, <1>4, <1>5 DEF Next

\* A copy put away no older than the cursor shows every event up to the cursor, however the
\* pages of a sweep straddle new arrivals, sweeps give up or fail, and answers come late
\* (SnapshotRefresher.refresh, PositionSnapshot.remember).
THEOREM SweptStaysCurrent == Spec => []SweptIsCurrent
<1> QED BY SweepInvInit, SweepInvNext, CurrentIsSwept, PTL DEF Spec

\* What one sweep accounted for, the cursor never comes to lie before again
\* (SnapshotRefresher.refresh: the cursor is the newest event of the last sweep).
THEOREM CursorNeverGoesBack == Spec => CursorAdvances
<1>1. SweepInv /\ [Next]_vars => [Accounted \subseteq Accounted']_vars
  BY SweepInvNext
<1> QED BY SweepInvInit, SweepInvNext, <1>1, PTL DEF Spec, CursorAdvances
=============================================================================
