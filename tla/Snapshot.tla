------------------------------ MODULE Snapshot ------------------------------
(***************************************************************************)
(* The treasury's navigation snapshot: copies of positions the ledger has  *)
(* answered with (application/services/PositionSnapshot.ts), filled by the *)
(* listings, forgotten after the treasury's own writes, and swept against  *)
(* everybody else's (SnapshotRefresher.ts, driven by index.ts).            *)
(*                                                                         *)
(*   feed     the ledger's events by recordedAt, each with its number of   *)
(*            arrival and the positions it touches; a page is a set of     *)
(*            places of it, counted from the end: the newest come first;   *)
(*   unheard  the treasury's own events whose answer has not arrived;      *)
(*   snapshot position |-> the copy: how many events the ledger held when  *)
(*            it gave the answer, and whether those were all that the      *)
(*            cursor accounts for when it was put away;                    *)
(*   listing  the listings under way; sweep and cursor, the refresher.     *)
(***************************************************************************)
EXTENDS Integers, Sequences, FiniteSets, FiniteSetsExt

CONSTANTS
    Positions, Listings,
    PAGE_SIZE, MAX_PAGES,
    MaxEvents,     \* bound: events the feed may hold
    MaxFailures    \* bound: requests of the refresher that may fail

ASSUME SnapshotAssumption == PAGE_SIZE \in Nat \ {0} /\ MAX_PAGES \in Nat \ {0}

VARIABLES feed, unheard, snapshot, listing, sweep, cursor, failures

vars == <<feed, unheard, snapshot, listing, sweep, cursor, failures>>

None == 0      \* no cursor; an event is identified by its number of recording

NoAnswer == [seen |-> None, of |-> {}]

Resting == [page |-> 0, newestSeen |-> None, touched |-> {}, reachedCursor |-> FALSE]

Init ==
    /\ feed = <<>>
    /\ unheard = {}
    /\ snapshot = <<>>
    /\ listing = [l \in Listings |-> NoAnswer]
    /\ sweep = Resting
    /\ cursor = None
    /\ failures = 0

\* The events at or behind the cursor: the ones no later sweep will look at.
Accounted ==
    {feed[k].id : k \in {j \in DOMAIN feed : \E c \in DOMAIN feed : feed[c].id = cursor /\ j <= c}}

Without(P) == [p \in DOMAIN snapshot \ P |-> snapshot[p]]
-----------------------------------------------------------------------------
(* The ledger, and the treasury's own writes. *)

\* Someone records an event, perhaps on positions nobody has listed.  recordedAt is stamped
\* before the row is inserted, so the event may appear behind one that is there already, and
\* even behind one a sweep has read.  The treasury waits for the answer to its own,
\* one at a time.
Record(P, own) ==
    LET n == Len(feed)
        event(late) == [id |-> n + 1, touches |-> P, late |-> late]
    IN  /\ n < MaxEvents
        /\ own => unheard = {}
        /\ \/ feed' = Append(feed, event(FALSE))
           \/ /\ n > 0
              /\ feed' = [Append(feed, feed[n]) EXCEPT
                            ![n] = event(feed[n].id \in {cursor, sweep.newestSeen})]
        /\ unheard' = IF own THEN unheard \cup {n + 1} ELSE unheard
        /\ UNCHANGED <<snapshot, listing, sweep, cursor, failures>>

\* forgetPositions, when a submission comes back accepted; a lost answer forgets nothing.
HearOwn(id) ==
    /\ id \in unheard
    /\ unheard' = unheard \ {id}
    /\ \/ \E k \in DOMAIN feed : feed[k].id = id /\ snapshot' = Without(feed[k].touches)
       \/ UNCHANGED snapshot
    /\ UNCHANGED <<feed, listing, sweep, cursor, failures>>
-----------------------------------------------------------------------------
(* Listings. *)

\* The ledger answers a listing with a page of positions.
ListRead(l, P) ==
    /\ listing[l] = NoAnswer
    /\ listing' = [listing EXCEPT ![l] = [seen |-> Len(feed), of |-> P]]
    /\ UNCHANGED <<feed, unheard, snapshot, sweep, cursor, failures>>

\* The refresher has its bearings, and the answer knew every event they account for.
Timely(answer) == cursor # None /\ \A id \in Accounted : id <= answer.seen

\* PositionSnapshot.remember: the last answer to arrive wins.
remember(answer) ==
    snapshot' = [p \in DOMAIN snapshot \cup answer.of |->
                    IF p \in answer.of THEN [seen |-> answer.seen, timely |-> Timely(answer)]
                    ELSE snapshot[p]]

\* The answer arrives and is remembered, or it never does and the listing is unavailable.
ListReturns(l) ==
    /\ listing[l] # NoAnswer
    /\ listing' = [listing EXCEPT ![l] = NoAnswer]
    /\ remember(listing[l]) \/ UNCHANGED snapshot
    /\ UNCHANGED <<feed, unheard, sweep, cursor, failures>>
-----------------------------------------------------------------------------
(* The refresher. *)

\* setInterval, and once at boot.
SweepStarts ==
    /\ sweep = Resting
    /\ sweep' = [Resting EXCEPT !.page = 1, !.reachedCursor = (cursor = None)]
    /\ UNCHANGED <<feed, unheard, snapshot, listing, cursor, failures>>

\* recentlyRecorded: one page, newest first, of the feed as it is now.
recentlyRecorded(page) ==
    {k \in DOMAIN feed : /\ k <= Len(feed) - (page - 1) * PAGE_SIZE
                         /\ k > Len(feed) - page * PAGE_SIZE}

\* The events of a page that come before the cursor.
BeforeCursor(page) == {k \in page : \A c \in page : feed[c].id = cursor => k > c}

\* Slip: what earlier pages touched is dropped.
Turn_LastPage(page) ==
    [page |-> sweep.page,
     newestSeen |-> IF sweep.newestSeen = None /\ page # {} THEN feed[Max(page)].id
                    ELSE sweep.newestSeen,
     touched |-> UNION {feed[k].touches : k \in BeforeCursor(page)},
     reachedCursor |-> \/ sweep.reachedCursor \/ page = {}
                       \/ \E k \in page : feed[k].id = cursor]

\* One turn of the loop: the sweep with one more page accounted for.
Turn(page) ==
    [page |-> sweep.page,
     newestSeen |-> IF sweep.newestSeen = None /\ page # {} THEN feed[Max(page)].id
                    ELSE sweep.newestSeen,
     touched |-> sweep.touched \cup UNION {feed[k].touches : k \in BeforeCursor(page)},
     reachedCursor |-> \/ sweep.reachedCursor \/ page = {}
                       \/ \E k \in page : feed[k].id = cursor]

\* Slip: too far behind, the sweep forgets only what it saw.
Finish_Partial(done) ==
    /\ snapshot' = IF cursor = None THEN snapshot ELSE Without(done.touched)
    /\ cursor' = IF done.newestSeen # None THEN done.newestSeen ELSE cursor

\* Slip: too far behind, the sweep also drops its bearings.
Finish_StartsOver(done) ==
    /\ snapshot' = IF cursor = None THEN snapshot
                   ELSE IF done.reachedCursor THEN Without(done.touched)
                   ELSE Without(DOMAIN snapshot)
    /\ cursor' = IF done.reachedCursor /\ done.newestSeen # None THEN done.newestSeen ELSE None

\* After the loop: the first sweep takes its bearings, one that met the cursor forgets what
\* was touched, one that did not forgets everything.
Finish(done) ==
    /\ snapshot' = IF cursor = None THEN snapshot
                   ELSE IF done.reachedCursor THEN Without(done.touched)
                   ELSE Without(DOMAIN snapshot)
    /\ cursor' = IF done.newestSeen # None THEN done.newestSeen ELSE cursor

\* A page is read and walked; the loop ends at the cursor, at the end of the feed, or at
\* MAX_PAGES.
ReadPage ==
    /\ sweep # Resting
    /\ LET done == Turn(recentlyRecorded(sweep.page))
           over == done.reachedCursor \/ sweep.page = MAX_PAGES
       IN  IF over THEN sweep' = Resting /\ Finish(done)
           ELSE sweep' = [done EXCEPT !.page = @ + 1] /\ UNCHANGED <<snapshot, cursor>>
    /\ UNCHANGED <<feed, unheard, listing, failures>>

\* The ledger cannot be reached: the sweep is dropped, the cursor stays.
ReadFails ==
    /\ sweep # Resting
    /\ failures < MaxFailures
    /\ failures' = failures + 1
    /\ sweep' = Resting
    /\ UNCHANGED <<feed, unheard, snapshot, listing, cursor>>
-----------------------------------------------------------------------------
Next ==
    \/ \E P \in SUBSET Positions, own \in BOOLEAN : Record(P, own)
    \/ \E id \in unheard : HearOwn(id)
    \/ \E l \in Listings : (\E P \in SUBSET Positions \ {{}} : ListRead(l, P)) \/ ListReturns(l)
    \/ SweepStarts
    \/ ReadPage
    \/ ReadFails

\* The timer goes on firing, and a request is answered or times out.
Spec == Init /\ [][Next]_vars /\ WF_vars(SweepStarts) /\ WF_vars(ReadPage \/ ReadFails)
-----------------------------------------------------------------------------
(* What the sweep achieves. *)

\* The events on a position that a copy of it does not show, among some, but for those that
\* appeared behind an event the refresher had read: those no sweep sees.
Missed(p, ids) ==
    {k \in DOMAIN feed : /\ feed[k].id \in ids
                        /\ feed[k].id > snapshot[p].seen
                        /\ p \in feed[k].touches
                        /\ ~feed[k].late}

\* "Keeps the snapshot honest against writers treasury did not make": a copy that was no
\* older than the cursor when it was put away is current up to the cursor, although pages are
\* read one at a time from a feed that moves, a sweep may give up or fail half way, and
\* answers arrive late.
SweptIsCurrent ==
    \A p \in DOMAIN snapshot : snapshot[p].timely => Missed(p, Accounted) = {}

\* The cursor never moves back: what one sweep accounted for, the next does not walk again.
CursorAdvances == [][Accounted \subseteq Accounted']_vars

\* However often the ledger is out of reach, a copy that has fallen behind does not stay:
\* it is forgotten, or the position is read again.
StaleIsForgotten ==
    \A p \in Positions :
        (p \in DOMAIN snapshot /\ snapshot[p].timely /\ Missed(p, 1 .. MaxEvents) # {})
            ~> (p \notin DOMAIN snapshot \/ ~snapshot[p].timely \/ Missed(p, 1 .. MaxEvents) = {})
=============================================================================
