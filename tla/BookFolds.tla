------------------------------ MODULE BookFolds ------------------------------
(***************************************************************************)
(* What a book adds up to.  A book is the sequence of recorded events in   *)
(* insertion order; an event is                                            *)
(*                                                                         *)
(*   [cmd, related, previousHash, recordedAt]                              *)
(*                                                                         *)
(* where cmd is the command it was created from.  The identifier (a random *)
(* UUID) and the hash (a digest that covers the UUID) of an event are both *)
(* its position in the book, so related and previousHash are positions,    *)
(* or None.                                                                *)
(*                                                                         *)
(* Two readings of "which events still stand" live side by side in the     *)
(* code: the TypeScript fold over the events a caller has loaded           *)
(* (application/dtos/retractionUtils.ts) and the pair of nested NOT EXISTS *)
(* over the whole table (TypeOrmLedgerEventRepository.ts).                 *)
(***************************************************************************)
EXTENDS EventPolicy, FiniteSetsExt

Ids(book) == DOMAIN book

IsRetraction(book, r) == book[r].related # None /\ Carries(book[r].cmd, "RETRACTS")

Retracts(book, r, t) == IsRetraction(book, r) /\ book[r].related = t

\* ORDER BY recorded_at, ties in insertion order (the index ends in the rowid).
Before(book, i, j) ==
    \/ book[i].recordedAt < book[j].recordedAt
    \/ book[i].recordedAt = book[j].recordedAt /\ i < j

\* findByObjectId
EventsOf(book, object) ==
    {i \in Ids(book) : \E o \in Range(book[i].cmd.objects) : o.objectId = object}

\* retractedEventIds over the loaded events S: the map from target to retraction
\* keeps the last retraction of each target, and a target is retracted unless that
\* retraction is itself a key of the map.
retractedEventIds(book, S) ==
    {t \in Ids(book) :
        \E r \in S : /\ Retracts(book, r, t)
                     /\ \A q \in S : Retracts(book, q, t) => q = r \/ Before(book, q, r)
                     /\ \A q \in S : ~Retracts(book, q, r)}

\* Slip: a single NOT EXISTS, so a retracted retraction still counts.
SqlRetracted_OneHop(book) ==
    {t \in Ids(book) : \E r \in Ids(book) : Retracts(book, r, t)}

\* notRetracted: some retraction of t, anywhere in the table, is not itself retracted.
SqlRetracted(book) ==
    {t \in Ids(book) :
        \E r \in Ids(book) : /\ Retracts(book, r, t)
                             /\ \A q \in Ids(book) : ~Retracts(book, q, r)}

\* How often an event declares a relation of a set on an object: the loops of the
\* folds visit every object entry, and nothing forbids naming an object twice.
Mentions(event, object, relations) ==
    Quantify(DOMAIN event.cmd.objects,
             LAMBDA k : /\ event.cmd.objects[k].objectId = object
                        /\ event.cmd.objects[k].relation \in relations)

Units(book, S, object, relations) ==
    SumFunction([i \in S |-> book[i].cmd.amount * Mentions(book[i], object, relations)])

\* The totals of one object over the events of S.
Totals(book, S, object) ==
    [originated  |-> Units(book, S, object, {"ORIGINATES"}),
     closed      |-> Units(book, S, object, {"SETTLES", "ADJUSTS"}),
     hasReversal |-> \E i \in S : Mentions(book[i], object, {"REVERSES"}) > 0]

foldObjectTotals(book, object) ==
    LET S == EventsOf(book, object)
    IN  Totals(book, S \ retractedEventIds(book, S), object)

\* The aggregate the listings read: the same sums over what the SQL says stands.
SqlObjectTotals(book, object) ==
    Totals(book, EventsOf(book, object) \ SqlRetracted(book), object)
=============================================================================
