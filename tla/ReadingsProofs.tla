--------------------------- MODULE ReadingsProofs ---------------------------
(***************************************************************************)
(* Proofs about Readings: what the several queries of a cash statement     *)
(* count while the book moves, that statements of adjoining periods chain, *)
(* and that the ways of reading a position agree.                          *)
(***************************************************************************)
EXTENDS Readings, BookProofs, SequenceTheorems

-----------------------------------------------------------------------------
(* The book, one admitted event at a time. *)

\* Every recorded event is of an amount.
Substantial == \A i \in Ids(book) : book[i].cmd.amount # 0

BookInv == TypeOK /\ LineageGrounded /\ Unique /\ Substantial

\* Event new has joined the book, and nothing speaks of it yet.
Joins(new) ==
    /\ Grows /\ Ids(book)' = Ids(book) \cup {new} /\ new \notin Ids(book)
    /\ \A i \in Ids(book)' : book'[i].related # new

LEMMA RecordJoins ==
    ASSUME BookInv, Records
    PROVE  BookInv' /\ Joins(Len(book) + 1)
<1> DEFINE new == Len(book) + 1
<1>1. PICK c \in Commands, target \in {None} \cup Ids(book), at \in 0..MaxClock : Atomic!Record(c, target, at)
  BY DEF Records
<1> DEFINE e == [cmd |-> c, related |-> target, previousHash |-> Len(book), recordedAt |-> at]
<1>0. Len(book) \in Nat /\ Ids(book) = 1..Len(book) /\ Len(book) < MaxEvents /\ MaxEvents \in Nat
  BY BookAssumption DEF BookInv, TypeOK, Ids, Records
<1>2. e \in Events
  BY <1>0 DEF Events, None, UnknownId
<1>3. book' = Append(book, e) /\ Admissible(book, c, target)
  BY <1>1 DEF Atomic!Record
<1>4. /\ Grows /\ Ids(book)' = Ids(book) \cup {new}
      /\ book'[new] = e /\ new \notin Ids(book) /\ \A i \in Ids(book) : i < new
  BY <1>0, <1>2, <1>3, SaveGrows DEF BookInv
<1>5. e.cmd = c /\ e.related = target
  OBVIOUS
<1>6. TypeOK'
  BY <1>0, <1>2, <1>3 DEF BookInv, TypeOK, LocalsOK, Records
<1> HIDE DEF e
<1>7. Unique'
  BY <1>1, RecordKeepsUnique DEF BookInv
<1>8. \A i \in Ids(book) : book[i].related # None => book[i].related \in Ids(book) /\ book[i].related < i
  BY TargetRecorded DEF BookInv
<1>9. LineageGrounded'
  <2> SUFFICES ASSUME NEW i \in Ids(book)', book'[i].related # None
               PROVE  LET allowed == EVENT_CONTRACTS[book'[i].cmd.eventType].allowedOriginTypes
                      IN  /\ book'[i].related < i
                          /\ allowed = {} \/ book'[book'[i].related].cmd.eventType \in allowed
    BY DEF LineageGrounded
  <2>1. CASE i \in Ids(book)
    <3>1. book'[i] = book[i] /\ book'[book[i].related] = book[book[i].related]
      BY <1>4, <1>8, <2>1 DEF Grows
    <3> QED BY <1>8, <2>1, <3>1 DEF LineageGrounded, BookInv
  <2>2. CASE i = new
    <3>1. target \in Ids(book) /\ book'[target] = book[target]
      BY <1>4, <1>5, <2>2 DEF Grows
    <3> QED BY <1>3, <1>4, <1>5, <2>2, <3>1 DEF Admissible
  <2> QED BY <1>4, <2>1, <2>2
<1>10. \A i \in Ids(book)' : book'[i].related # new
  BY <1>0, <1>4, <1>5, <1>8 DEF Grows, None
<1>11. Substantial'
  <2>1. c.amount # 0
    BY <1>3 DEF Admissible, ValidEvent, HasSubstance
  <2> QED BY <1>4, <1>5, <2>1 DEF BookInv, Substantial, Grows
<1> QED BY <1>4, <1>6, <1>7, <1>9, <1>10, <1>11 DEF BookInv, Joins

\* Only a recorded event changes the book.
LEMMA BookStep ==
    ASSUME BookInv, [ReadNext]_readVars
    PROVE  BookInv'
<1>1. CASE Records
  BY <1>1, RecordJoins
<1>2. CASE UNCHANGED <<book, clock, writer>>
  BY <1>2 DEF BookInv, TypeOK, LocalsOK, LineageGrounded, Unique, SourceReferenceUnique,
     OneRetractionPerTarget, HashChainLinear, Substantial, Ids, Retracts, IsRetraction
<1> QED BY <1>1, <1>2 DEF ReadNext, readVars, Statement, Walk, Ends, StatementStarts, StatementReadsPeriod,
       StatementHops, StatementHopEnds, WalkStarts, WalkReads

LEMMA BookAtFirst == ReadInit => BookInv
BY TypeAtFirst DEF ReadInit, Init, BookInv, LineageGrounded, Unique, SourceReferenceUnique,
   OneRetractionPerTarget, HashChainLinear, Substantial, Ids
-----------------------------------------------------------------------------
(* The cash statement. *)

Requests ==
    [op : {"opened", "firstHop", "secondHop", "stated"}, from : Nat, to : Nat, opening : SUBSET Nat,
     period : SUBSET Nat, due : SUBSET Nat, hops : SUBSET Nat, found : SUBSET Nat, counted : SUBSET Nat,
     stood : SUBSET Nat, always : SUBSET Nat]

\* The walk over the movements, of which nothing is said here.
Walking == reader.op \in {"walk", "walked"} /\ "op" \in DOMAIN reader

MovesCash(i) == book[i].cmd.effect \in Cash

InPeriod(i) == book[i].cmd.occurredAt \in reader.from .. reader.to

\* The history of the request is about the standing events.
History ==
    /\ reader.from <= reader.to
    /\ SqlStanding(book) \subseteq reader.stood /\ reader.stood \subseteq Ids(book)
    /\ reader.always \subseteq SqlStanding(book)

OpeningOK ==
    /\ \A i \in reader.opening : i \in reader.stood /\ MovesCash(i) /\ book[i].cmd.occurredAt < reader.from
    /\ \A i \in reader.always : MovesCash(i) /\ book[i].cmd.occurredAt < reader.from => i \in reader.opening

PeriodOK ==
    /\ reader.period \subseteq Ids(book)
    /\ \A i \in reader.period : InPeriod(i)
    /\ \A i \in reader.always : InPeriod(i) => i \in reader.period

\* The retractions of the events E have been looked for, and F is what was found: an event
\* with none among them stood then, and one retracted since has not always stood.
Looked(E, F) ==
    \A e \in E : /\ e \in reader.stood \/ \E r \in F : Retracts(book, r, e)
                 /\ \A r \in Ids(book) : Retracts(book, r, e) => r \in F \/ e \notin reader.always

\* The same of the retractions among R: what they retract has not always stood if they were
\* retracted since.
LookedAgain(R, F) ==
    \A r \in R : \/ ~IsRetraction(book, r)
                 \/ \A q \in Ids(book) : Retracts(book, q, r) => q \in F
                 \/ book[r].related \notin reader.always

CashPeriod == {i \in reader.period : MovesCash(i)}

FirstHopOK ==
    /\ reader.due \subseteq CashPeriod /\ reader.hops = {} /\ reader.found \subseteq Ids(book)
    /\ Looked(CashPeriod \ reader.due, reader.found)

SecondHopOK ==
    /\ reader.due \subseteq reader.hops /\ reader.hops \subseteq Ids(book) /\ reader.found \subseteq Ids(book)
    /\ Looked(CashPeriod, reader.hops)
    /\ LookedAgain(reader.hops \ reader.due, reader.found)

StatedOK ==
    /\ \A i \in reader.counted : i \in reader.stood /\ MovesCash(i) /\ InPeriod(i)
    /\ \A i \in reader.always : MovesCash(i) /\ InPeriod(i) /\ MovesOwnCash(book[i]) => i \in reader.counted

StatementOK ==
    /\ reader \in Requests
    /\ History
    /\ OpeningOK
    /\ reader.op = "opened" => reader.hops = {} /\ reader.found = {}
    /\ reader.op # "opened" => PeriodOK
    /\ reader.op = "firstHop" => FirstHopOK
    /\ reader.op = "secondHop" => SecondHopOK
    /\ reader.op = "stated" => StatedOK

ReaderInv == reader = AtRest \/ Walking \/ StatementOK

\* What is said of the standing events.
LEMMA StandsUnless ==
    ASSUME NEW i \in Ids(book)
    PROVE  i \in SqlStanding(book) <=>
              \A r \in Ids(book) : Retracts(book, r, i) => \E q \in Ids(book) : Retracts(book, q, r)
BY DEF SqlStanding, SqlRetracted

\* A record leaves what the request holds alone, and its history goes on.
SameRequest ==
    /\ reader' \in Requests /\ reader'.op = reader.op
    /\ reader'.from = reader.from /\ reader'.to = reader.to
    /\ reader'.opening = reader.opening /\ reader'.period = reader.period
    /\ reader'.due = reader.due /\ reader'.hops = reader.hops /\ reader'.found = reader.found
    /\ reader'.counted = reader.counted

LEMMA RequestGoesOn ==
    ASSUME reader \in Requests, NEW S \in SUBSET Nat,
           reader' = [reader EXCEPT !.stood = @ \cup S, !.always = @ \cap S]
    PROVE  /\ SameRequest
           /\ reader'.stood = reader.stood \cup S /\ reader'.always = reader.always \cap S
<1>1. \A r \in Requests : LET n == [r EXCEPT !.stood = @ \cup S, !.always = @ \cap S] IN
        /\ n \in Requests /\ n.op = r.op /\ n.from = r.from /\ n.to = r.to /\ n.opening = r.opening
        /\ n.period = r.period /\ n.due = r.due /\ n.hops = r.hops /\ n.found = r.found
        /\ n.counted = r.counted /\ n.stood = r.stood \cup S /\ n.always = r.always \cap S
  BY DEF Requests
<1> QED BY <1>1 DEF SameRequest

\* What the events say of themselves does not change.
LEMMA EventsStay ==
    ASSUME Grows, SameRequest, NEW i \in Ids(book)
    PROVE  /\ i \in Ids(book)' /\ book'[i] = book[i] /\ (MovesCash(i)' <=> MovesCash(i)) /\ (InPeriod(i)' <=> InPeriod(i))
           /\ (IsRetraction(book', i) <=> IsRetraction(book, i))
           /\ \A t : Retracts(book', i, t) <=> Retracts(book, i, t)
BY DEF Grows, SameRequest, MovesCash, InPeriod, IsRetraction, Retracts

LEMMA StatementRecords ==
    ASSUME BookInv, BookInv', StatementOK, NEW new, Joins(new), SameRequest,
           reader'.stood = reader.stood \cup SqlStanding(book)',
           reader'.always = reader.always \cap SqlStanding(book)'
    PROVE  StatementOK'
<1>0. /\ Grows /\ Ids(book)' = Ids(book) \cup {new} /\ new \notin Ids(book)
      /\ \A i \in Ids(book)' : ~Retracts(book', i, new)
      /\ reader.always \subseteq Ids(book) /\ reader'.always \subseteq reader.always
      /\ reader.stood \subseteq reader'.stood /\ reader.stood \subseteq Ids(book)
  BY DEF Joins, Retracts, StatementOK, History, SqlStanding
<1>1. \A i \in Ids(book) : /\ i \in Ids(book)' /\ book'[i] = book[i]
                           /\ (MovesCash(i)' <=> MovesCash(i)) /\ (InPeriod(i)' <=> InPeriod(i))
                           /\ (IsRetraction(book', i) <=> IsRetraction(book, i))
                           /\ \A t : Retracts(book', i, t) <=> Retracts(book, i, t)
  BY <1>0, EventsStay
<1>2. History'
  BY <1>0 DEF StatementOK, History, SqlStanding, SameRequest
<1>3. OpeningOK'
  BY <1>0, <1>1 DEF StatementOK, OpeningOK, SameRequest
<1>4. ASSUME PeriodOK PROVE PeriodOK'
  BY <1>0, <1>1, <1>4 DEF PeriodOK, SameRequest
<1>5. ASSUME PeriodOK PROVE CashPeriod' = CashPeriod /\ CashPeriod \subseteq Ids(book)
  BY <1>1, <1>5 DEF PeriodOK, CashPeriod, SameRequest
<1>6. \* A retraction that joins: what it retracts stands no longer.
      ASSUME NEW e \in Ids(book), Retracts(book', new, e) PROVE e \notin reader'.always
  <2>1. e \in SqlRetracted(book)'
    BY <1>0, <1>1, <1>6 DEF SqlRetracted
  <2> QED BY <2>1 DEF SqlStanding
<1>7. ASSUME NEW E \in SUBSET Ids(book), NEW F \in SUBSET Ids(book), Looked(E, F) PROVE Looked(E, F)'
  <2> SUFFICES ASSUME NEW e \in E
               PROVE  /\ e \in reader'.stood \/ \E r \in F : Retracts(book', r, e)
                      /\ \A r \in Ids(book)' : Retracts(book', r, e) => r \in F \/ e \notin reader'.always
    BY DEF Looked
  <2>1. e \in reader.stood \/ \E r \in F : Retracts(book, r, e)
    BY <1>7 DEF Looked
  <2>2. \A r \in Ids(book) : Retracts(book, r, e) => r \in F \/ e \notin reader.always
    BY <1>7 DEF Looked
  <2> QED BY <1>0, <1>1, <1>6, <2>1, <2>2
<1>8. ASSUME NEW R \in SUBSET Ids(book), NEW F \in SUBSET Ids(book), LookedAgain(R, F) PROVE LookedAgain(R, F)'
  <2> SUFFICES ASSUME NEW r \in R, IsRetraction(book', r), NEW q \in Ids(book)', Retracts(book', q, r), q \notin F
               PROVE  book'[r].related \notin reader'.always
    BY DEF LookedAgain
  <2>1. IsRetraction(book, r) /\ book'[r] = book[r]
    BY <1>1
  <2>2. CASE q \in Ids(book)
    BY <1>0, <1>1, <1>8, <2>1, <2>2 DEF LookedAgain
  <2>3. CASE q = new
    <3> DEFINE t == book[r].related
    <3>1. \A p \in Ids(book) : ~Retracts(book, p, r)
      <4>1. ASSUME NEW p \in Ids(book), Retracts(book, p, r) PROVE p = new
        <5>1. Retracts(book', p, r) /\ p \in Ids(book)' /\ r \in Ids(book)'
          BY <1>1, <4>1
        <5> QED BY <2>3, <5>1 DEF BookInv, Unique, OneRetractionPerTarget
      <4> QED BY <1>0, <4>1
    <3>2. Retracts(book, r, t)
      BY <2>1 DEF Retracts
    <3>3. t \notin SqlStanding(book)
      BY <3>1, <3>2 DEF SqlStanding, SqlRetracted
    <3> QED BY <1>0, <2>1, <3>3 DEF StatementOK, History
  <2> QED BY <1>0, <2>2, <2>3
<1>9. ASSUME PeriodOK, FirstHopOK PROVE FirstHopOK'
  <2>1. Looked(CashPeriod \ reader.due, reader.found)'
    <3>1. PICK E : E = CashPeriod \ reader.due
      OBVIOUS
    <3>2. PICK F : F = reader.found
      OBVIOUS
    <3>3. Looked(E, F)'
      BY <1>5, <1>7, <1>9, <3>1, <3>2 DEF FirstHopOK
    <3> QED BY <1>5, <1>9, <3>1, <3>2, <3>3 DEF SameRequest
  <2> QED BY <1>0, <1>5, <1>9, <2>1 DEF FirstHopOK, SameRequest
<1>10. ASSUME PeriodOK, SecondHopOK PROVE SecondHopOK'
  <2>1. PICK E : E = CashPeriod
    OBVIOUS
  <2>2. PICK H : H = reader.hops
    OBVIOUS
  <2>3. PICK R : R = reader.hops \ reader.due
    OBVIOUS
  <2>4. PICK F : F = reader.found
    OBVIOUS
  <2>5. Looked(E, H)'
    BY <1>5, <1>7, <1>10, <2>1, <2>2 DEF SecondHopOK
  <2>6. LookedAgain(R, F)'
    BY <1>8, <1>10, <2>3, <2>4 DEF SecondHopOK
  <2>7. CashPeriod' = E /\ reader'.hops = H /\ reader'.hops \ reader'.due = R /\ reader'.found = F
    BY <1>5, <1>10, <2>1, <2>2, <2>3, <2>4 DEF SameRequest
  <2> QED BY <1>0, <1>10, <2>5, <2>6, <2>7 DEF SecondHopOK, SameRequest
<1>11. ASSUME StatedOK PROVE StatedOK'
  BY <1>0, <1>1, <1>11 DEF StatedOK, SameRequest
<1> QED BY <1>2, <1>3, <1>4, <1>9, <1>10, <1>11 DEF StatementOK, SameRequest

\* The book stands still while the request moves on.
BookStill == UNCHANGED book /\ reader \in Requests /\ reader' \in Requests

\* The history of a request that reads.
LEMMA HistoryStays ==
    ASSUME BookStill, History, OpeningOK, reader'.from = reader.from, reader'.to = reader.to,
           reader'.opening = reader.opening, reader'.stood = reader.stood, reader'.always = reader.always
    PROVE  History' /\ OpeningOK'
BY DEF BookStill, History, OpeningOK, SqlStanding, SqlRetracted, Ids, Retracts, IsRetraction, MovesCash

LEMMA StatementBegins ==
    ASSUME BookInv, NEW from \in 1 .. LastDay, NEW to \in 1 .. LastDay, from <= to, StatementStarts(from, to)
    PROVE  StatementOK'
<1>1. /\ reader' = [op |-> "opened", from |-> from, to |-> to, opening |-> FlowsBefore(book, from),
                    period |-> {}, due |-> {}, hops |-> {}, found |-> {}, counted |-> {},
                    stood |-> SqlStanding(book), always |-> SqlStanding(book)]
      /\ UNCHANGED book
  BY DEF StatementStarts
<1>2. SqlStanding(book) \in SUBSET Ids(book) /\ FlowsBefore(book, from) \in SUBSET SqlStanding(book)
  BY DEF SqlStanding, FlowsBefore
<1>3. SqlStanding(book)' = SqlStanding(book) /\ Ids(book)' = Ids(book) /\ Ids(book) \subseteq Nat
  BY <1>1 DEF SqlStanding, SqlRetracted, Ids, Retracts, IsRetraction, BookInv, TypeOK
<1>4. LastDay \in Nat
  BY ReadingsAssumption
<1>5. PICK S \in SUBSET Nat : S = SqlStanding(book)
  BY <1>2, <1>3
<1>6. PICK F \in SUBSET Nat : F = FlowsBefore(book, from)
  BY <1>2, <1>3
<1>7. /\ reader' \in Requests /\ reader'.op = "opened" /\ reader'.from = from /\ reader'.to = to
      /\ reader'.opening = F /\ reader'.stood = S /\ reader'.always = S
  BY <1>1, <1>4, <1>5, <1>6 DEF Requests
<1>8. History'
  BY <1>2, <1>3, <1>5, <1>7 DEF History
<1>9. OpeningOK'
  BY <1>1, <1>5, <1>6, <1>7 DEF OpeningOK, FlowsBefore, MovesCash
<1>10. reader'.hops = {} /\ reader'.found = {}
  BY <1>1
<1> QED BY <1>7, <1>8, <1>9, <1>10 DEF StatementOK

LEMMA PeriodIsRead ==
    ASSUME BookInv, StatementOK, StatementReadsPeriod
    PROVE  StatementOK'
<1> DEFINE P == findByPeriod(book, reader.from, reader.to)
           D == {i \in P : book[i].cmd.effect \in Cash}
<1>1. reader' = [reader EXCEPT !.op = "firstHop", !.period = P, !.due = D] /\ UNCHANGED book /\ reader \in Requests
  BY DEF StatementReadsPeriod, StatementOK
<1>2. P \subseteq Ids(book) /\ Ids(book) \subseteq Nat /\ P \in SUBSET Nat /\ D \in SUBSET Nat
  BY DEF findByPeriod, BookInv, TypeOK, Ids
<1>3. \A i \in P : InPeriod(i)
  BY DEF findByPeriod, InPeriod
<1>4. \A i \in reader.always : InPeriod(i) => i \in P
  BY DEF findByPeriod, InPeriod, StatementOK, History, SqlStanding
<1>5. D = {i \in P : MovesCash(i)}
  BY DEF MovesCash
<1> HIDE DEF P, D
<1>6. \A r \in Requests : LET n == [r EXCEPT !.op = "firstHop", !.period = P, !.due = D] IN
        /\ n \in Requests /\ n.op = "firstHop" /\ n.from = r.from /\ n.to = r.to /\ n.opening = r.opening
        /\ n.period = P /\ n.due = D /\ n.hops = r.hops /\ n.found = r.found
        /\ n.stood = r.stood /\ n.always = r.always
  BY <1>2 DEF Requests
<1>7. /\ reader' \in Requests /\ reader'.op = "firstHop" /\ reader'.from = reader.from /\ reader'.to = reader.to
      /\ reader'.opening = reader.opening /\ reader'.period = P /\ reader'.due = D
      /\ reader'.hops = reader.hops /\ reader'.found = reader.found
      /\ reader'.stood = reader.stood /\ reader'.always = reader.always
  BY <1>1, <1>6
<1>8. History' /\ OpeningOK'
  BY <1>1, <1>7, HistoryStays DEF BookStill, StatementOK
<1>9. PeriodOK'
  BY <1>1, <1>2, <1>3, <1>4, <1>7 DEF PeriodOK, InPeriod, Ids
<1>10. CashPeriod' = D
  BY <1>1, <1>5, <1>7 DEF CashPeriod, MovesCash
<1>11. FirstHopOK'
  <2>1. reader.hops = {} /\ reader.found = {}
    BY DEF StatementOK, StatementReadsPeriod
  <2>2. CashPeriod' \ reader'.due = {}
    BY <1>7, <1>10
  <2> QED BY <1>7, <1>10, <2>1, <2>2 DEF FirstHopOK, Looked
<1> QED BY <1>7, <1>8, <1>9, <1>11 DEF StatementOK

\* Looking at a book that stands still.
LEMMA LookedStays ==
    ASSUME UNCHANGED book, reader'.stood = reader.stood, reader'.always = reader.always
    PROVE  /\ \A E : \A F : Looked(E, F) <=> Looked(E, F)'
           /\ \A R : \A F : LookedAgain(R, F) <=> LookedAgain(R, F)'
BY DEF Looked, LookedAgain, Ids, Retracts, IsRetraction

LEMMA HopIsMade ==
    ASSUME BookInv, StatementOK, NEW e, StatementHops(e)
    PROVE  StatementOK'
<1> DEFINE G == findByRelatedEventId(book, e)
<1>1. /\ reader' = [reader EXCEPT !.due = @ \ {e}, !.found = @ \cup G]
      /\ UNCHANGED book /\ reader \in Requests /\ e \in reader.due
  BY DEF StatementHops, StatementOK
<1>2. G \in SUBSET Ids(book) /\ Ids(book) \in SUBSET Nat /\ G \in SUBSET Nat
  BY DEF findByRelatedEventId, BookInv, TypeOK, Ids
<1>3. \A r \in Ids(book) : Retracts(book, r, e) => r \in G
  BY DEF findByRelatedEventId, Retracts
<1> HIDE DEF G
<1>4. \A r \in Requests : LET n == [r EXCEPT !.due = @ \ {e}, !.found = @ \cup G] IN
        /\ n \in Requests /\ n.op = r.op /\ n.from = r.from /\ n.to = r.to /\ n.opening = r.opening
        /\ n.period = r.period /\ n.due = r.due \ {e} /\ n.hops = r.hops /\ n.found = r.found \cup G
        /\ n.stood = r.stood /\ n.always = r.always
  BY <1>2 DEF Requests
<1>5. /\ reader' \in Requests /\ reader'.op = reader.op /\ reader'.from = reader.from /\ reader'.to = reader.to
      /\ reader'.opening = reader.opening /\ reader'.period = reader.period /\ reader'.due = reader.due \ {e}
      /\ reader'.hops = reader.hops /\ reader'.found = reader.found \cup G
      /\ reader'.stood = reader.stood /\ reader'.always = reader.always
  BY <1>1, <1>4
<1>6. History' /\ OpeningOK'
  BY <1>1, <1>5, HistoryStays DEF BookStill, StatementOK
<1>7. reader.op \in {"firstHop", "secondHop"} /\ PeriodOK
  BY DEF StatementHops, StatementOK
<1>8. PeriodOK' /\ CashPeriod' = CashPeriod
  BY <1>1, <1>5, <1>7 DEF PeriodOK, InPeriod, Ids, CashPeriod, MovesCash
<1>9. ASSUME reader.op = "firstHop" PROVE FirstHopOK'
  <2>1. FirstHopOK
    BY <1>9 DEF StatementOK
  <2>2. \A x \in CashPeriod \ (reader.due \ {e}) : x = e \/ x \in CashPeriod \ reader.due
    OBVIOUS
  <2>3. e \in Ids(book)
    BY <1>1, <1>7, <2>1 DEF FirstHopOK, CashPeriod, PeriodOK
  <2>4. e \in reader.stood \/ \E r \in G : Retracts(book, r, e)
    BY <1>3, <2>3, StandsUnless DEF StatementOK, History
  <2>5. Looked(CashPeriod \ (reader.due \ {e}), reader.found \cup G)
    BY <1>3, <2>1, <2>2, <2>4 DEF FirstHopOK, Looked
  <2>6. Looked(CashPeriod \ reader.due, reader.found)'
    BY <1>1, <1>5, <1>8, <2>5, LookedStays
  <2> QED BY <1>1, <1>2, <1>5, <1>8, <2>1, <2>6 DEF FirstHopOK, Ids
<1>10. ASSUME reader.op = "secondHop" PROVE SecondHopOK'
  <2>1. SecondHopOK
    BY <1>10 DEF StatementOK
  <2>2. \A x \in reader.hops \ (reader.due \ {e}) : x = e \/ x \in reader.hops \ reader.due
    OBVIOUS
  <2>3. LookedAgain(reader.hops \ (reader.due \ {e}), reader.found \cup G)
    BY <1>3, <2>1, <2>2 DEF SecondHopOK, LookedAgain
  <2>4. LookedAgain(reader.hops \ reader.due, reader.found)' /\ Looked(CashPeriod, reader.hops)'
    BY <1>1, <1>5, <1>8, <2>1, <2>3, LookedStays DEF SecondHopOK
  <2> QED BY <1>1, <1>2, <1>5, <2>1, <2>4 DEF SecondHopOK, Ids
<1> QED BY <1>5, <1>6, <1>7, <1>8, <1>9, <1>10 DEF StatementOK

LEMMA FirstHopEnds ==
    ASSUME BookInv, StatementOK, StatementHopEnds, reader.op = "firstHop"
    PROVE  StatementOK'
<1> DEFINE H == reader.hops \cup reader.found
<1>1. /\ reader' = [reader EXCEPT !.op = "secondHop", !.hops = H, !.due = reader.found, !.found = {}]
      /\ UNCHANGED book /\ reader \in Requests /\ reader.due = {} /\ FirstHopOK /\ PeriodOK
  BY DEF StatementHopEnds, StatementOK
<1>2. H = reader.found /\ H \in SUBSET Nat
  BY <1>1 DEF FirstHopOK, Requests
<1>3. \A r \in Requests : LET n == [r EXCEPT !.op = "secondHop", !.hops = H, !.due = r.found, !.found = {}] IN
        /\ n \in Requests /\ n.op = "secondHop" /\ n.from = r.from /\ n.to = r.to /\ n.opening = r.opening
        /\ n.period = r.period /\ n.due = r.found /\ n.hops = H /\ n.found = {}
        /\ n.stood = r.stood /\ n.always = r.always
  <2> HIDE DEF H
  <2> QED BY <1>2 DEF Requests
<1>4. /\ reader' \in Requests /\ reader'.op = "secondHop" /\ reader'.from = reader.from /\ reader'.to = reader.to
      /\ reader'.opening = reader.opening /\ reader'.period = reader.period /\ reader'.due = reader.found
      /\ reader'.hops = reader.found /\ reader'.found = {}
      /\ reader'.stood = reader.stood /\ reader'.always = reader.always
  BY <1>1, <1>2, <1>3
<1>5. History' /\ OpeningOK'
  BY <1>1, <1>4, HistoryStays DEF BookStill, StatementOK
<1>6. PeriodOK' /\ CashPeriod' = CashPeriod
  BY <1>1, <1>4 DEF PeriodOK, InPeriod, Ids, CashPeriod, MovesCash
<1>7. Looked(CashPeriod, reader.hops)'
  <2>1. CashPeriod \ reader.due = CashPeriod
    BY <1>1
  <2>2. Looked(CashPeriod, reader.found)
    BY <1>1, <2>1 DEF FirstHopOK
  <2> QED BY <1>1, <1>4, <1>6, <2>2, LookedStays
<1>8. SecondHopOK'
  BY <1>1, <1>4, <1>7 DEF SecondHopOK, LookedAgain, FirstHopOK, Ids
<1> QED BY <1>4, <1>5, <1>6, <1>8 DEF StatementOK

\* An event of the period that the fold over what was found does not call retracted stood at
\* some moment; one that always stood is not called retracted.
LEMMA FoldIsRight ==
    ASSUME BookInv, StatementOK, reader.op = "secondHop", reader.due = {}, NEW e \in CashPeriod
    PROVE  LET gone == retractedEventIds(book, reader.hops \cup reader.found) IN
           /\ e \notin gone => e \in reader.stood
           /\ e \in gone => e \notin reader.always
<1> DEFINE H == reader.hops \cup reader.found
<1>1. SecondHopOK /\ PeriodOK /\ History /\ OneRetractionPerTarget
  BY DEF StatementOK, BookInv, Unique
<1>2. e \in Ids(book) /\ H \subseteq Ids(book)
  BY <1>1 DEF PeriodOK, CashPeriod, SecondHopOK
<1>3. ASSUME e \notin retractedEventIds(book, H), e \notin reader.stood PROVE FALSE
  <2>1. PICK r \in reader.hops : Retracts(book, r, e)
    BY <1>1, <1>3 DEF SecondHopOK, Looked
  <2>2. \A q \in Ids(book) : Retracts(book, q, e) => q = r
    BY <1>1, <1>2, <2>1 DEF OneRetractionPerTarget
  <2>3. \E q \in H : Retracts(book, q, r)
    BY <1>2, <1>3, <2>1, <2>2 DEF retractedEventIds
  <2>4. e \in SqlStanding(book)
    BY <1>2, <2>2, <2>3, StandsUnless
  <2> QED BY <1>1, <1>3, <2>4 DEF History
<1>4. ASSUME e \in retractedEventIds(book, H), e \in reader.always PROVE FALSE
  <2>1. PICK r \in H : Retracts(book, r, e) /\ \A q \in H : ~Retracts(book, q, r)
    BY <1>4 DEF retractedEventIds
  <2>2. r \in reader.hops
    BY <1>1, <1>2, <1>4, <2>1 DEF SecondHopOK, Looked
  <2>3. IsRetraction(book, r) /\ book[r].related = e
    BY <2>1 DEF Retracts
  <2>4. \A q \in Ids(book) : Retracts(book, q, r) => q \in reader.found
    BY <1>1, <1>4, <2>2, <2>3 DEF SecondHopOK, LookedAgain
  <2>5. e \notin SqlStanding(book)
    BY <1>2, <2>1, <2>4, StandsUnless
  <2> QED BY <1>1, <1>4, <2>5 DEF History
<1> QED BY <1>3, <1>4

LEMMA SecondHopEnds ==
    ASSUME BookInv, StatementOK, StatementHopEnds, reader.op = "secondHop"
    PROVE  StatementOK'
<1> DEFINE gone == retractedEventIds(book, reader.hops \cup reader.found)
           C == {i \in reader.period \ gone : book[i].cmd.effect \in Cash /\ MovesOwnCash(book[i])}
<1>1. /\ reader' = [reader EXCEPT !.op = "stated", !.hops = {}, !.found = {}, !.counted = C]
      /\ UNCHANGED book /\ reader \in Requests /\ reader.due = {} /\ PeriodOK /\ History
  BY DEF StatementHopEnds, StatementOK
<1>2. C \in SUBSET Nat
  BY <1>1 DEF Requests
<1>3. \A i \in C : i \in reader.stood /\ MovesCash(i) /\ InPeriod(i)
  <2> SUFFICES ASSUME NEW i \in C PROVE i \in reader.stood /\ MovesCash(i) /\ InPeriod(i)
    OBVIOUS
  <2>1. i \in CashPeriod /\ i \notin gone
    BY DEF CashPeriod, MovesCash
  <2> QED BY <1>1, <2>1, FoldIsRight DEF PeriodOK, CashPeriod
<1>4. \A i \in reader.always : MovesCash(i) /\ InPeriod(i) /\ MovesOwnCash(book[i]) => i \in C
  <2> SUFFICES ASSUME NEW i \in reader.always, MovesCash(i), InPeriod(i), MovesOwnCash(book[i]) PROVE i \in C
    OBVIOUS
  <2>1. i \in CashPeriod
    BY <1>1 DEF PeriodOK, CashPeriod
  <2>2. i \notin gone
    BY <1>1, <2>1, FoldIsRight
  <2> QED BY <2>1, <2>2 DEF CashPeriod, MovesCash
<1> HIDE DEF C
<1>5. \A r \in Requests : LET n == [r EXCEPT !.op = "stated", !.hops = {}, !.found = {}, !.counted = C] IN
        /\ n \in Requests /\ n.op = "stated" /\ n.from = r.from /\ n.to = r.to /\ n.opening = r.opening
        /\ n.period = r.period /\ n.counted = C /\ n.stood = r.stood /\ n.always = r.always
  BY <1>2 DEF Requests
<1>6. /\ reader' \in Requests /\ reader'.op = "stated" /\ reader'.from = reader.from /\ reader'.to = reader.to
      /\ reader'.opening = reader.opening /\ reader'.period = reader.period /\ reader'.counted = C
      /\ reader'.stood = reader.stood /\ reader'.always = reader.always
  BY <1>1, <1>5
<1>7. History' /\ OpeningOK'
  BY <1>1, <1>6, HistoryStays DEF BookStill, StatementOK
<1>8. PeriodOK' /\ StatedOK'
  BY <1>1, <1>3, <1>4, <1>6 DEF PeriodOK, StatedOK, InPeriod, Ids, MovesCash
<1> QED BY <1>6, <1>7, <1>8 DEF StatementOK

\* A statement under way, while nothing changes.
LEMMA StatementStutters ==
    ASSUME StatementOK, UNCHANGED <<book, reader>>
    PROVE  StatementOK'
<1>1. reader' = reader /\ book' = book
  OBVIOUS
<1>2. reader' \in Requests /\ reader \in Requests
  BY <1>1 DEF StatementOK
<1>3. History' /\ OpeningOK'
  BY <1>1, <1>2, HistoryStays DEF BookStill, StatementOK
<1>4. PeriodOK => PeriodOK'
  BY <1>1 DEF PeriodOK, InPeriod, Ids
<1>5. CashPeriod' = CashPeriod
  BY <1>1 DEF CashPeriod, MovesCash
<1>6. FirstHopOK => FirstHopOK'
  BY <1>1, <1>5, LookedStays DEF FirstHopOK, Ids
<1>7. SecondHopOK => SecondHopOK'
  BY <1>1, <1>5, LookedStays DEF SecondHopOK, Ids
<1>8. StatedOK => StatedOK'
  BY <1>1 DEF StatedOK, MovesCash, InPeriod
<1> QED BY <1>1, <1>2, <1>3, <1>4, <1>6, <1>7, <1>8 DEF StatementOK

LEMMA ReaderKept ==
    ASSUME BookInv, ReaderInv, [ReadNext]_readVars
    PROVE  ReaderInv'
<1>1. CASE UNCHANGED <<book, reader>>
  <2>1. CASE reader = AtRest
    BY <1>1, <2>1 DEF ReaderInv, AtRest
  <2>2. CASE Walking
    BY <1>1, <2>2 DEF ReaderInv, Walking
  <2>3. CASE StatementOK
    BY <1>1, <2>3, StatementStutters DEF ReaderInv
  <2> QED BY <2>1, <2>2, <2>3 DEF ReaderInv
<1>2. CASE Records
  <2>1. PICK S : S = SqlStanding(book)'
    OBVIOUS
  <2>2. CASE reader = AtRest
    BY <1>2, <2>2 DEF Records, ReaderInv, AtRest
  <2>3. reader # AtRest => reader' = [reader EXCEPT !.stood = @ \cup S, !.always = @ \cap S]
    BY <1>2, <2>1 DEF Records
  <2>4. CASE Walking /\ reader # AtRest
    BY <2>3, <2>4 DEF Walking, ReaderInv
  <2>5. CASE StatementOK /\ reader # AtRest
    <3>1. BookInv' /\ Joins(Len(book) + 1)
      BY <1>2, RecordJoins
    <3>2. S \in SUBSET Nat
      <4>1. Ids(book)' \subseteq Nat
        BY <3>1 DEF BookInv, TypeOK, Ids
      <4> QED BY <2>1, <4>1 DEF SqlStanding
    <3>3. SameRequest /\ reader'.stood = reader.stood \cup S /\ reader'.always = reader.always \cap S
      BY <2>3, <2>5, <3>2, RequestGoesOn DEF StatementOK
    <3>4. PICK n : n = Len(book) + 1
      OBVIOUS
    <3>5. StatementOK'
      BY <2>1, <2>5, <3>1, <3>3, <3>4, StatementRecords
    <3> QED BY <3>5 DEF ReaderInv
  <2> QED BY <2>2, <2>4, <2>5 DEF ReaderInv
<1>3. CASE Ends
  BY <1>3 DEF Ends, ReaderInv, AtRest
<1>4. ASSUME NEW from \in 1 .. LastDay, NEW to \in 1 .. LastDay, from <= to, StatementStarts(from, to) PROVE ReaderInv'
  BY <1>4, StatementBegins DEF ReaderInv
<1>5. reader.op \in {"opened", "firstHop", "secondHop"} => StatementOK
  BY DEF ReaderInv, AtRest, Walking
<1>6. CASE StatementReadsPeriod
  <2>1. StatementOK
    BY <1>5, <1>6 DEF StatementReadsPeriod
  <2> QED BY <1>6, <2>1, PeriodIsRead DEF ReaderInv
<1>7. CASE StatementHopEnds
  <2>1. StatementOK /\ reader.op \in {"firstHop", "secondHop"}
    BY <1>5, <1>7 DEF StatementHopEnds
  <2> QED BY <1>7, <2>1, FirstHopEnds, SecondHopEnds DEF ReaderInv
<1>8. ASSUME NEW e, StatementHops(e) PROVE ReaderInv'
  <2>1. StatementOK
    BY <1>5, <1>8 DEF StatementHops
  <2> QED BY <1>8, <2>1, HopIsMade DEF ReaderInv
<1>9. CASE WalkStarts
  BY <1>9 DEF WalkStarts, ReaderInv, Walking
<1>10. ASSUME NEW key, NEW order, WalkReads(key, order) PROVE ReaderInv'
  <2>1. Walking
    BY <1>10 DEF WalkReads, ReaderInv, AtRest, StatementOK, Requests
  <2>2. CASE reader' = AtRest
    BY <2>2 DEF ReaderInv, AtRest
  <2>3. ASSUME NEW newServed, reader' = [reader EXCEPT !.op = "walked", !.served = newServed] PROVE ReaderInv'
    BY <2>1, <2>3 DEF Walking, ReaderInv
  <2>4. ASSUME NEW newServed, NEW newCursor, reader' = [reader EXCEPT !.served = newServed, !.cursor = newCursor]
        PROVE  ReaderInv'
    BY <2>1, <2>4 DEF Walking, ReaderInv
  <2> QED BY <1>10, <2>2, <2>3, <2>4 DEF WalkReads
<1> QED BY <1>1, <1>2, <1>3, <1>4, <1>6, <1>7, <1>8, <1>9, <1>10 DEF ReadNext, readVars, Statement, Walk

LEMMA ReaderInvariant == ReadSpec => [](BookInv /\ ReaderInv)
<1>1. ReadInit => BookInv /\ ReaderInv
  BY BookAtFirst DEF ReadInit, ReaderInv
<1>2. BookInv /\ ReaderInv /\ [ReadNext]_readVars => (BookInv /\ ReaderInv)'
  BY BookStep, ReaderKept
<1> QED BY <1>1, <1>2, PTL DEF ReadSpec

\* What a request that states has counted.
LEMMA StatedRequest ==
    ASSUME ReaderInv, reader.op = "stated"
    PROVE  StatementOK /\ StatedOK /\ OpeningOK /\ History
BY DEF ReaderInv, AtRest, Walking, StatementOK

\* However the book moves under its queries, a cash statement counts only what stood at some
\* moment of the read, once, and all that stood throughout and moves the usina's cash
\* (CashStatementService).
THEOREM StatementsCountWhatStood == ReadSpec => []CountedWhileStanding
<1>1. BookInv /\ ReaderInv => CountedWhileStanding
  <2> SUFFICES ASSUME BookInv, ReaderInv, reader.op = "stated"
               PROVE  /\ reader.opening \cup reader.counted \subseteq reader.stood
                      /\ reader.opening \cap reader.counted = {}
                      /\ Flows(book, reader.from, reader.to) \cap reader.always \cap {i \in Ids(book) : MovesOwnCash(book[i])}
                            \subseteq reader.counted
                      /\ FlowsBefore(book, reader.from) \cap reader.always \subseteq reader.opening
    BY DEF CountedWhileStanding
  <2>1. StatementOK /\ StatedOK /\ OpeningOK /\ History
    BY StatedRequest
  <2>2. reader.opening \cup reader.counted \subseteq reader.stood
    BY <2>1 DEF OpeningOK, StatedOK
  <2>3. reader.opening \cap reader.counted = {}
    <3>1. ASSUME NEW i \in reader.opening, i \in reader.counted PROVE FALSE
      <4>1. book[i].cmd.occurredAt < reader.from /\ book[i].cmd.occurredAt \in reader.from .. reader.to
        BY <2>1, <3>1 DEF OpeningOK, StatedOK, InPeriod
      <4>2. reader.from \in Nat /\ reader.to \in Nat
        BY <2>1 DEF StatementOK, Requests
      <4> QED BY <4>1, <4>2
    <3> QED BY <3>1
  <2>4. Flows(book, reader.from, reader.to) \cap reader.always \cap {i \in Ids(book) : MovesOwnCash(book[i])} \subseteq reader.counted
    BY <2>1 DEF StatedOK, Flows, MovesCash, InPeriod
  <2>5. FlowsBefore(book, reader.from) \cap reader.always \subseteq reader.opening
    BY <2>1 DEF OpeningOK, FlowsBefore, MovesCash
  <2> QED BY <2>2, <2>3, <2>4, <2>5
<1>2. ReadSpec => [](BookInv /\ ReaderInv)
  BY ReaderInvariant
<1> QED BY <1>1, <1>2, PTL
-----------------------------------------------------------------------------
(* More about sums. *)

\* The sum over a set that falls in two is the sum of the two sums.
LEMMA SumSplits ==
    ASSUME NEW f, NEW S, NEW T, IsFiniteSet(S), IsFiniteSet(T), S \cap T = {}, \A x \in S \cup T : f[x] \in Nat
    PROVE  /\ SumFunctionOnSet(f, S) \in Nat /\ SumFunctionOnSet(f, T) \in Nat
           /\ SumFunctionOnSet(f, S \cup T) = SumFunctionOnSet(f, S) + SumFunctionOnSet(f, T)
<1> DEFINE Good(X) == SumFunctionOnSet(f, S \cup X) = SumFunctionOnSet(f, S) + SumFunctionOnSet(f, X)
           N == {n \in Nat : \A X \in SUBSET T : Cardinality(X) = n => Good(X)}
<1>0. \A X \in SUBSET T : IsFiniteSet(X) /\ Cardinality(X) \in Nat /\ IsFiniteSet(S \cup X)
  BY FS_Subset, FS_CardinalityType, FS_Union
<1>1. \A X \in SUBSET T : SumFunctionOnSet(f, X) \in Nat
  BY <1>0, SumRemove
<1>2. SumFunctionOnSet(f, S) \in Nat
  BY SumRemove
<1>3. 0 \in N
  <2>1. \A X \in SUBSET T : Cardinality(X) = 0 => X = {}
    BY <1>0, FS_EmptySet
  <2>2. S \cup {} = S
    OBVIOUS
  <2>3. Good({})
    BY <1>2, <2>2, SumEmpty
  <2> HIDE DEF Good
  <2> QED BY <2>1, <2>3
<1>4. ASSUME NEW n \in Nat, n \in N PROVE n + 1 \in N
  <2> SUFFICES ASSUME NEW X \in SUBSET T, Cardinality(X) = n + 1 PROVE Good(X)
    OBVIOUS
  <2> HIDE DEF Good, N
  <2>0. IsFiniteSet(X) /\ X # {} /\ \A x \in X : f[x] \in Nat
    <3>1. IsFiniteSet(X)
      BY <1>0
    <3>2. X # {}
      BY FS_EmptySet
    <3> QED BY <3>1, <3>2
  <2>1. PICK x : x \in X
    BY <2>0
  <2>2. Cardinality(X \ {x}) = n /\ X \ {x} \in SUBSET T
    BY <2>0, <2>1, OneLess
  <2>3. Good(X \ {x})
    BY <1>4, <2>2 DEF N
  <2>4. SumFunctionOnSet(f, X) = f[x] + SumFunctionOnSet(f, X \ {x})
    BY <2>0, <2>1, SumRemove
  <2>5. SumFunctionOnSet(f, S \cup X) = f[x] + SumFunctionOnSet(f, (S \cup X) \ {x})
    BY <1>0, <2>1, SumRemove
  <2>6. (S \cup X) \ {x} = S \cup (X \ {x})
    BY <2>1
  <2>7. f[x] \in Nat /\ SumFunctionOnSet(f, X \ {x}) \in Nat
    BY <1>1, <2>1, <2>2
  <2>8. SumFunctionOnSet(f, S \cup (X \ {x})) = SumFunctionOnSet(f, S) + SumFunctionOnSet(f, X \ {x})
    BY <2>3 DEF Good
  <2>9. PICK a \in Nat : a = SumFunctionOnSet(f, S)
    BY <1>2
  <2>10. PICK c \in Nat : c = SumFunctionOnSet(f, X \ {x})
    BY <2>7
  <2>11. SumFunctionOnSet(f, S \cup X) = f[x] + (a + c) /\ SumFunctionOnSet(f, X) = f[x] + c
    BY <2>4, <2>5, <2>6, <2>8, <2>9, <2>10
  <2>12. SumFunctionOnSet(f, S \cup X) = a + SumFunctionOnSet(f, X)
    BY <2>7, <2>11
  <2> QED BY <2>9, <2>12 DEF Good
<1> HIDE DEF N
<1>5. Nat \subseteq N
  BY <1>3, <1>4, AllNaturals
<1>6. T \in SUBSET T /\ Cardinality(T) \in N
  BY <1>0, <1>5
<1>7. Good(T)
  BY <1>6 DEF N
<1> QED BY <1>1, <1>2, <1>7

\* A sum of zeroes.
LEMMA SumOfZeroes ==
    ASSUME NEW f, NEW S, IsFiniteSet(S), \A x \in S : f[x] = 0
    PROVE  SumFunctionOnSet(f, S) = 0
<1> DEFINE N == {n \in Nat : \A X \in SUBSET S : Cardinality(X) = n => SumFunctionOnSet(f, X) = 0}
<1>0. \A X \in SUBSET S : IsFiniteSet(X) /\ Cardinality(X) \in Nat
  BY FS_Subset, FS_CardinalityType
<1>1. 0 \in N
  <2>1. \A X \in SUBSET S : Cardinality(X) = 0 => X = {}
    BY <1>0, FS_EmptySet
  <2> QED BY <2>1, SumEmpty
<1>2. ASSUME NEW n \in Nat, n \in N PROVE n + 1 \in N
  <2> SUFFICES ASSUME NEW X \in SUBSET S, Cardinality(X) = n + 1 PROVE SumFunctionOnSet(f, X) = 0
    OBVIOUS
  <2>1. PICK x : x \in X
    BY FS_EmptySet
  <2>2. Cardinality(X \ {x}) = n /\ X \ {x} \in SUBSET S
    BY <1>0, <2>1, OneLess
  <2>3. SumFunctionOnSet(f, X \ {x}) = 0
    BY <1>2, <2>2
  <2>4. SumFunctionOnSet(f, X) = f[x] + SumFunctionOnSet(f, X \ {x})
    BY <1>0, <2>1, SumRemove
  <2> QED BY <2>1, <2>3, <2>4
<1> HIDE DEF N
<1>3. Nat \subseteq N
  BY <1>1, <1>2, AllNaturals
<1>4. S \in SUBSET S /\ Cardinality(S) \in N
  BY <1>0, <1>3
<1> QED BY <1>4 DEF N

\* The sum of a function over its domain is a sum over that set.
LEMMA SumOver ==
    ASSUME NEW f, NEW S, IsFiniteSet(S), NEW g, DOMAIN g = S, \A x \in S : g[x] = f[x]
    PROVE  SumFunction(g) = SumFunctionOnSet(f, S)
<1>1. SumFunction(g) = SumFunctionOnSet(g, S)
  BY Zenon DEF SumFunction
<1> QED BY <1>1, SumSame

LEMMA RowTypes ==
    ASSUME BookInv, NEW i \in Ids(book)
    PROVE  /\ book[i].cmd \in Commands /\ book[i].cmd.amount \in Nat /\ book[i].cmd.occurredAt \in Nat
           /\ book[i].cmd.due \in Nat /\ book[i].recordedAt \in Nat
<1>1. book[i] \in Events
  BY DEF BookInv, TypeOK, Ids
<1>2. book[i].cmd \in Commands /\ book[i].recordedAt \in 0 .. MaxClock
  BY <1>1 DEF Events
<1> QED BY <1>2, BookAssumption, ReadingsAssumption

LEMMA FiniteEvents ==
    ASSUME BookInv, NEW S, S \subseteq Ids(book)
    PROVE  IsFiniteSet(S)
<1>1. Len(book) \in Nat /\ Ids(book) = 1 .. Len(book)
  BY DEF BookInv, TypeOK, Ids
<1>2. PICK n \in Nat : n = Len(book)
  BY <1>1
<1>3. S \in SUBSET (1 .. n)
  BY <1>1, <1>2
<1> QED BY <1>3, FiniteBelow

\* The amounts of events that fall in two.
LEMMA UnitsSplit ==
    ASSUME BookInv, NEW S, NEW T, S \subseteq Ids(book), T \subseteq Ids(book), S \cap T = {}
    PROVE  /\ UnitsOf(book, S) \in Nat /\ UnitsOf(book, T) \in Nat
           /\ UnitsOf(book, S \cup T) = UnitsOf(book, S) + UnitsOf(book, T)
<1> DEFINE a == [i \in Ids(book) |-> book[i].cmd.amount]
<1>1. PICK f : f = a
  OBVIOUS
<1>2. \A i \in Ids(book) : f[i] \in Nat /\ f[i] = book[i].cmd.amount
  BY <1>1, RowTypes
<1>3. IsFiniteSet(S) /\ IsFiniteSet(T) /\ IsFiniteSet(S \cup T)
  BY FiniteEvents, FS_Union
<1>4. ASSUME NEW X, X \subseteq Ids(book), IsFiniteSet(X) PROVE UnitsOf(book, X) = SumFunctionOnSet(f, X)
  <2>1. PICK g : g = [i \in X |-> book[i].cmd.amount]
    OBVIOUS
  <2>2. DOMAIN g = X /\ \A i \in X : g[i] = f[i]
    BY <1>2, <1>4, <2>1
  <2>3. SumFunction(g) = SumFunctionOnSet(f, X)
    BY <1>4, <2>2, SumOver
  <2> QED BY <2>1, <2>3 DEF UnitsOf
<1>5. \A x \in S \cup T : f[x] \in Nat
  BY <1>2
<1> QED BY <1>3, <1>4, <1>5, SumSplits

\* The closing balance of a period is the opening balance of the next, when nothing was
\* recorded meanwhile and all cash is the usina's (CashStatementService).
THEOREM StatementsAlwaysChain == ReadSpec => []StatementsChain
<1>1. BookInv /\ ReaderInv => StatementsChain
  <2> SUFFICES ASSUME BookInv, ReaderInv, reader.op = "stated", reader.always = reader.stood,
                      reader.stood = SqlStanding(book), \A i \in Ids(book) : MovesCash(i) => MovesOwnCash(book[i])
               PROVE  Net(book, reader.opening) + Net(book, reader.counted) = Net(book, FlowsBefore(book, reader.to + 1))
    BY DEF StatementsChain, MovesCash
  <2>1. StatementOK /\ StatedOK /\ OpeningOK /\ History
    BY StatedRequest
  <2>2. PICK O : O = reader.opening
    OBVIOUS
  <2>3. PICK C : C = reader.counted
    OBVIOUS
  <2>4. PICK N : N = FlowsBefore(book, reader.to + 1)
    OBVIOUS
  <2>5. /\ reader.from \in Nat /\ reader.to \in Nat /\ reader.from <= reader.to
        /\ \A i \in SqlStanding(book) : i \in Ids(book) /\ book[i].cmd.occurredAt \in Nat
    BY <2>1, RowTypes DEF StatementOK, Requests, History, SqlStanding
  <2>6. O = {i \in SqlStanding(book) : MovesCash(i) /\ book[i].cmd.occurredAt < reader.from}
    BY <2>1, <2>2 DEF OpeningOK
  <2>7. C = {i \in SqlStanding(book) : MovesCash(i) /\ InPeriod(i)}
    BY <2>1, <2>3, <2>5 DEF StatedOK
  <2>8. N = {i \in SqlStanding(book) : MovesCash(i) /\ book[i].cmd.occurredAt < reader.to + 1}
    BY <2>4 DEF FlowsBefore, MovesCash
  <2>9. N = O \cup C /\ O \cap C = {} /\ O \subseteq Ids(book) /\ C \subseteq Ids(book)
    <3>1. \A i \in SqlStanding(book) : /\ book[i].cmd.occurredAt < reader.to + 1 <=>
                                             book[i].cmd.occurredAt < reader.from \/ InPeriod(i)
                                       /\ ~(book[i].cmd.occurredAt < reader.from /\ InPeriod(i))
      BY <2>5 DEF InPeriod
    <3> QED BY <2>5, <2>6, <2>7, <2>8, <3>1
  <2>10. ASSUME NEW effect
         PROVE  /\ UnitsOf(book, WithEffect(book, O, effect)) \in Nat /\ UnitsOf(book, WithEffect(book, C, effect)) \in Nat
                /\ UnitsOf(book, WithEffect(book, N, effect))
                     = UnitsOf(book, WithEffect(book, O, effect)) + UnitsOf(book, WithEffect(book, C, effect))
    <3>1. PICK S : S = WithEffect(book, O, effect)
      OBVIOUS
    <3>2. PICK T : T = WithEffect(book, C, effect)
      OBVIOUS
    <3>3. S \subseteq Ids(book) /\ T \subseteq Ids(book) /\ S \cap T = {} /\ WithEffect(book, N, effect) = S \cup T
      BY <2>9, <3>1, <3>2 DEF WithEffect
    <3> QED BY <3>1, <3>2, <3>3, UnitsSplit
  <2>11. Net(book, O) + Net(book, C) = Net(book, N)
    BY <2>10 DEF Net
  <2> QED BY <2>2, <2>3, <2>4, <2>11
<1>2. ReadSpec => [](BookInv /\ ReaderInv)
  BY ReaderInvariant
<1> QED BY <1>1, <1>2, PTL
-----------------------------------------------------------------------------
(* The ways of reading a position. *)

\* In memory and in SQL the same events stand.
LEMMA SameStanding ==
    ASSUME OneRetractionPerTarget
    PROVE  MemoryStanding(book) = SqlStanding(book)
<1>1. ASSUME NEW t \in Ids(book) PROVE t \in retractedEventIds(book, Ids(book)) <=> t \in SqlRetracted(book)
  <2>1. ASSUME NEW r \in Ids(book), Retracts(book, r, t) PROVE \A q \in Ids(book) : Retracts(book, q, t) => q = r
    BY <2>1 DEF OneRetractionPerTarget
  <2> QED BY <2>1 DEF retractedEventIds, SqlRetracted
<1> QED BY <1>1 DEF MemoryStanding, SqlStanding

\* A row has exactly one status.
LEMMA OneStatus ==
    ASSUME NEW agg, agg.totalOriginated \in Nat, totalClosed(agg) \in Nat, agg.hasReversal \in BOOLEAN,
           hasUnknownOrigination(agg) \in BOOLEAN, hasUnknownOrigination(agg) => agg.totalOriginated = 0
    PROVE  \A s \in PositionStatuses : statusToSql(s, agg) <=> derivePositionStatus(agg) = s
<1>1. PICK o \in Nat : o = agg.totalOriginated
  OBVIOUS
<1>2. PICK c \in Nat : c = totalClosed(agg)
  OBVIOUS
<1>3. c = 0 <=> ~(c > 0)
  OBVIOUS
<1>4. o > 0 <=> o # 0
  OBVIOUS
<1>5. c \in 1 .. o - 1 /\ o # 0 <=> o # 0 /\ c > 0 /\ ~(c >= o)
  OBVIOUS
<1>6. o # 0 /\ c >= o => c > 0
  OBVIOUS
<1> QED BY <1>1, <1>2, <1>3, <1>4, <1>5, <1>6 DEF PositionStatuses, statusToSql, derivePositionStatus

\* A row has exactly one outcome, but for a position closed by adjustments or payments alone.
LEMMA OneOutcome ==
    ASSUME NEW agg, agg.totalOriginated \in Nat, totalClosed(agg) \in Nat, agg.hasReversal \in BOOLEAN,
           hasUnknownOrigination(agg) \in BOOLEAN, hasUnknownOrigination(agg) => agg.totalOriginated = 0,
           agg.cashRecovered \in Nat, agg.nonCashClosed \in Nat, ~ClosedWithoutSettlement(agg)
    PROVE  \A o \in Outcomes : outcomeToSql(o, agg) <=> deriveOutcome(agg) = o
<1>1. PICK o \in Nat : o = agg.totalOriginated
  OBVIOUS
<1>2. PICK c \in Nat : c = totalClosed(agg)
  OBVIOUS
<1>3. PICK rev \in BOOLEAN : rev = agg.hasReversal
  OBVIOUS
<1>4. PICK unknown \in BOOLEAN : unknown = hasUnknownOrigination(agg)
  OBVIOUS
<1>5. /\ derivePositionStatus(agg) = "reversed" <=> rev
      /\ derivePositionStatus(agg) = "unknown_origin" <=> ~rev /\ unknown
      /\ derivePositionStatus(agg) = "fully_settled" <=> ~rev /\ ~unknown /\ o # 0 /\ c >= o
      /\ derivePositionStatus(agg) \in PositionStatuses
  BY <1>1, <1>2, <1>3, <1>4 DEF derivePositionStatus, PositionStatuses
<1>6. unknown => o = 0
  BY <1>1, <1>4
<1>7. agg.cashRecovered > 0 <=> agg.cashRecovered # 0
  OBVIOUS
<1>8. agg.nonCashClosed > 0 <=> agg.nonCashClosed # 0
  OBVIOUS
<1>9. (o > 0 <=> o # 0) /\ (c < o <=> ~(c >= o))
  OBVIOUS
<1>10. /\ outcomeToSql("pending", agg) <=> ~rev /\ ~(o # 0 /\ c >= o)
       /\ outcomeToSql("cancelled", agg) <=> rev
       /\ outcomeToSql("gain", agg) <=> ~rev /\ o # 0 /\ c >= o /\ agg.nonCashClosed = 0
       /\ outcomeToSql("full_loss", agg) <=> ~rev /\ o # 0 /\ c >= o /\ agg.cashRecovered = 0
       /\ outcomeToSql("partial_loss", agg) <=> ~rev /\ o # 0 /\ c >= o /\ agg.cashRecovered # 0 /\ agg.nonCashClosed # 0
  BY <1>1, <1>2, <1>3, <1>7, <1>8, <1>9 DEF outcomeToSql
<1>11. /\ deriveOutcome(agg) = "cancelled" <=> rev
       /\ deriveOutcome(agg) = "pending" <=> ~rev /\ ~(o # 0 /\ c >= o)
       /\ ~rev /\ o # 0 /\ c >= o => deriveOutcome(agg) = OutcomeOfClosed(agg)
       /\ deriveOutcome(agg) \in {"cancelled", "pending", OutcomeOfClosed(agg)}
  <2>1. OutcomeOfClosed(agg) \in {"gain", "full_loss", "partial_loss"}
    BY DEF OutcomeOfClosed
  <2>2. CASE rev
    BY <1>5, <2>1, <2>2 DEF deriveOutcome
  <2>3. CASE ~rev /\ o # 0 /\ c >= o
    BY <1>5, <1>6, <2>1, <2>3 DEF deriveOutcome
  <2>4. CASE ~rev /\ ~(o # 0 /\ c >= o)
    BY <1>5, <2>1, <2>4 DEF deriveOutcome, PositionStatuses
  <2> QED BY <2>2, <2>3, <2>4
<1> QED BY <1>10, <1>11 DEF Outcomes, OutcomeOfClosed, ClosedWithoutSettlement

\* What an event adds to a sum over a position, and the sum.
LEMMA UnitsFacts ==
    ASSUME BookInv, NEW S, S \subseteq Ids(book), NEW x, NEW relations
    PROVE  /\ Units(book, S, x, relations) \in Nat
           /\ Units(book, S, x, relations) > 0 <=> \E i \in S : Mentions(book[i], x, relations) > 0
<1> DEFINE a == [i \in S |-> book[i].cmd.amount * Mentions(book[i], x, relations)]
<1>1. PICK f : f = a
  OBVIOUS
<1>2. ASSUME NEW i \in S
      PROVE  /\ f[i] \in Nat /\ Mentions(book[i], x, relations) \in Nat
             /\ f[i] > 0 <=> Mentions(book[i], x, relations) > 0
  <2>1. PICK e : e = book[i]
    OBVIOUS
  <2>2. e.cmd \in Commands /\ e.cmd.amount \in Nat /\ e.cmd.amount # 0
    BY <2>1, RowTypes DEF BookInv, Substantial
  <2>3. PICK m \in Nat : m = Mentions(e, x, relations)
    BY <2>2, MentionsCount
  <2>4. PICK n \in Nat : n = e.cmd.amount
    BY <2>2
  <2>5. f[i] = n * m
    BY <1>1, <2>1, <2>3, <2>4
  <2>6. n > 0
    BY <2>2, <2>4
  <2>7. n * m \in Nat /\ (n * m > 0 <=> m > 0)
    BY <2>6
  <2> QED BY <2>1, <2>3, <2>5, <2>7
<1>3. IsFiniteSet(S)
  BY FiniteEvents
<1>4. Units(book, S, x, relations) = SumFunctionOnSet(f, S)
  <2>1. DOMAIN f = S
    BY <1>1
  <2> QED BY <1>1, <1>3, <2>1, SumOver DEF Units
<1>5. SumFunctionOnSet(f, S) \in Nat
  BY <1>2, <1>3, SumRemove
<1>6. ASSUME NEW i \in S, Mentions(book[i], x, relations) > 0 PROVE SumFunctionOnSet(f, S) > 0
  <2>1. SumFunctionOnSet(f, S) = f[i] + SumFunctionOnSet(f, S \ {i})
    BY <1>2, <1>3, SumRemove
  <2>2. IsFiniteSet(S \ {i}) /\ \A j \in S \ {i} : f[j] \in Nat
    BY <1>2, <1>3, FS_Subset
  <2>3. SumFunctionOnSet(f, S \ {i}) \in Nat
    BY <2>2, SumRemove
  <2> QED BY <1>2, <1>6, <2>1, <2>3
<1>7. ASSUME \A i \in S : ~(Mentions(book[i], x, relations) > 0) PROVE SumFunctionOnSet(f, S) = 0
  <2>1. \A i \in S : f[i] = 0
    BY <1>2, <1>7
  <2> QED BY <1>3, <2>1, SumOfZeroes
<1> QED BY <1>4, <1>5, <1>6, <1>7

\* The numbers of a row.
LEMMA RowFacts ==
    ASSUME BookInv, NEW S, S \subseteq Ids(book), NEW x, NEW agg, agg = AggregateOver(book, S, x)
    PROVE  /\ agg.totalOriginated \in Nat /\ totalClosed(agg) \in Nat
           /\ agg.hasReversal \in BOOLEAN
           /\ hasUnknownOrigination(agg) \in BOOLEAN /\ (hasUnknownOrigination(agg) => agg.totalOriginated = 0)
           /\ agg.cashRecovered \in Nat /\ agg.nonCashClosed \in Nat
           /\ agg.totalSettled > 0 <=> \E i \in S : Mentions(book[i], x, {"SETTLES"}) > 0
<1>1. /\ agg.totalOriginated = Units(book, S, x, {"ORIGINATES"})
      /\ agg.totalSettled = Units(book, S, x, {"SETTLES"})
      /\ agg.totalAdjusted = Units(book, S, x, {"ADJUSTS"})
      /\ agg.cashRecovered = Units(book, WithEffect(book, S, "CASH_IN"), x, {"SETTLES"})
      /\ agg.nonCashClosed = Units(book, WithEffect(book, S, "NON_CASH"), x, {"SETTLES"})
      /\ agg.hasReversal = (\E i \in S : Mentions(book[i], x, {"REVERSES"}) > 0)
      /\ agg.hasUnresolvedLineage = (\E i \in S : book[i].cmd.reason.type = "UNKNOWN_ORIGIN"
                                                    /\ book[i].cmd.reason.requiresFollowup)
  BY DEF AggregateOver
<1>2. /\ Units(book, S, x, {"ORIGINATES"}) \in Nat /\ Units(book, S, x, {"SETTLES"}) \in Nat
      /\ Units(book, S, x, {"ADJUSTS"}) \in Nat
      /\ Units(book, S, x, {"SETTLES"}) > 0 <=> \E i \in S : Mentions(book[i], x, {"SETTLES"}) > 0
  BY UnitsFacts
<1>3. ASSUME NEW effect PROVE Units(book, WithEffect(book, S, effect), x, {"SETTLES"}) \in Nat
  <2>1. PICK T : T = WithEffect(book, S, effect)
    OBVIOUS
  <2>2. T \subseteq Ids(book)
    BY <2>1 DEF WithEffect
  <2> QED BY <2>1, <2>2, UnitsFacts
<1>4. agg.hasReversal \in BOOLEAN /\ agg.hasUnresolvedLineage \in BOOLEAN
  BY <1>1
<1>5. totalClosed(agg) \in Nat
  BY <1>1, <1>2 DEF totalClosed
<1>6. hasUnknownOrigination(agg) \in BOOLEAN /\ (hasUnknownOrigination(agg) => agg.totalOriginated = 0)
  BY <1>4 DEF hasUnknownOrigination
<1> QED BY <1>1, <1>2, <1>3, <1>4, <1>5, <1>6

\* The projection of a position is its row of the listing.
LEMMA ProjectionAgrees ==
    ASSUME BookInv, RetractionsNameTypes, NEW x
    PROVE  project(book, x) = SqlAggregate(book, x)
<1> DEFINE S == EventsOf(book, x)  T == S \cap SqlStanding(book)
<1>0. OneRetractionPerTarget
  BY DEF BookInv, Unique
<1>1. RetractionsNameTheirTarget
  BY DEF RetractionsNameTypes, RetractionsNameTheirTarget, EventsOf
<1>2. S \ retractedEventIds(book, S) = S \ SqlRetracted(book)
  BY <1>0, <1>1, SameRetracted
<1>3. S \subseteq Ids(book) /\ S \ SqlRetracted(book) = T
  BY DEF EventsOf, SqlStanding
<1>4. TypesNamed(book, S, x) = TypesNamed(book, T, x)
  <2>1. ASSUME NEW i \in S, NEW o \in Range(book[i].cmd.objects), o.objectId = x
        PROVE  \E j \in T : \E p \in Range(book[j].cmd.objects) : p.objectId = x /\ p.objectType = o.objectType
    <3>1. CASE i \in SqlStanding(book)
      BY <2>1, <3>1
    <3>2. CASE i \notin SqlStanding(book)
      <4>1. PICK r \in Ids(book) : Retracts(book, r, i) /\ \A q \in Ids(book) : ~Retracts(book, q, r)
        BY <1>3, <3>2 DEF SqlStanding, SqlRetracted
      <4>2. r \in SqlStanding(book)
        BY <4>1 DEF SqlStanding, SqlRetracted
      <4>3. PICK p \in Range(book[r].cmd.objects) : p.objectId = o.objectId /\ p.objectType = o.objectType
        BY <2>1, <4>1 DEF RetractionsNameTypes, Retracts
      <4>4. r \in T
        BY <2>1, <4>1, <4>2, <4>3 DEF EventsOf
      <4> QED BY <2>1, <4>3, <4>4
    <3> QED BY <3>1, <3>2
  <2> HIDE DEF S
  <2> QED BY <2>1 DEF TypesNamed
<1> HIDE DEF S
<1>5. project(book, x) = [AggregateOver(book, T, x) EXCEPT !.objectType = MaxType(TypesNamed(book, T, x))]
  BY <1>2, <1>3, <1>4 DEF project, S
<1>6. SqlAggregate(book, x) = AggregateOver(book, T, x)
  BY DEF SqlAggregate, S
<1>7. AggregateOver(book, T, x).objectType = MaxType(TypesNamed(book, T, x))
  BY DEF AggregateOver
<1>8. [AggregateOver(book, T, x) EXCEPT !.objectType = AggregateOver(book, T, x).objectType] = AggregateOver(book, T, x)
  BY DEF AggregateOver
<1> QED BY <1>5, <1>6, <1>7, <1>8

\* "The two must stay in lockstep": the status and outcome filters of the SQL are the statuses
\* and outcomes the code derives, and the projection of a position, its SQL aggregate and its
\* in-memory aggregate are one row (TypeOrmLedgerEventRepository, its in-memory twin and
\* PositionProjectionService).
THEOREM ReadPathsAlwaysAgree == ReadSpec => []ReadPathsAgree
<1>1. BookInv => ReadPathsAgree
  <2> SUFFICES ASSUME BookInv, RetractionsNameTypes, NEW x \in PositionsOf(book, Ids(book))
               PROVE  LET agg == SqlAggregate(book, x) IN
                      /\ {s \in PositionStatuses : statusToSql(s, agg)} = {derivePositionStatus(agg)}
                      /\ project(book, x) = agg
                      /\ MemoryAggregate(book, x) = agg
                      /\ \/ {o \in Outcomes : outcomeToSql(o, agg)} = {deriveOutcome(agg)}
                         \/ ClosedWithoutSettlement(agg)
                      /\ x \in findSettledObjectIds(book) <=> agg.totalSettled > 0
    BY DEF ReadPathsAgree
  <2>1. PICK S : S = EventsOf(book, x) \cap SqlStanding(book)
    OBVIOUS
  <2>2. PICK agg : agg = SqlAggregate(book, x)
    OBVIOUS
  <2>3. agg = AggregateOver(book, S, x) /\ S \subseteq Ids(book)
    BY <2>1, <2>2 DEF SqlAggregate, SqlStanding
  <2>4. /\ agg.totalOriginated \in Nat /\ totalClosed(agg) \in Nat
        /\ agg.hasReversal \in BOOLEAN
        /\ hasUnknownOrigination(agg) \in BOOLEAN /\ (hasUnknownOrigination(agg) => agg.totalOriginated = 0)
        /\ agg.cashRecovered \in Nat /\ agg.nonCashClosed \in Nat
        /\ agg.totalSettled > 0 <=> \E i \in S : Mentions(book[i], x, {"SETTLES"}) > 0
    BY <2>3, RowFacts
  <2>5. {s \in PositionStatuses : statusToSql(s, agg)} = {derivePositionStatus(agg)}
    <3>1. derivePositionStatus(agg) \in PositionStatuses
      BY DEF derivePositionStatus, PositionStatuses
    <3>2. \A s \in PositionStatuses : statusToSql(s, agg) <=> derivePositionStatus(agg) = s
      BY <2>4, OneStatus
    <3> QED BY <3>1, <3>2
  <2>6. MemoryAggregate(book, x) = agg
    BY <2>2, SameStanding DEF BookInv, Unique, MemoryAggregate, SqlAggregate
  <2>7. ASSUME ~ClosedWithoutSettlement(agg) PROVE {o \in Outcomes : outcomeToSql(o, agg)} = {deriveOutcome(agg)}
    <3>1. deriveOutcome(agg) \in Outcomes
      BY DEF deriveOutcome, OutcomeOfClosed, Outcomes
    <3>2. \A o \in Outcomes : outcomeToSql(o, agg) <=> deriveOutcome(agg) = o
      BY <2>4, <2>7, OneOutcome
    <3> QED BY <3>1, <3>2
  <2>8. x \in findSettledObjectIds(book) <=> agg.totalSettled > 0
    <3>1. ASSUME NEW i \in SqlStanding(book), Mentions(book[i], x, {"SETTLES"}) > 0 PROVE i \in S
      <4>1. PICK k \in DOMAIN book[i].cmd.objects : book[i].cmd.objects[k].objectId = x
        <5>1. CASE {k \in DOMAIN book[i].cmd.objects : book[i].cmd.objects[k].objectId = x
                                                        /\ book[i].cmd.objects[k].relation \in {"SETTLES"}} = {}
          BY <3>1, <5>1, FS_EmptySet DEF Mentions, Quantify
        <5> QED BY <5>1
      <4>2. book[i].cmd.objects[k] \in Range(book[i].cmd.objects) /\ i \in Ids(book)
        BY DEF Range, SqlStanding
      <4> QED BY <2>1, <4>1, <4>2 DEF EventsOf
    <3> QED BY <2>1, <2>4, <3>1 DEF findSettledObjectIds
  <2> QED BY <2>2, <2>5, <2>6, <2>7, <2>8, ProjectionAgrees
<1>2. ReadSpec => [](BookInv /\ ReaderInv)
  BY ReaderInvariant
<1> QED BY <1>1, <1>2, PTL
-----------------------------------------------------------------------------
(* Exposures. *)

\* As many values as arguments at most.
LEMMA ValuesFinite ==
    ASSUME NEW F, NEW S, IsFiniteSet(S)
    PROVE  IsFiniteSet({F[x] : x \in S})
<1> DEFINE T == {F[x] : x \in S}
           G == [x \in S |-> F[x]]
<1>1. G \in Surjection(S, T)
  BY DEF Surjection
<1> HIDE DEF G
<1> QED BY <1>1, FS_Surjection

\* The objects named by the events S are finitely many, of known types.
ObjectsNamed(S) == UNION {Range(book[i].cmd.objects) : i \in S}

LEMMA NamedObjects ==
    ASSUME BookInv, NEW S, S \subseteq Ids(book)
    PROVE  IsFiniteSet(ObjectsNamed(S)) /\ \A o \in ObjectsNamed(S) : o.objectType \in ObjectTypes
<1> DEFINE Objects == [objectId : STRING, objectType : ObjectTypes, relation : Relations]
           R(i) == Range(book[i].cmd.objects)
<1>0. IsFiniteSet(S)
  BY FiniteEvents
<1>1. ASSUME NEW i \in S PROVE IsFiniteSet(R(i)) /\ \A o \in R(i) : o.objectType \in ObjectTypes
  <2>1. book[i].cmd \in Commands
    BY RowTypes
  <2>2. PICK objects \in Seq(Objects) : objects = book[i].cmd.objects
    BY <2>1, BookAssumption
  <2>3. \A o \in Objects : o.objectType \in ObjectTypes
    OBVIOUS
  <2> HIDE DEF Objects
  <2>4. PICK n \in Nat : n = Len(objects)
    BY <2>2
  <2>5. DOMAIN objects = 1 .. n /\ \A k \in 1 .. n : objects[k] \in Objects
    BY <2>2, <2>4
  <2>6. R(i) = {objects[k] : k \in 1 .. n}
    BY <2>2, <2>5 DEF Range
  <2>7. IsFiniteSet(1 .. n)
    BY FS_Interval
  <2> HIDE DEF R
  <2> QED BY <2>3, <2>5, <2>6, <2>7, ValuesFinite
<1> DEFINE F == [i \in S |-> R(i)]
<1>2. PICK f : f = F
  OBVIOUS
<1>3. \A i \in S : f[i] = R(i)
  BY <1>2
<1>4. {f[i] : i \in S} = {R(i) : i \in S}
  BY <1>3
<1> HIDE DEF R
<1>5. IsFiniteSet({f[i] : i \in S}) /\ \A X \in {f[i] : i \in S} : IsFiniteSet(X)
  BY <1>0, <1>1, <1>3, ValuesFinite
<1>6. IsFiniteSet(UNION {f[i] : i \in S})
  BY <1>5, FS_UNION
<1>7. ObjectsNamed(S) = UNION {f[i] : i \in S}
  BY <1>4 DEF ObjectsNamed, R
<1>8. \A o \in ObjectsNamed(S) : o.objectType \in ObjectTypes
  BY <1>1 DEF ObjectsNamed, R
<1> QED BY <1>6, <1>7, <1>8

LEMMA PositionsFinite ==
    ASSUME BookInv, NEW S, S \subseteq Ids(book)
    PROVE  IsFiniteSet(PositionsOf(book, S))
<1>1. PICK f : f = [o \in ObjectsNamed(S) |-> o.objectId]
  OBVIOUS
<1>2. {f[o] : o \in ObjectsNamed(S)} = PositionsOf(book, S)
  BY <1>1 DEF PositionsOf, ObjectsNamed
<1> QED BY <1>2, NamedObjects, ValuesFinite

\* R puts the elements of S in a line.
InLine(R, S) ==
    /\ \A x \in S : <<x, x>> \notin R
    /\ \A x, y \in S : x # y => <<x, y>> \in R \/ <<y, x>> \in R
    /\ \A x, y, z \in S : <<x, y>> \in R /\ <<y, z>> \in R => <<x, z>> \in R

\* Of finitely many, one is last.
LEMMA OneIsLast ==
    ASSUME NEW R, NEW S, IsFiniteSet(S), S # {}, InLine(R, S)
    PROVE  \E x \in S : \A y \in S \ {x} : <<y, x>> \in R
<1> DEFINE Good(X) == X # {} => \E x \in X : \A y \in X \ {x} : <<y, x>> \in R
           N == {n \in Nat : \A X \in SUBSET S : Cardinality(X) = n => Good(X)}
<1>0. \A X \in SUBSET S : IsFiniteSet(X) /\ Cardinality(X) \in Nat
  BY FS_Subset, FS_CardinalityType
<1>1. 0 \in N
  <2>1. \A X \in SUBSET S : Cardinality(X) = 0 => X = {}
    BY <1>0, FS_EmptySet
  <2> QED BY <2>1
<1>2. ASSUME NEW n \in Nat, n \in N PROVE n + 1 \in N
  <2> SUFFICES ASSUME NEW X \in SUBSET S, Cardinality(X) = n + 1 PROVE Good(X)
    OBVIOUS
  <2> HIDE DEF Good
  <2>1. PICK x : x \in X
    BY FS_EmptySet
  <2>2. Cardinality(X \ {x}) = n /\ X \ {x} \in SUBSET S
    BY <1>0, <2>1, OneLess
  <2>3. Good(X \ {x})
    BY <1>2, <2>2
  <2>4. CASE X \ {x} = {}
    BY <2>1, <2>4 DEF Good
  <2>5. CASE X \ {x} # {}
    <3>1. PICK z \in X \ {x} : \A y \in (X \ {x}) \ {z} : <<y, z>> \in R
      BY <2>3, <2>5 DEF Good
    <3>2. CASE <<x, z>> \in R
      <4>1. \A y \in X \ {z} : <<y, z>> \in R
        BY <3>1, <3>2
      <4> QED BY <4>1 DEF Good
    <3>3. CASE <<z, x>> \in R
      <4>1. \A y \in X \ {x} : <<y, x>> \in R
        BY <2>1, <3>1, <3>3 DEF InLine
      <4> QED BY <2>1, <4>1 DEF Good
    <3> QED BY <2>1, <3>1, <3>2, <3>3 DEF InLine
  <2> QED BY <2>4, <2>5
<1> HIDE DEF N
<1>3. Nat \subseteq N
  BY <1>1, <1>2, AllNaturals
<1>4. S \in SUBSET S /\ Cardinality(S) \in N
  BY <1>0, <1>3
<1> QED BY <1>4 DEF N

\* A finite set of naturals that holds something has a greatest element.
LEMMA GreatestNatural ==
    ASSUME NEW T \in SUBSET Nat, T # {}, IsFiniteSet(T)
    PROVE  \E x \in T : \A y \in T : y <= x
<1>1. PICK U : U = T
  OBVIOUS
<1>2. PICK R : R = {p \in U \X U : p[1] < p[2]}
  OBVIOUS
<1>3. \A x, y \in U : <<x, y>> \in R <=> x < y
  BY <1>2
<1>4. IsFiniteSet(U) /\ U # {} /\ InLine(R, U)
  BY <1>1, <1>3 DEF InLine
<1>5. PICK x \in U : \A y \in U \ {x} : <<y, x>> \in R
  BY <1>4, OneIsLast
<1>6. ASSUME NEW y \in T PROVE y <= x
  <2>1. y # x => y < x
    BY <1>1, <1>3, <1>5
  <2> QED BY <1>1, <2>1
<1> QED BY <1>1, <1>6

\* A row shows a type that one of its events names.
LEMMA RowType ==
    ASSUME BookInv, NEW S, S \subseteq Ids(book), NEW x, NEW i \in S,
           \E o \in Range(book[i].cmd.objects) : o.objectId = x
    PROVE  /\ AggregateOver(book, S, x).objectType \in TypesNamed(book, S, x)
           /\ AggregateOver(book, S, x).objectType \in ObjectTypes
<1> DEFINE named == {o \in ObjectsNamed(S) : o.objectId = x}
           T == TypesNamed(book, S, x)
<1>1. T = {o.objectType : o \in named}
  BY DEF TypesNamed, ObjectsNamed
<1>2. IsFiniteSet(named) /\ \A o \in named : o.objectType \in ObjectTypes
  BY NamedObjects, FS_Subset
<1>3. T # {} /\ T \subseteq ObjectTypes
  <2>1. named # {}
    BY DEF ObjectsNamed
  <2> HIDE DEF named
  <2> QED BY <1>1, <1>2, <2>1
<1>4. PICK f : f = [o \in named |-> TypeRank[o.objectType]]
  OBVIOUS
<1> HIDE DEF named
<1>5. IsFiniteSet({f[o] : o \in named})
  BY <1>2, ValuesFinite
<1>6. {f[o] : o \in named} = {TypeRank[t] : t \in T}
  BY <1>1, <1>4
<1>7. {TypeRank[t] : t \in T} \in SUBSET Nat /\ {TypeRank[t] : t \in T} # {}
  BY <1>3, ReadingsAssumption
<1>8. PICK r \in {TypeRank[t] : t \in T} : \A u \in {TypeRank[t] : t \in T} : u <= r
  BY <1>5, <1>6, <1>7, GreatestNatural
<1>9. \E t \in T : \A u \in T : TypeRank[u] <= TypeRank[t]
  BY <1>8
<1>10. MaxType(T) \in T
  BY <1>9, Zenon DEF MaxType
<1> QED BY <1>3, <1>10 DEF AggregateOver

\* The row of a position.
LEMMA PositionRow ==
    ASSUME BookInv, NEW x \in PositionsOf(book, SqlStanding(book)), NEW agg, agg = SqlAggregate(book, x)
    PROVE  /\ agg.objectType \in ObjectTypes
           /\ agg.objectType \in TypesNamed(book, EventsOf(book, x) \cap SqlStanding(book), x)
           /\ agg.totalOriginated \in Nat /\ totalClosed(agg) \in Nat /\ agg.hasReversal \in BOOLEAN
           /\ hasUnknownOrigination(agg) \in BOOLEAN /\ (hasUnknownOrigination(agg) => agg.totalOriginated = 0)
           /\ agg.cashRecovered \in Nat /\ agg.nonCashClosed \in Nat
<1>1. PICK S : S = EventsOf(book, x) \cap SqlStanding(book)
  OBVIOUS
<1>2. S \subseteq Ids(book) /\ agg = AggregateOver(book, S, x)
  BY <1>1 DEF SqlAggregate, SqlStanding
<1>3. PICK i \in SqlStanding(book) : \E o \in Range(book[i].cmd.objects) : o.objectId = x
  BY DEF PositionsOf
<1>4. i \in S
  BY <1>1, <1>3 DEF EventsOf, SqlStanding
<1> QED BY <1>1, <1>2, <1>3, <1>4, RowType, RowFacts

\* The open balances of two groups of positions, and of a group of which a part is not open.
LEMMA OpenSplits ==
    ASSUME BookInv, NEW X, NEW Y, X \subseteq PositionsOf(book, SqlStanding(book)),
           Y \subseteq PositionsOf(book, SqlStanding(book)), X \cap Y = {}
    PROVE  /\ TotalOpen(book, X) \in Nat /\ TotalOpen(book, Y) \in Nat
           /\ TotalOpen(book, X \cup Y) = TotalOpen(book, X) + TotalOpen(book, Y)
           /\ (\A y \in Y : openBalance(SqlAggregate(book, y)) = 0) => TotalOpen(book, Y) = 0
<1> DEFINE P == PositionsOf(book, SqlStanding(book))
<1>0. IsFiniteSet(P)
  BY PositionsFinite DEF SqlStanding
<1>1. PICK f : f = [x \in P |-> openBalance(SqlAggregate(book, x))]
  OBVIOUS
<1>2. \A x \in P : f[x] \in Nat /\ f[x] = openBalance(SqlAggregate(book, x))
  <2> SUFFICES ASSUME NEW x \in P PROVE f[x] \in Nat /\ f[x] = openBalance(SqlAggregate(book, x))
    OBVIOUS
  <2>1. PICK agg : agg = SqlAggregate(book, x)
    OBVIOUS
  <2>2. agg.totalOriginated \in Nat /\ totalClosed(agg) \in Nat
    BY <2>1, PositionRow
  <2>3. openBalance(agg) \in Nat
    BY <2>2 DEF openBalance
  <2> QED BY <1>1, <2>1, <2>3
<1> HIDE DEF P
<1>3. ASSUME NEW Z, Z \subseteq P PROVE IsFiniteSet(Z) /\ TotalOpen(book, Z) = SumFunctionOnSet(f, Z)
  <2>1. IsFiniteSet(Z)
    BY <1>0, <1>3, FS_Subset
  <2>2. PICK g : g = [x \in Z |-> openBalance(SqlAggregate(book, x))]
    OBVIOUS
  <2>3. DOMAIN g = Z /\ \A x \in Z : g[x] = f[x]
    BY <1>2, <1>3, <2>2
  <2>4. SumFunction(g) = SumFunctionOnSet(f, Z)
    BY <2>1, <2>3, SumOver
  <2> QED BY <2>1, <2>2, <2>4 DEF TotalOpen
<1>4. X \subseteq P /\ Y \subseteq P /\ X \cup Y \subseteq P
  BY DEF P
<1>5. \A x \in X \cup Y : f[x] \in Nat
  BY <1>2, <1>4
<1>6. /\ SumFunctionOnSet(f, X) \in Nat /\ SumFunctionOnSet(f, Y) \in Nat
      /\ SumFunctionOnSet(f, X \cup Y) = SumFunctionOnSet(f, X) + SumFunctionOnSet(f, Y)
  BY <1>3, <1>4, <1>5, SumSplits
<1>7. (\A y \in Y : openBalance(SqlAggregate(book, y)) = 0) => SumFunctionOnSet(f, Y) = 0
  <2> SUFFICES ASSUME \A y \in Y : openBalance(SqlAggregate(book, y)) = 0 PROVE SumFunctionOnSet(f, Y) = 0
    OBVIOUS
  <2>1. \A y \in Y : f[y] = 0
    BY <1>2, <1>4
  <2> QED BY <1>3, <1>4, <2>1, SumOfZeroes
<1> QED BY <1>3, <1>4, <1>6, <1>7

\* Part of a group, all of the group that is open, and the rest.
LEMMA OpenPart ==
    ASSUME BookInv, NEW X, NEW Y, X \subseteq Y, Y \subseteq PositionsOf(book, SqlStanding(book))
    PROVE  /\ TotalOpen(book, X) \in Nat /\ TotalOpen(book, Y) \in Nat
           /\ TotalOpen(book, X) <= TotalOpen(book, Y)
           /\ (\A y \in Y \ X : openBalance(SqlAggregate(book, y)) = 0) => TotalOpen(book, X) = TotalOpen(book, Y)
<1>1. Y = X \cup (Y \ X) /\ X \cap (Y \ X) = {} /\ X \subseteq PositionsOf(book, SqlStanding(book))
      /\ Y \ X \subseteq PositionsOf(book, SqlStanding(book))
  OBVIOUS
<1>2. PICK Z : Z = Y \ X
  OBVIOUS
<1>3. /\ TotalOpen(book, X) \in Nat /\ TotalOpen(book, Z) \in Nat
      /\ TotalOpen(book, X \cup Z) = TotalOpen(book, X) + TotalOpen(book, Z)
      /\ (\A y \in Z : openBalance(SqlAggregate(book, y)) = 0) => TotalOpen(book, Z) = 0
  BY <1>1, <1>2, OpenSplits
<1>4. PICK a \in Nat : a = TotalOpen(book, X)
  BY <1>3
<1>5. PICK c \in Nat : c = TotalOpen(book, Z)
  BY <1>3
<1>6. TotalOpen(book, Y) = a + c
  BY <1>1, <1>2, <1>3, <1>4, <1>5
<1> QED BY <1>2, <1>3, <1>4, <1>5, <1>6

\* What the cash position calls open, against what is known to be open, by type.
LEMMA OpenByType ==
    ASSUME BookInv, NEW T
    PROVE  LET agg(x) == SqlAggregate(book, x)
               known == {x \in PositionsOf(book, SqlStanding(book)) : ~agg(x).hasReversal /\ ~hasUnknownOrigination(agg(x))}
           IN  /\ OpenBalance(book, T) = TotalOpen(book, {x \in known : agg(x).objectType \in T})
               /\ \E X \in SUBSET known : /\ OpenBalance(book, T) = TotalOpen(book, X)
                                          /\ \A x \in X : agg(x).objectType \in T
<1> DEFINE agg(x) == SqlAggregate(book, x)
           P == PositionsOf(book, SqlStanding(book))
           known == {x \in P : ~agg(x).hasReversal /\ ~hasUnknownOrigination(agg(x))}
           Y == {x \in known : agg(x).objectType \in T}
           X == {x \in P : /\ agg(x).objectType \in T
                           /\ ~agg(x).hasReversal /\ agg(x).totalOriginated > 0
                           /\ totalClosed(agg(x)) < agg(x).totalOriginated}
<1>1. OpenBalance(book, T) = TotalOpen(book, X)
  BY DEF OpenBalance
<1>2. \A x \in P : /\ agg(x).totalOriginated \in Nat /\ totalClosed(agg(x)) \in Nat
                   /\ hasUnknownOrigination(agg(x)) => agg(x).totalOriginated = 0
  <2> SUFFICES ASSUME NEW x \in P
               PROVE  /\ agg(x).totalOriginated \in Nat /\ totalClosed(agg(x)) \in Nat
                      /\ hasUnknownOrigination(agg(x)) => agg(x).totalOriginated = 0
    OBVIOUS
  <2>1. PICK row : row = agg(x)
    OBVIOUS
  <2> HIDE DEF agg
  <2>2. row.totalOriginated \in Nat /\ totalClosed(row) \in Nat /\ (hasUnknownOrigination(row) => row.totalOriginated = 0)
    BY <2>1, PositionRow DEF agg
  <2> QED BY <2>1, <2>2
<1> HIDE DEF agg, P
<1>3. X \subseteq Y
  BY <1>2
<1>4. ASSUME NEW y \in Y \ X PROVE openBalance(agg(y)) = 0
  <2>1. y \in P /\ (agg(y).totalOriginated = 0 \/ ~(totalClosed(agg(y)) < agg(y).totalOriginated))
    BY <1>2
  <2>2. totalClosed(agg(y)) >= agg(y).totalOriginated
    BY <1>2, <2>1
  <2> QED BY <2>2 DEF openBalance
<1>5. Y \subseteq P /\ X \subseteq known
  BY <1>3
<1> HIDE DEF X, Y, known
<1>6. TotalOpen(book, X) = TotalOpen(book, Y)
  <2>1. PICK A : A = X
    OBVIOUS
  <2>2. PICK B : B = Y
    OBVIOUS
  <2>3. /\ A \subseteq B /\ B \subseteq PositionsOf(book, SqlStanding(book))
        /\ \A y \in B \ A : openBalance(SqlAggregate(book, y)) = 0
    BY <1>3, <1>4, <1>5, <2>1, <2>2 DEF P, agg
  <2> QED BY <2>1, <2>2, <2>3, OpenPart
<1>7. \A x \in X : agg(x).objectType \in T
  BY DEF X
<1> QED BY <1>1, <1>5, <1>6, <1>7 DEF agg, P, Y, known

\* A part of some events is of no greater amount.
LEMMA UnitsPart ==
    ASSUME BookInv, NEW S, NEW T, S \subseteq T, T \subseteq Ids(book)
    PROVE  UnitsOf(book, S) <= UnitsOf(book, T)
<1>1. PICK R : R = T \ S
  OBVIOUS
<1>2. T = S \cup R /\ S \cap R = {} /\ S \subseteq Ids(book) /\ R \subseteq Ids(book)
  BY <1>1
<1>3. /\ UnitsOf(book, S) \in Nat /\ UnitsOf(book, R) \in Nat
      /\ UnitsOf(book, S \cup R) = UnitsOf(book, S) + UnitsOf(book, R)
  BY <1>2, UnitsSplit
<1> QED BY <1>2, <1>3

\* The figures of the cash position, the dashboard and the health of the book reconcile
\* (CashPositionService, computeCapitalMetrics, computeClosureQuality).
THEOREM ExposuresAlwaysReconcile == ReadSpec => []ExposuresReconcile
<1>1. BookInv => ExposuresReconcile
  <2> SUFFICES ASSUME BookInv, NEW asOf \in 1 .. LastDay
               PROVE  LET m == computeCapitalMetrics(book, asOf, asOf)  stats == ClosureStats(book, 1, asOf) IN
                      /\ OpenBalance(book, USINA_PAYABLE_OBJECT_TYPES) = m.openPayableExposure
                      /\ OpenBalance(book, ObjectTypes) = m.openExposure + m.openPayableExposure
                      /\ OpenBalance(book, USINA_RECEIVABLE_OBJECT_TYPES)
                            + OpenBalance(book, USINA_CONTINGENT_OBJECT_TYPES) <= m.openExposure
                      /\ m.overdue + m.upcoming + m.undated = m.openPayableExposure
                      /\ m.capitalAtRisk <= m.openExposure
                      /\ stats.cashInSettled <= stats.totalSettled
    BY DEF ExposuresReconcile
  <2> DEFINE agg(x) == SqlAggregate(book, x)
             P == PositionsOf(book, SqlStanding(book))
             known == {x \in P : ~agg(x).hasReversal /\ ~hasUnknownOrigination(agg(x))}
             payable == {x \in known : agg(x).objectType \in USINA_PAYABLE_OBJECT_TYPES}
             due(s) == {x \in payable : DueStateOf(agg(x), asOf) = s}
             risky == {x \in known \ payable : /\ totalClosed(agg(x)) = 0
                                              /\ agg(x).originatedAt # None /\ agg(x).originatedAt <= asOf}
             m == computeCapitalMetrics(book, asOf, asOf)
  <2>1. /\ m.openExposure = TotalOpen(book, known \ payable) /\ m.capitalAtRisk = TotalOpen(book, risky)
        /\ m.openPayableExposure = TotalOpen(book, payable)
        /\ m.overdue = TotalOpen(book, due("overdue")) /\ m.upcoming = TotalOpen(book, due("upcoming"))
        /\ m.undated = TotalOpen(book, due("unknown"))
    BY DEF computeCapitalMetrics
  <2>2. /\ risky \subseteq known \ payable /\ payable \subseteq known /\ known \subseteq P
        /\ \A s : due(s) \subseteq payable
    OBVIOUS
  <2>3. /\ payable = (due("overdue") \cup due("upcoming")) \cup due("unknown")
        /\ due("overdue") \cap due("upcoming") = {}
        /\ (due("overdue") \cup due("upcoming")) \cap due("unknown") = {}
    <3>1. \A x \in payable : DueStateOf(agg(x), asOf) \in {"overdue", "upcoming", "unknown"}
      BY DEF DueStateOf
    <3> HIDE DEF payable, agg
    <3> QED BY <3>1
  <2>4. \A T : /\ OpenBalance(book, T) = TotalOpen(book, {x \in known : agg(x).objectType \in T})
               /\ \E X \in SUBSET known : /\ OpenBalance(book, T) = TotalOpen(book, X)
                                          /\ \A x \in X : agg(x).objectType \in T
    BY OpenByType
  <2>5. \A x \in known : agg(x).objectType \in ObjectTypes
    BY PositionRow
  <2>6. PICK K : K = known
    OBVIOUS
  <2>7. PICK Q : Q = payable
    OBVIOUS
  <2>8. OpenBalance(book, USINA_PAYABLE_OBJECT_TYPES) = m.openPayableExposure
    BY <2>1, <2>4
  <2> HIDE DEF m
  <2>9. PICK D1 : D1 = due("overdue")
    OBVIOUS
  <2>10. PICK D2 : D2 = due("upcoming")
    OBVIOUS
  <2>11. PICK D3 : D3 = due("unknown")
    OBVIOUS
  <2>12. PICK risk : risk = risky
    OBVIOUS
  <2>13. PICK types : types = [x \in K |-> agg(x).objectType]
    OBVIOUS
  <2>14. /\ \A x \in K : types[x] = agg(x).objectType /\ types[x] \in ObjectTypes
         /\ Q = {x \in K : types[x] \in USINA_PAYABLE_OBJECT_TYPES}
    BY <2>5, <2>6, <2>7, <2>13
  <2>15. \A T : /\ OpenBalance(book, T) = TotalOpen(book, {x \in K : types[x] \in T})
                /\ \E X \in SUBSET K : OpenBalance(book, T) = TotalOpen(book, X) /\ \A x \in X : types[x] \in T
    <3> SUFFICES ASSUME NEW T
                 PROVE  /\ OpenBalance(book, T) = TotalOpen(book, {x \in K : types[x] \in T})
                        /\ \E X \in SUBSET K : OpenBalance(book, T) = TotalOpen(book, X) /\ \A x \in X : types[x] \in T
      OBVIOUS
    <3>1. {x \in known : agg(x).objectType \in T} = {x \in K : types[x] \in T}
      BY <2>6, <2>14
    <3>2. PICK X \in SUBSET known : OpenBalance(book, T) = TotalOpen(book, X) /\ \A x \in X : agg(x).objectType \in T
      BY <2>4
    <3>3. X \in SUBSET K /\ \A x \in X : types[x] \in T
      BY <2>6, <2>14, <3>2
    <3> HIDE DEF known, agg
    <3>4. OpenBalance(book, T) = TotalOpen(book, {x \in known : agg(x).objectType \in T})
      BY <2>4
    <3> QED BY <3>1, <3>2, <3>3, <3>4
  <2>16. /\ K \subseteq P /\ Q \subseteq K /\ risk \subseteq K \ Q
         /\ D1 \subseteq Q /\ D2 \subseteq Q /\ D3 \subseteq Q
         /\ Q = (D1 \cup D2) \cup D3 /\ D1 \cap D2 = {} /\ (D1 \cup D2) \cap D3 = {}
    BY <2>2, <2>3, <2>6, <2>7, <2>9, <2>10, <2>11, <2>12
  <2>17. /\ m.openExposure = TotalOpen(book, K \ Q) /\ m.capitalAtRisk = TotalOpen(book, risk)
         /\ m.openPayableExposure = TotalOpen(book, Q)
         /\ m.overdue = TotalOpen(book, D1) /\ m.upcoming = TotalOpen(book, D2) /\ m.undated = TotalOpen(book, D3)
    BY <2>1, <2>6, <2>7, <2>9, <2>10, <2>11, <2>12
  <2> HIDE DEF known, payable, due, risky, agg, P
  <2>18. K \subseteq PositionsOf(book, SqlStanding(book))
    BY <2>16 DEF P
  <2>19. OpenBalance(book, ObjectTypes) = m.openExposure + m.openPayableExposure
    <3>1. {x \in K : types[x] \in ObjectTypes} = K
      BY <2>14
    <3>2. OpenBalance(book, ObjectTypes) = TotalOpen(book, K)
      BY <2>15, <3>1
    <3>3. PICK R : R = K \ Q
      OBVIOUS
    <3>4. K = R \cup Q /\ R \cap Q = {} /\ R \subseteq PositionsOf(book, SqlStanding(book))
          /\ Q \subseteq PositionsOf(book, SqlStanding(book))
      BY <2>16, <2>18, <3>3
    <3>5. TotalOpen(book, R \cup Q) = TotalOpen(book, R) + TotalOpen(book, Q)
      BY <3>4, OpenSplits
    <3> QED BY <2>17, <3>2, <3>3, <3>4, <3>5
  <2>20. OpenBalance(book, USINA_RECEIVABLE_OBJECT_TYPES) + OpenBalance(book, USINA_CONTINGENT_OBJECT_TYPES) <= m.openExposure
    <3>1. PICK A \in SUBSET K : /\ OpenBalance(book, USINA_RECEIVABLE_OBJECT_TYPES) = TotalOpen(book, A)
                                /\ \A x \in A : types[x] \in USINA_RECEIVABLE_OBJECT_TYPES
      BY <2>15
    <3>2. PICK B \in SUBSET K : /\ OpenBalance(book, USINA_CONTINGENT_OBJECT_TYPES) = TotalOpen(book, B)
                                /\ \A x \in B : types[x] \in USINA_CONTINGENT_OBJECT_TYPES
      BY <2>15
    <3>3. \A t : /\ t \in USINA_RECEIVABLE_OBJECT_TYPES => t \notin USINA_CONTINGENT_OBJECT_TYPES
                 /\ t \in USINA_RECEIVABLE_OBJECT_TYPES \cup USINA_CONTINGENT_OBJECT_TYPES => t \notin USINA_PAYABLE_OBJECT_TYPES
      BY DEF USINA_RECEIVABLE_OBJECT_TYPES, USINA_CONTINGENT_OBJECT_TYPES, USINA_PAYABLE_OBJECT_TYPES
    <3>4. PICK R : R = K \ Q
      OBVIOUS
    <3>5. A \cap B = {} /\ A \cup B \subseteq R
      BY <2>14, <3>1, <3>2, <3>3, <3>4
    <3>6. /\ A \subseteq PositionsOf(book, SqlStanding(book)) /\ B \subseteq PositionsOf(book, SqlStanding(book))
          /\ R \subseteq PositionsOf(book, SqlStanding(book))
      BY <2>18, <3>1, <3>2, <3>4
    <3>7. TotalOpen(book, A \cup B) = TotalOpen(book, A) + TotalOpen(book, B)
      BY <3>5, <3>6, OpenSplits
    <3>8. PICK C : C = A \cup B
      OBVIOUS
    <3>9. TotalOpen(book, C) <= TotalOpen(book, R)
      BY <3>5, <3>6, <3>8, OpenPart
    <3> QED BY <2>17, <3>1, <3>2, <3>4, <3>7, <3>8, <3>9
  <2>21. m.overdue + m.upcoming + m.undated = m.openPayableExposure
    <3>1. PICK D : D = D1 \cup D2
      OBVIOUS
    <3>2. /\ D1 \subseteq PositionsOf(book, SqlStanding(book)) /\ D2 \subseteq PositionsOf(book, SqlStanding(book))
          /\ D3 \subseteq PositionsOf(book, SqlStanding(book)) /\ D \subseteq PositionsOf(book, SqlStanding(book))
      BY <2>16, <2>18, <3>1
    <3>3. TotalOpen(book, D1 \cup D2) = TotalOpen(book, D1) + TotalOpen(book, D2)
      BY <2>16, <3>2, OpenSplits
    <3>4. TotalOpen(book, D \cup D3) = TotalOpen(book, D) + TotalOpen(book, D3)
      BY <2>16, <3>1, <3>2, OpenSplits
    <3> QED BY <2>16, <2>17, <3>1, <3>3, <3>4
  <2>22. m.capitalAtRisk <= m.openExposure
    <3>1. PICK R : R = K \ Q
      OBVIOUS
    <3>2. risk \subseteq R /\ R \subseteq PositionsOf(book, SqlStanding(book))
      BY <2>16, <2>18, <3>1
    <3> QED BY <2>17, <3>1, <3>2, OpenPart
  <2>23. ClosureStats(book, 1, asOf).cashInSettled <= ClosureStats(book, 1, asOf).totalSettled
    <3>1. PICK T : T = {i \in SqlStanding(book) : book[i].cmd.occurredAt \in 1 .. asOf /\ Carries(book[i].cmd, "SETTLES")}
      OBVIOUS
    <3>2. PICK S : S = WithEffect(book, T, "CASH_IN")
      OBVIOUS
    <3>3. S \subseteq T /\ T \subseteq Ids(book)
      BY <3>1, <3>2 DEF WithEffect, SqlStanding
    <3>4. UnitsOf(book, S) <= UnitsOf(book, T)
      BY <3>3, UnitsPart
    <3>5. ClosureStats(book, 1, asOf) = [cashInSettled |-> UnitsOf(book, S), totalSettled |-> UnitsOf(book, T)]
      BY <3>1, <3>2 DEF ClosureStats
    <3> QED BY <3>4, <3>5
  <2> QED BY <2>8, <2>19, <2>20, <2>21, <2>22, <2>23 DEF m
<1>2. ReadSpec => [](BookInv /\ ReaderInv)
  BY ReaderInvariant
<1> QED BY <1>1, <1>2, PTL
-----------------------------------------------------------------------------
(* The position listing. *)

\* The row of a position is created with one of its events.
LEMMA RowCreated ==
    ASSUME BookInv, NEW S, S \subseteq Ids(book), S # {}, NEW x
    PROVE  \E i \in S : AggregateOver(book, S, x).createdAt = book[i].recordedAt
<1> DEFINE T == {book[i].recordedAt : i \in S}
<1>1. T \in SUBSET Nat /\ T # {}
  BY RowTypes
<1>2. \E t \in T : \A u \in T : t <= u
  BY <1>1, LeastNatural
<1>3. Min(T) \in T
  BY <1>2, Zenon DEF Min
<1> QED BY <1>3 DEF AggregateOver

\* In memory a closed position is scored as in SQL, but for one of unknown origin.
LEMMA SameOutcome ==
    ASSUME NEW agg, derivePositionStatus(agg) # "unknown_origin"
    PROVE  deriveOutcomeFromAggregate(agg) = deriveOutcome(agg)
<1>1. derivePositionStatus(agg) \in PositionStatuses
  BY DEF derivePositionStatus, PositionStatuses
<1> QED BY <1>1 DEF deriveOutcomeFromAggregate, deriveOutcome, PositionStatuses

\* Narrowing the candidates before they are aggregated loses no position of the listing
\* ("the answer is identical, only the work is smaller", objectsWhere of
\* TypeOrmLedgerEventRepository against its in-memory twin).
THEOREM NarrowingIsAlwaysSound == ReadSpec => []NarrowingIsSound
<1>1. BookInv => NarrowingIsSound
  <2> SUFFICES ASSUME BookInv, NEW f \in Filters, NEW x,
                      ~(/\ f.outcome # ""
                        /\ hasUnknownOrigination(SqlAggregate(book, x)) \/ ClosedWithoutSettlement(SqlAggregate(book, x)))
               PROVE  x \in SqlListing(book, f) <=> x \in MemoryListing(book, f)
    BY DEF NarrowingIsSound
  <2>0. MemoryStanding(book) = SqlStanding(book)
    BY SameStanding DEF BookInv, Unique
  <2>1. PICK agg : agg = SqlAggregate(book, x)
    OBVIOUS
  <2>2. PICK S : S = EventsOf(book, x) \cap SqlStanding(book)
    OBVIOUS
  <2>3. agg = AggregateOver(book, S, x) /\ S \subseteq Ids(book) /\ MemoryAggregate(book, x) = agg
    BY <2>0, <2>1, <2>2 DEF SqlAggregate, MemoryAggregate, SqlStanding
  <2> DEFINE Standing == x \in PositionsOf(book, SqlStanding(book))
             Typed == f.types # {} => agg.objectType \in f.types
             Dated == agg.createdAt >= f.from /\ agg.createdAt <= f.to
             Of == f.parties # {} => \E i \in S : Names(book[i], f.parties)
  <2>4. x \in SqlListing(book, f) <=>
            /\ x \in Candidates(book, f) /\ Typed /\ Dated
            /\ f.statuses # {} => \E s \in f.statuses : statusToSql(s, agg)
            /\ f.outcome # "" => outcomeToSql(f.outcome, agg)
    BY <2>1 DEF SqlListing
  <2>5. x \in MemoryListing(book, f) <=>
            /\ Standing /\ Typed /\ Dated /\ Of
            /\ f.statuses # {} => derivePositionStatus(agg) \in f.statuses
            /\ f.outcome # "" => deriveOutcomeFromAggregate(agg) = f.outcome
    BY <2>0, <2>2, <2>3 DEF MemoryListing
  <2>6. x \in Candidates(book, f) <=>
            /\ Standing /\ Of
            /\ f.types # {} => \E i \in S : TypesNamed(book, {i}, x) \cap f.types # {}
            /\ \E i \in S : book[i].recordedAt >= f.from
            /\ \E i \in S : book[i].recordedAt <= f.to
    BY <2>2 DEF Candidates
  <2>7. ASSUME Standing
        PROVE  /\ (f.statuses # {} => \E s \in f.statuses : statusToSql(s, agg)) <=>
                      (f.statuses # {} => derivePositionStatus(agg) \in f.statuses)
               /\ (f.outcome # "" => outcomeToSql(f.outcome, agg)) <=>
                      (f.outcome # "" => deriveOutcomeFromAggregate(agg) = f.outcome)
               /\ Typed /\ Dated => x \in Candidates(book, f) \/ ~Of
    <3>1. /\ agg.totalOriginated \in Nat /\ totalClosed(agg) \in Nat /\ agg.hasReversal \in BOOLEAN
          /\ hasUnknownOrigination(agg) \in BOOLEAN /\ (hasUnknownOrigination(agg) => agg.totalOriginated = 0)
          /\ agg.cashRecovered \in Nat /\ agg.nonCashClosed \in Nat
          /\ agg.objectType \in TypesNamed(book, S, x)
      BY <2>1, <2>2, <2>7, PositionRow
    <3>2. f.statuses \subseteq PositionStatuses /\ f.outcome \in Outcomes \cup {""}
      BY FiltersAssumption
    <3>3. \A s \in f.statuses : statusToSql(s, agg) <=> derivePositionStatus(agg) = s
      BY <3>1, <3>2, OneStatus
    <3>4. (f.statuses # {} => \E s \in f.statuses : statusToSql(s, agg)) <=>
                      (f.statuses # {} => derivePositionStatus(agg) \in f.statuses)
      BY <3>3
    <3>5. ASSUME f.outcome # "" PROVE outcomeToSql(f.outcome, agg) <=> deriveOutcomeFromAggregate(agg) = f.outcome
      <4>1. ~hasUnknownOrigination(agg) /\ ~ClosedWithoutSettlement(agg)
        BY <2>1, <3>5
      <4>2. deriveOutcomeFromAggregate(agg) = deriveOutcome(agg)
        <5>1. derivePositionStatus(agg) # "unknown_origin"
          BY <4>1 DEF derivePositionStatus
        <5> QED BY <5>1, SameOutcome
      <4> QED BY <3>1, <3>2, <3>5, <4>1, <4>2, OneOutcome
    <3>6. ASSUME Typed, Dated, Of PROVE x \in Candidates(book, f)
      <4>1. PICK j \in SqlStanding(book) : \E o \in Range(book[j].cmd.objects) : o.objectId = x
        BY <2>7 DEF PositionsOf
      <4>2. j \in S
        BY <2>2, <4>1 DEF EventsOf, SqlStanding
      <4>3. PICK i \in S : agg.createdAt = book[i].recordedAt
        BY <2>3, <4>2, RowCreated
      <4>4. f.types # {} => \E k \in S : TypesNamed(book, {k}, x) \cap f.types # {}
        <5>1. PICK k \in S : \E o \in Range(book[k].cmd.objects) : o.objectId = x /\ o.objectType = agg.objectType
          BY <3>1 DEF TypesNamed
        <5>2. agg.objectType \in TypesNamed(book, {k}, x)
          BY <5>1 DEF TypesNamed
        <5> QED BY <3>6, <5>2
      <4> QED BY <2>6, <2>7, <3>6, <4>3, <4>4
    <3> QED BY <3>4, <3>5, <3>6
  <2> HIDE DEF Typed, Dated, Of, Standing
  <2> QED BY <2>4, <2>5, <2>6, <2>7
<1>2. ReadSpec => [](BookInv /\ ReaderInv)
  BY ReaderInvariant
<1> QED BY <1>1, <1>2, PTL
-----------------------------------------------------------------------------
(* Rows in order. *)

Sorted(R, s) == \A m, n \in DOMAIN s : m < n => <<s[m], s[n]>> \in R

\* Finitely many rows can be put in order.
LEMMA OrderExists ==
    ASSUME NEW R, NEW S, IsFiniteSet(S), InLine(R, S)
    PROVE  \E s \in [1 .. Cardinality(S) -> S] : Sorted(R, s)
<1> DEFINE Good(X) == \E s \in [1 .. Cardinality(X) -> X] : Sorted(R, s)
           N == {n \in Nat : \A X \in SUBSET S : Cardinality(X) = n => Good(X)}
<1>0. \A X \in SUBSET S : IsFiniteSet(X) /\ Cardinality(X) \in Nat
  BY FS_Subset, FS_CardinalityType
<1>1. 0 \in N
  <2>1. \A X \in SUBSET S : Cardinality(X) = 0 => X = {}
    BY <1>0, FS_EmptySet
  <2>2. Cardinality({}) = 0
    BY FS_EmptySet
  <2>3. [i \in 1 .. 0 |-> 0] \in [1 .. 0 -> {}] /\ Sorted(R, [i \in 1 .. 0 |-> 0])
    BY DEF Sorted
  <2>4. Good({})
    BY <2>2, <2>3
  <2> HIDE DEF Good
  <2> QED BY <2>1, <2>4
<1>2. ASSUME NEW n \in Nat, n \in N PROVE n + 1 \in N
  <2> SUFFICES ASSUME NEW X \in SUBSET S, Cardinality(X) = n + 1 PROVE Good(X)
    OBVIOUS
  <2> HIDE DEF Good
  <2>0. IsFiniteSet(X) /\ X # {} /\ InLine(R, X)
    <3>1. X # {}
      BY FS_EmptySet
    <3> QED BY <1>0, <3>1 DEF InLine
  <2>1. PICK x \in X : \A y \in X \ {x} : <<y, x>> \in R
    BY <2>0, OneIsLast
  <2>2. Cardinality(X \ {x}) = n /\ X \ {x} \in SUBSET S
    BY <2>0, <2>1, OneLess
  <2>3. PICK s \in [1 .. n -> X \ {x}] : Sorted(R, s)
    BY <1>2, <2>2 DEF Good
  <2> DEFINE t == [i \in 1 .. n + 1 |-> IF i = n + 1 THEN x ELSE s[i]]
  <2>4. \A i \in 1 .. n + 1 : t[i] \in X /\ (i = n + 1 => t[i] = x) /\ (i # n + 1 => i \in 1 .. n /\ t[i] = s[i])
    BY <2>1, <2>3
  <2>5. t \in [1 .. n + 1 -> X] /\ DOMAIN t = 1 .. n + 1
    BY <2>4
  <2> HIDE DEF t
  <2>6. ASSUME NEW i \in 1 .. n + 1, NEW j \in 1 .. n + 1, i < j PROVE <<t[i], t[j]>> \in R
    <3>1. i \in 1 .. n /\ t[i] = s[i] /\ s[i] \in X \ {x}
      BY <2>3, <2>4, <2>6
    <3>2. CASE j = n + 1
      BY <2>1, <2>4, <3>1, <3>2
    <3>3. CASE j # n + 1
      <4>1. j \in 1 .. n /\ t[j] = s[j]
        BY <2>4, <3>3
      <4> QED BY <2>3, <2>6, <3>1, <4>1 DEF Sorted
    <3> QED BY <3>2, <3>3
  <2>7. Sorted(R, t)
    BY <2>5, <2>6 DEF Sorted
  <2> QED BY <2>5, <2>7 DEF Good
<1> HIDE DEF N
<1>3. Nat \subseteq N
  BY <1>1, <1>2, AllNaturals
<1>4. S \in SUBSET S /\ Cardinality(S) \in N
  BY <1>0, <1>3
<1> QED BY <1>4 DEF N

Orders == {"ASC", "DESC"}

\* The order of the query, on places and ids.
LEMMA FollowsInLine ==
    ASSUME NEW order \in Orders
    PROVE  \A at, id, at1, id1, at2, id2 \in Nat :
              /\ ~Follows(at, id, at, id, order)
              /\ at # at1 \/ id # id1 => Follows(at, id, at1, id1, order) \/ Follows(at1, id1, at, id, order)
              /\ Follows(at, id, at1, id1, order) /\ Follows(at1, id1, at2, id2, order) => Follows(at, id, at2, id2, order)
BY DEF Orders, Follows

\* Event j comes after event i in the order of the query.
Comes(j, i, key, order) == Follows(Axis(book, j, key), UuidRank[j], Axis(book, i, key), UuidRank[i], order)

LEMMA AxisTypes ==
    ASSUME BookInv, NEW i \in Ids(book), NEW key
    PROVE  Axis(book, i, key) \in Nat /\ UuidRank[i] \in Nat /\ \A j \in Ids(book) : UuidRank[i] = UuidRank[j] => i = j
<1>1. Ids(book) \subseteq 1 .. MaxEvents
  BY BookAssumption DEF BookInv, TypeOK, Ids
<1>2. DOMAIN UuidRank = 1 .. MaxEvents /\ \A j \in 1 .. MaxEvents : UuidRank[j] \in Nat
  BY ReadingsAssumption
<1>3. \A j \in 1 .. MaxEvents : UuidRank[i] = UuidRank[j] => i = j
  BY <1>1, <1>2, ReadingsAssumption DEF IsInjective
<1> QED BY <1>1, <1>2, <1>3, RowTypes DEF Axis

LEMMA ComesInLine ==
    ASSUME BookInv, NEW key, NEW order \in Orders
    PROVE  /\ \A i \in Ids(book) : ~Comes(i, i, key, order)
           /\ \A i, j \in Ids(book) : i # j => Comes(i, j, key, order) \/ Comes(j, i, key, order)
           /\ \A i, j, k \in Ids(book) : Comes(i, j, key, order) /\ Comes(j, k, key, order) => Comes(i, k, key, order)
<1>1. \A i \in Ids(book) : Axis(book, i, key) \in Nat /\ UuidRank[i] \in Nat
  BY AxisTypes
<1>2. \A i, j \in Ids(book) : UuidRank[i] = UuidRank[j] => i = j
  BY AxisTypes
<1>3. \A i \in Ids(book) : ~Comes(i, i, key, order)
  BY <1>1, FollowsInLine DEF Comes
<1>4. \A i, j \in Ids(book) : i # j => Comes(i, j, key, order) \/ Comes(j, i, key, order)
  BY <1>1, <1>2, FollowsInLine DEF Comes
<1>5. \A i, j, k \in Ids(book) : Comes(i, j, key, order) /\ Comes(j, k, key, order) => Comes(i, k, key, order)
  BY <1>1, FollowsInLine DEF Comes
<1> QED BY <1>3, <1>4, <1>5

\* The rows of a query: all of them, once each, in order.
LEMMA RowsInOrder ==
    ASSUME BookInv, NEW S, S \subseteq Ids(book), NEW key, NEW order \in Orders, NEW rows, rows = OrderBy(book, S, key, order)
    PROVE  /\ rows \in Seq(S) /\ Range(rows) = S /\ IsInjective(rows)
           /\ \A m, n \in DOMAIN rows : m < n => Comes(rows[n], rows[m], key, order)
<1> DEFINE R == {p \in S \X S : Comes(p[2], p[1], key, order)}
<1>1. \A x, y \in S : <<x, y>> \in R <=> Comes(y, x, key, order)
  OBVIOUS
<1> HIDE DEF R
<1>2. InLine(R, S)
  BY <1>1, ComesInLine DEF InLine
<1>3. PICK n \in Nat : n = Cardinality(S)
  BY FiniteEvents, FS_CardinalityType
<1>4. PICK s \in [1 .. n -> S] : Sorted(R, s)
  BY <1>2, <1>3, FiniteEvents, OrderExists
<1>5. \A i, j \in DOMAIN s : i < j =>
        Follows(Axis(book, s[j], key), UuidRank[s[j]], Axis(book, s[i], key), UuidRank[s[i]], order)
  BY <1>1, <1>4 DEF Sorted, Comes
<1>6. /\ rows \in [1 .. n -> S]
      /\ \A i, j \in DOMAIN rows : i < j =>
            Follows(Axis(book, rows[j], key), UuidRank[rows[j]], Axis(book, rows[i], key), UuidRank[rows[i]], order)
  BY <1>3, <1>4, <1>5, Zenon DEF OrderBy
<1>7. \A i, j \in DOMAIN rows : i < j => Comes(rows[j], rows[i], key, order)
  BY <1>6 DEF Comes
<1>8. IsInjective(rows)
  <2> SUFFICES ASSUME NEW i \in 1 .. n, NEW j \in 1 .. n, rows[i] = rows[j], i # j PROVE FALSE
    BY <1>6 DEF IsInjective
  <2>1. ASSUME NEW p \in 1 .. n, NEW q \in 1 .. n, p < q PROVE rows[p] # rows[q]
    <3>1. Comes(rows[q], rows[p], key, order) /\ rows[p] \in Ids(book)
      BY <1>6, <1>7, <2>1
    <3> QED BY <3>1, ComesInLine
  <2> QED BY <2>1
<1>9. rows \in Surjection(1 .. n, S)
  <2>1. IsFiniteSet(1 .. n) /\ Cardinality(1 .. n) = n
    BY FS_Interval
  <2>2. rows \in Injection(1 .. n, S)
    BY <1>6, <1>8 DEF Injection
  <2> QED BY <1>3, <2>1, <2>2, FiniteEvents, FS_Injection
<1>10. Range(rows) = S
  BY <1>6, <1>9 DEF Surjection, Range
<1> QED BY <1>6, <1>7, <1>8, <1>10

\* Two lists of rows, one after the other.
LEMMA RowsOneAfterTheOther ==
    ASSUME NEW S, NEW s \in Seq(S), NEW t \in Seq(S)
    PROVE  /\ s \o t \in Seq(S) /\ Range(s \o t) = Range(s) \cup Range(t)
           /\ IsInjective(s) /\ IsInjective(t) /\ Range(s) \cap Range(t) = {} => IsInjective(s \o t)
<1> DEFINE u == s \o t
<1>1. /\ Len(s) \in Nat /\ Len(t) \in Nat /\ DOMAIN s = 1 .. Len(s) /\ DOMAIN t = 1 .. Len(t)
      /\ u \in Seq(S) /\ DOMAIN u = 1 .. Len(s) + Len(t)
  OBVIOUS
<1>2. \A i \in DOMAIN u : IF i <= Len(s) THEN i \in DOMAIN s /\ u[i] = s[i]
                          ELSE i - Len(s) \in DOMAIN t /\ u[i] = t[i - Len(s)]
  BY <1>1
<1>3. /\ \A i \in DOMAIN s : i \in DOMAIN u /\ u[i] = s[i]
      /\ \A i \in DOMAIN t : i + Len(s) \in DOMAIN u /\ u[i + Len(s)] = t[i]
  BY <1>1
<1> HIDE DEF u
<1>4. Range(u) = Range(s) \cup Range(t)
  BY <1>2, <1>3 DEF Range
<1>5. ASSUME IsInjective(s), IsInjective(t), Range(s) \cap Range(t) = {} PROVE IsInjective(u)
  <2> SUFFICES ASSUME NEW i \in DOMAIN u, NEW j \in DOMAIN u, u[i] = u[j] PROVE i = j
    BY DEF IsInjective
  <2>1. CASE i <= Len(s) /\ j <= Len(s)
    BY <1>2, <1>5, <2>1 DEF IsInjective
  <2>2. CASE i > Len(s) /\ j > Len(s)
    <3>1. i - Len(s) = j - Len(s)
      BY <1>1, <1>2, <1>5, <2>2 DEF IsInjective
    <3> QED BY <1>1, <3>1
  <2>3. \A p \in DOMAIN s, q \in DOMAIN t : s[p] # t[q]
    BY <1>5 DEF Range
  <2> QED BY <1>1, <1>2, <2>1, <2>2, <2>3
<1> QED BY <1>1, <1>4, <1>5 DEF u

\* The first n rows.
LEMMA FirstRows ==
    ASSUME NEW S, NEW rows \in Seq(S), NEW n \in Nat, n <= Len(rows), NEW page, page = SubSeq(rows, 1, n)
    PROVE  /\ page \in Seq(S) /\ Len(page) = n /\ DOMAIN page = 1 .. n
           /\ \A i \in 1 .. n : i \in DOMAIN rows /\ page[i] = rows[i]
           /\ IsInjective(rows) => IsInjective(page)
<1>1. \A i \in 1 .. n : i \in DOMAIN rows /\ rows[i] \in S
  OBVIOUS
<1>2. page \in Seq(S) /\ Len(page) = n /\ \A i \in 1 .. n : page[i] = rows[i]
  OBVIOUS
<1>3. DOMAIN page = 1 .. n
  BY <1>2
<1>4. IsInjective(rows) => IsInjective(page)
  BY <1>1, <1>2, <1>3 DEF IsInjective
<1> QED BY <1>1, <1>2, <1>3, <1>4

\* A page of the rows of S: all of them when they fit, or else the rows up to its last one.
IsPage(page, rows, S, key, order) ==
    /\ page \in Seq(S) /\ IsInjective(page)
    /\ Len(rows) <= PageLimit => Range(page) = S
    /\ Len(rows) > PageLimit =>
         /\ Last(page) \in Range(page)
         /\ \A i \in Range(page) : ~Comes(i, Last(page), key, order)
         /\ \A i \in S \ Range(page) : Comes(i, Last(page), key, order)

LEMMA PageOfRows ==
    ASSUME BookInv, NEW S, S \subseteq Ids(book), NEW key, NEW order \in Orders, NEW rows, rows = OrderBy(book, S, key, order),
           NEW n, n = Min({PageLimit, Len(rows)}), NEW page, page = SubSeq(rows, 1, n)
    PROVE  IsPage(page, rows, S, key, order)
<1>1. /\ rows \in Seq(S) /\ Range(rows) = S /\ IsInjective(rows)
      /\ \A i, j \in DOMAIN rows : i < j => Comes(rows[j], rows[i], key, order)
  BY RowsInOrder
<1>0. rows \in Seq(S)
  BY <1>1
<1>2. PICK len \in Nat : len = Len(rows) /\ DOMAIN rows = 1 .. len
  BY <1>0
<1>3. PageLimit \in Nat \ {0}
  BY ReadingsAssumption
<1>4. n \in Nat /\ n = IF len <= PageLimit THEN len ELSE PageLimit
  <2>1. \E x \in {PageLimit, len} : \A y \in {PageLimit, len} : x <= y
    BY <1>3
  <2>2. n = Min({PageLimit, len})
    BY <1>2
  <2>3. n \in {PageLimit, len} /\ \A y \in {PageLimit, len} : n <= y
    BY <2>1, <2>2, Zenon DEF Min
  <2> QED BY <1>3, <2>3
<1>5. n \in Nat /\ n <= Len(rows)
  BY <1>2, <1>3, <1>4
<1>6. /\ page \in Seq(S) /\ DOMAIN page = 1 .. n /\ Len(page) = n /\ IsInjective(page)
      /\ \A i \in 1 .. n : i \in DOMAIN rows /\ page[i] = rows[i]
  <2>0. rows \in Seq(S) /\ n \in Nat /\ n <= Len(rows) /\ page = SubSeq(rows, 1, n)
    BY <1>1, <1>5
  <2>1. page \in Seq(S) 
    BY <2>0, FirstRows
  <2>2. Len(page) = n
    BY <2>0, FirstRows
  <2>3. DOMAIN page = 1 .. n
    BY <2>0, FirstRows
  <2>4. \A i \in 1 .. n : i \in DOMAIN rows
    BY <2>0, FirstRows
  <2>5. \A i \in 1 .. n : page[i] = rows[i]
    BY <2>0, FirstRows
  <2>6. IsInjective(page)
    BY <1>1, <2>0, FirstRows
  <2> QED BY <2>1, <2>2, <2>3, <2>4, <2>5, <2>6
<1>7. ASSUME len <= PageLimit PROVE Range(page) = S
  BY <1>1, <1>2, <1>4, <1>6, <1>7 DEF Range
<1>8. ASSUME len > PageLimit
      PROVE  /\ Last(page) \in Range(page)
             /\ \A i \in Range(page) : ~Comes(i, Last(page), key, order)
             /\ \A i \in S \ Range(page) : Comes(i, Last(page), key, order)
  <2>1. n = PageLimit /\ n \in DOMAIN page /\ n \in DOMAIN rows /\ Last(page) = rows[n]
    BY <1>2, <1>3, <1>4, <1>6, <1>8 DEF Last
  <2>2. Last(page) \in Range(page)
    BY <1>6, <2>1 DEF Range
  <2>3. ASSUME NEW m \in 1 .. n PROVE ~Comes(rows[m], rows[n], key, order)
    <3>1. rows[m] \in Ids(book) /\ rows[n] \in Ids(book)
      BY <1>1, <1>6, <2>1
    <3>2. m = n \/ Comes(rows[n], rows[m], key, order)
      BY <1>1, <1>6, <2>1
    <3> QED BY <3>1, <3>2, ComesInLine
  <2>4. \A i \in Range(page) : ~Comes(i, Last(page), key, order)
    BY <1>6, <2>1, <2>3 DEF Range
  <2>5. ASSUME NEW i \in S \ Range(page) PROVE Comes(i, Last(page), key, order)
    <3>1. PICK m \in DOMAIN rows : rows[m] = i
      BY <1>1 DEF Range
    <3>2. m \notin 1 .. n
      BY <1>6, <3>1 DEF Range
    <3>3. n < m
      BY <1>2, <1>5, <3>2
    <3> QED BY <1>1, <2>1, <3>1, <3>3
  <2> QED BY <2>2, <2>4, <2>5
<1> QED BY <1>2, <1>6, <1>7, <1>8 DEF IsPage
-----------------------------------------------------------------------------
(* The cash movements, page by page. *)

Keys == {"occurredAt", "recordedAt"}

Cursors == [key : Keys, order : Orders, at : Nat, id : Nat]

Walks == [op : {"walk", "walked"}, cursor : {NoCursor} \cup Cursors, served : Seq(Nat), stood : SUBSET Nat, always : SUBSET Nat]

\* What has been served is not ahead of the cursor; what always stood was served or is ahead.
WalkOK ==
    /\ reader \in Walks
    /\ Range(reader.served) \subseteq Ids(book) /\ IsInjective(reader.served) /\ reader.always \subseteq SqlStanding(book)
    /\ reader.op = "walk" =>
        /\ reader.cursor = NoCursor => reader.served = <<>>
        /\ \A i \in Range(reader.served) : ~After(book, i, reader.cursor)
        /\ \A i \in reader.always : MovesCash(i) => i \in Range(reader.served) \/ After(book, i, reader.cursor)
    /\ reader.op = "walked" => \A i \in reader.always : MovesCash(i) => i \in Range(reader.served)

WalkInv == Walking => WalkOK

LEMMA NoneOfTheCursors == \A cursor \in Cursors : cursor # NoCursor
<1>1. NoCursor.key = "" /\ "" \notin Keys
  BY DEF NoCursor, Keys
<1>2. \A cursor \in Cursors : cursor.key \in Keys
  BY DEF Cursors
<1> QED BY <1>1, <1>2

\* The movements of a page.
Ahead(cursor) == {i \in SqlStanding(book) : book[i].cmd.effect \in Cash /\ After(book, i, cursor)}

\* A page that is not the last, and the cursor after it.
LEMMA CursorMoves ==
    ASSUME BookInv, NEW key \in Keys, NEW order \in Orders, NEW cursor \in {NoCursor} \cup Cursors,
           cursor # NoCursor => cursor.key = key /\ cursor.order = order,
           NEW last \in Ids(book), After(book, last, cursor),
           NEW next, next = [key |-> key, order |-> order, at |-> Axis(book, last, key), id |-> UuidRank[last]]
    PROVE  /\ next \in Cursors
           /\ \A i : After(book, i, next) <=> Comes(i, last, key, order)
           /\ \A i \in Ids(book) : cursor # NoCursor /\ ~After(book, i, cursor) => ~After(book, i, next)
<1>1. /\ next \in Cursors /\ next # NoCursor
      /\ next.key = key /\ next.order = order /\ next.at = Axis(book, last, key) /\ next.id = UuidRank[last]
  BY AxisTypes, NoneOfTheCursors DEF Cursors
<1>2. \A i : After(book, i, next) <=> Comes(i, last, key, order)
  BY <1>1 DEF After, Comes
<1>3. ASSUME NEW i \in Ids(book), cursor # NoCursor, Comes(i, last, key, order) PROVE After(book, i, cursor)
  <2>1. cursor.at \in Nat /\ cursor.id \in Nat /\ cursor.key = key /\ cursor.order = order
    BY <1>3 DEF Cursors
  <2>2. Follows(Axis(book, last, key), UuidRank[last], cursor.at, cursor.id, order)
    BY <1>3, <2>1 DEF After
  <2>3. Follows(Axis(book, i, key), UuidRank[i], Axis(book, last, key), UuidRank[last], order)
    BY <1>3 DEF Comes
  <2>4. Axis(book, i, key) \in Nat /\ UuidRank[i] \in Nat /\ Axis(book, last, key) \in Nat /\ UuidRank[last] \in Nat
    BY AxisTypes
  <2>5. Follows(Axis(book, i, key), UuidRank[i], cursor.at, cursor.id, order)
    BY <2>1, <2>2, <2>3, <2>4, FollowsInLine
  <2> QED BY <2>1, <2>5 DEF After
<1> QED BY <1>1, <1>2, <1>3

LEMMA PageIsRead ==
    ASSUME BookInv, WalkOK, NEW key \in Keys, NEW order \in Orders, WalkReads(key, order), reader' # AtRest
    PROVE  WalkOK'
<1>1. PICK cursor \in {NoCursor} \cup Cursors : cursor = reader.cursor
  BY DEF WalkOK, Walks
<1>2. PICK S : S = Ahead(cursor)
  OBVIOUS
<1>3. PICK rows : rows = OrderBy(book, S, key, order)
  OBVIOUS
<1>4. PICK n : n = Min({PageLimit, Len(rows)})
  OBVIOUS
<1>5. PICK page : page = SubSeq(rows, 1, n)
  OBVIOUS
<1>6. PICK served \in Seq(Nat) : served = reader.served
  BY DEF WalkOK, Walks
<1>a. IsPage(page, rows, S, key, order)
  <2>1. S \subseteq Ids(book)
    BY <1>2 DEF Ahead, SqlStanding
  <2> QED BY <1>3, <1>4, <1>5, <2>1, PageOfRows
<1>7. PICK all \in Seq(Nat) : all = served \o page
  <2>1. S \subseteq Nat
    BY <1>2 DEF Ahead, SqlStanding, BookInv, TypeOK, Ids
  <2>2. page \in Seq(Nat)
    BY <1>a, <2>1, SeqMonotonic DEF IsPage
  <2>3. served \o page \in Seq(Nat)
    BY <2>2, RowsOneAfterTheOther
  <2> QED BY <2>3
<1>8. PICK next : next = [key |-> key, order |-> order, at |-> Axis(book, Last(page), key), id |-> UuidRank[Last(page)]]
  OBVIOUS
<1>9. /\ reader.op = "walk" /\ UNCHANGED book
      /\ cursor # NoCursor => cursor.key = key /\ cursor.order = order
      /\ reader' = IF Len(rows) <= PageLimit THEN [reader EXCEPT !.op = "walked", !.served = all]
                   ELSE [reader EXCEPT !.served = all, !.cursor = next]
  <2>1. /\ reader.op = "walk" /\ UNCHANGED book
        /\ ~(cursor # NoCursor /\ <<cursor.key, cursor.order>> # <<key, order>>)
    BY <1>1 DEF WalkReads
  <2>2. rows = Movements(book, key, order, reader.cursor)
    BY <1>1, <1>2, <1>3 DEF Movements, Ahead
  <2>3. reader' = IF Len(rows) <= PageLimit THEN [reader EXCEPT !.op = "walked", !.served = all]
                  ELSE [reader EXCEPT !.served = all, !.cursor = next]
    BY <1>1, <1>4, <1>5, <1>6, <1>7, <1>8, <2>1, <2>2 DEF WalkReads
  <2> QED BY <2>1, <2>3
<1>10. PICK always \in SUBSET Nat : always = reader.always
  BY DEF WalkOK, Walks
<1>11. /\ S \subseteq Ids(book) /\ always \subseteq SqlStanding(book)
       /\ \A i \in SqlStanding(book) : MovesCash(i) /\ After(book, i, cursor) => i \in S
       /\ \A i \in S : After(book, i, cursor)
  BY <1>2, <1>10 DEF Ahead, SqlStanding, MovesCash, WalkOK
<1>12. /\ Range(served) \subseteq Ids(book) /\ IsInjective(served)
       /\ cursor = NoCursor => served = <<>>
       /\ \A i \in Range(served) : ~After(book, i, cursor)
       /\ \A i \in always : MovesCash(i) => i \in Range(served) \/ After(book, i, cursor)
  BY <1>1, <1>6, <1>9, <1>10 DEF WalkOK
<1>13. Range(page) \subseteq S
  BY <1>a DEF IsPage, Range
<1>14. /\ Range(all) = Range(served) \cup Range(page) /\ Range(all) \subseteq Ids(book) /\ IsInjective(all)
  <2>1. Range(served) \cap Range(page) = {}
    BY <1>11, <1>12, <1>13
  <2>2. page \in Seq(Nat)
    BY <1>11, <1>a, SeqMonotonic DEF IsPage, BookInv, TypeOK, Ids
  <2>3. Range(all) = Range(served) \cup Range(page)
    BY <1>7, <2>2, RowsOneAfterTheOther
  <2>4. IsInjective(all)
    BY <1>a, <1>7, <1>12, <2>1, <2>2, RowsOneAfterTheOther DEF IsPage
  <2> QED BY <1>11, <1>12, <1>13, <2>3, <2>4
<1>15. UNCHANGED <<book, SqlStanding(book), Ids(book)>>
  BY <1>9 DEF SqlStanding, SqlRetracted, Ids, Retracts, IsRetraction
<1>16. CASE Len(rows) <= PageLimit
  <2>1. \A r \in Walks : LET m == [r EXCEPT !.op = "walked", !.served = all] IN
          m \in Walks /\ m.op = "walked" /\ m.served = all /\ m.always = r.always
    BY DEF Walks
  <2>2. reader' \in Walks /\ reader'.op = "walked" /\ reader'.served = all /\ reader'.always = always
    BY <1>9, <1>10, <1>16, <2>1 DEF WalkOK
  <2>3. \A i \in always : MovesCash(i) => i \in Range(all)
    BY <1>11, <1>12, <1>14, <1>16, <1>a DEF IsPage
  <2>4. \A i : MovesCash(i)' <=> MovesCash(i)
    BY <1>9 DEF MovesCash
  <2> QED BY <1>11, <1>14, <1>15, <2>2, <2>3, <2>4 DEF WalkOK
<1>17. CASE Len(rows) > PageLimit
  <2>0. PICK last : last = Last(page)
    OBVIOUS
  <2>1. /\ last \in Range(page) /\ last \in Ids(book) /\ After(book, last, cursor)
        /\ \A i \in Range(page) : ~Comes(i, last, key, order)
        /\ \A i \in S \ Range(page) : Comes(i, last, key, order)
    BY <1>11, <1>13, <1>17, <1>a, <2>0 DEF IsPage
  <2>2. /\ next \in Cursors
        /\ \A i : After(book, i, next) <=> Comes(i, last, key, order)
        /\ \A i \in Ids(book) : cursor # NoCursor /\ ~After(book, i, cursor) => ~After(book, i, next)
    <3>1. next = [key |-> key, order |-> order, at |-> Axis(book, last, key), id |-> UuidRank[last]]
      BY <1>8, <2>0
    <3>2. cursor # NoCursor => cursor.key = key /\ cursor.order = order
      BY <1>9
    <3>3. last \in Ids(book) /\ After(book, last, cursor)
      BY <2>1
    <3> QED BY <3>1, <3>2, <3>3, CursorMoves
  <2>3. \A r \in Walks : LET m == [r EXCEPT !.served = all, !.cursor = next] IN
          m \in Walks /\ m.op = r.op /\ m.served = all /\ m.cursor = next /\ m.always = r.always
    BY <2>2 DEF Walks
  <2>4. ~(Len(rows) <= PageLimit)
    <3>1. Len(rows) \in Nat
      BY <1>3, <1>11, RowsInOrder
    <3> QED BY <1>17, <3>1, ReadingsAssumption
  <2>5. /\ reader' \in Walks /\ reader'.op = "walk" /\ reader'.served = all /\ reader'.cursor = next
        /\ reader'.always = always
    BY <1>9, <1>10, <2>3, <2>4 DEF WalkOK
  <2>6. ASSUME NEW i \in Range(all) PROVE ~After(book, i, next)
    <3>1. CASE i \in Range(page)
      BY <2>1, <2>2, <3>1
    <3>2. CASE i \in Range(served)
      <4>1. cursor # NoCursor
        BY <1>12, <3>2 DEF Range
      <4> QED BY <1>12, <2>2, <3>2, <4>1
    <3> QED BY <1>14, <3>1, <3>2
  <2>7. ASSUME NEW i \in always, MovesCash(i) PROVE i \in Range(all) \/ After(book, i, next)
    <3>1. i \in Range(served) \/ i \in S
      BY <1>11, <1>12, <2>7
    <3> QED BY <1>14, <2>1, <2>2, <3>1
  <2>8. \A i : MovesCash(i)' <=> MovesCash(i)
    BY <1>9 DEF MovesCash
  <2>9. next # NoCursor
    BY <2>2, NoneOfTheCursors
  <2> QED BY <1>9, <1>11, <1>14, <1>15, <2>5, <2>6, <2>7, <2>8, <2>9 DEF WalkOK
<1>18. Len(rows) <= PageLimit \/ Len(rows) > PageLimit
  <2>1. Len(rows) \in Nat
    BY <1>3, <1>11, RowsInOrder
  <2> QED BY <2>1, ReadingsAssumption
<1> QED BY <1>16, <1>17, <1>18

\* An event that is recorded leaves the pages alone.
LEMMA WalkRecords ==
    ASSUME BookInv, BookInv', WalkOK, NEW new, Joins(new), NEW S \in SUBSET Nat, S = SqlStanding(book)',
           reader' = [reader EXCEPT !.stood = @ \cup S, !.always = @ \cap S]
    PROVE  WalkOK'
<1>1. \A r \in Walks : LET n == [r EXCEPT !.stood = @ \cup S, !.always = @ \cap S] IN
        n \in Walks /\ n.op = r.op /\ n.cursor = r.cursor /\ n.served = r.served /\ n.always = r.always \cap S
  BY DEF Walks
<1>2. /\ reader' \in Walks /\ reader'.op = reader.op /\ reader'.cursor = reader.cursor
      /\ reader'.served = reader.served /\ reader'.always = reader.always \cap S
  BY <1>1 DEF WalkOK
<1>3. Ids(book) \subseteq Ids(book)' /\ \A i \in Ids(book) : book'[i] = book[i]
  BY DEF Joins, Grows
<1>4. \A i \in Ids(book) : /\ MovesCash(i)' <=> MovesCash(i)
                           /\ \A cursor : After(book', i, cursor) <=> After(book, i, cursor)
  BY <1>3 DEF MovesCash, After, Axis
<1>5. reader.always \subseteq Ids(book) /\ Range(reader.served) \subseteq Ids(book)
  BY DEF WalkOK, SqlStanding
<1>6. Range(reader'.served) = Range(reader.served) /\ (IsInjective(reader'.served) <=> IsInjective(reader.served))
  BY <1>2
<1>7. ASSUME reader.op = "walk"
      PROVE  /\ reader'.cursor = NoCursor => reader'.served = <<>>
             /\ \A i \in Range(reader'.served) : ~After(book', i, reader'.cursor)
             /\ \A i \in reader'.always : MovesCash(i)' => i \in Range(reader'.served) \/ After(book', i, reader'.cursor)
  BY <1>2, <1>4, <1>5, <1>6, <1>7 DEF WalkOK
<1>8. ASSUME reader.op = "walked" PROVE \A i \in reader'.always : MovesCash(i)' => i \in Range(reader'.served)
  BY <1>2, <1>4, <1>5, <1>6, <1>8 DEF WalkOK
<1>9. Range(reader'.served) \subseteq Ids(book)' /\ IsInjective(reader'.served) /\ reader'.always \subseteq SqlStanding(book)'
  BY <1>2, <1>3, <1>5, <1>6 DEF WalkOK
<1> QED BY <1>2, <1>7, <1>8, <1>9 DEF WalkOK

LEMMA WalkBegins == BookInv /\ WalkStarts => WalkOK'
<1> SUFFICES ASSUME BookInv, WalkStarts PROVE WalkOK'
  OBVIOUS
<1>0. Ids(book) \subseteq Nat
  BY DEF BookInv, TypeOK, Ids
<1>1. PICK S \in SUBSET Nat : S = SqlStanding(book)
  BY <1>0 DEF SqlStanding
<1>2. reader' = [op |-> "walk", cursor |-> NoCursor, served |-> <<>>, stood |-> S, always |-> S] /\ UNCHANGED book
  BY <1>1 DEF WalkStarts
<1>3. /\ reader' \in Walks /\ reader'.op = "walk" /\ reader'.cursor = NoCursor /\ reader'.served = <<>>
      /\ reader'.always = S
  BY <1>2 DEF Walks
<1>4. Range(<<>>) = {} /\ IsInjective(<<>>)
  BY DEF Range, IsInjective
<1>5. SqlStanding(book)' = S
  BY <1>1, <1>2 DEF SqlStanding, SqlRetracted, Ids, Retracts, IsRetraction
<1>6. \A i : After(book', i, NoCursor)
  BY DEF After
<1> QED BY <1>3, <1>4, <1>5, <1>6 DEF WalkOK

LEMMA WalkKept ==
    ASSUME BookInv, ReaderInv, WalkInv, [ReadNext]_readVars
    PROVE  WalkInv'
<1> SUFFICES ASSUME Walking' PROVE WalkOK'
  BY DEF WalkInv
<1>1. reader'.op \in {"walk", "walked"} /\ reader' # AtRest
  BY DEF Walking, AtRest
<1>2. CASE UNCHANGED <<book, reader>>
  <2>1. WalkOK
    BY <1>2 DEF WalkInv, Walking
  <2> QED BY <1>2, <2>1 DEF WalkOK, MovesCash, After, Axis, SqlStanding, SqlRetracted, Ids, Retracts, IsRetraction
<1>3. CASE Records
  <2>1. BookInv' /\ Joins(Len(book) + 1)
    BY <1>3, RecordJoins
  <2>2. PICK new : new = Len(book) + 1
    OBVIOUS
  <2>3. PICK S \in SUBSET Nat : S = SqlStanding(book)'
    <3>1. Ids(book)' \subseteq Nat
      BY <2>1 DEF BookInv, TypeOK, Ids
    <3> QED BY <3>1 DEF SqlStanding
  <2>4. reader # AtRest /\ reader' = [reader EXCEPT !.stood = @ \cup S, !.always = @ \cap S]
    BY <1>1, <1>3, <2>3 DEF Records
  <2>5. CASE Walking
    BY <2>1, <2>2, <2>3, <2>4, <2>5, WalkRecords DEF WalkInv
  <2>6. CASE StatementOK
    BY <1>1, <2>3, <2>4, <2>6, RequestGoesOn DEF SameRequest, StatementOK, Requests
  <2> QED BY <2>4, <2>5, <2>6 DEF ReaderInv
<1>4. CASE WalkStarts
  BY <1>4, WalkBegins
<1>5. ASSUME NEW key \in Keys, NEW order \in Orders, WalkReads(key, order) PROVE WalkOK'
  <2>1. Walking
    BY <1>5 DEF WalkReads, ReaderInv, AtRest, StatementOK, Requests
  <2> QED BY <1>1, <1>5, <2>1, PageIsRead DEF WalkInv
<1>6. CASE Ends
  BY <1>1, <1>6 DEF Ends
<1>7. CASE Statement
  <2>1. reader = AtRest \/ StatementOK
    BY <1>7 DEF Statement, StatementStarts, StatementReadsPeriod, StatementHopEnds, StatementHops, ReaderInv, Walking
  <2>2. ASSUME NEW from, NEW to, StatementStarts(from, to) PROVE FALSE
    BY <1>1, <2>2 DEF StatementStarts
  <2>3. reader # AtRest => reader \in Requests
    BY <2>1 DEF StatementOK
  <2>4. CASE StatementReadsPeriod
    BY <1>1, <2>3, <2>4 DEF StatementReadsPeriod, Requests, AtRest
  <2>5. ASSUME NEW e, StatementHops(e) PROVE FALSE
    BY <1>1, <2>3, <2>5 DEF StatementHops, Requests, AtRest
  <2>6. CASE StatementHopEnds
    BY <1>1, <2>3, <2>6 DEF StatementHopEnds, Requests, AtRest
  <2> QED BY <1>7, <2>2, <2>4, <2>5, <2>6 DEF Statement
<1> QED BY <1>2, <1>3, <1>4, <1>5, <1>6, <1>7 DEF ReadNext, readVars, Walk, Keys, Orders

\* However the book moves under a walk with cursors, no movement is served twice, and when it
\* ends every movement that stood throughout has been served (findCashMovementsPaginated).
THEOREM WalksAreComplete == ReadSpec => []WalkComplete
<1>1. ReadInit => WalkInv
  BY DEF ReadInit, WalkInv, Walking, AtRest
<1>2. BookInv /\ ReaderInv /\ WalkInv /\ [ReadNext]_readVars => WalkInv'
  BY WalkKept
<1>3. BookInv /\ ReaderInv /\ WalkInv => WalkComplete
  <2> SUFFICES ASSUME BookInv, ReaderInv, WalkInv, reader.op \in {"walk", "walked"}
               PROVE  /\ IsInjective(reader.served)
                      /\ reader.op = "walked" => {i \in reader.always : book[i].cmd.effect \in Cash} \subseteq Range(reader.served)
    BY DEF WalkComplete
  <2>1. WalkOK
    BY DEF WalkInv, ReaderInv, AtRest, StatementOK, Requests
  <2> QED BY <2>1 DEF WalkOK, MovesCash
<1>4. ReadSpec => [](BookInv /\ ReaderInv)
  BY ReaderInvariant
<1> QED BY <1>1, <1>2, <1>3, <1>4, PTL DEF ReadSpec
=============================================================================
