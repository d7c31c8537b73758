------------------------------ MODULE Readings ------------------------------
(***************************************************************************)
(* Reading the book: position aggregates and projections, the listings'    *)
(* filters, the cash statement, the cash movements page by page, the       *)
(* exposures.  The same rules are written down several times: in the SQL   *)
(* of TypeOrmLedgerEventRepository.ts, in its in-memory twin, in           *)
(* PositionProjectionService.ts and in positionUtils.ts.                   *)
(*                                                                         *)
(* The book grows one admitted event at a time (AtomicBook, which Book     *)
(* implements for a single writer) while one reader asks.  A command also  *)
(* carries occurredAt, due (the due date, None when not stated) and, per   *)
(* party, a partyId.                                                       *)
(*                                                                         *)
(*   reader  the request under way; "stood" and "always" are history: the  *)
(*           events that stood at some moment of it, and throughout.       *)
(***************************************************************************)
EXTENDS Book

CONSTANTS
    Usina,       \* usinaPartyId
    TypeRank,    \* object type |-> its place among the texts
    UuidRank,    \* event |-> the place of its random id among the ids
    LastDay,     \* occurredAt, dueAt: 1 .. LastDay
    PageLimit,   \* limit of a page of movements
    Filters      \* options the position listing is asked with

VARIABLE reader

readVars == <<book, clock, writer, reader>>

ASSUME ReadingsAssumption ==
    /\ PageLimit \in Nat \ {0} /\ LastDay \in Nat /\ TypeRank \in [ObjectTypes -> Nat]
    /\ UuidRank \in [1 .. MaxEvents -> Nat] /\ IsInjective(UuidRank)
    /\ \A c \in Commands : c.occurredAt \in 1 .. LastDay /\ c.due \in 0 .. LastDay /\ (c.dueAt <=> c.due # None)

Cash == {"CASH_IN", "CASH_OUT"}

\* What the listings call standing, and what the in-memory book does.
SqlStanding(b) == Ids(b) \ SqlRetracted(b)
MemoryStanding(b) == Ids(b) \ retractedEventIds(b, Ids(b))

UnitsOf(b, S) == SumFunction([i \in S |-> b[i].cmd.amount])

WithEffect(b, S, effect) == {i \in S : b[i].cmd.effect = effect}

Earliest(T) == IF T = {} THEN None ELSE Min(T)
-----------------------------------------------------------------------------
(* Positions. *)

TypesNamed(b, S, x) == {o.objectType : o \in {p \in UNION {Range(b[i].cmd.objects) : i \in S} : p.objectId = x}}

\* MAX(o.object_type)
MaxType(T) == CHOOSE t \in T : \A u \in T : TypeRank[u] <= TypeRank[t]

\* One row of the aggregate: position x over the events of S that name it.
AggregateOver(b, S, x) ==
    LET originating == {i \in S : Mentions(b[i], x, {"ORIGINATES"}) > 0} IN
    [objectType           |-> MaxType(TypesNamed(b, S, x)),
     totalOriginated      |-> Units(b, S, x, {"ORIGINATES"}),
     totalSettled         |-> Units(b, S, x, {"SETTLES"}),
     totalAdjusted        |-> Units(b, S, x, {"ADJUSTS"}),
     cashRecovered        |-> Units(b, WithEffect(b, S, "CASH_IN"), x, {"SETTLES"}),
     nonCashClosed        |-> Units(b, WithEffect(b, S, "NON_CASH"), x, {"SETTLES"}),
     refCashIn            |-> Units(b, WithEffect(b, S, "CASH_IN"), x, {"REFERENCES"}),
     refCashOut           |-> Units(b, WithEffect(b, S, "CASH_OUT"), x, {"REFERENCES"}),
     hasReversal          |-> \E i \in S : Mentions(b[i], x, {"REVERSES"}) > 0,
     hasUnresolvedLineage |-> \E i \in S : b[i].cmd.reason.type = "UNKNOWN_ORIGIN" /\ b[i].cmd.reason.requiresFollowup,
     originatedAt         |-> Earliest({b[i].cmd.occurredAt : i \in originating}),
     createdAt            |-> Min({b[i].recordedAt : i \in S}),
     dueAt                |-> Earliest({b[i].cmd.due : i \in originating} \ {None})]

PositionsOf(b, S) == {o.objectId : o \in UNION {Range(b[i].cmd.objects) : i \in S}}

\* findAllPositionAggregates: SQL, and buildAggregateMap of the in-memory book.
SqlAggregate(b, x) == AggregateOver(b, EventsOf(b, x) \cap SqlStanding(b), x)
MemoryAggregate(b, x) == AggregateOver(b, EventsOf(b, x) \cap MemoryStanding(b), x)

\* PositionProjectionService.project: over the events of the position alone, retractions
\* looked for among them; the type is taken from all of them, retracted ones too.
project(b, x) ==
    LET S == EventsOf(b, x) IN
    [AggregateOver(b, S \ retractedEventIds(b, S), x) EXCEPT !.objectType = MaxType(TypesNamed(b, S, x))]

totalClosed(agg) == agg.totalSettled + agg.totalAdjusted

hasUnknownOrigination(agg) == agg.hasUnresolvedLineage /\ agg.totalOriginated = 0

\* derivePositionStatus, and deriveStatus of the projection.
derivePositionStatus(agg) ==
    CASE agg.hasReversal -> "reversed"
      [] ~agg.hasReversal /\ hasUnknownOrigination(agg) -> "unknown_origin"
      [] OTHER -> IF agg.totalOriginated = 0 THEN "open"
                  ELSE IF totalClosed(agg) >= agg.totalOriginated THEN "fully_settled"
                  ELSE IF totalClosed(agg) > 0 THEN "partially_settled" ELSE "open"

\* Slip: an unknown origination is also open.
statusToSql_OpenUnknown(status, agg) ==
    IF status = "open" THEN ~agg.hasReversal /\ (agg.totalOriginated = 0 \/ totalClosed(agg) = 0)
    ELSE derivePositionStatus(agg) = status

\* The predicate each status is filtered with.
statusToSql(status, agg) ==
    CASE status = "unknown_origin" -> ~agg.hasReversal /\ hasUnknownOrigination(agg)
      [] status = "open" -> ~agg.hasReversal /\ ~hasUnknownOrigination(agg)
                                /\ (agg.totalOriginated = 0 \/ totalClosed(agg) = 0)
      [] status = "partially_settled" ->
            ~agg.hasReversal /\ agg.totalOriginated > 0 /\ totalClosed(agg) \in 1 .. agg.totalOriginated - 1
      [] status = "fully_settled" ->
            ~agg.hasReversal /\ agg.totalOriginated > 0 /\ totalClosed(agg) >= agg.totalOriginated
      [] status = "reversed" -> agg.hasReversal

PositionStatuses == {"open", "partially_settled", "fully_settled", "reversed", "unknown_origin"}

OutcomeOfClosed(agg) ==
    IF agg.nonCashClosed = 0 THEN "gain" ELSE IF agg.cashRecovered = 0 THEN "full_loss" ELSE "partial_loss"

\* PositionProjectionService.deriveOutcome
deriveOutcome(agg) ==
    LET status == derivePositionStatus(agg) IN
    CASE status = "reversed" -> "cancelled"
      [] status \in {"unknown_origin", "open", "partially_settled"} -> "pending"
      [] OTHER -> OutcomeOfClosed(agg)

\* The in-memory book's: a position of unknown origin is scored as if it were closed.
deriveOutcomeFromAggregate(agg) ==
    LET status == derivePositionStatus(agg) IN
    CASE status = "reversed" -> "cancelled"
      [] status \in {"open", "partially_settled"} -> "pending"
      [] OTHER -> OutcomeOfClosed(agg)

\* The predicate each outcome is filtered with.
outcomeToSql(outcome, agg) ==
    LET closed == ~agg.hasReversal /\ agg.totalOriginated > 0 /\ totalClosed(agg) >= agg.totalOriginated IN
    CASE outcome = "pending" ->
            ~agg.hasReversal /\ (agg.totalOriginated = 0 \/ totalClosed(agg) < agg.totalOriginated)
      [] outcome = "cancelled" -> agg.hasReversal
      [] outcome = "gain" -> closed /\ agg.nonCashClosed = 0
      [] outcome = "full_loss" -> closed /\ agg.cashRecovered = 0
      [] outcome = "partial_loss" -> closed /\ agg.cashRecovered > 0 /\ agg.nonCashClosed > 0

Outcomes == {"pending", "cancelled", "gain", "full_loss", "partial_loss"}

\* openBalanceUnitsOf and deriveOpenBalance; 0 also where the code says null, which no sum
\* below includes.
openBalance(agg) ==
    IF hasUnknownOrigination(agg) \/ totalClosed(agg) >= agg.totalOriginated THEN 0
    ELSE agg.totalOriginated - totalClosed(agg)

findSettledObjectIds(b) ==
    {x \in PositionsOf(b, Ids(b)) : \E i \in SqlStanding(b) : Mentions(b[i], x, {"SETTLES"}) > 0}
-----------------------------------------------------------------------------
(* The position listing.  A filter has types, statuses, outcome and parties, empty when    *)
(* not asked for, and from and to, which are 0 and MaxClock then.                          *)

ASSUME FiltersAssumption ==
    \A f \in Filters : f.statuses \subseteq PositionStatuses /\ f.outcome \in Outcomes \cup {""}

Names(event, P) == \E p \in Range(event.cmd.parties) : p.partyId \in P

\* Slip: one standing event has to satisfy all of the filters.
Candidates_OneEvent(b, f) ==
    {x \in PositionsOf(b, SqlStanding(b)) : \E i \in EventsOf(b, x) \cap SqlStanding(b) :
        /\ f.types # {} => TypesNamed(b, {i}, x) \cap f.types # {}
        /\ b[i].recordedAt >= f.from
        /\ b[i].recordedAt <= f.to
        /\ f.parties # {} => Names(b[i], f.parties)}

\* objectsWhere: the semi-joins, one per filter, that narrow which positions are aggregated.
Candidates(b, f) ==
    {x \in PositionsOf(b, SqlStanding(b)) : LET S == EventsOf(b, x) \cap SqlStanding(b) IN
        /\ f.types # {} => \E i \in S : TypesNamed(b, {i}, x) \cap f.types # {}
        /\ \E i \in S : b[i].recordedAt >= f.from
        /\ \E i \in S : b[i].recordedAt <= f.to
        /\ f.parties # {} => \E i \in S : Names(b[i], f.parties)}

\* findPositionAggregates in SQL: the candidates, and the exact conditions on their rows.
SqlListing(b, f) ==
    {x \in Candidates(b, f) : LET agg == SqlAggregate(b, x) IN
        /\ f.types # {} => agg.objectType \in f.types
        /\ f.statuses # {} => \E s \in f.statuses : statusToSql(s, agg)
        /\ f.outcome # "" => outcomeToSql(f.outcome, agg)
        /\ agg.createdAt >= f.from
        /\ agg.createdAt <= f.to}

\* ... and in memory: every position, filtered.
MemoryListing(b, f) ==
    {x \in PositionsOf(b, MemoryStanding(b)) : LET agg == MemoryAggregate(b, x) IN
        /\ f.types # {} => agg.objectType \in f.types
        /\ f.statuses # {} => derivePositionStatus(agg) \in f.statuses
        /\ agg.createdAt >= f.from
        /\ agg.createdAt <= f.to
        /\ f.parties # {} => \E i \in EventsOf(b, x) \cap MemoryStanding(b) : Names(b[i], f.parties)
        /\ f.outcome # "" => deriveOutcomeFromAggregate(agg) = f.outcome}
-----------------------------------------------------------------------------
(* Exposures. *)

USINA_RECEIVABLE_OBJECT_TYPES == {"LOAN", "ADVANCE", "RECEIVABLE"}
USINA_PAYABLE_OBJECT_TYPES == {"PAYABLE", "PAYROLL", "SERVICE_FEE", "INFRASTRUCTURE_COST", "TAX"}
USINA_CONTINGENT_OBJECT_TYPES == {"CONTINGENT_CLAIM", "DISPUTE", "PENALTY", "CHARGEBACK"}

\* The open balances of the positions X.
TotalOpen(b, X) == SumFunction([x \in X |-> openBalance(SqlAggregate(b, x))])

\* Slip: a reversed position is still open.
OpenBalance_Reversed(b, T) ==
    TotalOpen(b, {x \in PositionsOf(b, SqlStanding(b)) : SqlAggregate(b, x).objectType \in T})

\* aggregateOpenBalancesByObjectType, added up over types, as CashPositionService does.
OpenBalance(b, T) ==
    TotalOpen(b, {x \in PositionsOf(b, SqlStanding(b)) : LET agg == SqlAggregate(b, x) IN
                    /\ agg.objectType \in T
                    /\ ~agg.hasReversal /\ agg.totalOriginated > 0
                    /\ totalClosed(agg) < agg.totalOriginated})

\* dueStateOf
DueStateOf(agg, asOf) == IF agg.dueAt = None THEN "unknown" ELSE IF agg.dueAt < asOf THEN "overdue" ELSE "upcoming"

\* computeCapitalMetrics, for the dashboard and the health of the book.
computeCapitalMetrics(b, riskCutoff, asOf) ==
    LET agg(x) == SqlAggregate(b, x)
        known == {x \in PositionsOf(b, SqlStanding(b)) : ~agg(x).hasReversal /\ ~hasUnknownOrigination(agg(x))}
        payable == {x \in known : agg(x).objectType \in USINA_PAYABLE_OBJECT_TYPES}
        due(s) == TotalOpen(b, {x \in payable : DueStateOf(agg(x), asOf) = s})
    IN  [openExposure |-> TotalOpen(b, known \ payable),
         capitalAtRisk |-> TotalOpen(b, {x \in known \ payable :
                                /\ totalClosed(agg(x)) = 0
                                /\ agg(x).originatedAt # None /\ agg(x).originatedAt <= riskCutoff}),
         openPayableExposure |-> TotalOpen(b, payable),
         overdue |-> due("overdue"), upcoming |-> due("upcoming"), undated |-> due("unknown")]

\* aggregateClosureStats and computeClosureQuality: settled in cash, of all that was settled.
ClosureStats(b, from, to) ==
    LET settling == {i \in SqlStanding(b) : b[i].cmd.occurredAt \in from .. to /\ Carries(b[i].cmd, "SETTLES")} IN
    [cashInSettled |-> UnitsOf(b, WithEffect(b, settling, "CASH_IN")), totalSettled |-> UnitsOf(b, settling)]
-----------------------------------------------------------------------------
(* The cash statement of a period. *)

\* Slip: the first day of the period is part of the opening balance.
FlowsBefore_Inclusive(b, from) ==
    {i \in SqlStanding(b) : b[i].cmd.effect \in Cash /\ b[i].cmd.occurredAt <= from}

\* aggregateCashFlowsBefore
FlowsBefore(b, from) == {i \in SqlStanding(b) : b[i].cmd.effect \in Cash /\ b[i].cmd.occurredAt < from}

\* aggregateCashFlows, and aggregatePeriodCashFlow of the dashboard.
Flows(b, from, to) == {i \in SqlStanding(b) : b[i].cmd.effect \in Cash /\ b[i].cmd.occurredAt \in from .. to}

findByPeriod(b, from, to) == {i \in Ids(b) : b[i].cmd.occurredAt \in from .. to}

findByRelatedEventId(b, e) == {i \in Ids(b) : b[i].related = e}

\* The usina is the one whose cash moves.
MovesOwnCash(event) ==
    \E p \in Range(event.cmd.parties) :
        p.partyId = Usina /\ p.direction = (IF event.cmd.effect = "CASH_IN" THEN "IN" ELSE "OUT")

Net(b, S) == UnitsOf(b, WithEffect(b, S, "CASH_IN")) - UnitsOf(b, WithEffect(b, S, "CASH_OUT"))

AtRest == [op |-> "none"]

\* The requests keep what the answer is made of: "opening" and "counted" are the events added
\* up, "due" the events whose retractions are still to be looked for.
StatementStarts(from, to) ==
    /\ reader = AtRest
    /\ reader' = [op |-> "opened", from |-> from, to |-> to, opening |-> FlowsBefore(book, from),
                  period |-> {}, due |-> {}, hops |-> {}, found |-> {}, counted |-> {},
                  stood |-> SqlStanding(book), always |-> SqlStanding(book)]
    /\ UNCHANGED <<book, clock, writer>>

StatementReadsPeriod ==
    /\ reader.op = "opened"
    /\ LET period == findByPeriod(book, reader.from, reader.to) IN
       reader' = [reader EXCEPT !.op = "firstHop", !.period = period,
                                !.due = {i \in period : book[i].cmd.effect \in Cash}]
    /\ UNCHANGED <<book, clock, writer>>

\* One findByRelatedEventId of a Promise.all.
StatementHops(e) ==
    /\ reader.op \in {"firstHop", "secondHop"}
    /\ e \in reader.due
    /\ reader' = [reader EXCEPT !.due = @ \ {e}, !.found = @ \cup findByRelatedEventId(book, e)]
    /\ UNCHANGED <<book, clock, writer>>

\* Slip: the retractions of retractions are not looked for.
StatementHopEnds_One ==
    /\ reader.op = "firstHop" /\ reader.due = {}
    /\ LET retracted == retractedEventIds(book, reader.found) IN
       reader' = [reader EXCEPT !.op = "stated",
                    !.counted = {i \in reader.period \ retracted : book[i].cmd.effect \in Cash /\ MovesOwnCash(book[i])}]
    /\ UNCHANGED <<book, clock, writer>>

\* All of them are there: the second hop, or the statement.
StatementHopEnds ==
    /\ reader.op \in {"firstHop", "secondHop"} /\ reader.due = {}
    /\ LET hops == reader.hops \cup reader.found
           retracted == retractedEventIds(book, hops)
       IN  reader' =
            IF reader.op = "firstHop"
            THEN [reader EXCEPT !.op = "secondHop", !.hops = hops, !.due = reader.found, !.found = {}]
            ELSE [reader EXCEPT !.op = "stated", !.hops = {}, !.found = {},
                    !.counted = {i \in reader.period \ retracted : book[i].cmd.effect \in Cash /\ MovesOwnCash(book[i])}]
    /\ UNCHANGED <<book, clock, writer>>
-----------------------------------------------------------------------------
(* The cash movements, page by page. *)

Axis(b, i, key) == IF key = "recordedAt" THEN b[i].recordedAt ELSE b[i].cmd.occurredAt

\* ORDER BY the axis, then the id, both in the same direction.
Follows(at, id, at0, id0, order) ==
    IF order = "ASC" THEN at > at0 \/ (at = at0 /\ id > id0) ELSE at < at0 \/ (at = at0 /\ id < id0)

NoCursor == [key |-> "", order |-> "", at |-> 0, id |-> 0]

\* Slip: the id does not break ties.
After_NoTies(b, i, cursor) ==
    cursor = NoCursor \/ (IF cursor.order = "ASC" THEN Axis(b, i, cursor.key) > cursor.at
                          ELSE Axis(b, i, cursor.key) < cursor.at)

\* The keyset condition.
After(b, i, cursor) ==
    cursor = NoCursor \/ Follows(Axis(b, i, cursor.key), UuidRank[i], cursor.at, cursor.id, cursor.order)

OrderBy(b, S, key, order) ==
    CHOOSE rows \in [1 .. Cardinality(S) -> S] :
        \A m, n \in DOMAIN rows : m < n =>
            Follows(Axis(b, rows[n], key), UuidRank[rows[n]], Axis(b, rows[m], key), UuidRank[rows[m]], order)

\* findCashMovementsPaginated, keyset: the standing movements after the cursor, in order.
Movements(b, key, order, cursor) ==
    OrderBy(b, {i \in SqlStanding(b) : b[i].cmd.effect \in Cash /\ After(b, i, cursor)}, key, order)

WalkStarts ==
    /\ reader = AtRest
    /\ reader' = [op |-> "walk", cursor |-> NoCursor, served |-> <<>>,
                  stood |-> SqlStanding(book), always |-> SqlStanding(book)]
    /\ UNCHANGED <<book, clock, writer>>

\* CashEventListingService.list: a cursor of another ordering is refused.
WalkReads(key, order) ==
    /\ reader.op = "walk"
    /\ IF reader.cursor # NoCursor /\ <<reader.cursor.key, reader.cursor.order>> # <<key, order>>
       THEN reader' = AtRest
       ELSE LET ahead == Movements(book, key, order, reader.cursor)
                page == SubSeq(ahead, 1, Min({PageLimit, Len(ahead)}))
            IN  reader' =
                IF Len(ahead) <= PageLimit THEN [reader EXCEPT !.op = "walked", !.served = @ \o page]
                ELSE [reader EXCEPT !.served = @ \o page,
                        !.cursor = [key |-> key, order |-> order, at |-> Axis(book, Last(page), key),
                                    id |-> UuidRank[Last(page)]]]
    /\ UNCHANGED <<book, clock, writer>>
-----------------------------------------------------------------------------
\* An event is admitted; only the commands whose contract or retraction asks for it name one.
Records ==
    /\ Len(book) < MaxEvents
    /\ \E c \in Commands, target \in {None} \cup Ids(book), at \in 0 .. MaxClock :
        /\ (target # None) <=> (Carries(c, "RETRACTS") \/
                (EVENT_CONTRACTS[c.eventType].requiresRelatedEventId /\ c.reason.type # "UNKNOWN_ORIGIN"))
        /\ Atomic!Record(c, target, at)
    /\ reader' = IF reader = AtRest THEN reader
                 ELSE [reader EXCEPT !.stood = @ \cup SqlStanding(book)', !.always = @ \cap SqlStanding(book)']
    /\ UNCHANGED <<clock, writer>>

\* The answer has been looked at.
Ends ==
    /\ reader.op \in {"stated", "walked"}
    /\ reader' = AtRest
    /\ UNCHANGED <<book, clock, writer>>

ReadInit == Init /\ reader = AtRest

Statement ==
    \/ \E from, to \in 1 .. LastDay : from <= to /\ StatementStarts(from, to)
    \/ StatementReadsPeriod \/ StatementHopEnds
    \/ \E e \in 1 .. MaxEvents : StatementHops(e)

Walk == WalkStarts \/ \E key \in {"occurredAt", "recordedAt"}, order \in {"ASC", "DESC"} : WalkReads(key, order)

ReadNext == Records \/ Statement \/ Walk \/ Ends

ReadSpec == ReadInit /\ [][ReadNext]_readVars
-----------------------------------------------------------------------------
(* Properties.  Those of the book alone are looked at between requests. *)

\* Every retraction names the objects of what it retracts, as what they were named.
RetractionsNameTypes ==
    \A i \in Ids(book) : IsRetraction(book, i) =>
        \A o \in Range(book[book[i].related].cmd.objects) :
            \E p \in Range(book[i].cmd.objects) : p.objectId = o.objectId /\ p.objectType = o.objectType

\* Closed, and neither in cash nor by a non-cash settlement: the two outcome predicates of
\* the SQL overlap here ("gain" and "full_loss").
ClosedWithoutSettlement(agg) == agg.cashRecovered = 0 /\ agg.nonCashClosed = 0

\* "The two must stay in lockstep": for every position, exactly one status predicate of the SQL
\* holds and it is the status the code derives; the projection of one position, the SQL
\* aggregate and the in-memory one are the same row; the outcome filtered by is the outcome
\* shown, but for a position closed by adjustments or payments alone.
ReadPathsAgree ==
    reader = AtRest /\ RetractionsNameTypes =>
        \A x \in PositionsOf(book, Ids(book)) :
            LET agg == SqlAggregate(book, x) IN
            /\ {s \in PositionStatuses : statusToSql(s, agg)} = {derivePositionStatus(agg)}
            /\ project(book, x) = agg
            /\ MemoryAggregate(book, x) = agg
            /\ \/ {o \in Outcomes : outcomeToSql(o, agg)} = {deriveOutcome(agg)}
               \/ ClosedWithoutSettlement(agg)
            /\ x \in findSettledObjectIds(book) <=> agg.totalSettled > 0

\* "the answer is identical, only the work is smaller": narrowing the candidates first loses
\* no position that the in-memory listing, which narrows nothing, returns.  (An outcome
\* filter is scored differently in memory for positions of unknown origin.)
NarrowingIsSound ==
    reader = AtRest =>
        \A f \in Filters : \A x \in PositionsOf(book, Ids(book)) :
            \/ x \in SqlListing(book, f) <=> x \in MemoryListing(book, f)
            \/ /\ f.outcome # ""
               /\ hasUnknownOrigination(SqlAggregate(book, x)) \/ ClosedWithoutSettlement(SqlAggregate(book, x))

\* The figures reconcile: what the cash position calls payables is the dashboard's payable
\* exposure, split without rest into overdue, upcoming and undated; everything open is in one
\* of the two exposures; capital at risk is part of the exposure; closure quality is at most 1.
ExposuresReconcile ==
    reader = AtRest =>
        \A asOf \in 1 .. LastDay :
            LET m == computeCapitalMetrics(book, asOf, asOf)  stats == ClosureStats(book, 1, asOf) IN
            /\ OpenBalance(book, USINA_PAYABLE_OBJECT_TYPES) = m.openPayableExposure
            /\ OpenBalance(book, ObjectTypes) = m.openExposure + m.openPayableExposure
            /\ OpenBalance(book, USINA_RECEIVABLE_OBJECT_TYPES) + OpenBalance(book, USINA_CONTINGENT_OBJECT_TYPES)
                    <= m.openExposure
            /\ m.overdue + m.upcoming + m.undated = m.openPayableExposure
            /\ m.capitalAtRisk <= m.openExposure
            /\ stats.cashInSettled <= stats.totalSettled

\* A statement that took several queries, with the book moving in between: an event is
\* counted only if it stood at some moment of the read, and one that stood throughout and
\* moves the usina's cash is counted, on the right side of the period's start.
CountedWhileStanding ==
    reader.op = "stated" =>
        /\ reader.opening \cup reader.counted \subseteq reader.stood
        /\ reader.opening \cap reader.counted = {}
        /\ Flows(book, reader.from, reader.to) \cap reader.always \cap {i \in Ids(book) : MovesOwnCash(book[i])}
                \subseteq reader.counted
        /\ FlowsBefore(book, reader.from) \cap reader.always \subseteq reader.opening

\* Statements of adjoining periods chain: when nothing was recorded meanwhile and all cash
\* is the usina's, the closing balance of a period is the opening balance of the next.
StatementsChain ==
    /\ reader.op = "stated" /\ reader.always = reader.stood /\ reader.stood = SqlStanding(book)
    /\ \A i \in Ids(book) : book[i].cmd.effect \in Cash => MovesOwnCash(book[i])
    => Net(book, reader.opening) + Net(book, reader.counted) = Net(book, FlowsBefore(book, reader.to + 1))

\* A walk with cursors over a book that moves: nothing is served twice, and at its end
\* everything that stood throughout has been served.
WalkComplete ==
    reader.op \in {"walk", "walked"} =>
        /\ IsInjective(reader.served)
        /\ reader.op = "walked" =>
            {i \in reader.always : book[i].cmd.effect \in Cash} \subseteq Range(reader.served)
=============================================================================
