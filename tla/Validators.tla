------------------------------ MODULE Validators ------------------------------
(***************************************************************************)
(* The validators' workers: producers that poll and publish batches        *)
(* (application/jobs/*_producer.go), consumers that turn a batch into      *)
(* canonical verdicts (rabbitmq/worker.go and the *_handler.go), the full  *)
(* scan (cmd/validator) and the one-off receipt tool with its checkpoint   *)
(* (cmd/tools/receipt-canonical).                                          *)
(*                                                                         *)
(*   db         the source database, edited by others;                     *)
(*   canonical  domain |-> id |-> verdict, the MongoDB collections;        *)
(*   queue      domain |-> batches waiting, broker side;                   *)
(*   producer   domain |-> the scan under way;                             *)
(*   worker     consumer |-> the batch in hand (prefetch 1); "validator"   *)
(*              is the full scan.  "stale" is history: something the       *)
(*              worker read has changed since;                             *)
(*   tool, checkpoint   the one-off job and its file;                      *)
(*   deployed   the services and one-off jobs that are there: each is a    *)
(*              process of its own, and none starts another;               *)
(*   edits, failures, oneOffs   bounds.                                    *)
(***************************************************************************)
EXTENDS ValidationRules, FiniteSetsExt, Integers

CONSTANTS
    Databases,             \* what the source may hold
    PropOrder,             \* proposal id |-> its place in the order of their text
    AdvOrder, AdvText,     \* advance id |-> its place in the order of the column, of the text
    batchSize,             \* of a producer's pages, and of the tool's
    MaxQueue,              \* bound: batches in a queue when a producer publishes
    MaxEdits, MaxFailures, MaxOneOffs,
    Deployments            \* which of the services and one-off jobs run together

Domains == {"proposals", "receipts", "advances"}
NoAnchor == ""
Workers == Domains \cup {"validator"}

ASSUME ValidatorsAssumption ==
    /\ batchSize \in [{"receipts", "advances", "tool"} -> Nat \ {0}]
    /\ \A order \in {PropOrder, AdvOrder, AdvText} :
          /\ IsFiniteSet(DOMAIN order) /\ NoAnchor \notin DOMAIN order
          /\ \A id \in DOMAIN order : order[id] \in 1 .. Cardinality(DOMAIN order)
          /\ \A a, b \in DOMAIN order : order[a] = order[b] => a = b
    /\ DOMAIN AdvText = DOMAIN AdvOrder
    /\ \A d \in Databases :
          /\ Ids(d.proposals) \subseteq DOMAIN PropOrder /\ Ids(d.advances) \subseteq DOMAIN AdvOrder
          /\ \A p, q \in d.proposals : p.id = q.id => p = q
          /\ \A r, s \in d.receipts : r.id = s.id => r = s
          /\ \A p \in d.proposals : p.number.zeros \in Nat /\ p.number.space \in BOOLEAN
    /\ \A s \in Deployments : s \subseteq Workers \cup {"tool"}

VARIABLES db, canonical, queue, producer, worker, tool, checkpoint, deployed, edits, failures, oneOffs

source == <<db, deployed, edits>>
oneOff == <<tool, checkpoint>>
vars == <<db, canonical, queue, producer, worker, tool, checkpoint, deployed, edits, failures, oneOffs>>

Resting == [on |-> FALSE, anchor |-> NoAnchor, left |-> {}]
Free == [phase |-> "idle"]
Off == [on |-> FALSE]

Init ==
    /\ db \in Databases
    /\ canonical = [d \in Domains |-> <<>>]
    /\ queue = [d \in Domains |-> <<>>]
    /\ producer = [d \in Domains |-> Resting]
    /\ worker = [w \in Workers |-> Free]
    /\ tool = Off
    /\ checkpoint = NoAnchor
    /\ deployed \in Deployments
    /\ edits = 0 /\ failures = 0 /\ oneOffs = 0

DomainOf(w) == IF w = "validator" THEN "proposals" ELSE w

WithStatus(status) == {p \in DOMAIN canonical["proposals"] : canonical["proposals"][p] = status}

\* Everyone at work has read something that is no longer so.
Outdated(except) ==
    [w \in Workers |-> IF worker[w] = Free \/ w = except THEN worker[w] ELSE [worker[w] EXCEPT !.stale = TRUE]]

Edit ==
    /\ edits < MaxEdits
    /\ db' \in Databases \ {db}
    /\ edits' = edits + 1
    /\ worker' = Outdated("nobody")
    /\ UNCHANGED <<deployed, canonical, queue, producer, oneOff, failures, oneOffs>>
-----------------------------------------------------------------------------
(* Producers. *)

\* The first rows of a table after an anchor.
PageAfter(size, order, among, anchor, text) ==
    LET later == {id \in among \cap DOMAIN order : anchor = NoAnchor \/ text[id] > text[anchor]}
    IN  {id \in later : Cardinality({o \in later : order[o] < order[id]}) < size}

LastOf(order, page) == CHOOSE id \in page : \A o \in page : order[o] <= order[id]

\* FetchCleanBatch
CleanPage(who, anchor) == PageAfter(batchSize[who], PropOrder, WithStatus("CLEAN"), anchor, PropOrder)

\* AdvanceReportRepository.FetchBatch: id::text > anchor, ORDER BY id.
AdvancePage(anchor) == PageAfter(batchSize["advances"], AdvOrder, Ids(db.advances), anchor, AdvText)

Publish(d, batch) ==
    /\ Len(queue[d]) < MaxQueue
    /\ queue' = [queue EXCEPT ![d] = Append(@, batch)]

\* The interval has passed: ProposalBatchProducer reads every key at once, the others start
\* from no anchor.
Poll(d) ==
    /\ d \in deployed
    /\ producer[d] = Resting
    /\ producer' = [producer EXCEPT ![d] =
            [on |-> TRUE, anchor |-> NoAnchor, left |-> IF d = "proposals" THEN FetchDistinctBlockingKeys(db) ELSE {}]]
    /\ UNCHANGED <<source, canonical, queue, worker, oneOff, failures, oneOffs>>

\* One message per blocking key.
PublishKey ==
    LET p == producer["proposals"] IN
    /\ p.on
    /\ IF p.left = {}
       THEN producer' = [producer EXCEPT !["proposals"] = Resting] /\ UNCHANGED queue
       ELSE \E key \in p.left :
            /\ Publish("proposals", key)
            /\ producer' = [producer EXCEPT !["proposals"].left = @ \ {key}]
    /\ UNCHANGED <<source, canonical, worker, oneOff, failures, oneOffs>>

\* One message per page, until a page is empty.
PublishPage(d) ==
    LET order == IF d = "receipts" THEN PropOrder ELSE AdvOrder
        page == IF d = "receipts" THEN CleanPage(d, producer[d].anchor) ELSE AdvancePage(producer[d].anchor)
    IN
    /\ d # "proposals"
    /\ producer[d].on
    /\ IF page = {}
       THEN producer' = [producer EXCEPT ![d] = Resting] /\ UNCHANGED queue
       ELSE /\ Publish(d, page)
            /\ producer' = [producer EXCEPT ![d].anchor = LastOf(order, page)]
    /\ UNCHANGED <<source, canonical, worker, oneOff, failures, oneOffs>>

\* A fetch or a publish fails and the scan is given up until the next interval, or the
\* message is published before its queue is bound and is dropped by the exchange.
ProducerFails(d) ==
    /\ producer[d].on
    /\ failures < MaxFailures
    /\ producer' = [producer EXCEPT ![d] = Resting]
    /\ failures' = failures + 1
    /\ UNCHANGED <<source, canonical, queue, worker, oneOff, oneOffs>>
-----------------------------------------------------------------------------
(* Consumers. *)

\* The first query of a handler.
Rows(w, batch) ==
    CASE w = "proposals" -> FetchByBlockingKey(db, batch)
      [] w = "receipts"  -> FetchAllByProposalIDs(db, batch)
      [] w = "advances"  -> {a \in db.advances : a.id \in batch}
      [] w = "validator" -> FetchAll(db)

\* Slip: the paid installments and the delinquents are not fetched.
Verdicts_NoEnrichment(w, rows) ==
    CASE DomainOf(w) = "proposals" -> proposalVerdicts(rows, [db EXCEPT !.receipts = {}])
      [] w = "receipts" -> receiptVerdicts(rows, ActiveLinks(db), FALSE)
      [] w = "advances" -> advanceVerdicts(rows, <<>>, {}, {})

\* The enrichment that follows, and the rules.
Verdicts(w, rows) ==
    CASE DomainOf(w) = "proposals" -> proposalVerdicts(rows, db)
      [] w = "receipts" -> receiptVerdicts(rows, ActiveLinks(db), FALSE)
      [] w = "advances" ->
            LET links == FetchActiveReceiptLinks(db, Ids(rows)) IN
            advanceVerdicts(rows, links, FetchReceiptsByIDs(db, links), WithStatus("SUSPICIOUS"))

Busy(w, rows, batch) ==
    [phase |-> "fetched", batch |-> batch, rows |-> rows, verdicts |-> <<>>, lost |-> FALSE, stale |-> FALSE]

\* A delivery; with nothing to validate it is acknowledged at once.
Fetch(w) ==
    /\ w \in Domains
    /\ worker[w] = Free
    /\ queue[w] # <<>>
    /\ queue' = [queue EXCEPT ![w] = Tail(@)]
    /\ LET batch == Head(queue[w])  rows == Rows(w, batch) IN
       worker' = [worker EXCEPT ![w] = IF rows = {} THEN Free ELSE Busy(w, rows, batch)]
    /\ UNCHANGED <<source, canonical, producer, oneOff, failures, oneOffs>>

\* cmd/validator is started.
ScanStarts ==
    /\ "validator" \in deployed
    /\ worker["validator"] = Free
    /\ oneOffs < MaxOneOffs
    /\ oneOffs' = oneOffs + 1
    /\ worker' = [worker EXCEPT !["validator"] = Busy("validator", Rows("validator", {}), {})]
    /\ UNCHANGED <<source, canonical, queue, producer, oneOff, failures>>

Enrich(w) ==
    /\ worker[w].phase = "fetched"
    /\ worker' = [worker EXCEPT ![w].phase = "judged", ![w].rows = {},
                                ![w].verdicts = Verdicts(w, worker[w].rows)]
    /\ UNCHANGED <<source, canonical, queue, producer, oneOff, failures, oneOffs>>

\* Records, over those that were there.
Over(records, there) ==
    [id \in DOMAIN records \cup DOMAIN there |-> IF id \in DOMAIN records THEN records[id] ELSE there[id]]

\* The records of S become what the worker found; a changed proposal outdates what the
\* others at work have read.
Write(w, S) ==
    LET d == DomainOf(w)
        new == Over([id \in S |-> worker[w].verdicts[id]], canonical[d])
        left == DOMAIN worker[w].verdicts \ S
        mine == IF left = {} THEN Free
                ELSE [worker[w] EXCEPT !.verdicts = [id \in left |-> worker[w].verdicts[id]]]
    IN  /\ canonical' = [canonical EXCEPT ![d] = new]
        /\ worker' = [(IF d = "proposals" /\ new # canonical[d] THEN Outdated(w) ELSE worker)
                        EXCEPT ![w] = mine]

\* Slip: only what has no verdict yet is written.
Save_InsertOnly(w) ==
    /\ worker[w].phase = "judged"
    /\ LET left == DOMAIN worker[w].verdicts IN
       IF left \subseteq DOMAIN canonical[DomainOf(w)]
       THEN worker' = [worker EXCEPT ![w] = Free] /\ UNCHANGED canonical
       ELSE Write(w, left)
    /\ UNCHANGED <<source, queue, producer, oneOff, failures, oneOffs>>

\* Proposals are updated one by one, receipts and advances by one bulk write; the last
\* write is followed by the acknowledgement.
Save(w) ==
    /\ worker[w].phase = "judged"
    /\ IF worker[w].verdicts = <<>>
       THEN worker' = [worker EXCEPT ![w] = Free] /\ UNCHANGED canonical
       ELSE IF DomainOf(w) = "proposals"
       THEN \E id \in DOMAIN worker[w].verdicts : Write(w, {id})
       ELSE Write(w, DOMAIN worker[w].verdicts)
    /\ UNCHANGED <<source, queue, producer, oneOff, failures, oneOffs>>

\* A query or a write fails: a bulk write may have done part of its work, the delivery is
\* dead-lettered (and the full scan only logs it).
HandlerFails(w) ==
    /\ worker[w] # Free
    /\ failures < MaxFailures
    /\ failures' = failures + 1
    /\ \E S \in SUBSET DOMAIN worker[w].verdicts :
        /\ DomainOf(w) = "proposals" => S = {}
        /\ canonical' = [canonical EXCEPT ![DomainOf(w)] = Over([id \in S |-> worker[w].verdicts[id]], @)]
    /\ worker' = [worker EXCEPT ![w] = Free]
    /\ UNCHANGED <<source, queue, producer, oneOff, oneOffs>>

Requeued(w) == [queue EXCEPT ![w] = <<worker[w].batch>> \o @]

\* The connection drops: the broker takes the delivery back, the handler carries on and
\* reconnects when it is done.
ConnectionDrops(w) ==
    /\ w \in Domains /\ worker[w] # Free /\ ~worker[w].lost
    /\ failures < MaxFailures
    /\ failures' = failures + 1
    /\ queue' = Requeued(w)
    /\ worker' = [worker EXCEPT ![w].lost = TRUE]
    /\ UNCHANGED <<source, canonical, producer, oneOff, oneOffs>>

\* The process dies; what it had not acknowledged comes back.
Crash(w) ==
    /\ worker[w] # Free
    /\ failures < MaxFailures
    /\ failures' = failures + 1
    /\ queue' = IF w \in Domains /\ ~worker[w].lost THEN Requeued(w) ELSE queue
    /\ worker' = [worker EXCEPT ![w] = Free]
    /\ UNCHANGED <<source, canonical, producer, oneOff, oneOffs>>
-----------------------------------------------------------------------------
(* The receipt tool: three goroutines joined by channels of one batch. *)

InPipe == 3      \* batches between the reader and the writer

ToolStarts ==
    /\ "tool" \in deployed
    /\ tool = Off
    /\ oneOffs < MaxOneOffs
    /\ WithStatus("CLEAN") # {}
    /\ oneOffs' = oneOffs + 1
    /\ tool' = [on |-> TRUE, anchor |-> checkpoint, exhausted |-> FALSE, pipe |-> <<>>]
    /\ UNCHANGED <<source, canonical, queue, producer, worker, checkpoint, failures>>

\* Stage 1: the next page of clean proposals.
ToolReads ==
    /\ tool.on /\ ~tool.exhausted
    /\ Len(tool.pipe) < InPipe
    /\ LET page == CleanPage("tool", tool.anchor)  last == LastOf(PropOrder, page) IN
       tool' = IF page = {} THEN [tool EXCEPT !.exhausted = TRUE]
               ELSE [tool EXCEPT !.anchor = last,
                        !.pipe = Append(@, [ids |-> page, anchor |-> last,
                                            judged |-> FALSE, verdicts |-> <<>>])]
    /\ UNCHANGED <<source, canonical, queue, producer, worker, checkpoint, failures, oneOffs>>

\* Stage 2: its receipts.  (The rules are applied on the way out, to what was fetched here.)
ToolFetches ==
    /\ tool.on
    /\ \E k \in DOMAIN tool.pipe :
        /\ ~tool.pipe[k].judged /\ \A j \in 1 .. k - 1 : tool.pipe[j].judged
        /\ tool' = [tool EXCEPT !.pipe[k].judged = TRUE,
                        !.pipe[k].verdicts =
                            receiptVerdicts(FetchAllByProposalIDs(db, tool.pipe[k].ids), ActiveLinks(db), TRUE)]
    /\ UNCHANGED <<source, canonical, queue, producer, worker, checkpoint, failures, oneOffs>>

\* Slip: the checkpoint is where the reader is.
Confirmed_Reader(batch) == tool.anchor

\* onBatch: the checkpoint of a batch that has been written.
Confirmed(batch) == batch.anchor

\* Stage 3: the write, and only then the checkpoint.
ToolWrites ==
    /\ tool.on
    /\ tool.pipe # <<>> /\ Head(tool.pipe).judged
    /\ canonical' = [canonical EXCEPT !["receipts"] = Over(Head(tool.pipe).verdicts, @)]
    /\ checkpoint' = Confirmed(Head(tool.pipe))
    /\ tool' = [tool EXCEPT !.pipe = Tail(@)]
    /\ UNCHANGED <<source, queue, producer, worker, failures, oneOffs>>

\* Done: the checkpoint is removed.
ToolEnds ==
    /\ tool.on /\ tool.exhausted /\ tool.pipe = <<>>
    /\ tool' = Off
    /\ checkpoint' = NoAnchor
    /\ UNCHANGED <<source, canonical, queue, producer, worker, failures, oneOffs>>

\* It fails or is interrupted; the next start resumes from the file.
ToolDies ==
    /\ tool.on
    /\ failures < MaxFailures
    /\ failures' = failures + 1
    /\ tool' = Off
    /\ UNCHANGED <<source, canonical, queue, producer, worker, checkpoint, oneOffs>>
-----------------------------------------------------------------------------
Produce(d) == Poll(d) \/ PublishPage(d) \/ (d = "proposals" /\ PublishKey)

Consume(w) == Fetch(w) \/ Enrich(w) \/ Save(w)

Tool == ToolStarts \/ ToolReads \/ ToolFetches \/ ToolWrites \/ ToolEnds

Faults ==
    \/ \E d \in Domains : ProducerFails(d)
    \/ \E w \in Workers : HandlerFails(w) \/ ConnectionDrops(w) \/ Crash(w)
    \/ ToolDies

Next ==
    \/ Edit \/ ScanStarts \/ Tool \/ Faults
    \/ \E d \in Domains : Produce(d)
    \/ \E w \in Workers : Consume(w)

\* The workers are services that poll, consume and reconnect for ever.
Fairness ==
    /\ \A d \in Domains : WF_vars(Produce(d))
    /\ \A w \in Workers : WF_vars(Consume(w))
    /\ WF_vars(ToolReads \/ ToolFetches \/ ToolWrites \/ ToolEnds)

Spec == Init /\ [][Next]_vars /\ Fairness
-----------------------------------------------------------------------------
(* Properties. *)

\* The batches the producer makes of the advance reports as they are.
AdvancePages ==
    LET anchor[n \in Nat] ==
            IF n = 0 THEN NoAnchor ELSE LET page == AdvancePage(anchor[n - 1]) IN
                                  IF page = {} THEN anchor[n - 1] ELSE LastOf(AdvOrder, page)
    IN  {AdvancePage(anchor[n]) : n \in 0 .. Cardinality(DOMAIN AdvOrder)}

\* What the rules say now of everything a poll comes back to: the proposals that have a
\* blocking key, the receipts of clean proposals, the advances on a page.
Right ==
    [d \in Domains |->
        LET Found(judged) == {<<id, judged[id]>> : id \in DOMAIN judged} IN
        CASE d = "proposals" ->
                UNION {Found(proposalVerdicts(FetchByBlockingKey(db, k), db)) : k \in FetchDistinctBlockingKeys(db)}
          [] d = "receipts" ->
                Found(receiptVerdicts(FetchAllByProposalIDs(db, WithStatus("CLEAN")), ActiveLinks(db), FALSE))
          [] d = "advances" ->
                UNION {Found(Verdicts("advances", Rows("advances", page))) : page \in AdvancePages}]

Holds(d, id, verdict) == id \in DOMAIN canonical[d] /\ canonical[d][id] = verdict

\* Once the source is left alone, every verdict a poll comes back to becomes right and stays
\* right: through failed scans, dead-lettered and redelivered batches, half-done writes, late
\* handlers, the full scan, the tool and the dependence of receipts and advances on the
\* verdicts of proposals.
EventuallyRight ==
    <>[](\A d \in Domains \cap deployed : \A v \in Right[d] : Holds(d, v[1], v[2]))

\* Go trims a space in front of a number before it compares, the SQL key does not.
NoSpaces == \A p \in db.proposals : ~p.number.space

\* The batch in hand holds the advance and is not its page, or not the only one.
OffItsPage(id) ==
    LET w == worker["advances"] IN
    w # Free /\ id \in w.batch /\ {page \in AdvancePages : id \in page} # {w.batch}

\* A write that is late: of a worker that read something since changed, of the tool, which
\* runs fewer rules than the consumer, of the full scan where a number starts with a space,
\* or of a batch of advances that is not their page any more (RULE-ADV-004 compares the
\* advances of one batch).
LateWrite(d, id) ==
    \/ \E w \in Workers : worker[w] # Free /\ worker[w].stale /\ DomainOf(w) = d /\ worker'[w] # worker[w]
    \/ d = "receipts" /\ tool.on /\ tool'.on /\ Len(tool'.pipe) < Len(tool.pipe)
    \/ worker["validator"] # worker'["validator"] /\ ~NoSpaces
    \/ d = "advances" /\ worker[d] # worker'[d] /\ OffItsPage(id)

\* Replaying is safe: only a late write puts a wrong verdict over a right one.
OnlyLateWritersSpoil ==
    [][\A d \in Domains : \A v \in Right[d] :
        Holds(d, v[1], v[2]) /\ ~Holds(d, v[1], v[2])' => LateWrite(d, v[1])]_vars

\* A killed tool resumes without a gap: what it has read and not yet written lies after the
\* checkpoint.
CheckpointBehindUnwritten ==
    tool.on => \A k \in DOMAIN tool.pipe : \A id \in tool.pipe[k].ids :
        checkpoint = NoAnchor \/ PropOrder[checkpoint] < PropOrder[id]

\* One block at a time or all at once, the rules say the same of a proposal, as long as no
\* number starts with a space: the key computed in SQL gathers all that Go would compare.
BlocksAgreeWithScan ==
    NoSpaces =>
        \A v \in Right.proposals : proposalVerdicts(FetchAll(db), db)[v[1]] = v[2]
==============================================================================
