------------------------------- MODULE Staging -------------------------------
(***************************************************************************)
(* The staging pipeline around the book.                                   *)
(*                                                                         *)
(*   ingest    a pass over the source system inserts a record for every    *)
(*             fact not staged yet (INSERT OR IGNORE on its reference);    *)
(*   submit    each submitter claims pending records of its event types    *)
(*             and publishes them, without publisher confirms;             *)
(*   post      consumers take messages from one queue, one at a time per   *)
(*             process, and handle them: validate, resolve the lineage,    *)
(*             record the event, mark the record, acknowledge.  The API    *)
(*             server handles what is pending when it boots, by itself.    *)
(*                                                                         *)
(* A handler that loses its connection keeps running while the broker      *)
(* hands its message out again; when it comes to acknowledge, the closed   *)
(* channel throws twice and takes the whole process down.                  *)
(***************************************************************************)
EXTENDS Ingestion

CONSTANTS
    Nothing,      \* the record an idle handler has, the input of a record not staged
    Inputs,       \* the documents a pass may find in the source system
    Handlers,     \* message handlers, of one or more post-staging processes
    ProcessOf,    \* the process each of them runs in
    ClaimLimit,   \* records one claim may take
    Faults,       \* the kinds of fault that may happen
    MaxFaults     \* bound: how many of them

FaultKinds == {"publish throws", "message lost", "submitter dies", "query fails",
               "connection lost", "process dies", "server dies"}

\* A record and its source reference are one: the table has one row for each.
Refs == {SourceReference(i) : i \in {j \in Inputs : Eligible(j)}}

ASSUME StagingAssumption ==
    /\ Handlers \subseteq Writers
    /\ ClaimLimit \in Nat \ {0}
    /\ MaxFaults \in Nat
    /\ Faults \subseteq FaultKinds
    /\ Nothing \notin Inputs /\ Nothing \notin Refs
    /\ \A i \in Inputs : i.source \in {"receipt", "advance"}
    /\ \A i \in Inputs : Eligible(i) =>
          LET c == toCreateCommand(i) IN {c, markOrphanIfUnlinked(c, None)} \subseteq Commands

VARIABLES
    status,    \* staging_records.status, by source reference
    payload,   \* the input each record was staged from
    claimed,   \* what each submitter has claimed and not published yet
    queue,     \* ledger.staging, oldest first
    dead,      \* ledger.staging.dead
    batch,     \* what each booting server has claimed and not handled yet
    job,       \* where each handle() stands
    refused,   \* rejected_events: the records refused
    faults     \* faults so far

pipe == <<status, payload, claimed, queue, dead, batch, job, refused, faults>>
stagingVars == <<vars, pipe>>

\* The API servers: whoever writes to the book and is not a message handler.
Servers == Writers \ Handlers

Submitters == {"receipt", "advance"}

EventTypesOf(s) ==
    CASE s = "receipt" -> {"COMMISSION_RECEIVED", "COMMISSION_EXPECTED"}
      [] s = "advance" -> {"ADVANCE_PAYMENT", "ADVANCE_SETTLEMENT"}

Undecided == {"pending", "queued", "processing"}
Decided == {"accepted", "rejected"}

\* handle() at rest, and taking up a record.  attached: its channel is open.
AtRest == [at |-> "idle", ref |-> Nothing, attached |-> FALSE, caught |-> FALSE]
TakeUp(r, attached) == [at |-> "validate", ref |-> r, attached |-> attached, caught |-> FALSE]

Proceed(w, label) == job' = [job EXCEPT ![w].at = label]

\* handle() is over, and the locals of the execute() it ran with it.
Finish(w) ==
    /\ job' = [job EXCEPT ![w] = AtRest]
    /\ writer' = [writer EXCEPT ![w] = Idle]
    /\ UNCHANGED <<book, clock>>

Fault(kind) ==
    /\ kind \in Faults
    /\ faults < MaxFaults
    /\ faults' = faults + 1
-----------------------------------------------------------------------------
(* Ingestion and submission. *)

\* Slip: INSERT OR REPLACE.
Ingest_Upsert(i) ==
    LET r == SourceReference(i) IN
    /\ Eligible(i)
    /\ status' = [status EXCEPT ![r] = "pending"]
    /\ payload' = [payload EXCEPT ![r] = i]
    /\ UNCHANGED <<vars, claimed, queue, dead, batch, job, refused, faults>>

\* SqliteStagingRepository.save: a record already staged stays as it is.
Ingest(i) ==
    LET r == SourceReference(i) IN
    /\ Eligible(i)
    /\ status[r] = "absent"
    /\ status' = [status EXCEPT ![r] = "pending"]
    /\ payload' = [payload EXCEPT ![r] = i]
    /\ UNCHANGED <<vars, claimed, queue, dead, batch, job, refused, faults>>

\* claimPending: up to ClaimLimit pending records of these event types, in one transaction.
Claimable(types) ==
    {r \in Refs : status[r] = "pending" /\ toCreateCommand(payload[r]).eventType \in types}

claimPending(S, types, target) ==
    /\ S # {}
    /\ S \subseteq Claimable(types)
    /\ S = Claimable(types) \/ Cardinality(S) = ClaimLimit
    /\ Cardinality(S) <= ClaimLimit
    /\ status' = [r \in Refs |-> IF r \in S THEN target ELSE status[r]]

Claim(s) ==
    /\ claimed[s] = {}
    /\ \E S \in SUBSET Refs :
          /\ claimPending(S, EventTypesOf(s), "queued")
          /\ claimed' = [claimed EXCEPT ![s] = S]
    /\ UNCHANGED <<vars, payload, queue, dead, batch, job, refused, faults>>

Publish(s, r) ==
    /\ r \in claimed[s]
    /\ claimed' = [claimed EXCEPT ![s] = @ \ {r}]
    /\ queue' = Append(queue, r)
    /\ UNCHANGED <<vars, status, payload, dead, batch, job, refused, faults>>

\* Slip: publish throws although the message went out.
PublishFails_Sent(s, r) ==
    /\ Fault("publish throws")
    /\ r \in claimed[s]
    /\ claimed' = [claimed EXCEPT ![s] = @ \ {r}]
    /\ status' = [status EXCEPT ![r] = "pending"]
    /\ queue' = Append(queue, r)
    /\ UNCHANGED <<vars, payload, dead, batch, job, refused>>

\* The channel is closed: publish throws and the record goes back to pending.
PublishFails(s, r) ==
    /\ Fault("publish throws")
    /\ r \in claimed[s]
    /\ claimed' = [claimed EXCEPT ![s] = @ \ {r}]
    /\ status' = [status EXCEPT ![r] = "pending"]
    /\ UNCHANGED <<vars, payload, queue, dead, batch, job, refused>>

\* The message is written to a socket the broker never reads: nobody waits for a confirm.
PublishLost(s, r) ==
    /\ Fault("message lost")
    /\ r \in claimed[s]
    /\ claimed' = [claimed EXCEPT ![s] = @ \ {r}]
    /\ UNCHANGED <<vars, status, payload, queue, dead, batch, job, refused>>

\* The submitter dies, or its markAsPending throws: the rest of the claim is forgotten.
SubmitterDies(s) ==
    /\ Fault("submitter dies")
    /\ claimed[s] # {}
    /\ claimed' = [claimed EXCEPT ![s] = {}]
    /\ UNCHANGED <<vars, status, payload, queue, dead, batch, job, refused>>
-----------------------------------------------------------------------------
(* Taking up a record. *)

\* A process with an open channel and nothing unacknowledged on it takes the next message.
Deliver(h) ==
    /\ queue # <<>>
    /\ job[h] = AtRest
    /\ \A g \in Handlers : ProcessOf[g] = ProcessOf[h] => ~job[g].attached
    /\ job' = [job EXCEPT ![h] = TakeUp(Head(queue), TRUE)]
    /\ queue' = Tail(queue)
    /\ UNCHANGED <<vars, status, payload, claimed, dead, batch, refused, faults>>

\* StagingPostingJob.run, once per boot: claim whatever is pending, of any type.
Boot(b) ==
    /\ job[b] = AtRest
    /\ batch[b] = {}
    /\ \E S \in SUBSET Refs :
          /\ claimPending(S, EventTypes, "processing")
          /\ batch' = [batch EXCEPT ![b] = S]
    /\ UNCHANGED <<vars, payload, claimed, queue, dead, job, refused, faults>>

NextOfBatch(b, r) ==
    /\ job[b] = AtRest
    /\ r \in batch[b]
    /\ batch' = [batch EXCEPT ![b] = @ \ {r}]
    /\ job' = [job EXCEPT ![b] = TakeUp(r, FALSE)]
    /\ UNCHANGED <<vars, status, payload, claimed, queue, dead, refused, faults>>
-----------------------------------------------------------------------------
(* StagingPostingJob.handle, one action per await. *)

\* StagingRecordValidator.validate
Validate(w) ==
    LET i == payload[job[w].ref] IN
    /\ job[w].at = "validate"
    /\ Proceed(w, IF WellFormed(i) /\ ~SourceTaken(toCreateCommand(i)) THEN "resolve" ELSE "refuse")
    /\ UNCHANGED <<vars, status, payload, claimed, queue, dead, batch, refused, faults>>

\* Resolve the lineage, mark an orphan, and start recording.
Resolve(w) ==
    LET c == toCreateCommand(payload[job[w].ref]) IN
    /\ job[w].at = "resolve"
    /\ \E origin \in {None} \cup Ids(book) :
          /\ resolve(c, origin)
          /\ Begin(w, markOrphanIfUnlinked(c, origin), origin)
    /\ Proceed(w, "post")
    /\ UNCHANGED <<status, payload, claimed, queue, dead, batch, refused, faults>>

\* CreateLedgerEventUseCase.execute moves on, by one of the steps of Book.
Post(w) ==
    /\ job[w].at = "post"
    /\ Step(w)
    /\ UNCHANGED pipe

\* Slip: any answer of execute() is taken for an acceptance.
MarkAccepted_AnyAnswer(w) ==
    /\ job[w].at = "post"
    /\ writer[w].answer.status # "none"
    /\ status' = [status EXCEPT ![job[w].ref] = "accepted"]
    /\ Proceed(w, "acknowledge")
    /\ UNCHANGED <<vars, payload, claimed, queue, dead, batch, refused, faults>>

MarkAccepted(w) ==
    /\ job[w].at = "post"
    /\ writer[w].answer.status = "accepted"
    /\ status' = [status EXCEPT ![job[w].ref] = "accepted"]
    /\ Proceed(w, "acknowledge")
    /\ UNCHANGED <<vars, payload, claimed, queue, dead, batch, refused, faults>>

\* In the catch block: something threw, execute() included.
InCatch(w) ==
    \/ job[w].caught
    \/ job[w].at = "post" /\ writer[w].answer.status = "refused"

\* The validation found something, or something threw: the refusal is recorded.
Refuse(w) ==
    /\ \/ job[w].at = "refuse"
       \/ job[w].at = "post" /\ writer[w].answer.status = "refused"
    /\ refused' = refused \cup {job[w].ref}
    /\ job' = [job EXCEPT ![w].at = "markRejected", ![w].caught = InCatch(w)]
    /\ UNCHANGED <<vars, status, payload, claimed, queue, dead, batch, faults>>

MarkRejected(w) ==
    /\ job[w].at = "markRejected"
    /\ status' = [status EXCEPT ![job[w].ref] = "rejected"]
    /\ Proceed(w, "acknowledge")
    /\ UNCHANGED <<vars, payload, claimed, queue, dead, batch, refused, faults>>

\* Slip: messages are acknowledged on delivery.
ProcessDies_AckedEarly(h) ==
    LET Gone(g) == g \in Handlers /\ ProcessOf[g] = ProcessOf[h]
    IN  /\ writer' = [g \in Writers |-> IF Gone(g) THEN Idle ELSE writer[g]]
        /\ job' = [g \in Writers |-> IF Gone(g) THEN AtRest ELSE job[g]]
        /\ UNCHANGED <<book, clock, queue>>

\* The process of handler h dies.  What its handlers were doing is lost, and the broker
\* puts the unacknowledged message back where it was.
ProcessDies(h) ==
    LET Gone(g) == g \in Handlers /\ ProcessOf[g] = ProcessOf[h]
    IN  /\ writer' = [g \in Writers |-> IF Gone(g) THEN Idle ELSE writer[g]]
        /\ job' = [g \in Writers |-> IF Gone(g) THEN AtRest ELSE job[g]]
        /\ \/ \E g \in Handlers : Gone(g) /\ job[g].attached /\ queue' = <<job[g].ref>> \o queue
           \/ (\A g \in Handlers : Gone(g) => ~job[g].attached) /\ UNCHANGED queue
        /\ UNCHANGED <<book, clock>>

\* handle() returned: the message is acknowledged, or the server goes on with its batch.
Acknowledge(w) ==
    /\ job[w].at = "acknowledge"
    /\ \/ /\ job[w].attached \/ w \in Servers
          /\ Finish(w)
          /\ UNCHANGED queue
       \/ /\ ~job[w].attached /\ w \in Handlers
          /\ ProcessDies(w)
    /\ UNCHANGED <<status, payload, claimed, dead, batch, refused, faults>>
-----------------------------------------------------------------------------
(* What goes wrong in a handler. *)

Working(w) == job[w].at \notin {"idle", "acknowledge"}

\* An awaited query throws (the database is locked, the disk full).  Within the try the
\* record is refused; within the catch it escapes handle().
QueryFails(w) ==
    /\ Fault("query fails")
    /\ Working(w)
    /\ ~InCatch(w)
    /\ job' = [job EXCEPT ![w].at = "refuse", ![w].caught = TRUE]
    /\ writer' = [writer EXCEPT ![w] = Idle]
    /\ UNCHANGED <<book, clock, status, payload, claimed, queue, dead, batch, refused>>

\* What escapes handle() sends the message to the dead-letter queue; on a lost channel it
\* takes the process down, and during boot the server.
QueryFailsAgain(w) ==
    /\ Fault("query fails")
    /\ Working(w)
    /\ InCatch(w)
    /\ \/ /\ job[w].attached
          /\ dead' = dead \cup {job[w].ref}
          /\ Finish(w)
          /\ UNCHANGED <<queue, batch>>
       \/ /\ w \in Servers
          /\ Finish(w)
          /\ batch' = [batch EXCEPT ![w] = {}]
          /\ UNCHANGED <<queue, dead>>
       \/ /\ ~job[w].attached /\ w \in Handlers
          /\ ProcessDies(w)
          /\ UNCHANGED <<dead, batch>>
    /\ UNCHANGED <<status, payload, claimed, refused>>

\* The connection drops under a handler: it runs on, and its message is handed out again.
Disconnect(h) ==
    /\ Fault("connection lost")
    /\ job[h].attached
    /\ job' = [job EXCEPT ![h].attached = FALSE]
    /\ queue' = <<job[h].ref>> \o queue
    /\ UNCHANGED <<vars, status, payload, claimed, dead, batch, refused>>

Kill(h) ==
    /\ Fault("process dies")
    /\ job[h] # AtRest
    /\ ProcessDies(h)
    /\ UNCHANGED <<status, payload, claimed, dead, batch, refused>>

\* The API server dies while it works through its batch.
ServerDies(b) ==
    /\ Fault("server dies")
    /\ job[b] # AtRest \/ batch[b] # {}
    /\ Finish(b)
    /\ batch' = [batch EXCEPT ![b] = {}]
    /\ UNCHANGED <<status, payload, claimed, queue, dead, refused>>
-----------------------------------------------------------------------------
Handle(w) ==
    \/ Validate(w) \/ Resolve(w) \/ Post(w) \/ MarkAccepted(w)
    \/ Refuse(w) \/ MarkRejected(w) \/ Acknowledge(w)

StagingInit ==
    /\ Init
    /\ status = [r \in Refs |-> "absent"]
    /\ payload = [r \in Refs |-> Nothing]
    /\ claimed = [s \in Submitters |-> {}]
    /\ queue = <<>>
    /\ dead = {}
    /\ batch = [b \in Servers |-> {}]
    /\ job = [w \in Writers |-> AtRest]
    /\ refused = {}
    /\ faults = 0

StagingNext ==
    \/ \E i \in Inputs : Ingest(i)
    \/ \E s \in Submitters :
          \/ Claim(s) \/ SubmitterDies(s)
          \/ \E r \in claimed[s] : Publish(s, r) \/ PublishFails(s, r) \/ PublishLost(s, r)
    \/ \E h \in Handlers : Deliver(h) \/ Disconnect(h) \/ Kill(h)
    \/ \E b \in Servers : Boot(b) \/ (\E r \in batch[b] : NextOfBatch(b, r)) \/ ServerDies(b)
    \/ \E w \in Writers : Handle(w) \/ QueryFails(w) \/ QueryFailsAgain(w)
    \/ (\E t \in 0..MaxClock : Tick(t)) /\ UNCHANGED pipe

StagingSpec == StagingInit /\ [][StagingNext]_stagingVars

\* Submitters poll for ever, a process that died is started again by whoever operates it and
\* takes messages, and a handler or a server that is running gets on with what it has.
FairStagingSpec ==
    /\ StagingSpec
    /\ \A s \in Submitters : /\ WF_stagingVars(Claim(s))
                             /\ WF_stagingVars(\E r \in claimed[s] : Publish(s, r))
    /\ WF_stagingVars(\E h \in Handlers : Deliver(h))
    /\ \A b \in Servers : WF_stagingVars(\E r \in batch[b] : NextOfBatch(b, r))
    /\ \A w \in Writers : WF_stagingVars(Handle(w))
-----------------------------------------------------------------------------
(* What the pipeline keeps, whatever fails. *)

Recorded(r) == {e \in Ids(book) : book[e].cmd.ref = r}

Jobs ==
    [at : {"idle", "validate", "resolve", "post", "refuse", "markRejected", "acknowledge"},
     ref : Refs \cup {Nothing}, attached : BOOLEAN, caught : BOOLEAN]

\* Working on a record, as a server or with its message unacknowledged.
Owns(w, r) == job[w].ref = r /\ (job[w].attached \/ w \in Servers)

\* Where a record is: with a submitter, in the queue, in a server's batch, in the hands of a
\* server or of a handler that still owns its message, or in the dead-letter queue.
Places(r) ==
    {<<"claimed", s>> : s \in {t \in Submitters : r \in claimed[t]}}
        \cup {<<"queue", k>> : k \in {n \in DOMAIN queue : queue[n] = r}}
        \cup {<<"batch", b>> : b \in {a \in Servers : r \in batch[a]}}
        \cup {<<"handled", w>> : w \in {v \in Writers : Owns(v, r)}}
        \cup {<<"dead", r>> : d \in dead \cap {r}}

\* Claims, publications, deliveries, redeliveries and dead letters hand a record on without
\* ever copying it: it is in one place at most, and nowhere while it waits to be claimed.
HeldOnce ==
    \A r \in Refs : /\ \A p, q \in Places(r) : p = q
                    /\ status[r] \in {"absent", "pending"} => Places(r) = {}

\* A record marked accepted has its event in the book, one marked rejected its refusal
\* among the rejected events, whatever crashed, was redelivered or failed half-way.
MarksAreTrue ==
    \A r \in Refs : /\ status[r] = "accepted" => Recorded(r) # {}
                    /\ status[r] = "rejected" => r \in refused

\* A commission received is linked to an expected commission on its own receivable, or says
\* that its origin is unknown and wants following up.
LineageHonest ==
    \A e \in Ids(book) :
        LET c == book[e].cmd  origin == book[e].related IN
        c.eventType = "COMMISSION_RECEIVED" =>
            IF origin = None
            THEN c.reason.type = "UNKNOWN_ORIGIN" /\ c.reason.requiresFollowup
            ELSE /\ book[origin].cmd.eventType = "COMMISSION_EXPECTED"
                 /\ \E o \in Range(c.objects) : /\ o.relation = "SETTLES"
                                                /\ origin \in EventsOf(book, o.objectId)

\* A decision is never undone: no later pass of the ingestion, claim or redelivery puts a
\* decided record back to work.
DecisionsStand ==
    [][\A r \in Refs : status[r] \in Decided => status'[r] \in Decided]_stagingVars

\* "When no originating expected exists, this returns null and the received is recorded as a
\* first-class orphan": an orphan has no expected commission before it on its receivable.
OrphansHaveNoOrigin ==
    \A e, d \in Ids(book) :
        book[e].cmd.eventType = "COMMISSION_RECEIVED" /\ book[e].related = None /\ d < e =>
            \A o \in Range(book[e].cmd.objects) :
                o.relation = "SETTLES" => ~IsExpected(o.objectId, d)

\* "queued -> accepted (LedgerEvent) | rejected (RejectedEvent)": every staged record is
\* decided in the end, or lies in the dead-letter queue.
EveryRecordDecided ==
    \A r \in Refs : status[r] \in Undecided ~> status[r] \in Decided \/ r \in dead
=============================================================================
