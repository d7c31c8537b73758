----------------------------- MODULE Submission -----------------------------
(***************************************************************************)
(* From a conversation in the treasury to a fact in the ledger's book.     *)
(*                                                                         *)
(*   tab      one operator's browser (client/.../useConversation.ts and    *)
(*            the cards of ChatStream.tsx);                                *)
(*   intents  the treasury's intents, which it keeps in memory only;       *)
(*   call     the submissions and rectifications the treasury is serving;  *)
(*   request  the ledger's submit endpoint, one slot per writer of Book,   *)
(*            which goes on when the treasury has stopped listening.       *)
(*                                                                         *)
(* A submission reads an intent, awaits the ledger, and saves its own copy *)
(* back.  Merging answers also awaits, but a conversation has one such     *)
(* request in flight and nobody else holds its intent, so it is one step.  *)
(***************************************************************************)
EXTENDS Scenarios, Book

CONSTANTS
    Calls,       \* requests the treasury may be serving at once
    Refs,        \* bound: the source references of the intents, in order of issue
    Offered,     \* the scenarios operators use
    Amounts,     \* what operators type for an amount; 0 is refused
    Directory,   \* mention |-> party, for the mentions that resolve to exactly one
    Typed,       \* what operators type for a party
    Unidentified,\* the parties the directory holds as not identifiable
    Correcting,  \* the corrected amounts of a rectification; NoPlan only withdraws, 0 is
                 \* an amount the slot refuses
    Faults,      \* what may go wrong
    Blank, NoPlan, Nobody

\* An intent's reference is made of a random UUID, so it is no other's, and nothing staged
\* carries it; the key of a command is its source reference or none at all.  No position has a
\* blank for its id: a staged one has the id of a receipt or of a proposal.  An amount is typed
\* in digits: what is no number at all is refused as 0 is (DialogEngine.validateAnswer).
ASSUME SubmissionAssumption ==
    /\ IsFiniteSet(Calls) /\ Nobody \notin Calls
    /\ Refs \in Seq(STRING)
    /\ \A i, j \in DOMAIN Refs : Refs[i] = Refs[j] => i = j
    /\ \A i \in DOMAIN Refs : Refs[i] # NoKey
    /\ \A c \in Commands : c.ref \notin Range(Refs) /\ c.commandId \in {NoKey, c.ref}
    /\ Offered \subseteq ScenarioIds
    /\ Blank \notin Nat
    /\ Amounts \subseteq Nat /\ Correcting \ {NoPlan} \subseteq Nat
    /\ \A c \in Commands : \A o \in Range(c.objects) : o.objectId # Blank
    /\ \A i \in DOMAIN Refs : Refs[i] # Blank /\ \A t \in ObjectTypes : Refs[i] \o ":" \o t # Blank

VARIABLES
    intents, issued, tab, call, request,
    about    \* of each intent, for the properties: the entry it restates, the position
             \* it was opened from, the origination that position supplied

subvars == <<intents, issued, tab, call, request, about>>
allvars == <<book, clock, writer, subvars>>

Intents == DOMAIN Refs

\* No request of the ledger is being served in this slot.
Free == [pc |-> "free", caller |-> Nobody, cmd |-> NoCommand, related |-> None]

\* A treasury handler that is not running.
Quiet == [pc |-> "quiet", intent |-> None, copy |-> None, plan |-> NoPlan, chat |-> FALSE]

\* An intent about no entry and no position in particular.
Anything == [entry |-> None, position |-> Absent, origin |-> None]

\* A browser with no conversation open: no question asked (answeredSlots), no confirmation
\* card, no correction card.
Picking == [intent |-> None, asked |-> {}, card |-> FALSE, fix |-> {}, busy |-> FALSE]

\* The bounds: a step that would need more intents or more events than are left for it,
\* with what the requests under way may still need, is not begun.
Promised == Cardinality({h \in Calls : call[h].plan # NoPlan})

IntentsLeft(n) == issued + Promised + n <= Len(Refs)

Room(n) ==
    Len(book) + Promised + Cardinality({w \in Writers : request[w].pc # "free"}) + n <= MaxEvents

-----------------------------------------------------------------------------
(* Intents. *)

\* A map with x put under i: the treasury's repository saves an intent so.
Saved(store, i, x) == [j \in DOMAIN store \cup {i} |-> IF j = i THEN x ELSE store[j]]

Started(s) == [scenario |-> s, status |-> "gathering", answers |-> <<>>, reference |-> None]

SlotOf(s, key) == CHOOSE slot \in Range(REGISTRY[s].slots) : slot.key = key

Resolves(mention) == mention \in DOMAIN Directory

\* An answer that is recorded: legal, and naming one known party if it names a party.
Recordable(s, answers, batch, mode) ==
    {key \in DOMAIN batch \cap SlotKeys(s) :
        LET slot == SlotOf(s, key)  value == batch[key] IN
        /\ mode = "fill" => ~Filled(answers, key)
        /\ IF value = Blank THEN ~slot.required ELSE validateAnswer(slot, value)
        /\ slot.type = "PARTY" => Resolves(value)}

\* What is written for an answer: the party, never the mention.
Written(s, key, value) == IF SlotOf(s, key).type = "PARTY" THEN Directory[value] ELSE value

Merged(s, answers, batch, mode) ==
    LET keys == Recordable(s, answers, batch, mode)
        blanked == {key \in keys : batch[key] = Blank}
    IN  [key \in (DOMAIN answers \cup keys) \ blanked |->
            IF key \in keys THEN Written(s, key, batch[key]) ELSE answers[key]]

\* Intent.record for each answer, then markAwaitingConfirmation when nothing is missing.
\* Nothing recorded leaves the intent as it is.
Applied(intent, batch, mode) ==
    LET s == intent.scenario  answers == Merged(s, intent.answers, batch, mode) IN
    IF Recordable(s, intent.answers, batch, mode) = {} THEN intent
    ELSE [intent EXCEPT !.answers = answers,
                        !.status = IF Ready(s, answers) THEN "awaiting_confirmation" ELSE "gathering"]

Candidate(i, intent) == build(Refs[i], intent.scenario, intent.answers, Unidentified)

\* What an operator may answer to a slot.
Replies(slot) ==
    CASE slot.type = "MONEY"     -> Amounts
      [] slot.type = "PARTY"     -> Typed
      [] slot.type = "CHOICE"    -> slot.choices
      [] slot.type = "EVENT_REF" -> Ids(book) \cup {UnknownId, Blank}
      [] slot.type = "DATE"      -> {Blank, TRUE}
      [] slot.type = "STRING"    ->
            {Blank} \cup {o.objectId : o \in UNION {Range(book[e].cmd.objects) : e \in Ids(book)}}

\* Every way to answer these slots at once.
Batches(s, keys) ==
    FoldSet(LAMBDA key, batches : {Saved(batch, key, value) :
                value \in Replies(SlotOf(s, key)), batch \in batches}, {<<>>}, keys)

-----------------------------------------------------------------------------
(* The ledger's submit endpoint. *)

\* The outcome of the request in a slot, once there is one.
Outcome(w) == writer[w].answer

\* Slip: a retry that finds the event leaves the request without an answer.
SubmitLookup_Silent(w) ==
    /\ request[w].pc = "lookup"
    /\ SameKey(request[w].cmd) = {}
    /\ request' = [request EXCEPT ![w].pc = "validate"]
    /\ UNCHANGED <<book, clock, writer, intents, issued, tab, call, about>>

\* Slip: every request goes to the validator, a retry too.
SubmitLookup_Skipped(w) ==
    /\ request[w].pc = "lookup"
    /\ request' = [request EXCEPT ![w].pc = "validate"]
    /\ UNCHANGED <<book, clock, writer, intents, issued, tab, call, about>>

\* getByCommandId: "a retry returns the existing event".
SubmitLookup(w) ==
    /\ request[w].pc = "lookup"
    /\ LET same == SameKey(request[w].cmd) IN
       \/ /\ same = {}
          /\ request' = [request EXCEPT ![w].pc = "validate"]
          /\ UNCHANGED writer
       \/ \E id \in same :
             /\ writer' = [writer EXCEPT ![w].answer = Accepted(id)]
             /\ request' = [request EXCEPT ![w].pc = "done"]
    /\ UNCHANGED <<book, clock, intents, issued, tab, call, about>>

\* The validator, which on a complete candidate can only find a duplicate; then execute().
SubmitValidate(w) ==
    /\ request[w].pc = "validate"
    /\ IF SourceTaken(request[w].cmd)
       THEN /\ writer' = [writer EXCEPT ![w].answer = Refused("duplicate source reference")]
            /\ request' = [request EXCEPT ![w].pc = "done"]
            /\ UNCHANGED <<book, clock>>
       ELSE /\ Begin(w, request[w].cmd, request[w].related)
            /\ request' = [request EXCEPT ![w].pc = "execute"]
    /\ UNCHANGED <<intents, issued, tab, call, about>>

SubmitExecute(w) ==
    /\ request[w].pc = "execute"
    /\ Step(w)
    /\ request' = [request EXCEPT ![w].pc = IF writer'[w].pc = "answered" THEN "done" ELSE @]
    /\ UNCHANGED <<intents, issued, tab, call, about>>

\* The staging pipeline, or another operator, records a command, in a slot nobody else uses.
Stage(w, c) ==
    /\ Room(1) /\ request[w] = Free
    /\ ~SourceTaken(c)
    /\ Begin(w, c, None)
    /\ request' = [request EXCEPT ![w] = [pc |-> "execute", caller |-> Nobody, cmd |-> c, related |-> None]]
    /\ UNCHANGED <<intents, issued, tab, call, about>>

\* An answer nobody waits for any more.
Unread(w) ==
    /\ request[w].pc = "done" /\ request[w].caller = Nobody
    /\ request' = [request EXCEPT ![w] = Free]
    /\ writer' = [writer EXCEPT ![w] = Idle]
    /\ UNCHANGED <<book, clock, intents, issued, tab, call, about>>

-----------------------------------------------------------------------------
(* The treasury. *)

\* StartIntent: a fresh intent, saved.
Issue(intent, subject) ==
    /\ issued' = issued + 1
    /\ intents' = Saved(intents, issued', intent)
    /\ about' = Saved(about, issued', subject)

\* SubmitIntent up to its await: the guard, the candidate, and the POST.  The intent read is
\* marked submitted in the handler's copy only.
Post(h, i, intent, plan, chat) ==
    \E w \in Writers :
        /\ request[w] = Free
        /\ request' = [request EXCEPT ![w] =
                [pc |-> "lookup", caller |-> h, cmd |-> Candidate(i, intent),
                 related |-> RelatedTo(MapOf(intent.scenario), intent.answers)]]
        /\ call' = [call EXCEPT ![h] = [pc |-> "posted", intent |-> i,
                        copy |-> [intent EXCEPT !.status = "submitted"],
                        plan |-> plan, chat |-> chat]]

\* The slots a refusal asks again, by RejectionCatalog's category and field.
Field(error) ==
    CASE error \in {"origin not found", "origin of the wrong type"} -> "relatedEventId"
      [] error = "over-settlement"                                  -> "amount"
      [] OTHER                                                      -> Absent

CorrectionSlots(s, error) == {fieldToSlot(s, Field(error))} \cap SlotKeys(s)

\* SubmitIntent after its await: accepted, correctable, or rejected for good.
Disposed(intent, answer) ==
    CASE answer.status = "accepted" ->
            [intent EXCEPT !.status = "accepted", !.reference = answer.id]
      [] answer.status = "refused" /\ CorrectionSlots(intent.scenario, answer.error) # {} ->
            [intent EXCEPT !.status = "awaiting_correction"]
      [] OTHER -> [intent EXCEPT !.status = "rejected"]

\* The browser hears that its submission is over.  A correctable refusal puts a correction
\* card on the stream, whatever conversation the stream now shows.
Heard(chat, fix) ==
    tab' = IF chat THEN [tab EXCEPT !.busy = FALSE,
                                    !.fix = @ \cup (IF tab.intent = None THEN {} ELSE fix)]
           ELSE tab

\* The withdrawal was accepted and a corrected entry is to follow.
Again(h, answer) == call[h].plan # NoPlan /\ answer.status = "accepted"

\* Slip: the verdict is put on the intent whose conversation the browser now shows.
Receive_Shown(h) ==
    /\ call[h].pc = "posted"
    /\ \E w \in Writers :
          /\ request[w].pc = "done" /\ request[w].caller = h
          /\ LET answer == Outcome(w)
                 i == IF call[h].chat /\ tab.intent # None THEN tab.intent ELSE call[h].intent
                 intent == Disposed(call[h].copy, answer)
             IN  /\ intents' = Saved(intents, i, intent)
                 /\ call' = [call EXCEPT ![h] =
                        IF Again(h, answer) THEN [Quiet EXCEPT !.pc = "reissue", !.plan = call[h].plan] ELSE Quiet]
                 /\ Heard(call[h].chat, IF intent.status = "awaiting_correction"
                                        THEN CorrectionSlots(intent.scenario, answer.error) ELSE {})
          /\ request' = [request EXCEPT ![w] = Free]
          /\ writer' = [writer EXCEPT ![w] = Idle]
    /\ UNCHANGED <<book, clock, issued, about>>

\* The answer to a POST arrives within the time limit: it is disposed of and saved.  A
\* rectification whose withdrawal was accepted goes on to record the entry again.
Receive(h) ==
    /\ call[h].pc = "posted"
    /\ \E w \in Writers :
          /\ request[w].pc = "done" /\ request[w].caller = h
          /\ LET answer == Outcome(w)
                 i == call[h].intent
                 intent == Disposed(call[h].copy, answer)
             IN  /\ intents' = Saved(intents, i, intent)
                 /\ call' = [call EXCEPT ![h] =
                        IF Again(h, answer) THEN [Quiet EXCEPT !.pc = "reissue", !.plan = call[h].plan] ELSE Quiet]
                 /\ Heard(call[h].chat, IF intent.status = "awaiting_correction"
                                        THEN CorrectionSlots(intent.scenario, answer.error) ELSE {})
          /\ request' = [request EXCEPT ![w] = Free]
          /\ writer' = [writer EXCEPT ![w] = Idle]
    /\ UNCHANGED <<book, clock, issued, about>>

\* Slip: the request is not told that its caller has gone.
Timeout_KeepsListening(h) ==
    /\ "timeout" \in Faults
    /\ call[h].pc = "posted"
    /\ call' = [call EXCEPT ![h] = Quiet]
    /\ Heard(call[h].chat, {})
    /\ UNCHANGED <<book, clock, writer, intents, issued, request, about>>

\* Slip: a withdrawal whose answer is lost is taken for done, and the entry recorded again.
Timeout_GoesOn(h) ==
    /\ "timeout" \in Faults
    /\ call[h].pc = "posted"
    /\ call' = [call EXCEPT ![h] = IF @.plan = NoPlan THEN Quiet
                                   ELSE [Quiet EXCEPT !.pc = "reissue", !.plan = call[h].plan]]
    /\ request' = [w \in Writers |-> IF request[w].caller = h THEN [request[w] EXCEPT !.caller = Nobody]
                                     ELSE request[w]]
    /\ Heard(call[h].chat, {})
    /\ UNCHANGED <<book, clock, writer, intents, issued, about>>

\* No answer in time, or no connection: submit() throws and nothing is saved.  The request
\* may never have arrived; if it has, the ledger goes on with it.
Timeout(h) ==
    /\ "timeout" \in Faults
    /\ call[h].pc = "posted"
    /\ call' = [call EXCEPT ![h] = Quiet]
    /\ \E w \in Writers :
          /\ request[w].caller = h
          /\ \/ request' = [request EXCEPT ![w].caller = Nobody]
             \/ request[w].pc = "lookup" /\ request' = [request EXCEPT ![w] = Free]
    /\ Heard(call[h].chat, {})
    /\ UNCHANGED <<book, clock, writer, intents, issued, about>>

\* The ledger's process dies: every request in it is lost, and its callers see an error.
LedgerRestarts ==
    /\ "ledger restart" \in Faults
    /\ writer' = [w \in Writers |-> Idle]
    /\ request' = [w \in Writers |-> Free]
    /\ call' = [h \in Calls |-> IF call[h].pc = "posted" THEN Quiet ELSE call[h]]
    /\ Heard(\E h \in Calls : call[h].chat, {})
    /\ UNCHANGED <<book, clock, intents, issued, about>>

\* The treasury's process dies: its intents were in memory.
TreasuryRestarts ==
    /\ "treasury restart" \in Faults
    /\ intents' = <<>>
    /\ call' = [h \in Calls |-> Quiet]
    /\ request' = [w \in Writers |-> [request[w] EXCEPT !.caller = Nobody]]
    /\ Heard(\E h \in Calls : call[h].chat, {})
    /\ UNCHANGED <<book, clock, writer, issued, about>>

-----------------------------------------------------------------------------
(* The operator's browser. *)

\* What the browser shows once answers are merged: the next question, or the confirmation card.
Shown(intent) ==
    IF Ready(intent.scenario, intent.answers) THEN [tab EXCEPT !.card = TRUE]
    ELSE [tab EXCEPT !.asked = @ \cup {Question(intent.scenario, intent.answers)}]

Opened(i, intent) ==
    LET ready == Ready(intent.scenario, intent.answers) IN
    [Picking EXCEPT !.intent = i, !.card = ready,
                    !.asked = IF ready THEN {} ELSE {Question(intent.scenario, intent.answers)}]

\* selectScenario.  It clears `busy`, even when a submission of the conversation left behind
\* is still in flight.
SelectScenario(s) ==
    /\ tab.intent = None /\ IntentsLeft(1)
    /\ Issue(Started(s), Anything)
    /\ tab' = Opened(issued', Started(s))
    /\ UNCHANGED <<book, clock, writer, call, request>>

\* The originations of a position that still stand, as its lifecycle shows them.
Standing(object) ==
    LET S == EventsOf(book, object) IN
    {e \in S \ retractedEventIds(book, S) :
        \E o \in Range(book[e].cmd.objects) : o.objectId = object /\ o.relation = "ORIGINATES"}

\* The positions of the book, with the kind each is recorded under.
Positions == {<<o.objectId, o.objectType>> : o \in UNION {Range(book[e].cmd.objects) : e \in Ids(book)}}

\* What a position answers of a scenario opened from it.
Prefill(object, action) ==
    LET m == MapOf(action.scenario)
        standing == Standing(object)
        origin == Min(standing)
        others == OtherParties(book[origin])
        answers(key) ==
            \/ key = m.selectorSlot /\ action.choice # Absent
            \/ key = m.objectIdSlot
            \/ key = m.relatedEventSlot /\ standing # {}
            \/ key = m.counterpartySlot /\ m.inheritsCounterparty /\ standing # {} /\ others # <<>>
    IN  [key \in {k \in SlotKeys(action.scenario) : answers(k)} |->
            CASE key = m.selectorSlot     -> action.choice
              [] key = m.objectIdSlot     -> object
              [] key = m.relatedEventSlot -> origin
              [] OTHER                    -> Head(others).partyId]

\* StartPositionAction, of an action the position offers, and the browser adopting it.
StartFromPosition(object, objectType) ==
    /\ tab.intent = None /\ IntentsLeft(1)
    /\ \E action \in PositionActions(objectType) :
          /\ action.scenario \in Offered
          /\ LET intent == Applied(Started(action.scenario), Prefill(object, action), "fill") IN
             /\ Issue(intent, [Anything EXCEPT !.position = object,
                                                       !.origin = RelatedTo(MapOf(action.scenario),
                                                                            intent.answers)])
             /\ tab' = Opened(issued', intent)
    /\ UNCHANGED <<book, clock, writer, call, request>>

\* The conversation the browser shows, when the treasury still has its intent.
Current == IF tab.intent \in DOMAIN intents THEN intents[tab.intent] ELSE NoPlan

\* The answers are merged and saved, and the browser moves on.
Merge(batch, mode) ==
    /\ intents' = [intents EXCEPT ![tab.intent] = Applied(@, batch, mode)]
    /\ tab' = Shown(intents'[tab.intent])
    /\ UNCHANGED <<book, clock, writer, issued, call, request, about>>

\* An answer to the open question, or an utterance from which every slot is read.
Converse ==
    /\ Current # NoPlan /\ ~tab.busy /\ ~tab.card
    /\ LET s == Current.scenario  answers == Current.answers
           open == {key \in SlotKeys(s) : ~Filled(answers, key)}
       IN  /\ ~Ready(s, answers)
           /\ \E keys \in {{Question(s, answers)}, open} :
                 \E batch \in Batches(s, keys) : Merge(batch, "fill")

\* The positions of a kind that are open, and those that nothing originated, as listed.
openPositions(objectType) ==
    {p \in Positions : LET t == SqlObjectTotals(book, p[1]) IN
        p[2] = objectType /\ ~t.hasReversal /\ t.closed < t.originated}

unoriginatedPositions(objectType) ==
    {p \in Positions : LET S == EventsOf(book, p[1]) \ SqlRetracted(book) IN
        /\ p[2] = objectType /\ S # {}
        /\ ~Totals(book, S, p[1]).hasReversal /\ Totals(book, S, p[1]).originated = 0
        /\ ~\E i \in S : book[i].cmd.reason.type = "UNKNOWN_ORIGIN" /\ book[i].cmd.reason.requiresFollowup}

ListSettlementCandidates(s, answers) ==
    LET kind == continuityObjectType(s, answers) IN
    IF MapOf(s).continuityMode = "unoriginated" THEN unoriginatedPositions(kind) ELSE openPositions(kind)

\* What pointing at a position answers: its lineage, if it has an origin, and its continuity.
positionAnswers(m, object) ==
    LET origins == IF m.relatedEventSlot = Absent THEN {} ELSE Standing(object) IN
    [key \in {m.objectIdSlot} \cup (IF origins = {} THEN {} ELSE {m.relatedEventSlot}) |->
        IF key = m.objectIdSlot THEN object ELSE Min(origins)]

\* The positions that can answer the open question.
offerablePositions(s, answers) ==
    {p \in ListSettlementCandidates(s, answers) :
        Question(s, answers) \in DOMAIN positionAnswers(MapOf(s), p[1])}

\* selectPosition: the open question is answered by pointing at a position.
SelectPosition ==
    /\ Current # NoPlan /\ ~tab.busy /\ ~tab.card
    /\ LET s == Current.scenario  answers == Current.answers IN
       /\ ~Ready(s, answers)
       /\ \E p \in offerablePositions(s, answers) : Merge(positionAnswers(MapOf(s), p[1]), "fill")

\* Slip: the confirmation card offers every slot of the scenario.
Editable_Everything == SlotKeys(Current.scenario)

\* The confirmation card offers the slots the browser asked about, not what a position or an
\* utterance supplied.
Editable == tab.asked \cap SlotKeys(Current.scenario)

Edit ==
    /\ Current # NoPlan /\ ~tab.busy /\ tab.card
    /\ \E key \in Editable : \E batch \in Batches(Current.scenario, {key}) : Merge(batch, "edit")

\* The slots a correction card asks again.  The card stays on the stream, usable.
CorrectionCard == tab.fix \cap Editable

\* applyCorrection, of the slots answered again, perhaps none; when an answer is not
\* recorded, no confirmation card follows.
Correct ==
    /\ Current # NoPlan /\ ~tab.busy /\ CorrectionCard # {}
    /\ \E keys \in SUBSET CorrectionCard : \E batch \in Batches(Current.scenario, keys) :
          /\ intents' = [intents EXCEPT ![tab.intent] = Applied(@, batch, "edit")]
          /\ tab' = IF Recordable(Current.scenario, Current.answers, batch, "edit") = keys
                     THEN Shown(intents'[tab.intent]) ELSE tab
    /\ UNCHANGED <<book, clock, writer, issued, call, request, about>>

\* confirmSubmit, once per card: an intent that is not awaiting confirmation is not posted.
Confirm(h) ==
    /\ call[h] = Quiet
    /\ tab.intent # None /\ ~tab.busy /\ tab.card
    /\ IF Current # NoPlan /\ Current.status = "awaiting_confirmation"
       THEN /\ Room(1)
            /\ Post(h, tab.intent, Current, NoPlan, TRUE)
            /\ tab' = [tab EXCEPT !.card = FALSE, !.busy = TRUE]
       ELSE /\ tab' = [tab EXCEPT !.card = FALSE]
            /\ UNCHANGED <<call, request>>
    /\ UNCHANGED <<book, clock, writer, intents, issued, about>>

\* restart(): the thread is cleared, whatever is still in flight.
Restart ==
    /\ tab.intent # None
    /\ tab' = [Picking EXCEPT !.busy = tab.busy]
    /\ UNCHANGED <<book, clock, writer, intents, issued, call, request, about>>

-----------------------------------------------------------------------------
(* Rectification. *)

\* The kinds of position a rectification can name, as its scenario spells them.
SUPPORTED_OBJECT_TYPES ==
    [ADVANCE |-> "advance", LOAN |-> "loan", COMMISSION_RECEIVABLE |-> "commission_receivable"]

\* The answers of the withdrawal: what the ledger holds, never the corrected amount.
Withdrawal(target, restated) ==
    LET moved == MovedBy(book[target]) IN
    [key \in {"target", "objectRef", "amount", "objectType"} \cup (IF restated THEN {"reissue"} ELSE {}) |->
        CASE key = "target"     -> target
          [] key = "objectRef"  -> moved.objectId
          [] key = "amount"     -> book[target].cmd.amount
          [] key = "objectType" -> SUPPORTED_OBJECT_TYPES[moved.objectType]
          [] OTHER              -> "pending"]

\* A fresh intent is posted once nothing is missing from it; an answer that was refused, or a
\* slot left open, ends the handler half done.
PostIfReady(h, i, intent, plan) ==
    IF Ready(intent.scenario, intent.answers) THEN Post(h, i, intent, plan, FALSE)
    ELSE call' = [call EXCEPT ![h] = Quiet] /\ UNCHANGED request

\* SubmitRectification: an entry that moved a position is withdrawn; the restatement is planned
\* before anything is written.
Rectify(h, target, corrected) ==
    LET plan == planReissue(book[target])
        intent == Applied(Started("register_rectification"),
                          Withdrawal(target, corrected # NoPlan), "fill")
    IN  /\ call[h] = Quiet
        /\ IF corrected = NoPlan THEN Room(1) /\ IntentsLeft(1) ELSE Room(2) /\ IntentsLeft(2)
        /\ \E o \in Range(book[target].cmd.objects) : o.relation # "REFERENCES"
        /\ MovedBy(book[target]).objectType \in DOMAIN SUPPORTED_OBJECT_TYPES
        /\ corrected # NoPlan => plan.reissuable
        /\ Issue(intent, Anything)
        /\ PostIfReady(h, issued', intent,
                IF corrected = NoPlan THEN NoPlan
                ELSE [target |-> target, scenario |-> plan.scenario,
                      answers |-> [plan.answers EXCEPT !.amount = corrected]])
        /\ UNCHANGED <<book, clock, writer, tab>>

\* reissue(): what the record does not tell is not guessed.
Reissue(h) ==
    /\ call[h].pc = "reissue"
    /\ LET plan == call[h].plan
           intent == Applied(Started(plan.scenario), plan.answers, "fill")
       IN  /\ Issue(intent, [Anything EXCEPT !.entry = plan.target])
           /\ PostIfReady(h, issued', intent, NoPlan)
    /\ UNCHANGED <<book, clock, writer, tab>>

\* pendingCorrection: the entry whose correction a position shows as unfinished, if any.
pendingCorrection(object) ==
    LET S == EventsOf(book, object)
        standing == S \ retractedEventIds(book, S)
        awaiting == {r \in standing : IsRetraction(book, r) /\ book[r].cmd.reason.requiresFollowup}
        last == Max(awaiting)
    IN  IF awaiting = {} \/ \E e \in standing : e > last /\ ~IsRetraction(book, e)
        THEN None ELSE book[last].related

-----------------------------------------------------------------------------
SubInit ==
    /\ Init
    /\ intents = <<>>
    /\ issued = 0
    /\ tab = Picking
    /\ call = [h \in Calls |-> Quiet]
    /\ request = [w \in Writers |-> Free]
    /\ about = <<>>

Operator ==
    \/ \E s \in Offered : SelectScenario(s)
    \/ \E p \in Positions : StartFromPosition(p[1], p[2])
    \/ Converse
    \/ SelectPosition
    \/ Edit
    \/ Correct
    \/ \E h \in Calls : Confirm(h)
    \/ Restart
    \/ \E h \in Calls, target \in Ids(book), corrected \in Correcting : Rectify(h, target, corrected)

Treasury(h) == Receive(h) \/ Reissue(h)

Ledger(w) == SubmitLookup(w) \/ SubmitValidate(w) \/ SubmitExecute(w) \/ Unread(w)

SubNext ==
    \/ Operator
    \/ \E h \in Calls : Treasury(h) \/ Timeout(h)
    \/ \E w \in Writers : Ledger(w) \/ (\E c \in Commands : Stage(w, c))
    \/ LedgerRestarts
    \/ TreasuryRestarts

\* Both servers run: every request they hold is taken one step further, and an answer that
\* has arrived is read.
SubSpec ==
    /\ SubInit
    /\ [][SubNext]_allvars
    /\ \A h \in Calls : WF_allvars(Treasury(h))
    /\ \A w \in Writers : WF_allvars(Ledger(w))
-----------------------------------------------------------------------------
(* What the treasury may rely on. *)

\* The handlers, the requests and the intents keep their types, and every request the
\* treasury waits for is the only one it waits for.
SubTypeOK ==
    /\ issued \in 0 .. Len(Refs)
    /\ DOMAIN intents \subseteq 1 .. issued
    /\ \A i \in DOMAIN intents :
          /\ intents[i].scenario \in ScenarioIds
          /\ DOMAIN intents[i].answers \subseteq SlotKeys(intents[i].scenario)
          /\ intents[i].status \in {"gathering", "awaiting_confirmation", "awaiting_correction",
                                    "accepted", "rejected"}
    /\ \A h \in Calls : call[h].pc = "posted" <=> \E w \in Writers : request[w].caller = h
    /\ \A v, w \in Writers : request[v].caller = request[w].caller /\ v # w => request[v].caller = Nobody

\* "ACCEPTED" is only ever shown with the reference of a fact the ledger recorded for that
\* very intent, whatever was lost, retried or restarted on the way (SubmitIntent.execute).
AcceptedIsRecorded ==
    \A i \in DOMAIN intents : intents[i].status = "accepted" =>
        /\ intents[i].reference \in Ids(book)
        /\ book[intents[i].reference].cmd.ref = Refs[i]

\* CandidateMapper is "the sole authority over the tuple": whatever an operator answers, in
\* whatever order, no candidate breaks a rule of the ledger's contracts and matrices, so that
\* the ledger only ever refuses a link or an amount.  (A reversal cannot be the first event
\* of a book: it would have no hash to continue.)
CandidatesWellFormed ==
    \A w \in Writers : request[w].pc # "free" /\ request[w].cmd.ref \in Range(Refs) =>
        ValidEvent(request[w].cmd, request[w].related, 1)

\* "Reissuing first would leave both entries standing and DOUBLE the figure"
\* (SubmitRectification): a restated entry is in the book only behind the retraction of the
\* entry it restates.
RestatedAfterRetraction ==
    \A i \in DOMAIN about, e \in Ids(book) :
        about[i].entry # None /\ book[e].cmd.ref = Refs[i] =>
            \E r \in 1 .. e - 1 : Retracts(book, r, about[i].entry)

\* An operation opened from a position stays about it: if its scenario can continue a
\* position, the fact it records moves that one, and names as its origin the origination that
\* stood when it was opened, whatever was said, edited or corrected since (StartPositionAction).
OpenedFromPosition ==
    \A i \in DOMAIN about \cap DOMAIN intents, e \in Ids(book) :
        about[i].position # Absent /\ book[e].cmd.ref = Refs[i] =>
            /\ MapOf(intents[i].scenario).objectIdSlot # Absent =>
                  about[i].position \in {o.objectId : o \in Range(book[e].cmd.objects)}
            /\ about[i].origin # None => book[e].related = about[i].origin

\* "The moment the reissue is recorded the condition stops holding on its own"
\* (PendingCorrection.ts:25): once the corrected entry is in the book, the position it
\* corrects no longer shows a correction of that entry as pending.
ReissueEndsPending ==
    \A i \in DOMAIN about, e \in Ids(book) :
        about[i].entry # None /\ book[e].cmd.ref = Refs[i] =>
            pendingCorrection(MovedBy(book[about[i].entry]).objectId) # about[i].entry

\* Every submission and every rectification comes to an end: the browser gets its answer.
EveryCallReturns == \A h \in Calls : call[h].pc # "quiet" ~> call[h].pc = "quiet"

-----------------------------------------------------------------------------
(* The treasury and the ledger together implement Proposals. *)

Verdict(i) ==
    IF i \notin DOMAIN intents THEN "open"
    ELSE CASE intents[i].status = "accepted" -> "accepted"
           [] intents[i].status = "rejected" -> "declined"
           [] OTHER                          -> "open"

Abstract == INSTANCE Proposals WITH
    Proposal <- Intents,
    recorded <- {i \in Intents : \E e \in Ids(book) : book[e].cmd.ref = Refs[i]},
    verdict  <- [i \in Intents |-> Verdict(i)]

\* As long as no answer times out and the treasury serves one submission at a time, an intent
\* is accepted only once its fact is recorded, and declined only if it is not: the treasury's
\* word on an intent agrees with the book.
ImplementsProposals == Abstract!Spec
=============================================================================
