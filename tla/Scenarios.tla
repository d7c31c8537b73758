------------------------------ MODULE Scenarios ------------------------------
(***************************************************************************)
(* What the treasury can say to the ledger: the scenarios an operator is   *)
(* guided through (treasury/src/core/domain/scenarios), the tuple each one *)
(* maps to, and the candidate built from the answers                       *)
(* (application/services/CandidateMapper.ts).                              *)
(*                                                                         *)
(* Answers are a function from slot keys to values; a blank answer is an   *)
(* absent key, since every reader of an answer asks isBlank or trims it.   *)
(* amount is in minor units, dueAt is whether a date is given, origin and  *)
(* target are event identifiers; the currency, the date of the fact and    *)
(* the free text are left out: nothing here depends on their value.  The   *)
(* ledger's published vocabulary is written with the names of its enums.   *)
(***************************************************************************)
EXTENDS EventPolicy

Absent == "absent"          \* an optional member of a mapping that is not there
Usina  == "usina"           \* usinaPartyId

-----------------------------------------------------------------------------
(* The slots of each scenario, in the order they are asked. *)

Slot(key, type, required) == [key |-> key, type |-> type, required |-> required,
                              choices |-> {}, allowUnidentifiable |-> FALSE]

Asks(key, type)      == Slot(key, type, TRUE)
May(key, type)       == Slot(key, type, FALSE)
Picks(key, choices)  == [Asks(key, "CHOICE") EXCEPT !.choices = choices]

Payee == Asks("payee", "PARTY")
Payer == Asks("payer", "PARTY")
Amount == Asks("amount", "MONEY")
ObjectRef == May("objectRef", "STRING")

registerPayment        == <<Payee, Amount, ObjectRef>>
registerPayroll        == <<Payee, Amount, ObjectRef>>
registerInfrastructure == <<Payee, Amount, ObjectRef>>
registerServiceFee     == <<Payee, Amount, ObjectRef>>
registerTax            == <<Payee, Amount, ObjectRef>>
registerPenalty        == <<Payee, Amount>>
registerAdvance        == <<Payee, Amount>>
registerLoan           == <<Payee, Amount>>
registerDirectPayment  == <<Payee, Amount>>
registerCommissionAccrual == <<Amount>>

registerIncentive == <<Payee, Picks("kind", {"incentive", "bonus"}), Amount>>
registerWaiver    == <<Payee, Picks("basis", {"waiver", "reversal"}), Amount>>

registerAdvanceSettlement == <<Payer, Amount, Asks("origin", "EVENT_REF"), ObjectRef>>
registerLoanRepayment     == <<Payer, Amount, Asks("origin", "EVENT_REF"), ObjectRef>>

\* Money that arrives may arrive without its sender or its cause being known.
registerCommissionReceived ==
    <<[Payer EXCEPT !.allowUnidentifiable = TRUE], Amount, May("origin", "EVENT_REF"), ObjectRef>>

registerObligationRecognition ==
    <<Picks("kind", {"payroll", "service", "infrastructure", "tax", "other"}),
      Payee, Amount, May("dueAt", "DATE"), ObjectRef>>

registerRectification ==
    <<Asks("target", "EVENT_REF"), Asks("objectRef", "STRING"),
      Picks("objectType", {"advance", "loan", "commission_receivable"}),
      Amount, May("reissue", "STRING")>>

-----------------------------------------------------------------------------
(* The tuple each scenario maps to. *)

Leg(who, role, direction, carriesAmount) ==
    [who |-> who, role |-> role, direction |-> direction, carriesAmount |-> carriesAmount]

cashInParties == <<Leg("usina", "PAYEE", "IN", TRUE), Leg("counterparty", "PAYER", "NEUTRAL", TRUE)>>

\* Slip: the counterparty, not the usina, carries the amount.
cashOutParties_AmountOnPayee ==
    <<Leg("usina", "PAYER", "OUT", FALSE), Leg("counterparty", "PAYEE", "NEUTRAL", TRUE)>>

cashOutParties == <<Leg("usina", "PAYER", "OUT", TRUE), Leg("counterparty", "PAYEE", "NEUTRAL", FALSE)>>

obligationParties ==
    <<Leg("usina", "PAYER", "NEUTRAL", FALSE), Leg("counterparty", "PAYEE", "NEUTRAL", FALSE)>>

Beneficiary(who) == <<Leg(who, "BENEFICIARY", "NEUTRAL", FALSE)>>

Moves(objectType, relation) == [objectType |-> objectType, relation |-> relation]

\* A mapping whose optional members are all absent.
Mapping(eventType, effect, parties, objects, reason) ==
    [eventType |-> eventType, effect |-> effect, parties |-> parties, objects |-> objects,
     reason |-> reason, counterpartySlot |-> Absent, selectorSlot |-> Absent,
     byChoice |-> <<>>, relatedEventSlot |-> Absent, objectIdSlot |-> Absent,
     orphan |-> Absent, retroactive |-> Absent, followupSlot |-> Absent,
     continuityMode |-> "open", inheritsCounterparty |-> FALSE]

\* The mold the cash expenses share.
Expense(eventType, object, reason) ==
    [Mapping(eventType, "CASH_OUT", cashOutParties, <<object>>, reason)
        EXCEPT !.counterpartySlot = "payee"]

\* A cash expense that may pay an obligation recognized before.
Continuing(mapping) == [mapping EXCEPT !.objectIdSlot = "objectRef"]

\* The mold of the cash settlements that link back to what they settle.
Recovery(eventType, objectType, reason) ==
    [Mapping(eventType, "CASH_IN", cashInParties, <<Moves(objectType, "SETTLES")>>, reason)
        EXCEPT !.counterpartySlot = "payer", !.relatedEventSlot = "origin",
               !.objectIdSlot = "objectRef", !.inheritsCounterparty = TRUE]

register_payment ==
    Continuing(Expense("OUTBOUND_PAYMENT", Moves("PAYABLE", "SETTLES"), "ORDINARY_SETTLEMENT"))

register_payroll ==
    [Continuing(Expense("PAYROLL_PAYMENT", Moves("PAYROLL", "SETTLES"), "PAYROLL_PAYMENT"))
        EXCEPT !.inheritsCounterparty = TRUE]

register_infrastructure ==
    Continuing(Expense("INFRASTRUCTURE_EXPENSE", Moves("INFRASTRUCTURE_COST", "SETTLES"),
                       "INFRASTRUCTURE_EXPENSE"))

register_service_fee ==
    Continuing(Expense("SERVICE_FEE_PAYMENT", Moves("SERVICE_FEE", "SETTLES"), "SERVICE_FEE_PAYMENT"))

register_tax ==
    Continuing(Expense("TAX_PAYMENT", Moves("TAX", "SETTLES"), "TAX_PAYMENT"))

register_penalty == Expense("PENALTY_PAYMENT", Moves("PENALTY", "SETTLES"), "PENALTY_PAYMENT")

register_incentive ==
    [Expense("INCENTIVE_PAYMENT", Moves("INCENTIVE", "SETTLES"), "INCENTIVE_PAYMENT")
        EXCEPT !.selectorSlot = "kind",
               !.byChoice = [incentive |-> Moves("INCENTIVE", "SETTLES"),
                             bonus     |-> Moves("BONUS", "SETTLES")]]

register_advance == Expense("ADVANCE_PAYMENT", Moves("ADVANCE", "ORIGINATES"), "ADVANCE_PAYMENT")

register_loan == Expense("LOAN_ORIGINATION", Moves("LOAN", "ORIGINATES"), "LOAN_ORIGINATION")

register_waiver ==
    [Mapping("COMMISSION_WAIVER", "NON_CASH", Beneficiary("counterparty"),
             <<Moves("COMMISSION_ENTITLEMENT", "SETTLES")>>, "COMMISSION_WAIVER")
        EXCEPT !.counterpartySlot = "payee", !.selectorSlot = "basis",
               !.byChoice = [waiver   |-> Moves("COMMISSION_ENTITLEMENT", "SETTLES"),
                             reversal |-> Moves("COMMISSION_ENTITLEMENT", "REVERSES")]]

register_commission_accrual ==
    Mapping("COMMISSION_EXPECTED", "NON_CASH", Beneficiary("usina"),
            <<Moves("COMMISSION_RECEIVABLE", "ORIGINATES")>>, "COMMISSION_ACCRUAL")

register_direct_payment ==
    [Mapping("DIRECT_PAYMENT_ACKNOWLEDGED", "NON_CASH", Beneficiary("counterparty"),
             <<Moves("COMMISSION_RECEIVABLE", "SETTLES"), Moves("COMMISSION_ENTITLEMENT", "SETTLES")>>,
             "DIRECT_COMMISSION_PAYMENT_AUTHORIZED")
        EXCEPT !.counterpartySlot = "payee"]

\* Who pays a commission need not be who its expectation named, so it is asked again.
register_commission_received ==
    [Recovery("COMMISSION_RECEIVED", "COMMISSION_RECEIVABLE", "COMMISSION_PAYMENT")
        EXCEPT !.orphan = "UNKNOWN_ORIGIN", !.inheritsCounterparty = FALSE]

register_advance_settlement == Recovery("ADVANCE_SETTLEMENT", "ADVANCE", "ADVANCE_PAYMENT")

register_loan_repayment == Recovery("LOAN_REPAYMENT", "LOAN", "LOAN_REPAYMENT")

register_rectification ==
    [Mapping("LEDGER_CORRECTION", "NON_CASH", <<Leg("usina", "PLATFORM", "NEUTRAL", FALSE)>>,
             <<Moves("ADVANCE", "RETRACTS")>>, "DATA_RECONCILIATION")
        EXCEPT !.selectorSlot = "objectType",
               !.byChoice = [advance |-> Moves("ADVANCE", "RETRACTS"),
                             loan    |-> Moves("LOAN", "RETRACTS"),
                             commission_receivable |-> Moves("COMMISSION_RECEIVABLE", "RETRACTS")],
               !.relatedEventSlot = "target", !.objectIdSlot = "objectRef",
               !.followupSlot = "reissue"]

register_obligation_recognition ==
    [Mapping("OBLIGATION_RECOGNIZED", "NON_CASH", obligationParties,
             <<Moves("PAYABLE", "ORIGINATES")>>, "OBLIGATION_RECOGNITION")
        EXCEPT !.counterpartySlot = "payee", !.selectorSlot = "kind",
               !.byChoice = [payroll        |-> Moves("PAYROLL", "ORIGINATES"),
                             service        |-> Moves("SERVICE_FEE", "ORIGINATES"),
                             infrastructure |-> Moves("INFRASTRUCTURE_COST", "ORIGINATES"),
                             tax            |-> Moves("TAX", "ORIGINATES"),
                             other          |-> Moves("PAYABLE", "ORIGINATES")],
               !.objectIdSlot = "objectRef", !.continuityMode = "unoriginated",
               !.retroactive = "LATE_AWARENESS"]

-----------------------------------------------------------------------------
\* REGISTRY and MAPPINGS, joined: a scenario is its slots and its mapping.
REGISTRY ==
    LET Scenario(slots, mapping) == [slots |-> slots, mapping |-> mapping] IN
    [register_payment                |-> Scenario(registerPayment, register_payment),
     register_payroll                |-> Scenario(registerPayroll, register_payroll),
     register_infrastructure         |-> Scenario(registerInfrastructure, register_infrastructure),
     register_penalty                |-> Scenario(registerPenalty, register_penalty),
     register_incentive              |-> Scenario(registerIncentive, register_incentive),
     register_advance                |-> Scenario(registerAdvance, register_advance),
     register_loan                   |-> Scenario(registerLoan, register_loan),
     register_waiver                 |-> Scenario(registerWaiver, register_waiver),
     register_commission_accrual     |-> Scenario(registerCommissionAccrual, register_commission_accrual),
     register_direct_payment         |-> Scenario(registerDirectPayment, register_direct_payment),
     register_commission_received    |-> Scenario(registerCommissionReceived, register_commission_received),
     register_advance_settlement     |-> Scenario(registerAdvanceSettlement, register_advance_settlement),
     register_rectification          |-> Scenario(registerRectification, register_rectification),
     register_loan_repayment         |-> Scenario(registerLoanRepayment, register_loan_repayment),
     register_obligation_recognition |-> Scenario(registerObligationRecognition,
                                                  register_obligation_recognition),
     register_service_fee            |-> Scenario(registerServiceFee, register_service_fee),
     register_tax                    |-> Scenario(registerTax, register_tax)]

ScenarioIds == DOMAIN REGISTRY

MapOf(s) == REGISTRY[s].mapping
SlotKeys(s) == {slot.key : slot \in Range(REGISTRY[s].slots)}

Filled(answers, key) == key \in DOMAIN answers

-----------------------------------------------------------------------------
(* The dialog. *)

\* The places of the required slots still blank.
Missing(s, answers) ==
    {k \in DOMAIN REGISTRY[s].slots :
        REGISTRY[s].slots[k].required /\ ~Filled(answers, REGISTRY[s].slots[k].key)}

\* DialogEngine.nextState: ready when no required slot is blank; else the first one is asked.
Ready(s, answers) == Missing(s, answers) = {}

Question(s, answers) == REGISTRY[s].slots[Min(Missing(s, answers))].key

\* DialogEngine.validateAnswer, of an answer that is not blank.
validateAnswer(slot, value) ==
    /\ slot.type = "MONEY" => value > 0
    /\ slot.type = "CHOICE" => value \in slot.choices

-----------------------------------------------------------------------------
(* The candidate. *)

\* The object of the branch the operator chose, or of the base tuple.
Branch(m, answers) ==
    IF m.selectorSlot # Absent /\ Filled(answers, m.selectorSlot)
       /\ answers[m.selectorSlot] \in DOMAIN m.byChoice
    THEN [m.objects EXCEPT ![1] = m.byChoice[answers[m.selectorSlot]]]
    ELSE m.objects

Orphan(m, answers) ==
    m.relatedEventSlot # Absent /\ ~Filled(answers, m.relatedEventSlot) /\ m.orphan # Absent

Asserts(m, answers) == m.objectIdSlot # Absent /\ Filled(answers, m.objectIdSlot)

ReasonType(m, answers) ==
    IF Asserts(m, answers) /\ m.retroactive # Absent THEN m.retroactive
    ELSE IF Orphan(m, answers) THEN m.orphan ELSE m.reason

\* A position the operator asserts continues; otherwise each object gets an id of its own.
ObjectId(m, ref, answers, object) ==
    IF Asserts(m, answers) THEN answers[m.objectIdSlot]
    ELSE IF Len(m.objects) = 1 THEN ref ELSE ref \o ":" \o object.objectType

PartyOf(m, answers, leg) ==
    IF leg.who = "usina" THEN Usina ELSE answers[m.counterpartySlot]

\* relatedEventId
RelatedTo(m, answers) ==
    IF m.relatedEventSlot # Absent /\ Filled(answers, m.relatedEventSlot)
    THEN answers[m.relatedEventSlot] ELSE None

\* CandidateMapper.build: the candidate of an intent, which is also the command the ledger
\* makes of it (SubmitCandidateUseCase.toCommand): its source reference is the key.
build(ref, s, answers, unidentified) ==
    LET m == MapOf(s)
        parties == [k \in DOMAIN m.parties |->
            [partyId   |-> PartyOf(m, answers, m.parties[k]),
             role      |-> m.parties[k].role,
             direction |-> m.parties[k].direction,
             amount    |-> IF m.parties[k].carriesAmount THEN answers.amount ELSE 0]]
        objects == [k \in DOMAIN m.objects |->
            LET o == Branch(m, answers)[k] IN
            [objectId |-> ObjectId(m, ref, answers, o), objectType |-> o.objectType,
             relation |-> o.relation]]
        followup == \/ Orphan(m, answers)
                    \/ \E p \in Range(parties) : p.partyId \in unidentified
                    \/ m.followupSlot # Absent /\ Filled(answers, m.followupSlot)
    IN  [eventType |-> m.eventType, effect |-> m.effect, amount |-> answers.amount,
         dueAt |-> Filled(answers, "dueAt"), parties |-> parties, objects |-> objects,
         reason |-> [type |-> ReasonType(m, answers), confidence |-> "HIGH",
                     requiresFollowup |-> followup],
         ref |-> ref, commandId |-> ref]

\* fieldToSlot, for the two fields a fixable rejection can implicate on a complete candidate.
fieldToSlot(s, field) ==
    CASE field = "relatedEventId" -> MapOf(s).relatedEventSlot
      [] field = "amount"         -> "amount"
      [] OTHER                    -> Absent

-----------------------------------------------------------------------------
(* Recording an entry again: the inverse of build. *)

NotReissuable(why) == [reissuable |-> FALSE, reason |-> why]

ScenarioFor(eventType) == {s \in ScenarioIds : MapOf(s).eventType = eventType}

\* The choices that would have produced the object the entry moved.
ChoicesFor(m, moved) ==
    {choice \in DOMAIN m.byChoice : m.byChoice[choice] = Moves(moved.objectType, moved.relation)}

\* The position an entry moved; contextual objects only annotate it.
MovedBy(event) ==
    event.cmd.objects[CHOOSE k \in DOMAIN event.cmd.objects :
        /\ event.cmd.objects[k].relation # "REFERENCES"
        /\ \A j \in 1 .. k - 1 : event.cmd.objects[j].relation = "REFERENCES"]

\* counterpartyOf: the first party that is not the usina, if there is one.
OtherParties(event) == SelectSeq(event.cmd.parties, LAMBDA p : p.partyId # Usina)

\* What planReissue carries over from a recorded event, as answers to its scenario.  Every
\* key but the amount is optional: the record may hold nothing for it.
Restated(m, event) ==
    LET moved == MovedBy(event)
        others == OtherParties(event)
        keys == {"amount", m.selectorSlot, m.objectIdSlot}
                    \cup (IF others # <<>> THEN {m.counterpartySlot} ELSE {})
                    \cup (IF event.related # None THEN {m.relatedEventSlot} ELSE {})
    IN  [key \in keys \ {Absent} |->
            CASE key = "amount"           -> event.cmd.amount
              [] key = m.selectorSlot     -> CHOOSE c \in ChoicesFor(m, moved) : TRUE
              [] key = m.counterpartySlot -> Head(others).partyId
              [] key = m.objectIdSlot     -> moved.objectId
              [] OTHER                    -> event.related]

planReissue(event) ==
    LET candidates == ScenarioFor(event.cmd.eventType) IN
    IF candidates = {} THEN NotReissuable("no_scenario")
    ELSE LET s == CHOOSE s \in candidates : TRUE  m == MapOf(s) IN
         IF \E o \in Range(m.objects) : o.relation = "RETRACTS" THEN NotReissuable("is_a_correction")
         ELSE IF m.selectorSlot # Absent /\ Cardinality(ChoicesFor(m, MovedBy(event))) # 1
              THEN NotReissuable("ambiguous_variant")
         ELSE [reissuable |-> TRUE, scenario |-> s, answers |-> Restated(m, event)]

-----------------------------------------------------------------------------
(* What may be recorded about a position of a kind. *)

\* producibleTuples: every tuple treasury can produce, one per branch and object.
producibleTuples ==
    {[scenario |-> t[1], choice |-> t[2], eventType |-> MapOf(t[1]).eventType,
      objectType |-> t[3].objectType, relation |-> t[3].relation] :
        t \in UNION {LET m == MapOf(s)
                         choices == IF m.selectorSlot = Absent THEN {Absent} ELSE DOMAIN m.byChoice
                         branch(c) == IF c = Absent THEN m.objects
                                      ELSE [m.objects EXCEPT ![1] = m.byChoice[c]]
                     IN  UNION {{<<s, c, o>> : o \in Range(branch(c))} : c \in choices}
                     : s \in ScenarioIds}}

\* LedgerAlgebra.admissibleFor: the contracts, read from the object's side.
admissibleFor(objectType) ==
    {pair \in [eventType : EventTypes, relation : Relations] :
        LET objects == EVENT_CONTRACTS[pair.eventType].objects
        IN  objectType \in DOMAIN objects /\ pair.relation \in objects[objectType]}

\* ListPositionActions: what the ledger admits of a position and treasury can produce.
PositionActions(objectType) ==
    {t \in producibleTuples : /\ t.objectType = objectType
                              /\ [eventType |-> t.eventType, relation |-> t.relation]
                                    \in admissibleFor(objectType)}

\* continuityObjectType: the kind of position a scenario can continue, once its branch is known.
continuityObjectType(s, answers) ==
    LET m == MapOf(s) IN
    IF m.objectIdSlot = Absent \/ Len(m.objects) # 1 THEN Absent
    ELSE IF m.selectorSlot # Absent /\ ~Filled(answers, m.selectorSlot) THEN Absent
    ELSE Branch(m, answers)[1].objectType
=============================================================================
