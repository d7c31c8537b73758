----------------------------- MODULE MCReadings -----------------------------
(***************************************************************************)
(* A small instance of Readings: an advance paid out, recovered in cash,   *)
(* written off or reversed; a salary recognised with a due date and paid   *)
(* under another object type by somebody else's cash; a commission nobody  *)
(* accrued; and retractions of the advance's events.  The write-off, the   *)
(* reversal, the salary and the commission share a reference: a book has   *)
(* one of them at most.                                                    *)
(***************************************************************************)
EXTENDS Readings

Command(type, effect, amount, parties, objects, reason, occurredAt, ref) ==
    [eventType |-> type, effect |-> effect, amount |-> amount, dueAt |-> FALSE, due |-> None,
     parties |-> parties, objects |-> objects, reason |-> reason,
     occurredAt |-> occurredAt, ref |-> ref, commandId |-> NoKey]

Party(id, direction, amount) ==
    [partyId |-> id, role |-> "INTERMEDIARY", direction |-> direction, amount |-> amount]

On(object, type, relation) == <<[objectId |-> object, objectType |-> type, relation |-> relation]>>

Why(type) == [type |-> type, confidence |-> "HIGH", requiresFollowup |-> type = "UNKNOWN_ORIGIN"]

Advance ==
    Command("ADVANCE_PAYMENT", "CASH_OUT", 2, <<Party("usina", "OUT", 2), Party("bob", "NEUTRAL", 0)>>,
            On("adv", "ADVANCE", "ORIGINATES"), Why("ADVANCE_PAYMENT"), 1, "r1")

Recovery ==
    Command("ADVANCE_SETTLEMENT", "CASH_IN", 1, <<Party("usina", "IN", 1)>>,
            On("adv", "ADVANCE", "SETTLES"), Why("ADVANCE_PAYMENT"), 2, "r2")

WriteOff ==
    Command("ADVANCE_SETTLEMENT", "NON_CASH", 1, <<Party("bob", "NEUTRAL", 0)>>,
            On("adv", "ADVANCE", "SETTLES"), Why("LOSS_RECOGNITION"), 2, "r3")

Reversal ==
    Command("LEDGER_CORRECTION", "NON_CASH", 1, <<Party("usina", "NEUTRAL", 0)>>,
            On("adv", "ADVANCE", "REVERSES"), Why("MANUAL_CORRECTION"), 2, "r3")

Obligation ==
    [Command("OBLIGATION_RECOGNIZED", "NON_CASH", 1, <<Party("bob", "NEUTRAL", 0)>>,
             On("pay", "PAYROLL", "ORIGINATES"), Why("OBLIGATION_RECOGNITION"), 1, "r3")
        EXCEPT !.dueAt = TRUE, !.due = 1]

Outbound ==
    Command("OUTBOUND_PAYMENT", "CASH_OUT", 1, <<Party("bob", "OUT", 1)>>,
            On("pay", "PAYABLE", "SETTLES"), Why("ORDINARY_SETTLEMENT"), 1, "r4")

Orphan ==
    Command("COMMISSION_RECEIVED", "CASH_IN", 1, <<Party("usina", "IN", 1)>>,
            On("com", "COMMISSION_RECEIVABLE", "SETTLES"), Why("UNKNOWN_ORIGIN"), 1, "r3")

Retract(ref) ==
    Command("LEDGER_CORRECTION", "NON_CASH", 1, <<Party("usina", "NEUTRAL", 0)>>,
            On("adv", "ADVANCE", "RETRACTS"), Why("MANUAL_CORRECTION"), 2, ref)

ReadCommands ==
    {Advance, Recovery, WriteOff, Reversal, Obligation, Outbound, Orphan} \cup {Retract(r) : r \in {"r5", "r6"}}

\* The ids are random: their order is not the order of recording.
Uuids == <<2, 4, 1, 3>>

Ranks == [t \in ObjectTypes |-> CASE t = "PAYROLL" -> 3 [] t = "PAYABLE" -> 2 [] OTHER -> 1]

NoFilter == [types |-> {}, statuses |-> {}, outcome |-> "", parties |-> {}, from |-> 0, to |-> MaxClock]

\* Narrowed in two ways at once, by parties, and by what a position has come to.
ListingFilters ==
    {[NoFilter EXCEPT !.types = {"ADVANCE", "PAYABLE"}, !.from = 1],
     [NoFilter EXCEPT !.types = {"PAYROLL"}, !.parties = {"bob"}],
     [NoFilter EXCEPT !.parties = {"bob"}, !.to = 0],
     [NoFilter EXCEPT !.statuses = {"open", "reversed", "unknown_origin"}, !.to = 0]}
        \cup {[NoFilter EXCEPT !.outcome = o] : o \in Outcomes}
=============================================================================
