------------------------------- MODULE MCBook -------------------------------
(***************************************************************************)
(* Small instances of Book.  The commands are the ones an advance lives    *)
(* through: it is paid out, settled in parts, and any of those facts is    *)
(* retracted (and a retraction retracted).                                 *)
(***************************************************************************)
EXTENDS Book

CONSTANTS r1, r2, r3, r4, r5, r6, k1, w1   \* source references, a key, the writer

Why(type, confidence) ==
    [type |-> type, confidence |-> confidence, requiresFollowup |-> FALSE]

Party(direction, amount) == [role |-> "INTERMEDIARY", direction |-> direction, amount |-> amount]

On(object, type, relation) == [objectId |-> object, objectType |-> type, relation |-> relation]

Command(type, effect, amount, party, objects, reason, ref, key) ==
    [eventType |-> type, effect |-> effect, amount |-> amount, dueAt |-> FALSE,
     parties |-> <<party>>, objects |-> objects, reason |-> reason,
     ref |-> ref, commandId |-> key]

Advance(amount, ref, key) ==
    Command("ADVANCE_PAYMENT", "CASH_OUT", amount, Party("OUT", amount),
            <<On("adv", "ADVANCE", "ORIGINATES")>>, Why("ADVANCE_PAYMENT", "HIGH"), ref, key)

Settle(amount, objects, ref, key) ==
    Command("ADVANCE_SETTLEMENT", "CASH_IN", amount, Party("IN", amount),
            objects, Why("ADVANCE_PAYMENT", "HIGH"), ref, key)

SettleOnce == <<On("adv", "ADVANCE", "SETTLES")>>

Retract(object, ref) ==
    Command("LEDGER_CORRECTION", "NON_CASH", 1, Party("NEUTRAL", 0),
            <<On(object, "ADVANCE", "RETRACTS")>>, Why("MANUAL_CORRECTION", "HIGH"), ref, NoKey)

\* One writer: an advance (with an idempotency key), a part and a full settlement,
\* and as many retractions as a chain that is refused for its depth needs.
SoleCommands ==
    {Advance(2, r1, k1), Settle(1, SettleOnce, r2, NoKey), Settle(2, SettleOnce, r3, NoKey)}
        \cup {Retract("adv", r) : r \in {r4, r5, r6}}

SoleSymmetry == Permutations({r4, r5, r6})
=============================================================================
