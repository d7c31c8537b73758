---------------------------- MODULE MCSubmission ----------------------------
(***************************************************************************)
(* Small instances of Submission: one browser, a directory that knows one  *)
(* person and one party it holds as not identifiable.                      *)
(***************************************************************************)
EXTENDS Submission

CONSTANTS w1, w2, h1, h2

\* A mention that resolves, the identifiers themselves, and an unidentifiable party.
MCDirectory == [ana |-> "p1", p1 |-> "p1", someone |-> "p2", p2 |-> "p2"]
MCUnidentified == {"p2"}

OneIntent == <<"i1">>
TwoIntents == <<"i1", "i2">>

AllScenarios == ScenarioIds

\* An advance that comes in from staging, to a party the directory knows.
StagedAdvance ==
    [eventType |-> "ADVANCE_PAYMENT", effect |-> "CASH_OUT", amount |-> 1, dueAt |-> FALSE,
     parties |-> <<[partyId |-> Usina, role |-> "PAYER", direction |-> "OUT", amount |-> 1],
                   [partyId |-> "p1", role |-> "PAYEE", direction |-> "NEUTRAL", amount |-> 0]>>,
     objects |-> <<[objectId |-> "adv9", objectType |-> "ADVANCE", relation |-> "ORIGINATES"]>>,
     reason |-> [type |-> "ADVANCE_PAYMENT", confidence |-> "HIGH", requiresFollowup |-> FALSE],
     ref |-> "staged", commandId |-> NoKey]

Staged == {StagedAdvance}

\* One entry of an earlier conversation, of each kind that opens a position.
Earlier ==
    {build("earlier", s, [payee |-> "p1", amount |-> 1, kind |-> "payroll"], {}) :
        s \in {"register_advance", "register_loan", "register_commission_accrual",
               "register_obligation_recognition"}}

SlotSymmetry == Permutations({w1, w2}) \cup Permutations({h1, h2})
=============================================================================
