------------------------------ MODULE Ingestion ------------------------------
(***************************************************************************)
(* From a document of the source system to a staging record: what          *)
(* ReceiptStagingBuilder and AdvanceStagingJob stage, under which source   *)
(* reference, and what the validator will say of its shape.                *)
(*                                                                         *)
(* A receipt is                                                            *)
(*   [source |-> "receipt", id, complete, receiptStatus, dischargeDate,    *)
(*    downloadedValue, twoDecimals, proposalId, installment]               *)
(* where complete says that the identifiers are present, the dates parse   *)
(* and the installment number is a positive integer; dischargeDate is      *)
(* whether there is one; downloadedValue is in minor units, 0 when it does *)
(* not parse, and twoDecimals says that it is written the way an amount    *)
(* must be.  installment names the pair of proposal and number.            *)
(*                                                                         *)
(* An advance is                                                           *)
(*   [source |-> "advance", id, isPaid, isCancelled, amountToPay, broker]  *)
(* with amountToPay in tenths of a minor unit (it is a floating-point      *)
(* number, rounded when it is staged) and broker whether one is named.     *)
(***************************************************************************)
EXTENDS Book

DISCHARGED == "BAIXADO"
NOT_DISCHARGED == {"NAO BAIXADO", "ABERTA"}

ReceiptEligible(i) ==
    /\ i.complete
    /\ i.receiptStatus \in {DISCHARGED} \cup NOT_DISCHARGED
    /\ i.dischargeDate <=> i.receiptStatus = DISCHARGED
    /\ i.receiptStatus = DISCHARGED => i.downloadedValue > 0

AdvanceEligible(i) == i.isPaid /\ ~i.isCancelled /\ i.amountToPay > 0 /\ i.broker

Eligible(i) ==
    CASE i.source = "receipt" -> ReceiptEligible(i)
      [] i.source = "advance" -> AdvanceEligible(i)

\* receipt:<id>:received, receipt:<id>:expected, advance:<id>:disbursement.  A receipt that
\* is discharged after it was staged as expected is a second record.
SourceReference(i) ==
    <<i.source, i.id,
      CASE i.source = "advance" -> "disbursement"
        [] i.source = "receipt" -> IF i.receiptStatus = DISCHARGED THEN "received"
                                                                   ELSE "expected">>

Entry(role, direction, amount) == [role |-> role, direction |-> direction, amount |-> amount]

Object(id, type, relation) == [objectId |-> id, objectType |-> type, relation |-> relation]

Because(type, confidence) ==
    [type |-> type, confidence |-> confidence, requiresFollowup |-> FALSE]

\* ReceiptStagingBuilder.buildCandidate and StagingPostingJob.toCreateCommand.  The value
\* of an open receipt may be missing: it is staged as "0".
ReceiptCommand(i) ==
    LET received == i.receiptStatus = DISCHARGED
    IN  [eventType |-> IF received THEN "COMMISSION_RECEIVED" ELSE "COMMISSION_EXPECTED",
         effect    |-> IF received THEN "CASH_IN" ELSE "NON_CASH",
         amount    |-> IF i.downloadedValue > 0 THEN i.downloadedValue ELSE 0,
         dueAt     |-> FALSE,
         parties   |-> IF received
                       THEN <<Entry("PAYER", "OUT", 0), Entry("PAYEE", "IN", i.downloadedValue)>>
                       ELSE <<Entry("PAYER", "NEUTRAL", 0), Entry("PAYEE", "NEUTRAL", 0)>>,
         objects   |-> <<Object(i.id, "COMMISSION_RECEIVABLE",
                                IF received THEN "SETTLES" ELSE "ORIGINATES"),
                         Object(i.proposalId, "PROPOSAL", "REFERENCES"),
                         Object(i.installment, "INSTALLMENT", "REFERENCES")>>,
         reason    |-> Because(IF received THEN "COMMISSION_PAYMENT" ELSE "COMMISSION_ACCRUAL",
                               "MEDIUM"),
         ref       |-> SourceReference(i),
         commandId |-> NoKey]

\* amountToPay.toFixed(2): a positive amount may round to nothing.
toFixed(amount) == (amount + 5) \div 10

\* AdvanceStagingJob.buildCandidate and StagingPostingJob.toCreateCommand
AdvanceCommand(i) ==
    [eventType |-> "ADVANCE_PAYMENT", effect |-> "CASH_OUT", amount |-> toFixed(i.amountToPay),
     dueAt     |-> FALSE,
     parties   |-> <<Entry("PAYER", "OUT", toFixed(i.amountToPay)), Entry("PAYEE", "NEUTRAL", 0)>>,
     objects   |-> <<Object(i.id, "ADVANCE", "ORIGINATES")>>,
     reason    |-> Because("ADVANCE_PAYMENT", "HIGH"),
     ref       |-> SourceReference(i),
     commandId |-> NoKey]

toCreateCommand(i) ==
    CASE i.source = "receipt" -> ReceiptCommand(i)
      [] i.source = "advance" -> AdvanceCommand(i)

\* What StagingRecordValidator finds of a record's shape, of the things the builders let
\* through: an amount with other than two decimals, and a missing proposal.
WellFormed(i) == i.source = "receipt" => i.twoDecimals /\ i.proposalId # ""

\* markOrphanIfUnlinked
markOrphanIfUnlinked(c, related) ==
    IF c.eventType # "COMMISSION_RECEIVED" \/ related # None THEN c
    ELSE [c EXCEPT !.reason = [type |-> "UNKNOWN_ORIGIN", confidence |-> c.reason.confidence,
                               requiresFollowup |-> TRUE]]

\* The expected commissions on a receivable, among the events findByObjectId returns.
IsExpected(object, e) ==
    /\ e \in EventsOf(book, object)
    /\ book[e].cmd.eventType = "COMMISSION_EXPECTED"

\* Slip: the lineage is resolved through the proposal, which installments share.
receivableOf_Proposal(c) == c.objects[2].objectId

\* The commission_receivable object: the builder puts it first.
receivableOf(c) == c.objects[1].objectId

\* Slip: the resolver is left out, and every commission received is an orphan.
resolve_Never(c, origin) == origin = None

\* ReceiptLineageResolver.resolve returns origin: the first expected commission on the
\* receivable of a commission received, or nothing.
resolve(c, origin) ==
    LET expected == {e \in Ids(book) : IsExpected(receivableOf(c), e)} IN
    IF c.eventType # "COMMISSION_RECEIVED" \/ expected = {} THEN origin = None
    ELSE origin \in expected /\ \A e \in expected : e = origin \/ Before(book, origin, e)
=============================================================================
