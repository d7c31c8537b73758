------------------------------ MODULE MCStaging ------------------------------
(***************************************************************************)
(* Small instances of Staging: the receipts of two installments of one     *)
(* proposal, seen open (with a value, and before there is one) and         *)
(* discharged, and one advance.                                            *)
(***************************************************************************)
EXTENDS Staging

CONSTANTS h1, h2, api   \* message handlers and an API server

ReceiptOf(id, installment, receiptStatus, value, twoDecimals) ==
    [source |-> "receipt", id |-> id, complete |-> TRUE,
     receiptStatus |-> receiptStatus, dischargeDate |-> receiptStatus = DISCHARGED,
     downloadedValue |-> value, twoDecimals |-> twoDecimals,
     proposalId |-> "proposal", installment |-> installment]

Receipt(receiptStatus, value, twoDecimals) ==
    ReceiptOf("receivable 1", "proposal:1", receiptStatus, value, twoDecimals)

PaidAdvance(amount) ==
    [source |-> "advance", id |-> "advance", isPaid |-> TRUE, isCancelled |-> FALSE,
     amountToPay |-> amount, broker |-> TRUE]

\* An open receipt without a value yet is staged as an amount the book refuses, and so is
\* an advance that rounds to nothing; a discharged one may be written with too many
\* decimals, or be worth more than was expected.
Expected == Receipt("ABERTA", 2, TRUE)
Valueless == Receipt("NAO BAIXADO", 0, TRUE)
Received == Receipt(DISCHARGED, 2, TRUE)
Overpaid == Receipt(DISCHARGED, 3, TRUE)
Misprinted == Receipt(DISCHARGED, 2, FALSE)
ReceivedSecond == ReceiptOf("receivable 2", "proposal:2", DISCHARGED, 2, TRUE)
Undecidable == Receipt("CANCELADO", 2, TRUE)

SourceInputs ==
    {Expected, Valueless, Received, Overpaid, Misprinted, Undecidable, PaidAdvance(20), PaidAdvance(4)}

InstallmentInputs == {Expected, Overpaid, ReceivedSecond}
\* Every command a staged record can turn into.
StagedCommands ==
    UNION {{toCreateCommand(i), markOrphanIfUnlinked(toCreateCommand(i), None)} :
              i \in {j \in Inputs : Eligible(j)}}

OneProcess == [h \in Handlers |-> "p1"]
TwoProcesses == [h \in Handlers |-> IF h = h1 THEN "p1" ELSE "p2"]
=============================================================================
