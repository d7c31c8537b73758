--------------------------- MODULE EventContracts ---------------------------
(***************************************************************************)
(* The closed algebra of the ledger: which economic effects, objects,      *)
(* relations and reasons an event type may combine                         *)
(* (ledger/src/core/domain/contracts/EventContract.ts and                  *)
(* policies/FormalMatrices.ts).  Enum members are strings with the name    *)
(* of the source's member; an array of permitted members is a set, since   *)
(* the code only ever asks `includes`.                                     *)
(***************************************************************************)
EXTENDS Naturals

Effects == {"CASH_IN", "CASH_OUT", "CASH_INTERNAL", "NON_CASH", "CONTINGENT"}

Relations == {"ORIGINATES", "ADJUSTS", "SETTLES", "REVERSES", "REFERENCES", "RETRACTS"}

ContextualTypes == {"CONTRACT", "PROPOSAL", "INSTALLMENT", "SETTLEMENT_BATCH", "CAMPAIGN"}

PositionalTypes ==
    {"COMMISSION_ENTITLEMENT", "COMMISSION_POOL", "COMMISSION_RECEIVABLE",
     "COMMISSION_PAYABLE", "LOAN", "ADVANCE", "RECEIVABLE", "PAYABLE", "PENALTY",
     "CHARGEBACK", "CONTINGENT_CLAIM", "DISPUTE", "INCENTIVE", "BONUS", "PAYROLL",
     "SERVICE_FEE", "INFRASTRUCTURE_COST", "TAX"}

\* OBJECT_NATURE_MATRIX: the two natures partition the object types.
ObjectTypes == PositionalTypes \cup ContextualTypes

ReasonTypes ==
    {"COMMISSION_PAYMENT", "COMMISSION_ACCRUAL", "DIRECT_COMMISSION_PAYMENT_AUTHORIZED",
     "COMMISSION_SPLIT", "LATE_IDENTIFIED_COMMISSION", "COMMISSION_WAIVER",
     "LOAN_ORIGINATION", "LOAN_REPAYMENT", "LOAN_REPAYMENT_VIA_COMMISSION",
     "ADVANCE_PAYMENT", "DEBT_RESTRUCTURING", "PENALTY_PAYMENT", "PENALTY_RECOGNITION",
     "CHARGEBACK", "DISPUTE_OPENED", "LOSS_RECOGNITION", "LATE_AWARENESS",
     "MANUAL_CORRECTION", "DATA_RECONCILIATION", "UNKNOWN_ORIGIN", "PAYROLL_PAYMENT",
     "INFRASTRUCTURE_EXPENSE", "THIRD_PARTY_PAYMENT", "TAX_PAYMENT",
     "SERVICE_FEE_PAYMENT", "INCENTIVE_PAYMENT", "OBLIGATION_RECOGNITION",
     "ORDINARY_SETTLEMENT"}

-----------------------------------------------------------------------------
(* The four formal matrices. *)

ECONOMIC_EFFECT_RELATION_MATRIX ==
    [CASH_IN       |-> {"ORIGINATES", "SETTLES"},
     CASH_OUT      |-> {"ORIGINATES", "SETTLES"},
     CASH_INTERNAL |-> {"ADJUSTS"},
     NON_CASH      |-> {"ORIGINATES", "ADJUSTS", "SETTLES", "REVERSES", "RETRACTS"},
     CONTINGENT    |-> {"ORIGINATES", "ADJUSTS"}]

OBJECT_RELATION_MATRIX ==
    LET all == {"ORIGINATES", "ADJUSTS", "SETTLES", "REVERSES", "RETRACTS"} IN
    [t \in ObjectTypes |->
        CASE t \in ContextualTypes          -> {"REFERENCES"}
          [] t = "COMMISSION_POOL"          -> all \ {"ORIGINATES", "SETTLES"}
          [] t = "CONTINGENT_CLAIM"         -> all \ {"SETTLES"}
          [] t \in {"CHARGEBACK", "DISPUTE"} -> all \ {"ADJUSTS"}
          [] t \in {"BONUS", "PAYROLL", "SERVICE_FEE", "INFRASTRUCTURE_COST", "TAX"}
                                            -> all \ {"ADJUSTS", "REVERSES"}
          [] OTHER                          -> all]

\* LATE_AWARENESS and UNKNOWN_ORIGIN have no row: they go with every effect.
REASON_EFFECT_MATRIX ==
    [r \in ReasonTypes |->
        CASE r \in {"ORDINARY_SETTLEMENT", "LOAN_ORIGINATION", "PENALTY_PAYMENT",
                    "PAYROLL_PAYMENT", "INFRASTRUCTURE_EXPENSE", "THIRD_PARTY_PAYMENT",
                    "TAX_PAYMENT", "SERVICE_FEE_PAYMENT"}       -> {"CASH_OUT"}
          [] r \in {"COMMISSION_PAYMENT", "LOAN_REPAYMENT"}     -> {"CASH_IN"}
          [] r = "DIRECT_COMMISSION_PAYMENT_AUTHORIZED"         -> {"CASH_IN", "NON_CASH"}
          [] r = "COMMISSION_SPLIT"                             -> {"CASH_INTERNAL", "CASH_OUT"}
          [] r = "LOAN_REPAYMENT_VIA_COMMISSION"                -> {"NON_CASH", "CASH_INTERNAL"}
          [] r = "ADVANCE_PAYMENT"                              -> {"CASH_OUT", "NON_CASH", "CASH_IN"}
          [] r = "PENALTY_RECOGNITION"                          -> {"CONTINGENT", "NON_CASH"}
          [] r \in {"CHARGEBACK", "INCENTIVE_PAYMENT"}          -> {"CASH_OUT", "NON_CASH"}
          [] r = "DISPUTE_OPENED"                               -> {"CONTINGENT"}
          [] r \in {"LATE_AWARENESS", "UNKNOWN_ORIGIN"}         -> Effects
          [] OTHER                                              -> {"NON_CASH"}]

\* The same two reasons go with every relation.
REASON_RELATION_MATRIX ==
    [r \in ReasonTypes |->
        CASE r \in {"ORDINARY_SETTLEMENT", "COMMISSION_PAYMENT",
                    "DIRECT_COMMISSION_PAYMENT_AUTHORIZED", "LOAN_REPAYMENT",
                    "PENALTY_PAYMENT", "PAYROLL_PAYMENT", "INFRASTRUCTURE_EXPENSE",
                    "TAX_PAYMENT", "SERVICE_FEE_PAYMENT"}         -> {"SETTLES"}
          [] r \in {"COMMISSION_SPLIT", "ADVANCE_PAYMENT"}        -> {"ORIGINATES", "ADJUSTS", "SETTLES"}
          [] r = "LATE_IDENTIFIED_COMMISSION"                     -> {"ORIGINATES", "ADJUSTS"}
          [] r = "COMMISSION_WAIVER"                              -> {"SETTLES", "REVERSES"}
          [] r = "LOAN_REPAYMENT_VIA_COMMISSION"                  -> {"SETTLES", "ADJUSTS"}
          [] r = "DEBT_RESTRUCTURING"                             -> {"ADJUSTS"}
          [] r \in {"CHARGEBACK", "LOSS_RECOGNITION", "THIRD_PARTY_PAYMENT",
                    "INCENTIVE_PAYMENT"}                          -> {"ORIGINATES", "SETTLES"}
          [] r \in {"MANUAL_CORRECTION", "DATA_RECONCILIATION"}   -> {"REVERSES", "ADJUSTS", "RETRACTS"}
          [] r \in {"LATE_AWARENESS", "UNKNOWN_ORIGIN"}           -> Relations
          [] OTHER                                                -> {"ORIGINATES"}]
-----------------------------------------------------------------------------
(* The contract of each event type.  `objects` maps each declared object   *)
(* type to its permitted relations.                                        *)

ConfidenceRank == [LOW |-> 1, MEDIUM |-> 2, HIGH |-> 3]

\* The shape of a contract whose optional members are all absent; every
\* contract of the source declares its reasons.
Contract(effects, objects, reasons) ==
    [economicEffects |-> effects, objects |-> objects, reasons |-> reasons,
     minConfidence |-> "LOW", requiresPreviousHash |-> FALSE,
     requiresRelatedEventId |-> FALSE, allowedOriginTypes |-> {}, admitsDueAt |-> FALSE]

CommissionSplit ==
    Contract({"CASH_OUT", "CASH_INTERNAL"},
             [COMMISSION_POOL    |-> {"ADJUSTS", "SETTLES"},
              COMMISSION_PAYABLE |-> {"ORIGINATES", "SETTLES"}],
             {"COMMISSION_SPLIT"})

PayrollPayment ==
    [Contract({"CASH_OUT"}, [PAYROLL |-> {"SETTLES"}], {"PAYROLL_PAYMENT"})
        EXCEPT !.minConfidence = "MEDIUM"]

CommissionReceived ==
    [Contract({"CASH_IN"}, [COMMISSION_RECEIVABLE |-> {"SETTLES"}],
              {"COMMISSION_PAYMENT", "DIRECT_COMMISSION_PAYMENT_AUTHORIZED", "UNKNOWN_ORIGIN"})
        EXCEPT !.minConfidence = "MEDIUM", !.requiresRelatedEventId = TRUE,
               !.allowedOriginTypes = {"COMMISSION_EXPECTED"}]

CommissionWaiver ==
    Contract({"NON_CASH"}, [COMMISSION_ENTITLEMENT |-> {"SETTLES", "REVERSES"}],
             {"COMMISSION_WAIVER"})

PenaltyPayment ==
    Contract({"CASH_OUT"}, [PENALTY |-> {"SETTLES"}], {"PENALTY_PAYMENT"})

AdvancePayment ==
    Contract({"CASH_OUT", "NON_CASH"}, [ADVANCE |-> {"ORIGINATES", "ADJUSTS", "SETTLES"}],
             {"ADVANCE_PAYMENT"})

InfrastructureExpense ==
    Contract({"CASH_OUT"}, [INFRASTRUCTURE_COST |-> {"SETTLES"}], {"INFRASTRUCTURE_EXPENSE"})

ServiceFeePayment ==
    Contract({"CASH_OUT"}, [SERVICE_FEE |-> {"SETTLES"}], {"SERVICE_FEE_PAYMENT"})

TaxPayment ==
    Contract({"CASH_OUT"}, [TAX |-> {"SETTLES"}], {"TAX_PAYMENT"})

OutboundPayment ==
    [Contract({"CASH_OUT"}, [PAYABLE |-> {"SETTLES"}], {"ORDINARY_SETTLEMENT"})
        EXCEPT !.minConfidence = "MEDIUM"]

AdvanceSettlement ==
    [Contract({"CASH_IN", "NON_CASH"}, [ADVANCE |-> {"SETTLES", "ADJUSTS"}],
              {"ADVANCE_PAYMENT", "LOSS_RECOGNITION", "DEBT_RESTRUCTURING"})
        EXCEPT !.requiresRelatedEventId = TRUE, !.allowedOriginTypes = {"ADVANCE_PAYMENT"}]

LoanOrigination ==
    Contract({"CASH_OUT"}, [LOAN |-> {"ORIGINATES"}], {"LOAN_ORIGINATION"})

LoanRepayment ==
    [Contract({"CASH_IN", "NON_CASH"}, [LOAN |-> {"SETTLES", "ADJUSTS"}],
              {"LOAN_REPAYMENT", "LOAN_REPAYMENT_VIA_COMMISSION", "DEBT_RESTRUCTURING"})
        EXCEPT !.requiresRelatedEventId = TRUE, !.allowedOriginTypes = {"LOAN_ORIGINATION"}]

DirectPaymentAcknowledged ==
    Contract({"NON_CASH"},
             [COMMISSION_RECEIVABLE  |-> {"SETTLES"}, COMMISSION_ENTITLEMENT |-> {"SETTLES"}],
             {"LATE_AWARENESS", "DIRECT_COMMISSION_PAYMENT_AUTHORIZED"})

IncentivePayment ==
    Contract({"CASH_OUT", "NON_CASH"},
             [INCENTIVE |-> {"ORIGINATES", "SETTLES"}, BONUS |-> {"ORIGINATES", "SETTLES"}],
             {"INCENTIVE_PAYMENT"})

LedgerCorrection ==
    [Contract({"NON_CASH"},
              [t \in PositionalTypes \ {"CONTINGENT_CLAIM", "DISPUTE"} |->
                    {"REVERSES", "ADJUSTS", "RETRACTS"}],
              {"MANUAL_CORRECTION", "DATA_RECONCILIATION", "LATE_AWARENESS"})
        EXCEPT !.minConfidence = "HIGH", !.requiresPreviousHash = TRUE]

CommissionExpected ==
    [Contract({"NON_CASH"}, [COMMISSION_RECEIVABLE |-> {"ORIGINATES"}],
              {"COMMISSION_ACCRUAL", "COMMISSION_PAYMENT", "LATE_IDENTIFIED_COMMISSION"})
        EXCEPT !.minConfidence = "MEDIUM"]

ObligationRecognized ==
    [Contract({"NON_CASH"},
              [t \in {"PAYROLL", "SERVICE_FEE", "INFRASTRUCTURE_COST", "TAX", "PAYABLE"} |->
                    {"ORIGINATES"}],
              {"OBLIGATION_RECOGNITION", "LATE_AWARENESS"})
        EXCEPT !.minConfidence = "MEDIUM", !.admitsDueAt = TRUE]

EVENT_CONTRACTS ==
    [COMMISSION_SPLIT            |-> CommissionSplit,
     PAYROLL_PAYMENT             |-> PayrollPayment,
     COMMISSION_RECEIVED         |-> CommissionReceived,
     COMMISSION_WAIVER           |-> CommissionWaiver,
     PENALTY_PAYMENT             |-> PenaltyPayment,
     ADVANCE_PAYMENT             |-> AdvancePayment,
     INFRASTRUCTURE_EXPENSE      |-> InfrastructureExpense,
     SERVICE_FEE_PAYMENT         |-> ServiceFeePayment,
     TAX_PAYMENT                 |-> TaxPayment,
     OUTBOUND_PAYMENT            |-> OutboundPayment,
     ADVANCE_SETTLEMENT          |-> AdvanceSettlement,
     LOAN_ORIGINATION            |-> LoanOrigination,
     LOAN_REPAYMENT              |-> LoanRepayment,
     DIRECT_PAYMENT_ACKNOWLEDGED |-> DirectPaymentAcknowledged,
     INCENTIVE_PAYMENT           |-> IncentivePayment,
     LEDGER_CORRECTION           |-> LedgerCorrection,
     COMMISSION_EXPECTED         |-> CommissionExpected,
     OBLIGATION_RECOGNIZED       |-> ObligationRecognized]

EventTypes == DOMAIN EVENT_CONTRACTS
=============================================================================
