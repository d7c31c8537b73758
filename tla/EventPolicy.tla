----------------------------- MODULE EventPolicy -----------------------------
(***************************************************************************)
(* What LedgerEvent.create decides from the event alone: the structural    *)
(* rules of entities/LedgerEvent.ts and the thirteen steps of              *)
(* policies/InvariantPolicy.ts.  A candidate is                            *)
(*                                                                         *)
(*   [eventType, effect, amount, dueAt, parties, objects, reason]          *)
(*                                                                         *)
(* with parties a sequence of [role, direction, amount], objects a         *)
(* sequence of [objectId, objectType, relation] and reason either NoReason *)
(* or [type, confidence, requiresFollowup].  Amounts are minor units of    *)
(* one currency; dueAt is whether a due date is stated.                    *)
(***************************************************************************)
EXTENDS EventContracts, Sequences, SequencesExt

None == 0      \* no relatedEventId, no previousHash: identifiers are 1, 2, ...

NoReason == [type |-> "NONE", confidence |-> "LOW", requiresFollowup |-> FALSE]

\* validateBasic
HasSubstance(c) ==
    /\ c.amount # 0
    /\ c.parties # <<>>
    /\ c.objects # <<>>
    /\ \A p \in Range(c.parties) :
          /\ ~(p.role = "PAYER" /\ p.direction = "IN")
          /\ ~(p.role = "PAYEE" /\ p.direction = "OUT")

\* The party amounts of one direction, added up; a party without an amount is 0.
Total(c, direction) ==
    FoldSeq(LAMBDA p, sum : IF p.direction = direction THEN sum + p.amount ELSE sum,
            0, c.parties)

\* validateFlow: the parties' amounts move exactly the cash the effect declares.
FlowBalances(c) ==
    LET in == Total(c, "IN")  out == Total(c, "OUT")  neutral == Total(c, "NEUTRAL")
        directional == IF in = 0 THEN out ELSE in
    IN  /\ CASE c.effect = "CASH_INTERNAL" -> in = out /\ in = c.amount
             [] c.effect = "CASH_IN"       -> in # 0 /\ in = c.amount /\ out = 0
             [] c.effect = "CASH_OUT"      -> out # 0 /\ out = c.amount /\ in = 0
             [] OTHER                      -> in = 0 /\ out = 0
        /\ neutral # 0 /\ directional # 0 => neutral = directional

\* validateReasonRules
ReasonStated(c) ==
    /\ c.effect = "NON_CASH" => c.reason # NoReason
    /\ c.effect = "CONTINGENT" => c.reason.requiresFollowup

Positional(c) == {o \in Range(c.objects) : o.objectType \in PositionalTypes}
Contextual(c) == Range(c.objects) \ Positional(c)

Carries(c, relation) == \E o \in Range(c.objects) : o.relation = relation

\* Steps 1 to 4: effect, objects and relations against the contract and the matrices.
ObjectsAllowed(c) ==
    LET contract == EVENT_CONTRACTS[c.eventType]
    IN  /\ c.effect \in contract.economicEffects
        /\ \A o \in Positional(c) : o.relation \in ECONOMIC_EFFECT_RELATION_MATRIX[c.effect]
        /\ \A o \in Range(c.objects) : o.relation \in OBJECT_RELATION_MATRIX[o.objectType]
        /\ \A o \in Positional(c) :
              /\ o.objectType \in DOMAIN contract.objects
              /\ o.relation \in contract.objects[o.objectType]

\* Steps 5 to 8: the reason, against the contract, the effect, the relations and
\* the confidence the contract asks for.
ReasonAllowed(c) ==
    LET contract == EVENT_CONTRACTS[c.eventType]
    IN  /\ c.reason.type \in contract.reasons
        /\ c.effect \in REASON_EFFECT_MATRIX[c.reason.type]
        /\ \A o \in Positional(c) : o.relation \in REASON_RELATION_MATRIX[c.reason.type]
        /\ ConfidenceRank[c.reason.confidence] >= ConfidenceRank[contract.minConfidence]

\* Steps 9 and 10: the hash link and the causal link the event must carry.
LinksPresent(c, related, previousHash) ==
    LET contract == EVENT_CONTRACTS[c.eventType]
    IN  /\ \/ previousHash # None
           \/ /\ \A o \in Positional(c) : o.relation # "REVERSES"
              /\ ~contract.requiresPreviousHash
        /\ \/ related # None
           \/ ~contract.requiresRelatedEventId
           \/ c.reason.type = "UNKNOWN_ORIGIN" /\ c.reason.requiresFollowup

\* Step 11
ContextOnlyReferences(c) == \A o \in Contextual(c) : o.relation = "REFERENCES"

\* Slip: a retraction need not say what it retracts.
RetractsOnly_Untargeted(c, related) ==
    Carries(c, "RETRACTS") => \A o \in Range(c.objects) : o.relation = "RETRACTS"

\* Step 12: a retraction names its target and carries no other relation.
RetractsOnly(c, related) ==
    Carries(c, "RETRACTS") =>
        related # None /\ \A o \in Range(c.objects) : o.relation = "RETRACTS"

\* Step 13
DueDateAllowed(c) ==
    c.dueAt => EVENT_CONTRACTS[c.eventType].admitsDueAt /\ Carries(c, "ORIGINATES")

\* InvariantPolicy.validateSemantic
SemanticallyValid(c, related, previousHash) ==
    /\ ObjectsAllowed(c)
    /\ ReasonAllowed(c)
    /\ LinksPresent(c, related, previousHash)
    /\ ContextOnlyReferences(c)
    /\ RetractsOnly(c, related)
    /\ DueDateAllowed(c)

\* LedgerEvent.validate: the event joins the book only when all of it holds.
ValidEvent(c, related, previousHash) ==
    /\ HasSubstance(c)
    /\ FlowBalances(c)
    /\ ReasonStated(c)
    /\ SemanticallyValid(c, related, previousHash)
=============================================================================
