--------------------------- MODULE ValidationRules ---------------------------
(***************************************************************************)
(* What the validators compute: the queries on the source database         *)
(* (internal/infrastructure/postgres), the duplicate clusters              *)
(* (internal/shared/clustering) and the rules (internal/rules).  Pure.     *)
(*                                                                         *)
(* A database is [proposals, receipts, advances : sets of rows,            *)
(* links : a sequence of rows].  A proposal number is the shape of a       *)
(* string: a space in front or not, some zeros, the digits that remain; a  *)
(* NULL is blank.  An amount is told apart by its decimals, its sign or    *)
(* being zero, as far as a rule does.                                      *)
(***************************************************************************)
EXTENDS Naturals, Sequences, SequencesExt, FiniteSets

CONSTANTS
    BlockOf,          \* digits |-> blocking key: first two and last two
    SimilarDigits     \* pairs of different digits at distance one or contained

-----------------------------------------------------------------------------
(* Proposal numbers, in Go and in SQL. *)

normalize(n) == n.digits

Blank(n) == n.zeros = 0 /\ n.digits = ""

\* proposal_number ~ '^0+$'
ZeroFilled(n) == ~n.space /\ n.zeros > 0 /\ n.digits = ""

\* Slip: the key is the whole number.
SqlKey_Digits(n) == <<n.space, 0, n.digits>>

\* The key of FetchDistinctBlockingKeys and FetchByBlockingKey: ltrim(number, '0') stops at
\* a space, which Go trims first.
SqlKey(n) == IF n.space THEN <<TRUE, n.zeros, n.digits>> ELSE <<FALSE, 0, BlockOf[n.digits]>>

InBlocks(db) == {p \in db.proposals : ~Blank(p.number) /\ ~ZeroFilled(p.number)}

FetchAll(db) == {p \in db.proposals : ~Blank(p.number)}

FetchDistinctBlockingKeys(db) == {SqlKey(p.number) : p \in InBlocks(db)}

FetchByBlockingKey(db, key) == {p \in InBlocks(db) : SqlKey(p.number) = key}

FetchInvalidNumberProposalIDs(db) ==
    {p.id : p \in {q \in db.proposals : Blank(q.number) \/ ZeroFilled(q.number)}}
-----------------------------------------------------------------------------
(* Receipts, advance reports and the links between them. *)

PaidOf(db, ids) == {r \in db.receipts : r.payment = "PAGO" /\ r.proposal \in ids}

\* An installment still open below the highest one paid.
FetchFalseDelinquentProposalIDs(db) ==
    {r.proposal : r \in {o \in db.receipts :
        /\ o.payment \notin {"PAGO", "canceled_duplicate"}
        /\ \E paid \in PaidOf(db, {o.proposal}) : o.installment < paid.installment}}

\* TO_CHAR renders every amount with two decimals, and COALESCE a NULL as "".
downloaded_value(r) == IF r.decimals = "null" THEN "" ELSE "two decimals"

FetchAllByProposalIDs(db, ids) == {r \in db.receipts : r.proposal \in ids}

ActiveLinks(db) == SelectSeq(db.links, LAMBDA l : l.active)

FetchActiveReceiptLinks(db, advances) == SelectSeq(ActiveLinks(db), LAMBDA l : l.advance \in advances)

FetchReceiptsByIDs(db, links) == {r \in db.receipts : \E k \in DOMAIN links : links[k].receipt = r.id}
-----------------------------------------------------------------------------
(* Clusters. *)

similar(a, b) == a = b \/ {a, b} \in SimilarDigits

\* At least three points in common; an absent one is never common.
evaluateDuplicate(a, b) ==
    Cardinality({f \in {"value", "client", "plan", "date"} : a[f] # "" /\ a[f] = b[f]})
        + (IF similar(normalize(a.number), normalize(b.number)) THEN 1 ELSE 0) >= 3

\* Within a block, everyone who has a duplicate there.
buildCluster(group) == {a \in group : \E b \in group \ {a} : evaluateDuplicate(a, b)}

ComputeClusters(proposals) ==
    LET numbered == {p \in proposals : normalize(p.number) # ""}
        block(k) == {p \in numbered : BlockOf[normalize(p.number)] = k}
    IN  {buildCluster(block(k)) : k \in {BlockOf[normalize(p.number)] : p \in numbered}} \ {{}}
-----------------------------------------------------------------------------
(* The rules on proposals: what each flags of the clusters of the proposals read and of the *)
(* database at the enrichment.                                                             *)

Ids(rows) == {row.id : row \in rows}

RULE_001(clusters) == UNION {Ids(c) : c \in clusters}

\* An installment paid more than once in a cluster.
RULE_002(clusters, db) ==
    UNION {LET paid == PaidOf(db, Ids(c)) IN
           {r.proposal : r \in {x \in paid : \E y \in paid \ {x} : x.installment = y.installment}}
           : c \in clusters}

RULE_003(db) == FetchFalseDelinquentProposalIDs(db)

RULE_004(db) == FetchInvalidNumberProposalIDs(db)

Verdict(flagged, id) == IF id \in flagged THEN "SUSPICIOUS" ELSE "CLEAN"

\* buildContext, the engine and buildBlockCanonicals (or the stages of the full scan): the
\* verdict of every proposal read, given what the enrichment finds.
proposalVerdicts(proposals, db) ==
    LET clusters == ComputeClusters(proposals)
        flagged == RULE_001(clusters) \cup RULE_002(clusters, db) \cup RULE_003(db) \cup RULE_004(db)
    IN  [id \in Ids(proposals) |-> Verdict(flagged, id)]
-----------------------------------------------------------------------------
(* The rules on receipts. *)

RECEIPT_RULE_001(receipts) == {r.id : r \in {x \in receipts : downloaded_value(x) = ""}}

RULE_REC_002(receipts, links) ==
    {r.id : r \in {x \in receipts :
        /\ x.status = "BAIXADO" /\ x.commissioned /\ x.owed = 0
        /\ ~\E k \in DOMAIN links : links[k].receipt = x.id}}

\* The consumer runs both rules, the one-off tool only the first (its main.go registers one).
receiptVerdicts(receipts, links, tool) ==
    LET flagged == RECEIPT_RULE_001(receipts) \cup (IF tool THEN {} ELSE RULE_REC_002(receipts, links)) IN
    [id \in Ids(receipts) |-> Verdict(flagged, id)]
-----------------------------------------------------------------------------
(* The rules on advance reports, over the reports of a batch, their active links and the   *)
(* receipts linked.  RULE-ADV-006 is not registered.                                       *)

Linked(links, adv, rec) == {k \in DOMAIN links : links[k].advance = adv /\ links[k].receipt = rec}

RULE_ADV_001(advances) == {a.id : a \in {x \in advances : x.paid /\ x.decimals > 2}}

RULE_ADV_002(links, receipts, suspects) ==
    {links[k].advance : k \in {j \in DOMAIN links :
        \E r \in receipts : r.id = links[j].receipt /\ r.proposal \in suspects}}

RULE_ADV_003(advances, links, receipts) ==
    {a.id : a \in {x \in advances : x.paid /\ \E r \in receipts : r.owed > 0 /\ Linked(links, x.id, r.id) # {}}}

\* A receipt with two links to paid reports, two of the same report included.
RULE_ADV_004(advances, links) ==
    LET ofPaid == {k \in DOMAIN links : \E a \in advances : a.paid /\ a.id = links[k].advance} IN
    {links[k].advance : k \in {i \in ofPaid : \E j \in ofPaid \ {i} : links[i].receipt = links[j].receipt}}

RULE_ADV_005(advances, links) == {a.id : a \in {x \in advances : ~\E k \in DOMAIN links : links[k].advance = x.id}}

RULE_ADV_007(advances) == {a.id : a \in {x \in advances : x.paid /\ x.cancelled}}

RULE_ADV_008(advances) == {a.id : a \in {x \in advances : x.fee < 0}}

RULE_ADV_009(advances, links, receipts) ==
    {a.id : a \in {x \in advances : \E r \in receipts :
        /\ Linked(links, x.id, r.id) # {}
        /\ x.broker # "" /\ r.broker # "" /\ x.broker # r.broker}}

RULE_ADV_010(links) ==
    {links[k].advance : k \in {i \in DOMAIN links : Cardinality(Linked(links, links[i].advance, links[i].receipt)) > 1}}

advanceVerdicts(advances, links, receipts, suspects) ==
    LET flagged == RULE_ADV_001(advances) \cup RULE_ADV_002(links, receipts, suspects)
                    \cup RULE_ADV_003(advances, links, receipts) \cup RULE_ADV_004(advances, links)
                    \cup RULE_ADV_005(advances, links) \cup RULE_ADV_007(advances)
                    \cup RULE_ADV_008(advances) \cup RULE_ADV_009(advances, links, receipts)
                    \cup RULE_ADV_010(links)
    IN  [id \in Ids(advances) |-> Verdict(flagged, id)]
==============================================================================
