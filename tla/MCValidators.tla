---------------------------- MODULE MCValidators ----------------------------
(* Small source databases for Validators. *)
EXTENDS Validators, TLC

\* First two and last two digits.
Blocks == [d \in {"", "12345", "12945"} |-> IF d = "" THEN "" ELSE "1245"]

OneApart == {{"12345", "12945"}}

Number(space, zeros, digits) == [space |-> space, zeros |-> zeros, digits |-> digits]

Proposal(id, number) ==
    [id |-> id, number |-> number, value |-> "100.00", client |-> "c", plan |-> "", date |-> "d"]

\* An installment of a proposal: paid or not, its amount there or NULL.
Receipt(id, proposal, installment, payment, decimals, owed) ==
    [id |-> id, proposal |-> proposal, installment |-> installment, payment |-> payment,
     decimals |-> decimals, status |-> "BAIXADO", commissioned |-> TRUE, owed |-> owed, broker |-> "b"]

Advance(id, paid, cancelled) ==
    [id |-> id, paid |-> paid, cancelled |-> cancelled, decimals |-> 2, fee |-> 0, broker |-> "b"]

Link(advance, receipt) == [advance |-> advance, receipt |-> receipt, active |-> TRUE]

\* Two proposals that are duplicates, one number with zeros in front; an installment of each
\* paid, and a paid advance on each: the two advances are a page.
Twins ==
    [proposals |-> {Proposal("p1", Number(FALSE, 0, "12345")), Proposal("p2", Number(FALSE, 2, "12945"))},
     receipts |-> {Receipt("r1", "p1", 1, "PAGO", "two", 0), Receipt("r2", "p2", 1, "PAGO", "two", 0)},
     advances |-> {Advance("a1", TRUE, FALSE), Advance("a2", TRUE, FALSE)},
     links |-> <<Link("a1", "r1"), Link("a2", "r2")>>]

\* A number of zeros only, an installment open below a paid one and its amount missing, a
\* report linked to a receipt twice.
Zeros ==
    [proposals |-> {Proposal("p1", Number(FALSE, 0, "12345")), Proposal("p2", Number(FALSE, 2, ""))},
     receipts |-> {Receipt("r1", "p1", 2, "PAGO", "two", 0), Receipt("r2", "p1", 1, "ABERTO", "null", 0)},
     advances |-> {Advance("a1", TRUE, FALSE)},
     links |-> <<Link("a1", "r1"), Link("a1", "r1")>>]

\* A number with a space in front; one receipt advanced twice, and an advance of nothing
\* between the two puts them on two pages.
Spaced ==
    [proposals |-> {Proposal("p1", Number(FALSE, 0, "12345")), Proposal("p2", Number(TRUE, 0, "12945"))},
     receipts |-> {Receipt("r1", "p1", 1, "PAGO", "two", 0)},
     advances |-> {Advance("a1", TRUE, FALSE), Advance("a15", FALSE, FALSE), Advance("a2", TRUE, FALSE)},
     links |-> <<Link("a1", "r1"), Link("a2", "r1")>>]

Sources == {Twins, Zeros, Spaced}

ProposalsInOrder == [id \in {"p1", "p2"} |-> IF id = "p1" THEN 1 ELSE 2]
AdvancesInOrder == [id \in {"a1", "a15", "a2"} |-> CASE id = "a1" -> 1 [] id = "a15" -> 2 [] id = "a2" -> 3]

\* Pages of one proposal: a scan has two.  Pages of two advances: RULE-ADV-004 compares them.
PageSizes == [receipts |-> 1, advances |-> 2, tool |-> 1]

\* Each queue with the full scan: the consumers of receipts and of advances meet only in the
\* verdicts of proposals, which a scan changes under them.
Together == {{"proposals", "validator"}, {"validator", "receipts", "tool"}, {"validator", "advances"}}
==============================================================================
