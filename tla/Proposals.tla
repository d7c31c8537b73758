------------------------------ MODULE Proposals ------------------------------
(***************************************************************************)
(* What the treasury and the ledger promise together about a proposal: it  *)
(* is recorded at most once, it is called accepted only after it has been  *)
(* recorded, and declined only if it has not been.                         *)
(***************************************************************************)
CONSTANT Proposal

VARIABLES
    recorded,   \* the proposals the ledger holds a fact for
    verdict     \* what the treasury believes of each proposal

Init ==
    /\ recorded = {}
    /\ verdict = [p \in Proposal |-> "open"]

Record(p) ==
    /\ p \notin recorded
    /\ recorded' = recorded \cup {p}
    /\ UNCHANGED verdict

Accept(p) ==
    /\ p \in recorded
    /\ verdict' = [verdict EXCEPT ![p] = "accepted"]
    /\ UNCHANGED recorded

Decline(p) ==
    /\ p \notin recorded
    /\ verdict' = [verdict EXCEPT ![p] = "declined"]
    /\ UNCHANGED recorded

\* The operator takes a proposal up again, or the treasury, which keeps nothing, restarts.
Reopen(P) ==
    /\ verdict' = [p \in Proposal |-> IF p \in P THEN "open" ELSE verdict[p]]
    /\ UNCHANGED recorded

Next ==
    \/ \E p \in Proposal : Record(p) \/ Accept(p) \/ Decline(p) \/ Reopen({p})
    \/ Reopen(Proposal)

Spec == Init /\ [][Next]_<<recorded, verdict>>
=============================================================================
