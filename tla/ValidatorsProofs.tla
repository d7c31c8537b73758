-------------------------- MODULE ValidatorsProofs --------------------------
(***************************************************************************)
(* Theorems about the validators, for source databases of any size: the    *)
(* blocks against the full scan, and the checkpoint of the receipt tool.   *)
(***************************************************************************)
EXTENDS Validators, SequenceTheorems, FiniteSetTheorems, WellFoundedInduction, TLAPS

-----------------------------------------------------------------------------
(* A block of proposals and all of them. *)

\* The proposals of a set that Go would compare with one.
BlockIn(S, p) == {q \in S : normalize(q.number) # "" /\ BlockOf[normalize(q.number)] = BlockOf[normalize(p.number)]}

LEMMA ClustersAre ==
    ASSUME NEW S, NEW c
    PROVE  c \in ComputeClusters(S) <=>
              c # {} /\ \E p \in S : normalize(p.number) # "" /\ c = buildCluster(BlockIn(S, p))
<1> DEFINE numbered == {p \in S : normalize(p.number) # ""}
           block(k) == {p \in numbered : BlockOf[normalize(p.number)] = k}
<1>1. \A p \in S : block(BlockOf[normalize(p.number)]) = BlockIn(S, p)
  BY DEF BlockIn
<1>2. ComputeClusters(S) =
        {buildCluster(block(k)) : k \in {BlockOf[normalize(p.number)] : p \in numbered}} \ {{}}
  BY DEF ComputeClusters
<1> HIDE DEF block
<1> QED BY <1>1, <1>2

\* Without spaces, SQL's block of a proposal is Go's.
LEMMA BlocksMatch ==
    ASSUME NEW d \in Databases, \A p \in d.proposals : ~p.number.space,
           NEW k, NEW p \in FetchByBlockingKey(d, k)
    PROVE  /\ p \in FetchAll(d) /\ normalize(p.number) # ""
           /\ \A q \in FetchByBlockingKey(d, k) :
                 /\ normalize(q.number) # ""
                 /\ BlockIn(FetchByBlockingKey(d, k), q) = FetchByBlockingKey(d, k)
                 /\ BlockIn(FetchAll(d), q) = FetchByBlockingKey(d, k)
<1> DEFINE rows == FetchByBlockingKey(d, k)
<1>1. \A q \in d.proposals : q.number.zeros \in Nat /\ ~q.number.space
  BY ValidatorsAssumption
<1>2. \A q \in d.proposals :
          /\ q \in InBlocks(d) <=> normalize(q.number) # ""
          /\ q \in FetchAll(d) => q \in d.proposals
          /\ normalize(q.number) # "" => q \in FetchAll(d)
          /\ SqlKey(q.number) = <<FALSE, 0, BlockOf[normalize(q.number)]>>
  <2> SUFFICES ASSUME NEW q \in d.proposals
               PROVE  /\ q \in InBlocks(d) <=> normalize(q.number) # ""
                      /\ normalize(q.number) # "" => q \in FetchAll(d)
                      /\ SqlKey(q.number) = <<FALSE, 0, BlockOf[normalize(q.number)]>>
    OBVIOUS
  <2>1. (~Blank(q.number) /\ ~ZeroFilled(q.number)) <=> normalize(q.number) # ""
    <3>1. q.number.zeros = 0 \/ q.number.zeros > 0
      BY <1>1
    <3>2. ~q.number.space
      BY <1>1
    <3> QED BY <3>1, <3>2, Zenon DEF Blank, ZeroFilled, normalize
  <2>2. SqlKey(q.number) = <<FALSE, 0, BlockOf[normalize(q.number)]>>
    BY <1>1, Zenon DEF SqlKey, normalize
  <2> QED BY <2>1, <2>2 DEF InBlocks, FetchAll
<1>3. rows = {q \in d.proposals : normalize(q.number) # "" /\ SqlKey(q.number) = k}
  BY <1>2 DEF FetchByBlockingKey, InBlocks
<1>4. FetchAll(d) \subseteq d.proposals
  BY DEF FetchAll
<1>5. k = <<FALSE, 0, BlockOf[normalize(p.number)]>>
  BY <1>2, <1>3
<1>6. rows = {q \in d.proposals :
                normalize(q.number) # "" /\ BlockOf[normalize(q.number)] = BlockOf[normalize(p.number)]}
  <2>1. \A x, y : <<FALSE, 0, x>> = <<FALSE, 0, y>> => x = y
    OBVIOUS
  <2>2. \A q \in d.proposals : SqlKey(q.number) = k <=> BlockOf[normalize(q.number)] = BlockOf[normalize(p.number)]
    BY <1>2, <1>5, <2>1, Zenon
  <2> QED BY <1>3, <2>2
<1> HIDE DEF rows
<1>7. \A q \in rows : BlockOf[normalize(q.number)] = BlockOf[normalize(p.number)]
  BY <1>6
<1>8. ASSUME NEW q \in rows
      PROVE  normalize(q.number) # "" /\ BlockIn(rows, q) = rows /\ BlockIn(FetchAll(d), q) = rows
  BY <1>2, <1>4, <1>6, <1>7 DEF BlockIn
<1>9. p \in rows
  BY DEF rows
<1> QED BY <1>2, <1>6, <1>8, <1>9 DEF rows

\* The rules say the same of a proposal, its block read alone or everything.
LEMMA BlockAgrees ==
    ASSUME NEW d \in Databases, \A p \in d.proposals : ~p.number.space,
           NEW k, NEW p \in FetchByBlockingKey(d, k)
    PROVE  proposalVerdicts(FetchByBlockingKey(d, k), d)[p.id] = proposalVerdicts(FetchAll(d), d)[p.id]
<1> DEFINE rows == FetchByBlockingKey(d, k)
           all == FetchAll(d)
           few == ComputeClusters(rows)
           many == ComputeClusters(all)
<1>1. /\ p \in all /\ p \in rows /\ normalize(p.number) # ""
      /\ \A q \in rows : normalize(q.number) # "" /\ BlockIn(rows, q) = rows /\ BlockIn(all, q) = rows
  BY BlocksMatch
<1>2. /\ \A q \in all : q \in d.proposals
      /\ \A q \in d.proposals : q.id = p.id => q = p
  BY <1>1, ValidatorsAssumption DEF FetchAll
<1>3. \A c : c \in few <=> c # {} /\ \E q \in rows : normalize(q.number) # "" /\ c = buildCluster(BlockIn(rows, q))
  BY ClustersAre
<1>4. \A c : c \in many <=> c # {} /\ \E q \in all : normalize(q.number) # "" /\ c = buildCluster(BlockIn(all, q))
  BY ClustersAre
<1> HIDE DEF rows, all, few, many
<1>5. \A c : c \in few <=> c # {} /\ c = buildCluster(rows)
  BY <1>1, <1>3
<1>6. \A c \in few : c \in many
  BY <1>1, <1>4, <1>5
<1>7. ASSUME NEW c \in many, p.id \in Ids(c) PROVE c \in few
  <2>1. PICK q \in all : normalize(q.number) # "" /\ c = buildCluster(BlockIn(all, q))
    BY <1>4, <1>7
  <2>2. PICK r \in c : r.id = p.id
    BY <1>7 DEF Ids
  <2>3. r \in BlockIn(all, q)
    BY <2>1, <2>2 DEF buildCluster
  <2>4. r = p
    BY <1>2, <2>2, <2>3 DEF BlockIn
  <2>5. BlockIn(all, q) = BlockIn(all, p)
    BY <2>3, <2>4 DEF BlockIn
  <2> QED BY <1>1, <1>4, <1>5, <2>1, <2>5
<1>8. p.id \in RULE_001(few) <=> p.id \in RULE_001(many)
  BY <1>6, <1>7 DEF RULE_001
<1>9. p.id \in RULE_002(few, d) <=> p.id \in RULE_002(many, d)
  <2> DEFINE Paid(c) == PaidOf(d, Ids(c))
             Twice(c) == {r.proposal : r \in {x \in Paid(c) : \E y \in Paid(c) \ {x} : x.installment = y.installment}}
  <2>1. \A c : Twice(c) \subseteq Ids(c)
    BY DEF PaidOf
  <2>2. RULE_002(few, d) = UNION {Twice(c) : c \in few} /\ RULE_002(many, d) = UNION {Twice(c) : c \in many}
    BY DEF RULE_002
  <2> HIDE DEF Twice
  <2> QED BY <1>6, <1>7, <2>1, <2>2
<1>10. p.id \in Ids(rows) /\ p.id \in Ids(all)
  BY <1>1 DEF Ids
<1> DEFINE flagged(clusters) == RULE_001(clusters) \cup RULE_002(clusters, d) \cup RULE_003(d) \cup RULE_004(d)
<1>11. /\ proposalVerdicts(rows, d)[p.id] = Verdict(flagged(few), p.id)
       /\ proposalVerdicts(all, d)[p.id] = Verdict(flagged(many), p.id)
  BY <1>10 DEF proposalVerdicts, few, many
<1>12. p.id \in flagged(few) <=> p.id \in flagged(many)
  BY <1>8, <1>9
<1> QED BY <1>11, <1>12 DEF Verdict, rows, all

\* What is right of each domain, one rule at a time.
LEMMA RightOf ==
    /\ \A v \in Right.proposals : \E k \in FetchDistinctBlockingKeys(db) :
          \E id \in Ids(FetchByBlockingKey(db, k)) :
              v = <<id, proposalVerdicts(FetchByBlockingKey(db, k), db)[id]>>
    /\ \A v \in Right.receipts : \E found :
          /\ found = receiptVerdicts(FetchAllByProposalIDs(db, WithStatus("CLEAN")), ActiveLinks(db), FALSE)
          /\ \E id \in DOMAIN found : v = <<id, found[id]>>
    /\ \A v \in Right.advances : \E page \in AdvancePages : \E found :
          /\ found = Verdicts("advances", Rows("advances", page))
          /\ \E id \in DOMAIN found : v = <<id, found[id]>>
<1> DEFINE Found(judged) == {<<id, judged[id]>> : id \in DOMAIN judged}
           block(k) == FetchByBlockingKey(db, k)
           receipts == receiptVerdicts(FetchAllByProposalIDs(db, WithStatus("CLEAN")), ActiveLinks(db), FALSE)
           onPage(page) == Verdicts("advances", Rows("advances", page))
<1>1. /\ Right.proposals = UNION {Found(proposalVerdicts(block(k), db)) : k \in FetchDistinctBlockingKeys(db)}
      /\ Right.receipts = Found(receipts)
      /\ Right.advances = UNION {Found(onPage(page)) : page \in AdvancePages}
  BY DEF Right, Domains
<1>2. \A k : DOMAIN proposalVerdicts(block(k), db) = Ids(block(k))
  BY DEF proposalVerdicts
<1> HIDE DEF block, receipts, onPage
<1>3. \A v \in Right.proposals : \E k \in FetchDistinctBlockingKeys(db) : \E id \in Ids(block(k)) :
          v = <<id, proposalVerdicts(block(k), db)[id]>>
  BY <1>1, <1>2
<1>4. \A v \in Right.receipts : \E id \in DOMAIN receipts : v = <<id, receipts[id]>>
  BY <1>1
<1>5. \A v \in Right.advances : \E page \in AdvancePages : \E id \in DOMAIN onPage(page) : v = <<id, onPage(page)[id]>>
  BY <1>1
<1>6. \A v \in Right.receipts : \E found : found = receipts /\ \E id \in DOMAIN found : v = <<id, found[id]>>
  BY <1>4
<1>7. \A v \in Right.advances : \E page \in AdvancePages : \E found :
          found = onPage(page) /\ \E id \in DOMAIN found : v = <<id, found[id]>>
  BY <1>5
<1> QED BY <1>3, <1>6, <1>7, Zenon DEF block, receipts, onPage

LEMMA BlocksAgree == db \in Databases => BlocksAgreeWithScan
<1> SUFFICES ASSUME db \in Databases, NoSpaces, NEW v \in Right.proposals
             PROVE  proposalVerdicts(FetchAll(db), db)[v[1]] = v[2]
  BY DEF BlocksAgreeWithScan
<1>1. PICK k \in FetchDistinctBlockingKeys(db) :
          \E id \in Ids(FetchByBlockingKey(db, k)) :
              v = <<id, proposalVerdicts(FetchByBlockingKey(db, k), db)[id]>>
  BY RightOf
<1>2. PICK p \in FetchByBlockingKey(db, k) :
          v = <<p.id, proposalVerdicts(FetchByBlockingKey(db, k), db)[p.id]>>
  BY <1>1 DEF Ids
<1>3. \A q \in db.proposals : ~q.number.space
  BY DEF NoSpaces
<1>4. proposalVerdicts(FetchByBlockingKey(db, k), db)[p.id] = proposalVerdicts(FetchAll(db), db)[p.id]
  <2>1. PICK d \in Databases : d = db
    OBVIOUS
  <2> QED BY <1>2, <1>3, <2>1, BlockAgrees
<1> QED BY <1>2, <1>4

-----------------------------------------------------------------------------
(* The pages of the receipt tool. *)

Proposals == DOMAIN PropOrder

LEMMA LeastNatural ==
    ASSUME NEW T \in SUBSET Nat, T # {}
    PROVE  \E x \in T : \A y \in T : x <= y
<1> DEFINE R == {ss \in Nat \X Nat : ss[1] < ss[2]}
<1>1. IsWellFoundedOn(R, Nat)
  BY NatLessThanWellFounded, Zenon DEF OpToRel
<1> HIDE DEF R
<1>2. PICK x \in T : \A y \in T : ~(<<y, x>> \in R)
  BY <1>1, WFMin, Zenon
<1>3. \A y \in T : ~(y < x)
  <2>1. ASSUME NEW y \in T, y < x PROVE <<y, x>> \in R
    BY <2>1 DEF R
  <2> QED BY <1>2, <2>1
<1> QED BY <1>3

LEMMA Ranked ==
    /\ Cardinality(Proposals) \in Nat
    /\ \A id \in Proposals : PropOrder[id] \in 1..Cardinality(Proposals) /\ PropOrder[id] \in Nat /\ id # NoAnchor
<1>1. /\ IsFiniteSet(Proposals) /\ NoAnchor \notin Proposals
      /\ \A id \in Proposals : PropOrder[id] \in 1..Cardinality(Proposals)
  BY ValidatorsAssumption, Zenon DEF Proposals
<1>2. Cardinality(Proposals) \in Nat
  BY <1>1, FS_CardinalityType
<1> QED BY <1>1, <1>2

LEMMA LastIsLast ==
    ASSUME NEW page \in SUBSET Proposals, page # {}
    PROVE  /\ LastOf(PropOrder, page) \in page
           /\ \A id \in page : PropOrder[id] <= PropOrder[LastOf(PropOrder, page)]
<1> DEFINE n == Cardinality(Proposals)
           gaps == {n - PropOrder[id] : id \in page}
<1>1. n \in Nat
  BY Ranked
<1>2. \A id \in Proposals : PropOrder[id] \in 1..n
  BY Ranked
<1> HIDE DEF n
<1>3. gaps \in SUBSET Nat /\ gaps # {}
  BY <1>1, <1>2
<1>4. PICK least \in gaps : \A g \in gaps : least <= g
  BY <1>3, LeastNatural
<1>5. PICK last \in page : least = n - PropOrder[last]
  BY <1>4
<1>6. \A id \in page : PropOrder[id] <= PropOrder[last]
  <2> SUFFICES ASSUME NEW id \in page PROVE PropOrder[id] <= PropOrder[last]
    OBVIOUS
  <2>1. n - PropOrder[last] <= n - PropOrder[id]
    BY <1>4, <1>5
  <2>2. PropOrder[last] \in Nat /\ PropOrder[id] \in Nat
    BY Ranked
  <2> QED BY <1>1, <2>1, <2>2
<1> QED BY <1>6, Zenon DEF LastOf

LEMMA PageIsAfter ==
    ASSUME NEW who, NEW anchor
    PROVE  /\ CleanPage(who, anchor) \in SUBSET Proposals
           /\ anchor # NoAnchor => \A id \in CleanPage(who, anchor) : PropOrder[id] > PropOrder[anchor]
BY DEF CleanPage, PageAfter, Proposals
-----------------------------------------------------------------------------
(* The tool and its checkpoint. *)

Found == UNION {[S -> {"SUSPICIOUS", "CLEAN"}] : S \in SUBSET UNION {Ids(d.receipts) : d \in Databases}}

Batches == [ids : SUBSET Proposals, anchor : Proposals, judged : BOOLEAN, verdicts : Found]

Tools == [on : {TRUE}, anchor : Proposals \cup {NoAnchor}, exhausted : BOOLEAN, pipe : Seq(Batches)]

\* The batches in the pipe lie one after the other, each up to its anchor.
InTurn(pipe) ==
    /\ \A k \in DOMAIN pipe : pipe[k].anchor \in pipe[k].ids
    /\ \A j, k \in DOMAIN pipe : j < k => \A id \in pipe[k].ids : PropOrder[pipe[j].anchor] < PropOrder[id]

\* Everything read lies at or before where the reader is.
UpTo(anchor, pipe) ==
    \A k \in DOMAIN pipe : \A id \in pipe[k].ids : anchor # NoAnchor /\ PropOrder[id] <= PropOrder[anchor]

ToolInv ==
    /\ db \in Databases
    /\ checkpoint \in Proposals \cup {NoAnchor}
    /\ tool = Off \/ tool \in Tools
    /\ tool.on =>
        /\ InTurn(tool.pipe)
        /\ UpTo(tool.anchor, tool.pipe)
        /\ checkpoint # NoAnchor => tool.anchor # NoAnchor /\ PropOrder[checkpoint] <= PropOrder[tool.anchor]
    /\ CheckpointBehindUnwritten

LEMMA ToolReadsKeeps ==
    ASSUME ToolInv, ToolReads
    PROVE  ToolInv'
<1> DEFINE page == CleanPage("tool", tool.anchor)
           last == LastOf(PropOrder, page)
           batch == [ids |-> page, anchor |-> last, judged |-> FALSE, verdicts |-> <<>>]
<1>0. /\ tool.on /\ UNCHANGED <<db, checkpoint>> /\ tool \in Tools
      /\ tool.pipe \in Seq(Batches) /\ tool.anchor \in Proposals \cup {NoAnchor}
  <2>1. tool.on /\ UNCHANGED <<db, checkpoint>> /\ (tool = Off \/ tool \in Tools)
    BY DEF ToolReads, ToolInv, source
  <2>2. tool # Off
    BY <2>1 DEF Off
  <2> QED BY <2>1, <2>2 DEF Tools
<1>1. CASE page = {}
  <2>1. tool' = [tool EXCEPT !.exhausted = TRUE]
    BY <1>1 DEF ToolReads
  <2>2. tool' \in Tools /\ tool'.pipe = tool.pipe /\ tool'.anchor = tool.anchor /\ tool'.on
    BY <1>0, <2>1 DEF Tools
  <2> QED BY <1>0, <2>2 DEF ToolInv, CheckpointBehindUnwritten
<1>2. CASE page # {}
  <2>1. page \in SUBSET Proposals /\ last \in page /\ \A id \in page : PropOrder[id] <= PropOrder[last]
    BY <1>2, PageIsAfter, LastIsLast
  <2>2. tool.anchor # NoAnchor => \A id \in page : PropOrder[id] > PropOrder[tool.anchor]
    BY PageIsAfter
  <2>3. batch \in Batches /\ batch.ids = page /\ batch.anchor = last
    <3>1. <<>> \in Found
      <4>1. <<>> \in [{} -> {"SUSPICIOUS", "CLEAN"}]
        OBVIOUS
      <4> QED BY <4>1 DEF Found
    <3> HIDE DEF page, last
    <3> QED BY <2>1, <3>1 DEF Batches
  <2>4. tool' = [tool EXCEPT !.anchor = last, !.pipe = Append(tool.pipe, batch)]
    BY <1>2 DEF ToolReads
  <2> HIDE DEF page, last, batch
  <2>5. /\ tool' \in Tools /\ tool'.on /\ tool'.anchor = last /\ tool'.pipe = Append(tool.pipe, batch)
    <3>1. last \in Proposals /\ Append(tool.pipe, batch) \in Seq(Batches)
      BY <1>0, <2>1, <2>3, AppendProperties
    <3>2. PICK longer \in Seq(Batches) : longer = Append(tool.pipe, batch)
      BY <3>1
    <3>3. tool' = [tool EXCEPT !.anchor = last, !.pipe = longer]
      BY <2>4, <3>2
    <3>4. tool' \in Tools /\ tool'.on /\ tool'.anchor = last /\ tool'.pipe = longer
      BY <1>0, <3>1, <3>3 DEF Tools
    <3> QED BY <3>2, <3>4
  <2> DEFINE n == Len(tool.pipe)
  <2>6. /\ n \in Nat /\ DOMAIN tool.pipe = 1..n /\ DOMAIN tool'.pipe = 1..(n + 1)
        /\ tool'.pipe[n + 1] = batch /\ \A k \in 1..n : tool'.pipe[k] = tool.pipe[k]
    <3>1. PICK pipe \in Seq(Batches) : pipe = tool.pipe
      BY <1>0
    <3>2. PICK b \in Batches : b = batch
      BY <2>3
    <3>3. PICK longer \in Seq(Batches) : longer = Append(pipe, b)
      BY AppendProperties
    <3>4. Len(longer) = Len(pipe) + 1 /\ longer[Len(pipe) + 1] = b /\ \A k \in 1..Len(pipe) : longer[k] = pipe[k]
      BY <3>3, AppendProperties
    <3>5. DOMAIN longer = 1..(Len(pipe) + 1) /\ DOMAIN pipe = 1..Len(pipe) /\ Len(pipe) \in Nat
      BY <3>4
    <3> QED BY <2>5, <3>1, <3>2, <3>3, <3>4, <3>5
  <2>7. \A k \in 1..n : tool.pipe[k] \in Batches
    <3>1. \A pipe \in Seq(Batches) : \A k \in 1..Len(pipe) : pipe[k] \in Batches
      OBVIOUS
    <3> QED BY <1>0, <3>1
  <2> HIDE DEF n
  <2>0. \A k \in 1..(n + 1) : k \in 1..n \/ k = n + 1
    BY <2>6
  <2>8. ASSUME NEW k \in 1..n, NEW id \in tool.pipe[k].ids, NEW new \in page
        PROVE  PropOrder[id] < PropOrder[new]
    <3>1. id \in Proposals
      BY <2>7 DEF Batches
    <3>2. tool.anchor # NoAnchor /\ PropOrder[id] <= PropOrder[tool.anchor]
      BY <1>0, <2>6 DEF ToolInv, UpTo
    <3>3. tool.anchor \in Proposals
      BY <1>0, <3>2
    <3>4. PropOrder[tool.anchor] < PropOrder[new] /\ new \in Proposals
      BY <2>1, <2>2, <3>2
    <3>5. PropOrder[id] \in Nat /\ PropOrder[tool.anchor] \in Nat /\ PropOrder[new] \in Nat
      BY <3>1, <3>3, <3>4, Ranked
    <3> QED BY <3>2, <3>4, <3>5
  <2>9. InTurn(tool.pipe) /\ \A k \in 1..n : tool.pipe[k].anchor \in tool.pipe[k].ids
    BY <1>0, <2>6 DEF ToolInv, InTurn
  <2>10. InTurn(tool'.pipe)
    <3>1. \A k \in 1..(n + 1) : tool'.pipe[k].anchor \in tool'.pipe[k].ids
      BY <2>1, <2>3, <2>6, <2>9
    <3>2. ASSUME NEW j \in 1..(n + 1), NEW k \in 1..(n + 1), j < k, NEW id \in tool'.pipe[k].ids
          PROVE  PropOrder[tool'.pipe[j].anchor] < PropOrder[id]
      <4>1. j \in 1..n /\ tool'.pipe[j] = tool.pipe[j]
        BY <2>6, <3>2
      <4>2. CASE k \in 1..n
        BY <2>6, <2>9, <3>2, <4>1, <4>2 DEF InTurn
      <4>3. CASE k = n + 1
        BY <2>3, <2>6, <2>8, <2>9, <3>2, <4>1, <4>3
      <4> QED BY <2>0, <4>2, <4>3
    <3> QED BY <2>6, <3>1, <3>2 DEF InTurn
  <2>11. UpTo(last, tool'.pipe)
    <3> SUFFICES ASSUME NEW k \in 1..(n + 1), NEW id \in tool'.pipe[k].ids
                 PROVE  last # NoAnchor /\ PropOrder[id] <= PropOrder[last]
      BY <2>6 DEF UpTo
    <3>1. last \in Proposals /\ last # NoAnchor
      BY <2>1, Ranked
    <3>2. CASE k \in 1..n
      <4>1. PropOrder[id] < PropOrder[last] /\ id \in Proposals
        BY <2>1, <2>6, <2>7, <2>8, <3>2 DEF Batches
      <4> QED BY <3>1, <4>1, Ranked
    <3>3. CASE k = n + 1
      BY <2>1, <2>3, <2>6, <3>1, <3>3
    <3> QED BY <2>0, <3>2, <3>3
  <2>12. ASSUME checkpoint # NoAnchor PROVE \A id \in page : PropOrder[checkpoint] < PropOrder[id]
    <3>1. checkpoint \in Proposals /\ tool.anchor \in Proposals /\ PropOrder[checkpoint] <= PropOrder[tool.anchor]
          /\ tool.anchor # NoAnchor
      BY <1>0, <2>12 DEF ToolInv
    <3> QED BY <2>1, <2>2, <3>1, Ranked
  <2>13. CheckpointBehindUnwritten'
    <3> SUFFICES ASSUME NEW k \in 1..(n + 1), NEW id \in tool'.pipe[k].ids, checkpoint # NoAnchor
                 PROVE  PropOrder[checkpoint] < PropOrder[id]
      BY <1>0, <2>6 DEF CheckpointBehindUnwritten
    <3>1. CASE k \in 1..n
      BY <1>0, <2>6, <3>1 DEF ToolInv, CheckpointBehindUnwritten
    <3>2. CASE k = n + 1
      BY <2>3, <2>6, <2>12, <3>2
    <3> QED BY <2>0, <3>1, <3>2
  <2>14. checkpoint # NoAnchor => last # NoAnchor /\ PropOrder[checkpoint] <= PropOrder[last]
    <3>1. checkpoint # NoAnchor => checkpoint \in Proposals
      BY DEF ToolInv
    <3> QED BY <2>1, <2>12, <3>1, Ranked
  <2> QED BY <1>0, <2>5, <2>10, <2>11, <2>13, <2>14 DEF ToolInv
<1> QED BY <1>1, <1>2

LEMMA ToolOn ==
    ASSUME ToolInv, tool.on
    PROVE  /\ tool \in Tools /\ tool.pipe \in Seq(Batches)
           /\ DOMAIN tool.pipe = 1..Len(tool.pipe) /\ Len(tool.pipe) \in Nat
           /\ \A k \in DOMAIN tool.pipe : tool.pipe[k] \in Batches
<1>1. tool # Off
  BY DEF Off
<1>2. tool \in Tools /\ tool.pipe \in Seq(Batches)
  BY <1>1 DEF ToolInv, Tools
<1>3. \A pipe \in Seq(Batches) : DOMAIN pipe = 1..Len(pipe) /\ Len(pipe) \in Nat /\ \A k \in DOMAIN pipe : pipe[k] \in Batches
  OBVIOUS
<1> QED BY <1>2, <1>3

LEMMA ToolStartsKeeps ==
    ASSUME ToolInv, ToolStarts
    PROVE  ToolInv'
<1>1. /\ UNCHANGED <<db, checkpoint>>
      /\ tool' = [on |-> TRUE, anchor |-> checkpoint, exhausted |-> FALSE, pipe |-> <<>>]
  BY DEF ToolStarts, source
<1>2. checkpoint \in Proposals \cup {NoAnchor} /\ <<>> \in Seq(Batches)
  BY DEF ToolInv
<1>3. tool' \in Tools /\ tool'.on /\ tool'.anchor = checkpoint /\ tool'.pipe = <<>>
  BY <1>1, <1>2 DEF Tools
<1>4. InTurn(tool'.pipe) /\ UpTo(tool'.anchor, tool'.pipe) /\ CheckpointBehindUnwritten'
  BY <1>3 DEF InTurn, UpTo, CheckpointBehindUnwritten
<1>5. checkpoint # NoAnchor => PropOrder[checkpoint] <= PropOrder[checkpoint]
  BY <1>2, Ranked
<1> QED BY <1>1, <1>3, <1>4, <1>5 DEF ToolInv

LEMMA ToolFetchesKeeps ==
    ASSUME ToolInv, ToolFetches
    PROVE  ToolInv'
<1>0. /\ UNCHANGED <<db, checkpoint>> /\ tool.on /\ tool \in Tools /\ tool.pipe \in Seq(Batches)
      /\ db \in Databases
  BY ToolOn DEF ToolFetches, source, ToolInv
<1>1. PICK k \in DOMAIN tool.pipe :
          tool' = [tool EXCEPT !.pipe[k].judged = TRUE,
                        !.pipe[k].verdicts =
                            receiptVerdicts(FetchAllByProposalIDs(db, tool.pipe[k].ids), ActiveLinks(db), TRUE)]
  BY DEF ToolFetches
<1> DEFINE found == receiptVerdicts(FetchAllByProposalIDs(db, tool.pipe[k].ids), ActiveLinks(db), TRUE)
           pipe == tool.pipe
           batch == [pipe[k] EXCEPT !.judged = TRUE, !.verdicts = found]
<1>2. found \in Found
  <2> DEFINE S == Ids(FetchAllByProposalIDs(db, tool.pipe[k].ids))
  <2>1. S \in SUBSET UNION {Ids(d.receipts) : d \in Databases}
    BY <1>0 DEF FetchAllByProposalIDs, Ids
  <2>2. found \in [S -> {"SUSPICIOUS", "CLEAN"}]
    BY DEF receiptVerdicts, Verdict
  <2> HIDE DEF S, found
  <2> QED BY <2>1, <2>2 DEF Found
<1>3. pipe[k] \in Batches /\ k \in 1..Len(pipe) /\ Len(pipe) \in Nat /\ DOMAIN pipe = 1..Len(pipe)
  BY <1>0, ToolOn
<1> HIDE DEF found
<1>4. batch \in Batches /\ batch.ids = pipe[k].ids /\ batch.anchor = pipe[k].anchor
  BY <1>2, <1>3 DEF Batches
<1>5. tool' = [tool EXCEPT !.pipe = [pipe EXCEPT ![k] = batch]]
  BY <1>0, <1>1, <1>3 DEF found, Tools, Batches
<1> HIDE DEF batch, pipe
<1>6. PICK next \in Seq(Batches) : next = [pipe EXCEPT ![k] = batch]
  BY <1>0, <1>3, <1>4, ExceptSeq DEF pipe
<1>7. /\ DOMAIN next = DOMAIN pipe
      /\ \A j \in DOMAIN pipe : next[j].ids = pipe[j].ids /\ next[j].anchor = pipe[j].anchor
  BY <1>3, <1>4, <1>6
<1>8. tool' \in Tools /\ tool'.on /\ tool'.anchor = tool.anchor /\ tool'.pipe = next
  BY <1>0, <1>5, <1>6 DEF Tools
<1>9. InTurn(next)
  BY <1>0, <1>7 DEF ToolInv, InTurn, pipe
<1>10. UpTo(tool.anchor, next)
  BY <1>0, <1>7 DEF ToolInv, UpTo, pipe
<1>11. CheckpointBehindUnwritten'
  BY <1>0, <1>7, <1>8 DEF ToolInv, CheckpointBehindUnwritten, pipe
<1> QED BY <1>0, <1>8, <1>9, <1>10, <1>11 DEF ToolInv

LEMMA ToolWritesKeeps ==
    ASSUME ToolInv, ToolWrites
    PROVE  ToolInv'
<1>0. /\ UNCHANGED <<db>> /\ tool.on /\ tool \in Tools /\ tool.pipe # <<>>
      /\ checkpoint' = Head(tool.pipe).anchor /\ tool' = [tool EXCEPT !.pipe = Tail(tool.pipe)]
  BY ToolOn DEF ToolWrites, source, Confirmed
<1>1. PICK pipe \in Seq(Batches) : pipe = tool.pipe
  BY <1>0, ToolOn
<1>2. PICK rest \in Seq(Batches) : rest = Tail(pipe)
  BY <1>0, <1>1, HeadTailProperties
<1>3. /\ Len(pipe) \in Nat \ {0} /\ DOMAIN pipe = 1..Len(pipe) /\ DOMAIN rest = 1..(Len(pipe) - 1)
      /\ \A k \in DOMAIN rest : rest[k] = pipe[k + 1]
  BY <1>0, <1>1, <1>2, HeadTailProperties, EmptySeq
<1>4. 1 \in DOMAIN pipe /\ Head(pipe) = pipe[1] /\ pipe[1] \in Batches
  BY <1>1, <1>3
<1>5. \A k \in DOMAIN rest : k + 1 \in DOMAIN pipe /\ 1 < k + 1
  BY <1>3
<1>6. checkpoint' = pipe[1].anchor /\ pipe[1].anchor \in Proposals /\ pipe[1].anchor \in pipe[1].ids
  BY <1>0, <1>1, <1>4 DEF Batches, ToolInv, InTurn
<1>7. tool' \in Tools /\ tool'.on /\ tool'.anchor = tool.anchor /\ tool'.pipe = rest
  BY <1>0, <1>1, <1>2 DEF Tools
<1>8. InTurn(rest)
  <2>1. \A k \in DOMAIN rest : rest[k].anchor \in rest[k].ids
    BY <1>0, <1>1, <1>3, <1>5 DEF ToolInv, InTurn
  <2>2. ASSUME NEW j \in DOMAIN rest, NEW k \in DOMAIN rest, j < k, NEW id \in rest[k].ids
        PROVE  PropOrder[rest[j].anchor] < PropOrder[id]
    <3>1. j + 1 < k + 1 /\ id \in pipe[k + 1].ids /\ rest[j] = pipe[j + 1]
      BY <1>3, <2>2
    <3> QED BY <1>0, <1>1, <1>5, <3>1 DEF ToolInv, InTurn
  <2> QED BY <2>1, <2>2 DEF InTurn
<1>9. UpTo(tool.anchor, rest)
  BY <1>0, <1>1, <1>3, <1>5 DEF ToolInv, UpTo
<1>10. CheckpointBehindUnwritten'
  <2> SUFFICES ASSUME NEW k \in DOMAIN rest, NEW id \in rest[k].ids
               PROVE  PropOrder[pipe[1].anchor] < PropOrder[id]
    BY <1>6, <1>7 DEF CheckpointBehindUnwritten
  <2> QED BY <1>0, <1>1, <1>3, <1>4, <1>5 DEF ToolInv, InTurn
<1>11. tool.anchor # NoAnchor /\ PropOrder[pipe[1].anchor] <= PropOrder[tool.anchor]
  BY <1>0, <1>1, <1>4, <1>6 DEF ToolInv, UpTo
<1> QED BY <1>0, <1>6, <1>7, <1>8, <1>9, <1>10, <1>11 DEF ToolInv

\* Between two runs there is only the checkpoint.
LEMMA ToolStops ==
    ASSUME ToolInv, db' \in Databases, tool' = Off, checkpoint' \in {checkpoint, NoAnchor}
    PROVE  ToolInv'
<1>1. ~tool'.on
  BY DEF Off
<1> QED BY <1>1 DEF ToolInv, CheckpointBehindUnwritten

LEMMA ToolAside ==
    ASSUME ToolInv, db' \in Databases, UNCHANGED <<tool, checkpoint>>
    PROVE  ToolInv'
BY DEF ToolInv, CheckpointBehindUnwritten

LEMMA ToolInvNext == ToolInv /\ [Next]_vars => ToolInv'
<1> SUFFICES ASSUME ToolInv, [Next]_vars PROVE ToolInv'
  OBVIOUS
<1>0. db \in Databases
  BY DEF ToolInv
<1>1. CASE Edit
  <2>1. db' \in Databases /\ UNCHANGED <<tool, checkpoint>>
    BY <1>1 DEF Edit, oneOff
  <2> QED BY <2>1, ToolAside
<1>2. CASE ScanStarts \/ UNCHANGED vars
  <2>1. UNCHANGED <<db, tool, checkpoint>>
    BY <1>2 DEF ScanStarts, vars, source, oneOff
  <2> QED BY <1>0, <2>1, ToolAside
<1>3. CASE Tool
  <2>1. CASE ToolEnds
    <3>1. db' = db /\ tool' = Off /\ checkpoint' = NoAnchor
      BY <2>1 DEF ToolEnds, source
    <3> QED BY <1>0, <3>1, ToolStops
  <2> QED BY <1>3, <2>1, ToolStartsKeeps, ToolReadsKeeps, ToolFetchesKeeps, ToolWritesKeeps DEF Tool
<1>4. CASE Faults
  <2>1. CASE ToolDies
    <3>1. db' = db /\ tool' = Off /\ checkpoint' = checkpoint
      BY <2>1 DEF ToolDies, source
    <3> QED BY <1>0, <3>1, ToolStops
  <2>2. CASE \/ \E d \in Domains : ProducerFails(d)
             \/ \E w \in Workers : HandlerFails(w) \/ ConnectionDrops(w) \/ Crash(w)
    <3>1. UNCHANGED <<db, tool, checkpoint>>
      BY <2>2 DEF ProducerFails, HandlerFails, ConnectionDrops, Crash, source, oneOff
    <3> QED BY <1>0, <3>1, ToolAside
  <2> QED BY <1>4, <2>1, <2>2 DEF Faults
<1>5. CASE \E d \in Domains : Produce(d)
  <2>1. UNCHANGED <<db, tool, checkpoint>>
    BY <1>5 DEF Produce, Poll, PublishPage, PublishKey, source, oneOff
  <2> QED BY <1>0, <2>1, ToolAside
<1>6. CASE \E w \in Workers : Consume(w)
  <2>1. UNCHANGED <<db, tool, checkpoint>>
    BY <1>6 DEF Consume, Fetch, Enrich, Save, source, oneOff
  <2> QED BY <1>0, <2>1, ToolAside
<1> QED BY <1>1, <1>2, <1>3, <1>4, <1>5, <1>6 DEF Next

LEMMA ToolInvInit == Init => ToolInv
<1> SUFFICES ASSUME Init PROVE ToolInv
  OBVIOUS
<1>1. ~tool.on
  BY DEF Init, Off
<1> QED BY <1>1 DEF Init, ToolInv, CheckpointBehindUnwritten

\* Killed at any moment, the receipt tool resumes without a gap: whatever it has read and
\* not written lies after the checkpoint (cmd/tools/receipt-canonical, ReceiptCanonicalJob.Run and onBatch).
THEOREM ResumesWithoutGap == Spec => []CheckpointBehindUnwritten
<1>1. ToolInv => CheckpointBehindUnwritten
  BY DEF ToolInv
<1> QED BY <1>1, ToolInvInit, ToolInvNext, PTL DEF Spec

\* The blocks the proposals' consumer reads never say of a proposal what the full scan would
\* not, in any source database whose numbers start with no space
\* (FetchDistinctBlockingKeys, FetchByBlockingKey against ComputeClusters).
THEOREM BlocksAlwaysAgree == Spec => []BlocksAgreeWithScan
<1>1. ToolInv => BlocksAgreeWithScan
  BY BlocksAgree DEF ToolInv
<1> QED BY <1>1, ToolInvInit, ToolInvNext, PTL DEF Spec
-----------------------------------------------------------------------------
(* What a worker writes. *)

JobFields == {"phase", "batch", "rows", "verdicts", "lost", "stale"}

\* A worker that is not outdated holds the rows, or the verdicts, that it would find now.
WorkerOK(w) ==
    worker[w] # Free =>
        /\ DOMAIN worker[w] = JobFields /\ worker[w].phase \in {"fetched", "judged"}
        /\ worker[w].phase = "fetched" => worker[w].verdicts = <<>>
        /\ worker[w].phase = "fetched" /\ ~worker[w].stale => worker[w].rows = Rows(w, worker[w].batch)
        /\ worker[w].phase = "judged" /\ ~worker[w].stale =>
              LET rows == Rows(w, worker[w].batch) IN
              \A id \in DOMAIN worker[w].verdicts : id \in Ids(rows) /\ worker[w].verdicts[id] = Verdicts(w, rows)[id]

WorkInv ==
    /\ DOMAIN worker = Workers /\ DOMAIN canonical = Domains
    /\ \A w \in Workers : WorkerOK(w)

\* Nothing that worker w reads has changed.
SameFor(w) == db' = db /\ (DomainOf(w) = "proposals" \/ \A status : WithStatus(status)' = WithStatus(status))

LEMMA ReadsSame ==
    ASSUME NEW w \in Workers, SameFor(w)
    PROVE  /\ \A batch : Rows(w, batch)' = Rows(w, batch)
           /\ \A rows : Verdicts(w, rows)' = Verdicts(w, rows)
<1>1. \A batch : Rows(w, batch)' = Rows(w, batch)
  BY DEF SameFor, Rows
<1>2. ASSUME NEW rows PROVE Verdicts(w, rows)' = Verdicts(w, rows)
  <2>0. db' = db
    BY DEF SameFor
  <2>1. CASE DomainOf(w) = "proposals"
    BY <2>0, <2>1 DEF Verdicts
  <2>2. CASE w = "receipts"
    BY <2>0, <2>2 DEF Verdicts, DomainOf
  <2>3. CASE w = "advances"
    <3>1. WithStatus("SUSPICIOUS")' = WithStatus("SUSPICIOUS")
      BY <2>3 DEF SameFor, DomainOf
    <3> QED BY <2>0, <2>3, <3>1 DEF Verdicts, DomainOf
  <2> QED BY <2>1, <2>2, <2>3 DEF DomainOf, Workers, Domains
<1> QED BY <1>1, <1>2

LEMMA VerdictsOf ==
    ASSUME NEW w \in Workers, NEW rows
    PROVE  DOMAIN Verdicts(w, rows) = Ids(rows)
BY DEF Verdicts, proposalVerdicts, receiptVerdicts, advanceVerdicts, DomainOf, Workers, Domains

\* A worker that does nothing, while nothing that it reads changes.
LEMMA WorkerStays ==
    ASSUME NEW w \in Workers, WorkerOK(w), worker'[w] = worker[w], SameFor(w)
    PROVE  WorkerOK(w)'
BY ReadsSame DEF WorkerOK

\* A worker that is outdated.
LEMMA WorkerOutdated ==
    ASSUME NEW w \in Workers, WorkerOK(w),
           worker'[w] = IF worker[w] = Free THEN Free ELSE [worker[w] EXCEPT !.stale = TRUE]
    PROVE  WorkerOK(w)'
<1>1. CASE worker[w] = Free
  BY <1>1 DEF WorkerOK
<1>2. CASE worker[w] # Free
  <2>1. PICK r : r = worker[w]
    OBVIOUS
  <2>2. DOMAIN r = JobFields
    BY <1>2, <2>1 DEF WorkerOK
  <2>3. LET n == [r EXCEPT !.stale = TRUE] IN
          DOMAIN n = JobFields /\ n.phase = r.phase /\ n.verdicts = r.verdicts /\ n.stale
    BY <2>2 DEF JobFields
  <2> QED BY <1>2, <2>1, <2>3 DEF WorkerOK
<1> QED BY <1>1, <1>2

\* A worker that has read.
LEMMA WorkerReads ==
    ASSUME NEW w \in Workers, NEW rows, NEW batch, rows = Rows(w, batch)', worker'[w] = Busy(w, rows, batch)
    PROVE  WorkerOK(w)'
BY DEF WorkerOK, Busy, JobFields

LEMMA WorkerIdle ==
    ASSUME NEW w \in Workers, worker'[w] = Free
    PROVE  WorkerOK(w)'
BY DEF WorkerOK

\* A worker that has written some of its verdicts.
LEMMA WorkerWrites ==
    ASSUME NEW w \in Workers, WorkerOK(w), worker[w] # Free, worker[w].phase = "judged", SameFor(w),
           NEW left \in SUBSET DOMAIN worker[w].verdicts,
           worker'[w] = [worker[w] EXCEPT !.verdicts = [id \in left |-> worker[w].verdicts[id]]]
    PROVE  WorkerOK(w)'
<1>1. PICK r : r = worker[w]
  OBVIOUS
<1>2. PICK vs : vs = [id \in left |-> r.verdicts[id]]
  OBVIOUS
<1>3. DOMAIN r = JobFields
  BY <1>1 DEF WorkerOK
<1>4. LET n == [r EXCEPT !.verdicts = vs] IN
        /\ DOMAIN n = JobFields /\ n.phase = r.phase /\ n.stale = r.stale /\ n.batch = r.batch /\ n.verdicts = vs
  BY <1>3 DEF JobFields
<1>5. PICK n : n = worker'[w]
  OBVIOUS
<1>6. DOMAIN n = JobFields /\ n.phase = "judged" /\ n.stale = r.stale /\ n.batch = r.batch /\ n.verdicts = vs
  BY <1>1, <1>2, <1>4, <1>5
<1>7. ASSUME ~r.stale, NEW id \in DOMAIN vs
      PROVE  id \in Ids(Rows(w, r.batch)) /\ vs[id] = Verdicts(w, Rows(w, r.batch))[id]
  BY <1>1, <1>2, <1>7 DEF WorkerOK
<1>8. \A batch : Rows(w, batch)' = Rows(w, batch) /\ Verdicts(w, Rows(w, batch))' = Verdicts(w, Rows(w, batch))
  BY ReadsSame
<1> QED BY <1>5, <1>6, <1>7, <1>8 DEF WorkerOK

LEMMA CanonicalSame ==
    ASSUME db' = db, canonical'["proposals"] = canonical["proposals"], NEW w \in Workers
    PROVE  SameFor(w)
BY DEF SameFor, WithStatus

LEMMA WriteKeeps ==
    ASSUME WorkInv, db' = db, NEW w \in Workers, worker[w] # Free, worker[w].phase = "judged",
           NEW S \in SUBSET DOMAIN worker[w].verdicts, Write(w, S)
    PROVE  WorkInv'
<1> DEFINE d == DomainOf(w)
<1>1. PICK new : new = Over([id \in S |-> worker[w].verdicts[id]], canonical[d])
  OBVIOUS
<1>2. PICK left \in SUBSET DOMAIN worker[w].verdicts : left = DOMAIN worker[w].verdicts \ S
  OBVIOUS
<1>3. PICK mine : mine = IF left = {} THEN Free ELSE [worker[w] EXCEPT !.verdicts = [id \in left |-> worker[w].verdicts[id]]]
  OBVIOUS
<1>4. /\ canonical' = [canonical EXCEPT ![d] = new]
      /\ worker' = [(IF d = "proposals" /\ new # canonical[d] THEN Outdated(w) ELSE worker) EXCEPT ![w] = mine]
  BY <1>1, <1>2, <1>3 DEF Write
<1>5. d \in Domains
  BY DEF DomainOf, Workers, Domains
<1>6. DOMAIN canonical = Domains /\ DOMAIN worker = Workers /\ \A v \in Workers : WorkerOK(v)
  BY DEF WorkInv
<1> HIDE DEF d
<1>7. /\ DOMAIN canonical' = Domains /\ canonical'[d] = new
      /\ \A e \in Domains \ {d} : canonical'[e] = canonical[e]
  BY <1>4, <1>5, <1>6
<1>8. "proposals" \in Domains
  BY DEF Domains
<1>9. CASE d = "proposals" /\ new # canonical[d]
  <2>1. worker' = [Outdated(w) EXCEPT ![w] = mine]
    BY <1>4, <1>9
  <2>2. /\ DOMAIN worker' = Workers /\ worker'[w] = mine
        /\ \A v \in Workers \ {w} : worker'[v] = IF worker[v] = Free THEN Free ELSE [worker[v] EXCEPT !.stale = TRUE]
    BY <2>1 DEF Outdated
  <2>3. \A v \in Workers \ {w} : WorkerOK(v)'
    BY <1>6, <2>2, WorkerOutdated
  <2>4. SameFor(w)
    BY <1>9 DEF SameFor, d
  <2>5. WorkerOK(w)'
    BY <1>2, <1>3, <1>6, <2>2, <2>4, WorkerWrites, WorkerIdle
  <2> QED BY <1>7, <2>2, <2>3, <2>5 DEF WorkInv
<1>10. CASE ~(d = "proposals" /\ new # canonical[d])
  <2>1. worker' = [worker EXCEPT ![w] = mine]
    BY <1>4, <1>10
  <2>2. DOMAIN worker' = Workers /\ worker'[w] = mine /\ \A v \in Workers \ {w} : worker'[v] = worker[v]
    BY <1>6, <2>1
  <2>3. canonical'["proposals"] = canonical["proposals"]
    BY <1>7, <1>8, <1>10
  <2>4. \A v \in Workers : SameFor(v)
    BY <2>3, CanonicalSame
  <2>5. \A v \in Workers \ {w} : WorkerOK(v)'
    BY <1>6, <2>2, <2>4, WorkerStays
  <2>6. WorkerOK(w)'
    BY <1>2, <1>3, <1>6, <2>2, <2>4, WorkerWrites, WorkerIdle
  <2> QED BY <1>7, <2>2, <2>5, <2>6 DEF WorkInv
<1> QED BY <1>9, <1>10

\* The process of worker w moves, and what was written leaves the proposals as they were.
LEMMA OneMoves ==
    ASSUME WorkInv, NEW w \in Workers, DOMAIN worker' = Workers, DOMAIN canonical' = Domains, db' = db,
           DOMAIN canonical'["proposals"] = DOMAIN canonical["proposals"],
           \A id \in DOMAIN canonical["proposals"] : canonical'["proposals"][id] = canonical["proposals"][id],
           \A v \in Workers \ {w} : worker'[v] = worker[v],
           (\A v \in Workers : SameFor(v)) => WorkerOK(w)'
    PROVE  WorkInv'
<1>1. \A v \in Workers : SameFor(v)
  BY DEF SameFor, WithStatus
<1>2. \A v \in Workers \ {w} : WorkerOK(v)'
  BY <1>1, WorkerStays DEF WorkInv
<1> QED BY <1>1, <1>2 DEF WorkInv

LEMMA EnrichKeeps ==
    ASSUME WorkInv, NEW w \in Workers, Enrich(w)
    PROVE  WorkInv'
<1>1. /\ worker[w] # Free /\ worker[w].phase = "fetched" /\ db' = db /\ canonical' = canonical
      /\ DOMAIN worker = Workers /\ WorkerOK(w)
  BY DEF Enrich, WorkInv, source, Free
<1>2. PICK r : r = worker[w]
  OBVIOUS
<1>3. PICK found : found = Verdicts(w, r.rows)
  OBVIOUS
<1>4. worker' = [worker EXCEPT ![w] = [r EXCEPT !.phase = "judged", !.rows = {}, !.verdicts = found]]
  BY <1>1, <1>2, <1>3 DEF Enrich
<1>5. DOMAIN r = JobFields /\ (~r.stale => r.rows = Rows(w, r.batch))
  BY <1>1, <1>2 DEF WorkerOK
<1>6. LET n == [r EXCEPT !.phase = "judged", !.rows = {}, !.verdicts = found] IN
        /\ DOMAIN n = JobFields /\ n.phase = "judged" /\ n.stale = r.stale /\ n.batch = r.batch
        /\ n.verdicts = found
  BY <1>5 DEF JobFields
<1>7. PICK n : n = [r EXCEPT !.phase = "judged", !.rows = {}, !.verdicts = found]
  OBVIOUS
<1>8. DOMAIN worker' = Workers /\ worker'[w] = n /\ \A v \in Workers \ {w} : worker'[v] = worker[v]
  BY <1>1, <1>4, <1>7
<1>9. ASSUME ~r.stale, NEW id \in DOMAIN found
      PROVE  id \in Ids(Rows(w, r.batch)) /\ found[id] = Verdicts(w, Rows(w, r.batch))[id]
  BY <1>3, <1>5, <1>9, VerdictsOf
<1>10. ASSUME \A v \in Workers : SameFor(v) PROVE WorkerOK(w)'
  <2>1. \A batch : Rows(w, batch)' = Rows(w, batch) /\ Verdicts(w, Rows(w, batch))' = Verdicts(w, Rows(w, batch))
    BY <1>10, ReadsSame
  <2> QED BY <1>6, <1>7, <1>8, <1>9, <2>1 DEF WorkerOK
<1> QED BY <1>1, <1>8, <1>10, OneMoves DEF WorkInv

LEMMA DropKeeps ==
    ASSUME WorkInv, NEW w \in Workers, ConnectionDrops(w)
    PROVE  WorkInv'
<1>1. /\ worker[w] # Free /\ db' = db /\ canonical' = canonical
      /\ DOMAIN worker = Workers /\ WorkerOK(w)
  BY DEF ConnectionDrops, WorkInv, source
<1>2. PICK r : r = worker[w]
  OBVIOUS
<1>3. worker' = [worker EXCEPT ![w] = [r EXCEPT !.lost = TRUE]]
  BY <1>2 DEF ConnectionDrops
<1>4. DOMAIN r = JobFields
  BY <1>1, <1>2 DEF WorkerOK
<1>5. LET n == [r EXCEPT !.lost = TRUE] IN
        /\ DOMAIN n = JobFields /\ n.phase = r.phase /\ n.stale = r.stale /\ n.batch = r.batch
        /\ n.verdicts = r.verdicts /\ n.rows = r.rows
  BY <1>4 DEF JobFields
<1>6. PICK n : n = [r EXCEPT !.lost = TRUE]
  OBVIOUS
<1>7. DOMAIN worker' = Workers /\ worker'[w] = n /\ \A v \in Workers \ {w} : worker'[v] = worker[v]
  BY <1>1, <1>3, <1>6
<1>8. ASSUME \A v \in Workers : SameFor(v) PROVE WorkerOK(w)'
  <2>1. /\ \A batch : Rows(w, batch)' = Rows(w, batch)
        /\ \A batch : Verdicts(w, Rows(w, batch))' = Verdicts(w, Rows(w, batch))
    BY <1>8, ReadsSame
  <2> QED BY <1>1, <1>2, <1>5, <1>6, <1>7, <2>1 DEF WorkerOK
<1> QED BY <1>1, <1>7, <1>8, OneMoves DEF WorkInv

LEMMA FailKeeps ==
    ASSUME WorkInv, NEW w \in Workers, HandlerFails(w)
    PROVE  WorkInv'
<1>1. PICK S \in SUBSET DOMAIN worker[w].verdicts :
        /\ DomainOf(w) = "proposals" => S = {}
        /\ canonical' = [canonical EXCEPT
                ![DomainOf(w)] = Over([id \in S |-> worker[w].verdicts[id]], canonical[DomainOf(w)])]
  BY DEF HandlerFails
<1>2. /\ db' = db /\ worker' = [worker EXCEPT ![w] = Free]
      /\ DOMAIN worker = Workers /\ DOMAIN canonical = Domains
  BY DEF HandlerFails, source, WorkInv
<1>3. DomainOf(w) \in Domains /\ "proposals" \in Domains
  BY DEF DomainOf, Workers, Domains
<1>4. PICK some : some = [id \in S |-> worker[w].verdicts[id]]
  OBVIOUS
<1>5. PICK new : new = Over(some, canonical[DomainOf(w)])
  OBVIOUS
<1>6. DOMAIN canonical' = Domains /\ canonical' = [canonical EXCEPT ![DomainOf(w)] = new]
  BY <1>1, <1>2, <1>4, <1>5
<1>7. /\ DOMAIN canonical'["proposals"] = DOMAIN canonical["proposals"]
      /\ \A id \in DOMAIN canonical["proposals"] : canonical'["proposals"][id] = canonical["proposals"][id]
  <2>1. CASE DomainOf(w) = "proposals"
    <3>1. DOMAIN some = {} /\ canonical'["proposals"] = new
      BY <1>1, <1>2, <1>3, <1>4, <1>6, <2>1
    <3> QED BY <1>5, <2>1, <3>1 DEF Over
  <2>2. CASE DomainOf(w) # "proposals"
    BY <1>2, <1>3, <1>6, <2>2
  <2> QED BY <2>1, <2>2
<1>8. DOMAIN worker' = Workers /\ worker'[w] = Free /\ \A v \in Workers \ {w} : worker'[v] = worker[v]
  BY <1>2
<1>9. WorkerOK(w)'
  BY <1>8, WorkerIdle
<1> QED BY <1>2, <1>6, <1>7, <1>8, <1>9, OneMoves

LEMMA FetchKeeps ==
    ASSUME WorkInv, NEW w \in Workers, Fetch(w)
    PROVE  WorkInv'
<1>1. /\ db' = db /\ canonical' = canonical /\ DOMAIN worker = Workers
  BY DEF Fetch, source, WorkInv
<1>2. PICK batch : batch = Head(queue[w])
  OBVIOUS
<1>3. PICK rows : rows = Rows(w, batch)
  OBVIOUS
<1>4. worker' = [worker EXCEPT ![w] = IF rows = {} THEN Free ELSE Busy(w, rows, batch)]
  BY <1>2, <1>3 DEF Fetch
<1>5. /\ DOMAIN worker' = Workers /\ worker'[w] \in {Free, Busy(w, rows, batch)}
      /\ \A v \in Workers \ {w} : worker'[v] = worker[v]
  BY <1>1, <1>4
<1>6. ASSUME \A v \in Workers : SameFor(v) PROVE WorkerOK(w)'
  <2>1. rows = Rows(w, batch)'
    BY <1>3, <1>6, ReadsSame
  <2> QED BY <1>5, <2>1, WorkerReads, WorkerIdle
<1> QED BY <1>1, <1>5, <1>6, OneMoves DEF WorkInv

LEMMA ScanKeeps ==
    ASSUME WorkInv, ScanStarts
    PROVE  WorkInv'
<1>1. /\ db' = db /\ canonical' = canonical /\ DOMAIN worker = Workers
  BY DEF ScanStarts, source, WorkInv
<1>2. PICK w \in Workers : w = "validator"
  BY DEF Workers
<1>3. PICK rows : rows = Rows(w, {})
  OBVIOUS
<1>4. worker' = [worker EXCEPT ![w] = Busy(w, rows, {})]
  BY <1>2, <1>3 DEF ScanStarts
<1>5. /\ DOMAIN worker' = Workers /\ worker'[w] = Busy(w, rows, {})
      /\ \A v \in Workers \ {w} : worker'[v] = worker[v]
  BY <1>1, <1>4
<1>6. ASSUME \A v \in Workers : SameFor(v) PROVE WorkerOK(w)'
  <2>1. rows = Rows(w, {})'
    BY <1>3, <1>6, ReadsSame
  <2> QED BY <1>5, <2>1, WorkerReads
<1> QED BY <1>1, <1>5, <1>6, OneMoves DEF WorkInv

LEMMA SaveKeeps ==
    ASSUME WorkInv, NEW w \in Workers, Save(w)
    PROVE  WorkInv'
<1>1. /\ db' = db /\ worker[w].phase = "judged" /\ worker[w] # Free
  BY DEF Save, source, Free
<1>2. CASE worker[w].verdicts = <<>>
  <2>1. worker' = [worker EXCEPT ![w] = Free] /\ canonical' = canonical /\ DOMAIN worker = Workers
    BY <1>2 DEF Save, WorkInv
  <2>2. DOMAIN worker' = Workers /\ worker'[w] = Free /\ \A v \in Workers \ {w} : worker'[v] = worker[v]
    BY <2>1
  <2>3. WorkerOK(w)'
    BY <2>2, WorkerIdle
  <2> QED BY <1>1, <2>1, <2>2, <2>3, OneMoves DEF WorkInv
<1>3. CASE worker[w].verdicts # <<>>
  <2>1. PICK S \in SUBSET DOMAIN worker[w].verdicts : Write(w, S)
    BY <1>3 DEF Save
  <2> QED BY <1>1, <2>1, WriteKeeps
<1> QED BY <1>2, <1>3

LEMMA EditKeeps ==
    ASSUME WorkInv, Edit
    PROVE  WorkInv'
<1>1. worker' = Outdated("nobody") /\ canonical' = canonical /\ DOMAIN canonical = Domains
  BY DEF Edit, WorkInv
<1>2. "nobody" \notin Workers
  BY DEF Workers, Domains
<1>3. DOMAIN worker' = Workers
  BY <1>1 DEF Outdated
<1>4. ASSUME NEW w \in Workers PROVE WorkerOK(w)'
  <2>1. worker'[w] = IF worker[w] = Free THEN Free ELSE [worker[w] EXCEPT !.stale = TRUE]
    BY <1>1, <1>2 DEF Outdated
  <2> QED BY <2>1, WorkerOutdated DEF WorkInv
<1> QED BY <1>1, <1>3, <1>4 DEF WorkInv

LEMMA ToolWritesWorkers ==
    ASSUME WorkInv, ToolWrites
    PROVE  WorkInv'
<1>1. /\ db' = db /\ worker' = worker /\ DOMAIN canonical = Domains
      /\ canonical' = [canonical EXCEPT !["receipts"] = Over(Head(tool.pipe).verdicts, canonical["receipts"])]
  BY DEF ToolWrites, source, WorkInv
<1>2. DOMAIN canonical' = Domains /\ canonical'["proposals"] = canonical["proposals"]
  BY <1>1 DEF Domains
<1>3. \A w \in Workers : SameFor(w)
  BY <1>1, <1>2, CanonicalSame
<1> QED BY <1>1, <1>2, <1>3, WorkerStays DEF WorkInv

LEMMA WorkersAside ==
    ASSUME WorkInv, UNCHANGED <<db, canonical, worker>>
    PROVE  WorkInv'
BY CanonicalSame, WorkerStays DEF WorkInv

LEMMA WorkInvNext == WorkInv /\ [Next]_vars => WorkInv'
<1> SUFFICES ASSUME WorkInv, [Next]_vars PROVE WorkInv'
  OBVIOUS
<1>1. CASE Edit \/ ScanStarts
  BY <1>1, EditKeeps, ScanKeeps
<1>2. CASE UNCHANGED vars
  <2>1. UNCHANGED <<db, canonical, worker>>
    BY <1>2 DEF vars
  <2> QED BY <2>1, WorkersAside
<1>3. CASE Tool
  <2>1. CASE ToolStarts \/ ToolReads \/ ToolFetches \/ ToolEnds
    <3>1. UNCHANGED <<db, canonical, worker>>
      BY <2>1 DEF ToolStarts, ToolReads, ToolFetches, ToolEnds, source
    <3> QED BY <3>1, WorkersAside
  <2> QED BY <1>3, <2>1, ToolWritesWorkers DEF Tool
<1>4. CASE Faults
  <2>1. CASE ToolDies \/ \E d \in Domains : ProducerFails(d)
    <3>1. UNCHANGED <<db, canonical, worker>>
      BY <2>1 DEF ToolDies, ProducerFails, source
    <3> QED BY <3>1, WorkersAside
  <2>2. ASSUME NEW w \in Workers, Crash(w) PROVE WorkInv'
    <3>1. worker' = [worker EXCEPT ![w] = Free] /\ canonical' = canonical /\ db' = db /\ DOMAIN worker = Workers
      BY <2>2 DEF Crash, source, WorkInv
    <3>2. DOMAIN worker' = Workers /\ worker'[w] = Free /\ \A v \in Workers \ {w} : worker'[v] = worker[v]
      BY <3>1
    <3>3. WorkerOK(w)'
      BY <3>2, WorkerIdle
    <3> QED BY <3>1, <3>2, <3>3, OneMoves DEF WorkInv
  <2> QED BY <1>4, <2>1, <2>2, FailKeeps, DropKeeps DEF Faults
<1>5. CASE \E d \in Domains : Produce(d)
  <2>1. UNCHANGED <<db, canonical, worker>>
    BY <1>5 DEF Produce, Poll, PublishPage, PublishKey, source
  <2> QED BY <2>1, WorkersAside
<1>6. CASE \E w \in Workers : Consume(w)
  BY <1>6, FetchKeeps, EnrichKeeps, SaveKeeps DEF Consume
<1> QED BY <1>1, <1>2, <1>3, <1>4, <1>5, <1>6 DEF Next

LEMMA WorkInvInit == Init => WorkInv
BY DEF Init, WorkInv, WorkerOK
-----------------------------------------------------------------------------
(* What may be written over. *)

\* What the block of a key says of a proposal is what the block it is in says.
LEMMA ProposalIsRight ==
    ASSUME db \in Databases, NEW batch, NEW v \in Right.proposals,
           v[1] \in Ids(Rows("proposals", batch))
    PROVE  Verdicts("proposals", Rows("proposals", batch))[v[1]] = v[2]
<1>1. PICK k \in FetchDistinctBlockingKeys(db) : \E id \in Ids(FetchByBlockingKey(db, k)) :
          v = <<id, proposalVerdicts(FetchByBlockingKey(db, k), db)[id]>>
  BY RightOf
<1>2. PICK p \in FetchByBlockingKey(db, k) : v[1] = p.id
  BY <1>1 DEF Ids
<1>3. Rows("proposals", batch) = FetchByBlockingKey(db, batch)
  BY DEF Rows
<1>4. PICK q \in FetchByBlockingKey(db, batch) : v[1] = q.id
  BY <1>3 DEF Ids
<1>5. p \in db.proposals /\ q \in db.proposals /\ SqlKey(p.number) = k /\ SqlKey(q.number) = batch
  BY <1>2, <1>4 DEF FetchByBlockingKey, InBlocks
<1>6. p = q
  BY <1>2, <1>4, <1>5, ValidatorsAssumption
<1>7. k = batch
  BY <1>5, <1>6
<1>8. Verdicts("proposals", Rows("proposals", batch)) = proposalVerdicts(FetchByBlockingKey(db, batch), db)
  BY <1>3 DEF Verdicts, DomainOf
<1> QED BY <1>1, <1>7, <1>8

\* The full scan says what the blocks say.
LEMMA ScanIsRight ==
    ASSUME db \in Databases, NoSpaces, NEW batch, NEW v \in Right.proposals
    PROVE  Verdicts("validator", Rows("validator", batch))[v[1]] = v[2]
<1>1. Verdicts("validator", Rows("validator", batch)) = proposalVerdicts(FetchAll(db), db)
  BY DEF Verdicts, Rows, DomainOf
<1> QED BY <1>1, BlocksAgree DEF BlocksAgreeWithScan

\* The rules on a receipt look at no other.
LEMMA ReceiptIsRight ==
    ASSUME db \in Databases, NEW batch, NEW v \in Right.receipts,
           v[1] \in Ids(Rows("receipts", batch))
    PROVE  Verdicts("receipts", Rows("receipts", batch))[v[1]] = v[2]
<1> DEFINE clean == FetchAllByProposalIDs(db, WithStatus("CLEAN"))
           rows == FetchAllByProposalIDs(db, batch)
           flagged(S) == RECEIPT_RULE_001(S) \cup RULE_REC_002(S, ActiveLinks(db))
<1>1. \A S : receiptVerdicts(S, ActiveLinks(db), FALSE) = [id \in Ids(S) |-> Verdict(flagged(S), id)]
  BY DEF receiptVerdicts
<1>2. PICK id \in Ids(clean) : v = <<id, Verdict(flagged(clean), id)>>
  <2>1. PICK found : /\ found = receiptVerdicts(clean, ActiveLinks(db), FALSE)
                     /\ \E id \in DOMAIN found : v = <<id, found[id]>>
    BY RightOf
  <2>2. found = [id \in Ids(clean) |-> Verdict(flagged(clean), id)]
    BY <1>1, <2>1
  <2> HIDE DEF clean, flagged
  <2> QED BY <2>1, <2>2
<1>3. Rows("receipts", batch) = rows
  BY DEF Rows
<1>4. Verdicts("receipts", rows) = receiptVerdicts(rows, ActiveLinks(db), FALSE)
  BY DEF Verdicts, DomainOf
<1>5. id \in Ids(rows) /\ Verdicts("receipts", rows)[id] = Verdict(flagged(rows), id)
  BY <1>1, <1>2, <1>3, <1>4
<1>6. PICK r \in clean : r.id = id
  BY <1>2 DEF Ids
<1>7. clean \subseteq db.receipts /\ rows \subseteq db.receipts
  BY DEF FetchAllByProposalIDs
<1>8. \A x \in db.receipts : x.id = id => x = r
  BY <1>6, <1>7, ValidatorsAssumption
<1>9. r \in rows
  BY <1>5, <1>7, <1>8 DEF Ids
<1> HIDE DEF clean, rows
<1>10. id \in RECEIPT_RULE_001(clean) <=> id \in RECEIPT_RULE_001(rows)
  <2>1. ASSUME NEW S \in {clean, rows} PROVE id \in RECEIPT_RULE_001(S) <=> downloaded_value(r) = ""
    BY <1>6, <1>7, <1>8, <1>9 DEF RECEIPT_RULE_001
  <2> QED BY <2>1
<1>11. id \in RULE_REC_002(clean, ActiveLinks(db)) <=> id \in RULE_REC_002(rows, ActiveLinks(db))
  <2> DEFINE links == ActiveLinks(db)
             bad(x) == x.status = "BAIXADO" /\ x.commissioned /\ x.owed = 0
                        /\ ~\E k \in DOMAIN links : links[k].receipt = x.id
  <2>0. \A S : RULE_REC_002(S, links) = {x.id : x \in {y \in S : bad(y)}}
    BY DEF RULE_REC_002
  <2> HIDE DEF links, bad
  <2>1. ASSUME NEW S \in {clean, rows} PROVE id \in RULE_REC_002(S, links) <=> bad(r)
    BY <1>6, <1>7, <1>8, <1>9, <2>0
  <2> QED BY <2>1 DEF links
<1>12. Verdict(flagged(clean), id) = Verdict(flagged(rows), id)
  BY <1>10, <1>11 DEF Verdict
<1> QED BY <1>2, <1>3, <1>5, <1>12

\* The verdict of an advance is that of its page.
LEMMA AdvanceIsRight ==
    ASSUME NEW batch, NEW v \in Right.advances, {page \in AdvancePages : v[1] \in page} = {batch}
    PROVE  Verdicts("advances", Rows("advances", batch))[v[1]] = v[2]
<1> DEFINE found(page) == Verdicts("advances", Rows("advances", page))
<1>1. PICK page \in AdvancePages : v \in {<<id, found(page)[id]>> : id \in DOMAIN found(page)}
  BY RightOf
<1>2. DOMAIN found(page) = Ids(Rows("advances", page))
  BY VerdictsOf DEF Workers, Domains
<1>3. Rows("advances", page) = {a \in db.advances : a.id \in page}
  BY DEF Rows
<1> HIDE DEF found
<1>4. v[1] \in page /\ v[2] = found(page)[v[1]]
  BY <1>1, <1>2, <1>3 DEF Ids
<1>5. page = batch
  BY <1>1, <1>4
<1> QED BY <1>4, <1>5 DEF found

\* What a worker that is not late writes of a row is right.
LEMMA FreshIsRight ==
    ASSUME db \in Databases, NEW w \in Workers, NEW v \in Right[DomainOf(w)],
           v[1] \in Ids(Rows(w, worker[w].batch)), worker[w] # Free,
           w = "validator" => NoSpaces, w = "advances" => ~OffItsPage(v[1])
    PROVE  Verdicts(w, Rows(w, worker[w].batch))[v[1]] = v[2]
<1>1. w \in {"proposals", "receipts", "advances", "validator"}
  BY DEF Workers, Domains
<1>2. CASE w = "proposals"
  BY <1>2, ProposalIsRight DEF DomainOf
<1>3. CASE w = "receipts"
  BY <1>3, ReceiptIsRight DEF DomainOf
<1>4. CASE w = "advances"
  <2>1. v[1] \in worker[w].batch
    BY <1>4 DEF Rows, Ids
  <2> QED BY <1>4, <2>1, AdvanceIsRight DEF DomainOf, OffItsPage
<1>5. CASE w = "validator"
  BY <1>5, ScanIsRight DEF DomainOf
<1> QED BY <1>1, <1>2, <1>3, <1>4, <1>5

\* The write of a worker, whole or in part.
LEMMA WriterSpoils ==
    ASSUME WorkInv, db \in Databases, NEW w \in Workers, worker[w] # Free,
           NEW S \in SUBSET DOMAIN worker[w].verdicts, S # {} => worker'[w] # worker[w],
           canonical' = [canonical EXCEPT
                ![DomainOf(w)] = Over([id \in S |-> worker[w].verdicts[id]], canonical[DomainOf(w)])],
           NEW d \in Domains, NEW v \in Right[d], Holds(d, v[1], v[2]), ~Holds(d, v[1], v[2])'
    PROVE  LateWrite(d, v[1])
<1>1. PICK some : some = [id \in S |-> worker[w].verdicts[id]]
  OBVIOUS
<1>2. PICK new : new = Over(some, canonical[DomainOf(w)])
  OBVIOUS
<1>3. canonical' = [canonical EXCEPT ![DomainOf(w)] = new] /\ DOMAIN canonical = Domains
  BY <1>1, <1>2 DEF WorkInv
<1>4. DomainOf(w) \in Domains
  BY DEF DomainOf, Workers, Domains
<1>5. d = DomainOf(w) /\ canonical'[d] = new
  BY <1>3, <1>4 DEF Holds
<1>6. v[1] \in S /\ worker[w].verdicts[v[1]] # v[2]
  BY <1>1, <1>2, <1>5 DEF Holds, Over
<1>7. worker'[w] # worker[w]
  BY <1>6
<1>8. CASE worker[w].stale
  BY <1>5, <1>7, <1>8 DEF LateWrite
<1>9. CASE w = "validator" /\ ~NoSpaces
  BY <1>7, <1>9 DEF LateWrite
<1>10. CASE w = "advances" /\ OffItsPage(v[1])
  BY <1>5, <1>7, <1>10 DEF LateWrite, DomainOf
<1>11. CASE ~worker[w].stale /\ (w = "validator" => NoSpaces) /\ (w = "advances" => ~OffItsPage(v[1]))
  <2>1. WorkerOK(w)
    BY DEF WorkInv
  <2>2. worker[w].phase = "judged"
    BY <1>6, <2>1 DEF WorkerOK
  <2>3. /\ v[1] \in Ids(Rows(w, worker[w].batch))
        /\ worker[w].verdicts[v[1]] = Verdicts(w, Rows(w, worker[w].batch))[v[1]]
    BY <1>6, <1>11, <2>1, <2>2 DEF WorkerOK
  <2> QED BY <1>5, <1>6, <1>11, <2>3, FreshIsRight
<1> QED BY <1>8, <1>9, <1>10, <1>11

LEMMA SaveSpoils ==
    ASSUME WorkInv, db \in Databases, NEW w \in Workers, Save(w),
           NEW d \in Domains, NEW v \in Right[d], Holds(d, v[1], v[2]), ~Holds(d, v[1], v[2])'
    PROVE  LateWrite(d, v[1])
<1>1. worker[w] # Free /\ worker[w].phase = "judged" /\ DOMAIN worker = Workers /\ WorkerOK(w)
  BY DEF Save, Free, WorkInv
<1>2. canonical' # canonical
  BY DEF Holds
<1>3. PICK S \in SUBSET DOMAIN worker[w].verdicts : Write(w, S)
  BY <1>2 DEF Save
<1>4. canonical' = [canonical EXCEPT
            ![DomainOf(w)] = Over([id \in S |-> worker[w].verdicts[id]], canonical[DomainOf(w)])]
  BY <1>3 DEF Write
<1>5. ASSUME S # {} PROVE worker'[w] # worker[w]
  <2>1. PICK left \in SUBSET DOMAIN worker[w].verdicts : left = DOMAIN worker[w].verdicts \ S
    OBVIOUS
  <2>2. PICK mine : mine = IF left = {} THEN Free ELSE [worker[w] EXCEPT !.verdicts = [id \in left |-> worker[w].verdicts[id]]]
    OBVIOUS
  <2>3. PICK others : /\ others \in {Outdated(w), worker}
                      /\ worker' = [others EXCEPT ![w] = mine]
    BY <1>3, <2>1, <2>2 DEF Write
  <2>4. DOMAIN others = Workers
    BY <1>1, <2>3 DEF Outdated
  <2>5. worker'[w] = mine
    BY <2>3, <2>4
  <2>6. CASE left # {}
    <3>1. PICK r : r = worker[w]
      OBVIOUS
    <3>2. PICK vs : vs = [id \in left |-> r.verdicts[id]]
      OBVIOUS
    <3>3. DOMAIN r = JobFields
      BY <1>1, <3>1 DEF WorkerOK
    <3>4. mine = [r EXCEPT !.verdicts = vs]
      BY <2>2, <2>6, <3>1, <3>2
    <3>5. mine.verdicts = vs
      BY <3>3, <3>4 DEF JobFields
    <3>6. DOMAIN vs # DOMAIN r.verdicts
      BY <1>5, <2>1, <3>1, <3>2
    <3> QED BY <2>5, <3>1, <3>5, <3>6
  <2>7. CASE left = {}
    BY <1>1, <2>2, <2>5, <2>7
  <2> QED BY <2>6, <2>7
<1> QED BY <1>1, <1>4, <1>5, WriterSpoils

LEMMA FailSpoils ==
    ASSUME WorkInv, db \in Databases, NEW w \in Workers, HandlerFails(w),
           NEW d \in Domains, NEW v \in Right[d], Holds(d, v[1], v[2]), ~Holds(d, v[1], v[2])'
    PROVE  LateWrite(d, v[1])
<1>1. worker[w] # Free /\ worker' = [worker EXCEPT ![w] = Free] /\ DOMAIN worker = Workers
  BY DEF HandlerFails, WorkInv
<1>2. PICK S \in SUBSET DOMAIN worker[w].verdicts :
        canonical' = [canonical EXCEPT
            ![DomainOf(w)] = Over([id \in S |-> worker[w].verdicts[id]], canonical[DomainOf(w)])]
  BY DEF HandlerFails
<1>3. worker'[w] # worker[w]
  BY <1>1
<1> QED BY <1>1, <1>2, <1>3, WriterSpoils

LEMMA ToolSpoils ==
    ASSUME WorkInv, ToolInv, ToolWrites,
           NEW d \in Domains, NEW v \in Right[d], Holds(d, v[1], v[2]), ~Holds(d, v[1], v[2])'
    PROVE  LateWrite(d, v[1])
<1>1. /\ canonical' = [canonical EXCEPT !["receipts"] = Over(Head(tool.pipe).verdicts, canonical["receipts"])]
      /\ DOMAIN canonical = Domains
      /\ tool.on /\ tool.pipe # <<>> /\ tool' = [tool EXCEPT !.pipe = Tail(tool.pipe)]
  BY DEF ToolWrites, WorkInv
<1>2. d = "receipts"
  BY <1>1 DEF Holds
<1>3. tool \in Tools /\ tool.pipe \in Seq(Batches)
  BY <1>1, ToolOn
<1>4. PICK rest \in Seq(Batches) : rest = Tail(tool.pipe) /\ Len(rest) < Len(tool.pipe)
  <2>1. PICK pipe \in Seq(Batches) : pipe = tool.pipe
    BY <1>3
  <2>2. Tail(pipe) \in Seq(Batches) /\ Len(Tail(pipe)) = Len(pipe) - 1 /\ Len(pipe) \in Nat
    BY <1>1, <2>1, HeadTailProperties
  <2>3. Len(Tail(pipe)) < Len(pipe)
    BY <2>2
  <2> QED BY <2>1, <2>2, <2>3
<1>5. tool'.on /\ tool'.pipe = rest
  BY <1>1, <1>3, <1>4 DEF Tools
<1> QED BY <1>1, <1>2, <1>4, <1>5 DEF LateWrite

LEMMA NextSpoils ==
    ASSUME WorkInv, ToolInv, [Next]_vars,
           NEW d \in Domains, NEW v \in Right[d], Holds(d, v[1], v[2]), ~Holds(d, v[1], v[2])'
    PROVE  LateWrite(d, v[1])
<1>1. canonical' # canonical
  BY DEF Holds
<1>2. db \in Databases
  BY DEF ToolInv
<1>3. ToolWrites \/ \E w \in Workers : HandlerFails(w) \/ Save(w)
  <2>1. ~Edit /\ ~ScanStarts /\ vars' # vars
    BY <1>1 DEF Edit, ScanStarts, vars
  <2>2. Tool => ToolWrites
    BY <1>1 DEF Tool, ToolStarts, ToolReads, ToolFetches, ToolEnds
  <2>3. Faults => \E w \in Workers : HandlerFails(w)
    BY <1>1 DEF Faults, ProducerFails, ConnectionDrops, Crash, ToolDies
  <2>4. ~\E e \in Domains : Produce(e)
    BY <1>1 DEF Produce, Poll, PublishPage, PublishKey
  <2>5. \A w \in Workers : Consume(w) => Save(w)
    BY <1>1 DEF Consume, Fetch, Enrich
  <2> QED BY <2>1, <2>2, <2>3, <2>4, <2>5 DEF Next
<1>4. ASSUME NEW w \in Workers, HandlerFails(w) PROVE LateWrite(d, v[1])
  BY <1>2, <1>4, FailSpoils
<1>5. ASSUME NEW w \in Workers, Save(w) PROVE LateWrite(d, v[1])
  BY <1>2, <1>5, SaveSpoils
<1> QED BY <1>3, <1>4, <1>5, ToolSpoils

\* Whatever is replayed, redelivered, crashes or fails half-way: a verdict that is right is
\* written over with a wrong one only by a late writer (worker.go and the handlers).
THEOREM ReplayingIsSafe == Spec => OnlyLateWritersSpoil
<1>1. WorkInv /\ ToolInv /\ [Next]_vars =>
        [\A d \in Domains : \A v \in Right[d] :
            Holds(d, v[1], v[2]) /\ ~Holds(d, v[1], v[2])' => LateWrite(d, v[1])]_vars
  BY NextSpoils
<1> QED BY <1>1, ToolInvInit, ToolInvNext, WorkInvInit, WorkInvNext, PTL DEF Spec, OnlyLateWritersSpoil
=============================================================================
