---------------------------- MODULE PartiesProofs ----------------------------
(***************************************************************************)
(* Theorems about the party directory, for any texts, names, conversations *)
(* and histories, with the import running beside the server.  They rest on *)
(* one observation: a row keeps its display name and identity state for    *)
(* ever, so a stale copy is stale only in its aliases and attributes.      *)
(***************************************************************************)
EXTENDS Parties, TLAPS

(* Types. *)

Attributes == UNION {[K -> {"known", "declined"}] : K \in SUBSET Questions}

Rows ==
    [identityState : {"identified", "unidentifiable"}, displayName : Ids,
     aliases : SUBSET Ids, attributes : Attributes]

\* What an answer about an attribute, and the source's silence, make of the attributes.
LEMMA PutAttribute ==
    ASSUME NEW a \in Attributes, NEW k \in Questions, NEW s \in {"known", "declined"}
    PROVE  /\ Put(a, k, s) \in Attributes /\ DOMAIN Put(a, k, s) = DOMAIN a \cup {k}
           /\ \A x \in DOMAIN a : x # k => Put(a, k, s)[x] = a[x]
<1>1. PICK K \in SUBSET Questions : a \in [K -> {"known", "declined"}]
  BY DEF Attributes
<1>2. Put(a, k, s) \in [K \cup {k} -> {"known", "declined"}]
  BY <1>1 DEF Put
<1>3. Put(a, k, s) \in Attributes
  <2>1. K \cup {k} \in SUBSET Questions
    OBVIOUS
  <2> QED BY <1>2, <2>1 DEF Attributes
<1> QED BY <1>1, <1>3 DEF Put

LEMMA FillAttributes ==
    ASSUME NEW a \in Attributes
    PROVE  Fill(a, NoAttributes) = a
<1>1. PICK K \in SUBSET Questions : a \in [K -> {"known", "declined"}]
  BY DEF Attributes
<1> QED BY <1>1 DEF Fill, NoAttributes

LEMMA NoAttributesTyped == NoAttributes \in Attributes
<1>1. NoAttributes \in [{} -> {"known", "declined"}]
  BY DEF NoAttributes
<1> QED BY <1>1 DEF Attributes

\* No row is the absence of one.
LEMMA NoneIsNoRow == None \notin Rows
BY DEF None, Rows

LEMMA NewPartyTyped ==
    ASSUME NEW state \in {"identified", "unidentifiable"}, NEW name \in Ids
    PROVE  /\ newParty(state, name) \in Rows
           /\ newParty(state, name).displayName = name
           /\ newParty(state, name).identityState = state
BY NoAttributesTyped DEF newParty, Rows

\* A party built from a seed answers to the seed's name.
LEMMA Built ==
    ASSUME NEW p \in Ids
    PROVE  build(SeedOf(p)) \in Rows /\ build(SeedOf(p)).displayName = p
BY NoAttributesTyped DEF build, SeedOf, newParty, Rows

\* The enrichment adds an alias and nothing else, and then the party answers to the name.
LEMMA Enriched ==
    ASSUME NEW row \in Rows, NEW p \in Ids
    PROVE  LET new == enrich(row, SeedOf(p)) IN
           /\ new \in Rows
           /\ new.displayName = row.displayName /\ new.identityState = row.identityState
           /\ new.attributes = row.attributes /\ row.aliases \subseteq new.aliases
           /\ normalizeName[p] \in nameKeys(new)
           /\ normalizeName[p] \in nameKeys(row) => new = row
<1> DEFINE new == enrich(row, SeedOf(p))
<1> DEFINE aliases == IF normalizeName[p] \in nameKeys(row) THEN row.aliases ELSE row.aliases \cup {p}
<1>1. Fill(row.attributes, NoAttributes) = row.attributes
  BY FillAttributes DEF Rows
<1>2. SeedOf(p).displayName = p /\ SeedOf(p).attributes = NoAttributes
  BY DEF SeedOf
<1>3. new = [row EXCEPT !.aliases = aliases, !.attributes = row.attributes]
  BY <1>1, <1>2 DEF enrich
<1>4. row.aliases \subseteq aliases /\ aliases \in SUBSET Ids
  BY DEF Rows
<1>5. normalizeName[p] \notin nameKeys(row) => p \in aliases
  OBVIOUS
<1>6. normalizeName[p] \in nameKeys(row) => aliases = row.aliases
  OBVIOUS
<1> HIDE DEF aliases
<1>7. /\ new \in Rows /\ new.displayName = row.displayName
      /\ new.identityState = row.identityState /\ new.attributes = row.attributes
      /\ new.aliases = aliases
  BY <1>3, <1>4 DEF Rows
<1>8. aliases = row.aliases => new = row
  BY <1>3 DEF Rows
<1> HIDE DEF new
<1>9. normalizeName[p] \in nameKeys(new)
  BY <1>4, <1>5, <1>7 DEF nameKeys
<1> QED BY <1>4, <1>6, <1>7, <1>8, <1>9 DEF new
-----------------------------------------------------------------------------
(* What a step may do to the directory. *)

DirectoryOK == DOMAIN directory \subseteq Ids /\ \A p \in DOMAIN directory : directory[p] \in Rows

\* Rows stay, with their names and states, and lose aliases only when overtaken.
Kept ==
    /\ DOMAIN directory \subseteq DOMAIN directory'
    /\ overtaken \subseteq overtaken'
    /\ \A p \in DOMAIN directory :
          /\ directory'[p].displayName = directory[p].displayName
          /\ directory'[p].identityState = directory[p].identityState
          /\ directory[p].aliases \subseteq directory'[p].aliases \/ p \in overtaken'

\* Attributes are lost only when overtaken, too.
AnswersKept ==
    \A p \in DOMAIN directory :
        \/ p \in overtaken'
        \/ \A k \in DOMAIN directory[p].attributes :
              /\ k \in DOMAIN directory'[p].attributes
              /\ directory[p].attributes[k] = "known" => directory'[p].attributes[k] = "known"

\* A party made from the row it replaces adds to it.
Extends(new, old) ==
    /\ old.aliases \subseteq new.aliases
    /\ \A k \in DOMAIN old.attributes :
          /\ k \in DOMAIN new.attributes
          /\ old.attributes[k] = "known" => new.attributes[k] = "known"

LEMMA SaveKeeps ==
    ASSUME DirectoryOK, NEW p \in Ids, NEW party \in Rows, NEW read, save(p, party, read),
           p \in DOMAIN directory => /\ party.displayName = directory[p].displayName
                                     /\ party.identityState = directory[p].identityState,
           p \in DOMAIN directory /\ directory[p] = read => Extends(party, directory[p])
    PROVE  /\ Kept /\ AnswersKept /\ DirectoryOK'
           /\ DOMAIN directory' = DOMAIN directory \cup {p} /\ directory'[p] = party
           /\ \A q \in DOMAIN directory \ {p} : directory'[q] = directory[q]
<1>1. /\ DOMAIN directory' = DOMAIN directory \cup {p} /\ directory'[p] = party
      /\ \A q \in DOMAIN directory \ {p} : directory'[q] = directory[q]
  BY DEF save, Put
<1>2. overtaken \subseteq overtaken' /\ (p \in DOMAIN directory => directory[p] = read \/ p \in overtaken')
  BY DEF save
<1>3. DirectoryOK'
  BY <1>1 DEF DirectoryOK
<1>4. Kept
  BY <1>1, <1>2 DEF Kept, Extends
<1>5. AnswersKept
  BY <1>1, <1>2 DEF AnswersKept, Extends
<1> QED BY <1>1, <1>3, <1>4, <1>5

\* A step that saves nothing.
LEMMA SameDirectory ==
    ASSUME DirectoryOK, UNCHANGED <<directory, overtaken>>
    PROVE  Kept /\ AnswersKept /\ DirectoryOK'
BY DEF DirectoryOK, Kept, AnswersKept

\* A name a party answers to, it answers to afterwards, unless it was overtaken.
LEMMA NamesKept ==
    ASSUME Kept, NEW p \in DOMAIN directory, NEW key \in nameKeys(directory[p])
    PROVE  key \in nameKeys(directory'[p]) \/ p \in overtaken'
BY DEF Kept, nameKeys
-----------------------------------------------------------------------------
(* The invariant. *)

\* A copy of a row agrees with it in what never changes.
CopyOf(row, p) ==
    /\ p \in DOMAIN directory /\ row \in Rows
    /\ row.displayName = directory[p].displayName
    /\ row.identityState = directory[p].identityState

\* The slot of a conversation holds a party that answers to what was said.
AnswerOK(a) ==
    /\ a.party \in DOMAIN directory
    /\ \/ a.mention = a.party
       \/ normalizeName[a.mention] \in nameKeys(directory[a.party])
       \/ a.party \in overtaken

AskedOK == /\ answer \in [Tabs -> [mention : Ids \cup {""}, party : Ids \cup {""}]]
           /\ asked \in [Tabs -> [mention : Ids \cup {""}, options : SUBSET Ids]]
           /\ \A t \in Tabs : asked[t] # Nothing => asked[t].mention \in Texts

\* The handler under way: the party it minted is named as the question was, and the row it
\* read is a copy whose answer to the question is not a known one.
ServerOK ==
    /\ server = Idle \/ server.op \in {"decided", "attribute"}
    /\ server.op = "decided" =>
          /\ server.tab \in Tabs /\ server.party \in DOMAIN directory
          /\ asked[server.tab].mention \in Texts
          /\ directory[server.party].displayName = asked[server.tab].mention
    /\ server.op = "attribute" =>
          /\ CopyOf(server.read, server.party)
          /\ server.key \in Questions /\ server.state \in {"known", "declined"}
          /\ server.key \in DOMAIN server.read.attributes =>
                server.read.attributes[server.key] # "known"

\* The import under way: nobody else creates the rows it found missing, the row it has read is
\* a copy that has lost nothing, and a party it has done answers to its seed's name.
ImportOK ==
    /\ import = Idle \/ import.op \in {"run", "read"}
    /\ import.op \in {"run", "read"} =>
          /\ import.todo \subseteq Ids /\ import.todo \subseteq DOMAIN directory \cup Texts
          /\ \A p \in import.done :
                /\ p \in DOMAIN directory
                /\ normalizeName[p] \in nameKeys(directory[p]) \/ p \in overtaken
    /\ import.op = "read" =>
          /\ import.seed \in Ids
          /\ \/ import.read = None /\ import.seed \in Texts \ DOMAIN directory
             \/ /\ CopyOf(import.read, import.seed)
                /\ \/ import.read.aliases \subseteq directory[import.seed].aliases
                   \/ import.seed \in overtaken

\* The book names parties of the directory, and says of them what it says.
BookOK ==
    /\ DOMAIN book \subseteq DOMAIN directory \cup Legacy
    /\ \A p \in DOMAIN book \ Legacy : book[p] = {directory[p].identityState = "unidentifiable"}

PartiesInv ==
    /\ DirectoryOK /\ AskedOK /\ ServerOK /\ ImportOK /\ BookOK
    /\ \A t \in Tabs : answer[t] # Blank => AnswerOK(answer[t])

LEMMA CopyKept ==
    ASSUME Kept, NEW row, NEW p, CopyOf(row, p)
    PROVE  CopyOf(row, p)'
BY DEF Kept, CopyOf

LEMMA AnswerStays ==
    ASSUME Kept, NEW a, AnswerOK(a)
    PROVE  AnswerOK(a)'
BY NamesKept DEF AnswerOK, Kept

LEMMA AnswersStay ==
    ASSUME Kept, PartiesInv, UNCHANGED answer
    PROVE  \A t \in Tabs : answer'[t] # Blank => AnswerOK(answer[t])'
BY AnswerStays DEF PartiesInv, AnswerOK

LEMMA BookStays ==
    ASSUME Kept, PartiesInv, UNCHANGED book
    PROVE  BookOK'
BY DEF PartiesInv, BookOK, Kept

LEMMA ServerStays ==
    ASSUME Kept, PartiesInv, UNCHANGED <<server, asked>>
    PROVE  ServerOK'
<1>1. server.op = "attribute" => CopyOf(server.read, server.party)'
  BY CopyKept DEF PartiesInv, ServerOK, CopyOf
<1> QED BY <1>1 DEF PartiesInv, ServerOK, Kept

\* Nobody but the import creates a row whose id is a text.
LEMMA ImportStays ==
    ASSUME Kept, PartiesInv, UNCHANGED import, DOMAIN directory' \cap Texts \subseteq DOMAIN directory
    PROVE  ImportOK'
<1>1. import.op \in {"run", "read"} =>
        \A p \in import.done :
            p \in DOMAIN directory' /\ (normalizeName[p] \in nameKeys(directory'[p]) \/ p \in overtaken')
  BY NamesKept DEF PartiesInv, ImportOK, Kept
<1>2. ASSUME import.op = "read", CopyOf(import.read, import.seed)
      PROVE  CopyOf(import.read, import.seed)'
  BY <1>2, CopyKept DEF CopyOf
<1>3. import.op = "read" =>
          /\ import.seed \in Ids
          /\ \/ import.read = None /\ import.seed \in Texts \ DOMAIN directory'
             \/ /\ CopyOf(import.read, import.seed)'
                /\ \/ import.read.aliases \subseteq directory'[import.seed].aliases
                   \/ import.seed \in overtaken'
  BY <1>2 DEF PartiesInv, ImportOK, Kept, CopyOf
<1> QED BY <1>1, <1>3 DEF PartiesInv, ImportOK, Kept
-----------------------------------------------------------------------------
(* One lemma per operation. *)

\* What a step shows: the directory keeps what it has, and the invariant.
Good == Kept /\ AnswersKept /\ PartiesInv'

\* An exact resolution names a party that answers to the mention.
LEMMA ExactAnswers ==
    ASSUME NEW mention, NEW p \in recordableId(resolveParty(mention))
    PROVE  AnswerOK([mention |-> mention, party |-> p])
BY DEF recordableId, resolveParty, AnswerOK

\* A conversation's slot and question change, and nothing else.
LEMMA SlotMoves ==
    ASSUME PartiesInv, NEW t \in Tabs, NEW a, NEW q,
           a \in [mention : Ids \cup {""}, party : Ids \cup {""}], a # Blank => AnswerOK(a),
           q \in [mention : Ids \cup {""}, options : SUBSET Ids], q # Nothing => q.mention \in Texts,
           answer' = [answer EXCEPT ![t] = a], asked' = [asked EXCEPT ![t] = q],
           server = Idle, UNCHANGED <<directory, server, import, book, overtaken>>
    PROVE  Good
<1>1. Kept /\ AnswersKept /\ DirectoryOK'
  BY SameDirectory DEF PartiesInv
<1>2. AskedOK'
  BY DEF PartiesInv, AskedOK
<1>3. ServerOK'
  BY DEF PartiesInv, ServerOK, Idle
<1>4. ImportOK' /\ BookOK'
  BY <1>1, ImportStays, BookStays
<1>5. ASSUME NEW u \in Tabs, answer'[u] # Blank PROVE AnswerOK(answer[u])'
  <2>1. CASE u = t
    <3>1. answer'[u] = a
      BY <2>1 DEF PartiesInv, AskedOK
    <3>2. AnswerOK(a)'
      BY <1>1, <1>5, <3>1, AnswerStays
    <3> QED BY <3>1, <3>2 DEF AnswerOK
  <2>2. CASE u # t
    <3>1. answer'[u] = answer[u] /\ AnswerOK(answer[u])
      BY <1>5, <2>2 DEF PartiesInv, AskedOK
    <3> QED BY <1>1, <3>1, AnswerStays DEF AnswerOK
  <2> QED BY <2>1, <2>2
<1> QED BY <1>1, <1>2, <1>3, <1>4, <1>5 DEF Good, PartiesInv

LEMMA NothingTyped ==
    /\ Nothing \in [mention : Ids \cup {""}, options : SUBSET Ids]
    /\ Blank \in [mention : Ids \cup {""}, party : Ids \cup {""}]
BY DEF Nothing, Blank

LEMMA SayGood ==
    ASSUME PartiesInv, NEW t \in Tabs, NEW mention \in Texts, Say(t, mention)
    PROVE  Good
<1>0. mention \in Ids /\ UNCHANGED <<directory, server, import, book, overtaken>> /\ server = Idle
  BY DEF Say, Ids
<1>1. ASSUME NEW p \in recordableId(resolveParty(mention)),
             answer' = [answer EXCEPT ![t] = [mention |-> mention, party |-> p]],
             asked' = [asked EXCEPT ![t] = Nothing]
      PROVE  Good
  <2> DEFINE a == [mention |-> mention, party |-> p]
  <2>1. AnswerOK(a)
    BY ExactAnswers
  <2>2. p \in Ids
    BY <2>1 DEF AnswerOK, PartiesInv, DirectoryOK
  <2>3. a \in [mention : Ids \cup {""}, party : Ids \cup {""}]
    BY <1>0, <2>2
  <2> HIDE DEF a
  <2> QED BY <1>0, <1>1, <2>1, <2>3, NothingTyped, SlotMoves DEF a
<1>2. ASSUME asked' = [asked EXCEPT ![t] = [mention |-> mention,
                                            options |-> resolveParty(mention).candidates]],
             UNCHANGED answer
      PROVE  Good
  <2> DEFINE q == [mention |-> mention, options |-> resolveParty(mention).candidates]
  <2>1. resolveParty(mention).candidates \subseteq Ids
    BY DEF resolveParty, PartiesInv, DirectoryOK
  <2>2. q \in [mention : Ids \cup {""}, options : SUBSET Ids] /\ q.mention \in Texts
    BY <1>0, <2>1
  <2> HIDE DEF q
  <2>3. answer' = [answer EXCEPT ![t] = answer[t]]
    BY <1>2 DEF PartiesInv, AskedOK
  <2>4. answer[t] \in [mention : Ids \cup {""}, party : Ids \cup {""}]
        /\ (answer[t] # Blank => AnswerOK(answer[t]))
    BY DEF PartiesInv, AskedOK
  <2> QED BY <1>0, <1>2, <2>2, <2>3, <2>4, SlotMoves DEF q
<1> QED BY <1>1, <1>2 DEF Say

LEMMA SelectGood ==
    ASSUME PartiesInv, NEW t \in Tabs, NEW p \in Ids, Select(t, p)
    PROVE  Good
<1>1. PICK found \in recordableId(resolveParty(p)) :
        answer' = [answer EXCEPT ![t] = [mention |-> p, party |-> found]]
  BY DEF Select
<1> DEFINE a == [mention |-> p, party |-> found]
<1>2. AnswerOK(a)
  BY ExactAnswers
<1>3. found \in Ids
  BY <1>2 DEF AnswerOK, PartiesInv, DirectoryOK
<1>4. a \in [mention : Ids \cup {""}, party : Ids \cup {""}]
  BY <1>3
<1> HIDE DEF a
<1> QED BY <1>1, <1>2, <1>4, NothingTyped, SlotMoves DEF a, Select

LEMMA DecideGood ==
    ASSUME PartiesInv, NEW t \in Tabs, NEW id \in Minted,
           NEW state \in {"identified", "unidentifiable"}, Decide(t, id, state)
    PROVE  Good
<1> DEFINE party == newParty(state, asked[t].mention)
<1>0. /\ id \in Ids \ DOMAIN directory /\ asked[t].mention \in Texts
      /\ asked[t].mention \in Ids /\ save(id, party, None)
  BY DEF Decide, Ids, PartiesInv, AskedOK
<1>1. party \in Rows /\ party.displayName = asked[t].mention
  BY <1>0, NewPartyTyped
<1> HIDE DEF party
<1>2. /\ Kept /\ AnswersKept /\ DirectoryOK'
      /\ DOMAIN directory' = DOMAIN directory \cup {id} /\ directory'[id] = party
  BY <1>0, <1>1, SaveKeeps DEF PartiesInv
<1>3. UNCHANGED <<answer, asked, import, book>> /\ server' = [op |-> "decided", tab |-> t, party |-> id]
  BY DEF Decide
<1>4. ServerOK'
  BY <1>0, <1>1, <1>2, <1>3 DEF ServerOK
<1>5. DOMAIN directory' \cap Texts \subseteq DOMAIN directory
  BY <1>2, PartiesAssumption
<1>6. ImportOK' /\ BookOK'
  BY <1>2, <1>3, <1>5, ImportStays, BookStays
<1>7. AskedOK'
  BY <1>3 DEF PartiesInv, AskedOK
<1>8. \A u \in Tabs : answer'[u] # Blank => AnswerOK(answer[u])'
  BY <1>2, <1>3, AnswersStay
<1> QED BY <1>2, <1>4, <1>6, <1>7, <1>8 DEF Good, PartiesInv

LEMMA DecideRecordsGood ==
    ASSUME PartiesInv, DecideRecords
    PROVE  Good
<1> DEFINE t == server.tab
<1> DEFINE a == [mention |-> asked[t].mention, party |-> server.party]
<1>0. /\ t \in Tabs /\ server.party \in DOMAIN directory /\ asked[t].mention \in Texts
      /\ directory[server.party].displayName = asked[t].mention
  BY DEF PartiesInv, ServerOK, DecideRecords
<1>1. AnswerOK(a)
  BY <1>0 DEF AnswerOK, nameKeys
<1>2. a \in [mention : Ids \cup {""}, party : Ids \cup {""}]
  BY <1>0 DEF PartiesInv, DirectoryOK, Ids
<1>3. /\ answer' = [answer EXCEPT ![t] = a] /\ asked' = [asked EXCEPT ![t] = Nothing]
      /\ server' = Idle /\ UNCHANGED <<directory, import, book, overtaken>>
  BY DEF DecideRecords
<1> HIDE DEF a
<1>4. Kept /\ AnswersKept /\ DirectoryOK'
  BY <1>3, SameDirectory DEF PartiesInv
<1>5. AskedOK'
  BY <1>0, <1>2, <1>3, NothingTyped DEF PartiesInv, AskedOK
<1>6. ServerOK'
  BY <1>3 DEF ServerOK, Idle
<1>7. ImportOK' /\ BookOK'
  BY <1>3, <1>4, ImportStays, BookStays
<1>8. ASSUME NEW u \in Tabs, answer'[u] # Blank PROVE AnswerOK(answer[u])'
  <2>1. CASE u = t
    <3>1. answer'[u] = a
      BY <1>3, <2>1 DEF PartiesInv, AskedOK
    <3> QED BY <1>1, <1>3, <3>1 DEF AnswerOK
  <2>2. CASE u # t
    <3>1. answer'[u] = answer[u] /\ AnswerOK(answer[u])
      BY <1>3, <1>8, <2>2 DEF PartiesInv, AskedOK
    <3> QED BY <1>4, <3>1, AnswerStays DEF AnswerOK
  <2> QED BY <2>1, <2>2
<1> QED BY <1>4, <1>5, <1>6, <1>7, <1>8 DEF Good, PartiesInv

LEMMA AttributeReadGood ==
    ASSUME PartiesInv, NEW t \in Tabs, NEW key \in Questions, NEW state \in {"known", "declined"},
           AttributeRead(t, key, state)
    PROVE  Good
<1> DEFINE p == answer[t].party
<1>0. /\ p \in DOMAIN directory /\ directory[p] \in Rows
      /\ key \in DOMAIN directory[p].attributes => directory[p].attributes[key] # "known"
      /\ server' = [op |-> "attribute", party |-> p, key |-> key, state |-> state, read |-> directory[p]]
      /\ UNCHANGED <<directory, answer, asked, import, book, overtaken>>
  BY DEF AttributeRead, PartiesInv, DirectoryOK
<1> HIDE DEF p
<1>1. Kept /\ AnswersKept /\ DirectoryOK'
  BY <1>0, SameDirectory DEF PartiesInv
<1>2. ServerOK'
  BY <1>0 DEF ServerOK, CopyOf
<1>3. ImportOK' /\ BookOK' /\ \A u \in Tabs : answer'[u] # Blank => AnswerOK(answer[u])'
  BY <1>0, <1>1, ImportStays, BookStays, AnswersStay
<1>4. AskedOK'
  BY <1>0 DEF PartiesInv, AskedOK
<1> QED BY <1>1, <1>2, <1>3, <1>4 DEF Good, PartiesInv

LEMMA AttributeSavesGood ==
    ASSUME PartiesInv, AttributeSaves
    PROVE  Good
<1> DEFINE p == server.party
<1> DEFINE read == server.read
<1> DEFINE party == [read EXCEPT !.attributes = Put(read.attributes, server.key, server.state)]
<1>0. /\ CopyOf(read, p) /\ p \in DOMAIN directory /\ p \in Ids /\ read \in Rows
      /\ server.key \in Questions /\ server.state \in {"known", "declined"}
      /\ server.key \in DOMAIN read.attributes => read.attributes[server.key] # "known"
  BY DEF PartiesInv, ServerOK, AttributeSaves, CopyOf, DirectoryOK
<1>1. read.attributes \in Attributes
  BY <1>0 DEF Rows
<1> DEFINE new == Put(read.attributes, server.key, server.state)
<1>2. /\ new \in Attributes /\ DOMAIN new = DOMAIN read.attributes \cup {server.key}
      /\ \A x \in DOMAIN read.attributes : x # server.key => new[x] = read.attributes[x]
  BY <1>0, <1>1, PutAttribute
<1>3. save(p, party, read) /\ server' = Idle /\ UNCHANGED <<answer, asked, import, book>>
  BY DEF AttributeSaves
<1> HIDE DEF new
<1>4. /\ party \in Rows /\ party.displayName = read.displayName
      /\ party.identityState = read.identityState /\ party.aliases = read.aliases
      /\ party.attributes = new
  BY <1>0, <1>2 DEF Rows, new
<1> HIDE DEF party, read, p
<1>5. Extends(party, read)
  BY <1>0, <1>2, <1>4 DEF Extends
<1>6. /\ Kept /\ AnswersKept /\ DirectoryOK' /\ DOMAIN directory' = DOMAIN directory
  BY <1>0, <1>3, <1>4, <1>5, SaveKeeps DEF PartiesInv, CopyOf
<1>7. ServerOK'
  BY <1>3 DEF ServerOK, Idle
<1>8. ImportOK' /\ BookOK' /\ \A u \in Tabs : answer'[u] # Blank => AnswerOK(answer[u])'
  BY <1>3, <1>6, ImportStays, BookStays, AnswersStay
<1>9. AskedOK'
  BY <1>3 DEF PartiesInv, AskedOK
<1> QED BY <1>6, <1>7, <1>8, <1>9 DEF Good, PartiesInv

\* What a fact discloses is what the directory holds.
LEMMA SubmitGood ==
    ASSUME PartiesInv, NEW t \in Tabs, Submit(t)
    PROVE  Good
<1> DEFINE p == answer[t].party
<1> DEFINE said == {Disclosed(p)} \cup (IF p \in DOMAIN book THEN book[p] ELSE {})
<1>0. /\ p \in DOMAIN directory /\ server = Idle /\ book' = Put(book, p, said)
      /\ answer' = [answer EXCEPT ![t] = Blank] /\ asked' = [asked EXCEPT ![t] = Nothing]
      /\ UNCHANGED <<directory, server, import, overtaken>>
  BY DEF Submit, PartiesInv, AnswerOK
<1>1. Kept /\ AnswersKept /\ DirectoryOK'
  BY <1>0, SameDirectory DEF PartiesInv
<1>2. AskedOK'
  BY <1>0, NothingTyped DEF PartiesInv, AskedOK
<1>3. ServerOK'
  BY <1>0 DEF ServerOK, Idle
<1>4. ImportOK'
  BY <1>0, <1>1, ImportStays
<1>5. BookOK'
  <2>1. p \notin Legacy => said = {directory[p].identityState = "unidentifiable"}
    BY <1>0 DEF PartiesInv, BookOK, Disclosed
  <2> HIDE DEF said, p
  <2>2. /\ DOMAIN book' = DOMAIN book \cup {p} /\ book'[p] = said
        /\ \A q \in DOMAIN book : q # p => book'[q] = book[q]
    BY <1>0 DEF Put
  <2>3. DOMAIN book' \subseteq DOMAIN directory' \cup Legacy
    BY <1>0, <2>2 DEF PartiesInv, BookOK
  <2>4. ASSUME NEW q \in DOMAIN book' \ Legacy
        PROVE  book'[q] = {directory'[q].identityState = "unidentifiable"}
    BY <1>0, <2>1, <2>2, <2>4 DEF PartiesInv, BookOK
  <2> QED BY <2>3, <2>4 DEF BookOK
<1>6. ASSUME NEW u \in Tabs, answer'[u] # Blank PROVE AnswerOK(answer[u])'
  <2>1. answer'[u] = answer[u] /\ AnswerOK(answer[u])
    BY <1>0, <1>6 DEF PartiesInv, AskedOK
  <2> QED BY <1>1, <2>1, AnswerStays DEF AnswerOK
<1> QED BY <1>1, <1>2, <1>3, <1>4, <1>5, <1>6 DEF Good, PartiesInv

LEMMA RestartGood ==
    ASSUME PartiesInv, ServerRestarts
    PROVE  Good
<1>1. Kept /\ AnswersKept /\ DirectoryOK'
  BY SameDirectory DEF PartiesInv, ServerRestarts
<1>2. AskedOK'
  BY NothingTyped DEF ServerRestarts, AskedOK
<1>3. ServerOK'
  BY DEF ServerRestarts, ServerOK, Idle
<1>4. ImportOK' /\ BookOK'
  BY <1>1, ImportStays, BookStays DEF ServerRestarts
<1>5. \A u \in Tabs : answer'[u] = Blank
  BY DEF ServerRestarts
<1> QED BY <1>1, <1>2, <1>3, <1>4, <1>5 DEF Good, PartiesInv

\* A step of the import that writes nothing.
LEMMA ImportOnly ==
    ASSUME PartiesInv, UNCHANGED <<directory, answer, asked, server, book, overtaken>>, ImportOK'
    PROVE  Good
<1>1. Kept /\ AnswersKept /\ DirectoryOK'
  BY SameDirectory DEF PartiesInv
<1>2. ServerOK' /\ BookOK' /\ \A u \in Tabs : answer'[u] # Blank => AnswerOK(answer[u])'
  BY <1>1, ServerStays, BookStays, AnswersStay
<1>3. AskedOK'
  BY DEF PartiesInv, AskedOK
<1> QED BY <1>1, <1>2, <1>3 DEF Good, PartiesInv

LEMMA ImportStartsGood ==
    ASSUME PartiesInv, ImportStarts
    PROVE  Good
<1>1. fetch \subseteq Ids /\ fetch \subseteq DOMAIN directory \cup Texts
  BY PartiesAssumption DEF fetch, PartiesInv, BookOK, DirectoryOK, Ids
<1>2. ImportOK'
  BY <1>1 DEF ImportStarts, ImportOK
<1> QED BY <1>2, ImportOnly DEF ImportStarts

LEMMA ImportReadGood ==
    ASSUME PartiesInv, NEW p \in Ids, ImportRead(p)
    PROVE  Good
<1>0. /\ import.op = "run" /\ p \in import.todo
      /\ import' = [op |-> "read", todo |-> import.todo \ {p}, done |-> import.done,
                    seed |-> p, read |-> findById(p)]
      /\ UNCHANGED <<directory, answer, asked, server, book, overtaken>>
  BY DEF ImportRead
<1>1. \/ findById(p) = None /\ p \in Texts \ DOMAIN directory
      \/ findById(p) = directory[p] /\ p \in DOMAIN directory /\ directory[p] \in Rows
  BY <1>0 DEF findById, PartiesInv, ImportOK, DirectoryOK
<1>2. /\ import.todo \subseteq Ids /\ import.todo \subseteq DOMAIN directory \cup Texts
      /\ \A q \in import.done :
            /\ q \in DOMAIN directory
            /\ normalizeName[q] \in nameKeys(directory[q]) \/ q \in overtaken
  BY <1>0 DEF PartiesInv, ImportOK
<1>3. ImportOK'
  <2>1. /\ import'.op = "read" /\ import'.todo \subseteq import.todo /\ import'.done = import.done
        /\ import'.seed = p /\ import'.read = findById(p)
    BY <1>0
  <2>2. \/ import'.read = None /\ import'.seed \in Texts \ DOMAIN directory'
        \/ /\ CopyOf(import.read, import.seed)'
           /\ import'.read.aliases \subseteq directory'[import'.seed].aliases
    BY <1>0, <1>1, <2>1 DEF CopyOf
  <2>3. \A q \in import'.done :
            /\ q \in DOMAIN directory'
            /\ normalizeName[q] \in nameKeys(directory'[q]) \/ q \in overtaken'
    BY <1>0, <1>2, <2>1
  <2> QED BY <1>0, <1>2, <2>1, <2>2, <2>3 DEF ImportOK
<1> QED BY <1>0, <1>3, ImportOnly

LEMMA ImportEndsGood ==
    ASSUME PartiesInv, ImportEnds
    PROVE  Good
<1>1. ImportOK'
  BY DEF ImportEnds, ImportOK, Idle
<1> QED BY <1>1, ImportOnly DEF ImportEnds

LEMMA ImportSavesGood ==
    ASSUME PartiesInv, ImportSaves
    PROVE  Good
<1> DEFINE p == import.seed
<1> DEFINE read == import.read
<1> DEFINE party == IF read = None THEN build(SeedOf(p)) ELSE enrich(read, SeedOf(p))
<1>0. /\ import.op = "read" /\ p \in Ids
      /\ import' = [op |-> "run", todo |-> import.todo, done |-> import.done \cup {p}]
      /\ UNCHANGED <<answer, asked, server, book>>
  BY DEF ImportSaves, PartiesInv, ImportOK
<1>1. \/ read = None /\ p \in Texts \ DOMAIN directory
      \/ /\ CopyOf(read, p) /\ p \in DOMAIN directory /\ read \in Rows
         /\ read.aliases \subseteq directory[p].aliases \/ p \in overtaken
  BY <1>0 DEF PartiesInv, ImportOK, CopyOf
<1>2. \/ party = read /\ UNCHANGED <<directory, overtaken>>
      \/ party # read /\ save(p, party, read)
  BY DEF ImportSaves, SeedOf
<1>3. read = None => party \in Rows /\ party # read /\ normalizeName[p] \in nameKeys(party)
  BY <1>0, Built, NoneIsNoRow DEF nameKeys
<1>4. CopyOf(read, p) =>
        /\ party \in Rows /\ party.displayName = read.displayName
        /\ party.identityState = read.identityState /\ party.attributes = read.attributes
        /\ read.aliases \subseteq party.aliases /\ normalizeName[p] \in nameKeys(party)
  BY <1>0, Enriched, NoneIsNoRow DEF CopyOf
<1> HIDE DEF party, read, p
<1>5. /\ Kept /\ AnswersKept /\ DirectoryOK' /\ p \in DOMAIN directory'
      /\ normalizeName[p] \in nameKeys(directory'[p]) \/ p \in overtaken'
      /\ DOMAIN directory' \subseteq DOMAIN directory \cup {p}
  <2>1. CASE party = read /\ UNCHANGED <<directory, overtaken>>
    <3>1. CopyOf(read, p) /\ p \in DOMAIN directory
      BY <1>1, <1>3, <2>1
    <3>2. normalizeName[p] \in nameKeys(read)
      BY <1>4, <2>1, <3>1
    <3>3. normalizeName[p] \in nameKeys(directory[p]) \/ p \in overtaken
      BY <1>1, <1>3, <2>1, <3>1, <3>2 DEF CopyOf, nameKeys
    <3> QED BY <2>1, <3>1, <3>3, SameDirectory DEF PartiesInv
  <2>2. CASE save(p, party, read)
    <3>1. party \in Rows /\ normalizeName[p] \in nameKeys(party)
      BY <1>1, <1>3, <1>4
    <3>2. p \in DOMAIN directory => /\ party.displayName = directory[p].displayName
                                    /\ party.identityState = directory[p].identityState
      BY <1>1, <1>4 DEF CopyOf
    <3>3. p \in DOMAIN directory /\ directory[p] = read => Extends(party, directory[p])
      BY <1>1, <1>4 DEF Extends
    <3> QED BY <1>0, <2>2, <3>1, <3>2, <3>3, SaveKeeps DEF PartiesInv
  <2> QED BY <1>2, <2>1, <2>2
<1>6. ImportOK'
  <2>1. /\ import'.op = "run" /\ import'.todo = import.todo /\ import'.done = import.done \cup {p}
    BY <1>0
  <2>2. \A q \in import.done :
            q \in DOMAIN directory' /\ (normalizeName[q] \in nameKeys(directory'[q]) \/ q \in overtaken')
    BY <1>0, <1>5, NamesKept DEF PartiesInv, ImportOK, Kept
  <2>3. \A q \in import'.done :
            q \in DOMAIN directory' /\ (normalizeName[q] \in nameKeys(directory'[q]) \/ q \in overtaken')
    BY <1>5, <2>1, <2>2
  <2>4. import'.todo \subseteq Ids /\ import'.todo \subseteq DOMAIN directory' \cup Texts
    BY <1>0, <1>5, <2>1 DEF PartiesInv, ImportOK, Kept
  <2> QED BY <2>1, <2>3, <2>4 DEF ImportOK
<1>7. ServerOK' /\ BookOK' /\ \A u \in Tabs : answer'[u] # Blank => AnswerOK(answer[u])'
  BY <1>0, <1>5, ServerStays, BookStays, AnswersStay
<1>8. AskedOK'
  BY <1>0 DEF PartiesInv, AskedOK
<1> QED BY <1>5, <1>6, <1>7, <1>8 DEF Good, PartiesInv
-----------------------------------------------------------------------------
(* Theorems. *)

LEMMA PartiesStep == PartiesInv /\ [Next]_vars => Good
<1> SUFFICES ASSUME PartiesInv, [Next]_vars PROVE Good
  OBVIOUS
<1>1. ASSUME NEW t \in Tabs, Conversation(t) PROVE Good
  BY <1>1, SayGood, SelectGood, DecideGood, AttributeReadGood, SubmitGood DEF Conversation
<1>2. CASE Server
  BY <1>2, DecideRecordsGood, AttributeSavesGood, RestartGood DEF Server
<1>3. CASE Import
  BY <1>3, ImportStartsGood, ImportReadGood, ImportSavesGood, ImportEndsGood DEF Import
<1>4. CASE UNCHANGED vars
  <2>1. UNCHANGED <<directory, answer, asked, server, book, overtaken>> /\ UNCHANGED import
    BY <1>4 DEF vars
  <2>2. ImportOK'
    BY <2>1, SameDirectory, ImportStays DEF PartiesInv
  <2> QED BY <2>1, <2>2, ImportOnly
<1> QED BY <1>1, <1>2, <1>3, <1>4 DEF Next

LEMMA PartiesAtFirst == Init => PartiesInv
<1> SUFFICES ASSUME Init PROVE PartiesInv
  OBVIOUS
<1>1. DirectoryOK /\ ServerOK /\ ImportOK
  BY DEF Init, DirectoryOK, ServerOK, ImportOK, Idle
<1>2. BookOK /\ AskedOK
  BY NothingTyped DEF Init, BookOK, AskedOK
<1> QED BY <1>1, <1>2 DEF Init, PartiesInv

LEMMA PartiesInvariant == Spec => []PartiesInv
<1>1. PartiesInv /\ [Next]_vars => PartiesInv'
  BY PartiesStep DEF Good
<1> QED BY <1>1, PartiesAtFirst, PTL DEF Spec

\* No ghost parties: what a slot holds is a row that answers to what was said, and what the
\* book names the directory can identify.
THEOREM NoGhostParties == Spec => []NoGhosts
<1>1. PartiesInv => NoGhosts
  BY DEF PartiesInv, NoGhosts, AnswerOK, BookOK
<1> QED BY <1>1, PartiesInvariant, PTL

\* What a recorded fact disclosed of its counterparty's identity stays true.
THEOREM DisclosuresStayTrue == Spec => []DisclosureStaysTrue
<1>1. PartiesInv => DisclosureStaysTrue
  BY DEF PartiesInv, DisclosureStaysTrue, BookOK
<1> QED BY <1>1, PartiesInvariant, PTL

\* A seed the import has done, on a row no save overtook, has nothing left to bring.
THEOREM ImportsAreIdempotent == Spec => []ImportIdempotent
<1>1. PartiesInv => ImportIdempotent
  <2> SUFFICES ASSUME PartiesInv, import.op = "run", NEW p \in import.done
               PROVE  /\ p \in DOMAIN directory
                      /\ p \notin overtaken => enrich(directory[p], SeedOf(p)) = directory[p]
    BY DEF ImportIdempotent
  <2>1. /\ p \in DOMAIN directory /\ p \in Ids /\ directory[p] \in Rows
        /\ normalizeName[p] \in nameKeys(directory[p]) \/ p \in overtaken
    BY DEF PartiesInv, ImportOK, DirectoryOK
  <2> QED BY <2>1, Enriched
<1> QED BY <1>1, PartiesInvariant, PTL

\* A name, an alias or an answer is lost only by a save made from a row that another process
\* had replaced since it was read.
THEOREM NothingElseIsLost == Spec => LostOnlyWhenOvertaken
<1>1. PartiesInv /\ [Next]_vars =>
        [\A p \in DOMAIN directory :
            LET old == directory[p]  new == directory'[p] IN
            /\ p \in DOMAIN directory'
            /\ new.displayName = old.displayName
            /\ \/ /\ old.aliases \subseteq new.aliases
                  /\ \A k \in DOMAIN old.attributes :
                        k \in DOMAIN new.attributes
                        /\ (old.attributes[k] = "known" => new.attributes[k] = "known")
               \/ p \in overtaken']_vars
  <2> SUFFICES ASSUME PartiesInv, [Next]_vars, NEW p \in DOMAIN directory
               PROVE  LET old == directory[p]  new == directory'[p] IN
                      /\ p \in DOMAIN directory'
                      /\ new.displayName = old.displayName
                      /\ \/ /\ old.aliases \subseteq new.aliases
                            /\ \A k \in DOMAIN old.attributes :
                                  k \in DOMAIN new.attributes
                                  /\ (old.attributes[k] = "known" => new.attributes[k] = "known")
                         \/ p \in overtaken'
    OBVIOUS
  <2>1. Kept /\ AnswersKept
    BY PartiesStep DEF Good
  <2> QED BY <2>1 DEF Kept, AnswersKept
<1> QED BY <1>1, PartiesInvariant, PTL DEF Spec, LostOnlyWhenOvertaken
=============================================================================
