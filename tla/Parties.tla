------------------------------- MODULE Parties -------------------------------
(***************************************************************************)
(* The treasury's party directory: the cascade that resolves a mention     *)
(* (PartyResolution.ts), the decisions and answers that write to it from   *)
(* conversations (DecideIdentity.ts, RecordPartyAttribute.ts), and the     *)
(* import that seeds it from the book, a process of its own over the same  *)
(* SQLite file (run-seed.ts, ImportParties.ts).                            *)
(*                                                                         *)
(*   directory  party id |-> its row, replaced whole by every save;        *)
(*   answer     tab |-> what its PARTY slot holds, with the mention;       *)
(*   asked      tab |-> the identity question on its screen;               *)
(*   server     the handler under way: the server is one event loop, so a  *)
(*              handler is interrupted by the import and by nothing else;  *)
(*   import     the seeds to do and done, and the row it has read;         *)
(*   book       the ledger: counterparties of recorded facts, each with    *)
(*              the disclosure its candidate carried;                      *)
(*   overtaken  history: parties some save replaced with a copy older than *)
(*              what another process had written.                          *)
(*                                                                         *)
(* A text is its own literal: an id adopted from old events is the text    *)
(* that was written there.                                                 *)
(***************************************************************************)
EXTENDS Naturals, Sequences, FiniteSets

CONSTANTS
    Texts,           \* what operators call counterparties
    Minted,          \* ids DecideIdentity may mint; bounds the decisions
    Place,           \* id |-> its place in the order of party_id
    normalizeName,   \* text or id |-> comparison key
    Similar,         \* pairs of different keys at or above the similarity threshold
    Usina,           \* the usina's own id
    Legacy,          \* counterparties of events older than the directory
    Tabs,            \* conversations
    Admitting,       \* those whose slot has allowUnidentifiable
    Questions,       \* bound: the recommended attributes operators answer about
    MaxFacts,        \* bound: facts recorded
    MaxImports       \* bound: runs of the import

Ids == Texts \cup Minted

ASSUME PartiesAssumption ==
    /\ DOMAIN Place = Ids /\ Texts \cap Minted = {}
    /\ \A p, q \in Ids : Place[p] \in Nat /\ (Place[p] = Place[q] => p = q)
    /\ Usina \in Texts /\ Legacy \subseteq Texts
    /\ DOMAIN normalizeName = Ids
    /\ Admitting \subseteq Tabs /\ Questions \subseteq {"document", "type"}

VARIABLES directory, answer, asked, server, import, book, overtaken, imports

vars == <<directory, answer, asked, server, import, book, overtaken, imports>>

RECOMMENDED_ATTRIBUTES == <<"document", "type">>

Blank == [mention |-> "", party |-> ""]     \* an empty slot
Nothing == [mention |-> "", options |-> {}] \* no question on the screen
Idle == [op |-> "idle"]
NoAttributes == [k \in {} |-> "known"]

\* f with v at k, and f filled with what only g has.
Put(f, k, v) == [x \in DOMAIN f \cup {k} |-> IF x = k THEN v ELSE f[x]]
Fill(f, g) == [x \in DOMAIN f \cup DOMAIN g |-> IF x \in DOMAIN f THEN f[x] ELSE g[x]]

Init ==
    /\ directory = [p \in {} |-> NoAttributes]
    /\ answer = [t \in Tabs |-> Blank]
    /\ asked = [t \in Tabs |-> Nothing]
    /\ server = Idle
    /\ import = Idle
    /\ book = [p \in Legacy |-> {FALSE}]
    /\ overtaken = {}
    /\ imports = 0
-----------------------------------------------------------------------------
(* Reading the directory. *)

nameKeys(party) == {normalizeName[n] : n \in {party.displayName} \cup party.aliases}

\* Slip: the similarity rung also answers without asking.
recordableId_Similar(resolution) ==
    IF resolution.exact = {} /\ Cardinality(resolution.candidates) = 1
    THEN resolution.candidates ELSE resolution.exact

\* Only an exact rung may be written into the answers.
recordableId(resolution) == resolution.exact

\* The cascade as a conversation runs it: the id itself; the first party, by id, with that
\* name or alias; the parties with a similar one; nothing.  The exact rungs find at most one.
resolveParty(mention) ==
    LET key == normalizeName[mention]
        named == {p \in DOMAIN directory : key \in nameKeys(directory[p])}
        close == {p \in DOMAIN directory : \E k \in nameKeys(directory[p]) : {k, key} \in Similar}
    IN  [exact |-> IF mention \in DOMAIN directory THEN {mention}
                   ELSE {p \in named : \A q \in named : Place[p] <= Place[q]},
         candidates |-> close]

missing(party) == SelectSeq(RECOMMENDED_ATTRIBUTES, LAMBDA k : k \notin DOMAIN party.attributes)

isWorthAsking(party) == party.identityState = "identified" /\ missing(party) # <<>>

\* unidentifiedPartiesOf, for the one counterparty of a candidate.
Disclosed(p) == p \in DOMAIN directory /\ directory[p].identityState = "unidentifiable"
-----------------------------------------------------------------------------
(* Writing to it. *)

\* SqlitePartyRepository.save: the whole row.  "read" is the row the party was made from.
save(p, party, read) ==
    /\ directory' = Put(directory, p, party)
    /\ overtaken' = IF p \in DOMAIN directory /\ directory[p] # read
                    THEN overtaken \cup {p} ELSE overtaken

\* findById; None for a party that is not there.
None == [identityState |-> "none"]
findById(p) == IF p \in DOMAIN directory THEN directory[p] ELSE None

newParty(identityState, name) ==
    [identityState |-> identityState, displayName |-> name, aliases |-> {}, attributes |-> NoAttributes]

\* Slip: the import knows the party now, so it is identified.
enrich_Identifies(party, seed) ==
    [party EXCEPT !.identityState = "identified",
        !.aliases = IF normalizeName[seed.displayName] \in nameKeys(party) THEN @ ELSE @ \cup {seed.displayName},
        !.attributes = Fill(@, seed.attributes)]

\* Slip: what the source says becomes the name, and the old name an alias.
enrich_Swaps(party, seed) ==
    [party EXCEPT !.displayName = seed.displayName, !.aliases = @ \cup {party.displayName},
        !.attributes = Fill(@, seed.attributes)]

\* ImportParties: a name the party does not answer to becomes an alias, an attribute nobody
\* has answered is filled, nothing else changes.
enrich(party, seed) ==
    [party EXCEPT
        !.aliases = IF normalizeName[seed.displayName] \in nameKeys(party) THEN @ ELSE @ \cup {seed.displayName},
        !.attributes = Fill(@, seed.attributes)]

build(seed) == [newParty("identified", seed.displayName) EXCEPT !.attributes = seed.attributes]
-----------------------------------------------------------------------------
(* Conversations. *)

\* AdvanceDialog or ApplyAnswers on a PARTY slot: recorded when the mention resolves exactly,
\* otherwise left as it was and the client asks.
Say(t, mention) ==
    LET resolution == resolveParty(mention)
        found == recordableId(resolution)
    IN  /\ server = Idle
        /\ \/ /\ \E p \in found :
                    answer' = [answer EXCEPT ![t] = [mention |-> mention, party |-> p]]
              /\ asked' = [asked EXCEPT ![t] = Nothing]
           \/ /\ found = {}
              /\ asked' = [asked EXCEPT ![t] =
                        [mention |-> mention, options |-> resolution.candidates]]
              /\ UNCHANGED answer
        /\ UNCHANGED <<directory, server, import, book, overtaken, imports>>

\* decideIdentity with an option that names a party: an ordinary answer carrying its id.
Select(t, p) ==
    /\ server = Idle
    /\ p \in asked[t].options
    /\ \E found \in recordableId(resolveParty(p)) :
          answer' = [answer EXCEPT ![t] = [mention |-> p, party |-> found]]
    /\ asked' = [asked EXCEPT ![t] = Nothing]
    /\ UNCHANGED <<directory, server, import, book, overtaken, imports>>

\* DecideIdentity up to the save: a party is minted, whatever the directory has learnt since
\* the question was put.
Decide(t, id, identityState) ==
    /\ server = Idle
    /\ asked[t] # Nothing
    /\ id \in Minted \ DOMAIN directory
    /\ identityState = "unidentifiable" => t \in Admitting
    /\ save(id, newParty(identityState, asked[t].mention), None)
    /\ server' = [op |-> "decided", tab |-> t, party |-> id]
    /\ UNCHANGED <<answer, asked, import, book, imports>>

\* ... and the rest of it: the answer.
DecideRecords ==
    /\ server.op = "decided"
    /\ answer' = [answer EXCEPT ![server.tab] =
                    [mention |-> asked[server.tab].mention, party |-> server.party]]
    /\ asked' = [asked EXCEPT ![server.tab] = Nothing]
    /\ server' = Idle
    /\ UNCHANGED <<directory, import, book, overtaken, imports>>

\* RecordPartyAttribute, the read: the confirmation card's one question about a counterparty.
\* It may be an old card's, so the answer may be there already; a known one is kept.
AttributeRead(t, key, state) ==
    LET p == answer[t].party IN
    /\ server = Idle
    /\ p \in DOMAIN directory
    /\ isWorthAsking(directory[p]) \/ key \in DOMAIN directory[p].attributes
    /\ key \in DOMAIN directory[p].attributes => directory[p].attributes[key] # "known"
    /\ server' = [op |-> "attribute", party |-> p, key |-> key, state |-> state, read |-> directory[p]]
    /\ UNCHANGED <<directory, answer, asked, import, book, overtaken, imports>>

\* ... and the save.
AttributeSaves ==
    /\ server.op = "attribute"
    /\ save(server.party,
            [server.read EXCEPT !.attributes = Put(@, server.key, server.state)],
            server.read)
    /\ server' = Idle
    /\ UNCHANGED <<answer, asked, import, book, imports>>

\* SubmitIntent, accepted by the ledger; the conversation is over.
Submit(t) ==
    LET p == answer[t].party IN
    /\ server = Idle
    /\ answer[t] # Blank
    /\ Cardinality(DOMAIN book) < MaxFacts \/ p \in DOMAIN book
    /\ book' = Put(book, p, {Disclosed(p)} \cup (IF p \in DOMAIN book THEN book[p] ELSE {}))
    /\ answer' = [answer EXCEPT ![t] = Blank]
    /\ asked' = [asked EXCEPT ![t] = Nothing]
    /\ UNCHANGED <<directory, server, import, overtaken, imports>>

\* The server restarts, perhaps in the middle of a handler: intents are held in memory.
ServerRestarts ==
    /\ answer' = [t \in Tabs |-> Blank]
    /\ asked' = [t \in Tabs |-> Nothing]
    /\ server' = Idle
    /\ UNCHANGED <<directory, import, book, overtaken, imports>>
-----------------------------------------------------------------------------
(* The import. *)

\* LedgerPartySweepSource.fetch: the usina, and the counterparties the book names.
fetch == {Usina} \cup DOMAIN book

SeedOf(p) == [partyId |-> p, displayName |-> p, attributes |-> NoAttributes]

ImportStarts ==
    /\ import = Idle
    /\ imports < MaxImports
    /\ import' = [op |-> "run", todo |-> fetch, done |-> {}]
    /\ imports' = imports + 1
    /\ UNCHANGED <<directory, answer, asked, server, book, overtaken>>

\* findById of the next seed: the usina first, the others in the order of the movements.
ImportRead(p) ==
    /\ import.op = "run"
    /\ p \in import.todo
    /\ Usina \in import.todo => p = Usina
    /\ import' = [op |-> "read", todo |-> import.todo \ {p}, done |-> import.done,
                  seed |-> p, read |-> findById(p)]
    /\ UNCHANGED <<directory, answer, asked, server, book, overtaken, imports>>

\* ... and its save, unless the seed brings nothing new.
ImportSaves ==
    /\ import.op = "read"
    /\ LET read == import.read
           seed == SeedOf(import.seed)
           party == IF read = None THEN build(seed) ELSE enrich(read, seed)
       IN  IF party = read
           THEN UNCHANGED <<directory, overtaken>>
           ELSE save(seed.partyId, party, read)
    /\ import' = [op |-> "run", todo |-> import.todo, done |-> import.done \cup {import.seed}]
    /\ UNCHANGED <<answer, asked, server, book, imports>>

\* It ends, or is killed between two statements.
ImportEnds ==
    /\ import.op \in {"run", "read"}
    /\ import' = Idle
    /\ UNCHANGED <<directory, answer, asked, server, book, overtaken, imports>>
-----------------------------------------------------------------------------
Conversation(t) ==
    \/ \E mention \in Texts : Say(t, mention)
    \/ \E p \in Ids : Select(t, p)
    \/ \E id \in Minted, s \in {"identified", "unidentifiable"} : Decide(t, id, s)
    \/ \E key \in Questions, s \in {"known", "declined"} : AttributeRead(t, key, s)
    \/ Submit(t)

Server == DecideRecords \/ AttributeSaves \/ ServerRestarts

Import == ImportStarts \/ (\E p \in Ids : ImportRead(p)) \/ ImportSaves \/ ImportEnds

Next == (\E t \in Tabs : Conversation(t)) \/ Server \/ Import

Spec == Init /\ [][Next]_vars
-----------------------------------------------------------------------------
(* Properties. *)

\* No ghost parties: whatever the restarts, the races with the import and the order of the
\* saves, what a PARTY slot holds is a row of the directory that answers to what was said,
\* and a counterparty of a recorded fact is one the directory can identify, unless the fact
\* is older than the directory.  (Only a row that was overtaken may have lost the name.)
NoGhosts ==
    /\ \A t \in Tabs : answer[t] # Blank =>
        LET p == answer[t].party IN
        /\ p \in DOMAIN directory
        /\ \/ answer[t].mention = p
           \/ normalizeName[answer[t].mention] \in nameKeys(directory[p])
           \/ p \in overtaken
    /\ DOMAIN book \subseteq DOMAIN directory \cup Legacy

\* What the confirmed card disclosed stays true: the directory never comes to hold a party
\* that a recorded fact calls unidentifiable as identified, or the other way round, though
\* the import adopts every counterparty of the book.
DisclosureStaysTrue ==
    \A p \in DOMAIN book \ Legacy : book[p] = {directory[p].identityState = "unidentifiable"}

\* The import overwrites nothing and the enrichment fills gaps: a name, an alias or an answer
\* about a party is lost only by a save made from a row that another process has replaced
\* since it was read.
LostOnlyWhenOvertaken ==
    [][\A p \in DOMAIN directory :
        LET old == directory[p]  new == directory'[p] IN
        /\ p \in DOMAIN directory'
        /\ new.displayName = old.displayName
        /\ \/ /\ old.aliases \subseteq new.aliases
              /\ \A k \in DOMAIN old.attributes :
                    k \in DOMAIN new.attributes /\ (old.attributes[k] = "known" => new.attributes[k] = "known")
           \/ p \in overtaken']_vars

\* Re-running the import changes nothing: a seed it has done, on a row no save overtook, has
\* nothing left to bring.
ImportIdempotent ==
    import.op = "run" =>
        \A p \in import.done :
            /\ p \in DOMAIN directory
            /\ p \notin overtaken => enrich(directory[p], SeedOf(p)) = directory[p]
==============================================================================
