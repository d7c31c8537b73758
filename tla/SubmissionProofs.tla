-------------------------- MODULE SubmissionProofs --------------------------
(***************************************************************************)
(* Theorems about Submission, for any scenarios offered, any directory,    *)
(* any number of treasury handlers, ledger slots and events, any staged    *)
(* commands and any faults (the refinement: with one handler, and without  *)
(* lost answers).                                                          *)
(***************************************************************************)
EXTENDS Submission, BookProofs, SequenceTheorems

(* What the variables are made of. *)

WriterFields == {"pc", "cmd", "related", "object", "previousHash", "recordedAt", "answer"}
RequestFields == {"pc", "caller", "cmd", "related"}
CallFields == {"pc", "intent", "copy", "plan", "chat"}
IntentFields == {"scenario", "status", "answers", "reference"}
TabFields == {"intent", "asked", "card", "fix", "busy"}

\* A map from D to records with these fields.
Table(f, D, fields) == f = [x \in D |-> f[x]] /\ \A x \in D : DOMAIN f[x] = fields

Shapes ==
    /\ book \in Seq(Range(book))
    /\ Table(writer, Writers, WriterFields)
    /\ Table(request, Writers, RequestFields)
    /\ Table(call, Calls, CallFields)
    /\ Table(intents, DOMAIN intents, IntentFields)
    /\ tab = [k \in TabFields |-> tab[k]]

\* Every intent has a reference left, those promised to restatements too; nobody speaks of an
\* intent not yet issued.
Counted ==
    /\ issued \in Nat /\ issued + Promised <= Len(Refs)
    /\ DOMAIN intents \subseteq 1 .. issued
    /\ about = [i \in 1 .. issued |-> about[i]]
    /\ tab.intent # None => tab.intent \in 1 .. issued

\* A handler that has posted holds its own copy of an intent the treasury has.
CallHolds(h) ==
    /\ call[h].pc \in {"quiet", "posted", "reissue"}
    /\ call[h].pc = "posted" => /\ call[h].intent \in DOMAIN intents
                                /\ DOMAIN call[h].copy = IntentFields
    /\ call[h].pc = "reissue" => call[h].plan # NoPlan

CallsHold == \A h \in Calls : CallHolds(h)

\* A request somebody waits for is the one its caller posted, of the caller's intent.
Answerable(w) ==
    request[w].caller # Nobody =>
        /\ request[w].caller \in Calls /\ request[w].pc # "free"
        /\ call[request[w].caller].pc = "posted"
        /\ request[w].cmd.ref = Refs[call[request[w].caller].intent]

Lines ==
    /\ \A w \in Writers : Answerable(w)
    /\ \A v, w \in Writers :
          v # w /\ request[v].caller # Nobody => request[v].caller # request[w].caller

\* A command's key is its source reference, and an intent's reference is used only once the
\* intent is issued.
Keyed(c) ==
    /\ c.commandId \in {NoKey, c.ref}
    /\ \A i \in DOMAIN Refs : c.ref = Refs[i] => i <= issued /\ c.commandId = c.ref

BookKeyed == \A e \in Ids(book) : Keyed(book[e].cmd)

\* What the ledger knows of a request it serves: execute() runs on its command, and an answer
\* that accepts it names an event with its source reference.
RequestHolds(w) ==
    request[w].pc # "free" =>
        /\ Keyed(request[w].cmd)
        /\ request[w].pc = "execute" =>
              writer[w].cmd = request[w].cmd /\ writer[w].related = request[w].related
        /\ request[w].pc = "done" /\ writer[w].answer.status = "accepted" =>
              /\ writer[w].answer.id \in Ids(book)
              /\ book[writer[w].answer.id].cmd.ref = request[w].cmd.ref

RequestsHold == \A w \in Writers : RequestHolds(w)

SubmitInv ==
    /\ Shapes /\ Counted /\ CallsHold /\ Lines /\ BookKeyed /\ RequestsHold /\ AcceptedIsRecorded

\* Whatever carries the reference of the intent i retracts the entry target.
Tracked(i, target) ==
    /\ \A w \in Writers : request[w].pc # "free" /\ request[w].cmd.ref = Refs[i] =>
          request[w].related = target /\ Carries(request[w].cmd, "RETRACTS")
    /\ \A e \in Ids(book) : book[e].cmd.ref = Refs[i] => Retracts(book, e, target)

Withdrawn(target) == \E r \in Ids(book) : Retracts(book, r, target)

\* The withdrawal of a rectification: while it is under way, no conversation shows its intent;
\* once it is accepted the entry is retracted.
WithdrawalHolds(h) ==
    LET target == call[h].plan.target IN
    call[h].plan # NoPlan =>
        /\ target # None
        /\ call[h].pc = "posted" => call[h].intent # tab.intent /\ Tracked(call[h].intent, target)
        /\ call[h].pc = "reissue" => Withdrawn(target)

RestateInv ==
    /\ \A h \in Calls : WithdrawalHolds(h)
    /\ \A i \in DOMAIN about : about[i].entry # None => Withdrawn(about[i].entry)
    /\ RestatedAfterRetraction

-----------------------------------------------------------------------------
(* The ledger's steps. *)

\* The locals of one execute() become r, which serves the same call.
Becomes(w, r) ==
    /\ writer' = [writer EXCEPT ![w] = r] /\ DOMAIN r = WriterFields
    /\ r.cmd = writer[w].cmd /\ r.related = writer[w].related

LEMMA GotoBecomes ==
    ASSUME Table(writer, Writers, WriterFields), NEW w \in Writers, NEW label, Goto(w, label)
    PROVE  \E r : Becomes(w, r) /\ r.pc = label
<1>1. PICK l : l = writer[w] /\ DOMAIN l = WriterFields
  BY DEF Table
<1> DEFINE r == [l EXCEPT !.pc = label]
<1>2. DOMAIN r = WriterFields /\ r.pc = label /\ r.cmd = l.cmd /\ r.related = l.related
  BY <1>1 DEF WriterFields
<1>3. writer' = [writer EXCEPT ![w] = r]
  BY <1>1 DEF Goto, Table
<1> HIDE DEF r
<1>4. Becomes(w, r)
  BY <1>1, <1>2, <1>3 DEF Becomes
<1> QED BY <1>2, <1>4

LEMMA AnswerBecomes ==
    ASSUME Table(writer, Writers, WriterFields), NEW w \in Writers, NEW answer, Answer(w, answer)
    PROVE  \E r : Becomes(w, r) /\ r.pc = "answered" /\ r.answer = answer
<1>1. PICK l : l = writer[w]
  OBVIOUS
<1> DEFINE r == Fresh("answered", l.cmd, l.related, answer)
<1>2. DOMAIN r = WriterFields /\ r.pc = "answered" /\ r.cmd = l.cmd /\ r.related = l.related /\ r.answer = answer
  BY DEF WriterFields, Fresh
<1>3. writer' = [writer EXCEPT ![w] = r]
  BY <1>1 DEF Answer, Table
<1> HIDE DEF r
<1>4. Becomes(w, r)
  BY <1>1, <1>2, <1>3 DEF Becomes
<1> QED BY <1>2, <1>4

LEMMA ConservationBecomes ==
    ASSUME Table(writer, Writers, WriterFields), NEW w \in Writers, NEW k, ToConservation(w, k)
    PROVE  \E r : Becomes(w, r) /\ r.pc # "answered"
<1>1. CASE Goto(w, "lastHash")
  BY <1>1, GotoBecomes
<1>2. ASSUME NEW j, writer' = [writer EXCEPT ![w].pc = "conserve", ![w].object = j]
      PROVE  \E r : Becomes(w, r) /\ r.pc # "answered"
  <2>1. PICK l : l = writer[w] /\ DOMAIN l = WriterFields
    BY DEF Table
  <2> DEFINE r == [l EXCEPT !.pc = "conserve", !.object = j]
  <2>2. DOMAIN r = WriterFields /\ r.pc = "conserve" /\ r.cmd = l.cmd /\ r.related = l.related
    BY <2>1 DEF WriterFields
  <2>3. writer' = [writer EXCEPT ![w] = r]
    BY <1>2, <2>1 DEF Table
  <2> HIDE DEF r
  <2>4. Becomes(w, r)
    BY <2>1, <2>2, <2>3 DEF Becomes
  <2> QED BY <2>2, <2>4
<1> QED BY <1>1, <1>2 DEF ToConservation

\* A step of execute() answers with the event of the caller's key, or adds the caller's event
\* and answers with it, or does neither.
Serves(w, r) ==
    /\ Becomes(w, r)
    /\ \/ /\ UNCHANGED book
          /\ r.pc = "answered" /\ r.answer.status = "accepted" => r.answer.id \in SameKey(r.cmd)
       \/ /\ SameKey(r.cmd) = {} /\ book' = Append(book, NewEvent(w))
          /\ r.pc = "answered" /\ r.answer = Accepted(Len(book) + 1)

LEMMA StepServes ==
    ASSUME Table(writer, Writers, WriterFields), NEW w \in Writers, Step(w)
    PROVE  \E r : Serves(w, r)
<1>1. ASSUME NEW label, label # "answered", Goto(w, label), UNCHANGED book PROVE \E r : Serves(w, r)
  BY <1>1, GotoBecomes DEF Serves
<1>2. ASSUME NEW why, Answer(w, Refused(why)), UNCHANGED book PROVE \E r : Serves(w, r)
  <2>1. PICK r : Becomes(w, r) /\ r.answer = Refused(why)
    BY <1>2, AnswerBecomes
  <2> QED BY <1>2, <2>1 DEF Serves, Refused
<1>3. ASSUME NEW k, ToConservation(w, k), UNCHANGED book PROVE \E r : Serves(w, r)
  BY <1>3, ConservationBecomes DEF Serves
<1>4. ASSUME LookupCommand(w) PROVE \E r : Serves(w, r)
  <2>1. ASSUME NEW i \in SameKey(writer[w].cmd), Answer(w, Accepted(i)) PROVE \E r : Serves(w, r)
    <3>1. PICK r : Becomes(w, r) /\ r.pc = "answered" /\ r.answer = Accepted(i)
      BY <2>1, AnswerBecomes
    <3>2. UNCHANGED book /\ r.cmd = writer[w].cmd /\ r.answer.id = i
      BY <1>4, <3>1 DEF Accepted, Becomes, LookupCommand
    <3>3. r.answer.id \in SameKey(r.cmd)
      BY <2>1, <3>2
    <3> QED BY <3>1, <3>2, <3>3 DEF Serves
  <2> QED BY <1>1, <1>4, <2>1 DEF LookupCommand
<1>5. ASSUME ReadLastHash(w) PROVE \E r : Serves(w, r)
  <2>1. ASSUME NEW last, writer' = [writer EXCEPT ![w].pc = "save", ![w].previousHash = last,
                                                  ![w].recordedAt = clock]
        PROVE  \E r : Serves(w, r)
    <3>1. PICK l : l = writer[w] /\ DOMAIN l = WriterFields
      BY DEF Table
    <3> DEFINE r == [l EXCEPT !.pc = "save", !.previousHash = last, !.recordedAt = clock]
    <3>2. DOMAIN r = WriterFields /\ r.pc = "save" /\ r.cmd = l.cmd /\ r.related = l.related
      BY <3>1 DEF WriterFields
    <3>3. writer' = [writer EXCEPT ![w] = r]
      BY <2>1, <3>1 DEF Table
    <3> HIDE DEF r
    <3>4. Becomes(w, r)
      BY <3>1, <3>2, <3>3 DEF Becomes
    <3> QED BY <1>5, <3>2, <3>4 DEF Serves, ReadLastHash
  <2> QED BY <1>2, <1>5, <2>1 DEF ReadLastHash
<1>6. ASSUME Save(w) PROVE \E r : Serves(w, r)
  <2>1. CASE SameKey(writer[w].cmd) = {} /\ book' = Append(book, NewEvent(w)) /\ Answer(w, Accepted(Len(book) + 1))
    <3>1. PICK r : Becomes(w, r) /\ r.pc = "answered" /\ r.answer = Accepted(Len(book) + 1)
      BY <2>1, AnswerBecomes
    <3> QED BY <2>1, <3>1 DEF Serves, Becomes
  <2> QED BY <1>2, <1>6, <2>1 DEF Save
<1>7. ASSUME CheckSource(w) \/ LoadOrigin(w) \/ CheckRetractions(w) \/ CheckDepth(w) \/ CheckConservation(w)
      PROVE  \E r : Serves(w, r)
  BY <1>1, <1>2, <1>3, <1>7 DEF CheckSource, LoadOrigin, CheckRetractions, CheckDepth, CheckConservation
<1> QED BY <1>4, <1>5, <1>6, <1>7 DEF Step

\* An event has joined the book at its end.
Joined(e) ==
    /\ book' \in Seq(Range(book'))
    /\ Len(book) \in Nat /\ Ids(book) = 1 .. Len(book) /\ Ids(book)' = 1 .. Len(book) + 1
    /\ \A i \in Ids(book) : book'[i] = book[i]
    /\ book'[Len(book) + 1] = e

LEMMA InRange == ASSUME NEW s, NEW T, s \in Seq(T) PROVE s \in Seq(Range(s))
<1>1. Len(s) \in Nat /\ DOMAIN s = 1 .. Len(s) /\ s = [i \in 1 .. Len(s) |-> s[i]]
  OBVIOUS
<1>2. \A i \in 1 .. Len(s) : s[i] \in Range(s)
  BY <1>1 DEF Range
<1>3. PICK R : R = Range(s)
  OBVIOUS
<1>4. s \in Seq(R)
  BY <1>1, <1>2, <1>3, IsASeq
<1> QED BY <1>3, <1>4

LEMMA AppendJoins ==
    ASSUME book \in Seq(Range(book)), NEW e, book' = Append(book, e)
    PROVE  Joined(e)
<1>1. PICK T : T = Range(book) \cup {e}
  OBVIOUS
<1>2. PICK b : b = book
  OBVIOUS
<1>3. PICK R : R = Range(b)
  OBVIOUS
<1>4. b \in Seq(R) /\ R \subseteq T /\ e \in T
  BY <1>1, <1>2, <1>3
<1>5. b \in Seq(T)
  BY <1>4
<1>6. /\ Append(b, e) \in Seq(T) /\ Len(b) \in Nat /\ DOMAIN b = 1 .. Len(b)
      /\ DOMAIN Append(b, e) = 1 .. Len(b) + 1 /\ Append(b, e)[Len(b) + 1] = e
      /\ \A i \in 1 .. Len(b) : Append(b, e)[i] = b[i]
  BY <1>4, <1>5
<1>7. PICK n : n = Append(b, e)
  OBVIOUS
<1>8. n \in Seq(Range(n))
  BY <1>6, <1>7, InRange
<1> QED BY <1>2, <1>6, <1>7, <1>8 DEF Joined, Ids

\* What one step of the ledger does: it serves a request further, takes up a staged command, or
\* forgets an answer nobody waits for.
Carried(w, q, r) ==
    /\ request[w].pc \in {"lookup", "validate", "execute"} /\ q.pc \in {"validate", "execute", "done"}
    /\ request[w].pc = "lookup" =>
          \/ q.pc = "validate" /\ SameKey(q.cmd) = {}
          \/ q.pc = "done" /\ r.answer.status = "accepted"
    /\ q.caller = request[w].caller /\ q.cmd = request[w].cmd /\ q.related = request[w].related
    /\ q.pc = "execute" => r.cmd = q.cmd /\ r.related = q.related
    /\ \/ /\ UNCHANGED book
          /\ q.pc = "done" /\ r.answer.status = "accepted" => r.answer.id \in SameKey(q.cmd)
       \/ /\ request[w].pc = "execute" /\ SameKey(q.cmd) = {}
          /\ q.pc = "done" /\ r.answer = Accepted(Len(book) + 1)
          /\ \E e : Joined(e) /\ e.cmd = q.cmd /\ e.related = q.related

TakenUp(w, q, r) ==
    /\ request[w] = Free /\ UNCHANGED book
    /\ q.pc = "execute" /\ q.caller = Nobody /\ q.cmd \in Commands /\ q.related = None
    /\ r.cmd = q.cmd /\ r.related = q.related

Forgotten(w, q) == request[w].caller = Nobody /\ q = Free /\ UNCHANGED book

LedgerMoves(w, q, r) ==
    /\ UNCHANGED <<intents, issued, tab, call, about>>
    /\ request' = [request EXCEPT ![w] = q] /\ DOMAIN q = RequestFields
    /\ writer' = [writer EXCEPT ![w] = r] /\ DOMAIN r = WriterFields
    /\ Carried(w, q, r) \/ TakenUp(w, q, r) \/ Forgotten(w, q)

\* A request goes on to a label; it stays the same request.
Turns(w, label) == request' = [request EXCEPT ![w].pc = label]

Turned(w, q, label) ==
    /\ request' = [request EXCEPT ![w] = q] /\ DOMAIN q = RequestFields
    /\ q.pc = label /\ q.caller = request[w].caller
    /\ q.cmd = request[w].cmd /\ q.related = request[w].related

LEMMA RequestTurns ==
    ASSUME Table(request, Writers, RequestFields), NEW w \in Writers, NEW label, Turns(w, label)
    PROVE  \E q : Turned(w, q, label)
<1>1. PICK l : l = request[w] /\ DOMAIN l = RequestFields
  BY DEF Table
<1> DEFINE q == [l EXCEPT !.pc = label]
<1>2. DOMAIN q = RequestFields /\ q.pc = label /\ q.caller = l.caller /\ q.cmd = l.cmd /\ q.related = l.related
  BY <1>1 DEF RequestFields
<1>3. request' = [request EXCEPT ![w] = q]
  BY <1>1 DEF Table, Turns
<1> HIDE DEF q
<1>4. Turned(w, q, label)
  BY <1>1, <1>2, <1>3 DEF Turned
<1> QED BY <1>4

LEMMA LookupMoves ==
    ASSUME Shapes, NEW w \in Writers, SubmitLookup(w)
    PROVE  \E q, r : LedgerMoves(w, q, r)
<1>0. Table(request, Writers, RequestFields) /\ Table(writer, Writers, WriterFields)
  BY DEF Shapes
<1>1. CASE SameKey(request[w].cmd) = {} /\ request' = [request EXCEPT ![w].pc = "validate"] /\ UNCHANGED writer
  <2>T. Turns(w, "validate")
    BY <1>0, <1>1 DEF Turns
  <2>1. PICK q : Turned(w, q, "validate")
    BY <1>0, <2>T, RequestTurns
  <2>2. PICK r : r = writer[w] /\ DOMAIN r = WriterFields
    BY <1>0 DEF Table
  <2>3. writer' = [writer EXCEPT ![w] = r]
    BY <1>0, <1>1, <2>2 DEF Table
  <2>4. request[w].pc = "lookup" /\ UNCHANGED book /\ SameKey(q.cmd) = {}
    BY <1>1, <2>1 DEF SubmitLookup, Turned
  <2>5. Carried(w, q, r)
    BY <2>1, <2>4 DEF Carried, Turned
  <2> QED BY <2>1, <2>2, <2>3, <2>5 DEF SubmitLookup, LedgerMoves, Turned
<1>2. ASSUME NEW id \in SameKey(request[w].cmd), writer' = [writer EXCEPT ![w].answer = Accepted(id)],
             request' = [request EXCEPT ![w].pc = "done"]
      PROVE  \E q, r : LedgerMoves(w, q, r)
  <2>T. Turns(w, "done")
    BY <1>0, <1>2 DEF Turns
  <2>1. PICK q : Turned(w, q, "done")
    BY <1>0, <2>T, RequestTurns
  <2>2. PICK l : l = writer[w] /\ DOMAIN l = WriterFields
    BY <1>0 DEF Table
  <2> DEFINE r == [l EXCEPT !.answer = Accepted(id)]
  <2>3. DOMAIN r = WriterFields /\ r.answer = Accepted(id)
    BY <2>2 DEF WriterFields
  <2>4. writer' = [writer EXCEPT ![w] = r]
    BY <1>0, <1>2, <2>2 DEF Table
  <2> HIDE DEF r
  <2>5. r.answer.status = "accepted" /\ r.answer.id \in SameKey(q.cmd)
    BY <1>2, <2>1, <2>3 DEF Accepted, Turned
  <2>6. Carried(w, q, r)
    BY <2>1, <2>5 DEF SubmitLookup, Carried, Turned
  <2> QED BY <2>1, <2>3, <2>4, <2>6 DEF SubmitLookup, LedgerMoves, Turned
<1> QED BY <1>1, <1>2 DEF SubmitLookup

LEMMA BeginIs ==
    ASSUME Table(writer, Writers, WriterFields), NEW w \in Writers, NEW c, NEW target, Begin(w, c, target)
    PROVE  \E r : /\ writer' = [writer EXCEPT ![w] = r] /\ DOMAIN r = WriterFields
                  /\ r.cmd = c /\ r.related = target
<1> DEFINE r == Fresh(IF c.commandId = NoKey THEN "source" ELSE "command", c, target, NoAnswer)
<1>1. writer' = [writer EXCEPT ![w] = r]
  BY DEF Begin
<1>2. DOMAIN r = WriterFields /\ r.cmd = c /\ r.related = target
  BY DEF Fresh, WriterFields
<1> HIDE DEF r
<1> QED BY <1>1, <1>2

LEMMA ValidateMoves ==
    ASSUME Shapes, NEW w \in Writers, SubmitValidate(w)
    PROVE  \E q, r : LedgerMoves(w, q, r)
<1>0. Table(request, Writers, RequestFields) /\ Table(writer, Writers, WriterFields)
  BY DEF Shapes
<1>1. CASE SourceTaken(request[w].cmd)
  <2>0. /\ writer' = [writer EXCEPT ![w].answer = Refused("duplicate source reference")]
        /\ request' = [request EXCEPT ![w].pc = "done"] /\ UNCHANGED book /\ request[w].pc = "validate"
        /\ UNCHANGED <<intents, issued, tab, call, about>>
    BY <1>1 DEF SubmitValidate
  <2>T. Turns(w, "done")
    BY <1>0, <2>0 DEF Turns
  <2>1. PICK q : Turned(w, q, "done")
    BY <1>0, <2>T, RequestTurns
  <2>2. PICK l : l = writer[w] /\ DOMAIN l = WriterFields
    BY <1>0 DEF Table
  <2>3. PICK a : a = Refused("duplicate source reference")
    OBVIOUS
  <2>4. a.status # "accepted"
    BY <2>3 DEF Refused
  <2> DEFINE r == [l EXCEPT !.answer = a]
  <2>6. DOMAIN r = WriterFields /\ r.answer = a
    BY <2>2 DEF WriterFields
  <2>7. writer' = [writer EXCEPT ![w] = r]
    BY <1>0, <2>0, <2>2, <2>3 DEF Table
  <2> HIDE DEF r
  <2>5. Carried(w, q, r)
    BY <2>0, <2>1, <2>4, <2>6 DEF Carried, Turned
  <2> QED BY <2>0, <2>1, <2>5, <2>6, <2>7 DEF LedgerMoves, Turned
<1>2. CASE ~SourceTaken(request[w].cmd)
  <2>0. /\ Begin(w, request[w].cmd, request[w].related) /\ request[w].pc = "validate"
        /\ request' = [request EXCEPT ![w].pc = "execute"] /\ UNCHANGED book
        /\ UNCHANGED <<intents, issued, tab, call, about>>
    BY <1>2 DEF SubmitValidate, Begin
  <2>T. Turns(w, "execute")
    BY <1>0, <2>0 DEF Turns
  <2>1. PICK q : Turned(w, q, "execute")
    BY <1>0, <2>T, RequestTurns
  <2>2. PICK c, target : c = request[w].cmd /\ target = request[w].related
    OBVIOUS
  <2>3. PICK r : /\ writer' = [writer EXCEPT ![w] = r] /\ DOMAIN r = WriterFields
                 /\ r.cmd = c /\ r.related = target
    BY <1>0, <2>0, <2>2, BeginIs
  <2>4. Carried(w, q, r)
    BY <2>0, <2>1, <2>2, <2>3 DEF Carried, Turned
  <2> QED BY <2>0, <2>1, <2>3, <2>4 DEF LedgerMoves, Turned
<1> QED BY <1>1, <1>2

LEMMA ExecuteMoves ==
    ASSUME Shapes, RequestsHold, NEW w \in Writers, SubmitExecute(w)
    PROVE  \E q, r : LedgerMoves(w, q, r)
<1>0. Table(request, Writers, RequestFields) /\ Table(writer, Writers, WriterFields) /\ book \in Seq(Range(book))
  BY DEF Shapes
<1>1. /\ request[w].pc = "execute" /\ Step(w) /\ UNCHANGED <<intents, issued, tab, call, about>>
      /\ request' = [request EXCEPT ![w].pc = IF writer'[w].pc = "answered" THEN "done" ELSE request[w].pc]
  BY <1>0 DEF SubmitExecute, Table
<1>2. PICK r : Serves(w, r)
  BY <1>0, <1>1, StepServes
<1>3. writer' = [writer EXCEPT ![w] = r] /\ DOMAIN r = WriterFields /\ writer'[w] = r
  BY <1>0, <1>2 DEF Serves, Becomes, Table
<1>4. r.cmd = request[w].cmd /\ r.related = request[w].related
  BY <1>1, <1>2 DEF RequestsHold, RequestHolds, Serves, Becomes
<1>5. PICK label : label = IF r.pc = "answered" THEN "done" ELSE "execute"
  OBVIOUS
<1>T. Turns(w, label)
  BY <1>0, <1>1, <1>3, <1>5 DEF Turns
<1>6. PICK q : Turned(w, q, label)
  BY <1>0, <1>T, RequestTurns
<1>7. CASE UNCHANGED book /\ (r.pc = "answered" /\ r.answer.status = "accepted" => r.answer.id \in SameKey(r.cmd))
  <2>1. Carried(w, q, r)
    BY <1>1, <1>4, <1>5, <1>6, <1>7 DEF Carried, Turned
  <2> QED BY <1>1, <1>3, <1>6, <2>1 DEF LedgerMoves, Turned
<1>8. CASE /\ SameKey(r.cmd) = {} /\ book' = Append(book, NewEvent(w))
           /\ r.pc = "answered" /\ r.answer = Accepted(Len(book) + 1)
  <2>1. PICK e : e = NewEvent(w)
    OBVIOUS
  <2>2. Joined(e)
    BY <1>0, <1>8, <2>1, AppendJoins
  <2>3. e.cmd = request[w].cmd /\ e.related = request[w].related
    BY <1>1, <2>1 DEF RequestsHold, RequestHolds, NewEvent
  <2>4. Carried(w, q, r)
    BY <1>1, <1>4, <1>5, <1>6, <1>8, <2>2, <2>3 DEF Carried, Turned
  <2> QED BY <1>1, <1>3, <1>6, <2>4 DEF LedgerMoves, Turned
<1> QED BY <1>2, <1>7, <1>8 DEF Serves

LEMMA LedgerStepMoves ==
    ASSUME Shapes, RequestsHold, NEW w \in Writers,
           Ledger(w) \/ \E c \in Commands : Stage(w, c)
    PROVE  \E q, r : LedgerMoves(w, q, r)
<1>0. Table(writer, Writers, WriterFields)
  BY DEF Shapes
<1>1. ASSUME NEW c \in Commands, Stage(w, c) PROVE \E q, r : LedgerMoves(w, q, r)
  <2> DEFINE q == [pc |-> "execute", caller |-> Nobody, cmd |-> c, related |-> None]
  <2>1. PICK r : /\ writer' = [writer EXCEPT ![w] = r] /\ DOMAIN r = WriterFields
                 /\ r.cmd = c /\ r.related = None
    BY <1>0, <1>1, BeginIs DEF Stage
  <2>2. DOMAIN q = RequestFields /\ q.pc = "execute" /\ q.caller = Nobody /\ q.cmd = c /\ q.related = None
    BY DEF RequestFields
  <2>3. request' = [request EXCEPT ![w] = q] /\ UNCHANGED <<intents, issued, tab, call, about>>
    BY <1>1 DEF Stage
  <2> HIDE DEF q
  <2>4. TakenUp(w, q, r)
    BY <1>1, <2>1, <2>2 DEF Stage, Begin, TakenUp
  <2> QED BY <2>1, <2>2, <2>3, <2>4 DEF LedgerMoves, Turned
<1>2. ASSUME Unread(w) PROVE \E q, r : LedgerMoves(w, q, r)
  <2>1. DOMAIN Free = RequestFields /\ DOMAIN Idle = WriterFields
    BY DEF Free, Idle, Fresh, RequestFields, WriterFields
  <2>2. LedgerMoves(w, Free, Idle)
    BY <1>2, <2>1 DEF Unread, LedgerMoves, Forgotten
  <2> QED BY <2>2
<1> QED BY <1>1, <1>2, LookupMoves, ValidateMoves, ExecuteMoves DEF Ledger

\* What a step leaves in the book stays as it is.
LEMMA MovesGrow ==
    ASSUME NEW w \in Writers, NEW q, NEW r, LedgerMoves(w, q, r)
    PROVE  Grows
<1>1. CASE UNCHANGED book
  BY <1>1 DEF Grows, Ids
<1>2. ASSUME NEW e, Joined(e) PROVE Grows
  BY <1>2 DEF Joined, Grows
<1> QED BY <1>1, <1>2 DEF LedgerMoves, Carried, TakenUp, Forgotten

LEMMA MovesShapes ==
    ASSUME Shapes, NEW w \in Writers, NEW q, NEW r, LedgerMoves(w, q, r)
    PROVE  Shapes'
<1>1. (book \in Seq(Range(book)))'
  <2>1. CASE UNCHANGED book
    BY <2>1 DEF Shapes
  <2>2. ASSUME NEW e, Joined(e) PROVE (book \in Seq(Range(book)))'
    BY <2>2 DEF Joined
  <2> QED BY <2>1, <2>2 DEF LedgerMoves, Carried, TakenUp, Forgotten
<1>2. Table(writer, Writers, WriterFields)'
  BY DEF Shapes, Table, LedgerMoves
<1>3. Table(request, Writers, RequestFields)'
  BY DEF Shapes, Table, LedgerMoves
<1>4. /\ Table(call, Calls, CallFields)' /\ Table(intents, DOMAIN intents, IntentFields)'
      /\ (tab = [k \in TabFields |-> tab[k]])'
  BY DEF Shapes, Table, LedgerMoves
<1> QED BY <1>1, <1>2, <1>3, <1>4 DEF Shapes

LEMMA MovesLines ==
    ASSUME Shapes, Lines, NEW w \in Writers, NEW q, NEW r, LedgerMoves(w, q, r)
    PROVE  Lines'
<1>0. /\ \A v \in Writers : v # w => request'[v] = request[v]
      /\ request'[w] = q /\ UNCHANGED <<call, intents>>
  BY DEF Shapes, Table, LedgerMoves
<1>1. /\ q.caller # Nobody => q.caller = request[w].caller /\ q.pc # "free" /\ q.cmd = request[w].cmd
  BY DEF LedgerMoves, Carried, TakenUp, Forgotten, Free
<1>2. ASSUME NEW v \in Writers PROVE Answerable(v)'
  BY <1>0, <1>1 DEF Lines, Answerable
<1>3. ASSUME NEW u \in Writers, NEW v \in Writers, u # v, request'[u].caller # Nobody
      PROVE  request'[u].caller # request'[v].caller
  BY <1>0, <1>1, <1>3 DEF Lines
<1> QED BY <1>2, <1>3 DEF Lines

\* Two commands with one key have one source reference.
LEMMA KeyIsRef ==
    ASSUME BookKeyed, NEW c, Keyed(c), NEW i \in SameKey(c)
    PROVE  i \in Ids(book) /\ book[i].cmd.ref = c.ref
BY DEF BookKeyed, Keyed, SameKey

LEMMA StagedKeyed ==
    ASSUME NEW c \in Commands
    PROVE  Keyed(c)
<1>1. c.commandId \in {NoKey, c.ref} /\ c.ref \notin Range(Refs)
  BY SubmissionAssumption
<1>2. \A i \in DOMAIN Refs : c.ref # Refs[i]
  BY <1>1 DEF Range
<1> QED BY <1>1, <1>2 DEF Keyed

LEMMA MovesKeyed ==
    ASSUME Shapes, BookKeyed, RequestsHold, NEW w \in Writers, NEW q, NEW r, LedgerMoves(w, q, r)
    PROVE  BookKeyed'
<1>1. CASE UNCHANGED book
  BY <1>1 DEF LedgerMoves, BookKeyed, Keyed, Ids
<1>2. ASSUME NEW e, Joined(e), e.cmd = q.cmd, Carried(w, q, r) PROVE BookKeyed'
  <2>1. Keyed(e.cmd)
    BY <1>2 DEF Carried, RequestsHold, RequestHolds
  <2>2. ASSUME NEW i \in Ids(book)' PROVE Keyed(book[i].cmd)'
    <3>1. i \in Ids(book) \/ i = Len(book) + 1
      BY <1>2 DEF Joined
    <3>2. Keyed(book'[i].cmd)
      BY <1>2, <2>1, <3>1 DEF Joined, BookKeyed
    <3> QED BY <3>2 DEF Keyed, LedgerMoves
  <2> QED BY <2>2 DEF BookKeyed
<1> QED BY <1>1, <1>2 DEF LedgerMoves, Carried, TakenUp, Forgotten

LEMMA MovesRequests ==
    ASSUME Shapes, BookKeyed, RequestsHold, NEW w \in Writers, NEW q, NEW r, LedgerMoves(w, q, r)
    PROVE  RequestsHold'
<1>0. /\ \A v \in Writers : v # w => request'[v] = request[v] /\ writer'[v] = writer[v]
      /\ request'[w] = q /\ writer'[w] = r /\ UNCHANGED issued
  BY DEF Shapes, Table, LedgerMoves
<1>1. Grows
  BY MovesGrow
<1>2. \A c : Keyed(c) => Keyed(c)'
  BY <1>0 DEF Keyed
<1>3. ASSUME NEW v \in Writers, v # w PROVE RequestHolds(v)'
  BY <1>0, <1>1, <1>2, <1>3 DEF RequestsHold, RequestHolds, Grows
<1>4. ASSUME Forgotten(w, q) PROVE RequestHolds(w)'
  BY <1>0, <1>4 DEF RequestHolds, Forgotten, Free
<1>5. ASSUME TakenUp(w, q, r) PROVE RequestHolds(w)'
  <2>1. Keyed(q.cmd)
    BY <1>5, StagedKeyed DEF TakenUp
  <2> QED BY <1>0, <1>2, <1>5, <2>1 DEF RequestHolds, TakenUp
<1>6. ASSUME Carried(w, q, r) PROVE RequestHolds(w)'
  <2>1. Keyed(q.cmd)
    BY <1>6 DEF Carried, RequestsHold, RequestHolds
  <2>2. q.pc = "execute" => r.cmd = q.cmd /\ r.related = q.related
    BY <1>6 DEF Carried
  <2>3. ASSUME q.pc = "done", r.answer.status = "accepted"
        PROVE  r.answer.id \in Ids(book)' /\ book'[r.answer.id].cmd.ref = q.cmd.ref
    <3>1. CASE UNCHANGED book /\ r.answer.id \in SameKey(q.cmd)
      <4>1. PICK i : i = r.answer.id
        OBVIOUS
      <4>2. PICK c : c = q.cmd
        OBVIOUS
      <4>3. i \in Ids(book) /\ book[i].cmd.ref = c.ref
        BY <2>1, <3>1, <4>1, <4>2, KeyIsRef
      <4> QED BY <1>1, <4>1, <4>2, <4>3 DEF Grows
    <3>2. ASSUME NEW e, Joined(e), e.cmd = q.cmd, r.answer = Accepted(Len(book) + 1)
          PROVE  r.answer.id \in Ids(book)' /\ book'[r.answer.id].cmd.ref = q.cmd.ref
      <4>1. r.answer.id = Len(book) + 1
        BY <3>2 DEF Accepted
      <4> QED BY <3>2, <4>1 DEF Joined
    <3> QED BY <1>6, <2>3, <3>1, <3>2 DEF Carried
  <2> QED BY <1>0, <1>2, <2>1, <2>2, <2>3 DEF RequestHolds
<1>7. \A v \in Writers : RequestHolds(v)'
  BY <1>3, <1>4, <1>5, <1>6 DEF LedgerMoves
<1> QED BY <1>7 DEF RequestsHold

LEMMA LedgerKeeps ==
    ASSUME SubmitInv, NEW w \in Writers, Ledger(w) \/ \E c \in Commands : Stage(w, c)
    PROVE  SubmitInv'
<1>0. /\ Shapes /\ Counted /\ CallsHold /\ Lines /\ BookKeyed /\ RequestsHold /\ AcceptedIsRecorded
  BY DEF SubmitInv
<1>1. PICK q, r : LedgerMoves(w, q, r)
  BY <1>0, LedgerStepMoves
<1>2. UNCHANGED <<intents, issued, tab, call, about>>
  BY <1>1 DEF LedgerMoves
<1>3. Shapes' /\ Lines' /\ BookKeyed' /\ RequestsHold' /\ Grows
  BY <1>0, <1>1, MovesShapes, MovesLines, MovesKeyed, MovesRequests, MovesGrow
<1>4. Counted'
  BY <1>0, <1>2 DEF Counted, Promised
<1>5. CallsHold'
  BY <1>0, <1>2 DEF CallsHold, CallHolds
<1>6. AcceptedIsRecorded'
  BY <1>0, <1>2, <1>3 DEF AcceptedIsRecorded, Grows
<1> QED BY <1>3, <1>4, <1>5, <1>6 DEF SubmitInv

-----------------------------------------------------------------------------
(* The operator and the treasury. *)

\* What applying answers leaves of an intent: its scenario, and its status unless an answer
\* is recorded.
LEMMA AppliedIs ==
    ASSUME NEW intent, DOMAIN intent = IntentFields, NEW batch, NEW mode
    PROVE  /\ DOMAIN Applied(intent, batch, mode) = IntentFields
           /\ Applied(intent, batch, mode).scenario = intent.scenario
           /\ \/ Applied(intent, batch, mode) = intent
              \/ /\ Applied(intent, batch, mode).status \in {"gathering", "awaiting_confirmation"}
                 /\ Applied(intent, batch, mode).answers
                        = Merged(intent.scenario, intent.answers, batch, mode)
<1>1. PICK answers : answers = Merged(intent.scenario, intent.answers, batch, mode)
  OBVIOUS
<1>2. PICK status \in {"gathering", "awaiting_confirmation"} :
         status = IF Ready(intent.scenario, answers) THEN "awaiting_confirmation" ELSE "gathering"
  OBVIOUS
<1> DEFINE changed == [intent EXCEPT !.answers = answers, !.status = status]
<1>3. /\ DOMAIN changed = IntentFields /\ changed.scenario = intent.scenario
      /\ changed.status = status /\ changed.answers = answers
  BY DEF IntentFields
<1>4. Applied(intent, batch, mode) = intent \/ Applied(intent, batch, mode) = changed
  BY <1>1, <1>2 DEF Applied
<1> HIDE DEF changed
<1> QED BY <1>1, <1>2, <1>3, <1>4

LEMMA StartedIs ==
    ASSUME NEW s
    PROVE  /\ DOMAIN Started(s) = IntentFields /\ Started(s).scenario = s
           /\ Started(s).status = "gathering" /\ Started(s).answers = <<>>
BY DEF Started, IntentFields

LEMMA ShownIs ==
    ASSUME Shapes, NEW intent
    PROVE  /\ DOMAIN Shown(intent) = TabFields /\ Shown(intent).intent = tab.intent
           /\ Shown(intent) = [k \in TabFields |-> Shown(intent)[k]]
<1>1. DOMAIN tab = TabFields
  BY DEF Shapes
<1>2. PICK t : t = tab
  OBVIOUS
<1>3. PICK asked : asked = t.asked \cup {Question(intent.scenario, intent.answers)}
  OBVIOUS
<1> DEFINE a == [t EXCEPT !.card = TRUE]
<1> DEFINE b == [t EXCEPT !.asked = asked]
<1>4. /\ DOMAIN a = TabFields /\ a.intent = t.intent /\ a = [k \in TabFields |-> a[k]]
      /\ DOMAIN b = TabFields /\ b.intent = t.intent /\ b = [k \in TabFields |-> b[k]]
  BY <1>1, <1>2 DEF TabFields
<1>5. Shown(intent) = a \/ Shown(intent) = b
  BY <1>1, <1>2, <1>3 DEF Shown, TabFields
<1> HIDE DEF a, b
<1> QED BY <1>2, <1>4, <1>5

\* What a conversation under way leaves the status of its intent at.
Unsettled == {"gathering", "awaiting_confirmation"}

\* The operator says something: at most the intent shown changes, and nothing is settled by it.
Speaks ==
    /\ UNCHANGED <<book, writer, issued, call, request, about>>
    /\ Table(intents', DOMAIN intents, IntentFields)
    /\ \A i \in DOMAIN intents :
          intents'[i] = intents[i] \/ (i = tab.intent /\ intents'[i].status \in Unsettled)
    /\ tab' = [k \in TabFields |-> tab'[k]] /\ tab'.intent \in {tab.intent, None}

LEMMA CurrentIs ==
    ASSUME Current # NoPlan
    PROVE  tab.intent \in DOMAIN intents /\ Current = intents[tab.intent]
BY DEF Current

LEMMA AppliedSpeaks ==
    ASSUME Shapes, Current # NoPlan, NEW batch, NEW mode,
           intents' = [intents EXCEPT ![tab.intent] = Applied(intents[tab.intent], batch, mode)],
           NEW shown, tab' = shown, shown = [k \in TabFields |-> shown[k]], shown.intent = tab.intent,
           UNCHANGED <<book, writer, issued, call, request, about>>
    PROVE  Speaks
<1>1. PICK i : i = tab.intent /\ i \in DOMAIN intents
  BY CurrentIs
<1>2. PICK x : x = intents[i] /\ DOMAIN x = IntentFields
  BY <1>1 DEF Shapes, Table
<1>3. PICK n : n = Applied(x, batch, mode)
  OBVIOUS
<1>4. DOMAIN n = IntentFields /\ (n = x \/ n.status \in Unsettled)
  BY <1>2, <1>3, AppliedIs DEF Unsettled
<1>5. intents' = [intents EXCEPT ![i] = n]
  BY <1>1, <1>2, <1>3
<1>6. Table(intents', DOMAIN intents, IntentFields)
  BY <1>1, <1>4, <1>5 DEF Shapes, Table
<1>7. \A j \in DOMAIN intents :
         intents'[j] = intents[j] \/ (j = tab.intent /\ intents'[j].status \in Unsettled)
  BY <1>1, <1>2, <1>4, <1>5
<1> QED BY <1>6, <1>7 DEF Speaks

LEMMA MergeSpeaks ==
    ASSUME Shapes, Current # NoPlan, NEW batch, NEW mode, Merge(batch, mode)
    PROVE  Speaks
<1>1. PICK shown : shown = Shown(intents'[tab.intent])
  OBVIOUS
<1>2. shown = [k \in TabFields |-> shown[k]] /\ shown.intent = tab.intent
  <2>1. PICK x : x = intents'[tab.intent]
    OBVIOUS
  <2> QED BY <1>1, <2>1, ShownIs
<1> QED BY <1>1, <1>2, AppliedSpeaks DEF Merge

LEMMA TalkSpeaks ==
    ASSUME Shapes, Converse \/ SelectPosition \/ Edit \/ Correct \/ Restart
    PROVE  Speaks
<1>1. ASSUME Converse \/ SelectPosition \/ Edit PROVE Speaks
  BY <1>1, MergeSpeaks DEF Converse, SelectPosition, Edit
<1>2. ASSUME Correct PROVE Speaks
  <2>1. PICK keys \in SUBSET CorrectionCard : \E batch \in Batches(Current.scenario, keys) :
          /\ intents' = [intents EXCEPT ![tab.intent] = Applied(@, batch, "edit")]
          /\ tab' = IF Recordable(Current.scenario, Current.answers, batch, "edit") = keys
                     THEN Shown(intents'[tab.intent]) ELSE tab
    BY <1>2 DEF Correct
  <2>2. PICK batch : /\ intents' = [intents EXCEPT ![tab.intent] = Applied(intents[tab.intent], batch, "edit")]
                     /\ tab' = Shown(intents'[tab.intent]) \/ tab' = tab
    BY <2>1
  <2>3. PICK shown : tab' = shown
    OBVIOUS
  <2>4. shown = [k \in TabFields |-> shown[k]] /\ shown.intent = tab.intent
    <3>1. PICK x : x = intents'[tab.intent]
      OBVIOUS
    <3> QED BY <2>2, <2>3, <3>1, ShownIs DEF Shapes
  <2> QED BY <1>2, <2>2, <2>3, <2>4, AppliedSpeaks DEF Correct
<1>3. ASSUME Restart PROVE Speaks
  <2> DEFINE p == [Picking EXCEPT !.busy = tab.busy]
  <2>1. p = [k \in TabFields |-> p[k]] /\ p.intent = None
    BY DEF Picking, TabFields
  <2> HIDE DEF p
  <2>2. tab' = p
    BY <1>3 DEF Restart, p
  <2> QED BY <1>3, <2>1, <2>2 DEF Restart, Speaks, Shapes, Table
<1> QED BY <1>1, <1>2, <1>3

LEMMA SpeaksKeeps ==
    ASSUME SubmitInv, Speaks
    PROVE  SubmitInv'
<1>0. /\ Shapes /\ Counted /\ CallsHold /\ Lines /\ BookKeyed /\ RequestsHold /\ AcceptedIsRecorded
  BY DEF SubmitInv
<1>1. DOMAIN intents' = DOMAIN intents
  BY DEF Speaks, Table
<1>2. Shapes'
  BY <1>0, <1>1 DEF Shapes, Speaks, Table
<1>3. Counted'
  BY <1>0, <1>1 DEF Counted, Promised, Speaks
<1>4. CallsHold'
  BY <1>0, <1>1 DEF CallsHold, CallHolds, Speaks
<1>5. Lines'
  BY <1>0 DEF Lines, Answerable, Speaks
<1>6. BookKeyed' /\ RequestsHold'
  BY <1>0 DEF BookKeyed, RequestsHold, RequestHolds, Keyed, Ids, Speaks
<1>7. AcceptedIsRecorded'
  BY <1>0, <1>1 DEF AcceptedIsRecorded, Ids, Speaks, Unsettled
<1> QED BY <1>2, <1>3, <1>4, <1>5, <1>6, <1>7 DEF SubmitInv

\* A fresh intent joins the others.
Joins(intent, subject) ==
    /\ issued' = issued + 1
    /\ Table(intents', DOMAIN intents \cup {issued + 1}, IntentFields)
    /\ intents'[issued + 1] = intent
    /\ \A i \in DOMAIN intents : i # issued + 1 /\ intents'[i] = intents[i]
    /\ about' = [i \in 1 .. issued + 1 |-> about'[i]]
    /\ about'[issued + 1] = subject
    /\ \A i \in 1 .. issued : about'[i] = about[i]

LEMMA IssueJoins ==
    ASSUME Shapes, Counted, NEW intent, DOMAIN intent = IntentFields, NEW subject,
           Issue(intent, subject)
    PROVE  Joins(intent, subject)
<1>1. PICK n : n = issued /\ n \in Nat
  BY DEF Counted
<1>2. /\ issued' = n + 1
      /\ intents' = [j \in DOMAIN intents \cup {n + 1} |-> IF j = n + 1 THEN intent ELSE intents[j]]
      /\ about' = [j \in DOMAIN about \cup {n + 1} |-> IF j = n + 1 THEN subject ELSE about[j]]
  BY <1>1 DEF Issue, Saved
<1>3. DOMAIN intents \subseteq 1 .. n /\ DOMAIN about = 1 .. n
  BY <1>1 DEF Counted
<1>4. \A i \in DOMAIN intents : i # n + 1 /\ DOMAIN intents[i] = IntentFields
  BY <1>1, <1>3 DEF Shapes, Table
<1>5. DOMAIN about \cup {n + 1} = 1 .. n + 1 /\ \A i \in 1 .. n : i # n + 1
  BY <1>1, <1>3
<1>6. Table(intents', DOMAIN intents \cup {n + 1}, IntentFields)
  BY <1>2, <1>4 DEF Table
<1>7. /\ intents'[n + 1] = intent
      /\ \A i \in DOMAIN intents : i # n + 1 /\ intents'[i] = intents[i]
  BY <1>2, <1>4
<1>8. /\ about' = [i \in 1 .. n + 1 |-> about'[i]] /\ about'[n + 1] = subject
      /\ \A i \in 1 .. n : about'[i] = about[i]
  BY <1>1, <1>2, <1>3, <1>5
<1> QED BY <1>1, <1>2, <1>6, <1>7, <1>8 DEF Joins

-----------------------------------------------------------------------------
(* The intents that are promised. *)

Planning == {h \in Calls : call[h].plan # NoPlan}

LEMMA PromisedIs ==
    Promised = Cardinality(Planning) /\ Promised \in Nat /\ IsFiniteSet(Planning)
<1>1. IsFiniteSet(Calls)
  BY SubmissionAssumption
<1>2. IsFiniteSet(Planning)
  BY <1>1, FS_Subset DEF Planning
<1>3. Promised = Cardinality(Planning)
  BY DEF Promised, Planning
<1> QED BY <1>2, <1>3, FS_CardinalityType

LEMMA PromisedNext ==
    Promised' = Cardinality(Planning') /\ Promised' \in Nat /\ IsFiniteSet(Planning')
<1>1. IsFiniteSet(Calls)
  BY SubmissionAssumption
<1>2. IsFiniteSet(Planning')
  BY <1>1, FS_Subset DEF Planning
<1>3. Promised' = Cardinality(Planning')
  BY DEF Promised, Planning
<1> QED BY <1>2, <1>3, FS_CardinalityType

LEMMA PromisedFewer ==
    ASSUME Planning' \subseteq Planning
    PROVE  Promised' <= Promised
BY PromisedIs, PromisedNext, FS_Subset

LEMMA PromisedOneMore ==
    ASSUME NEW h, Planning' \subseteq Planning \cup {h}
    PROVE  Promised' <= Promised + 1
<1>1. IsFiniteSet(Planning \cup {h}) /\ Cardinality(Planning \cup {h}) <= Cardinality(Planning) + 1
  BY PromisedIs, FS_AddElement
<1>2. Cardinality(Planning') <= Cardinality(Planning \cup {h})
  BY <1>1, FS_Subset
<1> QED BY <1>1, <1>2, PromisedIs, PromisedNext, FS_CardinalityType

LEMMA PromisedOneLess ==
    ASSUME NEW h \in Planning, Planning' \subseteq Planning \ {h}
    PROVE  Promised' + 1 <= Promised
<1>1. /\ IsFiniteSet(Planning \ {h})
      /\ Cardinality(Planning \ {h}) = Cardinality(Planning) - 1
  BY PromisedIs, FS_RemoveElement
<1>2. Cardinality(Planning') <= Cardinality(Planning \ {h})
  BY <1>1, FS_Subset
<1> QED BY <1>1, <1>2, PromisedIs, PromisedNext, FS_CardinalityType

-----------------------------------------------------------------------------
(* A submission is posted. *)

LEMMA CandidateKey ==
    ASSUME NEW i, NEW intent
    PROVE  Candidate(i, intent).ref = Refs[i] /\ Candidate(i, intent).commandId = Refs[i]
BY DEF Candidate, build

Posts(h, w, i, intent, plan, q, c) ==
    /\ request[w] = Free
    /\ request' = [request EXCEPT ![w] = q] /\ DOMAIN q = RequestFields
    /\ q.pc = "lookup" /\ q.caller = h
    /\ q.cmd = Candidate(i, intent) /\ q.cmd.ref = Refs[i] /\ q.cmd.commandId = Refs[i]
    /\ q.related = RelatedTo(MapOf(intent.scenario), intent.answers)
    /\ call' = [call EXCEPT ![h] = c] /\ DOMAIN c = CallFields
    /\ c.pc = "posted" /\ c.intent = i /\ c.plan = plan
    /\ DOMAIN c.copy = IntentFields
    /\ c.copy.scenario = intent.scenario /\ c.copy.answers = intent.answers

LEMMA PostPosts ==
    ASSUME NEW h, NEW i, NEW intent, DOMAIN intent = IntentFields, NEW plan, NEW chat,
           Post(h, i, intent, plan, chat)
    PROVE  \E w \in Writers : \E q, c : Posts(h, w, i, intent, plan, q, c)
<1>1. PICK cmd, related : /\ cmd = Candidate(i, intent)
                          /\ related = RelatedTo(MapOf(intent.scenario), intent.answers)
  OBVIOUS
<1>2. cmd.ref = Refs[i] /\ cmd.commandId = Refs[i]
  BY <1>1, CandidateKey
<1> DEFINE q == [pc |-> "lookup", caller |-> h, cmd |-> cmd, related |-> related]
<1> DEFINE copy == [intent EXCEPT !.status = "submitted"]
<1> DEFINE c == [pc |-> "posted", intent |-> i, copy |-> copy, plan |-> plan, chat |-> chat]
<1>3. PICK w \in Writers :
         /\ request[w] = Free
         /\ request' = [request EXCEPT ![w] = q]
         /\ call' = [call EXCEPT ![h] = c]
  BY <1>1 DEF Post
<1>4. /\ DOMAIN q = RequestFields /\ q.pc = "lookup" /\ q.caller = h /\ q.cmd = cmd /\ q.related = related
      /\ DOMAIN c = CallFields /\ c.pc = "posted" /\ c.intent = i /\ c.plan = plan /\ c.copy = copy
  BY DEF RequestFields, CallFields
<1>5. DOMAIN copy = IntentFields /\ copy.scenario = intent.scenario /\ copy.answers = intent.answers
  BY DEF IntentFields
<1> HIDE DEF q, copy, c
<1>6. Posts(h, w, i, intent, plan, q, c)
  BY <1>1, <1>2, <1>3, <1>4, <1>5 DEF Posts
<1> QED BY <1>6

LEMMA LaterKeyed ==
    ASSUME issued \in Nat, issued' \in Nat, issued <= issued', NEW c, Keyed(c)
    PROVE  Keyed(c)'
<1>1. \A i \in DOMAIN Refs : i \in Nat
  BY SubmissionAssumption
<1> QED BY <1>1 DEF Keyed

\* A handler that waits for no answer posts an intent the treasury has.
PostsKnown(h, w, i, intent, plan, q, c) ==
    /\ call[h].pc # "posted" /\ Posts(h, w, i, intent, plan, q, c)
    /\ UNCHANGED <<book, writer>>
    /\ issued' \in Nat /\ issued <= issued' /\ i \in DOMAIN Refs /\ i <= issued'
    /\ DOMAIN intents \subseteq DOMAIN intents' /\ i \in DOMAIN intents'

LEMMA PostTables ==
    ASSUME Shapes, NEW h \in Calls, NEW w \in Writers, NEW i, NEW intent, NEW plan, NEW q, NEW c,
           PostsKnown(h, w, i, intent, plan, q, c)
    PROVE  Table(writer, Writers, WriterFields)' /\ Table(request, Writers, RequestFields)'
           /\ Table(call, Calls, CallFields)' /\ (book \in Seq(Range(book)))'
BY DEF Shapes, Table, PostsKnown, Posts

LEMMA PostLines ==
    ASSUME Shapes, Lines, NEW h \in Calls, NEW w \in Writers, NEW i, NEW intent, NEW plan, NEW q, NEW c,
           PostsKnown(h, w, i, intent, plan, q, c)
    PROVE  Lines'
<1>0. /\ \A v \in Writers : v # w => request'[v] = request[v]
      /\ \A g \in Calls : g # h => call'[g] = call[g]
      /\ request'[w] = q /\ call'[h] = c
  BY DEF Shapes, Table, PostsKnown, Posts
<1>1. /\ q.caller = h /\ q.pc # "free" /\ q.cmd.ref = Refs[i] /\ c.pc = "posted" /\ c.intent = i
      /\ call[h].pc # "posted"
  BY DEF PostsKnown, Posts
<1>2. \A v \in Writers : request[v].caller # h
  BY <1>1, SubmissionAssumption DEF Lines, Answerable
<1>3. ASSUME NEW v \in Writers PROVE Answerable(v)'
  BY <1>0, <1>1, <1>2 DEF Lines, Answerable
<1>4. ASSUME NEW u \in Writers, NEW v \in Writers, u # v, request'[u].caller # Nobody
      PROVE  request'[u].caller # request'[v].caller
  BY <1>0, <1>1, <1>2, <1>4 DEF Lines
<1> QED BY <1>3, <1>4 DEF Lines

LEMMA PostCalls ==
    ASSUME Shapes, CallsHold, NEW h \in Calls, NEW w \in Writers, NEW i, NEW intent, NEW plan, NEW q, NEW c,
           PostsKnown(h, w, i, intent, plan, q, c)
    PROVE  CallsHold'
<1>0. (\A g \in Calls : g # h => call'[g] = call[g]) /\ call'[h] = c
  BY DEF Shapes, Table, PostsKnown, Posts
<1>1. CallHolds(h)'
  BY <1>0 DEF CallHolds, PostsKnown, Posts
<1>2. ASSUME NEW g \in Calls, g # h PROVE CallHolds(g)'
  BY <1>0, <1>2 DEF CallsHold, CallHolds, PostsKnown
<1> QED BY <1>1, <1>2 DEF CallsHold

LEMMA PostRequests ==
    ASSUME Shapes, Counted, BookKeyed, RequestsHold, NEW h \in Calls, NEW w \in Writers, NEW i,
           NEW intent, NEW plan, NEW q, NEW c, PostsKnown(h, w, i, intent, plan, q, c)
    PROVE  BookKeyed' /\ RequestsHold'
<1>0. (\A v \in Writers : v # w => request'[v] = request[v]) /\ request'[w] = q /\ UNCHANGED <<book, writer>>
  BY DEF Shapes, Table, PostsKnown, Posts
<1>1. \A k : Keyed(k) => Keyed(k)'
  BY LaterKeyed DEF PostsKnown, Counted
<1>2. BookKeyed'
  BY <1>0, <1>1 DEF BookKeyed, Keyed, Ids
<1>3. q.pc = "lookup" /\ q.cmd.ref = Refs[i] /\ q.cmd.commandId = Refs[i] /\ i \in DOMAIN Refs /\ i <= issued'
  BY DEF PostsKnown, Posts
<1>4. Keyed(q.cmd)'
  BY <1>3, SubmissionAssumption DEF Keyed
<1>5. RequestHolds(w)'
  BY <1>0, <1>3, <1>4 DEF RequestHolds
<1>6. ASSUME NEW v \in Writers, v # w PROVE RequestHolds(v)'
  BY <1>0, <1>1, <1>6 DEF RequestsHold, RequestHolds, Ids
<1> QED BY <1>2, <1>5, <1>6 DEF RequestsHold

LEMMA IssueKeeps ==
    ASSUME Shapes, Counted, AcceptedIsRecorded, UNCHANGED book,
           NEW intent, DOMAIN intent = IntentFields, intent.status # "accepted", NEW subject,
           Joins(intent, subject), issued' + Promised' <= Len(Refs),
           tab' = [k \in TabFields |-> tab'[k]], tab'.intent \in {None, tab.intent, issued'}
    PROVE  /\ Table(intents, DOMAIN intents, IntentFields)' /\ (tab = [k \in TabFields |-> tab[k]])'
           /\ Counted' /\ AcceptedIsRecorded'
<1>1. DOMAIN intents' = DOMAIN intents \cup {issued + 1}
  BY DEF Joins, Table
<1>2. Table(intents, DOMAIN intents, IntentFields)'
  BY <1>1 DEF Joins, Table
<1>3. Counted'
  <2>1. PICK n : n = issued /\ n \in Nat /\ issued' = n + 1
    BY DEF Counted, Joins
  <2>2. DOMAIN intents' \subseteq 1 .. n + 1
    BY <1>1, <2>1 DEF Counted
  <2>3. tab'.intent # None => tab'.intent \in 1 .. n + 1
    BY <2>1 DEF Counted
  <2> QED BY <2>1, <2>2, <2>3 DEF Counted, Joins
<1>4. AcceptedIsRecorded'
  BY <1>1 DEF AcceptedIsRecorded, Joins, Ids
<1> QED BY <1>2, <1>3, <1>4

\* A reference is left for an intent that is issued.
LEMMA ReferenceLeft ==
    ASSUME NEW n \in Nat, n + 1 <= Len(Refs)
    PROVE  n + 1 \in DOMAIN Refs
BY SubmissionAssumption

LEMMA OpenKeeps ==
    ASSUME SubmitInv, IntentsLeft(1), UNCHANGED <<book, writer, call, request>>,
           NEW intent, DOMAIN intent = IntentFields, intent.status # "accepted", NEW subject,
           Issue(intent, subject),
           tab' = [k \in TabFields |-> tab'[k]], tab'.intent = issued'
    PROVE  SubmitInv'
<1>0. /\ Shapes /\ Counted /\ CallsHold /\ Lines /\ BookKeyed /\ RequestsHold /\ AcceptedIsRecorded
  BY DEF SubmitInv
<1>1. Joins(intent, subject)
  BY <1>0, IssueJoins
<1>2. /\ issued \in Nat /\ issued' = issued + 1 /\ Promised' = Promised /\ Promised \in Nat
      /\ issued + Promised + 1 <= Len(Refs) /\ Len(Refs) \in Nat
  BY <1>0, <1>1, PromisedIs, SubmissionAssumption DEF Counted, Joins, Promised, IntentsLeft
<1>3. /\ Table(intents, DOMAIN intents, IntentFields)' /\ (tab = [k \in TabFields |-> tab[k]])'
      /\ Counted' /\ AcceptedIsRecorded'
  BY <1>0, <1>1, <1>2, IssueKeeps
<1>4. Shapes'
  BY <1>0, <1>3 DEF Shapes, Table
<1>5. DOMAIN intents \subseteq DOMAIN intents'
  BY <1>1 DEF Joins, Table
<1>6. CallsHold' /\ Lines'
  BY <1>0, <1>5 DEF CallsHold, CallHolds, Lines, Answerable
<1>7. \A c : Keyed(c) => Keyed(c)'
  BY <1>2, LaterKeyed
<1>8. BookKeyed' /\ RequestsHold'
  BY <1>0, <1>7 DEF BookKeyed, RequestsHold, RequestHolds, Keyed, Ids
<1> QED BY <1>3, <1>4, <1>6, <1>8 DEF SubmitInv

LEMMA OpenedIs ==
    ASSUME NEW i, NEW intent
    PROVE  Opened(i, intent) = [k \in TabFields |-> Opened(i, intent)[k]] /\ Opened(i, intent).intent = i
<1>1. PICK card, asked :
         Opened(i, intent) = [Picking EXCEPT !.intent = i, !.card = card, !.asked = asked]
  BY DEF Opened
<1> DEFINE o == [Picking EXCEPT !.intent = i, !.card = card, !.asked = asked]
<1>2. o = [k \in TabFields |-> o[k]] /\ o.intent = i
  BY DEF Picking, TabFields
<1> HIDE DEF o
<1>3. Opened(i, intent) = o
  BY <1>1 DEF o
<1> QED BY <1>2, <1>3

LEMMA SelectKeeps ==
    ASSUME SubmitInv, NEW s, SelectScenario(s)
    PROVE  SubmitInv'
<1>1. PICK x : x = Started(s) /\ DOMAIN x = IntentFields /\ x.status # "accepted"
  BY StartedIs
<1>2. PICK i : i = issued'
  OBVIOUS
<1>3. tab' = [k \in TabFields |-> tab'[k]] /\ tab'.intent = issued'
  BY <1>1, <1>2, OpenedIs DEF SelectScenario
<1>4. IntentsLeft(1) /\ UNCHANGED <<book, writer, call, request>> /\ Issue(x, Anything)
  BY <1>1 DEF SelectScenario
<1> QED BY <1>1, <1>3, <1>4, OpenKeeps

LEMMA StartKeeps ==
    ASSUME SubmitInv, NEW object, NEW objectType, StartFromPosition(object, objectType)
    PROVE  SubmitInv'
<1>1. PICK action \in PositionActions(objectType) :
         LET intent == Applied(Started(action.scenario), Prefill(object, action), "fill") IN
             /\ Issue(intent, [Anything EXCEPT !.position = object,
                                                       !.origin = RelatedTo(MapOf(action.scenario),
                                                                            intent.answers)])
             /\ tab' = Opened(issued', intent)
  BY DEF StartFromPosition
<1>2. PICK s, batch : s = Started(action.scenario) /\ batch = Prefill(object, action)
  OBVIOUS
<1>3. PICK x : x = Applied(s, batch, "fill")
  OBVIOUS
<1>4. DOMAIN x = IntentFields /\ x.status # "accepted"
  <2>1. DOMAIN s = IntentFields /\ s.status = "gathering"
    BY <1>2, StartedIs
  <2> QED BY <1>3, <2>1, AppliedIs
<1>5. PICK subject : Issue(x, subject) /\ tab' = Opened(issued', x)
  BY <1>1, <1>2, <1>3
<1>6. PICK i : i = issued'
  OBVIOUS
<1>7. tab' = [k \in TabFields |-> tab'[k]] /\ tab'.intent = issued'
  BY <1>5, <1>6, OpenedIs
<1>8. IntentsLeft(1) /\ UNCHANGED <<book, writer, call, request>>
  BY DEF StartFromPosition
<1> QED BY <1>4, <1>5, <1>7, <1>8, OpenKeeps

LEMMA ConfirmKeeps ==
    ASSUME SubmitInv, NEW h \in Calls, Confirm(h)
    PROVE  SubmitInv'
<1>0. /\ Shapes /\ Counted /\ CallsHold /\ Lines /\ BookKeyed /\ RequestsHold /\ AcceptedIsRecorded
  BY DEF SubmitInv
<1>1. UNCHANGED <<book, writer, intents, issued, about>> /\ call[h] = Quiet
  BY DEF Confirm
<1>2. tab' = [k \in TabFields |-> tab'[k]] /\ tab'.intent = tab.intent
  <2>1. tab = [k \in TabFields |-> tab[k]]
    BY <1>0 DEF Shapes
  <2>2. \/ tab' = [tab EXCEPT !.card = FALSE, !.busy = TRUE]
        \/ tab' = [tab EXCEPT !.card = FALSE]
    BY DEF Confirm
  <2> QED BY <2>1, <2>2 DEF TabFields
<1>3. CASE UNCHANGED <<call, request>>
  <2>1. Speaks
    BY <1>0, <1>1, <1>2, <1>3 DEF Speaks, Shapes, Table
  <2> QED BY <2>1, SpeaksKeeps
<1>4. CASE Current # NoPlan /\ Post(h, tab.intent, Current, NoPlan, TRUE)
  <2>1. PICK i, x : i = tab.intent /\ x = Current /\ i \in DOMAIN intents /\ x = intents[i]
    BY <1>4, CurrentIs
  <2>2. DOMAIN x = IntentFields
    BY <1>0, <2>1 DEF Shapes, Table
  <2>3. PICK w \in Writers : \E q, c : Posts(h, w, i, x, NoPlan, q, c)
    BY <1>4, <2>1, <2>2, PostPosts
  <2>4. PICK q, c : Posts(h, w, i, x, NoPlan, q, c)
    BY <2>3
  <2>5. i \in DOMAIN Refs /\ i <= issued
    <3>1. i \in 1 .. issued /\ issued \in Nat /\ issued <= Len(Refs)
      BY <1>0, <2>1, PromisedIs, SubmissionAssumption DEF Counted
    <3> QED BY <3>1, SubmissionAssumption
  <2>6. PostsKnown(h, w, i, x, NoPlan, q, c)
    BY <1>0, <1>1, <2>1, <2>4, <2>5 DEF PostsKnown, Quiet, Counted
  <2>7. /\ Table(writer, Writers, WriterFields)' /\ Table(request, Writers, RequestFields)'
        /\ Table(call, Calls, CallFields)' /\ (book \in Seq(Range(book)))'
        /\ Lines' /\ CallsHold' /\ BookKeyed' /\ RequestsHold'
    BY <1>0, <2>6, PostTables, PostLines, PostCalls, PostRequests
  <2>8. Shapes'
    BY <1>0, <1>1, <1>2, <2>7 DEF Shapes, Table
  <2>9. Counted'
    <3>1. Planning' \subseteq Planning
      BY <1>0, <2>4 DEF Planning, Posts, Shapes, Table
    <3>2. Promised' <= Promised /\ Promised' \in Nat /\ Promised \in Nat
      BY <3>1, PromisedFewer, PromisedIs, PromisedNext
    <3>3. issued + Promised <= Len(Refs) /\ issued \in Nat /\ Len(Refs) \in Nat
      BY <1>0, SubmissionAssumption DEF Counted
    <3> QED BY <1>0, <1>1, <1>2, <3>2, <3>3 DEF Counted
  <2>10. AcceptedIsRecorded'
    BY <1>0, <1>1 DEF AcceptedIsRecorded, Ids
  <2> QED BY <2>7, <2>8, <2>9, <2>10 DEF SubmitInv
<1> QED BY <1>3, <1>4 DEF Confirm

\* A fresh intent is issued and posted at once.
LEMMA IssuedPostKeeps ==
    ASSUME SubmitInv, NEW h \in Calls, call[h].pc # "posted", UNCHANGED <<book, writer, tab>>,
           NEW intent, DOMAIN intent = IntentFields, intent.status # "accepted", NEW subject,
           Joins(intent, subject), issued' + Promised' <= Len(Refs),
           NEW w \in Writers, NEW plan, NEW q, NEW c, Posts(h, w, issued + 1, intent, plan, q, c)
    PROVE  SubmitInv'
<1>0. /\ Shapes /\ Counted /\ CallsHold /\ Lines /\ BookKeyed /\ RequestsHold /\ AcceptedIsRecorded
  BY DEF SubmitInv
<1>1. PICK i : i = issued + 1
  OBVIOUS
<1>2. issued \in Nat /\ issued' = i /\ i \in Nat /\ Promised' \in Nat /\ Len(Refs) \in Nat
  BY <1>0, <1>1, PromisedNext, SubmissionAssumption DEF Counted, Joins
<1>3. i \in DOMAIN Refs
  BY <1>1, <1>2, ReferenceLeft
<1>4. DOMAIN intents' = DOMAIN intents \cup {i}
  BY <1>1 DEF Joins, Table
<1>5. PostsKnown(h, w, i, intent, plan, q, c)
  BY <1>1, <1>2, <1>3, <1>4 DEF PostsKnown
<1>6. /\ Table(writer, Writers, WriterFields)' /\ Table(request, Writers, RequestFields)'
      /\ Table(call, Calls, CallFields)' /\ (book \in Seq(Range(book)))'
      /\ Lines' /\ CallsHold' /\ BookKeyed' /\ RequestsHold'
  BY <1>0, <1>5, PostTables, PostLines, PostCalls, PostRequests
<1>7. /\ Table(intents, DOMAIN intents, IntentFields)' /\ (tab = [k \in TabFields |-> tab[k]])'
      /\ Counted' /\ AcceptedIsRecorded'
  <2>1. tab' = [k \in TabFields |-> tab'[k]] /\ tab'.intent \in {None, tab.intent, issued'}
    BY <1>0 DEF Shapes
  <2> QED BY <1>0, <2>1, IssueKeeps
<1>8. Shapes'
  BY <1>6, <1>7 DEF Shapes
<1> QED BY <1>6, <1>7, <1>8 DEF SubmitInv

\* What a step does to the handler h alone.
LEMMA OthersPlan ==
    ASSUME Shapes, NEW h \in Calls, NEW c, call' = [call EXCEPT ![h] = c]
    PROVE  /\ Planning' \subseteq Planning \cup {h}
           /\ c.plan = NoPlan => Planning' \subseteq Planning \ {h}
           /\ (c.plan = NoPlan \/ c.plan = call[h].plan) => Planning' \subseteq Planning
<1>1. call'[h] = c /\ \A g \in Calls : g # h => call'[g] = call[g]
  BY DEF Shapes, Table
<1> QED BY <1>1 DEF Planning

LEMMA FreeIs ==
    /\ DOMAIN Free = RequestFields /\ Free.pc = "free" /\ Free.caller = Nobody
    /\ DOMAIN Idle = WriterFields
    /\ DOMAIN Quiet = CallFields /\ Quiet.pc = "quiet" /\ Quiet.plan = NoPlan
BY DEF Free, RequestFields, Idle, Fresh, WriterFields, Quiet, CallFields

\* How a handler ends: quiet, or going on to record the entry again.
\* A fresh intent is issued by a handler that ends there.
LEMMA IssuedOnlyKeeps ==
    ASSUME SubmitInv, NEW h \in Calls, call[h].pc # "posted", UNCHANGED <<book, writer, tab, request>>,
           NEW intent, DOMAIN intent = IntentFields, intent.status # "accepted", NEW subject,
           Joins(intent, subject), issued' + Promised' <= Len(Refs), call' = [call EXCEPT ![h] = Quiet]
    PROVE  SubmitInv'
<1>0. /\ Shapes /\ Counted /\ CallsHold /\ Lines /\ BookKeyed /\ RequestsHold /\ AcceptedIsRecorded
  BY DEF SubmitInv
<1>1. (\A g \in Calls : g # h => call'[g] = call[g]) /\ call'[h] = Quiet /\ Quiet.pc = "quiet"
      /\ Quiet.plan = NoPlan /\ DOMAIN Quiet = CallFields
  BY <1>0 DEF Shapes, Table, Quiet, CallFields
<1>2. tab' = [k \in TabFields |-> tab'[k]] /\ tab'.intent \in {None, tab.intent, issued'}
  BY <1>0 DEF Shapes
<1>3. /\ Table(intents, DOMAIN intents, IntentFields)' /\ (tab = [k \in TabFields |-> tab[k]])'
      /\ Counted' /\ AcceptedIsRecorded'
  BY <1>0, <1>2, IssueKeeps
<1>4. Shapes'
  BY <1>0, <1>1, <1>3 DEF Shapes, Table
<1>5. DOMAIN intents \subseteq DOMAIN intents'
  BY DEF Joins, Table
<1>6. CallsHold'
  BY <1>0, <1>1, <1>5 DEF CallsHold, CallHolds
<1>7. \A v \in Writers : request[v].caller # h
  BY <1>0, SubmissionAssumption DEF Lines, Answerable
<1>8. Lines'
  BY <1>0, <1>1, <1>7 DEF Lines, Answerable
<1>9. \A k : Keyed(k) => Keyed(k)'
  BY <1>0, LaterKeyed DEF Counted, Joins
<1>10. BookKeyed' /\ RequestsHold'
  BY <1>0, <1>9 DEF BookKeyed, RequestsHold, RequestHolds, Keyed, Ids
<1> QED BY <1>3, <1>4, <1>6, <1>8, <1>10 DEF SubmitInv

LEMMA RectifyKeeps ==
    ASSUME SubmitInv, NEW h \in Calls, NEW target, NEW corrected, Rectify(h, target, corrected)
    PROVE  SubmitInv'
<1>0. Shapes /\ Counted
  BY DEF SubmitInv
<1>1. PICK s, batch : s = Started("register_rectification") /\ batch = Withdrawal(target, corrected # NoPlan)
  OBVIOUS
<1>2. PICK x : x = Applied(s, batch, "fill")
  OBVIOUS
<1>3. DOMAIN x = IntentFields /\ x.status # "accepted"
  <2>1. DOMAIN s = IntentFields /\ s.status = "gathering"
    BY <1>1, StartedIs
  <2> QED BY <1>2, <2>1, AppliedIs
<1>4. PICK p : p = IF corrected = NoPlan THEN NoPlan
                   ELSE [target |-> target, scenario |-> planReissue(book[target]).scenario,
                         answers |-> [planReissue(book[target]).answers EXCEPT !.amount = corrected]]
  OBVIOUS
<1>5. /\ Issue(x, Anything) /\ PostIfReady(h, issued', x, p) /\ UNCHANGED <<book, writer, tab>>
      /\ call[h] = Quiet
      /\ IF corrected = NoPlan THEN IntentsLeft(1) ELSE IntentsLeft(2)
  BY <1>1, <1>2, <1>4 DEF Rectify
<1>6. Joins(x, Anything)
  BY <1>0, <1>3, <1>5, IssueJoins
<1>7. PICK i : i = issued + 1 /\ i = issued'
  BY <1>6 DEF Joins
<1>8. ASSUME NEW c, call' = [call EXCEPT ![h] = c], c.plan \in {p, NoPlan}
      PROVE  issued' + Promised' <= Len(Refs)
  <2>1. issued \in Nat /\ issued' = issued + 1 /\ Len(Refs) \in Nat
    BY <1>0, <1>6, SubmissionAssumption DEF Counted, Joins
  <2>2. CASE corrected = NoPlan
    <3>1. Planning' \subseteq Planning
      BY <1>0, <1>4, <1>8, <2>2, OthersPlan
    <3>2. Promised' <= Promised /\ Promised \in Nat /\ Promised' \in Nat
      BY <3>1, PromisedFewer, PromisedIs, PromisedNext
    <3> QED BY <1>5, <2>1, <2>2, <3>2 DEF IntentsLeft
  <2>3. CASE corrected # NoPlan
    <3>1. Planning' \subseteq Planning \cup {h}
      BY <1>0, <1>8, OthersPlan
    <3>2. Promised' <= Promised + 1 /\ Promised \in Nat /\ Promised' \in Nat
      BY <3>1, PromisedOneMore, PromisedIs, PromisedNext
    <3> QED BY <1>5, <2>1, <2>3, <3>2 DEF IntentsLeft
  <2> QED BY <2>2, <2>3
<1>9. call[h].pc # "posted"
  BY <1>5 DEF Quiet
<1>10. CASE Post(h, issued', x, p, FALSE)
  <2>1. PICK w \in Writers : \E q, c : Posts(h, w, i, x, p, q, c)
    BY <1>3, <1>7, <1>10, PostPosts
  <2>2. PICK q, c : Posts(h, w, i, x, p, q, c)
    BY <2>1
  <2>3. issued' + Promised' <= Len(Refs)
    BY <1>8, <2>2 DEF Posts
  <2>4. Posts(h, w, issued + 1, x, p, q, c)
    BY <1>7, <2>2
  <2> QED BY <1>3, <1>5, <1>6, <1>9, <2>3, <2>4, IssuedPostKeeps
<1>11. CASE call' = [call EXCEPT ![h] = Quiet] /\ UNCHANGED request
  <2>1. issued' + Promised' <= Len(Refs)
    BY <1>8, <1>11, FreeIs
  <2> QED BY <1>3, <1>5, <1>6, <1>9, <1>11, <2>1, IssuedOnlyKeeps
<1> QED BY <1>5, <1>10, <1>11 DEF PostIfReady

LEMMA ReissueKeeps ==
    ASSUME SubmitInv, NEW h \in Calls, Reissue(h)
    PROVE  SubmitInv'
<1>0. /\ Shapes /\ Counted /\ CallsHold /\ Lines /\ BookKeyed /\ RequestsHold /\ AcceptedIsRecorded
  BY DEF SubmitInv
<1>1. PICK s, batch : s = Started(call[h].plan.scenario) /\ batch = call[h].plan.answers
  OBVIOUS
<1>2. PICK x : x = Applied(s, batch, "fill")
  OBVIOUS
<1>3. DOMAIN x = IntentFields /\ x.status # "accepted"
  <2>1. DOMAIN s = IntentFields /\ s.status = "gathering"
    BY <1>1, StartedIs
  <2> QED BY <1>2, <2>1, AppliedIs
<1>4. PICK subject : subject = [Anything EXCEPT !.entry = call[h].plan.target]
  OBVIOUS
<1>5. /\ Issue(x, subject) /\ UNCHANGED <<book, writer, tab>> /\ call[h].pc = "reissue"
      /\ \/ Post(h, issued', x, NoPlan, FALSE)
         \/ call' = [call EXCEPT ![h] = Quiet] /\ UNCHANGED request
  BY <1>1, <1>2, <1>4 DEF Reissue, PostIfReady
<1>6. Joins(x, subject)
  BY <1>0, <1>3, <1>5, IssueJoins
<1>7. PICK i : i = issued + 1 /\ i = issued'
  BY <1>6 DEF Joins
<1>8. h \in Planning
  BY <1>0, <1>5 DEF CallsHold, CallHolds, Planning
<1>9. ASSUME NEW c, call' = [call EXCEPT ![h] = c], c.plan = NoPlan
      PROVE  issued' + Promised' <= Len(Refs)
  <2>1. Planning' \subseteq Planning \ {h}
    BY <1>0, <1>9, OthersPlan
  <2>2. Promised' + 1 <= Promised /\ Promised \in Nat /\ Promised' \in Nat
    BY <1>8, <2>1, PromisedOneLess, PromisedIs, PromisedNext
  <2>3. issued \in Nat /\ issued' = issued + 1 /\ Len(Refs) \in Nat /\ issued + Promised <= Len(Refs)
    BY <1>0, <1>6, SubmissionAssumption DEF Counted, Joins
  <2>4. PICK n, m, k, l : n = issued /\ m = Promised /\ k = Promised' /\ l = Len(Refs)
    OBVIOUS
  <2>5. n \in Nat /\ m \in Nat /\ k \in Nat /\ l \in Nat /\ k + 1 <= m /\ n + m <= l
    BY <2>2, <2>3, <2>4
  <2>6. n + 1 + k <= l
    BY <2>5
  <2> QED BY <2>3, <2>4, <2>6
<1>10. CASE Post(h, issued', x, NoPlan, FALSE)
  <2>1. PICK w \in Writers : \E q, c : Posts(h, w, i, x, NoPlan, q, c)
    BY <1>3, <1>7, <1>10, PostPosts
  <2>2. PICK q, c : Posts(h, w, i, x, NoPlan, q, c)
    BY <2>1
  <2>3. issued' + Promised' <= Len(Refs)
    BY <1>9, <2>2 DEF Posts
  <2>4. call[h].pc # "posted" /\ Posts(h, w, issued + 1, x, NoPlan, q, c)
    BY <1>5, <1>7, <2>2
  <2> QED BY <1>3, <1>5, <1>6, <2>3, <2>4, IssuedPostKeeps
<1>11. CASE call' = [call EXCEPT ![h] = Quiet] /\ UNCHANGED request
  <2>1. issued' + Promised' <= Len(Refs)
    BY <1>9, <1>11, FreeIs
  <2>2. call[h].pc # "posted"
    BY <1>5
  <2> QED BY <1>3, <1>5, <1>6, <1>11, <2>1, <2>2, IssuedOnlyKeeps
<1> QED BY <1>5, <1>10, <1>11

-----------------------------------------------------------------------------
(* An answer arrives, or none does. *)

LEMMA HeardIs ==
    ASSUME Shapes, NEW chat, NEW fix, Heard(chat, fix)
    PROVE  tab' = [k \in TabFields |-> tab'[k]] /\ tab'.intent = tab.intent
<1>1. tab = [k \in TabFields |-> tab[k]]
  BY DEF Shapes
<1>2. PICK more : \/ tab' = [tab EXCEPT !.busy = FALSE, !.fix = more]
                  \/ tab' = tab
  BY DEF Heard
<1> QED BY <1>1, <1>2 DEF TabFields

\* What an answer makes of the copy of the intent a handler submitted.
LEMMA DisposedIs ==
    ASSUME NEW copy, DOMAIN copy = IntentFields, NEW answer
    PROVE  /\ DOMAIN Disposed(copy, answer) = IntentFields
           /\ Disposed(copy, answer).scenario = copy.scenario
           /\ Disposed(copy, answer).answers = copy.answers
           /\ Disposed(copy, answer).status \in {"accepted", "awaiting_correction", "rejected"}
           /\ Disposed(copy, answer).status = "accepted" <=> answer.status = "accepted"
           /\ answer.status = "accepted" => Disposed(copy, answer).reference = answer.id
<1> DEFINE a == [copy EXCEPT !.status = "accepted", !.reference = answer.id]
<1> DEFINE b == [copy EXCEPT !.status = "awaiting_correction"]
<1> DEFINE c == [copy EXCEPT !.status = "rejected"]
<1>1. /\ DOMAIN a = IntentFields /\ a.scenario = copy.scenario /\ a.answers = copy.answers
      /\ a.status = "accepted" /\ a.reference = answer.id
  BY DEF IntentFields
<1>2. /\ DOMAIN b = IntentFields /\ b.scenario = copy.scenario /\ b.answers = copy.answers
      /\ b.status = "awaiting_correction"
  BY DEF IntentFields
<1>3. /\ DOMAIN c = IntentFields /\ c.scenario = copy.scenario /\ c.answers = copy.answers
      /\ c.status = "rejected"
  BY DEF IntentFields
<1>4. /\ answer.status = "accepted" => Disposed(copy, answer) = a
      /\ answer.status # "accepted" => Disposed(copy, answer) = b \/ Disposed(copy, answer) = c
  BY DEF Disposed
<1> HIDE DEF a, b, c
<1> QED BY <1>1, <1>2, <1>3, <1>4

\* The handler h stops waiting for the request in w.
Releases(h, w, q, r, c) ==
    /\ UNCHANGED <<book, issued, about>>
    /\ request[w].caller = h
    /\ request' = [request EXCEPT ![w] = q] /\ DOMAIN q = RequestFields /\ q.caller = Nobody
    /\ writer' = [writer EXCEPT ![w] = r] /\ DOMAIN r = WriterFields
    /\ \/ q = Free
       \/ q.pc = request[w].pc /\ q.cmd = request[w].cmd /\ q.related = request[w].related /\ r = writer[w]
    /\ call' = [call EXCEPT ![h] = c] /\ DOMAIN c = CallFields
    /\ c.pc \in {"quiet", "reissue"} /\ c.plan \in {call[h].plan, NoPlan}
    /\ c.pc = "reissue" => c.plan # NoPlan
    /\ Table(intents', DOMAIN intents, IntentFields)
    /\ tab' = [k \in TabFields |-> tab'[k]] /\ tab'.intent = tab.intent

LEMMA ReleaseKeeps ==
    ASSUME SubmitInv, NEW h \in Calls, NEW w \in Writers, NEW q, NEW r, NEW c,
           Releases(h, w, q, r, c), AcceptedIsRecorded'
    PROVE  SubmitInv'
<1>0. /\ Shapes /\ Counted /\ CallsHold /\ Lines /\ BookKeyed /\ RequestsHold
  BY DEF SubmitInv
<1>1. /\ \A v \in Writers : v # w => request'[v] = request[v] /\ writer'[v] = writer[v]
      /\ \A g \in Calls : g # h => call'[g] = call[g]
      /\ request'[w] = q /\ writer'[w] = r /\ call'[h] = c
  BY <1>0 DEF Shapes, Table, Releases
<1>2. DOMAIN intents' = DOMAIN intents
  BY DEF Releases, Table
<1>3. Shapes'
  <2>1. (book \in Seq(Range(book)))'
    BY <1>0 DEF Shapes, Releases
  <2>2. Table(writer', Writers, WriterFields)
    BY <1>0 DEF Shapes, Table, Releases
  <2>3. Table(request', Writers, RequestFields)
    BY <1>0 DEF Shapes, Table, Releases
  <2>4. Table(call', Calls, CallFields)
    BY <1>0 DEF Shapes, Table, Releases
  <2>5. Table(intents', DOMAIN intents', IntentFields) /\ tab' = [k \in TabFields |-> tab'[k]]
    BY <1>2 DEF Releases
  <2> QED BY <2>1, <2>2, <2>3, <2>4, <2>5 DEF Shapes
<1>4. Counted'
  <2>1. Planning' \subseteq Planning
    <3>1. call' = [call EXCEPT ![h] = c] /\ (c.plan = NoPlan \/ c.plan = call[h].plan)
      BY DEF Releases
    <3> QED BY <1>0, <3>1, OthersPlan
  <2>2. Promised' <= Promised /\ Promised' \in Nat /\ Promised \in Nat
    BY <2>1, PromisedFewer, PromisedIs, PromisedNext
  <2>3. issued + Promised <= Len(Refs) /\ issued \in Nat /\ Len(Refs) \in Nat
    BY <1>0, SubmissionAssumption DEF Counted
  <2>4. issued' + Promised' <= Len(Refs)
    BY <2>2, <2>3 DEF Releases
  <2> QED BY <1>0, <1>2, <2>4 DEF Counted, Releases
<1>5. CallsHold'
  BY <1>0, <1>1, <1>2 DEF CallsHold, CallHolds, Releases
<1>6. \A v \in Writers : v # w => request[v].caller # h
  BY <1>0, SubmissionAssumption DEF Lines, Releases
<1>7. Lines'
  <2>1. ASSUME NEW v \in Writers PROVE Answerable(v)'
    BY <1>0, <1>1, <1>6 DEF Lines, Answerable, Releases
  <2>2. ASSUME NEW u \in Writers, NEW v \in Writers, u # v, request'[u].caller # Nobody
        PROVE  request'[u].caller # request'[v].caller
    BY <1>0, <1>1, <2>2 DEF Lines, Releases
  <2> QED BY <2>1, <2>2 DEF Lines
<1>8. BookKeyed'
  BY <1>0 DEF BookKeyed, Keyed, Ids, Releases
<1>9. ASSUME NEW v \in Writers PROVE RequestHolds(v)'
  BY <1>0, <1>1 DEF RequestsHold, RequestHolds, Keyed, Ids, Releases, Free
<1> QED BY <1>3, <1>4, <1>5, <1>7, <1>8, <1>9 DEF SubmitInv, RequestsHold

LEMMA AgainIs ==
    ASSUME NEW h, NEW answer, NEW c,
           c = IF Again(h, answer) THEN [Quiet EXCEPT !.pc = "reissue", !.plan = call[h].plan] ELSE Quiet
    PROVE  /\ DOMAIN c = CallFields
           /\ c = Quiet \/ (Again(h, answer) /\ c.pc = "reissue" /\ c.plan = call[h].plan /\ c.plan # NoPlan)
<1>1. PICK p : p = call[h].plan
  OBVIOUS
<1> DEFINE a == [Quiet EXCEPT !.pc = "reissue", !.plan = p]
<1>2. DOMAIN a = CallFields /\ a.pc = "reissue" /\ a.plan = p
  BY DEF Quiet, CallFields
<1> HIDE DEF a
<1>3. c = Quiet \/ (Again(h, answer) /\ c = a)
  BY <1>1 DEF a
<1> QED BY <1>1, <1>2, <1>3, FreeIs DEF Again

\* The answer to h's request in w is read: h's copy x of its intent is saved.
Answered(h, w, x, c) ==
    /\ call[h].pc = "posted" /\ request[w].pc = "done"
    /\ call[h].intent \in DOMAIN intents
    /\ x = Disposed(call[h].copy, writer[w].answer)
    /\ intents' = [intents EXCEPT ![call[h].intent] = x]
    /\ c = Quiet \/ (Again(h, writer[w].answer) /\ c.pc = "reissue" /\ c.plan = call[h].plan)
    /\ Releases(h, w, Free, Idle, c)

LEMMA ReceiveAnswers ==
    ASSUME Shapes, CallsHold, NEW h \in Calls, Receive(h)
    PROVE  \E w \in Writers : \E x, c : Answered(h, w, x, c)
<1>1. PICK w \in Writers :
          /\ request[w].pc = "done" /\ request[w].caller = h
          /\ LET answer == Outcome(w)
                 i == call[h].intent
                 intent == Disposed(call[h].copy, answer)
             IN  /\ intents' = Saved(intents, i, intent)
                 /\ call' = [call EXCEPT ![h] =
                        IF Again(h, answer) THEN [Quiet EXCEPT !.pc = "reissue", !.plan = call[h].plan] ELSE Quiet]
                 /\ Heard(call[h].chat, IF intent.status = "awaiting_correction"
                                        THEN CorrectionSlots(intent.scenario, answer.error) ELSE {})
          /\ request' = [request EXCEPT ![w] = Free]
          /\ writer' = [writer EXCEPT ![w] = Idle]
  BY DEF Receive
<1>2. call[h].pc = "posted" /\ UNCHANGED <<book, issued, about>>
  BY DEF Receive
<1>3. PICK answer, i, copy : answer = writer[w].answer /\ i = call[h].intent /\ copy = call[h].copy
  OBVIOUS
<1>4. i \in DOMAIN intents /\ DOMAIN copy = IntentFields
  BY <1>2, <1>3 DEF CallsHold, CallHolds
<1>5. PICK x : x = Disposed(copy, answer)
  OBVIOUS
<1>6. DOMAIN x = IntentFields
  BY <1>4, <1>5, DisposedIs
<1>7. PICK c : c = IF Again(h, answer) THEN [Quiet EXCEPT !.pc = "reissue", !.plan = call[h].plan] ELSE Quiet
  OBVIOUS
<1>8. /\ intents' = Saved(intents, i, x) /\ call' = [call EXCEPT ![h] = c]
      /\ \E fix : Heard(call[h].chat, fix)
  BY <1>1, <1>3, <1>5, <1>7 DEF Outcome
<1>9. tab' = [k \in TabFields |-> tab'[k]] /\ tab'.intent = tab.intent
  <2>1. PICK chat, fix : Heard(chat, fix)
    BY <1>8
  <2> QED BY <2>1, HeardIs
<1>10. intents' = [intents EXCEPT ![i] = x] /\ Table(intents', DOMAIN intents, IntentFields)
  <2>1. intents = [j \in DOMAIN intents |-> intents[j]]
    BY DEF Shapes, Table
  <2>2. DOMAIN intents \cup {i} = DOMAIN intents
    BY <1>4
  <2>3. intents' = [intents EXCEPT ![i] = x]
    BY <1>8, <2>1, <2>2 DEF Saved
  <2> QED BY <1>4, <1>6, <2>1, <2>3 DEF Shapes, Table
<1>11. /\ DOMAIN c = CallFields
       /\ c = Quiet \/ (Again(h, answer) /\ c.pc = "reissue" /\ c.plan = call[h].plan /\ c.plan # NoPlan)
  BY <1>7, AgainIs
<1>12. Releases(h, w, Free, Idle, c)
  BY <1>1, <1>2, <1>8, <1>9, <1>10, <1>11, FreeIs DEF Releases
<1>13. Answered(h, w, x, c)
  BY <1>1, <1>2, <1>3, <1>4, <1>5, <1>10, <1>11, <1>12 DEF Answered
<1> QED BY <1>13

LEMMA ReceiveKeeps ==
    ASSUME SubmitInv, NEW h \in Calls, Receive(h)
    PROVE  SubmitInv'
<1>0. /\ Shapes /\ Counted /\ CallsHold /\ Lines /\ BookKeyed /\ RequestsHold /\ AcceptedIsRecorded
  BY DEF SubmitInv
<1>1. PICK w \in Writers : \E x, c : Answered(h, w, x, c)
  BY <1>0, ReceiveAnswers
<1>2. PICK x, c : Answered(h, w, x, c)
  BY <1>1
<1>3. PICK i : i = call[h].intent /\ i \in DOMAIN intents /\ intents' = [intents EXCEPT ![i] = x]
  BY <1>2 DEF Answered
<1>4. x.status = "accepted" => x.reference \in Ids(book) /\ book[x.reference].cmd.ref = Refs[i]
  <2>1. PICK copy, answer : copy = call[h].copy /\ answer = writer[w].answer
    OBVIOUS
  <2>2. x = Disposed(copy, answer) /\ DOMAIN copy = IntentFields
    BY <1>0, <1>2, <2>1 DEF Answered, CallsHold, CallHolds
  <2>3. x.status = "accepted" => answer.status = "accepted" /\ x.reference = answer.id
    BY <2>2, DisposedIs
  <2>4. request[w].caller = h /\ request[w].pc = "done" /\ request[w].cmd.ref = Refs[i]
    BY <1>0, <1>2, <1>3, SubmissionAssumption DEF Answered, Releases, Lines, Answerable
  <2>5. answer.status = "accepted" => answer.id \in Ids(book) /\ book[answer.id].cmd.ref = Refs[i]
    BY <1>0, <2>1, <2>4 DEF RequestsHold, RequestHolds
  <2> QED BY <2>3, <2>5
<1>5. AcceptedIsRecorded'
  <2>1. book' = book
    BY <1>2 DEF Answered, Releases
  <2>2. /\ DOMAIN intents' = DOMAIN intents /\ intents'[i] = x
        /\ \A j \in DOMAIN intents : j # i => intents'[j] = intents[j]
    BY <1>3
  <2>3. AcceptedIsRecorded
    BY <1>0
  <2> QED BY <1>4, <2>1, <2>2, <2>3 DEF AcceptedIsRecorded, Ids
<1> QED BY <1>2, <1>5, ReleaseKeeps DEF Answered

\* h gives up waiting for the request in w, which goes on if it had arrived.
GivesUp(h, w, q) ==
    /\ call[h].pc = "posted" /\ UNCHANGED intents
    /\ Releases(h, w, q, writer[w], Quiet)

LEMMA TimeoutGivesUp ==
    ASSUME Shapes, CallsHold, RequestsHold, NEW h \in Calls, Timeout(h)
    PROVE  \E w \in Writers : \E q : GivesUp(h, w, q)
<1>1. PICK w \in Writers :
          /\ request[w].caller = h
          /\ \/ request' = [request EXCEPT ![w].caller = Nobody]
             \/ request[w].pc = "lookup" /\ request' = [request EXCEPT ![w] = Free]
  BY DEF Timeout
<1>2. /\ call[h].pc = "posted" /\ UNCHANGED <<book, writer, intents, issued, about>>
      /\ call' = [call EXCEPT ![h] = Quiet] /\ Heard(call[h].chat, {})
  BY DEF Timeout
<1>3. tab' = [k \in TabFields |-> tab'[k]] /\ tab'.intent = tab.intent
  <2>1. PICK chat, fix : Heard(chat, fix)
    BY <1>2
  <2> QED BY <2>1, HeardIs
<1>4. PICK l : l = request[w] /\ DOMAIN l = RequestFields
  BY DEF Shapes, Table
<1> DEFINE p == [l EXCEPT !.caller = Nobody]
<1>5. /\ DOMAIN p = RequestFields /\ p.caller = Nobody /\ p.pc = l.pc /\ p.cmd = l.cmd /\ p.related = l.related
  BY <1>4 DEF RequestFields
<1>6. PICK q : q \in {p, Free} /\ request' = [request EXCEPT ![w] = q]
  BY <1>1, <1>4 DEF Shapes, Table
<1> HIDE DEF p
<1>7. /\ writer' = [writer EXCEPT ![w] = writer[w]] /\ DOMAIN writer[w] = WriterFields
      /\ Table(intents', DOMAIN intents, IntentFields)
  BY <1>2 DEF Shapes, Table
<1>8. Releases(h, w, q, writer[w], Quiet)
  BY <1>1, <1>2, <1>3, <1>4, <1>5, <1>6, <1>7, FreeIs DEF Releases
<1>9. GivesUp(h, w, q)
  BY <1>2, <1>8 DEF GivesUp
<1> QED BY <1>9

LEMMA TimeoutKeeps ==
    ASSUME SubmitInv, NEW h \in Calls, Timeout(h)
    PROVE  SubmitInv'
<1>1. Shapes /\ CallsHold /\ RequestsHold /\ AcceptedIsRecorded
  BY DEF SubmitInv
<1>2. PICK w \in Writers : \E q : GivesUp(h, w, q)
  BY <1>1, TimeoutGivesUp
<1>3. PICK q : GivesUp(h, w, q)
  BY <1>2
<1>4. AcceptedIsRecorded'
  BY <1>1, <1>3 DEF AcceptedIsRecorded, Ids, GivesUp, Releases
<1>5. PICK r : r = writer[w]
  OBVIOUS
<1>6. Releases(h, w, q, r, Quiet)
  BY <1>3, <1>5 DEF GivesUp
<1> QED BY <1>4, <1>6, ReleaseKeeps

LEMMA LedgerRestartKeeps ==
    ASSUME SubmitInv, LedgerRestarts
    PROVE  SubmitInv'
<1>0. /\ Shapes /\ Counted /\ CallsHold /\ Lines /\ BookKeyed /\ RequestsHold /\ AcceptedIsRecorded
  BY DEF SubmitInv
<1>1. /\ UNCHANGED <<book, intents, issued, about>>
      /\ writer' = [w \in Writers |-> Idle] /\ request' = [w \in Writers |-> Free]
      /\ call' = [h \in Calls |-> IF call[h].pc = "posted" THEN Quiet ELSE call[h]]
      /\ tab' = [k \in TabFields |-> tab'[k]] /\ tab'.intent = tab.intent
  <2>1. PICK chat, fix : Heard(chat, fix)
    BY DEF LedgerRestarts
  <2>2. tab' = [k \in TabFields |-> tab'[k]] /\ tab'.intent = tab.intent
    BY <1>0, <2>1, HeardIs
  <2> QED BY <2>2 DEF LedgerRestarts
<1>2. \A h \in Calls : call'[h] = Quiet \/ (call[h].pc # "posted" /\ call'[h] = call[h])
  BY <1>1
<1>3. Shapes'
  BY <1>0, <1>1, FreeIs DEF Shapes, Table
<1>4. Counted'
  <2>1. Planning' \subseteq Planning
    BY <1>2, FreeIs DEF Planning
  <2>2. Promised' <= Promised /\ Promised' \in Nat /\ Promised \in Nat
    BY <2>1, PromisedFewer, PromisedIs, PromisedNext
  <2>3. issued + Promised <= Len(Refs) /\ issued \in Nat /\ Len(Refs) \in Nat
    BY <1>0, SubmissionAssumption DEF Counted
  <2>4. issued' + Promised' <= Len(Refs)
    BY <1>1, <2>2, <2>3
  <2> QED BY <1>0, <1>1, <2>4 DEF Counted
<1>5. CallsHold'
  BY <1>0, <1>1, <1>2, FreeIs DEF CallsHold, CallHolds
<1>6. Lines' /\ RequestsHold'
  BY <1>1, FreeIs DEF Lines, Answerable, RequestsHold, RequestHolds
<1>7. BookKeyed' /\ AcceptedIsRecorded'
  BY <1>0, <1>1 DEF BookKeyed, Keyed, Ids, AcceptedIsRecorded
<1> QED BY <1>3, <1>4, <1>5, <1>6, <1>7 DEF SubmitInv

LEMMA TreasuryRestartKeeps ==
    ASSUME SubmitInv, TreasuryRestarts
    PROVE  SubmitInv'
<1>0. /\ Shapes /\ Counted /\ CallsHold /\ Lines /\ BookKeyed /\ RequestsHold /\ AcceptedIsRecorded
  BY DEF SubmitInv
<1>1. /\ UNCHANGED <<book, writer, issued, about>>
      /\ intents' = <<>> /\ call' = [h \in Calls |-> Quiet]
      /\ request' = [w \in Writers |-> [request[w] EXCEPT !.caller = Nobody]]
      /\ tab' = [k \in TabFields |-> tab'[k]] /\ tab'.intent = tab.intent
  <2>1. PICK chat, fix : Heard(chat, fix)
    BY DEF TreasuryRestarts
  <2>2. tab' = [k \in TabFields |-> tab'[k]] /\ tab'.intent = tab.intent
    BY <1>0, <2>1, HeardIs
  <2> QED BY <2>2 DEF TreasuryRestarts
<1>2. ASSUME NEW w \in Writers
      PROVE  /\ DOMAIN request'[w] = RequestFields /\ request'[w].caller = Nobody
             /\ request'[w].pc = request[w].pc /\ request'[w].cmd = request[w].cmd
             /\ request'[w].related = request[w].related
  <2>1. PICK l : l = request[w] /\ DOMAIN l = RequestFields
    BY <1>0 DEF Shapes, Table
  <2> DEFINE p == [l EXCEPT !.caller = Nobody]
  <2>2. DOMAIN p = RequestFields /\ p.caller = Nobody /\ p.pc = l.pc /\ p.cmd = l.cmd /\ p.related = l.related
    BY <2>1 DEF RequestFields
  <2>3. request'[w] = p
    BY <1>1, <2>1
  <2> HIDE DEF p
  <2> QED BY <2>1, <2>2, <2>3
<1>3. Shapes'
  <2>1. request' = [w \in Writers |-> request'[w]]
    BY <1>1
  <2>2. Table(intents, DOMAIN intents, IntentFields)'
    BY <1>1 DEF Table
  <2> QED BY <1>0, <1>1, <1>2, <2>1, <2>2, FreeIs DEF Shapes, Table
<1>4. Counted'
  <2>1. Planning' \subseteq Planning
    BY <1>1, FreeIs DEF Planning
  <2>2. Promised' <= Promised /\ Promised' \in Nat /\ Promised \in Nat
    BY <2>1, PromisedFewer, PromisedIs, PromisedNext
  <2>3. issued + Promised <= Len(Refs) /\ issued \in Nat /\ Len(Refs) \in Nat
    BY <1>0, SubmissionAssumption DEF Counted
  <2>4. issued' + Promised' <= Len(Refs)
    BY <1>1, <2>2, <2>3
  <2>5. DOMAIN intents' = {}
    BY <1>1
  <2> QED BY <1>0, <1>1, <2>4, <2>5 DEF Counted
<1>5. CallsHold' /\ AcceptedIsRecorded'
  BY <1>1, FreeIs DEF CallsHold, CallHolds, AcceptedIsRecorded
<1>6. Lines' /\ RequestsHold'
  <2>1. UNCHANGED <<book, writer, issued>>
    BY <1>1
  <2>2. ASSUME NEW w \in Writers PROVE RequestHolds(w)'
    <3>1. /\ request'[w].pc = request[w].pc /\ request'[w].cmd = request[w].cmd
          /\ request'[w].related = request[w].related
      BY <1>2
    <3>2. RequestHolds(w)
      BY <1>0 DEF RequestsHold
    <3> QED BY <2>1, <3>1, <3>2 DEF RequestHolds, Keyed, Ids
  <2>3. Lines'
    BY <1>2 DEF Lines, Answerable
  <2> QED BY <2>2, <2>3 DEF RequestsHold
<1>7. BookKeyed'
  BY <1>0, <1>1 DEF BookKeyed, Keyed, Ids
<1> QED BY <1>3, <1>4, <1>5, <1>6, <1>7 DEF SubmitInv

-----------------------------------------------------------------------------
LEMMA SubmitStarts ==
    ASSUME SubInit
    PROVE  SubmitInv
<1>1. /\ book = <<>> /\ writer = [w \in Writers |-> Idle] /\ request = [w \in Writers |-> Free]
      /\ call = [h \in Calls |-> Quiet] /\ intents = <<>> /\ about = <<>> /\ issued = 0 /\ tab = Picking
  BY DEF SubInit, Init
<1>2. Shapes
  <2>1. tab = [k \in TabFields |-> tab[k]]
    BY <1>1 DEF Picking, TabFields
  <2>2. book \in Seq(Range(book))
    BY <1>1, EmptySeq
  <2>3. Table(writer, Writers, WriterFields) /\ Table(request, Writers, RequestFields)
        /\ Table(call, Calls, CallFields)
    BY <1>1, FreeIs DEF Table
  <2>4. Table(intents, DOMAIN intents, IntentFields)
    BY <1>1 DEF Table
  <2> QED BY <2>1, <2>2, <2>3, <2>4 DEF Shapes
<1>3. Promised = 0
  <2>1. Planning = {}
    BY <1>1, FreeIs DEF Planning
  <2> QED BY <2>1, PromisedIs, FS_EmptySet
<1>4. Counted
  BY <1>1, <1>3, SubmissionAssumption DEF Counted, Picking
<1>5. CallsHold /\ Lines /\ RequestsHold
  BY <1>1, FreeIs DEF CallsHold, CallHolds, Lines, Answerable, RequestsHold, RequestHolds
<1>6. BookKeyed /\ AcceptedIsRecorded
  BY <1>1 DEF BookKeyed, Ids, AcceptedIsRecorded
<1> QED BY <1>2, <1>4, <1>5, <1>6 DEF SubmitInv

LEMMA SubmitStep ==
    ASSUME SubmitInv, [SubNext]_allvars
    PROVE  SubmitInv'
<1>1. CASE UNCHANGED allvars
  <2>1. Speaks
    BY <1>1 DEF allvars, subvars, Speaks, SubmitInv, Shapes, Table
  <2> QED BY <2>1, SpeaksKeeps
<1>2. CASE Operator
  <2>1. CASE Converse \/ SelectPosition \/ Edit \/ Correct \/ Restart
    BY <2>1, TalkSpeaks, SpeaksKeeps DEF SubmitInv
  <2>2. CASE \E s \in Offered : SelectScenario(s)
    BY <2>2, SelectKeeps
  <2>3. CASE \E p \in Positions : StartFromPosition(p[1], p[2])
    BY <2>3, StartKeeps
  <2>4. CASE \E h \in Calls : Confirm(h)
    BY <2>4, ConfirmKeeps
  <2>5. CASE \E h \in Calls, target \in Ids(book), corrected \in Correcting : Rectify(h, target, corrected)
    BY <2>5, RectifyKeeps
  <2> QED BY <1>2, <2>1, <2>2, <2>3, <2>4, <2>5 DEF Operator
<1>3. CASE \E h \in Calls : Treasury(h) \/ Timeout(h)
  BY <1>3, ReceiveKeeps, ReissueKeeps, TimeoutKeeps DEF Treasury
<1>4. CASE \E w \in Writers : Ledger(w) \/ (\E c \in Commands : Stage(w, c))
  BY <1>4, LedgerKeeps
<1>5. CASE LedgerRestarts \/ TreasuryRestarts
  BY <1>5, LedgerRestartKeeps, TreasuryRestartKeeps
<1> QED BY <1>1, <1>2, <1>3, <1>4, <1>5 DEF SubNext

\* What the proofs below rest on holds in every state (Submission's actions).
THEOREM SubmitInvAlways == SubSpec => []SubmitInv
<1>1. SubInit => SubmitInv
  BY SubmitStarts
<1>2. SubmitInv /\ [SubNext]_allvars => SubmitInv'
  BY SubmitStep
<1> QED BY <1>1, <1>2, PTL DEF SubSpec

\* "ACCEPTED" is only ever shown with the reference of the fact the ledger recorded for that
\* intent, whatever is lost, retried, abandoned or restarted (SubmitIntent.execute).
THEOREM AcceptedRecorded == SubSpec => []AcceptedIsRecorded
<1>1. SubmitInv => AcceptedIsRecorded
  BY DEF SubmitInv
<1> QED BY <1>1, SubmitInvAlways, PTL

-----------------------------------------------------------------------------
(* The withdrawal posts a retraction of its target. *)

LEMMA RectificationSlots ==
    /\ MapOf("register_rectification") = register_rectification
    /\ "target" \in SlotKeys("register_rectification")
    /\ SlotOf("register_rectification", "target") = Asks("target", "EVENT_REF")
<1>1. REGISTRY["register_rectification"] = [slots |-> registerRectification, mapping |-> register_rectification]
  BY DEF REGISTRY
<1>2. PICK S : S = Range(registerRectification)
  OBVIOUS
<1>3. /\ Asks("target", "EVENT_REF") \in S
      /\ \A slot \in S : slot.key = "target" => slot = Asks("target", "EVENT_REF")
      /\ Asks("target", "EVENT_REF").key = "target"
  <2>1. /\ registerRectification[1] = Asks("target", "EVENT_REF")
        /\ registerRectification[2] = Asks("objectRef", "STRING")
        /\ registerRectification[3] = Picks("objectType", {"advance", "loan", "commission_receivable"})
        /\ registerRectification[4] = Amount
        /\ registerRectification[5] = May("reissue", "STRING")
        /\ DOMAIN registerRectification = 1 .. 5
    BY DEF registerRectification
  <2>2. /\ Asks("target", "EVENT_REF").key = "target"
        /\ Asks("objectRef", "STRING").key = "objectRef"
        /\ Picks("objectType", {"advance", "loan", "commission_receivable"}).key = "objectType"
        /\ Amount.key = "amount"
        /\ May("reissue", "STRING").key = "reissue"
    BY DEF Asks, Picks, May, Slot, Amount
  <2>3. S = {registerRectification[k] : k \in 1 .. 5}
    BY <1>2, <2>1 DEF Range
  <2>4. \A k \in 1 .. 5 : registerRectification[k].key = "target" => k = 1
    BY <2>1, <2>2
  <2> QED BY <2>1, <2>2, <2>3, <2>4
<1>4. "target" \in SlotKeys("register_rectification")
  BY <1>1, <1>2, <1>3 DEF SlotKeys
<1>5. SlotOf("register_rectification", "target") = (CHOOSE slot \in S : slot.key = "target")
  BY <1>1, <1>2 DEF SlotOf
<1>6. SlotOf("register_rectification", "target") = Asks("target", "EVENT_REF")
  BY <1>3, <1>5
<1> QED BY <1>1, <1>4, <1>6 DEF MapOf

LEMMA RectificationMap ==
    /\ register_rectification.relatedEventSlot = "target"
    /\ register_rectification.objects = <<Moves("ADVANCE", "RETRACTS")>>
    /\ \A choice \in DOMAIN register_rectification.byChoice :
          register_rectification.byChoice[choice].relation = "RETRACTS"
BY DEF register_rectification, Mapping, Moves

LEMMA RectificationRetracts ==
    ASSUME NEW i, NEW intent, intent.scenario = "register_rectification"
    PROVE  Carries(Candidate(i, intent), "RETRACTS")
<1>1. PICK answers : answers = intent.answers
  OBVIOUS
<1>2. PICK branch : branch = Branch(register_rectification, answers)
  OBVIOUS
<1>3. branch[1].relation = "RETRACTS"
  BY <1>2, RectificationMap DEF Branch, Moves
<1>4. PICK objects : objects = Candidate(i, intent).objects
  OBVIOUS
<1>5. 1 \in DOMAIN objects /\ objects[1].relation = "RETRACTS"
  BY <1>1, <1>2, <1>3, <1>4, RectificationSlots, RectificationMap DEF Candidate, build
<1> QED BY <1>4, <1>5 DEF Carries, Range

LEMMA WithdrawalTargets ==
    ASSUME NEW target \in Nat, NEW restated, NEW intent,
           intent = Applied(Started("register_rectification"), Withdrawal(target, restated), "fill")
    PROVE  /\ intent.scenario = "register_rectification"
           /\ RelatedTo(MapOf("register_rectification"), intent.answers) = target
<1>1. PICK s, batch, none :
         /\ s = Started("register_rectification") /\ batch = Withdrawal(target, restated) /\ none = s.answers
  OBVIOUS
<1>2. /\ DOMAIN s = IntentFields /\ s.scenario = "register_rectification" /\ none = <<>>
      /\ s.status = "gathering"
  BY <1>1, StartedIs
<1>3. "target" \in DOMAIN batch /\ batch["target"] = target
  BY <1>1 DEF Withdrawal
<1>4. PICK slot : slot = SlotOf("register_rectification", "target")
  OBVIOUS
<1>5. slot.type = "EVENT_REF"
  BY <1>4, RectificationSlots DEF Asks, Slot
<1>6. target # Blank
  BY SubmissionAssumption
<1>7. "target" \in Recordable("register_rectification", none, batch, "fill")
  <2>1. "target" \in DOMAIN batch \cap SlotKeys("register_rectification")
    BY <1>3, RectificationSlots
  <2>2. ~Filled(none, "target")
    BY <1>2 DEF Filled
  <2>3. validateAnswer(slot, target)
    BY <1>5 DEF validateAnswer
  <2> QED BY <1>3, <1>4, <1>5, <1>6, <2>1, <2>2, <2>3 DEF Recordable
<1>8. PICK answers : answers = Merged("register_rectification", none, batch, "fill")
  OBVIOUS
<1>9. "target" \in DOMAIN answers /\ answers["target"] = target
  <2>1. PICK keys : keys = Recordable("register_rectification", none, batch, "fill")
    OBVIOUS
  <2>2. Written("register_rectification", "target", target) = target
    BY <1>4, <1>5 DEF Written
  <2> QED BY <1>3, <1>6, <1>7, <1>8, <2>1, <2>2 DEF Merged
<1>10. /\ intent.scenario = "register_rectification"
       /\ intent.answers = answers
  <2>1. PICK x : x = Applied(s, batch, "fill")
    OBVIOUS
  <2>2. x.scenario = s.scenario
    BY <1>2, <2>1, AppliedIs
  <2>3. PICK changed : changed = [s EXCEPT !.answers = answers,
                                           !.status = IF Ready("register_rectification", answers)
                                                      THEN "awaiting_confirmation" ELSE "gathering"]
    OBVIOUS
  <2>4. changed.answers = answers
    BY <1>2, <2>3 DEF IntentFields
  <2>5. x = changed
    BY <1>1, <1>2, <1>7, <1>8, <2>1, <2>3 DEF Applied
  <2> QED BY <1>1, <1>2, <2>1, <2>2, <2>4, <2>5
<1>11. RelatedTo(register_rectification, answers) = target
  BY <1>9, RectificationMap DEF RelatedTo, Filled, Absent
<1> QED BY <1>10, <1>11, RectificationSlots

-----------------------------------------------------------------------------
(* An entry is recorded again only behind its retraction. *)

LEMMA RetractionStays ==
    ASSUME Grows, NEW target
    PROVE  /\ \A r \in Ids(book) : Retracts(book, r, target) => Retracts(book, r, target)'
           /\ Withdrawn(target) => Withdrawn(target)'
<1>1. \A r \in Ids(book) : Retracts(book, r, target) => r \in Ids(book)' /\ Retracts(book, r, target)'
  BY DEF Grows, Retracts, IsRetraction
<1> QED BY <1>1 DEF Withdrawn

\* Requests only end, or go on as they are.
Thins ==
    \A v \in Writers : request'[v].pc # "free" =>
        request[v].pc # "free" /\ request'[v].cmd = request[v].cmd /\ request'[v].related = request[v].related

LEMMA TrackedThins ==
    ASSUME Thins, UNCHANGED book, NEW i, NEW target, Tracked(i, target)
    PROVE  Tracked(i, target)'
BY DEF Thins, Tracked, Retracts, IsRetraction, Ids

\* What becomes of the withdrawals when nothing is posted or recorded.
Settles ==
    /\ UNCHANGED book /\ Thins
    /\ tab'.intent \in {tab.intent, None} \/ tab'.intent > issued
    /\ \A g \in Calls :
          \/ call'[g] = call[g]
          \/ call'[g].plan = NoPlan
          \/ call'[g].pc = "reissue" /\ call'[g].plan = call[g].plan /\ Withdrawn(call[g].plan.target)

LEMMA SettlesKeeps ==
    ASSUME SubmitInv, RestateInv, Settles, NEW g \in Calls
    PROVE  WithdrawalHolds(g)'
<1>0. /\ Counted /\ CallsHold /\ WithdrawalHolds(g)
  BY DEF SubmitInv, RestateInv
<1>1. Grows
  BY DEF Settles, Grows, Ids
<1>2. PICK target, i : target = call[g].plan.target /\ i = call[g].intent
  OBVIOUS
<1>3. CASE call'[g].plan = NoPlan
  BY <1>3 DEF WithdrawalHolds
<1>4. CASE call'[g] = call[g] /\ call[g].plan # NoPlan
  <2>1. target # None /\ (call[g].pc = "reissue" => Withdrawn(target)')
    BY <1>0, <1>1, <1>2, <1>4, RetractionStays DEF WithdrawalHolds
  <2>2. ASSUME call[g].pc = "posted" PROVE i # tab'.intent /\ Tracked(i, target)'
    <3>1. i # tab.intent /\ Tracked(i, target)
      BY <1>0, <1>2, <1>4, <2>2 DEF WithdrawalHolds
    <3>2. Tracked(i, target)'
      BY <3>1, TrackedThins DEF Settles
    <3>3. i \in 1 .. issued /\ issued \in Nat
      BY <1>0, <1>2, <2>2 DEF CallsHold, CallHolds, Counted
    <3> QED BY <3>1, <3>2, <3>3 DEF Settles, None
  <2> QED BY <1>2, <1>4, <2>1, <2>2 DEF WithdrawalHolds
<1>5. CASE /\ call'[g].pc = "reissue" /\ call'[g].plan = call[g].plan /\ call[g].plan # NoPlan
           /\ Withdrawn(call[g].plan.target)
  <2>1. target # None /\ Withdrawn(target)'
    BY <1>0, <1>1, <1>2, <1>5, RetractionStays DEF WithdrawalHolds
  <2> QED BY <1>2, <1>5, <2>1 DEF WithdrawalHolds
<1> QED BY <1>3, <1>4, <1>5 DEF Settles

\* The intents stay about what they are about.
LEMMA AboutKeeps ==
    ASSUME RestateInv, UNCHANGED <<book, about>>
    PROVE  /\ \A i \in DOMAIN about' : about'[i].entry # None => Withdrawn(about[i].entry)'
           /\ RestatedAfterRetraction'
BY DEF RestateInv, Withdrawn, RestatedAfterRetraction, Retracts, IsRetraction, Ids

\* A fresh intent is about no entry, or about one that is withdrawn; nothing in the book has
\* its reference yet.
LEMMA IssueAbout ==
    ASSUME SubmitInv, RestateInv, UNCHANGED book, NEW intent, NEW subject, Joins(intent, subject),
           issued + 1 \in DOMAIN Refs,
           subject.entry # None => Withdrawn(subject.entry)
    PROVE  /\ \A i \in DOMAIN about' : about'[i].entry # None => Withdrawn(about[i].entry)'
           /\ RestatedAfterRetraction'
<1>0. Counted /\ BookKeyed
  BY DEF SubmitInv
<1>1. PICK n : n = issued + 1 /\ n \in Nat /\ issued \in Nat
  BY <1>0 DEF Counted
<1>2. /\ DOMAIN about' = 1 .. n /\ about'[n] = subject
      /\ DOMAIN about = 1 .. issued /\ \A i \in 1 .. issued : about'[i] = about[i]
  BY <1>0, <1>1 DEF Joins, Counted
<1>3. \A e \in Ids(book) : book[e].cmd.ref # Refs[n]
  BY <1>0, <1>1 DEF BookKeyed, Keyed
<1>4. \A i \in 1 .. n : i # n => i \in 1 .. issued
  BY <1>1
<1>5. \A i \in DOMAIN about' : about'[i].entry # None => Withdrawn(about'[i].entry)
  BY <1>2, <1>4 DEF RestateInv
<1>6. RestatedAfterRetraction'
  <2>1. ASSUME NEW i \in DOMAIN about', NEW e \in Ids(book), about'[i].entry # None, book[e].cmd.ref = Refs[i]
        PROVE  \E r \in 1 .. e - 1 : Retracts(book, r, about'[i].entry)
    <3>1. i \in 1 .. issued
      BY <1>2, <1>3, <1>4, <2>1
    <3> QED BY <1>2, <2>1, <3>1 DEF RestateInv, RestatedAfterRetraction
  <2> QED BY <2>1 DEF RestatedAfterRetraction, Retracts, IsRetraction, Ids
<1> QED BY <1>5, <1>6 DEF Withdrawn, Retracts, IsRetraction, Ids

\* Another handler posts another intent.
LEMMA OtherPost ==
    ASSUME SubmitInv, RestateInv, NEW g \in Calls, NEW h \in Calls, g # h,
           NEW w \in Writers, NEW i, NEW intent, NEW plan, NEW q, NEW c,
           Posts(h, w, i, intent, plan, q, c), i \in DOMAIN Refs, i = tab.intent \/ i > issued,
           UNCHANGED <<book>>, tab'.intent = tab.intent
    PROVE  WithdrawalHolds(g)'
<1>0. /\ Shapes /\ Counted /\ CallsHold /\ WithdrawalHolds(g)
  BY DEF SubmitInv, RestateInv
<1>1. /\ call'[g] = call[g] /\ \A v \in Writers : v # w => request'[v] = request[v]
      /\ request'[w] = q /\ q.cmd.ref = Refs[i]
  BY <1>0 DEF Shapes, Table, Posts
<1>2. PICK target, j : target = call[g].plan.target /\ j = call[g].intent
  OBVIOUS
<1>3. ASSUME call[g].plan # NoPlan, call[g].pc = "posted" PROVE j # tab'.intent /\ Tracked(j, target)'
  <2>1. j # tab.intent /\ Tracked(j, target)
    BY <1>0, <1>2, <1>3 DEF WithdrawalHolds
  <2>2. j \in 1 .. issued /\ issued \in Nat /\ j \in DOMAIN Refs
    <3>1. j \in 1 .. issued /\ issued \in Nat /\ issued <= Len(Refs)
      BY <1>0, <1>2, <1>3, PromisedIs, SubmissionAssumption DEF CallsHold, CallHolds, Counted
    <3> QED BY <3>1, SubmissionAssumption
  <2>3. Refs[j] # Refs[i]
    BY <2>1, <2>2, SubmissionAssumption
  <2> QED BY <1>1, <2>1, <2>3 DEF Tracked, Retracts, IsRetraction, Ids
<1>4. call[g].plan # NoPlan => target # None /\ (call[g].pc = "reissue" => Withdrawn(target)')
  BY <1>0, <1>2 DEF WithdrawalHolds, Withdrawn, Retracts, IsRetraction, Ids
<1> QED BY <1>1, <1>2, <1>3, <1>4 DEF WithdrawalHolds

LEMMA SpeaksRestates ==
    ASSUME SubmitInv, RestateInv, Speaks
    PROVE  RestateInv'
<1>1. Settles
  BY DEF Speaks, Settles, Thins
<1>2. \A g \in Calls : WithdrawalHolds(g)'
  BY <1>1, SettlesKeeps
<1> QED BY <1>2, AboutKeeps DEF RestateInv, Speaks

LEMMA OpenRestates ==
    ASSUME SubmitInv, RestateInv, IntentsLeft(1), UNCHANGED <<book, writer, call, request>>,
           NEW intent, DOMAIN intent = IntentFields, NEW subject, subject.entry = None,
           Issue(intent, subject), tab'.intent = issued'
    PROVE  RestateInv'
<1>0. Shapes /\ Counted
  BY DEF SubmitInv
<1>1. Joins(intent, subject)
  BY <1>0, IssueJoins
<1>2. issued \in Nat /\ issued' = issued + 1 /\ issued + 1 <= Len(Refs)
  BY <1>0, <1>1, PromisedIs, SubmissionAssumption DEF Counted, Joins, IntentsLeft
<1>3. issued + 1 \in DOMAIN Refs
  <2>1. PICK n : n = issued
    OBVIOUS
  <2> QED BY <1>2, <2>1, ReferenceLeft
<1>4. Settles
  BY <1>2 DEF Settles, Thins
<1>5. \A g \in Calls : WithdrawalHolds(g)'
  BY <1>4, SettlesKeeps
<1>6. /\ \A i \in DOMAIN about' : about'[i].entry # None => Withdrawn(about[i].entry)'
      /\ RestatedAfterRetraction'
  BY <1>1, <1>3, IssueAbout
<1> QED BY <1>5, <1>6 DEF RestateInv

LEMMA SelectRestates ==
    ASSUME SubmitInv, RestateInv, NEW s, SelectScenario(s)
    PROVE  RestateInv'
<1>1. PICK x : x = Started(s) /\ DOMAIN x = IntentFields
  BY StartedIs
<1>2. PICK i : i = issued'
  OBVIOUS
<1>3. tab'.intent = issued'
  BY <1>1, <1>2, OpenedIs DEF SelectScenario
<1>4. IntentsLeft(1) /\ UNCHANGED <<book, writer, call, request>> /\ Issue(x, Anything)
  BY <1>1 DEF SelectScenario
<1>5. Anything.entry = None
  BY DEF Anything
<1> QED BY <1>1, <1>3, <1>4, <1>5, OpenRestates

LEMMA StartRestates ==
    ASSUME SubmitInv, RestateInv, NEW object, NEW objectType, StartFromPosition(object, objectType)
    PROVE  RestateInv'
<1>1. PICK action \in PositionActions(objectType) :
         LET intent == Applied(Started(action.scenario), Prefill(object, action), "fill") IN
             /\ Issue(intent, [Anything EXCEPT !.position = object,
                                                       !.origin = RelatedTo(MapOf(action.scenario),
                                                                            intent.answers)])
             /\ tab' = Opened(issued', intent)
  BY DEF StartFromPosition
<1>2. PICK s, batch : s = Started(action.scenario) /\ batch = Prefill(object, action)
  OBVIOUS
<1>3. PICK x : x = Applied(s, batch, "fill")
  OBVIOUS
<1>4. DOMAIN x = IntentFields
  <2>1. DOMAIN s = IntentFields
    BY <1>2, StartedIs
  <2> QED BY <1>3, <2>1, AppliedIs
<1>5. PICK origin : /\ Issue(x, [Anything EXCEPT !.position = object, !.origin = origin])
                    /\ tab' = Opened(issued', x)
  BY <1>1, <1>2, <1>3
<1>6. PICK subject : subject = [Anything EXCEPT !.position = object, !.origin = origin]
  OBVIOUS
<1>7. subject.entry = None
  BY <1>6 DEF Anything
<1>8. PICK i : i = issued'
  OBVIOUS
<1>9. tab'.intent = issued'
  BY <1>5, <1>8, OpenedIs
<1>10. IntentsLeft(1) /\ UNCHANGED <<book, writer, call, request>> /\ Issue(x, subject)
  BY <1>5, <1>6 DEF StartFromPosition
<1> QED BY <1>4, <1>7, <1>9, <1>10, OpenRestates

LEMMA ConfirmRestates ==
    ASSUME SubmitInv, RestateInv, NEW h \in Calls, Confirm(h)
    PROVE  RestateInv'
<1>0. /\ Shapes /\ Counted
  BY DEF SubmitInv
<1>1. UNCHANGED <<book, writer, intents, issued, about>>
  BY DEF Confirm
<1>2. tab'.intent = tab.intent
  <2>1. tab = [k \in TabFields |-> tab[k]]
    BY <1>0 DEF Shapes
  <2>2. \/ tab' = [tab EXCEPT !.card = FALSE, !.busy = TRUE]
        \/ tab' = [tab EXCEPT !.card = FALSE]
    BY DEF Confirm
  <2> QED BY <2>1, <2>2 DEF TabFields
<1>3. CASE UNCHANGED <<call, request>>
  <2>1. Settles
    BY <1>1, <1>2, <1>3 DEF Settles, Thins
  <2>2. \A g \in Calls : WithdrawalHolds(g)'
    BY <2>1, SettlesKeeps
  <2> QED BY <1>1, <2>2, AboutKeeps DEF RestateInv
<1>4. CASE Current # NoPlan /\ Post(h, tab.intent, Current, NoPlan, TRUE)
  <2>1. PICK i, x : i = tab.intent /\ x = Current /\ i \in DOMAIN intents /\ x = intents[i]
    BY <1>4, CurrentIs
  <2>2. DOMAIN x = IntentFields
    BY <1>0, <2>1 DEF Shapes, Table
  <2>3. PICK w \in Writers : \E q, c : Posts(h, w, i, x, NoPlan, q, c)
    BY <1>4, <2>1, <2>2, PostPosts
  <2>4. PICK q, c : Posts(h, w, i, x, NoPlan, q, c)
    BY <2>3
  <2>5. i \in DOMAIN Refs
    <3>1. i \in 1 .. issued /\ issued \in Nat /\ issued <= Len(Refs)
      BY <1>0, <2>1, PromisedIs, SubmissionAssumption DEF Counted
    <3> QED BY <3>1, SubmissionAssumption
  <2>6. ASSUME NEW g \in Calls, g # h PROVE WithdrawalHolds(g)'
    <3>1. PICK p : p = NoPlan
      OBVIOUS
    <3> QED BY <1>1, <1>2, <2>1, <2>4, <2>5, <2>6, OtherPost
  <2>7. WithdrawalHolds(h)'
    BY <1>0, <2>4 DEF WithdrawalHolds, Posts, Shapes, Table
  <2> QED BY <1>1, <2>6, <2>7, AboutKeeps DEF RestateInv
<1> QED BY <1>3, <1>4 DEF Confirm

\* A handler issues an intent and posts it at once; if it plans to record an entry again,
\* what it posts retracts that entry.
LEMMA IssuedPostRestates ==
    ASSUME SubmitInv, RestateInv, NEW h \in Calls, UNCHANGED <<book, tab>>,
           NEW intent, NEW subject, Joins(intent, subject), issued + 1 \in DOMAIN Refs,
           subject.entry # None => Withdrawn(subject.entry),
           NEW w \in Writers, NEW plan, NEW q, NEW c, Posts(h, w, issued + 1, intent, plan, q, c),
           plan # NoPlan => plan.target # None /\ q.related = plan.target /\ Carries(q.cmd, "RETRACTS")
    PROVE  RestateInv'
<1>0. /\ Shapes /\ Counted /\ BookKeyed /\ RequestsHold
  BY DEF SubmitInv
<1>1. PICK i : i = issued + 1 /\ i > issued /\ i \in Nat
  BY <1>0 DEF Counted
<1>2. ASSUME NEW g \in Calls, g # h PROVE WithdrawalHolds(g)'
  <2>1. Posts(h, w, i, intent, plan, q, c) /\ i \in DOMAIN Refs
    BY <1>1
  <2> QED BY <1>1, <1>2, <2>1, OtherPost
<1>3. WithdrawalHolds(h)'
  <2>1. /\ call'[h] = c /\ c.pc = "posted" /\ c.intent = i /\ c.plan = plan
        /\ request'[w] = q /\ \A v \in Writers : v # w => request'[v] = request[v]
    BY <1>0, <1>1 DEF Shapes, Table, Posts
  <2>2. /\ \A v \in Writers : request[v].pc # "free" => request[v].cmd.ref # Refs[i]
        /\ \A e \in Ids(book) : book[e].cmd.ref # Refs[i]
    BY <1>0, <1>1 DEF Counted, RequestsHold, RequestHolds, BookKeyed, Keyed
  <2>3. i # tab.intent
    BY <1>0, <1>1 DEF Counted, None
  <2>4. ASSUME plan # NoPlan PROVE Tracked(i, plan.target)'
    BY <2>1, <2>2, <2>4 DEF Tracked, Ids
  <2> QED BY <2>1, <2>3, <2>4 DEF WithdrawalHolds
<1>4. /\ \A j \in DOMAIN about' : about'[j].entry # None => Withdrawn(about[j].entry)'
      /\ RestatedAfterRetraction'
  BY IssueAbout
<1> QED BY <1>2, <1>3, <1>4 DEF RestateInv

\* A handler issues an intent and ends there.
LEMMA IssuedOnlyRestates ==
    ASSUME SubmitInv, RestateInv, NEW h \in Calls, UNCHANGED <<book, tab, request>>,
           NEW intent, NEW subject, Joins(intent, subject), issued + 1 \in DOMAIN Refs,
           subject.entry # None => Withdrawn(subject.entry), call' = [call EXCEPT ![h] = Quiet]
    PROVE  RestateInv'
<1>1. \A g \in Calls : call'[g] = call[g] \/ call'[g].plan = NoPlan
  BY FreeIs DEF SubmitInv, Shapes, Table
<1>2. Settles
  BY <1>1 DEF Settles, Thins
<1>3. \A g \in Calls : WithdrawalHolds(g)'
  BY <1>2, SettlesKeeps
<1>4. /\ \A j \in DOMAIN about' : about'[j].entry # None => Withdrawn(about[j].entry)'
      /\ RestatedAfterRetraction'
  BY IssueAbout
<1> QED BY <1>3, <1>4 DEF RestateInv

LEMMA RectifyRestates ==
    ASSUME SubmitInv, RestateInv, NEW h \in Calls, NEW target \in Ids(book), NEW corrected,
           Rectify(h, target, corrected)
    PROVE  RestateInv'
<1>0. Shapes /\ Counted
  BY DEF SubmitInv
<1>1. PICK s, batch : s = Started("register_rectification") /\ batch = Withdrawal(target, corrected # NoPlan)
  OBVIOUS
<1>2. PICK x : x = Applied(s, batch, "fill")
  OBVIOUS
<1>3. DOMAIN x = IntentFields
  <2>1. DOMAIN s = IntentFields
    BY <1>1, StartedIs
  <2> QED BY <1>2, <2>1, AppliedIs
<1>4. PICK p : p = IF corrected = NoPlan THEN NoPlan
                   ELSE [target |-> target, scenario |-> planReissue(book[target]).scenario,
                         answers |-> [planReissue(book[target]).answers EXCEPT !.amount = corrected]]
  OBVIOUS
<1>5. /\ Issue(x, Anything) /\ PostIfReady(h, issued', x, p) /\ UNCHANGED <<book, writer, tab>>
      /\ IntentsLeft(1) \/ IntentsLeft(2)
  BY <1>1, <1>2, <1>4 DEF Rectify
<1>6. Joins(x, Anything)
  BY <1>0, <1>3, <1>5, IssueJoins
<1>7. PICK i : i = issued + 1 /\ i = issued'
  BY <1>6 DEF Joins
<1>10. issued + 1 \in DOMAIN Refs
  <2>1. PICK n : n = issued
    OBVIOUS
  <2>2. issued \in Nat /\ issued + 1 <= Len(Refs)
    BY <1>0, <1>5, PromisedIs, SubmissionAssumption DEF Counted, IntentsLeft
  <2> QED BY <2>1, <2>2, ReferenceLeft
<1>11. Anything.entry = None
  BY DEF Anything
<1>12. target \in Nat /\ target # None
  <2>1. target \in DOMAIN book /\ book \in Seq(Range(book))
    BY <1>0 DEF Ids, Shapes
  <2>2. PICK R : R = Range(book)
    OBVIOUS
  <2>3. DOMAIN book = 1 .. Len(book) /\ Len(book) \in Nat
    BY <2>1, <2>2
  <2> QED BY <2>1, <2>3 DEF None
<1>13. x.scenario = "register_rectification" /\ RelatedTo(MapOf("register_rectification"), x.answers) = target
  <2>1. PICK restated : restated = (corrected # NoPlan)
    OBVIOUS
  <2>2. x = Applied(Started("register_rectification"), Withdrawal(target, restated), "fill")
    BY <1>1, <1>2, <2>1
  <2> QED BY <1>12, <2>2, WithdrawalTargets
<1>14. p # NoPlan => p.target = target
  BY <1>4
<1>15. UNCHANGED <<book, tab>>
  BY <1>5
<1>16. CASE Post(h, issued', x, p, FALSE)
  <2>1. PICK w \in Writers : \E q, c : Posts(h, w, i, x, p, q, c)
    BY <1>3, <1>7, <1>16, PostPosts
  <2>2. PICK q, c : Posts(h, w, i, x, p, q, c)
    BY <2>1
  <2>3. q.related = target /\ Carries(q.cmd, "RETRACTS")
    BY <1>13, <2>2, RectificationRetracts DEF Posts
  <2>4. Posts(h, w, issued + 1, x, p, q, c)
    BY <1>7, <2>2
  <2>5. p # NoPlan => p.target # None /\ q.related = p.target /\ Carries(q.cmd, "RETRACTS")
    BY <1>12, <1>14, <2>3
  <2> QED BY <1>6, <1>10, <1>11, <1>15, <2>4, <2>5, IssuedPostRestates
<1>17. CASE call' = [call EXCEPT ![h] = Quiet] /\ UNCHANGED request
  BY <1>6, <1>10, <1>11, <1>15, <1>17, IssuedOnlyRestates
<1> QED BY <1>5, <1>16, <1>17 DEF PostIfReady

LEMMA ReissueRestates ==
    ASSUME SubmitInv, RestateInv, NEW h \in Calls, Reissue(h)
    PROVE  RestateInv'
<1>0. /\ Shapes /\ Counted /\ CallsHold /\ WithdrawalHolds(h)
  BY DEF SubmitInv, RestateInv
<1>1. PICK s, batch : s = Started(call[h].plan.scenario) /\ batch = call[h].plan.answers
  OBVIOUS
<1>2. PICK x : x = Applied(s, batch, "fill")
  OBVIOUS
<1>3. DOMAIN x = IntentFields
  <2>1. DOMAIN s = IntentFields
    BY <1>1, StartedIs
  <2> QED BY <1>2, <2>1, AppliedIs
<1>4. PICK target : target = call[h].plan.target
  OBVIOUS
<1>5. PICK subject : subject = [Anything EXCEPT !.entry = target]
  OBVIOUS
<1>6. /\ Issue(x, subject) /\ UNCHANGED <<book, writer, tab>> /\ call[h].pc = "reissue"
      /\ \/ Post(h, issued', x, NoPlan, FALSE)
         \/ call' = [call EXCEPT ![h] = Quiet] /\ UNCHANGED request
  BY <1>1, <1>2, <1>4, <1>5 DEF Reissue, PostIfReady
<1>7. Joins(x, subject)
  BY <1>0, <1>3, <1>6, IssueJoins
<1>8. PICK i : i = issued + 1 /\ i = issued'
  BY <1>7 DEF Joins
<1>9. subject.entry = target /\ Withdrawn(target) /\ h \in Planning
  BY <1>0, <1>4, <1>5, <1>6 DEF CallsHold, CallHolds, WithdrawalHolds, Planning, Anything
<1>10. issued + 1 \in DOMAIN Refs
  <2>1. PICK n, k : n = issued /\ k = Promised
    OBVIOUS
  <2>2. n \in Nat /\ k \in Nat /\ n + k <= Len(Refs) /\ Len(Refs) \in Nat
    BY <1>0, <2>1, PromisedIs, SubmissionAssumption DEF Counted
  <2>3. k # 0
    <3>1. k = Cardinality(Planning) /\ IsFiniteSet(Planning)
      BY <2>1, PromisedIs
    <3> QED BY <1>9, <3>1, FS_EmptySet
  <2> QED BY <2>1, <2>2, <2>3, ReferenceLeft
<1>11. CASE Post(h, issued', x, NoPlan, FALSE)
  <2>1. PICK w \in Writers : \E q, c : Posts(h, w, i, x, NoPlan, q, c)
    BY <1>3, <1>8, <1>11, PostPosts
  <2>2. PICK q, c, p : Posts(h, w, i, x, p, q, c) /\ p = NoPlan
    BY <2>1
  <2>3. Posts(h, w, issued + 1, x, p, q, c) /\ UNCHANGED <<book, tab>>
    BY <1>6, <1>8, <2>2
  <2>4. subject.entry # None => Withdrawn(subject.entry)
    BY <1>9
  <2> QED BY <1>7, <1>10, <2>2, <2>3, <2>4, IssuedPostRestates
<1>12. CASE call' = [call EXCEPT ![h] = Quiet] /\ UNCHANGED request
  <2>1. UNCHANGED <<book, tab, request>> /\ (subject.entry # None => Withdrawn(subject.entry))
    BY <1>6, <1>9, <1>12
  <2> QED BY <1>7, <1>10, <1>12, <2>1, IssuedOnlyRestates
<1> QED BY <1>6, <1>11, <1>12

LEMMA ReleaseSettles ==
    ASSUME Shapes, NEW h \in Calls, NEW w \in Writers, NEW q, NEW r, NEW c, Releases(h, w, q, r, c),
           \/ c = Quiet
           \/ c.pc = "reissue" /\ c.plan = call[h].plan /\ Withdrawn(call[h].plan.target)
    PROVE  Settles
<1>1. /\ \A v \in Writers : v # w => request'[v] = request[v]
      /\ \A g \in Calls : g # h => call'[g] = call[g]
      /\ request'[w] = q /\ call'[h] = c
  BY DEF Shapes, Table, Releases
<1>2. Thins
  <2>1. \/ q = Free
        \/ q.pc = request[w].pc /\ q.cmd = request[w].cmd /\ q.related = request[w].related
    BY DEF Releases
  <2> QED BY <1>1, <2>1, FreeIs DEF Thins
<1>3. UNCHANGED book /\ tab'.intent = tab.intent
  BY DEF Releases
<1> QED BY <1>1, <1>2, <1>3, FreeIs DEF Settles

LEMMA ReceiveRestates ==
    ASSUME SubmitInv, RestateInv, NEW h \in Calls, Receive(h)
    PROVE  RestateInv'
<1>0. /\ Shapes /\ CallsHold /\ Lines /\ RequestsHold /\ WithdrawalHolds(h)
  BY DEF SubmitInv, RestateInv
<1>1. PICK w \in Writers : \E x, c : Answered(h, w, x, c)
  BY <1>0, ReceiveAnswers
<1>2. PICK x, c : Answered(h, w, x, c)
  BY <1>1
<1>3. Releases(h, w, Free, Idle, c)
  BY <1>2 DEF Answered
<1>4. ASSUME c # Quiet
      PROVE  c.pc = "reissue" /\ c.plan = call[h].plan /\ Withdrawn(call[h].plan.target)
  <2>1. /\ c.pc = "reissue" /\ c.plan = call[h].plan
        /\ call[h].plan # NoPlan /\ writer[w].answer.status = "accepted"
    BY <1>2, <1>4 DEF Answered, Again
  <2>2. PICK i, target : i = call[h].intent /\ target = call[h].plan.target
    OBVIOUS
  <2>3. /\ request[w].pc = "done" /\ request[w].caller = h /\ call[h].pc = "posted"
        /\ request[w].cmd.ref = Refs[i]
    BY <1>0, <1>2, <1>3, <2>2, SubmissionAssumption DEF Answered, Releases, Lines, Answerable
  <2>4. PICK e : e = writer[w].answer.id /\ e \in Ids(book) /\ book[e].cmd.ref = Refs[i]
    BY <1>0, <2>1, <2>3 DEF RequestsHold, RequestHolds
  <2>5. Tracked(i, target)
    BY <1>0, <2>1, <2>2, <2>3 DEF WithdrawalHolds
  <2>6. Retracts(book, e, target)
    BY <2>4, <2>5 DEF Tracked
  <2> QED BY <2>1, <2>2, <2>4, <2>6 DEF Withdrawn
<1>5. Settles
  <2>1. PICK q, r : q = Free /\ r = Idle
    OBVIOUS
  <2>2. Releases(h, w, q, r, c)
    BY <1>3, <2>1
  <2> QED BY <1>0, <1>4, <2>2, ReleaseSettles
<1>6. \A g \in Calls : WithdrawalHolds(g)'
  BY <1>5, SettlesKeeps
<1>7. UNCHANGED <<book, about>>
  BY <1>3 DEF Releases
<1> QED BY <1>6, <1>7, AboutKeeps DEF RestateInv

LEMMA TimeoutRestates ==
    ASSUME SubmitInv, RestateInv, NEW h \in Calls, Timeout(h)
    PROVE  RestateInv'
<1>0. Shapes /\ CallsHold /\ RequestsHold
  BY DEF SubmitInv
<1>1. PICK w \in Writers : \E q : GivesUp(h, w, q)
  BY <1>0, TimeoutGivesUp
<1>2. PICK q, r, c : Releases(h, w, q, r, c) /\ c = Quiet
  BY <1>1 DEF GivesUp
<1>3. Settles
  BY <1>0, <1>2, ReleaseSettles
<1>4. \A g \in Calls : WithdrawalHolds(g)'
  BY <1>3, SettlesKeeps
<1>5. UNCHANGED <<book, about>>
  BY <1>2 DEF Releases
<1> QED BY <1>4, <1>5, AboutKeeps DEF RestateInv

LEMMA RestartRestates ==
    ASSUME SubmitInv, RestateInv, LedgerRestarts \/ TreasuryRestarts
    PROVE  RestateInv'
<1>0. Shapes
  BY DEF SubmitInv
<1>1. UNCHANGED <<book, about>> /\ \E chat, fix : Heard(chat, fix)
  BY DEF LedgerRestarts, TreasuryRestarts
<1>2. tab'.intent = tab.intent
  <2>1. PICK chat, fix : Heard(chat, fix)
    BY <1>1
  <2> QED BY <1>0, <2>1, HeardIs
<1>3. CASE LedgerRestarts
  <2>1. /\ request' = [w \in Writers |-> Free]
        /\ call' = [h \in Calls |-> IF call[h].pc = "posted" THEN Quiet ELSE call[h]]
    BY <1>3 DEF LedgerRestarts
  <2>2. Settles
    BY <1>1, <1>2, <2>1, FreeIs DEF Settles, Thins
  <2>3. \A g \in Calls : WithdrawalHolds(g)'
    BY <2>2, SettlesKeeps
  <2> QED BY <1>1, <2>3, AboutKeeps DEF RestateInv
<1>4. CASE TreasuryRestarts
  <2>1. \A g \in Calls : call'[g].plan = NoPlan
    BY <1>4, FreeIs DEF TreasuryRestarts
  <2>2. \A g \in Calls : WithdrawalHolds(g)'
    BY <2>1 DEF WithdrawalHolds
  <2> QED BY <1>1, <2>2, AboutKeeps DEF RestateInv
<1> QED BY <1>3, <1>4

\* A step of the ledger records nothing but the withdrawal under the withdrawal's reference.
LEMMA TrackedMoves ==
    ASSUME Shapes, NEW w \in Writers, NEW q, NEW r, LedgerMoves(w, q, r),
           NEW i \in DOMAIN Refs, NEW target, target # None, Tracked(i, target)
    PROVE  Tracked(i, target)'
<1>0. (\A v \in Writers : v # w => request'[v] = request[v]) /\ request'[w] = q
  BY DEF LedgerMoves, Shapes, Table
<1>1. Grows
  BY MovesGrow
<1>2. q.pc # "free" /\ q.cmd.ref = Refs[i] =>
         /\ q.related = target /\ Carries(q.cmd, "RETRACTS")
         /\ request[w].pc # "free" /\ q.cmd = request[w].cmd /\ q.related = request[w].related
  <2>1. CASE Carried(w, q, r)
    BY <2>1 DEF Carried, Tracked
  <2>2. CASE TakenUp(w, q, r)
    <3>1. \A c \in Commands : c.ref # Refs[i]
      <4>1. Refs[i] \in Range(Refs)
        BY DEF Range
      <4> QED BY <4>1, SubmissionAssumption
    <3> QED BY <2>2, <3>1 DEF TakenUp
  <2>3. CASE Forgotten(w, q)
    BY <2>3, FreeIs DEF Forgotten
  <2> QED BY <2>1, <2>2, <2>3 DEF LedgerMoves
<1>3. ASSUME NEW v \in Writers, request'[v].pc # "free", request'[v].cmd.ref = Refs[i]
      PROVE  request'[v].related = target /\ Carries(request'[v].cmd, "RETRACTS")
  BY <1>0, <1>2, <1>3 DEF Tracked
<1>4. ASSUME NEW e \in Ids(book)', book'[e].cmd.ref = Refs[i] PROVE Retracts(book, e, target)'
  <2>1. CASE e \in Ids(book)
    BY <1>1, <1>4, <2>1, RetractionStays DEF Tracked, Grows
  <2>2. CASE e \notin Ids(book)
    <3>1. PICK new : Joined(new) /\ new.cmd = q.cmd /\ new.related = q.related /\ q.pc = "done"
      BY <2>2, <1>4 DEF LedgerMoves, Carried, TakenUp, Forgotten, Ids
    <3>2. book'[e] = new
      BY <1>4, <2>2, <3>1 DEF Joined
    <3>3. new.related = target /\ Carries(new.cmd, "RETRACTS")
      BY <1>2, <1>4, <3>1, <3>2
    <3> QED BY <3>2, <3>3 DEF Retracts, IsRetraction
  <2> QED BY <2>1, <2>2
<1> QED BY <1>3, <1>4 DEF Tracked

LEMMA LedgerStepRestates ==
    ASSUME SubmitInv, RestateInv, NEW w \in Writers, Ledger(w) \/ \E c \in Commands : Stage(w, c)
    PROVE  RestateInv'
<1>0. /\ Shapes /\ Counted /\ CallsHold /\ RequestsHold
  BY DEF SubmitInv
<1>1. PICK q, r : LedgerMoves(w, q, r)
  BY <1>0, LedgerStepMoves
<1>2. UNCHANGED <<intents, issued, tab, call, about>> /\ Grows
  BY <1>1, MovesGrow DEF LedgerMoves
<1>3. ASSUME NEW g \in Calls PROVE WithdrawalHolds(g)'
  <2>1. PICK i, target : i = call[g].intent /\ target = call[g].plan.target
    OBVIOUS
  <2>2. ASSUME call[g].plan # NoPlan, call[g].pc = "posted"
        PROVE  i # tab.intent /\ Tracked(i, target)'
    <3>1. i # tab.intent /\ Tracked(i, target) /\ target # None
      BY <2>1, <2>2 DEF RestateInv, WithdrawalHolds
    <3>2. i \in DOMAIN Refs
      <4>1. i \in 1 .. issued /\ issued \in Nat /\ issued <= Len(Refs)
        BY <1>0, <2>1, <2>2, PromisedIs, SubmissionAssumption DEF CallsHold, CallHolds, Counted
      <4> QED BY <4>1, SubmissionAssumption
    <3> QED BY <1>0, <1>1, <3>1, <3>2, TrackedMoves
  <2>3. call[g].plan # NoPlan => target # None /\ (call[g].pc = "reissue" => Withdrawn(target)')
    BY <1>2, <2>1, RetractionStays DEF RestateInv, WithdrawalHolds
  <2> QED BY <1>2, <2>1, <2>2, <2>3 DEF WithdrawalHolds
<1>4. \A i \in DOMAIN about' : about'[i].entry # None => Withdrawn(about[i].entry)'
  <2>1. ASSUME NEW i \in DOMAIN about, about[i].entry # None PROVE Withdrawn(about[i].entry)'
    <3>1. PICK t : t = about[i].entry
      OBVIOUS
    <3>2. Withdrawn(t)'
      BY <1>2, <2>1, <3>1, RetractionStays DEF RestateInv
    <3> QED BY <1>2, <3>1, <3>2
  <2> QED BY <1>2, <2>1
<1>5. RestatedAfterRetraction'
  <2>1. ASSUME NEW i \in DOMAIN about, NEW t, t = about[i].entry, t # None,
               NEW e \in Ids(book)', book'[e].cmd.ref = Refs[i]
        PROVE  \E r2 \in 1 .. e - 1 : Retracts(book, r2, t)'
    <3>1. Len(book) \in Nat /\ Ids(book) = 1 .. Len(book)
      <4>1. PICK R : R = Range(book)
        OBVIOUS
      <4> QED BY <1>0, <4>1 DEF Shapes, Ids
    <3>2. CASE e \in Ids(book)
      <4>1. book[e].cmd.ref = Refs[i]
        BY <1>2, <2>1, <3>2 DEF Grows
      <4>2. PICK r2 \in 1 .. e - 1 : Retracts(book, r2, t)
        BY <2>1, <3>2, <4>1 DEF RestateInv, RestatedAfterRetraction
      <4>3. r2 \in Ids(book)
        BY <3>1, <3>2
      <4> QED BY <1>2, <4>2, <4>3, RetractionStays
    <3>3. CASE e \notin Ids(book)
      <4>1. PICK new : Joined(new)
        BY <3>3, <2>1, <1>1 DEF LedgerMoves, Carried, TakenUp, Forgotten, Ids
      <4>2. e = Len(book) + 1
        BY <2>1, <3>3, <4>1 DEF Joined
      <4>3. PICK r2 \in Ids(book) : Retracts(book, r2, t)
        BY <2>1 DEF RestateInv, Withdrawn
      <4>4. r2 \in 1 .. e - 1
        BY <3>1, <4>2
      <4> QED BY <1>2, <4>3, <4>4, RetractionStays
    <3> QED BY <3>2, <3>3
  <2> QED BY <1>2, <2>1 DEF RestatedAfterRetraction
<1> QED BY <1>3, <1>4, <1>5 DEF RestateInv

LEMMA RestateStep ==
    ASSUME SubmitInv, RestateInv, [SubNext]_allvars
    PROVE  RestateInv'
<1>1. CASE UNCHANGED allvars
  <2>1. Speaks
    BY <1>1 DEF allvars, subvars, Speaks, SubmitInv, Shapes, Table
  <2> QED BY <2>1, SpeaksRestates
<1>2. CASE Operator
  <2>1. CASE Converse \/ SelectPosition \/ Edit \/ Correct \/ Restart
    BY <2>1, TalkSpeaks, SpeaksRestates DEF SubmitInv
  <2>2. CASE \E s \in Offered : SelectScenario(s)
    BY <2>2, SelectRestates
  <2>3. CASE \E p \in Positions : StartFromPosition(p[1], p[2])
    BY <2>3, StartRestates
  <2>4. CASE \E h \in Calls : Confirm(h)
    BY <2>4, ConfirmRestates
  <2>5. CASE \E h \in Calls, target \in Ids(book), corrected \in Correcting : Rectify(h, target, corrected)
    BY <2>5, RectifyRestates
  <2> QED BY <1>2, <2>1, <2>2, <2>3, <2>4, <2>5 DEF Operator
<1>3. CASE \E h \in Calls : Treasury(h) \/ Timeout(h)
  BY <1>3, ReceiveRestates, ReissueRestates, TimeoutRestates DEF Treasury
<1>4. CASE \E w \in Writers : Ledger(w) \/ (\E c \in Commands : Stage(w, c))
  BY <1>4, LedgerStepRestates
<1>5. CASE LedgerRestarts \/ TreasuryRestarts
  BY <1>5, RestartRestates
<1> QED BY <1>1, <1>2, <1>3, <1>4, <1>5 DEF SubNext

\* "Reissuing first would leave both entries standing and DOUBLE the figure"
\* (SubmitRectification): a corrected entry is only ever recorded behind the retraction of the
\* entry it corrects, whatever is lost, retried or restarted in between.
THEOREM RestatedBehindRetraction == SubSpec => []RestatedAfterRetraction
<1>1. SubInit => SubmitInv /\ RestateInv
  <2>1. SubInit => RestateInv
    <3>1. SubInit => about = <<>> /\ call = [h \in Calls |-> Quiet]
      BY DEF SubInit
    <3> QED BY <3>1, FreeIs DEF RestateInv, WithdrawalHolds, RestatedAfterRetraction
  <2> QED BY <2>1, SubmitStarts
<1>2. SubmitInv /\ RestateInv /\ [SubNext]_allvars => SubmitInv' /\ RestateInv'
  BY SubmitStep, RestateStep
<1>3. SubmitInv /\ RestateInv => RestatedAfterRetraction
  BY DEF RestateInv
<1> QED BY <1>1, <1>2, <1>3, PTL DEF SubSpec

-----------------------------------------------------------------------------
(* The refinement of Proposals, when the treasury serves one submission at a time and hears *)
(* every answer.                                                                           *)

\* The request in w is made for the intent i.
Asking(w, i) == request[w].pc # "free" /\ request[w].cmd.ref = Refs[i]

\* A request made for an intent the treasury has is waited for.
Attended == \A w \in Writers, i \in DOMAIN intents : Asking(w, i) => request[w].caller # Nobody

\* No intent has two requests.
OneRequest ==
    \A v, w \in Writers, i \in DOMAIN Refs : v # w /\ Asking(v, i) => ~Asking(w, i)

\* A request past its lookup that no event answers has none in the book.
Pending(w) ==
    \/ request[w].pc \in {"validate", "execute"}
    \/ request[w].pc = "done" /\ writer[w].answer.status # "accepted"

Unrecorded(i) == \A e \in Ids(book) : book[e].cmd.ref # Refs[i]

PendingUnrecorded == \A w \in Writers, i \in DOMAIN Refs : Asking(w, i) /\ Pending(w) => Unrecorded(i)

ProposalInv == Attended /\ OneRequest /\ PendingUnrecorded

LEMMA NothingAsked ==
    ASSUME Shapes, Counted, RequestsHold, issued + 1 \in DOMAIN Refs
    PROVE  \A v \in Writers : ~Asking(v, issued + 1)
<1>1. PICK n : n = issued /\ n \in Nat
  BY DEF Counted
<1>2. ~(n + 1 <= n)
  BY <1>1
<1>3. ASSUME NEW v \in Writers, Asking(v, n + 1) PROVE FALSE
  BY <1>1, <1>2, <1>3 DEF Asking, RequestsHold, RequestHolds, Keyed
<1> QED BY <1>1, <1>3

LEMMA IssuedRefs ==
    ASSUME Counted
    PROVE  /\ \A i \in DOMAIN intents : i \in DOMAIN Refs /\ i <= issued
           /\ \A i \in 1 .. issued : i \in DOMAIN Refs
           /\ issued \in Nat /\ issued <= Len(Refs) /\ Len(Refs) \in Nat
<1>1. issued \in Nat /\ issued <= Len(Refs) /\ Len(Refs) \in Nat
  BY PromisedIs, SubmissionAssumption DEF Counted
<1>2. \A i \in 1 .. issued : i \in DOMAIN Refs /\ i <= issued
  BY <1>1, SubmissionAssumption
<1> QED BY <1>1, <1>2 DEF Counted

\* The requests are as they were, and the treasury knows at most one intent more.
LEMMA SameRequests ==
    ASSUME Shapes, Counted, RequestsHold, ProposalInv, UNCHANGED <<book, writer, request>>,
           \/ DOMAIN intents' \subseteq DOMAIN intents
           \/ DOMAIN intents' \subseteq DOMAIN intents \cup {issued + 1} /\ issued + 1 \in DOMAIN Refs
    PROVE  ProposalInv'
<1>1. Attended'
  BY NothingAsked DEF ProposalInv, Attended, Asking
<1>2. OneRequest' /\ PendingUnrecorded'
  BY DEF ProposalInv, OneRequest, PendingUnrecorded, Asking, Pending, Unrecorded, Ids
<1> QED BY <1>1, <1>2 DEF ProposalInv

LEMMA PostProposes ==
    ASSUME Shapes, Counted, RequestsHold, Lines, ProposalInv, NEW h \in Calls, call[h].pc # "posted",
           \A g \in Calls : g = h, UNCHANGED <<book, writer>>,
           NEW w \in Writers, NEW i \in DOMAIN Refs, NEW intent, NEW plan, NEW q, NEW c,
           Posts(h, w, i, intent, plan, q, c),
           \/ i \in DOMAIN intents /\ DOMAIN intents' = DOMAIN intents
           \/ i = issued + 1 /\ DOMAIN intents' \subseteq DOMAIN intents \cup {i}
    PROVE  ProposalInv'
<1>1. /\ \A v \in Writers : v # w => request'[v] = request[v]
      /\ request'[w] = q /\ q.pc = "lookup" /\ q.caller = h /\ q.cmd.ref = Refs[i]
  BY DEF Shapes, Table, Posts
<1>2. \A v \in Writers : ~Asking(v, i)
  <2>1. CASE i = issued + 1
    BY <2>1, NothingAsked
  <2>2. CASE i \in DOMAIN intents
    BY <2>2 DEF ProposalInv, Attended, Lines, Answerable
  <2> QED BY <2>1, <2>2
<1>3. \A v \in Writers : \A j : v # w => (Asking(v, j)' <=> Asking(v, j)) /\ (Pending(v)' <=> Pending(v))
  BY <1>1 DEF Asking, Pending
<1>4. \A j \in DOMAIN Refs : Asking(w, j)' => j = i
  BY <1>1, SubmissionAssumption DEF Asking
<1>5. Attended'
  <2>1. ASSUME NEW v \in Writers, v # w, NEW j \in DOMAIN intents', Asking(v, j)
        PROVE  request'[v].caller # Nobody
    <3>1. j # i
      BY <1>2, <2>1
    <3>2. j \in DOMAIN intents
      BY <2>1, <3>1
    <3> QED BY <1>1, <2>1, <3>2 DEF ProposalInv, Attended
  <2>2. request'[w].caller # Nobody
    BY <1>1, SubmissionAssumption
  <2> QED BY <1>3, <2>1, <2>2 DEF Attended
<1>6. OneRequest'
  BY <1>2, <1>3, <1>4 DEF ProposalInv, OneRequest
<1>7. PendingUnrecorded'
  <2>1. ~Pending(w)'
    BY <1>1 DEF Pending
  <2> QED BY <1>3, <2>1 DEF ProposalInv, PendingUnrecorded, Unrecorded, Ids
<1> QED BY <1>5, <1>6, <1>7 DEF ProposalInv

LEMMA ReleaseProposes ==
    ASSUME Shapes, ProposalInv, NEW w \in Writers, UNCHANGED book,
           DOMAIN intents' = DOMAIN intents,
           request' = [request EXCEPT ![w] = Free], writer' = [writer EXCEPT ![w] = Idle]
    PROVE  ProposalInv'
<1>1. /\ \A v \in Writers : v # w => request'[v] = request[v] /\ writer'[v] = writer[v]
      /\ request'[w] = Free
  BY DEF Shapes, Table
<1>2. \A j : ~Asking(w, j)'
  BY <1>1, FreeIs DEF Asking
<1>3. \A v \in Writers : \A j : v # w => (Asking(v, j)' <=> Asking(v, j)) /\ (Pending(v)' <=> Pending(v))
  BY <1>1 DEF Asking, Pending
<1>4. Attended'
  BY <1>1, <1>2, <1>3 DEF ProposalInv, Attended
<1>5. OneRequest'
  BY <1>2, <1>3 DEF ProposalInv, OneRequest
<1>6. PendingUnrecorded'
  BY <1>2, <1>3 DEF ProposalInv, PendingUnrecorded, Unrecorded, Ids
<1> QED BY <1>4, <1>5, <1>6 DEF ProposalInv

LEMMA FreshKey ==
    ASSUME BookKeyed, NEW c, Keyed(c), SameKey(c) = {}, NEW j \in DOMAIN Refs, c.ref = Refs[j]
    PROVE  Unrecorded(j)
<1>1. c.commandId = c.ref /\ c.ref # NoKey
  BY SubmissionAssumption DEF Keyed
<1>2. ASSUME NEW e \in Ids(book), book[e].cmd.ref = Refs[j] PROVE FALSE
  <2>1. book[e].cmd.commandId = c.commandId
    BY <1>1, <1>2 DEF BookKeyed, Keyed
  <2> QED BY <1>1, <2>1 DEF SameKey
<1> QED BY <1>2 DEF Unrecorded

LEMMA LedgerProposes ==
    ASSUME Shapes, Counted, BookKeyed, RequestsHold, ProposalInv, NEW w \in Writers, NEW q, NEW r,
           LedgerMoves(w, q, r)
    PROVE  ProposalInv'
<1>1. /\ \A v \in Writers : v # w => request'[v] = request[v] /\ writer'[v] = writer[v]
      /\ request'[w] = q /\ writer'[w] = r /\ UNCHANGED intents
  BY DEF Shapes, Table, LedgerMoves
<1>2. \A v \in Writers : \A j : v # w => (Asking(v, j)' <=> Asking(v, j)) /\ (Pending(v)' <=> Pending(v))
  BY <1>1 DEF Asking, Pending
<1>3. ASSUME NEW j \in DOMAIN Refs, Asking(w, j)'
      PROVE  Carried(w, q, r) /\ Asking(w, j) /\ q.cmd.ref = Refs[j]
  <2>1. q.pc # "free" /\ q.cmd.ref = Refs[j]
    BY <1>1, <1>3 DEF Asking
  <2>2. ~TakenUp(w, q, r)
    <3>1. Refs[j] \in Range(Refs)
      BY DEF Range
    <3> QED BY <2>1, <3>1, SubmissionAssumption DEF TakenUp
  <2>3. ~Forgotten(w, q)
    BY <2>1, FreeIs DEF Forgotten
  <2>4. Carried(w, q, r)
    BY <2>2, <2>3 DEF LedgerMoves
  <2> QED BY <2>1, <2>4 DEF Carried, Asking
<1>4. Attended'
  <2>1. ASSUME NEW j \in DOMAIN intents, Asking(w, j)' PROVE request'[w].caller # Nobody
    <3>1. j \in DOMAIN Refs
      BY IssuedRefs
    <3> QED BY <1>1, <1>3, <2>1, <3>1 DEF Carried, ProposalInv, Attended
  <2> QED BY <1>1, <1>2, <2>1 DEF ProposalInv, Attended
<1>5. OneRequest'
  BY <1>2, <1>3 DEF ProposalInv, OneRequest
<1>6. ASSUME NEW j \in DOMAIN Refs, Asking(w, j)', Pending(w)' PROVE Unrecorded(j)'
  <2>1. Carried(w, q, r) /\ Asking(w, j) /\ q.cmd.ref = Refs[j]
    BY <1>3, <1>6
  <2>2. q.pc \in {"validate", "execute"} \/ (q.pc = "done" /\ r.answer.status # "accepted")
    BY <1>1, <1>6 DEF Pending
  <2>3. UNCHANGED book
    <3>1. r.answer = Accepted(Len(book) + 1) => r.answer.status = "accepted"
      BY DEF Accepted
    <3> QED BY <2>1, <2>2, <3>1 DEF Carried
  <2>4. Unrecorded(j)
    <3>1. CASE request[w].pc = "lookup"
      <4>1. SameKey(q.cmd) = {} /\ q.cmd = request[w].cmd
        BY <2>1, <2>2, <3>1 DEF Carried
      <4>2. PICK c : c = q.cmd
        OBVIOUS
      <4>3. Keyed(c)
        BY <2>1, <4>1, <4>2 DEF RequestsHold, RequestHolds, Asking
      <4> QED BY <2>1, <4>1, <4>2, <4>3, FreshKey
    <3>2. CASE request[w].pc \in {"validate", "execute"}
      BY <2>1, <3>2 DEF ProposalInv, PendingUnrecorded, Pending
    <3> QED BY <2>1, <3>1, <3>2 DEF Carried
  <2> QED BY <2>3, <2>4 DEF Unrecorded, Ids
<1>7. ASSUME NEW v \in Writers, v # w, NEW j \in DOMAIN Refs, Asking(v, j), Pending(v)
      PROVE  Unrecorded(j)'
  <2>1. Unrecorded(j) /\ ~Asking(w, j)
    BY <1>7 DEF ProposalInv, OneRequest, PendingUnrecorded
  <2>2. CASE UNCHANGED book
    BY <2>1, <2>2 DEF Unrecorded, Ids
  <2>3. ASSUME NEW e, Joined(e), e.cmd = q.cmd, Carried(w, q, r) PROVE Unrecorded(j)'
    <3>1. e.cmd.ref # Refs[j]
      BY <2>1, <2>3 DEF Carried, Asking
    <3> QED BY <2>1, <2>3, <3>1 DEF Joined, Unrecorded
  <2> QED BY <2>2, <2>3 DEF LedgerMoves, Carried, TakenUp, Forgotten
<1> QED BY <1>2, <1>4, <1>5, <1>6, <1>7 DEF ProposalInv, PendingUnrecorded

LEMMA RestartProposes ==
    ASSUME Shapes, ProposalInv, LedgerRestarts \/ TreasuryRestarts
    PROVE  ProposalInv'
<1>1. CASE LedgerRestarts
  <2>1. \A v \in Writers : \A j : ~Asking(v, j)'
    BY <1>1, FreeIs DEF LedgerRestarts, Asking
  <2> QED BY <2>1 DEF ProposalInv, Attended, OneRequest, PendingUnrecorded
<1>2. CASE TreasuryRestarts
  <2>1. /\ request' = [w \in Writers |-> [request[w] EXCEPT !.caller = Nobody]]
        /\ intents' = <<>> /\ UNCHANGED <<book, writer>>
    BY <1>2 DEF TreasuryRestarts
  <2>2. ASSUME NEW w \in Writers PROVE request'[w].pc = request[w].pc /\ request'[w].cmd = request[w].cmd
    <3>1. PICK l : l = request[w] /\ DOMAIN l = RequestFields
      BY DEF Shapes, Table
    <3> DEFINE p == [l EXCEPT !.caller = Nobody]
    <3>2. p.pc = l.pc /\ p.cmd = l.cmd
      BY <3>1 DEF RequestFields
    <3>3. request'[w] = p
      BY <2>1, <3>1
    <3> HIDE DEF p
    <3> QED BY <3>1, <3>2, <3>3
  <2>3. UNCHANGED <<book, writer>> /\ DOMAIN intents' = {}
    BY <2>1
  <2>4. \A v \in Writers : \A j : (Asking(v, j)' <=> Asking(v, j)) /\ (Pending(v)' <=> Pending(v))
    BY <2>2, <2>3 DEF Asking, Pending
  <2> QED BY <2>3, <2>4 DEF ProposalInv, Attended, OneRequest, PendingUnrecorded, Unrecorded, Ids
<1> QED BY <1>1, <1>2

\* What the refinement makes of the state.
Recorded == {i \in Intents : \E e \in Ids(book) : book[e].cmd.ref = Refs[i]}
Verdicts == [i \in Intents |-> Verdict(i)]

LEMMA VerdictsStand ==
    ASSUME UNCHANGED book, \A j \in Intents : Verdict(j)' = Verdict(j)
    PROVE  UNCHANGED <<Recorded, Verdicts>>
<1>1. Recorded' = Recorded
  BY DEF Recorded, Ids
<1>2. Verdicts' = Verdicts
  BY DEF Verdicts
<1> QED BY <1>1, <1>2

LEMMA OneVerdict ==
    ASSUME UNCHANGED book, NEW i \in Intents, \A j \in Intents : j # i => Verdict(j)' = Verdict(j),
           \/ Verdict(i)' = "open"
           \/ Verdict(i)' = "accepted" /\ i \in Recorded
           \/ Verdict(i)' = "declined" /\ i \notin Recorded
    PROVE  [Abstract!Next]_<<Recorded, Verdicts>>
<1>1. Recorded' = Recorded
  BY DEF Recorded, Ids
<1>2. Verdicts' = [Verdicts EXCEPT ![i] = Verdict(i)']
  BY DEF Verdicts
<1>3. CASE Verdict(i)' = "open"
  <2>1. Verdicts' = [p \in Intents |-> IF p \in {i} THEN "open" ELSE Verdicts[p]]
    BY <1>3 DEF Verdicts
  <2>2. Abstract!Reopen({i})
    BY <1>1, <2>1 DEF Abstract!Reopen, Recorded, Verdicts
  <2> QED BY <2>2 DEF Abstract!Next
<1>4. CASE Verdict(i)' = "accepted" /\ i \in Recorded
  <2>1. Abstract!Accept(i)
    BY <1>1, <1>2, <1>4 DEF Abstract!Accept, Recorded, Verdicts
  <2> QED BY <2>1 DEF Abstract!Next
<1>5. CASE Verdict(i)' = "declined" /\ i \notin Recorded
  <2>1. Abstract!Decline(i)
    BY <1>1, <1>2, <1>5 DEF Abstract!Decline, Recorded, Verdicts
  <2> QED BY <2>1 DEF Abstract!Next
<1> QED BY <1>3, <1>4, <1>5

LEMMA LedgerPromises ==
    ASSUME Shapes, Counted, BookKeyed, RequestsHold, NEW w \in Writers, NEW q, NEW r, LedgerMoves(w, q, r)
    PROVE  [Abstract!Next]_<<Recorded, Verdicts>>
<1>1. UNCHANGED intents
  BY DEF LedgerMoves
<1>2. Verdicts' = Verdicts
  BY <1>1 DEF Verdicts, Verdict
<1>3. CASE UNCHANGED book
  <2>1. Recorded' = Recorded
    BY <1>3 DEF Recorded, Ids
  <2> QED BY <1>2, <2>1
<1>4. ASSUME NEW e, Joined(e), e.cmd = q.cmd, SameKey(q.cmd) = {}, Carried(w, q, r)
      PROVE  [Abstract!Next]_<<Recorded, Verdicts>>
  <2>1. /\ Ids(book)' = Ids(book) \cup {Len(book) + 1}
        /\ \A k \in Ids(book) : book'[k] = book[k]
        /\ book'[Len(book) + 1] = e
    BY <1>4 DEF Joined
  <2>2. \A i \in Intents : i \in Recorded' <=> i \in Recorded \/ e.cmd.ref = Refs[i]
    BY <2>1 DEF Recorded
  <2>3. CASE \A i \in Intents : e.cmd.ref # Refs[i]
    <3>1. Recorded' = Recorded
      BY <2>2, <2>3 DEF Recorded
    <3> QED BY <1>2, <3>1
  <2>4. ASSUME NEW i \in Intents, e.cmd.ref = Refs[i] PROVE [Abstract!Next]_<<Recorded, Verdicts>>
    <3>1. PICK c : c = q.cmd
      OBVIOUS
    <3>2. Keyed(c)
      BY <1>4, <3>1 DEF Carried, RequestsHold, RequestHolds
    <3>3. Unrecorded(i)
      BY <1>4, <2>4, <3>1, <3>2, FreshKey DEF Intents
    <3>4. i \notin Recorded
      BY <3>3 DEF Recorded, Unrecorded
    <3>5. Recorded' = Recorded \cup {i}
      <4>1. \A j \in Intents : e.cmd.ref = Refs[j] => j = i
        BY <2>4, SubmissionAssumption DEF Intents
      <4> QED BY <2>2, <2>4, <4>1 DEF Recorded
    <3>6. Abstract!Record(i)
      BY <1>2, <3>4, <3>5 DEF Abstract!Record, Recorded, Verdicts
    <3> QED BY <3>6 DEF Abstract!Next
  <2> QED BY <2>3, <2>4
<1> QED BY <1>3, <1>4 DEF LedgerMoves, Carried, TakenUp, Forgotten

LEMMA SpeaksPromises ==
    ASSUME Shapes, Counted, Speaks
    PROVE  [Abstract!Next]_<<Recorded, Verdicts>>
<1>1. DOMAIN intents' = DOMAIN intents /\ UNCHANGED book
  BY DEF Speaks, Table
<1>2. CASE tab.intent \in DOMAIN intents /\ intents'[tab.intent].status \in Unsettled
  <2>1. PICK i : i = tab.intent
    OBVIOUS
  <2>2. i \in Intents
    BY <1>2, <2>1, IssuedRefs DEF Intents
  <2>3. \A j \in Intents : j # i => Verdict(j)' = Verdict(j)
    BY <1>1, <2>1 DEF Speaks, Verdict
  <2>4. Verdict(i)' = "open"
    BY <1>1, <1>2, <2>1 DEF Verdict, Unsettled
  <2> QED BY <1>1, <2>2, <2>3, <2>4, OneVerdict
<1>3. CASE ~(tab.intent \in DOMAIN intents /\ intents'[tab.intent].status \in Unsettled)
  <2>1. \A j \in Intents : Verdict(j)' = Verdict(j)
    BY <1>1, <1>3 DEF Speaks, Verdict
  <2> QED BY <1>1, <2>1, VerdictsStand
<1> QED BY <1>2, <1>3

LEMMA JoinsPromises ==
    ASSUME UNCHANGED book, NEW intent, NEW subject, Joins(intent, subject), intent.status \in Unsettled
    PROVE  UNCHANGED <<Recorded, Verdicts>>
<1>1. DOMAIN intents' = DOMAIN intents \cup {issued + 1} /\ issued + 1 \notin DOMAIN intents
  BY DEF Joins, Table
<1>2. ASSUME NEW j \in Intents PROVE Verdict(j)' = Verdict(j)
  <2>1. CASE j = issued + 1
    BY <1>1, <2>1 DEF Verdict, Joins, Unsettled
  <2>2. CASE j # issued + 1
    BY <1>1, <2>2 DEF Verdict, Joins
  <2> QED BY <2>1, <2>2
<1> QED BY <1>2, VerdictsStand

LEMMA FreshIntent ==
    ASSUME NEW s, NEW batch
    PROVE  /\ DOMAIN Started(s) = IntentFields /\ Started(s).status \in Unsettled
           /\ DOMAIN Applied(Started(s), batch, "fill") = IntentFields
           /\ Applied(Started(s), batch, "fill").status \in Unsettled
<1>1. PICK x : x = Started(s) /\ DOMAIN x = IntentFields /\ x.status = "gathering"
  BY StartedIs
<1>2. DOMAIN Applied(x, batch, "fill") = IntentFields /\ Applied(x, batch, "fill").status \in Unsettled
  BY <1>1, AppliedIs DEF Unsettled
<1> QED BY <1>1, <1>2 DEF Unsettled

\* What a step does to the promise and to the proposals.
Promises == ProposalInv' /\ [Abstract!Next]_<<Recorded, Verdicts>>

\* A fresh intent is issued, and perhaps posted at once.
LEMMA IssuePromises ==
    ASSUME SubmitInv, SubmitInv', ProposalInv, \A g, h \in Calls : g = h, UNCHANGED <<book, writer>>,
           NEW x, DOMAIN x = IntentFields, x.status \in Unsettled, NEW subject, Issue(x, subject),
           \/ UNCHANGED request
           \/ \E h \in Calls : \E plan, chat : call[h].pc # "posted" /\ Post(h, issued', x, plan, chat)
    PROVE  Promises
<1>0. Shapes /\ Counted /\ RequestsHold /\ Lines /\ Counted'
  BY DEF SubmitInv
<1>1. Joins(x, subject)
  BY <1>0, IssueJoins
<1>2. PICK i : i = issued + 1 /\ i = issued' /\ DOMAIN intents' = DOMAIN intents \cup {i}
  BY <1>1 DEF Joins, Table
<1>3. i \in DOMAIN Refs
  <2>1. issued \in Nat /\ issued' \in Nat /\ issued' + Promised' <= Len(Refs) /\ Promised' \in Nat
        /\ Len(Refs) \in Nat
    BY <1>0, PromisedNext, SubmissionAssumption DEF Counted
  <2>2. PICK n, m, p, l : n = issued /\ m = issued' /\ p = Promised' /\ l = Len(Refs)
    OBVIOUS
  <2>3. n \in Nat /\ m \in Nat /\ p \in Nat /\ l \in Nat /\ m = n + 1 /\ m + p <= l
    BY <1>2, <2>1, <2>2
  <2>4. n + 1 <= l
    BY <2>3
  <2> QED BY <1>2, <2>2, <2>3, <2>4, ReferenceLeft
<1>4. ProposalInv'
  <2>1. CASE UNCHANGED request
    BY <1>0, <1>2, <1>3, <2>1, SameRequests
  <2>2. ASSUME NEW h \in Calls, NEW plan, NEW chat, call[h].pc # "posted", Post(h, issued', x, plan, chat)
        PROVE  ProposalInv'
    <3>1. PICK w \in Writers : \E q, c : Posts(h, w, i, x, plan, q, c)
      BY <1>2, <2>2, PostPosts
    <3>2. PICK q, c : Posts(h, w, i, x, plan, q, c)
      BY <3>1
    <3>3. \A g \in Calls : g = h
      OBVIOUS
    <3>4. i = issued + 1 /\ DOMAIN intents' \subseteq DOMAIN intents \cup {i}
      BY <1>2
    <3> QED BY <1>0, <1>3, <2>2, <3>2, <3>3, <3>4, PostProposes
  <2> QED BY <2>1, <2>2
<1>5. UNCHANGED <<Recorded, Verdicts>>
  BY <1>1, JoinsPromises
<1> QED BY <1>4, <1>5 DEF Promises

LEMMA OpenPromises ==
    ASSUME SubmitInv, SubmitInv', ProposalInv, \A g, h \in Calls : g = h,
           \/ \E s \in Offered : SelectScenario(s)
           \/ \E p \in Positions : StartFromPosition(p[1], p[2])
    PROVE  Promises
<1>1. ASSUME NEW s \in Offered, SelectScenario(s) PROVE Promises
  <2>1. PICK x : x = Started(s)
    OBVIOUS
  <2>2. Issue(x, Anything) /\ UNCHANGED <<book, writer, request>>
    BY <1>1, <2>1 DEF SelectScenario
  <2>3. DOMAIN x = IntentFields /\ x.status \in Unsettled
    BY <2>1, FreshIntent
  <2> QED BY <2>2, <2>3, IssuePromises
<1>2. ASSUME NEW object, NEW objectType, StartFromPosition(object, objectType) PROVE Promises
  <2>1. PICK action \in PositionActions(objectType) :
           LET intent == Applied(Started(action.scenario), Prefill(object, action), "fill") IN
           \E subject : Issue(intent, subject)
    BY <1>2 DEF StartFromPosition
  <2>2. PICK batch : batch = Prefill(object, action)
    OBVIOUS
  <2>3. PICK x : x = Applied(Started(action.scenario), batch, "fill")
    OBVIOUS
  <2>4. PICK subject : Issue(x, subject)
    BY <2>1, <2>2, <2>3
  <2>5. DOMAIN x = IntentFields /\ x.status \in Unsettled
    BY <2>3, FreshIntent
  <2>6. UNCHANGED <<book, writer, request>>
    BY <1>2 DEF StartFromPosition
  <2> QED BY <2>4, <2>5, <2>6, IssuePromises
<1> QED BY <1>1, <1>2

LEMMA RectifyPromises ==
    ASSUME SubmitInv, SubmitInv', ProposalInv, \A g, h \in Calls : g = h,
           NEW h \in Calls, NEW target, NEW corrected, Rectify(h, target, corrected)
    PROVE  Promises
<1>1. PICK batch : batch = Withdrawal(target, corrected # NoPlan)
  OBVIOUS
<1>2. PICK x : x = Applied(Started("register_rectification"), batch, "fill")
  OBVIOUS
<1>3. DOMAIN x = IntentFields /\ x.status \in Unsettled
  BY <1>2, FreshIntent
<1>4. PICK p : p = IF corrected = NoPlan THEN NoPlan
                   ELSE [target |-> target, scenario |-> planReissue(book[target]).scenario,
                         answers |-> [planReissue(book[target]).answers EXCEPT !.amount = corrected]]
  OBVIOUS
<1>5. /\ Issue(x, Anything) /\ UNCHANGED <<book, writer>> /\ call[h] = Quiet
      /\ Post(h, issued', x, p, FALSE) \/ UNCHANGED request
  BY <1>1, <1>2, <1>4 DEF Rectify, PostIfReady
<1>6. call[h].pc # "posted"
  BY <1>5, FreeIs
<1> QED BY <1>3, <1>5, <1>6, IssuePromises

LEMMA ReissuePromises ==
    ASSUME SubmitInv, SubmitInv', ProposalInv, \A g, h \in Calls : g = h, NEW h \in Calls, Reissue(h)
    PROVE  Promises
<1>1. PICK s, batch : s = call[h].plan.scenario /\ batch = call[h].plan.answers
  OBVIOUS
<1>2. PICK x : x = Applied(Started(s), batch, "fill")
  OBVIOUS
<1>3. DOMAIN x = IntentFields /\ x.status \in Unsettled
  BY <1>2, FreshIntent
<1>4. PICK subject : subject = [Anything EXCEPT !.entry = call[h].plan.target]
  OBVIOUS
<1>5. /\ Issue(x, subject) /\ UNCHANGED <<book, writer>> /\ call[h].pc = "reissue"
      /\ Post(h, issued', x, NoPlan, FALSE) \/ UNCHANGED request
  BY <1>1, <1>2, <1>4 DEF Reissue, PostIfReady
<1>6. \/ UNCHANGED request
      \/ \E g \in Calls : \E plan, chat : call[g].pc # "posted" /\ Post(g, issued', x, plan, chat)
  BY <1>5
<1> QED BY <1>3, <1>5, <1>6, IssuePromises

LEMMA ConfirmPromises ==
    ASSUME SubmitInv, ProposalInv, \A g, h \in Calls : g = h, NEW h \in Calls, Confirm(h)
    PROVE  Promises
<1>0. Shapes /\ Counted /\ RequestsHold /\ Lines
  BY DEF SubmitInv
<1>1. UNCHANGED <<book, writer, intents, issued>> /\ call[h].pc # "posted"
  BY FreeIs DEF Confirm
<1>2. UNCHANGED <<Recorded, Verdicts>>
  BY <1>1, VerdictsStand DEF Verdict
<1>3. CASE UNCHANGED request
  BY <1>0, <1>1, <1>2, <1>3, SameRequests DEF Promises
<1>4. CASE Current # NoPlan /\ Post(h, tab.intent, Current, NoPlan, TRUE)
  <2>1. PICK i, x : i = tab.intent /\ x = Current /\ i \in DOMAIN intents /\ x = intents[i]
    BY <1>4, CurrentIs
  <2>2. DOMAIN x = IntentFields /\ i \in DOMAIN Refs
    BY <1>0, <2>1, IssuedRefs DEF Shapes, Table
  <2>3. PICK w \in Writers : \E q, c : Posts(h, w, i, x, NoPlan, q, c)
    BY <1>4, <2>1, <2>2, PostPosts
  <2>4. PICK q, c : Posts(h, w, i, x, NoPlan, q, c)
    BY <2>3
  <2>5. (\A g \in Calls : g = h) /\ i \in DOMAIN intents /\ DOMAIN intents' = DOMAIN intents
    BY <1>1, <2>1
  <2>6. ProposalInv'
    BY <1>0, <1>1, <2>2, <2>4, <2>5, PostProposes
  <2> QED BY <1>2, <2>6 DEF Promises
<1> QED BY <1>3, <1>4 DEF Confirm

LEMMA ReceivePromises ==
    ASSUME SubmitInv, SubmitInv', ProposalInv, NEW h \in Calls, Receive(h)
    PROVE  Promises
<1>0. Shapes /\ Counted /\ CallsHold /\ Lines /\ AcceptedIsRecorded'
  BY DEF SubmitInv
<1>1. PICK w \in Writers : \E x, c : Answered(h, w, x, c)
  BY <1>0, ReceiveAnswers
<1>2. PICK x, c : Answered(h, w, x, c)
  BY <1>1
<1>3. PICK i : i = call[h].intent /\ i \in DOMAIN intents /\ intents' = [intents EXCEPT ![i] = x]
  BY <1>2 DEF Answered
<1>4. /\ UNCHANGED book /\ DOMAIN intents' = DOMAIN intents /\ intents'[i] = x
      /\ \A j \in DOMAIN intents : j # i => intents'[j] = intents[j]
      /\ request' = [request EXCEPT ![w] = Free] /\ writer' = [writer EXCEPT ![w] = Idle]
      /\ request[w].caller = h /\ request[w].pc = "done"
  BY <1>2, <1>3 DEF Answered, Releases
<1>5. ProposalInv'
  BY <1>0, <1>4, ReleaseProposes
<1>6. i \in Intents
  BY <1>0, <1>3, IssuedRefs DEF Intents
<1>7. \A j \in Intents : j # i => Verdict(j)' = Verdict(j)
  BY <1>4 DEF Verdict
<1>8. PICK copy, answer : copy = call[h].copy /\ answer = writer[w].answer
  OBVIOUS
<1>9. x = Disposed(copy, answer) /\ DOMAIN copy = IntentFields
  BY <1>0, <1>2, <1>8 DEF Answered, CallsHold, CallHolds
<1>10. /\ x.status \in {"accepted", "awaiting_correction", "rejected"}
       /\ x.status = "accepted" <=> answer.status = "accepted"
  BY <1>9, DisposedIs
<1>11. CASE x.status = "accepted"
  <2>1. Verdict(i)' = "accepted"
    BY <1>3, <1>4, <1>11 DEF Verdict
  <2>2. \E e \in Ids(book)' : book'[e].cmd.ref = Refs[i]
    BY <1>0, <1>3, <1>4, <1>11 DEF AcceptedIsRecorded
  <2>3. i \in Recorded
    BY <1>4, <1>6, <2>2 DEF Recorded, Ids
  <2>4. [Abstract!Next]_<<Recorded, Verdicts>>
    BY <1>4, <1>6, <1>7, <2>1, <2>3, OneVerdict
  <2> QED BY <1>5, <2>4 DEF Promises
<1>12. CASE x.status = "awaiting_correction"
  <2>1. Verdict(i)' = "open"
    BY <1>3, <1>4, <1>12 DEF Verdict
  <2>2. [Abstract!Next]_<<Recorded, Verdicts>>
    BY <1>4, <1>6, <1>7, <2>1, OneVerdict
  <2> QED BY <1>5, <2>2 DEF Promises
<1>13. CASE x.status = "rejected"
  <2>1. Verdict(i)' = "declined"
    BY <1>3, <1>4, <1>13 DEF Verdict
  <2>2. Asking(w, i) /\ Pending(w)
    BY <1>0, <1>3, <1>4, <1>8, <1>10, <1>13, SubmissionAssumption DEF Lines, Answerable, Asking, Pending
  <2>3. i \notin Recorded
    BY <1>6, <2>2 DEF ProposalInv, PendingUnrecorded, Unrecorded, Recorded, Intents
  <2>4. [Abstract!Next]_<<Recorded, Verdicts>>
    BY <1>4, <1>6, <1>7, <2>1, <2>3, OneVerdict
  <2> QED BY <1>5, <2>4 DEF Promises
<1> QED BY <1>10, <1>11, <1>12, <1>13

LEMMA RestartPromises ==
    ASSUME SubmitInv, ProposalInv, LedgerRestarts \/ TreasuryRestarts
    PROVE  Promises
<1>1. ProposalInv' /\ UNCHANGED book
  BY RestartProposes DEF SubmitInv, LedgerRestarts, TreasuryRestarts
<1>2. Recorded' = Recorded
  BY <1>1 DEF Recorded, Ids
<1>3. CASE LedgerRestarts
  <2>1. intents' = intents
    BY <1>3 DEF LedgerRestarts
  <2>2. Verdicts' = Verdicts
    BY <2>1 DEF Verdicts, Verdict
  <2> QED BY <1>1, <1>2, <2>2 DEF Promises
<1>4. CASE TreasuryRestarts
  <2>0. intents' = <<>>
    BY <1>4 DEF TreasuryRestarts
  <2>1. DOMAIN intents' = {}
    BY <2>0
  <2>2. Verdicts' = [p \in Intents |-> IF p \in Intents THEN "open" ELSE Verdicts[p]]
    BY <2>1 DEF Verdicts, Verdict
  <2>3. Abstract!Reopen(Intents)
    BY <1>2, <2>2 DEF Abstract!Reopen, Recorded, Verdicts
  <2>4. Abstract!Next
    BY <2>3 DEF Abstract!Next
  <2> QED BY <1>1, <2>4 DEF Promises
<1> QED BY <1>3, <1>4

LEMMA ProposalStep ==
    ASSUME SubmitInv, SubmitInv', ProposalInv, \A g, h \in Calls : g = h, "timeout" \notin Faults,
           [SubNext]_allvars
    PROVE  Promises
<1>0. Shapes /\ Counted /\ BookKeyed /\ RequestsHold
  BY DEF SubmitInv
<1>1. ASSUME Speaks PROVE Promises
  <2>1. DOMAIN intents' = DOMAIN intents /\ UNCHANGED <<book, writer, request>>
    BY <1>1 DEF Speaks, Table
  <2> QED BY <1>0, <1>1, <2>1, SameRequests, SpeaksPromises DEF Promises
<1>2. CASE UNCHANGED allvars
  <2>1. Speaks
    BY <1>0, <1>2 DEF allvars, subvars, Speaks, Shapes, Table
  <2> QED BY <1>1, <2>1
<1>3. CASE Operator
  <2>1. CASE Converse \/ SelectPosition \/ Edit \/ Correct \/ Restart
    BY <1>0, <1>1, <2>1, TalkSpeaks
  <2>2. CASE \/ \E s \in Offered : SelectScenario(s)
             \/ \E p \in Positions : StartFromPosition(p[1], p[2])
    BY <2>2, OpenPromises
  <2>3. CASE \E h \in Calls : Confirm(h)
    BY <2>3, ConfirmPromises
  <2>4. CASE \E h \in Calls, target \in Ids(book), corrected \in Correcting : Rectify(h, target, corrected)
    BY <2>4, RectifyPromises
  <2> QED BY <1>3, <2>1, <2>2, <2>3, <2>4 DEF Operator
<1>4. CASE \E h \in Calls : Treasury(h) \/ Timeout(h)
  BY <1>4, ReceivePromises, ReissuePromises DEF Treasury, Timeout
<1>5. CASE \E w \in Writers : Ledger(w) \/ (\E c \in Commands : Stage(w, c))
  <2>1. PICK w \in Writers : \E q, r : LedgerMoves(w, q, r)
    BY <1>0, <1>5, LedgerStepMoves
  <2>2. PICK q, r : LedgerMoves(w, q, r)
    BY <2>1
  <2> QED BY <1>0, <2>2, LedgerProposes, LedgerPromises DEF Promises
<1>6. CASE LedgerRestarts \/ TreasuryRestarts
  BY <1>6, RestartPromises
<1> QED BY <1>2, <1>3, <1>4, <1>5, <1>6 DEF SubNext

\* The treasury's word on an intent agrees with the book: every fact an intent leaves is
\* recorded once, "ACCEPTED" comes after it, and "REJECTED" only without it, through restarts
\* of either server (SubmitIntent.execute, SubmitLedgerEventUseCase.execute).  The treasury
\* serves one submission at a time and hears every answer; without either it is not so.
THEOREM ProposalsImplemented ==
    ASSUME \A g, h \in Calls : g = h, "timeout" \notin Faults
    PROVE  SubSpec => ImplementsProposals
<1>1. SubInit => SubmitInv /\ ProposalInv /\ Abstract!Init
  <2>1. SubInit => /\ book = <<>> /\ intents = <<>> /\ request = [w \in Writers |-> Free]
    BY DEF SubInit, Init
  <2>2. SubInit => ProposalInv
    BY <2>1, FreeIs DEF ProposalInv, Attended, OneRequest, PendingUnrecorded, Asking
  <2>3. SubInit => Abstract!Init
    BY <2>1 DEF Abstract!Init, Verdict, Ids
  <2> QED BY <2>2, <2>3, SubmitStarts
<1>2. SubmitInv /\ ProposalInv /\ [SubNext]_allvars => SubmitInv' /\ ProposalInv'
  BY SubmitStep, ProposalStep DEF Promises
<1>3. SubmitInv /\ ProposalInv /\ [SubNext]_allvars => [Abstract!Next]_<<Recorded, Verdicts>>
  BY SubmitStep, ProposalStep DEF Promises
<1> QED BY <1>1, <1>2, <1>3, PTL DEF SubSpec, ImplementsProposals, Abstract!Spec, Recorded, Verdicts

-----------------------------------------------------------------------------
(* An operation opened from a position stays about it. *)

\* The slots a position answered for good, in an operation about the subject a.
Fixes(a, s, key) ==
    /\ a.position # Absent /\ key # Absent
    /\ \/ key = MapOf(s).objectIdSlot
       \/ a.origin # None /\ key = MapOf(s).relatedEventSlot

\* These answers are still about the position the operation was opened from.
Kept(a, s, answers) ==
    a.position # Absent =>
        LET m == MapOf(s) IN
        /\ m.objectIdSlot # Absent =>
              Filled(answers, m.objectIdSlot) /\ answers[m.objectIdSlot] = a.position
        /\ a.origin # None => RelatedTo(m, answers) = a.origin

\* An answer that names a position is no blank.
Named(s, answers) ==
    LET key == MapOf(s).objectIdSlot IN key # Absent /\ Filled(answers, key) => answers[key] # Blank

Sound(a, intent) ==
    /\ intent.scenario \in ScenarioIds
    /\ Named(intent.scenario, intent.answers)
    /\ Kept(a, intent.scenario, intent.answers)

\* A fact that carries the reference of the intent i moves the position i was opened from.
Sticks(i, a, s, cmd, related) ==
    cmd.ref = Refs[i] /\ a.position # Absent =>
        /\ MapOf(s).objectIdSlot # Absent => a.position \in {o.objectId : o \in Range(cmd.objects)}
        /\ a.origin # None => related = a.origin

Placed(cmd, related) ==
    /\ \A o \in Range(cmd.objects) : o.objectId # Blank
    /\ \A i \in DOMAIN intents : Sticks(i, about[i], intents[i].scenario, cmd, related)

CopySound(c) ==
    /\ c.pc = "posted" => Sound(about[c.intent], c.copy) /\ c.copy.scenario = intents[c.intent].scenario
    /\ c.plan # NoPlan => c.plan.scenario \in ScenarioIds

\* The browser never asked what the position answered.
AskedElse ==
    tab.intent \in DOMAIN intents =>
        \A key \in tab.asked : ~Fixes(about[tab.intent], intents[tab.intent].scenario, key)

PositionInv ==
    /\ \A i \in DOMAIN intents : Sound(about[i], intents[i])
    /\ \A h \in Calls : CopySound(call[h])
    /\ \A w \in Writers : request[w].pc # "free" => Placed(request[w].cmd, request[w].related)
    /\ \A e \in Ids(book) : Placed(book[e].cmd, book[e].related)
    /\ AskedElse

-----------------------------------------------------------------------------
(* What the registry holds. *)

\* The slots of a scenario and its mapping belong together: every slot the mapping speaks of is
\* there, once, with the type it needs, and nothing else decides what is moved.
Cast(slots, m) ==
    /\ \A j, k \in DOMAIN slots : slots[j].key = slots[k].key => j = k
    /\ \A k \in DOMAIN slots :
          /\ slots[k].key # Absent
          /\ slots[k].type = "MONEY" <=> slots[k].key = "amount"
          /\ slots[k].key = "amount" => slots[k].required
          /\ slots[k].key = m.objectIdSlot => slots[k].type = "STRING"
          /\ slots[k].key = m.relatedEventSlot => slots[k].type = "EVENT_REF"
          /\ slots[k].key = m.selectorSlot => slots[k].type = "CHOICE" /\ slots[k].choices = DOMAIN m.byChoice
          /\ slots[k].key = m.counterpartySlot => slots[k].type = "PARTY" /\ slots[k].required
    /\ \A role \in {m.objectIdSlot, m.relatedEventSlot, m.selectorSlot, m.counterpartySlot, "amount"} :
          role # Absent => \E k \in DOMAIN slots : slots[k].key = role
    /\ 1 \in DOMAIN m.objects
    /\ Len(m.objects) # 1 => /\ m.selectorSlot = Absent
                             /\ \A k \in DOMAIN m.objects : m.objects[k].objectType \in ObjectTypes

LEMMA ExpensesCast ==
    /\ Cast(registerPayment, register_payment)
    /\ Cast(registerPayroll, register_payroll)
    /\ Cast(registerInfrastructure, register_infrastructure)
    /\ Cast(registerServiceFee, register_service_fee)
    /\ Cast(registerTax, register_tax)
    /\ Cast(registerPenalty, register_penalty)
    /\ Cast(registerAdvance, register_advance)
    /\ Cast(registerLoan, register_loan)
<1>1. Cast(registerPayment, register_payment)
  BY DEF Cast, registerPayment, Payee, ObjectRef, Asks, May, Slot, Amount, Absent,
         register_payment, Continuing, Expense, Mapping, Moves
<1>2. Cast(registerPayroll, register_payroll)
  BY DEF Cast, registerPayroll, Payee, ObjectRef, Asks, May, Slot, Amount, Absent,
         register_payroll, Continuing, Expense, Mapping, Moves
<1>3. Cast(registerInfrastructure, register_infrastructure)
  BY DEF Cast, registerInfrastructure, Payee, ObjectRef, Asks, May, Slot, Amount, Absent,
         register_infrastructure, Continuing, Expense, Mapping, Moves
<1>4. Cast(registerServiceFee, register_service_fee)
  BY DEF Cast, registerServiceFee, Payee, ObjectRef, Asks, May, Slot, Amount, Absent,
         register_service_fee, Continuing, Expense, Mapping, Moves
<1>5. Cast(registerTax, register_tax)
  BY DEF Cast, registerTax, Payee, ObjectRef, Asks, May, Slot, Amount, Absent,
         register_tax, Continuing, Expense, Mapping, Moves
<1>6. Cast(registerPenalty, register_penalty)
  BY DEF Cast, registerPenalty, Payee, Asks, Slot, Amount, Absent, register_penalty, Expense, Mapping, Moves
<1>7. Cast(registerAdvance, register_advance)
  BY DEF Cast, registerAdvance, Payee, Asks, Slot, Amount, Absent, register_advance, Expense, Mapping, Moves
<1>8. Cast(registerLoan, register_loan)
  BY DEF Cast, registerLoan, Payee, Asks, Slot, Amount, Absent, register_loan, Expense, Mapping, Moves
<1> QED BY <1>1, <1>2, <1>3, <1>4, <1>5, <1>6, <1>7, <1>8

LEMMA OthersCast ==
    /\ Cast(registerIncentive, register_incentive)
    /\ Cast(registerWaiver, register_waiver)
    /\ Cast(registerCommissionAccrual, register_commission_accrual)
    /\ Cast(registerDirectPayment, register_direct_payment)
    /\ Cast(registerCommissionReceived, register_commission_received)
    /\ Cast(registerAdvanceSettlement, register_advance_settlement)
    /\ Cast(registerLoanRepayment, register_loan_repayment)
    /\ Cast(registerRectification, register_rectification)
    /\ Cast(registerObligationRecognition, register_obligation_recognition)
<1>1. Cast(registerIncentive, register_incentive)
  BY DEF Cast, registerIncentive, Payee, Asks, Picks, Slot, Amount, Absent,
         register_incentive, Expense, Mapping, Moves
<1>2. Cast(registerWaiver, register_waiver)
  BY DEF Cast, registerWaiver, Payee, Asks, Picks, Slot, Amount, Absent, register_waiver, Mapping, Moves
<1>3. Cast(registerCommissionAccrual, register_commission_accrual)
  BY DEF Cast, registerCommissionAccrual, Asks, Slot, Amount, Absent,
         register_commission_accrual, Mapping, Moves
<1>4. Cast(registerDirectPayment, register_direct_payment)
  BY DEF Cast, registerDirectPayment, Payee, Asks, Slot, Amount, Absent,
         register_direct_payment, Mapping, Moves, ObjectTypes, PositionalTypes
<1>5. Cast(registerCommissionReceived, register_commission_received)
  BY DEF Cast, registerCommissionReceived, Payer, ObjectRef, Asks, May, Slot, Amount, Absent,
         register_commission_received, Recovery, Mapping, Moves
<1>6. Cast(registerAdvanceSettlement, register_advance_settlement)
  BY DEF Cast, registerAdvanceSettlement, Payer, ObjectRef, Asks, May, Slot, Amount, Absent,
         register_advance_settlement, Recovery, Mapping, Moves
<1>7. Cast(registerLoanRepayment, register_loan_repayment)
  BY DEF Cast, registerLoanRepayment, Payer, ObjectRef, Asks, May, Slot, Amount, Absent,
         register_loan_repayment, Recovery, Mapping, Moves
<1>8. Cast(registerRectification, register_rectification)
  BY DEF Cast, registerRectification, Asks, Picks, May, Slot, Amount, Absent,
         register_rectification, Mapping, Moves
<1>9. Cast(registerObligationRecognition, register_obligation_recognition)
  BY DEF Cast, registerObligationRecognition, Payee, ObjectRef, Asks, Picks, May, Slot, Amount, Absent,
         register_obligation_recognition, Mapping, Moves
<1> QED BY <1>1, <1>2, <1>3, <1>4, <1>5, <1>6, <1>7, <1>8, <1>9

LEMMA EveryScenarioCast == \A s \in ScenarioIds : Cast(REGISTRY[s].slots, MapOf(s))
BY ExpensesCast, OthersCast DEF ScenarioIds, REGISTRY, MapOf

\* A slot is found by its key.
LEMMA SlotFound ==
    ASSUME NEW s \in ScenarioIds, NEW k \in DOMAIN REGISTRY[s].slots
    PROVE  /\ REGISTRY[s].slots[k].key \in SlotKeys(s)
           /\ SlotOf(s, REGISTRY[s].slots[k].key) = REGISTRY[s].slots[k]
<1>1. PICK slots : slots = REGISTRY[s].slots
  OBVIOUS
<1>2. \A i, j \in DOMAIN slots : slots[i].key = slots[j].key => i = j
  BY <1>1, EveryScenarioCast DEF Cast
<1>3. PICK S : S = Range(slots)
  OBVIOUS
<1>4. S = {slots[i] : i \in DOMAIN slots}
  BY <1>3 DEF Range
<1>5. slots[k] \in S /\ \A slot \in S : slot.key = slots[k].key => slot = slots[k]
  BY <1>1, <1>2, <1>4
<1>6. (CHOOSE slot \in S : slot.key = slots[k].key) = slots[k]
  BY <1>5
<1> QED BY <1>1, <1>3, <1>5, <1>6 DEF SlotKeys, SlotOf

LEMMA SlotIs ==
    ASSUME NEW s \in ScenarioIds, NEW key \in SlotKeys(s)
    PROVE  \E k \in DOMAIN REGISTRY[s].slots : REGISTRY[s].slots[k].key = key /\ SlotOf(s, key) = REGISTRY[s].slots[k]
<1>1. \E k \in DOMAIN REGISTRY[s].slots : REGISTRY[s].slots[k].key = key
  BY DEF SlotKeys, Range
<1> QED BY <1>1, SlotFound

\* The slot that names a position is asked as a text.
LEMMA ObjectIdIs ==
    ASSUME NEW s \in ScenarioIds, NEW key, key = MapOf(s).objectIdSlot, key # Absent
    PROVE  /\ key \in SlotKeys(s) /\ SlotOf(s, key).type = "STRING"
           /\ key \notin {MapOf(s).selectorSlot, MapOf(s).relatedEventSlot, MapOf(s).counterpartySlot}
<1>1. PICK slots, m : slots = REGISTRY[s].slots /\ m = MapOf(s)
  OBVIOUS
<1>2. Cast(slots, m)
  BY <1>1, EveryScenarioCast
<1>3. PICK k \in DOMAIN slots : slots[k].key = key
  BY <1>1, <1>2 DEF Cast
<1>4. /\ slots[k].type = "STRING"
      /\ key \notin {m.selectorSlot, m.relatedEventSlot, m.counterpartySlot}
  BY <1>1, <1>2, <1>3 DEF Cast
<1> QED BY <1>1, <1>3, <1>4, SlotFound

\* The slots of a scenario are numbered from one on.
Numbered(slots) == Len(slots) \in Nat /\ DOMAIN slots = 1 .. Len(slots)

LEMMA SlotsNumbered == \A s \in ScenarioIds : Numbered(REGISTRY[s].slots)
<1>1. /\ Numbered(registerPayment) /\ Numbered(registerPayroll)
      /\ Numbered(registerInfrastructure) /\ Numbered(registerServiceFee)
      /\ Numbered(registerTax) /\ Numbered(registerPenalty)
      /\ Numbered(registerAdvance) /\ Numbered(registerLoan)
      /\ Numbered(registerDirectPayment) /\ Numbered(registerCommissionAccrual)
  BY DEF Numbered, registerPayment, registerPayroll, registerInfrastructure, registerServiceFee, registerTax,
         registerPenalty, registerAdvance, registerLoan, registerDirectPayment, registerCommissionAccrual
<1>2. /\ Numbered(registerIncentive) /\ Numbered(registerWaiver)
      /\ Numbered(registerAdvanceSettlement) /\ Numbered(registerLoanRepayment)
      /\ Numbered(registerCommissionReceived)
      /\ Numbered(registerObligationRecognition) /\ Numbered(registerRectification)
  BY DEF Numbered, registerIncentive, registerWaiver, registerAdvanceSettlement, registerLoanRepayment,
         registerCommissionReceived, registerObligationRecognition, registerRectification
<1> QED BY <1>1, <1>2 DEF ScenarioIds, REGISTRY

-----------------------------------------------------------------------------
(* What merging answers does to one slot. *)

\* A slot that is filled, and is not answered again by an edit, keeps its answer.
LEMMA MergedKeeps ==
    ASSUME NEW s, NEW answers, NEW batch, NEW mode, NEW key, Filled(answers, key),
           mode = "fill" \/ key \notin DOMAIN batch
    PROVE  /\ Filled(Merged(s, answers, batch, mode), key)
           /\ Merged(s, answers, batch, mode)[key] = answers[key]
<1>1. PICK keys : keys = Recordable(s, answers, batch, mode)
  OBVIOUS
<1>2. key \notin keys
  BY <1>1 DEF Recordable
<1>3. PICK all : all = (DOMAIN answers \cup keys) \ {k \in keys : batch[k] = Blank}
  OBVIOUS
<1>4. key \in all
  BY <1>2, <1>3 DEF Filled
<1>5. Merged(s, answers, batch, mode) =
         [k \in all |-> IF k \in keys THEN Written(s, k, batch[k]) ELSE answers[k]]
  BY <1>1, <1>3 DEF Merged
<1> QED BY <1>2, <1>4, <1>5 DEF Filled

\* Another answer comes from the batch, as it is written.
LEMMA MergedWrites ==
    ASSUME NEW s, NEW answers, NEW batch, NEW mode, NEW key,
           Filled(Merged(s, answers, batch, mode), key)
    PROVE  \/ /\ key \in Recordable(s, answers, batch, mode) /\ batch[key] # Blank
              /\ Merged(s, answers, batch, mode)[key] = Written(s, key, batch[key])
           \/ /\ Filled(answers, key)
              /\ Merged(s, answers, batch, mode)[key] = answers[key]
<1>1. PICK keys : keys = Recordable(s, answers, batch, mode)
  OBVIOUS
<1>2. PICK all : all = (DOMAIN answers \cup keys) \ {k \in keys : batch[k] = Blank}
  OBVIOUS
<1>3. Merged(s, answers, batch, mode) =
         [k \in all |-> IF k \in keys THEN Written(s, k, batch[k]) ELSE answers[k]]
  BY <1>1, <1>2 DEF Merged
<1>4. key \in all
  BY <1>3 DEF Filled
<1> QED BY <1>1, <1>2, <1>3, <1>4 DEF Filled

LEMMA MergedNamed ==
    ASSUME NEW s \in ScenarioIds, NEW answers, NEW batch, NEW mode, Named(s, answers)
    PROVE  Named(s, Merged(s, answers, batch, mode))
<1>1. PICK key : key = MapOf(s).objectIdSlot
  OBVIOUS
<1>2. PICK merged : merged = Merged(s, answers, batch, mode)
  OBVIOUS
<1>3. ASSUME key # Absent, Filled(merged, key) PROVE merged[key] # Blank
  <2>1. CASE Filled(answers, key) /\ merged[key] = answers[key]
    BY <1>1, <1>3, <2>1 DEF Named
  <2>2. CASE batch[key] # Blank /\ merged[key] = Written(s, key, batch[key])
    BY <1>1, <1>3, <2>2, ObjectIdIs DEF Written
  <2> QED BY <1>2, <1>3, <2>1, <2>2, MergedWrites
<1> QED BY <1>1, <1>2, <1>3 DEF Named

LEMMA MergedKept ==
    ASSUME NEW a, NEW s, NEW answers, NEW batch, NEW mode, Kept(a, s, answers),
           mode = "fill" \/ \A key \in DOMAIN batch : ~Fixes(a, s, key)
    PROVE  Kept(a, s, Merged(s, answers, batch, mode))
<1>1. PICK m, merged : m = MapOf(s) /\ merged = Merged(s, answers, batch, mode)
  OBVIOUS
<1>2. ASSUME NEW key, Fixes(a, s, key), Filled(answers, key)
      PROVE  Filled(merged, key) /\ merged[key] = answers[key]
  BY <1>1, <1>2, MergedKeeps
<1>3. ASSUME a.position # Absent, m.objectIdSlot # Absent
      PROVE  Filled(merged, m.objectIdSlot) /\ merged[m.objectIdSlot] = a.position
  <2>1. Fixes(a, s, m.objectIdSlot) /\ Filled(answers, m.objectIdSlot) /\ answers[m.objectIdSlot] = a.position
    BY <1>1, <1>3 DEF Fixes, Kept
  <2> QED BY <1>2, <2>1
<1>4. ASSUME a.position # Absent, a.origin # None
      PROVE  RelatedTo(m, merged) = a.origin
  <2>1. RelatedTo(m, answers) = a.origin
    BY <1>1, <1>4 DEF Kept
  <2>2. /\ m.relatedEventSlot # Absent /\ Filled(answers, m.relatedEventSlot)
        /\ answers[m.relatedEventSlot] = a.origin
    BY <1>4, <2>1 DEF RelatedTo
  <2>3. Filled(merged, m.relatedEventSlot) /\ merged[m.relatedEventSlot] = a.origin
    BY <1>1, <1>2, <1>4, <2>2 DEF Fixes
  <2> QED BY <2>2, <2>3 DEF RelatedTo
<1> QED BY <1>1, <1>3, <1>4 DEF Kept

LEMMA AppliedSound ==
    ASSUME NEW a, NEW x, DOMAIN x = IntentFields, Sound(a, x), NEW batch, NEW mode,
           mode = "fill" \/ \A key \in DOMAIN batch : ~Fixes(a, x.scenario, key)
    PROVE  Sound(a, Applied(x, batch, mode))
<1>1. PICK s, answers : s = x.scenario /\ answers = x.answers
  OBVIOUS
<1>2. s \in ScenarioIds /\ Named(s, answers) /\ Kept(a, s, answers)
  BY <1>1 DEF Sound
<1>3. PICK n : n = Applied(x, batch, mode)
  OBVIOUS
<1>4. n.scenario = s /\ (n.answers = answers \/ n.answers = Merged(s, answers, batch, mode))
  BY <1>1, <1>3, AppliedIs
<1>5. Named(s, n.answers) /\ Kept(a, s, n.answers)
  <2>1. Named(s, Merged(s, answers, batch, mode))
    BY <1>2, MergedNamed
  <2>2. Kept(a, s, Merged(s, answers, batch, mode))
    BY <1>1, <1>2, MergedKept
  <2> QED BY <1>2, <1>4, <2>1, <2>2
<1> QED BY <1>2, <1>3, <1>4, <1>5 DEF Sound

\* An intent about no position in particular.
LEMMA AnythingSound ==
    ASSUME NEW a, NEW s \in ScenarioIds, a.position = Absent, NEW x, x.scenario = s, x.answers = <<>>
    PROVE  Sound(a, x)
BY DEF Sound, Named, Kept, Filled

-----------------------------------------------------------------------------
(* What the browser asks about. *)

\* What is asked is a slot still blank.
LEMMA QuestionBlank ==
    ASSUME NEW s \in ScenarioIds, NEW answers, ~Ready(s, answers)
    PROVE  Question(s, answers) \in SlotKeys(s) /\ ~Filled(answers, Question(s, answers))
<1>1. PICK slots, missing : slots = REGISTRY[s].slots /\ missing = Missing(s, answers)
  OBVIOUS
<1>2. missing # {} /\ missing \subseteq DOMAIN slots
  BY <1>1 DEF Ready, Missing
<1>3. DOMAIN slots \subseteq Nat
  BY <1>1, SlotsNumbered DEF Numbered
<1>4. Min(missing) \in missing
  BY <1>2, <1>3, LeastNatural DEF Min
<1> QED BY <1>1, <1>2, <1>4, SlotFound DEF Question, Missing

\* What a position answered is filled, so it is not asked.
LEMMA AsksElse ==
    ASSUME NEW a, NEW x, Sound(a, x), ~Ready(x.scenario, x.answers)
    PROVE  ~Fixes(a, x.scenario, Question(x.scenario, x.answers))
<1>1. PICK s, answers : s = x.scenario /\ answers = x.answers
  OBVIOUS
<1>2. s \in ScenarioIds /\ Kept(a, s, answers) /\ ~Ready(s, answers)
  BY <1>1 DEF Sound
<1>3. ASSUME NEW key, Fixes(a, s, key) PROVE Filled(answers, key)
  BY <1>2, <1>3 DEF Fixes, Kept, RelatedTo
<1> QED BY <1>1, <1>2, <1>3, QuestionBlank

-----------------------------------------------------------------------------
(* The batches of answers that can be given at once. *)

\* An answer to one more slot.
Extended(s, key, batches) ==
    {Saved(batch, key, value) : value \in Replies(SlotOf(s, key)), batch \in batches}

First(T) == CHOOSE x \in T : TRUE

Levels(s, D, it) ==
    it = [T \in D |-> IF T = {} THEN {<<>>} ELSE Extended(s, First(T), it[T \ {First(T)}])]

Within(keys, n) == {T \in SUBSET keys : Cardinality(T) <= n}

LEMMA FirstLeaves ==
    ASSUME NEW keys, IsFiniteSet(keys), NEW n \in Nat, NEW T \in Within(keys, n + 1), T # {}
    PROVE  First(T) \in T /\ T \ {First(T)} \in Within(keys, n)
<1>1. First(T) \in T /\ T \in SUBSET keys /\ Cardinality(T) <= n + 1
  BY DEF First, Within
<1>2. IsFiniteSet(T) /\ Cardinality(T) \in Nat
  BY <1>1, FS_Subset, FS_CardinalityType
<1>3. Cardinality(T \ {First(T)}) = Cardinality(T) - 1
  BY <1>1, <1>2, FS_RemoveElement
<1>4. Cardinality(T \ {First(T)}) <= n
  BY <1>1, <1>2, <1>3
<1> QED BY <1>1, <1>4 DEF Within

\* The fold is defined: by induction over the size of the sets it is taken of.
LEMMA FoldExists ==
    ASSUME NEW s, NEW keys, IsFiniteSet(keys)
    PROVE  \E it : Levels(s, SUBSET keys, it)
<1> DEFINE N == {n \in Nat : \E it : Levels(s, Within(keys, n), it)}
<1>1. 0 \in N
  <2> DEFINE it == [T \in Within(keys, 0) |-> {<<>>}]
  <2>1. \A T \in Within(keys, 0) : T = {}
    <3>1. ASSUME NEW T \in Within(keys, 0) PROVE T = {}
      <4>1. IsFiniteSet(T) /\ Cardinality(T) \in Nat /\ Cardinality(T) <= 0
        BY FS_Subset, FS_CardinalityType DEF Within
      <4> QED BY <4>1, FS_EmptySet
    <3> QED BY <3>1
  <2>2. Levels(s, Within(keys, 0), it)
    BY <2>1 DEF Levels
  <2> QED BY <2>2
<1>2. ASSUME NEW n \in N PROVE n + 1 \in N
  <2>1. PICK it : Levels(s, Within(keys, n), it)
    OBVIOUS
  <2> DEFINE D == Within(keys, n + 1)
  <2> DEFINE next == [T \in D |-> IF T = {} THEN {<<>>} ELSE Extended(s, First(T), it[T \ {First(T)}])]
  <2>2. \A T \in Within(keys, n) : it[T] = IF T = {} THEN {<<>>} ELSE Extended(s, First(T), it[T \ {First(T)}])
    BY <2>1, Zenon DEF Levels
  <2>3. \A T \in Within(keys, n) : T \in D
    BY FS_Subset, FS_CardinalityType DEF Within
  <2>4. \A T \in D : next[T] = IF T = {} THEN {<<>>} ELSE Extended(s, First(T), it[T \ {First(T)}])
    OBVIOUS
  <2>5. \A T \in Within(keys, n) : next[T] = it[T]
    BY <2>2, <2>3, <2>4
  <2>6. \A T \in D : T # {} => next[T \ {First(T)}] = it[T \ {First(T)}]
    BY <2>5, FirstLeaves
  <2>7. next = [T \in D |-> IF T = {} THEN {<<>>} ELSE Extended(s, First(T), next[T \ {First(T)}])]
    BY <2>6
  <2> HIDE DEF next, D
  <2>8. Levels(s, D, next)
    BY <2>7 DEF Levels
  <2> QED BY <2>8 DEF D
<1>3. N = Nat
  <2> HIDE DEF N
  <2>1. N \subseteq Nat
    BY DEF N
  <2> QED BY <1>1, <1>2, <2>1, AllNaturals
<1>4. Cardinality(keys) \in N
  BY <1>3, FS_CardinalityType
<1>5. Within(keys, Cardinality(keys)) = SUBSET keys
  <2>1. ASSUME NEW T \in SUBSET keys PROVE T \in Within(keys, Cardinality(keys))
    BY FS_Subset DEF Within
  <2> QED BY <2>1 DEF Within
<1> QED BY <1>4, <1>5

LEMMA BatchesFold ==
    ASSUME NEW s, NEW keys, IsFiniteSet(keys)
    PROVE  \E it : Levels(s, SUBSET keys, it) /\ Batches(s, keys) = it[keys]
<1> DEFINE it == CHOOSE it : Levels(s, SUBSET keys, it)
<1>1. Levels(s, SUBSET keys, it)
  BY FoldExists
<1>2. Batches(s, keys) = it[keys]
  BY DEF Batches, FoldSet, MapThenFoldSet, Levels, Extended, First
<1> QED BY <1>1, <1>2

\* Every batch answers these slots and no others, with what may be answered to each.
Replied(s, keys, batch) ==
    DOMAIN batch = keys /\ \A key \in keys : batch[key] \in Replies(SlotOf(s, key))

LEMMA BatchesAnswer ==
    ASSUME NEW s, NEW keys, IsFiniteSet(keys), NEW batch \in Batches(s, keys)
    PROVE  Replied(s, keys, batch)
<1>1. PICK it : Levels(s, SUBSET keys, it) /\ Batches(s, keys) = it[keys]
  BY BatchesFold
<1>2. \A T \in SUBSET keys : it[T] = IF T = {} THEN {<<>>} ELSE Extended(s, First(T), it[T \ {First(T)}])
  BY <1>1, Zenon DEF Levels
<1>E. \A b \in it[{}] : Replied(s, {}, b)
  <2>1. PICK none : none = <<>>
    OBVIOUS
  <2>2. {} \in SUBSET keys
    OBVIOUS
  <2>3. it[{}] = {none}
    BY <1>2, <2>1, <2>2
  <2>4. DOMAIN none = {}
    BY <2>1
  <2> QED BY <2>3, <2>4 DEF Replied
<1> DEFINE N == {n \in Nat : \A T \in Within(keys, n) : \A b \in it[T] : Replied(s, T, b)}
<1>3. 0 \in N
  <2>1. ASSUME NEW T \in Within(keys, 0) PROVE T = {}
    <3>1. IsFiniteSet(T) /\ Cardinality(T) \in Nat /\ Cardinality(T) <= 0
      BY FS_Subset, FS_CardinalityType DEF Within
    <3> QED BY <3>1, FS_EmptySet
  <2>2. \A b \in it[{}] : Replied(s, {}, b)
    BY <1>E
  <2>3. \A T \in Within(keys, 0) : \A b \in it[T] : Replied(s, T, b)
    BY <2>1, <2>2
  <2> QED BY <2>3
<1>4. ASSUME NEW n \in N PROVE n + 1 \in N
  <2>1. ASSUME NEW T \in Within(keys, n + 1), NEW b \in it[T] PROVE Replied(s, T, b)
    <3>1. CASE T = {}
      BY <1>E, <2>1, <3>1
    <3>2. CASE T # {}
      <4>1. PICK key, U : key = First(T) /\ U = T \ {key} /\ key \in T /\ U \in Within(keys, n)
        BY <2>1, <3>2, FirstLeaves
      <4>2. b \in Extended(s, key, it[U])
        BY <1>2, <2>1, <3>2, <4>1 DEF Within
      <4>3. PICK value \in Replies(SlotOf(s, key)), c \in it[U] : b = Saved(c, key, value)
        BY <4>2 DEF Extended
      <4>4. Replied(s, U, c)
        BY <4>1
      <4>5. DOMAIN b = T /\ b[key] = value /\ \A k \in U : b[k] = c[k]
        BY <4>1, <4>3, <4>4 DEF Saved, Replied
      <4> QED BY <4>1, <4>3, <4>4, <4>5 DEF Replied
    <3> QED BY <3>1, <3>2
  <2> QED BY <2>1
<1>5. N = Nat
  <2> HIDE DEF N
  <2>1. N \subseteq Nat
    BY DEF N
  <2> QED BY <1>3, <1>4, <2>1, AllNaturals
<1>6. keys \in Within(keys, Cardinality(keys)) /\ Cardinality(keys) \in Nat
  BY FS_CardinalityType DEF Within
<1> QED BY <1>1, <1>5, <1>6

\* A scenario has finitely many slots.
LEMMA SlotKeysFinite ==
    ASSUME NEW s \in ScenarioIds
    PROVE  IsFiniteSet(SlotKeys(s))
<1>1. PICK slots : slots = REGISTRY[s].slots /\ Numbered(slots)
  BY SlotsNumbered
<1> DEFINE keyOf == [k \in 1 .. Len(slots) |-> slots[k].key]
<1>2. keyOf \in Surjection(1 .. Len(slots), SlotKeys(s))
  BY <1>1 DEF Numbered, Surjection, SlotKeys, Range
<1>3. IsFiniteSet(1 .. Len(slots))
  BY <1>1, FS_Interval DEF Numbered
<1> QED BY <1>2, <1>3, FS_Surjection

-----------------------------------------------------------------------------
(* What is posted of an intent. *)

\* Of the objects of a candidate none has a blank for its id, and a position that is asserted is
\* among them.
LEMMA CandidateObjects ==
    ASSUME NEW i \in DOMAIN Refs, NEW x, x.scenario \in ScenarioIds, Named(x.scenario, x.answers)
    PROVE  /\ \A o \in Range(Candidate(i, x).objects) : o.objectId # Blank
           /\ Asserts(MapOf(x.scenario), x.answers) =>
                 x.answers[MapOf(x.scenario).objectIdSlot] \in {o.objectId : o \in Range(Candidate(i, x).objects)}
<1>1. PICK s, answers, m, ref : s = x.scenario /\ answers = x.answers /\ m = MapOf(s) /\ ref = Refs[i]
  OBVIOUS
<1>2. PICK objects : objects = Candidate(i, x).objects
  OBVIOUS
<1>3. objects = [k \in DOMAIN m.objects |->
                    [objectId |-> ObjectId(m, ref, answers, Branch(m, answers)[k]),
                     objectType |-> Branch(m, answers)[k].objectType,
                     relation |-> Branch(m, answers)[k].relation]]
  BY <1>1, <1>2 DEF Candidate, build
<1>4. /\ 1 \in DOMAIN m.objects
      /\ Len(m.objects) # 1 => /\ m.selectorSlot = Absent
                               /\ \A k \in DOMAIN m.objects : m.objects[k].objectType \in ObjectTypes
  BY <1>1, EveryScenarioCast DEF Cast
<1>5. ref # Blank /\ \A t \in ObjectTypes : ref \o ":" \o t # Blank
  BY <1>1, SubmissionAssumption
<1>6. Asserts(m, answers) => answers[m.objectIdSlot] # Blank
  BY <1>1 DEF Named, Asserts
<1>7. ASSUME NEW k \in DOMAIN m.objects PROVE objects[k].objectId # Blank
  <2>1. PICK o : o = Branch(m, answers)[k]
    OBVIOUS
  <2>2. objects[k].objectId = ObjectId(m, ref, answers, o)
    BY <1>3, <2>1
  <2>3. Len(m.objects) # 1 => o.objectType \in ObjectTypes
    BY <1>4, <2>1 DEF Branch
  <2>4. PICK t : t = o.objectType
    OBVIOUS
  <2>5. Len(m.objects) # 1 => ref \o ":" \o t # Blank
    BY <1>5, <2>3, <2>4
  <2> QED BY <1>5, <1>6, <2>2, <2>4, <2>5 DEF ObjectId
<1>8. Range(objects) = {objects[k] : k \in DOMAIN m.objects}
  BY <1>3 DEF Range
<1>9. Asserts(m, answers) => objects[1].objectId = answers[m.objectIdSlot]
  BY <1>3, <1>4 DEF ObjectId
<1> QED BY <1>1, <1>2, <1>4, <1>7, <1>8, <1>9

\* What an intent posts moves the position it was opened from.
LEMMA CandidateSticks ==
    ASSUME NEW i \in DOMAIN Refs, NEW a, NEW x, Sound(a, x)
    PROVE  Sticks(i, a, x.scenario, Candidate(i, x), RelatedTo(MapOf(x.scenario), x.answers))
<1>1. PICK s, answers, m : s = x.scenario /\ answers = x.answers /\ m = MapOf(s)
  OBVIOUS
<1>2. s \in ScenarioIds /\ Named(s, answers) /\ Kept(a, s, answers)
  BY <1>1 DEF Sound
<1>3. PICK cmd : cmd = Candidate(i, x)
  OBVIOUS
<1>4. ASSUME a.position # Absent, m.objectIdSlot # Absent
      PROVE  a.position \in {o.objectId : o \in Range(cmd.objects)}
  <2>1. Asserts(m, answers) /\ answers[m.objectIdSlot] = a.position
    BY <1>1, <1>2, <1>4 DEF Kept, Asserts
  <2> QED BY <1>1, <1>2, <1>3, <2>1, CandidateObjects
<1>5. a.position # Absent /\ a.origin # None => RelatedTo(m, answers) = a.origin
  BY <1>1, <1>2 DEF Kept
<1> QED BY <1>1, <1>3, <1>4, <1>5 DEF Sticks

\* In the next state: what an intent posts is placed.
LEMMA PostedPlaced ==
    ASSUME DOMAIN intents' \subseteq DOMAIN Refs, NEW i \in DOMAIN Refs, NEW x, Sound(about'[i], x),
           x.scenario = intents'[i].scenario, NEW cmd, cmd = Candidate(i, x),
           NEW related, related = RelatedTo(MapOf(x.scenario), x.answers)
    PROVE  Placed(cmd, related)'
<1>1. PICK a : a = about'[i]
  OBVIOUS
<1>2. Sticks(i, a, x.scenario, cmd, related)
  BY <1>1, CandidateSticks
<1>3. \A o \in Range(cmd.objects) : o.objectId # Blank
  BY <1>1, CandidateObjects DEF Sound
<1>4. cmd.ref = Refs[i]
  BY CandidateKey
<1>5. ASSUME NEW j \in DOMAIN intents' PROVE Sticks(j, about'[j], intents'[j].scenario, cmd, related)
  <2>1. CASE j = i
    BY <1>1, <1>2, <2>1
  <2>2. CASE j # i
    BY <1>4, <2>2, SubmissionAssumption DEF Sticks
  <2> QED BY <2>1, <2>2
<1> QED BY <1>3, <1>5 DEF Placed

-----------------------------------------------------------------------------
(* What a step leaves. *)

\* An intent keeps its scenario and its subject; a new one takes the next reference.
Stays ==
    \A i \in DOMAIN intents' :
        \/ /\ i \in DOMAIN intents /\ about'[i] = about[i]
           /\ intents'[i].scenario = intents[i].scenario
        \/ i = issued + 1 /\ i \in DOMAIN Refs

LEMMA PlacedStays ==
    ASSUME Counted, Stays, NEW cmd, Keyed(cmd), NEW related, Placed(cmd, related)
    PROVE  Placed(cmd, related)'
<1>1. ASSUME NEW i \in DOMAIN intents' PROVE Sticks(i, about'[i], intents'[i].scenario, cmd, related)
  <2>1. CASE i \in DOMAIN intents /\ about'[i] = about[i] /\ intents'[i].scenario = intents[i].scenario
    BY <2>1 DEF Placed
  <2>2. CASE i = issued + 1 /\ i \in DOMAIN Refs
    <3>1. cmd.ref # Refs[i]
      BY <2>2 DEF Keyed, Counted
    <3> QED BY <3>1 DEF Sticks
  <2> QED BY <2>1, <2>2 DEF Stays
<1> QED BY <1>1 DEF Placed

LEMMA CopyStays ==
    ASSUME Counted, Stays, DOMAIN intents \subseteq DOMAIN intents', NEW c, CopySound(c),
           c.pc = "posted" => c.intent \in DOMAIN intents
    PROVE  CopySound(c)'
<1>1. ASSUME c.pc = "posted"
      PROVE  about'[c.intent] = about[c.intent] /\ intents'[c.intent].scenario = intents[c.intent].scenario
  BY <1>1 DEF Counted, Stays
<1> QED BY <1>1 DEF CopySound

\* What the browser asked is still nothing the position answered.
LEMMA AskedStays ==
    ASSUME Counted, Stays, AskedElse, tab.intent \in DOMAIN intents' => tab.intent \in DOMAIN intents,
           tab'.asked = {} \/ (tab'.intent = tab.intent /\ tab'.asked \subseteq tab.asked)
    PROVE  AskedElse'
<1>1. ASSUME tab'.intent \in DOMAIN intents', NEW key \in tab'.asked
      PROVE  ~Fixes(about'[tab'.intent], intents'[tab'.intent].scenario, key)
  <2>1. PICK i : i = tab.intent /\ i = tab'.intent /\ i \in DOMAIN intents /\ key \in tab.asked
    BY <1>1
  <2>2. about'[i] = about[i] /\ intents'[i].scenario = intents[i].scenario
    <3>1. i \in DOMAIN intents' /\ i # issued + 1
      BY <1>1, <2>1 DEF Counted
    <3> QED BY <3>1 DEF Stays
  <2> QED BY <2>1, <2>2 DEF AskedElse
<1> QED BY <1>1 DEF AskedElse

\* A request goes on being what it is, or is placed anew.
LEMMA PositionsKept ==
    ASSUME SubmitInv, PositionInv, Stays, UNCHANGED book,
           \A i \in DOMAIN intents' : Sound(about'[i], intents'[i]),
           \A h \in Calls : CopySound(call[h])',
           \A w \in Writers :
              \/ request'[w].pc = "free"
              \/ /\ request[w].pc # "free"
                 /\ request'[w].cmd = request[w].cmd /\ request'[w].related = request[w].related
              \/ Placed(request[w].cmd, request[w].related)',
           AskedElse'
    PROVE  PositionInv'
<1>0. Counted /\ BookKeyed /\ RequestsHold
  BY DEF SubmitInv
<1>1. ASSUME NEW w \in Writers, request'[w].pc # "free"
      PROVE  Placed(request[w].cmd, request[w].related)'
  <2>1. CASE /\ request[w].pc # "free"
             /\ request'[w].cmd = request[w].cmd /\ request'[w].related = request[w].related
    <3>1. PICK cmd, related : cmd = request[w].cmd /\ related = request[w].related
      OBVIOUS
    <3>2. Placed(cmd, related) /\ Keyed(cmd)
      BY <1>0, <2>1, <3>1 DEF PositionInv, RequestsHold, RequestHolds
    <3>3. Placed(cmd, related)'
      BY <1>0, <3>2, PlacedStays
    <3> QED BY <2>1, <3>1, <3>3 DEF Placed
  <2> QED BY <1>1, <2>1
<1>2. ASSUME NEW e \in Ids(book)' PROVE Placed(book[e].cmd, book[e].related)'
  <2>1. PICK cmd, related : cmd = book[e].cmd /\ related = book[e].related
    OBVIOUS
  <2>2. e \in Ids(book) /\ Placed(cmd, related) /\ Keyed(cmd)
    BY <1>0, <2>1 DEF PositionInv, BookKeyed, Ids
  <2>3. Placed(cmd, related)'
    BY <1>0, <2>2, PlacedStays
  <2> QED BY <2>1, <2>3 DEF Placed
<1> QED BY <1>1, <1>2 DEF PositionInv

-----------------------------------------------------------------------------
(* The steps of the ledger, and the answers that arrive or do not. *)

\* What is staged carries no intent's reference.
LEMMA StagedPlaced ==
    ASSUME Counted, NEW cmd \in Commands, NEW related
    PROVE  Placed(cmd, related)
<1>1. \A o \in Range(cmd.objects) : o.objectId # Blank
  BY SubmissionAssumption
<1>2. ASSUME NEW i \in DOMAIN intents PROVE cmd.ref # Refs[i]
  <2>1. i \in DOMAIN Refs
    <3>1. i \in 1 .. issued /\ issued \in Nat /\ issued <= Len(Refs)
      BY PromisedIs, SubmissionAssumption DEF Counted
    <3> QED BY <3>1, SubmissionAssumption
  <2> QED BY <2>1, SubmissionAssumption DEF Range
<1> QED BY <1>1, <1>2 DEF Placed, Sticks

LEMMA LedgerPositions ==
    ASSUME SubmitInv, PositionInv, NEW w \in Writers, NEW q, NEW r, LedgerMoves(w, q, r)
    PROVE  PositionInv'
<1>0. Shapes /\ Counted
  BY DEF SubmitInv
<1>1. /\ UNCHANGED <<intents, issued, tab, call, about>> /\ request'[w] = q
      /\ \A v \in Writers : v # w => request'[v] = request[v]
  BY <1>0 DEF Shapes, Table, LedgerMoves
<1>2. \A cmd, related : Placed(cmd, related) => Placed(cmd, related)'
  BY <1>1 DEF Placed
<1>3. q.pc # "free" => Placed(q.cmd, q.related)
  <2>1. CASE Carried(w, q, r)
    BY <2>1 DEF PositionInv, Carried
  <2>2. CASE TakenUp(w, q, r)
    BY <1>0, <2>2, StagedPlaced DEF TakenUp
  <2>3. CASE Forgotten(w, q)
    BY <2>3, FreeIs DEF Forgotten
  <2> QED BY <2>1, <2>2, <2>3 DEF LedgerMoves
<1>4. ASSUME NEW v \in Writers, request'[v].pc # "free" PROVE Placed(request[v].cmd, request[v].related)'
  <2>1. PICK cmd, related : cmd = request'[v].cmd /\ related = request'[v].related
    OBVIOUS
  <2>2. Placed(cmd, related)
    BY <1>1, <1>3, <1>4, <2>1 DEF PositionInv
  <2> QED BY <1>2, <2>1, <2>2 DEF Placed
<1>5. ASSUME NEW e \in Ids(book)' PROVE Placed(book[e].cmd, book[e].related)'
  <2>1. PICK cmd, related : cmd = book'[e].cmd /\ related = book'[e].related
    OBVIOUS
  <2>2. Placed(cmd, related)
    <3>1. CASE UNCHANGED book
      BY <1>5, <2>1, <3>1 DEF PositionInv, Ids
    <3>2. ASSUME NEW x, Joined(x), x.cmd = q.cmd, x.related = q.related, q.pc = "done"
          PROVE  Placed(cmd, related)
      BY <1>3, <1>5, <2>1, <3>2 DEF PositionInv, Joined
    <3> QED BY <3>1, <3>2 DEF LedgerMoves, Carried, TakenUp, Forgotten
  <2> QED BY <1>2, <2>1, <2>2 DEF Placed
<1>6. /\ \A i \in DOMAIN intents' : Sound(about'[i], intents'[i])
      /\ \A h \in Calls : CopySound(call[h])'
      /\ AskedElse'
  BY <1>1 DEF PositionInv, CopySound, AskedElse
<1> QED BY <1>4, <1>5, <1>6 DEF PositionInv

LEMMA HeardAsked ==
    ASSUME Shapes, NEW chat, NEW fix, Heard(chat, fix)
    PROVE  tab'.asked = tab.asked
<1>1. tab = [k \in TabFields |-> tab[k]]
  BY DEF Shapes
<1>2. PICK more : \/ tab' = [tab EXCEPT !.busy = FALSE, !.fix = more]
                  \/ tab' = tab
  BY DEF Heard
<1> QED BY <1>1, <1>2 DEF TabFields

LEMMA ReleasePositions ==
    ASSUME SubmitInv, PositionInv, NEW h \in Calls, NEW w \in Writers, NEW q, NEW r, NEW c,
           Releases(h, w, q, r, c), tab'.asked = tab.asked,
           \A i \in DOMAIN intents :
              intents'[i].scenario = intents[i].scenario /\ Sound(about[i], intents'[i])
    PROVE  PositionInv'
<1>0. Shapes /\ Counted /\ CallsHold /\ Lines
  BY DEF SubmitInv
<1>1. /\ \A v \in Writers : v # w => request'[v] = request[v]
      /\ \A g \in Calls : g # h => call'[g] = call[g]
      /\ request'[w] = q /\ call'[h] = c
      /\ DOMAIN intents' = DOMAIN intents /\ UNCHANGED <<book, about>>
  BY <1>0 DEF Shapes, Table, Releases
<1>2. Stays
  BY <1>1 DEF Stays
<1>3. CopySound(c)'
  BY DEF PositionInv, CopySound, Releases
<1>4. ASSUME NEW g \in Calls PROVE CopySound(call[g])'
  <2>1. CASE g = h
    BY <1>1, <1>3, <2>1 DEF CopySound
  <2>2. CASE g # h
    <3>1. PICK k : k = call[g]
      OBVIOUS
    <3>2. CopySound(k) /\ (k.pc = "posted" => k.intent \in DOMAIN intents)
      BY <1>0, <3>1 DEF PositionInv, CallsHold, CallHolds
    <3>3. CopySound(k)'
      BY <1>0, <1>1, <1>2, <3>2, CopyStays
    <3> QED BY <1>1, <2>2, <3>1, <3>3 DEF CopySound
  <2> QED BY <2>1, <2>2
<1>5. ASSUME NEW v \in Writers
      PROVE  \/ request'[v].pc = "free"
             \/ /\ request[v].pc # "free"
                /\ request'[v].cmd = request[v].cmd /\ request'[v].related = request[v].related
  <2>1. request[w].pc # "free"
    BY <1>0, SubmissionAssumption DEF Lines, Answerable, Releases
  <2> QED BY <1>1, <2>1, FreeIs DEF Releases
<1>6. AskedElse'
  BY <1>0, <1>1, <1>2, AskedStays DEF PositionInv, Releases
<1> QED BY <1>1, <1>2, <1>4, <1>5, <1>6, PositionsKept

LEMMA ReceivePositions ==
    ASSUME SubmitInv, PositionInv, NEW h \in Calls, Receive(h)
    PROVE  PositionInv'
<1>0. Shapes /\ CallsHold
  BY DEF SubmitInv
<1>1. PICK w \in Writers : \E x, c : Answered(h, w, x, c)
  BY <1>0, ReceiveAnswers
<1>2. PICK x, c : Answered(h, w, x, c)
  BY <1>1
<1>3. PICK i : i = call[h].intent /\ i \in DOMAIN intents /\ intents' = [intents EXCEPT ![i] = x]
  BY <1>2 DEF Answered
<1>4. x.scenario = intents[i].scenario /\ Sound(about[i], x)
  <2>1. PICK k : k = call[h]
    OBVIOUS
  <2>2. PICK copy, answer : copy = k.copy /\ answer = writer[w].answer
    OBVIOUS
  <2>3. x = Disposed(copy, answer) /\ DOMAIN copy = IntentFields /\ k.pc = "posted"
    BY <1>0, <1>2, <2>1, <2>2 DEF Answered, CallsHold, CallHolds
  <2>4. x.scenario = copy.scenario /\ x.answers = copy.answers
    BY <2>3, DisposedIs
  <2>5. Sound(about[i], copy) /\ copy.scenario = intents[i].scenario
    BY <1>3, <2>1, <2>2, <2>3 DEF PositionInv, CopySound
  <2> QED BY <2>4, <2>5 DEF Sound
<1>5. \A j \in DOMAIN intents :
         intents'[j].scenario = intents[j].scenario /\ Sound(about[j], intents'[j])
  BY <1>3, <1>4 DEF PositionInv
<1>6. tab'.asked = tab.asked
  <2>1. PICK chat, fix : Heard(chat, fix)
    BY DEF Receive
  <2> QED BY <1>0, <2>1, HeardAsked
<1>7. Releases(h, w, Free, Idle, c)
  BY <1>2 DEF Answered
<1> QED BY <1>5, <1>6, <1>7, ReleasePositions

LEMMA TimeoutPositions ==
    ASSUME SubmitInv, PositionInv, NEW h \in Calls, Timeout(h)
    PROVE  PositionInv'
<1>0. Shapes /\ CallsHold /\ RequestsHold
  BY DEF SubmitInv
<1>1. PICK w \in Writers : \E q : GivesUp(h, w, q)
  BY <1>0, TimeoutGivesUp
<1>2. PICK q : GivesUp(h, w, q)
  BY <1>1
<1>3. PICK r : r = writer[w]
  OBVIOUS
<1>4. Releases(h, w, q, r, Quiet) /\ UNCHANGED intents
  BY <1>2, <1>3 DEF GivesUp
<1>5. tab'.asked = tab.asked
  <2>1. PICK chat, fix : Heard(chat, fix)
    BY DEF Timeout
  <2> QED BY <1>0, <2>1, HeardAsked
<1> QED BY <1>4, <1>5, ReleasePositions DEF PositionInv

LEMMA RestartPositions ==
    ASSUME SubmitInv, PositionInv, LedgerRestarts \/ TreasuryRestarts
    PROVE  PositionInv'
<1>0. Shapes /\ Counted /\ CallsHold
  BY DEF SubmitInv
<1>1. tab'.intent = tab.intent /\ tab'.asked = tab.asked
  <2>1. PICK chat, fix : Heard(chat, fix)
    BY DEF LedgerRestarts, TreasuryRestarts
  <2> QED BY <1>0, <2>1, HeardIs, HeardAsked
<1>2. CASE LedgerRestarts
  <2>1. UNCHANGED <<book, intents, about>> /\ request' = [w \in Writers |-> Free]
    BY <1>2 DEF LedgerRestarts
  <2>2. ASSUME NEW h \in Calls PROVE CopySound(call[h])'
    <3>1. call'[h] = Quiet \/ call'[h] = call[h]
      BY <1>2 DEF LedgerRestarts
    <3> QED BY <2>1, <3>1, FreeIs DEF PositionInv, CopySound
  <2> QED BY <1>1, <2>1, <2>2, FreeIs DEF PositionInv, Placed, Ids, AskedElse
<1>3. CASE TreasuryRestarts
  <2>1. /\ UNCHANGED <<book, about>> /\ DOMAIN intents' = {}
        /\ call' = [h \in Calls |-> Quiet]
        /\ request' = [w \in Writers |-> [request[w] EXCEPT !.caller = Nobody]]
    <3>1. PICK none : none = <<>> /\ DOMAIN none = {}
      OBVIOUS
    <3>2. intents' = none
      BY <1>3, <3>1 DEF TreasuryRestarts
    <3>3. /\ UNCHANGED <<book, about>> /\ call' = [h \in Calls |-> Quiet]
          /\ request' = [w \in Writers |-> [request[w] EXCEPT !.caller = Nobody]]
      BY <1>3 DEF TreasuryRestarts
    <3> QED BY <3>1, <3>2, <3>3
  <2>2. ASSUME NEW w \in Writers
        PROVE  /\ request'[w].pc = request[w].pc /\ request'[w].cmd = request[w].cmd
               /\ request'[w].related = request[w].related
    <3>1. PICK l : l = request[w] /\ DOMAIN l = RequestFields
      BY <1>0 DEF Shapes, Table
    <3> DEFINE p == [l EXCEPT !.caller = Nobody]
    <3>2. p.pc = l.pc /\ p.cmd = l.cmd /\ p.related = l.related
      BY <3>1 DEF RequestFields
    <3>3. request'[w] = p
      BY <2>1, <3>1
    <3> HIDE DEF p
    <3> QED BY <3>1, <3>2, <3>3
  <2>3. \A h \in Calls : CopySound(call[h])'
    BY <2>1, FreeIs DEF CopySound
  <2> QED BY <2>1, <2>2, <2>3 DEF PositionInv, Placed, Ids, AskedElse
<1> QED BY <1>2, <1>3

-----------------------------------------------------------------------------
(* The steps of a conversation. *)

LEMMA SpeaksPositions ==
    ASSUME SubmitInv, PositionInv, Speaks, AskedElse',
           \A i \in DOMAIN intents :
              intents'[i].scenario = intents[i].scenario /\ Sound(about[i], intents'[i])
    PROVE  PositionInv'
<1>0. Counted /\ CallsHold
  BY DEF SubmitInv
<1>1. UNCHANGED <<book, call, request, about>> /\ DOMAIN intents' = DOMAIN intents
  BY DEF Speaks, Table
<1>2. Stays
  BY <1>1 DEF Stays
<1>3. ASSUME NEW g \in Calls PROVE CopySound(call[g])'
  <2>1. PICK k : k = call[g]
    OBVIOUS
  <2>2. CopySound(k) /\ (k.pc = "posted" => k.intent \in DOMAIN intents)
    BY <1>0, <2>1 DEF PositionInv, CallsHold, CallHolds
  <2>3. CopySound(k)'
    BY <1>0, <1>1, <1>2, <2>2, CopyStays
  <2> QED BY <1>1, <2>1, <2>3 DEF CopySound
<1> QED BY <1>1, <1>2, <1>3, PositionsKept

LEMMA ShownAsked ==
    ASSUME Shapes, NEW x
    PROVE  /\ Shown(x).intent = tab.intent
           /\ \/ Shown(x).asked = tab.asked
              \/ ~Ready(x.scenario, x.answers) /\ Shown(x).asked = tab.asked \cup {Question(x.scenario, x.answers)}
<1>1. DOMAIN tab = TabFields
  BY DEF Shapes
<1>2. PICK t : t = tab
  OBVIOUS
<1>3. PICK asked : asked = t.asked \cup {Question(x.scenario, x.answers)}
  OBVIOUS
<1> DEFINE a == [t EXCEPT !.card = TRUE]
<1> DEFINE b == [t EXCEPT !.asked = asked]
<1>4. /\ a.intent = t.intent /\ a.asked = t.asked
      /\ b.intent = t.intent /\ b.asked = asked
  BY <1>1, <1>2 DEF TabFields
<1>5. Shown(x) = a \/ (~Ready(x.scenario, x.answers) /\ Shown(x) = b)
  BY <1>1, <1>2, <1>3 DEF Shown, TabFields
<1> HIDE DEF a, b
<1> QED BY <1>2, <1>3, <1>4, <1>5

\* Replied are applied to the intent shown: none of them, unless it only fills, is to what a
\* position answered.
LEMMA AppliedPositions ==
    ASSUME SubmitInv, PositionInv, Speaks, Current # NoPlan, NEW batch, NEW mode,
           mode = "fill" \/ \A key \in DOMAIN batch : ~Fixes(about[tab.intent], Current.scenario, key),
           intents' = [intents EXCEPT ![tab.intent] = Applied(intents[tab.intent], batch, mode)],
           tab' = Shown(intents'[tab.intent]) \/ tab' = tab
    PROVE  PositionInv'
<1>0. Shapes
  BY DEF SubmitInv
<1>1. PICK i : i = tab.intent /\ i \in DOMAIN intents /\ Current = intents[i]
  BY CurrentIs
<1>2. PICK x, a : x = intents[i] /\ a = about[i] /\ DOMAIN x = IntentFields
  BY <1>0, <1>1 DEF Shapes, Table
<1>3. PICK n : n = Applied(x, batch, mode)
  OBVIOUS
<1>4. intents' = [intents EXCEPT ![i] = n] /\ UNCHANGED about
  BY <1>1, <1>2, <1>3 DEF Speaks
<1>5. Sound(a, x)
  BY <1>1, <1>2 DEF PositionInv
<1>6. n.scenario = x.scenario /\ Sound(a, n)
  <2>1. mode = "fill" \/ \A key \in DOMAIN batch : ~Fixes(a, x.scenario, key)
    BY <1>1, <1>2
  <2> QED BY <1>2, <1>3, <1>5, <2>1, AppliedIs, AppliedSound
<1>7. \A j \in DOMAIN intents :
         intents'[j].scenario = intents[j].scenario /\ Sound(about[j], intents'[j])
  BY <1>1, <1>2, <1>4, <1>6 DEF PositionInv
<1>8. /\ tab'.intent = i
      /\ \/ tab'.asked = tab.asked
         \/ ~Ready(n.scenario, n.answers) /\ tab'.asked = tab.asked \cup {Question(n.scenario, n.answers)}
  <2>1. intents'[i] = n
    BY <1>1, <1>4
  <2>2. tab' = Shown(n) \/ tab' = tab
    BY <1>1, <2>1
  <2> QED BY <1>0, <1>1, <2>2, ShownAsked
<1>9. AskedElse'
  <2>1. ASSUME NEW key \in tab'.asked PROVE ~Fixes(a, n.scenario, key)
    <3>1. CASE key \in tab.asked
      BY <1>1, <1>2, <1>6, <3>1 DEF PositionInv, AskedElse
    <3>2. CASE ~Ready(n.scenario, n.answers) /\ key = Question(n.scenario, n.answers)
      BY <1>6, <3>2, AsksElse
    <3> QED BY <1>8, <2>1, <3>1, <3>2
  <2>2. intents'[i] = n /\ about'[i] = a
    BY <1>1, <1>2, <1>4
  <2> QED BY <1>8, <2>1, <2>2 DEF AskedElse
<1> QED BY <1>7, <1>9, SpeaksPositions

\* The cards only answer what the browser asked.
LEMMA CardsAnswer ==
    ASSUME PositionInv, Current # NoPlan, NEW keys, keys \subseteq Editable,
           NEW batch \in Batches(Current.scenario, keys)
    PROVE  \A key \in DOMAIN batch : ~Fixes(about[tab.intent], Current.scenario, key)
<1>1. tab.intent \in DOMAIN intents /\ Current = intents[tab.intent]
  BY CurrentIs
<1>2. PICK s : s = Current.scenario /\ s \in ScenarioIds
  BY <1>1 DEF PositionInv, Sound
<1>3. IsFiniteSet(keys)
  <2>1. keys \subseteq SlotKeys(s)
    BY <1>2 DEF Editable
  <2> QED BY <1>2, <2>1, SlotKeysFinite, FS_Subset
<1>4. DOMAIN batch = keys
  BY <1>2, <1>3, BatchesAnswer DEF Replied
<1>5. keys \subseteq tab.asked
  BY DEF Editable
<1> QED BY <1>1, <1>4, <1>5 DEF PositionInv, AskedElse

LEMMA TalkPositions ==
    ASSUME SubmitInv, PositionInv, Converse \/ SelectPosition \/ Edit \/ Correct \/ Restart
    PROVE  PositionInv'
<1>0. Speaks /\ Shapes /\ Counted
  BY TalkSpeaks DEF SubmitInv
<1>1. ASSUME NEW batch, NEW mode, Current # NoPlan, Merge(batch, mode),
             mode = "fill" \/ \A key \in DOMAIN batch : ~Fixes(about[tab.intent], Current.scenario, key)
      PROVE  PositionInv'
  BY <1>0, <1>1, AppliedPositions DEF Merge
<1>2. CASE Converse \/ SelectPosition
  BY <1>1, <1>2 DEF Converse, SelectPosition
<1>3. CASE Edit
  <2>1. PICK key \in Editable : \E batch \in Batches(Current.scenario, {key}) : Merge(batch, "edit")
    BY <1>3 DEF Edit
  <2>2. PICK batch \in Batches(Current.scenario, {key}) : Merge(batch, "edit")
    BY <2>1
  <2>3. Current # NoPlan /\ {key} \subseteq Editable
    BY <1>3, <2>1 DEF Edit
  <2> QED BY <1>1, <2>2, <2>3, CardsAnswer
<1>4. CASE Correct
  <2>1. PICK keys \in SUBSET CorrectionCard : \E batch \in Batches(Current.scenario, keys) :
          /\ intents' = [intents EXCEPT ![tab.intent] = Applied(@, batch, "edit")]
          /\ tab' = IF Recordable(Current.scenario, Current.answers, batch, "edit") = keys
                     THEN Shown(intents'[tab.intent]) ELSE tab
    BY <1>4 DEF Correct
  <2>2. PICK batch \in Batches(Current.scenario, keys) :
          /\ intents' = [intents EXCEPT ![tab.intent] = Applied(intents[tab.intent], batch, "edit")]
          /\ tab' = Shown(intents'[tab.intent]) \/ tab' = tab
    BY <2>1
  <2>3. Current # NoPlan /\ keys \subseteq Editable
    BY <1>4, <2>1 DEF Correct, CorrectionCard
  <2>4. \A key \in DOMAIN batch : ~Fixes(about[tab.intent], Current.scenario, key)
    BY <2>3, CardsAnswer
  <2> QED BY <1>0, <2>2, <2>3, <2>4, AppliedPositions
<1>5. CASE Restart
  <2>1. tab'.asked = {} /\ UNCHANGED <<intents, about>>
    <3> DEFINE p == [Picking EXCEPT !.busy = tab.busy]
    <3>1. p.asked = {}
      BY DEF Picking
    <3> HIDE DEF p
    <3>2. tab' = p
      BY <1>5 DEF Restart, p
    <3> QED BY <1>5, <3>1, <3>2 DEF Restart
  <2>2. AskedElse'
    BY <2>1 DEF AskedElse
  <2> QED BY <1>0, <2>1, <2>2, SpeaksPositions DEF PositionInv
<1> QED BY <1>2, <1>3, <1>4, <1>5

-----------------------------------------------------------------------------
(* A fresh intent. *)

LEMMA JoinsStays ==
    ASSUME Counted, PositionInv, issued + 1 \in DOMAIN Refs, NEW x, NEW subject,
           Joins(x, subject), Sound(subject, x)
    PROVE  /\ Stays /\ DOMAIN intents \subseteq DOMAIN intents' /\ DOMAIN intents' \subseteq DOMAIN Refs
           /\ \A i \in DOMAIN intents' : Sound(about'[i], intents'[i])
<1>1. /\ DOMAIN intents' = DOMAIN intents \cup {issued + 1} /\ DOMAIN intents \subseteq 1 .. issued
      /\ intents'[issued + 1] = x /\ about'[issued + 1] = subject
      /\ \A i \in DOMAIN intents : i # issued + 1 /\ intents'[i] = intents[i]
      /\ \A i \in 1 .. issued : about'[i] = about[i]
  BY DEF Joins, Table, Counted
<1>2. \A i \in DOMAIN intents : about'[i] = about[i]
  BY <1>1
<1>3. 1 .. issued \subseteq DOMAIN Refs
  BY SubmissionAssumption DEF Counted
<1>4. \A i \in DOMAIN intents' : Sound(about'[i], intents'[i])
  BY <1>1, <1>2 DEF PositionInv
<1> QED BY <1>1, <1>2, <1>3, <1>4 DEF Stays

LEMMA OpenedAsked ==
    ASSUME NEW i, NEW x
    PROVE  /\ Opened(i, x).intent = i
           /\ \/ Opened(i, x).asked = {}
              \/ ~Ready(x.scenario, x.answers) /\ Opened(i, x).asked = {Question(x.scenario, x.answers)}
<1>1. PICK card, asked : /\ Opened(i, x) = [Picking EXCEPT !.intent = i, !.card = card, !.asked = asked]
                         /\ \/ asked = {}
                            \/ ~Ready(x.scenario, x.answers) /\ asked = {Question(x.scenario, x.answers)}
  <2>1. PICK card : card = Ready(x.scenario, x.answers)
    OBVIOUS
  <2>2. PICK asked : asked = IF Ready(x.scenario, x.answers) THEN {} ELSE {Question(x.scenario, x.answers)}
    OBVIOUS
  <2>3. Opened(i, x) = [Picking EXCEPT !.intent = i, !.card = card, !.asked = asked]
    BY <2>1, <2>2 DEF Opened
  <2> QED BY <2>2, <2>3
<1> DEFINE o == [Picking EXCEPT !.intent = i, !.card = card, !.asked = asked]
<1>2. o.intent = i /\ o.asked = asked
  BY DEF Picking
<1> HIDE DEF o
<1>3. Opened(i, x) = o
  BY <1>1 DEF o
<1> QED BY <1>1, <1>2, <1>3

\* The handlers go on with the copies they hold.
LEMMA CopiesStay ==
    ASSUME SubmitInv, PositionInv, Stays, DOMAIN intents \subseteq DOMAIN intents',
           NEW g \in Calls, UNCHANGED call[g]
    PROVE  CopySound(call[g])'
<1>1. PICK k : k = call[g]
  OBVIOUS
<1>2. CopySound(k) /\ (k.pc = "posted" => k.intent \in DOMAIN intents)
  BY <1>1 DEF PositionInv, SubmitInv, CallsHold, CallHolds
<1>3. CopySound(k)'
  BY <1>2, CopyStays DEF SubmitInv
<1> QED BY <1>1, <1>3 DEF CopySound

LEMMA OpenPositions ==
    ASSUME SubmitInv, PositionInv, IntentsLeft(1), UNCHANGED <<book, call, request>>,
           NEW x, DOMAIN x = IntentFields, NEW subject, Issue(x, subject), Sound(subject, x),
           tab' = Opened(issued', x)
    PROVE  PositionInv'
<1>0. Shapes /\ Counted
  BY DEF SubmitInv
<1>1. Joins(x, subject)
  BY <1>0, IssueJoins
<1>2. PICK i : i = issued + 1 /\ i = issued' /\ i \in DOMAIN Refs
  <2>1. issued \in Nat /\ issued + 1 <= Len(Refs)
    BY <1>0, PromisedIs, SubmissionAssumption DEF Counted, IntentsLeft
  <2>2. issued + 1 \in DOMAIN Refs
    <3>1. PICK n : n = issued
      OBVIOUS
    <3> QED BY <2>1, <3>1, ReferenceLeft
  <2> QED BY <1>1, <2>2 DEF Joins
<1>3. /\ Stays /\ DOMAIN intents \subseteq DOMAIN intents'
      /\ \A j \in DOMAIN intents' : Sound(about'[j], intents'[j])
  BY <1>0, <1>1, <1>2, JoinsStays
<1>4. \A g \in Calls : CopySound(call[g])'
  BY <1>3, CopiesStay
<1>5. AskedElse'
  <2>1. intents'[i] = x /\ about'[i] = subject /\ tab' = Opened(i, x)
    BY <1>1, <1>2 DEF Joins
  <2>2. tab'.intent = i /\ \A key \in tab'.asked : ~Fixes(subject, x.scenario, key)
    BY <2>1, OpenedAsked, AsksElse
  <2> QED BY <2>1, <2>2 DEF AskedElse
<1> QED BY <1>3, <1>4, <1>5, PositionsKept

LEMMA SelectPositions ==
    ASSUME SubmitInv, PositionInv, NEW s \in Offered, SelectScenario(s)
    PROVE  PositionInv'
<1>1. PICK x : x = Started(s) /\ DOMAIN x = IntentFields /\ x.scenario = s /\ x.answers = <<>>
  BY StartedIs
<1>2. PICK subject : subject = Anything /\ subject.position = Absent
  <2>1. Anything.position = Absent
    BY DEF Anything
  <2> QED BY <2>1
<1>3. Sound(subject, x)
  BY <1>1, <1>2, AnythingSound, SubmissionAssumption
<1>4. IntentsLeft(1) /\ UNCHANGED <<book, call, request>> /\ Issue(x, subject) /\ tab' = Opened(issued', x)
  BY <1>1, <1>2 DEF SelectScenario
<1> QED BY <1>1, <1>3, <1>4, OpenPositions

\* What a position answers of the slot that names it.
LEMMA PrefillNames ==
    ASSUME NEW action, action.scenario \in ScenarioIds, NEW object, object # Blank,
           NEW key, key = MapOf(action.scenario).objectIdSlot, key # Absent
    PROVE  /\ key \in Recordable(action.scenario, <<>>, Prefill(object, action), "fill")
           /\ Prefill(object, action)[key] = object
<1>1. PICK s, batch : s = action.scenario /\ batch = Prefill(object, action)
  OBVIOUS
<1>2. /\ key \in SlotKeys(s) /\ SlotOf(s, key).type = "STRING"
      /\ key \notin {MapOf(s).selectorSlot, MapOf(s).relatedEventSlot, MapOf(s).counterpartySlot}
  BY <1>1, ObjectIdIs
<1>3. key \in DOMAIN batch /\ batch[key] = object
  <2>1. PICK m, standing : m = MapOf(s) /\ standing = Standing(object)
    OBVIOUS
  <2>2. PICK origin, others : origin = Min(standing) /\ others = OtherParties(book[origin])
    OBVIOUS
  <2>3. PICK all : all = {k \in SlotKeys(s) :
            \/ k = m.selectorSlot /\ action.choice # Absent
            \/ k = m.objectIdSlot
            \/ k = m.relatedEventSlot /\ standing # {}
            \/ k = m.counterpartySlot /\ m.inheritsCounterparty /\ standing # {} /\ others # <<>>}
    OBVIOUS
  <2>4. key \in all
    BY <1>1, <1>2, <2>1, <2>3
  <2> DEFINE value(k) == CASE k = m.selectorSlot     -> action.choice
                           [] k = m.objectIdSlot     -> object
                           [] k = m.relatedEventSlot -> origin
                           [] OTHER                  -> Head(others).partyId
  <2>5. batch = [k \in all |-> value(k)]
    BY <1>1, <2>1, <2>2, <2>3 DEF Prefill
  <2>6. value(key) = object
    BY <1>1, <1>2, <2>1
  <2> HIDE DEF value
  <2> QED BY <2>4, <2>5, <2>6
<1>4. ~Filled(<<>>, key)
  <2>1. PICK none : none = <<>> /\ DOMAIN none = {}
    OBVIOUS
  <2> QED BY <2>1 DEF Filled
<1>5. key \in Recordable(s, <<>>, batch, "fill")
  BY <1>2, <1>3, <1>4 DEF Recordable, validateAnswer
<1> QED BY <1>1, <1>3, <1>5

\* An answer that can be recorded is, as it is written.
LEMMA AppliedWrites ==
    ASSUME NEW x, DOMAIN x = IntentFields, NEW batch, NEW mode, NEW key,
           key \in Recordable(x.scenario, x.answers, batch, mode), batch[key] # Blank
    PROVE  /\ Filled(Applied(x, batch, mode).answers, key)
           /\ Applied(x, batch, mode).answers[key] = Written(x.scenario, key, batch[key])
<1>1. PICK s, old : s = x.scenario /\ old = x.answers
  OBVIOUS
<1>2. PICK keys, answers : keys = Recordable(s, old, batch, mode) /\ answers = Merged(s, old, batch, mode)
  OBVIOUS
<1>3. PICK all : all = (DOMAIN old \cup keys) \ {k \in keys : batch[k] = Blank}
  OBVIOUS
<1>4. answers = [k \in all |-> IF k \in keys THEN Written(s, k, batch[k]) ELSE old[k]]
  BY <1>2, <1>3 DEF Merged
<1>5. key \in keys /\ key \in all
  BY <1>1, <1>2, <1>3
<1>6. Filled(answers, key) /\ answers[key] = Written(s, key, batch[key])
  BY <1>4, <1>5 DEF Filled
<1>7. PICK status : status = IF Ready(s, answers) THEN "awaiting_confirmation" ELSE "gathering"
  OBVIOUS
<1> DEFINE n == [x EXCEPT !.answers = answers, !.status = status]
<1>8. n.answers = answers
  BY DEF IntentFields
<1>9. Applied(x, batch, mode) = n
  BY <1>1, <1>2, <1>5, <1>7 DEF Applied
<1> HIDE DEF n
<1> QED BY <1>1, <1>6, <1>8, <1>9

\* An action a position offers is one of a scenario of the registry.
LEMMA ActionScenario ==
    ASSUME NEW objectType, NEW action \in PositionActions(objectType)
    PROVE  action.scenario \in ScenarioIds
<1>1. action \in producibleTuples
  BY DEF PositionActions
<1> DEFINE choices(s) == IF MapOf(s).selectorSlot = Absent THEN {Absent} ELSE DOMAIN MapOf(s).byChoice
<1> DEFINE branch(s, c) == IF c = Absent THEN MapOf(s).objects
                           ELSE [MapOf(s).objects EXCEPT ![1] = MapOf(s).byChoice[c]]
<1> DEFINE tuples(s) == UNION {{<<s, c, o>> : o \in Range(branch(s, c))} : c \in choices(s)}
<1>2. producibleTuples =
         {[scenario |-> t[1], choice |-> t[2], eventType |-> MapOf(t[1]).eventType,
           objectType |-> t[3].objectType, relation |-> t[3].relation] :
             t \in UNION {tuples(s) : s \in ScenarioIds}}
  BY DEF producibleTuples
<1>3. ASSUME NEW s \in ScenarioIds, NEW t \in tuples(s) PROVE t[1] \in ScenarioIds
  <2>1. PICK c \in choices(s) : t \in {<<s, c, o>> : o \in Range(branch(s, c))}
    OBVIOUS
  <2> HIDE DEF branch
  <2> QED BY <2>1
<1> HIDE DEF tuples
<1>4. PICK t \in UNION {tuples(s) : s \in ScenarioIds} : action.scenario = t[1]
  BY <1>1, <1>2
<1> QED BY <1>3, <1>4

LEMMA StartPositions ==
    ASSUME SubmitInv, PositionInv, NEW p \in Positions, StartFromPosition(p[1], p[2])
    PROVE  PositionInv'
<1>1. PICK object, objectType : object = p[1] /\ objectType = p[2] /\ object # Blank
  <2>1. \E e \in Ids(book) : \E o \in Range(book[e].cmd.objects) : p = <<o.objectId, o.objectType>>
    BY DEF Positions
  <2>2. PICK e \in Ids(book) : \E o \in Range(book[e].cmd.objects) : p = <<o.objectId, o.objectType>>
    BY <2>1
  <2>3. PICK o \in Range(book[e].cmd.objects) : p = <<o.objectId, o.objectType>>
    BY <2>2
  <2>4. o.objectId # Blank
    BY DEF PositionInv, Placed
  <2> QED BY <2>3, <2>4
<1>2. PICK action \in PositionActions(objectType) :
         /\ action.scenario \in Offered
         /\ LET intent == Applied(Started(action.scenario), Prefill(object, action), "fill") IN
             /\ Issue(intent, [Anything EXCEPT !.position = object,
                                                       !.origin = RelatedTo(MapOf(action.scenario),
                                                                            intent.answers)])
             /\ tab' = Opened(issued', intent)
  BY <1>1 DEF StartFromPosition
<1>3. PICK s, z, batch : s = action.scenario /\ z = Started(s) /\ batch = Prefill(object, action)
  OBVIOUS
<1>4. PICK x : x = Applied(z, batch, "fill")
  OBVIOUS
<1>5. PICK origin : origin = RelatedTo(MapOf(s), x.answers)
  OBVIOUS
<1>6. PICK subject : /\ subject = [Anything EXCEPT !.position = object, !.origin = origin]
                     /\ subject.position = object /\ subject.origin = origin
  <2> DEFINE a == [Anything EXCEPT !.position = object, !.origin = origin]
  <2>1. a.position = object /\ a.origin = origin
    BY DEF Anything
  <2> HIDE DEF a
  <2>2. a = [Anything EXCEPT !.position = object, !.origin = origin]
    BY DEF a
  <2> QED BY <2>1, <2>2
<1>7. Issue(x, subject) /\ tab' = Opened(issued', x)
  BY <1>2, <1>3, <1>4, <1>5, <1>6
<1>8. s \in ScenarioIds /\ DOMAIN z = IntentFields /\ z.scenario = s /\ z.answers = <<>>
  BY <1>3, ActionScenario, StartedIs
<1>9. Sound(subject, x)
  <2>1. PICK any : any = Anything /\ any.position = Absent
    <3>1. Anything.position = Absent
      BY DEF Anything
    <3> QED BY <3>1
  <2>2. Sound(any, z)
    BY <1>8, <2>1, AnythingSound
  <2>3. Sound(any, x)
    BY <1>4, <1>8, <2>2, AppliedSound
  <2>4. DOMAIN x = IntentFields /\ x.scenario = s
    BY <1>4, <1>8, AppliedIs
  <2>5. ASSUME NEW key, key = MapOf(s).objectIdSlot, key # Absent
        PROVE  Filled(x.answers, key) /\ x.answers[key] = object
    <3>1. key \in Recordable(s, z.answers, batch, "fill") /\ batch[key] = object
      BY <1>1, <1>3, <1>8, <2>5, PrefillNames
    <3>2. Filled(x.answers, key) /\ x.answers[key] = Written(s, key, object)
      BY <1>1, <1>4, <1>8, <3>1, AppliedWrites
    <3>3. Written(s, key, object) = object
      BY <1>8, <2>5, ObjectIdIs DEF Written
    <3> QED BY <3>2, <3>3
  <2> QED BY <1>5, <1>6, <1>8, <2>3, <2>4, <2>5 DEF Sound, Kept
<1>10. DOMAIN x = IntentFields
  BY <1>4, <1>8, AppliedIs
<1>11. IntentsLeft(1) /\ UNCHANGED <<book, call, request>>
  BY <1>1 DEF StartFromPosition
<1> QED BY <1>7, <1>9, <1>10, <1>11, OpenPositions

-----------------------------------------------------------------------------
(* A submission is posted: the position goes with it. *)

LEMMA PostPositions ==
    ASSUME SubmitInv, PositionInv, UNCHANGED book, Stays, AskedElse',
           DOMAIN intents \subseteq DOMAIN intents', DOMAIN intents' \subseteq DOMAIN Refs,
           \A j \in DOMAIN intents' : Sound(about'[j], intents'[j]),
           NEW h \in Calls, NEW w \in Writers, NEW i \in DOMAIN intents', NEW x, x = intents'[i],
           NEW plan, plan # NoPlan => plan.scenario \in ScenarioIds,
           NEW q, NEW c, Posts(h, w, i, x, plan, q, c)
    PROVE  PositionInv'
<1>0. Shapes
  BY DEF SubmitInv
<1>1. /\ \A v \in Writers : v # w => request'[v] = request[v]
      /\ \A g \in Calls : g # h => call'[g] = call[g]
      /\ request'[w] = q /\ call'[h] = c
  BY <1>0 DEF Shapes, Table, Posts
<1>2. PICK a : a = about'[i] /\ Sound(a, x)
  OBVIOUS
<1>3. Placed(request[w].cmd, request[w].related)'
  <2>1. PICK cmd, related : cmd = q.cmd /\ related = q.related
    OBVIOUS
  <2>2. cmd = Candidate(i, x) /\ related = RelatedTo(MapOf(x.scenario), x.answers) /\ i \in DOMAIN Refs
    BY <2>1 DEF Posts
  <2>3. Placed(cmd, related)'
    BY <1>2, <2>2, PostedPlaced
  <2> QED BY <1>1, <2>1, <2>3 DEF Placed
<1>4. \A v \in Writers :
         \/ request'[v].pc = "free"
         \/ /\ request[v].pc # "free"
            /\ request'[v].cmd = request[v].cmd /\ request'[v].related = request[v].related
         \/ Placed(request[v].cmd, request[v].related)'
  <2>1. ASSUME NEW v \in Writers, v # w, request'[v].pc # "free"
        PROVE  /\ request[v].pc # "free"
               /\ request'[v].cmd = request[v].cmd /\ request'[v].related = request[v].related
    BY <1>1, <2>1
  <2> QED BY <1>3, <2>1
<1>5. CopySound(call[h])'
  <2>1. c.copy.scenario = x.scenario /\ c.copy.answers = x.answers /\ c.intent = i /\ c.plan = plan
    BY DEF Posts
  <2>2. Sound(a, c.copy)
    BY <1>2, <2>1 DEF Sound
  <2> QED BY <1>1, <1>2, <2>1, <2>2 DEF CopySound
<1>6. ASSUME NEW g \in Calls PROVE CopySound(call[g])'
  <2>1. ASSUME g # h PROVE CopySound(call[g])'
    BY <1>1, <2>1, CopiesStay
  <2> QED BY <1>5, <2>1
<1> QED BY <1>4, <1>6, PositionsKept

LEMMA ConfirmPositions ==
    ASSUME SubmitInv, PositionInv, NEW h \in Calls, Confirm(h)
    PROVE  PositionInv'
<1>0. Shapes /\ Counted
  BY DEF SubmitInv
<1>1. UNCHANGED <<book, writer, intents, issued, about>>
  BY DEF Confirm
<1>2. tab' = [k \in TabFields |-> tab'[k]] /\ tab'.intent = tab.intent /\ tab'.asked = tab.asked
  <2>1. tab = [k \in TabFields |-> tab[k]]
    BY <1>0 DEF Shapes
  <2>2. \/ tab' = [tab EXCEPT !.card = FALSE, !.busy = TRUE]
        \/ tab' = [tab EXCEPT !.card = FALSE]
    BY DEF Confirm
  <2> QED BY <2>1, <2>2 DEF TabFields
<1>3. AskedElse'
  BY <1>1, <1>2 DEF PositionInv, AskedElse
<1>4. CASE UNCHANGED <<call, request>>
  <2>1. Speaks
    BY <1>0, <1>1, <1>2, <1>4 DEF Speaks, Shapes, Table
  <2> QED BY <1>1, <1>3, <2>1, SpeaksPositions DEF PositionInv
<1>5. CASE Current # NoPlan /\ Post(h, tab.intent, Current, NoPlan, TRUE)
  <2>1. PICK i, x : i = tab.intent /\ x = Current /\ i \in DOMAIN intents /\ x = intents[i]
    BY <1>5, CurrentIs
  <2>2. DOMAIN x = IntentFields
    BY <1>0, <2>1 DEF Shapes, Table
  <2>3. PICK w \in Writers : \E q, c : Posts(h, w, i, x, NoPlan, q, c)
    BY <1>5, <2>1, <2>2, PostPosts
  <2>4. PICK q, c : Posts(h, w, i, x, NoPlan, q, c)
    BY <2>3
  <2>5. Stays /\ DOMAIN intents' \subseteq DOMAIN Refs
    <3>1. issued \in Nat /\ issued <= Len(Refs)
      BY <1>0, PromisedIs, SubmissionAssumption DEF Counted
    <3> QED BY <1>0, <1>1, <3>1, SubmissionAssumption DEF Stays, Counted
  <2>6. \A j \in DOMAIN intents' : Sound(about'[j], intents'[j])
    BY <1>1 DEF PositionInv
  <2> QED BY <1>1, <1>3, <2>1, <2>4, <2>5, <2>6, PostPositions
<1> QED BY <1>4, <1>5 DEF Confirm

\* A fresh intent that no conversation shows.
LEMMA JoinsAsked ==
    ASSUME Counted, PositionInv, Stays, NEW x, NEW subject, Joins(x, subject), UNCHANGED tab
    PROVE  AskedElse'
<1>1. tab.intent \in DOMAIN intents' => tab.intent \in DOMAIN intents
  <2>1. DOMAIN intents' = DOMAIN intents \cup {issued + 1}
    BY DEF Joins, Table
  <2>2. tab.intent # None => tab.intent # issued + 1
    BY DEF Counted
  <2>3. None # issued + 1
    BY DEF Counted, None
  <2> QED BY <2>1, <2>2, <2>3
<1> QED BY <1>1, AskedStays DEF PositionInv

LEMMA IssuedPostPositions ==
    ASSUME SubmitInv, PositionInv, NEW h \in Calls, UNCHANGED <<book, tab>>,
           NEW x, DOMAIN x = IntentFields, NEW subject, Joins(x, subject), Sound(subject, x),
           issued + 1 \in DOMAIN Refs, NEW plan, plan # NoPlan => plan.scenario \in ScenarioIds,
           NEW w \in Writers, NEW q, NEW c, Posts(h, w, issued + 1, x, plan, q, c)
    PROVE  PositionInv'
<1>0. Counted
  BY DEF SubmitInv
<1>1. /\ Stays /\ DOMAIN intents \subseteq DOMAIN intents' /\ DOMAIN intents' \subseteq DOMAIN Refs
      /\ \A j \in DOMAIN intents' : Sound(about'[j], intents'[j])
  BY <1>0, JoinsStays
<1>2. AskedElse'
  BY <1>0, <1>1, JoinsAsked
<1>3. PICK i : i = issued + 1 /\ i \in DOMAIN intents' /\ x = intents'[i]
  BY DEF Joins, Table
<1> QED BY <1>1, <1>2, <1>3, PostPositions

LEMMA IssuedOnlyPositions ==
    ASSUME SubmitInv, PositionInv, NEW h \in Calls, UNCHANGED <<book, tab, request>>,
           NEW x, NEW subject, Joins(x, subject), Sound(subject, x), issued + 1 \in DOMAIN Refs,
           call' = [call EXCEPT ![h] = Quiet]
    PROVE  PositionInv'
<1>0. Shapes /\ Counted
  BY DEF SubmitInv
<1>1. /\ Stays /\ DOMAIN intents \subseteq DOMAIN intents'
      /\ \A j \in DOMAIN intents' : Sound(about'[j], intents'[j])
  BY <1>0, JoinsStays
<1>2. AskedElse'
  BY <1>0, <1>1, JoinsAsked
<1>3. ASSUME NEW g \in Calls PROVE CopySound(call[g])'
  <2>1. CASE g = h
    BY <1>0, <2>1, FreeIs DEF CopySound, Shapes, Table
  <2>2. CASE g # h
    <3>1. UNCHANGED call[g]
      BY <1>0, <2>2 DEF Shapes, Table
    <3> QED BY <1>1, <3>1, CopiesStay
  <2> QED BY <2>1, <2>2
<1> QED BY <1>1, <1>2, <1>3, PositionsKept

\* An entry is recorded again under a scenario of the registry.
LEMMA ReissueScenario ==
    ASSUME NEW event, planReissue(event).reissuable
    PROVE  planReissue(event).scenario \in ScenarioIds
<1>1. PICK candidates : candidates = ScenarioFor(event.cmd.eventType)
  OBVIOUS
<1>2. PICK s : s = CHOOSE t \in candidates : TRUE
  OBVIOUS
<1>3. /\ candidates # {}
      /\ planReissue(event) = [reissuable |-> TRUE, scenario |-> s, answers |-> Restated(MapOf(s), event)]
  BY <1>1, <1>2 DEF planReissue, NotReissuable
<1>4. s \in candidates
  BY <1>2, <1>3
<1>5. s \in ScenarioIds
  BY <1>1, <1>4 DEF ScenarioFor
<1> QED BY <1>3, <1>5

\* ... and with what was carried over from the entry.
LEMMA ReissueAnswers ==
    ASSUME NEW event, planReissue(event).reissuable
    PROVE  planReissue(event).answers = Restated(MapOf(planReissue(event).scenario), event)
<1>1. PICK candidates : candidates = ScenarioFor(event.cmd.eventType)
  OBVIOUS
<1>2. PICK s : s = CHOOSE t \in candidates : TRUE
  OBVIOUS
<1>3. PICK answers : answers = Restated(MapOf(s), event)
  OBVIOUS
<1>4. planReissue(event) = [reissuable |-> TRUE, scenario |-> s, answers |-> answers]
  BY <1>1, <1>2, <1>3 DEF planReissue, NotReissuable
<1> QED BY <1>3, <1>4

LEMMA RectifyPositions ==
    ASSUME SubmitInv, PositionInv, NEW h \in Calls, NEW target, NEW corrected,
           Rectify(h, target, corrected)
    PROVE  PositionInv'
<1>0. Shapes /\ Counted
  BY DEF SubmitInv
<1>1. PICK s, batch : s = Started("register_rectification") /\ batch = Withdrawal(target, corrected # NoPlan)
  OBVIOUS
<1>2. PICK x : x = Applied(s, batch, "fill")
  OBVIOUS
<1>3. /\ DOMAIN s = IntentFields /\ s.scenario = "register_rectification" /\ s.answers = <<>>
      /\ DOMAIN x = IntentFields
  <2>1. DOMAIN s = IntentFields /\ s.scenario = "register_rectification" /\ s.answers = <<>>
    BY <1>1, StartedIs
  <2> QED BY <1>2, <2>1, AppliedIs
<1>4. PICK amended : amended = [planReissue(book[target]).answers EXCEPT !.amount = corrected]
  OBVIOUS
<1>5. PICK scenario : scenario = planReissue(book[target]).scenario
  OBVIOUS
<1>6. PICK p : p = IF corrected = NoPlan THEN NoPlan
                   ELSE [target |-> target, scenario |-> scenario, answers |-> amended]
  OBVIOUS
<1>7. /\ Issue(x, Anything) /\ PostIfReady(h, issued', x, p) /\ UNCHANGED <<book, tab>>
      /\ IntentsLeft(1) \/ IntentsLeft(2)
      /\ corrected # NoPlan => planReissue(book[target]).reissuable
  BY <1>1, <1>2, <1>4, <1>5, <1>6 DEF Rectify
<1>8. Joins(x, Anything)
  BY <1>0, <1>3, <1>7, IssueJoins
<1>9. PICK i : i = issued + 1 /\ i = issued'
  BY <1>8 DEF Joins
<1>12. issued + 1 \in DOMAIN Refs
  <2>1. issued \in Nat /\ issued + 1 <= Len(Refs)
    BY <1>0, <1>7, PromisedIs, SubmissionAssumption DEF Counted, IntentsLeft
  <2>2. PICK n : n = issued
    OBVIOUS
  <2> QED BY <2>1, <2>2, ReferenceLeft
<1>13. p # NoPlan => p.scenario \in ScenarioIds
  <2>1. ASSUME corrected # NoPlan PROVE scenario \in ScenarioIds
    <3>1. PICK event : event = book[target]
      OBVIOUS
    <3> QED BY <1>5, <1>7, <2>1, <3>1, ReissueScenario
  <2> QED BY <1>6, <2>1
<1>14. PICK subject : subject = Anything /\ Sound(subject, x)
  <2>1. PICK subject : subject = Anything
    OBVIOUS
  <2>2. subject.position = Absent
    BY <2>1 DEF Anything
  <2>3. "register_rectification" \in ScenarioIds
    BY DEF ScenarioIds, REGISTRY
  <2>4. Sound(subject, s)
    BY <1>3, <2>2, <2>3, AnythingSound
  <2>5. Sound(subject, x)
    BY <1>2, <1>3, <2>4, AppliedSound
  <2> QED BY <2>1, <2>5
<1>15. Joins(x, subject)
  BY <1>8, <1>14
<1>16. CASE Post(h, issued', x, p, FALSE)
  <2>1. PICK w \in Writers : \E q, c : Posts(h, w, i, x, p, q, c)
    BY <1>3, <1>9, <1>16, PostPosts
  <2>2. PICK q, c : Posts(h, w, i, x, p, q, c)
    BY <2>1
  <2>3. Posts(h, w, issued + 1, x, p, q, c)
    BY <1>9, <2>2
  <2> QED BY <1>3, <1>7, <1>12, <1>13, <1>14, <1>15, <2>3, IssuedPostPositions
<1>17. CASE call' = [call EXCEPT ![h] = Quiet] /\ UNCHANGED request
  BY <1>7, <1>12, <1>14, <1>15, <1>17, IssuedOnlyPositions
<1> QED BY <1>7, <1>16, <1>17 DEF PostIfReady

LEMMA ReissuePositions ==
    ASSUME SubmitInv, PositionInv, NEW h \in Calls, Reissue(h)
    PROVE  PositionInv'
<1>0. Shapes /\ Counted /\ CallsHold
  BY DEF SubmitInv
<1>1. PICK plan : plan = call[h].plan /\ plan # NoPlan /\ plan.scenario \in ScenarioIds
  BY <1>0 DEF Reissue, CallsHold, CallHolds, PositionInv, CopySound
<1>2. PICK s, batch : s = Started(plan.scenario) /\ batch = plan.answers
  OBVIOUS
<1>3. PICK x : x = Applied(s, batch, "fill")
  OBVIOUS
<1>4. /\ DOMAIN s = IntentFields /\ s.scenario = plan.scenario /\ s.answers = <<>>
      /\ DOMAIN x = IntentFields
  <2>1. DOMAIN s = IntentFields /\ s.scenario = plan.scenario /\ s.answers = <<>>
    BY <1>2, StartedIs
  <2> QED BY <1>3, <2>1, AppliedIs
<1>5. PICK subject : subject = [Anything EXCEPT !.entry = plan.target] /\ subject.position = Absent
  <2> DEFINE a == [Anything EXCEPT !.entry = plan.target]
  <2>1. a.position = Absent
    BY DEF Anything
  <2> HIDE DEF a
  <2>2. a = [Anything EXCEPT !.entry = plan.target]
    BY DEF a
  <2> QED BY <2>1, <2>2
<1>6. Sound(subject, x)
  <2>1. Sound(subject, s)
    BY <1>1, <1>4, <1>5, AnythingSound
  <2> QED BY <1>3, <1>4, <2>1, AppliedSound
<1>7. /\ Issue(x, subject) /\ UNCHANGED <<book, tab>> /\ call[h].pc = "reissue"
      /\ \/ Post(h, issued', x, NoPlan, FALSE)
         \/ call' = [call EXCEPT ![h] = Quiet] /\ UNCHANGED request
  BY <1>1, <1>2, <1>3, <1>5 DEF Reissue, PostIfReady
<1>8. Joins(x, subject)
  BY <1>0, <1>4, <1>7, IssueJoins
<1>9. PICK i : i = issued + 1 /\ i = issued'
  BY <1>8 DEF Joins
<1>10. issued + 1 \in DOMAIN Refs
  <2>1. Cardinality(Planning) >= 1
    <3>1. h \in Planning
      BY <1>1 DEF Planning
    <3>2. Cardinality(Planning) # 0
      BY <3>1, PromisedIs, FS_EmptySet
    <3> QED BY <3>2, PromisedIs
  <2>2. issued \in Nat /\ issued + 1 <= Len(Refs)
    <3>1. issued \in Nat /\ Promised \in Nat /\ Promised >= 1 /\ issued + Promised <= Len(Refs) /\ Len(Refs) \in Nat
      BY <1>0, <2>1, PromisedIs, SubmissionAssumption DEF Counted
    <3>2. PICK n, m, l : n = issued /\ m = Promised /\ l = Len(Refs)
      OBVIOUS
    <3>3. n \in Nat /\ m \in Nat /\ m >= 1 /\ n + m <= l /\ l \in Nat
      BY <3>1, <3>2
    <3>4. n + 1 <= l
      BY <3>3
    <3> QED BY <3>1, <3>2, <3>4
  <2>3. PICK n : n = issued
    OBVIOUS
  <2> QED BY <2>2, <2>3, ReferenceLeft
<1>11. CASE Post(h, issued', x, NoPlan, FALSE)
  <2>1. PICK w \in Writers : \E q, c : Posts(h, w, i, x, NoPlan, q, c)
    BY <1>4, <1>9, <1>11, PostPosts
  <2>2. PICK q, c : Posts(h, w, i, x, NoPlan, q, c)
    BY <2>1
  <2>3. Posts(h, w, issued + 1, x, NoPlan, q, c)
    BY <1>9, <2>2
  <2> QED BY <1>4, <1>6, <1>7, <1>8, <1>10, <2>3, IssuedPostPositions
<1>12. CASE call' = [call EXCEPT ![h] = Quiet] /\ UNCHANGED request
  <2>1. UNCHANGED <<book, tab, request>>
    BY <1>7, <1>12
  <2> QED BY <1>6, <1>8, <1>10, <1>12, <2>1, IssuedOnlyPositions
<1> QED BY <1>7, <1>11, <1>12

-----------------------------------------------------------------------------
LEMMA PositionStarts ==
    ASSUME SubInit
    PROVE  PositionInv
<1>1. /\ book = <<>> /\ request = [w \in Writers |-> Free] /\ call = [h \in Calls |-> Quiet]
      /\ intents = <<>> /\ tab = Picking
  BY DEF SubInit, Init
<1>2. DOMAIN intents = {} /\ Ids(book) = {}
  BY <1>1 DEF Ids
<1>3. \A h \in Calls : CopySound(call[h])
  BY <1>1, FreeIs DEF CopySound
<1>4. \A w \in Writers : request[w].pc = "free"
  BY <1>1, FreeIs
<1> QED BY <1>2, <1>3, <1>4 DEF PositionInv, AskedElse

LEMMA PositionStep ==
    ASSUME SubmitInv, PositionInv, [SubNext]_allvars
    PROVE  PositionInv'
<1>1. CASE UNCHANGED allvars
  BY <1>1 DEF allvars, subvars, PositionInv, Placed, CopySound, AskedElse, Ids
<1>2. CASE Operator
  <2>1. CASE Converse \/ SelectPosition \/ Edit \/ Correct \/ Restart
    BY <2>1, TalkPositions
  <2>2. CASE \E s \in Offered : SelectScenario(s)
    BY <2>2, SelectPositions
  <2>3. CASE \E p \in Positions : StartFromPosition(p[1], p[2])
    BY <2>3, StartPositions
  <2>4. CASE \E h \in Calls : Confirm(h)
    BY <2>4, ConfirmPositions
  <2>5. CASE \E h \in Calls, target \in Ids(book), corrected \in Correcting : Rectify(h, target, corrected)
    BY <2>5, RectifyPositions
  <2> QED BY <1>2, <2>1, <2>2, <2>3, <2>4, <2>5 DEF Operator
<1>3. CASE \E h \in Calls : Treasury(h) \/ Timeout(h)
  BY <1>3, ReceivePositions, ReissuePositions, TimeoutPositions DEF Treasury
<1>4. CASE \E w \in Writers : Ledger(w) \/ (\E c \in Commands : Stage(w, c))
  <2>1. PICK w \in Writers : Ledger(w) \/ (\E c \in Commands : Stage(w, c))
    BY <1>4
  <2>2. PICK q, r : LedgerMoves(w, q, r)
    BY <2>1, LedgerStepMoves DEF SubmitInv
  <2> QED BY <2>2, LedgerPositions
<1>5. CASE LedgerRestarts \/ TreasuryRestarts
  BY <1>5, RestartPositions
<1> QED BY <1>1, <1>2, <1>3, <1>4, <1>5 DEF SubNext

\* OpenedFromPosition: whatever is said, edited or corrected after an operation is opened from a
\* position, and whatever is lost or restarted, the fact it records moves that position and names
\* the origination that stood then (StartPositionAction, and the cards of ChatStream.tsx, which
\* offer only what was asked).
THEOREM OpenedAboutPosition == SubSpec => []OpenedFromPosition
<1>1. SubInit => SubmitInv /\ PositionInv
  BY SubmitStarts, PositionStarts
<1>2. SubmitInv /\ PositionInv /\ [SubNext]_allvars => (SubmitInv /\ PositionInv)'
  BY SubmitStep, PositionStep
<1>3. PositionInv => OpenedFromPosition
  <2>1. ASSUME PositionInv, NEW i \in DOMAIN about \cap DOMAIN intents, NEW e \in Ids(book)
        PROVE  Sticks(i, about[i], intents[i].scenario, book[e].cmd, book[e].related)
    BY <2>1 DEF PositionInv, Placed
  <2> QED BY <2>1 DEF OpenedFromPosition, Sticks
<1> QED BY <1>1, <1>2, <1>3, PTL DEF SubSpec

-----------------------------------------------------------------------------
(* What the treasury posts keeps the rules of the ledger. *)

\* The slot of this key must be filled.
Required(slots, key) == \E k \in DOMAIN slots : slots[k].key = key /\ slots[k].required

\* The tuples a candidate may carry, and the reasons it may state.
Tuples(m) ==
    {m.objects[k] : k \in DOMAIN m.objects}
        \cup (IF m.selectorSlot = Absent THEN {} ELSE {m.byChoice[c] : c \in DOMAIN m.byChoice})

Reasons(m) == {m.reason} \cup ({m.orphan, m.retroactive} \ {Absent})

\* A reason goes with an effect and a relation.
Suits(r, effect, relation) ==
    effect \in REASON_EFFECT_MATRIX[r] /\ relation \in REASON_RELATION_MATRIX[r]

\* The contract of the event type and the matrices admit a tuple, for every reason it may have.
Admitted(m, t) ==
    LET contract == EVENT_CONTRACTS[m.eventType] IN
    /\ t.objectType \in PositionalTypes
    /\ t.objectType \in DOMAIN contract.objects /\ t.relation \in contract.objects[t.objectType]
    /\ t.relation \in ECONOMIC_EFFECT_RELATION_MATRIX[m.effect]
    /\ t.relation \in OBJECT_RELATION_MATRIX[t.objectType]
    /\ \A r \in Reasons(m) : Suits(r, m.effect, t.relation)

\* The legs move the cash the effect declares.
Balanced(m) ==
    \/ m.effect = "CASH_IN" /\ m.parties = cashInParties
    \/ m.effect = "CASH_OUT" /\ m.parties = cashOutParties
    \/ /\ m.effect = "NON_CASH"
       /\ m.parties \in {obligationParties, Beneficiary("usina"), Beneficiary("counterparty"),
                         <<Leg("usina", "PLATFORM", "NEUTRAL", FALSE)>>}

\* The links a candidate must carry, it carries.
Linked(slots, m) ==
    /\ EVENT_CONTRACTS[m.eventType].requiresRelatedEventId =>
          /\ m.relatedEventSlot # Absent
          /\ \/ Required(slots, m.relatedEventSlot)
             \/ m.orphan = "UNKNOWN_ORIGIN" /\ m.retroactive = Absent
    /\ \A t \in Tuples(m) : t.relation = "RETRACTS" =>
          /\ m.relatedEventSlot # Absent /\ Required(slots, m.relatedEventSlot)
          /\ \A u \in Tuples(m) : u.relation = "RETRACTS"

\* Only a scenario that originates asks for a due date.
Dated(slots, m) ==
    (\E k \in DOMAIN slots : slots[k].key = "dueAt") =>
        /\ EVENT_CONTRACTS[m.eventType].admitsDueAt
        /\ \A t \in Tuples(m) : t.relation = "ORIGINATES"

\* What a mapping may produce, the ledger permits.
Permitted(m) ==
    LET contract == EVENT_CONTRACTS[m.eventType] IN
    /\ m.effect \in contract.economicEffects
    /\ contract.minConfidence \in DOMAIN ConfidenceRank
    /\ "NONE" \notin Reasons(m) /\ Reasons(m) \subseteq contract.reasons
    /\ \A t \in Tuples(m) : Admitted(m, t)

\* A scenario fits the algebra of the ledger.
Fits(slots, m) == Permitted(m) /\ Balanced(m) /\ Linked(slots, m) /\ Dated(slots, m)

\* Answers as they are recorded: to slots of the scenario, a positive amount, a named event.
Legal(s, answers) ==
    /\ DOMAIN answers \subseteq SlotKeys(s)
    /\ \A key \in DOMAIN answers :
          /\ key = "amount" => answers[key] \in Nat \ {0}
          /\ key = MapOf(s).relatedEventSlot => answers[key] # None

\* Answers as they are given: an amount is a number, an event a name.
Sane(s, batch) ==
    \A key \in DOMAIN batch \cap SlotKeys(s) :
        /\ key = "amount" => batch[key] \in Nat \cup {Blank}
        /\ key = MapOf(s).relatedEventSlot => batch[key] # None

LegalIntent(x) == x.scenario \in ScenarioIds /\ Legal(x.scenario, x.answers)

\* An intent that awaits confirmation has nothing missing.
Confirmable(x) ==
    LegalIntent(x) /\ (x.status = "awaiting_confirmation" => Ready(x.scenario, x.answers))

\* A handler holds the copy of a legal intent, and a restatement that can be answered.
LegalCall(c) ==
    /\ c.pc = "posted" => LegalIntent(c.copy)
    /\ c.plan # NoPlan => c.plan.scenario \in ScenarioIds /\ Sane(c.plan.scenario, c.plan.answers)

\* What an intent posted keeps the rules of the ledger; what is staged moves an amount.
WellFormed(cmd, related) ==
    cmd.amount \in Nat /\ (cmd.ref \in Range(Refs) => ValidEvent(cmd, related, 1))

\* Intents that may be confirmed lack nothing, handlers hold legal copies and plans, the requests
\* of the ledger are well formed, and what is recorded moves an amount.
LegalInv ==
    /\ \A i \in DOMAIN intents : Confirmable(intents[i])
    /\ \A h \in Calls : LegalCall(call[h])
    /\ \A w \in Writers : request[w].pc # "free" => WellFormed(request[w].cmd, request[w].related)
    /\ \A e \in Ids(book) : book[e].cmd.amount \in Nat

-----------------------------------------------------------------------------
(* Every scenario of the registry fits the algebra of the ledger. *)

\* The contract of each event type the treasury can record.
LEMMA ContractsAre ==
    /\ EVENT_CONTRACTS["PAYROLL_PAYMENT"] = PayrollPayment
    /\ EVENT_CONTRACTS["COMMISSION_RECEIVED"] = CommissionReceived
    /\ EVENT_CONTRACTS["COMMISSION_WAIVER"] = CommissionWaiver
    /\ EVENT_CONTRACTS["PENALTY_PAYMENT"] = PenaltyPayment
    /\ EVENT_CONTRACTS["ADVANCE_PAYMENT"] = AdvancePayment
    /\ EVENT_CONTRACTS["INFRASTRUCTURE_EXPENSE"] = InfrastructureExpense
    /\ EVENT_CONTRACTS["SERVICE_FEE_PAYMENT"] = ServiceFeePayment
    /\ EVENT_CONTRACTS["TAX_PAYMENT"] = TaxPayment
    /\ EVENT_CONTRACTS["OUTBOUND_PAYMENT"] = OutboundPayment
    /\ EVENT_CONTRACTS["ADVANCE_SETTLEMENT"] = AdvanceSettlement
    /\ EVENT_CONTRACTS["LOAN_ORIGINATION"] = LoanOrigination
    /\ EVENT_CONTRACTS["LOAN_REPAYMENT"] = LoanRepayment
    /\ EVENT_CONTRACTS["DIRECT_PAYMENT_ACKNOWLEDGED"] = DirectPaymentAcknowledged
    /\ EVENT_CONTRACTS["INCENTIVE_PAYMENT"] = IncentivePayment
    /\ EVENT_CONTRACTS["LEDGER_CORRECTION"] = LedgerCorrection
    /\ EVENT_CONTRACTS["COMMISSION_EXPECTED"] = CommissionExpected
    /\ EVENT_CONTRACTS["OBLIGATION_RECOGNIZED"] = ObligationRecognized
BY DEF EVENT_CONTRACTS

LEMMA EffectsAdmit ==
    /\ ECONOMIC_EFFECT_RELATION_MATRIX["CASH_IN"] = {"ORIGINATES", "SETTLES"}
    /\ ECONOMIC_EFFECT_RELATION_MATRIX["CASH_OUT"] = {"ORIGINATES", "SETTLES"}
    /\ ECONOMIC_EFFECT_RELATION_MATRIX["NON_CASH"] =
          {"ORIGINATES", "ADJUSTS", "SETTLES", "REVERSES", "RETRACTS"}
BY DEF ECONOMIC_EFFECT_RELATION_MATRIX

\* Every position may be originated and settled, and of the kinds a correction is about retracted.
LEMMA ObjectsAdmit ==
    /\ \A t \in PositionalTypes \ {"COMMISSION_POOL", "CONTINGENT_CLAIM"} :
          /\ "ORIGINATES" \in OBJECT_RELATION_MATRIX[t] /\ "SETTLES" \in OBJECT_RELATION_MATRIX[t]
          /\ "RETRACTS" \in OBJECT_RELATION_MATRIX[t]
    /\ "REVERSES" \in OBJECT_RELATION_MATRIX["COMMISSION_ENTITLEMENT"]
BY DEF OBJECT_RELATION_MATRIX, ObjectTypes, PositionalTypes, ContextualTypes

\* Every reason a mapping states goes with its effect and its relation.
LEMMA ReasonsSuit ==
    /\ \A r \in {"ORDINARY_SETTLEMENT", "PENALTY_PAYMENT", "PAYROLL_PAYMENT", "INFRASTRUCTURE_EXPENSE",
                 "TAX_PAYMENT", "SERVICE_FEE_PAYMENT", "INCENTIVE_PAYMENT"} : Suits(r, "CASH_OUT", "SETTLES")
    /\ Suits("LOAN_ORIGINATION", "CASH_OUT", "ORIGINATES")
    /\ Suits("ADVANCE_PAYMENT", "CASH_OUT", "ORIGINATES")
    /\ Suits("ADVANCE_PAYMENT", "CASH_IN", "SETTLES")
    /\ \A r \in {"COMMISSION_PAYMENT", "UNKNOWN_ORIGIN", "LOAN_REPAYMENT"} : Suits(r, "CASH_IN", "SETTLES")
    /\ Suits("COMMISSION_WAIVER", "NON_CASH", "SETTLES")
    /\ Suits("COMMISSION_WAIVER", "NON_CASH", "REVERSES")
    /\ Suits("DIRECT_COMMISSION_PAYMENT_AUTHORIZED", "NON_CASH", "SETTLES")
    /\ \A r \in {"COMMISSION_ACCRUAL", "OBLIGATION_RECOGNITION", "LATE_AWARENESS"} :
          Suits(r, "NON_CASH", "ORIGINATES")
    /\ Suits("DATA_RECONCILIATION", "NON_CASH", "RETRACTS")
BY DEF Suits, REASON_EFFECT_MATRIX, REASON_RELATION_MATRIX, ReasonTypes, Effects, Relations

LEMMA ExpensesFit ==
    /\ Fits(registerPayment, register_payment)
    /\ Fits(registerPayroll, register_payroll)
    /\ Fits(registerInfrastructure, register_infrastructure)
    /\ Fits(registerPenalty, register_penalty)
    /\ Fits(registerIncentive, register_incentive)
    /\ Fits(registerAdvance, register_advance)
    /\ Fits(registerLoan, register_loan)
    /\ Fits(registerServiceFee, register_service_fee)
    /\ Fits(registerTax, register_tax)
<1>1. Fits(registerPayment, register_payment)
  BY ContractsAre, EffectsAdmit, ObjectsAdmit, ReasonsSuit
     DEF Fits, Permitted, Tuples, Reasons, Admitted, Balanced, Linked, Dated, Required, ConfidenceRank,
         registerPayment, Payee, Asks, Slot, Amount, ObjectRef, May, register_payment, Continuing,
         Expense, Mapping, Absent, Moves, OutboundPayment, Contract, PositionalTypes
<1>2. Fits(registerPayroll, register_payroll)
  BY ContractsAre, EffectsAdmit, ObjectsAdmit, ReasonsSuit
     DEF Fits, Permitted, Tuples, Reasons, Admitted, Balanced, Linked, Dated, Required, ConfidenceRank,
         registerPayroll, Payee, Asks, Slot, Amount, ObjectRef, May, register_payroll, Continuing,
         Expense, Mapping, Absent, Moves, PayrollPayment, Contract, PositionalTypes
<1>3. Fits(registerInfrastructure, register_infrastructure)
  BY ContractsAre, EffectsAdmit, ObjectsAdmit, ReasonsSuit
     DEF Fits, Permitted, Tuples, Reasons, Admitted, Balanced, Linked, Dated, Required, ConfidenceRank,
         registerInfrastructure, Payee, Asks, Slot, Amount, ObjectRef, May, register_infrastructure,
         Continuing, Expense, Mapping, Absent, Moves, InfrastructureExpense, Contract, PositionalTypes
<1>4. Fits(registerPenalty, register_penalty)
  BY ContractsAre, EffectsAdmit, ObjectsAdmit, ReasonsSuit
     DEF Fits, Permitted, Tuples, Reasons, Admitted, Balanced, Linked, Dated, Required, ConfidenceRank,
         registerPenalty, Payee, Asks, Slot, Amount, register_penalty, Expense, Mapping, Absent, Moves,
         PenaltyPayment, Contract, PositionalTypes
<1>5. Fits(registerIncentive, register_incentive)
  BY ContractsAre, EffectsAdmit, ObjectsAdmit, ReasonsSuit
     DEF Fits, Permitted, Tuples, Reasons, Admitted, Balanced, Linked, Dated, Required, ConfidenceRank,
         registerIncentive, Payee, Asks, Slot, Picks, Amount, register_incentive, Expense, Mapping,
         Absent, Moves, IncentivePayment, Contract, PositionalTypes
<1>6. Fits(registerAdvance, register_advance)
  BY ContractsAre, EffectsAdmit, ObjectsAdmit, ReasonsSuit
     DEF Fits, Permitted, Tuples, Reasons, Admitted, Balanced, Linked, Dated, Required, ConfidenceRank,
         registerAdvance, Payee, Asks, Slot, Amount, register_advance, Expense, Mapping, Absent, Moves,
         AdvancePayment, Contract, PositionalTypes
<1>7. Fits(registerLoan, register_loan)
  BY ContractsAre, EffectsAdmit, ObjectsAdmit, ReasonsSuit
     DEF Fits, Permitted, Tuples, Reasons, Admitted, Balanced, Linked, Dated, Required, ConfidenceRank,
         registerLoan, Payee, Asks, Slot, Amount, register_loan, Expense, Mapping, Absent, Moves,
         LoanOrigination, Contract, PositionalTypes
<1>8. Fits(registerServiceFee, register_service_fee)
  BY ContractsAre, EffectsAdmit, ObjectsAdmit, ReasonsSuit
     DEF Fits, Permitted, Tuples, Reasons, Admitted, Balanced, Linked, Dated, Required, ConfidenceRank,
         registerServiceFee, Payee, Asks, Slot, Amount, ObjectRef, May, register_service_fee,
         Continuing, Expense, Mapping, Absent, Moves, ServiceFeePayment, Contract, PositionalTypes
<1>9. Fits(registerTax, register_tax)
  BY ContractsAre, EffectsAdmit, ObjectsAdmit, ReasonsSuit
     DEF Fits, Permitted, Tuples, Reasons, Admitted, Balanced, Linked, Dated, Required, ConfidenceRank,
         registerTax, Payee, Asks, Slot, Amount, ObjectRef, May, register_tax, Continuing, Expense,
         Mapping, Absent, Moves, TaxPayment, Contract, PositionalTypes
<1> QED BY <1>1, <1>2, <1>3, <1>4, <1>5, <1>6, <1>7, <1>8, <1>9

LEMMA OthersFit ==
    /\ Fits(registerWaiver, register_waiver)
    /\ Fits(registerCommissionAccrual, register_commission_accrual)
    /\ Fits(registerDirectPayment, register_direct_payment)
    /\ Fits(registerCommissionReceived, register_commission_received)
    /\ Fits(registerAdvanceSettlement, register_advance_settlement)
    /\ Fits(registerRectification, register_rectification)
    /\ Fits(registerLoanRepayment, register_loan_repayment)
    /\ Fits(registerObligationRecognition, register_obligation_recognition)
<1>1. Fits(registerWaiver, register_waiver)
  <2>1. /\ Tuples(register_waiver) =
              {Moves("COMMISSION_ENTITLEMENT", "SETTLES"),
               Moves("COMMISSION_ENTITLEMENT", "REVERSES")}
        /\ Reasons(register_waiver) = {"COMMISSION_WAIVER"}
        /\ register_waiver.effect = "NON_CASH" /\ register_waiver.eventType = "COMMISSION_WAIVER"
    BY DEF Tuples, Reasons, register_waiver, Mapping, Absent
  <2>2. /\ CommissionWaiver.minConfidence \in {"LOW", "MEDIUM", "HIGH"}
        /\ "NON_CASH" \in CommissionWaiver.economicEffects
        /\ {"COMMISSION_WAIVER"} \subseteq CommissionWaiver.reasons
        /\ CommissionWaiver.objects = [COMMISSION_ENTITLEMENT |-> {"SETTLES", "REVERSES"}]
    BY DEF CommissionWaiver, Contract
  <2>3. Permitted(register_waiver)
    BY <2>1, <2>2, ContractsAre, EffectsAdmit, ObjectsAdmit, ReasonsSuit
       DEF Permitted, Admitted, Moves, ConfidenceRank, PositionalTypes
  <2>4. Balanced(register_waiver)
    <3>1. register_waiver.parties = Beneficiary("counterparty")
      BY DEF register_waiver, Mapping
    <3> QED BY <2>1, <3>1 DEF Balanced
  <2>5. Linked(registerWaiver, register_waiver)
    <3>1. CommissionWaiver.requiresRelatedEventId = FALSE
      BY DEF CommissionWaiver, Contract
    <3> QED BY <2>1, <3>1, ContractsAre DEF Linked, Moves
  <2>6. Dated(registerWaiver, register_waiver)
    <3>1. ~\E k \in DOMAIN registerWaiver : registerWaiver[k].key = "dueAt"
      BY DEF registerWaiver, Payee, Asks, Slot, Picks, Amount
    <3> QED BY <3>1 DEF Dated
  <2> QED BY <2>3, <2>4, <2>5, <2>6 DEF Fits
<1>2. Fits(registerCommissionAccrual, register_commission_accrual)
  <2>1. /\ Tuples(register_commission_accrual) =
              {Moves("COMMISSION_RECEIVABLE", "ORIGINATES")}
        /\ Reasons(register_commission_accrual) = {"COMMISSION_ACCRUAL"}
        /\ register_commission_accrual.effect = "NON_CASH"
        /\ register_commission_accrual.eventType = "COMMISSION_EXPECTED"
    BY DEF Tuples, Reasons, register_commission_accrual, Mapping, Absent
  <2>2. /\ CommissionExpected.minConfidence \in {"LOW", "MEDIUM", "HIGH"}
        /\ "NON_CASH" \in CommissionExpected.economicEffects
        /\ {"COMMISSION_ACCRUAL"} \subseteq CommissionExpected.reasons
        /\ CommissionExpected.objects = [COMMISSION_RECEIVABLE |-> {"ORIGINATES"}]
    BY DEF CommissionExpected, Contract
  <2>3. Permitted(register_commission_accrual)
    BY <2>1, <2>2, ContractsAre, EffectsAdmit, ObjectsAdmit, ReasonsSuit
       DEF Permitted, Admitted, Moves, ConfidenceRank, PositionalTypes
  <2>4. Balanced(register_commission_accrual)
    <3>1. register_commission_accrual.parties = Beneficiary("usina")
      BY DEF register_commission_accrual, Mapping
    <3> QED BY <2>1, <3>1 DEF Balanced
  <2>5. Linked(registerCommissionAccrual, register_commission_accrual)
    <3>1. CommissionExpected.requiresRelatedEventId = FALSE
      BY DEF CommissionExpected, Contract
    <3> QED BY <2>1, <3>1, ContractsAre DEF Linked, Moves
  <2>6. Dated(registerCommissionAccrual, register_commission_accrual)
    <3>1. ~\E k \in DOMAIN registerCommissionAccrual : registerCommissionAccrual[k].key = "dueAt"
      BY DEF registerCommissionAccrual, Amount, Asks, Slot
    <3> QED BY <3>1 DEF Dated
  <2> QED BY <2>3, <2>4, <2>5, <2>6 DEF Fits
<1>3. Fits(registerDirectPayment, register_direct_payment)
  <2>1. /\ Tuples(register_direct_payment) =
              {Moves("COMMISSION_RECEIVABLE", "SETTLES"),
               Moves("COMMISSION_ENTITLEMENT", "SETTLES")}
        /\ Reasons(register_direct_payment) = {"DIRECT_COMMISSION_PAYMENT_AUTHORIZED"}
        /\ register_direct_payment.effect = "NON_CASH"
        /\ register_direct_payment.eventType = "DIRECT_PAYMENT_ACKNOWLEDGED"
    BY DEF Tuples, Reasons, register_direct_payment, Mapping, Absent
  <2>2. /\ DirectPaymentAcknowledged.minConfidence \in {"LOW", "MEDIUM", "HIGH"}
        /\ "NON_CASH" \in DirectPaymentAcknowledged.economicEffects
        /\ {"DIRECT_COMMISSION_PAYMENT_AUTHORIZED"} \subseteq DirectPaymentAcknowledged.reasons
        /\ DirectPaymentAcknowledged.objects =
              [COMMISSION_RECEIVABLE |-> {"SETTLES"}, COMMISSION_ENTITLEMENT |-> {"SETTLES"}]
    BY DEF DirectPaymentAcknowledged, Contract
  <2>3. Permitted(register_direct_payment)
    BY <2>1, <2>2, ContractsAre, EffectsAdmit, ObjectsAdmit, ReasonsSuit
       DEF Permitted, Admitted, Moves, ConfidenceRank, PositionalTypes
  <2>4. Balanced(register_direct_payment)
    <3>1. register_direct_payment.parties = Beneficiary("counterparty")
      BY DEF register_direct_payment, Mapping
    <3> QED BY <2>1, <3>1 DEF Balanced
  <2>5. Linked(registerDirectPayment, register_direct_payment)
    <3>1. DirectPaymentAcknowledged.requiresRelatedEventId = FALSE
      BY DEF DirectPaymentAcknowledged, Contract
    <3> QED BY <2>1, <3>1, ContractsAre DEF Linked, Moves
  <2>6. Dated(registerDirectPayment, register_direct_payment)
    <3>1. ~\E k \in DOMAIN registerDirectPayment : registerDirectPayment[k].key = "dueAt"
      BY DEF registerDirectPayment, Payee, Asks, Slot, Amount
    <3> QED BY <3>1 DEF Dated
  <2> QED BY <2>3, <2>4, <2>5, <2>6 DEF Fits
<1>4. Fits(registerCommissionReceived, register_commission_received)
  <2>1. /\ Tuples(register_commission_received) =
              {Moves("COMMISSION_RECEIVABLE", "SETTLES")}
        /\ Reasons(register_commission_received) = {"COMMISSION_PAYMENT", "UNKNOWN_ORIGIN"}
        /\ register_commission_received.effect = "CASH_IN"
        /\ register_commission_received.eventType = "COMMISSION_RECEIVED"
    BY DEF Tuples, Reasons, register_commission_received, Recovery, Mapping, Absent
  <2>2. /\ CommissionReceived.minConfidence \in {"LOW", "MEDIUM", "HIGH"}
        /\ "CASH_IN" \in CommissionReceived.economicEffects
        /\ {"COMMISSION_PAYMENT", "UNKNOWN_ORIGIN"} \subseteq CommissionReceived.reasons
        /\ CommissionReceived.objects = [COMMISSION_RECEIVABLE |-> {"SETTLES"}]
    BY DEF CommissionReceived, Contract
  <2>3. Permitted(register_commission_received)
    BY <2>1, <2>2, ContractsAre, EffectsAdmit, ObjectsAdmit, ReasonsSuit
       DEF Permitted, Admitted, Moves, ConfidenceRank, PositionalTypes
  <2>4. Balanced(register_commission_received)
    <3>1. register_commission_received.parties = cashInParties
      BY DEF register_commission_received, Recovery, Mapping
    <3> QED BY <2>1, <3>1 DEF Balanced
  <2>5. Linked(registerCommissionReceived, register_commission_received)
    <3>1. CommissionReceived.requiresRelatedEventId = TRUE
      BY DEF CommissionReceived, Contract
    <3>2. register_commission_received.relatedEventSlot = "origin"
      BY DEF register_commission_received, Recovery, Mapping
    <3>3. /\ register_commission_received.orphan = "UNKNOWN_ORIGIN"
          /\ register_commission_received.retroactive = Absent
      BY DEF register_commission_received, Recovery, Mapping
    <3> QED BY <2>1, <3>1, <3>2, <3>3, ContractsAre DEF Linked, Moves, Absent
  <2>6. Dated(registerCommissionReceived, register_commission_received)
    <3>1. ~\E k \in DOMAIN registerCommissionReceived : registerCommissionReceived[k].key = "dueAt"
      BY DEF registerCommissionReceived, Payer, Asks, Slot, Amount, May, ObjectRef
    <3> QED BY <3>1 DEF Dated
  <2> QED BY <2>3, <2>4, <2>5, <2>6 DEF Fits
<1>5. Fits(registerAdvanceSettlement, register_advance_settlement)
  <2>1. /\ Tuples(register_advance_settlement) =
              {Moves("ADVANCE", "SETTLES")}
        /\ Reasons(register_advance_settlement) = {"ADVANCE_PAYMENT"}
        /\ register_advance_settlement.effect = "CASH_IN"
        /\ register_advance_settlement.eventType = "ADVANCE_SETTLEMENT"
    BY DEF Tuples, Reasons, register_advance_settlement, Recovery, Mapping, Absent
  <2>2. /\ AdvanceSettlement.minConfidence \in {"LOW", "MEDIUM", "HIGH"}
        /\ "CASH_IN" \in AdvanceSettlement.economicEffects
        /\ {"ADVANCE_PAYMENT"} \subseteq AdvanceSettlement.reasons
        /\ AdvanceSettlement.objects = [ADVANCE |-> {"SETTLES", "ADJUSTS"}]
    BY DEF AdvanceSettlement, Contract
  <2>3. Permitted(register_advance_settlement)
    BY <2>1, <2>2, ContractsAre, EffectsAdmit, ObjectsAdmit, ReasonsSuit
       DEF Permitted, Admitted, Moves, ConfidenceRank, PositionalTypes
  <2>4. Balanced(register_advance_settlement)
    <3>1. register_advance_settlement.parties = cashInParties
      BY DEF register_advance_settlement, Recovery, Mapping
    <3> QED BY <2>1, <3>1 DEF Balanced
  <2>5. Linked(registerAdvanceSettlement, register_advance_settlement)
    <3>1. AdvanceSettlement.requiresRelatedEventId = TRUE
      BY DEF AdvanceSettlement, Contract
    <3>2. register_advance_settlement.relatedEventSlot = "origin"
      BY DEF register_advance_settlement, Recovery, Mapping
    <3>3. Required(registerAdvanceSettlement, "origin")
      BY DEF Required, registerAdvanceSettlement, Payer, Asks, Slot, Amount, ObjectRef, May
    <3> QED BY <2>1, <3>1, <3>2, <3>3, ContractsAre DEF Linked, Moves, Absent
  <2>6. Dated(registerAdvanceSettlement, register_advance_settlement)
    <3>1. ~\E k \in DOMAIN registerAdvanceSettlement : registerAdvanceSettlement[k].key = "dueAt"
      BY DEF registerAdvanceSettlement, Payer, Asks, Slot, Amount, ObjectRef, May
    <3> QED BY <3>1 DEF Dated
  <2> QED BY <2>3, <2>4, <2>5, <2>6 DEF Fits
<1>6. Fits(registerRectification, register_rectification)
  <2>1. /\ Tuples(register_rectification) =
              {Moves("ADVANCE", "RETRACTS"),
               Moves("LOAN", "RETRACTS"),
               Moves("COMMISSION_RECEIVABLE", "RETRACTS")}
        /\ Reasons(register_rectification) = {"DATA_RECONCILIATION"}
        /\ register_rectification.effect = "NON_CASH"
        /\ register_rectification.eventType = "LEDGER_CORRECTION"
    BY DEF Tuples, Reasons, register_rectification, Mapping, Absent
  <2>2. /\ LedgerCorrection.minConfidence \in {"LOW", "MEDIUM", "HIGH"}
        /\ "NON_CASH" \in LedgerCorrection.economicEffects
        /\ {"DATA_RECONCILIATION"} \subseteq LedgerCorrection.reasons
        /\ LedgerCorrection.objects = [t \in PositionalTypes \ {"CONTINGENT_CLAIM", "DISPUTE"} |->
                {"REVERSES", "ADJUSTS", "RETRACTS"}]
    BY DEF LedgerCorrection, Contract
  <2>3. Permitted(register_rectification)
    BY <2>1, <2>2, ContractsAre, EffectsAdmit, ObjectsAdmit, ReasonsSuit
       DEF Permitted, Admitted, Moves, ConfidenceRank, PositionalTypes
  <2>4. Balanced(register_rectification)
    <3>1. register_rectification.parties = <<Leg("usina", "PLATFORM", "NEUTRAL", FALSE)>>
      BY DEF register_rectification, Mapping
    <3> QED BY <2>1, <3>1 DEF Balanced
  <2>5. Linked(registerRectification, register_rectification)
    <3>1. LedgerCorrection.requiresRelatedEventId = FALSE
      BY DEF LedgerCorrection, Contract
    <3>2. register_rectification.relatedEventSlot = "target"
      BY DEF register_rectification, Mapping
    <3>3. Required(registerRectification, "target")
      BY DEF Required, registerRectification, Asks, Slot, Picks, Amount, May
    <3> QED BY <2>1, <3>1, <3>2, <3>3, ContractsAre DEF Linked, Moves, Absent
  <2>6. Dated(registerRectification, register_rectification)
    <3>1. ~\E k \in DOMAIN registerRectification : registerRectification[k].key = "dueAt"
      BY DEF registerRectification, Asks, Slot, Picks, Amount, May
    <3> QED BY <3>1 DEF Dated
  <2> QED BY <2>3, <2>4, <2>5, <2>6 DEF Fits
<1>7. Fits(registerLoanRepayment, register_loan_repayment)
  <2>1. /\ Tuples(register_loan_repayment) =
              {Moves("LOAN", "SETTLES")}
        /\ Reasons(register_loan_repayment) = {"LOAN_REPAYMENT"}
        /\ register_loan_repayment.effect = "CASH_IN"
        /\ register_loan_repayment.eventType = "LOAN_REPAYMENT"
    BY DEF Tuples, Reasons, register_loan_repayment, Recovery, Mapping, Absent
  <2>2. /\ LoanRepayment.minConfidence \in {"LOW", "MEDIUM", "HIGH"}
        /\ "CASH_IN" \in LoanRepayment.economicEffects
        /\ {"LOAN_REPAYMENT"} \subseteq LoanRepayment.reasons
        /\ LoanRepayment.objects = [LOAN |-> {"SETTLES", "ADJUSTS"}]
    BY DEF LoanRepayment, Contract
  <2>3. Permitted(register_loan_repayment)
    BY <2>1, <2>2, ContractsAre, EffectsAdmit, ObjectsAdmit, ReasonsSuit
       DEF Permitted, Admitted, Moves, ConfidenceRank, PositionalTypes
  <2>4. Balanced(register_loan_repayment)
    <3>1. register_loan_repayment.parties = cashInParties
      BY DEF register_loan_repayment, Recovery, Mapping
    <3> QED BY <2>1, <3>1 DEF Balanced
  <2>5. Linked(registerLoanRepayment, register_loan_repayment)
    <3>1. LoanRepayment.requiresRelatedEventId = TRUE
      BY DEF LoanRepayment, Contract
    <3>2. register_loan_repayment.relatedEventSlot = "origin"
      BY DEF register_loan_repayment, Recovery, Mapping
    <3>3. Required(registerLoanRepayment, "origin")
      BY DEF Required, registerLoanRepayment, Payer, Asks, Slot, Amount, ObjectRef, May
    <3> QED BY <2>1, <3>1, <3>2, <3>3, ContractsAre DEF Linked, Moves, Absent
  <2>6. Dated(registerLoanRepayment, register_loan_repayment)
    <3>1. ~\E k \in DOMAIN registerLoanRepayment : registerLoanRepayment[k].key = "dueAt"
      BY DEF registerLoanRepayment, Payer, Asks, Slot, Amount, ObjectRef, May
    <3> QED BY <3>1 DEF Dated
  <2> QED BY <2>3, <2>4, <2>5, <2>6 DEF Fits
<1>8. Fits(registerObligationRecognition, register_obligation_recognition)
  <2>1. /\ Tuples(register_obligation_recognition) =
              {Moves("PAYROLL", "ORIGINATES"),
               Moves("SERVICE_FEE", "ORIGINATES"),
               Moves("INFRASTRUCTURE_COST", "ORIGINATES"),
               Moves("TAX", "ORIGINATES"),
               Moves("PAYABLE", "ORIGINATES")}
        /\ Reasons(register_obligation_recognition) = {"OBLIGATION_RECOGNITION", "LATE_AWARENESS"}
        /\ register_obligation_recognition.effect = "NON_CASH"
        /\ register_obligation_recognition.eventType = "OBLIGATION_RECOGNIZED"
    BY DEF Tuples, Reasons, register_obligation_recognition, Mapping, Absent
  <2>2. /\ ObligationRecognized.minConfidence \in {"LOW", "MEDIUM", "HIGH"}
        /\ "NON_CASH" \in ObligationRecognized.economicEffects
        /\ {"OBLIGATION_RECOGNITION", "LATE_AWARENESS"} \subseteq ObligationRecognized.reasons
        /\ ObligationRecognized.objects =
              [t \in {"PAYROLL", "SERVICE_FEE", "INFRASTRUCTURE_COST", "TAX", "PAYABLE"} |-> {"ORIGINATES"}]
    BY DEF ObligationRecognized, Contract
  <2>3. Permitted(register_obligation_recognition)
    BY <2>1, <2>2, ContractsAre, EffectsAdmit, ObjectsAdmit, ReasonsSuit
       DEF Permitted, Admitted, Moves, ConfidenceRank, PositionalTypes
  <2>4. Balanced(register_obligation_recognition)
    <3>1. register_obligation_recognition.parties = obligationParties
      BY DEF register_obligation_recognition, Mapping
    <3> QED BY <2>1, <3>1 DEF Balanced
  <2>5. Linked(registerObligationRecognition, register_obligation_recognition)
    <3>1. ObligationRecognized.requiresRelatedEventId = FALSE
      BY DEF ObligationRecognized, Contract
    <3> QED BY <2>1, <3>1, ContractsAre DEF Linked, Moves
  <2>6. Dated(registerObligationRecognition, register_obligation_recognition)
    BY <2>1, ContractsAre DEF Dated, Moves, ObligationRecognized, Contract
  <2> QED BY <2>3, <2>4, <2>5, <2>6 DEF Fits
<1> QED BY <1>1, <1>2, <1>3, <1>4, <1>5, <1>6, <1>7, <1>8

LEMMA EveryScenarioFits == \A s \in ScenarioIds : Fits(REGISTRY[s].slots, MapOf(s))
<1> DEFINE Expenses == {"register_payment", "register_payroll", "register_infrastructure",
                        "register_penalty", "register_incentive", "register_advance",
                        "register_loan", "register_service_fee", "register_tax"}
           Others == {"register_waiver", "register_commission_accrual", "register_direct_payment",
                      "register_commission_received", "register_advance_settlement",
                      "register_rectification", "register_loan_repayment",
                      "register_obligation_recognition"}
<1>1. ScenarioIds = Expenses \cup Others
  BY DEF ScenarioIds, REGISTRY
<1>2. \A s \in Expenses : Fits(REGISTRY[s].slots, REGISTRY[s].mapping)
  BY ExpensesFit DEF REGISTRY
<1>3. \A s \in Others : Fits(REGISTRY[s].slots, REGISTRY[s].mapping)
  BY OthersFit DEF REGISTRY
<1> QED BY <1>1, <1>2, <1>3 DEF MapOf

-----------------------------------------------------------------------------
(* What the legs of a candidate add up to. *)

\* What a party adds to the total of a direction.
Share(c, k, d) == IF c.parties[k].direction = d THEN c.parties[k].amount ELSE 0

Sums(c, d, it) ==
    it = [T \in SUBSET DOMAIN c.parties |->
            IF T = {} THEN 0
            ELSE IF c.parties[First(T)].direction = d
                 THEN it[T \ {First(T)}] + c.parties[First(T)].amount ELSE it[T \ {First(T)}]]

LEMMA TotalIs ==
    ASSUME NEW c, NEW d, DOMAIN c.parties \in {{1}, {1, 2}},
           \A k \in DOMAIN c.parties : c.parties[k].amount \in Nat
    PROVE  Total(c, d) = IF 2 \in DOMAIN c.parties THEN Share(c, 1, d) + Share(c, 2, d) ELSE Share(c, 1, d)
<1> DEFINE D == DOMAIN c.parties
<1> DEFINE part(k, T) == IF k \in T THEN Share(c, k, d) ELSE 0
<1> DEFINE w == [T \in SUBSET D |-> part(1, T) + part(2, T)]
<1>1. \A T \in SUBSET D : T # {} => First(T) \in T
  BY DEF First
<1>2. \A k \in D : Share(c, k, d) \in Nat
  BY DEF Share
<1>3. ASSUME NEW T \in SUBSET D, T # {}
      PROVE  w[T] = IF c.parties[First(T)].direction = d
                    THEN w[T \ {First(T)}] + c.parties[First(T)].amount ELSE w[T \ {First(T)}]
  <2>1. PICK k : k = First(T)
    OBVIOUS
  <2>2. k \in T /\ k \in D /\ k \in {1, 2}
    BY <1>1, <1>3, <2>1
  <2>3. T \ {k} \in SUBSET D
    OBVIOUS
  <2>4. w[T] = w[T \ {k}] + Share(c, k, d)
    <3>1. CASE k = 1
      <4>1. part(1, T) = Share(c, 1, d) /\ part(1, T \ {k}) = 0 /\ part(2, T) = part(2, T \ {k})
        BY <2>2, <3>1
      <4>2. part(2, T) \in Nat
        BY <1>2
      <4> QED BY <1>2, <2>2, <2>3, <3>1, <4>1, <4>2
    <3>2. CASE k = 2
      <4>1. part(2, T) = Share(c, 2, d) /\ part(2, T \ {k}) = 0 /\ part(1, T) = part(1, T \ {k})
        BY <2>2, <3>2
      <4>2. part(1, T) \in Nat
        BY <1>2
      <4> QED BY <1>2, <2>2, <2>3, <3>2, <4>1, <4>2
    <3> QED BY <2>2, <3>1, <3>2
  <2>5. w[T \ {k}] \in Nat
    <3>1. part(1, T \ {k}) \in Nat /\ part(2, T \ {k}) \in Nat
      BY <1>2
    <3> QED BY <2>3, <3>1
  <2> HIDE DEF w
  <2>6. w[T] = IF c.parties[k].direction = d THEN w[T \ {k}] + c.parties[k].amount ELSE w[T \ {k}]
    BY <2>4, <2>5 DEF Share
  <2> QED BY <2>1, <2>6
<1>4. w[{}] = 0
  OBVIOUS
<1>5. Sums(c, d, w)
  <2>1. w = [T \in SUBSET D |-> w[T]]
    OBVIOUS
  <2> HIDE DEF w
  <2>2. \A T \in SUBSET D : w[T] = IF T = {} THEN 0
            ELSE IF c.parties[First(T)].direction = d
                 THEN w[T \ {First(T)}] + c.parties[First(T)].amount ELSE w[T \ {First(T)}]
    BY <1>3, <1>4
  <2> QED BY <2>1, <2>2 DEF Sums
<1> DEFINE it == CHOOSE it : Sums(c, d, it)
<1> HIDE DEF w
<1>6. Sums(c, d, it)
  BY <1>5
<1>7. Total(c, d) = it[D]
  BY DEF Total, FoldSeq, FoldFunction, FoldFunctionOnSet, MapThenFoldSet, Sums, First
<1> HIDE DEF it
<1>8. \A T \in SUBSET D : it[T] = IF T = {} THEN 0
            ELSE IF c.parties[First(T)].direction = d
                 THEN it[T \ {First(T)}] + c.parties[First(T)].amount ELSE it[T \ {First(T)}]
  BY <1>6, Zenon DEF Sums
<1>9. it[{}] = 0
  BY <1>8
<1>10. ASSUME NEW k \in D PROVE it[{k}] = Share(c, k, d)
  <2>1. First({k}) = k /\ {k} \ {k} = {} /\ {k} \in SUBSET D /\ {k} # {}
    BY <1>1
  <2>2. it[{k}] = IF c.parties[k].direction = d THEN it[{}] + c.parties[k].amount ELSE it[{}]
    BY <1>8, <2>1
  <2> QED BY <1>9, <2>2 DEF Share
<1>11. CASE D = {1}
  BY <1>7, <1>10, <1>11
<1>12. CASE D = {1, 2}
  <2>1. PICK k, j : k = First(D) /\ k \in {1, 2} /\ j \in {1, 2} /\ j # k /\ D \ {k} = {j}
    BY <1>1, <1>12
  <2>2. it[D] = IF c.parties[k].direction = d THEN it[{j}] + c.parties[k].amount ELSE it[{j}]
    BY <1>8, <1>12, <2>1
  <2>3. it[{j}] = Share(c, j, d)
    BY <1>10, <1>12, <2>1
  <2>4. it[D] = Share(c, k, d) + Share(c, j, d)
    BY <1>2, <1>12, <2>1, <2>2, <2>3 DEF Share
  <2> QED BY <1>2, <1>7, <1>12, <2>1, <2>4
<1> QED BY <1>11, <1>12

\* The legs of a mapping, with the amount put on those that carry it.
LegsOf(c, m) ==
    /\ DOMAIN c.parties = DOMAIN m.parties
    /\ \A k \in DOMAIN m.parties :
          /\ c.parties[k].role = m.parties[k].role
          /\ c.parties[k].direction = m.parties[k].direction
          /\ c.parties[k].amount = IF m.parties[k].carriesAmount THEN c.amount ELSE 0

LEMMA LegsBalance ==
    ASSUME NEW c, NEW m, Balanced(m), LegsOf(c, m), c.effect = m.effect, c.amount \in Nat \ {0}
    PROVE  /\ FlowBalances(c) /\ c.parties # <<>>
           /\ \A p \in Range(c.parties) :
                 ~(p.role = "PAYER" /\ p.direction = "IN") /\ ~(p.role = "PAYEE" /\ p.direction = "OUT")
           /\ c.effect \in {"CASH_IN", "CASH_OUT", "NON_CASH"}
<1>1. PICK P, a : P = c.parties /\ a = c.amount
  OBVIOUS
<1>2. Range(P) = {P[k] : k \in DOMAIN P}
  BY DEF Range
<1>3. PICK in, out, neutral : in = Total(c, "IN") /\ out = Total(c, "OUT") /\ neutral = Total(c, "NEUTRAL")
  OBVIOUS
<1>4. CASE m.effect = "CASH_IN" /\ m.parties = cashInParties
  <2>1. /\ DOMAIN P = {1, 2}
        /\ P[1].role = "PAYEE" /\ P[1].direction = "IN" /\ P[1].amount = a
        /\ P[2].role = "PAYER" /\ P[2].direction = "NEUTRAL" /\ P[2].amount = a
    BY <1>1, <1>4 DEF LegsOf, cashInParties, Leg
  <2>2. in = a /\ out = 0 /\ neutral = a
    <3>1. /\ Share(c, 1, "IN") = a /\ Share(c, 1, "OUT") = 0 /\ Share(c, 1, "NEUTRAL") = 0
          /\ Share(c, 2, "IN") = 0 /\ Share(c, 2, "OUT") = 0 /\ Share(c, 2, "NEUTRAL") = a
      BY <1>1, <2>1 DEF Share
    <3>2. \A d : Total(c, d) = Share(c, 1, d) + Share(c, 2, d)
      BY <1>1, <2>1, TotalIs
    <3> QED BY <1>1, <1>3, <3>1, <3>2
  <2>3. FlowBalances(c)
    BY <1>1, <1>3, <1>4, <2>2 DEF FlowBalances
  <2>4. P # <<>>
    <3>1. 1 \in DOMAIN P
      BY <2>1
    <3> QED BY <3>1
  <2> QED BY <1>1, <1>2, <1>4, <2>1, <2>3, <2>4
<1>5. CASE m.effect = "CASH_OUT" /\ m.parties = cashOutParties
  <2>1. /\ DOMAIN P = {1, 2}
        /\ P[1].role = "PAYER" /\ P[1].direction = "OUT" /\ P[1].amount = a
        /\ P[2].role = "PAYEE" /\ P[2].direction = "NEUTRAL" /\ P[2].amount = 0
    BY <1>1, <1>5 DEF LegsOf, cashOutParties, Leg
  <2>2. in = 0 /\ out = a /\ neutral = 0
    BY <1>1, <1>3, <2>1, TotalIs DEF Share
  <2>3. FlowBalances(c)
    BY <1>1, <1>3, <1>5, <2>2 DEF FlowBalances
  <2>4. P # <<>>
    <3>1. 1 \in DOMAIN P
      BY <2>1
    <3> QED BY <3>1
  <2> QED BY <1>1, <1>2, <1>5, <2>1, <2>3, <2>4
<1>6. CASE m.effect = "NON_CASH" /\ m.parties = obligationParties
  <2>1. /\ DOMAIN P = {1, 2}
        /\ P[1].direction = "NEUTRAL" /\ P[1].amount = 0
        /\ P[2].direction = "NEUTRAL" /\ P[2].amount = 0
    BY <1>1, <1>6 DEF LegsOf, obligationParties, Leg
  <2>2. in = 0 /\ out = 0 /\ neutral = 0
    BY <1>1, <1>3, <2>1, TotalIs DEF Share
  <2>3. FlowBalances(c)
    BY <1>1, <1>3, <1>6, <2>2 DEF FlowBalances
  <2>4. P # <<>>
    <3>1. 1 \in DOMAIN P
      BY <2>1
    <3> QED BY <3>1
  <2> QED BY <1>1, <1>2, <1>6, <2>1, <2>3, <2>4
<1>7. CASE /\ m.effect = "NON_CASH"
           /\ m.parties \in {Beneficiary("usina"), Beneficiary("counterparty"),
                             <<Leg("usina", "PLATFORM", "NEUTRAL", FALSE)>>}
  <2>1. DOMAIN P = {1} /\ P[1].direction = "NEUTRAL" /\ P[1].amount = 0
    BY <1>1, <1>7 DEF LegsOf, Beneficiary, Leg
  <2>2. in = 0 /\ out = 0 /\ neutral = 0
    BY <1>1, <1>3, <2>1, TotalIs DEF Share
  <2>3. FlowBalances(c)
    BY <1>1, <1>3, <1>7, <2>2 DEF FlowBalances
  <2>4. P # <<>>
    <3>1. 1 \in DOMAIN P
      BY <2>1
    <3> QED BY <3>1
  <2> QED BY <1>1, <1>2, <1>7, <2>1, <2>3, <2>4
<1> QED BY <1>4, <1>5, <1>6, <1>7 DEF Balanced

LEMMA BranchTuples ==
    ASSUME NEW s \in ScenarioIds, NEW answers
    PROVE  /\ 1 \in DOMAIN MapOf(s).objects /\ DOMAIN Branch(MapOf(s), answers) = DOMAIN MapOf(s).objects
           /\ \A k \in DOMAIN MapOf(s).objects : Branch(MapOf(s), answers)[k] \in Tuples(MapOf(s))
<1>1. PICK m, objects, byChoice : m = MapOf(s) /\ objects = m.objects /\ byChoice = m.byChoice
  OBVIOUS
<1>2. 1 \in DOMAIN objects
  BY <1>1, EveryScenarioCast DEF Cast
<1>3. PICK c : c = answers[m.selectorSlot]
  OBVIOUS
<1>4. CASE m.selectorSlot # Absent /\ Filled(answers, m.selectorSlot) /\ c \in DOMAIN byChoice
  <2>1. Branch(m, answers) = [objects EXCEPT ![1] = byChoice[c]]
    BY <1>1, <1>3, <1>4 DEF Branch
  <2>2. byChoice[c] \in Tuples(m) /\ \A k \in DOMAIN objects : objects[k] \in Tuples(m)
    BY <1>1, <1>4 DEF Tuples
  <2> QED BY <1>1, <1>2, <2>1, <2>2
<1>5. CASE ~(m.selectorSlot # Absent /\ Filled(answers, m.selectorSlot) /\ c \in DOMAIN byChoice)
  <2>1. Branch(m, answers) = objects
    BY <1>1, <1>3, <1>5 DEF Branch
  <2>2. \A k \in DOMAIN objects : objects[k] \in Tuples(m)
    BY <1>1 DEF Tuples
  <2> QED BY <1>1, <1>2, <2>1, <2>2
<1> QED BY <1>4, <1>5

\* What a required slot asks is there.
LEMMA RequiredFilled ==
    ASSUME NEW s, NEW answers, Ready(s, answers), NEW key, Required(REGISTRY[s].slots, key)
    PROVE  Filled(answers, key)
BY DEF Ready, Missing, Required

LEMMA AmountFilled ==
    ASSUME NEW s \in ScenarioIds, NEW answers, Legal(s, answers), Ready(s, answers)
    PROVE  answers.amount \in Nat \ {0}
<1>1. PICK slots, m : slots = REGISTRY[s].slots /\ m = MapOf(s)
  OBVIOUS
<1>2. Cast(slots, m)
  BY <1>1, EveryScenarioCast
<1>3. PICK k \in DOMAIN slots : slots[k].key = "amount"
  BY <1>2 DEF Cast, Absent
<1>4. Required(slots, "amount")
  BY <1>2, <1>3 DEF Cast, Required
<1>5. Filled(answers, "amount")
  BY <1>1, <1>4, RequiredFilled
<1> QED BY <1>5 DEF Legal, Filled

\* A candidate whose contract asks for its origin has one, or says that it is not known.
LEMMA OriginStated ==
    ASSUME NEW s \in ScenarioIds, NEW answers, Legal(s, answers), Ready(s, answers),
           EVENT_CONTRACTS[MapOf(s).eventType].requiresRelatedEventId
    PROVE  \/ RelatedTo(MapOf(s), answers) # None
           \/ Orphan(MapOf(s), answers) /\ ReasonType(MapOf(s), answers) = "UNKNOWN_ORIGIN"
<1>1. PICK slots, m, slot : slots = REGISTRY[s].slots /\ m = MapOf(s) /\ slot = m.relatedEventSlot
  OBVIOUS
<1>2. /\ slot # Absent
      /\ Required(slots, slot) \/ (m.orphan = "UNKNOWN_ORIGIN" /\ m.retroactive = Absent)
  BY <1>1, EveryScenarioFits DEF Fits, Linked
<1>3. CASE Filled(answers, slot)
  BY <1>1, <1>2, <1>3 DEF RelatedTo, Legal, Filled
<1>4. CASE ~Filled(answers, slot)
  BY <1>1, <1>2, <1>4, RequiredFilled DEF Orphan, ReasonType, Absent
<1> QED BY <1>3, <1>4

LEMMA RetractionNames ==
    ASSUME NEW s \in ScenarioIds, NEW answers, Legal(s, answers), Ready(s, answers),
           NEW t \in Tuples(MapOf(s)), t.relation = "RETRACTS"
    PROVE  RelatedTo(MapOf(s), answers) # None /\ \A u \in Tuples(MapOf(s)) : u.relation = "RETRACTS"
<1>1. PICK slots, m, slot : slots = REGISTRY[s].slots /\ m = MapOf(s) /\ slot = m.relatedEventSlot
  OBVIOUS
<1>2. slot # Absent /\ Required(slots, slot) /\ \A u \in Tuples(m) : u.relation = "RETRACTS"
  BY <1>1, EveryScenarioFits DEF Fits, Linked
<1>3. Filled(answers, slot)
  BY <1>1, <1>2, RequiredFilled
<1> QED BY <1>1, <1>2, <1>3 DEF RelatedTo, Legal, Filled

LEMMA ReasonKnown ==
    ASSUME NEW m, NEW answers
    PROVE  ReasonType(m, answers) \in Reasons(m)
BY DEF ReasonType, Reasons, Orphan

\* What the parts of a candidate are.
Built(c, s, answers) ==
    LET m == MapOf(s) IN
    /\ c.eventType = m.eventType /\ c.effect = m.effect /\ c.amount = answers.amount
    /\ c.dueAt = Filled(answers, "dueAt")
    /\ c.reason.type = ReasonType(m, answers) /\ c.reason.confidence = "HIGH"
    /\ Orphan(m, answers) => c.reason.requiresFollowup
    /\ DOMAIN c.objects = DOMAIN m.objects
    /\ \A k \in DOMAIN m.objects : /\ c.objects[k].objectType = Branch(m, answers)[k].objectType
                                   /\ c.objects[k].relation = Branch(m, answers)[k].relation

LEMMA CandidateBuilt ==
    ASSUME NEW i, NEW x
    PROVE  Built(Candidate(i, x), x.scenario, x.answers) /\ LegsOf(Candidate(i, x), MapOf(x.scenario))
<1>1. PICK s, answers, m, ref : s = x.scenario /\ answers = x.answers /\ m = MapOf(s) /\ ref = Refs[i]
  OBVIOUS
<1>2. PICK c : c = Candidate(i, x)
  OBVIOUS
<1>3. /\ c.eventType = m.eventType /\ c.effect = m.effect /\ c.amount = answers.amount
      /\ c.dueAt = Filled(answers, "dueAt")
  BY <1>1, <1>2 DEF Candidate, build
<1>4. c.objects = [k \in DOMAIN m.objects |->
                    [objectId |-> ObjectId(m, ref, answers, Branch(m, answers)[k]),
                     objectType |-> Branch(m, answers)[k].objectType,
                     relation |-> Branch(m, answers)[k].relation]]
  BY <1>1, <1>2 DEF Candidate, build
<1>5. c.parties = [k \in DOMAIN m.parties |->
            [partyId   |-> PartyOf(m, answers, m.parties[k]),
             role      |-> m.parties[k].role,
             direction |-> m.parties[k].direction,
             amount    |-> IF m.parties[k].carriesAmount THEN answers.amount ELSE 0]]
  BY <1>1, <1>2 DEF Candidate, build
<1>6. /\ c.reason.type = ReasonType(m, answers) /\ c.reason.confidence = "HIGH"
      /\ Orphan(m, answers) => c.reason.requiresFollowup
  BY <1>1, <1>2 DEF Candidate, build
<1>7. Built(c, s, answers)
  BY <1>1, <1>3, <1>4, <1>6 DEF Built
<1>8. LegsOf(c, m)
  BY <1>3, <1>5 DEF LegsOf
<1> QED BY <1>1, <1>2, <1>7, <1>8

\* The candidate of an intent from which nothing is missing keeps every rule of the ledger.
LEMMA CandidateValid ==
    ASSUME NEW i, NEW x, LegalIntent(x), Ready(x.scenario, x.answers)
    PROVE  WellFormed(Candidate(i, x), RelatedTo(MapOf(x.scenario), x.answers))
<1>1. PICK s, answers, m, related :
            /\ s = x.scenario /\ answers = x.answers
            /\ m = MapOf(s) /\ related = RelatedTo(m, answers)
  OBVIOUS
<1>2. PICK c : c = Candidate(i, x)
  OBVIOUS
<1>3. s \in ScenarioIds /\ Legal(s, answers) /\ Ready(s, answers)
  BY <1>1 DEF LegalIntent
<1>4. Built(c, s, answers) /\ LegsOf(c, m)
  BY <1>1, <1>2, CandidateBuilt
<1>5. PICK contract : contract = EVENT_CONTRACTS[m.eventType]
  OBVIOUS
<1>6. Permitted(m) /\ Balanced(m) /\ Linked(REGISTRY[s].slots, m) /\ Dated(REGISTRY[s].slots, m)
  BY <1>1, <1>3, EveryScenarioFits DEF Fits
<1>7. c.amount \in Nat \ {0}
  BY <1>1, <1>3, <1>4, AmountFilled DEF Built
<1>8. PICK T : T = Tuples(m)
  OBVIOUS
<1>9. PICK r : r = c.reason.type
  OBVIOUS
<1>10. r \in Reasons(m)
  BY <1>1, <1>4, <1>9, ReasonKnown DEF Built
<1>11. PICK objects : objects = c.objects
  OBVIOUS
<1>12. 1 \in DOMAIN objects /\ \A k \in DOMAIN objects :
          \E t \in T : objects[k].objectType = t.objectType /\ objects[k].relation = t.relation
  BY <1>1, <1>3, <1>4, <1>8, <1>11, BranchTuples DEF Built
<1>13. PICK O : O = Range(objects)
  OBVIOUS
<1>14. O = {objects[k] : k \in DOMAIN objects}
  BY <1>13 DEF Range
<1>15. \A o \in O : \E t \in T : o.objectType = t.objectType /\ o.relation = t.relation
  BY <1>12, <1>14
<1>16. \A t \in T : Admitted(m, t)
  BY <1>6, <1>8 DEF Permitted
<1>17. ASSUME NEW o \in O
       PROVE  /\ o.objectType \in PositionalTypes
              /\ o.objectType \in DOMAIN contract.objects
              /\ o.relation \in contract.objects[o.objectType]
              /\ o.relation \in ECONOMIC_EFFECT_RELATION_MATRIX[m.effect]
              /\ o.relation \in OBJECT_RELATION_MATRIX[o.objectType]
              /\ m.effect \in REASON_EFFECT_MATRIX[r] /\ o.relation \in REASON_RELATION_MATRIX[r]
  BY <1>5, <1>10, <1>15, <1>16 DEF Admitted, Suits
<1>18. Positional(c) = O /\ Contextual(c) = {}
  BY <1>11, <1>13, <1>17 DEF Positional, Contextual
<1>19. HasSubstance(c) /\ FlowBalances(c) /\ c.effect \in {"CASH_IN", "CASH_OUT", "NON_CASH"}
  <2>1. c.effect = m.effect
    BY <1>1, <1>4 DEF Built
  <2>2. /\ FlowBalances(c) /\ c.parties # <<>>
        /\ \A p \in Range(c.parties) :
              ~(p.role = "PAYER" /\ p.direction = "IN") /\ ~(p.role = "PAYEE" /\ p.direction = "OUT")
        /\ c.effect \in {"CASH_IN", "CASH_OUT", "NON_CASH"}
    BY <1>4, <1>6, <1>7, <2>1, LegsBalance
  <2>3. objects # <<>>
    BY <1>12
  <2> QED BY <1>7, <1>11, <2>2, <2>3 DEF HasSubstance
<1>20. ReasonStated(c)
  <2>1. r # "NONE"
    BY <1>6, <1>10 DEF Permitted
  <2> QED BY <1>9, <1>19, <2>1 DEF ReasonStated, NoReason
<1>21. ObjectsAllowed(c)
  <2>1. c.eventType = m.eventType /\ c.effect = m.effect /\ m.effect \in contract.economicEffects
    BY <1>1, <1>4, <1>5, <1>6 DEF Built, Permitted
  <2> QED BY <1>5, <1>11, <1>13, <1>17, <1>18, <2>1 DEF ObjectsAllowed
<1>22. ReasonAllowed(c)
  <2>1. c.eventType = m.eventType /\ c.effect = m.effect /\ c.reason.confidence = "HIGH"
    BY <1>1, <1>4 DEF Built
  <2>2. r \in contract.reasons /\ contract.minConfidence \in DOMAIN ConfidenceRank
    BY <1>5, <1>6, <1>10 DEF Permitted
  <2>3. \E o \in O : TRUE
    BY <1>12, <1>14
  <2>4. ConfidenceRank["HIGH"] >= ConfidenceRank[contract.minConfidence]
    BY <2>2 DEF ConfidenceRank
  <2> QED BY <1>5, <1>9, <1>17, <1>18, <2>1, <2>2, <2>3, <2>4 DEF ReasonAllowed
<1>23. LinksPresent(c, related, 1)
  <2>1. /\ c.eventType = m.eventType
        /\ Orphan(m, answers) => c.reason.requiresFollowup
        /\ r = ReasonType(m, answers)
    BY <1>1, <1>4, <1>9 DEF Built
  <2>2. contract.requiresRelatedEventId =>
            related # None \/ (Orphan(m, answers) /\ ReasonType(m, answers) = "UNKNOWN_ORIGIN")
    BY <1>1, <1>3, <1>5, OriginStated
  <2> QED BY <1>5, <1>9, <2>1, <2>2 DEF LinksPresent, None
<1>24. ContextOnlyReferences(c)
  BY <1>18 DEF ContextOnlyReferences
<1>25. RetractsOnly(c, related)
  <2>1. ASSUME NEW o \in O, o.relation = "RETRACTS"
        PROVE  related # None /\ \A u \in O : u.relation = "RETRACTS"
    <3>1. PICK t \in T : t.relation = "RETRACTS"
      BY <1>15, <2>1
    <3>2. related # None /\ \A u \in T : u.relation = "RETRACTS"
      BY <1>1, <1>3, <1>8, <3>1, RetractionNames
    <3> QED BY <1>15, <3>2
  <2> QED BY <1>11, <1>13, <2>1 DEF RetractsOnly, Carries
<1>26. DueDateAllowed(c)
  <2>1. ASSUME c.dueAt
        PROVE  EVENT_CONTRACTS[c.eventType].admitsDueAt /\ Carries(c, "ORIGINATES")
    <3>1. "dueAt" \in DOMAIN answers
      BY <1>4, <2>1 DEF Built, Filled
    <3>2. \E k \in DOMAIN REGISTRY[s].slots : REGISTRY[s].slots[k].key = "dueAt"
      BY <1>3, <3>1, SlotIs DEF Legal
    <3>3. contract.admitsDueAt /\ \A t \in T : t.relation = "ORIGINATES"
      BY <1>5, <1>6, <1>8, <3>2 DEF Dated
    <3>4. \E o \in O : o.relation = "ORIGINATES"
      BY <1>12, <1>14, <1>15, <3>3
    <3>5. c.eventType = m.eventType
      BY <1>1, <1>4 DEF Built
    <3> QED BY <1>5, <1>11, <1>13, <3>3, <3>4, <3>5 DEF Carries
  <2> QED BY <2>1 DEF DueDateAllowed
<1>27. ValidEvent(c, related, 1)
  BY <1>19, <1>20, <1>21, <1>22, <1>23, <1>24, <1>25, <1>26 DEF ValidEvent, SemanticallyValid
<1> QED BY <1>1, <1>2, <1>7, <1>27 DEF WellFormed

-----------------------------------------------------------------------------
(* What is answered is legal. *)

\* The amount is asked of every scenario, and is no other answer its mapping speaks of.
LEMMA AmountIs ==
    ASSUME NEW s \in ScenarioIds
    PROVE  /\ "amount" \in SlotKeys(s) /\ SlotOf(s, "amount").type = "MONEY" /\ SlotOf(s, "amount").required
           /\ "amount" \notin {MapOf(s).selectorSlot, MapOf(s).objectIdSlot,
                               MapOf(s).relatedEventSlot, MapOf(s).counterpartySlot}
<1>1. PICK slots, m : slots = REGISTRY[s].slots /\ m = MapOf(s)
  OBVIOUS
<1>2. Cast(slots, m)
  BY <1>1, EveryScenarioCast
<1>3. PICK k \in DOMAIN slots : slots[k].key = "amount"
  BY <1>2 DEF Cast, Absent
<1>4. /\ slots[k].type = "MONEY" /\ slots[k].required
      /\ "amount" \notin {m.selectorSlot, m.objectIdSlot, m.relatedEventSlot, m.counterpartySlot}
  BY <1>2, <1>3 DEF Cast
<1> QED BY <1>1, <1>3, <1>4, SlotFound

\* Nor is the event a scenario is about.
LEMMA RelatedIs ==
    ASSUME NEW s \in ScenarioIds, NEW key \in SlotKeys(s), key = MapOf(s).relatedEventSlot
    PROVE  /\ SlotOf(s, key).type = "EVENT_REF"
           /\ key \notin {MapOf(s).selectorSlot, MapOf(s).objectIdSlot, MapOf(s).counterpartySlot, "amount"}
<1>1. PICK slots, m : slots = REGISTRY[s].slots /\ m = MapOf(s)
  OBVIOUS
<1>2. Cast(slots, m)
  BY <1>1, EveryScenarioCast
<1>3. PICK k \in DOMAIN slots : slots[k].key = key /\ SlotOf(s, key) = slots[k]
  BY <1>1, SlotIs
<1>4. /\ slots[k].type = "EVENT_REF"
      /\ key \notin {m.selectorSlot, m.objectIdSlot, m.counterpartySlot, "amount"}
  BY <1>1, <1>2, <1>3 DEF Cast
<1> QED BY <1>1, <1>3, <1>4

LEMMA MergedLegal ==
    ASSUME NEW s \in ScenarioIds, NEW answers, Legal(s, answers), NEW batch, Sane(s, batch), NEW mode
    PROVE  Legal(s, Merged(s, answers, batch, mode))
<1>1. PICK merged : merged = Merged(s, answers, batch, mode)
  OBVIOUS
<1>2. ASSUME NEW key \in DOMAIN merged
      PROVE  /\ key \in SlotKeys(s)
             /\ key = "amount" => merged[key] \in Nat \ {0}
             /\ key = MapOf(s).relatedEventSlot => merged[key] # None
  <2>1. CASE Filled(answers, key) /\ merged[key] = answers[key]
    BY <2>1 DEF Filled, Legal
  <2>2. CASE /\ key \in Recordable(s, answers, batch, mode) /\ batch[key] # Blank
             /\ merged[key] = Written(s, key, batch[key])
    <3>1. /\ key \in DOMAIN batch \cap SlotKeys(s) /\ validateAnswer(SlotOf(s, key), batch[key])
      BY <2>2 DEF Recordable
    <3>2. ASSUME key = "amount" PROVE merged[key] \in Nat \ {0}
      <4>1. batch[key] \in Nat
        BY <2>2, <3>1, <3>2 DEF Sane
      <4>2. SlotOf(s, key).type = "MONEY"
        BY <3>2, AmountIs
      <4>3. batch[key] > 0
        BY <3>1, <4>2 DEF validateAnswer
      <4>4. merged[key] = batch[key]
        BY <2>2, <4>2 DEF Written
      <4> QED BY <4>1, <4>3, <4>4
    <3>3. ASSUME key = MapOf(s).relatedEventSlot PROVE merged[key] # None
      <4>1. batch[key] # None
        BY <3>1, <3>3 DEF Sane
      <4>2. SlotOf(s, key).type = "EVENT_REF"
        BY <3>1, <3>3, RelatedIs
      <4> QED BY <2>2, <4>1, <4>2 DEF Written
    <3> QED BY <3>1, <3>2, <3>3
  <2>3. Filled(merged, key)
    BY DEF Filled
  <2> QED BY <1>1, <2>1, <2>2, <2>3, MergedWrites
<1> QED BY <1>1, <1>2 DEF Legal

LEMMA AppliedLegal ==
    ASSUME NEW x, DOMAIN x = IntentFields, Confirmable(x), NEW batch, Sane(x.scenario, batch), NEW mode
    PROVE  Confirmable(Applied(x, batch, mode))
<1>1. PICK s, old : s = x.scenario /\ old = x.answers
  OBVIOUS
<1>2. PICK answers : answers = Merged(s, old, batch, mode) /\ Legal(s, answers) /\ s \in ScenarioIds
  <2>1. Legal(s, Merged(s, old, batch, mode))
    BY <1>1, MergedLegal DEF Confirmable, LegalIntent
  <2> QED BY <1>1, <2>1 DEF Confirmable, LegalIntent
<1>3. PICK status : status = IF Ready(s, answers) THEN "awaiting_confirmation" ELSE "gathering"
  OBVIOUS
<1> DEFINE n == [x EXCEPT !.answers = answers, !.status = status]
<1>4. n.scenario = s /\ n.answers = answers /\ n.status = status
  BY <1>1 DEF IntentFields
<1>5. Applied(x, batch, mode) = x \/ Applied(x, batch, mode) = n
  BY <1>1, <1>2, <1>3 DEF Applied
<1> HIDE DEF n
<1>6. Confirmable(n)
  BY <1>2, <1>3, <1>4 DEF Confirmable, LegalIntent
<1> QED BY <1>5, <1>6

LEMMA StartedLegal ==
    ASSUME NEW s \in ScenarioIds
    PROVE  Confirmable(Started(s))
<1>1. PICK x, none : x = Started(s) /\ none = <<>> /\ DOMAIN none = {}
  OBVIOUS
<1>2. x.scenario = s /\ x.status = "gathering" /\ x.answers = none
  BY <1>1, StartedIs
<1> QED BY <1>1, <1>2 DEF Confirmable, LegalIntent, Legal

\* What an operator answers.
LEMMA BatchesSane ==
    ASSUME book \in Seq(Range(book)), NEW s \in ScenarioIds, NEW keys, keys \subseteq SlotKeys(s),
           NEW batch \in Batches(s, keys)
    PROVE  Sane(s, batch)
<1>1. IsFiniteSet(keys)
  BY SlotKeysFinite, FS_Subset
<1>2. DOMAIN batch = keys /\ \A key \in keys : batch[key] \in Replies(SlotOf(s, key))
  BY <1>1, BatchesAnswer DEF Replied
<1>3. ASSUME "amount" \in keys PROVE batch["amount"] \in Nat
  <2>1. PICK slot : slot = SlotOf(s, "amount") /\ slot.type = "MONEY"
    BY AmountIs
  <2>2. Replies(slot) = Amounts
    BY <2>1 DEF Replies
  <2> QED BY <1>2, <1>3, <2>1, <2>2, SubmissionAssumption
<1>4. ASSUME NEW key \in keys, key = MapOf(s).relatedEventSlot PROVE batch[key] # None
  <2>1. PICK slot : slot = SlotOf(s, key) /\ slot.type = "EVENT_REF"
    BY <1>4, RelatedIs
  <2>2. Replies(slot) = Ids(book) \cup {UnknownId, Blank}
    BY <2>1 DEF Replies
  <2>3. None \notin Ids(book)
    BY DEF Ids, None
  <2>4. None # UnknownId /\ None # Blank
    BY SubmissionAssumption, BookAssumption DEF None, UnknownId
  <2> QED BY <1>2, <1>4, <2>1, <2>2, <2>3, <2>4
<1> QED BY <1>2, <1>3, <1>4 DEF Sane

\* The originations of a position that stand are events of the book.
LEMMA StandingLeast ==
    ASSUME book \in Seq(Range(book)), NEW object, Standing(object) # {}
    PROVE  Min(Standing(object)) # None
<1>1. PICK b : b = book /\ b \in Seq(Range(b))
  OBVIOUS
<1>2. Ids(b) \subseteq Nat \ {0}
  BY <1>1 DEF Ids
<1>3. PICK T : T = Standing(object)
  OBVIOUS
<1>4. T \subseteq Ids(b)
  BY <1>1, <1>3 DEF Standing, EventsOf
<1>5. Min(T) \in T
  <2>1. T \subseteq Nat /\ T # {}
    BY <1>2, <1>3, <1>4
  <2> QED BY <2>1, LeastNatural DEF Min
<1> QED BY <1>2, <1>3, <1>4, <1>5 DEF None

\* What a position answers, when an operation is opened from it and when it is pointed at.
LEMMA PrefillSane ==
    ASSUME book \in Seq(Range(book)), NEW object, NEW action, action.scenario \in ScenarioIds
    PROVE  Sane(action.scenario, Prefill(object, action))
<1>1. PICK s, batch : s = action.scenario /\ batch = Prefill(object, action)
  OBVIOUS
<1>2. PICK m, standing : m = MapOf(s) /\ standing = Standing(object)
  OBVIOUS
<1>3. PICK origin, others : origin = Min(standing) /\ others = OtherParties(book[origin])
  OBVIOUS
<1>4. PICK all : all = {k \in SlotKeys(s) :
          \/ k = m.selectorSlot /\ action.choice # Absent
          \/ k = m.objectIdSlot
          \/ k = m.relatedEventSlot /\ standing # {}
          \/ k = m.counterpartySlot /\ m.inheritsCounterparty /\ standing # {} /\ others # <<>>}
  OBVIOUS
<1> DEFINE value(k) == CASE k = m.selectorSlot     -> action.choice
                         [] k = m.objectIdSlot     -> object
                         [] k = m.relatedEventSlot -> origin
                         [] OTHER                  -> Head(others).partyId
<1>5. batch = [k \in all |-> value(k)]
  BY <1>1, <1>2, <1>3, <1>4 DEF Prefill
<1>6. "amount" \notin all
  BY <1>1, <1>2, <1>4, AmountIs
<1>7. ASSUME NEW key \in all, key = m.relatedEventSlot PROVE value(key) # None
  <2>1. key \notin {m.selectorSlot, m.objectIdSlot, m.counterpartySlot}
    BY <1>1, <1>2, <1>4, <1>7, RelatedIs
  <2>2. standing # {}
    BY <1>4, <1>7, <2>1
  <2>3. origin # None
    BY <1>2, <1>3, <2>2, StandingLeast
  <2> QED BY <1>7, <2>1, <2>3
<1> HIDE DEF value
<1> QED BY <1>1, <1>2, <1>5, <1>6, <1>7 DEF Sane

LEMMA PointedSane ==
    ASSUME book \in Seq(Range(book)), NEW object, NEW s \in ScenarioIds
    PROVE  Sane(s, positionAnswers(MapOf(s), object))
<1>1. PICK m, batch : m = MapOf(s) /\ batch = positionAnswers(m, object)
  OBVIOUS
<1>2. PICK origins : origins = IF m.relatedEventSlot = Absent THEN {} ELSE Standing(object)
  OBVIOUS
<1>3. PICK all : all = {m.objectIdSlot} \cup (IF origins = {} THEN {} ELSE {m.relatedEventSlot})
  OBVIOUS
<1>4. batch = [k \in all |-> IF k = m.objectIdSlot THEN object ELSE Min(origins)]
  BY <1>1, <1>2, <1>3 DEF positionAnswers
<1>5. "amount" \notin all
  BY <1>1, <1>3, AmountIs
<1>6. ASSUME NEW key \in all, key \in SlotKeys(s), key = m.relatedEventSlot PROVE batch[key] # None
  <2>1. key # m.objectIdSlot
    BY <1>1, <1>6, RelatedIs
  <2>2. origins # {} /\ origins = Standing(object)
    BY <1>2, <1>3, <1>6, <2>1
  <2>3. Min(origins) # None
    BY <2>2, StandingLeast
  <2> QED BY <1>4, <1>6, <2>1, <2>3
<1> QED BY <1>1, <1>4, <1>5, <1>6 DEF Sane

\* What a withdrawal answers of its target.
LEMMA WithdrawalSane ==
    ASSUME book \in Seq(Range(book)), NEW target \in Ids(book), book[target].cmd.amount \in Nat, NEW restated
    PROVE  Sane("register_rectification", Withdrawal(target, restated))
<1>1. PICK batch, event : batch = Withdrawal(target, restated) /\ event = book[target]
  OBVIOUS
<1>2. PICK moved : moved = MovedBy(event)
  OBVIOUS
<1>3. PICK all : all = {"target", "objectRef", "amount", "objectType"}
                          \cup (IF restated THEN {"reissue"} ELSE {})
  OBVIOUS
<1> DEFINE value(k) == CASE k = "target"     -> target
                         [] k = "objectRef"  -> moved.objectId
                         [] k = "amount"     -> event.cmd.amount
                         [] k = "objectType" -> SUPPORTED_OBJECT_TYPES[moved.objectType]
                         [] OTHER            -> "pending"
<1>4. batch = [k \in all |-> value(k)]
  BY <1>1, <1>2, <1>3 DEF Withdrawal
<1>5. value("target") = target /\ value("amount") = event.cmd.amount
  OBVIOUS
<1>6. target # None
  <2>1. PICK b : b = book /\ b \in Seq(Range(b)) /\ target \in Ids(b)
    OBVIOUS
  <2> QED BY <2>1 DEF Ids, None
<1>7. MapOf("register_rectification").relatedEventSlot = "target"
  BY RectificationSlots, RectificationMap
<1> HIDE DEF value
<1> QED BY <1>1, <1>4, <1>5, <1>6, <1>7 DEF Sane

\* What a restatement answers: what the ledger holds, with the corrected amount.
LEMMA RestatedSane ==
    ASSUME NEW s \in ScenarioIds, NEW event, NEW corrected \in Nat
    PROVE  Sane(s, [Restated(MapOf(s), event) EXCEPT !.amount = corrected])
<1>1. PICK m, answers : m = MapOf(s) /\ answers = Restated(m, event)
  OBVIOUS
<1>2. PICK moved, others : moved = MovedBy(event) /\ others = OtherParties(event)
  OBVIOUS
<1>3. PICK keys : keys = {"amount", m.selectorSlot, m.objectIdSlot}
                           \cup (IF others # <<>> THEN {m.counterpartySlot} ELSE {})
                           \cup (IF event.related # None THEN {m.relatedEventSlot} ELSE {})
  OBVIOUS
<1>4. PICK all : all = keys \ {Absent}
  OBVIOUS
<1> DEFINE value(k) == CASE k = "amount"           -> event.cmd.amount
                         [] k = m.selectorSlot     -> CHOOSE c \in ChoicesFor(m, moved) : TRUE
                         [] k = m.counterpartySlot -> Head(others).partyId
                         [] k = m.objectIdSlot     -> moved.objectId
                         [] OTHER                  -> event.related
<1>5. answers = [k \in all |-> value(k)]
  BY <1>1, <1>2, <1>3, <1>4 DEF Restated
<1>6. "amount" \in all
  BY <1>3, <1>4 DEF Absent
<1>7. ASSUME NEW key \in all, key \in SlotKeys(s), key = m.relatedEventSlot
      PROVE  key # "amount" /\ value(key) # None
  <2>1. key \notin {m.selectorSlot, m.objectIdSlot, m.counterpartySlot, "amount"}
    BY <1>1, <1>7, RelatedIs
  <2>2. event.related # None
    BY <1>3, <1>4, <1>7, <2>1
  <2> QED BY <1>7, <2>1, <2>2
<1> HIDE DEF value
<1>8. PICK batch : batch = [answers EXCEPT !.amount = corrected]
  OBVIOUS
<1>9. /\ DOMAIN batch = all /\ batch["amount"] = corrected
      /\ \A key \in all : key # "amount" => batch[key] = value(key)
  BY <1>5, <1>6, <1>8
<1> QED BY <1>1, <1>7, <1>8, <1>9 DEF Sane

-----------------------------------------------------------------------------
(* What is posted and what is recorded stays well formed. *)

\* A request goes on being what it is, or is well formed anew.
LEMMA LegalKept ==
    ASSUME LegalInv, UNCHANGED book,
           \A i \in DOMAIN intents' : Confirmable(intents'[i]),
           \A h \in Calls : LegalCall(call'[h]),
           \A w \in Writers :
              \/ request'[w].pc = "free"
              \/ /\ request[w].pc # "free"
                 /\ request'[w].cmd = request[w].cmd /\ request'[w].related = request[w].related
              \/ WellFormed(request'[w].cmd, request'[w].related)
    PROVE  LegalInv'
<1>1. \A w \in Writers : request'[w].pc # "free" => WellFormed(request'[w].cmd, request'[w].related)
  BY DEF LegalInv
<1>2. \A e \in Ids(book)' : book'[e].cmd.amount \in Nat
  BY DEF LegalInv, Ids
<1> QED BY <1>1, <1>2 DEF LegalInv

LEMMA LedgerLegal ==
    ASSUME SubmitInv, LegalInv, NEW w \in Writers, NEW q, NEW r, LedgerMoves(w, q, r)
    PROVE  LegalInv'
<1>0. Shapes
  BY DEF SubmitInv
<1>1. /\ UNCHANGED <<intents, call>> /\ request'[w] = q
      /\ \A v \in Writers : v # w => request'[v] = request[v]
  BY <1>0 DEF Shapes, Table, LedgerMoves
<1>2. q.pc # "free" => WellFormed(q.cmd, q.related)
  <2>1. CASE Carried(w, q, r)
    BY <2>1 DEF LegalInv, Carried
  <2>2. CASE TakenUp(w, q, r)
    <3>1. q.cmd \in Commands
      BY <2>2 DEF TakenUp
    <3> QED BY <3>1, BookAssumption, SubmissionAssumption DEF WellFormed
  <2>3. CASE Forgotten(w, q)
    BY <2>3, FreeIs DEF Forgotten
  <2> QED BY <2>1, <2>2, <2>3 DEF LedgerMoves
<1>3. \A v \in Writers : request'[v].pc # "free" => WellFormed(request'[v].cmd, request'[v].related)
  BY <1>1, <1>2 DEF LegalInv
<1>4. ASSUME NEW e \in Ids(book)' PROVE book'[e].cmd.amount \in Nat
  <2>1. CASE UNCHANGED book
    BY <1>4, <2>1 DEF LegalInv, Ids
  <2>2. ASSUME NEW x, Joined(x), x.cmd = q.cmd, q.pc = "done" PROVE book'[e].cmd.amount \in Nat
    BY <1>2, <1>4, <2>2 DEF LegalInv, Joined, WellFormed
  <2> QED BY <2>1, <2>2 DEF LedgerMoves, Carried, TakenUp, Forgotten
<1>5. /\ \A i \in DOMAIN intents' : Confirmable(intents'[i])
      /\ \A h \in Calls : LegalCall(call'[h])
  BY <1>1 DEF LegalInv
<1> QED BY <1>3, <1>4, <1>5 DEF LegalInv

LEMMA ReleaseLegal ==
    ASSUME SubmitInv, LegalInv, NEW h \in Calls, NEW w \in Writers, NEW q, NEW r, NEW c,
           Releases(h, w, q, r, c), \A i \in DOMAIN intents' : Confirmable(intents'[i])
    PROVE  LegalInv'
<1>0. Shapes /\ Lines
  BY DEF SubmitInv
<1>1. /\ \A v \in Writers : v # w => request'[v] = request[v]
      /\ \A g \in Calls : g # h => call'[g] = call[g]
      /\ request'[w] = q /\ call'[h] = c /\ UNCHANGED book
  BY <1>0 DEF Shapes, Table, Releases
<1>2. LegalCall(c)
  BY DEF LegalInv, LegalCall, Releases
<1>3. \A g \in Calls : LegalCall(call'[g])
  BY <1>1, <1>2 DEF LegalInv
<1>4. \A v \in Writers :
         \/ request'[v].pc = "free"
         \/ /\ request[v].pc # "free"
            /\ request'[v].cmd = request[v].cmd /\ request'[v].related = request[v].related
  <2>1. request[w].pc # "free"
    BY <1>0, SubmissionAssumption DEF Lines, Answerable, Releases
  <2> QED BY <1>1, <2>1, FreeIs DEF Releases
<1> QED BY <1>1, <1>3, <1>4, LegalKept

LEMMA ReceiveLegal ==
    ASSUME SubmitInv, LegalInv, NEW h \in Calls, Receive(h)
    PROVE  LegalInv'
<1>0. Shapes /\ CallsHold
  BY DEF SubmitInv
<1>1. PICK w \in Writers : \E x, c : Answered(h, w, x, c)
  BY <1>0, ReceiveAnswers
<1>2. PICK x, c : Answered(h, w, x, c)
  BY <1>1
<1>3. PICK i : i = call[h].intent /\ i \in DOMAIN intents /\ intents' = [intents EXCEPT ![i] = x]
  BY <1>2 DEF Answered
<1>4. Confirmable(x)
  <2>1. PICK k : k = call[h] /\ LegalCall(k) /\ k.pc = "posted" /\ DOMAIN k.copy = IntentFields
    BY <1>0, <1>2 DEF LegalInv, Answered, CallsHold, CallHolds
  <2>2. PICK copy, answer : copy = k.copy /\ answer = writer[w].answer
    OBVIOUS
  <2>3. x = Disposed(copy, answer) /\ DOMAIN copy = IntentFields /\ LegalIntent(copy)
    BY <1>2, <2>1, <2>2 DEF Answered, LegalCall
  <2>4. x.scenario = copy.scenario /\ x.answers = copy.answers /\ x.status # "awaiting_confirmation"
    BY <2>3, DisposedIs
  <2> QED BY <2>3, <2>4 DEF Confirmable, LegalIntent
<1>5. \A j \in DOMAIN intents' : Confirmable(intents'[j])
  BY <1>3, <1>4 DEF LegalInv
<1>6. Releases(h, w, Free, Idle, c)
  BY <1>2 DEF Answered
<1> QED BY <1>5, <1>6, ReleaseLegal

LEMMA TimeoutLegal ==
    ASSUME SubmitInv, LegalInv, NEW h \in Calls, Timeout(h)
    PROVE  LegalInv'
<1>0. Shapes /\ CallsHold /\ RequestsHold
  BY DEF SubmitInv
<1>1. PICK w \in Writers : \E q : GivesUp(h, w, q)
  BY <1>0, TimeoutGivesUp
<1>2. PICK q : GivesUp(h, w, q)
  BY <1>1
<1>3. PICK r : r = writer[w]
  OBVIOUS
<1>4. Releases(h, w, q, r, Quiet) /\ UNCHANGED intents
  BY <1>2, <1>3 DEF GivesUp
<1> QED BY <1>4, ReleaseLegal DEF LegalInv

LEMMA RestartLegal ==
    ASSUME SubmitInv, LegalInv, LedgerRestarts \/ TreasuryRestarts
    PROVE  LegalInv'
<1>0. Shapes
  BY DEF SubmitInv
<1>1. LegalCall(Quiet)
  BY FreeIs DEF LegalCall
<1>2. CASE LedgerRestarts
  <2>1. UNCHANGED <<book, intents>> /\ request' = [w \in Writers |-> Free]
    BY <1>2 DEF LedgerRestarts
  <2>2. ASSUME NEW h \in Calls PROVE LegalCall(call'[h])
    <3>1. call'[h] = Quiet \/ call'[h] = call[h]
      BY <1>2 DEF LedgerRestarts
    <3> QED BY <1>1, <3>1 DEF LegalInv
  <2> QED BY <2>1, <2>2, FreeIs, LegalKept DEF LegalInv
<1>3. CASE TreasuryRestarts
  <2>1. /\ UNCHANGED book /\ DOMAIN intents' = {}
        /\ call' = [h \in Calls |-> Quiet]
        /\ request' = [w \in Writers |-> [request[w] EXCEPT !.caller = Nobody]]
    <3>1. PICK none : none = <<>> /\ DOMAIN none = {}
      OBVIOUS
    <3>2. intents' = none
      BY <1>3, <3>1 DEF TreasuryRestarts
    <3>3. /\ UNCHANGED book /\ call' = [h \in Calls |-> Quiet]
          /\ request' = [w \in Writers |-> [request[w] EXCEPT !.caller = Nobody]]
      BY <1>3 DEF TreasuryRestarts
    <3> QED BY <3>1, <3>2, <3>3
  <2>2. ASSUME NEW w \in Writers
        PROVE  /\ request'[w].pc = request[w].pc /\ request'[w].cmd = request[w].cmd
               /\ request'[w].related = request[w].related
    <3>1. PICK l : l = request[w] /\ DOMAIN l = RequestFields
      BY <1>0 DEF Shapes, Table
    <3> DEFINE p == [l EXCEPT !.caller = Nobody]
    <3>2. p.pc = l.pc /\ p.cmd = l.cmd /\ p.related = l.related
      BY <3>1 DEF RequestFields
    <3>3. request'[w] = p
      BY <2>1, <3>1
    <3> HIDE DEF p
    <3> QED BY <3>1, <3>2, <3>3
  <2>3. /\ \A h \in Calls : LegalCall(call'[h])
        /\ \A i \in DOMAIN intents' : Confirmable(intents'[i])
    BY <1>1, <2>1
  <2>4. \A w \in Writers :
           \/ request'[w].pc = "free"
           \/ /\ request[w].pc # "free"
              /\ request'[w].cmd = request[w].cmd /\ request'[w].related = request[w].related
    BY <2>2
  <2> QED BY <2>1, <2>3, <2>4, LegalKept
<1> QED BY <1>2, <1>3

-----------------------------------------------------------------------------
(* The steps of a conversation. *)

LEMMA SpeaksLegal ==
    ASSUME LegalInv, Speaks, \A i \in DOMAIN intents' : Confirmable(intents'[i])
    PROVE  LegalInv'
<1>1. UNCHANGED <<book, call, request>>
  BY DEF Speaks
<1>2. \A h \in Calls : LegalCall(call'[h])
  BY <1>1 DEF LegalInv
<1>3. \A w \in Writers :
         \/ request'[w].pc = "free"
         \/ /\ request[w].pc # "free"
            /\ request'[w].cmd = request[w].cmd /\ request'[w].related = request[w].related
  BY <1>1
<1> QED BY <1>1, <1>2, <1>3, LegalKept

LEMMA AnswersLegal ==
    ASSUME SubmitInv, LegalInv, Speaks, Current # NoPlan, NEW batch, Sane(Current.scenario, batch), NEW mode,
           intents' = [intents EXCEPT ![tab.intent] = Applied(intents[tab.intent], batch, mode)]
    PROVE  LegalInv'
<1>1. PICK i : i = tab.intent /\ i \in DOMAIN intents /\ Current = intents[i]
  BY CurrentIs
<1>2. PICK x : x = intents[i] /\ DOMAIN x = IntentFields /\ Confirmable(x)
  BY <1>1 DEF SubmitInv, Shapes, Table, LegalInv
<1>3. PICK n : n = Applied(x, batch, mode)
  OBVIOUS
<1>4. Confirmable(n)
  BY <1>1, <1>2, <1>3, AppliedLegal
<1>5. intents' = [intents EXCEPT ![i] = n]
  BY <1>1, <1>2, <1>3
<1>6. \A j \in DOMAIN intents' : Confirmable(intents'[j])
  BY <1>4, <1>5 DEF LegalInv
<1> QED BY <1>6, SpeaksLegal

LEMMA TalkLegal ==
    ASSUME SubmitInv, LegalInv, Converse \/ SelectPosition \/ Edit \/ Correct \/ Restart
    PROVE  LegalInv'
<1>0. Speaks /\ book \in Seq(Range(book))
  BY TalkSpeaks DEF SubmitInv, Shapes
<1>1. ASSUME NEW batch, NEW mode, Current # NoPlan, Merge(batch, mode), Sane(Current.scenario, batch)
      PROVE  LegalInv'
  BY <1>0, <1>1, AnswersLegal DEF Merge
<1>2. ASSUME Current # NoPlan
      PROVE  Current.scenario \in ScenarioIds
  BY <1>2, CurrentIs DEF LegalInv, Confirmable, LegalIntent
<1>3. CASE Converse
  <2>1. PICK s, answers : s = Current.scenario /\ answers = Current.answers
    OBVIOUS
  <2>2. PICK open : open = {key \in SlotKeys(s) : ~Filled(answers, key)}
    OBVIOUS
  <2>3. /\ Current # NoPlan /\ ~Ready(s, answers)
        /\ \E keys \in {{Question(s, answers)}, open} :
              \E batch \in Batches(s, keys) : Merge(batch, "fill")
    BY <1>3, <2>1, <2>2 DEF Converse
  <2>4. PICK keys \in {{Question(s, answers)}, open} : \E batch \in Batches(s, keys) : Merge(batch, "fill")
    BY <2>3
  <2>5. PICK batch \in Batches(s, keys) : Merge(batch, "fill")
    BY <2>4
  <2>6. s \in ScenarioIds
    BY <1>2, <2>1, <2>3
  <2>7. keys \subseteq SlotKeys(s)
    <3>1. Question(s, answers) \in SlotKeys(s)
      BY <2>3, <2>6, QuestionBlank
    <3> QED BY <2>2, <2>4, <3>1
  <2>8. Sane(s, batch)
    BY <1>0, <2>5, <2>6, <2>7, BatchesSane
  <2> QED BY <1>1, <2>1, <2>3, <2>5, <2>8
<1>4. CASE SelectPosition
  <2>1. PICK s, answers : s = Current.scenario /\ answers = Current.answers
    OBVIOUS
  <2>2. /\ Current # NoPlan
        /\ \E p \in offerablePositions(s, answers) : Merge(positionAnswers(MapOf(s), p[1]), "fill")
    BY <1>4, <2>1 DEF SelectPosition
  <2>3. PICK p \in offerablePositions(s, answers) : Merge(positionAnswers(MapOf(s), p[1]), "fill")
    BY <2>2
  <2>4. PICK object : object = p[1]
    OBVIOUS
  <2>5. PICK batch : batch = positionAnswers(MapOf(s), object)
    OBVIOUS
  <2>6. Sane(s, batch)
    BY <1>0, <1>2, <2>1, <2>2, <2>5, PointedSane
  <2> QED BY <1>1, <2>1, <2>2, <2>3, <2>4, <2>5, <2>6
<1>5. CASE Edit
  <2>1. PICK key \in Editable : \E batch \in Batches(Current.scenario, {key}) : Merge(batch, "edit")
    BY <1>5 DEF Edit
  <2>2. PICK s, keys : s = Current.scenario /\ keys = {key}
    OBVIOUS
  <2>3. PICK batch \in Batches(s, keys) : Merge(batch, "edit")
    BY <2>1, <2>2
  <2>4. Current # NoPlan
    BY <1>5 DEF Edit
  <2>5. s \in ScenarioIds /\ keys \subseteq SlotKeys(s)
    BY <1>2, <2>1, <2>2, <2>4 DEF Editable
  <2>6. Sane(s, batch)
    BY <1>0, <2>3, <2>5, BatchesSane
  <2> QED BY <1>1, <2>2, <2>3, <2>4, <2>6
<1>6. CASE Correct
  <2>1. PICK keys \in SUBSET CorrectionCard : \E batch \in Batches(Current.scenario, keys) :
          /\ intents' = [intents EXCEPT ![tab.intent] = Applied(@, batch, "edit")]
          /\ tab' = IF Recordable(Current.scenario, Current.answers, batch, "edit") = keys
                     THEN Shown(intents'[tab.intent]) ELSE tab
    BY <1>6 DEF Correct
  <2>2. PICK s : s = Current.scenario
    OBVIOUS
  <2>3. PICK batch \in Batches(s, keys) :
          intents' = [intents EXCEPT ![tab.intent] = Applied(intents[tab.intent], batch, "edit")]
    BY <2>1, <2>2
  <2>4. Current # NoPlan
    BY <1>6 DEF Correct
  <2>5. s \in ScenarioIds /\ keys \subseteq SlotKeys(s)
    BY <1>2, <2>1, <2>2, <2>4 DEF CorrectionCard, Editable
  <2>6. Sane(s, batch)
    BY <1>0, <2>3, <2>5, BatchesSane
  <2> QED BY <1>0, <2>2, <2>3, <2>4, <2>6, AnswersLegal
<1>7. CASE Restart
  BY <1>0, <1>7, SpeaksLegal DEF Restart, LegalInv
<1> QED BY <1>3, <1>4, <1>5, <1>6, <1>7

-----------------------------------------------------------------------------
(* A fresh intent. *)

LEMMA JoinsLegal ==
    ASSUME LegalInv, NEW x, NEW subject, Joins(x, subject), Confirmable(x)
    PROVE  \A i \in DOMAIN intents' : Confirmable(intents'[i])
BY DEF LegalInv, Joins, Table

LEMMA OpenLegal ==
    ASSUME SubmitInv, LegalInv, UNCHANGED <<book, call, request>>,
           NEW x, DOMAIN x = IntentFields, NEW subject, Issue(x, subject), Confirmable(x)
    PROVE  LegalInv'
<1>1. Joins(x, subject)
  BY IssueJoins DEF SubmitInv
<1>2. \A i \in DOMAIN intents' : Confirmable(intents'[i])
  BY <1>1, JoinsLegal
<1>3. /\ \A h \in Calls : LegalCall(call'[h])
      /\ \A w \in Writers :
            \/ request'[w].pc = "free"
            \/ /\ request[w].pc # "free"
               /\ request'[w].cmd = request[w].cmd /\ request'[w].related = request[w].related
  BY DEF LegalInv
<1> QED BY <1>2, <1>3, LegalKept

LEMMA SelectLegal ==
    ASSUME SubmitInv, LegalInv, NEW s \in Offered, SelectScenario(s)
    PROVE  LegalInv'
<1>1. PICK x, subject : x = Started(s) /\ subject = Anything
  OBVIOUS
<1>2. DOMAIN x = IntentFields /\ Confirmable(x)
  BY <1>1, StartedIs, StartedLegal, SubmissionAssumption
<1>3. UNCHANGED <<book, call, request>> /\ Issue(x, subject)
  BY <1>1 DEF SelectScenario
<1> QED BY <1>2, <1>3, OpenLegal

LEMMA StartLegal ==
    ASSUME SubmitInv, LegalInv, NEW p, StartFromPosition(p[1], p[2])
    PROVE  LegalInv'
<1>1. PICK object, objectType : object = p[1] /\ objectType = p[2]
  OBVIOUS
<1>2. PICK action \in PositionActions(objectType) :
         LET intent == Applied(Started(action.scenario), Prefill(object, action), "fill") IN
         Issue(intent, [Anything EXCEPT !.position = object,
                                        !.origin = RelatedTo(MapOf(action.scenario), intent.answers)])
  BY <1>1 DEF StartFromPosition
<1>3. PICK s, z, batch : s = action.scenario /\ z = Started(s) /\ batch = Prefill(object, action)
  OBVIOUS
<1>4. PICK x : x = Applied(z, batch, "fill")
  OBVIOUS
<1>5. PICK subject : subject = [Anything EXCEPT !.position = object,
                                                !.origin = RelatedTo(MapOf(s), x.answers)]
  OBVIOUS
<1>6. Issue(x, subject) /\ UNCHANGED <<book, call, request>>
  BY <1>1, <1>2, <1>3, <1>4, <1>5 DEF StartFromPosition
<1>7. DOMAIN x = IntentFields /\ Confirmable(x)
  <2>1. s \in ScenarioIds /\ book \in Seq(Range(book))
    BY <1>3, ActionScenario DEF SubmitInv, Shapes
  <2>2. DOMAIN z = IntentFields /\ z.scenario = s /\ Confirmable(z)
    BY <1>3, <2>1, StartedIs, StartedLegal
  <2>3. Sane(s, batch)
    BY <1>3, <2>1, PrefillSane
  <2> QED BY <1>4, <2>2, <2>3, AppliedIs, AppliedLegal
<1> QED BY <1>6, <1>7, OpenLegal

-----------------------------------------------------------------------------
(* A submission is posted: nothing is missing from it, so its candidate is well formed. *)

Followed(plan) == plan # NoPlan => plan.scenario \in ScenarioIds /\ Sane(plan.scenario, plan.answers)

LEMMA PostLegal ==
    ASSUME SubmitInv, LegalInv, UNCHANGED book, \A j \in DOMAIN intents' : Confirmable(intents'[j]),
           NEW h \in Calls, NEW w \in Writers, NEW i, NEW x, LegalIntent(x), Ready(x.scenario, x.answers),
           NEW plan, Followed(plan), NEW q, NEW c, Posts(h, w, i, x, plan, q, c)
    PROVE  LegalInv'
<1>1. /\ \A v \in Writers : v # w => request'[v] = request[v]
      /\ \A g \in Calls : g # h => call'[g] = call[g]
      /\ request'[w] = q /\ call'[h] = c
  BY DEF SubmitInv, Shapes, Table, Posts
<1>2. WellFormed(q.cmd, q.related)
  BY CandidateValid DEF Posts
<1>3. LegalCall(c)
  BY DEF Posts, LegalCall, LegalIntent, Followed
<1>4. \A g \in Calls : LegalCall(call'[g])
  BY <1>1, <1>3 DEF LegalInv
<1>5. \A v \in Writers :
         \/ request'[v].pc = "free"
         \/ /\ request[v].pc # "free"
            /\ request'[v].cmd = request[v].cmd /\ request'[v].related = request[v].related
         \/ WellFormed(request'[v].cmd, request'[v].related)
  BY <1>1, <1>2
<1> QED BY <1>4, <1>5, LegalKept

LEMMA ConfirmLegal ==
    ASSUME SubmitInv, LegalInv, NEW h \in Calls, Confirm(h)
    PROVE  LegalInv'
<1>1. UNCHANGED <<book, intents>>
  BY DEF Confirm
<1>2. \A j \in DOMAIN intents' : Confirmable(intents'[j])
  BY <1>1 DEF LegalInv
<1>3. CASE UNCHANGED <<call, request>>
  <2>1. /\ \A g \in Calls : LegalCall(call'[g])
        /\ \A w \in Writers :
              \/ request'[w].pc = "free"
              \/ /\ request[w].pc # "free"
                 /\ request'[w].cmd = request[w].cmd /\ request'[w].related = request[w].related
    BY <1>3 DEF LegalInv
  <2> QED BY <1>1, <1>2, <2>1, LegalKept
<1>4. CASE /\ Current # NoPlan /\ Current.status = "awaiting_confirmation"
           /\ Post(h, tab.intent, Current, NoPlan, TRUE)
  <2>1. PICK i, x : i = tab.intent /\ x = Current /\ i \in DOMAIN intents /\ x = intents[i]
    BY <1>4, CurrentIs
  <2>2. DOMAIN x = IntentFields /\ LegalIntent(x) /\ Ready(x.scenario, x.answers)
    BY <1>4, <2>1 DEF SubmitInv, Shapes, Table, LegalInv, Confirmable
  <2>3. PICK w \in Writers : \E q, c : Posts(h, w, i, x, NoPlan, q, c)
    BY <1>4, <2>1, <2>2, PostPosts
  <2>4. PICK q, c : Posts(h, w, i, x, NoPlan, q, c)
    BY <2>3
  <2>5. PICK plan : plan = NoPlan /\ Followed(plan)
    BY DEF Followed
  <2> QED BY <1>1, <1>2, <2>2, <2>4, <2>5, PostLegal
<1> QED BY <1>3, <1>4 DEF Confirm

\* A handler issues an intent, and posts it if nothing is missing from it.
LEMMA IssuedLegal ==
    ASSUME SubmitInv, LegalInv, NEW h \in Calls, UNCHANGED book, NEW i,
           NEW x, DOMAIN x = IntentFields, NEW subject, Issue(x, subject), Confirmable(x),
           NEW plan, Followed(plan), PostIfReady(h, i, x, plan)
    PROVE  LegalInv'
<1>1. Joins(x, subject)
  BY IssueJoins DEF SubmitInv
<1>2. \A j \in DOMAIN intents' : Confirmable(intents'[j])
  BY <1>1, JoinsLegal
<1>3. CASE Ready(x.scenario, x.answers) /\ Post(h, i, x, plan, FALSE)
  <2>1. PICK w \in Writers : \E q, c : Posts(h, w, i, x, plan, q, c)
    BY <1>3, PostPosts
  <2>2. PICK q, c : Posts(h, w, i, x, plan, q, c)
    BY <2>1
  <2> QED BY <1>2, <1>3, <2>2, PostLegal DEF Confirmable
<1>4. CASE call' = [call EXCEPT ![h] = Quiet] /\ UNCHANGED request
  <2>1. LegalCall(Quiet)
    BY FreeIs DEF LegalCall
  <2>2. /\ \A g \in Calls : LegalCall(call'[g])
        /\ \A w \in Writers :
              \/ request'[w].pc = "free"
              \/ /\ request[w].pc # "free"
                 /\ request'[w].cmd = request[w].cmd /\ request'[w].related = request[w].related
    BY <1>4, <2>1 DEF SubmitInv, Shapes, Table, LegalInv
  <2> QED BY <1>2, <2>2, LegalKept
<1> QED BY <1>3, <1>4 DEF PostIfReady

LEMMA RectifyLegal ==
    ASSUME SubmitInv, LegalInv, NEW h \in Calls, NEW target \in Ids(book), NEW corrected \in Correcting,
           Rectify(h, target, corrected)
    PROVE  LegalInv'
<1>0. book \in Seq(Range(book))
  BY DEF SubmitInv, Shapes
<1>1. PICK s, batch : s = Started("register_rectification") /\ batch = Withdrawal(target, corrected # NoPlan)
  OBVIOUS
<1>2. PICK x : x = Applied(s, batch, "fill")
  OBVIOUS
<1>3. PICK event : event = book[target]
  OBVIOUS
<1>4. PICK scenario, amended : /\ scenario = planReissue(event).scenario
                               /\ amended = [planReissue(event).answers EXCEPT !.amount = corrected]
  OBVIOUS
<1>5. PICK p : p = IF corrected = NoPlan THEN NoPlan
                   ELSE [target |-> target, scenario |-> scenario, answers |-> amended]
  OBVIOUS
<1>6. PICK subject : subject = Anything
  OBVIOUS
<1>7. /\ Issue(x, subject) /\ PostIfReady(h, issued', x, p) /\ UNCHANGED book
      /\ corrected # NoPlan => planReissue(event).reissuable
  BY <1>1, <1>2, <1>3, <1>4, <1>5, <1>6 DEF Rectify
<1>8. DOMAIN x = IntentFields /\ Confirmable(x)
  <2>1. "register_rectification" \in ScenarioIds
    BY DEF ScenarioIds, REGISTRY
  <2>2. DOMAIN s = IntentFields /\ s.scenario = "register_rectification" /\ Confirmable(s)
    BY <1>1, <2>1, StartedIs, StartedLegal
  <2>3. PICK restated : restated = (corrected # NoPlan)
    OBVIOUS
  <2>4. Sane("register_rectification", batch)
    BY <1>0, <1>1, <2>3, WithdrawalSane DEF LegalInv
  <2> QED BY <1>2, <2>2, <2>4, AppliedIs, AppliedLegal
<1>9. Followed(p)
  <2>1. ASSUME corrected # NoPlan PROVE scenario \in ScenarioIds /\ Sane(scenario, amended)
    <3>1. scenario \in ScenarioIds /\ planReissue(event).answers = Restated(MapOf(scenario), event)
      BY <1>4, <1>7, <2>1, ReissueScenario, ReissueAnswers
    <3>2. corrected \in Nat
      BY <2>1, SubmissionAssumption
    <3> QED BY <1>4, <3>1, <3>2, RestatedSane
  <2> QED BY <1>5, <2>1 DEF Followed
<1>10. PICK i : i = issued'
  OBVIOUS
<1> QED BY <1>7, <1>8, <1>9, <1>10, IssuedLegal

LEMMA ReissueLegal ==
    ASSUME SubmitInv, LegalInv, NEW h \in Calls, Reissue(h)
    PROVE  LegalInv'
<1>1. PICK plan : plan = call[h].plan /\ plan.scenario \in ScenarioIds /\ Sane(plan.scenario, plan.answers)
  BY DEF Reissue, SubmitInv, CallsHold, CallHolds, LegalInv, LegalCall
<1>2. PICK s, batch : s = Started(plan.scenario) /\ batch = plan.answers
  OBVIOUS
<1>3. PICK x : x = Applied(s, batch, "fill")
  OBVIOUS
<1>4. PICK subject : subject = [Anything EXCEPT !.entry = plan.target]
  OBVIOUS
<1>5. PICK i, none : i = issued' /\ none = NoPlan /\ Followed(none)
  BY DEF Followed
<1>6. Issue(x, subject) /\ PostIfReady(h, i, x, none) /\ UNCHANGED book
  BY <1>1, <1>2, <1>3, <1>4, <1>5 DEF Reissue
<1>7. DOMAIN x = IntentFields /\ Confirmable(x)
  <2>1. DOMAIN s = IntentFields /\ s.scenario = plan.scenario /\ Confirmable(s)
    BY <1>1, <1>2, StartedIs, StartedLegal
  <2> QED BY <1>1, <1>2, <1>3, <2>1, AppliedIs, AppliedLegal
<1> QED BY <1>5, <1>6, <1>7, IssuedLegal

-----------------------------------------------------------------------------
LEMMA LegalStarts ==
    ASSUME SubInit
    PROVE  LegalInv
<1>1. /\ book = <<>> /\ request = [w \in Writers |-> Free] /\ call = [h \in Calls |-> Quiet]
      /\ intents = <<>>
  BY DEF SubInit, Init
<1>2. DOMAIN intents = {} /\ Ids(book) = {}
  BY <1>1 DEF Ids
<1>3. \A h \in Calls : LegalCall(call[h])
  BY <1>1, FreeIs DEF LegalCall
<1>4. \A w \in Writers : request[w].pc = "free"
  BY <1>1, FreeIs
<1> QED BY <1>2, <1>3, <1>4 DEF LegalInv

LEMMA LegalStep ==
    ASSUME SubmitInv, LegalInv, [SubNext]_allvars
    PROVE  LegalInv'
<1>1. CASE UNCHANGED allvars
  BY <1>1 DEF allvars, subvars, LegalInv, Ids
<1>2. CASE Operator
  <2>1. CASE Converse \/ SelectPosition \/ Edit \/ Correct \/ Restart
    BY <2>1, TalkLegal
  <2>2. CASE \E s \in Offered : SelectScenario(s)
    BY <2>2, SelectLegal
  <2>3. CASE \E p \in Positions : StartFromPosition(p[1], p[2])
    BY <2>3, StartLegal
  <2>4. CASE \E h \in Calls : Confirm(h)
    BY <2>4, ConfirmLegal
  <2>5. CASE \E h \in Calls, target \in Ids(book), corrected \in Correcting : Rectify(h, target, corrected)
    BY <2>5, RectifyLegal
  <2> QED BY <1>2, <2>1, <2>2, <2>3, <2>4, <2>5 DEF Operator
<1>3. CASE \E h \in Calls : Treasury(h) \/ Timeout(h)
  BY <1>3, ReceiveLegal, ReissueLegal, TimeoutLegal DEF Treasury
<1>4. CASE \E w \in Writers : Ledger(w) \/ (\E c \in Commands : Stage(w, c))
  <2>1. PICK w \in Writers : Ledger(w) \/ (\E c \in Commands : Stage(w, c))
    BY <1>4
  <2>2. PICK q, r : LedgerMoves(w, q, r)
    BY <2>1, LedgerStepMoves DEF SubmitInv
  <2> QED BY <2>2, LedgerLegal
<1>5. CASE LedgerRestarts \/ TreasuryRestarts
  BY <1>5, RestartLegal
<1> QED BY <1>1, <1>2, <1>3, <1>4, <1>5 DEF SubNext

\* CandidatesWellFormed: whatever an operator answers, edits or corrects, from whatever position
\* an operation is opened, and for every rectification and restatement, what the treasury posts
\* keeps every rule of the ledger's contracts and matrices (CandidateMapper, "the sole authority
\* over the tuple").
THEOREM CandidatesAlwaysWellFormed == SubSpec => []CandidatesWellFormed
<1>1. SubInit => SubmitInv /\ LegalInv
  BY SubmitStarts, LegalStarts
<1>2. SubmitInv /\ LegalInv /\ [SubNext]_allvars => (SubmitInv /\ LegalInv)'
  BY SubmitStep, LegalStep
<1>3. LegalInv => CandidatesWellFormed
  BY DEF LegalInv, WellFormed, CandidatesWellFormed
<1> QED BY <1>1, <1>2, <1>3, PTL DEF SubSpec
=============================================================================
