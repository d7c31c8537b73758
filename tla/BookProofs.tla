----------------------------- MODULE BookProofs -----------------------------
(***************************************************************************)
(* Theorems about Book, for any commands, any bounds and (but for the last *)
(* section) any number of writers.                                         *)
(***************************************************************************)
EXTENDS Book, TLAPS, FiniteSetTheorems, WellFoundedInduction

(* Types. *)

\* The answers execute() can give have the type of an answer.
LEMMA AnswerTypes ==
    /\ NoAnswer \in Answers
    /\ \A id \in 0..MaxEvents : Accepted(id) \in Answers
    /\ \A why \in Errors : Refused(why) \in Answers
BY BookAssumption DEF NoAnswer, Accepted, Refused, Answers, Errors, None

\* The locals of a call outside the conservation loop are typed.
LEMMA FreshType ==
    ASSUME NEW pc \in Labels, NEW c \in Commands \cup {NoCommand}, NEW target \in 0..UnknownId,
           NEW answer \in Answers
    PROVE  Fresh(pc, c, target, answer) \in Locals
BY BookAssumption DEF Fresh, Locals, None

\* One writer's locals change to r, and r is what a running call may hold.
LEMMA OneWriterMoves ==
    ASSUME LocalsOK, NEW w \in Writers, NEW r \in Locals,
           writer' = [writer EXCEPT ![w] = r],
           r.pc # "idle" => r.cmd \in Commands,
           r.pc = "conserve" => /\ r.object \in DOMAIN r.cmd.objects
                                /\ r.cmd.objects[r.object].relation = "SETTLES"
    PROVE  LocalsOK'
BY DEF LocalsOK

\* Moving to a label keeps the locals typed.
LEMMA GotoType ==
    ASSUME LocalsOK, NEW w \in Writers, writer[w].cmd \in Commands,
           NEW label \in Labels \ {"conserve"}, Goto(w, label)
    PROVE  LocalsOK'
<1>1. [writer[w] EXCEPT !.pc = label] \in Locals
  BY DEF LocalsOK, Locals
<1>2. writer' = [writer EXCEPT ![w] = [writer[w] EXCEPT !.pc = label]]
  BY DEF LocalsOK, Goto
<1>3. writer[w] \in Locals
  BY DEF LocalsOK
<1> QED BY <1>1, <1>2, <1>3, OneWriterMoves DEF Locals

\* Answering keeps the locals typed.
LEMMA AnswerType ==
    ASSUME LocalsOK, NEW w \in Writers, writer[w].cmd \in Commands,
           NEW answer \in Answers, Answer(w, answer)
    PROVE  LocalsOK'
<1> DEFINE r == Fresh("answered", writer[w].cmd, writer[w].related, answer)
<1>1. writer[w] \in Locals
  BY DEF LocalsOK
<1>2. r \in Locals
  BY <1>1, FreshType DEF Locals, Labels
<1>3. writer' = [writer EXCEPT ![w] = r]
  BY DEF LocalsOK, Answer
<1>4. r.pc = "answered" /\ r.cmd = writer[w].cmd
  BY DEF Fresh
<1> HIDE DEF r
<1> QED BY <1>2, <1>3, <1>4, OneWriterMoves

\* Going on to the conservation loop keeps the locals typed.
LEMMA ToConservationType ==
    ASSUME LocalsOK, NEW w \in Writers, writer[w].cmd \in Commands,
           NEW k, ToConservation(w, k)
    PROVE  LocalsOK'
<1>1. CASE Goto(w, "lastHash")
  BY <1>1, GotoType DEF Labels
<1>2. ASSUME NEW j \in Settlements(writer[w].cmd, k),
             writer' = [writer EXCEPT ![w].pc = "conserve", ![w].object = j]
      PROVE  LocalsOK'
  <2> DEFINE r == [writer[w] EXCEPT !.pc = "conserve", !.object = j]
  <2>1. /\ j \in Nat
        /\ j \in DOMAIN writer[w].cmd.objects
        /\ writer[w].cmd.objects[j].relation = "SETTLES"
    BY BookAssumption DEF Settlements
  <2>2. writer[w] \in Locals
    BY DEF LocalsOK
  <2>3. r \in Locals
    BY <2>1, <2>2 DEF Locals, Labels
  <2>4. writer' = [writer EXCEPT ![w] = r]
    BY <1>2 DEF LocalsOK
  <2>5. r.cmd = writer[w].cmd /\ r.object = j
    BY <2>2 DEF Locals
  <2> HIDE DEF r
  <2> QED BY <2>1, <2>3, <2>4, <2>5, OneWriterMoves
<1> QED BY <1>1, <1>2 DEF ToConservation

\* A save that changes the book adds one typed event to it.
LEMMA SaveType ==
    ASSUME TypeOK, NEW w \in Writers, Save(w), SameKey(writer[w].cmd) = {}
    PROVE  /\ NewEvent(w) \in Events
           /\ book' = Append(book, NewEvent(w))
           /\ Len(book) < MaxEvents
           /\ Answer(w, Accepted(Len(book) + 1))
<1>1. writer[w] \in Locals /\ writer[w].cmd \in Commands
  BY DEF Save, TypeOK, LocalsOK
<1>2. NewEvent(w) \in Events
  BY <1>1 DEF NewEvent, Events, Locals
<1> QED BY <1>2 DEF Save

\* No call is running when the process starts.
LEMMA TypeAtFirst == Init => TypeOK
<1> SUFFICES ASSUME Init PROVE TypeOK
  OBVIOUS
<1>1. Idle \in Locals
  BY FreshType, AnswerTypes, BookAssumption DEF Idle, Labels, None, UnknownId
<1>2. Idle.pc = "idle"
  BY DEF Idle, Fresh
<1>3. LocalsOK
  BY <1>1, <1>2 DEF Init, LocalsOK
<1> QED BY <1>3, BookAssumption DEF Init, TypeOK

\* Every step of execute(), and every crash, keeps the types.
LEMMA TypeKept == TypeOK /\ [Next]_vars => TypeOK'
<1> SUFFICES ASSUME TypeOK, [Next]_vars PROVE TypeOK'
  OBVIOUS
<1>a. LocalsOK /\ \A w \in Writers : writer[w] \in Locals
  BY DEF TypeOK, LocalsOK
<1>b. \A w \in Writers : writer[w].pc # "idle" => writer[w].cmd \in Commands
  BY <1>a DEF LocalsOK
<1>c. ASSUME UNCHANGED <<book, clock>>, LocalsOK' PROVE TypeOK'
  BY <1>c DEF TypeOK
<1>d. Len(book) \in Nat /\ Ids(book) \subseteq 1..MaxEvents
  BY BookAssumption DEF TypeOK, Ids
<1>1. ASSUME NEW w \in Writers, NEW c \in Commands, NEW target \in Targets,
             Begin(w, c, target)
      PROVE  TypeOK'
  <2> DEFINE r == Fresh(IF c.commandId = NoKey THEN "source" ELSE "command", c, target, NoAnswer)
  <2>1. target \in 0..UnknownId
    BY <1>d, BookAssumption DEF Targets, UnknownId, None
  <2>2. r \in Locals
    BY <2>1, FreshType, AnswerTypes DEF Labels
  <2>3. r.pc \in {"source", "command"} /\ r.cmd = c
    BY DEF Fresh
  <2>4. writer' = [writer EXCEPT ![w] = r]
    BY <1>1 DEF Begin
  <2> HIDE DEF r
  <2>5. LocalsOK'
    BY <1>a, <2>2, <2>3, <2>4, OneWriterMoves
  <2> QED BY <1>1, <1>c, <2>5 DEF Begin
<1>2. ASSUME NEW w \in Writers, LookupCommand(w) PROVE TypeOK'
  <2>1. writer[w].cmd \in Commands
    BY <1>2, <1>b DEF LookupCommand
  <2>2. \A i \in SameKey(writer[w].cmd) : Accepted(i) \in Answers
    BY <1>d, AnswerTypes DEF SameKey
  <2>3. LocalsOK'
    BY <1>2, <1>a, <2>1, <2>2, GotoType, AnswerType DEF LookupCommand, Labels
  <2> QED BY <1>2, <1>c, <2>3 DEF LookupCommand
<1>3. ASSUME NEW w \in Writers, CheckSource(w) PROVE TypeOK'
  <2>1. writer[w].cmd \in Commands
    BY <1>3, <1>b DEF CheckSource
  <2>2. Refused("duplicate source reference") \in Answers
    BY AnswerTypes DEF Errors
  <2>3. LocalsOK'
    BY <1>3, <1>a, <2>1, <2>2, GotoType, AnswerType, ToConservationType DEF CheckSource, Labels
  <2> QED BY <1>3, <1>c, <2>3 DEF CheckSource
<1>4. ASSUME NEW w \in Writers, LoadOrigin(w) PROVE TypeOK'
  <2>1. writer[w].cmd \in Commands
    BY <1>4, <1>b DEF LoadOrigin
  <2>2. Refused("origin not found") \in Answers /\ Refused("origin of the wrong type") \in Answers
    BY AnswerTypes DEF Errors
  <2>3. LocalsOK'
    BY <1>4, <1>a, <2>1, <2>2, GotoType, AnswerType, ToConservationType DEF LoadOrigin, Labels
  <2> QED BY <1>4, <1>c, <2>3 DEF LoadOrigin
<1>5. ASSUME NEW w \in Writers, CheckRetractions(w) PROVE TypeOK'
  <2>1. writer[w].cmd \in Commands
    BY <1>5, <1>b DEF CheckRetractions
  <2>2. Refused("already retracted") \in Answers
    BY AnswerTypes DEF Errors
  <2>3. LocalsOK'
    BY <1>5, <1>a, <2>1, <2>2, GotoType, AnswerType, ToConservationType
    DEF CheckRetractions, Labels
  <2> QED BY <1>5, <1>c, <2>3 DEF CheckRetractions
<1>6. ASSUME NEW w \in Writers, CheckDepth(w) PROVE TypeOK'
  <2>1. writer[w].cmd \in Commands
    BY <1>6, <1>b DEF CheckDepth
  <2>2. Refused("retraction chain too deep") \in Answers
    BY AnswerTypes DEF Errors
  <2>3. LocalsOK'
    BY <1>6, <1>a, <2>1, <2>2, AnswerType, ToConservationType DEF CheckDepth
  <2> QED BY <1>6, <1>c, <2>3 DEF CheckDepth
<1>7. ASSUME NEW w \in Writers, CheckConservation(w) PROVE TypeOK'
  <2>1. writer[w].cmd \in Commands
    BY <1>7, <1>b DEF CheckConservation
  <2>2. Refused("money cannot be negative") \in Answers /\ Refused("over-settlement") \in Answers
    BY AnswerTypes DEF Errors
  <2>3. LocalsOK'
    BY <1>7, <1>a, <2>1, <2>2, AnswerType, ToConservationType DEF CheckConservation
  <2> QED BY <1>7, <1>c, <2>3 DEF CheckConservation
<1>8. ASSUME NEW w \in Writers, ReadLastHash(w) PROVE TypeOK'
  <2>1. writer[w].cmd \in Commands
    BY <1>8, <1>b DEF ReadLastHash
  <2>2. CASE Answer(w, Refused("invalid event"))
    <3>1. Refused("invalid event") \in Answers
      BY AnswerTypes DEF Errors
    <3>2. LocalsOK'
      BY <1>a, <2>1, <2>2, <3>1, AnswerType
    <3> QED BY <1>8, <1>c, <3>2 DEF ReadLastHash
  <2>3. ASSUME NEW last \in {None} \cup Ids(book),
               writer' = [writer EXCEPT ![w].pc = "save", ![w].previousHash = last,
                                        ![w].recordedAt = clock]
        PROVE  TypeOK'
    <3> DEFINE r == [writer[w] EXCEPT !.pc = "save", !.previousHash = last,
                                      !.recordedAt = clock]
    <3>1. last \in 0..MaxEvents /\ clock \in 0..MaxClock
      BY <1>d, BookAssumption DEF None, TypeOK
    <3>2. r \in Locals /\ r.pc = "save" /\ r.cmd = writer[w].cmd
      BY <1>a, <3>1 DEF Locals, Labels
    <3>3. writer' = [writer EXCEPT ![w] = r]
      BY <1>a, <2>3 DEF LocalsOK
    <3> HIDE DEF r
    <3>4. LocalsOK'
      BY <1>a, <2>1, <3>2, <3>3, OneWriterMoves
    <3> QED BY <1>8, <1>c, <3>4 DEF ReadLastHash
  <2> QED BY <1>8, <2>2, <2>3 DEF ReadLastHash
<1>9. ASSUME NEW w \in Writers, Save(w) PROVE TypeOK'
  <2>1. writer[w].cmd \in Commands
    BY <1>9, <1>b DEF Save
  <2>2. CASE SameKey(writer[w].cmd) # {}
    <3>1. Refused("unique constraint") \in Answers
      BY AnswerTypes DEF Errors
    <3>2. LocalsOK' /\ UNCHANGED <<book, clock>>
      BY <1>9, <1>a, <2>1, <2>2, <3>1, AnswerType DEF Save
    <3> QED BY <1>c, <3>2
  <2>3. CASE SameKey(writer[w].cmd) = {}
    <3>1. /\ NewEvent(w) \in Events
          /\ book' = Append(book, NewEvent(w))
          /\ Len(book) < MaxEvents
          /\ Answer(w, Accepted(Len(book) + 1))
      BY <1>9, <2>3, SaveType
    <3>2. Accepted(Len(book) + 1) \in Answers
      BY <1>d, <3>1, AnswerTypes, BookAssumption
    <3>3. LocalsOK'
      BY <1>a, <2>1, <3>1, <3>2, AnswerType
    <3>4. book' \in Seq(Events) /\ Len(book') <= MaxEvents
      BY <1>d, <3>1, BookAssumption DEF TypeOK
    <3> QED BY <1>9, <3>3, <3>4 DEF Save, TypeOK
  <2> QED BY <2>2, <2>3
<1>10. ASSUME NEW w \in Writers, Crash(w) PROVE TypeOK'
  <2>1. Idle \in Locals /\ Idle.pc = "idle"
    BY FreshType, AnswerTypes, BookAssumption DEF Idle, Fresh, Labels, None, UnknownId
  <2>2. LocalsOK'
    BY <1>10, <1>a, <2>1, OneWriterMoves DEF Crash
  <2> QED BY <1>10, <1>c, <2>2 DEF Crash
<1>11. ASSUME NEW t \in 0..MaxClock, Tick(t) PROVE TypeOK'
  BY <1>11 DEF Tick, TypeOK, LocalsOK
<1>12. CASE UNCHANGED vars
  BY <1>12 DEF vars, TypeOK, LocalsOK
<1> QED
  BY <1>1, <1>2, <1>3, <1>4, <1>5, <1>6, <1>7, <1>8, <1>9, <1>10, <1>11, <1>12
  DEF Next, Step

\* TypeOK is an invariant.
THEOREM TypeCorrect == Spec => []TypeOK
BY TypeAtFirst, TypeKept, PTL DEF Spec
-----------------------------------------------------------------------------
(* The book only grows, and a call only moves its own locals. *)

Grows == Ids(book) \subseteq Ids(book)' /\ \A i \in Ids(book) : book'[i] = book[i]

\* What a step of w leaves alone, besides the label it moves to.
SameCall(w) ==
    /\ writer'[w].cmd = writer[w].cmd
    /\ writer'[w].related = writer[w].related
    /\ \A v \in Writers \ {w} : writer'[v] = writer[v]

\* Going to a label changes nothing else.
LEMMA GotoMoves ==
    ASSUME LocalsOK, NEW w \in Writers, NEW label, Goto(w, label)
    PROVE  SameCall(w) /\ writer'[w].pc = label /\ writer'[w].answer = writer[w].answer
<1>1. writer[w] \in Locals
  BY DEF LocalsOK
<1>2. writer'[w] = [writer[w] EXCEPT !.pc = label]
  BY DEF LocalsOK, Goto
<1>3. \A v \in Writers \ {w} : writer'[v] = writer[v]
  BY DEF LocalsOK, Goto
<1> QED BY <1>1, <1>2, <1>3 DEF SameCall, Locals

\* Answering ends the call and stores the answer.
LEMMA AnswerMoves ==
    ASSUME LocalsOK, NEW w \in Writers, NEW answer, Answer(w, answer)
    PROVE  SameCall(w) /\ writer'[w].pc = "answered" /\ writer'[w].answer = answer
<1>1. writer'[w] = Fresh("answered", writer[w].cmd, writer[w].related, answer)
  BY DEF LocalsOK, Answer
<1>2. \A v \in Writers \ {w} : writer'[v] = writer[v]
  BY DEF LocalsOK, Answer
<1> QED BY <1>1, <1>2 DEF SameCall, Fresh

\* Going on to the conservation loop stops at an object or past the loop.
LEMMA ToConservationMoves ==
    ASSUME LocalsOK, NEW w \in Writers, NEW k, ToConservation(w, k)
    PROVE  /\ SameCall(w) /\ writer'[w].answer = writer[w].answer
           /\ writer'[w].pc \in {"lastHash", "conserve"}
<1>1. CASE Goto(w, "lastHash")
  BY <1>1, GotoMoves
<1>2. ASSUME NEW j \in Settlements(writer[w].cmd, k),
             writer' = [writer EXCEPT ![w].pc = "conserve", ![w].object = j]
      PROVE  /\ SameCall(w) /\ writer'[w].answer = writer[w].answer
             /\ writer'[w].pc = "conserve"
  <2>1. writer[w] \in Locals
    BY DEF LocalsOK
  <2>2. writer'[w] = [writer[w] EXCEPT !.pc = "conserve", !.object = j]
    BY <1>2 DEF LocalsOK
  <2>3. \A v \in Writers \ {w} : writer'[v] = writer[v]
    BY <1>2 DEF LocalsOK
  <2> QED BY <2>1, <2>2, <2>3 DEF SameCall, Locals
<1> QED BY <1>1, <1>2 DEF ToConservation

\* A step of one call leaves the locals of every other call alone.
LEMMA OthersStay ==
    ASSUME LocalsOK, NEW v \in Writers, NEW w \in Writers \ {v}, Step(w)
    PROVE  writer'[v] = writer[v]
<1>1. ASSUME NEW label, Goto(w, label) PROVE writer'[v] = writer[v]
  BY <1>1, GotoMoves DEF SameCall
<1>2. ASSUME NEW answer, Answer(w, answer) PROVE writer'[v] = writer[v]
  BY <1>2, AnswerMoves DEF SameCall
<1>3. ASSUME NEW k, ToConservation(w, k) PROVE writer'[v] = writer[v]
  BY <1>3, ToConservationMoves DEF SameCall
<1>4. CASE ReadLastHash(w)
  BY <1>2, <1>4 DEF ReadLastHash, LocalsOK
<1> QED
  BY <1>1, <1>2, <1>3, <1>4 DEF Step, LookupCommand, CheckSource, LoadOrigin,
     CheckRetractions, CheckDepth, CheckConservation, Save

\* Saving appends one event, after which every identifier still names the same event.
LEMMA SaveGrows ==
    ASSUME TypeOK, NEW e \in Events, book' = Append(book, e)
    PROVE  Grows /\ Ids(book)' = Ids(book) \cup {Len(book) + 1} /\ book'[Len(book) + 1] = e
BY DEF TypeOK, Grows, Ids

\* No step changes or removes a recorded event.
LEMMA BookGrows ==
    ASSUME TypeOK, [Next]_vars
    PROVE  Grows
<1>1. CASE UNCHANGED book
  BY <1>1 DEF Grows, Ids
<1>2. ASSUME NEW w \in Writers, Save(w) PROVE Grows
  BY <1>1, <1>2, SaveType, SaveGrows DEF Save
<1> QED
  BY <1>1, <1>2 DEF Next, vars, Begin, Step, LookupCommand, CheckSource, LoadOrigin,
     CheckRetractions, CheckDepth, CheckConservation, ReadLastHash, Crash, Tick
\* The labels of a call that has found its source reference unused.
Checked == {"origin", "retractions", "depth", "conserve", "lastHash", "save"}

\* A step of execute() belongs to a call under way: it answers, or goes on without an answer,
\* and only an insert that answers changes the book.
LEMMA StepMoves ==
    ASSUME TypeOK, NEW w \in Writers, Step(w)
    PROVE  /\ SameCall(w) /\ UNCHANGED clock
           /\ writer[w].pc \notin {"idle", "answered"} /\ writer[w].cmd \in Commands
           /\ \/ writer'[w].pc = "answered"
              \/ writer'[w].pc # "idle" /\ writer'[w].answer = writer[w].answer
           /\ writer'[w].pc \in Checked =>
                 UNCHANGED book /\ (writer[w].pc \in Checked \/ ~SourceTaken(writer[w].cmd))
           /\ \/ UNCHANGED book
              \/ /\ writer[w].pc = "save" /\ SameKey(writer[w].cmd) = {}
                 /\ NewEvent(w) \in Events /\ book' = Append(book, NewEvent(w))
                 /\ writer'[w].pc = "answered" /\ writer'[w].answer = Accepted(Len(book) + 1)
<1> DEFINE Goal == /\ SameCall(w)
                   /\ \/ writer'[w].pc = "answered"
                      \/ writer'[w].pc # "idle" /\ writer'[w].answer = writer[w].answer
<1>0. LocalsOK /\ writer[w] \in Locals
  BY DEF TypeOK, LocalsOK
<1>1. ASSUME NEW label, label # "idle", Goto(w, label) PROVE Goal /\ writer'[w].pc = label
  BY <1>0, <1>1, GotoMoves
<1>2. ASSUME NEW answer, Answer(w, answer)
      PROVE  Goal /\ writer'[w].pc = "answered" /\ writer'[w].answer = answer
  BY <1>0, <1>2, AnswerMoves
<1>3. ASSUME NEW k, ToConservation(w, k) PROVE Goal
  BY <1>0, <1>3, ToConservationMoves
<1>4. ASSUME NEW last,
             writer' = [writer EXCEPT ![w].pc = "save", ![w].previousHash = last,
                                      ![w].recordedAt = clock]
      PROVE  Goal
  <2>1. writer'[w] = [writer[w] EXCEPT !.pc = "save", !.previousHash = last,
                                       !.recordedAt = clock]
    BY <1>0, <1>4 DEF LocalsOK
  <2>2. \A v \in Writers \ {w} : writer'[v] = writer[v]
    BY <1>0, <1>4 DEF LocalsOK
  <2> QED BY <1>0, <2>1, <2>2 DEF Locals, SameCall
<1>5. writer[w].pc \notin {"idle", "answered"}
  BY DEF Step, LookupCommand, CheckSource, LoadOrigin, CheckRetractions, CheckDepth,
     CheckConservation, ReadLastHash, Save
<1>6. Goal /\ UNCHANGED clock
  <2> HIDE DEF Goal
  <2> QED BY <1>1, <1>2, <1>3, <1>4 DEF Step, LookupCommand, CheckSource, LoadOrigin,
       CheckRetractions, CheckDepth, CheckConservation, ReadLastHash, Save
<1>7. writer[w].cmd \in Commands
  BY <1>0, <1>5 DEF LocalsOK
<1>8. writer'[w].pc \in Checked =>
        UNCHANGED book /\ (writer[w].pc \in Checked \/ ~SourceTaken(writer[w].cmd))
  <2>1. CASE LookupCommand(w)
    <3>1. writer'[w].pc \in {"source", "answered"}
      BY <1>1, <1>2, <2>1 DEF LookupCommand
    <3> QED BY <3>1 DEF Checked
  <2>2. CASE CheckSource(w)
    <3>1. CASE SourceTaken(writer[w].cmd)
      <4>1. writer'[w].pc = "answered"
        BY <1>2, <2>2, <3>1 DEF CheckSource
      <4> QED BY <4>1 DEF Checked
    <3> QED BY <2>2, <3>1 DEF CheckSource
  <2>3. CASE Save(w)
    <3>1. writer'[w].pc = "answered"
      BY <1>2, <2>3 DEF Save
    <3> QED BY <3>1 DEF Checked
  <2>4. CASE ~(LookupCommand(w) \/ CheckSource(w) \/ Save(w))
    BY <2>4 DEF Checked, Step, LoadOrigin, CheckRetractions, CheckDepth, CheckConservation,
       ReadLastHash
  <2> QED BY <2>1, <2>2, <2>3, <2>4
<1>9. \/ UNCHANGED book
      \/ /\ writer[w].pc = "save" /\ SameKey(writer[w].cmd) = {}
         /\ NewEvent(w) \in Events /\ book' = Append(book, NewEvent(w))
         /\ writer'[w].pc = "answered" /\ writer'[w].answer = Accepted(Len(book) + 1)
  <2>1. CASE Save(w)
    BY <1>2, <2>1, SaveType DEF Save
  <2> QED BY <2>1 DEF Step, LookupCommand, CheckSource, LoadOrigin, CheckRetractions,
       CheckDepth, CheckConservation, ReadLastHash
<1> QED BY <1>5, <1>6, <1>7, <1>8, <1>9
-----------------------------------------------------------------------------
(* Lineage and the depth of retraction chains, for any number of writers. *)

\* Whether a recorded event is a retraction never changes.
LEMMA RetractionStable ==
    ASSUME Grows, NEW i \in Ids(book)
    PROVE  IsRetraction(book, i)' <=> IsRetraction(book, i)
BY DEF Grows, IsRetraction

\* In a grounded book the target of a retraction is recorded.
LEMMA TargetRecorded ==
    ASSUME TypeOK, LineageGrounded, NEW i \in Ids(book), book[i].related # None
    PROVE  book[i].related \in Ids(book) /\ book[i].related < i
<1>1. i \in 1..Len(book) /\ book[i].related \in 0..UnknownId
  <2>1. i \in 1..Len(book) /\ book[i] \in Events
    BY DEF TypeOK, Ids
  <2> QED BY <2>1 DEF Events
<1>2. book[i].related < i
  BY DEF LineageGrounded
<1> QED BY <1>1, <1>2, BookAssumption DEF TypeOK, Ids, None, UnknownId

\* What a call knows stays true while others move and the book grows.
LEMMA LinksStable ==
    ASSUME TypeOK, LineageGrounded, Grows, NEW w \in Writers, LinksHold(w),
           writer'[w] = writer[w]
    PROVE  LinksHold(w)'
<1> DEFINE target == writer[w].related
<1>1. ASSUME target \in Ids(book)
      PROVE  /\ target \in Ids(book)'
             /\ WrongOrigin(writer[w].cmd, target)' <=> WrongOrigin(writer[w].cmd, target)
             /\ IsRetraction(book, target)' <=> IsRetraction(book, target)
             /\ IsRetraction(book, target) =>
                  (IsRetraction(book, book[target].related)' <=> IsRetraction(book, book[target].related))
             /\ book'[target] = book[target]
  <2>1. target \in Ids(book)' /\ book'[target] = book[target]
    BY <1>1 DEF Grows
  <2>2. WrongOrigin(writer[w].cmd, target)' <=> WrongOrigin(writer[w].cmd, target)
    BY <2>1 DEF WrongOrigin
  <2>3. IsRetraction(book, target)' <=> IsRetraction(book, target)
    BY <1>1, RetractionStable
  <2>4. ASSUME IsRetraction(book, target)
        PROVE  IsRetraction(book, book[target].related)' <=> IsRetraction(book, book[target].related)
    <3>1. book[target].related \in Ids(book)
      BY <1>1, <2>4, TargetRecorded DEF IsRetraction
    <3> QED BY <2>1, <3>1, RetractionStable
  <2> QED BY <2>1, <2>2, <2>3, <2>4
<1> QED BY <1>1 DEF LinksHold

\* Lineage and depth survive the growth of the book when the new event respects them.
LEMMA GroundedStable ==
    ASSUME TypeOK, LineageGrounded, RetractionDepth, UNCHANGED book
    PROVE  LineageGrounded' /\ RetractionDepth'
BY DEF LineageGrounded, RetractionDepth, Ids, IsRetraction

\* A save keeps the book grounded and its retraction chains short.
LEMMA GroundedSave ==
    ASSUME TypeOK, LineageGrounded, RetractionDepth, NEW w \in Writers, LinksHold(w),
           writer[w].pc = "save", NewEvent(w) \in Events, book' = Append(book, NewEvent(w))
    PROVE  LineageGrounded' /\ RetractionDepth'
<1> DEFINE new == Len(book) + 1
<1>1. Grows /\ Ids(book)' = Ids(book) \cup {new} /\ book'[new] = NewEvent(w)
  BY SaveGrows
<1>2. /\ book'[new].related = writer[w].related
      /\ book'[new].cmd = writer[w].cmd
  BY <1>1 DEF NewEvent
<1>3. new \notin Ids(book) /\ Len(book) \in Nat /\ \A i \in Ids(book) : i < new
  BY DEF Ids, TypeOK
<1>4. ASSUME book'[new].related # None
      PROVE  /\ book'[new].related \in Ids(book)
             /\ ~WrongOrigin(writer[w].cmd, writer[w].related)
  BY <1>2, <1>4 DEF LinksHold
<1>5. LineageGrounded'
  <2> SUFFICES ASSUME NEW i \in Ids(book)', book'[i].related # None
               PROVE  LET allowed == EVENT_CONTRACTS[book'[i].cmd.eventType].allowedOriginTypes
                      IN  /\ book'[i].related < i
                          /\ allowed = {} \/ book'[book'[i].related].cmd.eventType \in allowed
    BY DEF LineageGrounded
  <2>1. CASE i \in Ids(book)
    <3>1. book'[i] = book[i]
      BY <1>1, <2>1 DEF Grows
    <3>2. book[i].related \in Ids(book) /\ book[i].related < i
      BY <2>1, <3>1, TargetRecorded
    <3>3. book'[book[i].related] = book[book[i].related]
      BY <1>1, <3>2 DEF Grows
    <3> QED BY <2>1, <3>1, <3>2, <3>3 DEF LineageGrounded
  <2>2. CASE i = new
    <3>1. book'[writer[w].related] = book[writer[w].related]
      BY <1>1, <1>2, <1>4, <2>2 DEF Grows
    <3> QED BY <1>2, <1>3, <1>4, <2>2, <3>1 DEF WrongOrigin
  <2> QED BY <1>1, <2>1, <2>2
<1>6. RetractionDepth'
  <2> SUFFICES ASSUME NEW i \in Ids(book)', IsRetraction(book, i)',
                      IsRetraction(book', book'[i].related)
               PROVE  ~IsRetraction(book', book'[book'[i].related].related)
    BY DEF RetractionDepth
  <2> DEFINE first == book'[i].related
  <2>1. first # None
    BY DEF IsRetraction
  <2>2. first \in Ids(book)
    <3>1. CASE i \in Ids(book)
      <4>1. book'[i] = book[i]
        BY <1>1, <3>1 DEF Grows
      <4> QED BY <2>1, <3>1, <4>1, TargetRecorded
    <3>2. CASE i = new
      BY <1>4, <2>1, <3>2
    <3> QED BY <1>1, <3>1, <3>2
  <2>3. book'[first] = book[first] /\ IsRetraction(book, first)
    BY <1>1, <2>2, RetractionStable DEF Grows
  <2>4. book[first].related \in Ids(book)
    BY <2>2, <2>3, TargetRecorded DEF IsRetraction
  <2>5. ~IsRetraction(book, book[first].related)
    <3>1. CASE i \in Ids(book)
      <4>1. book'[i] = book[i] /\ IsRetraction(book, i)
        BY <1>1, <3>1, RetractionStable DEF Grows
      <4> QED BY <2>3, <3>1, <4>1 DEF RetractionDepth
    <3>2. CASE i = new
      <4>1. Carries(writer[w].cmd, "RETRACTS") /\ first = writer[w].related
        BY <1>2, <3>2 DEF IsRetraction
      <4> QED BY <2>1, <2>3, <4>1 DEF LinksHold
    <3> QED BY <1>1, <3>1, <3>2
  <2> QED BY <1>1, <2>3, <2>4, <2>5, RetractionStable
<1> QED BY <1>5, <1>6

\* Each step of a call leaves it knowing what its next step relies on.
LEMMA LinksStep ==
    ASSUME TypeOK, LineageGrounded, NEW w \in Writers, LinksHold(w), Step(w)
    PROVE  LinksHold(w)'
<1>0. LocalsOK /\ writer[w] \in Locals
  BY DEF TypeOK, LocalsOK
<1>a. ASSUME NEW answer, Answer(w, answer) PROVE LinksHold(w)'
  BY <1>0, <1>a, AnswerMoves DEF LinksHold
<1>b. ASSUME UNCHANGED book, NEW k, ToConservation(w, k),
             writer[w].related # None =>
                 writer[w].related \in Ids(book) /\ ~WrongOrigin(writer[w].cmd, writer[w].related),
             writer[w].related # None /\ Carries(writer[w].cmd, "RETRACTS")
                 /\ IsRetraction(book, writer[w].related)
                 => ~IsRetraction(book, book[writer[w].related].related)
      PROVE  LinksHold(w)'
  BY <1>0, <1>b, ToConservationMoves DEF LinksHold, SameCall, Ids, WrongOrigin, IsRetraction
<1>c. ASSUME UNCHANGED book, NEW label, Goto(w, label)
      PROVE  /\ writer'[w].pc = label /\ writer'[w].cmd = writer[w].cmd
             /\ writer'[w].related = writer[w].related
  BY <1>0, <1>c, GotoMoves DEF SameCall
<1>1. CASE LookupCommand(w)
  BY <1>1, <1>a, <1>c DEF LookupCommand, LinksHold
<1>2. CASE CheckSource(w)
  <2>1. CASE SourceTaken(writer[w].cmd)
    BY <1>2, <1>a, <2>1 DEF CheckSource
  <2>2. CASE ~SourceTaken(writer[w].cmd) /\ writer[w].related = None
    BY <1>2, <1>b, <2>2 DEF CheckSource
  <2>3. CASE ~SourceTaken(writer[w].cmd) /\ writer[w].related # None
    BY <1>2, <1>c, <2>3 DEF CheckSource, LinksHold
  <2> QED BY <2>1, <2>2, <2>3
<1>3. CASE LoadOrigin(w)
  <2>1. UNCHANGED book /\ writer[w].pc = "origin" /\ writer[w].related # None
    BY <1>3 DEF LoadOrigin, LinksHold
  <2>2. ASSUME writer[w].related \in Ids(book), ~WrongOrigin(writer[w].cmd, writer[w].related),
               Carries(writer[w].cmd, "RETRACTS"), Goto(w, "retractions")
        PROVE  LinksHold(w)'
    BY <2>1, <2>2, <1>c DEF LinksHold, WrongOrigin, Ids
  <2> QED BY <1>3, <1>a, <1>b, <2>1, <2>2 DEF LoadOrigin
<1>4. CASE CheckRetractions(w)
  <2>1. /\ UNCHANGED book /\ writer[w].related # None /\ Carries(writer[w].cmd, "RETRACTS")
        /\ writer[w].related \in Ids(book) /\ ~WrongOrigin(writer[w].cmd, writer[w].related)
    BY <1>4 DEF CheckRetractions, LinksHold
  <2>2. ASSUME IsRetraction(book, writer[w].related), Goto(w, "depth")
        PROVE  LinksHold(w)'
    <3>1. /\ writer'[w].pc = "depth" /\ writer'[w].cmd = writer[w].cmd
          /\ writer'[w].related = writer[w].related
      BY <2>1, <2>2, <1>c
    <3> QED BY <2>1, <2>2, <3>1 DEF LinksHold, WrongOrigin, Ids, IsRetraction
  <2> QED BY <1>4, <1>a, <1>b, <2>1, <2>2 DEF CheckRetractions
<1>5. CASE CheckDepth(w)
  <2>1. /\ UNCHANGED book
        /\ writer[w].related \in Ids(book) /\ ~WrongOrigin(writer[w].cmd, writer[w].related)
    BY <1>5 DEF CheckDepth, LinksHold
  <2>2. ASSUME ~RetractsRetraction(writer[w].related)
        PROVE  ~IsRetraction(book, book[writer[w].related].related)
    BY <2>2 DEF RetractsRetraction, IsRetraction
  <2> QED BY <1>5, <1>a, <1>b, <2>1, <2>2 DEF CheckDepth
<1>6. CASE CheckConservation(w)
  BY <1>6, <1>a, <1>b DEF CheckConservation, LinksHold
<1>7. CASE ReadLastHash(w)
  <2>1. UNCHANGED book /\ writer[w].pc = "lastHash"
    BY <1>7 DEF ReadLastHash
  <2>2. ASSUME NEW last, ValidEvent(writer[w].cmd, writer[w].related, last),
               writer' = [writer EXCEPT ![w].pc = "save", ![w].previousHash = last,
                                        ![w].recordedAt = clock]
        PROVE  LinksHold(w)'
    <3>1. writer'[w] = [writer[w] EXCEPT !.pc = "save", !.previousHash = last,
                                         !.recordedAt = clock]
      BY <1>0, <2>2 DEF LocalsOK
    <3>2. /\ writer'[w].pc = "save" /\ writer'[w].previousHash = last
          /\ writer'[w].cmd = writer[w].cmd /\ writer'[w].related = writer[w].related
      BY <1>0, <3>1 DEF Locals
    <3> QED BY <2>1, <2>2, <3>2 DEF LinksHold, WrongOrigin, Ids, IsRetraction
  <2> QED BY <1>7, <1>a, <2>2 DEF ReadLastHash
<1>8. CASE Save(w)
  BY <1>8, <1>a DEF Save
<1> QED BY <1>1, <1>2, <1>3, <1>4, <1>5, <1>6, <1>7, <1>8 DEF Step

LinkInv == TypeOK /\ LineageGrounded /\ RetractionDepth /\ LinksOK

\* An empty book is grounded.
LEMMA LinksAtFirst == Init => LineageGrounded /\ RetractionDepth /\ LinksOK
<1> SUFFICES ASSUME Init PROVE LineageGrounded /\ RetractionDepth /\ LinksOK
  OBVIOUS
<1>1. Ids(book) = {}
  BY DEF Init, Ids
<1>2. \A w \in Writers : writer[w].pc = "idle"
  BY DEF Init, Idle, Fresh
<1> QED BY <1>1, <1>2 DEF LineageGrounded, RetractionDepth, LinksOK, LinksHold

\* Every step keeps the lineage, and what each running call knows of its origin.
LEMMA LinksKept == TypeOK /\ LineageGrounded /\ RetractionDepth /\ LinksOK /\ [Next]_vars
                     => (LineageGrounded /\ RetractionDepth /\ LinksOK)'
<1> SUFFICES ASSUME TypeOK, LineageGrounded, RetractionDepth, LinksOK, [Next]_vars
             PROVE  (LineageGrounded /\ RetractionDepth /\ LinksOK)'
  OBVIOUS
<1>0. Grows /\ LocalsOK
  BY BookGrows DEF TypeOK
<1>1. (LineageGrounded /\ RetractionDepth)'
  <2>1. CASE UNCHANGED book
    BY <2>1, GroundedStable
  <2>2. ASSUME NEW w \in Writers, Save(w), book' # book PROVE (LineageGrounded /\ RetractionDepth)'
    <3>1. SameKey(writer[w].cmd) = {} /\ writer[w].pc = "save"
      BY <2>2 DEF Save
    <3>2. NewEvent(w) \in Events /\ book' = Append(book, NewEvent(w))
      BY <2>2, <3>1, SaveType
    <3>3. LinksHold(w)
      BY DEF LinksOK
    <3> QED BY <3>1, <3>2, <3>3, GroundedSave
  <2> QED
    BY <2>1, <2>2 DEF Next, vars, Begin, Step, LookupCommand, CheckSource, LoadOrigin,
       CheckRetractions, CheckDepth, CheckConservation, ReadLastHash, Crash, Tick
<1>2. LinksOK'
  <2> SUFFICES ASSUME NEW v \in Writers PROVE LinksHold(v)'
    BY DEF LinksOK
  <2>0. LinksHold(v)
    BY DEF LinksOK
  <2>1. CASE writer'[v] = writer[v]
    BY <1>0, <2>0, <2>1, LinksStable
  <2>2. CASE Step(v)
    BY <2>0, <2>2, LinksStep
  <2>3. ASSUME NEW w \in Writers \ {v}, Step(w) PROVE writer'[v] = writer[v]
    BY <1>0, <2>3, OthersStay
  <2>4. ASSUME NEW w \in Writers, NEW c \in Commands, NEW target \in Targets,
               Begin(w, c, target)
        PROVE  LinksHold(v)'
    <3>1. CASE w # v
      BY <1>0, <2>1, <2>4, <3>1 DEF Begin, LocalsOK
    <3>2. CASE w = v
      <4>1. writer'[v].pc \in {"source", "command"}
        BY <1>0, <2>4, <3>2 DEF Begin, LocalsOK, Fresh
      <4> QED BY <4>1 DEF LinksHold
    <3> QED BY <3>1, <3>2
  <2>5. ASSUME NEW w \in Writers, Crash(w) PROVE LinksHold(v)'
    <3>1. CASE w # v
      BY <1>0, <2>1, <2>5, <3>1 DEF Crash, LocalsOK
    <3>2. CASE w = v
      <4>1. writer'[v].pc = "idle"
        BY <1>0, <2>5, <3>2 DEF Crash, LocalsOK, Idle, Fresh
      <4> QED BY <4>1 DEF LinksHold
    <3> QED BY <3>1, <3>2
  <2> QED BY <2>1, <2>2, <2>3, <2>4, <2>5 DEF Next, vars, Tick
<1> QED BY <1>1, <1>2

\* The lineage invariant holds at the start and is kept by every step.
LEMMA LinkInvariant == Spec => []LinkInv
BY LinksAtFirst, LinksKept, TypeCorrect, PTL DEF Spec, LinkInv

\* Whatever the number of writers, every event that names an origin names an earlier one of
\* an admitted type.
THEOREM LineageAlwaysGrounded == Spec => []LineageGrounded
BY LinkInvariant, PTL DEF LinkInv

\* Whatever the number of writers, retraction chains never exceed two hops.
THEOREM RetractionChainsStayShort == Spec => []RetractionDepth
BY LinkInvariant, PTL DEF LinkInv
-----------------------------------------------------------------------------
(* Retractions move nothing, for any number of writers. *)

RetractsIn(contract) == \E t \in DOMAIN contract.objects : "RETRACTS" \in contract.objects[t]

\* No contract but the correction's lets an object be retracted.
LEMMA OnlyCorrectionsRetract ==
    ASSUME NEW t \in EventTypes, RetractsIn(EVENT_CONTRACTS[t])
    PROVE  t = "LEDGER_CORRECTION"
<1>1. ~RetractsIn(CommissionSplit)
  BY DEF RetractsIn, CommissionSplit, Contract
<1>2. ~RetractsIn(PayrollPayment)
  BY DEF RetractsIn, PayrollPayment, Contract
<1>3. ~RetractsIn(CommissionReceived)
  BY DEF RetractsIn, CommissionReceived, Contract
<1>4. ~RetractsIn(CommissionWaiver)
  BY DEF RetractsIn, CommissionWaiver, Contract
<1>5. ~RetractsIn(PenaltyPayment)
  BY DEF RetractsIn, PenaltyPayment, Contract
<1>6. ~RetractsIn(AdvancePayment)
  BY DEF RetractsIn, AdvancePayment, Contract
<1>7. ~RetractsIn(InfrastructureExpense)
  BY DEF RetractsIn, InfrastructureExpense, Contract
<1>8. ~RetractsIn(ServiceFeePayment)
  BY DEF RetractsIn, ServiceFeePayment, Contract
<1>9. ~RetractsIn(TaxPayment)
  BY DEF RetractsIn, TaxPayment, Contract
<1>10. ~RetractsIn(OutboundPayment)
  BY DEF RetractsIn, OutboundPayment, Contract
<1>11. ~RetractsIn(AdvanceSettlement)
  BY DEF RetractsIn, AdvanceSettlement, Contract
<1>12. ~RetractsIn(LoanOrigination)
  BY DEF RetractsIn, LoanOrigination, Contract
<1>13. ~RetractsIn(LoanRepayment)
  BY DEF RetractsIn, LoanRepayment, Contract
<1>14. ~RetractsIn(DirectPaymentAcknowledged)
  BY DEF RetractsIn, DirectPaymentAcknowledged, Contract
<1>15. ~RetractsIn(IncentivePayment)
  BY DEF RetractsIn, IncentivePayment, Contract
<1>16. ~RetractsIn(CommissionExpected)
  BY DEF RetractsIn, CommissionExpected, Contract
<1>17. ~RetractsIn(ObligationRecognized)
  BY DEF RetractsIn, ObligationRecognized, Contract
<1>18. EventTypes =
        {"LEDGER_CORRECTION", "COMMISSION_SPLIT", "PAYROLL_PAYMENT", "COMMISSION_RECEIVED",
        "COMMISSION_WAIVER", "PENALTY_PAYMENT", "ADVANCE_PAYMENT",
        "INFRASTRUCTURE_EXPENSE", "SERVICE_FEE_PAYMENT", "TAX_PAYMENT", "OUTBOUND_PAYMENT",
        "ADVANCE_SETTLEMENT", "LOAN_ORIGINATION", "LOAN_REPAYMENT",
        "DIRECT_PAYMENT_ACKNOWLEDGED", "INCENTIVE_PAYMENT", "COMMISSION_EXPECTED",
        "OBLIGATION_RECOGNIZED"}
  BY DEF EventTypes, EVENT_CONTRACTS
<1>19. /\ EVENT_CONTRACTS["COMMISSION_SPLIT"] = CommissionSplit
       /\ EVENT_CONTRACTS["PAYROLL_PAYMENT"] = PayrollPayment
       /\ EVENT_CONTRACTS["COMMISSION_RECEIVED"] = CommissionReceived
       /\ EVENT_CONTRACTS["COMMISSION_WAIVER"] = CommissionWaiver
       /\ EVENT_CONTRACTS["PENALTY_PAYMENT"] = PenaltyPayment
       /\ EVENT_CONTRACTS["ADVANCE_PAYMENT"] = AdvancePayment
       /\ EVENT_CONTRACTS["INFRASTRUCTURE_EXPENSE"] = InfrastructureExpense
       /\ EVENT_CONTRACTS["SERVICE_FEE_PAYMENT"] = ServiceFeePayment
       /\ EVENT_CONTRACTS["TAX_PAYMENT"] = TaxPayment
       /\ EVENT_CONTRACTS["OUTBOUND_PAYMENT"] = OutboundPayment
       /\ EVENT_CONTRACTS["ADVANCE_SETTLEMENT"] = AdvanceSettlement
       /\ EVENT_CONTRACTS["LOAN_ORIGINATION"] = LoanOrigination
       /\ EVENT_CONTRACTS["LOAN_REPAYMENT"] = LoanRepayment
       /\ EVENT_CONTRACTS["DIRECT_PAYMENT_ACKNOWLEDGED"] = DirectPaymentAcknowledged
       /\ EVENT_CONTRACTS["INCENTIVE_PAYMENT"] = IncentivePayment
       /\ EVENT_CONTRACTS["COMMISSION_EXPECTED"] = CommissionExpected
       /\ EVENT_CONTRACTS["OBLIGATION_RECOGNIZED"] = ObligationRecognized
  BY DEF EVENT_CONTRACTS
<1> QED
  BY <1>1, <1>2, <1>3, <1>4, <1>5, <1>6, <1>7, <1>8, <1>9, <1>10,
     <1>11, <1>12, <1>13, <1>14, <1>15, <1>16, <1>17, <1>18, <1>19

\* The policy admits RETRACTS only on a non-cash correction that names its target and
\* carries no other relation.
LEMMA ValidRetraction ==
    ASSUME NEW c \in Commands, NEW related, NEW previousHash,
           ValidEvent(c, related, previousHash), Carries(c, "RETRACTS")
    PROVE  /\ c.eventType = "LEDGER_CORRECTION" /\ c.effect = "NON_CASH"
           /\ related # None
           /\ \A o \in Range(c.objects) : o.relation = "RETRACTS"
<1>0. ObjectsAllowed(c) /\ RetractsOnly(c, related) /\ c.eventType \in EventTypes
  BY BookAssumption DEF ValidEvent, SemanticallyValid
<1>1. related # None /\ \A o \in Range(c.objects) : o.relation = "RETRACTS"
  BY <1>0 DEF RetractsOnly
<1>2. PICK o \in Range(c.objects) : o.relation = "RETRACTS"
  BY DEF Carries
<1>3. o.objectType \in ObjectTypes
  <2> DEFINE Objects == [objectId : STRING, objectType : ObjectTypes, relation : Relations]
  <2>1. c.objects \in Seq(Objects)
    BY BookAssumption
  <2>2. o \in Objects
    <3> HIDE DEF Objects
    <3>1. \A k \in DOMAIN c.objects : c.objects[k] \in Objects
      BY <2>1
    <3> QED BY <3>1 DEF Range
  <2> QED BY <2>2
<1>4. o \in Positional(c)
  <2>1. "RETRACTS" \in OBJECT_RELATION_MATRIX[o.objectType]
    BY <1>0, <1>2 DEF ObjectsAllowed
  <2>2. ASSUME o.objectType \in ContextualTypes PROVE FALSE
    <3>1. OBJECT_RELATION_MATRIX[o.objectType] = {"REFERENCES"}
      BY <1>3, <2>2 DEF OBJECT_RELATION_MATRIX, ContextualTypes
    <3> QED BY <2>1, <3>1
  <2> QED BY <1>3, <2>2 DEF Positional, ObjectTypes
<1>5. RetractsIn(EVENT_CONTRACTS[c.eventType])
  BY <1>0, <1>2, <1>4 DEF ObjectsAllowed, RetractsIn
<1>6. c.eventType = "LEDGER_CORRECTION"
  BY <1>0, <1>5, OnlyCorrectionsRetract
<1>7. c.effect = "NON_CASH"
  <2>1. EVENT_CONTRACTS["LEDGER_CORRECTION"].economicEffects = {"NON_CASH"}
    BY DEF EVENT_CONTRACTS, LedgerCorrection, Contract
  <2> QED BY <1>0, <1>6, <2>1 DEF ObjectsAllowed
<1> QED BY <1>1, <1>6, <1>7

\* A recorded retraction is a non-cash correction that names its target and moves nothing.
THEOREM RetractionsStayInert == Spec => []RetractionsInert
<1>1. Init => RetractionsInert
  BY DEF Init, RetractionsInert, Ids
<1>2. LinkInv /\ RetractionsInert /\ [Next]_vars => RetractionsInert'
  <2> SUFFICES ASSUME LinkInv, RetractionsInert, [Next]_vars PROVE RetractionsInert'
    OBVIOUS
  <2>1. CASE UNCHANGED book
    BY <2>1 DEF RetractionsInert, Ids
  <2>2. ASSUME NEW w \in Writers, Save(w), book' # book PROVE RetractionsInert'
    <3>1. SameKey(writer[w].cmd) = {} /\ writer[w].pc = "save"
      BY <2>2 DEF Save
    <3>2. NewEvent(w) \in Events /\ book' = Append(book, NewEvent(w))
      BY <2>2, <3>1, SaveType DEF LinkInv
    <3>3. /\ Grows /\ Ids(book)' = Ids(book) \cup {Len(book) + 1}
          /\ book'[Len(book) + 1] = NewEvent(w)
      BY <3>2, SaveGrows DEF LinkInv
    <3>4. ValidEvent(writer[w].cmd, writer[w].related, writer[w].previousHash)
      BY <3>1 DEF LinkInv, LinksOK, LinksHold
    <3>5. writer[w].cmd \in Commands
      BY <3>1 DEF LinkInv, TypeOK, LocalsOK
    <3>6. NewEvent(w).cmd = writer[w].cmd /\ NewEvent(w).related = writer[w].related
      BY DEF NewEvent
    <3> SUFFICES ASSUME NEW i \in Ids(book)', Carries(book'[i].cmd, "RETRACTS")
                 PROVE  /\ book'[i].cmd.eventType = "LEDGER_CORRECTION"
                        /\ book'[i].cmd.effect = "NON_CASH"
                        /\ book'[i].related # None
                        /\ \A o \in Range(book'[i].cmd.objects) : o.relation = "RETRACTS"
      BY DEF RetractionsInert
    <3>7. CASE i \in Ids(book)
      <4>1. book'[i] = book[i]
        BY <3>3, <3>7 DEF Grows
      <4> QED BY <3>7, <4>1 DEF RetractionsInert
    <3>8. CASE i = Len(book) + 1
      BY <3>3, <3>4, <3>5, <3>6, <3>8, ValidRetraction
    <3> QED BY <3>3, <3>7, <3>8
  <2> QED
    BY <2>1, <2>2 DEF Next, vars, Begin, Step, LookupCommand, CheckSource, LoadOrigin,
       CheckRetractions, CheckDepth, CheckConservation, ReadLastHash, Crash, Tick
<1> QED BY <1>1, <1>2, LinkInvariant, PTL DEF Spec
-----------------------------------------------------------------------------
(* Idempotency keys, for any number of writers. *)

\* An accepted answer of w names the event recorded for its key or its command.
AnswerSound(w) ==
    writer[w].answer.status = "accepted" =>
        LET id == writer[w].answer.id IN
        /\ id \in Ids(book)
        /\ book[id].cmd.commandId = writer[w].cmd.commandId
        /\ writer[w].cmd.commandId = NoKey => book[id].cmd = writer[w].cmd

\* A sound answer stays sound while the call keeps its command and the book grows.
LEMMA AnswerStable ==
    ASSUME Grows, NEW w \in Writers, AnswerSound(w), writer'[w].cmd = writer[w].cmd,
           writer'[w].answer = writer[w].answer
    PROVE  AnswerSound(w)'
BY DEF AnswerSound, Grows

\* Every step of a call ends in a sound answer or leaves the answer alone.
LEMMA AnswerStep ==
    ASSUME TypeOK, NEW w \in Writers, Grows, AnswerSound(w), Step(w)
    PROVE  AnswerSound(w)'
<1>0. LocalsOK /\ writer[w] \in Locals
  BY DEF TypeOK, LocalsOK
<1>a. ASSUME NEW label, Goto(w, label) PROVE AnswerSound(w)'
  BY <1>0, <1>a, GotoMoves, AnswerStable DEF SameCall
<1>b. ASSUME NEW k, ToConservation(w, k) PROVE AnswerSound(w)'
  BY <1>0, <1>b, ToConservationMoves, AnswerStable DEF SameCall
<1>c. ASSUME NEW why, Answer(w, Refused(why)) PROVE AnswerSound(w)'
  <2>1. writer'[w].answer = Refused(why)
    BY <1>0, <1>c, AnswerMoves
  <2>2. Refused(why).status = "refused"
    BY DEF Refused
  <2> QED BY <2>1, <2>2 DEF AnswerSound
<1>d. ASSUME NEW id, Answer(w, Accepted(id)), id \in Ids(book)',
             book'[id].cmd.commandId = writer[w].cmd.commandId,
             writer[w].cmd.commandId = NoKey => book'[id].cmd = writer[w].cmd
      PROVE  AnswerSound(w)'
  <2>1. writer'[w].answer = Accepted(id) /\ writer'[w].cmd = writer[w].cmd
    BY <1>0, <1>d, AnswerMoves DEF SameCall
  <2>2. Accepted(id).id = id
    BY DEF Accepted
  <2> QED BY <1>d, <2>1, <2>2 DEF AnswerSound
<1>1. CASE LookupCommand(w)
  <2>1. ASSUME NEW i \in SameKey(writer[w].cmd), Answer(w, Accepted(i)), UNCHANGED book
        PROVE  AnswerSound(w)'
    BY <1>d, <2>1 DEF SameKey, Ids
  <2> QED BY <1>1, <1>a, <2>1 DEF LookupCommand
<1>2. CASE ReadLastHash(w)
  <2>1. ASSUME NEW last,
               writer' = [writer EXCEPT ![w].pc = "save", ![w].previousHash = last,
                                        ![w].recordedAt = clock]
        PROVE  AnswerSound(w)'
    <3>1. writer'[w] = [writer[w] EXCEPT !.pc = "save", !.previousHash = last,
                                         !.recordedAt = clock]
      BY <1>0, <2>1 DEF LocalsOK
    <3>2. writer'[w].cmd = writer[w].cmd /\ writer'[w].answer = writer[w].answer
      BY <1>0, <3>1 DEF Locals
    <3> QED BY <3>2, AnswerStable
  <2> QED BY <1>2, <1>c, <2>1 DEF ReadLastHash
<1>3. CASE Save(w)
  <2>1. CASE SameKey(writer[w].cmd) # {}
    BY <1>3, <1>c, <2>1 DEF Save
  <2>2. CASE SameKey(writer[w].cmd) = {}
    <3>1. /\ NewEvent(w) \in Events /\ book' = Append(book, NewEvent(w))
          /\ Answer(w, Accepted(Len(book) + 1))
      BY <1>3, <2>2, SaveType
    <3>2. Len(book) + 1 \in Ids(book)' /\ book'[Len(book) + 1] = NewEvent(w)
      BY <3>1, SaveGrows
    <3>3. NewEvent(w).cmd = writer[w].cmd
      BY DEF NewEvent
    <3> QED BY <1>d, <3>1, <3>2, <3>3
  <2> QED BY <2>1, <2>2
<1> QED
  BY <1>1, <1>2, <1>3, <1>a, <1>b, <1>c DEF Step, CheckSource, LoadOrigin, CheckRetractions,
     CheckDepth, CheckConservation

\* However requests and retries interleave, an idempotency key names at most one event and
\* an accepted answer names the event recorded for the caller's key.
THEOREM KeysNameOneEvent == Spec => []KeyNamesOneEvent
<1> DEFINE KeyUnique == \A i, j \in Ids(book) :
                            book[i].cmd.commandId = book[j].cmd.commandId /\ i # j
                                => book[i].cmd.commandId = NoKey
           Sound == \A w \in Writers : AnswerSound(w)
<1>0. KeyUnique /\ Sound => KeyNamesOneEvent
  BY DEF KeyNamesOneEvent, AnswerSound
<1>1. Init => KeyUnique /\ Sound
  BY DEF Init, Ids, Idle, Fresh, NoAnswer, AnswerSound
<1>2. TypeOK /\ KeyUnique /\ Sound /\ [Next]_vars => KeyUnique' /\ Sound'
  <2> SUFFICES ASSUME TypeOK, KeyUnique, Sound, [Next]_vars PROVE KeyUnique' /\ Sound'
    OBVIOUS
  <2>0. Grows /\ LocalsOK
    BY BookGrows DEF TypeOK
  <2>1. KeyUnique'
    <3>1. CASE UNCHANGED book
      BY <3>1 DEF Ids
    <3>2. ASSUME NEW w \in Writers, Save(w), book' # book PROVE KeyUnique'
      <4>1. SameKey(writer[w].cmd) = {}
        BY <3>2 DEF Save
      <4>2. NewEvent(w) \in Events /\ book' = Append(book, NewEvent(w))
        BY <3>2, <4>1, SaveType
      <4>3. Ids(book)' = Ids(book) \cup {Len(book) + 1} /\ book'[Len(book) + 1] = NewEvent(w)
        BY <4>2, SaveGrows
      <4>4. NewEvent(w).cmd = writer[w].cmd
        BY DEF NewEvent
      <4>5. \A i \in Ids(book) : book'[i].cmd.commandId = writer[w].cmd.commandId
                                    => writer[w].cmd.commandId = NoKey
        BY <2>0, <4>1 DEF SameKey, Grows
      <4> QED BY <2>0, <4>3, <4>4, <4>5 DEF Grows
    <3> QED
      BY <3>1, <3>2 DEF Next, vars, Begin, Step, LookupCommand, CheckSource, LoadOrigin,
         CheckRetractions, CheckDepth, CheckConservation, ReadLastHash, Crash, Tick
  <2>2. Sound'
    <3> SUFFICES ASSUME NEW v \in Writers PROVE AnswerSound(v)'
      OBVIOUS
    <3>1. CASE writer'[v] = writer[v]
      BY <2>0, <3>1, AnswerStable
    <3>2. CASE Step(v)
      BY <2>0, <3>2, AnswerStep
    <3>3. ASSUME NEW w \in Writers \ {v}, Step(w) PROVE writer'[v] = writer[v]
      BY <2>0, <3>3, OthersStay
    <3>4. ASSUME NEW w \in Writers, NEW c \in Commands, NEW target \in Targets,
                 Begin(w, c, target)
          PROVE  AnswerSound(v)'
      <4>1. CASE w # v
        BY <2>0, <3>1, <3>4, <4>1 DEF Begin, LocalsOK
      <4>2. CASE w = v
        <5>1. writer'[v].answer = NoAnswer
          BY <2>0, <3>4, <4>2 DEF Begin, LocalsOK, Fresh
        <5> QED BY <5>1 DEF AnswerSound, NoAnswer
      <4> QED BY <4>1, <4>2
    <3>5. ASSUME NEW w \in Writers, Crash(w) PROVE AnswerSound(v)'
      <4>1. CASE w # v
        BY <2>0, <3>1, <3>5, <4>1 DEF Crash, LocalsOK
      <4>2. CASE w = v
        <5>1. writer'[v].answer = NoAnswer
          BY <2>0, <3>5, <4>2 DEF Crash, LocalsOK, Idle, Fresh
        <5> QED BY <5>1 DEF AnswerSound, NoAnswer
      <4> QED BY <4>1, <4>2
    <3> QED BY <3>1, <3>2, <3>3, <3>4, <3>5 DEF Next, vars, Tick
  <2> QED BY <2>1, <2>2
<1> HIDE DEF KeyUnique, Sound
<1> QED BY <1>0, <1>1, <1>2, TypeCorrect, PTL DEF Spec

-----------------------------------------------------------------------------
(* When one writer runs, and the clock is never set back, execute() is as good as atomic:  *)
(* Book implements AtomicBook, and the rules it checks without a lock hold.                *)

\* Events are recorded in the order of their recording times, none in the future.
Ordered ==
    /\ \A i \in Ids(book) : book[i].recordedAt <= clock
    /\ \A i, j \in Ids(book) : i < j => book[i].recordedAt <= book[j].recordedAt
    /\ \A w \in Writers : writer[w].pc = "save" => writer[w].recordedAt <= clock

SoleInv == LinkInv /\ ChecksStillHold /\ Ordered

\* In an ordered book the event getLastEventHash finds is the one inserted last.
LEMMA LastIsLatest ==
    ASSUME TypeOK, Ordered, NEW last \in {None} \cup Ids(book), IsLast(last)
    PROVE  last = Len(book)
<1>0. Len(book) \in Nat /\ Ids(book) = 1..Len(book) /\ \A i \in Ids(book) : book[i] \in Events
  BY DEF TypeOK, Ids
<1>1. CASE book = <<>>
  BY <1>1 DEF IsLast, None
<1>2. CASE book # <<>>
  <2>1. Len(book) \in Ids(book) /\ last \in Ids(book)
    BY <1>0, <1>2 DEF TypeOK, IsLast
  <2>2. /\ book[Len(book)].recordedAt \in 0..MaxClock
        /\ book[last].recordedAt \in 0..MaxClock
    BY <1>0, <2>1 DEF Events
  <2>3. Len(book) = last \/ Before(book, Len(book), last)
    BY <1>2, <2>1 DEF IsLast
  <2>4. last < Len(book) => book[last].recordedAt <= book[Len(book)].recordedAt
    BY <2>1 DEF Ordered
  <2> QED BY <1>0, <2>1, <2>2, <2>3, <2>4, BookAssumption DEF Before
<1> QED BY <1>1, <1>2

\* The questions a call asks of the book depend on nothing but the book.
LEMMA ChecksUnchanged ==
    ASSUME NEW w \in Writers, ChecksHold(w), UNCHANGED book, writer'[w] = writer[w]
    PROVE  ChecksHold(w)'
BY DEF ChecksHold, SourceTaken, AlreadyRetracted, Ids, IsLast

\* Each step of a call that leaves the book alone keeps what it has checked true.
LEMMA ChecksStep ==
    ASSUME TypeOK, LinksOK, NEW w \in Writers, ChecksHold(w), Ordered, Step(w)
    PROVE  ChecksHold(w)'
<1> DEFINE c == writer[w].cmd  target == writer[w].related
           Fits(k) == ~Overcloses(c.amount, foldObjectTotals(book, c.objects[k].objectId))
           Free == target # None /\ Carries(c, "RETRACTS") => ~AlreadyRetracted(target)
<1>0. LocalsOK /\ writer[w] \in Locals /\ LinksHold(w)
  BY DEF TypeOK, LocalsOK, LinksOK
<1>a. ASSUME NEW answer, Answer(w, answer) PROVE ChecksHold(w)'
  BY <1>0, <1>a, AnswerMoves DEF ChecksHold
<1>b. ASSUME UNCHANGED book, NEW k \in Nat, ToConservation(w, k), c \in Commands,
             ~SourceTaken(c), Free, \A i \in Settlements(c, 1) : i < k => Fits(i)
      PROVE  ChecksHold(w)'
  <2>1. /\ writer'[w].cmd = c /\ writer'[w].related = target
        /\ writer'[w].pc \in {"lastHash", "conserve"}
    BY <1>0, <1>b, ToConservationMoves DEF SameCall
  <2>2. \A i \in Settlements(c, 1) : i \in Nat /\ (k <= i => i \in Settlements(c, k))
    BY <1>b, BookAssumption DEF Settlements
  <2>3. CASE Settlements(c, k) = {} /\ Goto(w, "lastHash")
    <3>1. \A i \in Settlements(c, 1) : Fits(i)
      BY <1>b, <2>2, <2>3
    <3>2. writer'[w].pc = "lastHash"
      BY <1>0, <2>3, GotoMoves
    <3> QED BY <1>b, <2>1, <3>1, <3>2 DEF ChecksHold, SourceTaken, AlreadyRetracted, Ids
  <2>4. ASSUME NEW j \in Settlements(c, k), \A i \in Settlements(c, k) : j <= i,
               writer' = [writer EXCEPT ![w].pc = "conserve", ![w].object = j]
        PROVE  ChecksHold(w)'
    <3>1. j \in Nat
      BY <1>b, BookAssumption DEF Settlements
    <3>2. \A i \in Settlements(c, 1) : i < j => Fits(i)
      <4> SUFFICES ASSUME NEW i \in Settlements(c, 1), i < j PROVE Fits(i)
        OBVIOUS
      <4>1. i \in Nat /\ ~(k <= i)
        BY <2>2, <2>4, <3>1
      <4> QED BY <1>b, <4>1
    <3>3. writer'[w] = [writer[w] EXCEPT !.pc = "conserve", !.object = j]
      BY <1>0, <2>4 DEF LocalsOK
    <3>4. writer'[w].pc = "conserve" /\ writer'[w].object = j
      BY <1>0, <3>3 DEF Locals
    <3> QED BY <1>b, <2>1, <3>2, <3>4 DEF ChecksHold, SourceTaken, AlreadyRetracted, Ids
  <2> QED BY <1>b, <2>3, <2>4 DEF ToConservation
<1>b0. ASSUME c \in Commands, NEW i \in Settlements(c, 1), i < 1 PROVE FALSE
  BY <1>b0, BookAssumption DEF Settlements
<1>c. ASSUME UNCHANGED book, NEW label, Goto(w, label)
      PROVE  /\ writer'[w].pc = label /\ writer'[w].cmd = c /\ writer'[w].related = target
             /\ SourceTaken(c)' <=> SourceTaken(c)
             /\ AlreadyRetracted(target)' <=> AlreadyRetracted(target)
  BY <1>0, <1>c, GotoMoves DEF SameCall, SourceTaken, AlreadyRetracted, Ids
<1>d. writer[w].pc # "idle" => c \in Commands
  BY <1>0 DEF LocalsOK
<1>1. CASE LookupCommand(w)
  BY <1>1, <1>a, <1>c DEF LookupCommand, ChecksHold
<1>2. CASE CheckSource(w)
  <2>1. CASE SourceTaken(c)
    BY <1>2, <1>a, <2>1 DEF CheckSource
  <2>2. CASE ~SourceTaken(c) /\ target = None
    BY <1>2, <1>b, <1>b0, <1>d, <2>2 DEF CheckSource
  <2>3. CASE ~SourceTaken(c) /\ target # None
    BY <1>2, <1>c, <2>3 DEF CheckSource, ChecksHold
  <2> QED BY <2>1, <2>2, <2>3
<1>3. CASE LoadOrigin(w)
  <2>1. UNCHANGED book /\ ~SourceTaken(c) /\ c \in Commands
    BY <1>3, <1>d DEF LoadOrigin, ChecksHold
  <2>2. CASE Goto(w, "retractions")
    BY <1>c, <2>1, <2>2 DEF ChecksHold
  <2>3. CASE ToConservation(w, 1) /\ ~Carries(c, "RETRACTS")
    BY <1>b, <1>b0, <2>1, <2>3
  <2> QED BY <1>3, <1>a, <2>2, <2>3 DEF LoadOrigin
<1>4. CASE CheckRetractions(w)
  <2>1. UNCHANGED book /\ ~SourceTaken(c) /\ c \in Commands
    BY <1>4, <1>d DEF CheckRetractions, ChecksHold
  <2>2. CASE Goto(w, "depth") /\ ~AlreadyRetracted(target)
    BY <1>c, <2>1, <2>2 DEF ChecksHold
  <2>3. CASE ToConservation(w, 1) /\ ~AlreadyRetracted(target)
    BY <1>b, <1>b0, <2>1, <2>3
  <2> QED BY <1>4, <1>a, <2>2, <2>3 DEF CheckRetractions
<1>5. CASE CheckDepth(w)
  <2>1. UNCHANGED book /\ ~SourceTaken(c) /\ c \in Commands /\ Free
    BY <1>5, <1>d DEF CheckDepth, ChecksHold
  <2>2. CASE ToConservation(w, 1)
    BY <1>b, <1>b0, <2>1, <2>2
  <2> QED BY <1>5, <1>a, <2>2 DEF CheckDepth
<1>6. CASE CheckConservation(w)
  <2> DEFINE k == writer[w].object
  <2>1. /\ UNCHANGED book /\ ~SourceTaken(c) /\ c \in Commands /\ Free
        /\ \A i \in Settlements(c, 1) : i < k => Fits(i)
    BY <1>6, <1>d DEF CheckConservation, ChecksHold
  <2>2. k \in Nat /\ \A i \in Settlements(c, 1) : i \in Nat
    BY <1>0, <2>1, BookAssumption DEF Locals, Settlements
  <2>3. CASE Fits(k) /\ ToConservation(w, k + 1)
    <3>1. \A i \in Settlements(c, 1) : i < k + 1 => Fits(i)
      <4> SUFFICES ASSUME NEW i \in Settlements(c, 1), i < k + 1 PROVE Fits(i)
        OBVIOUS
      <4>1. i < k \/ i = k
        BY <2>2
      <4> QED BY <2>1, <2>3, <4>1
    <3> QED BY <1>b, <2>1, <2>2, <2>3, <3>1
  <2> QED BY <1>6, <1>a, <2>3 DEF CheckConservation
<1>7. CASE ReadLastHash(w)
  <2>1. /\ UNCHANGED book /\ ~SourceTaken(c) /\ Free
        /\ \A i \in Settlements(c, 1) : Fits(i)
    BY <1>7 DEF ReadLastHash, ChecksHold
  <2>2. ASSUME NEW last \in {None} \cup Ids(book), IsLast(last),
               writer' = [writer EXCEPT ![w].pc = "save", ![w].previousHash = last,
                                        ![w].recordedAt = clock]
        PROVE  ChecksHold(w)'
    <3>1. writer'[w] = [writer[w] EXCEPT !.pc = "save", !.previousHash = last,
                                         !.recordedAt = clock]
      BY <1>0, <2>2 DEF LocalsOK
    <3>2. /\ writer'[w].pc = "save" /\ writer'[w].previousHash = last
          /\ writer'[w].recordedAt = clock
          /\ writer'[w].cmd = c /\ writer'[w].related = target
      BY <1>0, <3>1 DEF Locals
    <3>3. IsLast(last)' /\ last \in {None} \cup Ids(book)'
      BY <2>1, <2>2 DEF IsLast, Ids
    <3>4. \A i \in Ids(book)' : book'[i].recordedAt <= clock
      BY <2>1 DEF Ordered, Ids
    <3> QED BY <2>1, <3>2, <3>3, <3>4 DEF ChecksHold, SourceTaken, AlreadyRetracted, Ids
  <2> QED BY <1>7, <1>a, <2>2 DEF ReadLastHash
<1>8. CASE Save(w)
  BY <1>8, <1>a DEF Save
<1> QED BY <1>1, <1>2, <1>3, <1>4, <1>5, <1>6, <1>7, <1>8 DEF Step

\* With one writer, what its calls have checked stays true, and the book stays ordered.
LEMMA SoleInvariant ==
    ASSUME NEW w, Writers = {w}, MaxStepBack = 0
    PROVE  Spec => []SoleInv
<1>1. Init => ChecksStillHold /\ Ordered
  <2> SUFFICES ASSUME Init PROVE ChecksStillHold /\ Ordered
    OBVIOUS
  <2>1. Ids(book) = {} /\ \A v \in Writers : writer[v].pc = "idle"
    BY DEF Init, Ids, Idle, Fresh
  <2> QED BY <2>1 DEF ChecksStillHold, ChecksHold, Ordered
<1>2. LinkInv /\ LinkInv' /\ ChecksStillHold /\ Ordered /\ [Next]_vars
        => (ChecksStillHold /\ Ordered)'
  <2> SUFFICES ASSUME LinkInv, LinkInv', ChecksStillHold, Ordered, [Next]_vars
               PROVE  (ChecksStillHold /\ Ordered)'
    OBVIOUS
  <2>0. /\ TypeOK /\ LinksOK /\ LocalsOK /\ ChecksHold(w) /\ w \in Writers
        /\ writer[w] \in Locals /\ clock \in Nat /\ clock' \in Nat
    BY BookAssumption DEF LinkInv, TypeOK, LocalsOK, ChecksStillHold
  <2>a. ASSUME UNCHANGED book, clock <= clock',
               writer'[w].pc = "save" => writer'[w].recordedAt <= clock'
        PROVE  Ordered'
    <3>1. \A i \in Ids(book) : book[i].recordedAt \in Nat
      <4>1. \A i \in Ids(book) : book[i] \in Events
        BY <2>0 DEF TypeOK, Ids
      <4> QED BY <4>1 DEF Events
    <3>2. \A i \in Ids(book) : book[i].recordedAt <= clock'
      BY <2>0, <2>a, <3>1 DEF Ordered
    <3> QED BY <2>a, <3>2 DEF Ordered, Ids
  <2>b. ASSUME writer'[w].pc \in {"idle", "answered", "source", "command"} PROVE ChecksHold(w)'
    BY <2>b DEF ChecksHold
  <2>c. ChecksHold(w)' => ChecksStillHold'
    BY DEF ChecksStillHold
  <2>1. ASSUME NEW c \in Commands, NEW target \in Targets, Begin(w, c, target)
        PROVE  (ChecksStillHold /\ Ordered)'
    <3>1. writer'[w].pc \in {"source", "command"}
      BY <2>0, <2>1 DEF Begin, LocalsOK, Fresh
    <3> QED BY <2>0, <2>1, <2>a, <2>b, <2>c, <3>1 DEF Begin
  <2>2. CASE Crash(w)
    <3>1. writer'[w].pc = "idle"
      BY <2>0, <2>2 DEF Crash, LocalsOK, Idle, Fresh
    <3> QED BY <2>0, <2>2, <2>a, <2>b, <2>c, <3>1 DEF Crash
  <2>3. ASSUME NEW t \in 0..MaxClock, Tick(t) PROVE (ChecksStillHold /\ Ordered)'
    <3>1. clock <= clock' /\ UNCHANGED book /\ UNCHANGED writer
      BY <2>0, <2>3 DEF Tick
    <3>2. writer[w].recordedAt \in Nat
      BY <2>0 DEF Locals
    <3>3. writer[w].pc = "save" => writer[w].recordedAt <= clock'
      BY <2>0, <3>1, <3>2 DEF Ordered
    <3> QED BY <2>0, <2>a, <2>c, <3>1, <3>3, ChecksUnchanged
  <2>4. CASE Step(w) /\ UNCHANGED book
    <3>1. UNCHANGED clock
      BY <2>4 DEF Step, LookupCommand, CheckSource, LoadOrigin, CheckRetractions, CheckDepth,
         CheckConservation, ReadLastHash, Save
    <3>2. ChecksHold(w)'
      BY <2>0, <2>4, ChecksStep
    <3>3. writer'[w].pc = "save" => writer'[w].recordedAt <= clock'
      <4>1. ASSUME NEW label, Goto(w, label) PROVE writer'[w].pc = label
        BY <2>0, <4>1, GotoMoves
      <4>2. ASSUME NEW answer, Answer(w, answer) PROVE writer'[w].pc = "answered"
        BY <2>0, <4>2, AnswerMoves
      <4>3. ASSUME NEW k, ToConservation(w, k) PROVE writer'[w].pc # "save"
        BY <2>0, <4>3, ToConservationMoves
      <4>4. ASSUME NEW last,
                   writer' = [writer EXCEPT ![w].pc = "save", ![w].previousHash = last,
                                            ![w].recordedAt = clock]
            PROVE  writer'[w].recordedAt = clock
        <5>1. writer'[w] = [writer[w] EXCEPT !.pc = "save", !.previousHash = last,
                                             !.recordedAt = clock]
          BY <2>0, <4>4 DEF LocalsOK
        <5> QED BY <2>0, <5>1 DEF Locals
      <4>5. CASE ReadLastHash(w)
        <5>1. CASE Answer(w, Refused("invalid event"))
          BY <4>2, <5>1
        <5>2. ASSUME NEW last,
                     writer' = [writer EXCEPT ![w].pc = "save", ![w].previousHash = last,
                                              ![w].recordedAt = clock]
              PROVE  writer'[w].recordedAt <= clock'
          <6>1. writer'[w].recordedAt = clock
            BY <4>4, <5>2
          <6> QED BY <2>0, <3>1, <6>1
        <5> QED BY <4>5, <5>1, <5>2 DEF ReadLastHash
      <4> QED
        BY <2>4, <4>1, <4>2, <4>3, <4>5 DEF Step, LookupCommand, CheckSource, LoadOrigin,
           CheckRetractions, CheckDepth, CheckConservation, Save
    <3> QED BY <2>0, <2>4, <2>a, <2>c, <3>1, <3>2, <3>3
  <2>5. CASE Save(w) /\ book' # book
    <3>1. SameKey(writer[w].cmd) = {} /\ writer[w].pc = "save" /\ UNCHANGED clock
      BY <2>5 DEF Save
    <3>2. /\ NewEvent(w) \in Events /\ book' = Append(book, NewEvent(w))
          /\ Answer(w, Accepted(Len(book) + 1))
      BY <2>0, <2>5, <3>1, SaveType
    <3>3. writer'[w].pc = "answered"
      BY <2>0, <3>2, AnswerMoves
    <3>4. /\ Grows /\ Ids(book)' = Ids(book) \cup {Len(book) + 1}
          /\ book'[Len(book) + 1] = NewEvent(w)
          /\ Ids(book) = 1..Len(book) /\ Len(book) \in Nat
      BY <2>0, <3>2, SaveGrows DEF TypeOK, Ids
    <3>5. NewEvent(w).recordedAt = writer[w].recordedAt
      BY DEF NewEvent
    <3>6. /\ writer[w].recordedAt <= clock
          /\ \A i \in Ids(book) : book[i].recordedAt <= writer[w].recordedAt
      BY <2>0, <3>1 DEF Ordered, ChecksHold
    <3>7. Ordered'
      BY <3>1, <3>3, <3>4, <3>5, <3>6 DEF Ordered, Grows
    <3> QED BY <2>b, <2>c, <3>3, <3>7
  <2>6. CASE UNCHANGED vars
    BY <2>0, <2>6, <2>c, ChecksUnchanged DEF vars, Ordered, Ids
  <2>7. Step(w) /\ book' # book => Save(w)
    BY DEF Step, LookupCommand, CheckSource, LoadOrigin, CheckRetractions, CheckDepth,
       CheckConservation, ReadLastHash
  <2> QED BY <2>1, <2>2, <2>3, <2>4, <2>5, <2>6, <2>7 DEF Next
<1> QED BY <1>1, <1>2, LinkInvariant, PTL DEF Spec, SoleInv

\* A save by the sole writer records an event the book it joins admits, linked to the last.
LEMMA SaveIsRecord ==
    ASSUME NEW w \in Writers, SoleInv, Save(w), book' # book
    PROVE  Atomic!Record(writer[w].cmd, writer[w].related, writer[w].recordedAt)
<1> DEFINE c == writer[w].cmd  target == writer[w].related
<1>0. /\ TypeOK /\ LinksHold(w) /\ ChecksHold(w) /\ Ordered
      /\ writer[w].pc = "save" /\ SameKey(c) = {}
  BY DEF SoleInv, LinkInv, LinksOK, ChecksStillHold, Save
<1>1. book' = Append(book, NewEvent(w)) /\ c \in Commands
  BY <1>0, SaveType DEF TypeOK, LocalsOK
<1>2. writer[w].previousHash = Len(book)
  BY <1>0, LastIsLatest DEF ChecksHold
<1>3. book' = Append(book, [cmd |-> c, related |-> target, previousHash |-> Len(book),
                            recordedAt |-> writer[w].recordedAt])
  BY <1>1, <1>2 DEF NewEvent
<1>4. Admissible(book, c, target)
  <2>1. \A i \in Ids(book) : /\ book[i].cmd.ref # c.ref
                             /\ c.commandId # NoKey => book[i].cmd.commandId # c.commandId
    BY <1>0 DEF ChecksHold, SourceTaken, SameKey
  <2>2. ASSUME target # None
        PROVE  LET allowed == EVENT_CONTRACTS[c.eventType].allowedOriginTypes
               IN  /\ target \in Ids(book)
                   /\ allowed # {} => book[target].cmd.eventType \in allowed
    BY <1>0, <2>2 DEF LinksHold, WrongOrigin
  <2>3. ASSUME target # None, Carries(c, "RETRACTS")
        PROVE  /\ \A i \in Ids(book) : ~Retracts(book, i, target)
               /\ IsRetraction(book, target) => ~IsRetraction(book, book[target].related)
    BY <1>0, <2>3 DEF LinksHold, ChecksHold, AlreadyRetracted
  <2>4. ASSUME NEW k \in DOMAIN c.objects, c.objects[k].relation = "SETTLES"
        PROVE  LET t == foldObjectTotals(book, c.objects[k].objectId)
               IN  t.hasReversal \/ t.originated = 0 \/ ~(t.closed + c.amount > t.originated)
    <3>1. k \in Settlements(c, 1)
      BY <1>1, <2>4, BookAssumption DEF Settlements
    <3> QED BY <1>0, <3>1 DEF ChecksHold, Overcloses
  <2>5. ValidEvent(c, target, Len(book))
    BY <1>0, <1>2 DEF LinksHold
  <2> QED BY <2>1, <2>2, <2>3, <2>4, <2>5 DEF Admissible
<1>5. \A i \in DOMAIN book : book[i].recordedAt <= writer[w].recordedAt
  BY <1>0 DEF ChecksHold, Ids
<1> QED BY <1>3, <1>4, <1>5 DEF Atomic!Record

\* Every change of the book by the sole writer is a step of AtomicBook.
LEMMA SoleSteps ==
    ASSUME NEW w, Writers = {w}, SoleInv, [Next]_vars
    PROVE  [Atomic!Next]_book
<1>1. CASE UNCHANGED book
  BY <1>1
<1>2. CASE Save(w) /\ book' # book
  <2>1. Atomic!Record(writer[w].cmd, writer[w].related, writer[w].recordedAt)
    BY <1>2, SaveIsRecord
  <2>2. writer[w] \in Locals /\ writer[w].cmd \in Commands
    BY <1>2 DEF SoleInv, LinkInv, TypeOK, LocalsOK, Save
  <2>3. writer[w].recordedAt \in 0..MaxClock
    BY <2>2 DEF Locals
  <2>4. writer[w].related \in {0} \cup DOMAIN book
    BY <1>2 DEF SoleInv, LinkInv, LinksOK, LinksHold, Save, None, Ids
  <2> QED BY <2>1, <2>2, <2>3, <2>4 DEF Atomic!Next
<1> QED
  BY <1>1, <1>2 DEF Next, vars, Begin, Step, LookupCommand, CheckSource, LoadOrigin,
     CheckRetractions, CheckDepth, CheckConservation, ReadLastHash, Crash, Tick

\* One writer's checks and its save, taken together, are one atomic admission: Book with a
\* single writer and a clock that never goes back implements AtomicBook.
THEOREM SoleWriterIsAtomic ==
    ASSUME NEW w, Writers = {w}, MaxStepBack = 0
    PROVE  Spec => ImplementsAtomicBook
<1>1. Init => Atomic!Init
  BY DEF Init, Atomic!Init
<1>2. SoleInv /\ [Next]_vars => [Atomic!Next]_book
  BY SoleSteps
<1>3. Spec => []SoleInv
  BY SoleInvariant
<1> QED BY <1>1, <1>2, <1>3, PTL DEF Spec, ImplementsAtomicBook, Atomic!Spec

\* The rules that relate two events of the book, and the linear hash chain.
Unique == SourceReferenceUnique /\ OneRetractionPerTarget /\ HashChainLinear

\* An atomic admission keeps source references unique, retractions a chain, and the hash
\* chain linear.
LEMMA RecordKeepsUnique ==
    ASSUME TypeOK, LineageGrounded, Unique, NEW c \in Commands, NEW target,
           NEW at \in 0..MaxClock, target \in {None} \cup Ids(book),
           Atomic!Record(c, target, at)
    PROVE  Unique'
<1> DEFINE new == Len(book) + 1
           e == [cmd |-> c, related |-> target, previousHash |-> Len(book), recordedAt |-> at]
<1>0. Len(book) \in Nat /\ Ids(book) = 1..Len(book) /\ Len(book) <= MaxEvents
  BY DEF TypeOK, Ids
<1>1. e \in Events
  BY <1>0, BookAssumption DEF Events, None, UnknownId
<1>2. book' = Append(book, e) /\ Admissible(book, c, target)
  BY DEF Atomic!Record
<1>3. /\ Grows /\ Ids(book)' = Ids(book) \cup {new}
      /\ book'[new] = e /\ new \notin Ids(book)
  BY <1>0, <1>1, <1>2, SaveGrows
<1>4. e.cmd = c /\ e.related = target /\ e.previousHash = Len(book)
  OBVIOUS
<1> HIDE DEF e
<1>5. SourceReferenceUnique'
  <2>1. \A i \in Ids(book) : book'[i].cmd.ref # book'[new].cmd.ref
    BY <1>2, <1>3, <1>4 DEF Admissible, Grows
  <2> QED BY <1>3, <2>1 DEF Unique, SourceReferenceUnique, Grows
<1>6. OneRetractionPerTarget'
  <2> SUFFICES ASSUME NEW i \in Ids(book)', NEW j \in Ids(book)', NEW t \in Ids(book)',
                      Retracts(book', i, t), Retracts(book', j, t)
               PROVE  i = j
    BY DEF OneRetractionPerTarget
  <2>1. ASSUME NEW k \in Ids(book), Retracts(book', k, t)
        PROVE  Retracts(book, k, t) /\ t \in Ids(book)
    <3>1. book'[k] = book[k]
      BY <1>3 DEF Grows
    <3>2. Retracts(book, k, t) /\ book[k].related = t /\ t # None
      BY <2>1, <3>1 DEF Retracts, IsRetraction
    <3> QED BY <3>2, TargetRecorded
  <2>2. ASSUME NEW k \in Ids(book), Retracts(book', k, t), Retracts(book', new, t)
        PROVE  FALSE
    <3>1. Carries(c, "RETRACTS") /\ target = t /\ t # None
      BY <1>3, <1>4, <2>2 DEF Retracts, IsRetraction
    <3>2. \A n \in Ids(book) : ~Retracts(book, n, t)
      BY <1>2, <3>1 DEF Admissible
    <3> QED BY <2>1, <2>2, <3>2
  <2>3. CASE i \in Ids(book) /\ j \in Ids(book)
    BY <2>1, <2>3 DEF Unique, OneRetractionPerTarget
  <2> QED BY <1>3, <2>2, <2>3
<1>7. HashChainLinear'
  BY <1>0, <1>3, <1>4 DEF Unique, HashChainLinear, Grows
<1> QED BY <1>5, <1>6, <1>7 DEF Unique

\* With a single writer and a clock that never goes back, no source reference is recorded
\* twice, no event is retracted twice, and every event links to the one before it.
THEOREM SoleWriterIsUnique ==
    ASSUME NEW w, Writers = {w}, MaxStepBack = 0
    PROVE  Spec => [](SourceReferenceUnique /\ OneRetractionPerTarget /\ HashChainLinear)
<1>1. Init => Unique
  BY DEF Init, Unique, SourceReferenceUnique, OneRetractionPerTarget, HashChainLinear, Ids
<1>2. SoleInv /\ Unique /\ [Next]_vars => Unique'
  <2> SUFFICES ASSUME SoleInv, Unique, [Next]_vars PROVE Unique'
    OBVIOUS
  <2>1. [Atomic!Next]_book
    BY SoleSteps
  <2>2. CASE UNCHANGED book
    BY <2>2 DEF Unique, SourceReferenceUnique, OneRetractionPerTarget, HashChainLinear, Ids,
       Retracts, IsRetraction
  <2>3. CASE Atomic!Next
    <3>1. PICK c \in Commands, target \in {0} \cup DOMAIN book, at \in 0..MaxClock :
                Atomic!Record(c, target, at)
      BY <2>3 DEF Atomic!Next
    <3>2. TypeOK /\ LineageGrounded /\ target \in {None} \cup Ids(book)
      BY DEF SoleInv, LinkInv, None, Ids
    <3> QED BY <3>1, <3>2, RecordKeepsUnique
  <2> QED BY <2>1, <2>2, <2>3
<1>3. Spec => []SoleInv
  BY SoleInvariant
<1> QED BY <1>1, <1>2, <1>3, PTL DEF Spec, Unique

\* Among the events of an object, the fold and the SQL call the same ones retracted, if an
\* event is retracted once and retractions name the objects of what they retract.
LEMMA SameRetracted ==
    ASSUME OneRetractionPerTarget, RetractionsNameTheirTarget, NEW object
    PROVE  EventsOf(book, object) \ retractedEventIds(book, EventsOf(book, object))
              = EventsOf(book, object) \ SqlRetracted(book)
<1> DEFINE S == EventsOf(book, object)
<1>0. S \subseteq Ids(book)
  BY DEF EventsOf
<1>1. ASSUME NEW r \in Ids(book), NEW t \in S, Retracts(book, r, t) PROVE r \in S
  <2>1. IsRetraction(book, r) /\ book[r].related = t
    BY <1>1 DEF Retracts
  <2>2. PICK o \in Range(book[t].cmd.objects) : o.objectId = object
    BY DEF EventsOf
  <2> QED BY <1>1, <2>1, <2>2 DEF RetractionsNameTheirTarget
<1> HIDE DEF S
<1>2. ASSUME NEW t \in S
      PROVE  t \in retractedEventIds(book, S) <=> t \in SqlRetracted(book)
  <2>1. ASSUME t \in retractedEventIds(book, S) PROVE t \in SqlRetracted(book)
    <3>1. PICK r \in S : Retracts(book, r, t) /\ \A q \in S : ~Retracts(book, q, r)
      BY <2>1 DEF retractedEventIds
    <3>2. \A q \in Ids(book) : ~Retracts(book, q, r)
      BY <1>1, <3>1
    <3> QED BY <1>0, <3>1, <3>2 DEF SqlRetracted
  <2>2. ASSUME t \in SqlRetracted(book) PROVE t \in retractedEventIds(book, S)
    <3>1. PICK r \in Ids(book) : Retracts(book, r, t) /\ \A q \in Ids(book) : ~Retracts(book, q, r)
      BY <2>2 DEF SqlRetracted
    <3>2. r \in S
      BY <1>1, <3>1
    <3>3. \A q \in S : Retracts(book, q, t) => q = r
      BY <1>0, <3>1 DEF OneRetractionPerTarget
    <3> QED BY <1>0, <3>1, <3>2, <3>3 DEF retractedEventIds
  <2> QED BY <2>1, <2>2
<1> QED BY <1>2 DEF S

\* With a single writer, the guard that admits a settlement and the listings never disagree
\* about a position, as long as retractions name the objects of what they retract
\* (CreateLedgerEventUseCase.execute against the aggregates of the repository).
THEOREM GuardAndReadsAgree ==
    ASSUME NEW w, Writers = {w}, MaxStepBack = 0
    PROVE  Spec => []GuardAgreesWithReads
<1>1. OneRetractionPerTarget => GuardAgreesWithReads
  <2> SUFFICES ASSUME OneRetractionPerTarget, RetractionsNameTheirTarget, NEW object \in ObjectIds
               PROVE  foldObjectTotals(book, object) = SqlObjectTotals(book, object)
    BY DEF GuardAgreesWithReads
  <2> QED BY SameRetracted DEF foldObjectTotals, SqlObjectTotals
<1>2. Spec => [](SourceReferenceUnique /\ OneRetractionPerTarget /\ HashChainLinear)
  BY SoleWriterIsUnique
<1> QED BY <1>1, <1>2, PTL
-----------------------------------------------------------------------------
(* Sums.  A sum is a fold over a set that takes its elements in an order nobody knows. *)

\* A set of naturals that holds something has a least element.
LEMMA LeastNatural ==
    ASSUME NEW T \in SUBSET Nat, T # {}
    PROVE  \E x \in T : \A y \in T : x <= y
<1> DEFINE R == {ss \in Nat \X Nat : ss[1] < ss[2]}
<1>1. IsWellFoundedOn(R, Nat)
  BY NatLessThanWellFounded, Zenon DEF OpToRel
<1> HIDE DEF R
<1>2. PICK x \in T : \A y \in T : ~(<<y, x>> \in R)
  BY <1>1, WFMin, Zenon
<1>3. \A y \in T : ~(y < x)
  <2>1. ASSUME NEW y \in T, y < x PROVE <<y, x>> \in R
    BY <2>1 DEF R
  <2> QED BY <1>2, <2>1
<1> QED BY <1>3

\* Induction, for a set of naturals.
LEMMA AllNaturals ==
    ASSUME NEW T, 0 \in T, \A n \in Nat : n \in T => n + 1 \in T
    PROVE  Nat \subseteq T
<1> SUFFICES ASSUME Nat \ T # {} PROVE FALSE
  OBVIOUS
<1>1. PICK x \in Nat \ T : \A y \in Nat \ T : x <= y
  BY LeastNatural
<1>2. x # 0 /\ x - 1 \in Nat
  BY <1>1
<1>3. x - 1 \in T
  BY <1>1, <1>2
<1> QED BY <1>1, <1>2, <1>3

\* The next element a fold takes, and the function it is the fold of.
Pick(s) == CHOOSE x \in s : TRUE

Adds(f, S, g) == g = [s \in SUBSET S |-> IF s = {} THEN 0 ELSE f[Pick(s)] + g[s \ {Pick(s)}]]

LEMMA SumIs ==
    ASSUME NEW f, NEW S
    PROVE  SumFunctionOnSet(f, S) = (CHOOSE g : Adds(f, S, g))[S]
BY Zenon DEF SumFunctionOnSet, FoldFunctionOnSet, MapThenFoldSet, Adds, Pick

LEMMA PickIsIn == ASSUME NEW s, s # {} PROVE Pick(s) \in s
BY Zenon DEF Pick

LEMMA OneLess ==
    ASSUME NEW s, IsFiniteSet(s), NEW x \in s
    PROVE  /\ IsFiniteSet(s \ {x}) /\ Cardinality(s) \in Nat /\ Cardinality(s \ {x}) \in Nat
           /\ Cardinality(s \ {x}) = Cardinality(s) - 1
BY FS_RemoveElement, FS_CardinalityType

LEMMA AddsExists ==
    ASSUME NEW f, NEW S, IsFiniteSet(S)
    PROVE  \E g : Adds(f, S, g)
<1> DEFINE Sub(n) == {s \in SUBSET S : Cardinality(s) <= n}
           Part(n, g) == g = [s \in Sub(n) |-> IF s = {} THEN 0 ELSE f[Pick(s)] + g[s \ {Pick(s)}]]
           T == {n \in Nat : \E g : Part(n, g)}
<1>0. \A s \in SUBSET S : IsFiniteSet(s) /\ Cardinality(s) \in Nat
  BY FS_Subset, FS_CardinalityType
<1>1. 0 \in T
  <2>1. Sub(0) = {{}}
    BY <1>0, FS_EmptySet
  <2>2. Part(0, [s \in Sub(0) |-> 0])
    BY <2>1
  <2> QED BY <2>2
<1>2. ASSUME NEW n \in Nat, n \in T PROVE n + 1 \in T
  <2>1. PICK g : Part(n, g)
    BY <1>2
  <2> DEFINE h == [s \in Sub(n + 1) |-> IF s = {} THEN 0 ELSE f[Pick(s)] + g[s \ {Pick(s)}]]
  <2>2. \A t \in Sub(n) : t \in Sub(n + 1) /\ h[t] = g[t]
    <3> SUFFICES ASSUME NEW t \in Sub(n) PROVE t \in Sub(n + 1) /\ h[t] = g[t]
      OBVIOUS
    <3>1. t \in Sub(n + 1)
      BY <1>0
    <3>2. g[t] = IF t = {} THEN 0 ELSE f[Pick(t)] + g[t \ {Pick(t)}]
      BY <2>1
    <3> QED BY <3>1, <3>2
  <2>3. \A s \in Sub(n + 1) : s # {} => s \ {Pick(s)} \in Sub(n)
    <3> SUFFICES ASSUME NEW s \in Sub(n + 1), s # {} PROVE s \ {Pick(s)} \in Sub(n)
      OBVIOUS
    <3>1. Cardinality(s \ {Pick(s)}) = Cardinality(s) - 1 /\ Cardinality(s) \in Nat
      BY <1>0, PickIsIn, OneLess
    <3> QED BY <3>1
  <2>4. \A s \in Sub(n + 1) : h[s] = IF s = {} THEN 0 ELSE f[Pick(s)] + h[s \ {Pick(s)}]
    BY <2>2, <2>3
  <2> HIDE DEF Sub
  <2>5. Part(n + 1, h)
    BY <2>4
  <2> HIDE DEF h, Part
  <2> QED BY <2>5
<1> HIDE DEF T
<1>3. Cardinality(S) \in T
  BY <1>0, <1>1, <1>2, AllNaturals
<1>4. PICK g : Part(Cardinality(S), g)
  BY <1>3 DEF T
<1>5. Sub(Cardinality(S)) = SUBSET S
  BY FS_Subset
<1> HIDE DEF Sub
<1>6. Adds(f, S, g)
  BY <1>4, <1>5 DEF Adds
<1> QED BY <1>6

LEMMA AddsAgree ==
    ASSUME NEW f, NEW S, IsFiniteSet(S), NEW e, NEW R, NEW g, NEW h, Adds(f, S, g), Adds(e, R, h),
           \A x \in S \cap R : f[x] = e[x]
    PROVE  \A s \in SUBSET (S \cap R) : g[s] = h[s]
<1> DEFINE T == {n \in Nat : \A s \in SUBSET (S \cap R) : Cardinality(s) = n => g[s] = h[s]}
<1>0. \A s \in SUBSET (S \cap R) : IsFiniteSet(s) /\ Cardinality(s) \in Nat
  BY FS_Subset, FS_CardinalityType
<1>1. ASSUME NEW s \in SUBSET (S \cap R)
      PROVE  /\ g[s] = IF s = {} THEN 0 ELSE f[Pick(s)] + g[s \ {Pick(s)}]
             /\ h[s] = IF s = {} THEN 0 ELSE e[Pick(s)] + h[s \ {Pick(s)}]
  BY DEF Adds
<1>2. 0 \in T
  BY <1>0, <1>1, FS_EmptySet
<1>3. ASSUME NEW n \in Nat, n \in T PROVE n + 1 \in T
  <2> SUFFICES ASSUME NEW s \in SUBSET (S \cap R), Cardinality(s) = n + 1 PROVE g[s] = h[s]
    OBVIOUS
  <2>1. s # {}
    BY FS_EmptySet
  <2>2. Pick(s) \in s /\ Cardinality(s \ {Pick(s)}) = n
    BY <1>0, <2>1, PickIsIn, OneLess
  <2>3. g[s \ {Pick(s)}] = h[s \ {Pick(s)}] /\ f[Pick(s)] = e[Pick(s)]
    BY <1>3, <2>2
  <2> QED BY <1>1, <2>1, <2>3
<1> HIDE DEF T
<1>4. Nat \subseteq T
  BY <1>2, <1>3, AllNaturals
<1> QED BY <1>0, <1>4 DEF T

\* What a sum is, and that it only depends on what is summed.
LEMMA SumSame ==
    ASSUME NEW f, NEW S, IsFiniteSet(S), NEW e, \A x \in S : f[x] = e[x]
    PROVE  SumFunctionOnSet(f, S) = SumFunctionOnSet(e, S)
<1>1. /\ Adds(f, S, CHOOSE g : Adds(f, S, g)) /\ Adds(e, S, CHOOSE g : Adds(e, S, g))
  BY AddsExists, Zenon
<1>2. PICK g : g = CHOOSE x : Adds(f, S, x)
  OBVIOUS
<1>3. PICK h : h = CHOOSE x : Adds(e, S, x)
  OBVIOUS
<1>4. g[S] = h[S]
  BY <1>1, <1>2, <1>3, AddsAgree
<1> QED BY <1>2, <1>3, <1>4, SumIs

LEMMA SumEmpty == ASSUME NEW f PROVE SumFunctionOnSet(f, {}) = 0
<1>0. IsFiniteSet({})
  BY FS_EmptySet
<1>1. PICK g : g = CHOOSE x : Adds(f, {}, x)
  OBVIOUS
<1>2. Adds(f, {}, g)
  BY <1>0, <1>1, AddsExists, Zenon
<1>3. g[{}] = 0
  BY <1>2 DEF Adds
<1> QED BY <1>1, <1>3, SumIs

\* The elements may be added in any order.
LEMMA SumRemove ==
    ASSUME NEW f, NEW S, IsFiniteSet(S), \A x \in S : f[x] \in Nat
    PROVE  /\ SumFunctionOnSet(f, S) \in Nat
           /\ \A x \in S : SumFunctionOnSet(f, S) = f[x] + SumFunctionOnSet(f, S \ {x})
<1>1. PICK g : g = CHOOSE x : Adds(f, S, x)
  OBVIOUS
<1>2. Adds(f, S, g)
  BY <1>1, AddsExists, Zenon
<1>3. ASSUME NEW s \in SUBSET S
      PROVE  g[s] = IF s = {} THEN 0 ELSE f[Pick(s)] + g[s \ {Pick(s)}]
  BY <1>2 DEF Adds
<1>0. \A s \in SUBSET S : IsFiniteSet(s) /\ Cardinality(s) \in Nat
  BY FS_Subset, FS_CardinalityType
<1> DEFINE Good(s) == g[s] \in Nat /\ \A x \in s : g[s] = f[x] + g[s \ {x}]
           T == {n \in Nat : \A s \in SUBSET S : Cardinality(s) <= n => Good(s)}
<1>9. Good({})
  BY <1>3
<1> HIDE DEF Good
<1>4. 0 \in T
  <2>1. \A s \in SUBSET S : Cardinality(s) <= 0 => s = {}
    BY <1>0, FS_EmptySet
  <2> QED BY <1>9, <2>1
<1>5. ASSUME NEW n \in Nat, n \in T PROVE n + 1 \in T
  <2>0. \A s \in SUBSET S : Cardinality(s) <= n => Good(s)
    BY <1>5
  <2> SUFFICES ASSUME NEW s \in SUBSET S, Cardinality(s) = n + 1 PROVE Good(s)
    <3>1. \A k \in Nat : k <= n + 1 => k <= n \/ k = n + 1
      OBVIOUS
    <3> QED BY <1>0, <2>0, <3>1
  <2>1. PICK p : p = Pick(s)
    OBVIOUS
  <2>2. p \in s /\ g[s] = f[p] + g[s \ {p}]
    <3>1. s # {}
      BY FS_EmptySet
    <3> QED BY <1>3, <2>1, <3>1, PickIsIn
  <2>3. \A x \in s : /\ s \ {x} \in SUBSET S /\ g[s \ {x}] \in Nat
                     /\ \A y \in s \ {x} : g[s \ {x}] = f[y] + g[(s \ {x}) \ {y}]
    <3> SUFFICES ASSUME NEW x \in s
                 PROVE  /\ s \ {x} \in SUBSET S /\ g[s \ {x}] \in Nat
                        /\ \A y \in s \ {x} : g[s \ {x}] = f[y] + g[(s \ {x}) \ {y}]
      OBVIOUS
    <3>1. Cardinality(s \ {x}) = n
      BY <1>0, OneLess
    <3>2. s \ {x} \in SUBSET S /\ n <= n
      OBVIOUS
    <3>3. Good(s \ {x})
      BY <2>0, <3>1, <3>2
    <3> QED BY <3>2, <3>3 DEF Good
  <2>4. ASSUME NEW x \in s PROVE g[s] = f[x] + g[s \ {x}]
    <3>1. CASE x = p
      BY <2>2, <3>1
    <3>2. CASE x # p
      <4>1. g[s \ {p}] = f[x] + g[(s \ {p}) \ {x}]
        BY <2>2, <2>3, <3>2
      <4>2. g[s \ {x}] = f[p] + g[(s \ {x}) \ {p}]
        BY <2>2, <2>3, <3>2
      <4>3. (s \ {p}) \ {x} = (s \ {x}) \ {p}
        OBVIOUS
      <4>4. PICK rest : rest = g[(s \ {p}) \ {x}]
        OBVIOUS
      <4>5. rest \in Nat
        <5>1. IsFiniteSet(s \ {p}) /\ Cardinality(s \ {p}) = n
          BY <1>0, <2>2, OneLess
        <5>2. (s \ {p}) \ {x} \in SUBSET S /\ Cardinality((s \ {p}) \ {x}) = n - 1
          BY <3>2, <5>1, OneLess
        <5> QED BY <2>0, <4>4, <5>2 DEF Good
      <4> QED BY <2>2, <4>1, <4>2, <4>3, <4>4, <4>5
    <3> QED BY <3>1, <3>2
  <2>5. g[s] \in Nat
    <3>1. f[p] \in Nat /\ g[s \ {p}] \in Nat
      BY <2>2, <2>3
    <3> QED BY <2>2, <3>1
  <2> QED BY <2>4, <2>5 DEF Good
<1> HIDE DEF T
<1>6. Nat \subseteq T
  BY <1>4, <1>5, AllNaturals
<1>7. g[S] \in Nat /\ \A x \in S : g[S] = f[x] + g[S \ {x}]
  BY <1>0, <1>6 DEF T, Good
<1>8. \A s \in SUBSET S : SumFunctionOnSet(f, s) = g[s]
  <2> SUFFICES ASSUME NEW s \in SUBSET S PROVE SumFunctionOnSet(f, s) = g[s]
    OBVIOUS
  <2>1. PICK h : h = CHOOSE x : Adds(f, s, x)
    OBVIOUS
  <2>2. Adds(f, s, h)
    BY <1>0, <2>1, AddsExists, Zenon
  <2>3. g[s] = h[s]
    BY <1>2, <2>2, AddsAgree
  <2> QED BY <2>1, <2>3, SumIs
<1> QED BY <1>7, <1>8
-----------------------------------------------------------------------------
(* Conservation. *)

LEMMA FiniteBelow == ASSUME NEW n \in Nat, NEW S \in SUBSET (1..n) PROVE IsFiniteSet(S)
<1>1. IsFiniteSet(1..n)
  BY FS_Interval
<1> QED BY <1>1, FS_Subset

LEMMA MentionsCount ==
    ASSUME NEW c \in Commands, NEW event, event.cmd = c, NEW object, NEW relations
    PROVE  Mentions(event, object, relations) \in Nat
<1>1. PICK objects \in Seq([objectId : STRING, objectType : ObjectTypes, relation : Relations]) : objects = c.objects
  BY BookAssumption
<1>2. DOMAIN objects = 1..Len(objects) /\ Len(objects) \in Nat
  BY <1>1
<1>3. IsFiniteSet({k \in DOMAIN objects : objects[k].objectId = object /\ objects[k].relation \in relations})
  BY <1>2, FiniteBelow
<1> QED BY <1>1, <1>3, FS_CardinalityType DEF Mentions, Quantify

\* An event whose one role on an object is to settle it mentions it in no other way.
LEMMA OnlySettles ==
    ASSUME NEW c \in Commands, NEW event, event.cmd = c, NEW object,
           Mentions(event, object, {"SETTLES"}) = 1, Mentions(event, object, Relations) = 1
    PROVE  /\ \E k \in DOMAIN c.objects : c.objects[k].objectId = object /\ c.objects[k].relation = "SETTLES"
           /\ Mentions(event, object, {"SETTLES", "ADJUSTS"}) = 1
           /\ Mentions(event, object, {"ORIGINATES"}) = 0
<1>1. PICK objects \in Seq([objectId : STRING, objectType : ObjectTypes, relation : Relations]) : objects = c.objects
  BY BookAssumption
<1>2. /\ DOMAIN objects = 1..Len(objects) /\ Len(objects) \in Nat
      /\ \A k \in DOMAIN objects : objects[k].relation \in Relations
  <2> DEFINE Objects == [objectId : STRING, objectType : ObjectTypes, relation : Relations]
  <2>1. \A o \in Objects : o.relation \in Relations
    OBVIOUS
  <2>2. objects \in Seq(Objects)
    OBVIOUS
  <2> HIDE DEF Objects
  <2> QED BY <2>1, <2>2
<1> DEFINE At(relations) == {k \in DOMAIN objects : objects[k].objectId = object /\ objects[k].relation \in relations}
<1>3. ASSUME NEW relations PROVE IsFiniteSet(At(relations))
  BY <1>2, FiniteBelow
<1>4. \A relations : Mentions(event, object, relations) = Cardinality(At(relations))
  BY <1>1 DEF Mentions, Quantify
<1>5. PICK k : At({"SETTLES"}) = {k}
  BY <1>3, <1>4, FS_Singleton
<1>6. PICK j : At(Relations) = {j}
  BY <1>3, <1>4, FS_Singleton
<1>7. k \in DOMAIN objects /\ objects[k].objectId = object /\ objects[k].relation = "SETTLES"
  BY <1>5
<1>8. \A i \in DOMAIN objects : objects[i].objectId = object => i = k
  <2>1. \A i \in DOMAIN objects : objects[i].objectId = object => i \in At(Relations)
    BY <1>2
  <2> QED BY <1>6, <1>7, <2>1
<1>9. At({"SETTLES", "ADJUSTS"}) = {k} /\ At({"ORIGINATES"}) = {}
  BY <1>7, <1>8
<1> HIDE DEF At
<1>10. Cardinality({k}) = 1 /\ Cardinality({}) = 0
  BY FS_Singleton, FS_EmptySet
<1> QED BY <1>1, <1>4, <1>7, <1>9, <1>10

\* The events S of book b, and event n of book d besides.
OneMore(b, S, d, n) ==
    /\ IsFiniteSet(S) /\ n \notin S
    /\ \A i \in S : d[i] = b[i]
    /\ \A i \in S \cup {n} : d[i].cmd \in Commands

\* One more event adds what it says.
LEMMA UnitsAdd ==
    ASSUME NEW b, NEW d, NEW S, NEW n, NEW object, NEW relations, OneMore(b, S, d, n)
    PROVE  /\ Units(b, S, object, relations) \in Nat
           /\ Units(d, S \cup {n}, object, relations)
                = Units(b, S, object, relations) + d[n].cmd.amount * Mentions(d[n], object, relations)
<1> DEFINE Of(x) == x.cmd.amount * Mentions(x, object, relations)
           f == [i \in S \cup {n} |-> Of(d[i])]
           e == [i \in S |-> Of(b[i])]
<1>0. /\ IsFiniteSet(S) /\ n \notin S
      /\ \A i \in S : d[i] = b[i]
      /\ \A i \in S \cup {n} : d[i].cmd \in Commands
  BY DEF OneMore
<1>1. \A i \in S \cup {n} : Of(d[i]) \in Nat
  <2> SUFFICES ASSUME NEW i \in S \cup {n} PROVE Of(d[i]) \in Nat
    OBVIOUS
  <2>1. d[i].cmd.amount \in Nat /\ Mentions(d[i], object, relations) \in Nat
    BY <1>0, MentionsCount, BookAssumption
  <2>2. \A x, y \in Nat : x * y \in Nat
    OBVIOUS
  <2> QED BY <2>1, <2>2
<1> HIDE DEF Of
<1>2. IsFiniteSet(S \cup {n}) /\ (S \cup {n}) \ {n} = S
  BY <1>0, FS_AddElement
<1>3. /\ \A i \in S \cup {n} : f[i] \in Nat
      /\ \A i \in S : e[i] \in Nat /\ f[i] = e[i]
      /\ f[n] = Of(d[n]) /\ DOMAIN f = S \cup {n} /\ DOMAIN e = S
  BY <1>0, <1>1
<1>4. Units(b, S, object, relations) = SumFunctionOnSet(e, S)
  BY <1>3, Zenon DEF Units, Of, SumFunction
<1>5. Units(d, S \cup {n}, object, relations) = SumFunctionOnSet(f, S \cup {n})
  BY <1>3, Zenon DEF Units, Of, SumFunction
<1> HIDE DEF f, e
<1>6. SumFunctionOnSet(e, S) \in Nat
  BY <1>0, <1>3, SumRemove
<1>7. SumFunctionOnSet(f, S \cup {n}) = f[n] + SumFunctionOnSet(f, S)
  BY <1>2, <1>3, SumRemove
<1>8. SumFunctionOnSet(f, S) = SumFunctionOnSet(e, S)
  BY <1>0, <1>3, SumSame
<1>9. f[n] \in Nat
  BY <1>3
<1> QED BY <1>3, <1>4, <1>5, <1>6, <1>7, <1>8, <1>9 DEF Of

\* An event that retracts nothing joins the standing events of the objects it names.
LEMMA StandingGrows ==
    ASSUME TypeOK, LineageGrounded, Grows, NEW new, new \notin Ids(book),
           Ids(book)' = Ids(book) \cup {new}, ~IsRetraction(book', new),
           NEW object, \E o \in Range(book'[new].cmd.objects) : o.objectId = object
    PROVE  LET S == EventsOf(book, object)  T == EventsOf(book', object) IN
           T \ retractedEventIds(book', T) = (S \ retractedEventIds(book, S)) \cup {new}
<1> DEFINE S == EventsOf(book, object)  T == EventsOf(book', object)
<1>1. T = S \cup {new} /\ S \subseteq Ids(book)
  BY DEF EventsOf, Grows, Ids
<1>2. \A r \in T : \A t : Retracts(book', r, t) <=> r \in S /\ Retracts(book, r, t)
  BY <1>1 DEF Retracts, IsRetraction, Grows
<1>3. \A r \in S : \A t : Retracts(book, r, t) => t \in Ids(book)
  BY <1>1, TargetRecorded DEF Retracts, IsRetraction
<1>4. \A q, r \in S : Before(book', q, r) <=> Before(book, q, r)
  BY <1>1 DEF Before, Grows
<1>5. DOMAIN book' = Ids(book) \cup {new}
  BY DEF Ids
<1>6. retractedEventIds(book', T) = retractedEventIds(book, S)
  <2> HIDE DEF S, T
  <2>1. ASSUME NEW t \in retractedEventIds(book', T) PROVE t \in retractedEventIds(book, S)
    <3>1. PICK r \in T : /\ Retracts(book', r, t)
                         /\ \A q \in T : Retracts(book', q, t) => q = r \/ Before(book', q, r)
                         /\ \A q \in T : ~Retracts(book', q, r)
      BY DEF retractedEventIds
    <3>2. r \in S /\ Retracts(book, r, t) /\ t \in Ids(book)
      BY <1>2, <1>3, <3>1
    <3>3. \A q \in S : Retracts(book, q, t) => q = r \/ Before(book, q, r)
      BY <1>1, <1>2, <1>4, <3>1, <3>2
    <3>4. \A q \in S : ~Retracts(book, q, r)
      BY <1>1, <1>2, <3>1
    <3> QED BY <3>2, <3>3, <3>4 DEF retractedEventIds
  <2>2. ASSUME NEW t \in retractedEventIds(book, S) PROVE t \in retractedEventIds(book', T)
    <3>1. PICK r \in S : /\ Retracts(book, r, t)
                         /\ \A q \in S : Retracts(book, q, t) => q = r \/ Before(book, q, r)
                         /\ \A q \in S : ~Retracts(book, q, r)
      BY DEF retractedEventIds
    <3>2. r \in T /\ Retracts(book', r, t) /\ t \in Ids(book')
      BY <1>1, <1>2, <1>3, <1>5, <3>1 DEF Ids
    <3>3. \A q \in T : Retracts(book', q, t) => q = r \/ Before(book', q, r)
      BY <1>2, <1>4, <3>1
    <3>4. \A q \in T : ~Retracts(book', q, r)
      BY <1>2, <3>1
    <3> QED BY <3>2, <3>3, <3>4 DEF retractedEventIds
  <2> QED BY <2>1, <2>2
<1>7. new \notin retractedEventIds(book, S)
  BY DEF retractedEventIds
<1> QED BY <1>1, <1>6, <1>7

\* What an admitted event that settles an object and does nothing else to it makes of its totals.
LEMMA RecordConserves ==
    ASSUME TypeOK, LineageGrounded, NEW c \in Commands, NEW target, NEW at \in 0..MaxClock,
           target \in {None} \cup Ids(book), Atomic!Record(c, target, at), NEW object,
           Mentions(book'[Len(book')], object, {"SETTLES"}) = 1,
           Mentions(book'[Len(book')], object, Relations) = 1
    PROVE  LET t == foldObjectTotals(book', object)
           IN  t.hasReversal \/ t.originated = 0 \/ t.closed <= t.originated
<1> DEFINE new == Len(book) + 1
           e == [cmd |-> c, related |-> target, previousHash |-> Len(book), recordedAt |-> at]
<1>0. Len(book) \in Nat /\ Ids(book) = 1..Len(book) /\ Len(book) <= MaxEvents
  BY DEF TypeOK, Ids
<1>1. e \in Events
  BY <1>0, BookAssumption DEF Events, None, UnknownId
<1>2. book' = Append(book, e) /\ Admissible(book, c, target)
  BY DEF Atomic!Record
<1>3. /\ Grows /\ Ids(book)' = Ids(book) \cup {new} /\ Len(book') = new
      /\ book'[new] = e /\ new \notin Ids(book)
  BY <1>0, <1>1, <1>2, SaveGrows DEF TypeOK
<1>4. e.cmd = c /\ e.related = target
  OBVIOUS
<1> HIDE DEF e
<1>5. /\ \E k \in DOMAIN c.objects : c.objects[k].objectId = object /\ c.objects[k].relation = "SETTLES"
      /\ Mentions(e, object, {"SETTLES", "ADJUSTS"}) = 1
      /\ Mentions(e, object, {"ORIGINATES"}) = 0
  BY <1>3, <1>4, OnlySettles
<1>6. PICK k \in DOMAIN c.objects : c.objects[k].objectId = object /\ c.objects[k].relation = "SETTLES"
  BY <1>5
<1>7. c.objects[k] \in Range(c.objects)
  BY DEF Range
<1>8. ~IsRetraction(book', new)
  <2>1. ValidEvent(c, target, Len(book))
    BY <1>2 DEF Admissible
  <2>2. ~Carries(c, "RETRACTS")
    BY <1>6, <1>7, <2>1, ValidRetraction
  <2> QED BY <1>3, <1>4, <2>2 DEF IsRetraction
<1> DEFINE S == EventsOf(book, object) \ retractedEventIds(book, EventsOf(book, object))
           T == EventsOf(book', object) \ retractedEventIds(book', EventsOf(book', object))
<1>9. T = S \cup {new}
  BY <1>3, <1>4, <1>6, <1>7, <1>8, StandingGrows
<1>10. S \subseteq Ids(book) /\ IsFiniteSet(S) /\ new \notin S
  <2>1. S \subseteq Ids(book)
    BY DEF EventsOf
  <2>2. PICK R : R = S
    OBVIOUS
  <2>3. PICK n \in Nat : n = Len(book)
    BY <1>0
  <2>4. IsFiniteSet(R)
    BY <1>0, <2>1, <2>2, <2>3, FiniteBelow
  <2> QED BY <1>3, <2>1, <2>2, <2>4
<1>11. /\ foldObjectTotals(book, object) = Totals(book, S, object)
       /\ foldObjectTotals(book', object) = Totals(book', T, object)
  BY DEF foldObjectTotals
<1> HIDE DEF S, T
<1>12. /\ \A i \in S : book'[i] = book[i]
       /\ \A i \in S \cup {new} : book'[i].cmd \in Commands
  <2>1. \A i \in Ids(book) : book[i].cmd \in Commands
    <3>1. \A i \in Ids(book) : book[i] \in Events
      BY DEF TypeOK, Ids
    <3> QED BY <3>1 DEF Events
  <2> QED BY <1>3, <1>4, <1>10, <2>1 DEF Grows
<1>21. PICK R : R = S
  OBVIOUS
<1>22. PICK b : b = book
  OBVIOUS
<1>23. PICK d : d = book'
  OBVIOUS
<1>24. PICK n : n = new
  OBVIOUS
<1>25. ASSUME NEW relations
       PROVE  /\ Units(book, S, object, relations) \in Nat
              /\ Units(book', T, object, relations)
                   = Units(book, S, object, relations) + c.amount * Mentions(e, object, relations)
  <2>1. OneMore(b, R, d, n)
    BY <1>10, <1>12, <1>21, <1>22, <1>23, <1>24 DEF OneMore
  <2>2. /\ Units(b, R, object, relations) \in Nat
        /\ Units(d, R \cup {n}, object, relations)
             = Units(b, R, object, relations) + d[n].cmd.amount * Mentions(d[n], object, relations)
    BY <2>1, UnitsAdd
  <2> QED BY <1>3, <1>4, <1>9, <1>21, <1>22, <1>23, <1>24, <2>2
<1> DEFINE Closing == {"SETTLES", "ADJUSTS"}
           closed == Units(book, S, object, Closing)
           originated == Units(book, S, object, {"ORIGINATES"})
<1>13. /\ closed \in Nat
       /\ Units(book', T, object, Closing) = closed + c.amount * Mentions(e, object, Closing)
  BY <1>25
<1>14. /\ originated \in Nat
       /\ Units(book', T, object, {"ORIGINATES"}) = originated + c.amount * Mentions(e, object, {"ORIGINATES"})
  BY <1>25
<1>15. LET t == Totals(book, S, object)
       IN  t.hasReversal \/ t.originated = 0 \/ ~(t.closed + c.amount > t.originated)
  BY <1>2, <1>6, <1>11 DEF Admissible
<1>16. (\E i \in S : Mentions(book[i], object, {"REVERSES"}) > 0) =>
       \E i \in T : Mentions(book'[i], object, {"REVERSES"}) > 0
  BY <1>9, <1>12
<1>17. c.amount \in Nat
  BY BookAssumption
<1>18. \/ \E i \in S : Mentions(book[i], object, {"REVERSES"}) > 0
       \/ originated = 0 \/ ~(closed + c.amount > originated)
  BY <1>15 DEF Totals
<1>19. /\ Units(book', T, object, Closing) = closed + c.amount
       /\ Units(book', T, object, {"ORIGINATES"}) = originated
  BY <1>5, <1>13, <1>14, <1>17
<1>20. \/ \E i \in T : Mentions(book'[i], object, {"REVERSES"}) > 0
       \/ Units(book', T, object, {"ORIGINATES"}) = 0
       \/ Units(book', T, object, Closing) <= Units(book', T, object, {"ORIGINATES"})
  <2> HIDE DEF closed, originated
  <2> QED BY <1>13, <1>14, <1>16, <1>17, <1>18, <1>19
<1> QED BY <1>11, <1>20 DEF Totals

\* With a single writer and a clock that never goes back, no settlement leaves more closed on
\* a position than was opened on it (the conservation loop of CreateLedgerEventUseCase.execute).
THEOREM SettlementsConserve ==
    ASSUME NEW w, Writers = {w}, MaxStepBack = 0
    PROVE  Spec => SettlementConserves
<1> DEFINE Conserves ==
        book' # book =>
            LET e == book'[Len(book')] IN
            \A object \in ObjectIds :
                Mentions(e, object, {"SETTLES"}) = 1 /\ Mentions(e, object, Relations) = 1
                    => LET t == foldObjectTotals(book', object)
                       IN  t.hasReversal \/ t.originated = 0 \/ t.closed <= t.originated
<1>1. SoleInv /\ [Next]_vars => [Conserves]_vars
  <2> SUFFICES ASSUME SoleInv, [Next]_vars, book' # book PROVE Conserves
    OBVIOUS
  <2>1. PICK c \in Commands, target \in {0} \cup DOMAIN book, at \in 0..MaxClock :
            Atomic!Record(c, target, at)
    BY SoleSteps DEF Atomic!Next
  <2>2. TypeOK /\ LineageGrounded /\ target \in {None} \cup Ids(book)
    BY DEF SoleInv, LinkInv, None, Ids
  <2> QED BY <2>1, <2>2, RecordConserves
<1> HIDE DEF Conserves
<1>2. Spec => []SoleInv
  BY SoleInvariant
<1>3. SettlementConserves <=> [][Conserves]_vars
  BY DEF SettlementConserves, Conserves
<1> QED BY <1>1, <1>2, <1>3, PTL DEF Spec
=============================================================================
