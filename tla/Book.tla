-------------------------------- MODULE Book --------------------------------
(***************************************************************************)
(* Recording an event: CreateLedgerEventUseCase.execute over the SQLite    *)
(* book.  Several processes write the same file (the API server's submit   *)
(* endpoint, the post-staging consumer, the posting script), and the use   *)
(* case holds no lock and opens no transaction around its reads: each      *)
(* `await` on the repository is one atomic step, and between two of them   *)
(* any other writer may move.  Only the final insert is guarded by the     *)
(* database, through UNIQUE(command_id).                                   *)
(*                                                                         *)
(* A command is a candidate of EventPolicy together with                   *)
(*   ref        its sourceReference,                                       *)
(*   commandId  the idempotency key, or NoKey on the staging path.         *)
(***************************************************************************)
EXTENDS BookFolds

CONSTANTS
    Writers,      \* the running calls of execute(): requests, or processes
    Commands,     \* the commands callers may issue
    NoKey,        \* "no commandId"
    NoCommand,    \* what an idle writer is working on
    MaxEvents,    \* bound: events a book may hold
    MaxClock,     \* bound: milliseconds the clock may show
    MaxStepBack   \* bound: milliseconds the wall clock may be set back at once

ASSUME BookAssumption ==
    /\ MaxEvents \in Nat
    /\ MaxClock \in Nat
    /\ MaxStepBack \in Nat
    /\ NoCommand \notin Commands
    /\ \A c \in Commands : /\ c.eventType \in EventTypes
                           /\ c.amount \in Nat
                           /\ c.objects \in Seq([objectId : STRING,
                                                 objectType : ObjectTypes,
                                                 relation : Relations])

VARIABLES
    book,    \* ledger_events and its child tables, in insertion order
    clock,   \* what new Date() reads, in milliseconds
    writer   \* the locals of each running execute()

vars == <<book, clock, writer>>

Labels == {"idle", "command", "source", "origin", "retractions", "depth", "conserve",
           "lastHash", "save", "answered"}

Errors == {"none", "duplicate source reference", "origin not found",
           "origin of the wrong type", "already retracted", "retraction chain too deep",
           "over-settlement", "money cannot be negative", "invalid event",
           "unique constraint"}

\* An identifier no event will ever get: callers may name a target that does not exist.
UnknownId == MaxEvents + 1

NoAnswer     == [status |-> "none", id |-> None, error |-> "none"]
Accepted(id) == [status |-> "accepted", id |-> id, error |-> "none"]
Refused(why) == [status |-> "refused", id |-> None, error |-> why]

\* The locals of an execute() that has not entered the conservation loop.
Fresh(pc, c, target, answer) ==
    [pc |-> pc, cmd |-> c, related |-> target, object |-> 0,
     previousHash |-> None, recordedAt |-> 0, answer |-> answer]

Idle == Fresh("idle", NoCommand, None, NoAnswer)

Goto(w, label) == writer' = [writer EXCEPT ![w].pc = label]

Answer(w, answer) ==
    writer' = [writer EXCEPT ![w] = Fresh("answered", @.cmd, @.related, answer)]

-----------------------------------------------------------------------------
(* What the use case asks of the book. *)

SameKey(c) == {i \in Ids(book) : c.commandId # NoKey /\ book[i].cmd.commandId = c.commandId}

\* Slip: the source reference is never looked up.
SourceTaken_Never(c) == FALSE

SourceTaken(c) == \E i \in Ids(book) : book[i].cmd.ref = c.ref

\* Slip: the origin's existence is checked, its type is not.
WrongOrigin_Never(c, target) == FALSE

WrongOrigin(c, target) ==
    LET allowed == EVENT_CONTRACTS[c.eventType].allowedOriginTypes
    IN  allowed # {} /\ book[target].cmd.eventType \notin allowed

AlreadyRetracted(target) == \E i \in Ids(book) : Retracts(book, i, target)

\* Slip: any retraction may be retracted.
RetractsRetraction_Never(target) == FALSE

RetractsRetraction(target) == Carries(book[book[target].related].cmd, "RETRACTS")

\* Slip: each closing is measured against the opening alone.
Overcloses_EachAlone(amount, totals) ==
    ~totals.hasReversal /\ totals.originated # 0 /\ amount > totals.originated

\* The amount does not fit in what is outstanding on the object.  A reversed position,
\* and one nothing opened, have no baseline to exceed.
Overcloses(amount, totals) ==
    /\ ~totals.hasReversal
    /\ totals.originated # 0
    /\ totals.closed + amount > totals.originated

\* Slip: ORDER BY recorded_at without DESC.
IsLast_Ascending(last) ==
    IF book = <<>> THEN last = None
    ELSE last # None /\ \A j \in Ids(book) : j = last \/ Before(book, last, j)

\* SELECT hash ... ORDER BY recorded_at DESC LIMIT 1
IsLast(last) ==
    IF book = <<>> THEN last = None
    ELSE last # None /\ \A j \in Ids(book) : j = last \/ Before(book, j, last)

\* Slip: the loop visits every object, not only the ones the command settles.
Settlements_All(c, k) == {j \in DOMAIN c.objects : j >= k}

\* The objects at or after k that the conservation loop does not skip.
Settlements(c, k) == {j \in DOMAIN c.objects : j >= k /\ c.objects[j].relation = "SETTLES"}

\* Past the link checks: the loop goes on to the first such object, or ends.
ToConservation(w, k) ==
    LET left == Settlements(writer[w].cmd, k)
    IN  \/ left = {} /\ Goto(w, "lastHash")
        \/ \E j \in left :
              /\ \A i \in left : j <= i
              /\ writer' = [writer EXCEPT ![w].pc = "conserve", ![w].object = j]
-----------------------------------------------------------------------------
(* One action per awaited repository call. *)

\* A caller issues a command naming no event, an existing one, or one that is not there.
Begin(w, c, target) ==
    /\ writer[w].pc \in {"idle", "answered"}
    /\ writer' = [writer EXCEPT ![w] =
            Fresh(IF c.commandId = NoKey THEN "source" ELSE "command", c, target, NoAnswer)]
    /\ UNCHANGED <<book, clock>>

\* getByCommandId: a retry is answered with the event already recorded.
LookupCommand(w) ==
    /\ writer[w].pc = "command"
    /\ \/ SameKey(writer[w].cmd) = {} /\ Goto(w, "source")
       \/ \E i \in SameKey(writer[w].cmd) : Answer(w, Accepted(i))
    /\ UNCHANGED <<book, clock>>

\* existsBySourceReference
CheckSource(w) ==
    /\ writer[w].pc = "source"
    /\ CASE SourceTaken(writer[w].cmd)  -> Answer(w, Refused("duplicate source reference"))
         [] ~SourceTaken(writer[w].cmd) -> IF writer[w].related = None
                                           THEN ToConservation(w, 1) ELSE Goto(w, "origin")
    /\ UNCHANGED <<book, clock>>

\* getById of the origin: it must exist and be of a type the contract admits.
LoadOrigin(w) ==
    /\ writer[w].pc = "origin"
    /\ LET c == writer[w].cmd  target == writer[w].related
       IN  IF target \notin Ids(book) THEN Answer(w, Refused("origin not found"))
           ELSE IF WrongOrigin(c, target) THEN Answer(w, Refused("origin of the wrong type"))
           ELSE IF Carries(c, "RETRACTS") THEN Goto(w, "retractions")
           ELSE ToConservation(w, 1)
    /\ UNCHANGED <<book, clock>>

\* findByRelatedEventId: one retraction per target, whether or not it still stands.
CheckRetractions(w) ==
    /\ writer[w].pc = "retractions"
    /\ LET target == writer[w].related
       IN  IF AlreadyRetracted(target) THEN Answer(w, Refused("already retracted"))
           ELSE IF IsRetraction(book, target) THEN Goto(w, "depth")
           ELSE ToConservation(w, 1)
    /\ UNCHANGED <<book, clock>>

\* getById of what the target retracts: a retraction of a retraction is final.
CheckDepth(w) ==
    /\ writer[w].pc = "depth"
    /\ IF RetractsRetraction(writer[w].related)
       THEN Answer(w, Refused("retraction chain too deep"))
       ELSE ToConservation(w, 1)
    /\ UNCHANGED <<book, clock>>

\* findByObjectId and the conservation guard, for one SETTLES object of the command.
\* Money refuses a negative outstanding balance, so once more has been closed than was
\* opened the message that should report it is never built.
CheckConservation(w) ==
    /\ writer[w].pc = "conserve"
    /\ LET c == writer[w].cmd  k == writer[w].object
           t == foldObjectTotals(book, c.objects[k].objectId)
       IN  IF ~Overcloses(c.amount, t) THEN ToConservation(w, k + 1)
           ELSE Answer(w, Refused(IF t.closed > t.originated
                                  THEN "money cannot be negative" ELSE "over-settlement"))
    /\ UNCHANGED <<book, clock>>

\* getLastEventHash, then LedgerEvent.create, which validates and stamps recordedAt.
ReadLastHash(w) ==
    /\ writer[w].pc = "lastHash"
    /\ \E last \in {None} \cup Ids(book) :
          /\ IsLast(last)
          /\ IF ValidEvent(writer[w].cmd, writer[w].related, last)
             THEN writer' = [writer EXCEPT ![w].pc = "save", ![w].previousHash = last,
                                           ![w].recordedAt = clock]
             ELSE Answer(w, Refused("invalid event"))
    /\ UNCHANGED <<book, clock>>

NewEvent(w) ==
    [cmd |-> writer[w].cmd, related |-> writer[w].related,
     previousHash |-> writer[w].previousHash, recordedAt |-> writer[w].recordedAt]

\* Slip: command_id has no UNIQUE constraint.
Save_NoConstraint(w) ==
    /\ writer[w].pc = "save"
    /\ Len(book) < MaxEvents
    /\ book' = Append(book, NewEvent(w))
    /\ Answer(w, Accepted(Len(book) + 1))
    /\ UNCHANGED clock

\* repository.save, one transaction, then the audit line (which never throws) and the
\* answer.  UNIQUE(command_id) is the only rule the database adds.
Save(w) ==
    /\ writer[w].pc = "save"
    /\ \/ /\ SameKey(writer[w].cmd) # {}
          /\ Answer(w, Refused("unique constraint"))
          /\ UNCHANGED book
       \/ /\ SameKey(writer[w].cmd) = {}
          /\ Len(book) < MaxEvents
          /\ book' = Append(book, NewEvent(w))
          /\ Answer(w, Accepted(Len(book) + 1))
    /\ UNCHANGED clock

\* The process dies, or the connection is dropped: the locals and any answer are lost.
Crash(w) ==
    /\ writer[w].pc # "idle"
    /\ writer' = [writer EXCEPT ![w] = Idle]
    /\ UNCHANGED <<book, clock>>

\* The wall clock moves on, or is set back.
Tick(t) ==
    /\ t # clock
    /\ clock <= t + MaxStepBack
    /\ clock' = t
    /\ UNCHANGED <<book, writer>>
-----------------------------------------------------------------------------
Targets == {None, UnknownId} \cup Ids(book)

Step(w) ==
    \/ LookupCommand(w) \/ CheckSource(w) \/ LoadOrigin(w) \/ CheckRetractions(w)
    \/ CheckDepth(w) \/ CheckConservation(w) \/ ReadLastHash(w) \/ Save(w)

Init ==
    /\ book = <<>>
    /\ clock = 0
    /\ writer = [w \in Writers |-> Idle]

Next ==
    \/ \E w \in Writers :
          \/ \E c \in Commands, target \in Targets : Begin(w, c, target)
          \/ Step(w)
          \/ Crash(w)
    \/ \E t \in 0..MaxClock : Tick(t)

Spec == Init /\ [][Next]_vars
-----------------------------------------------------------------------------
(* What holds of the book however many writers run. *)

Events ==
    [cmd : Commands, related : 0..UnknownId, previousHash : 0..MaxEvents,
     recordedAt : 0..MaxClock]

Answers == [status : {"none", "accepted", "refused"}, id : 0..MaxEvents, error : Errors]

Locals ==
    [pc : Labels, cmd : Commands \cup {NoCommand}, related : 0..UnknownId, object : Nat,
     previousHash : 0..MaxEvents, recordedAt : 0..MaxClock, answer : Answers]

\* A writer that has started has a command, and the conservation loop points at one of
\* its SETTLES objects.
LocalsOK ==
    /\ writer \in [Writers -> Locals]
    /\ \A w \in Writers :
          LET c == writer[w].cmd  k == writer[w].object IN
          /\ writer[w].pc # "idle" => c \in Commands
          /\ writer[w].pc = "conserve" => k \in DOMAIN c.objects /\ c.objects[k].relation = "SETTLES"

\* The book, the clock and the locals of every running execute() keep their types.
TypeOK ==
    /\ book \in Seq(Events)
    /\ Len(book) <= MaxEvents
    /\ clock \in 0..MaxClock
    /\ LocalsOK

\* Every event that names an origin names one recorded before it, of a type its contract
\* admits: the check in execute() reads rows that are never changed, so no interleaving
\* can invalidate it.
LineageGrounded ==
    \A i \in Ids(book) :
        LET origin  == book[i].related
            allowed == EVENT_CONTRACTS[book[i].cmd.eventType].allowedOriginTypes
        IN  origin # None => /\ origin < i
                             /\ allowed = {} \/ book[origin].cmd.eventType \in allowed

\* "This caps the fold at two hops": no retraction of a retraction is ever retracted, even
\* when the three of them are written by different writers at the same time.
RetractionDepth ==
    \A i \in Ids(book) :
        LET first == book[i].related IN
        IsRetraction(book, i) /\ IsRetraction(book, first)
            => ~IsRetraction(book, book[first].related)

\* A retraction "moves nothing": whatever contract and matrices let through, an event that
\* carries RETRACTS is a non-cash correction that names its target and adds to no total.
RetractionsInert ==
    \A i \in Ids(book) :
        Carries(book[i].cmd, "RETRACTS") =>
            /\ book[i].cmd.eventType = "LEDGER_CORRECTION"
            /\ book[i].cmd.effect = "NON_CASH"
            /\ book[i].related # None
            /\ \A o \in Range(book[i].cmd.objects) : o.relation = "RETRACTS"

\* What a running call knows of the origin it names, once it has loaded it: the book only
\* grows, so what it read stays true.  This is what makes the three properties above
\* inductive.
LinksHold(w) ==
    LET pc == writer[w].pc  c == writer[w].cmd  target == writer[w].related IN
    /\ pc \in {"origin", "retractions", "depth"} => target # None
    /\ pc \in {"retractions", "depth"} => Carries(c, "RETRACTS")
    /\ pc = "depth" => IsRetraction(book, target)
    /\ pc \in {"retractions", "depth", "conserve", "lastHash", "save"} /\ target # None =>
          target \in Ids(book) /\ ~WrongOrigin(c, target)
    /\ pc \in {"conserve", "lastHash", "save"} /\ target # None /\ Carries(c, "RETRACTS") =>
          (IsRetraction(book, target) => ~IsRetraction(book, book[target].related))
    /\ pc = "save" => ValidEvent(c, target, writer[w].previousHash)

LinksOK == \A w \in Writers : LinksHold(w)

\* An idempotency key names one event, and an accepted answer names the event recorded
\* for the caller's key (or, without a key, the caller's own command), however its
\* requests and their retries interleave.
KeyNamesOneEvent ==
    /\ \A i, j \in Ids(book) :
          book[i].cmd.commandId = book[j].cmd.commandId /\ i # j
              => book[i].cmd.commandId = NoKey
    /\ \A w \in Writers : writer[w].pc = "answered" /\ writer[w].answer.status = "accepted" =>
          LET id == writer[w].answer.id IN
          /\ id \in Ids(book)
          /\ book[id].cmd.commandId = writer[w].cmd.commandId
          /\ writer[w].cmd.commandId = NoKey => book[id].cmd = writer[w].cmd
-----------------------------------------------------------------------------
(* What holds of the book when a single writer runs. *)

\* "source reference must be unique across the ledger"
SourceReferenceUnique ==
    \A i, j \in Ids(book) : book[i].cmd.ref = book[j].cmd.ref => i = j

\* "retractions form a chain, never a tree": no event is retracted twice.
OneRetractionPerTarget ==
    \A i, j, t \in Ids(book) : Retracts(book, i, t) /\ Retracts(book, j, t) => i = j

\* The hash chain is linear: every event links to the one inserted just before it.
HashChainLinear == \A i \in Ids(book) : book[i].previousHash = i - 1

\* What a call has checked so far is still true: nothing moved since it looked.  This is
\* what makes one writer's separate steps as good as one.
ChecksHold(w) ==
    LET pc == writer[w].pc  c == writer[w].cmd  target == writer[w].related
        Fits(k) == ~Overcloses(c.amount, foldObjectTotals(book, c.objects[k].objectId))
    IN
    /\ pc \in {"origin", "retractions", "depth", "conserve", "lastHash", "save"} =>
          ~SourceTaken(c)
    /\ pc \in {"depth", "conserve", "lastHash", "save"} /\ target # None
             /\ Carries(c, "RETRACTS") =>
          ~AlreadyRetracted(target)
    /\ pc = "conserve" => \A k \in Settlements(c, 1) : k < writer[w].object => Fits(k)
    /\ pc \in {"lastHash", "save"} => \A k \in Settlements(c, 1) : Fits(k)
    /\ pc = "save" => /\ writer[w].previousHash \in {None} \cup Ids(book)
                      /\ IsLast(writer[w].previousHash)
                      /\ \A i \in Ids(book) : book[i].recordedAt <= writer[w].recordedAt

ChecksStillHold == \A w \in Writers : ChecksHold(w)

ObjectIds == {o.objectId : o \in UNION {Range(c.objects) : c \in Commands}}

\* Recording an event whose one role on a position is to settle it never leaves more
\* closed on that position than was opened: between the check and the insert the totals
\* have not moved, and the event adds exactly its amount.
SettlementConserves ==
    [][book' # book =>
        LET e == book'[Len(book')] IN
        \A object \in ObjectIds :
            Mentions(e, object, {"SETTLES"}) = 1 /\ Mentions(e, object, Relations) = 1
                => LET t == foldObjectTotals(book', object)
                   IN  t.hasReversal \/ t.originated = 0 \/ t.closed <= t.originated]_vars

\* Every retraction names each object of the event it retracts.
RetractionsNameTheirTarget ==
    \A i \in Ids(book) : IsRetraction(book, i) =>
        \A o \in Range(book[book[i].related].cmd.objects) :
            i \in EventsOf(book, o.objectId)

\* "the guard and the read paths can never disagree about what stands": the fold over the
\* events of one object and the SQL over the whole table give the same totals, as long as
\* retractions name the objects of what they retract.
GuardAgreesWithReads ==
    RetractionsNameTheirTarget =>
        \A object \in ObjectIds :
            foldObjectTotals(book, object) = SqlObjectTotals(book, object)

\* What makes a command admissible to a book, all of it at once: its source reference and
\* key are unused; the origin it names is recorded and of an admitted type; a retraction
\* speaks of an event nothing has retracted yet, and not of the retraction of a
\* retraction; a settlement fits in what is outstanding; and the event is valid.
Admissible(b, c, target) ==
    /\ \A i \in Ids(b) : /\ b[i].cmd.ref # c.ref
                         /\ c.commandId # NoKey => b[i].cmd.commandId # c.commandId
    /\ target # None =>
          LET allowed == EVENT_CONTRACTS[c.eventType].allowedOriginTypes
          IN  target \in Ids(b) /\ (allowed # {} => b[target].cmd.eventType \in allowed)
    /\ target # None /\ Carries(c, "RETRACTS") =>
          /\ \A i \in Ids(b) : ~Retracts(b, i, target)
          /\ IsRetraction(b, target) => ~IsRetraction(b, b[target].related)
    /\ \A k \in DOMAIN c.objects : c.objects[k].relation = "SETTLES" =>
          LET t == foldObjectTotals(b, c.objects[k].objectId)
          IN  t.hasReversal \/ t.originated = 0 \/ ~(t.closed + c.amount > t.originated)
    /\ ValidEvent(c, target, Len(b))

Atomic == INSTANCE AtomicBook

\* With one writer and a clock that is never set back, checking in several steps and
\* saving in another is indistinguishable from admitting each event in one step.
ImplementsAtomicBook == Atomic!Spec
=============================================================================
