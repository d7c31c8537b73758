---------------------------- MODULE StagingProofs ----------------------------
(***************************************************************************)
(* Theorems about the staging pipeline, for any inputs, any number of      *)
(* processes, handlers and servers, and any faults.  In order: a record is *)
(* never in two hands; a decision stands; marks are true and lineage is    *)
(* honest; one event for a record, unless a handler outlives its           *)
(* connection; and, with one writer, an orphan is one.                     *)
(***************************************************************************)
EXTENDS Staging, BookProofs

\* The part of the state that says where records are, and its types.
PipeOK ==
    /\ status \in [Refs -> {"absent"} \cup Undecided \cup Decided]
    /\ claimed \in [Submitters -> SUBSET Refs]
    /\ queue \in Seq(Refs)
    /\ dead \subseteq Refs
    /\ batch \in [Servers -> SUBSET Refs]
    /\ job \in [Writers -> Jobs]
    /\ \A w \in Writers : /\ job[w].at # "idle" => job[w].ref \in Refs
                          /\ job[w].attached => job[w].ref \in Refs /\ w \in Handlers

InHand(r) == \E s \in Submitters : r \in claimed[s]
Queued(r) == \E k \in DOMAIN queue : queue[k] = r
InBatch(r) == \E b \in Servers : r \in batch[b]
Owned(r) == \E w \in Writers : Owns(w, r)

\* No two of a kind hold the record ...
HeldByOne(r) ==
    /\ \A s, t \in Submitters : r \in claimed[s] /\ r \in claimed[t] => s = t
    /\ \A j, k \in DOMAIN queue : queue[j] = r /\ queue[k] = r => j = k
    /\ \A a, b \in Servers : r \in batch[a] /\ r \in batch[b] => a = b
    /\ \A v, w \in Writers : Owns(v, r) /\ Owns(w, r) => v = w

\* ... no two kinds do, and nobody does while it waits.
HeldInOneWay(r) ==
    /\ InHand(r) => ~Queued(r) /\ ~InBatch(r) /\ ~Owned(r) /\ r \notin dead
    /\ Queued(r) => ~InBatch(r) /\ ~Owned(r) /\ r \notin dead
    /\ InBatch(r) => ~Owned(r) /\ r \notin dead
    /\ Owned(r) => r \notin dead
    /\ status[r] \in {"absent", "pending"} =>
          ~InHand(r) /\ ~Queued(r) /\ ~InBatch(r) /\ ~Owned(r) /\ r \notin dead

Apart(r) == HeldByOne(r) /\ HeldInOneWay(r)

HoldInv == PipeOK /\ \A r \in Refs : Apart(r)

\* The two ways of saying it agree.
LEMMA ApartIsHeldOnce == HoldInv => HeldOnce
<1> SUFFICES ASSUME HoldInv, NEW r \in Refs
             PROVE  /\ \A p, q \in Places(r) : p = q
                    /\ status[r] \in {"absent", "pending"} => Places(r) = {}
  BY DEF HeldOnce
<1>0. Apart(r)
  BY DEF HoldInv
<1>1. \A p : p \in Places(r) <=>
        \/ \E s \in Submitters : r \in claimed[s] /\ p = <<"claimed", s>>
        \/ \E k \in DOMAIN queue : queue[k] = r /\ p = <<"queue", k>>
        \/ \E b \in Servers : r \in batch[b] /\ p = <<"batch", b>>
        \/ \E w \in Writers : Owns(w, r) /\ p = <<"handled", w>>
        \/ r \in dead /\ p = <<"dead", r>>
  BY DEF Places
<1>2. ASSUME NEW p \in Places(r), NEW q \in Places(r) PROVE p = q
  BY <1>0, <1>1, <1>2 DEF Apart, HeldByOne, HeldInOneWay, InHand, Queued, InBatch, Owned
<1>3. status[r] \in {"absent", "pending"} => Places(r) = {}
  BY <1>0, <1>1 DEF Apart, HeldInOneWay, InHand, Queued, InBatch, Owned
<1> QED BY <1>2, <1>3

(* What happens to the queue. *)

\* A message at the end of the queue.
LEMMA QueueAppend ==
    ASSUME PipeOK, NEW r \in Refs, queue' = Append(queue, r), ~Queued(r)
    PROVE  /\ queue' \in Seq(Refs)
           /\ \A q \in Refs : Queued(q)' <=> Queued(q) \/ q = r
           /\ \A q \in Refs :
                 (\A j, k \in DOMAIN queue : queue[j] = q /\ queue[k] = q => j = k)
                    => (\A j, k \in DOMAIN queue' : queue'[j] = q /\ queue'[k] = q => j = k)
<1>1. queue \in Seq(Refs) /\ Len(queue) \in Nat /\ DOMAIN queue = 1..Len(queue)
  BY DEF PipeOK
<1>2. /\ queue' \in Seq(Refs) /\ DOMAIN queue' = 1..(Len(queue) + 1)
      /\ queue'[Len(queue) + 1] = r /\ \A k \in DOMAIN queue : queue'[k] = queue[k]
  BY <1>1
<1> QED BY <1>1, <1>2 DEF Queued

\* A message back at the front.
LEMMA QueuePrepend ==
    ASSUME PipeOK, NEW r \in Refs, queue' = <<r>> \o queue, ~Queued(r)
    PROVE  /\ queue' \in Seq(Refs)
           /\ \A q \in Refs : Queued(q)' <=> Queued(q) \/ q = r
           /\ \A q \in Refs :
                 (\A j, k \in DOMAIN queue : queue[j] = q /\ queue[k] = q => j = k)
                    => (\A j, k \in DOMAIN queue' : queue'[j] = q /\ queue'[k] = q => j = k)
<1>1. queue \in Seq(Refs) /\ Len(queue) \in Nat /\ DOMAIN queue = 1..Len(queue)
  BY DEF PipeOK
<1>2. /\ queue' \in Seq(Refs) /\ DOMAIN queue' = 1..(Len(queue) + 1)
      /\ queue'[1] = r /\ \A k \in DOMAIN queue : queue'[k + 1] = queue[k]
  BY <1>1
<1>3. \A k \in DOMAIN queue' : k # 1 => k - 1 \in DOMAIN queue /\ queue'[k] = queue[k - 1]
  BY <1>1, <1>2
<1>4. ASSUME NEW q \in Refs PROVE Queued(q)' <=> Queued(q) \/ q = r
  <2>1. ASSUME Queued(q)' PROVE Queued(q) \/ q = r
    BY <2>1, <1>2, <1>3 DEF Queued
  <2>2. ASSUME NEW k \in DOMAIN queue, queue[k] = q PROVE Queued(q)'
    <3>1. k + 1 \in DOMAIN queue' /\ queue'[k + 1] = q
      BY <2>2, <1>1, <1>2
    <3> QED BY <3>1 DEF Queued
  <2>3. 1 \in DOMAIN queue'
    BY <1>1, <1>2
  <2> QED BY <2>1, <2>2, <2>3, <1>2 DEF Queued
<1>5. ASSUME NEW q \in Refs, \A j, k \in DOMAIN queue : queue[j] = q /\ queue[k] = q => j = k,
             NEW j \in DOMAIN queue', NEW k \in DOMAIN queue', queue'[j] = q, queue'[k] = q
      PROVE  j = k
  BY <1>1, <1>2, <1>3, <1>5 DEF Queued
<1> QED BY <1>2, <1>4, <1>5

\* The message at the front is taken.
LEMMA QueueTail ==
    ASSUME PipeOK, queue # <<>>, queue' = Tail(queue), Apart(Head(queue))
    PROVE  /\ queue' \in Seq(Refs) /\ Head(queue) \in Refs /\ Queued(Head(queue))
           /\ \A q \in Refs : Queued(q)' <=> Queued(q) /\ q # Head(queue)
           /\ \A q \in Refs :
                 (\A j, k \in DOMAIN queue : queue[j] = q /\ queue[k] = q => j = k)
                    => (\A j, k \in DOMAIN queue' : queue'[j] = q /\ queue'[k] = q => j = k)
<1>1. queue \in Seq(Refs) /\ Len(queue) \in Nat /\ DOMAIN queue = 1..Len(queue) /\ Len(queue) # 0
  BY DEF PipeOK
<1>2. /\ queue' \in Seq(Refs) /\ DOMAIN queue' = 1..(Len(queue) - 1)
      /\ \A k \in DOMAIN queue' : queue'[k] = queue[k + 1]
      /\ Head(queue) = queue[1] /\ 1 \in DOMAIN queue
  BY <1>1
<1>3. \A k \in DOMAIN queue : k # 1 => k - 1 \in DOMAIN queue' /\ queue'[k - 1] = queue[k]
  BY <1>1, <1>2
<1>4. \A k \in DOMAIN queue' : k + 1 \in DOMAIN queue /\ k + 1 # 1
  BY <1>1, <1>2
<1>5. \A j \in DOMAIN queue : queue[j] = queue[1] => j = 1
  BY <1>2 DEF Apart, HeldByOne
<1>6. ASSUME NEW q \in Refs PROVE Queued(q)' <=> Queued(q) /\ q # Head(queue)
  BY <1>2, <1>3, <1>4, <1>5 DEF Queued
<1>7. ASSUME NEW q \in Refs, \A j, k \in DOMAIN queue : queue[j] = q /\ queue[k] = q => j = k,
             NEW j \in DOMAIN queue', NEW k \in DOMAIN queue', queue'[j] = q, queue'[k] = q
      PROVE  j = k
  <2>1. j + 1 = k + 1
    BY <1>2, <1>4, <1>7
  <2> QED BY <2>1, <1>2, <1>1
<1>8. Head(queue) \in Refs /\ Queued(Head(queue))
  BY <1>1, <1>2 DEF Queued
<1> QED BY <1>2, <1>6, <1>7, <1>8
-----------------------------------------------------------------------------
(* What happens to a record. *)

QueuedOnce(r) == \A j, k \in DOMAIN queue : queue[j] = r /\ queue[k] = r => j = k

\* A record that comes into no new hands stays apart.
LEMMA ApartShrinks ==
    ASSUME NEW r \in Refs, Apart(r),
           \A s \in Submitters : r \in claimed'[s] => r \in claimed[s],
           \A b \in Servers : r \in batch'[b] => r \in batch[b],
           \A w \in Writers : Owns(w, r)' => Owns(w, r),
           Queued(r)' => Queued(r), QueuedOnce(r) => QueuedOnce(r)',
           r \in dead' => r \in dead,
           \/ status'[r] \notin {"absent", "pending"}
           \/ status[r] \in {"absent", "pending"}
    PROVE  Apart(r)'
<1>1. InHand(r)' => InHand(r)
  BY DEF InHand
<1>2. InBatch(r)' => InBatch(r)
  BY DEF InBatch
<1>3. Owned(r)' => Owned(r)
  BY DEF Owned
<1>4. HeldByOne(r)'
  BY DEF Apart, HeldByOne, QueuedOnce
<1>5. HeldInOneWay(r)'
  BY <1>1, <1>2, <1>3 DEF Apart, HeldInOneWay
<1> QED BY <1>4, <1>5 DEF Apart

\* Nothing that places a record changes but who works on it.
LEMMA ApartFrame ==
    ASSUME NEW r \in Refs, Apart(r), UNCHANGED <<claimed, queue, dead, batch>>,
           \A w \in Writers : Owns(w, r)' => Owns(w, r),
           \/ status'[r] \notin {"absent", "pending"}
           \/ status[r] \in {"absent", "pending"}
    PROVE  Apart(r)'
BY ApartShrinks DEF Queued, QueuedOnce

\* A handler moves on within handle(), keeping its record and its message.
LEMMA JobMoves ==
    ASSUME PipeOK, NEW w \in Writers, NEW j \in Jobs, job[w].at # "idle",
           j.ref = job[w].ref, j.attached = job[w].attached, job' = [job EXCEPT ![w] = j]
    PROVE  /\ job' \in [Writers -> Jobs]
           /\ \A v \in Writers : /\ job'[v].at # "idle" => job'[v].ref \in Refs
                                 /\ job'[v].attached => job'[v].ref \in Refs /\ v \in Handlers
           /\ \A v \in Writers, r \in Refs : Owns(v, r)' <=> Owns(v, r)
BY DEF PipeOK, Owns

\* A handler that is done owns nothing.
LEMMA JobRests ==
    ASSUME PipeOK, NEW G \in SUBSET Writers,
           job' = [v \in Writers |-> IF v \in G THEN AtRest ELSE job[v]]
    PROVE  /\ job' \in [Writers -> Jobs]
           /\ \A v \in Writers : /\ job'[v].at # "idle" => job'[v].ref \in Refs
                                 /\ job'[v].attached => job'[v].ref \in Refs /\ v \in Handlers
           /\ \A v \in Writers, r \in Refs : Owns(v, r)' <=> Owns(v, r) /\ v \notin G
<1>1. AtRest \in Jobs /\ AtRest.ref \notin Refs /\ ~AtRest.attached /\ AtRest.at = "idle"
  BY StagingAssumption DEF AtRest, Jobs
<1> QED BY <1>1 DEF PipeOK, Owns

\* A handler at rest takes up a record.
LEMMA JobTakesUp ==
    ASSUME PipeOK, NEW w \in Writers, job[w] = AtRest, NEW r \in Refs,
           NEW attached \in BOOLEAN, attached <=> w \in Handlers,
           job' = [job EXCEPT ![w] = TakeUp(r, attached)]
    PROVE  /\ job' \in [Writers -> Jobs]
           /\ \A v \in Writers : /\ job'[v].at # "idle" => job'[v].ref \in Refs
                                 /\ job'[v].attached => job'[v].ref \in Refs /\ v \in Handlers
           /\ \A v \in Writers, q \in Refs : Owns(v, q)' <=> Owns(v, q) \/ (v = w /\ q = r)
<1>1. TakeUp(r, attached) \in Jobs
  BY DEF TakeUp, Jobs
<1>2. /\ TakeUp(r, attached).ref = r /\ TakeUp(r, attached).attached = attached
      /\ AtRest.ref \notin Refs
  BY StagingAssumption DEF TakeUp, AtRest
<1>3. job'[w] = TakeUp(r, attached) /\ \A v \in Writers : v # w => job'[v] = job[v]
  BY DEF PipeOK
<1>4. \A v \in Writers, q \in Refs : Owns(v, q)' <=> Owns(v, q) \/ (v = w /\ q = r)
  BY <1>2, <1>3 DEF Owns, Servers
<1> QED BY <1>1, <1>2, <1>3, <1>4 DEF PipeOK
-----------------------------------------------------------------------------
(* Every action hands records on, or drops them; none copies one. *)

\* A record staged for the first time is in nobody's hands.
LEMMA IngestHolds ==
    ASSUME HoldInv, NEW i \in Inputs, Ingest(i)
    PROVE  HoldInv'
<1> DEFINE r == SourceReference(i)
<1>1. r \in Refs
  BY DEF Ingest, Refs
<1>2. PipeOK'
  BY <1>1 DEF HoldInv, PipeOK, Ingest, Undecided, vars
<1>3. ASSUME NEW q \in Refs PROVE Apart(q)'
  BY <1>1, ApartFrame DEF HoldInv, PipeOK, Ingest, Owns
<1> QED BY <1>2, <1>3 DEF HoldInv

\* What a claim does to the statuses.
LEMMA ClaimedStatuses ==
    ASSUME PipeOK, NEW S, NEW types, NEW target \in {"queued", "processing"},
           claimPending(S, types, target)
    PROVE  /\ S \subseteq Refs /\ \A r \in S : status[r] = "pending" /\ status'[r] = target
           /\ \A r \in Refs \ S : status'[r] = status[r]
           /\ status' \in [Refs -> {"absent"} \cup Undecided \cup Decided]
BY DEF PipeOK, claimPending, Claimable, Undecided

\* claimPending gives a submitter pending records only, which nobody else has.
LEMMA ClaimHolds ==
    ASSUME HoldInv, NEW s \in Submitters, Claim(s)
    PROVE  HoldInv'
<1>1. PICK S \in SUBSET Refs : /\ claimPending(S, EventTypesOf(s), "queued")
                              /\ claimed' = [claimed EXCEPT ![s] = S]
  BY DEF Claim
<1>2. /\ \A r \in S : status[r] = "pending" /\ status'[r] = "queued"
      /\ \A r \in Refs \ S : status'[r] = status[r]
      /\ status' \in [Refs -> {"absent"} \cup Undecided \cup Decided]
  BY <1>1, ClaimedStatuses DEF HoldInv
<1>3. UNCHANGED <<queue, dead, batch, job>> /\ claimed[s] = {}
  BY DEF Claim
<1>4. PipeOK'
  BY <1>1, <1>2, <1>3 DEF HoldInv, PipeOK
<1>5. \A t \in Submitters : claimed'[t] = IF t = s THEN S ELSE claimed[t]
  BY <1>1 DEF HoldInv, PipeOK
<1>6. ASSUME NEW r \in Refs PROVE Apart(r)'
  <2>0. Apart(r) /\ \A w \in Writers : Owns(w, r)' <=> Owns(w, r)
    BY <1>3 DEF HoldInv, Owns
  <2>1. CASE r \notin S
    BY <1>2, <1>3, <1>5, <2>0, <2>1, ApartShrinks DEF Queued, QueuedOnce
  <2>2. CASE r \in S
    <3>1. ~InHand(r) /\ ~Queued(r) /\ ~InBatch(r) /\ ~Owned(r) /\ r \notin dead
      BY <1>2, <2>0, <2>2 DEF Apart, HeldInOneWay
    <3>2. ~Queued(r)' /\ ~InBatch(r)' /\ ~Owned(r)' /\ r \notin dead'
      BY <1>3, <2>0, <3>1 DEF Queued, InBatch, Owned
    <3>3. HeldByOne(r)'
      BY <1>5, <3>1, <3>2 DEF HeldByOne, InHand, Queued, InBatch, Owned
    <3> QED BY <1>2, <2>2, <3>2, <3>3 DEF Apart, HeldInOneWay
  <2> QED BY <2>1, <2>2
<1> QED BY <1>4, <1>6 DEF HoldInv

\* Before a submitter lets go of a record, nobody else has it.
LEMMA InHandOnly ==
    ASSUME PipeOK, NEW s \in Submitters, NEW r \in claimed[s], Apart(r)
    PROVE  /\ r \in Refs /\ ~Queued(r) /\ ~InBatch(r) /\ ~Owned(r) /\ r \notin dead
           /\ \A t \in Submitters \ {s} : r \notin claimed[t]
BY DEF PipeOK, Apart, HeldByOne, HeldInOneWay, InHand

\* Publishing, failing to publish, and losing a message.
LEMMA PublishHolds ==
    ASSUME HoldInv, NEW s \in Submitters, NEW r \in claimed[s],
           Publish(s, r) \/ PublishFails(s, r) \/ PublishLost(s, r)
    PROVE  HoldInv'
<1>0. PipeOK /\ r \in Refs /\ Apart(r)
  BY DEF HoldInv, PipeOK
<1>1. /\ ~Queued(r) /\ ~InBatch(r) /\ ~Owned(r) /\ r \notin dead
      /\ \A t \in Submitters \ {s} : r \notin claimed[t]
  BY <1>0, InHandOnly
<1>2. UNCHANGED <<dead, batch, job>> /\ claimed' = [claimed EXCEPT ![s] = @ \ {r}]
  BY DEF Publish, PublishFails, PublishLost
<1>3. /\ \A t \in Submitters, q \in Refs : q \in claimed'[t] => q \in claimed[t] /\ q # r
      /\ claimed' \in [Submitters -> SUBSET Refs]
  BY <1>0, <1>1, <1>2 DEF PipeOK
<1>4. \A w \in Writers, q \in Refs : Owns(w, q)' <=> Owns(w, q)
  BY <1>2 DEF Owns
<1>5. ~InHand(r)' /\ ~InBatch(r)' /\ ~Owned(r)' /\ r \notin dead'
  BY <1>0, <1>1, <1>2, <1>3, <1>4 DEF InHand, InBatch, Owned
<1>6. CASE Publish(s, r)
  <2>1. queue' = Append(queue, r) /\ UNCHANGED status
    BY <1>6 DEF Publish
  <2>2. /\ queue' \in Seq(Refs)
        /\ \A q \in Refs : Queued(q)' <=> Queued(q) \/ q = r
        /\ \A q \in Refs : QueuedOnce(q) => QueuedOnce(q)'
    BY <1>0, <1>1, <2>1, QueueAppend DEF QueuedOnce
  <2>3. PipeOK'
    BY <1>0, <1>2, <1>3, <2>1, <2>2 DEF PipeOK
  <2>4. ASSUME NEW q \in Refs, q # r PROVE Apart(q)'
    BY <1>2, <1>3, <1>4, <2>1, <2>2, <2>4, ApartShrinks DEF HoldInv
  <2>5. Apart(r)'
    <3>1. status[r] \notin {"absent", "pending"}
      BY <1>0 DEF Apart, HeldInOneWay, InHand
    <3>2. HeldByOne(r)'
      BY <1>0, <1>5, <2>2 DEF Apart, HeldByOne, QueuedOnce, InHand, InBatch, Owned
    <3> QED BY <1>5, <2>1, <3>1, <3>2 DEF Apart, HeldInOneWay
  <2> QED BY <2>3, <2>4, <2>5 DEF HoldInv
<1>7. CASE ~Publish(s, r)
  <2>1. UNCHANGED queue /\ (status' = [status EXCEPT ![r] = "pending"] \/ UNCHANGED status)
    BY <1>7 DEF PublishFails, PublishLost
  <2>2. PipeOK'
    BY <1>0, <1>2, <1>3, <2>1 DEF PipeOK, Undecided
  <2>3. ASSUME NEW q \in Refs, q # r PROVE Apart(q)'
    <3>1. status'[q] = status[q]
      BY <1>0, <2>1, <2>3 DEF PipeOK
    <3> QED BY <1>2, <1>3, <1>4, <2>1, <2>3, <3>1, ApartShrinks DEF HoldInv, Queued, QueuedOnce
  <2>4. Apart(r)'
    <3>1. ~Queued(r)'
      BY <1>1, <2>1 DEF Queued
    <3>2. HeldByOne(r)'
      BY <1>5, <3>1 DEF HeldByOne, Queued, InHand, InBatch, Owned
    <3> QED BY <1>5, <3>1, <3>2 DEF Apart, HeldInOneWay
  <2> QED BY <2>2, <2>3, <2>4 DEF HoldInv
<1> QED BY <1>6, <1>7

\* A submitter that dies drops its claim.
LEMMA SubmitterDiesHolds ==
    ASSUME HoldInv, NEW s \in Submitters, SubmitterDies(s)
    PROVE  HoldInv'
<1>1. UNCHANGED <<status, queue, dead, batch, job>> /\ claimed' = [claimed EXCEPT ![s] = {}]
  BY DEF SubmitterDies
<1>2. PipeOK'
  BY <1>1 DEF HoldInv, PipeOK
<1>3. ASSUME NEW q \in Refs PROVE Apart(q)'
  <2>1. \A t \in Submitters : q \in claimed'[t] => q \in claimed[t]
    BY <1>1 DEF HoldInv, PipeOK
  <2> QED BY <1>1, <2>1, ApartShrinks DEF HoldInv, Queued, QueuedOnce, Owns
<1> QED BY <1>2, <1>3 DEF HoldInv

\* A message delivered leaves the queue for the hands of one handler.
LEMMA DeliverHolds ==
    ASSUME HoldInv, NEW h \in Handlers, Deliver(h)
    PROVE  HoldInv'
<1>a. Head(queue) \in Refs
  BY DEF HoldInv, PipeOK, Deliver
<1>b. PICK r \in Refs : r = Head(queue)
  BY <1>a
<1>0. PipeOK /\ Apart(r) /\ h \in Writers /\ job[h] = AtRest
  BY StagingAssumption DEF HoldInv, Deliver
<1>1. UNCHANGED <<status, claimed, dead, batch>> /\ queue # <<>> /\ queue' = Tail(queue)
  BY DEF Deliver
<1>2. /\ queue' \in Seq(Refs) /\ Queued(r)
      /\ \A q \in Refs : Queued(q)' <=> Queued(q) /\ q # r
      /\ \A q \in Refs : QueuedOnce(q) => QueuedOnce(q)'
  BY <1>b, <1>0, <1>1, QueueTail DEF QueuedOnce
<1>3. job' = [job EXCEPT ![h] = TakeUp(r, TRUE)]
  BY <1>b DEF Deliver
<1>4. /\ job' \in [Writers -> Jobs]
      /\ \A v \in Writers : /\ job'[v].at # "idle" => job'[v].ref \in Refs
                            /\ job'[v].attached => job'[v].ref \in Refs /\ v \in Handlers
      /\ \A v \in Writers, q \in Refs : Owns(v, q)' <=> Owns(v, q) \/ (v = h /\ q = r)
  BY <1>0, <1>3, JobTakesUp
<1>5. PipeOK'
  BY <1>0, <1>1, <1>2, <1>4 DEF PipeOK
<1>6. ASSUME NEW q \in Refs, q # r PROVE Apart(q)'
  BY <1>1, <1>2, <1>4, <1>6, ApartShrinks DEF HoldInv
<1>7. Apart(r)'
  <2>1. ~InHand(r) /\ ~InBatch(r) /\ ~Owned(r) /\ r \notin dead
        /\ status[r] \notin {"absent", "pending"}
    BY <1>0, <1>2 DEF Apart, HeldInOneWay
  <2>2. ~InHand(r)' /\ ~InBatch(r)' /\ ~Queued(r)' /\ r \notin dead'
    BY <1>0, <1>1, <1>2, <2>1 DEF InHand, InBatch
  <2>3. \A v \in Writers : Owns(v, r)' => v = h
    BY <1>0, <1>4, <2>1 DEF Owned
  <2>4. HeldByOne(r)'
    BY <2>2, <2>3 DEF HeldByOne, InHand, InBatch, Queued
  <2> QED BY <1>1, <2>1, <2>2, <2>4 DEF Apart, HeldInOneWay
<1> QED BY <1>5, <1>6, <1>7 DEF HoldInv

\* The claim of a booting server, likewise.
LEMMA BootHolds ==
    ASSUME HoldInv, NEW b \in Servers, Boot(b)
    PROVE  HoldInv'
<1>1. PICK S \in SUBSET Refs : /\ claimPending(S, EventTypes, "processing")
                              /\ batch' = [batch EXCEPT ![b] = S]
  BY DEF Boot
<1>2. /\ \A r \in S : status[r] = "pending" /\ status'[r] = "processing"
      /\ \A r \in Refs \ S : status'[r] = status[r]
      /\ status' \in [Refs -> {"absent"} \cup Undecided \cup Decided]
  BY <1>1, ClaimedStatuses DEF HoldInv
<1>3. UNCHANGED <<claimed, queue, dead, job>> /\ batch[b] = {}
  BY DEF Boot
<1>4. PipeOK'
  BY <1>1, <1>2, <1>3 DEF HoldInv, PipeOK
<1>5. \A a \in Servers : batch'[a] = IF a = b THEN S ELSE batch[a]
  BY <1>1 DEF HoldInv, PipeOK
<1>6. ASSUME NEW r \in Refs PROVE Apart(r)'
  <2>0. Apart(r) /\ \A w \in Writers : Owns(w, r)' <=> Owns(w, r)
    BY <1>3 DEF HoldInv, Owns
  <2>1. CASE r \notin S
    BY <1>2, <1>3, <1>5, <2>0, <2>1, ApartShrinks DEF Queued, QueuedOnce
  <2>2. CASE r \in S
    <3>1. ~InHand(r) /\ ~Queued(r) /\ ~InBatch(r) /\ ~Owned(r) /\ r \notin dead
      BY <1>2, <2>0, <2>2 DEF Apart, HeldInOneWay
    <3>2. ~Queued(r)' /\ ~InHand(r)' /\ ~Owned(r)' /\ r \notin dead'
      BY <1>3, <2>0, <3>1 DEF Queued, InHand, Owned
    <3>3. HeldByOne(r)'
      BY <1>5, <3>1, <3>2 DEF HeldByOne, InHand, Queued, InBatch, Owned
    <3> QED BY <1>2, <2>2, <3>2, <3>3 DEF Apart, HeldInOneWay
  <2> QED BY <2>1, <2>2
<1> QED BY <1>4, <1>6 DEF HoldInv

\* A booting server takes up a record of its batch, which leaves the batch.
LEMMA NextOfBatchHolds ==
    ASSUME HoldInv, NEW b \in Servers, NEW r \in batch[b], NextOfBatch(b, r)
    PROVE  HoldInv'
<1>0. /\ PipeOK /\ r \in Refs /\ Apart(r) /\ b \in Writers /\ b \notin Handlers
      /\ job[b] = AtRest
  BY DEF HoldInv, PipeOK, NextOfBatch, Servers
<1>1. /\ UNCHANGED <<status, claimed, queue, dead>>
      /\ batch' = [batch EXCEPT ![b] = @ \ {r}]
      /\ job' = [job EXCEPT ![b] = TakeUp(r, FALSE)]
  BY DEF NextOfBatch
<1>2. /\ job' \in [Writers -> Jobs]
      /\ \A v \in Writers : /\ job'[v].at # "idle" => job'[v].ref \in Refs
                            /\ job'[v].attached => job'[v].ref \in Refs /\ v \in Handlers
      /\ \A v \in Writers, q \in Refs : Owns(v, q)' <=> Owns(v, q) \/ (v = b /\ q = r)
  BY <1>0, <1>1, JobTakesUp
<1>3. \A a \in Servers : batch'[a] = IF a = b THEN batch[b] \ {r} ELSE batch[a]
  BY <1>0, <1>1 DEF PipeOK
<1>4. PipeOK'
  BY <1>0, <1>1, <1>2 DEF PipeOK
<1>5. ASSUME NEW q \in Refs, q # r PROVE Apart(q)'
  BY <1>1, <1>2, <1>3, <1>5, ApartShrinks DEF HoldInv, Queued, QueuedOnce
<1>6. Apart(r)'
  <2>1. /\ ~InHand(r) /\ ~Queued(r) /\ ~Owned(r) /\ r \notin dead
        /\ status[r] \notin {"absent", "pending"}
        /\ \A a \in Servers : r \in batch[a] => a = b
    BY <1>0 DEF Apart, HeldInOneWay, HeldByOne, InBatch
  <2>2. ~InHand(r)' /\ ~InBatch(r)' /\ ~Queued(r)' /\ r \notin dead'
    BY <1>1, <1>3, <2>1 DEF InHand, InBatch, Queued
  <2>3. \A v \in Writers : Owns(v, r)' => v = b
    BY <1>0, <1>2, <2>1 DEF Owned
  <2>4. HeldByOne(r)'
    BY <2>2, <2>3 DEF HeldByOne, InHand, InBatch, Queued
  <2> QED BY <1>1, <2>1, <2>2, <2>4 DEF Apart, HeldInOneWay
<1> QED BY <1>4, <1>5, <1>6 DEF HoldInv

\* A message goes back to the queue from the one handler that owned it.
LEMMA RequeueHolds ==
    ASSUME HoldInv, UNCHANGED <<status, claimed, dead, batch>>,
           NEW g \in Handlers, job[g].attached, queue' = <<job[g].ref>> \o queue,
           job' \in [Writers -> Jobs],
           \A v \in Writers : /\ job'[v].at # "idle" => job'[v].ref \in Refs
                              /\ job'[v].attached => job'[v].ref \in Refs /\ v \in Handlers,
           \A v \in Writers, q \in Refs : Owns(v, q)' => Owns(v, q) /\ v # g
    PROVE  HoldInv'
<1>a. g \in Writers /\ job[g].ref \in Refs
  BY StagingAssumption DEF HoldInv, PipeOK
<1>b. PICK r \in Refs : r = job[g].ref
  BY <1>a
<1>0. PipeOK /\ Apart(r) /\ Owns(g, r)
  BY <1>b DEF HoldInv, Owns
<1>1. /\ ~InHand(r) /\ ~Queued(r) /\ ~InBatch(r) /\ r \notin dead
      /\ status[r] \notin {"absent", "pending"}
      /\ \A v \in Writers : Owns(v, r) => v = g
  BY <1>a, <1>0 DEF Apart, HeldByOne, HeldInOneWay, Owned
<1>2. /\ queue' \in Seq(Refs)
      /\ \A q \in Refs : Queued(q)' <=> Queued(q) \/ q = r
      /\ \A q \in Refs : QueuedOnce(q) => QueuedOnce(q)'
  BY <1>b, <1>0, <1>1, QueuePrepend DEF QueuedOnce
<1>3. PipeOK'
  BY <1>0, <1>2 DEF PipeOK
<1>4. ASSUME NEW q \in Refs, q # r PROVE Apart(q)'
  BY <1>2, <1>4, ApartShrinks DEF HoldInv
<1>5. Apart(r)'
  <2>1. ~InHand(r)' /\ ~InBatch(r)' /\ ~Owned(r)' /\ r \notin dead'
    BY <1>1 DEF InHand, InBatch, Owned
  <2>2. HeldByOne(r)'
    BY <1>0, <1>2, <2>1 DEF Apart, HeldByOne, QueuedOnce, InHand, InBatch, Owned
  <2> QED BY <1>1, <2>1, <2>2 DEF Apart, HeldInOneWay
<1> QED BY <1>3, <1>4, <1>5 DEF HoldInv

\* A process that dies gives back the one message it had not acknowledged.
LEMMA ProcessDiesHolds ==
    ASSUME HoldInv, NEW h \in Handlers, ProcessDies(h), UNCHANGED <<status, claimed, dead, batch>>
    PROVE  HoldInv'
<1> DEFINE G == {g \in Handlers : ProcessOf[g] = ProcessOf[h]}
<1>0. PipeOK /\ G \in SUBSET Writers
  BY StagingAssumption DEF HoldInv
<1>1. job' = [v \in Writers |-> IF v \in G THEN AtRest ELSE job[v]]
  BY DEF ProcessDies
<1>2. /\ job' \in [Writers -> Jobs]
      /\ \A v \in Writers : /\ job'[v].at # "idle" => job'[v].ref \in Refs
                            /\ job'[v].attached => job'[v].ref \in Refs /\ v \in Handlers
      /\ \A v \in Writers, r \in Refs : Owns(v, r)' <=> Owns(v, r) /\ v \notin G
  <2> HIDE DEF G
  <2> QED BY <1>0, <1>1, JobRests
<1>3. ASSUME NEW g \in Handlers, g \in G, job[g].attached, queue' = <<job[g].ref>> \o queue
      PROVE  HoldInv'
  <2>1. \A v \in Writers, q \in Refs : Owns(v, q)' => Owns(v, q) /\ v # g
    BY <1>2, <1>3
  <2> QED BY <1>2, <1>3, <2>1, RequeueHolds
<1>4. CASE UNCHANGED queue
  <2>1. PipeOK'
    BY <1>0, <1>2, <1>4 DEF PipeOK
  <2>2. ASSUME NEW q \in Refs PROVE Apart(q)'
    BY <1>2, <1>4, ApartFrame DEF HoldInv
  <2> QED BY <2>1, <2>2 DEF HoldInv
<1> QED BY <1>3, <1>4 DEF ProcessDies

\* A handler finishes, its message acknowledged.
LEMMA FinishHolds ==
    ASSUME HoldInv, NEW w \in Writers, Finish(w), UNCHANGED <<status, claimed, queue, dead>>,
           batch' \in [Servers -> SUBSET Refs], \A b \in Servers : batch'[b] \subseteq batch[b]
    PROVE  HoldInv'
<1>0. PipeOK
  BY DEF HoldInv
<1>1. job' = [v \in Writers |-> IF v \in {w} THEN AtRest ELSE job[v]]
  BY <1>0 DEF Finish, PipeOK
<1>2. /\ job' \in [Writers -> Jobs]
      /\ \A v \in Writers : /\ job'[v].at # "idle" => job'[v].ref \in Refs
                            /\ job'[v].attached => job'[v].ref \in Refs /\ v \in Handlers
      /\ \A v \in Writers, r \in Refs : Owns(v, r)' <=> Owns(v, r) /\ v \notin {w}
  BY <1>0, <1>1, JobRests
<1>3. PipeOK'
  BY <1>0, <1>2 DEF PipeOK
<1>4. ASSUME NEW q \in Refs PROVE Apart(q)'
  BY <1>2, ApartShrinks DEF HoldInv, Queued, QueuedOnce
<1> QED BY <1>3, <1>4 DEF HoldInv

\* A step of handle() that keeps its record.
LEMMA MoveHolds ==
    ASSUME HoldInv, NEW w \in Writers, job[w].at # "idle", NEW j \in Jobs,
           j.ref = job[w].ref, j.attached = job[w].attached, job' = [job EXCEPT ![w] = j],
           UNCHANGED <<claimed, queue, dead, batch>>,
           \/ UNCHANGED status
           \/ \E d \in Decided : status' = [status EXCEPT ![job[w].ref] = d]
    PROVE  HoldInv'
<1>0. PipeOK
  BY DEF HoldInv
<1>1. /\ job' \in [Writers -> Jobs]
      /\ \A v \in Writers : /\ job'[v].at # "idle" => job'[v].ref \in Refs
                            /\ job'[v].attached => job'[v].ref \in Refs /\ v \in Handlers
      /\ \A v \in Writers, r \in Refs : Owns(v, r)' <=> Owns(v, r)
  BY <1>0, JobMoves
<1>2. /\ status' \in [Refs -> {"absent"} \cup Undecided \cup Decided]
      /\ \A r \in Refs : status'[r] = status[r] \/ status'[r] \in Decided
  BY <1>0 DEF PipeOK
<1>3. PipeOK'
  BY <1>0, <1>1, <1>2 DEF PipeOK
<1>4. ASSUME NEW q \in Refs PROVE Apart(q)'
  BY <1>1, <1>2, ApartFrame DEF HoldInv, Decided
<1> QED BY <1>3, <1>4 DEF HoldInv

\* No step of StagingPostingJob.handle brings its record into other hands.
LEMMA HandleHolds ==
    ASSUME HoldInv, NEW w \in Writers, Handle(w)
    PROVE  HoldInv'
<1>0. PipeOK /\ job[w] \in Jobs
  BY DEF HoldInv, PipeOK
<1>1. ASSUME NEW label \in {"resolve", "refuse", "post", "acknowledge"}, Proceed(w, label),
             job[w].at # "idle", UNCHANGED <<claimed, queue, dead, batch>>,
             \/ UNCHANGED status
             \/ \E d \in Decided : status' = [status EXCEPT ![job[w].ref] = d]
      PROVE  HoldInv'
  <2> DEFINE j == [job[w] EXCEPT !.at = label]
  <2>1. j \in Jobs /\ j.ref = job[w].ref /\ j.attached = job[w].attached
    BY <1>0 DEF Jobs
  <2>2. job' = [job EXCEPT ![w] = j]
    BY <1>0, <1>1 DEF Proceed, PipeOK
  <2> HIDE DEF j
  <2> QED BY <1>1, <2>1, <2>2, MoveHolds
<1>2. CASE Validate(w)
  BY <1>1, <1>2 DEF Validate
<1>3. CASE Resolve(w)
  BY <1>1, <1>3 DEF Resolve
<1>4. CASE Post(w)
  <2>1. UNCHANGED <<status, claimed, queue, dead, batch, job>>
    BY <1>4 DEF Post, pipe
  <2>2. ASSUME NEW q \in Refs PROVE Apart(q)'
    BY <2>1, ApartFrame DEF HoldInv, Owns
  <2> QED BY <1>0, <2>1, <2>2 DEF HoldInv, PipeOK
<1>5. CASE MarkAccepted(w)
  BY <1>1, <1>5 DEF MarkAccepted, Decided
<1>6. CASE Refuse(w)
  <2> DEFINE j == [job[w] EXCEPT !.at = "markRejected", !.caught = InCatch(w)]
  <2>0. InCatch(w) \in BOOLEAN
    BY <1>0 DEF InCatch, Jobs
  <2>1. j \in Jobs /\ j.ref = job[w].ref /\ j.attached = job[w].attached
    BY <1>0, <2>0 DEF Jobs
  <2>2. job' = [job EXCEPT ![w] = j] /\ UNCHANGED <<status, claimed, queue, dead, batch>>
        /\ job[w].at # "idle"
    BY <1>0, <1>6 DEF Refuse, PipeOK
  <2> HIDE DEF j
  <2> QED BY <2>1, <2>2, MoveHolds
<1>7. CASE MarkRejected(w)
  BY <1>1, <1>7 DEF MarkRejected, Decided
<1>8. CASE Acknowledge(w)
  <2>1. UNCHANGED <<status, claimed, dead, batch>>
    BY <1>8 DEF Acknowledge
  <2>2. CASE Finish(w) /\ UNCHANGED queue
    BY <1>0, <2>1, <2>2, FinishHolds DEF PipeOK
  <2>3. CASE w \in Handlers /\ ProcessDies(w)
    BY <2>1, <2>3, ProcessDiesHolds
  <2> QED BY <1>8, <2>2, <2>3 DEF Acknowledge
<1> QED BY <1>2, <1>3, <1>4, <1>5, <1>6, <1>7, <1>8 DEF Handle

\* A message nobody could handle goes to the dead-letter queue from the handler that owned it.
LEMMA DeadLetterHolds ==
    ASSUME HoldInv, NEW w \in Writers, job[w].attached, Finish(w),
           dead' = dead \cup {job[w].ref}, UNCHANGED <<status, claimed, queue, batch>>
    PROVE  HoldInv'
<1>a. job[w].ref \in Refs
  BY DEF HoldInv, PipeOK
<1>b. PICK r \in Refs : r = job[w].ref
  BY <1>a
<1>0. PipeOK /\ Apart(r) /\ Owns(w, r)
  BY <1>b DEF HoldInv, Owns
<1>1. job' = [v \in Writers |-> IF v \in {w} THEN AtRest ELSE job[v]]
  BY <1>0 DEF Finish, PipeOK
<1>2. /\ job' \in [Writers -> Jobs]
      /\ \A v \in Writers : /\ job'[v].at # "idle" => job'[v].ref \in Refs
                            /\ job'[v].attached => job'[v].ref \in Refs /\ v \in Handlers
      /\ \A v \in Writers, q \in Refs : Owns(v, q)' <=> Owns(v, q) /\ v \notin {w}
  BY <1>0, <1>1, JobRests
<1>3. dead' = dead \cup {r}
  BY <1>b
<1>4. PipeOK'
  BY <1>0, <1>2, <1>3 DEF PipeOK
<1>5. ASSUME NEW q \in Refs, q # r PROVE Apart(q)'
  BY <1>2, <1>3, <1>5, ApartShrinks DEF HoldInv, Queued, QueuedOnce
<1>6. Apart(r)'
  <2>1. /\ ~InHand(r) /\ ~Queued(r) /\ ~InBatch(r)
        /\ status[r] \notin {"absent", "pending"}
        /\ \A v \in Writers : Owns(v, r) => v = w
    BY <1>0 DEF Apart, HeldByOne, HeldInOneWay, Owned
  <2>2. ~InHand(r)' /\ ~Queued(r)' /\ ~InBatch(r)' /\ ~Owned(r)'
    BY <1>2, <2>1 DEF InHand, Queued, InBatch, Owned
  <2>3. HeldByOne(r)'
    BY <2>2 DEF HeldByOne, InHand, Queued, InBatch, Owned
  <2> QED BY <2>1, <2>2, <2>3 DEF Apart, HeldInOneWay
<1> QED BY <1>4, <1>5, <1>6 DEF HoldInv

\* A query that throws within the try sends handle() to its catch block with its record.
LEMMA QueryFailsHolds ==
    ASSUME HoldInv, NEW w \in Writers, QueryFails(w)
    PROVE  HoldInv'
<1> DEFINE j == [job[w] EXCEPT !.at = "refuse", !.caught = TRUE]
<1>0. PipeOK /\ job[w] \in Jobs
  BY DEF HoldInv, PipeOK
<1>1. j \in Jobs /\ j.ref = job[w].ref /\ j.attached = job[w].attached
  BY <1>0 DEF Jobs
<1>2. /\ job' = [job EXCEPT ![w] = j] /\ UNCHANGED <<status, claimed, queue, dead, batch>>
      /\ job[w].at # "idle"
  BY <1>0 DEF QueryFails, Working, PipeOK
<1> HIDE DEF j
<1> QED BY <1>1, <1>2, MoveHolds

\* One that throws within the catch block ends handle(), in one of three ways.
LEMMA QueryFailsAgainHolds ==
    ASSUME HoldInv, NEW w \in Writers, QueryFailsAgain(w)
    PROVE  HoldInv'
<1>0. PipeOK /\ UNCHANGED <<status, claimed>>
  BY DEF HoldInv, QueryFailsAgain
<1>1. CASE /\ job[w].attached /\ dead' = dead \cup {job[w].ref}
           /\ Finish(w) /\ UNCHANGED <<queue, batch>>
  BY <1>0, <1>1, DeadLetterHolds
<1>2. CASE /\ w \in Servers /\ Finish(w)
           /\ batch' = [batch EXCEPT ![w] = {}] /\ UNCHANGED <<queue, dead>>
  <2>1. batch' \in [Servers -> SUBSET Refs] /\ \A b \in Servers : batch'[b] \subseteq batch[b]
    BY <1>0, <1>2 DEF PipeOK
  <2> QED BY <1>0, <1>2, <2>1, FinishHolds
<1>3. CASE w \in Handlers /\ ProcessDies(w) /\ UNCHANGED <<dead, batch>>
  BY <1>0, <1>3, ProcessDiesHolds
<1> QED BY <1>1, <1>2, <1>3 DEF QueryFailsAgain

\* A lost connection takes the message from its handler, which runs on without owning it.
LEMMA DisconnectHolds ==
    ASSUME HoldInv, NEW h \in Handlers, Disconnect(h)
    PROVE  HoldInv'
<1>0. PipeOK /\ h \in Writers /\ h \notin Servers
  BY StagingAssumption DEF HoldInv, Servers
<1>1. /\ job[h].attached /\ queue' = <<job[h].ref>> \o queue
      /\ job' = [job EXCEPT ![h].attached = FALSE]
      /\ UNCHANGED <<status, claimed, dead, batch>>
  BY DEF Disconnect
<1>2. /\ job'[h] = [job[h] EXCEPT !.attached = FALSE]
      /\ \A v \in Writers : v # h => job'[v] = job[v]
      /\ job' \in [Writers -> Jobs]
  BY <1>0, <1>1 DEF PipeOK, Jobs
<1>3. /\ job'[h].ref = job[h].ref /\ job'[h].at = job[h].at /\ ~job'[h].attached
  BY <1>0, <1>2 DEF PipeOK, Jobs
<1>4. \A v \in Writers : /\ job'[v].at # "idle" => job'[v].ref \in Refs
                         /\ job'[v].attached => job'[v].ref \in Refs /\ v \in Handlers
  BY <1>0, <1>2, <1>3 DEF PipeOK
<1>5. \A v \in Writers, q \in Refs : Owns(v, q)' => Owns(v, q) /\ v # h
  BY <1>0, <1>2, <1>3 DEF Owns
<1> QED BY <1>1, <1>2, <1>4, <1>5, RequeueHolds

\* A server that dies drops its batch and the record it was handling.
LEMMA ServerDiesHolds ==
    ASSUME HoldInv, NEW b \in Servers, ServerDies(b)
    PROVE  HoldInv'
<1>1. batch' \in [Servers -> SUBSET Refs] /\ \A a \in Servers : batch'[a] \subseteq batch[a]
  BY DEF HoldInv, PipeOK, ServerDies
<1>2. b \in Writers /\ Finish(b) /\ UNCHANGED <<status, claimed, queue, dead>>
  BY DEF ServerDies, Servers
<1> QED BY <1>1, <1>2, FinishHolds

\* Before the first pass there are no records.
LEMMA NothingHeldAtFirst == StagingInit => HoldInv
<1> SUFFICES ASSUME StagingInit PROVE HoldInv
  OBVIOUS
<1>1. AtRest \in Jobs /\ AtRest.ref \notin Refs /\ ~AtRest.attached /\ AtRest.at = "idle"
  BY StagingAssumption DEF AtRest, Jobs
<1>2. PipeOK
  BY <1>1 DEF StagingInit, PipeOK
<1>3. ASSUME NEW r \in Refs PROVE Apart(r)
  BY <1>1 DEF StagingInit, Apart, HeldByOne, HeldInOneWay, InHand, Queued, InBatch, Owned, Owns
<1> QED BY <1>2, <1>3 DEF HoldInv

\* Whatever happens, a record that one party has, no other has.
LEMMA StagingNextHolds == HoldInv /\ [StagingNext]_stagingVars => HoldInv'
<1> SUFFICES ASSUME HoldInv, [StagingNext]_stagingVars PROVE HoldInv'
  OBVIOUS
<1>1. ASSUME UNCHANGED pipe PROVE HoldInv'
  <2>1. UNCHANGED <<status, claimed, queue, dead, batch, job>>
    BY <1>1 DEF pipe
  <2>2. ASSUME NEW q \in Refs PROVE Apart(q)'
    BY <2>1, ApartFrame DEF HoldInv, Owns
  <2>3. PipeOK'
    BY <2>1 DEF HoldInv, PipeOK
  <2> QED BY <2>2, <2>3 DEF HoldInv
<1>2. ASSUME NEW i \in Inputs, Ingest(i) PROVE HoldInv'
  BY <1>2, IngestHolds
<1>3. ASSUME NEW s \in Submitters,
             \/ Claim(s) \/ SubmitterDies(s)
             \/ \E r \in claimed[s] : Publish(s, r) \/ PublishFails(s, r) \/ PublishLost(s, r)
      PROVE HoldInv'
  BY <1>3, ClaimHolds, SubmitterDiesHolds, PublishHolds
<1>4. ASSUME NEW h \in Handlers, Deliver(h) \/ Disconnect(h) PROVE HoldInv'
  BY <1>4, DeliverHolds, DisconnectHolds
<1>5. ASSUME NEW h \in Handlers, Kill(h) PROVE HoldInv'
  BY <1>5, ProcessDiesHolds DEF Kill
<1>6. ASSUME NEW b \in Servers,
             Boot(b) \/ (\E r \in batch[b] : NextOfBatch(b, r)) \/ ServerDies(b)
      PROVE HoldInv'
  BY <1>6, BootHolds, NextOfBatchHolds, ServerDiesHolds
<1>7. ASSUME NEW w \in Writers, Handle(w) \/ QueryFails(w) \/ QueryFailsAgain(w) PROVE HoldInv'
  BY <1>7, HandleHolds, QueryFailsHolds, QueryFailsAgainHolds
<1>8. CASE UNCHANGED stagingVars
  BY <1>1, <1>8 DEF stagingVars
<1> QED BY <1>1, <1>2, <1>3, <1>4, <1>5, <1>6, <1>7, <1>8 DEF StagingNext

\* A staged record is never in two hands at once: claimed by one submitter or one booting
\* server, in the queue once, with one handler that owns its message, or dead-lettered, and
\* pending only while it is nowhere.
THEOREM RecordsHeldOnce == StagingSpec => []HeldOnce
<1>1. StagingInit => HoldInv
  BY NothingHeldAtFirst
<1>2. HoldInv /\ [StagingNext]_stagingVars => HoldInv'
  BY StagingNextHolds
<1>3. HoldInv => HeldOnce
  BY ApartIsHeldOnce
<1> QED BY <1>1, <1>2, <1>3, PTL DEF StagingSpec
-----------------------------------------------------------------------------
(* Decisions. *)

\* A record somebody works on is with no submitter and no longer waits; one that a submitter
\* has is queued.
HandsOK ==
    /\ \A w \in Writers : job[w].ref \in Refs =>
          ~InHand(job[w].ref) /\ status[job[w].ref] \notin {"absent", "pending"}
    /\ \A r \in Refs : InHand(r) => status[r] = "queued"

\* Steps that put no record into other hands.
LEMMA HandsFrame ==
    ASSUME PipeOK, HandsOK,
           \A s \in Submitters : claimed'[s] \subseteq claimed[s],
           \A w \in Writers : job'[w].ref \in Refs => job'[w].ref = job[w].ref,
           \A r \in Refs : \/ status'[r] = status[r]
                           \/ status'[r] \in Decided /\ \E v \in Writers : job[v].ref = r
    PROVE  HandsOK' /\ \A r \in Refs : status[r] \in Decided => status'[r] \in Decided
<1>1. \A r \in Refs : InHand(r)' => InHand(r)
  BY DEF InHand
<1> QED BY <1>1 DEF HandsOK, Decided

\* A submitter lets go of a record.
LEMMA PublishHands ==
    ASSUME HoldInv, HandsOK, NEW s \in Submitters, NEW r \in claimed[s],
           Publish(s, r) \/ PublishFails(s, r) \/ PublishLost(s, r)
    PROVE  HandsOK' /\ \A q \in Refs : status[q] \in Decided => status'[q] \in Decided
<1>0. PipeOK /\ r \in Refs /\ Apart(r)
  BY DEF HoldInv, PipeOK
<1>1. \A t \in Submitters \ {s} : r \notin claimed[t]
  BY <1>0, InHandOnly
<1>2. UNCHANGED job /\ claimed' = [claimed EXCEPT ![s] = @ \ {r}]
  BY DEF Publish, PublishFails, PublishLost
<1>3. \A q \in Refs : InHand(q)' => InHand(q) /\ q # r
  BY <1>0, <1>1, <1>2 DEF PipeOK, InHand
<1>4. InHand(r)
  BY DEF InHand
<1>5. \A q \in Refs : status'[q] = status[q] \/ (q = r /\ status'[q] = "pending")
  BY <1>0 DEF PipeOK, Publish, PublishFails, PublishLost
<1> QED BY <1>2, <1>3, <1>4, <1>5 DEF HandsOK, Decided

\* A record is taken up that no submitter has.
LEMMA TakeUpHands ==
    ASSUME PipeOK, HandsOK, NEW w \in Writers, NEW r \in Refs, Apart(r), Queued(r) \/ InBatch(r),
           NEW attached, job' = [job EXCEPT ![w] = TakeUp(r, attached)], UNCHANGED <<status, claimed>>
    PROVE  HandsOK'
<1>1. ~InHand(r) /\ status[r] \notin {"absent", "pending"}
  BY DEF Apart, HeldInOneWay
<1>2. job'[w].ref = r /\ \A v \in Writers : v # w => job'[v] = job[v]
  BY DEF PipeOK, TakeUp
<1>3. \A q \in Refs : InHand(q)' <=> InHand(q)
  BY DEF InHand
<1> QED BY <1>1, <1>2, <1>3 DEF HandsOK

\* Handlers that rest have no record, and the others keep theirs.
LEMMA RestHands ==
    ASSUME PipeOK, HandsOK, NEW G, job' = [v \in Writers |-> IF v \in G THEN AtRest ELSE job[v]],
           UNCHANGED <<status, claimed>>
    PROVE  HandsOK'
<1>1. AtRest.ref \notin Refs
  BY StagingAssumption DEF AtRest
<1> QED BY <1>1, HandsFrame

\* Nobody undoes a decision: only an absent record is staged, only a pending one claimed, and
\* only a queued one goes back to pending.
LEMMA HandsKept ==
    ASSUME HoldInv, HandsOK, [StagingNext]_stagingVars
    PROVE  HandsOK' /\ \A r \in Refs : status[r] \in Decided => status'[r] \in Decided
<1> DEFINE Stand == \A r \in Refs : status[r] \in Decided => status'[r] \in Decided
<1>0. PipeOK /\ \A r \in Refs : Apart(r)
  BY DEF HoldInv
<1>a. AtRest.ref \notin Refs
  BY StagingAssumption DEF AtRest
<1>1. ASSUME UNCHANGED <<status, claimed, job>> PROVE HandsOK' /\ Stand
  BY <1>1 DEF HandsOK, InHand
<1>2. ASSUME NEW i \in Inputs, Ingest(i) PROVE HandsOK' /\ Stand
  <2>1. PICK r \in Refs : r = SourceReference(i)
    BY <1>2 DEF Ingest, Refs
  <2>2. status[r] = "absent" /\ UNCHANGED <<claimed, job>>
        /\ \A q \in Refs : status'[q] = status[q] \/ (q = r /\ status'[q] = "pending")
    BY <1>0, <1>2, <2>1 DEF Ingest, PipeOK
  <2>3. \A q \in Refs : InHand(q)' <=> InHand(q)
    BY <2>2 DEF InHand
  <2> QED BY <2>2, <2>3 DEF HandsOK, Decided
<1>3. ASSUME NEW s \in Submitters, Claim(s) PROVE HandsOK' /\ Stand
  <2>1. PICK S \in SUBSET Refs : /\ claimPending(S, EventTypesOf(s), "queued")
                                /\ claimed' = [claimed EXCEPT ![s] = S]
    BY <1>3 DEF Claim
  <2>2. /\ \A r \in S : status[r] = "pending" /\ status'[r] = "queued"
        /\ \A r \in Refs \ S : status'[r] = status[r]
    BY <1>0, <2>1, ClaimedStatuses
  <2>3. UNCHANGED job
    BY <1>3 DEF Claim
  <2>4. \A r \in Refs : InHand(r)' => InHand(r) \/ r \in S
    BY <1>0, <2>1 DEF InHand, PipeOK
  <2> QED BY <2>2, <2>3, <2>4 DEF HandsOK, Decided
<1>4. ASSUME NEW s \in Submitters, SubmitterDies(s) PROVE HandsOK' /\ Stand
  BY <1>0, <1>4, HandsFrame DEF SubmitterDies, PipeOK
<1>5. ASSUME NEW h \in Handlers, Deliver(h) PROVE HandsOK' /\ Stand
  <2>1. /\ queue # <<>> /\ job' = [job EXCEPT ![h] = TakeUp(Head(queue), TRUE)]
        /\ UNCHANGED <<status, claimed>> /\ h \in Writers /\ Head(queue) \in Refs
    BY <1>0, <1>5, StagingAssumption DEF Deliver, PipeOK
  <2>2. PICK r \in Refs : r = Head(queue)
    BY <2>1
  <2>3. Queued(r)
    BY <1>0, <2>1, <2>2 DEF Queued, PipeOK
  <2> QED BY <1>0, <2>1, <2>2, <2>3, TakeUpHands
<1>6. ASSUME NEW b \in Servers, Boot(b) PROVE HandsOK' /\ Stand
  <2>1. PICK S \in SUBSET Refs : claimPending(S, EventTypes, "processing")
    BY <1>6 DEF Boot
  <2>2. /\ \A r \in S : status[r] = "pending" /\ status'[r] = "processing"
        /\ \A r \in Refs \ S : status'[r] = status[r]
    BY <1>0, <2>1, ClaimedStatuses
  <2>3. UNCHANGED <<claimed, job>>
    BY <1>6 DEF Boot
  <2>4. \A r \in Refs : InHand(r)' <=> InHand(r)
    BY <2>3 DEF InHand
  <2> QED BY <2>2, <2>3, <2>4 DEF HandsOK, Decided
<1>7. ASSUME NEW b \in Servers, NEW r \in batch[b], NextOfBatch(b, r) PROVE HandsOK' /\ Stand
  <2>1. /\ job' = [job EXCEPT ![b] = TakeUp(r, FALSE)] /\ UNCHANGED <<status, claimed>>
        /\ b \in Writers /\ r \in Refs /\ InBatch(r)
    BY <1>0, <1>7 DEF NextOfBatch, PipeOK, Servers, InBatch
  <2> QED BY <1>0, <2>1, TakeUpHands
<1>8. ASSUME NEW w \in Writers, Finish(w), UNCHANGED <<status, claimed>> PROVE HandsOK' /\ Stand
  <2>1. job' = [v \in Writers |-> IF v \in {w} THEN AtRest ELSE job[v]]
    BY <1>0, <1>8 DEF Finish, PipeOK
  <2> QED BY <1>0, <1>8, <2>1, RestHands
<1>9. ASSUME NEW h \in Handlers, ProcessDies(h), UNCHANGED <<status, claimed>>
      PROVE  HandsOK' /\ Stand
  <2>1. job' = [v \in Writers |-> IF v \in {g \in Handlers : ProcessOf[g] = ProcessOf[h]}
                                  THEN AtRest ELSE job[v]]
    BY <1>9 DEF ProcessDies
  <2> QED BY <1>0, <1>9, <2>1, RestHands
<1>10. ASSUME NEW w \in Writers, NEW j \in Jobs, j.ref = job[w].ref, job[w].at # "idle",
              job' = [job EXCEPT ![w] = j], UNCHANGED claimed,
              \/ UNCHANGED status
              \/ \E d \in Decided : status' = [status EXCEPT ![job[w].ref] = d]
       PROVE  HandsOK' /\ Stand
  <2>1. \A v \in Writers : job'[v].ref = job[v].ref
    BY <1>0, <1>10 DEF PipeOK
  <2>2. \A r \in Refs : \/ status'[r] = status[r]
                        \/ status'[r] \in Decided /\ \E v \in Writers : job[v].ref = r
    BY <1>0, <1>10 DEF PipeOK
  <2> QED BY <1>0, <1>10, <2>1, <2>2, HandsFrame
<1>11. ASSUME NEW w \in Writers, Handle(w) \/ QueryFails(w) \/ QueryFailsAgain(w)
       PROVE  HandsOK' /\ Stand
  <2>0. job[w] \in Jobs
    BY <1>0 DEF PipeOK
  <2>1. ASSUME NEW label \in {"resolve", "refuse", "post", "acknowledge"}, Proceed(w, label),
               job[w].at # "idle", UNCHANGED claimed,
               \/ UNCHANGED status
               \/ \E d \in Decided : status' = [status EXCEPT ![job[w].ref] = d]
        PROVE  HandsOK' /\ Stand
    <3> DEFINE j == [job[w] EXCEPT !.at = label]
    <3>1. j \in Jobs /\ j.ref = job[w].ref
      BY <2>0 DEF Jobs
    <3>2. job' = [job EXCEPT ![w] = j]
      BY <1>0, <2>1 DEF Proceed, PipeOK
    <3> HIDE DEF j, Stand
    <3> QED BY <1>10, <2>1, <3>1, <3>2
  <2>2. CASE Validate(w) \/ Resolve(w) \/ MarkAccepted(w) \/ MarkRejected(w)
    <3> HIDE DEF Stand
    <3> QED BY <2>1, <2>2 DEF Validate, Resolve, MarkAccepted, MarkRejected, Decided
  <2>3. CASE Post(w)
    <3> HIDE DEF Stand
    <3> QED BY <1>1, <2>3 DEF Post, pipe
  <2>4. CASE Refuse(w)
    <3> DEFINE j == [job[w] EXCEPT !.at = "markRejected", !.caught = InCatch(w)]
    <3>0. InCatch(w) \in BOOLEAN
      BY <2>0 DEF InCatch, Jobs
    <3>1. j \in Jobs /\ j.ref = job[w].ref
      BY <2>0, <3>0 DEF Jobs
    <3>2. job' = [job EXCEPT ![w] = j] /\ UNCHANGED <<status, claimed>> /\ job[w].at # "idle"
      BY <1>0, <2>4 DEF Refuse, PipeOK
    <3> HIDE DEF j, Stand
    <3> QED BY <1>10, <3>1, <3>2
  <2>5. CASE Acknowledge(w)
    <3> HIDE DEF Stand
    <3> QED BY <1>8, <1>9, <2>5 DEF Acknowledge
  <2>6. CASE QueryFails(w)
    <3> DEFINE j == [job[w] EXCEPT !.at = "refuse", !.caught = TRUE]
    <3>1. j \in Jobs /\ j.ref = job[w].ref
      BY <2>0 DEF Jobs
    <3>2. job' = [job EXCEPT ![w] = j] /\ UNCHANGED <<status, claimed>> /\ job[w].at # "idle"
      BY <1>0, <2>6 DEF QueryFails, Working, PipeOK
    <3> HIDE DEF j, Stand
    <3> QED BY <1>10, <3>1, <3>2
  <2>7. CASE QueryFailsAgain(w)
    <3> HIDE DEF Stand
    <3> QED BY <1>8, <1>9, <2>7 DEF QueryFailsAgain
  <2> HIDE DEF Stand
  <2> QED BY <1>11, <2>2, <2>3, <2>4, <2>5, <2>6, <2>7 DEF Handle
<1>12. ASSUME NEW h \in Handlers, Disconnect(h) PROVE HandsOK' /\ Stand
  <2>1. h \in Writers /\ job[h] \in Jobs
    BY <1>0, StagingAssumption DEF PipeOK
  <2>2. \A v \in Writers : job'[v].ref = job[v].ref
    BY <1>0, <1>12, <2>1 DEF Disconnect, PipeOK, Jobs
  <2> QED BY <1>0, <1>12, <2>2, HandsFrame DEF Disconnect
<1> HIDE DEF Stand
<1>13. ASSUME NEW h \in Handlers, Kill(h) PROVE HandsOK' /\ Stand
  BY <1>9, <1>13 DEF Kill
<1>14. ASSUME NEW b \in Servers, ServerDies(b) PROVE HandsOK' /\ Stand
  BY <1>8, <1>14 DEF ServerDies, Servers
<1>15. ASSUME NEW s \in Submitters, NEW r \in claimed[s],
              Publish(s, r) \/ PublishFails(s, r) \/ PublishLost(s, r)
       PROVE  HandsOK' /\ Stand
  BY <1>15, PublishHands DEF Stand
<1>16. ASSUME UNCHANGED pipe PROVE HandsOK' /\ Stand
  BY <1>1, <1>16 DEF pipe
<1>17. ASSUME NEW s \in Submitters,
              \/ Claim(s) \/ SubmitterDies(s)
              \/ \E r \in claimed[s] : Publish(s, r) \/ PublishFails(s, r) \/ PublishLost(s, r)
       PROVE  HandsOK' /\ Stand
  BY <1>3, <1>4, <1>15, <1>17
<1>18. ASSUME NEW b \in Servers, Boot(b) \/ (\E r \in batch[b] : NextOfBatch(b, r)) \/ ServerDies(b)
       PROVE  HandsOK' /\ Stand
  BY <1>6, <1>7, <1>14, <1>18
<1>19. ASSUME UNCHANGED stagingVars PROVE HandsOK' /\ Stand
  BY <1>16, <1>19 DEF stagingVars
<1>20. ASSUME StagingNext PROVE HandsOK' /\ Stand
  BY <1>2, <1>5, <1>11, <1>12, <1>13, <1>16, <1>17, <1>18, <1>20 DEF StagingNext
<1> QED BY <1>19, <1>20 DEF Stand

\* Nothing is in anybody's hands at first.
LEMMA HandsAtFirst == StagingInit => HandsOK
BY StagingAssumption DEF StagingInit, HandsOK, InHand, AtRest

\* A decision is never undone, whatever is ingested, claimed, published or delivered again,
\* by any number of processes.
THEOREM DecisionsAreFinal == StagingSpec => DecisionsStand
<1>1. StagingInit => HoldInv /\ HandsOK
  BY NothingHeldAtFirst, HandsAtFirst
<1>2. HoldInv /\ HandsOK /\ [StagingNext]_stagingVars => HoldInv' /\ HandsOK'
  BY StagingNextHolds, HandsKept
<1>3. HoldInv /\ HandsOK /\ [StagingNext]_stagingVars
        => [\A r \in Refs : status[r] \in Decided => status'[r] \in Decided]_stagingVars
  BY HandsKept
<1> QED BY <1>1, <1>2, <1>3, PTL DEF StagingSpec, DecisionsStand
-----------------------------------------------------------------------------
(* The kinds of step, as the book and the handlers see them. *)

\* The locals of some calls are lost; the book is as it was.
Forgets ==
    /\ UNCHANGED book
    /\ clock' \in 0..MaxClock
    /\ \E G : writer' = [v \in Writers |-> IF v \in G THEN Idle ELSE writer[v]]

\* Handler v stays where it is, or is not posting before or after.
Bystands(v) ==
    /\ \/ writer'[v] = writer[v] /\ job'[v].at = job[v].at /\ job'[v].ref = job[v].ref
       \/ writer'[v] = Idle /\ job'[v].at \notin {"post", "markRejected"}
       \/ /\ writer'[v] = writer[v] /\ job[v].at # "post"
          /\ job'[v].at \notin {"post", "markRejected"}
    /\ job'[v].at # "idle" =>
          \/ job'[v].attached \/ v \in Servers \/ "connection lost" \in Faults
          \/ job[v].at # "idle" /\ job'[v].attached = job[v].attached

\* A step that records nothing, refuses nothing and decides nothing.
Aside ==
    /\ Forgets
    /\ UNCHANGED refused
    /\ \A v \in Writers : Bystands(v)
    /\ \A r \in Refs : status'[r] \in Decided => status[r] = status'[r]

\* Forgetting nothing is a way to forget.
LEMMA ForgetsNothing ==
    ASSUME TypeOK, UNCHANGED <<book, writer>>, clock' \in 0..MaxClock
    PROVE  Forgets
<1>1. \E G : writer' = [v \in Writers |-> IF v \in G THEN Idle ELSE writer[v]]
  <2>1. PICK G \in SUBSET Writers : G = {}
    OBVIOUS
  <2>2. writer' = [v \in Writers |-> IF v \in G THEN Idle ELSE writer[v]]
    BY <2>1 DEF TypeOK, LocalsOK
  <2> QED BY <2>2
<1> QED BY <1>1 DEF Forgets

\* What a step that leaves the book and the handlers alone is.
LEMMA AsideFrame ==
    ASSUME TypeOK, PipeOK, UNCHANGED <<vars, job, refused>>,
           \A r \in Refs : status'[r] \in Decided => status[r] = status'[r]
    PROVE  Aside
<1>1. Forgets
  BY ForgetsNothing DEF TypeOK, vars
<1>2. \A v \in Writers : Bystands(v)
  BY DEF Bystands, vars
<1> QED BY <1>1, <1>2 DEF Aside

\* One handler that is not posting moves.
LEMMA AsideMove ==
    ASSUME TypeOK, PipeOK, NEW w \in Writers, NEW j, job' = [job EXCEPT ![w] = j],
           UNCHANGED <<vars, refused, status>>, job[w].at # "post",
           j.at \notin {"post", "markRejected"},
           j.at # "idle" => \/ j.attached \/ w \in Servers
                            \/ job[w].at # "idle" /\ j.attached = job[w].attached
    PROVE  Aside
<1>1. Forgets
  BY ForgetsNothing DEF TypeOK, vars
<1>2. job'[w] = j /\ \A v \in Writers : v # w => job'[v] = job[v]
  BY DEF PipeOK
<1>3. \A v \in Writers : Bystands(v)
  BY <1>2 DEF Bystands, vars
<1> QED BY <1>1, <1>3 DEF Aside

\* Some handlers stop.
LEMMA AsideRest ==
    ASSUME TypeOK, PipeOK, NEW G, UNCHANGED <<book, clock, refused, status>>,
           writer' = [v \in Writers |-> IF v \in G THEN Idle ELSE writer[v]],
           job' = [v \in Writers |-> IF v \in G THEN AtRest ELSE job[v]]
    PROVE  Aside
<1>1. AtRest.at = "idle"
  BY DEF AtRest
<1>2. \A v \in Writers : Bystands(v)
  BY <1>1 DEF Bystands
<1>3. clock' \in 0..MaxClock
  BY DEF TypeOK
<1> QED BY <1>2, <1>3 DEF Aside, Forgets

\* Every step of the pipeline is a step aside, or one of handle() that posts, marks or refuses.
LEMMA StagingKinds ==
    ASSUME TypeOK, PipeOK, [StagingNext]_stagingVars
    PROVE  \/ Aside
           \/ \E w \in Writers : \/ Resolve(w) \/ Post(w) \/ MarkAccepted(w)
                                 \/ Refuse(w) \/ MarkRejected(w)
<1>1. ASSUME NEW i \in Inputs, Ingest(i) PROVE Aside
  BY <1>1, AsideFrame DEF Ingest, PipeOK, Decided
<1>2. ASSUME NEW s \in Submitters, Claim(s) PROVE Aside
  <2>1. PICK S \in SUBSET Refs : claimPending(S, EventTypesOf(s), "queued")
    BY <1>2 DEF Claim
  <2>2. \A r \in Refs : status'[r] \in Decided => status[r] = status'[r]
    BY <2>1 DEF claimPending, Decided
  <2> QED BY <1>2, <2>2, AsideFrame DEF Claim
<1>3. ASSUME NEW s \in Submitters, SubmitterDies(s) PROVE Aside
  BY <1>3, AsideFrame DEF SubmitterDies
<1>4. ASSUME NEW s \in Submitters, NEW r \in claimed[s],
             Publish(s, r) \/ PublishFails(s, r) \/ PublishLost(s, r)
      PROVE  Aside
  BY <1>4, AsideFrame DEF Publish, PublishFails, PublishLost, PipeOK, Decided
<1>5. ASSUME NEW h \in Handlers, Deliver(h) PROVE Aside
  <2>1. /\ job[h].at = "idle" /\ TakeUp(Head(queue), TRUE).at = "validate"
        /\ TakeUp(Head(queue), TRUE).attached
    BY <1>5 DEF Deliver, AtRest, TakeUp
  <2> QED BY <1>5, <2>1, AsideMove, StagingAssumption DEF Deliver
<1>6. ASSUME NEW b \in Servers, Boot(b) PROVE Aside
  <2>1. PICK S \in SUBSET Refs : claimPending(S, EventTypes, "processing")
    BY <1>6 DEF Boot
  <2>2. \A r \in Refs : status'[r] \in Decided => status[r] = status'[r]
    BY <2>1 DEF claimPending, Decided
  <2> QED BY <1>6, <2>2, AsideFrame DEF Boot
<1>7. ASSUME NEW b \in Servers, NEW r \in batch[b], NextOfBatch(b, r) PROVE Aside
  <2>1. job[b].at = "idle" /\ TakeUp(r, FALSE).at = "validate"
    BY <1>7 DEF NextOfBatch, AtRest, TakeUp
  <2> QED BY <1>7, <2>1, AsideMove DEF NextOfBatch, Servers
<1>8. ASSUME NEW w \in Writers, Finish(w), UNCHANGED <<status, refused>> PROVE Aside
  <2>1. /\ job' = [v \in Writers |-> IF v \in {w} THEN AtRest ELSE job[v]]
        /\ writer' = [v \in Writers |-> IF v \in {w} THEN Idle ELSE writer[v]]
        /\ UNCHANGED <<book, clock>>
    BY <1>8 DEF Finish, PipeOK, TypeOK, LocalsOK
  <2> QED BY <1>8, <2>1, AsideRest
<1>9. ASSUME NEW h \in Handlers, ProcessDies(h), UNCHANGED <<status, refused>> PROVE Aside
  <2> DEFINE G == {g \in Handlers : ProcessOf[g] = ProcessOf[h]}
  <2>1. /\ job' = [v \in Writers |-> IF v \in G THEN AtRest ELSE job[v]]
        /\ writer' = [v \in Writers |-> IF v \in G THEN Idle ELSE writer[v]]
        /\ UNCHANGED <<book, clock>>
    BY <1>9 DEF ProcessDies
  <2> HIDE DEF G
  <2> QED BY <1>9, <2>1, AsideRest
<1>10. ASSUME NEW w \in Writers, Validate(w) PROVE Aside
  <2>0. job[w] \in Jobs
    BY DEF PipeOK
  <2>1. PICK label \in {"resolve", "refuse"} : job' = [job EXCEPT ![w].at = label]
    BY <1>10 DEF Validate, Proceed
  <2> DEFINE j == [job[w] EXCEPT !.at = label]
  <2>2. j.at = label /\ j.attached = job[w].attached /\ job' = [job EXCEPT ![w] = j]
    BY <2>0, <2>1 DEF PipeOK, Jobs
  <2>3. UNCHANGED <<vars, refused, status>> /\ job[w].at = "validate"
    BY <1>10 DEF Validate
  <2> HIDE DEF j
  <2> QED BY <2>1, <2>2, <2>3, AsideMove
<1>11. ASSUME NEW w \in Writers, QueryFails(w) PROVE Aside
  <2>0. job[w] \in Jobs
    BY DEF PipeOK
  <2> DEFINE j == [job[w] EXCEPT !.at = "refuse", !.caught = TRUE]
  <2>1. j.at = "refuse" /\ j.attached = job[w].attached /\ job' = [job EXCEPT ![w] = j]
    BY <1>11, <2>0 DEF QueryFails, PipeOK, Jobs
  <2> HIDE DEF j
  <2>2. /\ writer' = [v \in Writers |-> IF v \in {w} THEN Idle ELSE writer[v]]
        /\ UNCHANGED <<book, clock, refused, status>> /\ job[w].at # "idle"
    BY <1>11 DEF QueryFails, Working, TypeOK, LocalsOK
  <2>3. job'[w] = j /\ \A v \in Writers : v # w => job'[v] = job[v]
    BY <2>1 DEF PipeOK
  <2>4. \A v \in Writers : Bystands(v)
    BY <2>1, <2>2, <2>3 DEF Bystands
  <2>5. clock' \in 0..MaxClock
    BY <2>2 DEF TypeOK
  <2> QED BY <2>2, <2>4, <2>5 DEF Aside, Forgets
<1>12. ASSUME NEW w \in Writers, QueryFailsAgain(w) PROVE Aside
  BY <1>8, <1>9, <1>12 DEF QueryFailsAgain
<1>13. ASSUME NEW h \in Handlers, Disconnect(h) PROVE Aside
  <2>1. h \in Writers /\ job[h] \in Jobs /\ "connection lost" \in Faults
    BY <1>13, StagingAssumption DEF PipeOK, Disconnect, Fault
  <2>2. \A v \in Writers : job'[v].at = job[v].at /\ job'[v].ref = job[v].ref
    BY <1>13, <2>1 DEF Disconnect, PipeOK, Jobs
  <2>3. UNCHANGED <<book, clock, writer, refused, status>>
    BY <1>13 DEF Disconnect, vars
  <2>4. Forgets
    BY <2>3, ForgetsNothing DEF TypeOK
  <2>5. \A v \in Writers : Bystands(v)
    BY <2>1, <2>2, <2>3 DEF Bystands
  <2> QED BY <2>3, <2>4, <2>5 DEF Aside
<1>14. ASSUME NEW t \in 0..MaxClock, Tick(t), UNCHANGED pipe PROVE Aside
  <2>1. UNCHANGED <<book, writer, job, refused, status>> /\ clock' \in 0..MaxClock
    BY <1>14 DEF Tick, pipe
  <2>2. Forgets
    BY <2>1, ForgetsNothing
  <2> QED BY <2>1, <2>2 DEF Aside, Bystands
<1>15. ASSUME NEW w \in Writers, Acknowledge(w) PROVE Aside
  BY <1>8, <1>9, <1>15 DEF Acknowledge
<1>16. ASSUME NEW h \in Handlers, Kill(h) PROVE Aside
  BY <1>9, <1>16 DEF Kill
<1>17. ASSUME NEW b \in Servers, ServerDies(b) PROVE Aside
  BY <1>8, <1>17 DEF ServerDies, Servers
<1>18. ASSUME UNCHANGED stagingVars PROVE Aside
  BY <1>18, AsideFrame DEF stagingVars, pipe
<1>19. ASSUME NEW s \in Submitters,
              \/ Claim(s) \/ SubmitterDies(s)
              \/ \E r \in claimed[s] : Publish(s, r) \/ PublishFails(s, r) \/ PublishLost(s, r)
       PROVE  Aside
  BY <1>2, <1>3, <1>4, <1>19
<1>20. ASSUME NEW b \in Servers, Boot(b) \/ (\E r \in batch[b] : NextOfBatch(b, r)) \/ ServerDies(b)
       PROVE  Aside
  BY <1>6, <1>7, <1>17, <1>20
<1>21. ASSUME NEW h \in Handlers, Deliver(h) \/ Disconnect(h) \/ Kill(h) PROVE Aside
  BY <1>5, <1>13, <1>16, <1>21
<1>22. ASSUME NEW w \in Writers, Handle(w) \/ QueryFails(w) \/ QueryFailsAgain(w)
       PROVE  \/ Aside
              \/ Resolve(w) \/ Post(w) \/ MarkAccepted(w) \/ Refuse(w) \/ MarkRejected(w)
  BY <1>10, <1>11, <1>12, <1>15, <1>22 DEF Handle
<1>23. ASSUME (\E t \in 0..MaxClock : Tick(t)) /\ UNCHANGED pipe PROVE Aside
  BY <1>14, <1>23
<1> QED BY <1>1, <1>18, <1>19, <1>20, <1>21, <1>22, <1>23 DEF StagingNext
-----------------------------------------------------------------------------
(* What is staged. *)

\* A record was staged from an eligible document that has its reference.
PayloadOK ==
    /\ DOMAIN payload = Refs
    /\ \A r \in Refs : status[r] # "absent" =>
          payload[r] \in Inputs /\ Eligible(payload[r]) /\ SourceReference(payload[r]) = r

\* Only an ingestion stages a record or touches what was staged.
LEMMA OnlyIngestStages ==
    ASSUME HoldInv, HandsOK, [StagingNext]_stagingVars
    PROVE  \/ \E i \in Inputs : Ingest(i)
           \/ UNCHANGED payload /\ \A r \in Refs : status[r] = "absent" => status'[r] = "absent"
<1> DEFINE Stays == UNCHANGED payload /\ \A r \in Refs : status[r] = "absent" => status'[r] = "absent"
<1>0. PipeOK
  BY DEF HoldInv
<1>1. ASSUME UNCHANGED <<payload, status>> PROVE Stays
  BY <1>1
<1>2. ASSUME NEW s \in Submitters, Claim(s) PROVE Stays
  <2>1. PICK S \in SUBSET Refs : claimPending(S, EventTypesOf(s), "queued")
    BY <1>2 DEF Claim
  <2> QED BY <1>2, <2>1 DEF Claim, claimPending, Claimable
<1>3. ASSUME NEW b \in Servers, Boot(b) PROVE Stays
  <2>1. PICK S \in SUBSET Refs : claimPending(S, EventTypes, "processing")
    BY <1>3 DEF Boot
  <2> QED BY <1>3, <2>1 DEF Boot, claimPending, Claimable
<1>4. ASSUME NEW s \in Submitters, NEW r \in claimed[s], PublishFails(s, r) PROVE Stays
  <2>1. r \in Refs /\ status[r] = "queued"
    BY <1>0 DEF HandsOK, InHand, PipeOK
  <2> QED BY <1>0, <1>4, <2>1 DEF PublishFails, PipeOK
<1>5. ASSUME NEW w \in Writers, MarkAccepted(w) \/ MarkRejected(w) PROVE Stays
  <2>1. job[w].ref \in Refs /\ status[job[w].ref] # "absent"
    BY <1>0, <1>5 DEF MarkAccepted, MarkRejected, PipeOK, HandsOK
  <2> QED BY <1>0, <1>5, <2>1 DEF MarkAccepted, MarkRejected, PipeOK
<1> HIDE DEF Stays
<1>6. ASSUME NEW w \in Writers, Handle(w) \/ QueryFails(w) \/ QueryFailsAgain(w) PROVE Stays
  <2>1. CASE Validate(w) \/ Resolve(w) \/ Post(w) \/ Refuse(w) \/ Acknowledge(w)
             \/ QueryFails(w) \/ QueryFailsAgain(w)
    BY <1>1, <2>1 DEF Validate, Resolve, Post, Refuse, Acknowledge, QueryFails,
       QueryFailsAgain, pipe
  <2> QED BY <1>5, <1>6, <2>1 DEF Handle
<1>7. ASSUME NEW h \in Handlers, Deliver(h) \/ Disconnect(h) \/ Kill(h) PROVE Stays
  BY <1>1, <1>7 DEF Deliver, Disconnect, Kill
<1>8. ASSUME NEW b \in Servers, Boot(b) \/ (\E r \in batch[b] : NextOfBatch(b, r)) \/ ServerDies(b)
      PROVE  Stays
  BY <1>1, <1>3, <1>8 DEF NextOfBatch, ServerDies
<1>9. ASSUME NEW s \in Submitters,
             \/ Claim(s) \/ SubmitterDies(s)
             \/ \E r \in claimed[s] : Publish(s, r) \/ PublishFails(s, r) \/ PublishLost(s, r)
      PROVE  Stays
  BY <1>1, <1>2, <1>4, <1>9 DEF SubmitterDies, Publish, PublishLost
<1>10. ASSUME UNCHANGED stagingVars \/ UNCHANGED pipe PROVE Stays
  BY <1>1, <1>10 DEF stagingVars, pipe
<1>11. Stays \/ \E i \in Inputs : Ingest(i)
  BY <1>6, <1>7, <1>8, <1>9, <1>10 DEF StagingNext
<1> QED BY <1>11 DEF Stays

LEMMA PayloadKept ==
    ASSUME HoldInv, HandsOK, PayloadOK, [StagingNext]_stagingVars
    PROVE  PayloadOK'
<1>1. ASSUME NEW i \in Inputs, Ingest(i) PROVE PayloadOK'
  BY <1>1 DEF Ingest, PayloadOK, HoldInv, PipeOK
<1>2. ASSUME UNCHANGED payload, \A r \in Refs : status[r] = "absent" => status'[r] = "absent"
      PROVE  PayloadOK'
  BY <1>2 DEF PayloadOK
<1> QED BY <1>1, <1>2, OnlyIngestStages

\* Who works on a record works on one that was staged.
LEMMA WorksOnStaged ==
    ASSUME PipeOK, HandsOK, PayloadOK, NEW w \in Writers, job[w].at # "idle"
    PROVE  /\ job[w].ref \in Refs /\ payload[job[w].ref] \in Inputs
           /\ Eligible(payload[job[w].ref]) /\ SourceReference(payload[job[w].ref]) = job[w].ref
BY DEF PipeOK, HandsOK, PayloadOK

\* The command a record becomes: one of the commands, under the record's own reference and
\* without a key.  A commission received settles one object, its receivable, named first.
LEMMA StagedCommand ==
    ASSUME NEW i \in Inputs, Eligible(i), NEW origin
    PROVE  LET c == toCreateCommand(i)  d == markOrphanIfUnlinked(c, origin) IN
           /\ d \in Commands /\ d.ref = SourceReference(i) /\ d.commandId = NoKey
           /\ d.eventType = c.eventType /\ d.objects = c.objects
           /\ c.eventType = "COMMISSION_RECEIVED" =>
                 /\ 1 \in DOMAIN c.objects /\ c.objects[1].relation = "SETTLES"
                 /\ \A k \in DOMAIN c.objects : c.objects[k].relation = "SETTLES" => k = 1
                 /\ origin = None => d.reason.type = "UNKNOWN_ORIGIN" /\ d.reason.requiresFollowup
<1> DEFINE c == toCreateCommand(i)
<1> DEFINE d == markOrphanIfUnlinked(c, origin)
<1>1. c \in Commands /\ markOrphanIfUnlinked(c, None) \in Commands
  BY StagingAssumption
<1>2. d = c \/ d = markOrphanIfUnlinked(c, None)
  BY DEF markOrphanIfUnlinked
<1>3. CASE i.source = "advance"
  <2>1. c = AdvanceCommand(i)
    BY <1>3 DEF toCreateCommand
  <2>2. c.eventType = "ADVANCE_PAYMENT" /\ c.ref = SourceReference(i) /\ c.commandId = NoKey
    BY <2>1 DEF AdvanceCommand
  <2>3. d = c
    BY <2>2 DEF markOrphanIfUnlinked
  <2> QED BY <1>1, <2>2, <2>3
<1>4. CASE i.source = "receipt"
  <2>1. c = ReceiptCommand(i)
    BY <1>4 DEF toCreateCommand
  <2>2. c.ref = SourceReference(i) /\ c.commandId = NoKey
    BY <2>1 DEF ReceiptCommand
  <2>3. /\ d.ref = c.ref /\ d.commandId = c.commandId /\ d.eventType = c.eventType
        /\ d.objects = c.objects
    BY <2>1 DEF ReceiptCommand, markOrphanIfUnlinked
  <2>4. CASE i.receiptStatus = DISCHARGED
    <3>1. c.objects = <<Object(i.id, "COMMISSION_RECEIVABLE", "SETTLES"),
                        Object(i.proposalId, "PROPOSAL", "REFERENCES"),
                        Object(i.installment, "INSTALLMENT", "REFERENCES")>>
      BY <2>1, <2>4 DEF ReceiptCommand
    <3>2. /\ 1 \in DOMAIN c.objects /\ c.objects[1].relation = "SETTLES"
          /\ \A k \in DOMAIN c.objects : c.objects[k].relation = "SETTLES" => k = 1
      BY <3>1 DEF Object
    <3>3. c.eventType = "COMMISSION_RECEIVED"
      BY <2>1, <2>4 DEF ReceiptCommand
    <3>4. origin = None => d.reason.type = "UNKNOWN_ORIGIN" /\ d.reason.requiresFollowup
      BY <2>1, <3>3 DEF markOrphanIfUnlinked, ReceiptCommand
    <3> QED BY <1>1, <1>2, <2>2, <2>3, <3>2, <3>4
  <2>5. CASE i.receiptStatus # DISCHARGED
    <3>1. c.eventType = "COMMISSION_EXPECTED"
      BY <2>1, <2>5 DEF ReceiptCommand
    <3> QED BY <1>1, <1>2, <2>2, <2>3, <3>1
  <2> QED BY <2>4, <2>5
<1> QED BY <1>3, <1>4, StagingAssumption
-----------------------------------------------------------------------------
(* Posting. *)

\* A commission received says truly where it comes from, or that nobody knows.
HonestCall(c, origin) ==
    c.eventType = "COMMISSION_RECEIVED" =>
        IF origin = None
        THEN c.reason.type = "UNKNOWN_ORIGIN" /\ c.reason.requiresFollowup
        ELSE /\ book[origin].cmd.eventType = "COMMISSION_EXPECTED"
             /\ \E o \in Range(c.objects) : /\ o.relation = "SETTLES"
                                            /\ origin \in EventsOf(book, o.objectId)

\* execute() runs for the handler that posts, on the command of its record; a record about to
\* be marked rejected has its refusal recorded.
Posting(w) ==
    /\ writer[w].pc \notin {"idle", "answered"} =>
          job[w].at = "post" /\ writer[w].answer.status = "none"
    /\ job[w].at = "post" => /\ writer[w].cmd.ref = job[w].ref /\ writer[w].cmd.commandId = NoKey
                             /\ HonestCall(writer[w].cmd, writer[w].related)
    /\ job[w].at = "markRejected" => job[w].ref \in refused

PostInv ==
    /\ TypeOK /\ MarksAreTrue /\ LineageHonest
    /\ \A w \in Writers : Posting(w) /\ AnswerSound(w)

\* The book is the sequence it was, with more events at its end: what was honest stays so.
LEMMA HonestStable ==
    ASSUME Grows, NEW c, NEW origin, HonestCall(c, origin)
    PROVE  HonestCall(c, origin)'
BY DEF HonestCall, Grows, EventsOf, Ids

LEMMA RecordedStable ==
    ASSUME Grows, NEW r, Recorded(r) # {}
    PROVE  Recorded(r)' # {}
BY DEF Grows, Recorded, Ids

\* Marks stay true while no decision is made.
LEMMA MarksStable ==
    ASSUME Grows, refused \subseteq refused', MarksAreTrue,
           \A r \in Refs : status'[r] \in Decided => status'[r] = status[r]
    PROVE  MarksAreTrue'
BY RecordedStable DEF MarksAreTrue, Decided

\* Nothing was appended.
LEMMA SameBook ==
    ASSUME UNCHANGED book
    PROVE  Grows /\ (LineageHonest => LineageHonest')
BY DEF Grows, LineageHonest, Ids, EventsOf

\* A handler that is left alone keeps what it has.
LEMMA PostingStable ==
    ASSUME Grows, refused \subseteq refused', NEW w \in Writers, Posting(w), AnswerSound(w),
           writer'[w] = writer[w], job'[w].at = job[w].at, job'[w].ref = job[w].ref
    PROVE  Posting(w)' /\ AnswerSound(w)'
<1>1. AnswerSound(w)'
  BY AnswerStable
<1>2. job[w].at = "post" => HonestCall(writer[w].cmd, writer[w].related)'
  BY HonestStable DEF Posting
<1> QED BY <1>1, <1>2 DEF Posting, HonestCall

\* The locals of an execute() that is not running.
LEMMA IdleLocals ==
    Idle \in Locals /\ Idle.pc = "idle" /\ Idle.answer.status = "none"
BY FreshType, AnswerTypes, BookAssumption DEF Idle, Fresh, NoAnswer, None, Labels, UnknownId

\* Forgetting calls keeps the types.
LEMMA ForgetsType ==
    ASSUME TypeOK, Forgets
    PROVE  TypeOK'
<1>1. PICK G : writer' = [v \in Writers |-> IF v \in G THEN Idle ELSE writer[v]]
  BY DEF Forgets
<1>2. writer' \in [Writers -> Locals]
  BY <1>1, IdleLocals DEF TypeOK, LocalsOK
<1>3. \A v \in Writers : writer'[v] = Idle \/ writer'[v] = writer[v]
  BY <1>1
<1>4. LocalsOK'
  BY <1>2, <1>3, IdleLocals DEF TypeOK, LocalsOK
<1> QED BY <1>4 DEF TypeOK, Forgets

LEMMA AsidePosts ==
    ASSUME PipeOK, PostInv, Aside
    PROVE  PostInv'
<1>1. TypeOK'
  BY ForgetsType DEF PostInv, Aside
<1>2. Grows /\ LineageHonest'
  BY SameBook DEF PostInv, Aside, Forgets
<1>3. MarksAreTrue'
  BY <1>2, MarksStable DEF PostInv, Aside
<1>4. ASSUME NEW v \in Writers PROVE Posting(v)' /\ AnswerSound(v)'
  <2>0. Bystands(v) /\ Posting(v) /\ AnswerSound(v)
    BY DEF Aside, PostInv
  <2>1. CASE writer'[v] = writer[v] /\ job'[v].at = job[v].at /\ job'[v].ref = job[v].ref
    BY <1>2, <2>0, <2>1, PostingStable DEF Aside
  <2>2. CASE writer'[v] = Idle /\ job'[v].at \notin {"post", "markRejected"}
    BY <2>2, IdleLocals DEF Posting, AnswerSound
  <2>3. CASE /\ writer'[v] = writer[v] /\ job[v].at # "post"
             /\ job'[v].at \notin {"post", "markRejected"}
    <3>1. AnswerSound(v)'
      BY <1>2, <2>0, <2>3, AnswerStable
    <3> QED BY <2>0, <2>3, <3>1 DEF Posting
  <2> QED BY <2>0, <2>1, <2>2, <2>3 DEF Bystands
<1> QED BY <1>1, <1>2, <1>3, <1>4 DEF PostInv

\* The handler of a record that was staged starts execute() on an honest command.
LEMMA ResolvePosts ==
    ASSUME PipeOK, HandsOK, PayloadOK, PostInv, NEW w \in Writers, Resolve(w)
    PROVE  PostInv'
<1> DEFINE i == payload[job[w].ref]
<1> DEFINE c == toCreateCommand(i)
<1>0. /\ job[w] \in Jobs /\ job[w].ref \in Refs /\ i \in Inputs
      /\ Eligible(i) /\ SourceReference(i) = job[w].ref
  BY WorksOnStaged DEF Resolve, PipeOK
<1>1. PICK origin \in {None} \cup Ids(book) :
        resolve(c, origin) /\ Begin(w, markOrphanIfUnlinked(c, origin), origin)
  BY DEF Resolve
<1> DEFINE d == markOrphanIfUnlinked(c, origin)
<1>2. /\ d \in Commands /\ d.ref = job[w].ref /\ d.commandId = NoKey
      /\ d.eventType = c.eventType /\ d.objects = c.objects
      /\ c.eventType = "COMMISSION_RECEIVED" =>
            /\ 1 \in DOMAIN c.objects /\ c.objects[1].relation = "SETTLES"
            /\ origin = None => d.reason.type = "UNKNOWN_ORIGIN" /\ d.reason.requiresFollowup
  BY <1>0, StagedCommand
<1>3. HonestCall(d, origin)
  <2>1. ASSUME c.eventType = "COMMISSION_RECEIVED", origin # None
        PROVE  /\ book[origin].cmd.eventType = "COMMISSION_EXPECTED"
               /\ origin \in EventsOf(book, c.objects[1].objectId)
    BY <1>1, <2>1 DEF resolve, IsExpected, receivableOf
  <2> HIDE DEF c, d
  <2> QED BY <1>2, <2>1 DEF HonestCall, Range
<1> HIDE DEF i, c, d
<1>4. Begin(w, d, origin) /\ UNCHANGED book /\ UNCHANGED clock
  BY <1>1 DEF d, Begin
<1>5. TypeOK'
  <2>1. Next
    BY <1>2, <1>4 DEF Next, Targets
  <2> QED BY <2>1, TypeKept DEF PostInv
<1>6. /\ writer'[w] = Fresh("source", d, origin, NoAnswer)
      /\ \A v \in Writers \ {w} : writer'[v] = writer[v]
  BY <1>2, <1>4 DEF Begin, PostInv, TypeOK, LocalsOK
<1>7. /\ job'[w].at = "post" /\ job'[w].ref = job[w].ref
      /\ \A v \in Writers \ {w} : job'[v] = job[v]
  BY <1>0 DEF Resolve, Proceed, PipeOK, Jobs
<1>8. UNCHANGED <<status, refused>>
  BY DEF Resolve
<1>9. Grows /\ LineageHonest' /\ MarksAreTrue'
  BY <1>4, <1>8, SameBook, MarksStable DEF PostInv
<1>10. Posting(w)' /\ AnswerSound(w)'
  <2>1. /\ writer'[w].pc = "source" /\ writer'[w].cmd = d /\ writer'[w].related = origin
        /\ writer'[w].answer.status = "none"
    BY <1>6 DEF Fresh, NoAnswer
  <2>2. PICK call \in Commands : call = d
    BY <1>2
  <2>3. HonestCall(call, origin)'
    BY <1>3, <1>9, <2>2, HonestStable
  <2>4. HonestCall(writer[w].cmd, writer[w].related)'
    BY <2>1, <2>2, <2>3 DEF HonestCall
  <2> QED BY <1>2, <1>7, <2>1, <2>4 DEF Posting, AnswerSound
<1>11. ASSUME NEW v \in Writers \ {w} PROVE Posting(v)' /\ AnswerSound(v)'
  BY <1>6, <1>7, <1>8, <1>9, PostingStable DEF PostInv
<1> QED BY <1>5, <1>9, <1>10, <1>11 DEF PostInv

\* execute() moves on, and may record what the handler resolved.
LEMMA PostPosts ==
    ASSUME PipeOK, PostInv, NEW w \in Writers, Post(w)
    PROVE  PostInv'
<1>0. TypeOK /\ Posting(w) /\ AnswerSound(w) /\ Step(w) /\ UNCHANGED pipe /\ job[w].at = "post"
  BY DEF PostInv, Post
<1>1. Next
  BY <1>0 DEF Next
<1>2. TypeOK' /\ Grows
  BY <1>0, <1>1, TypeKept, BookGrows
<1>3. SameCall(w) /\ writer[w].pc \notin {"idle", "answered"} /\ writer[w].cmd \in Commands
  BY <1>0, StepMoves
<1>4. UNCHANGED <<status, refused, job>>
  BY <1>0 DEF pipe
<1>5. MarksAreTrue'
  BY <1>2, <1>4, MarksStable DEF PostInv
<1>6. LineageHonest'
  <2>1. CASE UNCHANGED book
    BY <2>1, SameBook DEF PostInv
  <2>2. CASE NewEvent(w) \in Events /\ book' = Append(book, NewEvent(w))
    <3>1. Ids(book)' = Ids(book) \cup {Len(book) + 1} /\ book'[Len(book) + 1] = NewEvent(w)
      BY <1>0, <2>2, SaveGrows
    <3>2. ASSUME NEW e \in Ids(book) PROVE HonestCall(book[e].cmd, book[e].related)'
      <4>1. HonestCall(book[e].cmd, book[e].related)
        BY DEF PostInv, LineageHonest, HonestCall
      <4>2. book'[e] = book[e]
        BY <1>2 DEF Grows
      <4> QED BY <1>2, <4>1, <4>2, HonestStable DEF HonestCall
    <3>3. ASSUME NEW n, n = Len(book) + 1 PROVE HonestCall(book[n].cmd, book[n].related)'
      <4>1. book'[n].cmd = writer[w].cmd /\ book'[n].related = writer[w].related
        BY <3>1, <3>3 DEF NewEvent
      <4>2. HonestCall(writer[w].cmd, writer[w].related)
        BY <1>0 DEF Posting
      <4> QED BY <1>2, <4>1, <4>2, HonestStable DEF HonestCall
    <3> QED BY <3>1, <3>2, <3>3 DEF LineageHonest, HonestCall
  <2> QED BY <1>0, <2>1, <2>2, StepMoves
<1>7. Posting(w)' /\ AnswerSound(w)'
  <2>1. AnswerSound(w)'
    BY <1>0, <1>2, AnswerStep
  <2>2. HonestCall(writer[w].cmd, writer[w].related)'
    <3>1. HonestCall(writer[w].cmd, writer[w].related)
      BY <1>0 DEF Posting
    <3> QED BY <1>2, <1>3, <3>1, HonestStable DEF HonestCall, SameCall
  <2>3. writer'[w].pc = "answered" \/ writer'[w].answer = writer[w].answer
    BY <1>0, StepMoves
  <2> QED BY <1>0, <1>3, <1>4, <2>1, <2>2, <2>3 DEF Posting, SameCall
<1>8. ASSUME NEW v \in Writers \ {w} PROVE Posting(v)' /\ AnswerSound(v)'
  BY <1>2, <1>3, <1>4, PostingStable DEF PostInv, SameCall
<1> QED BY <1>2, <1>5, <1>6, <1>7, <1>8 DEF PostInv

\* A record is marked accepted on an answer that names its event.
LEMMA MarkAcceptedPosts ==
    ASSUME PipeOK, PostInv, NEW w \in Writers, MarkAccepted(w)
    PROVE  PostInv'
<1>0. /\ UNCHANGED <<book, clock, writer, refused>> /\ job[w].at = "post" /\ job[w] \in Jobs
      /\ writer[w].answer.status = "accepted"
      /\ status' = [status EXCEPT ![job[w].ref] = "accepted"] /\ Posting(w) /\ AnswerSound(w)
  BY DEF MarkAccepted, PipeOK, PostInv, vars
<1>1. TypeOK'
  BY <1>0 DEF PostInv, TypeOK, LocalsOK
<1>2. Grows /\ LineageHonest'
  BY <1>0, SameBook DEF PostInv
<1>3. Recorded(job[w].ref) # {}
  BY <1>0 DEF Recorded, Posting, AnswerSound
<1>4. MarksAreTrue'
  BY <1>0, <1>2, <1>3, RecordedStable DEF PostInv, MarksAreTrue, PipeOK
<1>5. /\ job'[w].at = "acknowledge" /\ \A v \in Writers \ {w} : job'[v] = job[v]
  BY <1>0 DEF MarkAccepted, Proceed, PipeOK, Jobs
<1>6. Posting(w)' /\ AnswerSound(w)'
  BY <1>0, <1>2, <1>5, AnswerStable DEF Posting
<1>7. ASSUME NEW v \in Writers \ {w} PROVE Posting(v)' /\ AnswerSound(v)'
  BY <1>0, <1>2, <1>5, PostingStable DEF PostInv
<1> QED BY <1>1, <1>2, <1>4, <1>6, <1>7 DEF PostInv

\* A refusal is recorded before the record is marked.
LEMMA RefusalPosts ==
    ASSUME PipeOK, PostInv, NEW w \in Writers, Refuse(w) \/ MarkRejected(w)
    PROVE  PostInv'
<1>0. /\ UNCHANGED <<book, clock, writer>> /\ refused \subseteq refused' /\ job[w] \in Jobs
      /\ Posting(w) /\ AnswerSound(w)
  BY DEF Refuse, MarkRejected, PipeOK, PostInv, vars
<1>1. TypeOK'
  BY <1>0 DEF PostInv, TypeOK, LocalsOK
<1>2. Grows /\ LineageHonest'
  BY <1>0, SameBook DEF PostInv
<1>3. MarksAreTrue'
  <2>1. CASE Refuse(w)
    BY <1>0, <1>2, <2>1, MarksStable DEF Refuse, PostInv
  <2>2. CASE MarkRejected(w)
    BY <1>0, <1>2, <2>2, RecordedStable DEF MarkRejected, PostInv, MarksAreTrue, PipeOK, Posting
  <2> QED BY <2>1, <2>2
<1>4. writer[w].pc \in {"idle", "answered"}
  BY <1>0 DEF Posting, Refuse, MarkRejected
<1>5. /\ job'[w].at \in {"markRejected", "acknowledge"} /\ job'[w].ref = job[w].ref
      /\ job'[w].at = "markRejected" => job[w].ref \in refused'
      /\ \A v \in Writers \ {w} : job'[v] = job[v]
  BY <1>0 DEF Refuse, MarkRejected, Proceed, PipeOK, Jobs
<1>6. Posting(w)' /\ AnswerSound(w)'
  BY <1>0, <1>2, <1>4, <1>5, AnswerStable DEF Posting
<1>7. ASSUME NEW v \in Writers \ {w} PROVE Posting(v)' /\ AnswerSound(v)'
  BY <1>0, <1>2, <1>5, PostingStable DEF PostInv
<1> QED BY <1>1, <1>2, <1>3, <1>6, <1>7 DEF PostInv

LEMMA PostKept ==
    ASSUME PipeOK, HandsOK, PayloadOK, PostInv, [StagingNext]_stagingVars
    PROVE  PostInv'
BY StagingKinds, AsidePosts, ResolvePosts, PostPosts, MarkAcceptedPosts, RefusalPosts DEF PostInv

LEMMA PostAtFirst == StagingInit => PostInv /\ PayloadOK
<1> SUFFICES ASSUME StagingInit PROVE PostInv /\ PayloadOK
  OBVIOUS
<1>1. Init /\ TypeOK
  BY TypeAtFirst DEF StagingInit
<1>2. book = <<>> /\ writer = [w \in Writers |-> Idle] /\ job = [w \in Writers |-> AtRest]
  BY DEF StagingInit, Init
<1>3. \A r \in Refs : status[r] = "absent"
  BY DEF StagingInit
<1>4. LineageHonest /\ MarksAreTrue
  BY <1>2, <1>3 DEF LineageHonest, MarksAreTrue, Ids
<1>5. \A w \in Writers : Posting(w) /\ AnswerSound(w)
  BY <1>2, IdleLocals DEF Posting, AnswerSound, AtRest
<1> QED BY <1>1, <1>3, <1>4, <1>5 DEF PostInv, PayloadOK, StagingInit

\* All that is known of the pipeline in any state.
StagingInv == HoldInv /\ HandsOK /\ PayloadOK /\ PostInv

LEMMA StagingInvariant == StagingSpec => []StagingInv
<1>1. StagingInit => StagingInv
  BY NothingHeldAtFirst, HandsAtFirst, PostAtFirst DEF StagingInv
<1>2. StagingInv /\ [StagingNext]_stagingVars => StagingInv'
  BY StagingNextHolds, HandsKept, PayloadKept, PostKept DEF StagingInv, HoldInv
<1> QED BY <1>1, <1>2, PTL DEF StagingSpec

\* A mark on a record is true: accepted means that its event is in the book, and rejected that
\* its refusal is recorded, for any inputs, processes and faults.
THEOREM MarksStayTrue == StagingSpec => []MarksAreTrue
<1>1. StagingInv => MarksAreTrue
  BY DEF StagingInv, PostInv
<1> QED BY <1>1, StagingInvariant, PTL

\* A commission received that came through the pipeline names an expected commission on its
\* own receivable, or says that its origin is unknown.
THEOREM LineageStaysHonest == StagingSpec => []LineageHonest
<1>1. StagingInv => LineageHonest
  BY DEF StagingInv, PostInv
<1> QED BY <1>1, StagingInvariant, PTL
-----------------------------------------------------------------------------
(* One event for a record, as long as no handler outlives its connection. *)

\* Either no connection is ever lost under a handler, or nobody else writes.
NoZombies == "connection lost" \notin Faults \/ \E sole : Writers = {sole}

\* Who works on a record owns it.
Attended ==
    "connection lost" \notin Faults =>
        \A w \in Writers : job[w].at # "idle" => job[w].attached \/ w \in Servers

\* A call that found its source reference unused would find it unused again.
SourceFree == \A w \in Writers : writer[w].pc \in Checked => ~SourceTaken(writer[w].cmd)

SourceInv == Attended /\ SourceFree /\ SourceReferenceUnique

\* Two calls under way are about two records.
LEMMA CallsApart ==
    ASSUME NoZombies, StagingInv, Attended, NEW v \in Writers, NEW w \in Writers \ {v},
           writer[v].pc \notin {"idle", "answered"}, writer[w].pc \notin {"idle", "answered"}
    PROVE  writer[v].cmd.ref # writer[w].cmd.ref
<1>1. "connection lost" \notin Faults
  BY DEF NoZombies
<1>2. /\ job[v].at = "post" /\ job[w].at = "post"
      /\ writer[v].cmd.ref = job[v].ref /\ writer[w].cmd.ref = job[w].ref
  BY DEF StagingInv, PostInv, Posting
<1>3. Owns(v, job[v].ref) /\ Owns(w, job[w].ref) /\ job[v].ref \in Refs
  BY <1>1, <1>2 DEF Attended, Owns, StagingInv, HoldInv, PipeOK
<1> QED BY <1>2, <1>3 DEF StagingInv, HoldInv, Apart, HeldByOne

\* While the book stays and no call is further on than it was, nothing changes.
LEMMA SourceStable ==
    ASSUME UNCHANGED book, SourceFree, SourceReferenceUnique,
           \A v \in Writers : writer'[v].pc \in Checked => writer'[v] = writer[v]
    PROVE  SourceFree' /\ SourceReferenceUnique'
BY DEF SourceFree, SourceReferenceUnique, SourceTaken, Ids

LEMMA AttendedKept ==
    ASSUME StagingInv, Attended, [StagingNext]_stagingVars
    PROVE  Attended'
<1> SUFFICES ASSUME "connection lost" \notin Faults, NEW v \in Writers, job'[v].at # "idle"
             PROVE  job'[v].attached \/ v \in Servers
  BY DEF Attended
<1>0. TypeOK /\ PipeOK
  BY DEF StagingInv, PostInv, HoldInv
<1>1. CASE Aside
  BY <1>1 DEF Aside, Bystands, Attended
<1>2. ASSUME NEW w \in Writers,
             Resolve(w) \/ Post(w) \/ MarkAccepted(w) \/ Refuse(w) \/ MarkRejected(w)
      PROVE  job'[v].attached = job[v].attached /\ (job'[v].at # "idle" => job[v].at # "idle")
  <2>0. job[w] \in Jobs
    BY <1>0 DEF PipeOK
  <2>1. ASSUME NEW label, Proceed(w, label), job[w].at # "idle"
        PROVE  job'[v].attached = job[v].attached /\ (job'[v].at # "idle" => job[v].at # "idle")
    BY <1>0, <2>0, <2>1 DEF Proceed, PipeOK, Jobs
  <2>2. CASE Refuse(w)
    BY <1>0, <2>0, <2>2 DEF Refuse, PipeOK, Jobs
  <2>3. CASE Post(w)
    BY <2>3 DEF Post, pipe
  <2> QED BY <1>2, <2>1, <2>2, <2>3 DEF Resolve, MarkAccepted, MarkRejected
<1> QED BY <1>0, <1>1, <1>2, StagingKinds DEF Attended

LEMMA PostSource ==
    ASSUME NoZombies, StagingInv, SourceInv, NEW w \in Writers, Post(w)
    PROVE  SourceFree' /\ SourceReferenceUnique'
<1>0. TypeOK /\ Step(w)
  BY DEF StagingInv, PostInv, Post
<1>1. SameCall(w) /\ writer[w].pc \notin {"idle", "answered"}
  BY <1>0, StepMoves
<1>2. CASE UNCHANGED book
  <2>1. SourceReferenceUnique'
    BY <1>2 DEF SourceInv, SourceReferenceUnique, Ids
  <2>2. ASSUME NEW v \in Writers, writer'[v].pc \in Checked PROVE ~SourceTaken(writer[v].cmd)'
    <3>1. ~SourceTaken(writer[v].cmd) /\ writer'[v].cmd = writer[v].cmd
      BY <1>0, <1>1, <2>2, StepMoves DEF SourceInv, SourceFree, SameCall
    <3> QED BY <1>2, <3>1 DEF SourceTaken, Ids
  <2> QED BY <2>1, <2>2 DEF SourceFree
<1>3. CASE /\ writer[w].pc = "save" /\ NewEvent(w) \in Events /\ book' = Append(book, NewEvent(w))
           /\ writer'[w].pc = "answered"
  <2>1. /\ Grows /\ Ids(book)' = Ids(book) \cup {Len(book) + 1}
        /\ book'[Len(book) + 1].cmd = writer[w].cmd
    BY <1>0, <1>3, SaveGrows DEF NewEvent
  <2>2. ~SourceTaken(writer[w].cmd)
    BY <1>3 DEF SourceInv, SourceFree, Checked
  <2>3. SourceReferenceUnique'
    BY <2>1, <2>2 DEF SourceInv, SourceReferenceUnique, SourceTaken, Grows
  <2>4. ASSUME NEW v \in Writers, writer'[v].pc \in Checked PROVE ~SourceTaken(writer[v].cmd)'
    <3>1. v # w /\ writer'[v] = writer[v]
      BY <1>1, <1>3, <2>4 DEF Checked, SameCall
    <3>2. writer[v].cmd.ref # writer[w].cmd.ref
      BY <1>1, <2>4, <3>1, CallsApart DEF SourceInv, Checked
    <3>3. ~SourceTaken(writer[v].cmd)
      BY <2>4, <3>1 DEF SourceInv, SourceFree
    <3> QED BY <2>1, <3>1, <3>2, <3>3 DEF SourceTaken, Grows
  <2> QED BY <2>3, <2>4 DEF SourceFree
<1> QED BY <1>0, <1>2, <1>3, StepMoves

LEMMA SourceKept ==
    ASSUME NoZombies, StagingInv, SourceInv, [StagingNext]_stagingVars
    PROVE  SourceInv'
<1>0. Attended' /\ TypeOK /\ PipeOK
  BY AttendedKept DEF SourceInv, StagingInv, PostInv, HoldInv
<1>1. CASE Aside
  <2>1. PICK G : writer' = [v \in Writers |-> IF v \in G THEN Idle ELSE writer[v]]
    BY <1>1 DEF Aside, Forgets
  <2>2. \A v \in Writers : writer'[v].pc \in Checked => writer'[v] = writer[v]
    BY <2>1, IdleLocals DEF Checked
  <2> QED BY <1>0, <1>1, <2>2, SourceStable DEF Aside, Forgets, SourceInv
<1>2. ASSUME NEW w \in Writers, Resolve(w) PROVE SourceInv'
  <2>1. PICK c, origin : Begin(w, c, origin)
    BY <1>2 DEF Resolve
  <2>2. /\ UNCHANGED book /\ writer'[w].pc \notin Checked
        /\ \A v \in Writers \ {w} : writer'[v] = writer[v]
    BY <1>0, <2>1 DEF Begin, TypeOK, LocalsOK, Fresh, Checked
  <2> QED BY <1>0, <2>2, SourceStable DEF SourceInv
<1>3. ASSUME NEW w \in Writers, MarkAccepted(w) \/ Refuse(w) \/ MarkRejected(w) PROVE SourceInv'
  BY <1>0, <1>3, SourceStable DEF SourceInv, MarkAccepted, Refuse, MarkRejected, vars
<1>4. ASSUME NEW w \in Writers, Post(w) PROVE SourceInv'
  BY <1>0, <1>4, PostSource DEF SourceInv
<1> QED BY <1>0, <1>1, <1>2, <1>3, <1>4, StagingKinds

\* "source reference must be unique across the ledger": a record becomes one event, however
\* many processes, crashes and redeliveries there are, as long as no handler goes on after
\* the broker has handed its message to another.
THEOREM SourcesStayUnique ==
    ASSUME NoZombies
    PROVE  StagingSpec => []SourceReferenceUnique
<1>1. StagingInit => SourceInv
  <2> SUFFICES ASSUME StagingInit PROVE SourceInv
    OBVIOUS
  <2>1. Attended
    BY DEF StagingInit, Attended, AtRest
  <2>2. SourceFree /\ SourceReferenceUnique
    BY IdleLocals DEF StagingInit, Init, SourceFree, SourceReferenceUnique, Checked, Ids
  <2> QED BY <2>1, <2>2 DEF SourceInv
<1>2. StagingInv /\ SourceInv /\ [StagingNext]_stagingVars => SourceInv'
  BY SourceKept
<1>3. SourceInv => SourceReferenceUnique
  BY DEF SourceInv
<1> QED BY <1>1, <1>2, <1>3, StagingInvariant, PTL DEF StagingSpec
-----------------------------------------------------------------------------
(* Orphans, with one writer. *)

\* A call that names no origin is about a receivable nothing is expected on.
Orphaned(w) ==
    writer[w].pc \notin {"idle", "answered"} /\ writer[w].cmd.eventType = "COMMISSION_RECEIVED"
            /\ writer[w].related = None =>
        \A d \in Ids(book), o \in Range(writer[w].cmd.objects) :
            o.relation = "SETTLES" => ~IsExpected(o.objectId, d)

OrphanInv == OrphansHaveNoOrigin /\ \A w \in Writers : Orphaned(w)

LEMMA OrphanStable ==
    ASSUME UNCHANGED book, OrphanInv,
           \A v \in Writers : writer'[v].pc \notin {"idle", "answered"} => writer'[v] = writer[v]
    PROVE  OrphanInv'
<1>1. \A e, object : IsExpected(object, e)' <=> IsExpected(object, e)
  BY DEF IsExpected, EventsOf, Ids
<1>2. OrphansHaveNoOrigin'
  BY <1>1 DEF OrphanInv, OrphansHaveNoOrigin, Ids
<1>3. ASSUME NEW v \in Writers PROVE Orphaned(v)'
  BY <1>1 DEF OrphanInv, Orphaned, Ids
<1> QED BY <1>2, <1>3 DEF OrphanInv

LEMMA ResolveOrphans ==
    ASSUME StagingInv, OrphanInv, NEW w \in Writers, Resolve(w)
    PROVE  OrphanInv'
<1> DEFINE i == payload[job[w].ref]
<1> DEFINE c == toCreateCommand(i)
<1>0. TypeOK /\ i \in Inputs /\ Eligible(i)
  BY WorksOnStaged DEF Resolve, StagingInv, HoldInv, PostInv
<1>1. PICK origin \in {None} \cup Ids(book) :
        resolve(c, origin) /\ Begin(w, markOrphanIfUnlinked(c, origin), origin)
  BY DEF Resolve
<1> DEFINE d == markOrphanIfUnlinked(c, origin)
<1>2. /\ d.eventType = c.eventType /\ d.objects = c.objects
      /\ c.eventType = "COMMISSION_RECEIVED" =>
            \A k \in DOMAIN c.objects : c.objects[k].relation = "SETTLES" => k = 1
  BY <1>0, StagedCommand
<1>3. ASSUME c.eventType = "COMMISSION_RECEIVED", origin = None, NEW e \in Ids(book),
             NEW o \in Range(c.objects), o.relation = "SETTLES"
      PROVE  ~IsExpected(o.objectId, e)
  <2>1. o.objectId = receivableOf(c)
    BY <1>2, <1>3 DEF Range, receivableOf
  <2>2. {x \in Ids(book) : IsExpected(receivableOf(c), x)} = {}
    <3>1. origin \notin Ids(book)
      BY <1>0, <1>3 DEF None, Ids, TypeOK
    <3> HIDE DEF c
    <3> QED BY <1>1, <1>3, <3>1 DEF resolve
  <2> QED BY <1>3, <2>1, <2>2
<1> HIDE DEF i, c, d
<1>4. /\ UNCHANGED book /\ writer'[w].cmd = d /\ writer'[w].related = origin
      /\ \A v \in Writers \ {w} : writer'[v] = writer[v]
  BY <1>0, <1>1 DEF d, Begin, TypeOK, LocalsOK, Fresh
<1>5. \A e, object : IsExpected(object, e)' <=> IsExpected(object, e)
  BY <1>4 DEF IsExpected, EventsOf, Ids
<1>6. Orphaned(w)'
  BY <1>2, <1>3, <1>4, <1>5 DEF Orphaned, Ids
<1>7. \A v \in Writers \ {w} : Orphaned(v)'
  BY <1>4, <1>5 DEF OrphanInv, Orphaned, Ids
<1>8. OrphansHaveNoOrigin'
  BY <1>4, <1>5 DEF OrphanInv, OrphansHaveNoOrigin, Ids
<1> QED BY <1>6, <1>7, <1>8 DEF OrphanInv

LEMMA PostOrphans ==
    ASSUME NEW sole, Writers = {sole}, StagingInv, OrphanInv, NEW w \in Writers, Post(w)
    PROVE  OrphanInv'
<1>0. TypeOK /\ Step(w) /\ w = sole
  BY DEF StagingInv, PostInv, Post
<1>1. SameCall(w) /\ writer[w].pc \notin {"idle", "answered"} /\ Orphaned(w)
  BY <1>0, StepMoves DEF OrphanInv
<1>2. CASE UNCHANGED book
  <2>1. \A e, object : IsExpected(object, e)' <=> IsExpected(object, e)
    BY <1>2 DEF IsExpected, EventsOf, Ids
  <2>2. Orphaned(w)'
    BY <1>1, <1>2, <2>1 DEF SameCall, Orphaned, Ids
  <2>3. OrphansHaveNoOrigin'
    BY <1>2, <2>1 DEF OrphanInv, OrphansHaveNoOrigin, Ids
  <2> QED BY <1>0, <2>2, <2>3 DEF OrphanInv
<1>3. CASE NewEvent(w) \in Events /\ book' = Append(book, NewEvent(w)) /\ writer'[w].pc = "answered"
  <2>1. /\ Grows /\ Ids(book)' = Ids(book) \cup {Len(book) + 1}
        /\ book'[Len(book) + 1].cmd = writer[w].cmd
        /\ book'[Len(book) + 1].related = writer[w].related
    BY <1>0, <1>3, SaveGrows DEF NewEvent
  <2>2. Orphaned(w)'
    BY <1>3 DEF Orphaned
  <2>3. \A d \in Ids(book) : \A object : IsExpected(object, d)' <=> IsExpected(object, d)
    BY <2>1 DEF IsExpected, EventsOf, Grows
  <2>4. Len(book) \in Nat /\ Ids(book) = 1..Len(book)
    BY <1>0 DEF TypeOK, Ids
  <2>5. ASSUME NEW e \in Ids(book)', NEW d \in Ids(book)',
               book'[e].cmd.eventType = "COMMISSION_RECEIVED", book'[e].related = None, d < e,
               NEW o \in Range(book'[e].cmd.objects), o.relation = "SETTLES"
        PROVE  ~IsExpected(o.objectId, d)'
    <3>1. d \in Ids(book)
      BY <2>1, <2>4, <2>5
    <3>2. CASE e \in Ids(book)
      <4>1. book'[e] = book[e]
        BY <2>1, <3>2 DEF Grows
      <4> QED BY <2>3, <2>5, <3>1, <3>2, <4>1 DEF OrphanInv, OrphansHaveNoOrigin
    <3>3. CASE e = Len(book) + 1
      BY <1>1, <2>1, <2>3, <2>5, <3>1, <3>3 DEF Orphaned
    <3> QED BY <2>1, <2>5, <3>2, <3>3
  <2>6. OrphansHaveNoOrigin'
    BY <2>5 DEF OrphansHaveNoOrigin
  <2> QED BY <1>0, <2>2, <2>6 DEF OrphanInv
<1> QED BY <1>0, <1>2, <1>3, StepMoves

LEMMA OrphansKept ==
    ASSUME NEW sole, Writers = {sole}, StagingInv, OrphanInv, [StagingNext]_stagingVars
    PROVE  OrphanInv'
<1>0. TypeOK /\ PipeOK
  BY DEF StagingInv, PostInv, HoldInv
<1>1. CASE Aside
  <2>1. PICK G : writer' = [v \in Writers |-> IF v \in G THEN Idle ELSE writer[v]]
    BY <1>1 DEF Aside, Forgets
  <2>2. \A v \in Writers : writer'[v].pc \notin {"idle", "answered"} => writer'[v] = writer[v]
    BY <2>1, IdleLocals
  <2> QED BY <1>1, <2>2, OrphanStable DEF Aside, Forgets
<1>2. ASSUME NEW w \in Writers, MarkAccepted(w) \/ Refuse(w) \/ MarkRejected(w) PROVE OrphanInv'
  BY <1>2, OrphanStable DEF MarkAccepted, Refuse, MarkRejected, vars
<1> QED BY <1>0, <1>1, <1>2, ResolveOrphans, PostOrphans, StagingKinds

\* "When no originating expected exists, this returns null and the received is recorded as a
\* first-class orphan": with one writer, an orphan is one.
THEOREM OrphansAreOrphans ==
    ASSUME NEW sole, Writers = {sole}
    PROVE  StagingSpec => []OrphansHaveNoOrigin
<1>1. StagingInit => OrphanInv
  BY IdleLocals DEF StagingInit, Init, OrphanInv, OrphansHaveNoOrigin, Orphaned, Ids
<1>2. StagingInv /\ OrphanInv /\ [StagingNext]_stagingVars => OrphanInv'
  BY OrphansKept
<1>3. OrphanInv => OrphansHaveNoOrigin
  BY DEF OrphanInv
<1> QED BY <1>1, <1>2, <1>3, StagingInvariant, PTL DEF StagingSpec
=============================================================================
