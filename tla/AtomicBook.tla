----------------------------- MODULE AtomicBook -----------------------------
(***************************************************************************)
(* What the book promises its readers: events join it one at a time, each  *)
(* admitted against the very book it joins, each linked to the one before  *)
(* it, in the order of their recording times.  The code does not work like *)
(* this (Book checks in several steps and saves in another); it keeps the  *)
(* promise when a single writer runs.  What makes a command admissible is  *)
(* the parameter Admissible(book, command, target).                        *)
(***************************************************************************)
EXTENDS Naturals, Sequences

CONSTANTS
    Commands,             \* the commands callers may issue
    MaxClock,             \* bound: milliseconds the clock may show
    Admissible(_, _, _)   \* may the command, naming the target, join the book?

VARIABLE book

Record(c, target, at) ==
    /\ Admissible(book, c, target)
    /\ \A i \in DOMAIN book : book[i].recordedAt <= at
    /\ book' = Append(book, [cmd |-> c, related |-> target,
                             previousHash |-> Len(book), recordedAt |-> at])

Init == book = <<>>

Next ==
    \E c \in Commands, target \in {0} \cup DOMAIN book, at \in 0..MaxClock :
        Record(c, target, at)

Spec == Init /\ [][Next]_book
=============================================================================
