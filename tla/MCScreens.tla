------------------------------ MODULE MCScreens ------------------------------
(* A small instance of Screens: two periods, two selections of which one has two pages, and
   two entries whose corrections may be under way together. *)
EXTENDS Screens, TLC

CONSTANTS f1, f2

PagesOfEach == (f1 :> 2) @@ (f2 :> 1)

Entries == Permutations(Events)
=============================================================================
