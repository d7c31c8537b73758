----------------------------- MODULE MCSnapshot -----------------------------
(* A small instance of Snapshot: pages of one event, so that a sweep reads several. *)
EXTENDS Snapshot
=============================================================================
