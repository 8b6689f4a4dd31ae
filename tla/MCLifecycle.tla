----------------------------- MODULE MCLifecycle -----------------------------
(***************************************************************************)
(* Lifecycle for TLC: the program's check, "store", and one of another     *)
(* kind, registered after it: it awaits an answer, holds up the next round *)
(* and comes next when the loop is aborted in the middle of the first.     *)
(***************************************************************************)
EXTENDS Lifecycle

MCChecks == <<"store", "remote">>
=============================================================================
