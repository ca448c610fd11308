---------------------------- MODULE MCCheckQueue ----------------------------
(***************************************************************************)
(* Model checking of CheckQueue: two workers and the master, rounds of up  *)
(* to four checks, so that a batch of several, a batch of one, an idle     *)
(* worker and an empty queue with work still in hand all occur.  Without   *)
(* symmetry, which TLC does not support for liveness.                      *)
(***************************************************************************)
EXTENDS CheckQueue
=============================================================================
