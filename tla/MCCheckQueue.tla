---------------------------- MODULE MCCheckQueue ----------------------------
(* Model values of CheckQueue for TLC. *)
EXTENDS CheckQueue

CONSTANTS w1, w2, c1, c2, c3
=============================================================================
