------------------------------ MODULE MCEvents ------------------------------
(* Small instances of Events for TLC. *)
EXTENDS Events, TLC

CONSTANTS p1, p2
=============================================================================
