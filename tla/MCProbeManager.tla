--------------------------- MODULE MCProbeManager ---------------------------
(* Small instances of ProbeManager for TLC. *)
EXTENDS ProbeManager, TLC

CONSTANTS c1, c2
=============================================================================
