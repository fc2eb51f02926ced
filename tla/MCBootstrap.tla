---------------------------- MODULE MCBootstrap ----------------------------
(* Small instances of Bootstrap for TLC. *)
EXTENDS Bootstrap, TLC

FewDeaths == [death |-> 2, again |-> 1]
=============================================================================
