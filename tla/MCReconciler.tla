---------------------------- MODULE MCReconciler ----------------------------
(* Small instances of Reconciler for TLC. *)
EXTENDS Reconciler, TLC

CONSTANTS c1, c2, c3, c4

Def(image, health, stateful, routed) ==
  [image |-> image, health |-> health, stateful |-> stateful,
   strategy |-> "", routed |-> routed]

\* v1 and v2 always pass, bad never does, and flaky does either.
MCImages == {"v1", "v2", "bad", "flaky"}
MCChecks == {"none", "http"}
MCRetries == [h \in MCChecks |-> IF h = "http" THEN 2 ELSE 1]
MCOutcomes ==
  [p \in MCImages \X MCChecks |->
     CASE p[1] = "bad" -> {FALSE}
       [] p[1] = "flaky" -> BOOLEAN
       [] OTHER -> {TRUE}]

\* A stateless service moves between images that work, fail or flap, and
\* between the default strategy and the same one by name.
UpgradeSpecs == {Def(i, "http", FALSE, FALSE) : i \in {"v1", "bad", "flaky"}}
                  \cup {[Def("v1", "http", FALSE, FALSE) EXCEPT !.strategy = "start-first"]}
\* The same, stateful: stop-first.
StatefulSpecs == {Def(i, "http", TRUE, FALSE) : i \in {"v1", "bad"}}
\* Working images, probed or trusted, rolled out with either strategy.
SoundSpecs == {Def("v1", "http", FALSE, TRUE), Def("v2", "none", FALSE, TRUE),
               Def("v2", "http", TRUE, TRUE)}

Few(edits, exits, faults, crashes) ==
  [edit |-> edits, exit |-> exits, fault |-> faults, crash |-> crashes]

Budget2111 == Few(2, 1, 1, 1)
Budget2100 == Few(2, 1, 0, 0)
Budget2000 == Few(2, 0, 0, 0)

IdSymmetry == Permutations(Ids)
=============================================================================
