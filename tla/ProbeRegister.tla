---------------------------- MODULE ProbeRegister ----------------------------
(***************************************************************************)
(* What the probe manager promises its caller: per container, a register   *)
(* that is set by Track, cleared by Untrack and otherwise only changed by  *)
(* results of the check it was last tracked with. Reconciler uses the      *)
(* manager as this register.                                               *)
(***************************************************************************)
EXTENDS Naturals

CONSTANTS Ids, Checks, NoHealth, HistoryCap, Untracked

VARIABLE reg

\* The snapshot a caller reads.
Fresh(h) == [check |-> h, ok |-> h = NoHealth, streak |-> 0]

\* A failure lengthens the streak up to the length of the history, a success
\* ends it.
Recorded(e, healthy) ==
  [check |-> e.check, ok |-> healthy,
   streak |-> IF healthy THEN 0
              ELSE IF e.streak < HistoryCap THEN e.streak + 1 ELSE e.streak]

Init == reg = [i \in Ids |-> Untracked]

Track(i, h) == reg[i] = Untracked /\ reg' = [reg EXCEPT ![i] = Fresh(h)]

Untrack(i) == reg[i] # Untracked /\ reg' = [reg EXCEPT ![i] = Untracked]

\* Only a probed container has results: an empty check stays trusted.
Result(i, healthy) ==
  /\ reg[i] # Untracked /\ reg[i].check # NoHealth
  /\ reg' = [reg EXCEPT ![i] = Recorded(@, healthy)]

Next ==
  \E i \in Ids :
    \/ \E h \in Checks : Track(i, h)
    \/ Untrack(i)
    \/ \E healthy \in BOOLEAN : Result(i, healthy)

Spec == Init /\ [][Next]_reg
=============================================================================
