------------------------------ MODULE Pipeline ------------------------------
(***************************************************************************)
(* What the simulator promises about speculative decoding, seen from the   *)
(* Host: episodes run one after the other; within an episode the target    *)
(* and the draft run side by side and finish in any order; the next one    *)
(* starts, and the simulation ends, only when both have finished.          *)
(***************************************************************************)
EXTENDS Naturals

CONSTANT Episodes

VARIABLES round, target, draft, over
vars == <<round, target, draft, over>>

Init == round = 0 /\ target = "idle" /\ draft = "idle" /\ over = FALSE

Launch ==
  /\ round < Episodes /\ target = "idle" /\ draft = "idle"
  /\ round' = round + 1 /\ target' = "running" /\ draft' = "running"
  /\ UNCHANGED over

FinishTarget ==
  /\ target = "running" /\ target' = "done"
  /\ UNCHANGED <<round, draft, over>>

FinishDraft ==
  /\ draft = "running" /\ draft' = "done"
  /\ UNCHANGED <<round, target, over>>

Join ==
  /\ target = "done" /\ draft = "done"
  /\ target' = "idle" /\ draft' = "idle"
  /\ UNCHANGED <<round, over>>

Stop ==
  /\ round = Episodes /\ target = "idle" /\ draft = "idle"
  /\ ~over /\ over' = TRUE
  /\ UNCHANGED <<round, target, draft>>

Next == Launch \/ FinishTarget \/ FinishDraft \/ Join \/ Stop

Spec == Init /\ [][Next]_vars
=============================================================================
