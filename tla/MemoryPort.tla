----------------------------- MODULE MemoryPort -----------------------------
(***************************************************************************)
(* What a wrapper of hsim relies on when it talks to a memory simulator    *)
(* through the Bridge: every request it sends is inside until it is given  *)
(* back, it is given back at most once, in any order, and none disappears. *)
(***************************************************************************)
CONSTANT Requests

VARIABLES unsent, inside, out   \* a partition of Requests

portVars == <<unsent, inside, out>>

Init == unsent = Requests /\ inside = {} /\ out = {}

sendCommand(r) ==
  /\ r \in unsent /\ unsent' = unsent \ {r}
  /\ inside' = inside \cup {r}
  /\ UNCHANGED out

\* A callback, which may give back several requests at once
CallBack(S) ==
  /\ S # {} /\ inside' = inside \ S
  /\ out' = out \cup S
  /\ UNCHANGED unsent

Next ==
  \/ \E r \in unsent : sendCommand(r)
  \/ \E S \in SUBSET inside : CallBack(S)

Spec == Init /\ [][Next]_portVars
=============================================================================
