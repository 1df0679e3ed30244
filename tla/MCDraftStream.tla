--------------------------- MODULE MCDraftStream ---------------------------
(* Small instances of DraftStream: the control records the loader lets      *)
(* through (the fan-out list sums to the proposal count, PEARL may propose  *)
(* nothing), an operation without a PIM profile, attention operations whose *)
(* tile count grows with the context or wraps around, and scales that round. *)
EXTENDS DraftStream

Cmd(delay, count) == [delay |-> delay, count |-> count]

Tree(kv, steps, fan) ==
  [algorithm |-> "ssd", draft_kv_cache_tokens |-> kv, draft_tree_steps |-> steps,
   draft_fan_out_list |-> fan, draft_proposal_count |-> Sum(fan)]
Chain(kv, proposals) ==
  [algorithm |-> "pearl", draft_kv_cache_tokens |-> kv, draft_tree_steps |-> 1,
   draft_fan_out_list |-> <<>>, draft_proposal_count |-> proposals]

MCControls ==
  {Tree(kv, steps, fan) : kv \in 0..5, steps \in 1..2, fan \in {<<1>>, <<2>>, <<1, 2>>, <<2, 1>>}}
  \cup {Chain(kv, proposals) : kv \in 0..5, proposals \in 0..3}

MCOperations == <<"q_proj", "rmsnorm", "qkt", "sv", "up_proj">>

\* "up_proj" is one no-op command, so that its macro is shorter than its
\* overhead.  The tile count of "sv" wraps around to zero (Word = 64) when its
\* context fills an even number of attention tiles, and its first command has
\* no bursts.
MCProfiles ==
  [op \in {"q_proj", "qkt", "sv", "up_proj"} |->
    CASE op = "q_proj"  -> [tiles |-> 2, num |-> 3, den |-> 5, cmds |-> <<Cmd(3, 1), Cmd(2, 2)>>]
      [] op = "qkt"     -> [tiles |-> 1, num |-> 7, den |-> 10, cmds |-> <<Cmd(1, 1), Cmd(4, 1)>>]
      [] op = "sv"      -> [tiles |-> 32, num |-> 1, den |-> 3, cmds |-> <<Cmd(9, 0), Cmd(1, 1)>>]
      [] op = "up_proj" -> [tiles |-> 1, num |-> 1, den |-> 3, cmds |-> <<Cmd(0, 1)>>]]
=============================================================================
