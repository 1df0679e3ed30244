---------------------------- MODULE DraftStream ----------------------------
(***************************************************************************)
(* The PIM command stream that Host::handle_speculative_trace builds for   *)
(* the draft of one control record (host.cpp:110-153 and 204-348).  The    *)
(* work items are counted first, in a loop nest of their own; a second     *)
(* loop nest emits the commands and marks the one whose running index      *)
(* reaches that count as `last'.  Nothing but that mark tells the PIM that *)
(* the draft is over, so the two loop nests must agree on every control    *)
(* record, every model profile and every granularity.                      *)
(*                                                                         *)
(* Latencies are in ns and channel_latency_scale is the rational           *)
(* num/den, computed exactly where the code uses doubles.                  *)
(***************************************************************************)
EXTENDS Integers, Sequences, SequencesExt

CONSTANTS
  Controls,     \* control records the loader accepts
  Operations,   \* operations of the draft's model profile, in order
  Profiles,     \* operation -> its PIM profile, for the operations that have one
  Granularities,\* how synthetic_pim may be configured, see below
  Layers,       \* decoder_layers of the draft model
  TileTokens,   \* attention_context_tile_tokens
  Templates,    \* layers draft_profile_layer may name, for the template path
  Word          \* unsigned int arithmetic is modulo Word (2^32 in the build)

ASSUME DraftAssumption ==
  /\ Layers \in Nat \ {0} /\ TileTokens \in Nat \ {0} /\ Word \in Nat \ {0}
  /\ Granularities \subseteq {"detailed", "layer", "macro", "template"}
  /\ Operations \in Seq(STRING)
  /\ \A op \in DOMAIN Profiles :
       Profiles[op] \in [tiles: Nat, num: Nat, den: Nat \ {0},
                        cmds: Seq([delay: Nat, count: Nat])]
  /\ \A c \in Controls :
       /\ c.draft_kv_cache_tokens \in Nat /\ c.draft_tree_steps \in Nat
       /\ c.draft_fan_out_list \in Seq(Nat) /\ c.draft_proposal_count \in Nat

VARIABLES
  control,      \* the record whose draft is being built
  granularity,  \* how synthetic_pim is configured
  template,     \* draft_profile_layer
  pc,           \* "count", "emit", "wait" (the barrier) or "thrown"
  total,        \* total_transactions or total_bursts
  pos,          \* <<work item, layer, operation>> the emission loop is at
  pending       \* the draft's part of pending_q
vars == <<control, granularity, template, pc, total, pos, pending>>

U32(n) == n % Word
Sum(s) == SumFunction(s)
MaxOf(a, b) == IF a > b THEN a ELSE b

-----------------------------------------------------------------------------
(* draft_work_items: a fan-out tree for SSD, a token chain for PEARL.       *)

TreeStep(c, step) ==
  FlattenSeq([depth \in DOMAIN c.draft_fan_out_list |->
    [branch \in 1..c.draft_fan_out_list[depth] |->
      [context_tokens |-> U32(c.draft_kv_cache_tokens + (depth - 1) + step),
       tree_step |-> step, branch_depth |-> depth - 1, branch_index |-> branch - 1]]])

DraftWorkItems(c) ==
  IF c.algorithm = "ssd"
  THEN FlattenSeq([step \in 1..c.draft_tree_steps |-> TreeStep(c, step - 1)])
  ELSE [proposal \in 1..c.draft_proposal_count |->
         [context_tokens |-> U32(c.draft_kv_cache_tokens + proposal - 1),
          tree_step |-> 0, branch_depth |-> proposal - 1, branch_index |-> 0]]

-----------------------------------------------------------------------------
(* The granularities of synthetic_pim, and the loops they select: micro     *)
(* commands ("detailed"), one macro per operation and layer ("layer", also  *)
(* aggregate_micro_commands), one macro per operation for all the layers    *)
(* ("macro"), or synthetic_pim switched off ("template").                   *)

AggregateMicro == granularity \in {"layer", "macro"}
CollapseLayers == granularity = "macro"
SimulatedLayers == IF CollapseLayers THEN 1 ELSE Layers
LayerMultiplier == IF CollapseLayers THEN Layers ELSE 1

Profiled(op) == op \in DOMAIN Profiles
CommandsPerTile(op) ==
  Sum([i \in DOMAIN Profiles[op].cmds |-> Profiles[op].cmds[i].count])

DraftAttentionTiles(op, item) ==
  IF op \notin {"qkt", "sv"} THEN 1
  ELSE MaxOf(1, U32(item.context_tokens + TileTokens - 1) \div TileTokens)

TileCount(op, item) == U32(Profiles[op].tiles * DraftAttentionTiles(op, item))

\* host.cpp:229-249: the commands of one work item in one decoder layer
OpTransactions(op, item) ==
  IF ~Profiled(op) THEN 0
  ELSE IF AggregateMicro THEN 1
  ELSE TileCount(op, item) * CommandsPerTile(op)

\* Mutant of TotalTransactions: multiplied by the number of work items again.
TotalPerProposal(items) ==
  Len(items) * SimulatedLayers *
  Sum([w \in DOMAIN items |->
        Sum([o \in DOMAIN Operations |-> OpTransactions(Operations[o], items[w])])])

TotalTransactions(items) ==
  SimulatedLayers *
  Sum([w \in DOMAIN items |->
        Sum([o \in DOMAIN Operations |-> OpTransactions(Operations[o], items[w])])])

\* host.cpp:320-326: the template path counts from the number of work items
TotalBursts(items) ==
  Len(items) * Profiles[template].tiles * CommandsPerTile(template)

-----------------------------------------------------------------------------
(* What is emitted for one operation of one work item.                      *)

\* std::round of n/d for n >= 0, d > 0
Round(n, d) == (2 * n + d) \div (2 * d)

SummedDelay(op, tiles) ==
  Sum([i \in DOMAIN Profiles[op].cmds |->
        Profiles[op].cmds[i].delay * Profiles[op].cmds[i].count]) * tiles * LayerMultiplier
MicroCommands(op, tiles) == CommandsPerTile(op) * tiles * LayerMultiplier

\* host.cpp:284-290, in units of 1/(2 den) ns: the scaled latency of the stream
ScaledTotal(op, tiles) ==
  (2 * SummedDelay(op, tiles) + MicroCommands(op, tiles)) * Profiles[op].num

\* Mutant of MacroDelay: the macro's own overhead is not taken off.
MacroDelayWithOverhead(op, tiles) == Round(ScaledTotal(op, tiles), 2 * Profiles[op].den)

MacroDelay(op, tiles) ==
  LET above == ScaledTotal(op, tiles) - Profiles[op].den
  IN IF above <= 0 THEN 0 ELSE Round(above, 2 * Profiles[op].den)

MacroTransaction(op, tiles) == <<[op |-> op, delay |-> U32(MacroDelay(op, tiles))]>>

ScaledDelay(op, cmd) == MaxOf(1, Round(cmd.delay * Profiles[op].num, Profiles[op].den))

TileBursts(op) ==
  FlattenSeq([i \in DOMAIN Profiles[op].cmds |->
    LET cmd == Profiles[op].cmds[i]
    IN [burst \in 1..cmd.count |-> [op |-> op, delay |-> U32(ScaledDelay(op, cmd))]]])

MicroTransactions(op, tiles) == FlattenSeq([tile \in 1..tiles |-> TileBursts(op)])

\* generate_trans with the item's layer name, then set_last(++index == total)
Queue(item, new) ==
  pending \o [i \in DOMAIN new |->
    [op |-> new[i].op, delay |-> new[i].delay, item |-> item,
     last |-> Len(pending) + i = total]]

-----------------------------------------------------------------------------
Init ==
  /\ control \in Controls /\ granularity \in Granularities /\ template \in Templates
  /\ pc = "count" /\ total = 0 /\ pos = <<1, 1, 1>> /\ pending = <<>>

\* host.cpp:101-105: without a PIM profile for the template there is no draft
MissingTemplate ==
  /\ pc = "count" /\ granularity = "template" /\ ~Profiled(template)
  /\ pc' = "thrown" /\ UNCHANGED <<control, granularity, template, total, pos, pending>>

\* host.cpp:229-258: count, and refuse a draft without commands
CountSynthetic ==
  /\ pc = "count" /\ granularity # "template"
  /\ total' = TotalTransactions(DraftWorkItems(control))
  /\ pc' = IF total' = 0 THEN "thrown" ELSE "emit"
  /\ UNCHANGED <<control, granularity, template, pos, pending>>

\* host.cpp:320-326
CountTemplate ==
  /\ pc = "count" /\ granularity = "template" /\ Profiled(template)
  /\ total' = TotalBursts(DraftWorkItems(control))
  /\ pc' = "emit" /\ UNCHANGED <<control, granularity, template, pos, pending>>

NextPos ==
  LET w == pos[1]  l == pos[2]  o == pos[3]
  IN IF granularity = "template" THEN <<w + 1, 1, 1>>
     ELSE IF o < Len(Operations) THEN <<w, l, o + 1>>
     ELSE IF l < SimulatedLayers THEN <<w, l + 1, 1>>
     ELSE <<w + 1, 1, 1>>

\* host.cpp:260-317: one operation of one layer of one work item
EmitOperation ==
  LET items == DraftWorkItems(control)
      op    == Operations[pos[3]]
      tiles == TileCount(op, items[pos[1]])   \* used only when op has a profile
  IN /\ pc = "emit" /\ granularity # "template" /\ pos[1] <= Len(items)
     /\ pending' = IF ~Profiled(op) THEN pending
                   ELSE Queue(items[pos[1]], IF AggregateMicro THEN MacroTransaction(op, tiles)
                                             ELSE MicroTransactions(op, tiles))
     /\ pos' = NextPos /\ UNCHANGED <<control, granularity, template, pc, total>>

\* host.cpp:328-347: the template's tiles for one work item
EmitTemplate ==
  LET items == DraftWorkItems(control)
  IN /\ pc = "emit" /\ granularity = "template" /\ pos[1] <= Len(items)
     /\ pending' = Queue(items[pos[1]], MicroTransactions(template, Profiles[template].tiles))
     /\ pos' = NextPos /\ UNCHANGED <<control, granularity, template, pc, total>>

\* host.cpp:353: everything is queued, wait for both actors
ReachBarrier ==
  /\ pc = "emit" /\ pos[1] > Len(DraftWorkItems(control))
  /\ pc' = "wait" /\ UNCHANGED <<control, granularity, template, total, pos, pending>>

Next == \/ MissingTemplate \/ CountSynthetic \/ CountTemplate
        \/ EmitOperation \/ EmitTemplate \/ ReachBarrier

Spec == Init /\ [][Next]_vars

-----------------------------------------------------------------------------
\* When Host waits at the barrier, exactly one queued draft command carries
\* `last', and it is the final one: an early mark would end the episode with
\* commands still queued, a missing one would leave Host at the barrier for
\* ever (host.cpp:250-253).  Only the template path can queue no command at
\* all; the synthetic path throws instead.
LastMarksTheEnd ==
  pc = "wait" =>
    /\ \A i \in DOMAIN pending : pending[i].last <=> i = Len(pending)
    /\ granularity # "template" => pending # <<>>

\* A macro command, with the half nanosecond the PIM adds on completion, lasts
\* as long as the micro commands it stands for, each with a half nanosecond of
\* its own, scaled to the channel count: to within half a nanosecond, whatever
\* the rounding, as long as the number of tiles and the latency fit in an
\* unsigned int (host.cpp:284-297).
MacroKeepsLatency ==
  AggregateMicro =>
    \A i \in DOMAIN pending :
      LET t     == pending[i]
          p     == Profiles[t.op]
          tiles == p.tiles * DraftAttentionTiles(t.op, t.item)
          micro == LayerMultiplier * tiles * p.num *
                   Sum([k \in DOMAIN p.cmds |-> p.cmds[k].count * (2 * p.cmds[k].delay + 1)])
          macro == p.den * (2 * t.delay + 1)
      IN tiles < Word /\ micro < 2 * p.den * Word => macro - micro \in -p.den..p.den
=============================================================================
