--------------------------- MODULE MetricsReport ---------------------------
(***************************************************************************)
(* PerformanceMetrics under the callers that feed it in a detailed run,    *)
(* and the sums that write_json would report at any moment.  The Host      *)
(* launches an episode when both branches of the last one have ended.  In  *)
(* its branch the NPU works on one layer after the other, with several     *)
(* memory requests of the layer in service, each on its channel; in the    *)
(* other PIM computes one command after the other, and each completion is  *)
(* reported with a time that may be past.                                  *)
(*                                                                         *)
(* Times are half nanoseconds.                                             *)
(***************************************************************************)
EXTENDS PerformanceMetrics

CONSTANTS
  Memory, Compute,  \* payloads of the requests of the PIM device
  getChannel,       \* [Memory -> 0..(Channels - 1)]
  Delays,           \* what a PIM command may take
  Layers,           \* bound on the layers after which another one follows
  Episodes,         \* number of episodes
  MaxTime           \* bound on simulated time

ASSUME ReportAssumption ==
  /\ {Layers, Episodes, MaxTime} \subseteq Nat /\ Delays \subseteq Nat \ {0}
  /\ Memory \cap Compute = {} /\ getChannel \in [Memory -> 0..(Channels - 1)]

VARIABLES
  now, metrics,
  started, ended,      \* payloads
  last_compute_done_time,      \* of the bridge
  detailed_compute_done_time,  \* payload -> time, of the commands in the bridge
  npu_intervals, layer_start,
  parallel_episodes, running   \* the branches of the episode that still run

computeVars == <<last_compute_done_time, detailed_compute_done_time>>
deviceVars  == <<metrics, started, ended, computeVars>>
npuVars     == <<npu_intervals, layer_start>>
episodeVars == <<parallel_episodes, running>>
vars == <<now, deviceVars, npuVars, episodeVars>>

NotRunning == -1

Init ==
  /\ now = 0 /\ metrics = NoMetrics /\ started = {} /\ ended = {}
  /\ last_compute_done_time = 0 /\ detailed_compute_done_time = <<>>
  /\ npu_intervals = <<>> /\ layer_start = NotRunning
  /\ parallel_episodes = <<>> /\ running = {}

\* The next episode begins when the last one ends.
Tick == running # {} /\ now < MaxTime /\ now' = now + 1 /\ UNCHANGED <<deviceVars, npuVars, episodeVars>>

-----------------------------------------------------------------------------
(* The PIM wrapper                                                         *)

\* A request of one byte, of the layer that runs, arrives and goes to the
\* bridge at once.
memory_started(p) ==
  /\ layer_start # NotRunning
  /\ p \in Memory \ started /\ started' = started \cup {p}
  /\ metrics' = request_started(request_arrived(metrics, "PIM", p, 1, "memory", now),
                                "PIM", p, now, getChannel[p])
  /\ UNCHANGED <<now, ended, computeVars, npuVars, episodeVars>>

memory_completed(p) ==
  /\ p \in (Memory \cap started) \ ended /\ ended' = ended \cup {p}
  /\ metrics' = request_completed(metrics, "PIM", p, now)
  /\ UNCHANGED <<now, started, computeVars, npuVars, episodeVars>>

\* The bridge has the command begin when the one before it is done, which may
\* be in the future, and take n.
compute_started(p, n) ==
  /\ "PIM" \in running
  /\ p \in Compute \ started /\ started' = started \cup {p}
  /\ LET start == Max({now, last_compute_done_time})
     IN /\ last_compute_done_time' = start + n
        /\ detailed_compute_done_time' = Emplaced(detailed_compute_done_time, p, start + n)
        /\ metrics' = request_started(request_arrived(metrics, "PIM", p, 0, "compute", now),
                                      "PIM", p, start, kAllChannels)
  /\ UNCHANGED <<now, ended, npuVars, episodeVars>>

\* Completions are collected in the order of the commands.
compute_completed(p) ==
  LET done == detailed_compute_done_time
  IN /\ p \in DOMAIN done /\ ended' = ended \cup {p}
     /\ done[p] <= now /\ \A c \in DOMAIN done : done[p] <= done[c]
     /\ metrics' = request_completed(metrics, "PIM", p, done[p])
     /\ detailed_compute_done_time' = Forget(done, p)
     /\ UNCHANGED <<now, started, last_compute_done_time, npuVars, episodeVars>>

-----------------------------------------------------------------------------
(* The NPU and the Host                                                    *)

\* The number of the episode stands for its name; names are distinct
\* (ControlTrace).
launch ==
  /\ running = {} /\ Len(parallel_episodes) < Episodes
  /\ parallel_episodes' =
       begin_parallel_episode(parallel_episodes, Len(parallel_episodes) + 1, now)
  /\ running' = {"NPU", "PIM"} /\ layer_start' = now
  /\ UNCHANGED <<now, deviceVars, npu_intervals>>

LayerDone ==
  /\ "NPU" \in running /\ Memory \cap started \subseteq ended
  /\ npu_intervals' = record_npu_interval(npu_intervals, layer_start, now)
  /\ UNCHANGED <<now, deviceVars>>

next_layer ==
  /\ LayerDone /\ Len(npu_intervals') < Layers
  /\ layer_start' = now
  /\ UNCHANGED episodeVars

npu_branch_ends ==
  /\ LayerDone /\ layer_start' = NotRunning
  /\ parallel_episodes' =
       complete_parallel_npu_episode(parallel_episodes, Len(parallel_episodes), now)
  /\ running' = running \ {"NPU"}

\* The last PIM command of the episode is retired.
pim_branch_ends ==
  /\ "PIM" \in running /\ Compute \cap started \subseteq ended
  /\ parallel_episodes' =
       complete_parallel_pim_episode(parallel_episodes, Len(parallel_episodes), now)
  /\ running' = running \ {"PIM"}
  /\ UNCHANGED <<now, deviceVars, npuVars>>

Next ==
  \/ Tick
  \/ \E p \in Memory : memory_started(p)
  \/ \E p \in Memory : memory_completed(p)
  \/ \E p \in Compute : \E n \in Delays : compute_started(p, n)
  \/ \E p \in Compute : compute_completed(p)
  \/ launch \/ next_layer \/ npu_branch_ends \/ pim_branch_ends

Spec == Init /\ [][Next]_vars

-----------------------------------------------------------------------------
(* Properties: the reference is the set of nanoseconds that are covered.   *)

Covered(intervals) ==
  {t \in 0..(to_ns(now) - 1) :
     \E i \in DOMAIN intervals : intervals[i][1] <= t /\ t < intervals[i][2]}

PimStats == metrics.device["PIM"]
PimCompute == PimStats.traffic["compute"].service_intervals

\* Every busy time of the report is the number of nanoseconds in which the
\* device, one kind of traffic, a channel or the NPU was busy, whatever
\* intervals overlap, nest, touch, coincide or are empty, and in whatever
\* order they ended; it never exceeds the simulated time
\* (performance_metrics.cpp:137-160, 240-246, 266).
UnionIsMeasure ==
  /\ \A k \in Traffic : LET s == PimStats.traffic[k].service_intervals
                        IN interval_union_ns(s) = Cardinality(Covered(s))
  /\ \A ch \in DOMAIN PimStats.per_channel :
       LET s == PimStats.per_channel[ch].service_intervals
       IN interval_union_ns(s) = Cardinality(Covered(s))
  /\ interval_union_ns(npu_intervals) = Cardinality(Covered(npu_intervals))
  /\ device_busy_ns(PimStats) =
       Cardinality(UNION {Covered(PimStats.traffic[k].service_intervals) : k \in Traffic})

\* The overlap of NPU and PIM is the number of nanoseconds in which both were
\* active, so that union_ns, an unsigned difference, is the number in which
\* one was and never wraps (performance_metrics.cpp:162-194, 298-304).
OverlapIsMeasure ==
  LET both == npu_pim_overlap(npu_intervals, PimCompute)
  IN /\ both.overlap_ns = Cardinality(Covered(npu_intervals) \cap Covered(PimCompute))
     /\ both.union_ns = Cardinality(Covered(npu_intervals) \cup Covered(PimCompute))

\* The three parts of the episodes add up to the time in which some episode
\* that ended was running, so no nanosecond is counted for two episodes and
\* none for a branch that had ended (performance_metrics.cpp:111-135, 313-325).
EpisodesAddUp ==
  LET sum == eei(parallel_episodes)
      done == SelectSeq(parallel_episodes, Completed)
      last(e) == Max({e.npu_end_ns, e.pim_end_ns})
  IN sum.both + sum.pim_only + sum.npu_only =
       Cardinality(Covered([i \in DOMAIN done |-> <<done[i].launch_ns, last(done[i])>>]))
=============================================================================
