-------------------------------- MODULE Host --------------------------------
(***************************************************************************)
(* The Host of hsim (components/host.cpp) running the speculative trace:   *)
(* for every control record it queues the target's start request and the   *)
(* draft's PIM commands, sends one transaction per clock cycle, and waits  *)
(* at a barrier for both sides; afterwards it ends the simulation.         *)
(***************************************************************************)
EXTENDS Naturals, Sequences

CONSTANT Controls  \* per record: [args |-> start arguments, draft |-> commands]

VARIABLES
  episode,     \* control records launched so far
  pending_q,   \* transactions waiting for a falling edge
  pc,          \* where the process_trace thread is
  got,         \* the sides of the barrier's and-list that have fired
  active_host,
  stopped      \* sc_stop() has been called

vars == <<episode, pending_q, pc, got, active_host, stopped>>

Init ==
  /\ episode = 0 /\ pending_q = <<>> /\ pc = "launch" /\ got = {}
  /\ active_host = 1 /\ stopped = FALSE

Start(e) == [dst |-> "NPU", args |-> Controls[e].args]

\* handle_speculative_trace, one control record up to the barrier: the target
\* first, then the draft's stream.  The handler does not wait in between.
Launch ==
  /\ pc = "launch"
  /\ episode' = episode + 1
  /\ pending_q' = Append(pending_q, Start(episode')) \o Controls[episode'].draft
  /\ pc' = "barrier" /\ got' = {}
  /\ UNCHANGED <<active_host, stopped>>

\* Mutant of Arrive: the two events are waited for one after the other.
Arrive_InSequence(side) ==
  /\ got' = IF pc = "barrier" /\ (side = "npu" => "pim" \in got)
              THEN got \cup {side} ELSE got
  /\ UNCHANGED <<episode, pending_q, pc, active_host, stopped>>

\* Mutant of Arrive: either event opens the barrier.
Arrive_Either(side) ==
  /\ got' = IF pc = "barrier" THEN {"npu", "pim"} ELSE got
  /\ UNCHANGED <<episode, pending_q, pc, active_host, stopped>>

\* An event is delivered; it counts only while the thread is at the barrier.
Arrive(side) ==
  /\ got' = IF pc = "barrier" THEN got \cup {side} ELSE got
  /\ UNCHANGED <<episode, pending_q, pc, active_host, stopped>>

\* Mutant of LeaveBarrier: the last control record is skipped.
LeaveBarrier_SkipLast(active_dram) ==
  /\ pc = "barrier" /\ got = {"pim", "npu"}
  /\ IF episode + 1 < Len(Controls)
       THEN pc' = "launch" /\ UNCHANGED stopped
       ELSE pc' = "trace" /\ stopped' = ~active_dram
  /\ got' = {}
  /\ UNCHANGED <<episode, pending_q, active_host>>

\* Both events have fired: the next record, or back to the trace loop.
LeaveBarrier(active_dram) ==
  /\ pc = "barrier" /\ got = {"pim", "npu"}
  /\ IF episode < Len(Controls)
       THEN pc' = "launch" /\ UNCHANGED stopped
       ELSE pc' = "trace" /\ stopped' = ~active_dram
  /\ got' = {}
  /\ UNCHANGED <<episode, pending_q, active_host>>

\* The TERMINATE trace, and the loop that waits for the memories to stop.
Terminate(active_dram) ==
  /\ pc = "trace"
  /\ active_host' = 0
  /\ pc' = "stopping" /\ stopped' = ~active_dram
  /\ UNCHANGED <<episode, pending_q, got>>

Poll(active_dram) ==
  /\ pc = "stopping" /\ ~active_dram
  /\ stopped' = TRUE
  /\ UNCHANGED <<episode, pending_q, pc, got, active_host>>

\* One transaction leaves per clock cycle.
clock_negedge(t) ==
  /\ pending_q # <<>> /\ t = Head(pending_q)
  /\ pending_q' = Tail(pending_q)
  /\ UNCHANGED <<episode, pc, got, active_host, stopped>>
=============================================================================
