----------------------------- MODULE SpecDecode -----------------------------
(***************************************************************************)
(* The whole simulator as components/Top.h wires it: the Host, the target  *)
(* NPU, the Arbiter, the PIM device and, in the partitioned structure, the *)
(* DRAM.  Each speculative-decoding episode runs the target on the NPU and *)
(* the draft on the PIM side by side.                                      *)
(*                                                                         *)
(* The SystemC kernel runs one process at a time up to its next wait and   *)
(* delivers every delta notification before simulated time advances.  The  *)
(* actions are the processes' runs; edges and timed waits need Quiet.      *)
(***************************************************************************)
EXTENDS Integers, Sequences, SequencesExt, Subsequences

CONSTANTS
  Unified,        \* memory_structure: TRUE "unified", FALSE "partitioned"
  FastNpu, FastPim,  \* the two fast_layer_mode switches of the config file
  Collapse, LayerCount, Operations, KvBytes, OutputBytes, RequestBytes,
  Window, Word,   \* see NpuReplayer
  Controls        \* see Host

\* The configuration file and the layer profile.  The loader rejects a window
\* of zero (configurations.cpp:184); the replayer takes a request size of zero
\* for one (npu_trace_replayer.cpp:95).
ASSUME MachineAssumption ==
  /\ Unified \in BOOLEAN /\ FastNpu \in BOOLEAN /\ FastPim \in BOOLEAN
  /\ Collapse \in BOOLEAN
  /\ LayerCount \in Nat /\ KvBytes \in Nat /\ OutputBytes \in Nat
  /\ RequestBytes \in Nat \ {0} /\ Window \in Nat \ {0} /\ Word \in Nat \ {0}
  /\ Operations \in Seq([name : STRING, weight : Nat, compute : Nat])

\* What the Host sends to the PIM; macro is uniform within a run because
\* synthetic_pim's switches decide it for all commands alike (host.cpp:211).
Commands ==
  [cmd : {"PIM"}, src : {"HOST"}, dst : {"PIM"}, macro : BOOLEAN, last : BOOLEAN]

\* The control trace has a record, and the draft stream of a record has a
\* command, or the Host throws (host.cpp:257); its last command, and no
\* other, is marked.
ASSUME ControlsAssumption ==
  /\ Controls # <<>>
  /\ Controls \in Seq([args : [context : Nat, query : Nat, kv_write : Nat],
                       draft : Seq(Commands)])
  /\ \A e \in 1..Len(Controls) : Controls[e].draft # <<>>
  /\ \A e \in 1..Len(Controls) : \A i \in 1..Len(Controls[e].draft) :
       Controls[e].draft[i].last <=> i = Len(Controls[e].draft)
  /\ \E m \in BOOLEAN : \A e \in 1..Len(Controls) : \A i \in 1..Len(Controls[e].draft) :
       Controls[e].draft[i].macro = m

VARIABLES
  \* Host
  episode, pending_q, host_pc, got, active_host, stopped,
  \* NPUTraceReplayer
  npu_peq_fw, npu_peq_bw, start_event, response_event, args, npu_pc, program,
  remaining, pending_responses, npu_done, active_core,
  \* Arbiter
  arb_peq_fw, arb_peq_bw, arb_fw, arb_bw,
  \* PIMWrapper
  pim_peq, pending_queue, pim_mode, busy, busy_count, pim_fast, pim_due,
  pim_bridge, pim_bridge_done, completed, pim_pc, switching, blocked,
  pending_event, resource_event, trace_done,
  \* MEMWrapper
  mem_peq, mem_fw, mem_request, mem_fast, mem_due, mem_bridge,
  mem_bridge_done, mem_bw, m_outstanding, mem_pc, memory_event

\* Configurations::fast_layer_mode_enabled() and dram_enabled().
FastLayerMode == FastNpu \/ FastPim
DramEnabled   == ~Unified

Active == active_host # 0 \/ active_core # 0

HOST == INSTANCE Host WITH pc <- host_pc

NPU == INSTANCE NpuReplayer WITH
  Dst <- IF DramEnabled THEN "DRAM" ELSE "PIM",
  peq_fw <- npu_peq_fw, peq_bw <- npu_peq_bw, pc <- npu_pc, done_event <- npu_done

ARB == INSTANCE Arbiter WITH
  peq_fw <- arb_peq_fw, peq_bw <- arb_peq_bw, fw_queue <- arb_fw, bw_queue <- arb_bw

\* Every transaction that reaches a memory.
Drafts ==
  UNION {{Controls[e].draft[i] : i \in 1..Len(Controls[e].draft)} : e \in 1..Len(Controls)}
Transfers == {NPU!Request(c) : c \in {"READ", "WRITE"}}
Requests == Drafts \cup Transfers

PIM == INSTANCE PimWrapper WITH
  peq <- pim_peq, fast <- pim_fast, due <- pim_due, bridge <- pim_bridge,
  bridge_done <- pim_bridge_done, pc <- pim_pc, bw <- arb_peq_bw, active <- Active

MEM == INSTANCE MemWrapper WITH
  Requests <- Transfers,
  peq <- mem_peq, fw_queue <- mem_fw, fast <- mem_fast, due <- mem_due,
  bridge <- mem_bridge, bridge_done <- mem_bridge_done, bw_queue <- mem_bw,
  pc <- mem_pc, bw <- arb_peq_bw, active <- Active

hostVars == <<episode, pending_q, host_pc, got, active_host, stopped>>
npuVars  == <<npu_peq_fw, npu_peq_bw, start_event, response_event, args, npu_pc,
              program, remaining, pending_responses, npu_done, active_core>>
arbVars  == <<arb_peq_fw, arb_peq_bw, arb_fw, arb_bw>>
arbRest  == <<arb_peq_fw, arb_fw, arb_bw>>
pimVars  == <<pim_peq, pending_queue, pim_mode, busy, busy_count, pim_fast, pim_due,
              pim_bridge, pim_bridge_done, completed, pim_pc, switching, blocked,
              pending_event, resource_event, trace_done>>
memVars  == <<mem_peq, mem_fw, mem_request, mem_fast, mem_due, mem_bridge,
              mem_bridge_done, mem_bw, m_outstanding, mem_pc, memory_event>>
vars == <<hostVars, npuVars, arbVars, pimVars, memVars>>

\* The device threads run for the first time; without a DRAM there is no
\* memory wrapper.
Init ==
  /\ HOST!Init /\ NPU!Init /\ ARB!Init /\ PIM!Init
  /\ mem_peq = <<>> /\ mem_fw = <<>> /\ mem_request = <<>>
  /\ mem_fast = <<>> /\ mem_due = 0 /\ mem_bridge = <<>> /\ mem_bridge_done = <<>>
  /\ mem_bw = <<>> /\ m_outstanding = 0 /\ memory_event = FALSE
  /\ mem_pc = IF DramEnabled THEN "run" ELSE "absent"

\* Either wrapper clears active_dram when its thread ends.
active_dram == pim_pc # "done" /\ mem_pc # "done"

\* No device thread is in the middle of an iteration.
Yielded == ~stopped /\ PIM!Yielded /\ MEM!Yielded

\* No process can run and no notification is pending: time may advance.
Quiet ==
  /\ Yielded
  /\ ~PIM!DeltaPending /\ ~MEM!DeltaPending /\ ~ARB!DeltaPending
  /\ ~NPU!DeltaPending /\ ~npu_done /\ ~trace_done
  /\ host_pc # "launch" /\ got # {"pim", "npu"}

-----------------------------------------------------------------------------
(* Host                                                                    *)

HostLaunch ==
  /\ Yielded /\ HOST!Launch
  /\ UNCHANGED <<npuVars, arbVars, pimVars, memVars>>

HostBarrier ==
  /\ Yielded /\ HOST!LeaveBarrier(active_dram)
  /\ UNCHANGED <<npuVars, arbVars, pimVars, memVars>>

TargetDone ==
  /\ Yielded /\ NPU!TakeDone /\ HOST!Arrive("npu")
  /\ UNCHANGED <<arbVars, pimVars, memVars>>

DraftDone ==
  /\ Yielded /\ trace_done /\ HOST!Arrive("pim")
  /\ trace_done' = FALSE
  /\ UNCHANGED <<npuVars, arbVars, memVars, pim_peq, pending_queue, pim_mode, busy,
                 busy_count, pim_fast, pim_due, pim_bridge, pim_bridge_done,
                 completed, pim_pc, switching, blocked, pending_event,
                 resource_event>>

\* Host::clock_negedge: socket 0 is the NPU, socket 1 the Arbiter.
HostSends ==
  /\ Quiet /\ pending_q # <<>>
  /\ LET t == Head(pending_q) IN
       /\ HOST!clock_negedge(t)
       /\ IF t.dst = "NPU"
            THEN NPU!nb_transport_fw(t.args) /\ UNCHANGED arbVars
            ELSE ARB!nb_transport_fw(<<t>>) /\ UNCHANGED npuVars
  /\ UNCHANGED <<pimVars, memVars>>

HostTerminate ==
  /\ Quiet /\ HOST!Terminate(active_dram)
  /\ UNCHANGED <<npuVars, arbVars, pimVars, memVars>>

HostPoll ==
  /\ Quiet /\ HOST!Poll(active_dram)
  /\ UNCHANGED <<npuVars, arbVars, pimVars, memVars>>

-----------------------------------------------------------------------------
(* NPU                                                                     *)

Copies(k, r) == [i \in 1..k |-> r]

NpuIssues ==
  /\ Yielded
  /\ \E k \in 1..NPU!Batch(IF npu_pc = "go" /\ program # <<>> THEN Head(program).n
                                                             ELSE remaining,
                           IF npu_pc = "go" THEN 0 ELSE pending_responses) :
       /\ NPU!BeginTransfer(k) \/ NPU!ContinueTransfer(k)
       /\ ARB!nb_transport_fw(Copies(k, NPU!Request(Head(program).op)))
  /\ UNCHANGED <<hostVars, pimVars, memVars>>

NpuLocal ==
  /\ Yielded /\ NPU!Local
  /\ UNCHANGED <<hostVars, arbVars, pimVars, memVars>>

NpuComputes ==
  /\ Quiet /\ NPU!EndCompute
  /\ UNCHANGED <<hostVars, arbVars, pimVars, memVars>>

-----------------------------------------------------------------------------
(* Arbiter                                                                 *)

ArbiterDelivers ==
  /\ Yielded /\ (ARB!peq_fw_cb \/ ARB!peq_bw_cb)
  /\ UNCHANGED <<hostVars, npuVars, pimVars, memVars>>

ArbiterForwards ==
  /\ Quiet /\ arb_fw # <<>>
  /\ UNCHANGED <<hostVars, npuVars>>
  /\ LET r == Head(arb_fw)[1]  d == Head(arb_fw)[2] IN
       /\ ARB!clock_negedge(r, d)
       /\ IF d = "PIM" THEN PIM!nb_transport_fw(r) /\ UNCHANGED memVars
                       ELSE MEM!nb_transport_fw(r) /\ UNCHANGED pimVars

\* Mutant of ArbiterAnswers: the response queue is emptied on one edge.
ArbiterAnswers_All ==
  /\ Quiet /\ arb_bw # <<>>
  /\ npu_peq_bw' = npu_peq_bw \o [i \in 1..Len(arb_bw) |-> arb_bw[i][1]]
  /\ arb_bw' = <<>>
  /\ UNCHANGED <<hostVars, npu_peq_fw, start_event, response_event, args, npu_pc,
                 program, remaining, pending_responses, npu_done, active_core,
                 arb_peq_fw, arb_peq_bw, arb_fw, pimVars, memVars>>

ArbiterAnswers ==
  /\ Quiet /\ arb_bw # <<>>
  /\ LET r == Head(arb_bw)[1] IN
       ARB!clock_posedge(r, "NPU") /\ NPU!nb_transport_bw(r)
  /\ UNCHANGED <<hostVars, pimVars, memVars>>

-----------------------------------------------------------------------------
(* The device wrappers                                                     *)

PimStep ==
  /\ ~stopped /\ MEM!Yielded
  /\ UNCHANGED <<hostVars, npuVars, arbRest, memVars>>
  /\ PIM!Run \/ PIM!Delta \/ (Quiet /\ PIM!Timed)

MemStep ==
  /\ ~stopped /\ PIM!Yielded /\ DramEnabled
  /\ UNCHANGED <<hostVars, npuVars, arbRest, pimVars>>
  /\ MEM!Run \/ MEM!Delta \/ (Quiet /\ MEM!Timed)

-----------------------------------------------------------------------------
Next ==
  \/ HostLaunch \/ HostBarrier \/ TargetDone \/ DraftDone \/ HostSends
  \/ HostTerminate \/ HostPoll
  \/ NpuIssues \/ NpuLocal \/ NpuComputes
  \/ ArbiterDelivers \/ ArbiterForwards \/ ArbiterAnswers
  \/ PimStep \/ MemStep

Spec == Init /\ [][Next]_vars

\* Steps that bring the run nearer to its end.  All other steps are polls of
\* the device threads.
Progress ==
  \/ HostLaunch \/ HostBarrier \/ TargetDone \/ DraftDone \/ HostSends
  \/ HostTerminate \/ HostPoll
  \/ NpuIssues \/ NpuLocal \/ NpuComputes
  \/ ArbiterDelivers \/ ArbiterForwards \/ ArbiterAnswers
  \/ (PimStep /\ PIM!Advance) \/ (MemStep /\ MEM!Advance)

\* The kernel runs every process that can run, clocks tick, timed waits end
\* and DRAMsim3 returns what it is ticked for.  Polling threads disable other
\* steps for a moment, hence strong fairness.
FairSpec ==
  Spec /\ SF_vars(PimStep) /\ SF_vars(MemStep) /\ SF_vars(Progress)

-----------------------------------------------------------------------------
(* Properties                                                              *)

\* Every transaction between its sender and its retirement or answer: on the
\* way to a device, inside the two devices, and on the way back.
First(q) == [i \in 1..Len(q) |-> q[i][1]]

Outward == arb_peq_fw \o First(arb_fw)
InPim ==
  pim_peq \o pending_queue \o switching \o pim_bridge_done
  \o pim_fast["memory"] \o pim_bridge["memory"] \o completed["memory"]
  \o pim_fast["compute"] \o pim_bridge["compute"] \o completed["compute"]
InMem ==
  mem_peq \o mem_fw \o mem_request \o mem_fast \o mem_bridge \o mem_bridge_done
  \o mem_bw
Homeward == arb_peq_bw \o First(arb_bw) \o npu_peq_bw

InTransit == Outward \o InPim \o InMem \o Homeward

IsDraft(t) == t.dst # "NPU"

\* The NPU's pending_responses, on which both its window and the end of a
\* transfer depend, is the number of its requests anywhere between issue and
\* response: through the interconnect, the device that serves it, its
\* completion queues and the way back, none is lost or answered twice.
PendingExact == pending_responses = Len(Only(InTransit, Transfers))

\* The NPU never has more than max_inflight_requests bursts in flight, although
\* issue_memory tests the window with an "if" and not a "while": no response
\* event is left over from before the wait it ends.
WindowBounded == pending_responses <= Window

\* No notification is lost.  A start request finds the NPU thread waiting for
\* it, a response finds it waiting for a response, and the completion of
\* either side finds the Host at its barrier.
NoEventLost ==
  /\ start_event => npu_pc = "idle"
  /\ response_event => npu_pc = "wait"
  /\ npu_done \/ trace_done => host_pc = "barrier"

\* Work of the current episode.
TargetWork ==
  \/ \E i \in 1..Len(pending_q) : ~IsDraft(pending_q[i])
  \/ npu_peq_fw # <<>> \/ start_event \/ npu_pc # "idle"
  \/ \E i \in 1..Len(InTransit) : InTransit[i].src = "NPU"
DraftWork ==
  \/ \E i \in 1..Len(pending_q) : IsDraft(pending_q[i])
  \/ \E i \in 1..Len(InTransit) : InTransit[i].cmd = "PIM"

Status(work) ==
  IF host_pc # "barrier" THEN "idle" ELSE IF work THEN "running" ELSE "done"

PL == INSTANCE Pipeline WITH
  Episodes <- Len(Controls), round <- episode,
  target <- Status(TargetWork), draft <- Status(DraftWork), over <- stopped

\* The simulator implements the pipeline of episodes: the Host passes its
\* barrier, starts the next episode and stops the simulation only when the
\* target has replayed its whole trace and the last draft command has left
\* the device, and neither side comes back to life before the next launch.
ImplementsPipeline == PL!Spec

\* A device thread ends, and the simulation stops, only when every episode
\* has run and no transaction is left anywhere.  The PIM thread ends as soon
\* as active_host and active_core are 0, without looking at its queues.
EndsDrained ==
  (stopped \/ ~active_dram) =>
    /\ episode = Len(Controls) /\ pending_q = <<>> /\ InTransit = <<>>

\* The simulation ends: no side waits for ever at the barrier, the window or
\* the devices, and the memories stop.
SimulationStops == <>stopped

\* In fast-layer mode the wrappers do not tick DRAMsim3, because "no request
\* reaches this bridge" (mem_wrapper.cpp:175).
NoRequestReachesIdleBridge ==
  FastLayerMode => /\ mem_bridge = <<>>
                   /\ \A c \in {"memory", "compute"} : pim_bridge[c] = <<>>
=============================================================================
