----------------------------- MODULE MemWrapper -----------------------------
(***************************************************************************)
(* The DRAM wrapper of hsim (components/mem_wrapper.cpp), the target's     *)
(* memory in the partitioned structure: two clocked methods, one on each   *)
(* edge, and the simulate_dram thread, which takes completions, hands over *)
(* every waiting request and sleeps until the front of the analytical      *)
(* queue is due.                                                           *)
(*                                                                         *)
(* Time is abstract as in PimWrapper: due is the number of entries at the  *)
(* front of fast that complete_fast_memory_requests would take now.        *)
(***************************************************************************)
EXTENDS Integers, Sequences, Subsequences

CONSTANTS
  FastLayerMode,  \* Configurations::fast_layer_mode_enabled()
  Requests        \* every transaction that reaches the wrapper

ASSUME MemRequestsAssumption ==
  /\ FastLayerMode \in BOOLEAN
  /\ \A r \in Requests : /\ r.cmd \in {"READ", "WRITE"}
                         /\ r.src \in {"HOST", "NPU"}
                         /\ r.macro \in BOOLEAN

VARIABLES
  peq,           \* requests notified by nb_transport_fw, not yet delivered
  fw_queue,      \* delivered, waiting for a rising edge
  mem_request,   \* waiting for the thread
  fast,          \* fast_memory_completed_queue
  due,           \* how many entries of fast are due
  bridge,        \* requests inside the DRAMsim3 bridge
  bridge_done,   \* the bridge's completed commands
  bw_queue,      \* responses waiting for a falling edge
  m_outstanding, \* requests handed over and not yet answered
  pc,            \* where the simulate_dram thread is
  memory_event,  \* fast_memory_event notified and not yet delivered
  bw,            \* responses handed to the interconnect
  active         \* active_host # 0 \/ active_core # 0

queueVars == <<peq, fw_queue, mem_request>>
deviceVars == <<fast, due, bridge, bridge_done, bw_queue, m_outstanding>>
vars == <<queueVars, deviceVars, pc, memory_event, bw, active>>

Init ==
  /\ peq = <<>> /\ fw_queue = <<>> /\ mem_request = <<>>
  /\ fast = <<>> /\ due = 0 /\ bridge = <<>> /\ bridge_done = <<>>
  /\ bw_queue = <<>> /\ m_outstanding = 0
  /\ pc = "run" /\ memory_event = FALSE
  /\ bw = <<>> /\ active = TRUE

\* The thread is at a wait() or has not been resumed yet.
Yielded == pc # "tick"

DeltaPending == peq # <<>> \/ memory_event

-----------------------------------------------------------------------------
nb_transport_fw(r) ==
  /\ Yielded
  /\ peq' = Append(peq, r)
  /\ UNCHANGED <<fw_queue, mem_request, deviceVars, pc, memory_event, bw, active>>

peq_cb ==
  /\ Yielded /\ peq # <<>>
  /\ peq' = Tail(peq)
  /\ fw_queue' = Append(fw_queue, Head(peq))
  /\ UNCHANGED <<mem_request, deviceVars, pc, memory_event, bw, active>>

\* Mutant of clock_posedge: the thread is not notified.
clock_posedge_Silent ==
  /\ Yielded /\ fw_queue # <<>>
  /\ fw_queue' = Tail(fw_queue)
  /\ mem_request' = Append(mem_request, Head(fw_queue))
  /\ UNCHANGED <<peq, deviceVars, pc, memory_event, bw, active>>

clock_posedge ==
  /\ Yielded /\ fw_queue # <<>>
  /\ fw_queue' = Tail(fw_queue)
  /\ mem_request' = Append(mem_request, Head(fw_queue))
  /\ memory_event' = TRUE
  /\ UNCHANGED <<peq, deviceVars, pc, bw, active>>

\* Mutant of clock_negedge: the outstanding request is not counted off.
clock_negedge_Leak ==
  /\ Yielded /\ bw_queue # <<>>
  /\ bw' = Append(bw, Head(bw_queue))
  /\ bw_queue' = Tail(bw_queue)
  /\ UNCHANGED <<queueVars, fast, due, bridge, bridge_done, m_outstanding, pc,
                 memory_event, active>>

clock_negedge ==
  /\ Yielded /\ bw_queue # <<>>
  /\ bw' = Append(bw, Head(bw_queue))
  /\ bw_queue' = Tail(bw_queue)
  /\ m_outstanding' = m_outstanding - 1
  /\ UNCHANGED <<queueVars, fast, due, bridge, bridge_done, pc, memory_event,
                 active>>

-----------------------------------------------------------------------------
(* The simulate_dram thread                                                *)

Macro(r) == FastLayerMode /\ r.macro

\* Mutant of Answered: writes of the NPU are forgotten.
Answered_ReadsOnly(r) == r.cmd = "READ"

\* A read, and a write of the NPU, is answered; a host write ends here.
Answered(r) == r.cmd = "READ" \/ r.src = "NPU"

\* What one iteration adds to m_outstanding.
Handed == Len(mem_request)

Layers   == {r \in Requests : Macro(r)}
Detailed == {r \in Requests : ~Macro(r)}

\* One iteration up to the tick: complete_fast_memory_requests, at most one
\* completion of the bridge, and every request waiting in mem_request.
Iterate ==
  LET done     == bridge_done # <<>>
      answered == IF done /\ Answered(Head(bridge_done)) THEN <<Head(bridge_done)>>
                                                        ELSE <<>>
      dropped  == IF done /\ ~Answered(Head(bridge_done)) THEN 1 ELSE 0
  IN
  /\ pc = "run"
  /\ bw_queue' = bw_queue \o SubSeq(fast, 1, due) \o answered
  /\ bridge_done' = IF done THEN Tail(bridge_done) ELSE <<>>
  /\ fast' = SubSeq(fast, due + 1, Len(fast)) \o Only(mem_request, Layers)
  /\ due' = 0
  /\ bridge' = bridge \o Only(mem_request, Detailed)
  /\ m_outstanding' = m_outstanding - dropped + Handed
  /\ mem_request' = <<>>
  /\ pc' = "tick"
  /\ UNCHANGED <<peq, fw_queue, memory_event, bw, active>>

\* ClockTick, skipped in fast-layer mode, returns requests in any order.
BridgeCallBack(i) ==
  /\ pc = "tick" /\ ~FastLayerMode
  /\ i \in 1..Len(bridge)
  /\ bridge_done' = Append(bridge_done, bridge[i])
  /\ bridge' = SubSeq(bridge, 1, i - 1) \o SubSeq(bridge, i + 1, Len(bridge))
  /\ UNCHANGED <<queueVars, fast, due, bw_queue, m_outstanding, pc,
                 memory_event, bw, active>>

EndIteration ==
  /\ pc = "tick"
  /\ pc' = IF ~active /\ m_outstanding = 0 THEN "done"
           ELSE IF FastLayerMode /\ fast # <<>> THEN "sleep" ELSE "period"
  /\ UNCHANGED <<queueVars, deviceVars, memory_event, bw, active>>

Timeout ==
  /\ pc \in {"sleep", "period"} /\ ~DeltaPending
  /\ pc' = "run"
  /\ UNCHANGED <<queueVars, deviceVars, memory_event, bw, active>>

DeliverMemoryEvent ==
  /\ Yielded /\ memory_event
  /\ memory_event' = FALSE
  /\ pc' = IF pc = "sleep" THEN "run" ELSE pc
  /\ UNCHANGED <<queueVars, deviceVars, bw, active>>

\* Simulated time reaches the done_time of the next analytical entry.
Elapse ==
  /\ Yielded /\ due < Len(fast)
  /\ due' = due + 1
  /\ UNCHANGED <<queueVars, fast, bridge, bridge_done, bw_queue, m_outstanding,
                 pc, memory_event, bw, active>>

Run   == Iterate \/ (\E i \in 1..Len(bridge) : BridgeCallBack(i)) \/ EndIteration
Delta == peq_cb \/ DeliverMemoryEvent
Timed == clock_posedge \/ clock_negedge \/ Timeout \/ Elapse

\* What makes a request advance while the thread merely polls.
Advance ==
  \/ clock_posedge \/ clock_negedge \/ Elapse
  \/ \E i \in 1..Len(bridge) : BridgeCallBack(i)

-----------------------------------------------------------------------------
(* Properties                                                              *)

\* Every variable has the type its declaration in mem_wrapper.h gives it;
\* m_outstanding never wraps below zero.
TypeOK ==
  /\ peq \in Seq(Requests) /\ fw_queue \in Seq(Requests)
  /\ mem_request \in Seq(Requests) /\ fast \in Seq(Requests)
  /\ due \in 0..Len(fast)
  /\ bridge \in Seq(Requests) /\ bridge_done \in Seq(Requests)
  /\ bw_queue \in Seq(Requests)
  /\ m_outstanding \in Nat
  /\ pc \in {"run", "tick", "period", "sleep", "done"}
  /\ memory_event \in BOOLEAN
  /\ bw \in Seq(Requests) /\ active \in BOOLEAN

\* m_outstanding, which keeps the thread alive at the end of the simulation,
\* counts exactly the requests the device holds: it is incremented by the
\* thread and decremented by a clocked method or, for host writes, by the
\* thread again.
OutstandingExact ==
  m_outstanding = Len(fast) + Len(bridge) + Len(bridge_done) + Len(bw_queue)

\* A thread that sleeps until the front of the analytical queue is due never
\* overlooks a request that has arrived since: the event is under way.
NoSleepOverRequest == pc = "sleep" /\ mem_request # <<>> => memory_event
=============================================================================
