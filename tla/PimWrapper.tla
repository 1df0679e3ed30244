----------------------------- MODULE PimWrapper -----------------------------
(***************************************************************************)
(* The PIM device wrapper of hsim (components/pim_wrapper.cpp): one        *)
(* SystemC thread that takes requests from a FIFO, switches the device     *)
(* between its compute and its memory mode and hands each request either   *)
(* to an analytical completion queue ("fast" macros, which carry their own *)
(* completion time) or to the DRAMsim3 bridge; and two clocked methods     *)
(* that retire what has completed and notify the waiting parties.          *)
(*                                                                         *)
(* Time is abstract: due[c] is the number of entries at the front of       *)
(* fast[c] whose done_time has been reached.  A SystemC thread is not      *)
(* preempted, so nothing else happens while pc is "tick" or "drain".       *)
(***************************************************************************)
EXTENDS Naturals, Sequences, FiniteSets, Subsequences

CONSTANTS
  Unified,        \* memory_structure: TRUE "unified", FALSE "partitioned"
  FastLayerMode,  \* Configurations::fast_layer_mode_enabled()
  Requests        \* every transaction that reaches the wrapper

Class == {"memory", "compute"}

ASSUME ModeAssumption == Unified \in BOOLEAN /\ FastLayerMode \in BOOLEAN

\* A request: cmd is the TLM command, src the initiator, macro says that
\* pim_cmd is "fast_memory" or starts with "macro(", last is is_last().
ASSUME RequestsAssumption ==
  \A r \in Requests : /\ r.cmd \in {"PIM", "READ", "WRITE"}
                      /\ r.src \in {"HOST", "NPU"}
                      /\ r.macro \in BOOLEAN
                      /\ r.last \in BOOLEAN

VARIABLES
  peq,           \* requests notified by nb_transport_fw, not yet delivered
  pending_queue, \* requests waiting for the device, in arrival order
  pim_mode,      \* the device's mode, a Class
  busy,          \* [Class -> BOOLEAN]: memory_busy and compute_busy
  busy_count,    \* [Class -> Nat]: memory_busy_count and compute_busy_count
  fast,          \* [Class -> Seq]: fast_memory_/fast_compute_completed_queue
  due,           \* [Class -> Nat]: how many entries of fast[c] are due
  bridge,        \* [Class -> Seq]: requests inside the DRAMsim3 bridge
  bridge_done,   \* the bridge's completed commands
  completed,     \* [Class -> Seq]: memory_/compute_completed_queue
  pc,            \* where the simulate_*_pim thread is
  switching,     \* <<r>> while the thread waits for the mode change for r
  blocked,       \* blocked_fast_request of the current iteration
  pending_event, resource_event,  \* delta notifications not yet delivered
  bw,            \* responses handed to the interconnect
  trace_done,    \* pim_trace_done_ev notified and not yet delivered
  active         \* active_host # 0 \/ active_core # 0

deviceVars == <<busy, busy_count, fast, due, bridge, bridge_done, completed>>
threadVars == <<pim_mode, pc, switching, blocked>>
eventVars  == <<pending_event, resource_event>>
outVars    == <<bw, trace_done, active>>
vars == <<peq, pending_queue, deviceVars, threadVars, eventVars, outVars>>

ClassOf(r) == IF r.cmd = "PIM" THEN "compute" ELSE "memory"
Other(c)   == IF c = "compute" THEN "memory" ELSE "compute"

Init ==
  /\ peq = <<>> /\ pending_queue = <<>>
  /\ pim_mode = "memory"
  /\ busy = [c \in Class |-> FALSE]
  /\ busy_count = [c \in Class |-> 0]
  /\ fast = [c \in Class |-> <<>>]
  /\ due = [c \in Class |-> 0]
  /\ bridge = [c \in Class |-> <<>>]
  /\ bridge_done = <<>>
  /\ completed = [c \in Class |-> <<>>]
  /\ pc = "run" /\ switching = <<>> /\ blocked = FALSE
  /\ pending_event = FALSE /\ resource_event = FALSE
  /\ bw = <<>> /\ trace_done = FALSE /\ active = TRUE

\* The thread is at a wait() or has not been resumed yet.
Yielded == pc \notin {"tick", "drain"}

\* Delta notifications are delivered before simulated time advances.
DeltaPending == peq # <<>> \/ pending_event \/ resource_event

-----------------------------------------------------------------------------
(* Arrival                                                                 *)

nb_transport_fw(r) ==
  /\ Yielded
  /\ peq' = Append(peq, r)
  /\ UNCHANGED <<pending_queue, deviceVars, threadVars, eventVars, outVars>>

peq_cb ==
  /\ Yielded /\ peq # <<>>
  /\ peq' = Tail(peq)
  /\ pending_queue' = Append(pending_queue, Head(peq))
  /\ pending_event' = TRUE
  /\ UNCHANGED <<deviceVars, threadVars, resource_event, outVars>>

-----------------------------------------------------------------------------
(* The simulation thread                                                   *)

\* Mutant of Collected: new completions go to the front of the queue.
Collected_Front(c) ==
  SubSeq(fast[c], 1, due[c])
    \o (IF bridge_done # <<>> /\ ClassOf(Head(bridge_done)) = c
          THEN <<Head(bridge_done)>> ELSE <<>>)
    \o completed[c]

\* complete_fast_memory_requests, complete_fast_compute_requests and one
\* getCompletedCommand, which open every iteration.
Collected(c) ==
  completed[c] \o SubSeq(fast[c], 1, due[c])
    \o (IF bridge_done # <<>> /\ ClassOf(Head(bridge_done)) = c
          THEN <<Head(bridge_done)>> ELSE <<>>)

Collect ==
  /\ completed' = [c \in Class |-> Collected(c)]
  /\ bridge_done' = IF bridge_done = <<>> THEN <<>> ELSE Tail(bridge_done)

\* Mutant of Undue: completed entries are not popped.
Undue_NoPop(c) == fast[c]

\* What complete_fast_* leaves in the analytical queue of class c.
Undue(c) == SubSeq(fast[c], due[c] + 1, Len(fast[c]))

\* Mutant of Process: the busy flags are not consulted.
Process_Always(r) == TRUE

\* The head of the queue may be dispatched.
Process(r) == Unified => ~busy[Other(ClassOf(r))]

Idle ==
  /\ pc = "run" /\ pending_queue = <<>>
  /\ Collect
  /\ fast' = [c \in Class |-> Undue(c)] /\ due' = [c \in Class |-> 0]
  /\ pc' = "tick" /\ blocked' = FALSE
  /\ UNCHANGED <<peq, pending_queue, busy, busy_count, bridge, pim_mode,
                 switching, eventVars, outVars>>

Block ==
  /\ pc = "run" /\ pending_queue # <<>> /\ ~Process(Head(pending_queue))
  /\ Collect
  /\ fast' = [c \in Class |-> Undue(c)] /\ due' = [c \in Class |-> 0]
  /\ pc' = "tick" /\ blocked' = FastLayerMode
  /\ UNCHANGED <<peq, pending_queue, busy, busy_count, bridge, pim_mode,
                 switching, eventVars, outVars>>

\* send_transaction once the device is in the right mode, with fastq the
\* analytical queues at that moment.
Analytical(r) == r.macro /\ (ClassOf(r) = "compute" => FastLayerMode)

send_transaction(r, fastq) ==
  LET c == ClassOf(r) IN
  /\ pim_mode' = c
  /\ busy' = [busy EXCEPT ![c] = TRUE]
  /\ busy_count' = [busy_count EXCEPT ![c] = @ + 1]
  /\ fast' = IF Analytical(r) THEN [fastq EXCEPT ![c] = Append(@, r)] ELSE fastq
  /\ bridge' = IF Analytical(r) THEN bridge
                                ELSE [bridge EXCEPT ![c] = Append(@, r)]

Dispatch ==
  /\ pc = "run" /\ pending_queue # <<>> /\ Process(Head(pending_queue))
  /\ pim_mode = ClassOf(Head(pending_queue))
  /\ Collect
  /\ due' = [c \in Class |-> 0]
  /\ send_transaction(Head(pending_queue), [c \in Class |-> Undue(c)])
  /\ pending_queue' = Tail(pending_queue)
  /\ pc' = "tick" /\ blocked' = FALSE
  /\ UNCHANGED <<peq, switching, eventVars, outVars>>

\* process_mode_transition: the request has left the queue, but nothing is
\* marked busy until the wait is over.
BeginModeTransition ==
  /\ pc = "run" /\ pending_queue # <<>> /\ Process(Head(pending_queue))
  /\ pim_mode # ClassOf(Head(pending_queue))
  /\ Collect
  /\ fast' = [c \in Class |-> Undue(c)] /\ due' = [c \in Class |-> 0]
  /\ switching' = <<Head(pending_queue)>>
  /\ pending_queue' = Tail(pending_queue)
  /\ pc' = "switch" /\ blocked' = FALSE
  /\ UNCHANGED <<peq, busy, busy_count, bridge, pim_mode, eventVars, outVars>>

EndModeTransition ==
  /\ pc = "switch" /\ ~DeltaPending
  /\ send_transaction(Head(switching), fast)
  /\ switching' = <<>>
  /\ pc' = "tick"
  /\ UNCHANGED <<peq, pending_queue, due, bridge_done, completed, blocked,
                 eventVars, outVars>>

\* bridge->ClockTick() is skipped in fast-layer mode.  A memory request
\* returns through ReadCallBack/WriteCallBack, in an order DRAMsim3 chooses.
BridgeCallBack(i) ==
  /\ pc = "tick" /\ ~FastLayerMode
  /\ i \in 1..Len(bridge["memory"])
  /\ bridge_done' = Append(bridge_done, bridge["memory"][i])
  /\ bridge' = [bridge EXCEPT !["memory"] =
                  SubSeq(@, 1, i - 1) \o SubSeq(@, i + 1, Len(@))]
  /\ UNCHANGED <<peq, pending_queue, busy, busy_count, fast, due, completed,
                 threadVars, eventVars, outVars>>

\* Then ClockTick drains the PIM commands that are done, oldest first.
BridgeComputeDone ==
  /\ pc \in {"tick", "drain"} /\ ~FastLayerMode
  /\ bridge["compute"] # <<>>
  /\ bridge_done' = Append(bridge_done, Head(bridge["compute"]))
  /\ bridge' = [bridge EXCEPT !["compute"] = Tail(@)]
  /\ pc' = "drain"
  /\ UNCHANGED <<peq, pending_queue, busy, busy_count, fast, due, completed,
                 pim_mode, switching, blocked, eventVars, outVars>>

\* The thread sleeps until an event when the queue gives it nothing to do.
MaySleep == FastLayerMode /\ (pending_queue = <<>> \/ (Unified /\ blocked))

EndIteration ==
  /\ pc \in {"tick", "drain"}
  /\ pc' = IF ~active THEN "done" ELSE IF MaySleep THEN "sleep" ELSE "period"
  /\ UNCHANGED <<peq, pending_queue, deviceVars, pim_mode, switching, blocked,
                 eventVars, outVars>>

\* wait(period), or the time-out of wait(next - now, events).
Timeout ==
  /\ pc \in {"sleep", "period"} /\ ~DeltaPending
  /\ pc' = "run"
  /\ UNCHANGED <<peq, pending_queue, deviceVars, pim_mode, switching, blocked,
                 eventVars, outVars>>

Wake == pc' = IF pc = "sleep" THEN "run" ELSE pc

DeliverPendingEvent ==
  /\ Yielded /\ pending_event
  /\ pending_event' = FALSE
  /\ Wake
  /\ UNCHANGED <<peq, pending_queue, deviceVars, pim_mode, switching, blocked,
                 resource_event, outVars>>

\* Only the unified thread waits for resource_available_event.
DeliverResourceEvent ==
  /\ Yielded /\ resource_event
  /\ resource_event' = FALSE
  /\ IF Unified THEN Wake ELSE UNCHANGED pc
  /\ UNCHANGED <<peq, pending_queue, deviceVars, pim_mode, switching, blocked,
                 pending_event, outVars>>

\* Simulated time reaches the done_time of the next analytical entry.
Elapse(c) ==
  /\ Yielded /\ due[c] < Len(fast[c])
  /\ due' = [due EXCEPT ![c] = @ + 1]
  /\ UNCHANGED <<peq, pending_queue, busy, busy_count, fast, bridge,
                 bridge_done, completed, threadVars, eventVars, outVars>>

-----------------------------------------------------------------------------
(* The clocked methods                                                     *)

\* Mutant of Release: the first retirement frees the class.
Release_Early(c) ==
  /\ completed' = [completed EXCEPT ![c] = Tail(@)]
  /\ busy_count' = [busy_count EXCEPT ![c] = @ - 1]
  /\ busy' = [busy EXCEPT ![c] = FALSE]
  /\ resource_event' = TRUE

\* Mutant of Release: the waiting thread is not notified.
Release_Silent(c) ==
  /\ completed' = [completed EXCEPT ![c] = Tail(@)]
  /\ busy_count' = [busy_count EXCEPT ![c] = @ - 1]
  /\ busy' = [busy EXCEPT ![c] = @ /\ busy_count[c] # 1]
  /\ UNCHANGED resource_event

\* Mutant of Release: the count is compared before it is decremented.
Release_Stuck(c) ==
  /\ completed' = [completed EXCEPT ![c] = Tail(@)]
  /\ busy_count' = [busy_count EXCEPT ![c] = @ - 1]
  /\ busy' = [busy EXCEPT ![c] = @ /\ busy_count[c] # 0]
  /\ resource_event' = (resource_event \/ busy_count[c] = 0)

\* --busy_count; at zero the class is free and the thread is notified.
Release(c) ==
  /\ completed' = [completed EXCEPT ![c] = Tail(@)]
  /\ busy_count' = [busy_count EXCEPT ![c] = @ - 1]
  /\ busy' = [busy EXCEPT ![c] = @ /\ busy_count[c] # 1]
  /\ resource_event' = (resource_event \/ busy_count[c] = 1)

\* Mutant of Answered: only reads are answered.
Answered_ReadsOnly(r) == r.cmd = "READ"

\* A read, and any NPU request, is answered; a host write is only released.
Answered(r) == r.cmd = "READ" \/ r.src = "NPU"

clock_posedge ==
  /\ Yielded /\ completed["memory"] # <<>>
  /\ LET r == Head(completed["memory"]) IN
       bw' = IF Answered(r) THEN Append(bw, r) ELSE bw
  /\ Release("memory")
  /\ UNCHANGED <<peq, pending_queue, fast, due, bridge, bridge_done,
                 threadVars, pending_event, trace_done, active>>

clock_negedge ==
  /\ Yielded /\ completed["compute"] # <<>>
  /\ trace_done' = (trace_done \/ Head(completed["compute"]).last)
  /\ Release("compute")
  /\ UNCHANGED <<peq, pending_queue, fast, due, bridge, bridge_done,
                 threadVars, pending_event, bw, active>>

-----------------------------------------------------------------------------
\* The thread is running, inside one evaluation phase of the kernel.
Run ==
  \/ Idle \/ Block \/ Dispatch \/ BeginModeTransition
  \/ \E i \in 1..Len(bridge["memory"]) : BridgeCallBack(i)
  \/ BridgeComputeDone \/ EndIteration

\* A delta notification is delivered.
Delta == peq_cb \/ DeliverPendingEvent \/ DeliverResourceEvent

\* Simulated time advances: a clock edge, the end of a timed wait.
Timed ==
  \/ clock_posedge \/ clock_negedge
  \/ EndModeTransition \/ Timeout
  \/ \E c \in Class : Elapse(c)

\* Everything the wrapper and the SystemC kernel do for it.
Step == Run \/ Delta \/ Timed

\* What makes a request advance while the thread merely polls: a completion
\* time is reached, a clock edge retires, DRAMsim3 returns a request.
Advance ==
  \/ \E c \in Class : Elapse(c)
  \/ clock_posedge \/ clock_negedge
  \/ \E i \in 1..Len(bridge["memory"]) : BridgeCallBack(i)
  \/ BridgeComputeDone

-----------------------------------------------------------------------------
(* Properties                                                              *)

\* Every variable of the wrapper has the type its declaration in
\* pim_wrapper.h gives it; a busy_count never wraps below zero.
TypeOK ==
  /\ peq \in Seq(Requests) /\ pending_queue \in Seq(Requests)
  /\ pim_mode \in Class
  /\ busy \in [Class -> BOOLEAN] /\ busy_count \in [Class -> Nat]
  /\ fast \in [Class -> Seq(Requests)] /\ due \in [Class -> Nat]
  /\ bridge \in [Class -> Seq(Requests)] /\ bridge_done \in Seq(Requests)
  /\ completed \in [Class -> Seq(Requests)]
  /\ pc \in {"run", "switch", "tick", "drain", "period", "sleep", "done"}
  /\ switching \in Seq(Requests)
  /\ blocked \in BOOLEAN
  /\ pending_event \in BOOLEAN /\ resource_event \in BOOLEAN
  /\ bw \in Seq(Requests) /\ trace_done \in BOOLEAN /\ active \in BOOLEAN

\* The number of entries of class c in a queue.
CountOf(c, s) == Cardinality({i \in 1..Len(s) : ClassOf(s[i]) = c})

\* Requests of class c handed to the device and not yet retired.
InFlight(c) ==
  Len(fast[c]) + Len(bridge[c]) + CountOf(c, bridge_done) + Len(completed[c])

\* The counters that decide whether the other class may enter are exact:
\* busy_count is the number of requests dispatched and not retired, wherever
\* they are (analytical queue, bridge, completion queues), and the busy flag
\* is set exactly while there is one.  A count lost at a completion would
\* block the other class for ever; one too many would let both in.
BusyCountExact ==
  \A c \in Class : /\ busy_count[c] = InFlight(c)
                   /\ busy[c] <=> busy_count[c] > 0

\* A unified device never holds work of both classes, and what it holds is of
\* the class its mode says, also across the wait inside
\* process_mode_transition, where the request has left pending_queue and no
\* busy flag is set yet.
ModeExclusive ==
  Unified => \A c \in Class : InFlight(c) > 0 => pim_mode = c /\ pc # "switch"

\* A sleeping thread never misses work it could do: if the head of the queue
\* may be dispatched, the notification that wakes the thread is already
\* under way (pending_event for a new arrival, resource_available_event for
\* a class that has become free).
NoLostWakeup ==
  (pc = "sleep" /\ pending_queue # <<>> /\ Process(Head(pending_queue)))
    => pending_event \/ (Unified /\ resource_event)

\* The thread never computes a sleep interval that ends in the past: no
\* analytical completion is due when it goes to sleep, so the unsigned
\* sc_time difference "next - sc_time_stamp()" cannot wrap around.  The mode
\* change, which takes time inside an iteration, is what could break it.
SleepEndsInFuture ==
  [][pc' = "sleep" /\ pc # "sleep" => \A c \in Class : due'[c] = 0]_vars

\* The PIM commands inside the wrapper, oldest first.
Commands == {r \in Requests : ClassOf(r) = "compute"}
ComputeOnly(s) == Only(s, Commands)
ComputeLine ==
  completed["compute"] \o ComputeOnly(bridge_done) \o fast["compute"]
    \o bridge["compute"] \o ComputeOnly(switching \o pending_queue \o peq)

\* PIM commands retire one at a time and strictly in the order in which the
\* Host sent them, through the mode change, either completion queue and the
\* clocked retirement: the command marked last is really the last to retire.
ComputeRetiresInOrder ==
  [][\/ ComputeLine' = ComputeLine
     \/ /\ ComputeLine # <<>> /\ ComputeLine' = Tail(ComputeLine)
     \/ \E r \in Requests : ComputeLine' = Append(ComputeLine, r)]_vars

\* The inductive invariant behind the four invariants above.  An entry is
\* never due before it exists; the device's queues hold requests of their
\* class only; during a mode change exactly one request is held back, and it
\* is not of the current mode's class; blocked_fast_request is still true of
\* the head when the iteration ends.
WellFormed ==
  /\ \A c \in Class : due[c] <= Len(fast[c])
  /\ \A c \in Class : \A i \in 1..Len(fast[c]) : ClassOf(fast[c][i]) = c
  /\ \A c \in Class : \A i \in 1..Len(bridge[c]) : ClassOf(bridge[c][i]) = c
  /\ pc = "switch" => Len(switching) = 1 /\ ClassOf(Head(switching)) # pim_mode
  /\ pc = "switch" => ~blocked
  /\ (pc \in {"tick", "drain"} /\ blocked)
       => pending_queue # <<>> /\ (Unified => ~Process(Head(pending_queue)))

IInv ==
  TypeOK /\ WellFormed /\ BusyCountExact /\ ModeExclusive /\ NoLostWakeup

InWrapper(r) ==
  \E s \in {peq, pending_queue, switching, bridge_done}
            \cup {fast[c] : c \in Class} \cup {bridge[c] : c \in Class}
            \cup {completed[c] : c \in Class} :
    \E i \in 1..Len(s) : s[i] = r

\* Every request that reaches the wrapper is retired, in both memory
\* structures and in both timing modes.
EveryRequestRetires == \A r \in Requests : InWrapper(r) ~> ~InWrapper(r)
=============================================================================
