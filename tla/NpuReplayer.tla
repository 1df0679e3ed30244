---------------------------- MODULE NpuReplayer -----------------------------
(***************************************************************************)
(* The target NPU of hsim (components/npu_trace_replayer.cpp): for every   *)
(* start request of the Host it replays the target model's decoder layers, *)
(* each a sequence of memory transfers and compute phases.  A transfer is  *)
(* one tensor-sized macro in fast-layer mode and otherwise a stream of     *)
(* bursts, of which at most max_inflight_requests are in flight.           *)
(***************************************************************************)
EXTENDS Integers, Sequences, SequencesExt

CONSTANTS
  FastNpu,        \* profile.fast_layer_mode
  Collapse,       \* profile.fast_layer_granularity = "macro"
  LayerCount,     \* layer_profile.layer_count
  Operations,     \* layer_profile.operations: [name, weight, compute]
  KvBytes,        \* layer_profile.kv_cache_bytes_per_token
  OutputBytes,    \* output_write_bytes, per query token
  RequestBytes,   \* dram_req_bytes
  Window,         \* profile.max_inflight_requests
  Word,           \* uint32_t arithmetic is modulo Word (2^32 in the build)
  Dst             \* where NPU memory requests go: "DRAM" or "PIM"

VARIABLES
  peq_fw, peq_bw,     \* notified, not yet delivered
  start_event, response_event,  \* delta notifications not yet delivered
  args,               \* active_context_, _query_ and _kv_write_tokens
  pc,                 \* where the replay_trace thread is
  program,            \* what is left of the trace
  remaining,          \* bursts of the current transfer not yet issued
  pending_responses,
  done_event,         \* npu_trace_done_ev notified and not yet delivered
  active_core

eventVars == <<start_event, response_event, done_event>>
threadVars == <<pc, program, remaining, active_core>>
vars == <<peq_fw, peq_bw, eventVars, args, threadVars, pending_responses>>

Init ==
  /\ peq_fw = <<>> /\ peq_bw = <<>>
  /\ start_event = FALSE /\ response_event = FALSE /\ done_event = FALSE
  /\ args = [context |-> 1, query |-> 1, kv_write |-> 1]
  /\ pc = "idle" /\ program = <<>> /\ remaining = 0
  /\ pending_responses = 0
  /\ active_core = 1

-----------------------------------------------------------------------------
(* The trace of one run                                                    *)

Request(cmd) == [cmd |-> cmd, src |-> "NPU", dst |-> Dst,
                 macro |-> FastNpu, last |-> FALSE]

Multiplier == IF FastNpu /\ Collapse THEN LayerCount ELSE 1
SimulatedLayers == IF FastNpu /\ Collapse THEN 1 ELSE LayerCount

\* issue_fast_memory: nothing for zero bytes, or one macro
Macro(cmd, bytes) == IF bytes = 0 THEN <<>> ELSE << [op |-> cmd, n |-> 1] >>

\* issue_memory: the bytes, cast to uint32_t, in units of RequestBytes, rounded
\* up; nothing if burst_size, in 32 bits, is zero.
Bursts(cmd, bytes) ==
  LET end == (bytes % Word) + RequestBytes - 1
  IN IF (end % Word) \div RequestBytes = 0 THEN <<>>
     ELSE << [op |-> cmd, n |-> end \div RequestBytes] >>

Transfer(cmd, bytes) == IF FastNpu THEN Macro(cmd, bytes) ELSE Bursts(cmd, bytes)

\* The detailed replay skips a compute phase of zero length.
Compute(op) ==
  IF FastNpu \/ op.compute > 0 THEN << [op |-> "COMPUTE", n |-> 0] >> ELSE <<>>

OperationSteps(op, a) ==
  Transfer("READ", op.weight * Multiplier)
  \o (IF op.name = "qkt"
        THEN Transfer("READ", KvBytes * a.context * Multiplier) ELSE <<>>)
  \o Compute(op)
  \o (IF op.name = "v_proj"
        THEN Transfer("WRITE", KvBytes * a.kv_write * Multiplier) ELSE <<>>)

LayerSteps(a) ==
  FlattenSeq([i \in 1..Len(Operations) |-> OperationSteps(Operations[i], a)])
  \o Transfer("WRITE", OutputBytes * a.query * Multiplier)

Trace(a) == FlattenSeq([l \in 1..SimulatedLayers |-> LayerSteps(a)])

-----------------------------------------------------------------------------
(* The thread                                                              *)

\* The thread runs before simulated time advances.
Running == pc \in {"go", "resume"}

DeltaPending == peq_fw # <<>> \/ peq_bw # <<>> \/ start_event \/ response_event
                  \/ Running

nb_transport_fw(a) ==
  /\ peq_fw' = Append(peq_fw, a)
  /\ UNCHANGED <<peq_bw, eventVars, args, threadVars, pending_responses>>

nb_transport_bw(r) ==
  /\ peq_bw' = Append(peq_bw, r)
  /\ UNCHANGED <<peq_fw, eventVars, args, threadVars, pending_responses>>

AtLeastOne(n) == IF n = 0 THEN 1 ELSE n

peq_fw_cb ==
  /\ peq_fw # <<>>
  /\ peq_fw' = Tail(peq_fw)
  /\ args' = [k \in {"context", "query", "kv_write"} |-> AtLeastOne(Head(peq_fw)[k])]
  /\ start_event' = TRUE
  /\ UNCHANGED <<peq_bw, response_event, done_event, threadVars, pending_responses>>

\* A start_event delivered while the thread does not wait for it is lost.
DeliverStart ==
  /\ start_event
  /\ start_event' = FALSE
  /\ IF pc = "idle"
       THEN pc' = "go" /\ active_core' = 1 /\ program' = Trace(args)
       ELSE UNCHANGED <<pc, active_core, program>>
  /\ UNCHANGED <<peq_fw, peq_bw, response_event, done_event, args, remaining,
                 pending_responses>>

\* complete_memory_response.
peq_bw_cb ==
  /\ peq_bw # <<>>
  /\ peq_bw' = Tail(peq_bw)
  /\ pending_responses' = pending_responses - 1
  /\ response_event' = TRUE
  /\ UNCHANGED <<peq_fw, start_event, done_event, args, threadVars>>

DeliverResponse ==
  /\ response_event
  /\ response_event' = FALSE
  /\ pc' = IF pc = "wait" THEN "resume" ELSE pc
  /\ UNCHANGED <<peq_fw, peq_bw, start_event, done_event, args, program,
                 remaining, active_core, pending_responses>>

\* Mutant of Batch: the window is never consulted.
Batch_Unbounded(left, pending) == left

\* How many bursts leave before the thread waits: it sends one and goes on
\* until none is left or the window is full.
Batch(left, pending) ==
  IF pending + 1 >= Window THEN 1
  ELSE IF left <= Window - pending THEN left ELSE Window - pending

\* The thread sends the next k bursts of the current transfer.
Send(k, left, pending) ==
  /\ remaining' = left - k
  /\ pending_responses' = pending + k
  /\ pc' = "wait"

\* A transfer begins with pending_responses = 0.
BeginTransfer(k) ==
  /\ pc = "go" /\ program # <<>> /\ Head(program).op # "COMPUTE"
  /\ k = Batch(Head(program).n, 0)
  /\ Send(k, Head(program).n, 0)
  /\ UNCHANGED <<peq_fw, peq_bw, eventVars, args, program, active_core>>

ContinueTransfer(k) ==
  /\ pc = "resume" /\ remaining > 0
  /\ k = Batch(remaining, pending_responses)
  /\ Send(k, remaining, pending_responses)
  /\ UNCHANGED <<peq_fw, peq_bw, eventVars, args, program, active_core>>

\* Mutant of Drain: the responses of the last window are not waited for.
Drain_Early ==
  /\ pc = "resume" /\ remaining = 0
  /\ pc' = "go" /\ program' = Tail(program)
  /\ UNCHANGED <<peq_fw, peq_bw, eventVars, args, remaining, active_core,
                 pending_responses>>

\* Everything is issued: wait for the rest of the responses, then go on.
Drain ==
  /\ pc = "resume" /\ remaining = 0
  /\ IF pending_responses > 0
       THEN pc' = "wait" /\ UNCHANGED program
       ELSE pc' = "go" /\ program' = Tail(program)
  /\ UNCHANGED <<peq_fw, peq_bw, eventVars, args, remaining, active_core,
                 pending_responses>>

BeginCompute ==
  /\ pc = "go" /\ program # <<>> /\ Head(program).op = "COMPUTE"
  /\ pc' = "compute"
  /\ UNCHANGED <<peq_fw, peq_bw, eventVars, args, program, remaining,
                 active_core, pending_responses>>

EndCompute ==
  /\ pc = "compute"
  /\ pc' = "go" /\ program' = Tail(program)
  /\ UNCHANGED <<peq_fw, peq_bw, eventVars, args, remaining, active_core,
                 pending_responses>>

Finish ==
  /\ pc = "go" /\ program = <<>>
  /\ active_core' = 0 /\ done_event' = TRUE
  /\ pc' = "idle"
  /\ UNCHANGED <<peq_fw, peq_bw, start_event, response_event, args, program,
                 remaining, pending_responses>>

\* npu_trace_done_ev reaches whoever waits for it.
TakeDone ==
  /\ done_event
  /\ done_event' = FALSE
  /\ UNCHANGED <<peq_fw, peq_bw, start_event, response_event, args, threadVars,
                 pending_responses>>

\* Steps that concern the NPU alone.
Local ==
  \/ peq_fw_cb \/ DeliverStart \/ peq_bw_cb \/ DeliverResponse
  \/ Drain \/ BeginCompute \/ Finish
=============================================================================
