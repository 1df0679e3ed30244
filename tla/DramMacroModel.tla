--------------------------- MODULE DramMacroModel ---------------------------
(***************************************************************************)
(* The analytical memory model (components/dram_macro_model.cpp): a tensor *)
(* transfer is one payload whose 64-bit byte count travels in two 32-bit   *)
(* fields, and its service time is estimated from its size, by bandwidth   *)
(* or from two calibration runs of the DRAM simulator.                     *)
(*                                                                         *)
(* Word stands for 2^32.  Times of the calibration are in ticks of the     *)
(* DRAM clock, TickNum/TickDen nanoseconds each; effective_channels is     *)
(* EffNum/EffDen.                                                          *)
(***************************************************************************)
EXTENDS Integers

CONSTANTS
  Word,              \* 2^32
  Backend,           \* fast_memory_backend: "analytic" or "dramsim3_calibrated"
  FixedLatency,      \* fast_memory_fixed_latency_ns
  Bandwidth,         \* fast_memory_bandwidth_GBps, bytes per ns
  RequestBytes,      \* request_bytes_
  TickNum, TickDen,  \* tick_ns_
  EffNum, EffDen,    \* effective_channels, 1 unless the model is linear_logical
  TrainRequests,     \* requests of the training stream, at least 2
  FirstTicks,        \* [cmd |-> ticks measured for one request]
  TrainTicks         \* [cmd |-> ticks measured for TrainRequests requests]

ASSUME MacroAssumption ==
  /\ {Word, Bandwidth, RequestBytes, TickNum, TickDen, EffNum, EffDen} \subseteq Nat \ {0}
  /\ FixedLatency \in Nat /\ TrainRequests \in Nat \ {0, 1}
  /\ Backend \in {"analytic", "dramsim3_calibrated"}
  /\ \A cmd \in {"READ", "WRITE"} :
       FirstTicks[cmd] \in Nat \ {0} /\ TrainTicks[cmd] \in Nat \ {0}

CeilDiv(a, b) == (a + b - 1) \div b

\* issue_fast_memory: how the byte count is put into the payload
data_length(bytes) == bytes % Word
bst_size(bytes) == bytes \div Word

\* Mutant of macro_bytes: only the data_length field is read.
macro_bytes_Low(t) == t.data_length

macro_bytes(t) == t.bst_size * Word + t.data_length

\* fit: ticks per request times TrainRequests - 1, at least one tick each
TrainSlope(cmd) ==
  LET rise == TrainTicks[cmd] - FirstTicks[cmd]
  IN IF rise > TrainRequests - 1 THEN rise ELSE TrainRequests - 1

\* estimate_ns.  The calibrated time is first + (requests - 1) * per request,
\* in ticks over the common denominator of the slope and the channels.
estimate_ns(cmd, bytes) ==
  IF bytes = 0 THEN 0
  ELSE IF Backend = "analytic" THEN FixedLatency + CeilDiv(bytes, Bandwidth)
  ELSE LET requests == CeilDiv(bytes, RequestBytes)
           den == (TrainRequests - 1) * EffNum
           num == FirstTicks[cmd] * den + (requests - 1) * TrainSlope(cmd) * EffDen
       IN FixedLatency + CeilDiv(num * TickNum, den * TickDen)
=============================================================================
