------------------------------- MODULE Logger -------------------------------
(***************************************************************************)
(* The cycle log (utilities/logger.cpp): for each device a row per layer   *)
(* with the first start and the last end, in whole cycles of 1 ns.  A log  *)
(* is a function from layers to rows; times are half nanoseconds.          *)
(***************************************************************************)
EXTENDS Integers, Maps

\* static_cast<int64_t>(time / 1000 ps)
to_cycle(t) == t \div 2

\* A row is a value-initialised pair.
NoCycle == 0

\* Only the first start of a layer is kept.
update_start_at(log, layer, t) ==
  Emplaced(log, layer, [start |-> to_cycle(t), end |-> NoCycle])

\* Every end replaces the one before; an end alone creates the row.
update_end_at(log, layer, t) ==
  IF layer \in DOMAIN log THEN [log EXCEPT ![layer].end = to_cycle(t)]
  ELSE Emplaced(log, layer, [start |-> NoCycle, end |-> to_cycle(t)])
=============================================================================
