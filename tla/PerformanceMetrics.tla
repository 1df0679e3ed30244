------------------------- MODULE PerformanceMetrics -------------------------
(***************************************************************************)
(* The metrics that the wrappers, the NPU and the Host feed and that       *)
(* write_json reports (utilities/performance_metrics.cpp).  The object is  *)
(* a passive data structure, so it is a record `b' here and every method   *)
(* an operator from the record before the call to the record after it.     *)
(*                                                                         *)
(* A request is known by the address of its payload.  Times are half       *)
(* nanoseconds, the resolution of the 0.5 ns that a PIM command adds; what *)
(* is recorded is whole nanoseconds, rounded by to_ns.                     *)
(***************************************************************************)
EXTENDS Integers, Sequences, SequencesExt, FiniteSets, FiniteSetsExt, Maps, TLC

CONSTANT Channels    \* stats.channels of a device

ASSUME ChannelsAssumption == Channels \in Nat \ {0}

Traffic == {"memory", "compute"}
kAllChannels == -1

\* llround of a time in nanoseconds: halves are rounded up
to_ns(t) == (t + 1) \div 2

NoTraffic ==
  [requests |-> 0, bytes |-> 0, queue_wait_ns |-> 0, max_queue_wait_ns |-> 0,
   queue_wait_samples |-> <<>>, service_intervals |-> <<>>]

NoDevice ==
  [traffic |-> [k \in Traffic |-> NoTraffic],
   per_channel |-> [ch \in 0..(Channels - 1) |->
                      [requests |-> 0, bytes |-> 0, service_intervals |-> <<>>]]]

\* requests is a function on the payloads that are known
NoMetrics ==
  [requests |-> <<>>, device |-> [d \in {"DRAM", "PIM"} |-> NoDevice],
   stall |-> [k \in Traffic |-> 0]]

-----------------------------------------------------------------------------
(* Requests                                                                *)

\* try_emplace: a payload that is already known keeps its entry
request_arrived(b, device, ptr, bytes, kind, now) ==
  [b EXCEPT !.requests =
     Emplaced(@, ptr, [device |-> device, bytes |-> bytes, kind |-> kind,
                       arrival_ns |-> to_ns(now), start_ns |-> -1,
                       channel |-> kAllChannels])]

Waited(t, wait) ==
  [t EXCEPT !.queue_wait_ns = @ + wait,
            !.max_queue_wait_ns = Max({@, wait}),
            !.queue_wait_samples = Append(@, wait)]

request_started(b, device, ptr, start, channel) ==
  IF ptr \notin DOMAIN b.requests THEN b
  ELSE LET r  == b.requests[ptr]
           at == Max({r.arrival_ns, to_ns(start)})
       IN IF r.device # device \/ r.start_ns >= 0 THEN b
          ELSE [b EXCEPT !.requests[ptr].start_ns = at,
                         !.requests[ptr].channel = channel,
                         !.device[device].traffic[r.kind] = Waited(@, at - r.arrival_ns)]

\* What one request adds to the totals of a channel
Serviced(ch, bytes, interval) ==
  [requests |-> ch.requests + 1, bytes |-> ch.bytes + bytes,
   service_intervals |-> Append(ch.service_intervals, interval)]

\* Mutant of ChannelShare: the remainder of the division is dropped.
ChannelShare_Truncated(bytes, id) == bytes \div Channels

\* The bytes of channel id: the first ones take the remainder
ChannelShare(bytes, id) ==
  bytes \div Channels + (IF id < bytes % Channels THEN 1 ELSE 0)

\* A request of one channel, or a transfer spread over all of them
add_channel_service(channels, request, interval) ==
  IF request.channel \in DOMAIN channels
  THEN [channels EXCEPT ![request.channel] = Serviced(@, request.bytes, interval)]
  ELSE [id \in DOMAIN channels |->
         Serviced(channels[id], ChannelShare(request.bytes, id), interval)]

\* What one request adds to the totals of its kind
Carried(t, bytes, interval) ==
  [t EXCEPT !.requests = @ + 1, !.bytes = @ + bytes,
            !.service_intervals = Append(@, interval)]

\* The entry is erased also when the request never started; only one that
\* did is counted.
Counted(b, device, r, interval) ==
  [b EXCEPT !.device[device].traffic[r.kind] = Carried(@, r.bytes, interval),
            !.device[device].per_channel = add_channel_service(@, r, interval)]

\* Mutant of request_completed: the entry stays.
request_completed_Keeps(b, device, ptr, end) ==
  IF ptr \notin DOMAIN b.requests THEN b
  ELSE LET r == b.requests[ptr]
       IN IF r.device # device \/ r.start_ns < 0 THEN b
          ELSE Counted(b, device, r, <<r.start_ns, Max({r.start_ns, to_ns(end)})>>)

request_completed(b, device, ptr, end) ==
  IF ptr \notin DOMAIN b.requests THEN b
  ELSE LET r == b.requests[ptr]
           c == [b EXCEPT !.requests = Forget(@, ptr)]
       IN IF r.device # device \/ r.start_ns < 0 THEN c
          ELSE Counted(c, device, r, <<r.start_ns, Max({r.start_ns, to_ns(end)})>>)

record_pim_resource_stall(b, start, end, kind) ==
  [b EXCEPT !.stall[kind] = @ + Max({0, to_ns(end) - to_ns(start)})]

-----------------------------------------------------------------------------
(* Intervals <<start, end>>                                                *)

NotEmpty(i) == i[2] > i[1]
Earlier(i, j) == i[1] < j[1] \/ (i[1] = j[1] /\ i[2] < j[2])

\* record_npu_interval and record_npu_compute_interval
record_npu_interval(intervals, start, end) ==
  IF to_ns(end) > to_ns(start) THEN Append(intervals, <<to_ns(start), to_ns(end)>>)
  ELSE intervals

\* Mutant of interval_union_ns: an interval inside the active one ends it.
interval_union_ns_Nested(intervals) ==
  LET s == SortSeq(SelectSeq(intervals, NotEmpty), Earlier)
      step(a, i) == IF i[1] > a.to THEN [total |-> a.total + a.to - a.from, from |-> i[1], to |-> i[2]]
                    ELSE [a EXCEPT !.to = i[2]]
      end == FoldLeft(step, [total |-> 0, from |-> s[1][1], to |-> s[1][2]], s)
  IN IF s = <<>> THEN 0 ELSE end.total + end.to - end.from

\* Empty ones dropped, sorted, and one pass that carries the active interval
interval_union_ns(intervals) ==
  LET s == SortSeq(SelectSeq(intervals, NotEmpty), Earlier)
      step(a, i) == IF i[1] > a.to THEN [total |-> a.total + a.to - a.from, from |-> i[1], to |-> i[2]]
                    ELSE [a EXCEPT !.to = Max({@, i[2]})]
      end == FoldLeft(step, [total |-> 0, from |-> s[1][1], to |-> s[1][2]], s)
  IN IF s = <<>> THEN 0 ELSE end.total + end.to - end.from

\* The lambda normalize: sorted, empty ones skipped, touching ones merged
normalize(intervals) ==
  LET step(m, i) ==
        IF ~NotEmpty(i) THEN m
        ELSE IF m = <<>> \/ i[1] > m[Len(m)][2] THEN Append(m, i)
        ELSE [m EXCEPT ![Len(m)] = <<@[1], Max({@[2], i[2]})>>]
  IN FoldLeft(step, <<>>, SortSeq(intervals, Earlier))

\* Mutant of interval_intersection_ns: the interval that ends last is left behind.
interval_intersection_ns_Swapped(lhs, rhs) ==
  LET l == normalize(lhs)  r == normalize(rhs)
      common(i, j) == Max({0, Min({l[i][2], r[j][2]}) - Max({l[i][1], r[j][1]})})
      From[i \in 1..(Len(l) + 1), j \in 1..(Len(r) + 1)] ==
        IF i > Len(l) \/ j > Len(r) THEN 0
        ELSE common(i, j) + (IF l[i][2] > r[j][2] THEN From[i + 1, j] ELSE From[i, j + 1])
  IN From[1, 1]

\* Two cursors; the one whose interval ends first moves on, the right one on a tie
interval_intersection_ns(lhs, rhs) ==
  LET l == normalize(lhs)  r == normalize(rhs)
      common(i, j) == Max({0, Min({l[i][2], r[j][2]}) - Max({l[i][1], r[j][1]})})
      From[i \in 1..(Len(l) + 1), j \in 1..(Len(r) + 1)] ==
        IF i > Len(l) \/ j > Len(r) THEN 0
        ELSE common(i, j) + (IF l[i][2] < r[j][2] THEN From[i + 1, j] ELSE From[i, j + 1])
  IN From[1, 1]

\* write_device_json: the device is busy when it serves either kind.
device_busy_ns(stats) ==
  interval_union_ns(stats.traffic["memory"].service_intervals
                    \o stats.traffic["compute"].service_intervals)

\* write_json.  pim_compute_intervals_ holds the compute intervals of the PIM.
npu_pim_overlap(npu, pim) ==
  LET overlap == interval_intersection_ns(npu, pim)
  IN [overlap_ns |-> overlap,
      union_ns |-> interval_union_ns(npu) + interval_union_ns(pim) - overlap]

-----------------------------------------------------------------------------
(* Parallel episodes: the target and the draft branch of a stage           *)

Unfinished == -1

\* A second launch under a known name is ignored.
begin_parallel_episode(episodes, id, launch) ==
  IF \E i \in DOMAIN episodes : episodes[i].id = id THEN episodes
  ELSE Append(episodes, [id |-> id, launch_ns |-> to_ns(launch),
                         npu_end_ns |-> Unfinished, pim_end_ns |-> Unfinished])

complete_parallel_npu_episode(episodes, id, end) ==
  [i \in DOMAIN episodes |->
    IF episodes[i].id # id THEN episodes[i]
    ELSE [episodes[i] EXCEPT !.npu_end_ns = Max({episodes[i].launch_ns, to_ns(end)})]]

complete_parallel_pim_episode(episodes, id, end) ==
  [i \in DOMAIN episodes |->
    IF episodes[i].id # id THEN episodes[i]
    ELSE [episodes[i] EXCEPT !.pim_end_ns = Max({episodes[i].launch_ns, to_ns(end)})]]

\* The sums of write_json over the episodes of which both branches ended:
\* the time of both branches, and of the one that ended last alone
Completed(e) == e.npu_end_ns >= e.launch_ns /\ e.pim_end_ns >= e.launch_ns
BothEnd(e) == Min({e.npu_end_ns, e.pim_end_ns})

\* Mutant of eei: a branch that has not ended counts as ended at the launch.
eei_Unfinished(episodes) ==
  LET end(e, x) == Max({e.launch_ns, x})
      step(a, e) ==
        [both |-> a.both + Min({end(e, e.npu_end_ns), end(e, e.pim_end_ns)}) - e.launch_ns,
         pim_only |-> a.pim_only + Max({0, e.pim_end_ns - end(e, e.npu_end_ns)}),
         npu_only |-> a.npu_only + Max({0, e.npu_end_ns - end(e, e.pim_end_ns)})]
  IN FoldLeft(step, [both |-> 0, pim_only |-> 0, npu_only |-> 0], episodes)

eei(episodes) ==
  LET step(a, e) ==
        IF ~Completed(e) THEN a
        ELSE [both |-> a.both + BothEnd(e) - e.launch_ns,
              pim_only |-> a.pim_only + Max({0, e.pim_end_ns - BothEnd(e)}),
              npu_only |-> a.npu_only + Max({0, e.npu_end_ns - BothEnd(e)})]
  IN FoldLeft(step, [both |-> 0, pim_only |-> 0, npu_only |-> 0], episodes)
=============================================================================
