------------------------------ MODULE PimTimed ------------------------------
(***************************************************************************)
(* The PIM wrapper in fast-layer mode with its clocks: simulated time, the *)
(* completion times of the analytical queues, the length of the thread's   *)
(* waits and of the mode change, and what the wrapper tells the metrics    *)
(* and the log on the way.  Every action is one of PimClient with its      *)
(* effect on these.  Payloads come from pools and are used again once      *)
(* their owner has released them.                                          *)
(*                                                                         *)
(* A request also has ptr, its payload, layer, the name of its row in the  *)
(* log, bytes, its size, and ns, the delay of a PIM macro, or data_length  *)
(* and bst_size, the size as it travels in the payload of a transfer.      *)
(* Times are half nanoseconds.                                             *)
(***************************************************************************)
EXTENDS PimClient, PerformanceMetrics, Logger, DramMacroModel

CONSTANTS
  ModeDelay,    \* mode_change_delay: [Class -> ns], to enter the mode
  ClockPeriod,  \* of the control clock, in ns (10000 in this mode)
  Period,       \* the polling period of fast-layer mode in ns (1000)
  MaxSleep,     \* the longest sleep in ns (1 ms)
  MaxTime       \* bound on simulated time, in half ns

\* The rows that finish_contention_wait writes: "unified_contention.", the
\* class that waited and a number.  No layer of a request begins like this.
ContentionRow(c, n) == <<"unified_contention", c, n>>
ContentionRows == {"unified_contention"} \X Class \X Nat

ASSUME TimedAssumption ==
  /\ FastLayerMode
  /\ ModeDelay \in [Class -> Nat] /\ {ClockPeriod, Period, MaxSleep} \subseteq Nat \ {0}
  /\ MaxTime \in Nat
  /\ \A r \in Requests :
       /\ r.macro /\ r.bytes \in Nat /\ r.layer \notin ContentionRows
       /\ IF r.cmd = "PIM" THEN r.ns \in Nat /\ r.bytes = 0
          ELSE r.data_length = data_length(r.bytes) /\ r.bst_size = bst_size(r.bytes)

VARIABLES
  now,         \* sc_time_stamp()
  edge,        \* who has not yet seen the clock edge of this instant
  until,       \* when the thread's current wait ends
  done_time,   \* [Class -> Seq(time)]: the times beside the entries of fast
  available,   \* [Class -> time]: fast_memory_available, fast_compute_available
  contention_wait_start,  \* payload -> time
  wait_count,  \* [Class -> Nat]: target_memory_wait_count, draft_compute_wait_count
  metrics, log,
  released     \* requests whose payload has gone back to its pool

bookVars == <<metrics, log, wait_count>>
timeVars == <<now, edge, until, done_time, available, contention_wait_start, bookVars, released>>
timedVars == <<clientVars, timeVars>>

\* The clock rises at the multiples of its period and falls half-way between.
Rising == now % (2 * ClockPeriod) = 0
Clocked == {"arbiter", "wrapper"}

TimedInit ==
  /\ ClientInit
  /\ now = 0 /\ edge = Clocked /\ until = 0
  /\ done_time = [c \in Class |-> <<>>] /\ available = [c \in Class |-> 0]
  /\ contention_wait_start = <<>>
  /\ metrics = NoMetrics /\ log = <<>> /\ wait_count = [c \in Class |-> 0]
  /\ released = {}

\* due counts the entries whose done_time has been reached.
DueExact == \A c \in Class : due[c] < Len(fast[c]) => done_time[c][due[c] + 1] > now

Bytes(r) == IF r.cmd = "PIM" THEN 0 ELSE macro_bytes(r)

-----------------------------------------------------------------------------
(* Time                                                                    *)

\* Time advances when nothing is left to do at this instant, and not past
\* the end of the thread's wait.
Tick ==
  /\ now < MaxTime /\ edge = {} /\ DueExact
  /\ ~DeltaPending /\ ~trace_done
  /\ pc = "done" \/ (pc \in {"sleep", "period", "switch"} /\ now < until)
  /\ now' = now + 1 /\ edge' = IF now' % ClockPeriod = 0 THEN Clocked ELSE {}
  /\ UNCHANGED <<clientVars, until, done_time, available, contention_wait_start,
                 bookVars, released>>

BecomesDue(c) ==
  /\ Elapse(c) /\ done_time[c][due[c] + 1] <= now
  /\ UNCHANGED <<sent, timeVars>>

-----------------------------------------------------------------------------
(* The clients, behind the arbiter                                        *)

\* On a falling edge the arbiter forwards one request, if it has one.  A pool
\* hands out a payload only when nobody holds it (MemPool).
Send ==
  /\ "arbiter" \in edge /\ ~Rising
  /\ Deliver
  /\ \A r \in sent' \ sent : \A q \in sent : q.ptr = r.ptr => q \in released
  /\ edge' = edge \ {"arbiter"}
  /\ UNCHANGED <<now, until, done_time, available, contention_wait_start, bookVars, released>>

\* On a rising edge it hands over the oldest response that an earlier edge
\* left; the NPU releases the payload.
Respond ==
  /\ "arbiter" \in edge /\ Rising
  /\ TakeResponse
  /\ released' = released \cup {Head(bw)}
  /\ edge' = edge \ {"arbiter"}
  /\ UNCHANGED <<now, until, done_time, available, contention_wait_start, bookVars>>

NothingToMove ==
  /\ "arbiter" \in edge /\ (Rising => bw = <<>>)
  /\ edge' = edge \ {"arbiter"}
  /\ UNCHANGED <<clientVars, now, until, done_time, available, contention_wait_start,
                 bookVars, released>>

OtherClient == (TakeTraceDone \/ Stop) /\ UNCHANGED timeVars

-----------------------------------------------------------------------------
(* The wrapper                                                             *)

Arrive ==
  /\ peq_cb
  /\ LET r == Head(peq)
     IN metrics' = request_arrived(metrics, "PIM", r.ptr, Bytes(r), ClassOf(r), now)
  /\ UNCHANGED <<sent, now, edge, until, done_time, available, contention_wait_start, log,
                 wait_count, released>>

\* What complete_fast_memory_requests and complete_fast_compute_requests tell
\* the metrics and the log: each entry that is due, with its exact time.
Reported(b, r, at) ==
  [metrics |-> request_completed(b.metrics, "PIM", r.ptr, at),
   log     |-> update_end_at(b.log, r.layer, at)]

complete_fast_requests(b, c) ==
  LET after[k \in 0..due[c]] ==
        IF k = 0 THEN b ELSE Reported(after[k - 1], fast[c][k], done_time[c][k])
  IN after[due[c]]

BooksAfter ==
  complete_fast_requests(
    complete_fast_requests([metrics |-> metrics, log |-> log], "memory"), "compute")
DoneAfter == [c \in Class |-> SubSeq(done_time[c], due[c] + 1, Len(done_time[c]))]

\* Mutant of NoLongerWaiting: the start of the wait is kept.
NoLongerWaiting_Keeps(r) == contention_wait_start

NoLongerWaiting(r) == Forget(contention_wait_start, r.ptr)

\* A wait that has taken time is reported for draft compute and for memory
\* requests of the NPU.
Contended(r) ==
  /\ r.ptr \in DOMAIN contention_wait_start /\ contention_wait_start[r.ptr] < now
  /\ r.cmd = "PIM" \/ r.src = "NPU"

\* The wait that ends now, as a stall in the metrics and a row of the log
finish_contention_wait(b, r) ==
  LET c == ClassOf(r)  start == contention_wait_start[r.ptr]  row == ContentionRow(c, wait_count[c])
  IN IF Contended(r)
     THEN [metrics |-> record_pim_resource_stall(b.metrics, start, now, c),
           log     |-> update_end_at(update_start_at(b.log, row, start), row, now)]
     ELSE b

WaitCounted(r) ==
  IF Contended(r) THEN [wait_count EXCEPT ![ClassOf(r)] = @ + 1] ELSE wait_count

\* A PIM command takes the delay in its address field and half a nanosecond.
Duration(r) == IF r.cmd = "PIM" THEN 2 * r.ns + 1
               ELSE 2 * estimate_ns(r.cmd, macro_bytes(r))

\* Mutant of actual_start: a macro does not wait for the ones before it.
actual_start_Now(c) == now

actual_start(c) == Max({now, available[c]})

\* The timed part of send_transaction, on the metrics, log and times so far
Start(r, m, l, d) ==
  LET c == ClassOf(r)  end == actual_start(c) + Duration(r)
  IN /\ done_time' = [d EXCEPT ![c] = Append(@, end)]
     /\ available' = [available EXCEPT ![c] = end]
     /\ metrics' = request_started(m, "PIM", r.ptr, actual_start(c), kAllChannels)
     /\ log' = update_start_at(l, r.layer, actual_start(c))

TimedIdle ==
  /\ DueExact /\ Idle
  /\ metrics' = BooksAfter.metrics /\ log' = BooksAfter.log /\ done_time' = DoneAfter
  /\ UNCHANGED <<sent, now, edge, until, available, contention_wait_start, wait_count, released>>

TimedBlock ==
  /\ DueExact /\ Block
  /\ metrics' = BooksAfter.metrics /\ log' = BooksAfter.log /\ done_time' = DoneAfter
  /\ LET p == Head(pending_queue).ptr
     IN contention_wait_start' = Emplaced(contention_wait_start, p, now)
  /\ UNCHANGED <<sent, now, edge, until, available, wait_count, released>>

TimedDispatch ==
  /\ DueExact /\ Dispatch
  /\ LET r == Head(pending_queue)  b == finish_contention_wait(BooksAfter, r)
     IN /\ contention_wait_start' = NoLongerWaiting(r) /\ wait_count' = WaitCounted(r)
        /\ Start(r, b.metrics, b.log, DoneAfter)
  /\ UNCHANGED <<sent, now, edge, until, released>>

TimedBeginModeTransition ==
  /\ DueExact /\ BeginModeTransition
  /\ LET r == Head(pending_queue)  b == finish_contention_wait(BooksAfter, r)
     IN /\ contention_wait_start' = NoLongerWaiting(r) /\ wait_count' = WaitCounted(r)
        /\ metrics' = b.metrics /\ log' = b.log
        /\ until' = now + 2 * ModeDelay[ClassOf(r)]
  /\ done_time' = DoneAfter
  /\ UNCHANGED <<sent, now, edge, available, released>>

TimedEndModeTransition ==
  /\ now = until /\ DueExact /\ EndModeTransition
  /\ Start(Head(switching), metrics, log, done_time)
  /\ UNCHANGED <<sent, now, edge, until, contention_wait_start, wait_count, released>>

\* Mutant of NextWake: only the memory queue is looked at.
NextWake_MemoryOnly ==
  Min({now + 2 * MaxSleep} \cup {done_time[c][1] : c \in {d \in {"memory"} : fast[d] # <<>>}})

\* The sleep ends at the first completion time, or after the longest sleep.
NextWake ==
  Min({now + 2 * MaxSleep} \cup {done_time[c][1] : c \in {d \in Class : fast[d] # <<>>}})

TimedEndIteration ==
  /\ EndIteration
  /\ until' = IF pc' = "sleep" THEN NextWake
              ELSE IF pc' = "period" THEN now + 2 * Period ELSE until
  /\ UNCHANGED <<sent, now, edge, done_time, available, contention_wait_start, bookVars, released>>

TimedTimeout ==
  /\ now = until /\ DueExact /\ Timeout
  /\ UNCHANGED <<sent, timeVars>>

DeliverEvent ==
  /\ DeliverPendingEvent \/ DeliverResourceEvent
  /\ UNCHANGED <<sent, timeVars>>

\* Each edge retires one request at most; what it sends to the arbiter is for
\* the next edge.  complete_write_request releases the payload of a host write.
ClockEdge ==
  /\ edge = {"wrapper"} /\ edge' = {} /\ Yielded /\ DueExact
  /\ \/ /\ Rising /\ clock_posedge
        /\ released' = released \cup {r \in {Head(completed["memory"])} : ~Answered(r)}
     \/ ~Rising /\ clock_negedge /\ UNCHANGED released
     \/ /\ completed[IF Rising THEN "memory" ELSE "compute"] = <<>>
        /\ UNCHANGED <<vars, released>>
  /\ UNCHANGED <<sent, now, until, done_time, available, contention_wait_start, bookVars>>

TimedNext ==
  \/ Tick \/ (\E c \in Class : BecomesDue(c))
  \/ Send \/ Respond \/ NothingToMove \/ OtherClient
  \/ Arrive \/ TimedIdle \/ TimedBlock \/ TimedDispatch
  \/ TimedBeginModeTransition \/ TimedEndModeTransition
  \/ TimedEndIteration \/ TimedTimeout \/ DeliverEvent \/ ClockEdge

TimedSpec == TimedInit /\ [][TimedNext]_timedVars

-----------------------------------------------------------------------------
(* Properties                                                              *)

InQueues(S) == UNION {ToSet(s) : s \in S}
OnDevice == InQueues({fast[c] : c \in Class})
Known == OnDevice \cup ToSet(pending_queue) \cup ToSet(switching)
Gone == sent \ (Known \cup ToSet(peq))

PimStats == metrics.device["PIM"]
SumBytes(S) == SumFunction([r \in S |-> r.bytes])

\* The books of the metrics are those of the device: requests_ has an entry
\* for exactly the payloads of the requests between arrival and completion,
\* each with the size and kind of the request that has the payload now, and
\* marked as started exactly if the device has it.  Nothing stays behind for
\* the next user of a payload, and what has left is counted once, with all
\* its bytes, in the totals and over the channels
\* (performance_metrics.cpp:33-82, 387-410).
BooksExact ==
  /\ DOMAIN metrics.requests = {r.ptr : r \in Known}
  /\ \A r \in Known :
       LET e == metrics.requests[r.ptr]
       IN /\ e.kind = ClassOf(r) /\ e.bytes = r.bytes
          /\ e.start_ns >= 0 <=> r \in OnDevice
  /\ \A c \in Class :
       LET gone == {r \in Gone : ClassOf(r) = c}
       IN /\ PimStats.traffic[c].requests = Cardinality(gone)
          /\ PimStats.traffic[c].bytes = SumBytes(gone)
  /\ SumFunction([id \in DOMAIN PimStats.per_channel |-> PimStats.per_channel[id].bytes])
       = SumBytes(Gone)

Service(c) == PimStats.traffic[c].service_intervals
Apart(i, j) == i[2] <= j[1] \/ j[2] <= i[1]
Complete(rows) == {l \in rows : log[l].end # NoCycle}
Bar(l) == <<log[l].start, log[l].end>>

\* Macros of one class are served one after the other, and on a unified
\* device no compute service overlaps a memory service in time, although the
\* class is freed on a clock edge, the mode change lies in between and the
\* completion is reported with a time that is past.  So are the bars of the
\* layers in the cycle log, which would otherwise "all appear to overlap", and
\* among themselves the bars of the waits, which the log has for the same time:
\* only the head of the queue waits, and no two waits share a row
\* (pim_wrapper.cpp:229-247, 260-273, 286-297).
ServiceExclusive ==
  /\ \A c \in Class : \A i, j \in DOMAIN Service(c) :
       i # j => Apart(Service(c)[i], Service(c)[j])
  /\ Unified => \A i \in ToSet(Service("memory")), j \in ToSet(Service("compute")) : Apart(i, j)
  /\ Unified => \A rows \in {DOMAIN log \ ContentionRows, DOMAIN log \cap ContentionRows} :
       \A k, l \in Complete(rows) : k # l => Apart(Bar(k), Bar(l))
  /\ \A i \in ToSet(Service("memory") \o Service("compute")) : i[2] <= to_ns(now)

\* "A unified-memory resource conflict is a subset of normal queue wait"
\* (performance_metrics.h:34): the stalls that finish_contention_wait reports
\* never exceed the queue waits, also while the request whose stall was
\* reported waits for the mode change and has not started.
StallWithinWait ==
  \A c \in Class :
    metrics.stall[c] <=
      PimStats.traffic[c].queue_wait_ns
      + SumFunction([r \in {q \in ToSet(switching) : ClassOf(q) = c} |->
                       to_ns(now) - metrics.requests[r.ptr].arrival_ns])

\* A sleeping thread never sleeps past a completion time, and one that polls
\* or changes the mode is late by no more than that wait: responses leave at
\* the time the model has computed, not at the end of the longest sleep
\* (pim_wrapper.cpp:215-225).
PromptCompletion ==
  \A c \in Class : done_time[c] # <<>> =>
    now <= done_time[c][1] + (IF pc = "sleep" THEN 0
                              ELSE 2 * Max({Period, ModeDelay["memory"], ModeDelay["compute"]}))
=============================================================================
