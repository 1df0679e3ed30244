-------------------------- MODULE PimTimed_proofs ---------------------------
(***************************************************************************)
(* Proofs about the PIM wrapper with its clocks.  Every step of it is a    *)
(* step of the wrapper without them, so that all that PimWrapper_proofs    *)
(* shows holds here too; completions are picked up in time; and what the   *)
(* metrics and the log say of the requests is true.                        *)
(***************************************************************************)
EXTENDS PimTimed, PimWrapper_proofs

-----------------------------------------------------------------------------
(* The clocks are superposed on the wrapper                                *)

\* The clocks, the metrics and the log only restrict when a step of the
\* wrapper or of its clients is taken.
LEMMA TimedStep ==
  ASSUME [TimedNext]_timedVars
  PROVE  [ClientNext]_clientVars
<1>1. CASE Tick \/ NothingToMove \/ UNCHANGED timedVars
  BY <1>1 DEF Tick, NothingToMove, timedVars
<1>2. ASSUME NEW c \in Class, BecomesDue(c) PROVE ClientNext
  BY <1>2 DEF BecomesDue, ClientNext, Step, Timed
<1>3. CASE Send \/ Respond \/ OtherClient
  BY <1>3 DEF Send, Respond, OtherClient, ClientNext, Clients
<1>4. CASE Arrive
  BY <1>4 DEF Arrive, ClientNext, Step, Delta
<1>5. CASE TimedIdle \/ TimedBlock \/ TimedDispatch \/ TimedBeginModeTransition \/ TimedEndIteration
  BY <1>5 DEF TimedIdle, TimedBlock, TimedDispatch, TimedBeginModeTransition, TimedEndIteration,
     ClientNext, Step, Run
<1>6. CASE TimedEndModeTransition \/ TimedTimeout
  BY <1>6 DEF TimedEndModeTransition, TimedTimeout, ClientNext, Step, Timed
<1>7. CASE DeliverEvent
  BY <1>7 DEF DeliverEvent, ClientNext, Step, Delta
<1>8. CASE ClockEdge
  <2>1. clock_posedge \/ clock_negedge \/ UNCHANGED vars
    BY <1>8 DEF ClockEdge
  <2>2. UNCHANGED sent
    BY <1>8 DEF ClockEdge
  <2> QED
    BY <2>1, <2>2 DEF ClientNext, Step, Timed, clientVars
<1> QED
  BY <1>1, <1>2, <1>3, <1>4, <1>5, <1>6, <1>7, <1>8 DEF TimedNext

\* The wrapper with its clocks implements the wrapper without them.
THEOREM TimedImplementsClient == TimedSpec => ClientSpec
<1>1. TimedInit => ClientInit
  BY DEF TimedInit
<1>2. [TimedNext]_timedVars => [ClientNext]_clientVars
  BY TimedStep
<1> QED
  BY <1>1, <1>2, PTL DEF TimedSpec, ClientSpec

-----------------------------------------------------------------------------
(* Completions are picked up in time                                       *)

\* The times are natural numbers, and each entry of an analytical queue has one.
Clocks ==
  /\ now \in Nat /\ until \in Nat
  /\ done_time \in [Class -> Seq(Nat)] /\ available \in [Class -> Nat]
  /\ \A c \in Class : Len(done_time[c]) = Len(fast[c])

\* No completion time lies more than d before t.
Within(t, d) == \A c \in Class : done_time[c] # <<>> => t <= done_time[c][1] + d

\* How far the thread may be behind the completion times, by where it is.
Prompt ==
  /\ pc \in {"sleep", "period", "switch"} => now <= until
  /\ pc = "sleep" => Within(until, 0)
  /\ pc = "period" => Within(until, 2 * Period)
  /\ pc \in {"tick", "drain"} => Within(now, 0)
  /\ pc = "run" => Within(now, 2 * Period)

\* The clients stop when all their work is done, and the thread ends only then.
Quiet ==
  /\ pc = "done" => ~active
  /\ ~active => /\ sent = Requests /\ peq = <<>> /\ pending_queue = <<>> /\ switching = <<>>
                /\ \A c \in Class : fast[c] = <<>>

TimeInv == IInv /\ NothingDue /\ Clocks /\ Prompt /\ Quiet

\* ceil_div of the analytical model stays in the natural numbers.
LEMMA CeilDivNat ==
  ASSUME NEW a \in Nat, NEW b \in Nat \ {0}
  PROVE  CeilDiv(a, b) \in Nat /\ (a > 0 => CeilDiv(a, b) > 0)
BY DEF CeilDiv

\* A product of natural numbers is one.
LEMMA ProductNat ==
  ASSUME NEW a \in Nat, NEW b \in Nat
  PROVE  a * b \in Nat /\ (a > 0 /\ b > 0 => a * b > 0)
OBVIOUS

\* Division with remainder.
LEMMA Division ==
  ASSUME NEW a \in Nat, NEW b \in Nat \ {0}
  PROVE  a \div b \in Nat /\ a % b \in 0..(b - 1) /\ a = b * (a \div b) + (a % b)
<1> DEFINE q == a \div b  r == a % b
<1>1. q \in Int /\ r \in 0..(b - 1) /\ a = b * q + r
  OBVIOUS
<1> HIDE DEF q, r
<1>2. ~(q <= -1)
  <2> SUFFICES ASSUME q <= -1 PROVE FALSE
    OBVIOUS
  <2>1. b * q <= -b
    BY <1>1
  <2> QED
    BY <1>1, <2>1
<1>3. q \in Nat /\ r \in 0..(b - 1) /\ a = b * q + r
  BY <1>1, <1>2
<1> QED
  BY <1>3 DEF q, r

\* The two fields of a payload give its size back.
LEMMA FieldsGiveSize ==
  ASSUME NEW r \in Requests, r.cmd # "PIM"
  PROVE  r.data_length \in Nat /\ r.bst_size \in Nat /\ macro_bytes(r) = r.bytes
<1> DEFINE b == r.bytes
<1>1. /\ b \in Nat /\ Word \in Nat \ {0}
      /\ r.data_length = b % Word /\ r.bst_size = b \div Word
  BY TimedAssumption, MacroAssumption DEF data_length, bst_size
<1> DEFINE q == b \div Word  t == b % Word
<1> HIDE DEF b
<1>2. q \in Nat /\ t \in 0..(Word - 1) /\ b = Word * q + t
  BY <1>1, Division
<1>3. r.data_length = t /\ r.bst_size = q
  BY <1>1
<1> HIDE DEF q, t
<1>4. t \in Nat /\ q * Word + t = b
  BY <1>1, <1>2
<1> QED
  BY <1>2, <1>3, <1>4 DEF macro_bytes, b

\* A macro takes a natural number of half nanoseconds.
LEMMA DurationNat ==
  ASSUME NEW r \in Requests
  PROVE  Duration(r) \in Nat
<1>0. r.cmd \in {"PIM", "READ", "WRITE"}
  BY RequestsAssumption
<1>1. CASE r.cmd = "PIM"
  <2>1. r.ns \in Nat
    BY <1>1, TimedAssumption
  <2> QED
    BY <1>1, <2>1 DEF Duration
<1>2. CASE r.cmd # "PIM"
  <2>1. /\ r.data_length \in Nat /\ r.bst_size \in Nat /\ Word \in Nat
        /\ r.cmd \in {"READ", "WRITE"}
    BY <1>0, <1>2, FieldsGiveSize, MacroAssumption
  <2> DEFINE b == macro_bytes(r)
  <2>2. b \in Nat
    BY <2>1, ProductNat DEF macro_bytes
  <2> HIDE DEF b
  <2>3. estimate_ns(r.cmd, b) \in Nat
    <3> DEFINE q == CeilDiv(b, RequestBytes)  t == TrainSlope(r.cmd)
               f == FirstTicks[r.cmd]  den == (TrainRequests - 1) * EffNum
    <3>1. CASE b = 0
      BY <3>1 DEF estimate_ns
    <3>2. CASE b # 0 /\ Backend = "analytic"
      <4>1. estimate_ns(r.cmd, b) = FixedLatency + CeilDiv(b, Bandwidth)
        BY <3>2 DEF estimate_ns
      <4>2. Bandwidth \in Nat \ {0} /\ FixedLatency \in Nat
        BY MacroAssumption
      <4>3. CeilDiv(b, Bandwidth) \in Nat
        BY <4>2, <2>2, CeilDivNat
      <4> QED
        BY <4>1, <4>2, <4>3
    <3>3. CASE b # 0 /\ Backend # "analytic"
      <4>1. q \in Nat /\ q > 0
        BY <3>3, <2>2, CeilDivNat, MacroAssumption
      <4>2. f \in Nat /\ t \in Nat
        BY <2>1, MacroAssumption DEF TrainSlope
      <4>3. den \in Nat /\ den > 0
        <5>1. TrainRequests - 1 \in Nat /\ TrainRequests - 1 > 0 /\ EffNum \in Nat /\ EffNum > 0
          BY MacroAssumption
        <5> QED
          BY <5>1, ProductNat
      <4> HIDE DEF q, t, f, den
      <4>4. f * den \in Nat /\ ((q - 1) * t) * EffDen \in Nat
        <5>1. q - 1 \in Nat /\ EffDen \in Nat
          BY <4>1, MacroAssumption
        <5> QED
          BY <5>1, <4>2, <4>3, ProductNat
      <4>5. f * den + ((q - 1) * t) * EffDen \in Nat
        BY <4>4
      <4> DEFINE num == f * den + ((q - 1) * t) * EffDen
      <4> HIDE DEF num
      <4>6. num * TickNum \in Nat /\ den * TickDen \in Nat \ {0}
        BY <4>3, <4>5, ProductNat, MacroAssumption DEF num
      <4>7. CeilDiv(num * TickNum, den * TickDen) \in Nat
        BY <4>6, CeilDivNat
      <4>8. estimate_ns(r.cmd, b) = FixedLatency + CeilDiv(num * TickNum, den * TickDen)
        BY <3>3 DEF estimate_ns, num, den, q, f, t
      <4> QED
        BY <4>7, <4>8, MacroAssumption
    <3> QED
      BY <3>1, <3>2, <3>3
  <2> QED
    BY <1>2, <2>3 DEF Duration, b
<1> QED
  BY <1>1, <1>2

\* The device is empty while the mode changes and after the thread's end.
LEMMA Vacant ==
  ASSUME WiredFor, TimeInv, pc \in {"switch", "done"}, NEW c \in Class
  PROVE  done_time[c] = <<>>
<1>0. TypeOK /\ WellFormed /\ ModeExclusive
  BY DEF TimeInv, IInv
<1>1. CASE pc = "done"
  BY <1>1, EmptySeq DEF TimeInv, Quiet, Clocks
<1>2. CASE pc = "switch" /\ Unified
  <2>1. Len(fast[c]) \in Nat /\ Len(bridge[c]) \in Nat /\ Len(completed[c]) \in Nat
    BY <1>0, SMTT(60) DEF TypeOK
  <2>2. CountOf(c, bridge_done) \in Nat
    BY <1>0, CountFinite DEF TypeOK
  <2>3. ~(InFlight(c) > 0)
    BY <1>0, <1>2 DEF ModeExclusive
  <2>4. Len(fast[c]) = 0
    <3> DEFINE f == Len(fast[c])  b == Len(bridge[c])  e == Len(completed[c])
               n == CountOf(c, bridge_done)
    <3>1. ~(f + b + n + e > 0)
      BY <2>3 DEF InFlight
    <3> HIDE DEF f, b, e, n
    <3>2. f \in Nat /\ b \in Nat /\ n \in Nat /\ e \in Nat
      BY <2>1, <2>2 DEF f, b, e, n
    <3>3. f = 0
      BY <3>1, <3>2
    <3> QED
      BY <3>3 DEF f
  <2> QED
    BY <2>4, EmptySeq DEF TimeInv, Clocks
<1>3. CASE pc = "switch" /\ ~Unified
  <2>1. Head(switching) \in Requests
    <3>1. switching \in Seq(Requests) /\ Len(switching) = 1
      BY <1>0, <1>3 DEF TypeOK, WellFormed
    <3> QED
      BY <3>1, HeadTailProperties
  <2>2. pim_mode = "memory"
    <3>1. ClassOf(Head(switching)) = "compute"
      BY <1>3, <2>1 DEF WiredFor
    <3>2. ClassOf(Head(switching)) # pim_mode /\ pim_mode \in Class
      BY <1>0, <1>3 DEF TypeOK, WellFormed
    <3> QED
      BY <3>1, <3>2 DEF Class
  <2>3. fast[c] = <<>>
    BY <1>3, <2>2 DEF TimeInv, NothingDue
  <2> QED
    BY <2>3, EmptySeq DEF TimeInv, Clocks
<1> QED
  BY <1>1, <1>2, <1>3

\* What the thread leaves of the completion times when it has collected what is due.
LEMMA Remaining ==
  ASSUME TimeInv, DueExact
  PROVE  /\ DoneAfter \in [Class -> Seq(Nat)]
         /\ \A c \in Class : /\ Len(DoneAfter[c]) = Len(Undue(c))
                             /\ DoneAfter[c] # <<>> => now <= DoneAfter[c][1]
<1>1. ASSUME NEW c \in Class
      PROVE  /\ DoneAfter[c] \in Seq(Nat) /\ Len(DoneAfter[c]) = Len(Undue(c))
             /\ DoneAfter[c] # <<>> => now <= DoneAfter[c][1]
  <2> DEFINE s == done_time[c]  d == due[c]  n == Len(s)
  <2>1. /\ s \in Seq(Nat) /\ n \in Nat /\ n = Len(fast[c])
        /\ d \in Nat /\ d <= n /\ now \in Nat
    BY <1>1 DEF TimeInv, IInv, TypeOK, WellFormed, Clocks
  <2>2. Len(Undue(c)) = n - d
    BY <1>1, <2>1, UndueFacts DEF TimeInv, IInv
  <2>3. /\ SubSeq(s, d + 1, n) \in Seq(Nat) /\ Len(SubSeq(s, d + 1, n)) = n - d
    <3>1. d \in 0..Len(s)
      BY <2>1
    <3> HIDE DEF d, s
    <3> QED
      BY <2>1, <3>1, CutSeq
  <2>4. DoneAfter[c] = SubSeq(s, d + 1, n)
    BY <1>1 DEF DoneAfter
  <2>5. d < n => s[d + 1] \in Nat /\ s[d + 1] > now
    BY <1>1, <2>1 DEF DueExact
  <2>6. d < n => SubSeq(s, d + 1, n)[1] = s[d + 1]
    <3>1. \A i \in (d + 1)..n : s[i] \in Nat
      BY <2>1
    <3> HIDE DEF n, d
    <3> QED
      BY <2>1, <3>1, SubSeqProperties
  <2>7. SubSeq(s, d + 1, n) # <<>> => d < n
    <3> HIDE DEF n, d
    <3> QED
      BY <2>1, <2>3, EmptySeq
  <2>8. SubSeq(s, d + 1, n) # <<>> => now <= SubSeq(s, d + 1, n)[1]
    <3> HIDE DEF s, d, n
    <3> QED
      BY <2>1, <2>5, <2>6, <2>7
  <2> HIDE DEF s, d, n
  <2> QED
    BY <2>2, <2>3, <2>4, <2>8
<1> QED
  BY <1>1 DEF DoneAfter

\* A macro that starts is done no earlier than now.
LEMMA Starting ==
  ASSUME Clocks, NEW r \in Requests, NEW m, NEW l, NEW d \in [Class -> Seq(Nat)], Start(r, m, l, d)
  PROVE  /\ done_time' \in [Class -> Seq(Nat)] /\ available' \in [Class -> Nat]
         /\ \A c \in Class :
              /\ Len(done_time'[c]) = IF c = ClassOf(r) THEN Len(d[c]) + 1 ELSE Len(d[c])
              /\ (d[c] # <<>> => now <= d[c][1])
                   => (done_time'[c] # <<>> => now <= done_time'[c][1])
<1> DEFINE k == ClassOf(r)  end == actual_start(k) + Duration(r)
<1>1. k \in Class /\ now \in Nat /\ available[k] \in Nat
  BY DEF ClassOf, Class, Clocks
<1>2. actual_start(k) \in Nat /\ actual_start(k) >= now
  <2>1. \E x \in {now, available[k]} : \A y \in {now, available[k]} : x >= y
    BY <1>1
  <2>2. /\ actual_start(k) \in {now, available[k]}
        /\ \A y \in {now, available[k]} : actual_start(k) >= y
    BY <2>1 DEF actual_start, Max
  <2> QED
    BY <1>1, <2>2
<1>3. end \in Nat /\ now <= end
  BY <1>1, <1>2, DurationNat
<1>4. done_time' = [d EXCEPT ![k] = Append(@, end)] /\ available' = [available EXCEPT ![k] = end]
  BY DEF Start
<1> HIDE DEF end, k
<1>5. available' \in [Class -> Nat]
  BY <1>1, <1>3, <1>4 DEF Clocks
<1>6. ASSUME NEW c \in Class
      PROVE  /\ done_time'[c] \in Seq(Nat)
             /\ Len(done_time'[c]) = IF c = k THEN Len(d[c]) + 1 ELSE Len(d[c])
             /\ (d[c] # <<>> => now <= d[c][1])
                  => (done_time'[c] # <<>> => now <= done_time'[c][1])
  <2>1. CASE c = k
    <3>1. done_time'[c] = Append(d[c], end) /\ d[c] \in Seq(Nat)
      BY <1>1, <1>4, <2>1
    <3>2. d[c] # <<>> => Append(d[c], end)[1] = d[c][1]
      BY <3>1, <1>3
    <3>3. d[c] = <<>> => Append(d[c], end)[1] = end
      BY <3>1, <1>3
    <3> QED
      BY <2>1, <3>1, <3>2, <3>3, <1>3
  <2>2. CASE c # k
    BY <1>4, <2>2
  <2> QED
    BY <2>1, <2>2
<1> QED
  BY <1>4, <1>5, <1>6 DEF k

\* A step that leaves the thread, the times and the queues alone.
LEMMA PromptSame ==
  ASSUME Clocks, Prompt, UNCHANGED <<pc, now, until, done_time, available, fast>>
  PROVE  Clocks' /\ Prompt'
BY DEF Clocks, Prompt, Within

\* The thread wakes up.
LEMMA PromptWake ==
  ASSUME TimeInv, UNCHANGED <<now, until, done_time, available, fast>>,
         pc \in {"sleep", "period"}, pc' = "run"
  PROVE  Clocks' /\ Prompt'
<1>1. now \in Nat /\ until \in Nat /\ now <= until /\ Period \in Nat /\ done_time \in [Class -> Seq(Nat)]
  BY TimedAssumption DEF TimeInv, Clocks, Prompt
<1>2. Within(now, 2 * Period)
  <2>1. SUFFICES ASSUME NEW c \in Class, done_time[c] # <<>>
                 PROVE  now <= done_time[c][1] + 2 * Period
    BY DEF Within
  <2> DEFINE t == done_time[c][1]
  <2>2. t \in Nat
    <3>1. done_time[c] \in Seq(Nat) /\ done_time[c] # <<>>
      BY <1>1, <2>1
    <3> QED
      BY <3>1
  <2>3. until <= t + 2 * Period
    <3>1. CASE pc = "sleep"
      <4>1. until <= t + 0
        BY <3>1, <2>1 DEF TimeInv, Prompt, Within
      <4> HIDE DEF t
      <4> QED
        BY <4>1, <2>2, <1>1
    <3>2. CASE pc = "period"
      BY <3>2, <2>1 DEF TimeInv, Prompt, Within
    <3> QED
      BY <3>1, <3>2
  <2> HIDE DEF t
  <2>4. now <= t + 2 * Period
    BY <1>1, <2>2, <2>3
  <2> QED
    BY <2>4 DEF t
<1>3. Within(now, 2 * Period)'
  BY <1>2 DEF Within
<1> QED
  BY <1>3 DEF TimeInv, Clocks, Prompt

\* Time advances by one, and not past the end of a wait.
LEMMA PromptTick ==
  ASSUME WiredFor, TimeInv, Tick
  PROVE  Clocks' /\ Prompt'
<1>1. /\ now' = now + 1 /\ now \in Nat /\ until \in Nat
      /\ UNCHANGED <<pc, until, done_time, available, fast>>
      /\ pc = "done" \/ (pc \in {"sleep", "period", "switch"} /\ now < until)
  BY DEF Tick, TimeInv, Clocks, clientVars, vars, threadVars, deviceVars
<1>2. Clocks'
  BY <1>1 DEF TimeInv, Clocks
<1>3. Within(until, 0)' <=> Within(until, 0)
  BY <1>1 DEF Within
<1>4. Within(until, 2 * Period)' <=> Within(until, 2 * Period)
  BY <1>1 DEF Within
<1> QED
  BY <1>1, <1>2, <1>3, <1>4 DEF TimeInv, Prompt

\* The thread computes how long it waits.
LEMMA PromptEnd ==
  ASSUME TimeInv, TimedEndIteration
  PROVE  Clocks' /\ Prompt'
<1>1. /\ pc \in {"tick", "drain"} /\ pc' \in {"done", "sleep", "period"}
      /\ UNCHANGED <<now, done_time, available, fast>>
      /\ until' = IF pc' = "sleep" THEN NextWake ELSE IF pc' = "period" THEN now + 2 * Period ELSE until
  BY DEF TimedEndIteration, EndIteration, deviceVars
<1>2. /\ now \in Nat /\ until \in Nat /\ Period \in Nat /\ MaxSleep \in Nat
      /\ done_time \in [Class -> Seq(Nat)] /\ \A c \in Class : Len(done_time[c]) = Len(fast[c])
      /\ \A c \in Class : fast[c] \in Seq(Requests)
  BY TimedAssumption DEF TimeInv, Clocks, IInv, TypeOK
<1>3. \A c \in Class : done_time[c] # <<>> => done_time[c][1] \in Nat /\ now <= done_time[c][1]
  <2>1. SUFFICES ASSUME NEW c \in Class, done_time[c] # <<>>
                 PROVE  done_time[c][1] \in Nat /\ now <= done_time[c][1]
    OBVIOUS
  <2>2. done_time[c][1] \in Nat
    <3>1. done_time[c] \in Seq(Nat)
      BY <1>2, <2>1
    <3> QED
      BY <3>1, <2>1
  <2>3. now <= done_time[c][1] + 0
    BY <1>1, <2>1 DEF TimeInv, Prompt, Within
  <2> QED
    BY <2>2, <2>3, <1>2
<1>4. CASE pc' = "sleep"
  <2> DEFINE S == {now + 2 * MaxSleep} \cup {done_time[c][1] : c \in {d \in Class : fast[d] # <<>>}}
  <2>1. \A c \in Class : fast[c] # <<>> <=> done_time[c] # <<>>
    BY <1>2, EmptySeq
  <2>2. \A x \in S : x \in Nat /\ now <= x
    BY <1>2, <1>3, <2>1
  <2>3. \E x \in S : \A y \in S : x <= y
    <3> DEFINE L == now + 2 * MaxSleep
               M == IF fast["memory"] # <<>> THEN done_time["memory"][1] ELSE L
               K == IF fast["compute"] # <<>> THEN done_time["compute"][1] ELSE L
    <3>1. S = {L, M, K}
      BY DEF Class
    <3>2. L \in Nat /\ M \in Nat /\ K \in Nat
      BY <2>2, <3>1
    <3> HIDE DEF L, M, K, S
    <3>3. \E x \in {L, M, K} : \A y \in {L, M, K} : x <= y
      BY <3>2
    <3> QED
      BY <3>1, <3>3
  <2> HIDE DEF S
  <2>4. NextWake \in S /\ \A y \in S : NextWake <= y
    <3>1. NextWake = CHOOSE x \in S : \A y \in S : x <= y
      BY DEF NextWake, S, Min
    <3> QED
      BY <3>1, <2>3
  <2>5. until' \in Nat /\ now <= until'
    BY <1>1, <1>4, <2>2, <2>4
  <2>6. \A c \in Class : done_time[c] # <<>> => done_time[c][1] \in S
    BY <2>1 DEF S
  <2>7. Within(until, 0)'
    <3>1. SUFFICES ASSUME NEW c \in Class, done_time[c] # <<>>
                   PROVE  until' <= done_time[c][1] + 0
      BY <1>1 DEF Within
    <3>2. until' <= done_time[c][1]
      BY <3>1, <1>1, <1>4, <2>4, <2>6
    <3> QED
      BY <3>1, <3>2, <2>5, <1>3
  <2>8. now' <= until'
    BY <2>5, <1>1
  <2> QED
    BY <1>1, <1>2, <1>4, <2>5, <2>7, <2>8 DEF TimeInv, Clocks, Prompt
<1>5. CASE pc' = "period"
  <2>1. until' = now + 2 * Period
    BY <1>1, <1>5
  <2>2. Within(until, 2 * Period)'
    <3>1. SUFFICES ASSUME NEW c \in Class, done_time[c] # <<>>
                   PROVE  until' <= done_time[c][1] + 2 * Period
      BY <1>1 DEF Within
    <3> QED
      BY <3>1, <2>1, <1>2, <1>3
  <2>3. until' \in Nat /\ now' <= until'
    BY <1>1, <1>2, <2>1
  <2> QED
    BY <1>1, <1>2, <1>5, <2>2, <2>3 DEF TimeInv, Clocks, Prompt
<1>6. CASE pc' = "done"
  BY <1>1, <1>2, <1>6 DEF TimeInv, Clocks, Prompt
<1> QED
  BY <1>1, <1>4, <1>5, <1>6

\* The thread collects what is due and dispatches nothing.
LEMMA PromptCollect ==
  ASSUME TimeInv, TimedIdle \/ TimedBlock \/ TimedBeginModeTransition
  PROVE  Clocks' /\ Prompt'
<1>1. /\ DueExact /\ done_time' = DoneAfter /\ fast' = [c \in Class |-> Undue(c)]
      /\ UNCHANGED <<now, available>>
  BY DEF TimedIdle, TimedBlock, TimedBeginModeTransition, Idle, Block, BeginModeTransition
<1>2. now \in Nat /\ until \in Nat /\ available \in [Class -> Nat]
  BY DEF TimeInv, Clocks
<1>3. /\ DoneAfter \in [Class -> Seq(Nat)]
      /\ \A c \in Class : /\ Len(DoneAfter[c]) = Len(Undue(c))
                          /\ DoneAfter[c] # <<>> => now <= DoneAfter[c][1]
  BY <1>1, Remaining
<1>4. \/ pc' = "tick" /\ until' = until
      \/ pc' = "switch" /\ until' \in Nat /\ now <= until'
  <2>1. CASE TimedIdle \/ TimedBlock
    BY <2>1 DEF TimedIdle, TimedBlock, Idle, Block
  <2>2. CASE TimedBeginModeTransition
    <3> DEFINE d == ModeDelay[ClassOf(Head(pending_queue))]
    <3>1. pc' = "switch" /\ until' = now + 2 * d
      BY <2>2 DEF TimedBeginModeTransition, BeginModeTransition
    <3>2. d \in Nat
      BY TimedAssumption DEF ClassOf, Class
    <3> HIDE DEF d
    <3> QED
      BY <3>1, <3>2, <1>2
  <2> QED
    BY <2>1, <2>2
<1>5. Within(now, 0)'
  <2>1. SUFFICES ASSUME NEW c \in Class, DoneAfter[c] # <<>>
                 PROVE  now <= DoneAfter[c][1] + 0
    BY <1>1 DEF Within
  <2>2. DoneAfter[c][1] \in Nat
    <3>1. DoneAfter[c] \in Seq(Nat)
      BY <1>3, <2>1
    <3> QED
      BY <3>1, <2>1
  <2> QED
    BY <1>2, <1>3, <2>1, <2>2
<1>6. Clocks'
  BY <1>1, <1>2, <1>3, <1>4 DEF Clocks
<1> QED
  BY <1>1, <1>4, <1>5, <1>6 DEF Prompt

\* A macro is put behind the queue q, of which d holds the completion times.
LEMMA PromptPut ==
  ASSUME Clocks, NEW r \in Requests, NEW m, NEW l,
         NEW d \in [Class -> Seq(Nat)], NEW q \in [Class -> Seq(Requests)],
         Start(r, m, l, d), send_transaction(r, q),
         \A c \in Class : Len(d[c]) = Len(q[c]) /\ (d[c] # <<>> => now <= d[c][1]),
         UNCHANGED <<now, until>>, pc' = "tick"
  PROVE  Clocks' /\ Prompt'
<1>1. fast' = [q EXCEPT ![ClassOf(r)] = Append(@, r)]
  <2>1. Analytical(r)
    BY TimedAssumption DEF Analytical
  <2> QED
    BY <2>1 DEF send_transaction
<1>2. /\ done_time' \in [Class -> Seq(Nat)] /\ available' \in [Class -> Nat]
      /\ \A c \in Class :
           /\ Len(done_time'[c]) = IF c = ClassOf(r) THEN Len(d[c]) + 1 ELSE Len(d[c])
           /\ done_time'[c] # <<>> => now <= done_time'[c][1]
  BY Starting
<1>3. \A c \in Class : Len(fast'[c]) = IF c = ClassOf(r) THEN Len(q[c]) + 1 ELSE Len(q[c])
  BY <1>1
<1>4. Clocks'
  BY <1>2, <1>3 DEF Clocks
<1>5. Within(now, 0)'
  <2>1. SUFFICES ASSUME NEW c \in Class, done_time'[c] # <<>>
                 PROVE  now <= done_time'[c][1] + 0
    BY DEF Within
  <2>2. done_time'[c][1] \in Nat
    <3>1. done_time'[c] \in Seq(Nat)
      BY <1>2, <2>1
    <3> QED
      BY <3>1, <2>1
  <2> QED
    BY <1>2, <2>1, <2>2 DEF Clocks
<1> QED
  BY <1>4, <1>5 DEF Prompt

\* A macro starts, when the thread has collected what is due or at the end of
\* a mode change.
LEMMA PromptStart ==
  ASSUME WiredFor, TimeInv, TimedDispatch \/ TimedEndModeTransition
  PROVE  Clocks' /\ Prompt'
<1>0. TypeOK /\ WellFormed /\ Clocks
  BY DEF TimeInv, IInv
<1>1. CASE TimedDispatch
  <2>1. PICK r, m, l, d, q :
          /\ r = Head(pending_queue) /\ m = finish_contention_wait(BooksAfter, r).metrics
          /\ l = finish_contention_wait(BooksAfter, r).log
          /\ d = DoneAfter /\ q = [c \in Class |-> Undue(c)]
    OBVIOUS
  <2>2. r \in Requests
    BY <1>0, <1>1, <2>1, HeadTailProperties DEF TypeOK, TimedDispatch, Dispatch
  <2>3. q \in [Class -> Seq(Requests)] /\ \A c \in Class : q[c] = Undue(c)
    BY <1>0, <2>1, UndueFacts
  <2>4. /\ d \in [Class -> Seq(Nat)]
        /\ \A c \in Class : Len(d[c]) = Len(q[c]) /\ (d[c] # <<>> => now <= d[c][1])
    BY <1>1, <2>1, <2>3, Remaining DEF TimedDispatch
  <2>5. /\ Start(r, m, l, d) /\ send_transaction(r, q)
        /\ UNCHANGED <<now, until>> /\ pc' = "tick"
    BY <1>1, <2>1 DEF TimedDispatch, Dispatch
  <2> QED
    BY <1>0, <2>2, <2>3, <2>4, <2>5, PromptPut
<1>2. CASE TimedEndModeTransition
  <2>1. PICK r, m, l, d, q :
          r = Head(switching) /\ m = metrics /\ l = log /\ d = done_time /\ q = fast
    OBVIOUS
  <2>2. r \in Requests
    <3>1. switching \in Seq(Requests) /\ Len(switching) = 1
      BY <1>0, <1>2 DEF TypeOK, WellFormed, TimedEndModeTransition, EndModeTransition
    <3> QED
      BY <2>1, <3>1, HeadTailProperties
  <2>3. q \in [Class -> Seq(Requests)] /\ d \in [Class -> Seq(Nat)]
    BY <1>0, <2>1 DEF TypeOK, Clocks
  <2>4. \A c \in Class : Len(d[c]) = Len(q[c]) /\ d[c] = <<>>
    BY <1>0, <1>2, <2>1, Vacant DEF Clocks, TimedEndModeTransition, EndModeTransition
  <2>5. /\ Start(r, m, l, d) /\ send_transaction(r, q)
        /\ UNCHANGED <<now, until>> /\ pc' = "tick"
    BY <1>2, <2>1 DEF TimedEndModeTransition, EndModeTransition
  <2> QED
    BY <1>0, <2>2, <2>3, <2>4, <2>5, PromptPut
<1> QED
  BY <1>1, <1>2

\* One step of the wrapper with its clocks, for the times.
LEMMA PromptStep ==
  ASSUME WiredFor, TimeInv, [TimedNext]_timedVars
  PROVE  Clocks' /\ Prompt'
<1>0. Clocks /\ Prompt
  BY DEF TimeInv
<1>1. CASE Tick
  BY <1>1, PromptTick
<1>2. ASSUME NEW c \in Class, BecomesDue(c) PROVE Clocks' /\ Prompt'
  BY <1>0, <1>2, PromptSame DEF BecomesDue, Elapse, timeVars, threadVars
<1>3. CASE Send \/ Respond \/ NothingToMove \/ OtherClient \/ Arrive \/ UNCHANGED timedVars
  BY <1>0, <1>3, PromptSame DEF Send, Respond, NothingToMove, OtherClient, Arrive, timedVars, timeVars,
     Deliver, nb_transport_fw, TakeResponse, TakeTraceDone, Stop, peq_cb, clientVars, vars,
     threadVars, deviceVars
<1>4. CASE TimedIdle \/ TimedBlock \/ TimedBeginModeTransition
  BY <1>4, PromptCollect
<1>5. CASE TimedDispatch \/ TimedEndModeTransition
  BY <1>5, PromptStart
<1>6. CASE TimedEndIteration
  BY <1>6, PromptEnd
<1>7. CASE TimedTimeout
  <2>1. /\ UNCHANGED <<now, until, done_time, available, fast>>
        /\ pc \in {"sleep", "period"} /\ pc' = "run"
    BY <1>7 DEF TimedTimeout, Timeout, timeVars, deviceVars
  <2> QED
    BY <2>1, PromptWake
<1>8. CASE DeliverEvent
  <2>1. UNCHANGED <<now, until, done_time, available, fast>>
    BY <1>8 DEF DeliverEvent, DeliverPendingEvent, DeliverResourceEvent, timeVars, deviceVars
  <2>2. pc' = pc \/ (pc = "sleep" /\ pc' = "run")
    BY <1>8 DEF DeliverEvent, DeliverPendingEvent, DeliverResourceEvent, Wake
  <2> QED
    BY <1>0, <2>1, <2>2, PromptSame, PromptWake
<1>9. CASE ClockEdge
  <2>1. UNCHANGED <<now, until, done_time, available>>
    BY <1>9 DEF ClockEdge
  <2>2. UNCHANGED <<pc, fast>>
    BY <1>9 DEF ClockEdge, clock_posedge, clock_negedge, vars, threadVars, deviceVars
  <2> QED
    BY <1>0, <2>1, <2>2, PromptSame
<1> QED
  BY <1>1, <1>2, <1>3, <1>4, <1>5, <1>6, <1>7, <1>8, <1>9 DEF TimedNext

\* Once the clients have stopped nothing enters the wrapper any more.
LEMMA QuietStep ==
  ASSUME IInv, Quiet, [ClientNext]_clientVars
  PROVE  Quiet'
<1>0. TypeOK /\ WellFormed
  BY DEF IInv
<1>1. CASE Deliver
  BY <1>1 DEF Quiet, Deliver, nb_transport_fw, deviceVars, threadVars, outVars
<1>2. CASE TakeResponse \/ TakeTraceDone \/ UNCHANGED clientVars
  BY <1>2 DEF Quiet, TakeResponse, TakeTraceDone, clientVars, vars, deviceVars, threadVars, outVars
<1>3. CASE Stop
  <2>1. \A r \in Requests : ~InWrapper(r)
    BY <1>3 DEF Stop
  <2>2. ASSUME NEW s \in {peq, pending_queue, switching} \cup {fast[c] : c \in Class}
        PROVE  s = <<>>
    <3>1. s \in Seq(Requests)
      BY <1>0, <2>2 DEF TypeOK
    <3>2. SUFFICES ASSUME s # <<>> PROVE FALSE
      OBVIOUS
    <3>3. 1 \in 1..Len(s) /\ s[1] \in Requests
      BY <3>1, <3>2
    <3> QED
      BY <3>3, <2>1, <2>2 DEF InWrapper
  <2>3. /\ peq = <<>> /\ pending_queue = <<>> /\ switching = <<>>
        /\ \A c \in Class : fast[c] = <<>>
    BY <2>2
  <2>4. sent' = Requests /\ UNCHANGED <<peq, pending_queue, switching, fast>> /\ ~active'
    BY <1>3 DEF Stop, deviceVars, threadVars
  <2> QED
    BY <2>3, <2>4 DEF Quiet
<1>4. CASE (Idle \/ Block \/ Dispatch \/ BeginModeTransition) /\ UNCHANGED sent
  <2>1. pc = "run" /\ pc' # "done" /\ UNCHANGED active
    BY <1>4 DEF Idle, Block, Dispatch, BeginModeTransition, outVars
  <2>2. CASE active
    BY <2>1, <2>2 DEF Quiet
  <2>3. CASE ~active
    <3>1. Idle
      BY <1>4, <2>3 DEF Quiet, Block, Dispatch, BeginModeTransition
    <3>2. \A c \in Class : fast'[c] = <<>>
      BY <1>0, <2>3, <3>1, UndueEmpty DEF Quiet, Idle
    <3> QED
      BY <1>4, <2>1, <2>3, <3>1, <3>2 DEF Quiet, Idle
  <2> QED
    BY <2>2, <2>3
<1>5. CASE EndIteration /\ UNCHANGED sent
  <2>1. /\ pc' = "done" => ~active
        /\ UNCHANGED <<peq, pending_queue, switching, fast, active, sent>>
    BY <1>5 DEF EndIteration, deviceVars, outVars
  <2> QED
    BY <2>1 DEF Quiet
<1>6. CASE (Timeout \/ DeliverPendingEvent \/ DeliverResourceEvent) /\ UNCHANGED sent
  <2>1. /\ pc' = pc \/ pc' = "run"
        /\ UNCHANGED <<peq, pending_queue, switching, fast, active, sent>>
    BY <1>6 DEF Timeout, DeliverPendingEvent, DeliverResourceEvent, Wake, deviceVars, outVars
  <2> QED
    BY <2>1 DEF Quiet
<1>7. CASE EndModeTransition /\ UNCHANGED sent
  <2>1. pc = "switch" /\ Len(switching) = 1 /\ pc' # "done" /\ UNCHANGED active
    BY <1>0, <1>7 DEF WellFormed, EndModeTransition, outVars
  <2>2. active
    <3>1. switching # <<>>
      BY <2>1, EmptySeq
    <3> QED
      BY <3>1 DEF Quiet
  <2> QED
    BY <2>1, <2>2 DEF Quiet
<1>8. CASE peq_cb /\ UNCHANGED sent
  BY <1>8 DEF Quiet, peq_cb, deviceVars, threadVars, outVars
<1>9. CASE (clock_posedge \/ clock_negedge \/ \E c \in Class : Elapse(c)) /\ UNCHANGED sent
  BY <1>9 DEF Quiet, clock_posedge, clock_negedge, Elapse, threadVars, outVars
<1>10. CASE (BridgeComputeDone \/ \E i \in 1..Len(bridge["memory"]) : BridgeCallBack(i)) /\ UNCHANGED sent
  BY <1>10 DEF Quiet, BridgeComputeDone, BridgeCallBack, threadVars, outVars
<1> QED
  BY <1>1, <1>2, <1>3, <1>4, <1>5, <1>6, <1>7, <1>8, <1>9, <1>10
  DEF ClientNext, Clients, Step, Run, Delta, Timed

\* The times and the thread start together.
LEMMA TimeInit == TimedInit => NothingDue /\ Clocks /\ Prompt /\ Quiet
<1> SUFFICES ASSUME TimedInit PROVE NothingDue /\ Clocks /\ Prompt /\ Quiet
  OBVIOUS
<1>1. /\ now = 0 /\ until = 0 /\ pc = "run" /\ active = TRUE
      /\ \A c \in Class : fast[c] = <<>> /\ done_time[c] = <<>>
      /\ done_time = [c \in Class |-> <<>>] /\ available = [c \in Class |-> 0]
  BY DEF TimedInit, ClientInit, Init
<1>2. Clocks
  BY <1>1 DEF Clocks
<1>3. NothingDue /\ Prompt /\ Quiet
  BY <1>1 DEF NothingDue, Prompt, Within, Quiet
<1> QED
  BY <1>2, <1>3

\* The inductive invariant of the times.
THEOREM TimeInvariance ==
  ASSUME WiredFor
  PROVE  TimedSpec => []TimeInv
<1>1. TimedInit => TimeInv
  BY TimeInit, InitIInv DEF TimeInv, TimedInit
<1>2. TimeInv /\ [TimedNext]_timedVars => TimeInv'
  <2> SUFFICES ASSUME TimeInv, [TimedNext]_timedVars PROVE TimeInv'
    OBVIOUS
  <2>1. [ClientNext]_clientVars
    BY TimedStep
  <2>2. IInv' /\ NothingDue' /\ Quiet'
    BY <2>1, ClientNextStep, NothingDueStep, QuietStep DEF TimeInv
  <2>3. Clocks' /\ Prompt'
    BY PromptStep
  <2> QED
    BY <2>2, <2>3 DEF TimeInv
<1> QED
  BY <1>1, <1>2, PTL DEF TimedSpec

\* Responses leave at the time that the analytical model has computed, or late
\* by no more than one polling period or mode change, for every workload and
\* every choice of the periods and delays.
THEOREM CompletionsArePrompt ==
  ASSUME WiredFor
  PROVE  TimedSpec => []PromptCompletion
<1>1. TimeInv => PromptCompletion
  <2> SUFFICES ASSUME TimeInv, NEW c \in Class, done_time[c] # <<>>
               PROVE  now <= done_time[c][1]
                        + (IF pc = "sleep" THEN 0
                           ELSE 2 * Max({Period, ModeDelay["memory"], ModeDelay["compute"]}))
    BY DEF PromptCompletion
  <2> DEFINE t == done_time[c][1]  S == {Period, ModeDelay["memory"], ModeDelay["compute"]}
  <2>1. /\ t \in Nat /\ now \in Nat /\ until \in Nat /\ Period \in Nat
        /\ \A x \in S : x \in Nat
    <3>1. done_time[c] \in Seq(Nat)
      BY DEF TimeInv, Clocks
    <3> QED
      BY <3>1, TimedAssumption DEF TimeInv, Clocks, Class
  <2>2. Max(S) \in Nat /\ Period <= Max(S)
    <3>1. \E x \in S : \A y \in S : x >= y
      <4> DEFINE a == ModeDelay["memory"]  b == ModeDelay["compute"]
      <4>1. a \in Nat /\ b \in Nat
        BY <2>1
      <4> HIDE DEF a, b
      <4>2. \E x \in {Period, a, b} : \A y \in {Period, a, b} : x >= y
        BY <2>1, <4>1
      <4> QED
        BY <4>2 DEF a, b
    <3>2. Max(S) \in S /\ \A y \in S : Max(S) >= y
      BY <3>1 DEF Max
    <3> QED
      BY <3>2, <2>1
  <2>3. pc \notin {"switch", "done"}
    BY Vacant
  <2>4. pc \in {"run", "tick", "drain", "period", "sleep"}
    BY <2>3 DEF TimeInv, IInv, TypeOK
  <2>5. /\ pc = "sleep" => now <= until /\ until <= t + 0
        /\ pc = "period" => now <= until /\ until <= t + 2 * Period
        /\ pc = "run" => now <= t + 2 * Period
        /\ pc \in {"tick", "drain"} => now <= t + 0
    BY DEF TimeInv, Prompt, Within
  <2> DEFINE M == Max(S)
  <2> HIDE DEF t, S, M
  <2>6. now <= t + (IF pc = "sleep" THEN 0 ELSE 2 * M)
    BY <2>1, <2>2, <2>4, <2>5 DEF M
  <2> QED
    BY <2>6 DEF t, S, M
<1> QED
  BY <1>1, TimeInvariance, PTL

-----------------------------------------------------------------------------
(* Where the requests are                                                  *)

\* What waits for the device, what is on it, all that the wrapper holds, and
\* what it held and no longer does.
Waiting == Entries(pending_queue) \cup Entries(switching)
Queued(c) == Entries(fast[c])
Serving == Queued("memory") \cup Queued("compute")
Inside  == Entries(peq) \cup Waiting \cup Serving
Left    == sent \ Inside

\* Each request that was sent is in at most one place of one queue, and never
\* in one when it has left.
Placed ==
  /\ sent \subseteq Requests /\ IsFiniteSet(sent) /\ Inside \subseteq sent
  /\ Distinct(peq) /\ Distinct(pending_queue) /\ \A c \in Class : Distinct(fast[c])
  /\ Entries(peq) \cap (Waiting \cup Serving) = {}
  /\ Waiting \cap Serving = {}
  /\ Entries(pending_queue) \cap Entries(switching) = {}
  /\ pc # "switch" => switching = <<>>
  /\ bridge_done = <<>>

\* What has a released payload has left, and so has what is on its way back.
Returned == released \cup Entries(bw) \cup Entries(completed["memory"]) \subseteq Left

\* Two requests share a payload only one after the other.
OneUser == \A q, r \in sent : q # r /\ q.ptr = r.ptr => q \in released \/ r \in released

\* All that is said of the places.
LineInv == Placed /\ Returned /\ OneUser

\* What is left of a queue when its first d entries are gone.
LEMMA CutAt ==
  ASSUME NEW T, NEW s \in Seq(T), NEW d \in 0..Len(s)
  PROVE  LET r == SubSeq(s, d + 1, Len(s))
         IN Len(r) = Len(s) - d /\ \A j \in 1..(Len(s) - d) : r[j] = s[d + j]
<1> DEFINE n == Len(s)  r == SubSeq(s, d + 1, n)
<1>1. n \in Nat /\ d \in 0..n /\ \A i \in 1..n : s[i] \in T
  BY LenProperties, ElementOfSeq
<1> HIDE DEF n
<1>2. \A i \in (d + 1)..n : s[i] \in T
  BY <1>1
<1>3. /\ Len(r) = IF d + 1 <= n THEN n - (d + 1) + 1 ELSE 0
      /\ \A i \in 1..(n - (d + 1) + 1) : r[i] = s[(d + 1) + i - 1]
  <2>1. d + 1 \in Int /\ n \in Int
    BY <1>1
  <2> QED
    BY <1>2, <2>1, SubSeqProperties
<1> HIDE DEF r
<1>4. Len(r) = n - d /\ \A j \in 1..(n - d) : r[j] = s[d + j]
  BY <1>1, <1>3
<1> QED
  BY <1>4 DEF n, r

\* The entries of a queue are those of its front and of its rest.
LEMMA EntriesCut ==
  ASSUME NEW T, NEW s \in Seq(T), NEW d \in 0..Len(s), Distinct(s)
  PROVE  LET r == SubSeq(s, d + 1, Len(s))
             front == {s[i] : i \in 1..d}
         IN /\ Entries(r) = Entries(s) \ front /\ Distinct(r)
            /\ front \subseteq Entries(s)
            /\ Entries(SubSeq(s, 1, d)) = front
            /\ \A j \in 1..(Len(s) - d) : r[j] = s[d + j]
<1> DEFINE n == Len(s)  r == SubSeq(s, d + 1, n)  p == SubSeq(s, 1, d)
<1>1. n \in Nat /\ d \in 0..n /\ \A i \in 1..n : s[i] \in T
  BY LenProperties, ElementOfSeq
<1>2. Len(p) = d /\ \A i \in 1..d : p[i] = s[i]
  <2> HIDE DEF n
  <2>1. \A i \in 1..d : s[i] \in T
    BY <1>1
  <2> QED
    BY <1>1, <2>1, SubSeqProperties
<1>3. Len(r) = n - d /\ \A j \in 1..(n - d) : r[j] = s[d + j]
  BY CutAt
<1>4. \A i, j \in 1..n : s[i] = s[j] => i = j
  BY DEF Distinct
<1> DEFINE front == {s[i] : i \in 1..d}
<1> HIDE DEF n, r, p
<1>5. Entries(r) = {s[i] : i \in (d + 1)..n}
  <2>1. Entries(r) = {r[j] : j \in 1..(n - d)}
    BY <1>3 DEF Entries
  <2>2. \A i \in (d + 1)..n : i - d \in 1..(n - d) /\ r[i - d] = s[i]
    BY <1>1, <1>3
  <2>3. \A j \in 1..(n - d) : d + j \in (d + 1)..n /\ r[j] = s[d + j]
    BY <1>1, <1>3
  <2> QED
    BY <2>1, <2>2, <2>3
<1>6. Entries(s) = {s[i] : i \in 1..n}
  BY DEF Entries, n
<1>7. Entries(r) = Entries(s) \ front
  BY <1>1, <1>4, <1>5, <1>6
<1>8. Distinct(r)
  <2> SUFFICES ASSUME NEW i \in 1..Len(r), NEW j \in 1..Len(r), r[i] = r[j] PROVE i = j
    BY DEF Distinct
  <2>1. i \in 1..(n - d) /\ j \in 1..(n - d)
    BY <1>3
  <2>2. r[i] = s[d + i] /\ r[j] = s[d + j] /\ d + i \in 1..n /\ d + j \in 1..n
    BY <1>1, <1>3, <2>1
  <2>3. d + i = d + j
    BY <1>4, <2>2
  <2> QED
    BY <1>1, <2>1, <2>3
<1>9. front \subseteq Entries(s) /\ Entries(p) = front
  BY <1>1, <1>2, <1>6 DEF Entries
<1> QED
  BY <1>3, <1>7, <1>8, <1>9 DEF n, r, p

\* The entries of two queues put together.
LEMMA EntriesConcat ==
  ASSUME NEW T, NEW s \in Seq(T), NEW r \in Seq(T)
  PROVE  Entries(s \o r) = Entries(s) \cup Entries(r)
<1> DEFINE u == s \o r  m == Len(s)  n == Len(r)
<1>1. /\ m \in Nat /\ n \in Nat /\ Len(u) = m + n
      /\ \A i \in 1..(m + n) : u[i] = IF i <= m THEN s[i] ELSE r[i - m]
  BY LenProperties, ConcatProperties
<1> HIDE DEF u, m, n
<1>2. \A j \in 1..n : m + j \in 1..(m + n) /\ u[m + j] = r[j]
  BY <1>1
<1>3. \A i \in 1..m : i \in 1..(m + n) /\ u[i] = s[i]
  BY <1>1
<1>4. \A i \in 1..(m + n) : i \in 1..m \/ i - m \in 1..n
  BY <1>1
<1>5. /\ Entries(u) = {u[i] : i \in 1..(m + n)}
      /\ Entries(s) = {s[i] : i \in 1..m} /\ Entries(r) = {r[i] : i \in 1..n}
  BY <1>1 DEF Entries, m, n
<1>6. ASSUME NEW x \in Entries(u) PROVE x \in Entries(s) \cup Entries(r)
  <2>1. PICK i \in 1..(m + n) : x = u[i]
    BY <1>5, <1>6
  <2>2. CASE i \in 1..m
    BY <1>3, <1>5, <2>1, <2>2
  <2>3. CASE i - m \in 1..n
    <3>1. u[i] = r[i - m]
      BY <1>1, <2>1, <2>3
    <3> QED
      BY <1>5, <2>1, <2>3, <3>1
  <2> QED
    BY <1>4, <2>2, <2>3
<1>7. Entries(s) \cup Entries(r) \subseteq Entries(u)
  BY <1>2, <1>3, <1>5
<1> QED
  BY <1>6, <1>7 DEF u

\* An empty queue.
LEMMA EntriesEmpty == Entries(<<>>) = {}
BY DEF Entries

\* A queue of one entry.
LEMMA EntriesOne == \A x : Entries(<<x>>) = {x} /\ Distinct(<<x>>)
BY DEF Entries, Distinct

\* The requests whose completion the thread collects.
DueOf(c) == {fast[c][i] : i \in 1..due[c]}
AllDue == DueOf("memory") \cup DueOf("compute")

\* What the thread takes from an analytical queue goes to the completed one.
LEMMA CollectPlaces ==
  ASSUME IInv, Placed, NEW c \in Class
  PROVE  /\ Undue(c) \in Seq(Requests) /\ Distinct(Undue(c))
         /\ Entries(Undue(c)) = Queued(c) \ DueOf(c)
         /\ DueOf(c) \subseteq Queued(c)
         /\ Entries(Collected(c)) = Entries(completed[c]) \cup DueOf(c)
<1>1. /\ fast[c] \in Seq(Requests) /\ due[c] \in 0..Len(fast[c]) /\ Distinct(fast[c])
      /\ completed[c] \in Seq(Requests)
  BY DEF IInv, TypeOK, WellFormed, Placed
<1>2. /\ Undue(c) \in Seq(Requests) /\ SubSeq(fast[c], 1, due[c]) \in Seq(Requests)
  BY <1>1, CutSeq DEF Undue
<1>3. /\ Distinct(Undue(c)) /\ Entries(Undue(c)) = Queued(c) \ DueOf(c)
      /\ DueOf(c) \subseteq Queued(c)
      /\ Entries(SubSeq(fast[c], 1, due[c])) = DueOf(c)
  BY <1>1, EntriesCut, ZenonT(60) DEF Undue, DueOf, Queued
<1>4. Collected(c) = completed[c] \o SubSeq(fast[c], 1, due[c])
  <2>1. bridge_done = <<>>
    BY DEF Placed
  <2>2. Collected(c) = completed[c] \o SubSeq(fast[c], 1, due[c]) \o <<>>
    BY <2>1 DEF Collected
  <2>3. completed[c] \o SubSeq(fast[c], 1, due[c]) \in Seq(Requests)
    BY <1>1, <1>2
  <2> QED
    BY <2>2, <2>3, ConcatEmptySeq
<1>5. Entries(Collected(c)) = Entries(completed[c]) \cup Entries(SubSeq(fast[c], 1, due[c]))
  <2> DEFINE p == SubSeq(fast[c], 1, due[c])  q == completed[c]
  <2>1. p \in Seq(Requests) /\ q \in Seq(Requests) /\ Collected(c) = q \o p
    BY <1>1, <1>2, <1>4
  <2> HIDE DEF p, q
  <2>2. Entries(q \o p) = Entries(q) \cup Entries(p)
    BY <2>1, EntriesConcat
  <2> QED
    BY <2>1, <2>2 DEF p, q
<1> QED
  BY <1>2, <1>3, <1>5

\* No request is in the queues of both classes.
LEMMA ClassesApart ==
  ASSUME IInv
  PROVE  Queued("memory") \cap Queued("compute") = {}
<1>1. \A c \in Class : \A x \in Queued(c) : ClassOf(x) = c
  BY DEF IInv, WellFormed, Queued, Entries
<1> QED
  BY <1>1 DEF Class

\* The thread collects what is due and dispatches nothing.
LEMMA LineCollect ==
  ASSUME IInv, LineInv, Idle \/ Block, UNCHANGED <<sent, released>>
  PROVE  /\ LineInv' /\ Left' = Left \cup AllDue
         /\ Serving' = Serving \ AllDue /\ Waiting' = Waiting
<1>0. Placed /\ Returned /\ OneUser
  BY DEF LineInv
<1>1. /\ UNCHANGED <<peq, pending_queue, switching, bw>> /\ pc = "run" /\ pc' = "tick"
      /\ fast' = [c \in Class |-> Undue(c)]
      /\ completed' = [c \in Class |-> Collected(c)]
      /\ bridge_done' = <<>>
  BY <1>0 DEF Idle, Block, Collect, outVars, Placed
<1>2. \A c \in Class : /\ Distinct(fast'[c]) /\ DueOf(c) \subseteq Queued(c)
                       /\ Queued(c)' = Queued(c) \ DueOf(c)
                       /\ Entries(completed[c])' = Entries(completed[c]) \cup DueOf(c)
  BY <1>0, <1>1, CollectPlaces DEF Queued
<1>3. /\ Queued("memory")' = Queued("memory") \ DueOf("memory")
      /\ Queued("compute")' = Queued("compute") \ DueOf("compute")
      /\ DueOf("memory") \subseteq Queued("memory") /\ DueOf("compute") \subseteq Queued("compute")
      /\ Entries(completed["memory"])' = Entries(completed["memory"]) \cup DueOf("memory")
      /\ Queued("memory") \cap Queued("compute") = {}
  BY <1>2, ClassesApart DEF Class
<1>4. Serving' = Serving \ AllDue /\ AllDue \subseteq Serving
  BY <1>3 DEF Serving, AllDue
<1>5. Waiting' = Waiting /\ Entries(peq)' = Entries(peq) /\ Entries(bw)' = Entries(bw)
  BY <1>1 DEF Waiting
<1>6. Placed' /\ Left' = Left \cup AllDue
  <2>1. Inside' = Inside \ AllDue /\ AllDue \subseteq Inside
    BY <1>0, <1>4, <1>5 DEF Placed, Inside
  <2>2. Left' = Left \cup AllDue
    BY <1>0, <2>1 DEF Placed, Left
  <2>3. Placed'
    BY <1>0, <1>1, <1>2, <1>4, <1>5, <2>1 DEF Placed
  <2> QED
    BY <2>2, <2>3
<1>7. Returned'
  BY <1>0, <1>3, <1>5, <1>6 DEF Returned, AllDue
<1>8. OneUser'
  BY <1>0 DEF OneUser
<1> QED
  BY <1>4, <1>5, <1>6, <1>7, <1>8 DEF LineInv

\* What is at the front of a queue leaves it.
LEMMA PopPlaces ==
  ASSUME NEW s \in Seq(Requests), s # <<>>, Distinct(s)
  PROVE  /\ Head(s) \in Requests /\ Head(s) \in Entries(s) /\ Distinct(Tail(s))
         /\ Entries(Tail(s)) = Entries(s) \ {Head(s)}
BY HeadTailProperties, EntriesTail

\* The thread collects what is due and hands a request to the device.
LEMMA LineDispatch ==
  ASSUME IInv, LineInv, Dispatch, UNCHANGED <<sent, released>>
  PROVE  /\ LineInv' /\ Left' = Left \cup AllDue
         /\ Serving' = (Serving \ AllDue) \cup {Head(pending_queue)}
         /\ Waiting' = Waiting \ {Head(pending_queue)}
<1>0. Placed /\ Returned /\ OneUser
  BY DEF LineInv
<1> DEFINE r == Head(pending_queue)  k == ClassOf(r)
<1>a. /\ r \in Requests /\ r \in Entries(pending_queue) /\ Distinct(Tail(pending_queue))
      /\ Entries(Tail(pending_queue)) = Entries(pending_queue) \ {r}
  BY <1>0, PopPlaces DEF Placed, IInv, TypeOK, Dispatch
<1>b. Analytical(r) /\ k \in Class
  BY <1>a, TimedAssumption DEF Analytical, ClassOf, Class
<1>1. /\ UNCHANGED <<peq, switching, bw>> /\ pc = "run" /\ pc' = "tick"
      /\ pending_queue' = Tail(pending_queue)
      /\ fast' = [[c \in Class |-> Undue(c)] EXCEPT ![k] = Append(@, r)]
      /\ completed' = [c \in Class |-> Collected(c)]
      /\ bridge_done' = <<>>
  BY <1>0, <1>b DEF Dispatch, Collect, send_transaction, outVars, Placed
<1> HIDE DEF r, k
<1>c. r \notin Serving /\ r \notin Entries(switching) /\ r \notin Entries(peq) /\ r \in Waiting
  BY <1>0, <1>a DEF Placed, Waiting
<1>2. ASSUME NEW c \in Class
      PROVE  /\ Distinct(fast'[c]) /\ DueOf(c) \subseteq Queued(c)
             /\ Queued(c)' = (Queued(c) \ DueOf(c)) \cup (IF c = k THEN {r} ELSE {})
             /\ Entries(completed[c])' = Entries(completed[c]) \cup DueOf(c)
  <2>1. /\ Undue(c) \in Seq(Requests) /\ Distinct(Undue(c))
        /\ Entries(Undue(c)) = Queued(c) \ DueOf(c) /\ DueOf(c) \subseteq Queued(c)
        /\ Entries(completed'[c]) = Entries(completed[c]) \cup DueOf(c)
    BY <1>0, <1>1, <1>2, CollectPlaces
  <2>2. CASE c = k
    <3>1. fast'[c] = Append(Undue(c), r)
      BY <1>1, <1>b, <2>2
    <3>2. r \notin Entries(Undue(c))
      BY <1>c, <1>2, <2>1 DEF Serving, Class
    <3>3. Distinct(fast'[c]) /\ Entries(fast'[c]) = Entries(Undue(c)) \cup {r}
      BY <1>a, <2>1, <3>1, <3>2, EntriesAppend
    <3> QED
      BY <2>1, <2>2, <3>3 DEF Queued
  <2>3. CASE c # k
    <3>1. fast'[c] = Undue(c)
      BY <1>1, <1>2, <2>3
    <3> QED
      BY <2>1, <2>3, <3>1 DEF Queued
  <2> QED
    BY <2>2, <2>3
<1>3. /\ DueOf("memory") \subseteq Queued("memory") /\ DueOf("compute") \subseteq Queued("compute")
      /\ Entries(completed["memory"])' = Entries(completed["memory"]) \cup DueOf("memory")
      /\ Queued("memory") \cap Queued("compute") = {}
  BY <1>2, ClassesApart DEF Class
<1>4. Serving' = (Serving \ AllDue) \cup {r} /\ AllDue \subseteq Serving
  <2>1. /\ Queued("memory")' = (Queued("memory") \ DueOf("memory")) \cup (IF "memory" = k THEN {r} ELSE {})
        /\ Queued("compute")' = (Queued("compute") \ DueOf("compute")) \cup (IF "compute" = k THEN {r} ELSE {})
        /\ k = "memory" \/ k = "compute"
    BY <1>2, <1>b DEF Class
  <2> QED
    BY <1>3, <2>1 DEF Serving, AllDue
<1>5. /\ Entries(pending_queue)' = Entries(pending_queue) \ {r} /\ Entries(peq)' = Entries(peq)
      /\ Waiting' = Waiting \ {r} /\ Entries(bw)' = Entries(bw)
      /\ Entries(switching)' = Entries(switching)
  BY <1>1, <1>a, <1>c DEF Waiting
<1>6. Placed' /\ Left' = Left \cup AllDue
  <2>1. Inside' = Inside \ AllDue /\ AllDue \subseteq Inside
    BY <1>0, <1>c, <1>4, <1>5 DEF Placed, Inside
  <2>2. Left' = Left \cup AllDue
    BY <1>0, <2>1 DEF Placed, Left
  <2>3. Distinct(peq)' /\ Distinct(pending_queue)' /\ \A c \in Class : Distinct(fast'[c])
    BY <1>0, <1>1, <1>2, <1>a DEF Placed
  <2>4. /\ (Entries(peq) \cap (Waiting \cup Serving) = {})'
        /\ (Waiting \cap Serving = {})'
        /\ (Entries(pending_queue) \cap Entries(switching) = {})'
    BY <1>0, <1>4, <1>5, <1>c DEF Placed
  <2>5. Placed'
    BY <1>0, <1>1, <2>1, <2>3, <2>4 DEF Placed
  <2> QED
    BY <2>2, <2>5
<1>7. Returned'
  BY <1>0, <1>3, <1>5, <1>6 DEF Returned, AllDue
<1>8. OneUser'
  BY <1>0 DEF OneUser
<1> QED
  BY <1>4, <1>5, <1>6, <1>7, <1>8 DEF LineInv, r

\* The thread collects what is due and waits for the mode change for a request.
LEMMA LineBegin ==
  ASSUME IInv, LineInv, BeginModeTransition, UNCHANGED <<sent, released>>
  PROVE  /\ LineInv' /\ Left' = Left \cup AllDue
         /\ Serving' = Serving \ AllDue /\ Waiting' = Waiting
<1>0. Placed /\ Returned /\ OneUser
  BY DEF LineInv
<1> DEFINE r == Head(pending_queue)
<1>a. /\ r \in Requests /\ r \in Entries(pending_queue) /\ Distinct(Tail(pending_queue))
      /\ Entries(Tail(pending_queue)) = Entries(pending_queue) \ {r}
  BY <1>0, PopPlaces DEF Placed, IInv, TypeOK, BeginModeTransition
<1>1. /\ UNCHANGED <<peq, bw>> /\ switching' = <<r>> /\ pc = "run" /\ pc' = "switch"
      /\ pending_queue' = Tail(pending_queue)
      /\ fast' = [c \in Class |-> Undue(c)]
      /\ completed' = [c \in Class |-> Collected(c)]
      /\ bridge_done' = <<>>
  BY <1>0 DEF BeginModeTransition, Collect, outVars, Placed
<1> HIDE DEF r
<1>b. Entries(switching) = {}
  BY <1>0, <1>1, EntriesEmpty DEF Placed
<1>2. \A c \in Class : /\ Distinct(fast'[c]) /\ DueOf(c) \subseteq Queued(c)
                       /\ Queued(c)' = Queued(c) \ DueOf(c)
                       /\ Entries(completed[c])' = Entries(completed[c]) \cup DueOf(c)
  BY <1>0, <1>1, CollectPlaces DEF Queued
<1>3. /\ Queued("memory")' = Queued("memory") \ DueOf("memory")
      /\ Queued("compute")' = Queued("compute") \ DueOf("compute")
      /\ DueOf("memory") \subseteq Queued("memory") /\ DueOf("compute") \subseteq Queued("compute")
      /\ Entries(completed["memory"])' = Entries(completed["memory"]) \cup DueOf("memory")
      /\ Queued("memory") \cap Queued("compute") = {}
  BY <1>2, ClassesApart DEF Class
<1>4. Serving' = Serving \ AllDue /\ AllDue \subseteq Serving
  BY <1>3 DEF Serving, AllDue
<1>5. /\ Entries(pending_queue)' = Entries(pending_queue) \ {r} /\ Entries(peq)' = Entries(peq)
      /\ Entries(switching)' = {r}
      /\ Waiting' = Waiting /\ Entries(bw)' = Entries(bw)
  BY <1>1, <1>a, <1>b, EntriesOne DEF Waiting
<1>6. Placed' /\ Left' = Left \cup AllDue
  <2>1. Inside' = Inside \ AllDue /\ AllDue \subseteq Inside
    BY <1>0, <1>4, <1>5 DEF Placed, Inside
  <2>2. Left' = Left \cup AllDue
    BY <1>0, <2>1 DEF Placed, Left
  <2>3. Distinct(peq)' /\ Distinct(pending_queue)' /\ \A c \in Class : Distinct(fast'[c])
    BY <1>0, <1>1, <1>2, <1>a DEF Placed
  <2>4. /\ (Entries(peq) \cap (Waiting \cup Serving) = {})'
        /\ (Waiting \cap Serving = {})'
        /\ (Entries(pending_queue) \cap Entries(switching) = {})'
    BY <1>0, <1>4, <1>5 DEF Placed
  <2>5. Placed'
    BY <1>0, <1>1, <2>1, <2>3, <2>4 DEF Placed
  <2> QED
    BY <2>2, <2>5
<1>7. Returned'
  BY <1>0, <1>3, <1>5, <1>6 DEF Returned, AllDue
<1>8. OneUser'
  BY <1>0 DEF OneUser
<1> QED
  BY <1>4, <1>5, <1>6, <1>7, <1>8 DEF LineInv

\* The mode change is over and the request goes to the device.
LEMMA LineEnd ==
  ASSUME IInv, LineInv, EndModeTransition, UNCHANGED <<sent, released>>
  PROVE  /\ LineInv' /\ Left' = Left
         /\ switching = <<Head(switching)>> /\ Head(switching) \in Waiting
         /\ Head(switching) \in Requests
         /\ Serving' = Serving \cup {Head(switching)}
         /\ Waiting' = Waiting \ {Head(switching)}
<1>0. Placed /\ Returned /\ OneUser
  BY DEF LineInv
<1> DEFINE r == Head(switching)  k == ClassOf(r)
<1>a. switching = <<r>> /\ r \in Requests
  <2>1. switching \in Seq(Requests) /\ Len(switching) = 1
    BY DEF IInv, TypeOK, WellFormed, EndModeTransition
  <2>2. r = switching[1] /\ r \in Requests
    BY <2>1, HeadTailProperties
  <2> QED
    BY <2>1, <2>2
<1>b. Analytical(r) /\ k \in Class
  BY <1>a, TimedAssumption DEF Analytical, ClassOf, Class
<1>1. /\ UNCHANGED <<peq, pending_queue, completed, bridge_done, bw>> /\ switching' = <<>>
      /\ pc' = "tick"
      /\ fast' = [fast EXCEPT ![k] = Append(@, r)]
  BY <1>b DEF EndModeTransition, send_transaction, outVars
<1> HIDE DEF r, k
<1>c. Entries(switching) = {r}
  BY <1>a, EntriesOne
<1>d. r \notin Serving /\ r \notin Entries(pending_queue) /\ r \notin Entries(peq) /\ r \in Waiting
  BY <1>0, <1>c DEF Placed, Waiting
<1>2. ASSUME NEW c \in Class
      PROVE  /\ Distinct(fast'[c])
             /\ Queued(c)' = Queued(c) \cup (IF c = k THEN {r} ELSE {})
  <2>1. fast[c] \in Seq(Requests) /\ Distinct(fast[c]) /\ fast \in [Class -> Seq(Requests)]
    BY <1>0, <1>2 DEF IInv, TypeOK, Placed
  <2>2. CASE c = k
    <3>1. fast'[c] = Append(fast[c], r)
      BY <1>1, <1>b, <2>1, <2>2
    <3>2. r \notin Entries(fast[c])
      BY <1>d, <1>2 DEF Serving, Queued, Class
    <3>3. Distinct(fast'[c]) /\ Entries(fast'[c]) = Entries(fast[c]) \cup {r}
      BY <1>a, <2>1, <3>1, <3>2, EntriesAppend
    <3> QED
      BY <2>2, <3>3 DEF Queued
  <2>3. CASE c # k
    <3>1. fast'[c] = fast[c]
      BY <1>1, <1>2, <2>1, <2>3
    <3> QED
      BY <2>1, <2>3, <3>1 DEF Queued
  <2> QED
    BY <2>2, <2>3
<1>4. Serving' = Serving \cup {r}
  <2>1. /\ Queued("memory")' = Queued("memory") \cup (IF "memory" = k THEN {r} ELSE {})
        /\ Queued("compute")' = Queued("compute") \cup (IF "compute" = k THEN {r} ELSE {})
        /\ k = "memory" \/ k = "compute"
    BY <1>2, <1>b DEF Class
  <2> QED
    BY <2>1 DEF Serving
<1>5. /\ Entries(pending_queue)' = Entries(pending_queue) /\ Entries(peq)' = Entries(peq)
      /\ Entries(switching)' = {}
      /\ Waiting' = Waiting \ {r} /\ Entries(bw)' = Entries(bw)
      /\ Entries(completed["memory"])' = Entries(completed["memory"])
  BY <1>1, <1>c, <1>d, EntriesEmpty DEF Waiting
<1>6. Placed' /\ Left' = Left
  <2>1. Inside' = Inside
    BY <1>0, <1>4, <1>5, <1>d DEF Placed, Inside
  <2>2. Left' = Left
    BY <2>1 DEF Left
  <2>3. Distinct(peq)' /\ Distinct(pending_queue)' /\ \A c \in Class : Distinct(fast'[c])
    BY <1>0, <1>1, <1>2 DEF Placed
  <2>4. /\ (Entries(peq) \cap (Waiting \cup Serving) = {})'
        /\ (Waiting \cap Serving = {})'
        /\ (Entries(pending_queue) \cap Entries(switching) = {})'
    BY <1>0, <1>4, <1>5, <1>d DEF Placed
  <2>5. Placed'
    BY <1>0, <1>1, <2>1, <2>3, <2>4 DEF Placed
  <2> QED
    BY <2>2, <2>5
<1>7. Returned'
  BY <1>0, <1>5, <1>6 DEF Returned
<1>8. OneUser'
  BY <1>0 DEF OneUser
<1> QED
  BY <1>4, <1>5, <1>6, <1>7, <1>8, <1>a, <1>d DEF LineInv, r

\* A request arrives in the queue of the device.
LEMMA LineArrive ==
  ASSUME IInv, LineInv, peq_cb, UNCHANGED <<sent, released>>
  PROVE  /\ LineInv' /\ Left' = Left /\ Serving' = Serving
         /\ Head(peq) \in Requests /\ Head(peq) \in Entries(peq)
         /\ Waiting' = Waiting \cup {Head(peq)}
<1>0. Placed /\ Returned /\ OneUser
  BY DEF LineInv
<1> DEFINE r == Head(peq)
<1>a. /\ r \in Requests /\ r \in Entries(peq) /\ Distinct(Tail(peq))
      /\ Entries(Tail(peq)) = Entries(peq) \ {r}
  BY <1>0, PopPlaces DEF Placed, IInv, TypeOK, peq_cb
<1>1. /\ UNCHANGED <<pc, fast, completed, bridge_done, switching, bw>> /\ peq' = Tail(peq)
      /\ pending_queue' = Append(pending_queue, r) /\ pending_queue \in Seq(Requests)
  BY DEF peq_cb, IInv, TypeOK, deviceVars, threadVars, outVars
<1> HIDE DEF r
<1>b. r \notin Waiting /\ r \notin Serving
  BY <1>0, <1>a DEF Placed
<1>2. Entries(pending_queue)' = Entries(pending_queue) \cup {r} /\ Distinct(pending_queue)'
  <2>1. Entries(Append(pending_queue, r)) = Entries(pending_queue) \cup {r}
    BY <1>1, <1>a, EntriesAppend
  <2>2. Distinct(Append(pending_queue, r))
    BY <1>0, <1>1, <1>a, <1>b, EntriesAppend DEF Placed, Waiting
  <2> QED
    BY <1>1, <2>1, <2>2
<1>3. /\ Entries(switching)' = Entries(switching) /\ Waiting' = Waiting \cup {r}
      /\ Serving' = Serving /\ Entries(peq)' = Entries(peq) \ {r}
  BY <1>1, <1>2, <1>a DEF Waiting, Serving, Queued
<1>4. Inside' = Inside /\ Left' = Left
  BY <1>3, <1>a DEF Inside, Left
<1>5. Placed'
  <2>1. r \notin Entries(switching)
    BY <1>b DEF Waiting
  <2>2. /\ (Entries(peq) \cap (Waiting \cup Serving) = {})'
        /\ (Waiting \cap Serving = {})'
        /\ (Entries(pending_queue) \cap Entries(switching) = {})'
    BY <1>0, <1>2, <1>3, <1>b, <2>1 DEF Placed
  <2> QED
    BY <1>0, <1>1, <1>2, <1>4, <1>a, <2>2 DEF Placed
<1>6. Returned'
  BY <1>0, <1>1, <1>4 DEF Returned
<1>7. OneUser'
  BY <1>0 DEF OneUser
<1> QED
  BY <1>3, <1>4, <1>5, <1>6, <1>7, <1>a DEF LineInv, r

\* A request is sent; nobody else has its payload.
LEMMA LineSend ==
  ASSUME IInv, LineInv, Send
  PROVE  LineInv' /\ Left' = Left /\ Serving' = Serving /\ Waiting' = Waiting
<1>0. Placed /\ Returned /\ OneUser
  BY DEF LineInv
<1>1. PICK r \in Requests \ sent : nb_transport_fw(r) /\ sent' = sent \cup {r}
  BY DEF Send, Deliver
<1>2. \A q \in sent : q.ptr = r.ptr => q \in released
  BY <1>1 DEF Send
<1>3. /\ UNCHANGED <<pc, pending_queue, fast, completed, bridge_done, switching, bw, released>>
      /\ peq' = Append(peq, r) /\ peq \in Seq(Requests)
  BY <1>1 DEF Send, nb_transport_fw, IInv, TypeOK, deviceVars, threadVars, outVars
<1>4. r \notin Inside
  BY <1>0, <1>1 DEF Placed
<1>5. Entries(peq)' = Entries(peq) \cup {r} /\ Distinct(peq)'
  <2>1. Entries(Append(peq, r)) = Entries(peq) \cup {r}
    BY <1>1, <1>3, EntriesAppend
  <2>2. Distinct(Append(peq, r))
    BY <1>0, <1>1, <1>3, <1>4, EntriesAppend DEF Placed, Inside
  <2> QED
    BY <1>3, <2>1, <2>2
<1>6. Waiting' = Waiting /\ Serving' = Serving
  BY <1>3 DEF Waiting, Serving, Queued
<1>7. Inside' = Inside \cup {r} /\ Left' = Left
  BY <1>0, <1>1, <1>4, <1>5, <1>6 DEF Inside, Left, Placed
<1>8. Placed'
  <2>1. IsFiniteSet(sent') /\ sent' \subseteq Requests
    BY <1>0, <1>1, FS_AddElement DEF Placed
  <2>2. (Entries(peq) \cap (Waiting \cup Serving) = {})'
    BY <1>0, <1>4, <1>5, <1>6 DEF Placed, Inside
  <2>3. (Inside \subseteq sent)'
    BY <1>0, <1>1, <1>7 DEF Placed
  <2> QED
    BY <1>0, <1>3, <1>5, <1>6, <2>1, <2>2, <2>3 DEF Placed
<1>9. Returned'
  BY <1>0, <1>3, <1>7 DEF Returned
<1>10. OneUser'
  BY <1>0, <1>1, <1>2, <1>3 DEF OneUser
<1> QED
  BY <1>6, <1>7, <1>8, <1>9, <1>10 DEF LineInv

\* The queues of the wrapper are left alone.
LEMMA LineKeeps ==
  ASSUME Placed, UNCHANGED <<sent, peq, pending_queue, switching, fast, bridge_done>>,
         pc' # "switch" => pc # "switch"
  PROVE  Placed' /\ Left' = Left /\ Serving' = Serving /\ Waiting' = Waiting
<1>1. Waiting' = Waiting /\ Serving' = Serving
  BY DEF Waiting, Serving, Queued
<1>2. Inside' = Inside
  BY <1>1 DEF Inside
<1>3. Left' = Left
  BY <1>2 DEF Left
<1> QED
  BY <1>1, <1>2, <1>3 DEF Placed

\* A payload goes back to its pool.
LEMMA LineReturns ==
  ASSUME LineInv, UNCHANGED <<sent, peq, pending_queue, switching, fast, bridge_done, pc>>,
         released \subseteq released',
         (released \cup Entries(bw) \cup Entries(completed["memory"]))'
           \subseteq released \cup Entries(bw) \cup Entries(completed["memory"])
  PROVE  LineInv' /\ Left' = Left /\ Serving' = Serving /\ Waiting' = Waiting
<1>1. Placed' /\ Left' = Left /\ Serving' = Serving /\ Waiting' = Waiting
  BY LineKeeps DEF LineInv
<1>2. Returned' /\ OneUser'
  BY <1>1 DEF LineInv, Returned, OneUser
<1> QED
  BY <1>1, <1>2 DEF LineInv

\* The arbiter hands a response over, or a clock edge retires a request.
LEMMA LineOut ==
  ASSUME IInv, LineInv, Respond \/ ClockEdge
  PROVE  LineInv' /\ Left' = Left /\ Serving' = Serving /\ Waiting' = Waiting
<1>1. UNCHANGED <<sent, peq, pending_queue, switching, fast, bridge_done, pc>>
  <2>1. CASE Respond
    BY <2>1 DEF Respond, TakeResponse, deviceVars, threadVars
  <2>2. CASE ClockEdge
    BY <2>2 DEF ClockEdge, clock_posedge, clock_negedge, vars, deviceVars, threadVars
  <2> QED
    BY <2>1, <2>2
<1>t. /\ bw \in Seq(Requests) /\ completed["memory"] \in Seq(Requests)
      /\ completed \in [Class -> Seq(Requests)]
  BY DEF IInv, TypeOK, Class
<1>2. CASE Respond
  <2>1. /\ bw # <<>> /\ bw' = Tail(bw) /\ completed' = completed
        /\ released' = released \cup {Head(bw)}
    BY <1>2 DEF Respond, TakeResponse, deviceVars
  <2>2. Entries(bw) = {Head(bw)} \cup Entries(Tail(bw))
    BY <1>t, <2>1, EntriesTail
  <2> QED
    BY <1>1, <2>1, <2>2, LineReturns
<1>3. CASE ClockEdge /\ clock_posedge /\ Rising
  <2> DEFINE s == completed["memory"]
  <2>1. /\ s # <<>> /\ completed' = [completed EXCEPT !["memory"] = Tail(@)]
        /\ bw' = IF Answered(Head(s)) THEN Append(bw, Head(s)) ELSE bw
    BY <1>3 DEF clock_posedge, Release
  <2>2. completed'["memory"] = Tail(s)
    BY <1>t, <2>1 DEF Class
  <2>3. Entries(s) = {Head(s)} \cup Entries(Tail(s)) /\ Head(s) \in Requests
    BY <1>t, <2>1, EntriesTail, HeadTailProperties
  <2>4. Entries(bw') \subseteq Entries(bw) \cup {Head(s)}
    BY <1>t, <2>1, <2>3, EntriesAppend
  <2>5. released' \subseteq released \cup {Head(s)} /\ released \subseteq released'
    BY <1>3 DEF ClockEdge
  <2>6. (released \cup Entries(bw) \cup Entries(completed["memory"]))'
           \subseteq released \cup Entries(bw) \cup Entries(completed["memory"])
    BY <2>2, <2>3, <2>4, <2>5
  <2> QED
    BY <1>1, <2>5, <2>6, LineReturns
<1>4. CASE ClockEdge /\ ~(clock_posedge /\ Rising)
  <2>1. released' = released /\ (clock_negedge \/ UNCHANGED vars)
    BY <1>4 DEF ClockEdge
  <2>2. bw' = bw /\ completed'["memory"] = completed["memory"]
    <3>1. CASE clock_negedge
      <4>1. bw' = bw /\ completed' = [completed EXCEPT !["compute"] = Tail(@)]
        BY <3>1 DEF clock_negedge, Release
      <4> QED
        BY <4>1, <1>t DEF Class
    <3>2. CASE UNCHANGED vars
      BY <3>2 DEF vars, deviceVars, outVars
    <3> QED
      BY <2>1, <3>1, <3>2
  <2> QED
    BY <1>1, <2>1, <2>2, LineReturns
<1> QED
  BY <1>2, <1>3, <1>4

\* Steps that move no request.
Resting ==
  \/ Tick \/ (\E c \in Class : BecomesDue(c)) \/ NothingToMove \/ OtherClient
  \/ TimedEndIteration \/ TimedTimeout \/ DeliverEvent \/ UNCHANGED timedVars

\* Then all of them stay where they are.
LEMMA LineRests ==
  ASSUME IInv, LineInv, Resting
  PROVE  /\ LineInv' /\ Left' = Left /\ Serving' = Serving /\ Waiting' = Waiting
         /\ UNCHANGED <<sent, released, peq, pending_queue, switching, fast, completed, bw, metrics, log,
                        done_time, available, contention_wait_start, wait_count>>
<1>1. /\ UNCHANGED <<sent, released, peq, pending_queue, switching, fast, completed, bw, metrics, log,
                     done_time, available, contention_wait_start, wait_count, bridge_done>>
      /\ pc' = pc \/ pc # "switch"
  <2>1. CASE Tick \/ NothingToMove \/ UNCHANGED timedVars
    BY <2>1 DEF Tick, NothingToMove, timedVars, timeVars, bookVars, clientVars, vars, deviceVars,
       threadVars, outVars
  <2>2. CASE \E c \in Class : BecomesDue(c)
    BY <2>2 DEF BecomesDue, Elapse, timeVars, bookVars, deviceVars, threadVars, outVars
  <2>3. CASE OtherClient
    BY <2>3 DEF OtherClient, TakeTraceDone, Stop, timeVars, bookVars, deviceVars, threadVars, outVars
  <2>4. CASE TimedEndIteration
    BY <2>4 DEF TimedEndIteration, EndIteration, timeVars, bookVars, deviceVars, threadVars, outVars
  <2>5. CASE TimedTimeout \/ DeliverEvent
    BY <2>5 DEF TimedTimeout, DeliverEvent, Timeout, DeliverPendingEvent, DeliverResourceEvent, Wake,
       timeVars, bookVars, deviceVars, threadVars, outVars
  <2> QED
    BY <2>1, <2>2, <2>3, <2>4, <2>5 DEF Resting
<1>2. Placed' /\ Left' = Left /\ Serving' = Serving /\ Waiting' = Waiting
  <2>1. pc' # "switch" => pc # "switch"
    BY <1>1
  <2> QED
    BY <1>1, <2>1, LineKeeps DEF LineInv
<1>3. Returned' /\ OneUser'
  BY <1>1, <1>2 DEF LineInv, Returned, OneUser
<1> QED
  BY <1>1, <1>2, <1>3 DEF LineInv

\* Everything is empty at first.
LEMMA LineInit == TimedInit => LineInv /\ Left = {} /\ Serving = {} /\ Waiting = {}
<1> SUFFICES ASSUME TimedInit PROVE LineInv /\ Left = {} /\ Serving = {} /\ Waiting = {}
  OBVIOUS
<1>1. /\ sent = {} /\ released = {} /\ peq = <<>> /\ pending_queue = <<>> /\ switching = <<>>
      /\ bw = <<>> /\ bridge_done = <<>>
      /\ \A c \in Class : fast[c] = <<>> /\ completed[c] = <<>>
  BY DEF TimedInit, ClientInit, Init
<1>2. /\ Entries(peq) = {} /\ Entries(pending_queue) = {} /\ Entries(switching) = {}
      /\ Entries(bw) = {} /\ \A c \in Class : Queued(c) = {} /\ Entries(completed[c]) = {}
  BY <1>1, EntriesEmpty DEF Queued
<1>3. Distinct(<<>>)
  BY DEF Distinct
<1>4. Serving = {} /\ Waiting = {} /\ Inside = {} /\ Left = {}
  BY <1>1, <1>2 DEF Serving, Waiting, Inside, Left, Class
<1>5. Placed
  BY <1>1, <1>2, <1>3, <1>4, FS_EmptySet DEF Placed
<1>6. Returned /\ OneUser
  BY <1>1, <1>2, <1>4 DEF Returned, OneUser, Class
<1> QED
  BY <1>4, <1>5, <1>6 DEF LineInv

-----------------------------------------------------------------------------
(* What the metrics do                                                     *)

\* The records of the metrics.
Entry == [device: {"DRAM", "PIM"}, bytes: Nat, kind: Class, arrival_ns: Nat,
          start_ns: Nat \cup {-1}, channel: Int]
Interval == Nat \X Nat
TrafficType ==
  [requests: Nat, bytes: Nat, queue_wait_ns: Nat, max_queue_wait_ns: Nat,
   queue_wait_samples: Seq(Nat), service_intervals: Seq(Interval)]
ChannelType == [requests: Nat, bytes: Nat, service_intervals: Seq(Interval)]
DeviceType  == [traffic: [Class -> TrafficType], per_channel: [0..(Channels - 1) -> ChannelType]]

\* A record of the metrics, with all its fields.
MetricsType(m) ==
  /\ m = [requests |-> m.requests, device |-> m.device, stall |-> m.stall]
  /\ m.requests \in [DOMAIN m.requests -> Entry]
  /\ m.device \in [{"DRAM", "PIM"} -> DeviceType]
  /\ m.stall \in [Class -> Nat]

\* The totals of the device.
Pim(m) == m.device["PIM"]

\* Rounding keeps the order of times.
LEMMA ToNs ==
  /\ \A t \in Nat : to_ns(t) \in Nat
  /\ \A t, u \in Nat : t <= u => to_ns(t) <= to_ns(u)
BY DEF to_ns

\* The larger of two numbers.
LEMMA MaxOfTwo ==
  \A a, b \in Int : Max({a, b}) = IF a >= b THEN a ELSE b
<1> SUFFICES ASSUME NEW a \in Int, NEW b \in Int PROVE Max({a, b}) = IF a >= b THEN a ELSE b
  OBVIOUS
<1>1. \E x \in {a, b} : \A y \in {a, b} : x >= y
  OBVIOUS
<1>2. Max({a, b}) \in {a, b} /\ \A y \in {a, b} : Max({a, b}) >= y
  BY <1>1 DEF Max
<1> QED
  BY <1>2

\* request_arrived adds the entry of a payload that is not known.
LEMMA ArrivedEffect ==
  ASSUME NEW m, MetricsType(m), NEW p, p \notin DOMAIN m.requests, NEW b \in Nat, NEW c \in Class,
         NEW t \in Nat
  PROVE  LET m2 == request_arrived(m, "PIM", p, b, c, t)
             e  == [device |-> "PIM", bytes |-> b, kind |-> c, arrival_ns |-> to_ns(t),
                    start_ns |-> -1, channel |-> kAllChannels]
         IN /\ MetricsType(m2)
            /\ DOMAIN m2.requests = DOMAIN m.requests \cup {p}
            /\ m2.requests[p] = e
            /\ \A x \in DOMAIN m.requests : m2.requests[x] = m.requests[x]
            /\ m2.device = m.device /\ m2.stall = m.stall
<1> DEFINE e == [device |-> "PIM", bytes |-> b, kind |-> c, arrival_ns |-> to_ns(t),
                 start_ns |-> -1, channel |-> kAllChannels]
           q == Emplaced(m.requests, p, e)
           m2 == request_arrived(m, "PIM", p, b, c, t)
<1>1. m2 = [m EXCEPT !.requests = q]
  BY DEF request_arrived
<1>2. e \in Entry
  BY ToNs DEF Entry, kAllChannels
<1>3. DOMAIN q = DOMAIN m.requests \cup {p} /\ q[p] = e /\ \A y \in DOMAIN m.requests : q[y] = m.requests[y]
  BY DEF Emplaced
<1>4. q = [x \in DOMAIN q |-> q[x]]
  BY DEF Emplaced
<1> HIDE DEF e, q
<1>5. q \in [DOMAIN q -> Entry]
  BY <1>2, <1>3, <1>4 DEF MetricsType
<1>6. m2.requests = q /\ m2.device = m.device /\ m2.stall = m.stall
      /\ m2 = [requests |-> m2.requests, device |-> m2.device, stall |-> m2.stall]
  BY <1>1 DEF MetricsType
<1>7. MetricsType(m2)
  BY <1>5, <1>6 DEF MetricsType
<1> QED
  BY <1>3, <1>6, <1>7 DEF e

\* An entry that has got its start.
Restarted(f, e, s) ==
  /\ f.start_ns = s /\ f.channel = kAllChannels
  /\ f.device = e.device /\ f.kind = e.kind /\ f.bytes = e.bytes /\ f.arrival_ns = e.arrival_ns

\* request_started marks the entry and adds its wait to those of its kind.
LEMMA StartedEffect ==
  ASSUME NEW m, MetricsType(m), NEW p \in DOMAIN m.requests, NEW t \in Nat,
         m.requests[p].device = "PIM", m.requests[p].start_ns = -1,
         m.requests[p].arrival_ns <= to_ns(t)
  PROVE  LET m2 == request_started(m, "PIM", p, t, kAllChannels)
             e  == m.requests[p]
         IN /\ MetricsType(m2)
            /\ DOMAIN m2.requests = DOMAIN m.requests
            /\ Restarted(m2.requests[p], e, to_ns(t))
            /\ \A x \in DOMAIN m.requests : x # p => m2.requests[x] = m.requests[x]
            /\ m2.stall = m.stall
            /\ Pim(m2).per_channel = Pim(m).per_channel
            /\ \A c \in Class :
                 LET f == Pim(m).traffic[c]  g == Pim(m2).traffic[c]
                 IN /\ g.requests = f.requests /\ g.bytes = f.bytes
                    /\ g.service_intervals = f.service_intervals
                    /\ g.queue_wait_ns = f.queue_wait_ns
                                         + (IF c = e.kind THEN to_ns(t) - e.arrival_ns ELSE 0)
<1> DEFINE e == m.requests[p]  k == e.kind  s == to_ns(t)  w == s - e.arrival_ns
           f == Pim(m).traffic[k]
           e2 == [e EXCEPT !.start_ns = s, !.channel = kAllChannels]
           f2 == Waited(f, w)
           d2 == [Pim(m) EXCEPT !.traffic[k] = f2]
           q2 == [m.requests EXCEPT ![p] = e2]
           m2 == request_started(m, "PIM", p, t, kAllChannels)
<1>0. e \in Entry /\ k \in Class /\ e.arrival_ns \in Nat /\ s \in Nat /\ w \in Nat
  BY ToNs DEF MetricsType, Entry
<1>00. e.device = "PIM" /\ e.start_ns = -1 /\ e.arrival_ns <= s
  OBVIOUS
<1>a. Max({e.arrival_ns, s}) = s
  <2> HIDE DEF e, s
  <2> QED
    BY <1>0, <1>00, MaxOfTwo
<1>b. Pim(m) \in DeviceType /\ f \in TrafficType
  BY <1>0 DEF MetricsType, Pim, DeviceType
<1>1. m2 = [m EXCEPT !.requests = q2, !.device = [m.device EXCEPT !["PIM"] = d2]]
  <2>1. m2 = [m EXCEPT !.requests[p].start_ns = s, !.requests[p].channel = kAllChannels,
                       !.device["PIM"].traffic[k] = Waited(@, s - e.arrival_ns)]
    <3>1. ~(e.start_ns >= 0)
      BY <1>00
    <3> QED
      BY <1>a, <1>00, <3>1, Zenon DEF request_started
  <2> QED
    BY <2>1, <1>b, ZenonT(60) DEF Pim, MetricsType
<1>2. e2 \in Entry /\ Restarted(e2, e, s)
  <2> HIDE DEF s, e
  <2> DEFINE e1 == [e EXCEPT !.start_ns = s]
  <2>1. /\ e1.start_ns = s /\ e1.device = e.device /\ e1.kind = e.kind /\ e1.bytes = e.bytes
        /\ e1.arrival_ns = e.arrival_ns /\ e1 \in Entry
    BY <1>0 DEF Entry
  <2> HIDE DEF e1
  <2>2. [e1 EXCEPT !.channel = kAllChannels] \in Entry
    BY <2>1 DEF Entry, kAllChannels
  <2>3. Restarted([e1 EXCEPT !.channel = kAllChannels], e, s)
    BY <2>1 DEF Entry, Restarted
  <2> QED
    BY <2>2, <2>3 DEF e1
<1>3. /\ f2 \in TrafficType
      /\ f2.requests = f.requests /\ f2.bytes = f.bytes /\ f2.service_intervals = f.service_intervals
      /\ f2.queue_wait_ns = f.queue_wait_ns + w
  <2> HIDE DEF f, w
  <2>1. Max({f.max_queue_wait_ns, w}) \in Nat
    <3>1. f.max_queue_wait_ns \in Nat /\ w \in Nat
      BY <1>0, <1>b DEF TrafficType
    <3> QED
      BY <3>1, MaxOfTwo
  <2> DEFINE x == Max({f.max_queue_wait_ns, w})
  <2>2. f2 = [f EXCEPT !.queue_wait_ns = @ + w, !.max_queue_wait_ns = x,
                       !.queue_wait_samples = Append(@, w)]
    BY DEF Waited
  <2> HIDE DEF x, f2
  <2>3. f.queue_wait_ns + w \in Nat /\ Append(f.queue_wait_samples, w) \in Seq(Nat) /\ x \in Nat
    BY <1>0, <1>b, <2>1 DEF TrafficType, x
  <2>4. f2 \in TrafficType
    BY <1>b, <2>2, <2>3 DEF TrafficType
  <2> QED
    BY <1>b, <2>2, <2>4 DEF TrafficType
<1>4. /\ d2 \in DeviceType /\ d2.per_channel = Pim(m).per_channel
      /\ d2.traffic[k] = f2 /\ \A c \in Class : c # k => d2.traffic[c] = Pim(m).traffic[c]
  <2> HIDE DEF f2
  <2> QED
    BY <1>0, <1>b, <1>3 DEF DeviceType
<1>5. /\ q2 \in [DOMAIN m.requests -> Entry] /\ q2[p] = e2
      /\ \A x \in DOMAIN m.requests : x # p => q2[x] = m.requests[x]
  <2> HIDE DEF e2
  <2> QED
    BY <1>2 DEF MetricsType
<1> HIDE DEF d2, q2
<1>6. /\ m2.requests = q2 /\ m2.stall = m.stall /\ m2.device = [m.device EXCEPT !["PIM"] = d2]
      /\ m2 = [requests |-> m2.requests, device |-> m2.device, stall |-> m2.stall]
  BY <1>1 DEF MetricsType
<1>7. Pim(m2) = d2 /\ m2.device \in [{"DRAM", "PIM"} -> DeviceType]
  BY <1>4, <1>6 DEF MetricsType, Pim
<1> HIDE DEF m2
<1>8. MetricsType(m2)
  BY <1>5, <1>6, <1>7 DEF MetricsType
<1>9. DOMAIN m2.requests = DOMAIN m.requests
  BY <1>5, <1>6
<1>10. ASSUME NEW c \in Class
       PROVE  LET h == Pim(m).traffic[c]  g == Pim(m2).traffic[c]
              IN /\ g.requests = h.requests /\ g.bytes = h.bytes
                 /\ g.service_intervals = h.service_intervals
                 /\ g.queue_wait_ns = h.queue_wait_ns + (IF c = k THEN w ELSE 0)
  <2>1. CASE c = k
    <3> HIDE DEF f2, w
    <3> QED
      BY <2>1, <1>3, <1>4, <1>7
  <2>2. CASE c # k
    <3>1. Pim(m).traffic[c].queue_wait_ns \in Nat
      BY <1>b, <1>10 DEF DeviceType, TrafficType
    <3> QED
      BY <2>2, <3>1, <1>4, <1>7
  <2> QED
    BY <2>1, <2>2
<1> QED
  BY <1>2, <1>4, <1>5, <1>6, <1>7, <1>8, <1>9, <1>10 DEF m2

\* The share of a channel is a natural number.
LEMMA ShareNat ==
  ASSUME NEW b \in Nat, NEW id \in 0..(Channels - 1)
  PROVE  ChannelShare(b, id) \in Nat
<1> DEFINE q == b \div Channels
<1>1. q \in Nat
  BY ChannelsAssumption, Division
<1> HIDE DEF q
<1>2. ChannelShare(b, id) = q + 0 \/ ChannelShare(b, id) = q + 1
  BY DEF ChannelShare, q
<1> QED
  BY <1>1, <1>2

\* A transfer is spread over all the channels.
LEMMA SpreadEffect ==
  ASSUME NEW h \in [0..(Channels - 1) -> ChannelType], NEW e \in Entry, e.channel = kAllChannels,
         NEW i \in Interval
  PROVE  LET g == add_channel_service(h, e, i)
         IN /\ g \in [0..(Channels - 1) -> ChannelType]
            /\ \A id \in 0..(Channels - 1) : g[id].bytes = h[id].bytes + ChannelShare(e.bytes, id)
<1> DEFINE g == add_channel_service(h, e, i)
<1>1. kAllChannels \notin 0..(Channels - 1)
  BY ChannelsAssumption DEF kAllChannels
<1>2. g = [id \in 0..(Channels - 1) |-> Serviced(h[id], ChannelShare(e.bytes, id), i)]
  BY <1>1 DEF add_channel_service
<1>3. ASSUME NEW id \in 0..(Channels - 1)
      PROVE  /\ Serviced(h[id], ChannelShare(e.bytes, id), i) \in ChannelType
             /\ Serviced(h[id], ChannelShare(e.bytes, id), i).bytes = h[id].bytes + ChannelShare(e.bytes, id)
  <2>1. ChannelShare(e.bytes, id) \in Nat
    BY <1>3, ShareNat DEF Entry
  <2>2. h[id] \in ChannelType
    BY <1>3
  <2> QED
    BY <2>1, <2>2 DEF Serviced, ChannelType
<1> HIDE DEF g
<1> QED
  BY <1>2, <1>3 DEF g

\* m2 are the metrics m without the entry e of p, which is counted up to t.
CompletedAs(m, m2, e, p, t) ==
  /\ MetricsType(m2)
  /\ DOMAIN m2.requests = DOMAIN m.requests \ {p}
  /\ \A x \in DOMAIN m2.requests : m2.requests[x] = m.requests[x]
  /\ m2.stall = m.stall
  /\ \A c \in Class :
       LET f == Pim(m).traffic[c]  g == Pim(m2).traffic[c]
       IN /\ g.queue_wait_ns = f.queue_wait_ns
          /\ c # e.kind => g = f
          /\ c = e.kind =>
               /\ g.requests = f.requests + 1 /\ g.bytes = f.bytes + e.bytes
               /\ g.service_intervals = Append(f.service_intervals, <<e.start_ns, to_ns(t)>>)
  /\ \A id \in 0..(Channels - 1) :
       Pim(m2).per_channel[id].bytes = Pim(m).per_channel[id].bytes + ChannelShare(e.bytes, id)

\* A request that was started is counted and forgotten.
LEMMA CompletedEffect ==
  ASSUME NEW m, MetricsType(m), NEW p \in DOMAIN m.requests, NEW t \in Nat,
         m.requests[p].device = "PIM", m.requests[p].start_ns \in Nat,
         m.requests[p].channel = kAllChannels, m.requests[p].start_ns <= to_ns(t)
  PROVE  CompletedAs(m, request_completed(m, "PIM", p, t), m.requests[p], p, t)
<1> DEFINE e == m.requests[p]  k == e.kind  s == to_ns(t)  i == <<e.start_ns, s>>
           f == Pim(m).traffic[k]
           q2 == Forget(m.requests, p)
           m1 == [m EXCEPT !.requests = q2]
           f2 == Carried(f, e.bytes, i)
           h2 == add_channel_service(Pim(m).per_channel, e, i)
           d2 == [Pim(m) EXCEPT !.traffic[k] = f2, !.per_channel = h2]
           m2 == request_completed(m, "PIM", p, t)
<1>0. /\ e \in Entry /\ k \in Class /\ e.bytes \in Nat /\ s \in Nat
      /\ e.device = "PIM" /\ e.start_ns \in Nat /\ e.channel = kAllChannels /\ e.start_ns <= s
  BY ToNs DEF MetricsType, Entry
<1>a. Max({e.start_ns, s}) = s /\ ~(e.start_ns < 0)
  <2> HIDE DEF e, s
  <2> QED
    BY <1>0, MaxOfTwo
<1>b. Pim(m) \in DeviceType /\ f \in TrafficType
  BY <1>0 DEF MetricsType, Pim, DeviceType
<1>i. i \in Interval
  <2> HIDE DEF e, s
  <2> QED
    BY <1>0 DEF Interval
<1>1. /\ m1.requests = q2 /\ m1.device = m.device /\ m1.stall = m.stall
      /\ m1 = [requests |-> q2, device |-> m.device, stall |-> m.stall]
  <2> HIDE DEF q2
  <2> QED
    BY DEF MetricsType
<1>2. m2 = Counted(m1, "PIM", e, i)
  BY <1>0, <1>a, Zenon DEF request_completed
<1>3. m2 = [m1 EXCEPT !.device["PIM"].traffic[k] = Carried(@, e.bytes, i),
                      !.device["PIM"].per_channel = add_channel_service(@, e, i)]
  BY <1>2, Zenon DEF Counted
<1>4. m2 = [m1 EXCEPT !.device = [m.device EXCEPT !["PIM"] = d2]]
  <2> HIDE DEF m2, m1, i, e, k
  <2> DEFINE d1 == [Pim(m) EXCEPT !.traffic[k] = f2]
             x1 == [m1 EXCEPT !.device["PIM"].traffic[k] = Carried(@, e.bytes, i)]
  <2>1. x1 = [m1 EXCEPT !.device = [m.device EXCEPT !["PIM"] = d1]]
    <3>1. m1.device["PIM"].traffic[k] = f /\ m1.device["PIM"] = Pim(m)
      BY <1>1 DEF Pim
    <3>2. x1 = [m1 EXCEPT !.device["PIM"].traffic[k] = f2]
      BY <3>1
    <3> HIDE DEF f2, f
    <3> QED
      BY <1>1, <3>1, <3>2
  <2>2. m2 = [x1 EXCEPT !.device["PIM"].per_channel = add_channel_service(@, e, i)]
    BY <1>3
  <2>3. d2 = [d1 EXCEPT !.per_channel = h2] /\ d1.per_channel = Pim(m).per_channel
    BY <1>b DEF DeviceType
  <2> HIDE DEF d1, x1, d2
  <2>4. x1.device = [m.device EXCEPT !["PIM"] = d1] /\ x1.device["PIM"] = d1
    BY <1>1, <2>1 DEF MetricsType
  <2>5. m2 = [x1 EXCEPT !.device = [m.device EXCEPT !["PIM"] = d2]]
    BY <2>2, <2>3, <2>4 DEF MetricsType
  <2> QED
    BY <1>1, <2>1, <2>5
<1>5. h2 \in [0..(Channels - 1) -> ChannelType]
      /\ \A id \in 0..(Channels - 1) :
           h2[id].bytes = Pim(m).per_channel[id].bytes + ChannelShare(e.bytes, id)
  <2>1. Pim(m).per_channel \in [0..(Channels - 1) -> ChannelType]
    BY <1>b DEF DeviceType
  <2> HIDE DEF i, e
  <2> QED
    BY <1>0, <1>i, <2>1, SpreadEffect
<1>6. /\ f2 \in TrafficType /\ f2.requests = f.requests + 1 /\ f2.bytes = f.bytes + e.bytes
      /\ f2.queue_wait_ns = f.queue_wait_ns
      /\ f2.service_intervals = Append(f.service_intervals, i)
  <2> HIDE DEF f, e, i
  <2>1. /\ f.requests + 1 \in Nat /\ f.bytes + e.bytes \in Nat
        /\ Append(f.service_intervals, i) \in Seq(Interval)
    BY <1>0, <1>b, <1>i, SMTT(60) DEF TrafficType
  <2>2. f2 \in TrafficType
    BY <1>b, <2>1 DEF TrafficType, Carried
  <2> QED
    BY <1>b, <2>2 DEF TrafficType, Carried
<1>7. /\ d2 \in DeviceType /\ d2.per_channel = h2
      /\ d2.traffic[k] = f2 /\ \A c \in Class : c # k => d2.traffic[c] = Pim(m).traffic[c]
  <2> HIDE DEF f2, h2
  <2> DEFINE d1 == [Pim(m) EXCEPT !.traffic[k] = f2]
  <2>1. /\ d1 \in DeviceType /\ d1.traffic[k] = f2
        /\ \A c \in Class : c # k => d1.traffic[c] = Pim(m).traffic[c]
    BY <1>0, <1>b, <1>6 DEF DeviceType
  <2> HIDE DEF d1
  <2>2. d2 = [d1 EXCEPT !.per_channel = h2]
    BY DEF d1
  <2> QED
    BY <1>5, <2>1, <2>2 DEF DeviceType
<1>8. /\ DOMAIN q2 = DOMAIN m.requests \ {p} /\ q2 \in [DOMAIN q2 -> Entry]
      /\ \A x \in DOMAIN q2 : q2[x] = m.requests[x]
  BY DEF Forget, MetricsType
<1> HIDE DEF d2, q2, m1
<1>9. /\ m2.requests = q2 /\ m2.stall = m.stall /\ m2.device = [m.device EXCEPT !["PIM"] = d2]
      /\ m2 = [requests |-> m2.requests, device |-> m2.device, stall |-> m2.stall]
  <2> HIDE DEF m2
  <2> QED
    BY <1>1, <1>4
<1>10. Pim(m2) = d2 /\ m2.device \in [{"DRAM", "PIM"} -> DeviceType]
  <2> HIDE DEF m2
  <2> QED
    BY <1>7, <1>9 DEF MetricsType, Pim
<1> HIDE DEF m2
<1>11. MetricsType(m2)
  BY <1>8, <1>9, <1>10 DEF MetricsType
<1>12. ASSUME NEW c \in Class
       PROVE  LET h == Pim(m).traffic[c]  g == Pim(m2).traffic[c]
              IN /\ g.queue_wait_ns = h.queue_wait_ns
                 /\ c # k => g = h
                 /\ c = k => /\ g.requests = h.requests + 1 /\ g.bytes = h.bytes + e.bytes
                             /\ g.service_intervals = Append(h.service_intervals, i)
  <2>1. CASE c = k
    <3> HIDE DEF f2, e, i
    <3> QED
      BY <2>1, <1>6, <1>7, <1>10
  <2>2. CASE c # k
    BY <2>2, <1>7, <1>10
  <2> QED
    BY <2>1, <2>2
<1> QED
  BY <1>5, <1>7, <1>8, <1>9, <1>10, <1>11, <1>12 DEF CompletedAs, m2

\* A stall is added to the stalls of its kind.
LEMMA StallEffect ==
  ASSUME NEW m, MetricsType(m), NEW a \in Nat, NEW b \in Nat, a <= b, NEW c \in Class
  PROVE  LET m2 == record_pim_resource_stall(m, a, b, c)
         IN /\ MetricsType(m2) /\ m2.requests = m.requests /\ m2.device = m.device
            /\ m2.stall = [m.stall EXCEPT ![c] = @ + (to_ns(b) - to_ns(a))]
<1> DEFINE x == to_ns(a)  y == to_ns(b)  s2 == [m.stall EXCEPT ![c] = @ + (y - x)]
           m2 == record_pim_resource_stall(m, a, b, c)
<1>1. x \in Nat /\ y \in Nat /\ x <= y
  BY ToNs
<1>2. m2 = [m EXCEPT !.stall[c] = @ + Max({0, y - x})]
  BY DEF record_pim_resource_stall
<1> HIDE DEF x, y, m2
<1>3. Max({0, y - x}) = y - x /\ y - x \in Nat
  <2>1. y - x \in Int /\ 0 \in Int
    BY <1>1
  <2> QED
    BY <1>1, <2>1, MaxOfTwo
<1>4. m2 = [m EXCEPT !.stall = s2]
  BY <1>2, <1>3 DEF MetricsType
<1>5. s2 \in [Class -> Nat]
  BY <1>3 DEF MetricsType
<1> HIDE DEF s2
<1>6. /\ m2.stall = s2 /\ m2.requests = m.requests /\ m2.device = m.device
      /\ m2 = [requests |-> m2.requests, device |-> m2.device, stall |-> m2.stall]
  BY <1>4 DEF MetricsType
<1>7. MetricsType(m2)
  BY <1>5, <1>6 DEF MetricsType
<1> QED
  BY <1>6, <1>7 DEF m2, s2, x, y

\* h is f + g on S.
Plus(f, g, h, S) == \A x \in S : f[x] \in Nat /\ g[x] \in Nat /\ h[x] = f[x] + g[x]

\* The sum of f + g is the one sum plus the other.
LEMMA SumPlus ==
  ASSUME NEW S, IsFiniteSet(S), NEW f, NEW g, NEW h, Plus(f, g, h, S)
  PROVE  SumFunctionOnSet(h, S) = SumFunctionOnSet(f, S) + SumFunctionOnSet(g, S)
<1> DEFINE Good(s) == SumFunctionOnSet(h, s) = SumFunctionOnSet(f, s) + SumFunctionOnSet(g, s)
           Bad == {n \in Nat : \E t \in SUBSET S : Cardinality(t) = n /\ ~Good(t)}
<1>1. SUFFICES ASSUME Bad # {} PROVE FALSE
  <2>1. Cardinality(S) \in Nat /\ S \in SUBSET S
    BY FS_CardinalityType
  <2>2. Good(S)
    BY <2>1
  <2> QED
    BY <2>2
<1>2. PICK n \in Bad : \A m \in Bad : n <= m
  <2>1. Bad \in SUBSET Nat
    OBVIOUS
  <2> HIDE DEF Bad
  <2> QED
    BY <1>1, <2>1, Least
<1>3. PICK t \in SUBSET S : Cardinality(t) = n /\ ~Good(t)
  BY <1>2
<1>4. IsFiniteSet(t) /\ n \in Nat
  BY <1>2, FS_Subset
<1>5. t # {}
  BY <1>3, SumEmpty
<1>6. PICK x \in t : TRUE
  BY <1>5
<1> DEFINE u == t \ {x}
<1>7. IsFiniteSet(u) /\ Cardinality(u) = n - 1 /\ Cardinality(u) \in Nat /\ u \in SUBSET S
  BY <1>3, <1>4, FS_RemoveElement, FS_CardinalityType
<1>8. Good(u)
  <2> HIDE DEF Good, u
  <2> QED
    BY <1>2, <1>4, <1>7
<1>9. \A y \in t : f[y] \in Nat /\ g[y] \in Nat /\ h[y] = f[y] + g[y] /\ h[y] \in Nat
  BY DEF Plus
<1>10. /\ SumFunctionOnSet(f, t) = f[x] + SumFunctionOnSet(f, u)
       /\ SumFunctionOnSet(g, t) = g[x] + SumFunctionOnSet(g, u)
       /\ SumFunctionOnSet(h, t) = h[x] + SumFunctionOnSet(h, u)
  BY <1>4, <1>6, <1>9, SumFacts
<1>11. SumFunctionOnSet(f, u) \in Nat /\ SumFunctionOnSet(g, u) \in Nat
  BY <1>7, <1>9, SumFacts
<1> QED
  BY <1>3, <1>6, <1>8, <1>9, <1>10, <1>11

\* The shares of the channels add up to the size of a transfer.
LEMMA SharesAddUp ==
  ASSUME NEW b \in Nat, NEW s, \A id \in 0..(Channels - 1) : s[id] = ChannelShare(b, id)
  PROVE  SumFunctionOnSet(s, 0..(Channels - 1)) = b
<1> DEFINE C == Channels  q == b \div C  R == b % C
           Good(n) == SumFunctionOnSet(s, 0..(n - 1)) = n * q + (IF n <= R THEN n ELSE R)
           Bad == {n \in 0..C : ~Good(n)}
<1>0. C \in Nat \ {0} /\ q \in Nat /\ R \in 0..(C - 1) /\ b = C * q + R
  BY ChannelsAssumption, Division
<1>a. \A id \in 0..(C - 1) : s[id] = q + (IF id < R THEN 1 ELSE 0) /\ s[id] \in Nat
  <2>1. \A id \in 0..(C - 1) : s[id] = q + (IF id < R THEN 1 ELSE 0)
    BY DEF ChannelShare
  <2> HIDE DEF q, R, C
  <2> QED
    BY <1>0, <2>1
<1> HIDE DEF q, R
<1>1. SUFFICES ASSUME Bad # {} PROVE FALSE
  <2>1. Good(C)
    <3>1. C \in 0..C
      BY <1>0
    <3> HIDE DEF Good
    <3> QED
      BY <3>1
  <2>2. SumFunctionOnSet(s, 0..(C - 1)) = C * q + R
    BY <1>0, <2>1
  <2> QED
    BY <1>0, <2>2
<1>2. PICK n \in Bad : \A m \in Bad : n <= m
  <2>1. Bad \in SUBSET Nat
    BY <1>0
  <2> HIDE DEF Bad
  <2> QED
    BY <1>1, <2>1, Least
<1>3. n \in 0..C /\ ~Good(n) /\ n \in Nat
  BY <1>0, <1>2
<1>4. n # 0
  <2>1. 0..(0 - 1) = {}
    BY SMT
  <2>2. Good(0)
    BY <1>0, <2>1, SumEmpty
  <2> QED
    BY <1>3, <2>2
<1> DEFINE j == n - 1
<1>5. j \in 0..(C - 1) /\ n = j + 1 /\ j \in Nat /\ j \in 0..C /\ j < n
  BY <1>0, <1>3, <1>4
<1>6. Good(j)
  <2> HIDE DEF Good, j
  <2> QED
    BY <1>0, <1>2, <1>3, <1>5
<1> HIDE DEF j
<1>7. 0..j = (0..(j - 1)) \cup {j} /\ j \notin 0..(j - 1) /\ IsFiniteSet(0..(j - 1)) /\ n - 1 = j
  BY <1>5, FS_Interval, SMTT(60)
<1>8. SumFunctionOnSet(s, 0..j) = s[j] + SumFunctionOnSet(s, 0..(j - 1))
  <2>1. \A y \in (0..(j - 1)) \cup {j} : s[y] \in Nat
    BY <1>0, <1>5, <1>a
  <2> DEFINE S == 0..(j - 1)
  <2>2. IsFiniteSet(S) /\ j \notin S /\ (\A y \in S \cup {j} : s[y] \in Nat) /\ 0..j = S \cup {j}
    BY <1>7, <2>1
  <2> HIDE DEF S
  <2>3. SumFunctionOnSet(s, S \cup {j}) = s[j] + SumFunctionOnSet(s, S)
    BY <2>2, SumAdd
  <2> QED
    BY <2>2, <2>3 DEF S
<1>9. s[j] = q + (IF j < R THEN 1 ELSE 0)
  BY <1>5, <1>a
<1>10. n * q = j * q + q /\ j * q \in Nat
  BY <1>0, <1>5
<1>11. Good(n)
  <2> DEFINE x == j * q  y == n * q
  <2>1. SumFunctionOnSet(s, 0..(n - 1)) = (q + (IF j < R THEN 1 ELSE 0)) + (x + (IF j <= R THEN j ELSE R))
    BY <1>6, <1>7, <1>8, <1>9
  <2>2. y = x + q /\ x \in Nat
    BY <1>10
  <2> HIDE DEF x, y
  <2>3. (q + (IF j < R THEN 1 ELSE 0)) + (x + (IF j <= R THEN j ELSE R)) = y + (IF n <= R THEN n ELSE R)
    BY <1>0, <1>5, <2>2
  <2> QED
    BY <2>1, <2>3 DEF y
<1> QED
  BY <1>3, <1>11

-----------------------------------------------------------------------------
(* The books: K are the requests that the device knows, D the ones it      *)
(* serves, G the ones that it has served                                   *)

\* The entry e is that of r.
EntryOf(e, r, D) ==
  /\ e.device = "PIM" /\ e.kind = ClassOf(r) /\ e.bytes = r.bytes /\ e.channel = kAllChannels
  /\ IF r \in D THEN e.start_ns \in Nat ELSE e.start_ns = -1

\* No two of them share a payload.
PtrsApart(K) == \A q, r \in K : q.ptr = r.ptr => q = r

\* There is one entry for each.
Entered(m, K, D) ==
  /\ K \subseteq Requests /\ D \subseteq K /\ PtrsApart(K)
  /\ DOMAIN m.requests = {r.ptr : r \in K}
  /\ \A r \in K : EntryOf(m.requests[r.ptr], r, D)

\* Those of one class.
OfKind(G, c) == {r \in G : ClassOf(r) = c}

\* The totals are those of G, by class and over the channels.
Totalled(m, G) ==
  /\ IsFiniteSet(G) /\ G \subseteq Requests
  /\ \A c \in Class : /\ Pim(m).traffic[c].requests = Cardinality(OfKind(G, c))
                      /\ Pim(m).traffic[c].bytes = SumBytes(OfKind(G, c))
  /\ SumFunction([id \in 0..(Channels - 1) |-> Pim(m).per_channel[id].bytes]) = SumBytes(G)

\* The books of the metrics.
Books(m, K, D, G) == MetricsType(m) /\ Entered(m, K, D) /\ Totalled(m, G)

\* One more request.
LEMMA SumBytesAdd ==
  ASSUME NEW G, IsFiniteSet(G), G \subseteq Requests, NEW r \in Requests, r \notin G
  PROVE  /\ SumBytes(G \cup {r}) = SumBytes(G) + r.bytes
         /\ SumBytes(G) \in Nat /\ r.bytes \in Nat
<1> DEFINE H == G \cup {r}  f == [x \in H |-> x.bytes]  g == [x \in G |-> x.bytes]
<1>1. DOMAIN f = H /\ DOMAIN g = G /\ (\A x \in H : f[x] = x.bytes) /\ \A x \in G : g[x] = x.bytes
  OBVIOUS
<1>2. \A x \in H : f[x] \in Nat /\ x.bytes \in Nat
  BY <1>1, TimedAssumption
<1>3. SumBytes(H) = SumFunctionOnSet(f, H) /\ SumBytes(G) = SumFunctionOnSet(g, G)
  BY <1>1 DEF SumBytes, SumFunction
<1> HIDE DEF f, g
<1>4. /\ SumFunctionOnSet(f, G \cup {r}) = f[r] + SumFunctionOnSet(f, G)
      /\ SumFunctionOnSet(f, G) \in Nat
  BY <1>2, SumAdd
<1>5. SumFunctionOnSet(f, G) = SumFunctionOnSet(g, G)
  BY <1>1, SumSame
<1> QED
  BY <1>1, <1>2, <1>3, <1>4, <1>5

\* A request arrives.
LEMMA BooksArrived ==
  ASSUME NEW m, NEW K, NEW D, NEW G, Books(m, K, D, G), NEW t \in Nat,
         NEW r \in Requests, \A q \in K : q.ptr # r.ptr
  PROVE  LET m2 == request_arrived(m, "PIM", r.ptr, Bytes(r), ClassOf(r), t)
         IN /\ Books(m2, K \cup {r}, D, G)
            /\ \A q \in K : m2.requests[q.ptr] = m.requests[q.ptr]
            /\ m2.requests[r.ptr].arrival_ns = to_ns(t)
            /\ m2.device = m.device /\ m2.stall = m.stall
<1> DEFINE m2 == request_arrived(m, "PIM", r.ptr, Bytes(r), ClassOf(r), t)
           e == [device |-> "PIM", bytes |-> r.bytes, kind |-> ClassOf(r), arrival_ns |-> to_ns(t),
                 start_ns |-> -1, channel |-> kAllChannels]
<1>1. MetricsType(m) /\ Entered(m, K, D) /\ Totalled(m, G)
  BY DEF Books
<1>2. Bytes(r) = r.bytes /\ r.bytes \in Nat /\ ClassOf(r) \in Class
  BY TimedAssumption, FieldsGiveSize DEF Bytes, ClassOf, Class
<1>3. r.ptr \notin DOMAIN m.requests
  BY <1>1 DEF Entered
<1>4. /\ MetricsType(m2) /\ DOMAIN m2.requests = DOMAIN m.requests \cup {r.ptr}
      /\ m2.requests[r.ptr] = e
      /\ \A x \in DOMAIN m.requests : m2.requests[x] = m.requests[x]
      /\ m2.device = m.device /\ m2.stall = m.stall
  BY <1>1, <1>2, <1>3, ArrivedEffect
<1> HIDE DEF m2
<1>7. r \notin D
  BY <1>1 DEF Entered
<1>5. EntryOf(m2.requests[r.ptr], r, D) /\ m2.requests[r.ptr].arrival_ns = to_ns(t)
  BY <1>4, <1>7 DEF EntryOf
<1>6. \A q \in K : m2.requests[q.ptr] = m.requests[q.ptr]
  BY <1>1, <1>4 DEF Entered
<1>8. Entered(m2, K \cup {r}, D)
  <2>1. PtrsApart(K \cup {r})
    BY <1>1 DEF Entered, PtrsApart
  <2>2. DOMAIN m2.requests = {q.ptr : q \in K \cup {r}}
    BY <1>1, <1>4 DEF Entered
  <2>3. \A q \in K \cup {r} : EntryOf(m2.requests[q.ptr], q, D)
    BY <1>1, <1>5, <1>6 DEF Entered
  <2> QED
    BY <1>1, <2>1, <2>2, <2>3 DEF Entered
<1>9. Totalled(m2, G)
  BY <1>1, <1>4 DEF Totalled, Pim
<1> QED
  BY <1>4, <1>5, <1>6, <1>8, <1>9 DEF Books, m2

\* The books m2 when r of K has started at s: its entry and its wait only.
StartBooked(m, m2, K, D, G, r, s) ==
  /\ Books(m2, K, D \cup {r}, G)
  /\ \A q \in K : q # r => m2.requests[q.ptr] = m.requests[q.ptr]
  /\ m2.requests[r.ptr].start_ns = to_ns(s)
  /\ m2.requests[r.ptr].arrival_ns = m.requests[r.ptr].arrival_ns
  /\ m2.stall = m.stall
  /\ \A c \in Class :
       /\ Pim(m2).traffic[c].service_intervals = Pim(m).traffic[c].service_intervals
       /\ Pim(m2).traffic[c].queue_wait_ns =
            Pim(m).traffic[c].queue_wait_ns
            + (IF c = ClassOf(r) THEN to_ns(s) - m.requests[r.ptr].arrival_ns ELSE 0)

\* A request starts.
LEMMA BooksStarted ==
  ASSUME NEW m, NEW K, NEW D, NEW G, Books(m, K, D, G), NEW t \in Nat,
         NEW r \in K, r \notin D, m.requests[r.ptr].arrival_ns <= to_ns(t)
  PROVE  StartBooked(m, request_started(m, "PIM", r.ptr, t, kAllChannels), K, D, G, r, t)
<1> DEFINE p == r.ptr  e == m.requests[p]  m2 == request_started(m, "PIM", p, t, kAllChannels)
<1>1. MetricsType(m) /\ Entered(m, K, D) /\ Totalled(m, G)
  BY DEF Books
<1>2. EntryOf(e, r, D) /\ p \in DOMAIN m.requests
  BY <1>1 DEF Entered
<1>3. e.device = "PIM" /\ e.start_ns = -1 /\ e.kind = ClassOf(r) /\ e \in Entry
  BY <1>1, <1>2 DEF EntryOf, MetricsType
<1>4. /\ MetricsType(m2) /\ DOMAIN m2.requests = DOMAIN m.requests
      /\ Restarted(m2.requests[p], e, to_ns(t))
      /\ \A x \in DOMAIN m.requests : x # p => m2.requests[x] = m.requests[x]
      /\ m2.stall = m.stall
      /\ Pim(m2).per_channel = Pim(m).per_channel
      /\ \A c \in Class :
           LET f == Pim(m).traffic[c]  g == Pim(m2).traffic[c]
           IN /\ g.requests = f.requests /\ g.bytes = f.bytes
              /\ g.service_intervals = f.service_intervals
              /\ g.queue_wait_ns = f.queue_wait_ns
                                   + (IF c = e.kind THEN to_ns(t) - e.arrival_ns ELSE 0)
  <2>1. /\ p \in DOMAIN m.requests /\ m.requests[p].device = "PIM" /\ m.requests[p].start_ns = -1
        /\ m.requests[p].arrival_ns <= to_ns(t)
    BY <1>2, <1>3
  <2> HIDE DEF p
  <2> QED
    BY <1>1, <2>1, StartedEffect
<1> HIDE DEF m2
<1>5. /\ EntryOf(m2.requests[p], r, D \cup {r}) /\ m2.requests[p].start_ns = to_ns(t)
      /\ m2.requests[p].arrival_ns = e.arrival_ns
  BY <1>2, <1>4, ToNs DEF Restarted, EntryOf
<1>6. \A q \in K : q # r => m2.requests[q.ptr] = m.requests[q.ptr]
  BY <1>1, <1>4 DEF Entered, PtrsApart
<1>8. Entered(m2, K, D \cup {r})
  <2>2. DOMAIN m2.requests = {q.ptr : q \in K}
    BY <1>1, <1>4 DEF Entered
  <2>3. \A q \in K : EntryOf(m2.requests[q.ptr], q, D \cup {r})
    <3> SUFFICES ASSUME NEW q \in K PROVE EntryOf(m2.requests[q.ptr], q, D \cup {r})
      OBVIOUS
    <3>1. CASE q = r
      BY <1>5, <3>1 DEF EntryOf
    <3>2. CASE q # r
      <4>1. EntryOf(m.requests[q.ptr], q, D) /\ (q \in D <=> q \in D \cup {r})
        BY <1>1, <3>2 DEF Entered
      <4> QED
        BY <1>6, <3>2, <4>1 DEF EntryOf
    <3> QED
      BY <3>1, <3>2
  <2> QED
    BY <1>1, <2>2, <2>3 DEF Entered
<1>9. Totalled(m2, G)
  BY <1>1, <1>4 DEF Totalled
<1>10. StartBooked(m, m2, K, D, G, r, t)
  BY <1>3, <1>4, <1>5, <1>6, <1>8, <1>9 DEF Books, StartBooked
<1> QED
  BY <1>10 DEF m2

\* The totals of the kinds when one more request has been served.
LEMMA KindsCounted ==
  ASSUME NEW G, IsFiniteSet(G), G \subseteq Requests, NEW r \in Requests, r \notin G, NEW c \in Class
  PROVE  /\ Cardinality(OfKind(G \cup {r}, c))
              = Cardinality(OfKind(G, c)) + (IF c = ClassOf(r) THEN 1 ELSE 0)
         /\ SumBytes(OfKind(G \cup {r}, c))
              = SumBytes(OfKind(G, c)) + (IF c = ClassOf(r) THEN r.bytes ELSE 0)
<1> DEFINE H == OfKind(G, c)
<1>1. IsFiniteSet(H) /\ H \subseteq Requests /\ r \notin H /\ Cardinality(H) \in Nat
  BY FS_Subset, FS_CardinalityType DEF OfKind
<1>2. SumBytes(H) \in Nat
  <2> HIDE DEF H
  <2> QED
    BY <1>1, SumBytesAdd
<1>3. CASE c = ClassOf(r)
  <2>1. OfKind(G \cup {r}, c) = H \cup {r}
    BY <1>3 DEF OfKind
  <2> HIDE DEF H
  <2>2. Cardinality(H \cup {r}) = Cardinality(H) + 1
    BY <1>1, FS_AddElement
  <2>3. SumBytes(H \cup {r}) = SumBytes(H) + r.bytes
    BY <1>1, SumBytesAdd
  <2> QED
    BY <1>3, <2>1, <2>2, <2>3 DEF H
<1>4. CASE c # ClassOf(r)
  <2>1. OfKind(G \cup {r}, c) = H
    BY <1>4 DEF OfKind
  <2> HIDE DEF H
  <2> QED
    BY <1>1, <1>2, <1>4, <2>1 DEF H
<1> QED
  BY <1>3, <1>4

\* The request r may complete at t; the books once it has; and what that adds.
MayComplete(m, K, D, G, r, t) ==
  Books(m, K, D, G) /\ r \in D /\ r \notin G /\ m.requests[r.ptr].start_ns <= to_ns(t)
BooksComplete(m, r, t) == request_completed(m, "PIM", r.ptr, t)
CompletionAdds(m, m2, K, r, t) ==
  /\ \A q \in K \ {r} : m2.requests[q.ptr] = m.requests[q.ptr]
  /\ m2.stall = m.stall
  /\ \A c \in Class :
       /\ Pim(m2).traffic[c].queue_wait_ns = Pim(m).traffic[c].queue_wait_ns
       /\ Pim(m2).traffic[c].service_intervals =
            IF c = ClassOf(r)
            THEN Append(Pim(m).traffic[c].service_intervals, <<m.requests[r.ptr].start_ns, to_ns(t)>>)
            ELSE Pim(m).traffic[c].service_intervals

\* A request is complete.
LEMMA BooksCompleted ==
  ASSUME NEW m, NEW K, NEW D, NEW G, NEW t \in Nat, NEW r \in D, MayComplete(m, K, D, G, r, t)
  PROVE  /\ Books(BooksComplete(m, r, t), K \ {r}, D \ {r}, G \cup {r})
         /\ CompletionAdds(m, BooksComplete(m, r, t), K, r, t)
<1>0. Books(m, K, D, G) /\ r \notin G /\ m.requests[r.ptr].start_ns <= to_ns(t)
  BY DEF MayComplete
<1> USE <1>0
<1> DEFINE p == r.ptr  e == m.requests[p]  m2 == request_completed(m, "PIM", p, t)
<1>1. MetricsType(m) /\ Entered(m, K, D) /\ Totalled(m, G)
  BY DEF Books
<1>2. EntryOf(e, r, D) /\ p \in DOMAIN m.requests /\ r \in K /\ r \in Requests
  BY <1>1 DEF Entered
<1>3. /\ e.device = "PIM" /\ e.start_ns \in Nat /\ e.kind = ClassOf(r) /\ e.bytes = r.bytes
      /\ e.channel = kAllChannels
  BY <1>2 DEF EntryOf
<1>4. /\ MetricsType(m2)
      /\ DOMAIN m2.requests = DOMAIN m.requests \ {p}
      /\ \A x \in DOMAIN m2.requests : m2.requests[x] = m.requests[x]
      /\ m2.stall = m.stall
      /\ \A c \in Class :
           LET f == Pim(m).traffic[c]  g == Pim(m2).traffic[c]
           IN /\ g.queue_wait_ns = f.queue_wait_ns
              /\ c # e.kind => g = f
              /\ c = e.kind =>
                   /\ g.requests = f.requests + 1 /\ g.bytes = f.bytes + e.bytes
                   /\ g.service_intervals = Append(f.service_intervals, <<e.start_ns, to_ns(t)>>)
      /\ \A id \in 0..(Channels - 1) :
           Pim(m2).per_channel[id].bytes
             = Pim(m).per_channel[id].bytes + ChannelShare(e.bytes, id)
  <2>1. /\ m.requests[p].device = "PIM" /\ m.requests[p].start_ns \in Nat
        /\ m.requests[p].channel = kAllChannels /\ m.requests[p].start_ns <= to_ns(t)
        /\ MetricsType(m) /\ p \in DOMAIN m.requests
    BY <1>1, <1>2, <1>3
  <2> HIDE DEF p
  <2>2. CompletedAs(m, m2, e, p, t)
    BY ONLY <2>1, CompletedEffect, ZenonT(30)
  <2> HIDE DEF m2, e
  <2> QED
    BY <2>2 DEF CompletedAs
<1> HIDE DEF m2
<1>5. \A q \in K \ {r} : q.ptr # p /\ q.ptr \in DOMAIN m2.requests /\ m2.requests[q.ptr] = m.requests[q.ptr]
  BY <1>1, <1>2, <1>4 DEF Entered, PtrsApart
<1>6. Entered(m2, K \ {r}, D \ {r})
  <2>1. PtrsApart(K \ {r}) /\ K \ {r} \subseteq Requests /\ D \ {r} \subseteq K \ {r}
    BY <1>1 DEF Entered, PtrsApart
  <2>2. DOMAIN m2.requests = {q.ptr : q \in K \ {r}}
    BY <1>1, <1>2, <1>4, <1>5, SMTT(60) DEF Entered
  <2>3. \A q \in K \ {r} : EntryOf(m2.requests[q.ptr], q, D \ {r})
    <3> SUFFICES ASSUME NEW q \in K \ {r} PROVE EntryOf(m2.requests[q.ptr], q, D \ {r})
      OBVIOUS
    <3>1. EntryOf(m.requests[q.ptr], q, D)
      BY <1>1 DEF Entered
    <3> QED
      BY <1>5, <3>1 DEF EntryOf
  <2> QED
    BY <2>1, <2>2, <2>3 DEF Entered
<1>7. Totalled(m2, G \cup {r})
  <2>0. IsFiniteSet(G) /\ G \subseteq Requests /\ r.bytes \in Nat
    BY <1>1, <1>2, TimedAssumption DEF Totalled
  <2>1. IsFiniteSet(G \cup {r}) /\ G \cup {r} \subseteq Requests
    BY <1>2, <2>0, FS_AddElement
  <2>2. ASSUME NEW c \in Class
        PROVE  /\ Pim(m2).traffic[c].requests = Cardinality(OfKind(G \cup {r}, c))
               /\ Pim(m2).traffic[c].bytes = SumBytes(OfKind(G \cup {r}, c))
    <3>1. /\ Pim(m).traffic[c].requests = Cardinality(OfKind(G, c))
          /\ Pim(m).traffic[c].bytes = SumBytes(OfKind(G, c))
      BY <1>1, <2>2 DEF Totalled
    <3>t. Cardinality(OfKind(G, c)) \in Nat /\ SumBytes(OfKind(G, c)) \in Nat
      <4>1. Pim(m).traffic[c] \in TrafficType
        BY <1>1, <2>2 DEF MetricsType, DeviceType, Pim
      <4> QED
        BY <3>1, <4>1 DEF TrafficType
    <3>2. /\ Cardinality(OfKind(G \cup {r}, c))
               = Cardinality(OfKind(G, c)) + (IF c = ClassOf(r) THEN 1 ELSE 0)
          /\ SumBytes(OfKind(G \cup {r}, c))
               = SumBytes(OfKind(G, c)) + (IF c = ClassOf(r) THEN r.bytes ELSE 0)
      BY <1>2, <2>0, <2>2, KindsCounted
    <3>3. CASE c = ClassOf(r)
      <4>1. /\ Pim(m2).traffic[c].requests = Pim(m).traffic[c].requests + 1
            /\ Pim(m2).traffic[c].bytes = Pim(m).traffic[c].bytes + e.bytes
        BY <1>3, <1>4, <2>2, <3>3
      <4> QED
        BY <1>3, <3>1, <3>2, <3>3, <4>1
    <3>4. CASE c # ClassOf(r)
      <4>1. Pim(m2).traffic[c] = Pim(m).traffic[c]
        BY <1>3, <1>4, <2>2, <3>4
      <4> QED
        BY <3>1, <3>2, <3>4, <3>t, <4>1
    <3> QED
      BY <3>3, <3>4
  <2>3. SumFunction([id \in 0..(Channels - 1) |-> Pim(m2).per_channel[id].bytes]) = SumBytes(G \cup {r})
    <3> DEFINE S == 0..(Channels - 1)  b == r.bytes
               f == [id \in S |-> Pim(m).per_channel[id].bytes]
               g == [id \in S |-> ChannelShare(b, id)]
               h == [id \in S |-> Pim(m2).per_channel[id].bytes]
    <3>1. /\ DOMAIN f = S /\ DOMAIN h = S
          /\ \A id \in S : /\ f[id] = Pim(m).per_channel[id].bytes
                           /\ h[id] = Pim(m2).per_channel[id].bytes /\ g[id] = ChannelShare(b, id)
      OBVIOUS
    <3>2. \A id \in S : Pim(m).per_channel[id].bytes \in Nat
      BY <1>1 DEF MetricsType, DeviceType, ChannelType, Pim
    <3>3. \A id \in S : ChannelShare(b, id) \in Nat
      BY <2>0, ShareNat
    <3>4. \A id \in S : Pim(m2).per_channel[id].bytes = Pim(m).per_channel[id].bytes + ChannelShare(b, id)
      BY <1>3, <1>4
    <3>5. IsFiniteSet(S)
      <4>1. 0 \in Int /\ Channels - 1 \in Int
        BY ChannelsAssumption
      <4> QED
        BY <4>1, FS_Interval
    <3>6. SumFunctionOnSet(g, S) = b
      <4> HIDE DEF b
      <4>1. b \in Nat /\ \A id \in 0..(Channels - 1) : g[id] = ChannelShare(b, id)
        BY <2>0 DEF b
      <4> HIDE DEF g
      <4> QED
        BY <4>1, SharesAddUp
    <3>7. SumFunction(f) = SumFunctionOnSet(f, S) /\ SumFunction(h) = SumFunctionOnSet(h, S)
      BY <3>1 DEF SumFunction
    <3> HIDE DEF f, g, h, S, b
    <3>8. SumFunctionOnSet(h, S) = SumFunctionOnSet(f, S) + SumFunctionOnSet(g, S)
      <4>1. Plus(f, g, h, S)
        BY <3>1, <3>2, <3>3, <3>4 DEF Plus
      <4> QED
        BY <3>5, <4>1, SumPlus
    <3>9. SumFunctionOnSet(f, S) = SumBytes(G)
      BY <1>1, <3>7 DEF Totalled, f, S
    <3>10. SumBytes(G \cup {r}) = SumBytes(G) + b
      BY <1>2, <2>0, SumBytesAdd DEF b
    <3> QED
      BY <3>6, <3>7, <3>8, <3>9, <3>10 DEF h, S
  <2> QED
    BY <2>1, <2>2, <2>3 DEF Totalled
<1>8. ASSUME NEW c \in Class
      PROVE  /\ Pim(m2).traffic[c].queue_wait_ns = Pim(m).traffic[c].queue_wait_ns
             /\ Pim(m2).traffic[c].service_intervals =
                  IF c = ClassOf(r)
                  THEN Append(Pim(m).traffic[c].service_intervals, <<e.start_ns, to_ns(t)>>)
                  ELSE Pim(m).traffic[c].service_intervals
  BY <1>3, <1>4, <1>8
<1> QED
  BY <1>4, <1>5, <1>6, <1>7, <1>8 DEF Books, CompletionAdds, BooksComplete, m2

\* A stall is recorded.
LEMMA BooksStalled ==
  ASSUME NEW m, NEW K, NEW D, NEW G, Books(m, K, D, G), NEW a \in Nat, NEW b \in Nat, a <= b,
         NEW c \in Class
  PROVE  LET m2 == record_pim_resource_stall(m, a, b, c)
         IN /\ Books(m2, K, D, G) /\ m2.requests = m.requests /\ m2.device = m.device
            /\ m2.stall = [m.stall EXCEPT ![c] = @ + (to_ns(b) - to_ns(a))]
<1> DEFINE m2 == record_pim_resource_stall(m, a, b, c)
<1>1. /\ MetricsType(m2) /\ m2.requests = m.requests /\ m2.device = m.device
      /\ m2.stall = [m.stall EXCEPT ![c] = @ + (to_ns(b) - to_ns(a))]
  BY StallEffect DEF Books
<1> HIDE DEF m2
<1>2. Entered(m2, K, D) /\ Totalled(m2, G)
  BY <1>1 DEF Books, Entered, Totalled, Pim
<1> QED
  BY <1>1, <1>2 DEF Books, m2

-----------------------------------------------------------------------------
(* The times: q are the analytical queues, d the completion times, and the *)
(* first k[c] entries of q[c] have been reported                           *)

\* A completion time for each entry, and entries of one class only.
Lanes(q, d) ==
  /\ q \in [Class -> Seq(Requests)] /\ d \in [Class -> Seq(Nat)]
  /\ \A c \in Class : Len(d[c]) = Len(q[c]) /\ Distinct(q[c])
  /\ \A c \in Class : \A i \in 1..Len(q[c]) : ClassOf(q[c][i]) = c
  /\ q["memory"] = <<>> \/ q["compute"] = <<>>

\* k counts entries that q has.
Upto(q, k) == k \in [Class -> Nat] /\ \A c \in Class : k[c] <= Len(q[c])

\* The entries that are not yet reported.
Open(q, k, c) == (k[c] + 1)..Len(q[c])
OpenSet(q, k) == UNION {{q[c][j] : j \in Open(q, k, c)} : c \in Class}

\* The services of a class, and the start of a request.
Sv(m, c) == Pim(m).traffic[c].service_intervals
StartOf(m, r) == m.requests[r.ptr].start_ns

\* What was served ended before what is served now began, and so on in turn.
Timeline(m, q, d, k, t) ==
  /\ \A c, e \in Class : \A i \in 1..Len(Sv(m, c)) : \A j \in Open(q, k, e) :
       Sv(m, c)[i][2] <= StartOf(m, q[e][j])
  /\ \A e \in Class : \A i, j \in Open(q, k, e) :
       i < j => to_ns(d[e][i]) <= StartOf(m, q[e][j])
  /\ \A c, e \in Class : \A i \in 1..Len(Sv(m, c)), j \in 1..Len(Sv(m, e)) :
       (c # e \/ i # j) => Apart(Sv(m, c)[i], Sv(m, e)[j])
  /\ \A c \in Class : \A i \in 1..Len(Sv(m, c)) : Sv(m, c)[i][2] <= to_ns(t)
  /\ \A e \in Class : \A j \in Open(q, k, e) : StartOf(m, q[e][j]) <= to_ns(d[e][j])

\* The next entry in turn.
Next1(k, c) == [k EXCEPT ![c] = @ + 1]

\* Only entries of one class are open.
LEMMA OneLane ==
  ASSUME NEW q, NEW d, NEW k, Lanes(q, d), Upto(q, k), NEW c \in Class, NEW e \in Class,
         NEW i \in Open(q, k, c), NEW j \in Open(q, k, e)
  PROVE  c = e
<1>1. Len(q[c]) \in Nat /\ Len(q[e]) \in Nat /\ k[c] \in Nat /\ k[e] \in Nat
  BY DEF Lanes, Upto
<1>2. Len(q[c]) # 0 /\ Len(q[e]) # 0
  BY <1>1 DEF Open
<1>3. q[c] # <<>> /\ q[e] # <<>>
  BY <1>2
<1> QED
  BY <1>3 DEF Lanes, Class

\* What is open when one more entry has been reported.
LEMMA OpenNext ==
  ASSUME NEW q, NEW d, NEW k, Lanes(q, d), Upto(q, k), NEW c \in Class, k[c] < Len(q[c])
  PROVE  /\ Upto(q, Next1(k, c)) /\ k[c] + 1 \in Open(q, k, c)
         /\ \A e \in Class : Open(q, Next1(k, c), e) \subseteq Open(q, k, e)
         /\ \A j \in Open(q, Next1(k, c), c) : k[c] + 1 < j /\ q[c][j] # q[c][k[c] + 1]
         /\ \A e \in Class : e # c => Open(q, Next1(k, c), e) = {}
         /\ OpenSet(q, Next1(k, c)) = OpenSet(q, k) \ {q[c][k[c] + 1]}
         /\ q[c][k[c] + 1] \in OpenSet(q, k)
<1> DEFINE n == Next1(k, c)  a == k[c] + 1
<1>1. /\ \A e \in Class : Len(q[e]) \in Nat /\ k[e] \in Nat
      /\ k \in [Class -> Nat] /\ \A e \in Class : k[e] <= Len(q[e])
  BY DEF Lanes, Upto
<1>2. n \in [Class -> Nat] /\ n[c] = k[c] + 1 /\ \A e \in Class : e # c => n[e] = k[e]
  BY <1>1 DEF Next1
<1> HIDE DEF n
<1>3. Upto(q, n) /\ a \in Open(q, k, c)
  BY <1>1, <1>2 DEF Upto, Open
<1>4. \A e \in Class : Open(q, n, e) \subseteq Open(q, k, e)
  BY <1>1, <1>2 DEF Open
<1>5. ASSUME NEW j \in Open(q, n, c) PROVE a < j /\ q[c][j] # q[c][a]
  <2>1. j \in 1..Len(q[c]) /\ a \in 1..Len(q[c]) /\ a < j
    BY <1>1, <1>2, <1>5 DEF Open
  <2>2. Distinct(q[c])
    BY DEF Lanes
  <2> QED
    BY <1>1, <2>1, <2>2 DEF Distinct
<1>6. ASSUME NEW e \in Class, e # c PROVE Open(q, n, e) = {} /\ Open(q, k, e) = {}
  <2>1. Open(q, k, e) = {}
    BY <1>3, <1>6, OneLane
  <2> QED
    BY <1>4, <1>6, <2>1
<1>7. Open(q, k, c) = Open(q, n, c) \cup {a}
  BY <1>1, <1>2 DEF Open
<1>8. /\ OpenSet(q, k) = {q[c][j] : j \in Open(q, k, c)}
      /\ OpenSet(q, n) = {q[c][j] : j \in Open(q, n, c)}
  BY <1>6 DEF OpenSet
<1>9. OpenSet(q, n) = OpenSet(q, k) \ {q[c][a]}
  BY <1>5, <1>7, <1>8
<1> QED
  BY <1>3, <1>4, <1>5, <1>6, <1>8, <1>9 DEF n

\* The next entry in turn is complete.
LEMMA TimelineCompleted ==
  ASSUME NEW m, NEW m2, MetricsType(m), MetricsType(m2), NEW q, NEW d, NEW k, NEW t \in Nat,
         Lanes(q, d), Upto(q, k),
         Timeline(m, q, d, k, t), NEW c \in Class, k[c] < Len(q[c]),
         d[c][k[c] + 1] <= t,
         \A e \in Class : \A j \in Open(q, Next1(k, c), e) :
           StartOf(m2, q[e][j]) = StartOf(m, q[e][j]),
         StartOf(m, q[c][k[c] + 1]) \in Nat,
         \A e \in Class :
           Sv(m2, e) = IF e = c
                       THEN Append(Sv(m, e), <<StartOf(m, q[c][k[c] + 1]), to_ns(d[c][k[c] + 1])>>)
                       ELSE Sv(m, e)
  PROVE  Timeline(m2, q, d, Next1(k, c), t)
<1> DEFINE n == Next1(k, c)  a == k[c] + 1  s == StartOf(m, q[c][a])  x == to_ns(d[c][a])
<1>0. d[c][a] \in Nat
  <2>1. /\ d[c] \in Seq(Nat) /\ k[c] \in Nat /\ Len(q[c]) \in Nat /\ Len(d[c]) = Len(q[c])
        /\ k[c] < Len(q[c])
    BY DEF Lanes, Upto
  <2>2. a \in 1..Len(d[c])
    BY <2>1
  <2> QED
    BY <2>1, <2>2, ElementOfSeq
<1>1. x \in Nat /\ x <= to_ns(t) /\ s \in Nat /\ to_ns(t) \in Nat
  BY <1>0, ToNs
<1>2. /\ a \in Open(q, k, c)
      /\ \A e \in Class : Open(q, n, e) \subseteq Open(q, k, e)
      /\ \A j \in Open(q, n, c) : a < j
      /\ \A e \in Class : e # c => Open(q, n, e) = {}
  BY OpenNext
<1>3. \A e \in Class : Sv(m, e) \in Seq(Interval)
  BY DEF Sv, Pim, MetricsType, DeviceType, TrafficType
<1>4. /\ Sv(m2, c) = Append(Sv(m, c), <<s, x>>)
      /\ \A e \in Class : e # c => Sv(m2, e) = Sv(m, e)
  OBVIOUS
<1> HIDE DEF n, a, s, x
<1>5. /\ Len(Sv(m2, c)) = Len(Sv(m, c)) + 1 /\ Len(Sv(m, c)) \in Nat
      /\ Sv(m2, c)[Len(Sv(m, c)) + 1] = <<s, x>>
      /\ \A i \in 1..Len(Sv(m, c)) : Sv(m2, c)[i] = Sv(m, c)[i]
  <2>1. <<s, x>> \in Interval
    BY <1>1 DEF Interval
  <2> QED
    BY <1>3, <1>4, <2>1, AppendProperties, LenProperties
<1>6. ASSUME NEW e \in Class, NEW i \in 1..Len(Sv(m2, e))
      PROVE  \/ i \in 1..Len(Sv(m, e)) /\ Sv(m2, e)[i] = Sv(m, e)[i]
             \/ e = c /\ i = Len(Sv(m, c)) + 1 /\ Sv(m2, e)[i] = <<s, x>>
  <2>1. CASE e = c
    BY <2>1, <1>5, <1>6
  <2>2. CASE e # c
    BY <2>2, <1>4, <1>6
  <2> QED
    BY <2>1, <2>2
<1>7. <<s, x>>[1] = s /\ <<s, x>>[2] = x
  OBVIOUS
<1>8. ASSUME NEW e \in Class, NEW i \in 1..Len(Sv(m2, e)), NEW f \in Class, NEW j \in Open(q, n, f)
      PROVE  Sv(m2, e)[i][2] <= StartOf(m2, q[f][j])
  <2>1. f = c /\ a < j /\ j \in Open(q, k, f) /\ StartOf(m2, q[f][j]) = StartOf(m, q[f][j])
    BY <1>2, <1>8 DEF n
  <2>2. CASE i \in 1..Len(Sv(m, e)) /\ Sv(m2, e)[i] = Sv(m, e)[i]
    BY <2>1, <2>2 DEF Timeline
  <2>3. CASE Sv(m2, e)[i] = <<s, x>>
    <3>1. to_ns(d[c][a]) <= StartOf(m, q[c][j])
      BY <1>2, <2>1 DEF Timeline
    <3> QED
      BY <1>7, <2>1, <2>3, <3>1 DEF x
  <2> QED
    BY <1>6, <1>8, <2>2, <2>3
<1>9. \A e \in Class : \A i, j \in Open(q, n, e) : i < j => to_ns(d[e][i]) <= StartOf(m2, q[e][j])
  BY <1>2 DEF Timeline, n
<1>10. ASSUME NEW e \in Class, NEW i \in 1..Len(Sv(m, e))
       PROVE  Apart(Sv(m, e)[i], <<s, x>>) /\ Apart(<<s, x>>, Sv(m, e)[i])
  <2>1. Sv(m, e)[i][2] <= s
    BY <1>2, <1>10 DEF Timeline, s
  <2> QED
    BY <1>7, <2>1 DEF Apart
<1>11. ASSUME NEW e \in Class, NEW f \in Class, NEW i \in 1..Len(Sv(m2, e)), NEW j \in 1..Len(Sv(m2, f)),
              e # f \/ i # j
       PROVE  Apart(Sv(m2, e)[i], Sv(m2, f)[j])
  <2>1. CASE /\ i \in 1..Len(Sv(m, e)) /\ Sv(m2, e)[i] = Sv(m, e)[i]
             /\ j \in 1..Len(Sv(m, f)) /\ Sv(m2, f)[j] = Sv(m, f)[j]
    BY <1>11, <2>1 DEF Timeline
  <2>2. CASE /\ i \in 1..Len(Sv(m, e)) /\ Sv(m2, e)[i] = Sv(m, e)[i]
             /\ Sv(m2, f)[j] = <<s, x>>
    BY <1>10, <2>2
  <2>3. CASE /\ Sv(m2, e)[i] = <<s, x>>
             /\ j \in 1..Len(Sv(m, f)) /\ Sv(m2, f)[j] = Sv(m, f)[j]
    BY <1>10, <2>3
  <2> QED
    BY <1>6, <1>11, <2>1, <2>2, <2>3
<1>12. ASSUME NEW e \in Class, NEW i \in 1..Len(Sv(m2, e))
       PROVE  Sv(m2, e)[i][2] <= to_ns(t)
  <2>1. CASE i \in 1..Len(Sv(m, e)) /\ Sv(m2, e)[i] = Sv(m, e)[i]
    BY <2>1 DEF Timeline
  <2>2. CASE Sv(m2, e)[i] = <<s, x>>
    BY <1>1, <1>7, <2>2
  <2> QED
    BY <1>6, <1>12, <2>1, <2>2
<1>13. \A e \in Class : \A j \in Open(q, n, e) : StartOf(m2, q[e][j]) <= to_ns(d[e][j])
  BY <1>2 DEF Timeline, n
<1> QED
  BY <1>8, <1>9, <1>11, <1>12, <1>13 DEF Timeline, n

\* None is reported.
Zero == [c \in Class |-> 0]

\* The entries that are left when the reported ones are popped.
Cut(s, k) == [c \in Class |-> SubSeq(s[c], k[c] + 1, Len(s[c]))]

\* p and u are the entries of q and d after the first k.
Renumbered(q, d, k, p, u) ==
  \A c \in Class : \A j \in Open(p, Zero, c) :
    k[c] + j \in Open(q, k, c) /\ p[c][j] = q[c][k[c] + j] /\ u[c][j] = d[c][k[c] + j]

\* Popping the reported entries renumbers the others.
LEMMA CutRenumbers ==
  ASSUME NEW q, NEW d, NEW k, Lanes(q, d), Upto(q, k)
  PROVE  /\ Renumbered(q, d, k, Cut(q, k), Cut(d, k))
         /\ OpenSet(Cut(q, k), Zero) = OpenSet(q, k)
<1> DEFINE p == Cut(q, k)  u == Cut(d, k)
<1>1. ASSUME NEW c \in Class
      PROVE  /\ Open(p, Zero, c) = 1..(Len(q[c]) - k[c]) /\ Len(q[c]) \in Nat /\ k[c] \in Nat
             /\ Open(q, k, c) = (k[c] + 1)..Len(q[c])
             /\ \A j \in 1..(Len(q[c]) - k[c]) : p[c][j] = q[c][k[c] + j] /\ u[c][j] = d[c][k[c] + j]
  <2>1. /\ q[c] \in Seq(Requests) /\ d[c] \in Seq(Nat) /\ Len(d[c]) = Len(q[c]) /\ Distinct(q[c])
        /\ Len(q[c]) \in Nat /\ k[c] \in Nat /\ k[c] <= Len(q[c])
    BY <1>1 DEF Lanes, Upto
  <2>2. p[c] = SubSeq(q[c], k[c] + 1, Len(q[c])) /\ u[c] = SubSeq(d[c], k[c] + 1, Len(d[c]))
    BY <1>1 DEF Cut
  <2> DEFINE s == q[c]  v == d[c]  a == k[c]
  <2>3. s \in Seq(Requests) /\ v \in Seq(Nat) /\ a \in 0..Len(s) /\ a \in 0..Len(v)
    BY <2>1
  <2> HIDE DEF s, v, a
  <2>4. LET r == SubSeq(s, a + 1, Len(s))
        IN Len(r) = Len(s) - a /\ \A j \in 1..(Len(s) - a) : r[j] = s[a + j]
    BY <2>3, CutAt
  <2>5. LET r == SubSeq(v, a + 1, Len(v))
        IN Len(r) = Len(v) - a /\ \A j \in 1..(Len(v) - a) : r[j] = v[a + j]
    BY <2>3, CutAt
  <2>6. Len(p[c]) = Len(q[c]) - k[c] /\ \A j \in 1..(Len(q[c]) - k[c]) : p[c][j] = q[c][k[c] + j]
    BY <2>2, <2>4 DEF s, a
  <2>7. \A j \in 1..(Len(q[c]) - k[c]) : u[c][j] = d[c][k[c] + j]
    BY <2>1, <2>2, <2>5 DEF v, a
  <2>8. Open(p, Zero, c) = 1..(Len(q[c]) - k[c])
    BY <1>1, <2>6 DEF Open, Zero
  <2>9. Open(q, k, c) = (k[c] + 1)..Len(q[c])
    BY DEF Open
  <2> QED
    BY <2>1, <2>6, <2>7, <2>8, <2>9
<1> HIDE DEF p, u
<1>2. Renumbered(q, d, k, p, u)
  <2> SUFFICES ASSUME NEW c \in Class, NEW j \in Open(p, Zero, c)
               PROVE  k[c] + j \in Open(q, k, c) /\ p[c][j] = q[c][k[c] + j] /\ u[c][j] = d[c][k[c] + j]
    BY DEF Renumbered
  <2>1. j \in 1..(Len(q[c]) - k[c]) /\ Len(q[c]) \in Nat /\ k[c] \in Nat
    BY <1>1
  <2>2. k[c] + j \in (k[c] + 1)..Len(q[c])
    BY <2>1
  <2> QED
    BY <1>1, <2>1, <2>2
<1>3. ASSUME NEW c \in Class
      PROVE  {p[c][j] : j \in Open(p, Zero, c)} = {q[c][j] : j \in Open(q, k, c)}
  <2>1. ASSUME NEW i \in Open(q, k, c)
        PROVE  i - k[c] \in Open(p, Zero, c) /\ p[c][i - k[c]] = q[c][i]
    <3>1. /\ i \in (k[c] + 1)..Len(q[c]) /\ Len(q[c]) \in Nat /\ k[c] \in Nat
          /\ Open(p, Zero, c) = 1..(Len(q[c]) - k[c])
          /\ \A j \in 1..(Len(q[c]) - k[c]) : p[c][j] = q[c][k[c] + j]
      BY <1>1, <1>3, <2>1
    <3>2. i - k[c] \in 1..(Len(q[c]) - k[c]) /\ k[c] + (i - k[c]) = i
      BY <3>1
    <3> QED
      BY <3>1, <3>2
  <2> QED
    BY <1>2, <1>3, <2>1 DEF Renumbered
<1>4. OpenSet(p, Zero) = OpenSet(q, k)
  <2>1. \A y : y \in OpenSet(p, Zero) <=> \E c \in Class : y \in {p[c][j] : j \in Open(p, Zero, c)}
    BY DEF OpenSet
  <2>2. \A y : y \in OpenSet(q, k) <=> \E c \in Class : y \in {q[c][j] : j \in Open(q, k, c)}
    BY DEF OpenSet
  <2>3. \A y : y \in OpenSet(p, Zero) <=> y \in OpenSet(q, k)
    BY <1>3, <2>1, <2>2
  <2> QED
    BY <2>3
<1> QED
  BY <1>2, <1>4 DEF p, u

\* The times are those of the queues without what was reported.
LEMMA TimelineCut ==
  ASSUME NEW m, NEW q, NEW d, NEW k, NEW p, NEW u, NEW t, Upto(q, k),
         Renumbered(q, d, k, p, u), Timeline(m, q, d, k, t)
  PROVE  Timeline(m, p, u, Zero, t)
<1>1. \A c \in Class : k[c] \in Nat /\ \A j \in Open(p, Zero, c) : j \in Int
  BY DEF Upto, Open
<1>2. \A c, e \in Class : \A i \in 1..Len(Sv(m, c)) : \A j \in Open(p, Zero, e) :
        Sv(m, c)[i][2] <= StartOf(m, p[e][j])
  BY DEF Timeline, Renumbered
<1>3. ASSUME NEW e \in Class, NEW i \in Open(p, Zero, e), NEW j \in Open(p, Zero, e), i < j
      PROVE  to_ns(u[e][i]) <= StartOf(m, p[e][j])
  <2>1. k[e] + i < k[e] + j
    BY <1>1, <1>3
  <2> QED
    BY <1>3, <2>1 DEF Timeline, Renumbered
<1>4. \A e \in Class : \A j \in Open(p, Zero, e) : StartOf(m, p[e][j]) <= to_ns(u[e][j])
  BY DEF Timeline, Renumbered
<1> QED
  BY <1>2, <1>3, <1>4 DEF Timeline

\* One entry more.
Put(s, c, x) == [s EXCEPT ![c] = Append(@, x)]

\* A request joins the queue of its class.
LEMMA PutEntries ==
  ASSUME NEW q, NEW d, Lanes(q, d), NEW e \in Class, NEW r \in Requests, NEW x \in Nat, r \notin OpenSet(q, Zero)
  PROVE  /\ \A c \in Class : \A j \in Open(Put(q, e, r), Zero, c) :
              \/ j \in Open(q, Zero, c) /\ Put(q, e, r)[c][j] = q[c][j] /\ Put(d, e, x)[c][j] = d[c][j]
              \/ /\ c = e /\ j = Len(q[e]) + 1
                 /\ Put(q, e, r)[c][j] = r /\ Put(d, e, x)[c][j] = x
         /\ OpenSet(Put(q, e, r), Zero) = OpenSet(q, Zero) \cup {r}
<1> DEFINE p == Put(q, e, r)  u == Put(d, e, x)
<1>1. \A c \in Class : /\ q[c] \in Seq(Requests) /\ d[c] \in Seq(Nat) /\ Len(q[c]) \in Nat
                       /\ Len(d[c]) = Len(q[c])
  BY DEF Lanes
<1>2. /\ p[e] = Append(q[e], r) /\ u[e] = Append(d[e], x)
      /\ \A c \in Class : c # e => p[c] = q[c] /\ u[c] = d[c]
  BY DEF Put, Lanes
<1>3. /\ Len(p[e]) = Len(q[e]) + 1 /\ p[e][Len(q[e]) + 1] = r /\ u[e][Len(q[e]) + 1] = x
      /\ \A i \in 1..Len(q[e]) : p[e][i] = q[e][i] /\ u[e][i] = d[e][i]
  BY <1>1, <1>2, AppendProperties
<1> HIDE DEF p, u
<1>z. \A c \in Class : Open(q, Zero, c) = 1..Len(q[c]) /\ Open(p, Zero, c) = 1..Len(p[c])
  BY DEF Open, Zero
<1>4. ASSUME NEW c \in Class, NEW j \in Open(p, Zero, c)
      PROVE  \/ j \in Open(q, Zero, c) /\ p[c][j] = q[c][j] /\ u[c][j] = d[c][j]
             \/ c = e /\ j = Len(q[e]) + 1 /\ p[c][j] = r /\ u[c][j] = x
  <2>1. CASE c = e
    BY <1>1, <1>3, <1>4, <1>z, <2>1, SMTT(60)
  <2>2. CASE c # e
    BY <1>2, <1>4, <1>z, <2>2
  <2> QED
    BY <2>1, <2>2
<1>5. \A c \in Class : \A j \in Open(q, Zero, c) : j \in Open(p, Zero, c) /\ p[c][j] = q[c][j]
  <2> SUFFICES ASSUME NEW c \in Class, NEW j \in Open(q, Zero, c)
               PROVE  j \in Open(p, Zero, c) /\ p[c][j] = q[c][j]
    OBVIOUS
  <2>1. CASE c = e
    BY <1>1, <1>3, <1>z, <2>1
  <2>2. CASE c # e
    BY <1>2, <1>z, <2>2
  <2> QED
    BY <2>1, <2>2
<1>6. Len(q[e]) + 1 \in Open(p, Zero, e)
  BY <1>1, <1>3, <1>z
<1>7. OpenSet(p, Zero) = OpenSet(q, Zero) \cup {r}
  <2>1. ASSUME NEW y \in OpenSet(p, Zero) PROVE y \in OpenSet(q, Zero) \cup {r}
    <3>1. PICK c \in Class : \E j \in Open(p, Zero, c) : y = p[c][j]
      BY <2>1 DEF OpenSet
    <3>2. PICK j \in Open(p, Zero, c) : y = p[c][j]
      BY <3>1
    <3> QED
      BY <1>4, <3>2 DEF OpenSet
  <2>2. ASSUME NEW y \in OpenSet(q, Zero) PROVE y \in OpenSet(p, Zero)
    <3>1. PICK c \in Class : \E j \in Open(q, Zero, c) : y = q[c][j]
      BY <2>2 DEF OpenSet
    <3>2. PICK j \in Open(q, Zero, c) : y = q[c][j]
      BY <3>1
    <3> QED
      BY <1>5, <3>2 DEF OpenSet
  <2>3. r \in OpenSet(p, Zero)
    BY <1>3, <1>6 DEF OpenSet
  <2> QED
    BY <2>1, <2>2, <2>3
<1> QED
  BY <1>4, <1>7 DEF p, u

\* A request starts when those before it are complete.
LEMMA TimelineStarted ==
  ASSUME NEW m, NEW m2, MetricsType(m), NEW q, NEW d, NEW t \in Nat, Lanes(q, d), Timeline(m, q, d, Zero, t),
         NEW e \in Class, NEW r \in Requests, r \notin OpenSet(q, Zero),
         NEW s \in Nat, NEW x \in Nat, t <= s, s <= x,
         \A j \in 1..Len(d[e]) : d[e][j] <= s,
         \A c \in Class : Sv(m2, c) = Sv(m, c),
         \A y \in OpenSet(q, Zero) : StartOf(m2, y) = StartOf(m, y),
         StartOf(m2, r) = to_ns(s)
  PROVE  Timeline(m2, Put(q, e, r), Put(d, e, x), Zero, t)
<1> DEFINE p == Put(q, e, r)  u == Put(d, e, x)
<1>1. ASSUME NEW c \in Class, NEW j \in Open(p, Zero, c)
      PROVE  \/ /\ j \in Open(q, Zero, c) /\ p[c][j] = q[c][j] /\ u[c][j] = d[c][j]
                /\ StartOf(m2, p[c][j]) = StartOf(m, q[c][j])
             \/ /\ c = e /\ j = Len(q[e]) + 1 /\ p[c][j] = r /\ u[c][j] = x
                /\ StartOf(m2, p[c][j]) = to_ns(s)
  <2>1. \/ j \in Open(q, Zero, c) /\ p[c][j] = q[c][j] /\ u[c][j] = d[c][j]
        \/ c = e /\ j = Len(q[e]) + 1 /\ p[c][j] = r /\ u[c][j] = x
    BY <1>1, PutEntries
  <2> QED
    BY <1>1, <2>1 DEF OpenSet
<1> HIDE DEF p, u
<1>2. to_ns(t) \in Nat /\ to_ns(s) \in Nat /\ to_ns(t) <= to_ns(s) /\ to_ns(s) <= to_ns(x) /\ to_ns(x) \in Nat
  BY ToNs
<1>3. \A c \in Class : \A i \in 1..Len(Sv(m, c)) : Sv(m, c)[i][2] \in Nat /\ Sv(m, c)[i][2] <= to_ns(s)
  <2>1. \A c \in Class : Sv(m, c) \in Seq(Interval)
    BY DEF Sv, Pim, MetricsType, DeviceType, TrafficType
  <2>2. \A c \in Class : \A i \in 1..Len(Sv(m, c)) : Sv(m, c)[i] \in Interval
    BY <2>1, ElementOfSeq
  <2>3. \A c \in Class : \A i \in 1..Len(Sv(m, c)) : Sv(m, c)[i][2] \in Nat
    BY <2>2 DEF Interval
  <2>4. \A c \in Class : \A i \in 1..Len(Sv(m, c)) : Sv(m, c)[i][2] <= to_ns(t)
    BY DEF Timeline
  <2> QED
    BY <1>2, <2>3, <2>4
<1>4. \A c, f \in Class : \A i \in 1..Len(Sv(m2, c)) : \A j \in Open(p, Zero, f) :
        Sv(m2, c)[i][2] <= StartOf(m2, p[f][j])
  BY <1>1, <1>3 DEF Timeline
<1>5. ASSUME NEW f \in Class, NEW i \in Open(p, Zero, f), NEW j \in Open(p, Zero, f), i < j
      PROVE  to_ns(u[f][i]) <= StartOf(m2, p[f][j])
  <2>0. /\ Len(q[f]) \in Nat /\ d[f] \in Seq(Nat) /\ Len(d[f]) = Len(q[f])
        /\ Open(q, Zero, f) = 1..Len(q[f]) /\ i \in Int /\ j \in Int
    BY <1>5 DEF Lanes, Open, Zero
  <2>1. CASE /\ j \in Open(q, Zero, f) /\ StartOf(m2, p[f][j]) = StartOf(m, q[f][j])
    <3>1. i \in Open(q, Zero, f) /\ u[f][i] = d[f][i]
      BY <1>1, <1>5, <2>0, <2>1
    <3> QED
      BY <1>5, <2>1, <3>1 DEF Timeline
  <2>2. CASE f = e /\ j = Len(q[e]) + 1 /\ StartOf(m2, p[f][j]) = to_ns(s)
    <3>1. i \in Open(q, Zero, f) /\ u[f][i] = d[f][i]
      BY <1>1, <1>5, <2>0, <2>2
    <3>2. d[e][i] \in Nat /\ d[e][i] <= s
      BY <2>0, <2>2, <3>1, ElementOfSeq
    <3> QED
      BY <2>2, <3>1, <3>2, ToNs
  <2> QED
    BY <1>1, <1>5, <2>1, <2>2
<1>6. \A f \in Class : \A j \in Open(p, Zero, f) : StartOf(m2, p[f][j]) <= to_ns(u[f][j])
  BY <1>1, <1>2 DEF Timeline
<1>7. /\ \A c, f \in Class : \A i \in 1..Len(Sv(m2, c)), j \in 1..Len(Sv(m2, f)) :
           (c # f \/ i # j) => Apart(Sv(m2, c)[i], Sv(m2, f)[j])
      /\ \A c \in Class : \A i \in 1..Len(Sv(m2, c)) : Sv(m2, c)[i][2] <= to_ns(t)
  BY DEF Timeline
<1> QED
  BY <1>4, <1>5, <1>6, <1>7 DEF Timeline, p, u

\* Nothing but time has changed.
LEMMA TimelineLater ==
  ASSUME NEW m, NEW m2, MetricsType(m), NEW q, NEW d, NEW k, NEW t \in Nat, NEW v \in Nat, t <= v,
         Timeline(m, q, d, k, t),
         \A c \in Class : Sv(m2, c) = Sv(m, c),
         \A y \in OpenSet(q, k) : StartOf(m2, y) = StartOf(m, y)
  PROVE  Timeline(m2, q, d, k, v)
<1>1. \A c \in Class : \A j \in Open(q, k, c) : StartOf(m2, q[c][j]) = StartOf(m, q[c][j])
  BY DEF OpenSet
<1>2. to_ns(t) \in Nat /\ to_ns(v) \in Nat /\ to_ns(t) <= to_ns(v)
  BY ToNs
<1>3. \A c \in Class : \A i \in 1..Len(Sv(m, c)) : Sv(m, c)[i][2] \in Nat
  <2>1. \A c \in Class : Sv(m, c) \in Seq(Interval)
    BY DEF Sv, Pim, MetricsType, DeviceType, TrafficType
  <2>2. \A c \in Class : \A i \in 1..Len(Sv(m, c)) : Sv(m, c)[i] \in Interval
    BY <2>1, ElementOfSeq
  <2> QED
    BY <2>2 DEF Interval
<1> DEFINE Rest1 == /\ \A c, e \in Class : \A i \in 1..Len(Sv(m2, c)) : \A j \in Open(q, k, e) :
                         Sv(m2, c)[i][2] <= StartOf(m2, q[e][j])
                    /\ \A e \in Class : \A i, j \in Open(q, k, e) :
                         i < j => to_ns(d[e][i]) <= StartOf(m2, q[e][j])
                    /\ \A e \in Class : \A j \in Open(q, k, e) : StartOf(m2, q[e][j]) <= to_ns(d[e][j])
<1>4. Rest1
  BY <1>1 DEF Timeline
<1>5. \A c, e \in Class : \A i \in 1..Len(Sv(m2, c)), j \in 1..Len(Sv(m2, e)) :
       (c # e \/ i # j) => Apart(Sv(m2, c)[i], Sv(m2, e)[j])
  BY DEF Timeline
<1>6. ASSUME NEW c \in Class, NEW i \in 1..Len(Sv(m2, c)) PROVE Sv(m2, c)[i][2] <= to_ns(v)
  <2>1. Sv(m, c)[i][2] <= to_ns(t)
    BY <1>6 DEF Timeline
  <2>2. Sv(m, c)[i][2] \in Nat
    BY <1>3, <1>6
  <2> QED
    BY <1>2, <2>1, <2>2
<1> QED
  BY <1>4, <1>5, <1>6 DEF Timeline

-----------------------------------------------------------------------------
(* The log: U are the requests that have a row                             *)

\* The rows of the layers, and those of the waits for the other class.
ServiceLog(l) == [x \in DOMAIN l \ ContentionRows |-> l[x]]
WaitLog(l) == [x \in DOMAIN l \cap ContentionRows |-> l[x]]

\* What is written for a layer leaves the rows of the waits alone.
LEMMA LayerLogged ==
  ASSUME NEW l, NEW y, y \notin ContentionRows, NEW t
  PROVE  /\ ServiceLog(update_end_at(l, y, t)) = update_end_at(ServiceLog(l), y, t)
         /\ ServiceLog(update_start_at(l, y, t)) = update_start_at(ServiceLog(l), y, t)
         /\ WaitLog(update_end_at(l, y, t)) = WaitLog(l)
         /\ WaitLog(update_start_at(l, y, t)) = WaitLog(l)
<1>1. CASE y \in DOMAIN l
  BY <1>1 DEF ServiceLog, WaitLog, update_end_at, update_start_at, Emplaced
<1>2. CASE y \notin DOMAIN l
  BY <1>2 DEF ServiceLog, WaitLog, update_end_at, update_start_at, Emplaced
<1> QED
  BY <1>1, <1>2

\* What is written for a wait leaves the rows of the layers alone.
LEMMA LayersKept ==
  ASSUME NEW l, NEW y \in ContentionRows, NEW t
  PROVE  /\ ServiceLog(update_end_at(l, y, t)) = ServiceLog(l)
         /\ ServiceLog(update_start_at(l, y, t)) = ServiceLog(l)
<1>1. CASE y \in DOMAIN l
  BY <1>1 DEF ServiceLog, update_end_at, update_start_at, Emplaced
<1>2. CASE y \notin DOMAIN l
  BY <1>2 DEF ServiceLog, update_end_at, update_start_at, Emplaced
<1> QED
  BY <1>1, <1>2

\* The log l with a wait from a to t in row y, and what that adds to the waits.
WithWait(l, y, a, t) == update_end_at(update_start_at(l, y, a), y, t)
WaitAdded(w, w2, y, a, t) ==
  /\ DOMAIN w2 = DOMAIN w \cup {y} /\ \A x \in DOMAIN w : w2[x] = w[x]
  /\ w2[y] = [start |-> to_cycle(a), end |-> to_cycle(t)]

\* A wait is logged in a row of its own.
LEMMA WaitLogged ==
  ASSUME NEW l, NEW y, y \in ContentionRows, y \notin DOMAIN WaitLog(l), NEW a, NEW t
  PROVE  WaitAdded(WaitLog(l), WaitLog(WithWait(l, y, a, t)), y, a, t)
<1> DEFINE l1 == update_start_at(l, y, a)  l2 == update_end_at(l1, y, t)
<1>1. y \notin DOMAIN l
  BY DEF WaitLog
<1>2. /\ DOMAIN l1 = DOMAIN l \cup {y} /\ \A x \in DOMAIN l : l1[x] = l[x]
      /\ l1[y] = [start |-> to_cycle(a), end |-> NoCycle]
  BY <1>1 DEF update_start_at, Emplaced
<1> HIDE DEF l1
<1>3. l2 = [l1 EXCEPT ![y].end = to_cycle(t)]
  BY <1>2 DEF update_end_at
<1>4. /\ DOMAIN l2 = DOMAIN l \cup {y} /\ \A x \in DOMAIN l : l2[x] = l[x]
      /\ l2[y] = [start |-> to_cycle(a), end |-> to_cycle(t)]
  BY <1>1, <1>2, <1>3
<1> HIDE DEF l2
<1>5. /\ DOMAIN WaitLog(l2) = DOMAIN WaitLog(l) \cup {y}
      /\ \A x \in DOMAIN WaitLog(l) : WaitLog(l2)[x] = WaitLog(l)[x]
      /\ WaitLog(l2)[y] = [start |-> to_cycle(a), end |-> to_cycle(t)]
  BY <1>4 DEF WaitLog
<1> QED
  BY <1>5 DEF l1, l2, WithWait, WaitAdded

\* A row of the log; each request has its own; and the rows that are complete.
Row == [start: Nat, end: Nat]
DistinctLayers == \A q, r \in Requests : q.layer = r.layer => q = r
Ended(l) == {x \in DOMAIN l : l[x].end # NoCycle}

\* The rows, as Timeline says it of the services.
Rows(l, U, q, d, k, t) ==
  /\ U \subseteq Requests /\ OpenSet(q, k) \subseteq U
  /\ l \in [{r.layer : r \in U} -> Row]
  /\ \A r \in OpenSet(q, k) : l[r.layer].end = NoCycle
  /\ \A x \in Ended(l) : \A r \in OpenSet(q, k) : l[x].end <= l[r.layer].start
  /\ \A e \in Class : \A i, j \in Open(q, k, e) :
       i < j => to_cycle(d[e][i]) <= l[q[e][j].layer].start
  /\ \A x, y \in Ended(l) : x # y => l[x].end <= l[y].start \/ l[y].end <= l[x].start
  /\ \A x \in Ended(l) : l[x].end <= to_cycle(t)

\* Cycles grow with time.
LEMMA ToCycle ==
  /\ \A t \in Nat : to_cycle(t) \in Nat
  /\ \A t, u \in Nat : t <= u => to_cycle(t) <= to_cycle(u)
BY DEF to_cycle

\* A row gets its end.
LEMMA RowEnds ==
  ASSUME NEW S, NEW l \in [S -> Row], NEW y \in S, NEW v \in Nat
  PROVE  LET l2 == [l EXCEPT ![y].end = v]
         IN /\ l2 \in [S -> Row] /\ l2[y].end = v /\ l2[y].start = l[y].start
            /\ DOMAIN l2 = DOMAIN l /\ \A x \in DOMAIN l : x # y => l2[x] = l[x]
BY DEF Row

\* The next entry in turn is complete.
LEMMA RowsCompleted ==
  ASSUME DistinctLayers, NEW l, NEW U, NEW q, NEW d, NEW k, NEW t \in Nat, Lanes(q, d), Upto(q, k),
         Rows(l, U, q, d, k, t), NEW c \in Class, k[c] < Len(q[c]), d[c][k[c] + 1] \in Nat,
         d[c][k[c] + 1] <= t
  PROVE  Rows(update_end_at(l, q[c][k[c] + 1].layer, d[c][k[c] + 1]), U, q, d, Next1(k, c), t)
<1> DEFINE n == Next1(k, c)  a == k[c] + 1  r == q[c][a]  y == r.layer  v == to_cycle(d[c][a])
           l2 == update_end_at(l, y, d[c][a])
<1>1. /\ a \in Open(q, k, c) /\ r \in OpenSet(q, k) /\ OpenSet(q, n) = OpenSet(q, k) \ {r}
      /\ \A e \in Class : Open(q, n, e) \subseteq Open(q, k, e)
      /\ \A j \in Open(q, n, c) : a < j
      /\ \A e \in Class : e # c => Open(q, n, e) = {}
  BY OpenNext
<1>2. v \in Nat /\ v <= to_cycle(t)
  BY ToCycle
<1>3. /\ U \subseteq Requests /\ OpenSet(q, k) \subseteq U /\ l \in [{x.layer : x \in U} -> Row]
      /\ y \in DOMAIN l /\ r \in Requests
  BY <1>1 DEF Rows
<1>4. l2 = [l EXCEPT ![y].end = v]
  BY <1>3 DEF update_end_at
<1> HIDE DEF v, n
<1>5. /\ l2 \in [{x.layer : x \in U} -> Row] /\ l2[y].end = v /\ l2[y].start = l[y].start
      /\ DOMAIN l2 = DOMAIN l
      /\ \A x \in DOMAIN l : x # y => l2[x] = l[x]
  <2> DEFINE S == {x.layer : x \in U}
  <2>1. l \in [S -> Row] /\ y \in S /\ v \in Nat /\ l2 = [l EXCEPT ![y].end = v]
    BY <1>2, <1>3, <1>4
  <2> HIDE DEF S, y, l2
  <2> QED
    BY <2>1, RowEnds DEF S
<1>6. \A x \in OpenSet(q, n) : x.layer # y /\ l2[x.layer] = l[x.layer] /\ x \in OpenSet(q, k)
  <2>1. \A x \in OpenSet(q, n) : x \in U /\ x # r /\ x \in Requests /\ x \in OpenSet(q, k)
    BY <1>1, <1>3
  <2>2. \A x \in OpenSet(q, n) : x.layer # y /\ x.layer \in DOMAIN l
    BY <1>3, <2>1 DEF DistinctLayers
  <2> QED
    BY <1>5, <2>1, <2>2
<1>o. \A e \in Class : \A j \in Open(q, n, e) : q[e][j] \in OpenSet(q, n)
  BY DEF OpenSet
<1> HIDE DEF r, y, a, l2
<1>7. \A x \in Ended(l2) : x = y \/ (x \in Ended(l) /\ l2[x] = l[x])
  BY <1>5 DEF Ended
<1>8. \A x \in OpenSet(q, n) : v <= l[x.layer].start
  <2> SUFFICES ASSUME NEW x \in OpenSet(q, n) PROVE v <= l[x.layer].start
    OBVIOUS
  <2>1. PICK e \in Class : \E j \in Open(q, n, e) : x = q[e][j]
    BY DEF OpenSet
  <2>2. PICK j \in Open(q, n, e) : x = q[e][j]
    BY <2>1
  <2>3. e = c /\ a < j /\ j \in Open(q, k, c)
    BY <1>1, <2>2
  <2> QED
    BY <1>1, <2>2, <2>3 DEF Rows, v
<1>9. \A x \in Ended(l2) : \A z \in OpenSet(q, n) : l2[x].end <= l2[z.layer].start
  <2> SUFFICES ASSUME NEW x \in Ended(l2), NEW z \in OpenSet(q, n) PROVE l2[x].end <= l[z.layer].start
    BY <1>6
  <2>1. CASE x = y
    BY <1>5, <1>8, <2>1
  <2>2. CASE x \in Ended(l) /\ l2[x] = l[x]
    BY <1>6, <2>2 DEF Rows
  <2> QED
    BY <1>7, <2>1, <2>2
<1>10. \A e \in Class : \A i, j \in Open(q, n, e) :
         i < j => to_cycle(d[e][i]) <= l2[q[e][j].layer].start
  BY <1>1, <1>6, <1>o DEF Rows
<1>11. \A x \in Ended(l) : l[x].end <= l[y].start
  BY <1>1 DEF Rows, y
<1>12. \A x, z \in Ended(l2) : x # z => l2[x].end <= l2[z].start \/ l2[z].end <= l2[x].start
  <2> SUFFICES ASSUME NEW x \in Ended(l2), NEW z \in Ended(l2), x # z
               PROVE  l2[x].end <= l2[z].start \/ l2[z].end <= l2[x].start
    OBVIOUS
  <2>1. CASE x = y
    <3>1. z \in Ended(l) /\ l2[z] = l[z]
      BY <1>7, <2>1
    <3> QED
      BY <1>5, <1>11, <2>1, <3>1
  <2>2. CASE z = y
    <3>1. x \in Ended(l) /\ l2[x] = l[x]
      BY <1>7, <2>2
    <3> QED
      BY <1>5, <1>11, <2>2, <3>1
  <2>3. CASE x # y /\ z # y
    BY <1>7, <2>3 DEF Rows
  <2> QED
    BY <2>1, <2>2, <2>3
<1>13. \A x \in Ended(l2) : l2[x].end <= to_cycle(t)
  BY <1>2, <1>5, <1>7 DEF Rows
<1>14. \A x \in OpenSet(q, n) : l2[x.layer].end = NoCycle
  BY <1>6 DEF Rows
<1>15. OpenSet(q, n) \subseteq U
  BY <1>1, <1>3
<1> QED
  BY <1>3, <1>5, <1>9, <1>10, <1>12, <1>13, <1>14, <1>15 DEF Rows, r, y, a, l2, n

\* A request starts when those before it are complete.
LEMMA RowsStarted ==
  ASSUME DistinctLayers, NEW l, NEW U, NEW q, NEW d, NEW t \in Nat, Lanes(q, d), Rows(l, U, q, d, Zero, t),
         NEW e \in Class, NEW r \in Requests, r \notin U,
         NEW s \in Nat, NEW x \in Nat, t <= s,
         \A j \in 1..Len(d[e]) : d[e][j] <= s
  PROVE  Rows(update_start_at(l, r.layer, s), U \cup {r}, Put(q, e, r), Put(d, e, x), Zero, t)
<1> DEFINE p == Put(q, e, r)  u == Put(d, e, x)  y == r.layer  v == to_cycle(s)
           l2 == update_start_at(l, y, s)
<1>1. r \notin OpenSet(q, Zero) /\ OpenSet(q, Zero) \subseteq U
  BY DEF Rows
<1>2. /\ \A c \in Class : \A j \in Open(p, Zero, c) :
           \/ j \in Open(q, Zero, c) /\ p[c][j] = q[c][j] /\ u[c][j] = d[c][j]
           \/ c = e /\ j = Len(q[e]) + 1 /\ p[c][j] = r /\ u[c][j] = x
      /\ OpenSet(p, Zero) = OpenSet(q, Zero) \cup {r}
  BY <1>1, PutEntries
<1>3. U \subseteq Requests /\ l \in [{z.layer : z \in U} -> Row] /\ \A z \in U : z.layer # y
  BY DEF Rows, DistinctLayers
<1>4. y \notin DOMAIN l
  BY <1>3
<1>5. /\ DOMAIN l2 = DOMAIN l \cup {y} /\ l2[y] = [start |-> v, end |-> NoCycle]
      /\ (\A z \in DOMAIN l : l2[z] = l[z]) /\ l2 = [z \in DOMAIN l2 |-> l2[z]]
  BY <1>4 DEF update_start_at, Emplaced
<1>6. v \in Nat /\ to_cycle(t) \in Nat /\ to_cycle(t) <= v
  BY ToCycle
<1> HIDE DEF p, u, l2, v, y
<1>7. l2[y] \in Row /\ l2[y].start = v /\ l2[y].end = NoCycle
  BY <1>5, <1>6 DEF Row, NoCycle
<1>8. l2 \in [{z.layer : z \in U \cup {r}} -> Row]
  <2>1. DOMAIN l2 = {z.layer : z \in U \cup {r}}
    BY <1>3, <1>5 DEF y
  <2>2. \A z \in DOMAIN l2 : l2[z] \in Row
    BY <1>3, <1>5, <1>7
  <2> QED
    BY <1>5, <2>1, <2>2
<1>9. Ended(l2) = Ended(l) /\ y \notin Ended(l) /\ \A z \in Ended(l) : z \in DOMAIN l /\ l2[z] = l[z]
  BY <1>4, <1>5, <1>7 DEF Ended
<1>10. \A z \in OpenSet(q, Zero) : z.layer \in DOMAIN l /\ l2[z.layer] = l[z.layer]
  BY <1>1, <1>3, <1>5
<1>11. \A z \in OpenSet(p, Zero) : l2[z.layer].end = NoCycle
  BY <1>2, <1>7, <1>10 DEF Rows, y
<1>12. \A z \in Ended(l) : l[z].end \in Nat /\ l[z].end <= to_cycle(t)
  BY <1>3, <1>9 DEF Rows, Row
<1>13. \A z \in Ended(l2) : \A w \in OpenSet(p, Zero) : l2[z].end <= l2[w.layer].start
  <2> SUFFICES ASSUME NEW z \in Ended(l), NEW w \in OpenSet(p, Zero) PROVE l[z].end <= l2[w.layer].start
    BY <1>9
  <2>1. CASE w = r
    BY <1>6, <1>7, <1>12, <2>1 DEF y
  <2>2. CASE w \in OpenSet(q, Zero)
    BY <1>10, <2>2 DEF Rows
  <2> QED
    BY <1>2, <2>1, <2>2
<1>14. ASSUME NEW f \in Class, NEW i \in Open(p, Zero, f), NEW j \in Open(p, Zero, f), i < j
       PROVE  to_cycle(u[f][i]) <= l2[p[f][j].layer].start
  <2>0. /\ Len(q[f]) \in Nat /\ d[f] \in Seq(Nat) /\ Len(d[f]) = Len(q[f])
        /\ Open(q, Zero, f) = 1..Len(q[f]) /\ i \in Int /\ j \in Int
    BY <1>14 DEF Lanes, Open, Zero
  <2>1. CASE j \in Open(q, Zero, f) /\ p[f][j] = q[f][j]
    <3>1. i \in Open(q, Zero, f) /\ u[f][i] = d[f][i]
      BY <1>2, <1>14, <2>0, <2>1
    <3>2. to_cycle(d[f][i]) <= l[q[f][j].layer].start
      BY <1>14, <2>1, <3>1 DEF Rows
    <3>3. q[f][j] \in OpenSet(q, Zero)
      BY <1>14, <2>1 DEF OpenSet
    <3> QED
      BY <1>10, <2>1, <3>1, <3>2, <3>3
  <2>2. CASE f = e /\ j = Len(q[e]) + 1 /\ p[f][j] = r
    <3>1. i \in Open(q, Zero, f) /\ u[f][i] = d[f][i]
      BY <1>2, <1>14, <2>0, <2>2
    <3>2. d[e][i] \in Nat /\ d[e][i] <= s
      BY <2>0, <2>2, <3>1, ElementOfSeq
    <3>3. to_cycle(d[e][i]) <= v
      BY <3>2, ToCycle DEF v
    <3> QED
      BY <1>7, <2>2, <3>1, <3>3 DEF y
  <2> QED
    BY <1>2, <1>14, <2>1, <2>2
<1>15. \A z, w \in Ended(l2) : z # w => l2[z].end <= l2[w].start \/ l2[w].end <= l2[z].start
  BY <1>9 DEF Rows
<1>16. \A z \in Ended(l2) : l2[z].end <= to_cycle(t)
  BY <1>9, <1>12
<1>17. U \cup {r} \subseteq Requests /\ OpenSet(p, Zero) \subseteq U \cup {r}
  BY <1>1, <1>2, <1>3
<1> QED
  BY <1>8, <1>11, <1>13, <1>14, <1>15, <1>16, <1>17 DEF Rows, p, u, y, l2

\* Popping the reported entries renumbers the others.
LEMMA RowsCut ==
  ASSUME NEW l, NEW U, NEW q, NEW d, NEW k, NEW p, NEW u, NEW t, Upto(q, k),
         Renumbered(q, d, k, p, u), OpenSet(p, Zero) = OpenSet(q, k), Rows(l, U, q, d, k, t)
  PROVE  Rows(l, U, p, u, Zero, t)
<1>1. ASSUME NEW e \in Class, NEW i \in Open(p, Zero, e), NEW j \in Open(p, Zero, e), i < j
      PROVE  to_cycle(u[e][i]) <= l[p[e][j].layer].start
  <2>1. k[e] + i < k[e] + j
    BY <1>1 DEF Upto, Open
  <2> QED
    BY <1>1, <2>1 DEF Rows, Renumbered
<1> QED
  BY <1>1 DEF Rows

\* Nothing but time has changed.
LEMMA RowsLater ==
  ASSUME NEW l, NEW U, NEW q, NEW d, NEW k, NEW t \in Nat, NEW v \in Nat, t <= v, Rows(l, U, q, d, k, t)
  PROVE  Rows(l, U, q, d, k, v)
<1>1. to_cycle(t) \in Nat /\ to_cycle(v) \in Nat /\ to_cycle(t) <= to_cycle(v)
  BY ToCycle
<1>2. \A x \in Ended(l) : l[x].end \in Nat /\ l[x].end <= to_cycle(t)
  BY DEF Rows, Row, Ended
<1>3. \A x \in Ended(l) : l[x].end <= to_cycle(v)
  BY <1>1, <1>2
<1> QED
  BY <1>3 DEF Rows

-----------------------------------------------------------------------------
(* The reports of the thread: what is due, one entry after the other       *)

\* What the device is done with when it still has D.
DoneWith(D) == sent \ (Entries(peq) \cup Waiting \cup D)
\* What the device has had.
Begun == Left \cup Serving

\* The waits of a class so far.
QueueWait(m, c) == Pim(m).traffic[c].queue_wait_ns

\* The books b when the first k[c] entries of the analytical queue of each
\* class have been reported.
Account(b, k) ==
  /\ Books(b.metrics, Waiting \cup OpenSet(fast, k), OpenSet(fast, k), DoneWith(OpenSet(fast, k)))
  /\ Timeline(b.metrics, fast, done_time, k, now)
  /\ b.metrics.stall = metrics.stall
  /\ \A c \in Class : QueueWait(b.metrics, c) = QueueWait(metrics, c)
  /\ \A r \in Waiting : b.metrics.requests[r.ptr] = metrics.requests[r.ptr]
  /\ DistinctLayers => Rows(ServiceLog(b.log), Begun, fast, done_time, k, now)
  /\ WaitLog(b.log) = WaitLog(log)

\* The entries of the analytical queues that are due have reached their time.
DueReached == \A c \in Class : \A i \in 1..due[c] : done_time[c][i] <= now

\* What is open is on the device.
LEMMA OpenServing ==
  ASSUME NEW k, Lanes(fast, done_time), Upto(fast, k)
  PROVE  OpenSet(fast, k) \subseteq Serving
<1> SUFFICES ASSUME NEW x \in OpenSet(fast, k) PROVE x \in Serving
  OBVIOUS
<1>1. PICK c \in Class : \E j \in Open(fast, k, c) : x = fast[c][j]
  BY DEF OpenSet
<1>2. PICK j \in Open(fast, k, c) : x = fast[c][j]
  BY <1>1
<1>3. j \in 1..Len(fast[c])
  BY <1>2 DEF Open, Upto, Lanes
<1> QED
  BY <1>2, <1>3 DEF Serving, Queued, Entries, Class

\* One entry is reported.
LEMMA AccountStep ==
  ASSUME Placed, now \in Nat, Lanes(fast, done_time), NEW b, NEW k, Upto(fast, k), Account(b, k),
         NEW c \in Class, k[c] < Len(fast[c]), done_time[c][k[c] + 1] <= now
  PROVE  Account(Reported(b, fast[c][k[c] + 1], done_time[c][k[c] + 1]), Next1(k, c))
<1> DEFINE n == Next1(k, c)  a == k[c] + 1  r == fast[c][a]  v == done_time[c][a]
           D == OpenSet(fast, k)  E == OpenSet(fast, n)  m == b.metrics
           b2 == Reported(b, r, v)  m2 == BooksComplete(m, r, v)
           l2 == update_end_at(b.log, r.layer, v)
<1>0. b2.metrics = m2 /\ b2.log = l2
  BY DEF Reported, BooksComplete
<1>1. /\ Upto(fast, n) /\ a \in Open(fast, k, c) /\ r \in D /\ E = D \ {r}
      /\ \A e \in Class : Open(fast, n, e) \subseteq Open(fast, k, e)
  BY OpenNext
<1>2. /\ k[c] \in Nat /\ Len(fast[c]) \in Nat /\ done_time[c] \in Seq(Nat)
      /\ Len(done_time[c]) = Len(fast[c]) /\ k[c] < Len(fast[c])
  BY DEF Lanes, Upto
<1>3. a \in 1..Len(fast[c]) /\ v \in Nat /\ ClassOf(r) = c
  <2>1. a \in 1..Len(fast[c]) /\ a \in 1..Len(done_time[c])
    BY <1>2
  <2>2. v \in Nat
    BY <1>2, <2>1, ElementOfSeq
  <2> QED
    BY <2>1, <2>2 DEF Lanes
<1>4. D \subseteq Serving
  BY OpenServing
<1>5. /\ r \in sent /\ r \notin Entries(peq) /\ r \notin Waiting /\ r \in Requests
  BY <1>1, <1>4 DEF Placed, Inside
<1>6. /\ Books(m, Waiting \cup D, D, DoneWith(D)) /\ Timeline(m, fast, done_time, k, now)
      /\ m.stall = metrics.stall
      /\ \A e \in Class : QueueWait(m, e) = QueueWait(metrics, e)
      /\ \A x \in Waiting : m.requests[x.ptr] = metrics.requests[x.ptr]
      /\ DistinctLayers => Rows(ServiceLog(b.log), Begun, fast, done_time, k, now)
      /\ WaitLog(b.log) = WaitLog(log)
  BY DEF Account
<1>l. /\ ServiceLog(l2) = update_end_at(ServiceLog(b.log), r.layer, v)
      /\ WaitLog(l2) = WaitLog(log)
  <2>1. r.layer \notin ContentionRows
    BY <1>5, TimedAssumption
  <2> DEFINE l == b.log  y == r.layer
  <2>2. y \notin ContentionRows /\ WaitLog(l) = WaitLog(log)
    BY <1>6, <2>1
  <2> HIDE DEF l, y, v
  <2>3. /\ ServiceLog(update_end_at(l, y, v)) = update_end_at(ServiceLog(l), y, v)
        /\ WaitLog(update_end_at(l, y, v)) = WaitLog(l)
    BY ONLY <2>2, LayerLogged, ZenonT(30)
  <2> QED
    BY <2>2, <2>3 DEF l, y
<1> DEFINE G == DoneWith(D)  K == Waiting \cup D
<1>7. /\ K \ {r} = Waiting \cup E /\ D \ {r} = E /\ G \cup {r} = DoneWith(E) /\ r \notin G
  BY <1>1, <1>5 DEF DoneWith
<1>8. StartOf(m, r) <= to_ns(v)
  BY <1>1, <1>6 DEF Timeline
<1>9. /\ Books(m2, K \ {r}, D \ {r}, G \cup {r})
      /\ \A x \in K \ {r} : m2.requests[x.ptr] = m.requests[x.ptr]
      /\ m2.stall = m.stall
      /\ \A e \in Class :
           /\ Pim(m2).traffic[e].queue_wait_ns = Pim(m).traffic[e].queue_wait_ns
           /\ Pim(m2).traffic[e].service_intervals =
                IF e = ClassOf(r)
                THEN Append(Pim(m).traffic[e].service_intervals, <<m.requests[r.ptr].start_ns, to_ns(v)>>)
                ELSE Pim(m).traffic[e].service_intervals
  <2>1. MayComplete(m, K, D, G, r, v) /\ v \in Nat /\ r \in D
    BY <1>1, <1>3, <1>6, <1>7, <1>8 DEF StartOf, MayComplete
  <2> HIDE DEF m, K, D, G, r, v
  <2>2. Books(m2, K \ {r}, D \ {r}, G \cup {r}) /\ CompletionAdds(m, m2, K, r, v)
    BY ONLY <2>1, BooksCompleted, ZenonT(30)
  <2> QED
    BY <2>2 DEF CompletionAdds
<1>10. Books(m2, Waiting \cup E, E, DoneWith(E))
  <2> HIDE DEF m2, K, D, G, r, E
  <2> QED
    BY <1>7, <1>9
<1>11. MetricsType(m) /\ MetricsType(m2) /\ StartOf(m, r) \in Nat
  <2>1. EntryOf(m.requests[r.ptr], r, D)
    BY <1>1, <1>6 DEF Books, Entered
  <2>2. StartOf(m, r) \in Nat
    BY <1>1, <2>1 DEF EntryOf, StartOf
  <2> QED
    BY <1>6, <1>10, <2>2 DEF Books
<1>12. Timeline(m2, fast, done_time, n, now)
  <2>1. \A e \in Class : \A j \in Open(fast, n, e) : StartOf(m2, fast[e][j]) = StartOf(m, fast[e][j])
    <3>1. \A e \in Class : \A j \in Open(fast, n, e) : fast[e][j] \in E
      BY DEF OpenSet
    <3>2. \A x \in E : m2.requests[x.ptr] = m.requests[x.ptr]
      BY <1>7, <1>9
    <3> QED
      BY <3>1, <3>2 DEF StartOf
  <2>2. \A e \in Class : Sv(m2, e) = IF e = c THEN Append(Sv(m, e), <<StartOf(m, r), to_ns(v)>>) ELSE Sv(m, e)
    BY <1>3, <1>9 DEF Sv, StartOf
  <2> HIDE DEF m2, m
  <2> QED
    BY <1>2, <1>6, <1>11, <2>1, <2>2, TimelineCompleted
<1>13. DistinctLayers => Rows(ServiceLog(l2), Begun, fast, done_time, n, now)
  <2> SUFFICES ASSUME DistinctLayers PROVE Rows(ServiceLog(l2), Begun, fast, done_time, n, now)
    OBVIOUS
  <2> DEFINE l == ServiceLog(b.log)  U == Begun
  <2>1. Rows(l, U, fast, done_time, k, now)
    BY <1>6
  <2> HIDE DEF l, U
  <2>2. Rows(update_end_at(l, fast[c][k[c] + 1].layer, done_time[c][k[c] + 1]), U, fast, done_time,
             Next1(k, c), now)
    BY <1>2, <1>3, <2>1, RowsCompleted
  <2> QED
    BY <1>l, <2>2 DEF l, U
<1>14. /\ m2.stall = metrics.stall
       /\ \A e \in Class : QueueWait(m2, e) = QueueWait(metrics, e)
       /\ \A x \in Waiting : m2.requests[x.ptr] = metrics.requests[x.ptr]
  <2>1. \A x \in Waiting : x \in K \ {r}
    BY <1>5
  <2> HIDE DEF m2, K
  <2> QED
    BY <1>6, <1>9, <2>1 DEF QueueWait
<1> HIDE DEF m2, b2, l2, E, n
<1>15. Account(b2, n)
  BY <1>0, <1>10, <1>12, <1>13, <1>14, <1>l DEF Account, E
<1> QED
  BY <1>15 DEF b2, n

-----------------------------------------------------------------------------
\* The reports for one class in turn, as complete_fast_requests makes them.
ReportTable(b, c, f, n) ==
  f = [k \in 0..n |-> IF k = 0 THEN b ELSE Reported(f[k - 1], fast[c][k], done_time[c][k])]

\* complete_fast_requests defines such a table.
LEMMA ReportTableExists ==
  ASSUME NEW b, NEW c, NEW n \in Nat
  PROVE  \E f : ReportTable(b, c, f, n)
<1> DEFINE Bad == {m \in Nat : ~ \E f : ReportTable(b, c, f, m)}
<1>1. SUFFICES ASSUME Bad # {} PROVE FALSE
  OBVIOUS
<1>0. Bad \in SUBSET Nat
  OBVIOUS
<1>2. PICK x \in Bad : \A y \in Bad : x <= y
  <2> HIDE DEF Bad
  <2> QED
    BY <1>0, <1>1, Least
<1>3. x # 0
  <2>1. ReportTable(b, c, [i \in 0..0 |-> b], 0)
    BY DEF ReportTable
  <2> QED
    BY <2>1
<1>4. x - 1 \in Nat /\ x - 1 \notin Bad
  BY <1>2, <1>3
<1>5. PICK f : ReportTable(b, c, f, x - 1)
  BY <1>4
<1> DEFINE Rep(y, i) == Reported(y, fast[c][i], done_time[c][i])
           g == [i \in 0..x |-> IF i = x THEN Rep(f[x - 1], x) ELSE f[i]]
<1>6. ReportTable(b, c, g, x)
  <2>0. \A j \in 0..(x - 1) : f[j] = IF j = 0 THEN b ELSE Rep(f[j - 1], j)
    BY <1>5 DEF ReportTable
  <2>a. g = [i \in 0..x |-> IF i = 0 THEN b ELSE Rep(g[i - 1], i)] => ReportTable(b, c, g, x)
    BY DEF ReportTable
  <2> HIDE DEF Rep
  <2>1. ASSUME NEW i \in 0..x
        PROVE  g[i] = IF i = 0 THEN b ELSE Rep(g[i - 1], i)
    <3>2. CASE i = x
      <4>1. i # 0 /\ i - 1 \in 0..x /\ i - 1 # x
        BY <1>3, <1>4, <3>2
      <4>2. g[i] = Rep(f[x - 1], x) /\ g[i - 1] = f[i - 1]
        BY <3>2, <4>1
      <4> QED
        BY <3>2, <4>1, <4>2
    <3>3. CASE i # x
      <4>1. i \in 0..(x - 1) /\ g[i] = f[i] /\ (i # 0 => g[i - 1] = f[i - 1])
        BY <1>4, <3>3
      <4> QED
        BY <2>0, <4>1
    <3> QED
      BY <3>2, <3>3
  <2> HIDE DEF g
  <2>2. g = [i \in 0..x |-> g[i]]
    BY DEF g
  <2> QED
    BY <2>1, <2>2, <2>a
<1> QED
  BY <1>2, <1>6

\* The first j entries of class c, and of the others as many as k says.
Set(k, c, j) == [k EXCEPT ![c] = j]

\* All that is due in one class is reported.
LEMMA AccountClass ==
  ASSUME Placed, now \in Nat, Lanes(fast, done_time), DueReached, NEW c \in Class,
         due[c] \in Nat, due[c] <= Len(fast[c]),
         NEW b, NEW k, Upto(fast, k), k[c] = 0, Account(b, k)
  PROVE  Account(complete_fast_requests(b, c), Set(k, c, due[c])) /\ Upto(fast, Set(k, c, due[c]))
<1> DEFINE h == CHOOSE f : ReportTable(b, c, f, due[c])
<1>1. complete_fast_requests(b, c) = h[due[c]]
  BY DEF complete_fast_requests, ReportTable
<1>2. ReportTable(b, c, h, due[c])
  BY ReportTableExists
<1> HIDE DEF h
<1>k. k \in [Class -> Nat] /\ Len(fast[c]) \in Nat
  BY DEF Upto, Lanes
<1>u. \A j \in 0..due[c] : Upto(fast, Set(k, c, j)) /\ Set(k, c, j)[c] = j
  BY <1>k DEF Upto, Set
<1>n. \A j \in Nat : Next1(Set(k, c, j), c) = Set(k, c, j + 1)
  BY <1>k DEF Next1, Set
<1>z. Set(k, c, 0) = k
  BY <1>k DEF Set
<1> DEFINE Good(j) == Account(h[j], Set(k, c, j))
           Bad == {j \in 0..due[c] : ~Good(j)}
<1>3. SUFFICES ASSUME Bad # {} PROVE FALSE
  <2>1. due[c] \in 0..due[c]
    OBVIOUS
  <2>2. Good(due[c])
    BY <1>3, <2>1
  <2> QED
    BY <1>1, <1>u, <2>1, <2>2
<1>4. Bad \in SUBSET Nat
  OBVIOUS
<1>5. PICK x \in Bad : \A y \in Bad : x <= y
  <2> HIDE DEF Bad
  <2> QED
    BY <1>3, <1>4, Least
<1>6. x \in 0..due[c] /\ ~Good(x)
  BY <1>5
<1>7. x # 0
  <2>1. h[0] = b
    BY <1>2 DEF ReportTable
  <2> QED
    BY <1>6, <1>z, <2>1
<1>8. x - 1 \in 0..due[c] /\ Good(x - 1)
  <2>1. x - 1 \in 0..due[c] /\ ~(x <= x - 1)
    BY <1>6, <1>7
  <2>2. x - 1 \notin Bad
    BY <1>5, <2>1
  <2> QED
    BY <2>1, <2>2
<1> HIDE DEF Bad
<1>9. h[x] = Reported(h[x - 1], fast[c][x], done_time[c][x])
  BY <1>2, <1>6, <1>7 DEF ReportTable
<1> DEFINE w == Set(k, c, x - 1)  y == h[x - 1]
<1>10. /\ Account(y, w) /\ Upto(fast, w) /\ w[c] = x - 1 /\ w[c] + 1 = x /\ Next1(w, c) = Set(k, c, x)
  <2>1. (x - 1) + 1 = x /\ x - 1 \in Nat
    BY <1>6, <1>7
  <2> QED
    BY <1>8, <1>u, <1>n, <2>1
<1>11. w[c] < Len(fast[c]) /\ done_time[c][w[c] + 1] <= now
  BY <1>6, <1>7, <1>10, <1>k DEF DueReached
<1> HIDE DEF w, y
<1>12. Account(Reported(y, fast[c][w[c] + 1], done_time[c][w[c] + 1]), Next1(w, c))
  BY <1>10, <1>11, AccountStep
<1> QED
  BY <1>6, <1>9, <1>10, <1>12 DEF y

\* All that is due is reported.
LEMMA AccountAfter ==
  ASSUME Placed, now \in Nat, Lanes(fast, done_time), DueReached,
         due \in [Class -> Nat], \A c \in Class : due[c] <= Len(fast[c]),
         Account([metrics |-> metrics, log |-> log], Zero)
  PROVE  Account(BooksAfter, due) /\ Upto(fast, due)
<1> DEFINE b == [metrics |-> metrics, log |-> log]
           x == complete_fast_requests(b, "memory")  y == complete_fast_requests(x, "compute")
           k == Set(Zero, "memory", due["memory"])
<1>0. "memory" \in Class /\ "compute" \in Class /\ \A c \in Class : Zero[c] = 0
  BY DEF Class, Zero
<1>1. Upto(fast, Zero) /\ Account(b, Zero)
  BY DEF Upto, Zero, Lanes
<1>2. BooksAfter = y
  BY DEF BooksAfter
<1> HIDE DEF b
<1>3. Account(x, k) /\ Upto(fast, k)
  BY <1>0, <1>1, AccountClass
<1>4. k["compute"] = 0 /\ Set(k, "compute", due["compute"]) = due
  BY DEF Set, Zero, Class
<1> HIDE DEF x, k
<1>5. Account(y, due) /\ Upto(fast, due)
  BY <1>0, <1>3, <1>4, AccountClass
<1> QED
  BY <1>2, <1>5

\* All entries are open at first.
LEMMA OpenAll ==
  ASSUME NEW q, q \in [Class -> Seq(Requests)]
  PROVE  OpenSet(q, Zero) = Entries(q["memory"]) \cup Entries(q["compute"])
<1>1. \A c \in Class : Open(q, Zero, c) = 1..Len(q[c])
  BY DEF Open, Zero
<1>2. \A c \in Class : {q[c][j] : j \in Open(q, Zero, c)} = Entries(q[c])
  BY <1>1 DEF Entries
<1>3. \A y : y \in OpenSet(q, Zero) <=> \E c \in Class : y \in Entries(q[c])
  BY <1>2 DEF OpenSet
<1>4. \A y : y \in OpenSet(q, Zero) <=> y \in Entries(q["memory"]) \/ y \in Entries(q["compute"])
  BY <1>3 DEF Class
<1> QED
  BY <1>4

\* The device works on one class at a time.
LEMMA OneClass ==
  ASSUME WiredFor, IInv
  PROVE  fast["memory"] = <<>> \/ fast["compute"] = <<>>
<1>0. TypeOK /\ WellFormed /\ ModeExclusive
  BY DEF IInv
<1>1. CASE Unified
  <2>1. ASSUME NEW c \in Class, fast[c] # <<>> PROVE pim_mode = c
    <3>1. Len(fast[c]) \in Nat /\ Len(bridge[c]) \in Nat /\ Len(completed[c]) \in Nat
      BY <1>0, <2>1 DEF TypeOK
    <3>2. CountOf(c, bridge_done) \in Nat
      BY <1>0, CountFinite DEF TypeOK
    <3>3. Len(fast[c]) # 0
      BY <1>0, <2>1, EmptySeq DEF TypeOK
    <3>4. InFlight(c) > 0
      <4> DEFINE f == Len(fast[c])  b == Len(bridge[c])  e == Len(completed[c])
                 n == CountOf(c, bridge_done)
      <4>1. f \in Nat /\ b \in Nat /\ n \in Nat /\ e \in Nat /\ f # 0
        BY <3>1, <3>2, <3>3
      <4>2. InFlight(c) = f + b + n + e
        BY DEF InFlight
      <4> HIDE DEF f, b, e, n
      <4> QED
        BY <4>1, <4>2
    <3> QED
      BY <1>0, <1>1, <2>1, <3>4 DEF ModeExclusive
  <2> QED
    BY <2>1 DEF Class
<1>2. CASE ~Unified
  <2>1. \A r \in Requests : ClassOf(r) = "compute"
    BY <1>2 DEF WiredFor
  <2>2. fast["memory"] \in Seq(Requests) /\ \A i \in 1..Len(fast["memory"]) : ClassOf(fast["memory"][i]) = "memory"
    BY <1>0 DEF TypeOK, WellFormed, Class
  <2>3. \A i \in 1..Len(fast["memory"]) : FALSE
    BY <2>1, <2>2, ElementOfSeq
  <2>4. Len(fast["memory"]) \in Nat
    BY <2>2
  <2>5. Len(fast["memory"]) = 0
    BY <2>3, <2>4
  <2> QED
    BY <2>2, <2>5, EmptySeq
<1> QED
  BY <1>1, <1>2

\* The analytical queues are such lanes.
LEMMA LanesHold ==
  ASSUME WiredFor, TimeInv, Placed
  PROVE  Lanes(fast, done_time)
<1>1. /\ fast \in [Class -> Seq(Requests)] /\ done_time \in [Class -> Seq(Nat)]
      /\ \A c \in Class : \A i \in 1..Len(fast[c]) : ClassOf(fast[c][i]) = c
      /\ \A c \in Class : Len(done_time[c]) = Len(fast[c])
  BY DEF TimeInv, Clocks, IInv, TypeOK, WellFormed
<1>2. \A c \in Class : Distinct(fast[c])
  BY DEF Placed
<1>3. fast["memory"] = <<>> \/ fast["compute"] = <<>>
  BY OneClass DEF TimeInv
<1> QED
  BY <1>1, <1>2, <1>3 DEF Lanes

-----------------------------------------------------------------------------
\* The books m and l for the queues q with the times d: W wait for the device,
\* G have left it.
Ledger(m, l, q, d, W, G, t) ==
  /\ W \cap OpenSet(q, Zero) = {} /\ G \cap (W \cup OpenSet(q, Zero)) = {}
  /\ Books(m, W \cup OpenSet(q, Zero), OpenSet(q, Zero), G)
  /\ Timeline(m, q, d, Zero, t)
  /\ DistinctLayers => Rows(ServiceLog(l), G \cup OpenSet(q, Zero), q, d, Zero, t)

\* The request r, of class e, may start at s and is done at x.
MayStart(m, l, q, d, W, G, t, r, e, s, x) ==
  /\ Ledger(m, l, q, d, W, G, t) /\ Lanes(q, d) /\ {t, s, x} \subseteq Nat /\ r \in W /\ e = ClassOf(r)
  /\ t <= s /\ s <= x /\ \A j \in 1..Len(d[e]) : d[e][j] <= s
  /\ m.requests[r.ptr].arrival_ns <= to_ns(s)

\* The books and the log once it has started.
BooksStart(m, r, s) == request_started(m, "PIM", r.ptr, s, kAllChannels)
LogStart(l, r, s) == update_start_at(l, r.layer, s)

\* What a start leaves as it was, and the wait that it ends.
StartKeeps(m, m2, W, r, e, s) ==
  /\ m2.stall = m.stall
  /\ \A y \in W \ {r} : m2.requests[y.ptr] = m.requests[y.ptr]
  /\ \A c \in Class :
       QueueWait(m2, c) = QueueWait(m, c)
         + (IF c = e THEN to_ns(s) - m.requests[r.ptr].arrival_ns ELSE 0)

\* A request that waits starts.
LEMMA LedgerStarted ==
  ASSUME NEW m, NEW l, NEW q, NEW d, NEW W, NEW G, NEW t \in Nat, NEW r \in W, NEW e,
         NEW s \in Nat, NEW x \in Nat,
         MayStart(m, l, q, d, W, G, t, r, e, s, x)
  PROVE  /\ Ledger(BooksStart(m, r, s), LogStart(l, r, s), Put(q, e, r), Put(d, e, x), W \ {r}, G, t)
         /\ StartKeeps(m, BooksStart(m, r, s), W, r, e, s)
<1> DEFINE m2 == request_started(m, "PIM", r.ptr, s, kAllChannels)
           l2 == update_start_at(l, r.layer, s)
<1>h. /\ Ledger(m, l, q, d, W, G, t) /\ Lanes(q, d) /\ t \in Nat /\ s \in Nat /\ x \in Nat /\ r \in W
      /\ e = ClassOf(r) /\ t <= s /\ s <= x /\ \A j \in 1..Len(d[e]) : d[e][j] <= s
      /\ m.requests[r.ptr].arrival_ns <= to_ns(s)
  BY DEF MayStart
<1> DEFINE p == Put(q, e, r)  u == Put(d, e, x)
           D == OpenSet(q, Zero)  K == W \cup D
<1>1. /\ W \cap D = {} /\ G \cap K = {} /\ Books(m, K, D, G) /\ Timeline(m, q, d, Zero, t)
      /\ DistinctLayers => Rows(ServiceLog(l), G \cup D, q, d, Zero, t)
  BY <1>h DEF Ledger
<1>2. K \subseteq Requests /\ r \in K /\ r \notin D /\ r \in Requests /\ e \in Class /\ r \notin G
  BY <1>h, <1>1 DEF Books, Entered, ClassOf, Class
<1>3. OpenSet(p, Zero) = D \cup {r}
  BY <1>h, <1>2, PutEntries
<1>4. StartBooked(m, m2, K, D, G, r, s)
  <2>1. Books(m, K, D, G) /\ s \in Nat /\ r \in K /\ r \notin D /\ m.requests[r.ptr].arrival_ns <= to_ns(s)
    BY <1>h, <1>1, <1>2
  <2> HIDE DEF K, D
  <2> QED
    BY ONLY <2>1, BooksStarted
<1>m. MetricsType(m)
  BY <1>h, <1>1 DEF Books
<1> HIDE DEF m2, l2
<1>5. Timeline(m2, p, u, Zero, t)
  <2>1. \A c \in Class : Sv(m2, c) = Sv(m, c)
    BY <1>h, <1>4 DEF Sv, StartBooked
  <2>2. \A y \in OpenSet(q, Zero) : StartOf(m2, y) = StartOf(m, y)
    BY <1>h, <1>2, <1>4 DEF StartOf, StartBooked
  <2>3. StartOf(m2, r) = to_ns(s) /\ \A j \in 1..Len(d[e]) : d[e][j] <= s
    BY <1>h, <1>4 DEF StartOf, StartBooked
  <2>4. e \in Class /\ r \in Requests /\ r \notin OpenSet(q, Zero)
    BY <1>h, <1>2
  <2> QED
    BY <1>h, <1>1, <1>m, <2>1, <2>2, <2>3, <2>4, TimelineStarted
<1>6. DistinctLayers => Rows(ServiceLog(l2), G \cup OpenSet(p, Zero), p, u, Zero, t)
  <2> SUFFICES ASSUME DistinctLayers PROVE Rows(ServiceLog(l2), G \cup OpenSet(p, Zero), p, u, Zero, t)
    OBVIOUS
  <2> DEFINE U == G \cup D  L == ServiceLog(l)
  <2>0. ServiceLog(l2) = update_start_at(L, r.layer, s)
    <3>1. r.layer \notin ContentionRows
      BY <1>2, TimedAssumption
    <3> QED
      BY <3>1, LayerLogged DEF l2
  <2>1. Rows(L, U, q, d, Zero, t) /\ r \notin U
    BY <1>h, <1>1, <1>2
  <2>2. U \cup {r} = G \cup OpenSet(p, Zero)
    BY <1>h, <1>3
  <2>3. e \in Class /\ r \in Requests /\ \A j \in 1..Len(d[e]) : d[e][j] <= s
    BY <1>h, <1>2
  <2> HIDE DEF U, L
  <2>4. Rows(update_start_at(L, r.layer, s), U \cup {r}, Put(q, e, r), Put(d, e, x), Zero, t)
    BY <1>h, <2>1, <2>3, RowsStarted
  <2> QED
    BY <2>0, <2>2, <2>4
<1>7. /\ (W \ {r}) \cap OpenSet(p, Zero) = {} /\ (W \ {r}) \cup OpenSet(p, Zero) = K
  BY <1>h, <1>1, <1>2, <1>3
<1>8. Ledger(m2, l2, p, u, W \ {r}, G, t)
  <2> HIDE DEF p, u, K
  <2> QED
    BY <1>h, <1>1, <1>3, <1>4, <1>5, <1>6, <1>7 DEF Ledger, StartBooked
<1>9. \A y \in W \ {r} : m2.requests[y.ptr] = m.requests[y.ptr]
  BY <1>h, <1>4 DEF StartBooked
<1> QED
  BY <1>h, <1>4, <1>8, <1>9 DEF QueueWait, StartKeeps, StartBooked, BooksStart, LogStart, m2, l2

\* The books change in nothing that a stall is not, and the log in no row of a layer.
LEMMA LedgerStalled ==
  ASSUME NEW m, NEW l, NEW q, NEW d, NEW W, NEW G, NEW t \in Nat, Ledger(m, l, q, d, W, G, t),
         NEW a \in Nat, a <= t, NEW c \in Class, NEW l2, ServiceLog(l2) = ServiceLog(l)
  PROVE  LET m2 == record_pim_resource_stall(m, a, t, c)
         IN /\ Ledger(m2, l2, q, d, W, G, t) /\ m2.requests = m.requests /\ m2.device = m.device
            /\ m2.stall = [m.stall EXCEPT ![c] = @ + (to_ns(t) - to_ns(a))]
<1> DEFINE D == OpenSet(q, Zero)  K == W \cup D  m2 == record_pim_resource_stall(m, a, t, c)
<1>1. /\ W \cap D = {} /\ G \cap K = {} /\ Books(m, K, D, G) /\ Timeline(m, q, d, Zero, t)
      /\ DistinctLayers => Rows(ServiceLog(l), G \cup D, q, d, Zero, t)
  BY DEF Ledger
<1>2. /\ Books(m2, K, D, G) /\ m2.requests = m.requests /\ m2.device = m.device
      /\ m2.stall = [m.stall EXCEPT ![c] = @ + (to_ns(t) - to_ns(a))]
  <2>1. Books(m, K, D, G) /\ a \in Nat /\ t \in Nat /\ a <= t /\ c \in Class
    BY <1>1
  <2> HIDE DEF K, D
  <2> QED
    BY ONLY <2>1, BooksStalled, SMTT(60)
<1>m. MetricsType(m)
  BY <1>1 DEF Books
<1> HIDE DEF m2
<1>3. Timeline(m2, q, d, Zero, t)
  <2>1. /\ \A e \in Class : Sv(m2, e) = Sv(m, e)
        /\ \A y \in OpenSet(q, Zero) : StartOf(m2, y) = StartOf(m, y)
        /\ t <= t
    BY <1>2 DEF Sv, StartOf, Pim
  <2> QED
    BY <1>1, <1>m, <2>1, TimelineLater
<1>4. Ledger(m2, l2, q, d, W, G, t)
  BY <1>1, <1>2, <1>3 DEF Ledger
<1> QED
  BY <1>2, <1>4 DEF m2

\* The metrics and the log when what is due has been reported.
MetricsAfter == BooksAfter.metrics
LogAfter == BooksAfter.log

\* What the thread finds when it has collected what is due.
LEMMA LedgerCollect ==
  ASSUME WiredFor, TimeInv, LineInv, DueReached,
         Ledger(metrics, log, fast, done_time, Waiting, Left, now)
  PROVE  /\ Ledger(MetricsAfter, LogAfter, Cut(fast, due), Cut(done_time, due), Waiting, Left \cup AllDue, now)
         /\ Lanes(Cut(fast, due), Cut(done_time, due))
         /\ Cut(fast, due) = [c \in Class |-> Undue(c)] /\ Cut(done_time, due) = DoneAfter
         /\ MetricsAfter.stall = metrics.stall
         /\ \A c \in Class : QueueWait(MetricsAfter, c) = QueueWait(metrics, c)
         /\ \A r \in Waiting : MetricsAfter.requests[r.ptr] = metrics.requests[r.ptr]
         /\ WaitLog(LogAfter) = WaitLog(log)
<1> DEFINE q == Cut(fast, due)  d == Cut(done_time, due)
<1>0. Placed /\ IInv /\ Clocks
  BY DEF LineInv, TimeInv
<1>1. Lanes(fast, done_time)
  BY <1>0, LanesHold
<1>2. /\ now \in Nat /\ due \in [Class -> Nat] /\ \A c \in Class : due[c] <= Len(fast[c])
      /\ fast \in [Class -> Seq(Requests)]
  BY <1>0 DEF IInv, TypeOK, WellFormed, Clocks
<1>3. OpenSet(fast, Zero) = Serving
  BY <1>2, OpenAll DEF Serving, Queued
<1>4. Account([metrics |-> metrics, log |-> log], Zero)
  <2>1. DoneWith(Serving) = Left
    BY DEF DoneWith, Left, Inside
  <2> DEFINE b == [metrics |-> metrics, log |-> log]
  <2>2. b.metrics = metrics /\ b.log = log
    OBVIOUS
  <2> HIDE DEF b
  <2>3. Account(b, Zero)
    BY <1>3, <2>1, <2>2 DEF Account, Ledger, Begun
  <2> QED
    BY <2>3 DEF b
<1>5. Account(BooksAfter, due) /\ Upto(fast, due)
  BY <1>0, <1>1, <1>2, <1>4, AccountAfter
<1>6. q = [c \in Class |-> Undue(c)] /\ d = DoneAfter
  BY DEF Cut, Undue, DoneAfter
<1>7. \A c \in Class : /\ q[c] \in Seq(Requests) /\ Distinct(q[c])
                       /\ Entries(q[c]) = Queued(c) \ DueOf(c) /\ DueOf(c) \subseteq Queued(c)
  BY <1>0, <1>6, CollectPlaces
<1>8. Renumbered(fast, done_time, due, q, d) /\ OpenSet(q, Zero) = OpenSet(fast, due)
  BY <1>1, <1>5, CutRenumbers
<1>9. \A c \in Class : d[c] \in Seq(Nat) /\ Len(d[c]) = Len(q[c])
  <2> SUFFICES ASSUME NEW c \in Class PROVE d[c] \in Seq(Nat) /\ Len(d[c]) = Len(q[c])
    OBVIOUS
  <2> DEFINE s == fast[c]  v == done_time[c]  a == due[c]
  <2>1. s \in Seq(Requests) /\ v \in Seq(Nat) /\ a \in 0..Len(s) /\ Len(v) = Len(s)
    BY <1>1, <1>2 DEF Lanes
  <2>2. q[c] = SubSeq(s, a + 1, Len(s)) /\ d[c] = SubSeq(v, a + 1, Len(v))
    BY DEF Cut
  <2> HIDE DEF s, v, a, q, d
  <2>3. Len(SubSeq(s, a + 1, Len(s))) = Len(s) - a
    BY <2>1, CutSeq
  <2>4. SubSeq(v, a + 1, Len(v)) \in Seq(Nat) /\ Len(SubSeq(v, a + 1, Len(v))) = Len(v) - a
    BY <2>1, CutSeq
  <2> QED
    BY <2>1, <2>2, <2>3, <2>4
<1>10. Lanes(q, d)
  <2>1. q \in [Class -> Seq(Requests)] /\ d \in [Class -> Seq(Nat)]
    <3>1. q = [c \in Class |-> q[c]] /\ d = [c \in Class |-> d[c]]
      BY DEF Cut
    <3> HIDE DEF q, d
    <3> QED
      BY <1>7, <1>9, <3>1
  <2>2. q["memory"] = <<>> \/ q["compute"] = <<>>
    <3>1. fast["memory"] = <<>> \/ fast["compute"] = <<>>
      BY <1>1 DEF Lanes
    <3>2. \A c \in Class : fast[c] = <<>> => Undue(c) = <<>>
      BY <1>0, UndueEmpty DEF IInv
    <3> QED
      BY <1>6, <3>1, <3>2 DEF Class
  <2>3. \A c \in Class : \A i \in 1..Len(q[c]) : ClassOf(q[c][i]) = c
    <3> SUFFICES ASSUME NEW c \in Class, NEW i \in 1..Len(q[c]) PROVE ClassOf(q[c][i]) = c
      OBVIOUS
    <3> HIDE DEF q, d
    <3>1. i \in Open(q, Zero, c)
      BY DEF Open, Zero
    <3>2. due[c] + i \in Open(fast, due, c) /\ q[c][i] = fast[c][due[c] + i]
      BY <1>8, <3>1 DEF Renumbered
    <3>3. due[c] + i \in 1..Len(fast[c])
      BY <1>2, <3>2 DEF Open
    <3> QED
      BY <1>1, <3>2, <3>3 DEF Lanes
  <2> HIDE DEF q, d
  <2> QED
    BY <1>7, <1>9, <2>1, <2>2, <2>3 DEF Lanes
<1>11. OpenSet(q, Zero) = Serving \ AllDue /\ AllDue \subseteq Serving
  <2> HIDE DEF q
  <2>1. OpenSet(q, Zero) = Entries(q["memory"]) \cup Entries(q["compute"])
    BY <1>10, OpenAll DEF Lanes
  <2>2. Queued("memory") \cap Queued("compute") = {}
    BY <1>0, ClassesApart
  <2>3. /\ Entries(q["memory"]) = Queued("memory") \ DueOf("memory")
        /\ Entries(q["compute"]) = Queued("compute") \ DueOf("compute")
        /\ DueOf("memory") \subseteq Queued("memory") /\ DueOf("compute") \subseteq Queued("compute")
    BY <1>7 DEF Class
  <2> QED
    BY <2>1, <2>2, <2>3 DEF Serving, AllDue
<1> HIDE DEF q, d
<1> DEFINE D == OpenSet(q, Zero)  m == MetricsAfter  l == LogAfter  G == Left \cup AllDue
<1>12. DoneWith(D) = G /\ Begun = G \cup D /\ Waiting \cap D = {} /\ G \cap (Waiting \cup D) = {}
  <2>1. /\ Waiting \cap Serving = {} /\ Inside \subseteq sent /\ Entries(peq) \cap (Waiting \cup Serving) = {}
    BY <1>0 DEF Placed
  <2> HIDE DEF D
  <2> QED
    BY <1>11, <2>1 DEF DoneWith, Left, Inside, Begun, D
<1>13. /\ Books(m, Waiting \cup D, D, DoneWith(D)) /\ Timeline(m, fast, done_time, due, now)
       /\ m.stall = metrics.stall
       /\ \A c \in Class : QueueWait(m, c) = QueueWait(metrics, c)
       /\ \A r \in Waiting : m.requests[r.ptr] = metrics.requests[r.ptr]
       /\ DistinctLayers => Rows(ServiceLog(l), Begun, fast, done_time, due, now)
       /\ WaitLog(l) = WaitLog(log)
  BY <1>5, <1>8 DEF Account, MetricsAfter, LogAfter
<1>14. Timeline(m, q, d, Zero, now)
  BY <1>5, <1>8, <1>13, TimelineCut
<1>15. DistinctLayers => Rows(ServiceLog(l), Begun, q, d, Zero, now)
  BY <1>5, <1>8, <1>13, RowsCut
<1>16. Ledger(m, l, q, d, Waiting, G, now)
  <2> HIDE DEF m, l, G
  <2> QED
    BY <1>12, <1>13, <1>14, <1>15 DEF Ledger
<1> QED
  BY <1>6, <1>10, <1>13, <1>16 DEF q, d

-----------------------------------------------------------------------------
(* The invariant of the books                                              *)

\* A class is available when all its entries are complete.
Behind == \A c \in Class : \A j \in 1..Len(done_time[c]) : done_time[c][j] <= available[c]

\* When a request arrived; what waits has arrived.
ArrivalOf(m, r) == m.requests[r.ptr].arrival_ns
ArrivedBy == \A r \in Waiting : ArrivalOf(metrics, r) <= to_ns(now)

\* What is known of a blocked request: it is in the queue and blocked after its arrival.
Since(f, m, r, t) ==
  r.ptr \in DOMAIN f => f[r.ptr] \in Nat /\ f[r.ptr] <= t /\ ArrivalOf(m, r) <= to_ns(f[r.ptr])
Contending ==
  /\ DOMAIN contention_wait_start \subseteq {r.ptr : r \in Entries(pending_queue)}
  /\ \A r \in Entries(pending_queue) : Since(contention_wait_start, metrics, r, now)

\* The wait, so far, of the request that the mode is changed for.
Owed(c) ==
  IF switching # <<>> /\ ClassOf(Head(switching)) = c
  THEN to_ns(now) - ArrivalOf(metrics, Head(switching)) ELSE 0
Stalls == \A c \in Class : metrics.stall[c] <= QueueWait(metrics, c) + Owed(c)

\* All that is said of the times; and the invariant of the books.
Pace == DueReached /\ Behind /\ ArrivedBy /\ Contending /\ Stalls
BookInv == LineInv /\ Ledger(metrics, log, fast, done_time, Waiting, Left, now) /\ Pace

\* Time and what is due.
LEMMA DueGrows ==
  ASSUME TimeInv, DueReached, UNCHANGED done_time, now' \in Nat, now <= now',
         due' = due \/ \E c \in Class : BecomesDue(c)
  PROVE  DueReached'
<1>1. /\ now \in Nat /\ due \in [Class -> Nat]
      /\ \A c \in Class : done_time[c] \in Seq(Nat) /\ due[c] <= Len(done_time[c])
  BY DEF TimeInv, Clocks, IInv, TypeOK, WellFormed
<1>2. \A c \in Class : \A i \in 1..due[c] : done_time[c][i] <= now'
  <2> SUFFICES ASSUME NEW c \in Class, NEW i \in 1..due[c] PROVE done_time[c][i] <= now'
    OBVIOUS
  <2>1. i \in 1..Len(done_time[c])
    BY <1>1
  <2>2. done_time[c][i] \in Nat
    BY <1>1, <2>1, ElementOfSeq
  <2>3. done_time[c][i] <= now
    BY DEF DueReached
  <2> QED
    BY <1>1, <2>2, <2>3
<1>3. CASE due' = due
  BY <1>2, <1>3 DEF DueReached
<1>4. ASSUME NEW c \in Class, BecomesDue(c) PROVE DueReached'
  <2>1. due' = [due EXCEPT ![c] = @ + 1] /\ done_time[c][due[c] + 1] <= now /\ now' = now
    BY <1>4 DEF BecomesDue, Elapse, timeVars
  <2>2. \A e \in Class : due'[e] = IF e = c THEN due[e] + 1 ELSE due[e]
    BY <1>1, <2>1
  <2> SUFFICES ASSUME NEW e \in Class, NEW i \in 1..due'[e] PROVE done_time[e][i] <= now'
    BY DEF DueReached
  <2>3. CASE i \in 1..due[e]
    BY <1>2, <2>3
  <2>4. CASE i \notin 1..due[e]
    <3>1. e = c /\ i = due[c] + 1
      BY <1>1, <2>2, <2>4
    <3> QED
      BY <2>1, <3>1
  <2> QED
    BY <2>3, <2>4
<1> QED
  BY <1>3, <1>4

\* Nothing but time has changed.
LEMMA BookLater ==
  ASSUME TimeInv, BookInv, LineInv', DueReached', now' \in Nat, now <= now',
         UNCHANGED <<metrics, log, fast, done_time, available, contention_wait_start, pending_queue, switching>>,
         Left' = Left, Serving' = Serving, Waiting' = Waiting
  PROVE  BookInv'
<1>0. now \in Nat /\ to_ns(now) \in Nat /\ to_ns(now') \in Nat /\ to_ns(now) <= to_ns(now')
  BY ToNs DEF TimeInv, Clocks
<1>1. /\ Ledger(metrics, log, fast, done_time, Waiting, Left, now) /\ Pace
  BY DEF BookInv
<1>2. MetricsType(metrics) /\ Timeline(metrics, fast, done_time, Zero, now)
  BY <1>1 DEF Ledger, Books
<1>3. Timeline(metrics, fast, done_time, Zero, now')
  BY <1>0, <1>2, TimelineLater
<1>4. DistinctLayers => Rows(ServiceLog(log), Left \cup OpenSet(fast, Zero), fast, done_time, Zero, now')
  <2> DEFINE U == Left \cup OpenSet(fast, Zero)  l == ServiceLog(log)
  <2>1. DistinctLayers => Rows(l, U, fast, done_time, Zero, now)
    BY <1>1 DEF Ledger
  <2> HIDE DEF U, l
  <2>2. DistinctLayers => Rows(l, U, fast, done_time, Zero, now')
    BY <1>0, <2>1, RowsLater
  <2> QED
    BY <2>2 DEF U, l
<1>5. Ledger(metrics, log, fast, done_time, Waiting, Left, now')
  BY <1>1, <1>3, <1>4 DEF Ledger
<1>6. Ledger(metrics, log, fast, done_time, Waiting, Left, now)'
  BY <1>5
<1>7. Behind'
  BY <1>1 DEF Pace, Behind
<1>8. /\ \A r \in Waiting : ArrivalOf(metrics, r) \in Nat
      /\ Entries(pending_queue) \subseteq Waiting /\ Entries(switching) \subseteq Waiting
  <2>1. \A r \in Waiting : metrics.requests[r.ptr] \in Entry
    <3>1. \A r \in Waiting : r.ptr \in DOMAIN metrics.requests
      BY <1>1 DEF Ledger, Books, Entered
    <3> QED
      BY <1>2, <3>1 DEF MetricsType
  <2> QED
    BY <2>1 DEF ArrivalOf, Entry, Waiting
<1>9. ArrivedBy'
  BY <1>0, <1>1, <1>8 DEF Pace, ArrivedBy, ArrivalOf
<1>10. Contending'
  <2>1. \A r \in Entries(pending_queue) : Since(contention_wait_start, metrics, r, now)
    BY <1>1 DEF Pace, Contending
  <2>2. \A r \in Entries(pending_queue) : Since(contention_wait_start, metrics, r, now')
    BY <1>0, <2>1 DEF Since
  <2> QED
    BY <1>1, <2>2 DEF Pace, Contending, Since, ArrivalOf
<1>11. Stalls'
  <2> SUFFICES ASSUME NEW c \in Class PROVE metrics.stall[c] <= QueueWait(metrics, c) + Owed(c)'
    BY DEF Stalls, QueueWait, Pim
  <2>1. metrics.stall[c] <= QueueWait(metrics, c) + Owed(c)
    BY <1>1 DEF Pace, Stalls
  <2>2. metrics.stall[c] \in Nat /\ QueueWait(metrics, c) \in Nat
    BY <1>2 DEF MetricsType, DeviceType, TrafficType, QueueWait, Pim
  <2>3. Owed(c) \in Int /\ Owed(c)' \in Int /\ Owed(c) <= Owed(c)'
    <3>1. CASE switching # <<>> /\ ClassOf(Head(switching)) = c
      <4>1. switching \in Seq(Requests)
        BY DEF TimeInv, IInv, TypeOK
      <4>2. Head(switching) \in Entries(switching)
        BY <3>1, <4>1, EntriesTail
      <4>3. ArrivalOf(metrics, Head(switching)) \in Nat
        BY <1>8, <4>2
      <4>4. /\ Owed(c) = to_ns(now) - ArrivalOf(metrics, Head(switching))
            /\ Owed(c)' = to_ns(now') - ArrivalOf(metrics, Head(switching))
        BY <3>1 DEF Owed, ArrivalOf, to_ns
      <4> QED
        BY <1>0, <4>3, <4>4
    <3>2. CASE ~(switching # <<>> /\ ClassOf(Head(switching)) = c)
      BY <3>2 DEF Owed
    <3> QED
      BY <3>1, <3>2
  <2> QED
    BY <2>1, <2>2, <2>3
<1> QED
  BY <1>6, <1>7, <1>9, <1>10, <1>11 DEF BookInv, Pace

\* A request is sent, a response handed over, a request retired, or no request moves.
LEMMA BookRests ==
  ASSUME TimeInv, Clocks', BookInv, Resting \/ Send \/ Respond \/ ClockEdge
  PROVE  BookInv'
<1>0. LineInv /\ IInv /\ now \in Nat /\ now' \in Nat /\ DueReached
  BY DEF BookInv, TimeInv, Clocks, Pace
<1>1. CASE Resting
  <2>1. /\ LineInv' /\ Left' = Left /\ Serving' = Serving /\ Waiting' = Waiting
        /\ UNCHANGED <<sent, released, peq, pending_queue, switching, fast, completed, bw, metrics, log,
                       done_time, available, contention_wait_start>>
    BY <1>0, <1>1, LineRests
  <2>2. now <= now' /\ (due' = due \/ \E c \in Class : BecomesDue(c))
    <3>1. CASE Tick \/ NothingToMove \/ UNCHANGED timedVars
      BY <1>0, <3>1 DEF Tick, NothingToMove, timedVars, timeVars, bookVars, clientVars, vars, deviceVars
    <3>2. CASE \E c \in Class : BecomesDue(c)
      BY <1>0, <3>2 DEF BecomesDue, timeVars
    <3>3. CASE OtherClient
      BY <1>0, <3>3 DEF OtherClient, TakeTraceDone, Stop, timeVars, deviceVars
    <3>4. CASE TimedEndIteration
      BY <1>0, <3>4 DEF TimedEndIteration, EndIteration, timeVars, deviceVars
    <3>5. CASE TimedTimeout \/ DeliverEvent
      BY <1>0, <3>5 DEF TimedTimeout, DeliverEvent, Timeout, DeliverPendingEvent, DeliverResourceEvent, Wake,
         timeVars, deviceVars
    <3> QED
      BY <1>1, <3>1, <3>2, <3>3, <3>4, <3>5 DEF Resting
  <2>3. DueReached'
    BY <1>0, <2>1, <2>2, DueGrows
  <2> QED
    BY <1>0, <2>1, <2>2, <2>3, BookLater
<1>2. CASE Send \/ Respond \/ ClockEdge
  <2>1. LineInv' /\ Left' = Left /\ Serving' = Serving /\ Waiting' = Waiting
    BY <1>0, <1>2, LineSend, LineOut
  <2>2. UNCHANGED <<metrics, log, fast, done_time, available, contention_wait_start, pending_queue, switching,
                    due, now>>
    <3>1. CASE Send
      BY <3>1 DEF Send, Deliver, nb_transport_fw, bookVars, deviceVars, threadVars, outVars
    <3>2. CASE Respond
      BY <3>2 DEF Respond, TakeResponse, bookVars, deviceVars, threadVars, outVars
    <3>3. CASE ClockEdge
      BY <3>3 DEF ClockEdge, clock_posedge, clock_negedge, bookVars, vars, deviceVars, threadVars, outVars
    <3> QED
      BY <1>2, <3>1, <3>2, <3>3
  <2>3. DueReached' /\ now <= now'
    BY <1>0, <2>2, DueGrows
  <2> QED
    BY <1>0, <2>1, <2>2, <2>3, BookLater
<1> QED
  BY <1>1, <1>2

\* What the request that the mode is changed for has waited does not depend on the others.
LEMMA OwedSame ==
  ASSUME switching \in Seq(Requests), UNCHANGED <<switching, now>>,
         \A r \in Entries(switching) : metrics'.requests[r.ptr] = metrics.requests[r.ptr]
  PROVE  \A c \in Class : Owed(c)' = Owed(c)
<1> SUFFICES ASSUME NEW c \in Class PROVE Owed(c)' = Owed(c)
  OBVIOUS
<1>1. CASE switching # <<>>
  <2>1. Head(switching) \in Entries(switching)
    BY <1>1, EntriesTail
  <2>2. ArrivalOf(metrics', Head(switching)) = ArrivalOf(metrics, Head(switching))
    BY <2>1 DEF ArrivalOf
  <2>3. ArrivalOf(metrics, Head(switching))' = ArrivalOf(metrics, Head(switching))
    BY <2>2 DEF ArrivalOf
  <2> QED
    BY <2>3 DEF Owed, to_ns
<1>2. CASE switching = <<>>
  BY <1>2 DEF Owed
<1> QED
  BY <1>1, <1>2

\* A request arrives.
LEMMA BookArrive ==
  ASSUME TimeInv, BookInv, Arrive
  PROVE  BookInv'
<1> DEFINE r == Head(peq)  K == Waiting \cup Serving
           m2 == request_arrived(metrics, "PIM", r.ptr, Bytes(r), ClassOf(r), now)
<1>0. /\ LineInv /\ IInv /\ now \in Nat /\ Pace /\ Placed /\ Returned /\ OneUser
      /\ Ledger(metrics, log, fast, done_time, Waiting, Left, now)
  BY DEF BookInv, TimeInv, Clocks, LineInv
<1>1. /\ LineInv' /\ Left' = Left /\ Serving' = Serving /\ r \in Requests /\ r \in Entries(peq)
      /\ Waiting' = Waiting \cup {r}
  BY <1>0, LineArrive DEF Arrive
<1>2. /\ metrics' = m2 /\ peq # <<>>
      /\ UNCHANGED <<log, fast, due, done_time, available, contention_wait_start, switching, now>>
      /\ pending_queue' = Append(pending_queue, r) /\ pending_queue \in Seq(Requests)
      /\ switching \in Seq(Requests) /\ fast \in [Class -> Seq(Requests)]
  BY <1>0 DEF Arrive, peq_cb, deviceVars, threadVars, IInv, TypeOK
<1>3. r \notin K /\ r \notin Left /\ K \subseteq Requests
  BY <1>0, <1>1 DEF Placed, Left, Inside
<1>4. \A q \in K : q.ptr # r.ptr
  <2> SUFFICES ASSUME NEW q \in K, q.ptr = r.ptr PROVE FALSE
    OBVIOUS
  <2>1. q \in sent /\ r \in sent /\ q # r /\ q \in Inside /\ r \in Inside
    BY <1>0, <1>1, <1>3 DEF Placed, Inside
  <2>2. q \in released \/ r \in released
    BY <1>0, <2>1 DEF OneUser
  <2> QED
    BY <1>0, <2>1, <2>2 DEF Returned, Left
<1>5. OpenSet(fast, Zero) = Serving
  BY <1>2, OpenAll DEF Serving, Queued
<1>6. /\ Books(metrics, K, Serving, Left) /\ Timeline(metrics, fast, done_time, Zero, now)
      /\ DistinctLayers => Rows(ServiceLog(log), Left \cup Serving, fast, done_time, Zero, now)
      /\ Waiting \cap Serving = {} /\ Left \cap K = {}
  BY <1>0, <1>5 DEF Ledger
<1>7. /\ Books(m2, K \cup {r}, Serving, Left)
      /\ \A q \in K : m2.requests[q.ptr] = metrics.requests[q.ptr]
      /\ m2.requests[r.ptr].arrival_ns = to_ns(now)
      /\ m2.device = metrics.device /\ m2.stall = metrics.stall
  <2>1. Books(metrics, K, Serving, Left) /\ now \in Nat /\ r \in Requests /\ \A q \in K : q.ptr # r.ptr
    BY <1>0, <1>1, <1>4, <1>6
  <2> HIDE DEF K, r
  <2> QED
    BY ONLY <2>1, BooksArrived, SMTT(60)
<1> HIDE DEF m2, r
<1>8. Timeline(m2, fast, done_time, Zero, now)
  <2>1. /\ \A e \in Class : Sv(m2, e) = Sv(metrics, e)
        /\ \A y \in OpenSet(fast, Zero) : StartOf(m2, y) = StartOf(metrics, y)
        /\ now <= now /\ MetricsType(metrics)
    BY <1>0, <1>5, <1>6, <1>7 DEF Sv, StartOf, Pim, Books
  <2> QED
    BY <1>0, <1>6, <2>1, TimelineLater
<1>9. Ledger(m2, log, fast, done_time, Waiting \cup {r}, Left, now)
  <2>1. (Waiting \cup {r}) \cup Serving = K \cup {r} /\ (Waiting \cup {r}) \cap Serving = {}
        /\ Left \cap (K \cup {r}) = {}
    BY <1>3, <1>6
  <2> QED
    BY <1>5, <1>6, <1>7, <1>8, <2>1 DEF Ledger
<1>10. Ledger(metrics, log, fast, done_time, Waiting, Left, now)'
  BY <1>1, <1>2, <1>9
<1>11. DueReached' /\ Behind'
  BY <1>0, <1>2 DEF Pace, DueReached, Behind
<1>12. ArrivedBy'
  <2>1. to_ns(now) \in Nat
    BY <1>0, ToNs
  <2>2. \A q \in Waiting \cup {r} : ArrivalOf(m2, q) <= to_ns(now)
    BY <1>0, <1>7, <2>1 DEF Pace, ArrivedBy, ArrivalOf
  <2> QED
    BY <1>1, <1>2, <2>2 DEF ArrivedBy, ArrivalOf
<1>13. Contending'
  <2>1. Entries(pending_queue)' = Entries(pending_queue) \cup {r}
    BY <1>1, <1>2, EntriesAppend
  <2>2. Entries(pending_queue) \subseteq K
    BY DEF Waiting
  <2>3. r.ptr \notin DOMAIN contention_wait_start
    BY <1>0, <1>4, <2>2 DEF Pace, Contending
  <2>4. \A q \in Entries(pending_queue) \cup {r} : Since(contention_wait_start, m2, q, now)
    BY <1>0, <1>7, <2>2, <2>3 DEF Pace, Contending, Since, ArrivalOf
  <2> QED
    BY <1>0, <1>2, <2>1, <2>4 DEF Pace, Contending, Since, ArrivalOf
<1>14. Stalls'
  <2>1. \A c \in Class : Owed(c)' = Owed(c)
    <3>1. \A q \in Entries(switching) : metrics'.requests[q.ptr] = metrics.requests[q.ptr]
      BY <1>2, <1>7 DEF Waiting
    <3> QED
      BY <1>2, <3>1, OwedSame
  <2>2. \A c \in Class : metrics'.stall[c] = metrics.stall[c] /\ QueueWait(metrics', c) = QueueWait(metrics, c)
    BY <1>2, <1>7 DEF QueueWait, Pim
  <2> QED
    BY <1>0, <2>1, <2>2 DEF Pace, Stalls, QueueWait, Pim
<1> QED
  BY <1>1, <1>10, <1>11, <1>12, <1>13, <1>14 DEF BookInv, Pace

\* The completion times that are left are among those of before.
LEMMA BehindCut ==
  ASSUME TimeInv, Behind, DueExact, NEW c \in Class
  PROVE  \A j \in 1..Len(DoneAfter[c]) : DoneAfter[c][j] <= available[c]
<1> DEFINE v == done_time[c]  a == due[c]
<1>1. v \in Seq(Nat) /\ a \in 0..Len(v) /\ Len(v) \in Nat
  BY DEF TimeInv, Clocks, IInv, TypeOK, WellFormed
<1>2. DoneAfter[c] = SubSeq(v, a + 1, Len(v))
  BY DEF DoneAfter
<1> HIDE DEF v, a
<1>3. LET s == SubSeq(v, a + 1, Len(v))
      IN Len(s) = Len(v) - a /\ \A j \in 1..(Len(v) - a) : s[j] = v[a + j]
  BY <1>1, CutAt
<1>4. \A j \in 1..(Len(v) - a) : a + j \in 1..Len(v)
  BY <1>1
<1>5. \A j \in 1..Len(v) : v[j] <= available[c]
  BY DEF Behind, v
<1> QED
  BY <1>2, <1>3, <1>4, <1>5

\* The thread collects what is due; its head of the queue waits on, if it is blocked.
LEMMA BookCollect ==
  ASSUME WiredFor, TimeInv, BookInv, TimedIdle \/ TimedBlock
  PROVE  BookInv'
<1>0. /\ LineInv /\ IInv /\ now \in Nat /\ Pace /\ Placed
      /\ Ledger(metrics, log, fast, done_time, Waiting, Left, now)
  BY DEF BookInv, TimeInv, Clocks, LineInv
<1>1. /\ Idle \/ Block
      /\ metrics' = MetricsAfter /\ log' = LogAfter /\ done_time' = DoneAfter
      /\ UNCHANGED <<sent, now, available, released, pending_queue, switching>>
      /\ fast' = [c \in Class |-> Undue(c)] /\ due' = [c \in Class |-> 0]
      /\ switching \in Seq(Requests)
  BY <1>0 DEF TimedIdle, TimedBlock, Idle, Block, IInv, TypeOK, MetricsAfter, LogAfter
<1>x. DueExact
  BY DEF TimedIdle, TimedBlock
<1>2. /\ LineInv' /\ Left' = Left \cup AllDue /\ Serving' = Serving \ AllDue /\ Waiting' = Waiting
  <2>1. (Idle \/ Block) /\ UNCHANGED <<sent, released>>
    BY DEF TimedIdle, TimedBlock
  <2> QED
    BY <1>0, <2>1, LineCollect
<1>3. /\ Ledger(MetricsAfter, LogAfter, Cut(fast, due), Cut(done_time, due), Waiting, Left \cup AllDue, now)
      /\ Cut(fast, due) = [c \in Class |-> Undue(c)] /\ Cut(done_time, due) = DoneAfter
      /\ MetricsAfter.stall = metrics.stall
      /\ \A c \in Class : QueueWait(MetricsAfter, c) = QueueWait(metrics, c)
      /\ \A r \in Waiting : MetricsAfter.requests[r.ptr] = metrics.requests[r.ptr]
  BY <1>0, LedgerCollect DEF Pace
<1>4. Ledger(metrics, log, fast, done_time, Waiting, Left, now)'
  BY <1>1, <1>2, <1>3
<1>5. DueReached'
  BY <1>1 DEF DueReached
<1>6. Behind'
  BY <1>0, <1>1, <1>x, BehindCut DEF Pace, Behind
<1>7. \A r \in Waiting : ArrivalOf(metrics', r) = ArrivalOf(metrics, r)
  BY <1>1, <1>3 DEF ArrivalOf
<1>8. ArrivedBy'
  BY <1>0, <1>1, <1>2, <1>7 DEF Pace, ArrivedBy, ArrivalOf
<1>9. Entries(pending_queue) \subseteq Waiting /\ Entries(switching) \subseteq Waiting
  BY DEF Waiting
<1>10. Contending'
  <2>1. CASE TimedIdle
    <3>1. contention_wait_start' = contention_wait_start
      BY <2>1 DEF TimedIdle
    <3>2. \A q \in Entries(pending_queue) : Since(contention_wait_start, metrics', q, now)
      BY <1>0, <1>7, <1>9 DEF Pace, Contending, Since
    <3> QED
      BY <1>0, <1>1, <3>1, <3>2 DEF Pace, Contending, Since, ArrivalOf
  <2>2. CASE TimedBlock
    <3> DEFINE r == Head(pending_queue)  f == Emplaced(contention_wait_start, r.ptr, now)
    <3>1. contention_wait_start' = f /\ pending_queue # <<>> /\ pending_queue \in Seq(Requests)
      BY <1>0, <2>2 DEF TimedBlock, Block, IInv, TypeOK
    <3>2. r \in Entries(pending_queue)
      BY <3>1, EntriesTail
    <3>3. /\ DOMAIN f = DOMAIN contention_wait_start \cup {r.ptr}
          /\ \A p \in DOMAIN contention_wait_start : f[p] = contention_wait_start[p]
          /\ r.ptr \notin DOMAIN contention_wait_start => f[r.ptr] = now
      BY DEF Emplaced
    <3> HIDE DEF f, r
    <3>4. ASSUME NEW q \in Entries(pending_queue) PROVE Since(f, metrics', q, now)
      <4>1. CASE q.ptr \in DOMAIN contention_wait_start
        BY <1>0, <1>7, <1>9, <3>3, <3>4, <4>1 DEF Pace, Contending, Since
      <4>2. CASE q.ptr \notin DOMAIN contention_wait_start
        <5>1. ArrivalOf(metrics, q) <= to_ns(now)
          BY <1>0, <1>9, <3>4 DEF Pace, ArrivedBy
        <5> QED
          BY <1>0, <1>7, <1>9, <3>3, <3>4, <4>2, <5>1 DEF Since
      <4> QED
        BY <4>1, <4>2
    <3>5. DOMAIN f \subseteq {q.ptr : q \in Entries(pending_queue)}
      BY <1>0, <3>2, <3>3 DEF Pace, Contending
    <3> QED
      BY <1>1, <3>1, <3>4, <3>5 DEF Contending, Since, ArrivalOf
  <2> QED
    BY <2>1, <2>2
<1>11. Stalls'
  <2>1. \A c \in Class : Owed(c)' = Owed(c)
    <3>1. \A q \in Entries(switching) : metrics'.requests[q.ptr] = metrics.requests[q.ptr]
      BY <1>1, <1>3, <1>9
    <3> QED
      BY <1>1, <3>1, OwedSame
  <2>2. \A c \in Class : metrics'.stall[c] = metrics.stall[c] /\ QueueWait(metrics', c) = QueueWait(metrics, c)
    BY <1>1, <1>3
  <2> QED
    BY <1>0, <2>1, <2>2 DEF Pace, Stalls, QueueWait, Pim
<1> QED
  BY <1>2, <1>4, <1>5, <1>6, <1>8, <1>10, <1>11 DEF BookInv, Pace

\* The waits of each class are counted.
CountsWaits == wait_count \in [Class -> Nat]

\* Their rows are rows of waits, and never rows of layers.
LEMMA CountedRows ==
  ASSUME CountsWaits, NEW c \in Class
  PROVE  ContentionRow(c, wait_count[c]) \in ContentionRows
BY DEF CountsWaits, ContentionRow, ContentionRows

\* The metrics and the log when the wait of the head has been reported too.
MetricsThen(r) == finish_contention_wait(BooksAfter, r).metrics
LogThen(r) == finish_contention_wait(BooksAfter, r).log

\* A stall that ends now is a part of the wait since the arrival.
LEMMA StallStep ==
  ASSUME WiredFor, TimeInv, BookInv, CountsWaits, pending_queue # <<>>
  PROVE  LET r == Head(pending_queue)  m == MetricsThen(r)
         IN /\ r \in Requests /\ r \in Entries(pending_queue) /\ r \in Waiting
            /\ Ledger(m, LogThen(r), Cut(fast, due), Cut(done_time, due), Waiting, Left \cup AllDue, now)
            /\ \A x \in Waiting : m.requests[x.ptr] = metrics.requests[x.ptr]
            /\ \A c \in Class :
                 /\ QueueWait(m, c) = QueueWait(metrics, c)
                 /\ m.stall[c] <= metrics.stall[c]
                      + (IF c = ClassOf(r) THEN to_ns(now) - ArrivalOf(metrics, r) ELSE 0)
<1> DEFINE r == Head(pending_queue)  m == MetricsThen(r)  M == MetricsAfter  L == LogAfter
           q == Cut(fast, due)  d == Cut(done_time, due)  G == Left \cup AllDue
           a == contention_wait_start[r.ptr]  e == ClassOf(r)
           row == ContentionRow(e, wait_count[e])
<1>0. /\ LineInv /\ IInv /\ now \in Nat /\ Pace /\ Placed
      /\ Ledger(metrics, log, fast, done_time, Waiting, Left, now)
  BY DEF BookInv, TimeInv, Clocks, LineInv
<1>1. r \in Requests /\ r \in Entries(pending_queue) /\ r \in Waiting
  BY <1>0, PopPlaces DEF Placed, IInv, TypeOK, Waiting
<1>2. /\ Ledger(M, L, q, d, Waiting, G, now)
      /\ M.stall = metrics.stall
      /\ \A c \in Class : QueueWait(M, c) = QueueWait(metrics, c)
      /\ \A x \in Waiting : M.requests[x.ptr] = metrics.requests[x.ptr]
  BY <1>0, LedgerCollect DEF Pace
<1>t. metrics.stall \in [Class -> Nat] /\ MetricsType(metrics) /\ MetricsType(M)
  BY <1>0, <1>2 DEF Ledger, Books, MetricsType
<1>3. ArrivalOf(metrics, r) \in Nat /\ ArrivalOf(metrics, r) <= to_ns(now) /\ to_ns(now) \in Nat
  <2>1. r.ptr \in DOMAIN metrics.requests
    BY <1>0, <1>1 DEF Ledger, Books, Entered
  <2>2. metrics.requests[r.ptr] \in Entry
    BY <1>t, <2>1 DEF MetricsType
  <2> QED
    BY <1>0, <1>1, <2>2, ToNs DEF Pace, ArrivedBy, ArrivalOf, Entry
<1>4. CASE Contended(r)
  <2> DEFINE L2 == update_end_at(update_start_at(L, row, a), row, now)
  <2>1. m = record_pim_resource_stall(M, a, now, e) /\ LogThen(r) = L2
    BY <1>4 DEF finish_contention_wait, MetricsThen, LogThen, MetricsAfter, LogAfter
  <2>2. a \in Nat /\ a <= now /\ ArrivalOf(metrics, r) <= to_ns(a) /\ e \in Class
    BY <1>0, <1>1, <1>4 DEF Pace, Contending, Contended, Since, ClassOf, Class
  <2>s. ServiceLog(L2) = ServiceLog(L)
    BY <2>2, CountedRows, LayersKept
  <2> HIDE DEF M, L, q, d, G, a, e, r, row, L2
  <2> DEFINE m2 == record_pim_resource_stall(M, a, now, e)
  <2>3. /\ Ledger(M, L, q, d, Waiting, G, now) /\ now \in Nat /\ a \in Nat /\ a <= now /\ e \in Class
        /\ ServiceLog(L2) = ServiceLog(L)
    BY <1>0, <1>2, <2>2, <2>s
  <2>4. /\ Ledger(m2, L2, q, d, Waiting, G, now) /\ m2.requests = M.requests /\ m2.device = M.device
        /\ m2.stall = [M.stall EXCEPT ![e] = @ + (to_ns(now) - to_ns(a))]
    BY ONLY <2>3, LedgerStalled, SMTT(60)
  <2> HIDE DEF m2
  <2>5. \A c \in Class : QueueWait(m2, c) = QueueWait(metrics, c)
    BY <1>2, <2>4 DEF QueueWait, Pim
  <2>6. to_ns(a) \in Nat
    BY <2>2, ToNs
  <2>7. ASSUME NEW c \in Class
        PROVE  m2.stall[c] <= metrics.stall[c]
                 + (IF c = e THEN to_ns(now) - ArrivalOf(metrics, r) ELSE 0)
    <3>1. m2.stall[c] = metrics.stall[c] + (IF c = e THEN to_ns(now) - to_ns(a) ELSE 0)
      BY <1>2, <1>t, <2>4, <2>7
    <3> DEFINE x == metrics.stall[c]  y == to_ns(now)  z == to_ns(a)  w == ArrivalOf(metrics, r)
    <3>2. x \in Nat /\ y \in Nat /\ z \in Nat /\ w \in Nat /\ w <= z
      BY <1>t, <1>3, <2>2, <2>6, <2>7
    <3> HIDE DEF x, y, z, w
    <3>3. m2.stall[c] = x + (IF c = e THEN y - z ELSE 0)
      BY <3>1 DEF x, y, z
    <3>4. m2.stall[c] <= x + (IF c = e THEN y - w ELSE 0)
      BY <3>2, <3>3
    <3> QED
      BY <3>4 DEF x, y, w
  <2>8. m = m2 /\ \A x \in Waiting : m2.requests[x.ptr] = metrics.requests[x.ptr]
    BY <1>2, <2>1, <2>4 DEF m2
  <2> HIDE DEF m
  <2> QED
    BY <1>1, <2>1, <2>4, <2>5, <2>7, <2>8 DEF m, r, q, d, G, e
<1>5. CASE ~Contended(r)
  <2>1. m = M /\ LogThen(r) = L
    BY <1>5 DEF finish_contention_wait, MetricsThen, LogThen, MetricsAfter, LogAfter
  <2>2. ASSUME NEW c \in Class
        PROVE  M.stall[c] <= metrics.stall[c]
                 + (IF c = e THEN to_ns(now) - ArrivalOf(metrics, r) ELSE 0)
    <3> HIDE DEF M, e, r
    <3>1. M.stall[c] = metrics.stall[c] /\ metrics.stall[c] \in Nat
      BY <1>2, <1>t, <2>2
    <3> QED
      BY <1>3, <3>1
  <2> HIDE DEF M, L, q, d, G, r, e, m
  <2> QED
    BY <1>1, <1>2, <2>1, <2>2 DEF m, q, d, G, r, e
<1> QED
  BY <1>4, <1>5

\* The thread collects what is due and changes the mode.
LEMMA BookBegin ==
  ASSUME WiredFor, TimeInv, BookInv, CountsWaits, TimedBeginModeTransition
  PROVE  BookInv'
<1> DEFINE r == Head(pending_queue)  m == MetricsThen(r)
<1>0. /\ LineInv /\ IInv /\ now \in Nat /\ Pace /\ Placed
      /\ Ledger(metrics, log, fast, done_time, Waiting, Left, now)
  BY DEF BookInv, TimeInv, Clocks, LineInv
<1>1. /\ metrics' = m /\ log' = LogThen(r) /\ done_time' = DoneAfter /\ DueExact
      /\ contention_wait_start' = Forget(contention_wait_start, r.ptr)
      /\ UNCHANGED <<sent, now, available, released>> /\ BeginModeTransition
      /\ pending_queue # <<>> /\ pending_queue' = Tail(pending_queue) /\ switching' = <<r>>
      /\ fast' = [c \in Class |-> Undue(c)] /\ due' = [c \in Class |-> 0]
      /\ pc = "run"
  BY DEF TimedBeginModeTransition, BeginModeTransition, NoLongerWaiting, MetricsThen, LogThen
<1>2. /\ LineInv' /\ Left' = Left \cup AllDue /\ Serving' = Serving \ AllDue /\ Waiting' = Waiting
  BY <1>0, <1>1, LineBegin
<1>3. /\ Cut(fast, due) = [c \in Class |-> Undue(c)] /\ Cut(done_time, due) = DoneAfter
  BY <1>0, LedgerCollect DEF Pace
<1>4. /\ r \in Requests /\ r \in Entries(pending_queue) /\ r \in Waiting
      /\ Ledger(m, LogThen(r), Cut(fast, due), Cut(done_time, due), Waiting, Left \cup AllDue, now)
      /\ \A x \in Waiting : m.requests[x.ptr] = metrics.requests[x.ptr]
      /\ \A c \in Class :
           /\ QueueWait(m, c) = QueueWait(metrics, c)
           /\ m.stall[c] <= metrics.stall[c]
                + (IF c = ClassOf(r) THEN to_ns(now) - ArrivalOf(metrics, r) ELSE 0)
  BY <1>1, StallStep
<1>s. switching = <<>>
  BY <1>0, <1>1 DEF Placed
<1> HIDE DEF m, r
<1>5. Ledger(metrics, log, fast, done_time, Waiting, Left, now)'
  BY <1>1, <1>2, <1>3, <1>4
<1>6. DueReached' /\ Behind'
  <2>1. DueReached'
    BY <1>1 DEF DueReached
  <2>2. \A c \in Class : \A j \in 1..Len(DoneAfter[c]) : DoneAfter[c][j] <= available[c]
    BY <1>0, <1>1, BehindCut DEF Pace
  <2> QED
    BY <1>1, <2>1, <2>2 DEF Behind
<1>7. \A x \in Waiting : ArrivalOf(metrics', x) = ArrivalOf(metrics, x)
  BY <1>1, <1>4 DEF ArrivalOf
<1>8. ArrivedBy'
  BY <1>0, <1>1, <1>2, <1>7 DEF Pace, ArrivedBy, ArrivalOf
<1>9. Contending'
  <2>1. Entries(pending_queue)' = Entries(pending_queue) \ {r}
    BY <1>0, <1>1, PopPlaces DEF Placed, IInv, TypeOK, r
  <2> DEFINE f == Forget(contention_wait_start, r.ptr)
  <2>2. /\ DOMAIN f = DOMAIN contention_wait_start \ {r.ptr}
        /\ \A p \in DOMAIN f : f[p] = contention_wait_start[p]
    BY DEF Forget
  <2> HIDE DEF f
  <2>3. DOMAIN f \subseteq {q.ptr : q \in Entries(pending_queue) \ {r}}
    BY <1>0, <2>2 DEF Pace, Contending
  <2>4. \A q \in Entries(pending_queue) \ {r} : Since(f, metrics', q, now)
    <3>1. Entries(pending_queue) \subseteq Waiting
      BY DEF Waiting
    <3> QED
      BY <1>0, <1>7, <2>2, <3>1 DEF Pace, Contending, Since
  <2>5. contention_wait_start' = f /\ now' = now
    BY <1>1 DEF f
  <2> QED
    BY <2>1, <2>3, <2>4, <2>5 DEF Contending, Since, ArrivalOf
<1>10. Stalls'
  <2> SUFFICES ASSUME NEW c \in Class PROVE m.stall[c] <= QueueWait(m, c) + Owed(c)'
    BY <1>1 DEF Stalls, QueueWait, Pim
  <2>1. metrics.stall[c] <= QueueWait(metrics, c) /\ QueueWait(metrics, c) \in Nat
    <3>1. Owed(c) = 0
      BY <1>s DEF Owed
    <3>2. MetricsType(metrics)
      BY <1>0 DEF Ledger, Books
    <3>3. QueueWait(metrics, c) \in Nat
      BY <3>2 DEF MetricsType, DeviceType, TrafficType, QueueWait, Pim
    <3>4. metrics.stall[c] <= QueueWait(metrics, c) + Owed(c)
      BY <1>0 DEF Pace, Stalls
    <3> QED
      BY <3>1, <3>3, <3>4
  <2>2. Owed(c)' = IF ClassOf(r) = c THEN to_ns(now) - ArrivalOf(metrics, r) ELSE 0
    <3>1. switching' # <<>> /\ Head(switching') = r /\ now' = now
      BY <1>1
    <3>2. ArrivalOf(metrics', r) = ArrivalOf(metrics, r)
      BY <1>4, <1>7
    <3> QED
      BY <3>1, <3>2 DEF Owed, ArrivalOf, to_ns
  <2>3. m.stall[c] \in Nat /\ metrics.stall[c] \in Nat
    <3>1. MetricsType(metrics) /\ MetricsType(m)
      BY <1>0, <1>4 DEF Ledger, Books
    <3> QED
      BY <3>1 DEF MetricsType
  <2>4. ArrivalOf(metrics, r) \in Int /\ to_ns(now) \in Int
    <3>1. r.ptr \in DOMAIN metrics.requests /\ MetricsType(metrics)
      BY <1>0, <1>4 DEF Ledger, Books, Entered
    <3>2. metrics.requests[r.ptr] \in Entry
      BY <3>1 DEF MetricsType
    <3> QED
      BY <1>0, <3>2, ToNs DEF ArrivalOf, Entry
  <2>5. /\ m.stall[c] <= metrics.stall[c] + (IF c = ClassOf(r) THEN to_ns(now) - ArrivalOf(metrics, r) ELSE 0)
        /\ QueueWait(m, c) = QueueWait(metrics, c)
    BY <1>4
  <2> DEFINE x == IF c = ClassOf(r) THEN to_ns(now) - ArrivalOf(metrics, r) ELSE 0
  <2>6. x \in Int /\ Owed(c)' = x
    BY <2>2, <2>4
  <2>7. m.stall[c] <= metrics.stall[c] + x
    BY <2>5
  <2> HIDE DEF x
  <2> QED
    BY <2>1, <2>3, <2>5, <2>6, <2>7
<1> QED
  BY <1>2, <1>5, <1>6, <1>8, <1>9, <1>10 DEF BookInv, Pace

\* A request starts now, or when its class is available.
LEMMA StartTimes ==
  ASSUME Clocks, NEW r \in Requests
  PROVE  LET s == actual_start(ClassOf(r))
         IN /\ s \in Nat /\ now <= s /\ available[ClassOf(r)] <= s
            /\ s + Duration(r) \in Nat /\ s <= s + Duration(r)
<1> DEFINE c == ClassOf(r)  s == actual_start(c)  x == Duration(r)
<1>1. c \in Class /\ now \in Nat /\ available[c] \in Nat
  BY DEF Clocks, ClassOf, Class
<1>2. s = IF now >= available[c] THEN now ELSE available[c]
  BY <1>1, MaxOfTwo DEF actual_start
<1>3. x \in Nat
  BY DurationNat
<1> HIDE DEF c, s, x
<1>4. s \in Nat /\ now <= s /\ available[c] <= s /\ s + x \in Nat /\ s <= s + x
  BY <1>1, <1>2, <1>3
<1> QED
  BY <1>4 DEF c, s, x

\* What a start leaves.
LEMMA BookStart ==
  ASSUME TimeInv, NEW r \in Waiting, r \in Requests, NEW m, NEW l, NEW q, NEW d, NEW G,
         Ledger(m, l, q, d, Waiting, G, now), Lanes(q, d), Start(r, m, l, d),
         fast' = Put(q, ClassOf(r), r), now' = now, Waiting' = Waiting \ {r}, Left' = G, switching' = <<>>,
         \A c \in Class : \A j \in 1..Len(d[c]) : d[c][j] <= available[c],
         \A x \in Waiting : ArrivalOf(m, x) <= to_ns(now),
         \A c \in Class : m.stall[c] <= QueueWait(m, c)
                            + (IF c = ClassOf(r) THEN to_ns(now) - ArrivalOf(m, r) ELSE 0)
  PROVE  /\ Ledger(metrics, log, fast, done_time, Waiting, Left, now)' /\ Behind' /\ ArrivedBy' /\ Stalls'
         /\ \A x \in Waiting \ {r} : ArrivalOf(metrics', x) = ArrivalOf(m, x)
<1> DEFINE e == ClassOf(r)  s == actual_start(e)  x == s + Duration(r)
           m2 == BooksStart(m, r, s)  l2 == LogStart(l, r, s)
<1>0. now \in Nat /\ Clocks /\ e \in Class /\ available \in [Class -> Nat]
  BY DEF TimeInv, Clocks, ClassOf, Class
<1>1. /\ s \in Nat /\ now <= s /\ available[e] <= s /\ x \in Nat /\ s <= x
  BY <1>0, StartTimes
<1>2. /\ metrics' = m2 /\ log' = l2 /\ done_time' = Put(d, e, x)
      /\ available' = [available EXCEPT ![e] = x]
  BY DEF Start, Put, BooksStart, LogStart
<1>a. \A y \in Waiting : ArrivalOf(m, y) \in Nat
  <2>1. \A y \in Waiting : y.ptr \in DOMAIN m.requests
    BY DEF Ledger, Books, Entered
  <2>2. \A y \in Waiting : m.requests[y.ptr] \in Entry
    BY <2>1 DEF Ledger, Books, MetricsType
  <2> QED
    BY <2>2 DEF ArrivalOf, Entry
<1>n. to_ns(now) \in Nat /\ to_ns(s) \in Nat /\ to_ns(now) <= to_ns(s)
  BY <1>0, <1>1, ToNs
<1>d. \A c \in Class : /\ d[c] \in Seq(Nat) /\ Len(d[c]) \in Nat
                       /\ \A j \in 1..Len(d[c]) : d[c][j] \in Nat
  <2>1. \A c \in Class : d[c] \in Seq(Nat)
    BY DEF Lanes
  <2> QED
    BY <2>1, ElementOfSeq
<1>3. /\ \A j \in 1..Len(d[e]) : d[e][j] <= s
      /\ m.requests[r.ptr].arrival_ns <= to_ns(s)
  <2>1. \A j \in 1..Len(d[e]) : d[e][j] <= available[e]
    BY <1>0
  <2>2. \A j \in 1..Len(d[e]) : d[e][j] <= s
    <3> HIDE DEF s, e
    <3> QED
      BY <1>0, <1>1, <1>d, <2>1
  <2>3. ArrivalOf(m, r) <= to_ns(s)
    <3> HIDE DEF s
    <3>1. ArrivalOf(m, r) \in Nat /\ ArrivalOf(m, r) <= to_ns(now)
      BY <1>a
    <3> QED
      BY <1>n, <3>1
  <2> QED
    BY <2>2, <2>3 DEF ArrivalOf
<1>4. /\ Ledger(m2, l2, Put(q, e, r), Put(d, e, x), Waiting \ {r}, G, now)
      /\ m2.stall = m.stall
      /\ \A y \in Waiting \ {r} : m2.requests[y.ptr] = m.requests[y.ptr]
      /\ \A c \in Class :
           QueueWait(m2, c) = QueueWait(m, c)
             + (IF c = e THEN to_ns(s) - m.requests[r.ptr].arrival_ns ELSE 0)
  <2>1. /\ MayStart(m, l, q, d, Waiting, G, now, r, e, s, x)
        /\ now \in Nat /\ s \in Nat /\ x \in Nat
    BY <1>0, <1>1, <1>3 DEF MayStart
  <2> HIDE DEF s, x, e
  <2>2. Ledger(BooksStart(m, r, s), LogStart(l, r, s), Put(q, e, r), Put(d, e, x), Waiting \ {r}, G, now)
    BY ONLY <2>1, LedgerStarted, ZenonT(30)
  <2>3. StartKeeps(m, BooksStart(m, r, s), Waiting, r, e, s)
    BY ONLY <2>1, LedgerStarted, ZenonT(30)
  <2> QED
    BY <2>2, <2>3 DEF StartKeeps
<1> HIDE DEF m2, l2, s, x
<1>5. Ledger(metrics, log, fast, done_time, Waiting, Left, now)'
  BY <1>2, <1>4
<1>6. Behind'
  <2> SUFFICES ASSUME NEW c \in Class, NEW j \in 1..Len(done_time'[c]) PROVE done_time'[c][j] <= available'[c]
    BY DEF Behind
  <2>1. CASE c = e
    <3>1. done_time'[c] = Append(d[e], x) /\ available'[c] = x
      BY <1>0, <1>2, <2>1 DEF Put, Lanes
    <3>2. /\ Len(Append(d[e], x)) = Len(d[e]) + 1 /\ Append(d[e], x)[Len(d[e]) + 1] = x
          /\ \A i \in 1..Len(d[e]) : Append(d[e], x)[i] = d[e][i]
      BY <1>0, <1>1, <1>d, AppendProperties
    <3>3. \A i \in 1..Len(d[e]) : d[e][i] <= x
      <4>1. \A i \in 1..Len(d[e]) : d[e][i] \in Nat /\ d[e][i] <= s
        BY <1>0, <1>3, <1>d
      <4> HIDE DEF e
      <4> QED
        BY <1>1, <4>1
    <3>4. CASE j = Len(d[e]) + 1
      BY <1>1, <3>1, <3>2, <3>4
    <3>5. CASE j # Len(d[e]) + 1
      <4>1. Len(d[e]) \in Nat
        BY <1>0, <1>d
      <4>2. j \in 1..Len(d[e])
        BY <3>1, <3>2, <3>5, <4>1
      <4> QED
        BY <3>1, <3>2, <3>3, <4>2
    <3> QED
      BY <3>4, <3>5
  <2>2. CASE c # e
    <3>1. done_time'[c] = d[c] /\ available'[c] = available[c]
      BY <1>0, <1>2, <2>2 DEF Put, Lanes
    <3> QED
      BY <3>1
  <2> QED
    BY <2>1, <2>2
<1>7. \A y \in Waiting \ {r} : ArrivalOf(metrics', y) = ArrivalOf(m, y)
  BY <1>2, <1>4 DEF ArrivalOf
<1>8. ArrivedBy'
  BY <1>7 DEF ArrivedBy, ArrivalOf
<1>9. Stalls'
  <2> SUFFICES ASSUME NEW c \in Class PROVE m2.stall[c] <= QueueWait(m2, c) + Owed(c)'
    BY <1>2 DEF Stalls, QueueWait, Pim
  <2>1. Owed(c)' = 0
    BY DEF Owed
  <2>2. m.stall[c] \in Nat /\ QueueWait(m, c) \in Nat
    <3>1. MetricsType(m)
      BY DEF Ledger, Books
    <3> QED
      BY <3>1 DEF MetricsType, DeviceType, TrafficType, QueueWait, Pim
  <2> DEFINE y == ArrivalOf(m, r)  z == to_ns(now)  w == to_ns(s)  g == QueueWait(m, c)
  <2>3. y \in Nat /\ z \in Nat /\ w \in Nat /\ z <= w /\ g \in Nat
    BY <1>a, <1>n, <2>2
  <2>4. m2.stall[c] = m.stall[c] /\ QueueWait(m2, c) = g + (IF c = e THEN w - y ELSE 0)
    BY <1>4 DEF ArrivalOf
  <2>5. m.stall[c] <= g + (IF c = e THEN z - y ELSE 0)
    OBVIOUS
  <2> HIDE DEF y, z, w, g, e
  <2>6. CASE c = e
    BY <2>1, <2>2, <2>3, <2>4, <2>5, <2>6
  <2>7. CASE c # e
    BY <2>1, <2>2, <2>3, <2>4, <2>5, <2>7
  <2> QED
    BY <2>6, <2>7
<1> QED
  BY <1>5, <1>6, <1>7, <1>8, <1>9

\* The thread collects what is due and hands a request to the device.
LEMMA BookDispatch ==
  ASSUME WiredFor, TimeInv, BookInv, CountsWaits, TimedDispatch
  PROVE  BookInv'
<1> DEFINE r == Head(pending_queue)  m == MetricsThen(r)  q == [c \in Class |-> Undue(c)]
           G == Left \cup AllDue
<1>0. /\ LineInv /\ IInv /\ now \in Nat /\ Pace /\ Placed
      /\ Ledger(metrics, log, fast, done_time, Waiting, Left, now)
  BY DEF BookInv, TimeInv, Clocks, LineInv
<1>1. /\ Start(r, m, LogThen(r), DoneAfter) /\ DueExact /\ Dispatch
      /\ contention_wait_start' = Forget(contention_wait_start, r.ptr)
      /\ UNCHANGED <<sent, now, released, switching>>
      /\ pending_queue # <<>> /\ pending_queue' = Tail(pending_queue)
      /\ due' = [c \in Class |-> 0] /\ pc = "run"
      /\ fast' = IF Analytical(r) THEN [q EXCEPT ![ClassOf(r)] = Append(@, r)] ELSE q
  BY DEF TimedDispatch, Dispatch, NoLongerWaiting, send_transaction, MetricsThen, LogThen
<1>2. /\ LineInv' /\ Left' = G /\ Waiting' = Waiting \ {r}
  BY <1>0, <1>1, LineDispatch
<1>3. /\ Cut(fast, due) = q /\ Cut(done_time, due) = DoneAfter
      /\ Lanes(Cut(fast, due), Cut(done_time, due))
  BY <1>0, LedgerCollect DEF Pace
<1>4. /\ r \in Requests /\ r \in Entries(pending_queue) /\ r \in Waiting
      /\ Ledger(m, LogThen(r), Cut(fast, due), Cut(done_time, due), Waiting, G, now)
      /\ \A x \in Waiting : m.requests[x.ptr] = metrics.requests[x.ptr]
      /\ \A c \in Class :
           /\ QueueWait(m, c) = QueueWait(metrics, c)
           /\ m.stall[c] <= metrics.stall[c]
                + (IF c = ClassOf(r) THEN to_ns(now) - ArrivalOf(metrics, r) ELSE 0)
  BY <1>1, StallStep
<1>b. Analytical(r)
  BY <1>4, TimedAssumption DEF Analytical
<1>s. switching' = <<>> /\ switching = <<>>
  BY <1>0, <1>1 DEF Placed
<1>f. fast' = Put(q, ClassOf(r), r)
  BY <1>1, <1>b DEF Put
<1> HIDE DEF m, r, q, G
<1>5. \A x \in Waiting : ArrivalOf(m, x) = ArrivalOf(metrics, x)
  BY <1>4 DEF ArrivalOf
<1>6. \A x \in Waiting : ArrivalOf(m, x) <= to_ns(now)
  BY <1>0, <1>5 DEF Pace, ArrivedBy
<1>7. ASSUME NEW c \in Class
      PROVE  m.stall[c] <= QueueWait(m, c) + (IF c = ClassOf(r) THEN to_ns(now) - ArrivalOf(m, r) ELSE 0)
  <2>1. metrics.stall[c] <= QueueWait(metrics, c) /\ QueueWait(metrics, c) \in Nat
    <3>1. Owed(c) = 0
      BY <1>s DEF Owed
    <3>2. MetricsType(metrics)
      BY <1>0 DEF Ledger, Books
    <3>3. QueueWait(metrics, c) \in Nat
      BY <1>7, <3>2 DEF MetricsType, DeviceType, TrafficType, QueueWait, Pim
    <3>4. metrics.stall[c] <= QueueWait(metrics, c) + Owed(c)
      BY <1>0, <1>7 DEF Pace, Stalls
    <3> QED
      BY <3>1, <3>3, <3>4
  <2>3. m.stall[c] \in Nat /\ metrics.stall[c] \in Nat
    <3>1. MetricsType(metrics) /\ MetricsType(m)
      BY <1>0, <1>4 DEF Ledger, Books
    <3> QED
      BY <1>7, <3>1 DEF MetricsType
  <2>4. ArrivalOf(metrics, r) \in Int /\ to_ns(now) \in Int /\ ArrivalOf(m, r) = ArrivalOf(metrics, r)
    <3>1. r.ptr \in DOMAIN metrics.requests /\ MetricsType(metrics)
      BY <1>0, <1>4 DEF Ledger, Books, Entered
    <3>2. metrics.requests[r.ptr] \in Entry
      BY <3>1 DEF MetricsType
    <3> QED
      BY <1>0, <1>4, <1>5, <3>2, ToNs DEF ArrivalOf, Entry
  <2> DEFINE x == IF c = ClassOf(r) THEN to_ns(now) - ArrivalOf(metrics, r) ELSE 0
  <2>6. x \in Int
    BY <2>4
  <2>7. m.stall[c] <= metrics.stall[c] + x /\ QueueWait(m, c) = QueueWait(metrics, c)
    BY <1>4, <1>7
  <2>8. x = IF c = ClassOf(r) THEN to_ns(now) - ArrivalOf(m, r) ELSE 0
    BY <2>4
  <2> HIDE DEF x
  <2>9. m.stall[c] <= QueueWait(m, c) + x
    BY <2>1, <2>3, <2>6, <2>7
  <2> QED
    BY <2>8, <2>9
<1>8. \A c \in Class : \A j \in 1..Len(DoneAfter[c]) : DoneAfter[c][j] <= available[c]
  BY <1>0, <1>1, BehindCut DEF Pace
<1>9. /\ Ledger(metrics, log, fast, done_time, Waiting, Left, now)' /\ Behind' /\ ArrivedBy' /\ Stalls'
      /\ \A x \in Waiting \ {r} : ArrivalOf(metrics', x) = ArrivalOf(m, x)
  <2> DEFINE L == LogThen(r)  d == DoneAfter
  <2>1. /\ Ledger(m, L, q, d, Waiting, G, now) /\ Lanes(q, d) /\ Start(r, m, L, d)
        /\ fast' = Put(q, ClassOf(r), r) /\ now' = now /\ Waiting' = Waiting \ {r} /\ Left' = G /\ switching' = <<>>
        /\ \A c \in Class : \A j \in 1..Len(d[c]) : d[c][j] <= available[c]
        /\ r \in Waiting /\ r \in Requests
    BY <1>1, <1>2, <1>3, <1>4, <1>8, <1>f, <1>s
  <2> HIDE DEF L, d
  <2> QED
    BY <1>6, <1>7, <2>1, BookStart
<1>10. DueReached'
  BY <1>1 DEF DueReached
<1>11. Contending'
  <2>1. Entries(pending_queue)' = Entries(pending_queue) \ {r}
    BY <1>0, <1>1, PopPlaces DEF Placed, IInv, TypeOK, r
  <2> DEFINE f == Forget(contention_wait_start, r.ptr)
  <2>2. /\ DOMAIN f = DOMAIN contention_wait_start \ {r.ptr}
        /\ \A p \in DOMAIN f : f[p] = contention_wait_start[p]
    BY DEF Forget
  <2> HIDE DEF f
  <2>3. DOMAIN f \subseteq {p.ptr : p \in Entries(pending_queue) \ {r}}
    BY <1>0, <2>2 DEF Pace, Contending
  <2>4. \A p \in Entries(pending_queue) \ {r} : Since(f, metrics', p, now)
    <3>1. Entries(pending_queue) \subseteq Waiting
      BY DEF Waiting
    <3> QED
      BY <1>0, <1>5, <1>9, <2>2, <3>1 DEF Pace, Contending, Since
  <2>5. contention_wait_start' = f /\ now' = now
    BY <1>1 DEF f
  <2> QED
    BY <2>1, <2>3, <2>4, <2>5 DEF Contending, Since, ArrivalOf
<1> QED
  BY <1>2, <1>9, <1>10, <1>11 DEF BookInv, Pace

\* The mode change is over and the request goes to the device.
LEMMA BookEnd ==
  ASSUME WiredFor, TimeInv, BookInv, TimedEndModeTransition
  PROVE  BookInv'
<1> DEFINE r == Head(switching)
<1>0. /\ LineInv /\ IInv /\ now \in Nat /\ Pace /\ Placed
      /\ Ledger(metrics, log, fast, done_time, Waiting, Left, now)
  BY DEF BookInv, TimeInv, Clocks, LineInv
<1>1. /\ Start(r, metrics, log, done_time) /\ EndModeTransition
      /\ UNCHANGED <<sent, now, released, contention_wait_start, pending_queue, due>>
      /\ switching' = <<>>
      /\ fast' = IF Analytical(r) THEN [fast EXCEPT ![ClassOf(r)] = Append(@, r)] ELSE fast
  BY DEF TimedEndModeTransition, EndModeTransition, send_transaction
<1>2. /\ LineInv' /\ Left' = Left /\ switching = <<r>> /\ r \in Waiting /\ r \in Requests
      /\ Waiting' = Waiting \ {r}
  BY <1>0, <1>1, LineEnd
<1>3. Lanes(fast, done_time)
  BY <1>0, LanesHold
<1>b. Analytical(r)
  BY <1>2, TimedAssumption DEF Analytical
<1>f. fast' = Put(fast, ClassOf(r), r)
  BY <1>1, <1>b DEF Put
<1>p. pc = "switch"
  BY <1>1 DEF EndModeTransition
<1>4. DueReached'
  <2>1. \A c \in Class : due[c] = 0
    BY <1>p DEF TimeInv, NothingDue
  <2> QED
    BY <1>1, <2>1 DEF DueReached
<1>5. \A c \in Class : Owed(c) = IF c = ClassOf(r) THEN to_ns(now) - ArrivalOf(metrics, r) ELSE 0
  <2>1. switching # <<>>
    BY <1>2
  <2> QED
    BY <2>1 DEF Owed
<1> HIDE DEF r
<1>9. /\ Ledger(metrics, log, fast, done_time, Waiting, Left, now)' /\ Behind' /\ ArrivedBy' /\ Stalls'
      /\ \A x \in Waiting \ {r} : ArrivalOf(metrics', x) = ArrivalOf(metrics, x)
  <2> DEFINE m == metrics  l == log  q == fast  d == done_time  G == Left
  <2>1. /\ Ledger(m, l, q, d, Waiting, G, now) /\ Lanes(q, d) /\ Start(r, m, l, d)
        /\ fast' = Put(q, ClassOf(r), r) /\ now' = now /\ Waiting' = Waiting \ {r} /\ Left' = G /\ switching' = <<>>
        /\ \A c \in Class : \A j \in 1..Len(d[c]) : d[c][j] <= available[c]
        /\ r \in Waiting /\ r \in Requests
        /\ \A x \in Waiting : ArrivalOf(m, x) <= to_ns(now)
        /\ \A c \in Class : m.stall[c] <= QueueWait(m, c)
                              + (IF c = ClassOf(r) THEN to_ns(now) - ArrivalOf(m, r) ELSE 0)
    BY <1>0, <1>1, <1>2, <1>3, <1>5, <1>f DEF Pace, Behind, ArrivedBy, Stalls
  <2>2. \A x \in Waiting \ {r} : ArrivalOf(metrics', x) = ArrivalOf(m, x)
    <3> HIDE DEF m, l, q, d, G
    <3> QED
      BY <2>1, BookStart
  <2> HIDE DEF m, l, q, d, G
  <2> QED
    BY <2>1, <2>2, BookStart DEF m
<1>11. Contending'
  <2>1. Entries(pending_queue)' = Entries(pending_queue) /\ r \notin Entries(pending_queue)
    <3>1. r \in Entries(switching)
      BY <1>2, EntriesOne
    <3> QED
      BY <1>0, <1>1, <3>1 DEF Placed
  <2>2. Entries(pending_queue) \subseteq Waiting \ {r}
    BY <2>1 DEF Waiting
  <2>3. \A p \in Entries(pending_queue) : Since(contention_wait_start, metrics', p, now)
    BY <1>0, <1>9, <2>2 DEF Pace, Contending, Since
  <2> QED
    BY <1>0, <1>1, <2>1, <2>3 DEF Pace, Contending, Since, ArrivalOf
<1> QED
  BY <1>2, <1>4, <1>9, <1>11 DEF BookInv, Pace

\* A sum of zeros.
LEMMA SumZeros ==
  ASSUME NEW S, IsFiniteSet(S), NEW f, \A x \in S : f[x] = 0
  PROVE  SumFunctionOnSet(f, S) = 0
<1>1. SumFunctionOnSet(f, S) \in Nat
  BY SumFacts
<1>2. Plus(f, f, f, S)
  BY DEF Plus
<1>3. SumFunctionOnSet(f, S) = SumFunctionOnSet(f, S) + SumFunctionOnSet(f, S)
  BY <1>2, SumPlus
<1> DEFINE z == SumFunctionOnSet(f, S)
<1>4. z \in Nat /\ z = z + z
  BY <1>1, <1>3
<1> HIDE DEF z
<1>5. z = 0
  BY <1>4
<1> QED
  BY <1>5 DEF z

\* The books are empty at first.
LEMMA BooksNew ==
  /\ Books(NoMetrics, {}, {}, {})
  /\ \A c \in Class : Sv(NoMetrics, c) = <<>> /\ NoMetrics.stall[c] = 0 /\ QueueWait(NoMetrics, c) = 0
<1> DEFINE chan == [requests |-> 0, bytes |-> 0, service_intervals |-> <<>>]
           none == <<>>
<1>0. Class = Traffic /\ Channels \in Nat \ {0}
  BY ChannelsAssumption DEF Class, Traffic
<1>1. NoTraffic \in TrafficType /\ chan \in ChannelType
  BY DEF NoTraffic, TrafficType, ChannelType
<1>2. /\ NoDevice.traffic = [k \in Class |-> NoTraffic]
      /\ NoDevice.per_channel = [ch \in 0..(Channels - 1) |-> chan]
      /\ NoDevice \in DeviceType
  <2>1. /\ [k \in Class |-> NoTraffic] \in [Class -> TrafficType]
        /\ [ch \in 0..(Channels - 1) |-> chan] \in [0..(Channels - 1) -> ChannelType]
    BY <1>1
  <2> HIDE DEF chan
  <2> QED
    BY <1>0, <2>1 DEF NoDevice, DeviceType, chan
<1>3. /\ NoMetrics.requests = <<>> /\ NoMetrics.device = [d \in {"DRAM", "PIM"} |-> NoDevice]
      /\ NoMetrics.stall = [k \in Class |-> 0]
      /\ NoMetrics = [requests |-> NoMetrics.requests, device |-> NoMetrics.device, stall |-> NoMetrics.stall]
  BY <1>0 DEF NoMetrics
<1>4. DOMAIN none = {} /\ none \in [{} -> Entry]
  OBVIOUS
<1>5. MetricsType(NoMetrics)
  BY <1>2, <1>3, <1>4 DEF MetricsType
<1>6. Entered(NoMetrics, {}, {})
  BY <1>3, <1>4 DEF Entered, PtrsApart
<1>7. Pim(NoMetrics) = NoDevice
  BY <1>3 DEF Pim
<1>8. \A c \in Class : /\ Pim(NoMetrics).traffic[c] = NoTraffic
                       /\ OfKind({}, c) = {}
  BY <1>2, <1>7 DEF OfKind
<1>9. SumBytes({}) = 0 /\ Cardinality({}) = 0 /\ IsFiniteSet({})
  BY SumEmpty, FS_EmptySet DEF SumBytes, SumFunction
<1>10. SumFunction([id \in 0..(Channels - 1) |-> Pim(NoMetrics).per_channel[id].bytes]) = 0
  <2> DEFINE S == 0..(Channels - 1)  f == [id \in S |-> Pim(NoMetrics).per_channel[id].bytes]
  <2>1. \A id \in S : f[id] = 0
    <3>1. \A id \in S : Pim(NoMetrics).per_channel[id] = chan
      BY <1>2, <1>7
    <3>2. chan.bytes = 0
      OBVIOUS
    <3> HIDE DEF chan
    <3> QED
      BY <3>1, <3>2
  <2>2. IsFiniteSet(S)
    <3>1. 0 \in Int /\ Channels - 1 \in Int
      BY <1>0
    <3> QED
      BY <3>1, FS_Interval
  <2>3. SumFunction(f) = SumFunctionOnSet(f, S)
    BY DEF SumFunction
  <2> HIDE DEF f, S
  <2>4. SumFunctionOnSet(f, S) = 0
    BY <2>1, <2>2, SumZeros
  <2> QED
    BY <2>3, <2>4 DEF f, S
<1>11. Totalled(NoMetrics, {})
  <2>1. NoTraffic.requests = 0 /\ NoTraffic.bytes = 0
    BY DEF NoTraffic
  <2>2. {} \subseteq Requests
    OBVIOUS
  <2>3. \A c \in Class : /\ Pim(NoMetrics).traffic[c].requests = Cardinality(OfKind({}, c))
                         /\ Pim(NoMetrics).traffic[c].bytes = SumBytes(OfKind({}, c))
    BY <1>8, <1>9, <2>1
  <2> QED
    BY <1>9, <1>10, <2>2, <2>3 DEF Totalled
<1> QED
  BY <1>3, <1>5, <1>6, <1>8, <1>11 DEF Books, Sv, QueueWait, NoTraffic

\* At first nothing is known and nothing has left.
LEMMA BookInit == TimedInit => BookInv
<1> SUFFICES ASSUME TimedInit PROVE BookInv
  OBVIOUS
<1>1. /\ LineInv /\ Left = {} /\ Waiting = {}
  BY LineInit
<1>2. /\ metrics = NoMetrics /\ log = <<>> /\ contention_wait_start = <<>>
      /\ pending_queue = <<>> /\ switching = <<>>
      /\ \A c \in Class : fast[c] = <<>> /\ done_time[c] = <<>> /\ due[c] = 0
  BY DEF TimedInit, ClientInit, Init
<1>3. \A c \in Class : Open(fast, Zero, c) = {}
  BY <1>2 DEF Open, Zero
<1>4. OpenSet(fast, Zero) = {}
  BY <1>3 DEF OpenSet
<1>5. Timeline(metrics, fast, done_time, Zero, now)
  BY <1>2, <1>3, BooksNew DEF Timeline
<1>6. Rows(ServiceLog(log), {}, fast, done_time, Zero, now)
  <2>1. Ended(ServiceLog(log)) = {} /\ ServiceLog(log) \in [{r.layer : r \in {}} -> Row]
    BY <1>2 DEF Ended, ServiceLog
  <2> QED
    BY <1>3, <1>4, <2>1 DEF Rows
<1>7. Ledger(metrics, log, fast, done_time, Waiting, Left, now)
  <2>1. Books(metrics, {}, {}, {})
    BY <1>2, BooksNew
  <2> QED
    BY <1>1, <1>4, <1>5, <1>6, <2>1 DEF Ledger
<1>8. DueReached /\ Behind /\ ArrivedBy
  BY <1>1, <1>2 DEF DueReached, Behind, ArrivedBy
<1>9. Contending
  BY <1>2, EntriesEmpty DEF Contending
<1>10. Stalls
  BY <1>2, BooksNew DEF Stalls, Owed
<1> QED
  BY <1>1, <1>7, <1>8, <1>9, <1>10 DEF BookInv, Pace

\* One step of the wrapper with its clocks, for the books.
LEMMA BookStep ==
  ASSUME WiredFor, TimeInv, CountsWaits, BookInv, [TimedNext]_timedVars
  PROVE  BookInv'
<1>1. Clocks'
  BY PromptStep
<1>2. CASE Resting \/ Send \/ Respond \/ ClockEdge
  BY <1>1, <1>2, BookRests
<1>3. CASE Arrive
  BY <1>3, BookArrive
<1>4. CASE TimedIdle \/ TimedBlock
  BY <1>4, BookCollect
<1>5. CASE TimedDispatch
  BY <1>5, BookDispatch
<1>6. CASE TimedBeginModeTransition
  BY <1>6, BookBegin
<1>7. CASE TimedEndModeTransition
  BY <1>7, BookEnd
<1> QED
  BY <1>2, <1>3, <1>4, <1>5, <1>6, <1>7 DEF TimedNext, Resting

\* Only the end of a wait counts.
LEMMA CountedStep ==
  ASSUME CountsWaits, [TimedNext]_timedVars
  PROVE  CountsWaits'
<1>1. ASSUME NEW r, wait_count' = WaitCounted(r) PROVE CountsWaits'
  <2>1. CASE Contended(r)
    <3> DEFINE e == ClassOf(r)
    <3>1. e \in Class /\ wait_count' = [wait_count EXCEPT ![e] = wait_count[e] + 1]
      BY <1>1, <2>1 DEF WaitCounted, ClassOf, Class
    <3> HIDE DEF e
    <3> QED
      BY <3>1 DEF CountsWaits
  <2>2. CASE ~Contended(r)
    BY <1>1, <2>2 DEF WaitCounted, CountsWaits
  <2> QED
    BY <2>1, <2>2
<1>2. CASE TimedDispatch \/ TimedBeginModeTransition
  BY <1>1, <1>2 DEF TimedDispatch, TimedBeginModeTransition
<1>3. CASE Resting
  BY <1>3 DEF Resting, CountsWaits, Tick, NothingToMove, timedVars, timeVars, bookVars, BecomesDue,
     OtherClient, TimedEndIteration, TimedTimeout, DeliverEvent
<1>4. CASE Send \/ Respond \/ ClockEdge
  BY <1>4 DEF CountsWaits, Send, Respond, ClockEdge, bookVars
<1>5. CASE Arrive \/ TimedIdle \/ TimedBlock \/ TimedEndModeTransition
  BY <1>5 DEF CountsWaits, Arrive, TimedIdle, TimedBlock, TimedEndModeTransition
<1> QED
  BY <1>2, <1>3, <1>4, <1>5 DEF TimedNext, Resting

\* The inductive invariant of the books: the line of the requests, the entries
\* and totals of the metrics, and the times in the metrics and in the log.
THEOREM BookInvariance ==
  ASSUME WiredFor
  PROVE  TimedSpec => [](TimeInv /\ BookInv /\ CountsWaits)
<1>1. TimedInit => BookInv /\ CountsWaits
  BY BookInit DEF TimedInit, CountsWaits
<1>2. TimeInv /\ CountsWaits /\ BookInv /\ [TimedNext]_timedVars => BookInv' /\ CountsWaits'
  BY BookStep, CountedStep
<1>3. TimedSpec => []TimeInv
  BY TimeInvariance
<1> QED
  BY <1>1, <1>2, <1>3, PTL DEF TimedSpec

-----------------------------------------------------------------------------
(* The rows of the waits                                                   *)

\* Of all requests at most the head of the queue, s, waits for the other class.
HeadWaits(f, s) == \A p \in DOMAIN f : s # <<>> /\ p = Head(s).ptr

\* The rows l of n[c] waits of each class c, all of them over at time t.
WaitRows(l, n, t) ==
  /\ l \in [DOMAIN l -> Row]
  /\ \A x \in DOMAIN l : \E c \in Class : \E k \in Nat : x = ContentionRow(c, k) /\ k < n[c]
  /\ \A x \in DOMAIN l : l[x].end <= to_cycle(t)
  /\ \A x, y \in DOMAIN l : x # y => l[x].end <= l[y].start \/ l[y].end <= l[x].start

\* A wait begins when those in the log are over.
Past(l, f) == \A x \in DOMAIN l : \A p \in DOMAIN f : l[x].end <= to_cycle(f[p])

\* The invariant of the waits.
WaitInv ==
  /\ HeadWaits(contention_wait_start, pending_queue)
  /\ WaitRows(WaitLog(log), wait_count, now) /\ Past(WaitLog(log), contention_wait_start)

\* No wait begins or ends.
LEMMA WaitKept ==
  ASSUME now \in Nat, now' \in Nat, now <= now', WaitInv, WaitLog(log') = WaitLog(log),
         UNCHANGED <<contention_wait_start, wait_count>>, HeadWaits(contention_wait_start, pending_queue')
  PROVE  WaitInv'
<1> DEFINE l == WaitLog(log)
<1>1. WaitRows(l, wait_count, now) /\ Past(l, contention_wait_start)
  BY DEF WaitInv
<1> HIDE DEF l
<1>2. WaitRows(l, wait_count, now')
  <2>1. to_cycle(now) \in Nat /\ to_cycle(now') \in Nat /\ to_cycle(now) <= to_cycle(now')
    BY ToCycle
  <2>2. \A x \in DOMAIN l : l[x].end \in Nat /\ l[x].end <= to_cycle(now)
    BY <1>1 DEF WaitRows, Row
  <2>3. \A x \in DOMAIN l : l[x].end <= to_cycle(now')
    BY <2>1, <2>2
  <2> QED
    BY <1>1, <2>3 DEF WaitRows
<1>3. WaitLog(log') = l
  BY DEF l
<1> QED
  BY <1>1, <1>2, <1>3 DEF WaitInv

\* A request begins to wait, or waits on.
LEMMA WaitBegins ==
  ASSUME now \in Nat, WaitInv, WaitLog(log') = WaitLog(log), pending_queue # <<>>,
         contention_wait_start' = Emplaced(contention_wait_start, Head(pending_queue).ptr, now),
         UNCHANGED <<now, wait_count, pending_queue>>
  PROVE  WaitInv'
<1> DEFINE l == WaitLog(log)  f == contention_wait_start  h == Head(pending_queue).ptr
<1>1. WaitRows(l, wait_count, now) /\ Past(l, f) /\ HeadWaits(f, pending_queue)
  BY DEF WaitInv
<1>2. /\ DOMAIN f' = DOMAIN f \cup {h} /\ \A p \in DOMAIN f : f'[p] = f[p]
      /\ h \notin DOMAIN f => f'[h] = now
  BY DEF Emplaced
<1>3. HeadWaits(f', pending_queue)
  BY <1>1, <1>2 DEF HeadWaits
<1>4. Past(l, f')
  <2> HIDE DEF l, f, h
  <2> QED
    BY <1>1, <1>2 DEF Past, WaitRows
<1> HIDE DEF l
<1>5. WaitLog(log') = l
  BY DEF l
<1> QED
  BY <1>1, <1>3, <1>4, <1>5 DEF WaitInv

\* The head waits no longer: its wait, if it took time, has the next row.
LEMMA WaitEnds ==
  ASSUME WiredFor, TimeInv, BookInv, CountsWaits, WaitInv, pending_queue # <<>>
  PROVE  LET r == Head(pending_queue)
         IN /\ DOMAIN Forget(contention_wait_start, r.ptr) = {}
            /\ WaitRows(WaitLog(LogThen(r)), WaitCounted(r), now)
<1> DEFINE r == Head(pending_queue)  f == contention_wait_start  e == ClassOf(r)  l == WaitLog(LogAfter)
           row == ContentionRow(e, wait_count[e])  a == f[r.ptr]
<1>0. /\ LineInv /\ IInv /\ now \in Nat /\ Pace /\ Placed
      /\ Ledger(metrics, log, fast, done_time, Waiting, Left, now)
  BY DEF BookInv, TimeInv, Clocks, LineInv
<1>1. l = WaitLog(log)
  BY <1>0, LedgerCollect DEF Pace
<1>2. WaitRows(l, wait_count, now) /\ Past(l, f) /\ HeadWaits(f, pending_queue)
  BY <1>1 DEF WaitInv
<1>3. DOMAIN Forget(f, r.ptr) = {}
  BY <1>2 DEF Forget, HeadWaits
<1>4. CASE Contended(r)
  <2> DEFINE L2 == update_end_at(update_start_at(LogAfter, row, a), row, now)  l2 == WaitLog(L2)
             n == WaitCounted(r)
  <2>1. LogThen(r) = L2 /\ n = [wait_count EXCEPT ![e] = @ + 1]
    BY <1>4 DEF finish_contention_wait, LogThen, LogAfter, WaitCounted
  <2>2. r \in Entries(pending_queue) /\ e \in Class
    BY <1>0, PopPlaces DEF Placed, IInv, TypeOK, ClassOf, Class
  <2>3. a \in Nat /\ a <= now /\ r.ptr \in DOMAIN f
    BY <1>0, <1>4, <2>2 DEF Pace, Contending, Contended, Since
  <2>4. wait_count[e] \in Nat /\ wait_count \in [Class -> Nat] /\ row \in ContentionRows
    BY <2>2, CountedRows DEF CountsWaits
  <2>5. row \notin DOMAIN l
    <3> SUFFICES ASSUME row \in DOMAIN l PROVE FALSE
      OBVIOUS
    <3>1. PICK c \in Class : \E k \in Nat : row = ContentionRow(c, k) /\ k < wait_count[c]
      BY <1>2 DEF WaitRows
    <3>2. PICK k \in Nat : row = ContentionRow(c, k) /\ k < wait_count[c]
      BY <3>1
    <3>3. c = e /\ k = wait_count[e]
      BY <3>2 DEF ContentionRow
    <3> QED
      BY <2>4, <3>2, <3>3
  <2>6. /\ DOMAIN l2 = DOMAIN l \cup {row} /\ \A x \in DOMAIN l : l2[x] = l[x]
        /\ l2[row] = [start |-> to_cycle(a), end |-> to_cycle(now)]
    <3> DEFINE L == LogAfter  y == row  b == a  u == now
    <3>1. y \in ContentionRows /\ y \notin DOMAIN WaitLog(L)
      BY <2>4, <2>5
    <3> HIDE DEF L, y, b, u
    <3>2. WaitAdded(WaitLog(L), WaitLog(WithWait(L, y, b, u)), y, b, u)
      BY ONLY <3>1, WaitLogged, ZenonT(60)
    <3> QED
      BY <3>2 DEF WaitAdded, WithWait, L, y, b, u
  <2>7. /\ to_cycle(a) \in Nat /\ to_cycle(now) \in Nat /\ l2 = [x \in DOMAIN l2 |-> l2[x]]
        /\ \A x \in DOMAIN l : l[x].end <= to_cycle(a)
    <3>1. l2 = [x \in DOMAIN l2 |-> l2[x]]
      BY DEF WaitLog
    <3> QED
      BY <1>0, <1>2, <2>3, <3>1, ToCycle DEF Past
  <2>n. \A c \in Class : n[c] = IF c = e THEN wait_count[c] + 1 ELSE wait_count[c]
    BY <2>1, <2>4
  <2>r. row = ContentionRow(e, wait_count[e])
    OBVIOUS
  <2> HIDE DEF l, l2, L2, row, a, n, e
  <2>8. l2[row] \in Row /\ l2[row].start = to_cycle(a) /\ l2[row].end = to_cycle(now)
    BY <2>6, <2>7 DEF Row
  <2>9. l2 \in [DOMAIN l2 -> Row]
    <3>1. \A x \in DOMAIN l2 : l2[x] \in Row
      BY <1>2, <2>6, <2>8 DEF WaitRows
    <3> QED
      BY <2>7, <3>1
  <2>10. \A x \in DOMAIN l2 : \E c \in Class : \E k \in Nat : x = ContentionRow(c, k) /\ k < n[c]
    <3> SUFFICES ASSUME NEW x \in DOMAIN l2
                 PROVE  \E c \in Class : \E k \in Nat : x = ContentionRow(c, k) /\ k < n[c]
      OBVIOUS
    <3>1. CASE x = row
      <4>1. wait_count[e] < n[e]
        BY <2>2, <2>4, <2>n
      <4> QED
        BY <2>2, <2>4, <2>r, <3>1, <4>1
    <3>2. CASE x \in DOMAIN l
      <4>1. PICK c \in Class : \E k \in Nat : x = ContentionRow(c, k) /\ k < wait_count[c]
        BY <1>2, <3>2 DEF WaitRows
      <4>2. PICK k \in Nat : x = ContentionRow(c, k) /\ k < wait_count[c]
        BY <4>1
      <4>3. k < n[c]
        BY <2>4, <2>n, <4>2
      <4> QED
        BY <4>2, <4>3
    <3> QED
      BY <2>6, <3>1, <3>2
  <2>11. \A x \in DOMAIN l2 : l2[x].end <= to_cycle(now)
    BY <1>2, <2>6, <2>7, <2>8 DEF WaitRows
  <2>12. \A x, y \in DOMAIN l2 : x # y => l2[x].end <= l2[y].start \/ l2[y].end <= l2[x].start
    BY <1>2, <2>6, <2>7, <2>8 DEF WaitRows
  <2>13. WaitRows(l2, n, now)
    BY <2>9, <2>10, <2>11, <2>12 DEF WaitRows
  <2> QED
    BY <1>3, <2>1, <2>13 DEF l2, n
<1>5. CASE ~Contended(r)
  <2>1. LogThen(r) = LogAfter /\ WaitCounted(r) = wait_count
    BY <1>5 DEF finish_contention_wait, LogThen, LogAfter, WaitCounted
  <2> QED
    BY <1>2, <1>3, <2>1
<1> QED
  BY <1>4, <1>5

\* One step of the wrapper with its clocks, for the waits.
LEMMA WaitStep ==
  ASSUME WiredFor, TimeInv, Clocks', BookInv, CountsWaits, WaitInv, [TimedNext]_timedVars
  PROVE  WaitInv'
<1>0. /\ LineInv /\ IInv /\ now \in Nat /\ now' \in Nat /\ Pace
      /\ Ledger(metrics, log, fast, done_time, Waiting, Left, now)
      /\ pending_queue \in Seq(Requests) /\ HeadWaits(contention_wait_start, pending_queue)
  BY DEF BookInv, TimeInv, Clocks, IInv, TypeOK, WaitInv
<1>1. CASE Resting
  <2>1. UNCHANGED <<log, contention_wait_start, wait_count, pending_queue>>
    BY <1>0, <1>1, LineRests
  <2>2. now <= now'
    BY <1>0, <1>1 DEF Resting, Tick, NothingToMove, timedVars, timeVars, BecomesDue, OtherClient,
       TimedEndIteration, TimedTimeout, DeliverEvent
  <2> QED
    BY <1>0, <2>1, <2>2, WaitKept
<1>2. CASE Send \/ Respond \/ ClockEdge
  <2>1. UNCHANGED <<log, contention_wait_start, wait_count, pending_queue, now>>
    <3>1. CASE Send
      BY <3>1 DEF Send, Deliver, nb_transport_fw, bookVars, deviceVars, threadVars, outVars
    <3>2. CASE Respond
      BY <3>2 DEF Respond, TakeResponse, bookVars, deviceVars, threadVars, outVars
    <3>3. CASE ClockEdge
      BY <3>3 DEF ClockEdge, clock_posedge, clock_negedge, bookVars, vars, deviceVars, threadVars, outVars
    <3> QED
      BY <1>2, <3>1, <3>2, <3>3
  <2> QED
    BY <1>0, <2>1, WaitKept
<1>3. CASE Arrive
  <2>1. /\ UNCHANGED <<log, contention_wait_start, wait_count, now>>
        /\ pending_queue' = Append(pending_queue, Head(peq)) /\ Head(peq) \in Requests
    BY <1>0, <1>3, HeadTailProperties DEF Arrive, peq_cb, deviceVars, threadVars, IInv, TypeOK
  <2>2. /\ pending_queue' # <<>>
        /\ pending_queue # <<>> => Head(pending_queue') = Head(pending_queue)
    BY <1>0, <2>1, AppendProperties
  <2>3. HeadWaits(contention_wait_start, pending_queue')
    BY <1>0, <2>2 DEF HeadWaits
  <2> QED
    BY <1>0, <2>1, <2>3, WaitKept
<1>4. CASE TimedIdle \/ TimedBlock
  <2>1. WaitLog(log') = WaitLog(log) /\ UNCHANGED <<now, wait_count, pending_queue>>
    <3>1. WaitLog(LogAfter) = WaitLog(log)
      BY <1>0, LedgerCollect DEF Pace
    <3> QED
      BY <1>4, <3>1 DEF TimedIdle, TimedBlock, Idle, Block, LogAfter
  <2>2. CASE TimedIdle
    BY <1>0, <2>1, <2>2, WaitKept DEF TimedIdle
  <2>3. CASE TimedBlock
    BY <1>0, <2>1, <2>3, WaitBegins DEF TimedBlock, Block
  <2> QED
    BY <1>4, <2>2, <2>3
<1>5. CASE TimedDispatch \/ TimedBeginModeTransition
  <2> DEFINE r == Head(pending_queue)
  <2>1. /\ pending_queue # <<>> /\ now' = now /\ wait_count' = WaitCounted(r)
        /\ contention_wait_start' = Forget(contention_wait_start, r.ptr)
    BY <1>5 DEF TimedDispatch, TimedBeginModeTransition, Dispatch, BeginModeTransition, NoLongerWaiting
  <2>2. /\ DOMAIN Forget(contention_wait_start, r.ptr) = {}
        /\ WaitRows(WaitLog(LogThen(r)), WaitCounted(r), now)
    BY <2>1, WaitEnds
  <2>3. WaitLog(log') = WaitLog(LogThen(r))
    <3>1. CASE TimedBeginModeTransition
      BY <3>1 DEF TimedBeginModeTransition, LogThen
    <3>2. CASE TimedDispatch
      <4>1. log' = update_start_at(LogThen(r), r.layer, actual_start(ClassOf(r)))
        BY <3>2 DEF TimedDispatch, Start, LogThen
      <4>2. r.layer \notin ContentionRows
        BY <1>0, <2>1, HeadTailProperties, TimedAssumption
      <4> QED
        BY <4>1, <4>2, LayerLogged
    <3> QED
      BY <1>5, <3>1, <3>2
  <2>4. HeadWaits(contention_wait_start', pending_queue')
    BY <2>1, <2>2 DEF HeadWaits
  <2>5. Past(WaitLog(log'), contention_wait_start')
    BY <2>1, <2>2 DEF Past
  <2>6. WaitRows(WaitLog(log'), wait_count', now')
    BY <2>1, <2>2, <2>3
  <2> QED
    BY <2>4, <2>5, <2>6 DEF WaitInv
<1>6. CASE TimedEndModeTransition
  <2> DEFINE r == Head(switching)
  <2>1. /\ UNCHANGED <<now, contention_wait_start, wait_count, pending_queue>>
        /\ log' = update_start_at(log, r.layer, actual_start(ClassOf(r)))
        /\ EndModeTransition /\ UNCHANGED <<sent, released>>
    BY <1>6 DEF TimedEndModeTransition, EndModeTransition, send_transaction, Start
  <2>2. r.layer \notin ContentionRows
    <3>1. switching \in Seq(Requests) /\ Len(switching) = 1
      BY <1>0, <2>1 DEF IInv, TypeOK, WellFormed, EndModeTransition
    <3>2. r \in Requests
      BY <3>1, HeadTailProperties
    <3> QED
      BY <3>2, TimedAssumption
  <2>3. WaitLog(log') = WaitLog(log)
    BY <2>1, <2>2, LayerLogged
  <2> QED
    BY <1>0, <2>1, <2>3, WaitKept
<1> QED
  BY <1>1, <1>2, <1>3, <1>4, <1>5, <1>6 DEF TimedNext, Resting

\* The inductive invariant of the waits: they follow one another, each in a
\* row of its own, because only the head of the queue waits.
THEOREM WaitInvariance ==
  ASSUME WiredFor
  PROVE  TimedSpec => []WaitInv
<1>1. TimedInit => WaitInv
  BY DEF TimedInit, WaitInv, HeadWaits, WaitRows, Past, WaitLog
<1>2. TimeInv /\ TimeInv' /\ BookInv /\ CountsWaits /\ WaitInv /\ [TimedNext]_timedVars => WaitInv'
  BY WaitStep DEF TimeInv
<1>3. TimedSpec => [](TimeInv /\ BookInv /\ CountsWaits)
  BY BookInvariance
<1> QED
  BY <1>1, <1>2, <1>3, PTL DEF TimedSpec

-----------------------------------------------------------------------------
(* What the books show                                                     *)

\* The places of the properties are those of the invariant.
LEMMA SamePlaces ==
  ASSUME TimeInv, BookInv
  PROVE  /\ ToSet(switching) = Entries(switching) /\ OnDevice = Serving
         /\ Known = Waiting \cup Serving /\ Gone = Left /\ OpenSet(fast, Zero) = Serving
<1>0. TypeOK
  BY DEF TimeInv, IInv
<1>1. /\ fast \in [Class -> Seq(Requests)] /\ switching \in Seq(Requests)
      /\ pending_queue \in Seq(Requests) /\ peq \in Seq(Requests)
  BY <1>0 DEF TypeOK
<1>2. \A s \in Seq(Requests) : ToSet(s) = Entries(s)
  BY DEF ToSet, Entries
<1>3. ToSet(switching) = Entries(switching) /\ ToSet(pending_queue) = Entries(pending_queue)
      /\ ToSet(peq) = Entries(peq) /\ \A c \in Class : ToSet(fast[c]) = Entries(fast[c])
  BY <1>1, <1>2
<1>4. OnDevice = Serving
  <2>1. \A x : x \in OnDevice <=> \E c \in Class : x \in ToSet(fast[c])
    BY DEF OnDevice, InQueues
  <2>2. \A x : x \in OnDevice <=> x \in Serving
    BY <1>3, <2>1 DEF Serving, Queued, Class
  <2> QED
    BY <2>2
<1>5. Known = Waiting \cup Serving
  BY <1>3, <1>4 DEF Known, Waiting
<1>6. Gone = Left
  BY <1>3, <1>5 DEF Gone, Left, Inside
<1>7. OpenSet(fast, Zero) = Serving
  BY <1>1, OpenAll DEF Serving, Queued
<1> QED
  BY <1>3, <1>4, <1>5, <1>6, <1>7

\* The books of the metrics are those of the device, whatever the requests,
\* their sizes, the reuse of payloads and the order of the clients:
\* nothing is left behind for the next user of a payload, and what has left is
\* counted once with all its bytes (performance_metrics.cpp:33-82, 387-410).
THEOREM MetricsBooksExact ==
  ASSUME WiredFor
  PROVE  TimedSpec => []BooksExact
<1>1. TimeInv /\ BookInv => BooksExact
  <2> SUFFICES ASSUME TimeInv, BookInv PROVE BooksExact
    OBVIOUS
  <2>1. OnDevice = Serving /\ Known = Waiting \cup Serving /\ Gone = Left /\ OpenSet(fast, Zero) = Serving
    BY SamePlaces
  <2>2. Books(metrics, Known, OnDevice, Gone)
    BY <2>1 DEF BookInv, Ledger
  <2>3. MetricsType(metrics) /\ Entered(metrics, Known, OnDevice) /\ Totalled(metrics, Gone)
    BY <2>2 DEF Books
  <2>4. DOMAIN metrics.requests = {r.ptr : r \in Known}
    BY <2>3 DEF Entered
  <2>5. ASSUME NEW r \in Known
        PROVE  LET e == metrics.requests[r.ptr]
               IN /\ e.kind = ClassOf(r) /\ e.bytes = r.bytes
                  /\ e.start_ns >= 0 <=> r \in OnDevice
    <3>1. EntryOf(metrics.requests[r.ptr], r, OnDevice)
      BY <2>3, <2>5 DEF Entered
    <3>2. CASE r \in OnDevice
      BY <3>1, <3>2 DEF EntryOf
    <3>3. CASE r \notin OnDevice
      BY <3>1, <3>3 DEF EntryOf
    <3> QED
      BY <3>2, <3>3
  <2>6. DOMAIN PimStats.per_channel = 0..(Channels - 1)
    BY <2>3 DEF PimStats, MetricsType, DeviceType
  <2>7. SumFunction([id \in DOMAIN PimStats.per_channel |-> PimStats.per_channel[id].bytes]) = SumBytes(Gone)
    BY <2>3, <2>6 DEF Totalled, Pim, PimStats
  <2>8. \A c \in Class :
          LET gone == {r \in Gone : ClassOf(r) = c}
          IN /\ PimStats.traffic[c].requests = Cardinality(gone)
             /\ PimStats.traffic[c].bytes = SumBytes(gone)
    BY <2>3 DEF Totalled, Pim, PimStats, OfKind
  <2> QED
    BY <2>4, <2>5, <2>7, <2>8 DEF BooksExact
<1> QED
  BY <1>1, BookInvariance, PTL

\* The stalls that are reported never exceed the queue waits, whatever the
\* times at which requests arrive, are blocked and start
\* (performance_metrics.h:34, pim_wrapper.cpp:176-245).
THEOREM StallsWithinWaits ==
  ASSUME WiredFor
  PROVE  TimedSpec => []StallWithinWait
<1>1. TimeInv /\ BookInv => StallWithinWait
  <2> SUFFICES ASSUME TimeInv, BookInv, NEW c \in Class
               PROVE  metrics.stall[c] <=
                        PimStats.traffic[c].queue_wait_ns
                        + SumFunction([r \in {q \in ToSet(switching) : ClassOf(q) = c} |->
                                         to_ns(now) - metrics.requests[r.ptr].arrival_ns])
    BY DEF StallWithinWait
  <2> DEFINE S == {q \in ToSet(switching) : ClassOf(q) = c}
             f == [r \in S |-> to_ns(now) - metrics.requests[r.ptr].arrival_ns]
  <2>1. metrics.stall[c] <= QueueWait(metrics, c) + Owed(c)
    BY DEF BookInv, Pace, Stalls
  <2>2. SumFunction(f) = SumFunctionOnSet(f, S)
    BY DEF SumFunction
  <2>3. CASE switching = <<>>
    <3>1. S = {} /\ Owed(c) = 0
      BY <2>3, SamePlaces, EntriesEmpty DEF Owed
    <3>2. SumFunction(f) = Owed(c)
      <4> HIDE DEF f, S
      <4> QED
        BY <2>2, <3>1, SumEmpty
    <3> QED
      BY <2>1, <3>2 DEF QueueWait, Pim, PimStats
  <2>4. CASE switching # <<>>
    <3> DEFINE r == Head(switching)
    <3>1. switching = <<r>>
      <4>1. Len(switching) = 1 /\ switching \in Seq(Requests)
        BY <2>4 DEF TimeInv, IInv, TypeOK, WellFormed, BookInv, LineInv, Placed
      <4> QED
        BY <4>1
    <3>2. ToSet(switching) = {r} /\ r \in Waiting
      BY <3>1, SamePlaces, EntriesOne DEF Waiting
    <3>3. CASE ClassOf(r) = c
      <4> DEFINE v == to_ns(now) - ArrivalOf(metrics, r)
      <4>1. S = {r} /\ Owed(c) = v /\ f[r] = v
        BY <2>4, <3>2, <3>3 DEF Owed, ArrivalOf
      <4>2. v \in Nat
        <5>1. r.ptr \in DOMAIN metrics.requests /\ MetricsType(metrics)
          BY <3>2 DEF BookInv, Ledger, Books, Entered
        <5>2. metrics.requests[r.ptr] \in Entry
          BY <5>1 DEF MetricsType
        <5>3. ArrivalOf(metrics, r) \in Nat
          BY <5>2 DEF ArrivalOf, Entry
        <5>4. ArrivalOf(metrics, r) <= to_ns(now)
          BY <3>2 DEF BookInv, Pace, ArrivedBy
        <5>5. to_ns(now) \in Nat
          BY ToNs DEF TimeInv, Clocks
        <5> QED
          BY <5>3, <5>4, <5>5
      <4> HIDE DEF f, S, r, v
      <4>3. SumFunctionOnSet(f, {} \cup {r}) = f[r] + SumFunctionOnSet(f, {})
        BY <4>1, <4>2, SumAdd, FS_EmptySet
      <4>4. SumFunction(f) = v
        BY <2>2, <4>1, <4>2, <4>3, SumEmpty
      <4> QED
        BY <2>1, <4>1, <4>4 DEF QueueWait, Pim, PimStats, f, S
    <3>4. CASE ClassOf(r) # c
      <4>1. S = {} /\ Owed(c) = 0
        BY <3>2, <3>4 DEF Owed
      <4>2. SumFunction(f) = Owed(c)
        <5> HIDE DEF f, S
        <5> QED
          BY <2>2, <4>1, SumEmpty
      <4> QED
        BY <2>1, <4>2 DEF QueueWait, Pim, PimStats
    <3> QED
      BY <3>3, <3>4
  <2> QED
    BY <2>3, <2>4
<1> QED
  BY <1>1, BookInvariance, PTL

\* No two services of the device overlap, nor do the bars of two layers in the
\* cycle log when each request has a row of its own, nor those of two waits for
\* the other class, and no service ends in the future, for every workload and
\* all durations and delays (pim_wrapper.cpp:229-247, 260-297).
THEOREM ServicesExclusive ==
  ASSUME WiredFor, DistinctLayers
  PROVE  TimedSpec => []ServiceExclusive
<1>1. TimeInv /\ BookInv /\ WaitInv => ServiceExclusive
  <2> SUFFICES ASSUME TimeInv, BookInv, WaitInv PROVE ServiceExclusive
    OBVIOUS
  <2> DEFINE U == Left \cup OpenSet(fast, Zero)
  <2>1. /\ Timeline(metrics, fast, done_time, Zero, now) /\ MetricsType(metrics)
        /\ Rows(ServiceLog(log), U, fast, done_time, Zero, now)
    BY DEF BookInv, Ledger, Books
  <2>2. \A c \in Class : Service(c) = Sv(metrics, c)
    BY DEF Service, Sv, Pim, PimStats
  <2>3. \A c \in Class : Service(c) \in Seq(Interval)
    BY <2>1, <2>2 DEF MetricsType, DeviceType, TrafficType, Sv, Pim
  <2>4. \A c \in Class : DOMAIN Service(c) = 1..Len(Service(c))
    BY <2>3
  <2>5. \A c, e \in Class : \A i \in DOMAIN Service(c), j \in DOMAIN Service(e) :
          (c # e \/ i # j) => Apart(Service(c)[i], Service(e)[j])
    BY <2>1, <2>2, <2>4 DEF Timeline
  <2>6. \A c \in Class : \A i \in DOMAIN Service(c) : Service(c)[i][2] <= to_ns(now)
    BY <2>1, <2>2, <2>4 DEF Timeline
  <2> DEFINE M == Service("memory")  C == Service("compute")
  <2>7. \A i \in ToSet(M), j \in ToSet(C) : Apart(i, j)
    BY <2>5 DEF ToSet, Class
  <2>8. \A i \in ToSet(M \o C) : i[2] <= to_ns(now)
    <3>1. M \in Seq(Interval) /\ C \in Seq(Interval)
      BY <2>3 DEF Class
    <3>2. (\A i \in 1..Len(M) : M[i][2] <= to_ns(now)) /\ \A i \in 1..Len(C) : C[i][2] <= to_ns(now)
      BY <2>4, <2>6 DEF Class
    <3> HIDE DEF M, C
    <3>3. ASSUME NEW i \in 1..Len(M \o C) PROVE (M \o C)[i][2] <= to_ns(now)
      <4>1. CASE i \in 1..Len(M)
        BY <3>1, <3>2, <4>1
      <4>2. CASE i \notin 1..Len(M)
        <5>1. (M \o C)[i] = C[i - Len(M)] /\ i - Len(M) \in 1..Len(C)
          BY <3>1, <4>2
        <5> QED
          BY <3>2, <5>1
      <4> QED
        BY <4>1, <4>2
    <3>4. DOMAIN (M \o C) = 1..Len(M \o C)
      BY <3>1
    <3> QED
      BY <3>3, <3>4 DEF ToSet
  <2>9. ASSUME NEW x \in Complete(DOMAIN log \ ContentionRows),
               NEW y \in Complete(DOMAIN log \ ContentionRows), x # y
        PROVE  Apart(Bar(x), Bar(y))
    <3> DEFINE l == ServiceLog(log)
    <3>1. x \in Ended(l) /\ y \in Ended(l) /\ l[x] = log[x] /\ l[y] = log[y]
      BY <2>9 DEF Complete, Ended, ServiceLog
    <3> HIDE DEF l
    <3>2. l[x].end <= l[y].start \/ l[y].end <= l[x].start
      BY <2>1, <2>9, <3>1 DEF Rows, l
    <3> QED
      BY <3>1, <3>2 DEF Apart, Bar
  <2>w. ASSUME NEW x \in Complete(DOMAIN log \cap ContentionRows),
               NEW y \in Complete(DOMAIN log \cap ContentionRows), x # y
        PROVE  Apart(Bar(x), Bar(y))
    <3> DEFINE l == WaitLog(log)
    <3>1. x \in DOMAIN l /\ y \in DOMAIN l /\ l[x] = log[x] /\ l[y] = log[y]
      BY <2>w DEF Complete, WaitLog
    <3> HIDE DEF l
    <3>2. l[x].end <= l[y].start \/ l[y].end <= l[x].start
      BY <2>w, <3>1 DEF WaitInv, WaitRows, l
    <3> QED
      BY <3>1, <3>2 DEF Apart, Bar
  <2>10. \A c \in Class : \A i, j \in DOMAIN Service(c) : i # j => Apart(Service(c)[i], Service(c)[j])
    BY <2>5
  <2> QED
    BY <2>7, <2>8, <2>9, <2>10, <2>w DEF ServiceExclusive
<1> QED
  BY <1>1, BookInvariance, WaitInvariance, PTL
=============================================================================
