------------------------- MODULE MemWrapper_proofs --------------------------
(***************************************************************************)
(* Proofs about the DRAM wrapper for every set of requests and both timing *)
(* modes.                                                                  *)
(***************************************************************************)
EXTENDS MemClient, Subsequences_proofs, SequenceTheorems, TLAPS

\* The thread hands over every waiting request before it ticks, so that only
\* a clocked method, which also notifies it, can leave one for it.
TickTakesAll == pc = "tick" => mem_request = <<>>

Inv == TypeOK /\ OutstandingExact /\ TickTakesAll /\ NoSleepOverRequest

\* The wrapper starts with empty queues.
LEMMA InitInv == Init => Inv
<1>1. <<>> \in Seq(Requests) /\ Len(<<>>) = 0
  OBVIOUS
<1> SUFFICES ASSUME Init PROVE Inv
  OBVIOUS
<1>2. /\ peq = <<>> /\ fw_queue = <<>> /\ mem_request = <<>> /\ fast = <<>>
      /\ bridge = <<>> /\ bridge_done = <<>> /\ bw_queue = <<>> /\ bw = <<>>
      /\ due = 0 /\ m_outstanding = 0 /\ pc = "run"
      /\ memory_event = FALSE /\ active = TRUE
  BY DEF Init
<1>3. memory_event \in BOOLEAN /\ active \in BOOLEAN
  BY <1>2, Zenon
<1>4. OutstandingExact /\ due \in 0..Len(fast) /\ m_outstanding \in Nat
  BY <1>1, <1>2 DEF OutstandingExact
<1>5. TypeOK
  BY <1>1, <1>2, <1>3, <1>4 DEF TypeOK
<1>6. TickTakesAll /\ NoSleepOverRequest
  BY <1>2 DEF TickTakesAll, NoSleepOverRequest
<1> QED
  BY <1>4, <1>5, <1>6 DEF Inv

-----------------------------------------------------------------------------
(* The steps of the wrapper                                                *)

\* nb_transport_fw and the event queue change no count of the device.
LEMMA DeliveryKeepsInv ==
  ASSUME Inv, (\E r \in Requests : nb_transport_fw(r)) \/ peq_cb
  PROVE  Inv'
<1>1. CASE \E r \in Requests : nb_transport_fw(r)
  BY <1>1 DEF Inv, TypeOK, OutstandingExact, TickTakesAll, NoSleepOverRequest,
              nb_transport_fw, deviceVars
<1>2. CASE peq_cb
  <2>1. /\ peq \in Seq(Requests) /\ peq # <<>> /\ fw_queue \in Seq(Requests)
        /\ peq' = Tail(peq) /\ fw_queue' = Append(fw_queue, Head(peq))
    BY <1>2 DEF Inv, TypeOK, peq_cb
  <2>2. peq' \in Seq(Requests) /\ fw_queue' \in Seq(Requests)
    BY <2>1
  <2> QED
    BY <2>2, <1>2 DEF Inv, TypeOK, OutstandingExact, TickTakesAll, NoSleepOverRequest,
                      peq_cb, deviceVars
<1> QED
  BY <1>1, <1>2

\* The rising edge hands a request to the thread and notifies it; the falling
\* edge sends a response and counts it off.
LEMMA EdgesKeepInv ==
  ASSUME Inv, clock_posedge \/ clock_negedge
  PROVE  Inv'
<1>1. CASE clock_posedge
  <2>1. /\ fw_queue \in Seq(Requests) /\ fw_queue # <<>> /\ mem_request \in Seq(Requests)
        /\ fw_queue' = Tail(fw_queue) /\ mem_request' = Append(mem_request, Head(fw_queue))
    BY <1>1 DEF Inv, TypeOK, clock_posedge
  <2>2. fw_queue' \in Seq(Requests) /\ mem_request' \in Seq(Requests)
    BY <2>1
  <2> QED
    BY <2>2, <1>1 DEF Inv, TypeOK, OutstandingExact, TickTakesAll, NoSleepOverRequest,
                      clock_posedge, deviceVars, Yielded
<1>2. CASE clock_negedge
  <2>1. /\ bw_queue \in Seq(Requests) /\ bw_queue # <<>> /\ bw \in Seq(Requests)
        /\ bw_queue' = Tail(bw_queue) /\ bw' = Append(bw, Head(bw_queue))
        /\ m_outstanding' = m_outstanding - 1
    BY <1>2 DEF Inv, TypeOK, clock_negedge
  <2>2. /\ bw_queue' \in Seq(Requests) /\ bw' \in Seq(Requests)
        /\ Len(bw_queue') = Len(bw_queue) - 1 /\ Len(bw_queue) >= 1
    BY <2>1
  <2>3. UNCHANGED <<queueVars, fast, due, bridge, bridge_done, pc, memory_event, active>>
    BY <1>2 DEF clock_negedge
  <2>4. m_outstanding' \in Nat /\ OutstandingExact'
    BY <2>1, <2>2, <2>3 DEF Inv, TypeOK, OutstandingExact
  <2> QED
    BY <2>2, <2>3, <2>4 DEF Inv, TypeOK, TickTakesAll, NoSleepOverRequest, queueVars
<1> QED
  BY <1>1, <1>2

\* One iteration moves each waiting request into exactly one of the two
\* models, and takes from each what has completed.
LEMMA IterateKeepsInv ==
  ASSUME Inv, Iterate
  PROVE  Inv'
<1> DEFINE done     == bridge_done # <<>>
           answered == IF done /\ Answered(Head(bridge_done)) THEN <<Head(bridge_done)>>
                                                             ELSE <<>>
           dropped  == IF done /\ ~Answered(Head(bridge_done)) THEN 1 ELSE 0
           rest  == IF done THEN Tail(bridge_done) ELSE <<>>
           now   == SubSeq(fast, 1, due)
           later == SubSeq(fast, due + 1, Len(fast))
           lay   == Only(mem_request, Layers)
           det   == Only(mem_request, Detailed)
<1>1. /\ bw_queue \in Seq(Requests) /\ fast \in Seq(Requests) /\ due \in 0..Len(fast)
      /\ bridge \in Seq(Requests) /\ bridge_done \in Seq(Requests)
      /\ mem_request \in Seq(Requests) /\ m_outstanding \in Nat
      /\ m_outstanding = Len(fast) + Len(bridge) + Len(bridge_done) + Len(bw_queue)
  BY DEF Inv, TypeOK, OutstandingExact
<1>2. /\ bw_queue' = bw_queue \o now \o answered /\ bridge_done' = rest
      /\ fast' = later \o lay /\ due' = 0 /\ bridge' = bridge \o det
      /\ m_outstanding' = m_outstanding - dropped + Len(mem_request)
      /\ mem_request' = <<>> /\ pc' = "tick"
      /\ UNCHANGED <<peq, fw_queue, memory_event, bw, active>>
  BY DEF Iterate, Handed
<1>3. /\ now \in Seq(Requests) /\ Len(now) = due
      /\ later \in Seq(Requests) /\ Len(later) = Len(fast) - due
  BY <1>1, CutSeq
<1>4. /\ lay \in Seq(Requests \cap Layers) /\ det \in Seq(Requests \cap Detailed)
      /\ Len(mem_request) = Len(lay) + Len(det)
  <2>1. \A e \in Requests : e \in Detailed <=> e \notin Layers
    BY DEF Detailed, Layers
  <2> HIDE DEF lay, det
  <2> QED
    BY <2>1, <1>1, OnlyType, OnlyPartition DEF lay, det
<1>5. /\ answered \in Seq(Requests) /\ rest \in Seq(Requests) /\ dropped \in {0, 1}
      /\ Len(answered) + dropped + Len(rest) = Len(bridge_done)
  <2>1. CASE bridge_done = <<>>
    BY <2>1
  <2>2. CASE bridge_done # <<>>
    <3>1. /\ Head(bridge_done) \in Requests /\ Tail(bridge_done) \in Seq(Requests)
          /\ Len(Tail(bridge_done)) = Len(bridge_done) - 1 /\ Len(bridge_done) \in Nat
      BY <1>1, <2>2
    <3>2. CASE Answered(Head(bridge_done))
      BY <3>1, <3>2, <2>2
    <3>3. CASE ~Answered(Head(bridge_done))
      BY <3>1, <3>3, <2>2
    <3> QED
      BY <3>2, <3>3
  <2> QED
    BY <2>1, <2>2
<1> HIDE DEF answered, dropped, rest, now, later, lay, det
<1>6. lay \in Seq(Requests) /\ det \in Seq(Requests)
  BY <1>4
<1>7. /\ bw_queue' \in Seq(Requests) /\ Len(bw_queue') = Len(bw_queue) + due + Len(answered)
      /\ fast' \in Seq(Requests) /\ Len(fast') = Len(fast) - due + Len(lay)
      /\ bridge' \in Seq(Requests) /\ Len(bridge') = Len(bridge) + Len(det)
  <2>1. /\ bw_queue \o now \in Seq(Requests)
        /\ Len(bw_queue \o now) = Len(bw_queue) + due
    BY <1>1, <1>3, ConcatProperties
  <2>2. bw_queue' \in Seq(Requests) /\ Len(bw_queue') = Len(bw_queue) + due + Len(answered)
    BY <1>2, <1>5, <2>1, ConcatProperties
  <2>3. fast' \in Seq(Requests) /\ Len(fast') = Len(fast) - due + Len(lay)
    BY <1>2, <1>3, <1>6, ConcatProperties
  <2>4. bridge' \in Seq(Requests) /\ Len(bridge') = Len(bridge) + Len(det)
    BY <1>1, <1>2, <1>6, ConcatProperties
  <2> QED
    BY <2>2, <2>3, <2>4
<1>8. m_outstanding' = Len(fast') + Len(bridge') + Len(bridge_done') + Len(bw_queue')
  <2> DEFINE f == Len(fast)  b == Len(bridge)  d == Len(bridge_done)  q == Len(bw_queue)
             x == Len(lay)  y == Len(det)  a == Len(answered)  e == Len(rest)
  <2>1. /\ f \in Nat /\ b \in Nat /\ d \in Nat /\ q \in Nat /\ x \in Nat /\ y \in Nat
        /\ a \in Nat /\ e \in Nat /\ due \in Nat /\ dropped \in Nat
    BY <1>1, <1>5, <1>6
  <2>2. /\ m_outstanding' = (f + b + d + q) - dropped + (x + y)
        /\ a + dropped + e = d /\ Len(fast') = f - due + x /\ Len(bridge') = b + y
        /\ Len(bridge_done') = e /\ Len(bw_queue') = q + due + a
    BY <1>1, <1>2, <1>4, <1>5, <1>7
  <2> HIDE DEF f, b, d, q, x, y, a, e
  <2> QED
    BY <2>1, <2>2
<1>9. m_outstanding' \in Nat /\ due' \in 0..Len(fast') /\ bridge_done' \in Seq(Requests)
  <2>1. bridge_done' \in Seq(Requests)
    BY <1>2, <1>5
  <2>2. /\ Len(fast') \in Nat /\ Len(bridge') \in Nat /\ Len(bridge_done') \in Nat
        /\ Len(bw_queue') \in Nat
    BY <1>7, <2>1, LenProperties
  <2> QED
    BY <1>2, <1>8, <2>1, <2>2
<1> QED
  BY <1>2, <1>7, <1>8, <1>9
     DEF Inv, TypeOK, OutstandingExact, TickTakesAll, NoSleepOverRequest

\* A completion of DRAMsim3 moves one request, wherever in its queues it was.
LEMMA BridgeKeepsInv ==
  ASSUME Inv, NEW i \in 1..Len(bridge), BridgeCallBack(i)
  PROVE  Inv'
<1> DEFINE front == SubSeq(bridge, 1, i - 1)  back == SubSeq(bridge, i + 1, Len(bridge))
<1>1. /\ bridge \in Seq(Requests) /\ bridge_done \in Seq(Requests)
      /\ bridge' = front \o back /\ bridge_done' = Append(bridge_done, bridge[i])
      /\ UNCHANGED <<queueVars, fast, due, bw_queue, m_outstanding, pc, memory_event,
                     bw, active>>
  BY DEF Inv, TypeOK, BridgeCallBack
<1>2. /\ front \in Seq(Requests) /\ Len(front) = i - 1
      /\ back \in Seq(Requests) /\ Len(back) = Len(bridge) - i
  BY <1>1, CutSeq
<1> HIDE DEF front, back
<1>3. /\ bridge' \in Seq(Requests) /\ Len(bridge') = Len(bridge) - 1
      /\ bridge_done' \in Seq(Requests) /\ Len(bridge_done') = Len(bridge_done) + 1
  <2>1. bridge' \in Seq(Requests) /\ Len(bridge') = Len(front) + Len(back)
    BY <1>1, <1>2, ConcatProperties
  <2>2. bridge_done' \in Seq(Requests) /\ Len(bridge_done') = Len(bridge_done) + 1
    BY <1>1, ElementOfSeq, AppendProperties
  <2> QED
    BY <1>1, <1>2, <2>1, <2>2
<1> QED
  BY <1>1, <1>3 DEF Inv, TypeOK, OutstandingExact, TickTakesAll, NoSleepOverRequest,
                    queueVars

\* The end of an iteration, the end of its wait and the event change no queue.
LEMMA ThreadKeepsInv ==
  ASSUME Inv, EndIteration \/ Timeout \/ DeliverMemoryEvent \/ Elapse
  PROVE  Inv'
<1>1. CASE EndIteration
  BY <1>1 DEF Inv, TypeOK, OutstandingExact, TickTakesAll, NoSleepOverRequest,
              EndIteration, queueVars, deviceVars
<1>2. CASE Timeout
  BY <1>2 DEF Inv, TypeOK, OutstandingExact, TickTakesAll, NoSleepOverRequest,
              Timeout, queueVars, deviceVars
<1>3. CASE DeliverMemoryEvent
  BY <1>3 DEF Inv, TypeOK, OutstandingExact, TickTakesAll, NoSleepOverRequest,
              DeliverMemoryEvent, queueVars, deviceVars
<1>4. CASE Elapse
  BY <1>4 DEF Inv, TypeOK, OutstandingExact, TickTakesAll, NoSleepOverRequest,
              Elapse, queueVars
<1> QED
  BY <1>1, <1>2, <1>3, <1>4

-----------------------------------------------------------------------------
(* The wrapper under its clients                                           *)

\* Every step of the wrapper, its interconnect and its clients preserves the
\* invariant.
LEMMA NextInv == Inv /\ [ClientNext]_clientVars => Inv'
<1> SUFFICES ASSUME Inv, [ClientNext]_clientVars PROVE Inv'
  OBVIOUS
<1>1. CASE Deliver
  BY <1>1, DeliveryKeepsInv DEF Deliver
<1>2. CASE TakeResponse
  <2>1. bw' \in Seq(Requests)
    BY <1>2 DEF Inv, TypeOK, TakeResponse
  <2> QED
    BY <2>1, <1>2 DEF Inv, TypeOK, OutstandingExact, TickTakesAll, NoSleepOverRequest,
                      TakeResponse, queueVars, deviceVars
<1>3. CASE Stop
  BY <1>3 DEF Inv, TypeOK, OutstandingExact, TickTakesAll, NoSleepOverRequest,
              Stop, queueVars, deviceVars
<1>4. CASE Run
  BY <1>4, IterateKeepsInv, BridgeKeepsInv, ThreadKeepsInv DEF Run
<1>5. CASE Delta
  BY <1>5, DeliveryKeepsInv, ThreadKeepsInv DEF Delta
<1>6. CASE Timed
  BY <1>6, EdgesKeepInv, ThreadKeepsInv DEF Timed
<1>7. CASE UNCHANGED clientVars
  BY <1>7 DEF Inv, TypeOK, OutstandingExact, TickTakesAll, NoSleepOverRequest,
              clientVars, vars, queueVars, deviceVars
<1> QED
  BY <1>1, <1>2, <1>3, <1>4, <1>5, <1>6, <1>7 DEF ClientNext, Clients

\* The inductive invariant holds of every behaviour.
LEMMA Invariance == ClientSpec => []Inv
<1>1. ClientInit => Inv
  BY InitInv DEF ClientInit
<1> QED
  BY <1>1, NextInv, PTL DEF ClientSpec

\* The queues hold requests, and m_outstanding never wraps below zero.
THEOREM MemTypes == ClientSpec => []TypeOK
<1>1. Inv => TypeOK
  BY DEF Inv
<1> QED
  BY <1>1, Invariance, PTL

\* m_outstanding counts exactly the requests the device holds, whatever is
\* answered, dropped or delayed.
THEOREM OutstandingIsExact == ClientSpec => []OutstandingExact
<1>1. Inv => OutstandingExact
  BY DEF Inv
<1> QED
  BY <1>1, Invariance, PTL

\* The thread never sleeps over a request without an event on its way.
THEOREM SleeperIsNotified == ClientSpec => []NoSleepOverRequest
<1>1. Inv => NoSleepOverRequest
  BY DEF Inv
<1> QED
  BY <1>1, Invariance, PTL

-----------------------------------------------------------------------------
(* The requests the wrapper holds                                          *)

\* Requests that have arrived and are not yet answered.
Backlog == Len(peq) + Len(fw_queue) + Len(mem_request) + m_outstanding

AllAnswered == \A r \in Requests : Answered(r)

\* The backlog is a natural number.
LEMMA BacklogNat ==
  ASSUME TypeOK
  PROVE  /\ Len(peq) \in Nat /\ Len(fw_queue) \in Nat /\ Len(mem_request) \in Nat
         /\ m_outstanding \in Nat /\ Len(bw) \in Nat /\ Backlog \in Nat
<1> DEFINE a == Len(peq)  b == Len(fw_queue)  c == Len(mem_request)
<1>1. a \in Nat /\ b \in Nat /\ c \in Nat /\ m_outstanding \in Nat /\ Len(bw) \in Nat
  BY DEF TypeOK
<1>2. a + b + c + m_outstanding \in Nat
  <2> HIDE DEF a, b, c
  <2> QED
    BY <1>1
<1> QED
  BY <1>1, <1>2 DEF Backlog

\* If every request is answered, a request leaves the wrapper only with its
\* response: what the backlog loses the interconnect gets.
LEMMA BacklogStep ==
  ASSUME Inv, AllAnswered, Run \/ Delta \/ Timed
  PROVE  Backlog' + Len(bw') = Backlog + Len(bw)
<1> DEFINE a == Len(peq)  b == Len(fw_queue)  c == Len(mem_request)  n == Len(bw)
<1>0. TypeOK
  BY DEF Inv
<1>1. a \in Nat /\ b \in Nat /\ c \in Nat /\ m_outstanding \in Nat /\ n \in Nat
  BY <1>0, BacklogNat
<1>2. Backlog = a + b + c + m_outstanding /\ Backlog' = a' + b' + c' + m_outstanding'
  BY DEF Backlog
<1>3. CASE Iterate
  <2>1. bridge_done # <<>> => Answered(Head(bridge_done))
    BY <1>0 DEF TypeOK, AllAnswered
  <2>2. /\ m_outstanding' = m_outstanding - 0 + c /\ mem_request' = <<>>
        /\ UNCHANGED <<peq, fw_queue, bw>>
    BY <1>3, <2>1 DEF Iterate, Handed
  <2>3. a' = a /\ b' = b /\ c' = 0 /\ Len(bw') = n
    BY <2>2
  <2> HIDE DEF a, b, c, n
  <2>4. a' + b' + c' + m_outstanding' + Len(bw') = a + b + c + m_outstanding + n
    BY <1>1, <2>2, <2>3
  <2> QED
    BY <1>2, <2>4 DEF n
<1>4. CASE peq_cb
  <2>1. /\ peq \in Seq(Requests) /\ peq # <<>> /\ fw_queue \in Seq(Requests)
        /\ peq' = Tail(peq) /\ fw_queue' = Append(fw_queue, Head(peq))
        /\ UNCHANGED <<mem_request, m_outstanding, bw>>
    BY <1>0, <1>4 DEF peq_cb, TypeOK, deviceVars
  <2>2. a' = a - 1 /\ b' = b + 1 /\ c' = c /\ Len(bw') = n
    BY <2>1
  <2> HIDE DEF a, b, c, n
  <2>3. a' + b' + c' + m_outstanding' + Len(bw') = a + b + c + m_outstanding + n
    BY <1>1, <2>1, <2>2
  <2> QED
    BY <1>2, <2>3 DEF n
<1>5. CASE clock_posedge
  <2>1. /\ fw_queue \in Seq(Requests) /\ fw_queue # <<>> /\ mem_request \in Seq(Requests)
        /\ fw_queue' = Tail(fw_queue) /\ mem_request' = Append(mem_request, Head(fw_queue))
        /\ UNCHANGED <<peq, m_outstanding, bw>>
    BY <1>0, <1>5 DEF clock_posedge, TypeOK, deviceVars
  <2>2. a' = a /\ b' = b - 1 /\ c' = c + 1 /\ Len(bw') = n
    BY <2>1
  <2> HIDE DEF a, b, c, n
  <2>3. a' + b' + c' + m_outstanding' + Len(bw') = a + b + c + m_outstanding + n
    BY <1>1, <2>1, <2>2
  <2> QED
    BY <1>2, <2>3 DEF n
<1>6. CASE clock_negedge
  <2>1. /\ bw_queue \in Seq(Requests) /\ bw_queue # <<>> /\ bw \in Seq(Requests)
        /\ bw' = Append(bw, Head(bw_queue)) /\ m_outstanding' = m_outstanding - 1
        /\ UNCHANGED <<peq, fw_queue, mem_request>>
    BY <1>0, <1>6 DEF clock_negedge, TypeOK, queueVars
  <2>2. a' = a /\ b' = b /\ c' = c /\ Len(bw') = n + 1
    BY <2>1
  <2> HIDE DEF a, b, c, n
  <2>3. a' + b' + c' + m_outstanding' + Len(bw') = a + b + c + m_outstanding + n
    BY <1>1, <2>1, <2>2
  <2> QED
    BY <1>2, <2>3 DEF n
<1>7. CASE \/ EndIteration \/ Timeout \/ DeliverMemoryEvent \/ Elapse
           \/ \E i \in 1..Len(bridge) : BridgeCallBack(i)
  <2>1. UNCHANGED <<peq, fw_queue, mem_request, m_outstanding, bw>>
    BY <1>7 DEF EndIteration, Timeout, DeliverMemoryEvent, Elapse, BridgeCallBack,
                queueVars, deviceVars
  <2> QED
    BY <2>1 DEF Backlog
<1> QED
  BY <1>3, <1>4, <1>5, <1>6, <1>7 DEF Run, Delta, Timed

\* Every transaction in the wrapper.
Content ==
  peq \o fw_queue \o mem_request \o fast \o bridge \o bridge_done \o bw_queue

\* The backlog is their number.
LEMMA ContentLength ==
  ASSUME Inv
  PROVE  Content \in Seq(Requests) /\ Len(Content) = Backlog
<1>1. /\ peq \in Seq(Requests) /\ fw_queue \in Seq(Requests) /\ mem_request \in Seq(Requests)
      /\ fast \in Seq(Requests) /\ bridge \in Seq(Requests) /\ bridge_done \in Seq(Requests)
      /\ bw_queue \in Seq(Requests)
  BY DEF Inv, TypeOK
<1> DEFINE s1 == peq \o fw_queue  s2 == s1 \o mem_request  s3 == s2 \o fast
           s4 == s3 \o bridge  s5 == s4 \o bridge_done  s6 == s5 \o bw_queue
<1>2. s1 \in Seq(Requests) /\ Len(s1) = Len(peq) + Len(fw_queue)
  BY <1>1, ConcatProperties
<1> HIDE DEF s1
<1>3. s2 \in Seq(Requests) /\ Len(s2) = Len(s1) + Len(mem_request)
  BY <1>1, <1>2, ConcatProperties
<1> HIDE DEF s2
<1>4. s3 \in Seq(Requests) /\ Len(s3) = Len(s2) + Len(fast)
  BY <1>1, <1>3, ConcatProperties
<1> HIDE DEF s3
<1>5. s4 \in Seq(Requests) /\ Len(s4) = Len(s3) + Len(bridge)
  BY <1>1, <1>4, ConcatProperties
<1> HIDE DEF s4
<1>6. s5 \in Seq(Requests) /\ Len(s5) = Len(s4) + Len(bridge_done)
  BY <1>1, <1>5, ConcatProperties
<1> HIDE DEF s5
<1>7. s6 \in Seq(Requests) /\ Len(s6) = Len(s5) + Len(bw_queue)
  BY <1>1, <1>6, ConcatProperties
<1> HIDE DEF s6
<1>8. Content = s6
  BY DEF Content, s1, s2, s3, s4, s5, s6
<1> DEFINE a == Len(peq)  b == Len(fw_queue)  c == Len(mem_request)  f == Len(fast)
           g == Len(bridge)  h == Len(bridge_done)  k == Len(bw_queue)
<1>9. /\ a \in Nat /\ b \in Nat /\ c \in Nat /\ f \in Nat /\ g \in Nat /\ h \in Nat
      /\ k \in Nat /\ Len(s6) = a + b + c + f + g + h + k
      /\ Backlog = a + b + c + (f + g + h + k)
  BY <1>1, <1>2, <1>3, <1>4, <1>5, <1>6, <1>7, LenProperties
     DEF Backlog, Inv, OutstandingExact
<1> HIDE DEF a, b, c, f, g, h, k
<1>10. Len(s6) = Backlog
  BY <1>9
<1> QED
  BY <1>7, <1>8, <1>10
=============================================================================
