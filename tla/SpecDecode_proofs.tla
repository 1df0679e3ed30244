------------------------- MODULE SpecDecode_proofs --------------------------
(***************************************************************************)
(* Proofs about the whole simulator for every configuration, layer profile *)
(* and control trace.  The two memories come with the invariants proved of *)
(* them under arbitrary clients.                                           *)
(***************************************************************************)
EXTENDS SpecDecode, Subsequences_proofs, TLAPS

\* The proofs about a memory alone also keep the set of requests its client has
\* sent; nothing here depends on it.
PW == INSTANCE PimWrapper_proofs WITH
  peq <- pim_peq, fast <- pim_fast, due <- pim_due, bridge <- pim_bridge,
  bridge_done <- pim_bridge_done, pc <- pim_pc, bw <- arb_peq_bw, active <- Active,
  sent <- {}

MW == INSTANCE MemWrapper_proofs WITH
  Requests <- Transfers,
  peq <- mem_peq, fw_queue <- mem_fw, fast <- mem_fast, due <- mem_due,
  bridge <- mem_bridge, bridge_done <- mem_bridge_done, bw_queue <- mem_bw,
  pc <- mem_pc, bw <- arb_peq_bw, active <- Active, sent <- {}

\* The devices' proofs speak of the same subsequences.
LEMMA SameOnly ==
  \A s, S : /\ MEM!Only(s, S) = Only(s, S) /\ MW!Only(s, S) = Only(s, S)
            /\ PW!Only(s, S) = Only(s, S)
BY DEF MEM!Only, MW!Only, PW!Only, Only

\* The proofs of the PIM wrapper speak of the same steps.
LEMMA SamePIM ==
  /\ PIM!Run <=> PW!Run
  /\ PIM!Delta <=> PW!Delta
  /\ PIM!Timed <=> PW!Timed
  /\ \A r : PIM!nb_transport_fw(r) <=> PW!nb_transport_fw(r)
<1>1. (PIM!Idle <=> PW!Idle) /\ (PIM!Block <=> PW!Block)
  BY DEF PIM!Idle, PW!Idle, PIM!Block, PW!Block, PIM!Collect, PW!Collect,
     PIM!Collected, PW!Collected, PIM!Class, PW!Class, PIM!ClassOf, PW!ClassOf,
     PIM!Undue, PW!Undue, PIM!Process, PW!Process, PIM!Other, PW!Other,
     PIM!eventVars, PW!eventVars, PIM!outVars, PW!outVars
<1>2. PIM!Dispatch <=> PW!Dispatch
  BY DEF PIM!Dispatch, PW!Dispatch, PIM!Collect, PW!Collect, PIM!Collected,
     PW!Collected, PIM!Class, PW!Class, PIM!ClassOf, PW!ClassOf, PIM!Undue,
     PW!Undue, PIM!Process, PW!Process, PIM!Other, PW!Other,
     PIM!send_transaction, PW!send_transaction, PIM!Analytical, PW!Analytical,
     PIM!eventVars, PW!eventVars, PIM!outVars, PW!outVars
<1>3. PIM!BeginModeTransition <=> PW!BeginModeTransition
  BY DEF PIM!BeginModeTransition, PW!BeginModeTransition, PIM!Collect, PW!Collect,
     PIM!Collected, PW!Collected, PIM!Class, PW!Class, PIM!ClassOf, PW!ClassOf,
     PIM!Undue, PW!Undue, PIM!Process, PW!Process, PIM!Other, PW!Other,
     PIM!eventVars, PW!eventVars, PIM!outVars, PW!outVars
<1>4. PIM!EndModeTransition <=> PW!EndModeTransition
  BY DEF PIM!EndModeTransition, PW!EndModeTransition, PIM!DeltaPending,
     PW!DeltaPending, PIM!send_transaction, PW!send_transaction, PIM!ClassOf,
     PW!ClassOf, PIM!Analytical, PW!Analytical, PIM!eventVars, PW!eventVars,
     PIM!outVars, PW!outVars
<1>5. /\ PIM!BridgeComputeDone <=> PW!BridgeComputeDone
      /\ PIM!EndIteration <=> PW!EndIteration
      /\ PIM!Timeout <=> PW!Timeout
  BY DEF PIM!BridgeComputeDone, PW!BridgeComputeDone, PIM!EndIteration,
     PW!EndIteration, PIM!Timeout, PW!Timeout, PIM!MaySleep, PW!MaySleep,
     PIM!DeltaPending, PW!DeltaPending, PIM!deviceVars, PW!deviceVars,
     PIM!threadVars, PW!threadVars, PIM!eventVars, PW!eventVars, PIM!outVars,
     PW!outVars
<1>6. ASSUME NEW i PROVE PIM!BridgeCallBack(i) <=> PW!BridgeCallBack(i)
  BY DEF PIM!BridgeCallBack, PW!BridgeCallBack, PIM!threadVars, PW!threadVars,
     PIM!eventVars, PW!eventVars, PIM!outVars, PW!outVars
<1>7. PIM!Delta <=> PW!Delta
  BY DEF PIM!Delta, PW!Delta, PIM!peq_cb, PW!peq_cb, PIM!DeliverPendingEvent,
     PW!DeliverPendingEvent, PIM!DeliverResourceEvent, PW!DeliverResourceEvent,
     PIM!Wake, PW!Wake, PIM!Yielded, PW!Yielded, PIM!deviceVars, PW!deviceVars,
     PIM!threadVars, PW!threadVars, PIM!eventVars, PW!eventVars, PIM!outVars,
     PW!outVars
<1>8. (PIM!clock_posedge <=> PW!clock_posedge) /\ (PIM!clock_negedge <=> PW!clock_negedge)
  BY DEF PIM!clock_posedge, PW!clock_posedge, PIM!clock_negedge, PW!clock_negedge,
     PIM!Release, PW!Release, PIM!Answered, PW!Answered, PIM!Yielded,
     PW!Yielded, PIM!threadVars, PW!threadVars, PIM!eventVars, PW!eventVars,
     PIM!outVars, PW!outVars
<1>9. ASSUME NEW c PROVE PIM!Elapse(c) <=> PW!Elapse(c)
  BY DEF PIM!Elapse, PW!Elapse, PIM!Yielded, PW!Yielded, PIM!threadVars,
     PW!threadVars, PIM!eventVars, PW!eventVars, PIM!outVars, PW!outVars,
     PIM!Class, PW!Class
<1>10. ASSUME NEW r PROVE PIM!nb_transport_fw(r) <=> PW!nb_transport_fw(r)
  BY DEF PIM!nb_transport_fw, PW!nb_transport_fw, PIM!Yielded, PW!Yielded,
     PIM!deviceVars, PW!deviceVars, PIM!threadVars, PW!threadVars,
     PIM!eventVars, PW!eventVars, PIM!outVars, PW!outVars
<1>11. PIM!Run <=> PW!Run
  BY <1>1, <1>2, <1>3, <1>5, <1>6 DEF PIM!Run, PW!Run
<1>12. PIM!Timed <=> PW!Timed
  BY <1>4, <1>5, <1>8, <1>9 DEF PIM!Timed, PW!Timed, PIM!Class, PW!Class
<1> QED
  BY <1>7, <1>10, <1>11, <1>12

\* The proofs of the MEM wrapper speak of the same steps.
LEMMA SameMEM ==
  /\ MEM!Run <=> MW!Run
  /\ MEM!Delta <=> MW!Delta
  /\ MEM!Timed <=> MW!Timed
  /\ \A r : MEM!nb_transport_fw(r) <=> MW!nb_transport_fw(r)
<1>1. ASSUME NEW r PROVE MEM!nb_transport_fw(r) <=> MW!nb_transport_fw(r)
  BY DEF MEM!nb_transport_fw, MW!nb_transport_fw, MEM!Yielded, MW!Yielded,
     MEM!deviceVars, MW!deviceVars
<1>2. MEM!Delta <=> MW!Delta
  BY DEF MEM!Delta, MW!Delta, MEM!peq_cb, MW!peq_cb, MEM!DeliverMemoryEvent,
     MW!DeliverMemoryEvent, MEM!Yielded, MW!Yielded, MEM!deviceVars,
     MW!deviceVars, MEM!queueVars, MW!queueVars
<1>3. /\ MEM!clock_posedge <=> MW!clock_posedge
      /\ MEM!clock_negedge <=> MW!clock_negedge
      /\ MEM!Timeout <=> MW!Timeout
      /\ MEM!Elapse <=> MW!Elapse
  BY DEF MEM!clock_posedge, MW!clock_posedge, MEM!clock_negedge, MW!clock_negedge,
     MEM!Timeout, MW!Timeout, MEM!Elapse, MW!Elapse, MEM!Yielded, MW!Yielded,
     MEM!DeltaPending, MW!DeltaPending, MEM!deviceVars, MW!deviceVars,
     MEM!queueVars, MW!queueVars
<1>4. MEM!Iterate <=> MW!Iterate
  <2>1. MEM!Layers = MW!Layers /\ MEM!Detailed = MW!Detailed
    BY DEF MEM!Layers, MW!Layers, MEM!Detailed, MW!Detailed, MEM!Macro, MW!Macro
  <2>2. \A r : MEM!Answered(r) <=> MW!Answered(r)
    BY DEF MEM!Answered, MW!Answered
  <2>3. MEM!Handed = MW!Handed
    BY DEF MEM!Handed, MW!Handed
  <2> QED
    BY <2>1, <2>2, <2>3, SameOnly DEF MEM!Iterate, MW!Iterate
<1>5. ASSUME NEW i PROVE MEM!BridgeCallBack(i) <=> MW!BridgeCallBack(i)
  BY DEF MEM!BridgeCallBack, MW!BridgeCallBack, MEM!queueVars, MW!queueVars
<1>6. MEM!EndIteration <=> MW!EndIteration
  BY DEF MEM!EndIteration, MW!EndIteration, MEM!queueVars, MW!queueVars,
     MEM!deviceVars, MW!deviceVars
<1>7. MEM!Run <=> MW!Run
  BY <1>4, <1>5, <1>6 DEF MEM!Run, MW!Run
<1>8. MEM!Timed <=> MW!Timed
  BY <1>3 DEF MEM!Timed, MW!Timed
<1> QED
  BY <1>1, <1>2, <1>7, <1>8

-----------------------------------------------------------------------------
(* The invariant                                                           *)

Starts == {HOST!Start(e) : e \in 1..Len(Controls)}
Args == [context : Nat, query : Nat, kv_write : Nat]

\* A step of the target's trace; a transfer has at least one burst.
Steps == {s \in [op : {"READ", "WRITE", "COMPUTE"}, n : Nat] :
            s.op = "COMPUTE" \/ s.n > 0}

\* The arbiter's queues: a draft command goes to the PIM, a transfer to the
\* DRAM if there is one, and only transfers are answered.
Hops == {p \in Requests \X {"DRAM", "PIM"} :
           p[2] = "PIM" \/ (p[1] \in Transfers /\ DramEnabled)}
Returns == Transfers \X {"NPU"}

Types ==
  /\ episode \in 0..Len(Controls) /\ pending_q \in Seq(Starts \cup Drafts)
  /\ host_pc \in {"launch", "barrier", "trace", "stopping"}
  /\ got \in SUBSET {"pim", "npu"}
  /\ active_host \in {0, 1} /\ stopped \in BOOLEAN
  /\ npu_peq_fw \in Seq(Args) /\ npu_peq_bw \in Seq(Transfers)
  /\ start_event \in BOOLEAN /\ response_event \in BOOLEAN /\ npu_done \in BOOLEAN
  /\ args \in Args /\ npu_pc \in {"idle", "go", "wait", "resume", "compute"}
  /\ program \in Seq(Steps) /\ remaining \in Nat /\ pending_responses \in Nat
  /\ active_core \in {0, 1}
  /\ arb_peq_fw \in Seq(Requests) /\ arb_fw \in Seq(Hops)
  /\ arb_peq_bw \in Seq(Transfers) /\ arb_bw \in Seq(Returns)

\* The memories keep the invariants proved of them alone.
PimOK == PW!IInv /\ PW!Route /\ PW!Sorted
MemOK ==
  IF DramEnabled THEN MW!Inv
  ELSE /\ mem_peq = <<>> /\ mem_fw = <<>> /\ mem_request = <<>> /\ mem_fast = <<>>
       /\ mem_bridge = <<>> /\ mem_bridge_done = <<>> /\ mem_bw = <<>>
       /\ m_outstanding = 0 /\ mem_pc = "absent" /\ ~memory_event

\* Where the NPU's requests are.
Sent == Len(Only(arb_peq_fw, Transfers)) + Len(Only(First(arb_fw), Transfers))
Returned == Len(arb_peq_bw) + Len(arb_bw) + Len(npu_peq_bw)

Flow == pending_responses = Sent + PW!Backlog + MW!Backlog + Returned

\* What the NPU thread knows at each of its waits.
Thread ==
  /\ npu_pc \in {"idle", "go", "compute"} => pending_responses = 0
  /\ pending_responses <= Window
  /\ npu_pc = "resume" \/ response_event => pending_responses < Window
  /\ Len(npu_peq_bw) <= 1
  /\ npu_peq_bw # <<>> => npu_pc = "wait" /\ ~response_event
  /\ response_event => npu_pc = "wait"
  /\ npu_pc \in {"wait", "resume"} => program # <<>> /\ Head(program).op # "COMPUTE"
  /\ npu_pc = "compute" => program # <<>>

\* The target's side of an episode is in exactly one place.
One(b) == IF b THEN 1 ELSE 0
Target ==
  Len(Only(pending_q, Starts)) + Len(npu_peq_fw) + One(start_event)
    + One(npu_pc # "idle") + One(npu_done) + One("npu" \in got)
  = One(host_pc = "barrier")

\* The draft's commands that have not retired, oldest first.
DraftLine ==
  ((PW!ComputeLine \o Only(First(arb_fw), Drafts)) \o Only(arb_peq_fw, Drafts))
    \o Only(pending_q, Drafts)

\* The draft's side: the line ends with the command marked last, and the
\* episode's draft is over exactly when it is empty.
LastAtEnd(s) == \A i \in 1..Len(s) : s[i].last <=> i = Len(s)
Draft ==
  /\ LastAtEnd(DraftLine)
  /\ One(DraftLine # <<>>) + One(trace_done) + One("pim" \in got)
       = One(host_pc = "barrier")

\* The end of the simulation.
Ending ==
  /\ host_pc = "launch" => episode < Len(Controls)
  /\ host_pc \in {"trace", "stopping"} => episode = Len(Controls)
  /\ active_host = 0 <=> host_pc = "stopping"
  /\ pim_pc = "done" \/ mem_pc = "done" => host_pc = "stopping"
  /\ stopped => host_pc = "stopping"

Inv == Types /\ PimOK /\ MemOK /\ Flow /\ Thread /\ Target /\ Draft /\ Ending

-----------------------------------------------------------------------------
(* The constants                                                           *)

\* A control record.
LEMMA Records ==
  ASSUME NEW e \in 1..Len(Controls)
  PROVE  Controls[e] \in [args : Args, draft : Seq(Commands)]
<1> DEFINE R == [args : Args, draft : Seq(Commands)]
<1>1. Controls \in Seq(R)
  BY ControlsAssumption, Zenon DEF Args
<1> HIDE DEF R
<1>2. Controls[e] \in R
  BY <1>1
<1> QED
  BY <1>2 DEF R

\* What the Host and the NPU send.
LEMMA Kinds ==
  /\ Drafts \subseteq Commands
  /\ \A t \in Transfers : /\ t.cmd \in {"READ", "WRITE"} /\ t.src = "NPU"
                          /\ t.dst = (IF DramEnabled THEN "DRAM" ELSE "PIM")
                          /\ t.macro \in BOOLEAN /\ t.last = FALSE
  /\ \A d \in Drafts : /\ d.cmd = "PIM" /\ d.src = "HOST" /\ d.dst = "PIM"
                       /\ d.macro \in BOOLEAN /\ d.last \in BOOLEAN
  /\ \A t \in Starts : t.dst = "NPU" /\ t.args \in Args
  /\ \A c \in {"READ", "WRITE"} : NPU!Request(c) \in Transfers
<1>1. Drafts \subseteq Commands
  <2> SUFFICES ASSUME NEW e \in 1..Len(Controls), NEW i \in 1..Len(Controls[e].draft)
               PROVE  Controls[e].draft[i] \in Commands
    BY DEF Drafts
  <2>1. Controls[e].draft \in Seq(Commands)
    BY Records
  <2> QED
    BY <2>1
<1>2. \A d \in Commands : /\ d.cmd = "PIM" /\ d.src = "HOST" /\ d.dst = "PIM"
                          /\ d.macro \in BOOLEAN /\ d.last \in BOOLEAN
  BY DEF Commands
<1>3. \A t \in Transfers : /\ t.cmd \in {"READ", "WRITE"} /\ t.src = "NPU"
                           /\ t.dst = (IF DramEnabled THEN "DRAM" ELSE "PIM")
                           /\ t.macro \in BOOLEAN /\ t.last = FALSE
  BY MachineAssumption DEF Transfers, NPU!Request
<1>4. \A t \in Starts : t.dst = "NPU" /\ t.args \in Args
  <2> SUFFICES ASSUME NEW e \in 1..Len(Controls)
               PROVE  HOST!Start(e).dst = "NPU" /\ HOST!Start(e).args \in Args
    BY DEF Starts
  <2>1. Controls[e] \in [args : Args, draft : Seq(Commands)]
    BY Records
  <2> QED
    BY <2>1 DEF HOST!Start
<1>5. \A c \in {"READ", "WRITE"} : NPU!Request(c) \in Transfers
  BY DEF Transfers
<1> QED
  BY <1>1, <1>2, <1>3, <1>4, <1>5

\* Commands, transfers and start requests do not overlap.
LEMMA Apart ==
  /\ \A r \in Requests : r \in Drafts <=> r \notin Transfers
  /\ \A t \in Starts \cup Drafts : t \in Starts <=> t \notin Drafts
  /\ \A t \in Starts \cup Drafts : IsDraft(t) <=> t \in Drafts
  /\ \A r \in Requests : (r.src = "NPU" <=> r \in Transfers) /\ (r.cmd = "PIM" <=> r \in Drafts)
BY Kinds DEF Requests, IsDraft

\* What the proofs about the memories assume of their clients.
LEMMA PimClient ==
  /\ PW!ModeAssumption /\ PW!RequestsAssumption
  /\ PW!OfClass("memory") = Transfers /\ PW!Commands = Drafts
  /\ PW!UniformDraft /\ PW!AllAnswered
<1>1. PW!ModeAssumption
  BY MachineAssumption DEF PW!ModeAssumption, FastLayerMode
<1>2. PW!RequestsAssumption
  BY Kinds DEF PW!RequestsAssumption, Requests
<1>3. \A t \in Transfers : PW!ClassOf(t) = "memory"
  BY Kinds DEF PW!ClassOf
<1>4. \A d \in Drafts : PW!ClassOf(d) = "compute"
  BY Kinds DEF PW!ClassOf
<1>5. PW!OfClass("memory") = Transfers /\ PW!Commands = Drafts
  BY <1>3, <1>4 DEF PW!OfClass, PW!Commands, Requests
<1>6. PW!AllAnswered
  BY <1>5, Kinds DEF PW!AllAnswered, PW!Answered
<1>7. PW!UniformDraft
  <2>1. PICK m \in BOOLEAN :
          \A e \in 1..Len(Controls) : \A i \in 1..Len(Controls[e].draft) :
            Controls[e].draft[i].macro = m
    BY ControlsAssumption, Zenon
  <2>2. \A d \in Drafts : d.macro = m
    BY <2>1 DEF Drafts
  <2> QED
    BY <1>5, <2>2 DEF PW!UniformDraft
<1> QED
  BY <1>1, <1>2, <1>5, <1>6, <1>7

\* The same for the DRAM.
LEMMA MemClient == MW!MemRequestsAssumption /\ MW!AllAnswered
BY MachineAssumption, Kinds
   DEF MW!MemRequestsAssumption, MW!AllAnswered, MW!Answered, FastLayerMode

-----------------------------------------------------------------------------
(* The memories                                                            *)

\* A step of the PIM wrapper: no request of the NPU appears or disappears, and
\* the draft's line changes only when its first command retires.
LEMMA PimServes ==
  ASSUME PimOK, arb_peq_bw \in Seq(Transfers), PIM!Run \/ PIM!Delta \/ PIM!Timed
  PROVE  /\ PimOK' /\ arb_peq_bw' \in Seq(Transfers)
         /\ PW!Backlog' + Len(arb_peq_bw') = PW!Backlog + Len(arb_peq_bw)
         /\ \/ PW!ComputeLine' = PW!ComputeLine /\ trace_done' = trace_done
            \/ /\ PW!ComputeLine # <<>> /\ PW!ComputeLine' = Tail(PW!ComputeLine)
               /\ trace_done' = (trace_done \/ Head(PW!ComputeLine).last)
         /\ pim_pc' = "done" => pim_pc = "done" \/ ~Active
<1>1. PW!Step
  BY SamePIM DEF PW!Step
<1>2. PW!IInv' /\ PW!Route'
  <2>1. [PW!ClientNext]_(PW!clientVars)
    BY <1>1 DEF PW!ClientNext
  <2> QED
    BY <2>1, PimClient, PW!ClientNextStep, PW!RouteStep DEF PimOK
<1>3. PW!Sorted'
  BY <1>1, PimClient, PW!SortedStep DEF PimOK
<1>4. /\ arb_peq_bw' \in Seq(Transfers)
      /\ PW!Backlog' + Len(arb_peq_bw') = PW!Backlog + Len(arb_peq_bw)
  BY <1>1, PimClient, PW!BacklogStep DEF PimOK
<1>5. CASE PW!clock_negedge
  <2>1. /\ PW!ComputeLine # <<>> /\ PW!ComputeLine' = Tail(PW!ComputeLine)
        /\ Head(PW!ComputeLine) = Head(completed["compute"])
    BY <1>5, PimClient, PW!RetireLine DEF PimOK
  <2>2. trace_done' = (trace_done \/ Head(completed["compute"]).last) /\ pim_pc' = pim_pc
    BY <1>5 DEF PW!clock_negedge, PW!threadVars
  <2> QED
    BY <1>2, <1>3, <1>4, <2>1, <2>2 DEF PimOK
<1>6. CASE ~PW!clock_negedge
  <2>1. PW!ComputeLine' = PW!ComputeLine
    BY <1>1, <1>6, PimClient, PW!StepLine DEF PimOK
  <2>2. trace_done' = trace_done /\ (pim_pc' = "done" => pim_pc = "done" \/ ~Active)
    BY <1>1, <1>6 DEF PW!Step, PW!Run, PW!Delta, PW!Timed, PW!Idle, PW!Block, PW!Dispatch,
       PW!BeginModeTransition, PW!BridgeCallBack, PW!BridgeComputeDone, PW!EndIteration,
       PW!peq_cb, PW!DeliverPendingEvent, PW!DeliverResourceEvent, PW!clock_posedge,
       PW!EndModeTransition, PW!Timeout, PW!Elapse, PW!Wake, PW!outVars, PW!threadVars
  <2> QED
    BY <1>2, <1>3, <1>4, <2>1, <2>2 DEF PimOK
<1> QED
  BY <1>5, <1>6

\* A request reaches the PIM wrapper.
LEMMA PimTakes ==
  ASSUME PimOK, NEW r \in Requests, PIM!nb_transport_fw(r)
  PROVE  /\ PimOK' /\ PW!Backlog \in Nat
         /\ PW!Backlog' = PW!Backlog + One(r \in Transfers)
         /\ PW!ComputeLine' = IF r \in Drafts THEN Append(PW!ComputeLine, r)
                                              ELSE PW!ComputeLine
         /\ pim_pc' = pim_pc /\ trace_done' = trace_done
<1>0. PW!nb_transport_fw(r)
  BY SamePIM
<1>1. /\ pim_peq' = Append(pim_peq, r)
      /\ UNCHANGED <<pending_queue, PW!deviceVars, PW!threadVars, PW!eventVars, PW!outVars>>
  BY <1>0 DEF PW!nb_transport_fw
<1>2. /\ pim_peq \in Seq(Requests) /\ arb_peq_bw \in Seq(Requests)
      /\ trace_done \in BOOLEAN /\ Active \in BOOLEAN
  BY DEF PimOK, PW!IInv, PW!TypeOK
<1>3. PW!IInv'
  BY <1>1, <1>2, PimClient, PW!ClientStep DEF PimOK, PW!outVars
<1>4. PW!Route' /\ PW!Sorted'
  BY <1>1 DEF PimOK, PW!Route, PW!Sorted, PW!deviceVars, PW!threadVars
<1>5. PW!CountOf("memory", Append(pim_peq, r))
        = PW!CountOf("memory", pim_peq) + (IF PW!ClassOf(r) = "memory" THEN 1 ELSE 0)
  BY <1>2, PimClient, PW!CountAppend
<1>6. PW!ClassOf(r) = "memory" <=> r \in Transfers
  BY PimClient DEF PW!OfClass
<1>7. /\ PW!Backlog \in Nat /\ busy_count["memory"] \in Nat
      /\ PW!CountOf("memory", switching) \in Nat
      /\ PW!CountOf("memory", pending_queue) \in Nat /\ PW!CountOf("memory", pim_peq) \in Nat
  BY PimClient, PW!BacklogNat DEF PimOK, PW!IInv
<1>8. PW!Backlog' = PW!Backlog + One(r \in Transfers)
  <2>1. PW!Backlog' = busy_count["memory"] + PW!CountOf("memory", switching)
          + PW!CountOf("memory", pending_queue) + PW!CountOf("memory", Append(pim_peq, r))
    BY <1>1 DEF PW!Backlog, PW!deviceVars, PW!threadVars
  <2> QED
    BY <2>1, <1>5, <1>6, <1>7 DEF PW!Backlog, One
<1>9. PW!ComputeLine' = IF r \in Drafts THEN Append(PW!ComputeLine, r) ELSE PW!ComputeLine
  BY <1>0, PimClient, PW!ArrivalLine DEF PimOK
<1> QED
  BY <1>1, <1>3, <1>4, <1>7, <1>8, <1>9 DEF PimOK, PW!threadVars, PW!outVars

pimInside == <<pim_peq, pending_queue, pim_mode, busy, busy_count, pim_fast, pim_due,
               pim_bridge, pim_bridge_done, completed, pim_pc, switching, blocked,
               pending_event, resource_event>>

\* The others do nothing to the PIM wrapper but take its notification.
LEMMA PimWaits ==
  ASSUME PimOK, UNCHANGED pimInside, trace_done' \in BOOLEAN,
         arb_peq_bw' \in Seq(Transfers)
  PROVE  PimOK' /\ PW!Backlog' = PW!Backlog /\ PW!ComputeLine' = PW!ComputeLine
<1>1. arb_peq_bw' \in Seq(Requests) /\ Active' \in BOOLEAN /\ pim_peq \in Seq(Requests)
  <2>1. Transfers \subseteq Requests
    BY DEF Requests
  <2> QED
    BY <2>1 DEF Active, PimOK, PW!IInv, PW!TypeOK
<1>2. /\ UNCHANGED <<pending_queue, PW!deviceVars, PW!threadVars, PW!eventVars>>
      /\ pim_peq' \in Seq(Requests)
  BY <1>1 DEF pimInside, PW!deviceVars, PW!threadVars, PW!eventVars
<1>3. PW!IInv'
  BY <1>1, <1>2, PimClient, PW!ClientStep DEF PimOK
<1>4. PW!Route' /\ PW!Sorted'
  BY DEF pimInside, PimOK, PW!Route, PW!Sorted
<1>5. PW!Backlog' = PW!Backlog /\ PW!ComputeLine' = PW!ComputeLine
  BY DEF pimInside, PW!Backlog, PW!ComputeLine
<1> QED
  BY <1>3, <1>4, <1>5 DEF PimOK

\* A step of the DRAM wrapper.
LEMMA MemServes ==
  ASSUME MemOK, DramEnabled, MEM!Run \/ MEM!Delta \/ MEM!Timed
  PROVE  /\ MemOK' /\ arb_peq_bw' \in Seq(Transfers)
         /\ MW!Backlog' + Len(arb_peq_bw') = MW!Backlog + Len(arb_peq_bw)
         /\ mem_pc' = "done" => mem_pc = "done" \/ ~Active
<1>1. MW!Run \/ MW!Delta \/ MW!Timed
  BY SameMEM
<1>2. MW!Inv
  BY DEF MemOK
<1>3. MW!Inv'
  <2>1. [MW!ClientNext]_(MW!clientVars)
    BY <1>1 DEF MW!ClientNext
  <2> QED
    BY <1>2, <2>1, MemClient, MW!NextInv
<1>4. MW!Backlog' + Len(arb_peq_bw') = MW!Backlog + Len(arb_peq_bw)
  BY <1>1, <1>2, MemClient, MW!BacklogStep
<1>5. mem_pc' = "done" => mem_pc = "done" \/ ~Active
  BY <1>1 DEF MW!Run, MW!Delta, MW!Timed, MW!Iterate, MW!BridgeCallBack, MW!EndIteration,
     MW!peq_cb, MW!DeliverMemoryEvent, MW!clock_posedge, MW!clock_negedge, MW!Timeout,
     MW!Elapse
<1>6. arb_peq_bw' \in Seq(Transfers)
  BY <1>3 DEF MW!Inv, MW!TypeOK
<1>7. DramEnabled' = DramEnabled
  BY DEF DramEnabled
<1> QED
  BY <1>3, <1>4, <1>5, <1>6, <1>7 DEF MemOK

\* A request reaches the DRAM wrapper.
LEMMA MemTakes ==
  ASSUME MemOK, DramEnabled, NEW r \in Transfers, MEM!nb_transport_fw(r)
  PROVE  /\ MemOK' /\ MW!Backlog \in Nat /\ MW!Backlog' = MW!Backlog + 1
         /\ mem_pc' = mem_pc
<1>0. MW!nb_transport_fw(r)
  BY SameMEM
<1>1. MW!Inv
  BY DEF MemOK
<1>2. MW!Inv'
  BY <1>0, <1>1, MemClient, MW!DeliveryKeepsInv
<1>3. /\ mem_peq' = Append(mem_peq, r) /\ mem_pc' = mem_pc
      /\ UNCHANGED <<mem_fw, mem_request, m_outstanding>>
  BY <1>0 DEF MW!nb_transport_fw, MW!deviceVars
<1>4. /\ Len(mem_peq) \in Nat /\ Len(mem_fw) \in Nat /\ Len(mem_request) \in Nat
      /\ m_outstanding \in Nat /\ MW!Backlog \in Nat
  BY <1>1, MemClient, MW!BacklogNat DEF MW!Inv
<1>5. Len(mem_peq') = Len(mem_peq) + 1
  BY <1>1, <1>3 DEF MW!Inv, MW!TypeOK
<1>6. MW!Backlog' = MW!Backlog + 1
  BY <1>3, <1>4, <1>5 DEF MW!Backlog
<1>7. DramEnabled' = DramEnabled
  BY DEF DramEnabled
<1> QED
  BY <1>2, <1>3, <1>4, <1>6, <1>7 DEF MemOK

\* The others do nothing to the DRAM wrapper.
LEMMA MemWaits ==
  ASSUME MemOK, UNCHANGED memVars, arb_peq_bw' \in Seq(Transfers)
  PROVE  MemOK' /\ MW!Backlog' = MW!Backlog
<1>1. DramEnabled' = DramEnabled /\ Active' \in BOOLEAN
  BY DEF DramEnabled, Active
<1>2. MW!Backlog' = MW!Backlog
  BY DEF memVars, MW!Backlog
<1>3. CASE DramEnabled
  <2>1. MW!Inv
    BY <1>3 DEF MemOK
  <2>2. MW!TypeOK'
    BY <1>1, <2>1 DEF memVars, MW!Inv, MW!TypeOK
  <2>3. MW!OutstandingExact' /\ MW!TickTakesAll' /\ MW!NoSleepOverRequest'
    BY <2>1 DEF memVars, MW!Inv, MW!OutstandingExact, MW!TickTakesAll, MW!NoSleepOverRequest
  <2> QED
    BY <1>1, <1>2, <1>3, <2>2, <2>3 DEF MemOK, MW!Inv
<1>4. CASE ~DramEnabled
  BY <1>1, <1>2, <1>4 DEF MemOK, memVars
<1> QED
  BY <1>3, <1>4

\* The backlogs are numbers.
LEMMA Backlogs ==
  ASSUME PimOK, MemOK
  PROVE  PW!Backlog \in Nat /\ MW!Backlog \in Nat /\ (~DramEnabled => MW!Backlog = 0)
<1>1. PW!Backlog \in Nat
  BY PimClient, PW!BacklogNat DEF PimOK, PW!IInv
<1>2. CASE DramEnabled
  BY <1>1, <1>2, MemClient, MW!BacklogNat DEF MemOK, MW!Inv
<1>3. CASE ~DramEnabled
  BY <1>1, <1>3 DEF MemOK, MW!Backlog
<1> QED
  BY <1>2, <1>3

-----------------------------------------------------------------------------
(* The arbiter's queues, the bursts of a transfer and the target's trace   *)

\* The transactions of a queue of pairs.
TakesFirst(A, T) == \A q \in Seq(T) :
  /\ First(q) \in Seq(A) /\ Len(First(q)) = Len(q)
  /\ \A p \in T : First(Append(q, p)) = Append(First(q), p[1])
  /\ q # <<>> => /\ First(q) # <<>> /\ Head(First(q)) = Head(q)[1]
                 /\ First(Tail(q)) = Tail(First(q))

\* First maps a queue of pairs entry by entry, so push_back and pop_front carry
\* over.
LEMMA FirstFacts ==
  ASSUME NEW A, NEW T, \A p \in T : p[1] \in A
  PROVE  TakesFirst(A, T)
<1> SUFFICES ASSUME NEW q \in Seq(T)
             PROVE  /\ First(q) \in Seq(A) /\ Len(First(q)) = Len(q)
                    /\ \A p \in T : First(Append(q, p)) = Append(First(q), p[1])
                    /\ q # <<>> => /\ First(q) # <<>> /\ Head(First(q)) = Head(q)[1]
                                   /\ First(Tail(q)) = Tail(First(q))
  BY DEF TakesFirst
<1> DEFINE n == Len(q)  f == First(q)
<1>1. n \in Nat /\ \A i \in 1..n : q[i] \in T /\ q[i][1] \in A
  BY LenProperties, ElementOfSeq
<1>2. f = [i \in 1..n |-> q[i][1]]
  BY DEF First
<1> HIDE DEF n, f
<1>3. f \in Seq(A) /\ Len(f) = n
  BY <1>1, <1>2
<1>4. ASSUME NEW p \in T PROVE First(Append(q, p)) = Append(f, p[1])
  <2> DEFINE t == Append(q, p)  g == First(t)  h == Append(f, p[1])
  <2>1. Len(t) = n + 1 /\ t[n + 1] = p /\ \A i \in 1..n : t[i] = q[i]
    BY AppendProperties DEF n
  <2> HIDE DEF t
  <2>2. g = [i \in 1..(n + 1) |-> t[i][1]]
    BY <2>1 DEF First
  <2>3. p[1] \in A
    OBVIOUS
  <2>4. h = [i \in 1..(n + 1) |-> IF i = n + 1 THEN p[1] ELSE f[i]]
    BY <1>3, <2>3, <1>1
  <2>5. ASSUME NEW i \in 1..(n + 1) PROVE t[i][1] = IF i = n + 1 THEN p[1] ELSE f[i]
    BY <1>1, <1>2, <2>1
  <2> HIDE DEF g, h
  <2>6. g = h
    BY <2>2, <2>4, <2>5
  <2> QED
    BY <2>6 DEF g, h, t
<1>5. ASSUME q # <<>>
      PROVE  f # <<>> /\ Head(f) = Head(q)[1] /\ First(Tail(q)) = Tail(f)
  <2>0. n > 0
    BY <1>1, <1>5, EmptySeq DEF n
  <2>1. f # <<>>
    BY <1>3, <2>0, EmptySeq
  <2>7. Head(f) = f[1] /\ Head(q) = q[1]
    BY <1>3, <1>5, <2>1, HeadTailProperties
  <2> DEFINE t == Tail(q)  g == First(t)  h == Tail(f)
  <2>2. Len(t) = n - 1 /\ \A i \in 1..(n - 1) : t[i] = q[i + 1]
    BY <1>5, HeadTailProperties DEF n
  <2> HIDE DEF t
  <2>3. g = [i \in 1..(n - 1) |-> t[i][1]]
    BY <2>2 DEF First
  <2>4. h = [i \in 1..(n - 1) |-> f[i + 1]]
    <3>1. h \in Seq(A) /\ Len(h) = n - 1 /\ \A i \in 1..(n - 1) : h[i] = f[i + 1]
      BY <1>3, <2>1, HeadTailProperties
    <3> HIDE DEF h
    <3>2. h = [i \in 1..(n - 1) |-> h[i]]
      BY <3>1
    <3> QED
      BY <3>1, <3>2
  <2>5. ASSUME NEW i \in 1..(n - 1) PROVE t[i][1] = f[i + 1]
    BY <1>1, <1>2, <2>2
  <2> HIDE DEF g, h
  <2>6. g = h
    BY <2>3, <2>4, <2>5
  <2>8. f[1] = q[1][1]
    BY <1>1, <1>2, <2>0
  <2>9. First(Tail(q)) = Tail(f)
    BY <2>6 DEF g, h, t
  <2> QED
    BY <2>1, <2>7, <2>8, <2>9
<1> QED
  BY <1>3, <1>4, <1>5 DEF n, f

\* A batch of k bursts.
LEMMA CopiesFacts ==
  ASSUME NEW k \in Nat, NEW r \in Transfers
  PROVE  /\ Copies(k, r) \in Seq(Transfers) /\ Copies(k, r) \in Seq(Requests)
         /\ Len(Only(Copies(k, r), Transfers)) = k
         /\ Only(Copies(k, r), Drafts) = <<>>
<1> DEFINE c == Copies(k, r)
<1>1. c \in Seq(Transfers) /\ c \in Seq(Requests) /\ Len(c) = k
      /\ \A i \in 1..Len(c) : c[i] \in Transfers /\ c[i] \notin Drafts
  BY Apart DEF Copies, Requests
<1> HIDE DEF c
<1>2. Only(c, Transfers) = c
  BY <1>1, OnlyAll
<1>3. Only(c, Drafts) = <<>>
  BY <1>1, OnlyNone
<1> QED
  BY <1>1, <1>2, <1>3 DEF c

\* A quotient rounded up is positive.
LEMMA Ceiling ==
  ASSUME NEW a \in Nat \ {0}, NEW b \in Nat \ {0}
  PROVE  (a + b - 1) \div b \in Nat \ {0}
<1> DEFINE n == a + b - 1  q == n \div b  r == n % b
<1>1. n \in Nat /\ n >= b /\ b > 0
  OBVIOUS
<1> HIDE DEF n
<1>2. q \in Int /\ r \in 0..(b - 1) /\ n = b * q + r
  BY <1>1
<1> HIDE DEF q, r
<1>3. ~(q <= 0)
  <2> SUFFICES ASSUME q <= 0 PROVE FALSE
    OBVIOUS
  <2>1. b * q <= 0
    BY <1>1, <1>2
  <2> QED
    BY <1>1, <1>2, <2>1
<1> QED
  BY <1>2, <1>3 DEF q, n

\* A number below the divisor has the quotient zero, also in 32 bits.
LEMMA WrapsToZero ==
  ASSUME NEW b \in Nat \ {0}, NEW w \in Nat \ {0}
  PROVE  ((0 + b - 1) % w) \div b = 0
<1> DEFINE x == b - 1  y == x % w  q == y \div b
<1>1. x \in Nat /\ x < b
  OBVIOUS
<1> HIDE DEF x
<1>2. y \in 0..(w - 1) /\ x = w * (x \div w) + y /\ x \div w \in Int
  BY <1>1
<1>3. x \div w \in Nat
  BY <1>1
<1>4. w * (x \div w) \in Nat
  BY <1>3
<1>5. y \in Nat /\ y < b
  BY <1>1, <1>2, <1>4
<1> HIDE DEF y
<1>6. y \div b = 0
  BY <1>5
<1> QED
  BY <1>6 DEF x, y

\* A transfer of the target's trace.
LEMMA TransferType ==
  ASSUME NEW c \in {"READ", "WRITE"}, NEW b \in Nat
  PROVE  NPU!Transfer(c, b) \in Seq(Steps)
<1>1. \A n \in Nat \ {0} : << [op |-> c, n |-> n] >> \in Seq(Steps)
  <2> SUFFICES ASSUME NEW n \in Nat \ {0} PROVE << [op |-> c, n |-> n] >> \in Seq(Steps)
    OBVIOUS
  <2>1. [op |-> c, n |-> n] \in Steps
    BY DEF Steps
  <2> QED
    BY <2>1
<1>2. NPU!Macro(c, b) \in Seq(Steps)
  BY <1>1 DEF NPU!Macro
<1>3. NPU!Bursts(c, b) \in Seq(Steps)
  <2> DEFINE u == b % Word  end == u + RequestBytes - 1
  <2>1. u \in Nat /\ RequestBytes \in Nat \ {0} /\ Word \in Nat \ {0}
    BY MachineAssumption
  <2>2. CASE (end % Word) \div RequestBytes = 0
    BY <2>2 DEF NPU!Bursts
  <2>3. CASE (end % Word) \div RequestBytes # 0
    <3> HIDE DEF u
    <3>1. u # 0
      BY <2>1, <2>3, WrapsToZero
    <3>2. end \div RequestBytes \in Nat \ {0}
      BY <2>1, <3>1, Ceiling
    <3>3. << [op |-> c, n |-> end \div RequestBytes] >> \in Seq(Steps)
      BY <1>1, <3>2
    <3> QED
      BY <2>3, <3>3 DEF NPU!Bursts, u
  <2> QED
    BY <2>2, <2>3
<1> QED
  BY <1>2, <1>3 DEF NPU!Transfer

\* The target's trace, for every profile and every episode.
LEMMA TraceType ==
  ASSUME NEW a \in Args
  PROVE  NPU!Trace(a) \in Seq(Steps)
<1>1. NPU!Multiplier \in Nat /\ NPU!SimulatedLayers \in Nat
  BY MachineAssumption DEF NPU!Multiplier, NPU!SimulatedLayers
<1>2. KvBytes \in Nat /\ OutputBytes \in Nat
  BY MachineAssumption
<1>3. a.context \in Nat /\ a.query \in Nat /\ a.kv_write \in Nat
  BY DEF Args
<1>4. ASSUME NEW op \in [name : STRING, weight : Nat, compute : Nat]
      PROVE  NPU!OperationSteps(op, a) \in Seq(Steps)
  <2> DEFINE t1 == NPU!Transfer("READ", op.weight * NPU!Multiplier)
             t2 == IF op.name = "qkt"
                     THEN NPU!Transfer("READ", KvBytes * a.context * NPU!Multiplier) ELSE <<>>
             t3 == NPU!Compute(op)
             t4 == IF op.name = "v_proj"
                     THEN NPU!Transfer("WRITE", KvBytes * a.kv_write * NPU!Multiplier) ELSE <<>>
  <2>1. /\ op.weight * NPU!Multiplier \in Nat
        /\ KvBytes * a.context * NPU!Multiplier \in Nat
        /\ KvBytes * a.kv_write * NPU!Multiplier \in Nat
    BY <1>1, <1>2, <1>3
  <2>2. t1 \in Seq(Steps)
    BY <2>1, TransferType
  <2>0. <<>> \in Seq(Steps)
    OBVIOUS
  <2>3. t2 \in Seq(Steps)
    <3>1. NPU!Transfer("READ", KvBytes * a.context * NPU!Multiplier) \in Seq(Steps)
      BY <2>1, TransferType
    <3> QED
      BY <2>0, <3>1, Zenon
  <2>4. t3 \in Seq(Steps)
    <3>1. [op |-> "COMPUTE", n |-> 0] \in Steps
      BY DEF Steps
    <3>2. << [op |-> "COMPUTE", n |-> 0] >> \in Seq(Steps)
      BY <3>1
    <3> QED
      BY <3>2 DEF NPU!Compute
  <2>5. t4 \in Seq(Steps)
    <3>1. NPU!Transfer("WRITE", KvBytes * a.kv_write * NPU!Multiplier) \in Seq(Steps)
      BY <2>1, TransferType
    <3> QED
      BY <2>0, <3>1, Zenon
  <2>6. NPU!OperationSteps(op, a) = t1 \o t2 \o t3 \o t4
    BY DEF NPU!OperationSteps
  <2> HIDE DEF t1, t2, t3, t4
  <2> QED
    BY <2>2, <2>3, <2>4, <2>5, <2>6
<1>5. NPU!LayerSteps(a) \in Seq(Steps)
  <2> DEFINE seqs == [i \in 1..Len(Operations) |-> NPU!OperationSteps(Operations[i], a)]
             t == NPU!Transfer("WRITE", OutputBytes * a.query * NPU!Multiplier)
  <2>1. Len(Operations) \in Nat /\ \A i \in 1..Len(Operations) :
          Operations[i] \in [name : STRING, weight : Nat, compute : Nat]
    BY MachineAssumption, LenProperties, ElementOfSeq
  <2>2. seqs \in Seq(Seq(Steps))
    BY <1>4, <2>1
  <2>3. OutputBytes * a.query * NPU!Multiplier \in Nat
    BY <1>1, <1>2, <1>3
  <2>4. t \in Seq(Steps)
    BY <2>3, TransferType
  <2>5. NPU!LayerSteps(a) = FlattenSeq(seqs) \o t
    BY DEF NPU!LayerSteps, NPU!FlattenSeq, FlattenSeq
  <2> HIDE DEF seqs, t
  <2>6. FlattenSeq(seqs) \in Seq(Steps)
    BY <2>2, FlattenType
  <2> QED
    BY <2>4, <2>5, <2>6, ConcatProperties
<1> DEFINE seqs == [l \in 1..NPU!SimulatedLayers |-> NPU!LayerSteps(a)]
<1>6. seqs \in Seq(Seq(Steps))
  BY <1>1, <1>5
<1>7. NPU!Trace(a) = FlattenSeq(seqs)
  BY DEF NPU!Trace, NPU!FlattenSeq, FlattenSeq
<1> HIDE DEF seqs
<1> QED
  BY <1>6, <1>7, FlattenType

\* The line of commands after its first has retired.
LEMMA LastAfterTail ==
  ASSUME NEW T, NEW s \in Seq(T), s # <<>>, LastAtEnd(s)
  PROVE  LastAtEnd(Tail(s)) /\ (Head(s).last <=> Tail(s) = <<>>)
<1> DEFINE n == Len(s)  t == Tail(s)
<1>1. /\ n \in Nat /\ n > 0 /\ Head(s) = s[1] /\ t \in Seq(T) /\ Len(t) = n - 1
      /\ \A i \in 1..(n - 1) : t[i] = s[i + 1]
  BY EmptySeq, HeadTailProperties
<1>2. \A i \in 1..n : s[i].last <=> i = n
  BY DEF LastAtEnd
<1> HIDE DEF n, t
<1>3. t = <<>> <=> n = 1
  BY <1>1, EmptySeq
<1>4. (\A i \in 1..(n - 1) : t[i].last <=> i = n - 1) /\ (Head(s).last <=> n = 1)
  BY <1>1, <1>2, SMTT(30)
<1>5. LastAtEnd(t)
  BY <1>1, <1>4 DEF LastAtEnd
<1> QED
  BY <1>3, <1>4, <1>5 DEF t

-----------------------------------------------------------------------------
(* The parts of the counts and of the line                                 *)

Everything == Requests \cup Starts

\* The arbiter's request queue, entry by entry.
LEMMA HopsFirst == TakesFirst(Requests, Hops)
<1>1. \A p \in Hops : p[1] \in Requests
  BY DEF Hops
<1> QED
  BY <1>1, FirstFacts

\* What waits in the Host and in the arbiter.
LEMMA QueueTypes ==
  ASSUME Types
  PROVE  /\ First(arb_fw) \in Seq(Requests) /\ First(arb_fw) \in Seq(Everything)
         /\ arb_peq_fw \in Seq(Everything) /\ pending_q \in Seq(Everything)
<1>1. Requests \subseteq Everything /\ Starts \cup Drafts \subseteq Everything
  BY DEF Everything, Requests
<1>2. First(arb_fw) \in Seq(Requests)
  <2>1. arb_fw \in Seq(Hops)
    BY DEF Types
  <2> QED
    BY <2>1, HopsFirst, Zenon DEF TakesFirst
<1>3. arb_peq_fw \in Seq(Requests) /\ pending_q \in Seq(Starts \cup Drafts)
  BY DEF Types
<1>4. \A A, B : \A v \in Seq(A) : A \subseteq B => v \in Seq(B)
  OBVIOUS
<1> QED
  BY <1>1, <1>2, <1>3, <1>4

\* The terms of Flow and Target are numbers.
LEMMA Numbers ==
  ASSUME Types, PimOK, MemOK
  PROVE  /\ Len(Only(arb_peq_fw, Transfers)) \in Nat
         /\ Len(Only(First(arb_fw), Transfers)) \in Nat
         /\ PW!Backlog \in Nat /\ MW!Backlog \in Nat
         /\ Len(arb_peq_bw) \in Nat /\ Len(arb_bw) \in Nat /\ Len(npu_peq_bw) \in Nat
         /\ Len(Only(pending_q, Starts)) \in Nat /\ Len(npu_peq_fw) \in Nat
         /\ pending_responses \in Nat
<1>1. /\ Len(Only(arb_peq_fw, Transfers)) \in Nat
      /\ Len(Only(First(arb_fw), Transfers)) \in Nat
      /\ Len(Only(pending_q, Starts)) \in Nat
  BY QueueTypes, OnlySeq
<1>2. /\ Len(arb_peq_bw) \in Nat /\ Len(arb_bw) \in Nat /\ Len(npu_peq_bw) \in Nat
      /\ Len(npu_peq_fw) \in Nat /\ pending_responses \in Nat
  BY DEF Types
<1> QED
  BY <1>1, <1>2, Backlogs

\* The draft's line and the lengths of its four parts.
LEMMA LineParts ==
  ASSUME Types, PimOK
  PROVE  /\ PW!ComputeLine \in Seq(Everything)
         /\ Only(First(arb_fw), Drafts) \in Seq(Everything)
         /\ Only(arb_peq_fw, Drafts) \in Seq(Everything)
         /\ Only(pending_q, Drafts) \in Seq(Everything)
         /\ DraftLine \in Seq(Everything)
         /\ Len(DraftLine) = Len(PW!ComputeLine) + Len(Only(First(arb_fw), Drafts))
              + Len(Only(arb_peq_fw, Drafts)) + Len(Only(pending_q, Drafts))
<1> DEFINE a == PW!ComputeLine  b == Only(First(arb_fw), Drafts)
           c == Only(arb_peq_fw, Drafts)  d == Only(pending_q, Drafts)
<1>1. a \in Seq(Everything)
  <2>1. a \in Seq(Requests)
    BY PimClient, PW!ContentShares DEF PimOK
  <2>2. Requests \subseteq Everything
    BY DEF Everything
  <2> HIDE DEF a
  <2> QED
    BY <2>1, <2>2
<1>2. b \in Seq(Everything) /\ c \in Seq(Everything) /\ d \in Seq(Everything)
  BY QueueTypes, OnlySeq
<1>3. DraftLine = ((a \o b) \o c) \o d
  BY DEF DraftLine
<1> HIDE DEF a, b, c, d
<1>4. a \o b \in Seq(Everything) /\ Len(a \o b) = Len(a) + Len(b)
  BY <1>1, <1>2, ConcatProperties
<1>5. (a \o b) \o c \in Seq(Everything) /\ Len((a \o b) \o c) = Len(a) + Len(b) + Len(c)
  BY <1>2, <1>4, ConcatProperties
<1>6. /\ ((a \o b) \o c) \o d \in Seq(Everything)
      /\ Len(((a \o b) \o c) \o d) = Len(a) + Len(b) + Len(c) + Len(d)
  BY <1>2, <1>5, ConcatProperties
<1> QED
  BY <1>1, <1>2, <1>3, <1>6 DEF a, b, c, d

\* Without commands anywhere, every part of the line is empty.
LEMMA LineEmpty ==
  ASSUME Types, PimOK, DraftLine = <<>>
  PROVE  /\ PW!ComputeLine = <<>> /\ Only(First(arb_fw), Drafts) = <<>>
         /\ Only(arb_peq_fw, Drafts) = <<>> /\ Only(pending_q, Drafts) = <<>>
<1> DEFINE a == PW!ComputeLine  b == Only(First(arb_fw), Drafts)
           c == Only(arb_peq_fw, Drafts)  d == Only(pending_q, Drafts)
<1>1. /\ a \in Seq(Everything) /\ b \in Seq(Everything) /\ c \in Seq(Everything)
      /\ d \in Seq(Everything) /\ Len(DraftLine) = Len(a) + Len(b) + Len(c) + Len(d)
  BY LineParts
<1>2. Len(DraftLine) = 0
  OBVIOUS
<1> HIDE DEF a, b, c, d
<1>3. Len(a) \in Nat /\ Len(b) \in Nat /\ Len(c) \in Nat /\ Len(d) \in Nat
  BY <1>1, LenProperties
<1>4. Len(a) = 0 /\ Len(b) = 0 /\ Len(c) = 0 /\ Len(d) = 0
  BY <1>1, <1>2, <1>3
<1>5. \A s \in Seq(Everything) : Len(s) = 0 => s = <<>>
  BY EmptySeq
<1> QED
  BY <1>1, <1>4, <1>5 DEF a, b, c, d

\* Between two episodes the Host has nothing left to send.
LEMMA HostIdle ==
  ASSUME Types, Len(Only(pending_q, Starts)) = 0, Only(pending_q, Drafts) = <<>>
  PROVE  pending_q = <<>>
<1>1. pending_q \in Seq(Starts \cup Drafts)
  BY DEF Types
<1>2. Len(pending_q) = Len(Only(pending_q, Starts)) + Len(Only(pending_q, Drafts))
  <2> DEFINE U == Starts \cup Drafts
  <2>1. \A t \in U : t \in Drafts <=> t \notin Starts
    BY Apart
  <2>2. pending_q \in Seq(U)
    BY <1>1
  <2> HIDE DEF U
  <2> QED
    BY <2>1, <2>2, OnlyPartition
<1>3. Len(pending_q) = 0
  BY <1>2
<1> QED
  BY <1>1, <1>3, EmptySeq

-----------------------------------------------------------------------------
(* The Host's steps                                                        *)

\* Steps of the Host and the NPU leave the memories and their counts alone.
LEMMA MemoriesWait ==
  ASSUME Inv, UNCHANGED <<pimInside, memVars>>, trace_done' \in BOOLEAN,
         arb_peq_bw' \in Seq(Transfers)
  PROVE  /\ PimOK' /\ MemOK' /\ PW!Backlog' = PW!Backlog /\ MW!Backlog' = MW!Backlog
         /\ PW!ComputeLine' = PW!ComputeLine
BY PimWaits, MemWaits DEF Inv

\* The Host launches an episode.
LEMMA LaunchStep ==
  ASSUME Inv, HostLaunch
  PROVE  Inv'
<1>0. Types /\ PimOK /\ Flow /\ Thread /\ Target /\ Draft /\ Ending
  BY DEF Inv
<1>1. /\ host_pc = "launch" /\ host_pc' = "barrier" /\ episode' = episode + 1 /\ got' = {}
      /\ pending_q' = Append(pending_q, HOST!Start(episode + 1)) \o Controls[episode + 1].draft
      /\ UNCHANGED <<active_host, stopped, npuVars, arbVars, pimVars, memVars>>
  BY DEF HostLaunch, HOST!Launch
<1>2. /\ PimOK' /\ MemOK' /\ PW!Backlog' = PW!Backlog /\ MW!Backlog' = MW!Backlog
      /\ PW!ComputeLine' = PW!ComputeLine
  <2>1. UNCHANGED <<pimInside, memVars>> /\ UNCHANGED <<trace_done, arb_peq_bw>>
    BY <1>1 DEF pimVars, pimInside, arbVars
  <2>2. trace_done \in BOOLEAN /\ arb_peq_bw \in Seq(Transfers)
    BY <1>0 DEF Types, PimOK, PW!IInv, PW!TypeOK
  <2> QED
    BY <2>1, <2>2, MemoriesWait
<1>3. /\ DraftLine = <<>> /\ ~trace_done /\ "pim" \notin got
      /\ Len(Only(pending_q, Starts)) = 0 /\ Len(npu_peq_fw) = 0 /\ ~start_event
      /\ npu_pc = "idle" /\ ~npu_done
  <2>1. Len(Only(pending_q, Starts)) \in Nat /\ Len(npu_peq_fw) \in Nat
    BY <1>0, Numbers DEF Inv
  <2> QED
    BY <1>0, <1>1, <2>1 DEF Target, Draft, One
<1>4. /\ PW!ComputeLine = <<>> /\ Only(First(arb_fw), Drafts) = <<>>
      /\ Only(arb_peq_fw, Drafts) = <<>> /\ Only(pending_q, Drafts) = <<>>
  BY <1>0, <1>3, LineEmpty
<1>5. pending_q = <<>>
  BY <1>0, <1>3, <1>4, HostIdle
<1> DEFINE e == episode + 1  st == HOST!Start(e)  dr == Controls[e].draft
<1>6. e \in 1..Len(Controls)
  BY <1>0, <1>1 DEF Types, Ending
<1>7. /\ st \in Starts /\ dr \in Seq(Drafts) /\ dr # <<>> /\ LastAtEnd(dr)
  <2>1. st \in Starts
    BY <1>6 DEF Starts
  <2>2. dr # <<>> /\ LastAtEnd(dr)
    BY <1>6, ControlsAssumption, Zenon DEF LastAtEnd
  <2>3. dr \in Seq(Commands)
    BY <1>6, Records
  <2>4. \A i \in 1..Len(dr) : dr[i] \in Drafts
    BY <1>6 DEF Drafts
  <2> HIDE DEF dr
  <2>5. dr \in Seq(Drafts)
    BY <2>3, <2>4
  <2> QED
    BY <2>1, <2>2, <2>5
<1> HIDE DEF e, st, dr
<1>8. /\ pending_q' = <<st>> \o dr /\ <<st>> \in Seq(Starts \cup Drafts)
      /\ dr \in Seq(Starts \cup Drafts)
  BY <1>1, <1>5, <1>7 DEF e, st, dr
<1> DEFINE U == Starts \cup Drafts
<1>9. \A t \in U : t \in Drafts <=> t \notin Starts
  BY Apart
<1>10. <<st>> \in Seq(U) /\ dr \in Seq(U) /\ st \in U /\ \A i \in 1..Len(dr) : dr[i] \in Drafts
  BY <1>7, <1>8
<1> HIDE DEF U
<1>11. /\ Only(<<st>>, Starts) = <<st>> /\ Only(<<st>>, Drafts) = <<>>
       /\ Only(dr, Drafts) = dr /\ Only(dr, Starts) = <<>>
  <2>1. \A i \in 1..Len(dr) : dr[i] \notin Starts
    BY <1>9, <1>10
  <2>2. Only(dr, Starts) = <<>>
    BY <1>10, <2>1, OnlyNone
  <2>3. Only(dr, Drafts) = dr
    BY <1>10, OnlyAll
  <2>4. Only(<<st>>, Starts) = <<st>> /\ Only(<<st>>, Drafts) = <<>>
    BY <1>7, <1>9, <1>10, OnlyOne
  <2> QED
    BY <2>2, <2>3, <2>4
<1>12. /\ Len(Only(<<st>> \o dr, Starts)) = 1 /\ Only(<<st>> \o dr, Drafts) = dr
       /\ <<st>> \o dr \in Seq(U)
  <2>1. Distributes(U, Starts) /\ Distributes(U, Drafts) /\ HasUnit(U) /\ Concatenates(U)
    BY OnlyConcat, ConcatLaws
  <2>2. Only(<<st>> \o dr, Starts) = <<st>> \o <<>> /\ Only(<<st>> \o dr, Drafts) = <<>> \o dr
    BY <1>10, <1>11, <2>1, Zenon DEF Distributes
  <2>3. <<st>> \o <<>> = <<st>> /\ <<>> \o dr = dr /\ <<st>> \o dr \in Seq(U)
    BY <1>10, <2>1, Zenon DEF HasUnit, Concatenates
  <2> QED
    BY <2>2, <2>3
<1>13. Types'
  <2>1. pending_q' \in Seq(Starts \cup Drafts)
    BY <1>8, <1>12 DEF U
  <2> QED
    BY <1>0, <1>1, <1>6, <2>1 DEF Types, npuVars, arbVars, e
<1>14. Flow' /\ Thread'
  <2>1. Sent' = Sent /\ Returned' = Returned
    BY <1>1 DEF Sent, Returned, arbVars, npuVars, First
  <2> QED
    BY <1>0, <1>1, <1>2, <2>1 DEF Flow, Thread, npuVars
<1>15. Target'
  <2>1. Len(Only(pending_q', Starts)) = 1
    BY <1>8, <1>12
  <2> QED
    BY <1>1, <1>3, <2>1 DEF Target, One, npuVars
<1>16. Draft'
  <2>1. DraftLine' = ((<<>> \o <<>>) \o <<>>) \o dr
    <3>1. Only(pending_q', Drafts) = dr
      BY <1>8, <1>12
    <3>2. arb_fw' = arb_fw /\ arb_peq_fw' = arb_peq_fw
      BY <1>1 DEF arbVars
    <3> QED
      BY <1>2, <1>4, <3>1, <3>2 DEF DraftLine
  <2>2. DraftLine' = dr
    BY <1>10, <2>1
  <2>3. trace_done' = trace_done
    BY <1>1 DEF pimVars
  <2> QED
    BY <1>1, <1>3, <1>7, <2>2, <2>3 DEF Draft, One, LastAtEnd
<1>17. Ending'
  BY <1>0, <1>1 DEF Ending, pimVars, memVars
<1> QED
  BY <1>2, <1>13, <1>14, <1>15, <1>16, <1>17 DEF Inv

\* Steps that move no transaction.
LEMMA NothingMoves ==
  ASSUME Inv, UNCHANGED <<pending_q, arbVars, pimInside, memVars>>, trace_done' \in BOOLEAN
  PROVE  /\ PimOK' /\ MemOK' /\ Sent' = Sent /\ PW!Backlog' = PW!Backlog
         /\ MW!Backlog' = MW!Backlog /\ DraftLine' = DraftLine
         /\ Only(pending_q, Starts)' = Only(pending_q, Starts)
<1>1. arb_peq_bw' \in Seq(Transfers)
  BY DEF Inv, Types, arbVars
<1>2. /\ PimOK' /\ MemOK' /\ PW!Backlog' = PW!Backlog /\ MW!Backlog' = MW!Backlog
      /\ PW!ComputeLine' = PW!ComputeLine
  BY <1>1, MemoriesWait
<1>3. arb_fw' = arb_fw /\ arb_peq_fw' = arb_peq_fw /\ pending_q' = pending_q
  BY DEF arbVars
<1> QED
  BY <1>2, <1>3 DEF Sent, DraftLine

\* The Host's other steps within its own thread.
LEMMA HostThreadStep ==
  ASSUME Inv, HostBarrier \/ HostTerminate \/ HostPoll
  PROVE  Inv'
<1>0. Types /\ PimOK /\ MemOK /\ Flow /\ Thread /\ Target /\ Draft /\ Ending
  BY DEF Inv
<1>1. /\ UNCHANGED <<episode, pending_q, npuVars, arbVars, pimVars, memVars>>
      /\ \/ /\ host_pc = "barrier" /\ got = {"pim", "npu"} /\ got' = {}
            /\ active_host' = active_host
            /\ IF episode < Len(Controls)
                 THEN host_pc' = "launch" /\ stopped' = stopped
                 ELSE host_pc' = "trace" /\ stopped' = ~active_dram
         \/ /\ host_pc = "trace" /\ host_pc' = "stopping" /\ got' = got
            /\ active_host' = 0 /\ stopped' = ~active_dram
         \/ /\ host_pc = "stopping" /\ host_pc' = host_pc /\ got' = got
            /\ active_host' = active_host /\ stopped' = TRUE
  BY DEF HostBarrier, HostTerminate, HostPoll, HOST!LeaveBarrier, HOST!Terminate, HOST!Poll
<1>2. host_pc # "stopping" => active_dram
  BY <1>0 DEF Ending, active_dram
<1>3. trace_done' = trace_done /\ trace_done \in BOOLEAN /\ UNCHANGED pimInside
  BY <1>0, <1>1 DEF pimVars, pimInside, PimOK, PW!IInv, PW!TypeOK
<1>4. /\ PimOK' /\ MemOK' /\ Sent' = Sent /\ PW!Backlog' = PW!Backlog
      /\ MW!Backlog' = MW!Backlog /\ DraftLine' = DraftLine
      /\ Only(pending_q, Starts)' = Only(pending_q, Starts)
  BY <1>1, <1>3, NothingMoves
<1>5. Types'
  <2>1. stopped' \in BOOLEAN
    BY <1>0, <1>1, <1>2 DEF Types
  <2> QED
    BY <1>0, <1>1, <2>1 DEF Types, npuVars, arbVars
<1>6. Flow' /\ Thread'
  <2>1. Returned' = Returned
    BY <1>1 DEF Returned, arbVars, npuVars
  <2> QED
    BY <1>0, <1>1, <1>4, <2>1 DEF Flow, Thread, npuVars
<1>7. Target'
  <2>1. UNCHANGED <<npu_peq_fw, start_event, npu_pc, npu_done>>
    BY <1>1 DEF npuVars
  <2>2. Len(Only(pending_q, Starts)) \in Nat /\ Len(npu_peq_fw) \in Nat
    BY <1>0, Numbers
  <2>3. Len(Only(pending_q, Starts))' = Len(Only(pending_q, Starts))
    BY <1>4
  <2> QED
    BY <1>0, <1>1, <2>1, <2>2, <2>3 DEF Target, One
<1>8. Draft'
  BY <1>0, <1>1, <1>3, <1>4 DEF Draft, One, LastAtEnd
<1>9. Ending'
  BY <1>0, <1>1, <1>2 DEF Ending, Types, pimVars, memVars
<1> QED
  BY <1>4, <1>5, <1>6, <1>7, <1>8, <1>9 DEF Inv

\* One side's completion reaches the barrier.
LEMMA ArriveStep ==
  ASSUME Inv, TargetDone \/ DraftDone
  PROVE  Inv'
<1>0. Types /\ PimOK /\ MemOK /\ Flow /\ Thread /\ Target /\ Draft /\ Ending
  BY DEF Inv
<1>1. /\ UNCHANGED <<episode, pending_q, host_pc, active_host, stopped, arbVars, memVars,
                     pimInside, npu_peq_fw, npu_peq_bw, start_event, response_event, args,
                     npu_pc, program, remaining, pending_responses, active_core>>
      /\ \/ /\ npu_done /\ npu_done' = FALSE /\ trace_done' = trace_done
            /\ got' = IF host_pc = "barrier" THEN got \cup {"npu"} ELSE got
         \/ /\ trace_done /\ trace_done' = FALSE /\ npu_done' = npu_done
            /\ got' = IF host_pc = "barrier" THEN got \cup {"pim"} ELSE got
  BY DEF TargetDone, DraftDone, NPU!TakeDone, HOST!Arrive, NPU!threadVars, pimVars, pimInside,
     npuVars
<1>2. trace_done \in BOOLEAN /\ trace_done' \in BOOLEAN
  BY <1>0, <1>1 DEF PimOK, PW!IInv, PW!TypeOK
<1>3. /\ PimOK' /\ MemOK' /\ Sent' = Sent /\ PW!Backlog' = PW!Backlog
      /\ MW!Backlog' = MW!Backlog /\ DraftLine' = DraftLine
      /\ Only(pending_q, Starts)' = Only(pending_q, Starts)
  BY <1>1, <1>2, NothingMoves
<1>4. Len(Only(pending_q, Starts)) \in Nat /\ Len(npu_peq_fw) \in Nat
  BY <1>0, Numbers
<1>5. Types'
  BY <1>0, <1>1, ZenonT(30) DEF Types, arbVars
<1>6. Flow' /\ Thread'
  <2>1. Returned' = Returned
    BY <1>1 DEF Returned, arbVars
  <2> QED
    BY <1>0, <1>1, <1>3, <2>1 DEF Flow, Thread
<1>7. Target'
  <2>1. Len(Only(pending_q, Starts))' = Len(Only(pending_q, Starts))
    BY <1>3
  <2>2. npu_done => host_pc = "barrier" /\ "npu" \notin got
    BY <1>0, <1>4 DEF Target, One
  <2>3. trace_done => host_pc = "barrier" /\ "pim" \notin got
    BY <1>0 DEF Draft, One
  <2>4. One(npu_done) + One("npu" \in got) = One(npu_done') + One("npu" \in got')
    BY <1>0, <1>1, <2>2, <2>3 DEF One, Types
  <2>5. UNCHANGED <<npu_peq_fw, start_event, npu_pc, host_pc>>
    BY <1>1
  <2> DEFINE x == One(npu_done)  y == One("npu" \in got)  v == One(npu_done')
             w == One("npu" \in got')
  <2>6. x \in Nat /\ y \in Nat /\ v \in Nat /\ w \in Nat /\ x + y = v + w
    BY <2>4 DEF One
  <2>7. Target <=> Len(Only(pending_q, Starts)) + Len(npu_peq_fw) + One(start_event)
                     + One(npu_pc # "idle") + x + y = One(host_pc = "barrier")
    BY DEF Target
  <2>8. Target' <=> Len(Only(pending_q, Starts)) + Len(npu_peq_fw) + One(start_event)
                      + One(npu_pc # "idle") + v + w = One(host_pc = "barrier")
    BY <2>1, <2>5 DEF Target, One
  <2> HIDE DEF x, y, v, w
  <2> QED
    BY <1>0, <1>4, <2>6, <2>7, <2>8 DEF One
<1>8. Draft'
  <2>1. trace_done => host_pc = "barrier" /\ "pim" \notin got
    BY <1>0 DEF Draft, One
  <2> QED
    BY <1>0, <1>1, <1>2, <1>3, <2>1 DEF Draft, One, LastAtEnd
<1>9. Ending'
  BY <1>0, <1>1 DEF Ending, pimInside, memVars
<1> QED
  BY <1>3, <1>5, <1>6, <1>7, <1>8, <1>9 DEF Inv

\* The Host sends a transaction: the start request to the NPU, a command to
\* the arbiter.
LEMMA SendStep ==
  ASSUME Inv, HostSends
  PROVE  Inv'
<1>0. Types /\ PimOK /\ MemOK /\ Flow /\ Thread /\ Target /\ Draft /\ Ending
  BY DEF Inv
<1> DEFINE t == Head(pending_q)
<1>1. /\ pending_q # <<>> /\ pending_q' = Tail(pending_q)
      /\ UNCHANGED <<episode, host_pc, got, active_host, stopped, pimVars, memVars>>
      /\ \/ /\ t.dst = "NPU" /\ npu_peq_fw' = Append(npu_peq_fw, t.args)
            /\ UNCHANGED <<npu_peq_bw, start_event, response_event, args, npu_pc, program,
                           remaining, pending_responses, npu_done, active_core, arbVars>>
         \/ /\ t.dst # "NPU" /\ arb_peq_fw' = arb_peq_fw \o <<t>>
            /\ UNCHANGED <<arb_peq_bw, arb_fw, arb_bw, npuVars>>
  BY DEF HostSends, HOST!clock_negedge, NPU!nb_transport_fw, ARB!nb_transport_fw,
     NPU!eventVars, NPU!threadVars
<1>2. t \in Starts \cup Drafts /\ Tail(pending_q) \in Seq(Starts \cup Drafts)
  BY <1>0, <1>1 DEF Types
<1>3. UNCHANGED <<arb_peq_bw, arb_fw, arb_bw, npu_peq_bw, trace_done, pimInside>>
  BY <1>1 DEF arbVars, npuVars, pimVars, pimInside
<1>4. /\ PimOK' /\ MemOK' /\ PW!Backlog' = PW!Backlog /\ MW!Backlog' = MW!Backlog
      /\ PW!ComputeLine' = PW!ComputeLine
  <2>1. trace_done' \in BOOLEAN /\ arb_peq_bw' \in Seq(Transfers)
    BY <1>0, <1>3 DEF Types, PimOK, PW!IInv, PW!TypeOK
  <2> QED
    BY <1>1, <1>3, <2>1, MemoriesWait
<1>5. /\ pending_q \in Seq(Everything) /\ arb_peq_fw \in Seq(Everything)
      /\ First(arb_fw) \in Seq(Everything)
  BY <1>0, QueueTypes
<1>6. /\ Len(Only(Tail(pending_q), Starts)) \in Nat
      /\ Len(Only(pending_q, Starts)) = Len(Only(Tail(pending_q), Starts))
                                          + (IF t \in Starts THEN 1 ELSE 0)
  BY <1>1, <1>5, OnlyCounts
<1>7. Returned' = Returned
  BY <1>3 DEF Returned
<1>8. Len(Only(First(arb_fw), Transfers))' = Len(Only(First(arb_fw), Transfers))
  BY <1>3
<1>9. Len(npu_peq_fw) \in Nat
  BY <1>0 DEF Types
<1>10. CASE t \in Starts
  <2>1. /\ npu_peq_fw' = Append(npu_peq_fw, t.args) /\ t.args \in Args
        /\ UNCHANGED <<npu_peq_bw, start_event, response_event, args, npu_pc, program,
                       remaining, pending_responses, npu_done, active_core, arbVars>>
    BY <1>1, <1>10, Kinds
  <2>2. Types'
    BY <1>0, <1>1, <1>2, <2>1 DEF Types, arbVars
  <2>3. Sent' = Sent
    BY <2>1 DEF Sent, arbVars
  <2>4. Flow' /\ Thread'
    BY <1>0, <1>4, <1>7, <2>1, <2>3 DEF Flow, Thread
  <2>5. Target'
    <3>1. Len(npu_peq_fw') = Len(npu_peq_fw) + 1
      BY <1>0, <2>1 DEF Types
    <3>2. Len(Only(pending_q, Starts)) = Len(Only(pending_q', Starts)) + 1
      BY <1>1, <1>6, <1>10
    <3>3. Len(Only(pending_q', Starts)) \in Nat
      BY <1>1, <1>6
    <3> QED
      BY <1>0, <1>1, <1>9, <2>1, <3>1, <3>2, <3>3 DEF Target, One
  <2>6. DraftLine' = DraftLine
    <3>1. t \notin Drafts
      BY <1>2, <1>10, Apart
    <3>2. Only(pending_q, Drafts) = <<>> \o Only(Tail(pending_q), Drafts)
      BY <1>1, <1>5, <3>1, OnlyHead
    <3>3. Tail(pending_q) \in Seq(Everything)
      BY <1>1, <1>5
    <3>4. Only(Tail(pending_q), Drafts) \in Seq(Everything)
      BY <3>3, OnlySeq
    <3>5. <<>> \o Only(Tail(pending_q), Drafts) = Only(Tail(pending_q), Drafts)
      BY <3>4
    <3>6. Only(pending_q', Drafts) = Only(pending_q, Drafts)
      BY <1>1, <3>2, <3>5
    <3>7. arb_fw' = arb_fw /\ arb_peq_fw' = arb_peq_fw
      BY <2>1 DEF arbVars
    <3> QED
      BY <1>4, <3>6, <3>7 DEF DraftLine
  <2>7. Draft'
    BY <1>0, <1>1, <1>3, <2>6 DEF Draft, One, LastAtEnd
  <2>8. Ending'
    BY <1>0, <1>1 DEF Ending, pimVars, memVars
  <2> QED
    BY <1>4, <2>2, <2>4, <2>5, <2>7, <2>8 DEF Inv
<1>11. CASE t \in Drafts
  <2>1. t \in Requests /\ t \in Everything /\ t \notin Transfers /\ t \notin Starts
    BY <1>2, <1>11, Apart DEF Requests, Everything
  <2>2. /\ arb_peq_fw' = arb_peq_fw \o <<t>>
        /\ UNCHANGED <<arb_peq_bw, arb_fw, arb_bw, npuVars>>
    BY <1>1, <1>11, Kinds
  <2>3. arb_peq_fw' = Append(arb_peq_fw, t)
    BY <1>5, <2>1, <2>2, AppendIsConcat
  <2>4. Types'
    <3>1. arb_peq_fw' \in Seq(Requests)
      BY <1>0, <2>1, <2>3 DEF Types
    <3> QED
      BY <1>0, <1>1, <1>2, <2>2, <3>1 DEF Types, npuVars
  <2>5. Sent' = Sent
    <3>1. Len(Only(Append(arb_peq_fw, t), Transfers)) = Len(Only(arb_peq_fw, Transfers)) + 0
      BY <1>5, <2>1, OnlyCounts, SMTT(30)
    <3>2. Len(Only(arb_peq_fw, Transfers)) \in Nat
      BY <1>0, Numbers
    <3>3. Len(Only(arb_peq_fw', Transfers)) = Len(Only(arb_peq_fw, Transfers))
      BY <2>3, <3>1, <3>2
    <3> QED
      BY <1>8, <3>3 DEF Sent
  <2>6. Flow' /\ Thread'
    BY <1>0, <1>4, <1>7, <2>2, <2>5 DEF Flow, Thread, npuVars
  <2>7. Target'
    <3>1. Len(Only(pending_q', Starts)) = Len(Only(pending_q, Starts))
      BY <1>1, <1>6, <2>1
    <3> QED
      BY <1>0, <1>1, <2>2, <3>1 DEF Target, One, npuVars
  <2>8. DraftLine' = DraftLine
    <3> DEFINE u == PW!ComputeLine \o Only(First(arb_fw), Drafts)
    <3>1. u \in Seq(Everything)
      BY <1>0, LineParts
    <3>2. DraftLine = (u \o Only(arb_peq_fw, Drafts)) \o Only(pending_q, Drafts)
      BY DEF DraftLine
    <3>3. DraftLine' = (u \o Only(Append(arb_peq_fw, t), Drafts)) \o Only(Tail(pending_q), Drafts)
      BY <1>1, <1>4, <2>2, <2>3 DEF DraftLine
    <3> HIDE DEF u
    <3>4. (u \o Only(Append(arb_peq_fw, t), Drafts)) \o Only(Tail(pending_q), Drafts)
            = (u \o Only(arb_peq_fw, Drafts)) \o Only(pending_q, Drafts)
      <4>1. Moves(Everything, Drafts)
        BY OnlyMoves
      <4> QED
        BY <1>1, <1>5, <3>1, <4>1, Zenon DEF Moves
    <3> QED
      BY <3>2, <3>3, <3>4
  <2>9. Draft'
    BY <1>0, <1>1, <1>3, <2>8 DEF Draft, One, LastAtEnd
  <2>10. Ending'
    BY <1>0, <1>1 DEF Ending, pimVars, memVars
  <2> QED
    BY <1>4, <2>4, <2>6, <2>7, <2>9, <2>10 DEF Inv
<1> QED
  BY <1>2, <1>10, <1>11

-----------------------------------------------------------------------------
(* The NPU's steps                                                         *)

\* A batch fits into what is left of the transfer and into the window.
LEMMA BatchFits ==
  ASSUME NEW left \in Nat \ {0}, NEW pending \in Nat, pending < Window,
         NEW k, k = NPU!Batch(left, pending)
  PROVE  k \in Nat /\ k > 0 /\ k <= left /\ pending + k <= Window
BY MachineAssumption DEF NPU!Batch

\* The NPU sends a batch of bursts.
LEMMA IssueStep ==
  ASSUME Inv, NpuIssues
  PROVE  Inv'
<1>0. Types /\ PimOK /\ MemOK /\ Flow /\ Thread /\ Target /\ Draft /\ Ending
  BY DEF Inv
<1>1. PICK k : /\ NPU!BeginTransfer(k) \/ NPU!ContinueTransfer(k)
               /\ ARB!nb_transport_fw(Copies(k, NPU!Request(Head(program).op)))
  BY DEF NpuIssues
<1>2. UNCHANGED <<hostVars, pimVars, memVars>>
  BY DEF NpuIssues
<1>3. program # <<>> /\ Head(program).op # "COMPUTE" /\ npu_pc \in {"go", "resume"}
  BY <1>0, <1>1 DEF NPU!BeginTransfer, NPU!ContinueTransfer, Thread
<1>4. Head(program) \in Steps
  BY <1>0, <1>3 DEF Types
<1> DEFINE r == NPU!Request(Head(program).op)
<1>5. r \in Transfers
  <2>1. Head(program).op \in {"READ", "WRITE"}
    BY <1>3, <1>4 DEF Steps
  <2> QED
    BY <2>1, Kinds
<1> HIDE DEF r
<1>6. PICK left \in Nat \ {0} :
        /\ k = NPU!Batch(left, pending_responses) /\ pending_responses < Window
        /\ remaining' = left - k /\ pending_responses' = pending_responses + k
        /\ npu_pc' = "wait"
        /\ UNCHANGED <<npu_peq_fw, npu_peq_bw, start_event, response_event, args, program,
                       npu_done, active_core>>
  <2>1. CASE NPU!BeginTransfer(k)
    <3>1. pending_responses = 0 /\ 0 < Window
      BY <1>0, <2>1, MachineAssumption DEF Thread, NPU!BeginTransfer
    <3>2. Head(program).n \in Nat \ {0}
      BY <1>3, <1>4 DEF Steps
    <3> QED
      BY <2>1, <3>1, <3>2 DEF NPU!BeginTransfer, NPU!Send, NPU!eventVars
  <2>2. CASE NPU!ContinueTransfer(k)
    <3>1. remaining \in Nat \ {0} /\ pending_responses < Window
      BY <1>0, <2>2 DEF Types, Thread, NPU!ContinueTransfer
    <3> QED
      BY <2>2, <3>1 DEF NPU!ContinueTransfer, NPU!Send, NPU!eventVars
  <2> QED
    BY <1>1, <2>1, <2>2
<1>7. /\ pending_responses \in Nat
      /\ k \in Nat /\ k > 0 /\ k <= left /\ pending_responses + k <= Window
  BY <1>0, <1>6, BatchFits DEF Types
<1>8. /\ arb_peq_fw' = arb_peq_fw \o Copies(k, r)
      /\ UNCHANGED <<arb_peq_bw, arb_fw, arb_bw>>
  BY <1>1 DEF ARB!nb_transport_fw, r
<1>9. UNCHANGED <<pimInside, trace_done>>
  BY <1>2 DEF pimVars, pimInside
<1>10. /\ PimOK' /\ MemOK' /\ PW!Backlog' = PW!Backlog /\ MW!Backlog' = MW!Backlog
       /\ PW!ComputeLine' = PW!ComputeLine
  <2>1. trace_done' \in BOOLEAN /\ arb_peq_bw' \in Seq(Transfers)
    BY <1>0, <1>8, <1>9 DEF Types, PimOK, PW!IInv, PW!TypeOK
  <2> QED
    BY <1>2, <1>9, <2>1, MemoriesWait
<1> DEFINE c == Copies(k, r)
<1>11. c \in Seq(Requests) /\ Len(Only(c, Transfers)) = k /\ Only(c, Drafts) = <<>>
  BY <1>5, <1>7, CopiesFacts
<1> HIDE DEF c
<1>12. arb_peq_fw \in Seq(Requests)
  BY <1>0 DEF Types
<1>13. /\ arb_peq_fw' \in Seq(Requests)
       /\ Len(Only(arb_peq_fw', Transfers)) = Len(Only(arb_peq_fw, Transfers)) + k
       /\ Len(Only(arb_peq_fw, Transfers)) \in Nat
  BY <1>8, <1>11, <1>12, OnlyAdds DEF c
<1>14. Only(arb_peq_fw', Drafts) = Only(arb_peq_fw, Drafts)
  <2>1. Distributes(Requests, Drafts)
    BY OnlyConcat
  <2>2. Only(arb_peq_fw \o c, Drafts) = Only(arb_peq_fw, Drafts) \o <<>>
    BY <1>11, <1>12, <2>1, Zenon DEF Distributes
  <2>3. Only(arb_peq_fw, Drafts) \in Seq(Requests)
    BY <1>12, OnlySeq
  <2>4. Only(arb_peq_fw, Drafts) \o <<>> = Only(arb_peq_fw, Drafts)
    BY <2>3
  <2> QED
    BY <1>8, <2>2, <2>4 DEF c
<1>15. Types'
  <2>1. remaining' \in Nat /\ pending_responses' \in Nat
    BY <1>6, <1>7
  <2> QED
    BY <1>0, <1>2, <1>6, <1>8, <1>13, <2>1 DEF Types, hostVars
<1>16. Flow'
  <2>1. Returned' = Returned
    BY <1>6, <1>8 DEF Returned
  <2>2. Len(Only(First(arb_fw), Transfers))' = Len(Only(First(arb_fw), Transfers))
    BY <1>8
  <2>3. /\ Len(Only(First(arb_fw), Transfers)) \in Nat /\ Returned \in Nat
        /\ PW!Backlog \in Nat /\ MW!Backlog \in Nat
    BY <1>0, Numbers DEF Returned
  <2>4. Sent' = Sent + k /\ Sent \in Nat
    BY <1>7, <1>13, <2>2, <2>3 DEF Sent
  <2>5. pending_responses = Sent + PW!Backlog + MW!Backlog + Returned
    BY <1>0 DEF Flow
  <2>6. pending_responses' = pending_responses + k
    BY <1>6
  <2>7. Sent + k + PW!Backlog + MW!Backlog + Returned
          = Sent + PW!Backlog + MW!Backlog + Returned + k
    BY <1>7, <2>3, <2>4
  <2>8. PW!Backlog' = PW!Backlog /\ MW!Backlog' = MW!Backlog
    BY <1>10
  <2> QED
    BY <2>1, <2>4, <2>5, <2>6, <2>7, <2>8, Zenon DEF Flow
<1>17. Thread'
  <2>1. npu_peq_bw = <<>> /\ ~response_event
    BY <1>0, <1>3 DEF Thread, Types
  <2> QED
    BY <1>0, <1>3, <1>6, <1>7, <2>1 DEF Thread
<1>18. Target'
  <2>1. Only(pending_q, Starts)' = Only(pending_q, Starts)
    BY <1>2 DEF hostVars
  <2> QED
    BY <1>0, <1>2, <1>3, <1>6, <2>1 DEF Target, One, hostVars
<1>19. Draft'
  <2>1. DraftLine' = DraftLine
    BY <1>2, <1>8, <1>10, <1>14 DEF DraftLine, hostVars
  <2> QED
    BY <1>0, <1>2, <1>9, <2>1 DEF Draft, One, LastAtEnd, hostVars
<1>20. Ending'
  BY <1>0, <1>2 DEF Ending, pimVars, memVars, hostVars
<1> QED
  BY <1>10, <1>15, <1>16, <1>17, <1>18, <1>19, <1>20 DEF Inv

\* A step within the NPU keeps what is said of the others.
LEMMA NpuFrame ==
  ASSUME Inv, UNCHANGED <<hostVars, arbVars, pimVars, memVars>>
  PROVE  /\ PimOK' /\ MemOK' /\ Draft' /\ Ending'
         /\ Sent' = Sent /\ PW!Backlog' = PW!Backlog /\ MW!Backlog' = MW!Backlog
         /\ Len(Only(pending_q, Starts))' = Len(Only(pending_q, Starts))
         /\ UNCHANGED <<host_pc, got>>
<1>0. PimOK /\ Draft /\ Ending
  BY DEF Inv
<1>1. UNCHANGED <<pending_q, arbVars, pimInside, memVars, trace_done, host_pc, got>>
  BY DEF pimVars, pimInside, hostVars
<1>2. trace_done' \in BOOLEAN
  BY <1>0, <1>1 DEF PimOK, PW!IInv, PW!TypeOK
<1>3. /\ PimOK' /\ MemOK' /\ Sent' = Sent /\ PW!Backlog' = PW!Backlog
      /\ MW!Backlog' = MW!Backlog /\ DraftLine' = DraftLine
      /\ Only(pending_q, Starts)' = Only(pending_q, Starts)
  BY <1>1, <1>2, NothingMoves
<1>4. Draft'
  BY <1>0, <1>1, <1>3 DEF Draft, One, LastAtEnd
<1>5. Ending'
  BY <1>0 DEF Ending, pimVars, memVars, hostVars
<1> QED
  BY <1>1, <1>3, <1>4, <1>5

\* The response of a burst is taken.
LEMMA ResponseStep ==
  ASSUME Inv, NPU!peq_bw_cb, UNCHANGED <<hostVars, arbVars, pimVars, memVars>>
  PROVE  Inv'
<1>0. Types /\ PimOK /\ MemOK /\ Flow /\ Thread /\ Target
  BY DEF Inv
<1>1. /\ PimOK' /\ MemOK' /\ Draft' /\ Ending'
      /\ Sent' = Sent /\ PW!Backlog' = PW!Backlog /\ MW!Backlog' = MW!Backlog
      /\ Len(Only(pending_q, Starts))' = Len(Only(pending_q, Starts))
      /\ UNCHANGED <<host_pc, got>>
  BY NpuFrame
<1>2. /\ npu_peq_bw # <<>> /\ npu_peq_bw' = Tail(npu_peq_bw)
      /\ pending_responses' = pending_responses - 1 /\ response_event' = TRUE
      /\ UNCHANGED <<npu_peq_fw, start_event, npu_done, args, npu_pc, program, remaining,
                     active_core>>
  BY DEF NPU!peq_bw_cb, NPU!threadVars
<1>3. npu_peq_bw \in Seq(Transfers) /\ Len(npu_peq_bw) = 1 /\ npu_peq_bw' = <<>>
  <2>1. npu_peq_bw \in Seq(Transfers) /\ Len(npu_peq_bw) <= 1
    BY <1>0 DEF Types, Thread
  <2>2. Len(npu_peq_bw) \in Nat \ {0}
    BY <1>2, <2>1, EmptySeq
  <2>3. Tail(npu_peq_bw) \in Seq(Transfers) /\ Len(Tail(npu_peq_bw)) = Len(npu_peq_bw) - 1
    BY <1>2, <2>1, HeadTailProperties
  <2>4. Len(npu_peq_bw) = 1
    <3> DEFINE n == Len(npu_peq_bw)
    <3>1. n \in Nat \ {0} /\ n <= 1
      BY <2>1, <2>2
    <3> HIDE DEF n
    <3>2. n = 1
      BY <3>1
    <3> QED
      BY <3>2 DEF n
  <2>5. Tail(npu_peq_bw) = <<>>
    <3> DEFINE v == Tail(npu_peq_bw)
    <3>1. v \in Seq(Transfers) /\ Len(v) = 0
      BY <2>3, <2>4
    <3> HIDE DEF v
    <3>2. v = <<>>
      BY <3>1, EmptySeq
    <3> QED
      BY <3>2 DEF v
  <2> QED
    BY <1>2, <2>1, <2>4, <2>5
<1>4. Len(arb_peq_bw) \in Nat /\ Len(arb_bw) \in Nat /\ Sent \in Nat /\ PW!Backlog \in Nat
      /\ MW!Backlog \in Nat /\ pending_responses \in Nat
  BY <1>0, Numbers DEF Sent
<1>5. pending_responses = Sent + PW!Backlog + MW!Backlog + (Len(arb_peq_bw) + Len(arb_bw) + 1)
  BY <1>0, <1>3 DEF Flow, Returned
<1>6. Returned' = Len(arb_peq_bw) + Len(arb_bw) + 0
  BY <1>3 DEF Returned, arbVars
<1>7. pending_responses' \in Nat
  BY <1>2, <1>4, <1>5
<1>8. Types'
  BY <1>0, <1>2, <1>3, <1>7 DEF Types, hostVars, arbVars
<1>9. Flow'
  BY <1>1, <1>2, <1>4, <1>5, <1>6 DEF Flow
<1>10. Thread'
  <2>1. pending_responses' < Window /\ pending_responses' <= Window
    BY <1>0, <1>2, <1>4, MachineAssumption DEF Thread
  <2>2. npu_pc = "wait" /\ program # <<>> /\ Head(program).op # "COMPUTE"
    BY <1>0, <1>2 DEF Thread
  <2>3. Len(npu_peq_bw') <= 1
    BY <1>3
  <2> QED
    BY <1>2, <1>3, <2>1, <2>2, <2>3 DEF Thread
<1>11. Target'
  BY <1>0, <1>1, <1>2 DEF Target, One
<1> QED
  BY <1>1, <1>8, <1>9, <1>10, <1>11 DEF Inv

\* The other steps of the NPU.
LEMMA ThreadStep ==
  ASSUME Inv, UNCHANGED <<hostVars, arbVars, pimVars, memVars>>,
         \/ NPU!peq_fw_cb \/ NPU!DeliverStart \/ NPU!DeliverResponse
         \/ NPU!Drain \/ NPU!BeginCompute \/ NPU!Finish \/ NPU!EndCompute
  PROVE  Inv'
<1>0. Types /\ PimOK /\ MemOK /\ Flow /\ Thread /\ Target
  BY DEF Inv
<1>1. /\ PimOK' /\ MemOK' /\ Draft' /\ Ending'
      /\ Sent' = Sent /\ PW!Backlog' = PW!Backlog /\ MW!Backlog' = MW!Backlog
      /\ Len(Only(pending_q, Starts))' = Len(Only(pending_q, Starts))
      /\ UNCHANGED <<host_pc, got>>
  BY NpuFrame
<1>2. UNCHANGED <<npu_peq_bw, pending_responses>>
  BY DEF NPU!peq_fw_cb, NPU!DeliverStart, NPU!DeliverResponse, NPU!Drain, NPU!BeginCompute,
     NPU!Finish, NPU!EndCompute
<1>3. Flow'
  <2>1. Returned' = Returned
    BY <1>2 DEF Returned, arbVars
  <2> QED
    BY <1>0, <1>1, <1>2, <2>1 DEF Flow
<1>4. Len(Only(pending_q, Starts)) \in Nat /\ Len(npu_peq_fw) \in Nat
  BY <1>0, Numbers
<1>5. SUFFICES Types' /\ Thread' /\ Target'
  BY <1>1, <1>3 DEF Inv
<1>6. /\ UNCHANGED <<episode, pending_q, host_pc, got, active_host, stopped>>
      /\ UNCHANGED <<arb_peq_fw, arb_fw, arb_peq_bw, arb_bw>>
  BY DEF hostVars, arbVars
<1>7. CASE NPU!peq_fw_cb
  <2>1. /\ npu_peq_fw # <<>> /\ npu_peq_fw' = Tail(npu_peq_fw) /\ start_event' = TRUE
        /\ UNCHANGED <<response_event, npu_done, npu_pc, program, remaining, active_core>>
    BY <1>7 DEF NPU!peq_fw_cb, NPU!threadVars
  <2>2. args' \in Args
    <3>1. Head(npu_peq_fw) \in Args
      BY <1>0, <2>1 DEF Types
    <3>2. args' = [x \in {"context", "query", "kv_write"} |->
                     IF Head(npu_peq_fw)[x] = 0 THEN 1 ELSE Head(npu_peq_fw)[x]]
      BY <1>7 DEF NPU!peq_fw_cb, NPU!AtLeastOne
    <3> QED
      BY <3>1, <3>2 DEF Args
  <2>3. npu_peq_fw' \in Seq(Args) /\ Len(npu_peq_fw) = Len(npu_peq_fw') + 1
    BY <1>0, <2>1 DEF Types
  <2>4. Types'
    BY <1>0, <1>2, <1>6, <2>1, <2>2, <2>3 DEF Types
  <2>5. Thread'
    BY <1>0, <1>2, <2>1 DEF Thread
  <2>6. Target'
    <3>1. Len(npu_peq_fw') \in Nat
      BY <2>3
    <3> QED
      BY <1>0, <1>1, <1>4, <2>1, <2>3, <3>1 DEF Target, One, Types
  <2> QED
    BY <2>4, <2>5, <2>6
<1>8. CASE NPU!DeliverStart
  <2>1. npu_pc = "idle" /\ start_event
    BY <1>0, <1>4, <1>8 DEF NPU!DeliverStart, Target, One
  <2>2. /\ start_event' = FALSE /\ npu_pc' = "go" /\ active_core' = 1
        /\ program' = NPU!Trace(args)
        /\ UNCHANGED <<npu_peq_fw, response_event, npu_done, args, remaining>>
    BY <1>8, <2>1 DEF NPU!DeliverStart
  <2>3. program' \in Seq(Steps)
    BY <1>0, <2>2, TraceType DEF Types
  <2>4. Types'
    BY <1>0, <1>2, <1>6, <2>2, <2>3 DEF Types
  <2>5. Thread'
    BY <1>0, <1>2, <2>1, <2>2 DEF Thread
  <2>6. Target'
    BY <1>0, <1>1, <1>4, <2>1, <2>2 DEF Target, One
  <2> QED
    BY <2>4, <2>5, <2>6
<1>9. CASE NPU!DeliverResponse
  <2>1. response_event /\ npu_pc = "wait"
    BY <1>0, <1>9 DEF NPU!DeliverResponse, Thread
  <2>2. /\ response_event' = FALSE /\ npu_pc' = "resume"
        /\ UNCHANGED <<npu_peq_fw, start_event, npu_done, args, program, remaining, active_core>>
    BY <1>9, <2>1 DEF NPU!DeliverResponse
  <2>3. Types'
    BY <1>0, <1>2, <1>6, <2>2 DEF Types
  <2>4. Thread'
    BY <1>0, <1>2, <2>1, <2>2 DEF Thread
  <2>5. Target'
    BY <1>0, <1>1, <2>1, <2>2 DEF Target, One
  <2> QED
    BY <2>3, <2>4, <2>5
<1>10. CASE NPU!Drain \/ NPU!BeginCompute \/ NPU!EndCompute
  <2>1. /\ npu_pc \in {"go", "resume", "compute"} /\ program # <<>>
        /\ UNCHANGED <<npu_peq_fw, start_event, response_event, npu_done, args, remaining,
                       active_core>>
        /\ \/ npu_pc' = "wait" /\ npu_pc = "resume" /\ program' = program
           \/ npu_pc' = "compute" /\ npu_pc = "go" /\ program' = program
           \/ npu_pc' = "go" /\ program' = Tail(program)
                /\ (npu_pc = "compute" \/ ~(pending_responses > 0))
    <3>1. CASE NPU!Drain
      BY <1>0, <3>1 DEF NPU!Drain, NPU!eventVars, Thread
    <3>2. CASE NPU!BeginCompute
      BY <3>2 DEF NPU!BeginCompute, NPU!eventVars
    <3>3. CASE NPU!EndCompute
      BY <1>0, <3>3 DEF NPU!EndCompute, NPU!eventVars, Thread
    <3> QED
      BY <1>10, <3>1, <3>2, <3>3
  <2>2. program' \in Seq(Steps)
    <3>1. program \in Seq(Steps)
      BY <1>0 DEF Types
    <3>2. Tail(program) \in Seq(Steps)
      BY <2>1, <3>1, HeadTailProperties
    <3> QED
      BY <2>1, <3>1, <3>2
  <2>3. Types'
    BY <1>0, <1>2, <1>6, <2>1, <2>2 DEF Types
  <2>4. Thread'
    <3>1. npu_pc' = "go" => pending_responses' = 0
      BY <1>0, <1>2, <2>1 DEF Thread, Types
    <3> QED
      BY <1>0, <1>2, <2>1, <3>1 DEF Thread
  <2>5. Target'
    BY <1>0, <1>1, <2>1 DEF Target, One
  <2> QED
    BY <2>3, <2>4, <2>5
<1>11. CASE NPU!Finish
  <2>1. /\ npu_pc = "go" /\ npu_pc' = "idle" /\ active_core' = 0 /\ npu_done' = TRUE
        /\ UNCHANGED <<npu_peq_fw, start_event, response_event, args, program, remaining>>
    BY <1>11 DEF NPU!Finish
  <2>2. Types'
    BY <1>0, <1>2, <1>6, <2>1 DEF Types
  <2>3. Thread'
    BY <1>0, <1>2, <2>1 DEF Thread
  <2>4. Target'
    BY <1>0, <1>1, <1>4, <2>1 DEF Target, One, Types
  <2> QED
    BY <2>2, <2>3, <2>4
<1> QED
  BY <1>7, <1>8, <1>9, <1>10, <1>11

-----------------------------------------------------------------------------
(* The arbiter's steps                                                     *)

\* A request is routed.
LEMMA RouteRequestStep ==
  ASSUME Inv, ARB!peq_fw_cb, UNCHANGED <<hostVars, npuVars, pimVars, memVars>>
  PROVE  Inv'
<1>0. Types /\ PimOK /\ MemOK /\ Flow /\ Thread /\ Target /\ Draft /\ Ending
  BY DEF Inv
<1> DEFINE r == Head(arb_peq_fw)  p == <<r, ARB!Target(r)>>
<1>1. /\ arb_peq_fw # <<>> /\ arb_peq_fw' = Tail(arb_peq_fw)
      /\ arb_fw' = Append(arb_fw, p) /\ UNCHANGED <<arb_peq_bw, arb_bw>>
  BY DEF ARB!peq_fw_cb
<1>2. arb_peq_fw \in Seq(Requests) /\ arb_fw \in Seq(Hops)
  BY <1>0 DEF Types
<1>3. r \in Requests /\ Tail(arb_peq_fw) \in Seq(Requests)
  BY <1>1, <1>2
<1>4. p \in Hops /\ p[1] = r
  <2>1. r \in Drafts \/ r \in Transfers
    BY <1>3 DEF Requests
  <2>2. ARB!Target(r) = "PIM" \/ (r \in Transfers /\ DramEnabled /\ ARB!Target(r) = "DRAM")
    BY <2>1, Kinds DEF ARB!Target
  <2> QED
    BY <1>3, <2>2 DEF Hops
<1> HIDE DEF p
<1>5. Append(arb_fw, p) \in Seq(Hops) /\ First(Append(arb_fw, p)) = Append(First(arb_fw), r)
  <2>2. First(Append(arb_fw, p)) = Append(First(arb_fw), p[1])
    BY <1>2, <1>4, HopsFirst, Zenon DEF TakesFirst
  <2>3. Append(arb_fw, p) \in Seq(Hops)
    BY <1>2, <1>4, AppendProperties
  <2> QED
    BY <1>4, <2>2, <2>3
<1>6. UNCHANGED <<trace_done, pimInside>>
  BY DEF pimVars, pimInside
<1>7. /\ PimOK' /\ MemOK' /\ PW!Backlog' = PW!Backlog /\ MW!Backlog' = MW!Backlog
      /\ PW!ComputeLine' = PW!ComputeLine
  <2>1. trace_done' \in BOOLEAN /\ arb_peq_bw' \in Seq(Transfers)
    BY <1>0, <1>1, <1>6 DEF Types, PimOK, PW!IInv, PW!TypeOK
  <2> QED
    BY <1>6, <2>1, MemoriesWait
<1>8. /\ First(arb_fw) \in Seq(Requests) /\ First(arb_fw) \in Seq(Everything)
      /\ arb_peq_fw \in Seq(Everything)
  BY <1>0, QueueTypes
<1>9. Types'
  BY <1>0, <1>1, <1>3, <1>5 DEF Types, hostVars, npuVars
<1>10. Sent' = Sent
  <2>1. Len(Only(Append(First(arb_fw), r), Transfers))
          = Len(Only(First(arb_fw), Transfers)) + (IF r \in Transfers THEN 1 ELSE 0)
    BY <1>3, <1>8, OnlyCounts, SMTT(30)
  <2>2. Len(Only(arb_peq_fw, Transfers))
          = Len(Only(Tail(arb_peq_fw), Transfers)) + (IF r \in Transfers THEN 1 ELSE 0)
        /\ Len(Only(Tail(arb_peq_fw), Transfers)) \in Nat
    BY <1>1, <1>2, OnlyCounts
  <2>3. Len(Only(First(arb_fw), Transfers)) \in Nat
    BY <1>0, Numbers
  <2>4. Sent' = Len(Only(Tail(arb_peq_fw), Transfers))
                  + Len(Only(Append(First(arb_fw), r), Transfers))
    BY <1>1, <1>5 DEF Sent
  <2> QED
    BY <2>1, <2>2, <2>3, <2>4 DEF Sent
<1>11. Flow' /\ Thread'
  <2>1. Returned' = Returned
    BY <1>1 DEF Returned, npuVars
  <2> QED
    BY <1>0, <1>7, <1>10, <2>1 DEF Flow, Thread, npuVars
<1>12. Target'
  <2>1. Only(pending_q, Starts)' = Only(pending_q, Starts)
    BY DEF hostVars
  <2> QED
    BY <1>0, <2>1 DEF Target, One, hostVars, npuVars
<1>13. DraftLine' = DraftLine
  <2> DEFINE u == PW!ComputeLine
  <2>1. u \in Seq(Everything)
    BY <1>0, LineParts
  <2>2. DraftLine = ((u \o Only(First(arb_fw), Drafts)) \o Only(arb_peq_fw, Drafts))
                      \o Only(pending_q, Drafts)
    BY DEF DraftLine
  <2>3. DraftLine' = ((u \o Only(Append(First(arb_fw), r), Drafts))
                        \o Only(Tail(arb_peq_fw), Drafts)) \o Only(pending_q, Drafts)
    BY <1>1, <1>5, <1>7 DEF DraftLine, hostVars
  <2> HIDE DEF u
  <2>4. Moves(Everything, Drafts)
    BY OnlyMoves
  <2>5. (u \o Only(Append(First(arb_fw), r), Drafts)) \o Only(Tail(arb_peq_fw), Drafts)
          = (u \o Only(First(arb_fw), Drafts)) \o Only(arb_peq_fw, Drafts)
    BY <1>1, <1>8, <2>1, <2>4, Zenon DEF Moves
  <2> QED
    BY <2>2, <2>3, <2>5
<1>14. Draft'
  BY <1>0, <1>6, <1>13 DEF Draft, One, LastAtEnd, hostVars
<1>15. Ending'
  BY <1>0 DEF Ending, pimVars, memVars, hostVars
<1> QED
  BY <1>7, <1>9, <1>11, <1>12, <1>14, <1>15 DEF Inv

\* A response moves on towards the NPU.
LEMMA AnswerStep ==
  ASSUME Inv,
         \/ ARB!peq_bw_cb /\ UNCHANGED <<hostVars, npuVars, pimVars, memVars>>
         \/ ArbiterAnswers
  PROVE  Inv'
<1>0. Types /\ PimOK /\ MemOK /\ Flow /\ Thread /\ Target /\ Draft /\ Ending
  BY DEF Inv
<1>1. /\ UNCHANGED <<hostVars, pimVars, memVars, arb_peq_fw, arb_fw>>
      /\ UNCHANGED <<npu_peq_fw, start_event, response_event, args, npu_pc, program,
                     remaining, pending_responses, npu_done, active_core>>
  BY DEF ArbiterAnswers, ARB!peq_bw_cb, ARB!clock_posedge, NPU!nb_transport_bw, NPU!eventVars,
     NPU!threadVars, npuVars
<1>2. /\ arb_peq_bw' \in Seq(Transfers) /\ arb_bw' \in Seq(Returns)
      /\ npu_peq_bw' \in Seq(Transfers) /\ Returned' = Returned
      /\ npu_peq_bw' # npu_peq_bw => /\ Quiet /\ arb_bw # <<>> /\ Len(npu_peq_bw') = 1
  <2>0. /\ arb_peq_bw \in Seq(Transfers) /\ arb_bw \in Seq(Returns)
        /\ npu_peq_bw \in Seq(Transfers)
    BY <1>0 DEF Types
  <2>1. CASE ARB!peq_bw_cb /\ UNCHANGED <<hostVars, npuVars, pimVars, memVars>>
    <3>1. /\ arb_peq_bw # <<>> /\ arb_peq_bw' = Tail(arb_peq_bw) /\ npu_peq_bw' = npu_peq_bw
          /\ arb_bw' = Append(arb_bw, <<Head(arb_peq_bw),
                         IF Head(arb_peq_bw).src = "HOST" THEN "HOST" ELSE "NPU">>)
      BY <2>1 DEF ARB!peq_bw_cb, npuVars
    <3>2. Head(arb_peq_bw) \in Transfers
      BY <2>0, <3>1
    <3>3. <<Head(arb_peq_bw), IF Head(arb_peq_bw).src = "HOST" THEN "HOST" ELSE "NPU">> \in Returns
      BY <3>2, Kinds DEF Returns
    <3>4. arb_bw' \in Seq(Returns) /\ Len(arb_bw') = Len(arb_bw) + 1
      BY <2>0, <3>1, <3>3, AppendProperties
    <3>5. arb_peq_bw' \in Seq(Transfers) /\ Len(arb_peq_bw') = Len(arb_peq_bw) - 1
      BY <2>0, <3>1, HeadTailProperties
    <3>6. Len(arb_bw) \in Nat /\ Len(arb_peq_bw) \in Nat /\ Len(npu_peq_bw) \in Nat
      BY <2>0, LenProperties
    <3>7. Returned' = Returned
      BY <3>1, <3>4, <3>5, <3>6 DEF Returned
    <3> QED
      BY <2>0, <3>1, <3>4, <3>5, <3>7
  <2>2. CASE ArbiterAnswers
    <3>1. /\ Quiet /\ arb_bw # <<>> /\ arb_bw' = Tail(arb_bw) /\ arb_peq_bw' = arb_peq_bw
          /\ npu_peq_bw' = Append(npu_peq_bw, Head(arb_bw)[1])
      BY <2>2 DEF ArbiterAnswers, ARB!clock_posedge, NPU!nb_transport_bw
    <3>2. Head(arb_bw) \in Returns
      BY <2>0, <3>1
    <3>3. Head(arb_bw)[1] \in Transfers
      BY <3>2 DEF Returns
    <3>4. arb_bw' \in Seq(Returns) /\ Len(arb_bw') = Len(arb_bw) - 1
      BY <2>0, <3>1, HeadTailProperties
    <3>5. npu_peq_bw' \in Seq(Transfers) /\ Len(npu_peq_bw') = Len(npu_peq_bw) + 1
      BY <2>0, <3>1, <3>3, AppendProperties
    <3>6. Len(arb_bw) \in Nat /\ Len(arb_peq_bw) \in Nat /\ Len(npu_peq_bw) \in Nat
      BY <2>0, LenProperties
    <3>7. Returned' = Returned
      BY <3>1, <3>4, <3>5, <3>6 DEF Returned
    <3>8. npu_peq_bw = <<>>
      BY <3>1 DEF Quiet, NPU!DeltaPending
    <3>9. Len(npu_peq_bw') = 1
      BY <3>5, <3>8
    <3> QED
      BY <2>0, <3>1, <3>4, <3>5, <3>7, <3>9
  <2> QED
    BY <2>1, <2>2
<1>3. UNCHANGED <<trace_done, pimInside>>
  BY <1>1 DEF pimVars, pimInside
<1>4. /\ PimOK' /\ MemOK' /\ PW!Backlog' = PW!Backlog /\ MW!Backlog' = MW!Backlog
      /\ PW!ComputeLine' = PW!ComputeLine
  <2>1. trace_done' \in BOOLEAN
    BY <1>0, <1>3 DEF PimOK, PW!IInv, PW!TypeOK
  <2> QED
    BY <1>1, <1>2, <1>3, <2>1, MemoriesWait
<1>5. Types'
  BY <1>0, <1>1, <1>2 DEF Types, hostVars
<1>6. Flow'
  <2>1. Sent' = Sent
    BY <1>1 DEF Sent
  <2> QED
    BY <1>0, <1>1, <1>2, <1>4, <2>1 DEF Flow
<1>7. Thread'
  <2>1. CASE npu_peq_bw' = npu_peq_bw
    BY <1>0, <1>1, <2>1 DEF Thread
  <2>2. CASE npu_peq_bw' # npu_peq_bw
    <3>1. Quiet /\ arb_bw # <<>> /\ Len(npu_peq_bw') = 1
      BY <1>2, <2>2
    <3>2. pending_responses # 0
      <4>1. arb_bw \in Seq(Returns)
        BY <1>0 DEF Types
      <4>2. Len(arb_bw) \in Nat \ {0}
        BY <3>1, <4>1, EmptySeq
      <4>3. /\ Sent \in Nat /\ PW!Backlog \in Nat /\ MW!Backlog \in Nat
            /\ Len(arb_peq_bw) \in Nat /\ Len(npu_peq_bw) \in Nat
        BY <1>0, Numbers DEF Sent
      <4> QED
        BY <1>0, <4>2, <4>3 DEF Flow, Returned
    <3>3. npu_pc = "wait" /\ ~response_event
      BY <1>0, <3>1, <3>2 DEF Thread, Types, Quiet, NPU!DeltaPending, NPU!Running
    <3>4. Len(npu_peq_bw') <= 1
      BY <3>1
    <3> QED
      BY <1>0, <1>1, <3>3, <3>4 DEF Thread
  <2> QED
    BY <2>1, <2>2
<1>8. Target'
  <2>1. Only(pending_q, Starts)' = Only(pending_q, Starts)
    BY <1>1 DEF hostVars
  <2> QED
    BY <1>0, <1>1, <2>1 DEF Target, One, hostVars
<1>9. Draft'
  <2>1. DraftLine' = DraftLine
    BY <1>1, <1>4 DEF DraftLine, hostVars
  <2> QED
    BY <1>0, <1>1, <1>3, <2>1 DEF Draft, One, LastAtEnd, hostVars
<1>10. Ending'
  BY <1>0, <1>1 DEF Ending, pimVars, memVars, hostVars
<1> QED
  BY <1>4, <1>5, <1>6, <1>7, <1>8, <1>9, <1>10 DEF Inv

\* push_back before a rest is push_front of the rest.
LEMMA PushFront ==
  ASSUME NEW T, NEW a \in Seq(T), NEW x \in Seq(T), NEW e \in T
  PROVE  Append(a, e) \o x = a \o (<<e>> \o x) /\ <<>> \o x = x
<1>1. Associates(T) /\ HasUnit(T)
  BY ConcatLaws
<1>2. <<e>> \in Seq(T) /\ Append(a, e) = a \o <<e>>
  BY AppendIsConcat
<1>3. (a \o <<e>>) \o x = a \o (<<e>> \o x)
  BY <1>1, <1>2, Zenon DEF Associates
<1>4. <<>> \o x = x
  BY <1>1, Zenon DEF HasUnit
<1> QED
  BY <1>2, <1>3, <1>4, Zenon

\* A request is handed to its memory.
LEMMA ForwardStep ==
  ASSUME Inv, ArbiterForwards
  PROVE  Inv'
<1>0. Types /\ PimOK /\ MemOK /\ Flow /\ Thread /\ Target /\ Draft /\ Ending
  BY DEF Inv
<1> DEFINE r == Head(arb_fw)[1]  d == Head(arb_fw)[2]  F == First(arb_fw)
           X == Only(Tail(F), Drafts)
<1>1. /\ arb_fw # <<>> /\ arb_fw' = Tail(arb_fw) /\ UNCHANGED <<arb_peq_fw, arb_peq_bw, arb_bw>>
      /\ UNCHANGED <<hostVars, npuVars>>
      /\ IF d = "PIM" THEN PIM!nb_transport_fw(r) /\ UNCHANGED memVars
                      ELSE MEM!nb_transport_fw(r) /\ UNCHANGED pimVars
  BY DEF ArbiterForwards, ARB!clock_negedge
<1>2. arb_fw \in Seq(Hops) /\ Head(arb_fw) \in Hops /\ Tail(arb_fw) \in Seq(Hops)
  <2>1. arb_fw \in Seq(Hops)
    BY <1>0 DEF Types
  <2> QED
    BY <1>1, <2>1, HeadTailProperties
<1>3. r \in Requests /\ (d = "PIM" \/ (r \in Transfers /\ DramEnabled))
  BY <1>2 DEF Hops
<1>4. /\ F \in Seq(Requests) /\ F # <<>> /\ Head(F) = r /\ First(Tail(arb_fw)) = Tail(F)
  BY <1>1, <1>2, HopsFirst, Zenon DEF TakesFirst
<1>5. F \in Seq(Everything) /\ Tail(F) \in Seq(Everything) /\ r \in Everything
  BY <1>0, <1>3, <1>4, QueueTypes DEF Everything
<1> HIDE DEF F
<1>6. /\ Len(Only(Tail(F), Transfers)) \in Nat
      /\ Len(Only(F, Transfers)) = Len(Only(Tail(F), Transfers))
                                     + (IF r \in Transfers THEN 1 ELSE 0)
  BY <1>4, <1>5, OnlyCounts
<1>7. Only(F, Drafts) = (IF r \in Drafts THEN <<r>> ELSE <<>>) \o X
  BY <1>4, <1>5, OnlyHead
<1>8. X \in Seq(Everything) /\ PW!ComputeLine \in Seq(Everything)
  BY <1>0, <1>5, OnlySeq, LineParts
<1>9. First(arb_fw)' = Tail(F)
  BY <1>1, <1>4
<1>10. /\ PimOK' /\ MemOK' /\ PW!Backlog \in Nat /\ MW!Backlog \in Nat
       /\ PW!Backlog' \in Nat /\ MW!Backlog' \in Nat
       /\ PW!Backlog' + MW!Backlog' = PW!Backlog + MW!Backlog
                                        + (IF r \in Transfers THEN 1 ELSE 0)
       /\ PW!ComputeLine' = IF r \in Drafts THEN Append(PW!ComputeLine, r) ELSE PW!ComputeLine
       /\ UNCHANGED <<pim_pc, mem_pc, trace_done>>
  <2>0. PW!Backlog \in Nat /\ MW!Backlog \in Nat
    BY <1>0, Backlogs
  <2>1. arb_peq_bw' \in Seq(Transfers)
    BY <1>0, <1>1 DEF Types
  <2>2. CASE d = "PIM"
    <3>1. /\ PimOK' /\ PW!Backlog' = PW!Backlog + One(r \in Transfers)
          /\ PW!ComputeLine' = IF r \in Drafts THEN Append(PW!ComputeLine, r)
                                               ELSE PW!ComputeLine
          /\ pim_pc' = pim_pc /\ trace_done' = trace_done
      BY <1>0, <1>1, <1>3, <2>2, PimTakes
    <3>2. MemOK' /\ MW!Backlog' = MW!Backlog /\ mem_pc' = mem_pc
      BY <1>0, <1>1, <2>1, <2>2, MemWaits DEF memVars
    <3>3. /\ PW!Backlog' \in Nat /\ MW!Backlog' \in Nat
          /\ PW!Backlog' + MW!Backlog' = PW!Backlog + MW!Backlog
                                           + (IF r \in Transfers THEN 1 ELSE 0)
      <4> DEFINE b == PW!Backlog  c == PW!Backlog'  m == MW!Backlog  n == MW!Backlog'
                 k == IF r \in Transfers THEN 1 ELSE 0
      <4>1. b \in Nat /\ m \in Nat /\ k \in Nat /\ c = b + k /\ n = m
        BY <2>0, <3>1, <3>2 DEF One
      <4> HIDE DEF b, c, m, n, k
      <4>2. c \in Nat /\ n \in Nat /\ c + n = b + m + k
        BY <4>1
      <4> QED
        BY <4>2 DEF b, c, m, n, k
    <3> QED
      BY <2>0, <3>1, <3>2, <3>3, Zenon
  <2>3. CASE d # "PIM"
    <3>1. r \in Transfers /\ DramEnabled /\ r \notin Drafts
      BY <1>3, <2>3, Apart
    <3>2. MemOK' /\ MW!Backlog' = MW!Backlog + 1 /\ mem_pc' = mem_pc
      BY <1>0, <1>1, <2>3, <3>1, MemTakes
    <3>3. UNCHANGED <<pimInside, trace_done, pim_pc>> /\ trace_done \in BOOLEAN
      BY <1>0, <1>1, <2>3 DEF pimVars, pimInside, PimOK, PW!IInv, PW!TypeOK
    <3>4. PimOK' /\ PW!Backlog' = PW!Backlog /\ PW!ComputeLine' = PW!ComputeLine
      BY <1>0, <2>1, <3>3, PimWaits
    <3> QED
      BY <2>0, <3>1, <3>2, <3>3, <3>4
  <2> QED
    BY <2>2, <2>3
<1>11. Types'
  BY <1>0, <1>1, <1>2 DEF Types, hostVars, npuVars
<1>12. Flow'
  <2>1. Returned' = Returned /\ Returned \in Nat /\ pending_responses' = pending_responses
    BY <1>0, <1>1, Numbers DEF Returned, npuVars
  <2>2. /\ Sent = Len(Only(arb_peq_fw, Transfers)) + Len(Only(F, Transfers))
        /\ Sent' = Len(Only(arb_peq_fw, Transfers)) + Len(Only(Tail(F), Transfers))
        /\ Len(Only(arb_peq_fw, Transfers)) \in Nat
    BY <1>0, <1>1, <1>9, Numbers DEF Sent, F
  <2>3. Sent \in Nat /\ Sent' \in Nat /\ Sent = Sent' + (IF r \in Transfers THEN 1 ELSE 0)
    BY <1>6, <2>2
  <2> DEFINE b == PW!Backlog  c == PW!Backlog'  m == MW!Backlog  n == MW!Backlog'
             s == Sent  u == Sent'  o == Returned  k == IF r \in Transfers THEN 1 ELSE 0
  <2>4. /\ b \in Nat /\ c \in Nat /\ m \in Nat /\ n \in Nat /\ s \in Nat /\ u \in Nat
        /\ o \in Nat /\ k \in Nat /\ c + n = b + m + k /\ s = u + k
    BY <1>10, <2>1, <2>3
  <2>5. pending_responses = s + b + m + o
    BY <1>0 DEF Flow
  <2> HIDE DEF b, c, m, n, s, u, o, k
  <2>6. pending_responses = u + c + n + o
    BY <2>4, <2>5
  <2> QED
    BY <2>1, <2>6 DEF Flow, b, c, m, n, s, u, o
<1>13. Thread' /\ Target'
  <2>1. Only(pending_q, Starts)' = Only(pending_q, Starts)
    BY <1>1 DEF hostVars
  <2> QED
    BY <1>0, <1>1, <2>1 DEF Thread, Target, One, hostVars, npuVars
<1>14. DraftLine' = DraftLine
  <2> DEFINE a == PW!ComputeLine
  <2>1. /\ DraftLine = ((a \o Only(F, Drafts)) \o Only(arb_peq_fw, Drafts))
                         \o Only(pending_q, Drafts)
        /\ DraftLine' = ((a' \o X) \o Only(arb_peq_fw, Drafts)) \o Only(pending_q, Drafts)
    BY <1>1, <1>9 DEF DraftLine, F, hostVars
  <2>2. a' = (IF r \in Drafts THEN Append(a, r) ELSE a)
    BY <1>10
  <2>3. a \in Seq(Everything)
    BY <1>8
  <2> HIDE DEF X
  <2>4. Append(a, r) \o X = a \o (<<r>> \o X) /\ <<>> \o X = X
    BY <1>5, <1>8, <2>3, PushFront
  <2> HIDE DEF a
  <2>5. a' \o X = a \o Only(F, Drafts)
    BY <1>7, <2>2, <2>4
  <2> QED
    BY <2>1, <2>5
<1>15. Draft'
  BY <1>0, <1>1, <1>10, <1>14 DEF Draft, One, LastAtEnd, hostVars
<1>16. Ending'
  BY <1>0, <1>1, <1>10 DEF Ending, hostVars
<1> QED
  BY <1>10, <1>11, <1>12, <1>13, <1>15, <1>16 DEF Inv

-----------------------------------------------------------------------------
(* The memories' steps                                                     *)

Counted == PW!Backlog \in Nat /\ MW!Backlog \in Nat

\* The backlogs are numbers after a step, too.
LEMMA CountedNext == PimOK' /\ MemOK' => Counted'
<1>1. PimOK /\ MemOK => Counted
  BY Backlogs DEF Counted
<1> QED
  BY <1>1, PTL

\* A line in two parts begins with its first.
PopsPart(T) == \A v, w \in Seq(T) :
  v # <<>> => /\ v \o w \in Seq(T) /\ v \o w # <<>> /\ Head(v \o w) = Head(v)
              /\ Tail(v \o w) = Tail(v) \o w

\* pop_front of the first part is pop_front of the line.
LEMMA PopParts == \A T : PopsPart(T)
<1> TAKE T
<1> QED
  BY DEF PopsPart

\* A step of the PIM device.
LEMMA PimDeviceStep ==
  ASSUME Inv, PimStep
  PROVE  Inv'
<1>0. Types /\ PimOK /\ MemOK /\ Flow /\ Thread /\ Target /\ Draft /\ Ending
  BY DEF Inv
<1>1. /\ UNCHANGED <<hostVars, npuVars, arbRest, memVars>>
      /\ PIM!Run \/ PIM!Delta \/ PIM!Timed
  BY DEF PimStep
<1>2. arb_peq_bw \in Seq(Transfers)
  BY <1>0 DEF Types
<1>3. /\ PimOK' /\ arb_peq_bw' \in Seq(Transfers)
      /\ PW!Backlog' + Len(arb_peq_bw') = PW!Backlog + Len(arb_peq_bw)
      /\ \/ PW!ComputeLine' = PW!ComputeLine /\ trace_done' = trace_done
         \/ /\ PW!ComputeLine # <<>> /\ PW!ComputeLine' = Tail(PW!ComputeLine)
            /\ trace_done' = (trace_done \/ Head(PW!ComputeLine).last)
      /\ pim_pc' = "done" => pim_pc = "done" \/ ~Active
  BY <1>0, <1>1, <1>2, PimServes
<1>4. MemOK' /\ MW!Backlog' = MW!Backlog
  BY <1>0, <1>1, <1>3, MemWaits
<1>5. Types'
  BY <1>0, <1>1, <1>3 DEF Types, hostVars, npuVars, arbRest
<1>6. Flow'
  <2> DEFINE b == PW!Backlog  c == PW!Backlog'  m == MW!Backlog  s == Sent
             x == Len(arb_peq_bw)  y == Len(arb_peq_bw')  z == Len(arb_bw)
             w == Len(npu_peq_bw)
  <2>1. c \in Nat
    BY <1>3, <1>4, CountedNext DEF Counted
  <2>2. y \in Nat
    BY <1>3
  <2>3. b \in Nat /\ m \in Nat /\ x \in Nat /\ z \in Nat /\ w \in Nat
    BY <1>0, Numbers
  <2>4. s \in Nat
    BY <1>0, Numbers DEF Sent
  <2>5. c + y = b + x
    BY <1>3
  <2>6. pending_responses = s + b + m + (x + z + w)
    BY <1>0 DEF Flow, Returned
  <2>7. /\ MW!Backlog' = m /\ Sent' = s /\ Returned' = y + z + w
        /\ pending_responses' = pending_responses
    BY <1>1, <1>4 DEF Sent, Returned, arbRest, npuVars
  <2> HIDE DEF b, c, m, s, x, y, z, w
  <2>8. pending_responses = s + c + m + (y + z + w)
    BY <2>1, <2>2, <2>3, <2>4, <2>5, <2>6
  <2> QED
    BY <2>7, <2>8 DEF Flow, c
<1>7. Thread' /\ Target'
  <2>1. Only(pending_q, Starts)' = Only(pending_q, Starts)
    BY <1>1 DEF hostVars
  <2> QED
    BY <1>0, <1>1, <2>1 DEF Thread, Target, One, hostVars, npuVars
<1>8. Draft'
  <2> DEFINE a == PW!ComputeLine  b == Only(First(arb_fw), Drafts)
             c == Only(arb_peq_fw, Drafts)  d == Only(pending_q, Drafts)
  <2>1. /\ DraftLine = ((a \o b) \o c) \o d
        /\ DraftLine' = ((a' \o b) \o c) \o d
    BY <1>1 DEF DraftLine, arbRest, hostVars
  <2>2. /\ a \in Seq(Everything) /\ b \in Seq(Everything) /\ c \in Seq(Everything)
        /\ d \in Seq(Everything) /\ DraftLine \in Seq(Everything)
    BY <1>0, LineParts
  <2>3. got' = got /\ host_pc' = host_pc
    BY <1>1 DEF hostVars
  <2>4. CASE a' = a /\ trace_done' = trace_done
    <3>1. DraftLine' = DraftLine
      BY <2>1, <2>4
    <3> QED
      BY <1>0, <2>3, <2>4, <3>1 DEF Draft, One, LastAtEnd
  <2>5. CASE a # <<>> /\ a' = Tail(a) /\ trace_done' = (trace_done \/ Head(a).last)
    <3> DEFINE l == ((a \o b) \o c) \o d
    <3>1. l # <<>> /\ Head(l) = Head(a) /\ Tail(l) = ((Tail(a) \o b) \o c) \o d
      <4>1. PopsPart(Everything)
        BY PopParts
      <4>2. /\ a \in Seq(Everything) /\ b \in Seq(Everything) /\ c \in Seq(Everything)
            /\ d \in Seq(Everything) /\ a # <<>>
        BY <2>2, <2>5
      <4> DEFINE x == a \o b  y == x \o c
      <4> HIDE DEF a, b, c, d, l, y
      <4>3. x \in Seq(Everything) /\ x # <<>> /\ Head(x) = Head(a) /\ Tail(x) = Tail(a) \o b
        BY <4>1, <4>2, Zenon DEF PopsPart
      <4> HIDE DEF x
      <4>4. y \in Seq(Everything) /\ y # <<>> /\ Head(y) = Head(x) /\ Tail(y) = Tail(x) \o c
        BY <4>1, <4>2, <4>3, Zenon DEF PopsPart, y
      <4>5. l # <<>> /\ Head(l) = Head(y) /\ Tail(l) = Tail(y) \o d
        <5>1. l = y \o d
          BY DEF l, x, y
        <5> QED
          BY <4>1, <4>2, <4>4, <5>1, Zenon DEF PopsPart
      <4> QED
        BY <4>3, <4>4, <4>5
    <3>2. DraftLine = l /\ DraftLine' = Tail(l) /\ l \in Seq(Everything)
      BY <2>1, <2>2, <2>5, <3>1
    <3> HIDE DEF l
    <3>3. LastAtEnd(l) /\ ~trace_done /\ "pim" \notin got /\ host_pc = "barrier"
      BY <1>0, <3>1, <3>2 DEF Draft, One
    <3>4. LastAtEnd(Tail(l)) /\ (Head(l).last <=> Tail(l) = <<>>)
      BY <3>1, <3>2, <3>3, LastAfterTail
    <3>5. trace_done' <=> Tail(l) = <<>>
      BY <2>5, <3>1, <3>3, <3>4
    <3>6. LastAtEnd(DraftLine')
      BY <3>2, <3>4
    <3>7. LastAtEnd(DraftLine)'
      BY <3>6 DEF LastAtEnd
    <3> QED
      BY <2>3, <3>2, <3>3, <3>5, <3>7 DEF Draft, One
  <2> QED
    BY <1>3, <2>4, <2>5
<1>9. Ending'
  <2>1. UNCHANGED <<host_pc, episode, active_host, active_core, stopped, mem_pc>>
    BY <1>1 DEF hostVars, npuVars, memVars
  <2>2. ~Active => host_pc = "stopping"
    BY <1>0 DEF Active, Ending
  <2> QED
    BY <1>0, <1>3, <2>1, <2>2 DEF Ending
<1> QED
  BY <1>3, <1>4, <1>5, <1>6, <1>7, <1>8, <1>9 DEF Inv

\* A step of the DRAM device.
LEMMA MemDeviceStep ==
  ASSUME Inv, MemStep
  PROVE  Inv'
<1>0. Types /\ PimOK /\ MemOK /\ Flow /\ Thread /\ Target /\ Draft /\ Ending
  BY DEF Inv
<1>1. /\ UNCHANGED <<hostVars, npuVars, arbRest, pimVars>> /\ DramEnabled
      /\ MEM!Run \/ MEM!Delta \/ MEM!Timed
  BY DEF MemStep
<1>2. /\ MemOK' /\ arb_peq_bw' \in Seq(Transfers)
      /\ MW!Backlog' + Len(arb_peq_bw') = MW!Backlog + Len(arb_peq_bw)
      /\ mem_pc' = "done" => mem_pc = "done" \/ ~Active
  BY <1>0, <1>1, MemServes
<1>3. /\ PimOK' /\ PW!Backlog' = PW!Backlog /\ PW!ComputeLine' = PW!ComputeLine
      /\ trace_done' = trace_done
  <2>1. UNCHANGED pimInside /\ trace_done' = trace_done /\ trace_done \in BOOLEAN
    BY <1>0, <1>1 DEF pimVars, pimInside, PimOK, PW!IInv, PW!TypeOK
  <2> QED
    BY <1>0, <1>2, <2>1, PimWaits
<1>4. Types'
  BY <1>0, <1>1, <1>2 DEF Types, hostVars, npuVars, arbRest
<1>5. Flow'
  <2> DEFINE b == PW!Backlog  m == MW!Backlog  n == MW!Backlog'  s == Sent
             x == Len(arb_peq_bw)  y == Len(arb_peq_bw')  z == Len(arb_bw)
             w == Len(npu_peq_bw)
  <2>1. n \in Nat
    BY <1>2, <1>3, CountedNext DEF Counted
  <2>2. y \in Nat
    BY <1>2
  <2>3. b \in Nat /\ m \in Nat /\ x \in Nat /\ z \in Nat /\ w \in Nat
    BY <1>0, Numbers
  <2>4. s \in Nat
    BY <1>0, Numbers DEF Sent
  <2>5. n + y = m + x
    BY <1>2
  <2>6. pending_responses = s + b + m + (x + z + w)
    BY <1>0 DEF Flow, Returned
  <2>7. /\ PW!Backlog' = b /\ Sent' = s /\ Returned' = y + z + w
        /\ pending_responses' = pending_responses
    BY <1>1, <1>3 DEF Sent, Returned, arbRest, npuVars
  <2> HIDE DEF b, m, n, s, x, y, z, w
  <2>8. pending_responses = s + b + n + (y + z + w)
    BY <2>1, <2>2, <2>3, <2>4, <2>5, <2>6
  <2> QED
    BY <2>7, <2>8 DEF Flow, n
<1>6. Thread' /\ Target'
  <2>1. Only(pending_q, Starts)' = Only(pending_q, Starts)
    BY <1>1 DEF hostVars
  <2> QED
    BY <1>0, <1>1, <2>1 DEF Thread, Target, One, hostVars, npuVars
<1>7. Draft'
  <2>1. DraftLine' = DraftLine
    BY <1>1, <1>3 DEF DraftLine, arbRest, hostVars
  <2> QED
    BY <1>0, <1>1, <1>3, <2>1 DEF Draft, One, LastAtEnd, hostVars
<1>8. Ending'
  <2>1. UNCHANGED <<host_pc, episode, active_host, active_core, stopped, pim_pc>>
    BY <1>1 DEF hostVars, npuVars, pimVars
  <2>2. ~Active => host_pc = "stopping"
    BY <1>0 DEF Active, Ending
  <2> QED
    BY <1>0, <1>2, <2>1, <2>2 DEF Ending
<1> QED
  BY <1>2, <1>3, <1>4, <1>5, <1>6, <1>7, <1>8 DEF Inv

-----------------------------------------------------------------------------
(* The invariant holds                                                     *)

\* The simulator starts with the invariant.
LEMMA InitInv ==
  ASSUME Init
  PROVE  Inv
<1>1. /\ episode = 0 /\ pending_q = <<>> /\ host_pc = "launch" /\ got = {}
      /\ active_host = 1 /\ stopped = FALSE
  BY DEF Init, HOST!Init
<1>2. /\ npu_peq_fw = <<>> /\ npu_peq_bw = <<>> /\ start_event = FALSE
      /\ response_event = FALSE /\ npu_done = FALSE
      /\ args = [context |-> 1, query |-> 1, kv_write |-> 1]
      /\ npu_pc = "idle" /\ program = <<>> /\ remaining = 0
      /\ pending_responses = 0 /\ active_core = 1
  BY DEF Init, NPU!Init
<1>3. arb_peq_fw = <<>> /\ arb_peq_bw = <<>> /\ arb_fw = <<>> /\ arb_bw = <<>>
  BY DEF Init, ARB!Init
<1>4. PW!Init
  BY DEF Init, PIM!Init, PW!Init, PIM!Class, PW!Class
<1>5. First(<<>>) = <<>>
  BY DEF First
<1>6. Only(<<>>, Transfers) = <<>> /\ Only(<<>>, Starts) = <<>> /\ Only(<<>>, Drafts) = <<>>
  BY OnlyEmpty
<1>7. PimOK
  <2>1. PW!IInv
    BY <1>4, PimClient, PW!InitIInv DEF PW!ClientInit
  <2>2. PW!Route
    BY <1>4 DEF PW!Init, PW!Route, PW!Class
  <2>3. PW!Sorted
    BY <1>4 DEF PW!Init, PW!Sorted
  <2> QED
    BY <2>1, <2>2, <2>3 DEF PimOK
<1>8. MemOK
  <2>1. CASE DramEnabled
    <3>1. MW!Init
      BY <1>1, <1>2, <1>3, <2>1 DEF Init, MW!Init, Active
    <3> QED
      BY <2>1, <3>1, MemClient, MW!InitInv DEF MemOK
  <2>2. CASE ~DramEnabled
    BY <2>2 DEF Init, MemOK
  <2> QED
    BY <2>1, <2>2
<1>9. Types
  <2>1. Len(Controls) \in Nat
    BY ControlsAssumption, LenProperties
  <2>2. args \in Args
    BY <1>2 DEF Args
  <2>3. \A S : <<>> \in Seq(S)
    OBVIOUS
  <2>4. 0 \in 0..Len(Controls)
    BY <2>1
  <2> QED
    BY <1>1, <1>2, <1>3, <2>2, <2>3, <2>4 DEF Types
<1>10. Flow
  <2>1. PW!Backlog = 0
    <3>1. PW!CountOf("memory", <<>>) = 0
      BY PW!CountEmpty, PimClient
    <3> QED
      BY <1>4, <3>1 DEF PW!Backlog, PW!Init, PW!Class
  <2>2. MW!Backlog = 0
    BY DEF MW!Backlog, Init
  <2>3. Sent = 0
    BY <1>3, <1>5, <1>6 DEF Sent
  <2>4. Returned = 0
    BY <1>2, <1>3 DEF Returned
  <2> QED
    BY <1>2, <2>1, <2>2, <2>3, <2>4 DEF Flow
<1>11. Thread
  BY <1>2, MachineAssumption DEF Thread
<1>12. Target
  BY <1>1, <1>2, <1>6 DEF Target, One
<1>13. Draft
  <2>1. PW!ComputeLine = <<>>
    <3>1. /\ pim_peq = <<>> /\ pending_queue = <<>> /\ switching = <<>>
          /\ pim_bridge_done = <<>> /\ pim_fast["compute"] = <<>>
          /\ pim_bridge["compute"] = <<>> /\ completed["compute"] = <<>>
      BY <1>4 DEF PW!Init, PW!Class
    <3>2. PW!Only(<<>>, PW!Commands) = <<>>
      BY OnlyEmpty, SameOnly
    <3> QED
      BY <3>1, <3>2 DEF PW!ComputeLine, PW!ComputeOnly
  <2>2. DraftLine = <<>>
    BY <1>1, <1>3, <1>5, <1>6, <2>1 DEF DraftLine
  <2>3. ~trace_done
    BY <1>4 DEF PW!Init
  <2> QED
    BY <1>1, <2>2, <2>3 DEF Draft, One, LastAtEnd
<1>14. Ending
  <2>1. 0 < Len(Controls)
    BY ControlsAssumption, EmptySeq, LenProperties
  <2>2. pim_pc = "run"
    BY <1>4 DEF PW!Init
  <2>3. mem_pc # "done"
    BY DEF Init
  <2> QED
    BY <1>1, <2>1, <2>2, <2>3 DEF Ending
<1> QED
  BY <1>7, <1>8, <1>9, <1>10, <1>11, <1>12, <1>13, <1>14 DEF Inv

\* Nothing happens.
LEMMA StutterInv ==
  ASSUME Inv, UNCHANGED vars
  PROVE  Inv'
<1>0. Types /\ Flow /\ Thread /\ Target
  BY DEF Inv
<1>1. UNCHANGED <<hostVars, npuVars, arbVars, pimVars, memVars>>
  BY DEF vars
<1>2. /\ PimOK' /\ MemOK' /\ Draft' /\ Ending'
      /\ Sent' = Sent /\ PW!Backlog' = PW!Backlog /\ MW!Backlog' = MW!Backlog
      /\ Len(Only(pending_q, Starts))' = Len(Only(pending_q, Starts))
  BY <1>1, NpuFrame
<1>3. Types'
  BY <1>0, <1>1 DEF Types, hostVars, npuVars, arbVars
<1>4. Flow'
  BY <1>0, <1>1, <1>2 DEF Flow, Returned, npuVars, arbVars
<1>5. Thread' /\ Target'
  BY <1>0, <1>1, <1>2 DEF Thread, Target, One, hostVars, npuVars
<1> QED
  BY <1>2, <1>3, <1>4, <1>5 DEF Inv

\* Every step of the simulator keeps the invariant.
LEMMA NextInv ==
  ASSUME Inv, [Next]_vars
  PROVE  Inv'
<1>1. CASE HostLaunch
  BY <1>1, LaunchStep
<1>2. CASE HostBarrier \/ HostTerminate \/ HostPoll
  BY <1>2, HostThreadStep
<1>3. CASE TargetDone \/ DraftDone
  BY <1>3, ArriveStep
<1>4. CASE HostSends
  BY <1>4, SendStep
<1>5. CASE NpuIssues
  BY <1>5, IssueStep
<1>6. CASE NpuLocal
  <2>1. CASE NPU!peq_bw_cb
    BY <1>6, <2>1, ResponseStep DEF NpuLocal
  <2>2. CASE ~NPU!peq_bw_cb
    BY <1>6, <2>2, ThreadStep DEF NpuLocal, NPU!Local
  <2> QED
    BY <2>1, <2>2
<1>7. CASE NpuComputes
  BY <1>7, ThreadStep DEF NpuComputes
<1>8. CASE ArbiterDelivers
  BY <1>8, RouteRequestStep, AnswerStep DEF ArbiterDelivers
<1>9. CASE ArbiterForwards
  BY <1>9, ForwardStep
<1>10. CASE ArbiterAnswers
  BY <1>10, AnswerStep
<1>11. CASE PimStep
  BY <1>11, PimDeviceStep
<1>12. CASE MemStep
  BY <1>12, MemDeviceStep
<1>13. CASE UNCHANGED vars
  BY <1>13, StutterInv
<1> QED
  BY <1>1, <1>2, <1>3, <1>4, <1>5, <1>6, <1>7, <1>8, <1>9, <1>10, <1>11, <1>12, <1>13 DEF Next

\* The invariant holds in every run of the simulator, for every configuration,
\* layer profile and control trace.
THEOREM Invariance == Spec => []Inv
<1>1. Init => Inv
  BY InitInv
<1>2. Inv /\ [Next]_vars => Inv'
  BY NextInv
<1> QED
  BY <1>1, <1>2, PTL DEF Spec

-----------------------------------------------------------------------------
(* The transactions between their sender and their answer                  *)

\* The shares of the NPU and of the draft in the four stretches of the way.
LEMMA TransitParts ==
  ASSUME Types, PimOK, MemOK
  PROVE  /\ Outward \in Seq(Requests) /\ InPim \in Seq(Requests)
         /\ InMem \in Seq(Requests) /\ Homeward \in Seq(Requests)
         /\ Len(Only(Outward, Transfers)) = Sent
         /\ Len(Only(Outward, Drafts)) = Len(Only(arb_peq_fw, Drafts))
                                           + Len(Only(First(arb_fw), Drafts))
         /\ Len(Only(InPim, Transfers)) = PW!Backlog
         /\ Len(Only(InPim, Drafts)) = Len(PW!ComputeLine)
         /\ Len(Only(InMem, Transfers)) = MW!Backlog /\ Len(Only(InMem, Drafts)) = 0
         /\ Len(Only(Homeward, Transfers)) = Returned /\ Len(Only(Homeward, Drafts)) = 0
<1>1. /\ Outward \in Seq(Requests) /\ Len(Only(Outward, Transfers)) = Sent
      /\ Len(Only(Outward, Drafts)) = Len(Only(arb_peq_fw, Drafts))
                                        + Len(Only(First(arb_fw), Drafts))
  <2> DEFINE a == arb_peq_fw  b == First(arb_fw)
  <2>1. a \in Seq(Requests) /\ b \in Seq(Requests)
    BY QueueTypes DEF Types
  <2>2. Outward = a \o b /\ Sent = Len(Only(a, Transfers)) + Len(Only(b, Transfers))
    BY DEF Outward, Sent
  <2> HIDE DEF a, b
  <2>3. /\ a \o b \in Seq(Requests)
        /\ Len(Only(a \o b, Transfers)) = Len(Only(a, Transfers)) + Len(Only(b, Transfers))
    BY <2>1, OnlyAdds
  <2>4. Len(Only(a \o b, Drafts)) = Len(Only(a, Drafts)) + Len(Only(b, Drafts))
    BY <2>1, OnlyAdds
  <2> QED
    BY <2>2, <2>3, <2>4 DEF a, b
<1>2. /\ InPim \in Seq(Requests) /\ Len(Only(InPim, Transfers)) = PW!Backlog
      /\ Len(Only(InPim, Drafts)) = Len(PW!ComputeLine)
  <2>1. InPim = PW!Content
    BY DEF InPim, PW!Content
  <2>2. /\ PW!Content \in Seq(Requests)
        /\ Len(PW!Only(PW!Content, PW!OfClass("memory"))) = PW!Backlog
        /\ Len(PW!Only(PW!Content, PW!Commands)) = Len(PW!ComputeLine)
    BY PimClient, PW!ContentShares DEF PimOK
  <2> QED
    BY <2>1, <2>2, PimClient, SameOnly
<1>3. \A s \in Seq(Transfers) : /\ s \in Seq(Requests) /\ Len(Only(s, Transfers)) = Len(s)
                                /\ Len(Only(s, Drafts)) = 0
  <2> SUFFICES ASSUME NEW s \in Seq(Transfers)
               PROVE  /\ s \in Seq(Requests) /\ Len(Only(s, Transfers)) = Len(s)
                      /\ Len(Only(s, Drafts)) = 0
    OBVIOUS
  <2>1. \A i \in 1..Len(s) : s[i] \in Transfers /\ s[i] \notin Drafts
    BY Apart DEF Requests
  <2>2. Only(s, Transfers) = s /\ Only(s, Drafts) = <<>>
    BY <2>1, OnlyAll, OnlyNone
  <2>3. s \in Seq(Requests)
    BY DEF Requests
  <2> QED
    BY <2>2, <2>3
<1>4. InMem \in Seq(Transfers) /\ Len(InMem) = MW!Backlog
  <2>1. CASE DramEnabled
    <3>1. InMem = MW!Content
      BY DEF InMem, MW!Content
    <3> QED
      BY <2>1, <3>1, MemClient, MW!ContentLength DEF MemOK
  <2>2. CASE ~DramEnabled
    <3>1. InMem = <<>> \o <<>> \o <<>> \o <<>> \o <<>> \o <<>> \o <<>> /\ MW!Backlog = 0
      BY <2>2 DEF MemOK, InMem, MW!Backlog
    <3>2. InMem = <<>>
      BY <3>1
    <3> QED
      BY <3>1, <3>2
  <2> QED
    BY <2>1, <2>2
<1>5. Homeward \in Seq(Transfers) /\ Len(Homeward) = Returned
  <2> DEFINE a == arb_peq_bw  b == First(arb_bw)  c == npu_peq_bw
  <2>1. TakesFirst(Transfers, Returns)
    <3>1. \A p \in Returns : p[1] \in Transfers
      BY DEF Returns
    <3> QED
      BY <3>1, FirstFacts
  <2>2. a \in Seq(Transfers) /\ c \in Seq(Transfers) /\ arb_bw \in Seq(Returns)
    BY DEF Types
  <2>3. b \in Seq(Transfers) /\ Len(b) = Len(arb_bw)
    BY <2>1, <2>2, Zenon DEF TakesFirst
  <2>4. Homeward = (a \o b) \o c /\ Returned = Len(a) + Len(arb_bw) + Len(c)
    BY DEF Homeward, Returned
  <2> HIDE DEF a, b, c
  <2>5. a \o b \in Seq(Transfers) /\ Len(a \o b) = Len(a) + Len(b)
    BY <2>2, <2>3, ConcatProperties
  <2>6. (a \o b) \o c \in Seq(Transfers) /\ Len((a \o b) \o c) = Len(a \o b) + Len(c)
    BY <2>2, <2>5, ConcatProperties
  <2> QED
    BY <2>3, <2>4, <2>5, <2>6
<1> QED
  BY <1>1, <1>2, <1>3, <1>4, <1>5

\* All of it: the NPU's share is what Flow counts, and the draft's share and
\* what the Host still has to send make up the draft's line.
LEMMA TransitShares ==
  ASSUME Types, PimOK, MemOK
  PROVE  /\ InTransit \in Seq(Requests)
         /\ Len(Only(InTransit, Transfers)) = Sent + PW!Backlog + MW!Backlog + Returned
         /\ Len(Only(InTransit, Drafts)) \in Nat /\ Len(Only(pending_q, Drafts)) \in Nat
         /\ Len(Only(InTransit, Drafts)) + Len(Only(pending_q, Drafts)) = Len(DraftLine)
<1> DEFINE a == Outward  b == InPim  c == InMem  d == Homeward
<1>1. a \in Seq(Requests) /\ b \in Seq(Requests) /\ c \in Seq(Requests) /\ d \in Seq(Requests)
  BY TransitParts
<1>2. InTransit = ((a \o b) \o c) \o d
  BY DEF InTransit
<1> HIDE DEF a, b, c, d
<1>3. ASSUME NEW S
      PROVE  /\ ((a \o b) \o c) \o d \in Seq(Requests)
             /\ Len(Only(a, S)) \in Nat /\ Len(Only(b, S)) \in Nat
             /\ Len(Only(c, S)) \in Nat /\ Len(Only(d, S)) \in Nat
             /\ Len(Only(((a \o b) \o c) \o d, S))
                  = Len(Only(a, S)) + Len(Only(b, S)) + Len(Only(c, S)) + Len(Only(d, S))
  <2> DEFINE x == a \o b  y == x \o c
             Adds(v, w) == /\ v \o w \in Seq(Requests)
                           /\ Len(Only(v \o w, S)) = Len(Only(v, S)) + Len(Only(w, S))
                           /\ Len(Only(v, S)) \in Nat /\ Len(Only(w, S)) \in Nat
  <2>0. \A v, w \in Seq(Requests) : Adds(v, w)
    BY OnlyAdds
  <2> HIDE DEF Adds
  <2>1. /\ x \in Seq(Requests) /\ Len(Only(x, S)) = Len(Only(a, S)) + Len(Only(b, S))
        /\ Len(Only(a, S)) \in Nat /\ Len(Only(b, S)) \in Nat
    BY <1>1, OnlyAdds
  <2> HIDE DEF x
  <2>2. /\ y \in Seq(Requests) /\ Len(Only(y, S)) = Len(Only(x, S)) + Len(Only(c, S))
        /\ Len(Only(c, S)) \in Nat
    <3>1. Adds(x, c)
      BY <1>1, <2>0, <2>1
    <3> QED
      BY <3>1 DEF Adds
  <2> HIDE DEF y
  <2>3. /\ y \o d \in Seq(Requests) /\ Len(Only(y \o d, S)) = Len(Only(y, S)) + Len(Only(d, S))
        /\ Len(Only(d, S)) \in Nat
    <3>1. Adds(y, d)
      BY <1>1, <2>0, <2>2
    <3> QED
      BY <3>1 DEF Adds
  <2>4. y \o d = ((a \o b) \o c) \o d
    BY DEF x, y
  <2> QED
    BY <2>1, <2>2, <2>3, <2>4
<1>4. /\ InTransit \in Seq(Requests)
      /\ Len(Only(InTransit, Transfers)) = Sent + PW!Backlog + MW!Backlog + Returned
  <2>1. /\ Len(Only(a, Transfers)) = Sent /\ Len(Only(b, Transfers)) = PW!Backlog
        /\ Len(Only(c, Transfers)) = MW!Backlog /\ Len(Only(d, Transfers)) = Returned
    BY TransitParts DEF a, b, c, d
  <2> QED
    BY <1>2, <1>3, <2>1
<1>5. /\ Len(Only(InTransit, Drafts)) \in Nat
      /\ Len(Only(InTransit, Drafts)) = Len(Only(arb_peq_fw, Drafts))
           + Len(Only(First(arb_fw), Drafts)) + Len(PW!ComputeLine)
  <2> DEFINE x == Len(Only(a, Drafts))  y == Len(Only(b, Drafts))
  <2>1. /\ x = Len(Only(arb_peq_fw, Drafts)) + Len(Only(First(arb_fw), Drafts))
        /\ y = Len(PW!ComputeLine)
        /\ Len(Only(c, Drafts)) = 0 /\ Len(Only(d, Drafts)) = 0
    BY TransitParts DEF a, b, c, d
  <2>2. x \in Nat /\ y \in Nat /\ Len(Only(InTransit, Drafts)) = x + y + 0 + 0
    BY <1>2, <1>3, <2>1
  <2> HIDE DEF x, y
  <2>3. Len(Only(InTransit, Drafts)) \in Nat /\ Len(Only(InTransit, Drafts)) = x + y
    BY <2>2
  <2> QED
    BY <2>1, <2>3
<1> DEFINE i == Len(Only(arb_peq_fw, Drafts))  j == Len(Only(First(arb_fw), Drafts))
           k == Len(PW!ComputeLine)  l == Len(Only(pending_q, Drafts))
           m == Len(Only(InTransit, Drafts))
<1>6. i \in Nat /\ j \in Nat /\ k \in Nat /\ l \in Nat /\ Len(DraftLine) = k + j + i + l
  BY LineParts, LenProperties
<1>7. m \in Nat /\ m = i + j + k
  BY <1>5
<1> HIDE DEF i, j, k, l, m
<1>8. m + l = Len(DraftLine)
  BY <1>6, <1>7
<1> QED
  BY <1>4, <1>6, <1>7, <1>8 DEF l, m

-----------------------------------------------------------------------------
(* The properties                                                          *)

\* pending_responses, on which the window and the end of a transfer depend, is
\* exactly the number of the NPU's requests between issue and response.
THEOREM ResponsesAreCounted == Spec => []PendingExact
<1>1. Inv => PendingExact
  BY TransitShares DEF Inv, Flow, PendingExact
<1> QED
  BY <1>1, Invariance, PTL

\* The window holds although issue_memory tests it with an "if": a thread woken
\* by a response always finds room for one more burst.
THEOREM WindowHolds == Spec => []WindowBounded
<1>1. Inv => WindowBounded
  BY DEF Inv, Thread, WindowBounded
<1> QED
  BY <1>1, Invariance, PTL

\* SystemC's events have no memory: no notification finds its process
\* elsewhere than at the wait it is for.
THEOREM EventsFindTheirWait == Spec => []NoEventLost
<1>1. Inv => NoEventLost
  <2> SUFFICES ASSUME Inv PROVE NoEventLost
    OBVIOUS
  <2> DEFINE x == Len(Only(pending_q, Starts))  y == Len(npu_peq_fw)
  <2>1. x \in Nat /\ y \in Nat
    BY Numbers DEF Inv
  <2>2. x + y + One(start_event) + One(npu_pc # "idle") + One(npu_done) + One("npu" \in got)
          = One(host_pc = "barrier")
    BY DEF Inv, Target
  <2> HIDE DEF x, y
  <2>3. (start_event => npu_pc = "idle") /\ (npu_done => host_pc = "barrier")
    BY <2>1, <2>2 DEF One
  <2>4. trace_done => host_pc = "barrier"
    BY DEF Inv, Draft, One
  <2>5. response_event => npu_pc = "wait"
    BY DEF Inv, Thread
  <2> QED
    BY <2>3, <2>4, <2>5 DEF NoEventLost
<1> QED
  BY <1>1, Invariance, PTL

\* Each side of an episode is at one place: with the Host outside its barrier
\* there is no work of either side and no notification on its way.
LEMMA Sides ==
  ASSUME Inv
  PROVE  /\ Len(Only(pending_q, Starts)) \in Nat /\ Len(npu_peq_fw) \in Nat
         /\ host_pc # "barrier" =>
              /\ Len(Only(pending_q, Starts)) = 0 /\ Len(npu_peq_fw) = 0 /\ ~start_event
              /\ npu_pc = "idle" /\ ~npu_done /\ DraftLine = <<>> /\ ~trace_done
         /\ host_pc = "barrier" =>
              /\ (npu_done \/ "npu" \in got)
                   <=> ~(\/ Len(Only(pending_q, Starts)) # 0 \/ Len(npu_peq_fw) # 0
                         \/ start_event \/ npu_pc # "idle")
              /\ (trace_done \/ "pim" \in got) <=> DraftLine = <<>>
<1> DEFINE x == Len(Only(pending_q, Starts))  y == Len(npu_peq_fw)
<1>1. x \in Nat /\ y \in Nat
  BY Numbers DEF Inv
<1>2. x + y + One(start_event) + One(npu_pc # "idle") + One(npu_done) + One("npu" \in got)
        = One(host_pc = "barrier")
  BY DEF Inv, Target
<1>3. One(DraftLine # <<>>) + One(trace_done) + One("pim" \in got) = One(host_pc = "barrier")
  BY DEF Inv, Draft
<1> HIDE DEF x, y
<1>4. CASE host_pc # "barrier"
  <2>1. x = 0 /\ y = 0 /\ ~start_event /\ npu_pc = "idle" /\ ~npu_done
    BY <1>1, <1>2, <1>4 DEF One
  <2>2. DraftLine = <<>> /\ ~trace_done
    BY <1>3, <1>4 DEF One
  <2> QED
    BY <1>1, <1>4, <2>1, <2>2 DEF x, y
<1>5. CASE host_pc = "barrier"
  <2>1. (npu_done \/ "npu" \in got) <=> ~(x # 0 \/ y # 0 \/ start_event \/ npu_pc # "idle")
    BY <1>1, <1>2, <1>5 DEF One
  <2>2. (trace_done \/ "pim" \in got) <=> DraftLine = <<>>
    BY <1>3, <1>5 DEF One
  <2> QED
    BY <1>1, <1>5, <2>1, <2>2 DEF x, y
<1> QED
  BY <1>4, <1>5

\* The PIM thread ends without looking at its queues, the DRAM thread may end
\* before it and the Host stops as soon as one has: whenever that happens,
\* every episode has run and no transaction is left anywhere.
THEOREM NothingLeftAtTheEnd == Spec => []EndsDrained
<1>1. Inv => EndsDrained
  <2> SUFFICES ASSUME Inv, stopped \/ ~active_dram
               PROVE  episode = Len(Controls) /\ pending_q = <<>> /\ InTransit = <<>>
    BY DEF EndsDrained
  <2>1. host_pc = "stopping" /\ episode = Len(Controls)
    BY DEF Inv, Ending, active_dram
  <2>2. Len(Only(pending_q, Starts)) = 0 /\ npu_pc = "idle" /\ DraftLine = <<>>
    BY <2>1, Sides
  <2>3. pending_responses = 0
    BY <2>2 DEF Inv, Thread
  <2>4. pending_q = <<>>
    BY <2>2, LineEmpty, HostIdle DEF Inv
  <2> DEFINE x == Len(Only(InTransit, Transfers))  y == Len(Only(InTransit, Drafts))
             z == Len(Only(pending_q, Drafts))
  <2>5. InTransit \in Seq(Requests) /\ y \in Nat /\ z \in Nat /\ y + z = Len(DraftLine)
    BY TransitShares DEF Inv
  <2>6. x = 0
    BY <2>3, TransitShares DEF Inv, Flow
  <2>7. Len(InTransit) = x + y
    BY <2>5, Apart, OnlyPartition
  <2>8. Len(DraftLine) = 0
    BY <2>2
  <2> HIDE DEF x, y, z
  <2>9. Len(InTransit) = 0
    BY <2>5, <2>6, <2>7, <2>8
  <2> QED
    BY <2>1, <2>4, <2>5, <2>9, EmptySeq
<1> QED
  BY <1>1, Invariance, PTL

-----------------------------------------------------------------------------
(* The pipeline of episodes                                                *)

\* What the abstract states are, read off the events and the barrier.
TargetStatus ==
  IF host_pc # "barrier" THEN "idle"
  ELSE IF npu_done \/ "npu" \in got THEN "done" ELSE "running"
DraftStatus ==
  IF host_pc # "barrier" THEN "idle"
  ELSE IF trace_done \/ "pim" \in got THEN "done" ELSE "running"

Mapped == Status(TargetWork) = TargetStatus /\ Status(DraftWork) = DraftStatus

\* At the barrier a side has work left exactly until its event is notified.
LEMMA WorkIsMapped ==
  ASSUME Inv
  PROVE  Mapped
<1>1. CASE host_pc # "barrier"
  BY <1>1 DEF Mapped, Status, TargetStatus, DraftStatus
<1>2. CASE host_pc = "barrier"
  <2>1. pending_q \in Seq(Starts \cup Drafts) /\ npu_peq_fw \in Seq(Args)
    BY DEF Inv, Types
  <2>2. \A i \in 1..Len(pending_q) :
          /\ IsDraft(pending_q[i]) <=> pending_q[i] \in Drafts
          /\ IsDraft(pending_q[i]) <=> pending_q[i] \notin Starts
    BY <2>1, Apart
  <2>3. (\E i \in 1..Len(pending_q) : ~IsDraft(pending_q[i]))
          <=> Len(Only(pending_q, Starts)) # 0
    BY <2>1, <2>2, OnlySome
  <2>4. (\E i \in 1..Len(pending_q) : IsDraft(pending_q[i]))
          <=> Len(Only(pending_q, Drafts)) # 0
    BY <2>1, <2>2, OnlySome
  <2>5. npu_peq_fw # <<>> <=> Len(npu_peq_fw) # 0
    BY <2>1, EmptySeq
  <2>6. /\ InTransit \in Seq(Requests)
        /\ Len(Only(InTransit, Transfers)) = pending_responses
        /\ Len(Only(InTransit, Drafts)) \in Nat /\ Len(Only(pending_q, Drafts)) \in Nat
        /\ Len(Only(InTransit, Drafts)) + Len(Only(pending_q, Drafts)) = Len(DraftLine)
    BY TransitShares DEF Inv, Flow
  <2>7. \A i \in 1..Len(InTransit) :
          /\ InTransit[i].src = "NPU" <=> InTransit[i] \in Transfers
          /\ InTransit[i].cmd = "PIM" <=> InTransit[i] \in Drafts
    BY <2>6, Apart
  <2>8. /\ (\E i \in 1..Len(InTransit) : InTransit[i].src = "NPU") <=> pending_responses # 0
        /\ (\E i \in 1..Len(InTransit) : InTransit[i].cmd = "PIM")
             <=> Len(Only(InTransit, Drafts)) # 0
    BY <2>6, <2>7, OnlySome
  <2>9. pending_responses # 0 => npu_pc # "idle"
    BY DEF Inv, Thread
  <2>10. DraftLine = <<>> <=> Len(DraftLine) = 0
    BY LineParts, EmptySeq DEF Inv
  <2> DEFINE x == Len(Only(InTransit, Drafts))  y == Len(Only(pending_q, Drafts))
             z == Len(DraftLine)
  <2>11. x # 0 \/ y # 0 <=> z # 0
    <3>1. x \in Nat /\ y \in Nat /\ x + y = z
      BY <2>6
    <3> HIDE DEF x, y, z
    <3> QED
      BY <3>1
  <2>12. TargetWork <=> ~(npu_done \/ "npu" \in got)
    BY <1>2, <2>3, <2>5, <2>8, <2>9, Sides DEF TargetWork
  <2>13. DraftWork <=> ~(trace_done \/ "pim" \in got)
    BY <1>2, <2>4, <2>8, <2>10, <2>11, Sides DEF DraftWork
  <2> QED
    BY <1>2, <2>12, <2>13 DEF Mapped, Status, TargetStatus, DraftStatus
<1> QED
  BY <1>1, <1>2

\* All the abstract state depends on.
pipe == <<episode, host_pc, got, npu_done, trace_done, stopped>>

\* A step that leaves it alone is a stutter of the pipeline.
LEMMA PipeStutters ==
  ASSUME Mapped, Mapped', UNCHANGED pipe
  PROVE  UNCHANGED PL!vars
<1>1. TargetStatus' = TargetStatus /\ DraftStatus' = DraftStatus
  BY DEF pipe, TargetStatus, DraftStatus
<1>2. episode' = episode /\ stopped' = stopped
  BY DEF pipe
<1> QED
  BY <1>1, <1>2 DEF Mapped, PL!vars

\* The Host's steps: launch, join, stop; the rest are stutters.
LEMMA HostPipeline ==
  ASSUME Inv, Mapped, Mapped',
         HostLaunch \/ HostBarrier \/ TargetDone \/ DraftDone \/ HostTerminate \/ HostPoll
  PROVE  [PL!Next]_(PL!vars)
<1> DEFINE t == Status(TargetWork)  d == Status(DraftWork)
<1>0. /\ t = TargetStatus /\ d = DraftStatus /\ t' = TargetStatus' /\ d' = DraftStatus'
  BY DEF Mapped
<1>a. Ending /\ stopped \in BOOLEAN /\ got \in SUBSET {"pim", "npu"}
  BY DEF Inv, Types
<1> HIDE DEF t, d
<1>1. CASE HostLaunch
  <2>1. /\ host_pc = "launch" /\ host_pc' = "barrier" /\ episode' = episode + 1 /\ got' = {}
        /\ UNCHANGED <<stopped, npu_done, trace_done>>
    BY <1>1 DEF HostLaunch, HOST!Launch, npuVars, pimVars
  <2>2. ~npu_done /\ ~trace_done
    BY <2>1, Sides
  <2>3. episode < Len(Controls)
    BY <1>a, <2>1 DEF Ending
  <2>4. t = "idle" /\ d = "idle" /\ t' = "running" /\ d' = "running"
    BY <1>0, <2>1, <2>2 DEF TargetStatus, DraftStatus
  <2> QED
    BY <2>1, <2>3, <2>4 DEF PL!Next, PL!Launch, t, d
<1>2. CASE HostBarrier
  <2>1. /\ host_pc = "barrier" /\ got = {"pim", "npu"} /\ host_pc' # "barrier"
        /\ episode' = episode /\ (stopped' = stopped \/ stopped' = ~active_dram)
    BY <1>2 DEF HostBarrier, HOST!LeaveBarrier
  <2>2. ~stopped /\ active_dram
    BY <1>a, <2>1 DEF Ending, active_dram
  <2>3. stopped' = stopped
    BY <1>a, <2>1, <2>2
  <2>4. t = "done" /\ d = "done" /\ t' = "idle" /\ d' = "idle"
    BY <1>0, <2>1 DEF TargetStatus, DraftStatus
  <2> QED
    BY <2>1, <2>3, <2>4 DEF PL!Next, PL!Join, t, d
<1>3. CASE TargetDone
  <2>1. /\ npu_done /\ npu_done' = FALSE /\ UNCHANGED <<episode, host_pc, stopped, trace_done>>
        /\ got' = IF host_pc = "barrier" THEN got \cup {"npu"} ELSE got
    BY <1>3 DEF TargetDone, NPU!TakeDone, HOST!Arrive, pimVars
  <2>2. host_pc = "barrier"
    BY <2>1, Sides
  <2>3. t' = t /\ d' = d
    BY <1>0, <2>1, <2>2 DEF TargetStatus, DraftStatus
  <2> QED
    BY <2>1, <2>3 DEF PL!vars, t, d
<1>4. CASE DraftDone
  <2>1. /\ trace_done /\ trace_done' = FALSE /\ UNCHANGED <<episode, host_pc, stopped, npu_done>>
        /\ got' = IF host_pc = "barrier" THEN got \cup {"pim"} ELSE got
    BY <1>4 DEF DraftDone, HOST!Arrive, npuVars
  <2>2. host_pc = "barrier"
    BY <2>1, Sides
  <2>3. t' = t /\ d' = d
    BY <1>0, <2>1, <2>2 DEF TargetStatus, DraftStatus
  <2> QED
    BY <2>1, <2>3 DEF PL!vars, t, d
<1>5. CASE HostTerminate
  <2>1. /\ host_pc = "trace" /\ host_pc' = "stopping" /\ episode' = episode
        /\ stopped' = ~active_dram
    BY <1>5 DEF HostTerminate, HOST!Terminate
  <2>2. ~stopped /\ active_dram
    BY <1>a, <2>1 DEF Ending, active_dram
  <2>3. stopped' = stopped
    BY <1>a, <2>1, <2>2
  <2>4. t' = t /\ d' = d
    BY <1>0, <2>1 DEF TargetStatus, DraftStatus
  <2> QED
    BY <2>1, <2>3, <2>4 DEF PL!vars, t, d
<1>6. CASE HostPoll
  <2>1. /\ host_pc = "stopping" /\ host_pc' = host_pc /\ episode' = episode /\ stopped' = TRUE
        /\ ~stopped
    BY <1>6 DEF HostPoll, HOST!Poll, Quiet, Yielded
  <2>2. episode = Len(Controls)
    BY <1>a, <2>1 DEF Ending
  <2>3. t = "idle" /\ d = "idle" /\ t' = "idle" /\ d' = "idle"
    BY <1>0, <2>1 DEF TargetStatus, DraftStatus
  <2> QED
    BY <2>1, <2>2, <2>3 DEF PL!Next, PL!Stop, t, d
<1> QED
  BY <1>1, <1>2, <1>3, <1>4, <1>5, <1>6

\* The target is done when its thread has replayed the whole trace.
LEMMA TargetPipeline ==
  ASSUME Inv, Mapped, Mapped', NpuIssues \/ NpuLocal \/ NpuComputes
  PROVE  [PL!Next]_(PL!vars)
<1>1. /\ UNCHANGED <<hostVars, pimVars>>
      /\ \/ npu_done' = npu_done
         \/ npu_pc = "go" /\ npu_done' = TRUE
  BY DEF NpuIssues, NpuLocal, NpuComputes, NPU!BeginTransfer, NPU!ContinueTransfer,
     NPU!Local, NPU!peq_fw_cb, NPU!DeliverStart, NPU!peq_bw_cb, NPU!DeliverResponse,
     NPU!Drain, NPU!BeginCompute, NPU!Finish, NPU!EndCompute, NPU!eventVars
<1>2. UNCHANGED <<episode, host_pc, got, trace_done, stopped>>
  BY <1>1 DEF hostVars, pimVars
<1>3. CASE npu_done' = npu_done
  BY <1>2, <1>3, PipeStutters DEF pipe
<1>4. CASE npu_pc = "go" /\ npu_done' = TRUE
  <2> DEFINE t == Status(TargetWork)  d == Status(DraftWork)
  <2>1. host_pc = "barrier" /\ ~npu_done /\ "npu" \notin got
    <3>1. host_pc = "barrier"
      BY <1>4, Sides
    <3> QED
      BY <1>4, <3>1, Sides
  <2>2. t = TargetStatus /\ d = DraftStatus /\ t' = TargetStatus' /\ d' = DraftStatus'
    BY DEF Mapped
  <2> HIDE DEF t, d
  <2>3. t = "running" /\ t' = "done" /\ d' = d
    BY <1>2, <1>4, <2>1, <2>2 DEF TargetStatus, DraftStatus
  <2> QED
    BY <1>2, <2>3 DEF PL!Next, PL!FinishTarget, t, d
<1> QED
  BY <1>1, <1>3, <1>4

\* The draft is done when its last command has left the device.
LEMMA DraftPipeline ==
  ASSUME Inv, Mapped, Mapped', PimStep
  PROVE  [PL!Next]_(PL!vars)
<1>1. UNCHANGED <<episode, host_pc, got, npu_done, stopped>>
  BY DEF PimStep, hostVars, npuVars
<1>2. \/ trace_done' = trace_done
      \/ PW!ComputeLine # <<>> /\ trace_done' = (trace_done \/ Head(PW!ComputeLine).last)
  <2>1. arb_peq_bw \in Seq(Transfers) /\ PimOK
    BY DEF Inv, Types
  <2>2. PIM!Run \/ PIM!Delta \/ PIM!Timed
    BY DEF PimStep
  <2> QED
    BY <2>1, <2>2, PimServes
<1>3. CASE trace_done' = trace_done
  BY <1>1, <1>3, PipeStutters DEF pipe
<1>4. CASE trace_done' # trace_done
  <2> DEFINE t == Status(TargetWork)  d == Status(DraftWork)
  <2>1. PW!ComputeLine # <<>> /\ trace_done' = (trace_done \/ Head(PW!ComputeLine).last)
    BY <1>2, <1>4
  <2>2. DraftLine # <<>>
    BY <2>1, LineEmpty DEF Inv
  <2>3. host_pc = "barrier" /\ ~trace_done /\ "pim" \notin got
    <3>1. host_pc = "barrier"
      BY <2>2, Sides
    <3> QED
      BY <2>2, <3>1, Sides
  <2>4. trace_done'
    <3>1. trace_done = FALSE
      BY <2>3 DEF Inv, PimOK, PW!IInv, PW!TypeOK
    <3> QED
      BY <1>4, <2>1, <3>1, Zenon
  <2>5. t = TargetStatus /\ d = DraftStatus /\ t' = TargetStatus' /\ d' = DraftStatus'
    BY DEF Mapped
  <2> HIDE DEF t, d
  <2>6. d = "running" /\ d' = "done" /\ t' = t
    BY <1>1, <2>3, <2>4, <2>5 DEF TargetStatus, DraftStatus
  <2> QED
    BY <1>1, <2>6 DEF PL!Next, PL!FinishDraft, t, d
<1> QED
  BY <1>3, <1>4

\* Every step of the simulator is a step of the pipeline or a stutter.
LEMMA PipelineStep ==
  ASSUME Inv, Mapped, Mapped', [Next]_vars
  PROVE  [PL!Next]_(PL!vars)
<1>1. CASE \/ HostLaunch \/ HostBarrier \/ TargetDone \/ DraftDone \/ HostTerminate
           \/ HostPoll
  BY <1>1, HostPipeline
<1>2. CASE NpuIssues \/ NpuLocal \/ NpuComputes
  BY <1>2, TargetPipeline
<1>3. CASE PimStep
  BY <1>3, DraftPipeline
<1>4. CASE \/ HostSends \/ ArbiterDelivers \/ ArbiterForwards \/ ArbiterAnswers \/ MemStep
           \/ UNCHANGED vars
  <2>1. UNCHANGED <<episode, host_pc, got, stopped>>
    BY <1>4 DEF HostSends, HOST!clock_negedge, ArbiterDelivers, ArbiterForwards,
       ArbiterAnswers, MemStep, vars, hostVars
  <2>2. npu_done' = npu_done
    BY <1>4 DEF HostSends, NPU!nb_transport_fw, ArbiterDelivers, ArbiterForwards,
       ArbiterAnswers, NPU!nb_transport_bw, MemStep, vars, npuVars, NPU!eventVars
  <2>3. trace_done' = trace_done
    BY <1>4 DEF HostSends, ArbiterDelivers, ArbiterForwards, PIM!nb_transport_fw, PIM!outVars,
       ArbiterAnswers, MemStep, vars, pimVars
  <2> QED
    BY <2>1, <2>2, <2>3, PipeStutters DEF pipe
<1> QED
  BY <1>1, <1>2, <1>3, <1>4 DEF Next

\* The simulator implements the pipeline of episodes, for every configuration,
\* layer profile and control trace: the Host passes its barrier, starts the
\* next episode and stops the simulation only when the target has replayed its
\* whole trace and the last draft command has left the device.
THEOREM PipelineImplemented == Spec => ImplementsPipeline
<1>1. Inv => Mapped
  BY WorkIsMapped
<1>2. Init /\ Mapped => PL!Init
  <2> SUFFICES ASSUME Init, Mapped PROVE PL!Init
    OBVIOUS
  <2>1. episode = 0 /\ host_pc = "launch" /\ stopped = FALSE
    BY DEF Init, HOST!Init
  <2>2. Status(TargetWork) = "idle" /\ Status(DraftWork) = "idle"
    BY <2>1 DEF Mapped, TargetStatus, DraftStatus
  <2> QED
    BY <2>1, <2>2 DEF PL!Init
<1>3. Inv /\ Mapped /\ Mapped' /\ [Next]_vars => [PL!Next]_(PL!vars)
  BY PipelineStep
<1> QED
  BY <1>1, <1>2, <1>3, Invariance, PTL DEF Spec, ImplementsPipeline, PL!Spec
=============================================================================
